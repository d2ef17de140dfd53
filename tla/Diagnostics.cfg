CONSTANTS
  Clients = {b1}
  Workers = {w1, w2}
  Users = {u1}
  Orgs = {o1}
  Jobs = {j1}
  Results = {r1, r2}
  Disciplined = {w1}
  MaxFaults = 2
  NoJob = NoJob
  NoScope = NoScope
  NoResult = NoResult
  Free = Free
SPECIFICATION FairSpec
INVARIANTS
  TypeOK
  AnswerIsDurable
PROPERTIES
  CompletionIsAuthorized
  ContractSpec
  JobsGetDone
