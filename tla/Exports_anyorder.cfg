CONSTANTS
  Clients = {b1}
  Workers = {w1}
  Users = {u1}
  Orgs = {o1, o2}
  Jobs = {j1}
  Diags = {d1, d2}
  DiagResults = {r1}
  OrgOf <- MCOrgOf
  Rank <- MCRank
  PageSize = 2
  Disciplined = {}
  MaxFaults = 0
  NoJob = NoJob
  NoScope = NoScope
  NoResult = NoResult
  NoArtifact = NoArtifact
  Stray = Stray
  Free = Free
  o1 = o1
  o2 = o2
  d1 = d1
  d2 = d2
  d3 = d3
SPECIFICATION Spec
INVARIANTS
  SnapshotIsSound
  AnswersStayInTenant
