CONSTANTS
  Jobs = {j1, j2}
  Results = {r1}
  NoResult = NoResult
  Emails = {a}
  NoEmail = NoEmail
  MaxLost = 1
SPECIFICATION FairSpec
INVARIANTS
  AnnouncedIsCommitted
  MailIsEarned
PROPERTIES
  EveryJobEnds
