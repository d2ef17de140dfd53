CONSTANTS
  Deliveries = {m1}
  Exports = {x1}
  Diags = {d1, d2, d3}
  Users = {u1}
  Recipient <- MCRecipient
  OrgOf <- MCOrgOf
  Rank <- MCRank
  MaxDowngrades = 2
  MaxSnapshots = 2
  MaxDeferred = 1
  Null = Null
  Gone = Gone
  m1 = m1
  x1 = x1
  d1 = d1
  d2 = d2
  d3 = d3
  u1 = u1
  o1 = o1
  o2 = o2
SPECIFICATION Spec
CHECK_DEADLOCK FALSE
INVARIANTS
  SchemaHolds
  RowsAreAnnounced
  SecondMailByRewindOnly
  ObjectIsItsSnapshot
