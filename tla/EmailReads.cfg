CONSTANTS
  Calls = {c1, c2}
  Deliveries = {d1}
  Users = {u1}
  RecipientOf <- MCRecipientOf
  Emails = {a, b}
  MaxTime = 0
  MaxFaults = 0
  Writer = Writer
  Revoked = Revoked
  NoEmail = NoEmail
  NoTime = NoTime
  NoDelivery = NoDelivery
  Free = Free
  c1 = c1
  c2 = c2
  u1 = u1
  a = a
  b = b
  d1 = d1
SPECIFICATION ReadSpec
INVARIANTS
  GetIsCurrent
