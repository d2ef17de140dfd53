CONSTANTS
  Publishers = {p1, p2}
  Once = {p2}
  Events = {1, 2}
  Poison = {2}
  Streams = {s1, s2}
  StreamOf <- MCStreamOf
  Encoding <- MCMixedEncoding
  BatchSize = 2
  RetryBase = 1
  RetryMax = 1
  AttemptCap = 2
  MaxFaults = 2
  MaxDamage = 1
  None = None
  Free = Free
  NoMarker = NoMarker
  BadMarker = BadMarker
  p1 = p1
  p2 = p2
  s1 = s1
  s2 = s2
  v1 = v1
  v2 = v2
SPECIFICATION Spec
INVARIANTS
  AtMostOnce
  PublishedIsStreamed
  PoisonIsolated
  LockDiscipline
  UnreportedIsPublished
  IInv
PROPERTIES
  PublishedIsFinal
  DeliverySpec
