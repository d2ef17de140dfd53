CONSTANTS
  Publishers = {p1, p2}
  Once = {}
  Events = {1, 2}
  Poison = {1}
  Streams = {s1, s2}
  StreamOf <- MCStreamOf
  Encoding <- MCEncoding
  BatchSize = 2
  RetryBase = 1
  RetryMax = 1
  AttemptCap = 1
  MaxFaults = 2
  MaxDamage = 0
  None = None
  Free = Free
  NoMarker = NoMarker
  BadMarker = BadMarker
  p1 = p1
  p2 = p2
  s1 = s1
  s2 = s2
  v1 = v1
  v2 = v2
SPECIFICATION FairSpec
PROPERTIES
  EveryEventPublished
  StopIsHonoured
