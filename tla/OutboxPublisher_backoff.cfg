CONSTANTS
  Publishers = {p1}
  Once = {}
  Events = {1}
  Poison = {1}
  Streams = {s1, s2}
  StreamOf <- MCStreamOf
  Encoding <- MCEncoding
  BatchSize = 1
  RetryBase = 30
  RetryMax = 300
  AttemptCap = 6
  MaxFaults = 1
  MaxDamage = 0
  None = None
  Free = Free
  NoMarker = NoMarker
  BadMarker = BadMarker
  p1 = p1
  p2 = p2
  s1 = s1
  s2 = s2
  v1 = v1
  v2 = v2
SPECIFICATION Spec
PROPERTIES
  BackoffSchedule
