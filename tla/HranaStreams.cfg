SPECIFICATION LiveSpec
CONSTANTS
  s1 = s1
  s2 = s2
  r1 = r1
  r2 = r2
  StreamIds = {s1, s2}
  Requests = {r1, r2}
  NoStream = NoStream
  Expiration = 1
  CleanupTime = 4
  IdleSleep = 3
  MaxSeq = 2
INVARIANTS NeverPanics BatonUsedOnce IdleIsTimed AlarmIsSet
PROPERTY StreamsEnd
