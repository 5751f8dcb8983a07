SPECIFICATION LiveSpec
CONSTANTS
  s1 = s1
  n1 = n1
  n2 = n2
  Schemas = {s1}
  Linked <- TwoLinked
  Busy = {n1}
  MaxJobs = 2
  MaxConcurrent = 2
  MaxBatch = 2
  FaultKinds = {"io", "lost", "message", "unblocked", "sql", "schema", "lag", "crash"}
  MaxFaults = 1
INVARIANTS
  ExactlyOnce
  NeverTorn
  WritesStayBlocked
  WritesUnblocked
  CountersAgree
  NeverPanics
  AnswerIsTrue
PROPERTY
  JobsFinish
CHECK_DEADLOCK FALSE
