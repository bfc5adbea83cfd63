SPECIFICATION Spec
CONSTANTS
  c1 = c1  c2 = c2  s1 = s1  q1 = q1  q2 = q2
  NoId = NoId  NoPack = NoPack  NoCall = NoCall
  Sessions = {s1}
  Calls = {c1}
  Length = 2
  HostId <- NoIds
  Body <- Distinct
  Skipped = {}
  Queries = {q1}
  Budgets = {1}
  Impl = "ts"
  Serial = TRUE
  Ops = {"ingest", "assemble"}
  Faults = {}
  MaxCalls = 3
INVARIANT IngestOnce
CHECK_DEADLOCK FALSE
