SPECIFICATION Spec
CONSTANTS
  c1 = c1  c2 = c2  s1 = s1  q1 = q1  q2 = q2
  NoId = NoId  NoPack = NoPack  NoCall = NoCall
  Sessions = {s1}
  Calls = {c1, c2}
  Length = 2
  HostId <- NamedIds
  Body <- Distinct
  Skipped = {}
  Queries = {q1}
  Budgets = {1}
  Impl = "sidecar"
  Serial = FALSE
  Ops = {"ingest", "assemble"}
  Faults = {}
  MaxCalls = 3
INVARIANT CachedPackSeesFence
CHECK_DEADLOCK FALSE
