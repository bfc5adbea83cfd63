SPECIFICATION Spec
SYMMETRY QuerySymmetry
CONSTANTS
  c1 = c1  c2 = c2  s1 = s1  q1 = q1  q2 = q2
  NoId = NoId  NoPack = NoPack  NoCall = NoCall
  Sessions = {s1}
  Calls = {c1}
  Length = 3
  HostId <- NamedIds
  Body <- Distinct
  Skipped = {2}
  Queries = {q1, q2}
  Budgets = {1, 2}
  Impl = "ts"
  Serial = TRUE
  Ops = {"ingest", "batch", "assemble", "bootstrap", "compact", "profile", "purge", "trim"}
  Faults = {"reject", "error", "crash", "reload"}
  MaxCalls = 3
INVARIANTS TypeOK IngestOnce CachedPackSeesFence AssembleCoversMessages
PROPERTIES CompactKeepsMemory BootstrapRecovers
CHECK_DEADLOCK FALSE
