SPECIFICATION Spec
CONSTANTS
  Items <- Five
  Kind <- Kinds5
  Size <- Sizes5
  Salience <- Salience5
  Mentions <- Mentions5
  Queries <- About
  Strong = 2
  HotMax = 96
  Slots = 5
  HotCut = 20
  Prefix = 6
  TopK = 4
  Wordy = {2}
  Fenced = {5}
  GistChars = 12
  SkipFloor = 30
  Limits = {20, 60}
  Floor = 50
  DedupK = 2
  Keep = 2
  Warm = 1
  FallbackK = 1
  SpanK = 2
  MaxT = 5
  MaxFaults = 1
INVARIANTS PackFits HotFits
PROPERTIES NothingSuppressedUnseen SkipHidesNoChange
CHECK_DEADLOCK FALSE
