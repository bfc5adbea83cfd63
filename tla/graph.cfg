SPECIFICATION Spec
CONSTANTS
  Labels <- Words
  Part <- WordParts
  Cut <- Shortened
  Found <- InText
  Salience <- Weight
  MaxTurns = 1
  MaxFacts = 1
  MaxDurable = 1
  Monotone = TRUE
  Length = 3
  MaxNodes = 6
  MaxClock = 1
INVARIANTS TypeOK CapsKept OneOpenItem LastWordCounts SupersededOnce OneTopic ChainUnbroken VaultKept
CHECK_DEADLOCK FALSE
