SPECIFICATION Spec
CONSTANTS
  ta = ta
  tb = tb
  Lost = Lost
  Histories <- HistoriesDef
  Configs <- ConfigsDef
  Window = 3
  Ratio = 4
  MaxRaw = 8
  Align = 2
  ResumeMin = 2
  StreamMax = 2
  MaxFaults = 1
INVARIANTS
  CacheServesCheckpoint
  PayloadIsComplete
