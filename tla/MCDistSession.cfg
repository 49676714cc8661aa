SPECIFICATION Spec
CONSTANTS
  wa = wa
  wb = wb
  wc = wc
  Workers = {wa, wb, wc}
  Span <- SpanDef
  LocalEnd = 0
  LastLayer = 2
  LocalHead = TRUE
  Transcripts <- TranscriptsDef
  Prompts <- PromptsDef
  Tokens = {1, 2}
  Cap = 1
  Window = 2
  Kept <- KeptDef
  NoHash = NoHash
  MaxFaults = 1
  MaxLate = 1
INVARIANTS
  LogitsSound
  PlanIsCurrent
  SavedIsWhole
PROPERTIES
  CallsEnd
  WorkedReachesTarget
CHECK_DEADLOCK FALSE
