SPECIFICATION ReplySpec
CONSTANTS
  Requests <- RequestsDef
  Scripts <- ScriptsDef
  Resumed <- ResumedDef
  TokenSizes = {1, 2}
  MarkerHold = 4
  MaxText = 27
INVARIANTS
  ReplyIsShown
  ContentStopsAtMarkup
  TrackerIsExact
CHECK_DEADLOCK FALSE
