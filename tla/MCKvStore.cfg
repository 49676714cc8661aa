SPECIFICATION Spec
CONSTANTS
  Texts <- MCTexts
  Bytes <- MCBytes
  NoText = NoText
  Absent = Absent
  Trailers = {0, 1}
  Budget = 8
  Ctxs = {1, 2}
  ColdMax = 1
INVARIANTS WholeUnderItsName AcknowledgedSurvives WithinBudget
PROPERTIES KeepsSnapshots
