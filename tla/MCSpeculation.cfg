SPECIFICATION Spec
CONSTANTS
  ta = ta
  tb = tb
  Eos = Eos
  Lost = Lost
  Tokens = {ta, tb, Eos}
  Top <- TopDef
  Ctx = 8
  Ratio = 4
  Configs <- ConfigsDef
  Prompts <- PromptsDef
  MaxFaults = 2
INVARIANTS
  GraphServesCheckpoint
  GreedyIsTheTarget
CHECK_DEADLOCK FALSE
