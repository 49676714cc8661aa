\* Two passes (a token, a prompt, a seed) and one failure.  A call that
\* nobody makes rests, and a process Metal stopped is at an end.
SPECIFICATION Spec
CONSTANTS
  e1 = e1
  e2 = e2
  e3 = e3
  e4 = e4
  e5 = e5
  e6 = e6
  Experts <- ExpertsDef
  LayerOf <- LayerOfDef
  Alone <- AloneDef
  Picks <- PicksDef
  Layers = 2
  HashLayers = {0, 2}
  NSel = 2
  Budget = 3
  MaxPasses = 2
  MaxFaults = 1
SYMMETRY Alike
CHECK_DEADLOCK FALSE
INVARIANT BuffersAreSound
INVARIANT StaysWithinBudget
INVARIANT NothingLost
INVARIANT NeverStuck
