SPECIFICATION Spec
CONSTANTS
  Targets <- MCTargets
  Layouts <- MCLayouts
  Open0 <- MCOpen0
  Wr <- MCWr
INVARIANTS ProgramIsDropped ErrorMeansNoProgram ProgramHoldsItsOwn
PROPERTY SpawnReturns
