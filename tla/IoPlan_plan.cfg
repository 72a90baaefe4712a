SPECIFICATION Spec
CONSTANTS
  Width = 16
  Size = 6
  MaxGap = 1
  MaxRequest = 4
  Inputs <- MCInputs
INVARIANTS ScatterExact PlanInFile
