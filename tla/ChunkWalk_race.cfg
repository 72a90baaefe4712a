SPECIFICATION Spec
CONSTANTS
  Nodes <- MCNodes
  Trees <- MCTrees
  Callers = {c1, c2}
  MaxNodes = 4
INVARIANTS IndexIsWhole FailureHasCause
PROPERTIES CallsEnd
