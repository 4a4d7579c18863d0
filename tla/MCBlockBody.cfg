SPECIFICATION Spec
CONSTANTS
  Globals <- MCGlobals
  Functions <- MCFunctions
  Bodies <- MCBodies
  Leftovers <- MCLeftovers
INVARIANTS
  ArgumentsArrive
  CallsPreserve
  ForeignCallsAligned
  ResultDelivered
  ReturnsBalanced
  RecordReturned
PROPERTY ClosuresKeep
CHECK_DEADLOCK FALSE
