SPECIFICATION Spec
CONSTANTS
  Globals <- MCGlobals
  Functions <- MCOneParameter
  Bodies <- MCPlainBodies
  Leftovers <- MCNoLeftovers
INVARIANT LiveBindingsSurvive
CHECK_DEADLOCK FALSE
