SPECIFICATION Spec
CONSTANTS
  Modulus = 8
  MemorySize = 2
  MaxPeephole = 3
  MaxContext = 2
  MaxBlock = 4
  MaxLoops = 2
  Machines <- MCMachines
  Arenas <- MCDeferredCalls
INVARIANT
  KeepsMeaning
