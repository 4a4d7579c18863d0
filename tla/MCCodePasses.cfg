SPECIFICATION MCSpec
CONSTANTS
  Modulus = 8
  MemorySize = 2
  MaxPeephole = 3
  MaxContext = 2
  MaxBlock = 4
  MaxLoops = 2
  MaxClasses = 4
  MaxOps = 4
  Addresses = {1, 2}
  Blocks <- MCBlocks
  OpLists <- MCOpLists
  Machines <- MCMachines
  Arenas <- MCArenas
  File <- MCFiles
  MaxInputs = 2
  WordSize = 2
  Words = 16
INVARIANTS
  ReturnsPermutation
  NothingCrossesABarrier
  OnlySlowerNeighboursPass
  DropsExactlyTheDead
  
  BlockedCallsStay
  UnrollKeepsIterations
  FirstStrongestWins
  WrittenOnlyIfResolved
  OutputPlacesInputs
PROPERTIES
  EmittedAsScheduled
  OverwrittenLater
  PassesReturn
