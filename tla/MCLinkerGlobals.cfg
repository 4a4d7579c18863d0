CONSTANTS
    File <- MCSymbolFile
    MaxInputs = 2
    WordSize = 2
    Words = 16
SPECIFICATION LinkSpec
INVARIANTS
    LastGlobalWins
