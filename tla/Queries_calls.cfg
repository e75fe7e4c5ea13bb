CONSTANTS
  MaxText = 4
  MaxEdits = 2
  MaxLines = 3
  MaxSegments = 3
  MaxSymbols = 4
SPECIFICATION Spec
INVARIANTS EditsAreSimultaneous PositionsAgree PatternsMatchSegments WalksAgree SymbolsAreFound
CHECK_DEADLOCK FALSE
