SPECIFICATION AluSpec
CONSTANTS
  Width = 2
  Factors <- AllFactors
  Dividends <- AllDividends
INVARIANTS ResultsImmediate
