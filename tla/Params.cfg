\* Two parameters of two values each, one of them a block, over two upgrades.
CONSTANTS
  Versions = {1, 2, 3}
  Cells = {"dev", "mac"}
  Table <- ParamTable
  Size <- ParamSize
  Blocks = {"mac"}
  Default <- ParamDefault
  Values = {0, 1}
  Torn = Torn
SPECIFICATION ParamsSpec
INVARIANTS ReadsAreWhole SavedIsKept
PROPERTIES TakesWhatWasSaved
