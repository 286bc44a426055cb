CONSTANTS
  Argv <- MCArgv
  SizeMax <- MCSizeMax
  MaxArgs = 3
  Sizes = {3, 23}
  Precision = 10
  Texts = {"", "a", "bc"}
  TextLen <- MCTextLen
  Tails = {3}
  ValueLimit = 8
  MaxLines = 4
SPECIFICATION MainSpec
INVARIANTS MainTypeOK CountsRight FirstLineKept StatsRight OutputShape OptionsAsGiven ErrorNamesOption
