SPECIFICATION SpecFunctions
CONSTANTS
  P = 13
  ImUnit = 5
  Base = 2
  LogDomain <- Units
  TwoOverSqrtPi = 7
  LogTen = 8
  Variables = {"x", "y"}
  Literals = {3}
  Unaries <- Known1D
  Binaries <- Known2D
  MaxBuilt = 3
  MaxGradients = 1
  Points <- ThePoints
  Tensors = {t1, t2, t3}
  Blocks = {b1, b2, b3, b4, b5}
  Null = Null
VIEW Seen
CHECK_DEADLOCK FALSE
INVARIANTS GradientsAreDerivatives EvaluatorsAgree IndicesAgree TensorsOwnTheirData
PROPERTY TensorsActLikeValues
