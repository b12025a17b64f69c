SPECIFICATION Spec
CONSTANTS
  Accuracy = 100
  Ln2 = 69
  OnePercent = 1
  MaxTerms = 300
  Inputs <- MCInputs
  I0 = 3
  IIdeal = 20
  Tolerance = 3
INVARIANTS
  TypeOK
  SeriesConverges
  CloseToCurve
  InterestInRange
PROPERTIES
  ImplementsSum
