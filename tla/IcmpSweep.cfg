SPECIFICATION Spec
SYMMETRY Symmetry
CONSTANTS
  Sweeps = {s1, s2}
  Others = others
  Types <- TwoTypes
  Timeout = 4
  Ids = 4
  FirstIds = {2}
  Lateness = 1
  Local = TRUE
  MaxForeign = 2
INVARIANTS
  PassMeansAnswered
  NoFalseFailure
  
