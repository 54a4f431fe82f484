CONSTANTS
    Inputs <- MCInputs
    MaxPieces = 2
    ExtTypes = {5}
    Compatible = FALSE
    Float64 = FALSE
    Base = 4
    Mantissa = 3
    EMax = 6
    Rounds = TRUE
SPECIFICATION Spec
CHECK_DEADLOCK FALSE
INVARIANTS
  ValuesAsSent
  PiecesWhole
  BytesAsWritten
