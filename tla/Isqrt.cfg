CONSTANTS
    Width = 10
    Inputs <- MCInputs
CHECK_DEADLOCK FALSE
SPECIFICATION Spec
INVARIANTS AboveRoot ReturnsFloorRoot FitsWord
PROPERTY Terminates
