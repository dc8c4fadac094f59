SPECIFICATION Spec
CONSTANTS
    Callers = {c1, c2}
    Outputs <- MCOutputs
    MaxIndex = 3
INVARIANTS TypeOK ShowsLowest WalkInBounds FlashesNameError
