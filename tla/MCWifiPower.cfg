SPECIFICATION Spec
CONSTANTS
    Tasks = {t1, t2}
    MaxTime = 3
SYMMETRY TaskSymmetry
INVARIANTS TypeOK AwakeWhileHeld ShareIsPercentage
