SPECIFICATION Spec
CONSTANTS
    gps_list_max = 3
    Rate = 3
    MEG1 = 2
    YEAR5 = 20
    Base = 30
    Clear = 5
    Steps <- MCSteps
    MaxTime = 18
INVARIANTS TypeOK TimeIsTrue
PROPERTY BlockInOrder
