SPECIFICATION Spec
CONSTANTS
    Ring = 3
    Need = 2
    Window = 2
    LaserTime = 2
    QueueSize = 2
    MaxTaps = 5
INVARIANTS TypeOK SetupAllOrNothing TogglesCostTaps
PROPERTY LaserGoesDark
