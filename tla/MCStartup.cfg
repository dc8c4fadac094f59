SPECIFICATION Spec
CONSTANTS
    Buflen = 2
    Attempts = 5
    MaxImage = 3
INVARIANTS TypeOK CredentialsComplete CurrentMeansInstalled GivesUpLast
PROPERTY StartupEnds
