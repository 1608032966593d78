SPECIFICATION FairSpec
CONSTANTS
    Lines = 2
    MaxStages = 3
    MaxCommands = 5
    Cap = 1
    MaxEnds = 5
INVARIANT EndsBelong
PROPERTY LineEnds
