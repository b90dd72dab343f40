CONSTANTS
    MaxGen = 1
    Width = 2
    Cap = 2
    MaxRecv = 1
CHECK_DEADLOCK FALSE
SPECIFICATION FairSpec
PROPERTIES AllSocketsRead
