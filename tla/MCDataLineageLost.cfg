SPECIFICATION DataSpec
CONSTANTS
    Home = Home
    s1 = s1
    Suitcases <- OneSuitcase
    Keys = {"row"}
    Files = {}
    ConflictPolicy = "collect"
    MaxWrites = 2
    MaxSelections = 1
    MaxFaults = 0
CHECK_DEADLOCK FALSE
INVARIANT NoWriteLost
