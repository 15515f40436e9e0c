SPECIFICATION FairSpec
CONSTANTS
    Configs <- MCConfigs
    Tags = {"A", "B", "C"}
    MaxAccesses = 4
INVARIANTS HitsHaveData DirtyDataKept MshrMatchesRequests
PROPERTIES ReadsAnswered
CHECK_DEADLOCK FALSE
