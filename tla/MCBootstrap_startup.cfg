SPECIFICATION FairSpec
CONSTANTS
    w1 = w1
    w2 = w2
    Workers <- MCWorkers
    Configs <- MCConfigs
    Accounts = {"account"}
    MaxStarts = 3
    MaxDeaths = 2
INVARIANTS
    TypeOK
    ServingIsSeeded
    FailureHasCause
    HistoryIsWritable
PROPERTIES
    RowsAreKept
    StartEnds
CHECK_DEADLOCK FALSE
