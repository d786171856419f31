SPECIFICATION FairSpec
CONSTANTS
    NPROC = 1
    MaxSleep = 2
    MaxCreate = 1
PROPERTY SleeperWakes
CHECK_DEADLOCK FALSE
