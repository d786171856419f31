SPECIFICATION FairSpec
CONSTANTS
    NPROC = 3
    MaxSleep = 1
    MaxCreate = 3
INVARIANTS
    QueueIsRunnable
    OneRunning
    MonitorCoversLive
PROPERTIES
    NoOvertaking
    RunnableRuns
CHECK_DEADLOCK FALSE
