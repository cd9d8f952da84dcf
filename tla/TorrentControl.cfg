CONSTANTS
    MaxActs = 3
    MaxWait = 3
SPECIFICATION FairSpec
INVARIANTS ControlOK StoppedDoesNotRun RunningIsLetRun DownloadsAfterReload KeptAsWanted
PROPERTIES RechecksEnd
CHECK_DEADLOCK FALSE
