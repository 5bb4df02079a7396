SPECIFICATION FairSpec
CONSTANTS
    Stream = {s1, s2}
    MetricsEnabled = TRUE
CHECK_DEADLOCK FALSE
INVARIANTS TypeOK QuietExit OrderlyShutdown
PROPERTY ShutdownCompletes
