CONSTANTS
    Messages = {m1, m2, m3, m4}
    NoJob = NoJob
    ConverterMayCrash = TRUE
SPECIFICATION FairSpec
\* The service stops in a state where undefined is TRUE.
CHECK_DEADLOCK FALSE
INVARIANTS
    TypeOK
    ServedOnce
    EnvOfRunningJob
    LiveJobsQueued
PROPERTIES
    UnderflowOnlyByCrash
    ServedInOrder
    EveryJobEnds
