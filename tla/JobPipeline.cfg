CONSTANTS
    Messages = {m1, m2, bad}
    Malformed = {bad}
    NoJob = NoJob
    NoDelivery = NoDelivery
    ConverterMayCrash = FALSE
    LinkMayBreak = TRUE
    MaxSessions = 3
    MaxRestarts = 1
SPECIFICATION Spec
\* All messages settled, or no session left: nothing more to do.
CHECK_DEADLOCK FALSE
INVARIANTS
    TypeOK
    NoLoss
    AcksDecided
    LiveJobIsCurrent
    DistinctJobs
PROPERTIES
    StageDelivers
