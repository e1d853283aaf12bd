CONSTANTS
    Messages = {m1, m2, bad}
    Malformed = {bad}
    NoJob = NoJob
    NoDelivery = NoDelivery
    ConverterMayCrash = TRUE
    LinkMayBreak = FALSE
    MaxSessions = 3
    MaxRestarts = 2
SPECIFICATION FairSpec
\* All messages settled, or no session left: nothing more to do.
CHECK_DEADLOCK FALSE
INVARIANTS
    NoLoss
PROPERTIES
    AllSettled
