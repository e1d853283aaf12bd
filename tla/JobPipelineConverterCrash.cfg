CONSTANTS
    Messages = {m1, m2}
    Malformed = {}
    NoJob = NoJob
    NoDelivery = NoDelivery
    ConverterMayCrash = TRUE
    LinkMayBreak = TRUE
    MaxSessions = 2
    MaxRestarts = 1
SPECIFICATION Spec
\* All messages settled, or no session left: nothing more to do.
CHECK_DEADLOCK FALSE
INVARIANTS
    NoLoss
