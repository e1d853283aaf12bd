CONSTANTS
    Messages = {m1}
    Malformed = {}
    NoJob = NoJob
    NoDelivery = NoDelivery
    ConverterMayCrash = FALSE
    LinkMayBreak = TRUE
    MaxSessions = 2
    MaxRestarts = 0
SPECIFICATION FairSpec
\* All messages settled, or no session left: nothing more to do.
CHECK_DEADLOCK FALSE
PROPERTIES
    AllSettled
