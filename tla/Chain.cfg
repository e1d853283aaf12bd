CONSTANTS
    N = 3
    Messages = {m1, m2}
    NoMessage = NoMessage
    MaxLosses = 2
SPECIFICATION FairSpec
\* All messages in the last queue, or waiting at a deaf stage.
CHECK_DEADLOCK FALSE
INVARIANTS
    DuplicatesBounded
    DeafStillDeclares
PROPERTIES
    ChainDelivers
    MessagesComeThrough
