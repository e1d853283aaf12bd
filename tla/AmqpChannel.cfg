CONSTANTS
    Operations <- SomeOperations
    Oversized = {"declareQueue"}
    MaxSize = 1
    MaxCalls = 3
    MaxMessages = 2
    MaxErrors = 1
SPECIFICATION FairSpec
INVARIANTS
    TypeOK
    CallsInOrder
    OneRequestAtATime
    BrokerSatisfied
    MessagesWhole
PROPERTIES
    AnswersMatch
    EveryRequestResolved
CHECK_DEADLOCK FALSE
