SPECIFICATION FairSpec
CONSTANT MaxFailures = 3
INVARIANTS
    TypeOK
    ReconnectArmed
    ListenerReadiness
    OneConsumerWithPrefetch
    DeliveredWhenReady
PROPERTY EventuallyReady
\* the program stops, or is stuck after an overflow
CHECK_DEADLOCK FALSE
