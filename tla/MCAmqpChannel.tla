---------------------------- MODULE MCAmqpChannel ----------------------------
\* Operations of every kind: with a Deferred, a name, a message or none; with an
\* answer that is awaited, one that is not, and no answer at all.
EXTENDS AmqpChannel

SomeOperations ==
    {"declareQueue", "consume", "get", "publish", "rejectMultiple", "recover",
     "declareExchangeNoWait", "close"}
=============================================================================
