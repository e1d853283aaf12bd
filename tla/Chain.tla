------------------------------- MODULE Chain -------------------------------
(***************************************************************************)
(* The chain of stages the configurations describe: stage i consumes       *)
(* queue i and publishes its results to queue i + 1, through one broker.   *)
(* Every stage is a process of its own, started and stopped on its own.  A *)
(* stage declares the queue it publishes to and then consumes its sub      *)
(* queue, which the stage before it declares (queue 1 was made by whoever   *)
(* feeds the chain).  A queue may also have been made by someone else, with *)
(* other arguments than the program's: then the broker refuses to declare  *)
(* it.                                                                     *)
(*                                                                         *)
(* A stage is seen from outside: the frames it writes and the broker has   *)
(* not handled yet, and the one message it holds, for the prefetch count   *)
(* is 1.  What happens inside it between a delivery and the end of the job *)
(* is JobPipeline's subject.  A stage is lost by a crash or a stop, and    *)
(* then every frame the broker has not handled is lost with it.  A link    *)
(* lost by a stage that goes on converting is left to JobPipeline and      *)
(* RabbitLink.                                                             *)
(*                                                                         *)
(* A message stands for an input of the chain together with the results    *)
(* made from it: each result gets a message_id of its own, so two of them  *)
(* are never taken for the same message.                                   *)
(***************************************************************************)
EXTENDS Naturals, Sequences, FiniteSets

CONSTANTS
    N,          \* stages
    Messages,   \* what is put into the first queue
    NoMessage,
    MaxLosses   \* bound: crashes and stops of stages

ASSUME ChainAssumption ==
    /\ N \in Nat \ {0}
    /\ NoMessage \notin Messages
    /\ MaxLosses \in Nat

VARIABLES
    stage,      \* is it down, up, or refused by the broker
    toBroker,   \* frames the broker has not handled
    held,       \* the unacknowledged message of a stage
    queues,     \* is there a queue, and did the program make it
    copies,     \* how often each queue holds each message
    rejected,   \* messages a stage could not convert
    losses

stageVars == <<stage, toBroker, held>>
vars == <<stage, toBroker, held, queues, copies, rejected, losses>>

Stages == 1..N
Queues == 1..(N + 1)

\* Mutant: listeners first.
RegistrationsListenerFirst == <<"consume", "declare">>

\* Mutant: only the listeners are registered.
RegistrationsOfListeners == <<"consume">>

\* handleReadyChanged(true) registers the senders, then the listeners.
Registrations == <<"declare", "consume">>

\* Mutant: the message is acknowledged before its result is published.
FramesOfResultAckFirst == <<"ack", "publish">>

\* Mutant: the result is sent twice.
FramesOfResultTwice == <<"publish", "publish", "ack">>

\* handleJobFinished() with a result.
FramesOfResult == <<"publish", "ack">>

\* handleJobFinished() without one, and handleJobMessage() refusing a message.
FramesOfRejection == <<"ack">>

-----------------------------------------------------------------------------
Init ==
    /\ stage = [i \in Stages |-> "down"]
    /\ toBroker = [i \in Stages |-> <<>>]
    /\ held = [i \in Stages |-> NoMessage]
    /\ queues \in [Queues -> {"none", "foreign"}]
    /\ queues[1] = "foreign"
    /\ copies = [q \in Queues |-> [m \in Messages |-> IF q = 1 THEN 1 ELSE 0]]
    /\ rejected = {}
    /\ losses = 0

\* The stage is started and its connection is ready.
HandleReadyChanged(i) ==
    /\ stage[i] = "down"
    /\ stage' = [stage EXCEPT ![i] = "up"]
    /\ toBroker' = [toBroker EXCEPT ![i] = Registrations]
    /\ UNCHANGED <<held, queues, copies, rejected, losses>>

\* The stage holds a message and has sent nothing about it.
Converting(i) == held[i] # NoMessage /\ toBroker[i] = <<>>

\* The script has converted the message.
FinishWithResult(i) ==
    /\ Converting(i)
    /\ toBroker' = [toBroker EXCEPT ![i] = FramesOfResult]
    /\ UNCHANGED <<stage, held, queues, copies, rejected, losses>>

\* The message cannot be read, or the script has failed on it.
Reject(i) ==
    /\ Converting(i)
    /\ toBroker' = [toBroker EXCEPT ![i] = FramesOfRejection]
    /\ rejected' = rejected \cup {held[i]}
    /\ UNCHANGED <<stage, held, queues, copies, losses>>

-----------------------------------------------------------------------------
(***************************************************************************)
(* The broker handles the frames of a stage in the order they were sent.   *)
(***************************************************************************)

Takes(i, frame) ==
    /\ toBroker[i] # <<>>
    /\ Head(toBroker[i]) = frame
    /\ toBroker' = [toBroker EXCEPT ![i] = Tail(toBroker[i])]

Exists(q) == queues[q] # "none"

BrokerDeclares(i) ==
    /\ queues[i + 1] # "foreign"
    /\ Takes(i, "declare")
    /\ queues' = [queues EXCEPT ![i + 1] = "declared"]
    /\ UNCHANGED <<stage, held, copies, rejected, losses>>

BrokerConsumes(i) ==
    /\ Exists(i)
    /\ Takes(i, "consume")
    /\ UNCHANGED <<stage, held, queues, copies, rejected, losses>>

\* The queue to declare exists with other arguments, or there is none to
\* consume: the broker closes the channel.  The program logs the one, does not
\* hear of the other, and never opens another channel on the connection.
BrokerRefuses(i) ==
    /\ toBroker[i] # <<>>
    /\ \/ Head(toBroker[i]) = "declare" /\ queues[i + 1] = "foreign"
       \/ Head(toBroker[i]) = "consume" /\ ~Exists(i)
    /\ stage' = [stage EXCEPT ![i] = "deaf"]
    /\ toBroker' = [toBroker EXCEPT ![i] = <<>>]
    /\ UNCHANGED <<held, queues, copies, rejected, losses>>

\* One delivery at a time: setQos(prefetchCount).
BrokerDelivers(i, m) ==
    /\ stage[i] = "up"
    /\ toBroker[i] = <<>>
    /\ held[i] = NoMessage
    /\ copies[i][m] > 0
    /\ held' = [held EXCEPT ![i] = m]
    /\ copies' = [copies EXCEPT ![i][m] = copies[i][m] - 1]
    /\ UNCHANGED <<stage, toBroker, queues, rejected, losses>>

\* The default exchange drops a message whose queue does not exist.
BrokerRoutes(i) ==
    /\ Takes(i, "publish")
    /\ copies' = IF Exists(i + 1)
                 THEN [copies EXCEPT ![i + 1][held[i]] = copies[i + 1][held[i]] + 1]
                 ELSE copies
    /\ UNCHANGED <<stage, held, queues, rejected, losses>>

BrokerSettles(i) ==
    /\ Takes(i, "ack")
    /\ held' = [held EXCEPT ![i] = NoMessage]
    /\ UNCHANGED <<stage, queues, copies, rejected, losses>>

\* The process is gone.  The broker puts the message it held back.
Lose(i) ==
    /\ losses < MaxLosses
    /\ stage[i] # "down"
    /\ losses' = losses + 1
    /\ stage' = [stage EXCEPT ![i] = "down"]
    /\ toBroker' = [toBroker EXCEPT ![i] = <<>>]
    /\ held' = [held EXCEPT ![i] = NoMessage]
    /\ copies' = IF held[i] = NoMessage
                 THEN copies
                 ELSE [copies EXCEPT ![i][held[i]] = copies[i][held[i]] + 1]
    /\ UNCHANGED <<queues, rejected>>

BrokerHandles(i) ==
    \/ BrokerDeclares(i) \/ BrokerConsumes(i) \/ BrokerRefuses(i)
    \/ BrokerRoutes(i) \/ BrokerSettles(i)
    \/ \E m \in Messages : BrokerDelivers(i, m)

Next ==
    \E i \in Stages :
        \/ HandleReadyChanged(i)
        \/ FinishWithResult(i) \/ Reject(i)
        \/ BrokerHandles(i)
        \/ Lose(i)

Spec == Init /\ [][Next]_vars

(***************************************************************************)
(* A stage that is down is started (again); the broker handles what it is  *)
(* sent, and delivers; a job ends, in one way or the other.  A loss is     *)
(* never forced, and neither is the restart of a stage that is deaf: the   *)
(* process runs on, and nothing tells that it does not consume.            *)
(***************************************************************************)
Fairness ==
    \A i \in Stages :
        /\ WF_vars(HandleReadyChanged(i))
        /\ WF_vars(FinishWithResult(i) \/ Reject(i))
        /\ WF_vars(BrokerHandles(i))

FairSpec == Spec /\ Fairness

-----------------------------------------------------------------------------
(***************************************************************************)
(* Properties.                                                             *)
(***************************************************************************)

TypeOK ==
    /\ stage \in [Stages -> {"down", "up", "deaf"}]
    /\ toBroker \in [Stages -> Seq({"declare", "consume", "publish", "ack"})]
    /\ held \in [Stages -> Messages \cup {NoMessage}]
    /\ queues \in [Queues -> {"none", "foreign", "declared"}]
    /\ copies \in [Queues -> [Messages -> Nat]]
    /\ rejected \subseteq Messages
    /\ losses \in Nat

\* Message m is in queue q, delivered or not.
InQueue(m, q) == copies[q][m] > 0 \/ (q \in Stages /\ held[q] = m)

\* The chain as a whole: one stage from the first queue to the last.
outstanding == {m \in Messages : \E q \in Stages : InQueue(m, q)}
published == {m \in Messages : copies[N + 1][m] > 0}

AtLeastOnceSpec == INSTANCE AtLeastOnce

\* The chain of any number of stages promises what one stage does: a message
\* put into the first queue leaves the last stage's hands only after a result
\* of it reached the last queue, or after it was rejected on the way
\* (runnerservice.cpp:124-136, sendResultMessage() before confirmMessageTag(),
\* at each stage).
ChainDelivers == AtLeastOnceSpec!Spec

\* The copies of m that wait in queues, numbered in each, and the stages that
\* hold one.
Waiting(m) == UNION {{q} \X (1..copies[q][m]) : q \in Queues}
Holders(m) == {i \in Stages : held[i] = m}

\* The copies of m in all queues, the delivered ones included.
CopiesOf(m) == Cardinality(Waiting(m)) + Cardinality(Holders(m))

\* The stages whose result of m is published while m waits for its ack.
Doubling(m) == {i \in Holders(m) : toBroker[i] = <<"ack">>}

\* Only a crash between the publish and the ack doubles a message: after k
\* losses there are at most k copies too many, and those the broker is about
\* to settle (runnerservice.cpp:133-136: two frames of one handler).
DuplicatesBounded ==
    \A m \in Messages : CopiesOf(m) <= 1 + losses + Cardinality(Doubling(m))

\* A stage the broker refused leaves the queue it publishes to behind: starting
\* every stage once, in any order, makes every queue, and after that no consumer
\* is refused (rabbitmqclient.cpp:69-72, senders first).
DeafStillDeclares == \A i \in Stages : stage[i] = "deaf" => Exists(i + 1)

\* A message is stranded in the queue of a stage that the broker refused.
Stranded(m) == \E i \in Stages : stage[i] = "deaf" /\ copies[i][m] > 0

\* Every message comes through, is rejected, or waits at a deaf stage for ever:
\* nothing is left behind between two stages, whatever the order they are
\* started in, unless the broker refused a consumer.
MessagesComeThrough ==
    \A m \in Messages : <>[](m \in published \cup rejected \/ Stranded(m))
=============================================================================
