---------------------------- MODULE JobPipeline ----------------------------
(***************************************************************************)
(* One pipeline stage: the runner program and the broker it talks to.      *)
(*                                                                         *)
(*   broker --deliver--> QueueListener -> ListenerHandler -> RunnerService *)
(*   RunnerService -> ConverterService -> handleJobFinished()              *)
(*   handleJobFinished() --publish, ack--> broker                          *)
(*                                                                         *)
(* The program runs one event loop: each of its actions is one handler,    *)
(* with everything the handler calls.  Frames travel in FIFO order on one  *)
(* channel per session (TCP connection); the handshake of a session is one *)
(* step here (Connect).  The broker is not part of the repository: it is   *)
(* modelled from how the code uses it (manual ack, prefetchCount = 1).     *)
(***************************************************************************)
EXTENDS Naturals, Sequences

CONSTANTS
    Messages,           \* the messages of the sub queue, by message_id
    Malformed,          \* those that are not a valid job (bad JSON, no id, no file)
    NoJob,
    NoDelivery,
    ConverterMayCrash,
    LinkMayBreak,       \* may a connection be lost while the program lives?
    MaxSessions,        \* bound: connections the program makes
    MaxRestarts         \* bound: times the program is started again

ASSUME PipelineAssumption ==
    /\ Malformed \subseteq Messages
    /\ NoJob \notin Messages
    /\ NoDelivery \notin [tag : Nat, msg : Messages]
    /\ ConverterMayCrash \in BOOLEAN
    /\ LinkMayBreak \in BOOLEAN
    /\ MaxSessions \in Nat
    /\ MaxRestarts \in Nat

VARIABLES
    \* ConverterService, and RunnerService::_jobs
    jobs, received, startsPosted, process, jobEnv, undefined,
    \* the rest of the program
    alive,              \* does the process of the program exist?
    ready,              \* _isReady of the queue listener and of the sender
    session,            \* number of the last connection; its channel is _channel
    cached,             \* QueueListener::_messages, by delivery tag
    jobsDeliveryTags,   \* RunnerService::_jobsDeliveryTags, NoTag if absent
    \* the broker and the network
    srcQueue,           \* messages of the sub queue that wait for a consumer
    open,               \* sessions the broker considers alive
    unacked,            \* per session, the delivery that is not acknowledged
    lastTag,            \* per session, the last delivery tag
    down,               \* the delivery on its way to the program
    up,                 \* per session, the frames on their way to the broker
    results,            \* how many results each message has in the pub queue
    \* for the checks
    failed,             \* messages whose own parsing or conversion failed
    restarts            \* how often the program was started again

converterVars == <<received, startsPosted, process, jobEnv, undefined>>
programVars == <<alive, ready, session, cached, jobsDeliveryTags>>
brokerVars == <<srcQueue, open, unacked, lastTag, results>>
vars == <<jobs, converterVars, programVars, brokerVars, down, up, failed, restarts>>

Converter == INSTANCE Converter

Sessions == 1 .. MaxSessions

NoTag == 0   \* delivery tags of a channel start at 1

Delivery == [tag : Nat, msg : Messages]

PublishFrame == [kind : {"publish"}, msg : Messages]
AckFrame == [kind : {"ack"}, tag : Nat]
Publish(m) == [kind |-> "publish", msg |-> m]
Ack(t) == [kind |-> "ack", tag |-> t]

\* The program can take a step of its own.
Running == alive /\ ~undefined

TypeOK ==
    /\ Converter!TypeOK
    /\ alive \in BOOLEAN
    /\ ready \in BOOLEAN
    /\ session \in 0 .. MaxSessions
    /\ cached \subseteq Nat
    /\ jobsDeliveryTags \in [Messages -> Nat]
    /\ srcQueue \subseteq Messages
    /\ open \subseteq Sessions
    /\ unacked \in [Sessions -> Delivery \cup {NoDelivery}]
    /\ lastTag \in [Sessions -> Nat]
    /\ down \in Delivery \cup {NoDelivery}
    /\ up \in [Sessions -> Seq(PublishFrame \cup AckFrame)]
    /\ results \in [Messages -> Nat]
    /\ failed \subseteq Messages
    /\ restarts \in 0 .. MaxRestarts

Init ==
    /\ Converter!Init
    /\ alive = TRUE
    /\ ready = FALSE
    /\ session = 0
    /\ cached = {}
    /\ jobsDeliveryTags = [m \in Messages |-> NoTag]
    /\ srcQueue = Messages
    /\ open = {}
    /\ unacked = [s \in Sessions |-> NoDelivery]
    /\ lastTag = [s \in Sessions |-> 0]
    /\ down = NoDelivery
    /\ up = [s \in Sessions |-> <<>>]
    /\ results = [m \in Messages |-> 0]
    /\ failed = {}
    /\ restarts = 0

-----------------------------------------------------------------------------
(***************************************************************************)
(* The program.                                                            *)
(***************************************************************************)

\* A new connection reached the state in which the pub queue is declared and
\* the consumer of the sub queue is registered.
Connect ==
    /\ Running
    /\ ~ready
    /\ session < MaxSessions
    /\ session' = session + 1
    /\ ready' = TRUE
    /\ open' = open \cup {session + 1}
    /\ UNCHANGED <<jobs, converterVars, alive, cached, jobsDeliveryTags, srcQueue,
                   unacked, lastTag, results, down, up, failed, restarts>>

\* Mutant: the live handles survive the loss of their session.
AbortNothing ==
    UNCHANGED <<jobs, jobsDeliveryTags>>

\* Mutant: the tags are forgotten together with the handles.
AbortForgettingTags ==
    /\ jobs' = {}
    /\ jobsDeliveryTags' = [m \in Messages |-> NoTag]

\* RunnerService::abortAllJobs(): the handles die, their tags stay.
AbortAllJobs ==
    /\ jobs' = {}
    /\ UNCHANGED jobsDeliveryTags

\* setIsReady(false) of the listener: sigConnectionBroken, then _messages is
\* cleared.  Deliveries in transit die with the socket.
LoseConnection ==
    /\ Running
    /\ ready
    /\ ready' = FALSE
    /\ cached' = {}
    /\ down' = NoDelivery
    /\ AbortAllJobs
    /\ UNCHANGED <<converterVars, alive, session, brokerVars, up, failed, restarts>>

\* The program notices a loss first; the broker may take the session for alive
\* for a while, and still read the frames that were sent.
LinkBreaks ==
    /\ LinkMayBreak
    /\ session < MaxSessions
    /\ LoseConnection

\* The program notices that the broker has closed the session.
NoticeClosed ==
    /\ session \notin open
    /\ LoseConnection

\* Mutant: nothing is ever confirmed.
ConfirmNothing(t) == <<>>

\* Frames that confirmReceiving(t) sends: none for an unknown tag.
Confirm(t) ==
    IF ready /\ t \in cached THEN <<Ack(t)>> ELSE <<>>

Send(frames) ==
    up' = [up EXCEPT ![session] = @ \o frames]

\* addMessage() caches the delivery, handleJobMessage() refuses it: it is
\* confirmed at once.
HandleInvalidMessage ==
    /\ Running /\ ready
    /\ down # NoDelivery
    /\ down.msg \in Malformed
    /\ Send(<<Ack(down.tag)>>)
    /\ failed' = failed \cup {down.msg}
    /\ down' = NoDelivery
    /\ UNCHANGED <<jobs, converterVars, programVars, brokerVars, restarts>>

\* Mutant: a message that is known already is confirmed at once.
HandleKnownMessageConfirming ==
    /\ Running /\ ready
    /\ down # NoDelivery
    /\ down.msg \notin Malformed
    /\ jobsDeliveryTags[down.msg] # NoTag
    /\ Send(<<Ack(down.tag)>>)
    /\ down' = NoDelivery
    /\ UNCHANGED <<jobs, converterVars, programVars, brokerVars, failed, restarts>>

\* A message whose id has a tag already: only the tag is replaced.
HandleKnownMessage ==
    /\ Running /\ ready
    /\ down # NoDelivery
    /\ down.msg \notin Malformed
    /\ jobsDeliveryTags[down.msg] # NoTag
    /\ jobsDeliveryTags' = [jobsDeliveryTags EXCEPT ![down.msg] = down.tag]
    /\ cached' = cached \cup {down.tag}
    /\ down' = NoDelivery
    /\ UNCHANGED <<jobs, converterVars, alive, ready, session, brokerVars, up, failed, restarts>>

\* Mutant: the tag of a new job is not remembered.
HandleNewMessageWithoutTag ==
    /\ Running /\ ready
    /\ down # NoDelivery
    /\ down.msg \notin Malformed
    /\ jobsDeliveryTags[down.msg] = NoTag
    /\ Converter!ProcessJobMessage(down.msg)
    /\ jobs' = jobs \cup {down.msg}
    /\ cached' = cached \cup {down.tag}
    /\ down' = NoDelivery
    /\ UNCHANGED <<alive, ready, session, jobsDeliveryTags, brokerVars, up, failed, restarts>>

\* A new job: registered, queued in the converter, remembered with its tag.
HandleNewMessage ==
    /\ Running /\ ready
    /\ down # NoDelivery
    /\ down.msg \notin Malformed
    /\ jobsDeliveryTags[down.msg] = NoTag
    /\ Converter!ProcessJobMessage(down.msg)
    /\ jobs' = jobs \cup {down.msg}
    /\ jobsDeliveryTags' = [jobsDeliveryTags EXCEPT ![down.msg] = down.tag]
    /\ cached' = cached \cup {down.tag}
    /\ down' = NoDelivery
    /\ UNCHANGED <<alive, ready, session, brokerVars, up, failed, restarts>>

\* Mutant: the ack goes first.
FinishFramesAckFirst(e) ==
    Confirm(jobsDeliveryTags[e.job])
        \o (IF e.ending = "converted" /\ ready THEN <<Publish(e.job)>> ELSE <<>>)

\* Mutant: message and tag are mixed up.
FinishFramesSwapped(e) ==
    (IF e.ending = "converted" /\ ready THEN <<Publish(jobsDeliveryTags[e.job])>> ELSE <<>>)
        \o Confirm(jobsDeliveryTags[e.job])

\* Frames that handleJobFinished() sends for a job: its result, then its ack.
FinishFrames(e) ==
    (IF e.ending = "converted" /\ ready THEN <<Publish(e.job)>> ELSE <<>>)
        \o Confirm(jobsDeliveryTags[e.job])

\* RunnerService::handleJobFinished() of a live handle.
FinishJob(e) ==
    /\ Send(FinishFrames(e))
    /\ cached' = cached \ {jobsDeliveryTags[e.job]}
    /\ jobs' = jobs \ {e.job}
    /\ jobsDeliveryTags' = [jobsDeliveryTags EXCEPT ![e.job] = NoTag]
    /\ failed' = IF e.ending = "failed" THEN failed \cup {e.job} ELSE failed

\* The handlers called by one event of the converter.  At most one handle is
\* alive (LiveJobIsCurrent: the broker sends one delivery at a time), so at most
\* one job ends with a call.  Without a tag handleJobFinished() returns early.
FinishJobs(ended) ==
    /\ LET known == {e \in ended : jobsDeliveryTags[e.job] # NoTag}
       IN  \/ known = {} /\ UNCHANGED <<jobs, cached, jobsDeliveryTags, up, failed>>
           \/ \E e \in known : FinishJob(e)
    /\ UNCHANGED <<alive, ready, session, brokerVars, down, restarts>>

StartJob ==
    /\ Running
    /\ \E o \in Converter!StartJobOutcomes(received, jobs) :
        Converter!StartJob(o) /\ FinishJobs(o.ended)

ProcessFinished ==
    /\ Running
    /\ process = "Running"
    /\ \E o \in Converter!ProcessOutcomes :
        Converter!ProcessFinished(o) /\ FinishJobs(o.ended)

ProcessFailedToStart ==
    /\ Running
    /\ process = "Running"
    /\ \E o \in Converter!ProcessOutcomes :
        Converter!ProcessFailedToStart(o) /\ FinishJobs(o.ended)

\* The bound leaves a restart for the program, which a crash may end.
ProcessCrashed ==
    /\ Running
    /\ restarts < MaxRestarts
    /\ process = "Running"
    /\ \E o \in Converter!ProcessOutcomes :
        Converter!ProcessCrashed(o) /\ FinishJobs(o.ended)

ProcessEnds == ProcessFinished \/ ProcessFailedToStart \/ ProcessCrashed

\* The program dies: killed from outside, or by undefined behaviour, which
\* ends the process (a wrapped queue is read until the read faults).
Crash ==
    /\ alive
    /\ undefined \/ restarts < MaxRestarts
    /\ alive' = FALSE
    /\ ready' = FALSE
    /\ cached' = {}
    /\ jobsDeliveryTags' = [m \in Messages |-> NoTag]
    /\ jobs' = {}
    /\ received' = <<>>
    /\ startsPosted' = 0
    /\ process' = "NotRunning"
    /\ jobEnv' = NoJob
    /\ undefined' = FALSE
    /\ down' = NoDelivery
    /\ UNCHANGED <<session, brokerVars, up, failed, restarts>>

Restart ==
    /\ ~alive
    /\ restarts < MaxRestarts
    /\ alive' = TRUE
    /\ restarts' = restarts + 1
    /\ UNCHANGED <<jobs, converterVars, ready, session, cached, jobsDeliveryTags,
                   brokerVars, down, up, failed>>

-----------------------------------------------------------------------------
(***************************************************************************)
(* The broker.                                                             *)
(***************************************************************************)

\* The session is the one the program uses.
InUse(s) == alive /\ ready /\ s = session

\* A session with nothing unacknowledged gets the next message (prefetch 1).
\* What is sent to a session the program has left reaches nobody.
Deliver(s, m) ==
    /\ s \in open
    /\ unacked[s] = NoDelivery
    /\ m \in srcQueue
    /\ srcQueue' = srcQueue \ {m}
    /\ lastTag' = [lastTag EXCEPT ![s] = @ + 1]
    /\ unacked' = [unacked EXCEPT ![s] = [tag |-> lastTag[s] + 1, msg |-> m]]
    /\ down' = IF InUse(s) THEN [tag |-> lastTag[s] + 1, msg |-> m] ELSE down
    /\ UNCHANGED <<jobs, converterVars, programVars, open, results, up, failed, restarts>>

ReceivePublish(s) ==
    /\ s \in open
    /\ up[s] # <<>>
    /\ Head(up[s]).kind = "publish"
    /\ results' = [results EXCEPT ![Head(up[s]).msg] = @ + 1]
    /\ up' = [up EXCEPT ![s] = Tail(@)]
    /\ UNCHANGED <<jobs, converterVars, programVars, srcQueue, open, unacked, lastTag,
                   down, failed, restarts>>

\* An ack settles the delivery with its tag; a tag the session does not know
\* would be a channel error (AcksDecided says there is none).
ReceiveAck(s) ==
    /\ s \in open
    /\ up[s] # <<>>
    /\ Head(up[s]).kind = "ack"
    /\ unacked[s] # NoDelivery
    /\ unacked[s].tag = Head(up[s]).tag
    /\ unacked' = [unacked EXCEPT ![s] = NoDelivery]
    /\ up' = [up EXCEPT ![s] = Tail(@)]
    /\ UNCHANGED <<jobs, converterVars, programVars, srcQueue, open, lastTag, results,
                   down, failed, restarts>>

\* The broker gives a session up: its delivery is queued again and its frames
\* are not read any more.
CloseSession(s) ==
    /\ s \in open
    /\ InUse(s) => LinkMayBreak /\ session < MaxSessions
    /\ open' = open \ {s}
    /\ srcQueue' = IF unacked[s] = NoDelivery THEN srcQueue
                   ELSE srcQueue \cup {unacked[s].msg}
    /\ unacked' = [unacked EXCEPT ![s] = NoDelivery]
    /\ up' = [up EXCEPT ![s] = <<>>]
    /\ UNCHANGED <<jobs, converterVars, programVars, lastTag, results, down, failed, restarts>>

-----------------------------------------------------------------------------
ProgramNext ==
    \/ Connect \/ LinkBreaks \/ NoticeClosed
    \/ HandleInvalidMessage \/ HandleKnownMessage \/ HandleNewMessage
    \/ StartJob \/ ProcessEnds
    \/ Crash \/ Restart

BrokerNext ==
    \E s \in Sessions :
        \/ \E m \in Messages : Deliver(s, m)
        \/ ReceivePublish(s)
        \/ ReceiveAck(s)
        \/ CloseSession(s)

Next == ProgramNext \/ BrokerNext

Spec == Init /\ [][Next]_vars

(***************************************************************************)
(* Fairness.  The event loop runs what is pending, the reconnect timer     *)
(* keeps trying, the python process ends, the broker serves its sessions   *)
(* and gives up those whose peer is gone, and whoever runs the program     *)
(* starts it again.  Crashes and link failures are never forced.           *)
(***************************************************************************)
HandleMessage == HandleInvalidMessage \/ HandleKnownMessage \/ HandleNewMessage

Fairness ==
    /\ WF_vars(Connect)
    /\ WF_vars(NoticeClosed)
    /\ WF_vars(HandleMessage)
    /\ WF_vars(StartJob)
    /\ WF_vars(ProcessEnds)
    /\ WF_vars(undefined /\ Crash)
    /\ WF_vars(Restart)
    /\ \A s \in Sessions :
        /\ WF_vars(InUse(s) /\ \E m \in Messages : Deliver(s, m))
        /\ WF_vars(ReceivePublish(s) \/ ReceiveAck(s))
        /\ WF_vars(~InUse(s) /\ CloseSession(s))

FairSpec == Spec /\ Fairness

-----------------------------------------------------------------------------
(***************************************************************************)
(* Properties.                                                             *)
(***************************************************************************)

UnackedIn(s) == IF unacked[s] = NoDelivery THEN {} ELSE {unacked[s].msg}

\* What the broker would still deliver or deliver again.
Outstanding == srcQueue \cup UNION {UnackedIn(s) : s \in open}

\* No message is lost: one the broker has forgotten has a result in the pub
\* queue, or its own parsing or conversion failed.  handleJobFinished()
\* publishes before it acknowledges, on the same channel.
NoLoss ==
    \A m \in Messages : m \in Outstanding \/ results[m] > 0 \/ m \in failed

\* An ack on its way to a session that is alive names the delivery that is
\* open there, once, and that message is decided before the ack is read.  A
\* tag kept from an earlier session would break it.
AcksDecided ==
    \A s \in open : \A i \in 1 .. Len(up[s]) :
        up[s][i].kind = "ack" =>
            /\ unacked[s] # NoDelivery
            /\ unacked[s].tag = up[s][i].tag
            /\ \/ unacked[s].msg \in failed
               \/ results[unacked[s].msg] > 0
               \/ \E j \in 1 .. i - 1 : up[s][j] = Publish(unacked[s].msg)
            /\ \A j \in 1 .. Len(up[s]) : up[s][j].kind = "ack" => j = i

\* There is one live handle.  It belongs to the session the program uses, and
\* its tag is the one the broker waits for: its result can still be published
\* and confirmed, and no event of the converter ends two jobs.
LiveJobIsCurrent ==
    \A m \in jobs :
        /\ jobs = {m}
        /\ alive /\ ready
        /\ jobsDeliveryTags[m] \in cached
        /\ session \in open => unacked[session] = [tag |-> jobsDeliveryTags[m], msg |-> m]

\* A message is queued in the converter at most once, dead handles included,
\* although the broker may deliver it many times: the weak pointer of an
\* aborted job and the handle of a later one are never mixed up.
DistinctJobs ==
    \A i, j \in 1 .. Len(received) : received[i] = received[j] => i = j

Stage ==
    INSTANCE AtLeastOnce WITH
        outstanding <- Outstanding,
        published <- {m \in Messages : results[m] > 0},
        rejected <- failed

\* The stage implements its promise: every step is a publication, a rejection
\* or a settlement of an outstanding message, or changes none of them.
StageDelivers == Stage!Spec

\* Every message of the sub queue is settled in the end, and stays settled.
AllSettled == <>[](Outstanding = {})
=============================================================================
