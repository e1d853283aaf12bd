---------------------------- MODULE AmqpChannel ----------------------------
(***************************************************************************)
(* One channel of the AMQP library (ChannelImpl) on its connection         *)
(* (ConnectionImpl) and the broker they talk to.  The library sends one    *)
(* synchronous request at a time and queues what is called meanwhile;      *)
(* every request has a Deferred in a chain, and an answer goes to the      *)
(* oldest of the chain, whichever request it was sent for.                 *)
(*                                                                         *)
(* A call is numbered when it is made; the frames it leads to carry the    *)
(* number.  A call made in a callback comes right after the frame that     *)
(* caused the callback, which is what the code does: the queue is flushed  *)
(* before the callback, and the callback's Deferred leaves the front of    *)
(* the chain while the new one goes to its end.                            *)
(*                                                                         *)
(* The broker is external: it answers in order, may close the channel      *)
(* instead of answering, and closes the connection on a frame that the     *)
(* protocol does not allow.                                                *)
(***************************************************************************)
EXTENDS AmqpClasses, SequencesExt

CONSTANTS
    Operations,     \* the operations that are called
    Oversized,      \* those whose frame (of publish: the header) exceeds _maxFrame
    MaxSize,        \* bound: the body frames of a message
    MaxCalls,       \* bound: calls on the channel after open, not counting close()
    MaxMessages,    \* bound: messages the broker sends
    MaxErrors       \* bound: channels and connections closed by the broker unasked

ASSUME ChannelAssumption == {MaxSize, MaxCalls, MaxMessages, MaxErrors} \subseteq Nat

\* How many body frames a message has.
Sizes == 0 .. MaxSize

VARIABLES
    channel,        \* the members of ChannelImpl
    connection,     \* the members of ConnectionImpl
    calls,          \* the operations called so far: a call is its place in here
    outcome,        \* what each call has led to
    toBroker,       \* frames of the channel and close frames on their way
    toClient,       \* answers and messages on their way
    broker,         \* what the broker knows of the connection
    delivered,      \* the messages given to the callback
    unpaired,       \* has a Deferred been chained that no answer will come for?
    early,          \* has flush() run while an answer was outstanding?
    stalled         \* does the channel wait for an answer in vain?

libraryVars == <<channel, connection, calls, outcome, delivered, unpaired, early, stalled>>
vars == <<libraryVars, toBroker, toClient, broker>>

-----------------------------------------------------------------------------
(***************************************************************************)
(* The operations of ChannelImpl and their frames.                         *)
(***************************************************************************)
ChannelRequests ==
    [open |-> ChannelOpenFrame, close |-> ChannelCloseFrame,
     pause |-> ChannelFlowFrame, resume |-> ChannelFlowFrame,
     confirmSelect |-> ConfirmSelectFrame, startTransaction |-> TransactionSelectFrame,
     commitTransaction |-> TransactionCommitFrame,
     rollbackTransaction |-> TransactionRollbackFrame]

ExchangeRequests ==
    [declareExchange |-> ExchangeDeclareFrame, declareExchangeNoWait |-> ExchangeDeclareFrame,
     bindExchange |-> ExchangeBindFrame, unbindExchange |-> ExchangeUnbindFrame,
     removeExchange |-> ExchangeDeleteFrame]

QueueRequests ==
    [declareQueue |-> QueueDeclareFrame, bindQueue |-> QueueBindFrame,
     unbindQueue |-> QueueUnbindFrame, purgeQueue |-> QueuePurgeFrame,
     removeQueue |-> QueueDeleteFrame]

MessageRequests ==
    [setQos |-> BasicQosFrame, consume |-> BasicConsumeFrame, cancel |-> BasicCancelFrame,
     get |-> BasicGetFrame, recover |-> BasicRecoverFrame, publish |-> BasicPublishFrame,
     ack |-> BasicAckFrame, reject |-> BasicRejectFrame, rejectMultiple |-> BasicNackFrame]

RequestFrame ==
    [op \in UNION {DOMAIN ChannelRequests, DOMAIN ExchangeRequests,
                   DOMAIN QueueRequests, DOMAIN MessageRequests} |->
        CASE op \in DOMAIN ChannelRequests  -> ChannelRequests[op]
          [] op \in DOMAIN ExchangeRequests -> ExchangeRequests[op]
          [] op \in DOMAIN QueueRequests    -> QueueRequests[op]
          [] op \in DOMAIN MessageRequests  -> MessageRequests[op]]

\* attach() alone sends open; it is no operation of a channel.
ASSUME OperationsAssumption == Operations \subseteq DOMAIN RequestFrame \ {"open"}

\* Calls that return whether the frame was accepted and have no Deferred.
Unanswered == {"publish", "ack", "reject", "rejectMultiple"}

\* Operations whose frame is synchronous(): the class says so, and the frame
\* does not ask for no answer.
SynchronousOperations ==
    {op \in DOMAIN RequestFrame :
        RequestFrame[op].sync /\ (op = "declareExchangeNoWait" => RequestFrame[op].noWait = {})}

\* Operations the broker answers.
Answered == DOMAIN RequestFrame \ (Unanswered \cup {"declareExchangeNoWait"})

\* A frame of a call: only publish() sends several, the method, the header and
\* the body frames.
FrameOfCall(op, id, part, parts) == [op |-> op, id |-> id, part |-> part, parts |-> parts]

Control(op) == FrameOfCall(op, 0, 1, 1)

\* synchronous() of a frame; those of publish() never are.
Synchronous(frame) == frame.op \in SynchronousOperations

SynchronousIn(frames) == {i \in DOMAIN frames : Synchronous(frames[i])}

TooLarge(frame) ==
    frame.op \in Oversized /\ frame.part = (IF frame.op = "publish" THEN 2 ELSE 1)

-----------------------------------------------------------------------------
(***************************************************************************)
(* ConnectionImpl.  A state s has the members of the channel and of the    *)
(* connection, the frames on their way, and what the calls have led to.    *)
(***************************************************************************)
Now == [channel |-> channel, connection |-> connection, toBroker |-> toBroker,
        outcome |-> outcome, delivered |-> delivered]

Become(s) ==
    /\ channel' = s.channel
    /\ connection' = s.connection
    /\ toBroker' = s.toBroker
    /\ outcome' = s.outcome
    /\ delivered' = s.delivered

\* send(const Frame &): the frame is accepted.
Accepts(con, frame) ==
    /\ con.state \notin {"closing", "closed"}
    /\ con.closeCalled => frame.op = "connectionClose"
    /\ ~TooLarge(frame)

\* onData(), or the queue until the connection is ready.
Transmit(s, frames) ==
    IF s.connection.state = "connected" /\ s.connection.queue = <<>>
    THEN [s EXCEPT !.toBroker = @ \o frames]
    ELSE [s EXCEPT !.connection.queue = @ \o frames]

SendIfAccepted(s, frame) == IF Accepts(s.connection, frame) THEN Transmit(s, <<frame>>) ELSE s

SendClose(s) ==
    [SendIfAccepted(s, Control("connectionClose")) EXCEPT !.connection.state = "closing"]

\* waiting() of the channel, waitingChannels() of the connection.
Waiting(ch) == ch.synchronous \/ ch.queue # <<>>

WaitingChannels(s) == s.channel.linked /\ Waiting(s.channel)

\* A connection that was told to close does so when no channel waits.
SendCloseWhenIdle(s) ==
    IF s.connection.closeCalled /\ s.connection.state = "connected" /\ ~WaitingChannels(s)
    THEN SendClose(s)
    ELSE s

\* setReady().
SetReady(s) ==
    SendCloseWhenIdle([s EXCEPT !.connection.state = "connected",
                                !.connection.queue = <<>>,
                                !.toBroker = @ \o s.connection.queue])

-----------------------------------------------------------------------------
(***************************************************************************)
(* ChannelImpl: sending.                                                   *)
(***************************************************************************)
Usable(ch) == ch.state \in {"connected", "ready"}

\* send(const Frame &) returns true.
Sends(s, frame) ==
    /\ s.channel.state # "closed" /\ s.channel.linked
    /\ \/ s.channel.state = "closing"
       \/ Waiting(s.channel)
       \/ Accepts(s.connection, frame)

Hold(s, frames) == [s EXCEPT !.channel.queue = @ \o frames]

SendAtOnce(s, frames) ==
    [Transmit(s, frames) EXCEPT !.channel.synchronous = SynchronousIn(frames) # {}]

\* Mutant: only synchronous frames have to wait.
SendOvertaking(s, frames) ==
    CASE s.channel.state = "closing" -> s
      [] s.channel.state # "closing" ->
             IF Waiting(s.channel) /\ SynchronousIn(frames) # {} THEN Hold(s, frames)
             ELSE SendAtOnce(s, frames)

\* Mutant: a channel that is closing still sends.
SendClosing(s, frames) ==
    IF Waiting(s.channel) THEN Hold(s, frames) ELSE SendAtOnce(s, frames)

\* Frames that send() takes, one after the other: a synchronous one comes alone.
SendFrames(s, frames) ==
    CASE s.channel.state = "closing" -> s
      [] s.channel.state # "closing" ->
             IF Waiting(s.channel) THEN Hold(s, frames) ELSE SendAtOnce(s, frames)

SendFrame(s, frame) == IF Sends(s, frame) THEN SendFrames(s, <<frame>>) ELSE s

\* Mutant: the queue is sent to its end, whatever has to be answered.
FlushAll(s) ==
    [s EXCEPT !.channel.synchronous = FALSE,
              !.channel.queue = <<>>,
              !.toBroker = @ \o s.channel.queue]

\* flush(): up to the first synchronous frame.  A connection that is not ready
\* refuses the first frame, which has left the queue by then.
Flush(s) ==
    LET queue  == s.channel.queue
        until  == SynchronousIn(queue)
        last   == Min(until \cup {Len(queue)})
        sends  == s.connection.state = "connected"
        gone   == IF sends THEN last ELSE Min({1, Len(queue)})
    IN  IF ~s.channel.linked THEN [s EXCEPT !.channel.synchronous = FALSE]
        ELSE [s EXCEPT !.channel.synchronous = sends /\ until # {},
                       !.channel.queue = SubSeq(queue, gone + 1, Len(queue)),
                       !.toBroker = IF sends THEN @ \o SubSeq(queue, 1, last) ELSE @]

\* push(): the Deferred of the next call, failed if the frame was refused.
Push(s, failed) ==
    [s EXCEPT !.channel.chain = Append(@, Len(s.outcome) + 1),
              !.outcome = Append(@, IF failed THEN "refused" ELSE "pending")]

Request(s, frame) == Push(SendFrame(s, frame), ~Sends(s, frame))

\* close(): on a channel that is closed nothing is sent, and nobody will call
\* the Deferred, unless the channel is only closing.
CloseChannel(s, frame) ==
    CASE Usable(s.channel) /\ Sends(s, frame) ->
             [Request(s, frame) EXCEPT !.channel.state = "closing"]
      [] Usable(s.channel) /\ ~Sends(s, frame) -> Push(s, TRUE)
      [] s.channel.state = "closing" -> Push(s, TRUE)
      [] OTHER -> [Push(s, FALSE) EXCEPT !.outcome[Len(s.outcome) + 1] = "ignored"]

\* publish(): the first frame that is refused ends it.  What is refused does not
\* depend on the frames before it, none of which is synchronous.
SendParts(s, frame) ==
    LET part(i) == [frame EXCEPT !.part = i]
        refused == {i \in 1 .. frame.parts : ~Sends(s, part(i))}
        taken   == IF refused = {} THEN frame.parts ELSE Min(refused) - 1
    IN  [SendFrames(s, [i \in 1 .. taken |-> part(i)])
            EXCEPT !.outcome = Append(@, IF refused = {} THEN "done" ELSE "refused")]

\* One call of the program.
Perform(s, frame) ==
    CASE frame.op \in Unanswered -> SendParts(s, frame)
      [] frame.op = "close"      -> CloseChannel(s, frame)
      [] OTHER                   -> Request(s, frame)

-----------------------------------------------------------------------------
(***************************************************************************)
(* ChannelImpl: answers.                                                   *)
(***************************************************************************)
\* The receiver of a message: what the header has announced, what of it is to
\* come, what has come; whether it is a DeferredGet.
Receiver(tag, get) == [tag |-> tag, size |-> 0, left |-> 0, got |-> <<>>, get |-> get]

NoReceiver == Receiver(0, FALSE)

\* The Deferred's callback; a request that was refused has had its own.
Resolve(s, id, result) ==
    [s EXCEPT !.outcome[id] = IF @ = "refused" THEN @ ELSE result]

\* reportSuccess() of the classes that do more than calling the callback.
InstallConsumer(s)   == [s EXCEPT !.channel.consuming = TRUE]
UninstallConsumer(s) == [s EXCEPT !.channel.consuming = FALSE]
InstallGet(s, tag)   == [s EXCEPT !.channel.receiver = Receiver(tag, TRUE)]

\* Which of them is called: it depends on the class of the oldest Deferred and
\* on the parameters of the answer, not on the call that was answered.
AnswerEffect(s, op, answer) ==
    CASE op = "consume" /\ answer.op \in {"consume", "cancel"} -> InstallConsumer(s)
      [] op = "cancel" /\ answer.op \in {"consume", "cancel"} -> UninstallConsumer(s)
      [] op = "get" /\ answer.is = "getOK" -> InstallGet(s, answer.id)
      [] OTHER -> s

\* Mutant: the newest callback gets the answer.
ReportSuccessNewest(s, answer) ==
    IF s.channel.chain = <<>> THEN s
    ELSE LET last == Len(s.channel.chain)
             id   == s.channel.chain[last]
             next == [Flush(s) EXCEPT !.channel.chain = SubSeq(@, 1, last - 1)]
         IN  Resolve(AnswerEffect(next, calls[id], answer), id, "success")

\* Mutant: the queue is not flushed.
ReportSuccessUnflushed(s, answer) ==
    IF s.channel.chain = <<>> THEN s
    ELSE LET id   == Head(s.channel.chain)
             next == [s EXCEPT !.channel.chain = Tail(@)]
         IN  Resolve(AnswerEffect(next, calls[id], answer), id, "success")

\* reportSuccess(): the queue is flushed, then the oldest callback called.
ReportSuccess(s, answer) ==
    IF s.channel.chain = <<>> THEN s
    ELSE LET id   == Head(s.channel.chain)
             next == [Flush(s) EXCEPT !.channel.chain = Tail(@)]
         IN  Resolve(AnswerEffect(next, calls[id], answer), id, "success")

\* Mutant: what has waited in the queue stays there.
ReportErrorKeepingQueue(s) ==
    [s EXCEPT !.channel.state = "closed", !.channel.synchronous = FALSE,
              !.channel.chain = <<>>, !.channel.linked = FALSE]

\* reportError(): the queue is dropped, every callback called, the channel
\* taken from the connection.
ReportError(s) ==
    [s EXCEPT !.channel.state = "closed",
              !.channel.synchronous = FALSE,
              !.channel.queue = <<>>,
              !.channel.chain = <<>>,
              !.channel.linked = FALSE,
              !.outcome = [id \in DOMAIN @ |->
                  IF @[id] # "refused" /\ \E i \in DOMAIN s.channel.chain : s.channel.chain[i] = id
                  THEN "error" ELSE @[id]]]

\* reportReady(): a channel that was closed meanwhile does not become ready.
ReportReady(s) ==
    Flush([s EXCEPT !.channel.state = IF @ = "connected" THEN "ready" ELSE @])

\* reportClosed(): the answer to close() succeeds, what was called later fails.
ReportClosed(s, answer) ==
    ReportError(ReportSuccess([s EXCEPT !.channel.state = "closed"], answer))

\* complete(): the callback, and the receiver is gone.  DeferredGet::complete()
\* flushes the queue first.
Complete(s) ==
    LET got  == s.channel.receiver
        next == IF got.get THEN Flush(s) ELSE s
    IN  [next EXCEPT !.channel.receiver = NoReceiver,
                     !.delivered = Append(@, [tag |-> got.tag, size |-> got.size, got |-> got.got])]

\* Mutant: the last body frame is not waited for.
CompleteBeforeLast(s) == IF s.channel.receiver.left <= 1 THEN Complete(s) ELSE s

CompleteIfWhole(s) == IF s.channel.receiver.left = 0 THEN Complete(s) ELSE s

TakeBody(s, body) ==
    CompleteIfWhole([s EXCEPT !.channel.receiver.left = @ - 1,
                              !.channel.receiver.got = Append(@, body)])

TakeHeader(s, size) ==
    CompleteIfWhole([s EXCEPT !.channel.receiver.size = size, !.channel.receiver.left = size])

\* The start of a message: DeferredConsumer::process().
TakeDeliver(s, tag) ==
    IF s.channel.consuming THEN [s EXCEPT !.channel.receiver = Receiver(tag, FALSE)] ELSE s

ReportCancelled(s) == [s EXCEPT !.channel.consuming = FALSE]

\* process() of each frame: content that nobody receives is dropped.
ProcessChannelFrame(s, frame) ==
    CASE frame.is = "openOK" -> ReportReady(s)
      [] frame.is \in {"ok", "getOK"} -> ReportSuccess(s, frame)
      [] frame.is = "closeOK" -> ReportClosed(s, frame)
      [] frame.is = "deliver" -> TakeDeliver(s, frame.id)
      [] frame.is = "cancel" -> ReportCancelled(s)
      [] frame.is \in {"header", "body"} ->
             CASE s.channel.receiver = NoReceiver -> s
               [] s.channel.receiver # NoReceiver /\ frame.is = "header" -> TakeHeader(s, frame.n)
               [] OTHER -> TakeBody(s, <<frame.id, frame.n>>)

\* The close frames of the broker.
AnswerChannelClose(s) ==
    LET answered == SendIfAccepted(s, Control("channelCloseOK"))
    IN  IF s.channel.linked THEN ReportError(answered) ELSE answered

AnswerConnectionClose(s) ==
    LET answered == SendIfAccepted(s, Control("connectionCloseOK"))
    IN  IF s.channel.linked THEN ReportError(answered) ELSE answered

\* The frames of a channel that is not registered are dropped.
ProcessReceived(s, frame) ==
    CASE frame.is = "channelClose"      -> AnswerChannelClose(s)
      [] frame.is = "connectionClose"   -> AnswerConnectionClose(s)
      [] frame.is = "connectionCloseOK" -> [s EXCEPT !.connection.state = "closed"]
      [] OTHER -> IF s.channel.linked THEN ProcessChannelFrame(s, frame) ELSE s

-----------------------------------------------------------------------------
(***************************************************************************)
(* The program and the library.                                            *)
(***************************************************************************)
Init ==
    /\ channel = [state |-> "closed", linked |-> FALSE, synchronous |-> FALSE, queue |-> <<>>,
                  chain |-> <<>>, consuming |-> FALSE, receiver |-> NoReceiver]
    /\ connection = [state |-> "handshake", closeCalled |-> FALSE, queue |-> <<>>]
    /\ calls = <<>>
    /\ outcome = <<>>
    /\ toBroker = <<>>
    /\ toClient = <<>>
    /\ broker = [connection |-> "open", channel |-> "none", consuming |-> FALSE, read |-> <<0, 0, 0>>,
                 messages |-> 0, errors |-> 0, complaint |-> "none"]
    /\ delivered = <<>>
    /\ unpaired = FALSE
    /\ early = FALSE
    /\ stalled = FALSE

\* attach(): the channel is registered; open is its first call.  When the broker
\* has closed the connection, the library still takes it for connected.
Attach ==
    /\ calls = <<>>
    /\ connection.state # "gone"
    /\ calls' = <<"open">>
    /\ LET open == FrameOfCall("open", 1, 1, 1)
           new  == [Now EXCEPT !.channel.state = "connected", !.channel.linked = TRUE,
                               !.outcome = <<"done">>]
       IN  Become(IF Sends(new, open) THEN SendFrame(new, open)
                  ELSE [new EXCEPT !.channel.state = "closed"])
    /\ stalled' = (broker.connection # "open" /\ toClient = <<>>)
    /\ UNCHANGED <<toClient, broker, unpaired, early>>

\* A Deferred for which no answer will come stays in the chain of a channel
\* that goes on.
Unpairs(op, result) ==
    /\ Usable(channel) /\ channel.linked
    /\ op \notin Unanswered
    /\ op \notin Answered \/ result = "refused"

\* One of the operations of ChannelImpl.  A nack counts as synchronous, and no
\* answer to it ever comes.
Call(op, size) ==
    /\ Len(calls) \in 1 .. MaxCalls
    /\ connection.state # "gone"
    /\ calls' = Append(calls, op)
    /\ \E s \in {Perform(Now, FrameOfCall(op, Len(calls'), 1,
                                          IF op = "publish" THEN 2 + size ELSE 1))} :
         /\ Become(s)
         /\ unpaired' = (unpaired \/ Unpairs(op, Last(s.outcome)))
    /\ stalled' = (stalled \/ op = "rejectMultiple")
    /\ UNCHANGED <<toClient, broker, early>>

\* ConnectionImpl::close(): the channels first.
CloseConnection(s) ==
    LET told   == [s EXCEPT !.connection.closeCalled = TRUE]
        closed == IF s.channel.linked
                  THEN CloseChannel(told, FrameOfCall("close", Len(s.outcome) + 1, 1, 1))
                  ELSE told
    IN  IF s.connection.closeCalled \/ s.connection.state = "closed" THEN s
        ELSE SendCloseWhenIdle(closed)

CallsOfClose(s) == IF Len(s.outcome) > Len(calls) THEN Append(calls, "close") ELSE calls

\* Connection::close().
Close ==
    /\ connection.state # "gone" /\ ~connection.closeCalled
    /\ \E s \in {CloseConnection(Now)} :
         /\ Become(s)
         /\ calls' = CallsOfClose(s)
         /\ unpaired' = (unpaired \/ (Len(calls') > Len(calls) /\ Unpairs("close", Last(s.outcome))))
    /\ UNCHANGED <<toClient, broker, early, stalled>>

\* ~ConnectionImpl(): close(), then the channels are detached.  The socket is
\* closed with it, and what is on the way is lost.
Destroy ==
    /\ connection.state # "gone"
    /\ \E s \in {CloseConnection(Now)} :
         /\ Become([s EXCEPT !.connection.state = "gone", !.channel.linked = FALSE])
         /\ calls' = CallsOfClose(s)
    /\ toClient' = <<>>
    /\ UNCHANGED <<broker, unpaired, early, stalled>>

\* The handshake has ended (module RabbitLink).
Ready ==
    /\ connection.state = "handshake"
    /\ Become(SetReady(Now))
    /\ UNCHANGED <<calls, toClient, broker, unpaired, early, stalled>>

\* Flushes that come although an answer is outstanding: the end of a message
\* that was got, and the answer to a frame that is not synchronous.
FlushesEarly(frame, s) ==
    /\ channel.synchronous
    /\ \/ frame.is = "ok" /\ frame.op \notin SynchronousOperations
       \/ Len(s.delivered) > Len(delivered) /\ channel.receiver.get

\* One round of parse(), the last of a buffer or not.
ReadFrame(more) ==
    /\ connection.state \in {"connected", "closing"}
    /\ Len(toClient) > (IF more THEN 1 ELSE 0)
    /\ \E s \in {ProcessReceived(Now, Head(toClient))} :
         /\ Become(IF more THEN s ELSE SendCloseWhenIdle(s))
         /\ early' = (early \/ FlushesEarly(Head(toClient), s))
    /\ toClient' = Tail(toClient)
    /\ UNCHANGED <<calls, broker, unpaired, stalled>>

-----------------------------------------------------------------------------
(***************************************************************************)
(* The broker.  When both ends close the channel, it answers the close and *)
(* waits for the answer to its own.                                        *)
(***************************************************************************)
\* A frame of the broker: which operation and call it answers (the call is not on
\* the wire, and the library does not look at it), of which message it is; n is
\* the size in a header and the place of a body.
ToClient(is, op, call, id, n) == [is |-> is, op |-> op, call |-> call, id |-> id, n |-> n]

AnswerIs(op) == IF op = "open" THEN "openOK" ELSE IF op = "close" THEN "closeOK" ELSE "ok"

Answer(frame) == ToClient(AnswerIs(frame.op), frame.op, frame.id, 0, 0)

\* A message: the frame that announces it, the header and the bodies.
Content(is, op, call, tag, size) ==
    <<ToClient(is, op, call, tag, 0), ToClient("header", "none", 0, tag, size)>>
    \o [i \in 1 .. size |-> ToClient("body", "none", 0, tag, i)]

\* The parts of one publish come one after the other.
Expected(frame) ==
    IF broker.read[2] < broker.read[3]
    THEN frame.id = broker.read[1] /\ frame.part = broker.read[2] + 1
    ELSE frame.part = 1

ConnectionFrameOps == {"connectionClose", "connectionCloseOK"}

Ignored(frame) ==
    \/ broker.connection # "open" /\ frame.op # "connectionClose"
    \/ broker.channel = "closing" /\ frame.op \notin ConnectionFrameOps \cup {"channelCloseOK", "close"}

Allowed(frame) ==
    CASE frame.op \in ConnectionFrameOps -> TRUE
      [] frame.op = "channelCloseOK"     -> broker.channel = "closing"
      [] frame.op = "open"               -> broker.channel = "none"
      [] frame.op = "close"              -> broker.channel \in {"open", "closing"}
      [] OTHER -> broker.channel = "open" /\ Expected(frame) /\ ~TooLarge(frame)

\* How the frame changes what the broker knows.
Took(frame) ==
    [broker EXCEPT
        !.read = IF frame.id = 0 THEN @ ELSE <<frame.id, frame.part, frame.parts>>,
        !.connection = IF frame.op \in ConnectionFrameOps THEN "closed" ELSE @,
        !.channel = CASE frame.op = "open" -> "open"
                      [] frame.op = "channelCloseOK" -> "closed"
                      [] frame.op = "close" /\ @ = "open" -> "closed"
                      [] OTHER -> @,
        !.consuming = (@ \/ frame.op = "consume") /\ frame.op \notin {"cancel", "close"}]

\* The frame the broker reads next, if there is one.
Incoming == {toBroker[i] : i \in DOMAIN toBroker \cap {1}}

Reads ==
    /\ connection.state # "gone"
    /\ toBroker' = Tail(toBroker)
    /\ UNCHANGED libraryVars

BrokerIgnore ==
    \E frame \in Incoming :
        /\ Reads
        /\ Ignored(frame)
        /\ UNCHANGED <<toClient, broker>>

\* A frame the protocol forbids ends the connection.
BrokerComplain ==
    \E frame \in Incoming :
        /\ Reads
        /\ ~Ignored(frame) /\ ~Allowed(frame)
        /\ broker' = [broker EXCEPT !.connection = "closing", !.complaint = frame.op]
        /\ toClient' = Append(toClient, ToClient("connectionClose", "none", 0, 0, 0))

BrokerAccept ==
    \E frame \in Incoming :
        /\ Reads
        /\ ~Ignored(frame) /\ Allowed(frame)
        /\ broker' = Took(frame)
        /\ toClient' = CASE frame.op \in Answered -> Append(toClient, Answer(frame))
                        [] frame.op = "connectionClose" ->
                             Append(toClient, ToClient("connectionCloseOK", "none", 0, 0, 0))
                        [] OTHER -> toClient

\* The answer to a get is the message, if there is one.
BrokerGet(size) ==
    \E frame \in Incoming :
        /\ Reads
        /\ ~Ignored(frame) /\ Allowed(frame)
        /\ frame.op = "get" /\ broker.messages < MaxMessages
        /\ broker' = [Took(frame) EXCEPT !.messages = @ + 1]
        /\ toClient' = toClient \o Content("getOK", "get", frame.id, broker'.messages, size)

\* A request that cannot be fulfilled, or a message that cannot be routed,
\* closes the channel.
BrokerRefuse ==
    \E frame \in Incoming :
        /\ Reads
        /\ ~Ignored(frame) /\ Allowed(frame) /\ broker.errors < MaxErrors
        /\ broker.channel = "open" /\ frame.op \notin {"close"} \cup ConnectionFrameOps
        /\ frame.part = frame.parts
        /\ broker' = [Took(frame) EXCEPT !.channel = "closing", !.consuming = FALSE,
                                         !.errors = @ + 1]
        /\ toClient' = Append(toClient, ToClient("channelClose", "none", 0, 0, 0))

\* What the broker does of its own accord.
BrokerSends(frames) ==
    /\ connection.state # "gone"
    /\ broker.connection = "open"
    /\ toClient' = toClient \o frames
    /\ UNCHANGED <<libraryVars, toBroker>>

BrokerDeliver(size) ==
    /\ broker.consuming /\ broker.channel = "open" /\ broker.messages < MaxMessages
    /\ broker' = [broker EXCEPT !.messages = @ + 1]
    /\ BrokerSends(Content("deliver", "none", 0, broker'.messages, size))

\* The queue of the consumer was deleted.
BrokerCancel ==
    /\ broker.consuming /\ broker.channel = "open" /\ broker.errors < MaxErrors
    /\ broker' = [broker EXCEPT !.consuming = FALSE, !.errors = @ + 1]
    /\ BrokerSends(<<ToClient("cancel", "none", 0, 0, 0)>>)

BrokerShutdown ==
    /\ broker.errors < MaxErrors
    /\ connection.state \notin {"handshake"}
    /\ broker' = [broker EXCEPT !.connection = "closing", !.errors = @ + 1]
    /\ BrokerSends(<<ToClient("connectionClose", "none", 0, 0, 0)>>)

BrokerReads == BrokerIgnore \/ BrokerComplain \/ BrokerAccept

-----------------------------------------------------------------------------
Next ==
    \/ Attach \/ Close \/ Destroy \/ Ready
    \/ \E op \in Operations \ {"publish"} : Call(op, 0)
    \/ "publish" \in Operations /\ \E size \in Sizes : Call("publish", size)
    \/ \E more \in BOOLEAN : ReadFrame(more)
    \/ BrokerReads \/ BrokerRefuse \/ BrokerCancel \/ BrokerShutdown
    \/ \E size \in Sizes : BrokerGet(size) \/ BrokerDeliver(size)

Spec == Init /\ [][Next]_vars

\* The broker answers, the socket is read, the handshake ends; nobody has to
\* call anything.
Fairness ==
    /\ WF_vars(Ready)
    /\ WF_vars(BrokerReads)
    /\ WF_vars(ReadFrame(FALSE))

FairSpec == Spec /\ Fairness

-----------------------------------------------------------------------------
(***************************************************************************)
(* Properties.                                                             *)
(***************************************************************************)
Frames ==
    [op : DOMAIN RequestFrame \cup {"connectionClose", "connectionCloseOK", "channelCloseOK"},
     id : 0 .. MaxCalls + 2, part : 1 .. 2 + MaxSize, parts : 1 .. 2 + MaxSize]

FramesToClient ==
    [is : {"openOK", "ok", "closeOK", "getOK", "deliver", "header", "body", "cancel",
           "channelClose", "connectionClose", "connectionCloseOK"},
     op : DOMAIN RequestFrame \cup {"none"}, call : Nat, id : Nat, n : 0 .. MaxSize]

Bodies == (1 .. MaxMessages) \X (1 .. MaxSize)

Receivers ==
    [tag : 0 .. MaxMessages, size : Sizes, left : Sizes, got : Seq(Bodies), get : BOOLEAN]

Channels ==
    [state : {"connected", "ready", "closing", "closed"}, linked : BOOLEAN,
     synchronous : BOOLEAN, queue : Seq(Frames), chain : Seq(1 .. MaxCalls + 2),
     consuming : BOOLEAN, receiver : Receivers]

Connections ==
    [state : {"handshake", "connected", "closing", "closed", "gone"},
     closeCalled : BOOLEAN, queue : Seq(Frames)]

Outcomes == {"pending", "done", "refused", "ignored", "success", "error"}

Deliveries == [tag : 1 .. MaxMessages, size : Sizes, got : Seq(Bodies)]

Brokers ==
    [connection : {"open", "closing", "closed"}, channel : {"none", "open", "closing", "closed"},
     consuming : BOOLEAN, read : Nat \X Nat \X Nat, messages : 0 .. MaxMessages,
     errors : 0 .. MaxErrors, complaint : {"none", "channelCloseOK"} \cup DOMAIN RequestFrame]

TypeOK ==
    /\ channel \in Channels
    /\ connection \in Connections
    /\ calls \in Seq(DOMAIN RequestFrame)
    /\ outcome \in Seq(Outcomes)
    /\ Len(outcome) = Len(calls)
    /\ channel.state = "closed" => channel.queue = <<>>
    /\ toBroker \in Seq(Frames)
    /\ toClient \in Seq(FramesToClient)
    /\ broker \in Brokers
    /\ delivered \in Seq(Deliveries)
    /\ {unpaired, early, stalled} \subseteq BOOLEAN

\* Of two frames of calls, f belongs to the call that was made before, or to the
\* part of the message that comes before; frames of no call have no place.
Before(f, g) ==
    f.id # 0 /\ g.id # 0 => f.id < g.id \/ (f.id = g.id /\ f.part < g.part)

\* The frames that the broker has not read, in the order in which it will.
Line == toBroker \o connection.queue \o channel.queue

\* Frames reach the broker in the order of the calls they come from, whether
\* they were sent at once, waited in the queue of the channel for an answer or
\* in that of the connection for the handshake; those of one message are not
\* torn apart, and none is sent twice.
CallsInOrder ==
    /\ \A i, j \in DOMAIN Line : i < j => Before(Line[i], Line[j])
    /\ \A i \in DOMAIN Line : Before([id |-> broker.read[1], part |-> broker.read[2]], Line[i])

\* Requests whose answer the library has not read.
Awaited ==
    {<<"sent", i>> : i \in {j \in DOMAIN toBroker :
        toBroker[j].op \in SynchronousOperations \cap Answered}}
    \cup {<<"answered", i>> : i \in {j \in DOMAIN toClient :
        /\ toClient[j].is \in {"openOK", "ok", "getOK", "closeOK"}
        /\ toClient[j].op \in SynchronousOperations}}

\* methodframe.h: after a synchronous frame no more frames are sent until the
\* answer arrives.  It takes a get or a recover for the code to break this.
OneRequestAtATime ==
    ~early /\ channel.linked /\ channel.state # "closed" =>
        /\ Cardinality(Awaited) <= 1
        /\ Awaited # {} => channel.synchronous

\* An answer reaches the callback of the call it answers, however many calls
\* are waiting, unless a Deferred without an answer was chained before.
AnswersMatch ==
    [][\A id \in DOMAIN outcome :
         outcome[id] = "pending" /\ outcome'[id] = "success" /\ ~unpaired =>
             /\ Head(toClient).op = calls[id]
             /\ Head(toClient).call = id]_vars

\* The broker never finds a frame the protocol forbids (a frame on a channel
\* that is closed, a message torn apart), except one that is too large: those
\* that waited in the queue are sent without a look at their size.
BrokerSatisfied == broker.complaint \in {"none"} \cup Oversized

\* A message is given to the callback with all of its body, once, in the order
\* of the broker.
MessagesWhole ==
    /\ \A i \in DOMAIN delivered :
           delivered[i].got = [n \in 1 .. delivered[i].size |-> <<delivered[i].tag, n>>]
    /\ \A i, j \in DOMAIN delivered : i < j => delivered[i].tag < delivered[j].tag

\* Nothing is pending, or no answer can be expected.
Settled ==
    \/ \A id \in DOMAIN outcome : outcome[id] # "pending"
    \/ unpaired \/ stalled \/ connection.state = "gone"

\* Every request is answered by one of its callbacks: nothing waits for ever in
\* a queue or for an answer that never comes, not even when the channel or the
\* connection is closed.  (The calls are bounded: one that is pending for ever
\* keeps this from being true.)  The exceptions are the Deferreds without an
\* answer, a channel that has sent a nack, and one that was opened after the
\* broker had closed the connection.
EveryRequestResolved == []<>Settled
=============================================================================
