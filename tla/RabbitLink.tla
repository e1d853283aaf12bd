----------------------------- MODULE RabbitLink -----------------------------
(***************************************************************************)
(* The link of the program to the broker: ConnectionHandler (socket,       *)
(* reconnect timer), RabbitMQClient (the AMQP connection and its channel), *)
(* the readiness of QueueSender and QueueListener, and the broker's end of *)
(* the current TCP connection.                                             *)
(*                                                                         *)
(* Signals are direct calls, so a socket event or a parsed frame with all  *)
(* it causes is one action.  Every request of the program's one channel    *)
(* waits for the answer to the one before it, so the channel is the        *)
(* sequence of its unanswered requests, and only the head is on the wire.  *)
(***************************************************************************)
EXTENDS Naturals, Sequences

CONSTANTS
    MaxFailures     \* bound: how often the network, the broker or the parser fails

ASSUME LinkAssumption == MaxFailures \in Nat

VARIABLES
    \* ConnectionHandler
    alive,          \* does the program run?
    socket,         \* state of _socket
    timer,          \* is _reconnectTimer running?
    isConnected,    \* _isConnected
    isReady,        \* _isReady
    badWrite,       \* has data been written to a socket that is not open?
    \* the AMQP connection and channel of RabbitMQClient
    amqp,           \* _state of the connection
    closeCalled,    \* its _closed
    requests,       \* requests of the channel that are not answered
    \* the registered queues
    senderReady,    \* QueueSender::_isReady
    listenerReady,  \* QueueListener::_isReady
    \* the current TCP connection and the broker's end of it
    toBroker, toClient,
    peer,           \* what the broker makes of the connection
    prefetch,       \* has basic.qos been received on it?
    consumers,      \* consumers registered on it
    delivered,      \* messages sent to them, none of which is acknowledged here
    subQueue,       \* does the sub queue exist? Some other program declares it
    failures

handlerVars == <<alive, socket, timer, isConnected, isReady, badWrite>>
amqpVars == <<amqp, closeCalled, requests>>
queueVars == <<senderReady, listenerReady>>
brokerVars == <<peer, prefetch, consumers, delivered, subQueue>>
vars == <<handlerVars, amqpVars, queueVars, toBroker, toClient, brokerVars, failures>>

ChannelRequests == {"ChannelOpen", "Qos", "Declare", "Consume"}
ClientFrames == {"Header", "StartOk", "Open", "Close"} \cup ChannelRequests
Answers == {"ChannelOpenOk", "QosOk", "DeclareOk", "ConsumeOk"}
BrokerFrames ==
    {"Start", "Tune", "OpenOk", "Close", "CloseOk", "ChannelClose", "Deliver"} \cup Answers

TypeOK ==
    /\ alive \in BOOLEAN /\ timer \in BOOLEAN /\ badWrite \in BOOLEAN
    /\ socket \in {"Unconnected", "Connecting", "Connected"}
    /\ isConnected \in BOOLEAN /\ isReady \in BOOLEAN
    /\ amqp \in {"none", "protocol", "handshake", "connected", "closing"}
    /\ closeCalled \in BOOLEAN
    /\ requests \in Seq(ChannelRequests)
    /\ senderReady \in BOOLEAN /\ listenerReady \in BOOLEAN
    /\ toBroker \in Seq(ClientFrames) /\ toClient \in Seq(BrokerFrames)
    /\ peer \in {"none", "accepted", "open", "closed"}
    /\ prefetch \in BOOLEAN /\ subQueue \in BOOLEAN
    /\ consumers \in Nat /\ delivered \in Nat
    /\ failures \in 0 .. MaxFailures

\* ConnectionHandler::start() tries to connect at once.
InitHandler ==
    /\ alive = TRUE
    /\ socket = "Connecting"
    /\ timer = FALSE
    /\ isConnected = FALSE /\ isReady = FALSE
    /\ badWrite = FALSE

\* RabbitService::start() makes a client without connection and channel.
InitClient ==
    /\ amqp = "none"
    /\ closeCalled = FALSE
    /\ requests = <<>>

\* RunnerService::start() has the sender and the listener made before the
\* event loop runs, while there is no channel to register them on.
InitQueues == senderReady = FALSE /\ listenerReady = FALSE

Init ==
    /\ InitHandler /\ InitClient /\ InitQueues
    /\ toBroker = <<>> /\ toClient = <<>>
    /\ peer = "none"
    /\ prefetch = FALSE /\ consumers = 0 /\ delivered = 0
    /\ subQueue \in BOOLEAN
    /\ failures = 0

Fail == failures < MaxFailures /\ failures' = failures + 1

-----------------------------------------------------------------------------
(***************************************************************************)
(* The AMQP connection.                                                    *)
(***************************************************************************)

\* onData() writes to whatever socket the handler has.
OnData(frames) == toBroker' = toBroker \o frames

\* close() sends the close frame at once only on a connection that is open and
\* whose channel waits for nothing; else it is left to a later frame.
ClosesNow == amqp = "connected" /\ ~closeCalled /\ requests = <<>>

\* Mutant: a close is answered instead of asked for.
CloseFramesAnswering == IF ClosesNow THEN <<"CloseOk">> ELSE <<>>

\* What close() sends at once.
CloseFrames == IF ClosesNow THEN <<"Close">> ELSE <<>>

\* Mutant: the listener is registered on the new channel at once, and again
\* when the connection is ready.
OpenChannelConsuming == <<"ChannelOpen", "Qos", "Consume">>

\* Requests on a new channel.
OpenChannel == <<"ChannelOpen", "Qos">>

\* Mutant: only the senders are registered again.
RegistrationsOfSenders == <<"Declare">>

\* Mutant: listeners first.
RegistrationsListenerFirst == <<"Consume", "Declare">>

\* handleReadyChanged(true) registers the senders, then the listeners.
Registrations == <<"Declare", "Consume">>

-----------------------------------------------------------------------------
(***************************************************************************)
(* Socket events.                                                          *)
(***************************************************************************)

\* Mutant: the change is not passed on.
LoseReadinessSilently ==
    /\ isReady' = FALSE
    /\ UNCHANGED queueVars

\* setReady(false): the queues are told if the handler was ready.
LoseReadiness ==
    /\ isReady' = FALSE
    /\ senderReady' = (senderReady /\ ~isReady)
    /\ listenerReady' = (listenerReady /\ ~isReady)

\* setConnected(false).
Disconnect == isConnected' = FALSE /\ LoseReadiness

\* The timer fires.  connectToHost() does nothing on a socket that is connected.
TryConnect ==
    /\ alive /\ timer
    /\ timer' = FALSE
    /\ socket' = IF ~isConnected /\ socket = "Unconnected" THEN "Connecting" ELSE socket
    /\ UNCHANGED <<alive, isConnected, isReady, badWrite, amqpVars, queueVars,
                   toBroker, toClient, brokerVars, failures>>

\* The client closes its old connection, which still has the handler, and
\* makes a new one, whose constructor sends the protocol header.
HandleConnected ==
    /\ alive
    /\ socket = "Connecting"
    /\ socket' = "Connected"
    /\ isConnected' = TRUE
    /\ toBroker' = CloseFrames \o <<"Header">>
    /\ amqp' = "protocol"
    /\ closeCalled' = FALSE
    /\ requests' = OpenChannel
    /\ senderReady' = FALSE /\ listenerReady' = FALSE
    /\ peer' = "accepted"
    /\ prefetch' = FALSE /\ consumers' = 0 /\ delivered' = 0
    /\ UNCHANGED <<alive, timer, isReady, badWrite, toClient, subQueue, failures>>

\* Mutant: an attempt that fails is the last one.
HandleConnectErrorUntimed ==
    /\ alive
    /\ socket = "Connecting"
    /\ Fail
    /\ socket' = "Unconnected"
    /\ Disconnect
    /\ UNCHANGED <<alive, timer, badWrite, amqpVars, toBroker, toClient, brokerVars>>

\* handleSocketError() of an attempt to connect.
HandleConnectError ==
    /\ alive
    /\ socket = "Connecting"
    /\ Fail
    /\ socket' = "Unconnected"
    /\ Disconnect
    /\ timer' = TRUE
    /\ UNCHANGED <<alive, badWrite, amqpVars, toBroker, toClient, brokerVars>>

\* handleDisconnected(), and handleSocketError() before it.  The AMQP connection
\* is not told.
HandleDisconnected ==
    /\ alive
    /\ socket = "Connected"
    /\ peer = "closed"
    /\ socket' = "Unconnected"
    /\ Disconnect
    /\ timer' = TRUE
    /\ toBroker' = <<>> /\ toClient' = <<>>
    /\ peer' = "none"
    /\ prefetch' = FALSE /\ consumers' = 0 /\ delivered' = 0
    /\ UNCHANGED <<alive, badWrite, amqpVars, subQueue, failures>>

\* A second overflow of the input buffer: the AMQP connection is closed, the
\* socket is not, and the timer is not started.  What comes later is not
\* understood any more, because bytes are missing.
Overflow ==
    /\ alive /\ isConnected
    /\ toClient # <<>>
    /\ Fail
    /\ OnData(CloseFrames)
    /\ amqp' = IF ClosesNow THEN "closing" ELSE amqp
    /\ closeCalled' = TRUE
    /\ Disconnect
    /\ UNCHANGED <<alive, socket, timer, badWrite, requests, toClient, brokerVars>>

\* ~RabbitMQClient(), which closes the AMQP connection and then the socket.  A
\* write to an unconnected socket returns -1, and the buffer shifts by that.
Stop ==
    /\ alive
    /\ alive' = FALSE
    /\ badWrite' = (ClosesNow /\ socket = "Unconnected")
    /\ socket' = "Unconnected"
    /\ timer' = FALSE
    /\ peer' = "none"
    /\ UNCHANGED <<isConnected, isReady, amqpVars, queueVars, toBroker, toClient,
                   prefetch, consumers, delivered, subQueue, failures>>

-----------------------------------------------------------------------------
(***************************************************************************)
(* Frames from the broker.                                                 *)
(***************************************************************************)

Read(frame) ==
    /\ alive /\ isConnected
    /\ toClient # <<>>
    /\ Head(toClient) = frame
    /\ toClient' = Tail(toClient)

ReadStart ==
    /\ Read("Start")
    /\ amqp' = IF amqp = "protocol" THEN "handshake" ELSE amqp
    /\ OnData(<<"StartOk">>)
    /\ UNCHANGED <<handlerVars, closeCalled, requests, queueVars, brokerVars, failures>>

\* Tune-Ok and Open are sent together.
ReadTune ==
    /\ Read("Tune")
    /\ OnData(<<"Open">>)
    /\ UNCHANGED <<handlerVars, amqpVars, queueVars, brokerVars, failures>>

\* The connection is ready.  The handler is told first, so that the queues are
\* registered behind what the channel has to send already.
ReadOpenOk ==
    /\ Read("OpenOk")
    /\ amqp' = "connected"
    /\ isReady' = TRUE
    /\ requests' = IF isReady THEN requests ELSE requests \o Registrations
    /\ OnData(<<Head(requests)>>)
    /\ UNCHANGED <<alive, socket, timer, isConnected, badWrite, closeCalled, queueVars,
                   brokerVars, failures>>

\* The head request is answered and the next one is sent.
ReadAnswer(answer) ==
    /\ Read(answer)
    /\ requests' = Tail(requests)
    /\ OnData(IF Tail(requests) = <<>> THEN <<>> ELSE <<Head(Tail(requests))>>)
    /\ senderReady' = (senderReady \/ answer = "DeclareOk")
    /\ listenerReady' = (listenerReady \/ answer = "ConsumeOk")
    /\ UNCHANGED <<handlerVars, amqp, closeCalled, brokerVars, failures>>

\* An error of the connection or of the channel: the channel and its requests
\* fail.  onError() only logs it, and no queue stops being ready.  The library
\* confirms the close, which changes nothing at the broker.
ReadError ==
    /\ Read("Close") \/ Read("ChannelClose")
    /\ requests' = <<>>
    /\ UNCHANGED <<handlerVars, amqp, closeCalled, queueVars, toBroker, brokerVars, failures>>

ReadDeliver ==
    /\ Read("Deliver")
    /\ UNCHANGED <<handlerVars, amqpVars, queueVars, toBroker, brokerVars, failures>>

ReadFrame ==
    \/ ReadStart \/ ReadTune \/ ReadOpenOk
    \/ \E answer \in Answers : ReadAnswer(answer)
    \/ ReadError \/ ReadDeliver

-----------------------------------------------------------------------------
(***************************************************************************)
(* The broker, as far as the program relies on it.                         *)
(***************************************************************************)

\* What the broker answers to a frame of an accepted connection.
Reply(frame) ==
    CASE frame = "Header"      -> "Start"
      [] frame = "StartOk"     -> "Tune"
      [] frame = "Open"        -> "OpenOk"
      [] frame = "ChannelOpen" -> "ChannelOpenOk"
      [] frame = "Qos"         -> "QosOk"
      [] frame = "Declare"     -> "DeclareOk"
      [] frame = "Consume"     -> IF subQueue THEN "ConsumeOk" ELSE "ChannelClose"
      [] frame = "Close"       -> "CloseOk"

\* A connection must begin with the header; after a close it is ended.
BrokerReads ==
    /\ peer \in {"accepted", "open"}
    /\ toBroker # <<>>
    /\ LET frame == Head(toBroker)
           refused == peer = "accepted" /\ frame # "Header"
       IN  /\ toBroker' = Tail(toBroker)
           /\ peer' = IF refused \/ frame = "Close" THEN "closed" ELSE "open"
           /\ toClient' = IF refused THEN toClient ELSE Append(toClient, Reply(frame))
           /\ prefetch' = (prefetch \/ frame = "Qos")
           /\ consumers' = IF frame = "Consume" /\ subQueue THEN consumers + 1 ELSE consumers
    /\ UNCHANGED <<handlerVars, amqpVars, queueVars, delivered, subQueue, failures>>

BrokerDelivers ==
    /\ peer = "open"
    /\ delivered < consumers
    /\ delivered' = delivered + 1
    /\ toClient' = Append(toClient, "Deliver")
    /\ UNCHANGED <<handlerVars, amqpVars, queueVars, toBroker, peer, prefetch, consumers,
                   subQueue, failures>>

\* The broker closes a connection, or refuses the login.
BrokerCloses ==
    /\ peer = "open"
    /\ Fail
    /\ toClient' = Append(toClient, "Close")
    /\ peer' = "closed"
    /\ UNCHANGED <<handlerVars, amqpVars, queueVars, toBroker, prefetch, consumers,
                   delivered, subQueue>>

\* The network or the broker fails.
LinkFails ==
    /\ peer \in {"accepted", "open"}
    /\ Fail
    /\ peer' = "closed"
    /\ UNCHANGED <<handlerVars, amqpVars, queueVars, toBroker, toClient, prefetch,
                   consumers, delivered, subQueue>>

\* The program that feeds the sub queue declares it.
SubQueueDeclared ==
    /\ ~subQueue
    /\ subQueue' = TRUE
    /\ UNCHANGED <<handlerVars, amqpVars, queueVars, toBroker, toClient, peer, prefetch,
                   consumers, delivered, failures>>

-----------------------------------------------------------------------------
ProgramNext ==
    \/ TryConnect \/ HandleConnected \/ HandleConnectError \/ HandleDisconnected
    \/ ReadFrame \/ Overflow \/ Stop

BrokerNext ==
    BrokerReads \/ BrokerDelivers \/ BrokerCloses \/ LinkFails \/ SubQueueDeclared

Next == ProgramNext \/ BrokerNext

Spec == Init /\ [][Next]_vars

(***************************************************************************)
(* Fairness: the timer fires, an attempt to connect ends, the program and  *)
(* the broker read what they are sent, and the program is told of a        *)
(* connection that has ended.  Failures and the stop are never forced.     *)
(***************************************************************************)
Fairness ==
    /\ WF_vars(TryConnect)
    /\ WF_vars(HandleConnected \/ HandleConnectError)
    /\ WF_vars(HandleDisconnected)
    /\ WF_vars(ReadFrame)
    /\ WF_vars(BrokerReads)

FairSpec == Spec /\ Fairness

-----------------------------------------------------------------------------
(***************************************************************************)
(* Properties.                                                             *)
(***************************************************************************)

\* The handler has given the connection up, and waits for the broker to end it.
GaveUp == socket = "Connected" /\ ~isConnected

\* A link that is down is tried again: without a connection an attempt is under
\* way or the timer runs, on every path that loses one; and the handler never
\* takes an old connection for the current one.
ReconnectArmed ==
    alive =>
        /\ socket = "Unconnected" => timer
        /\ isConnected => socket = "Connected"
        /\ GaveUp => closeCalled

\* A ready listener has everything a job needs: the sender of its result, the
\* connection they share and, unless the broker has ended it, a consumer.
ListenerReadiness ==
    /\ senderReady \/ listenerReady => isReady /\ isConnected /\ amqp = "connected"
    /\ listenerReady => senderReady
    /\ listenerReady /\ peer = "open" /\ alive => consumers = 1

\* The broker holds back: one consumer on a connection, and only with the
\* prefetch limit of RabbitMQClient, so one job at a time is with the program.
OneConsumerWithPrefetch == consumers <= 1 /\ (consumers > 0 => prefetch)

\* No message is handed to a listener that is not ready, which could not
\* confirm it: the answer to the registration is always read before.
DeliveredWhenReady ==
    alive /\ isConnected /\ toClient # <<>> /\ Head(toClient) = "Deliver" =>
        listenerReady /\ senderReady

\* When failures end, a program whose sub queue exists from the beginning is
\* ready in the end, unless it has given a connection up that nobody ends.
EventuallyReady ==
    subQueue /\ []alive => <>[]listenerReady \/ <>[]GaveUp

\* The AMQP connection of a link that was lost is told so, and then sends
\* nothing: a connection starts with its own header.
HeaderFirst ==
    peer = "accepted" /\ toBroker # <<>> => Head(toBroker) = "Header"

\* Buffer::shiftLeft() removes no more than the buffer holds.
ShiftsWithinBuffer == ~badWrite
=============================================================================
