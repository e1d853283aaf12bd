-------------------------- MODULE RabbitLink_proofs --------------------------
(***************************************************************************)
(* Theorems about RabbitLink, for any number of failures: a lost link is   *)
(* always tried again; a listener is ready only with all that a job needs, *)
(* has one consumer, and gets no message before it is ready.               *)
(***************************************************************************)
EXTENDS RabbitLink, SequenceTheorems, TLAPS

(***************************************************************************)
(* ReconnectArmed is inductive as it stands.  A socket that is unconnected *)
(* is not taken for connected, so the timer that fires always begins an    *)
(* attempt; every step that leaves the socket unconnected starts it again. *)
(***************************************************************************)

\* ConnectionHandler::start() has begun an attempt.
LEMMA InitArmed == Init => ReconnectArmed
BY DEF Init, InitHandler, ReconnectArmed, GaveUp

\* Frames are read on a live connection, and none of them changes the handler's
\* view of the socket.
LEMMA ReadFrameArmed ==
    ASSUME ReconnectArmed, ReadFrame
    PROVE  ReconnectArmed'
<1>1. isConnected
  BY DEF ReadFrame, ReadStart, ReadTune, ReadOpenOk, ReadAnswer, ReadError, ReadDeliver, Read
<1>2. UNCHANGED <<alive, socket, timer, isConnected>>
  BY DEF ReadFrame, ReadStart, ReadTune, ReadOpenOk, ReadAnswer, ReadError, ReadDeliver,
         handlerVars
<1> QED
  BY <1>1, <1>2 DEF ReconnectArmed, GaveUp

\* No step of the program leaves a lost link without an attempt or a timer.
LEMMA ProgramArmed ==
    ASSUME ReconnectArmed, ProgramNext
    PROVE  ReconnectArmed'
<1>1. CASE TryConnect
  <2>1. alive /\ alive' = alive /\ UNCHANGED <<isConnected, closeCalled>>
    BY <1>1 DEF TryConnect, amqpVars
  <2>2. socket' # "Unconnected" /\ (socket = "Connected" <=> socket' = "Connected")
    BY <1>1, <2>1 DEF TryConnect, ReconnectArmed
  <2> QED
    BY <2>1, <2>2 DEF ReconnectArmed, GaveUp
<1>2. CASE HandleConnected
  BY <1>2 DEF HandleConnected, ReconnectArmed, GaveUp
<1>3. CASE HandleConnectError
  BY <1>3 DEF HandleConnectError, Disconnect, ReconnectArmed, GaveUp
<1>4. CASE HandleDisconnected
  BY <1>4 DEF HandleDisconnected, Disconnect, ReconnectArmed, GaveUp
<1>5. CASE ReadFrame
  BY <1>5, ReadFrameArmed
<1>6. CASE Overflow
  BY <1>6 DEF Overflow, Disconnect, ReconnectArmed, GaveUp
<1>7. CASE Stop
  BY <1>7 DEF Stop, ReconnectArmed
<1> QED
  BY <1>1, <1>2, <1>3, <1>4, <1>5, <1>6, <1>7 DEF ProgramNext

\* The broker and the network do not touch what the handler knows.
LEMMA BrokerArmed ==
    ASSUME ReconnectArmed, BrokerNext
    PROVE  ReconnectArmed'
<1>1. UNCHANGED <<handlerVars, amqpVars>>
  BY DEF BrokerNext, BrokerReads, BrokerDelivers, BrokerCloses, LinkFails, SubQueueDeclared
<1> QED
  BY <1>1 DEF handlerVars, amqpVars, ReconnectArmed, GaveUp

\* A lost link is always tried again: ReconnectArmed holds whatever the network,
\* the broker and the parser do, and however often.
THEOREM LinkRetried == Spec => []ReconnectArmed
<1>1. ReconnectArmed /\ [Next]_vars => ReconnectArmed'
  <2>1. ReconnectArmed /\ UNCHANGED vars => ReconnectArmed'
    BY DEF vars, handlerVars, amqpVars, ReconnectArmed, GaveUp
  <2> QED
    BY <2>1, ProgramArmed, BrokerArmed DEF Next
<1> QED
  BY <1>1, InitArmed, PTL DEF Spec

-----------------------------------------------------------------------------
(***************************************************************************)
(* The inductive invariant.  Each request of a connection waits for the    *)
(* answer to the one before, so the two directions of a live connection    *)
(* together hold one request or its answer, and the client's state tells   *)
(* which.  Only a delivery, once the consumer exists, and the broker's     *)
(* close, which is the last frame it sends, come on top.                   *)
(***************************************************************************)

Requests == {"Header", "StartOk", "Open"} \cup ChannelRequests

\* What the requests of the channel are while q is the one that waits.
RequestsAt(q) ==
    CASE q = "Qos"     -> <<"Qos", "Declare", "Consume">>
      [] q = "Declare" -> <<"Declare", "Consume">>
      [] q = "Consume" -> <<"Consume">>
      [] q = "ChannelOpen" -> <<"ChannelOpen", "Qos", "Declare", "Consume">>
      [] OTHER -> OpenChannel

\* The client waits for the answer to q.
WaitsFor(q) ==
    /\ requests = RequestsAt(q)
    /\ q = "Header" => amqp = "protocol"
    /\ q \in {"StartOk", "Open"} => amqp = "handshake"
    /\ q \in ChannelRequests => amqp = "connected"
    /\ (isReady <=> q \in ChannelRequests)
    /\ (senderReady <=> q = "Consume")
    /\ ~listenerReady

\* These frames wait to be read, and perhaps the broker's close behind them.
Arriving(frames) ==
    toClient = frames \/ (toClient = Append(frames, "Close") /\ peer = "closed")

\* Nothing but the header is said to a broker that has only accepted.
PeerAt(q) == peer = "closed" \/ peer = (IF q = "Header" THEN "accepted" ELSE "open")

\* The broker has not read q.  The close of the connection before may be
\* in front of the header.
Asked(q) ==
    /\ toBroker = <<q>> \/ (q = "Header" /\ toBroker = <<"Close", "Header">>)
    /\ Arriving(<<>>)
    /\ PeerAt(q)
    /\ q \in {"Declare", "Consume"} => prefetch
    /\ consumers = 0 /\ delivered = 0

AnswersTo(q) == IF q = "Consume" THEN {"ConsumeOk", "ChannelClose"} ELSE {Reply(q)}

\* The answer r to q is on its way.
Answered(q, r) ==
    /\ toBroker = <<>>
    /\ peer \in {"open", "closed"}
    /\ q \in {"Qos", "Declare", "Consume"} => prefetch
    /\ consumers = IF r = "ConsumeOk" THEN 1 ELSE 0
    /\ \/ Arriving(<<r>>) /\ delivered = 0
       \/ Arriving(<<r, "Deliver">>) /\ r = "ConsumeOk" /\ delivered = 1

\* All requests are answered: there is a consumer, or the broker refused it.
Settled ==
    /\ requests = <<>> /\ toBroker = <<>>
    /\ amqp = "connected" /\ isReady /\ senderReady
    /\ peer \in {"open", "closed"} /\ prefetch
    /\ consumers = IF listenerReady THEN 1 ELSE 0
    /\ \/ Arriving(<<>>) /\ delivered <= consumers
       \/ Arriving(<<"Deliver">>) /\ delivered = 1 /\ listenerReady

\* The broker's close has been read.
Failed == requests = <<>> /\ toClient = <<>> /\ peer = "closed"

Conversation ==
    \/ \E q \in Requests :
          WaitsFor(q) /\ (Asked(q) \/ \E r \in AnswersTo(q) : Answered(q, r))
    \/ Settled
    \/ Failed

\* Without a connection the broker knows nothing of the program.
Unlinked ==
    /\ ~isConnected
    /\ toBroker = <<>> /\ toClient = <<>>
    /\ peer = "none"
    /\ ~prefetch /\ consumers = 0 /\ delivered = 0

\* A connection that was given up is only read by the broker: at most one frame
\* of it, which registers the first consumer if any.
OneFrameLeft ==
    \/ peer = "closed"
    \/ toBroker = <<>>
    \/ \E q \in ClientFrames :
          /\ toBroker = <<q>>
          /\ q = "Consume" => prefetch /\ consumers = 0
    \/ toBroker = <<"Close", "Header">> /\ peer = "accepted"

\* A queue is ready on a ready connection, and the listener after the sender.
QueuesReady ==
    /\ isReady => isConnected
    /\ senderReady \/ listenerReady => isReady /\ amqp = "connected"
    /\ listenerReady => senderReady

IInv ==
    /\ TypeOK
    /\ OneConsumerWithPrefetch
    /\ QueuesReady
    /\ ~alive => peer = "none"
    /\ alive =>
        /\ socket # "Connected" => Unlinked
        /\ socket = "Connected" => peer # "none"
        /\ isConnected => socket = "Connected" /\ Conversation
        /\ GaveUp => OneFrameLeft

-----------------------------------------------------------------------------
\* The sequences of frames that occur are short: taken apart.
LEMMA ShortSequences ==
    /\ \A a : <<a>> # <<>> /\ Head(<<a>>) = a /\ Tail(<<a>>) = <<>>
    /\ \A a, b : <<a, b>> # <<>> /\ Head(<<a, b>>) = a /\ Tail(<<a, b>>) = <<b>>
    /\ \A a, b, c : <<a, b, c>> # <<>> /\ Head(<<a, b, c>>) = a /\ Tail(<<a, b, c>>) = <<b, c>>
    /\ \A a, b, c, d :
          <<a, b, c, d>> # <<>> /\ Head(<<a, b, c, d>>) = a /\ Tail(<<a, b, c, d>>) = <<b, c, d>>
<1>1. \A a : <<a>> # <<>> /\ Head(<<a>>) = a /\ Tail(<<a>>) = <<>>
  OBVIOUS
<1>2. \A a, b : <<a, b>> # <<>> /\ Head(<<a, b>>) = a /\ Tail(<<a, b>>) = <<b>>
  OBVIOUS
<1>3. \A a, b, c : <<a, b, c>> # <<>> /\ Head(<<a, b, c>>) = a /\ Tail(<<a, b, c>>) = <<b, c>>
  OBVIOUS
<1>4. \A a, b, c, d :
         <<a, b, c, d>> # <<>> /\ Head(<<a, b, c, d>>) = a /\ Tail(<<a, b, c, d>>) = <<b, c, d>>
  OBVIOUS
<1> QED
  BY <1>1, <1>2, <1>3, <1>4

\* And put together.
LEMMA ShortAppends ==
    /\ \A a : Append(<<>>, a) = <<a>>
    /\ \A a, b : <<a, b>> = Append(<<a>>, b)
    /\ \A a, b, c : <<a, b, c>> = Append(<<a, b>>, c)
    /\ \A a, b, c, d : <<a, b, c, d>> = Append(<<a, b, c>>, d)
<1>1. \A a : Append(<<>>, a) = <<a>>
  OBVIOUS
<1>2. \A a, b : <<a, b>> = Append(<<a>>, b)
  <2> TAKE a, b
  <2>1. <<a>> \in Seq({a, b}) /\ <<a, b>> = Append(<<a>>, b)
    OBVIOUS
  <2> QED
    BY <2>1
<1>3. \A a, b, c : <<a, b, c>> = Append(<<a, b>>, c)
  <2> TAKE a, b, c
  <2>1. <<a, b>> \in Seq({a, b, c}) /\ <<a, b, c>> = Append(<<a, b>>, c)
    OBVIOUS
  <2> QED
    BY <2>1
<1>4. \A a, b, c, d : <<a, b, c, d>> = Append(<<a, b, c>>, d)
  <2> TAKE a, b, c, d
  <2>1. <<a, b, c>> \in Seq({a, b, c, d}) /\ <<a, b, c, d>> = Append(<<a, b, c>>, d)
    OBVIOUS
  <2> QED
    BY <2>1
<1> QED
  BY <1>1, <1>2, <1>3, <1>4

LEMMA ShortConcatenations ==
    /\ <<>> \o <<>> = <<>>
    /\ \A a : <<>> \o <<a>> = <<a>>
    /\ \A a, b : <<a>> \o <<b>> = <<a, b>>
    /\ \A a, b, c, d : <<a, b>> \o <<c, d>> = <<a, b, c, d>>
<1>1. <<>> \o <<>> = <<>>
  OBVIOUS
<1>2. \A a : <<>> \o <<a>> = <<a>>
  OBVIOUS
<1>3. \A a, b : <<a>> \o <<b>> = <<a, b>>
  <2> TAKE a, b
  <2>1. <<a>> \in Seq({a, b}) /\ <<a, b>> = Append(<<a>>, b)
    OBVIOUS
  <2> QED
    BY <2>1, AppendIsConcat
<1>4. \A a, b, c, d : <<a, b>> \o <<c, d>> = <<a, b, c, d>>
  <2> TAKE a, b, c, d
  <2> DEFINE S == {a, b, c, d}
  <2>1. <<a, b>> \in Seq(S) /\ <<c>> \in Seq(S) /\ <<d>> \in Seq(S) /\ <<a, b, c>> \in Seq(S)
    OBVIOUS
  <2>2. <<a, b>> \o <<c>> = <<a, b, c>>
    <3>1. c \in S /\ <<a, b, c>> = Append(<<a, b>>, c)
      OBVIOUS
    <3> QED
      BY <2>1, <3>1, AppendIsConcat
  <2>3. <<a, b, c>> \o <<d>> = <<a, b, c, d>>
    <3>1. d \in S /\ <<a, b, c, d>> = Append(<<a, b, c>>, d)
      OBVIOUS
    <3> QED
      BY <2>1, <3>1, AppendIsConcat
  <2>4. (<<a, b>> \o <<c>>) \o <<d>> = <<a, b>> \o (<<c>> \o <<d>>)
    BY <2>1, ConcatAssociative
  <2> QED
    BY <1>3, <2>2, <2>3, <2>4
<1> QED
  BY <1>1, <1>2, <1>3, <1>4

-----------------------------------------------------------------------------
(***************************************************************************)
(* What the client finds when it reads.                                    *)
(***************************************************************************)

\* The head of what arrives, and what is left.
LEMMA ArrivingHead ==
    /\ Arriving(<<>>) /\ toClient # <<>> =>
          toClient = <<"Close">> /\ Head(toClient) = "Close" /\ peer = "closed"
    /\ \A r : Arriving(<<r>>) =>
          /\ Head(toClient) = r
          /\ Tail(toClient) = <<>> \/ (Tail(toClient) = <<"Close">> /\ peer = "closed")
    /\ \A r : Arriving(<<r, "Deliver">>) =>
          /\ Head(toClient) = r
          /\ \/ Tail(toClient) = <<"Deliver">>
             \/ Tail(toClient) = <<"Deliver", "Close">> /\ peer = "closed"
<1>1. Arriving(<<>>) /\ toClient # <<>> =>
          toClient = <<"Close">> /\ Head(toClient) = "Close" /\ peer = "closed"
  BY ShortSequences, ShortAppends DEF Arriving
<1>2. ASSUME NEW r, Arriving(<<r>>)
      PROVE  /\ Head(toClient) = r
             /\ Tail(toClient) = <<>> \/ (Tail(toClient) = <<"Close">> /\ peer = "closed")
  <2>1. toClient = <<r>> \/ (toClient = <<r, "Close">> /\ peer = "closed")
    BY <1>2, ShortAppends DEF Arriving
  <2> QED
    BY <2>1, ShortSequences
<1>3. ASSUME NEW r, Arriving(<<r, "Deliver">>)
      PROVE  /\ Head(toClient) = r
             /\ \/ Tail(toClient) = <<"Deliver">>
                \/ Tail(toClient) = <<"Deliver", "Close">> /\ peer = "closed"
  <2>1. toClient = <<r, "Deliver">> \/ (toClient = <<r, "Deliver", "Close">> /\ peer = "closed")
    BY <1>3, ShortAppends DEF Arriving
  <2>2. Head(<<r, "Deliver">>) = r /\ Tail(<<r, "Deliver">>) = <<"Deliver">>
    BY ShortSequences
  <2>3. /\ Head(<<r, "Deliver", "Close">>) = r
        /\ Tail(<<r, "Deliver", "Close">>) = <<"Deliver", "Close">>
    BY ShortSequences
  <2> QED
    BY <2>1, <2>2, <2>3
<1> QED
  BY <1>1, <1>2, <1>3

\* Every frame but a delivery and a close answers one request.
LEMMA AnswersDiffer ==
    /\ \A q \in Requests : /\ "Deliver" \notin AnswersTo(q) /\ "Close" \notin AnswersTo(q)
                           /\ "CloseOk" \notin AnswersTo(q)
    /\ \A q \in Requests :
          /\ "Start" \in AnswersTo(q) => q = "Header"
          /\ "Tune" \in AnswersTo(q) => q = "StartOk"
          /\ "OpenOk" \in AnswersTo(q) => q = "Open"
          /\ "ChannelOpenOk" \in AnswersTo(q) => q = "ChannelOpen"
          /\ "QosOk" \in AnswersTo(q) => q = "Qos"
          /\ "DeclareOk" \in AnswersTo(q) => q = "Declare"
          /\ "ConsumeOk" \in AnswersTo(q) => q = "Consume"
          /\ "ChannelClose" \in AnswersTo(q) => q = "Consume"
    /\ \A q \in Requests : Reply(q) \in AnswersTo(q)
    /\ \A q \in ClientFrames : Reply(q) \in BrokerFrames
    /\ \A q \in Requests : \A r : r \in AnswersTo(q) => r \in BrokerFrames
BY DEF Requests, ChannelRequests, ClientFrames, AnswersTo, Reply, BrokerFrames, Answers

\* A frame that is read is the broker's close, a delivery to a ready listener,
\* or the answer to the request that waits.
LEMMA WhatIsRead ==
    ASSUME IInv, NEW f, Read(f)
    PROVE  \/ f = "Close" /\ toClient' = <<>> /\ peer = "closed"
           \/ /\ f = "Deliver" /\ Settled /\ delivered = 1 /\ listenerReady
              /\ toClient' = <<>> \/ (toClient' = <<"Close">> /\ peer = "closed")
           \/ \E q \in Requests : WaitsFor(q) /\ f \in AnswersTo(q) /\ Answered(q, f)
<1>1. alive /\ isConnected /\ toClient # <<>> /\ f = Head(toClient) /\ toClient' = Tail(toClient)
  BY DEF Read
<1>2. Conversation
  BY <1>1 DEF IInv
<1>3. CASE Arriving(<<>>)
  BY <1>1, <1>3, ArrivingHead, ShortSequences
<1>4. CASE Settled
  <2>1. CASE Arriving(<<"Deliver">>) /\ delivered = 1 /\ listenerReady
    BY <1>1, <1>4, <2>1, ArrivingHead
  <2> QED
    BY <1>3, <1>4, <2>1 DEF Settled
<1>5. CASE Failed
  BY <1>1, <1>5 DEF Failed
<1>6. ASSUME NEW q \in Requests, WaitsFor(q), Asked(q) PROVE Arriving(<<>>)
  BY <1>6 DEF Asked
<1>7. ASSUME NEW q \in Requests, NEW r \in AnswersTo(q), Answered(q, r) PROVE f = r
  BY <1>1, <1>7, ArrivingHead DEF Answered
<1> QED
  BY <1>2, <1>3, <1>4, <1>5, <1>6, <1>7 DEF Conversation

\* What is left when an answer was read.
LEMMA WhatIsLeft ==
    ASSUME NEW q, NEW r, Answered(q, r), Read(r), peer' = peer
    PROVE  /\ Arriving(<<>>)' \/ (Arriving(<<"Deliver">>)' /\ delivered = 1 /\ r = "ConsumeOk")
           /\ r # "ConsumeOk" => Arriving(<<>>)'
           /\ delivered = 1 \/ Arriving(<<>>)'
<1>1. toClient' = Tail(toClient)
  BY DEF Read
<1>2. CASE Arriving(<<r>>) /\ delivered = 0
  <2>1. Arriving(<<>>)'
    BY <1>1, <1>2, ArrivingHead, ShortAppends DEF Arriving
  <2> QED
    BY <2>1
<1>3. CASE Arriving(<<r, "Deliver">>) /\ r = "ConsumeOk" /\ delivered = 1
  <2>1. Arriving(<<"Deliver">>)'
    BY <1>1, <1>3, ArrivingHead, ShortAppends DEF Arriving
  <2> QED
    BY <1>3, <2>1
<1> QED
  BY <1>2, <1>3 DEF Answered

-----------------------------------------------------------------------------
(***************************************************************************)
(* Types.                                                                  *)
(***************************************************************************)

\* The frames of a step are frames.
LEMMA FramesTyped ==
    /\ \A q \in ClientFrames : <<q>> \in Seq(ClientFrames)
    /\ <<>> \in Seq(ClientFrames)
    /\ CloseFrames \in Seq(ClientFrames)
    /\ OpenChannel \in Seq(ChannelRequests) /\ Registrations \in Seq(ChannelRequests)
    /\ ChannelRequests \subseteq ClientFrames /\ Requests \subseteq ClientFrames
    /\ \A s \in Seq(ClientFrames), t \in Seq(ClientFrames) : s \o t \in Seq(ClientFrames)
    /\ \A s \in Seq(ChannelRequests), t \in Seq(ChannelRequests) : s \o t \in Seq(ChannelRequests)
<1>1. \A q \in ClientFrames : <<q>> \in Seq(ClientFrames)
  OBVIOUS
<1>2. <<>> \in Seq(ClientFrames)
  OBVIOUS
<1>3. "Close" \in ClientFrames /\ "ChannelOpen" \in ChannelRequests /\ "Qos" \in ChannelRequests
      /\ "Declare" \in ChannelRequests /\ "Consume" \in ChannelRequests
  BY DEF ClientFrames, ChannelRequests
<1>4. CloseFrames \in Seq(ClientFrames)
  BY <1>1, <1>2, <1>3 DEF CloseFrames
<1>5. OpenChannel \in Seq(ChannelRequests) /\ Registrations \in Seq(ChannelRequests)
  BY <1>3 DEF OpenChannel, Registrations
<1>6. ChannelRequests \subseteq ClientFrames /\ Requests \subseteq ClientFrames
  BY DEF ClientFrames, Requests
<1>7. \A s \in Seq(ClientFrames), t \in Seq(ClientFrames) : s \o t \in Seq(ClientFrames)
  BY ConcatProperties
<1>8. \A s \in Seq(ChannelRequests), t \in Seq(ChannelRequests) : s \o t \in Seq(ChannelRequests)
  BY ConcatProperties
<1> QED
  BY <1>1, <1>2, <1>4, <1>5, <1>6, <1>7, <1>8

\* The requests of the channel while one of them waits.
LEMMA RequestsHeld ==
    /\ OpenChannel = <<"ChannelOpen", "Qos">> /\ Registrations = <<"Declare", "Consume">>
    /\ OpenChannel \o Registrations = RequestsAt("ChannelOpen")
    /\ \A q \in Requests : RequestsAt(q) # <<>>
    /\ \A q \in ChannelRequests : Head(RequestsAt(q)) = q
    /\ Tail(RequestsAt("ChannelOpen")) = RequestsAt("Qos")
    /\ Tail(RequestsAt("Qos")) = RequestsAt("Declare")
    /\ Tail(RequestsAt("Declare")) = RequestsAt("Consume")
    /\ Tail(RequestsAt("Consume")) = <<>>
    /\ \A q \in Requests : q \in ChannelRequests \/ RequestsAt(q) = OpenChannel
<1>1. OpenChannel = <<"ChannelOpen", "Qos">> /\ Registrations = <<"Declare", "Consume">>
  BY DEF OpenChannel, Registrations
<1>2. /\ RequestsAt("ChannelOpen") = <<"ChannelOpen", "Qos", "Declare", "Consume">>
      /\ RequestsAt("Qos") = <<"Qos", "Declare", "Consume">>
      /\ RequestsAt("Declare") = <<"Declare", "Consume">>
      /\ RequestsAt("Consume") = <<"Consume">>
      /\ \A q \in Requests : q \in ChannelRequests \/ RequestsAt(q) = OpenChannel
  BY DEF RequestsAt, Requests, ChannelRequests
<1>3. \A q \in ChannelRequests : RequestsAt(q) # <<>> /\ Head(RequestsAt(q)) = q
  BY <1>2, ShortSequences DEF ChannelRequests
<1>4. OpenChannel # <<>>
  BY <1>1, ShortSequences
<1>5. OpenChannel \o Registrations = RequestsAt("ChannelOpen")
  BY <1>1, <1>2, ShortConcatenations
<1>6. /\ Tail(RequestsAt("ChannelOpen")) = RequestsAt("Qos")
      /\ Tail(RequestsAt("Qos")) = RequestsAt("Declare")
      /\ Tail(RequestsAt("Declare")) = RequestsAt("Consume")
      /\ Tail(RequestsAt("Consume")) = <<>>
  <2>1. /\ Tail(<<"ChannelOpen", "Qos", "Declare", "Consume">>) = <<"Qos", "Declare", "Consume">>
        /\ Tail(<<"Qos", "Declare", "Consume">>) = <<"Declare", "Consume">>
        /\ Tail(<<"Declare", "Consume">>) = <<"Consume">>
        /\ Tail(<<"Consume">>) = <<>>
    BY ShortSequences
  <2> QED
    BY <1>2, <2>1
<1> QED
  BY <1>1, <1>2, <1>3, <1>4, <1>5, <1>6

\* An answer is read while its request is at the head of the channel's.
LEMMA AnswerRead ==
    ASSUME IInv, NEW answer \in Answers, Read(answer)
    PROVE  \E q \in ChannelRequests :
              /\ WaitsFor(q) /\ answer \in AnswersTo(q) /\ Answered(q, answer)
              /\ requests # <<>> /\ requests = RequestsAt(q)
<1>1. answer # "Close" /\ answer # "Deliver"
  BY DEF Answers
<1>2. PICK q \in Requests : WaitsFor(q) /\ answer \in AnswersTo(q) /\ Answered(q, answer)
  BY <1>1, WhatIsRead
<1>3. q \in ChannelRequests
  BY <1>2, AnswersDiffer DEF Answers, ChannelRequests
<1>4. requests = RequestsAt(q)
  BY <1>2 DEF WaitsFor
<1> QED
  BY <1>2, <1>3, <1>4, RequestsHeld

\* The client is made ready while the first request of its channel waits.
LEMMA OpenOkRead ==
    ASSUME IInv, Read("OpenOk")
    PROVE  /\ WaitsFor("Open") /\ Answered("Open", "OpenOk")
           /\ requests = OpenChannel /\ Head(requests) = "ChannelOpen"
<1>1. PICK q \in Requests : WaitsFor(q) /\ "OpenOk" \in AnswersTo(q) /\ Answered(q, "OpenOk")
  BY WhatIsRead
<1>2. q = "Open"
  BY <1>1, AnswersDiffer
<1>3. requests = OpenChannel
  BY <1>1, <1>2 DEF WaitsFor, RequestsAt
<1> QED
  BY <1>1, <1>2, <1>3, RequestsHeld, ShortSequences

LEMMA ReadFrameTyped ==
    ASSUME IInv, ReadFrame
    PROVE  TypeOK'
<1>1. TypeOK
  BY DEF IInv
<1>2. toClient' = Tail(toClient) /\ toClient # <<>>
  BY DEF ReadFrame, ReadStart, ReadTune, ReadOpenOk, ReadAnswer, ReadError, ReadDeliver, Read
<1>3. toClient' \in Seq(BrokerFrames)
  BY <1>1, <1>2, HeadTailProperties DEF TypeOK
<1>4. \A q \in ClientFrames : toBroker \o <<q>> \in Seq(ClientFrames)
  BY <1>1, FramesTyped DEF TypeOK
<1>5. CASE ReadStart
  BY <1>1, <1>3, <1>4, <1>5 DEF ReadStart, OnData, TypeOK, ClientFrames,
                                handlerVars, queueVars, brokerVars
<1>6. CASE ReadTune
  BY <1>1, <1>3, <1>4, <1>6 DEF ReadTune, OnData, TypeOK, ClientFrames,
                                handlerVars, amqpVars, queueVars, brokerVars
<1>7. CASE ReadOpenOk
  <2>1. requests' \in Seq(ChannelRequests)
    BY <1>1, <1>7, FramesTyped DEF ReadOpenOk, TypeOK
  <2>2. toBroker' \in Seq(ClientFrames)
    <3>1. Head(requests) \in ClientFrames
      BY <1>7, OpenOkRead DEF ReadOpenOk, ClientFrames, ChannelRequests
    <3> QED
      BY <1>4, <1>7, <3>1 DEF ReadOpenOk, OnData
  <2> QED
    BY <1>1, <1>3, <1>7, <2>1, <2>2 DEF ReadOpenOk, TypeOK, queueVars, brokerVars
<1>8. CASE \E answer \in Answers : ReadAnswer(answer)
  <2> PICK answer \in Answers : ReadAnswer(answer)
    BY <1>8
  <2>1. requests # <<>>
    BY AnswerRead DEF ReadAnswer
  <2>2. requests' \in Seq(ChannelRequests)
    BY <1>1, <2>1, HeadTailProperties DEF ReadAnswer, TypeOK
  <2>3. toBroker' \in Seq(ClientFrames)
    <3>1. CASE Tail(requests) = <<>>
      BY <1>1, <3>1, FramesTyped DEF ReadAnswer, OnData, TypeOK
    <3>2. CASE Tail(requests) # <<>>
      <4>1. Head(Tail(requests)) \in ClientFrames
        BY <2>2, <3>2, HeadTailProperties, FramesTyped DEF ReadAnswer
      <4> QED
        BY <1>4, <3>2, <4>1 DEF ReadAnswer, OnData
    <3> QED
      BY <3>1, <3>2
  <2>4. senderReady' \in BOOLEAN /\ listenerReady' \in BOOLEAN
    BY DEF ReadAnswer
  <2> QED
    BY <1>1, <1>3, <2>2, <2>3, <2>4 DEF ReadAnswer, TypeOK, handlerVars, brokerVars
<1>9. CASE ReadError
  BY <1>1, <1>3, <1>9 DEF ReadError, TypeOK, handlerVars, queueVars, brokerVars
<1>10. CASE ReadDeliver
  BY <1>1, <1>3, <1>10 DEF ReadDeliver, TypeOK, handlerVars, amqpVars, queueVars, brokerVars
<1> QED
  BY <1>5, <1>6, <1>7, <1>8, <1>9, <1>10 DEF ReadFrame

\* The other steps of the program.
LEMMA ProgramTyped ==
    ASSUME IInv, ProgramNext
    PROVE  TypeOK'
<1>1. TypeOK
  BY DEF IInv
<1>2. CASE TryConnect
  <2>1. socket' \in {"Unconnected", "Connecting", "Connected"} /\ timer' \in BOOLEAN
    BY <1>1, <1>2 DEF TryConnect, TypeOK
  <2> QED
    BY <1>1, <1>2, <2>1 DEF TryConnect, TypeOK, amqpVars, queueVars, brokerVars
<1>3. CASE HandleConnected
  <2>1. toBroker' \in Seq(ClientFrames)
    BY <1>3, FramesTyped DEF HandleConnected, ClientFrames
  <2>2. requests' \in Seq(ChannelRequests)
    BY <1>3, FramesTyped DEF HandleConnected
  <2> QED
    BY <1>1, <1>3, <2>1, <2>2 DEF HandleConnected, TypeOK
<1>4. CASE HandleConnectError
  <2>1. /\ senderReady' \in BOOLEAN /\ listenerReady' \in BOOLEAN
        /\ isConnected' \in BOOLEAN /\ isReady' \in BOOLEAN
    BY <1>4 DEF HandleConnectError, Disconnect, LoseReadiness
  <2> QED
    BY <1>1, <1>4, <2>1, LinkAssumption
    DEF HandleConnectError, TypeOK, Fail, amqpVars, brokerVars
<1>5. CASE HandleDisconnected
  <2>1. /\ senderReady' \in BOOLEAN /\ listenerReady' \in BOOLEAN
        /\ isConnected' \in BOOLEAN /\ isReady' \in BOOLEAN
    BY <1>5 DEF HandleDisconnected, Disconnect, LoseReadiness
  <2>2. /\ UNCHANGED <<alive, badWrite, amqp, closeCalled, requests, subQueue, failures>>
        /\ timer' = TRUE /\ socket' = "Unconnected" /\ peer' = "none"
        /\ toBroker' = <<>> /\ toClient' = <<>>
        /\ prefetch' = FALSE /\ consumers' = 0 /\ delivered' = 0
    BY <1>5 DEF HandleDisconnected, amqpVars
  <2>3. toBroker' \in Seq(ClientFrames) /\ toClient' \in Seq(BrokerFrames)
    BY <2>2
  <2> QED
    BY <1>1, <2>1, <2>2, <2>3 DEF TypeOK
<1>6. CASE ReadFrame
  BY <1>6, ReadFrameTyped
<1>7. CASE Overflow
  <2>1. /\ senderReady' \in BOOLEAN /\ listenerReady' \in BOOLEAN
        /\ isConnected' \in BOOLEAN /\ isReady' \in BOOLEAN
    BY <1>7 DEF Overflow, Disconnect, LoseReadiness
  <2>2. toBroker' \in Seq(ClientFrames)
    BY <1>1, <1>7, FramesTyped DEF Overflow, OnData, TypeOK
  <2> QED
    BY <1>1, <1>7, <2>1, <2>2, LinkAssumption DEF Overflow, TypeOK, Fail, brokerVars
<1>8. CASE Stop
  <2>1. badWrite' \in BOOLEAN
    BY <1>8 DEF Stop
  <2> QED
    BY <1>1, <1>8, <2>1 DEF Stop, TypeOK, amqpVars, queueVars
<1> QED
  BY <1>2, <1>3, <1>4, <1>5, <1>6, <1>7, <1>8 DEF ProgramNext

LEMMA BrokerTyped ==
    ASSUME TypeOK, BrokerNext
    PROVE  TypeOK'
<1>1. CASE BrokerReads
  <2>1. toBroker' \in Seq(ClientFrames) /\ Head(toBroker) \in ClientFrames
    BY <1>1, HeadTailProperties DEF BrokerReads, TypeOK
  <2>2. toClient' \in Seq(BrokerFrames)
    <3>1. Reply(Head(toBroker)) \in BrokerFrames
      BY <2>1, AnswersDiffer
    <3>2. Append(toClient, Reply(Head(toBroker))) \in Seq(BrokerFrames)
      BY <3>1, AppendProperties DEF TypeOK
    <3> QED
      BY <1>1, <3>2 DEF BrokerReads, TypeOK
  <2>3. peer' \in {"none", "accepted", "open", "closed"}
    BY <1>1 DEF BrokerReads
  <2>4. prefetch' \in BOOLEAN
    BY <1>1 DEF BrokerReads
  <2>5. consumers' \in Nat
    BY <1>1 DEF BrokerReads, TypeOK
  <2>6. UNCHANGED <<handlerVars, amqpVars, queueVars, delivered, subQueue, failures>>
    BY <1>1 DEF BrokerReads
  <2> QED
    BY <2>1, <2>2, <2>3, <2>4, <2>5, <2>6 DEF TypeOK, handlerVars, amqpVars, queueVars
<1>2. CASE BrokerDelivers
  <2>1. toClient' \in Seq(BrokerFrames)
    BY <1>2, AppendProperties DEF BrokerDelivers, TypeOK, BrokerFrames
  <2> QED
    BY <1>2, <2>1 DEF BrokerDelivers, TypeOK, handlerVars, amqpVars, queueVars
<1>3. CASE BrokerCloses
  <2>1. toClient' \in Seq(BrokerFrames)
    BY <1>3, AppendProperties DEF BrokerCloses, TypeOK, BrokerFrames
  <2> QED
    BY <1>3, <2>1, LinkAssumption
    DEF BrokerCloses, TypeOK, Fail, handlerVars, amqpVars, queueVars
<1>4. CASE LinkFails
  BY <1>4, LinkAssumption DEF LinkFails, TypeOK, Fail, handlerVars, amqpVars, queueVars
<1>5. CASE SubQueueDeclared
  BY <1>5 DEF SubQueueDeclared, TypeOK, handlerVars, amqpVars, queueVars
<1> QED
  BY <1>1, <1>2, <1>3, <1>4, <1>5 DEF BrokerNext

-----------------------------------------------------------------------------
(***************************************************************************)
(* The conversation goes on: the client's side.                            *)
(***************************************************************************)

\* A request is sent when the answer to the one before was read.
LEMMA NextAsked ==
    ASSUME NEW q, NEW r, NEW p \in Requests, Answered(q, r), Read(r), r # "ConsumeOk",
           UNCHANGED brokerVars, OnData(<<p>>),
           p # "Header", p \in {"Declare", "Consume"} => prefetch
    PROVE  Asked(p)'
<1>1. UNCHANGED <<peer, prefetch, consumers, delivered>>
  BY DEF brokerVars
<1>2. Arriving(<<>>)'
  BY <1>1, WhatIsLeft
<1>3. toBroker' = <<p>>
  BY ShortConcatenations DEF OnData, Answered
<1>4. peer' = "closed" \/ peer' = "open"
  BY <1>1 DEF Answered
<1>5. consumers' = 0 /\ delivered' = 0
  BY <1>1 DEF Answered
<1> QED
  BY <1>1, <1>2, <1>3, <1>4, <1>5 DEF Asked, PeerAt

LEMMA ReadStartConverses ==
    ASSUME IInv, ReadStart
    PROVE  Conversation'
<1>1. Read("Start")
  BY DEF ReadStart
<1>2. PICK q \in Requests : WaitsFor(q) /\ "Start" \in AnswersTo(q) /\ Answered(q, "Start")
  BY <1>1, WhatIsRead
<1>3. q = "Header"
  BY <1>2, AnswersDiffer
<1>4. Asked("StartOk")'
  BY <1>1, <1>2, NextAsked DEF ReadStart, Requests
<1>5. WaitsFor("StartOk")'
  BY <1>2, <1>3 DEF ReadStart, WaitsFor, RequestsAt, handlerVars, queueVars, ChannelRequests
<1> QED
  BY <1>4, <1>5 DEF Conversation, Requests

LEMMA ReadTuneConverses ==
    ASSUME IInv, ReadTune
    PROVE  Conversation'
<1>1. Read("Tune")
  BY DEF ReadTune
<1>2. PICK q \in Requests : WaitsFor(q) /\ "Tune" \in AnswersTo(q) /\ Answered(q, "Tune")
  BY <1>1, WhatIsRead
<1>3. q = "StartOk"
  BY <1>2, AnswersDiffer
<1>4. Asked("Open")'
  BY <1>1, <1>2, NextAsked DEF ReadTune, Requests
<1>5. WaitsFor("Open")'
  BY <1>2, <1>3
  DEF ReadTune, WaitsFor, RequestsAt, handlerVars, amqpVars, queueVars, ChannelRequests
<1> QED
  BY <1>4, <1>5 DEF Conversation, Requests

LEMMA ReadOpenOkConverses ==
    ASSUME IInv, ReadOpenOk
    PROVE  Conversation'
<1>1. Read("OpenOk")
  BY DEF ReadOpenOk
<1>2. /\ WaitsFor("Open") /\ Answered("Open", "OpenOk")
      /\ requests = OpenChannel /\ Head(requests) = "ChannelOpen"
  BY <1>1, OpenOkRead
<1>3. Asked("ChannelOpen")'
  BY <1>1, <1>2, NextAsked DEF ReadOpenOk, Requests, ChannelRequests
<1>4. ~isReady /\ ~senderReady /\ ~listenerReady
  BY <1>2 DEF WaitsFor, ChannelRequests
<1>5. requests' = RequestsAt("ChannelOpen")
  BY <1>2, <1>4, RequestsHeld DEF ReadOpenOk
<1>6. isReady' = TRUE /\ amqp' = "connected" /\ ~senderReady' /\ ~listenerReady'
  BY <1>4 DEF ReadOpenOk, queueVars
<1>7. WaitsFor("ChannelOpen")'
  BY <1>5, <1>6 DEF WaitsFor, RequestsAt, ChannelRequests
<1> QED
  BY <1>3, <1>7 DEF Conversation, Requests, ChannelRequests

\* The answers before the last one: the next request of the channel is sent.
LEMMA ReadAnswerGoesOn ==
    ASSUME IInv, NEW answer \in Answers, ReadAnswer(answer),
           NEW q \in {"ChannelOpen", "Qos", "Declare"},
           WaitsFor(q), answer \in AnswersTo(q), Answered(q, answer)
    PROVE  Conversation'
<1> DEFINE p == IF q = "ChannelOpen" THEN "Qos" ELSE IF q = "Qos" THEN "Declare" ELSE "Consume"
<1>1. /\ p \in Requests /\ p # "Header" /\ p \in ChannelRequests
      /\ q \in Requests /\ q \in ChannelRequests
  BY DEF Requests, ChannelRequests
<1>2. requests = RequestsAt(q)
  BY DEF WaitsFor
<1>3. Tail(requests) = RequestsAt(p) /\ RequestsAt(p) # <<>> /\ Head(RequestsAt(p)) = p
  BY <1>1, <1>2, RequestsHeld
<1>4. answer # "ConsumeOk" /\ (answer = "DeclareOk" <=> q = "Declare")
  BY <1>1, AnswersDiffer DEF AnswersTo, Reply
<1>5. Read(answer) /\ UNCHANGED brokerVars /\ OnData(<<p>>) /\ requests' = RequestsAt(p)
  BY <1>3 DEF ReadAnswer
<1>6. p \in {"Declare", "Consume"} => prefetch
  BY DEF Answered
<1>7. Asked(p)'
  BY <1>1, <1>4, <1>5, <1>6, NextAsked
<1>8. WaitsFor(p)'
  <2>1. amqp = "connected" /\ isReady /\ ~senderReady /\ ~listenerReady
    BY <1>1 DEF WaitsFor
  <2>2. amqp' = "connected" /\ isReady'
    BY <2>1 DEF ReadAnswer, handlerVars
  <2>3. (senderReady' <=> p = "Consume") /\ ~listenerReady'
    BY <1>4, <2>1 DEF ReadAnswer
  <2>4. requests' = RequestsAt(p)
    BY <1>5
  <2> QED
    BY <1>1, <2>2, <2>3, <2>4 DEF WaitsFor, RequestsAt, ChannelRequests
<1> QED
  BY <1>1, <1>7, <1>8 DEF Conversation

\* The last answer: the consumer exists, and its first delivery may have come.
LEMMA ReadConsumeOkConverses ==
    ASSUME IInv, ReadAnswer("ConsumeOk"), WaitsFor("Consume"), Answered("Consume", "ConsumeOk")
    PROVE  Conversation'
<1>1. Read("ConsumeOk") /\ UNCHANGED brokerVars
  BY DEF ReadAnswer
<1>2. UNCHANGED <<peer, prefetch, consumers, delivered>>
  BY <1>1 DEF brokerVars
<1>3. requests = RequestsAt("Consume") /\ requests' = Tail(requests)
  BY DEF WaitsFor, ReadAnswer
<1>4. Tail(requests) = <<>>
  BY <1>3, RequestsHeld
<1>5. requests' = <<>> /\ toBroker' = <<>>
  BY <1>3, <1>4, ShortConcatenations DEF ReadAnswer, OnData, Answered
<1>6. amqp' = "connected" /\ isReady' /\ senderReady' /\ listenerReady'
  BY DEF WaitsFor, ReadAnswer, handlerVars, ChannelRequests
<1>7. peer' \in {"open", "closed"} /\ prefetch' /\ consumers' = 1
  BY <1>2 DEF Answered
<1>8. \/ Arriving(<<>>)' /\ delivered' <= 1
      \/ Arriving(<<"Deliver">>)' /\ delivered' = 1
  <2>1. delivered = 0 \/ delivered = 1
    BY DEF Answered
  <2> QED
    BY <1>1, <1>2, <2>1, WhatIsLeft
<1>9. Settled'
  BY <1>5, <1>6, <1>7, <1>8 DEF Settled
<1> QED
  BY <1>9 DEF Conversation

LEMMA ReadAnswerConverses ==
    ASSUME IInv, NEW answer \in Answers, ReadAnswer(answer)
    PROVE  Conversation'
<1>1. PICK q \in ChannelRequests :
         WaitsFor(q) /\ answer \in AnswersTo(q) /\ Answered(q, answer)
  BY AnswerRead DEF ReadAnswer
<1>2. CASE q = "Consume"
  <2>1. answer = "ConsumeOk"
    BY <1>1, <1>2 DEF AnswersTo, Answers
  <2> QED
    BY <1>1, <1>2, <2>1, ReadConsumeOkConverses
<1>3. CASE q # "Consume"
  <2>1. q \in {"ChannelOpen", "Qos", "Declare"}
    BY <1>3 DEF ChannelRequests
  <2> QED
    BY <1>1, <2>1, ReadAnswerGoesOn
<1> QED
  BY <1>2, <1>3

\* The broker refuses the consumer, or has closed the connection.
LEMMA ReadErrorConverses ==
    ASSUME IInv, ReadError
    PROVE  Conversation'
<1>1. UNCHANGED <<amqp, isReady, senderReady, listenerReady, toBroker,
                  peer, prefetch, consumers, delivered>> /\ requests' = <<>>
  BY DEF ReadError, handlerVars, queueVars, brokerVars
<1>2. CASE Read("Close")
  <2>1. toClient' = <<>> /\ peer = "closed"
    BY <1>2, WhatIsRead, AnswersDiffer
  <2> QED
    BY <1>1, <2>1 DEF Conversation, Failed
<1>3. CASE Read("ChannelClose")
  <2>1. PICK q \in Requests :
           WaitsFor(q) /\ "ChannelClose" \in AnswersTo(q) /\ Answered(q, "ChannelClose")
    BY <1>3, WhatIsRead
  <2>2. q = "Consume"
    BY <2>1, AnswersDiffer
  <2>3. Arriving(<<>>)'
    BY <1>1, <1>3, <2>1, WhatIsLeft
  <2>4. amqp = "connected" /\ isReady /\ senderReady /\ ~listenerReady
    BY <2>1, <2>2 DEF WaitsFor, ChannelRequests
  <2>5. toBroker = <<>> /\ peer \in {"open", "closed"} /\ prefetch /\ consumers = 0
        /\ delivered = 0
    BY <2>1, <2>2 DEF Answered
  <2>6. Settled'
    BY <1>1, <2>3, <2>4, <2>5 DEF Settled
  <2> QED
    BY <2>6 DEF Conversation
<1> QED
  BY <1>2, <1>3 DEF ReadError

LEMMA ReadDeliverConverses ==
    ASSUME IInv, ReadDeliver
    PROVE  Conversation'
<1>1. UNCHANGED <<amqp, isReady, senderReady, listenerReady, requests, toBroker,
                  peer, prefetch, consumers, delivered>>
  BY DEF ReadDeliver, handlerVars, amqpVars, queueVars, brokerVars
<1>2. /\ Settled /\ delivered = 1 /\ listenerReady
      /\ toClient' = <<>> \/ (toClient' = <<"Close">> /\ peer = "closed")
  BY WhatIsRead, AnswersDiffer DEF ReadDeliver
<1>3. Arriving(<<>>)'
  BY <1>1, <1>2, ShortAppends DEF Arriving
<1>4. Settled'
  BY <1>1, <1>2, <1>3 DEF Settled
<1> QED
  BY <1>4 DEF Conversation

LEMMA ReadFrameKeeps ==
    ASSUME IInv, ReadFrame
    PROVE  IInv'
<1>1. TypeOK'
  BY ReadFrameTyped
<1>2. UNCHANGED <<alive, socket, isConnected, brokerVars>> /\ alive /\ isConnected
  BY DEF ReadFrame, ReadStart, ReadTune, ReadOpenOk, ReadAnswer, ReadError, ReadDeliver, Read,
         handlerVars
<1>3. UNCHANGED <<peer, prefetch, consumers, delivered>>
  BY <1>2 DEF brokerVars
<1>4. OneConsumerWithPrefetch'
  BY <1>3 DEF IInv, OneConsumerWithPrefetch
<1>5. QueuesReady'
  <2>1. CASE ReadStart
    <3>1. ~senderReady /\ ~listenerReady
      BY <2>1, WhatIsRead, AnswersDiffer DEF ReadStart, WaitsFor
    <3> QED
      BY <2>1, <3>1 DEF IInv, QueuesReady, ReadStart, handlerVars, queueVars
  <2>2. CASE ReadOpenOk
    BY <1>2, <2>2 DEF IInv, QueuesReady, ReadOpenOk, queueVars
  <2>3. CASE \E answer \in Answers : ReadAnswer(answer)
    <3> PICK answer \in Answers : ReadAnswer(answer)
      BY <2>3
    <3>1. PICK q \in ChannelRequests :
             WaitsFor(q) /\ answer \in AnswersTo(q)
      BY AnswerRead DEF ReadAnswer
    <3>2. amqp = "connected" /\ isReady
      BY <3>1 DEF WaitsFor, ChannelRequests
    <3>3. answer = "ConsumeOk" => senderReady
      BY <3>1, AnswersDiffer DEF WaitsFor, Requests
    <3>4. isReady' /\ isConnected' /\ amqp' = "connected"
      BY <1>2, <3>2 DEF ReadAnswer, handlerVars
    <3>5. listenerReady' => senderReady'
      <4>1. listenerReady => senderReady
        BY DEF IInv, QueuesReady
      <4> QED
        BY <3>3, <4>1 DEF ReadAnswer
    <3> QED
      BY <3>4, <3>5 DEF QueuesReady
  <2>4. CASE ReadTune \/ ReadError \/ ReadDeliver
    <3>1. UNCHANGED <<isReady, isConnected, senderReady, listenerReady, amqp>>
      BY <2>4 DEF ReadTune, ReadError, ReadDeliver, handlerVars, amqpVars, queueVars
    <3> QED
      BY <3>1 DEF IInv, QueuesReady
  <2> QED
    BY <2>1, <2>2, <2>3, <2>4 DEF ReadFrame
<1>6. Conversation'
  BY ReadStartConverses, ReadTuneConverses, ReadOpenOkConverses, ReadAnswerConverses,
     ReadErrorConverses, ReadDeliverConverses DEF ReadFrame
<1>7. socket = "Connected" /\ peer # "none"
  BY <1>2 DEF IInv
<1> QED
  BY <1>1, <1>2, <1>3, <1>4, <1>5, <1>6, <1>7 DEF IInv, GaveUp

-----------------------------------------------------------------------------
(***************************************************************************)
(* The other steps of the program.                                         *)
(***************************************************************************)

\* Losing the readiness leaves no queue ready.
LEMMA Unready ==
    ASSUME QueuesReady, Disconnect
    PROVE  ~isConnected' /\ ~isReady' /\ ~senderReady' /\ ~listenerReady'
BY DEF QueuesReady, Disconnect, LoseReadiness

LEMMA TryConnectKeeps ==
    ASSUME IInv, TryConnect
    PROVE  IInv'
<1>1. UNCHANGED <<alive, isConnected, isReady, amqp, requests, senderReady, listenerReady,
                  toBroker, toClient, peer, prefetch, consumers, delivered>> /\ alive
  BY DEF TryConnect, amqpVars, queueVars, brokerVars
<1>2. TypeOK'
  BY ProgramTyped DEF ProgramNext
<1>3. socket' = "Connected" <=> socket = "Connected"
  BY DEF TryConnect
<1>4. Conversation' <=> Conversation
  BY <1>1 DEF Conversation, WaitsFor, Asked, Answered, Settled, Failed, Arriving, PeerAt,
              AnswersTo, Reply, TryConnect, brokerVars
<1> QED
  BY <1>1, <1>2, <1>3, <1>4
  DEF IInv, OneConsumerWithPrefetch, QueuesReady, Unlinked, GaveUp, OneFrameLeft

\* The client says its header, perhaps behind the close of the old connection.
LEMMA HandleConnectedKeeps ==
    ASSUME IInv, HandleConnected
    PROVE  IInv'
<1>1. TypeOK'
  BY ProgramTyped DEF ProgramNext
<1>2. alive /\ socket # "Connected" /\ Unlinked
  BY DEF HandleConnected, IInv
<1>3. /\ alive' /\ socket' = "Connected" /\ isConnected' = TRUE /\ amqp' = "protocol"
      /\ requests' = OpenChannel /\ senderReady' = FALSE /\ listenerReady' = FALSE
      /\ peer' = "accepted" /\ prefetch' = FALSE /\ consumers' = 0 /\ delivered' = 0
      /\ isReady' = isReady /\ toClient' = <<>>
  BY <1>2 DEF HandleConnected, Unlinked
<1>4. ~isReady
  BY <1>2 DEF IInv, QueuesReady, Unlinked
<1>5. toBroker' = <<"Header">> \/ toBroker' = <<"Close", "Header">>
  BY ShortConcatenations DEF HandleConnected, CloseFrames
<1>6. WaitsFor("Header")'
  BY <1>3, <1>4 DEF WaitsFor, RequestsAt, ChannelRequests
<1>7. Asked("Header")'
  BY <1>3, <1>5 DEF Asked, Arriving, PeerAt
<1>8. Conversation'
  BY <1>6, <1>7 DEF Conversation, Requests
<1>9. OneConsumerWithPrefetch'
  BY <1>3 DEF OneConsumerWithPrefetch
<1>10. QueuesReady'
  BY <1>3, <1>4 DEF QueuesReady
<1> QED
  BY <1>1, <1>3, <1>8, <1>9, <1>10 DEF IInv, GaveUp

LEMMA HandleConnectErrorKeeps ==
    ASSUME IInv, HandleConnectError
    PROVE  IInv'
<1>1. TypeOK'
  BY ProgramTyped DEF ProgramNext
<1>2. alive /\ socket # "Connected" /\ Unlinked
  BY DEF HandleConnectError, IInv
<1>3. alive' /\ socket' = "Unconnected"
      /\ UNCHANGED <<toBroker, toClient, peer, prefetch, consumers, delivered>>
  BY DEF HandleConnectError, brokerVars
<1>4. ~isConnected' /\ ~isReady' /\ ~senderReady' /\ ~listenerReady'
  BY Unready DEF HandleConnectError, IInv
<1>5. Unlinked'
  BY <1>2, <1>3, <1>4 DEF Unlinked
<1>6. OneConsumerWithPrefetch'
  BY <1>3 DEF IInv, OneConsumerWithPrefetch
<1> QED
  BY <1>1, <1>3, <1>4, <1>5, <1>6 DEF IInv, QueuesReady, GaveUp

LEMMA HandleDisconnectedKeeps ==
    ASSUME IInv, HandleDisconnected
    PROVE  IInv'
<1>1. TypeOK'
  BY ProgramTyped DEF ProgramNext
<1>2. /\ alive' /\ socket' = "Unconnected" /\ toBroker' = <<>> /\ toClient' = <<>>
      /\ peer' = "none" /\ ~prefetch' /\ consumers' = 0 /\ delivered' = 0
  BY DEF HandleDisconnected
<1>3. ~isConnected' /\ ~isReady' /\ ~senderReady' /\ ~listenerReady'
  BY Unready DEF HandleDisconnected, IInv
<1>4. Unlinked' /\ OneConsumerWithPrefetch'
  BY <1>2, <1>3 DEF Unlinked, OneConsumerWithPrefetch
<1> QED
  BY <1>1, <1>2, <1>3, <1>4 DEF IInv, QueuesReady, GaveUp

\* A connection is given up.  If its close is sent at once, all requests were
\* answered, so that nothing is left in front of it.
LEMMA OverflowKeeps ==
    ASSUME IInv, Overflow
    PROVE  IInv'
<1>1. TypeOK'
  BY ProgramTyped DEF ProgramNext
<1>2. UNCHANGED <<alive, socket, toClient, peer, prefetch, consumers, delivered>>
  BY DEF Overflow, brokerVars
<1>3. alive /\ isConnected /\ socket = "Connected" /\ Conversation
  BY DEF Overflow, IInv
<1>4. ~isConnected' /\ ~isReady' /\ ~senderReady' /\ ~listenerReady'
  BY Unready DEF Overflow, IInv
<1>5. toBroker' = IF ClosesNow THEN toBroker \o <<"Close">> ELSE toBroker
  <2>1. toBroker \o <<>> = toBroker
    BY ConcatEmptySeq DEF IInv, TypeOK
  <2> QED
    BY <2>1 DEF Overflow, OnData, CloseFrames
<1>6. OneFrameLeft'
  <2>1. ASSUME NEW q \in Requests, WaitsFor(q), Asked(q) PROVE OneFrameLeft'
    <3>1. ~ClosesNow
      BY <2>1, RequestsHeld DEF WaitsFor, ClosesNow
    <3>2. q \in ClientFrames
      BY <2>1, FramesTyped
    <3> QED
      BY <1>2, <1>5, <2>1, <3>1, <3>2 DEF Asked, PeerAt, OneFrameLeft
  <2>2. ASSUME NEW q \in Requests, WaitsFor(q), NEW r, Answered(q, r) PROVE OneFrameLeft'
    <3>1. ~ClosesNow
      BY <2>2, RequestsHeld DEF WaitsFor, ClosesNow
    <3> QED
      BY <1>5, <2>2, <3>1 DEF Answered, OneFrameLeft
  <2>3. CASE Settled
    <3>1. toBroker' = <<>> \/ toBroker' = <<"Close">>
      BY <1>5, <2>3, ShortConcatenations DEF Settled
    <3> QED
      BY <3>1 DEF OneFrameLeft, ClientFrames
  <2>4. CASE Failed
    BY <1>2, <2>4 DEF Failed, OneFrameLeft
  <2> QED
    BY <1>3, <2>1, <2>2, <2>3, <2>4 DEF Conversation
<1>7. peer' # "none" /\ OneConsumerWithPrefetch'
  BY <1>2, <1>3 DEF IInv, OneConsumerWithPrefetch
<1> QED
  BY <1>1, <1>2, <1>3, <1>4, <1>6, <1>7 DEF IInv, QueuesReady, GaveUp

LEMMA StopKeeps ==
    ASSUME IInv, Stop
    PROVE  IInv'
<1>1. TypeOK'
  BY ProgramTyped DEF ProgramNext
<1>2. ~alive' /\ peer' = "none"
      /\ UNCHANGED <<isConnected, isReady, amqp, senderReady, listenerReady,
                     prefetch, consumers>>
  BY DEF Stop, amqpVars, queueVars
<1> QED
  BY <1>1, <1>2 DEF IInv, OneConsumerWithPrefetch, QueuesReady

-----------------------------------------------------------------------------
(***************************************************************************)
(* The conversation goes on: the broker's side.                            *)
(***************************************************************************)

\* The broker reads the request that waits, and answers it, or ends a
\* connection that begins with something else than the header.
LEMMA BrokerReadsAsked ==
    ASSUME BrokerReads, NEW q \in Requests, WaitsFor(q), Asked(q)
    PROVE  Conversation'
<1>1. UNCHANGED <<requests, amqp, isReady, senderReady, listenerReady, delivered>>
  BY DEF BrokerReads, handlerVars, amqpVars, queueVars
<1>2. WaitsFor(q)'
  BY <1>1 DEF WaitsFor, RequestsAt
<1>3. peer # "closed" /\ toClient = <<>>
  BY DEF BrokerReads, Asked, Arriving
<1>4. CASE toBroker = <<"Close", "Header">>
  <2>1. q = "Header" /\ peer = "accepted"
    BY <1>3, <1>4, ShortSequences DEF Asked, PeerAt
  <2>2. Head(toBroker) = "Close" /\ Tail(toBroker) = <<"Header">>
    BY <1>4, ShortSequences
  <2>3. /\ toBroker' = <<"Header">> /\ peer' = "closed" /\ toClient' = <<>>
        /\ consumers' = consumers
    BY <1>3, <2>1, <2>2 DEF BrokerReads, Asked
  <2>4. Asked(q)'
    BY <1>1, <1>4, <2>1, <2>3 DEF Asked, Arriving, PeerAt
  <2> QED
    BY <1>2, <2>4 DEF Conversation
<1>5. CASE toBroker = <<q>>
  <2>1. Head(toBroker) = q /\ Tail(toBroker) = <<>>
    BY <1>5, ShortSequences
  <2>2. (q = "Header" <=> peer = "accepted") /\ q # "Close"
    BY <1>3 DEF Asked, PeerAt, Requests, ChannelRequests
  <2>3. /\ toBroker' = <<>> /\ peer' = "open" /\ toClient' = <<Reply(q)>>
        /\ prefetch' = (prefetch \/ q = "Qos")
        /\ consumers' = IF q = "Consume" /\ subQueue THEN 1 ELSE 0
    BY <1>3, <2>1, <2>2, ShortAppends DEF BrokerReads, Asked
  <2>4. Reply(q) \in AnswersTo(q)
    BY AnswersDiffer
  <2>5. Reply(q) = "ConsumeOk" <=> q = "Consume" /\ subQueue
    <3>1. CASE q = "Consume"
      BY <3>1 DEF Reply
    <3>2. CASE q # "Consume"
      BY <2>4, <3>2, AnswersDiffer
    <3> QED
      BY <3>1, <3>2
  <2>6. PICK r : r = Reply(q)
    OBVIOUS
  <2>7. consumers' = IF r = "ConsumeOk" THEN 1 ELSE 0
    BY <2>3, <2>5, <2>6
  <2>8. q \in {"Qos", "Declare", "Consume"} => prefetch'
    BY <2>3 DEF Asked
  <2>9. Arriving(<<r>>)' /\ delivered' = 0
    BY <1>1, <2>3, <2>6 DEF Arriving, Asked
  <2>10. Answered(q, r)'
    BY <2>3, <2>7, <2>8, <2>9 DEF Answered
  <2>11. r \in AnswersTo(q)'
    BY <2>4, <2>6 DEF AnswersTo, Reply, BrokerReads
  <2> QED
    BY <1>2, <2>10, <2>11 DEF Conversation
<1> QED
  BY <1>4, <1>5 DEF Asked

\* One frame of a connection that was given up.
LEMMA BrokerReadsLeft ==
    ASSUME OneFrameLeft, OneConsumerWithPrefetch, TypeOK, BrokerReads
    PROVE  OneFrameLeft' /\ OneConsumerWithPrefetch'
<1>1. peer # "closed" /\ toBroker # <<>> /\ toBroker' = Tail(toBroker)
  BY DEF BrokerReads
<1>2. CASE toBroker = <<"Close", "Header">> /\ peer = "accepted"
  <2>1. Head(toBroker) = "Close"
    BY <1>2, ShortSequences
  <2>2. peer' = "closed" /\ consumers' = consumers /\ prefetch' = prefetch
    BY <2>1 DEF BrokerReads, TypeOK
  <2> QED
    BY <2>2 DEF OneFrameLeft, OneConsumerWithPrefetch
<1>3. ASSUME NEW q \in ClientFrames, toBroker = <<q>>, q = "Consume" => prefetch /\ consumers = 0
      PROVE  OneFrameLeft' /\ OneConsumerWithPrefetch'
  <2>1. Head(toBroker) = q /\ toBroker' = <<>>
    BY <1>1, <1>3, ShortSequences
  <2>2. prefetch' = (prefetch \/ q = "Qos")
        /\ consumers' = IF q = "Consume" /\ subQueue THEN consumers + 1 ELSE consumers
    BY <2>1 DEF BrokerReads
  <2>3. OneConsumerWithPrefetch'
    <3>1. CASE q = "Consume"
      <4>1. consumers' = 0 \/ consumers' = 1
        BY <1>3, <2>2, <3>1
      <4>2. prefetch'
        BY <1>3, <2>2, <3>1
      <4> QED
        BY <4>1, <4>2 DEF OneConsumerWithPrefetch
    <3>2. CASE q # "Consume"
      <4>1. consumers' = consumers /\ (prefetch => prefetch')
        BY <2>2, <3>2
      <4> QED
        BY <4>1 DEF OneConsumerWithPrefetch
    <3> QED
      BY <3>1, <3>2
  <2> QED
    BY <2>1, <2>3 DEF OneFrameLeft
<1> QED
  BY <1>1, <1>2, <1>3 DEF OneFrameLeft

LEMMA BrokerReadsKeeps ==
    ASSUME IInv, BrokerReads
    PROVE  IInv'
<1>1. TypeOK'
  BY BrokerTyped DEF BrokerNext, IInv
<1>2. UNCHANGED <<alive, socket, isConnected, isReady, amqp, senderReady, listenerReady>>
  BY DEF BrokerReads, handlerVars, amqpVars, queueVars
<1>3. alive /\ socket = "Connected" /\ peer # "closed" /\ toBroker # <<>>
  BY DEF BrokerReads, IInv, Unlinked
<1>4. QueuesReady' /\ peer' # "none"
  BY <1>2 DEF IInv, QueuesReady, BrokerReads
<1>5. CASE isConnected
  <2>1. PICK q \in Requests : WaitsFor(q) /\ Asked(q)
    BY <1>3, <1>5 DEF IInv, Conversation, Answered, Settled, Failed
  <2>2. Conversation'
    BY <2>1, BrokerReadsAsked
  <2>3. OneFrameLeft
    <3>1. toBroker = <<q>> \/ toBroker = <<"Close", "Header">>
      BY <2>1 DEF Asked
    <3>2. CASE toBroker = <<q>>
      BY <2>1, <3>2, FramesTyped DEF Asked, OneFrameLeft
    <3>3. CASE toBroker = <<"Close", "Header">>
      <4>1. q = "Header"
        BY <2>1, <3>3, ShortSequences DEF Asked
      <4> QED
        BY <1>3, <2>1, <3>3, <4>1 DEF Asked, PeerAt, OneFrameLeft
    <3> QED
      BY <3>1, <3>2, <3>3
  <2>4. OneConsumerWithPrefetch'
    BY <2>3, BrokerReadsLeft DEF IInv
  <2> QED
    BY <1>1, <1>2, <1>3, <1>4, <1>5, <2>2, <2>4 DEF IInv, GaveUp
<1>6. CASE ~isConnected
  <2>1. OneFrameLeft
    BY <1>3, <1>6 DEF IInv, GaveUp
  <2>2. OneFrameLeft' /\ OneConsumerWithPrefetch'
    BY <2>1, BrokerReadsLeft DEF IInv
  <2> QED
    BY <1>1, <1>2, <1>3, <1>4, <1>6, <2>2 DEF IInv, GaveUp
<1> QED
  BY <1>5, <1>6

\* The broker's close is the last frame that arrives.
LEMMA ClosesBehind ==
    ASSUME NEW frames, Arriving(frames), peer = "open", peer' = "closed",
           toClient' = Append(toClient, "Close")
    PROVE  Arriving(frames)'
BY DEF Arriving

\* A delivery comes behind the answer to the registration.
LEMMA BrokerDeliversConverses ==
    ASSUME TypeOK, Conversation, BrokerDelivers, consumers <= 1
    PROVE  Conversation'
<1>1. /\ peer = "open" /\ delivered = 0 /\ consumers = 1 /\ delivered' = 1
      /\ toClient' = Append(toClient, "Deliver")
  BY DEF BrokerDelivers, TypeOK
<1>2. UNCHANGED <<requests, amqp, isReady, senderReady, listenerReady, toBroker, peer, prefetch,
                  consumers, subQueue>>
  BY DEF BrokerDelivers, handlerVars, amqpVars, queueVars
<1>3. \A q \in Requests : Asked(q) => FALSE
  BY <1>1 DEF Asked
<1>4. ASSUME NEW q \in Requests, NEW r \in AnswersTo(q), WaitsFor(q), Answered(q, r)
      PROVE  Conversation'
  <2>1. r = "ConsumeOk" /\ Arriving(<<r>>)
    BY <1>1, <1>4 DEF Answered
  <2>2. toClient = <<r>>
    BY <1>1, <2>1 DEF Arriving
  <2>3. Arriving(<<r, "Deliver">>)'
    BY <1>1, <2>2, ShortAppends DEF Arriving
  <2>4. Answered(q, r)'
    BY <1>1, <1>2, <1>4, <2>1, <2>3 DEF Answered
  <2>5. WaitsFor(q)' /\ r \in AnswersTo(q)'
    BY <1>2, <1>4 DEF WaitsFor, RequestsAt, AnswersTo, Reply
  <2> QED
    BY <2>4, <2>5 DEF Conversation
<1>5. CASE Settled
  <2>1. listenerReady /\ Arriving(<<>>)
    BY <1>1, <1>5 DEF Settled
  <2>2. toClient = <<>>
    BY <1>1, <2>1 DEF Arriving
  <2>3. Arriving(<<"Deliver">>)'
    BY <1>1, <2>2, ShortAppends DEF Arriving
  <2>4. Settled'
    BY <1>1, <1>2, <1>5, <2>1, <2>3 DEF Settled
  <2> QED
    BY <2>4 DEF Conversation
<1>6. CASE Failed
  BY <1>1, <1>6 DEF Failed
<1> QED
  BY <1>3, <1>4, <1>5, <1>6 DEF Conversation

\* The end of a connection, told or not, leaves what arrives as it is, but for
\* the broker's close.
LEMMA EndConverses ==
    ASSUME Conversation, BrokerCloses \/ LinkFails
    PROVE  Conversation'
<1>1. UNCHANGED <<requests, amqp, isReady, senderReady, listenerReady, toBroker, prefetch,
                  consumers, delivered, subQueue>> /\ peer' = "closed"
  BY DEF BrokerCloses, LinkFails, handlerVars, amqpVars, queueVars
<1>2. \/ toClient' = toClient
      \/ toClient' = Append(toClient, "Close") /\ peer = "open"
  BY DEF BrokerCloses, LinkFails
<1>3. ASSUME NEW frames, Arriving(frames) PROVE Arriving(frames)'
  BY <1>1, <1>2, <1>3 DEF Arriving
<1>4. ASSUME NEW q \in Requests, WaitsFor(q), Asked(q) PROVE Conversation'
  <2>1. WaitsFor(q)' /\ Asked(q)'
    BY <1>1, <1>3, <1>4 DEF WaitsFor, RequestsAt, Asked, PeerAt
  <2> QED
    BY <2>1 DEF Conversation
<1>5. ASSUME NEW q \in Requests, NEW r \in AnswersTo(q), WaitsFor(q), Answered(q, r)
      PROVE  Conversation'
  <2>1. Answered(q, r)'
    BY <1>1, <1>3, <1>5 DEF Answered
  <2>2. WaitsFor(q)' /\ r \in AnswersTo(q)'
    BY <1>1, <1>5 DEF WaitsFor, RequestsAt, AnswersTo, Reply
  <2> QED
    BY <2>1, <2>2 DEF Conversation
<1>6. CASE Settled
  <2>1. Settled'
    BY <1>1, <1>3, <1>6 DEF Settled
  <2> QED
    BY <2>1 DEF Conversation
<1>7. ~Failed
  BY DEF Failed, BrokerCloses, LinkFails
<1> QED
  BY <1>4, <1>5, <1>6, <1>7 DEF Conversation

LEMMA BrokerKeeps ==
    ASSUME IInv, BrokerNext
    PROVE  IInv'
<1>1. TypeOK'
  BY BrokerTyped DEF IInv
<1>2. CASE BrokerReads
  BY <1>2, BrokerReadsKeeps
<1>3. CASE BrokerDelivers \/ BrokerCloses \/ LinkFails
  <2>1. UNCHANGED <<alive, socket, isConnected, isReady, amqp, senderReady, listenerReady,
                    toBroker, prefetch, consumers>>
    BY <1>3 DEF BrokerDelivers, BrokerCloses, LinkFails, handlerVars, amqpVars, queueVars
  <2>2. peer # "none" /\ peer' # "none" /\ (peer' = peer \/ peer' = "closed")
    BY <1>3 DEF BrokerDelivers, BrokerCloses, LinkFails
  <2>3. alive /\ socket = "Connected"
    BY <2>2 DEF IInv, Unlinked
  <2>4. OneConsumerWithPrefetch' /\ QueuesReady'
    BY <2>1 DEF IInv, OneConsumerWithPrefetch, QueuesReady
  <2>5. isConnected => Conversation'
    BY <1>3, <2>3, BrokerDeliversConverses, EndConverses DEF IInv, OneConsumerWithPrefetch
  <2>6. GaveUp' => OneFrameLeft'
    <3>1. GaveUp' => OneFrameLeft
      BY <2>1, <2>3 DEF IInv, GaveUp
    <3> QED
      BY <2>1, <2>2, <3>1 DEF OneFrameLeft
  <2> QED
    BY <1>1, <2>1, <2>2, <2>3, <2>4, <2>5, <2>6 DEF IInv
<1>4. CASE SubQueueDeclared
  <2>1. UNCHANGED <<alive, socket, isConnected, isReady, amqp, requests, senderReady,
                    listenerReady, toBroker, toClient, peer, prefetch, consumers, delivered>>
    BY <1>4 DEF SubQueueDeclared, handlerVars, amqpVars, queueVars
  <2>2. \A q \in Requests : AnswersTo(q)' = AnswersTo(q)
    BY DEF AnswersTo, Reply, Requests, ChannelRequests
  <2>3. \A q \in Requests : (WaitsFor(q)' <=> WaitsFor(q)) /\ (Asked(q)' <=> Asked(q))
    BY <2>1 DEF WaitsFor, RequestsAt, Asked, Arriving, PeerAt
  <2>4. \A q \in Requests : \A r : Answered(q, r)' <=> Answered(q, r)
    BY <2>1 DEF Answered, Arriving
  <2>5. (Settled' <=> Settled) /\ (Failed' <=> Failed)
    BY <2>1 DEF Settled, Failed, Arriving
  <2>6. Conversation' <=> Conversation
    BY <2>2, <2>3, <2>4, <2>5 DEF Conversation
  <2> QED
    BY <1>1, <2>1, <2>6
    DEF IInv, OneConsumerWithPrefetch, QueuesReady, Unlinked, GaveUp, OneFrameLeft
<1> QED
  BY <1>2, <1>3, <1>4 DEF BrokerNext

-----------------------------------------------------------------------------
(***************************************************************************)
(* Theorems.                                                               *)
(***************************************************************************)

LEMMA InitInvariant == Init => IInv
<1> SUFFICES ASSUME Init PROVE IInv
  OBVIOUS
<1>1. TypeOK
  <2>1. 0 \in 0 .. MaxFailures
    BY LinkAssumption
  <2>2. /\ alive \in BOOLEAN /\ timer \in BOOLEAN /\ badWrite \in BOOLEAN
        /\ isConnected \in BOOLEAN /\ isReady \in BOOLEAN /\ closeCalled \in BOOLEAN
        /\ senderReady \in BOOLEAN /\ listenerReady \in BOOLEAN
        /\ prefetch \in BOOLEAN /\ subQueue \in BOOLEAN
    BY DEF Init, InitHandler, InitClient, InitQueues
  <2>3. requests = <<>> /\ toBroker = <<>> /\ toClient = <<>>
    BY DEF Init, InitClient
  <2>4. socket = "Connecting" /\ amqp = "none" /\ peer = "none"
        /\ consumers = 0 /\ delivered = 0 /\ failures = 0
    BY DEF Init, InitHandler, InitClient
  <2> QED
    BY <2>1, <2>2, <2>3, <2>4 DEF TypeOK
<1>2. Unlinked
  BY DEF Init, InitHandler, Unlinked
<1> QED
  BY <1>1, <1>2 DEF Init, InitHandler, InitClient, InitQueues, IInv, OneConsumerWithPrefetch,
                    QueuesReady, GaveUp

LEMMA NextInvariant == IInv /\ [Next]_vars => IInv'
<1> SUFFICES ASSUME IInv, [Next]_vars PROVE IInv'
  OBVIOUS
<1>1. CASE UNCHANGED vars
  <2>1. UNCHANGED <<alive, socket, timer, isConnected, isReady, badWrite, amqp, closeCalled,
                    requests, senderReady, listenerReady, toBroker, toClient, peer, prefetch,
                    consumers, delivered, subQueue, failures>>
    BY <1>1 DEF vars, handlerVars, amqpVars, queueVars, brokerVars
  <2>2. Conversation' <=> Conversation
    BY <2>1 DEF Conversation, WaitsFor, RequestsAt, Asked, Answered, Settled, Failed, Arriving,
                PeerAt, AnswersTo, Reply
  <2>3. TypeOK'
    BY <2>1 DEF IInv, TypeOK
  <2> QED
    BY <2>1, <2>2, <2>3
    DEF IInv, OneConsumerWithPrefetch, QueuesReady, Unlinked, GaveUp, OneFrameLeft
<1>2. CASE Next
  BY <1>2, TryConnectKeeps, HandleConnectedKeeps, HandleConnectErrorKeeps,
     HandleDisconnectedKeeps, ReadFrameKeeps, OverflowKeeps, StopKeeps, BrokerKeeps
  DEF Next, ProgramNext
<1> QED
  BY <1>1, <1>2

LEMMA Invariance == Spec => []IInv
BY InitInvariant, NextInvariant, PTL DEF Spec

\* A listener that is ready has all that a job needs.
LEMMA ReadinessFollows == IInv => ListenerReadiness
<1> SUFFICES ASSUME IInv PROVE ListenerReadiness
  OBVIOUS
<1>1. listenerReady /\ peer = "open" /\ alive => consumers = 1
  <2> SUFFICES ASSUME listenerReady, peer = "open", alive PROVE consumers = 1
    OBVIOUS
  <2>1. isConnected /\ Conversation
    BY DEF IInv, QueuesReady
  <2>2. Settled
    BY <2>1 DEF Conversation, WaitsFor, Failed
  <2> QED
    BY <2>2 DEF Settled
<1> QED
  BY <1>1 DEF IInv, QueuesReady, ListenerReadiness

\* A delivery is read behind the answer that made the listener ready.
LEMMA DeliveryFollows == IInv => DeliveredWhenReady
<1> SUFFICES ASSUME IInv, alive, isConnected, toClient # <<>>, Head(toClient) = "Deliver"
             PROVE  listenerReady /\ senderReady
  BY DEF DeliveredWhenReady
<1>1. Conversation
  BY DEF IInv
<1>2. ~Arriving(<<>>)
  BY ArrivingHead
<1>3. \A q \in Requests : \A r \in AnswersTo(q) : ~Answered(q, r)
  <2> SUFFICES ASSUME NEW q \in Requests, NEW r \in AnswersTo(q), Answered(q, r) PROVE FALSE
    OBVIOUS
  <2>1. r = "Deliver"
    BY ArrivingHead DEF Answered
  <2> QED
    BY <2>1, AnswersDiffer
<1>4. Settled
  BY <1>1, <1>2, <1>3 DEF Conversation, Asked, Failed
<1> QED
  BY <1>2, <1>4 DEF Settled

\* The types, for any number of failures.
THEOREM LinkTyped == Spec => []TypeOK
<1>1. IInv => TypeOK
  BY DEF IInv
<1> QED
  BY <1>1, Invariance, PTL

\* However often the link is lost and made again, the listener is ready only
\* together with the sender, the connection and its one consumer at the broker
\* (rabbitmqclient.cpp:66-83).
THEOREM ReadyTogether == Spec => []ListenerReadiness
BY ReadinessFollows, Invariance, PTL

\* No connection ever has a second consumer, or one without the prefetch limit:
\* a listener that becomes ready again is registered on a new connection only.
THEOREM HeldBack == Spec => []OneConsumerWithPrefetch
<1>1. IInv => OneConsumerWithPrefetch
  BY DEF IInv
<1> QED
  BY <1>1, Invariance, PTL

\* A message that is read can be confirmed: no delivery is read before the
\* listener and the sender are ready.
THEOREM NeverDeliveredEarly == Spec => []DeliveredWhenReady
BY DeliveryFollows, Invariance, PTL
=============================================================================
