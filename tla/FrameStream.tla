---------------------------- MODULE FrameStream ----------------------------
(***************************************************************************)
(* AMQP frames on their way through one connection: written by the library *)
(* as one end (Fill, PassThrough), cut by the network at any byte, put     *)
(* together in the input buffer of ConnectionHandler (module InputBuffer)  *)
(* and taken from it by ConnectionImpl::parse().                           *)
(*                                                                         *)
(* Both ends are the library, so every class of frame is written and read  *)
(* by its own code, those included that a client only sends: reading them  *)
(* must work although processing them is refused.                          *)
(***************************************************************************)
EXTENDS InputBuffer, AmqpFrames

CONSTANTS
    MaxFrame,       \* _maxFrame: what the server's tune frame has set
    PassCapacity,   \* the size of PassthroughBuffer's buffer
    MaxFrames,      \* bound: frames on one connection
    FirstSamples,   \* bound: samples of values for the first frame
    Followers       \* bound: <<class, sample>> of the frames behind it

ASSUME FrameAssumption == MaxFrame \in 8 .. InBufferSize

VARIABLES
    sent,       \* the frames written on this connection: class, channel, values
    received,   \* those that were read and processed
    refused,    \* <<frame>> if the one in front of the buffer throws, else <<>>
    stream,     \* the bytes parse() has not taken: buffer, socket, network
    stopped,    \* _state == state_closed: parse() returns 0
    inherited   \* did this connection start with a buffer that had grown?

streamVars == <<sent, received, refused, stream, stopped, inherited>>
allVars == <<vars, streamVars>>

-----------------------------------------------------------------------------
(***************************************************************************)
(* Values.  A member that the constructors leave at its default has only   *)
(* that one; all others have three samples, whose first is empty.          *)
(***************************************************************************)
Constant == {"deprecated", "unused", "deprecatedCapabilities", "deprecatedKnownHosts", "weight"}

\* Four tables with every type of field between them.
SmallTable ==
    <<[name |-> <<>>, field |-> [type |-> "V", value |-> <<>>]],
      [name |-> <<65>>, field |-> [type |-> "t", value |-> {0}]],
      [name |-> <<66>>, field |-> [type |-> "S", value |-> <<206>>]]>>

ArrayTable ==
    <<[name |-> <<65, 66>>, field |-> [type |-> "A", value |->
           <<[type |-> "b", value |-> 1], [type |-> "B", value |-> 255],
             [type |-> "U", value |-> 256], [type |-> "u", value |-> 257],
             [type |-> "s", value |-> <<0, 206>>], [type |-> "V", value |-> <<>>]>>]]>>

WideTable ==
    <<[name |-> <<65>>, field |-> [type |-> "L", value |-> 1]],
      [name |-> <<66>>, field |-> [type |-> "T", value |-> 16777216]],
      [name |-> <<67>>, field |-> [type |-> "d", value |-> 7]],
      [name |-> <<68>>, field |-> [type |-> "f", value |-> 8]],
      [name |-> <<69>>, field |-> [type |-> "i", value |-> 9]]>>

NestedTable ==
    <<[name |-> <<67>>, field |-> [type |-> "D", value |-> [places |-> 2, number |-> 314]]],
      [name |-> <<68>>, field |-> [type |-> "F", value |->
           <<[name |-> <<69>>, field |-> [type |-> "I", value |-> 65536]],
             [name |-> <<70>>, field |-> [type |-> "l", value |-> 3]]>>]]>>

LargeTable(position) ==
    CASE position = 6 -> ArrayTable [] position = 5 -> WideTable [] OTHER -> NestedTable

\* The properties a queue sender sets, and all the others.
SmallMeta == [contentType |-> <<65, 66>>, deliveryMode |-> 2, headers |-> SmallTable]

FullMeta ==
    [p \in DOMAIN MetaType |->
        CASE MetaType[p] = "s" -> <<MetaFlag[p][1], MetaFlag[p][2]>>
          [] MetaType[p] = "F" -> SmallTable
          [] OTHER             -> 10 + MetaFlag[p][2]]

Sample(member, position, number) ==
    LET v == IF member[1] \in Constant THEN 1 ELSE number
    IN  CASE member[2] = "number"   -> <<0, position,
                                         position * 256^(Smaller(member[3], 4) - 1) + 1>>[v]
          [] member[2] = "bools"    -> <<{}, {0}, {member[3] - 1}>>[v]
          [] member[2] = "table"    -> <<<<>>, SmallTable, LargeTable(position)>>[v]
          [] member[2] = "metadata" -> <<[p \in {} |-> 0], SmallMeta, FullMeta>>[v]
          [] OTHER                  -> <<<<>>, <<64 + position>>, <<position, 206, 1>>>>[v]

Samples(F, number) ==
    [name \in {F.written[i][1] : i \in DOMAIN F.written} |->
        LET i == CHOOSE j \in DOMAIN F.written : F.written[j][1] = name
        IN  Sample(F.written[i], i, number)]

Identity(F) == <<F.type, F.class, F.method>>

\* ConnectionFrame and HeartbeatFrame pass channel 0 on.
ChannelOf(F, number) == IF F.class = 10 \/ F.type = 8 THEN 0 ELSE <<0, 258, 2>>[number]

\* What send() makes of the frames: the calls of onData() put together.
Written ==
    {LET F == sample[1]
         values == Samples(F, sample[2])
         channel == ChannelOf(F, sample[2])
     IN  [number |-> sample[2],
          frame |-> [class |-> Identity(F), channel |-> channel,
                     totalSize |-> TotalSize(F, values), values |-> values],
          bytes |-> FlattenSeq(PassThrough(PassCapacity, Fill(F, channel, values)))]
     : sample \in FrameClasses \X (1 .. 3)}

FirstFrames == {w \in Written : w.number \in FirstSamples}

NextFrames == {w \in Written : <<w.frame.class, w.number>> \in Followers}

-----------------------------------------------------------------------------
(***************************************************************************)
(* ConnectionImpl::parse().                                                *)
(***************************************************************************)
\* What process() calls to move the connection to state_closed.  After
\* reportError() the state is what it was, and parse() goes on.
Closing == {"reportClosed"}

\* The frame in front of a buffer, as the ReceivedFrame of one round of the
\* loop finds it: incomplete, broken (an exception is thrown), or read.
Processed(F, channel, payloadSize, bytes) ==
    LET read == TakeMembers(F, payloadSize, bytes)
    IN  IF ~read.ok THEN [is |-> "broken"]
        ELSE [is |-> F.process,
              frame |-> [class |-> Identity(F), channel |-> channel,
                         totalSize |-> payloadSize + 8, values |-> read.value]]

\* Mutant: one more byte is waited for.
FrameOfWaiting(type, channel, payloadSize, bytes) ==
    IF payloadSize > MaxFrame - 8 THEN [is |-> "broken"]
    ELSE IF Len(bytes) < payloadSize + 2 THEN [is |-> "incomplete"]
    ELSE LET known == ProcessFrame(type, bytes)
         IN  IF known.ok THEN Processed(known.value, channel, payloadSize, known.rest)
             ELSE [is |-> "broken"]

FrameOf(type, channel, payloadSize, bytes) ==
    IF payloadSize > MaxFrame - 8 THEN [is |-> "broken"]
    ELSE IF Len(bytes) < payloadSize + 1 THEN [is |-> "incomplete"]
    ELSE IF bytes[payloadSize + 1] # 206 THEN [is |-> "broken"]
    ELSE LET known == ProcessFrame(type, bytes)
         IN  IF known.ok THEN Processed(known.value, channel, payloadSize, known.rest)
             ELSE [is |-> "broken"]

FrameIn(bytes) ==
    IF Len(bytes) < 7 THEN [is |-> "incomplete"]
    ELSE FrameOf(bytes[1], NumberOf(SubSeq(bytes, 2, 3)), NumberOf(SubSeq(bytes, 4, 7)),
                 SubSeq(bytes, 8, Len(bytes)))

\* A frame that cannot be read.
Broken == [class |-> <<0, 0, 0>>]

RECURSIVE ParseFrames(_, _)

\* What one round makes of the frame: one that throws is reported and not
\* counted, and stays in front of the buffer, to throw again in the next call; a
\* close frame is counted, and the loop goes on with the frames behind it.
ParseRound(found, bytes, done) ==
    CASE found.is = "incomplete"    -> done
      [] found.is = "broken"        -> [done EXCEPT !.refused = <<Broken>>]
      [] found.is = "unimplemented" -> [done EXCEPT !.refused = <<found.frame>>]
      [] OTHER ->
           ParseFrames(bytes, [done EXCEPT !.processed = @ + found.frame.totalSize,
                                           !.frames = Append(@, found.frame),
                                           !.stopped = @ \/ found.is \in Closing])

ParseFrames(bytes, done) ==
    ParseRound(FrameIn(SubSeq(bytes, done.processed + 1, Len(bytes))), bytes, done)

Parse(bytes) ==
    LET nothing == [processed |-> 0, frames |-> <<>>, refused |-> <<>>, stopped |-> stopped]
    IN  IF stopped THEN nothing ELSE ParseFrames(bytes, nothing)

-----------------------------------------------------------------------------
StreamInit ==
    /\ Init
    /\ sent = <<>>
    /\ received = <<>>
    /\ refused = <<>>
    /\ stream = <<>>
    /\ stopped = FALSE
    /\ inherited = FALSE

\* The other end: ConnectionImpl::send() refuses a frame that is too large.
Send(written) ==
    /\ ~closed
    /\ Len(sent) < MaxFrames
    /\ written.frame.totalSize <= MaxFrame
    /\ sent' = Append(sent, written.frame)
    /\ stream' = stream \o written.bytes
    /\ UNCHANGED <<vars, received, refused, stopped, inherited>>

ArriveBytes(n) ==
    /\ ~closed
    /\ n <= Len(stream) - use - pending
    /\ Arrive(n)
    /\ UNCHANGED streamVars

\* One round of the loop of handleReadyRead().
ReadFrames ==
    /\ ~closed
    /\ \E kept \in {Smaller(BytesToRead, GrownSize - use)} :
       \E parsed \in {Parse(SubSeq(stream, 1, use + kept))} :
         /\ ReadChunk(parsed.processed)
         /\ stream' = SubSeq(stream, parsed.processed + 1, use + kept)
                      \o SubSeq(stream, use + BytesToRead + 1, Len(stream))
         /\ received' = received \o parsed.frames
         /\ refused' = parsed.refused
         /\ stopped' = parsed.stopped
    /\ UNCHANGED <<sent, inherited>>

\* The buffer is full and the connection ended.
FrameOverflow ==
    /\ ~closed
    /\ Overflow
    /\ UNCHANGED streamVars

\* The next AMQP connection; the buffer keeps the size it has.
Reconnect ==
    /\ NewConnection
    /\ sent' = <<>>
    /\ received' = <<>>
    /\ refused' = <<>>
    /\ stream' = <<>>
    /\ stopped' = FALSE
    /\ inherited' = resized

SendFirst == sent = <<>> /\ \E written \in FirstFrames : Send(written)

SendNext == sent # <<>> /\ \E written \in NextFrames : Send(written)

StreamNext ==
    \/ SendFirst
    \/ SendNext
    \/ \E n \in ArrivalSizes : ArriveBytes(n)
    \/ ReadFrames
    \/ FrameOverflow
    \/ Reconnect

StreamSpec == StreamInit /\ [][StreamNext]_allVars

-----------------------------------------------------------------------------
(***************************************************************************)
(* Properties.                                                             *)
(***************************************************************************)
\* Whatever the network cuts, the frames that are read are those that were
\* written, in their order, each with the channel and the values of every
\* member: fill() and the constructor of each class agree with each other and
\* with the size the class declares, and no byte of a frame is taken twice.
FramesArriveInOrder == IsPrefix(received \o refused, sent)

\* A frame is never left in the buffer: when all bytes are there, all frames
\* have been processed, unless the connection has stopped.
NothingStuck ==
    ~stopped /\ refused = <<>> /\ ~closed /\ use = Len(stream) => received = sent

\* Each class writes as many bytes as totalSize() says: CopiedBuffer allocates
\* that much for a frame that has to wait, and never grows.
SizeDeclared ==
    [][Len(sent') > Len(sent) => Len(stream') - Len(stream) = Last(sent').totalSize]_allVars

\* parse() stops at a frame that nobody implements or after the answer to a
\* close, and at nothing else: a frame that is incomplete is never taken for a
\* broken one.
StopsOnlyWhenTold ==
    LET told(frames, whom) ==
            \E i \in DOMAIN frames, F \in FrameClasses :
                frames[i].class = Identity(F) /\ F.process \in whom
    IN  /\ stopped => told(received, Closing)
        /\ refused # <<>> => told(refused, {"unimplemented"})

\* With a buffer as large as the largest frame, handleReadyRead() gives a
\* connection up only after parse() has stopped or refused a frame: the one
\* growth the buffer is allowed is enough for any frame, wherever the chunks fall.
\* The exception is a connection that finds the buffer grown by the one before.
OverflowOnlyAfterStop == closed => stopped \/ refused # <<>> \/ inherited
=============================================================================
