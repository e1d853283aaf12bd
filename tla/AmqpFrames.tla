---------------------------- MODULE AmqpFrames ----------------------------
(***************************************************************************)
(* How the vendored AMQP-CPP library writes the frames of the classes of   *)
(* AmqpClasses and how it finds out, from the numbers in front of a frame, *)
(* which class to read it with.                                            *)
(***************************************************************************)
EXTENDS AmqpClasses, AmqpFields

-----------------------------------------------------------------------------
(***************************************************************************)
(* Writing a frame.  Values are a function on the names of its members.    *)
(***************************************************************************)
WrittenSize(member, value) ==
    CASE member[2] \in {"string", "payload"} -> Len(value)
      [] member[2] = "table"    -> TableSize(value)
      [] member[2] = "metadata" -> MetaSize(value)

\* The size the constructor passes to ExtFrame, the payload size of the frame.
PayloadSize(F, values) ==
    F.fixed + MapThenSumSet(LAMBDA m : WrittenSize(m, values[m[1]]),
                            {m \in ToSet(F.written) : m[1] \in F.variable})

\* ExtFrame::totalSize().
TotalSize(F, values) == PayloadSize(F, values) + 8

FillMember(member, value) ==
    CASE member[2] = "number"   -> BigEndian(value, member[3])
      [] member[2] = "string"   -> FillString(value, member[3])
      [] member[2] = "bools"    -> FillBits(value)
      [] member[2] = "table"    -> FillTable(value)
      [] member[2] = "metadata" -> FillMeta(value)
      [] member[2] = "payload"  -> value

\* What ExtFrame::fill(), MethodFrame::fill() and HeaderFrame::fill() add.
FillHeader(F, channel, values) ==
    <<BigEndian(F.type, 1), BigEndian(channel, 2), BigEndian(PayloadSize(F, values), 4)>>
    \o CASE F.type = 1 -> <<BigEndian(F.class, 2), BigEndian(F.method, 2)>>
         [] F.type = 2 -> <<BigEndian(F.class, 2)>>
         [] OTHER      -> <<>>

\* fill() and the end of the frame, as the pieces that are added to a buffer.
Fill(F, channel, values) ==
    FillHeader(F, channel, values)
    \o [i \in DOMAIN F.written |-> FillMember(F.written[i], values[F.written[i][1]])]
    \o <<<<206>>>>

\* PassthroughBuffer::append().
AppendData(capacity, out, data) ==
    LET flush == out.held # <<>> /\ Len(out.held) + Len(data) > capacity
        held  == IF flush THEN <<>> ELSE out.held
        sent  == IF flush THEN Append(out.sent, out.held) ELSE out.sent
    IN  IF Len(data) > capacity
        THEN [held |-> held, sent |-> Append(sent, data)]
        ELSE [held |-> held \o data, sent |-> sent]

\* The calls of onData() for one frame; the destructor flushes what is left.
PassThrough(capacity, pieces) ==
    LET out == FoldLeft(LAMBDA o, data : AppendData(capacity, o, data),
                        [held |-> <<>>, sent |-> <<>>], pieces)
    IN  IF out.held = <<>> THEN out.sent ELSE Append(out.sent, out.held)

-----------------------------------------------------------------------------
(***************************************************************************)
(* Reading a frame: ReceivedFrame.                                         *)
(***************************************************************************)
ConnectionFrames ==
    10 :> ConnectionStartFrame  @@ 11 :> ConnectionStartOKFrame @@ 20 :> ConnectionSecureFrame @@
    21 :> ConnectionSecureOKFrame @@ 30 :> ConnectionTuneFrame @@ 31 :> ConnectionTuneOKFrame @@
    40 :> ConnectionOpenFrame   @@ 41 :> ConnectionOpenOKFrame  @@ 50 :> ConnectionCloseFrame  @@
    51 :> ConnectionCloseOKFrame @@ 60 :> ConnectionBlockFrame  @@ 61 :> ConnectionUnblockFrame

ChannelFrames ==
    10 :> ChannelOpenFrame   @@ 11 :> ChannelOpenOKFrame @@ 20 :> ChannelFlowFrame @@
    21 :> ChannelFlowOKFrame @@ 40 :> ChannelCloseFrame  @@ 41 :> ChannelCloseOKFrame

\* Mutant: the answer to an unbind has the number the others lead to expect.
ExchangeFramesContinued ==
    10 :> ExchangeDeclareFrame @@ 11 :> ExchangeDeclareOKFrame @@ 20 :> ExchangeDeleteFrame @@
    21 :> ExchangeDeleteOKFrame @@ 30 :> ExchangeBindFrame @@ 31 :> ExchangeBindOKFrame @@
    40 :> ExchangeUnbindFrame @@ 41 :> ExchangeUnbindOKFrame

ExchangeFrames ==
    10 :> ExchangeDeclareFrame @@ 11 :> ExchangeDeclareOKFrame @@ 20 :> ExchangeDeleteFrame @@
    21 :> ExchangeDeleteOKFrame @@ 30 :> ExchangeBindFrame @@ 31 :> ExchangeBindOKFrame @@
    40 :> ExchangeUnbindFrame @@ 51 :> ExchangeUnbindOKFrame

QueueFrames ==
    10 :> QueueDeclareFrame @@ 11 :> QueueDeclareOKFrame @@ 20 :> QueueBindFrame @@
    21 :> QueueBindOKFrame @@ 30 :> QueuePurgeFrame @@ 31 :> QueuePurgeOKFrame @@
    40 :> QueueDeleteFrame @@ 41 :> QueueDeleteOKFrame @@ 50 :> QueueUnbindFrame @@
    51 :> QueueUnbindOKFrame

BasicFrames ==
    10 :> BasicQosFrame @@ 11 :> BasicQosOKFrame @@ 20 :> BasicConsumeFrame @@
    21 :> BasicConsumeOKFrame @@ 30 :> BasicCancelFrame @@ 31 :> BasicCancelOKFrame @@
    40 :> BasicPublishFrame @@ 50 :> BasicReturnFrame @@ 60 :> BasicDeliverFrame @@
    70 :> BasicGetFrame @@ 71 :> BasicGetOKFrame @@ 72 :> BasicGetEmptyFrame @@
    80 :> BasicAckFrame @@ 90 :> BasicRejectFrame @@ 100 :> BasicRecoverAsyncFrame @@
    110 :> BasicRecoverFrame @@ 111 :> BasicRecoverOKFrame @@ 120 :> BasicNackFrame

ConfirmFrames == 10 :> ConfirmSelectFrame @@ 11 :> ConfirmSelectOKFrame

TransactionFrames ==
    10 :> TransactionSelectFrame @@ 11 :> TransactionSelectOKFrame @@
    20 :> TransactionCommitFrame @@ 21 :> TransactionCommitOKFrame @@
    30 :> TransactionRollbackFrame @@ 31 :> TransactionRollbackOKFrame

MethodFrames ==
    10 :> ConnectionFrames @@ 20 :> ChannelFrames @@ 40 :> ExchangeFrames @@ 50 :> QueueFrames @@
    60 :> BasicFrames @@ 85 :> ConfirmFrames @@ 90 :> TransactionFrames

HeaderFrames == 60 :> BasicHeaderFrame

\* process(): the class that is read from what is left, and the exception where
\* there is none.
MethodRead(class, method, bytes) ==
    IF class \in DOMAIN MethodFrames /\ method \in DOMAIN MethodFrames[class]
    THEN Read(MethodFrames[class][method], bytes)
    ELSE Failed

ProcessMethodFrame(bytes) ==
    Then(TakeNumber(bytes, 2), LAMBDA class, rest1 :
    Then(TakeNumber(rest1, 2), LAMBDA method, rest2 : MethodRead(class, method, rest2)))

ProcessHeaderFrame(bytes) ==
    Then(TakeNumber(bytes, 2), LAMBDA class, rest :
         IF class \in DOMAIN HeaderFrames THEN Read(HeaderFrames[class], rest) ELSE Failed)

ProcessFrame(type, bytes) ==
    CASE type = 1        -> ProcessMethodFrame(bytes)
      [] type = 2        -> ProcessHeaderFrame(bytes)
      [] type = 3        -> Read(BodyFrame, bytes)
      [] type \in {4, 8} -> Read(HeartbeatFrame, bytes)
      [] OTHER           -> Failed

TakeMember(member, payloadSize, bytes) ==
    CASE member[2] = "number"   -> TakeNumber(bytes, member[3])
      [] member[2] = "string"   -> TakeString(bytes, member[3])
      [] member[2] = "bools"    -> TakeBits(bytes)
      [] member[2] = "table"    -> TakeTable(bytes)
      [] member[2] = "metadata" -> TakeMeta(bytes)
      [] member[2] = "payload"  -> Take(bytes, payloadSize)

\* The constructor from a ReceivedFrame: one member after the other.
TakeMembers(F, payloadSize, bytes) ==
    FoldLeft(LAMBDA read, m :
                 IF ~read.ok THEN read
                 ELSE Then(TakeMember(m, payloadSize, read.rest), LAMBDA value, rest :
                           Read(read.value @@ (m[1] :> value), rest)),
             Read(<<>>, bytes), F.read)
=============================================================================
