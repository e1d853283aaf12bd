---------------------------- MODULE AmqpClasses ----------------------------
(***************************************************************************)
(* The frame classes of the vendored AMQP-CPP library                      *)
(* (amqpcpp/src/..frame.h).  Each class is one record:                     *)
(*                                                                         *)
(*   type, class, method   what type(), classID() and methodID() return    *)
(*   fixed, variable       the size its constructors pass on: a number and *)
(*                         the members whose own size is added             *)
(*   written               the members in the order of fill()              *)
(*   read                  the members in the order of the constructor     *)
(*                         from a ReceivedFrame                            *)
(*   sync, noWait          synchronous(): always, never, or unless the     *)
(*                         boolean of that index is set                    *)
(*   handshake, shutdown   partOfHandshake() and partOfShutdown()          *)
(*   process               whom process() calls, "unimplemented" where the *)
(*                         class leaves it to its base class, which throws *)
(***************************************************************************)
EXTENDS Naturals

\* The members of frames: a name, what it is, and the width of its number or
\* of the number before its bytes (for booleans: how many there are).
U8(name)          == <<name, "number", 1>>
U16(name)         == <<name, "number", 2>>
U32(name)         == <<name, "number", 4>>
U64(name)         == <<name, "number", 8>>
Str(name)         == <<name, "string", 1>>
Long(name)        == <<name, "string", 4>>
Bools(count)      == <<"bools", "bools", count>>
Tab(name)         == <<name, "table", 4>>
Properties        == <<"metadata", "metadata", 2>>
Payload           == <<"payload", "payload", 0>>

-----------------------------------------------------------------------------
(***************************************************************************)
(* The base classes and what a class may override.                         *)
(***************************************************************************)
ExtFrame(type, fixed, variable, written, read) ==
    [type |-> type, class |-> 0, method |-> 0, fixed |-> fixed, variable |-> variable,
     written |-> written, read |-> read, sync |-> FALSE, noWait |-> {},
     handshake |-> FALSE, shutdown |-> FALSE, process |-> "unimplemented"]

\* Mutant: only one of the two numbers of a method is counted.
MethodFrameUncounted(class, method, fixed, variable, written, read) ==
    [ExtFrame(1, fixed + 2, variable, written, read)
        EXCEPT !.class = class, !.method = method, !.sync = TRUE]

MethodFrame(class, method, fixed, variable, written, read) ==
    [ExtFrame(1, fixed + 4, variable, written, read)
        EXCEPT !.class = class, !.method = method, !.sync = TRUE]

HeaderFrame(class, fixed, variable, written, read) ==
    [ExtFrame(2, fixed + 2, variable, written, read) EXCEPT !.class = class]

ConnectionFrame(method, fixed, variable, written, read) ==
    MethodFrame(10, method, fixed, variable, written, read)

ChannelFrame(method, fixed, variable, written, read) ==
    MethodFrame(20, method, fixed, variable, written, read)

ExchangeFrame(method, fixed, variable, written, read) ==
    MethodFrame(40, method, fixed, variable, written, read)

QueueFrame(method, fixed, variable, written, read) ==
    MethodFrame(50, method, fixed, variable, written, read)

BasicFrame(method, fixed, variable, written, read) ==
    MethodFrame(60, method, fixed, variable, written, read)

ConfirmFrame(method, fixed, variable, written, read) ==
    MethodFrame(85, method, fixed, variable, written, read)

TransactionFrame(method, fixed, variable, written, read) ==
    MethodFrame(90, method, fixed, variable, written, read)

Asynchronous(F)       == [F EXCEPT !.sync = FALSE]
UnlessNoWait(bool, F) == [F EXCEPT !.noWait = {bool}]
Handshake(F)          == [F EXCEPT !.handshake = TRUE]
Shutdown(F)           == [F EXCEPT !.shutdown = TRUE]
Calls(whom, F)        == [F EXCEPT !.process = whom]

-----------------------------------------------------------------------------
(***************************************************************************)
(* The frame classes.                                                      *)
(***************************************************************************)
\* connectionframe.h: the connection itself.
ConnectionStartFrame ==
    Calls("setProtocolOk", ConnectionFrame(10, 10, {"properties", "mechanisms", "locales"},
        <<U8("major"), U8("minor"), Tab("properties"), Long("mechanisms"), Long("locales")>>,
        <<U8("major"), U8("minor"), Tab("properties"), Long("mechanisms"), Long("locales")>>))

ConnectionStartOKFrame ==
    Handshake(ConnectionFrame(11, 6, {"properties", "mechanism", "response", "locale"},
        <<Tab("properties"), Str("mechanism"), Long("response"), Str("locale")>>,
        <<Tab("properties"), Str("mechanism"), Long("response"), Str("locale")>>))

ConnectionSecureFrame ==
    ConnectionFrame(20, 4, {"challenge"}, <<Long("challenge")>>, <<Long("challenge")>>)

ConnectionSecureOKFrame ==
    ConnectionFrame(21, 4, {"response"}, <<Long("response")>>, <<Long("response")>>)

ConnectionTuneFrame ==
    Calls("setCapacity", ConnectionFrame(30, 8, {},
        <<U16("channels"), U32("frameMax"), U16("heartbeat")>>,
        <<U16("channels"), U32("frameMax"), U16("heartbeat")>>))

ConnectionTuneOKFrame ==
    Handshake(ConnectionFrame(31, 8, {},
        <<U16("channels"), U32("frameMax"), U16("heartbeat")>>,
        <<U16("channels"), U32("frameMax"), U16("heartbeat")>>))

ConnectionOpenFrame ==
    Handshake(ConnectionFrame(40, 3, {"vhost"},
        <<Str("vhost"), Str("deprecatedCapabilities"), Bools(1)>>,
        <<Str("vhost"), Str("deprecatedCapabilities"), Bools(1)>>))

ConnectionOpenOKFrame ==
    Calls("setReady", ConnectionFrame(41, 1, {},
        <<Str("deprecatedKnownHosts")>>,
        <<Str("deprecatedKnownHosts")>>))

ConnectionCloseFrame ==
    Shutdown(Calls("reportError", ConnectionFrame(50, 7, {"text"},
        <<U16("code"), Str("text"), U16("failingClass"), U16("failingMethod")>>,
        <<U16("code"), Str("text"), U16("failingClass"), U16("failingMethod")>>)))

ConnectionCloseOKFrame ==
    Calls("reportClosed", ConnectionFrame(51, 0, {}, <<>>, <<>>))

ConnectionBlockFrame ==
    Calls("reportBlocked", ConnectionFrame(60, 1, {"reason"},
        <<Str("reason")>>,
        <<Str("reason")>>))

ConnectionUnblockFrame ==
    Calls("reportUnblocked", ConnectionFrame(61, 0, {}, <<>>, <<>>))

\* channelframe.h: opening and closing of a channel.
ChannelOpenFrame ==
    ChannelFrame(10, 1, {}, <<Str("unused")>>, <<Str("unused")>>)

ChannelOpenOKFrame ==
    Calls("reportReady", ChannelFrame(11, 4, {}, <<Long("unused")>>, <<Long("unused")>>))

ChannelFlowFrame ==
    ChannelFrame(20, 1, {}, <<Bools(1)>>, <<Bools(1)>>)

ChannelFlowOKFrame ==
    Calls("reportSuccess", ChannelFrame(21, 1, {}, <<Bools(1)>>, <<Bools(1)>>))

ChannelCloseFrame ==
    Calls("channelError", ChannelFrame(40, 7, {"text"},
        <<U16("code"), Str("text"), U16("failingClass"), U16("failingMethod")>>,
        <<U16("code"), Str("text"), U16("failingClass"), U16("failingMethod")>>))

ChannelCloseOKFrame ==
    Calls("channelClosed", ChannelFrame(41, 0, {}, <<>>, <<>>))

\* exchangeframe.h.
ExchangeDeclareFrame ==
    UnlessNoWait(4, ExchangeFrame(10, 5, {"name", "type", "arguments"},
        <<U16("deprecated"), Str("name"), Str("type"), Bools(5), Tab("arguments")>>,
        <<U16("deprecated"), Str("name"), Str("type"), Bools(5), Tab("arguments")>>))

ExchangeDeclareOKFrame ==
    Calls("reportSuccess", ExchangeFrame(11, 0, {}, <<>>, <<>>))

ExchangeDeleteFrame ==
    UnlessNoWait(1, ExchangeFrame(20, 4, {"name"},
        <<U16("deprecated"), Str("name"), Bools(2)>>,
        <<U16("deprecated"), Str("name"), Bools(2)>>))

ExchangeDeleteOKFrame ==
    Calls("reportSuccess", ExchangeFrame(21, 0, {}, <<>>, <<>>))

ExchangeBindFrame ==
    UnlessNoWait(0, ExchangeFrame(30, 6, {"destination", "source", "routingKey", "arguments"},
        <<U16("deprecated"), Str("destination"), Str("source"), Str("routingKey"), Bools(1),
          Tab("arguments")>>,
        <<U16("deprecated"), Str("destination"), Str("source"), Str("routingKey"), Bools(1),
          Tab("arguments")>>))

ExchangeBindOKFrame ==
    Calls("reportSuccess", ExchangeFrame(31, 0, {}, <<>>, <<>>))

ExchangeUnbindFrame ==
    UnlessNoWait(0, ExchangeFrame(40, 6, {"destination", "source", "routingKey", "arguments"},
        <<U16("deprecated"), Str("destination"), Str("source"), Str("routingKey"), Bools(1),
          Tab("arguments")>>,
        <<U16("deprecated"), Str("destination"), Str("source"), Str("routingKey"), Bools(1),
          Tab("arguments")>>))

ExchangeUnbindOKFrame ==
    Calls("reportSuccess", ExchangeFrame(51, 0, {}, <<>>, <<>>))

\* queueframe.h.
QueueDeclareFrame ==
    UnlessNoWait(4, QueueFrame(10, 4, {"name", "arguments"},
        <<U16("deprecated"), Str("name"), Bools(5), Tab("arguments")>>,
        <<U16("deprecated"), Str("name"), Bools(5), Tab("arguments")>>))

QueueDeclareOKFrame ==
    Calls("reportSuccess", QueueFrame(11, 9, {"name"},
        <<Str("name"), U32("messageCount"), U32("consumerCount")>>,
        <<Str("name"), U32("messageCount"), U32("consumerCount")>>))

QueueBindFrame ==
    UnlessNoWait(0, QueueFrame(20, 6, {"name", "exchange", "routingKey", "arguments"},
        <<U16("deprecated"), Str("name"), Str("exchange"), Str("routingKey"), Bools(1),
          Tab("arguments")>>,
        <<U16("deprecated"), Str("name"), Str("exchange"), Str("routingKey"), Bools(1),
          Tab("arguments")>>))

QueueBindOKFrame ==
    Calls("reportSuccess", QueueFrame(21, 0, {}, <<>>, <<>>))

QueuePurgeFrame ==
    UnlessNoWait(0, QueueFrame(30, 4, {"name"},
        <<U16("deprecated"), Str("name"), Bools(1)>>,
        <<U16("deprecated"), Str("name"), Bools(1)>>))

QueuePurgeOKFrame ==
    Calls("reportSuccess", QueueFrame(31, 4, {},
        <<U32("messageCount")>>,
        <<U32("messageCount")>>))

QueueDeleteFrame ==
    UnlessNoWait(2, QueueFrame(40, 4, {"name"},
        <<U16("deprecated"), Str("name"), Bools(3)>>,
        <<U16("deprecated"), Str("name"), Bools(3)>>))

QueueDeleteOKFrame ==
    Calls("reportSuccess", QueueFrame(41, 4, {},
        <<U32("messageCount")>>,
        <<U32("messageCount")>>))

QueueUnbindFrame ==
    QueueFrame(50, 5, {"name", "exchange", "routingKey", "arguments"},
        <<U16("deprecated"), Str("name"), Str("exchange"), Str("routingKey"), Tab("arguments")>>,
        <<U16("deprecated"), Str("name"), Str("exchange"), Str("routingKey"), Tab("arguments")>>)

QueueUnbindOKFrame ==
    Calls("reportSuccess", QueueFrame(51, 0, {}, <<>>, <<>>))

\* basicframe.h: messages.
BasicQosFrame ==
    BasicFrame(10, 7, {},
        <<U32("prefetchSize"), U16("prefetchCount"), Bools(1)>>,
        <<U32("prefetchSize"), U16("prefetchCount"), Bools(1)>>)

BasicQosOKFrame ==
    Calls("reportSuccess", BasicFrame(11, 0, {}, <<>>, <<>>))

BasicConsumeFrame ==
    UnlessNoWait(3, BasicFrame(20, 5, {"queueName", "consumerTag", "filter"},
        <<U16("deprecated"), Str("queueName"), Str("consumerTag"), Bools(4), Tab("filter")>>,
        <<U16("deprecated"), Str("queueName"), Str("consumerTag"), Bools(4), Tab("filter")>>))

BasicConsumeOKFrame ==
    Calls("reportSuccess", BasicFrame(21, 1, {"consumerTag"},
        <<Str("consumerTag")>>,
        <<Str("consumerTag")>>))

BasicCancelFrame ==
    UnlessNoWait(0, Calls("reportCancelled", BasicFrame(30, 2, {"consumerTag"},
        <<Str("consumerTag"), Bools(1)>>,
        <<Str("consumerTag"), Bools(1)>>)))

BasicCancelOKFrame ==
    Calls("reportSuccess", BasicFrame(31, 1, {"consumerTag"},
        <<Str("consumerTag")>>,
        <<Str("consumerTag")>>))

BasicPublishFrame ==
    Asynchronous(BasicFrame(40, 5, {"exchange", "routingKey"},
        <<U16("deprecated"), Str("exchange"), Str("routingKey"), Bools(2)>>,
        <<U16("deprecated"), Str("exchange"), Str("routingKey"), Bools(2)>>))

BasicReturnFrame ==
    Asynchronous(Calls("recalls", BasicFrame(50, 5, {"replyText", "exchange", "routingKey"},
        <<U16("replyCode"), Str("replyText"), Str("exchange"), Str("routingKey")>>,
        <<U16("replyCode"), Str("replyText"), Str("exchange"), Str("routingKey")>>)))

BasicDeliverFrame ==
    Asynchronous(Calls("consumer", BasicFrame(60, 12, {"consumerTag", "exchange", "routingKey"},
        <<Str("consumerTag"), U64("deliveryTag"), Bools(1), Str("exchange"), Str("routingKey")>>,
        <<Str("consumerTag"), U64("deliveryTag"), Bools(1), Str("exchange"), Str("routingKey")>>)))

BasicGetFrame ==
    BasicFrame(70, 4, {"queue"},
        <<U16("deprecated"), Str("queue"), Bools(1)>>,
        <<U16("deprecated"), Str("queue"), Bools(1)>>)

BasicGetOKFrame ==
    Calls("getOK", BasicFrame(71, 15, {"exchange", "routingKey"},
        <<U64("deliveryTag"), Bools(1), Str("exchange"), Str("routingKey"), U32("messageCount")>>,
        <<U64("deliveryTag"), Bools(1), Str("exchange"), Str("routingKey"), U32("messageCount")>>))

BasicGetEmptyFrame ==
    Calls("reportSuccess", BasicFrame(72, 1, {}, <<Str("deprecated")>>, <<Str("deprecated")>>))

BasicAckFrame ==
    Asynchronous(Calls("confirm", BasicFrame(80, 9, {},
        <<U64("deliveryTag"), Bools(1)>>,
        <<U64("deliveryTag"), Bools(1)>>)))

BasicRejectFrame ==
    Asynchronous(BasicFrame(90, 9, {},
        <<U64("deliveryTag"), Bools(1)>>,
        <<U64("deliveryTag"), Bools(1)>>))

BasicRecoverAsyncFrame ==
    Asynchronous(BasicFrame(100, 1, {}, <<Bools(1)>>, <<Bools(1)>>))

BasicRecoverFrame ==
    Asynchronous(BasicFrame(110, 1, {}, <<Bools(1)>>, <<Bools(1)>>))

BasicRecoverOKFrame ==
    Calls("reportSuccess", BasicFrame(111, 0, {}, <<>>, <<>>))

BasicNackFrame ==
    Calls("confirm", BasicFrame(120, 9, {},
        <<U64("deliveryTag"), Bools(2)>>,
        <<U64("deliveryTag"), Bools(2)>>))

\* confirmframe.h: publisher confirms.
ConfirmSelectFrame ==
    ConfirmFrame(10, 1, {}, <<Bools(1)>>, <<Bools(1)>>)

ConfirmSelectOKFrame ==
    Calls("reportSuccess", ConfirmFrame(11, 0, {}, <<>>, <<>>))

\* transactionframe.h.
TransactionSelectFrame ==
    TransactionFrame(10, 0, {}, <<>>, <<>>)

TransactionSelectOKFrame ==
    Calls("reportSuccess", TransactionFrame(11, 0, {}, <<>>, <<>>))

TransactionCommitFrame ==
    TransactionFrame(20, 0, {}, <<>>, <<>>)

TransactionCommitOKFrame ==
    Calls("reportSuccess", TransactionFrame(21, 0, {}, <<>>, <<>>))

TransactionRollbackFrame ==
    TransactionFrame(30, 0, {}, <<>>, <<>>)

TransactionRollbackOKFrame ==
    Calls("reportSuccess", TransactionFrame(31, 0, {}, <<>>, <<>>))


\* The frames that are no methods.
BasicHeaderFrame ==
    Calls("receiver", HeaderFrame(60, 10, {"metadata"},
        <<U16("weight"), U64("bodySize"), Properties>>,
        <<U16("weight"), U64("bodySize"), Properties>>))

BodyFrame == Calls("receiver", ExtFrame(3, 0, {"payload"}, <<Payload>>, <<Payload>>))

HeartbeatFrame == Calls("reportHeartbeat", ExtFrame(8, 0, {}, <<>>, <<>>))

FrameClasses ==
    {ConnectionStartFrame, ConnectionStartOKFrame, ConnectionSecureFrame, ConnectionSecureOKFrame,
     ConnectionTuneFrame, ConnectionTuneOKFrame, ConnectionOpenFrame, ConnectionOpenOKFrame,
     ConnectionCloseFrame, ConnectionCloseOKFrame, ConnectionBlockFrame, ConnectionUnblockFrame,
     ChannelOpenFrame, ChannelOpenOKFrame, ChannelFlowFrame, ChannelFlowOKFrame,
     ChannelCloseFrame, ChannelCloseOKFrame, ExchangeDeclareFrame, ExchangeDeclareOKFrame,
     ExchangeDeleteFrame, ExchangeDeleteOKFrame, ExchangeBindFrame, ExchangeBindOKFrame,
     ExchangeUnbindFrame, ExchangeUnbindOKFrame, QueueDeclareFrame, QueueDeclareOKFrame,
     QueueBindFrame, QueueBindOKFrame, QueuePurgeFrame, QueuePurgeOKFrame,
     QueueDeleteFrame, QueueDeleteOKFrame, QueueUnbindFrame, QueueUnbindOKFrame,
     BasicQosFrame, BasicQosOKFrame, BasicConsumeFrame, BasicConsumeOKFrame,
     BasicCancelFrame, BasicCancelOKFrame, BasicPublishFrame, BasicReturnFrame,
     BasicDeliverFrame, BasicGetFrame, BasicGetOKFrame, BasicGetEmptyFrame,
     BasicAckFrame, BasicRejectFrame, BasicRecoverAsyncFrame, BasicRecoverFrame,
     BasicRecoverOKFrame, BasicNackFrame, ConfirmSelectFrame, ConfirmSelectOKFrame,
     TransactionSelectFrame, TransactionSelectOKFrame, TransactionCommitFrame,
     TransactionCommitOKFrame, TransactionRollbackFrame, TransactionRollbackOKFrame,
     BasicHeaderFrame, BodyFrame, HeartbeatFrame}
=============================================================================
