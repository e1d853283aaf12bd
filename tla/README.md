# Verification of pipelinerunner

`pipelinerunner` is a Qt service that takes job messages from a RabbitMQ queue,
runs a python converter on the file a message names, publishes a message with
the name of the result to another queue and acknowledges the job.  Several
runners are chained by their queues (`configs/config_1.json` ... `config_3.json`).
These modules model the program in TLA+, check it with TLC and prove part of it
with TLAPS.

## The system

| Component | State | Operations |
|---|---|---|
| RunnerService, ListenerHandler (`RunnerPlugin/Service`) | `_jobs` (strong job handles), `_jobsDeliveryTags` | `handleJobMessage`, `handleJobFinished`, `abortAllJobs`, `sendResultMessage`, `confirmMessageTag` |
| ConverterService, JobHandle (`ConverterPlugin/Service`) | `_receivedMessages` (queue of weak handles), `_process`, `_jobEnv` | `processJobMessage`, `startJob`, `endJob`, process signals |
| QueueListener, QueueSender (`pipelineutils/modules/rabbitmq`) | `_isReady`, `_messages` (deliveries by tag) | `setIsReady`, `addMessage`, `confirmReceiving`, `publish`, `resetChannel` |
| RabbitMQClient | `_connection`, `_channel`, the registered senders and listeners | connection and readiness changes, registration of queues |
| ConnectionHandler, Buffer | socket, reconnect timer, `_isConnected`, `_isReady`, input and output buffers | socket events, AMQP callbacks, `handleReadyRead` |
| RabbitService, ConfigService, the four plugins | configuration, the client | start and stop in the order of `loadorder.h` |
| AMQP library (`pipelineutils/3rd_party/amqpcpp`), a connection and a channel | `_state`, `_queue`, `_callback` chain, `_synchronous`, the receiver of a message | `parse`, `send`, `close`, the requests of `Channel`, `process` of every frame |
| the chain of stages (`configs/`) | the queues between the runners | start and loss of a stage |
| Toolkit, Message, JobInfo | none | JSON fields, addresses |

Everything runs in one event loop, so a handler with all it calls is one atomic
step; the mutexes of the code are never contended.  What is concurrent with it:
the broker, the network, the python process, and the end of the program itself.

How the parts interact: a delivery becomes `QueueListener::messageReceived`,
`ListenerHandler::sigMessageReceived`, `RunnerService::handleJobMessage`, which
registers a handle with the converter and keeps the only strong reference.  The
converter ends a job with `JobHandle::finished`; `handleJobFinished` publishes
the result, acknowledges the delivery and drops the handle.  When the listener
stops being ready, `sigConnectionBroken` makes the runner drop all handles; the
converter finds dead weak pointers in its queue.

What is hard: connections lost at any point of a job, sessions the broker takes
for alive after the program has left them, deliveries that come again, tags that
start at 1 again, a crash of the program, dead entries in the converter's queue
while a process still runs, `startJob` and `endJob` calling each other, signals
of one crash arriving twice, buffers at their limit, frames cut anywhere, calls
made while an answer is outstanding, a channel closed from both ends, stages
started before the queue they read exists.  `PROJECT.json` lists these
hazards at their lines with the properties that cover them.

What makes the components correct: no message is lost and none is acknowledged
undecided (runner); every accepted job is served once, in order, in its own
directory (converter); the parser sees every byte (input buffer); a lost
connection is always retried, and a ready listener has a ready sender and a
consumer with its prefetch limit (connection); a frame that is written is read
with the same values (frames); calls keep their order, answers find their call
and every request is resolved (channel); what one stage promises holds from the
first queue to the last (chain).

## Modules

| Module | What it models |
|---|---|
| `Converter` | ConverterService with its queue, process and temporary directory; a small owner of handles makes it a specification of its own |
| `JobQueue` | abstract: the FIFO of live jobs the converter promises |
| `MCConverter` | TLC module: `ServedInOrder`, Converter implements JobQueue |
| `JobPipeline` | one stage: RunnerService, ListenerHandler, QueueListener, QueueSender, Converter (by `INSTANCE`), and the broker |
| `AtLeastOnce` | abstract: what a stage promises about the messages of its queue |
| `MCJobPipeline` | TLC module of JobPipeline |
| `InputBuffer` | ConnectionHandler's input side with Buffer |
| `RabbitLink` | ConnectionHandler, RabbitMQClient and the readiness of sender and listener, with the handshake of a session |
| `AmqpFields` | the fields of frames: numbers, strings, booleans, tables, arrays, properties |
| `AmqpClasses` | every frame class of the library as data: its members, the sizes of its constructors, the order of `fill()`, whether it is synchronous, what `process()` is |
| `AmqpFrames` | what is done with those classes: writing a frame, reading one, choosing its class |
| `FrameStream`, `MCFrameStream` | frames written, cut by the network, put together in `InputBuffer`, parsed |
| `AmqpChannel`, `MCAmqpChannel` | a channel and its connection, with the frame classes of `AmqpClasses`, and the broker |
| `Chain` | the stages of the configurations and the broker between them; implements `AtLeastOnce` |
| `Converter_proofs`, `JobPipeline_proofs`, `InputBuffer_proofs`, `RabbitLink_proofs`, `AmqpChannel_proofs`, `Chain_proofs` | theorems about those modules |
| `AmqpChannelBroker_proofs` | that the broker never complains, from the invariant of `AmqpChannel_proofs` |
| `AmqpChannelAnswers_proofs` | that every answer reaches the call it is for, from the same invariant |

The operators whose comment starts with "Mutant:" are faulty variants of the
definition below them.  They belong to no specification; `PROJECT.json` names
the property that each of them breaks.

### Converter

`received` is `_receivedMessages`, `jobs` the set of live handles
(`RunnerService::_jobs`), `process` the state of the QProcess, `jobEnv` the job
whose temporary directory exists, `startsPosted` the queued calls of `startJob`.
A job is its `message_id`; `DistinctJobs` in JobPipeline shows that two handles
of one message are never queued together, so the name is enough.

The recursion of `startJob` and `endJob` is a set of outcomes (`ServeOutcomes`):
a prefix of the queue ends (dead handles, and live ones whose environment cannot
be created) and the entry after it runs.  `undefined` becomes TRUE when the code
calls `front()` or `pop()` on an empty `std::queue`; nothing is specified after
that.

External: the QProcess.  A process exits, fails to start (one signal, the process
no longer running) or crashes (`errorOccurred(Crashed)` while it still counts as
running, so that `start()` is refused, then `finished(CrashExit)`).  Crashes are
switched by `ConverterMayCrash`.

### JobPipeline

The program: `ready` (the listener and the sender are ready on the current
`session`), `cached` (`QueueListener::_messages`), `jobsDeliveryTags`, and the
converter's variables.  The broker: `srcQueue`, the sessions it considers alive
(`open`), per session the one delivery that is not acknowledged (`unacked`;
`prefetchCount` is 1) and the frames on their way to it (`up`).  `failed` and
`restarts` exist for the checks only.

`HandleInvalidMessage`, `HandleKnownMessage` and `HandleNewMessage` are the
branches of `handleJobMessage`; `FinishJob` is `handleJobFinished`; `LinkBreaks`
and `NoticeClosed` are the two ways the program loses a session (first the
program, or first the broker), with `setIsReady(false)` and `abortAllJobs` in the
same step; `Crash` and `Restart` end and start the program.  A program whose
queue underflows dies: libstdc++ leaves the queue non-empty after the `pop()`, and
`startJob`/`endJob` read on until the read faults.

Not in this model: the AMQP handshake (a session is one step, `Connect`; it has
a module of its own, `RabbitLink`), errors of a channel, a publish refused by the channel, a second consumer of the same
queue.  All messages are queued from the start: one that arrives later behaves
like one that is delivered later.

### InputBuffer

Bytes are counted.  `ReadChunk` is one iteration of the loop of
`handleReadyRead` that stores its chunk; `Overflow` is the branch that closes the
connection; `NewConnection` is the drain of `checkConnection`, which leaves the
size and the flag.  The parser may leave any remainder.  `FlagMatchesSize` is
the part of the inductive invariant that makes `MemoryBounded` true.

### AmqpFields, AmqpClasses, AmqpFrames, FrameStream

A byte is a number, a buffer a sequence of bytes.  A field is a record with a
writer and a reader; a frame class is a record with its identity, its members in
the order of `fill()`, its members in the order of its receiving constructor and
the size that its constructor declares.  All of them are transcribed one by one,
because the hazard is in the repetition: three lists per class, kept equal by
hand.  Both ends of `FrameStream` are the library, so the frames that only a
broker or only a client sends are read back too.  The composition with
`InputBuffer` is real: `ReadFrames` is one `handleReadyRead`, chunk by chunk, and
what `parse()` leaves is what the buffer keeps.  `Reconnect` inherits a grown
buffer, as `checkConnection` does.  A class whose `process()` is not implemented
throws and stays in front (`refused`).

The numbers are below 2^31, so the sign and the upper half of 64 bits are not
told apart, and the strings are shorter than the 255 bytes of a short string.

### AmqpChannel

`channel` and `connection` hold the members of `ChannelImpl` and
`ConnectionImpl`; the operators between them transform one record of both, so
that a handler that sends, flushes and calls back is one action.  The table
`RequestFrame` names the frame of each request.  A call is numbered; its frames
carry the number, its Deferred is the number in the chain, and `outcome` says
what became of it: refused, ignored (the channel was closed), success, error.
Three history variables name the situations in which a property has an exception
that the code really has: `unpaired` (a Deferred was chained that no answer comes
for: a frame that was refused, or `declareExchange` with nowait), `early` (a get
or a recover has flushed the channel before its answer was reported) and
`stalled` (a nack was sent, which counts as synchronous and has no answer; or the
channel was opened after the broker had closed the connection).

The broker answers in order, refuses a request by closing the channel, closes the
connection on a frame that the protocol forbids (`complaint`), cancels
a consumer, shuts down, and delivers.

### Chain

Stage i consumes queue i and publishes to queue i + 1.  `toBroker` holds what a
stage has sent and the broker has not handled, in order: the registrations of
`handleReadyChanged`, or the result and the ack of `handleJobFinished`.  `held` is
the delivery that is not acknowledged.  A queue is absent, declared by a stage or
foreign (made by someone else with other arguments); queue 1 is foreign, because
nothing in the repository declares it.  The broker refuses a declaration that
differs and a consumer without a queue by closing the channel; the stage is then
deaf until it is restarted.  `Lose` is a crash or a stop of a stage at any moment.

A loss of the link by a stage that goes on converting is not an action here: what
it does to the stage is the finding of `stage_link_loss`, and in the chain it would
only be a stage that stands still.  A result has a `message_id` of its own
(`QUuid::createUuid`), so no stage can tell a doubled message: the model counts
copies.

### RabbitLink

`socket`, `timer`, `isConnected` and `isReady` are the handler's; `amqp` and
`closeCalled` the state of the AMQP connection in use (`_state`, `_closed`);
`requests` the requests of its channel that have no answer.  Every request is
synchronous, so only the first of them is on the wire; a `close()` writes its
frame at once only on an open connection without such requests (`ClosesNow`).
`toBroker` and `toClient` are the frames of the current TCP connection.

`HandleConnected` is `handleConnectionChanged(true)`: close the old connection,
make a new one (its constructor sends the protocol header), open its channel.
`ReadOpenOk` is the step that makes the link ready and registers the queues;
`ReadAnswer` makes first the sender and then the listener ready.  `Overflow` is
the second overflow of the input buffer: bytes are missing afterwards, so nothing
more is read from that connection.  `Stop` is the end of the client.

Simplified: Tune-Ok and Open are one frame; the confirmation of a close is left
out, because the broker has ended the connection by then; messages are delivered
but not acknowledged.  External: the broker answers in order, refuses a
connection that does not start with the header, and ends one that is closed.
The modules meet in three facts that JobPipeline takes for granted and this
module checks: a session becomes ready as a whole (`ListenerReadiness`), it has
one consumer with the prefetch limit (`OneConsumerWithPrefetch`), and no message
is read before it is ready (`DeliveredWhenReady`).

## Runs

| Run | Question | Bounds |
|---|---|---|
| `stage` | is anything lost, acknowledged early or to the wrong session, whatever fails | two valid messages and a malformed one, three sessions, one restart; no crash of the python process |
| `stage_live` | is every message settled when links hold, although the python process and the program crash | as above, two restarts, no link failure |
| `stage_link_loss` | the same with link failures: **violated** | one message, two sessions |
| `stage_converter_crash` | is a message lost when the python process crashes and links break: **violated** | two messages, two sessions |
| `converter` | the converter's queue on its own: safety, order, liveness, and what a crash can do | four jobs at a time, any number of times |
| `input_buffer_temp_size` | is the chunk as large as the header says: **violated** | the sizes of the header |
| `link` | is a lost link tried again, and is readiness true when it is claimed | three failures, with and without a sub queue from the start |
| `link_stale_close` | does a connection start with its header: **violated** | the same |
| `link_stop` | does the output buffer hold what it is told to remove: **violated** | the same |
| `frames` | do frames arrive whole, in order and equal, and does the input buffer hold them | every class with three samples of its values, then a large or a small frame; buffer 80, chunk 5, up to 7 bytes waiting |
| `channel` | order of calls, pairing of answers, the protocol as the broker sees it, every request resolved | three calls of eight operations, two messages of up to one body frame, one unasked close by the broker |
| `chain` | does the chain keep the promise of a stage, how often is a message doubled, does every message come through | three stages, two messages, two losses, any set of foreign queues |

Why the bounds are enough: two messages are needed for one to be half-finished
while another is delivered, three sessions for an old half-open one, a lost one
and a good one, one restart for the loss of the program's tables.  In the
converter four jobs allow a dead one that runs, a dead and a live one that end at
once, and one that starts.  The buffer of `frames` holds the largest sample, a
chunk and the bytes that may wait are not multiples of one another, so chunks
fall on every byte of a frame, the buffer grows, shrinks to a size in between and
to the first one, and overflows; the sizes themselves are covered by the proof.
The eight operations of `channel` are one of each kind: with a Deferred, with a
name, with a message; answered, answered by a message, never answered, answered
without being waited for.  Three calls put one on the wire, one behind it in the
queue and one that is made while the channel closes.  In the chain three stages
have a first, a middle and a last one, and two losses allow one of a message that
was doubled by the other.  Three failures of the link allow a loss, a
refused attempt after it and a loss of that one.  The runs of the link do not
look for deadlocks: the program may stop, or be left with a connection it has
given up.

Fairness (`FairSpec`): the event loop runs what is pending, the reconnect timer
tries again, the python process ends, the broker delivers, reads and gives up
sessions whose peer is gone, and someone restarts the program.  The last three
are assumptions about the outside: the code sets no timeout for the process, and
the repository holds no supervisor.  Failures are never forced.
For the link: the timer fires, an attempt to connect ends, both sides read what
they are sent, and the program learns that a connection has ended.
For the channel: the handshake ends, the broker reads and the socket is read;
nobody has to call anything.  For the chain: a stage that is down is started
again (the operator, as above), the broker handles and delivers, a job ends; a
stage that is deaf need not be restarted, because nothing tells.

## What the runs found

- **A stage stops after a lost connection** (`stage_link_loss`).  `abortAllJobs`
  clears `_jobs` but not `_jobsDeliveryTags`.  The message that comes again takes
  the branch of a known id, only its tag is replaced, no job exists for it and it
  is never acknowledged; with prefetch 1 nothing else is delivered.
- **A crash of the python process ends two jobs** (`stage_converter_crash`).
  Both signals of a crash call `endJob`.  With another job queued, that one is
  acknowledged without having been converted; with none, an empty queue is read
  and popped.
- **The close of the old connection goes to the new socket** (`link_stale_close`).
  Nobody tells the AMQP connection that its socket is lost.  It is closed when the
  next socket is connected, and if its channel waits for nothing, its close frame
  precedes the protocol header.  The broker ends that attempt, and the next one
  succeeds (`EventuallyReady` holds).
- **A stop while the broker is away corrupts the output buffer** (`link_stop`).
  The close frame is written to an unconnected socket, and the -1 of that write
  goes to `shiftLeft`, whose assertion it breaks.
- **A connection that is given up may never end.**  After an overflow the handler
  neither closes the socket nor starts the timer.  If the close frame has to
  wait (`GaveUp` without a close on its way), only the broker or the network can
  end it; `EventuallyReady` states this exception.
- **A stage started too early stays deaf.**  Its consumer is refused, no callback
  hears of it, and the channel is gone; a queue that exists with other arguments
  does the same through the sender.  `MessagesComeThrough` allows a message to wait
  there, and at no other place; the sender being registered first keeps the
  trouble from spreading (`DeafStillDeclares`).
- **Answers can shift on a channel.**  `push(const Frame &)` chains a Deferred even
  if the frame was refused, and `declareExchange` with nowait chains one that no
  answer comes for; from then on each answer goes to the call before its own
  (`AnswersMatch` holds up to there).  The program makes no such call.
- **A nack stalls its channel** and **a get flushes it early**, against
  `methodframe.h:65`: exceptions of `EveryRequestResolved` and `OneRequestAtATime`.
  The program uses neither.
- **A frame that was queued is not checked against the maximum size**
  (`BrokerSatisfied` allows the complaint).
- **A message whose header is too large leaves half of itself behind.**  `publish()`
  has sent the method frame by the time the header is refused
  (`channelimpl.cpp:504`), and the broker complains of whatever comes next.
  No run has `"publish"` in `Oversized`, and `BrokerNeverComplains` assumes that it is
  not: the program publishes with small properties.
- **The temporary buffer is 20480 bytes**, not 1 Mb (`input_buffer_temp_size`).

## Proofs

`Converter_proofs`: `ConverterTyped`, `ConverterServesOnce`,
`ConverterInOwnDirectory`, `ConverterKeepsPlaces` (the type invariant,
`ServedOnce`, `EnvOfRunningJob`, `LiveJobsQueued`) and `NoUnderflow`, for any set
of messages.  The argument is one lemma per way of serving the queue (`ServeSound`,
`EndJobSound`, `StartJobSound`, `CrashSound`): what is left is a suffix of the
queue, and every live job of the prefix that went has ended (`SoundOutcome`).
Sound outcomes compose (`SoundTransitive`), which covers the double `endJob` of
a crash.  `SettleInv` turns a sound outcome into the invariant.  `ServedOnce` is
what makes the queue non-empty when it is read, so `NoUnderflow` needs it, and
the invariant needs `QueueNeverUnderflows` only where no crash is possible.
`UnderflowCause` is the action property `UnderflowOnlyByCrash`: with crashes
allowed, the step that underflows the queue is one.

`JobPipeline_proofs`: one stage, for any number of messages, sessions and
restarts.  None of its properties is inductive.  What has to be known is where
the one unanswered message is: in hand, in a single place of the program, and
answered by nothing yet (`InHand`); or answered by frames that a live session
still has to read, which are a whole answer to the delivery open there
(`FramesSettle`); and in either case the broker still has it, in the queue or in
some session, perhaps not the program's own (`HeldOutstanding`).  The conjunct
`DistinctJobs` needs `QueuedKnown`: a message keeps its tag as long as it has a
place in the converter's queue, so a redelivered one takes the branch of the known
id.  From `Inv` follow `StageTyped`, `LiveJobCanBeSettled` (`LiveJobIsCurrent`)
and `QueuedOnce` (`DistinctJobs`).  With `AckedDecided` it gives `NothingLost`
(`NoLoss`), `AcksFollowResults` (`AcksDecided`) and `StageImplementsAtLeastOnce`,
the refinement `StageDelivers`.  These three have the condition that the python
process does not crash, which is necessary: with crashes the run
`stage_converter_crash` refutes them.  `ConverterUsedAsAssumed` is the
composition: the runner and its broker are an owner of handles as Converter
assumes one, so the converter inside the stage only takes steps of Converter, and
`ConverterSafeInStage` carries the theorems about the converter over to it.

`InputBuffer_proofs`: `BufferTyped`, `EveryByteParsed`, `BufferBounded`, for all
sizes.  The new size is computed from `IN_BUFFER_SIZE`, not from the size the
buffer has, so that a chunk fits depends on the flag being right, and the flag on
the shrink: the three properties are one inductive invariant.

`RabbitLink_proofs`: `LinkRetried` (`ReconnectArmed`) for any number of failures.
The property is inductive as it stands: a timer that fires begins an attempt only
because an unconnected socket is never taken for connected, its second part.
`ReadyTogether` (`ListenerReadiness`), `HeldBack` (`OneConsumerWithPrefetch`) and
`NeverDeliveredEarly` (`DeliveredWhenReady`) are not: that the sender is ready
when the consumer is confirmed depends on everything said before.  `IInv` describes
the handshake as a conversation.  At any moment one request is on its way, with
all that it presupposes on both sides, or its one answer is, perhaps with the
broker's close behind it (`Asked`, `Answered`), or all is said (`Settled`), or the
channel has failed (`Failed`).  A connection the handler has given up is outside
of the conversation, but the broker may still read the one frame left of it
(`OneFrameLeft`), which registers a consumer at most once.

`Chain_proofs`: `ChainImplementsAtLeastOnce`, the refinement `ChainDelivers` for any
number of stages, messages and losses, and `RefusedStagesDeclare`.  The abstract
specification settles a message when the last copy leaves the stages, which may be
the ack of a stage in the middle.  What has to be carried along is `HandedOn`: a
stage that waits for its ack has its message further down the chain, or rejected.
The witness moves while stages below settle theirs, and each time the one that
settles hands over its own witness (`OthersMessageHandedOn`).  `FramesOK` ties what
a stage has sent to what it holds.  One lemma per action says where the copies go
(`DeliversInPlace`, `LosesInPlace`, `RoutesOn`, `SettlesOnly`), and the refinement
of each step follows (`RoutesRefines`, `SettlesRefines`).
`CopiesAreLosses` (`DuplicatesBounded`) counts the copies of a message.  A sum over
the queues would need induction, so the copies that wait are a set of numbered
copies; a step adds or takes the last of one queue (`OneMore`), and each kind of
step is followed in the four counts that `CountedOK` relates (`StepCounted`).

`AmqpChannel_proofs`: `ChannelTyped` (`TypeOK`), `CallsKeepOrder`
(`CallsInOrder`), `OneAtATime` (`OneRequestAtATime`) and `MessagesArriveWhole`
(`MessagesWhole`), for any operations and sizes of messages and any number of calls,
messages and unasked closes.  A handler of the library is a sequence of
operators on a state `s`; `Sound(s, read, n)` is what each of them keeps when n calls
have been made and the broker has read as far as `read`.  A frame goes from the
channel's queue to the connection's or to the broker, so what `CallsInOrder`
says of the whole line is said of the three parts and between them, and a flush
cuts the queue at the first synchronous frame (`FlushPoint`, `FlushCases`).  There is
a lemma per operator (`SendFramesSound`, `FlushSound`, `PerformSound`,
`ProcessReceivedSound` ...).  `OneOnTheWay` needs more than the property: the one
request may still be in the queue of the connection, and a channel that waits for
nothing has none on the way; the lemmas named `...Way` keep it, as long as no flush
comes early (`ReadWay`).  That messages are whole rests on what comes next on the
wire: `InPieces` of all that the broker has sent, `Receiving` of what the receiver
has so far, `TagsGrow` across callback, receiver and wire.  One lemma per step of
the specification ends in `IInv` again.

`AmqpChannelBroker_proofs`: `BrokerNeverComplains` (`BrokerSatisfied`), for any
operations and any number of calls, messages and unasked closes, if no published
header is too large.  The broker judges a frame by what it has read; the frame was
sent by what the library knew, which may be older.  `BrokerInv` relates the two as
long as neither end has closed the connection (`Agreement`): the opening comes first
(`OpenComes`) and the close last (`CloseLast`) in all that is not read; the broker
closes a channel once and is answered once, with no frame of a call behind the
answer (`ClosedOnce`, `AnsweredOnce`); a channel that it has closed has no frames left
(`ClosedSilent`); and no queue cuts a message (`MessagesUncut`), which is where the
hypothesis is needed.  Frames enter a queue or move to the next one, whatever the
handler: `Goes` says so, it composes, and every operator of the library satisfies
it, so `LibraryAgrees` carries the agreement over all steps of the library at once.
For the broker's steps it is shown that the frame it reads is allowed
(`BrokerAllowed`) and what it knows agrees again (`TakesAgrees`).

`AmqpChannelAnswers_proofs`: `AnswersFindTheirCalls` (`AnswersMatch`), for any
operations, any refused frames and any number of calls, messages and unasked closes.
The chain of Deferreds knows no numbers: `reportSuccess` gives the next answer to the
oldest Deferred, so the answer that settles a call is its own only because four
sequences agree (the chain, the answers on the way, the requests on the way, the
requests that wait in the queues).  `AnswersInv` says how.  Every frame is named
after its call (`FramesOf`); the answers are in the order of the calls, and for
earlier ones than any request not read yet (`AnswersOf`); the chain is in that order
too (`ChainOf`); and as long as the channel works and nothing was chained that gets
no answer, no answer is for a call outside of the chain or skips one in it
(`Paired`).  For that last part it must be known that the broker answers all that
was asked unless it closes the channel, and then says so before anything else
(`TimelyCalls`, `Refuses`); that a call made after `close()` gets no answer, its
Deferred being behind that of `close()`; and that a connection waits for its
channel before it closes (`IdleInClosing`).  On the library's side a step either
spares the chain or adds one Deferred to its end (`Spares`, `Chains`), whatever the
handler and through whichever queue the frame goes; reading a frame takes at most
the head (`Understands`, `ChainShorter`); on the broker's side a step sends one
answer, or none (`AnswerAnswers`, `PlainAnswers`).  Then only reading settles a call
(`OnlyReadingSettles`), and what it settles is the head's (`ReadMatches`).
`AnswersInv` was model-checked with the bounds of `MCAmqpChannel` before it was proved.

The proofs assume only the named assumptions on the constants
(`PipelineAssumption`, `ConverterAssumption`, `BufferAssumption`, `LinkAssumption`,
`ChainAssumption`, `ChannelAssumption`, `OperationsAssumption`), which TLC evaluates in the runs.

Only model-checked:

- all liveness (`AllSettled`, `EveryJobEnds`, `EventuallyReady`,
  `MessagesComeThrough`, `EveryRequestResolved`), which needs fairness;
- `ServedInOrder`, the refinement of JobQueue: its queue is a selection from the
  converter's, and what a selection does to a sequence is a fact by induction;
- the frames (`FrameStream`): the readers and writers of tables are recursive;
- what the violated runs show.

## Not modelled

- Of the AMQP library: publisher confirms and the reliable wrapper
  (`confirmSelect` is a request like others, the deferreds of single messages are
  not there), returned messages (`basic.return`, `recall`), the allocation and
  exhaustion of channel ids, `onError` registered on a channel that has failed
  already, heartbeats beyond their frame, and the transports (libev, libuv,
  libboost, linux_tcp with TLS), which the program replaces by ConnectionHandler.
- `initProcessFromBuffer` runs once, when the listener's cache is empty; it swaps
  priority and tag and emits before anyone listens, but the loop has no turn.
- ConfigService, the plugins and the start: a fixed sequence before the event loop
  runs, without state of its own; what it leaves is the initial state of the
  models.  The toolkit: pure helpers on JSON and addresses.
- The converter scripts, build and deployment, logging, the wording of messages
  and their contents.
- A second consumer of one queue, and a broker that restarts and loses messages:
  queues are durable and messages persistent, so the code leaves this to the
  broker.

What would be next: publisher confirms in AmqpChannel.
