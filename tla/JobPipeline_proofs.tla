-------------------------- MODULE JobPipeline_proofs --------------------------
(***************************************************************************)
(* Safety of one pipeline stage for any number of messages, sessions and   *)
(* restarts, and that it implements AtLeastOnce.                           *)
(*                                                                         *)
(* None of the properties is inductive.  What makes them hold is where a   *)
(* message is while the program works on it (InHand), that its broker will *)
(* still deliver it again (HeldOutstanding), and that the frames on their  *)
(* way to a session settle exactly the delivery that is open there         *)
(* (FramesSettle).  From the converter only the outcomes of its events are *)
(* needed; they are those of Converter_proofs.                             *)
(***************************************************************************)
EXTENDS JobPipeline, SequenceTheorems, TLAPS

ConverterProofs == INSTANCE Converter_proofs

-----------------------------------------------------------------------------
(***************************************************************************)
(* The inductive invariant.                                                *)
(***************************************************************************)

\* Sessions are used in order, and the program holds on to the last one.
SessionsInOrder ==
    /\ open \subseteq 1 .. session
    /\ ready => alive /\ session >= 1
    /\ \A s \in Sessions : s \notin open => unacked[s] = NoDelivery
    /\ \A s \in Sessions : s > session => up[s] = <<>>

\* The frames that a live session still has to read are a whole answer to the
\* delivery that is open there: its ack, or a result and its ack.
FramesSettle ==
    \A s \in open :
        \/ up[s] = <<>>
        \/ /\ unacked[s] # NoDelivery
           /\ \/ up[s] = <<Ack(unacked[s].tag)>>
              \/ up[s] = <<Publish(unacked[s].msg), Ack(unacked[s].tag)>>

\* The broker waits for the answer to delivery d, if its session is alive.
Awaits(d) == session \in open => unacked[session] = d /\ up[session] = <<>>

\* The program has one message in hand: on its way, or in a live handle.
InHand ==
    /\ down # NoDelivery =>
        /\ ready /\ jobs = {}
        /\ down.tag # NoTag
        /\ Awaits(down)
    /\ \A m \in jobs :
        /\ jobs = {m}
        /\ ready /\ down = NoDelivery
        /\ jobsDeliveryTags[m] # NoTag
        /\ jobsDeliveryTags[m] \in cached
        /\ Awaits([tag |-> jobsDeliveryTags[m], msg |-> m])

\* Message m waits at the broker, in the queue or unanswered in a session.
StillOutstanding(m) ==
    \/ m \in srcQueue
    \/ \E s \in open : up[s] = <<>> /\ unacked[s] # NoDelivery /\ unacked[s].msg = m

\* The message in hand is one the broker has not forgotten, whichever session
\* it came from.
HeldOutstanding ==
    /\ down # NoDelivery => StillOutstanding(down.msg)
    /\ \A m \in jobs : StillOutstanding(m)

\* A queued job, alive or dead, keeps its tag, so its message is known.
QueuedKnown ==
    \A i \in 1 .. Len(received) : jobsDeliveryTags[received[i]] # NoTag

\* Without a crash of the python process an ack that is not preceded by a result
\* settles a message that is decided.
AckedDecidedIn(s) ==
    unacked[s] # NoDelivery /\ up[s] = <<Ack(unacked[s].tag)>> =>
        unacked[s].msg \in failed \/ results[unacked[s].msg] > 0

AckedDecided == \A s \in open : AckedDecidedIn(s)

Inv ==
    /\ TypeOK
    /\ SessionsInOrder
    /\ FramesSettle
    /\ InHand
    /\ HeldOutstanding
    /\ DistinctJobs
    /\ QueuedKnown

-----------------------------------------------------------------------------
(***************************************************************************)
(* Facts the steps need.                                                   *)
(***************************************************************************)

\* What an event of the converter does: a prefix of the queue goes, and the live
\* jobs that end are in it.
LEMMA ConverterStep ==
    ASSUME TypeOK, NEW o,
           \/ Converter!StartJob(o) \/ Converter!ProcessFinished(o)
           \/ Converter!ProcessFailedToStart(o) \/ Converter!ProcessCrashed(o)
    PROVE  /\ received' \in Seq(Messages)
           /\ startsPosted' \in Nat
           /\ process' \in {"NotRunning", "Running"}
           /\ jobEnv' \in Messages \cup {NoJob}
           /\ undefined' \in BOOLEAN
           /\ \A e \in o.ended : e.job \in jobs
           /\ \E k \in 0 .. Len(received) :
                /\ Len(received') = Len(received) - k
                /\ \A i \in 1 .. Len(received') : received'[i] = received[i + k]
                /\ \A e \in o.ended : \E i \in 1 .. k : received[i] = e.job
           /\ ~ConverterMayCrash => \A e \in o.ended : e.ending \in {"converted", "failed"}
  <1>1. ConverterProofs!ConverterAssumption
    BY PipelineAssumption DEF ConverterProofs!ConverterAssumption
  <1>2. received \in Seq(Messages) /\ jobs \subseteq Messages /\ startsPosted \in Nat
    BY DEF TypeOK, Converter!TypeOK
  <1>3. \/ ConverterProofs!StartJob(o) \/ ConverterProofs!ProcessFinished(o)
        \/ ConverterProofs!ProcessFailedToStart(o) \/ ConverterProofs!ProcessCrashed(o)
    <2>1. \A q, live : ConverterProofs!ServeOutcomes(q, live) = Converter!ServeOutcomes(q, live)
      BY DEF Converter!ServeOutcomes, ConverterProofs!ServeOutcomes, Converter!EndPrefix,
             ConverterProofs!EndPrefix, Converter!Finish, ConverterProofs!Finish
    <2>2. \A q, live : ConverterProofs!StartJobOutcomes(q, live)
                         = Converter!StartJobOutcomes(q, live)
      BY <2>1 DEF Converter!StartJobOutcomes, ConverterProofs!StartJobOutcomes,
                  Converter!Undefined, ConverterProofs!Undefined
    <2>3. \A q, live, ending : ConverterProofs!EndJobOutcomes(q, live, ending)
                                 = Converter!EndJobOutcomes(q, live, ending)
      BY <2>1 DEF Converter!EndJobOutcomes, ConverterProofs!EndJobOutcomes,
                  Converter!Undefined, ConverterProofs!Undefined,
                  Converter!Finish, ConverterProofs!Finish
    <2>4. \A q, live : ConverterProofs!CrashOutcomes(q, live) = Converter!CrashOutcomes(q, live)
      BY DEF Converter!CrashOutcomes, ConverterProofs!CrashOutcomes,
             Converter!JobsOf, ConverterProofs!JobsOf,
             Converter!EndJobOutcomes, ConverterProofs!EndJobOutcomes,
             Converter!Undefined, ConverterProofs!Undefined,
             Converter!ServeOutcomes, ConverterProofs!ServeOutcomes,
             Converter!EndPrefix, ConverterProofs!EndPrefix,
             Converter!Finish, ConverterProofs!Finish
    <2>5. ConverterProofs!Settle(o) <=> Converter!Settle(o)
      BY DEF ConverterProofs!Settle, Converter!Settle
    <2> QED
      BY <2>2, <2>3, <2>4, <2>5
         DEF Converter!StartJob, ConverterProofs!StartJob,
             Converter!ProcessFinished, ConverterProofs!ProcessFinished,
             Converter!ProcessFailedToStart, ConverterProofs!ProcessFailedToStart,
             Converter!ProcessCrashed, ConverterProofs!ProcessCrashed
  <1>4. /\ ConverterProofs!SoundOutcome(received, jobs, o)
        /\ ConverterProofs!Settle(o)
        /\ \/ UNCHANGED startsPosted
           \/ startsPosted > 0 /\ startsPosted' = startsPosted - 1
        /\ ~ConverterMayCrash => \A e \in o.ended : e.ending \in {"converted", "failed"}
    BY <1>1, <1>2, <1>3, ConverterProofs!EventSound
  <1>5. /\ received' = o.queue /\ received' \in Seq(Messages)
        /\ process' \in {"NotRunning", "Running"}
        /\ jobEnv' = IF received' = <<>> THEN NoJob ELSE Head(received')
        /\ undefined' = o.undef /\ o.undef \in BOOLEAN
    BY <1>4 DEF ConverterProofs!SoundOutcome, ConverterProofs!Settle
  <1>6. jobEnv' \in Messages \cup {NoJob}
    BY <1>5, HeadTailProperties
  <1>7. \A e \in o.ended : e.job \in ConverterProofs!JobsOf(o.ended)
    BY DEF ConverterProofs!JobsOf
  <1>8. \A e \in o.ended : e.job \in jobs
    BY <1>4, <1>7 DEF ConverterProofs!SoundOutcome
  <1>9. PICK k \in 0 .. Len(received) :
          /\ Len(o.queue) = Len(received) - k
          /\ \A i \in 1 .. Len(o.queue) : o.queue[i] = received[i + k]
          /\ \A m \in ConverterProofs!JobsOf(o.ended) : \E i \in 1 .. k : received[i] = m
    BY <1>4 DEF ConverterProofs!SoundOutcome
  <1>10. startsPosted' \in Nat
    BY <1>2, <1>4
  <1>11. undefined' \in BOOLEAN
    BY <1>5, Zenon
  <1> QED
    BY <1>4, <1>5, <1>6, <1>7, <1>8, <1>9, <1>10, <1>11

\* No delivery is the value that stands for none, and no frame is of both kinds.
LEMMA ValuesApart ==
    /\ \A d \in Delivery : d # NoDelivery
    /\ \A t \in Nat, m \in Messages :
          /\ Ack(t) \in AckFrame /\ Publish(m) \in PublishFrame
          /\ Ack(t).kind = "ack" /\ Publish(m).kind = "publish" /\ Publish(m).msg = m
          /\ Ack(t).tag = t
  BY PipelineAssumption DEF Delivery, Ack, AckFrame, Publish, PublishFrame

\* The last session is one of the program's, once the program is ready.
LEMMA SessionKnown ==
    ASSUME TypeOK, SessionsInOrder
    PROVE  /\ session \in Nat /\ MaxSessions \in Nat
           /\ open \subseteq Sessions
           /\ ready => session \in Sessions
  BY PipelineAssumption DEF TypeOK, SessionsInOrder, Sessions

\* The parts of the invariant about the converter's queue depend on no other
\* variables.
LEMMA QueueUnchanged ==
    ASSUME DistinctJobs, QueuedKnown, UNCHANGED <<received, jobsDeliveryTags>>
    PROVE  DistinctJobs' /\ QueuedKnown'
  BY DEF DistinctJobs, QueuedKnown

\* The program begins with nothing in hand, and the broker with every message.
LEMMA InitInv == Init => Inv
  <1> SUFFICES ASSUME Init PROVE Inv
    OBVIOUS
  <1>1. /\ jobs = {} /\ received = <<>> /\ down = NoDelivery /\ ready = FALSE
        /\ session = 0 /\ open = {}
        /\ unacked = [s \in Sessions |-> NoDelivery]
        /\ up = [s \in Sessions |-> <<>>]
    BY DEF Init, Converter!Init
  <1>2. TypeOK
    <2>1. Converter!TypeOK
      <3>1. undefined \in BOOLEAN
        BY Zenon DEF Init, Converter!Init
      <3> QED
        BY <1>1, <3>1 DEF Init, Converter!Init, Converter!TypeOK
    <2>2. alive \in BOOLEAN /\ ready \in BOOLEAN
      BY Zenon DEF Init
    <2> QED
      BY <2>1, <2>2, PipelineAssumption DEF Init, TypeOK, NoTag
  <1>3. ~ready
    BY <1>1, Zenon
  <1>4. SessionsInOrder /\ FramesSettle /\ InHand /\ HeldOutstanding
    BY <1>1, <1>3 DEF SessionsInOrder, FramesSettle, InHand, HeldOutstanding
  <1>5. DistinctJobs /\ QueuedKnown
    BY <1>1 DEF DistinctJobs, QueuedKnown
  <1> QED
    BY <1>2, <1>4, <1>5 DEF Inv

-----------------------------------------------------------------------------
(***************************************************************************)
(* The steps of the broker.                                                *)
(***************************************************************************)

\* A delivery takes a message from the queue to a session whose frames have all
\* been read.  It reaches the program if the program uses the session, and then
\* the program has nothing else in hand.
LEMMA DeliverInv ==
    ASSUME Inv, NEW s \in Sessions, NEW m \in Messages, Deliver(s, m)
    PROVE  Inv'
  <1> DEFINE d == [tag |-> lastTag[s] + 1, msg |-> m]
  <1>t. TypeOK /\ SessionsInOrder /\ FramesSettle /\ InHand /\ HeldOutstanding
    BY DEF Inv
  <1>1. /\ s \in open /\ unacked[s] = NoDelivery /\ m \in srcQueue
        /\ srcQueue' = srcQueue \ {m}
        /\ lastTag' = [lastTag EXCEPT ![s] = @ + 1]
        /\ unacked' = [unacked EXCEPT ![s] = d]
        /\ down' = IF InUse(s) THEN d ELSE down
        /\ UNCHANGED <<jobs, converterVars, programVars, open, results, up, failed, restarts>>
    BY DEF Deliver
  <1>2. /\ UNCHANGED <<jobs, received, startsPosted, process, jobEnv, undefined>>
        /\ UNCHANGED <<alive, ready, session, cached, jobsDeliveryTags>>
        /\ UNCHANGED <<open, results, up, failed, restarts>>
    BY <1>1 DEF converterVars, programVars
  <1>3. lastTag \in [Sessions -> Nat] /\ unacked \in [Sessions -> Delivery \cup {NoDelivery}]
    BY <1>t DEF TypeOK
  <1>4. d \in Delivery /\ d # NoDelivery /\ d.tag # NoTag /\ d.msg = m
    <2>1. lastTag[s] + 1 \in Nat /\ lastTag[s] + 1 # 0
      BY <1>3
    <2> QED
      BY <2>1, ValuesApart DEF Delivery, NoTag
  <1> HIDE DEF d
  <1>5. unacked'[s] = d /\ \A r \in Sessions \ {s} : unacked'[r] = unacked[r]
    BY <1>1, <1>3
  <1>6. up[s] = <<>>
    BY <1>1, <1>t DEF FramesSettle
  <1>7. TypeOK'
    <2>1. Converter!TypeOK'
      BY <1>2, <1>t DEF TypeOK, Converter!TypeOK
    <2>2. lastTag' \in [Sessions -> Nat] /\ unacked' \in [Sessions -> Delivery \cup {NoDelivery}]
      BY <1>1, <1>3, <1>4
    <2>3. down' \in Delivery \cup {NoDelivery}
      BY <1>1, <1>4, <1>t DEF TypeOK
    <2> QED
      BY <1>1, <1>2, <1>t, <2>1, <2>2, <2>3 DEF TypeOK
  <1>8. SessionsInOrder'
    BY <1>1, <1>2, <1>5, <1>t DEF SessionsInOrder
  <1>9. FramesSettle'
    BY <1>2, <1>5, <1>6, <1>t, SessionKnown DEF FramesSettle
  <1>10. InHand'
    <2>1. CASE InUse(s)
      <3>1. s = session /\ ready /\ down' = d
        BY <1>1, <2>1 DEF InUse
      <3>2. jobs = {}
        <4> SUFFICES ASSUME NEW j \in jobs PROVE FALSE
          OBVIOUS
        <4>1. jobsDeliveryTags[j] \in Nat /\ j \in Messages
          BY <1>t DEF TypeOK, Converter!TypeOK
        <4>2. unacked[session] = [tag |-> jobsDeliveryTags[j], msg |-> j]
          BY <1>1, <1>t, <3>1 DEF InHand, Awaits
        <4> QED
          BY <1>1, <3>1, <4>1, <4>2, ValuesApart DEF Delivery
      <3>3. Awaits(down)'
        BY <1>2, <1>5, <1>6, <3>1 DEF Awaits
      <3> QED
        BY <1>2, <1>4, <3>1, <3>2, <3>3 DEF InHand
    <2>2. CASE ~InUse(s)
      <3>1. down' = down
        BY <1>1, <2>2
      <3>2. ready => session \in Sessions \ {s}
        BY <1>t, <2>2, SessionKnown DEF InUse, SessionsInOrder
      <3>3. ASSUME NEW e, ready, Awaits(e) PROVE Awaits(e)'
        BY <1>2, <1>5, <3>2, <3>3 DEF Awaits
      <3>4. ready /\ down # NoDelivery /\ Awaits(down) => Awaits(down)'
        BY <1>2, <1>5, <3>1, <3>2 DEF Awaits
      <3> QED
        BY <1>2, <1>t, <3>1, <3>3, <3>4 DEF InHand
    <2> QED
      BY <2>1, <2>2
  <1>11. HeldOutstanding'
    <2>1. ASSUME NEW x, StillOutstanding(x) PROVE StillOutstanding(x)'
      <3>1. CASE x = m
        BY <1>1, <1>2, <1>4, <1>5, <1>6, <3>1 DEF StillOutstanding
      <3>2. CASE x # m /\ x \in srcQueue
        BY <1>1, <3>2 DEF StillOutstanding
      <3>3. CASE \E r \in open : up[r] = <<>> /\ unacked[r] # NoDelivery /\ unacked[r].msg = x
        <4>1. PICK r \in open : up[r] = <<>> /\ unacked[r] # NoDelivery /\ unacked[r].msg = x
          BY <3>3
        <4>2. unacked'[r] = unacked[r] /\ up'[r] = up[r] /\ r \in open'
          BY <1>1, <1>2, <1>5, <1>t, <4>1, SessionKnown
        <4> QED
          BY <4>1, <4>2 DEF StillOutstanding
      <3> QED
        BY <2>1, <3>1, <3>2, <3>3 DEF StillOutstanding
    <2>2. StillOutstanding(m)'
      BY <1>1, <1>2, <1>4, <1>5, <1>6 DEF StillOutstanding
    <2>3. down' # NoDelivery => StillOutstanding(down.msg)'
      <3>1. CASE InUse(s)
        BY <1>1, <1>4, <2>2, <3>1 DEF StillOutstanding
      <3>2. CASE ~InUse(s)
        <4>1. down' = down
          BY <1>1, <3>2
        <4>2. down # NoDelivery => StillOutstanding(down.msg)
          BY <1>t DEF HeldOutstanding
        <4> QED
          BY <2>1, <4>1, <4>2 DEF StillOutstanding
      <3> QED
        BY <3>1, <3>2
    <2> QED
      BY <1>2, <2>1, <2>3, <1>t DEF HeldOutstanding
  <1>12. DistinctJobs' /\ QueuedKnown'
    BY <1>2, QueueUnchanged DEF Inv
  <1> QED
    BY <1>7, <1>8, <1>9, <1>10, <1>11, <1>12 DEF Inv

\* Reading a frame disturbs no other session, and the message in hand is not in
\* the session whose frame is read.
LEMMA ReadKeepsInHand ==
    ASSUME Inv, NEW s \in open, up[s] # <<>>,
           \A r \in open \ {s} : up'[r] = up[r] /\ unacked'[r] = unacked[r],
           UNCHANGED <<jobs, ready, down, jobsDeliveryTags, cached, session, open, srcQueue>>
    PROVE  InHand' /\ HeldOutstanding'
  <1>1. ASSUME NEW e, Awaits(e) PROVE Awaits(e)'
    BY <1>1 DEF Awaits
  <1>2. down # NoDelivery /\ Awaits(down) => Awaits(down)'
    BY DEF Awaits
  <1>3. ASSUME NEW x, StillOutstanding(x) PROVE StillOutstanding(x)'
    BY <1>3 DEF StillOutstanding
  <1>4. StillOutstanding(down.msg) => StillOutstanding(down.msg)'
    BY DEF StillOutstanding
  <1>5. InHand'
    BY <1>1, <1>2 DEF Inv, InHand
  <1>6. HeldOutstanding'
    BY <1>3, <1>4 DEF Inv, HeldOutstanding
  <1> QED
    BY <1>5, <1>6

\* The frames of a live session that has some, one by one.
LEMMA FramesOfAnswer ==
    ASSUME Inv, NEW s \in open, up[s] # <<>>
    PROVE  /\ s \in Sessions /\ unacked[s] \in Delivery
           /\ \/ /\ Head(up[s]).kind = "ack"
                 /\ up[s] = <<Ack(unacked[s].tag)>>
                 /\ Tail(up[s]) = <<>>
              \/ /\ Head(up[s]) = Publish(unacked[s].msg)
                 /\ Head(up[s]).kind = "publish"
                 /\ up[s] = <<Publish(unacked[s].msg), Ack(unacked[s].tag)>>
                 /\ Tail(up[s]) = <<Ack(unacked[s].tag)>>
  <1>1. s \in Sessions
    BY SessionKnown DEF Inv
  <1>2. unacked[s] \in Delivery
    BY <1>1 DEF Inv, FramesSettle, TypeOK
  <1>3. unacked[s].tag \in Nat /\ unacked[s].msg \in Messages
    BY <1>2 DEF Delivery
  <1> DEFINE ack == Ack(unacked[s].tag)
             publish == Publish(unacked[s].msg)
  <1>4. ack.kind = "ack" /\ publish.kind = "publish"
    BY <1>3, ValuesApart
  <1>5. up[s] = <<ack>> \/ up[s] = <<publish, ack>>
    BY DEF Inv, FramesSettle
  <1> HIDE DEF ack, publish
  <1>6. /\ Head(<<ack>>) = ack /\ Tail(<<ack>>) = <<>>
        /\ Head(<<publish, ack>>) = publish /\ Tail(<<publish, ack>>) = <<ack>>
    OBVIOUS
  <1>7. \/ Head(up[s]).kind = "ack" /\ up[s] = <<ack>> /\ Tail(up[s]) = <<>>
        \/ /\ Head(up[s]) = publish /\ Head(up[s]).kind = "publish"
           /\ up[s] = <<publish, ack>> /\ Tail(up[s]) = <<ack>>
    BY <1>4, <1>5, <1>6
  <1> QED
    BY <1>1, <1>2, <1>7 DEF ack, publish

\* A result is read before the ack that follows it.
LEMMA ReceivePublishInv ==
    ASSUME Inv, NEW s \in Sessions, ReceivePublish(s)
    PROVE  Inv'
  <1>t. TypeOK /\ SessionsInOrder /\ FramesSettle
    BY DEF Inv
  <1>1. /\ s \in open /\ up[s] # <<>> /\ Head(up[s]).kind = "publish"
        /\ results' = [results EXCEPT ![Head(up[s]).msg] = @ + 1]
        /\ up' = [up EXCEPT ![s] = Tail(@)]
        /\ UNCHANGED <<jobs, received, startsPosted, process, jobEnv, undefined>>
        /\ UNCHANGED <<alive, ready, session, cached, jobsDeliveryTags>>
        /\ UNCHANGED <<srcQueue, open, unacked, lastTag, down, failed, restarts>>
    BY DEF ReceivePublish, converterVars, programVars
  <1>2. /\ unacked[s] \in Delivery
        /\ Head(up[s]) = Publish(unacked[s].msg)
        /\ Tail(up[s]) = <<Ack(unacked[s].tag)>>
    BY <1>1, FramesOfAnswer, ValuesApart
  <1>3. unacked[s].msg \in Messages /\ unacked[s].tag \in Nat
    BY <1>2 DEF Delivery
  <1>4. up \in [Sessions -> Seq(PublishFrame \cup AckFrame)]
    BY <1>t DEF TypeOK
  <1>5. up'[s] = <<Ack(unacked[s].tag)>> /\ \A r \in Sessions \ {s} : up'[r] = up[r]
    BY <1>1, <1>2, <1>4
  <1>6. TypeOK'
    <2>1. Converter!TypeOK'
      BY <1>1, <1>t DEF TypeOK, Converter!TypeOK
    <2>2. results' \in [Messages -> Nat]
      BY <1>1, <1>2, <1>3, <1>t, ValuesApart DEF TypeOK
    <2>3. up' \in [Sessions -> Seq(PublishFrame \cup AckFrame)]
      <3>1. <<Ack(unacked[s].tag)>> \in Seq(PublishFrame \cup AckFrame)
        BY <1>3, ValuesApart
      <3> QED
        BY <1>1, <1>2, <1>4, <3>1
    <2> QED
      BY <1>1, <1>t, <2>1, <2>2, <2>3 DEF TypeOK
  <1>7. SessionsInOrder'
    BY <1>1, <1>5, <1>t DEF SessionsInOrder, Sessions
  <1>8. FramesSettle'
    BY <1>1, <1>2, <1>5, <1>t, SessionKnown, ValuesApart DEF FramesSettle
  <1>9. InHand' /\ HeldOutstanding'
    BY <1>1, <1>5, <1>t, SessionKnown, ReadKeepsInHand
  <1>10. DistinctJobs' /\ QueuedKnown'
    BY <1>1, QueueUnchanged DEF Inv
  <1> QED
    BY <1>6, <1>7, <1>8, <1>9, <1>10 DEF Inv

\* An ack settles the delivery of its session.
LEMMA ReceiveAckInv ==
    ASSUME Inv, NEW s \in Sessions, ReceiveAck(s)
    PROVE  Inv'
  <1>t. TypeOK /\ SessionsInOrder /\ FramesSettle
    BY DEF Inv
  <1>1. /\ s \in open /\ up[s] # <<>> /\ Head(up[s]).kind = "ack"
        /\ unacked' = [unacked EXCEPT ![s] = NoDelivery]
        /\ up' = [up EXCEPT ![s] = Tail(@)]
        /\ UNCHANGED <<jobs, received, startsPosted, process, jobEnv, undefined>>
        /\ UNCHANGED <<alive, ready, session, cached, jobsDeliveryTags>>
        /\ UNCHANGED <<srcQueue, open, results, lastTag, down, failed, restarts>>
    BY DEF ReceiveAck, converterVars, programVars
  <1>2. Tail(up[s]) = <<>>
    BY <1>1, FramesOfAnswer
  <1>4. /\ up \in [Sessions -> Seq(PublishFrame \cup AckFrame)]
        /\ unacked \in [Sessions -> Delivery \cup {NoDelivery}]
    BY <1>t DEF TypeOK
  <1>5. /\ up'[s] = <<>> /\ unacked'[s] = NoDelivery
        /\ \A r \in Sessions \ {s} : up'[r] = up[r] /\ unacked'[r] = unacked[r]
    BY <1>1, <1>2, <1>4
  <1>6. TypeOK'
    <2>1. Converter!TypeOK'
      BY <1>1, <1>t DEF TypeOK, Converter!TypeOK
    <2>2. unacked' \in [Sessions -> Delivery \cup {NoDelivery}]
      BY <1>1, <1>4
    <2>3. up' \in [Sessions -> Seq(PublishFrame \cup AckFrame)]
      BY <1>1, <1>2, <1>4
    <2> QED
      BY <1>1, <1>t, <2>1, <2>2, <2>3 DEF TypeOK
  <1>7. SessionsInOrder'
    BY <1>1, <1>5, <1>t DEF SessionsInOrder, Sessions
  <1>8. FramesSettle'
    BY <1>1, <1>5, <1>t, SessionKnown DEF FramesSettle
  <1>9. InHand' /\ HeldOutstanding'
    BY <1>1, <1>5, <1>t, SessionKnown, ReadKeepsInHand
  <1>10. DistinctJobs' /\ QueuedKnown'
    BY <1>1, QueueUnchanged DEF Inv
  <1> QED
    BY <1>6, <1>7, <1>8, <1>9, <1>10 DEF Inv

\* A session the broker gives up returns its delivery to the queue: what the
\* program has in hand is outstanding there, and nobody waits for its answer.
LEMMA CloseSessionInv ==
    ASSUME Inv, NEW s \in Sessions, CloseSession(s)
    PROVE  Inv'
  <1>t. TypeOK /\ SessionsInOrder /\ FramesSettle /\ InHand /\ HeldOutstanding
    BY DEF Inv
  <1>1. /\ s \in open
        /\ open' = open \ {s}
        /\ srcQueue' = IF unacked[s] = NoDelivery THEN srcQueue
                       ELSE srcQueue \cup {unacked[s].msg}
        /\ unacked' = [unacked EXCEPT ![s] = NoDelivery]
        /\ up' = [up EXCEPT ![s] = <<>>]
        /\ UNCHANGED <<jobs, received, startsPosted, process, jobEnv, undefined>>
        /\ UNCHANGED <<alive, ready, session, cached, jobsDeliveryTags>>
        /\ UNCHANGED <<results, lastTag, down, failed, restarts>>
    BY DEF CloseSession, converterVars, programVars
  <1>2. /\ up \in [Sessions -> Seq(PublishFrame \cup AckFrame)]
        /\ unacked \in [Sessions -> Delivery \cup {NoDelivery}]
    BY <1>t DEF TypeOK
  <1>3. /\ up'[s] = <<>> /\ unacked'[s] = NoDelivery
        /\ \A r \in Sessions \ {s} : up'[r] = up[r] /\ unacked'[r] = unacked[r]
    BY <1>1, <1>2
  <1>4. TypeOK'
    <2>1. Converter!TypeOK'
      BY <1>1, <1>t DEF TypeOK, Converter!TypeOK
    <2>2. srcQueue' \subseteq Messages
      BY <1>1, <1>2, <1>t DEF TypeOK, Delivery
    <2>3. /\ unacked' \in [Sessions -> Delivery \cup {NoDelivery}]
          /\ up' \in [Sessions -> Seq(PublishFrame \cup AckFrame)]
      BY <1>1, <1>2
    <2> QED
      BY <1>1, <1>t, <2>1, <2>2, <2>3 DEF TypeOK
  <1>5. SessionsInOrder'
    BY <1>1, <1>3, <1>t DEF SessionsInOrder, Sessions
  <1>6. FramesSettle'
    BY <1>1, <1>3, <1>t, SessionKnown DEF FramesSettle
  <1>7. InHand'
    <2>1. ASSUME NEW e, Awaits(e) PROVE Awaits(e)'
      BY <1>1, <1>3, <1>t, <2>1, SessionKnown DEF Awaits
    <2>2. Awaits(down) => Awaits(down)'
      BY <1>1, <1>3, <1>t, SessionKnown DEF Awaits
    <2> QED
      BY <1>1, <1>t, <2>1, <2>2 DEF InHand
  <1>8. HeldOutstanding'
    <2>1. ASSUME NEW x, StillOutstanding(x) PROVE StillOutstanding(x)'
      <3>1. CASE x \in srcQueue
        BY <1>1, <3>1 DEF StillOutstanding
      <3>2. CASE x \notin srcQueue
        <4>1. PICK r \in open : up[r] = <<>> /\ unacked[r] # NoDelivery /\ unacked[r].msg = x
          BY <2>1, <3>2 DEF StillOutstanding
        <4>2. CASE r = s
          BY <1>1, <4>1, <4>2 DEF StillOutstanding
        <4>3. CASE r # s
          BY <1>1, <1>3, <1>t, <4>1, <4>3, SessionKnown DEF StillOutstanding
        <4> QED
          BY <4>2, <4>3
      <3> QED
        BY <3>1, <3>2
    <2>2. down # NoDelivery => StillOutstanding(down.msg)'
      <3>1. ASSUME NEW x, x = down.msg, down # NoDelivery PROVE StillOutstanding(x)'
        BY <1>t, <2>1, <3>1 DEF HeldOutstanding
      <3> QED
        BY <1>1, <3>1 DEF StillOutstanding
    <2> QED
      BY <1>1, <1>t, <2>1, <2>2 DEF HeldOutstanding
  <1>9. DistinctJobs' /\ QueuedKnown'
    BY <1>1, QueueUnchanged DEF Inv
  <1> QED
    BY <1>4, <1>5, <1>6, <1>7, <1>8, <1>9 DEF Inv

-----------------------------------------------------------------------------
(***************************************************************************)
(* The steps of the program.                                               *)
(***************************************************************************)

\* A new session has no delivery and no frames, and the program nothing in hand.
LEMMA ConnectInv ==
    ASSUME Inv, Connect
    PROVE  Inv'
  <1>t. TypeOK /\ SessionsInOrder /\ FramesSettle /\ InHand
    BY DEF Inv
  <1>1. /\ ~ready /\ session < MaxSessions
        /\ session' = session + 1 /\ ready' = TRUE
        /\ open' = open \cup {session + 1}
        /\ UNCHANGED <<jobs, received, startsPosted, process, jobEnv, undefined>>
        /\ UNCHANGED <<alive, cached, jobsDeliveryTags>>
        /\ UNCHANGED <<srcQueue, unacked, lastTag, results, down, up, failed, restarts>>
    BY DEF Connect, converterVars
  <1>2. alive
    BY DEF Connect, Running
  <1>3. session + 1 \in Sessions /\ session + 1 \notin open /\ session + 1 > session
    BY <1>1, <1>t, PipelineAssumption DEF TypeOK, SessionsInOrder, Sessions
  <1>4. jobs = {} /\ down = NoDelivery
    BY <1>1, <1>t DEF InHand
  <1>5. unacked[session + 1] = NoDelivery /\ up[session + 1] = <<>>
    BY <1>3, <1>t DEF SessionsInOrder
  <1>6. TypeOK'
    <2>1. Converter!TypeOK'
      BY <1>1, <1>t DEF TypeOK, Converter!TypeOK
    <2>2. session' \in 0 .. MaxSessions /\ open' \subseteq Sessions
      BY <1>1, <1>3, <1>t, PipelineAssumption DEF TypeOK
    <2>3. ready' \in BOOLEAN
      BY <1>1
    <2> QED
      BY <1>1, <1>t, <2>1, <2>2, <2>3 DEF TypeOK
  <1>7. SessionsInOrder'
    <2>1. session \in Nat /\ session' = session + 1
      BY <1>1, <1>t, SessionKnown
    <2>2. open' \subseteq 1 .. session'
      BY <1>1, <2>1, <1>t DEF SessionsInOrder
    <2>3. alive' /\ session' >= 1
      BY <1>1, <1>2, <2>1
    <2>4. \A s \in Sessions : s \notin open' => unacked'[s] = NoDelivery
      BY <1>1, <1>t DEF SessionsInOrder
    <2>5. \A s \in Sessions : s > session' => up'[s] = <<>>
      BY <1>1, <2>1, <1>t DEF SessionsInOrder, Sessions
    <2> QED
      BY <2>2, <2>3, <2>4, <2>5 DEF SessionsInOrder, Sessions
  <1>8. FramesSettle'
    BY <1>1, <1>5, <1>t DEF FramesSettle
  <1>9. InHand' /\ HeldOutstanding'
    BY <1>1, <1>4 DEF InHand, HeldOutstanding
  <1>10. DistinctJobs' /\ QueuedKnown'
    BY <1>1, QueueUnchanged DEF Inv
  <1> QED
    BY <1>6, <1>7, <1>8, <1>9, <1>10 DEF Inv

\* What was in hand is dropped; the tags stay, so queued jobs remain known.
LEMMA LoseConnectionInv ==
    ASSUME Inv, LoseConnection
    PROVE  Inv'
  <1>t. TypeOK /\ SessionsInOrder /\ FramesSettle
    BY DEF Inv
  <1>1. /\ ready' = FALSE /\ cached' = {} /\ down' = NoDelivery /\ jobs' = {}
        /\ UNCHANGED <<received, startsPosted, process, jobEnv, undefined>>
        /\ UNCHANGED <<alive, session, jobsDeliveryTags>>
        /\ UNCHANGED <<srcQueue, open, unacked, lastTag, results, up, failed, restarts>>
    BY DEF LoseConnection, AbortAllJobs, converterVars, brokerVars
  <1>2. ~ready' /\ ready' \in BOOLEAN
    BY <1>1, Zenon
  <1>3. TypeOK'
    <2>1. Converter!TypeOK'
      BY <1>1, <1>t DEF TypeOK, Converter!TypeOK
    <2> QED
      BY <1>1, <1>2, <1>t, <2>1 DEF TypeOK, Sessions
  <1>4. SessionsInOrder'
    BY <1>1, <1>2, <1>t DEF SessionsInOrder, Sessions
  <1>5. FramesSettle'
    BY <1>1, <1>t DEF FramesSettle
  <1>6. InHand' /\ HeldOutstanding'
    BY <1>1 DEF InHand, HeldOutstanding
  <1>7. DistinctJobs' /\ QueuedKnown'
    BY <1>1, QueueUnchanged DEF Inv
  <1> QED
    BY <1>3, <1>4, <1>5, <1>6, <1>7 DEF Inv

\* Everything of the program is gone, the frames it has sent are still read.
LEMMA CrashInv ==
    ASSUME Inv, Crash
    PROVE  Inv'
  <1>t. TypeOK /\ SessionsInOrder /\ FramesSettle
    BY DEF Inv
  <1>1. /\ alive' = FALSE /\ ready' = FALSE /\ cached' = {} /\ down' = NoDelivery /\ jobs' = {}
        /\ jobsDeliveryTags' = [m \in Messages |-> NoTag]
        /\ received' = <<>> /\ startsPosted' = 0 /\ process' = "NotRunning"
        /\ jobEnv' = NoJob /\ undefined' = FALSE
        /\ UNCHANGED <<session, srcQueue, open, unacked, lastTag, results, up, failed, restarts>>
    BY DEF Crash, brokerVars
  <1>2. ~ready' /\ ready' \in BOOLEAN /\ alive' \in BOOLEAN /\ undefined' \in BOOLEAN
    BY <1>1, Zenon
  <1>3. TypeOK'
    <2>1. Converter!TypeOK'
      BY <1>1, <1>2 DEF Converter!TypeOK
    <2> QED
      BY <1>1, <1>2, <1>t, <2>1 DEF TypeOK, Sessions, NoTag
  <1>4. SessionsInOrder'
    BY <1>1, <1>2, <1>t DEF SessionsInOrder, Sessions
  <1>5. FramesSettle'
    BY <1>1, <1>t DEF FramesSettle
  <1>6. InHand' /\ HeldOutstanding'
    BY <1>1 DEF InHand, HeldOutstanding
  <1>7. DistinctJobs' /\ QueuedKnown'
    BY <1>1 DEF DistinctJobs, QueuedKnown
  <1> QED
    BY <1>3, <1>4, <1>5, <1>6, <1>7 DEF Inv

\* Nothing is ready while the program does not run.
LEMMA RestartInv ==
    ASSUME Inv, Restart
    PROVE  Inv'
  <1>t. TypeOK /\ SessionsInOrder /\ FramesSettle /\ InHand
    BY DEF Inv
  <1>1. /\ ~alive /\ alive' = TRUE
        /\ restarts < MaxRestarts /\ restarts' = restarts + 1
        /\ UNCHANGED <<jobs, received, startsPosted, process, jobEnv, undefined>>
        /\ UNCHANGED <<ready, session, cached, jobsDeliveryTags>>
        /\ UNCHANGED <<srcQueue, open, unacked, lastTag, results, down, up, failed>>
    BY DEF Restart, converterVars, brokerVars
  <1>2. ~ready /\ alive' /\ alive' \in BOOLEAN
    BY <1>1, <1>t, Zenon DEF SessionsInOrder
  <1>3. TypeOK'
    <2>1. Converter!TypeOK'
      BY <1>1, <1>t DEF TypeOK, Converter!TypeOK
    <2>2. restarts' \in 0 .. MaxRestarts
      BY <1>1, <1>t, PipelineAssumption DEF TypeOK
    <2> QED
      BY <1>1, <1>2, <1>t, <2>1, <2>2 DEF TypeOK, Sessions
  <1>4. SessionsInOrder'
    BY <1>1, <1>2, <1>t DEF SessionsInOrder, Sessions
  <1>5. FramesSettle'
    BY <1>1, <1>t DEF FramesSettle
  <1>6. jobs = {} /\ down = NoDelivery
    BY <1>2, <1>t DEF InHand
  <1>7. InHand' /\ HeldOutstanding'
    BY <1>1, <1>6 DEF InHand, HeldOutstanding
  <1>8. DistinctJobs' /\ QueuedKnown'
    BY <1>1, QueueUnchanged DEF Inv
  <1> QED
    BY <1>3, <1>4, <1>5, <1>7, <1>8 DEF Inv

\* Frames that the program sends to its session answer the delivery that is
\* open there, if the session is alive.
LEMMA SendAnswer ==
    ASSUME TypeOK, SessionsInOrder, FramesSettle,
           NEW d \in Delivery, ready, Awaits(d),
           NEW frames \in {<<Ack(d.tag)>>, <<Publish(d.msg), Ack(d.tag)>>},
           Send(frames), UNCHANGED <<session, open, unacked>>
    PROVE  /\ up' \in [Sessions -> Seq(PublishFrame \cup AckFrame)]
           /\ \A s \in Sessions \ {session} : up'[s] = up[s]
           /\ session \in open => unacked[session] = d /\ up'[session] = frames
           /\ FramesSettle'
  <1>1. session \in Sessions /\ open \subseteq Sessions
    BY SessionKnown
  <1>2. up \in [Sessions -> Seq(PublishFrame \cup AckFrame)]
    BY DEF TypeOK
  <1>3. frames \in Seq(PublishFrame \cup AckFrame)
    <2>1. d.tag \in Nat /\ d.msg \in Messages
      BY DEF Delivery
    <2>2. Ack(d.tag) \in AckFrame /\ Publish(d.msg) \in PublishFrame
      BY <2>1, ValuesApart
    <2>3. \A a, b \in PublishFrame \cup AckFrame :
            /\ <<a>> \in Seq(PublishFrame \cup AckFrame)
            /\ <<a, b>> \in Seq(PublishFrame \cup AckFrame)
      OBVIOUS
    <2> QED
      BY <2>2, <2>3
  <1>4. /\ up[session] \o frames \in Seq(PublishFrame \cup AckFrame)
        /\ up[session] = <<>> => up[session] \o frames = frames
    BY <1>1, <1>2, <1>3
  <1>5. up' = [up EXCEPT ![session] = up[session] \o frames]
    BY DEF Send
  <1>6. /\ up' \in [Sessions -> Seq(PublishFrame \cup AckFrame)]
        /\ up'[session] = up[session] \o frames
        /\ \A s \in Sessions \ {session} : up'[s] = up[s]
    BY <1>1, <1>2, <1>4, <1>5
  <1>7. session \in open => unacked[session] = d /\ up'[session] = frames
    BY <1>4, <1>6 DEF Awaits
  <1>8. d # NoDelivery
    BY ValuesApart
  <1>9. FramesSettle'
    <2> SUFFICES ASSUME NEW s \in open
                 PROVE  \/ up'[s] = <<>>
                        \/ /\ unacked[s] # NoDelivery
                           /\ \/ up'[s] = <<Ack(unacked[s].tag)>>
                              \/ up'[s] = <<Publish(unacked[s].msg), Ack(unacked[s].tag)>>
      BY DEF FramesSettle
    <2>1. CASE s = session
      BY <1>7, <1>8, <2>1
    <2>2. CASE s # session
      BY <1>1, <1>6, <2>2 DEF FramesSettle
    <2> QED
      BY <2>1, <2>2
  <1> QED
    BY <1>6, <1>7, <1>9

\* An invalid message is refused with its ack alone.
LEMMA HandleInvalidMessageInv ==
    ASSUME Inv, HandleInvalidMessage
    PROVE  Inv'
  <1>t. TypeOK /\ SessionsInOrder /\ FramesSettle /\ InHand
    BY DEF Inv
  <1>1. /\ ready /\ down # NoDelivery
        /\ Send(<<Ack(down.tag)>>)
        /\ failed' = failed \cup {down.msg}
        /\ down' = NoDelivery
        /\ UNCHANGED <<jobs, received, startsPosted, process, jobEnv, undefined>>
        /\ UNCHANGED <<alive, ready, session, cached, jobsDeliveryTags>>
        /\ UNCHANGED <<srcQueue, open, unacked, lastTag, results, restarts>>
    BY DEF HandleInvalidMessage, converterVars, programVars, brokerVars
  <1>2. down \in Delivery /\ down.msg \in Messages /\ Awaits(down) /\ jobs = {}
    BY <1>1, <1>t DEF TypeOK, InHand, Delivery
  <1>3. /\ up' \in [Sessions -> Seq(PublishFrame \cup AckFrame)]
        /\ \A s \in Sessions \ {session} : up'[s] = up[s]
        /\ FramesSettle'
    BY <1>1, <1>2, <1>t, SendAnswer
  <1>4. TypeOK'
    <2>1. Converter!TypeOK'
      BY <1>1, <1>t DEF TypeOK, Converter!TypeOK
    <2> QED
      BY <1>1, <1>2, <1>3, <1>t, <2>1 DEF TypeOK, Sessions
  <1>5. SessionsInOrder'
    BY <1>1, <1>3, <1>t, SessionKnown DEF SessionsInOrder, Sessions
  <1>6. InHand' /\ HeldOutstanding'
    BY <1>1, <1>2 DEF InHand, HeldOutstanding
  <1>7. DistinctJobs' /\ QueuedKnown'
    BY <1>1, QueueUnchanged DEF Inv
  <1> QED
    BY <1>3, <1>4, <1>5, <1>6, <1>7 DEF Inv

\* A message that is known only replaces its tag.
LEMMA HandleKnownMessageInv ==
    ASSUME Inv, HandleKnownMessage
    PROVE  Inv'
  <1>t. TypeOK /\ SessionsInOrder /\ FramesSettle /\ InHand
    BY DEF Inv
  <1>1. /\ down # NoDelivery
        /\ jobsDeliveryTags' = [jobsDeliveryTags EXCEPT ![down.msg] = down.tag]
        /\ cached' = cached \cup {down.tag}
        /\ down' = NoDelivery
        /\ UNCHANGED <<jobs, received, startsPosted, process, jobEnv, undefined>>
        /\ UNCHANGED <<alive, ready, session>>
        /\ UNCHANGED <<srcQueue, open, unacked, lastTag, results, up, failed, restarts>>
    BY DEF HandleKnownMessage, converterVars, brokerVars
  <1>2. /\ down.msg \in Messages /\ down.tag \in Nat
        /\ down.tag # NoTag /\ jobs = {}
    BY <1>1, <1>t DEF TypeOK, InHand, Delivery
  <1>3. TypeOK'
    <2>1. Converter!TypeOK'
      BY <1>1, <1>t DEF TypeOK, Converter!TypeOK
    <2>2. jobsDeliveryTags' \in [Messages -> Nat] /\ cached' \subseteq Nat
      BY <1>1, <1>2, <1>t DEF TypeOK
    <2> QED
      BY <1>1, <1>t, <2>1, <2>2 DEF TypeOK, Sessions
  <1>4. SessionsInOrder'
    BY <1>1, <1>t DEF SessionsInOrder, Sessions
  <1>5. FramesSettle'
    BY <1>1, <1>t DEF FramesSettle
  <1>6. InHand' /\ HeldOutstanding'
    BY <1>1, <1>2 DEF InHand, HeldOutstanding
  <1>7. DistinctJobs'
    BY <1>1 DEF Inv, DistinctJobs
  <1>8. QueuedKnown'
    <2>1. \A m \in Messages : jobsDeliveryTags[m] # NoTag => jobsDeliveryTags'[m] # NoTag
      BY <1>1, <1>2, <1>t DEF TypeOK
    <2>2. \A i \in 1 .. Len(received) : received[i] \in Messages
      BY <1>t, ElementOfSeq DEF TypeOK, Converter!TypeOK
    <2> QED
      BY <1>1, <2>1, <2>2 DEF Inv, QueuedKnown
  <1> QED
    BY <1>3, <1>4, <1>5, <1>6, <1>7, <1>8 DEF Inv

\* A new job is not in the queue yet: a queued one, dead or alive, has a tag.
LEMMA HandleNewMessageInv ==
    ASSUME Inv, HandleNewMessage
    PROVE  Inv'
  <1>t. TypeOK /\ SessionsInOrder /\ FramesSettle /\ InHand /\ HeldOutstanding
    BY DEF Inv
  <1>1. /\ ready /\ down # NoDelivery
        /\ jobsDeliveryTags[down.msg] = NoTag
        /\ received' = Append(received, down.msg)
        /\ startsPosted' = IF Len(received') = 1 THEN startsPosted + 1 ELSE startsPosted
        /\ jobs' = jobs \cup {down.msg}
        /\ jobsDeliveryTags' = [jobsDeliveryTags EXCEPT ![down.msg] = down.tag]
        /\ cached' = cached \cup {down.tag}
        /\ down' = NoDelivery
        /\ UNCHANGED <<process, jobEnv, undefined, alive, ready, session>>
        /\ UNCHANGED <<srcQueue, open, unacked, lastTag, results, up, failed, restarts>>
    BY DEF HandleNewMessage, Converter!ProcessJobMessage, brokerVars
  <1>2. /\ down \in Delivery /\ down.msg \in Messages /\ down.tag \in Nat
        /\ down = [tag |-> down.tag, msg |-> down.msg]
        /\ down.tag # NoTag /\ jobs = {} /\ Awaits(down)
    BY <1>1, <1>t DEF TypeOK, InHand, Delivery
  <1>3. /\ received \in Seq(Messages) /\ Len(received) \in Nat
        /\ received' \in Seq(Messages) /\ Len(received') = Len(received) + 1
        /\ \A i \in 1 .. Len(received) : received'[i] = received[i] /\ received[i] \in Messages
        /\ received'[Len(received) + 1] = down.msg
    BY <1>1, <1>2, <1>t, ElementOfSeq DEF TypeOK, Converter!TypeOK
  <1>4. /\ jobsDeliveryTags' \in [Messages -> Nat]
        /\ jobsDeliveryTags'[down.msg] = down.tag
        /\ \A m \in Messages \ {down.msg} : jobsDeliveryTags'[m] = jobsDeliveryTags[m]
    BY <1>1, <1>2, <1>t DEF TypeOK
  <1>5. TypeOK'
    <2>1. Converter!TypeOK'
      BY <1>1, <1>2, <1>3, <1>t DEF TypeOK, Converter!TypeOK
    <2>2. cached' \subseteq Nat
      BY <1>1, <1>2, <1>t DEF TypeOK
    <2> QED
      BY <1>1, <1>4, <1>t, <2>1, <2>2 DEF TypeOK, Sessions
  <1>6. SessionsInOrder'
    BY <1>1, <1>t DEF SessionsInOrder, Sessions
  <1>7. FramesSettle'
    BY <1>1, <1>t DEF FramesSettle
  <1>8. InHand'
    BY <1>1, <1>2, <1>4 DEF InHand, Awaits
  <1>9. HeldOutstanding'
    BY <1>1, <1>2, <1>t DEF HeldOutstanding, StillOutstanding
  <1>10. \A i \in 1 .. Len(received) : received[i] # down.msg
    BY <1>1 DEF Inv, QueuedKnown
  <1>11. DistinctJobs'
    <2> SUFFICES ASSUME NEW i \in 1 .. Len(received'), NEW j \in 1 .. Len(received'),
                        received'[i] = received'[j]
                 PROVE  i = j
      BY DEF DistinctJobs
    <2>1. CASE i \in 1 .. Len(received) /\ j \in 1 .. Len(received)
      BY <1>3, <2>1 DEF Inv, DistinctJobs
    <2>2. CASE i = Len(received) + 1 \/ j = Len(received) + 1
      BY <1>3, <1>10, <2>2
    <2> QED
      BY <1>3, <2>1, <2>2
  <1>12. QueuedKnown'
    <2> SUFFICES ASSUME NEW i \in 1 .. Len(received')
                 PROVE  jobsDeliveryTags'[received'[i]] # NoTag
      BY DEF QueuedKnown
    <2>1. CASE i \in 1 .. Len(received)
      <3>1. received'[i] = received[i] /\ received[i] \in Messages \ {down.msg}
        BY <1>3, <1>10, <2>1
      <3>2. jobsDeliveryTags[received[i]] # NoTag
        BY <2>1 DEF Inv, QueuedKnown
      <3> QED
        BY <1>4, <3>1, <3>2
    <2>2. CASE i = Len(received) + 1
      BY <1>2, <1>3, <1>4, <2>2
    <2> QED
      BY <1>3, <2>1, <2>2
  <1> QED
    BY <1>5, <1>6, <1>7, <1>8, <1>9, <1>11, <1>12 DEF Inv

\* handleJobFinished() of a live handle has the tag of its delivery, so it sends
\* an ack, after a result if there is one; of an event that ends no live job the
\* program notices nothing.
LEMMA FinishStep ==
    ASSUME Inv, NEW ended, \A e \in ended : e.job \in jobs, FinishJobs(ended)
    PROVE  /\ UNCHANGED <<alive, ready, session, down, restarts>>
           /\ UNCHANGED <<srcQueue, open, unacked, lastTag, results>>
           /\ \/ /\ ended = {}
                 /\ UNCHANGED <<jobs, cached, jobsDeliveryTags, up, failed>>
              \/ \E e \in ended :
                    /\ jobs = {e.job} /\ jobs' = {} /\ ready /\ down = NoDelivery
                    /\ [tag |-> jobsDeliveryTags[e.job], msg |-> e.job] \in Delivery
                    /\ Awaits([tag |-> jobsDeliveryTags[e.job], msg |-> e.job])
                    /\ Send(IF e.ending = "converted"
                            THEN <<Publish(e.job), Ack(jobsDeliveryTags[e.job])>>
                            ELSE <<Ack(jobsDeliveryTags[e.job])>>)
                    /\ cached' \subseteq cached
                    /\ jobsDeliveryTags' = [jobsDeliveryTags EXCEPT ![e.job] = NoTag]
                    /\ failed' = IF e.ending = "failed" THEN failed \cup {e.job} ELSE failed
  <1> DEFINE known == {e \in ended : jobsDeliveryTags[e.job] # NoTag}
  <1>t. /\ jobs \subseteq Messages /\ jobsDeliveryTags \in [Messages -> Nat]
        /\ InHand
    BY DEF Inv, TypeOK, Converter!TypeOK
  <1>1. known = ended
    BY <1>t DEF InHand
  <1>2. /\ UNCHANGED <<alive, ready, session, down, restarts>>
        /\ UNCHANGED <<srcQueue, open, unacked, lastTag, results>>
    BY DEF FinishJobs, brokerVars
  <1>3. \/ known = {} /\ UNCHANGED <<jobs, cached, jobsDeliveryTags, up, failed>>
        \/ \E e \in known : FinishJob(e)
    BY DEF FinishJobs
  <1> HIDE DEF known
  <1>4. CASE known = {} /\ UNCHANGED <<jobs, cached, jobsDeliveryTags, up, failed>>
    BY <1>1, <1>2, <1>4
  <1>5. ASSUME NEW e \in known, FinishJob(e)
        PROVE  /\ jobs = {e.job} /\ jobs' = {} /\ ready /\ down = NoDelivery
               /\ [tag |-> jobsDeliveryTags[e.job], msg |-> e.job] \in Delivery
               /\ Awaits([tag |-> jobsDeliveryTags[e.job], msg |-> e.job])
               /\ Send(IF e.ending = "converted"
                       THEN <<Publish(e.job), Ack(jobsDeliveryTags[e.job])>>
                       ELSE <<Ack(jobsDeliveryTags[e.job])>>)
               /\ cached' \subseteq cached
               /\ jobsDeliveryTags' = [jobsDeliveryTags EXCEPT ![e.job] = NoTag]
               /\ failed' = IF e.ending = "failed" THEN failed \cup {e.job} ELSE failed
    <2>1. e.job \in jobs /\ e.job \in Messages
      BY <1>1, <1>5, <1>t
    <2>2. /\ jobs = {e.job} /\ ready /\ down = NoDelivery
          /\ jobsDeliveryTags[e.job] \in cached
          /\ Awaits([tag |-> jobsDeliveryTags[e.job], msg |-> e.job])
      BY <1>t, <2>1 DEF InHand
    <2>3. [tag |-> jobsDeliveryTags[e.job], msg |-> e.job] \in Delivery
      BY <1>t, <2>1 DEF Delivery
    <2>4. FinishFrames(e) = IF e.ending = "converted"
                            THEN <<Publish(e.job), Ack(jobsDeliveryTags[e.job])>>
                            ELSE <<Ack(jobsDeliveryTags[e.job])>>
      <3>1. Confirm(jobsDeliveryTags[e.job]) = <<Ack(jobsDeliveryTags[e.job])>>
        BY <2>2 DEF Confirm
      <3>2. \A a, b : <<a>> \o <<b>> = <<a, b>>
        <4> TAKE a, b
        <4>1. <<a>> \in Seq({a, b}) /\ <<a, b>> = Append(<<a>>, b)
          OBVIOUS
        <4> QED
          BY <4>1, AppendIsConcat
      <3>3. \A b : <<>> \o <<b>> = <<b>>
        <4> TAKE b
        <4>1. <<b>> \in Seq({b})
          OBVIOUS
        <4> QED
          BY <4>1, ConcatEmptySeq
      <3> QED
        BY <2>2, <3>1, <3>2, <3>3 DEF FinishFrames
    <2>5. Send(IF e.ending = "converted"
               THEN <<Publish(e.job), Ack(jobsDeliveryTags[e.job])>>
               ELSE <<Ack(jobsDeliveryTags[e.job])>>)
      BY <1>5, <2>4 DEF FinishJob
    <2>6. /\ cached' \subseteq cached /\ jobs' = {}
          /\ jobsDeliveryTags' = [jobsDeliveryTags EXCEPT ![e.job] = NoTag]
          /\ failed' = IF e.ending = "failed" THEN failed \cup {e.job} ELSE failed
      BY <1>5, <2>2 DEF FinishJob
    <2> QED
      BY <2>2, <2>3, <2>5, <2>6
  <1> QED
    BY <1>1, <1>2, <1>3, <1>4, <1>5

\* An event of the converter, whatever it ends: the job that ends has left the
\* queue, in which it was once, so its tag may be forgotten.
LEMMA ConverterEventInv ==
    ASSUME Inv, NEW o, FinishJobs(o.ended),
           \/ Converter!StartJob(o) \/ Converter!ProcessFinished(o)
           \/ Converter!ProcessFailedToStart(o) \/ Converter!ProcessCrashed(o)
    PROVE  Inv'
  <1>t. TypeOK /\ SessionsInOrder /\ FramesSettle /\ InHand /\ HeldOutstanding
    BY DEF Inv
  <1>1. /\ received' \in Seq(Messages)
        /\ startsPosted' \in Nat
        /\ process' \in {"NotRunning", "Running"}
        /\ jobEnv' \in Messages \cup {NoJob}
        /\ undefined' \in BOOLEAN
        /\ \A e \in o.ended : e.job \in jobs
    BY <1>t, ConverterStep
  <1>2. PICK k \in 0 .. Len(received) :
          /\ Len(received') = Len(received) - k
          /\ \A i \in 1 .. Len(received') : received'[i] = received[i + k]
          /\ \A e \in o.ended : \E i \in 1 .. k : received[i] = e.job
    BY <1>t, ConverterStep
  <1>3. /\ received \in Seq(Messages) /\ Len(received) \in Nat
        /\ \A i \in 1 .. Len(received) : received[i] \in Messages
        /\ \A i \in 1 .. Len(received') : i + k \in 1 .. Len(received)
    BY <1>2, <1>t, ElementOfSeq DEF TypeOK, Converter!TypeOK
  <1>4. DistinctJobs'
    <2> SUFFICES ASSUME NEW i \in 1 .. Len(received'), NEW j \in 1 .. Len(received'),
                        received'[i] = received'[j]
                 PROVE  i = j
      BY DEF DistinctJobs
    <2>1. received[i + k] = received[j + k]
      BY <1>2
    <2>2. i + k = j + k
      BY <1>3, <2>1 DEF Inv, DistinctJobs
    <2> QED
      BY <1>2, <2>2
  <1>5. /\ UNCHANGED <<alive, ready, session, down, restarts>>
        /\ UNCHANGED <<srcQueue, open, unacked, lastTag, results>>
    BY <1>1, FinishStep
  <1>6. CASE UNCHANGED <<jobs, cached, jobsDeliveryTags, up, failed>>
    <2>1. TypeOK'
      <3>1. Converter!TypeOK'
        BY <1>1, <1>6, <1>t DEF TypeOK, Converter!TypeOK
      <3> QED
        BY <1>5, <1>6, <1>t, <3>1 DEF TypeOK, Sessions
    <2>2. SessionsInOrder'
      BY <1>5, <1>6, <1>t DEF SessionsInOrder, Sessions
    <2>3. FramesSettle'
      BY <1>5, <1>6, <1>t DEF FramesSettle
    <2>4. InHand'
      BY <1>5, <1>6, <1>t DEF InHand, Awaits
    <2>5. HeldOutstanding'
      BY <1>5, <1>6, <1>t DEF HeldOutstanding, StillOutstanding
    <2>6. QueuedKnown'
      <3> SUFFICES ASSUME NEW i \in 1 .. Len(received')
                   PROVE  jobsDeliveryTags[received'[i]] # NoTag
        BY <1>6 DEF QueuedKnown
      <3> QED
        BY <1>2, <1>3 DEF Inv, QueuedKnown
    <2> QED
      BY <1>4, <2>1, <2>2, <2>3, <2>4, <2>5, <2>6 DEF Inv
  <1>7. ASSUME NEW e \in o.ended,
               jobs = {e.job}, jobs' = {}, ready, down = NoDelivery,
               [tag |-> jobsDeliveryTags[e.job], msg |-> e.job] \in Delivery,
               Awaits([tag |-> jobsDeliveryTags[e.job], msg |-> e.job]),
               Send(IF e.ending = "converted"
                    THEN <<Publish(e.job), Ack(jobsDeliveryTags[e.job])>>
                    ELSE <<Ack(jobsDeliveryTags[e.job])>>),
               cached' \subseteq cached,
               jobsDeliveryTags' = [jobsDeliveryTags EXCEPT ![e.job] = NoTag],
               failed' = IF e.ending = "failed" THEN failed \cup {e.job} ELSE failed
        PROVE  Inv'
    <2> DEFINE d == [tag |-> jobsDeliveryTags[e.job], msg |-> e.job]
               frames == IF e.ending = "converted"
                         THEN <<Publish(d.msg), Ack(d.tag)>> ELSE <<Ack(d.tag)>>
    <2>1. e.job \in Messages
      BY <1>7 DEF Delivery
    <2>2. d \in Delivery /\ Awaits(d) /\ Send(frames)
      BY <1>7
    <2>3. frames \in {<<Ack(d.tag)>>, <<Publish(d.msg), Ack(d.tag)>>}
      OBVIOUS
    <2> HIDE DEF d, frames
    <2>4. /\ up' \in [Sessions -> Seq(PublishFrame \cup AckFrame)]
          /\ \A s \in Sessions \ {session} : up'[s] = up[s]
          /\ FramesSettle'
      BY <1>5, <1>7, <1>t, <2>2, <2>3, SendAnswer
    <2>5. TypeOK'
      <3>1. Converter!TypeOK'
        BY <1>1, <1>7, <1>t DEF TypeOK, Converter!TypeOK
      <3>2. jobsDeliveryTags' \in [Messages -> Nat]
        BY <1>7, <1>t DEF TypeOK, NoTag
      <3> QED
        BY <1>5, <1>7, <1>t, <2>1, <2>4, <3>1, <3>2 DEF TypeOK, Sessions
    <2>6. SessionsInOrder'
      BY <1>5, <1>7, <1>t, <2>4, SessionKnown DEF SessionsInOrder, Sessions
    <2>7. InHand' /\ HeldOutstanding'
      BY <1>5, <1>7 DEF InHand, HeldOutstanding
    <2>8. QueuedKnown'
      <3> SUFFICES ASSUME NEW i \in 1 .. Len(received')
                   PROVE  jobsDeliveryTags'[received'[i]] # NoTag
        BY DEF QueuedKnown
      <3>1. PICK j \in 1 .. k : received[j] = e.job
        BY <1>2, <1>7
      <3>2. received'[i] = received[i + k] /\ i + k \in 1 .. Len(received)
        BY <1>2, <1>3
      <3>3. j \in 1 .. Len(received) /\ i + k # j
        BY <1>2, <1>3
      <3>4. received[i + k] # e.job
        BY <3>1, <3>2, <3>3 DEF Inv, DistinctJobs
      <3>5. received[i + k] \in Messages /\ jobsDeliveryTags[received[i + k]] # NoTag
        BY <1>3, <3>2 DEF Inv, QueuedKnown
      <3> QED
        BY <1>7, <1>t, <3>2, <3>4, <3>5 DEF TypeOK
    <2> QED
      BY <1>4, <2>4, <2>5, <2>6, <2>7, <2>8 DEF Inv
  <1> QED
    BY <1>1, <1>6, <1>7, FinishStep

\* Nothing changes.
LEMMA StutterInv ==
    ASSUME Inv, UNCHANGED vars
    PROVE  Inv'
  <1>1. /\ UNCHANGED <<jobs, received, startsPosted, process, jobEnv, undefined>>
        /\ UNCHANGED <<alive, ready, session, cached, jobsDeliveryTags>>
        /\ UNCHANGED <<srcQueue, open, unacked, lastTag, results, down, up, failed, restarts>>
    BY DEF vars, converterVars, programVars, brokerVars
  <1>2. TypeOK'
    <2>1. Converter!TypeOK'
      BY <1>1 DEF Inv, TypeOK, Converter!TypeOK
    <2> QED
      BY <1>1, <2>1 DEF Inv, TypeOK, Sessions
  <1>3. SessionsInOrder' /\ FramesSettle'
    BY <1>1 DEF Inv, SessionsInOrder, FramesSettle, Sessions
  <1>4. InHand' /\ HeldOutstanding'
    BY <1>1 DEF Inv, InHand, Awaits, HeldOutstanding, StillOutstanding
  <1>5. DistinctJobs' /\ QueuedKnown'
    BY <1>1, QueueUnchanged DEF Inv
  <1> QED
    BY <1>2, <1>3, <1>4, <1>5 DEF Inv

\* The actions that are events of the converter.
LEMMA ConverterEvents ==
    ASSUME StartJob \/ ProcessEnds
    PROVE  \E o : /\ FinishJobs(o.ended)
                  /\ \/ Converter!StartJob(o) \/ Converter!ProcessFinished(o)
                     \/ Converter!ProcessFailedToStart(o) \/ Converter!ProcessCrashed(o)
  BY DEF StartJob, ProcessEnds, ProcessFinished, ProcessFailedToStart, ProcessCrashed

\* Every step keeps the invariant.
LEMMA NextInv == Inv /\ [Next]_vars => Inv'
  <1> SUFFICES ASSUME Inv, [Next]_vars PROVE Inv'
    OBVIOUS
  <1>1. CASE Connect
    BY <1>1, ConnectInv
  <1>2. CASE LinkBreaks \/ NoticeClosed
    BY <1>2, LoseConnectionInv DEF LinkBreaks, NoticeClosed
  <1>3. CASE HandleInvalidMessage
    BY <1>3, HandleInvalidMessageInv
  <1>4. CASE HandleKnownMessage
    BY <1>4, HandleKnownMessageInv
  <1>5. CASE HandleNewMessage
    BY <1>5, HandleNewMessageInv
  <1>6. CASE StartJob \/ ProcessEnds
    BY <1>6, ConverterEvents, ConverterEventInv
  <1>7. CASE Crash
    BY <1>7, CrashInv
  <1>8. CASE Restart
    BY <1>8, RestartInv
  <1>9. ASSUME NEW s \in Sessions,
               \/ \E m \in Messages : Deliver(s, m)
               \/ ReceivePublish(s) \/ ReceiveAck(s) \/ CloseSession(s)
        PROVE  Inv'
    BY <1>9, DeliverInv, ReceivePublishInv, ReceiveAckInv, CloseSessionInv
  <1>10. CASE UNCHANGED vars
    BY <1>10, StutterInv
  <1> QED
    BY <1>1, <1>2, <1>3, <1>4, <1>5, <1>6, <1>7, <1>8, <1>9, <1>10
       DEF Next, ProgramNext, BrokerNext

\* The state of the stage has its types, for any number of messages, sessions and
\* restarts, and whether or not the python process may crash; so for the two
\* theorems that follow.
THEOREM StageTyped == Spec => []TypeOK
  <1>1. Inv => TypeOK
    BY DEF Inv
  <1> QED
    BY InitInv, NextInv, <1>1, PTL DEF Spec

\* A live handle is the only one, and its result can be published and confirmed:
\* its delivery tag belongs to the current channel.
THEOREM LiveJobCanBeSettled == Spec => []LiveJobIsCurrent
  <1>1. Inv => LiveJobIsCurrent
    BY DEF Inv, SessionsInOrder, InHand, Awaits, LiveJobIsCurrent
  <1> QED
    BY InitInv, NextInv, <1>1, PTL DEF Spec

\* A message is queued once in the converter, however often it was redelivered.
THEOREM QueuedOnce == Spec => []DistinctJobs
  <1>1. Inv => DistinctJobs
    BY DEF Inv
  <1> QED
    BY InitInv, NextInv, <1>1, PTL DEF Spec

-----------------------------------------------------------------------------
(***************************************************************************)
(* Acks.                                                                   *)
(***************************************************************************)

Decided(m) == m \in failed \/ results[m] > 0

\* What is decided stays decided.
LEMMA DecidedStays ==
    ASSUME Inv, [Next]_vars, NEW m \in Messages, Decided(m)
    PROVE  Decided(m)'
  <1>t. TypeOK
    BY DEF Inv
  <1>1. CASE UNCHANGED <<results, failed>>
    BY <1>1 DEF Decided
  <1>2. CASE HandleInvalidMessage
    BY <1>2 DEF HandleInvalidMessage, brokerVars, Decided
  <1>3. CASE StartJob \/ ProcessEnds
    <2>1. PICK o : /\ FinishJobs(o.ended)
                   /\ \/ Converter!StartJob(o) \/ Converter!ProcessFinished(o)
                      \/ Converter!ProcessFailedToStart(o) \/ Converter!ProcessCrashed(o)
      BY <1>3, ConverterEvents
    <2>2. \A e \in o.ended : e.job \in jobs
      BY <1>t, <2>1, ConverterStep
    <2>3. UNCHANGED results /\ failed \subseteq failed'
      BY <2>1, <2>2, FinishStep
    <2> QED
      BY <2>3 DEF Decided
  <1>4. ASSUME NEW s \in Sessions, ReceivePublish(s) PROVE Decided(m)'
    <2>1. /\ unacked[s] \in Delivery
          /\ Head(up[s]) = Publish(unacked[s].msg)
          /\ results' = [results EXCEPT ![Head(up[s]).msg] = @ + 1]
          /\ UNCHANGED failed
      BY <1>4, FramesOfAnswer, ValuesApart DEF ReceivePublish
    <2>2. unacked[s].msg \in Messages /\ Head(up[s]).msg = unacked[s].msg
      BY <2>1, ValuesApart DEF Delivery
    <2>3. results[m] > 0 => results'[m] > 0
      BY <1>t, <2>1, <2>2 DEF TypeOK
    <2> QED
      BY <2>1, <2>3 DEF Decided
  <1>5. UNCHANGED <<results, failed>> \/ HandleInvalidMessage \/ StartJob \/ ProcessEnds
        \/ \E s \in Sessions : ReceivePublish(s)
    BY DEF Next, ProgramNext, BrokerNext, Connect, LinkBreaks, NoticeClosed, LoseConnection,
           HandleKnownMessage, HandleNewMessage, Crash, Restart, Deliver, ReceiveAck,
           CloseSession, brokerVars, vars
  <1> QED
    BY <1>1, <1>2, <1>3, <1>4, <1>5

\* Only the sessions a step touches need a look.
LEMMA SessionUntouched ==
    ASSUME Inv, AckedDecided, [Next]_vars,
           NEW s \in open, up'[s] = up[s], unacked'[s] = unacked[s]
    PROVE  AckedDecidedIn(s)'
  <1> SUFFICES ASSUME unacked[s] # NoDelivery, up[s] = <<Ack(unacked[s].tag)>>
               PROVE  unacked[s].msg \in failed' \/ results'[unacked[s].msg] > 0
    BY DEF AckedDecidedIn
  <1>1. unacked[s].msg \in Messages
    BY SessionKnown DEF Inv, TypeOK, Delivery
  <1>2. Decided(unacked[s].msg)
    BY DEF AckedDecided, AckedDecidedIn, Decided
  <1>3. PICK m \in Messages : m = unacked[s].msg
    BY <1>1
  <1>4. Decided(m)'
    BY <1>2, <1>3, DecidedStays
  <1> QED
    BY <1>3, <1>4 DEF Decided

\* An event of the converter sends an ack alone only for a conversion that failed,
\* unless the python process may crash: a job that was skipped is not decided.
LEMMA ConverterEventDecided ==
    ASSUME ~ConverterMayCrash, Inv, AckedDecided, StartJob \/ ProcessEnds
    PROVE  AckedDecided'
  <1>t. TypeOK /\ SessionsInOrder /\ FramesSettle
    BY DEF Inv
  <1>n. [Next]_vars
    BY DEF Next, ProgramNext
  <1>1. PICK o : /\ FinishJobs(o.ended)
                 /\ \/ Converter!StartJob(o) \/ Converter!ProcessFinished(o)
                    \/ Converter!ProcessFailedToStart(o) \/ Converter!ProcessCrashed(o)
    BY ConverterEvents
  <1>2. \A e \in o.ended : e.job \in jobs /\ e.ending \in {"converted", "failed"}
    BY <1>1, <1>t, ConverterStep
  <1>3. UNCHANGED <<session, open, unacked>>
    BY <1>1, <1>2, FinishStep
  <1>4. CASE UNCHANGED up
    BY <1>n, <1>3, <1>4, SessionUntouched DEF AckedDecided
  <1>5. ASSUME NEW e \in o.ended,
               ready,
               [tag |-> jobsDeliveryTags[e.job], msg |-> e.job] \in Delivery,
               Awaits([tag |-> jobsDeliveryTags[e.job], msg |-> e.job]),
               Send(IF e.ending = "converted"
                    THEN <<Publish(e.job), Ack(jobsDeliveryTags[e.job])>>
                    ELSE <<Ack(jobsDeliveryTags[e.job])>>),
               failed' = IF e.ending = "failed" THEN failed \cup {e.job} ELSE failed
        PROVE  AckedDecided'
    <2> DEFINE d == [tag |-> jobsDeliveryTags[e.job], msg |-> e.job]
               frames == IF e.ending = "converted"
                         THEN <<Publish(d.msg), Ack(d.tag)>> ELSE <<Ack(d.tag)>>
    <2>1. d \in Delivery /\ Awaits(d) /\ Send(frames) /\ d.msg = e.job
      BY <1>5
    <2>2. frames \in {<<Ack(d.tag)>>, <<Publish(d.msg), Ack(d.tag)>>}
      OBVIOUS
    <2>3. e.ending = "converted" => frames = <<Publish(d.msg), Ack(d.tag)>>
      OBVIOUS
    <2> HIDE DEF d, frames
    <2>4. /\ \A s \in Sessions \ {session} : up'[s] = up[s]
          /\ session \in open => unacked[session] = d /\ up'[session] = frames
      BY <1>3, <1>5, <1>t, <2>1, <2>2, SendAnswer
    <2>5. ASSUME session \in open, up'[session] = <<Ack(d.tag)>>
          PROVE  d.msg \in failed'
      <3>1. \A a, b, c : <<a>> # <<b, c>>
        OBVIOUS
      <3>2. e.ending # "converted"
        BY <2>3, <2>4, <2>5, <3>1
      <3> QED
        BY <1>2, <1>5, <2>1, <3>2
    <2>6. \A s \in open \ {session} : AckedDecidedIn(s)'
      BY <1>n, <1>3, <1>t, <2>4, SessionKnown, SessionUntouched
    <2>7. session \in open => AckedDecidedIn(session)'
      BY <1>3, <2>4, <2>5 DEF AckedDecidedIn
    <2> QED
      BY <1>3, <2>6, <2>7 DEF AckedDecided
  <1> QED
    BY <1>1, <1>2, <1>4, <1>5, FinishStep

\* Every step keeps the acks decided.
LEMMA AckedDecidedNext ==
    ASSUME ~ConverterMayCrash, Inv, AckedDecided, [Next]_vars
    PROVE  AckedDecided'
  <1>t. TypeOK /\ SessionsInOrder /\ FramesSettle /\ InHand
    BY DEF Inv
  <1>1. CASE StartJob \/ ProcessEnds
    BY <1>1, ConverterEventDecided
  <1>2. CASE HandleInvalidMessage
    <2>1. /\ ready /\ down \in Delivery /\ Awaits(down)
          /\ Send(<<Ack(down.tag)>>)
          /\ failed' = failed \cup {down.msg}
          /\ UNCHANGED <<session, open, unacked>>
      BY <1>2, <1>t DEF HandleInvalidMessage, programVars, brokerVars, TypeOK, InHand
    <2>2. /\ \A s \in Sessions \ {session} : up'[s] = up[s]
          /\ session \in open => unacked[session] = down
      BY <1>t, <2>1, SendAnswer
    <2>3. \A s \in open \ {session} : AckedDecidedIn(s)'
      BY <1>t, <2>1, <2>2, SessionKnown, SessionUntouched
    <2>4. session \in open => AckedDecidedIn(session)'
      BY <2>1, <2>2 DEF AckedDecidedIn
    <2> QED
      BY <2>1, <2>3, <2>4 DEF AckedDecided
  <1>3. CASE Connect
    <2>1. open' = open \cup {session + 1} /\ UNCHANGED <<up, unacked>>
      BY <1>3 DEF Connect
    <2>2. session + 1 \in Sessions /\ session + 1 > session
      BY <1>3, <1>t, PipelineAssumption DEF Connect, TypeOK, Sessions
    <2>3. up[session + 1] = <<>>
      BY <1>t, <2>2 DEF SessionsInOrder
    <2>4. \A s \in open : AckedDecidedIn(s)'
      BY <2>1, SessionUntouched
    <2>5. ASSUME NEW s, s = session + 1 PROVE AckedDecidedIn(s)'
      BY <2>1, <2>3, <2>5 DEF AckedDecidedIn
    <2> QED
      BY <2>1, <2>4, <2>5 DEF AckedDecided
  <1>4. ASSUME NEW s \in Sessions, NEW m \in Messages, Deliver(s, m) PROVE AckedDecided'
    <2>1. /\ s \in open /\ up[s] = <<>> /\ UNCHANGED <<open, up>>
          /\ unacked' = [unacked EXCEPT ![s] = [tag |-> lastTag[s] + 1, msg |-> m]]
      BY <1>4, <1>t DEF Deliver, FramesSettle
    <2>2. \A r \in open \ {s} : unacked'[r] = unacked[r]
      BY <1>t, <2>1, SessionKnown DEF TypeOK
    <2>3. up'[s] = <<>>
      BY <2>1
    <2>4. \A r \in open \ {s} : AckedDecidedIn(r)'
      BY <2>1, <2>2, SessionUntouched
    <2>5. AckedDecidedIn(s)'
      <3>1. \A a : <<>> # <<a>>
        OBVIOUS
      <3> QED
        BY <2>3, <3>1 DEF AckedDecidedIn
    <2> QED
      BY <2>1, <2>4, <2>5 DEF AckedDecided
  <1>5. ASSUME NEW s \in Sessions, ReceivePublish(s) PROVE AckedDecided'
    <2>1. /\ s \in open /\ unacked[s] \in Delivery
          /\ Head(up[s]) = Publish(unacked[s].msg)
          /\ results' = [results EXCEPT ![Head(up[s]).msg] = @ + 1]
          /\ up' = [up EXCEPT ![s] = Tail(@)]
          /\ UNCHANGED <<open, unacked>>
      BY <1>5, FramesOfAnswer, ValuesApart DEF ReceivePublish
    <2>2. unacked[s].msg \in Messages /\ Head(up[s]).msg = unacked[s].msg
      BY <2>1, ValuesApart DEF Delivery
    <2>3. results'[unacked[s].msg] > 0
      BY <1>t, <2>1, <2>2 DEF TypeOK
    <2>4. \A r \in open \ {s} : up'[r] = up[r]
      BY <1>t, <2>1, SessionKnown DEF TypeOK
    <2>5. \A r \in open \ {s} : AckedDecidedIn(r)'
      BY <2>1, <2>4, SessionUntouched
    <2>6. AckedDecidedIn(s)'
      BY <2>1, <2>3 DEF AckedDecidedIn
    <2> QED
      BY <2>1, <2>5, <2>6 DEF AckedDecided
  <1>6. ASSUME NEW s \in Sessions, ReceiveAck(s) PROVE AckedDecided'
    <2>1. /\ s \in open
          /\ unacked' = [unacked EXCEPT ![s] = NoDelivery]
          /\ up' = [up EXCEPT ![s] = Tail(@)]
          /\ UNCHANGED open
      BY <1>6 DEF ReceiveAck
    <2>2. unacked'[s] = NoDelivery
      BY <1>t, <2>1 DEF TypeOK
    <2>3. \A r \in open \ {s} : up'[r] = up[r] /\ unacked'[r] = unacked[r]
      BY <1>t, <2>1, SessionKnown DEF TypeOK
    <2>4. \A r \in open \ {s} : AckedDecidedIn(r)'
      BY <2>3, SessionUntouched
    <2>5. AckedDecidedIn(s)'
      BY <2>2 DEF AckedDecidedIn
    <2> QED
      BY <2>1, <2>4, <2>5 DEF AckedDecided
  <1>7. ASSUME NEW s \in Sessions, CloseSession(s) PROVE AckedDecided'
    <2>1. /\ s \in open /\ open' = open \ {s}
          /\ unacked' = [unacked EXCEPT ![s] = NoDelivery]
          /\ up' = [up EXCEPT ![s] = <<>>]
      BY <1>7 DEF CloseSession
    <2>2. \A r \in open \ {s} : up'[r] = up[r] /\ unacked'[r] = unacked[r]
      BY <1>t, <2>1, SessionKnown DEF TypeOK
    <2> QED
      BY <2>1, <2>2, SessionUntouched DEF AckedDecided
  <1>8. CASE UNCHANGED <<open, up, unacked>>
    BY <1>8, SessionUntouched DEF AckedDecided
  <1>9. \/ StartJob \/ ProcessEnds \/ HandleInvalidMessage \/ Connect
        \/ \E s \in Sessions : \/ \E m \in Messages : Deliver(s, m)
                               \/ ReceivePublish(s) \/ ReceiveAck(s) \/ CloseSession(s)
        \/ UNCHANGED <<open, up, unacked>>
    BY DEF Next, ProgramNext, BrokerNext, LinkBreaks, NoticeClosed, LoseConnection,
           HandleKnownMessage, HandleNewMessage, Crash, Restart, brokerVars, vars
  <1> QED
    BY <1>1, <1>2, <1>3, <1>4, <1>5, <1>6, <1>7, <1>8, <1>9

\* The frames of a live session, and that they are decided, are what AcksDecided
\* says of them one by one.
LEMMA AcksDecidedByFrames ==
    ASSUME Inv, AckedDecided
    PROVE  AcksDecided
  <1> SUFFICES ASSUME NEW s \in open, NEW i \in 1 .. Len(up[s]), up[s][i].kind = "ack"
               PROVE  /\ unacked[s] # NoDelivery
                      /\ unacked[s].tag = up[s][i].tag
                      /\ \/ unacked[s].msg \in failed
                         \/ results[unacked[s].msg] > 0
                         \/ \E j \in 1 .. i - 1 : up[s][j] = Publish(unacked[s].msg)
                      /\ \A j \in 1 .. Len(up[s]) : up[s][j].kind = "ack" => j = i
    BY DEF AcksDecided
  <1>1. up[s] # <<>>
    BY EmptySeq
  <1> DEFINE ack == Ack(unacked[s].tag)
             publish == Publish(unacked[s].msg)
  <1>2. unacked[s] \in Delivery
    BY <1>1, FramesOfAnswer
  <1>3. /\ unacked[s] # NoDelivery
        /\ ack.tag = unacked[s].tag /\ ack.kind = "ack" /\ publish.kind = "publish"
    BY <1>2, ValuesApart DEF Delivery
  <1>4. up[s] = <<ack>> \/ up[s] = <<publish, ack>>
    BY <1>1 DEF Inv, FramesSettle
  <1>5. CASE up[s] = <<ack>>
    <2>1. unacked[s].msg \in failed \/ results[unacked[s].msg] > 0
      BY <1>3, <1>5 DEF AckedDecided, AckedDecidedIn
    <2> HIDE DEF ack
    <2>2. Len(up[s]) = 1 /\ up[s][1] = ack
      BY <1>5
    <2> QED
      BY <1>3, <2>1, <2>2
  <1>6. CASE up[s] = <<publish, ack>>
    <2> HIDE DEF ack, publish
    <2>1. Len(up[s]) = 2 /\ up[s][1] = publish /\ up[s][2] = ack
      BY <1>6
    <2>2. i = 2
      BY <1>3, <2>1
    <2> QED
      BY <1>3, <2>1, <2>2 DEF publish
  <1> QED
    BY <1>4, <1>5, <1>6

-----------------------------------------------------------------------------
(***************************************************************************)
(* The stage implements AtLeastOnce.                                       *)
(***************************************************************************)

\* The message in hand is outstanding.
LEMMA HeldIsOutstanding ==
    ASSUME NEW m, StillOutstanding(m)
    PROVE  m \in Outstanding
  BY DEF StillOutstanding, Outstanding, UnackedIn

\* The variables of AtLeastOnce are unchanged.
LEMMA StageStutter ==
    ASSUME Outstanding' = Outstanding, UNCHANGED <<results, failed>>
    PROVE  UNCHANGED Stage!vars
  BY DEF Stage!vars

\* A delivery moves a message from the queue to a session, a session that is
\* given up moves it back.
LEMMA MoveOutstanding ==
    ASSUME Inv, NEW s \in Sessions,
           (\E m \in Messages : Deliver(s, m)) \/ CloseSession(s)
    PROVE  Outstanding' = Outstanding
  <1>t. TypeOK /\ SessionsInOrder
    BY DEF Inv
  <1>1. ASSUME NEW m \in Messages, Deliver(s, m) PROVE Outstanding' = Outstanding
    <2> DEFINE d == [tag |-> lastTag[s] + 1, msg |-> m]
    <2>1. /\ s \in open /\ unacked[s] = NoDelivery /\ m \in srcQueue
          /\ srcQueue' = srcQueue \ {m} /\ open' = open
          /\ unacked' = [unacked EXCEPT ![s] = d]
      BY <1>1 DEF Deliver
    <2>2. d \in Delivery /\ d # NoDelivery /\ d.msg = m
      BY <1>t, ValuesApart DEF TypeOK, Delivery
    <2> HIDE DEF d
    <2>3. unacked'[s] = d /\ \A r \in open \ {s} : unacked'[r] = unacked[r]
      BY <1>t, <2>1, SessionKnown DEF TypeOK
    <2>4. UnackedIn(s) = {} /\ UnackedIn(s)' = {m}
      BY <2>1, <2>2, <2>3 DEF UnackedIn
    <2>5. \A r \in open \ {s} : UnackedIn(r)' = UnackedIn(r)
      BY <2>3 DEF UnackedIn
    <2> QED
      BY <2>1, <2>4, <2>5 DEF Outstanding
  <1>2. CASE CloseSession(s)
    <2>1. /\ s \in open /\ open' = open \ {s}
          /\ srcQueue' = IF unacked[s] = NoDelivery THEN srcQueue
                         ELSE srcQueue \cup {unacked[s].msg}
          /\ unacked' = [unacked EXCEPT ![s] = NoDelivery]
      BY <1>2 DEF CloseSession
    <2>2. \A r \in open \ {s} : unacked'[r] = unacked[r]
      BY <1>t, <2>1, SessionKnown DEF TypeOK
    <2>3. srcQueue' = srcQueue \cup UnackedIn(s)
      BY <2>1 DEF UnackedIn
    <2>4. \A r \in open \ {s} : UnackedIn(r)' = UnackedIn(r)
      BY <2>2 DEF UnackedIn
    <2> QED
      BY <2>1, <2>3, <2>4 DEF Outstanding
  <1> QED
    BY <1>1, <1>2

\* A new session has nothing unacknowledged.
LEMMA ConnectOutstanding ==
    ASSUME Inv, Connect
    PROVE  Outstanding' = Outstanding
  <1>1. open' = open \cup {session + 1} /\ UNCHANGED <<srcQueue, unacked>>
    BY DEF Connect
  <1>2. session + 1 \in Sessions /\ session + 1 \notin open
    BY PipelineAssumption DEF Inv, Connect, TypeOK, SessionsInOrder, Sessions
  <1>3. unacked[session + 1] = NoDelivery
    BY <1>2 DEF Inv, SessionsInOrder
  <1>4. \A s \in open : UnackedIn(s)' = UnackedIn(s)
    BY <1>1 DEF UnackedIn
  <1>5. \A s : s = session + 1 => UnackedIn(s)' = {}
    BY <1>1, <1>3 DEF UnackedIn
  <1> QED
    BY <1>1, <1>4, <1>5 DEF Outstanding

\* A result is published for a message that is not settled.
LEMMA ReceivePublishStep ==
    ASSUME Inv, NEW s \in Sessions, ReceivePublish(s)
    PROVE  Stage!Next
  <1>1. /\ s \in open /\ unacked[s] \in Delivery
        /\ Head(up[s]) = Publish(unacked[s].msg)
        /\ results' = [results EXCEPT ![Head(up[s]).msg] = @ + 1]
        /\ UNCHANGED <<srcQueue, open, unacked, failed>>
    BY FramesOfAnswer, ValuesApart DEF ReceivePublish
  <1>2. PICK m \in Messages : m = unacked[s].msg
    BY <1>1 DEF Delivery
  <1>3. results' = [results EXCEPT ![m] = @ + 1] /\ results \in [Messages -> Nat]
    <2>1. Head(up[s]).msg = m
      BY <1>1, <1>2 DEF Publish
    <2> QED
      BY <1>1, <2>1 DEF Inv, TypeOK
  <1>4. {n \in Messages : results'[n] > 0} = {n \in Messages : results[n] > 0} \cup {m}
    BY <1>3
  <1>5. UnackedIn(s) = {m}
    BY <1>1, <1>2, ValuesApart DEF UnackedIn
  <1>6. m \in Outstanding
    BY <1>1, <1>5 DEF Outstanding
  <1>7. Outstanding' = Outstanding
    BY <1>1 DEF Outstanding, UnackedIn
  <1>8. Stage!Publish(m)
    BY <1>1, <1>4, <1>6, <1>7 DEF Stage!Publish
  <1> QED
    BY <1>8 DEF Stage!Next

\* An ack settles its message, or one of several copies of it.
LEMMA ReceiveAckStep ==
    ASSUME Inv, AckedDecided, NEW s \in Sessions, ReceiveAck(s)
    PROVE  Stage!Next \/ UNCHANGED Stage!vars
  <1>1. /\ s \in open /\ unacked[s] \in Delivery
        /\ up[s] = <<Ack(unacked[s].tag)>>
        /\ unacked' = [unacked EXCEPT ![s] = NoDelivery]
        /\ UNCHANGED <<srcQueue, open, results, failed>>
    BY FramesOfAnswer DEF ReceiveAck
  <1>2. PICK m \in Messages : m = unacked[s].msg
    BY <1>1 DEF Delivery
  <1>3. m \in failed \/ results[m] > 0
    BY <1>1, <1>2, ValuesApart DEF AckedDecided, AckedDecidedIn
  <1>4. unacked'[s] = NoDelivery /\ \A r \in open \ {s} : unacked'[r] = unacked[r]
    BY <1>1, SessionKnown DEF Inv, TypeOK
  <1>5. UnackedIn(s) = {m} /\ UnackedIn(s)' = {}
    BY <1>1, <1>2, <1>4, ValuesApart DEF UnackedIn
  <1>6. \A r \in open \ {s} : UnackedIn(r)' = UnackedIn(r)
    BY <1>4 DEF UnackedIn
  <1>7. /\ m \in Outstanding
        /\ Outstanding' = Outstanding \/ Outstanding' = Outstanding \ {m}
    BY <1>1, <1>5, <1>6 DEF Outstanding
  <1>8. CASE Outstanding' = Outstanding
    BY <1>1, <1>8, StageStutter
  <1>9. CASE Outstanding' = Outstanding \ {m}
    <2>1. Stage!Settle(m)
      BY <1>1, <1>2, <1>3, <1>7, <1>9 DEF Stage!Settle
    <2> QED
      BY <2>1 DEF Stage!Next
  <1> QED
    BY <1>7, <1>8, <1>9

\* A message is rejected while it is outstanding, by whatever session.
LEMMA RejectStep ==
    ASSUME Inv, NEW m \in Messages, StillOutstanding(m),
           failed' = failed \cup {m}, UNCHANGED <<srcQueue, open, unacked, results>>
    PROVE  Stage!Next
  <1>1. m \in Outstanding
    BY HeldIsOutstanding
  <1>2. Outstanding' = Outstanding
    BY DEF Outstanding, UnackedIn
  <1>3. Stage!Reject(m)
    BY <1>1, <1>2 DEF Stage!Reject
  <1> QED
    BY <1>3 DEF Stage!Next

\* Every step of the stage is a step of AtLeastOnce, or leaves it as it is.
LEMMA StageStep ==
    ASSUME Inv, AckedDecided, [Next]_vars
    PROVE  [Stage!Next]_(Stage!vars)
  <1>t. TypeOK /\ InHand /\ HeldOutstanding
    BY DEF Inv
  <1>1. CASE Connect
    <2>1. UNCHANGED <<results, failed>>
      BY <1>1 DEF Connect
    <2> QED
      BY <1>1, <2>1, ConnectOutstanding, StageStutter
  <1>2. CASE HandleInvalidMessage
    <2>1. /\ down # NoDelivery /\ failed' = failed \cup {down.msg}
          /\ UNCHANGED <<srcQueue, open, unacked, results>>
      BY <1>2 DEF HandleInvalidMessage, brokerVars
    <2>2. PICK m \in Messages : m = down.msg
      BY <1>t, <2>1 DEF TypeOK, Delivery
    <2>3. StillOutstanding(m)
      BY <1>t, <2>1, <2>2 DEF HeldOutstanding
    <2> QED
      BY <2>1, <2>2, <2>3, RejectStep
  <1>3. CASE StartJob \/ ProcessEnds
    <2>1. PICK o : /\ FinishJobs(o.ended)
                   /\ \/ Converter!StartJob(o) \/ Converter!ProcessFinished(o)
                      \/ Converter!ProcessFailedToStart(o) \/ Converter!ProcessCrashed(o)
      BY <1>3, ConverterEvents
    <2>2. \A e \in o.ended : e.job \in jobs
      BY <1>t, <2>1, ConverterStep
    <2>3. UNCHANGED <<srcQueue, open, unacked, results>>
      BY <2>1, <2>2, FinishStep
    <2>4. CASE UNCHANGED failed
      <3>1. Outstanding' = Outstanding
        BY <2>3 DEF Outstanding, UnackedIn
      <3> QED
        BY <2>3, <2>4, <3>1, StageStutter
    <2>5. ASSUME NEW e \in o.ended, failed' = failed \cup {e.job}
          PROVE  Stage!Next
      <3>1. PICK m \in Messages : m = e.job
        BY <1>t, <2>2 DEF TypeOK, Converter!TypeOK
      <3>2. StillOutstanding(m)
        BY <1>t, <2>2, <3>1 DEF HeldOutstanding
      <3> QED
        BY <2>3, <2>5, <3>1, <3>2, RejectStep
    <2> QED
      BY <2>1, <2>2, <2>4, <2>5, FinishStep
  <1>4. ASSUME NEW s \in Sessions, (\E m \in Messages : Deliver(s, m)) \/ CloseSession(s)
        PROVE  UNCHANGED Stage!vars
    <2>1. UNCHANGED <<results, failed>>
      BY <1>4 DEF Deliver, CloseSession
    <2> QED
      BY <1>4, <2>1, MoveOutstanding, StageStutter
  <1>5. ASSUME NEW s \in Sessions, ReceivePublish(s) PROVE Stage!Next
    BY <1>5, ReceivePublishStep
  <1>6. ASSUME NEW s \in Sessions, ReceiveAck(s) PROVE Stage!Next \/ UNCHANGED Stage!vars
    BY <1>6, ReceiveAckStep
  <1>7. CASE UNCHANGED <<srcQueue, open, unacked, results, failed>>
    <2>1. Outstanding' = Outstanding
      BY <1>7 DEF Outstanding, UnackedIn
    <2> QED
      BY <1>7, <2>1, StageStutter
  <1>8. \/ Connect \/ HandleInvalidMessage \/ StartJob \/ ProcessEnds
        \/ \E s \in Sessions : \/ (\E m \in Messages : Deliver(s, m)) \/ CloseSession(s)
                               \/ ReceivePublish(s) \/ ReceiveAck(s)
        \/ UNCHANGED <<srcQueue, open, unacked, results, failed>>
    BY DEF Next, ProgramNext, BrokerNext, LinkBreaks, NoticeClosed, LoseConnection,
           HandleKnownMessage, HandleNewMessage, Crash, Restart, brokerVars, vars
  <1> QED
    BY <1>1, <1>2, <1>3, <1>4, <1>5, <1>6, <1>7, <1>8

\* The broker begins with every message, and nothing is published or rejected.
LEMMA StageInit == Init => Stage!Init /\ AckedDecided /\ NoLoss
  <1> SUFFICES ASSUME Init PROVE Stage!Init /\ AckedDecided /\ NoLoss
    OBVIOUS
  <1>1. /\ srcQueue = Messages /\ open = {} /\ failed = {}
        /\ results = [m \in Messages |-> 0]
    BY DEF Init
  <1>2. Outstanding = Messages
    BY <1>1 DEF Outstanding
  <1>3. {m \in Messages : results[m] > 0} = {}
    BY <1>1
  <1>4. Stage!Init
    BY <1>1, <1>2, <1>3 DEF Stage!Init
  <1>5. AckedDecided /\ NoLoss
    BY <1>1, <1>2 DEF AckedDecided, NoLoss
  <1> QED
    BY <1>4, <1>5

\* AtLeastOnce gives no message up that is neither published nor rejected.
LEMMA NoLossStep ==
    ASSUME NoLoss, [Stage!Next]_(Stage!vars)
    PROVE  NoLoss'
  <1> DEFINE published == {m \in Messages : results[m] > 0}
  <1>1. \A m \in Messages : m \in Outstanding \cup published \cup failed
    BY DEF NoLoss
  <1>2. CASE UNCHANGED Stage!vars
    BY <1>1, <1>2 DEF Stage!vars, NoLoss
  <1>3. CASE Stage!Next
    <2>1. PICK n \in Messages : Stage!Publish(n) \/ Stage!Reject(n) \/ Stage!Settle(n)
      BY <1>3 DEF Stage!Next
    <2>2. \A m \in Messages : m \in Outstanding' \cup published' \cup failed'
      BY <1>1, <2>1 DEF Stage!Publish, Stage!Reject, Stage!Settle
    <2> QED
      BY <2>2 DEF NoLoss
  <1> QED
    BY <1>2, <1>3

\* What the two theorems that follow share.
LEMMA DecidedInvariance ==
    ~ConverterMayCrash => (Spec => [](NoLoss /\ AcksDecided))
  <1> SUFFICES ASSUME ~ConverterMayCrash PROVE Spec => [](NoLoss /\ AcksDecided)
    OBVIOUS
  <1> DEFINE I == Inv /\ AckedDecided /\ NoLoss
  <1>1. Init => I
    BY InitInv, StageInit
  <1>2. I /\ [Next]_vars => I'
    <2> SUFFICES ASSUME I, [Next]_vars PROVE I'
      OBVIOUS
    <2>1. Inv'
      BY NextInv
    <2>2. AckedDecided'
      BY AckedDecidedNext
    <2>3. NoLoss'
      BY StageStep, NoLossStep
    <2> QED
      BY <2>1, <2>2, <2>3
  <1>3. I => NoLoss /\ AcksDecided
    BY AcksDecidedByFrames
  <1> QED
    BY <1>1, <1>2, <1>3, PTL DEF Spec

\* For any number of messages, sessions and restarts, if the python process does
\* not crash: the broker forgets a message only when it has a result or was
\* refused.  The condition is needed: a job that ends as "skipped" is
\* acknowledged without a result.
THEOREM NothingLost == ~ConverterMayCrash => (Spec => []NoLoss)
  <1>1. NoLoss /\ AcksDecided => NoLoss
    OBVIOUS
  <1>2. ASSUME ~ConverterMayCrash PROVE Spec => []NoLoss
    BY <1>1, <1>2, DecidedInvariance, PTL
  <1> QED
    BY <1>2

\* Under the same condition every ack on the way names the open delivery, once,
\* and the message was refused, or its result was routed or is ahead of the ack.
THEOREM AcksFollowResults == ~ConverterMayCrash => (Spec => []AcksDecided)
  <1>1. NoLoss /\ AcksDecided => AcksDecided
    OBVIOUS
  <1>2. ASSUME ~ConverterMayCrash PROVE Spec => []AcksDecided
    BY <1>1, <1>2, DecidedInvariance, PTL
  <1> QED
    BY <1>2

\* Under the same condition the whole stage, with its broker, crashes of the
\* program and lost sessions, implements AtLeastOnce.
THEOREM StageImplementsAtLeastOnce ==
    ~ConverterMayCrash => (Spec => StageDelivers)
  <1> SUFFICES ASSUME ~ConverterMayCrash PROVE Spec => StageDelivers
    OBVIOUS
  <1> DEFINE I == Inv /\ AckedDecided
  <1>1. Init => I /\ Stage!Init
    BY InitInv, StageInit
  <1>2. I /\ [Next]_vars => I'
    BY NextInv, AckedDecidedNext
  <1>3. I /\ [Next]_vars => [Stage!Next]_(Stage!vars)
    BY StageStep
  <1> HIDE DEF I
  <1> QED
    BY <1>1, <1>2, <1>3, PTL DEF Spec, StageDelivers, Stage!Spec

-----------------------------------------------------------------------------
(***************************************************************************)
(* The converter inside the stage.  Converter describes it with an owner   *)
(* of its own; here the owner is the runner, which submits what the broker *)
(* delivers, drops a handle in handleJobFinished() and all of them when    *)
(* the connection breaks.                                                  *)
(***************************************************************************)

\* The runner uses the converter as Converter assumes of its owner: it submits no
\* message that is still queued, and releases the handles that end.
LEMMA ConverterUse ==
    ASSUME Inv, [Next]_vars
    PROVE  [Converter!Next \/ Crash]_(Converter!vars)
  <1>t. TypeOK /\ InHand
    BY DEF Inv
  <1>1. CASE HandleNewMessage
    <2>1. /\ down # NoDelivery /\ jobsDeliveryTags[down.msg] = NoTag
          /\ Converter!ProcessJobMessage(down.msg)
          /\ jobs' = jobs \cup {down.msg}
      BY <1>1 DEF HandleNewMessage
    <2>2. PICK m \in Messages : m = down.msg
      BY <1>t, <2>1 DEF TypeOK, Delivery
    <2>3. m \notin Converter!Queued
      BY <2>1, <2>2 DEF Inv, QueuedKnown, Converter!Queued
    <2>4. Converter!Submit(m)
      BY <2>1, <2>2, <2>3 DEF Converter!Submit
    <2> QED
      BY <2>4 DEF Converter!Next
  <1>2. CASE LinkBreaks \/ NoticeClosed
    <2>1. jobs' = {} /\ UNCHANGED <<received, startsPosted, process, jobEnv, undefined>>
      BY <1>2 DEF LinkBreaks, NoticeClosed, LoseConnection, AbortAllJobs, converterVars
    <2>2. ~undefined
      BY <1>2 DEF LinkBreaks, NoticeClosed, LoseConnection, Running
    <2>3. CASE jobs = {}
      BY <2>1, <2>3 DEF Converter!vars, Converter!serviceVars
    <2>4. CASE jobs # {}
      <3>1. Converter!AbortAllJobs
        BY <2>1, <2>2, <2>4 DEF Converter!AbortAllJobs, Converter!serviceVars
      <3> QED
        BY <3>1 DEF Converter!Next
    <2> QED
      BY <2>3, <2>4
  <1>3. ASSUME NEW o, FinishJobs(o.ended),
               \/ Converter!StartJob(o) \/ Converter!ProcessFinished(o)
               \/ Converter!ProcessFailedToStart(o) \/ Converter!ProcessCrashed(o)
        PROVE  Converter!Release(o)
    <2>1. \A e \in o.ended : e.job \in jobs
      BY <1>3, <1>t, ConverterStep
    <2>2. CASE o.ended = {} /\ UNCHANGED jobs
      BY <2>2 DEF Converter!Release, Converter!JobsOf
    <2>3. CASE \E e \in o.ended : jobs = {e.job} /\ jobs' = {}
      BY <2>3 DEF Converter!Release, Converter!JobsOf
    <2> QED
      BY <1>3, <2>1, <2>2, <2>3, FinishStep
  <1>4. CASE StartJob
    <2>1. PICK o \in Converter!StartJobOutcomes(received, jobs) :
            Converter!StartJob(o) /\ FinishJobs(o.ended)
      BY <1>4 DEF StartJob
    <2>2. Converter!Release(o)
      BY <1>3, <2>1
    <2> QED
      BY <2>1, <2>2 DEF Converter!Start, Converter!Next
  <1>5. CASE ProcessEnds
    <2>1. PICK o \in Converter!ProcessOutcomes :
            /\ process = "Running"
            /\ \/ Converter!ProcessFinished(o) \/ Converter!ProcessFailedToStart(o)
               \/ Converter!ProcessCrashed(o)
            /\ FinishJobs(o.ended)
      BY <1>5 DEF ProcessEnds, ProcessFinished, ProcessFailedToStart, ProcessCrashed
    <2>2. Converter!Release(o)
      BY <1>3, <2>1
    <2> QED
      BY <2>1, <2>2 DEF Converter!Exit, Converter!Next
  <1>6. CASE UNCHANGED <<jobs, received, startsPosted, process, jobEnv, undefined>>
    BY <1>6 DEF Converter!vars, Converter!serviceVars
  <1>7. \/ HandleNewMessage \/ LinkBreaks \/ NoticeClosed \/ StartJob \/ ProcessEnds \/ Crash
        \/ UNCHANGED <<jobs, received, startsPosted, process, jobEnv, undefined>>
    BY DEF Next, ProgramNext, BrokerNext, Connect, HandleInvalidMessage, HandleKnownMessage,
           Restart, Deliver, ReceivePublish, ReceiveAck, CloseSession, converterVars, vars
  <1> QED
    BY <1>1, <1>2, <1>4, <1>5, <1>6, <1>7

\* What Converter assumes of the owner of the handles is what the runner does, for
\* any number of messages and sessions: the converter inside the stage takes steps
\* of Converter only, until the program dies.
THEOREM ConverterUsedAsAssumed ==
    Spec => Converter!Init /\ [][Converter!Next \/ Crash]_(Converter!vars)
  <1>1. Init => Converter!Init
    BY DEF Init
  <1>2. Inv /\ [Next]_vars => [Converter!Next \/ Crash]_(Converter!vars)
    BY ConverterUse
  <1> QED
    BY <1>1, <1>2, InitInv, NextInv, PTL DEF Spec

\* So what Converter_proofs shows of the converter on its own holds in the stage,
\* crashes and restarts of the program included: its queue is served exactly when
\* it is not empty, in the directory of the job at its front, every live handle has
\* one place in it, and without a crash of the python process it never underflows.
THEOREM ConverterSafeInStage ==
    Spec => [](/\ Converter!ServedOnce /\ Converter!EnvOfRunningJob /\ Converter!LiveJobsQueued
               /\ ~ConverterMayCrash => Converter!QueueNeverUnderflows)
  <1>a. ConverterProofs!ConverterAssumption
    BY PipelineAssumption DEF ConverterProofs!ConverterAssumption
  <1>1. Init => ConverterProofs!Inv
    <2>1. Init => ConverterProofs!Init
      BY DEF Init, Converter!Init, ConverterProofs!Init
    <2> QED
      BY <1>a, <2>1, ConverterProofs!InitInv
  <1>2. Crash => ConverterProofs!Inv'
    <2> SUFFICES ASSUME Crash PROVE ConverterProofs!Inv'
      OBVIOUS
    <2>1. /\ jobs' = {} /\ received' = <<>> /\ startsPosted' = 0
          /\ process' = "NotRunning" /\ jobEnv' = NoJob
      BY DEF Crash
    <2>2. ~undefined' /\ undefined' \in BOOLEAN
      BY Zenon DEF Crash
    <2> QED
      BY <2>1, <2>2
         DEF ConverterProofs!Inv, ConverterProofs!TypeOK, ConverterProofs!ServedOnce,
             ConverterProofs!EnvOfRunningJob, ConverterProofs!LiveJobsQueued,
             ConverterProofs!Queued
  <1>3. [Converter!Next]_(Converter!vars) => [ConverterProofs!Next]_(ConverterProofs!vars)
    BY DEF Converter!Next, ConverterProofs!Next, Converter!vars, ConverterProofs!vars,
           Converter!serviceVars, ConverterProofs!serviceVars,
           Converter!Submit, ConverterProofs!Submit, Converter!Queued, ConverterProofs!Queued,
           Converter!ProcessJobMessage, ConverterProofs!ProcessJobMessage,
           Converter!AbortAllJobs, ConverterProofs!AbortAllJobs,
           Converter!Start, ConverterProofs!Start, Converter!StartJob, ConverterProofs!StartJob,
           Converter!Exit, ConverterProofs!Exit, Converter!Release, ConverterProofs!Release,
           Converter!ProcessOutcomes, ConverterProofs!ProcessOutcomes,
           Converter!ProcessFinished, ConverterProofs!ProcessFinished,
           Converter!ProcessFailedToStart, ConverterProofs!ProcessFailedToStart,
           Converter!ProcessCrashed, ConverterProofs!ProcessCrashed,
           Converter!Settle, ConverterProofs!Settle, Converter!JobsOf, ConverterProofs!JobsOf,
           Converter!StartJobOutcomes, ConverterProofs!StartJobOutcomes,
           Converter!EndJobOutcomes, ConverterProofs!EndJobOutcomes,
           Converter!CrashOutcomes, ConverterProofs!CrashOutcomes,
           Converter!ServeOutcomes, ConverterProofs!ServeOutcomes,
           Converter!EndPrefix, ConverterProofs!EndPrefix,
           Converter!Finish, ConverterProofs!Finish,
           Converter!Undefined, ConverterProofs!Undefined
  <1>4. Inv /\ ConverterProofs!Inv /\ [Next]_vars => ConverterProofs!Inv'
    BY <1>a, <1>2, <1>3, ConverterUse, ConverterProofs!NextInv
  <1>5. ConverterProofs!Inv =>
          /\ Converter!ServedOnce /\ Converter!EnvOfRunningJob /\ Converter!LiveJobsQueued
          /\ ~ConverterMayCrash => Converter!QueueNeverUnderflows
    BY DEF ConverterProofs!Inv, ConverterProofs!ServedOnce, Converter!ServedOnce,
           ConverterProofs!EnvOfRunningJob, Converter!EnvOfRunningJob,
           ConverterProofs!LiveJobsQueued, Converter!LiveJobsQueued,
           ConverterProofs!Queued, Converter!Queued, Converter!QueueNeverUnderflows
  <1> QED
    BY <1>1, <1>4, <1>5, InitInv, NextInv, PTL DEF Spec
=============================================================================
