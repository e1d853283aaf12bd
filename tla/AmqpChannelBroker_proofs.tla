---------------------- MODULE AmqpChannelBroker_proofs ----------------------
(***************************************************************************)
(* BrokerSatisfied of AmqpChannel: the broker finds no frame that the      *)
(* protocol forbids, for any operations and any number of calls, messages  *)
(* and unasked closes.                                                     *)
(***************************************************************************)
EXTENDS AmqpChannel_proofs

-----------------------------------------------------------------------------
(***************************************************************************)
(* Messages in parts.  The frames of one publish follow each other; where  *)
(* frames move from one queue to the next, no message is cut.              *)
(***************************************************************************)
\* The frame g may come after f.
Joins(f, g) ==
    IF f.part < f.parts
    THEN f.id # 0 /\ g.id = f.id /\ g.parts = f.parts /\ g.part = f.part + 1
    ELSE g.part = 1

Chained(p) == \A i \in DOMAIN p : i + 1 \in DOMAIN p => Joins(p[i], p[i + 1])

Begun(p) == \A i \in DOMAIN p : i = 1 => p[i].part = 1

Ended(p) == \A i \in DOMAIN p : i + 1 \notin DOMAIN p => p[i].part >= p[i].parts

InWholes(p) == Begun(p) /\ Chained(p) /\ Ended(p)

\* The same of what comes after the frame r.
Resumes(r, p) ==
    /\ Chained(p) /\ Ended(p)
    /\ p = <<>> => r.part >= r.parts
    /\ p # <<>> => Joins(r, p[1])

\* The parts of a frame are numbers.
LEMMA FrameNumbers ==
    \A p \in Seq(Frames) : \A i \in DOMAIN p :
        p[i].id \in Nat /\ p[i].part \in Nat /\ p[i].parts \in Nat
  <1> SUFFICES ASSUME NEW p \in Seq(Frames), NEW i \in DOMAIN p
               PROVE  p[i].id \in Nat /\ p[i].part \in Nat /\ p[i].parts \in Nat
    OBVIOUS
  <1>1. p[i] \in Frames
    BY ElementOfSeq
  <1>2. MaxSize \in Nat /\ MaxCalls \in Nat
    BY ChannelAssumption
  <1>3. /\ p[i].id \in 0 .. MaxCalls + 2
        /\ p[i].part \in 1 .. 2 + MaxSize /\ p[i].parts \in 1 .. 2 + MaxSize
    BY <1>1 DEF Frames
  <1> QED
    BY <1>2, <1>3

LEMMA WholesConcatenated ==
    ASSUME NEW p \in Seq(Frames), NEW q \in Seq(Frames), InWholes(q), Ended(p), Chained(p)
    PROVE  /\ Chained(p \o q) /\ Ended(p \o q)
           /\ Begun(p) => Begun(p \o q)
  <1> DEFINE c == p \o q
  <1>1. /\ \A i \in DOMAIN p : i \in DOMAIN c /\ c[i] = p[i]
        /\ \A i \in DOMAIN q : Len(p) + i \in DOMAIN c /\ c[Len(p) + i] = q[i]
    OBVIOUS
  <1>2. /\ DOMAIN p = 1 .. Len(p) /\ DOMAIN q = 1 .. Len(q)
        /\ DOMAIN c = 1 .. Len(p) + Len(q) /\ Len(p) \in Nat /\ Len(q) \in Nat
    OBVIOUS
  <1>3. /\ \A i \in DOMAIN p : p[i].part \in Nat /\ p[i].parts \in Nat
        /\ \A i \in DOMAIN q : q[i].part \in Nat /\ q[i].parts \in Nat
    BY FrameNumbers
  <1> HIDE DEF c
  <1>4. ASSUME NEW i \in DOMAIN c, i + 1 \in DOMAIN c
        PROVE  Joins(c[i], c[i + 1])
    <2>1. CASE i + 1 \in DOMAIN p
      BY <1>1, <1>2, <2>1 DEF Chained
    <2>2. CASE i = Len(p)
      <3>1. i \in DOMAIN p /\ i + 1 \notin DOMAIN p
        BY <1>2, <2>2
      <3>2. c[i] = p[i] /\ p[i].part >= p[i].parts
        BY <1>1, <3>1 DEF Ended
      <3>3. 1 \in DOMAIN q /\ c[i + 1] = q[1] /\ q[1].part = 1
        BY <1>1, <1>2, <1>4, <2>2 DEF InWholes, Begun
      <3> QED
        BY <1>3, <3>1, <3>2, <3>3 DEF Joins
    <2>3. CASE i > Len(p)
      <3> DEFINE j == i - Len(p)
      <3>1. j \in DOMAIN q /\ j + 1 \in DOMAIN q /\ i = Len(p) + j /\ i + 1 = Len(p) + (j + 1)
        BY <1>2, <1>4, <2>3
      <3> HIDE DEF j
      <3> QED
        BY <1>1, <3>1 DEF InWholes, Chained
    <2> QED
      BY <1>2, <1>4, <2>1, <2>2, <2>3
  <1>5. ASSUME NEW i \in DOMAIN c, i + 1 \notin DOMAIN c
        PROVE  c[i].part >= c[i].parts
    <2>1. CASE q = <<>>
      <3>1. i \in DOMAIN p /\ i + 1 \notin DOMAIN p
        BY <1>2, <1>5, <2>1
      <3> QED
        BY <1>1, <3>1 DEF Ended
    <2>2. CASE q # <<>>
      <3> DEFINE j == i - Len(p)
      <3>1. j \in DOMAIN q /\ j + 1 \notin DOMAIN q /\ i = Len(p) + j
        <4>1. Len(q) >= 1
          BY <2>2
        <4> QED
          BY <1>2, <1>5, <4>1
      <3> HIDE DEF j
      <3> QED
        BY <1>1, <3>1 DEF InWholes, Ended
    <2> QED
      BY <2>1, <2>2
  <1>6. ASSUME Begun(p), 1 \in DOMAIN c
        PROVE  c[1].part = 1
    <2>1. CASE 1 \in DOMAIN p
      BY <1>1, <1>6, <2>1 DEF Begun
    <2>2. CASE 1 \notin DOMAIN p
      <3>1. Len(p) = 0 /\ 1 \in DOMAIN q
        BY <1>2, <1>6, <2>2
      <3>2. c[1] = q[1]
        BY <1>1, <3>1
      <3> QED
        BY <3>1, <3>2 DEF InWholes, Begun
    <2> QED
      BY <2>1, <2>2
  <1> QED
    BY <1>4, <1>5, <1>6 DEF Chained, Ended, Begun, c

LEMMA ResumesLater ==
    ASSUME NEW p \in Seq(Frames), NEW q \in Seq(Frames), InWholes(q), NEW r, Resumes(r, p),
           r.part \in Nat, r.parts \in Nat
    PROVE  Resumes(r, p \o q)
  <1>1. Chained(p \o q) /\ Ended(p \o q)
    BY WholesConcatenated DEF Resumes
  <1>2. CASE p = <<>>
    <2>1. p \o q = q
      BY <1>2
    <2>2. q # <<>> => 1 \in DOMAIN q /\ q[1].part = 1
      BY DEF InWholes, Begun
    <2> QED
      BY <1>1, <1>2, <2>1, <2>2 DEF Resumes, Joins
  <1>3. CASE p # <<>>
    <2>1. p \o q # <<>> /\ (p \o q)[1] = p[1]
      BY <1>3
    <2> QED
      BY <1>1, <1>3, <2>1 DEF Resumes
  <1> QED
    BY <1>2, <1>3

\* The first frame is read; one of no call does not count.
LEMMA ResumesRead ==
    ASSUME NEW p \in Seq(Frames), p # <<>>, NEW r, Resumes(r, p),
           r.part \in Nat, r.parts \in Nat,
           p[1].id = 0 => p[1].part = 1 /\ p[1].parts = 1,
           NEW next, IF p[1].id = 0 THEN next = r
                     ELSE /\ next.id = p[1].id /\ next.part = p[1].part
                          /\ next.parts = p[1].parts
    PROVE  Resumes(next, Tail(p))
  <1> DEFINE t == Tail(p)
  <1>1. /\ \A i \in DOMAIN t : i + 1 \in DOMAIN p /\ t[i] = p[i + 1]
        /\ DOMAIN t = 1 .. Len(p) - 1 /\ DOMAIN p = 1 .. Len(p) /\ Len(p) \in Nat
        /\ Len(p) >= 1
        /\ t = <<>> <=> Len(p) = 1
    <2>1. t \in Seq(Frames) /\ Len(t) = Len(p) - 1 /\ Len(p) \in Nat
      OBVIOUS
    <2>2. DOMAIN t = 1 .. Len(p) - 1 /\ DOMAIN p = 1 .. Len(p)
      BY <2>1
    <2>3. \A i \in DOMAIN t : i + 1 \in DOMAIN p /\ t[i] = p[i + 1]
      BY Shifted
    <2>4. t = <<>> <=> Len(t) = 0
      BY <2>1, EmptySeq
    <2>5. Len(p) >= 1
      BY EmptySeq
    <2> QED
      BY <2>1, <2>2, <2>3, <2>4, <2>5
  <1>2. /\ \A i \in DOMAIN p : p[i].part \in Nat /\ p[i].parts \in Nat
    BY FrameNumbers
  <1> HIDE DEF t
  <1>3. Chained(t)
    <2> SUFFICES ASSUME NEW i \in DOMAIN t, i + 1 \in DOMAIN t
                 PROVE  Joins(t[i], t[i + 1])
      BY DEF Chained
    <2>1. i + 1 \in DOMAIN p /\ (i + 1) + 1 \in DOMAIN p /\ t[i] = p[i + 1] /\ t[i + 1] = p[(i + 1) + 1]
      BY <1>1
    <2> QED
      BY <2>1 DEF Resumes, Chained
  <1>4. Ended(t)
    <2> SUFFICES ASSUME NEW i \in DOMAIN t, i + 1 \notin DOMAIN t
                 PROVE  t[i].part >= t[i].parts
      BY DEF Ended
    <2>1. i + 1 \in DOMAIN p /\ (i + 1) + 1 \notin DOMAIN p /\ t[i] = p[i + 1]
      BY <1>1
    <2> QED
      BY <2>1 DEF Resumes, Ended
  <1>5. p[1].id = 0 => r.part >= r.parts
    BY <1>2 DEF Resumes, Joins
  <1>6. t = <<>> => next.part >= next.parts
    <2>1. t = <<>> => 1 \in DOMAIN p /\ 1 + 1 \notin DOMAIN p
      BY <1>1
    <2>2. t = <<>> => p[1].part >= p[1].parts
      BY <2>1 DEF Resumes, Ended
    <2> QED
      BY <1>5, <2>2
  <1>7. t # <<>> => Joins(next, t[1])
    <2> SUFFICES ASSUME t # <<>>
                 PROVE  Joins(next, t[1])
      OBVIOUS
    <2>1. 1 \in DOMAIN t /\ 1 \in DOMAIN p /\ 1 + 1 \in DOMAIN p /\ t[1] = p[1 + 1]
      BY <1>1
    <2>2. Joins(p[1], t[1])
      BY <2>1 DEF Resumes, Chained
    <2>3. CASE p[1].id = 0
      BY <1>5, <2>2, <2>3 DEF Joins
    <2>4. CASE p[1].id # 0
      BY <2>2, <2>4 DEF Joins
    <2> QED
      BY <2>3, <2>4
  <1> QED
    BY <1>3, <1>4, <1>6, <1>7 DEF Resumes, t

\* A queue that is cut behind a whole message.
LEMMA WholesCut ==
    ASSUME NEW q \in Seq(Frames), InWholes(q), NEW k \in 0 .. Len(q),
           k # 0 => q[k].part >= q[k].parts
    PROVE  InWholes(SubSeq(q, 1, k)) /\ InWholes(SubSeq(q, k + 1, Len(q)))
  <1> DEFINE front == SubSeq(q, 1, k)
             rest  == SubSeq(q, k + 1, Len(q))
  <1>1. /\ DOMAIN front = 1 .. k /\ DOMAIN rest = 1 .. (Len(q) - k) /\ DOMAIN q = 1 .. Len(q)
        /\ Len(q) \in Nat /\ k \in Nat
    OBVIOUS
  <1>2. \A i \in DOMAIN front : i \in DOMAIN q /\ front[i] = q[i]
    OBVIOUS
  <1>3. \A i \in DOMAIN rest : k + i \in DOMAIN q /\ rest[i] = q[k + i]
    OBVIOUS
  <1>4. \A i \in DOMAIN q : q[i].part \in Nat /\ q[i].parts \in Nat
    BY FrameNumbers
  <1> HIDE DEF front, rest
  <1>5. Begun(front) /\ Chained(front)
    BY <1>1, <1>2 DEF InWholes, Begun, Chained
  <1>6. Ended(front)
    <2> SUFFICES ASSUME NEW i \in DOMAIN front, i + 1 \notin DOMAIN front
                 PROVE  front[i].part >= front[i].parts
      BY DEF Ended
    <2>1. i = k /\ k # 0
      BY <1>1
    <2> QED
      BY <1>2, <2>1
  <1>7. Begun(rest)
    <2> SUFFICES ASSUME 1 \in DOMAIN rest
                 PROVE  rest[1].part = 1
      BY DEF Begun
    <2>1. k + 1 \in DOMAIN q /\ rest[1] = q[k + 1]
      BY <1>3
    <2>2. CASE k = 0
      BY <2>1, <2>2 DEF InWholes, Begun
    <2>3. CASE k # 0
      <3>1. k \in DOMAIN q
        BY <1>1, <2>3
      <3>2. Joins(q[k], q[k + 1])
        BY <2>1, <3>1 DEF InWholes, Chained
      <3> QED
        BY <1>4, <2>1, <2>3, <3>1, <3>2 DEF Joins
    <2> QED
      BY <2>2, <2>3
  <1>8. Chained(rest)
    <2> SUFFICES ASSUME NEW i \in DOMAIN rest, i + 1 \in DOMAIN rest
                 PROVE  Joins(rest[i], rest[i + 1])
      BY DEF Chained
    <2>1. /\ k + i \in DOMAIN q /\ rest[i] = q[k + i]
          /\ (k + i) + 1 \in DOMAIN q /\ rest[i + 1] = q[(k + i) + 1]
      <3>1. k + (i + 1) = (k + i) + 1
        BY <1>1
      <3> QED
        BY <1>3, <3>1
    <2> QED
      BY <2>1 DEF InWholes, Chained
  <1>9. Ended(rest)
    <2> SUFFICES ASSUME NEW i \in DOMAIN rest, i + 1 \notin DOMAIN rest
                 PROVE  rest[i].part >= rest[i].parts
      BY DEF Ended
    <2>1. k + i \in DOMAIN q /\ rest[i] = q[k + i] /\ (k + i) + 1 \notin DOMAIN q
      BY <1>1, <1>3
    <2> QED
      BY <2>1 DEF InWholes, Ended
  <1> QED
    BY <1>5, <1>6, <1>7, <1>8, <1>9 DEF InWholes, front, rest

LEMMA EmptyWhole == InWholes(<<>>) /\ \A f : f.part = 1 /\ f.parts = 1 => InWholes(<<f>>)
  BY DEF InWholes, Begun, Chained, Ended

-----------------------------------------------------------------------------
(***************************************************************************)
(* What the library does to the frames.  From s it goes to t: the frames   *)
(* on their way stay, those that come behind them were queued or are new   *)
(* (of a call, in new; or a close frame, in closing), and a queue only     *)
(* gets new frames.  What was whole stays so.                              *)
(***************************************************************************)
Held(s) == ToSet(s.connection.queue) \cup ToSet(s.channel.queue)

\* flush() may stop behind any synchronous frame.
Flushable(q) ==
    /\ InWholes(q)
    /\ \A i \in DOMAIN q : Synchronous(q[i]) => q[i].part >= q[i].parts

\* No message is cut, given that r was the last frame read.
WholeIn(s, r) ==
    /\ Resumes(r, s.toBroker)
    /\ InWholes(s.connection.queue)
    /\ s.connection.state \in {"handshake", "connected"} => Flushable(s.channel.queue)

Extends(p, q, more) ==
    /\ \A i \in DOMAIN p : i \in DOMAIN q /\ q[i] = p[i]
    /\ \A i \in DOMAIN q : i \in DOMAIN p \/ q[i] \in more

Goes(s, t, r, new, closing) ==
    /\ Extends(s.toBroker, t.toBroker, Held(s) \cup new \cup closing)
    /\ ToSet(s.connection.queue) \subseteq ToSet(t.connection.queue) \cup ToSet(t.toBroker)
    /\ ToSet(t.connection.queue) \subseteq ToSet(s.connection.queue) \cup new
    /\ ToSet(t.channel.queue) \subseteq ToSet(s.channel.queue) \cup new
    /\ t.connection.state = "handshake" =>
           s.connection.state = "handshake" /\ t.toBroker = s.toBroker
    /\ t.connection.state = "connected" => s.connection.state \in {"handshake", "connected"}
    /\ WholeIn(s, r) => WholeIn(t, r)

LEMMA GoesOn ==
    ASSUME NEW s, NEW t, NEW u, NEW r, NEW new, NEW closing,
           Goes(s, t, r, new, closing), Goes(t, u, r, new, closing)
    PROVE  Goes(s, u, r, new, closing)
  <1>1. Held(t) \subseteq Held(s) \cup new
    BY DEF Goes, Held
  <1>2. Extends(s.toBroker, u.toBroker, Held(s) \cup new \cup closing)
    <2>1. ASSUME NEW i \in DOMAIN s.toBroker
          PROVE  i \in DOMAIN u.toBroker /\ u.toBroker[i] = s.toBroker[i]
      BY DEF Goes, Extends
    <2>2. ASSUME NEW i \in DOMAIN u.toBroker
          PROVE  i \in DOMAIN s.toBroker \/ u.toBroker[i] \in Held(s) \cup new \cup closing
      <3>1. CASE i \in DOMAIN t.toBroker
        BY <3>1 DEF Goes, Extends
      <3>2. CASE i \notin DOMAIN t.toBroker
        BY <1>1, <3>2 DEF Goes, Extends
      <3> QED
        BY <3>1, <3>2
    <2> QED
      BY <2>1, <2>2 DEF Extends
  <1>3. ToSet(t.toBroker) \subseteq ToSet(u.toBroker)
    BY DEF Goes, Extends, ToSet
  <1>4. ToSet(s.connection.queue) \subseteq ToSet(u.connection.queue) \cup ToSet(u.toBroker)
    BY <1>3 DEF Goes
  <1>5. /\ ToSet(u.connection.queue) \subseteq ToSet(s.connection.queue) \cup new
        /\ ToSet(u.channel.queue) \subseteq ToSet(s.channel.queue) \cup new
    BY DEF Goes
  <1>6. /\ u.connection.state = "handshake" =>
               s.connection.state = "handshake" /\ u.toBroker = s.toBroker
        /\ u.connection.state = "connected" => s.connection.state \in {"handshake", "connected"}
        /\ WholeIn(s, r) => WholeIn(u, r)
    BY DEF Goes
  <1> QED
    BY <1>2, <1>4, <1>5, <1>6 DEF Goes

\* More may be new than is.
LEMMA GoesFurther ==
    ASSUME NEW s, NEW t, NEW r, NEW new, NEW closing, Goes(s, t, r, new, closing),
           NEW more, new \subseteq more, NEW others, closing \subseteq others
    PROVE  Goes(s, t, r, more, others)
  BY DEF Goes, Extends

LEMMA NothingFlushable == Flushable(<<>>)
  BY EmptyWhole DEF Flushable

\* The frames stay where they are, or the queue of the channel is dropped.
LEMMA GoesStill ==
    ASSUME NEW s, NEW t, NEW r, NEW new, NEW closing,
           t.toBroker = s.toBroker, t.connection.queue = s.connection.queue,
           t.connection.state = s.connection.state
               \/ t.connection.state \notin {"handshake", "connected"},
           t.channel.queue = s.channel.queue \/ t.channel.queue = <<>>
    PROVE  Goes(s, t, r, new, closing)
  <1>1. ToSet(<<>>) = {}
    BY DEF ToSet
  <1>2. WholeIn(s, r) => WholeIn(t, r)
    BY NothingFlushable DEF WholeIn
  <1>3. Extends(s.toBroker, t.toBroker, Held(s) \cup new \cup closing)
    BY DEF Extends
  <1> QED
    BY <1>1, <1>2, <1>3 DEF Goes

-----------------------------------------------------------------------------
(***************************************************************************)
(* Sending.                                                                *)
(***************************************************************************)
LEMMA SetConcatenated ==
    ASSUME NEW p \in Seq(Frames), NEW q \in Seq(Frames)
    PROVE  /\ ToSet(p \o q) = ToSet(p) \cup ToSet(q)
           /\ Extends(p, p \o q, ToSet(q))
  <1> DEFINE c == p \o q
  <1>1. /\ \A i \in DOMAIN p : i \in DOMAIN c /\ c[i] = p[i]
        /\ \A j \in DOMAIN q : Len(p) + j \in DOMAIN c /\ c[Len(p) + j] = q[j]
        /\ \A i \in DOMAIN c : \/ i \in DOMAIN p /\ c[i] = p[i]
                               \/ \E j \in DOMAIN q : i = Len(p) + j /\ c[i] = q[j]
    BY Concatenated
  <1> HIDE DEF c
  <1>2. ToSet(c) \subseteq ToSet(p) \cup ToSet(q)
    BY <1>1 DEF ToSet
  <1>3. ToSet(p) \cup ToSet(q) \subseteq ToSet(c)
    BY <1>1 DEF ToSet
  <1>4. Extends(p, c, ToSet(q))
    BY <1>1 DEF ToSet, Extends
  <1> QED
    BY <1>2, <1>3, <1>4 DEF c

LEMMA FlushableConcatenated ==
    ASSUME NEW p \in Seq(Frames), NEW q \in Seq(Frames), Flushable(p), Flushable(q)
    PROVE  Flushable(p \o q)
  <1>1. InWholes(p \o q)
    BY WholesConcatenated DEF Flushable, InWholes
  <1>2. \A i \in DOMAIN (p \o q) :
            \/ i \in DOMAIN p /\ (p \o q)[i] = p[i]
            \/ \E j \in DOMAIN q : i = Len(p) + j /\ (p \o q)[i] = q[j]
    BY Concatenated
  <1> QED
    BY <1>1, <1>2 DEF Flushable

\* Numbers of the last frame read.
Part(r) == r.part \in Nat /\ r.parts \in Nat

LEMMA TransmitGoes ==
    ASSUME NEW s \in States, NEW r, Part(r), NEW frames \in Seq(Frames), InWholes(frames),
           NEW new, ToSet(frames) \subseteq new, NEW closing
    PROVE  Goes(s, Transmit(s, frames), r, new, closing)
  <1> DEFINE t == Transmit(s, frames)
             con == [s.connection EXCEPT !.queue = s.connection.queue \o frames]
  <1>1. /\ s.toBroker \in Seq(Frames) /\ s.connection.queue \in Seq(Frames)
        /\ s.channel.queue \in Seq(Frames)
        /\ s.connection \in Connections
    BY DEF States, Channels, Connections
  <1>2. CASE s.connection.state = "connected" /\ s.connection.queue = <<>>
    <2>1. t.toBroker = s.toBroker \o frames /\ t.connection = s.connection /\ t.channel = s.channel
      BY <1>2 DEF Transmit, States
    <2> HIDE DEF t
    <2>2. Extends(s.toBroker, t.toBroker, Held(s) \cup new \cup closing)
      BY <1>1, <2>1, SetConcatenated DEF Extends
    <2>3. WholeIn(s, r) => WholeIn(t, r)
      BY <1>1, <2>1, ResumesLater DEF WholeIn, Part
    <2> QED
      BY <1>2, <2>1, <2>2, <2>3 DEF Goes, t
  <1>3. CASE ~(s.connection.state = "connected" /\ s.connection.queue = <<>>)
    <2>1. t.toBroker = s.toBroker /\ t.connection = con /\ t.channel = s.channel
      BY <1>3 DEF Transmit, States, Connections
    <2>2. con.queue = s.connection.queue \o frames /\ con.state = s.connection.state
      BY <1>1 DEF Connections
    <2> HIDE DEF t, con
    <2>3. ToSet(t.connection.queue) = ToSet(s.connection.queue) \cup ToSet(frames)
      BY <1>1, <2>1, <2>2, SetConcatenated
    <2>4. WholeIn(s, r) => WholeIn(t, r)
      BY <1>1, <2>1, <2>2, WholesConcatenated DEF WholeIn, InWholes
    <2>5. Extends(s.toBroker, t.toBroker, Held(s) \cup new \cup closing)
      BY <2>1 DEF Extends
    <2> QED
      BY <2>1, <2>2, <2>3, <2>4, <2>5 DEF Goes, t
  <1> QED
    BY <1>2, <1>3

\* A close frame, on a connection that is ready.
LEMMA ControlGoes ==
    ASSUME NEW s, NEW read, NEW n, Sound(s, read, n), NEW r, Part(r),
           s.connection.state \in {"connected", "closing", "closed"},
           NEW op \in {"connectionClose", "connectionCloseOK", "channelCloseOK"},
           NEW new, NEW closing, Control(op) \in closing
    PROVE  Goes(s, SendIfAccepted(s, Control(op)), r, new, closing)
  <1> DEFINE f == Control(op)
             frames == <<f>>
  <1>1. f \in Frames /\ f.part = 1 /\ f.parts = 1
    BY ControlFrame DEF Control, FrameOfCall
  <1>2. /\ s \in States /\ s.toBroker \in Seq(Frames) /\ s.connection.queue = <<>>
    BY DEF Sound, States
  <1>3. CASE Accepts(s.connection, f)
    <2>1. s.connection.state = "connected"
      BY <1>3 DEF Accepts
    <2> DEFINE t == SendIfAccepted(s, f)
    <2>2. /\ t.toBroker = s.toBroker \o frames /\ t.connection = s.connection
          /\ t.channel = s.channel
      BY <1>2, <1>3, <2>1 DEF SendIfAccepted, Transmit, States
    <2> HIDE DEF t
    <2>3. frames \in Seq(Frames) /\ InWholes(frames) /\ ToSet(frames) \subseteq closing
      BY <1>1, EmptyWhole DEF ToSet
    <2> HIDE DEF frames, f
    <2>4. Extends(s.toBroker, t.toBroker, Held(s) \cup new \cup closing)
      BY <1>2, <2>2, <2>3, SetConcatenated DEF Extends
    <2>5. WholeIn(s, r) => WholeIn(t, r)
      BY <1>2, <2>2, <2>3, ResumesLater DEF WholeIn, Part
    <2> QED
      BY <2>1, <2>2, <2>4, <2>5 DEF Goes, t, f
  <1>4. CASE ~Accepts(s.connection, f)
    BY <1>4, GoesStill DEF SendIfAccepted
  <1> QED
    BY <1>3, <1>4

LEMMA CloseWhenIdleGoes ==
    ASSUME NEW s, NEW read, NEW n, Sound(s, read, n), NEW r, Part(r),
           NEW new, NEW closing, Control("connectionClose") \in closing
    PROVE  Goes(s, SendCloseWhenIdle(s), r, new, closing)
  <1>1. CASE ~(s.connection.closeCalled /\ s.connection.state = "connected" /\ ~WaitingChannels(s))
    BY <1>1, GoesStill DEF SendCloseWhenIdle
  <1>2. CASE s.connection.closeCalled /\ s.connection.state = "connected" /\ ~WaitingChannels(s)
    <2> DEFINE f == Control("connectionClose")
               t == SendIfAccepted(s, f)
               u == SendClose(s)
    <2>1. SendCloseWhenIdle(s) = u
      BY <1>2 DEF SendCloseWhenIdle
    <2>2. Goes(s, t, r, new, closing)
      BY <1>2, ControlGoes
    <2>3. Sound(t, read, n)
      BY ControlSound
    <2>4. t \in States /\ t.connection \in Connections
      BY <2>3 DEF Sound, States
    <2>5. u = [t EXCEPT !.connection.state = "closing"]
      BY DEF SendClose
    <2> HIDE DEF t, u
    <2>6. /\ u.toBroker = t.toBroker /\ u.channel = t.channel
          /\ u.connection.queue = t.connection.queue /\ u.connection.state = "closing"
      BY <2>4, <2>5 DEF States, Connections
    <2>7. Goes(t, u, r, new, closing)
      BY <2>6, GoesStill
    <2> QED
      BY <2>1, <2>2, <2>7, GoesOn
  <1> QED
    BY <1>1, <1>2

\* The handshake has ended.
LEMMA ReadyGoes ==
    ASSUME NEW s, NEW read, NEW n, Sound(s, read, n), NEW r, Part(r),
           s.connection.state = "handshake",
           NEW new, NEW closing, Control("connectionClose") \in closing
    PROVE  Goes(s, SetReady(s), r, new, closing)
  <1> DEFINE con == [s.connection EXCEPT !.state = "connected", !.queue = <<>>]
             t == [s EXCEPT !.connection = con, !.toBroker = s.toBroker \o s.connection.queue]
  <1>1. /\ s \in States /\ s.connection \in Connections /\ s.toBroker \in Seq(Frames)
        /\ s.connection.queue \in Seq(Frames) /\ s.channel.queue \in Seq(Frames)
    BY DEF Sound, States, Connections, Channels
  <1>2. SetReady(s) = SendCloseWhenIdle(t)
    BY <1>1 DEF SetReady, States, Connections
  <1>3. con.queue = <<>> /\ con.state = "connected" /\ con \in Connections
    BY <1>1, EmptySeq DEF Connections
  <1> HIDE DEF con
  <1>4. /\ t \in States /\ t.connection = con /\ t.channel = s.channel
        /\ t.toBroker = s.toBroker \o s.connection.queue
    BY <1>1, <1>3, Concatenated DEF States
  <1>5. Sound(t, read, n)
    <2>1. Sound([s EXCEPT !.connection = con, !.toBroker = s.toBroker \o s.connection.queue], read, n)
      <3> HIDE DEF t
      <3>1. /\ InOrder(t.toBroker) /\ AllBefore(t.toBroker, s.channel.queue)
            /\ AllBefore(<<read>>, t.toBroker)
        BY <1>1, <1>4, InOrderConcatenated, BeforeConcatenated DEF Sound
      <3>2. Numbered(t.toBroker, n)
        BY <1>1, <1>4, NumberedConcatenated DEF Sound
      <3>3. Sound(t, read, n)
        BY <1>3, <1>4, <3>1, <3>2, EmptyParts DEF Sound
      <3> QED
        BY <3>3 DEF t
    <2> QED
      BY <2>1
  <1> HIDE DEF t
  <1>6. Goes(s, t, r, new, closing)
    <2>1. Extends(s.toBroker, t.toBroker, Held(s) \cup new \cup closing)
      <3>1. Extends(s.toBroker, t.toBroker, ToSet(s.connection.queue))
        BY <1>1, <1>4, SetConcatenated
      <3>2. ToSet(s.connection.queue) \subseteq Held(s) \cup new \cup closing
        BY DEF Held
      <3> QED
        BY <3>1, <3>2 DEF Extends
    <2>2. /\ ToSet(t.toBroker) = ToSet(s.toBroker) \cup ToSet(s.connection.queue)
          /\ ToSet(t.connection.queue) = {}
      <3>1. ToSet(<<>>) = {}
        BY DEF ToSet
      <3> QED
        BY <1>1, <1>3, <1>4, <3>1, SetConcatenated
    <2>3. WholeIn(s, r) => WholeIn(t, r)
      BY <1>1, <1>3, <1>4, ResumesLater, EmptyWhole DEF WholeIn, Part
    <2> QED
      BY <1>3, <1>4, <2>1, <2>2, <2>3 DEF Goes
  <1>7. Goes(t, SendCloseWhenIdle(t), r, new, closing)
    BY <1>5, CloseWhenIdleGoes
  <1> QED
    BY <1>2, <1>6, <1>7, GoesOn

-----------------------------------------------------------------------------
(***************************************************************************)
(* Calls.                                                                  *)
(***************************************************************************)
\* The frames of a call, of which frame is the first.
Callable(frame) ==
    /\ frame \in Frames /\ frame.part = 1
    /\ frame.op \in DOMAIN RequestFrame
    /\ frame.op # "publish" => frame.parts = 1

Made(frame) == {[frame EXCEPT !.part = i] : i \in 1 .. frame.parts}

\* A call sends all of its frames or none, and none on a channel that is not
\* usable; one that closes it does so with its frame.
Issues(s, t, r, frame, closing) ==
    /\ \/ t.channel.state = s.channel.state
       \/ frame.op = "close" /\ Usable(s.channel) /\ t.channel.state = "closing"
    /\ \/ Goes(s, t, r, {}, closing)
       \/ /\ Goes(s, t, r, Made(frame), closing)
          /\ Usable(s.channel) /\ s.channel.linked
          /\ frame.op = "close" => t.channel.state = "closing"

LEMMA PublishNotSynchronous == "publish" \notin SynchronousOperations
  <1>1. "publish" \in DOMAIN RequestFrame
    BY OperationNames
  <1>2. "publish" \notin DOMAIN ChannelRequests \cup DOMAIN ExchangeRequests \cup DOMAIN QueueRequests
    BY DEF ChannelRequests, ExchangeRequests, QueueRequests
  <1>3. MessageRequests["publish"] = BasicPublishFrame /\ "publish" \in DOMAIN MessageRequests
    BY DEF MessageRequests
  <1>4. RequestFrame["publish"] = BasicPublishFrame
    BY <1>1, <1>2, <1>3 DEF RequestFrame
  <1>5. ~BasicPublishFrame.sync
    BY DEF BasicPublishFrame, Asynchronous, BasicFrame, MethodFrame, ExtFrame
  <1> QED
    BY <1>4, <1>5 DEF SynchronousOperations

LEMMA HoldGoes ==
    ASSUME NEW s \in States, NEW r, Part(r), NEW frames \in Seq(Frames), Flushable(frames),
           NEW new, ToSet(frames) \subseteq new, NEW closing
    PROVE  Goes(s, Hold(s, frames), r, new, closing)
  <1> DEFINE t == Hold(s, frames)
  <1>1. s.channel \in Channels /\ s.channel.queue \in Seq(Frames)
    BY DEF States, Channels
  <1>2. /\ t.toBroker = s.toBroker /\ t.connection = s.connection
        /\ t.channel.queue = s.channel.queue \o frames
    BY <1>1 DEF Hold, States, Channels
  <1> HIDE DEF t
  <1>3. Extends(s.toBroker, t.toBroker, Held(s) \cup new \cup closing)
    BY <1>2 DEF Extends
  <1>4. ToSet(t.channel.queue) = ToSet(s.channel.queue) \cup ToSet(frames)
    BY <1>1, <1>2, SetConcatenated
  <1>5. WholeIn(s, r) => WholeIn(t, r)
    BY <1>1, <1>2, FlushableConcatenated DEF WholeIn
  <1> QED
    BY <1>2, <1>3, <1>4, <1>5 DEF Goes, t

LEMMA SendFramesGoes ==
    ASSUME NEW s \in States, NEW r, Part(r), NEW frames \in Seq(Frames), Flushable(frames),
           NEW new, ToSet(frames) \subseteq new, NEW closing
    PROVE  Goes(s, SendFrames(s, frames), r, new, closing)
  <1>1. CASE s.channel.state = "closing"
    BY <1>1, GoesStill DEF SendFrames
  <1>2. CASE s.channel.state # "closing" /\ Waiting(s.channel)
    BY <1>2, HoldGoes DEF SendFrames
  <1>3. CASE s.channel.state # "closing" /\ ~Waiting(s.channel)
    <2> DEFINE u == Transmit(s, frames)
               t == SendFrames(s, frames)
    <2>1. Goes(s, u, r, new, closing)
      BY TransmitGoes DEF Flushable
    <2>2. /\ DOMAIN u = {"channel", "connection", "toBroker", "outcome", "delivered"}
          /\ u.channel = s.channel /\ s.channel \in Channels
      BY DEF Transmit, States
    <2>3. t = [u EXCEPT !.channel.synchronous = (SynchronousIn(frames) # {})]
      BY <1>3 DEF SendFrames, SendAtOnce
    <2> HIDE DEF u, t
    <2>4. /\ t.toBroker = u.toBroker /\ t.connection = u.connection
          /\ t.channel.queue = u.channel.queue
      BY <2>2, <2>3 DEF Channels
    <2>5. Goes(u, t, r, new, closing)
      BY <2>4, GoesStill
    <2> QED
      BY <2>1, <2>5, GoesOn DEF t
  <1> QED
    BY <1>1, <1>2, <1>3

LEMMA PushGoes ==
    ASSUME NEW s, NEW read, NEW n, Sound(s, read, n), NEW failed \in BOOLEAN,
           Len(s.outcome) + 1 <= MaxCalls + 2, NEW r, NEW new, NEW closing
    PROVE  /\ Goes(s, Push(s, failed), r, new, closing)
           /\ Push(s, failed).channel.state = s.channel.state
           /\ Push(s, failed).channel.linked = s.channel.linked
  <1> DEFINE t == Push(s, failed)
  <1>1. s.channel \in Channels
    BY DEF Sound, States
  <1>2. t.connection = s.connection /\ t.toBroker = s.toBroker
    BY PushSound
  <1>3. PICK chain \in Seq(1 .. MaxCalls + 2) : t.channel = [s.channel EXCEPT !.chain = chain]
    BY PushSound
  <1> HIDE DEF t
  <1>4. /\ t.channel.queue = s.channel.queue /\ t.channel.state = s.channel.state
        /\ t.channel.linked = s.channel.linked
    BY <1>1, <1>3 DEF Channels
  <1>5. Goes(s, t, r, new, closing)
    BY <1>2, <1>4, GoesStill
  <1> QED
    BY <1>4, <1>5 DEF t

LEMMA RequestGoes ==
    ASSUME NEW s, NEW read, NEW k, Sound(s, read, k), NEW r, Part(r),
           NEW frame \in Frames, frame.id = k + 1, Callable(frame), frame.parts = 1,
           Len(s.outcome) + 1 <= MaxCalls + 2
    PROVE  /\ Request(s, frame).channel.state = s.channel.state
           /\ \/ Goes(s, Request(s, frame), r, {}, {})
              \/ /\ Goes(s, Request(s, frame), r, Made(frame), {})
                 /\ Usable(s.channel) /\ s.channel.linked
  <1> DEFINE t == SendFrame(s, frame)
             n == k + 1
             failed == ~Sends(s, frame)
             frames == <<frame>>
             u == Request(s, frame)
  <1>1. n \in Nat /\ k <= n /\ k < frame.id /\ frame.id <= n
    BY DEF Sound
  <1>2. Sound(t, read, n) /\ Keeps(s, t) /\ SameChannel(s, t)
    <2> HIDE DEF n
    <2> QED
      BY <1>1, SendFrameSound
  <1>3. u = Push(t, failed) /\ failed \in BOOLEAN
    BY DEF Request, Sends
  <1>4. Len(t.outcome) + 1 <= MaxCalls + 2
    BY <1>2 DEF SameChannel
  <1>5. frame \in Made(frame)
    <2>1. frame = [frame EXCEPT !.part = 1] /\ 1 \in 1 .. frame.parts
      BY DEF Callable, Frames
    <2> QED
      BY <2>1 DEF Made
  <1>6. frames \in Seq(Frames) /\ Flushable(frames) /\ ToSet(frames) \subseteq Made(frame)
    <2>1. InWholes(frames)
      BY EmptyWhole DEF Callable
    <2>2. Flushable(frames)
      BY <2>1 DEF Flushable, Callable
    <2> QED
      BY <1>5, <2>2 DEF ToSet
  <1>7. s \in States /\ s.channel \in Channels
    BY DEF Sound, States
  <1>8. CASE Sends(s, frame) /\ s.channel.state # "closing"
    <2>1. t = SendFrames(s, frames)
      BY <1>8 DEF SendFrame
    <2>2. Usable(s.channel) /\ s.channel.linked
      BY <1>7, <1>8 DEF Sends, Usable, Channels
    <2> HIDE DEF t, frames, failed, u
    <2>3. Goes(s, t, r, Made(frame), {})
      BY <1>6, <1>7, <2>1, SendFramesGoes
    <2>4. Goes(t, u, r, Made(frame), {}) /\ u.channel.state = t.channel.state
      BY <1>2, <1>3, <1>4, PushGoes
    <2>5. Goes(s, u, r, Made(frame), {})
      BY <2>3, <2>4, GoesOn
    <2> QED
      BY <1>2, <2>2, <2>4, <2>5 DEF SameChannel, u
  <1>9. CASE ~(Sends(s, frame) /\ s.channel.state # "closing")
    <2>1. t = s
      BY <1>9 DEF SendFrame, SendFrames
    <2> HIDE DEF t, frames, failed, u
    <2>2. Goes(t, u, r, {}, {}) /\ u.channel.state = t.channel.state
      BY <1>2, <1>3, <1>4, PushGoes
    <2> QED
      BY <2>1, <2>2 DEF u
  <1> QED
    BY <1>8, <1>9

LEMMA CloseChannelIssues ==
    ASSUME NEW s, NEW read, NEW k, Sound(s, read, k), Drained(s), NEW r, Part(r),
           NEW frame \in Frames, frame.id = k + 1, Callable(frame), frame.op = "close",
           Len(s.outcome) + 1 <= MaxCalls + 2
    PROVE  Issues(s, CloseChannel(s, frame), r, frame, {})
  <1> DEFINE t == CloseChannel(s, frame)
  <1>0. frame.parts = 1
    BY DEF Callable
  <1>1. CASE Usable(s.channel) /\ Sends(s, frame)
    <2> DEFINE u == Request(s, frame)
    <2>1. Sound(u, read, k + 1)
      BY RequestSound
    <2>2. u \in States /\ u.channel \in Channels
      BY <2>1 DEF Sound, States
    <2>3. \/ Goes(s, u, r, {}, {})
          \/ Goes(s, u, r, Made(frame), {}) /\ Usable(s.channel) /\ s.channel.linked
      BY <1>0, RequestGoes
    <2>4. t = [u EXCEPT !.channel.state = "closing"]
      BY <1>1 DEF CloseChannel, Usable
    <2> HIDE DEF u, t
    <2>5. /\ t.toBroker = u.toBroker /\ t.connection = u.connection
          /\ t.channel.queue = u.channel.queue /\ t.channel.state = "closing"
      BY <2>2, <2>4 DEF States, Channels
    <2>6. \A new : Goes(u, t, r, new, {})
      BY <2>5, GoesStill
    <2>7. Goes(s, t, r, {}, {}) \/ (Goes(s, t, r, Made(frame), {}) /\ s.channel.linked)
      BY <2>3, <2>6, GoesOn
    <2> QED
      BY <1>1, <2>5, <2>7 DEF Issues, t
  <1>2. CASE ~(Usable(s.channel) /\ Sends(s, frame))
    <2>1. t = Push(s, TRUE) \/ t = [Push(s, FALSE) EXCEPT !.outcome[Len(s.outcome) + 1] = "ignored"]
      BY <1>2 DEF CloseChannel, Usable
    <2>2. PICK failed \in BOOLEAN : /\ t.toBroker = Push(s, failed).toBroker
                                    /\ t.connection = Push(s, failed).connection
                                    /\ t.channel = Push(s, failed).channel
      <3>1. CASE t = Push(s, TRUE)
        BY <3>1
      <3>2. CASE t # Push(s, TRUE)
        <4> DEFINE u == Push(s, FALSE)
        <4>1. DOMAIN u = {"channel", "connection", "toBroker", "outcome", "delivered"}
          BY DEF Push, Sound, States
        <4>2. t = [u EXCEPT !.outcome[Len(s.outcome) + 1] = "ignored"]
          BY <2>1, <3>2
        <4> HIDE DEF u, t
        <4>3. t.toBroker = u.toBroker /\ t.connection = u.connection /\ t.channel = u.channel
          BY <4>1, <4>2
        <4> QED
          BY <4>3 DEF u
      <3> QED
        BY <3>1, <3>2
    <2> DEFINE u == Push(s, failed)
    <2> HIDE DEF t
    <2>3. Goes(s, u, r, {}, {}) /\ u.channel.state = s.channel.state
      BY PushGoes
    <2> HIDE DEF u
    <2>4. Goes(u, t, r, {}, {})
      BY <2>2, GoesStill DEF u
    <2>5. Goes(s, t, r, {}, {})
      BY <2>3, <2>4, GoesOn
    <2> QED
      BY <2>2, <2>3, <2>5 DEF Issues, t, u
  <1> QED
    BY <1>1, <1>2

\* A message goes out in all of its parts or in none.
LEMMA SendPartsIssues ==
    ASSUME "publish" \notin Oversized,
           NEW s, NEW read, NEW k, Sound(s, read, k), Drained(s), NEW r, Part(r),
           NEW frame \in Frames, frame.id = k + 1, Callable(frame), frame.op \in Unanswered
    PROVE  Issues(s, SendParts(s, frame), r, frame, {})
  <1> DEFINE refused == Refused(s, frame)
             taken   == Taken(s, frame)
             frames  == Parts(s, frame)
             u == SendFrames(s, frames)
             t == SendParts(s, frame)
             n == k + 1
  <1>1. s \in States /\ n \in Nat /\ k <= n /\ k < n /\ frame.id = n /\ k \in Nat
    BY DEF Sound
  <1>2. t = [u EXCEPT !.outcome = Append(@, IF refused = {} THEN "done" ELSE "refused")]
    BY DEF SendParts, Parts, Taken, Refused
  <1>3. /\ frames \in Seq(Frames) /\ DOMAIN frames = 1 .. taken /\ taken \in 0 .. frame.parts
        /\ \A i \in DOMAIN frames : /\ frames[i].id = frame.id /\ frames[i].op = frame.op
                                    /\ frames[i].part = i
        /\ frames # <<>> => Sends(s, frames[1])
    BY PartsTaken
  <1>4. \A i \in DOMAIN frames : frames[i] = [frame EXCEPT !.part = i]
    BY <1>3 DEF Parts
  <1>5. frame.parts \in 1 .. 2 + MaxSize /\ MaxSize \in Nat
    BY ChannelAssumption DEF Frames
  <1>6. taken = frame.parts \/ taken = 0
    <2>1. refused = {} => taken = frame.parts
      BY DEF Taken
    <2>2. ASSUME refused # {}
          PROVE  taken = 0
      <3>1. PICK i \in 1 .. frame.parts : ~Sends(s, [frame EXCEPT !.part = i])
        BY <2>2 DEF Refused
      <3>2. 1 \in 1 .. frame.parts
        BY <1>5
      <3>3. ~Sends(s, [frame EXCEPT !.part = 1])
        <4>1. CASE frame.op = "publish"
          <5>1. /\ [frame EXCEPT !.part = i].op = "publish"
                /\ [frame EXCEPT !.part = 1].op = "publish"
            BY <4>1 DEF Frames
          <5> QED
            BY <3>1, <5>1 DEF Sends, Accepts, TooLarge
        <4>2. CASE frame.op # "publish"
          <5>1. i = 1
            BY <4>2, <1>5 DEF Callable
          <5> QED
            BY <3>1, <5>1
        <4> QED
          BY <4>1, <4>2
      <3>4. 1 \in refused
        BY <3>2, <3>3 DEF Refused
      <3>5. refused \in SUBSET Nat /\ refused \subseteq 1 .. frame.parts
        BY <1>5 DEF Refused
      <3>6. taken = Min(refused) - 1
        BY <2>2 DEF Taken
      <3> HIDE DEF refused, taken
      <3>7. Min(refused) \in refused /\ Min(refused) <= 1
        BY <3>4, <3>5, Smallest
      <3>8. PICK m \in Nat : m = Min(refused) /\ m \in 1 .. frame.parts /\ m <= 1
        BY <3>5, <3>7
      <3> QED
        BY <1>5, <3>6, <3>8
    <2> QED
      BY <2>1, <2>2
  <1> HIDE DEF refused, taken, frames
  <1>7. Flushable(frames) /\ ToSet(frames) \subseteq Made(frame)
    <2>1. \A i \in DOMAIN frames : frames[i].part = i /\ frames[i].parts = frame.parts
      BY <1>3, <1>4 DEF Frames
    <2>2. InWholes(frames)
      <3>1. Begun(frames)
        BY <2>1 DEF Begun
      <3>2. Chained(frames)
        <4> SUFFICES ASSUME NEW i \in DOMAIN frames, i + 1 \in DOMAIN frames
                     PROVE  Joins(frames[i], frames[i + 1])
          BY DEF Chained
        <4>1. /\ frames[i].part = i /\ frames[i + 1].part = i + 1
              /\ frames[i].parts = frame.parts /\ frames[i + 1].parts = frame.parts
              /\ frames[i].id = n /\ frames[i + 1].id = n
          BY <1>1, <1>3, <2>1
        <4>2. n # 0
          BY <1>1
        <4>3. i < frame.parts
          BY <1>3, <1>5
        <4> HIDE DEF n
        <4> QED
          BY <4>1, <4>2, <4>3 DEF Joins
      <3>3. Ended(frames)
        <4> SUFFICES ASSUME NEW i \in DOMAIN frames, i + 1 \notin DOMAIN frames
                     PROVE  frames[i].part >= frames[i].parts
          BY DEF Ended
        <4>1. i = taken /\ taken = frame.parts
          BY <1>3, <1>5, <1>6
        <4> QED
          BY <1>5, <2>1, <4>1
      <3> QED
        BY <3>1, <3>2, <3>3 DEF InWholes
    <2>3. ASSUME NEW i \in DOMAIN frames, Synchronous(frames[i])
          PROVE  frames[i].part >= frames[i].parts
      <3>1. frame.op # "publish"
        BY <1>3, <2>3, PublishNotSynchronous DEF Synchronous
      <3>2. frame.parts = 1 /\ i >= 1
        BY <1>3, <3>1 DEF Callable
      <3> QED
        BY <2>1, <3>2
    <2>4. \A i \in DOMAIN frames : i \in 1 .. frame.parts
      BY <1>3, <1>5
    <2>5. ToSet(frames) \subseteq Made(frame)
      BY <1>4, <2>4 DEF ToSet, Made
    <2> QED
      BY <2>2, <2>3, <2>5 DEF Flushable
  <1>8. /\ t.toBroker = u.toBroker /\ t.connection = u.connection /\ t.channel = u.channel
    <2>1. DOMAIN u = {"channel", "connection", "toBroker", "outcome", "delivered"}
      BY <1>1 DEF SendFrames, Hold, SendAtOnce, Transmit, States
    <2> HIDE DEF u, t
    <2> QED
      BY <1>2, <2>1
  <1> HIDE DEF t
  <1>9. CASE frames = <<>>
    <2>1. ToSet(frames) = {}
      BY <1>9 DEF ToSet
    <2>2. Goes(s, u, r, {}, {})
      BY <1>1, <1>3, <1>7, <2>1, SendFramesGoes
    <2>3. u.channel.state = s.channel.state
      <3>1. New(frames, k, n)
        BY <1>9, EmptySeq DEF New, InOrder
      <3>2. SameChannel(s, u)
        <4> HIDE DEF n
        <4> QED
          BY <1>1, <1>3, <1>9, <3>1, SendFramesSound
      <3> QED
        BY <3>2 DEF SameChannel
    <2> HIDE DEF u
    <2>4. Goes(u, t, r, {}, {})
      BY <1>8, GoesStill
    <2> QED
      BY <1>8, <2>2, <2>3, <2>4, GoesOn DEF Issues, t
  <1>10. CASE frames # <<>>
    <2>1. Sends(s, frames[1])
      BY <1>3, <1>10
    <2>2. Goes(s, u, r, Made(frame), {})
      BY <1>1, <1>3, <1>7, SendFramesGoes
    <2>3. u.channel.state = s.channel.state
      <3>1. New(frames, k, n)
        BY <1>1, <1>3 DEF New, InOrder, Before
      <3>2. /\ s.channel.state # "closed"
            /\ \/ Waiting(s.channel)
               \/ s.channel.state = "closing"
               \/ s.connection.state \notin {"closing", "closed"}
        BY <2>1 DEF Sends, Accepts
      <3>3. SameChannel(s, u)
        <4> HIDE DEF n
        <4> QED
          BY <1>1, <1>3, <3>1, <3>2, SendFramesSound
      <3> QED
        BY <3>3 DEF SameChannel
    <2>4. CASE s.channel.state = "closing"
      <3>1. u = s
        BY <2>4 DEF SendFrames
      <3>2. Goes(s, t, r, {}, {})
        BY <1>8, <3>1, GoesStill
      <3> QED
        BY <1>8, <2>3, <3>2 DEF Issues, t
    <2>5. CASE s.channel.state # "closing"
      <3> HIDE DEF u
      <3>1. Usable(s.channel) /\ s.channel.linked
        BY <1>1, <2>1, <2>5 DEF Sends, Usable, States, Channels
      <3>2. Goes(u, t, r, Made(frame), {})
        BY <1>8, GoesStill
      <3>3. frame.op # "close"
        BY DEF Unanswered
      <3> QED
        BY <1>8, <2>2, <2>3, <3>1, <3>2, <3>3, GoesOn DEF Issues, t
    <2> QED
      BY <2>4, <2>5
  <1> QED
    BY <1>9, <1>10

LEMMA PerformIssues ==
    ASSUME "publish" \notin Oversized,
           NEW s, NEW read, NEW k, Sound(s, read, k), Drained(s), NEW r, Part(r),
           NEW frame \in Frames, frame.id = k + 1, Callable(frame),
           Len(s.outcome) + 1 <= MaxCalls + 2
    PROVE  Issues(s, Perform(s, frame), r, frame, {})
  <1>1. CASE frame.op \in Unanswered
    BY <1>1, SendPartsIssues DEF Perform, Unanswered
  <1>2. CASE frame.op \notin Unanswered /\ frame.op = "close"
    BY <1>2, CloseChannelIssues DEF Perform
  <1>3. CASE frame.op \notin Unanswered /\ frame.op # "close"
    <2>1. frame.parts = 1
      BY <1>3 DEF Callable, Unanswered
    <2>2. Perform(s, frame) = Request(s, frame)
      BY <1>3 DEF Perform
    <2>3. /\ Request(s, frame).channel.state = s.channel.state
          /\ \/ Goes(s, Request(s, frame), r, {}, {})
             \/ /\ Goes(s, Request(s, frame), r, Made(frame), {})
                /\ Usable(s.channel) /\ s.channel.linked
      BY <2>1, RequestGoes
    <2> QED
      BY <1>3, <2>2, <2>3 DEF Issues
  <1> QED
    BY <1>1, <1>2, <1>3

LEMMA CloseConnectionIssues ==
    ASSUME NEW s, NEW read, Sound(s, read, Len(s.outcome)), Drained(s), NEW r, Part(r),
           Len(s.outcome) <= MaxCalls + (IF s.connection.closeCalled THEN 2 ELSE 1),
           NEW t, t = CloseConnection(s),
           NEW frame, frame = FrameOfCall("close", Len(s.outcome) + 1, 1, 1),
           NEW closing, closing = {Control("connectionClose")}
    PROVE  /\ Issues(s, t, r, frame, closing)
           /\ Len(t.outcome) = Len(s.outcome) => Goes(s, t, r, {}, closing)
  <1> DEFINE k == Len(s.outcome)
             con   == [s.connection EXCEPT !.closeCalled = TRUE]
             told  == [s EXCEPT !.connection = con]
             closed == IF s.channel.linked THEN CloseChannel(told, frame) ELSE told
  <1>1. CASE s.connection.closeCalled \/ s.connection.state = "closed"
    <2>1. t = s
      BY <1>1 DEF CloseConnection
    <2> QED
      BY <2>1, GoesStill DEF Issues
  <1>2. CASE ~(s.connection.closeCalled \/ s.connection.state = "closed")
    <2>1. k \in Nat /\ s \in States /\ s.connection \in Connections
      BY DEF Sound, States
    <2>2. t = SendCloseWhenIdle(closed)
      BY <1>2 DEF CloseConnection
    <2>3. k <= MaxCalls + 1
      BY <1>2
    <2>4. frame \in Frames /\ frame.id = k + 1 /\ Callable(frame) /\ frame.op = "close"
      BY <2>1, <2>3, OperationNames, ChannelAssumption DEF Frames, FrameOfCall, Callable
    <2>5. /\ con \in Connections /\ con.queue = s.connection.queue /\ con.closeCalled
          /\ con.state = s.connection.state
      BY <2>1 DEF Connections
    <2> HIDE DEF con
    <2>6. /\ Sound(told, read, k) /\ told.channel = s.channel /\ told.outcome = s.outcome
          /\ told.connection = con /\ told.toBroker = s.toBroker
      <3>1. con.state \in {"connected", "closing", "closed"} => con.queue = <<>>
        BY <2>5 DEF Sound
      <3> QED
        BY <2>5, <3>1, ConnectionSound
    <2>7. Drained(told) /\ Len(told.outcome) = k
      BY <2>6 DEF Drained
    <2>8. \A new, any : Goes(s, told, r, new, any)
      BY <2>5, <2>6, GoesStill
    <2> HIDE DEF k, told
    <2>9. CASE s.channel.linked
      <3> DEFINE u == CloseChannel(told, frame)
      <3>1. closed = u
        BY <2>9
      <3>2. Len(told.outcome) + 1 <= MaxCalls + 2
        BY <2>1, <2>3, <2>7, ChannelAssumption
      <3>3. Sound(u, read, k + 1) /\ Called(told, u)
        BY <2>4, <2>6, <2>7, <3>2, CloseChannelSound
      <3>4. Issues(told, u, r, frame, {})
        BY <2>4, <2>6, <2>7, <3>2, CloseChannelIssues
      <3> HIDE DEF u
      <3>5. t.channel = u.channel /\ t.outcome = u.outcome
        BY <2>2, <3>1, <3>3, CloseWhenIdleSound
      <3>6. \A new : Goes(u, t, r, new, closing)
        BY <2>2, <3>1, <3>3, CloseWhenIdleGoes
      <3>7. ASSUME NEW new, Goes(told, u, r, new, {})
            PROVE  Goes(s, t, r, new, closing)
        <4>1. Goes(told, u, r, new, closing)
          BY <3>7, GoesFurther
        <4>2. Goes(s, u, r, new, closing)
          BY <2>8, <4>1, GoesOn
        <4> QED
          BY <3>6, <4>2, GoesOn
      <3>8. Issues(s, t, r, frame, closing)
        BY <2>6, <3>4, <3>5, <3>7 DEF Issues
      <3>9. Len(t.outcome) # Len(s.outcome)
        BY <2>1, <2>7, <3>3, <3>5 DEF Called, k
      <3> QED
        BY <3>8, <3>9
    <2>10. CASE ~s.channel.linked
      <3>1. t = SendCloseWhenIdle(told)
        BY <2>2, <2>10
      <3>2. Goes(told, t, r, {}, closing) /\ t.channel = told.channel
        BY <2>6, <3>1, CloseWhenIdleGoes, CloseWhenIdleSound
      <3>3. Goes(s, t, r, {}, closing)
        BY <2>8, <3>2, GoesOn
      <3> QED
        BY <2>6, <3>2, <3>3 DEF Issues
    <2> QED
      BY <2>9, <2>10
  <1> QED
    BY <1>1, <1>2

-----------------------------------------------------------------------------
(***************************************************************************)
(* Answers.                                                                *)
(***************************************************************************)
\* What is needed of a state to flush it.
Shaped(s) ==
    /\ DOMAIN s = {"channel", "connection", "toBroker", "outcome", "delivered"}
    /\ DOMAIN s.channel = {"state", "linked", "synchronous", "queue", "chain", "consuming", "receiver"}
    /\ s.toBroker \in Seq(Frames) /\ s.channel.queue \in Seq(Frames)

\* Frames only move, and the channel stays what it is.
Moves(s, t, r) ==
    /\ Shaped(t)
    /\ Goes(s, t, r, {}, {})
    /\ t.connection = s.connection
    /\ t.channel.state = s.channel.state /\ t.channel.linked = s.channel.linked

LEMMA StatesShaped == \A s \in States : Shaped(s)
  BY DEF States, Channels, Shaped

LEMMA MovesOn ==
    ASSUME NEW s, NEW t, NEW u, NEW r, Moves(s, t, r), Moves(t, u, r)
    PROVE  Moves(s, u, r)
  BY GoesOn DEF Moves

LEMMA MovesStill ==
    ASSUME NEW s, NEW t, NEW r, Shaped(t),
           t.toBroker = s.toBroker, t.connection = s.connection,
           t.channel.state = s.channel.state, t.channel.linked = s.channel.linked,
           t.channel.queue = s.channel.queue
    PROVE  Moves(s, t, r)
  <1>1. Goes(s, t, r, {}, {})
    BY GoesStill
  <1> QED
    BY <1>1 DEF Moves

LEMMA FlushMoves ==
    ASSUME NEW s, Shaped(s), NEW r, Part(r), s.connection.state # "handshake"
    PROVE  Moves(s, Flush(s), r)
  <1> DEFINE q     == s.channel.queue
             until == SynchronousIn(q)
             last  == Min(until \cup {Len(q)})
             front == SubSeq(q, 1, last)
             rest  == SubSeq(q, last + 1, Len(q))
             t     == Flush(s)
  <1>1. CASE ~s.channel.linked
    <2>1. t = [s EXCEPT !.channel.synchronous = FALSE]
      BY <1>1 DEF Flush
    <2> HIDE DEF t
    <2>2. /\ Shaped(t) /\ t.toBroker = s.toBroker /\ t.connection = s.connection
          /\ t.channel.state = s.channel.state /\ t.channel.linked = s.channel.linked
          /\ t.channel.queue = s.channel.queue
      BY <2>1 DEF Shaped
    <2> QED
      BY <2>2, MovesStill DEF t
  <1>2. CASE s.channel.linked /\ s.connection.state # "connected"
    <2> DEFINE k == Min({1, Len(q)})
               left == SubSeq(q, k + 1, Len(q))
    <2>1. q \in Seq(Frames) /\ Len(q) \in Nat
      BY DEF Shaped
    <2>2. k \in 0 .. Len(q)
      BY <2>1, MinOfTwo
    <2> HIDE DEF q, k
    <2>3. left \in Seq(Frames) /\ ToSet(left) \subseteq ToSet(q)
      <3>1. left \in Seq(Frames) /\ \A i \in DOMAIN left : k + i \in DOMAIN q /\ left[i] = q[k + i]
        BY <2>1, <2>2
      <3> HIDE DEF left
      <3> QED
        BY <3>1 DEF ToSet
    <2> HIDE DEF left
    <2>4. t = [s EXCEPT !.channel.synchronous = FALSE, !.channel.queue = left,
                        !.toBroker = s.toBroker]
      BY <1>2 DEF Flush, q, k, left
    <2> HIDE DEF t
    <2>5. /\ Shaped(t) /\ t.toBroker = s.toBroker /\ t.connection = s.connection
          /\ t.channel.state = s.channel.state /\ t.channel.linked = s.channel.linked
          /\ t.channel.queue = left
      BY <2>3, <2>4 DEF Shaped
    <2>6. Extends(s.toBroker, t.toBroker, Held(s) \cup {} \cup {})
      BY <2>5 DEF Extends
    <2>7. Goes(s, t, r, {}, {})
      BY <1>2, <2>3, <2>5, <2>6 DEF Goes, WholeIn, q
    <2> QED
      BY <2>5, <2>7 DEF Moves, t
  <1>3. CASE s.channel.linked /\ s.connection.state = "connected"
    <2>1. q \in Seq(Frames) /\ Len(q) \in Nat /\ s.toBroker \in Seq(Frames)
      BY DEF Shaped
    <2>2. t = [s EXCEPT !.channel.synchronous = (until # {}), !.channel.queue = rest,
                        !.toBroker = s.toBroker \o front]
      BY <1>3 DEF Flush
    <2> HIDE DEF q
    <2>3. /\ last \in 0 .. Len(q)
          /\ until # {} => last \in DOMAIN q /\ Synchronous(q[last])
          /\ until = {} => last = Len(q)
      BY <2>1, FlushPoint
    <2> HIDE DEF last, until
    <2>4. /\ rest \in Seq(Frames) /\ \A i \in DOMAIN rest : last + i \in DOMAIN q /\ rest[i] = q[last + i]
          /\ front \in Seq(Frames) /\ \A i \in DOMAIN front : i \in DOMAIN q /\ front[i] = q[i]
      BY <2>1, <2>3
    <2>5. Flushable(q) => InWholes(front) /\ Flushable(rest)
      <3>1. Flushable(q) /\ last # 0 => q[last].part >= q[last].parts
        <4>1. until = {} /\ last # 0 => last \in DOMAIN q /\ last + 1 \notin DOMAIN q
          BY <2>1, <2>3
        <4> QED
          BY <2>3, <4>1 DEF Flushable, InWholes, Ended
      <3>2. Flushable(q) => InWholes(front) /\ InWholes(rest)
        BY <2>1, <2>3, <3>1, WholesCut DEF Flushable
      <3> HIDE DEF front, rest
      <3> QED
        BY <2>4, <3>2 DEF Flushable
    <2>6. ToSet(front) \subseteq ToSet(q) /\ ToSet(rest) \subseteq ToSet(q)
      <3> HIDE DEF front, rest
      <3> QED
        BY <2>4 DEF ToSet
    <2> HIDE DEF front, rest, t
    <2>7. s.toBroker \o front \in Seq(Frames)
      BY <2>1, <2>4
    <2>8. /\ Shaped(t) /\ t.toBroker = s.toBroker \o front /\ t.connection = s.connection
          /\ t.channel.state = s.channel.state /\ t.channel.linked = s.channel.linked
          /\ t.channel.queue = rest
      BY <2>2, <2>4, <2>7 DEF Shaped
    <2>9. Extends(s.toBroker, t.toBroker, Held(s) \cup {} \cup {})
      <3>1. Extends(s.toBroker, t.toBroker, ToSet(front))
        BY <2>1, <2>4, <2>8, SetConcatenated
      <3> QED
        BY <2>6, <3>1 DEF Extends, Held, q
    <2>10. WholeIn(s, r) => WholeIn(t, r)
      BY <1>3, <2>1, <2>4, <2>5, <2>8, ResumesLater DEF WholeIn, Part, q
    <2>11. Goes(s, t, r, {}, {})
      BY <1>3, <2>6, <2>8, <2>9, <2>10 DEF Goes, q
    <2> QED
      BY <2>8, <2>11 DEF Moves, t
  <1> QED
    BY <1>1, <1>2, <1>3

LEMMA ReportSuccessMoves ==
    ASSUME NEW s, Shaped(s), NEW r, Part(r), s.connection.state # "handshake", NEW answer
    PROVE  Moves(s, ReportSuccess(s, answer), r)
  <1>1. CASE s.channel.chain = <<>>
    BY <1>1, MovesStill DEF ReportSuccess
  <1>2. CASE s.channel.chain # <<>>
    <2> DEFINE id == Head(s.channel.chain)
               t  == Flush(s)
               u  == [t EXCEPT !.channel.chain = Tail(@)]
               v  == AnswerEffect(u, calls[id], answer)
               w  == Resolve(v, id, "success")
    <2>1. ReportSuccess(s, answer) = w
      BY <1>2 DEF ReportSuccess
    <2>2. Moves(s, t, r)
      BY FlushMoves
    <2> HIDE DEF id, t
    <2>3. Shaped(t)
      BY <2>2 DEF Moves
    <2>4. Moves(t, u, r)
      <3>1. /\ Shaped(u) /\ u.toBroker = t.toBroker /\ u.connection = t.connection
            /\ u.channel.state = t.channel.state /\ u.channel.linked = t.channel.linked
            /\ u.channel.queue = t.channel.queue
        BY <2>3 DEF Shaped
      <3> HIDE DEF u
      <3> QED
        BY <3>1, MovesStill
    <2> HIDE DEF u
    <2>5. Shaped(u)
      BY <2>4 DEF Moves
    <2>6. Moves(u, v, r)
      <3>1. \/ v = u
            \/ \E b \in BOOLEAN : v = [u EXCEPT !.channel.consuming = b]
            \/ v = [u EXCEPT !.channel.receiver = Receiver(answer.id, TRUE)]
        BY DEF AnswerEffect, InstallConsumer, UninstallConsumer, InstallGet
      <3> HIDE DEF v
      <3>2. /\ Shaped(v) /\ v.toBroker = u.toBroker /\ v.connection = u.connection
            /\ v.channel.state = u.channel.state /\ v.channel.linked = u.channel.linked
            /\ v.channel.queue = u.channel.queue
        <4>1. CASE v = u
          BY <2>5, <4>1
        <4>2. ASSUME NEW b \in BOOLEAN, v = [u EXCEPT !.channel.consuming = b]
              PROVE  /\ Shaped(v) /\ v.toBroker = u.toBroker /\ v.connection = u.connection
                     /\ v.channel.state = u.channel.state /\ v.channel.linked = u.channel.linked
                     /\ v.channel.queue = u.channel.queue
          BY <2>5, <4>2 DEF Shaped
        <4>3. CASE v = [u EXCEPT !.channel.receiver = Receiver(answer.id, TRUE)]
          BY <2>5, <4>3 DEF Shaped
        <4> QED
          BY <3>1, <4>1, <4>2, <4>3
      <3> QED
        BY <3>2, MovesStill
    <2> HIDE DEF v
    <2>7. Shaped(v)
      BY <2>6 DEF Moves
    <2>8. Moves(v, w, r)
      <3>1. /\ Shaped(w) /\ w.toBroker = v.toBroker /\ w.connection = v.connection
            /\ w.channel = v.channel
        BY <2>7 DEF Shaped, Resolve
      <3> HIDE DEF w
      <3> QED
        BY <3>1, MovesStill
    <2> HIDE DEF w
    <2> QED
      BY <2>1, <2>2, <2>4, <2>6, <2>8, MovesOn
  <1> QED
    BY <1>1, <1>2

\* A state that a failed channel leads to.
Fails(s, t, r) ==
    /\ Goes(s, t, r, {}, {})
    /\ t.connection = s.connection
    /\ t.channel.state = "closed" /\ ~t.channel.linked

LEMMA ReportErrorFails ==
    ASSUME NEW s, Shaped(s), NEW r
    PROVE  Fails(s, ReportError(s), r)
  <1> DEFINE t == ReportError(s)
  <1>1. /\ t.toBroker = s.toBroker /\ t.connection = s.connection /\ t.channel.queue = <<>>
        /\ t.channel.state = "closed" /\ ~t.channel.linked
    BY DEF ReportError, Shaped
  <1> HIDE DEF t
  <1>2. Goes(s, t, r, {}, {})
    BY <1>1, GoesStill
  <1> QED
    BY <1>1, <1>2 DEF Fails, t

LEMMA ReadyMoves ==
    ASSUME NEW s, Shaped(s), NEW r, Part(r), s.connection.state # "handshake"
    PROVE  LET t == ReportReady(s)
           IN  /\ Goes(s, t, r, {}, {})
               /\ t.connection = s.connection /\ t.channel.linked = s.channel.linked
               /\ \/ t.channel.state = s.channel.state
                  \/ s.channel.state = "connected" /\ t.channel.state = "ready"
  <1> DEFINE u == [s EXCEPT !.channel.state = IF @ = "connected" THEN "ready" ELSE @]
             t == Flush(u)
  <1>1. ReportReady(s) = t
    BY DEF ReportReady
  <1>2. /\ Shaped(u) /\ u.toBroker = s.toBroker /\ u.connection = s.connection
        /\ u.channel.linked = s.channel.linked /\ u.channel.queue = s.channel.queue
        /\ \/ u.channel.state = s.channel.state
           \/ s.channel.state = "connected" /\ u.channel.state = "ready"
    BY DEF Shaped
  <1> HIDE DEF u
  <1>3. Goes(s, u, r, {}, {})
    BY <1>2, GoesStill
  <1>4. Moves(u, t, r)
    BY <1>2, FlushMoves
  <1> HIDE DEF t
  <1> QED
    BY <1>1, <1>2, <1>3, <1>4, GoesOn DEF Moves

LEMMA ClosedFails ==
    ASSUME NEW s, Shaped(s), NEW r, Part(r), s.connection.state # "handshake", NEW answer
    PROVE  Fails(s, ReportClosed(s, answer), r)
  <1> DEFINE u == [s EXCEPT !.channel.state = "closed"]
             v == ReportSuccess(u, answer)
             t == ReportError(v)
  <1>1. ReportClosed(s, answer) = t
    BY DEF ReportClosed
  <1>2. /\ Shaped(u) /\ u.toBroker = s.toBroker /\ u.connection = s.connection
        /\ u.channel.queue = s.channel.queue
    BY DEF Shaped
  <1> HIDE DEF u
  <1>3. Goes(s, u, r, {}, {})
    BY <1>2, GoesStill
  <1>4. Moves(u, v, r)
    BY <1>2, ReportSuccessMoves
  <1> HIDE DEF v
  <1>5. Fails(v, t, r)
    BY <1>4, ReportErrorFails DEF Moves
  <1> HIDE DEF t
  <1>6. Goes(s, t, r, {}, {})
    BY <1>3, <1>4, <1>5, GoesOn DEF Moves, Fails
  <1> QED
    BY <1>1, <1>2, <1>4, <1>5, <1>6 DEF Moves, Fails

LEMMA CompleteMoves ==
    ASSUME NEW s, Shaped(s), NEW r, Part(r), s.connection.state # "handshake"
    PROVE  Moves(s, Complete(s), r)
  <1> DEFINE got == s.channel.receiver
             u == IF got.get THEN Flush(s) ELSE s
             t == Complete(s)
  <1>1. Moves(s, u, r)
    BY FlushMoves, MovesStill
  <1>2. t = [u EXCEPT !.channel.receiver = NoReceiver,
                      !.delivered = Append(@, [tag |-> got.tag, size |-> got.size, got |-> got.got])]
    BY DEF Complete
  <1> HIDE DEF u, t, got
  <1>3. Shaped(u)
    BY <1>1 DEF Moves
  <1>4. /\ Shaped(t) /\ t.toBroker = u.toBroker /\ t.connection = u.connection
        /\ t.channel.state = u.channel.state /\ t.channel.linked = u.channel.linked
        /\ t.channel.queue = u.channel.queue
    BY <1>2, <1>3 DEF Shaped
  <1>5. Moves(u, t, r)
    BY <1>4, MovesStill
  <1> QED
    BY <1>1, <1>5, MovesOn DEF t

\* Whatever happens to the receiver, and its completion.
LEMMA ContentMoves ==
    ASSUME NEW s, Shaped(s), NEW r, Part(r), s.connection.state # "handshake",
           NEW receiver, NEW t, t = CompleteIfWhole([s EXCEPT !.channel.receiver = receiver])
    PROVE  Moves(s, t, r)
  <1> DEFINE u == [s EXCEPT !.channel.receiver = receiver]
  <1>1. /\ Shaped(u) /\ u.toBroker = s.toBroker /\ u.connection = s.connection
        /\ u.channel.state = s.channel.state /\ u.channel.linked = s.channel.linked
        /\ u.channel.queue = s.channel.queue
    BY DEF Shaped
  <1> HIDE DEF u
  <1>2. Moves(s, u, r)
    BY <1>1, MovesStill
  <1>3. t = Complete(u) \/ t = u
    BY DEF CompleteIfWhole, u
  <1> QED
    BY <1>1, <1>2, <1>3, CompleteMoves, MovesOn

LEMMA TakesMove ==
    ASSUME NEW s, Shaped(s), NEW r, Part(r), s.connection.state # "handshake", NEW n, NEW body
    PROVE  /\ Moves(s, TakeHeader(s, n), r)
           /\ Moves(s, TakeBody(s, body), r)
           /\ Moves(s, TakeDeliver(s, n), r)
           /\ Moves(s, ReportCancelled(s), r)
  <1>1. Moves(s, TakeHeader(s, n), r)
    <2>1. TakeHeader(s, n) = CompleteIfWhole([s EXCEPT
              !.channel.receiver = [s.channel.receiver EXCEPT !.size = n, !.left = n]])
      BY DEF TakeHeader, Shaped
    <2> QED
      BY <2>1, ContentMoves
  <1>2. Moves(s, TakeBody(s, body), r)
    <2>1. TakeBody(s, body) = CompleteIfWhole([s EXCEPT
              !.channel.receiver = [s.channel.receiver EXCEPT !.left = @ - 1, !.got = Append(@, body)]])
      BY DEF TakeBody, Shaped
    <2> QED
      BY <2>1, ContentMoves
  <1>3. Moves(s, TakeDeliver(s, n), r)
    <2> DEFINE t == TakeDeliver(s, n)
    <2>1. t = s \/ t = [s EXCEPT !.channel.receiver = Receiver(n, FALSE)]
      BY DEF TakeDeliver
    <2> DEFINE receiver == Receiver(n, FALSE)
               u == [s EXCEPT !.channel.receiver = receiver]
    <2> HIDE DEF t, receiver
    <2>2. /\ Shaped(u) /\ u.toBroker = s.toBroker /\ u.connection = s.connection
          /\ u.channel.state = s.channel.state /\ u.channel.linked = s.channel.linked
          /\ u.channel.queue = s.channel.queue
      BY DEF Shaped
    <2> HIDE DEF u
    <2>3. Moves(s, u, r)
      BY <2>2, MovesStill
    <2>4. Moves(s, s, r)
      BY MovesStill
    <2>5. t = s \/ t = u
      BY <2>1 DEF receiver, u
    <2> QED
      BY <2>3, <2>4, <2>5 DEF t
  <1>4. Moves(s, ReportCancelled(s), r)
    <2> DEFINE t == ReportCancelled(s)
    <2>1. t = [s EXCEPT !.channel.consuming = FALSE]
      BY DEF ReportCancelled
    <2> HIDE DEF t
    <2>2. /\ Shaped(t) /\ t.toBroker = s.toBroker /\ t.connection = s.connection
          /\ t.channel.state = s.channel.state /\ t.channel.linked = s.channel.linked
          /\ t.channel.queue = s.channel.queue
      BY <2>1 DEF Shaped
    <2> QED
      BY <2>2, MovesStill DEF t
  <1> QED
    BY <1>1, <1>2, <1>3, <1>4

\* How the channel may change when a frame is read.
Declines(s, t) ==
    /\ s.channel.state \in {"closing", "closed"} => t.channel.state \in {"closing", "closed"}
    /\ s.channel.state = "closed" => t.channel.state = "closed"
    /\ t.channel.linked = s.channel.linked \/ t.channel.state = "closed"

\* What answers the close frames of the broker.
CloseAnswers(frame) ==
    IF frame.is = "channelClose" THEN {Control("channelCloseOK")} ELSE {Control("connectionCloseOK")}

LEMMA CloseAnswered ==
    ASSUME NEW s, NEW read, NEW n, Sound(s, read, n), NEW r, Part(r),
           s.connection.state \in {"connected", "closing"},
           NEW op \in {"connectionCloseOK", "channelCloseOK"},
           NEW t, t = (LET answered == SendIfAccepted(s, Control(op))
                       IN  IF s.channel.linked THEN ReportError(answered) ELSE answered)
    PROVE  /\ Goes(s, t, r, {}, {Control(op)}) /\ Declines(s, t)
           /\ s.channel.linked => t.channel.state = "closed"
  <1> DEFINE u == SendIfAccepted(s, Control(op))
  <1>1. Goes(s, u, r, {}, {Control(op)})
    BY ControlGoes
  <1>2. Sound(u, read, n) /\ u.channel = s.channel
    BY ControlSound
  <1>3. t = IF s.channel.linked THEN ReportError(u) ELSE u
    OBVIOUS
  <1> HIDE DEF u
  <1>4. Shaped(u)
    BY <1>2, StatesShaped DEF Sound
  <1>5. CASE s.channel.linked
    <2>1. Fails(u, t, r)
      BY <1>3, <1>4, <1>5, ReportErrorFails
    <2>2. Goes(u, t, r, {}, {Control(op)})
      BY <2>1, GoesFurther DEF Fails
    <2> QED
      BY <1>1, <2>1, <2>2, GoesOn DEF Fails, Declines
  <1>6. CASE ~s.channel.linked
    BY <1>1, <1>2, <1>3, <1>6 DEF Declines
  <1> QED
    BY <1>5, <1>6

LEMMA ProcessReceivedGoes ==
    ASSUME NEW s, NEW read, NEW n, Sound(s, read, n), NEW r, Part(r),
           s.connection.state \in {"connected", "closing"}, NEW f \in FramesToClient
    PROVE  /\ Goes(s, ProcessReceived(s, f), r, {}, CloseAnswers(f))
           /\ Declines(s, ProcessReceived(s, f))
           /\ f.is = "channelClose" /\ s.channel.linked => ProcessReceived(s, f).channel.state = "closed"
  <1> DEFINE t == ProcessReceived(s, f)
  <1>1. Shaped(s) /\ s \in States
    BY StatesShaped DEF Sound
  <1>2. \A u : Goes(s, u, r, {}, {}) => Goes(s, u, r, {}, CloseAnswers(f))
    BY GoesFurther
  <1>3. CASE f.is = "channelClose"
    <2>1. /\ Goes(s, t, r, {}, {Control("channelCloseOK")}) /\ Declines(s, t)
          /\ s.channel.linked => t.channel.state = "closed"
      BY <1>3, CloseAnswered DEF ProcessReceived, AnswerChannelClose
    <2> QED
      BY <1>3, <2>1 DEF CloseAnswers
  <1>4. CASE f.is = "connectionClose"
    <2>1. Goes(s, t, r, {}, {Control("connectionCloseOK")}) /\ Declines(s, t)
      BY <1>4, CloseAnswered DEF ProcessReceived, AnswerConnectionClose
    <2> QED
      BY <1>4, <2>1 DEF CloseAnswers
  <1>5. CASE f.is = "connectionCloseOK"
    <2>1. t = [s EXCEPT !.connection.state = "closed"]
      BY <1>5 DEF ProcessReceived
    <2> HIDE DEF t
    <2>2. /\ t.toBroker = s.toBroker /\ t.channel = s.channel
          /\ t.connection.queue = s.connection.queue /\ t.connection.state = "closed"
      BY <1>1, <2>1 DEF States, Connections
    <2>3. Goes(s, t, r, {}, {})
      BY <2>2, GoesStill
    <2> QED
      BY <1>2, <1>5, <2>2, <2>3 DEF Declines, t
  <1>6. CASE f.is \notin {"channelClose", "connectionClose", "connectionCloseOK"}
    <2>1. Moves(s, t, r) => Goes(s, t, r, {}, CloseAnswers(f)) /\ Declines(s, t)
      BY <1>2 DEF Moves, Declines
    <2>2. Fails(s, t, r) => Goes(s, t, r, {}, CloseAnswers(f)) /\ Declines(s, t)
      BY <1>2 DEF Fails, Declines
    <2>3. t = s => Moves(s, t, r)
      BY <1>1, MovesStill
    <2>4. CASE ~s.channel.linked
      BY <1>6, <2>1, <2>3, <2>4 DEF ProcessReceived
    <2>5. CASE s.channel.linked
      <3>1. t = ProcessChannelFrame(s, f)
        BY <1>6, <2>5 DEF ProcessReceived
      <3>2. CASE f.is = "openOK"
        <4>1. t = ReportReady(s)
          BY <3>1, <3>2 DEF ProcessChannelFrame
        <4> HIDE DEF t
        <4>2. /\ Goes(s, t, r, {}, {})
              /\ t.channel.linked = s.channel.linked
              /\ \/ t.channel.state = s.channel.state
                 \/ s.channel.state = "connected" /\ t.channel.state = "ready"
          BY <1>1, <4>1, ReadyMoves
        <4> QED
          BY <1>2, <1>6, <4>2 DEF Declines, t
      <3>3. CASE f.is \in {"ok", "getOK"}
        BY <1>1, <1>6, <2>1, <3>1, <3>3, ReportSuccessMoves DEF ProcessChannelFrame
      <3>4. CASE f.is = "closeOK"
        BY <1>1, <1>6, <2>2, <3>1, <3>4, ClosedFails DEF ProcessChannelFrame
      <3>5. CASE f.is = "deliver"
        BY <1>1, <1>6, <2>1, <3>1, <3>5, TakesMove DEF ProcessChannelFrame
      <3>6. CASE f.is = "cancel"
        BY <1>1, <1>6, <2>1, <3>1, <3>6, TakesMove DEF ProcessChannelFrame
      <3>7. CASE f.is \in {"header", "body"}
        <4>1. t \in {s, TakeHeader(s, f.n), TakeBody(s, <<f.id, f.n>>)}
          BY <3>1, <3>7 DEF ProcessChannelFrame
        <4> QED
          BY <1>1, <1>6, <2>1, <2>3, <4>1, TakesMove
      <3> QED
        BY <1>6, <3>2, <3>3, <3>4, <3>5, <3>6, <3>7 DEF FramesToClient
    <2> QED
      BY <2>4, <2>5
  <1> QED
    BY <1>3, <1>4, <1>5, <1>6

-----------------------------------------------------------------------------
(***************************************************************************)
(* The invariant.  While the connection lives, what the broker and the     *)
(* library believe of the channel agrees with the frames between them.     *)
(***************************************************************************)
LastPart == [id |-> broker.read[1], part |-> broker.read[2], parts |-> broker.read[3]]

\* The frames that are not read: those that were sent, and all of them.
SentFrames == ToSet(toBroker) \cup ToSet(connection.queue)
AllFrames  == SentFrames \cup ToSet(channel.queue)

CloseFrames == {"connectionClose", "connectionCloseOK", "channelCloseOK"}

\* A frame of the call that has its number.
Named(f, cs) ==
    f.id \in DOMAIN cs /\ f.op = cs[f.id] /\ (f.op # "publish" => f.part = 1 /\ f.parts = 1)

AllNamed ==
    /\ \A f \in ToSet(toBroker) : Named(f, calls) \/ \E op \in CloseFrames : f = Control(op)
    /\ \A f \in ToSet(connection.queue) \cup ToSet(channel.queue) : Named(f, calls)

OpenFirst == \A i \in DOMAIN calls : calls[i] = "open" <=> i = 1

\* Before the handshake has ended nothing is sent.
Unstarted == connection.state = "handshake" => broker.channel = "none" /\ toBroker = <<>>

\* The channel is closed once by the broker, and the close answered once; after
\* that nothing of the channel comes.
AnsweredOnce ==
    \A i \in DOMAIN toBroker : toBroker[i].op = "channelCloseOK" =>
        /\ broker.channel = "closing" /\ channel.state = "closed"
        /\ \A j \in DOMAIN toBroker : j > i => toBroker[j].id = 0 /\ toBroker[j].op # "channelCloseOK"
        /\ \A j \in DOMAIN toClient : toClient[j].is # "channelClose"

ClosedOnce ==
    \A i \in DOMAIN toClient : toClient[i].is = "channelClose" =>
        /\ broker.channel = "closing"
        /\ \A j \in DOMAIN toClient : j # i => toClient[j].is # "channelClose"

\* close is the last frame of a channel.
CloseLast ==
    \A f \in AllFrames : f.op = "close" =>
        /\ channel.state \in {"closing", "closed"}
        /\ \A g \in AllFrames : g.id <= f.id

ClosedSilent ==
    broker.channel = "closed" =>
        channel.state \in {"closing", "closed"} /\ \A f \in AllFrames : f.id = 0

\* open is the first, unless the connection has refused it.
OpenComes ==
    IF broker.channel = "none"
    THEN \/ \E f \in SentFrames : f.op = "open"
         \/ channel.state = "closed" /\ \A f \in AllFrames : f.id = 0
    ELSE calls # <<>> /\ \A f \in AllFrames : f.op # "open"

LinkedOrClosed == channel.linked \/ channel.state = "closed"

MessagesUncut == broker.channel \in {"none", "open"} => WholeIn(Now, LastPart)

Agreement ==
    /\ AllNamed /\ Unstarted /\ AnsweredOnce /\ ClosedOnce /\ CloseLast /\ ClosedSilent
    /\ OpenComes /\ LinkedOrClosed /\ MessagesUncut

Live == connection.state # "gone" /\ broker.connection = "open"

\* No channel waits before it was opened.
Unused == calls = <<>> => ~channel.synchronous

BrokerInv == BrokerSatisfied /\ OpenFirst /\ Unused /\ (Live => Agreement)

\* A named frame is of a call, and none of the close frames.
LEMMA NamedFrame ==
    ASSUME NEW cs \in Seq(DOMAIN RequestFrame), NEW f, Named(f, cs)
    PROVE  f.id \in 1 .. Len(cs) /\ f.op \in DOMAIN RequestFrame /\ f.op \notin CloseFrames
  <1>1. f.id \in 1 .. Len(cs) /\ f.op \in DOMAIN RequestFrame
    BY ElementOfSeq DEF Named
  <1> QED
    BY <1>1, OperationsKnown DEF CloseFrames

LEMMA ControlNamed ==
    \A op \in CloseFrames : /\ Control(op).op = op /\ Control(op).id = 0
                            /\ Control(op).part = 1 /\ Control(op).parts = 1
                            /\ op \notin {"open", "close"}
  BY DEF CloseFrames, Control, FrameOfCall

LEMMA LastPartNumbers == IInv => Part(LastPart)
  BY NowSound DEF Brokers, LastPart, Part

\* What a step of the library has to show.
LEMMA LibraryAgrees ==
    ASSUME IInv, Agreement, Live, broker' = broker,
           NEW new, NEW closing, Goes(Now, Now', LastPart, new, closing),
           calls' \in Seq(DOMAIN RequestFrame),
           \A i \in DOMAIN calls : i \in DOMAIN calls' /\ calls'[i] = calls[i],
           \A f \in new : Named(f, calls') /\ f.id = Len(calls) + 1,
           \A f \in new : f.op = "open" => calls = <<>>,
           \A f \in new : f.op = "close" => channel'.state \in {"closing", "closed"},
           new # {} => channel.state \notin {"closing", "closed"} \/ calls = <<>>,
           channel.state \in {"closing", "closed"} =>
               channel'.state \in {"closing", "closed"} \/ calls = <<>>,
           channel.state = "closed" => channel'.state = "closed" \/ calls = <<>>,
           calls = <<>> => \/ \E f \in SentFrames' : f.op = "open"
                           \/ channel'.state = "closed" /\ new = {},
           LinkedOrClosed',
           \A f \in closing : \E op \in CloseFrames : f = Control(op),
           toClient' = toClient \/ (toClient # <<>> /\ toClient' = Tail(toClient)),
           Control("channelCloseOK") \in closing =>
               /\ toClient # <<>> /\ Head(toClient).is = "channelClose"
               /\ toClient' = Tail(toClient) /\ channel'.state = "closed"
               /\ \A i, j \in DOMAIN toBroker' :
                      i < j /\ i \notin DOMAIN toBroker /\ toBroker'[i].op = "channelCloseOK" =>
                          toBroker'[j] = Control("connectionClose")
    PROVE  Agreement'
  <1>1. /\ Now.toBroker = toBroker /\ Now.connection = connection /\ Now.channel = channel
        /\ Now'.toBroker = toBroker' /\ Now'.connection = connection' /\ Now'.channel = channel'
    BY DEF Now
  <1>2. /\ toBroker \in Seq(Frames) /\ connection.queue \in Seq(Frames)
        /\ channel.queue \in Seq(Frames) /\ toClient \in Seq(FramesToClient)
        /\ calls \in Seq(DOMAIN RequestFrame) /\ Len(calls) \in Nat
        /\ Drained(Now) /\ Sound(Now, LastRead, Len(calls))
    BY NowSound DEF States, Connections, Channels
  <1>3. /\ \A i \in DOMAIN toBroker : i \in DOMAIN toBroker' /\ toBroker'[i] = toBroker[i]
        /\ \A i \in DOMAIN toBroker' :
              \/ i \in DOMAIN toBroker
              \/ toBroker'[i] \in ToSet(connection.queue) \cup ToSet(channel.queue) \cup new \cup closing
    BY <1>1 DEF Goes, Extends, Held
  <1>4. /\ ToSet(connection.queue) \subseteq ToSet(connection'.queue) \cup ToSet(toBroker')
        /\ ToSet(connection'.queue) \subseteq ToSet(connection.queue) \cup new
        /\ ToSet(channel'.queue) \subseteq ToSet(channel.queue) \cup new
        /\ connection'.state = "handshake" =>
               connection.state = "handshake" /\ toBroker' = toBroker
        /\ WholeIn(Now, LastPart) => WholeIn(Now', LastPart)
    BY <1>1 DEF Goes
  <1>5. /\ ToSet(toBroker) \subseteq ToSet(toBroker')
        /\ ToSet(toBroker') \subseteq ToSet(toBroker) \cup ToSet(connection.queue)
                                      \cup ToSet(channel.queue) \cup new \cup closing
    BY <1>3 DEF ToSet
  <1>6. /\ SentFrames \subseteq SentFrames'
        /\ AllFrames' \subseteq AllFrames \cup new \cup closing
    BY <1>4, <1>5 DEF SentFrames, AllFrames
  <1>7. \A f \in AllFrames : f.id \in Nat /\ f.id <= Len(calls)
    <2>1. /\ \A i \in DOMAIN toBroker : toBroker[i].id <= Len(calls)
          /\ \A i \in DOMAIN connection.queue : connection.queue[i].id <= Len(calls)
          /\ \A i \in DOMAIN channel.queue : channel.queue[i].id <= Len(calls)
      BY <1>1, <1>2 DEF Sound, Numbered
    <2> QED
      BY <1>2, <2>1, FrameIds DEF AllFrames, SentFrames, ToSet
  <1>8. \A f \in closing : f.id = 0 /\ f.op \in CloseFrames /\ f.op \notin {"open", "close"}
    BY ControlNamed
  <1>9. \A f : Named(f, calls) => Named(f, calls') /\ f.op \notin CloseFrames
    BY <1>2, NamedFrame DEF Named
  <1>10. \A f \in new : Named(f, calls') /\ f.op \notin CloseFrames
    BY NamedFrame
  <1>11. \A f \in ToSet(connection.queue) \cup ToSet(channel.queue) : Named(f, calls)
    BY DEF Agreement, AllNamed
  <1>12. calls # <<>> => calls' # <<>>
    <2>1. calls # <<>> => 1 \in DOMAIN calls
      BY <1>2, EmptySeq
    <2>2. 1 \in DOMAIN calls' => calls' # <<>>
      OBVIOUS
    <2> QED
      BY <2>1, <2>2
  <1>13. \A i \in DOMAIN toClient' : \E j \in DOMAIN toClient :
             /\ toClient[j] = toClient'[i]
             /\ \A k \in DOMAIN toClient' : k # i =>
                    \E l \in DOMAIN toClient : l # j /\ toClient[l] = toClient'[k]
    <2>1. CASE toClient' = toClient
      BY <2>1
    <2>2. CASE toClient # <<>> /\ toClient' = Tail(toClient)
      <3>1. \A i \in DOMAIN toClient' :
                i \in Nat /\ i + 1 \in DOMAIN toClient /\ toClient'[i] = toClient[i + 1]
        BY <1>2, <2>2, Shifted
      <3>2. \A i, k \in Nat : i # k => i + 1 # k + 1
        OBVIOUS
      <3> QED
        BY <3>1, <3>2
    <2> QED
      BY <2>1, <2>2
  <1>14. AllNamed'
    <2>1. ASSUME NEW f \in ToSet(toBroker')
          PROVE  Named(f, calls') \/ \E op \in CloseFrames : f = Control(op)
      BY <1>5, <1>9, <1>10, <1>11 DEF Agreement, AllNamed
    <2>2. ASSUME NEW f \in ToSet(connection'.queue) \cup ToSet(channel'.queue)
          PROVE  Named(f, calls')
      BY <1>4, <1>9, <1>10, <1>11
    <2> QED
      BY <2>1, <2>2 DEF AllNamed
  <1>15. Unstarted'
    BY <1>4 DEF Agreement, Unstarted
  <1>16. AnsweredOnce'
    <2> SUFFICES ASSUME NEW i \in DOMAIN toBroker', toBroker'[i].op = "channelCloseOK"
                 PROVE  /\ broker.channel = "closing" /\ channel'.state = "closed"
                        /\ \A j \in DOMAIN toBroker' : j > i =>
                               toBroker'[j].id = 0 /\ toBroker'[j].op # "channelCloseOK"
                        /\ \A j \in DOMAIN toClient' : toClient'[j].is # "channelClose"
      BY DEF AnsweredOnce
    <2>1. CASE i \in DOMAIN toBroker
      <3>1. /\ broker.channel = "closing" /\ channel.state = "closed"
            /\ \A j \in DOMAIN toBroker : j > i =>
                   toBroker[j].id = 0 /\ toBroker[j].op # "channelCloseOK"
            /\ \A j \in DOMAIN toClient : toClient[j].is # "channelClose"
        BY <1>3, <2>1 DEF Agreement, AnsweredOnce
      <3>2. calls # <<>>
        BY <3>1 DEF Agreement, OpenComes
      <3>3. new = {} /\ channel'.state = "closed"
        BY <3>1, <3>2
      <3>4. channel.queue = <<>> /\ connection.queue = <<>>
        <4>1. connection.state \in {"connected", "closing", "closed"}
          BY <3>1, NowSound DEF Connections, Live, Agreement, Unstarted
        <4> QED
          BY <1>1, <1>2, <3>1, <4>1 DEF Drained, Sound
      <3>5. Control("channelCloseOK") \notin closing
        <4>1. toClient # <<>> => 1 \in DOMAIN toClient /\ Head(toClient) = toClient[1]
          BY <1>2, Shifted
        <4> QED
          BY <3>1, <4>1
      <3>6. ASSUME NEW j \in DOMAIN toBroker', j > i
            PROVE  toBroker'[j].id = 0 /\ toBroker'[j].op # "channelCloseOK"
        <4>1. CASE j \in DOMAIN toBroker
          BY <1>3, <3>1, <3>6, <4>1
        <4>2. CASE j \notin DOMAIN toBroker
          <5>1. toBroker'[j] \in closing
            BY <1>3, <3>3, <3>4, <4>2 DEF ToSet
          <5> QED
            BY <3>5, <5>1, ControlNamed
        <4> QED
          BY <4>1, <4>2
      <3>7. \A j \in DOMAIN toClient' : toClient'[j].is # "channelClose"
        BY <1>13, <3>1
      <3> QED
        BY <3>1, <3>3, <3>6, <3>7
    <2>2. CASE i \notin DOMAIN toBroker
      <3>1. toBroker'[i] \in closing
        BY <1>3, <1>9, <1>10, <1>11, <2>2 DEF CloseFrames
      <3>2. Control("channelCloseOK") \in closing
        BY <3>1, ControlNamed
      <3>3. /\ toClient # <<>> /\ Head(toClient).is = "channelClose"
            /\ toClient' = Tail(toClient) /\ channel'.state = "closed"
        BY <3>2
      <3>4. /\ 1 \in DOMAIN toClient /\ toClient[1].is = "channelClose"
            /\ \A j \in DOMAIN toClient' :
                  j + 1 \in DOMAIN toClient /\ j + 1 # 1 /\ toClient'[j] = toClient[j + 1]
        <4>1. /\ Head(toClient) = toClient[1] /\ 1 \in DOMAIN toClient
              /\ \A j \in DOMAIN toClient' : j \in Nat /\ j + 1 \in DOMAIN toClient
                                              /\ toClient'[j] = toClient[j + 1]
              /\ DOMAIN toClient' \subseteq Nat \ {0}
          BY <1>2, <3>3, Shifted
        <4> QED
          BY <3>3, <4>1
      <3>5. /\ broker.channel = "closing"
            /\ \A j \in DOMAIN toClient' : toClient'[j].is # "channelClose"
        BY <3>4 DEF Agreement, ClosedOnce
      <3>6. ASSUME NEW j \in DOMAIN toBroker', j > i
            PROVE  toBroker'[j].id = 0 /\ toBroker'[j].op # "channelCloseOK"
        <4>1. i < j
          BY <3>6
        <4>2. toBroker'[j] = Control("connectionClose")
          BY <2>2, <3>2, <4>1
        <4> QED
          BY <4>2, ControlNamed DEF CloseFrames
      <3> QED
        BY <3>3, <3>5, <3>6
    <2> QED
      BY <2>1, <2>2
  <1>17. ClosedOnce'
    <2> SUFFICES ASSUME NEW i \in DOMAIN toClient', toClient'[i].is = "channelClose"
                 PROVE  /\ broker.channel = "closing"
                        /\ \A j \in DOMAIN toClient' : j # i => toClient'[j].is # "channelClose"
      BY DEF ClosedOnce
    <2>1. PICK j \in DOMAIN toClient :
              /\ toClient[j] = toClient'[i]
              /\ \A k \in DOMAIN toClient' : k # i =>
                     \E l \in DOMAIN toClient : l # j /\ toClient[l] = toClient'[k]
      BY <1>13
    <2>2. /\ broker.channel = "closing"
          /\ \A l \in DOMAIN toClient : l # j => toClient[l].is # "channelClose"
      BY <2>1 DEF Agreement, ClosedOnce
    <2> QED
      BY <2>1, <2>2
  <1>18. CloseLast'
    <2> SUFFICES ASSUME NEW f \in AllFrames', f.op = "close"
                 PROVE  /\ channel'.state \in {"closing", "closed"}
                        /\ \A g \in AllFrames' : g.id <= f.id
      BY DEF CloseLast
    <2>1. CASE f \in AllFrames
      <3>1. Named(f, calls)
        BY <1>11, <2>1, ControlNamed DEF Agreement, AllNamed, AllFrames, SentFrames
      <3>2. calls # <<>>
        BY <3>1 DEF Named
      <3>3. channel.state \in {"closing", "closed"} /\ \A g \in AllFrames : g.id <= f.id
        BY <2>1 DEF Agreement, CloseLast
      <3>4. new = {} /\ channel'.state \in {"closing", "closed"}
        BY <3>2, <3>3
      <3> QED
        BY <1>6, <1>7, <1>8, <2>1, <3>3, <3>4
    <2>2. CASE f \in new
      <3>1. f.id = Len(calls) + 1 /\ channel'.state \in {"closing", "closed"}
        BY <2>2
      <3>2. ASSUME NEW g \in AllFrames'
            PROVE  g.id <= Len(calls) + 1
        <4>1. CASE g \in AllFrames
          BY <1>2, <1>7, <4>1
        <4>2. CASE g \in new
          BY <1>2, <4>2
        <4>3. CASE g \in closing
          BY <1>2, <1>8, <4>3
        <4> QED
          BY <1>6, <4>1, <4>2, <4>3
      <3> QED
        BY <3>1, <3>2
    <2> QED
      BY <1>6, <1>8, <2>1, <2>2
  <1>19. ClosedSilent'
    <2> SUFFICES ASSUME broker.channel = "closed"
                 PROVE  channel'.state \in {"closing", "closed"} /\ \A f \in AllFrames' : f.id = 0
      BY DEF ClosedSilent
    <2>1. channel.state \in {"closing", "closed"} /\ (\A f \in AllFrames : f.id = 0) /\ calls # <<>>
      BY DEF Agreement, ClosedSilent, OpenComes
    <2> QED
      BY <1>6, <1>8, <2>1
  <1>20. OpenComes'
    <2>1. CASE broker.channel = "none"
      <3>1. \/ \E f \in SentFrames' : f.op = "open"
            \/ channel'.state = "closed" /\ \A f \in AllFrames' : f.id = 0
        <4>1. CASE \E f \in SentFrames : f.op = "open"
          BY <1>6, <4>1
        <4>2. CASE channel.state = "closed" /\ \A f \in AllFrames : f.id = 0
          BY <1>6, <1>8, <4>2
        <4> QED
          BY <2>1, <4>1, <4>2 DEF Agreement, OpenComes
      <3> QED
        BY <2>1, <3>1 DEF OpenComes
    <2>2. CASE broker.channel # "none"
      <3>1. calls # <<>> /\ \A f \in AllFrames : f.op # "open"
        BY <2>2 DEF Agreement, OpenComes
      <3>2. \A f \in AllFrames' : f.op # "open"
        BY <1>6, <1>8, <3>1
      <3> QED
        BY <1>12, <2>2, <3>1, <3>2 DEF OpenComes
    <2> QED
      BY <2>1, <2>2
  <1>21. MessagesUncut'
    <2>1. LastPart' = LastPart
      BY DEF LastPart
    <2> QED
      BY <1>4, <2>1 DEF Agreement, MessagesUncut
  <1> QED
    BY <1>14, <1>15, <1>16, <1>17, <1>18, <1>19, <1>20, <1>21 DEF Agreement

-----------------------------------------------------------------------------
(***************************************************************************)
(* The steps of the program and the library.                               *)
(***************************************************************************)
\* A call, or the close of the connection that may be one.
LEMMA IssuesAgrees ==
    ASSUME IInv, Agreement, Live, broker' = broker, toClient' = toClient,
           NEW frame, Callable(frame), frame.id = Len(calls) + 1, frame.op # "open",
           NEW closing, closing \subseteq {Control("connectionClose")},
           Issues(Now, Now', LastPart, frame, closing),
           \/ calls' = Append(calls, frame.op)
           \/ calls' = calls /\ Goes(Now, Now', LastPart, {}, closing),
           channel'.linked = channel.linked,
           channel'.state = "closed" <=> channel.state = "closed"
    PROVE  Agreement'
  <1>1. Now.channel = channel /\ Now'.channel = channel'
    BY DEF Now
  <1>2. calls \in Seq(DOMAIN RequestFrame) /\ Len(calls) \in Nat
    BY NowSound
  <1>3. /\ calls' \in Seq(DOMAIN RequestFrame)
        /\ \A i \in DOMAIN calls : i \in DOMAIN calls' /\ calls'[i] = calls[i]
    BY <1>2 DEF Callable
  <1>4. LinkedOrClosed'
    BY DEF LinkedOrClosed, Agreement
  <1>5. channel.state = "closed" => channel'.state = "closed"
    OBVIOUS
  <1>6. channel.state \in {"closing", "closed"} => channel'.state \in {"closing", "closed"}
    BY <1>1 DEF Issues, Usable
  <1>7. calls = <<>> => channel'.state = "closed" /\ ~channel.linked
    BY DEF IInv, Calling
  <1>8. \A f \in closing : \E op \in CloseFrames : f = Control(op)
    BY DEF CloseFrames
  <1>9. Control("channelCloseOK") \notin closing
    BY DEF Control, FrameOfCall
  <1>10. CASE Goes(Now, Now', LastPart, {}, closing)
    <2> DEFINE new == {}
    <2>1. new = {} /\ Goes(Now, Now', LastPart, new, closing)
      BY <1>10
    <2> HIDE DEF new
    <2> QED
      BY <1>3, <1>4, <1>5, <1>6, <1>7, <1>8, <1>9, <2>1, LibraryAgrees
  <1>11. CASE ~Goes(Now, Now', LastPart, {}, closing)
    <2> DEFINE new == Made(frame)
    <2>1. /\ Goes(Now, Now', LastPart, new, closing)
          /\ Usable(channel) /\ channel.linked
          /\ frame.op = "close" => channel'.state = "closing"
      BY <1>1, <1>11 DEF Issues
    <2>2. calls' = Append(calls, frame.op) /\ calls # <<>>
      BY <1>7, <1>11, <2>1
    <2>3. \A f \in new : Named(f, calls') /\ f.id = Len(calls) + 1 /\ f.op = frame.op
      <3> SUFFICES ASSUME NEW i \in 1 .. frame.parts, NEW f, f = [frame EXCEPT !.part = i]
                   PROVE  Named(f, calls') /\ f.id = Len(calls) + 1 /\ f.op = frame.op
        BY DEF Made
      <3>1. /\ f.id = frame.id /\ f.op = frame.op /\ f.part = i /\ f.parts = frame.parts
        BY DEF Callable, Frames
      <3>2. frame.op # "publish" => i = 1
        BY DEF Callable
      <3>3. Len(calls) + 1 \in DOMAIN calls' /\ calls'[Len(calls) + 1] = frame.op
        BY <1>2, <2>2 DEF Callable
      <3> QED
        BY <3>1, <3>2, <3>3 DEF Named, Callable
    <2>4. channel.state \notin {"closing", "closed"}
      BY <2>1 DEF Usable
    <2> HIDE DEF new
    <2> QED
      BY <1>3, <1>4, <1>5, <1>6, <1>8, <1>9, <2>1, <2>2, <2>3, <2>4, LibraryAgrees
  <1> QED
    BY <1>10, <1>11

LEMMA CallAgrees ==
    ASSUME "publish" \notin Oversized, IInv, BrokerInv,
           NEW op \in Operations, NEW size \in Sizes, Call(op, size)
    PROVE  BrokerInv'
  <1> DEFINE n == Len(calls)
             parts == IF op = "publish" THEN 2 + size ELSE 1
             frame == FrameOfCall(op, n + 1, 1, parts)
             s == Perform(Now, frame)
  <1>1. /\ n \in 1 .. MaxCalls /\ MaxCalls \in Nat /\ MaxSize \in Nat /\ size \in 0 .. MaxSize
        /\ op \in DOMAIN RequestFrame /\ op # "open"
    BY ChannelAssumption, OperationsAssumption DEF Call, Sizes
  <1>2. /\ calls' = Append(calls, op) /\ UNCHANGED <<toClient, broker>> /\ connection.state # "gone"
    BY DEF Call
  <1>3. calls' \in Seq(DOMAIN RequestFrame) /\ Len(calls') = n + 1 /\ calls' # <<>> /\ calls # <<>>
    BY <1>1, <1>2, NowSound
  <1>4. Become(s)
    <2>1. PICK u \in {Perform(Now, FrameOfCall(op, Len(calls'), 1, parts))} : Become(u)
      BY DEF Call
    <2> QED
      BY <1>3, <2>1
  <1>5. frame \in Frames /\ Callable(frame) /\ frame.id = n + 1 /\ frame.op = op
    <2>1. parts \in 1 .. 2 + MaxSize /\ (op # "publish" => parts = 1)
      BY <1>1
    <2>2. n + 1 \in 0 .. MaxCalls + 2 /\ 1 \in 1 .. 2 + MaxSize
      BY <1>1
    <2> HIDE DEF parts, n
    <2> QED
      BY <1>1, <2>1, <2>2 DEF FrameOfCall, Frames, Callable
  <1> HIDE DEF frame
  <1>6. Len(Now.outcome) + 1 <= MaxCalls + 2
    BY <1>1, NowSound
  <1>7. Sound(s, LastRead, n + 1) /\ Called(Now, s)
    BY <1>5, <1>6, NowSound, PerformSound
  <1>8. Issues(Now, s, LastPart, frame, {})
    BY <1>5, <1>6, NowSound, LastPartNumbers, PerformIssues
  <1> HIDE DEF s
  <1>9. Now' = s
    BY <1>4, <1>7, Becomes DEF Sound
  <1>10. /\ channel'.linked = channel.linked
         /\ channel.state = "closed" <=> channel'.state = "closed"
    BY <1>4, <1>7, NowSound DEF Become, Called
  <1>11. OpenFirst'
    <2>1. /\ DOMAIN calls = 1 .. n /\ DOMAIN calls' = 1 .. n + 1
          /\ \A i \in 1 .. n : calls'[i] = calls[i]
          /\ calls'[n + 1] = op
      BY <1>2, NowSound
    <2>2. \A i \in 1 .. n + 1 : i \in 1 .. n \/ i = n + 1
      BY <1>1
    <2> QED
      BY <1>1, <2>1, <2>2 DEF BrokerInv, OpenFirst
  <1>12. Live' => Agreement'
    <2> SUFFICES ASSUME Live'
                 PROVE  Agreement'
      OBVIOUS
    <2>1. Live /\ Agreement
      BY <1>2 DEF Live, BrokerInv
    <2> QED
      BY <1>1, <1>2, <1>5, <1>8, <1>9, <1>10, <2>1, IssuesAgrees
  <1>13. BrokerSatisfied' /\ Unused'
    BY <1>2, <1>3 DEF BrokerInv, BrokerSatisfied, Unused
  <1> QED
    BY <1>11, <1>12, <1>13 DEF BrokerInv

\* The channel of a connection without one does not change.
LEMMA ClosingUnused ==
    ASSUME IInv, Unused, NEW s, s = CloseConnection(Now), calls = <<>>
    PROVE  ~s.channel.synchronous
  <1> DEFINE told == [Now EXCEPT !.connection.closeCalled = TRUE]
  <1>1. ~Now.channel.linked /\ ~Now.channel.synchronous
    BY NowSound DEF IInv, Calling, Unused
  <1>2. s = Now \/ s = SendCloseWhenIdle(told)
    BY <1>1 DEF CloseConnection
  <1>3. told.channel = Now.channel
    BY DEF Now
  <1>4. SendCloseWhenIdle(told).channel = told.channel
    <2> DEFINE con == [connection EXCEPT !.closeCalled = TRUE]
    <2>1. told = [channel |-> channel, connection |-> con, toBroker |-> toBroker,
                  outcome |-> outcome, delivered |-> delivered]
      <3>1. /\ Now.connection = connection
            /\ Now = [channel |-> channel, connection |-> connection, toBroker |-> toBroker,
                      outcome |-> outcome, delivered |-> delivered]
        BY DEF Now
      <3>2. told = [Now EXCEPT !.connection = con]
        BY <3>1, NowSound DEF States, Connections
      <3> HIDE DEF told, con
      <3> QED
        BY <3>1, <3>2
    <2> HIDE DEF told, con
    <2> QED
      BY <2>1 DEF SendCloseWhenIdle, SendClose, SendIfAccepted, Transmit
  <1> QED
    BY <1>1, <1>2, <1>3, <1>4

LEMMA ClosingOpenFirst ==
    ASSUME IInv, OpenFirst, NEW s, s = CloseConnection(Now)
    PROVE  /\ \/ CallsOfClose(s) = calls
              \/ CallsOfClose(s) = Append(calls, "close") /\ calls # <<>>
           /\ CallsOfClose(s) = calls <=> Len(s.outcome) = Len(calls)
           /\ \A i \in DOMAIN CallsOfClose(s) : CallsOfClose(s)[i] = "open" <=> i = 1
  <1>1. /\ Sound(Now, LastRead, Len(Now.outcome)) /\ Drained(Now)
        /\ Len(Now.outcome) <= MaxCalls + (IF Now.connection.closeCalled THEN 2 ELSE 1)
    BY NowSound DEF IInv, Calling
  <1>2. \/ Len(s.outcome) = Len(Now.outcome)
        \/ Len(s.outcome) = Len(Now.outcome) + 1 /\ Now.channel.linked
    BY <1>1, CloseConnectionSound
  <1>3. CASE Len(s.outcome) = Len(calls)
    <2>1. CallsOfClose(s) = calls
      BY <1>3, NowSound DEF CallsOfClose
    <2> DEFINE c == CallsOfClose(s)
    <2>2. c = calls
      BY <2>1
    <2> HIDE DEF c
    <2>3. \A i \in DOMAIN c : c[i] = "open" <=> i = 1
      BY <2>2 DEF OpenFirst
    <2> QED
      BY <1>3, <2>2, <2>3 DEF c
  <1>4. CASE Len(s.outcome) = Len(calls) + 1 /\ channel.linked
    <2>1. CallsOfClose(s) = Append(calls, "close") /\ calls # <<>>
      BY <1>4, NowSound DEF CallsOfClose, IInv, Calling
    <2> DEFINE n == Len(calls)
               c == CallsOfClose(s)
    <2>2. /\ DOMAIN calls = 1 .. n /\ DOMAIN c = 1 .. n + 1 /\ n \in Nat /\ n # 0
          /\ \A i \in 1 .. n : c[i] = calls[i]
          /\ c[n + 1] = "close" /\ Len(c) = n + 1
      BY <2>1, NowSound, EmptySeq
    <2>3. \A i \in 1 .. n + 1 : i \in 1 .. n \/ i = n + 1
      BY <2>2
    <2> HIDE DEF c
    <2>4. \A i \in DOMAIN c : c[i] = "open" <=> i = 1
      BY <2>2, <2>3 DEF OpenFirst
    <2>5. Len(c) # n /\ Len(s.outcome) # n
      <3> HIDE DEF n
      <3>1. n + 1 # n
        BY <2>2
      <3> QED
        BY <1>4, <2>2, <3>1 DEF n
    <2> QED
      BY <2>1, <2>4, <2>5 DEF c
  <1> QED
    BY <1>2, <1>3, <1>4, NowSound

LEMMA CloseAgrees ==
    ASSUME IInv, BrokerInv, Close
    PROVE  BrokerInv'
  <1> DEFINE s == CloseConnection(Now)
             frame == FrameOfCall("close", Len(Now.outcome) + 1, 1, 1)
             closing == {Control("connectionClose")}
  <1>1. /\ Become(s) /\ calls' = CallsOfClose(s) /\ UNCHANGED <<toClient, broker>>
        /\ connection.state # "gone"
    BY DEF Close
  <1>2. /\ Sound(s, LastRead, Len(calls')) /\ s.channel.linked = channel.linked
        /\ s.channel.state = "closed" <=> channel.state = "closed"
        /\ calls' = <<>> => calls = <<>>
    BY <1>1, ClosingCalls
  <1>3. /\ Sound(Now, LastRead, Len(Now.outcome)) /\ Drained(Now)
        /\ Len(Now.outcome) <= MaxCalls + (IF Now.connection.closeCalled THEN 2 ELSE 1)
    BY NowSound DEF IInv, Calling
  <1>4. /\ Issues(Now, s, LastPart, frame, closing)
        /\ Len(s.outcome) = Len(Now.outcome) => Goes(Now, s, LastPart, {}, closing)
    BY <1>3, LastPartNumbers, CloseConnectionIssues
  <1>5. /\ OpenFirst'
        /\ calls' = calls \/ (calls' = Append(calls, "close") /\ calls # <<>>)
        /\ calls' = calls <=> Len(s.outcome) = Len(calls)
    BY <1>1, ClosingOpenFirst DEF BrokerInv, OpenFirst
  <1>6. Unused'
    BY <1>1, <1>2, ClosingUnused DEF BrokerInv, Unused, Become
  <1> HIDE DEF s
  <1>7. Now' = s
    BY <1>1, <1>2, Becomes DEF Sound
  <1>8. channel' = s.channel
    BY <1>1 DEF Become
  <1>9. ASSUME Live'
        PROVE  Agreement'
    <2>1. Live /\ Agreement
      BY <1>1, <1>9 DEF Live, BrokerInv
    <2>2. calls' = calls => Goes(Now, Now', LastPart, {}, closing)
      BY <1>4, <1>5, <1>7, NowSound
    <2>3. CASE calls' = calls
      <3> DEFINE new == {}
      <3>1. new = {} /\ Goes(Now, Now', LastPart, new, closing)
        BY <2>2, <2>3
      <3> HIDE DEF new
      <3>2. calls \in Seq(DOMAIN RequestFrame)
        BY NowSound
      <3>3. channel.state \in {"closing", "closed"} => channel'.state \in {"closing", "closed"}
        BY <1>2, <1>4, <1>8, NowSound DEF Issues, Usable
      <3>4. LinkedOrClosed'
        BY <1>2, <1>8, <2>1 DEF Agreement, LinkedOrClosed
      <3>5. calls = <<>> => channel'.state = "closed"
        BY <1>2, <1>8 DEF IInv, Calling
      <3>6. /\ \A f \in closing : \E op \in CloseFrames : f = Control(op)
            /\ Control("channelCloseOK") \notin closing
        BY DEF CloseFrames, Control, FrameOfCall
      <3> HIDE DEF closing
      <3> QED
        BY <1>1, <1>2, <1>8, <2>1, <2>3, <3>1, <3>2, <3>3, <3>4, <3>5, <3>6, LibraryAgrees
    <2>4. CASE calls' # calls
      <3>1. calls' = Append(calls, "close") /\ calls # <<>>
        BY <1>5, <2>4
      <3>2. calls' \in Seq(DOMAIN RequestFrame)
        BY <1>1, ClosingCalls DEF s
      <3>3. Callable(frame) /\ frame.op = "close" /\ frame.id = Len(calls) + 1
        <4>1. Len(Now.outcome) + 1 \in 0 .. MaxCalls + 2 /\ 1 \in 1 .. 2 + MaxSize
          <5>1. ~Now.connection.closeCalled
            BY NowSound DEF Close
          <5> QED
            BY <1>3, <5>1, ChannelAssumption, NowSound
        <4>2. "close" \in DOMAIN RequestFrame
          BY OperationNames
        <4> QED
          BY <4>1, <4>2, NowSound DEF Callable, Frames, FrameOfCall
      <3> HIDE DEF frame, closing
      <3>4. closing \subseteq {Control("connectionClose")}
        BY DEF closing
      <3> QED
        BY <1>1, <1>2, <1>4, <1>7, <1>8, <2>1, <3>1, <3>3, <3>4, IssuesAgrees
    <2> QED
      BY <2>3, <2>4
  <1>10. BrokerSatisfied'
    BY <1>1 DEF BrokerInv, BrokerSatisfied
  <1> QED
    BY <1>5, <1>6, <1>9, <1>10 DEF BrokerInv

\* What is on the way with the connection does not matter when it is gone.
LEMMA DestroyAgrees ==
    ASSUME IInv, BrokerInv, Destroy
    PROVE  BrokerInv'
  <1> DEFINE s == CloseConnection(Now)
             u == [s EXCEPT !.connection.state = "gone", !.channel.linked = FALSE]
  <1>1. Become(u) /\ calls' = CallsOfClose(s) /\ broker' = broker
    BY DEF Destroy
  <1>2. Sound(s, LastRead, Len(calls')) /\ (calls' = <<>> => calls = <<>>)
    BY <1>1, ClosingCalls
  <1>3. OpenFirst'
    BY <1>1, ClosingOpenFirst DEF BrokerInv, OpenFirst
  <1>4. calls = <<>> => ~s.channel.synchronous
    BY ClosingUnused DEF BrokerInv
  <1> HIDE DEF s
  <1>5. /\ DOMAIN s = {"channel", "connection", "toBroker", "outcome", "delivered"}
        /\ s.channel \in Channels /\ s.connection \in Connections
    BY <1>2, StateMembers
  <1>6. u.connection.state = "gone" /\ u.channel.synchronous = s.channel.synchronous
    BY <1>5 DEF Channels, Connections
  <1>7. ~Live' /\ Unused'
    BY <1>1, <1>2, <1>4, <1>6 DEF Become, Live, Unused
  <1>8. BrokerSatisfied'
    BY <1>1 DEF BrokerInv, BrokerSatisfied
  <1> QED
    BY <1>3, <1>7, <1>8 DEF BrokerInv

LEMMA ReadyAgrees ==
    ASSUME IInv, BrokerInv, Ready
    PROVE  BrokerInv'
  <1> DEFINE s == SetReady(Now)
             new == {}
             closing == {Control("connectionClose")}
  <1>1. Become(s) /\ UNCHANGED <<calls, toClient, broker>> /\ connection.state = "handshake"
    BY DEF Ready
  <1>2. Sound(s, LastRead, Len(calls)) /\ s.channel = channel
    BY NowSound, SetReadySound
  <1>3. Goes(Now, s, LastPart, new, closing) /\ new = {}
    BY <1>1, NowSound, LastPartNumbers, ReadyGoes
  <1> HIDE DEF s, new
  <1>4. Now' = s /\ channel' = channel
    BY <1>1, <1>2, Becomes DEF Sound, Become
  <1>5. ASSUME Live'
        PROVE  Agreement'
    <2>1. Live /\ Agreement
      BY <1>1, <1>5 DEF Live, BrokerInv
    <2>2. calls \in Seq(DOMAIN RequestFrame)
      BY NowSound
    <2>3. LinkedOrClosed'
      BY <1>4, <2>1 DEF Agreement, LinkedOrClosed
    <2>4. calls = <<>> => channel'.state = "closed"
      BY <1>4 DEF IInv, Calling
    <2>5. /\ \A f \in closing : \E op \in CloseFrames : f = Control(op)
          /\ Control("channelCloseOK") \notin closing
      BY DEF CloseFrames, Control, FrameOfCall
    <2> HIDE DEF closing
    <2> QED
      BY <1>1, <1>3, <1>4, <2>1, <2>2, <2>3, <2>4, <2>5, LibraryAgrees
  <1>6. BrokerSatisfied' /\ OpenFirst' /\ Unused'
    BY <1>1, <1>4 DEF BrokerInv, BrokerSatisfied, OpenFirst, Unused
  <1> QED
    BY <1>5, <1>6 DEF BrokerInv

LEMMA AttachAgrees ==
    ASSUME IInv, BrokerInv, Attach
    PROVE  BrokerInv'
  <1> DEFINE open == FrameOfCall("open", 1, 1, 1)
             ch   == [channel EXCEPT !.state = "connected", !.linked = TRUE]
             u    == [Now EXCEPT !.channel = ch]
             one  == [u EXCEPT !.outcome = <<"done">>]
             shut == [one EXCEPT !.channel = [ch EXCEPT !.state = "closed"]]
             sent == SendFrame(one, open)
             none == {}
  <1>1. /\ calls = <<>> /\ calls' = <<"open">> /\ UNCHANGED <<toClient, broker>>
        /\ connection.state # "gone"
    BY DEF Attach
  <1>2. Len(calls) = 0 /\ calls' \in Seq(DOMAIN RequestFrame) /\ DOMAIN calls' = {1} /\ calls'[1] = "open"
        /\ DOMAIN calls = {}
    BY <1>1, OperationNames
  <1>3. channel.state = "closed" /\ ~channel.linked
    BY <1>1 DEF IInv, Calling
  <1>4. channel.queue = <<>> /\ ~channel.synchronous
    BY <1>1, <1>3, NowSound DEF Drained, BrokerInv, Unused
  <1>5. /\ ch \in Channels /\ ch.queue = <<>> /\ ch.state = "connected" /\ ch.linked
        /\ ~ch.synchronous
    BY <1>4, NowSound DEF Channels
  <1>6. open \in Frames /\ open.id = 1 /\ open.op = "open" /\ open.part = 1 /\ open.parts = 1
    BY ChannelAssumption, OperationNames DEF FrameOfCall, Frames
  <1>7. Become(IF Sends(one, open) THEN sent ELSE shut)
    <2>1. [Now EXCEPT !.channel.state = "connected", !.channel.linked = TRUE, !.outcome = <<"done">>]
              = one
      BY NowSound DEF States, Channels, Now
    <2>2. [one EXCEPT !.channel.state = "closed"] = shut
      BY NowSound DEF States, Channels, Now
    <2> HIDE DEF one, shut
    <2> QED
      BY <2>1, <2>2 DEF Attach
  <1> HIDE DEF ch
  <1>8. /\ Sound(u, LastRead, 0) /\ u.channel = ch /\ u.connection = connection
        /\ u.toBroker = toBroker /\ u.delivered = delivered
    BY <1>2, <1>4, <1>5, NowSound, ChannelSound
  <1> HIDE DEF u
  <1>9. /\ Sound(one, LastRead, 0) /\ one.channel = ch /\ one.connection = connection
        /\ one.toBroker = toBroker
    <2> DEFINE o == <<"done">>
    <2>1. o \in Seq(Outcomes) /\ Len(o) = 1
      BY DEF Outcomes
    <2> HIDE DEF o
    <2> QED
      BY <1>8, <2>1, OutcomeSound DEF o
  <1> HIDE DEF one, open, none
  <1>10. \A new, closing : Goes(Now, one, LastPart, new, closing)
    BY <1>4, <1>5, <1>9, NowSound, GoesStill
  <1>11. Named(open, calls')
    BY <1>2, <1>6 DEF Named
  <1>12. \A new, closing : LinkedOrClosed' /\ Live' /\ new \subseteq {open} /\ closing = {}
             /\ Goes(Now, Now', LastPart, new, closing)
             /\ ((\E f \in SentFrames' : f.op = "open") \/ (channel'.state = "closed" /\ new = {}))
             => Agreement'
    <2> SUFFICES ASSUME NEW new, NEW closing, LinkedOrClosed', Live', new \subseteq {open}, closing = {},
                        Goes(Now, Now', LastPart, new, closing),
                        (\E f \in SentFrames' : f.op = "open") \/ (channel'.state = "closed" /\ new = {})
                 PROVE  Agreement'
      OBVIOUS
    <2>1. Live /\ Agreement
      BY <1>1 DEF Live, BrokerInv
    <2>2. \A i \in DOMAIN calls : i \in DOMAIN calls' /\ calls'[i] = calls[i]
      BY <1>2
    <2>3. \A f \in new : Named(f, calls') /\ f.id = Len(calls) + 1 /\ f.op # "close"
      BY <1>2, <1>6, <1>11
    <2> QED
      BY <1>1, <1>2, <2>1, <2>2, <2>3, LibraryAgrees
  <1>13. BrokerSatisfied' /\ OpenFirst' /\ Unused'
    BY <1>1, <1>2 DEF BrokerInv, BrokerSatisfied, OpenFirst, Unused
  <1>14. CASE Sends(one, open)
    <2> DEFINE f == <<open>>
    <2>1. Sound(sent, LastRead, 1) /\ Keeps(one, sent) /\ SameChannel(one, sent)
      BY <1>6, <1>9, SendFrameSound
    <2>2. f \in Seq(Frames) /\ Flushable(f) /\ ToSet(f) = {open}
      <3>1. InWholes(f)
        BY <1>6, EmptyWhole
      <3>2. f \in Seq(Frames) /\ DOMAIN f = {1} /\ f[1] = open
        BY <1>6
      <3> QED
        BY <1>6, <3>1, <3>2 DEF Flushable, ToSet
    <2>3. sent = SendAtOnce(one, f)
      BY <1>5, <1>9, <1>14 DEF SendFrame, SendFrames, Waiting
    <2>4. Goes(one, sent, LastPart, {open}, {})
      <3>1. sent = SendFrames(one, f)
        BY <1>14 DEF SendFrame
      <3> HIDE DEF f, sent
      <3> QED
        BY <1>9, <2>2, <3>1, LastPartNumbers, SendFramesGoes DEF Sound
    <2>5. open \in ToSet(sent.toBroker) \/ open \in ToSet(sent.connection.queue)
      <3>1. one \in States /\ one.toBroker \in Seq(Frames) /\ one.connection \in Connections
            /\ one.connection.queue \in Seq(Frames)
        BY <1>9 DEF Sound, States, Connections
      <3>2. sent.toBroker = Transmit(one, f).toBroker /\ sent.connection = Transmit(one, f).connection
        <4>1. DOMAIN Transmit(one, f) = {"channel", "connection", "toBroker", "outcome", "delivered"}
          BY <3>1 DEF Transmit, States
        <4> HIDE DEF f, sent
        <4> QED
          BY <2>3, <4>1 DEF SendAtOnce
      <3> HIDE DEF sent, f
      <3>3. \/ Transmit(one, f).toBroker = one.toBroker \o f
            \/ Transmit(one, f).connection.queue = one.connection.queue \o f
        BY <3>1 DEF Transmit, States, Connections
      <3>4. /\ open \in ToSet(one.toBroker \o f)
            /\ open \in ToSet(one.connection.queue \o f)
        <4>1. ToSet(one.toBroker \o f) = ToSet(one.toBroker) \cup ToSet(f)
          BY <2>2, <3>1, SetConcatenated
        <4>2. ToSet(one.connection.queue \o f) = ToSet(one.connection.queue) \cup ToSet(f)
          BY <2>2, <3>1, SetConcatenated
        <4> QED
          BY <2>2, <4>1, <4>2
      <3> QED
        BY <3>2, <3>3, <3>4
    <2>6. Become(sent)
      BY <1>7, <1>14
    <2> HIDE DEF sent
    <2>7. Now' = sent
      BY <2>1, <2>6, Becomes DEF Sound
    <2>8. /\ toBroker' = sent.toBroker /\ connection' = sent.connection /\ channel' = sent.channel
      BY <2>6 DEF Become
    <2>9. LinkedOrClosed'
      BY <1>5, <1>9, <2>1, <2>8 DEF Keeps, LinkedOrClosed
    <2>10. Goes(Now, Now', LastPart, {open}, {})
      BY <1>10, <2>4, <2>7, GoesOn
    <2>11. \E g \in SentFrames' : g.op = "open"
      BY <1>6, <2>5, <2>8 DEF SentFrames
    <2>12. Live' => Agreement'
      BY <1>12, <2>9, <2>10, <2>11
    <2> QED
      BY <1>13, <2>12 DEF BrokerInv
  <1>15. CASE ~Sends(one, open)
    <2> DEFINE closed == [ch EXCEPT !.state = "closed"]
    <2>1. /\ closed \in Channels /\ closed.queue = <<>> /\ closed.state = "closed"
      BY <1>5 DEF Channels
    <2>2. shut = [one EXCEPT !.channel = closed]
      OBVIOUS
    <2> HIDE DEF closed, shut
    <2>3. /\ Sound(shut, LastRead, 0) /\ shut.channel = closed /\ shut.connection = one.connection
          /\ shut.toBroker = one.toBroker
      BY <1>9, <2>1, <2>2, ChannelSound
    <2>4. Become(shut)
      BY <1>7, <1>15
    <2>5. Now' = shut /\ channel' = closed
      BY <2>3, <2>4, Becomes DEF Sound, Become
    <2>6. \A closing : Goes(Now, Now', LastPart, none, closing)
      BY <1>4, <1>9, <2>1, <2>3, <2>5, NowSound, GoesStill
    <2>7. LinkedOrClosed' /\ channel'.state = "closed" /\ none = {}
      BY <2>1, <2>5 DEF LinkedOrClosed, none
    <2>8. Live' => Agreement'
      BY <1>12, <2>6, <2>7
    <2> QED
      BY <1>13, <2>8 DEF BrokerInv
  <1> QED
    BY <1>14, <1>15

\* A close frame goes to the end of what is sent, or nowhere.
LEMMA ControlBehind ==
    ASSUME NEW s \in States, NEW op \in CloseFrames
    PROVE  \/ SendIfAccepted(s, Control(op)).toBroker = s.toBroker
           \/ SendIfAccepted(s, Control(op)).toBroker = s.toBroker \o <<Control(op)>>
  BY DEF SendIfAccepted, Transmit, States

LEMMA WhenIdleBehind ==
    ASSUME NEW s \in States
    PROVE  \/ SendCloseWhenIdle(s).toBroker = s.toBroker
           \/ SendCloseWhenIdle(s).toBroker = s.toBroker \o <<Control("connectionClose")>>
  <1> DEFINE u == SendIfAccepted(s, Control("connectionClose"))
  <1>1. u.toBroker = s.toBroker \/ u.toBroker = s.toBroker \o <<Control("connectionClose")>>
    BY ControlBehind DEF CloseFrames
  <1>2. DOMAIN u = {"channel", "connection", "toBroker", "outcome", "delivered"}
    BY DEF SendIfAccepted, Transmit, States
  <1> HIDE DEF u
  <1>3. SendClose(s).toBroker = u.toBroker
    BY <1>2 DEF SendClose, u
  <1> QED
    BY <1>1, <1>3 DEF SendCloseWhenIdle

\* The answer to the close of the channel comes with at most the close of the
\* connection behind it.
LEMMA CloseOKBehind ==
    ASSUME NEW p \in Seq(Frames), NEW f, NEW g, NEW q, NEW r,
           q = p \/ q = p \o <<f>>, r = q \/ r = q \o <<g>>, f.op # g.op,
           NEW i \in DOMAIN r, NEW j \in DOMAIN r, i < j, i \notin DOMAIN p, r[i].op = f.op
    PROVE  r[j] = g
  <1> DEFINE n == Len(p)
  <1>1. n \in Nat /\ DOMAIN p = 1 .. n /\ p \in Seq(UNION {Frames, {f, g}})
    <2>1. Frames \subseteq UNION {Frames, {f, g}}
      OBVIOUS
    <2> QED
      BY <2>1
  <1>2. CASE q = p
    <2>1. CASE r = q
      BY <1>2, <2>1
    <2>2. CASE r = q \o <<g>>
      <3>1. DOMAIN r = 1 .. n + 1 /\ r[n + 1] = g
        BY <1>1, <1>2, <2>2
      <3> QED
        BY <1>1, <3>1
    <2> QED
      BY <2>1, <2>2
  <1>3. CASE q = p \o <<f>>
    <2>1. q \in Seq(UNION {Frames, {f, g}}) /\ Len(q) = n + 1 /\ DOMAIN q = 1 .. n + 1
      BY <1>1, <1>3
    <2>2. CASE r = q
      BY <1>1, <2>1, <2>2
    <2>3. CASE r = q \o <<g>>
      <3>1. DOMAIN r = 1 .. n + 2 /\ r[n + 2] = g
        BY <1>1, <2>1, <2>3
      <3> HIDE DEF n
      <3>2. j = n + 2
        BY <1>1, <3>1
      <3> QED
        BY <3>1, <3>2
    <2> QED
      BY <2>2, <2>3
  <1> QED
    BY <1>2, <1>3

LEMMA ReadAgrees ==
    ASSUME IInv, BrokerInv, NEW more \in BOOLEAN, ReadFrame(more)
    PROVE  BrokerInv'
  <1> DEFINE q == toClient
             f == Head(q)
             t == ProcessReceived(Now, f)
             s == IF more THEN t ELSE SendCloseWhenIdle(t)
             n == Len(calls)
             new == {}
             closing == CloseAnswers(f) \cup {Control("connectionClose")}
  <1>1. /\ connection.state \in {"connected", "closing"} /\ q # <<>>
        /\ Become(s) /\ toClient' = Tail(q) /\ UNCHANGED <<calls, broker>>
    <2>1. q \in Seq(FramesToClient) /\ Len(q) > (IF more THEN 1 ELSE 0)
      BY NowSound DEF ReadFrame
    <2>2. q # <<>>
      BY <2>1
    <2> QED
      BY <2>2 DEF ReadFrame
  <1>2. /\ q \in Seq(FramesToClient) /\ InPieces(q)
        /\ channel.linked /\ channel.receiver # NoReceiver => Receiving(channel.receiver, q)
    BY NowSound DEF IInv, Messages
  <1>3. f \in FramesToClient
    BY <1>1, <1>2, Shifted
  <1>4. Sound(t, LastRead, n) /\ Stays(Now, t)
    BY <1>1, <1>2, NowSound, ProcessReceivedSound DEF Read
  <1>5. /\ Goes(Now, t, LastPart, {}, CloseAnswers(f)) /\ Declines(Now, t)
        /\ f.is = "channelClose" /\ channel.linked => t.channel.state = "closed"
    BY <1>1, <1>3, NowSound, LastPartNumbers, ProcessReceivedGoes
  <1>6. f.is = "channelClose" => \/ t.toBroker = toBroker
                                 \/ t.toBroker = toBroker \o <<Control("channelCloseOK")>>
    <2> DEFINE a == SendIfAccepted(Now, Control("channelCloseOK"))
    <2>1. a.toBroker = toBroker \/ a.toBroker = toBroker \o <<Control("channelCloseOK")>>
      BY NowSound, ControlBehind DEF CloseFrames
    <2>2. Shaped(a)
      BY NowSound, ControlSound, StatesShaped DEF Sound
    <2> HIDE DEF a
    <2>3. ReportError(a).toBroker = a.toBroker
      BY <2>2 DEF ReportError, Shaped
    <2> QED
      BY <2>1, <2>3 DEF ProcessReceived, AnswerChannelClose, a
  <1> HIDE DEF t
  <1>7. /\ Sound(s, LastRead, n) /\ s.channel = t.channel
        /\ Goes(t, s, LastPart, new, closing)
        /\ s.toBroker = t.toBroker \/ s.toBroker = t.toBroker \o <<Control("connectionClose")>>
    <2>1. t \in States
      BY <1>4, StateMembers
    <2>2. CASE more
      BY <1>4, <2>2, GoesStill
    <2>3. CASE ~more
      BY <1>4, <2>1, <2>3, LastPartNumbers, CloseWhenIdleSound, CloseWhenIdleGoes, WhenIdleBehind
    <2> QED
      BY <2>2, <2>3
  <1> HIDE DEF s
  <1>8. Goes(Now, s, LastPart, new, closing) /\ new = {}
    <2>1. Goes(Now, t, LastPart, new, closing)
      BY <1>5, GoesFurther
    <2> QED
      BY <1>7, <2>1, GoesOn
  <1>9. Now' = s /\ channel' = t.channel /\ toBroker' = s.toBroker
    BY <1>1, <1>7, Becomes DEF Sound, Become
  <1> HIDE DEF new
  <1>10. ASSUME Live'
         PROVE  Agreement'
    <2>1. Live /\ Agreement
      BY <1>1, <1>10 DEF Live, BrokerInv
    <2>2. calls \in Seq(DOMAIN RequestFrame)
      BY NowSound
    <2>3. /\ channel.state \in {"closing", "closed"} => channel'.state \in {"closing", "closed"}
          /\ channel.state = "closed" => channel'.state = "closed"
      BY <1>5, <1>9, NowSound DEF Declines
    <2>4. LinkedOrClosed'
      BY <1>5, <1>9, <2>1, <2>3, NowSound DEF Declines, Agreement, LinkedOrClosed
    <2>5. calls = <<>> => channel'.state = "closed"
      BY <2>3 DEF IInv, Calling
    <2>6. \A g \in closing : \E op \in CloseFrames : g = Control(op)
      BY DEF CloseFrames, CloseAnswers
    <2>7. Control("channelCloseOK") \in closing => f.is = "channelClose"
      BY DEF CloseAnswers, Control, FrameOfCall
    <2>8. f.is = "channelClose" => channel'.state = "closed"
      BY <1>5, <1>9, <2>1, <2>3, NowSound DEF Agreement, LinkedOrClosed
    <2>9. ASSUME f.is = "channelClose", NEW i \in DOMAIN toBroker', NEW j \in DOMAIN toBroker',
                 i < j, i \notin DOMAIN toBroker, toBroker'[i].op = "channelCloseOK"
          PROVE  toBroker'[j] = Control("connectionClose")
      <3> DEFINE ok    == Control("channelCloseOK")
                 close == Control("connectionClose")
      <3>1. ok.op = "channelCloseOK" /\ close.op = "connectionClose"
        BY DEF Control, FrameOfCall
      <3>2. toBroker \in Seq(Frames)
        BY NowSound DEF States
      <3>3. /\ t.toBroker = toBroker \/ t.toBroker = toBroker \o <<ok>>
            /\ toBroker' = t.toBroker \/ toBroker' = t.toBroker \o <<close>>
        BY <1>6, <1>7, <1>9, <2>9
      <3> HIDE DEF ok, close
      <3> DEFINE r == toBroker'
                 b == t.toBroker
      <3>4. /\ b = toBroker \/ b = toBroker \o <<ok>>
            /\ r = b \/ r = b \o <<close>>
            /\ i \in DOMAIN r /\ j \in DOMAIN r /\ r[i].op = ok.op
        BY <2>9, <3>1, <3>3
      <3> HIDE DEF r, b
      <3>5. r[j] = close
        BY <2>9, <3>1, <3>2, <3>4, CloseOKBehind
      <3> QED
        BY <3>5 DEF r, close
    <2> HIDE DEF closing
    <2> QED
      BY <1>1, <1>8, <1>9, <2>1, <2>2, <2>3, <2>4, <2>5, <2>6, <2>7, <2>8, <2>9, LibraryAgrees
  <1>11. Unused'
    BY <1>1, <1>4, <1>9, NowSound DEF Stays, IInv, Calling, BrokerInv, Unused
  <1>12. BrokerSatisfied' /\ OpenFirst'
    BY <1>1 DEF BrokerInv, BrokerSatisfied, OpenFirst
  <1> QED
    BY <1>10, <1>11, <1>12 DEF BrokerInv

-----------------------------------------------------------------------------
(***************************************************************************)
(* The steps of the broker.                                                *)
(***************************************************************************)
\* The frames behind the one that the broker reads.
LEMMA HeadBefore ==
    ASSUME IInv, NEW frame \in Incoming
    PROVE  /\ frame \in Frames /\ frame \in ToSet(toBroker)
           /\ toBroker \in Seq(Frames) /\ toBroker # <<>> /\ frame = toBroker[1]
           /\ \A g \in ToSet(Tail(toBroker)) : g \in ToSet(toBroker)
           /\ \A g \in ToSet(Tail(toBroker)) \cup ToSet(connection.queue) \cup ToSet(channel.queue) :
                  Before(frame, g)
  <1>1. toBroker \in Seq(Frames) /\ 1 \in DOMAIN toBroker /\ frame = toBroker[1]
    BY NowSound DEF States, Incoming
  <1>2. toBroker # <<>>
    BY <1>1
  <1>3. /\ frame \in Frames
        /\ \A i \in DOMAIN Tail(toBroker) :
               i \in Nat \ {0} /\ i + 1 \in DOMAIN toBroker /\ Tail(toBroker)[i] = toBroker[i + 1]
    BY <1>1, <1>2, Shifted
  <1>4. /\ InOrder(toBroker) /\ AllBefore(toBroker, connection.queue)
        /\ AllBefore(toBroker, channel.queue)
    BY NowSound DEF Sound
  <1>5. ASSUME NEW i \in DOMAIN Tail(toBroker)
        PROVE  Before(frame, Tail(toBroker)[i]) /\ Tail(toBroker)[i] \in ToSet(toBroker)
    <2>1. i + 1 \in DOMAIN toBroker /\ 1 < i + 1 /\ Tail(toBroker)[i] = toBroker[i + 1]
      BY <1>3
    <2> QED
      BY <1>1, <1>4, <2>1 DEF InOrder, ToSet
  <1>6. /\ \A i \in DOMAIN connection.queue : Before(frame, connection.queue[i])
        /\ \A i \in DOMAIN channel.queue : Before(frame, channel.queue[i])
    BY <1>1, <1>4 DEF AllBefore
  <1> QED
    BY <1>1, <1>2, <1>3, <1>5, <1>6 DEF ToSet

\* Every frame is of a call, or a close frame.
LEMMA FrameNamed ==
    ASSUME IInv, AllNamed, NEW f \in AllFrames
    PROVE  \/ Named(f, calls) /\ f.id \in 1 .. Len(calls) /\ f.op \notin CloseFrames
                /\ f.op \in DOMAIN RequestFrame
           \/ f.op \in CloseFrames /\ f.id = 0 /\ f.part = 1 /\ f.parts = 1
  <1>1. Named(f, calls) \/ \E op \in CloseFrames : f = Control(op)
    BY DEF AllNamed, AllFrames, SentFrames
  <1> QED
    BY <1>1, NowSound, NamedFrame, ControlNamed

\* A frame the protocol forbids is one that is too large.
LEMMA BrokerAllowed ==
    ASSUME IInv, OpenFirst, Agreement, Live, NEW frame \in Incoming,
           ~Ignored(frame), ~Allowed(frame)
    PROVE  frame.op \in Oversized
  <1>1. /\ frame \in AllFrames /\ frame \in ToSet(toBroker) /\ frame = toBroker[1]
        /\ toBroker # <<>> /\ 1 \in DOMAIN toBroker
    BY HeadBefore DEF AllFrames, SentFrames, Incoming
  <1>2. \/ Named(frame, calls) /\ frame.id \in 1 .. Len(calls) /\ frame.op \notin CloseFrames
        \/ frame.op \in CloseFrames
    BY <1>1, FrameNamed DEF Agreement
  <1>3. broker.connection = "open" /\ Len(calls) \in Nat /\ calls \in Seq(DOMAIN RequestFrame)
    BY NowSound DEF Live
  <1>4. frame.op \notin ConnectionFrameOps
    BY DEF Allowed, ConnectionFrameOps
  <1>5. CASE frame.op \in CloseFrames
    <2>1. frame.op = "channelCloseOK"
      BY <1>4, <1>5 DEF CloseFrames, ConnectionFrameOps
    <2>2. broker.channel = "closing"
      BY <1>1, <2>1 DEF Agreement, AnsweredOnce
    <2> QED
      BY <2>1, <2>2 DEF Allowed, ConnectionFrameOps
  <1>6. CASE Named(frame, calls) /\ frame.id \in 1 .. Len(calls) /\ frame.op \notin CloseFrames
    <2>1. CASE broker.channel = "none"
      <3>1. frame.id # 0
        BY <1>6
      <3>2. PICK g \in SentFrames : g.op = "open"
        BY <1>1, <2>1, <3>1 DEF Agreement, OpenComes
      <3>3. g \in AllFrames
        BY DEF AllFrames
      <3>4. g.id \in DOMAIN calls /\ calls[g.id] = "open"
        BY <3>2, <3>3, FrameNamed DEF Agreement, Named, CloseFrames
      <3>5. g.id = 1
        BY <3>4 DEF OpenFirst
      <3>6. CASE g = frame
        BY <2>1, <3>2, <3>6 DEF Allowed, ConnectionFrameOps
      <3>7. CASE g # frame
        <4>1. g \in ToSet(Tail(toBroker)) \cup ToSet(connection.queue)
          <5>1. ASSUME NEW i \in DOMAIN toBroker, g = toBroker[i]
                PROVE  g \in ToSet(Tail(toBroker))
            <6>1. i # 1
              BY <1>1, <3>7, <5>1
            <6>2. toBroker \in Seq(Frames)
              BY HeadBefore
            <6>3. i - 1 \in DOMAIN Tail(toBroker) /\ Tail(toBroker)[i - 1] = toBroker[i]
              BY <1>1, <6>1, <6>2, Shifted
            <6> QED
              BY <5>1, <6>3 DEF ToSet
          <5> QED
            BY <5>1 DEF SentFrames, ToSet
        <4>2. Before(frame, g)
          BY <4>1, HeadBefore
        <4>3. frame.id = 1
          BY <1>6, <3>5, <4>2 DEF Before
        <4>4. frame.op = "open"
          BY <1>6, <4>3, <3>4, <3>5 DEF Named
        <4> QED
          BY <2>1, <4>4 DEF Allowed, ConnectionFrameOps
      <3> QED
        BY <3>6, <3>7
    <2>2. CASE broker.channel = "closed"
      BY <1>1, <1>6, <2>2 DEF Agreement, ClosedSilent
    <2>3. CASE broker.channel = "closing"
      <3>1. frame.op = "close"
        BY <1>6, <2>3 DEF Ignored, CloseFrames, ConnectionFrameOps
      <3> QED
        BY <2>3, <3>1 DEF Allowed, ConnectionFrameOps
    <2>4. CASE broker.channel = "open"
      <3>1. frame.op \notin {"open", "channelCloseOK"}
        BY <1>1, <1>6, <2>4 DEF Agreement, OpenComes, CloseFrames
      <3>2. frame.op # "close"
        BY <2>4 DEF Allowed, ConnectionFrameOps
      <3>3. Expected(frame)
        <4>1. Joins(LastPart, toBroker[1])
          BY <1>1, <2>4 DEF Agreement, MessagesUncut, WholeIn, Resumes, Now
        <4> QED
          BY <1>1, <4>1 DEF Joins, LastPart, Expected
      <3>4. TooLarge(frame)
        BY <1>4, <2>4, <3>1, <3>2, <3>3 DEF Allowed
      <3> QED
        BY <3>4 DEF TooLarge
    <2> QED
      BY <2>1, <2>2, <2>3, <2>4, NowSound DEF Brokers
  <1> QED
    BY <1>2, <1>5, <1>6

\* What a step of the broker that reads a frame has to show.
LEMMA BrokerAgrees ==
    ASSUME IInv, OpenFirst, Agreement, Live, NEW frame \in Incoming, Reads,
           NEW extra \in Seq(FramesToClient), toClient' = toClient \o extra,
           broker.channel = "none" => frame.op = "open",
           broker'.channel # "none",
           broker'.channel = "closed" =>
               broker.channel = "closed" \/ frame.op \in {"channelCloseOK", "close"},
           broker.channel = "closing" /\ frame.op # "channelCloseOK" => broker'.channel = "closing",
           broker'.channel = "open" =>
               /\ broker.channel \in {"none", "open"}
               /\ broker'.read = IF frame.id = 0 THEN broker.read
                                 ELSE <<frame.id, frame.part, frame.parts>>,
           \A i \in DOMAIN extra : extra[i].is = "channelClose" =>
               Len(extra) = 1 /\ broker.channel = "open" /\ broker'.channel = "closing"
    PROVE  Agreement'
  <1>1. /\ toBroker' = Tail(toBroker) /\ channel' = channel /\ connection' = connection
        /\ calls' = calls
    BY DEF Reads, libraryVars
  <1>2. /\ frame \in Frames /\ frame \in ToSet(toBroker)
        /\ toBroker \in Seq(Frames) /\ toBroker # <<>> /\ frame = toBroker[1]
        /\ \A g \in ToSet(toBroker') : g \in ToSet(toBroker)
        /\ \A g \in AllFrames' : Before(frame, g)
    BY <1>1, HeadBefore DEF AllFrames, SentFrames
  <1>3. \A i \in DOMAIN toBroker' :
            i \in Nat \ {0} /\ i + 1 \in DOMAIN toBroker /\ toBroker'[i] = toBroker[i + 1]
    BY <1>1, <1>2, Shifted
  <1>4. 1 \in DOMAIN toBroker /\ frame \in AllFrames /\ AllFrames' \subseteq AllFrames
    BY <1>1, <1>2, Shifted DEF AllFrames, SentFrames
  <1>5. \/ Named(frame, calls) /\ frame.id \in 1 .. Len(calls) /\ frame.op \notin CloseFrames
        \/ frame.op \in CloseFrames /\ frame.id = 0 /\ frame.part = 1 /\ frame.parts = 1
    BY <1>4, FrameNamed DEF Agreement
  <1>6. /\ toClient \in Seq(FramesToClient) /\ calls \in Seq(DOMAIN RequestFrame)
        /\ Len(calls) \in Nat
    BY NowSound
  <1>7. AllNamed'
    BY <1>1, <1>2 DEF Agreement, AllNamed
  <1>8. Unstarted'
    BY <1>1, <1>2 DEF Agreement, Unstarted
  <1>9. broker.channel = "closing" => \A i \in DOMAIN extra : extra[i].is # "channelClose"
    OBVIOUS
  <1>10. /\ \A i \in DOMAIN toClient : i \in DOMAIN toClient' /\ toClient'[i] = toClient[i]
         /\ \A i \in DOMAIN toClient' :
                \/ i \in DOMAIN toClient /\ toClient'[i] = toClient[i]
                \/ \E j \in DOMAIN extra : i = Len(toClient) + j /\ toClient'[i] = extra[j]
    BY <1>6, Concatenated
  <1>11. AnsweredOnce'
    <2> SUFFICES ASSUME NEW i \in DOMAIN toBroker', toBroker'[i].op = "channelCloseOK"
                 PROVE  /\ broker'.channel = "closing" /\ channel'.state = "closed"
                        /\ \A j \in DOMAIN toBroker' : j > i =>
                               toBroker'[j].id = 0 /\ toBroker'[j].op # "channelCloseOK"
                        /\ \A j \in DOMAIN toClient' : toClient'[j].is # "channelClose"
      BY DEF AnsweredOnce
    <2>1. i + 1 \in DOMAIN toBroker /\ toBroker[i + 1].op = "channelCloseOK" /\ i \in Nat \ {0}
      BY <1>3
    <2>2. /\ broker.channel = "closing" /\ channel.state = "closed"
          /\ \A j \in DOMAIN toBroker : j > i + 1 =>
                 toBroker[j].id = 0 /\ toBroker[j].op # "channelCloseOK"
          /\ \A j \in DOMAIN toClient : toClient[j].is # "channelClose"
      BY <2>1 DEF Agreement, AnsweredOnce
    <2>3. frame.op # "channelCloseOK"
      <3>1. i + 1 > 1
        BY <2>1
      <3> QED
        BY <1>2, <1>4, <2>1, <3>1 DEF Agreement, AnsweredOnce
    <2>4. ASSUME NEW j \in DOMAIN toBroker', j > i
          PROVE  toBroker'[j].id = 0 /\ toBroker'[j].op # "channelCloseOK"
      <3>1. j + 1 \in DOMAIN toBroker /\ toBroker'[j] = toBroker[j + 1] /\ j + 1 > i + 1
        BY <1>3, <2>1, <2>4
      <3> QED
        BY <2>2, <3>1
    <2> QED
      BY <1>1, <1>9, <1>10, <2>2, <2>3, <2>4
  <1>12. ClosedOnce'
    <2> SUFFICES ASSUME NEW i \in DOMAIN toClient', toClient'[i].is = "channelClose"
                 PROVE  /\ broker'.channel = "closing"
                        /\ \A j \in DOMAIN toClient' : j # i => toClient'[j].is # "channelClose"
      BY DEF ClosedOnce
    <2>1. CASE i \in DOMAIN toClient
      <3>1. /\ toClient[i].is = "channelClose" /\ broker.channel = "closing"
            /\ \A j \in DOMAIN toClient : j # i => toClient[j].is # "channelClose"
        BY <1>10, <2>1 DEF Agreement, ClosedOnce
      <3>2. frame.op # "channelCloseOK"
        BY <1>2, <1>4, <2>1, <3>1 DEF Agreement, AnsweredOnce
      <3> QED
        BY <1>9, <1>10, <3>1, <3>2
    <2>2. CASE i \notin DOMAIN toClient
      <3>1. PICK k \in DOMAIN extra : i = Len(toClient) + k /\ toClient'[i] = extra[k]
        BY <1>10, <2>2
      <3>2. Len(extra) = 1 /\ broker.channel = "open" /\ broker'.channel = "closing"
        BY <3>1
      <3>3. \A j \in DOMAIN toClient : toClient[j].is # "channelClose"
        BY <3>2 DEF Agreement, ClosedOnce
      <3>4. \A j \in DOMAIN extra : j = k
        BY <3>2
      <3>5. \A j \in DOMAIN toClient' : j # i => toClient'[j].is # "channelClose"
        BY <1>10, <3>1, <3>3, <3>4
      <3> QED
        BY <3>2, <3>5
    <2> QED
      BY <2>1, <2>2
  <1>13. CloseLast'
    BY <1>1, <1>4 DEF Agreement, CloseLast
  <1>14. ClosedSilent'
    <2> SUFFICES ASSUME broker'.channel = "closed"
                 PROVE  channel.state \in {"closing", "closed"} /\ \A g \in AllFrames' : g.id = 0
      BY <1>1 DEF ClosedSilent
    <2>1. CASE broker.channel = "closed"
      BY <1>4, <2>1 DEF Agreement, ClosedSilent
    <2>2. CASE frame.op = "channelCloseOK"
      <3>1. /\ channel.state = "closed" /\ broker.channel = "closing"
            /\ \A j \in DOMAIN toBroker : j > 1 => toBroker[j].id = 0
        BY <1>2, <1>4, <2>2 DEF Agreement, AnsweredOnce
      <3>2. connection.state \in {"connected", "closing", "closed"}
        BY <3>1, NowSound DEF Connections, Live, Agreement, Unstarted
      <3>3. channel.queue = <<>> /\ connection.queue = <<>>
        BY <3>1, <3>2, NowSound DEF Drained, Sound
      <3>4. \A i \in DOMAIN toBroker' : toBroker'[i].id = 0
        <4>1. \A i \in Nat \ {0} : i + 1 > 1
          OBVIOUS
        <4> QED
          BY <1>3, <3>1, <4>1
      <3> QED
        BY <1>1, <3>1, <3>3, <3>4 DEF AllFrames, SentFrames, ToSet
    <2>3. CASE frame.op = "close"
      <3>1. channel.state \in {"closing", "closed"} /\ \A g \in AllFrames : g.id <= frame.id
        BY <1>4, <2>3 DEF Agreement, CloseLast
      <3>2. Named(frame, calls) /\ frame.id \in 1 .. Len(calls) /\ frame.part = 1
        BY <1>5, <2>3 DEF CloseFrames, Named
      <3>3. ASSUME NEW g \in AllFrames', g.id # 0
            PROVE  FALSE
        <4>1. g \in AllFrames
          BY <1>4
        <4>2. Named(g, calls) /\ g.id \in 1 .. Len(calls)
          BY <3>3, <4>1, FrameNamed DEF Agreement
        <4>3. g.id <= frame.id /\ Before(frame, g)
          BY <1>2, <3>1, <4>1
        <4>4. g.id = frame.id /\ frame.part < g.part
          BY <3>2, <4>2, <4>3 DEF Before
        <4>5. g.op = "close"
          BY <2>3, <3>2, <4>2, <4>4 DEF Named
        <4>6. g.part = 1
          BY <4>2, <4>5 DEF Named
        <4> QED
          BY <3>2, <4>4, <4>6
      <3> QED
        BY <3>1, <3>3
    <2> QED
      BY <2>1, <2>2, <2>3
  <1>15. OpenComes'
    <2>1. calls # <<>> /\ \A g \in AllFrames' : g.op # "open"
      <3>1. CASE broker.channel # "none"
        BY <1>4, <3>1 DEF Agreement, OpenComes
      <3>2. CASE broker.channel = "none"
        <4>1. frame.op = "open" /\ Named(frame, calls) /\ frame.id \in 1 .. Len(calls) /\ frame.part = 1
          BY <1>5, <3>2 DEF CloseFrames, Named
        <4>2. frame.id = 1 /\ calls # <<>>
          BY <4>1 DEF Named, OpenFirst
        <4>3. ASSUME NEW g \in AllFrames', g.op = "open"
              PROVE  FALSE
          <5>1. Named(g, calls) /\ g.part = 1
            BY <1>4, <4>3, FrameNamed DEF Agreement, CloseFrames, Named
          <5>2. g.id = 1
            BY <4>3, <5>1 DEF Named, OpenFirst
          <5>3. Before(frame, g)
            BY <1>2
          <5> QED
            BY <4>1, <4>2, <5>1, <5>2, <5>3 DEF Before
        <4> QED
          BY <4>2, <4>3
      <3> QED
        BY <3>1, <3>2
    <2> QED
      BY <1>1, <2>1 DEF OpenComes
  <1>16. LinkedOrClosed'
    BY <1>1 DEF Agreement, LinkedOrClosed
  <1>17. MessagesUncut'
    <2> SUFFICES ASSUME broker'.channel = "open"
                 PROVE  WholeIn(Now', LastPart')
      BY DEF MessagesUncut
    <2>1. WholeIn(Now, LastPart)
      BY DEF Agreement, MessagesUncut
    <2>2. /\ Now.toBroker = toBroker /\ Now'.toBroker = Tail(toBroker)
          /\ Now'.connection = Now.connection /\ Now'.channel = Now.channel
      BY <1>1 DEF Now
    <2> DEFINE next == LastPart'
               r == LastPart
    <2>3. IF frame.id = 0 THEN next = r
          ELSE next.id = frame.id /\ next.part = frame.part /\ next.parts = frame.parts
      BY DEF LastPart
    <2>4. frame.id = 0 => frame.part = 1 /\ frame.parts = 1
      BY <1>5
    <2>5. Part(r) /\ Resumes(r, toBroker)
      BY <2>1, <2>2, LastPartNumbers DEF WholeIn
    <2> HIDE DEF next, r
    <2>6. Resumes(next, Tail(toBroker))
      BY <1>2, <2>3, <2>4, <2>5, ResumesRead DEF Part
    <2> QED
      BY <2>1, <2>2, <2>6 DEF WholeIn, next
  <1> QED
    BY <1>7, <1>8, <1>11, <1>12, <1>13, <1>14, <1>15, <1>16, <1>17 DEF Agreement

\* What taking a frame changes, and what it leaves.
LEMMA TookFields ==
    ASSUME broker \in Brokers, NEW frame \in Frames, NEW t, t = Took(frame)
    PROVE  /\ DOMAIN t = {"connection", "channel", "consuming", "read", "messages", "errors", "complaint"}
           /\ t.read = IF frame.id = 0 THEN broker.read ELSE <<frame.id, frame.part, frame.parts>>
           /\ t.connection = IF frame.op \in ConnectionFrameOps THEN "closed" ELSE broker.connection
           /\ t.complaint = broker.complaint
           /\ frame.op = "open" => t.channel = "open"
           /\ frame.op = "channelCloseOK" => t.channel = "closed"
           /\ frame.op = "close" => t.channel = IF broker.channel = "open" THEN "closed" ELSE broker.channel
           /\ frame.op \notin {"open", "channelCloseOK", "close"} => t.channel = broker.channel
  <1> DEFINE read == IF frame.id = 0 THEN broker.read ELSE <<frame.id, frame.part, frame.parts>>
             con  == IF frame.op \in ConnectionFrameOps THEN "closed" ELSE broker.connection
             ch   == CASE frame.op = "open" -> "open"
                       [] frame.op = "channelCloseOK" -> "closed"
                       [] frame.op = "close" /\ broker.channel = "open" -> "closed"
                       [] OTHER -> broker.channel
             consuming == (broker.consuming \/ frame.op = "consume") /\ frame.op \notin {"cancel", "close"}
  <1>1. t = [broker EXCEPT !.read = read, !.connection = con, !.channel = ch, !.consuming = consuming]
    BY DEF Took
  <1>2. /\ frame.op = "open" => ch = "open"
        /\ frame.op = "channelCloseOK" => ch = "closed"
        /\ frame.op = "close" => ch = IF broker.channel = "open" THEN "closed" ELSE broker.channel
        /\ frame.op \notin {"open", "channelCloseOK", "close"} => ch = broker.channel
    OBVIOUS
  <1> HIDE DEF ch, consuming
  <1> QED
    BY <1>1, <1>2 DEF Brokers

\* A frame that is taken, or ignored, agrees with what is believed.
LEMMA TakenAgrees ==
    ASSUME IInv, OpenFirst, Agreement, Live, NEW frame \in Incoming, Reads,
           ~Ignored(frame), Allowed(frame), frame.op \notin ConnectionFrameOps,
           NEW extra \in Seq(FramesToClient), toClient' = toClient \o extra,
           broker'.read = Took(frame).read,
           \/ /\ broker'.channel = Took(frame).channel
              /\ \A i \in DOMAIN extra : extra[i].is # "channelClose"
           \/ /\ broker'.channel = "closing" /\ broker.channel = "open" /\ Len(extra) = 1
    PROVE  Agreement'
  <1>1. frame \in Frames /\ broker \in Brokers /\ broker.connection = "open"
    BY HeadBefore, NowSound DEF Live
  <1> DEFINE t == Took(frame)
  <1>2. /\ t.read = IF frame.id = 0 THEN broker.read ELSE <<frame.id, frame.part, frame.parts>>
        /\ frame.op = "open" => t.channel = "open"
        /\ frame.op = "channelCloseOK" => t.channel = "closed"
        /\ frame.op = "close" => t.channel = IF broker.channel = "open" THEN "closed" ELSE broker.channel
        /\ frame.op \notin {"open", "channelCloseOK", "close"} => t.channel = broker.channel
    BY <1>1, TookFields
  <1>3. broker'.read = t.read
        /\ (broker'.channel = t.channel \/ (broker'.channel = "closing" /\ broker.channel = "open"))
    OBVIOUS
  <1>4. \A i \in DOMAIN extra : extra[i].is = "channelClose" =>
            Len(extra) = 1 /\ broker.channel = "open" /\ broker'.channel = "closing"
    OBVIOUS
  <1> HIDE DEF t
  <1>5. /\ frame.op = "channelCloseOK" => broker.channel = "closing"
        /\ frame.op = "open" => broker.channel = "none"
        /\ frame.op = "close" => broker.channel \in {"open", "closing"}
        /\ frame.op \notin {"channelCloseOK", "open", "close"} => broker.channel = "open"
    BY DEF Allowed, ConnectionFrameOps
  <1>6. broker.channel = "none" => frame.op = "open"
    BY <1>5
  <1>7. broker'.channel # "none"
    BY <1>2, <1>3, <1>5
  <1>8. broker'.channel = "closed" =>
            broker.channel = "closed" \/ frame.op \in {"channelCloseOK", "close"}
    BY <1>2, <1>3, <1>5
  <1>9. broker.channel = "closing" /\ frame.op # "channelCloseOK" => broker'.channel = "closing"
    BY <1>2, <1>3, <1>5
  <1>10. broker'.channel = "open" =>
             /\ broker.channel \in {"none", "open"}
             /\ broker'.read = IF frame.id = 0 THEN broker.read
                               ELSE <<frame.id, frame.part, frame.parts>>
    BY <1>2, <1>3, <1>5
  <1> QED
    BY <1>4, <1>6, <1>7, <1>8, <1>9, <1>10, BrokerAgrees

LEMMA IgnoreAgrees ==
    ASSUME IInv, BrokerInv, BrokerIgnore
    PROVE  BrokerInv'
  <1>1. PICK frame \in Incoming : Reads /\ Ignored(frame) /\ UNCHANGED <<toClient, broker>>
    BY DEF BrokerIgnore
  <1>2. channel' = channel /\ connection' = connection /\ calls' = calls
    BY <1>1 DEF Reads, libraryVars
  <1>3. BrokerSatisfied' /\ OpenFirst' /\ Unused'
    BY <1>1, <1>2 DEF BrokerInv, BrokerSatisfied, OpenFirst, Unused
  <1>4. ASSUME Live'
        PROVE  Agreement'
    <2>1. Live /\ Agreement /\ OpenFirst
      BY <1>1, <1>2, <1>4 DEF Live, BrokerInv
    <2>2. broker.channel = "closing" /\ frame.op # "channelCloseOK" /\ broker' = broker
      BY <1>1, <2>1 DEF Ignored, Live
    <2> DEFINE extra == <<>>
    <2>3. extra \in Seq(FramesToClient) /\ DOMAIN extra = {} /\ toClient' = toClient \o extra
      BY <1>1, NowSound
    <2> HIDE DEF extra
    <2> QED
      BY <1>1, <2>1, <2>2, <2>3, BrokerAgrees
  <1> QED
    BY <1>3, <1>4 DEF BrokerInv

\* Only a frame that is too large gives the broker cause to complain.
LEMMA ComplainAgrees ==
    ASSUME IInv, BrokerInv, BrokerComplain
    PROVE  BrokerInv'
  <1>1. PICK frame \in Incoming :
            /\ Reads /\ ~Ignored(frame) /\ ~Allowed(frame)
            /\ broker' = [broker EXCEPT !.connection = "closing", !.complaint = frame.op]
    BY DEF BrokerComplain
  <1>2. channel' = channel /\ connection' = connection /\ calls' = calls /\ connection.state # "gone"
    BY <1>1 DEF Reads, libraryVars
  <1>3. frame.op \notin ConnectionFrameOps
    BY <1>1 DEF Allowed, ConnectionFrameOps
  <1>4. Live
    BY <1>1, <1>2, <1>3 DEF Live, Ignored, ConnectionFrameOps
  <1>5. frame.op \in Oversized
    BY <1>1, <1>4, BrokerAllowed DEF BrokerInv
  <1>6. broker'.connection = "closing" /\ broker'.complaint = frame.op
    BY <1>1, NowSound DEF Brokers
  <1>7. BrokerSatisfied' /\ ~Live'
    BY <1>5, <1>6 DEF BrokerSatisfied, Live
  <1>8. OpenFirst' /\ Unused'
    BY <1>2 DEF BrokerInv, OpenFirst, Unused
  <1> QED
    BY <1>7, <1>8 DEF BrokerInv

\* What is common to the steps in which the broker takes a frame.
LEMMA TakesAgrees ==
    ASSUME IInv, BrokerInv, NEW frame \in Incoming, Reads, ~Ignored(frame), Allowed(frame),
           NEW extra \in Seq(FramesToClient), toClient' = toClient \o extra,
           NEW t, t = Took(frame),
           /\ broker'.read = t.read /\ broker'.connection = t.connection
           /\ broker'.complaint = t.complaint,
           \/ /\ broker'.channel = t.channel
              /\ \A i \in DOMAIN extra : extra[i].is # "channelClose"
           \/ /\ broker'.channel = "closing" /\ broker.channel = "open" /\ Len(extra) = 1
    PROVE  BrokerInv'
  <1>1. channel' = channel /\ connection' = connection /\ calls' = calls
    BY DEF Reads, libraryVars
  <1>2. frame \in Frames /\ broker \in Brokers
    BY HeadBefore, NowSound
  <1>3. /\ t.connection = IF frame.op \in ConnectionFrameOps THEN "closed" ELSE broker.connection
        /\ t.complaint = broker.complaint
    BY <1>2, TookFields
  <1>4. BrokerSatisfied' /\ OpenFirst' /\ Unused'
    BY <1>1, <1>3 DEF BrokerInv, BrokerSatisfied, OpenFirst, Unused
  <1>5. ASSUME Live'
        PROVE  Agreement'
    <2>1. frame.op \notin ConnectionFrameOps /\ Live
      BY <1>1, <1>3, <1>5 DEF Live
    <2>2. OpenFirst /\ Agreement
      BY <2>1 DEF BrokerInv
    <2> QED
      BY <2>1, <2>2, TakenAgrees
  <1> QED
    BY <1>4, <1>5 DEF BrokerInv

LEMMA AcceptAgrees ==
    ASSUME IInv, BrokerInv, BrokerAccept
    PROVE  BrokerInv'
  <1>1. PICK frame \in Incoming :
            /\ Reads /\ ~Ignored(frame) /\ Allowed(frame)
            /\ broker' = Took(frame)
            /\ toClient' = CASE frame.op \in Answered -> Append(toClient, Answer(frame))
                             [] frame.op = "connectionClose" ->
                                  Append(toClient, ToClient("connectionCloseOK", "none", 0, 0, 0))
                             [] OTHER -> toClient
    BY DEF BrokerAccept
  <1>2. frame \in Frames
    BY HeadBefore
  <1>3. \E extra \in Seq(FramesToClient) :
            /\ toClient' = toClient \o extra
            /\ \A i \in DOMAIN extra : extra[i].is # "channelClose"
    <2>1. CASE frame.op \in Answered
      <3> DEFINE f == Answer(frame)
                 extra == <<f>>
      <3>1. frame.op \in DOMAIN RequestFrame /\ frame.id \in Nat
        BY <1>2, <2>1, ChannelAssumption DEF Answered, Frames
      <3>2. f \in FramesToClient /\ f.is # "channelClose"
        BY <3>1, ChannelAssumption DEF Answer, AnswerIs, ToClient, FramesToClient
      <3>3. toClient' = Append(toClient, f)
        <4>1. frame.op # "connectionClose"
          BY <3>1, OperationsKnown
        <4> HIDE DEF f
        <4>2. toClient' = Append(toClient, Answer(frame))
          BY <1>1, <2>1, <4>1
        <4> QED
          BY <4>2 DEF f
      <3> HIDE DEF f
      <3>4. /\ extra \in Seq(FramesToClient) /\ toClient' = toClient \o extra
            /\ \A i \in DOMAIN extra : extra[i].is # "channelClose"
        BY <3>2, <3>3, NowSound
      <3> QED
        BY <3>4
    <2>2. CASE frame.op \notin Answered /\ frame.op = "connectionClose"
      <3> DEFINE f == ToClient("connectionCloseOK", "none", 0, 0, 0)
                 extra == <<f>>
      <3>1. f \in FramesToClient /\ f.is # "channelClose"
        BY ChannelAssumption DEF ToClient, FramesToClient
      <3>2. toClient' = Append(toClient, f)
        BY <1>1, <2>2
      <3> HIDE DEF f
      <3>3. /\ extra \in Seq(FramesToClient) /\ toClient' = toClient \o extra
            /\ \A i \in DOMAIN extra : extra[i].is # "channelClose"
        BY <3>1, <3>2, NowSound
      <3> QED
        BY <3>3
    <2>3. CASE frame.op \notin Answered /\ frame.op # "connectionClose"
      <3> DEFINE extra == <<>>
      <3>1. toClient' = toClient
        BY <1>1, <2>3
      <3>2. extra \in Seq(FramesToClient) /\ DOMAIN extra = {} /\ toClient' = toClient \o extra
        BY <3>1, NowSound
      <3> HIDE DEF extra
      <3> QED
        BY <3>2
    <2> QED
      BY <2>1, <2>2, <2>3
  <1> QED
    BY <1>1, <1>3, TakesAgrees

LEMMA RefuseAgrees ==
    ASSUME IInv, BrokerInv, BrokerRefuse
    PROVE  BrokerInv'
  <1>1. PICK frame \in Incoming :
            /\ Reads /\ ~Ignored(frame) /\ Allowed(frame) /\ broker.channel = "open"
            /\ broker' = [Took(frame) EXCEPT !.channel = "closing", !.consuming = FALSE,
                                             !.errors = @ + 1]
            /\ toClient' = Append(toClient, ToClient("channelClose", "none", 0, 0, 0))
    BY DEF BrokerRefuse
  <1> DEFINE f     == ToClient("channelClose", "none", 0, 0, 0)
             extra == <<f>>
             t     == Took(frame)
  <1>2. f \in FramesToClient
    BY ChannelAssumption DEF ToClient, FramesToClient
  <1>3. toClient' = Append(toClient, f)
    BY <1>1
  <1>4. broker' = [t EXCEPT !.channel = "closing", !.consuming = FALSE, !.errors = @ + 1]
    BY <1>1
  <1>5. DOMAIN t = {"connection", "channel", "consuming", "read", "messages", "errors", "complaint"}
    BY HeadBefore, NowSound, TookFields
  <1> HIDE DEF f
  <1>6. extra \in Seq(FramesToClient) /\ Len(extra) = 1 /\ toClient' = toClient \o extra
    BY <1>2, <1>3, NowSound
  <1>7. t = Took(frame)
    OBVIOUS
  <1> HIDE DEF extra, t
  <1>8. /\ broker'.read = t.read /\ broker'.connection = t.connection
        /\ broker'.complaint = t.complaint /\ broker'.channel = "closing"
    BY <1>4, <1>5
  <1> QED
    BY <1>1, <1>6, <1>7, <1>8, TakesAgrees

\* Nothing of a message closes the channel.
LEMMA ContentPlain ==
    ASSUME NEW is \in {"getOK", "deliver"}, NEW op, NEW call, NEW tag, NEW size \in Sizes,
           NEW extra, extra = Content(is, op, call, tag, size), NEW i \in DOMAIN extra
    PROVE  extra[i].is # "channelClose"
  <1> DEFINE a == ToClient(is, op, call, tag, 0)
             b == ToClient("header", "none", 0, tag, size)
             c == [n \in 1 .. size |-> ToClient("body", "none", 0, tag, n)]
             front == <<a, b>>
             T == {a, b} \cup {ToClient("body", "none", 0, tag, n) : n \in 1 .. size}
  <1>1. size \in Nat
    BY ChannelAssumption DEF Sizes
  <1>2. front \in Seq(T) /\ c \in Seq(T)
    BY <1>1
  <1>3. \A g \in T : g.is # "channelClose"
    BY DEF ToClient
  <1>4. extra = front \o c
    BY DEF Content
  <1> HIDE DEF front, c, T
  <1>5. extra \in Seq(T)
    BY <1>2, <1>4
  <1> QED
    BY <1>3, <1>5, ElementOfSeq

LEMMA GetAgrees ==
    ASSUME IInv, BrokerInv, NEW size \in Sizes, BrokerGet(size)
    PROVE  BrokerInv'
  <1>1. PICK frame \in Incoming :
            /\ Reads /\ ~Ignored(frame) /\ Allowed(frame) /\ broker.messages < MaxMessages
            /\ broker' = [Took(frame) EXCEPT !.messages = @ + 1]
            /\ toClient' = toClient \o Content("getOK", "get", frame.id, broker'.messages, size)
    BY DEF BrokerGet
  <1> DEFINE t     == Took(frame)
             extra == Content("getOK", "get", frame.id, broker'.messages, size)
  <1>2. broker' = [t EXCEPT !.messages = @ + 1] /\ t = Took(frame)
    BY <1>1
  <1>3. /\ DOMAIN t = {"connection", "channel", "consuming", "read", "messages", "errors", "complaint"}
        /\ t.messages = broker.messages
    BY HeadBefore, NowSound, TookFields, TookSound
  <1> HIDE DEF t
  <1>4. /\ broker'.read = t.read /\ broker'.connection = t.connection
        /\ broker'.complaint = t.complaint /\ broker'.channel = t.channel
        /\ broker'.messages = broker.messages + 1
    BY <1>2, <1>3
  <1>5. broker'.messages \in 1 .. MaxMessages
    <2>1. broker.messages \in 0 .. MaxMessages
      BY NowSound DEF Brokers
    <2>2. MaxMessages \in Nat
      BY ChannelAssumption
    <2> QED
      BY <1>1, <1>4, <2>1, <2>2
  <1>6. \A i \in DOMAIN extra : extra[i].is # "channelClose"
    BY ContentPlain
  <1>7. extra \in Seq(FramesToClient) /\ toClient' = toClient \o extra
    <2>1. frame.id \in Nat
      BY HeadBefore, ChannelAssumption DEF Frames
    <2> QED
      BY <1>1, <1>5, <2>1, OperationNames, ContentFrames
  <1> HIDE DEF extra
  <1> QED
    BY <1>1, <1>2, <1>4, <1>6, <1>7, TakesAgrees

\* What the broker sends of its own accord does not close the channel.
LEMMA SendAgrees ==
    ASSUME IInv, BrokerInv, NEW extra \in Seq(FramesToClient), BrokerSends(extra),
           broker'.channel = broker.channel, broker'.read = broker.read,
           broker'.complaint = broker.complaint,
           \A i \in DOMAIN extra : extra[i].is # "channelClose"
    PROVE  BrokerInv'
  <1>1. /\ channel' = channel /\ connection' = connection /\ calls' = calls
        /\ toBroker' = toBroker /\ toClient' = toClient \o extra
        /\ Now' = Now /\ LastPart' = LastPart
    BY DEF BrokerSends, libraryVars, Now, LastPart
  <1>2. \A i \in DOMAIN toClient' :
            \/ i \in DOMAIN toClient /\ toClient'[i] = toClient[i]
            \/ toClient'[i].is # "channelClose"
    BY <1>1, NowSound, Concatenated
  <1>3. ASSUME Live'
        PROVE  Agreement'
    <2>1. Agreement
      BY <1>1, <1>3 DEF BrokerSends, Live, BrokerInv
    <2>2. AllNamed' /\ Unstarted' /\ LinkedOrClosed' /\ MessagesUncut'
      BY <1>1, <2>1 DEF Agreement, AllNamed, Unstarted, LinkedOrClosed, MessagesUncut
    <2>3. AllFrames' = AllFrames /\ SentFrames' = SentFrames
      BY <1>1 DEF AllFrames, SentFrames
    <2>4. CloseLast' /\ ClosedSilent' /\ OpenComes'
      BY <1>1, <2>1, <2>3 DEF Agreement, CloseLast, ClosedSilent, OpenComes
    <2>5. AnsweredOnce' /\ ClosedOnce'
      BY <1>1, <1>2, <2>1 DEF Agreement, AnsweredOnce, ClosedOnce
    <2> QED
      BY <2>2, <2>4, <2>5 DEF Agreement
  <1>4. BrokerSatisfied' /\ OpenFirst' /\ Unused'
    BY <1>1 DEF BrokerInv, BrokerSatisfied, OpenFirst, Unused
  <1> QED
    BY <1>3, <1>4 DEF BrokerInv

LEMMA DeliverAgrees ==
    ASSUME IInv, BrokerInv, NEW size \in Sizes, BrokerDeliver(size)
    PROVE  BrokerInv'
  <1> DEFINE extra == Content("deliver", "none", 0, broker'.messages, size)
  <1>1. /\ broker.messages < MaxMessages /\ broker' = [broker EXCEPT !.messages = @ + 1]
        /\ BrokerSends(extra)
    BY DEF BrokerDeliver
  <1>2. /\ broker'.channel = broker.channel /\ broker'.read = broker.read
        /\ broker'.complaint = broker.complaint /\ broker'.messages \in 1 .. MaxMessages
    <2>1. broker.messages \in 0 .. MaxMessages
      BY NowSound DEF Brokers
    <2>2. MaxMessages \in Nat
      BY ChannelAssumption
    <2>3. DOMAIN broker = {"connection", "channel", "consuming", "read", "messages", "errors", "complaint"}
      BY NowSound DEF Brokers
    <2>4. /\ broker'.channel = broker.channel /\ broker'.read = broker.read
          /\ broker'.complaint = broker.complaint /\ broker'.messages = broker.messages + 1
      BY <1>1, <2>3
    <2> QED
      BY <1>1, <2>1, <2>2, <2>4
  <1>3. \A i \in DOMAIN extra : extra[i].is # "channelClose"
    BY ContentPlain
  <1>4. extra \in Seq(FramesToClient)
    <2>1. "none" \in DOMAIN RequestFrame \cup {"none"} /\ "deliver" # "getOK"
      OBVIOUS
    <2> QED
      BY <1>2, <2>1, ContentFrames
  <1> HIDE DEF extra
  <1> QED
    BY <1>1, <1>2, <1>3, <1>4, SendAgrees

LEMMA CancelAgrees ==
    ASSUME IInv, BrokerInv, BrokerCancel \/ BrokerShutdown
    PROVE  BrokerInv'
  <1>1. PICK is \in {"cancel", "connectionClose"} : BrokerSends(<<ToClient(is, "none", 0, 0, 0)>>)
    BY DEF BrokerCancel, BrokerShutdown
  <1>2. /\ broker'.channel = broker.channel /\ broker'.read = broker.read
        /\ broker'.complaint = broker.complaint
    BY NowSound DEF Brokers, BrokerCancel, BrokerShutdown
  <1> DEFINE f     == ToClient(is, "none", 0, 0, 0)
             extra == <<f>>
  <1>3. f \in FramesToClient /\ f.is # "channelClose"
    BY ChannelAssumption DEF ToClient, FramesToClient
  <1> HIDE DEF f
  <1>4. extra \in Seq(FramesToClient) /\ \A i \in DOMAIN extra : extra[i].is # "channelClose"
    BY <1>3
  <1>5. BrokerSends(extra)
    BY <1>1 DEF f
  <1> HIDE DEF extra
  <1> QED
    BY <1>2, <1>4, <1>5, SendAgrees

-----------------------------------------------------------------------------
(***************************************************************************)
(* The invariant is inductive.                                             *)
(***************************************************************************)
LEMMA InitAgrees == Init => BrokerInv
  <1> SUFFICES ASSUME Init PROVE BrokerInv
    OBVIOUS
  <1>1. BrokerSatisfied /\ OpenFirst /\ Unused
    BY DEF Init, BrokerSatisfied, OpenFirst, Unused
  <1>2. toBroker = <<>> /\ connection.queue = <<>> /\ channel.queue = <<>> /\ toClient = <<>>
    BY DEF Init
  <1>3. AllFrames = {} /\ SentFrames = {}
    BY <1>2 DEF AllFrames, SentFrames, ToSet
  <1>4. AllNamed /\ Unstarted /\ AnsweredOnce /\ ClosedOnce
    BY <1>2 DEF Init, AllNamed, Unstarted, AnsweredOnce, ClosedOnce, ToSet
  <1>5. CloseLast /\ ClosedSilent /\ OpenComes /\ LinkedOrClosed
    BY <1>3 DEF Init, CloseLast, ClosedSilent, OpenComes, LinkedOrClosed
  <1>6. MessagesUncut
    <2>1. /\ Now.toBroker = <<>> /\ Now.connection.queue = <<>> /\ Now.channel.queue = <<>>
          /\ LastPart.part = 0 /\ LastPart.parts = 0
      BY <1>2 DEF Now, Init, LastPart
    <2>2. Resumes(LastPart, <<>>)
      BY <2>1 DEF Resumes, Chained, Ended
    <2> QED
      BY <2>1, <2>2, EmptyWhole, NothingFlushable DEF MessagesUncut, WholeIn
  <1> QED
    BY <1>1, <1>4, <1>5, <1>6 DEF BrokerInv, Agreement

LEMMA NextAgrees ==
    ASSUME "publish" \notin Oversized, IInv, BrokerInv, [Next]_vars
    PROVE  BrokerInv'
  <1>1. CASE Attach
    BY <1>1, AttachAgrees
  <1>2. CASE Close
    BY <1>2, CloseAgrees
  <1>3. CASE Destroy
    BY <1>3, DestroyAgrees
  <1>4. CASE Ready
    BY <1>4, ReadyAgrees
  <1>5. ASSUME NEW op \in Operations, Call(op, 0)
        PROVE  BrokerInv'
    <2>1. 0 \in Sizes
      BY ChannelAssumption DEF Sizes
    <2> QED
      BY <1>5, <2>1, CallAgrees
  <1>6. ASSUME "publish" \in Operations, NEW size \in Sizes, Call("publish", size)
        PROVE  BrokerInv'
    BY <1>6, CallAgrees
  <1>7. ASSUME NEW more \in BOOLEAN, ReadFrame(more)
        PROVE  BrokerInv'
    BY <1>7, ReadAgrees
  <1>8. CASE BrokerReads
    BY <1>8, IgnoreAgrees, ComplainAgrees, AcceptAgrees DEF BrokerReads
  <1>9. CASE BrokerRefuse
    BY <1>9, RefuseAgrees
  <1>10. CASE BrokerCancel \/ BrokerShutdown
    BY <1>10, CancelAgrees
  <1>11. ASSUME NEW size \in Sizes, BrokerGet(size)
         PROVE  BrokerInv'
    BY <1>11, GetAgrees
  <1>12. ASSUME NEW size \in Sizes, BrokerDeliver(size)
         PROVE  BrokerInv'
    BY <1>12, DeliverAgrees
  <1>13. CASE UNCHANGED vars
    <2>1. /\ UNCHANGED <<channel, connection, calls, outcome, delivered, unpaired, early, stalled>>
          /\ UNCHANGED <<toBroker, toClient, broker>>
      BY <1>13 DEF vars, libraryVars
    <2>2. Now' = Now /\ LastPart' = LastPart
      BY <2>1 DEF Now, LastPart
    <2>3. AllFrames' = AllFrames /\ SentFrames' = SentFrames /\ (Live' <=> Live)
      BY <2>1 DEF AllFrames, SentFrames, Live
    <2>4. Agreement => Agreement'
      BY <2>1, <2>2, <2>3 DEF Agreement, AllNamed, Unstarted, AnsweredOnce, ClosedOnce, CloseLast,
                              ClosedSilent, OpenComes, LinkedOrClosed, MessagesUncut
    <2> QED
      BY <2>1, <2>3, <2>4 DEF BrokerInv, BrokerSatisfied, OpenFirst, Unused
  <1> QED
    BY <1>1, <1>2, <1>3, <1>4, <1>5, <1>6, <1>7, <1>8, <1>9, <1>10, <1>11, <1>12, <1>13
       DEF Next

\* The broker never finds a frame that the protocol forbids, except one that is
\* too large and was sent from a queue without a look at its size: no frame on a
\* channel that is not open or is closed, no second answer to its close, no
\* message that was torn apart.  A message whose header is too large is left out:
\* publish() has sent the frame before it by then, and the frame that follows is
\* not what the broker expects.
THEOREM BrokerNeverComplains ==
    ASSUME "publish" \notin Oversized
    PROVE  Spec => []BrokerSatisfied
  <1>1. Init => BrokerInv
    BY InitAgrees
  <1>2. IInv /\ BrokerInv /\ [Next]_vars => BrokerInv'
    BY NextAgrees
  <1>3. BrokerInv => BrokerSatisfied
    BY DEF BrokerInv
  <1> QED
    BY <1>1, <1>2, <1>3, Invariant, PTL DEF Spec
=============================================================================
