------------------------- MODULE AmqpChannel_proofs -------------------------
(***************************************************************************)
(* Theorems about AmqpChannel, for any operations, any set of oversized    *)
(* ones, and any number of calls, messages and unasked closes.             *)
(***************************************************************************)
EXTENDS AmqpChannel, FiniteSetTheorems, SequenceTheorems, WellFoundedInduction, TLAPS

-----------------------------------------------------------------------------
(***************************************************************************)
(* The inductive invariant.  The line to the broker has three parts, and   *)
(* frames move from one to the next; so what is said of the line is said   *)
(* of the parts and between them.                                          *)
(***************************************************************************)
InOrder(p) == \A i, j \in DOMAIN p : i < j => Before(p[i], p[j])

AllBefore(p, q) == \A i \in DOMAIN p : \A j \in DOMAIN q : Before(p[i], q[j])

\* The calls up to n have led to these frames.
Numbered(p, n) == \A i \in DOMAIN p : p[i].id <= n

States ==
    [channel : Channels, connection : Connections, toBroker : Seq(Frames),
     outcome : Seq(Outcomes), delivered : Seq(Deliveries)]

LastRead == [id |-> broker.read[1], part |-> broker.read[2]]

\* A state of the library in the middle of a handler, when n calls have been made
\* and read is the last frame of a call that the broker has read.
Sound(s, read, n) ==
    /\ s \in States
    /\ n \in Nat
    /\ s.connection.state \in {"connected", "closing", "closed"} => s.connection.queue = <<>>
    /\ InOrder(s.toBroker) /\ InOrder(s.connection.queue) /\ InOrder(s.channel.queue)
    /\ AllBefore(s.toBroker, s.connection.queue)
    /\ AllBefore(s.toBroker, s.channel.queue)
    /\ AllBefore(s.connection.queue, s.channel.queue)
    /\ AllBefore(<<read>>, s.toBroker)
    /\ AllBefore(<<read>>, s.connection.queue)
    /\ AllBefore(<<read>>, s.channel.queue)
    /\ read.id \in 0 .. n
    /\ Numbered(s.toBroker, n)
    /\ Numbered(s.connection.queue, n)
    /\ Numbered(s.channel.queue, n)

\* A channel that is closed holds no frames.
Drained(s) == s.channel.state = "closed" => s.channel.queue = <<>>

\* What the broker sends of a message comes in one piece.
Body(tag, n) == ToClient("body", "none", 0, tag, n)

Opens(frame) == frame.is \in {"getOK", "deliver"}

InPieces(q) ==
    /\ \A i \in DOMAIN q : Opens(q[i]) =>
          /\ q[i].id \in 1 .. MaxMessages
          /\ i + 1 \in DOMAIN q
          /\ q[i + 1].is = "header" /\ q[i + 1].id = q[i].id
    /\ \A i \in DOMAIN q : q[i].is = "header" =>
          \A n \in 1 .. q[i].n : i + n \in DOMAIN q /\ q[i + n] = Body(q[i].id, n)

\* What the receiver r waits for comes next.
Receiving(r, q) ==
    /\ r.tag \in 1 .. MaxMessages
    /\ \/ /\ r.left = 0 /\ r.size = 0 /\ r.got = <<>>
          /\ q # <<>> /\ Head(q).is = "header" /\ Head(q).id = r.tag
       \/ /\ r.left \in 1 .. r.size
          /\ r.got = [n \in 1 .. r.size - r.left |-> <<r.tag, n>>]
          /\ \A n \in 1 .. r.left : n \in DOMAIN q /\ q[n] = Body(r.tag, r.size - r.left + n)

\* The numbers of messages grow: of those given to the callback, then of that in
\* the receiver r, then of those on their way in q; the last has the number n or
\* a smaller one.
TagsGrow(d, r, q, n) ==
    /\ \A i, j \in DOMAIN q : i < j /\ Opens(q[i]) /\ Opens(q[j]) => q[i].id < q[j].id
    /\ \A i \in DOMAIN q : Opens(q[i]) => q[i].id <= n /\ r.tag < q[i].id
    /\ \A i \in DOMAIN q : Opens(q[i]) => \A k \in DOMAIN d : d[k].tag < q[i].id
    /\ r.tag <= n
    /\ \A k \in DOMAIN d : d[k].tag <= n
    /\ r # NoReceiver => \A k \in DOMAIN d : d[k].tag < r.tag

Whole(m) == m.got = [n \in 1 .. m.size |-> <<m.tag, n>>]

WholeInOrder(d) ==
    /\ \A i \in DOMAIN d : Whole(d[i])
    /\ \A i, j \in DOMAIN d : i < j => d[i].tag < d[j].tag

\* A frame of a request that is answered and waited for, and such an answer.
Asks(f) == f.op \in SynchronousOperations \cap Answered

Replies(f) == f.is \in {"openOK", "ok", "getOK", "closeOK"} /\ f.op \in SynchronousOperations

NoneAsks(p)     == \A i \in DOMAIN p : ~Asks(p[i])
OneAsks(p)      == \A i, j \in DOMAIN p : Asks(p[i]) /\ Asks(p[j]) => i = j
NoneReplies(q)  == \A i \in DOMAIN q : ~Replies(q[i])
OneReplies(q)   == \A i, j \in DOMAIN q : Replies(q[i]) /\ Replies(q[j]) => i = j

\* At most one request is on the way, or its answer; none if none is waited for.
OneOnTheWay(s, q) ==
    /\ \/ NoneAsks(s.toBroker) /\ NoneAsks(s.connection.queue) /\ OneReplies(q)
       \/ NoneAsks(s.toBroker) /\ OneAsks(s.connection.queue) /\ NoneReplies(q)
       \/ OneAsks(s.toBroker) /\ NoneAsks(s.connection.queue) /\ NoneReplies(q)
    /\ ~s.channel.synchronous =>
          NoneAsks(s.toBroker) /\ NoneAsks(s.connection.queue) /\ NoneReplies(q)

Working(ch) == ch.linked /\ ch.state # "closed"

AnswersNamed(q) ==
    \A i \in DOMAIN q : /\ q[i].is = "openOK" => q[i].op = "open"
                        /\ q[i].is = "getOK" => q[i].op = "get"

\* close() is called once, in the channel and by it in the connection; before
\* attach() there is no channel.
Calling ==
    /\ Len(calls) <= MaxCalls + (IF connection.closeCalled THEN 2 ELSE 1)
    /\ calls = <<>> => channel.state = "closed" /\ ~channel.linked /\ channel.receiver = NoReceiver

Asking == ~early /\ (calls = <<>> \/ Working(channel)) => OneOnTheWay(Now, toClient)

Messages ==
    /\ AnswersNamed(toClient)
    /\ InPieces(toClient)
    /\ channel.linked /\ channel.receiver # NoReceiver => Receiving(channel.receiver, toClient)
    /\ TagsGrow(delivered, channel.receiver, toClient, broker.messages)
    /\ WholeInOrder(delivered)

IInv == TypeOK /\ Sound(Now, LastRead, Len(calls)) /\ Calling /\ Asking /\ Messages

-----------------------------------------------------------------------------
(***************************************************************************)
(* Sequences and the operations.                                           *)
(***************************************************************************)

\* A set of numbers has a smallest one: otherwise its beginnings would shrink for
\* ever.
LEMMA Smallest ==
    ASSUME NEW S \in SUBSET Nat, S # {}
    PROVE  Min(S) \in S /\ \A y \in S : Min(S) <= y
  <1> DEFINE UpTo(k) == S \cap (0 .. k)
             T == {UpTo(k) : k \in S}
             R == StrictSubsetOrdering(S)
  <1>1. \A k \in S : UpTo(k) \in FiniteSubsetsOf(S)
    <2> TAKE k \in S
    <2>1. IsFiniteSet(0 .. k)
      BY FS_Interval
    <2> QED
      BY <2>1, FS_Subset DEF FiniteSubsetsOf
  <1>2. T \subseteq FiniteSubsetsOf(S) /\ T # {}
    BY <1>1
  <1>3. \E x \in T : \A y \in T : ~ (<<y, x>> \in R)
    <2>1. IsWellFoundedOn(R, FiniteSubsetsOf(S))
      BY FS_StrictSubsetOrderingWellFounded
    <2> HIDE DEF R, T
    <2> QED
      BY <2>1, <1>2, WFMin
  <1>4. PICK m \in S : \A y \in S : ~ (<<UpTo(y), UpTo(m)>> \in R)
    BY <1>3
  <1>5. \A y \in S : m <= y
    <2> SUFFICES ASSUME NEW y \in S, y < m PROVE FALSE
      OBVIOUS
    <2>1. UpTo(y) \subseteq UpTo(m) /\ m \in UpTo(m) /\ m \notin UpTo(y)
      OBVIOUS
    <2> QED
      BY <2>1, <1>4 DEF StrictSubsetOrdering
  <1> QED
    BY <1>5 DEF Min

LEMMA Concatenated ==
    ASSUME NEW T, NEW p \in Seq(T), NEW q \in Seq(T)
    PROVE  /\ p \o q \in Seq(T)
           /\ \A i \in DOMAIN p : i \in DOMAIN (p \o q) /\ (p \o q)[i] = p[i]
           /\ \A j \in DOMAIN q : Len(p) + j \in DOMAIN (p \o q) /\ (p \o q)[Len(p) + j] = q[j]
           /\ \A i \in DOMAIN (p \o q) :
                 \/ i \in DOMAIN p /\ (p \o q)[i] = p[i]
                 \/ \E j \in DOMAIN q : i = Len(p) + j /\ (p \o q)[i] = q[j]
           /\ \A i \in DOMAIN p : \A j \in DOMAIN q : i < Len(p) + j
  <1>1. \A i \in DOMAIN (p \o q) :
           \/ i \in DOMAIN p /\ (p \o q)[i] = p[i]
           \/ \E j \in DOMAIN q : i = Len(p) + j /\ (p \o q)[i] = q[j]
    <2> SUFFICES ASSUME NEW i \in DOMAIN (p \o q), i \notin DOMAIN p
                 PROVE  \E j \in DOMAIN q : i = Len(p) + j /\ (p \o q)[i] = q[j]
      OBVIOUS
    <2>1. i - Len(p) \in DOMAIN q /\ i = Len(p) + (i - Len(p))
      OBVIOUS
    <2>2. (p \o q)[i] = q[i - Len(p)]
      OBVIOUS
    <2> QED
      BY <2>1, <2>2
  <1> QED
    BY <1>1

LEMMA InOrderConcatenated ==
    ASSUME NEW p \in Seq(Frames), NEW q \in Seq(Frames)
    PROVE  InOrder(p \o q) <=> InOrder(p) /\ InOrder(q) /\ AllBefore(p, q)
  <1> DEFINE c == p \o q
  <1>1. /\ \A i \in DOMAIN p : i \in DOMAIN c /\ c[i] = p[i]
        /\ \A j \in DOMAIN q : Len(p) + j \in DOMAIN c /\ c[Len(p) + j] = q[j]
        /\ \A i \in DOMAIN c : \/ i \in DOMAIN p /\ c[i] = p[i]
                               \/ \E j \in DOMAIN q : i = Len(p) + j /\ c[i] = q[j]
        /\ \A i \in DOMAIN p : \A j \in DOMAIN q : i < Len(p) + j
    BY Concatenated
  <1>2. DOMAIN p \subseteq Nat /\ DOMAIN q \subseteq Nat /\ Len(p) \in Nat
    OBVIOUS
  <1> HIDE DEF c
  <1>3. ASSUME InOrder(c)
        PROVE  InOrder(p) /\ InOrder(q) /\ AllBefore(p, q)
    <2>1. InOrder(p)
      BY <1>1, <1>3 DEF InOrder
    <2>2. InOrder(q)
      BY <1>1, <1>2, <1>3 DEF InOrder
    <2>3. AllBefore(p, q)
      BY <1>1, <1>3 DEF InOrder, AllBefore
    <2> QED
      BY <2>1, <2>2, <2>3
  <1>4. ASSUME InOrder(p), InOrder(q), AllBefore(p, q)
        PROVE  InOrder(c)
    <2> SUFFICES ASSUME NEW i \in DOMAIN c, NEW j \in DOMAIN c, i < j
                 PROVE  Before(c[i], c[j])
      BY DEF InOrder
    <2>1. CASE i \in DOMAIN p /\ c[i] = p[i] /\ j \in DOMAIN p /\ c[j] = p[j]
      BY <2>1, <1>4 DEF InOrder
    <2>2. CASE /\ i \in DOMAIN p /\ c[i] = p[i]
               /\ \E k \in DOMAIN q : j = Len(p) + k /\ c[j] = q[k]
      BY <2>2, <1>4 DEF AllBefore
    <2>3. ASSUME NEW k \in DOMAIN q, i = Len(p) + k, c[i] = q[k]
          PROVE  Before(c[i], c[j])
      <3>1. PICK l \in DOMAIN q : j = Len(p) + l /\ c[j] = q[l]
        BY <1>1, <1>2, <2>3
      <3>2. k < l
        BY <1>2, <2>3, <3>1
      <3> QED
        BY <2>3, <3>1, <3>2, <1>4 DEF InOrder
    <2> QED
      BY <1>1, <2>1, <2>2, <2>3
  <1> QED
    BY <1>3, <1>4 DEF c

LEMMA BeforeConcatenated ==
    ASSUME NEW p \in Seq(Frames), NEW q \in Seq(Frames), NEW r
    PROVE  /\ AllBefore(r, p \o q) <=> AllBefore(r, p) /\ AllBefore(r, q)
           /\ AllBefore(p \o q, r) <=> AllBefore(p, r) /\ AllBefore(q, r)
  <1> DEFINE c == p \o q
  <1>1. /\ \A i \in DOMAIN p : i \in DOMAIN c /\ c[i] = p[i]
        /\ \A j \in DOMAIN q : Len(p) + j \in DOMAIN c /\ c[Len(p) + j] = q[j]
        /\ \A i \in DOMAIN c : \/ i \in DOMAIN p /\ c[i] = p[i]
                               \/ \E j \in DOMAIN q : i = Len(p) + j /\ c[i] = q[j]
    BY Concatenated
  <1> HIDE DEF c
  <1>2. AllBefore(r, c) <=> AllBefore(r, p) /\ AllBefore(r, q)
    BY <1>1 DEF AllBefore
  <1>3. AllBefore(c, r) <=> AllBefore(p, r) /\ AllBefore(q, r)
    BY <1>1 DEF AllBefore
  <1> QED
    BY <1>2, <1>3 DEF c

LEMMA NumberedConcatenated ==
    ASSUME NEW p \in Seq(Frames), NEW q \in Seq(Frames), NEW n
    PROVE  Numbered(p \o q, n) <=> Numbered(p, n) /\ Numbered(q, n)
  <1> DEFINE c == p \o q
  <1>1. /\ \A i \in DOMAIN p : i \in DOMAIN c /\ c[i] = p[i]
        /\ \A j \in DOMAIN q : Len(p) + j \in DOMAIN c /\ c[Len(p) + j] = q[j]
        /\ \A i \in DOMAIN c : \/ i \in DOMAIN p /\ c[i] = p[i]
                               \/ \E j \in DOMAIN q : i = Len(p) + j /\ c[i] = q[j]
    BY Concatenated
  <1> HIDE DEF c
  <1>2. Numbered(c, n) <=> Numbered(p, n) /\ Numbered(q, n)
    BY <1>1 DEF Numbered
  <1> QED
    BY <1>2 DEF c

\* What is cut from a sequence keeps its order, and the order between its parts.
LEMMA OrderedParts ==
    ASSUME NEW q \in Seq(Frames), NEW k \in 0 .. Len(q), NEW r, NEW n
    PROVE  LET front == SubSeq(q, 1, k)
               rest  == SubSeq(q, k + 1, Len(q))
           IN  /\ front \in Seq(Frames) /\ rest \in Seq(Frames)
               /\ InOrder(q) => InOrder(front) /\ InOrder(rest) /\ AllBefore(front, rest)
               /\ AllBefore(r, q) => AllBefore(r, front) /\ AllBefore(r, rest)
               /\ AllBefore(q, r) => AllBefore(front, r) /\ AllBefore(rest, r)
               /\ Numbered(q, n) => Numbered(front, n) /\ Numbered(rest, n)
  <1> DEFINE front == SubSeq(q, 1, k)
             rest  == SubSeq(q, k + 1, Len(q))
  <1>1. front \in Seq(Frames) /\ rest \in Seq(Frames)
    OBVIOUS
  <1>2. Len(front) = k /\ Len(rest) = Len(q) - k
    OBVIOUS
  <1>3. \A i \in DOMAIN front : i \in DOMAIN q /\ front[i] = q[i]
    OBVIOUS
  <1>4. \A i \in DOMAIN rest : k + i \in DOMAIN q /\ rest[i] = q[k + i]
    OBVIOUS
  <1>5. DOMAIN front = 1 .. k /\ DOMAIN rest = 1 .. (Len(q) - k)
    BY <1>1, <1>2
  <1> HIDE DEF front, rest
  <1>6. InOrder(q) => InOrder(front) /\ InOrder(rest) /\ AllBefore(front, rest)
    BY <1>3, <1>4, <1>5 DEF InOrder, AllBefore
  <1>7. AllBefore(r, q) => AllBefore(r, front) /\ AllBefore(r, rest)
    BY <1>3, <1>4 DEF AllBefore
  <1>8. AllBefore(q, r) => AllBefore(front, r) /\ AllBefore(rest, r)
    BY <1>3, <1>4 DEF AllBefore
  <1>9. Numbered(q, n) => Numbered(front, n) /\ Numbered(rest, n)
    BY <1>3, <1>4 DEF Numbered
  <1> QED
    BY <1>1, <1>6, <1>7, <1>8, <1>9 DEF front, rest

-----------------------------------------------------------------------------
(***************************************************************************)
(* The operators that send keep a state sound.                             *)
(***************************************************************************)

\* Frames of no call, or of those after k and up to n.
New(frames, k, n) ==
    /\ InOrder(frames)
    /\ \A i \in DOMAIN frames :
          frames[i].id = 0 \/ (k < frames[i].id /\ frames[i].id <= n)

NoCall(frames) == \A i \in DOMAIN frames : frames[i].id = 0

LEMMA FrameIds == \A p \in Seq(Frames) : \A i \in DOMAIN p : p[i].id \in Nat /\ p[i] \in Frames
  <1> SUFFICES ASSUME NEW p \in Seq(Frames), NEW i \in DOMAIN p
               PROVE  p[i].id \in Nat /\ p[i] \in Frames
    OBVIOUS
  <1>1. p[i] \in Frames
    BY ElementOfSeq
  <1> QED
    BY <1>1, ChannelAssumption DEF Frames

LEMMA NewBehind ==
    ASSUME NEW frames \in Seq(Frames), NEW k \in Nat, NEW n \in Nat, New(frames, k, n), k <= n
    PROVE  /\ \A p \in Seq(Frames) : Numbered(p, k) => AllBefore(p, frames)
           /\ \A read : read.id \in 0 .. k => AllBefore(<<read>>, frames)
           /\ Numbered(frames, n)
  <1>1. ASSUME NEW p \in Seq(Frames), Numbered(p, k), NEW i \in DOMAIN p, NEW j \in DOMAIN frames
        PROVE  Before(p[i], frames[j])
    <2>1. p[i].id \in Nat /\ frames[j].id \in Nat
      BY FrameIds
    <2> QED
      BY <2>1, <1>1 DEF Numbered, New, Before
  <1>2. ASSUME NEW read, read.id \in 0 .. k, NEW j \in DOMAIN frames
        PROVE  Before(read, frames[j])
    <2>1. frames[j].id \in Nat
      BY FrameIds
    <2> QED
      BY <2>1, <1>2 DEF New, Before
  <1>3. \A read : \A i \in DOMAIN <<read>> : <<read>>[i] = read
    OBVIOUS
  <1>4. Numbered(frames, n)
    BY FrameIds DEF Numbered, New
  <1> QED
    BY <1>1, <1>2, <1>3, <1>4 DEF AllBefore

LEMMA FreeFrames ==
    \A frames, p : NoCall(frames) => AllBefore(frames, p) /\ AllBefore(p, frames)
  BY DEF NoCall, AllBefore, Before

LEMMA EmptyParts ==
    /\ <<>> \in Seq(Frames)
    /\ \A p : AllBefore(p, <<>>) /\ AllBefore(<<>>, p)
    /\ \A n : Numbered(<<>>, n)
    /\ InOrder(<<>>)
  BY DEF AllBefore, Numbered, InOrder

LEMMA SoundLater ==
    ASSUME NEW s, NEW read, NEW k, NEW n \in Nat, Sound(s, read, k), k <= n
    PROVE  Sound(s, read, n)
  <1>1. \A p \in Seq(Frames) : Numbered(p, k) => Numbered(p, n)
    BY FrameIds DEF Numbered, Sound
  <1>2. /\ s.toBroker \in Seq(Frames) /\ s.connection.queue \in Seq(Frames)
        /\ s.channel.queue \in Seq(Frames)
    BY DEF Sound, States, Channels, Connections
  <1> QED
    BY <1>1, <1>2 DEF Sound

LEMMA TransmitSound ==
    ASSUME NEW s, NEW read, NEW k, NEW n \in Nat, Sound(s, read, k), k <= n,
           NEW frames \in Seq(Frames), New(frames, k, n),
           frames # <<>> => s.connection.state \notin {"closing", "closed"},
           s.channel.queue = <<>> \/ NoCall(frames)
    PROVE  /\ Sound(Transmit(s, frames), read, n)
           /\ Transmit(s, frames).channel = s.channel
           /\ Transmit(s, frames).connection.state = s.connection.state
           /\ Transmit(s, frames).connection.closeCalled = s.connection.closeCalled
           /\ Transmit(s, frames).outcome = s.outcome
           /\ Transmit(s, frames).delivered = s.delivered
  <1> DEFINE t == Transmit(s, frames)
  <1>1. /\ s \in States /\ s.channel \in Channels /\ s.connection \in Connections
        /\ s.toBroker \in Seq(Frames) /\ s.connection.queue \in Seq(Frames)
        /\ s.channel.queue \in Seq(Frames)
    BY DEF Sound, States, Channels, Connections
  <1>2. /\ AllBefore(s.toBroker, frames) /\ AllBefore(s.connection.queue, frames)
        /\ AllBefore(<<read>>, frames)
        /\ Numbered(frames, n) /\ InOrder(frames)
    BY <1>1, NewBehind DEF Sound, New
  <1>3. AllBefore(frames, s.channel.queue)
    BY FreeFrames, EmptyParts
  <1>4. Sound(s, read, n)
    BY SoundLater
  <1>5. CASE s.connection.state = "connected" /\ s.connection.queue = <<>>
    <2>1. t = [s EXCEPT !.toBroker = s.toBroker \o frames]
      BY <1>5 DEF Transmit
    <2>2. s.toBroker \o frames \in Seq(Frames)
      BY <1>1, Concatenated
    <2>3. /\ t \in States /\ t.channel = s.channel /\ t.connection = s.connection
          /\ t.toBroker = s.toBroker \o frames
          /\ t.outcome = s.outcome /\ t.delivered = s.delivered
      BY <1>1, <2>1, <2>2 DEF States
    <2> HIDE DEF t
    <2>4. InOrder(t.toBroker)
      BY <1>1, <1>2, <1>4, <2>3, InOrderConcatenated DEF Sound
    <2>5. /\ AllBefore(t.toBroker, s.connection.queue) /\ AllBefore(t.toBroker, s.channel.queue)
          /\ AllBefore(<<read>>, t.toBroker)
      BY <1>1, <1>2, <1>3, <1>4, <1>5, <2>3, BeforeConcatenated, EmptyParts DEF Sound
    <2>6. Numbered(t.toBroker, n)
      BY <1>1, <1>2, <1>4, <2>3, NumberedConcatenated DEF Sound
    <2>7. Sound(t, read, n)
      BY <1>4, <2>3, <2>4, <2>5, <2>6 DEF Sound
    <2> QED
      BY <2>3, <2>7 DEF t
  <1>6. CASE ~(s.connection.state = "connected" /\ s.connection.queue = <<>>)
    <2> DEFINE con == [s.connection EXCEPT !.queue = s.connection.queue \o frames]
    <2>1. t = [s EXCEPT !.connection = con]
      BY <1>6 DEF Transmit
    <2>2. s.connection.queue \o frames \in Seq(Frames)
      BY <1>1, Concatenated
    <2>9. /\ con \in Connections /\ con.queue = s.connection.queue \o frames
          /\ con.state = s.connection.state /\ con.closeCalled = s.connection.closeCalled
      BY <1>1, <2>2 DEF Connections
    <2> HIDE DEF con
    <2>3. /\ t \in States /\ t.channel = s.channel /\ t.toBroker = s.toBroker
          /\ t.connection \in Connections
          /\ t.connection.queue = s.connection.queue \o frames
          /\ t.connection.state = s.connection.state
          /\ t.connection.closeCalled = s.connection.closeCalled
          /\ t.outcome = s.outcome /\ t.delivered = s.delivered
      BY <1>1, <2>1, <2>9 DEF States
    <2>4. s.connection.state \in {"connected", "closing", "closed"} => t.connection.queue = <<>>
      BY <1>1, <1>6, <2>3 DEF Sound
    <2> HIDE DEF t
    <2>5. InOrder(t.connection.queue)
      BY <1>1, <1>2, <1>4, <2>3, InOrderConcatenated DEF Sound
    <2>6. /\ AllBefore(s.toBroker, t.connection.queue)
          /\ AllBefore(t.connection.queue, s.channel.queue)
          /\ AllBefore(<<read>>, t.connection.queue)
      BY <1>1, <1>2, <1>3, <1>4, <2>3, BeforeConcatenated DEF Sound
    <2>7. Numbered(t.connection.queue, n)
      BY <1>1, <1>2, <1>4, <2>3, NumberedConcatenated DEF Sound
    <2>8. Sound(t, read, n)
      BY <1>4, <2>3, <2>4, <2>5, <2>6, <2>7 DEF Sound
    <2> QED
      BY <2>3, <2>8 DEF t
  <1> QED
    BY <1>5, <1>6

\* What sending leaves alone.
Keeps(s, t) ==
    /\ t.channel.receiver = s.channel.receiver
    /\ t.channel.linked = s.channel.linked
    /\ t.channel.consuming = s.channel.consuming
    /\ t.delivered = s.delivered
    /\ t.connection.closeCalled = s.connection.closeCalled
    /\ Len(t.outcome) = Len(s.outcome)

LEMMA ControlFrame ==
    \A op \in {"connectionClose", "connectionCloseOK", "channelCloseOK"} :
        Control(op) \in Frames /\ NoCall(<<Control(op)>>)
        /\ \A n \in Nat : New(<<Control(op)>>, n, n)
  BY ChannelAssumption DEF Control, FrameOfCall, Frames, NoCall, New, InOrder

LEMMA ControlSound ==
    ASSUME NEW s, NEW read, NEW n, Sound(s, read, n),
           NEW op \in {"connectionClose", "connectionCloseOK", "channelCloseOK"}
    PROVE  /\ Sound(SendIfAccepted(s, Control(op)), read, n)
           /\ Keeps(s, SendIfAccepted(s, Control(op)))
           /\ SendIfAccepted(s, Control(op)).channel = s.channel
           /\ SendIfAccepted(s, Control(op)).connection.state = s.connection.state
  <1> DEFINE f == Control(op)
  <1>1. f \in Frames /\ NoCall(<<f>>) /\ New(<<f>>, n, n) /\ n \in Nat
    BY ControlFrame DEF Sound
  <1>2. <<f>> \in Seq(Frames)
    BY <1>1
  <1> HIDE DEF f
  <1>3. CASE Accepts(s.connection, f)
    <2>1. s.connection.state \notin {"closing", "closed"}
      BY <1>3 DEF Accepts
    <2>2. SendIfAccepted(s, f) = Transmit(s, <<f>>)
      BY <1>3 DEF SendIfAccepted
    <2>3. s.channel.queue = <<>> \/ NoCall(<<f>>)
      BY <1>1
    <2>4. /\ Sound(Transmit(s, <<f>>), read, n)
          /\ Transmit(s, <<f>>).channel = s.channel
          /\ Transmit(s, <<f>>).connection.state = s.connection.state
          /\ Transmit(s, <<f>>).connection.closeCalled = s.connection.closeCalled
          /\ Transmit(s, <<f>>).outcome = s.outcome
          /\ Transmit(s, <<f>>).delivered = s.delivered
      <3> DEFINE new == <<f>>
      <3>1. /\ new \in Seq(Frames) /\ New(new, n, n) /\ n <= n
            /\ s.channel.queue = <<>> \/ NoCall(new)
        BY <1>1, <1>2, <2>3
      <3> HIDE DEF new
      <3>2. /\ Sound(Transmit(s, new), read, n)
            /\ Transmit(s, new).channel = s.channel
            /\ Transmit(s, new).connection.state = s.connection.state
            /\ Transmit(s, new).connection.closeCalled = s.connection.closeCalled
            /\ Transmit(s, new).outcome = s.outcome
            /\ Transmit(s, new).delivered = s.delivered
        BY <1>1, <2>1, <3>1, TransmitSound
      <3> QED
        BY <3>2 DEF new
    <2> QED
      BY <2>2, <2>4 DEF Keeps, f
  <1>4. CASE ~Accepts(s.connection, f)
    BY <1>4 DEF SendIfAccepted, Keeps, f
  <1> QED
    BY <1>3, <1>4

\* The state of the connection may change once its queue is empty.
LEMMA ConnectionSound ==
    ASSUME NEW s, NEW read, NEW n, Sound(s, read, n),
           NEW con \in Connections, con.queue = s.connection.queue,
           con.state \in {"connected", "closing", "closed"} => con.queue = <<>>
    PROVE  /\ Sound([s EXCEPT !.connection = con], read, n)
           /\ [s EXCEPT !.connection = con].connection = con
           /\ [s EXCEPT !.connection = con].channel = s.channel
           /\ [s EXCEPT !.connection = con].toBroker = s.toBroker
           /\ [s EXCEPT !.connection = con].outcome = s.outcome
           /\ [s EXCEPT !.connection = con].delivered = s.delivered
  <1> DEFINE t == [s EXCEPT !.connection = con]
  <1>1. /\ t \in States /\ t.connection = con /\ t.channel = s.channel
        /\ t.toBroker = s.toBroker /\ t.outcome = s.outcome /\ t.delivered = s.delivered
    BY DEF Sound, States
  <1> HIDE DEF t
  <1>2. Sound(t, read, n)
    BY <1>1 DEF Sound
  <1> QED
    BY <1>1, <1>2 DEF t

LEMMA SendCloseSound ==
    ASSUME NEW s, NEW read, NEW n, Sound(s, read, n), s.connection.state = "connected"
    PROVE  /\ Sound(SendClose(s), read, n)
           /\ Keeps(s, SendClose(s))
           /\ SendClose(s).channel = s.channel
           /\ SendClose(s).outcome = s.outcome
           /\ SendClose(s).connection.state = "closing"
  <1> DEFINE f == Control("connectionClose")
             t == SendIfAccepted(s, f)
             con == [t.connection EXCEPT !.state = "closing"]
  <1>1. /\ Sound(t, read, n) /\ Keeps(s, t) /\ t.channel = s.channel
        /\ t.connection.state = s.connection.state
    BY ControlSound
  <1>2. t.outcome = s.outcome
    BY DEF SendIfAccepted, Transmit, Sound, States
  <1>3. t \in States /\ t.connection \in Connections /\ t.connection.queue = <<>>
    BY <1>1 DEF Sound, States
  <1>4. SendClose(s) = [t EXCEPT !.connection = con]
    BY <1>3 DEF SendClose, States
  <1> HIDE DEF t
  <1>5. /\ con \in Connections /\ con.queue = t.connection.queue /\ con.state = "closing"
        /\ con.closeCalled = t.connection.closeCalled
    BY <1>3 DEF Connections
  <1> HIDE DEF con
  <1> QED
    BY <1>1, <1>2, <1>3, <1>4, <1>5, ConnectionSound DEF Keeps

LEMMA CloseWhenIdleSound ==
    ASSUME NEW s, NEW read, NEW n, Sound(s, read, n)
    PROVE  /\ Sound(SendCloseWhenIdle(s), read, n)
           /\ Keeps(s, SendCloseWhenIdle(s))
           /\ SendCloseWhenIdle(s).channel = s.channel
           /\ SendCloseWhenIdle(s).outcome = s.outcome
  BY SendCloseSound DEF SendCloseWhenIdle, Keeps

\* The channel may change if the frames it holds stay in their place.
LEMMA ChannelSound ==
    ASSUME NEW s, NEW read, NEW n, Sound(s, read, n), NEW ch \in Channels,
           ch.queue = s.channel.queue \/ ch.queue = <<>>
    PROVE  /\ Sound([s EXCEPT !.channel = ch], read, n)
           /\ [s EXCEPT !.channel = ch].channel = ch
           /\ [s EXCEPT !.channel = ch].connection = s.connection
           /\ [s EXCEPT !.channel = ch].toBroker = s.toBroker
           /\ [s EXCEPT !.channel = ch].outcome = s.outcome
           /\ [s EXCEPT !.channel = ch].delivered = s.delivered
  <1> DEFINE t == [s EXCEPT !.channel = ch]
  <1>1. /\ t \in States /\ t.channel = ch /\ t.connection = s.connection
        /\ t.toBroker = s.toBroker /\ t.outcome = s.outcome /\ t.delivered = s.delivered
    BY DEF Sound, States
  <1> HIDE DEF t
  <1>2. Sound(t, read, n)
    BY <1>1, EmptyParts DEF Sound
  <1> QED
    BY <1>1, <1>2 DEF t

LEMMA OutcomeSound ==
    ASSUME NEW s, NEW read, NEW n, Sound(s, read, n), NEW o \in Seq(Outcomes)
    PROVE  /\ Sound([s EXCEPT !.outcome = o], read, n)
           /\ [s EXCEPT !.outcome = o].channel = s.channel
           /\ [s EXCEPT !.outcome = o].connection = s.connection
           /\ [s EXCEPT !.outcome = o].toBroker = s.toBroker
           /\ [s EXCEPT !.outcome = o].outcome = o
           /\ [s EXCEPT !.outcome = o].delivered = s.delivered
  <1> DEFINE t == [s EXCEPT !.outcome = o]
  <1>1. /\ t \in States /\ t.channel = s.channel /\ t.connection = s.connection
        /\ t.toBroker = s.toBroker /\ t.outcome = o /\ t.delivered = s.delivered
    BY DEF Sound, States
  <1> HIDE DEF t
  <1>2. Sound(t, read, n)
    BY <1>1 DEF Sound
  <1> QED
    BY <1>1, <1>2 DEF t

\* What sending leaves alone in the channel.
SameChannel(s, t) ==
    /\ t.channel.state = s.channel.state
    /\ t.channel.chain = s.channel.chain
    /\ t.connection.state = s.connection.state
    /\ t.outcome = s.outcome

LEMMA HoldSound ==
    ASSUME NEW s, NEW read, NEW k, NEW n \in Nat, Sound(s, read, k), k <= n,
           NEW frames \in Seq(Frames), New(frames, k, n),
           frames # <<>> => s.channel.state # "closed"
    PROVE  /\ Sound(Hold(s, frames), read, n)
           /\ Keeps(s, Hold(s, frames)) /\ SameChannel(s, Hold(s, frames))
           /\ Drained(s) => Drained(Hold(s, frames))
  <1> DEFINE ch == [s.channel EXCEPT !.queue = s.channel.queue \o frames]
             t  == Hold(s, frames)
  <1>1. /\ s \in States /\ s.channel \in Channels /\ s.connection \in Connections
        /\ s.toBroker \in Seq(Frames) /\ s.connection.queue \in Seq(Frames)
        /\ s.channel.queue \in Seq(Frames) /\ k \in Nat
    BY DEF Sound, States, Channels, Connections
  <1>2. s.channel.queue \o frames \in Seq(Frames)
    BY <1>1, Concatenated
  <1>3. /\ ch \in Channels /\ ch.queue = s.channel.queue \o frames
        /\ ch.state = s.channel.state /\ ch.chain = s.channel.chain
        /\ ch.linked = s.channel.linked /\ ch.consuming = s.channel.consuming
        /\ ch.receiver = s.channel.receiver
    BY <1>1, <1>2 DEF Channels
  <1>4. t = [s EXCEPT !.channel = ch]
    BY <1>1 DEF Hold, States, Channels
  <1> HIDE DEF ch
  <1>5. /\ t \in States /\ t.channel = ch /\ t.connection = s.connection
        /\ t.toBroker = s.toBroker /\ t.outcome = s.outcome /\ t.delivered = s.delivered
    BY <1>1, <1>3, <1>4 DEF States
  <1> HIDE DEF t
  <1>6. /\ AllBefore(s.toBroker, frames) /\ AllBefore(s.connection.queue, frames)
        /\ AllBefore(s.channel.queue, frames) /\ AllBefore(<<read>>, frames)
        /\ Numbered(frames, n) /\ InOrder(frames)
    BY <1>1, NewBehind DEF Sound, New
  <1>7. Sound(s, read, n)
    BY SoundLater
  <1>8. InOrder(ch.queue)
    BY <1>1, <1>3, <1>6, <1>7, InOrderConcatenated DEF Sound
  <1>9. /\ AllBefore(s.toBroker, ch.queue) /\ AllBefore(s.connection.queue, ch.queue)
        /\ AllBefore(<<read>>, ch.queue)
    BY <1>1, <1>3, <1>6, <1>7, BeforeConcatenated DEF Sound
  <1>10. Numbered(ch.queue, n)
    BY <1>1, <1>3, <1>6, <1>7, NumberedConcatenated DEF Sound
  <1>11. Drained(s) => Drained(t)
    BY <1>1, <1>3, <1>5, ConcatEmptySeq DEF Drained
  <1>12. Sound(t, read, n)
    BY <1>5, <1>7, <1>8, <1>9, <1>10 DEF Sound
  <1>13. Keeps(s, t) /\ SameChannel(s, t)
    BY <1>3, <1>5 DEF Keeps, SameChannel
  <1> QED
    BY <1>11, <1>12, <1>13 DEF t

LEMMA SendFramesSound ==
    ASSUME NEW s, NEW read, NEW k, NEW n \in Nat, Sound(s, read, k), k <= n,
           NEW frames \in Seq(Frames), New(frames, k, n),
           frames # <<>> =>
               /\ s.channel.state # "closed"
               /\ \/ Waiting(s.channel)
                  \/ s.channel.state = "closing"
                  \/ s.connection.state \notin {"closing", "closed"}
    PROVE  /\ Sound(SendFrames(s, frames), read, n)
           /\ Keeps(s, SendFrames(s, frames)) /\ SameChannel(s, SendFrames(s, frames))
           /\ Drained(s) => Drained(SendFrames(s, frames))
  <1>1. CASE s.channel.state = "closing"
    BY <1>1, SoundLater DEF SendFrames, Keeps, SameChannel
  <1>2. CASE s.channel.state # "closing" /\ Waiting(s.channel)
    BY <1>2, HoldSound DEF SendFrames
  <1>3. CASE s.channel.state # "closing" /\ ~Waiting(s.channel)
    <2> DEFINE u  == Transmit(s, frames)
               ch == [u.channel EXCEPT !.synchronous = (SynchronousIn(frames) # {})]
    <2>1. s.channel.queue = <<>>
      BY <1>3 DEF Waiting
    <2>2. /\ Sound(u, read, n) /\ u.channel = s.channel
          /\ u.connection.state = s.connection.state
          /\ u.connection.closeCalled = s.connection.closeCalled
          /\ u.outcome = s.outcome /\ u.delivered = s.delivered
      BY <1>3, <2>1, TransmitSound
    <2>3. SendFrames(s, frames) = [u EXCEPT !.channel = ch]
      BY <1>3, <2>2 DEF SendFrames, SendAtOnce, Sound, States, Channels
    <2> HIDE DEF u
    <2>4. u.channel \in Channels
      BY <2>2 DEF Sound, States
    <2>5. (SynchronousIn(frames) # {}) \in BOOLEAN
      OBVIOUS
    <2>6. /\ ch \in Channels /\ ch.queue = u.channel.queue /\ ch.state = u.channel.state
          /\ ch.chain = u.channel.chain /\ ch.linked = u.channel.linked
          /\ ch.consuming = u.channel.consuming /\ ch.receiver = u.channel.receiver
      BY <2>4, <2>5 DEF Channels
    <2> HIDE DEF ch
    <2>8. /\ Sound([u EXCEPT !.channel = ch], read, n)
          /\ [u EXCEPT !.channel = ch].channel = ch
          /\ [u EXCEPT !.channel = ch].connection = u.connection
          /\ [u EXCEPT !.channel = ch].outcome = u.outcome
          /\ [u EXCEPT !.channel = ch].delivered = u.delivered
      BY <2>2, <2>6, ChannelSound
    <2> QED
      BY <2>2, <2>3, <2>6, <2>8 DEF Keeps, SameChannel, Drained
  <1> QED
    BY <1>1, <1>2, <1>3

LEMMA SendFrameSound ==
    ASSUME NEW s, NEW read, NEW k, NEW n \in Nat, Sound(s, read, k), k <= n,
           NEW frame \in Frames, k < frame.id, frame.id <= n
    PROVE  /\ Sound(SendFrame(s, frame), read, n)
           /\ Keeps(s, SendFrame(s, frame)) /\ SameChannel(s, SendFrame(s, frame))
           /\ Drained(s) => Drained(SendFrame(s, frame))
  <1> DEFINE new == <<frame>>
  <1>1. new \in Seq(Frames) /\ New(new, k, n)
    BY DEF New, InOrder
  <1> HIDE DEF new
  <1>2. CASE Sends(s, frame)
    <2>1. /\ s.channel.state # "closed"
          /\ \/ Waiting(s.channel)
             \/ s.channel.state = "closing"
             \/ s.connection.state \notin {"closing", "closed"}
      BY <1>2 DEF Sends, Accepts
    <2>2. /\ Sound(SendFrames(s, new), read, n)
          /\ Keeps(s, SendFrames(s, new)) /\ SameChannel(s, SendFrames(s, new))
          /\ Drained(s) => Drained(SendFrames(s, new))
      BY <1>1, <2>1, SendFramesSound
    <2> QED
      BY <1>2, <2>2 DEF SendFrame, new
  <1>3. CASE ~Sends(s, frame)
    BY <1>3, SoundLater DEF SendFrame, Keeps, SameChannel
  <1> QED
    BY <1>2, <1>3

\* Where flush() ends: at the first synchronous frame, or behind the last one.
LEMMA FlushPoint ==
    ASSUME NEW q \in Seq(Frames), NEW until, until = SynchronousIn(q),
           NEW last, last = Min(until \cup {Len(q)})
    PROVE  /\ last \in 0 .. Len(q)
           /\ q # <<>> => last \in DOMAIN q
           /\ \A i \in DOMAIN q : i < last => ~Synchronous(q[i])
           /\ until # {} => last \in DOMAIN q /\ Synchronous(q[last])
           /\ until = {} => last = Len(q)
  <1> DEFINE n == Len(q)
             S == until \cup {n}
  <1>1. until \subseteq 1 .. n /\ DOMAIN q = 1 .. n /\ n \in Nat
    BY DEF SynchronousIn
  <1>2. \A i \in DOMAIN q : Synchronous(q[i]) <=> i \in until
    BY DEF SynchronousIn
  <1>3. q # <<>> => n >= 1
    BY <1>1, EmptySeq
  <1> HIDE DEF n
  <1>4. S \in SUBSET Nat /\ S # {} /\ n \in S /\ until \subseteq S
    BY <1>1
  <1>5. last = Min(S)
    BY DEF n
  <1> HIDE DEF S
  <1>6. last \in S /\ \A y \in S : last <= y
    <2>1. Min(S) \in S /\ \A y \in S : Min(S) <= y
      BY ONLY <1>4, Smallest
    <2> QED
      BY <1>5, <2>1
  <1>7. last <= n /\ \A i \in until : last <= i
    BY <1>4, <1>6
  <1>8. last \in until \/ last = n
    BY <1>6 DEF S
  <1>9. last \in 0 .. n /\ (q # <<>> => last \in 1 .. n)
    BY <1>1, <1>3, <1>7, <1>8
  <1>10. \A i \in DOMAIN q : i < last => ~Synchronous(q[i])
    <2> SUFFICES ASSUME NEW i \in DOMAIN q, i < last, Synchronous(q[i]) PROVE FALSE
      OBVIOUS
    <2>1. i \in until /\ i \in Nat /\ last \in Nat
      BY <1>1, <1>2, <1>9
    <2>2. last <= i
      BY <1>7, <2>1
    <2>3. ~(i < last)
      BY ONLY <2>1, <2>2
    <2> QED
      BY <2>3
  <1>11. until # {} => last \in until
    <2> SUFFICES ASSUME NEW i \in until PROVE last \in until
      OBVIOUS
    <2>1. i \in 1 .. n /\ last <= i
      BY <1>1, <1>7
    <2> QED
      BY <1>1, <1>8, <1>9, <2>1
  <1>12. until # {} => last \in DOMAIN q /\ Synchronous(q[last])
    BY <1>1, <1>2, <1>11
  <1>13. until = {} => last = n
    BY <1>8
  <1> QED
    BY <1>1, <1>9, <1>10, <1>12, <1>13 DEF n

LEMMA MinOfTwo == \A n \in Nat : Min({1, n}) \in 0 .. n /\ (n >= 1 => Min({1, n}) = 1)
  <1> SUFFICES ASSUME NEW n \in Nat
               PROVE  Min({1, n}) \in 0 .. n /\ (n >= 1 => Min({1, n}) = 1)
    OBVIOUS
  <1>1. {1, n} \in SUBSET Nat /\ {1, n} # {}
    OBVIOUS
  <1>2. Min({1, n}) \in {1, n} /\ \A y \in {1, n} : Min({1, n}) <= y
    BY <1>1, Smallest
  <1> QED
    BY <1>2

\* flush() in its three cases: not registered, not connected, connected.
LEMMA FlushCases ==
    ASSUME NEW s \in States
    PROVE  LET q     == s.channel.queue
               t     == Flush(s)
               until == SynchronousIn(q)
               last  == Min(until \cup {Len(q)})
           IN  /\ t.connection = s.connection /\ t.outcome = s.outcome
               /\ t.delivered = s.delivered
               /\ t.channel.state = s.channel.state /\ t.channel.chain = s.channel.chain
               /\ t.channel.linked = s.channel.linked
               /\ t.channel.consuming = s.channel.consuming
               /\ t.channel.receiver = s.channel.receiver
               /\ t.channel \in Channels /\ t.toBroker \in Seq(Frames) /\ t \in States
               /\ \/ /\ ~s.channel.linked
                     /\ t.channel.queue = q /\ t.toBroker = s.toBroker
                     /\ ~t.channel.synchronous
                  \/ /\ s.channel.linked /\ s.connection.state # "connected"
                     /\ \E k \in 0 .. Len(q) : t.channel.queue = SubSeq(q, k + 1, Len(q))
                     /\ t.toBroker = s.toBroker
                     /\ ~t.channel.synchronous
                  \/ /\ s.channel.linked /\ s.connection.state = "connected"
                     /\ t.channel.queue = SubSeq(q, last + 1, Len(q))
                     /\ t.toBroker = s.toBroker \o SubSeq(q, 1, last)
                     /\ t.channel.synchronous <=> until # {}
  <1> DEFINE q     == s.channel.queue
             until == SynchronousIn(q)
             last  == Min(until \cup {Len(q)})
             sends == s.connection.state = "connected"
             gone  == IF sends THEN last ELSE Min({1, Len(q)})
             sync  == sends /\ until # {}
             kept  == SubSeq(q, gone + 1, Len(q))
             sent  == IF sends THEN s.toBroker \o SubSeq(q, 1, last) ELSE s.toBroker
  <1>1. /\ s.channel \in Channels /\ q \in Seq(Frames) /\ s.toBroker \in Seq(Frames)
        /\ Len(q) \in Nat
    BY DEF States, Channels
  <1>2. last \in 0 .. Len(q)
    BY <1>1, FlushPoint
  <1>3. gone \in 0 .. Len(q)
    BY <1>1, <1>2, MinOfTwo
  <1>4. SubSeq(q, 1, last) \in Seq(Frames) /\ SubSeq(q, gone + 1, Len(q)) \in Seq(Frames)
    BY <1>1, <1>2, <1>3, OrderedParts
  <1>5. kept \in Seq(Frames) /\ sent \in Seq(Frames) /\ sync \in BOOLEAN
    BY <1>1, <1>4, Concatenated
  <1>6. CASE ~s.channel.linked
    <2>1. Flush(s) = [s EXCEPT !.channel.synchronous = FALSE]
      BY <1>6 DEF Flush
    <2> DEFINE ch == [s.channel EXCEPT !.synchronous = FALSE]
    <2>2. Flush(s) = [s EXCEPT !.channel = ch]
      BY <1>1, <2>1
    <2>3. /\ ch \in Channels /\ ch.queue = q /\ ~ch.synchronous
          /\ ch.state = s.channel.state /\ ch.chain = s.channel.chain
          /\ ch.linked = s.channel.linked /\ ch.consuming = s.channel.consuming
          /\ ch.receiver = s.channel.receiver
      BY <1>1 DEF Channels
    <2> HIDE DEF ch
    <2>4. /\ Flush(s) \in States /\ Flush(s).channel = ch /\ Flush(s).toBroker = s.toBroker
          /\ Flush(s).connection = s.connection /\ Flush(s).outcome = s.outcome
          /\ Flush(s).delivered = s.delivered
      BY <2>2, <2>3 DEF States
    <2> QED
      BY <1>1, <1>6, <2>3, <2>4
  <1>7. CASE s.channel.linked
    <2> DEFINE ch == [s.channel EXCEPT !.synchronous = sync, !.queue = kept]
    <2>1. Flush(s) = [s EXCEPT !.channel = ch, !.toBroker = sent]
      <3>1. Flush(s) = [s EXCEPT !.channel.synchronous = sync, !.channel.queue = kept,
                                 !.toBroker = sent]
        BY <1>7 DEF Flush
      <3> HIDE DEF sync, kept, sent
      <3> QED
        BY <3>1, <1>1 DEF States, Channels
    <2>2. /\ sends => kept = SubSeq(q, last + 1, Len(q)) /\ sent = s.toBroker \o SubSeq(q, 1, last)
          /\ sends => (sync <=> until # {})
          /\ ~sends => sent = s.toBroker /\ ~sync
          /\ \E k \in 0 .. Len(q) : kept = SubSeq(q, k + 1, Len(q))
      BY <1>3
    <2> HIDE DEF sync, kept, sent, gone
    <2>3. /\ ch \in Channels /\ ch.queue = kept /\ ch.synchronous = sync
          /\ ch.state = s.channel.state /\ ch.chain = s.channel.chain
          /\ ch.linked = s.channel.linked /\ ch.consuming = s.channel.consuming
          /\ ch.receiver = s.channel.receiver
      BY <1>1, <1>5 DEF Channels
    <2> HIDE DEF ch
    <2>4. /\ Flush(s) \in States /\ Flush(s).channel = ch /\ Flush(s).toBroker = sent
          /\ Flush(s).connection = s.connection /\ Flush(s).outcome = s.outcome
          /\ Flush(s).delivered = s.delivered
      BY <1>5, <2>1, <2>3 DEF States
    <2> HIDE DEF last, until
    <2>5. CASE sends
      BY <1>5, <1>7, <2>2, <2>3, <2>4, <2>5 DEF last, until
    <2>6. CASE ~sends
      BY <1>5, <1>7, <2>2, <2>3, <2>4, <2>6
    <2> QED
      BY <2>5, <2>6
  <1> QED
    BY <1>6, <1>7

LEMMA FlushSound ==
    ASSUME NEW s, NEW read, NEW n, Sound(s, read, n)
    PROVE  /\ Sound(Flush(s), read, n)
           /\ Keeps(s, Flush(s)) /\ SameChannel(s, Flush(s))
           /\ Drained(s) => Drained(Flush(s))
  <1> DEFINE q     == s.channel.queue
             t     == Flush(s)
             last  == Min(SynchronousIn(q) \cup {Len(q)})
  <1>1. /\ s \in States /\ q \in Seq(Frames) /\ s.toBroker \in Seq(Frames)
        /\ s.connection.queue \in Seq(Frames)
    BY DEF Sound, States, Channels, Connections
  <1>2. /\ t.connection = s.connection /\ t.outcome = s.outcome /\ t.delivered = s.delivered
        /\ t.channel.state = s.channel.state /\ t.channel.chain = s.channel.chain
        /\ t.channel.linked = s.channel.linked /\ t.channel.consuming = s.channel.consuming
        /\ t.channel.receiver = s.channel.receiver /\ t \in States
    BY <1>1, FlushCases
  <1>3. \/ t.channel.queue = q /\ t.toBroker = s.toBroker
        \/ /\ \E k \in 0 .. Len(q) : t.channel.queue = SubSeq(q, k + 1, Len(q))
           /\ t.toBroker = s.toBroker
        \/ /\ s.connection.state = "connected"
           /\ t.channel.queue = SubSeq(q, last + 1, Len(q))
           /\ t.toBroker = s.toBroker \o SubSeq(q, 1, last)
    BY <1>1, FlushCases
  <1>4. last \in 0 .. Len(q)
    BY <1>1, FlushPoint
  <1>5. Keeps(s, t) /\ SameChannel(s, t)
    BY <1>2 DEF Keeps, SameChannel
  <1> HIDE DEF t, last
  <1>6. CASE t.channel.queue = q /\ t.toBroker = s.toBroker
    BY <1>2, <1>5, <1>6 DEF Sound, Drained, t
  <1>7. ASSUME NEW k \in 0 .. Len(q), t.channel.queue = SubSeq(q, k + 1, Len(q)),
               t.toBroker = s.toBroker
        PROVE  Sound(t, read, n) /\ (Drained(s) => Drained(t))
    <2> DEFINE rest == SubSeq(q, k + 1, Len(q))
    <2>1. /\ rest \in Seq(Frames) /\ InOrder(rest)
          /\ AllBefore(s.toBroker, rest) /\ AllBefore(s.connection.queue, rest)
          /\ AllBefore(<<read>>, rest) /\ Numbered(rest, n)
      BY <1>1, OrderedParts DEF Sound
    <2>2. q = <<>> => rest = <<>>
      <3> SUFFICES ASSUME q = <<>> PROVE rest = <<>>
        OBVIOUS
      <3>1. Len(q) = 0 /\ k = 0
        BY <1>1
      <3> QED
        BY <3>1, <1>1
    <2> HIDE DEF rest
    <2>3. t.channel.queue = rest
      BY <1>7 DEF rest
    <2> QED
      BY <1>2, <1>7, <2>1, <2>2, <2>3 DEF Sound, Drained
  <1>8. CASE /\ s.connection.state = "connected"
             /\ t.channel.queue = SubSeq(q, last + 1, Len(q))
             /\ t.toBroker = s.toBroker \o SubSeq(q, 1, last)
    <2> DEFINE front == SubSeq(q, 1, last)
               rest  == SubSeq(q, last + 1, Len(q))
               sent  == s.toBroker \o front
    <2>1. /\ front \in Seq(Frames) /\ rest \in Seq(Frames)
          /\ InOrder(front) /\ InOrder(rest) /\ AllBefore(front, rest)
          /\ AllBefore(s.toBroker, front) /\ AllBefore(s.toBroker, rest)
          /\ AllBefore(<<read>>, front) /\ AllBefore(<<read>>, rest)
          /\ Numbered(front, n) /\ Numbered(rest, n)
      BY <1>1, <1>4, OrderedParts DEF Sound
    <2>2. q = <<>> => rest = <<>>
      <3> SUFFICES ASSUME q = <<>> PROVE rest = <<>>
        OBVIOUS
      <3>1. Len(q) = 0 /\ last = 0
        BY <1>1, <1>4
      <3> QED
        BY <3>1, <1>1
    <2>3. s.connection.queue = <<>>
      BY <1>8 DEF Sound
    <2> HIDE DEF front, rest
    <2>4. InOrder(sent) /\ sent \in Seq(Frames)
      BY <1>1, <2>1, InOrderConcatenated, Concatenated DEF Sound
    <2>5. AllBefore(sent, rest) /\ AllBefore(<<read>>, sent)
      BY <1>1, <2>1, BeforeConcatenated DEF Sound
    <2>6. Numbered(sent, n)
      BY <1>1, <2>1, NumberedConcatenated DEF Sound
    <2>7. t.channel.queue = rest /\ t.toBroker = sent
      BY <1>8 DEF front, rest
    <2> HIDE DEF sent
    <2>8. Sound(t, read, n)
      BY <1>2, <2>1, <2>3, <2>4, <2>5, <2>6, <2>7, EmptyParts DEF Sound
    <2>9. Drained(s) => Drained(t)
      BY <1>2, <2>2, <2>7 DEF Drained
    <2> QED
      BY <1>5, <2>8, <2>9 DEF t
  <1> QED
    BY <1>3, <1>5, <1>6, <1>7, <1>8 DEF t

LEMMA SetReadySound ==
    ASSUME NEW s, NEW read, NEW n, Sound(s, read, n)
    PROVE  /\ Sound(SetReady(s), read, n)
           /\ Keeps(s, SetReady(s))
           /\ SetReady(s).channel = s.channel
           /\ SetReady(s).outcome = s.outcome
  <1> DEFINE con  == [s.connection EXCEPT !.state = "connected", !.queue = <<>>]
             sent == s.toBroker \o s.connection.queue
             t    == [s EXCEPT !.connection = con, !.toBroker = sent]
  <1>1. /\ s \in States /\ s.connection \in Connections /\ s.toBroker \in Seq(Frames)
        /\ s.connection.queue \in Seq(Frames) /\ s.channel.queue \in Seq(Frames)
    BY DEF Sound, States, Channels, Connections
  <1>2. SetReady(s) = SendCloseWhenIdle(t)
    BY <1>1 DEF SetReady, States, Connections
  <1>3. sent \in Seq(Frames) /\ InOrder(sent)
    BY <1>1, Concatenated, InOrderConcatenated DEF Sound
  <1>4. AllBefore(sent, s.channel.queue) /\ AllBefore(<<read>>, sent)
    BY <1>1, BeforeConcatenated DEF Sound
  <1>5. Numbered(sent, n)
    BY <1>1, NumberedConcatenated DEF Sound
  <1>6. /\ con \in Connections /\ con.queue = <<>> /\ con.state = "connected"
        /\ con.closeCalled = s.connection.closeCalled
    BY <1>1, EmptyParts DEF Connections
  <1> HIDE DEF con, sent
  <1>7. /\ t \in States /\ t.connection = con /\ t.toBroker = sent /\ t.channel = s.channel
        /\ t.outcome = s.outcome /\ t.delivered = s.delivered
    BY <1>1, <1>3, <1>6 DEF States
  <1> HIDE DEF t
  <1>8. Sound(t, read, n)
    BY <1>3, <1>4, <1>5, <1>6, <1>7, EmptyParts DEF Sound
  <1>9. Keeps(s, t)
    BY <1>6, <1>7 DEF Keeps
  <1> QED
    BY <1>2, <1>7, <1>8, <1>9, CloseWhenIdleSound DEF Keeps

LEMMA PushSound ==
    ASSUME NEW s, NEW read, NEW n, Sound(s, read, n), NEW failed \in BOOLEAN,
           Len(s.outcome) + 1 <= MaxCalls + 2
    PROVE  /\ Sound(Push(s, failed), read, n)
           /\ Push(s, failed).connection = s.connection
           /\ Push(s, failed).toBroker = s.toBroker
           /\ Push(s, failed).delivered = s.delivered
           /\ Len(Push(s, failed).outcome) = Len(s.outcome) + 1
           /\ Push(s, failed).outcome \in Seq(Outcomes)
           /\ \E chain \in Seq(1 .. MaxCalls + 2) :
                 Push(s, failed).channel = [s.channel EXCEPT !.chain = chain]
  <1> DEFINE chain == Append(s.channel.chain, Len(s.outcome) + 1)
             o     == Append(s.outcome, IF failed THEN "refused" ELSE "pending")
             ch    == [s.channel EXCEPT !.chain = chain]
             u     == [s EXCEPT !.channel = ch]
  <1>1. /\ s \in States /\ s.channel \in Channels /\ s.outcome \in Seq(Outcomes)
        /\ s.channel.chain \in Seq(1 .. MaxCalls + 2) /\ Len(s.outcome) \in Nat
    BY DEF Sound, States, Channels
  <1>2. Len(s.outcome) + 1 \in 1 .. MaxCalls + 2
    BY <1>1, ChannelAssumption
  <1>3. chain \in Seq(1 .. MaxCalls + 2)
    BY <1>1, <1>2
  <1>4. o \in Seq(Outcomes) /\ Len(o) = Len(s.outcome) + 1
    BY <1>1 DEF Outcomes
  <1>5. Push(s, failed) = [u EXCEPT !.outcome = o]
    <2> HIDE DEF o, chain
    <2>1. Push(s, failed) = [s EXCEPT !.channel.chain = chain, !.outcome = o]
      BY <1>1 DEF Push, States, Channels, chain, o
    <2> QED
      BY <1>1, <2>1 DEF States, Channels
  <1> HIDE DEF o, chain
  <1>6. ch \in Channels /\ ch.queue = s.channel.queue
    BY <1>1, <1>3 DEF Channels
  <1>7. /\ Sound(u, read, n) /\ u.channel = ch /\ u.connection = s.connection
        /\ u.toBroker = s.toBroker /\ u.delivered = s.delivered
    <2> HIDE DEF ch
    <2> QED
      BY <1>6, ChannelSound
  <1> HIDE DEF u
  <1>8. /\ Sound([u EXCEPT !.outcome = o], read, n)
        /\ [u EXCEPT !.outcome = o].channel = u.channel
        /\ [u EXCEPT !.outcome = o].connection = u.connection
        /\ [u EXCEPT !.outcome = o].toBroker = u.toBroker
        /\ [u EXCEPT !.outcome = o].outcome = o
        /\ [u EXCEPT !.outcome = o].delivered = u.delivered
    BY <1>4, <1>7, OutcomeSound
  <1> QED
    BY <1>3, <1>4, <1>5, <1>7, <1>8

\* flush() looks at what it sends and at where, at nothing else.
LEMMA SameFlush ==
    ASSUME NEW s \in States, NEW u \in States, u.connection = s.connection,
           u.toBroker = s.toBroker, u.channel.queue = s.channel.queue,
           u.channel.linked = s.channel.linked
    PROVE  /\ Flush(u).toBroker = Flush(s).toBroker
           /\ Flush(u).channel.synchronous = Flush(s).channel.synchronous
  <1> DEFINE v == Flush(u)
             w == Flush(s)
             q == s.channel.queue
             until == SynchronousIn(q)
             last  == Min(until \cup {Len(q)})
             uq     == u.channel.queue
             uuntil == SynchronousIn(uq)
             ulast  == Min(uuntil \cup {Len(uq)})
  <1>1. /\ v.channel \in Channels
        /\ \/ /\ ~u.channel.linked
              /\ v.toBroker = u.toBroker
              /\ ~v.channel.synchronous
           \/ /\ u.channel.linked /\ u.connection.state # "connected"
              /\ v.toBroker = u.toBroker
              /\ ~v.channel.synchronous
           \/ /\ u.channel.linked /\ u.connection.state = "connected"
              /\ v.toBroker = u.toBroker \o SubSeq(uq, 1, ulast)
              /\ v.channel.synchronous <=> uuntil # {}
    BY FlushCases
  <1>2. /\ w.channel \in Channels
        /\ \/ /\ ~s.channel.linked
              /\ w.toBroker = s.toBroker
              /\ ~w.channel.synchronous
           \/ /\ s.channel.linked /\ s.connection.state # "connected"
              /\ w.toBroker = s.toBroker
              /\ ~w.channel.synchronous
           \/ /\ s.channel.linked /\ s.connection.state = "connected"
              /\ w.toBroker = s.toBroker \o SubSeq(q, 1, last)
              /\ w.channel.synchronous <=> until # {}
    BY FlushCases
  <1>7. uq = q /\ uuntil = until /\ ulast = last
    OBVIOUS
  <1> HIDE DEF v, w, last, until, uq, uuntil, ulast
  <1>3. v.channel.synchronous \in BOOLEAN /\ w.channel.synchronous \in BOOLEAN
    BY <1>1, <1>2 DEF Channels
  <1>4. v.toBroker = w.toBroker
    BY <1>1, <1>2, <1>7
  <1>5. v.channel.synchronous <=> w.channel.synchronous
    BY <1>1, <1>2, <1>7
  <1>6. v.channel.synchronous = w.channel.synchronous
    BY <1>3, <1>5
  <1> QED
    BY <1>4, <1>6 DEF v, w

-----------------------------------------------------------------------------
(***************************************************************************)
(* The calls keep a state sound.                                           *)
(***************************************************************************)

\* What a call leaves alone; it has an outcome.
Called(s, t) ==
    /\ t.channel.receiver = s.channel.receiver
    /\ t.channel.linked = s.channel.linked
    /\ t.channel.consuming = s.channel.consuming
    /\ t.delivered = s.delivered
    /\ t.connection.closeCalled = s.connection.closeCalled
    /\ t.connection.state = s.connection.state
    /\ Len(t.outcome) = Len(s.outcome) + 1
    /\ s.channel.state = "closed" <=> t.channel.state = "closed"

LEMMA RequestSound ==
    ASSUME NEW s, NEW read, NEW k, Sound(s, read, k), Drained(s),
           NEW frame \in Frames, frame.id = k + 1,
           Len(s.outcome) + 1 <= MaxCalls + 2
    PROVE  /\ Sound(Request(s, frame), read, k + 1)
           /\ Called(s, Request(s, frame)) /\ Drained(Request(s, frame))
           /\ Request(s, frame).channel.state = s.channel.state
  <1> DEFINE t == SendFrame(s, frame)
             n == k + 1
             failed == ~Sends(s, frame)
  <1>1. n \in Nat /\ k <= n /\ k < frame.id /\ frame.id <= n
    BY DEF Sound
  <1>2. /\ Sound(t, read, n) /\ Keeps(s, t) /\ SameChannel(s, t) /\ Drained(t)
    <2> HIDE DEF n
    <2> QED
      BY <1>1, SendFrameSound
  <1>3. Request(s, frame) = Push(t, failed)
    BY DEF Request
  <1>4. failed \in BOOLEAN
    BY DEF Sends
  <1>5. Len(t.outcome) + 1 <= MaxCalls + 2
    BY <1>2 DEF SameChannel
  <1> HIDE DEF t, n, failed
  <1>6. /\ Sound(Push(t, failed), read, n)
        /\ Push(t, failed).connection = t.connection
        /\ Push(t, failed).toBroker = t.toBroker
        /\ Push(t, failed).delivered = t.delivered
        /\ Len(Push(t, failed).outcome) = Len(t.outcome) + 1
    BY <1>2, <1>4, <1>5, PushSound
  <1>7. PICK chain \in Seq(1 .. MaxCalls + 2) :
            Push(t, failed).channel = [t.channel EXCEPT !.chain = chain]
    BY <1>2, <1>4, <1>5, PushSound
  <1>8. t.channel \in Channels
    BY <1>2 DEF Sound, States
  <1>9. /\ Push(t, failed).channel.state = t.channel.state
        /\ Push(t, failed).channel.queue = t.channel.queue
        /\ Push(t, failed).channel.receiver = t.channel.receiver
        /\ Push(t, failed).channel.linked = t.channel.linked
        /\ Push(t, failed).channel.consuming = t.channel.consuming
    BY <1>7, <1>8 DEF Channels
  <1>10. Called(s, Push(t, failed))
    BY <1>2, <1>6, <1>9 DEF Keeps, SameChannel, Called
  <1>11. Drained(Push(t, failed))
    BY <1>2, <1>9 DEF Drained
  <1> QED
    BY <1>2, <1>3, <1>6, <1>9, <1>10, <1>11 DEF n, SameChannel

\* A call that sends nothing.
LEMMA PushCalled ==
    ASSUME NEW s, NEW read, NEW k, Sound(s, read, k), Drained(s), NEW failed \in BOOLEAN,
           Len(s.outcome) + 1 <= MaxCalls + 2
    PROVE  /\ Sound(Push(s, failed), read, k + 1)
           /\ Called(s, Push(s, failed)) /\ Drained(Push(s, failed))
           /\ Push(s, failed).channel.state = s.channel.state
  <1> DEFINE t == Push(s, failed)
             n == k + 1
  <1>1. n \in Nat /\ k <= n
    BY DEF Sound
  <1>2. /\ Sound(t, read, k) /\ t.connection = s.connection
        /\ t.delivered = s.delivered /\ Len(t.outcome) = Len(s.outcome) + 1
    BY PushSound
  <1>3. PICK chain \in Seq(1 .. MaxCalls + 2) : t.channel = [s.channel EXCEPT !.chain = chain]
    BY PushSound
  <1>4. s.channel \in Channels
    BY DEF Sound, States
  <1> HIDE DEF t, n
  <1>5. /\ t.channel.state = s.channel.state /\ t.channel.queue = s.channel.queue
        /\ t.channel.receiver = s.channel.receiver /\ t.channel.linked = s.channel.linked
        /\ t.channel.consuming = s.channel.consuming
    BY <1>3, <1>4 DEF Channels
  <1>6. Sound(t, read, n)
    BY <1>1, <1>2, SoundLater
  <1> QED
    BY <1>2, <1>5, <1>6 DEF Called, Drained, t, n

LEMMA CloseChannelSound ==
    ASSUME NEW s, NEW read, NEW k, Sound(s, read, k), Drained(s),
           NEW frame \in Frames, frame.id = k + 1,
           Len(s.outcome) + 1 <= MaxCalls + 2
    PROVE  /\ Sound(CloseChannel(s, frame), read, k + 1)
           /\ Called(s, CloseChannel(s, frame)) /\ Drained(CloseChannel(s, frame))
  <1>1. CASE Usable(s.channel) /\ Sends(s, frame)
    <2> DEFINE t  == Request(s, frame)
               ch == [t.channel EXCEPT !.state = "closing"]
    <2>1. Sound(t, read, k + 1) /\ Called(s, t) /\ Drained(t)
      BY RequestSound
    <2>2. s.channel.state # "closed"
      BY <1>1 DEF Sends
    <2>3. CloseChannel(s, frame) = [t EXCEPT !.channel = ch]
      <3>1. CloseChannel(s, frame) = [t EXCEPT !.channel.state = "closing"]
        BY <1>1 DEF CloseChannel, Usable
      <3> HIDE DEF t
      <3> QED
        BY <3>1, <2>1 DEF Sound, States
    <2> HIDE DEF t
    <2>4. t.channel \in Channels
      BY <2>1 DEF Sound, States
    <2>5. /\ ch \in Channels /\ ch.queue = t.channel.queue /\ ch.state = "closing"
          /\ ch.receiver = t.channel.receiver /\ ch.linked = t.channel.linked
          /\ ch.consuming = t.channel.consuming
      BY <2>4 DEF Channels
    <2> HIDE DEF ch
    <2>6. /\ Sound([t EXCEPT !.channel = ch], read, k + 1)
          /\ [t EXCEPT !.channel = ch].channel = ch
          /\ [t EXCEPT !.channel = ch].connection = t.connection
          /\ [t EXCEPT !.channel = ch].outcome = t.outcome
          /\ [t EXCEPT !.channel = ch].delivered = t.delivered
      BY <2>1, <2>5, ChannelSound
    <2> QED
      BY <2>1, <2>2, <2>3, <2>5, <2>6 DEF Called, Drained
  <1>2. CASE ~(Usable(s.channel) /\ Sends(s, frame)) /\ (Usable(s.channel) \/ s.channel.state = "closing")
    <2>1. CloseChannel(s, frame) = Push(s, TRUE)
      BY <1>2 DEF CloseChannel, Usable
    <2> QED
      BY <2>1, PushCalled
  <1>3. CASE ~Usable(s.channel) /\ s.channel.state # "closing"
    <2> DEFINE t == Push(s, FALSE)
               o == [t.outcome EXCEPT ![Len(s.outcome) + 1] = "ignored"]
    <2>1. Sound(t, read, k + 1) /\ Called(s, t) /\ Drained(t)
      BY PushCalled
    <2>2. CloseChannel(s, frame) = [t EXCEPT !.outcome = o]
      <3>1. CloseChannel(s, frame) = [t EXCEPT !.outcome[Len(s.outcome) + 1] = "ignored"]
        BY <1>3 DEF CloseChannel
      <3> HIDE DEF t
      <3> QED
        BY <3>1, <2>1 DEF Sound, States
    <2> HIDE DEF t
    <2>3. t.outcome \in Seq(Outcomes)
      BY <2>1 DEF Sound, States
    <2>4. o \in Seq(Outcomes) /\ Len(o) = Len(t.outcome)
      <3>1. "ignored" \in Outcomes
        BY DEF Outcomes
      <3>2. Len(s.outcome) + 1 \in 1 .. Len(t.outcome)
        BY <2>1 DEF Called, Sound, States
      <3> QED
        BY <2>3, <3>1, <3>2, ExceptSeq
    <2> HIDE DEF o
    <2>5. /\ Sound([t EXCEPT !.outcome = o], read, k + 1)
          /\ [t EXCEPT !.outcome = o].channel = t.channel
          /\ [t EXCEPT !.outcome = o].connection = t.connection
          /\ [t EXCEPT !.outcome = o].outcome = o
          /\ [t EXCEPT !.outcome = o].delivered = t.delivered
      BY <2>1, <2>4, OutcomeSound
    <2> QED
      BY <2>1, <2>2, <2>4, <2>5 DEF Called, Drained
  <1> QED
    BY <1>1, <1>2, <1>3

LEMMA FunctionSeq ==
    ASSUME NEW T, NEW n \in Nat, NEW f \in [1 .. n -> T]
    PROVE  f \in Seq(T) /\ Len(f) = n
  OBVIOUS

\* The frames that publish() sends: those before the first that is refused.
Refused(s, frame) == {i \in 1 .. frame.parts : ~Sends(s, [frame EXCEPT !.part = i])}

Taken(s, frame) ==
    IF Refused(s, frame) = {} THEN frame.parts ELSE Min(Refused(s, frame)) - 1

Parts(s, frame) == [i \in 1 .. Taken(s, frame) |-> [frame EXCEPT !.part = i]]

LEMMA PartsTaken ==
    ASSUME NEW s, NEW frame \in Frames,
           NEW refused, refused = Refused(s, frame),
           NEW taken, taken = Taken(s, frame),
           NEW frames, frames = Parts(s, frame)
    PROVE  /\ taken \in 0 .. frame.parts
           /\ frames \in Seq(Frames) /\ DOMAIN frames = 1 .. taken
           /\ \A i \in DOMAIN frames : /\ frames[i].id = frame.id /\ frames[i].op = frame.op
                                       /\ frames[i].part = i
           /\ frames # <<>> => Sends(s, frames[1])
  <1>1. frame.parts \in 1 .. 2 + MaxSize /\ MaxSize \in Nat
    BY ChannelAssumption DEF Frames
  <1>9. /\ taken = (IF refused = {} THEN frame.parts ELSE Min(refused) - 1)
        /\ frames = [i \in 1 .. taken |-> [frame EXCEPT !.part = i]]
    BY DEF Taken, Parts
  <1>10. refused = {i \in 1 .. frame.parts : ~Sends(s, [frame EXCEPT !.part = i])}
    BY DEF Refused
  <1>2. refused \in SUBSET Nat /\ refused \subseteq 1 .. frame.parts
    BY <1>1, <1>10
  <1>3. refused # {} => Min(refused) \in refused /\ \A y \in refused : Min(refused) <= y
    <2> SUFFICES ASSUME refused # {} 
                 PROVE  Min(refused) \in refused /\ \A y \in refused : Min(refused) <= y
      OBVIOUS
    <2> QED
      BY ONLY <1>2, refused # {}, Smallest
  <1>4. taken \in 0 .. frame.parts
    <2>1. CASE refused = {}
      BY <2>1, <1>1, <1>9
    <2>2. CASE refused # {}
      <3>1. PICK m \in Nat : m = Min(refused)
        BY <1>2, <1>3, <2>2
      <3>2. m \in 1 .. frame.parts /\ taken = m - 1
        BY <1>2, <1>3, <1>9, <2>2, <3>1
      <3> QED
        BY <1>1, <3>2
    <2> QED
      BY <2>1, <2>2
  <1>5. \A i \in 1 .. taken : [frame EXCEPT !.part = i] \in Frames
    BY <1>1, <1>4 DEF Frames
  <1>6. frames \in Seq(Frames) /\ DOMAIN frames = 1 .. taken /\ Len(frames) = taken
    <2>1. frames \in [1 .. taken -> Frames] /\ taken \in Nat
      BY <1>1, <1>4, <1>5, <1>9
    <2> QED
      BY ONLY <2>1, FunctionSeq
  <1>7. \A i \in DOMAIN frames : /\ frames[i].id = frame.id /\ frames[i].op = frame.op
                                 /\ frames[i].part = i
    BY <1>6, <1>9 DEF Frames
  <1>8. frames # <<>> => Sends(s, frames[1])
    <2> SUFFICES ASSUME frames # <<>> PROVE Sends(s, frames[1])
      OBVIOUS
    <2>1. taken >= 1
      <3>1. Len(frames) # 0
        BY <1>6, EmptySeq
      <3> QED
        BY ONLY <1>4, <1>6, <3>1, <1>1
    <2>2. 1 \notin refused
      <3> SUFFICES ASSUME 1 \in refused PROVE FALSE
        OBVIOUS
      <3>1. PICK m \in Nat : m = Min(refused) /\ m <= 1
        BY <1>2, <1>3
      <3>2. taken = m - 1
        BY <3>1, <1>9
      <3> QED
        BY <3>1, <3>2, <2>1
    <2>3. frames[1] = [frame EXCEPT !.part = 1] /\ 1 \in 1 .. frame.parts
      BY <1>1, <1>4, <1>9, <2>1
    <2> QED
      BY <2>2, <2>3, <1>10
  <1> QED
    BY <1>4, <1>6, <1>7, <1>8

LEMMA SendPartsSound ==
    ASSUME NEW s, NEW read, NEW k, Sound(s, read, k), Drained(s),
           NEW frame \in Frames, frame.id = k + 1
    PROVE  /\ Sound(SendParts(s, frame), read, k + 1)
           /\ Called(s, SendParts(s, frame)) /\ Drained(SendParts(s, frame))
  <1> DEFINE n == k + 1
             refused == Refused(s, frame)
             taken   == Taken(s, frame)
             frames  == Parts(s, frame)
             t == SendFrames(s, frames)
             o == Append(t.outcome, IF refused = {} THEN "done" ELSE "refused")
  <1>1. n \in Nat /\ k <= n /\ k < n /\ frame.id = n /\ k \in Nat
    BY DEF Sound
  <1>3. SendParts(s, frame) = [t EXCEPT !.outcome = o]
    <2>1. SendParts(s, frame)
            = [t EXCEPT !.outcome = Append(@, IF refused = {} THEN "done" ELSE "refused")]
      BY DEF SendParts, Parts, Taken, Refused
    <2> HIDE DEF t, refused
    <2> QED
      BY <2>1
  <1>9. (IF refused = {} THEN "done" ELSE "refused") \in Outcomes
    BY DEF Outcomes
  <1> HIDE DEF n
  <1>2. /\ frames \in Seq(Frames) /\ DOMAIN frames = 1 .. taken /\ taken \in 0 .. frame.parts
        /\ \A i \in DOMAIN frames : frames[i].id = frame.id /\ frames[i].part = i
        /\ frames # <<>> => Sends(s, frames[1])
    BY PartsTaken
  <1> HIDE DEF frames, taken, refused
  <1>4. New(frames, k, n)
    <2>1. InOrder(frames)
      BY <1>1, <1>2 DEF InOrder, Before
    <2> QED
      BY <1>1, <1>2, <2>1 DEF New
  <1>5. frames # <<>> =>
            /\ s.channel.state # "closed"
            /\ \/ Waiting(s.channel)
               \/ s.channel.state = "closing"
               \/ s.connection.state \notin {"closing", "closed"}
    BY <1>2 DEF Sends, Accepts
  <1>6. /\ Sound(t, read, n) /\ Keeps(s, t) /\ SameChannel(s, t) /\ Drained(t)
    BY <1>1, <1>2, <1>4, <1>5, SendFramesSound
  <1> HIDE DEF t
  <1>7. o \in Seq(Outcomes) /\ Len(o) = Len(t.outcome) + 1
    BY <1>6, <1>9 DEF Sound, States
  <1> HIDE DEF o
  <1>8. /\ Sound([t EXCEPT !.outcome = o], read, n)
        /\ [t EXCEPT !.outcome = o].channel = t.channel
        /\ [t EXCEPT !.outcome = o].connection = t.connection
        /\ [t EXCEPT !.outcome = o].outcome = o
        /\ [t EXCEPT !.outcome = o].delivered = t.delivered
    BY <1>6, <1>7, OutcomeSound
  <1> QED
    BY <1>3, <1>6, <1>7, <1>8 DEF Keeps, SameChannel, Called, Drained, n

LEMMA PerformSound ==
    ASSUME NEW s, NEW read, NEW k, Sound(s, read, k), Drained(s),
           NEW frame \in Frames, frame.id = k + 1,
           Len(s.outcome) + 1 <= MaxCalls + 2
    PROVE  /\ Sound(Perform(s, frame), read, k + 1)
           /\ Called(s, Perform(s, frame)) /\ Drained(Perform(s, frame))
  <1>1. CASE frame.op \in Unanswered
    BY <1>1, SendPartsSound DEF Perform, Unanswered
  <1>2. CASE frame.op \notin Unanswered /\ frame.op = "close"
    BY <1>2, CloseChannelSound DEF Perform
  <1>3. CASE frame.op \notin Unanswered /\ frame.op # "close"
    BY <1>3, RequestSound DEF Perform
  <1> QED
    BY <1>1, <1>2, <1>3

LEMMA OperationNames ==
    {"open", "close", "get", "publish", "recover", "rejectMultiple"} \subseteq DOMAIN RequestFrame
  <1>1. /\ {"open", "close"} \subseteq DOMAIN ChannelRequests
        /\ {"get", "publish", "recover", "rejectMultiple"} \subseteq DOMAIN MessageRequests
    BY DEF ChannelRequests, MessageRequests
  <1> QED
    BY <1>1 DEF RequestFrame

\* close() of the connection: the call of close() that comes with it is counted.
LEMMA CloseConnectionSound ==
    ASSUME NEW s, NEW read, Sound(s, read, Len(s.outcome)), Drained(s),
           Len(s.outcome) <= MaxCalls + (IF s.connection.closeCalled THEN 2 ELSE 1)
    PROVE  LET t == CloseConnection(s)
           IN  /\ Sound(t, read, Len(t.outcome)) /\ Drained(t)
               /\ t.channel.receiver = s.channel.receiver
               /\ t.channel.linked = s.channel.linked
               /\ t.channel.consuming = s.channel.consuming
               /\ t.delivered = s.delivered
               /\ \/ Len(t.outcome) = Len(s.outcome)
                  \/ Len(t.outcome) = Len(s.outcome) + 1 /\ s.channel.linked
               /\ Len(t.outcome) <= MaxCalls + (IF t.connection.closeCalled THEN 2 ELSE 1)
               /\ s.channel.state = "closed" <=> t.channel.state = "closed"
  <1> DEFINE k == Len(s.outcome)
             frame == FrameOfCall("close", k + 1, 1, 1)
             con   == [s.connection EXCEPT !.closeCalled = TRUE]
             told  == [s EXCEPT !.connection = con]
             closed == IF s.channel.linked THEN CloseChannel(told, frame) ELSE told
             t == CloseConnection(s)
  <1>1. CASE s.connection.closeCalled \/ s.connection.state = "closed"
    <2>1. t = s
      BY <1>1 DEF CloseConnection
    <2> QED
      BY <2>1
  <1>2. CASE ~(s.connection.closeCalled \/ s.connection.state = "closed")
    <2>1. k \in Nat /\ s \in States /\ s.connection \in Connections
      BY DEF Sound, States
    <2>2. t = SendCloseWhenIdle(closed)
      BY <1>2 DEF CloseConnection
    <2>3. k <= MaxCalls + 1
      BY <1>2
    <2>4. frame \in Frames /\ frame.id = k + 1
      BY <2>1, <2>3, OperationNames, ChannelAssumption DEF Frames, FrameOfCall
    <2>5. /\ con \in Connections /\ con.queue = s.connection.queue /\ con.closeCalled
          /\ con.state = s.connection.state
      BY <2>1 DEF Connections
    <2> HIDE DEF con
    <2>6. /\ Sound(told, read, k) /\ told.channel = s.channel /\ told.outcome = s.outcome
          /\ told.delivered = s.delivered /\ told.connection = con
      <3>1. con.state \in {"connected", "closing", "closed"} => con.queue = <<>>
        BY <2>5 DEF Sound
      <3> QED
        BY <2>5, <3>1, ConnectionSound
    <2>7. Drained(told) /\ Len(told.outcome) = k
      BY <2>6 DEF Drained
    <2> HIDE DEF k, frame, told
    <2>8. CASE s.channel.linked
      <3> DEFINE u == CloseChannel(told, frame)
      <3>1. closed = u
        BY <2>8
      <3>2. Sound(u, read, k + 1) /\ Called(told, u) /\ Drained(u)
        <4>1. Len(told.outcome) + 1 <= MaxCalls + 2
          BY <2>1, <2>3, <2>7, ChannelAssumption
        <4> QED
          BY <2>4, <2>6, <2>7, <4>1, CloseChannelSound
      <3>3. Len(u.outcome) = k + 1
        BY <3>2, <2>7 DEF Called
      <3> HIDE DEF u
      <3>4. /\ Sound(t, read, k + 1) /\ Keeps(u, t) /\ t.channel = u.channel
            /\ t.outcome = u.outcome
        BY <2>2, <3>1, <3>2, CloseWhenIdleSound
      <3>5. t.connection.closeCalled
        BY <2>5, <2>6, <3>2, <3>4 DEF Keeps, Called
      <3>6. Len(t.outcome) = k + 1 /\ k + 1 <= MaxCalls + 2
        BY <2>1, <2>3, <3>3, <3>4, ChannelAssumption
      <3> HIDE DEF t
      <3> QED
        BY <2>6, <2>8, <3>2, <3>4, <3>5, <3>6 DEF Keeps, Called, Drained, t, k
    <2>9. CASE ~s.channel.linked
      <3>1. closed = told
        BY <2>9
      <3>2. /\ Sound(t, read, k) /\ Keeps(told, t) /\ t.channel = told.channel
            /\ t.outcome = told.outcome
        BY <2>2, <2>6, <3>1, CloseWhenIdleSound
      <3>3. t.connection.closeCalled
        BY <2>5, <2>6, <3>2 DEF Keeps
      <3>4. Len(t.outcome) = k /\ k <= MaxCalls + 2
        BY <2>1, <2>3, <2>7, <3>2, ChannelAssumption
      <3> HIDE DEF t
      <3> QED
        BY <2>6, <2>7, <3>2, <3>3, <3>4 DEF Keeps, Drained, t, k
    <2> QED
      BY <2>8, <2>9
  <1> QED
    BY <1>1, <1>2

-----------------------------------------------------------------------------
(***************************************************************************)
(* What the broker sends keeps a state sound.                              *)
(***************************************************************************)
LEMMA ResolveSound ==
    ASSUME NEW s, NEW read, NEW n, Sound(s, read, n), NEW id, NEW result \in Outcomes
    PROVE  LET t == Resolve(s, id, result)
           IN  /\ Sound(t, read, n)
               /\ t.channel = s.channel /\ t.connection = s.connection
               /\ t.toBroker = s.toBroker /\ t.delivered = s.delivered
               /\ Len(t.outcome) = Len(s.outcome)
  <1> DEFINE e == IF s.outcome[id] = "refused" THEN s.outcome[id] ELSE result
             o == [s.outcome EXCEPT ![id] = e]
  <1>1. s \in States /\ s.outcome \in Seq(Outcomes)
    BY DEF Sound, States
  <1>2. Resolve(s, id, result) = [s EXCEPT !.outcome = o]
    <2>1. CASE s.outcome[id] = "refused"
      BY <2>1 DEF Resolve
    <2>2. CASE s.outcome[id] # "refused"
      BY <2>2 DEF Resolve
    <2> QED
      BY <2>1, <2>2
  <1>3. o \in Seq(Outcomes) /\ Len(o) = Len(s.outcome)
    <2>1. CASE id \in 1 .. Len(s.outcome)
      <3>1. e \in Outcomes
        BY <1>1, <2>1, ElementOfSeq
      <3> HIDE DEF e
      <3> QED
        BY <1>1, <2>1, <3>1, ExceptSeq
    <2>2. CASE id \notin 1 .. Len(s.outcome)
      <3> HIDE DEF e
      <3>1. o = s.outcome
        BY <1>1, <2>2
      <3> QED
        BY <1>1, <3>1
    <2> QED
      BY <2>1, <2>2
  <1> HIDE DEF o
  <1> QED
    BY <1>2, <1>3, OutcomeSound

\* The channel that an answer leads to, apart from what is sent: a consumer, or a
\* message that is expected.
Installs(s, t, answer) ==
    /\ t.connection = s.connection /\ t.toBroker = s.toBroker
    /\ t.outcome = s.outcome /\ t.delivered = s.delivered
    /\ t.channel.state = s.channel.state /\ t.channel.queue = s.channel.queue
    /\ t.channel.linked = s.channel.linked
    /\ t.channel.synchronous = s.channel.synchronous
    /\ \/ t.channel.receiver = s.channel.receiver
       \/ answer.is = "getOK" /\ t.channel.receiver = Receiver(answer.id, TRUE)

LEMMA AnswerEffectSound ==
    ASSUME NEW s, NEW read, NEW n, Sound(s, read, n), NEW op, NEW answer,
           answer.is = "getOK" => answer.id \in 1 .. MaxMessages
    PROVE  /\ Sound(AnswerEffect(s, op, answer), read, n)
           /\ Installs(s, AnswerEffect(s, op, answer), answer)
  <1> DEFINE t == AnswerEffect(s, op, answer)
  <1>1. s \in States /\ s.channel \in Channels
    BY DEF Sound, States
  <1>2. ASSUME NEW b \in BOOLEAN, t = [s EXCEPT !.channel.consuming = b]
        PROVE  Sound(t, read, n) /\ Installs(s, t, answer)
    <2> DEFINE ch == [s.channel EXCEPT !.consuming = b]
    <2>1. t = [s EXCEPT !.channel = ch]
      BY <1>1, <1>2
    <2>2. /\ ch \in Channels /\ ch.state = s.channel.state /\ ch.queue = s.channel.queue
          /\ ch.linked = s.channel.linked /\ ch.synchronous = s.channel.synchronous
          /\ ch.receiver = s.channel.receiver
      BY <1>1 DEF Channels
    <2> HIDE DEF ch, t
    <2> QED
      BY <2>1, <2>2, ChannelSound DEF Installs
  <1>3. CASE op = "get" /\ answer.is = "getOK"
    <2> DEFINE r  == Receiver(answer.id, TRUE)
               ch == [s.channel EXCEPT !.receiver = r]
    <2>1. r \in Receivers
      BY <1>3, ChannelAssumption, EmptySeq DEF Receiver, Receivers, Sizes
    <2>2. t = [s EXCEPT !.channel = ch]
      BY <1>1, <1>3 DEF AnswerEffect, InstallGet
    <2> HIDE DEF r
    <2>3. /\ ch \in Channels /\ ch.state = s.channel.state /\ ch.queue = s.channel.queue
          /\ ch.linked = s.channel.linked /\ ch.synchronous = s.channel.synchronous
          /\ ch.receiver = r
      BY <1>1, <2>1 DEF Channels
    <2> HIDE DEF ch, t
    <2>4. /\ Sound(t, read, n)
          /\ t.channel = ch /\ t.connection = s.connection /\ t.toBroker = s.toBroker
          /\ t.outcome = s.outcome /\ t.delivered = s.delivered
      BY <2>2, <2>3, ChannelSound
    <2> QED
      BY <1>3, <2>3, <2>4 DEF r, t, Installs
  <1>4. CASE ~(op = "get" /\ answer.is = "getOK")
    <2>1. t = s \/ \E b \in BOOLEAN : t = [s EXCEPT !.channel.consuming = b]
      BY <1>4 DEF AnswerEffect, InstallConsumer, UninstallConsumer
    <2> HIDE DEF t
    <2> QED
      BY <1>2, <2>1 DEF t, Installs
  <1> QED
    BY <1>3, <1>4

\* What an answer leaves alone.
Answers(s, t, answer) ==
    /\ t.connection = s.connection
    /\ t.delivered = s.delivered
    /\ Len(t.outcome) = Len(s.outcome)
    /\ t.channel.state = s.channel.state
    /\ t.channel.linked = s.channel.linked
    /\ \/ t.channel.receiver = s.channel.receiver
       \/ answer.is = "getOK" /\ t.channel.receiver = Receiver(answer.id, TRUE)

LEMMA ReportSuccessSound ==
    ASSUME NEW s, NEW read, NEW n, Sound(s, read, n), NEW answer,
           answer.is = "getOK" => answer.id \in 1 .. MaxMessages
    PROVE  /\ Sound(ReportSuccess(s, answer), read, n)
           /\ Answers(s, ReportSuccess(s, answer), answer)
           /\ Drained(s) => Drained(ReportSuccess(s, answer))
           /\ s.channel.chain # <<>> =>
                 /\ ReportSuccess(s, answer).channel.synchronous = Flush(s).channel.synchronous
                 /\ ReportSuccess(s, answer).toBroker = Flush(s).toBroker
                 /\ ReportSuccess(s, answer).connection = Flush(s).connection
           /\ s.channel.chain = <<>> => ReportSuccess(s, answer) = s
  <1>1. CASE s.channel.chain = <<>>
    BY <1>1 DEF ReportSuccess, Answers
  <1>2. CASE s.channel.chain # <<>>
    <2> DEFINE t  == Flush(s)
               ch == [t.channel EXCEPT !.chain = Tail(t.channel.chain)]
               u  == [t EXCEPT !.channel = ch]
               id == Head(s.channel.chain)
               op == calls[id]
               v  == AnswerEffect(u, op, answer)
               w  == Resolve(v, id, "success")
    <2>1. /\ Sound(t, read, n) /\ Keeps(s, t) /\ SameChannel(s, t)
          /\ Drained(s) => Drained(t)
      BY FlushSound
    <2>10. t.connection = s.connection
      BY FlushCases DEF Sound
    <2>2. t \in States /\ t.channel \in Channels /\ t.channel.chain # <<>>
      BY <1>2, <2>1 DEF Sound, States, SameChannel
    <2>3. ReportSuccess(s, answer) = w
      BY <1>2, <2>2 DEF ReportSuccess, States
    <2> HIDE DEF t
    <2>4. Tail(t.channel.chain) \in Seq(1 .. MaxCalls + 2)
      BY <2>2, HeadTailProperties DEF Channels
    <2>5. /\ ch \in Channels /\ ch.state = t.channel.state /\ ch.queue = t.channel.queue
          /\ ch.linked = t.channel.linked /\ ch.synchronous = t.channel.synchronous
          /\ ch.receiver = t.channel.receiver
      BY <2>2, <2>4 DEF Channels
    <2> HIDE DEF ch, id, op
    <2>6. /\ Sound(u, read, n) /\ u.channel = ch /\ u.connection = t.connection
          /\ u.toBroker = t.toBroker /\ u.outcome = t.outcome /\ u.delivered = t.delivered
      BY <2>1, <2>5, ChannelSound
    <2> HIDE DEF u
    <2>7. /\ Sound(v, read, n)
          /\ v.connection = u.connection /\ v.toBroker = u.toBroker
          /\ v.outcome = u.outcome /\ v.delivered = u.delivered
          /\ v.channel.state = u.channel.state /\ v.channel.queue = u.channel.queue
          /\ v.channel.linked = u.channel.linked
          /\ v.channel.synchronous = u.channel.synchronous
          /\ \/ v.channel.receiver = u.channel.receiver
             \/ answer.is = "getOK" /\ v.channel.receiver = Receiver(answer.id, TRUE)
      <3>1. Sound(v, read, n) /\ Installs(u, v, answer)
        BY <2>6, AnswerEffectSound
      <3> HIDE DEF v
      <3> QED
        BY <3>1 DEF Installs
    <2> HIDE DEF v
    <2>8. /\ Sound(w, read, n)
          /\ w.channel = v.channel /\ w.connection = v.connection
          /\ w.toBroker = v.toBroker /\ w.delivered = v.delivered
          /\ Len(w.outcome) = Len(v.outcome)
      <3>1. "success" \in Outcomes
        BY DEF Outcomes
      <3> QED
        BY <2>7, <3>1, ResolveSound
    <2> HIDE DEF w
    <2>9. Answers(s, w, answer)
      BY <2>1, <2>5, <2>6, <2>7, <2>8, <2>10 DEF Answers, Keeps, SameChannel
    <2>11. Drained(s) => Drained(w)
      BY <2>1, <2>5, <2>6, <2>7, <2>8 DEF Drained
    <2> QED
      BY <1>2, <2>3, <2>5, <2>6, <2>7, <2>8, <2>9, <2>11 DEF t
  <1> QED
    BY <1>1, <1>2

\* A channel that has failed is closed and holds nothing.
LEMMA ReportErrorSound ==
    ASSUME NEW s, NEW read, NEW n, Sound(s, read, n)
    PROVE  LET t == ReportError(s)
           IN  /\ Sound(t, read, n) /\ Drained(t)
               /\ t.connection = s.connection /\ t.delivered = s.delivered
               /\ Len(t.outcome) = Len(s.outcome)
               /\ t.channel.state = "closed" /\ ~t.channel.linked
               /\ t.channel.receiver = s.channel.receiver
  <1> DEFINE o == [id \in DOMAIN s.outcome |->
                     IF /\ s.outcome[id] # "refused"
                        /\ \E i \in DOMAIN s.channel.chain : s.channel.chain[i] = id
                     THEN "error" ELSE s.outcome[id]]
             ch == [s.channel EXCEPT !.state = "closed", !.synchronous = FALSE, !.queue = <<>>,
                                     !.chain = <<>>, !.linked = FALSE]
             u == [s EXCEPT !.channel = ch]
  <1>1. s \in States /\ s.channel \in Channels /\ s.outcome \in Seq(Outcomes)
    BY DEF Sound, States
  <1>2. ReportError(s) = [u EXCEPT !.outcome = o]
    <2>1. ReportError(s) = [s EXCEPT !.channel.state = "closed",
                                     !.channel.synchronous = FALSE,
                                     !.channel.queue = <<>>,
                                     !.channel.chain = <<>>,
                                     !.channel.linked = FALSE,
                                     !.outcome = o]
      BY <1>1 DEF ReportError, States
    <2> HIDE DEF o
    <2> QED
      BY <1>1, <2>1 DEF States, Channels
  <1>3. o \in Seq(Outcomes) /\ Len(o) = Len(s.outcome)
    <2>1. Len(s.outcome) \in Nat /\ DOMAIN s.outcome = 1 .. Len(s.outcome)
          /\ \A i \in 1 .. Len(s.outcome) : s.outcome[i] \in Outcomes
      BY <1>1, LenProperties, ElementOfSeq
    <2>2. o \in [1 .. Len(s.outcome) -> Outcomes]
      BY <2>1 DEF Outcomes
    <2> HIDE DEF o
    <2> QED
      BY ONLY <2>1, <2>2, FunctionSeq
  <1> HIDE DEF o
  <1>4. /\ ch \in Channels /\ ch.queue = <<>> /\ ch.state = "closed" /\ ~ch.linked
        /\ ch.receiver = s.channel.receiver
    BY <1>1, EmptySeq DEF Channels
  <1> HIDE DEF ch
  <1>5. /\ Sound(u, read, n) /\ u.channel = ch /\ u.connection = s.connection
        /\ u.outcome = s.outcome /\ u.delivered = s.delivered
    BY <1>4, ChannelSound
  <1> HIDE DEF u
  <1>6. /\ Sound([u EXCEPT !.outcome = o], read, n)
        /\ [u EXCEPT !.outcome = o].channel = u.channel
        /\ [u EXCEPT !.outcome = o].connection = u.connection
        /\ [u EXCEPT !.outcome = o].outcome = o
        /\ [u EXCEPT !.outcome = o].delivered = u.delivered
    BY <1>3, <1>5, OutcomeSound
  <1> QED
    BY <1>2, <1>3, <1>4, <1>5, <1>6 DEF Drained

LEMMA ReceiverSound ==
    ASSUME NEW s, NEW read, NEW n, Sound(s, read, n), NEW r \in Receivers
    PROVE  LET t == [s EXCEPT !.channel = [s.channel EXCEPT !.receiver = r]]
           IN  /\ Sound(t, read, n)
               /\ t.connection = s.connection /\ t.toBroker = s.toBroker
               /\ t.outcome = s.outcome /\ t.delivered = s.delivered
               /\ t.channel.state = s.channel.state /\ t.channel.queue = s.channel.queue
               /\ t.channel.linked = s.channel.linked
               /\ t.channel.synchronous = s.channel.synchronous
               /\ t.channel.receiver = r
  <1> DEFINE ch == [s.channel EXCEPT !.receiver = r]
  <1>1. s.channel \in Channels
    BY DEF Sound, States
  <1>2. /\ ch \in Channels /\ ch.state = s.channel.state /\ ch.queue = s.channel.queue
        /\ ch.linked = s.channel.linked /\ ch.synchronous = s.channel.synchronous
        /\ ch.receiver = r
    BY <1>1 DEF Channels
  <1> HIDE DEF ch
  <1>3. /\ Sound([s EXCEPT !.channel = ch], read, n)
        /\ [s EXCEPT !.channel = ch].channel = ch
        /\ [s EXCEPT !.channel = ch].connection = s.connection
        /\ [s EXCEPT !.channel = ch].toBroker = s.toBroker
        /\ [s EXCEPT !.channel = ch].outcome = s.outcome
        /\ [s EXCEPT !.channel = ch].delivered = s.delivered
    BY <1>2, ChannelSound
  <1> QED
    BY <1>2, <1>3 DEF ch

LEMMA DeliveredSound ==
    ASSUME NEW s, NEW read, NEW n, Sound(s, read, n), NEW d \in Seq(Deliveries)
    PROVE  /\ Sound([s EXCEPT !.delivered = d], read, n)
           /\ [s EXCEPT !.delivered = d].channel = s.channel
           /\ [s EXCEPT !.delivered = d].connection = s.connection
           /\ [s EXCEPT !.delivered = d].toBroker = s.toBroker
           /\ [s EXCEPT !.delivered = d].outcome = s.outcome
           /\ [s EXCEPT !.delivered = d].delivered = d
  <1> DEFINE t == [s EXCEPT !.delivered = d]
  <1>1. /\ t \in States /\ t.channel = s.channel /\ t.connection = s.connection
        /\ t.toBroker = s.toBroker /\ t.outcome = s.outcome /\ t.delivered = d
    BY DEF Sound, States
  <1> HIDE DEF t
  <1>2. Sound(t, read, n)
    BY <1>1 DEF Sound
  <1> QED
    BY <1>1, <1>2 DEF t

\* What remains as it is, and whether the queue was flushed.
Remains(s, t) ==
    /\ t.connection = s.connection
    /\ Len(t.outcome) = Len(s.outcome)
    /\ t.channel.state = s.channel.state
    /\ t.channel.linked = s.channel.linked

Unsent(s, t) ==
    /\ t.toBroker = s.toBroker
    /\ t.channel.synchronous = s.channel.synchronous

Flushed(s, t) ==
    /\ t.toBroker = Flush(s).toBroker
    /\ t.channel.synchronous = Flush(s).channel.synchronous

Gives(r) == [tag |-> r.tag, size |-> r.size, got |-> r.got]

LEMMA CompleteSound ==
    ASSUME NEW s, NEW read, NEW n, Sound(s, read, n), s.channel.receiver.tag \in 1 .. MaxMessages
    PROVE  /\ Sound(Complete(s), read, n)
           /\ Drained(s) => Drained(Complete(s))
           /\ Remains(s, Complete(s))
           /\ IF s.channel.receiver.get THEN Flushed(s, Complete(s)) ELSE Unsent(s, Complete(s))
           /\ Complete(s).channel.receiver = NoReceiver
           /\ Complete(s).delivered = Append(s.delivered, Gives(s.channel.receiver))
  <1> DEFINE r == s.channel.receiver
             u == IF r.get THEN Flush(s) ELSE s
             v == [u EXCEPT !.channel = [u.channel EXCEPT !.receiver = NoReceiver]]
             d == Append(v.delivered, Gives(r))
             t == [v EXCEPT !.delivered = d]
  <1>1. r \in Receivers
    BY DEF Sound, States, Channels
  <1>2. Flush(s).connection = s.connection
    BY FlushCases DEF Sound
  <1>3. /\ Sound(Flush(s), read, n) /\ Keeps(s, Flush(s)) /\ SameChannel(s, Flush(s))
        /\ Drained(s) => Drained(Flush(s))
    BY FlushSound
  <1>4. /\ Sound(u, read, n) /\ Remains(s, u) /\ u.delivered = s.delivered
        /\ Drained(s) => Drained(u)
        /\ IF r.get THEN Flushed(s, u) ELSE Unsent(s, u)
    BY <1>2, <1>3 DEF Keeps, SameChannel, Remains, Flushed, Unsent
  <1>5. NoReceiver \in Receivers
    BY ChannelAssumption, EmptySeq DEF NoReceiver, Receiver, Receivers, Sizes
  <1>6. u \in States /\ u.channel \in Channels
    BY <1>4 DEF Sound, States
  <1>7. Complete(s) = t
    <2>1. Complete(s) = [u EXCEPT !.channel.receiver = NoReceiver,
                                  !.delivered = Append(@, Gives(r))]
      BY DEF Complete, Gives
    <2> HIDE DEF u, r
    <2> QED
      BY <1>6, <2>1 DEF States
  <1> HIDE DEF u
  <1>8. /\ Sound(v, read, n)
        /\ v.connection = u.connection /\ v.toBroker = u.toBroker
        /\ v.outcome = u.outcome /\ v.delivered = u.delivered
        /\ v.channel.state = u.channel.state /\ v.channel.queue = u.channel.queue
        /\ v.channel.linked = u.channel.linked
        /\ v.channel.synchronous = u.channel.synchronous
        /\ v.channel.receiver = NoReceiver
    BY <1>4, <1>5, ReceiverSound
  <1> HIDE DEF v
  <1>9. d \in Seq(Deliveries)
    <2>1. v.delivered \in Seq(Deliveries)
      BY <1>8 DEF Sound, States
    <2>2. Gives(r) \in Deliveries
      BY <1>1 DEF Gives, Receivers, Deliveries
    <2> HIDE DEF r
    <2> QED
      BY <2>1, <2>2
  <1>10. d = Append(s.delivered, Gives(r))
    BY <1>4, <1>8
  <1> HIDE DEF d
  <1>11. /\ Sound(t, read, n)
         /\ t.channel = v.channel /\ t.connection = v.connection /\ t.toBroker = v.toBroker
         /\ t.outcome = v.outcome /\ t.delivered = d
    BY <1>8, <1>9, DeliveredSound
  <1> HIDE DEF t
  <1>12. Remains(s, t) /\ (IF r.get THEN Flushed(s, t) ELSE Unsent(s, t))
    BY <1>4, <1>8, <1>11 DEF Remains, Flushed, Unsent
  <1>13. Drained(s) => Drained(t)
    BY <1>4, <1>8, <1>11 DEF Drained
  <1> QED
    BY <1>7, <1>8, <1>10, <1>11, <1>12, <1>13

-----------------------------------------------------------------------------
(***************************************************************************)
(* Messages.  What happens to the receiver when the first frame of q is    *)
(* read: nothing; a message starts; it goes on; it is complete.            *)
(***************************************************************************)
Ignores(s, t, q) ==
    /\ t.delivered = s.delivered
    /\ t.channel.receiver = s.channel.receiver
    /\ t.channel.linked => s.channel.receiver = NoReceiver

Starts(s, t, q) ==
    /\ t.delivered = s.delivered
    /\ s.channel.receiver = NoReceiver
    /\ t.channel.receiver.tag = Head(q).id /\ Opens(Head(q))
    /\ Receiving(t.channel.receiver, Tail(q))

Continues(s, t, q) ==
    /\ t.delivered = s.delivered
    /\ s.channel.receiver # NoReceiver
    /\ t.channel.receiver.tag = s.channel.receiver.tag
    /\ Receiving(t.channel.receiver, Tail(q))

Finishes(s, t, q) ==
    /\ s.channel.receiver # NoReceiver
    /\ t.channel.receiver = NoReceiver
    /\ \E d \in Deliveries : /\ t.delivered = Append(s.delivered, d)
                             /\ Whole(d) /\ d.tag = s.channel.receiver.tag

Receives(s, t, q) ==
    \/ Ignores(s, t, q)
    \/ s.channel.linked /\ (Starts(s, t, q) \/ Continues(s, t, q) \/ Finishes(s, t, q))

\* The first frame is taken off.
LEMMA Shifted ==
    ASSUME NEW T, NEW q \in Seq(T), q # <<>>
    PROVE  /\ Head(q) \in T /\ Head(q) = q[1] /\ 1 \in DOMAIN q
           /\ Tail(q) \in Seq(T)
           /\ \A i \in DOMAIN Tail(q) : i \in Nat /\ i + 1 \in DOMAIN q /\ Tail(q)[i] = q[i + 1]
           /\ \A i \in DOMAIN q : i # 1 => i - 1 \in DOMAIN Tail(q) /\ Tail(q)[i - 1] = q[i]
           /\ DOMAIN q \subseteq Nat \ {0} /\ DOMAIN Tail(q) \subseteq Nat \ {0}
  <1>1. Len(q) \in Nat \ {0} /\ DOMAIN q = 1 .. Len(q)
    BY EmptySeq
  <1>2. /\ Head(q) \in T /\ Tail(q) \in Seq(T) /\ Len(Tail(q)) = Len(q) - 1
        /\ \A i \in 1 .. Len(Tail(q)) : Tail(q)[i] = q[i + 1]
    BY HeadTailProperties
  <1>3. DOMAIN Tail(q) = 1 .. (Len(q) - 1)
    BY <1>2, LenProperties
  <1>4. Head(q) = q[1]
    BY <1>1
  <1>5. \A i \in DOMAIN Tail(q) : i \in Nat /\ i + 1 \in DOMAIN q /\ Tail(q)[i] = q[i + 1]
    BY <1>1, <1>2, <1>3
  <1>6. ASSUME NEW i \in DOMAIN q, i # 1
        PROVE  i - 1 \in DOMAIN Tail(q) /\ Tail(q)[i - 1] = q[i]
    <2>1. i - 1 \in 1 .. (Len(q) - 1) /\ (i - 1) + 1 = i
      BY <1>1, <1>6
    <2> QED
      BY <1>2, <1>3, <2>1
  <1> QED
    BY <1>1, <1>2, <1>3, <1>4, <1>5, <1>6

LEMMA InPiecesLater ==
    ASSUME NEW q \in Seq(FramesToClient), q # <<>>, InPieces(q)
    PROVE  InPieces(Tail(q))
  <1> DEFINE p == Tail(q)
  <1>1. /\ \A i \in DOMAIN p : i \in Nat /\ i + 1 \in DOMAIN q /\ p[i] = q[i + 1]
        /\ \A i \in DOMAIN q : i # 1 => i - 1 \in DOMAIN p /\ p[i - 1] = q[i]
        /\ DOMAIN q \subseteq Nat \ {0} /\ DOMAIN p \subseteq Nat \ {0}
        /\ p \in Seq(FramesToClient)
    BY Shifted
  <1> HIDE DEF p
  <1>2. ASSUME NEW i \in DOMAIN p, Opens(p[i])
        PROVE  /\ p[i].id \in 1 .. MaxMessages
               /\ i + 1 \in DOMAIN p
               /\ p[i + 1].is = "header" /\ p[i + 1].id = p[i].id
    <2>1. /\ i \in Nat /\ i + 1 \in DOMAIN q /\ p[i] = q[i + 1] /\ i # 0
      BY <1>1
    <2>2. /\ q[i + 1].id \in 1 .. MaxMessages
          /\ (i + 1) + 1 \in DOMAIN q
          /\ q[(i + 1) + 1].is = "header" /\ q[(i + 1) + 1].id = q[i + 1].id
      BY <1>2, <2>1 DEF InPieces
    <2>3. ((i + 1) + 1) - 1 = i + 1 /\ (i + 1) + 1 # 1
      BY <2>1
    <2>4. i + 1 \in DOMAIN p /\ p[i + 1] = q[(i + 1) + 1]
      BY <1>1, <2>2, <2>3
    <2> QED
      BY <2>1, <2>2, <2>4
  <1>3. ASSUME NEW i \in DOMAIN p, p[i].is = "header", NEW n \in 1 .. p[i].n
        PROVE  i + n \in DOMAIN p /\ p[i + n] = Body(p[i].id, n)
    <2>1. i \in Nat /\ i + 1 \in DOMAIN q /\ p[i] = q[i + 1] /\ i # 0
      BY <1>1
    <2>2. (i + 1) + n \in DOMAIN q /\ q[(i + 1) + n] = Body(p[i].id, n)
      BY <1>3, <2>1 DEF InPieces
    <2>3. n \in Nat /\ n >= 1
      <3>1. p[i] \in FramesToClient
        BY <1>1, ElementOfSeq, LenProperties
      <3>2. p[i].n \in Nat
        BY <3>1, ChannelAssumption DEF FramesToClient
      <3> QED
        BY <3>2
    <2>4. ((i + 1) + n) - 1 = i + n /\ (i + 1) + n # 1
      BY <2>1, <2>3
    <2> QED
      BY <1>1, <2>2, <2>4
  <1> QED
    BY <1>2, <1>3 DEF InPieces, p

\* A receiver that has been told of r.left body frames more; it gives the message
\* away when there are none.
LEMMA ReceiveSound ==
    ASSUME NEW s, NEW read, NEW n, Sound(s, read, n),
           NEW r \in Receivers, r.tag \in 1 .. MaxMessages,
           NEW t, t = CompleteIfWhole([s EXCEPT !.channel = [s.channel EXCEPT !.receiver = r]])
    PROVE  /\ Sound(t, read, n)
           /\ Drained(s) => Drained(t)
           /\ Remains(s, t)
           /\ \/ /\ r.left # 0 /\ t.channel.receiver = r /\ t.delivered = s.delivered
                 /\ Unsent(s, t)
              \/ /\ r.left = 0 /\ t.channel.receiver = NoReceiver
                 /\ t.delivered = Append(s.delivered, Gives(r))
                 /\ Unsent(s, t) \/ (r.get /\ Flushed(s, t))
  <1> DEFINE u == [s EXCEPT !.channel = [s.channel EXCEPT !.receiver = r]]
  <1>1. /\ Sound(u, read, n)
        /\ u.connection = s.connection /\ u.toBroker = s.toBroker
        /\ u.outcome = s.outcome /\ u.delivered = s.delivered
        /\ u.channel.state = s.channel.state /\ u.channel.queue = s.channel.queue
        /\ u.channel.linked = s.channel.linked
        /\ u.channel.synchronous = s.channel.synchronous
        /\ u.channel.receiver = r
    BY ReceiverSound
  <1>2. t = IF u.channel.receiver.left = 0 THEN Complete(u) ELSE u
    BY DEF CompleteIfWhole
  <1> HIDE DEF u
  <1>3. Drained(s) => Drained(u)
    BY <1>1 DEF Drained
  <1>4. Remains(s, u) /\ Unsent(s, u)
    BY <1>1 DEF Remains, Unsent
  <1>5. CASE r.left # 0
    BY <1>1, <1>2, <1>3, <1>4, <1>5
  <1>6. CASE r.left = 0
    <2>1. /\ Sound(t, read, n)
          /\ Drained(u) => Drained(t)
          /\ Remains(u, t)
          /\ IF r.get THEN Flushed(u, t) ELSE Unsent(u, t)
          /\ t.channel.receiver = NoReceiver
          /\ t.delivered = Append(u.delivered, Gives(r))
      BY <1>1, <1>2, <1>6, CompleteSound
    <2>2. Remains(s, t)
      BY <2>1, <1>4 DEF Remains
    <2>3. Flushed(u, t) => Flushed(s, t)
      <3>1. s \in States /\ u \in States
        BY <1>1 DEF Sound
      <3>2. /\ Flush(u).toBroker = Flush(s).toBroker
            /\ Flush(u).channel.synchronous = Flush(s).channel.synchronous
        BY <1>1, <3>1, SameFlush
      <3> QED
        BY <3>2 DEF Flushed
    <2>4. Unsent(u, t) => Unsent(s, t)
      BY <1>4 DEF Unsent
    <2> QED
      BY <1>1, <1>3, <1>6, <2>1, <2>2, <2>3, <2>4
  <1> QED
    BY <1>5, <1>6

\* Whether a content step flushed the queue: a message that was got is complete.
FlushedOrNot(s, t) ==
    Unsent(s, t) \/ (Flushed(s, t) /\ s.channel.receiver.get /\ Len(t.delivered) > Len(s.delivered))

LEMMA HeaderReceived ==
    ASSUME NEW s, NEW read, NEW n, Sound(s, read, n),
           NEW q \in Seq(FramesToClient), q # <<>>, InPieces(q),
           s.channel.linked, s.channel.receiver # NoReceiver,
           Receiving(s.channel.receiver, q),
           Head(q).is = "header",
           NEW t, t = TakeHeader(s, Head(q).n)
    PROVE  /\ Sound(t, read, n) /\ (Drained(s) => Drained(t)) /\ Remains(s, t)
           /\ Continues(s, t, q) \/ Finishes(s, t, q)
           /\ FlushedOrNot(s, t)
  <1> DEFINE r == s.channel.receiver
             k == Head(q).n
             p == [r EXCEPT !.size = k, !.left = k]
  <1>1. s \in States /\ s.channel \in Channels /\ r \in Receivers
        /\ s.delivered \in Seq(Deliveries)
    BY DEF Sound, States, Channels
  <1>2. /\ Head(q) \in FramesToClient /\ Head(q) = q[1] /\ 1 \in DOMAIN q
        /\ Tail(q) \in Seq(FramesToClient)
        /\ \A i \in DOMAIN q : i # 1 => i - 1 \in DOMAIN Tail(q) /\ Tail(q)[i - 1] = q[i]
    BY Shifted
  <1>3. k \in Sizes /\ k \in Nat
    BY <1>2, ChannelAssumption DEF FramesToClient, Sizes
  <1>4. r.tag \in 1 .. MaxMessages /\ r.got = <<>> /\ Head(q).id = r.tag
    <2>1. \A m \in 1 .. r.left : q[m] = Body(r.tag, r.size - r.left + m) => q[m].is = "body"
      BY DEF Body, ToClient
    <2>2. r.left \in 1 .. r.size /\ r.size \in Nat => 1 \in 1 .. r.left
      OBVIOUS
    <2>3. r.size \in Nat
      BY <1>1, ChannelAssumption DEF Receivers, Sizes
    <2> HIDE DEF r
    <2>4. ~ /\ r.left \in 1 .. r.size
            /\ \A m \in 1 .. r.left : m \in DOMAIN q /\ q[m] = Body(r.tag, r.size - r.left + m)
      <3> SUFFICES ASSUME r.left \in 1 .. r.size,
                          \A m \in 1 .. r.left : q[m] = Body(r.tag, r.size - r.left + m)
                   PROVE  FALSE
        OBVIOUS
      <3>1. 1 \in 1 .. r.left
        BY <2>2, <2>3
      <3>2. q[1].is = "body"
        BY <2>1, <3>1
      <3> QED
        BY <1>2, <3>2
    <2> QED
      BY <2>4 DEF Receiving, r
  <1>5. /\ p \in Receivers /\ p.left = k /\ p.size = k /\ p.tag = r.tag /\ p.got = <<>>
        /\ p.get = r.get
    BY <1>1, <1>3, <1>4 DEF Receivers
  <1>6. t = CompleteIfWhole([s EXCEPT !.channel = [s.channel EXCEPT !.receiver = p]])
    <2>1. [s EXCEPT !.channel.receiver.size = k, !.channel.receiver.left = k]
            = [s EXCEPT !.channel = [s.channel EXCEPT !.receiver = p]]
      BY <1>1 DEF States, Channels, Receivers
    <2> QED
      BY <2>1 DEF TakeHeader
  <1> HIDE DEF p
  <1>7. /\ Sound(t, read, n)
        /\ Drained(s) => Drained(t)
        /\ Remains(s, t)
        /\ \/ /\ p.left # 0 /\ t.channel.receiver = p /\ t.delivered = s.delivered
              /\ Unsent(s, t)
           \/ /\ p.left = 0 /\ t.channel.receiver = NoReceiver
              /\ t.delivered = Append(s.delivered, Gives(p))
              /\ Unsent(s, t) \/ (p.get /\ Flushed(s, t))
    BY <1>4, <1>5, <1>6, ReceiveSound
  <1>8. CASE k # 0
    <2>1. /\ t.channel.receiver = p /\ t.delivered = s.delivered /\ Unsent(s, t)
      BY <1>5, <1>7, <1>8
    <2>2. ASSUME NEW m \in 1 .. k
          PROVE  m \in DOMAIN Tail(q) /\ Tail(q)[m] = Body(p.tag, k - k + m)
      <3>1. 1 + m \in DOMAIN q /\ q[1 + m] = Body(p.tag, m)
        BY <1>2, <1>4, <1>5 DEF InPieces
      <3>2. m \in Nat /\ 1 + m # 1 /\ (1 + m) - 1 = m /\ k - k + m = m
        BY <1>3
      <3> QED
        BY <1>2, <3>1, <3>2
    <2>3. p.got = [m \in 1 .. k - k |-> <<p.tag, m>>]
      BY <1>3, <1>5
    <2>4. k \in 1 .. k
      BY <1>3, <1>8
    <2>5. Receiving(p, Tail(q))
      BY <1>4, <1>5, <2>2, <2>3, <2>4 DEF Receiving
    <2> QED
      BY <1>5, <1>7, <2>1, <2>5 DEF Continues, FlushedOrNot
  <1>9. CASE k = 0
    <2> DEFINE d == Gives(p)
    <2>1. /\ t.channel.receiver = NoReceiver /\ t.delivered = Append(s.delivered, d)
          /\ Unsent(s, t) \/ (p.get /\ Flushed(s, t))
      BY <1>5, <1>7, <1>9
    <2>2. d \in Deliveries /\ d.tag = r.tag /\ d.size = 0 /\ d.got = <<>>
      BY <1>4, <1>5, <1>9 DEF Gives, Deliveries, Receivers
    <2>3. Whole(d)
      BY <2>2 DEF Whole
    <2> HIDE DEF d
    <2>4. Finishes(s, t, q)
      BY <2>1, <2>2, <2>3 DEF Finishes
    <2>5. Len(t.delivered) > Len(s.delivered)
      BY <1>1, <2>1, <2>2
    <2> QED
      BY <1>5, <1>7, <2>1, <2>4, <2>5 DEF FlushedOrNot
  <1> QED
    BY <1>8, <1>9

LEMMA BodyReceived ==
    ASSUME NEW s, NEW read, NEW n, Sound(s, read, n),
           NEW q \in Seq(FramesToClient), q # <<>>,
           s.channel.linked, s.channel.receiver # NoReceiver,
           Receiving(s.channel.receiver, q),
           Head(q).is # "header",
           NEW t, t = TakeBody(s, <<Head(q).id, Head(q).n>>)
    PROVE  /\ Sound(t, read, n) /\ (Drained(s) => Drained(t)) /\ Remains(s, t)
           /\ Continues(s, t, q) \/ Finishes(s, t, q)
           /\ FlushedOrNot(s, t)
  <1> DEFINE r == s.channel.receiver
             k == r.size - r.left + 1
             b == <<r.tag, k>>
             p == [r EXCEPT !.left = r.left - 1, !.got = Append(r.got, b)]
  <1>1. s \in States /\ s.channel \in Channels /\ r \in Receivers
        /\ s.delivered \in Seq(Deliveries)
    BY DEF Sound, States, Channels
  <1>2. /\ Head(q) \in FramesToClient /\ Head(q) = q[1] /\ 1 \in DOMAIN q
        /\ Tail(q) \in Seq(FramesToClient)
        /\ \A i \in DOMAIN q : i # 1 => i - 1 \in DOMAIN Tail(q) /\ Tail(q)[i - 1] = q[i]
    BY Shifted
  <1>3. /\ r.tag \in 1 .. MaxMessages /\ r.left \in 1 .. r.size
        /\ r.got = [m \in 1 .. r.size - r.left |-> <<r.tag, m>>]
        /\ \A m \in 1 .. r.left : m \in DOMAIN q /\ q[m] = Body(r.tag, r.size - r.left + m)
    BY DEF Receiving
  <1>4. r.size \in 0 .. MaxSize /\ r.left \in 0 .. MaxSize /\ r.got \in Seq(Bodies)
    BY <1>1 DEF Receivers, Sizes
  <1>5. MaxSize \in Nat /\ MaxMessages \in Nat
    BY ChannelAssumption
  <1> HIDE DEF r
  <1>6. k \in 1 .. MaxSize /\ k \in Nat /\ r.left - 1 \in 0 .. MaxSize /\ r.left \in Nat
        /\ r.size \in Nat /\ r.size - r.left = k - 1 /\ k = r.size - r.left + 1
    BY <1>3, <1>4, <1>5
  <1> HIDE DEF k
  <1>7. Head(q) = Body(r.tag, k)
    BY <1>2, <1>3, <1>6
  <1>8. <<Head(q).id, Head(q).n>> = b
    BY <1>7 DEF Body, ToClient
  <1>9. b \in Bodies
    BY <1>3, <1>6 DEF Bodies
  <1>10. Append(r.got, b) \in Seq(Bodies) /\ Append(r.got, b) = [m \in 1 .. k |-> <<r.tag, m>>]
    <2>1. Append(r.got, b) \in Seq(Bodies)
      BY <1>4, <1>9
    <2>2. Len(r.got) = k - 1
      <3>1. DOMAIN r.got = 1 .. k - 1 /\ k - 1 \in Nat
        BY <1>3, <1>6
      <3> QED
        BY <1>4, <3>1, LenProperties
    <2>3. Len(Append(r.got, b)) = k
      BY <1>4, <1>6, <1>9, <2>2
    <2>4. \A m \in 1 .. k : Append(r.got, b)[m] = <<r.tag, m>>
      <3> TAKE m \in 1 .. k
      <3>1. CASE m = k
        <4>1. Append(r.got, b)[Len(r.got) + 1] = b
          BY <1>4, <1>9
        <4>2. Len(r.got) + 1 = k
          BY <1>6, <2>2
        <4> QED
          BY <3>1, <4>1, <4>2 DEF b
      <3>2. CASE m # k
        <4>1. m \in 1 .. Len(r.got) /\ m \in 1 .. r.size - r.left
          BY <1>6, <2>2, <3>2
        <4>2. Append(r.got, b)[m] = r.got[m]
          BY <1>4, <1>9, <4>1
        <4> QED
          BY <1>3, <4>1, <4>2
      <3> QED
        BY <3>1, <3>2
    <2>5. DOMAIN Append(r.got, b) = 1 .. k
      BY <2>1, <2>3, LenProperties
    <2> DEFINE a == Append(r.got, b)
    <2>6. a = [m \in DOMAIN a |-> a[m]]
      BY <2>1
    <2> HIDE DEF a
    <2>7. a = [m \in 1 .. k |-> <<r.tag, m>>]
      BY <2>4, <2>5, <2>6 DEF a
    <2> QED
      BY <2>1, <2>7 DEF a
  <1> HIDE DEF b
  <1>11. /\ p \in Receivers /\ p.left = r.left - 1 /\ p.size = r.size /\ p.tag = r.tag
         /\ p.got = [m \in 1 .. k |-> <<r.tag, m>>]
         /\ p.get = r.get
    BY <1>1, <1>6, <1>10 DEF Receivers, Sizes, r
  <1>12. t = CompleteIfWhole([s EXCEPT !.channel = [s.channel EXCEPT !.receiver = p]])
    <2>1. [s EXCEPT !.channel.receiver.left = @ - 1, !.channel.receiver.got = Append(@, b)]
            = [s EXCEPT !.channel = [s.channel EXCEPT !.receiver = p]]
      BY <1>1 DEF States, Channels, Receivers, r
    <2> QED
      BY <1>8, <2>1 DEF TakeBody
  <1> HIDE DEF p
  <1>13. /\ Sound(t, read, n)
         /\ Drained(s) => Drained(t)
         /\ Remains(s, t)
         /\ \/ /\ p.left # 0 /\ t.channel.receiver = p /\ t.delivered = s.delivered
               /\ Unsent(s, t)
            \/ /\ p.left = 0 /\ t.channel.receiver = NoReceiver
               /\ t.delivered = Append(s.delivered, Gives(p))
               /\ Unsent(s, t) \/ (p.get /\ Flushed(s, t))
    BY <1>3, <1>11, <1>12, ReceiveSound
  <1>14. CASE p.left # 0
    <2>1. /\ t.channel.receiver = p /\ t.delivered = s.delivered /\ Unsent(s, t)
      BY <1>13, <1>14
    <2>6. p.left = r.left - 1 /\ p.size = r.size /\ r.left \in Nat /\ r.size \in Nat
      BY <1>6, <1>11
    <2>2. ASSUME NEW m \in 1 .. p.left
          PROVE  m \in DOMAIN Tail(q) /\ Tail(q)[m] = Body(p.tag, p.size - p.left + m)
      <3>1. m \in Nat /\ m + 1 \in 1 .. r.left /\ m + 1 # 1 /\ (m + 1) - 1 = m
            /\ p.size - p.left + m = r.size - r.left + (m + 1)
        <4>1. m \in 1 .. p.left
          OBVIOUS
        <4> QED
          BY ONLY <2>6, <4>1
      <3>2. m + 1 \in DOMAIN q /\ q[m + 1] = Body(r.tag, r.size - r.left + (m + 1))
        BY <1>3, <3>1
      <3> QED
        BY <1>2, <1>11, <3>1, <3>2
    <2>3. p.size - p.left = k
      BY <1>6, <1>11
    <2>4. p.left \in 1 .. p.size
      <3>1. r.left \in 1 .. r.size /\ p.left # 0
        BY <1>3, <1>14
      <3> QED
        BY ONLY <2>6, <3>1
    <2>5. Receiving(p, Tail(q))
      BY <1>3, <1>11, <2>2, <2>3, <2>4 DEF Receiving
    <2> QED
      BY <1>11, <1>13, <2>1, <2>5 DEF Continues, FlushedOrNot, r
  <1>15. CASE p.left = 0
    <2> DEFINE d == Gives(p)
    <2>1. /\ t.channel.receiver = NoReceiver /\ t.delivered = Append(s.delivered, d)
          /\ Unsent(s, t) \/ (p.get /\ Flushed(s, t))
      BY <1>13, <1>15
    <2>2. d \in Deliveries /\ d.tag = r.tag /\ d.size = r.size /\ d.got = p.got
      BY <1>3, <1>11 DEF Gives, Deliveries, Receivers
    <2>3. k = r.size
      BY <1>6, <1>11, <1>15
    <2>4. Whole(d)
      BY <1>11, <2>2, <2>3 DEF Whole
    <2> HIDE DEF d
    <2>5. Finishes(s, t, q)
      BY <2>1, <2>2, <2>4 DEF Finishes, r
    <2>6. Len(t.delivered) > Len(s.delivered)
      BY <1>1, <2>1, <2>2
    <2> QED
      BY <1>11, <1>13, <2>1, <2>5, <2>6 DEF FlushedOrNot, r
  <1> QED
    BY <1>14, <1>15

\* What a frame from the broker leaves alone.
Stays(s, t) ==
    /\ t.connection.closeCalled = s.connection.closeCalled
    /\ Len(t.outcome) = Len(s.outcome)
    /\ ~s.channel.linked => t.channel = s.channel /\ t.delivered = s.delivered
    /\ s.channel.state = "closed" => t.channel.state = "closed"

\* When the channel goes on working, its queue is sent after an answer or at the
\* end of a message that was got.
Proceeds(s, t, frame) ==
    Working(t.channel) =>
        /\ t.connection.queue = s.connection.queue
        /\ \/ Unsent(s, t)
           \/ /\ Flushed(s, t)
              /\ \/ frame.is \in {"openOK", "ok", "getOK"}
                 \/ s.channel.receiver.get /\ Len(t.delivered) > Len(s.delivered)

\* All that is shown of the frame at the head of q.
Read(s, t, read, n, q) ==
    /\ Sound(t, read, n) /\ Drained(t)
    /\ Stays(s, t) /\ Receives(s, t, q) /\ Proceeds(s, t, Head(q))

LEMMA NothingReceived ==
    ASSUME NEW r, NEW q \in Seq(FramesToClient), q # <<>>, r \in Receivers, Receiving(r, q)
    PROVE  Head(q).is \in {"header", "body"}
  <1>1. Head(q) = q[1]
    BY Shifted
  <1>2. CASE r.left = 0
    BY <1>2, ChannelAssumption DEF Receiving
  <1>3. CASE r.left # 0
    <2>1. r.left \in 1 .. r.size /\ r.size \in Nat
      BY <1>3, ChannelAssumption DEF Receiving, Receivers, Sizes
    <2>2. 1 \in 1 .. r.left
      BY ONLY <2>1
    <2>3. q[1] = Body(r.tag, r.size - r.left + 1)
      BY <1>3, <2>2 DEF Receiving
    <2> QED
      BY <1>1, <2>3 DEF Body, ToClient
  <1> QED
    BY <1>2, <1>3

LEMMA MessageStarts ==
    ASSUME NEW q \in Seq(FramesToClient), q # <<>>, InPieces(q), Opens(Head(q)), NEW get \in BOOLEAN
    PROVE  /\ Head(q).id \in 1 .. MaxMessages
           /\ Receiving(Receiver(Head(q).id, get), Tail(q))
           /\ Receiver(Head(q).id, get) \in Receivers
           /\ Receiver(Head(q).id, get).tag = Head(q).id
  <1>1. /\ Head(q) = q[1] /\ 1 \in DOMAIN q
        /\ Tail(q) \in Seq(FramesToClient)
        /\ \A i \in DOMAIN q : i # 1 => i - 1 \in DOMAIN Tail(q) /\ Tail(q)[i - 1] = q[i]
    BY Shifted
  <1>2. /\ Head(q).id \in 1 .. MaxMessages /\ 2 \in DOMAIN q
        /\ q[2].is = "header" /\ q[2].id = Head(q).id
    BY <1>1 DEF InPieces
  <1>3. 1 \in DOMAIN Tail(q) /\ Tail(q)[1] = q[2]
    BY <1>1, <1>2
  <1>4. Tail(q) # <<>>
    <2>1. 1 \in 1 .. Len(Tail(q)) /\ Len(Tail(q)) \in Nat
      BY <1>1, <1>3, LenProperties
    <2>2. Len(Tail(q)) # 0
      BY ONLY <2>1
    <2>3. Len(<<>>) = 0
      OBVIOUS
    <2> QED
      BY ONLY <2>2, <2>3
  <1>5. Head(Tail(q)) = q[2]
    BY <1>1, <1>3, <1>4
  <1>6. Receiver(Head(q).id, get) \in Receivers
    BY <1>2, ChannelAssumption, EmptySeq DEF Receiver, Receivers, Sizes
  <1> QED
    BY <1>2, <1>4, <1>5, <1>6 DEF Receiving, Receiver

LEMMA ReadyRead ==
    ASSUME NEW s, NEW read, NEW n, Sound(s, read, n), Drained(s), s.channel.linked,
           NEW q \in Seq(FramesToClient), Head(q).is = "openOK", s.channel.receiver = NoReceiver
    PROVE  Read(s, ReportReady(s), read, n, q)
  <1> DEFINE st == IF s.channel.state = "connected" THEN "ready" ELSE s.channel.state
             ch == [s.channel EXCEPT !.state = st]
             u  == [s EXCEPT !.channel = ch]
             t  == Flush(u)
  <1>1. s \in States /\ s.channel \in Channels
    BY DEF Sound, States
  <1>2. ReportReady(s) = t
    BY <1>1 DEF ReportReady, States, Channels
  <1>3. st \in {"connected", "ready", "closing", "closed"}
    BY <1>1 DEF Channels
  <1>4. st = "closed" <=> s.channel.state = "closed"
    OBVIOUS
  <1> HIDE DEF st
  <1>5. /\ ch \in Channels /\ ch.queue = s.channel.queue /\ ch.linked = s.channel.linked
        /\ ch.receiver = s.channel.receiver /\ ch.state = st
    BY <1>1, <1>3 DEF Channels
  <1> HIDE DEF ch
  <1>6. /\ Sound(u, read, n) /\ u.channel = ch /\ u.connection = s.connection
        /\ u.toBroker = s.toBroker /\ u.outcome = s.outcome /\ u.delivered = s.delivered
    BY <1>5, ChannelSound
  <1> HIDE DEF u
  <1>7. Drained(u)
    BY <1>4, <1>5, <1>6 DEF Drained
  <1>8. Sound(t, read, n) /\ Keeps(u, t) /\ SameChannel(u, t) /\ Drained(t)
    BY <1>6, <1>7, FlushSound
  <1>9. t.connection = s.connection /\ u \in States
    BY <1>6, FlushCases DEF Sound
  <1>10. /\ t.toBroker = Flush(s).toBroker
         /\ t.channel.synchronous = Flush(s).channel.synchronous
    BY <1>1, <1>5, <1>6, <1>9, SameFlush
  <1> HIDE DEF t
  <1>11. Stays(s, t)
    BY <1>4, <1>5, <1>6, <1>8 DEF Stays, Keeps, SameChannel
  <1>12. Receives(s, t, q)
    BY <1>5, <1>6, <1>8 DEF Receives, Ignores, Keeps
  <1>13. Proceeds(s, t, Head(q))
    BY <1>9, <1>10 DEF Proceeds, Flushed
  <1> QED
    BY <1>2, <1>8, <1>11, <1>12, <1>13 DEF Read

LEMMA AnswerRead ==
    ASSUME NEW s, NEW read, NEW n, Sound(s, read, n), Drained(s), s.channel.linked,
           NEW q \in Seq(FramesToClient), q # <<>>, InPieces(q),
           Head(q).is \in {"ok", "getOK"}, s.channel.receiver = NoReceiver
    PROVE  Read(s, ReportSuccess(s, Head(q)), read, n, q)
  <1> DEFINE t == ReportSuccess(s, Head(q))
             f == Head(q)
  <1>1. f.is = "getOK" => /\ f.id \in 1 .. MaxMessages
                          /\ Receiving(Receiver(f.id, TRUE), Tail(q))
                          /\ Receiver(f.id, TRUE).tag = f.id
    BY MessageStarts DEF Opens
  <1> HIDE DEF f
  <1>2. /\ Sound(t, read, n) /\ Answers(s, t, f) /\ Drained(t)
        /\ s.channel.chain # <<>> =>
              /\ t.channel.synchronous = Flush(s).channel.synchronous
              /\ t.toBroker = Flush(s).toBroker
        /\ s.channel.chain = <<>> => t = s
    BY <1>1, ReportSuccessSound DEF f
  <1> HIDE DEF t
  <1>3. Stays(s, t)
    BY <1>2 DEF Stays, Answers
  <1>4. Receives(s, t, q)
    <2>1. CASE t.channel.receiver = s.channel.receiver
      BY <1>2, <2>1 DEF Receives, Ignores, Answers
    <2>2. CASE f.is = "getOK" /\ t.channel.receiver = Receiver(f.id, TRUE)
      BY <1>1, <1>2, <2>2 DEF Receives, Starts, Answers, Opens, f
    <2> QED
      BY <1>2, <2>1, <2>2 DEF Answers
  <1>5. Proceeds(s, t, f)
    <2>1. t.connection = s.connection
      BY <1>2 DEF Answers
    <2>2. f.is \in {"ok", "getOK"}
      BY DEF f
    <2> QED
      BY <1>2, <2>1, <2>2 DEF Proceeds, Flushed, Unsent
  <1> QED
    BY <1>2, <1>3, <1>4, <1>5 DEF Read, t, f

LEMMA ClosedRead ==
    ASSUME NEW s, NEW read, NEW n, Sound(s, read, n), s.channel.linked,
           NEW q \in Seq(FramesToClient), Head(q).is = "closeOK"
    PROVE  Read(s, ReportClosed(s, Head(q)), read, n, q)
  <1> DEFINE f  == Head(q)
             ch == [s.channel EXCEPT !.state = "closed"]
             u  == [s EXCEPT !.channel = ch]
             v  == ReportSuccess(u, f)
             t  == ReportError(v)
  <1>1. s \in States /\ s.channel \in Channels
    BY DEF Sound, States
  <1>2. ReportClosed(s, f) = t
    BY <1>1 DEF ReportClosed, States
  <1>3. /\ ch \in Channels /\ ch.queue = s.channel.queue /\ ch.linked = s.channel.linked
        /\ ch.receiver = s.channel.receiver
    BY <1>1 DEF Channels
  <1> HIDE DEF ch
  <1>4. /\ Sound(u, read, n) /\ u.channel = ch /\ u.connection = s.connection
        /\ u.outcome = s.outcome /\ u.delivered = s.delivered
    BY <1>3, ChannelSound
  <1>5. f.is # "getOK"
    OBVIOUS
  <1> HIDE DEF u, f
  <1>6. Sound(v, read, n) /\ Answers(u, v, f)
    BY <1>4, <1>5, ReportSuccessSound
  <1> HIDE DEF v
  <1>7. /\ Sound(t, read, n) /\ Drained(t)
        /\ t.connection = v.connection /\ t.delivered = v.delivered
        /\ Len(t.outcome) = Len(v.outcome)
        /\ t.channel.state = "closed" /\ ~t.channel.linked
        /\ t.channel.receiver = v.channel.receiver
    BY <1>6, ReportErrorSound
  <1> HIDE DEF t
  <1>8. Stays(s, t)
    BY <1>4, <1>6, <1>7 DEF Stays, Answers
  <1>9. Receives(s, t, q)
    BY <1>3, <1>4, <1>5, <1>6, <1>7 DEF Receives, Ignores, Answers
  <1>10. Proceeds(s, t, f)
    BY <1>7 DEF Proceeds, Working
  <1> QED
    BY <1>2, <1>7, <1>8, <1>9, <1>10 DEF Read, f

\* A close frame of the broker: it is answered, and the channel fails.
LEMMA CloseRead ==
    ASSUME NEW s, NEW read, NEW n, Sound(s, read, n), Drained(s),
           NEW q \in Seq(FramesToClient), NEW op \in {"connectionCloseOK", "channelCloseOK"},
           NEW t, t = (LET answered == SendIfAccepted(s, Control(op))
                       IN  IF s.channel.linked THEN ReportError(answered) ELSE answered)
    PROVE  Read(s, t, read, n, q)
  <1> DEFINE u == SendIfAccepted(s, Control(op))
  <1>1. Sound(u, read, n) /\ Keeps(s, u) /\ u.channel = s.channel
    BY ControlSound
  <1>2. t = IF s.channel.linked THEN ReportError(u) ELSE u
    OBVIOUS
  <1> HIDE DEF u
  <1>3. CASE s.channel.linked
    <2>1. t = ReportError(u)
      BY <1>2, <1>3
    <2>2. /\ Sound(t, read, n) /\ Drained(t)
          /\ t.connection = u.connection /\ t.delivered = u.delivered
          /\ Len(t.outcome) = Len(u.outcome)
          /\ t.channel.state = "closed" /\ ~t.channel.linked
          /\ t.channel.receiver = u.channel.receiver
      BY <1>1, <2>1, ReportErrorSound
    <2> QED
      BY <1>1, <1>3, <2>2 DEF Read, Stays, Receives, Ignores, Proceeds, Working, Keeps
  <1>4. CASE ~s.channel.linked
    <2>1. t = u
      BY <1>2, <1>4
    <2> QED
      BY <1>1, <1>4, <2>1 DEF Read, Stays, Receives, Ignores, Proceeds, Working, Keeps, Drained
  <1> QED
    BY <1>3, <1>4

LEMMA NothingRead ==
    ASSUME NEW s, NEW read, NEW n, Sound(s, read, n), Drained(s), NEW q,
           s.channel.linked => s.channel.receiver = NoReceiver
    PROVE  Read(s, s, read, n, q)
  BY DEF Read, Stays, Receives, Ignores, Proceeds, Unsent

LEMMA DeliverRead ==
    ASSUME NEW s, NEW read, NEW n, Sound(s, read, n), Drained(s), s.channel.linked,
           NEW q \in Seq(FramesToClient), q # <<>>, InPieces(q),
           Head(q).is = "deliver", s.channel.receiver = NoReceiver
    PROVE  Read(s, TakeDeliver(s, Head(q).id), read, n, q)
  <1>1. CASE ~s.channel.consuming
    BY <1>1, NothingRead DEF TakeDeliver
  <1>2. CASE s.channel.consuming
    <2> DEFINE r == Receiver(Head(q).id, FALSE)
               t == [s EXCEPT !.channel = [s.channel EXCEPT !.receiver = r]]
    <2>1. Receiving(r, Tail(q)) /\ r \in Receivers /\ r.tag = Head(q).id
      BY MessageStarts DEF Opens
    <2>2. TakeDeliver(s, Head(q).id) = t
      BY <1>2 DEF TakeDeliver, Sound, States
    <2> HIDE DEF r
    <2>3. /\ Sound(t, read, n)
          /\ t.connection = s.connection /\ t.toBroker = s.toBroker
          /\ t.outcome = s.outcome /\ t.delivered = s.delivered
          /\ t.channel.state = s.channel.state /\ t.channel.queue = s.channel.queue
          /\ t.channel.linked = s.channel.linked
          /\ t.channel.synchronous = s.channel.synchronous
          /\ t.channel.receiver = r
      BY <2>1, ReceiverSound
    <2> HIDE DEF t
    <2>4. Stays(s, t) /\ Proceeds(s, t, Head(q)) /\ Drained(t)
      BY <2>3 DEF Stays, Proceeds, Unsent, Drained
    <2>5. Receives(s, t, q)
      BY <2>1, <2>3 DEF Receives, Starts, Opens
    <2> QED
      BY <2>2, <2>3, <2>4, <2>5 DEF Read
  <1> QED
    BY <1>1, <1>2

LEMMA CancelRead ==
    ASSUME NEW s, NEW read, NEW n, Sound(s, read, n), Drained(s), NEW q,
           s.channel.linked, s.channel.receiver = NoReceiver
    PROVE  Read(s, ReportCancelled(s), read, n, q)
  <1> DEFINE ch == [s.channel EXCEPT !.consuming = FALSE]
             t  == [s EXCEPT !.channel = ch]
  <1>1. s \in States /\ s.channel \in Channels
    BY DEF Sound, States
  <1>2. ReportCancelled(s) = t
    BY <1>1 DEF ReportCancelled, States
  <1>3. /\ ch \in Channels /\ ch.queue = s.channel.queue /\ ch.linked = s.channel.linked
        /\ ch.state = s.channel.state /\ ch.synchronous = s.channel.synchronous
        /\ ch.receiver = s.channel.receiver
    BY <1>1 DEF Channels
  <1> HIDE DEF ch
  <1>4. /\ Sound(t, read, n) /\ t.channel = ch /\ t.connection = s.connection
        /\ t.toBroker = s.toBroker /\ t.outcome = s.outcome /\ t.delivered = s.delivered
    BY <1>3, ChannelSound
  <1> HIDE DEF t
  <1> QED
    BY <1>2, <1>3, <1>4 DEF Read, Stays, Receives, Ignores, Proceeds, Unsent, Drained

LEMMA ContentRead ==
    ASSUME NEW s, NEW read, NEW n, Sound(s, read, n), Drained(s), s.channel.linked,
           NEW q \in Seq(FramesToClient), q # <<>>, InPieces(q),
           s.channel.receiver # NoReceiver, Receiving(s.channel.receiver, q),
           NEW t, t = IF Head(q).is = "header" THEN TakeHeader(s, Head(q).n)
                      ELSE TakeBody(s, <<Head(q).id, Head(q).n>>)
    PROVE  Read(s, t, read, n, q)
  <1>1. /\ Sound(t, read, n) /\ Drained(t) /\ Remains(s, t)
        /\ Continues(s, t, q) \/ Finishes(s, t, q)
        /\ FlushedOrNot(s, t)
    <2>1. CASE Head(q).is = "header"
      BY <2>1, HeaderReceived
    <2>2. CASE Head(q).is # "header"
      BY <2>2, BodyReceived
    <2> QED
      BY <2>1, <2>2
  <1>2. Stays(s, t)
    BY <1>1 DEF Stays, Remains
  <1>3. Receives(s, t, q)
    BY <1>1 DEF Receives
  <1>4. Proceeds(s, t, Head(q))
    BY <1>1 DEF Proceeds, Remains, FlushedOrNot
  <1> QED
    BY <1>1, <1>2, <1>3, <1>4 DEF Read

LEMMA ProcessReceivedSound ==
    ASSUME NEW s, NEW read, NEW n, Sound(s, read, n), Drained(s),
           s.connection.state \in {"connected", "closing"},
           NEW q \in Seq(FramesToClient), q # <<>>, InPieces(q),
           s.channel.linked /\ s.channel.receiver # NoReceiver => Receiving(s.channel.receiver, q)
    PROVE  Read(s, ProcessReceived(s, Head(q)), read, n, q)
  <1> DEFINE f == Head(q)
             t == ProcessReceived(s, f)
  <1>1. f \in FramesToClient
    BY Shifted
  <1>2. s.channel \in Channels /\ s.channel.receiver \in Receivers /\ s \in States
        /\ s.connection \in Connections
    BY DEF Sound, States, Channels
  <1>3. s.channel.linked /\ f.is \notin {"header", "body"} => s.channel.receiver = NoReceiver
    BY <1>2, NothingReceived
  <1>4. CASE f.is = "channelClose"
    BY <1>4, CloseRead DEF ProcessReceived, AnswerChannelClose
  <1>5. CASE f.is = "connectionClose"
    BY <1>5, CloseRead DEF ProcessReceived, AnswerConnectionClose
  <1>6. CASE f.is = "connectionCloseOK"
    <2> DEFINE con == [s.connection EXCEPT !.state = "closed"]
    <2>1. t = [s EXCEPT !.connection = con]
      BY <1>2, <1>6 DEF ProcessReceived, States
    <2>2. /\ con \in Connections /\ con.queue = s.connection.queue /\ con.queue = <<>>
          /\ con.closeCalled = s.connection.closeCalled
      BY <1>2 DEF Connections, Sound
    <2> HIDE DEF con, t
    <2>3. /\ Sound(t, read, n) /\ t.connection = con /\ t.channel = s.channel
          /\ t.toBroker = s.toBroker /\ t.outcome = s.outcome /\ t.delivered = s.delivered
      BY <2>1, <2>2, ConnectionSound
    <2>4. Stays(s, t) /\ Proceeds(s, t, f) /\ Drained(t)
      BY <2>2, <2>3 DEF Stays, Proceeds, Unsent, Drained
    <2>5. Receives(s, t, q)
      BY <1>3, <1>6, <2>3 DEF Receives, Ignores
    <2> QED
      BY <2>3, <2>4, <2>5 DEF Read, t
  <1>7. CASE f.is \notin {"channelClose", "connectionClose", "connectionCloseOK"} /\ ~s.channel.linked
    <2>1. t = s
      BY <1>7 DEF ProcessReceived
    <2> QED
      BY <1>7, <2>1, NothingRead
  <1>8. CASE f.is \notin {"channelClose", "connectionClose", "connectionCloseOK"} /\ s.channel.linked
    <2>1. t = ProcessChannelFrame(s, f)
      BY <1>8 DEF ProcessReceived
    <2>2. CASE f.is = "openOK"
      BY <1>3, <1>8, <2>1, <2>2, ReadyRead DEF ProcessChannelFrame
    <2>3. CASE f.is \in {"ok", "getOK"}
      BY <1>3, <1>8, <2>1, <2>3, AnswerRead DEF ProcessChannelFrame
    <2>4. CASE f.is = "closeOK"
      BY <1>3, <1>8, <2>1, <2>4, ClosedRead DEF ProcessChannelFrame
    <2>5. CASE f.is = "deliver"
      BY <1>3, <1>8, <2>1, <2>5, DeliverRead DEF ProcessChannelFrame
    <2>6. CASE f.is = "cancel"
      BY <1>3, <1>8, <2>1, <2>6, CancelRead DEF ProcessChannelFrame
    <2>7. CASE f.is \in {"header", "body"} /\ s.channel.receiver = NoReceiver
      <3>1. t = s
        BY <2>1, <2>7 DEF ProcessChannelFrame
      <3> QED
        BY <2>7, <3>1, NothingRead
    <2>8. CASE f.is \in {"header", "body"} /\ s.channel.receiver # NoReceiver
      <3>1. t = IF f.is = "header" THEN TakeHeader(s, f.n) ELSE TakeBody(s, <<f.id, f.n>>)
        BY <2>1, <2>8 DEF ProcessChannelFrame
      <3> QED
        BY <1>8, <2>8, <3>1, ContentRead
    <2> QED
      BY <1>1, <1>8, <2>2, <2>3, <2>4, <2>5, <2>6, <2>7, <2>8 DEF FramesToClient
  <1> QED
    BY <1>4, <1>5, <1>6, <1>7, <1>8

-----------------------------------------------------------------------------
(***************************************************************************)
(* One request on its way.                                                 *)
(***************************************************************************)
LEMMA OperationsKnown ==
    /\ "open" \in SynchronousOperations /\ "get" \in SynchronousOperations
    /\ DOMAIN RequestFrame \cap {"connectionClose", "connectionCloseOK", "channelCloseOK"} = {}
  <1>1. RequestFrame["open"] = ChannelOpenFrame
    <2>1. "open" \in DOMAIN RequestFrame
      BY OperationNames
    <2>2. ChannelRequests["open"] = ChannelOpenFrame /\ "open" \in DOMAIN ChannelRequests
      BY DEF ChannelRequests
    <2>3. "open" \notin DOMAIN ExchangeRequests \cup DOMAIN QueueRequests \cup DOMAIN MessageRequests
      BY DEF ExchangeRequests, QueueRequests, MessageRequests
    <2> QED
      BY <2>1, <2>2, <2>3 DEF RequestFrame
  <1>2. RequestFrame["get"] = BasicGetFrame
    <2>1. "get" \in DOMAIN RequestFrame
      BY OperationNames
    <2>2. "get" \notin DOMAIN ChannelRequests \cup DOMAIN ExchangeRequests \cup DOMAIN QueueRequests
      BY DEF ChannelRequests, ExchangeRequests, QueueRequests
    <2>3. MessageRequests["get"] = BasicGetFrame /\ "get" \in DOMAIN MessageRequests
      BY DEF MessageRequests
    <2> QED
      BY <2>1, <2>2, <2>3 DEF RequestFrame
  <1>3. \A class, method, fixed, variable, written, read :
            MethodFrame(class, method, fixed, variable, written, read).sync
    BY DEF MethodFrame, ExtFrame
  <1>4. ChannelOpenFrame.sync
    BY <1>3 DEF ChannelOpenFrame, ChannelFrame
  <1>5. BasicGetFrame.sync
    BY <1>3 DEF BasicGetFrame, BasicFrame
  <1>6. {"open", "get"} \subseteq SynchronousOperations
    BY <1>1, <1>2, <1>4, <1>5, OperationNames DEF SynchronousOperations
  <1>7. /\ DOMAIN ChannelRequests \cap {"connectionClose", "connectionCloseOK", "channelCloseOK"} = {}
        /\ DOMAIN ExchangeRequests \cap {"connectionClose", "connectionCloseOK", "channelCloseOK"} = {}
        /\ DOMAIN QueueRequests \cap {"connectionClose", "connectionCloseOK", "channelCloseOK"} = {}
        /\ DOMAIN MessageRequests \cap {"connectionClose", "connectionCloseOK", "channelCloseOK"} = {}
    BY DEF ChannelRequests, ExchangeRequests, QueueRequests, MessageRequests
  <1>8. DOMAIN RequestFrame = UNION {DOMAIN ChannelRequests, DOMAIN ExchangeRequests,
                                     DOMAIN QueueRequests, DOMAIN MessageRequests}
    BY DEF RequestFrame
  <1>9. DOMAIN RequestFrame \cap {"connectionClose", "connectionCloseOK", "channelCloseOK"} = {}
    BY <1>7, <1>8
  <1> QED
    BY <1>6, <1>9

LEMMA AskingConcatenated ==
    ASSUME NEW p \in Seq(Frames), NEW q \in Seq(Frames)
    PROVE  /\ NoneAsks(p \o q) <=> NoneAsks(p) /\ NoneAsks(q)
           /\ NoneAsks(p) /\ OneAsks(q) => OneAsks(p \o q)
           /\ OneAsks(p) /\ NoneAsks(q) => OneAsks(p \o q)
  <1> DEFINE c == p \o q
  <1>1. /\ \A i \in DOMAIN p : i \in DOMAIN c /\ c[i] = p[i]
        /\ \A j \in DOMAIN q : Len(p) + j \in DOMAIN c /\ c[Len(p) + j] = q[j]
        /\ \A i \in DOMAIN c : \/ i \in DOMAIN p /\ c[i] = p[i]
                               \/ \E j \in DOMAIN q : i = Len(p) + j /\ c[i] = q[j]
    BY Concatenated
  <1> HIDE DEF c
  <1>2. NoneAsks(c) <=> NoneAsks(p) /\ NoneAsks(q)
    BY <1>1 DEF NoneAsks
  <1>3. NoneAsks(p) /\ OneAsks(q) => OneAsks(c)
    BY <1>1 DEF NoneAsks, OneAsks
  <1>4. OneAsks(p) /\ NoneAsks(q) => OneAsks(c)
    BY <1>1 DEF NoneAsks, OneAsks
  <1> QED
    BY <1>2, <1>3, <1>4 DEF c

LEMMA AskingNone ==
    /\ NoneAsks(<<>>)
    /\ \A p : NoneAsks(p) => OneAsks(p)
    /\ \A q : NoneReplies(q) => OneReplies(q)
    /\ \A f \in Frames : OneAsks(<<f>>)
    /\ \A op \in {"connectionClose", "connectionCloseOK", "channelCloseOK"} :
          NoneAsks(<<Control(op)>>)
  <1>1. NoneAsks(<<>>)
    BY DEF NoneAsks
  <1>2. \A p : NoneAsks(p) => OneAsks(p)
    BY DEF NoneAsks, OneAsks
  <1>3. \A q : NoneReplies(q) => OneReplies(q)
    BY DEF NoneReplies, OneReplies
  <1>4. \A f \in Frames : OneAsks(<<f>>)
    BY DEF OneAsks
  <1>5. ASSUME NEW op \in {"connectionClose", "connectionCloseOK", "channelCloseOK"}
        PROVE  NoneAsks(<<Control(op)>>)
    <2>1. op \notin SynchronousOperations
      BY OperationsKnown DEF SynchronousOperations
    <2>2. Control(op).op = op
      BY DEF Control, FrameOfCall
    <2> QED
      BY <2>1, <2>2 DEF NoneAsks, Asks
  <1> QED
    BY <1>1, <1>2, <1>3, <1>4, <1>5

\* Nothing is on its way.
Quiet(s, q) == NoneAsks(s.toBroker) /\ NoneAsks(s.connection.queue) /\ NoneReplies(q)

LEMMA QuietWay ==
    /\ \A s, q : Quiet(s, q) => OneOnTheWay(s, q)
    /\ \A s, q : OneOnTheWay(s, q) /\ ~s.channel.synchronous => Quiet(s, q)
  BY AskingNone DEF Quiet, OneOnTheWay

\* The way of requests in a state.
SameWay(s, t) ==
    /\ t.toBroker = s.toBroker
    /\ t.connection.queue = s.connection.queue
    /\ t.channel.synchronous = s.channel.synchronous

LEMMA SameWayOne ==
    \A s, t, q : SameWay(s, t) => (OneOnTheWay(s, q) <=> OneOnTheWay(t, q))
  BY DEF SameWay, OneOnTheWay

LEMMA TransmitWay ==
    ASSUME NEW s \in States, NEW frames \in Seq(Frames), NEW q
    PROVE  /\ Transmit(s, frames).channel = s.channel
           /\ NoneAsks(frames) /\ OneOnTheWay(s, q) => OneOnTheWay(Transmit(s, frames), q)
           /\ NoneAsks(frames) /\ Quiet(s, q) => Quiet(Transmit(s, frames), q)
           /\ OneAsks(frames) /\ Quiet(s, q) /\ s.channel.synchronous
                 => OneOnTheWay(Transmit(s, frames), q)
           /\ OneAsks(frames) /\ Quiet(s, q) =>
                \/ /\ NoneAsks(Transmit(s, frames).toBroker)
                   /\ OneAsks(Transmit(s, frames).connection.queue) /\ NoneReplies(q)
                \/ /\ OneAsks(Transmit(s, frames).toBroker)
                   /\ NoneAsks(Transmit(s, frames).connection.queue) /\ NoneReplies(q)
  <1> DEFINE t == Transmit(s, frames)
  <1>1. s.toBroker \in Seq(Frames) /\ s.connection.queue \in Seq(Frames) /\ s.connection \in Connections
    BY DEF States, Connections
  <1>2. CASE s.connection.state = "connected" /\ s.connection.queue = <<>>
    <2> DEFINE sent == s.toBroker \o frames
    <2>1. t = [s EXCEPT !.toBroker = sent]
      BY <1>2 DEF Transmit
    <2>2. /\ NoneAsks(sent) <=> NoneAsks(s.toBroker) /\ NoneAsks(frames)
          /\ NoneAsks(s.toBroker) /\ OneAsks(frames) => OneAsks(sent)
          /\ OneAsks(s.toBroker) /\ NoneAsks(frames) => OneAsks(sent)
      BY <1>1, AskingConcatenated
    <2> HIDE DEF sent
    <2>3. t.toBroker = sent /\ t.connection = s.connection /\ t.channel = s.channel
      BY <2>1 DEF States
    <2> HIDE DEF t
    <2> QED
      BY <2>2, <2>3 DEF OneOnTheWay, Quiet, t
  <1>3. CASE ~(s.connection.state = "connected" /\ s.connection.queue = <<>>)
    <2> DEFINE sent == s.connection.queue \o frames
               con  == [s.connection EXCEPT !.queue = sent]
    <2>1. t = [s EXCEPT !.connection = con]
      BY <1>3 DEF Transmit
    <2>2. /\ NoneAsks(sent) <=> NoneAsks(s.connection.queue) /\ NoneAsks(frames)
          /\ NoneAsks(s.connection.queue) /\ OneAsks(frames) => OneAsks(sent)
          /\ OneAsks(s.connection.queue) /\ NoneAsks(frames) => OneAsks(sent)
      BY <1>1, AskingConcatenated
    <2> HIDE DEF sent
    <2>3. con.queue = sent
      BY <1>1 DEF Connections
    <2> HIDE DEF con
    <2>4. t.toBroker = s.toBroker /\ t.connection = con /\ t.channel = s.channel
      BY <2>1 DEF States
    <2> HIDE DEF t
    <2> QED
      BY <2>2, <2>3, <2>4 DEF OneOnTheWay, Quiet, t
  <1> QED
    BY <1>2, <1>3

\* What the library sends of its own accord.
LEMMA ControlWay ==
    ASSUME NEW s \in States, NEW q, OneOnTheWay(s, q),
           NEW op \in {"connectionClose", "connectionCloseOK", "channelCloseOK"}
    PROVE  OneOnTheWay(SendIfAccepted(s, Control(op)), q)
  <1> DEFINE new == <<Control(op)>>
  <1>1. new \in Seq(Frames) /\ NoneAsks(new)
    BY ControlFrame, AskingNone
  <1>2. SendIfAccepted(s, Control(op)) \in {s, Transmit(s, new)}
    BY DEF SendIfAccepted
  <1> HIDE DEF new
  <1> QED
    BY <1>1, <1>2, TransmitWay

LEMMA CloseWhenIdleWay ==
    ASSUME NEW s, NEW read, NEW n, Sound(s, read, n), NEW q, OneOnTheWay(s, q)
    PROVE  OneOnTheWay(SendCloseWhenIdle(s), q)
  <1>1. CASE SendCloseWhenIdle(s) = s
    BY <1>1
  <1>2. CASE SendCloseWhenIdle(s) = SendClose(s)
    <2> DEFINE u   == SendIfAccepted(s, Control("connectionClose"))
               con == [u.connection EXCEPT !.state = "closing"]
    <2>1. OneOnTheWay(u, q)
      BY ControlWay DEF Sound
    <2>2. u \in States /\ u.connection \in Connections
      BY ControlSound DEF Sound, States
    <2>3. SendClose(s) = [u EXCEPT !.connection = con]
      <3>1. SendClose(s) = [u EXCEPT !.connection.state = "closing"]
        BY DEF SendClose
      <3> HIDE DEF u
      <3> QED
        BY <2>2, <3>1 DEF States
    <2> HIDE DEF u
    <2>4. con.queue = u.connection.queue
      BY <2>2 DEF Connections
    <2> HIDE DEF con
    <2>5. SameWay(u, SendClose(s))
      BY <2>2, <2>3, <2>4 DEF SameWay, States
    <2> QED
      BY <1>2, <2>1, <2>5, SameWayOne
  <1> QED
    BY <1>1, <1>2 DEF SendCloseWhenIdle

LEMMA SetReadyWay ==
    ASSUME NEW s, NEW read, NEW n, Sound(s, read, n), NEW q, OneOnTheWay(s, q)
    PROVE  OneOnTheWay(SetReady(s), q)
  <1> DEFINE con  == [s.connection EXCEPT !.state = "connected", !.queue = <<>>]
             sent == s.toBroker \o s.connection.queue
             t    == [s EXCEPT !.connection = con, !.toBroker = sent]
  <1>1. /\ s \in States /\ s.connection \in Connections /\ s.toBroker \in Seq(Frames)
        /\ s.connection.queue \in Seq(Frames) /\ s.channel.queue \in Seq(Frames)
    BY DEF Sound, States, Channels, Connections
  <1>2. SetReady(s) = SendCloseWhenIdle(t)
    BY <1>1 DEF SetReady, States, Connections
  <1>3. /\ NoneAsks(sent) <=> NoneAsks(s.toBroker) /\ NoneAsks(s.connection.queue)
        /\ NoneAsks(s.toBroker) /\ OneAsks(s.connection.queue) => OneAsks(sent)
        /\ OneAsks(s.toBroker) /\ NoneAsks(s.connection.queue) => OneAsks(sent)
    BY <1>1, AskingConcatenated
  <1>4. con.queue = <<>>
    BY <1>1 DEF Connections
  <1>5. sent \in Seq(Frames) /\ InOrder(sent)
    BY <1>1, Concatenated, InOrderConcatenated DEF Sound
  <1>6. AllBefore(sent, s.channel.queue) /\ AllBefore(<<read>>, sent)
    BY <1>1, BeforeConcatenated DEF Sound
  <1>7. Numbered(sent, n)
    BY <1>1, NumberedConcatenated DEF Sound
  <1>8. con \in Connections /\ con.state = "connected"
    BY <1>1, EmptyParts DEF Connections
  <1> HIDE DEF con, sent
  <1>9. /\ t \in States /\ t.connection = con /\ t.toBroker = sent /\ t.channel = s.channel
        /\ t.outcome = s.outcome /\ t.delivered = s.delivered
    BY <1>1, <1>5, <1>8 DEF States
  <1> HIDE DEF t
  <1>10. Sound(t, read, n)
    BY <1>4, <1>5, <1>6, <1>7, <1>8, <1>9, EmptyParts DEF Sound
  <1>11. OneOnTheWay(t, q)
    BY <1>3, <1>4, <1>9, AskingNone DEF OneOnTheWay
  <1> QED
    BY <1>2, <1>10, <1>11, CloseWhenIdleWay

\* A synchronous request is sent when nothing is on its way.
LEMMA SendFramesWay ==
    ASSUME NEW s \in States, NEW frames \in Seq(Frames), OneAsks(frames), NEW q, OneOnTheWay(s, q)
    PROVE  OneOnTheWay(SendFrames(s, frames), q)
  <1>1. CASE s.channel.state = "closing"
    BY <1>1 DEF SendFrames
  <1>2. CASE s.channel.state # "closing" /\ Waiting(s.channel)
    <2> DEFINE ch == [s.channel EXCEPT !.queue = s.channel.queue \o frames]
    <2>1. s.channel \in Channels
      BY DEF States
    <2>2. SendFrames(s, frames) = [s EXCEPT !.channel = ch]
      BY <1>2, <2>1 DEF SendFrames, Hold, States, Channels
    <2>3. ch.synchronous = s.channel.synchronous
      BY <2>1 DEF Channels
    <2> HIDE DEF ch
    <2>4. SameWay(s, SendFrames(s, frames))
      BY <2>2, <2>3 DEF SameWay, States
    <2> QED
      BY <2>4, SameWayOne
  <1>3. CASE s.channel.state # "closing" /\ ~Waiting(s.channel)
    <2> DEFINE u  == Transmit(s, frames)
               sync == SynchronousIn(frames) # {}
               t  == SendFrames(s, frames)
    <2>1. Quiet(s, q)
      BY <1>3, QuietWay DEF Waiting
    <2>2. /\ u.channel = s.channel
          /\ NoneAsks(frames) => Quiet(u, q)
          /\ \/ NoneAsks(u.toBroker) /\ OneAsks(u.connection.queue) /\ NoneReplies(q)
             \/ OneAsks(u.toBroker) /\ NoneAsks(u.connection.queue) /\ NoneReplies(q)
      BY <2>1, TransmitWay
    <2>3. t = [u EXCEPT !.channel.synchronous = sync]
      BY <1>3 DEF SendFrames, SendAtOnce
    <2>4. ~sync => NoneAsks(frames)
      BY DEF SynchronousIn, Synchronous, NoneAsks, Asks
    <2>5. s.channel \in Channels /\ sync \in BOOLEAN
      BY DEF States
    <2>6. DOMAIN u = {"channel", "connection", "toBroker", "outcome", "delivered"}
      BY DEF Transmit, States
    <2> HIDE DEF u, sync, t
    <2>7. /\ t.toBroker = u.toBroker /\ t.connection = u.connection
          /\ t.channel = [s.channel EXCEPT !.synchronous = sync]
      BY <2>2, <2>3, <2>6
    <2>8. t.channel.synchronous = sync
      BY <2>5, <2>7 DEF Channels
    <2> QED
      BY <2>2, <2>4, <2>7, <2>8 DEF OneOnTheWay, Quiet, t
  <1> QED
    BY <1>1, <1>2, <1>3

LEMMA PushWay ==
    ASSUME NEW s, NEW failed, DOMAIN s = {"channel", "connection", "toBroker", "outcome", "delivered"},
           s.channel \in Channels, NEW q, OneOnTheWay(s, q)
    PROVE  OneOnTheWay(Push(s, failed), q)
  <1> DEFINE o  == Append(s.outcome, IF failed THEN "refused" ELSE "pending")
             ch == [s.channel EXCEPT !.chain = Append(s.channel.chain, Len(s.outcome) + 1)]
  <1>1. Push(s, failed) = [s EXCEPT !.channel = ch, !.outcome = o]
    BY DEF Push
  <1>2. ch.synchronous = s.channel.synchronous
    BY DEF Channels
  <1> HIDE DEF ch, o
  <1>3. SameWay(s, Push(s, failed))
    BY <1>1, <1>2 DEF SameWay
  <1> QED
    BY <1>3, SameWayOne

\* A state that a call leads to.
LEMMA StateMembers ==
    \A s, read, n : Sound(s, read, n) =>
        /\ DOMAIN s = {"channel", "connection", "toBroker", "outcome", "delivered"}
        /\ s.channel \in Channels /\ s.connection \in Connections /\ s \in States
  BY DEF Sound, States

LEMMA RequestWay ==
    ASSUME NEW s, NEW read, NEW k, Sound(s, read, k),
           NEW frame \in Frames, frame.id = k + 1, NEW q, OneOnTheWay(s, q)
    PROVE  OneOnTheWay(Request(s, frame), q)
  <1> DEFINE new == <<frame>>
             t   == SendFrame(s, frame)
             failed == ~Sends(s, frame)
  <1>1. new \in Seq(Frames) /\ OneAsks(new)
    BY AskingNone
  <1>2. t \in {s, SendFrames(s, new)}
    BY DEF SendFrame
  <1> HIDE DEF new
  <1>3. OneOnTheWay(t, q)
    BY <1>1, <1>2, SendFramesWay DEF Sound
  <1>4. Sound(t, read, k + 1)
    <2>1. k + 1 \in Nat /\ k <= k + 1 /\ k < frame.id /\ frame.id <= k + 1
      BY DEF Sound
    <2> HIDE DEF t
    <2> QED
      BY <2>1, SendFrameSound DEF t
  <1>5. Request(s, frame) = Push(t, failed)
    BY DEF Request
  <1> HIDE DEF t, failed
  <1> QED
    BY <1>3, <1>4, <1>5, StateMembers, PushWay

LEMMA CloseChannelWay ==
    ASSUME NEW s, NEW read, NEW k, Sound(s, read, k), Drained(s),
           NEW frame \in Frames, frame.id = k + 1,
           Len(s.outcome) + 1 <= MaxCalls + 2, NEW q, OneOnTheWay(s, q)
    PROVE  OneOnTheWay(CloseChannel(s, frame), q)
  <1>1. CASE Usable(s.channel) /\ Sends(s, frame)
    <2> DEFINE t  == Request(s, frame)
               ch == [t.channel EXCEPT !.state = "closing"]
    <2>1. Sound(t, read, k + 1)
      BY RequestSound
    <2>2. OneOnTheWay(t, q)
      BY RequestWay
    <2>3. CloseChannel(s, frame) = [t EXCEPT !.channel = ch]
      <3>1. CloseChannel(s, frame) = [t EXCEPT !.channel.state = "closing"]
        BY <1>1 DEF CloseChannel, Usable
      <3> HIDE DEF t
      <3> QED
        BY <3>1, <2>1 DEF Sound, States
    <2> HIDE DEF t
    <2>4. /\ t.channel \in Channels
          /\ DOMAIN t = {"channel", "connection", "toBroker", "outcome", "delivered"}
      BY <2>1, StateMembers
    <2>5. ch.synchronous = t.channel.synchronous
      BY <2>4 DEF Channels
    <2> HIDE DEF ch
    <2>6. SameWay(t, CloseChannel(s, frame))
      BY <2>3, <2>4, <2>5 DEF SameWay
    <2> QED
      BY <2>2, <2>6, SameWayOne
  <1>2. CASE ~(Usable(s.channel) /\ Sends(s, frame)) /\ (Usable(s.channel) \/ s.channel.state = "closing")
    <2>1. CloseChannel(s, frame) = Push(s, TRUE)
      BY <1>2 DEF CloseChannel, Usable
    <2> QED
      BY <2>1, StateMembers, PushWay
  <1>3. CASE ~Usable(s.channel) /\ s.channel.state # "closing"
    <2> DEFINE t == Push(s, FALSE)
               o == [t.outcome EXCEPT ![Len(s.outcome) + 1] = "ignored"]
    <2>1. OneOnTheWay(t, q)
      BY StateMembers, PushWay
    <2>2. Sound(t, read, k + 1)
      BY PushCalled
    <2>3. CloseChannel(s, frame) = [t EXCEPT !.outcome = o]
      <3>1. CloseChannel(s, frame) = [t EXCEPT !.outcome[Len(s.outcome) + 1] = "ignored"]
        BY <1>3 DEF CloseChannel
      <3> HIDE DEF t
      <3> QED
        BY <3>1, <2>2 DEF Sound, States
    <2> HIDE DEF t, o
    <2>4. DOMAIN t = {"channel", "connection", "toBroker", "outcome", "delivered"}
      BY <2>2, StateMembers
    <2>5. SameWay(t, CloseChannel(s, frame))
      BY <2>3, <2>4 DEF SameWay
    <2> QED
      BY <2>1, <2>5, SameWayOne
  <1> QED
    BY <1>1, <1>2, <1>3

LEMMA SendPartsWay ==
    ASSUME NEW s \in States, NEW frame \in Frames, frame.op \in Unanswered,
           NEW q, OneOnTheWay(s, q)
    PROVE  OneOnTheWay(SendParts(s, frame), q)
  <1> DEFINE refused == Refused(s, frame)
             taken   == Taken(s, frame)
             frames  == Parts(s, frame)
             t == SendFrames(s, frames)
             o == Append(t.outcome, IF refused = {} THEN "done" ELSE "refused")
  <1>1. /\ frames \in Seq(Frames)
        /\ \A i \in DOMAIN frames : frames[i].op = frame.op
    BY PartsTaken
  <1>2. SendParts(s, frame) = [t EXCEPT !.outcome = o]
    <2>1. SendParts(s, frame)
            = [t EXCEPT !.outcome = Append(@, IF refused = {} THEN "done" ELSE "refused")]
      BY DEF SendParts, Parts, Taken, Refused
    <2> HIDE DEF t, refused
    <2> QED
      BY <2>1
  <1>3. NoneAsks(frames)
    BY <1>1 DEF NoneAsks, Asks, Answered
  <1> HIDE DEF frames
  <1>4. OneOnTheWay(t, q)
    BY <1>1, <1>3, AskingNone, SendFramesWay
  <1>5. DOMAIN t = {"channel", "connection", "toBroker", "outcome", "delivered"}
    BY DEF SendFrames, SendAtOnce, Transmit, Hold, States
  <1> HIDE DEF t, o
  <1>6. SameWay(t, SendParts(s, frame))
    BY <1>2, <1>5 DEF SameWay
  <1> QED
    BY <1>4, <1>6, SameWayOne

LEMMA PerformWay ==
    ASSUME NEW s, NEW read, NEW k, Sound(s, read, k), Drained(s),
           NEW frame \in Frames, frame.id = k + 1,
           Len(s.outcome) + 1 <= MaxCalls + 2, NEW q, OneOnTheWay(s, q)
    PROVE  OneOnTheWay(Perform(s, frame), q)
  <1>1. CASE frame.op \in Unanswered
    BY <1>1, SendPartsWay, StateMembers DEF Perform, Unanswered
  <1>2. CASE frame.op \notin Unanswered /\ frame.op = "close"
    BY <1>2, CloseChannelWay DEF Perform
  <1>3. CASE frame.op \notin Unanswered /\ frame.op # "close"
    BY <1>3, RequestWay DEF Perform
  <1> QED
    BY <1>1, <1>2, <1>3

LEMMA CloseConnectionWay ==
    ASSUME NEW s, NEW read, Sound(s, read, Len(s.outcome)), Drained(s),
           Len(s.outcome) <= MaxCalls + (IF s.connection.closeCalled THEN 2 ELSE 1),
           NEW q, OneOnTheWay(s, q)
    PROVE  OneOnTheWay(CloseConnection(s), q)
  <1> DEFINE k == Len(s.outcome)
             frame == FrameOfCall("close", k + 1, 1, 1)
             con   == [s.connection EXCEPT !.closeCalled = TRUE]
             told  == [s EXCEPT !.connection = con]
             closed == IF s.channel.linked THEN CloseChannel(told, frame) ELSE told
             t == CloseConnection(s)
  <1>1. CASE s.connection.closeCalled \/ s.connection.state = "closed"
    BY <1>1 DEF CloseConnection
  <1>2. CASE ~(s.connection.closeCalled \/ s.connection.state = "closed")
    <2>1. k \in Nat /\ s \in States /\ s.connection \in Connections
      BY DEF Sound, States
    <2>2. t = SendCloseWhenIdle(closed)
      BY <1>2 DEF CloseConnection
    <2>3. k <= MaxCalls + 1
      BY <1>2
    <2>4. frame \in Frames /\ frame.id = k + 1
      BY <2>1, <2>3, OperationNames, ChannelAssumption DEF Frames, FrameOfCall
    <2>5. /\ con \in Connections /\ con.queue = s.connection.queue
          /\ con.state = s.connection.state
      BY <2>1 DEF Connections
    <2> HIDE DEF con
    <2>6. /\ Sound(told, read, k) /\ told.channel = s.channel /\ told.outcome = s.outcome
          /\ told.toBroker = s.toBroker /\ told.connection = con
      <3>1. con.state \in {"connected", "closing", "closed"} => con.queue = <<>>
        BY <2>5 DEF Sound
      <3> QED
        BY <2>5, <3>1, ConnectionSound
    <2>7. Drained(told) /\ Len(told.outcome) = k
      BY <2>6 DEF Drained
    <2>8. OneOnTheWay(told, q)
      BY <2>5, <2>6, SameWayOne DEF SameWay
    <2> HIDE DEF k, frame, told
    <2>9. CASE s.channel.linked
      <3> DEFINE u == CloseChannel(told, frame)
      <3>1. closed = u
        BY <2>9
      <3>2. Len(told.outcome) + 1 <= MaxCalls + 2
        BY <2>1, <2>3, <2>7, ChannelAssumption
      <3>3. Sound(u, read, k + 1)
        BY <2>4, <2>6, <2>7, <3>2, CloseChannelSound
      <3>4. OneOnTheWay(u, q)
        BY <2>4, <2>6, <2>7, <2>8, <3>2, CloseChannelWay
      <3> HIDE DEF u
      <3> QED
        BY <2>2, <3>1, <3>3, <3>4, CloseWhenIdleWay
    <2>10. CASE ~s.channel.linked
      BY <2>2, <2>6, <2>8, <2>10, CloseWhenIdleWay
    <2> QED
      BY <2>9, <2>10
  <1> QED
    BY <1>1, <1>2

\* flush() ends with the first synchronous frame; before, nothing was on its way.
LEMMA FlushWay ==
    ASSUME NEW s \in States, NEW q, Quiet(s, q)
    PROVE  OneOnTheWay(Flush(s), q)
  <1> DEFINE p     == s.channel.queue
             t     == Flush(s)
             until == SynchronousIn(p)
             last  == Min(until \cup {Len(p)})
             front == SubSeq(p, 1, last)
  <1>1. p \in Seq(Frames) /\ s.toBroker \in Seq(Frames)
    BY DEF States, Channels
  <1>2. /\ t.connection = s.connection
        /\ \/ t.toBroker = s.toBroker
           \/ /\ t.toBroker = s.toBroker \o front
              /\ t.channel.synchronous <=> until # {}
    BY FlushCases
  <1>3. /\ last \in 0 .. Len(p)
        /\ \A i \in DOMAIN p : i < last => ~Synchronous(p[i])
        /\ until = {} => last = Len(p)
    BY <1>1, FlushPoint
  <1>4. \A i \in DOMAIN p : Synchronous(p[i]) => i \in until
    BY DEF SynchronousIn
  <1>5. /\ front \in Seq(Frames) /\ DOMAIN front = 1 .. last
        /\ \A i \in DOMAIN front : i \in DOMAIN p /\ front[i] = p[i]
    <2> HIDE DEF last, p
    <2>1. front \in Seq(Frames) /\ Len(front) = last
      BY <1>1, <1>3
    <2>2. \A i \in 1 .. last : i \in DOMAIN p /\ front[i] = p[i]
      BY <1>1, <1>3
    <2> HIDE DEF front
    <2> QED
      BY <2>1, <2>2, LenProperties
  <1> HIDE DEF front, last, until, p
  <1>6. \A i \in DOMAIN front : Asks(front[i]) => i = last
    <2> SUFFICES ASSUME NEW i \in DOMAIN front, Asks(front[i]), i # last PROVE FALSE
      OBVIOUS
    <2>1. i < last
      BY <1>3, <1>5
    <2>2. Synchronous(p[i]) /\ i \in DOMAIN p
      BY <1>5 DEF Asks, Synchronous
    <2> QED
      BY <1>3, <2>1, <2>2
  <1>7. OneAsks(front)
    BY <1>6 DEF OneAsks
  <1>8. until = {} => NoneAsks(front)
    BY <1>4, <1>5 DEF NoneAsks, Asks, Synchronous
  <1>9. CASE t.toBroker = s.toBroker
    BY <1>2, <1>9, QuietWay DEF Quiet, OneOnTheWay
  <1>10. CASE t.toBroker = s.toBroker \o front /\ (t.channel.synchronous <=> until # {})
    <2> DEFINE sent == s.toBroker \o front
    <2>1. NoneAsks(s.toBroker)
      BY DEF Quiet
    <2>2. OneAsks(sent) /\ (until = {} => NoneAsks(sent))
      BY <1>1, <1>5, <1>7, <1>8, <2>1, AskingConcatenated
    <2> HIDE DEF sent, t
    <2>3. t.toBroker = sent
      BY <1>10 DEF sent
    <2> QED
      BY <1>2, <1>10, <2>2, <2>3 DEF Quiet, OneOnTheWay, t
  <1> QED
    BY <1>2, <1>9, <1>10

LEMMA FewerReplies ==
    ASSUME NEW q \in Seq(FramesToClient), q # <<>>
    PROVE  /\ NoneReplies(q) => NoneReplies(Tail(q))
           /\ OneReplies(q) => OneReplies(Tail(q))
           /\ OneReplies(q) /\ Replies(Head(q)) => NoneReplies(Tail(q))
  <1> DEFINE p == Tail(q)
  <1>1. /\ Head(q) = q[1] /\ 1 \in DOMAIN q
        /\ \A i \in DOMAIN p : i \in Nat /\ i + 1 \in DOMAIN q /\ p[i] = q[i + 1]
        /\ DOMAIN p \subseteq Nat \ {0}
    BY Shifted
  <1> HIDE DEF p
  <1>2. NoneReplies(q) => NoneReplies(p)
    BY <1>1 DEF NoneReplies
  <1>3. OneReplies(q) => OneReplies(p)
    <2> SUFFICES ASSUME OneReplies(q), NEW i \in DOMAIN p, NEW j \in DOMAIN p,
                        Replies(p[i]), Replies(p[j])
                 PROVE  i = j
      BY DEF OneReplies
    <2>1. i + 1 = j + 1
      BY <1>1 DEF OneReplies
    <2> QED
      BY <1>1, <2>1
  <1>4. OneReplies(q) /\ Replies(Head(q)) => NoneReplies(p)
    <2> SUFFICES ASSUME OneReplies(q), Replies(Head(q)), NEW i \in DOMAIN p, Replies(p[i])
                 PROVE  FALSE
      BY DEF NoneReplies
    <2>1. i + 1 = 1
      BY <1>1 DEF OneReplies
    <2> QED
      BY <1>1, <2>1
  <1> QED
    BY <1>2, <1>3, <1>4 DEF p

\* A frame is read and no flush is too early.
LEMMA ReadWay ==
    ASSUME NEW s, NEW t, NEW read, NEW n, Sound(s, read, n),
           NEW q \in Seq(FramesToClient), q # <<>>, AnswersNamed(q),
           Proceeds(s, t, Head(q)), Working(t.channel), OneOnTheWay(s, q),
           s.channel.synchronous =>
               /\ ~(Head(q).is = "ok" /\ Head(q).op \notin SynchronousOperations)
               /\ ~(s.channel.receiver.get /\ Len(t.delivered) > Len(s.delivered))
    PROVE  OneOnTheWay(t, Tail(q))
  <1> DEFINE f == Head(q)
  <1>1. /\ NoneReplies(q) => NoneReplies(Tail(q))
        /\ OneReplies(q) => OneReplies(Tail(q))
        /\ OneReplies(q) /\ Replies(f) => NoneReplies(Tail(q))
    BY FewerReplies
  <1>2. f = q[1] /\ 1 \in DOMAIN q
    BY Shifted
  <1>3. t.connection.queue = s.connection.queue
    BY DEF Proceeds
  <1>4. CASE Unsent(s, t)
    <2>1. SameWay(s, t)
      BY <1>3, <1>4 DEF SameWay, Unsent
    <2>2. OneOnTheWay(s, Tail(q))
      BY <1>1 DEF OneOnTheWay
    <2> QED
      BY <2>1, <2>2, SameWayOne
  <1>5. CASE /\ Flushed(s, t)
             /\ \/ f.is \in {"openOK", "ok", "getOK"}
                \/ s.channel.receiver.get /\ Len(t.delivered) > Len(s.delivered)
    <2>1. Quiet(s, Tail(q))
      <3>1. CASE ~s.channel.synchronous
        BY <1>1, <3>1, QuietWay DEF Quiet
      <3>2. CASE s.channel.synchronous
        <4>1. f.is \in {"openOK", "ok", "getOK"} /\ f.op \in SynchronousOperations
          <5>1. f.is \in {"openOK", "ok", "getOK"}
            BY <1>5, <3>2
          <5>2. f.is = "ok" => f.op \in SynchronousOperations
            BY <3>2
          <5>3. f.is = "openOK" => f.op = "open"
            BY <1>2 DEF AnswersNamed
          <5>4. f.is = "getOK" => f.op = "get"
            BY <1>2 DEF AnswersNamed
          <5> QED
            BY <5>1, <5>2, <5>3, <5>4, OperationsKnown
        <4>2. Replies(f)
          BY <4>1 DEF Replies
        <4>3. ~NoneReplies(q)
          BY <1>2, <4>2 DEF NoneReplies
        <4> QED
          BY <1>1, <4>2, <4>3 DEF OneOnTheWay, Quiet
      <3> QED
        BY <3>1, <3>2
    <2>2. OneOnTheWay(Flush(s), Tail(q))
      BY <2>1, FlushWay DEF Sound
    <2>3. Flush(s).connection = s.connection
      BY FlushCases DEF Sound
    <2>4. SameWay(Flush(s), t)
      BY <1>3, <1>5, <2>3 DEF SameWay, Flushed
    <2> QED
      BY <2>2, <2>4, SameWayOne
  <1> QED
    BY <1>4, <1>5 DEF Proceeds

-----------------------------------------------------------------------------
(***************************************************************************)
(* The broker: what it reads and sends.                                    *)
(***************************************************************************)
LEMMA BrokerReadsSound ==
    ASSUME NEW s, NEW read, NEW n, Sound(s, read, n), s.toBroker # <<>>,
           NEW t \in States, t.toBroker = Tail(s.toBroker),
           t.channel = s.channel, t.connection = s.connection,
           NEW r, r = read \/ (r.id = Head(s.toBroker).id /\ r.part = Head(s.toBroker).part)
    PROVE  Sound(t, r, n)
  <1> DEFINE p == s.toBroker
             q == Tail(p)
  <1>1. /\ p \in Seq(Frames) /\ s.connection.queue \in Seq(Frames)
        /\ s.channel.queue \in Seq(Frames)
    BY DEF Sound, States, Channels, Connections
  <1>2. /\ Head(p) = p[1] /\ 1 \in DOMAIN p
        /\ q \in Seq(Frames)
        /\ \A i \in DOMAIN q : i \in Nat /\ i + 1 \in DOMAIN p /\ q[i] = p[i + 1]
        /\ DOMAIN q \subseteq Nat \ {0}
    BY <1>1, Shifted
  <1>3. /\ InOrder(p) /\ AllBefore(p, s.connection.queue) /\ AllBefore(p, s.channel.queue)
        /\ Numbered(p, n) /\ AllBefore(<<read>>, p)
    BY DEF Sound
  <1> HIDE DEF p, q
  <1>4. InOrder(q)
    <2> SUFFICES ASSUME NEW i \in DOMAIN q, NEW j \in DOMAIN q, i < j
                 PROVE  Before(q[i], q[j])
      BY DEF InOrder
    <2>1. i + 1 < j + 1
      BY <1>2
    <2> QED
      BY <1>2, <1>3, <2>1 DEF InOrder
  <1>5. AllBefore(q, s.connection.queue) /\ AllBefore(q, s.channel.queue)
    BY <1>2, <1>3 DEF AllBefore
  <1>6. Numbered(q, n)
    BY <1>2, <1>3 DEF Numbered
  <1>7. CASE r = read
    <2>1. AllBefore(<<r>>, q)
      BY <1>2, <1>3, <1>7 DEF AllBefore
    <2>2. /\ AllBefore(<<r>>, s.connection.queue) /\ AllBefore(<<r>>, s.channel.queue)
          /\ r.id \in 0 .. n
      BY <1>7 DEF Sound
    <2> QED
      BY <1>4, <1>5, <1>6, <2>1, <2>2 DEF Sound, p, q
  <1>8. CASE r.id = p[1].id /\ r.part = p[1].part
    <2>1. \A f : Before(r, f) <=> Before(p[1], f)
      BY <1>8 DEF Before
    <2>2. \A x : Before(p[1], x) => Before(r, x)
      BY <2>1
    <2>3. \A i \in DOMAIN <<r>> : <<r>>[i] = r
      OBVIOUS
    <2>4. \A i \in DOMAIN q : Before(p[1], q[i])
      <3> TAKE i \in DOMAIN q
      <3>1. 1 < i + 1
        BY <1>2
      <3> QED
        BY <1>2, <1>3, <3>1 DEF InOrder
    <2>5. AllBefore(<<r>>, q)
      BY <2>2, <2>3, <2>4 DEF AllBefore
    <2>6. AllBefore(<<r>>, s.connection.queue) /\ AllBefore(<<r>>, s.channel.queue)
      BY <1>2, <1>3, <2>2, <2>3 DEF AllBefore
    <2>7. r.id \in 0 .. n
      <3>1. p[1].id \in Nat
        BY <1>1, <1>2, FrameIds DEF p
      <3>2. p[1].id <= n /\ n \in Nat
        BY <1>2, <1>3 DEF Numbered, Sound
      <3> QED
        BY <1>8, <3>1, <3>2
    <2> QED
      BY <1>4, <1>5, <1>6, <2>5, <2>6, <2>7 DEF Sound, p, q
  <1> QED
    BY <1>2, <1>7, <1>8 DEF p

LEMMA RepliesConcatenated ==
    ASSUME NEW p \in Seq(FramesToClient), NEW q \in Seq(FramesToClient)
    PROVE  /\ NoneReplies(p \o q) <=> NoneReplies(p) /\ NoneReplies(q)
           /\ NoneReplies(p) /\ OneReplies(q) => OneReplies(p \o q)
           /\ OneReplies(p) /\ NoneReplies(q) => OneReplies(p \o q)
           /\ AnswersNamed(p) /\ AnswersNamed(q) => AnswersNamed(p \o q)
  <1> DEFINE c == p \o q
  <1>1. /\ \A i \in DOMAIN p : i \in DOMAIN c /\ c[i] = p[i]
        /\ \A j \in DOMAIN q : Len(p) + j \in DOMAIN c /\ c[Len(p) + j] = q[j]
        /\ \A i \in DOMAIN c : \/ i \in DOMAIN p /\ c[i] = p[i]
                               \/ \E j \in DOMAIN q : i = Len(p) + j /\ c[i] = q[j]
    BY Concatenated
  <1> HIDE DEF c
  <1>2. NoneReplies(c) <=> NoneReplies(p) /\ NoneReplies(q)
    BY <1>1 DEF NoneReplies
  <1>3. NoneReplies(p) /\ OneReplies(q) => OneReplies(c)
    BY <1>1 DEF NoneReplies, OneReplies
  <1>4. OneReplies(p) /\ NoneReplies(q) => OneReplies(c)
    BY <1>1 DEF NoneReplies, OneReplies
  <1>5. AnswersNamed(p) /\ AnswersNamed(q) => AnswersNamed(c)
    BY <1>1 DEF AnswersNamed
  <1> QED
    BY <1>2, <1>3, <1>4, <1>5 DEF c

\* The broker reads a request and answers it, or reads something else.
LEMMA BrokerWay ==
    ASSUME NEW s \in States, s.toBroker # <<>>,
           NEW t, t.toBroker = Tail(s.toBroker), t.connection = s.connection, t.channel = s.channel,
           NEW q \in Seq(FramesToClient), NEW extra \in Seq(FramesToClient),
           OneReplies(extra), ~Asks(Head(s.toBroker)) => NoneReplies(extra),
           OneOnTheWay(s, q)
    PROVE  OneOnTheWay(t, q \o extra)
  <1> DEFINE p == s.toBroker
             rest == Tail(p)
             c == q \o extra
  <1>1. /\ Head(p) = p[1] /\ 1 \in DOMAIN p
        /\ \A i \in DOMAIN rest : i \in Nat /\ i + 1 \in DOMAIN p /\ rest[i] = p[i + 1]
        /\ DOMAIN rest \subseteq Nat \ {0}
    BY Shifted DEF States
  <1>2. /\ NoneReplies(c) <=> NoneReplies(q) /\ NoneReplies(extra)
        /\ NoneReplies(q) /\ OneReplies(extra) => OneReplies(c)
        /\ OneReplies(q) /\ NoneReplies(extra) => OneReplies(c)
    BY RepliesConcatenated
  <1> HIDE DEF rest, c, p
  <1>3. NoneAsks(p) => NoneAsks(rest)
    BY <1>1 DEF NoneAsks
  <1>4. OneAsks(p) => OneAsks(rest)
    <2> SUFFICES ASSUME OneAsks(p), NEW i \in DOMAIN rest, NEW j \in DOMAIN rest,
                        Asks(rest[i]), Asks(rest[j])
                 PROVE  i = j
      BY DEF OneAsks
    <2>1. i + 1 = j + 1
      BY <1>1 DEF OneAsks
    <2> QED
      BY <1>1, <2>1
  <1>5. OneAsks(p) /\ Asks(Head(p)) => NoneAsks(rest)
    <2> SUFFICES ASSUME OneAsks(p), Asks(Head(p)), NEW i \in DOMAIN rest, Asks(rest[i])
                 PROVE  FALSE
      BY DEF NoneAsks
    <2>1. i + 1 = 1
      BY <1>1 DEF OneAsks
    <2> QED
      BY <1>1, <2>1
  <1>6. t.toBroker = rest
    BY DEF rest, p
  <1>7. CASE Asks(Head(p))
    <2>1. ~NoneAsks(p)
      BY <1>1, <1>7 DEF NoneAsks
    <2> QED
      BY <1>2, <1>5, <1>6, <1>7, <2>1 DEF OneOnTheWay, p, c
  <1>8. CASE ~Asks(Head(p))
    BY <1>2, <1>3, <1>4, <1>6, <1>8 DEF OneOnTheWay, p, c
  <1> QED
    BY <1>7, <1>8

\* The broker sends something of its own accord, or reads nothing.
LEMMA SendsWay ==
    ASSUME NEW s \in States, NEW q \in Seq(FramesToClient), NEW extra \in Seq(FramesToClient),
           NoneReplies(extra), OneOnTheWay(s, q)
    PROVE  OneOnTheWay(s, q \o extra)
  BY RepliesConcatenated DEF OneOnTheWay

-----------------------------------------------------------------------------
\* No part of a message.
Plain(frames) == \A i \in DOMAIN frames : ~Opens(frames[i]) /\ frames[i].is \notin {"header", "body"}

LEMMA InPiecesConcatenated ==
    ASSUME NEW p \in Seq(FramesToClient), NEW q \in Seq(FramesToClient), InPieces(p), InPieces(q)
    PROVE  InPieces(p \o q)
  <1> DEFINE c == p \o q
  <1>1. /\ \A i \in DOMAIN p : i \in DOMAIN c /\ c[i] = p[i]
        /\ \A j \in DOMAIN q : Len(p) + j \in DOMAIN c /\ c[Len(p) + j] = q[j]
        /\ \A i \in DOMAIN c : \/ i \in DOMAIN p /\ c[i] = p[i]
                               \/ \E j \in DOMAIN q : i = Len(p) + j /\ c[i] = q[j]
        /\ c \in Seq(FramesToClient)
    BY Concatenated
  <1>2. DOMAIN p \subseteq Nat /\ DOMAIN q \subseteq Nat /\ Len(p) \in Nat
    OBVIOUS
  <1> HIDE DEF c
  <1>3. ASSUME NEW i \in DOMAIN c, Opens(c[i])
        PROVE  /\ c[i].id \in 1 .. MaxMessages
               /\ i + 1 \in DOMAIN c
               /\ c[i + 1].is = "header" /\ c[i + 1].id = c[i].id
    <2>1. CASE i \in DOMAIN p /\ c[i] = p[i]
      BY <1>1, <1>3, <2>1 DEF InPieces
    <2>2. ASSUME NEW j \in DOMAIN q, i = Len(p) + j, c[i] = q[j]
          PROVE  /\ c[i].id \in 1 .. MaxMessages
                 /\ i + 1 \in DOMAIN c
                 /\ c[i + 1].is = "header" /\ c[i + 1].id = c[i].id
      <3>1. /\ q[j].id \in 1 .. MaxMessages /\ j + 1 \in DOMAIN q
            /\ q[j + 1].is = "header" /\ q[j + 1].id = q[j].id
        BY <1>3, <2>2 DEF InPieces
      <3>2. i + 1 = Len(p) + (j + 1)
        BY <1>2, <2>2
      <3> QED
        BY <1>1, <2>2, <3>1, <3>2
    <2> QED
      BY <1>1, <2>1, <2>2
  <1>4. ASSUME NEW i \in DOMAIN c, c[i].is = "header", NEW m \in 1 .. c[i].n
        PROVE  i + m \in DOMAIN c /\ c[i + m] = Body(c[i].id, m)
    <2>1. CASE i \in DOMAIN p /\ c[i] = p[i]
      BY <1>1, <1>4, <2>1 DEF InPieces
    <2>2. ASSUME NEW j \in DOMAIN q, i = Len(p) + j, c[i] = q[j]
          PROVE  i + m \in DOMAIN c /\ c[i + m] = Body(c[i].id, m)
      <3>1. j + m \in DOMAIN q /\ q[j + m] = Body(q[j].id, m)
        BY <1>4, <2>2 DEF InPieces
      <3>2. m \in Int
        <4>1. m \in 1 .. c[i].n
          OBVIOUS
        <4> QED
          BY ONLY <4>1
      <3>3. i + m = Len(p) + (j + m)
        BY <1>2, <2>2, <3>2
      <3> QED
        BY <1>1, <2>2, <3>1, <3>3
    <2> QED
      BY <1>1, <2>1, <2>2
  <1> QED
    BY <1>3, <1>4 DEF InPieces, c

LEMMA ReceivingLater ==
    ASSUME NEW p \in Seq(FramesToClient), NEW q \in Seq(FramesToClient), NEW r, Receiving(r, p)
    PROVE  Receiving(r, p \o q)
  <1> DEFINE c == p \o q
  <1>1. \A i \in DOMAIN p : i \in DOMAIN c /\ c[i] = p[i]
    BY Concatenated
  <1>2. p # <<>> => c # <<>> /\ Head(c) = Head(p)
    <2> SUFFICES ASSUME p # <<>> PROVE c # <<>> /\ Head(c) = Head(p)
      OBVIOUS
    <2>1. c \in Seq(FramesToClient) /\ c # <<>>
      BY Concatenated, ConcatEqualIffEmpty
    <2>2. Head(p) = p[1] /\ 1 \in DOMAIN p /\ Head(c) = c[1]
      <3> HIDE DEF c
      <3> QED
        BY <2>1, Shifted
    <2> QED
      BY <1>1, <2>1, <2>2
  <1> HIDE DEF c
  <1>3. CASE r.left = 0 /\ r.size = 0 /\ r.got = <<>> /\ p # <<>> /\ Head(p).is = "header" /\ Head(p).id = r.tag
    BY <1>2, <1>3 DEF Receiving, c
  <1>4. CASE /\ r.left \in 1 .. r.size
             /\ r.got = [n \in 1 .. r.size - r.left |-> <<r.tag, n>>]
             /\ \A n \in 1 .. r.left : n \in DOMAIN p /\ p[n] = Body(r.tag, r.size - r.left + n)
    BY <1>1, <1>4 DEF Receiving, c
  <1> QED
    BY <1>3, <1>4 DEF Receiving

\* Frames that the broker adds do not disturb the messages: no part of a message,
\* or a message with the next number.
LEMMA ContentFrames ==
    ASSUME NEW is \in {"getOK", "deliver"}, NEW op \in DOMAIN RequestFrame \cup {"none"},
           is = "getOK" => op = "get",
           NEW call \in Nat, NEW tag \in 1 .. MaxMessages, NEW size \in Sizes,
           NEW frames, frames = Content(is, op, call, tag, size)
    PROVE  /\ frames \in Seq(FramesToClient)
           /\ InPieces(frames) /\ AnswersNamed(frames)
           /\ OneReplies(frames) /\ (is = "deliver" => NoneReplies(frames))
           /\ \A i \in DOMAIN frames : Opens(frames[i]) => i = 1 /\ frames[i].id = tag
  <1> DEFINE head   == <<ToClient(is, op, call, tag, 0), ToClient("header", "none", 0, tag, size)>>
             bodies == [i \in 1 .. size |-> ToClient("body", "none", 0, tag, i)]
  <1>1. MaxSize \in Nat /\ size \in Nat /\ size \in 0 .. MaxSize /\ tag \in Nat /\ MaxMessages \in Nat
    BY ChannelAssumption DEF Sizes
  <1>2. head \in Seq(FramesToClient) /\ Len(head) = 2
    <2>1. ToClient(is, op, call, tag, 0) \in FramesToClient
      BY <1>1 DEF ToClient, FramesToClient
    <2>2. ToClient("header", "none", 0, tag, size) \in FramesToClient
      BY <1>1 DEF ToClient, FramesToClient
    <2> QED
      BY <2>1, <2>2
  <1>3. bodies \in Seq(FramesToClient) /\ Len(bodies) = size
    <2>1. bodies \in [1 .. size -> FramesToClient]
      BY <1>1 DEF ToClient, FramesToClient
    <2> QED
      BY ONLY <1>1, <2>1, FunctionSeq
  <1>4. /\ head[1] = ToClient(is, op, call, tag, 0) /\ head[2] = ToClient("header", "none", 0, tag, size)
        /\ \A i \in 1 .. size : i \in DOMAIN bodies /\ bodies[i] = ToClient("body", "none", 0, tag, i)
        /\ frames = head \o bodies
    BY DEF Content
  <1> HIDE DEF head, bodies
  <1>5. DOMAIN head = 1 .. 2 /\ DOMAIN bodies = 1 .. size
    BY <1>1, <1>2, <1>3, LenProperties
  <1>6. /\ frames \in Seq(FramesToClient)
        /\ \A i \in DOMAIN head : i \in DOMAIN frames /\ frames[i] = head[i]
        /\ \A j \in DOMAIN bodies : 2 + j \in DOMAIN frames /\ frames[2 + j] = bodies[j]
        /\ \A i \in DOMAIN frames : i \in DOMAIN head \/ \E j \in DOMAIN bodies : i = 2 + j
    <2> DEFINE c == head \o bodies
    <2>0. head \in Seq(FramesToClient) /\ bodies \in Seq(FramesToClient)
      BY <1>2, <1>3
    <2>1. /\ c \in Seq(FramesToClient)
          /\ \A i \in DOMAIN head : i \in DOMAIN c /\ c[i] = head[i]
          /\ \A j \in DOMAIN bodies : Len(head) + j \in DOMAIN c /\ c[Len(head) + j] = bodies[j]
          /\ \A i \in DOMAIN c : \/ i \in DOMAIN head /\ c[i] = head[i]
                                 \/ \E j \in DOMAIN bodies : i = Len(head) + j /\ c[i] = bodies[j]
      BY ONLY <2>0, Concatenated
    <2>2. frames = c
      BY <1>4
    <2> HIDE DEF c
    <2> QED
      BY <1>2, <2>1, <2>2
  <1>7. /\ 1 \in DOMAIN frames /\ frames[1] = ToClient(is, op, call, tag, 0)
        /\ 2 \in DOMAIN frames /\ frames[2] = ToClient("header", "none", 0, tag, size)
    BY <1>4, <1>5, <1>6
  <1>8. \A i \in 1 .. size : 2 + i \in DOMAIN frames /\ frames[2 + i] = ToClient("body", "none", 0, tag, i)
    BY <1>4, <1>5, <1>6
  <1>9. \A i \in DOMAIN frames : i = 1 \/ i = 2 \/ \E j \in 1 .. size : i = 2 + j
    BY <1>5, <1>6
  <1>10. \A i \in DOMAIN frames :
            \/ i = 1 /\ frames[i].is = is /\ frames[i].op = op /\ frames[i].id = tag
            \/ i = 2 /\ frames[i].is = "header" /\ frames[i].id = tag /\ frames[i].n = size
            \/ frames[i].is = "body"
    <2> TAKE i \in DOMAIN frames
    <2>1. CASE i = 1
      BY <1>7, <2>1 DEF ToClient
    <2>2. CASE i = 2
      BY <1>7, <2>2 DEF ToClient
    <2>3. ASSUME NEW j \in 1 .. size, i = 2 + j
          PROVE  frames[i].is = "body"
      <3>1. frames[i] = ToClient("body", "none", 0, tag, j)
        BY <1>8, <2>3
      <3> QED
        BY <3>1 DEF ToClient
    <2> QED
      BY <1>9, <2>1, <2>2, <2>3
  <1>11. InPieces(frames)
    <2>1. ASSUME NEW i \in DOMAIN frames, Opens(frames[i])
          PROVE  /\ frames[i].id \in 1 .. MaxMessages
                 /\ i + 1 \in DOMAIN frames
                 /\ frames[i + 1].is = "header" /\ frames[i + 1].id = frames[i].id
      <3>1. i = 1 /\ frames[i].id = tag
        BY <1>10, <2>1 DEF Opens
      <3>2. 2 \in DOMAIN frames /\ frames[2].is = "header" /\ frames[2].id = tag
        BY <1>7 DEF ToClient
      <3> QED
        BY <3>1, <3>2
    <2>2. ASSUME NEW i \in DOMAIN frames, frames[i].is = "header", NEW m \in 1 .. frames[i].n
          PROVE  i + m \in DOMAIN frames /\ frames[i + m] = Body(frames[i].id, m)
      <3>1. i = 2 /\ frames[i].id = tag /\ frames[i].n = size
        BY <1>10, <2>2
      <3>2. m \in 1 .. size
        BY <3>1
      <3> QED
        BY <1>8, <3>1, <3>2 DEF Body
    <2> QED
      BY <2>1, <2>2 DEF InPieces
  <1>12. AnswersNamed(frames)
    BY <1>10 DEF AnswersNamed
  <1>13. \A i \in DOMAIN frames : Replies(frames[i]) => i = 1 /\ is # "deliver"
    BY <1>10 DEF Replies
  <1>14. \A i \in DOMAIN frames : Opens(frames[i]) => i = 1 /\ frames[i].id = tag
    BY <1>10 DEF Opens
  <1> QED
    BY <1>6, <1>11, <1>12, <1>13, <1>14 DEF OneReplies, NoneReplies


-----------------------------------------------------------------------------
(***************************************************************************)
(* The messages and the requests over one frame that is read, and over     *)
(* frames that the broker adds.                                            *)
(***************************************************************************)
LEMMA TagsRead ==
    ASSUME NEW s, NEW t, NEW n \in Nat,
           NEW q \in Seq(FramesToClient), q # <<>>, InPieces(q),
           s.channel.receiver \in Receivers, s.delivered \in Seq(Deliveries),
           TagsGrow(s.delivered, s.channel.receiver, q, n), WholeInOrder(s.delivered),
           Receives(s, t, q)
    PROVE  /\ TagsGrow(t.delivered, t.channel.receiver, Tail(q), n)
           /\ WholeInOrder(t.delivered)
  <1> DEFINE p == Tail(q)
             d == s.delivered
             r == s.channel.receiver
  <1>1. /\ Head(q) = q[1] /\ 1 \in DOMAIN q
        /\ \A i \in DOMAIN p : i \in Nat /\ i + 1 \in DOMAIN q /\ p[i] = q[i + 1]
        /\ DOMAIN q \subseteq Nat \ {0} /\ DOMAIN p \subseteq Nat \ {0}
    BY Shifted
  <1> HIDE DEF p, d, r
  <1>2. TagsGrow(d, r, p, n)
    <2>1. \A i, j \in DOMAIN p : i < j /\ Opens(p[i]) /\ Opens(p[j]) => p[i].id < p[j].id
      <3> SUFFICES ASSUME NEW i \in DOMAIN p, NEW j \in DOMAIN p, i < j, Opens(p[i]), Opens(p[j])
                   PROVE  p[i].id < p[j].id
        OBVIOUS
      <3>1. i + 1 < j + 1
        BY <1>1
      <3> QED
        BY <1>1, <3>1 DEF TagsGrow
    <2> QED
      BY <1>1, <2>1 DEF TagsGrow, d, r
  <1>3. \A i \in DOMAIN p : Opens(p[i]) /\ Opens(Head(q)) => Head(q).id < p[i].id
    <2> SUFFICES ASSUME NEW i \in DOMAIN p, Opens(p[i]), Opens(Head(q))
                 PROVE  Head(q).id < p[i].id
      OBVIOUS
    <2>1. 1 < i + 1
      BY <1>1
    <2> QED
      BY <1>1, <2>1 DEF TagsGrow
  <1>4. CASE Ignores(s, t, q)
    BY <1>2, <1>4 DEF Ignores, p, d, r
  <1>5. CASE Starts(s, t, q)
    <2>1. t.delivered = d /\ t.channel.receiver.tag = Head(q).id /\ Opens(Head(q))
      BY <1>5 DEF Starts, d
    <2>2. Head(q).id <= n /\ \A k \in DOMAIN d : d[k].tag < Head(q).id
      BY <1>1, <2>1 DEF TagsGrow, d
    <2> QED
      BY <1>2, <1>3, <2>1, <2>2 DEF TagsGrow, p, d
  <1>6. CASE Continues(s, t, q)
    <2>1. t.delivered = d /\ t.channel.receiver.tag = r.tag /\ r # NoReceiver
      BY <1>6 DEF Continues, d, r
    <2> QED
      BY <1>2, <2>1 DEF TagsGrow, p, d
  <1>7. CASE Finishes(s, t, q)
    <2>1. PICK m \in Deliveries : t.delivered = Append(d, m) /\ Whole(m) /\ m.tag = r.tag
      BY <1>7 DEF Finishes, d, r
    <2>2. t.channel.receiver = NoReceiver /\ r # NoReceiver
      BY <1>7 DEF Finishes, r
    <2> DEFINE e == Append(d, m)
    <2>3. /\ e \in Seq(Deliveries) /\ Len(e) = Len(d) + 1 /\ Len(d) \in Nat
          /\ DOMAIN e = 1 .. Len(d) + 1 /\ DOMAIN d = 1 .. Len(d)
          /\ e[Len(d) + 1] = m
          /\ \A k \in 1 .. Len(d) : e[k] = d[k]
      BY <2>1 DEF d
    <2> HIDE DEF e
    <2>4. \A k \in DOMAIN e : (k \in DOMAIN d /\ e[k] = d[k]) \/ (k = Len(d) + 1 /\ e[k] = m)
      BY <2>3
    <2>5. \A k \in DOMAIN d : d[k].tag < m.tag
      BY <1>2, <2>1, <2>2 DEF TagsGrow
    <2>6. WholeInOrder(e)
      <3>1. \A k \in DOMAIN e : Whole(e[k])
        BY <2>1, <2>4 DEF WholeInOrder, d
      <3>2. ASSUME NEW i \in DOMAIN e, NEW j \in DOMAIN e, i < j
            PROVE  e[i].tag < e[j].tag
        <4>1. i \in DOMAIN d /\ e[i] = d[i]
          BY <2>3, <3>2
        <4> QED
          BY <2>4, <2>5, <3>2, <4>1 DEF WholeInOrder, d
      <3> QED
        BY <3>1, <3>2 DEF WholeInOrder
    <2>7. NoReceiver.tag = 0
      BY DEF NoReceiver, Receiver
    <2>8. r.tag \in Nat
      BY ChannelAssumption DEF Receivers, r
    <2>9. \A i \in DOMAIN p : Opens(p[i]) => p[i].id \in Nat \ {0}
      <3> SUFFICES ASSUME NEW i \in DOMAIN p, Opens(p[i])
                   PROVE  p[i].id \in Nat \ {0}
        OBVIOUS
      <3>1. p[i].id \in 1 .. MaxMessages
        BY <1>1 DEF InPieces
      <3> QED
        BY ONLY <3>1, ChannelAssumption
    <2>10. TagsGrow(e, NoReceiver, p, n)
      BY <1>2, <2>1, <2>4, <2>7, <2>8, <2>9 DEF TagsGrow
    <2> QED
      BY <2>1, <2>2, <2>6, <2>10 DEF e, p
  <1> QED
    BY <1>4, <1>5, <1>6, <1>7 DEF Receives

\* The broker adds no message, or one, whose number is the next.
LEMMA TagsSent ==
    ASSUME NEW d, NEW r, NEW n \in Nat, NEW m \in {n, n + 1},
           NEW q \in Seq(FramesToClient), NEW extra \in Seq(FramesToClient),
           \A i \in DOMAIN extra : Opens(extra[i]) => i = 1 /\ extra[i].id = n + 1 /\ m = n + 1,
           r.tag \in Nat, \A k \in DOMAIN d : d[k].tag \in Nat,
           TagsGrow(d, r, q, n)
    PROVE  TagsGrow(d, r, q \o extra, m)
  <1> DEFINE c == q \o extra
  <1>1. /\ \A i \in DOMAIN q : i \in DOMAIN c /\ c[i] = q[i]
        /\ \A i \in DOMAIN c : \/ i \in DOMAIN q /\ c[i] = q[i]
                               \/ \E j \in DOMAIN extra : i = Len(q) + j /\ c[i] = extra[j]
        /\ \A i \in DOMAIN q : \A j \in DOMAIN extra : i < Len(q) + j
    BY Concatenated
  <1>2. /\ DOMAIN q \subseteq Nat /\ DOMAIN extra \subseteq Nat /\ Len(q) \in Nat
        /\ \A i \in DOMAIN q : q[i].id \in Nat
    <2>1. DOMAIN q \subseteq Nat /\ DOMAIN extra \subseteq Nat /\ Len(q) \in Nat
      OBVIOUS
    <2>2. \A i \in DOMAIN q : q[i] \in FramesToClient
      OBVIOUS
    <2>3. \A f \in FramesToClient : f.id \in Nat
      BY DEF FramesToClient
    <2> QED
      BY <2>1, <2>2, <2>3
  <1> HIDE DEF c
  <1>3. ASSUME NEW i \in DOMAIN c, NEW j \in DOMAIN c, i < j, Opens(c[i]), Opens(c[j])
        PROVE  c[i].id < c[j].id
    <2>1. CASE j \in DOMAIN q /\ c[j] = q[j]
      <3>1. i \in DOMAIN q /\ c[i] = q[i]
        BY <1>1, <1>2, <1>3, <2>1
      <3> QED
        BY <1>3, <2>1, <3>1 DEF TagsGrow
    <2>2. ASSUME NEW l \in DOMAIN extra, j = Len(q) + l, c[j] = extra[l]
          PROVE  c[i].id < c[j].id
      <3>1. l = 1 /\ c[j].id = n + 1
        BY <1>3, <2>2
      <3>2. i \in DOMAIN q /\ c[i] = q[i]
        <4>1. ASSUME NEW h \in DOMAIN extra, i = Len(q) + h, c[i] = extra[h]
              PROVE  FALSE
          <5>1. h = 1
            BY <1>3, <4>1
          <5> QED
            BY <1>2, <1>3, <2>2, <3>1, <4>1, <5>1
        <4> QED
          BY <1>1, <4>1
      <3>3. c[i].id <= n /\ c[i].id \in Nat
        BY <1>2, <1>3, <3>2 DEF TagsGrow
      <3> QED
        BY <3>1, <3>3
    <2> QED
      BY <1>1, <2>1, <2>2
  <1>4. ASSUME NEW i \in DOMAIN c, Opens(c[i])
        PROVE  c[i].id <= m /\ r.tag < c[i].id /\ \A k \in DOMAIN d : d[k].tag < c[i].id
    <2>1. CASE i \in DOMAIN q /\ c[i] = q[i]
      <3>1. /\ q[i].id <= n /\ r.tag < q[i].id /\ q[i].id \in Nat
            /\ \A k \in DOMAIN d : d[k].tag < q[i].id
        BY <1>2, <1>4, <2>1 DEF TagsGrow
      <3> QED
        BY <2>1, <3>1
    <2>2. CASE c[i].id = n + 1 /\ m = n + 1
      BY <2>2 DEF TagsGrow
    <2> QED
      BY <1>1, <1>4, <2>1, <2>2
  <1>5. r.tag <= m /\ \A k \in DOMAIN d : d[k].tag <= m
    BY DEF TagsGrow
  <1>6. r # NoReceiver => \A k \in DOMAIN d : d[k].tag < r.tag
    BY DEF TagsGrow
  <1> QED
    BY <1>3, <1>4, <1>5, <1>6 DEF TagsGrow, c

\* Only the close frames of the broker are read when there is no channel.
LEMMA UnlinkedWay ==
    ASSUME NEW s, NEW read, NEW n, Sound(s, read, n), ~s.channel.linked,
           NEW frame, NEW q, OneOnTheWay(s, q)
    PROVE  OneOnTheWay(ProcessReceived(s, frame), q)
  <1>1. CASE frame.is = "channelClose"
    BY <1>1, ControlWay, StateMembers DEF ProcessReceived, AnswerChannelClose
  <1>2. CASE frame.is = "connectionClose"
    BY <1>2, ControlWay, StateMembers DEF ProcessReceived, AnswerConnectionClose
  <1>3. CASE frame.is = "connectionCloseOK"
    <2> DEFINE con == [s.connection EXCEPT !.state = "closed"]
               t   == [s EXCEPT !.connection = con]
    <2>1. s \in States /\ s.connection \in Connections
      BY StateMembers
    <2>2. ProcessReceived(s, frame) = t
      BY <1>3, <2>1 DEF ProcessReceived, States, Connections
    <2>3. con.queue = s.connection.queue
      BY <2>1 DEF Connections
    <2> HIDE DEF con
    <2>4. SameWay(s, t)
      BY <2>1, <2>3 DEF SameWay, States
    <2> HIDE DEF t
    <2> QED
      BY <2>2, <2>4, SameWayOne
  <1>4. CASE frame.is \notin {"channelClose", "connectionClose", "connectionCloseOK"}
    BY <1>4 DEF ProcessReceived
  <1> QED
    BY <1>1, <1>2, <1>3, <1>4

-----------------------------------------------------------------------------
(***************************************************************************)
(* The steps of the specification.                                         *)
(***************************************************************************)
LEMMA Becomes ==
    ASSUME NEW s \in States, Become(s)
    PROVE  Now' = s
  <1>1. s = [channel |-> s.channel, connection |-> s.connection, toBroker |-> s.toBroker,
             outcome |-> s.outcome, delivered |-> s.delivered]
    BY DEF States
  <1> QED
    BY <1>1 DEF Become, Now

\* What the invariant says of the library between two handlers.
LEMMA NowSound ==
    ASSUME IInv
    PROVE  /\ Sound(Now, LastRead, Len(calls)) /\ Drained(Now)
           /\ Now \in States /\ channel \in Channels /\ connection \in Connections
           /\ Len(outcome) = Len(calls) /\ Len(calls) \in Nat
           /\ calls \in Seq(DOMAIN RequestFrame) /\ toClient \in Seq(FramesToClient)
           /\ broker \in Brokers /\ delivered \in Seq(Deliveries)
           /\ {unpaired, early, stalled} \subseteq BOOLEAN
           /\ Now.channel = channel /\ Now.connection = connection /\ Now.toBroker = toBroker
           /\ Now.outcome = outcome /\ Now.delivered = delivered
  <1>1. TypeOK /\ Sound(Now, LastRead, Len(calls))
    BY DEF IInv
  <1>2. /\ Now.channel = channel /\ Now.connection = connection /\ Now.toBroker = toBroker
        /\ Now.outcome = outcome /\ Now.delivered = delivered
    BY DEF Now
  <1>3. Drained(Now)
    BY <1>1, <1>2 DEF Drained, TypeOK
  <1> QED
    BY <1>1, <1>2, <1>3 DEF TypeOK, Sound

LEMMA TypedNext ==
    ASSUME Now' \in States, Drained(Now'),
           calls' \in Seq(DOMAIN RequestFrame), Len(outcome') = Len(calls'),
           toClient' \in Seq(FramesToClient), broker' \in Brokers,
           {unpaired', early', stalled'} \subseteq BOOLEAN
    PROVE  TypeOK'
  <1>1. /\ Now'.channel = channel' /\ Now'.connection = connection' /\ Now'.toBroker = toBroker'
        /\ Now'.outcome = outcome' /\ Now'.delivered = delivered'
    BY DEF Now
  <1>2. /\ channel' \in Channels /\ connection' \in Connections /\ toBroker' \in Seq(Frames)
        /\ outcome' \in Seq(Outcomes) /\ delivered' \in Seq(Deliveries)
    BY <1>1 DEF States
  <1>3. channel'.state = "closed" => channel'.queue = <<>>
    BY <1>1 DEF Drained
  <1> QED
    BY <1>2, <1>3 DEF TypeOK

\* A step of the library that reads nothing.
LEMMA LibraryStep ==
    ASSUME IInv, UNCHANGED <<toClient, broker, early>>,
           {unpaired', stalled'} \subseteq BOOLEAN,
           Sound(Now', LastRead, Len(calls')), Drained(Now'),
           calls' \in Seq(DOMAIN RequestFrame), Len(outcome') = Len(calls'),
           delivered' = delivered, channel'.receiver = channel.receiver,
           channel'.linked => channel.linked \/ channel.receiver = NoReceiver,
           Calling', calls' = <<>> => calls = <<>>,
           Working(channel') => calls = <<>> \/ Working(channel),
           OneOnTheWay(Now, toClient) => OneOnTheWay(Now', toClient)
    PROVE  IInv'
  <1>1. TypeOK'
    <2>1. Now' \in States
      BY DEF Sound
    <2> QED
      BY <2>1, NowSound, TypedNext
  <1>2. Sound(Now, LastRead, Len(calls))'
    BY DEF LastRead
  <1>3. Asking'
    BY DEF IInv, Asking
  <1>4. Messages'
    BY DEF IInv, Messages
  <1> QED
    BY <1>1, <1>2, <1>3, <1>4 DEF IInv

LEMMA ReadyStep ==
    ASSUME IInv, Ready
    PROVE  IInv'
  <1> DEFINE s == SetReady(Now)
  <1>1. Sound(s, LastRead, Len(calls)) /\ Keeps(Now, s) /\ s.channel = channel /\ s.outcome = outcome
    BY NowSound, SetReadySound
  <1>2. OneOnTheWay(Now, toClient) => OneOnTheWay(s, toClient)
    BY NowSound, SetReadyWay
  <1>3. Become(s) /\ UNCHANGED <<calls, toClient, broker, unpaired, early, stalled>>
    BY DEF Ready
  <1> HIDE DEF s
  <1>4. Now' = s
    BY <1>1, <1>3, Becomes DEF Sound
  <1>5. channel' = channel /\ outcome' = outcome /\ delivered' = delivered
        /\ connection'.closeCalled = connection.closeCalled
    BY <1>1, <1>3, NowSound DEF Become, Keeps
  <1>6. Drained(s)
    BY <1>1, NowSound DEF Drained
  <1>7. Calling'
    BY <1>3, <1>5 DEF Calling, IInv
  <1> QED
    BY <1>1, <1>2, <1>3, <1>4, <1>5, <1>6, <1>7, NowSound, LibraryStep

LEMMA CallStep ==
    ASSUME IInv, NEW op \in Operations, NEW size \in Sizes, Call(op, size)
    PROVE  IInv'
  <1> DEFINE n == Len(calls)
             parts == IF op = "publish" THEN 2 + size ELSE 1
             frame == FrameOfCall(op, n + 1, 1, parts)
             s == Perform(Now, frame)
  <1>1. /\ n \in 1 .. MaxCalls /\ MaxCalls \in Nat /\ MaxSize \in Nat /\ size \in 0 .. MaxSize
        /\ op \in DOMAIN RequestFrame
    BY ChannelAssumption, OperationsAssumption DEF Call, Sizes
  <1>2. /\ calls' = Append(calls, op)
        /\ UNCHANGED <<toClient, broker, early>>
    BY DEF Call
  <1>3. calls' \in Seq(DOMAIN RequestFrame) /\ Len(calls') = n + 1 /\ calls' # <<>> /\ calls # <<>>
    BY <1>1, <1>2, NowSound
  <1>4. Become(s) /\ {unpaired', stalled'} \subseteq BOOLEAN
    <2>1. unpaired \in BOOLEAN /\ stalled \in BOOLEAN
      BY NowSound
    <2>2. PICK u \in {Perform(Now, FrameOfCall(op, Len(calls'), 1, parts))} :
              Become(u) /\ unpaired' = (unpaired \/ Unpairs(op, Last(u.outcome)))
      BY DEF Call
    <2>3. Become(s)
      BY <1>3, <2>2
    <2>4. unpaired' \in BOOLEAN
      BY <2>2 DEF Unpairs
    <2>5. stalled' \in BOOLEAN
      BY <2>1 DEF Call
    <2> QED
      BY <2>3, <2>4, <2>5
  <1>5. frame \in Frames /\ frame.id = n + 1
    <2>1. parts \in 1 .. 2 + MaxSize
      BY <1>1
    <2>2. n + 1 \in 0 .. MaxCalls + 2 /\ 1 \in 1 .. 2 + MaxSize
      BY <1>1
    <2> HIDE DEF parts, n
    <2> QED
      BY <1>1, <2>1, <2>2 DEF FrameOfCall, Frames
  <1> HIDE DEF frame
  <1>6. Len(Now.outcome) + 1 <= MaxCalls + 2
    BY <1>1, NowSound
  <1>7. Sound(s, LastRead, n + 1) /\ Called(Now, s) /\ Drained(s)
    BY <1>5, <1>6, NowSound, PerformSound
  <1>8. OneOnTheWay(Now, toClient) => OneOnTheWay(s, toClient)
    BY <1>5, <1>6, NowSound, PerformWay
  <1> HIDE DEF s
  <1>9. Now' = s
    BY <1>4, <1>7, Becomes DEF Sound
  <1>10. /\ delivered' = delivered /\ channel'.receiver = channel.receiver
         /\ channel'.linked = channel.linked /\ connection'.closeCalled = connection.closeCalled
         /\ Len(outcome') = n + 1
         /\ channel.state = "closed" <=> channel'.state = "closed"
    BY <1>4, <1>7, NowSound DEF Become, Called
  <1>11. Calling'
    <2>1. n + 1 <= MaxCalls + (IF connection'.closeCalled THEN 2 ELSE 1)
      BY <1>1
    <2> QED
      BY <1>3, <2>1 DEF Calling
  <1>12. Working(channel') => Working(channel)
    BY <1>10 DEF Working
  <1> QED
    BY <1>2, <1>3, <1>4, <1>7, <1>8, <1>9, <1>10, <1>11, <1>12, LibraryStep

LEMMA AttachStep ==
    ASSUME IInv, Attach
    PROVE  IInv'
  <1> DEFINE open == FrameOfCall("open", 1, 1, 1)
             ch   == [channel EXCEPT !.state = "connected", !.linked = TRUE]
             u    == [Now EXCEPT !.channel = ch]
             new  == [u EXCEPT !.outcome = <<"done">>]
             shut == [new EXCEPT !.channel = [ch EXCEPT !.state = "closed"]]
             sent == SendFrame(new, open)
  <1>1. /\ calls = <<>> /\ calls' = <<"open">> /\ UNCHANGED <<toClient, broker, unpaired, early>>
        /\ stalled' \in BOOLEAN
    BY DEF Attach
  <1>2. Len(calls) = 0 /\ Len(calls') = 1
    BY <1>1
  <1>3. channel.state = "closed" /\ ~channel.linked /\ channel.receiver = NoReceiver
    BY <1>1 DEF IInv, Calling
  <1>4. channel.queue = <<>>
    BY <1>3, NowSound DEF Drained
  <1>5. /\ ch \in Channels /\ ch.queue = channel.queue /\ ch.state = "connected" /\ ch.linked
        /\ ch.receiver = channel.receiver /\ ch.synchronous = channel.synchronous
    BY NowSound DEF Channels
  <1>6. open \in Frames /\ open.id = 1
    BY ChannelAssumption, OperationNames DEF FrameOfCall, Frames
  <1>7. Become(IF Sends(new, open) THEN sent ELSE shut)
    <2>1. [Now EXCEPT !.channel.state = "connected", !.channel.linked = TRUE, !.outcome = <<"done">>]
              = new
      BY NowSound DEF States, Channels, Now
    <2>2. [new EXCEPT !.channel.state = "closed"] = shut
      BY NowSound DEF States, Channels, Now
    <2> HIDE DEF new, shut
    <2> QED
      BY <2>1, <2>2 DEF Attach
  <1> HIDE DEF ch
  <1>8. /\ Sound(u, LastRead, 0) /\ u.channel = ch /\ u.connection = connection
        /\ u.toBroker = toBroker /\ u.delivered = delivered
    BY <1>2, <1>5, NowSound, ChannelSound
  <1> HIDE DEF u
  <1>9. /\ Sound(new, LastRead, 0) /\ new.channel = ch /\ new.connection = connection
        /\ new.toBroker = toBroker /\ new.delivered = delivered /\ Len(new.outcome) = 1
    <2> DEFINE o == <<"done">>
    <2>1. o \in Seq(Outcomes) /\ Len(o) = 1
      BY DEF Outcomes
    <2> HIDE DEF o
    <2> QED
      BY <1>8, <2>1, OutcomeSound DEF o
  <1> HIDE DEF new, open
  <1>10. SameWay(Now, new)
    BY <1>5, <1>9, NowSound DEF SameWay
  <1>11. OneOnTheWay(Now, toClient) => OneOnTheWay(new, toClient)
    BY <1>10, SameWayOne
  <1>12. CASE Sends(new, open)
    <2>1. Sound(sent, LastRead, 1) /\ Keeps(new, sent)
      BY <1>6, <1>9, SendFrameSound
    <2>2. Drained(sent)
      BY <1>5, <1>6, <1>9, SendFrameSound DEF Drained
    <2>3. OneOnTheWay(new, toClient) => OneOnTheWay(sent, toClient)
      <3> DEFINE f == <<open>>
      <3>1. f \in Seq(Frames) /\ OneAsks(f)
        BY <1>6, AskingNone
      <3>2. sent = SendFrames(new, f)
        BY <1>12 DEF SendFrame
      <3> HIDE DEF f
      <3> QED
        BY <1>9, <3>1, <3>2, SendFramesWay DEF Sound
    <2>4. Become(sent)
      BY <1>7, <1>12
    <2> HIDE DEF sent
    <2>5. Now' = sent
      BY <2>1, <2>4, Becomes DEF Sound
    <2>6. /\ delivered' = delivered /\ channel'.receiver = channel.receiver
          /\ Len(outcome') = 1
      BY <1>5, <1>9, <2>1, <2>4 DEF Become, Keeps
    <2>7. Calling'
      BY <1>1, <1>2, ChannelAssumption DEF Calling
    <2>8. calls' \in Seq(DOMAIN RequestFrame)
      BY <1>1, OperationNames
    <2> QED
      BY <1>1, <1>2, <1>3, <1>11, <2>1, <2>2, <2>3, <2>5, <2>6, <2>7, <2>8, NowSound, LibraryStep
  <1>13. CASE ~Sends(new, open)
    <2> DEFINE closed == [ch EXCEPT !.state = "closed"]
    <2>1. /\ closed \in Channels /\ closed.queue = <<>> /\ closed.receiver = channel.receiver
          /\ closed.synchronous = channel.synchronous
      BY <1>4, <1>5 DEF Channels
    <2>2. shut = [new EXCEPT !.channel = closed]
      OBVIOUS
    <2> HIDE DEF closed, shut
    <2>3. /\ Sound(shut, LastRead, 0) /\ shut.channel = closed /\ shut.connection = new.connection
          /\ shut.toBroker = new.toBroker /\ shut.delivered = new.delivered
          /\ shut.outcome = new.outcome
      BY <1>9, <2>1, <2>2, ChannelSound
    <2>4. Sound(shut, LastRead, 1) /\ Drained(shut)
      BY <2>1, <2>3, SoundLater DEF Drained
    <2>5. SameWay(Now, shut)
      BY <1>9, <2>1, <2>3, NowSound DEF SameWay
    <2>6. OneOnTheWay(Now, toClient) => OneOnTheWay(shut, toClient)
      BY <2>5, SameWayOne
    <2>7. Become(shut)
      BY <1>7, <1>13
    <2>8. Now' = shut
      BY <2>4, <2>7, Becomes DEF Sound
    <2>9. /\ delivered' = delivered /\ channel'.receiver = channel.receiver
          /\ Len(outcome') = 1
      BY <1>9, <2>1, <2>3, <2>7 DEF Become
    <2>10. Calling'
      BY <1>1, <1>2, ChannelAssumption DEF Calling
    <2>11. calls' \in Seq(DOMAIN RequestFrame)
      BY <1>1, OperationNames
    <2> QED
      BY <1>1, <1>2, <1>3, <2>4, <2>6, <2>8, <2>9, <2>10, <2>11, NowSound, LibraryStep
  <1> QED
    BY <1>12, <1>13

\* close() of the connection, in Close and in Destroy.
LEMMA ClosingCalls ==
    ASSUME IInv, NEW s, s = CloseConnection(Now)
    PROVE  /\ Sound(s, LastRead, Len(CallsOfClose(s))) /\ Drained(s)
           /\ CallsOfClose(s) \in Seq(DOMAIN RequestFrame)
           /\ Len(CallsOfClose(s)) = Len(s.outcome)
           /\ CallsOfClose(s) = <<>> => calls = <<>>
           /\ Len(CallsOfClose(s)) <= MaxCalls + (IF s.connection.closeCalled THEN 2 ELSE 1)
           /\ CallsOfClose(s) = <<>> => s.channel.state = "closed"
           /\ s.channel.receiver = channel.receiver /\ s.channel.linked = channel.linked
           /\ s.delivered = delivered
           /\ s.channel.state = "closed" <=> channel.state = "closed"
           /\ OneOnTheWay(Now, toClient) => OneOnTheWay(s, toClient)
  <1>1. /\ Sound(Now, LastRead, Len(Now.outcome)) /\ Drained(Now)
        /\ Len(Now.outcome) <= MaxCalls + (IF Now.connection.closeCalled THEN 2 ELSE 1)
    BY NowSound DEF IInv, Calling
  <1>2. /\ Sound(s, LastRead, Len(s.outcome)) /\ Drained(s)
        /\ s.channel.receiver = Now.channel.receiver
        /\ s.channel.linked = Now.channel.linked
        /\ s.delivered = Now.delivered
        /\ Len(s.outcome) = Len(Now.outcome) \/ Len(s.outcome) = Len(Now.outcome) + 1
        /\ Len(s.outcome) <= MaxCalls + (IF s.connection.closeCalled THEN 2 ELSE 1)
        /\ Now.channel.state = "closed" <=> s.channel.state = "closed"
    BY <1>1, CloseConnectionSound
  <1>3. OneOnTheWay(Now, toClient) => OneOnTheWay(s, toClient)
    BY <1>1, CloseConnectionWay
  <1>4. /\ CallsOfClose(s) \in Seq(DOMAIN RequestFrame)
        /\ Len(CallsOfClose(s)) = Len(s.outcome)
        /\ CallsOfClose(s) = <<>> => calls = <<>>
    <2>1. CASE Len(s.outcome) = Len(calls)
      BY <2>1, NowSound DEF CallsOfClose
    <2>2. CASE Len(s.outcome) = Len(calls) + 1
      <3>1. CallsOfClose(s) = Append(calls, "close")
        BY <2>2, NowSound DEF CallsOfClose
      <3> QED
        BY <2>2, <3>1, NowSound, OperationNames
    <2> QED
      BY <1>2, <2>1, <2>2, NowSound
  <1>5. CallsOfClose(s) = <<>> => s.channel.state = "closed"
    BY <1>2, <1>4, NowSound DEF IInv, Calling
  <1> QED
    BY <1>2, <1>3, <1>4, <1>5, NowSound

LEMMA CloseStep ==
    ASSUME IInv, Close
    PROVE  IInv'
  <1> DEFINE s == CloseConnection(Now)
  <1>1. /\ Become(s) /\ calls' = CallsOfClose(s)
        /\ UNCHANGED <<toClient, broker, early, stalled>>
    BY DEF Close
  <1>2. unpaired' \in BOOLEAN
    BY NowSound DEF Close, Unpairs
  <1>3. /\ Sound(s, LastRead, Len(CallsOfClose(s))) /\ Drained(s)
        /\ CallsOfClose(s) \in Seq(DOMAIN RequestFrame)
        /\ Len(CallsOfClose(s)) = Len(s.outcome)
        /\ CallsOfClose(s) = <<>> => calls = <<>>
        /\ Len(CallsOfClose(s)) <= MaxCalls + (IF s.connection.closeCalled THEN 2 ELSE 1)
        /\ CallsOfClose(s) = <<>> => s.channel.state = "closed"
        /\ s.channel.receiver = channel.receiver /\ s.channel.linked = channel.linked
        /\ s.delivered = delivered
        /\ s.channel.state = "closed" <=> channel.state = "closed"
        /\ OneOnTheWay(Now, toClient) => OneOnTheWay(s, toClient)
    BY ClosingCalls
  <1> HIDE DEF s
  <1>4. Now' = s
    BY <1>1, <1>3, Becomes DEF Sound
  <1>5. /\ channel' = s.channel /\ connection' = s.connection /\ delivered' = s.delivered
        /\ outcome' = s.outcome
    BY <1>1 DEF Become
  <1>6. Calling'
    <2>1. calls' = <<>> => ~channel'.linked /\ channel'.receiver = NoReceiver
      BY <1>1, <1>3, <1>5 DEF IInv, Calling
    <2> QED
      BY <1>1, <1>3, <1>5, <2>1 DEF Calling
  <1>7. Working(channel') => Working(channel)
    BY <1>3, <1>5 DEF Working
  <1>8. {unpaired', stalled'} \subseteq BOOLEAN
    BY <1>1, <1>2, NowSound
  <1> QED
    BY <1>1, <1>3, <1>4, <1>5, <1>6, <1>7, <1>8, LibraryStep

LEMMA DestroyStep ==
    ASSUME IInv, Destroy
    PROVE  IInv'
  <1> DEFINE s   == CloseConnection(Now)
             ch  == [s.channel EXCEPT !.linked = FALSE]
             u   == [s EXCEPT !.channel = ch]
             con == [s.connection EXCEPT !.state = "gone"]
             t   == [u EXCEPT !.connection = con]
  <1>1. /\ Become([s EXCEPT !.connection.state = "gone", !.channel.linked = FALSE])
        /\ calls' = CallsOfClose(s) /\ toClient' = <<>>
        /\ UNCHANGED <<broker, unpaired, early, stalled>>
    BY DEF Destroy
  <1>2. /\ Sound(s, LastRead, Len(calls')) /\ Drained(s)
        /\ calls' \in Seq(DOMAIN RequestFrame)
        /\ Len(calls') = Len(s.outcome)
        /\ calls' = <<>> => calls = <<>>
        /\ Len(calls') <= MaxCalls + (IF s.connection.closeCalled THEN 2 ELSE 1)
        /\ calls' = <<>> => s.channel.state = "closed"
        /\ s.channel.receiver = channel.receiver
        /\ s.delivered = delivered
        /\ OneOnTheWay(Now, toClient) => OneOnTheWay(s, toClient)
    BY <1>1, ClosingCalls
  <1> HIDE DEF s
  <1>3. s \in States /\ s.channel \in Channels /\ s.connection \in Connections
    BY <1>2, StateMembers
  <1>4. Become(t)
    <2>1. [s EXCEPT !.connection.state = "gone", !.channel.linked = FALSE] = t
      BY <1>3 DEF States, Channels, Connections
    <2> HIDE DEF t
    <2> QED
      BY <1>1, <2>1
  <1>5. /\ ch \in Channels /\ ch.queue = s.channel.queue /\ ~ch.linked /\ ch.state = s.channel.state
        /\ ch.receiver = s.channel.receiver /\ ch.synchronous = s.channel.synchronous
    BY <1>3 DEF Channels
  <1>6. /\ con \in Connections /\ con.queue = s.connection.queue /\ con.state = "gone"
        /\ con.closeCalled = s.connection.closeCalled
    BY <1>3 DEF Connections
  <1> HIDE DEF ch, con
  <1>7. /\ Sound(u, LastRead, Len(calls')) /\ u.channel = ch /\ u.connection = s.connection
        /\ u.toBroker = s.toBroker /\ u.outcome = s.outcome /\ u.delivered = s.delivered
    BY <1>2, <1>5, ChannelSound
  <1> HIDE DEF u
  <1>8. /\ Sound(t, LastRead, Len(calls')) /\ t.channel = ch /\ t.connection = con
        /\ t.toBroker = s.toBroker /\ t.outcome = s.outcome /\ t.delivered = s.delivered
    BY <1>6, <1>7, ConnectionSound
  <1> HIDE DEF t
  <1>9. Now' = t
    BY <1>4, <1>8, Becomes DEF Sound
  <1>10. /\ channel' = ch /\ connection' = con /\ delivered' = delivered /\ outcome' = s.outcome
    BY <1>2, <1>4, <1>8 DEF Become
  <1>11. Drained(t)
    BY <1>2, <1>5, <1>8 DEF Drained
  <1>12. TypeOK'
    <2>1. Now' \in States /\ toClient' \in Seq(FramesToClient)
      BY <1>1, <1>8, <1>9 DEF Sound
    <2> QED
      BY <1>1, <1>2, <1>9, <1>10, <1>11, <2>1, NowSound, TypedNext
  <1>13. Sound(Now, LastRead, Len(calls))'
    BY <1>1, <1>8, <1>9 DEF LastRead
  <1>14. Calling'
    <2>1. calls' = <<>> => channel'.receiver = NoReceiver
      BY <1>2, <1>5, <1>10 DEF IInv, Calling
    <2> QED
      BY <1>2, <1>5, <1>6, <1>10, <2>1 DEF Calling
  <1>15. Asking'
    <2>1. ASSUME ~early', calls' = <<>>
          PROVE  OneOnTheWay(Now', toClient')
      <3>1. OneOnTheWay(s, toClient)
        BY <1>1, <1>2, <2>1 DEF IInv, Asking
      <3>2. SameWay(s, t)
        BY <1>5, <1>6, <1>8 DEF SameWay
      <3>3. OneOnTheWay(t, toClient)
        BY <3>1, <3>2, SameWayOne
      <3>4. NoneReplies(<<>>) /\ OneReplies(<<>>)
        BY DEF NoneReplies, OneReplies
      <3> QED
        BY <1>1, <1>9, <3>3, <3>4 DEF OneOnTheWay
    <2>2. ~Working(channel')
      BY <1>5, <1>10 DEF Working
    <2> QED
      BY <2>1, <2>2 DEF Asking
  <1>16. Messages'
    <2>1. AnswersNamed(<<>>) /\ InPieces(<<>>)
      BY DEF AnswersNamed, InPieces
    <2>2. channel'.receiver = channel.receiver
      BY <1>2, <1>5, <1>10
    <2>3. TagsGrow(delivered, channel.receiver, <<>>, broker.messages)
      BY DEF IInv, Messages, TagsGrow
    <2> QED
      BY <1>1, <1>5, <1>10, <2>1, <2>2, <2>3 DEF IInv, Messages
  <1> QED
    BY <1>12, <1>13, <1>14, <1>15, <1>16 DEF IInv

LEMMA ReadStep ==
    ASSUME IInv, NEW more \in BOOLEAN, ReadFrame(more)
    PROVE  IInv'
  <1> DEFINE q    == toClient
             t    == ProcessReceived(Now, Head(q))
             s    == IF more THEN t ELSE SendCloseWhenIdle(t)
             n    == Len(calls)
  <1>1. /\ connection.state \in {"connected", "closing"} /\ q # <<>>
        /\ Become(s) /\ early' = (early \/ FlushesEarly(Head(q), t))
        /\ toClient' = Tail(q) /\ UNCHANGED <<calls, broker, unpaired, stalled>>
    <2>1. q \in Seq(FramesToClient) /\ Len(q) > (IF more THEN 1 ELSE 0)
      BY NowSound DEF ReadFrame
    <2>2. q # <<>>
      BY <2>1
    <2> QED
      BY <2>2 DEF ReadFrame
  <1>2. /\ q \in Seq(FramesToClient) /\ InPieces(q) /\ AnswersNamed(q)
        /\ channel.linked /\ channel.receiver # NoReceiver => Receiving(channel.receiver, q)
    BY NowSound DEF IInv, Messages
  <1>3. Read(Now, t, LastRead, n, q)
    BY <1>1, <1>2, NowSound, ProcessReceivedSound
  <1>4. Sound(t, LastRead, n) /\ Drained(t) /\ Stays(Now, t) /\ Receives(Now, t, q)
        /\ Proceeds(Now, t, Head(q))
    BY <1>3 DEF Read
  <1>5. ~channel.linked /\ OneOnTheWay(Now, q) => OneOnTheWay(t, q)
    BY NowSound, UnlinkedWay
  <1> HIDE DEF t
  <1>6. /\ Sound(s, LastRead, n) /\ s.channel = t.channel /\ s.outcome = t.outcome
        /\ s.delivered = t.delivered /\ s.connection.closeCalled = t.connection.closeCalled
        /\ OneOnTheWay(t, Tail(q)) => OneOnTheWay(s, Tail(q))
    BY <1>4, CloseWhenIdleSound, CloseWhenIdleWay DEF Keeps
  <1> HIDE DEF s
  <1>7. Now' = s
    BY <1>1, <1>6, Becomes DEF Sound
  <1>8. /\ channel' = t.channel /\ outcome' = t.outcome /\ delivered' = t.delivered
        /\ connection'.closeCalled = connection.closeCalled /\ Len(outcome') = Len(outcome)
        /\ ~channel.linked => channel' = channel
        /\ channel.state = "closed" => channel'.state = "closed"
    BY <1>1, <1>4, <1>6, NowSound DEF Become, Stays
  <1>9. Tail(q) \in Seq(FramesToClient)
    BY <1>1, <1>2, Shifted
  <1>10. TypeOK'
    <2>1. Now' \in States /\ Drained(Now')
      BY <1>4, <1>6, <1>7 DEF Sound, Drained
    <2>2. early' \in BOOLEAN
      BY <1>1, NowSound DEF FlushesEarly
    <2> QED
      BY <1>1, <1>8, <1>9, <2>1, <2>2, NowSound, TypedNext
  <1>11. Sound(Now, LastRead, Len(calls))'
    BY <1>1, <1>6, <1>7 DEF LastRead
  <1>12. Calling'
    BY <1>1, <1>8 DEF IInv, Calling
  <1>13. Asking'
    <2> SUFFICES ASSUME ~early', calls' = <<>> \/ Working(channel')
                 PROVE  OneOnTheWay(s, Tail(q))
      BY <1>1, <1>7 DEF Asking
    <2>1. ~early /\ ~FlushesEarly(Head(q), t)
      BY <1>1
    <2>2. OneOnTheWay(Now, q)
      BY <1>1, <1>8, <2>1 DEF IInv, Asking, Working
    <2>3. CASE ~channel.linked
      <3>1. OneOnTheWay(t, q)
        BY <1>5, <2>2, <2>3
      <3>2. OneOnTheWay(t, Tail(q))
        BY <1>1, <1>2, <3>1, FewerReplies DEF OneOnTheWay
      <3> QED
        BY <1>6, <3>2
    <2>4. CASE channel.linked
      <3>1. Working(t.channel)
        BY <1>1, <1>8, <2>4 DEF IInv, Calling
      <3>2. channel.synchronous =>
               /\ ~(Head(q).is = "ok" /\ Head(q).op \notin SynchronousOperations)
               /\ ~(channel.receiver.get /\ Len(t.delivered) > Len(delivered))
        BY <2>1 DEF FlushesEarly
      <3>3. OneOnTheWay(t, Tail(q))
        BY <1>1, <1>2, <1>4, <2>2, <3>1, <3>2, NowSound, ReadWay
      <3> QED
        BY <1>6, <3>3
    <2> QED
      BY <2>3, <2>4
  <1>14. Messages'
    <2>1. AnswersNamed(Tail(q))
      BY <1>1, <1>2, Shifted DEF AnswersNamed
    <2>2. InPieces(Tail(q))
      BY <1>1, <1>2, InPiecesLater
    <2>3. channel'.linked /\ channel'.receiver # NoReceiver => Receiving(channel'.receiver, Tail(q))
      BY <1>4, <1>8, NowSound DEF Receives, Ignores, Starts, Continues, Finishes
    <2>4. /\ TagsGrow(delivered', channel'.receiver, Tail(q), broker.messages)
          /\ WholeInOrder(delivered')
      <3>1. broker.messages \in Nat
        BY NowSound, ChannelAssumption DEF Brokers
      <3>2. /\ channel.receiver \in Receivers
            /\ TagsGrow(delivered, channel.receiver, q, broker.messages) /\ WholeInOrder(delivered)
        BY NowSound DEF IInv, Messages, Channels
      <3> QED
        BY <1>1, <1>2, <1>4, <1>8, <3>1, <3>2, NowSound, TagsRead
    <2> QED
      BY <1>1, <2>1, <2>2, <2>3, <2>4 DEF Messages
  <1> QED
    BY <1>10, <1>11, <1>12, <1>13, <1>14 DEF IInv

\* A step of the broker: it may take a frame, and adds some for the client.
LEMMA BrokerStep ==
    ASSUME IInv, UNCHANGED libraryVars, broker' \in Brokers,
           NEW extra \in Seq(FramesToClient), toClient' = toClient \o extra,
           Sound(Now', LastRead', Len(calls)),
           OneOnTheWay(Now, toClient) => OneOnTheWay(Now', toClient'),
           InPieces(extra), AnswersNamed(extra),
           broker'.messages \in {broker.messages, broker.messages + 1},
           \A i \in DOMAIN extra : Opens(extra[i]) =>
               /\ i = 1 /\ extra[i].id = broker.messages + 1
               /\ broker'.messages = broker.messages + 1
    PROVE  IInv'
  <1> DEFINE q == toClient
  <1>1. /\ UNCHANGED <<channel, connection, calls, outcome, delivered, unpaired, early, stalled>>
    BY DEF libraryVars
  <1>2. toClient' \in Seq(FramesToClient) /\ q \in Seq(FramesToClient)
    BY NowSound
  <1>3. TypeOK'
    <2>1. Now' \in States /\ Drained(Now')
      BY <1>1, NowSound DEF Sound, Drained, Now
    <2> QED
      BY <1>1, <1>2, <2>1, NowSound, TypedNext
  <1>4. Calling'
    BY <1>1 DEF IInv, Calling
  <1>5. Asking'
    BY <1>1 DEF IInv, Asking
  <1>6. Messages'
    <2>1. /\ AnswersNamed(q) /\ InPieces(q) /\ WholeInOrder(delivered)
          /\ channel.linked /\ channel.receiver # NoReceiver => Receiving(channel.receiver, q)
          /\ TagsGrow(delivered, channel.receiver, q, broker.messages)
      BY DEF IInv, Messages
    <2>2. AnswersNamed(q \o extra) /\ InPieces(q \o extra)
      BY <1>2, <2>1, RepliesConcatenated, InPiecesConcatenated
    <2>3. channel.linked /\ channel.receiver # NoReceiver => Receiving(channel.receiver, q \o extra)
      BY <1>2, <2>1, ReceivingLater
    <2>4. /\ broker.messages \in Nat /\ channel.receiver.tag \in Nat
          /\ \A k \in DOMAIN delivered : delivered[k].tag \in Nat
      <3>1. broker.messages \in Nat
        BY NowSound, ChannelAssumption DEF Brokers
      <3>2. channel.receiver.tag \in Nat
        BY NowSound, ChannelAssumption DEF Channels, Receivers
      <3>3. \A d \in Deliveries : d.tag \in Nat
        BY ChannelAssumption DEF Deliveries
      <3>4. \A k \in DOMAIN delivered : delivered[k] \in Deliveries
        BY NowSound
      <3> QED
        BY <3>1, <3>2, <3>3, <3>4
    <2>5. TagsGrow(delivered, channel.receiver, q \o extra, broker'.messages)
      BY <1>2, <2>1, <2>4, TagsSent
    <2> QED
      BY <1>1, <2>1, <2>2, <2>3, <2>5 DEF Messages
  <1>7. Sound(Now, LastRead, Len(calls))'
    BY <1>1
  <1> QED
    BY <1>3, <1>4, <1>5, <1>6, <1>7 DEF IInv

LEMMA TookSound ==
    ASSUME broker \in Brokers, NEW frame \in Frames
    PROVE  /\ Took(frame) \in Brokers
           /\ Took(frame).messages = broker.messages /\ Took(frame).errors = broker.errors
           /\ Took(frame).read \in {broker.read, <<frame.id, frame.part, frame.parts>>}
  <1> DEFINE read == IF frame.id = 0 THEN broker.read ELSE <<frame.id, frame.part, frame.parts>>
             con  == IF frame.op \in ConnectionFrameOps THEN "closed" ELSE broker.connection
             ch   == CASE frame.op = "open" -> "open"
                       [] frame.op = "channelCloseOK" -> "closed"
                       [] frame.op = "close" /\ broker.channel = "open" -> "closed"
                       [] OTHER -> broker.channel
             consuming == (broker.consuming \/ frame.op = "consume") /\ frame.op \notin {"cancel", "close"}
  <1>1. Took(frame) = [broker EXCEPT !.read = read, !.connection = con, !.channel = ch,
                                     !.consuming = consuming]
    BY DEF Took
  <1>2. read \in Nat \X Nat \X Nat
    <2>1. frame.id \in Nat /\ frame.part \in Nat /\ frame.parts \in Nat
      BY ChannelAssumption DEF Frames
    <2>2. broker.read \in Nat \X Nat \X Nat
      BY DEF Brokers
    <2> QED
      BY <2>1, <2>2
  <1>3. con \in {"open", "closing", "closed"}
    BY DEF Brokers
  <1>4. ch \in {"none", "open", "closing", "closed"}
    <2>1. broker.channel \in {"none", "open", "closing", "closed"}
      BY DEF Brokers
    <2>2. CASE frame.op = "open"
      BY <2>2
    <2>3. CASE frame.op = "channelCloseOK"
      BY <2>3
    <2>4. CASE frame.op = "close" /\ broker.channel = "open"
      BY <2>4
    <2>5. CASE frame.op \notin {"open", "channelCloseOK"} /\ ~(frame.op = "close" /\ broker.channel = "open")
      BY <2>1, <2>5
    <2> QED
      BY <2>2, <2>3, <2>4, <2>5
  <1>5. consuming \in BOOLEAN
    OBVIOUS
  <1>6. read \in {broker.read, <<frame.id, frame.part, frame.parts>>}
    OBVIOUS
  <1> HIDE DEF read, con, ch, consuming
  <1> QED
    BY <1>1, <1>2, <1>3, <1>4, <1>5, <1>6 DEF Brokers

\* The broker takes a frame, whatever it makes of it.
LEMMA FrameTaken ==
    ASSUME IInv, NEW frame \in Incoming, Reads
    PROVE  /\ frame \in Frames /\ toBroker # <<>> /\ frame = Head(toBroker)
           /\ UNCHANGED libraryVars
           /\ broker'.read \in {broker.read, <<frame.id, frame.part, frame.parts>>} =>
                 Sound(Now', LastRead', Len(calls))
           /\ \A extra \in Seq(FramesToClient) :
                 OneReplies(extra) /\ (~Asks(frame) => NoneReplies(extra)) =>
                     (OneOnTheWay(Now, toClient) => OneOnTheWay(Now', toClient \o extra))
  <1>1. /\ toBroker' = Tail(toBroker)
        /\ UNCHANGED <<channel, connection, calls, outcome, delivered, unpaired, early, stalled>>
    BY DEF Reads, libraryVars
  <1>2. toBroker \in Seq(Frames)
    BY NowSound DEF States
  <1>3. 1 \in DOMAIN toBroker /\ frame = toBroker[1] /\ toBroker # <<>>
    <2>1. 1 \in DOMAIN toBroker /\ frame = toBroker[1]
      BY DEF Incoming
    <2> QED
      BY <2>1
  <1>4. frame = Head(toBroker) /\ frame \in Frames /\ Tail(toBroker) \in Seq(Frames)
    BY <1>2, <1>3, Shifted
  <1>5. /\ Now'.toBroker = Tail(Now.toBroker) /\ Now'.channel = Now.channel
        /\ Now'.connection = Now.connection
    BY <1>1 DEF Now
  <1>6. Now' \in States
    BY <1>1, <1>4, NowSound DEF Now, States
  <1>7. Now.toBroker # <<>> /\ Head(Now.toBroker) = frame
    BY <1>3, <1>4, NowSound
  <1>8. ASSUME broker'.read \in {broker.read, <<frame.id, frame.part, frame.parts>>}
        PROVE  Sound(Now', LastRead', Len(calls))
    <2> DEFINE r == LastRead'
    <2>1. r = LastRead \/ (r.id = frame.id /\ r.part = frame.part)
      BY <1>8 DEF LastRead
    <2> HIDE DEF r
    <2>2. Sound(Now', r, Len(calls))
      BY <1>5, <1>6, <1>7, <2>1, NowSound, BrokerReadsSound
    <2> QED
      BY <2>2 DEF r
  <1>9. ASSUME NEW extra \in Seq(FramesToClient), OneReplies(extra), ~Asks(frame) => NoneReplies(extra),
               OneOnTheWay(Now, toClient)
        PROVE  OneOnTheWay(Now', toClient \o extra)
    BY <1>5, <1>7, <1>9, NowSound, BrokerWay
  <1> QED
    BY <1>3, <1>4, <1>8, <1>9 DEF Reads

\* A frame that is no part of a message.
LEMMA PlainFrame ==
    ASSUME NEW f \in FramesToClient, ~Opens(f), f.is # "header",
           f.is = "openOK" => f.op = "open", NEW extra, extra = <<f>>
    PROVE  /\ extra \in Seq(FramesToClient) /\ InPieces(extra) /\ AnswersNamed(extra)
           /\ OneReplies(extra) /\ (~Replies(f) => NoneReplies(extra))
           /\ \A i \in DOMAIN extra : ~Opens(extra[i])
           /\ \A q \in Seq(FramesToClient) : Append(q, f) = q \o extra
  <1>1. extra \in Seq(FramesToClient) /\ \A i \in DOMAIN extra : i = 1 /\ extra[i] = f
    OBVIOUS
  <1>2. \A q \in Seq(FramesToClient) : Append(q, f) = q \o extra
    BY AppendIsConcat
  <1> HIDE DEF Opens
  <1>3. f.is # "getOK"
    BY DEF Opens
  <1> QED
    BY <1>1, <1>2, <1>3 DEF InPieces, AnswersNamed, OneReplies, NoneReplies

LEMMA NoFrames ==
    /\ <<>> \in Seq(FramesToClient) /\ InPieces(<<>>) /\ AnswersNamed(<<>>)
    /\ OneReplies(<<>>) /\ NoneReplies(<<>>)
    /\ \A q \in Seq(FramesToClient) : q = q \o <<>>
    /\ \A i \in DOMAIN <<>> : FALSE
  BY DEF InPieces, AnswersNamed, OneReplies, NoneReplies

LEMMA IgnoreStep ==
    ASSUME IInv, BrokerIgnore
    PROVE  IInv'
  <1>1. PICK frame \in Incoming : Reads /\ UNCHANGED <<toClient, broker>>
    BY DEF BrokerIgnore
  <1> DEFINE extra == <<>>
  <1>2. /\ extra \in Seq(FramesToClient) /\ InPieces(extra) /\ AnswersNamed(extra)
        /\ OneReplies(extra) /\ NoneReplies(extra) /\ toClient' = toClient \o extra
        /\ \A i \in DOMAIN extra : ~Opens(extra[i])
    BY <1>1, NoFrames, NowSound
  <1> HIDE DEF extra
  <1>3. /\ UNCHANGED libraryVars
        /\ Sound(Now', LastRead', Len(calls))
        /\ OneOnTheWay(Now, toClient) => OneOnTheWay(Now', toClient')
    BY <1>1, <1>2, FrameTaken
  <1> QED
    BY <1>1, <1>2, <1>3, NowSound, BrokerStep

LEMMA ComplainStep ==
    ASSUME IInv, BrokerComplain
    PROVE  IInv'
  <1>1. PICK frame \in Incoming :
            /\ Reads /\ ~Allowed(frame)
            /\ broker' = [broker EXCEPT !.connection = "closing", !.complaint = frame.op]
            /\ toClient' = Append(toClient, ToClient("connectionClose", "none", 0, 0, 0))
    BY DEF BrokerComplain
  <1> DEFINE f     == ToClient("connectionClose", "none", 0, 0, 0)
             extra == <<f>>
  <1>2. f \in FramesToClient /\ ~Opens(f) /\ f.is = "connectionClose" /\ ~Replies(f)
    BY ChannelAssumption DEF ToClient, FramesToClient, Opens, Replies
  <1>3. toClient' = Append(toClient, f)
    BY <1>1
  <1> HIDE DEF f
  <1>4. /\ extra \in Seq(FramesToClient) /\ InPieces(extra) /\ AnswersNamed(extra)
        /\ OneReplies(extra) /\ NoneReplies(extra) /\ toClient' = toClient \o extra
        /\ \A i \in DOMAIN extra : ~Opens(extra[i])
    BY <1>2, <1>3, PlainFrame, NowSound
  <1> HIDE DEF extra
  <1>5. frame \in Frames
    BY <1>1, FrameTaken
  <1>6. broker' \in Brokers /\ broker'.messages = broker.messages /\ broker'.read = broker.read
    <2>1. frame.op \in {"channelCloseOK"} \cup DOMAIN RequestFrame
      BY <1>1, <1>5 DEF Allowed, ConnectionFrameOps, Frames
    <2> QED
      BY <1>1, <2>1, NowSound DEF Brokers
  <1>7. /\ UNCHANGED libraryVars
        /\ Sound(Now', LastRead', Len(calls))
        /\ OneOnTheWay(Now, toClient) => OneOnTheWay(Now', toClient')
    BY <1>1, <1>4, <1>6, FrameTaken
  <1> QED
    BY <1>4, <1>6, <1>7, BrokerStep

LEMMA AcceptStep ==
    ASSUME IInv, BrokerAccept
    PROVE  IInv'
  <1>1. PICK frame \in Incoming :
            /\ Reads
            /\ broker' = Took(frame)
            /\ toClient' = CASE frame.op \in Answered -> Append(toClient, Answer(frame))
                             [] frame.op = "connectionClose" ->
                                  Append(toClient, ToClient("connectionCloseOK", "none", 0, 0, 0))
                             [] OTHER -> toClient
    BY DEF BrokerAccept
  <1>2. frame \in Frames
    BY <1>1, FrameTaken
  <1>3. broker' \in Brokers /\ broker'.messages = broker.messages
        /\ broker'.read \in {broker.read, <<frame.id, frame.part, frame.parts>>}
    BY <1>1, <1>2, NowSound, TookSound
  <1>4. \E extra \in Seq(FramesToClient) :
            /\ InPieces(extra) /\ AnswersNamed(extra)
            /\ OneReplies(extra) /\ (~Asks(frame) => NoneReplies(extra))
            /\ toClient' = toClient \o extra
            /\ \A i \in DOMAIN extra : ~Opens(extra[i])
    <2>1. CASE frame.op \in Answered
      <3> DEFINE f == Answer(frame)
      <3>1. frame.op \in DOMAIN RequestFrame /\ frame.id \in Nat
        BY <1>2, <2>1, ChannelAssumption DEF Answered, Frames
      <3>2. /\ f \in FramesToClient /\ ~Opens(f) /\ f.is # "header" /\ f.op = frame.op
            /\ f.is = "openOK" => f.op = "open"
        BY <3>1, ChannelAssumption DEF Answer, AnswerIs, ToClient, FramesToClient, Opens
      <3>3. toClient' = Append(toClient, f)
        <4>1. frame.op # "connectionClose"
          BY <3>1, OperationsKnown
        <4> HIDE DEF f
        <4>2. toClient' = Append(toClient, Answer(frame))
          BY <1>1, <2>1, <4>1
        <4> QED
          BY <4>2 DEF f
      <3>4. ~Asks(frame) => ~Replies(f)
        BY <2>1, <3>2 DEF Asks, Replies
      <3> HIDE DEF f
      <3> DEFINE extra == <<f>>
      <3>5. /\ extra \in Seq(FramesToClient) /\ InPieces(extra) /\ AnswersNamed(extra)
            /\ OneReplies(extra) /\ (~Asks(frame) => NoneReplies(extra))
            /\ toClient' = toClient \o extra
            /\ \A i \in DOMAIN extra : ~Opens(extra[i])
        BY <3>2, <3>3, <3>4, PlainFrame, NowSound
      <3> HIDE DEF extra
      <3> QED
        BY <3>5
    <2>2. CASE frame.op \notin Answered /\ frame.op = "connectionClose"
      <3> DEFINE f == ToClient("connectionCloseOK", "none", 0, 0, 0)
      <3>1. f \in FramesToClient /\ ~Opens(f) /\ f.is = "connectionCloseOK" /\ ~Replies(f)
        BY ChannelAssumption DEF ToClient, FramesToClient, Opens, Replies
      <3>2. toClient' = Append(toClient, f)
        BY <1>1, <2>2
      <3> HIDE DEF f
      <3> DEFINE extra == <<f>>
      <3>3. /\ extra \in Seq(FramesToClient) /\ InPieces(extra) /\ AnswersNamed(extra)
            /\ OneReplies(extra) /\ NoneReplies(extra)
            /\ toClient' = toClient \o extra
            /\ \A i \in DOMAIN extra : ~Opens(extra[i])
        BY <3>1, <3>2, PlainFrame, NowSound
      <3> HIDE DEF extra
      <3> QED
        BY <3>3
    <2>3. CASE frame.op \notin Answered /\ frame.op # "connectionClose"
      <3> DEFINE extra == <<>>
      <3>1. toClient' = toClient
        BY <1>1, <2>3
      <3>2. /\ extra \in Seq(FramesToClient) /\ InPieces(extra) /\ AnswersNamed(extra)
            /\ OneReplies(extra) /\ NoneReplies(extra) /\ toClient' = toClient \o extra
            /\ \A i \in DOMAIN extra : ~Opens(extra[i])
        BY <3>1, NoFrames, NowSound
      <3> HIDE DEF extra
      <3> QED
        BY <3>2
    <2> QED
      BY <2>1, <2>2, <2>3
  <1>5. PICK extra \in Seq(FramesToClient) :
            /\ InPieces(extra) /\ AnswersNamed(extra)
            /\ OneReplies(extra) /\ (~Asks(frame) => NoneReplies(extra))
            /\ toClient' = toClient \o extra
            /\ \A i \in DOMAIN extra : ~Opens(extra[i])
    BY <1>4
  <1>6. /\ UNCHANGED libraryVars
        /\ Sound(Now', LastRead', Len(calls))
        /\ OneOnTheWay(Now, toClient) => OneOnTheWay(Now', toClient')
    BY <1>1, <1>3, <1>5, FrameTaken
  <1> QED
    BY <1>3, <1>5, <1>6, BrokerStep

LEMMA RefuseStep ==
    ASSUME IInv, BrokerRefuse
    PROVE  IInv'
  <1>1. PICK frame \in Incoming :
            /\ Reads /\ broker.errors < MaxErrors
            /\ broker' = [Took(frame) EXCEPT !.channel = "closing", !.consuming = FALSE,
                                             !.errors = @ + 1]
            /\ toClient' = Append(toClient, ToClient("channelClose", "none", 0, 0, 0))
    BY DEF BrokerRefuse
  <1> DEFINE f     == ToClient("channelClose", "none", 0, 0, 0)
             extra == <<f>>
  <1>2. f \in FramesToClient /\ ~Opens(f) /\ f.is = "channelClose" /\ ~Replies(f)
    BY ChannelAssumption DEF ToClient, FramesToClient, Opens, Replies
  <1>3. toClient' = Append(toClient, f)
    BY <1>1
  <1> HIDE DEF f
  <1>4. /\ extra \in Seq(FramesToClient) /\ InPieces(extra) /\ AnswersNamed(extra)
        /\ OneReplies(extra) /\ NoneReplies(extra) /\ toClient' = toClient \o extra
        /\ \A i \in DOMAIN extra : ~Opens(extra[i])
    BY <1>2, <1>3, PlainFrame, NowSound
  <1> HIDE DEF extra
  <1>5. frame \in Frames
    BY <1>1, FrameTaken
  <1>6. /\ broker' \in Brokers /\ broker'.messages = broker.messages
        /\ broker'.read \in {broker.read, <<frame.id, frame.part, frame.parts>>}
    <2> DEFINE took == Took(frame)
    <2>1. /\ took \in Brokers /\ took.messages = broker.messages
          /\ took.read \in {broker.read, <<frame.id, frame.part, frame.parts>>}
          /\ took.errors = broker.errors
      BY <1>5, NowSound, TookSound
    <2>2. broker' = [took EXCEPT !.channel = "closing", !.consuming = FALSE, !.errors = @ + 1]
      BY <1>1
    <2> HIDE DEF took
    <2>3. took.errors + 1 \in 0 .. MaxErrors
      BY <1>1, <2>1, ChannelAssumption DEF Brokers
    <2> QED
      BY <2>1, <2>2, <2>3 DEF Brokers
  <1>7. /\ UNCHANGED libraryVars
        /\ Sound(Now', LastRead', Len(calls))
        /\ OneOnTheWay(Now, toClient) => OneOnTheWay(Now', toClient')
    BY <1>1, <1>4, <1>6, FrameTaken
  <1> QED
    BY <1>4, <1>6, <1>7, BrokerStep

LEMMA GetStep ==
    ASSUME IInv, NEW size \in Sizes, BrokerGet(size)
    PROVE  IInv'
  <1> DEFINE tag == broker.messages + 1
  <1>1. PICK frame \in Incoming :
            /\ Reads /\ frame.op = "get" /\ broker.messages < MaxMessages
            /\ broker' = [Took(frame) EXCEPT !.messages = @ + 1]
            /\ toClient' = toClient \o Content("getOK", "get", frame.id, broker'.messages, size)
    BY DEF BrokerGet
  <1>2. frame \in Frames
    BY <1>1, FrameTaken
  <1>3. /\ broker' \in Brokers /\ broker'.messages = tag /\ tag \in 1 .. MaxMessages
        /\ broker'.read \in {broker.read, <<frame.id, frame.part, frame.parts>>}
    <2> DEFINE took == Took(frame)
    <2>1. /\ took \in Brokers /\ took.messages = broker.messages
          /\ took.read \in {broker.read, <<frame.id, frame.part, frame.parts>>}
      BY <1>2, NowSound, TookSound
    <2>2. broker' = [took EXCEPT !.messages = @ + 1]
      BY <1>1
    <2> HIDE DEF took
    <2>3. tag \in 0 .. MaxMessages /\ tag \in 1 .. MaxMessages
      <3>1. broker.messages \in 0 .. MaxMessages /\ MaxMessages \in Nat
        BY NowSound, ChannelAssumption DEF Brokers
      <3> QED
        BY <1>1, <3>1
    <2> QED
      BY <2>1, <2>2, <2>3 DEF Brokers
  <1> DEFINE extra == Content("getOK", "get", frame.id, tag, size)
  <1> HIDE DEF tag
  <1>4. toClient' = toClient \o extra
    BY <1>1, <1>3
  <1>5. /\ extra \in Seq(FramesToClient) /\ InPieces(extra) /\ AnswersNamed(extra)
        /\ OneReplies(extra)
        /\ \A i \in DOMAIN extra : Opens(extra[i]) => i = 1 /\ extra[i].id = tag
    <2> DEFINE call == frame.id
    <2>1. call \in Nat
      BY <1>2, ChannelAssumption DEF Frames
    <2>2. "getOK" \in {"getOK", "deliver"} /\ "get" \in DOMAIN RequestFrame \cup {"none"}
      BY OperationNames
    <2>3. tag \in 1 .. MaxMessages
      BY <1>3
    <2>4. extra = Content("getOK", "get", call, tag, size)
      OBVIOUS
    <2> HIDE DEF call, extra
    <2> QED
      BY <2>1, <2>2, <2>3, <2>4, ContentFrames
  <1>6. Asks(frame)
    BY <1>1, OperationNames, OperationsKnown DEF Asks, Answered, Unanswered
  <1> HIDE DEF extra
  <1>7. /\ UNCHANGED libraryVars
        /\ Sound(Now', LastRead', Len(calls))
        /\ OneOnTheWay(Now, toClient) => OneOnTheWay(Now', toClient')
    BY <1>1, <1>3, <1>4, <1>5, <1>6, FrameTaken
  <1> QED
    BY <1>3, <1>4, <1>5, <1>7, BrokerStep DEF tag

\* What the broker sends of its own accord.
LEMMA SendStep ==
    ASSUME IInv, NEW extra \in Seq(FramesToClient), BrokerSends(extra),
           broker' \in Brokers, broker'.read = broker.read,
           InPieces(extra), AnswersNamed(extra), NoneReplies(extra),
           broker'.messages \in {broker.messages, broker.messages + 1},
           \A i \in DOMAIN extra : Opens(extra[i]) =>
               /\ i = 1 /\ extra[i].id = broker.messages + 1
               /\ broker'.messages = broker.messages + 1
    PROVE  IInv'
  <1>1. toClient' = toClient \o extra /\ UNCHANGED libraryVars /\ toBroker' = toBroker
    BY DEF BrokerSends
  <1>2. Now' = Now /\ LastRead' = LastRead
    BY <1>1 DEF Now, LastRead, libraryVars
  <1>3. OneOnTheWay(Now, toClient) => OneOnTheWay(Now', toClient')
    BY <1>1, <1>2, NowSound, SendsWay
  <1>4. Sound(Now', LastRead', Len(calls))
    BY <1>2, NowSound
  <1> QED
    BY <1>1, <1>3, <1>4, BrokerStep

LEMMA DeliverStep ==
    ASSUME IInv, NEW size \in Sizes, BrokerDeliver(size)
    PROVE  IInv'
  <1> DEFINE tag == broker.messages + 1
             extra == Content("deliver", "none", 0, tag, size)
  <1>1. /\ broker.messages < MaxMessages /\ broker' = [broker EXCEPT !.messages = @ + 1]
        /\ BrokerSends(Content("deliver", "none", 0, broker'.messages, size))
    BY DEF BrokerDeliver
  <1>2. broker' \in Brokers /\ broker'.messages = tag /\ tag \in 1 .. MaxMessages
        /\ broker'.read = broker.read
    <2>1. tag \in 0 .. MaxMessages /\ tag \in 1 .. MaxMessages
      <3>1. broker.messages \in 0 .. MaxMessages /\ MaxMessages \in Nat
        BY NowSound, ChannelAssumption DEF Brokers
      <3> QED
        BY <1>1, <3>1
    <2> QED
      BY <1>1, <2>1, NowSound DEF Brokers
  <1> HIDE DEF tag
  <1>3. BrokerSends(extra)
    BY <1>1, <1>2
  <1>4. /\ extra \in Seq(FramesToClient) /\ InPieces(extra) /\ AnswersNamed(extra)
        /\ NoneReplies(extra)
        /\ \A i \in DOMAIN extra : Opens(extra[i]) => i = 1 /\ extra[i].id = tag
    <2> DEFINE call == 0
               is   == "deliver"
               op   == "none"
    <2>1. /\ is \in {"getOK", "deliver"} /\ is # "getOK" /\ is = "deliver"
          /\ op \in DOMAIN RequestFrame \cup {"none"}
      OBVIOUS
    <2>2. tag \in 1 .. MaxMessages /\ call \in Nat
      BY <1>2
    <2>3. extra = Content(is, op, call, tag, size)
      OBVIOUS
    <2>4. is = "getOK" => op = "get"
      BY <2>1
    <2> HIDE DEF call, is, op, extra
    <2>5. extra \in Seq(FramesToClient) /\ InPieces(extra) /\ AnswersNamed(extra)
      BY <2>1, <2>2, <2>3, <2>4, ContentFrames
    <2>6. NoneReplies(extra)
      BY <2>1, <2>2, <2>3, <2>4, ContentFrames
    <2>7. \A i \in DOMAIN extra : Opens(extra[i]) => i = 1 /\ extra[i].id = tag
      BY <2>1, <2>2, <2>3, <2>4, ContentFrames
    <2> QED
      BY <2>5, <2>6, <2>7
  <1> HIDE DEF extra
  <1> QED
    BY <1>2, <1>3, <1>4, SendStep DEF tag

LEMMA CloseFrameStep ==
    ASSUME IInv, NEW is \in {"cancel", "connectionClose"},
           BrokerSends(<<ToClient(is, "none", 0, 0, 0)>>),
           broker' \in Brokers, broker'.read = broker.read, broker'.messages = broker.messages
    PROVE  IInv'
  <1> DEFINE f     == ToClient(is, "none", 0, 0, 0)
             extra == <<f>>
  <1>1. f \in FramesToClient /\ ~Opens(f) /\ f.is \notin {"header", "openOK"} /\ ~Replies(f)
    BY ChannelAssumption DEF ToClient, FramesToClient, Opens, Replies
  <1>2. BrokerSends(extra)
    OBVIOUS
  <1> HIDE DEF f
  <1>3. /\ extra \in Seq(FramesToClient) /\ InPieces(extra) /\ AnswersNamed(extra)
        /\ NoneReplies(extra)
        /\ \A i \in DOMAIN extra : ~Opens(extra[i])
    BY <1>1, PlainFrame
  <1> HIDE DEF extra
  <1> QED
    BY <1>2, <1>3, SendStep

LEMMA CancelStep ==
    ASSUME IInv, BrokerCancel
    PROVE  IInv'
  <1>1. /\ broker.errors < MaxErrors
        /\ broker' = [broker EXCEPT !.consuming = FALSE, !.errors = @ + 1]
        /\ BrokerSends(<<ToClient("cancel", "none", 0, 0, 0)>>)
    BY DEF BrokerCancel
  <1>2. broker' \in Brokers /\ broker'.read = broker.read /\ broker'.messages = broker.messages
    <2>1. broker.errors + 1 \in 0 .. MaxErrors
      BY <1>1, NowSound, ChannelAssumption DEF Brokers
    <2> QED
      BY <1>1, <2>1, NowSound DEF Brokers
  <1> QED
    BY <1>1, <1>2, CloseFrameStep

LEMMA ShutdownStep ==
    ASSUME IInv, BrokerShutdown
    PROVE  IInv'
  <1>1. /\ broker.errors < MaxErrors
        /\ broker' = [broker EXCEPT !.connection = "closing", !.errors = @ + 1]
        /\ BrokerSends(<<ToClient("connectionClose", "none", 0, 0, 0)>>)
    BY DEF BrokerShutdown
  <1>2. broker' \in Brokers /\ broker'.read = broker.read /\ broker'.messages = broker.messages
    <2>1. broker.errors + 1 \in 0 .. MaxErrors
      BY <1>1, NowSound, ChannelAssumption DEF Brokers
    <2> QED
      BY <1>1, <2>1, NowSound DEF Brokers
  <1> QED
    BY <1>1, <1>2, CloseFrameStep

-----------------------------------------------------------------------------
(***************************************************************************)
(* The invariant is inductive, and what follows from it.                   *)
(***************************************************************************)
LEMMA InitInvariant == Init => IInv
  <1> SUFFICES ASSUME Init PROVE IInv
    OBVIOUS
  <1> USE DEF Init
  <1>1. /\ {MaxSize, MaxCalls, MaxMessages, MaxErrors} \subseteq Nat
        /\ <<>> \in Seq(Frames) /\ <<>> \in Seq(Bodies) /\ <<>> \in Seq(1 .. MaxCalls + 2)
        /\ <<>> \in Seq(Outcomes) /\ <<>> \in Seq(Deliveries) /\ <<>> \in Seq(FramesToClient)
        /\ <<>> \in Seq(DOMAIN RequestFrame) /\ Len(<<>>) = 0
    BY ChannelAssumption
  <1>2. channel \in Channels
    <2>1. NoReceiver \in Receivers
      BY <1>1 DEF NoReceiver, Receiver, Receivers, Sizes
    <2> QED
      BY <1>1, <2>1 DEF Channels
  <1>3. connection \in Connections
    BY <1>1 DEF Connections
  <1>4. broker \in Brokers
    BY <1>1 DEF Brokers
  <1>5. TypeOK
    BY <1>1, <1>2, <1>3, <1>4 DEF TypeOK
  <1>6. Sound(Now, LastRead, Len(calls))
    <2>1. Now \in States
      BY <1>1, <1>2, <1>3 DEF Now, States
    <2>2. /\ Now.toBroker = <<>> /\ Now.connection.queue = <<>> /\ Now.channel.queue = <<>>
          /\ Len(calls) = 0 /\ LastRead.id = 0
      BY <1>1 DEF Now, LastRead
    <2>3. /\ InOrder(<<>>) /\ Numbered(<<>>, 0)
          /\ \A p : AllBefore(p, <<>>)
      BY DEF InOrder, Numbered, AllBefore
    <2> QED
      BY <2>1, <2>2, <2>3 DEF Sound
  <1>7. Calling
    BY <1>1 DEF Calling
  <1>8. Asking
    <2>1. NoneAsks(<<>>) /\ NoneReplies(<<>>) /\ OneReplies(<<>>)
      BY DEF NoneAsks, NoneReplies, OneReplies
    <2> QED
      BY <2>1 DEF Asking, OneOnTheWay, Now
  <1>9. Messages
    <2>1. AnswersNamed(<<>>) /\ InPieces(<<>>) /\ WholeInOrder(<<>>)
      BY DEF AnswersNamed, InPieces, WholeInOrder
    <2>2. TagsGrow(<<>>, NoReceiver, <<>>, 0)
      BY DEF TagsGrow, NoReceiver, Receiver
    <2> QED
      BY <2>1, <2>2 DEF Messages
  <1> QED
    BY <1>5, <1>6, <1>7, <1>8, <1>9 DEF IInv

LEMMA NextInvariant == IInv /\ [Next]_vars => IInv'
  <1> SUFFICES ASSUME IInv, [Next]_vars PROVE IInv'
    OBVIOUS
  <1>1. CASE Attach
    BY <1>1, AttachStep
  <1>2. CASE Close
    BY <1>2, CloseStep
  <1>3. CASE Destroy
    BY <1>3, DestroyStep
  <1>4. CASE Ready
    BY <1>4, ReadyStep
  <1>5. ASSUME NEW op \in Operations, Call(op, 0)
        PROVE  IInv'
    <2>1. 0 \in Sizes
      BY ChannelAssumption DEF Sizes
    <2> QED
      BY <1>5, <2>1, CallStep
  <1>6. ASSUME "publish" \in Operations, NEW size \in Sizes, Call("publish", size)
        PROVE  IInv'
    BY <1>6, CallStep
  <1>7. ASSUME NEW more \in BOOLEAN, ReadFrame(more)
        PROVE  IInv'
    BY <1>7, ReadStep
  <1>8. CASE BrokerReads
    BY <1>8, IgnoreStep, ComplainStep, AcceptStep DEF BrokerReads
  <1>9. CASE BrokerRefuse
    BY <1>9, RefuseStep
  <1>10. CASE BrokerCancel
    BY <1>10, CancelStep
  <1>11. CASE BrokerShutdown
    BY <1>11, ShutdownStep
  <1>12. ASSUME NEW size \in Sizes, BrokerGet(size)
         PROVE  IInv'
    BY <1>12, GetStep
  <1>13. ASSUME NEW size \in Sizes, BrokerDeliver(size)
         PROVE  IInv'
    BY <1>13, DeliverStep
  <1>14. CASE UNCHANGED vars
    <2>1. /\ UNCHANGED <<channel, connection, calls, outcome, delivered, unpaired, early, stalled>>
          /\ UNCHANGED <<toBroker, toClient, broker>>
      BY <1>14 DEF vars, libraryVars
    <2>2. Now' = Now /\ LastRead' = LastRead
      BY <2>1 DEF Now, LastRead
    <2>3. TypeOK'
      BY <2>1 DEF IInv, TypeOK
    <2>4. Sound(Now, LastRead, Len(calls))'
      BY <2>1, <2>2 DEF IInv
    <2>5. Calling' /\ Asking' /\ Messages'
      BY <2>1, <2>2 DEF IInv, Calling, Asking, Messages
    <2> QED
      BY <2>3, <2>4, <2>5 DEF IInv
  <1> QED
    BY <1>1, <1>2, <1>3, <1>4, <1>5, <1>6, <1>7, <1>8, <1>9, <1>10, <1>11, <1>12, <1>13, <1>14
       DEF Next

LEMMA Invariant == Spec => []IInv
  BY InitInvariant, NextInvariant, PTL DEF Spec

\* The state of the channel, of its connection and of the broker, the queues and
\* what is on its way between them have their types, in particular numbers of
\* calls and messages that stay within their bounds; a channel that is closed
\* holds no frames.
THEOREM ChannelTyped == Spec => []TypeOK
  <1>1. IInv => TypeOK
    BY DEF IInv
  <1> QED
    BY <1>1, Invariant, PTL

LEMMA LineInOrder == IInv => CallsInOrder
  <1> SUFFICES ASSUME IInv PROVE CallsInOrder
    OBVIOUS
  <1> DEFINE p == toBroker
             q == connection.queue
             r == channel.queue
             read == <<LastRead>>
  <1>1. /\ InOrder(p) /\ InOrder(q) /\ InOrder(r)
        /\ AllBefore(p, q) /\ AllBefore(p, r) /\ AllBefore(q, r)
        /\ AllBefore(read, p) /\ AllBefore(read, q) /\ AllBefore(read, r)
    BY NowSound DEF Sound
  <1>2. p \in Seq(Frames) /\ q \in Seq(Frames) /\ r \in Seq(Frames)
    BY NowSound DEF States, Channels, Connections
  <1>3. LastRead = [id |-> broker.read[1], part |-> broker.read[2]] /\ read[1] = LastRead
        /\ 1 \in DOMAIN read
    BY DEF LastRead
  <1>4. Line = (p \o q) \o r
    BY DEF Line
  <1> HIDE DEF p, q, r, read
  <1>5. p \o q \in Seq(Frames) /\ InOrder(p \o q) /\ AllBefore(p \o q, r) /\ AllBefore(read, p \o q)
    BY <1>1, <1>2, InOrderConcatenated, BeforeConcatenated, Concatenated
  <1> DEFINE pq == p \o q
  <1>6. Line = pq \o r /\ pq \in Seq(Frames) /\ InOrder(pq) /\ AllBefore(pq, r) /\ AllBefore(read, pq)
    BY <1>4, <1>5
  <1> HIDE DEF pq
  <1>7. InOrder(Line) /\ AllBefore(read, Line)
    BY <1>1, <1>2, <1>6, InOrderConcatenated, BeforeConcatenated
  <1>8. \A i, j \in DOMAIN Line : i < j => Before(Line[i], Line[j])
    BY <1>7 DEF InOrder
  <1>9. \A i \in DOMAIN Line : Before(LastRead, Line[i])
    BY <1>3, <1>7 DEF AllBefore
  <1> QED
    BY <1>3, <1>8, <1>9 DEF CallsInOrder

\* The frames of the calls of a program reach the broker in the order of the
\* calls, none of them twice and none between the parts of a message, for any
\* operations, however many calls are made, and whether they were sent at once,
\* held for an answer or held until the connection was ready.
THEOREM CallsKeepOrder == Spec => []CallsInOrder
  BY Invariant, LineInOrder, PTL

\* Every message that was given to the callback is whole, and no message is given
\* twice or before one that the broker sent earlier, whatever the size of the
\* messages and whatever else is on the way between their frames.
THEOREM MessagesArriveWhole == Spec => []MessagesWhole
  <1>1. IInv => MessagesWhole
    BY DEF IInv, Messages, MessagesWhole, WholeInOrder, Whole
  <1> QED
    BY <1>1, Invariant, PTL

LEMMA AtMostOne ==
    ASSUME NEW S, \A x, y \in S : x = y
    PROVE  Cardinality(S) <= 1
  <1>1. CASE S = {}
    BY <1>1, FS_EmptySet
  <1>2. CASE S # {}
    <2>1. PICK x \in S : S = {x}
      BY <1>2
    <2> QED
      BY <2>1, FS_Singleton
  <1> QED
    BY <1>1, <1>2

LEMMA AwaitedOne ==
    ASSUME OneOnTheWay(Now, toClient)
    PROVE  /\ \A x, y \in Awaited : x = y
           /\ Awaited # {} => channel.synchronous
  <1> DEFINE sent     == {<<"sent", i>> : i \in {j \in DOMAIN toBroker : Asks(toBroker[j])}}
             answered == {<<"answered", i>> : i \in {j \in DOMAIN toClient : Replies(toClient[j])}}
  <1>1. Awaited = sent \cup answered
    BY DEF Awaited, Asks, Replies
  <1>2. NoneAsks(toBroker) => sent = {}
    BY DEF NoneAsks
  <1>3. NoneReplies(toClient) => answered = {}
    BY DEF NoneReplies
  <1>4. OneAsks(toBroker) => \A x, y \in sent : x = y
    BY DEF OneAsks
  <1>5. OneReplies(toClient) => \A x, y \in answered : x = y
    BY DEF OneReplies
  <1> HIDE DEF sent, answered
  <1> QED
    BY <1>1, <1>2, <1>3, <1>4, <1>5 DEF OneOnTheWay, Now

\* After a synchronous request the library sends no other before the answer has
\* been read, whatever the requests are, as long as the channel works and no
\* flush has run while an answer was outstanding.
THEOREM OneAtATime == Spec => []OneRequestAtATime
  <1>1. IInv => OneRequestAtATime
    <2> SUFFICES ASSUME IInv, ~early, Working(channel)
                 PROVE  Cardinality(Awaited) <= 1 /\ (Awaited # {} => channel.synchronous)
      BY DEF OneRequestAtATime, Working
    <2>1. OneOnTheWay(Now, toClient)
      BY DEF IInv, Asking
    <2> QED
      BY <2>1, AwaitedOne, AtMostOne
  <1> QED
    BY <1>1, Invariant, PTL
=============================================================================
