---------------------- MODULE AmqpChannelAnswers_proofs ----------------------
(***************************************************************************)
(* AnswersMatch of AmqpChannel: the answer that settles a call with        *)
(* success is the one the broker gave to that call, for any operations     *)
(* and any number of calls, messages and unasked closes.  The chain of     *)
(* callbacks knows no numbers: its head gets the next answer, whatever it  *)
(* is.  The invariant relates four sequences: the chain, the answers on    *)
(* the way, the requests on the way and those that wait in the queues.     *)
(***************************************************************************)
EXTENDS AmqpChannelBroker_proofs

-----------------------------------------------------------------------------
(***************************************************************************)
(* The answers on their way to the library: which calls they are for, and  *)
(* which of them come before the broker closes the channel.                *)
(***************************************************************************)
IsAnswer(a) == a.is \in {"ok", "getOK", "closeOK"}

AnswersIn(p) == {i \in DOMAIN p : IsAnswer(p[i])}

TheAnswers(p) == {p[i] : i \in AnswersIn(p)}

CallsIn(p) == {p[i].call : i \in AnswersIn(p)}

TimelyIn(p) == {i \in AnswersIn(p) : \A j \in DOMAIN p : j < i => p[j].is # "channelClose"}

TimelyCalls(p) == {p[i].call : i \in TimelyIn(p)}

InTurn(p) == \A i, j \in AnswersIn(p) : i < j => p[i].call < p[j].call

\* The call n was made after all that p has answers for.
Later(p, n) == \A k \in CallsIn(p) : k < n

Refuses(p) == \E i \in DOMAIN p : p[i].is = "channelClose"

\* What follows that is no answer changes nothing.
LEMMA PlainBehind ==
    ASSUME NEW p \in Seq(FramesToClient), NEW q \in Seq(FramesToClient), AnswersIn(q) = {}
    PROVE  /\ CallsIn(p \o q) = CallsIn(p) /\ TimelyCalls(p \o q) = TimelyCalls(p)
           /\ AnswersIn(p \o q) = AnswersIn(p)
           /\ \A i \in DOMAIN p : i \in DOMAIN (p \o q) /\ (p \o q)[i] = p[i]
           /\ InTurn(p) => InTurn(p \o q)
           /\ Refuses(p) => Refuses(p \o q)
  <1> DEFINE c == p \o q
  <1>1. /\ \A i \in DOMAIN p : i \in DOMAIN c /\ c[i] = p[i]
        /\ \A i \in DOMAIN c : \/ i \in DOMAIN p /\ c[i] = p[i]
                               \/ \E j \in DOMAIN q : i = Len(p) + j /\ c[i] = q[j]
        /\ \A i \in DOMAIN p : \A j \in DOMAIN q : i < Len(p) + j
    BY Concatenated
  <1>2. /\ DOMAIN p \subseteq Nat /\ DOMAIN q \subseteq Nat /\ DOMAIN c \subseteq Nat /\ Len(p) \in Nat
        /\ DOMAIN p = 1 .. Len(p)
    OBVIOUS
  <1> HIDE DEF c
  <1>3. AnswersIn(c) = AnswersIn(p)
    BY <1>1 DEF AnswersIn
  <1>4. TimelyIn(c) = TimelyIn(p)
    <2>1. \A i \in AnswersIn(p) : \A j \in DOMAIN c : j < i => j \in DOMAIN p
      BY <1>1, <1>2 DEF AnswersIn
    <2> QED
      BY <1>1, <1>3, <2>1 DEF TimelyIn
  <1>5. \A i \in AnswersIn(p) : c[i] = p[i]
    BY <1>1 DEF AnswersIn
  <1>6. TimelyIn(p) \subseteq AnswersIn(p)
    BY DEF TimelyIn
  <1>7. CallsIn(c) = CallsIn(p) /\ TimelyCalls(c) = TimelyCalls(p)
    BY <1>3, <1>4, <1>5, <1>6 DEF CallsIn, TimelyCalls
  <1>8. InTurn(p) => InTurn(c)
    BY <1>3, <1>5 DEF InTurn
  <1>9. Refuses(p) => Refuses(c)
    BY <1>1 DEF Refuses
  <1> QED
    BY <1>1, <1>3, <1>7, <1>8, <1>9 DEF c

\* An answer for a later call, and what comes with it; it comes too late if the
\* channel is refused before.
LEMMA AnswerBehind ==
    ASSUME NEW p \in Seq(FramesToClient), NEW q \in Seq(FramesToClient),
           AnswersIn(q) = {1}, InTurn(p), Later(p, q[1].call)
    PROVE  /\ CallsIn(p \o q) = CallsIn(p) \cup {q[1].call}
           /\ TimelyCalls(p \o q) \subseteq TimelyCalls(p) \cup {q[1].call}
           /\ Refuses(p) => TimelyCalls(p \o q) \subseteq TimelyCalls(p) /\ Refuses(p \o q)
           /\ TheAnswers(p \o q) \subseteq TheAnswers(p) \cup {q[1]}
           /\ InTurn(p \o q)
  <1> DEFINE c == p \o q
             a == q[1]
             n == Len(p) + 1
  <1>1. /\ \A i \in DOMAIN p : i \in DOMAIN c /\ c[i] = p[i]
        /\ \A j \in DOMAIN q : Len(p) + j \in DOMAIN c /\ c[Len(p) + j] = q[j]
        /\ \A i \in DOMAIN c : \/ i \in DOMAIN p /\ c[i] = p[i]
                               \/ \E j \in DOMAIN q : i = Len(p) + j /\ c[i] = q[j]
    BY Concatenated
  <1> HIDE DEF c
  <1>2. /\ 1 \in DOMAIN q /\ IsAnswer(a) /\ \A j \in DOMAIN q : IsAnswer(q[j]) => j = 1
    BY DEF AnswersIn
  <1>3. /\ n \in DOMAIN c /\ c[n] = a
        /\ \A i \in DOMAIN p : i < n /\ ~(n < i)
        /\ n \notin DOMAIN p
    <2>1. DOMAIN p = 1 .. Len(p) /\ Len(p) \in Nat
      OBVIOUS
    <2>2. n \notin DOMAIN p /\ \A i \in DOMAIN p : i < n /\ ~(n < i)
      BY <2>1
    <2>3. n \in DOMAIN c /\ c[n] = q[1]
      BY <1>1, <1>2
    <2> QED
      BY <2>2, <2>3
  <1>4. \A i \in AnswersIn(c) : i \in AnswersIn(p) \/ i = n
    <2> SUFFICES ASSUME NEW i \in AnswersIn(c), i \notin DOMAIN p
                 PROVE  i = n
      BY <1>1 DEF AnswersIn
    <2>1. PICK j \in DOMAIN q : i = Len(p) + j /\ c[i] = q[j]
      BY <1>1 DEF AnswersIn
    <2>2. j = 1
      BY <1>2, <2>1 DEF AnswersIn
    <2> QED
      BY <2>1, <2>2
  <1>5. \A i \in AnswersIn(p) : i \in AnswersIn(c) /\ c[i] = p[i] /\ i \in DOMAIN p
    BY <1>1 DEF AnswersIn
  <1>6. n \in AnswersIn(c)
    BY <1>2, <1>3 DEF AnswersIn
  <1> HIDE DEF n, a
  <1>7. CallsIn(c) = CallsIn(p) \cup {a.call}
    <2>1. \A k \in CallsIn(c) : k \in CallsIn(p) \cup {a.call}
      BY <1>3, <1>4, <1>5 DEF CallsIn
    <2>2. ASSUME NEW i \in AnswersIn(p)
          PROVE  p[i].call \in CallsIn(c)
      <3>1. i \in AnswersIn(c) /\ c[i].call = p[i].call
        BY <1>5
      <3> QED
        BY <3>1 DEF CallsIn
    <2>3. a.call \in CallsIn(c)
      <3>1. a.call = c[n].call
        BY <1>3
      <3> QED
        BY <1>6, <3>1 DEF CallsIn
    <2>4. CallsIn(p) \subseteq CallsIn(c)
      BY <2>2 DEF CallsIn
    <2> QED
      BY <2>1, <2>3, <2>4
  <1>8. TimelyIn(p) \subseteq AnswersIn(p) /\ TimelyIn(c) \subseteq AnswersIn(c)
    BY DEF TimelyIn
  <1>9. \A i \in TimelyIn(c) : i \in TimelyIn(p) \/ i = n
    BY <1>1, <1>4, <1>8 DEF TimelyIn
  <1>10. TimelyCalls(c) \subseteq TimelyCalls(p) \cup {a.call}
    BY <1>3, <1>5, <1>8, <1>9 DEF TimelyCalls
  <1>11. ASSUME Refuses(p)
         PROVE  TimelyCalls(c) \subseteq TimelyCalls(p) /\ Refuses(c)
    <2>1. PICK j \in DOMAIN p : p[j].is = "channelClose"
      BY <1>11 DEF Refuses
    <2>2. n \notin TimelyIn(c)
      BY <1>1, <1>3, <2>1 DEF TimelyIn
    <2> QED
      BY <1>1, <1>5, <1>8, <1>9, <2>1, <2>2 DEF TimelyCalls, Refuses
  <1>12. InTurn(c)
    <2> SUFFICES ASSUME NEW i \in AnswersIn(c), NEW j \in AnswersIn(c), i < j
                 PROVE  c[i].call < c[j].call
      BY DEF InTurn
    <2>1. CASE i \in AnswersIn(p) /\ j \in AnswersIn(p)
      BY <1>5, <2>1 DEF InTurn
    <2>2. CASE i \in AnswersIn(p) /\ j = n
      BY <1>3, <1>5, <2>2 DEF CallsIn, Later, a
    <2>3. CASE i = n
      <3>1. ~(n < n)
        <4>1. Len(p) + 1 \in Nat
          OBVIOUS
        <4> QED
          BY <4>1 DEF n
      <3> QED
        BY <1>3, <1>4, <1>5, <2>3, <3>1
    <2> QED
      BY <1>4, <2>1, <2>2, <2>3
  <1>13. TheAnswers(c) \subseteq TheAnswers(p) \cup {a}
    BY <1>3, <1>4, <1>5 DEF TheAnswers
  <1> QED
    BY <1>7, <1>10, <1>11, <1>12, <1>13 DEF a, c

\* The first is read.
LEMMA FirstRead ==
    ASSUME NEW p \in Seq(FramesToClient), p # <<>>, InTurn(p),
           NEW a, a = Head(p), NEW t, t = Tail(p)
    PROVE  /\ InTurn(t) /\ CallsIn(t) \subseteq CallsIn(p)
           /\ CallsIn(p) \subseteq CallsIn(t) \cup (IF IsAnswer(a) THEN {a.call} ELSE {})
           /\ IsAnswer(a) => /\ a.call \in CallsIn(p) /\ a.call \in TimelyCalls(p)
                             /\ \A k \in CallsIn(t) : a.call < k
           /\ a.is # "channelClose" => TimelyCalls(t) \subseteq TimelyCalls(p)
           /\ a.is # "channelClose" /\ Refuses(p) => Refuses(t)
           /\ TheAnswers(t) \subseteq TheAnswers(p)
  <1>1. /\ a = p[1] /\ 1 \in DOMAIN p
        /\ \A i \in DOMAIN t : i \in Nat /\ i + 1 \in DOMAIN p /\ t[i] = p[i + 1]
        /\ \A i \in DOMAIN p : i # 1 => i - 1 \in DOMAIN t /\ t[i - 1] = p[i]
        /\ DOMAIN p \subseteq Nat \ {0} /\ DOMAIN t \subseteq Nat \ {0}
    BY Shifted
  <1>2. \A i \in AnswersIn(t) : i \in Nat \ {0} /\ i + 1 \in AnswersIn(p) /\ t[i] = p[i + 1]
    BY <1>1 DEF AnswersIn
  <1>3. InTurn(t)
    <2> SUFFICES ASSUME NEW i \in AnswersIn(t), NEW j \in AnswersIn(t), i < j
                 PROVE  t[i].call < t[j].call
      BY DEF InTurn
    <2>1. i + 1 < j + 1
      BY <1>2
    <2> QED
      BY <1>2, <2>1 DEF InTurn
  <1>4. CallsIn(t) \subseteq CallsIn(p)
    <2> SUFFICES ASSUME NEW i \in AnswersIn(t)
                 PROVE  t[i].call \in CallsIn(p)
      BY DEF CallsIn
    <2>1. i + 1 \in AnswersIn(p) /\ t[i].call = p[i + 1].call
      BY <1>2
    <2> QED
      BY <2>1 DEF CallsIn
  <1>5. \A i \in AnswersIn(p) : i = 1 \/ (i - 1 \in AnswersIn(t) /\ t[i - 1] = p[i])
    BY <1>1 DEF AnswersIn
  <1>6. CallsIn(p) \subseteq CallsIn(t) \cup (IF IsAnswer(a) THEN {a.call} ELSE {})
    <2> SUFFICES ASSUME NEW i \in AnswersIn(p)
                 PROVE  p[i].call \in CallsIn(t) \/ (IsAnswer(a) /\ p[i].call = a.call)
      BY DEF CallsIn
    <2>1. CASE i = 1
      BY <1>1, <2>1 DEF AnswersIn
    <2>2. CASE i # 1
      <3>1. i - 1 \in AnswersIn(t) /\ p[i].call = t[i - 1].call
        BY <1>5, <2>2
      <3> QED
        BY <3>1 DEF CallsIn
    <2> QED
      BY <2>1, <2>2
  <1>7. ASSUME IsAnswer(a)
        PROVE  /\ a.call \in CallsIn(p) /\ a.call \in TimelyCalls(p)
               /\ \A k \in CallsIn(t) : a.call < k
    <2>1. 1 \in AnswersIn(p)
      BY <1>1, <1>7 DEF AnswersIn
    <2>2. 1 \in TimelyIn(p)
      <3>1. \A j \in DOMAIN p : ~(j < 1)
        BY <1>1
      <3> QED
        BY <2>1, <3>1 DEF TimelyIn
    <2>3. \A i \in AnswersIn(t) : a.call < t[i].call
      <3> SUFFICES ASSUME NEW i \in AnswersIn(t)
                   PROVE  a.call < t[i].call
        OBVIOUS
      <3> DEFINE j == i + 1
      <3>1. i \in Nat \ {0} /\ i + 1 \in AnswersIn(p) /\ t[i] = p[i + 1]
        BY <1>2
      <3>2. j \in AnswersIn(p) /\ t[i] = p[j]
        BY <3>1
      <3>3. 1 < j
        BY <3>1
      <3> HIDE DEF j
      <3> QED
        BY <1>1, <2>1, <3>2, <3>3 DEF InTurn
    <2> QED
      BY <1>1, <2>1, <2>2, <2>3 DEF CallsIn, TimelyCalls
  <1>8. ASSUME a.is # "channelClose"
        PROVE  /\ TimelyCalls(t) \subseteq TimelyCalls(p)
               /\ Refuses(p) => Refuses(t)
    <2>1. \A i \in TimelyIn(t) : i + 1 \in TimelyIn(p) /\ t[i] = p[i + 1]
      <3> SUFFICES ASSUME NEW i \in TimelyIn(t)
                   PROVE  i + 1 \in TimelyIn(p) /\ t[i] = p[i + 1]
        OBVIOUS
      <3>1. i \in AnswersIn(t) /\ \A j \in DOMAIN t : j < i => t[j].is # "channelClose"
        BY DEF TimelyIn
      <3>2. i \in Nat /\ i + 1 \in AnswersIn(p) /\ t[i] = p[i + 1]
        BY <1>2, <3>1
      <3>3. ASSUME NEW j \in DOMAIN p, j < i + 1
            PROVE  p[j].is # "channelClose"
        <4>1. CASE j = 1
          BY <1>1, <1>8, <4>1
        <4>2. CASE j # 1
          <5>1. j - 1 \in DOMAIN t /\ t[j - 1] = p[j] /\ j - 1 < i
            BY <1>1, <3>2, <3>3, <4>2
          <5> QED
            BY <3>1, <5>1
        <4> QED
          BY <4>1, <4>2
      <3> QED
        BY <3>2, <3>3 DEF TimelyIn
    <2>2. Refuses(p) => Refuses(t)
      <3>1. \A i \in DOMAIN p : p[i].is = "channelClose" => i # 1
        BY <1>1, <1>8
      <3> QED
        BY <1>1, <3>1 DEF Refuses
    <2>3. ASSUME NEW i \in TimelyIn(t)
          PROVE  t[i].call \in TimelyCalls(p)
      <3>1. i + 1 \in TimelyIn(p) /\ t[i].call = p[i + 1].call
        BY <2>1
      <3> QED
        BY <3>1 DEF TimelyCalls
    <2> QED
      BY <2>2, <2>3 DEF TimelyCalls
  <1>9. TheAnswers(t) \subseteq TheAnswers(p)
    BY <1>2 DEF TheAnswers
  <1> QED
    BY <1>3, <1>4, <1>6, <1>7, <1>8, <1>9

-----------------------------------------------------------------------------
(***************************************************************************)
(* Calls.  The frames that the broker has not read are those on their way  *)
(* and those in the queues; a call adds its own, or none, and its Deferred *)
(* goes to the end of the chain.                                           *)
(***************************************************************************)
Pending(s) ==
    ToSet(s.toBroker) \cup ToSet(s.connection.queue) \cup ToSet(s.channel.queue)

\* A connection that is closing has waited for its channel.
IdleInClosing(s) ==
    s.connection.state = "closing" /\ s.channel.linked =>
        s.channel.queue = <<>> /\ ~s.channel.synchronous

LEMMA TransmitPending ==
    ASSUME NEW s \in States, NEW frames \in Seq(Frames), NEW t, t = Transmit(s, frames)
    PROVE  /\ t \in States /\ Pending(t) = Pending(s) \cup ToSet(frames)
           /\ t.channel = s.channel /\ t.outcome = s.outcome
           /\ t.connection.state = s.connection.state
           /\ t.connection.closeCalled = s.connection.closeCalled
  <1>1. /\ s.toBroker \in Seq(Frames) /\ s.connection \in Connections
        /\ s.connection.queue \in Seq(Frames)
    BY DEF States, Connections
  <1>2. /\ s.toBroker \o frames \in Seq(Frames) /\ s.connection.queue \o frames \in Seq(Frames)
        /\ ToSet(s.toBroker \o frames) = ToSet(s.toBroker) \cup ToSet(frames)
        /\ ToSet(s.connection.queue \o frames) = ToSet(s.connection.queue) \cup ToSet(frames)
    BY <1>1, SetConcatenated
  <1> DEFINE sent == s.toBroker \o frames
             held == s.connection.queue \o frames
  <1>3. \/ t = [s EXCEPT !.toBroker = sent]
        \/ t = [s EXCEPT !.connection.queue = held]
    BY DEF Transmit
  <1>4. /\ sent \in Seq(Frames) /\ held \in Seq(Frames)
        /\ ToSet(sent) = ToSet(s.toBroker) \cup ToSet(frames)
        /\ ToSet(held) = ToSet(s.connection.queue) \cup ToSet(frames)
    BY <1>2
  <1> HIDE DEF sent, held
  <1>5. CASE t = [s EXCEPT !.toBroker = sent]
    <2>1. /\ t \in States /\ t.toBroker = sent /\ t.connection = s.connection /\ t.channel = s.channel
          /\ t.outcome = s.outcome
      BY <1>4, <1>5 DEF States
    <2> QED
      BY <1>4, <2>1 DEF Pending
  <1>6. CASE t = [s EXCEPT !.connection.queue = held]
    <2> DEFINE con == [s.connection EXCEPT !.queue = held]
    <2>1. /\ con \in Connections /\ con.queue = held /\ con.state = s.connection.state
          /\ con.closeCalled = s.connection.closeCalled
      BY <1>1, <1>4 DEF Connections
    <2>2. t = [s EXCEPT !.connection = con]
      BY <1>6
    <2> HIDE DEF con
    <2>3. /\ t \in States /\ t.toBroker = s.toBroker /\ t.connection = con /\ t.channel = s.channel
          /\ t.outcome = s.outcome
      BY <2>1, <2>2 DEF States
    <2> QED
      BY <1>4, <2>1, <2>3 DEF Pending
  <1> QED
    BY <1>3, <1>5, <1>6

LEMMA ChannelMembers ==
    \A ch \in Channels :
        /\ DOMAIN ch = {"state", "linked", "synchronous", "queue", "chain", "consuming", "receiver"}
        /\ ch.state \in {"connected", "ready", "closing", "closed"}
        /\ ch.queue \in Seq(Frames) /\ ch.chain \in Seq(1 .. MaxCalls + 2)
        /\ \A q \in Seq(Frames), b \in BOOLEAN :
              [ch EXCEPT !.synchronous = b, !.queue = q] \in Channels
  BY DEF Channels

\* Frames that are sent, or wait.  What is not refused is lost only when the
\* channel is closing.
LEMMA SendFramesPending ==
    ASSUME NEW s \in States, NEW frames \in Seq(Frames), frames # <<>> => Sends(s, frames[1]),
           NEW t, t = SendFrames(s, frames)
    PROVE  /\ t \in States
           /\ Pending(s) \subseteq Pending(t) /\ Pending(t) \subseteq Pending(s) \cup ToSet(frames)
           /\ s.channel.state = "closing" => t = s
           /\ s.channel.state # "closing" => ToSet(frames) \subseteq Pending(t)
           /\ t.channel.linked = s.channel.linked /\ t.channel.state = s.channel.state
           /\ t.channel.chain = s.channel.chain /\ t.outcome = s.outcome
           /\ t.connection.state = s.connection.state
           /\ IdleInClosing(s) => IdleInClosing(t)
  <1>1. s.channel \in Channels
    BY DEF States
  <1>2. CASE s.channel.state = "closing"
    BY <1>2 DEF SendFrames
  <1>3. CASE s.channel.state # "closing" /\ Waiting(s.channel)
    <2> DEFINE held == s.channel.queue \o frames
               ch   == [s.channel EXCEPT !.queue = held]
    <2>1. /\ s.channel.queue \in Seq(Frames)
          /\ DOMAIN s.channel = {"state", "linked", "synchronous", "queue", "chain", "consuming", "receiver"}
      BY <1>1, ChannelMembers
    <2>2. held \in Seq(Frames) /\ ToSet(held) = ToSet(s.channel.queue) \cup ToSet(frames)
      BY <2>1, SetConcatenated
    <2>3. t = [s EXCEPT !.channel.queue = held]
      BY <1>3 DEF SendFrames, Hold
    <2> HIDE DEF held
    <2>4. /\ ch \in Channels /\ ch.queue = held /\ ch.linked = s.channel.linked
          /\ ch.state = s.channel.state /\ ch.chain = s.channel.chain
      BY <1>1, <2>2 DEF Channels
    <2>5. t = [s EXCEPT !.channel = ch]
      BY <2>3
    <2> HIDE DEF ch
    <2>6. /\ t \in States /\ t.channel = ch /\ t.connection = s.connection
          /\ t.toBroker = s.toBroker /\ t.outcome = s.outcome
      BY <2>4, <2>5 DEF States
    <2>7. IdleInClosing(s) => ~(s.connection.state = "closing" /\ s.channel.linked)
      BY <1>3 DEF IdleInClosing, Waiting
    <2> QED
      BY <1>3, <2>2, <2>4, <2>6, <2>7 DEF Pending, IdleInClosing
  <1>4. CASE s.channel.state # "closing" /\ ~Waiting(s.channel)
    <2> DEFINE u  == Transmit(s, frames)
               b  == (SynchronousIn(frames) # {})
               ch == [s.channel EXCEPT !.synchronous = b]
    <2>1. /\ u \in States /\ Pending(u) = Pending(s) \cup ToSet(frames)
          /\ u.channel = s.channel /\ u.outcome = s.outcome
          /\ u.connection.state = s.connection.state
      BY TransmitPending
    <2>2. t = [u EXCEPT !.channel.synchronous = b]
      BY <1>4 DEF SendFrames, SendAtOnce
    <2>3. frames = <<>> => ~b
      BY DEF SynchronousIn
    <2>4. b \in BOOLEAN
      OBVIOUS
    <2> HIDE DEF u, b
    <2>5. /\ ch \in Channels /\ ch.queue = s.channel.queue /\ ch.linked = s.channel.linked
          /\ ch.state = s.channel.state /\ ch.chain = s.channel.chain /\ ch.synchronous = b
      BY <1>1, <2>4 DEF Channels
    <2>6. t = [u EXCEPT !.channel = ch]
      BY <2>1, <2>2
    <2> HIDE DEF ch
    <2>7. /\ t \in States /\ t.channel = ch /\ t.connection = u.connection
          /\ t.toBroker = u.toBroker /\ t.outcome = u.outcome
      BY <2>1, <2>5, <2>6 DEF States
    <2>8. Pending(t) = Pending(u)
      BY <2>1, <2>5, <2>7 DEF Pending
    <2>9. IdleInClosing(s) => IdleInClosing(t)
      <3>1. s.connection.state = "closing" => frames = <<>>
        BY <1>4 DEF Sends, Accepts
      <3> QED
        BY <2>1, <2>3, <2>5, <2>7, <3>1 DEF IdleInClosing
    <2> QED
      BY <1>4, <2>1, <2>5, <2>7, <2>8, <2>9
  <1> QED
    BY <1>2, <1>3, <1>4

LEMMA PushPending ==
    ASSUME NEW s \in States, NEW failed, NEW t, t = Push(s, failed), NEW n, n = Len(s.outcome) + 1
    PROVE  /\ Pending(t) = Pending(s) /\ t.connection = s.connection
           /\ t.channel.linked = s.channel.linked /\ t.channel.state = s.channel.state
           /\ t.channel.queue = s.channel.queue /\ t.channel.synchronous = s.channel.synchronous
           /\ t.channel.chain = Append(s.channel.chain, n)
           /\ Len(t.outcome) = n /\ \A i \in DOMAIN s.outcome : t.outcome[i] = s.outcome[i]
           /\ n \in Nat /\ DOMAIN t.outcome = 1 .. n
           /\ t.outcome[n] = IF failed THEN "refused" ELSE "pending"
           /\ DOMAIN t = {"channel", "connection", "toBroker", "outcome", "delivered"}
           /\ DOMAIN t.channel = DOMAIN s.channel
           /\ t.toBroker = s.toBroker /\ t.outcome \in Seq(Outcomes)
  <1> DEFINE result == IF failed THEN "refused" ELSE "pending"
             chain  == Append(s.channel.chain, n)
             o      == Append(s.outcome, result)
  <1>1. /\ s.outcome \in Seq(Outcomes) /\ s.channel \in Channels
        /\ DOMAIN s = {"channel", "connection", "toBroker", "outcome", "delivered"}
    BY DEF States
  <1>2. t = [s EXCEPT !.channel.chain = chain, !.outcome = o]
    BY DEF Push
  <1>3. /\ Len(o) = n /\ \A i \in DOMAIN s.outcome : o[i] = s.outcome[i]
        /\ o[n] = result /\ n \in Nat /\ DOMAIN o = 1 .. n /\ o \in Seq(Outcomes)
    <2>1. result \in Outcomes
      BY DEF Outcomes
    <2> HIDE DEF result
    <2> QED
      BY <1>1, <2>1
  <1> HIDE DEF o, chain
  <1>4. /\ t.toBroker = s.toBroker /\ t.connection = s.connection /\ t.outcome = o
        /\ t.channel = [s.channel EXCEPT !.chain = chain]
        /\ DOMAIN t = {"channel", "connection", "toBroker", "outcome", "delivered"}
    BY <1>1, <1>2
  <1>5. /\ t.channel.linked = s.channel.linked /\ t.channel.state = s.channel.state
        /\ t.channel.queue = s.channel.queue /\ t.channel.synchronous = s.channel.synchronous
        /\ t.channel.chain = chain /\ DOMAIN t.channel = DOMAIN s.channel
    BY <1>1, <1>4, ChannelMembers
  <1> QED
    BY <1>3, <1>4, <1>5 DEF Pending, chain

\* What a call does; closing are the close frames of the connection.
Chains(s, t, frame, closing) ==
    /\ Pending(s) \subseteq Pending(t)
    /\ Pending(t) \subseteq Pending(s) \cup Made(frame) \cup closing
    /\ s.channel.state = "closing" => Pending(t) \subseteq Pending(s) \cup closing
    /\ t.channel.linked = s.channel.linked
    /\ \/ t.channel.state = s.channel.state
       \/ Usable(s.channel) /\ t.channel.state = "closing"
    /\ t.channel.chain = IF frame.op \in Unanswered THEN s.channel.chain
                         ELSE Append(s.channel.chain, Len(s.outcome) + 1)
    /\ Len(t.outcome) = Len(s.outcome) + 1
    /\ \A i \in DOMAIN s.outcome : t.outcome[i] = s.outcome[i]
    /\ s.channel.state = "closed" => t.outcome[Len(t.outcome)] # "pending"
    /\ Usable(s.channel) /\ s.channel.linked /\ frame.op \notin Unanswered =>
           t.outcome[Len(t.outcome)] = "refused" \/ frame \in Pending(t)
    /\ IdleInClosing(s) => IdleInClosing(t)

LEMMA RequestChains ==
    ASSUME NEW s \in States, NEW frame, Callable(frame), frame.op \notin Unanswered,
           NEW t, t = Request(s, frame)
    PROVE  /\ Chains(s, t, frame, {}) /\ t.channel.state = s.channel.state
           /\ DOMAIN t = {"channel", "connection", "toBroker", "outcome", "delivered"}
           /\ DOMAIN t.channel = DOMAIN s.channel
           /\ Sends(s, frame) => t.outcome[Len(t.outcome)] = "pending"
  <1> DEFINE u      == SendFrame(s, frame)
             frames == <<frame>>
             failed == ~Sends(s, frame)
             n      == Len(s.outcome) + 1
  <1>1. /\ frame \in Frames /\ frame.part = 1 /\ frame.parts = 1
    BY DEF Callable, Unanswered
  <1>2. frame \in Made(frame)
    <2>1. frame = [frame EXCEPT !.part = 1] /\ 1 \in 1 .. frame.parts
      BY <1>1 DEF Frames
    <2> QED
      BY <2>1 DEF Made
  <1>3. frames \in Seq(Frames) /\ ToSet(frames) = {frame} /\ frames[1] = frame /\ frames # <<>>
    <2>1. frames \in Seq(Frames) /\ DOMAIN frames = {1} /\ frames[1] = frame
      BY <1>1
    <2> QED
      BY <2>1 DEF ToSet
  <1>4. u = IF failed THEN s ELSE SendFrames(s, frames)
    BY DEF SendFrame
  <1>5. t = Push(u, failed)
    BY DEF Request
  <1>6. s.channel \in Channels
    BY DEF States
  <1> HIDE DEF u, frames
  <1>7. /\ u \in States
        /\ Pending(s) \subseteq Pending(u) /\ Pending(u) \subseteq Pending(s) \cup Made(frame)
        /\ s.channel.state = "closing" => Pending(u) = Pending(s)
        /\ s.channel.state # "closing" => failed \/ frame \in Pending(u)
        /\ u.channel.linked = s.channel.linked /\ u.channel.state = s.channel.state
        /\ u.channel.chain = s.channel.chain /\ u.outcome = s.outcome
        /\ u.connection.state = s.connection.state
        /\ IdleInClosing(s) => IdleInClosing(u)
    <2>1. CASE failed
      BY <1>4, <2>1
    <2>2. CASE ~failed
      <3>1. u = SendFrames(s, frames) /\ (frames # <<>> => Sends(s, frames[1]))
        BY <1>3, <1>4, <2>2
      <3> HIDE DEF failed
      <3>2. /\ u \in States
            /\ Pending(s) \subseteq Pending(u) /\ Pending(u) \subseteq Pending(s) \cup {frame}
            /\ s.channel.state = "closing" => u = s
            /\ s.channel.state # "closing" => frame \in Pending(u)
            /\ u.channel.linked = s.channel.linked /\ u.channel.state = s.channel.state
            /\ u.channel.chain = s.channel.chain /\ u.outcome = s.outcome
            /\ u.connection.state = s.connection.state
            /\ IdleInClosing(s) => IdleInClosing(u)
        BY <1>3, <3>1, SendFramesPending
      <3> QED
        BY <1>2, <3>2
    <2> QED
      BY <2>1, <2>2
  <1>8. DOMAIN u.channel = DOMAIN s.channel
    BY <1>6, <1>7 DEF States, Channels
  <1>9. failed => s.channel.state # "closing" \/ ~s.channel.linked
    BY DEF Sends
  <1>10. s.channel.state = "closed" => failed
    BY DEF Sends
  <1>11. n = Len(u.outcome) + 1
    BY <1>7
  <1> HIDE DEF failed
  <1>12. /\ Pending(t) = Pending(u) /\ t.connection = u.connection
         /\ t.channel.linked = u.channel.linked /\ t.channel.state = u.channel.state
         /\ t.channel.queue = u.channel.queue /\ t.channel.synchronous = u.channel.synchronous
         /\ t.channel.chain = Append(u.channel.chain, n)
         /\ Len(t.outcome) = n /\ \A i \in DOMAIN u.outcome : t.outcome[i] = u.outcome[i]
         /\ t.outcome[n] = IF failed THEN "refused" ELSE "pending"
         /\ DOMAIN t = {"channel", "connection", "toBroker", "outcome", "delivered"}
         /\ DOMAIN t.channel = DOMAIN u.channel
    <2> HIDE DEF n
    <2>1. u \in States /\ t = Push(u, failed) /\ n = Len(u.outcome) + 1
      BY <1>5, <1>7, <1>11
    <2> QED
      BY <2>1, PushPending
  <1>13. IdleInClosing(u) => IdleInClosing(t)
    BY <1>12 DEF IdleInClosing
  <1>14. Usable(s.channel) => s.channel.state # "closing"
    BY DEF Usable
  <1>15. t.outcome[Len(t.outcome)] = IF failed THEN "refused" ELSE "pending"
    <2> HIDE DEF n
    <2> QED
      BY <1>12
  <1>16. t.channel.chain = Append(s.channel.chain, Len(s.outcome) + 1)
    BY <1>7, <1>12
  <1>17. Len(t.outcome) = Len(s.outcome) + 1
    BY <1>12
  <1> HIDE DEF n
  <1>18. Chains(s, t, frame, {})
    BY <1>7, <1>10, <1>12, <1>13, <1>14, <1>15, <1>16, <1>17 DEF Chains
  <1> QED
    BY <1>7, <1>8, <1>12, <1>15, <1>18 DEF failed

\* close() adds its Deferred in every case; on a channel that is not usable, it
\* sends nothing.
LEMMA CloseChannelChains ==
    ASSUME NEW s \in States, NEW frame, Callable(frame), frame.op = "close",
           NEW t, t = CloseChannel(s, frame)
    PROVE  Chains(s, t, frame, {})
  <1>1. frame.op \notin Unanswered /\ s.channel \in Channels
    BY DEF Unanswered, States
  <1>2. CASE Usable(s.channel) /\ Sends(s, frame)
    <2> DEFINE u == Request(s, frame)
    <2>1. /\ Chains(s, u, frame, {}) /\ u.channel.state = s.channel.state
          /\ DOMAIN u = {"channel", "connection", "toBroker", "outcome", "delivered"}
          /\ DOMAIN u.channel = DOMAIN s.channel
      BY <1>1, RequestChains
    <2>2. t = [u EXCEPT !.channel.state = "closing"]
      BY <1>2 DEF CloseChannel, Usable
    <2> HIDE DEF u
    <2>3. /\ t.toBroker = u.toBroker /\ t.connection = u.connection /\ t.outcome = u.outcome
          /\ t.channel = [u.channel EXCEPT !.state = "closing"]
      BY <2>1, <2>2
    <2>4. /\ t.channel.state = "closing" /\ t.channel.queue = u.channel.queue
          /\ t.channel.linked = u.channel.linked /\ t.channel.chain = u.channel.chain
          /\ t.channel.synchronous = u.channel.synchronous
      <3>1. DOMAIN u.channel =
                {"state", "linked", "synchronous", "queue", "chain", "consuming", "receiver"}
        BY <1>1, <2>1, ChannelMembers
      <3> QED
        BY <2>3, <3>1
    <2>5. Pending(t) = Pending(u) /\ (IdleInClosing(u) => IdleInClosing(t))
      BY <2>3, <2>4 DEF Pending, IdleInClosing
    <2> QED
      BY <1>2, <2>1, <2>3, <2>4, <2>5 DEF Chains, Usable
  <1>3. CASE ~(Usable(s.channel) /\ Sends(s, frame))
    <2> DEFINE n == Len(s.outcome) + 1
    <2>1. PICK failed \in BOOLEAN :
              /\ failed => t = Push(s, TRUE)
              /\ ~failed => /\ t = [Push(s, FALSE) EXCEPT !.outcome[n] = "ignored"]
                            /\ ~Usable(s.channel)
      <3>1. CASE Usable(s.channel) \/ s.channel.state = "closing"
        <4>1. t = Push(s, TRUE)
          BY <1>3, <3>1 DEF CloseChannel, Usable
        <4> QED
          BY <4>1
      <3>2. CASE ~Usable(s.channel) /\ s.channel.state # "closing"
        <4>1. t = [Push(s, FALSE) EXCEPT !.outcome[n] = "ignored"]
          BY <3>2 DEF CloseChannel
        <4> QED
          BY <3>2, <4>1
      <3> QED
        BY <3>1, <3>2
    <2> DEFINE u == Push(s, failed)
    <2>2. /\ Pending(u) = Pending(s) /\ u.connection = s.connection
          /\ u.channel.linked = s.channel.linked /\ u.channel.state = s.channel.state
          /\ u.channel.queue = s.channel.queue /\ u.channel.synchronous = s.channel.synchronous
          /\ u.channel.chain = Append(s.channel.chain, n)
          /\ Len(u.outcome) = n /\ \A i \in DOMAIN s.outcome : u.outcome[i] = s.outcome[i]
          /\ n \in Nat /\ DOMAIN u.outcome = 1 .. n
          /\ u.outcome[n] = IF failed THEN "refused" ELSE "pending"
          /\ DOMAIN u = {"channel", "connection", "toBroker", "outcome", "delivered"}
          /\ u.outcome \in Seq(Outcomes)
      BY PushPending
    <2>3. /\ s.outcome \in Seq(Outcomes) /\ DOMAIN s.outcome = 1 .. Len(s.outcome)
          /\ Len(s.outcome) \in Nat
      BY DEF States
    <2>4. n \notin DOMAIN s.outcome /\ n \in 1 .. n
      BY <2>3
    <2>5. /\ t.channel = u.channel /\ t.connection = u.connection /\ t.toBroker = u.toBroker
          /\ Len(t.outcome) = n /\ \A i \in DOMAIN s.outcome : t.outcome[i] = s.outcome[i]
          /\ t.outcome[n] # "pending"
          /\ Usable(s.channel) => t.outcome[n] = "refused"
      <3> HIDE DEF n
      <3>1. CASE failed
        <4>1. t = u
          BY <2>1, <3>1
        <4> HIDE DEF u
        <4> QED
          BY <2>2, <3>1, <4>1
      <3>2. CASE ~failed
        <4>1. t = [u EXCEPT !.outcome[n] = "ignored"] /\ ~Usable(s.channel)
          BY <2>1, <3>2
        <4> HIDE DEF u
        <4> DEFINE o == [u.outcome EXCEPT ![n] = "ignored"]
        <4>2. o[n] = "ignored" /\ \A i \in DOMAIN s.outcome : o[i] = s.outcome[i]
          BY <2>2, <2>4
        <4>3. Len(o) = n
          BY <2>2
        <4>4. t = [u EXCEPT !.outcome = o]
          BY <4>1
        <4> HIDE DEF o
        <4> QED
          BY <2>2, <4>1, <4>2, <4>3, <4>4
      <3> QED
        BY <3>1, <3>2
    <2> HIDE DEF u
    <2>6. Pending(t) = Pending(s) /\ (IdleInClosing(s) => IdleInClosing(t))
      BY <2>2, <2>5 DEF Pending, IdleInClosing
    <2> QED
      BY <1>1, <2>2, <2>5, <2>6 DEF Chains
  <1> QED
    BY <1>2, <1>3

\* A message may be refused after its first part.
LEMMA SendPartsChains ==
    ASSUME NEW s \in States, NEW frame, Callable(frame), frame.op \in Unanswered,
           NEW t, t = SendParts(s, frame)
    PROVE  Chains(s, t, frame, {})
  <1> DEFINE refused == Refused(s, frame)
             taken   == Taken(s, frame)
             frames  == Parts(s, frame)
             result  == IF refused = {} THEN "done" ELSE "refused"
             u == SendFrames(s, frames)
             o == Append(u.outcome, result)
  <1>1. frame \in Frames /\ frame.parts \in 1 .. 2 + MaxSize /\ MaxSize \in Nat
    BY ChannelAssumption DEF Callable, Frames
  <1>2. t = [u EXCEPT !.outcome = o]
    BY DEF SendParts, Parts, Taken, Refused
  <1>3. /\ frames \in Seq(Frames) /\ DOMAIN frames = 1 .. taken /\ taken \in 0 .. frame.parts
        /\ frames # <<>> => Sends(s, frames[1])
    BY <1>1, PartsTaken
  <1>4. \A i \in DOMAIN frames : frames[i] = [frame EXCEPT !.part = i]
    BY <1>3 DEF Parts
  <1> HIDE DEF taken, frames
  <1>5. ToSet(frames) \subseteq Made(frame)
    <2>1. \A i \in DOMAIN frames : i \in 1 .. frame.parts
      BY <1>1, <1>3
    <2> QED
      BY <1>4, <2>1 DEF ToSet, Made
  <1>6. /\ u \in States
        /\ Pending(s) \subseteq Pending(u) /\ Pending(u) \subseteq Pending(s) \cup ToSet(frames)
        /\ s.channel.state = "closing" => u = s
        /\ u.channel.linked = s.channel.linked /\ u.channel.state = s.channel.state
        /\ u.channel.chain = s.channel.chain /\ u.outcome = s.outcome
        /\ IdleInClosing(s) => IdleInClosing(u)
    BY <1>3, SendFramesPending
  <1>7. result # "pending"
    OBVIOUS
  <1> HIDE DEF refused, result, u
  <1>8. /\ Len(o) = Len(s.outcome) + 1 /\ \A i \in DOMAIN s.outcome : o[i] = s.outcome[i]
        /\ o[Len(o)] = result
    <2>1. s.outcome \in Seq(Outcomes)
      BY DEF States
    <2> QED
      BY <1>6, <2>1
  <1> HIDE DEF o
  <1>9. /\ t.channel = u.channel /\ t.connection = u.connection /\ t.toBroker = u.toBroker
        /\ t.outcome = o
    BY <1>2, <1>6 DEF States
  <1>10. Pending(t) = Pending(u) /\ (IdleInClosing(u) => IdleInClosing(t))
    BY <1>9 DEF Pending, IdleInClosing
  <1> QED
    BY <1>5, <1>6, <1>7, <1>8, <1>9, <1>10 DEF Chains

LEMMA PerformChains ==
    ASSUME NEW s \in States, NEW frame, Callable(frame), NEW t, t = Perform(s, frame)
    PROVE  Chains(s, t, frame, {})
  <1>1. CASE frame.op \in Unanswered
    BY <1>1, SendPartsChains DEF Perform, Unanswered
  <1>2. CASE frame.op \notin Unanswered /\ frame.op = "close"
    BY <1>2, CloseChannelChains DEF Perform
  <1>3. CASE frame.op \notin Unanswered /\ frame.op # "close"
    BY <1>3, RequestChains DEF Perform
  <1> QED
    BY <1>1, <1>2, <1>3

-----------------------------------------------------------------------------
(***************************************************************************)
(* The connection.                                                         *)
(***************************************************************************)
\* The channel is left alone, no frame is lost, and only those of closing are new.
Spares(s, t, closing) ==
    /\ Pending(s) \subseteq Pending(t) /\ Pending(t) \subseteq Pending(s) \cup closing
    /\ t.channel = s.channel /\ t.outcome = s.outcome
    /\ IdleInClosing(s) => IdleInClosing(t)

LEMMA SparesOn ==
    ASSUME NEW s, NEW t, NEW u, NEW closing, Spares(s, t, closing), Spares(t, u, closing)
    PROVE  Spares(s, u, closing)
  BY DEF Spares

\* The same of a call that is made before or after.
LEMMA SparesCalls ==
    ASSUME NEW s, NEW t, NEW u, NEW v, NEW frame, NEW closing,
           Spares(s, t, closing), Chains(t, u, frame, closing), Spares(u, v, closing)
    PROVE  Chains(s, v, frame, closing)
  BY DEF Spares, Chains

LEMMA ControlSpares ==
    ASSUME NEW s \in States, NEW op \in CloseFrames, NEW t, t = SendIfAccepted(s, Control(op))
    PROVE  /\ Spares(s, t, {Control(op)}) /\ t \in States
           /\ t.connection.state = s.connection.state
  <1>1. CASE t = s
    BY <1>1 DEF Spares
  <1>2. CASE t # s
    <2> DEFINE f == Control(op)
               frames == <<f>>
    <2>1. f \in Frames
      BY ControlFrame DEF CloseFrames
    <2>2. t = Transmit(s, frames)
      BY <1>2 DEF SendIfAccepted
    <2> HIDE DEF f
    <2>3. frames \in Seq(Frames) /\ ToSet(frames) = {f}
      <3>1. frames \in Seq(Frames) /\ DOMAIN frames = {1} /\ frames[1] = f
        BY <2>1
      <3> QED
        BY <3>1 DEF ToSet
    <2> HIDE DEF frames
    <2>4. /\ t \in States /\ Pending(t) = Pending(s) \cup {f}
          /\ t.channel = s.channel /\ t.outcome = s.outcome
          /\ t.connection.state = s.connection.state
      BY <2>2, <2>3, TransmitPending
    <2> QED
      BY <2>4 DEF Spares, IdleInClosing, f
  <1> QED
    BY <1>1, <1>2

LEMMA WhenIdleSpares ==
    ASSUME NEW s \in States, NEW t, t = SendCloseWhenIdle(s)
    PROVE  Spares(s, t, {Control("connectionClose")})
  <1>1. CASE t = s
    BY <1>1 DEF Spares
  <1>2. CASE t # s
    <2> DEFINE u == SendIfAccepted(s, Control("connectionClose"))
    <2>1. t = [u EXCEPT !.connection.state = "closing"] /\ ~WaitingChannels(s)
      BY <1>2 DEF SendCloseWhenIdle, SendClose
    <2>2. Spares(s, u, {Control("connectionClose")}) /\ u \in States
      BY ControlSpares DEF CloseFrames
    <2> HIDE DEF u
    <2>3. /\ t.channel = u.channel /\ t.outcome = u.outcome /\ t.toBroker = u.toBroker
          /\ t.connection.queue = u.connection.queue
      BY <2>1, <2>2 DEF States, Connections
    <2>4. s.channel \in Channels
      BY DEF States
    <2>5. s.channel.linked => ~s.channel.synchronous /\ s.channel.queue = <<>>
      BY <2>1 DEF WaitingChannels, Waiting
    <2>6. IdleInClosing(t)
      BY <2>2, <2>3, <2>5 DEF IdleInClosing, Spares
    <2> QED
      BY <2>2, <2>3, <2>6 DEF Spares, Pending
  <1> QED
    BY <1>1, <1>2

LEMMA ReadySpares ==
    ASSUME NEW s \in States, s.connection.state = "handshake", NEW t, t = SetReady(s)
    PROVE  Spares(s, t, {Control("connectionClose")})
  <1> DEFINE q    == s.connection.queue
             con  == [s.connection EXCEPT !.state = "connected", !.queue = <<>>]
             sent == s.toBroker \o q
             u    == [s EXCEPT !.connection = con, !.toBroker = sent]
  <1>1. s.connection \in Connections /\ q \in Seq(Frames) /\ s.toBroker \in Seq(Frames)
    BY DEF States, Connections
  <1>2. con \in Connections /\ con.state = "connected" /\ con.queue = <<>>
    BY <1>1, EmptySeq DEF Connections
  <1>3. sent \in Seq(Frames) /\ ToSet(sent) = ToSet(s.toBroker) \cup ToSet(q)
    BY <1>1, SetConcatenated
  <1>4. [s EXCEPT !.connection.state = "connected", !.connection.queue = <<>>, !.toBroker = @ \o q] = u
    BY <1>1 DEF States, Connections
  <1>5. t = SendCloseWhenIdle(u)
    BY <1>4 DEF SetReady
  <1> HIDE DEF con, sent
  <1>6. /\ u \in States /\ u.channel = s.channel /\ u.outcome = s.outcome
        /\ u.connection = con /\ u.toBroker = sent
    BY <1>2, <1>3 DEF States
  <1> HIDE DEF u
  <1>7. ToSet(<<>>) = {}
    BY DEF ToSet
  <1>8. Pending(u) = Pending(s)
    BY <1>2, <1>3, <1>6, <1>7 DEF Pending
  <1>9. Spares(s, u, {Control("connectionClose")})
    BY <1>2, <1>6, <1>8 DEF Spares, IdleInClosing
  <1>10. Spares(u, t, {Control("connectionClose")})
    BY <1>5, <1>6, WhenIdleSpares
  <1> QED
    BY <1>9, <1>10, SparesOn

LEMMA CloseConnectionChains ==
    ASSUME NEW s, NEW read, Sound(s, read, Len(s.outcome)), Drained(s),
           Len(s.outcome) <= MaxCalls + (IF s.connection.closeCalled THEN 2 ELSE 1),
           NEW t, t = CloseConnection(s),
           NEW frame, frame = FrameOfCall("close", Len(s.outcome) + 1, 1, 1),
           NEW closing, closing = {Control("connectionClose")}
    PROVE  \/ Spares(s, t, closing)
           \/ Chains(s, t, frame, closing) /\ s.channel.linked
  <1> DEFINE k == Len(s.outcome)
             con   == [s.connection EXCEPT !.closeCalled = TRUE]
             told  == [s EXCEPT !.connection = con]
             closed == IF s.channel.linked THEN CloseChannel(told, frame) ELSE told
  <1>1. CASE s.connection.closeCalled \/ s.connection.state = "closed"
    <2>1. t = s
      BY <1>1 DEF CloseConnection
    <2> QED
      BY <2>1 DEF Spares
  <1>2. CASE ~(s.connection.closeCalled \/ s.connection.state = "closed")
    <2>1. k \in Nat /\ s \in States /\ s.connection \in Connections
      BY DEF Sound, States
    <2>2. t = SendCloseWhenIdle(closed)
      BY <1>2 DEF CloseConnection
    <2>3. k <= MaxCalls + 1
      BY <1>2
    <2>4. frame \in Frames /\ frame.id = k + 1 /\ Callable(frame) /\ frame.op = "close"
      BY <2>1, <2>3, OperationNames, ChannelAssumption DEF Frames, FrameOfCall, Callable
    <2>5. /\ con \in Connections /\ con.queue = s.connection.queue /\ con.closeCalled
          /\ con.state = s.connection.state
      BY <2>1 DEF Connections
    <2> HIDE DEF con
    <2>6. /\ Sound(told, read, k) /\ told.channel = s.channel /\ told.outcome = s.outcome
          /\ told.connection = con /\ told.toBroker = s.toBroker
      <3>1. con.state \in {"connected", "closing", "closed"} => con.queue = <<>>
        BY <2>5 DEF Sound
      <3> QED
        BY <2>5, <3>1, ConnectionSound
    <2>7. Drained(told) /\ Len(told.outcome) = k /\ told \in States
      BY <2>6 DEF Drained, Sound
    <2>8. Spares(s, told, closing)
      BY <2>5, <2>6 DEF Spares, Pending, IdleInClosing
    <2> HIDE DEF k, told
    <2>9. CASE s.channel.linked
      <3> DEFINE u == CloseChannel(told, frame)
      <3>1. closed = u
        BY <2>9
      <3>2. Len(told.outcome) + 1 <= MaxCalls + 2
        BY <2>1, <2>3, <2>7, ChannelAssumption
      <3>3. Sound(u, read, k + 1)
        BY <2>4, <2>6, <2>7, <3>2, CloseChannelSound
      <3>4. Chains(told, u, frame, {})
        BY <2>4, <2>7, CloseChannelChains
      <3>5. Chains(told, u, frame, closing)
        BY <3>4 DEF Chains
      <3> HIDE DEF u
      <3>6. Spares(u, t, closing)
        BY <2>2, <3>1, <3>3, WhenIdleSpares DEF Sound
      <3> QED
        BY <2>8, <2>9, <3>5, <3>6, SparesCalls
    <2>10. CASE ~s.channel.linked
      <3>1. t = SendCloseWhenIdle(told)
        BY <2>2, <2>10
      <3>2. Spares(told, t, closing)
        BY <2>7, <3>1, WhenIdleSpares
      <3> QED
        BY <2>8, <3>2, SparesOn
    <2> QED
      BY <2>9, <2>10
  <1> QED
    BY <1>1, <1>2

-----------------------------------------------------------------------------
(***************************************************************************)
(* Reading.  A channel that is registered flushes its queue, which loses   *)
(* no frame because a connection that is closing has waited for it; an     *)
(* answer takes the oldest Deferred from the chain.                        *)
(***************************************************************************)
Readable(s) ==
    /\ Shaped(s) /\ s.channel.linked
    /\ s.connection.state \in {"connected", "closing"}
    /\ IdleInClosing(s)

\* Frames only move.
Passes(s, t) ==
    /\ Readable(t)
    /\ t.connection = s.connection /\ t.channel.state = s.channel.state
    /\ t.channel.chain = s.channel.chain /\ t.outcome = s.outcome
    /\ Pending(t) = Pending(s)

LEMMA PassesOn ==
    ASSUME NEW s, NEW t, NEW u, Passes(s, t), Passes(t, u)
    PROVE  Passes(s, u)
  BY DEF Passes

LEMMA PassesStill ==
    ASSUME NEW s, Readable(s), NEW t, Shaped(t),
           t.toBroker = s.toBroker, t.connection = s.connection, t.outcome = s.outcome,
           t.channel.state = s.channel.state, t.channel.linked = s.channel.linked,
           t.channel.queue = s.channel.queue, t.channel.chain = s.channel.chain,
           t.channel.synchronous = s.channel.synchronous
    PROVE  Passes(s, t)
  BY DEF Passes, Readable, IdleInClosing, Pending

LEMMA FlushPasses ==
    ASSUME NEW s, Readable(s), NEW t, t = Flush(s)
    PROVE  Passes(s, t)
  <1> DEFINE q     == s.channel.queue
             until == SynchronousIn(q)
             last  == Min(until \cup {Len(q)})
             front == SubSeq(q, 1, last)
             rest  == SubSeq(q, last + 1, Len(q))
             b     == (until # {})
  <1>1. /\ q \in Seq(Frames) /\ Len(q) \in Nat /\ s.toBroker \in Seq(Frames)
        /\ s.channel.linked /\ s.connection.state \in {"connected", "closing"}
    BY DEF Readable, Shaped
  <1>0. Shaped(s)
    BY DEF Readable
  <1>2. CASE s.connection.state = "connected"
    <2>1. t = [s EXCEPT !.channel.synchronous = b, !.channel.queue = rest,
                        !.toBroker = s.toBroker \o front]
      BY <1>1, <1>2 DEF Flush
    <2> HIDE DEF q
    <2>2. last \in 0 .. Len(q)
      BY <1>1, FlushPoint
    <2> HIDE DEF last, until, b
    <2>3. /\ rest \in Seq(Frames) /\ front \in Seq(Frames) /\ ToSet(q) = ToSet(front) \cup ToSet(rest)
      <3>1. /\ rest \in Seq(Frames) /\ \A i \in DOMAIN rest : last + i \in DOMAIN q /\ rest[i] = q[last + i]
            /\ front \in Seq(Frames) /\ \A i \in DOMAIN front : i \in DOMAIN q /\ front[i] = q[i]
        BY <1>1, <2>2
      <3>2. \A i \in DOMAIN q :
                \/ i \in DOMAIN front /\ front[i] = q[i]
                \/ i - last \in DOMAIN rest /\ rest[i - last] = q[i]
        BY <1>1, <2>2
      <3> HIDE DEF rest, front
      <3> QED
        BY <3>1, <3>2 DEF ToSet
    <2> HIDE DEF front, rest
    <2> DEFINE sent == s.toBroker \o front
    <2>4. sent \in Seq(Frames) /\ ToSet(sent) = ToSet(s.toBroker) \cup ToSet(front)
      BY <1>1, <2>3, SetConcatenated
    <2> HIDE DEF sent
    <2>5. t = [s EXCEPT !.channel.synchronous = b, !.channel.queue = rest, !.toBroker = sent]
      BY <2>1 DEF sent
    <2>6. /\ Shaped(t) /\ t.connection = s.connection /\ t.outcome = s.outcome
          /\ t.channel.state = s.channel.state /\ t.channel.linked = s.channel.linked
          /\ t.channel.chain = s.channel.chain /\ t.channel.queue = rest /\ t.toBroker = sent
      BY <1>0, <2>3, <2>4, <2>5 DEF Shaped
    <2>7. Pending(t) = Pending(s)
      BY <2>3, <2>4, <2>6 DEF Pending, q
    <2> QED
      BY <1>1, <1>2, <2>6, <2>7 DEF Passes, Readable, IdleInClosing
  <1>3. CASE s.connection.state = "closing"
    <2> DEFINE k == Min({1, Len(q)})
               left == SubSeq(q, k + 1, Len(q))
    <2>1. t = [s EXCEPT !.channel.synchronous = FALSE, !.channel.queue = left, !.toBroker = s.toBroker]
      BY <1>1, <1>3 DEF Flush
    <2>2. q = <<>> /\ Len(q) = 0
      BY <1>1, <1>3 DEF Readable, IdleInClosing
    <2> HIDE DEF q
    <2>3. k \in 0 .. 0
      BY <2>2, MinOfTwo
    <2> HIDE DEF k
    <2>4. left = <<>>
      BY <2>2, <2>3
    <2> HIDE DEF left
    <2>5. left \in Seq(Frames) /\ left = q
      BY <1>1, <2>2, <2>4
    <2>6. /\ Shaped(t) /\ t.connection = s.connection /\ t.outcome = s.outcome
          /\ t.channel.state = s.channel.state /\ t.channel.linked = s.channel.linked
          /\ t.channel.chain = s.channel.chain /\ t.channel.queue = left /\ t.toBroker = s.toBroker
      <3>1. left \in Seq(Frames)
        BY <2>5
      <3>2. /\ t.connection = s.connection /\ t.outcome = s.outcome /\ t.toBroker = s.toBroker
            /\ t.channel = [s.channel EXCEPT !.synchronous = FALSE, !.queue = left]
            /\ DOMAIN t = DOMAIN s
        BY <1>0, <2>1 DEF Shaped
      <3>3. /\ t.channel.state = s.channel.state /\ t.channel.linked = s.channel.linked
            /\ t.channel.chain = s.channel.chain /\ t.channel.queue = left
            /\ DOMAIN t.channel = DOMAIN s.channel
        BY <1>0, <3>2 DEF Shaped
      <3> QED
        BY <1>0, <3>1, <3>2, <3>3 DEF Shaped
    <2>8. ~t.channel.synchronous
      BY <1>0, <2>1 DEF Shaped
    <2>7. Pending(t) = Pending(s)
      BY <2>5, <2>6 DEF Pending, q
    <2> QED
      BY <1>1, <1>3, <2>2, <2>5, <2>6, <2>7, <2>8 DEF Passes, Readable, IdleInClosing
  <1> QED
    BY <1>1, <1>2, <1>3

LEMMA CompletePasses ==
    ASSUME NEW s, Readable(s), NEW t, t = Complete(s)
    PROVE  Passes(s, t)
  <1> DEFINE got == s.channel.receiver
             u == IF got.get THEN Flush(s) ELSE s
  <1>0. Shaped(s)
    BY DEF Readable
  <1>1. Passes(s, u)
    BY <1>0, FlushPasses, PassesStill
  <1>2. t = [u EXCEPT !.channel.receiver = NoReceiver,
                      !.delivered = Append(@, [tag |-> got.tag, size |-> got.size, got |-> got.got])]
    BY DEF Complete
  <1> HIDE DEF u, got
  <1>3. Shaped(u) /\ Readable(u)
    BY <1>1 DEF Passes, Readable
  <1>4. /\ Shaped(t) /\ t.toBroker = u.toBroker /\ t.connection = u.connection
        /\ t.outcome = u.outcome
        /\ t.channel.state = u.channel.state /\ t.channel.linked = u.channel.linked
        /\ t.channel.queue = u.channel.queue /\ t.channel.chain = u.channel.chain
        /\ t.channel.synchronous = u.channel.synchronous
    BY <1>2, <1>3 DEF Shaped
  <1>5. Passes(u, t)
    BY <1>3, <1>4, PassesStill
  <1> QED
    BY <1>1, <1>5, PassesOn

LEMMA ContentPasses ==
    ASSUME NEW s, Readable(s), NEW receiver,
           NEW t, t = CompleteIfWhole([s EXCEPT !.channel.receiver = receiver])
    PROVE  Passes(s, t)
  <1> DEFINE u == [s EXCEPT !.channel.receiver = receiver]
  <1>1. /\ Shaped(u) /\ u.toBroker = s.toBroker /\ u.connection = s.connection
        /\ u.outcome = s.outcome
        /\ u.channel.state = s.channel.state /\ u.channel.linked = s.channel.linked
        /\ u.channel.queue = s.channel.queue /\ u.channel.chain = s.channel.chain
        /\ u.channel.synchronous = s.channel.synchronous
    BY DEF Shaped, Readable
  <1>2. t = Complete(u) \/ t = u
    BY DEF CompleteIfWhole
  <1> HIDE DEF u
  <1>3. Passes(s, u)
    BY <1>1, PassesStill
  <1>4. Readable(u)
    BY <1>3 DEF Passes
  <1> QED
    BY <1>2, <1>3, <1>4, CompletePasses, PassesOn

LEMMA TakesPass ==
    ASSUME NEW s, Readable(s), NEW n, NEW body
    PROVE  /\ Passes(s, TakeHeader(s, n))
           /\ Passes(s, TakeBody(s, body))
           /\ Passes(s, TakeDeliver(s, n))
           /\ Passes(s, ReportCancelled(s))
  <1>0. Shaped(s) /\ Passes(s, s)
    BY PassesStill DEF Readable
  <1>1. Passes(s, TakeHeader(s, n))
    <2>1. TakeHeader(s, n) = CompleteIfWhole([s EXCEPT
              !.channel.receiver = [s.channel.receiver EXCEPT !.size = n, !.left = n]])
      BY <1>0 DEF TakeHeader, Shaped
    <2> QED
      BY <2>1, ContentPasses
  <1>2. Passes(s, TakeBody(s, body))
    <2>1. TakeBody(s, body) = CompleteIfWhole([s EXCEPT
              !.channel.receiver = [s.channel.receiver EXCEPT !.left = @ - 1, !.got = Append(@, body)]])
      BY <1>0 DEF TakeBody, Shaped
    <2> QED
      BY <2>1, ContentPasses
  <1>3. Passes(s, TakeDeliver(s, n))
    <2> DEFINE t == TakeDeliver(s, n)
               receiver == Receiver(n, FALSE)
               u == [s EXCEPT !.channel.receiver = receiver]
    <2>1. t = s \/ t = u
      BY DEF TakeDeliver
    <2> HIDE DEF t, receiver
    <2>2. /\ Shaped(u) /\ u.toBroker = s.toBroker /\ u.connection = s.connection
          /\ u.outcome = s.outcome
          /\ u.channel.state = s.channel.state /\ u.channel.linked = s.channel.linked
          /\ u.channel.queue = s.channel.queue /\ u.channel.chain = s.channel.chain
          /\ u.channel.synchronous = s.channel.synchronous
      BY <1>0 DEF Shaped
    <2> HIDE DEF u
    <2>3. Passes(s, u)
      BY <2>2, PassesStill
    <2> QED
      BY <1>0, <2>1, <2>3 DEF t
  <1>4. Passes(s, ReportCancelled(s))
    <2> DEFINE t == ReportCancelled(s)
    <2>1. t = [s EXCEPT !.channel.consuming = FALSE]
      BY DEF ReportCancelled
    <2> HIDE DEF t
    <2>2. /\ Shaped(t) /\ t.toBroker = s.toBroker /\ t.connection = s.connection
          /\ t.outcome = s.outcome
          /\ t.channel.state = s.channel.state /\ t.channel.linked = s.channel.linked
          /\ t.channel.queue = s.channel.queue /\ t.channel.chain = s.channel.chain
          /\ t.channel.synchronous = s.channel.synchronous
      BY <1>0, <2>1 DEF Shaped
    <2> QED
      BY <2>2, PassesStill DEF t
  <1> QED
    BY <1>1, <1>2, <1>3, <1>4

\* An answer goes to the Deferred that is first in the chain.
Succeeds(s, t) ==
    /\ Readable(t)
    /\ t.connection = s.connection /\ t.channel.state = s.channel.state
    /\ Pending(t) = Pending(s)
    /\ s.channel.chain = <<>> => t.channel.chain = <<>> /\ t.outcome = s.outcome
    /\ s.channel.chain # <<>> =>
           /\ t.channel.chain = Tail(s.channel.chain)
           /\ DOMAIN t.outcome = DOMAIN s.outcome
           /\ \A k \in DOMAIN s.outcome :
                  t.outcome[k] = IF k = Head(s.channel.chain) /\ s.outcome[k] # "refused"
                                 THEN "success" ELSE s.outcome[k]

LEMMA SuccessReported ==
    ASSUME NEW s, Readable(s), NEW answer, NEW t, t = ReportSuccess(s, answer)
    PROVE  Succeeds(s, t)
  <1>1. CASE s.channel.chain = <<>>
    BY <1>1 DEF ReportSuccess, Succeeds
  <1>2. CASE s.channel.chain # <<>>
    <2> DEFINE id == Head(s.channel.chain)
               rest == Tail(s.channel.chain)
               f  == Flush(s)
               u  == [f EXCEPT !.channel.chain = Tail(@)]
               v  == AnswerEffect(u, calls[id], answer)
               w  == Resolve(v, id, "success")
    <2>1. t = w
      BY <1>2 DEF ReportSuccess
    <2>2. Passes(s, f)
      BY FlushPasses
    <2> HIDE DEF f
    <2>3. Shaped(f) /\ f.channel.chain = s.channel.chain
      BY <2>2 DEF Passes, Readable
    <2>4. u = [f EXCEPT !.channel.chain = rest]
      BY <2>3 DEF Shaped
    <2> HIDE DEF u, rest, id
    <2>5. /\ Shaped(u) /\ u.toBroker = f.toBroker /\ u.connection = f.connection
          /\ u.outcome = f.outcome /\ u.channel.chain = rest
          /\ u.channel.state = f.channel.state /\ u.channel.linked = f.channel.linked
          /\ u.channel.queue = f.channel.queue /\ u.channel.synchronous = f.channel.synchronous
      BY <2>3, <2>4 DEF Shaped
    <2>6. \/ v = u
          \/ \E b \in BOOLEAN : v = [u EXCEPT !.channel.consuming = b]
          \/ v = [u EXCEPT !.channel.receiver = Receiver(answer.id, TRUE)]
      BY DEF AnswerEffect, InstallConsumer, UninstallConsumer, InstallGet
    <2> HIDE DEF v
    <2>7. /\ Shaped(v) /\ v.toBroker = u.toBroker /\ v.connection = u.connection
          /\ v.outcome = u.outcome /\ v.channel.chain = u.channel.chain
          /\ v.channel.state = u.channel.state /\ v.channel.linked = u.channel.linked
          /\ v.channel.queue = u.channel.queue /\ v.channel.synchronous = u.channel.synchronous
      <3>1. CASE v = u
        BY <2>5, <3>1
      <3>2. ASSUME NEW b \in BOOLEAN, v = [u EXCEPT !.channel.consuming = b]
            PROVE  /\ Shaped(v) /\ v.toBroker = u.toBroker /\ v.connection = u.connection
                   /\ v.outcome = u.outcome /\ v.channel.chain = u.channel.chain
                   /\ v.channel.state = u.channel.state /\ v.channel.linked = u.channel.linked
                   /\ v.channel.queue = u.channel.queue
                   /\ v.channel.synchronous = u.channel.synchronous
        <4>1. Shaped(u)
          BY <2>5
        <4> QED
          BY <3>2, <4>1 DEF Shaped
      <3>3. CASE v = [u EXCEPT !.channel.receiver = Receiver(answer.id, TRUE)]
        <4>1. Shaped(u)
          BY <2>5
        <4> QED
          BY <3>3, <4>1 DEF Shaped
      <3> QED
        BY <2>6, <3>1, <3>2, <3>3
    <2>8. /\ Shaped(w) /\ w.toBroker = v.toBroker /\ w.connection = v.connection
          /\ w.channel = v.channel /\ DOMAIN w.outcome = DOMAIN v.outcome
          /\ \A k \in DOMAIN v.outcome :
                 w.outcome[k] = IF k = id /\ v.outcome[k] # "refused" THEN "success" ELSE v.outcome[k]
      <3>1. Shaped(v)
        BY <2>7
      <3> QED
        BY <3>1 DEF Shaped, Resolve
    <2> HIDE DEF w
    <2>9. /\ v.outcome = s.outcome /\ w.connection = s.connection
          /\ w.channel.state = s.channel.state /\ w.channel.chain = rest
          /\ Pending(w) = Pending(s) /\ w.channel.linked /\ IdleInClosing(w)
      <3>1. /\ f.outcome = s.outcome /\ f.connection = s.connection
            /\ f.channel.state = s.channel.state /\ f.channel.linked
            /\ Pending(f) = Pending(s) /\ IdleInClosing(f)
        BY <2>2 DEF Passes, Readable
      <3>2. Pending(w) = Pending(f) /\ (IdleInClosing(f) => IdleInClosing(w))
        BY <2>5, <2>7, <2>8 DEF Pending, IdleInClosing
      <3> QED
        BY <2>5, <2>7, <2>8, <3>1, <3>2
    <2>10. Readable(w)
      <3>1. s.connection.state \in {"connected", "closing"}
        BY DEF Readable
      <3> QED
        BY <2>8, <2>9, <3>1 DEF Readable
    <2> QED
      BY <1>2, <2>1, <2>8, <2>9, <2>10 DEF Succeeds, rest, id
  <1> QED
    BY <1>1, <1>2

\* A channel that fails.
Ends(s, t) ==
    /\ t.channel.state = "closed" /\ ~t.channel.linked /\ t.channel.chain = <<>>
    /\ t.connection = s.connection
    /\ Pending(t) \subseteq Pending(s)
    /\ DOMAIN t.outcome = DOMAIN s.outcome
    /\ \A k \in DOMAIN s.outcome : t.outcome[k] \in {s.outcome[k], "error"}

LEMMA ErrorEnds ==
    ASSUME NEW s, Shaped(s), NEW t, t = ReportError(s)
    PROVE  Ends(s, t)
  <1> DEFINE o == [id \in DOMAIN s.outcome |->
                      IF s.outcome[id] # "refused"
                         /\ \E i \in DOMAIN s.channel.chain : s.channel.chain[i] = id
                      THEN "error" ELSE s.outcome[id]]
             ch == [s.channel EXCEPT !.state = "closed", !.synchronous = FALSE, !.queue = <<>>,
                                     !.chain = <<>>, !.linked = FALSE]
  <1>1. DOMAIN o = DOMAIN s.outcome /\ \A k \in DOMAIN s.outcome : o[k] \in {s.outcome[k], "error"}
    OBVIOUS
  <1>2. /\ ch.state = "closed" /\ ~ch.linked /\ ch.chain = <<>> /\ ch.queue = <<>>
    BY DEF Shaped
  <1>3. /\ t.channel = ch /\ t.outcome = o /\ t.connection = s.connection /\ t.toBroker = s.toBroker
    BY DEF ReportError, Shaped
  <1> HIDE DEF o, ch
  <1>4. ToSet(<<>>) = {}
    BY DEF ToSet
  <1> QED
    BY <1>1, <1>2, <1>3, <1>4 DEF Ends, Pending

LEMMA ClosedEnds ==
    ASSUME NEW s, Readable(s), NEW answer, NEW t, t = ReportClosed(s, answer)
    PROVE  /\ t.channel.state = "closed" /\ ~t.channel.linked /\ t.channel.chain = <<>>
           /\ t.connection = s.connection /\ Pending(t) \subseteq Pending(s)
           /\ DOMAIN t.outcome = DOMAIN s.outcome
           /\ \A k \in DOMAIN s.outcome :
                 /\ t.outcome[k] \in {s.outcome[k], "error", "success"}
                 /\ s.outcome[k] = "pending" /\ t.outcome[k] = "success" =>
                        s.channel.chain # <<>> /\ k = Head(s.channel.chain)
  <1> DEFINE u == [s EXCEPT !.channel.state = "closed"]
             v == ReportSuccess(u, answer)
  <1>0. Shaped(s)
    BY DEF Readable
  <1>1. t = ReportError(v)
    BY DEF ReportClosed
  <1>2. /\ Shaped(u) /\ u.toBroker = s.toBroker /\ u.connection = s.connection
        /\ u.outcome = s.outcome /\ u.channel.chain = s.channel.chain
        /\ u.channel.linked = s.channel.linked
        /\ u.channel.queue = s.channel.queue /\ u.channel.synchronous = s.channel.synchronous
    BY <1>0 DEF Shaped
  <1> HIDE DEF u
  <1>3. Readable(u) /\ Pending(u) = Pending(s)
    BY <1>2 DEF Readable, IdleInClosing, Pending
  <1>4. Succeeds(u, v)
    BY <1>3, SuccessReported
  <1> HIDE DEF v
  <1>5. Ends(v, t)
    BY <1>1, <1>4, ErrorEnds DEF Succeeds, Readable
  <1>6. DOMAIN v.outcome = DOMAIN s.outcome /\ v.connection = s.connection /\ Pending(v) = Pending(s)
    BY <1>2, <1>3, <1>4 DEF Succeeds
  <1>7. ASSUME NEW k \in DOMAIN s.outcome
        PROVE  /\ v.outcome[k] \in {s.outcome[k], "success"}
               /\ s.outcome[k] = "pending" /\ v.outcome[k] = "success" =>
                      s.channel.chain # <<>> /\ k = Head(s.channel.chain)
    BY <1>2, <1>4 DEF Succeeds
  <1> QED
    BY <1>5, <1>6, <1>7 DEF Ends

-----------------------------------------------------------------------------
\* What reading a frame does.
Understands(s, t, f) ==
    /\ Pending(t) \subseteq Pending(s) \cup {Control(op) : op \in CloseFrames}
    /\ IdleInClosing(t)
    /\ ~s.channel.linked => t.channel = s.channel
    /\ Working(t.channel) =>
           /\ Working(s.channel) /\ Pending(s) \subseteq Pending(t)
           /\ s.channel.state = "closing" => t.channel.state = "closing"
           /\ f.is # "channelClose"
           /\ t.channel.chain = IF IsAnswer(f) /\ s.channel.chain # <<>>
                                THEN Tail(s.channel.chain) ELSE s.channel.chain
    /\ \/ t.channel.chain = s.channel.chain \/ t.channel.chain = <<>>
       \/ s.channel.chain # <<>> /\ t.channel.chain = Tail(s.channel.chain)
    /\ t.channel.state = "closed" => t.channel.chain = <<>> \/ s.channel.state = "closed"
    /\ DOMAIN t.outcome = DOMAIN s.outcome
    /\ \A k \in DOMAIN s.outcome :
           /\ t.outcome[k] \in {s.outcome[k], "error", "success"}
           /\ s.outcome[k] = "pending" /\ t.outcome[k] = "success" =>
                  /\ s.channel.linked /\ IsAnswer(f)
                  /\ s.channel.chain # <<>> /\ k = Head(s.channel.chain)

LEMMA PassesUnderstood ==
    ASSUME NEW s, Readable(s), NEW t, Passes(s, t), NEW f, ~IsAnswer(f), f.is # "channelClose"
    PROVE  Understands(s, t, f)
  BY DEF Understands, Passes, Readable, Working

\* A channel that ends does so with its chain.
LEMMA EndsUnderstood ==
    ASSUME NEW s, s.channel.linked, NEW u, NEW t, NEW f, Ends(u, t), u.outcome = s.outcome,
           Pending(u) \subseteq Pending(s) \cup {Control(op) : op \in CloseFrames}
    PROVE  Understands(s, t, f)
  BY DEF Understands, Ends, IdleInClosing, Working

LEMMA CloseUnderstood ==
    ASSUME NEW s \in States, IdleInClosing(s), NEW op \in CloseFrames, NEW f \in FramesToClient,
           ~IsAnswer(f),
           NEW t, t = (LET answered == SendIfAccepted(s, Control(op))
                       IN  IF s.channel.linked THEN ReportError(answered) ELSE answered)
    PROVE  Understands(s, t, f)
  <1> DEFINE u == SendIfAccepted(s, Control(op))
             controls == {Control(o) : o \in CloseFrames}
  <1>1. Spares(s, u, {Control(op)}) /\ u \in States
    BY ControlSpares
  <1>2. t = IF s.channel.linked THEN ReportError(u) ELSE u
    OBVIOUS
  <1>3. Control(op) \in controls
    OBVIOUS
  <1> HIDE DEF u
  <1>4. /\ Pending(s) \subseteq Pending(u) /\ Pending(u) \subseteq Pending(s) \cup controls
        /\ u.channel = s.channel /\ u.outcome = s.outcome /\ IdleInClosing(u)
    <2> HIDE DEF controls
    <2> QED
      BY <1>1, <1>3 DEF Spares
  <1>5. CASE s.channel.linked
    <2>1. Ends(u, t)
      BY <1>1, <1>2, <1>5, StatesShaped, ErrorEnds
    <2> QED
      BY <1>4, <1>5, <2>1, EndsUnderstood
  <1>6. CASE ~s.channel.linked
    <2>1. t = u
      BY <1>2, <1>6
    <2> HIDE DEF controls
    <2> QED
      BY <1>4, <1>6, <2>1 DEF Understands, Working, controls
  <1> QED
    BY <1>5, <1>6

LEMMA ReadUnderstood ==
    ASSUME NEW s \in States, IdleInClosing(s), s.connection.state \in {"connected", "closing"},
           NEW f \in FramesToClient, NEW t, t = ProcessReceived(s, f)
    PROVE  Understands(s, t, f)
  <1>1. Shaped(s)
    BY StatesShaped
  <1>2. CASE f.is = "channelClose"
    <2>1. ~IsAnswer(f)
      BY <1>2 DEF IsAnswer
    <2> QED
      BY <1>2, <2>1, CloseUnderstood DEF ProcessReceived, AnswerChannelClose, CloseFrames
  <1>3. CASE f.is = "connectionClose"
    <2>1. ~IsAnswer(f)
      BY <1>3 DEF IsAnswer
    <2> QED
      BY <1>3, <2>1, CloseUnderstood DEF ProcessReceived, AnswerConnectionClose, CloseFrames
  <1>4. CASE f.is = "connectionCloseOK"
    <2>1. t = [s EXCEPT !.connection.state = "closed"]
      BY <1>4 DEF ProcessReceived
    <2>2. /\ t.toBroker = s.toBroker /\ t.channel = s.channel /\ t.outcome = s.outcome
          /\ t.connection.queue = s.connection.queue /\ t.connection.state = "closed"
      BY <2>1 DEF States, Connections
    <2>3. Pending(t) = Pending(s) /\ IdleInClosing(t)
      BY <2>2 DEF Pending, IdleInClosing
    <2>4. ~IsAnswer(f)
      BY <1>4 DEF IsAnswer
    <2> QED
      BY <1>4, <2>2, <2>3, <2>4 DEF Understands, Working
  <1>5. CASE f.is \notin {"channelClose", "connectionClose", "connectionCloseOK"} /\ ~s.channel.linked
    <2>1. t = s
      BY <1>5 DEF ProcessReceived
    <2> QED
      BY <1>5, <2>1 DEF Understands, Working
  <1>6. CASE f.is \notin {"channelClose", "connectionClose", "connectionCloseOK"} /\ s.channel.linked
    <2>1. t = ProcessChannelFrame(s, f)
      BY <1>6 DEF ProcessReceived
    <2>2. Readable(s) /\ Passes(s, s)
      BY <1>1, <1>6, PassesStill DEF Readable
    <2>3. CASE f.is = "openOK"
      <3> DEFINE u == [s EXCEPT !.channel.state = IF @ = "connected" THEN "ready" ELSE @]
      <3>1. t = Flush(u)
        BY <2>1, <2>3 DEF ProcessChannelFrame, ReportReady
      <3>2. /\ Shaped(u) /\ u.toBroker = s.toBroker /\ u.connection = s.connection
            /\ u.outcome = s.outcome /\ u.channel.chain = s.channel.chain
            /\ u.channel.linked = s.channel.linked
            /\ u.channel.queue = s.channel.queue /\ u.channel.synchronous = s.channel.synchronous
            /\ u.channel.state = s.channel.state
                  \/ (u.channel.state = "ready" /\ s.channel.state = "connected")
        BY <1>1 DEF Shaped
      <3> HIDE DEF u
      <3>3. Readable(u) /\ Pending(u) = Pending(s)
        BY <2>2, <3>2 DEF Readable, IdleInClosing, Pending
      <3>4. Passes(u, t)
        BY <3>1, <3>3, FlushPasses
      <3>5. ~IsAnswer(f)
        BY <2>3 DEF IsAnswer
      <3>6. /\ Pending(t) = Pending(s) /\ IdleInClosing(t) /\ t.outcome = s.outcome
            /\ t.channel.chain = s.channel.chain /\ t.channel.state = u.channel.state
        BY <3>2, <3>3, <3>4 DEF Passes, Readable
      <3> QED
        BY <1>6, <2>3, <3>2, <3>5, <3>6 DEF Understands, Working
    <2>4. CASE f.is \in {"ok", "getOK"}
      <3>1. Succeeds(s, t)
        BY <2>1, <2>2, <2>4, SuccessReported DEF ProcessChannelFrame
      <3>2. IsAnswer(f)
        BY <2>4 DEF IsAnswer
      <3> QED
        BY <1>6, <2>4, <3>1, <3>2 DEF Understands, Succeeds, Readable, Working
    <2>5. CASE f.is = "closeOK"
      <3>1. t = ReportClosed(s, f)
        BY <2>1, <2>5 DEF ProcessChannelFrame
      <3>2. IsAnswer(f)
        BY <2>5 DEF IsAnswer
      <3> HIDE DEF ReportClosed
      <3>3. /\ t.channel.state = "closed" /\ ~t.channel.linked /\ t.channel.chain = <<>>
            /\ t.connection = s.connection /\ Pending(t) \subseteq Pending(s)
            /\ DOMAIN t.outcome = DOMAIN s.outcome
            /\ \A k \in DOMAIN s.outcome :
                 /\ t.outcome[k] \in {s.outcome[k], "error", "success"}
                 /\ s.outcome[k] = "pending" /\ t.outcome[k] = "success" =>
                        s.channel.chain # <<>> /\ k = Head(s.channel.chain)
        BY <2>2, <3>1, ClosedEnds
      <3> QED
        BY <1>6, <3>2, <3>3 DEF Understands, Working, IdleInClosing
    <2>6. CASE f.is \in {"deliver", "cancel", "header", "body"}
      <3>1. Passes(s, t)
        <4>1. t \in {s, TakeDeliver(s, f.id), ReportCancelled(s), TakeHeader(s, f.n),
                     TakeBody(s, <<f.id, f.n>>)}
          BY <2>1, <2>6 DEF ProcessChannelFrame
        <4> QED
          BY <2>2, <4>1, TakesPass
      <3>2. ~IsAnswer(f) /\ f.is # "channelClose"
        BY <2>6 DEF IsAnswer
      <3> QED
        BY <2>2, <3>1, <3>2, PassesUnderstood
    <2> QED
      BY <1>6, <2>3, <2>4, <2>5, <2>6 DEF FramesToClient
  <1> QED
    BY <1>2, <1>3, <1>4, <1>5, <1>6

-----------------------------------------------------------------------------
(***************************************************************************)
(* The invariant: the answers on their way and the requests the broker has *)
(* not read are for the calls of the chain, in its order.                  *)
(***************************************************************************)
\* The calls that the frames of F ask the broker to answer; open has no Deferred.
AskedIn(F) == {g.id : g \in {f \in F : f.op \in Answered \ {"open"}}}

FramesOf(F, cs) == \A f \in F : Named(f, cs) \/ \E op \in CloseFrames : f = Control(op)

\* The answers in q are for calls of cs, in their order, and for earlier ones than
\* the frames of F.
AnswersOf(q, F, cs) ==
    /\ \A i \in AnswersIn(q) : q[i].call \in DOMAIN cs /\ q[i].op = cs[q[i].call]
    /\ InTurn(q)
    /\ \A c \in CallsIn(q) : \A f \in F : f.id # 0 => c < f.id

\* The chain has calls in their order; when the channel is closed, none is pending.
ChainOf(ch, cs, out) ==
    /\ \A i, j \in DOMAIN ch.chain : i < j => ch.chain[i] < ch.chain[j]
    /\ ToSet(ch.chain) \subseteq DOMAIN cs
    /\ ch.state = "closed" => \A k \in ToSet(ch.chain) : out[k] # "pending"

\* Every answer is for a call of the chain, and none is skipped, unless the
\* channel is closed before.  While the broker answers, there will be one for all
\* of the chain but what was called after close().
Paired(ch, q, F, answers) ==
    /\ CallsIn(q) \cup AskedIn(F) \subseteq ToSet(ch.chain)
    /\ \A c \in TimelyCalls(q) : \A k \in ToSet(ch.chain) : k <= c => k \in CallsIn(q)
    /\ answers => \A k \in ToSet(ch.chain) :
                      \/ k \in CallsIn(q) \/ k \in AskedIn(F)
                      \/ ch.state = "closing" /\ \A f \in F : f.id # 0 => f.id < k

\* The broker answers what it reads.
Awaits == Live /\ broker.channel \in {"none", "open"}

\* Before the first call nobody knows of the channel.
Fresh == calls = <<>> => channel.chain = <<>> /\ ~channel.synchronous /\ broker.channel = "none"

\* The inductive invariant: the frames not read yet, the answers not read yet and
\* the chain each are in the order of the calls, and they fit together.
AnswersInv ==
    /\ FramesOf(AllFrames, calls)
    /\ AnswersOf(toClient, AllFrames, calls)
    /\ ChainOf(channel, calls, outcome)
    /\ Fresh
    /\ IdleInClosing(Now)
    /\ broker.channel = "closing" /\ Working(channel) => Refuses(toClient)
    /\ ~unpaired /\ Working(channel) => Paired(channel, toClient, AllFrames, Awaits)

LEMMA AllPending == AllFrames = Pending(Now) /\ AllFrames' = Pending(Now')
  BY DEF AllFrames, SentFrames, Pending, Now

\* What is asked of the broker.
LEMMA AnsweredOperations ==
    /\ Answered \cap CloseFrames = {} /\ Answered \cap Unanswered = {}
    /\ "publish" \notin Answered /\ "close" \in Answered /\ "close" \notin Unanswered
    /\ "channelCloseOK" \notin Answered /\ "connectionClose" \notin Answered
    /\ Answered \subseteq DOMAIN RequestFrame
  BY OperationNames, OperationsKnown DEF Answered, Unanswered, CloseFrames

\* A close frame asks nothing of a call.
LEMMA ControlAsks ==
    ASSUME NEW op \in CloseFrames
    PROVE  Control(op).id = 0 /\ Control(op).op \notin Answered
  BY AnsweredOperations, ControlNamed

\* Close frames that come change nothing; of frames that go, nothing is asked.
LEMMA ClosingSpares ==
    ASSUME NEW F, NEW G, G \subseteq F \cup {Control(op) : op \in CloseFrames}
    PROVE  /\ \A f \in G : f.id # 0 => f \in F
           /\ AskedIn(G) \subseteq AskedIn(F)
           /\ F \subseteq G => AskedIn(F) \subseteq AskedIn(G)
           /\ \A cs : FramesOf(F, cs) => FramesOf(G, cs)
           /\ \A q, cs : AnswersOf(q, F, cs) => AnswersOf(q, G, cs)
  <1>1. \A f \in G : f \in F \/ \E op \in CloseFrames : f = Control(op)
    OBVIOUS
  <1>2. \A f \in G : f.id # 0 \/ f.op \in Answered => f \in F
    BY <1>1, ControlAsks
  <1>3. AskedIn(G) \subseteq AskedIn(F)
    BY <1>2 DEF AskedIn
  <1>4. F \subseteq G => AskedIn(F) \subseteq AskedIn(G)
    BY DEF AskedIn
  <1>5. \A cs : FramesOf(F, cs) => FramesOf(G, cs)
    BY <1>1 DEF FramesOf
  <1>6. \A q, cs : AnswersOf(q, F, cs) => AnswersOf(q, G, cs)
    BY <1>2 DEF AnswersOf
  <1> QED
    BY <1>2, <1>3, <1>4, <1>5, <1>6

LEMMA PairedStays ==
    ASSUME NEW F, NEW G, F \subseteq G, G \subseteq F \cup {Control(op) : op \in CloseFrames},
           NEW ch, NEW q, NEW now, NEW next, next => now, Paired(ch, q, F, now)
    PROVE  Paired(ch, q, G, next)
  <1>1. (\A f \in G : f.id # 0 => f \in F) /\ AskedIn(G) = AskedIn(F)
    BY ClosingSpares
  <1> QED
    BY <1>1 DEF Paired

\* A step of the library that neither calls nor reads.
LEMMA SparesAnswers ==
    ASSUME AnswersInv, Spares(Now, Now', {Control("connectionClose")}),
           UNCHANGED <<toClient, calls, unpaired, broker>>, Live' => Live
    PROVE  AnswersInv'
  <1> DEFINE F == AllFrames
             G == AllFrames'
  <1>1. /\ F \subseteq G /\ G \subseteq F \cup {Control("connectionClose")}
        /\ channel' = channel /\ outcome' = outcome
        /\ IdleInClosing(Now) => IdleInClosing(Now')
    BY AllPending DEF Spares, Now
  <1>2. G \subseteq F \cup {Control(op) : op \in CloseFrames}
    BY <1>1 DEF CloseFrames
  <1>3. Awaits' => Awaits
    BY DEF Awaits
  <1>4. ~unpaired /\ Working(channel) => Paired(channel, toClient, G, Awaits')
    BY <1>1, <1>2, <1>3, PairedStays DEF AnswersInv
  <1>5. FramesOf(G, calls) /\ AnswersOf(toClient, G, calls)
    BY <1>2, ClosingSpares DEF AnswersInv
  <1> QED
    BY <1>1, <1>4, <1>5 DEF AnswersInv, Fresh

-----------------------------------------------------------------------------
(***************************************************************************)
(* The program calls.                                                      *)
(***************************************************************************)
\* The frames of a call have its name.
LEMMA MadeNamed ==
    ASSUME NEW cs \in Seq(DOMAIN RequestFrame), NEW frame, Callable(frame), frame.id = Len(cs) + 1,
           NEW g \in Made(frame)
    PROVE  Named(g, Append(cs, frame.op)) /\ g.id = frame.id /\ g.op = frame.op
  <1>1. PICK i \in 1 .. frame.parts : g = [frame EXCEPT !.part = i]
    BY DEF Made
  <1>2. frame \in Frames /\ (frame.op # "publish" => frame.parts = 1)
    BY DEF Callable
  <1>3. g.id = frame.id /\ g.op = frame.op /\ g.part = i /\ g.parts = frame.parts
    BY <1>1, <1>2 DEF Frames
  <1>4. frame.op # "publish" => i = 1
    BY <1>2
  <1>5. frame.id \in DOMAIN Append(cs, frame.op) /\ Append(cs, frame.op)[frame.id] = frame.op
    BY DEF Callable
  <1> QED
    BY <1>2, <1>3, <1>4, <1>5 DEF Named

\* A call more.
LEMMA CallsLonger ==
    ASSUME NEW cs \in Seq(DOMAIN RequestFrame), NEW op \in DOMAIN RequestFrame,
           NEW ds, ds = Append(cs, op)
    PROVE  /\ ds \in Seq(DOMAIN RequestFrame) /\ ds # <<>>
           /\ \A i \in DOMAIN cs : i \in DOMAIN ds /\ ds[i] = cs[i] /\ i \in Nat /\ 0 < i /\ i < Len(cs) + 1
           /\ Len(cs) + 1 \in DOMAIN ds /\ ds[Len(cs) + 1] = op
           /\ Len(ds) = Len(cs) + 1 /\ Len(cs) + 1 \in Nat
  OBVIOUS

LEMMA ChainsFrames ==
    ASSUME NEW cs \in Seq(DOMAIN RequestFrame), NEW frame, Callable(frame), frame.id = Len(cs) + 1,
           NEW s, NEW t, NEW closing, closing \subseteq {Control("connectionClose")},
           Chains(s, t, frame, closing), FramesOf(Pending(s), cs)
    PROVE  FramesOf(Pending(t), Append(cs, frame.op))
  <1> DEFINE ds == Append(cs, frame.op)
  <1>1. frame.op \in DOMAIN RequestFrame
    BY DEF Callable
  <1>2. \A i \in DOMAIN cs : i \in DOMAIN ds /\ ds[i] = cs[i]
    BY <1>1, CallsLonger
  <1>3. \A g \in Made(frame) : Named(g, ds)
    BY MadeNamed
  <1> HIDE DEF ds
  <1>4. \A f : Named(f, cs) => Named(f, ds)
    BY <1>2 DEF Named
  <1>5. Pending(t) \subseteq Pending(s) \cup Made(frame) \cup closing
    BY DEF Chains
  <1> QED
    BY <1>3, <1>4, <1>5 DEF FramesOf, CloseFrames, ds

LEMMA ChainsChain ==
    ASSUME NEW cs \in Seq(DOMAIN RequestFrame), NEW frame, Callable(frame), frame.id = Len(cs) + 1,
           NEW s, NEW t, NEW closing, Chains(s, t, frame, closing),
           s.channel \in Channels, s.outcome \in Seq(Outcomes), Len(s.outcome) = Len(cs),
           t.outcome \in Seq(Outcomes),
           ChainOf(s.channel, cs, s.outcome)
    PROVE  /\ ChainOf(t.channel, Append(cs, frame.op), t.outcome)
           /\ ToSet(s.channel.chain) \subseteq ToSet(t.channel.chain)
           /\ ToSet(t.channel.chain) \subseteq ToSet(s.channel.chain) \cup {Len(cs) + 1}
           /\ Len(cs) + 1 \in ToSet(t.channel.chain) <=> frame.op \notin Unanswered
           /\ \A k \in DOMAIN cs : t.outcome[k] = s.outcome[k]
  <1> DEFINE ds == Append(cs, frame.op)
             n  == Len(cs) + 1
             p  == s.channel.chain
             q  == t.channel.chain
  <1>1. /\ \A i \in DOMAIN cs : i \in DOMAIN ds /\ ds[i] = cs[i] /\ i \in Nat /\ 0 < i /\ i < n
        /\ n \in DOMAIN ds /\ n \in Nat
    BY CallsLonger DEF Callable
  <1>2. DOMAIN s.outcome = DOMAIN cs /\ Len(t.outcome) = n
    BY DEF Chains
  <1>3. p \in Seq(1 .. MaxCalls + 2)
    BY ChannelMembers
  <1>4. /\ \A i, j \in DOMAIN p : i < j => p[i] < p[j]
        /\ ToSet(p) \subseteq DOMAIN cs
        /\ s.channel.state = "closed" => \A k \in ToSet(p) : s.outcome[k] # "pending"
    BY DEF ChainOf
  <1>5. q = IF frame.op \in Unanswered THEN p ELSE Append(p, n)
    BY <1>2 DEF Chains
  <1>6. /\ t.channel.state = "closed" => s.channel.state = "closed"
        /\ \A i \in DOMAIN s.outcome : t.outcome[i] = s.outcome[i]
        /\ s.channel.state = "closed" => t.outcome[n] # "pending"
    BY <1>2 DEF Chains
  <1> HIDE DEF ds
  <1>7. n \notin ToSet(p)
    <2>1. \A i \in DOMAIN cs : i # n
      BY <1>1
    <2> HIDE DEF n
    <2> QED
      BY <1>4, <2>1
  <1> HIDE DEF n
  <1>8. /\ \A i, j \in DOMAIN q : i < j => q[i] < q[j]
        /\ ToSet(q) = ToSet(p) \cup (IF frame.op \in Unanswered THEN {} ELSE {n})
    <2>1. CASE frame.op \in Unanswered
      BY <1>4, <1>5, <2>1
    <2>2. CASE frame.op \notin Unanswered
      <3>1. q = Append(p, n)
        BY <1>5, <2>2
      <3> HIDE DEF q
      <3>2. /\ DOMAIN p = 1 .. Len(p) /\ DOMAIN q = 1 .. Len(p) + 1 /\ Len(p) \in Nat
            /\ \A i \in DOMAIN p : q[i] = p[i]
            /\ q[Len(p) + 1] = n
        BY <1>1, <1>3, <3>1
      <3>3. \A i \in DOMAIN q : i \in DOMAIN p \/ i = Len(p) + 1
        BY <3>2
      <3>4. Len(p) + 1 \in DOMAIN q /\ \A i \in DOMAIN p : i \in DOMAIN q /\ i < Len(p) + 1 /\ ~(Len(p) + 1 < i)
        BY <3>2
      <3>5. \A i \in DOMAIN p : p[i] < n
        BY <1>1, <1>4 DEF ToSet
      <3>6. ASSUME NEW i \in DOMAIN q, NEW j \in DOMAIN q, i < j
            PROVE  q[i] < q[j]
        <4>1. CASE j \in DOMAIN p
          <5>1. i \in DOMAIN p
            BY <3>3, <3>4, <3>6, <4>1
          <5> QED
            BY <1>4, <3>2, <3>6, <4>1, <5>1
        <4>2. CASE j = Len(p) + 1
          <5>1. i \in DOMAIN p
            BY <3>2, <3>6, <4>2
          <5> QED
            BY <3>2, <3>5, <4>2, <5>1
        <4> QED
          BY <3>3, <4>1, <4>2
      <3>7. ToSet(q) = ToSet(p) \cup {n}
        BY <3>2, <3>3, <3>4 DEF ToSet
      <3> QED
        BY <2>2, <3>6, <3>7
    <2> QED
      BY <2>1, <2>2
  <1>9. ToSet(q) \subseteq DOMAIN ds
    BY <1>1, <1>4, <1>8
  <1>10. t.channel.state = "closed" => \A k \in ToSet(q) : t.outcome[k] # "pending"
    BY <1>2, <1>4, <1>6, <1>8
  <1>11. ChainOf(t.channel, ds, t.outcome)
    BY <1>8, <1>9, <1>10 DEF ChainOf
  <1> QED
    BY <1>2, <1>6, <1>7, <1>8, <1>11 DEF ds, n

\* What a call leads to keeps the pairs, when its Deferred gets an answer.
LEMMA ChainsPaired ==
    ASSUME NEW cs \in Seq(DOMAIN RequestFrame), NEW frame, Callable(frame), frame.id = Len(cs) + 1,
           frame.op # "open",
           NEW s, NEW t, NEW closing, closing \subseteq {Control("connectionClose")},
           Chains(s, t, frame, closing),
           NEW F, F = Pending(s), NEW G, G = Pending(t),
           FramesOf(F, cs), NEW q, AnswersOf(q, F, cs),
           Working(s.channel),
           ToSet(s.channel.chain) \subseteq ToSet(t.channel.chain),
           ToSet(t.channel.chain) \subseteq ToSet(s.channel.chain) \cup {Len(cs) + 1},
           Len(cs) + 1 \in ToSet(t.channel.chain) <=> frame.op \notin Unanswered,
           s.channel.state \in {"connected", "ready", "closing", "closed"},
           Usable(s.channel) /\ frame.op \notin Unanswered =>
               frame.op \in Answered /\ t.outcome[Len(t.outcome)] # "refused",
           NEW now, NEW next, next => now,
           Paired(s.channel, q, F, now)
    PROVE  Paired(t.channel, q, G, next)
  <1> DEFINE n == Len(cs) + 1
             C == ToSet(s.channel.chain)
             D == ToSet(t.channel.chain)
  <1>1. \A i \in DOMAIN cs : i \in Nat /\ 0 < i /\ i < n /\ ~(n <= i)
    OBVIOUS
  <1>2. n \in Nat
    OBVIOUS
  <1>3. frame.id = n /\ frame \in G => (frame.op \in Answered => n \in AskedIn(G))
    BY DEF AskedIn
  <1>4. /\ \A g \in Made(frame) : g.id = n /\ g.op = frame.op
    BY MadeNamed
  <1> HIDE DEF n
  <1>5. /\ F \subseteq G /\ G \subseteq F \cup Made(frame) \cup closing
        /\ s.channel.state = "closing" => G \subseteq F \cup closing
        /\ s.channel.state = "closing" => t.channel.state = "closing"
        /\ Usable(s.channel) /\ frame.op \notin Unanswered => frame \in G
    BY DEF Chains, Usable, Working
  <1>6. \A f \in closing : f.id = 0 /\ f.op \notin Answered
    BY ControlAsks DEF CloseFrames
  <1>7. AskedIn(F) \subseteq AskedIn(G)
    BY <1>5 DEF AskedIn
  <1>8. \A k \in AskedIn(G) : k \in AskedIn(F) \/ (k = n /\ frame.op \in Answered)
    BY <1>4, <1>5, <1>6 DEF AskedIn
  <1>9. CallsIn(q) \cup AskedIn(G) \subseteq D
    BY <1>8, AnsweredOperations DEF Paired, n
  <1>10. ASSUME NEW c \in TimelyCalls(q), NEW k \in D, k <= c
         PROVE  k \in CallsIn(q)
    <2>1. c \in CallsIn(q)
      BY DEF TimelyCalls, TimelyIn, CallsIn
    <2>2. c \in DOMAIN cs
      BY <2>1 DEF AnswersOf, CallsIn
    <2>3. k # n
      BY <1>1, <1>10, <2>2
    <2> QED
      BY <1>10, <2>3 DEF Paired, n
  <1>11. ASSUME next, NEW k \in D
         PROVE  \/ k \in CallsIn(q) \/ k \in AskedIn(G)
                \/ t.channel.state = "closing" /\ \A f \in G : f.id # 0 => f.id < k
    <2>1. CASE k \in C
      <3>1. \/ k \in CallsIn(q) \/ k \in AskedIn(F)
            \/ s.channel.state = "closing" /\ \A f \in F : f.id # 0 => f.id < k
        BY <1>11, <2>1 DEF Paired
      <3> QED
        BY <1>5, <1>6, <1>7, <3>1
    <2>2. CASE k \notin C
      <3>1. k = n /\ frame.op \notin Unanswered
        BY <2>2 DEF n
      <3>2. CASE Usable(s.channel)
        BY <1>3, <1>5, <3>1, <3>2 DEF n
      <3>3. CASE ~Usable(s.channel)
        <4>1. s.channel.state = "closing"
          BY <3>3 DEF Usable, Working
        <4>2. \A f \in F : f.id # 0 => f.id < n
          BY <1>1, ControlAsks DEF FramesOf, Named
        <4> QED
          BY <1>5, <1>6, <3>1, <4>1, <4>2
      <3> QED
        BY <3>2, <3>3
    <2> QED
      BY <2>1, <2>2
  <1> QED
    BY <1>9, <1>10, <1>11 DEF Paired

\* A step of the library that calls.
LEMMA ChainsAnswers ==
    ASSUME IInv, AnswersInv, NEW frame, Callable(frame), frame.id = Len(calls) + 1,
           frame.op # "open",
           NEW closing, closing \subseteq {Control("connectionClose")},
           Chains(Now, Now', frame, closing), Now' \in States,
           calls' = Append(calls, frame.op), calls # <<>>,
           UNCHANGED <<toClient, broker>>, Live' => Live,
           ~unpaired' => /\ ~unpaired
                         /\ Usable(channel) /\ channel.linked /\ frame.op \notin Unanswered =>
                                frame.op \in Answered /\ outcome'[Len(outcome')] # "refused"
    PROVE  AnswersInv'
  <1> DEFINE n == Len(calls) + 1
             F == AllFrames
             G == AllFrames'
             C == ToSet(channel.chain)
             D == ToSet(channel'.chain)
  <1>1. /\ calls \in Seq(DOMAIN RequestFrame) /\ channel \in Channels /\ outcome \in Seq(Outcomes)
        /\ Len(outcome) = Len(calls) /\ frame.op \in DOMAIN RequestFrame
        /\ Now.channel = channel /\ Now.outcome = outcome
    BY NowSound DEF Callable, States
  <1>2. /\ F = Pending(Now) /\ G = Pending(Now')
        /\ (Now').channel = channel' /\ (Now').outcome = outcome' /\ outcome' \in Seq(Outcomes)
    BY AllPending DEF Now, States
  <1>3. FramesOf(G, calls')
    BY <1>1, <1>2, ChainsFrames DEF AnswersInv
  <1>4. /\ ChainOf(channel', calls', outcome')
        /\ C \subseteq D /\ D \subseteq C \cup {n}
        /\ n \in D <=> frame.op \notin Unanswered
    BY <1>1, <1>2, ChainsChain DEF AnswersInv
  <1>5. /\ \A i \in DOMAIN calls : i \in DOMAIN calls' /\ calls'[i] = calls[i] /\ i < n
        /\ calls' # <<>>
    BY <1>1, CallsLonger
  <1>6. AnswersOf(toClient, G, calls')
    <2>1. AnswersOf(toClient, F, calls)
      BY DEF AnswersInv
    <2>2. \A c \in CallsIn(toClient) : c < n
      BY <1>5, <2>1 DEF AnswersOf, CallsIn
    <2>3. \A g \in Made(frame) : g.id = n
      BY <1>1, MadeNamed
    <2>4. \A g \in closing : g.id = 0
      BY ControlAsks DEF CloseFrames
    <2>5. G \subseteq F \cup Made(frame) \cup closing
      BY <1>2 DEF Chains
    <2> QED
      BY <1>5, <2>1, <2>2, <2>3, <2>4, <2>5 DEF AnswersOf
  <1>7. IdleInClosing(Now')
    BY DEF AnswersInv, Chains
  <1>8. Working(channel') => Working(channel)
    BY <1>1, <1>2 DEF Chains, Working, Usable
  <1>9. ASSUME ~unpaired', Working(channel')
        PROVE  Paired(channel', toClient, G, Awaits')
    <2>1. Working(channel) /\ Paired(channel, toClient, F, Awaits)
      BY <1>8, <1>9 DEF AnswersInv
    <2>2. /\ Usable(channel) /\ frame.op \notin Unanswered =>
                 frame.op \in Answered /\ outcome'[Len(outcome')] # "refused"
          /\ FramesOf(F, calls) /\ AnswersOf(toClient, F, calls)
          /\ channel.state \in {"connected", "ready", "closing", "closed"}
          /\ Awaits' => Awaits
      BY <1>1, <1>9, <2>1, ChannelMembers DEF AnswersInv, Working, Awaits
    <2> HIDE DEF F, G
    <2> QED
      BY <1>1, <1>2, <1>4, <2>1, <2>2, ChainsPaired
  <1> QED
    BY <1>3, <1>4, <1>5, <1>6, <1>7, <1>8, <1>9 DEF AnswersInv, Fresh

LEMMA CallKeepsAnswers ==
    ASSUME IInv, AnswersInv, NEW op \in Operations, NEW size \in Sizes, Call(op, size)
    PROVE  AnswersInv'
  <1> DEFINE n == Len(calls)
             parts == IF op = "publish" THEN 2 + size ELSE 1
             frame == FrameOfCall(op, n + 1, 1, parts)
             s == Perform(Now, frame)
             none == {}
  <1>1. /\ n \in 1 .. MaxCalls /\ MaxCalls \in Nat /\ MaxSize \in Nat /\ size \in 0 .. MaxSize
        /\ op \in DOMAIN RequestFrame /\ op # "open"
    BY ChannelAssumption, OperationsAssumption DEF Call, Sizes
  <1>2. /\ calls' = Append(calls, op) /\ UNCHANGED <<toClient, broker>> /\ connection.state # "gone"
    BY DEF Call
  <1>3. Len(calls') = n + 1 /\ calls # <<>>
    BY <1>1, <1>2, NowSound
  <1>4. Become(s) /\ unpaired' = (unpaired \/ Unpairs(op, Last(s.outcome)))
    <2>1. PICK u \in {Perform(Now, FrameOfCall(op, Len(calls'), 1, parts))} :
              Become(u) /\ unpaired' = (unpaired \/ Unpairs(op, Last(u.outcome)))
      BY DEF Call
    <2> QED
      BY <1>3, <2>1
  <1>5. frame \in Frames /\ Callable(frame) /\ frame.id = n + 1 /\ frame.op = op
    <2>1. parts \in 1 .. 2 + MaxSize /\ (op # "publish" => parts = 1)
      BY <1>1
    <2>2. n + 1 \in 0 .. MaxCalls + 2 /\ 1 \in 1 .. 2 + MaxSize
      BY <1>1
    <2> HIDE DEF parts, n
    <2> QED
      BY <1>1, <2>1, <2>2 DEF FrameOfCall, Frames, Callable
  <1> HIDE DEF frame
  <1>6. Len(Now.outcome) + 1 <= MaxCalls + 2
    BY <1>1, NowSound
  <1>7. Sound(s, LastRead, n + 1)
    BY <1>5, <1>6, NowSound, PerformSound
  <1>8. Chains(Now, s, frame, none) /\ none = {}
    BY <1>5, NowSound, PerformChains
  <1> HIDE DEF s, none
  <1>9. Now' = s /\ s \in States
    BY <1>4, <1>7, Becomes DEF Sound
  <1>10. ASSUME ~unpaired'
         PROVE  /\ ~unpaired
                /\ Usable(channel) /\ channel.linked /\ op \notin Unanswered =>
                       op \in Answered /\ outcome'[Len(outcome')] # "refused"
    <2>1. outcome' = s.outcome
      BY <1>4 DEF Become
    <2>2. Last(s.outcome) = outcome'[Len(outcome')]
      BY <2>1 DEF Last
    <2> QED
      BY <1>4, <1>10, <2>2 DEF Unpairs
  <1>11. Live' => Live
    BY <1>2 DEF Live
  <1> QED
    BY <1>1, <1>2, <1>3, <1>5, <1>8, <1>9, <1>10, <1>11, ChainsAnswers

LEMMA ReadyKeepsAnswers ==
    ASSUME IInv, AnswersInv, Ready
    PROVE  AnswersInv'
  <1>1. Become(SetReady(Now)) /\ UNCHANGED <<calls, toClient, broker, unpaired>>
        /\ connection.state = "handshake"
    BY DEF Ready
  <1>2. Sound(SetReady(Now), LastRead, Len(calls))
    BY NowSound, SetReadySound
  <1>3. Now' = SetReady(Now)
    BY <1>1, <1>2, Becomes DEF Sound
  <1>4. Spares(Now, Now', {Control("connectionClose")})
    BY <1>1, <1>3, NowSound, ReadySpares
  <1>5. Live' => Live
    BY <1>1 DEF Live
  <1> QED
    BY <1>1, <1>4, <1>5, SparesAnswers

\* close() of a connection calls close() of its channel, if it has one.
LEMMA ClosingChains ==
    ASSUME IInv, NEW s, s = CloseConnection(Now), connection.state # "gone",
           NEW frame, frame = FrameOfCall("close", Len(calls) + 1, 1, 1)
    PROVE  /\ s \in States
           /\ \/ Spares(Now, s, {Control("connectionClose")}) /\ CallsOfClose(s) = calls
              \/ /\ Chains(Now, s, frame, {Control("connectionClose")})
                 /\ CallsOfClose(s) = Append(calls, "close") /\ calls # <<>>
  <1> DEFINE closing == {Control("connectionClose")}
  <1>1. /\ Sound(Now, LastRead, Len(Now.outcome)) /\ Drained(Now)
        /\ Len(Now.outcome) <= MaxCalls + (IF Now.connection.closeCalled THEN 2 ELSE 1)
        /\ Len(Now.outcome) = Len(calls) /\ Now.channel = channel /\ Len(calls) \in Nat
        /\ Now.outcome = outcome
    BY NowSound DEF IInv, Calling
  <1>2. frame = FrameOfCall("close", Len(Now.outcome) + 1, 1, 1)
    BY <1>1
  <1>3. closing = {Control("connectionClose")}
    OBVIOUS
  <1> HIDE DEF closing
  <1>4. Spares(Now, s, closing) \/ (Chains(Now, s, frame, closing) /\ channel.linked)
    BY <1>1, <1>2, <1>3, CloseConnectionChains
  <1>5. s \in States
    BY ClosingCalls DEF Sound
  <1>6. CASE Spares(Now, s, closing)
    <2>1. Len(s.outcome) = Len(calls)
      BY <1>1, <1>6 DEF Spares
    <2>2. CallsOfClose(s) = calls
      BY <1>1, <2>1 DEF CallsOfClose
    <2> QED
      BY <1>3, <1>5, <1>6, <2>2
  <1>7. CASE Chains(Now, s, frame, closing) /\ channel.linked
    <2>1. Len(s.outcome) = Len(calls) + 1
      BY <1>1, <1>7 DEF Chains
    <2>2. CallsOfClose(s) = Append(calls, "close")
      BY <1>1, <2>1 DEF CallsOfClose
    <2>3. calls # <<>>
      BY <1>7 DEF IInv, Calling
    <2> QED
      BY <1>3, <1>5, <1>7, <2>2, <2>3
  <1> QED
    BY <1>4, <1>6, <1>7

\* The frame of close() is one of a call as long as close() may be called.
LEMMA CloseCallable ==
    ASSUME IInv, ~connection.closeCalled,
           NEW frame, frame = FrameOfCall("close", Len(calls) + 1, 1, 1)
    PROVE  Callable(frame) /\ frame.op = "close" /\ frame.id = Len(calls) + 1
  <1>1. Len(calls) + 1 \in 0 .. MaxCalls + 2 /\ 1 \in 1 .. 2 + MaxSize
    BY ChannelAssumption, NowSound DEF IInv, Calling
  <1>2. "close" \in DOMAIN RequestFrame
    BY OperationNames
  <1> QED
    BY <1>1, <1>2 DEF Callable, Frames, FrameOfCall

LEMMA CloseKeepsAnswers ==
    ASSUME IInv, AnswersInv, Close
    PROVE  AnswersInv'
  <1> DEFINE s == CloseConnection(Now)
             n == Len(calls) + 1
             frame == FrameOfCall("close", n, 1, 1)
             closing == {Control("connectionClose")}
  <1>1. /\ Become(s) /\ calls' = CallsOfClose(s) /\ UNCHANGED <<toClient, broker>>
        /\ connection.state # "gone" /\ ~connection.closeCalled
        /\ unpaired' = (unpaired \/ (Len(calls') > Len(calls) /\ Unpairs("close", Last(s.outcome))))
    BY DEF Close
  <1>2. /\ s \in States /\ closing = {Control("connectionClose")}
        /\ \/ Spares(Now, s, closing) /\ calls' = calls
           \/ Chains(Now, s, frame, closing) /\ calls' = Append(calls, "close") /\ calls # <<>>
    BY <1>1, ClosingChains
  <1>3. Callable(frame) /\ frame.op = "close" /\ frame.id = Len(calls) + 1
    BY <1>1, CloseCallable
  <1>4. Live' => Live
    BY <1>1 DEF Live
  <1>5. calls \in Seq(DOMAIN RequestFrame) /\ unpaired \in BOOLEAN
    BY NowSound
  <1> HIDE DEF s, frame, closing
  <1>6. Now' = s /\ outcome' = s.outcome
    BY <1>1, <1>2, Becomes DEF Become
  <1>7. CASE Spares(Now, s, closing) /\ calls' = calls
    <2>1. ~(Len(calls') > Len(calls))
      BY <1>5, <1>7
    <2>2. unpaired' = unpaired
      BY <1>1, <1>5, <2>1
    <2> QED
      BY <1>1, <1>2, <1>4, <1>6, <1>7, <2>2, SparesAnswers
  <1>8. CASE Chains(Now, s, frame, closing) /\ calls' = Append(calls, "close") /\ calls # <<>>
    <2>1. Len(calls') > Len(calls)
      BY <1>5, <1>8, OperationNames
    <2>2. Last(s.outcome) = outcome'[Len(outcome')]
      BY <1>6 DEF Last
    <2>3. ASSUME ~unpaired'
          PROVE  /\ ~unpaired
                 /\ Usable(channel) /\ channel.linked /\ "close" \notin Unanswered =>
                        "close" \in Answered /\ outcome'[Len(outcome')] # "refused"
      BY <1>1, <2>1, <2>2, <2>3 DEF Unpairs
    <2> QED
      BY <1>1, <1>2, <1>3, <1>4, <1>6, <1>8, <2>3, ChainsAnswers
  <1> QED
    BY <1>2, <1>7, <1>8

\* Nothing is on the way to a library that is gone.
LEMMA DestroyKeepsAnswers ==
    ASSUME IInv, AnswersInv, Destroy
    PROVE  AnswersInv'
  <1> DEFINE s == CloseConnection(Now)
             n == Len(calls) + 1
             frame == FrameOfCall("close", n, 1, 1)
             closing == {Control("connectionClose")}
             u == [s EXCEPT !.connection.state = "gone", !.channel.linked = FALSE]
  <1>1. /\ Become(u) /\ calls' = CallsOfClose(s) /\ toClient' = <<>> /\ broker' = broker
        /\ connection.state # "gone"
    BY DEF Destroy
  <1>2. /\ s \in States /\ closing = {Control("connectionClose")}
        /\ \/ Spares(Now, s, closing) /\ calls' = calls
           \/ Chains(Now, s, frame, closing) /\ calls' = Append(calls, "close") /\ calls # <<>>
    BY <1>1, ClosingChains
  <1>3. Chains(Now, s, frame, closing) => Callable(frame) /\ frame.op = "close" /\ frame.id = Len(calls) + 1
    <2>1. CASE connection.closeCalled
      <3>1. s = Now
        BY <2>1, NowSound DEF CloseConnection
      <3>2. Len(Now.outcome) # Len(Now.outcome) + 1
        BY NowSound
      <3> QED
        BY <3>1, <3>2 DEF Chains
    <2>2. CASE ~connection.closeCalled
      BY <2>2, CloseCallable
    <2> QED
      BY <2>1, <2>2
  <1> HIDE DEF s, frame
  <1>4. /\ channel'.linked = FALSE /\ channel'.chain = s.channel.chain
        /\ channel'.state = s.channel.state /\ channel'.synchronous = s.channel.synchronous
        /\ connection'.state = "gone" /\ outcome' = s.outcome
        /\ Pending(Now') = Pending(s)
    <2>1. /\ DOMAIN s = {"channel", "connection", "toBroker", "outcome", "delivered"}
          /\ s.channel \in Channels /\ s.connection \in Connections
      BY <1>2, StatesShaped DEF Shaped, States
    <2>2. /\ u.channel = [s.channel EXCEPT !.linked = FALSE]
          /\ u.connection = [s.connection EXCEPT !.state = "gone"]
          /\ u.toBroker = s.toBroker /\ u.outcome = s.outcome
      BY <2>1
    <2>3. /\ u.connection.queue = s.connection.queue /\ u.connection.state = "gone"
          /\ u.channel.queue = s.channel.queue /\ u.channel.linked = FALSE
          /\ u.channel.chain = s.channel.chain /\ u.channel.state = s.channel.state
      BY <2>1, <2>2 DEF Channels, Connections
    <2>4. u.channel.synchronous = s.channel.synchronous
      BY <2>1, <2>2 DEF Channels
    <2> HIDE DEF u
    <2>5. /\ channel' = u.channel /\ connection' = u.connection /\ outcome' = u.outcome
          /\ toBroker' = u.toBroker
      BY <1>1 DEF Become
    <2> QED
      BY <2>2, <2>3, <2>4, <2>5 DEF Pending, Now
  <1> HIDE DEF u
  <1>5. /\ calls \in Seq(DOMAIN RequestFrame) /\ channel \in Channels /\ outcome \in Seq(Outcomes)
        /\ Len(outcome) = Len(calls) /\ Now.channel = channel /\ Now.outcome = outcome
        /\ s.outcome \in Seq(Outcomes)
    BY <1>2, NowSound DEF States
  <1>6. FramesOf(Pending(Now), calls)
    BY AllPending DEF AnswersInv
  <1>7. /\ FramesOf(Pending(s), calls') /\ ChainOf(s.channel, calls', s.outcome)
        /\ calls' = <<>> => s.channel = channel /\ calls = <<>>
    <2>1. CASE Spares(Now, s, closing) /\ calls' = calls
      <3>1. Pending(s) \subseteq Pending(Now) \cup {Control(op) : op \in CloseFrames}
        BY <2>1 DEF Spares, CloseFrames
      <3>2. FramesOf(Pending(s), calls)
        BY <1>6, <3>1, ClosingSpares
      <3> QED
        BY <1>5, <2>1, <3>2 DEF Spares, AnswersInv
    <2>2. CASE Chains(Now, s, frame, closing) /\ calls' = Append(calls, "close") /\ calls # <<>>
      <3>1. Callable(frame) /\ frame.op = "close" /\ frame.id = Len(calls) + 1
        BY <1>3, <2>2
      <3>2. FramesOf(Pending(s), Append(calls, frame.op))
        BY <1>2, <1>5, <1>6, <2>2, <3>1, ChainsFrames
      <3>3. ChainOf(s.channel, Append(calls, frame.op), s.outcome)
        BY <1>5, <2>2, <3>1, ChainsChain DEF AnswersInv
      <3>4. calls' # <<>>
        BY <1>5, <2>2, CallsLonger, OperationNames
      <3> QED
        BY <2>2, <3>1, <3>2, <3>3, <3>4
    <2> QED
      BY <1>2, <2>1, <2>2
  <1>8. AnswersIn(toClient') = {}
    BY <1>1 DEF AnswersIn
  <1>9. AnswersOf(toClient', AllFrames', calls')
    BY <1>8 DEF AnswersOf, InTurn, CallsIn
  <1>10. FramesOf(AllFrames', calls') /\ ChainOf(channel', calls', outcome')
    BY <1>4, <1>7, AllPending DEF ChainOf
  <1>11. IdleInClosing(Now') /\ ~Working(channel')
    BY <1>4 DEF IdleInClosing, Working, Now
  <1>12. Fresh'
    BY <1>1, <1>4, <1>7 DEF AnswersInv, Fresh
  <1> QED
    BY <1>9, <1>10, <1>11, <1>12 DEF AnswersInv

\* The first call: nothing was asked before, and open has no Deferred.
LEMMA AttachKeepsAnswers ==
    ASSUME IInv, AnswersInv, Attach
    PROVE  AnswersInv'
  <1> DEFINE open == FrameOfCall("open", 1, 1, 1)
             ch   == [channel EXCEPT !.state = "connected", !.linked = TRUE]
             u    == [Now EXCEPT !.channel = ch]
             one  == [u EXCEPT !.outcome = <<"done">>]
             shut == [one EXCEPT !.channel = [ch EXCEPT !.state = "closed"]]
             sent == SendFrame(one, open)
             t    == IF Sends(one, open) THEN sent ELSE shut
  <1>1. /\ calls = <<>> /\ calls' = <<"open">> /\ UNCHANGED <<toClient, broker>>
    BY DEF Attach
  <1>2. Len(calls) = 0 /\ calls' # <<>> /\ DOMAIN calls' = {1} /\ calls'[1] = "open"
        /\ DOMAIN calls = {}
    BY <1>1, OperationNames
  <1>3. /\ channel.state = "closed" /\ ~channel.linked
        /\ channel.chain = <<>> /\ ~channel.synchronous /\ broker.channel = "none"
    BY <1>1 DEF IInv, Calling, AnswersInv, Fresh
  <1>4. channel.queue = <<>>
    BY <1>3, NowSound DEF Drained
  <1>5. /\ ch \in Channels /\ ch.queue = <<>> /\ ch.state = "connected" /\ ch.linked
        /\ ch.chain = <<>>
    BY <1>3, <1>4, NowSound DEF Channels
  <1>6. ~ch.synchronous
    BY <1>3, NowSound DEF Channels
  <1>7. open \in Frames /\ open.id = 1 /\ open.op = "open" /\ open.part = 1 /\ open.parts = 1
    BY ChannelAssumption, OperationNames DEF FrameOfCall, Frames
  <1>8. Become(t)
    <2>1. [Now EXCEPT !.channel.state = "connected", !.channel.linked = TRUE, !.outcome = <<"done">>]
              = one
      BY NowSound DEF States, Channels, Now
    <2>2. [one EXCEPT !.channel.state = "closed"] = shut
      BY NowSound DEF States, Channels, Now
    <2> HIDE DEF one, shut
    <2> QED
      BY <2>1, <2>2 DEF Attach
  <1> HIDE DEF ch
  <1>9. /\ Sound(u, LastRead, 0) /\ u.channel = ch /\ u.connection = connection
        /\ u.toBroker = toBroker /\ u.delivered = delivered
    BY <1>2, <1>4, <1>5, NowSound, ChannelSound
  <1> HIDE DEF u
  <1>10. /\ Sound(one, LastRead, 0) /\ one.channel = ch /\ one.connection = connection
         /\ one.toBroker = toBroker
    <2> DEFINE o == <<"done">>
    <2>1. o \in Seq(Outcomes) /\ Len(o) = 1
      BY DEF Outcomes
    <2> HIDE DEF o
    <2> QED
      BY <1>9, <2>1, OutcomeSound DEF o
  <1> HIDE DEF one, open
  <1>11. /\ one \in States /\ Pending(one) = AllFrames /\ IdleInClosing(one)
    <2>1. Pending(one) = AllFrames
      BY <1>4, <1>5, <1>10 DEF Pending, AllFrames, SentFrames
    <2>2. IdleInClosing(one)
      BY <1>5, <1>6, <1>10 DEF IdleInClosing
    <2> QED
      BY <1>10, <2>1, <2>2 DEF Sound
  <1>12. /\ Pending(t) \subseteq AllFrames \cup {open} /\ t.channel.chain = <<>>
         /\ IdleInClosing(t) /\ t \in States
    <2>1. CASE Sends(one, open)
      <3> DEFINE f == <<open>>
      <3>1. f \in Seq(Frames) /\ f[1] = open /\ ToSet(f) = {open} /\ f # <<>>
        BY <1>7 DEF ToSet
      <3>2. t = SendFrames(one, f)
        BY <2>1 DEF SendFrame
      <3> HIDE DEF f, t
      <3> QED
        BY <1>5, <1>10, <1>11, <2>1, <3>1, <3>2, SendFramesPending
    <2>2. CASE ~Sends(one, open)
      <3> DEFINE closed == [ch EXCEPT !.state = "closed"]
      <3>1. /\ closed \in Channels /\ closed.queue = <<>> /\ closed.chain = <<>>
        BY <1>5 DEF Channels
      <3>2. ~closed.synchronous
        BY <1>5, <1>6 DEF Channels
      <3>3. t = [one EXCEPT !.channel = closed]
        BY <2>2
      <3> HIDE DEF closed, t
      <3>4. /\ Sound(t, LastRead, 0) /\ t.channel = closed /\ t.connection = connection
            /\ t.toBroker = toBroker
        BY <1>5, <1>10, <3>1, <3>3, ChannelSound
      <3>5. Pending(t) = AllFrames
        BY <1>4, <3>1, <3>4 DEF Pending, AllFrames, SentFrames
      <3> QED
        BY <3>1, <3>2, <3>4, <3>5 DEF Sound, IdleInClosing
    <2> QED
      BY <2>1, <2>2
  <1> HIDE DEF t
  <1>13. Now' = t /\ channel' = t.channel
    BY <1>8, <1>12, Becomes DEF Become
  <1>14. AnswersIn(toClient) = {}
    BY <1>2 DEF AnswersInv, AnswersOf
  <1>15. AllFrames' \subseteq AllFrames \cup {open}
    BY <1>12, <1>13, AllPending
  <1>16. Named(open, calls')
    BY <1>2, <1>7 DEF Named
  <1>17. \A f \in AllFrames : \E op \in CloseFrames : f = Control(op)
    BY <1>2 DEF AnswersInv, FramesOf, Named
  <1>18. FramesOf(AllFrames', calls')
    BY <1>15, <1>16, <1>17 DEF FramesOf
  <1>19. CallsIn(toClient) = {} /\ TimelyCalls(toClient) = {} /\ AskedIn(AllFrames') = {}
    <2>1. CallsIn(toClient) = {} /\ TimelyCalls(toClient) = {}
      BY <1>14 DEF CallsIn, TimelyCalls, TimelyIn
    <2>2. \A f \in AllFrames' : f.op \notin Answered \ {"open"}
      BY <1>7, <1>15, <1>17, ControlAsks
    <2> QED
      BY <2>1, <2>2 DEF AskedIn
  <1>20. AnswersOf(toClient', AllFrames', calls')
    BY <1>1, <1>14, <1>19 DEF AnswersOf, InTurn
  <1>21. channel'.chain = <<>> /\ DOMAIN channel'.chain = {} /\ ToSet(channel'.chain) = {}
    BY <1>12, <1>13 DEF ToSet
  <1>22. ChainOf(channel', calls', outcome')
    BY <1>21 DEF ChainOf
  <1>23. Paired(channel', toClient', AllFrames', Awaits')
    BY <1>1, <1>19, <1>21 DEF Paired
  <1>24. IdleInClosing(Now') /\ broker'.channel = "none" /\ Fresh'
    BY <1>1, <1>2, <1>3, <1>12, <1>13 DEF Fresh
  <1> QED
    BY <1>18, <1>20, <1>22, <1>23, <1>24 DEF AnswersInv

-----------------------------------------------------------------------------
(***************************************************************************)
(* The library reads.                                                      *)
(***************************************************************************)
\* The first answer is for the oldest call of the chain.
LEMMA HeadAnswered ==
    ASSUME NEW q \in Seq(FramesToClient), q # <<>>, InTurn(q), IsAnswer(Head(q)),
           NEW ch, ch.chain \in Seq(1 .. MaxCalls + 2), NEW F, NEW answers, Paired(ch, q, F, answers),
           \A i, j \in DOMAIN ch.chain : i < j => ch.chain[i] < ch.chain[j]
    PROVE  /\ ch.chain # <<>> /\ Head(q).call = Head(ch.chain)
           /\ ToSet(ch.chain) = {Head(ch.chain)} \cup ToSet(Tail(ch.chain))
           /\ \A k \in ToSet(Tail(ch.chain)) : Head(ch.chain) < k /\ k # Head(ch.chain)
           /\ \A i, j \in DOMAIN Tail(ch.chain) : i < j => Tail(ch.chain)[i] < Tail(ch.chain)[j]
           /\ Tail(ch.chain) \in Seq(1 .. MaxCalls + 2)
  <1> DEFINE p == ch.chain
             a == Head(q)
             h == Head(p)
             r == Tail(p)
             T == 1 .. MaxCalls + 2
  <1>1. /\ a.call \in CallsIn(q) /\ a.call \in TimelyCalls(q)
        /\ \A k \in CallsIn(Tail(q)) : a.call < k
        /\ CallsIn(q) \subseteq CallsIn(Tail(q)) \cup {a.call}
    <2> DEFINE t == Tail(q)
    <2>1. a = Head(q) /\ t = Tail(q) /\ IsAnswer(a)
      OBVIOUS
    <2> HIDE DEF a, t
    <2>2. /\ CallsIn(q) \subseteq CallsIn(t) \cup (IF IsAnswer(a) THEN {a.call} ELSE {})
          /\ IsAnswer(a) => /\ a.call \in CallsIn(q) /\ a.call \in TimelyCalls(q)
                            /\ \A k \in CallsIn(t) : a.call < k
      BY <2>1, FirstRead
    <2> QED
      BY <2>1, <2>2 DEF t
  <1>2. a.call \in ToSet(p)
    BY <1>1 DEF Paired
  <1>3. p # <<>> /\ p \in Seq(T)
    <2> HIDE DEF p
    <2>1. p # <<>>
      BY <1>2 DEF ToSet
    <2> QED
      BY <2>1 DEF p
  <1>7. T \subseteq Nat
    BY ChannelAssumption
  <1> HIDE DEF p, T
  <1>4. /\ h \in T /\ h = p[1] /\ 1 \in DOMAIN p /\ r \in Seq(T)
        /\ \A i \in DOMAIN r : i \in Nat /\ i + 1 \in DOMAIN p /\ r[i] = p[i + 1]
        /\ \A i \in DOMAIN p : i # 1 => i - 1 \in DOMAIN r /\ r[i - 1] = p[i]
        /\ DOMAIN p \subseteq Nat \ {0} /\ DOMAIN r \subseteq Nat \ {0}
    BY <1>3, Shifted
  <1>5. \A i, j \in DOMAIN p : i < j => p[i] < p[j]
    BY DEF p
  <1> HIDE DEF h, r
  <1>6. \A k \in ToSet(p) : k \in T
    BY <1>3 DEF ToSet
  <1>8. ToSet(p) = {h} \cup ToSet(r)
    <2>1. \A k \in ToSet(p) : k \in {h} \cup ToSet(r)
      BY <1>4 DEF ToSet
    <2>2. \A k \in {h} \cup ToSet(r) : k \in ToSet(p)
      BY <1>4 DEF ToSet
    <2> QED
      BY <2>1, <2>2
  <1>9. ASSUME NEW k \in ToSet(r)
        PROVE  h < k /\ k # h
    <2>1. PICK i \in DOMAIN r : k = r[i]
      BY DEF ToSet
    <2>2. i + 1 \in DOMAIN p /\ 1 < i + 1 /\ k = p[i + 1]
      BY <1>4, <2>1
    <2>3. h < k
      BY <1>4, <1>5, <2>2
    <2>4. k \in Nat /\ h \in Nat
      BY <1>4, <1>6, <1>7, <1>8
    <2> QED
      BY <2>3, <2>4
  <1>10. ASSUME NEW i \in DOMAIN r, NEW j \in DOMAIN r, i < j
         PROVE  r[i] < r[j]
    <2>1. /\ i + 1 \in DOMAIN p /\ j + 1 \in DOMAIN p /\ i + 1 < j + 1
          /\ r[i] = p[i + 1] /\ r[j] = p[j + 1]
      BY <1>4, <1>10
    <2> QED
      BY <1>5, <2>1
  <1>11. a.call = h
    <2>1. a.call \in Nat /\ h \in Nat /\ h \in ToSet(p)
      BY <1>2, <1>4, <1>6, <1>7, <1>8
    <2>2. h <= a.call
      BY <1>2, <1>8, <1>9, <2>1
    <2>3. h \in CallsIn(q)
      BY <1>1, <2>1, <2>2 DEF Paired, p
    <2>4. h # a.call => a.call < h
      BY <1>1, <2>3
    <2> QED
      BY <2>1, <2>2, <2>4
  <1> QED
    BY <1>3, <1>4, <1>8, <1>9, <1>10, <1>11 DEF p, h, r, T

\* Sending the close of the connection after a frame makes no difference to it.
LEMMA UnderstoodClosing ==
    ASSUME NEW s, NEW t, NEW u, NEW f, Understands(s, t, f), Spares(t, u, {Control("connectionClose")})
    PROVE  Understands(s, u, f)
  BY DEF Understands, Spares, CloseFrames

\* The library has understood the frame it has read.
LEMMA FrameUnderstood ==
    ASSUME IInv, IdleInClosing(Now), NEW more \in BOOLEAN, ReadFrame(more)
    PROVE  /\ Understands(Now, Now', Head(toClient)) /\ toClient # <<>>
           /\ toClient' = Tail(toClient) /\ UNCHANGED <<calls, broker, unpaired>>
           /\ connection.state # "gone"
  <1> DEFINE q == toClient
             f == Head(q)
             t == ProcessReceived(Now, f)
             s == IF more THEN t ELSE SendCloseWhenIdle(t)
             n == Len(calls)
  <1>1. /\ connection.state \in {"connected", "closing"} /\ q # <<>>
        /\ Become(s) /\ toClient' = Tail(q) /\ UNCHANGED <<calls, broker, unpaired>>
    <2>1. q \in Seq(FramesToClient) /\ Len(q) > (IF more THEN 1 ELSE 0)
      BY NowSound DEF ReadFrame
    <2>2. q # <<>>
      BY <2>1
    <2> QED
      BY <2>2 DEF ReadFrame
  <1>2. /\ q \in Seq(FramesToClient) /\ InPieces(q)
        /\ channel.linked /\ channel.receiver # NoReceiver => Receiving(channel.receiver, q)
    BY NowSound DEF IInv, Messages
  <1>3. f \in FramesToClient
    BY <1>1, <1>2, Shifted
  <1>4. Sound(t, LastRead, n)
    BY <1>1, <1>2, NowSound, ProcessReceivedSound DEF Read
  <1>5. Understands(Now, t, f)
    BY <1>1, <1>3, NowSound, ReadUnderstood
  <1> HIDE DEF t
  <1>6. t \in States
    BY <1>4, StateMembers
  <1>7. Understands(Now, s, f) /\ s \in States
    <2>1. CASE more
      BY <1>5, <1>6, <2>1
    <2>2. CASE ~more
      BY <1>4, <1>5, <1>6, <2>2, WhenIdleSpares, UnderstoodClosing, CloseWhenIdleSound, StateMembers
    <2> QED
      BY <2>1, <2>2
  <1> HIDE DEF s
  <1> QED
    BY <1>1, <1>7, Becomes

\* The chain is the old one, or without its first, or there is none any more.
LEMMA ChainShorter ==
    ASSUME NEW cs, NEW s, NEW t, NEW f, Understands(s, t, f),
           s.channel \in Channels, ChainOf(s.channel, cs, s.outcome), DOMAIN s.outcome = DOMAIN cs
    PROVE  ChainOf(t.channel, cs, t.outcome)
  <1> DEFINE p == s.channel.chain
             q == t.channel.chain
             T == 1 .. MaxCalls + 2
  <1>1. p \in Seq(T)
    BY ChannelMembers
  <1>2. /\ \A i, j \in DOMAIN p : i < j => p[i] < p[j]
        /\ ToSet(p) \subseteq DOMAIN cs
        /\ s.channel.state = "closed" => \A k \in ToSet(p) : s.outcome[k] # "pending"
    BY DEF ChainOf
  <1>3. q = p \/ q = <<>> \/ (p # <<>> /\ q = Tail(p))
    BY DEF Understands
  <1>4. /\ t.channel.state = "closed" => q = <<>> \/ s.channel.state = "closed"
        /\ \A k \in DOMAIN s.outcome : t.outcome[k] \in {s.outcome[k], "error", "success"}
    BY DEF Understands
  <1> HIDE DEF p, q, T
  <1>5. /\ \A i, j \in DOMAIN q : i < j => q[i] < q[j]
        /\ ToSet(q) \subseteq ToSet(p)
    <2>1. CASE q = p
      BY <1>2, <2>1
    <2>2. CASE q = <<>>
      BY <2>2 DEF ToSet
    <2>3. CASE p # <<>> /\ q = Tail(p)
      <3>1. \A i \in DOMAIN q : i \in Nat /\ i + 1 \in DOMAIN p /\ q[i] = p[i + 1]
        BY <1>1, <2>3, Shifted
      <3>2. ASSUME NEW i \in DOMAIN q, NEW j \in DOMAIN q, i < j
            PROVE  q[i] < q[j]
        <4>1. i + 1 \in DOMAIN p /\ j + 1 \in DOMAIN p /\ i + 1 < j + 1
          BY <3>1, <3>2
        <4> QED
          BY <1>2, <3>1, <4>1
      <3>3. ToSet(q) \subseteq ToSet(p)
        BY <3>1 DEF ToSet
      <3> QED
        BY <3>2, <3>3
    <2> QED
      BY <1>3, <2>1, <2>2, <2>3
  <1>6. t.channel.state = "closed" => \A k \in ToSet(q) : t.outcome[k] # "pending"
    <2> SUFFICES ASSUME t.channel.state = "closed", NEW k \in ToSet(q)
                 PROVE  t.outcome[k] # "pending"
      OBVIOUS
    <2>1. q # <<>>
      BY DEF ToSet
    <2>2. k \in ToSet(p) /\ k \in DOMAIN s.outcome /\ s.outcome[k] # "pending"
      BY <1>2, <1>4, <1>5, <2>1
    <2> QED
      BY <1>4, <2>2
  <1> QED
    BY <1>2, <1>5, <1>6 DEF ChainOf, q

LEMMA ReadKeepsAnswers ==
    ASSUME IInv, AnswersInv, NEW more \in BOOLEAN, ReadFrame(more)
    PROVE  AnswersInv'
  <1> DEFINE q == toClient
             f == Head(q)
             r == Tail(q)
             F == AllFrames
             G == AllFrames'
  <1>1. /\ Understands(Now, Now', f) /\ q # <<>> /\ toClient' = r
        /\ UNCHANGED <<calls, broker, unpaired>> /\ connection.state # "gone"
    BY FrameUnderstood DEF AnswersInv
  <1>2. /\ q \in Seq(FramesToClient) /\ channel \in Channels /\ Len(outcome) = Len(calls)
        /\ outcome \in Seq(Outcomes) /\ calls \in Seq(DOMAIN RequestFrame)
        /\ Now.channel = channel /\ Now.outcome = outcome
        /\ (Now').channel = channel' /\ (Now').outcome = outcome'
    BY NowSound DEF States, Now
  <1>3. DOMAIN outcome = DOMAIN calls
    BY <1>2
  <1>4. AnswersOf(q, F, calls) /\ InTurn(q) /\ FramesOf(F, calls) /\ ChainOf(channel, calls, outcome)
    BY DEF AnswersInv, AnswersOf
  <1>5. f = Head(q) /\ r = Tail(q)
    OBVIOUS
  <1> HIDE DEF f, r
  <1>6. /\ InTurn(r) /\ CallsIn(r) \subseteq CallsIn(q)
        /\ CallsIn(q) \subseteq CallsIn(r) \cup (IF IsAnswer(f) THEN {f.call} ELSE {})
        /\ IsAnswer(f) => \A k \in CallsIn(r) : f.call < k
        /\ f.is # "channelClose" => TimelyCalls(r) \subseteq TimelyCalls(q)
        /\ f.is # "channelClose" /\ Refuses(q) => Refuses(r)
        /\ TheAnswers(r) \subseteq TheAnswers(q)
    <2>1. q \in Seq(FramesToClient) /\ q # <<>> /\ InTurn(q) /\ f = Head(q) /\ r = Tail(q)
      BY <1>1, <1>2, <1>4, <1>5
    <2> HIDE DEF q
    <2>2. /\ InTurn(r) /\ CallsIn(r) \subseteq CallsIn(q)
          /\ CallsIn(q) \subseteq CallsIn(r) \cup (IF IsAnswer(f) THEN {f.call} ELSE {})
      BY <2>1, FirstRead
    <2>3. /\ IsAnswer(f) => \A k \in CallsIn(r) : f.call < k
          /\ f.is # "channelClose" => TimelyCalls(r) \subseteq TimelyCalls(q)
          /\ f.is # "channelClose" /\ Refuses(q) => Refuses(r)
      BY <2>1, FirstRead
    <2>4. TheAnswers(r) \subseteq TheAnswers(q)
      BY <2>1, FirstRead
    <2> QED
      BY <2>2, <2>3, <2>4
  <1>7. G \subseteq F \cup {Control(op) : op \in CloseFrames}
    BY <1>1, AllPending DEF Understands
  <1>8. FramesOf(G, calls)
    BY <1>4, <1>7, ClosingSpares
  <1>9. AnswersOf(r, G, calls)
    <2>1. AnswersOf(r, F, calls)
      <3>1. \A a \in TheAnswers(r) : a.call \in DOMAIN calls /\ a.op = calls[a.call]
        BY <1>4, <1>6 DEF AnswersOf, TheAnswers
      <3>2. \A i \in AnswersIn(r) : r[i] \in TheAnswers(r)
        BY DEF TheAnswers
      <3> QED
        BY <1>4, <1>6, <3>1, <3>2 DEF AnswersOf
    <2> QED
      BY <1>7, <2>1, ClosingSpares
  <1>10. ChainOf(channel', calls, outcome')
    BY <1>1, <1>2, <1>3, <1>4, ChainShorter
  <1>11. Fresh'
    <2>1. calls = <<>> => ~channel.linked
      BY DEF IInv, Calling
    <2>2. ~channel.linked => channel' = channel
      BY <1>1, <1>2 DEF Understands
    <2> QED
      BY <1>1, <2>1, <2>2 DEF AnswersInv, Fresh
  <1>12. IdleInClosing(Now')
    BY <1>1 DEF Understands
  <1>13. Working(channel') =>
            /\ Working(channel) /\ F \subseteq G
            /\ channel.state = "closing" => channel'.state = "closing"
            /\ f.is # "channelClose"
            /\ channel'.chain = IF IsAnswer(f) /\ channel.chain # <<>>
                                THEN Tail(channel.chain) ELSE channel.chain
    BY <1>1, <1>2, AllPending DEF Understands
  <1>14. broker'.channel = "closing" /\ Working(channel') => Refuses(r)
    BY <1>1, <1>6, <1>13 DEF AnswersInv
  <1>15. ASSUME ~unpaired', Working(channel')
         PROVE  Paired(channel', r, G, Awaits')
    <2>1. Paired(channel, q, F, Awaits)
      BY <1>1, <1>13, <1>15 DEF AnswersInv
    <2>2. Awaits' => Awaits
      BY <1>1 DEF Awaits, Live
    <2>3. AskedIn(G) = AskedIn(F) /\ \A g \in G : g.id # 0 => g \in F
      BY <1>7, <1>13, <1>15, ClosingSpares
    <2>4. CASE ~IsAnswer(f)
      <3>1. CallsIn(r) = CallsIn(q) /\ channel'.chain = channel.chain
        BY <1>6, <1>13, <1>15, <2>4
      <3> QED
        BY <1>6, <1>13, <1>15, <2>1, <2>2, <2>3, <3>1 DEF Paired
    <2>5. CASE IsAnswer(f)
      <3> DEFINE p == channel.chain
                 h == Head(p)
                 t == Tail(p)
      <3>1. p \in Seq(1 .. MaxCalls + 2) /\ \A i, j \in DOMAIN p : i < j => p[i] < p[j]
        BY <1>2, <1>4, ChannelMembers DEF ChainOf
      <3>2. /\ p # <<>> /\ f.call = h /\ ToSet(p) = {h} \cup ToSet(t)
            /\ \A k \in ToSet(t) : k # h
        BY <1>1, <1>2, <1>4, <1>5, <2>1, <2>5, <3>1, HeadAnswered
      <3>3. channel'.chain = t
        BY <1>13, <1>15, <2>5, <3>2
      <3> HIDE DEF p, h, t
      <3>4. h \in Nat
        <4>1. h \in CallsIn(q)
          BY <1>1, <1>2, <1>4, <1>5, <2>5, <3>2, FirstRead
        <4>2. h \in DOMAIN calls
          BY <1>4, <4>1 DEF AnswersOf, CallsIn
        <4> QED
          BY <1>2, <4>2
      <3>5. /\ h \notin CallsIn(r) /\ \A k \in CallsIn(q) : k = h \/ k \in CallsIn(r)
        BY <1>6, <2>5, <3>2, <3>4
      <3>6. h \notin AskedIn(F)
        <4> SUFFICES ASSUME NEW g \in F, g.op \in Answered, g.id = h
                     PROVE  FALSE
          BY DEF AskedIn
        <4>1. g.id # 0
          BY <1>2, <1>4, ControlAsks DEF FramesOf, Named
        <4>2. h \in CallsIn(q)
          BY <1>1, <1>2, <1>4, <1>5, <2>5, <3>2, FirstRead
        <4>3. h < g.id
          BY <1>4, <4>1, <4>2 DEF AnswersOf
        <4> QED
          BY <3>4, <4>3
      <3>7. CallsIn(r) \cup AskedIn(G) \subseteq ToSet(t)
        BY <1>6, <2>1, <2>3, <3>2, <3>5, <3>6 DEF Paired, p
      <3>8. \A c \in TimelyCalls(r) : \A k \in ToSet(t) : k <= c => k \in CallsIn(r)
        BY <1>6, <1>13, <1>15, <2>1, <3>2, <3>5 DEF Paired, p
      <3>9. Awaits' => \A k \in ToSet(t) :
                           \/ k \in CallsIn(r) \/ k \in AskedIn(G)
                           \/ channel'.state = "closing" /\ \A g \in G : g.id # 0 => g.id < k
        BY <1>13, <1>15, <2>1, <2>2, <2>3, <3>2, <3>5 DEF Paired, p
      <3> QED
        BY <3>3, <3>7, <3>8, <3>9 DEF Paired
    <2> QED
      BY <2>4, <2>5
  <1> QED
    BY <1>1, <1>8, <1>9, <1>10, <1>11, <1>12, <1>14, <1>15 DEF AnswersInv

-----------------------------------------------------------------------------
(***************************************************************************)
(* The broker.                                                             *)
(***************************************************************************)
\* A step of the broker that answers no call.
LEMMA PlainAnswers ==
    ASSUME IInv, AnswersInv, UNCHANGED libraryVars,
           NEW extra \in Seq(FramesToClient), toClient' = toClient \o extra, AnswersIn(extra) = {},
           AllFrames' \subseteq AllFrames,
           Awaits' => Awaits /\ AskedIn(AllFrames) \subseteq AskedIn(AllFrames'),
           broker'.channel = "closing" => broker.channel = "closing" \/ Refuses(extra),
           calls = <<>> => broker'.channel = "none"
    PROVE  AnswersInv'
  <1> DEFINE q == toClient
             r == q \o extra
             F == AllFrames
             G == AllFrames'
  <1>1. /\ channel' = channel /\ connection' = connection /\ calls' = calls
        /\ outcome' = outcome /\ unpaired' = unpaired
    BY DEF libraryVars
  <1>2. q \in Seq(FramesToClient)
    BY NowSound
  <1>3. /\ CallsIn(r) = CallsIn(q) /\ TimelyCalls(r) = TimelyCalls(q)
        /\ AnswersIn(r) = AnswersIn(q)
        /\ \A i \in DOMAIN q : r[i] = q[i]
        /\ InTurn(q) => InTurn(r)
        /\ Refuses(q) => Refuses(r)
    BY <1>2, PlainBehind
  <1>4. Refuses(extra) => Refuses(r)
    <2> SUFFICES ASSUME NEW j \in DOMAIN extra, extra[j].is = "channelClose"
                 PROVE  Refuses(r)
      BY DEF Refuses
    <2>1. Len(q) + j \in DOMAIN r /\ r[Len(q) + j] = extra[j]
      BY <1>2, Concatenated
    <2> QED
      BY <2>1 DEF Refuses
  <1>5. toClient' = r
    OBVIOUS
  <1> HIDE DEF r
  <1>6. FramesOf(G, calls)
    BY DEF AnswersInv, FramesOf
  <1>7. AnswersOf(r, G, calls)
    <2>1. AnswersIn(q) \subseteq DOMAIN q
      BY DEF AnswersIn
    <2> QED
      BY <1>3, <2>1 DEF AnswersInv, AnswersOf
  <1>8. Fresh' /\ ChainOf(channel', calls', outcome')
    BY <1>1 DEF AnswersInv, Fresh
  <1>9. IdleInClosing(Now')
    BY <1>1 DEF AnswersInv, IdleInClosing, Now
  <1>10. broker'.channel = "closing" /\ Working(channel) => Refuses(r)
    BY <1>3, <1>4 DEF AnswersInv
  <1>11. ASSUME ~unpaired, Working(channel)
         PROVE  Paired(channel, r, G, Awaits')
    <2>1. Paired(channel, q, F, Awaits)
      BY <1>11 DEF AnswersInv
    <2>2. AskedIn(G) \subseteq AskedIn(F)
      BY DEF AskedIn
    <2> QED
      BY <1>3, <2>1, <2>2 DEF Paired
  <1> QED
    BY <1>1, <1>5, <1>6, <1>7, <1>8, <1>9, <1>10, <1>11 DEF AnswersInv

\* The frame that the broker reads was the first of all that it has to read.
LEMMA FirstTaken ==
    ASSUME IInv, AnswersInv, NEW frame \in Incoming, Reads
    PROVE  /\ UNCHANGED libraryVars /\ connection.state # "gone"
           /\ frame \in AllFrames /\ frame \in Frames
           /\ AllFrames' \subseteq AllFrames /\ AllFrames \subseteq AllFrames' \cup {frame}
           /\ frame.op \in Answered => /\ frame.id \in DOMAIN calls /\ frame.op = calls[frame.id]
                                       /\ frame.id \in Nat /\ frame.id # 0
           /\ frame.op \in Answered => \A g \in AllFrames' : g.id # 0 => frame.id < g.id
           /\ calls = <<>> => \E op \in CloseFrames : frame = Control(op)
  <1>1. /\ UNCHANGED libraryVars /\ connection.state # "gone" /\ toBroker' = Tail(toBroker)
        /\ channel' = channel /\ connection' = connection
    BY DEF Reads, libraryVars
  <1>2. /\ frame \in Frames /\ frame \in ToSet(toBroker)
        /\ toBroker \in Seq(Frames) /\ toBroker # <<>> /\ frame = toBroker[1]
        /\ \A g \in ToSet(Tail(toBroker)) : g \in ToSet(toBroker)
        /\ \A g \in ToSet(Tail(toBroker)) \cup ToSet(connection.queue) \cup ToSet(channel.queue) :
               Before(frame, g)
    BY HeadBefore
  <1>3. ToSet(toBroker) \subseteq ToSet(Tail(toBroker)) \cup {frame}
    <2>1. \A i \in DOMAIN toBroker : i # 1 =>
              i - 1 \in DOMAIN Tail(toBroker) /\ Tail(toBroker)[i - 1] = toBroker[i]
      BY <1>2, Shifted
    <2> QED
      BY <1>2, <2>1 DEF ToSet
  <1>4. /\ frame \in AllFrames /\ AllFrames' \subseteq AllFrames
        /\ AllFrames \subseteq AllFrames' \cup {frame}
        /\ \A g \in AllFrames' : Before(frame, g)
    BY <1>1, <1>2, <1>3 DEF AllFrames, SentFrames
  <1>5. \A g \in AllFrames : Named(g, calls) \/ \E op \in CloseFrames : g = Control(op)
    BY DEF AnswersInv, FramesOf
  <1>6. calls \in Seq(DOMAIN RequestFrame)
    BY NowSound
  <1>7. \A g \in AllFrames : g.id # 0 => Named(g, calls)
    BY <1>5, ControlAsks
  <1>8. frame.op \in Answered => Named(frame, calls)
    BY <1>4, <1>5, ControlAsks
  <1>9. frame.op \in Answered => /\ frame.id \in DOMAIN calls /\ frame.op = calls[frame.id]
                                 /\ frame.id \in Nat /\ frame.id # 0 /\ frame.part = 1
    BY <1>6, <1>8, AnsweredOperations DEF Named
  <1>10. ASSUME frame.op \in Answered, NEW g \in AllFrames', g.id # 0
         PROVE  frame.id < g.id
    <2>1. Before(frame, g) /\ Named(g, calls)
      BY <1>4, <1>7, <1>10
    <2>2. frame.id < g.id \/ (frame.id = g.id /\ frame.part < g.part)
      BY <1>9, <1>10, <2>1 DEF Before
    <2>3. ASSUME frame.id = g.id
          PROVE  g.part = 1
      BY <1>9, <1>10, <2>1, <2>3, AnsweredOperations DEF Named
    <2> QED
      BY <1>9, <1>10, <2>2, <2>3
  <1>11. calls = <<>> => \E op \in CloseFrames : frame = Control(op)
    BY <1>4, <1>5 DEF Named
  <1> QED
    BY <1>1, <1>2, <1>4, <1>9, <1>10, <1>11

\* The broker answers the frame it has read.
LEMMA AnswerAnswers ==
    ASSUME IInv, AnswersInv, NEW frame \in Incoming, Reads, ~Ignored(frame), Allowed(frame),
           frame.op \in Answered \ {"open"},
           NEW extra \in Seq(FramesToClient), toClient' = toClient \o extra, AnswersIn(extra) = {1},
           extra[1].call = frame.id, extra[1].op = frame.op,
           broker'.channel \in {broker.channel, "closed"}
    PROVE  AnswersInv'
  <1> DEFINE q == toClient
             r == q \o extra
             a == extra[1]
             F == AllFrames
             G == AllFrames'
  <1>1. /\ UNCHANGED libraryVars /\ connection.state # "gone"
        /\ frame \in F /\ G \subseteq F /\ F \subseteq G \cup {frame}
        /\ frame.id \in DOMAIN calls /\ frame.op = calls[frame.id]
        /\ frame.id \in Nat /\ frame.id # 0
        /\ \A g \in G : g.id # 0 => frame.id < g.id
        /\ calls # <<>>
    BY FirstTaken
  <1>2. /\ channel' = channel /\ connection' = connection /\ calls' = calls
        /\ outcome' = outcome /\ unpaired' = unpaired
    BY <1>1 DEF libraryVars
  <1>3. q \in Seq(FramesToClient) /\ calls \in Seq(DOMAIN RequestFrame)
    BY NowSound
  <1>4. AnswersOf(q, F, calls)
    BY DEF AnswersInv
  <1>5. \A k \in CallsIn(q) : k < a.call
    BY <1>1, <1>4 DEF AnswersOf
  <1>6. /\ CallsIn(r) = CallsIn(q) \cup {a.call}
        /\ TimelyCalls(r) \subseteq TimelyCalls(q) \cup {a.call}
        /\ Refuses(q) => TimelyCalls(r) \subseteq TimelyCalls(q) /\ Refuses(r)
        /\ TheAnswers(r) \subseteq TheAnswers(q) \cup {a}
        /\ InTurn(r)
    <2>1. q \in Seq(FramesToClient) /\ InTurn(q) /\ Later(q, extra[1].call)
      BY <1>3, <1>4, <1>5 DEF AnswersOf, Later
    <2> HIDE DEF q
    <2> QED
      BY <2>1, AnswerBehind
  <1>7. toClient' = r /\ a.call = frame.id /\ a.op = frame.op
    OBVIOUS
  <1> HIDE DEF a, r
  <1>8. FramesOf(G, calls)
    BY <1>1 DEF AnswersInv, FramesOf
  <1>9. AnswersOf(r, G, calls)
    <2>1. \A i \in AnswersIn(r) : r[i].call \in DOMAIN calls /\ r[i].op = calls[r[i].call]
      <3>1. \A e \in TheAnswers(r) : e.call \in DOMAIN calls /\ e.op = calls[e.call]
        <4>1. \A e \in TheAnswers(q) : e.call \in DOMAIN calls /\ e.op = calls[e.call]
          BY <1>4 DEF AnswersOf, TheAnswers
        <4>2. a.call \in DOMAIN calls /\ a.op = calls[a.call]
          BY <1>1, <1>7
        <4> QED
          BY <1>6, <4>1, <4>2
      <3> QED
        BY <3>1 DEF TheAnswers
    <2>2. \A c \in CallsIn(r) : \A g \in G : g.id # 0 => c < g.id
      BY <1>1, <1>4, <1>6, <1>7 DEF AnswersOf
    <2> QED
      BY <1>6, <2>1, <2>2 DEF AnswersOf
  <1>10. Fresh' /\ ChainOf(channel', calls', outcome') /\ IdleInClosing(Now')
    BY <1>1, <1>2 DEF AnswersInv, Fresh, IdleInClosing, Now
  <1>11. broker'.channel = "closing" /\ Working(channel) => Refuses(r)
    BY <1>6 DEF AnswersInv
  <1>12. ASSUME ~unpaired, Working(channel)
         PROVE  Paired(channel, r, G, Awaits')
    <2> DEFINE C == ToSet(channel.chain)
    <2>1. Paired(channel, q, F, Awaits)
      BY <1>12 DEF AnswersInv
    <2>2. broker.channel = "open" \/ broker.channel = "closing"
      <3>1. frame.op \notin {"open", "connectionClose", "connectionCloseOK", "channelCloseOK"}
        BY AnsweredOperations DEF CloseFrames
      <3> QED
        BY <3>1 DEF Allowed, ConnectionFrameOps
    <2>3. broker.connection = "open" /\ Live
      BY <1>1, AnsweredOperations DEF Ignored, Live
    <2>4. Refuses(q) \/ Awaits
      BY <1>12, <2>2, <2>3 DEF AnswersInv, Awaits
    <2>5. AskedIn(G) \subseteq AskedIn(F) /\ frame.id \in AskedIn(F)
      BY <1>1 DEF AskedIn
    <2>6. \A k \in AskedIn(F) : k = frame.id \/ k \in AskedIn(G)
      BY <1>1 DEF AskedIn
    <2>7. \A k \in AskedIn(G) : k # 0 => frame.id < k
      BY <1>1 DEF AskedIn
    <2>8. CallsIn(r) \cup AskedIn(G) \subseteq C
      BY <1>6, <1>7, <2>1, <2>5 DEF Paired
    <2>9. C \subseteq DOMAIN calls
      BY DEF AnswersInv, ChainOf
    <2>10. \A k \in C : k \in Nat /\ k # 0
      BY <1>3, <2>9
    <2>11. Awaits' => Awaits
      BY <1>2, <2>2, <2>3, AnsweredOperations DEF Awaits, Live
    <2>12. ASSUME NEW c \in TimelyCalls(r), NEW k \in C, k <= c
           PROVE  k \in CallsIn(r)
      <3>1. CASE c \in TimelyCalls(q)
        BY <1>6, <2>1, <2>12, <3>1 DEF Paired
      <3>2. CASE c \notin TimelyCalls(q)
        <4>1. c = frame.id /\ Awaits
          BY <1>6, <1>7, <2>4, <3>2
        <4>2. \/ k \in CallsIn(q) \/ k \in AskedIn(F)
              \/ \A f \in F : f.id # 0 => f.id < k
          BY <2>1, <4>1 DEF Paired
        <4>3. ~(frame.id < k)
          BY <1>1, <2>10, <2>12, <4>1
        <4> QED
          BY <1>1, <1>6, <1>7, <2>6, <2>7, <2>10, <4>2, <4>3
      <3> QED
        BY <3>1, <3>2
    <2>13. ASSUME Awaits', NEW k \in C
           PROVE  \/ k \in CallsIn(r) \/ k \in AskedIn(G)
                  \/ channel.state = "closing" /\ \A g \in G : g.id # 0 => g.id < k
      <3>1. \/ k \in CallsIn(q) \/ k \in AskedIn(F)
            \/ channel.state = "closing" /\ \A f \in F : f.id # 0 => f.id < k
        BY <2>1, <2>11, <2>13 DEF Paired
      <3> QED
        BY <1>1, <1>6, <1>7, <2>6, <3>1
    <2> QED
      BY <2>8, <2>12, <2>13 DEF Paired
  <1> QED
    BY <1>2, <1>7, <1>8, <1>9, <1>10, <1>11, <1>12 DEF AnswersInv

\* One frame that is no answer.
LEMMA OnePlain ==
    ASSUME NEW f \in FramesToClient, ~IsAnswer(f), NEW extra, extra = <<f>>,
           NEW q \in Seq(FramesToClient)
    PROVE  /\ extra \in Seq(FramesToClient) /\ AnswersIn(extra) = {} /\ Append(q, f) = q \o extra
           /\ f.is = "channelClose" => Refuses(extra)
  <1>1. extra \in Seq(FramesToClient) /\ DOMAIN extra = {1} /\ extra[1] = f /\ Append(q, f) = q \o extra
    OBVIOUS
  <1> QED
    BY <1>1 DEF AnswersIn, Refuses

\* The answer to a get, with its message; another message is no answer.
LEMMA ContentAnswers ==
    ASSUME NEW is \in {"getOK", "deliver"}, NEW op, NEW call, NEW tag, NEW size \in Sizes,
           NEW extra, extra = Content(is, op, call, tag, size)
    PROVE  /\ AnswersIn(extra) = (IF is = "getOK" THEN {1} ELSE {})
           /\ extra[1].call = call /\ extra[1].op = op
  <1> DEFINE a == ToClient(is, op, call, tag, 0)
             b == ToClient("header", "none", 0, tag, size)
             c == [n \in 1 .. size |-> ToClient("body", "none", 0, tag, n)]
             front == <<a, b>>
             T == {a, b} \cup {ToClient("body", "none", 0, tag, n) : n \in 1 .. size}
  <1>1. size \in Nat
    BY ChannelAssumption DEF Sizes
  <1>2. front \in Seq(T) /\ c \in Seq(T)
    BY <1>1
  <1>3. /\ a.is = is /\ a.call = call /\ a.op = op /\ ~IsAnswer(b)
        /\ \A n \in DOMAIN c : ~IsAnswer(c[n])
    BY DEF ToClient, IsAnswer
  <1>4. extra = front \o c
    BY DEF Content
  <1>5. DOMAIN front = {1, 2} /\ front[1] = a /\ front[2] = b
    OBVIOUS
  <1> HIDE DEF front, c, T, a, b
  <1>6. /\ \A i \in DOMAIN front : i \in DOMAIN extra /\ extra[i] = front[i]
        /\ \A i \in DOMAIN extra :
              \/ i \in DOMAIN front /\ extra[i] = front[i]
              \/ \E j \in DOMAIN c : i = Len(front) + j /\ extra[i] = c[j]
    BY <1>2, <1>4, Concatenated
  <1>7. 1 \in DOMAIN extra /\ extra[1] = a
    BY <1>5, <1>6
  <1>8. \A i \in DOMAIN extra : IsAnswer(extra[i]) => i = 1
    BY <1>3, <1>5, <1>6
  <1>9. IsAnswer(a) <=> is = "getOK"
    BY <1>3 DEF IsAnswer
  <1> QED
    BY <1>3, <1>7, <1>8, <1>9 DEF AnswersIn

LEMMA IgnoreKeepsAnswers ==
    ASSUME IInv, AnswersInv, BrokerIgnore
    PROVE  AnswersInv'
  <1>1. PICK frame \in Incoming : Reads /\ Ignored(frame) /\ UNCHANGED <<toClient, broker>>
    BY DEF BrokerIgnore
  <1> DEFINE extra == <<>>
  <1>2. /\ extra \in Seq(FramesToClient) /\ toClient' = toClient \o extra /\ AnswersIn(extra) = {}
    BY <1>1, NowSound DEF AnswersIn
  <1>3. UNCHANGED libraryVars /\ AllFrames' \subseteq AllFrames /\ connection' = connection
    BY <1>1, FirstTaken DEF libraryVars
  <1>4. ~Awaits'
    <2>1. broker.connection # "open" \/ broker.channel = "closing"
      BY <1>1 DEF Ignored
    <2> QED
      BY <1>1, <2>1 DEF Awaits, Live
  <1>5. calls = <<>> => broker'.channel = "none"
    BY <1>1 DEF AnswersInv, Fresh
  <1> HIDE DEF extra
  <1> QED
    BY <1>1, <1>2, <1>3, <1>4, <1>5, PlainAnswers

LEMMA ComplainKeepsAnswers ==
    ASSUME IInv, AnswersInv, BrokerComplain
    PROVE  AnswersInv'
  <1>1. PICK frame \in Incoming :
            /\ Reads /\ ~Ignored(frame) /\ ~Allowed(frame)
            /\ broker' = [broker EXCEPT !.connection = "closing", !.complaint = frame.op]
            /\ toClient' = Append(toClient, ToClient("connectionClose", "none", 0, 0, 0))
    BY DEF BrokerComplain
  <1> DEFINE f     == ToClient("connectionClose", "none", 0, 0, 0)
             extra == <<f>>
  <1>2. f \in FramesToClient /\ ~IsAnswer(f)
    BY ChannelAssumption DEF ToClient, FramesToClient, IsAnswer
  <1>3. toClient' = Append(toClient, f)
    BY <1>1
  <1> HIDE DEF f
  <1>4. extra \in Seq(FramesToClient) /\ toClient' = toClient \o extra /\ AnswersIn(extra) = {}
    BY <1>2, <1>3, NowSound, OnePlain
  <1> HIDE DEF extra
  <1>5. broker'.connection = "closing" /\ broker'.channel = broker.channel
    BY <1>1, NowSound DEF Brokers
  <1>6. UNCHANGED libraryVars /\ AllFrames' \subseteq AllFrames
    BY <1>1, FirstTaken
  <1>7. ~Awaits'
    BY <1>5 DEF Awaits, Live
  <1>8. calls = <<>> => broker'.channel = "none"
    BY <1>5 DEF AnswersInv, Fresh
  <1> QED
    BY <1>4, <1>5, <1>6, <1>7, <1>8, PlainAnswers

\* A frame is taken and not answered.
LEMMA TakenUnanswered ==
    ASSUME IInv, AnswersInv, NEW frame \in Incoming, Reads, ~Ignored(frame), Allowed(frame),
           frame.op \notin Answered \ {"open"},
           NEW extra \in Seq(FramesToClient), toClient' = toClient \o extra, AnswersIn(extra) = {},
           broker' = Took(frame)
    PROVE  AnswersInv'
  <1>1. /\ UNCHANGED libraryVars /\ connection.state # "gone"
        /\ frame \in Frames
        /\ AllFrames' \subseteq AllFrames /\ AllFrames \subseteq AllFrames' \cup {frame}
        /\ calls = <<>> => \E op \in CloseFrames : frame = Control(op)
    BY FirstTaken
  <1>2. /\ broker'.connection = IF frame.op \in ConnectionFrameOps THEN "closed" ELSE broker.connection
        /\ frame.op = "open" => broker'.channel = "open"
        /\ frame.op = "channelCloseOK" => broker'.channel = "closed"
        /\ frame.op = "close" => broker'.channel = IF broker.channel = "open" THEN "closed" ELSE broker.channel
        /\ frame.op \notin {"open", "channelCloseOK", "close"} => broker'.channel = broker.channel
    BY <1>1, NowSound, TookFields
  <1>3. AskedIn(AllFrames) \subseteq AskedIn(AllFrames')
    BY <1>1 DEF AskedIn
  <1>4. Awaits' => Awaits
    <2> SUFFICES ASSUME Awaits'
                 PROVE  Awaits
      OBVIOUS
    <2>1. broker'.connection = "open" /\ broker'.channel \in {"none", "open"}
      BY DEF Awaits, Live
    <2>2. broker.connection = "open"
      BY <1>2, <2>1
    <2>3. frame.op = "open" => frame.op \notin ConnectionFrameOps \cup {"channelCloseOK", "close"}
      BY DEF ConnectionFrameOps
    <2>4. frame.op = "open" => broker.channel = "none"
      BY <2>3 DEF Allowed
    <2>5. broker.channel \in {"none", "open"}
      BY <1>2, <2>1, <2>4
    <2> QED
      BY <1>1, <2>2, <2>5 DEF Awaits, Live
  <1>5. broker'.channel = "closing" => broker.channel = "closing"
    BY <1>2
  <1>6. ASSUME calls = <<>>
        PROVE  broker'.channel = "none"
    <2>1. PICK op \in CloseFrames : frame = Control(op)
      BY <1>1, <1>6
    <2>2. frame.op = op /\ op \notin {"open", "close"}
      BY <2>1, ControlNamed
    <2>3. broker.channel = "none"
      BY <1>6 DEF AnswersInv, Fresh
    <2>4. op # "channelCloseOK"
      BY <2>2, <2>3 DEF Allowed, ConnectionFrameOps
    <2> QED
      BY <1>2, <2>2, <2>3, <2>4
  <1> QED
    BY <1>1, <1>3, <1>4, <1>5, <1>6, PlainAnswers

LEMMA AcceptKeepsAnswers ==
    ASSUME IInv, AnswersInv, BrokerAccept
    PROVE  AnswersInv'
  <1>1. PICK frame \in Incoming :
            /\ Reads /\ ~Ignored(frame) /\ Allowed(frame)
            /\ broker' = Took(frame)
            /\ toClient' = CASE frame.op \in Answered -> Append(toClient, Answer(frame))
                             [] frame.op = "connectionClose" ->
                                  Append(toClient, ToClient("connectionCloseOK", "none", 0, 0, 0))
                             [] OTHER -> toClient
    BY DEF BrokerAccept
  <1>2. frame \in Frames /\ toClient \in Seq(FramesToClient)
    BY HeadBefore, NowSound
  <1>3. CASE frame.op \in Answered
    <2> DEFINE f == Answer(frame)
               extra == <<f>>
    <2>1. frame.op \in DOMAIN RequestFrame /\ frame.id \in Nat
      BY <1>2, <1>3, ChannelAssumption, AnsweredOperations DEF Frames
    <2>2. /\ f \in FramesToClient /\ f.call = frame.id /\ f.op = frame.op
          /\ IsAnswer(f) <=> frame.op # "open"
      BY <2>1, ChannelAssumption DEF Answer, AnswerIs, ToClient, FramesToClient, IsAnswer
    <2>3. toClient' = Append(toClient, f)
      <3>1. frame.op # "connectionClose"
        BY <1>3, AnsweredOperations
      <3> HIDE DEF f
      <3>2. toClient' = Append(toClient, Answer(frame))
        BY <1>1, <1>3, <3>1
      <3> QED
        BY <3>2 DEF f
    <2> HIDE DEF f
    <2>4. /\ extra \in Seq(FramesToClient) /\ toClient' = toClient \o extra
          /\ DOMAIN extra = {1} /\ extra[1] = f
      BY <1>2, <2>2, <2>3
    <2> HIDE DEF extra
    <2>5. CASE frame.op = "open"
      <3>1. AnswersIn(extra) = {}
        BY <2>2, <2>4, <2>5 DEF AnswersIn
      <3> QED
        BY <1>1, <2>4, <2>5, <3>1, TakenUnanswered
    <2>6. CASE frame.op # "open"
      <3>1. AnswersIn(extra) = {1} /\ extra[1].call = frame.id /\ extra[1].op = frame.op
        BY <2>2, <2>4, <2>6 DEF AnswersIn
      <3>2. broker'.channel \in {broker.channel, "closed"}
        BY <1>1, <1>2, <2>6, NowSound, TookFields
      <3> QED
        BY <1>1, <1>3, <2>4, <2>6, <3>1, <3>2, AnswerAnswers
    <2> QED
      BY <2>5, <2>6
  <1>4. CASE frame.op \notin Answered /\ frame.op = "connectionClose"
    <2> DEFINE f == ToClient("connectionCloseOK", "none", 0, 0, 0)
               extra == <<f>>
    <2>1. f \in FramesToClient /\ ~IsAnswer(f)
      BY ChannelAssumption DEF ToClient, FramesToClient, IsAnswer
    <2>2. toClient' = Append(toClient, f)
      BY <1>1, <1>4
    <2> HIDE DEF f
    <2>3. extra \in Seq(FramesToClient) /\ toClient' = toClient \o extra /\ AnswersIn(extra) = {}
      BY <1>2, <2>1, <2>2, OnePlain
    <2> HIDE DEF extra
    <2> QED
      BY <1>1, <1>4, <2>3, TakenUnanswered
  <1>5. CASE frame.op \notin Answered /\ frame.op # "connectionClose"
    <2> DEFINE extra == <<>>
    <2>1. toClient' = toClient
      BY <1>1, <1>5
    <2>2. extra \in Seq(FramesToClient) /\ toClient' = toClient \o extra /\ AnswersIn(extra) = {}
      BY <1>2, <2>1 DEF AnswersIn
    <2> HIDE DEF extra
    <2> QED
      BY <1>1, <1>5, <2>2, TakenUnanswered
  <1> QED
    BY <1>3, <1>4, <1>5

LEMMA RefuseKeepsAnswers ==
    ASSUME IInv, AnswersInv, BrokerRefuse
    PROVE  AnswersInv'
  <1>1. PICK frame \in Incoming :
            /\ Reads /\ ~Ignored(frame) /\ Allowed(frame) /\ broker.channel = "open"
            /\ broker' = [Took(frame) EXCEPT !.channel = "closing", !.consuming = FALSE,
                                             !.errors = @ + 1]
            /\ toClient' = Append(toClient, ToClient("channelClose", "none", 0, 0, 0))
    BY DEF BrokerRefuse
  <1> DEFINE f     == ToClient("channelClose", "none", 0, 0, 0)
             extra == <<f>>
             t     == Took(frame)
  <1>2. f \in FramesToClient /\ ~IsAnswer(f) /\ f.is = "channelClose"
    BY ChannelAssumption DEF ToClient, FramesToClient, IsAnswer
  <1>3. toClient' = Append(toClient, f)
    BY <1>1
  <1>4. broker' = [t EXCEPT !.channel = "closing", !.consuming = FALSE, !.errors = @ + 1]
    BY <1>1
  <1>5. DOMAIN t = {"connection", "channel", "consuming", "read", "messages", "errors", "complaint"}
    BY HeadBefore, NowSound, TookFields
  <1> HIDE DEF f
  <1>6. /\ extra \in Seq(FramesToClient) /\ toClient' = toClient \o extra
        /\ AnswersIn(extra) = {} /\ Refuses(extra)
    BY <1>2, <1>3, NowSound, OnePlain
  <1> HIDE DEF extra, t
  <1>7. broker'.channel = "closing"
    BY <1>4, <1>5
  <1>8. UNCHANGED libraryVars /\ AllFrames' \subseteq AllFrames
    BY <1>1, FirstTaken
  <1>9. ~Awaits'
    BY <1>7 DEF Awaits
  <1>10. calls # <<>>
    BY <1>1 DEF AnswersInv, Fresh
  <1> QED
    BY <1>6, <1>8, <1>9, <1>10, PlainAnswers

LEMMA GetKeepsAnswers ==
    ASSUME IInv, AnswersInv, NEW size \in Sizes, BrokerGet(size)
    PROVE  AnswersInv'
  <1>1. PICK frame \in Incoming :
            /\ Reads /\ ~Ignored(frame) /\ Allowed(frame)
            /\ frame.op = "get" /\ broker.messages < MaxMessages
            /\ broker' = [Took(frame) EXCEPT !.messages = @ + 1]
            /\ toClient' = toClient \o Content("getOK", "get", frame.id, broker'.messages, size)
    BY DEF BrokerGet
  <1> DEFINE t     == Took(frame)
             extra == Content("getOK", "get", frame.id, broker'.messages, size)
  <1>2. broker' = [t EXCEPT !.messages = @ + 1] /\ t = Took(frame)
    BY <1>1
  <1>3. /\ DOMAIN t = {"connection", "channel", "consuming", "read", "messages", "errors", "complaint"}
        /\ t.messages = broker.messages /\ t.channel = broker.channel
    BY <1>1, HeadBefore, NowSound, TookFields, TookSound
  <1> HIDE DEF t
  <1>4. broker'.channel = broker.channel /\ broker'.messages = broker.messages + 1
    BY <1>2, <1>3
  <1>5. broker'.messages \in 1 .. MaxMessages
    <2>1. broker.messages \in 0 .. MaxMessages
      BY NowSound DEF Brokers
    <2>2. MaxMessages \in Nat
      BY ChannelAssumption
    <2> QED
      BY <1>1, <1>4, <2>1, <2>2
  <1>6. AnswersIn(extra) = {1} /\ extra[1].call = frame.id /\ extra[1].op = "get"
    BY ContentAnswers
  <1>7. extra \in Seq(FramesToClient) /\ toClient' = toClient \o extra
    <2>1. frame.id \in Nat
      BY HeadBefore, ChannelAssumption DEF Frames
    <2> QED
      BY <1>1, <1>5, <2>1, OperationNames, ContentFrames
  <1> HIDE DEF extra
  <1>8. frame.op \in Answered \ {"open"}
    BY <1>1, OperationNames DEF Answered, Unanswered
  <1> QED
    BY <1>1, <1>4, <1>6, <1>7, <1>8, AnswerAnswers

\* What the broker sends of its own accord is no answer.
LEMMA SendKeepsAnswers ==
    ASSUME IInv, AnswersInv, NEW extra \in Seq(FramesToClient), BrokerSends(extra),
           AnswersIn(extra) = {}, broker'.channel = broker.channel
    PROVE  AnswersInv'
  <1>1. /\ UNCHANGED libraryVars /\ toClient' = toClient \o extra /\ connection.state # "gone"
        /\ broker.connection = "open" /\ toBroker' = toBroker
    BY DEF BrokerSends
  <1>2. AllFrames' = AllFrames
    BY <1>1 DEF AllFrames, SentFrames, libraryVars
  <1>3. Awaits' => Awaits
    BY <1>1 DEF Awaits, Live
  <1>4. calls = <<>> => broker'.channel = "none"
    BY DEF AnswersInv, Fresh
  <1> QED
    BY <1>1, <1>2, <1>3, <1>4, PlainAnswers

LEMMA DeliverKeepsAnswers ==
    ASSUME IInv, AnswersInv, NEW size \in Sizes, BrokerDeliver(size)
    PROVE  AnswersInv'
  <1> DEFINE extra == Content("deliver", "none", 0, broker'.messages, size)
  <1>1. /\ broker.messages < MaxMessages /\ broker' = [broker EXCEPT !.messages = @ + 1]
        /\ BrokerSends(extra)
    BY DEF BrokerDeliver
  <1>2. broker'.channel = broker.channel /\ broker'.messages \in 1 .. MaxMessages
    <2>1. broker.messages \in 0 .. MaxMessages
      BY NowSound DEF Brokers
    <2>2. MaxMessages \in Nat
      BY ChannelAssumption
    <2>3. DOMAIN broker = {"connection", "channel", "consuming", "read", "messages", "errors", "complaint"}
      BY NowSound DEF Brokers
    <2>4. broker'.channel = broker.channel /\ broker'.messages = broker.messages + 1
      BY <1>1, <2>3
    <2> QED
      BY <1>1, <2>1, <2>2, <2>4
  <1>3. AnswersIn(extra) = {}
    BY ContentAnswers
  <1>4. extra \in Seq(FramesToClient)
    <2>1. "none" \in DOMAIN RequestFrame \cup {"none"} /\ "deliver" # "getOK"
      OBVIOUS
    <2> QED
      BY <1>2, <2>1, ContentFrames
  <1> HIDE DEF extra
  <1> QED
    BY <1>1, <1>2, <1>3, <1>4, SendKeepsAnswers

LEMMA CancelKeepsAnswers ==
    ASSUME IInv, AnswersInv, BrokerCancel \/ BrokerShutdown
    PROVE  AnswersInv'
  <1>1. PICK is \in {"cancel", "connectionClose"} : BrokerSends(<<ToClient(is, "none", 0, 0, 0)>>)
    BY DEF BrokerCancel, BrokerShutdown
  <1>2. broker'.channel = broker.channel
    BY NowSound DEF Brokers, BrokerCancel, BrokerShutdown
  <1> DEFINE f     == ToClient(is, "none", 0, 0, 0)
             extra == <<f>>
  <1>3. f \in FramesToClient /\ ~IsAnswer(f)
    BY ChannelAssumption DEF ToClient, FramesToClient, IsAnswer
  <1> HIDE DEF f
  <1>4. extra \in Seq(FramesToClient) /\ AnswersIn(extra) = {}
    BY <1>3, NowSound, OnePlain
  <1>5. BrokerSends(extra)
    BY <1>1 DEF f
  <1> HIDE DEF extra
  <1> QED
    BY <1>2, <1>4, <1>5, SendKeepsAnswers

-----------------------------------------------------------------------------
(***************************************************************************)
(* The invariant is inductive.                                             *)
(***************************************************************************)
LEMMA InitAnswers == Init => AnswersInv
  <1> SUFFICES ASSUME Init PROVE AnswersInv
    OBVIOUS
  <1>1. toBroker = <<>> /\ connection.queue = <<>> /\ channel.queue = <<>> /\ toClient = <<>>
        /\ channel.chain = <<>> /\ ~channel.linked /\ ~channel.synchronous /\ broker.channel = "none"
        /\ connection.state = "handshake"
    BY DEF Init
  <1>2. AllFrames = {} /\ AnswersIn(toClient) = {}
    BY <1>1 DEF AllFrames, SentFrames, ToSet, AnswersIn
  <1>3. FramesOf(AllFrames, calls) /\ AnswersOf(toClient, AllFrames, calls)
    BY <1>2 DEF FramesOf, AnswersOf, InTurn
  <1>4. ChainOf(channel, calls, outcome)
    BY <1>1 DEF ChainOf, ToSet
  <1>5. Fresh /\ IdleInClosing(Now) /\ ~Working(channel)
    BY <1>1 DEF Fresh, IdleInClosing, Now, Working
  <1> QED
    BY <1>1, <1>3, <1>4, <1>5 DEF AnswersInv

LEMMA StutterKeepsAnswers ==
    ASSUME AnswersInv, UNCHANGED vars
    PROVE  AnswersInv'
  <1>1. /\ channel' = channel /\ connection' = connection /\ calls' = calls /\ outcome' = outcome
        /\ toBroker' = toBroker /\ toClient' = toClient /\ broker' = broker /\ unpaired' = unpaired
    BY DEF vars, libraryVars
  <1>2. AllFrames' = AllFrames /\ Awaits' = Awaits /\ Fresh' = Fresh
    BY <1>1 DEF AllFrames, SentFrames, Awaits, Live, Fresh
  <1>3. IdleInClosing(Now')
    BY <1>1 DEF AnswersInv, IdleInClosing, Now
  <1> QED
    BY <1>1, <1>2, <1>3 DEF AnswersInv

LEMMA NextKeepsAnswers ==
    ASSUME IInv, AnswersInv, [Next]_vars
    PROVE  AnswersInv'
  <1>1. CASE Attach
    BY <1>1, AttachKeepsAnswers
  <1>2. CASE Close
    BY <1>2, CloseKeepsAnswers
  <1>3. CASE Destroy
    BY <1>3, DestroyKeepsAnswers
  <1>4. CASE Ready
    BY <1>4, ReadyKeepsAnswers
  <1>5. ASSUME NEW op \in Operations, Call(op, 0)
        PROVE  AnswersInv'
    <2>1. 0 \in Sizes
      BY ChannelAssumption DEF Sizes
    <2> QED
      BY <1>5, <2>1, CallKeepsAnswers
  <1>6. ASSUME "publish" \in Operations, NEW size \in Sizes, Call("publish", size)
        PROVE  AnswersInv'
    BY <1>6, CallKeepsAnswers
  <1>7. ASSUME NEW more \in BOOLEAN, ReadFrame(more)
        PROVE  AnswersInv'
    BY <1>7, ReadKeepsAnswers
  <1>8. CASE BrokerReads
    BY <1>8, IgnoreKeepsAnswers, ComplainKeepsAnswers, AcceptKeepsAnswers DEF BrokerReads
  <1>9. CASE BrokerRefuse
    BY <1>9, RefuseKeepsAnswers
  <1>10. CASE BrokerCancel \/ BrokerShutdown
    BY <1>10, CancelKeepsAnswers
  <1>11. ASSUME NEW size \in Sizes, BrokerGet(size)
         PROVE  AnswersInv'
    BY <1>11, GetKeepsAnswers
  <1>12. ASSUME NEW size \in Sizes, BrokerDeliver(size)
         PROVE  AnswersInv'
    BY <1>12, DeliverKeepsAnswers
  <1>13. CASE UNCHANGED vars
    BY <1>13, StutterKeepsAnswers
  <1> QED
    BY <1>1, <1>2, <1>3, <1>4, <1>5, <1>6, <1>7, <1>8, <1>9, <1>10, <1>11, <1>12, <1>13 DEF Next

LEMMA AnswersInvariant == Spec => []AnswersInv
  <1>1. IInv /\ AnswersInv /\ [Next]_vars => AnswersInv'
    BY NextKeepsAnswers
  <1> QED
    BY <1>1, InitAnswers, Invariant, PTL DEF Spec

-----------------------------------------------------------------------------
(***************************************************************************)
(* Answers and callbacks.                                                  *)
(***************************************************************************)
\* An answer that is read calls the callback of the call it answers.
LEMMA ReadMatches ==
    ASSUME IInv, AnswersInv, NEW more \in BOOLEAN, ReadFrame(more), ~unpaired,
           NEW id \in DOMAIN outcome, outcome[id] = "pending", outcome'[id] = "success"
    PROVE  Head(toClient).op = calls[id] /\ Head(toClient).call = id
  <1> DEFINE q == toClient
             f == Head(q)
             p == channel.chain
  <1>1. Understands(Now, Now', f) /\ q # <<>>
    BY FrameUnderstood DEF AnswersInv
  <1>2. /\ q \in Seq(FramesToClient) /\ channel \in Channels
        /\ Now.channel = channel /\ Now.outcome = outcome /\ (Now').outcome = outcome'
    BY NowSound DEF Now
  <1>3. AnswersOf(q, AllFrames, calls) /\ InTurn(q) /\ ChainOf(channel, calls, outcome)
    BY DEF AnswersInv, AnswersOf
  <1>4. channel.linked /\ IsAnswer(f) /\ p # <<>> /\ id = Head(p)
    BY <1>1, <1>2 DEF Understands
  <1>5. p \in Seq(1 .. MaxCalls + 2) /\ \A i, j \in DOMAIN p : i < j => p[i] < p[j]
    BY <1>2, <1>3, ChannelMembers DEF ChainOf
  <1>6. id \in ToSet(p)
    <2>1. 1 \in DOMAIN p /\ id = p[1]
      BY <1>4, <1>5
    <2> HIDE DEF p
    <2> QED
      BY <2>1 DEF ToSet
  <1>7. Working(channel)
    BY <1>3, <1>4, <1>6 DEF ChainOf, Working
  <1>8. Paired(channel, q, AllFrames, Awaits)
    BY <1>7 DEF AnswersInv
  <1>9. f.call = id
    BY <1>1, <1>2, <1>3, <1>4, <1>5, <1>8, HeadAnswered
  <1>10. f.op = calls[f.call]
    <2>1. 1 \in AnswersIn(q) /\ f = q[1]
      BY <1>1, <1>2, <1>4 DEF AnswersIn
    <2> QED
      BY <1>3, <2>1 DEF AnswersOf
  <1> QED
    BY <1>9, <1>10

\* What a call or close() leaves of the outcomes there were.
LEMMA OutcomesKept ==
    ASSUME IInv, NEW s \in States, outcome' = s.outcome, NEW frame, NEW closing,
           Spares(Now, s, closing) \/ Chains(Now, s, frame, closing),
           NEW id \in DOMAIN outcome
    PROVE  outcome'[id] = outcome[id]
  <1>1. Now.outcome = outcome
    BY NowSound
  <1> QED
    BY <1>1 DEF Spares, Chains

\* Only reading a frame settles a call that was pending.
LEMMA CallKeepsOutcomes ==
    ASSUME IInv, NEW op \in Operations, NEW size \in Sizes, Call(op, size),
           NEW id \in DOMAIN outcome
    PROVE  outcome'[id] = outcome[id]
  <1> DEFINE n == Len(calls)
             parts == IF op = "publish" THEN 2 + size ELSE 1
             frame == FrameOfCall(op, n + 1, 1, parts)
             s == Perform(Now, frame)
             none == {}
  <1>1. /\ n \in 1 .. MaxCalls /\ MaxCalls \in Nat /\ MaxSize \in Nat /\ size \in 0 .. MaxSize
        /\ op \in DOMAIN RequestFrame
    BY ChannelAssumption, OperationsAssumption DEF Call, Sizes
  <1>2. calls' = Append(calls, op)
    BY DEF Call
  <1>3. Len(calls') = n + 1
    BY <1>1, <1>2, NowSound
  <1>4. Become(s)
    <2>1. PICK u \in {Perform(Now, FrameOfCall(op, Len(calls'), 1, parts))} : Become(u)
      BY DEF Call
    <2> QED
      BY <1>3, <2>1
  <1>5. frame \in Frames /\ Callable(frame) /\ frame.id = n + 1
    <2>1. parts \in 1 .. 2 + MaxSize /\ (op # "publish" => parts = 1)
      BY <1>1
    <2>2. n + 1 \in 0 .. MaxCalls + 2 /\ 1 \in 1 .. 2 + MaxSize
      BY <1>1
    <2> HIDE DEF parts, n
    <2> QED
      BY <1>1, <2>1, <2>2 DEF FrameOfCall, Frames, Callable
  <1> HIDE DEF frame
  <1>6. Len(Now.outcome) + 1 <= MaxCalls + 2
    BY <1>1, NowSound
  <1>7. Sound(s, LastRead, n + 1)
    BY <1>5, <1>6, NowSound, PerformSound
  <1>8. Chains(Now, s, frame, none) /\ none = {}
    BY <1>5, NowSound, PerformChains
  <1> HIDE DEF s, none
  <1>9. s \in States /\ outcome' = s.outcome
    BY <1>4, <1>7 DEF Sound, Become
  <1> QED
    BY <1>8, <1>9, OutcomesKept

LEMMA ClosingKeepsOutcomes ==
    ASSUME IInv, Close \/ Destroy, NEW id \in DOMAIN outcome
    PROVE  outcome'[id] = outcome[id]
  <1> DEFINE s == CloseConnection(Now)
             frame == FrameOfCall("close", Len(calls) + 1, 1, 1)
             closing == {Control("connectionClose")}
             u == [s EXCEPT !.connection.state = "gone", !.channel.linked = FALSE]
  <1>1. (Become(s) \/ Become(u)) /\ connection.state # "gone"
    BY DEF Close, Destroy
  <1>2. s \in States /\ (Spares(Now, s, closing) \/ Chains(Now, s, frame, closing))
    BY <1>1, ClosingChains
  <1> HIDE DEF s, frame, closing
  <1>3. u.outcome = s.outcome
    BY <1>2, StatesShaped DEF Shaped
  <1> HIDE DEF u
  <1>4. outcome' = s.outcome
    BY <1>1, <1>3 DEF Become
  <1> QED
    BY <1>2, <1>4, OutcomesKept

LEMMA ReadyKeepsOutcomes ==
    ASSUME IInv, Ready, NEW id \in DOMAIN outcome
    PROVE  outcome'[id] = outcome[id]
  <1> DEFINE s == SetReady(Now)
             closing == {Control("connectionClose")}
  <1>1. Become(s) /\ connection.state = "handshake"
    BY DEF Ready
  <1>2. s \in States
    BY NowSound, SetReadySound DEF Sound
  <1>3. Spares(Now, s, closing)
    BY <1>1, NowSound, ReadySpares
  <1> HIDE DEF s, closing
  <1>4. outcome' = s.outcome
    BY <1>1 DEF Become
  <1> QED
    BY <1>2, <1>3, <1>4, OutcomesKept

LEMMA OnlyReadingSettles ==
    ASSUME IInv, [Next]_vars, ~ \E more \in BOOLEAN : ReadFrame(more),
           NEW id \in DOMAIN outcome
    PROVE  outcome'[id] = outcome[id]
  <1>1. CASE Attach
    <2>1. Len(calls) = 0
      BY <1>1 DEF Attach
    <2>2. outcome \in Seq(Outcomes) /\ Len(outcome) = 0
      BY <2>1, NowSound DEF States
    <2>3. DOMAIN outcome = {}
      BY <2>2
    <2> QED
      BY <2>3
  <1>2. CASE Close \/ Destroy
    BY <1>2, ClosingKeepsOutcomes
  <1>3. CASE Ready
    BY <1>3, ReadyKeepsOutcomes
  <1>4. ASSUME NEW op \in Operations, Call(op, 0)
        PROVE  outcome'[id] = outcome[id]
    <2>1. 0 \in Sizes
      BY ChannelAssumption DEF Sizes
    <2> QED
      BY <1>4, <2>1, CallKeepsOutcomes
  <1>5. ASSUME "publish" \in Operations, NEW size \in Sizes, Call("publish", size)
        PROVE  outcome'[id] = outcome[id]
    BY <1>5, CallKeepsOutcomes
  <1>6. CASE UNCHANGED libraryVars
    BY <1>6 DEF libraryVars
  <1>7. CASE BrokerReads \/ BrokerRefuse
    BY <1>6, <1>7 DEF BrokerReads, BrokerIgnore, BrokerComplain, BrokerAccept, BrokerRefuse, Reads
  <1>8. CASE BrokerCancel \/ BrokerShutdown
    BY <1>6, <1>8 DEF BrokerCancel, BrokerShutdown, BrokerSends, libraryVars
  <1>9. ASSUME NEW size \in Sizes, BrokerGet(size) \/ BrokerDeliver(size)
        PROVE  outcome'[id] = outcome[id]
    BY <1>6, <1>9 DEF BrokerGet, BrokerDeliver, BrokerSends, Reads, libraryVars
  <1>10. CASE UNCHANGED vars
    BY <1>6, <1>10 DEF vars
  <1> QED
    BY <1>1, <1>2, <1>3, <1>4, <1>5, <1>7, <1>8, <1>9, <1>10 DEF Next

\* However many calls are waiting, and whatever the broker refuses, delivers or
\* closes in between, the answer that settles a call with success is the one the
\* broker gave to that very call, unless a Deferred that no frame answers was
\* chained before it (ChannelImpl::reportSuccess, channelimpl.h:681: the oldest
\* Deferred of the chain gets the next answer, whatever it is).
THEOREM AnswersFindTheirCalls == Spec => AnswersMatch
  <1> DEFINE Settles ==
          \A id \in DOMAIN outcome :
              outcome[id] = "pending" /\ outcome'[id] = "success" /\ ~unpaired =>
                  /\ Head(toClient).op = calls[id]
                  /\ Head(toClient).call = id
  <1>1. ASSUME IInv, AnswersInv, [Next]_vars
        PROVE  [Settles]_vars
    <2>1. ASSUME NEW id \in DOMAIN outcome,
                 outcome[id] = "pending", outcome'[id] = "success", ~unpaired
          PROVE  Head(toClient).op = calls[id] /\ Head(toClient).call = id
      <3>1. PICK more \in BOOLEAN : ReadFrame(more)
        BY <1>1, <2>1, OnlyReadingSettles
      <3> QED
        BY <1>1, <2>1, <3>1, ReadMatches
    <2> QED
      BY <2>1
  <1>2. Spec => [][Settles]_vars
    BY <1>1, Invariant, AnswersInvariant, PTL DEF Spec
  <1> QED
    BY <1>2 DEF AnswersMatch
=============================================================================
