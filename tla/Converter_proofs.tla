-------------------------- MODULE Converter_proofs --------------------------
(***************************************************************************)
(* Safety of the converter's job queue for any number of jobs.             *)
(*                                                                         *)
(* The mutual recursion of startJob() and endJob() is cut by one fact      *)
(* about its outcomes (SoundOutcome): what is left is a suffix of the      *)
(* queue, and the live jobs of the prefix that went are those that ended.  *)
(* Two calls of endJob() in a row, which is what a crash of the python     *)
(* process causes, again leave a sound outcome.                            *)
(***************************************************************************)
EXTENDS Converter, SequenceTheorems, TLAPS

\* o is what is left of queue q, served with the handles of live alive.
SoundOutcome(q, live, o) ==
    /\ o.queue \in Seq(Messages)
    /\ o.ended \subseteq EndedJob
    /\ o.undef \in BOOLEAN
    /\ JobsOf(o.ended) \subseteq live
    /\ o.undef => o.queue = <<>>
    /\ \E k \in 0 .. Len(q) :
        /\ Len(o.queue) = Len(q) - k
        /\ \A i \in 1 .. Len(o.queue) : o.queue[i] = q[i + k]
        /\ \A i \in 1 .. k : q[i] \in live => q[i] \in JobsOf(o.ended)
        /\ \A m \in JobsOf(o.ended) : \E i \in 1 .. k : q[i] = m

\* finish() ends the handle if it is alive, and nothing else.
LEMMA FinishOne ==
    ASSUME NEW m \in Messages, NEW live \in SUBSET Messages, NEW ending \in Endings
    PROVE  /\ Finish(m, ending, live) \subseteq EndedJob
           /\ JobsOf(Finish(m, ending, live)) = live \cap {m}
  <1>1. CASE m \in live
    <2>1. Finish(m, ending, live) = {[job |-> m, ending |-> ending]}
      BY <1>1 DEF Finish
    <2>2. [job |-> m, ending |-> ending] \in EndedJob
      BY DEF EndedJob
    <2>3. JobsOf(Finish(m, ending, live)) = {m}
      BY <2>1 DEF JobsOf
    <2> QED
      BY <1>1, <2>1, <2>2, <2>3
  <1>2. CASE m \notin live
    <2>1. Finish(m, ending, live) = {}
      BY <1>2 DEF Finish
    <2> QED
      BY <1>2, <2>1 DEF JobsOf
  <1> QED
    BY <1>1, <1>2

\* The jobs of two sets of ended jobs.
LEMMA JobsOfUnion ==
    ASSUME NEW a, NEW b
    PROVE  JobsOf(a \cup b) = JobsOf(a) \cup JobsOf(b)
  BY DEF JobsOf

\* startJob() on a non-empty queue, or endJob() after its pop().
LEMMA ServeSound ==
    ASSUME NEW q \in Seq(Messages), NEW live \in SUBSET Messages,
           NEW o \in ServeOutcomes(q, live)
    PROVE  SoundOutcome(q, live, o) /\ ~o.undef
  <1>1. PICK k \in 0 .. Len(q) : o = EndPrefix(q, k, live)
    BY DEF ServeOutcomes
  <1>2. /\ o.queue = SubSeq(q, k + 1, Len(q))
        /\ o.ended = UNION {Finish(q[i], "failed", live) : i \in 1 .. k}
        /\ ~o.undef /\ o.undef \in BOOLEAN
    BY <1>1 DEF EndPrefix
  <1>3. Len(q) \in Nat /\ \A i \in 1 .. Len(q) : q[i] \in Messages
    BY LenProperties, ElementOfSeq
  <1>4. /\ o.queue \in Seq(Messages)
        /\ Len(o.queue) = Len(q) - k
        /\ \A i \in 1 .. Len(o.queue) : o.queue[i] = q[i + k]
    <2>1. \A i \in k + 1 .. Len(q) : q[i] \in Messages
      BY <1>3
    <2>2. /\ SubSeq(q, k + 1, Len(q)) \in Seq(Messages)
          /\ Len(SubSeq(q, k + 1, Len(q)))
                = IF k + 1 <= Len(q) THEN Len(q) - (k + 1) + 1 ELSE 0
          /\ \A i \in 1 .. Len(q) - (k + 1) + 1 : SubSeq(q, k + 1, Len(q))[i] = q[k + 1 + i - 1]
      BY <1>3, <2>1, SubSeqProperties
    <2> QED
      BY <1>2, <1>3, <2>2
  <1>5. "failed" \in Endings
    BY DEF Endings
  <1>6. \A i \in 1 .. k : /\ Finish(q[i], "failed", live) \subseteq EndedJob
                          /\ JobsOf(Finish(q[i], "failed", live)) = live \cap {q[i]}
    <2> TAKE i \in 1 .. k
    <2>1. q[i] \in Messages
      BY <1>3
    <2> QED
      BY <2>1, <1>5, FinishOne
  <1>7. o.ended \subseteq EndedJob
    BY <1>2, <1>6
  <1>8. JobsOf(o.ended) \subseteq live
    BY <1>2, <1>6 DEF JobsOf
  <1>9. \A i \in 1 .. k : q[i] \in live => q[i] \in JobsOf(o.ended)
    BY <1>2, <1>6 DEF JobsOf
  <1>10. \A m \in JobsOf(o.ended) : \E i \in 1 .. k : q[i] = m
    <2> SUFFICES ASSUME NEW m \in JobsOf(o.ended) PROVE \E i \in 1 .. k : q[i] = m
      OBVIOUS
    <2>1. PICK i \in 1 .. k : m \in JobsOf(Finish(q[i], "failed", live))
      BY <1>2 DEF JobsOf
    <2> QED
      BY <1>6, <2>1
  <1> QED
    BY <1>2, <1>4, <1>7, <1>8, <1>9, <1>10 DEF SoundOutcome

\* Nothing more is said of a queue that was empty when it was read.
LEMMA UndefinedSound ==
    ASSUME NEW live \in SUBSET Messages
    PROVE  SoundOutcome(<<>>, live, Undefined) /\ Undefined \in Outcome
  <1>1. /\ Undefined.queue = <<>> /\ Undefined.ended = {} /\ Undefined.undef = TRUE
        /\ <<>> \in Seq(Messages) /\ Undefined \in Outcome
    BY DEF Undefined, Outcome
  <1>2. JobsOf(Undefined.ended) = {}
    BY <1>1 DEF JobsOf
  <1>3. \E k \in 0 .. Len(<<>>) :
          /\ Len(Undefined.queue) = Len(<<>>) - k
          /\ \A i \in 1 .. Len(Undefined.queue) : Undefined.queue[i] = <<>>[i + k]
          /\ \A i \in 1 .. k : <<>>[i] \in live => <<>>[i] \in JobsOf(Undefined.ended)
          /\ \A m \in JobsOf(Undefined.ended) : \E i \in 1 .. k : <<>>[i] = m
    <2>1. Len(<<>>) = 0 /\ Len(Undefined.queue) = 0
      BY <1>1
    <2> WITNESS 0 \in 0 .. Len(<<>>)
    <2> QED
      BY <1>2, <2>1
  <1> QED
    BY <1>1, <1>2, <1>3, Zenon DEF SoundOutcome

\* Two rounds in a row: what the second leaves, the first may have left.
LEMMA SoundTransitive ==
    ASSUME NEW q \in Seq(Messages), NEW live \in SUBSET Messages,
           NEW a, SoundOutcome(q, live, a),
           NEW b, SoundOutcome(a.queue, live \ JobsOf(a.ended), b),
           NEW c, c.queue = b.queue, c.ended = b.ended \cup a.ended, c.undef = b.undef
    PROVE  SoundOutcome(q, live, c)
  <1>2. JobsOf(c.ended) = JobsOf(b.ended) \cup JobsOf(a.ended)
    BY JobsOfUnion
  <1>3. PICK k \in 0 .. Len(q) :
          /\ Len(a.queue) = Len(q) - k
          /\ \A i \in 1 .. Len(a.queue) : a.queue[i] = q[i + k]
          /\ \A i \in 1 .. k : q[i] \in live => q[i] \in JobsOf(a.ended)
          /\ \A m \in JobsOf(a.ended) : \E i \in 1 .. k : q[i] = m
    BY DEF SoundOutcome
  <1>4. PICK l \in 0 .. Len(a.queue) :
          /\ Len(b.queue) = Len(a.queue) - l
          /\ \A i \in 1 .. Len(b.queue) : b.queue[i] = a.queue[i + l]
          /\ \A i \in 1 .. l : a.queue[i] \in live \ JobsOf(a.ended)
                                => a.queue[i] \in JobsOf(b.ended)
          /\ \A m \in JobsOf(b.ended) : \E i \in 1 .. l : a.queue[i] = m
    BY DEF SoundOutcome
  <1>5. Len(q) \in Nat /\ k \in Nat /\ l \in Nat
    BY <1>3, <1>4, LenProperties
  <1>6. k + l \in 0 .. Len(q) /\ Len(c.queue) = Len(q) - (k + l)
    BY <1>3, <1>4, <1>5
  <1>7. ASSUME NEW i \in 1 .. Len(c.queue)
        PROVE  c.queue[i] = q[i + (k + l)]
    <2>1. i + l \in 1 .. Len(a.queue) /\ (i + l) + k = i + (k + l)
      BY <1>3, <1>4, <1>5
    <2>2. b.queue[i] = a.queue[i + l]
      BY <1>4
    <2> QED
      BY <1>3, <2>1, <2>2
  <1>8. ASSUME NEW i \in 1 .. k + l, q[i] \in live
        PROVE  q[i] \in JobsOf(c.ended)
    <2>1. CASE i <= k
      <3>1. i \in 1 .. k
        BY <1>5, <2>1
      <3> QED
        BY <1>2, <1>3, <1>8, <3>1
    <2>2. CASE i > k
      <3>1. i - k \in 1 .. l /\ i - k \in 1 .. Len(a.queue)
        BY <1>3, <1>4, <1>5, <2>2
      <3>2. a.queue[i - k] = q[i]
        BY <1>3, <3>1
      <3> QED
        BY <1>2, <1>4, <1>8, <3>1, <3>2
    <2> QED
      BY <1>3, <1>5, <2>1, <2>2
  <1>9. ASSUME NEW m \in JobsOf(c.ended)
        PROVE  \E i \in 1 .. k + l : q[i] = m
    <2>1. CASE m \in JobsOf(a.ended)
      <3>1. 1 .. k \subseteq 1 .. k + l
        BY <1>5
      <3> QED
        BY <1>3, <2>1, <3>1
    <2>2. CASE m \in JobsOf(b.ended)
      <3>1. PICK i \in 1 .. l : a.queue[i] = m
        BY <1>4, <2>2
      <3>2. i \in 1 .. Len(a.queue) /\ i + k \in 1 .. k + l
        BY <1>3, <1>4, <1>5
      <3>3. q[i + k] = m
        BY <1>3, <3>1, <3>2
      <3> QED
        BY <3>2, <3>3
    <2> QED
      BY <1>2, <1>9, <2>1, <2>2
  <1> QED
    BY <1>2, <1>6, <1>7, <1>8, <1>9 DEF SoundOutcome

\* endJob(): the job at the front ends, and the rest is served.
LEMMA EndJobSound ==
    ASSUME NEW q \in Seq(Messages), NEW live \in SUBSET Messages, NEW ending \in Endings,
           NEW o \in EndJobOutcomes(q, live, ending)
    PROVE  /\ SoundOutcome(q, live, o)
           /\ o \in Outcome
           /\ q # <<>> => ~o.undef
  <1>1. CASE q = <<>>
    <2>1. o = Undefined
      BY <1>1 DEF EndJobOutcomes
    <2> QED
      BY <1>1, <2>1, UndefinedSound
  <1>2. CASE q # <<>>
    <2>1. PICK rest \in ServeOutcomes(Tail(q), live \ {Head(q)}) :
            o = [rest EXCEPT !.ended = @ \cup Finish(Head(q), ending, live)]
      BY <1>2 DEF EndJobOutcomes
    <2>2. /\ Head(q) \in Messages /\ Head(q) = q[1]
          /\ Tail(q) \in Seq(Messages)
          /\ Len(q) \in Nat \ {0}
          /\ Len(Tail(q)) = Len(q) - 1
          /\ \A i \in 1 .. Len(Tail(q)) : Tail(q)[i] = q[i + 1]
      BY <1>2, HeadTailProperties, LenProperties, EmptySeq
    <2>3. SoundOutcome(Tail(q), live \ {Head(q)}, rest) /\ ~rest.undef
      BY <2>2, ServeSound
    <2>4. \E k \in 0 .. Len(Tail(q)) : rest = EndPrefix(Tail(q), k, live \ {Head(q)})
      BY DEF ServeOutcomes
    <2>5. DOMAIN rest = {"queue", "ended", "undef"}
      BY <2>4 DEF EndPrefix
    <2>6. /\ o.queue = rest.queue
          /\ o.ended = rest.ended \cup Finish(Head(q), ending, live)
          /\ o.undef = rest.undef
          /\ o = [queue |-> o.queue, ended |-> o.ended, undef |-> o.undef]
      BY <2>1, <2>4 DEF EndPrefix
    <2> DEFINE head == [queue |-> Tail(q), ended |-> Finish(Head(q), ending, live),
                        undef |-> FALSE]
    <2>7. /\ Finish(Head(q), ending, live) \subseteq EndedJob
          /\ JobsOf(head.ended) = live \cap {Head(q)}
      BY <2>2, FinishOne
    <2>8. SoundOutcome(q, live, head)
      <3>1. /\ \A i \in 1 .. 1 : q[i] \in live => q[i] \in JobsOf(head.ended)
            /\ \A m \in JobsOf(head.ended) : \E i \in 1 .. 1 : q[i] = m
        BY <2>2, <2>7
      <3> QED
        BY <2>2, <2>7, <3>1 DEF SoundOutcome
    <2>9. SoundOutcome(head.queue, live \ JobsOf(head.ended), rest)
      <3>1. live \ JobsOf(head.ended) = live \ {Head(q)}
        BY <2>7
      <3> QED
        BY <2>3, <3>1
    <2> HIDE DEF head
    <2>10. o.ended = rest.ended \cup head.ended
      BY <2>6 DEF head
    <2>11. SoundOutcome(q, live, o)
      BY <2>6, <2>8, <2>9, <2>10, SoundTransitive
    <2>12. o \in Outcome
      BY <2>6, <2>11 DEF SoundOutcome, Outcome
    <2> QED
      BY <2>3, <2>6, <2>11, <2>12
  <1> QED
    BY <1>1, <1>2

\* The first startJob() of a queue.
LEMMA StartJobSound ==
    ASSUME NEW q \in Seq(Messages), NEW live \in SUBSET Messages,
           NEW o \in StartJobOutcomes(q, live)
    PROVE  /\ SoundOutcome(q, live, o)
           /\ q # <<>> => ~o.undef
  <1>1. CASE q = <<>>
    <2>1. o = Undefined
      BY <1>1 DEF StartJobOutcomes
    <2> QED
      BY <1>1, <2>1, UndefinedSound
  <1>2. CASE q # <<>>
    BY <1>2, ServeSound DEF StartJobOutcomes
  <1> QED
    BY <1>1, <1>2

\* The two calls of endJob() after a crash of the python process.
LEMMA CrashSound ==
    ASSUME NEW q \in Seq(Messages), NEW live \in SUBSET Messages,
           NEW o \in CrashOutcomes(q, live)
    PROVE  SoundOutcome(q, live, o)
  <1>1. "failed" \in Endings /\ "skipped" \in Endings
    BY DEF Endings
  <1>2. PICK first \in EndJobOutcomes(q, live, "failed") :
          o \in {[r EXCEPT !.ended = @ \cup first.ended] :
                    r \in EndJobOutcomes(first.queue, live \ JobsOf(first.ended), "skipped")}
    BY DEF CrashOutcomes
  <1>3. PICK second \in EndJobOutcomes(first.queue, live \ JobsOf(first.ended), "skipped") :
          o = [second EXCEPT !.ended = @ \cup first.ended]
    BY <1>2
  <1>4. SoundOutcome(q, live, first)
    BY <1>1, EndJobSound
  <1>5. first.queue \in Seq(Messages)
    BY <1>4 DEF SoundOutcome
  <1>6. SoundOutcome(first.queue, live \ JobsOf(first.ended), second) /\ second \in Outcome
    BY <1>1, <1>5, EndJobSound
  <1>7. /\ o.queue = second.queue
        /\ o.ended = second.ended \cup first.ended
        /\ o.undef = second.undef
    BY <1>3, <1>6 DEF Outcome
  <1> QED
    BY <1>4, <1>6, <1>7, SoundTransitive

\* The endings of one call of startJob() or endJob(): "failed" for the jobs that
\* could not be prepared, and the one that the caller gives for the first.
LEMMA ServeEndings ==
    ASSUME NEW q, NEW live, NEW o \in ServeOutcomes(q, live)
    PROVE  \A e \in o.ended : e.ending = "failed"
  BY DEF ServeOutcomes, EndPrefix, Finish

LEMMA EndJobEndings ==
    ASSUME NEW q, NEW live, NEW ending, NEW o \in EndJobOutcomes(q, live, ending)
    PROVE  \A e \in o.ended : e.ending \in {"failed", ending}
  <1>1. CASE q = <<>>
    BY <1>1 DEF EndJobOutcomes, Undefined
  <1>2. CASE q # <<>>
    <2>1. PICK rest \in ServeOutcomes(Tail(q), live \ {Head(q)}) :
            o = [rest EXCEPT !.ended = @ \cup Finish(Head(q), ending, live)]
      BY <1>2 DEF EndJobOutcomes
    <2>2. o.ended = rest.ended \cup Finish(Head(q), ending, live)
      BY <2>1 DEF ServeOutcomes, EndPrefix
    <2>3. \A e \in rest.ended : e.ending = "failed"
      BY ServeEndings
    <2>4. \A e \in Finish(Head(q), ending, live) : e.ending = ending
      BY DEF Finish
    <2> QED
      BY <2>2, <2>3, <2>4
  <1> QED
    BY <1>1, <1>2

\* Every event that serves the queue settles on a sound outcome, and only a crash
\* of the process skips a job.  No invariant is needed: the owner of the handles
\* may be any.
LEMMA EventSound ==
    ASSUME NEW o, received \in Seq(Messages), jobs \subseteq Messages,
           \/ StartJob(o) \/ ProcessFinished(o)
           \/ ProcessFailedToStart(o) \/ ProcessCrashed(o)
    PROVE  /\ ~undefined
           /\ SoundOutcome(received, jobs, o)
           /\ Settle(o)
           /\ \/ UNCHANGED startsPosted
              \/ startsPosted > 0 /\ startsPosted' = startsPosted - 1
           /\ ~ConverterMayCrash => \A e \in o.ended : e.ending \in {"converted", "failed"}
  <1>0. jobs \in SUBSET Messages
    OBVIOUS
  <1>1. CASE StartJob(o)
    <2>1. o \in StartJobOutcomes(received, jobs)
      BY <1>1 DEF StartJob
    <2>2. \A e \in o.ended : e.ending = "failed"
      BY <2>1, ServeEndings DEF StartJobOutcomes, Undefined
    <2>3. SoundOutcome(received, jobs, o)
      BY <1>0, <2>1, StartJobSound
    <2> QED
      BY <1>1, <2>2, <2>3 DEF StartJob
  <1>2. CASE ProcessFinished(o) \/ ProcessFailedToStart(o)
    <2>1. PICK ending \in {"converted", "failed"} : o \in EndJobOutcomes(received, jobs, ending)
      BY <1>2 DEF ProcessFinished, ProcessFailedToStart
    <2>2. ending \in Endings
      BY DEF Endings
    <2>3. SoundOutcome(received, jobs, o)
      BY <1>0, <2>1, <2>2, EndJobSound
    <2>4. \A e \in o.ended : e.ending \in {"failed", ending}
      BY <2>1, EndJobEndings
    <2> QED
      BY <1>2, <2>3, <2>4 DEF ProcessFinished, ProcessFailedToStart
  <1>3. CASE ProcessCrashed(o)
    <2>1. SoundOutcome(received, jobs, o)
      BY <1>0, <1>3, CrashSound DEF ProcessCrashed
    <2> QED
      BY <1>3, <2>1 DEF ProcessCrashed
  <1> QED
    BY <1>1, <1>2, <1>3

-----------------------------------------------------------------------------
Inv ==
    /\ TypeOK
    /\ ServedOnce
    /\ EnvOfRunningJob
    /\ LiveJobsQueued
    /\ undefined => process = "NotRunning"
    /\ ~ConverterMayCrash => ~undefined

\* What settling on a sound outcome does to the invariant: the common part of
\* the four events that serve the queue.
LEMMA SettleInv ==
    ASSUME Inv, ~undefined, NEW o, SoundOutcome(received, jobs, o),
           Settle(o), Release(o), startsPosted' = 0,
           ~ConverterMayCrash => ~o.undef
    PROVE  Inv'
  <1> USE ConverterAssumption
  <1>1. /\ received' = o.queue /\ received' \in Seq(Messages)
        /\ jobs' = jobs \ JobsOf(o.ended)
        /\ undefined' = o.undef
    BY DEF Settle, Release, SoundOutcome
  <1>2. /\ process' = IF received' = <<>> THEN "NotRunning" ELSE "Running"
        /\ jobEnv' = IF received' = <<>> THEN NoJob ELSE Head(received')
    BY DEF Settle
  <1>3. undefined' \in BOOLEAN /\ (undefined' => received' = <<>>)
    BY <1>1, Zenon DEF SoundOutcome
  <1>4. TypeOK'
    <2>1. jobEnv' \in Messages \cup {NoJob}
      BY <1>1, <1>2, HeadTailProperties
    <2>2. jobs' \subseteq Messages
      BY <1>1 DEF Inv, TypeOK
    <2>3. process' \in {"NotRunning", "Running"}
      BY <1>2
    <2> QED
      BY <1>1, <1>3, <2>1, <2>2, <2>3 DEF TypeOK
  <1>5. ServedOnce'
    BY <1>2 DEF ServedOnce
  <1>6. EnvOfRunningJob'
    BY <1>2 DEF EnvOfRunningJob
  <1>7. LiveJobsQueued'
    <2>1. PICK k \in 0 .. Len(received) :
            /\ Len(received') = Len(received) - k
            /\ \A i \in 1 .. Len(received') : received'[i] = received[i + k]
            /\ \A i \in 1 .. k : received[i] \in jobs => received[i] \in JobsOf(o.ended)
      BY <1>1 DEF SoundOutcome
    <2>2. Len(received) \in Nat /\ k \in Nat
      BY LenProperties DEF Inv, TypeOK
    <2>3. ASSUME NEW m \in jobs' PROVE m \in Queued'
      <3>1. m \in jobs /\ m \notin JobsOf(o.ended)
        BY <1>1, <2>3
      <3>2. PICK i \in 1 .. Len(received) : received[i] = m
        BY <3>1 DEF Inv, LiveJobsQueued, Queued
      <3>3. i > k
        <4>1. i \notin 1 .. k
          BY <2>1, <3>1, <3>2
        <4> QED
          BY <2>2, <4>1
      <3>4. i - k \in 1 .. Len(received') /\ (i - k) + k = i
        BY <2>1, <2>2, <3>3
      <3>5. received'[i - k] = m
        BY <2>1, <3>2, <3>4
      <3> QED
        BY <3>4, <3>5 DEF Queued
    <2>4. ASSUME NEW i \in 1 .. Len(received'), NEW j \in 1 .. Len(received'),
                 received'[i] = received'[j]
          PROVE  i = j
      <3>1. i + k \in 1 .. Len(received) /\ j + k \in 1 .. Len(received)
        BY <2>1, <2>2
      <3>2. received[i + k] = received[j + k]
        BY <2>1, <2>4
      <3>3. i + k = j + k
        BY <3>1, <3>2 DEF Inv, LiveJobsQueued
      <3> QED
        BY <2>1, <2>2, <3>3
    <2> QED
      BY <2>3, <2>4 DEF LiveJobsQueued
  <1>8. /\ undefined' => process' = "NotRunning"
        /\ ~ConverterMayCrash => ~undefined'
    BY <1>1, <1>2, <1>3
  <1> QED
    BY <1>4, <1>5, <1>6, <1>7, <1>8 DEF Inv

\* processJobMessage(), with the handle kept by its owner.
LEMMA SubmitInv ==
    ASSUME Inv, NEW m \in Messages, Submit(m)
    PROVE  Inv'
  <1>1. /\ ~undefined
        /\ received' = Append(received, m)
        /\ jobs' = jobs \cup {m}
        /\ UNCHANGED <<process, jobEnv, undefined>>
        /\ m \notin Queued
        /\ received \in Seq(Messages)
        /\ jobs \subseteq Messages
    BY DEF Submit, ProcessJobMessage, Inv, TypeOK
  <1>2. /\ received' \in Seq(Messages)
        /\ Len(received) \in Nat
        /\ Len(received') = Len(received) + 1
        /\ \A i \in 1 .. Len(received) : received'[i] = received[i]
        /\ received'[Len(received')] = m
    BY <1>1
  <1>3. received' # <<>>
    BY <1>2
  <1>4. (received = <<>>) <=> (Len(received') = 1)
    BY <1>1, <1>2, EmptySeq
  <1>5. startsPosted \in Nat
    BY DEF Inv, TypeOK
  <1>6. startsPosted' = IF received = <<>> THEN startsPosted + 1 ELSE startsPosted
    BY <1>4 DEF Submit, ProcessJobMessage
  <1>7. TypeOK'
    BY <1>1, <1>2, <1>5, <1>6 DEF Inv, TypeOK
  <1>8. ServedOnce'
    BY <1>1, <1>3, <1>5, <1>6 DEF Inv, ServedOnce
  <1>9. EnvOfRunningJob'
    <2>1. CASE process = "Running"
      <3>1. received # <<>>
        BY <1>1, <1>5, <2>1 DEF Inv, ServedOnce
      <3>2. Len(received) >= 1
        BY <1>1, <3>1, EmptySeq
      <3>3. Head(received') = Head(received)
        BY <1>1, <1>2, <3>1, <3>2
      <3> QED
        BY <1>1, <2>1, <3>3 DEF Inv, EnvOfRunningJob
    <2>2. CASE process # "Running"
      BY <1>1, <2>2 DEF Inv, EnvOfRunningJob
    <2> QED
      BY <2>1, <2>2
  <1>10. LiveJobsQueued'
    <2>1. ASSUME NEW n \in jobs' PROVE n \in Queued'
      <3>1. CASE n = m
        BY <1>2, <3>1 DEF Queued
      <3>2. CASE n \in jobs
        <4>1. PICK i \in 1 .. Len(received) : received[i] = n
          BY <3>2 DEF Inv, LiveJobsQueued, Queued
        <4> QED
          BY <1>2, <4>1 DEF Queued
      <3> QED
        BY <1>1, <2>1, <3>1, <3>2
    <2>2. ASSUME NEW i \in 1 .. Len(received'), NEW j \in 1 .. Len(received'),
                 received'[i] = received'[j]
          PROVE  i = j
      <3>1. \A l \in 1 .. Len(received) : received[l] # m
        BY <1>1 DEF Queued
      <3>2. CASE i \in 1 .. Len(received) /\ j \in 1 .. Len(received)
        BY <1>2, <2>2, <3>2 DEF Inv, LiveJobsQueued
      <3>3. CASE i = Len(received') \/ j = Len(received')
        BY <1>2, <2>2, <3>1, <3>3
      <3> QED
        BY <1>2, <3>2, <3>3
    <2> QED
      BY <2>1, <2>2 DEF LiveJobsQueued
  <1> QED
    BY <1>1, <1>7, <1>8, <1>9, <1>10 DEF Inv

\* Every step keeps the invariant.
LEMMA NextInv == Inv /\ [Next]_vars => Inv'
  <1> SUFFICES ASSUME Inv, [Next]_vars PROVE Inv'
    OBVIOUS
  <1>t. /\ jobs \in SUBSET Messages /\ received \in Seq(Messages)
        /\ startsPosted \in Nat
    BY DEF Inv, TypeOK
  <1>1. ASSUME NEW m \in Messages, Submit(m) PROVE Inv'
    BY <1>1, SubmitInv
  <1>2. CASE AbortAllJobs
    BY <1>2, <1>t DEF AbortAllJobs, serviceVars, Inv, TypeOK, ServedOnce, EnvOfRunningJob,
                LiveJobsQueued, Queued
  <1>3. CASE Start
    <2>1. PICK o \in StartJobOutcomes(received, jobs) : StartJob(o) /\ Release(o)
      BY <1>3 DEF Start
    <2>2. ~undefined /\ Settle(o) /\ startsPosted > 0 /\ startsPosted' = startsPosted - 1
      BY <2>1 DEF StartJob
    <2>3. startsPosted = 1 /\ received # <<>>
      BY <2>2, <1>t DEF Inv, ServedOnce
    <2>4. SoundOutcome(received, jobs, o) /\ ~o.undef
      BY <1>t, <2>3, StartJobSound
    <2>5. startsPosted' = 0
      BY <2>2, <2>3
    <2> QED
      BY <2>1, <2>2, <2>4, <2>5, SettleInv
  <1>4. CASE Exit
    <2>1. PICK o : /\ ProcessFinished(o) \/ ProcessFailedToStart(o) \/ ProcessCrashed(o)
                   /\ Release(o)
      BY <1>4 DEF Exit
    <2>2. ~undefined /\ process = "Running" /\ Settle(o) /\ startsPosted' = startsPosted
      BY <2>1 DEF ProcessFinished, ProcessFailedToStart, ProcessCrashed
    <2>3. startsPosted = 0 /\ received # <<>>
      BY <2>2, <1>t DEF Inv, ServedOnce
    <2>4. SoundOutcome(received, jobs, o) /\ (~ConverterMayCrash => ~o.undef)
      <3>1. ASSUME NEW ending \in Endings, o \in EndJobOutcomes(received, jobs, ending)
            PROVE  SoundOutcome(received, jobs, o) /\ ~o.undef
        BY <1>t, <2>3, <3>1, EndJobSound
      <3>2. CASE ProcessFinished(o) \/ ProcessFailedToStart(o)
        <4>1. {"converted", "failed"} \subseteq Endings
          BY DEF Endings
        <4> QED
          BY <3>1, <3>2, <4>1 DEF ProcessFinished, ProcessFailedToStart
      <3>3. CASE ProcessCrashed(o)
        BY <1>t, <3>3, CrashSound DEF ProcessCrashed
      <3> QED
        BY <2>1, <3>2, <3>3
    <2> QED
      BY <2>1, <2>2, <2>3, <2>4, SettleInv
  <1>5. CASE UNCHANGED vars
    BY <1>5 DEF vars, serviceVars, Inv, TypeOK, ServedOnce, EnvOfRunningJob,
                LiveJobsQueued, Queued
  <1> QED
    BY <1>1, <1>2, <1>3, <1>4, <1>5 DEF Next

\* Initially nothing is queued and nothing runs.
LEMMA InitInv == Init => Inv
  <1> SUFFICES ASSUME Init PROVE Inv
    OBVIOUS
  <1>1. ~undefined /\ undefined \in BOOLEAN
    BY Zenon DEF Init
  <1>2. /\ jobs = {} /\ received = <<>> /\ startsPosted = 0
        /\ process = "NotRunning" /\ jobEnv = NoJob
    BY DEF Init
  <1> QED
    BY <1>1, <1>2 DEF Inv, TypeOK, ServedOnce, EnvOfRunningJob, LiveJobsQueued, Queued

\* The state of the converter has its types, for any number of jobs, whether or
\* not the python process may crash; so for the three theorems that follow.
THEOREM ConverterTyped == Spec => []TypeOK
  <1>1. Inv => TypeOK
    BY DEF Inv
  <1> QED
    BY InitInv, NextInv, <1>1, PTL DEF Spec

\* The queue is served exactly when it is not empty: by one posted startJob() or
\* by one process (converterservice.cpp, endJob() and startJob()).
THEOREM ConverterServesOnce == Spec => []ServedOnce
  <1>1. Inv => ServedOnce
    BY DEF Inv
  <1> QED
    BY InitInv, NextInv, <1>1, PTL DEF Spec

\* A running process works in the directory of the job at the front.
THEOREM ConverterInOwnDirectory == Spec => []EnvOfRunningJob
  <1>1. Inv => EnvOfRunningJob
    BY DEF Inv
  <1> QED
    BY InitInv, NextInv, <1>1, PTL DEF Spec

\* Every live handle has one place in the queue, aborted or not.
THEOREM ConverterKeepsPlaces == Spec => []LiveJobsQueued
  <1>1. Inv => LiveJobsQueued
    BY DEF Inv
  <1> QED
    BY InitInv, NextInv, <1>1, PTL DEF Spec

\* Without a crash of the python process endJob() never reads or pops an empty
\* queue: the assumption is needed, ProcessCrashed ends two jobs at once.
THEOREM NoUnderflow ==
    ~ConverterMayCrash => (Spec => []QueueNeverUnderflows)
  <1> SUFFICES ASSUME ~ConverterMayCrash PROVE Spec => []QueueNeverUnderflows
    OBVIOUS
  <1>1. Inv => QueueNeverUnderflows
    BY DEF Inv, QueueNeverUnderflows
  <1> QED
    BY InitInv, NextInv, <1>1, PTL DEF Spec

\* Every step that reads or pops an empty queue is a crash of the process.
THEOREM UnderflowCause == Spec => UnderflowOnlyByCrash
  <1>1. ASSUME Inv, [Next]_vars, undefined'
        PROVE  undefined \/ \E o \in CrashOutcomes(received, jobs) : ProcessCrashed(o)
    <2> SUFFICES ASSUME ~undefined
                 PROVE  \E o \in CrashOutcomes(received, jobs) : ProcessCrashed(o)
      OBVIOUS
    <2>t. /\ jobs \in SUBSET Messages /\ received \in Seq(Messages)
          /\ startsPosted \in Nat
      BY <1>1 DEF Inv, TypeOK
    <2>1. CASE \E m \in Messages : Submit(m)
      BY <1>1, <2>1, Zenon DEF Submit, ProcessJobMessage
    <2>2. CASE AbortAllJobs
      BY <1>1, <2>2, Zenon DEF AbortAllJobs, serviceVars
    <2>3. CASE Start
      <3>1. PICK o \in StartJobOutcomes(received, jobs) : StartJob(o)
        BY <2>3 DEF Start
      <3>2. startsPosted > 0 /\ undefined' = o.undef
        BY <3>1 DEF StartJob, Settle
      <3>3. received # <<>>
        BY <1>1, <2>t, <3>2 DEF Inv, ServedOnce
      <3>4. ~o.undef
        BY <2>t, <3>3, StartJobSound
      <3> QED
        BY <1>1, <3>2, <3>4, Zenon
    <2>4. CASE Exit
      <3>1. PICK o : ProcessFinished(o) \/ ProcessFailedToStart(o) \/ ProcessCrashed(o)
        BY <2>4 DEF Exit
      <3>2. CASE ProcessCrashed(o)
        BY <3>2 DEF ProcessCrashed
      <3>3. CASE ProcessFinished(o) \/ ProcessFailedToStart(o)
        <4>1. process = "Running" /\ undefined' = o.undef
          BY <3>3 DEF ProcessFinished, ProcessFailedToStart, Settle
        <4>2. received # <<>>
          BY <1>1, <2>t, <4>1 DEF Inv, ServedOnce
        <4>3. PICK ending \in Endings : o \in EndJobOutcomes(received, jobs, ending)
          BY <3>3 DEF ProcessFinished, ProcessFailedToStart, Endings
        <4>4. ~o.undef
          BY <2>t, <4>2, <4>3, EndJobSound
        <4> QED
          BY <1>1, <4>1, <4>4, Zenon
      <3> QED
        BY <3>1, <3>2, <3>3
    <2>5. CASE UNCHANGED vars
      BY <1>1, <2>5, Zenon DEF vars, serviceVars
    <2> QED
      BY <1>1, <2>1, <2>2, <2>3, <2>4, <2>5 DEF Next
  <1> QED
    BY <1>1, InitInv, NextInv, PTL DEF Spec, UnderflowOnlyByCrash
=============================================================================
