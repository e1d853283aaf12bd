---------------------------- MODULE Chain_proofs ----------------------------
(***************************************************************************)
(* Theorems about Chain, for any number of stages, any set of messages and *)
(* any number of losses.                                                   *)
(*                                                                         *)
(* The promise of the chain is about its two ends, but a message is        *)
(* settled in the middle of it.  What has to be carried along is that the  *)
(* stage that waits for its ack has already handed its message on: further *)
(* down some queue or stage has it, whatever happened to it since.         *)
(* The number of copies is the size of a set of numbered copies, and a     *)
(* step is followed in four counts: the copies that wait, those held,      *)
(* those about to be settled, and the losses.                              *)
(***************************************************************************)
EXTENDS Chain, FiniteSetTheorems, TLAPS

\* Further down than stage i, some queue or stage has m; or m was rejected.
HandedOn(m, i) ==
    \/ m \in rejected
    \/ \E q \in (i + 1)..(N + 1) : InQueue(m, q)

\* What a stage has on its way to the broker, and what it may hold meanwhile.
FramesOK(i) ==
    /\ toBroker[i] \in {<<>>, Registrations, <<"consume">>, FramesOfResult, <<"ack">>}
    /\ toBroker[i] \in {Registrations, <<"consume">>} => held[i] = NoMessage
    /\ toBroker[i] \in {FramesOfResult, <<"ack">>} => held[i] \in Messages
    /\ stage[i] # "up" => toBroker[i] = <<>> /\ held[i] = NoMessage
    /\ stage[i] # "down" /\ toBroker[i] # Registrations => Exists(i + 1)

\* The inductive invariant.
IInv ==
    /\ TypeOK
    /\ \A i \in Stages : FramesOK(i)
    /\ \A i \in Stages : toBroker[i] = <<"ack">> => HandedOn(held[i], i)

-----------------------------------------------------------------------------
\* The five things a stage may have sent are told apart, and lose their first
\* frame as expected.
LEMMA FramesDiffer ==
    /\ Registrations # <<>> /\ FramesOfResult # <<>> /\ <<"consume">> # <<>> /\ <<"ack">> # <<>>
    /\ Registrations # FramesOfResult /\ Registrations # <<"consume">> /\ Registrations # <<"ack">>
    /\ FramesOfResult # <<"consume">> /\ FramesOfResult # <<"ack">> /\ <<"consume">> # <<"ack">>
    /\ Head(Registrations) = "declare" /\ Tail(Registrations) = <<"consume">>
    /\ Head(FramesOfResult) = "publish" /\ Tail(FramesOfResult) = <<"ack">>
    /\ Head(<<"consume">>) = "consume" /\ Tail(<<"consume">>) = <<>>
    /\ Head(<<"ack">>) = "ack" /\ Tail(<<"ack">>) = <<>>
BY DEF Registrations, FramesOfResult

\* A queue is a stage's sub queue or the last one.
LEMMA QueuesAndStages ==
    /\ N + 1 \in Queues /\ N + 1 \notin Stages /\ 1 \in Queues
    /\ \A i \in Stages : i \in Queues /\ i + 1 \in Queues /\ i # i + 1
    /\ \A q \in Queues : q \in Stages \/ q = N + 1
BY ChainAssumption DEF Queues, Stages

\* The two ends of the chain, in terms of InQueue.
LEMMA Ends ==
    /\ outstanding = {m \in Messages : \E q \in Stages : InQueue(m, q)}
    /\ published = {m \in Messages : InQueue(m, N + 1)}
BY QueuesAndStages DEF outstanding, published, InQueue

\* A step that moves no message is a step of the abstract specification that
\* changes nothing.
LEMMA NothingMoves ==
    ASSUME \A m \in Messages, q \in Queues : InQueue(m, q)' <=> InQueue(m, q)
    PROVE  outstanding' = outstanding /\ published' = published
<1>1. outstanding' = outstanding
  BY QueuesAndStages DEF outstanding
<1>2. published' = {m \in Messages : InQueue(m, N + 1)'}
  BY QueuesAndStages DEF published, InQueue
<1>3. published = {m \in Messages : InQueue(m, N + 1)}
  BY Ends
<1>4. {m \in Messages : InQueue(m, N + 1)'} = {m \in Messages : InQueue(m, N + 1)}
  BY QueuesAndStages
<1> QED
  BY <1>1, <1>2, <1>3, <1>4

\* What is handed on stays so while the queues keep what they have.
LEMMA StaysHandedOn ==
    ASSUME NEW i \in Stages, NEW m \in Messages, HandedOn(m, i),
           \A n \in Messages, q \in Queues : InQueue(n, q) => InQueue(n, q)',
           rejected \subseteq rejected'
    PROVE  HandedOn(m, i)'
<1>1. \A q \in (i + 1)..(N + 1) : q \in Queues
  BY ChainAssumption DEF Queues, Stages
<1> QED
  BY <1>1 DEF HandedOn

-----------------------------------------------------------------------------
(***************************************************************************)
(* What each action does to the messages.                                  *)
(***************************************************************************)

LEMMA KeptInPlace ==
    ASSUME UNCHANGED <<held, copies>>
    PROVE  \A m \in Messages, q \in Queues : InQueue(m, q)' <=> InQueue(m, q)
BY DEF InQueue

\* A delivered message still counts for the queue it came from.
LEMMA DeliversInPlace ==
    ASSUME TypeOK, NEW i \in Stages, NEW m \in Messages, BrokerDelivers(i, m)
    PROVE  \A n \in Messages, q \in Queues : InQueue(n, q)' <=> InQueue(n, q)
<1> SUFFICES ASSUME NEW n \in Messages, NEW q \in Queues
             PROVE  InQueue(n, q)' <=> InQueue(n, q)
  OBVIOUS
<1>1. i \in Queues
  BY QueuesAndStages
<1>2. NoMessage # n
  BY ChainAssumption
<1>3. CASE q = i /\ n = m
  BY <1>1, <1>3 DEF BrokerDelivers, InQueue, TypeOK
<1>4. CASE ~(q = i /\ n = m)
  <2>1. copies'[q][n] = copies[q][n]
    BY <1>1, <1>4 DEF BrokerDelivers, TypeOK
  <2>2. q \in Stages => (held'[q] = n <=> held[q] = n)
    BY <1>2, <1>4 DEF BrokerDelivers, TypeOK
  <2> QED
    BY <2>1, <2>2 DEF InQueue
<1> QED
  BY <1>3, <1>4

\* A message put back is where it was.
LEMMA LosesInPlace ==
    ASSUME TypeOK, NEW i \in Stages, Lose(i)
    PROVE  \A n \in Messages, q \in Queues : InQueue(n, q)' <=> InQueue(n, q)
<1> SUFFICES ASSUME NEW n \in Messages, NEW q \in Queues
             PROVE  InQueue(n, q)' <=> InQueue(n, q)
  OBVIOUS
<1>1. i \in Queues
  BY QueuesAndStages
<1>2. NoMessage # n
  BY ChainAssumption
<1>3. CASE held[i] = NoMessage
  BY <1>2, <1>3 DEF Lose, InQueue, TypeOK
<1>4. CASE held[i] # NoMessage /\ q = i /\ n = held[i]
  <2>1. copies'[q][n] = copies[q][n] + 1 /\ copies[q][n] \in Nat
    BY <1>1, <1>4 DEF Lose, TypeOK
  <2> QED
    BY <1>4, <2>1 DEF InQueue
<1>5. CASE held[i] # NoMessage /\ ~(q = i /\ n = held[i])
  <2>1. copies'[q][n] = copies[q][n]
    BY <1>1, <1>5 DEF Lose, TypeOK
  <2>2. q \in Stages => (held'[q] = n <=> held[q] = n)
    BY <1>2, <1>5 DEF Lose, TypeOK
  <2> QED
    BY <2>1, <2>2 DEF InQueue
<1> QED
  BY <1>3, <1>4, <1>5

\* A result is added to the next queue, and to no other.
LEMMA RoutesOn ==
    ASSUME TypeOK, NEW i \in Stages, BrokerRoutes(i), held[i] \in Messages, Exists(i + 1)
    PROVE  \A n \in Messages, q \in Queues :
              InQueue(n, q)' <=> InQueue(n, q) \/ (q = i + 1 /\ n = held[i])
<1> SUFFICES ASSUME NEW n \in Messages, NEW q \in Queues
             PROVE  InQueue(n, q)' <=> InQueue(n, q) \/ (q = i + 1 /\ n = held[i])
  OBVIOUS
<1>1. i + 1 \in Queues
  BY QueuesAndStages
<1>2. held' = held
  BY DEF BrokerRoutes
<1>3. CASE q = i + 1 /\ n = held[i]
  <2>1. copies'[q][n] = copies[q][n] + 1 /\ copies[q][n] \in Nat
    BY <1>1, <1>3 DEF BrokerRoutes, TypeOK
  <2> QED
    BY <1>3, <2>1 DEF InQueue
<1>4. CASE ~(q = i + 1 /\ n = held[i])
  <2>1. copies'[q][n] = copies[q][n]
    BY <1>1, <1>4 DEF BrokerRoutes, TypeOK
  <2> QED
    BY <1>2, <1>4, <2>1 DEF InQueue
<1> QED
  BY <1>3, <1>4

\* An ack takes the message from the stage, and from no other.
LEMMA SettlesOnly ==
    ASSUME TypeOK, NEW i \in Stages, BrokerSettles(i)
    PROVE  \A n \in Messages, q \in Queues :
              /\ InQueue(n, q)' => InQueue(n, q)
              /\ InQueue(n, q) /\ ~(q = i /\ n = held[i]) => InQueue(n, q)'
<1> SUFFICES ASSUME NEW n \in Messages, NEW q \in Queues
             PROVE  /\ InQueue(n, q)' => InQueue(n, q)
                    /\ InQueue(n, q) /\ ~(q = i /\ n = held[i]) => InQueue(n, q)'
  OBVIOUS
<1>1. NoMessage # n
  BY ChainAssumption
<1>2. copies' = copies
  BY DEF BrokerSettles
<1>3. held' = [held EXCEPT ![i] = NoMessage]
  BY DEF BrokerSettles
<1> QED
  BY <1>1, <1>2, <1>3 DEF InQueue, TypeOK

-----------------------------------------------------------------------------
(***************************************************************************)
(* The inductive invariant.                                                *)
(***************************************************************************)

\* The type invariant holds of every step, given what stages may have sent.
LEMMA StepTyped ==
    ASSUME IInv, NEW i \in Stages,
           \/ HandleReadyChanged(i) \/ FinishWithResult(i) \/ Reject(i)
           \/ BrokerHandles(i) \/ Lose(i)
    PROVE  TypeOK'
<1> DEFINE F == {"declare", "consume", "publish", "ack"}
<1>1. Registrations \in Seq(F) /\ FramesOfResult \in Seq(F)
      /\ FramesOfRejection \in Seq(F) /\ <<>> \in Seq(F)
  BY DEF Registrations, FramesOfResult, FramesOfRejection
<1>2. i \in Queues /\ i + 1 \in Queues
  BY QueuesAndStages
<1>3. TypeOK /\ FramesOK(i)
  BY DEF IInv
<1>4. toBroker[i] \in Seq(F)
  BY <1>3 DEF TypeOK
<1>5. toBroker[i] # <<>> => Tail(toBroker[i]) \in Seq(F)
  BY <1>4
<1>6. CASE HandleReadyChanged(i)
  BY <1>1, <1>3, <1>6 DEF HandleReadyChanged, TypeOK
<1>7. CASE FinishWithResult(i)
  BY <1>1, <1>3, <1>7 DEF FinishWithResult, Converting, TypeOK
<1>8. CASE Reject(i)
  <2>1. held[i] \in Messages
    BY <1>3, <1>8 DEF Reject, Converting, TypeOK
  <2> QED
    BY <1>1, <1>3, <1>8, <2>1 DEF Reject, TypeOK
<1>9. CASE BrokerDeclares(i)
  BY <1>2, <1>3, <1>5, <1>9 DEF BrokerDeclares, Takes, TypeOK
<1>10. CASE BrokerConsumes(i)
  BY <1>3, <1>5, <1>10 DEF BrokerConsumes, Takes, TypeOK
<1>11. CASE BrokerRefuses(i)
  BY <1>1, <1>3, <1>11 DEF BrokerRefuses, TypeOK
<1>12. CASE BrokerRoutes(i)
  <2>1. held[i] \in Messages
    BY <1>3, <1>12, FramesDiffer DEF BrokerRoutes, Takes, FramesOK
  <2>2. copies' \in [Queues -> [Messages -> Nat]]
    BY <1>2, <1>3, <1>12, <2>1 DEF BrokerRoutes, TypeOK
  <2> QED
    BY <1>3, <1>5, <1>12, <2>2 DEF BrokerRoutes, Takes, TypeOK
<1>13. CASE BrokerSettles(i)
  BY <1>3, <1>5, <1>13 DEF BrokerSettles, Takes, TypeOK
<1>14. CASE \E m \in Messages : BrokerDelivers(i, m)
  <2> PICK m \in Messages : BrokerDelivers(i, m)
    BY <1>14
  <2>1. copies[i][m] - 1 \in Nat
    BY <1>2, <1>3 DEF BrokerDelivers, TypeOK
  <2>2. copies' \in [Queues -> [Messages -> Nat]]
    BY <1>2, <1>3, <2>1 DEF BrokerDelivers, TypeOK
  <2> QED
    BY <1>3, <2>2 DEF BrokerDelivers, TypeOK
<1>15. CASE Lose(i)
  <2>1. copies' \in [Queues -> [Messages -> Nat]]
    BY <1>2, <1>3, <1>15 DEF Lose, TypeOK
  <2> QED
    BY <1>1, <1>3, <1>15, <2>1 DEF Lose, TypeOK
<1> QED
  BY <1>6, <1>7, <1>8, <1>9, <1>10, <1>11, <1>12, <1>13, <1>14, <1>15 DEF BrokerHandles

\* A stage's own step leaves it with frames that fit what it holds.
LEMMA StepFrames ==
    ASSUME IInv, NEW i \in Stages,
           \/ HandleReadyChanged(i) \/ FinishWithResult(i) \/ Reject(i)
           \/ BrokerHandles(i) \/ Lose(i)
    PROVE  FramesOK(i)'
<1>1. TypeOK /\ FramesOK(i) /\ i + 1 \in Queues
  BY QueuesAndStages DEF IInv
<1>2. CASE HandleReadyChanged(i)
  BY <1>1, <1>2, FramesDiffer DEF HandleReadyChanged, TypeOK, FramesOK, Exists
<1>3. CASE FinishWithResult(i)
  BY <1>1, <1>3, FramesDiffer DEF FinishWithResult, Converting, TypeOK, FramesOK, Exists
<1>4. CASE Reject(i)
  BY <1>1, <1>4, FramesDiffer DEF Reject, Converting, TypeOK, FramesOK, Exists, FramesOfRejection
<1>5. CASE BrokerDeclares(i)
  <2>1. toBroker[i] = Registrations
    BY <1>1, <1>5, FramesDiffer DEF BrokerDeclares, Takes, FramesOK
  <2>2. toBroker'[i] = <<"consume">>
    BY <1>1, <1>5, <2>1, FramesDiffer DEF BrokerDeclares, Takes, TypeOK
  <2>3. Exists(i + 1)'
    BY <1>1, <1>5 DEF BrokerDeclares, TypeOK, Exists
  <2>4. held'[i] = NoMessage /\ stage'[i] = "up"
    BY <1>1, <1>5, <2>1, FramesDiffer DEF BrokerDeclares, FramesOK, TypeOK
  <2> QED
    BY <2>2, <2>3, <2>4, FramesDiffer DEF FramesOK
<1>6. CASE BrokerConsumes(i)
  <2>1. toBroker[i] = <<"consume">>
    BY <1>1, <1>6, FramesDiffer DEF BrokerConsumes, Takes, FramesOK, Exists
  <2>2. toBroker'[i] = <<>>
    BY <1>1, <1>6, <2>1, FramesDiffer DEF BrokerConsumes, Takes, TypeOK
  <2> QED
    BY <1>1, <1>6, <2>1, <2>2, FramesDiffer DEF BrokerConsumes, FramesOK, Exists
<1>7. CASE BrokerRefuses(i)
  <2>1. toBroker'[i] = <<>> /\ stage'[i] = "deaf"
    BY <1>1, <1>7 DEF BrokerRefuses, TypeOK
  <2>2. toBroker[i] = Registrations \/ toBroker[i] = <<"consume">>
    BY <1>1, <1>7, FramesDiffer DEF BrokerRefuses, FramesOK, Exists
  <2>3. held[i] = NoMessage /\ stage[i] = "up"
    BY <1>1, <2>2, FramesDiffer DEF FramesOK, Exists, TypeOK
  <2>4. Exists(i + 1)
    BY <1>1, <1>7, <2>2, <2>3, FramesDiffer DEF BrokerRefuses, FramesOK, Exists
  <2> QED
    BY <1>7, <2>1, <2>3, <2>4, FramesDiffer DEF BrokerRefuses, FramesOK, Exists
<1>8. CASE BrokerRoutes(i)
  <2>1. toBroker[i] = FramesOfResult
    BY <1>1, <1>8, FramesDiffer DEF BrokerRoutes, Takes, FramesOK, Exists
  <2>2. toBroker'[i] = <<"ack">>
    BY <1>1, <1>8, <2>1, FramesDiffer DEF BrokerRoutes, Takes, TypeOK
  <2> QED
    BY <1>1, <1>8, <2>1, <2>2, FramesDiffer DEF BrokerRoutes, FramesOK, Exists
<1>9. CASE BrokerSettles(i)
  <2>1. toBroker[i] = <<"ack">>
    BY <1>1, <1>9, FramesDiffer DEF BrokerSettles, Takes, FramesOK, Exists
  <2>2. toBroker'[i] = <<>>
    BY <1>1, <1>9, <2>1, FramesDiffer DEF BrokerSettles, Takes, TypeOK
  <2> QED
    BY <1>1, <1>9, <2>1, <2>2, FramesDiffer DEF BrokerSettles, FramesOK, Exists
<1>10. CASE \E m \in Messages : BrokerDelivers(i, m)
  BY <1>1, <1>10, FramesDiffer DEF BrokerDelivers, TypeOK, FramesOK, Exists
<1>11. CASE Lose(i)
  BY <1>1, <1>11, FramesDiffer DEF Lose, TypeOK, FramesOK, Exists
<1> QED
  BY <1>2, <1>3, <1>4, <1>5, <1>6, <1>7, <1>8, <1>9, <1>10, <1>11 DEF BrokerHandles

\* And it leaves the other stages alone, but for queues that it declares.
LEMMA OthersKept ==
    ASSUME IInv, NEW i \in Stages, NEW j \in Stages, j # i,
           \/ HandleReadyChanged(i) \/ FinishWithResult(i) \/ Reject(i)
           \/ BrokerHandles(i) \/ Lose(i)
    PROVE  /\ stage'[j] = stage[j] /\ toBroker'[j] = toBroker[j] /\ held'[j] = held[j]
           /\ \A q \in Queues : Exists(q) => Exists(q)'
<1>1. stage'[j] = stage[j] /\ toBroker'[j] = toBroker[j] /\ held'[j] = held[j]
  BY DEF IInv, TypeOK, HandleReadyChanged, FinishWithResult, Reject, Lose, BrokerHandles,
         BrokerDeclares, BrokerConsumes, BrokerRefuses, BrokerRoutes, BrokerSettles,
         BrokerDelivers, Takes
<1>2. CASE BrokerDeclares(i)
  <2>1. \A q \in Queues : queues'[q] = queues[q] \/ queues'[q] = "declared"
    BY <1>2 DEF BrokerDeclares, IInv, TypeOK
  <2> QED
    BY <1>1, <2>1 DEF Exists
<1>3. CASE ~BrokerDeclares(i)
  <2>1. queues' = queues
    BY <1>3 DEF HandleReadyChanged, FinishWithResult, Reject, Lose, BrokerHandles,
                BrokerConsumes, BrokerRefuses, BrokerRoutes, BrokerSettles, BrokerDelivers
  <2> QED
    BY <1>1, <2>1 DEF Exists
<1> QED
  BY <1>2, <1>3

\* Only the settling of a message takes it from a queue, and only a rejection
\* adds to the rejected ones.
LEMMA StepKeeps ==
    ASSUME IInv, NEW i \in Stages,
           \/ HandleReadyChanged(i) \/ FinishWithResult(i) \/ Reject(i)
           \/ BrokerHandles(i) \/ Lose(i),
           ~BrokerSettles(i)
    PROVE  /\ \A m \in Messages, q \in Queues : InQueue(m, q) => InQueue(m, q)'
           /\ rejected \subseteq rejected'
<1>1. TypeOK /\ FramesOK(i)
  BY DEF IInv
<1>2. CASE BrokerRoutes(i)
  <2>1. toBroker[i] = FramesOfResult
    BY <1>1, <1>2, FramesDiffer DEF BrokerRoutes, Takes, FramesOK
  <2>2. held[i] \in Messages /\ Exists(i + 1)
    BY <1>1, <2>1, FramesDiffer DEF FramesOK
  <2> QED
    BY <1>1, <1>2, <2>2, RoutesOn DEF BrokerRoutes
<1>3. CASE \E m \in Messages : BrokerDelivers(i, m)
  BY <1>1, <1>3, DeliversInPlace DEF BrokerDelivers
<1>4. CASE Lose(i)
  BY <1>1, <1>4, LosesInPlace DEF Lose
<1>5. CASE \/ HandleReadyChanged(i) \/ FinishWithResult(i) \/ Reject(i)
           \/ BrokerDeclares(i) \/ BrokerConsumes(i) \/ BrokerRefuses(i)
  <2>1. UNCHANGED <<held, copies>> /\ rejected \subseteq rejected'
    BY <1>5 DEF HandleReadyChanged, FinishWithResult, Reject, BrokerDeclares, BrokerConsumes,
                BrokerRefuses
  <2> QED
    BY <2>1, KeptInPlace
<1> QED
  BY <1>2, <1>3, <1>4, <1>5 DEF BrokerHandles

\* A stage that comes to wait for an ack has just handed its message on.
LEMMA OwnMessageHandedOn ==
    ASSUME IInv, NEW i \in Stages,
           \/ HandleReadyChanged(i) \/ FinishWithResult(i) \/ Reject(i)
           \/ BrokerHandles(i) \/ Lose(i),
           toBroker'[i] = <<"ack">>
    PROVE  HandedOn(held[i], i)' /\ held'[i] = held[i]
<1>1. TypeOK /\ FramesOK(i) /\ FramesOK(i)'
  BY StepFrames DEF IInv
<1>2. CASE Reject(i)
  BY <1>2 DEF Reject, HandedOn
<1>3. CASE BrokerRoutes(i)
  <2>1. toBroker[i] = FramesOfResult
    BY <1>1, <1>3, FramesDiffer DEF BrokerRoutes, Takes, FramesOK
  <2>2. held[i] \in Messages /\ Exists(i + 1)
    BY <1>1, <2>1, FramesDiffer DEF FramesOK
  <2>3. i + 1 \in Queues /\ i + 1 \in (i + 1)..(N + 1)
    BY QueuesAndStages, ChainAssumption DEF Stages, Queues
  <2>4. InQueue(held[i], i + 1)'
    <3>1. held' = held
      BY <1>3 DEF BrokerRoutes
    <3>2. copies'[i + 1][held[i]] = copies[i + 1][held[i]] + 1
      BY <1>1, <1>3, <2>2, <2>3 DEF BrokerRoutes, TypeOK
    <3>3. copies[i + 1][held[i]] \in Nat
      BY <1>1, <2>2, <2>3 DEF TypeOK
    <3> QED
      BY <3>1, <3>2, <3>3 DEF InQueue
  <2>5. held' = held
    BY <1>3 DEF BrokerRoutes
  <2> QED
    BY <2>3, <2>4, <2>5 DEF HandedOn
<1>4. CASE HandleReadyChanged(i)
  BY <1>1, <1>4, FramesDiffer DEF HandleReadyChanged, TypeOK
<1>5. CASE FinishWithResult(i)
  BY <1>1, <1>5, FramesDiffer DEF FinishWithResult, TypeOK
<1>6. CASE BrokerDeclares(i)
  BY <1>1, <1>6, FramesDiffer DEF BrokerDeclares, Takes, TypeOK, FramesOK
<1>7. CASE BrokerConsumes(i)
  BY <1>1, <1>7, FramesDiffer DEF BrokerConsumes, Takes, TypeOK, FramesOK
<1>8. CASE BrokerRefuses(i)
  BY <1>1, <1>8, FramesDiffer DEF BrokerRefuses, TypeOK
<1>9. CASE BrokerSettles(i)
  BY <1>1, <1>9, FramesDiffer DEF BrokerSettles, Takes, TypeOK, FramesOK
<1>10. CASE \E m \in Messages : BrokerDelivers(i, m)
  BY <1>10, FramesDiffer DEF BrokerDelivers
<1>11. CASE Lose(i)
  BY <1>1, <1>11, FramesDiffer DEF Lose, TypeOK
<1> QED
  BY <1>2, <1>3, <1>4, <1>5, <1>6, <1>7, <1>8, <1>9, <1>10, <1>11 DEF BrokerHandles

\* Stage i settles a message stage j has handed on: i has handed it on too.
LEMMA OthersMessageHandedOn ==
    ASSUME IInv, NEW i \in Stages, NEW j \in Stages, j # i,
           \/ HandleReadyChanged(i) \/ FinishWithResult(i) \/ Reject(i)
           \/ BrokerHandles(i) \/ Lose(i),
           toBroker[j] = <<"ack">>
    PROVE  HandedOn(held[j], j)'  /\ held'[j] = held[j]
<1>1. TypeOK /\ FramesOK(i) /\ FramesOK(j) /\ HandedOn(held[j], j)
  BY DEF IInv
<1>2. PICK n \in Messages : n = held[j] /\ n = held'[j]
  BY <1>1, OthersKept DEF FramesOK
<1>3. HandedOn(n, j)
  BY <1>1, <1>2
<1>4. \A q \in (j + 1)..(N + 1) : q \in Queues
  BY ChainAssumption DEF Queues, Stages
<1>5. CASE ~BrokerSettles(i)
  <2>1. HandedOn(n, j)'
    BY <1>3, <1>5, StepKeeps, StaysHandedOn
  <2> QED
    BY <1>2, <2>1 DEF HandedOn
<1>6. CASE BrokerSettles(i)
  <2>1. toBroker[i] = <<"ack">>
    BY <1>1, <1>6, FramesDiffer DEF BrokerSettles, Takes, FramesOK
  <2>2. HandedOn(held[i], i)
    BY <2>1 DEF IInv
  <2>3. rejected' = rejected
    BY <1>6 DEF BrokerSettles
  <2>4. \A q \in Queues : InQueue(n, q) /\ ~(q = i /\ n = held[i]) => InQueue(n, q)'
    BY <1>1, <1>6, SettlesOnly
  <2>5. CASE n \in rejected
    BY <1>2, <2>3, <2>5 DEF HandedOn
  <2>6. CASE \E q \in (j + 1)..(N + 1) : InQueue(n, q) /\ ~(q = i /\ n = held[i])
    <3>1. \E q \in (j + 1)..(N + 1) : InQueue(n, q)'
      BY <1>4, <2>4, <2>6
    <3> QED
      BY <1>2, <3>1 DEF HandedOn
  <2>7. CASE n \notin rejected /\ i \in (j + 1)..(N + 1) /\ n = held[i]
    <3>1. PICK q \in (i + 1)..(N + 1) : InQueue(n, q)
      BY <2>2, <2>7 DEF HandedOn
    <3>2. q \in (j + 1)..(N + 1) /\ q # i
      BY <2>7, <3>1, ChainAssumption DEF Stages
    <3> QED
      BY <1>2, <1>4, <2>4, <3>1, <3>2 DEF HandedOn
  <2> QED
    BY <1>3, <2>5, <2>6, <2>7 DEF HandedOn
<1> QED
  BY <1>2, <1>5, <1>6

LEMMA InitInvariant == Init => IInv
<1> SUFFICES ASSUME Init PROVE IInv
  OBVIOUS
<1>1. TypeOK
  BY QueuesAndStages DEF Init, TypeOK
<1>2. \A i \in Stages : toBroker[i] = <<>> /\ held[i] = NoMessage /\ stage[i] = "down"
  BY DEF Init
<1> QED
  BY <1>1, <1>2, FramesDiffer DEF IInv, FramesOK

LEMMA NextInvariant == IInv /\ [Next]_vars => IInv'
<1> SUFFICES ASSUME IInv, [Next]_vars PROVE IInv'
  OBVIOUS
<1>1. CASE UNCHANGED vars
  <2>1. TypeOK' /\ \A i \in Stages : FramesOK(i)'
    BY <1>1 DEF vars, IInv, TypeOK, FramesOK, Exists
  <2>2. \A i \in Stages : toBroker'[i] = <<"ack">> => HandedOn(held[i], i)'
    BY <1>1 DEF vars, IInv, HandedOn, InQueue
  <2> QED
    BY <2>1, <2>2 DEF IInv
<1>2. CASE Next
  <2> PICK i \in Stages : \/ HandleReadyChanged(i) \/ FinishWithResult(i) \/ Reject(i)
                          \/ BrokerHandles(i) \/ Lose(i)
    BY <1>2 DEF Next
  <2>1. TypeOK'
    BY StepTyped
  <2>2. ASSUME NEW j \in Stages
        PROVE  FramesOK(j)' /\ (toBroker'[j] = <<"ack">> => HandedOn(held[j], j)')
    <3>1. CASE j = i
      BY <3>1, StepFrames, OwnMessageHandedOn
    <3>2. CASE j # i
      <4>1. /\ stage'[j] = stage[j] /\ toBroker'[j] = toBroker[j] /\ held'[j] = held[j]
            /\ (\A q \in Queues : Exists(q) => Exists(q)')
        BY <3>2, OthersKept
      <4>2. FramesOK(j)'
        BY <4>1, QueuesAndStages DEF IInv, FramesOK
      <4> QED
        BY <3>2, <4>1, <4>2, OthersMessageHandedOn
    <3> QED
      BY <3>1, <3>2
  <2> QED
    BY <2>1, <2>2 DEF IInv
<1> QED
  BY <1>1, <1>2

LEMMA Invariance == Spec => []IInv
BY InitInvariant, NextInvariant, PTL DEF Spec

-----------------------------------------------------------------------------
(***************************************************************************)
(* Theorems.                                                               *)
(***************************************************************************)

\* A stage that the broker refused leaves the queue it publishes to behind
\* (handleReadyChanged() registers the senders first), so that a consumer is
\* no longer refused once every stage was started.
THEOREM RefusedStagesDeclare == Spec => []DeafStillDeclares
<1>1. IInv => DeafStillDeclares
  BY FramesDiffer DEF IInv, FramesOK, DeafStillDeclares
<1> QED
  BY <1>1, Invariance, PTL

\* The chain begins as the abstract specification does: every message is in
\* the first queue.
LEMMA InitRefines == Init => AtLeastOnceSpec!Init
<1> SUFFICES ASSUME Init PROVE AtLeastOnceSpec!Init
  OBVIOUS
<1>1. \A m \in Messages, q \in Queues : InQueue(m, q) <=> q = 1
  <2>1. \A m \in Messages, q \in Queues : copies[q][m] = IF q = 1 THEN 1 ELSE 0
    BY DEF Init
  <2>2. \A q \in Stages : held[q] = NoMessage
    BY DEF Init
  <2> QED
    BY <2>1, <2>2, ChainAssumption DEF InQueue
<1>2. outstanding = Messages
  BY <1>1, QueuesAndStages, ChainAssumption DEF outstanding, Stages
<1>3. published = {}
  BY <1>1, Ends, QueuesAndStages, ChainAssumption
<1> QED
  BY <1>2, <1>3 DEF AtLeastOnceSpec!Init, Init

\* A result routed by the last stage is published; by any other one, it only
\* moves down the chain.
LEMMA RoutesRefines ==
    ASSUME IInv, NEW i \in Stages, BrokerRoutes(i)
    PROVE  AtLeastOnceSpec!Next \/ UNCHANGED AtLeastOnceSpec!vars
<1>1. TypeOK /\ FramesOK(i)
  BY DEF IInv
<1>2. toBroker[i] = FramesOfResult
  BY <1>1, FramesDiffer DEF BrokerRoutes, Takes, FramesOK
<1>3. PICK m \in Messages : m = held[i]
  BY <1>1, <1>2 DEF FramesOK
<1>4. Exists(i + 1)
  BY <1>1, <1>2, FramesDiffer DEF FramesOK
<1>5. \A n \in Messages, q \in Queues : InQueue(n, q)' <=> InQueue(n, q) \/ (q = i + 1 /\ n = m)
  BY <1>1, <1>3, <1>4, RoutesOn
<1>6. InQueue(m, i)
  BY <1>3 DEF InQueue
<1>7. m \in outstanding
  BY <1>6 DEF outstanding
<1>8. outstanding' = outstanding
  <2>1. \A n \in Messages : (\E q \in Stages : InQueue(n, q)') <=> (\E q \in Stages : InQueue(n, q))
    BY <1>5, <1>6, QueuesAndStages
  <2> QED
    BY <2>1 DEF outstanding
<1>9. published' = {n \in Messages : InQueue(n, N + 1)'}
  BY QueuesAndStages DEF published, InQueue
<1>10. rejected' = rejected
  BY DEF BrokerRoutes
<1>11. CASE i + 1 = N + 1
  <2>1. published' = published \cup {m}
    BY <1>5, <1>9, <1>11, Ends, QueuesAndStages
  <2>2. AtLeastOnceSpec!Publish(m)
    BY <1>7, <1>8, <1>10, <2>1 DEF AtLeastOnceSpec!Publish
  <2> QED
    BY <2>2 DEF AtLeastOnceSpec!Next
<1>12. CASE i + 1 # N + 1
  <2>1. published' = published
    BY <1>5, <1>9, <1>12, Ends, QueuesAndStages
  <2> QED
    BY <1>8, <1>10, <2>1 DEF AtLeastOnceSpec!vars
<1> QED
  BY <1>11, <1>12

\* An ack settles the message, unless another copy of it is still on its way.
\* It was handed on, so it is published or rejected if no other copy is.
LEMMA SettlesRefines ==
    ASSUME IInv, NEW i \in Stages, BrokerSettles(i)
    PROVE  AtLeastOnceSpec!Next \/ UNCHANGED AtLeastOnceSpec!vars
<1>1. TypeOK /\ FramesOK(i)
  BY DEF IInv
<1>2. toBroker[i] = <<"ack">>
  BY <1>1, FramesDiffer DEF BrokerSettles, Takes, FramesOK
<1>3. PICK m \in Messages : m = held[i]
  BY <1>1, <1>2 DEF FramesOK
<1>4. HandedOn(m, i)
  BY <1>2, <1>3 DEF IInv
<1>5. \A n \in Messages, q \in Queues :
         /\ InQueue(n, q)' => InQueue(n, q)
         /\ InQueue(n, q) /\ ~(q = i /\ n = m) => InQueue(n, q)'
  BY <1>1, <1>3, SettlesOnly
<1>6. m \in outstanding
  BY <1>3 DEF outstanding, InQueue
<1>7. rejected' = rejected
  BY DEF BrokerSettles
<1>8. published' = published
  <2>1. \A n \in Messages : InQueue(n, N + 1)' <=> InQueue(n, N + 1)
    BY <1>5, QueuesAndStages
  <2>2. published' = {n \in Messages : InQueue(n, N + 1)'}
    BY QueuesAndStages DEF published, InQueue
  <2> QED
    BY <2>1, <2>2, Ends
<1>9. \A n \in Messages : n # m =>
         ((\E q \in Stages : InQueue(n, q)') <=> (\E q \in Stages : InQueue(n, q)))
  BY <1>5, QueuesAndStages
<1>10. CASE \E q \in Stages : InQueue(m, q)'
  <2>1. outstanding' = outstanding
    BY <1>5, <1>6, <1>9, <1>10, QueuesAndStages DEF outstanding
  <2> QED
    BY <1>7, <1>8, <2>1 DEF AtLeastOnceSpec!vars
<1>11. CASE ~ \E q \in Stages : InQueue(m, q)'
  <2>1. outstanding' = outstanding \ {m}
    BY <1>9, <1>11 DEF outstanding
  <2>2. m \in published \cup rejected
    <3>1. CASE m \in rejected
      BY <3>1
    <3>2. CASE \E q \in (i + 1)..(N + 1) : InQueue(m, q)
      <4>1. PICK q \in (i + 1)..(N + 1) : InQueue(m, q)
        BY <3>2
      <4>2. q \in Queues /\ q # i
        BY ChainAssumption DEF Queues, Stages
      <4>3. q = N + 1
        BY <1>5, <1>11, <4>1, <4>2, QueuesAndStages
      <4> QED
        BY <4>1, <4>3, Ends
    <3> QED
      BY <1>4, <3>1, <3>2 DEF HandedOn
  <2>3. AtLeastOnceSpec!Settle(m)
    BY <1>6, <1>7, <1>8, <2>1, <2>2 DEF AtLeastOnceSpec!Settle
  <2> QED
    BY <2>3 DEF AtLeastOnceSpec!Next
<1> QED
  BY <1>10, <1>11

LEMMA StepRefines ==
    ASSUME IInv, [Next]_vars
    PROVE  [AtLeastOnceSpec!Next]_(AtLeastOnceSpec!vars)
<1>1. CASE UNCHANGED vars
  BY <1>1 DEF vars, AtLeastOnceSpec!vars, outstanding, published, InQueue
<1>2. CASE Next
  <2> PICK i \in Stages : \/ HandleReadyChanged(i) \/ FinishWithResult(i) \/ Reject(i)
                          \/ BrokerHandles(i) \/ Lose(i)
    BY <1>2 DEF Next
  <2>1. TypeOK
    BY DEF IInv
  <2>2. CASE BrokerRoutes(i)
    BY <2>2, RoutesRefines
  <2>3. CASE BrokerSettles(i)
    BY <2>3, SettlesRefines
  <2>4. CASE Reject(i)
    <3>1. outstanding' = outstanding /\ published' = published
      BY <2>4, KeptInPlace, NothingMoves DEF Reject
    <3>2. PICK m \in Messages : m = held[i]
      BY <2>1, <2>4 DEF Reject, Converting, TypeOK
    <3>3. m \in outstanding
      BY <3>2 DEF outstanding, InQueue
    <3>4. AtLeastOnceSpec!Reject(m)
      BY <2>4, <3>1, <3>2, <3>3 DEF Reject, AtLeastOnceSpec!Reject
    <3> QED
      BY <3>4 DEF AtLeastOnceSpec!Next
  <2>5. CASE \/ HandleReadyChanged(i) \/ FinishWithResult(i) \/ BrokerDeclares(i)
             \/ BrokerConsumes(i) \/ BrokerRefuses(i) \/ Lose(i)
             \/ \E m \in Messages : BrokerDelivers(i, m)
    <3>1. rejected' = rejected
      BY <2>5 DEF HandleReadyChanged, FinishWithResult, BrokerDeclares, BrokerConsumes,
                  BrokerRefuses, Lose, BrokerDelivers
    <3>2. \A m \in Messages, q \in Queues : InQueue(m, q)' <=> InQueue(m, q)
      <4>1. CASE Lose(i)
        BY <2>1, <4>1, LosesInPlace
      <4>2. CASE \E m \in Messages : BrokerDelivers(i, m)
        BY <2>1, <4>2, DeliversInPlace
      <4>3. CASE UNCHANGED <<held, copies>>
        BY <4>3, KeptInPlace
      <4> QED
        BY <2>5, <4>1, <4>2, <4>3 DEF HandleReadyChanged, FinishWithResult, BrokerDeclares,
                                      BrokerConsumes, BrokerRefuses
    <3>3. outstanding' = outstanding /\ published' = published
      BY <3>2, NothingMoves
    <3> QED
      BY <3>1, <3>3 DEF AtLeastOnceSpec!vars
  <2> QED
    BY <2>2, <2>3, <2>4, <2>5 DEF BrokerHandles
<1> QED
  BY <1>1, <1>2

\* A chain of any length delivers at least once: it implements what a single
\* stage promises, whatever the crashes and the order the stages are started
\* in (ChainDelivers is AtLeastOnceSpec!Spec).
THEOREM ChainImplementsAtLeastOnce == Spec => ChainDelivers
<1>1. IInv /\ [Next]_vars => [AtLeastOnceSpec!Next]_(AtLeastOnceSpec!vars)
  BY StepRefines
<1> QED
  BY <1>1, InitRefines, Invariance, PTL DEF Spec, ChainDelivers, AtLeastOnceSpec!Spec

-----------------------------------------------------------------------------
(***************************************************************************)
(* Counting the copies.  A step of one stage changes the copies of a       *)
(* message in one queue by one at most, and which messages this stage      *)
(* holds and is about to settle.                                           *)
(***************************************************************************)

\* Waiting, for any contents of the queues.
Numbered(f, m) == UNION {{q} \X (1..f[q][m]) : q \in Queues}

\* One copy more is one element more.
LEMMA OneMore ==
    ASSUME NEW f, NEW g, NEW m, NEW q \in Queues,
           f[q][m] \in Nat, g[q][m] = f[q][m] + 1,
           \A p \in Queues : p # q => g[p][m] = f[p][m]
    PROVE  /\ IsFiniteSet(Numbered(f, m)) <=> IsFiniteSet(Numbered(g, m))
           /\ IsFiniteSet(Numbered(f, m)) =>
                 Cardinality(Numbered(g, m)) = Cardinality(Numbered(f, m)) + 1
<1> DEFINE e == <<q, g[q][m]>>
<1>1. 1..g[q][m] = (1..f[q][m]) \cup {g[q][m]} /\ g[q][m] \notin 1..f[q][m]
  OBVIOUS
<1>2. \A p \in Queues : p # q => 1..g[p][m] = 1..f[p][m]
  OBVIOUS
<1>3. Numbered(g, m) = Numbered(f, m) \cup {e}
  <2>1. ASSUME NEW x \in Numbered(g, m) PROVE x \in Numbered(f, m) \cup {e}
    <3>1. PICK p \in Queues : x \in {p} \X (1..g[p][m])
      BY <2>1 DEF Numbered
    <3>2. PICK k \in 1..g[p][m] : x = <<p, k>>
      BY <3>1
    <3>3. k \in 1..f[p][m] => x \in Numbered(f, m)
      BY <3>2 DEF Numbered
    <3>4. k \notin 1..f[p][m] => p = q /\ k = g[q][m]
      BY <1>1, <1>2, <3>2
    <3> QED
      BY <3>2, <3>3, <3>4
  <2>2. ASSUME NEW x \in Numbered(f, m) PROVE x \in Numbered(g, m)
    <3>1. PICK p \in Queues : x \in {p} \X (1..f[p][m])
      BY <2>2 DEF Numbered
    <3>2. 1..f[p][m] \subseteq 1..g[p][m]
      BY <1>1, <1>2
    <3>3. x \in {p} \X (1..g[p][m])
      BY <3>1, <3>2
    <3> QED
      BY <3>3 DEF Numbered
  <2>3. e \in Numbered(g, m)
    <3>1. e \in {q} \X (1..g[q][m])
      BY <1>1
    <3> QED
      BY <3>1 DEF Numbered
  <2> QED
    BY <2>1, <2>2, <2>3
<1>4. e \notin Numbered(f, m)
  <2> SUFFICES ASSUME e \in Numbered(f, m) PROVE FALSE
    OBVIOUS
  <2>1. PICK p \in Queues : e \in {p} \X (1..f[p][m])
    BY DEF Numbered
  <2>2. p = q /\ g[q][m] \in 1..f[p][m]
    BY <2>1
  <2> QED
    BY <1>1, <2>2
<1> HIDE DEF e
<1>5. Numbered(f, m) \in SUBSET Numbered(g, m)
  BY <1>3
<1> QED
  BY <1>3, <1>4, <1>5, FS_AddElement, FS_Subset

\* The places of one stage in the counts of a message.
Holds(i, m) == IF held[i] = m THEN 1 ELSE 0
Doubles(i, m) == IF held[i] = m /\ toBroker[i] = <<"ack">> THEN 1 ELSE 0

\* A set that changes at i only.
LEMMA ChangesAt ==
    ASSUME NEW S, NEW T, NEW i, IsFiniteSet(S), \A j : j # i => (j \in S <=> j \in T)
    PROVE  /\ IsFiniteSet(T)
           /\ Cardinality(S) \in Nat /\ Cardinality(T) \in Nat
           /\ Cardinality(T) - (IF i \in T THEN 1 ELSE 0)
                 = Cardinality(S) - (IF i \in S THEN 1 ELSE 0)
<1>1. T \ {i} = S \ {i}
  OBVIOUS
<1>2. IsFiniteSet(S \ {i})
      /\ Cardinality(S \ {i}) = IF i \in S THEN Cardinality(S) - 1 ELSE Cardinality(S)
  BY FS_RemoveElement
<1>3. T = T \ {i} \/ T = (T \ {i}) \cup {i}
  OBVIOUS
<1>4. IsFiniteSet(T)
  BY <1>1, <1>2, <1>3, FS_AddElement
<1>5. Cardinality(T \ {i}) = IF i \in T THEN Cardinality(T) - 1 ELSE Cardinality(T)
  BY <1>4, FS_RemoveElement
<1>6. Cardinality(S) \in Nat /\ Cardinality(T) \in Nat
  BY <1>4, FS_CardinalityType
<1>7. Cardinality(S \ {i}) = Cardinality(S) - (IF i \in S THEN 1 ELSE 0)
  <2>1. CASE i \in S
    BY <1>2, <2>1
  <2>2. CASE i \notin S
    BY <1>2, <1>6, <2>2
  <2> QED
    BY <2>1, <2>2
<1>8. Cardinality(T \ {i}) = Cardinality(T) - (IF i \in T THEN 1 ELSE 0)
  <2>1. CASE i \in T
    BY <1>5, <2>1
  <2>2. CASE i \notin T
    BY <1>5, <1>6, <2>2
  <2> QED
    BY <2>1, <2>2
<1> QED
  BY <1>1, <1>4, <1>6, <1>7, <1>8

\* A step of stage i changes its own places only.
LEMMA OwnPlaces ==
    ASSUME IInv, NEW i \in Stages, NEW m,
           \/ HandleReadyChanged(i) \/ FinishWithResult(i) \/ Reject(i)
           \/ BrokerHandles(i) \/ Lose(i)
    PROVE  /\ Cardinality(Holders(m)) \in Nat /\ Cardinality(Holders(m))' \in Nat
           /\ Cardinality(Doubling(m)) \in Nat /\ Cardinality(Doubling(m))' \in Nat
           /\ Cardinality(Holders(m))' - Holds(i, m)' = Cardinality(Holders(m)) - Holds(i, m)
           /\ Cardinality(Doubling(m))' - Doubles(i, m)'
                 = Cardinality(Doubling(m)) - Doubles(i, m)
<1>1. IsFiniteSet(Stages)
  BY ChainAssumption, FS_Interval DEF Stages
<1>2. IsFiniteSet(Holders(m)) /\ IsFiniteSet(Doubling(m))
  <2>1. Holders(m) \in SUBSET Stages /\ Doubling(m) \in SUBSET Stages
    BY DEF Holders, Doubling
  <2> QED
    BY <1>1, <2>1, FS_Subset
<1>3. \A j \in Stages : j # i => toBroker'[j] = toBroker[j] /\ held'[j] = held[j]
  BY OthersKept
<1>4. \A j : j # i => (j \in Holders(m) <=> j \in Holders(m)')
  BY <1>3 DEF Holders
<1>5. \A j : j # i => (j \in Doubling(m) <=> j \in Doubling(m)')
  BY <1>3 DEF Holders, Doubling
<1>6. /\ Holds(i, m) = (IF i \in Holders(m) THEN 1 ELSE 0)
      /\ Holds(i, m)' = (IF i \in Holders(m)' THEN 1 ELSE 0)
  BY DEF Holds, Holders
<1>7. /\ Doubles(i, m) = (IF i \in Doubling(m) THEN 1 ELSE 0)
      /\ Doubles(i, m)' = (IF i \in Doubling(m)' THEN 1 ELSE 0)
  BY DEF Doubles, Holders, Doubling
<1>8. /\ Cardinality(Holders(m)) \in Nat /\ Cardinality(Holders(m)') \in Nat
      /\ Cardinality(Holders(m)') - (IF i \in Holders(m)' THEN 1 ELSE 0)
            = Cardinality(Holders(m)) - (IF i \in Holders(m) THEN 1 ELSE 0)
  BY <1>2, <1>4, ChangesAt
<1>9. /\ Cardinality(Doubling(m)) \in Nat /\ Cardinality(Doubling(m)') \in Nat
      /\ Cardinality(Doubling(m)') - (IF i \in Doubling(m)' THEN 1 ELSE 0)
            = Cardinality(Doubling(m)) - (IF i \in Doubling(m) THEN 1 ELSE 0)
  BY <1>2, <1>5, ChangesAt
<1> QED
  BY <1>6, <1>7, <1>8, <1>9

\* The bound of one message, with what the counting needs.
CountedOK(m) ==
    /\ IsFiniteSet(Waiting(m))
    /\ CopiesOf(m) <= 1 + losses + Cardinality(Doubling(m))

LEMMA StepCounted ==
    ASSUME IInv, NEW i \in Stages, NEW m \in Messages, CountedOK(m),
           \/ HandleReadyChanged(i) \/ FinishWithResult(i) \/ Reject(i)
           \/ BrokerHandles(i) \/ Lose(i)
    PROVE  CountedOK(m)'
<1>1. TypeOK /\ FramesOK(i) /\ i \in Queues /\ i + 1 \in Queues /\ m # NoMessage
  BY QueuesAndStages, ChainAssumption DEF IInv
<1>2. losses \in Nat /\ losses' \in Nat
  BY StepTyped DEF IInv, TypeOK
<1> DEFINE w == Cardinality(Waiting(m))
<1>3. w \in Nat /\ Waiting(m) = Numbered(copies, m) /\ Waiting(m)' = Numbered(copies', m)
  BY FS_CardinalityType DEF CountedOK, Waiting, Numbered
<1> HIDE DEF w
<1> DEFINE h == Holds(i, m)
           d == Doubles(i, m)
<1>4. /\ h \in {0, 1} /\ h' \in {0, 1} /\ d \in {0, 1} /\ d' \in {0, 1}
  BY DEF Holds, Doubles
\* It is enough to compare how the four counts change.
<1>5. ASSUME IsFiniteSet(Waiting(m)'), w' \in Nat,
             w' - w + (h' - h) <= (losses' - losses) + (d' - d)
      PROVE  CountedOK(m)'
  <2>1. CopiesOf(m) = w + Cardinality(Holders(m))
    BY DEF CopiesOf, w
  <2>2. CopiesOf(m)' = w' + Cardinality(Holders(m))'
    BY DEF CopiesOf, w
  <2>3. PICK a \in Nat, b \in Nat, x \in Nat, y \in Nat :
           /\ a = Cardinality(Holders(m)) /\ b = Cardinality(Holders(m))'
           /\ x = Cardinality(Doubling(m)) /\ y = Cardinality(Doubling(m))'
           /\ b - h' = a - h /\ y - d' = x - d
    BY OwnPlaces
  <2>4. w + a <= 1 + losses + x
    BY <2>1, <2>3 DEF CountedOK
  <2>5. w' + b <= 1 + losses' + y
    <3> HIDE DEF h, d
    <3>1. PICK h0 \in Int, h1 \in Int, d0 \in Int, d1 \in Int, w0 \in Int, w1 \in Int,
               l0 \in Int, l1 \in Int :
             /\ h0 = h /\ h1 = h' /\ d0 = d /\ d1 = d' /\ w0 = w /\ w1 = w'
             /\ l0 = losses /\ l1 = losses'
      BY <1>2, <1>3, <1>4, <1>5
    <3>2. /\ b - h1 = a - h0 /\ y - d1 = x - d0 /\ w0 + a <= 1 + l0 + x
          /\ w1 - w0 + (h1 - h0) <= (l1 - l0) + (d1 - d0)
      BY <1>5, <2>3, <2>4, <3>1
    <3>3. w1 + b <= 1 + l1 + y
      BY <3>2
    <3> QED
      BY <3>1, <3>3
  <2> QED
    BY <1>5, <2>2, <2>3, <2>5 DEF CountedOK
<1>6. copies' = copies => IsFiniteSet(Waiting(m)') /\ w' = w
  BY DEF CountedOK, Waiting, w
<1>7. CASE \/ HandleReadyChanged(i) \/ FinishWithResult(i) \/ Reject(i)
           \/ BrokerDeclares(i) \/ BrokerConsumes(i) \/ BrokerRefuses(i)
  <2>1. UNCHANGED <<held, copies, losses>>
    BY <1>7 DEF HandleReadyChanged, FinishWithResult, Reject, BrokerDeclares, BrokerConsumes,
                BrokerRefuses
  <2>2. h' = h
    BY <2>1 DEF Holds
  <2>3. toBroker[i] # <<"ack">> \/ held[i] = NoMessage
    BY <1>1, <1>7, FramesDiffer
    DEF HandleReadyChanged, FinishWithResult, Reject, Converting, BrokerDeclares, BrokerConsumes,
        BrokerRefuses, Takes, FramesOK
  <2>4. d = 0
    BY <1>1, <2>3 DEF Doubles
  <2> HIDE DEF h, d
  <2>5. IsFiniteSet(Waiting(m)') /\ w' = w
    BY <1>6, <2>1
  <2>6. w' - w + (h' - h) <= (losses' - losses) + (d' - d)
    <3>1. h' - h = 0 /\ d' - d >= 0
      <4>1. PICK x \in {0, 1}, y \in {0, 1} : x = h /\ y = d'
        BY <1>4
      <4>2. h' = x /\ d = 0
        BY <2>2, <2>4, <4>1
      <4>3. x - x = 0 /\ y - 0 >= 0
        OBVIOUS
      <4> QED
        BY <4>1, <4>2, <4>3
    <3>2. w' - w = 0 /\ losses' - losses = 0
      BY <1>2, <1>3, <2>1, <2>5
    <3>3. losses' - losses \in Int /\ d' - d \in Int
      BY <1>2, <1>4
    <3> QED
      BY <3>1, <3>2, <3>3
  <2> QED
    BY <1>3, <1>5, <2>5, <2>6
<1>8. CASE BrokerRoutes(i)
  <2>1. toBroker[i] = FramesOfResult
    BY <1>1, <1>8, FramesDiffer DEF BrokerRoutes, Takes, FramesOK
  <2>2. held[i] \in Messages /\ Exists(i + 1)
    BY <1>1, <2>1, FramesDiffer DEF FramesOK
  <2>3. toBroker'[i] = <<"ack">> /\ UNCHANGED <<held, losses>>
    BY <1>1, <1>8, <2>1, FramesDiffer DEF BrokerRoutes, Takes, TypeOK
  <2>4. h' = h /\ d = 0 /\ d' = h
    BY <2>1, <2>3, FramesDiffer DEF Holds, Doubles
  <2>5. CASE held[i] = m
    <3>1. /\ copies[i + 1][m] \in Nat /\ copies'[i + 1][m] = copies[i + 1][m] + 1
          /\ \A p \in Queues : p # i + 1 => copies'[p][m] = copies[p][m]
      BY <1>1, <1>8, <2>2, <2>5 DEF BrokerRoutes, TypeOK
    <3>2. IsFiniteSet(Waiting(m)') /\ w' = w + 1
      BY <1>1, <1>3, <3>1, OneMore DEF CountedOK, w
    <3>3. h = 1
      BY <2>5 DEF Holds
    <3> HIDE DEF h, d
    <3> QED
      BY <1>2, <1>3, <1>5, <2>3, <2>4, <3>2, <3>3
  <2>6. CASE held[i] # m
    <3>1. \A p \in Queues : copies'[p][m] = copies[p][m]
      BY <1>1, <1>8, <2>2, <2>6 DEF BrokerRoutes, TypeOK
    <3>2. Waiting(m)' = Waiting(m)
      BY <3>1 DEF Waiting
    <3>3. IsFiniteSet(Waiting(m)') /\ w' = w
      BY <3>2 DEF CountedOK, w
    <3>4. h = 0
      BY <2>6 DEF Holds
    <3> HIDE DEF h, d
    <3> QED
      BY <1>2, <1>3, <1>5, <2>3, <2>4, <3>3, <3>4
  <2> QED
    BY <2>5, <2>6
<1>9. CASE BrokerSettles(i)
  <2>1. toBroker[i] = <<"ack">> /\ held'[i] = NoMessage /\ UNCHANGED <<copies, losses>>
    BY <1>1, <1>9, FramesDiffer DEF BrokerSettles, Takes, FramesOK, TypeOK
  <2>2. d = h /\ h' = 0 /\ d' = 0
    BY <1>1, <2>1 DEF Holds, Doubles
  <2> HIDE DEF h, d
  <2> QED
    BY <1>2, <1>3, <1>4, <1>5, <1>6, <2>1, <2>2
<1>10. CASE \E n \in Messages : BrokerDelivers(i, n)
  <2> PICK n \in Messages : BrokerDelivers(i, n)
    BY <1>10
  <2>1. held[i] = NoMessage /\ held'[i] = n /\ toBroker' = toBroker /\ toBroker[i] = <<>>
        /\ losses' = losses
    BY <1>1 DEF BrokerDelivers, TypeOK
  <2>2. h = 0 /\ d = 0 /\ d' = 0 /\ h' = (IF n = m THEN 1 ELSE 0)
    BY <1>1, <2>1, FramesDiffer DEF Holds, Doubles
  <2>3. CASE n = m
    <3>1. /\ copies'[i][m] \in Nat /\ copies[i][m] = copies'[i][m] + 1
          /\ \A p \in Queues : p # i => copies[p][m] = copies'[p][m]
      BY <1>1, <2>3 DEF BrokerDelivers, TypeOK
    <3>2. IsFiniteSet(Waiting(m)')
      BY <1>1, <1>3, <3>1, OneMore DEF CountedOK
    <3>3. w' \in Nat
      BY <3>2, FS_CardinalityType DEF w
    <3>4. Cardinality(Waiting(m)) = Cardinality(Waiting(m)') + 1
      BY <1>1, <1>3, <3>1, <3>2, OneMore
    <3>5. w = w' + 1
      BY <3>4 DEF w
    <3>6. h' = 1
      BY <2>2, <2>3
    <3> HIDE DEF h, d
    <3> QED
      BY <1>2, <1>3, <1>5, <2>1, <2>2, <3>2, <3>3, <3>5, <3>6
  <2>4. CASE n # m
    <3>1. \A p \in Queues : copies'[p][m] = copies[p][m]
      BY <1>1, <2>4 DEF BrokerDelivers, TypeOK
    <3>2. Waiting(m)' = Waiting(m)
      BY <3>1 DEF Waiting
    <3>3. IsFiniteSet(Waiting(m)') /\ w' = w
      BY <3>2 DEF CountedOK, w
    <3> HIDE DEF h, d
    <3> QED
      BY <1>2, <1>3, <1>5, <2>1, <2>2, <2>4, <3>3
  <2> QED
    BY <2>3, <2>4
<1>11. CASE Lose(i)
  <2>1. held'[i] = NoMessage /\ losses' = losses + 1
    BY <1>1, <1>11 DEF Lose, TypeOK
  <2>2. h' = 0 /\ d' = 0 /\ d <= h
    BY <1>1, <2>1 DEF Holds, Doubles
  <2>3. CASE held[i] = m
    <3>1. /\ copies[i][m] \in Nat /\ copies'[i][m] = copies[i][m] + 1
          /\ \A p \in Queues : p # i => copies'[p][m] = copies[p][m]
      BY <1>1, <1>11, <2>3 DEF Lose, TypeOK
    <3>2. IsFiniteSet(Waiting(m)') /\ w' = w + 1
      BY <1>1, <1>3, <3>1, OneMore DEF CountedOK, w
    <3>3. h = 1
      BY <2>3 DEF Holds
    <3> HIDE DEF h, d
    <3> QED
      BY <1>2, <1>3, <1>4, <1>5, <2>1, <2>2, <3>2, <3>3
  <2>4. CASE held[i] # m
    <3>1. \A p \in Queues : copies'[p][m] = copies[p][m]
      BY <1>1, <1>11, <2>4 DEF Lose, TypeOK
    <3>2. Waiting(m)' = Waiting(m)
      BY <3>1 DEF Waiting
    <3>3. IsFiniteSet(Waiting(m)') /\ w' = w
      BY <3>2 DEF CountedOK, w
    <3>4. h = 0
      BY <2>4 DEF Holds
    <3> HIDE DEF h, d
    <3> QED
      BY <1>2, <1>3, <1>4, <1>5, <2>1, <2>2, <3>3, <3>4
  <2> QED
    BY <2>3, <2>4
<1> QED
  BY <1>7, <1>8, <1>9, <1>10, <1>11 DEF BrokerHandles

\* In the beginning there is one copy of each message, in the first queue.
LEMMA InitCounted == Init => \A m \in Messages : CountedOK(m)
<1> SUFFICES ASSUME Init, NEW m \in Messages PROVE CountedOK(m)
  OBVIOUS
<1> DEFINE none == [q \in Queues |-> [n \in Messages |-> 0]]
<1>1. Numbered(none, m) = {}
  <2>1. \A q \in Queues : 1..none[q][m] = {}
    OBVIOUS
  <2> QED
    BY <2>1 DEF Numbered
<1>2. none[1][m] = 0 /\ copies[1][m] = 1 /\ 1 \in Queues
      /\ \A p \in Queues : p # 1 => copies[p][m] = none[p][m]
  BY QueuesAndStages DEF Init
<1> HIDE DEF none
<1>3. IsFiniteSet(Numbered(copies, m)) /\ Cardinality(Numbered(copies, m)) = 1
  <2>1. none[1][m] \in Nat /\ copies[1][m] = none[1][m] + 1
    BY <1>2
  <2>2. /\ IsFiniteSet(Numbered(none, m)) <=> IsFiniteSet(Numbered(copies, m))
        /\ IsFiniteSet(Numbered(none, m)) =>
              Cardinality(Numbered(copies, m)) = Cardinality(Numbered(none, m)) + 1
    BY <1>2, <2>1, OneMore
  <2> QED
    BY <1>1, <2>2, FS_EmptySet
<1>4. Waiting(m) = Numbered(copies, m)
  BY DEF Waiting, Numbered
<1>5. Holders(m) = {} /\ Doubling(m) = {}
  BY ChainAssumption DEF Init, Holders, Doubling
<1>6. losses = 0
  BY DEF Init
<1> QED
  BY <1>3, <1>4, <1>5, <1>6, FS_EmptySet DEF CountedOK, CopiesOf

\* Whatever the length of the chain, the messages and the losses: every copy
\* too many is the work of a loss between a publish and its ack
\* (runnerservice.cpp:133-136).
THEOREM CopiesAreLosses == Spec => []DuplicatesBounded
<1> DEFINE Counted == \A m \in Messages : CountedOK(m)
<1>1. Init => Counted
  BY InitCounted
<1>2. IInv /\ Counted /\ [Next]_vars => Counted'
  <2> SUFFICES ASSUME IInv, Counted, [Next]_vars, NEW m \in Messages PROVE CountedOK(m)'
    OBVIOUS
  <2>1. CASE UNCHANGED vars
    BY <2>1 DEF vars, CountedOK, Waiting, CopiesOf, Holders, Doubling
  <2>2. CASE Next
    BY <2>2, StepCounted DEF Next
  <2> QED
    BY <2>1, <2>2
<1>3. Counted => DuplicatesBounded
  BY DEF CountedOK, DuplicatesBounded
<1> HIDE DEF Counted
<1> QED
  BY <1>1, <1>2, <1>3, Invariance, PTL DEF Spec
=============================================================================
