------------------------------ MODULE JobQueue ------------------------------
(***************************************************************************)
(* What ConverterService promises to the owner of the job handles: live    *)
(* jobs are served in the order in which processJobMessage() accepted      *)
(* them, each ends once, and nothing else ends a job but an abort, which   *)
(* ends all of them.                                                       *)
(***************************************************************************)
EXTENDS Naturals, Sequences

CONSTANT Messages

VARIABLE pending   \* accepted jobs that have not ended, oldest first

Init == pending = <<>>

Accept(m) == pending' = Append(pending, m)

\* The oldest jobs end; several at once when the environment of the next ones
\* cannot be created.
End(k) == pending' = SubSeq(pending, k + 1, Len(pending))

Abort == pending' = <<>>

Next ==
    \/ \E m \in Messages : (\A i \in 1 .. Len(pending) : pending[i] # m) /\ Accept(m)
    \/ \E k \in 1 .. Len(pending) : End(k)
    \/ Abort

Spec == Init /\ [][Next]_pending
=============================================================================
