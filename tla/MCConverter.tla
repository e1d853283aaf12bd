---------------------------- MODULE MCConverter ----------------------------
(* Model checking of Converter: the promise of JobQueue as a property.     *)
EXTENDS Converter

JobQueueOfLiveJobs ==
    INSTANCE JobQueue WITH pending <- SelectSeq(received, LAMBDA m : m \in jobs)

\* Live jobs end in the order in which processJobMessage() accepted them, and
\* only finish() or abortAllJobs() ends one: the queue of weak pointers, with
\* its dead entries left out, implements the job queue the runner relies on.
ServedInOrder == JobQueueOfLiveJobs!Spec
=============================================================================
