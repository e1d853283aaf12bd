----------------------------- MODULE Converter -----------------------------
(***************************************************************************)
(* ConverterService (ConverterPlugin/Service/converterservice.cpp): the    *)
(* FIFO of jobs, the one QProcess that runs the python converter, and the  *)
(* temporary directory of the job that runs (JobEnv).                      *)
(*                                                                         *)
(* The queue holds weak pointers.  The only strong references are those of *)
(* RunnerService::_jobs, the variable jobs here: a queued job that is not  *)
(* in jobs is dead, currentJob() returns null for it.  A job is named by   *)
(* its message_id; RunnerService keeps two handles of the same message     *)
(* from being queued at once (DistinctJobs in JobPipeline).                *)
(*                                                                         *)
(* endJob() calls startJob() for the next entry, and startJob() calls      *)
(* endJob() when it fails, so one event may end several jobs before the    *)
(* converter returns to the event loop.  That mutual recursion is a set of *)
(* outcomes: how many entries it ends and which job is left running.       *)
(***************************************************************************)
EXTENDS Naturals, Sequences

CONSTANTS
    Messages,           \* identities of job messages (message_id)
    NoJob,              \* the value of jobEnv when no directory exists
    ConverterMayCrash   \* may the python process be killed by a signal?

ASSUME ConverterAssumption == NoJob \notin Messages /\ ConverterMayCrash \in BOOLEAN

VARIABLES
    jobs,          \* RunnerService::_jobs: the messages whose handle is alive
    received,      \* _receivedMessages
    startsPosted,  \* queued invocations of startJob() in the event loop
    process,       \* _process.state(): "NotRunning" or "Running"
    jobEnv,        \* the job _jobEnv.tmpDir was created for, or NoJob
    undefined      \* front() or pop() was called on an empty std::queue

serviceVars == <<received, startsPosted, process, jobEnv, undefined>>
vars == <<jobs, serviceVars>>

\* How a live job ends.  Only "converted" carries a result; the code passes
\* nullopt for the other two: "failed" when the job's own environment or
\* process failed, "skipped" when no process was ever run for it.
Endings == {"converted", "failed", "skipped"}

EndedJob == [job : Messages, ending : Endings]

TypeOK ==
    /\ jobs \subseteq Messages
    /\ received \in Seq(Messages)
    /\ startsPosted \in Nat
    /\ process \in {"NotRunning", "Running"}
    /\ jobEnv \in Messages \cup {NoJob}
    /\ undefined \in BOOLEAN

Init ==
    /\ jobs = {}
    /\ received = <<>>
    /\ startsPosted = 0
    /\ process = "NotRunning"
    /\ jobEnv = NoJob
    /\ undefined = FALSE

-----------------------------------------------------------------------------
(***************************************************************************)
(* Outcomes of startJob() and endJob().  An outcome names the queue that   *)
(* is left, whose head is the job the process now runs, and the live jobs  *)
(* that were ended: finish() emitted finished() for each of them.          *)
(***************************************************************************)

Outcome == [queue : Seq(Messages), ended : SUBSET EndedJob, undef : BOOLEAN]

Undefined == [queue |-> <<>>, ended |-> {}, undef |-> TRUE]

JobsOf(ended) == {e.job : e \in ended}

\* job->finish(): nothing for a dead handle.
Finish(m, ending, live) ==
    IF m \in live THEN {[job |-> m, ending |-> ending]} ELSE {}

\* Mutant: startJob() drops a job whose environment cannot be created.
EndPrefixSilently(q, k, live) ==
    [queue |-> SubSeq(q, k + 1, Len(q)), ended |-> {}, undef |-> FALSE]

\* Mutant: a job that cannot be prepared is overtaken by the one behind it.
EndPrefixOutOfOrder(q, k, live) ==
    [queue |-> SubSeq(q, 1, Len(q) - k),
     ended |-> UNION {Finish(q[i], "failed", live) : i \in Len(q) - k + 1 .. Len(q)},
     undef |-> FALSE]

\* The first k entries of q end at once, the dead ones in notifyJob() and the
\* live ones because createEnv() failed (no directory, no input file); entry
\* k + 1, if there is one, is alive and its environment is complete.
EndPrefix(q, k, live) ==
    [queue |-> SubSeq(q, k + 1, Len(q)),
     ended |-> UNION {Finish(q[i], "failed", live) : i \in 1 .. k},
     undef |-> FALSE]

\* Mutant: endJob() calls startJob() without looking whether a job is left.
ServeOutcomesUnchecked(q, live) ==
    {IF k = Len(q) THEN [EndPrefix(q, k, live) EXCEPT !.undef = TRUE] ELSE EndPrefix(q, k, live) :
        k \in {i \in 0 .. Len(q) : i < Len(q) => q[i + 1] \in live}}

ServeOutcomes(q, live) ==
    {EndPrefix(q, k, live) :
        k \in {i \in 0 .. Len(q) : i < Len(q) => q[i + 1] \in live}}

StartJobOutcomes(q, live) ==
    IF q = <<>> THEN {Undefined} ELSE ServeOutcomes(q, live)

EndJobOutcomes(q, live, ending) ==
    IF q = <<>>
    THEN {Undefined}
    ELSE {[o EXCEPT !.ended = @ \cup Finish(Head(q), ending, live)] :
            o \in ServeOutcomes(Tail(q), live \ {Head(q)})}

\* QProcess reports a crash twice before it returns to the event loop: first
\* errorOccurred(Crashed), while it still counts as Running, so that the
\* start() of the next job is refused, then finished(CrashExit).  Each of the
\* two signals ends the job at the front of the queue.
CrashOutcomes(q, live) ==
    UNION {{[o EXCEPT !.ended = @ \cup first.ended] :
                o \in EndJobOutcomes(first.queue, live \ JobsOf(first.ended), "skipped")} :
            first \in EndJobOutcomes(q, live, "failed")}

\* Mutant: the directory of a finished job is not removed.
SettleKeepingEnv(o) ==
    /\ received' = o.queue
    /\ process' = IF o.queue = <<>> THEN "NotRunning" ELSE "Running"
    /\ jobEnv' = IF o.queue = <<>> THEN jobEnv ELSE Head(o.queue)
    /\ undefined' = o.undef

\* Mutant: startJob() prepares the directory and never starts the process.
SettleWithoutStart(o) ==
    /\ received' = o.queue
    /\ process' = "NotRunning"
    /\ jobEnv' = NoJob
    /\ undefined' = o.undef

\* What startJob() and endJob() leave behind: the head of the queue runs, in
\* a directory of its own; JobEnv::clear() removed the directory of any other.
Settle(o) ==
    /\ received' = o.queue
    /\ process' = IF o.queue = <<>> THEN "NotRunning" ELSE "Running"
    /\ jobEnv' = IF o.queue = <<>> THEN NoJob ELSE Head(o.queue)
    /\ undefined' = o.undef

-----------------------------------------------------------------------------
(***************************************************************************)
(* Steps of the service.  The owner of the handles says what becomes of    *)
(* jobs, so the steps leave that variable to it.                           *)
(***************************************************************************)

\* Mutant: every message posts a startJob(), not only the first.
ProcessJobMessagePostingAlways(m) ==
    /\ ~undefined
    /\ received' = Append(received, m)
    /\ startsPosted' = startsPosted + 1
    /\ UNCHANGED <<process, jobEnv, undefined>>

ProcessJobMessage(m) ==
    /\ ~undefined
    /\ received' = Append(received, m)
    /\ startsPosted' = IF Len(received') = 1 THEN startsPosted + 1 ELSE startsPosted
    /\ UNCHANGED <<process, jobEnv, undefined>>

\* Mutant: startJob() runs without having been posted.
StartJobUncounted(o) ==
    /\ ~undefined
    /\ o \in StartJobOutcomes(received, jobs)
    /\ startsPosted' = startsPosted - 1
    /\ Settle(o)

\* The queued startJob() runs.
StartJob(o) ==
    /\ ~undefined
    /\ startsPosted > 0
    /\ o \in StartJobOutcomes(received, jobs)
    /\ startsPosted' = startsPosted - 1
    /\ Settle(o)

\* finished(): exit code 0 and the output file copied, or any failure of it.
ProcessFinished(o) ==
    /\ ~undefined
    /\ process = "Running"
    /\ \E ending \in {"converted", "failed"} : o \in EndJobOutcomes(received, jobs, ending)
    /\ Settle(o)
    /\ UNCHANGED startsPosted

\* errorOccurred(FailedToStart), alone: the process is not running any more.
ProcessFailedToStart(o) ==
    /\ ~undefined
    /\ process = "Running"
    /\ o \in EndJobOutcomes(received, jobs, "failed")
    /\ Settle(o)
    /\ UNCHANGED startsPosted

\* errorOccurred(Crashed) followed by finished(CrashExit).
ProcessCrashed(o) ==
    /\ ~undefined
    /\ ConverterMayCrash
    /\ process = "Running"
    /\ o \in CrashOutcomes(received, jobs)
    /\ Settle(o)
    /\ UNCHANGED startsPosted

ProcessOutcomes ==
    UNION {EndJobOutcomes(received, jobs, ending) : ending \in {"converted", "failed"}}
        \cup (IF ConverterMayCrash THEN CrashOutcomes(received, jobs) ELSE {})

-----------------------------------------------------------------------------
(***************************************************************************)
(* The service on its own: an owner that submits messages which are not    *)
(* queued yet, drops a handle when its job ends, and drops all of them     *)
(* when the connection breaks.                                             *)
(***************************************************************************)

Queued == {received[i] : i \in 1 .. Len(received)}

Submit(m) ==
    /\ m \notin Queued
    /\ ProcessJobMessage(m)
    /\ jobs' = jobs \cup {m}

AbortAllJobs ==
    /\ ~undefined
    /\ jobs # {}
    /\ jobs' = {}
    /\ UNCHANGED serviceVars

Release(o) == jobs' = jobs \ JobsOf(o.ended)

Start == \E o \in StartJobOutcomes(received, jobs) : StartJob(o) /\ Release(o)

Exit ==
    /\ process = "Running"
    /\ \E o \in ProcessOutcomes :
        /\ ProcessFinished(o) \/ ProcessFailedToStart(o) \/ ProcessCrashed(o)
        /\ Release(o)

Next ==
    \/ \E m \in Messages : Submit(m)
    \/ AbortAllJobs
    \/ Start
    \/ Exit

Spec == Init /\ [][Next]_vars

\* The event loop runs a posted call, and the python process ends (no timeout
\* in the code bounds how long it may take: its end is an assumption).
FairSpec == Spec /\ WF_vars(Start) /\ WF_vars(Exit)

-----------------------------------------------------------------------------
(***************************************************************************)
(* Properties.                                                             *)
(***************************************************************************)

\* The queue is never stuck and never served twice: it is non-empty exactly
\* when one startJob() is posted or the process runs, and never both.  The
\* post depends on the size seen by the push, the next start on endJob().
ServedOnce ==
    ~undefined =>
        /\ startsPosted + (IF process = "Running" THEN 1 ELSE 0)
               = (IF received = <<>> THEN 0 ELSE 1)

\* The temporary directory, hence the output file copyResultFile() reads, is
\* that of the job whose handle gets the result: the head of the queue.
EnvOfRunningJob ==
    jobEnv = IF process = "Running" THEN Head(received) ELSE NoJob

\* No front() or pop() on an empty queue.
QueueNeverUnderflows == ~undefined

\* Nothing but the two signals of one crash of the python process makes
\* startJob() or endJob() read or pop an empty queue: whatever is aborted,
\* dropped, or ended because its environment cannot be created in between.
UnderflowOnlyByCrash ==
    [][undefined' => undefined \/ \E o \in CrashOutcomes(received, jobs) : ProcessCrashed(o)]_vars

\* A live handle is still going to be served: it has its place in the queue,
\* and only one.
LiveJobsQueued ==
    /\ jobs \subseteq Queued
    /\ \A i, j \in 1 .. Len(received) : received[i] = received[j] => i = j

\* Every accepted job ends, by its own finish() or by an abort.
EveryJobEnds == \A m \in Messages : m \in jobs ~> m \notin jobs
=============================================================================
