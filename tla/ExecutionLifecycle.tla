------------------------- MODULE ExecutionLifecycle -------------------------
(***************************************************************************)
(* How one queued scrape run becomes an execution row, a result and        *)
(* events: ScrapeProcessor.process (src/queue/scrape.processor.ts) and the *)
(* JobExecutionsService methods it awaits                                  *)
(* (src/job-executions/job-executions.service.ts).                         *)
(*                                                                         *)
(* A worker is one server process: @Processor sets no concurrency, so a    *)
(* process works on one run at a time.  Every await of the handler is a    *)
(* step of its own, because another process, a deletion, a database error  *)
(* or a crash can come between two awaits and never between two statements *)
(* of the same synchronous stretch.  The BullMQ queue is external: what a  *)
(* run goes through there (waiting, active under a lock, stalled, settled) *)
(* is modelled from how the processor relies on it.                        *)
(***************************************************************************)
EXTENDS Naturals, FiniteSets

CONSTANTS
    Jobs,         \* rows of the jobs table
    SmartJobs,    \* the jobs whose extractorType is SMART
    Runs,         \* entries of the BullMQ queue, one per enqueue
    Workers,      \* server processes
    Execs,        \* ids of execution rows, handed out in order of creation
    Texts,        \* what formatting an extraction can yield
    None,         \* no job, run, worker, execution or text
    MaxStalled,   \* BullMQ's maxStalledCount: stalls a run survives
    MaxFaults,    \* bound: database calls that reject
    MaxCrashes,   \* bound: processes that die in the middle of a run
    MaxExpiries   \* bound: locks that expire under a live worker

ASSUME ConstantsAssumption ==
    /\ SmartJobs \subseteq Jobs
    /\ Execs \subseteq Nat
    /\ None \notin Jobs \cup Runs \cup Workers \cup Execs \cup Texts
    /\ MaxStalled \in Nat /\ MaxFaults \in Nat
    /\ MaxCrashes \in Nat /\ MaxExpiries \in Nat

VARIABLES
    jobs,         \* the jobs that exist
    active,       \* the jobs whose target URL has status ACTIVE
    status,       \* status column of each execution row
    finishedAt,   \* finishedAt column, as a rank; 0 is null
    result,       \* definition.text of the row's result
    logs,         \* levels of the lines completeExecution/failExecution logged
    clock,        \* the last finishedAt handed out
    execRun,      \* the run each row was created for
    runJob,       \* job.data.jobId of each run
    runState,     \* state of each run in BullMQ
    lock,         \* the worker whose token holds the run's lock
    stalls,       \* BullMQ's stalled counter of the run
    pc,           \* the await each worker is at
    run,          \* the run each worker processes
    exec,         \* the execution row it works for
    raw,          \* the formatted text it holds
    differs,      \* the verdict of its comparison, until it emits
    emits,        \* how often each event was emitted for each execution
    pushes,       \* how often each outcome was pushed to the owner's sockets
    faults, crashes, expiries   \* how much of each bound is used

rowVars   == <<jobs, active, status, finishedAt, result, logs, clock, execRun>>
queueVars == <<runJob, runState, lock, stalls>>
localVars == <<run, exec, raw, differs>>
outVars   == <<emits, pushes>>
bounds    == <<faults, crashes, expiries>>
vars      == <<rowVars, queueVars, pc, localVars, outVars, bounds>>

Events   == {"DONE", "FAILED", "DIFF"}
Outcomes == {"DONE", "FAILED"}
Statuses == {"none", "RUNNING", "DONE", "FAILED", "deleted"}
Settled  == {"completed", "failed"}

\* The awaits inside the processor's try block, and those of its catch block.
TrySteps   == {"target", "scrape", "saveResult", "logDone", "markDone",
               "markActive", "pushDone", "compare", "emitDone"}
CatchSteps == {"logError", "markFailed", "reportFailed"}
Steps      == {"idle", "init", "resolve", "reject"} \cup TrySteps \cup CatchSteps

\* Awaits that reach the database, and those among them that throw once the
\* job (and with it, by cascade, the execution row) is gone.
DbSteps  == {"init"} \cup (TrySteps \ {"scrape", "emitDone"}) \cup CatchSteps
RowSteps == DbSteps \ {"markActive", "compare"}

JobOf(e)    == runJob[execRun[e]]
RowsOf(j)   == {e \in Execs : execRun[e] # None /\ JobOf(e) = j}
DoneRows(j) == {e \in RowsOf(j) : status[e] = "DONE"}
Job(w)      == runJob[run[w]]

RowsTyped ==
    /\ jobs \subseteq Jobs
    /\ active \subseteq Jobs
    /\ status \in [Execs -> Statuses]
    /\ finishedAt \in [Execs -> Nat]
    /\ result \in [Execs -> Texts \cup {None}]
    /\ logs \in [Execs -> SUBSET {"INFO", "ERROR"}]
    /\ clock \in Nat
    /\ execRun \in [Execs -> Runs \cup {None}]

QueueTyped ==
    /\ runJob \in [Runs -> Jobs \cup {None}]
    /\ runState \in [Runs -> {"absent", "waiting", "active"} \cup Settled]
    /\ lock \in [Runs -> Workers \cup {None}]
    /\ stalls \in [Runs -> Nat]

LocalsTyped ==
    /\ run \in [Workers -> Runs \cup {None}]
    /\ exec \in [Workers -> Execs \cup {None}]
    /\ raw \in [Workers -> Texts \cup {None}]
    /\ differs \in [Workers -> BOOLEAN]

OutTyped ==
    /\ emits \in [Execs -> [Events -> Nat]]
    /\ pushes \in [Execs -> [Outcomes -> Nat]]

BoundsTyped ==
    /\ faults \in 0..MaxFaults
    /\ crashes \in 0..MaxCrashes
    /\ expiries \in 0..MaxExpiries

TypeOK ==
    /\ RowsTyped
    /\ QueueTyped
    /\ pc \in [Workers -> Steps]
    /\ LocalsTyped
    /\ OutTyped
    /\ BoundsTyped

\* A target's status after its inspection at creation is ACTIVE or INACTIVE.
Init ==
    /\ jobs = Jobs
    /\ active \in SUBSET Jobs
    /\ status = [e \in Execs |-> "none"]
    /\ finishedAt = [e \in Execs |-> 0]
    /\ result = [e \in Execs |-> None]
    /\ logs = [e \in Execs |-> {}]
    /\ clock = 0
    /\ execRun = [e \in Execs |-> None]
    /\ runJob = [r \in Runs |-> None]
    /\ runState = [r \in Runs |-> "absent"]
    /\ lock = [r \in Runs |-> None]
    /\ stalls = [r \in Runs |-> 0]
    /\ pc = [w \in Workers |-> "idle"]
    /\ run = [w \in Workers |-> None]
    /\ exec = [w \in Workers |-> None]
    /\ raw = [w \in Workers |-> None]
    /\ differs = [w \in Workers |-> FALSE]
    /\ emits = [e \in Execs |-> [t \in Events |-> 0]]
    /\ pushes = [e \in Execs |-> [t \in Outcomes |-> 0]]
    /\ faults = 0 /\ crashes = 0 /\ expiries = 0
-----------------------------------------------------------------------------
\* What all awaits share.

\* Mutants of OnError: scraper.scrape moved in front of the try block; and a
\* rejected saveResult that is caught and ignored.
OnErrorScrapeOutsideTry(here) ==
    IF here \in TrySteps \ {"scrape"} THEN "logError" ELSE "reject"
OnErrorResultIgnored(here) ==
    IF here = "saveResult" THEN "logDone"
    ELSE IF here \in TrySteps THEN "logError" ELSE "reject"

\* Where a rejected await takes the handler: line 31 stands before the try
\* block, so a rejection there leaves process() at once; one in the try block
\* lands in the catch block; one in the catch block leaves process().
OnError(here) == IF here \in TrySteps THEN "logError" ELSE "reject"

\* The await named here answers and the handler goes on to next; or the call
\* took effect but its answer was lost (the connection broke), which the
\* handler sees as a rejection.
Await(w, here, next, reply) ==
    /\ pc[w] = here
    /\ reply = "lost" => faults < MaxFaults
    /\ pc' = [pc EXCEPT ![w] = IF reply = "ok" THEN next ELSE OnError(here)]
    /\ faults' = IF reply = "ok" THEN faults ELSE faults + 1
    /\ UNCHANGED <<crashes, expiries>>

Replies == {"ok", "lost"}

\* A database call that rejects without having done anything.
QueryFails(w) ==
    /\ pc[w] \in DbSteps
    /\ faults < MaxFaults
    /\ faults' = faults + 1
    /\ pc' = [pc EXCEPT ![w] = OnError(pc[w])]
    /\ UNCHANGED <<rowVars, queueVars, localVars, outVars, crashes, expiries>>

\* The job was deleted under the run: a create breaks its foreign key, an
\* update finds no row, fetchJobTarget and the owner lookups throw.
RowMissing(w) ==
    /\ pc[w] \in RowSteps
    /\ Job(w) \notin jobs
    /\ pc' = [pc EXCEPT ![w] = OnError(pc[w])]
    /\ UNCHANGED <<rowVars, queueVars, localVars, outVars, bounds>>

-----------------------------------------------------------------------------
\* ScrapeProcessor.process, one await at a time.

\* BullMQ hands a waiting run to an idle worker and gives it the lock.
Fetch(w, r) ==
    /\ pc[w] = "idle" /\ runState[r] = "waiting"
    /\ runState' = [runState EXCEPT ![r] = "active"]
    /\ lock' = [lock EXCEPT ![r] = w]
    /\ run' = [run EXCEPT ![w] = r]
    /\ pc' = [pc EXCEPT ![w] = "init"]
    /\ UNCHANGED <<rowVars, runJob, stalls, exec, raw, differs, outVars, bounds>>

Unused(e) == status[e] = "none"
NextExec(e) == Unused(e) /\ \A f \in Execs : Unused(f) => e <= f

\* Mutant: the row is created with the column's default status.
InitExecutionPending(w, e, reply) ==
    /\ Await(w, "init", "target", reply)
    /\ Job(w) \in jobs
    /\ NextExec(e)
    /\ status' = [status EXCEPT ![e] = "PENDING"]
    /\ execRun' = [execRun EXCEPT ![e] = run[w]]
    /\ exec' = [exec EXCEPT ![w] = IF reply = "ok" THEN e ELSE None]
    /\ UNCHANGED <<jobs, active, finishedAt, result, logs, clock, queueVars,
                   run, raw, differs, outVars>>

\* No producer passes an executionId, so every processing creates a row.  If
\* the answer is lost the row exists and no handler will ever close it.
InitExecution(w, e, reply) ==
    /\ Await(w, "init", "target", reply)
    /\ Job(w) \in jobs
    /\ NextExec(e)
    /\ status' = [status EXCEPT ![e] = "RUNNING"]
    /\ execRun' = [execRun EXCEPT ![e] = run[w]]
    /\ exec' = [exec EXCEPT ![w] = IF reply = "ok" THEN e ELSE None]
    /\ UNCHANGED <<jobs, active, finishedAt, result, logs, clock, queueVars,
                   run, raw, differs, outVars>>

FetchJobTarget(w) ==
    /\ Await(w, "target", "scrape", "ok")
    /\ Job(w) \in jobs
    /\ UNCHANGED <<rowVars, queueVars, localVars, outVars>>

\* Both scrapers bound every wait with a timeout, so the call ends: with text
\* that the formatter turns into t, or with an error.
Scrape(w, t) ==
    /\ Await(w, "scrape", "saveResult", "ok")
    /\ raw' = [raw EXCEPT ![w] = t]
    /\ UNCHANGED <<rowVars, queueVars, run, exec, differs, outVars>>

ScrapeFails(w) ==
    /\ pc[w] = "scrape"
    /\ pc' = [pc EXCEPT ![w] = OnError("scrape")]
    /\ UNCHANGED <<rowVars, queueVars, localVars, outVars, bounds>>

-----------------------------------------------------------------------------
\* completeExecution.

SaveResult(w, reply) ==
    /\ Await(w, "saveResult", "logDone", reply)
    /\ Job(w) \in jobs
    /\ result' = [result EXCEPT ![exec[w]] = raw[w]]
    /\ UNCHANGED <<jobs, active, status, finishedAt, logs, clock, execRun,
                   queueVars, localVars, outVars>>

\* saveLog writes the line, then looks the owner up and pushes the line: a
\* failed lookup is a lost answer here, the line being written.
SaveLog(w, here, level, next, reply) ==
    /\ Await(w, here, next, reply)
    /\ Job(w) \in jobs
    /\ logs' = [logs EXCEPT ![exec[w]] = @ \cup {level}]
    /\ UNCHANGED <<jobs, active, status, finishedAt, result, clock, execRun,
                   queueVars, localVars, outVars>>

\* The update names the row only: whatever its status is, it is overwritten.
Mark(w, outcome) ==
    /\ Job(w) \in jobs
    /\ status' = [status EXCEPT ![exec[w]] = outcome]
    /\ finishedAt' = [finishedAt EXCEPT ![exec[w]] = clock + 1]
    /\ clock' = clock + 1
    /\ UNCHANGED <<jobs, active, result, logs, execRun,
                   queueVars, localVars, outVars>>

MarkDone(w, reply) ==
    Await(w, "markDone", "markActive", reply) /\ Mark(w, "DONE")

\* updateMany: no target to update is no error.
MarkTargetActive(w, reply) ==
    /\ Await(w, "markActive", "pushDone", reply)
    /\ active' = active \cup ({Job(w)} \cap jobs)
    /\ UNCHANGED <<jobs, status, finishedAt, result, logs, clock, execRun,
                   queueVars, localVars, outVars>>

\* getJobOwnerId, then the push in the same synchronous stretch.
PushDone(w) ==
    /\ Await(w, "pushDone", "compare", "ok")
    /\ Job(w) \in jobs
    /\ pushes' = [pushes EXCEPT ![exec[w]]["DONE"] = @ + 1]
    /\ UNCHANGED <<rowVars, queueVars, localVars, emits>>

IsLatest(S, e) == e \in S /\ \A f \in S \ {e} : finishedAt[f] < finishedAt[e]

\* Mutant: the two newest rows are taken whatever their status.
LatestTwoOfAnyStatusDiffer(j) ==
    \E e, p \in RowsOf(j) :
        /\ IsLatest(RowsOf(j), e)
        /\ IsLatest(RowsOf(j) \ {e}, p)
        /\ p # e
        /\ result[e] # result[p]

\* The two newest DONE rows of the job exist and their texts differ.  The
\* newest need not be the execution the worker has just completed.
LatestTwoDiffer(j) ==
    \E e, p \in DoneRows(j) :
        /\ IsLatest(DoneRows(j), e)
        /\ IsLatest(DoneRows(j) \ {e}, p)
        /\ p # e
        /\ result[e] # result[p]

Compare(w) ==
    /\ Await(w, "compare", "emitDone", "ok")
    /\ differs' = [differs EXCEPT ![w] = LatestTwoDiffer(Job(w))]
    /\ UNCHANGED <<rowVars, queueVars, run, exec, raw, outVars>>

\* Mutant: the event is awaited, so that a listener's error reaches the catch.
EmitDoneAwaited(w) ==
    /\ \E reply \in Replies : Await(w, "emitDone", "resolve", reply)
    /\ emits' = [emits EXCEPT
                   ![exec[w]]["DONE"] = @ + 1,
                   ![exec[w]]["DIFF"] = IF differs[w] THEN @ + 1 ELSE @]
    /\ UNCHANGED <<rowVars, queueVars, localVars, pushes>>

\* The stretch after the query: maybe EXECUTION_DIFF, then EXECUTION_DONE.
\* emit calls the listeners synchronously and they are async, so it cannot
\* throw; whatever happens to their promises is the notifications' affair.
EmitDone(w) ==
    /\ Await(w, "emitDone", "resolve", "ok")
    /\ emits' = [emits EXCEPT
                   ![exec[w]]["DONE"] = @ + 1,
                   ![exec[w]]["DIFF"] = IF differs[w] THEN @ + 1 ELSE @]
    /\ UNCHANGED <<rowVars, queueVars, localVars, pushes>>

-----------------------------------------------------------------------------
\* failExecution, and the end of process().

LogError(w, reply) == SaveLog(w, "logError", "ERROR", "markFailed", reply)
LogDone(w, reply)  == SaveLog(w, "logDone", "INFO", "markDone", reply)

MarkFailed(w, reply) ==
    Await(w, "markFailed", "reportFailed", reply) /\ Mark(w, "FAILED")

\* Mutants of ReportFailed: the event without the push; the processor does not
\* rethrow; the report is repeated by a caller that did not see it return.
ReportFailedQuietly(w) ==
    /\ Await(w, "reportFailed", "reject", "ok")
    /\ Job(w) \in jobs
    /\ emits' = [emits EXCEPT ![exec[w]]["FAILED"] = @ + 1]
    /\ UNCHANGED <<rowVars, queueVars, localVars, pushes>>
ReportFailedSwallowed(w) ==
    /\ Await(w, "reportFailed", "resolve", "ok")
    /\ Job(w) \in jobs
    /\ pushes' = [pushes EXCEPT ![exec[w]]["FAILED"] = @ + 1]
    /\ emits' = [emits EXCEPT ![exec[w]]["FAILED"] = @ + 1]
    /\ UNCHANGED <<rowVars, queueVars, localVars>>
ReportFailedRepeated(w) ==
    /\ \E next \in {"reject", "reportFailed"} : Await(w, "reportFailed", next, "ok")
    /\ Job(w) \in jobs
    /\ emits[exec[w]]["FAILED"] < 2
    /\ pushes' = [pushes EXCEPT ![exec[w]]["FAILED"] = @ + 1]
    /\ emits' = [emits EXCEPT ![exec[w]]["FAILED"] = @ + 1]
    /\ UNCHANGED <<rowVars, queueVars, localVars>>

\* getJobOwnerId, then push and event; the processor then rethrows.
ReportFailed(w) ==
    /\ Await(w, "reportFailed", "reject", "ok")
    /\ Job(w) \in jobs
    /\ pushes' = [pushes EXCEPT ![exec[w]]["FAILED"] = @ + 1]
    /\ emits' = [emits EXCEPT ![exec[w]]["FAILED"] = @ + 1]
    /\ UNCHANGED <<rowVars, queueVars, localVars>>

\* The worker forgets the run.
Forget(w) ==
    /\ pc' = [pc EXCEPT ![w] = "idle"]
    /\ run' = [run EXCEPT ![w] = None]
    /\ exec' = [exec EXCEPT ![w] = None]
    /\ raw' = [raw EXCEPT ![w] = None]
    /\ differs' = [differs EXCEPT ![w] = FALSE]

Release(w) == lock' = [r \in Runs |-> IF lock[r] = w THEN None ELSE lock[r]]

\* Mutant: a worker that lost the lock waits for it to come back.
SettleUnderLock(w) ==
    /\ pc[w] \in {"resolve", "reject"}
    /\ lock[run[w]] = w
    /\ runState' = [runState EXCEPT ![run[w]] =
                      IF pc[w] = "resolve" THEN "completed" ELSE "failed"]
    /\ Release(w)
    /\ Forget(w)
    /\ UNCHANGED <<rowVars, runJob, stalls, outVars, bounds>>

\* process() resolved or rejected.  BullMQ settles the run if the worker still
\* has its lock, without a retry: no producer sets attempts.
Settle(w) ==
    /\ pc[w] \in {"resolve", "reject"}
    /\ runState' = IF lock[run[w]] = w
                   THEN [runState EXCEPT ![run[w]] =
                           IF pc[w] = "resolve" THEN "completed" ELSE "failed"]
                   ELSE runState
    /\ Release(w)
    /\ Forget(w)
    /\ UNCHANGED <<rowVars, runJob, stalls, outVars, bounds>>

-----------------------------------------------------------------------------
\* What happens around the handler.

\* The process dies and is started again; the run keeps its place in Redis,
\* under a lock nobody will renew.
Die(w) ==
    /\ Release(w)
    /\ Forget(w)
    /\ UNCHANGED <<rowVars, runJob, runState, stalls, outVars, faults, expiries>>

Crash(w) ==
    /\ pc[w] # "idle" /\ crashes < MaxCrashes
    /\ crashes' = crashes + 1
    /\ Die(w)

\* The smart scraper calls onLog without awaiting it: when the row is gone the
\* log's promise rejects, nobody handles it, and Node ends the process.
UnhandledLog(w) ==
    /\ pc[w] \in {"scrape", "saveResult"}
    /\ Job(w) \in SmartJobs \ jobs
    /\ UNCHANGED crashes
    /\ Die(w)

\* The event loop was blocked for too long to renew the lock.
LockExpires(r) ==
    /\ lock[r] # None /\ expiries < MaxExpiries
    /\ expiries' = expiries + 1
    /\ lock' = [lock EXCEPT ![r] = None]
    /\ UNCHANGED <<rowVars, runJob, runState, stalls, pc, localVars, outVars,
                   faults, crashes>>

\* BullMQ's stalled check: an active run without a lock waits again, or fails
\* when it has stalled more often than maxStalledCount.
RecoverStalled(r) ==
    /\ runState[r] = "active" /\ lock[r] = None
    /\ stalls' = [stalls EXCEPT ![r] = @ + 1]
    /\ runState' = [runState EXCEPT ![r] =
                      IF stalls[r] < MaxStalled THEN "waiting" ELSE "failed"]
    /\ UNCHANGED <<rowVars, runJob, lock, pc, localVars, outVars, bounds>>

\* Any producer of runs: POST /jobs/:id/run, a once-job, a cron iteration.  A
\* scheduler can outlive its job, so the job need not exist.
Enqueue(r, j) ==
    /\ runState[r] = "absent"
    /\ runState' = [runState EXCEPT ![r] = "waiting"]
    /\ runJob' = [runJob EXCEPT ![r] = j]
    /\ UNCHANGED <<rowVars, lock, stalls, pc, localVars, outVars, bounds>>

\* The job's row goes, by itself or with its datapoint, target or user; the
\* database removes its executions, results and logs with it.
DeleteJob(j) ==
    /\ j \in jobs
    /\ jobs' = jobs \ {j}
    /\ active' = active \ {j}
    /\ status' = [e \in Execs |-> IF e \in RowsOf(j) THEN "deleted" ELSE status[e]]
    /\ finishedAt' = [e \in Execs |-> IF e \in RowsOf(j) THEN 0 ELSE finishedAt[e]]
    /\ result' = [e \in Execs |-> IF e \in RowsOf(j) THEN None ELSE result[e]]
    /\ logs' = [e \in Execs |-> IF e \in RowsOf(j) THEN {} ELSE logs[e]]
    /\ UNCHANGED <<clock, execRun, queueVars, pc, localVars, outVars, bounds>>

-----------------------------------------------------------------------------
\* What a busy worker does next, errors of the database included.
Work(w) ==
    \/ \E e \in Execs, reply \in Replies : InitExecution(w, e, reply)
    \/ FetchJobTarget(w)
    \/ \E t \in Texts : Scrape(w, t)
    \/ ScrapeFails(w)
    \/ \E reply \in Replies :
          \/ SaveResult(w, reply)
          \/ LogDone(w, reply)
          \/ MarkDone(w, reply)
          \/ MarkTargetActive(w, reply)
          \/ LogError(w, reply)
          \/ MarkFailed(w, reply)
    \/ PushDone(w)
    \/ Compare(w)
    \/ EmitDone(w)
    \/ ReportFailed(w)
    \/ QueryFails(w)
    \/ RowMissing(w)
    \/ Settle(w)

Disturb ==
    \/ \E w \in Workers : Crash(w) \/ UnhandledLog(w)
    \/ \E r \in Runs : LockExpires(r)

Users ==
    \/ \E r \in Runs, j \in Jobs : Enqueue(r, j)
    \/ \E j \in Jobs : DeleteJob(j)

\* Every run of the bounded supply has been used and has settled.
Quiescent ==
    /\ \A r \in Runs : runState[r] \in Settled
    /\ \A w \in Workers : pc[w] = "idle"
    /\ UNCHANGED vars

Next ==
    \/ \E w \in Workers : Work(w) \/ \E r \in Runs : Fetch(w, r)
    \/ \E r \in Runs : RecoverStalled(r)
    \/ Disturb
    \/ Users
    \/ Quiescent

Spec == Init /\ [][Next]_vars

\* A process that runs keeps answering and its awaits end; an idle worker
\* takes the next run; every worker repeats BullMQ's stalled check.
Fairness ==
    /\ \A w \in Workers : WF_vars(Work(w))
    /\ \A w \in Workers : WF_vars(\E r \in Runs : Fetch(w, r))
    /\ \A r \in Runs : WF_vars(RecoverStalled(r))

FairSpec == Spec /\ Fairness
-----------------------------------------------------------------------------
\* Properties.

\* No worker works for the row any more.
Unowned(e) == \A w \in Workers : exec[w] # e

\* The events of an execution agree with each other and with its row for as
\* long as the row exists: completeExecution and failExecution can both run
\* for one execution (an error after markDone sends it to the catch block),
\* yet at most one of execution.done and execution.failed is ever emitted, once,
\* execution.diff only with execution.done, and the row still says the same.
EventsTellTheTruth == \A e \in Execs :
    /\ emits[e]["DONE"] + emits[e]["FAILED"] <= 1
    /\ emits[e]["DIFF"] <= emits[e]["DONE"]
    /\ emits[e]["DONE"] > 0 => status[e] \in {"DONE", "deleted"}
    /\ emits[e]["FAILED"] > 0 => status[e] \in {"FAILED", "deleted"}

\* A row never claims more than was stored before it: DONE has the result and
\* its log line, FAILED has the error line that explains it, in spite of lost
\* answers and of crashes between saveResult, saveLog and the mark.
OutcomeHasEvidence == \A e \in Execs :
    /\ status[e] = "DONE" => result[e] # None /\ "INFO" \in logs[e]
    /\ status[e] = "FAILED" => "ERROR" \in logs[e]

\* The DONE rows of e's job that finished before it, and the last of them.
Before(e) == {p \in DoneRows(JobOf(e)) : finishedAt[p] < finishedAt[e]}
Changed(e) == \E p \in Before(e) :
    IsLatest(Before(e), p) /\ result[p] # result[e]

\* While one worker processes the queue, the verdict announced with an
\* execution is the right one: execution.diff accompanies execution.done
\* exactly when the text differs from the completed execution before it,
\* whatever failed, crashed or stalled in between (detectAndEmitDiff).
DiffVerdictCorrect == \A e \in Execs :
    status[e] = "DONE" /\ emits[e]["DONE"] > 0 =>
        (emits[e]["DIFF"] > 0 <=> Changed(e))

\* What the diff view of a job shows: the newest two results, whatever the
\* status of their executions.  One worker saves results in the order of the
\* executions' ids.
Saved(j)  == {e \in RowsOf(j) : result[e] # None}
InView(j) == {e \in Saved(j) : Cardinality({f \in Saved(j) : f > e}) < 2}

\* The view and the announced verdict agree, although the one goes by the date
\* of the results and the other by the end of the executions: unless one of
\* the two executions on view has failed or was given up, the view shows a
\* change exactly when execution.diff was emitted (findLatestTwo).
ViewAgreesWithDiff == \A e, p \in Execs :
    status[e] = "DONE" /\ emits[e]["DONE"] > 0 /\ status[p] = "DONE" /\ p < e
        => ({e, p} = InView(JobOf(e)) =>
                (emits[e]["DIFF"] > 0 <=> result[e] # result[p]))

\* A client that was told DONE of an execution that is then recorded as FAILED
\* is told so, unless the process dies or a second call fails on the way: the
\* push of line 81 comes before the queries that may still fail.
FalseDoneCorrected == \A e \in Execs :
    pushes[e]["DONE"] > 0 /\ status[e] = "FAILED" /\ Unowned(e) /\ crashes + faults <= 1
        => pushes[e]["FAILED"] > 0

\* BullMQ shows a run as completed only if an execution of it was announced
\* as done: the processor rethrows after failExecution, and a run that is
\* processed again after a stall settles by its own outcome.
CompletedRunWasDone == \A r \in Runs :
    runState[r] = "completed" =>
        \E e \in Execs : execRun[e] = r /\ emits[e]["DONE"] > 0

\* A row left RUNNING that no worker will close is the trace of a crash or of
\* a database error: scrape errors, deletions, stalls and expired locks never
\* leave one (the catch block of process closes it).
Stuck == {e \in Execs : status[e] = "RUNNING" /\ Unowned(e)}
StuckOnlyByFailure == Cardinality(Stuck) <= crashes + faults

\* An announced or failed outcome is final, and a saved result is never
\* replaced: markDone and markFailed update the row without looking at its
\* status, so only the order of the awaits keeps them from overwriting it.
OutcomeIsFinal == [][\A e \in Execs :
    /\ status[e] \in {"FAILED", "deleted"} \/ emits[e]["DONE"] > 0
          => status'[e] \in {status[e], "deleted"}
    /\ result[e] # None => result'[e] = result[e] \/ status'[e] = "deleted"]_vars

\* Listeners see every execution closed by at most one final word.
Phase(e) ==
    CASE emits[e]["DONE"] + emits[e]["FAILED"] > 0 -> "spoken"
      [] status[e] = "none"                        -> "unborn"
      [] emits[e]["DONE"] + emits[e]["FAILED"] = 0 /\ status[e] # "none" /\ Unowned(e)
                                                   -> "silent"
      [] OTHER                                     -> "open"

Report == INSTANCE ExecutionReport WITH
    phase <- [e \in Execs |-> Phase(e)],
    heard <- [e \in Execs |-> [o \in Outcomes |-> emits[e][o]]]

\* The processor implements ExecutionReport: no event after a final word, none
\* for an execution that was given up.
ReportsOnce == Report!Spec

\* Every run that waits is settled in the end, however often workers crash,
\* locks expire and queries fail within the bounds.
EveryRunSettles == \A r \in Runs :
    runState[r] = "waiting" ~> runState[r] \in Settled

\* README.md ("Diff Detection"): the latest extraction is compared with the
\* previous one to emit a change event.  Once no worker is at work on a completed
\* execution that changed something, the change has been announced, with it or
\* with a later execution.  One failed query does not lose it: the row that
\* was DONE becomes FAILED, and is compared with no more.  A second failure
\* would, and so would a crash: either leaves a row DONE that nobody has
\* announced.
NoChangeMissed ==
    crashes = 0 /\ faults <= 1 => \A e \in Execs :
        status[e] = "DONE" /\ Unowned(e) /\ Changed(e) =>
            \E f \in DoneRows(JobOf(e)) :
                finishedAt[f] >= finishedAt[e] /\ emits[f]["DIFF"] > 0
=============================================================================
