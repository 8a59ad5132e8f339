---------------------------- MODULE JobScheduling ----------------------------
(***************************************************************************)
(* How the jobs table and the BullMQ schedule are kept in step: the        *)
(* handlers of JobsService (src/jobs/jobs.service.ts), DatapointsService   *)
(* and TargetUrlsService that create, update and remove jobs, and the      *)
(* JobSchedulerService (src/jobs/job-scheduler.service.ts) they await.     *)
(*                                                                         *)
(* No transaction spans the database and Redis, so every await is a step   *)
(* and requests interleave at them.  A request's arrival and its first     *)
(* query are one step: before that query it has done nothing.  BullMQ is   *)
(* external: a job has at most one scheduler and one entry under its       *)
(* one-time key, and BullMQ ignores an add under a key it still holds.     *)
(***************************************************************************)
EXTENDS Naturals, FiniteSets

CONSTANTS
    Jobs,          \* ids of jobs, all of one datapoint
    Reqs,          \* slots for API requests in flight
    Patterns,      \* cron strings BullMQ accepts
    BadPatterns,   \* cron strings it rejects; the DTO lets any string pass
    Starts,        \* dates a scheduleStart can be
    None,          \* null
    Unborn, Gone,  \* no row yet, no row any more
    MaxCalls,      \* bound: requests served
    MaxFaults,     \* bound: calls that reject, or whose answer is lost
    MaxCascades,   \* bound: removals of the target URL or of the account
    MaxRuns        \* bound: runs of a job waiting in the queue

\* The columns of a job that scheduling depends on.
Row == [status : {"ACTIVE", "PAUSED"},
        cron   : Patterns \cup BadPatterns \cup {None},
        start  : Starts \cup {None}]

ASSUME SchedulingAssumption ==
    /\ Unborn # Gone
    /\ {None, Unborn, Gone} \cap Row = {}
    /\ None \notin Patterns \cup BadPatterns \cup Starts
    /\ Patterns \cap BadPatterns = {}
    /\ MaxCalls \in Nat /\ MaxFaults \in Nat /\ MaxCascades \in Nat
    /\ MaxRuns \in Nat

VARIABLES
    row,         \* each job's row, or Unborn or Gone
    datapoint,   \* whether the datapoint's row exists
    scheduler,   \* the pattern of each job's BullMQ scheduler, or None
    once,        \* the entry under the job's one-time key
    onceFor,     \* the scheduleStart that entry was added for
    runs,        \* runs under ids of their own that wait in the queue
    op,          \* what each request does
    job,         \* to which job
    pc,          \* the await it is at
    at,          \* the await of clearSchedule it is at, for each job
    prev, cur,   \* the row as it read it, and as it wrote it
    blame,       \* what has disturbed each job's schedule so far
    calls, faults, cascades   \* how much of each bound is used

tableVars == <<row, datapoint>>
queueVars == <<scheduler, once, onceFor, runs>>
reqVars   == <<op, job, pc, at, prev, cur>>
bounds    == <<calls, faults, cascades>>
vars      == <<tableVars, queueVars, reqVars, blame, bounds>>

Ops      == {"create", "update", "remove", "removeAll", "run"}
Causes   == {"overlap", "failed", "locked", "cascade"}
OnceKeys == {"none", "delayed", "waiting", "active", "finished"}

Live(j) == row[j] \notin {Unborn, Gone}

TypeOK ==
    /\ row \in [Jobs -> Row \cup {Unborn, Gone}]
    /\ datapoint \in BOOLEAN
    /\ scheduler \in [Jobs -> Patterns \cup {None}]
    /\ once \in [Jobs -> OnceKeys]
    /\ onceFor \in [Jobs -> Starts \cup {None}]
    /\ runs \in [Jobs -> 0..MaxRuns]
    /\ op \in [Reqs -> Ops \cup {None}]
    /\ job \in [Reqs -> Jobs \cup {None}]
    /\ pc \in [Reqs -> {"idle", "write", "clear", "now", "add"}]
    /\ at \in [Reqs -> [Jobs -> {"idle", "cron", "find", "drop"}]]
    /\ prev \in [Reqs -> Row \cup {None}]
    /\ cur \in [Reqs -> Row \cup {None}]
    /\ blame \in [Jobs -> SUBSET Causes]
    /\ calls \in 0..MaxCalls /\ faults \in 0..MaxFaults
    /\ cascades \in 0..MaxCascades

Init ==
    /\ row = [j \in Jobs |-> Unborn]
    /\ datapoint = TRUE
    /\ scheduler = [j \in Jobs |-> None]
    /\ once = [j \in Jobs |-> "none"]
    /\ onceFor = [j \in Jobs |-> None]
    /\ runs = [j \in Jobs |-> 0]
    /\ op = [r \in Reqs |-> None]
    /\ job = [r \in Reqs |-> None]
    /\ pc = [r \in Reqs |-> "idle"]
    /\ at = [r \in Reqs |-> [j \in Jobs |-> "idle"]]
    /\ prev = [r \in Reqs |-> None]
    /\ cur = [r \in Reqs |-> None]
    /\ blame = [j \in Jobs |-> {}]
    /\ calls = 0 /\ faults = 0 /\ cascades = 0
-----------------------------------------------------------------------------
\* Requests.

Clearing(r) == {j \in Jobs : at[r][j] # "idle"}
Free(r)     == pc[r] = "idle" /\ Clearing(r) = {}

\* A request that may still change the schedule or the row of j.
Touches(r, j) ==
    \/ j \in Clearing(r)
    \/ /\ pc[r] # "idle"
       /\ op[r] # "run"
       /\ op[r] = "removeAll" \/ job[r] = j

Blame(b, S, cause) == [j \in Jobs |-> IF j \in S THEN b[j] \cup {cause} ELSE b[j]]

Replies == {"ok", "lost"}

\* The await answers and the request goes on to next; or the call took effect
\* and its answer was lost, which ends the request in the middle of its work.
Answer(r, next, reply) ==
    /\ reply = "lost" => faults < MaxFaults
    /\ faults' = IF reply = "ok" THEN faults ELSE faults + 1
    /\ pc' = [pc EXCEPT ![r] = IF reply = "ok" THEN next ELSE "idle"]
    /\ UNCHANGED cascades

Blaming(S, reply) ==
    blame' = IF reply = "ok" THEN blame ELSE Blame(blame, S, "failed")

\* The jobs a request was meant to change, when it breaks off at job j.
Scope(r, j) == IF op[r] = "removeAll" THEN Jobs ELSE {j}

\* A request that arrives for the jobs S while another is at work on them.
Begin(r, o, S) ==
    /\ Free(r)
    /\ calls < MaxCalls
    /\ calls' = calls + 1
    /\ op' = [op EXCEPT ![r] = o]

Overlapping(S) == {j \in S : \E q \in Reqs : Touches(q, j)}

\* create: the datapoint must exist; status is not in the DTO and defaults to
\* ACTIVE, so scheduleOnCreate never returns early.
Insert(r, j, new, reply) ==
    /\ row[j] = Unborn /\ datapoint
    /\ new.status = "ACTIVE"
    /\ Begin(r, "create", {j})
    /\ Answer(r, "clear", reply)
    /\ row' = [row EXCEPT ![j] = new]
    /\ job' = [job EXCEPT ![r] = j]
    /\ cur' = [cur EXCEPT ![r] = new]
    /\ at' = [at EXCEPT ![r][j] = IF reply = "ok" THEN "cron" ELSE "idle"]
    /\ blame' = LET b == Blame(blame, Overlapping({j}), "overlap")
                IN  IF reply = "ok" THEN b ELSE Blame(b, {j}, "failed")
    /\ UNCHANGED <<datapoint, queueVars, prev>>

\* update, remove and enqueueRun begin by reading the job; one that is not
\* there ends the request with a 404.
Read(r, o, j, next) ==
    /\ Live(j)
    /\ Begin(r, o, {j})
    /\ Answer(r, next, "ok")
    /\ job' = [job EXCEPT ![r] = j]
    /\ prev' = [prev EXCEPT ![r] = IF o = "update" THEN row[j] ELSE None]
    /\ cur' = [cur EXCEPT ![r] = None]
    /\ at' = [at EXCEPT ![r][j] = IF next = "clear" THEN "cron" ELSE "idle"]
    /\ blame' = IF o = "run" THEN blame
                ELSE Blame(blame, Overlapping({j}), "overlap")
    /\ UNCHANGED <<tableVars, queueVars>>

BeginUpdate(r, j) == Read(r, "update", j, "write")
BeginRun(r, j)    == Read(r, "run", j, "add")

\* Mutant: remove deletes the row without clearing the schedule first.
BeginRemoveUncleared(r, j) ==
    /\ Live(j)
    /\ Begin(r, "remove", {j})
    /\ Answer(r, "clear", "ok")
    /\ job' = [job EXCEPT ![r] = j]
    /\ prev' = [prev EXCEPT ![r] = None]
    /\ cur' = [cur EXCEPT ![r] = None]
    /\ blame' = Blame(blame, Overlapping({j}), "overlap")
    /\ UNCHANGED <<tableVars, queueVars, at>>

BeginRemove(r, j) == Read(r, "remove", j, "clear")

\* DatapointsService.remove lists the jobs of the datapoint and starts
\* onJobDeleted for all of them at once.
BeginRemoveAll(r) ==
    /\ datapoint
    /\ Begin(r, "removeAll", Jobs)
    /\ Answer(r, "clear", "ok")
    /\ job' = [job EXCEPT ![r] = None]
    /\ prev' = [prev EXCEPT ![r] = None]
    /\ cur' = [cur EXCEPT ![r] = None]
    /\ at' = [at EXCEPT ![r] = [j \in Jobs |-> IF Live(j) THEN "cron" ELSE "idle"]]
    /\ blame' = Blame(blame, Overlapping(Jobs), "overlap")
    /\ UNCHANGED <<tableVars, queueVars>>

\* Mutants of Reschedules: a resumed job is not scheduled again; a paused one
\* keeps its schedule.
ReschedulesOnlyChanges(old, new) ==
    new.status = "PAUSED" \/ old.cron # new.cron \/ old.start # new.start
ReschedulesOnlyActive(old, new) ==
    new.status = "ACTIVE" /\ (old.status = "PAUSED" \/ old.cron # new.cron
                                                    \/ old.start # new.start)

\* rescheduleAfterJobUpdate: whether the schedule is touched at all.
Reschedules(old, new) ==
    \/ new.status = "PAUSED"
    \/ old.status = "PAUSED"
    \/ old.cron # new.cron
    \/ old.start # new.start

\* The columns the DTO names are overwritten and the others keep what the
\* table holds now, which may no longer be what this request has read.  A
\* scheduleStart of null is dropped by the DTO's transform.
Write(r, new, reply) ==
    /\ pc[r] = "write" /\ Live(job[r])
    /\ new.start = None => row[job[r]].start = None
    /\ LET again == Reschedules(prev[r], new) IN
       /\ Answer(r, IF again THEN "clear" ELSE "idle", reply)
       /\ at' = [at EXCEPT ![r][job[r]] =
                   IF again /\ reply = "ok" THEN "cron" ELSE "idle"]
    /\ row' = [row EXCEPT ![job[r]] = new]
    /\ cur' = [cur EXCEPT ![r] = new]
    /\ Blaming({job[r]}, reply)
    /\ UNCHANGED <<datapoint, queueVars, op, job, prev, calls>>

-----------------------------------------------------------------------------
\* clearSchedule, once for each job that request r clears.

Step(r, j, here, next) ==
    at[r][j] = here /\ at' = [at EXCEPT ![r][j] = next]

\* Mutant: clearSchedule removes the cron scheduler only.
RemoveCronSchedulerOnly(r, j, reply) ==
    /\ Step(r, j, "cron", "idle")
    /\ Answer(r, pc[r], reply)
    /\ scheduler' = [scheduler EXCEPT ![j] = None]
    /\ Blaming(Scope(r, j), reply)
    /\ UNCHANGED <<tableVars, once, onceFor, runs, op, job, prev, cur, calls>>

\* removeJobScheduler also drops the next iteration, delayed under its own key;
\* an iteration that waits already stays.
RemoveCronScheduler(r, j, reply) ==
    /\ Step(r, j, "cron", IF reply = "ok" THEN "find" ELSE "idle")
    /\ Answer(r, pc[r], reply)
    /\ scheduler' = [scheduler EXCEPT ![j] = None]
    /\ Blaming(Scope(r, j), reply)
    /\ UNCHANGED <<tableVars, once, onceFor, runs, op, job, prev, cur, calls>>

FindOnce(r, j) ==
    /\ Step(r, j, "find", IF once[j] = "none" THEN "idle" ELSE "drop")
    /\ UNCHANGED <<tableVars, queueVars, op, job, pc, prev, cur, blame, bounds>>

\* remove() throws for an entry a worker holds, and the catch only warns.
RemoveOnce(r, j) ==
    /\ Step(r, j, "drop", "idle")
    /\ IF once[j] = "active"
       THEN /\ blame' = Blame(blame, {j}, "locked")
            /\ UNCHANGED <<once, onceFor>>
       ELSE /\ once' = [once EXCEPT ![j] = "none"]
            /\ onceFor' = [onceFor EXCEPT ![j] = None]
            /\ UNCHANGED blame
    /\ UNCHANGED <<tableVars, scheduler, runs, op, job, pc, prev, cur, bounds>>

\* Any other error of remove() is swallowed by the same catch block.
RemoveOnceFails(r, j) ==
    /\ Step(r, j, "drop", "idle")
    /\ faults < MaxFaults
    /\ faults' = faults + 1
    /\ blame' = Blame(blame, {j}, "failed")
    /\ UNCHANGED <<tableVars, queueVars, op, job, pc, prev, cur, calls, cascades>>

\* The first two calls of clearSchedule reject.  Of the jobs that removeAll
\* clears, Promise.all gives up at the first rejection and leaves the others
\* running.
ClearFails(r, j) ==
    /\ at[r][j] \in {"cron", "find"}
    /\ at' = [at EXCEPT ![r][j] = "idle"]
    /\ Answer(r, "idle", "lost")
    /\ Blaming(Scope(r, j), "lost")
    /\ UNCHANGED <<tableVars, queueVars, op, job, prev, cur, calls>>

Cleared(r) == pc[r] = "clear" /\ Clearing(r) = {}
Schedules(r) == Cleared(r) /\ cur[r] # None /\ cur[r].status = "ACTIVE"

-----------------------------------------------------------------------------
\* The rest of updateJobSchedule.

\* Mutant: the pattern is not parsed before it is stored.
RegisterCronUnchecked(r, reply) ==
    /\ Schedules(r) /\ cur[r].cron # None
    /\ Answer(r, IF op[r] = "create" /\ cur[r].start = None THEN "now" ELSE "idle",
              reply)
    /\ scheduler' = [scheduler EXCEPT ![job[r]] = cur[r].cron]
    /\ Blaming({job[r]}, reply)
    /\ UNCHANGED <<tableVars, once, onceFor, runs, op, job, at, prev, cur, calls>>

\* The pattern is the one this request has written.  A first run is enqueued
\* on creation only, and only if no scheduleStart is given.
RegisterCron(r, reply) ==
    /\ Schedules(r) /\ cur[r].cron \in Patterns
    /\ Answer(r, IF op[r] = "create" /\ cur[r].start = None THEN "now" ELSE "idle",
              reply)
    /\ scheduler' = [scheduler EXCEPT ![job[r]] = cur[r].cron]
    /\ Blaming({job[r]}, reply)
    /\ UNCHANGED <<tableVars, once, onceFor, runs, op, job, at, prev, cur, calls>>

\* BullMQ parses the pattern first and throws; the row keeps it.
RejectCron(r) ==
    /\ Schedules(r) /\ cur[r].cron \in BadPatterns
    /\ Answer(r, "idle", "ok")
    /\ UNCHANGED <<tableVars, queueVars, op, job, at, prev, cur, blame, calls>>

\* enqueueOnce: ignored if the key is still taken, in whatever state.
EnqueueOnce(r, reply) ==
    /\ Schedules(r) /\ cur[r].cron = None
    /\ Answer(r, "idle", reply)
    /\ IF once[job[r]] = "none"
       THEN /\ once' = [once EXCEPT ![job[r]] = "delayed"]
            /\ onceFor' = [onceFor EXCEPT ![job[r]] = cur[r].start]
       ELSE UNCHANGED <<once, onceFor>>
    /\ Blaming({job[r]}, reply)
    /\ UNCHANGED <<tableVars, scheduler, runs, op, job, at, prev, cur, calls>>

\* enqueueImmediate and enqueueRun.
AddRun(r, reply) ==
    /\ pc[r] \in {"now", "add"}
    /\ runs[job[r]] < MaxRuns
    /\ Answer(r, "idle", reply)
    /\ runs' = [runs EXCEPT ![job[r]] = @ + 1]
    /\ Blaming({job[r]}, reply)
    /\ UNCHANGED <<tableVars, scheduler, once, onceFor, op, job, at, prev, cur, calls>>

\* rescheduleAfterJobUpdate of a paused job ends with clearSchedule.
StayPaused(r) ==
    /\ Cleared(r) /\ cur[r] # None /\ cur[r].status = "PAUSED"
    /\ Answer(r, "idle", "ok")
    /\ UNCHANGED <<tableVars, queueVars, op, job, at, prev, cur, blame, calls>>

-----------------------------------------------------------------------------
\* Removals, the errors of the other awaits, and the outside.

DeleteRow(r, reply) ==
    /\ Cleared(r) /\ op[r] = "remove" /\ Live(job[r])
    /\ Answer(r, "idle", reply)
    /\ row' = [row EXCEPT ![job[r]] = Gone]
    /\ Blaming({job[r]}, reply)
    /\ UNCHANGED <<datapoint, queueVars, op, job, at, prev, cur, calls>>

Emptied == [j \in Jobs |-> IF Live(j) THEN Gone ELSE row[j]]

\* The datapoint's jobs go with it, those created since the list included.
DeleteDatapoint(r, reply) ==
    /\ Cleared(r) /\ op[r] = "removeAll" /\ datapoint
    /\ Answer(r, "idle", reply)
    /\ datapoint' = FALSE
    /\ row' = Emptied
    /\ Blaming(Jobs, reply)
    /\ UNCHANGED <<queueVars, op, job, at, prev, cur, calls>>

\* An update or a deletion finds no row and throws.
RowMissing(r) ==
    /\ \/ pc[r] = "write" /\ ~Live(job[r])
       \/ Cleared(r) /\ op[r] = "remove" /\ ~Live(job[r])
       \/ Cleared(r) /\ op[r] = "removeAll" /\ ~datapoint
    /\ Answer(r, "idle", "ok")
    /\ UNCHANGED <<tableVars, queueVars, op, job, at, prev, cur, blame, calls>>

\* Any await outside clearSchedule rejects without effect.
CallFails(r) ==
    /\ pc[r] \in {"write", "now", "add"} \/ Cleared(r)
    /\ Answer(r, "idle", "lost")
    /\ Blaming(Scope(r, job[r]), "lost")
    /\ UNCHANGED <<tableVars, queueVars, op, job, at, prev, cur, calls>>

\* TargetUrlsService.remove and UsersService.deleteAccount: one query whose
\* cascade takes the datapoint and its jobs.
Cascade ==
    /\ datapoint /\ cascades < MaxCascades
    /\ cascades' = cascades + 1
    /\ datapoint' = FALSE
    /\ row' = Emptied
    /\ blame' = Blame(blame, Jobs, "cascade")
    /\ UNCHANGED <<queueVars, reqVars, calls, faults>>

\* A scheduler puts its next run into the queue; a worker takes one out.
CronFires(j) ==
    /\ scheduler[j] # None /\ runs[j] < MaxRuns
    /\ runs' = [runs EXCEPT ![j] = @ + 1]
    /\ UNCHANGED <<tableVars, scheduler, once, onceFor, reqVars, blame, bounds>>

TakeRun(j) ==
    /\ runs[j] > 0
    /\ runs' = [runs EXCEPT ![j] = @ - 1]
    /\ UNCHANGED <<tableVars, scheduler, once, onceFor, reqVars, blame, bounds>>

\* The one-time entry comes due, is processed and, having settled, is kept;
\* a stalled one is queued again.
OnceMoves(j, from, to) ==
    /\ once[j] = from
    /\ once' = [once EXCEPT ![j] = to]
    /\ UNCHANGED <<tableVars, scheduler, onceFor, runs, reqVars, blame, bounds>>
OnceAdvances(j) ==
    \/ OnceMoves(j, "delayed", "waiting")
    \/ OnceMoves(j, "waiting", "active")
    \/ OnceMoves(j, "active", "finished")
    \/ OnceMoves(j, "active", "waiting")

-----------------------------------------------------------------------------
Arrive(r) ==
    \/ \E j \in Jobs, new \in Row, reply \in Replies : Insert(r, j, new, reply)
    \/ \E j \in Jobs : BeginUpdate(r, j) \/ BeginRemove(r, j) \/ BeginRun(r, j)
    \/ BeginRemoveAll(r)

Clear(r) == \E j \in Jobs :
    \/ \E reply \in Replies : RemoveCronScheduler(r, j, reply)
    \/ FindOnce(r, j)
    \/ RemoveOnce(r, j)
    \/ RemoveOnceFails(r, j)
    \/ ClearFails(r, j)

Proceed(r) ==
    \/ \E reply \in Replies :
          \/ \E new \in Row : Write(r, new, reply)
          \/ RegisterCron(r, reply)
          \/ EnqueueOnce(r, reply)
          \/ AddRun(r, reply)
          \/ DeleteRow(r, reply)
          \/ DeleteDatapoint(r, reply)
    \/ RejectCron(r)
    \/ StayPaused(r)
    \/ RowMissing(r)
    \/ CallFails(r)

\* No request is in flight and none arrives.
Quiescent == (\A r \in Reqs : Free(r)) /\ UNCHANGED vars

Next ==
    \/ \E r \in Reqs : Arrive(r) \/ Clear(r) \/ Proceed(r)
    \/ Cascade
    \/ \E j \in Jobs : CronFires(j) \/ TakeRun(j) \/ OnceAdvances(j)
    \/ Quiescent

Spec == Init /\ [][Next]_vars
-----------------------------------------------------------------------------
\* Properties.

\* No request is at work on the job, and none of these causes has disturbed it.
Settled(j) == \A r \in Reqs : ~Touches(r, j)
Undisturbed(j, causes) == Settled(j) /\ blame[j] \cap causes = {}

\* Through any sequence of creations, updates, pauses and resumptions, each
\* cut into awaits, a job that no overlapping request and no failed call has
\* touched has the scheduler its row asks for: the row's own pattern while it
\* is active, none while it is paused, has no pattern or a rejected one.
\* Removals of the target or account and a locked one-time entry cannot upset
\* it (JobSchedulerService, with JobsService.create and update).
CronFollowsRow == \A j \in Jobs :
    Live(j) /\ Undisturbed(j, {"overlap", "failed"}) =>
        scheduler[j] = IF row[j].status = "ACTIVE" /\ row[j].cron \in Patterns
                       THEN row[j].cron ELSE None

\* The same for the one-time entry: it is there, for the row's scheduleStart,
\* exactly while the job is active without a pattern, provided clearSchedule
\* never met it while a worker held it.
OnceFollowsRow == \A j \in Jobs :
    Live(j) /\ Undisturbed(j, {"overlap", "failed", "locked"}) =>
        IF row[j].status = "ACTIVE" /\ row[j].cron = None
        THEN once[j] # "none" /\ onceFor[j] = row[j].start
        ELSE once[j] = "none"

\* A job that is gone leaves no scheduler behind unless another request was at
\* work on it or its target or account was removed: a failed call never
\* leaves its scheduler, because both removals clear the schedule before they
\* delete the row and Promise.all lets no rejection pass.  It may leave the
\* one-time entry: a remove() that fails or is refused is logged, no more.
OrphansExplained == \A j \in Jobs :
    row[j] = Gone /\ Undisturbed(j, {"overlap", "cascade"}) =>
        /\ scheduler[j] = None
        /\ blame[j] \cap {"failed", "locked"} = {} => once[j] = "none"

\* While a job is paused and undisturbed, nothing but a manual run puts a run
\* of it into the queue: neither a scheduler nor a one-time entry left behind.
Manual(j) == \E r \in Reqs : pc[r] = "add" /\ pc'[r] = "idle" /\ job[r] = j
PausedStaysQuiet == [][\A j \in Jobs :
    /\ Live(j) /\ row[j].status = "PAUSED"
    /\ Undisturbed(j, {"overlap", "failed", "locked"})
    => /\ runs'[j] > runs[j] => Manual(j)
       /\ once'[j] # "waiting"]_vars

\* job-scheduler.service.ts logs that a deleted job's cron scheduler is
\* removed: no scheduler outlives its job.
NoOrphan == \A j \in Jobs : row[j] = Gone /\ Settled(j) => scheduler[j] = None

\* jobs.service.spec.ts ("reschedules a job after update"): after an update
\* the job's one-time entry is the one its row asks for.
UpdateReschedulesOnce == \A j \in Jobs :
    /\ Live(j) /\ Settled(j)
    /\ row[j].status = "ACTIVE" /\ row[j].cron = None
    => onceFor[j] = row[j].start
=============================================================================
