------------------------ MODULE JobScheduling_proofs ------------------------
(***************************************************************************)
(* Proofs about JobScheduling, for any number of jobs and requests and any *)
(* bounds: the types, that the scheduler and the one-time entry of an      *)
(* undisturbed job are those its row asks for, what can leave a schedule   *)
(* without a job, and that a paused job is not run by its schedule.        *)
(*                                                                         *)
(* The inductive invariant is stated job by job.  While nothing has        *)
(* overlapped or failed on a job, at most one request is at work on it,    *)
(* and what that request still has to do (Duty) is what separates the      *)
(* scheduler from the row.                                                 *)
(***************************************************************************)
EXTENDS JobScheduling, TLAPS

Wanted(j) == IF row[j].status = "ACTIVE" /\ row[j].cron \in Patterns
             THEN row[j].cron ELSE None
InStep(j) == scheduler[j] = Wanted(j)
Clean(j)  == blame[j] \cap {"overlap", "failed"} = {}

\* Once the datapoint is gone none of its jobs is left or will come.
NoOrphanRow == ~datapoint => \A j \in Jobs : ~Live(j)

\* Where a request is decides which operation it is and what it carries.
ReqOK(r) ==
    /\ pc[r] = "write" => op[r] = "update" /\ prev[r] \in Row
    /\ pc[r] = "now" => op[r] = "create"
    /\ pc[r] = "add" => op[r] = "run"
    /\ pc[r] = "clear" =>
          /\ op[r] \in {"create", "update", "remove", "removeAll"}
          /\ op[r] \in {"create", "update"} => cur[r] \in Row
          /\ op[r] \in {"remove", "removeAll"} => cur[r] = None
    /\ pc[r] # "idle" /\ op[r] # "removeAll" => job[r] \in Jobs
    /\ op[r] = "removeAll" => pc[r] \in {"clear", "idle"}
    /\ \A j \in Jobs : at[r][j] # "idle" =>
          op[r] = "removeAll" \/ (pc[r] = "clear" /\ job[r] = j)

\* What a request at work on job j has established, and has yet to establish.
Duty(r, j) ==
    /\ pc[r] \in {"write", "now"} => InStep(j)
    /\ pc[r] = "write" => prev[r] = row[j]
    /\ pc[r] = "clear" /\ op[r] \in {"create", "update"} =>
          cur[r] = row[j] /\ (at[r][j] # "cron" => scheduler[j] = None)

\* Without an overlap one request at most is at work on the job; what a
\* rejected Promise.all leaves running has been put down as a failure.
Sole(j) == "overlap" \notin blame[j] =>
    \A q, r \in Reqs : Touches(q, j) /\ Touches(r, j) => q = r
LeftRunning(r, j) == pc[r] = "idle" /\ at[r][j] # "idle" => "failed" \in blame[j]

JobOK(j) ==
    /\ Sole(j)
    /\ \A r \in Reqs : LeftRunning(r, j)
    /\ Live(j) /\ Clean(j) =>
          /\ Settled(j) => InStep(j)
          /\ \A r \in Reqs : Touches(r, j) => Duty(r, j)

IInv ==
    /\ TypeOK
    /\ NoOrphanRow
    /\ \A r \in Reqs : ReqOK(r)
    /\ \A j \in Jobs : JobOK(j)

-----------------------------------------------------------------------------
\* Updating a function at one point, or a table at one cell, keeps its type.
LEMMA Update ==
    ASSUME NEW S, NEW T, NEW f \in [S -> T], NEW x, NEW v \in T
    PROVE  [f EXCEPT ![x] = v] \in [S -> T]
  OBVIOUS

LEMMA UpdateCell ==
    ASSUME NEW R, NEW S, NEW T, NEW f \in [R -> [S -> T]], NEW x \in R,
           NEW y, NEW v \in T
    PROVE  [f EXCEPT ![x][y] = v] \in [R -> [S -> T]]
<1>1. [f[x] EXCEPT ![y] = v] \in [S -> T]
  BY Update
<1> QED BY <1>1

\* Adding a cause keeps the types of blame and takes no cause away.
LEMMA BlameTyped ==
    ASSUME NEW b \in [Jobs -> SUBSET Causes], NEW S, NEW c \in Causes
    PROVE  /\ Blame(b, S, c) \in [Jobs -> SUBSET Causes]
           /\ \A j \in Jobs : /\ b[j] \subseteq Blame(b, S, c)[j]
                              /\ j \in S => c \in Blame(b, S, c)[j]
                              /\ Blame(b, S, c)[j] \subseteq b[j] \cup {c}
  BY DEF Blame

\* An answered await leaves every request at a known place.
LEMMA AnswerTyped ==
    ASSUME TypeOK, NEW r \in Reqs, NEW reply \in Replies,
           NEW next \in {"idle", "write", "clear", "now", "add"},
           Answer(r, next, reply)
    PROVE  /\ pc' \in [Reqs -> {"idle", "write", "clear", "now", "add"}]
           /\ faults' \in 0..MaxFaults
           /\ cascades' \in 0..MaxCascades
  BY SchedulingAssumption DEF TypeOK, Answer, Replies

\* Whatever a request is blamed for, it only adds to what was there.
LEMMA BlamingTyped ==
    ASSUME TypeOK, NEW S, NEW reply \in Replies, Blaming(S, reply)
    PROVE  /\ blame' \in [Jobs -> SUBSET Causes]
           /\ \A j \in Jobs : blame[j] \subseteq blame'[j]
           /\ reply = "lost" => \A j \in Jobs \cap S : "failed" \in blame'[j]
           /\ reply = "ok" => blame' = blame
  BY BlameTyped DEF TypeOK, Blaming, Causes, Replies

\* The first steps of requests keep the types.
LEMMA ArriveTyped ==
    ASSUME TypeOK, NEW r \in Reqs, Arrive(r)
    PROVE  TypeOK'
<1> USE DEF Ops, Causes
<1> /\ "ok" \in Replies /\ "lost" \in Replies
  BY DEF Replies
<1>1. ASSUME NEW j \in Jobs, NEW new \in Row, NEW reply \in Replies,
             Insert(r, j, new, reply)
      PROVE  TypeOK'
  <2>1. /\ pc' \in [Reqs -> {"idle", "write", "clear", "now", "add"}]
        /\ faults' \in 0..MaxFaults /\ cascades' \in 0..MaxCascades
    BY <1>1, AnswerTyped DEF Insert
  <2>2. blame' \in [Jobs -> SUBSET Causes]
    <3> DEFINE b == Blame(blame, Overlapping({j}), "overlap")
    <3>1. b \in [Jobs -> SUBSET Causes]
      BY BlameTyped DEF TypeOK
    <3>2. Blame(b, {j}, "failed") \in [Jobs -> SUBSET Causes]
      BY <3>1, BlameTyped
    <3> QED BY <1>1, <3>1, <3>2 DEF Insert
  <2>3. at' \in [Reqs -> [Jobs -> {"idle", "cron", "find", "drop"}]]
    BY <1>1, UpdateCell DEF Insert, TypeOK
  <2>4. calls' \in 0..MaxCalls /\ op' \in [Reqs -> Ops \cup {None}]
    BY <1>1, SchedulingAssumption DEF Insert, Begin, TypeOK
  <2> QED BY <1>1, <2>1, <2>2, <2>3, <2>4 DEF Insert, TypeOK, queueVars
<1>2. ASSUME NEW o \in Ops, NEW j \in Jobs, NEW next \in {"write", "clear", "add"},
             Read(r, o, j, next)
      PROVE  TypeOK'
  <2>1. /\ pc' \in [Reqs -> {"idle", "write", "clear", "now", "add"}]
        /\ faults' \in 0..MaxFaults /\ cascades' \in 0..MaxCascades
    BY <1>2, AnswerTyped DEF Read
  <2>2. blame' \in [Jobs -> SUBSET Causes]
    BY <1>2, BlameTyped DEF Read, TypeOK
  <2>3. at' \in [Reqs -> [Jobs -> {"idle", "cron", "find", "drop"}]]
    BY <1>2, UpdateCell DEF Read, TypeOK
  <2>4. calls' \in 0..MaxCalls /\ op' \in [Reqs -> Ops \cup {None}]
    BY <1>2, SchedulingAssumption DEF Read, Begin, TypeOK
  <2>5. prev' \in [Reqs -> Row \cup {None}]
    BY <1>2 DEF Read, TypeOK, Live
  <2> QED BY <1>2, <2>1, <2>2, <2>3, <2>4, <2>5
          DEF Read, TypeOK, queueVars, tableVars
<1>3. ASSUME BeginRemoveAll(r)
      PROVE  TypeOK'
  <2>1. /\ pc' \in [Reqs -> {"idle", "write", "clear", "now", "add"}]
        /\ faults' \in 0..MaxFaults /\ cascades' \in 0..MaxCascades
    BY <1>3, AnswerTyped DEF BeginRemoveAll
  <2>2. blame' \in [Jobs -> SUBSET Causes]
    BY <1>3, BlameTyped DEF BeginRemoveAll, TypeOK
  <2>3. at' \in [Reqs -> [Jobs -> {"idle", "cron", "find", "drop"}]]
    BY <1>3 DEF BeginRemoveAll, TypeOK
  <2>4. calls' \in 0..MaxCalls /\ op' \in [Reqs -> Ops \cup {None}]
    BY <1>3, SchedulingAssumption DEF BeginRemoveAll, Begin, TypeOK
  <2> QED BY <1>3, <2>1, <2>2, <2>3, <2>4
          DEF BeginRemoveAll, TypeOK, queueVars, tableVars
<1> QED BY <1>1, <1>2, <1>3 DEF Arrive, BeginUpdate, BeginRemove, BeginRun

\* So do the steps of clearSchedule.
LEMMA ClearTyped ==
    ASSUME TypeOK, NEW r \in Reqs, Clear(r)
    PROVE  TypeOK'
<1> USE DEF Causes
<1> "ok" \in Replies /\ "lost" \in Replies
  BY DEF Replies
<1> pc[r] \in {"idle", "write", "clear", "now", "add"}
  BY DEF TypeOK
<1>1. ASSUME NEW j \in Jobs, NEW reply \in Replies, RemoveCronScheduler(r, j, reply)
      PROVE  TypeOK'
  <2>1. /\ pc' \in [Reqs -> {"idle", "write", "clear", "now", "add"}]
        /\ faults' \in 0..MaxFaults /\ cascades' \in 0..MaxCascades
    BY <1>1, AnswerTyped DEF RemoveCronScheduler
  <2>2. blame' \in [Jobs -> SUBSET Causes]
    BY <1>1, BlamingTyped DEF RemoveCronScheduler
  <2>3. at' \in [Reqs -> [Jobs -> {"idle", "cron", "find", "drop"}]]
    BY <1>1, UpdateCell DEF RemoveCronScheduler, Step, TypeOK
  <2> QED BY <1>1, <2>1, <2>2, <2>3 DEF RemoveCronScheduler, TypeOK, tableVars
<1>2. ASSUME NEW j \in Jobs, FindOnce(r, j)
      PROVE  TypeOK'
  <2>1. at' \in [Reqs -> [Jobs -> {"idle", "cron", "find", "drop"}]]
    BY <1>2, UpdateCell DEF FindOnce, Step, TypeOK
  <2> QED BY <1>2, <2>1 DEF FindOnce, TypeOK, tableVars, queueVars, bounds
<1>3. ASSUME NEW j \in Jobs, RemoveOnce(r, j)
      PROVE  TypeOK'
  <2>1. at' \in [Reqs -> [Jobs -> {"idle", "cron", "find", "drop"}]]
    BY <1>3, UpdateCell DEF RemoveOnce, Step, TypeOK
  <2>2. blame' \in [Jobs -> SUBSET Causes]
    BY <1>3, BlameTyped DEF RemoveOnce, TypeOK
  <2>3. /\ once' \in [Jobs -> OnceKeys]
        /\ onceFor' \in [Jobs -> Starts \cup {None}]
    BY <1>3 DEF RemoveOnce, TypeOK, OnceKeys
  <2> QED BY <1>3, <2>1, <2>2, <2>3 DEF RemoveOnce, TypeOK, tableVars, bounds
<1>4. ASSUME NEW j \in Jobs, RemoveOnceFails(r, j)
      PROVE  TypeOK'
  <2>1. at' \in [Reqs -> [Jobs -> {"idle", "cron", "find", "drop"}]]
    BY <1>4, UpdateCell DEF RemoveOnceFails, Step, TypeOK
  <2>2. blame' \in [Jobs -> SUBSET Causes]
    BY <1>4, BlameTyped DEF RemoveOnceFails, TypeOK
  <2>3. faults' \in 0..MaxFaults
    BY <1>4, SchedulingAssumption DEF RemoveOnceFails, TypeOK
  <2> QED BY <1>4, <2>1, <2>2, <2>3 DEF RemoveOnceFails, TypeOK, tableVars, queueVars
<1>5. ASSUME NEW j \in Jobs, ClearFails(r, j)
      PROVE  TypeOK'
  <2>1. /\ pc' \in [Reqs -> {"idle", "write", "clear", "now", "add"}]
        /\ faults' \in 0..MaxFaults /\ cascades' \in 0..MaxCascades
    BY <1>5, AnswerTyped DEF ClearFails
  <2>2. blame' \in [Jobs -> SUBSET Causes]
    BY <1>5, BlamingTyped DEF ClearFails
  <2>3. at' \in [Reqs -> [Jobs -> {"idle", "cron", "find", "drop"}]]
    BY <1>5, UpdateCell DEF ClearFails, TypeOK
  <2> QED BY <1>5, <2>1, <2>2, <2>3 DEF ClearFails, TypeOK, tableVars, queueVars
<1> QED BY <1>1, <1>2, <1>3, <1>4, <1>5 DEF Clear

\* And the rest of a request.
LEMMA ProceedTyped ==
    ASSUME TypeOK, NEW r \in Reqs, Proceed(r)
    PROVE  TypeOK'
<1> USE DEF Causes
<1> "ok" \in Replies /\ "lost" \in Replies
  BY DEF Replies
<1> DEFINE AnswerOK == /\ pc' \in [Reqs -> {"idle", "write", "clear", "now", "add"}]
                       /\ faults' \in 0..MaxFaults /\ cascades' \in 0..MaxCascades
<1> DEFINE BlameOK == blame' \in [Jobs -> SUBSET Causes]
<1>1. ASSUME NEW new \in Row, NEW reply \in Replies, Write(r, new, reply)
      PROVE  TypeOK'
  <2>1. AnswerOK
    BY <1>1, AnswerTyped DEF Write
  <2>2. BlameOK
    BY <1>1, BlamingTyped DEF Write
  <2>3. at' \in [Reqs -> [Jobs -> {"idle", "cron", "find", "drop"}]]
    <3>1. PICK v \in {"idle", "cron"} : at' = [at EXCEPT ![r][job[r]] = v]
      BY <1>1 DEF Write
    <3> QED BY <3>1, UpdateCell DEF TypeOK
  <2>4. /\ row' \in [Jobs -> Row \cup {Unborn, Gone}]
        /\ cur' \in [Reqs -> Row \cup {None}]
    BY <1>1, Update DEF Write, TypeOK
  <2> QED BY <1>1, <2>1, <2>2, <2>3, <2>4 DEF Write, TypeOK, queueVars
<1>2. ASSUME NEW reply \in Replies, RegisterCron(r, reply)
      PROVE  TypeOK'
  <2>1. AnswerOK
    BY <1>2, AnswerTyped DEF RegisterCron
  <2>2. BlameOK
    BY <1>2, BlamingTyped DEF RegisterCron
  <2>3. scheduler' \in [Jobs -> Patterns \cup {None}]
    <3>1. cur[r].cron \in Patterns \cup {None}
      BY <1>2 DEF RegisterCron
    <3>2. scheduler' = [scheduler EXCEPT ![job[r]] = cur[r].cron]
      BY <1>2 DEF RegisterCron
    <3> QED BY <3>1, <3>2, Update DEF TypeOK
  <2> QED BY <1>2, <2>1, <2>2, <2>3 DEF RegisterCron, TypeOK, tableVars
<1>3. ASSUME NEW reply \in Replies, EnqueueOnce(r, reply)
      PROVE  TypeOK'
  <2>1. AnswerOK
    BY <1>3, AnswerTyped DEF EnqueueOnce
  <2>2. BlameOK
    BY <1>3, BlamingTyped DEF EnqueueOnce
  <2>3. cur[r].start \in Starts \cup {None}
    BY <1>3 DEF EnqueueOnce, Schedules, TypeOK, Row
  <2>4. /\ once' \in [Jobs -> OnceKeys]
        /\ onceFor' \in [Jobs -> Starts \cup {None}]
    BY <1>3, <2>3, Update DEF EnqueueOnce, TypeOK, OnceKeys
  <2> QED BY <1>3, <2>1, <2>2, <2>4 DEF EnqueueOnce, TypeOK, tableVars
<1>4. ASSUME NEW reply \in Replies, AddRun(r, reply)
      PROVE  TypeOK'
  <2>1. AnswerOK
    BY <1>4, AnswerTyped DEF AddRun
  <2>2. BlameOK
    BY <1>4, BlamingTyped DEF AddRun
  <2>3. runs' \in [Jobs -> 0..MaxRuns]
    <3>1. runs' = [runs EXCEPT ![job[r]] = runs[job[r]] + 1] /\ runs[job[r]] < MaxRuns
      BY <1>4 DEF AddRun
    <3>2. CASE job[r] \in Jobs
      <4>1. runs[job[r]] + 1 \in 0..MaxRuns
        BY <3>1, <3>2, SchedulingAssumption DEF TypeOK
      <4> QED BY <3>1, <4>1, Update DEF TypeOK
    <3>3. CASE job[r] \notin Jobs
      BY <3>1, <3>3 DEF TypeOK
    <3> QED BY <3>2, <3>3
  <2> QED BY <1>4, <2>1, <2>2, <2>3 DEF AddRun, TypeOK, tableVars
<1>5. ASSUME NEW reply \in Replies, DeleteRow(r, reply)
      PROVE  TypeOK'
  <2>1. AnswerOK
    BY <1>5, AnswerTyped DEF DeleteRow
  <2>2. BlameOK
    BY <1>5, BlamingTyped DEF DeleteRow
  <2> QED BY <1>5, <2>1, <2>2 DEF DeleteRow, TypeOK, queueVars
<1>6. ASSUME NEW reply \in Replies, DeleteDatapoint(r, reply)
      PROVE  TypeOK'
  <2>1. AnswerOK
    BY <1>6, AnswerTyped DEF DeleteDatapoint
  <2>2. BlameOK
    BY <1>6, BlamingTyped DEF DeleteDatapoint
  <2> QED BY <1>6, <2>1, <2>2 DEF DeleteDatapoint, TypeOK, Emptied, queueVars
<1>7. ASSUME RejectCron(r) \/ StayPaused(r) \/ RowMissing(r)
      PROVE  TypeOK'
  <2>1. AnswerOK
    BY <1>7, AnswerTyped DEF RejectCron, StayPaused, RowMissing
  <2> QED BY <1>7, <2>1
          DEF RejectCron, StayPaused, RowMissing, TypeOK, tableVars, queueVars
<1>8. ASSUME CallFails(r)
      PROVE  TypeOK'
  <2>1. AnswerOK
    BY <1>8, AnswerTyped DEF CallFails
  <2>2. BlameOK
    BY <1>8, BlamingTyped DEF CallFails
  <2> QED BY <1>8, <2>1, <2>2 DEF CallFails, TypeOK, tableVars, queueVars
<1> QED BY <1>1, <1>2, <1>3, <1>4, <1>5, <1>6, <1>7, <1>8 DEF Proceed

\* And what happens outside the requests.
LEMMA OutsideTyped ==
    ASSUME TypeOK,
           \/ Cascade
           \/ \E j \in Jobs : CronFires(j) \/ TakeRun(j) \/ OnceAdvances(j)
    PROVE  TypeOK'
<1>1. CASE Cascade
  <2>1. blame' \in [Jobs -> SUBSET Causes]
    BY <1>1, BlameTyped DEF Cascade, TypeOK, Causes
  <2>2. cascades' \in 0..MaxCascades
    BY <1>1, SchedulingAssumption DEF Cascade, TypeOK
  <2> QED BY <1>1, <2>1, <2>2 DEF Cascade, TypeOK, Emptied, queueVars, reqVars
<1>2. ASSUME NEW j \in Jobs, CronFires(j) \/ TakeRun(j)
      PROVE  TypeOK'
  <2>1. runs' \in [Jobs -> 0..MaxRuns]
    BY <1>2, SchedulingAssumption DEF CronFires, TakeRun, TypeOK
  <2> QED BY <1>2, <2>1 DEF CronFires, TakeRun, TypeOK, tableVars, reqVars, bounds
<1>3. ASSUME NEW j \in Jobs, OnceAdvances(j)
      PROVE  TypeOK'
  BY <1>3 DEF OnceAdvances, OnceMoves, OnceKeys, TypeOK, tableVars, reqVars, bounds
<1> QED BY <1>1, <1>2, <1>3

LEMMA NextTyped ==
    ASSUME TypeOK, [Next]_vars
    PROVE  TypeOK'
<1>1. CASE UNCHANGED vars
  BY <1>1 DEF vars, tableVars, queueVars, reqVars, bounds, TypeOK
<1> QED BY <1>1, ArriveTyped, ClearTyped, ProceedTyped, OutsideTyped
        DEF Next, Quiescent

\* Every variable keeps its type, whatever the requests, failures and removals.
THEOREM TypeCorrect == Spec => []TypeOK
<1>1. Init => TypeOK
  BY SchedulingAssumption DEF Init, TypeOK, Row, OnceKeys
<1> QED BY <1>1, NextTyped, PTL DEF Spec
-----------------------------------------------------------------------------
\* A step of request r leaves the other requests where they are.
Others(r) == \A q \in Reqs \ {r} :
    /\ pc'[q] = pc[q] /\ op'[q] = op[q] /\ job'[q] = job[q]
    /\ at'[q] = at[q] /\ prev'[q] = prev[q] /\ cur'[q] = cur[q]

\* What a step of r must show, besides the types.
Kept(r) == Others(r) /\ NoOrphanRow' /\ ReqOK(r)' /\ \A j \in Jobs : JobOK(j)'

LEMMA KeptSuffices ==
    ASSUME IInv, TypeOK', NEW r \in Reqs, Kept(r)
    PROVE  IInv'
<1>1. ASSUME NEW q \in Reqs PROVE ReqOK(q)'
  <2>1. CASE q = r
    BY <2>1 DEF Kept
  <2>2. CASE q # r
    BY <2>2 DEF Kept, Others, IInv, ReqOK
  <2> QED BY <2>1, <2>2
<1> QED BY <1>1 DEF Kept, IInv

\* A request is at work on its own job only, unless it removes all of them.
LEMMA OneJob ==
    ASSUME NEW r \in Reqs, ReqOK(r), op[r] # "removeAll",
           NEW j \in Jobs, j # job[r]
    PROVE  ~Touches(r, j) /\ at[r][j] = "idle"
  BY DEF ReqOK, Touches, Clearing

\* A job that r is not at work on, before the step or after it.
LEMMA Bystander ==
    ASSUME NEW r \in Reqs, NEW j \in Jobs, JobOK(j), Others(r),
           blame[j] \subseteq blame'[j],
           ~Touches(r, j), ~Touches(r, j)',
           Live(j)' => row'[j] = row[j] /\ scheduler'[j] = scheduler[j]
    PROVE  JobOK(j)'
<1>1. \A q \in Reqs : Touches(q, j)' => q # r /\ Touches(q, j)
  BY DEF Others, Touches, Clearing
<1>2. \A q \in Reqs : Touches(q, j) => Touches(q, j)'
  BY DEF Others, Touches, Clearing
<1>3. Sole(j)'
  BY <1>1 DEF Sole, JobOK
<1>4. ASSUME NEW q \in Reqs PROVE LeftRunning(q, j)'
  BY DEF LeftRunning, JobOK, Others, Touches, Clearing
<1>5. ASSUME Live(j)', Clean(j)'
      PROVE  /\ Settled(j)' => InStep(j)'
             /\ \A q \in Reqs : Touches(q, j)' => Duty(q, j)'
  <2>1. Live(j) /\ Clean(j)
    BY <1>5 DEF Live, Clean
  <2>2. InStep(j)' = InStep(j)
    BY <1>5 DEF InStep, Wanted
  <2>3. Settled(j)' => InStep(j)'
    BY <1>2, <2>1, <2>2 DEF Settled, JobOK
  <2>4. ASSUME NEW q \in Reqs, Touches(q, j)' PROVE Duty(q, j)'
    <3>1. q # r /\ Duty(q, j)
      BY <1>1, <2>1, <2>4 DEF JobOK
    <3> QED BY <1>5, <2>2, <3>1 DEF Duty, Others
  <2> QED BY <2>3, <2>4
<1> QED BY <1>3, <1>4, <1>5 DEF JobOK

\* A job that r is at work on, before the step or after it: as long as nothing
\* has overlapped there, r alone answers for the job.
LEMMA Acting ==
    ASSUME NEW r \in Reqs, NEW j \in Jobs, JobOK(j), Others(r),
           blame[j] \subseteq blame'[j],
           "overlap" \notin blame'[j] => \A q \in Reqs \ {r} : ~Touches(q, j),
           LeftRunning(r, j)',
           Live(j)' /\ Clean(j)' =>
               IF Touches(r, j)' THEN Duty(r, j)' ELSE InStep(j)'
    PROVE  JobOK(j)'
<1>1. "overlap" \notin blame'[j] => \A q \in Reqs \ {r} : ~Touches(q, j)'
  BY DEF Others, Touches, Clearing
<1>2. Sole(j)'
  BY <1>1 DEF Sole
<1>3. ASSUME NEW q \in Reqs PROVE LeftRunning(q, j)'
  BY DEF LeftRunning, JobOK, Others
<1>4. ASSUME Live(j)', Clean(j)'
      PROVE  /\ Settled(j)' => InStep(j)'
             /\ \A q \in Reqs : Touches(q, j)' => Duty(q, j)'
  <2>1. "overlap" \notin blame'[j]
    BY <1>4 DEF Clean
  <2> QED BY <1>1, <1>4, <2>1 DEF Settled
<1> QED BY <1>2, <1>3, <1>4 DEF JobOK

\* If r was at work on j already, it was alone there.
LEMMA WasAlone ==
    ASSUME NEW r \in Reqs, NEW j \in Jobs, JobOK(j), Touches(r, j),
           blame[j] \subseteq blame'[j]
    PROVE  "overlap" \notin blame'[j] => \A q \in Reqs \ {r} : ~Touches(q, j)
  BY DEF JobOK, Sole

-----------------------------------------------------------------------------
\* A free request is at work on nothing.
LEMMA FreeIdle ==
    ASSUME NEW r \in Reqs, Free(r)
    PROVE  \A j \in Jobs : ~Touches(r, j) /\ at[r][j] = "idle"
  BY DEF Free, Touches, Clearing

\* An overlap is put down when a request arrives.
LEMMA ArrivesAlone ==
    ASSUME TypeOK, NEW r \in Reqs, Free(r), NEW S, NEW j \in S \cap Jobs,
           Blame(blame, Overlapping(S), "overlap")[j] \subseteq blame'[j]
    PROVE  /\ blame[j] \subseteq blame'[j]
           /\ "overlap" \notin blame'[j] => \A q \in Reqs : ~Touches(q, j)
  BY BlameTyped DEF TypeOK, Overlapping, Causes

\* The first steps of requests.
LEMMA ArriveKept ==
    ASSUME IInv, NEW r \in Reqs, Arrive(r)
    PROVE  Kept(r)
<1> TypeOK /\ NoOrphanRow /\ (\A j \in Jobs : JobOK(j))
  BY DEF IInv
<1>1. ASSUME NEW k \in Jobs, NEW new \in Row, NEW reply \in Replies,
             Insert(r, k, new, reply)
      PROVE  Kept(r)
  <2>1. Others(r)
    BY <1>1 DEF Insert, Begin, Answer, Others, TypeOK
  <2>2. NoOrphanRow'
    BY <1>1 DEF Insert, NoOrphanRow
  <2>3. Free(r)
    BY <1>1 DEF Insert, Begin
  <2>4. /\ op'[r] = "create" /\ job'[r] = k /\ cur'[r] = new
        /\ pc'[r] = IF reply = "ok" THEN "clear" ELSE "idle"
        /\ at'[r][k] = IF reply = "ok" THEN "cron" ELSE "idle"
        /\ \A j \in Jobs \ {k} : at'[r][j] = "idle"
    BY <1>1, <2>3, FreeIdle DEF Insert, Begin, Answer, TypeOK
  <2>5. ReqOK(r)'
    BY <2>4 DEF ReqOK
  <2>6. JobOK(k)'
    <3> DEFINE b == Blame(blame, Overlapping({k}), "overlap")
    <3>1. b[k] \subseteq blame'[k] /\ (reply = "lost" => "failed" \in blame'[k])
      <4>1. b \in [Jobs -> SUBSET Causes]
        BY BlameTyped DEF TypeOK, Causes
      <4> QED BY <1>1, <4>1, BlameTyped DEF Insert, Causes, Replies
    <3>2. /\ blame[k] \subseteq blame'[k]
          /\ "overlap" \notin blame'[k] => \A q \in Reqs : ~Touches(q, k)
      BY <2>3, <3>1, ArrivesAlone
    <3>3. LeftRunning(r, k)'
      BY <2>4 DEF LeftRunning
    <3>4. Live(k)' /\ Clean(k)' => Touches(r, k)' /\ Duty(r, k)'
      <4>1. row'[k] = new
        BY <1>1 DEF Insert, TypeOK
      <4> QED BY <2>4, <3>1, <4>1 DEF Clean, Touches, Duty, Clearing, Replies
    <3> QED BY <2>1, <3>2, <3>3, <3>4, Acting
  <2>7. ASSUME NEW j \in Jobs, j # k PROVE JobOK(j)'
    <3>1. blame[j] \subseteq blame'[j]
      <4>1. Blame(blame, Overlapping({k}), "overlap") \in [Jobs -> SUBSET Causes]
        BY BlameTyped DEF TypeOK, Causes
      <4> QED BY <1>1, <4>1, BlameTyped DEF Insert, Causes, TypeOK
    <3>2. ~Touches(r, j) /\ ~Touches(r, j)'
      BY <2>3, <2>4, <2>7, FreeIdle DEF Touches, Clearing
    <3>3. row'[j] = row[j] /\ scheduler' = scheduler
      BY <1>1, <2>7 DEF Insert, queueVars, TypeOK
    <3> QED BY <2>1, <3>1, <3>2, <3>3, Bystander
  <2> QED BY <2>1, <2>2, <2>5, <2>6, <2>7 DEF Kept
<1>2. ASSUME NEW k \in Jobs, NEW o \in {"update", "remove"},
             NEW next \in {"write", "clear"},
             o = "update" <=> next = "write", Read(r, o, k, next)
      PROVE  Kept(r)
  <2>1. Others(r)
    BY <1>2 DEF Read, Begin, Answer, Others, TypeOK
  <2>2. NoOrphanRow'
    BY <1>2 DEF Read, NoOrphanRow, tableVars, Live
  <2>3. Free(r) /\ Live(k) /\ row' = row /\ scheduler' = scheduler
    BY <1>2 DEF Read, Begin, tableVars, queueVars
  <2>4. /\ op'[r] = o /\ job'[r] = k /\ cur'[r] = None /\ pc'[r] = next
        /\ o = "update" => prev'[r] = row[k]
        /\ at'[r][k] = IF next = "clear" THEN "cron" ELSE "idle"
        /\ \A j \in Jobs \ {k} : at'[r][j] = "idle"
    BY <1>2, <2>3, FreeIdle DEF Read, Begin, Answer, TypeOK, Replies
  <2>5. ReqOK(r)'
    <3>1. row[k] \in Row
      BY <2>3 DEF Live, TypeOK
    <3> QED BY <1>2, <2>4, <3>1 DEF ReqOK
  <2>6. blame' = Blame(blame, Overlapping({k}), "overlap")
    BY <1>2 DEF Read
  <2>7. JobOK(k)'
    <3>1. /\ blame[k] \subseteq blame'[k]
          /\ "overlap" \notin blame'[k] => \A q \in Reqs : ~Touches(q, k)
      BY <2>3, <2>6, ArrivesAlone
    <3>2. LeftRunning(r, k)'
      BY <1>2, <2>4 DEF LeftRunning
    <3>3. Live(k)' /\ Clean(k)' => Touches(r, k)' /\ Duty(r, k)'
      <4>1. ASSUME Clean(k)' PROVE InStep(k)'
        <5>1. Clean(k) /\ Settled(k)
          BY <3>1, <4>1 DEF Clean, Settled
        <5> QED BY <2>3, <5>1 DEF JobOK, InStep, Wanted
      <4> QED BY <1>2, <2>3, <2>4, <4>1 DEF Touches, Duty
    <3> QED BY <2>1, <3>1, <3>2, <3>3, Acting
  <2>8. ASSUME NEW j \in Jobs, j # k PROVE JobOK(j)'
    <3>1. blame[j] \subseteq blame'[j]
      BY <2>6, BlameTyped DEF TypeOK, Causes
    <3>2. ~Touches(r, j) /\ ~Touches(r, j)'
      BY <1>2, <2>3, <2>4, <2>8, FreeIdle DEF Touches, Clearing
    <3> QED BY <2>1, <2>3, <3>1, <3>2, Bystander
  <2> QED BY <2>1, <2>2, <2>5, <2>7, <2>8 DEF Kept
<1>3. ASSUME NEW k \in Jobs, Read(r, "run", k, "add")
      PROVE  Kept(r)
  <2>1. Others(r)
    BY <1>3 DEF Read, Begin, Answer, Others, TypeOK
  <2>2. NoOrphanRow'
    BY <1>3 DEF Read, NoOrphanRow, tableVars, Live
  <2>3. Free(r) /\ row' = row /\ scheduler' = scheduler /\ blame' = blame
    BY <1>3 DEF Read, Begin, tableVars, queueVars
  <2>4. /\ op'[r] = "run" /\ job'[r] = k /\ pc'[r] = "add"
        /\ \A j \in Jobs : at'[r][j] = "idle"
    BY <1>3, <2>3, FreeIdle DEF Read, Begin, Answer, TypeOK, Replies
  <2>5. ReqOK(r)'
    BY <2>4 DEF ReqOK
  <2>6. ASSUME NEW j \in Jobs PROVE JobOK(j)'
    <3>1. ~Touches(r, j) /\ ~Touches(r, j)'
      BY <2>3, <2>4, FreeIdle DEF Touches, Clearing
    <3> QED BY <2>1, <2>3, <3>1, Bystander
  <2> QED BY <2>1, <2>2, <2>5, <2>6 DEF Kept
<1>4. ASSUME BeginRemoveAll(r)
      PROVE  Kept(r)
  <2>1. Others(r)
    BY <1>4 DEF BeginRemoveAll, Begin, Answer, Others, TypeOK
  <2>2. NoOrphanRow'
    BY <1>4 DEF BeginRemoveAll, NoOrphanRow, tableVars, Live
  <2>3. Free(r)
    BY <1>4 DEF BeginRemoveAll, Begin
  <2>4. op'[r] = "removeAll" /\ cur'[r] = None /\ pc'[r] = "clear"
    BY <1>4 DEF BeginRemoveAll, Begin, Answer, TypeOK, Replies
  <2>5. ReqOK(r)'
    BY <2>4 DEF ReqOK
  <2>6. ASSUME NEW j \in Jobs PROVE JobOK(j)'
    <3>1. blame' = Blame(blame, Overlapping(Jobs), "overlap")
      BY <1>4 DEF BeginRemoveAll
    <3>2. /\ blame[j] \subseteq blame'[j]
          /\ "overlap" \notin blame'[j] => \A q \in Reqs : ~Touches(q, j)
      BY <2>3, <3>1, ArrivesAlone
    <3>3. LeftRunning(r, j)' /\ Touches(r, j)' /\ Duty(r, j)'
      BY <2>4 DEF LeftRunning, Touches, Duty
    <3> QED BY <2>1, <3>2, <3>3, Acting
  <2> QED BY <2>1, <2>2, <2>5, <2>6 DEF Kept
<1> QED BY <1>1, <1>2, <1>3, <1>4 DEF Arrive, BeginUpdate, BeginRemove, BeginRun

-----------------------------------------------------------------------------
\* One step of clearSchedule on job k: it goes on to v, or breaks the request
\* off, which is a failure of every job the request was meant to change.
LEMMA ClearStep ==
    ASSUME IInv, NEW r \in Reqs, NEW k \in Jobs, at[r][k] # "idle",
           NEW v \in {"idle", "find", "drop"}, at' = [at EXCEPT ![r][k] = v],
           NEW next \in {pc[r], "idle"}, pc' = [pc EXCEPT ![r] = next],
           next # pc[r] => /\ v = "idle"
                           /\ \A j \in Jobs \cap Scope(r, k) : "failed" \in blame'[j],
           UNCHANGED <<tableVars, op, job, prev, cur>>,
           \A j \in Jobs : blame[j] \subseteq blame'[j],
           \A j \in Jobs \ {k} : scheduler'[j] = scheduler[j],
           \/ "failed" \in blame'[k]
           \/ scheduler'[k] = None
           \/ at[r][k] # "cron" /\ scheduler'[k] = scheduler[k]
    PROVE  Kept(r)
<1> TypeOK /\ ReqOK(r) /\ NoOrphanRow /\ (\A j \in Jobs : JobOK(j))
  BY DEF IInv
<1>1. /\ row' = row /\ datapoint' = datapoint /\ op' = op /\ job' = job
      /\ prev' = prev /\ cur' = cur /\ pc'[r] = next /\ at'[r][k] = v
      /\ \A j \in Jobs \ {k} : at'[r][j] = at[r][j]
  BY DEF TypeOK, tableVars
<1>2. Others(r)
  BY <1>1 DEF Others, TypeOK
<1>3. NoOrphanRow'
  BY <1>1 DEF NoOrphanRow, Live
<1>4. op[r] = "removeAll" \/ (pc[r] = "clear" /\ job[r] = k)
  BY DEF ReqOK
<1>5. ReqOK(r)'
  BY <1>1, <1>4 DEF ReqOK
<1>6. JobOK(k)'
  <2>1. Touches(r, k)
    BY DEF Touches, Clearing
  <2>2. LeftRunning(r, k)'
    BY <1>1 DEF LeftRunning, JobOK
  <2>3. Live(k)' /\ Clean(k)' => Touches(r, k)' /\ Duty(r, k)'
    <3>1. SUFFICES ASSUME Live(k)', Clean(k)'
                   PROVE  Touches(r, k)' /\ Duty(r, k)'
      OBVIOUS
    <3>2. Live(k) /\ Clean(k) /\ Duty(r, k)
      BY <1>1, <2>1, <3>1 DEF Live, Clean, JobOK
    <3>3. pc[r] = "clear"
      BY <1>4, <3>2 DEF ReqOK, JobOK, LeftRunning, Clean
    <3>4. pc'[r] = "clear"
      BY <1>1, <1>4, <3>1, <3>3 DEF Scope, Clean
    <3>5. Touches(r, k)'
      BY <1>1, <1>4, <3>3, <3>4 DEF Touches, ReqOK, Clearing
    <3>6. op[r] \in {"create", "update"} => cur[r] = row[k] /\ scheduler'[k] = None
      BY <3>1, <3>2, <3>3 DEF Duty, Clean
    <3> QED BY <1>1, <3>4, <3>5, <3>6 DEF Duty
  <2> QED BY <1>2, <2>1, <2>2, <2>3, WasAlone, Acting
<1>7. ASSUME NEW j \in Jobs, j # k PROVE JobOK(j)'
  <2>1. CASE op[r] # "removeAll"
    <3>1. ~Touches(r, j) /\ ~Touches(r, j)'
      BY <1>1, <1>4, <1>7, <2>1, OneJob DEF Touches, Clearing
    <3> QED BY <1>1, <1>2, <1>7, <3>1, Bystander
  <2>2. CASE op[r] = "removeAll" /\ ~Touches(r, j)
    <3>1. ~Touches(r, j)'
      BY <1>1, <1>7, <2>2 DEF Touches, Clearing
    <3> QED BY <1>1, <1>2, <1>7, <2>2, <3>1, Bystander
  <2>3. CASE op[r] = "removeAll" /\ Touches(r, j)
    <3>1. next # pc[r] => "failed" \in blame'[j]
      BY <2>3 DEF Scope
    <3>2. LeftRunning(r, j)'
      BY <1>1, <1>7, <3>1 DEF LeftRunning, JobOK
    <3>3. Clean(j)' => Touches(r, j)' /\ Duty(r, j)'
      BY <1>1, <2>3, <3>1
         DEF Clean, JobOK, LeftRunning, ReqOK, Touches, Clearing, Duty
    <3> QED BY <1>2, <2>3, <3>2, <3>3, WasAlone, Acting
  <2> QED BY <2>1, <2>2, <2>3
<1> QED BY <1>2, <1>3, <1>5, <1>6, <1>7 DEF Kept

\* What an answer leaves at pc, and what is put down when it is lost.
LEMMA Answered ==
    ASSUME TypeOK, NEW r \in Reqs, NEW next, NEW reply \in Replies,
           Answer(r, next, reply)
    PROVE  /\ reply = "ok" => pc' = [pc EXCEPT ![r] = next] /\ pc'[r] = next
           /\ reply = "lost" => pc' = [pc EXCEPT ![r] = "idle"] /\ pc'[r] = "idle"
  BY DEF TypeOK, Answer, Replies

LEMMA ClearKept ==
    ASSUME IInv, NEW r \in Reqs, Clear(r)
    PROVE  Kept(r)
<1> TypeOK
  BY DEF IInv
<1> "ok" \in Replies /\ "lost" \in Replies
  BY DEF Replies
<1>1. ASSUME NEW k \in Jobs, NEW reply \in Replies, RemoveCronScheduler(r, k, reply)
      PROVE  Kept(r)
  <2>1. /\ \A j \in Jobs : blame[j] \subseteq blame'[j]
        /\ reply = "lost" => \A j \in Jobs \cap Scope(r, k) : "failed" \in blame'[j]
    BY <1>1, BlamingTyped DEF RemoveCronScheduler
  <2>2. PICK v \in {"idle", "find"} :
          at' = [at EXCEPT ![r][k] = v] /\ (reply = "lost" => v = "idle")
    BY <1>1 DEF RemoveCronScheduler, Step, Replies
  <2>3. PICK next \in {pc[r], "idle"} :
          pc' = [pc EXCEPT ![r] = next] /\ (reply = "ok" => next = pc[r])
    BY <1>1, Answered DEF RemoveCronScheduler, Replies
  <2>4. scheduler'[k] = None /\ \A j \in Jobs \ {k} : scheduler'[j] = scheduler[j]
    BY <1>1 DEF RemoveCronScheduler, TypeOK
  <2>5. at[r][k] # "idle" /\ UNCHANGED <<tableVars, op, job, prev, cur>>
    BY <1>1 DEF RemoveCronScheduler, Step
  <2> QED BY <2>1, <2>2, <2>3, <2>4, <2>5, ClearStep DEF Replies
<1>2. ASSUME NEW k \in Jobs, FindOnce(r, k)
      PROVE  Kept(r)
  <2>1. PICK v \in {"idle", "drop"} : at' = [at EXCEPT ![r][k] = v]
    BY <1>2 DEF FindOnce, Step
  <2>2. /\ pc' = [pc EXCEPT ![r] = pc[r]] /\ blame' = blame
        /\ scheduler' = scheduler /\ at[r][k] = "find"
        /\ UNCHANGED <<tableVars, op, job, prev, cur>>
    BY <1>2 DEF FindOnce, Step, queueVars, TypeOK
  <2> QED BY <2>1, <2>2, ClearStep
<1>3. ASSUME NEW k \in Jobs, RemoveOnce(r, k) \/ RemoveOnceFails(r, k)
      PROVE  Kept(r)
  <2>1. \A j \in Jobs : blame[j] \subseteq blame'[j]
    BY <1>3, BlameTyped DEF RemoveOnce, RemoveOnceFails, TypeOK, Causes
  <2>2. /\ pc' = [pc EXCEPT ![r] = pc[r]] /\ scheduler' = scheduler
        /\ at[r][k] = "drop" /\ at' = [at EXCEPT ![r][k] = "idle"]
        /\ UNCHANGED <<tableVars, op, job, prev, cur>>
    BY <1>3 DEF RemoveOnce, RemoveOnceFails, Step, queueVars, TypeOK
  <2> QED BY <2>1, <2>2, ClearStep
<1>4. ASSUME NEW k \in Jobs, ClearFails(r, k)
      PROVE  Kept(r)
  <2>1. /\ \A j \in Jobs : blame[j] \subseteq blame'[j]
        /\ \A j \in Jobs \cap Scope(r, k) : "failed" \in blame'[j]
    BY <1>4, BlamingTyped DEF ClearFails
  <2>2. "failed" \in blame'[k]
    BY <2>1 DEF Scope
  <2>3. pc' = [pc EXCEPT ![r] = "idle"]
    BY <1>4, Answered DEF ClearFails
  <2>4. /\ scheduler' = scheduler
        /\ at[r][k] # "idle" /\ at' = [at EXCEPT ![r][k] = "idle"]
        /\ UNCHANGED <<tableVars, op, job, prev, cur>>
    BY <1>4 DEF ClearFails, queueVars
  <2> QED BY <2>1, <2>2, <2>3, <2>4, ClearStep
<1> QED BY <1>1, <1>2, <1>3, <1>4 DEF Clear

-----------------------------------------------------------------------------
\* A step of a request to create, update or remove a job concerns that job.
LEMMA OwnStep ==
    ASSUME IInv, NEW r \in Reqs, NEW k \in Jobs,
           pc[r] # "idle", op[r] \notin {"removeAll", "run"}, job[r] = k,
           Others(r), ReqOK(r)',
           op' = op, job' = job, datapoint' = datapoint,
           Live(k)' => Live(k),
           \A j \in Jobs : blame[j] \subseteq blame'[j],
           \A j \in Jobs \ {k} : /\ row'[j] = row[j] /\ at'[r][j] = at[r][j]
                                 /\ scheduler'[j] = scheduler[j],
           pc'[r] = "idle" => at'[r][k] = "idle",
           Live(k) /\ Clean(k) /\ Duty(r, k) /\ Live(k)' /\ Clean(k)' =>
               IF pc'[r] # "idle" THEN Duty(r, k)' ELSE InStep(k)'
    PROVE  Kept(r)
<1> ReqOK(r) /\ NoOrphanRow /\ (\A j \in Jobs : JobOK(j))
  BY DEF IInv
<1>1. NoOrphanRow'
  BY DEF NoOrphanRow, Live
<1>2. JobOK(k)'
  <2>1. Touches(r, k)
    BY DEF Touches
  <2>2. LeftRunning(r, k)'
    BY DEF LeftRunning
  <2>3. Touches(r, k)' <=> pc'[r] # "idle"
    BY DEF Touches, Clearing
  <2>4. Live(k)' /\ Clean(k)' => Live(k) /\ Clean(k) /\ Duty(r, k)
    BY <2>1 DEF JobOK, Clean
  <2> QED BY <2>1, <2>2, <2>3, <2>4, WasAlone, Acting
<1>3. ASSUME NEW j \in Jobs, j # k PROVE JobOK(j)'
  <2>1. ~Touches(r, j) /\ ~Touches(r, j)'
    BY <1>3, OneJob DEF Touches, Clearing
  <2> QED BY <1>3, <2>1, Bystander
<1> QED BY <1>1, <1>2, <1>3 DEF Kept

\* A step that leaves rows and schedulers alone and ends a run asked for by hand.
LEMMA RunStep ==
    ASSUME IInv, NEW r \in Reqs, pc[r] = "add",
           UNCHANGED <<tableVars, scheduler, op, job, at, prev, cur>>,
           pc' = [pc EXCEPT ![r] = "idle"],
           \A j \in Jobs : blame[j] \subseteq blame'[j]
    PROVE  Kept(r)
<1> TypeOK /\ ReqOK(r) /\ NoOrphanRow /\ (\A j \in Jobs : JobOK(j))
  BY DEF IInv
<1>1. Others(r)
  BY DEF Others, TypeOK
<1>2. pc'[r] = "idle" /\ op[r] = "run" /\ \A j \in Jobs : at[r][j] = "idle"
  BY DEF ReqOK, TypeOK
<1>3. NoOrphanRow' /\ ReqOK(r)'
  BY <1>2 DEF NoOrphanRow, Live, tableVars, ReqOK
<1>4. ASSUME NEW j \in Jobs PROVE JobOK(j)'
  <2>1. ~Touches(r, j) /\ ~Touches(r, j)'
    BY <1>2 DEF Touches, Clearing
  <2> QED BY <1>1, <2>1, Bystander DEF tableVars
<1> QED BY <1>1, <1>3, <1>4 DEF Kept

\* The end of a removal of all jobs: it leaves no row, or puts down a failure.
LEMMA RemoveAllEnds ==
    ASSUME IInv, NEW r \in Reqs, Cleared(r), op[r] = "removeAll",
           UNCHANGED <<op, job, at, prev, cur>>,
           pc' = [pc EXCEPT ![r] = "idle"],
           \A j \in Jobs : blame[j] \subseteq blame'[j],
           NoOrphanRow',
           \A j \in Jobs : Live(j)' => "failed" \in blame'[j]
    PROVE  Kept(r)
<1> TypeOK /\ ReqOK(r) /\ (\A j \in Jobs : JobOK(j))
  BY DEF IInv
<1>1. Others(r)
  BY DEF Others, TypeOK
<1>2. pc'[r] = "idle" /\ \A j \in Jobs : at[r][j] = "idle"
  BY DEF TypeOK, Cleared, Clearing
<1>3. ReqOK(r)'
  BY <1>2 DEF ReqOK
<1>4. ASSUME NEW j \in Jobs PROVE JobOK(j)'
  <2>1. Touches(r, j)
    BY DEF Touches, Cleared
  <2>2. LeftRunning(r, j)'
    BY <1>2 DEF LeftRunning
  <2> QED BY <1>1, <2>1, <2>2, WasAlone, Acting DEF Clean
<1> QED BY <1>1, <1>3, <1>4 DEF Kept

\* A failure put down against the job, or the loss of its row, ends the duty.
LEMMA RequestBreaksOff ==
    ASSUME IInv, NEW r \in Reqs, NEW k \in Jobs,
           pc[r] # "idle", op[r] \notin {"removeAll", "run"}, job[r] = k,
           UNCHANGED <<tableVars, op, job, at, prev, cur>>,
           scheduler' = scheduler,
           pc' = [pc EXCEPT ![r] = "idle"], at[r][k] = "idle",
           \A j \in Jobs : blame[j] \subseteq blame'[j],
           "failed" \in blame'[k] \/ ~Live(k)
    PROVE  Kept(r)
<1> TypeOK /\ ReqOK(r)
  BY DEF IInv
<1>1. Others(r) /\ pc'[r] = "idle"
  BY DEF Others, TypeOK
<1>2. ReqOK(r)'
  BY <1>1 DEF ReqOK
<1>3. ~(Live(k)' /\ Clean(k)')
  BY DEF Live, Clean, tableVars
<1>4. Live(k)' => Live(k)
  BY DEF Live, tableVars
<1> QED BY <1>1, <1>2, <1>3, <1>4, OwnStep DEF tableVars

-----------------------------------------------------------------------------
\* The job a request is at work on, by its place.
LEMMA OwnJob ==
    ASSUME IInv, NEW r \in Reqs
    PROVE  /\ pc[r] = "write" => op[r] = "update" /\ job[r] \in Jobs
                                 /\ at[r][job[r]] = "idle"
           /\ pc[r] = "now" => op[r] = "create" /\ job[r] \in Jobs
                               /\ at[r][job[r]] = "idle"
           /\ Cleared(r) /\ op[r] # "removeAll" =>
                 /\ op[r] \in {"create", "update", "remove"} /\ job[r] \in Jobs
                 /\ at[r][job[r]] = "idle"
           /\ Schedules(r) => /\ op[r] \in {"create", "update"} /\ job[r] \in Jobs
                              /\ at[r][job[r]] = "idle" /\ cur[r] \in Row
  BY DEF IInv, ReqOK, Cleared, Schedules, Clearing

\* A schedule is registered, or turns out not to be wanted.
LEMMA ScheduleStep ==
    ASSUME IInv, NEW r \in Reqs, NEW k \in Jobs, Cleared(r), job[r] = k,
           op[r] \in {"create", "update"}, at[r][k] = "idle",
           UNCHANGED <<tableVars, op, job, at, prev, cur>>,
           NEW next \in {"idle", "now"}, pc' = [pc EXCEPT ![r] = next],
           next = "now" => op[r] = "create",
           \A j \in Jobs : blame[j] \subseteq blame'[j],
           \A j \in Jobs \ {k} : scheduler'[j] = scheduler[j],
           \/ "failed" \in blame'[k]
           \/ row[k] = cur[r] /\ scheduler[k] = None => InStep(k)'
    PROVE  Kept(r)
<1> TypeOK /\ ReqOK(r)
  BY DEF IInv
<1>1. Others(r) /\ pc'[r] = next /\ pc[r] = "clear"
  BY DEF Others, TypeOK, Cleared
<1>2. ReqOK(r)'
  BY <1>1 DEF ReqOK, Cleared, Clearing
<1>3. Live(k)' => Live(k)
  BY DEF Live, tableVars
<1>4. Live(k) /\ Clean(k) /\ Duty(r, k) /\ Live(k)' /\ Clean(k)' =>
          IF pc'[r] # "idle" THEN Duty(r, k)' ELSE InStep(k)'
  <2>1. Duty(r, k) => row[k] = cur[r] /\ scheduler[k] = None
    BY <1>1 DEF Duty
  <2>2. InStep(k)' => Duty(r, k)' \/ pc'[r] = "idle"
    BY <1>1 DEF Duty
  <2> QED BY <2>1, <2>2 DEF Clean
<1> QED BY <1>1, <1>2, <1>3, <1>4, OwnStep DEF tableVars

\* The write of an update, the registrations, the runs and the removals.
LEMMA ProceedKept ==
    ASSUME IInv, NEW r \in Reqs, Proceed(r)
    PROVE  Kept(r)
<1> TypeOK /\ ReqOK(r) /\ NoOrphanRow
  BY DEF IInv
<1> "ok" \in Replies /\ "lost" \in Replies
  BY DEF Replies
<1>1. ASSUME NEW new \in Row, NEW reply \in Replies, Write(r, new, reply)
      PROVE  Kept(r)
  <2> DEFINE k == job[r]
             again == Reschedules(prev[r], new)
  <2>1. /\ pc[r] = "write" /\ op[r] = "update" /\ k \in Jobs /\ Live(k)
        /\ at[r][k] = "idle" /\ prev[r] \in Row
        /\ \A j \in Jobs : at[r][j] = "idle"
    BY <1>1, OwnJob DEF Write, ReqOK
  <2>2. /\ \A j \in Jobs : blame[j] \subseteq blame'[j]
        /\ reply = "lost" => "failed" \in blame'[k]
    BY <1>1, <2>1, BlamingTyped DEF Write
  <2>3. /\ pc' = [pc EXCEPT ![r] = IF again /\ reply = "ok" THEN "clear" ELSE "idle"]
        /\ op' = op /\ job' = job /\ prev' = prev /\ datapoint' = datapoint
        /\ scheduler' = scheduler
        /\ at' = [at EXCEPT ![r][k] = IF again /\ reply = "ok" THEN "cron" ELSE "idle"]
        /\ row' = [row EXCEPT ![k] = new]
        /\ cur' = [cur EXCEPT ![r] = new]
    BY <1>1, Answered DEF Write, queueVars, Replies
  <2>4. /\ pc'[r] = IF again /\ reply = "ok" THEN "clear" ELSE "idle"
        /\ at'[r][k] = IF again /\ reply = "ok" THEN "cron" ELSE "idle"
        /\ \A j \in Jobs \ {k} : at'[r][j] = at[r][j] /\ row'[j] = row[j]
        /\ row'[k] = new /\ cur'[r] = new
    BY <2>1, <2>3 DEF TypeOK
  <2>5. Others(r)
    BY <2>3 DEF Others, TypeOK
  <2>6. ReqOK(r)'
    BY <2>1, <2>3, <2>4 DEF ReqOK
  <2>7. ASSUME Duty(r, k), Clean(k)'
        PROVE  IF pc'[r] # "idle" THEN Duty(r, k)' ELSE InStep(k)'
    <3>1. reply = "ok"
      BY <2>2, <2>3, <2>7 DEF Clean, Replies
    <3>2. InStep(k) /\ prev[r] = row[k]
      BY <2>1, <2>7 DEF Duty
    <3>3. CASE again
      BY <2>1, <2>3, <2>4, <3>1, <3>3 DEF Duty
    <3>4. CASE ~again
      <4>1. /\ row[k].status = "ACTIVE" /\ new.status = "ACTIVE"
            /\ row[k].cron = new.cron
        BY <2>1, <3>2, <3>4 DEF Reschedules, Row
      <4> QED BY <2>3, <2>4, <3>2, <3>4, <4>1 DEF InStep, Wanted
    <3> QED BY <3>3, <3>4
  <2> QED BY <2>1, <2>2, <2>3, <2>4, <2>5, <2>6, <2>7, OwnStep
<1>2. ASSUME NEW reply \in Replies, RegisterCron(r, reply)
      PROVE  Kept(r)
  <2> DEFINE k == job[r]
  <2>1. /\ Cleared(r) /\ k \in Jobs /\ op[r] \in {"create", "update"}
        /\ at[r][k] = "idle" /\ cur[r].status = "ACTIVE" /\ cur[r].cron \in Patterns
    BY <1>2, OwnJob DEF RegisterCron, Schedules
  <2>2. /\ \A j \in Jobs : blame[j] \subseteq blame'[j]
        /\ reply = "lost" => "failed" \in blame'[k]
    BY <1>2, <2>1, BlamingTyped DEF RegisterCron
  <2>3. PICK next \in {"idle", "now"} :
          pc' = [pc EXCEPT ![r] = next] /\ (next = "now" => op[r] = "create")
    BY <1>2, Answered DEF RegisterCron, Replies
  <2>4. /\ UNCHANGED <<tableVars, op, job, at, prev, cur>>
        /\ scheduler'[k] = cur[r].cron
        /\ \A j \in Jobs \ {k} : scheduler'[j] = scheduler[j]
    BY <1>2, <2>1 DEF RegisterCron, TypeOK
  <2>5. row[k] = cur[r] => InStep(k)'
    BY <2>1, <2>4 DEF InStep, Wanted, tableVars
  <2> QED BY <2>1, <2>2, <2>3, <2>4, <2>5, ScheduleStep
<1>3. ASSUME NEW reply \in Replies, EnqueueOnce(r, reply)
      PROVE  Kept(r)
  <2> DEFINE k == job[r]
  <2>1. /\ Cleared(r) /\ k \in Jobs /\ op[r] \in {"create", "update"}
        /\ at[r][k] = "idle" /\ cur[r].cron = None
    BY <1>3, OwnJob DEF EnqueueOnce, Schedules
  <2>2. \A j \in Jobs : blame[j] \subseteq blame'[j]
    BY <1>3, BlamingTyped DEF EnqueueOnce
  <2>3. pc' = [pc EXCEPT ![r] = "idle"]
    BY <1>3, Answered DEF EnqueueOnce, Replies
  <2>4. scheduler' = scheduler /\ UNCHANGED <<tableVars, op, job, at, prev, cur>>
    BY <1>3 DEF EnqueueOnce
  <2>5. row[k] = cur[r] /\ scheduler[k] = None => InStep(k)'
    BY <2>1, <2>4, SchedulingAssumption DEF InStep, Wanted, tableVars
  <2> QED BY <2>1, <2>2, <2>3, <2>4, <2>5, ScheduleStep
<1>4. ASSUME NEW reply \in Replies, AddRun(r, reply)
      PROVE  Kept(r)
  <2>1. \A j \in Jobs : blame[j] \subseteq blame'[j]
    BY <1>4, BlamingTyped DEF AddRun
  <2>2. pc' = [pc EXCEPT ![r] = "idle"]
    BY <1>4, Answered DEF AddRun, Replies
  <2>3. scheduler' = scheduler /\ UNCHANGED <<tableVars, op, job, at, prev, cur>>
    BY <1>4 DEF AddRun
  <2>4. CASE pc[r] = "add"
    BY <2>1, <2>2, <2>3, <2>4, RunStep
  <2>5. CASE pc[r] = "now"
    <3> DEFINE k == job[r]
    <3>1. op[r] = "create" /\ k \in Jobs /\ at[r][k] = "idle"
      BY <2>5, OwnJob
    <3>2. Others(r) /\ pc'[r] = "idle"
      BY <2>2, <2>3 DEF Others, TypeOK
    <3>3. ReqOK(r)'
      BY <2>3, <2>5, <3>1, <3>2 DEF ReqOK
    <3>4. Duty(r, k) => InStep(k)'
      BY <2>3, <2>5 DEF Duty, InStep, Wanted, tableVars
    <3>5. Live(k)' => Live(k)
      BY <2>3 DEF Live, tableVars
    <3> QED BY <2>1, <2>3, <2>5, <3>1, <3>2, <3>3, <3>4, <3>5, OwnStep DEF tableVars
  <2> QED BY <1>4, <2>4, <2>5 DEF AddRun
<1>5. ASSUME NEW reply \in Replies, DeleteRow(r, reply)
      PROVE  Kept(r)
  <2> DEFINE k == job[r]
  <2>1. /\ Cleared(r) /\ k \in Jobs /\ op[r] = "remove" /\ Live(k)
        /\ at[r][k] = "idle" /\ pc[r] = "clear"
    BY <1>5, OwnJob DEF DeleteRow, Cleared
  <2>2. \A j \in Jobs : blame[j] \subseteq blame'[j]
    BY <1>5, BlamingTyped DEF DeleteRow
  <2>3. pc' = [pc EXCEPT ![r] = "idle"]
    BY <1>5, Answered DEF DeleteRow, Replies
  <2>4. /\ UNCHANGED <<datapoint, scheduler, op, job, at, prev, cur>>
        /\ row'[k] = Gone /\ \A j \in Jobs \ {k} : row'[j] = row[j]
    BY <1>5, <2>1 DEF DeleteRow, queueVars, TypeOK
  <2>5. Others(r) /\ pc'[r] = "idle"
    BY <2>3, <2>4 DEF Others, TypeOK
  <2>6. ReqOK(r)'
    BY <2>1, <2>4, <2>5 DEF ReqOK
  <2>7. ~Live(k)'
    BY <2>4 DEF Live
  <2> QED BY <2>1, <2>2, <2>4, <2>5, <2>6, <2>7, OwnStep
<1>6. ASSUME NEW reply \in Replies, DeleteDatapoint(r, reply)
      PROVE  Kept(r)
  <2>1. \A j \in Jobs : blame[j] \subseteq blame'[j]
    BY <1>6, BlamingTyped DEF DeleteDatapoint
  <2>2. pc' = [pc EXCEPT ![r] = "idle"]
    BY <1>6, Answered DEF DeleteDatapoint, Replies
  <2>3. \A j \in Jobs : ~Live(j)'
    BY <1>6 DEF DeleteDatapoint, Emptied, Live
  <2>4. /\ Cleared(r) /\ op[r] = "removeAll"
        /\ UNCHANGED <<op, job, at, prev, cur>>
    BY <1>6 DEF DeleteDatapoint
  <2> QED BY <2>1, <2>2, <2>3, <2>4, RemoveAllEnds DEF NoOrphanRow
<1>7. ASSUME RejectCron(r) \/ StayPaused(r)
      PROVE  Kept(r)
  <2> DEFINE k == job[r]
  <2>1. /\ Cleared(r) /\ k \in Jobs /\ op[r] \in {"create", "update"}
        /\ at[r][k] = "idle"
        /\ cur[r].cron \in BadPatterns \/ cur[r].status = "PAUSED"
    BY <1>7, OwnJob DEF RejectCron, StayPaused, Schedules, Cleared, ReqOK
  <2>2. pc' = [pc EXCEPT ![r] = "idle"]
    BY <1>7, Answered DEF RejectCron, StayPaused
  <2>3. /\ scheduler' = scheduler /\ blame' = blame
        /\ UNCHANGED <<tableVars, op, job, at, prev, cur>>
    BY <1>7 DEF RejectCron, StayPaused, queueVars
  <2>4. row[k] = cur[r] /\ scheduler[k] = None => InStep(k)'
    BY <2>1, <2>3, SchedulingAssumption DEF InStep, Wanted, tableVars
  <2> QED BY <2>1, <2>2, <2>3, <2>4, ScheduleStep
<1>8. ASSUME RowMissing(r)
      PROVE  Kept(r)
  <2>1. /\ pc' = [pc EXCEPT ![r] = "idle"]
        /\ scheduler' = scheduler /\ blame' = blame
        /\ UNCHANGED <<tableVars, op, job, at, prev, cur>>
    BY <1>8, Answered DEF RowMissing, queueVars
  <2>2. CASE Cleared(r) /\ op[r] = "removeAll" /\ ~datapoint
    BY <2>1, <2>2, RemoveAllEnds DEF NoOrphanRow, Live, tableVars
  <2>3. CASE \/ pc[r] = "write" /\ ~Live(job[r])
             \/ Cleared(r) /\ op[r] = "remove" /\ ~Live(job[r])
    <3>1. /\ pc[r] # "idle" /\ op[r] \notin {"removeAll", "run"}
          /\ job[r] \in Jobs /\ at[r][job[r]] = "idle" /\ ~Live(job[r])
      BY <2>3, OwnJob DEF Cleared
    <3> QED BY <2>1, <3>1, RequestBreaksOff
  <2> QED BY <1>8, <2>2, <2>3 DEF RowMissing
<1>9. ASSUME CallFails(r)
      PROVE  Kept(r)
  <2>1. /\ \A j \in Jobs : blame[j] \subseteq blame'[j]
        /\ \A j \in Jobs \cap Scope(r, job[r]) : "failed" \in blame'[j]
    BY <1>9, BlamingTyped DEF CallFails
  <2>2. /\ pc' = [pc EXCEPT ![r] = "idle"] /\ scheduler' = scheduler
        /\ UNCHANGED <<tableVars, op, job, at, prev, cur>>
    BY <1>9, Answered DEF CallFails, queueVars
  <2>3. CASE pc[r] = "add"
    BY <2>1, <2>2, <2>3, RunStep
  <2>4. CASE Cleared(r) /\ op[r] = "removeAll"
    BY <2>1, <2>2, <2>4, RemoveAllEnds DEF NoOrphanRow, Live, tableVars, Scope
  <2>5. CASE pc[r] \in {"write", "now"} \/ (Cleared(r) /\ op[r] # "removeAll")
    <3>1. /\ pc[r] # "idle" /\ op[r] \notin {"removeAll", "run"}
          /\ job[r] \in Jobs /\ at[r][job[r]] = "idle"
      BY <2>5, OwnJob DEF Cleared
    <3> QED BY <2>1, <2>2, <3>1, RequestBreaksOff DEF Scope
  <2> QED BY <1>9, <2>3, <2>4, <2>5 DEF CallFails
<1> QED BY <1>1, <1>2, <1>3, <1>4, <1>5, <1>6, <1>7, <1>8, <1>9 DEF Proceed

\* What happens outside the requests.
LEMMA OutsideKeeps ==
    ASSUME IInv, TypeOK',
           \/ Cascade
           \/ \E j \in Jobs : CronFires(j) \/ TakeRun(j) \/ OnceAdvances(j)
    PROVE  IInv'
<1>1. CASE Cascade
  <2>1. /\ UNCHANGED reqVars
        /\ \A j \in Jobs : blame[j] \subseteq blame'[j] /\ ~Live(j)'
    BY <1>1, BlameTyped DEF Cascade, Emptied, Live, IInv, TypeOK, Causes
  <2>2. ASSUME NEW j \in Jobs PROVE JobOK(j)'
    <3>1. Sole(j)' /\ \A r \in Reqs : LeftRunning(r, j)'
      BY <2>1 DEF IInv, JobOK, Sole, LeftRunning, Touches, Clearing, reqVars
    <3> QED BY <2>1, <3>1 DEF JobOK
  <2>3. ASSUME NEW r \in Reqs PROVE ReqOK(r)'
    BY <2>1 DEF ReqOK, reqVars, IInv
  <2> QED BY <2>1, <2>2, <2>3 DEF IInv, NoOrphanRow
<1>2. CASE \E j \in Jobs : CronFires(j) \/ TakeRun(j) \/ OnceAdvances(j)
  <2>1. UNCHANGED <<tableVars, scheduler, reqVars, blame>>
    BY <1>2 DEF CronFires, TakeRun, OnceAdvances, OnceMoves
  <2> QED BY <2>1 DEF IInv, NoOrphanRow, Live, ReqOK, JobOK, Sole, LeftRunning,
             Clean, Settled, InStep, Wanted, Touches, Clearing, Duty,
             tableVars, reqVars
<1> QED BY <1>1, <1>2

\* The inductive invariant holds in every reachable state.
THEOREM Invariance == Spec => []IInv
<1>1. Init => IInv
  <2>1. Init => TypeOK
    BY SchedulingAssumption DEF Init, TypeOK, Row, OnceKeys
  <2>2. Init => /\ \A j \in Jobs : ~Live(j)
                /\ \A r \in Reqs, j \in Jobs : ~Touches(r, j) /\ at[r][j] = "idle"
    BY DEF Init, Live, Touches, Clearing
  <2>3. Init => \A r \in Reqs : ReqOK(r)
    BY DEF Init, ReqOK
  <2>4. Init => \A j \in Jobs : JobOK(j)
    BY <2>2 DEF JobOK, Sole, LeftRunning
  <2> QED BY <2>1, <2>2, <2>3, <2>4 DEF IInv, NoOrphanRow
<1>2. IInv /\ [Next]_vars => IInv'
  <2> SUFFICES ASSUME IInv, [Next]_vars PROVE IInv'
    OBVIOUS
  <2>1. TypeOK'
    BY NextTyped DEF IInv
  <2>2. CASE UNCHANGED vars
    BY <2>2 DEF vars, tableVars, queueVars, reqVars, bounds, IInv, TypeOK,
       NoOrphanRow, Live, ReqOK, JobOK, Sole, LeftRunning, Clean, Settled,
       InStep, Wanted, Touches, Clearing, Duty
  <2>3. ASSUME NEW r \in Reqs, Arrive(r) \/ Clear(r) \/ Proceed(r)
        PROVE  IInv'
    BY <2>1, <2>3, ArriveKept, ClearKept, ProceedKept, KeptSuffices
  <2> QED BY <2>1, <2>2, <2>3, OutsideKeeps DEF Next, Quiescent
<1> QED BY <1>1, <1>2, PTL DEF Spec

\* A live job that no overlapping request and no failed call has touched has
\* the scheduler its row asks for (JobSchedulerService, JobsService).
THEOREM ScheduleFollowsRow == Spec => []CronFollowsRow
<1>1. IInv => CronFollowsRow
  BY DEF IInv, JobOK, CronFollowsRow, Undisturbed, Clean, InStep, Wanted
<1> QED BY <1>1, Invariance, PTL

-----------------------------------------------------------------------------
(***************************************************************************)
(* The one-time entry, and what a removed job leaves.  KeyInv follows      *)
(* clearSchedule by its awaits, failed calls included: whoever is past an  *)
(* await of it has left nothing behind, and the schedule of a row that is  *)
(* gone stays empty because nobody is at work on it any more.              *)
(***************************************************************************)
OnceInStep(j) == IF row[j].status = "ACTIVE" /\ row[j].cron = None
                 THEN once[j] # "none" /\ onceFor[j] = row[j].start
                 ELSE once[j] = "none"
KeyClean(j) == blame[j] \cap {"failed", "locked"} = {}
Removed(j)  == scheduler[j] = None /\ (KeyClean(j) => once[j] = "none")

\* A request is at work on jobs that have had a row.
Known(r) ==
    /\ pc[r] # "idle" /\ op[r] # "removeAll" => row[job[r]] # Unborn
    /\ \A j \in Jobs : at[r][j] # "idle" => row[j] # Unborn

\* What the awaits of clearSchedule that are over have removed.
Progress(r, j) == pc[r] = "clear" =>
    /\ at[r][j] # "cron" => scheduler[j] = None
    /\ at[r][j] = "idle" /\ KeyClean(j) => once[j] = "none"

KeyOK(j) ==
    /\ row[j] = Unborn => scheduler[j] = None /\ once[j] = "none"
    /\ row[j] = Gone /\ blame[j] \cap {"overlap", "cascade"} = {} =>
          /\ Removed(j)
          /\ \A r \in Reqs : Touches(r, j) => op[r] = "removeAll" /\ at[r][j] = "idle"
    /\ Live(j) /\ "overlap" \notin blame[j] =>
          \A r \in Reqs : Touches(r, j) => Progress(r, j)
    /\ Live(j) /\ Clean(j) /\ KeyClean(j) =>
          /\ Settled(j) => OnceInStep(j)
          /\ \A r \in Reqs : Touches(r, j) /\ pc[r] \in {"write", "now"} => OnceInStep(j)

KeyInv == (\A r \in Reqs : Known(r)) /\ (\A j \in Jobs : KeyOK(j))

\* What a step of r must show of it.
KeyKept(r) == /\ Known(r)' /\ \A j \in Jobs : KeyOK(j)'
              /\ \A j \in Jobs : row'[j] = Unborn => row[j] = Unborn

LEMMA KeyKeptSuffices ==
    ASSUME IInv, KeyInv, NEW r \in Reqs, Others(r), KeyKept(r)
    PROVE  KeyInv'
<1>1. ASSUME NEW q \in Reqs, q # r PROVE Known(q)'
  BY <1>1 DEF KeyKept, Others, KeyInv, Known, IInv, ReqOK
<1> QED BY <1>1 DEF KeyKept, KeyInv

\* A job that r is not at work on, before the step or after it.
LEMMA KeyBystander ==
    ASSUME NEW r \in Reqs, NEW j \in Jobs, KeyOK(j), Others(r),
           blame[j] \subseteq blame'[j],
           ~Touches(r, j), ~Touches(r, j)',
           row'[j] = row[j], scheduler'[j] = scheduler[j],
           once'[j] = once[j], onceFor'[j] = onceFor[j]
    PROVE  KeyOK(j)'
<1>1. \A q \in Reqs : Touches(q, j)' => q # r /\ Touches(q, j)
  BY DEF Others, Touches, Clearing
<1>2. \A q \in Reqs : Touches(q, j) => Touches(q, j)'
  BY DEF Others, Touches, Clearing
<1>3. /\ Live(j)' = Live(j) /\ OnceInStep(j)' = OnceInStep(j)
      /\ Clean(j)' => Clean(j)
      /\ KeyClean(j)' => KeyClean(j)
  BY DEF Live, OnceInStep, Clean, KeyClean
<1>4. row[j] = Gone /\ blame'[j] \cap {"overlap", "cascade"} = {} =>
          /\ Removed(j)'
          /\ \A q \in Reqs : Touches(q, j)' => op'[q] = "removeAll" /\ at'[q][j] = "idle"
  BY <1>1, <1>3 DEF KeyOK, Removed, Others
<1>5. Live(j)' /\ "overlap" \notin blame'[j] =>
          \A q \in Reqs : Touches(q, j)' => Progress(q, j)'
  BY <1>1, <1>3 DEF KeyOK, Progress, Others
<1>6. Live(j)' /\ Clean(j)' /\ KeyClean(j)' =>
          /\ Settled(j)' => OnceInStep(j)'
          /\ \A q \in Reqs : Touches(q, j)' /\ pc'[q] \in {"write", "now"} => OnceInStep(j)'
  BY <1>1, <1>2, <1>3 DEF KeyOK, Settled, Others
<1> QED BY <1>4, <1>5, <1>6 DEF KeyOK

\* A job that r is at work on, before the step or after it.
LEMMA KeyActing ==
    ASSUME NEW r \in Reqs, NEW j \in Jobs, Others(r),
           "overlap" \notin blame'[j] => \A q \in Reqs \ {r} : ~Touches(q, j),
           row'[j] = Unborn => scheduler'[j] = None /\ once'[j] = "none",
           row'[j] = Gone /\ blame'[j] \cap {"overlap", "cascade"} = {} =>
               /\ Removed(j)'
               /\ Touches(r, j)' => op'[r] = "removeAll" /\ at'[r][j] = "idle",
           Live(j)' /\ "overlap" \notin blame'[j] /\ Touches(r, j)' => Progress(r, j)',
           Live(j)' /\ Clean(j)' /\ KeyClean(j)' =>
               (Touches(r, j)' /\ pc'[r] = "clear") \/ OnceInStep(j)'
    PROVE  KeyOK(j)'
<1>1. "overlap" \notin blame'[j] => \A q \in Reqs \ {r} : ~Touches(q, j)'
  BY DEF Others, Touches, Clearing
<1>2. Clean(j)' => "overlap" \notin blame'[j]
  BY DEF Clean
<1>3. Live(j)' /\ Clean(j)' /\ KeyClean(j)' =>
          /\ Settled(j)' => OnceInStep(j)'
          /\ \A q \in Reqs : Touches(q, j)' /\ pc'[q] \in {"write", "now"} => OnceInStep(j)'
  BY <1>1, <1>2 DEF Settled
<1>4. row'[j] = Gone /\ blame'[j] \cap {"overlap", "cascade"} = {} =>
          \A q \in Reqs : Touches(q, j)' => op'[q] = "removeAll" /\ at'[q][j] = "idle"
  BY <1>1
<1> QED BY <1>1, <1>3, <1>4 DEF KeyOK

\* A step that leaves the rows and the queue alone and that r makes without
\* being at work on any job, before it or after it.
LEMMA KeyIdle ==
    ASSUME IInv, KeyInv, NEW r \in Reqs, Others(r), Known(r)',
           \A j \in Jobs : ~Touches(r, j) /\ ~Touches(r, j)',
           \A j \in Jobs : blame[j] \subseteq blame'[j],
           UNCHANGED <<row, scheduler, once, onceFor>>
    PROVE  KeyKept(r)
<1>1. ASSUME NEW j \in Jobs PROVE KeyOK(j)'
  BY KeyBystander DEF KeyInv
<1> QED BY <1>1 DEF KeyKept

\* The first steps of requests.
LEMMA ArriveKeepsKeys ==
    ASSUME IInv, KeyInv, NEW r \in Reqs, Arrive(r)
    PROVE  KeyKept(r)
<1> TypeOK /\ Others(r) /\ (\A j \in Jobs : KeyOK(j)) /\ Known(r)
  BY ArriveKept DEF IInv, KeyInv, Kept
<1>1. ASSUME NEW k \in Jobs, NEW new \in Row, NEW reply \in Replies,
             Insert(r, k, new, reply)
      PROVE  KeyKept(r)
  <2> DEFINE b == Blame(blame, Overlapping({k}), "overlap")
  <2>1. Free(r) /\ row[k] = Unborn
    BY <1>1 DEF Insert, Begin
  <2>2. /\ op'[r] = "create" /\ job'[r] = k
        /\ pc'[r] = IF reply = "ok" THEN "clear" ELSE "idle"
        /\ at'[r][k] = IF reply = "ok" THEN "cron" ELSE "idle"
        /\ \A j \in Jobs \ {k} : at'[r][j] = "idle"
        /\ row'[k] = new /\ \A j \in Jobs \ {k} : row'[j] = row[j]
        /\ UNCHANGED <<scheduler, once, onceFor>>
    BY <1>1, <2>1, FreeIdle DEF Insert, Begin, Answer, queueVars, TypeOK
  <2>3. new # Unborn /\ new # Gone
    BY SchedulingAssumption
  <2>4. b \in [Jobs -> SUBSET Causes]
    BY BlameTyped DEF TypeOK, Causes
  <2>5. /\ \A j \in Jobs : b[j] \subseteq blame'[j]
        /\ reply = "lost" => "failed" \in blame'[k]
    BY <1>1, <2>4, BlameTyped DEF Insert, Causes, Replies
  <2>6. /\ \A j \in Jobs : blame[j] \subseteq blame'[j]
        /\ "overlap" \notin blame'[k] => \A q \in Reqs : ~Touches(q, k)
    BY <2>1, <2>4, <2>5, BlameTyped, ArrivesAlone DEF TypeOK, Causes
  <2>7. KeyOK(k)'
    <3>1. Touches(r, k)' => Progress(r, k)'
      BY <2>2 DEF Touches, Clearing, Progress
    <3>2. Clean(k)' => Touches(r, k)' /\ pc'[r] = "clear"
      BY <2>2, <2>5 DEF Clean, Touches, Replies
    <3> QED BY <2>2, <2>3, <2>6, <3>1, <3>2, KeyActing
  <2>8. ASSUME NEW j \in Jobs, j # k PROVE KeyOK(j)'
    <3>1. ~Touches(r, j) /\ ~Touches(r, j)'
      BY <2>1, <2>2, <2>8, FreeIdle DEF Touches, Clearing
    <3> QED BY <2>2, <2>6, <2>8, <3>1, KeyBystander
  <2>9. Known(r)'
    BY <2>2, <2>3 DEF Known
  <2> QED BY <2>2, <2>3, <2>7, <2>8, <2>9 DEF KeyKept
<1>2. ASSUME NEW k \in Jobs, NEW o \in {"update", "remove"},
             NEW next \in {"write", "clear"},
             o = "update" <=> next = "write", Read(r, o, k, next)
      PROVE  KeyKept(r)
  <2>1. Free(r) /\ Live(k) /\ UNCHANGED <<row, scheduler, once, onceFor>>
    BY <1>2 DEF Read, Begin, tableVars, queueVars
  <2>2. /\ op'[r] = o /\ job'[r] = k /\ pc'[r] = next
        /\ at'[r][k] = IF next = "clear" THEN "cron" ELSE "idle"
        /\ \A j \in Jobs \ {k} : at'[r][j] = "idle"
    BY <1>2, <2>1, FreeIdle DEF Read, Begin, Answer, TypeOK, Replies
  <2>3. blame' = Blame(blame, Overlapping({k}), "overlap")
    BY <1>2 DEF Read
  <2>4. /\ \A j \in Jobs : blame[j] \subseteq blame'[j]
        /\ "overlap" \notin blame'[k] => \A q \in Reqs : ~Touches(q, k)
    BY <2>1, <2>3, BlameTyped, ArrivesAlone DEF TypeOK, Causes
  <2>5. KeyOK(k)'
    <3>1. Touches(r, k)' /\ Progress(r, k)'
      BY <1>2, <2>2 DEF Touches, Progress
    <3>2. Clean(k)' /\ KeyClean(k)' => OnceInStep(k)'
      <4>1. ASSUME Clean(k)', KeyClean(k)' PROVE OnceInStep(k)
        <5>1. Settled(k) /\ Clean(k) /\ KeyClean(k)
          BY <2>4, <4>1 DEF Clean, KeyClean, Settled
        <5> QED BY <2>1, <5>1 DEF KeyOK
      <4> QED BY <2>1, <4>1 DEF OnceInStep
    <3>3. row'[k] # Unborn /\ row'[k] # Gone
      BY <2>1 DEF Live
    <3> QED BY <2>4, <3>1, <3>2, <3>3, KeyActing
  <2>6. ASSUME NEW j \in Jobs, j # k PROVE KeyOK(j)'
    <3>1. ~Touches(r, j) /\ ~Touches(r, j)'
      BY <1>2, <2>1, <2>2, <2>6, FreeIdle DEF Touches, Clearing
    <3> QED BY <2>1, <2>4, <3>1, KeyBystander
  <2>7. Known(r)'
    BY <2>1, <2>2 DEF Known, Live
  <2> QED BY <2>1, <2>5, <2>6, <2>7 DEF KeyKept
<1>3. ASSUME NEW k \in Jobs, Read(r, "run", k, "add")
      PROVE  KeyKept(r)
  <2>1. /\ Free(r) /\ Live(k) /\ blame' = blame
        /\ UNCHANGED <<row, scheduler, once, onceFor>>
    BY <1>3 DEF Read, Begin, tableVars, queueVars
  <2>2. /\ op'[r] = "run" /\ job'[r] = k /\ pc'[r] = "add"
        /\ \A j \in Jobs : at'[r][j] = "idle"
    BY <1>3, <2>1, FreeIdle DEF Read, Begin, Answer, TypeOK, Replies
  <2>3. \A j \in Jobs : ~Touches(r, j) /\ ~Touches(r, j)'
    BY <2>1, <2>2, FreeIdle DEF Touches, Clearing
  <2>4. Known(r)'
    BY <2>1, <2>2 DEF Known, Live
  <2> QED BY <2>1, <2>3, <2>4, KeyIdle
<1>4. ASSUME BeginRemoveAll(r)
      PROVE  KeyKept(r)
  <2>1. Free(r) /\ UNCHANGED <<row, scheduler, once, onceFor>>
    BY <1>4 DEF BeginRemoveAll, Begin, tableVars, queueVars
  <2>2. /\ op'[r] = "removeAll" /\ pc'[r] = "clear"
        /\ \A j \in Jobs : at'[r][j] = IF Live(j) THEN "cron" ELSE "idle"
    BY <1>4 DEF BeginRemoveAll, Begin, Answer, TypeOK, Replies
  <2>3. blame' = Blame(blame, Overlapping(Jobs), "overlap")
    BY <1>4 DEF BeginRemoveAll
  <2>4. ASSUME NEW j \in Jobs PROVE KeyOK(j)'
    <3>1. /\ blame[j] \subseteq blame'[j]
          /\ "overlap" \notin blame'[j] => \A q \in Reqs : ~Touches(q, j)
      BY <2>1, <2>3, ArrivesAlone
    <3>2. row[j] = Unborn => scheduler'[j] = None /\ once'[j] = "none"
      BY <2>1 DEF KeyOK
    <3>3. row[j] = Gone /\ blame'[j] \cap {"overlap", "cascade"} = {} =>
             Removed(j)' /\ op'[r] = "removeAll" /\ at'[r][j] = "idle"
      BY <2>1, <2>2, <3>1 DEF KeyOK, Removed, KeyClean, Live
    <3>4. Live(j)' => Progress(r, j)'
      BY <2>1, <2>2 DEF Progress, Live
    <3>5. Touches(r, j)' /\ pc'[r] = "clear"
      BY <2>2 DEF Touches
    <3> QED BY <2>1, <3>1, <3>2, <3>3, <3>4, <3>5, KeyActing
  <2>5. Known(r)'
    BY <2>1, <2>2 DEF Known, Live
  <2> QED BY <2>1, <2>4, <2>5 DEF KeyKept
<1> QED BY <1>1, <1>2, <1>3, <1>4 DEF Arrive, BeginUpdate, BeginRemove, BeginRun

\* One step of clearSchedule on job k, as in ClearStep.
LEMMA ClearStepKeys ==
    ASSUME IInv, KeyInv, NEW r \in Reqs, Others(r), NEW k \in Jobs, at[r][k] # "idle",
           NEW v \in {"idle", "find", "drop"}, at' = [at EXCEPT ![r][k] = v],
           NEW next \in {pc[r], "idle"}, pc' = [pc EXCEPT ![r] = next],
           next # pc[r] => /\ v = "idle"
                           /\ \A j \in Jobs \cap Scope(r, k) : "failed" \in blame'[j],
           UNCHANGED <<tableVars, op, job, prev, cur>>,
           \A j \in Jobs : blame[j] \subseteq blame'[j],
           \A j \in Jobs \ {k} : /\ scheduler'[j] = scheduler[j]
                                 /\ once'[j] = once[j] /\ onceFor'[j] = onceFor[j],
           \/ next = "idle"
           \/ scheduler'[k] = None
           \/ at[r][k] # "cron" /\ scheduler'[k] = scheduler[k],
           v = "idle" /\ next # "idle" /\ KeyClean(k)' => once'[k] = "none"
    PROVE  KeyKept(r)
<1> TypeOK /\ ReqOK(r) /\ Known(r) /\ (\A j \in Jobs : JobOK(j) /\ KeyOK(j))
  BY DEF IInv, KeyInv
<1>1. /\ row' = row /\ op' = op /\ job' = job /\ pc'[r] = next /\ at'[r][k] = v
      /\ \A j \in Jobs \ {k} : at'[r][j] = at[r][j]
  BY DEF TypeOK, tableVars
<1>2. IF op[r] = "removeAll" THEN pc[r] \in {"clear", "idle"}
      ELSE pc[r] = "clear" /\ job[r] = k /\ op[r] # "run"
  BY DEF ReqOK
<1>3. Known(r)'
  BY <1>1, <1>2 DEF Known
<1>4. KeyOK(k)'
  <2>1. Touches(r, k) /\ row[k] # Unborn
    BY DEF Touches, Clearing, Known
  <2>2. ~(row[k] = Gone /\ blame'[k] \cap {"overlap", "cascade"} = {})
    BY <2>1 DEF KeyOK
  <2>3. Live(k) /\ "overlap" \notin blame'[k] => Progress(r, k)'
    BY <1>1, <1>2, <2>1 DEF KeyOK, Progress
  <2>4. Clean(k)' => Touches(r, k)' /\ pc'[r] = "clear"
    <3>1. ASSUME Clean(k)' PROVE next = pc[r] /\ pc[r] = "clear"
      BY <1>2, <3>1 DEF Clean, Scope, JobOK, LeftRunning
    <3> QED BY <1>1, <1>2, <3>1 DEF Touches
  <2> QED BY <1>1, <2>1, <2>2, <2>3, <2>4, WasAlone, KeyActing DEF Live
<1>5. ASSUME NEW j \in Jobs, j # k PROVE KeyOK(j)'
  <2>1. CASE ~Touches(r, j)
    <3>1. ~Touches(r, j)'
      BY <1>1, <1>2, <1>5, <2>1 DEF Touches, Clearing
    <3> QED BY <1>1, <1>5, <2>1, <3>1, KeyBystander
  <2>2. CASE Touches(r, j)
    <3>1. op[r] = "removeAll"
      BY <1>5, <2>2, OneJob DEF Touches, ReqOK
    <3>2. row'[j] = Unborn => scheduler'[j] = None /\ once'[j] = "none"
      BY <1>1, <1>5 DEF KeyOK
    <3>3. row'[j] = Gone /\ blame'[j] \cap {"overlap", "cascade"} = {} =>
             Removed(j)' /\ op'[r] = "removeAll" /\ at'[r][j] = "idle"
      BY <1>1, <1>5, <2>2 DEF KeyOK, Removed, KeyClean
    <3>4. Live(j)' /\ "overlap" \notin blame'[j] => Progress(r, j)'
      BY <1>1, <1>5, <2>2 DEF KeyOK, Progress, Live, KeyClean
    <3>5. Clean(j)' => Touches(r, j)' /\ pc'[r] = "clear"
      <4>1. ASSUME Clean(j)' PROVE next = pc[r] /\ pc[r] = "clear"
        BY <1>2, <2>2, <3>1, <4>1 DEF Clean, Scope, JobOK, LeftRunning, Touches, Clearing
      <4> QED BY <1>1, <3>1, <4>1 DEF Touches
    <3> QED BY <2>2, <3>2, <3>3, <3>4, <3>5, WasAlone, KeyActing
  <2> QED BY <2>1, <2>2
<1> QED BY <1>1, <1>3, <1>4, <1>5 DEF KeyKept

LEMMA ClearKeepsKeys ==
    ASSUME IInv, KeyInv, NEW r \in Reqs, Clear(r)
    PROVE  KeyKept(r)
<1> TypeOK /\ Others(r)
  BY ClearKept DEF IInv, Kept
<1> "ok" \in Replies /\ "lost" \in Replies
  BY DEF Replies
<1>1. ASSUME NEW k \in Jobs, NEW reply \in Replies, RemoveCronScheduler(r, k, reply)
      PROVE  KeyKept(r)
  <2>1. /\ \A j \in Jobs : blame[j] \subseteq blame'[j]
        /\ reply = "lost" => \A j \in Jobs \cap Scope(r, k) : "failed" \in blame'[j]
    BY <1>1, BlamingTyped DEF RemoveCronScheduler
  <2>2. PICK v \in {"idle", "find"} :
          at' = [at EXCEPT ![r][k] = v] /\ (v = "idle" <=> reply = "lost")
    BY <1>1 DEF RemoveCronScheduler, Step, Replies
  <2>3. PICK next \in {pc[r], "idle"} :
          /\ pc' = [pc EXCEPT ![r] = next]
          /\ next = IF reply = "ok" THEN pc[r] ELSE "idle"
    BY <1>1, Answered DEF RemoveCronScheduler, Replies
  <2>4. /\ scheduler'[k] = None /\ \A j \in Jobs \ {k} : scheduler'[j] = scheduler[j]
        /\ UNCHANGED <<once, onceFor>>
    BY <1>1 DEF RemoveCronScheduler, TypeOK
  <2>5. at[r][k] # "idle" /\ UNCHANGED <<tableVars, op, job, prev, cur>>
    BY <1>1 DEF RemoveCronScheduler, Step
  <2> QED BY <2>1, <2>2, <2>3, <2>4, <2>5, ClearStepKeys DEF Replies
<1>2. ASSUME NEW k \in Jobs, FindOnce(r, k)
      PROVE  KeyKept(r)
  <2>1. PICK v \in {"idle", "drop"} :
          at' = [at EXCEPT ![r][k] = v] /\ (v = "idle" => once[k] = "none")
    BY <1>2 DEF FindOnce, Step
  <2>2. /\ pc' = [pc EXCEPT ![r] = pc[r]] /\ blame' = blame
        /\ UNCHANGED <<scheduler, once, onceFor>> /\ at[r][k] = "find"
        /\ UNCHANGED <<tableVars, op, job, prev, cur>>
    BY <1>2 DEF FindOnce, Step, queueVars, TypeOK
  <2> QED BY <2>1, <2>2, ClearStepKeys
<1>3. ASSUME NEW k \in Jobs, RemoveOnce(r, k)
      PROVE  KeyKept(r)
  <2>1. \A j \in Jobs : blame[j] \subseteq blame'[j]
    BY <1>3, BlameTyped DEF RemoveOnce, TypeOK, Causes
  <2>2. KeyClean(k)' => once'[k] = "none"
    <3>1. once[k] = "active" => "locked" \in blame'[k]
      BY <1>3, BlameTyped DEF RemoveOnce, TypeOK, Causes
    <3> QED BY <1>3, <3>1 DEF RemoveOnce, KeyClean, TypeOK
  <2>3. \A j \in Jobs \ {k} : once'[j] = once[j] /\ onceFor'[j] = onceFor[j]
    BY <1>3 DEF RemoveOnce, TypeOK
  <2>4. /\ pc' = [pc EXCEPT ![r] = pc[r]] /\ scheduler' = scheduler
        /\ at[r][k] = "drop" /\ at' = [at EXCEPT ![r][k] = "idle"]
        /\ UNCHANGED <<tableVars, op, job, prev, cur>>
    BY <1>3 DEF RemoveOnce, Step, TypeOK
  <2> QED BY <2>1, <2>2, <2>3, <2>4, ClearStepKeys
<1>4. ASSUME NEW k \in Jobs, RemoveOnceFails(r, k)
      PROVE  KeyKept(r)
  <2>1. /\ \A j \in Jobs : blame[j] \subseteq blame'[j]
        /\ "failed" \in blame'[k]
    BY <1>4, BlameTyped DEF RemoveOnceFails, TypeOK, Causes
  <2>2. /\ pc' = [pc EXCEPT ![r] = pc[r]] /\ UNCHANGED <<scheduler, once, onceFor>>
        /\ at[r][k] = "drop" /\ at' = [at EXCEPT ![r][k] = "idle"]
        /\ UNCHANGED <<tableVars, op, job, prev, cur>>
    BY <1>4 DEF RemoveOnceFails, Step, queueVars, TypeOK
  <2> QED BY <2>1, <2>2, ClearStepKeys DEF KeyClean
<1>5. ASSUME NEW k \in Jobs, ClearFails(r, k)
      PROVE  KeyKept(r)
  <2>1. /\ \A j \in Jobs : blame[j] \subseteq blame'[j]
        /\ \A j \in Jobs \cap Scope(r, k) : "failed" \in blame'[j]
    BY <1>5, BlamingTyped DEF ClearFails
  <2>2. pc' = [pc EXCEPT ![r] = "idle"]
    BY <1>5, Answered DEF ClearFails
  <2>3. /\ UNCHANGED <<scheduler, once, onceFor, tableVars, op, job, prev, cur>>
        /\ at[r][k] # "idle" /\ at' = [at EXCEPT ![r][k] = "idle"]
    BY <1>5 DEF ClearFails, queueVars
  <2> QED BY <2>1, <2>2, <2>3, ClearStepKeys
<1> QED BY <1>1, <1>2, <1>3, <1>4, <1>5 DEF Clear

\* A step of a request to create, update or remove a job concerns that job; it
\* may end the work there, begin clearSchedule, or stay outside of it.
LEMMA OwnStepKeys ==
    ASSUME IInv, KeyInv, NEW r \in Reqs, Others(r), NEW k \in Jobs,
           pc[r] # "idle", op[r] \notin {"removeAll", "run"}, job[r] = k,
           at[r][k] = "idle", op' = op, job' = job,
           \A j \in Jobs : blame[j] \subseteq blame'[j],
           \A j \in Jobs \ {k} : /\ row'[j] = row[j] /\ at'[r][j] = at[r][j]
                                 /\ scheduler'[j] = scheduler[j]
                                 /\ once'[j] = once[j] /\ onceFor'[j] = onceFor[j],
           row'[k] # Unborn, Live(k)' => Live(k), row[k] = Gone => row'[k] = Gone,
           pc'[r] = "idle" => at'[r][k] = "idle",
           pc'[r] = "clear" => at'[r][k] = "cron",
           row'[k] = Gone /\ row[k] # Gone =>
               /\ pc'[r] = "idle" /\ pc[r] = "clear"
               /\ UNCHANGED <<scheduler, once>>,
           /\ Live(k)' /\ Clean(k) /\ KeyClean(k) /\ Clean(k)' /\ KeyClean(k)'
           /\ Duty(r, k) /\ Progress(r, k)
           /\ pc[r] \in {"write", "now"} => OnceInStep(k)
           => pc'[r] = "clear" \/ OnceInStep(k)'
    PROVE  KeyKept(r)
<1> TypeOK /\ ReqOK(r) /\ Known(r) /\ (\A j \in Jobs : JobOK(j) /\ KeyOK(j))
  BY DEF IInv, KeyInv
<1>1. Touches(r, k) /\ row[k] # Unborn
  BY DEF Touches, Known
<1>2. Touches(r, k)' <=> pc'[r] # "idle"
  BY DEF Touches, Clearing
<1>3. Known(r)'
  BY DEF Known, ReqOK
<1>4. KeyOK(k)'
  <2>1. row'[k] = Gone /\ blame'[k] \cap {"overlap", "cascade"} = {} =>
            Removed(k)' /\ ~Touches(r, k)'
    <3>1. SUFFICES ASSUME row'[k] = Gone, blame'[k] \cap {"overlap", "cascade"} = {}
                   PROVE  Removed(k)' /\ ~Touches(r, k)'
      OBVIOUS
    <3>2. row[k] # Gone
      BY <1>1, <3>1 DEF KeyOK
    <3>3. Progress(r, k)
      BY <1>1, <3>1, <3>2 DEF KeyOK, Live
    <3> QED BY <1>2, <3>1, <3>2, <3>3 DEF Progress, Removed, KeyClean
  <2>2. Progress(r, k)'
    BY DEF Progress
  <2>3. Live(k)' /\ Clean(k)' /\ KeyClean(k)' =>
            (Touches(r, k)' /\ pc'[r] = "clear") \/ OnceInStep(k)'
    <3>1. SUFFICES ASSUME Live(k)', Clean(k)', KeyClean(k)'
                   PROVE  pc'[r] = "clear" \/ OnceInStep(k)'
      BY <1>2
    <3>2. Live(k) /\ Clean(k) /\ KeyClean(k)
      BY <3>1 DEF Clean, KeyClean
    <3>3. Duty(r, k) /\ Progress(r, k) /\ (pc[r] \in {"write", "now"} => OnceInStep(k))
      BY <1>1, <3>2 DEF JobOK, KeyOK, Clean
    <3> QED BY <3>1, <3>2, <3>3
  <2> QED BY <1>1, <2>1, <2>2, <2>3, WasAlone, KeyActing
<1>5. ASSUME NEW j \in Jobs, j # k PROVE KeyOK(j)'
  <2>1. ~Touches(r, j) /\ ~Touches(r, j)'
    BY <1>5, OneJob DEF Touches, Clearing
  <2> QED BY <1>5, <2>1, KeyBystander
<1> QED BY <1>3, <1>4, <1>5 DEF KeyKept

\* The end of a removal of all jobs: no row is left, or a failure is put down.
LEMMA RemoveAllEndsKeys ==
    ASSUME IInv, KeyInv, NEW r \in Reqs, Others(r), Cleared(r), op[r] = "removeAll",
           UNCHANGED <<op, job, at, scheduler, once, onceFor>>,
           pc' = [pc EXCEPT ![r] = "idle"],
           \A j \in Jobs : blame[j] \subseteq blame'[j],
           row' = row \/ row' = Emptied,
           \A j \in Jobs : Live(j)' => "failed" \in blame'[j]
    PROVE  KeyKept(r)
<1> TypeOK /\ (\A j \in Jobs : JobOK(j) /\ KeyOK(j))
  BY DEF IInv, KeyInv
<1>1. /\ pc'[r] = "idle" /\ pc[r] = "clear" /\ \A j \in Jobs : at[r][j] = "idle"
      /\ Unborn # Gone
  BY SchedulingAssumption DEF TypeOK, Cleared, Clearing
<1>2. Known(r)'
  BY <1>1 DEF Known
<1>3. ASSUME NEW j \in Jobs PROVE KeyOK(j)' /\ (row'[j] = Unborn => row[j] = Unborn)
  <2>1. Touches(r, j) /\ ~Touches(r, j)'
    BY <1>1 DEF Touches, Clearing
  <2>2. row'[j] = Unborn => row[j] = Unborn
    BY <1>1 DEF Emptied
  <2>3. row'[j] = Gone /\ blame'[j] \cap {"overlap", "cascade"} = {} => Removed(j)'
    <3>1. SUFFICES ASSUME row'[j] = Gone, blame'[j] \cap {"overlap", "cascade"} = {}
                   PROVE  Removed(j)'
      OBVIOUS
    <3>2. row[j] = Gone \/ Live(j)
      BY <3>1, <1>1 DEF Emptied, Live
    <3>3. Removed(j)
      BY <1>1, <2>1, <3>1, <3>2 DEF KeyOK, Progress, Removed
    <3> QED BY <3>3 DEF Removed, KeyClean
  <2>4. ~(Live(j)' /\ Clean(j)')
    BY DEF Clean
  <2> QED BY <2>1, <2>2, <2>3, <2>4, WasAlone, KeyActing DEF KeyOK
<1> QED BY <1>2, <1>3 DEF KeyKept

LEMMA ProceedKeepsKeys ==
    ASSUME IInv, KeyInv, NEW r \in Reqs, Proceed(r)
    PROVE  KeyKept(r)
<1> TypeOK /\ ReqOK(r) /\ Known(r) /\ Others(r) /\ NoOrphanRow
    /\ (\A j \in Jobs : KeyOK(j))
  BY ProceedKept DEF IInv, KeyInv, Kept
<1> "ok" \in Replies /\ "lost" \in Replies
  BY DEF Replies
<1>1. ASSUME NEW new \in Row, NEW reply \in Replies, Write(r, new, reply)
      PROVE  KeyKept(r)
  <2> DEFINE k == job[r]
             again == Reschedules(prev[r], new)
  <2>1. /\ pc[r] = "write" /\ op[r] = "update" /\ k \in Jobs /\ Live(k)
        /\ at[r][k] = "idle"
    BY <1>1, OwnJob DEF Write
  <2>2. /\ \A j \in Jobs : blame[j] \subseteq blame'[j]
        /\ reply = "lost" => "failed" \in blame'[k]
    BY <1>1, <2>1, BlamingTyped DEF Write
  <2>3. /\ pc'[r] = IF again /\ reply = "ok" THEN "clear" ELSE "idle"
        /\ at'[r][k] = IF again /\ reply = "ok" THEN "cron" ELSE "idle"
        /\ \A j \in Jobs \ {k} : at'[r][j] = at[r][j] /\ row'[j] = row[j]
        /\ row'[k] = new /\ op' = op /\ job' = job
        /\ UNCHANGED <<scheduler, once, onceFor>>
    BY <1>1, <2>1, Answered DEF Write, queueVars, Replies, TypeOK
  <2>4. new # Unborn /\ new # Gone
    BY SchedulingAssumption
  <2>5. ASSUME Clean(k)', Duty(r, k), OnceInStep(k)
        PROVE  pc'[r] = "clear" \/ OnceInStep(k)'
    <3>1. reply = "ok" /\ prev[r] = row[k] /\ row[k] \in Row
      BY <2>1, <2>2, <2>3, <2>5 DEF Clean, Replies, Duty, TypeOK, Live
    <3>2. CASE again
      BY <2>3, <3>1, <3>2
    <3>3. CASE ~again
      <4>1. /\ row[k].status = "ACTIVE" /\ new.status = "ACTIVE"
            /\ row[k].cron = new.cron /\ row[k].start = new.start
        BY <3>1, <3>3 DEF Reschedules, Row
      <4> QED BY <2>3, <2>5, <4>1 DEF OnceInStep
    <3> QED BY <3>2, <3>3
  <2> QED BY <2>1, <2>2, <2>3, <2>4, <2>5, OwnStepKeys DEF Live
<1>2. ASSUME NEW reply \in Replies, RegisterCron(r, reply)
      PROVE  KeyKept(r)
  <2> DEFINE k == job[r]
  <2>1. /\ Cleared(r) /\ k \in Jobs /\ op[r] \in {"create", "update"}
        /\ at[r][k] = "idle" /\ pc[r] = "clear" /\ cur[r].cron \in Patterns
    BY <1>2, OwnJob DEF RegisterCron, Schedules, Cleared
  <2>2. \A j \in Jobs : blame[j] \subseteq blame'[j]
    BY <1>2, BlamingTyped DEF RegisterCron
  <2>3. pc'[r] \in {"idle", "now"}
    BY <1>2, Answered DEF RegisterCron, Replies
  <2>4. /\ UNCHANGED <<row, op, job, at, once, onceFor>>
        /\ \A j \in Jobs \ {k} : scheduler'[j] = scheduler[j]
    BY <1>2 DEF RegisterCron, TypeOK, tableVars
  <2>5. KeyClean(k) /\ Duty(r, k) /\ Progress(r, k) => OnceInStep(k)'
    BY <2>1, <2>4, SchedulingAssumption DEF Duty, Progress, OnceInStep
  <2>6. row[k] # Unborn
    BY <2>1 DEF Known
  <2> QED BY <2>1, <2>2, <2>3, <2>4, <2>5, <2>6, OwnStepKeys DEF Live
<1>3. ASSUME NEW reply \in Replies, EnqueueOnce(r, reply)
      PROVE  KeyKept(r)
  <2> DEFINE k == job[r]
  <2>1. /\ Cleared(r) /\ k \in Jobs /\ op[r] \in {"create", "update"}
        /\ at[r][k] = "idle" /\ pc[r] = "clear"
        /\ cur[r].cron = None /\ cur[r].status = "ACTIVE"
    BY <1>3, OwnJob DEF EnqueueOnce, Schedules, Cleared
  <2>2. \A j \in Jobs : blame[j] \subseteq blame'[j]
    BY <1>3, BlamingTyped DEF EnqueueOnce
  <2>3. pc'[r] = "idle"
    BY <1>3, Answered DEF EnqueueOnce, Replies
  <2>4. /\ UNCHANGED <<row, op, job, at, scheduler>>
        /\ \A j \in Jobs \ {k} : once'[j] = once[j] /\ onceFor'[j] = onceFor[j]
    BY <1>3 DEF EnqueueOnce, TypeOK, tableVars
  <2>5. once[k] = "none" => once'[k] = "delayed" /\ onceFor'[k] = cur[r].start
    BY <1>3, <2>1 DEF EnqueueOnce, TypeOK
  <2>6. KeyClean(k) /\ Duty(r, k) /\ Progress(r, k) => OnceInStep(k)'
    BY <2>1, <2>4, <2>5 DEF Duty, Progress, OnceInStep
  <2>7. row[k] # Unborn
    BY <2>1 DEF Known
  <2> QED BY <2>1, <2>2, <2>3, <2>4, <2>6, <2>7, OwnStepKeys DEF Live
<1>4. ASSUME NEW reply \in Replies, AddRun(r, reply)
      PROVE  KeyKept(r)
  <2>1. \A j \in Jobs : blame[j] \subseteq blame'[j]
    BY <1>4, BlamingTyped DEF AddRun
  <2>2. pc'[r] = "idle"
    BY <1>4, Answered DEF AddRun, Replies
  <2>3. UNCHANGED <<row, scheduler, once, onceFor, op, job, at>>
    BY <1>4 DEF AddRun, tableVars
  <2>4. CASE pc[r] = "add"
    <3>1. \A j \in Jobs : ~Touches(r, j) /\ ~Touches(r, j)'
      BY <2>2, <2>3, <2>4 DEF Touches, Clearing, ReqOK
    <3>2. Known(r)'
      BY <2>2, <2>3 DEF Known
    <3> QED BY <2>1, <2>3, <3>1, <3>2, KeyIdle
  <2>5. CASE pc[r] = "now"
    <3> DEFINE k == job[r]
    <3>1. op[r] = "create" /\ k \in Jobs /\ at[r][k] = "idle" /\ row[k] # Unborn
      BY <2>5, OwnJob DEF Known
    <3>2. OnceInStep(k) => OnceInStep(k)'
      BY <2>3 DEF OnceInStep
    <3> QED BY <2>1, <2>2, <2>3, <2>5, <3>1, <3>2, OwnStepKeys DEF Live
  <2> QED BY <1>4, <2>4, <2>5 DEF AddRun
<1>5. ASSUME NEW reply \in Replies, DeleteRow(r, reply)
      PROVE  KeyKept(r)
  <2> DEFINE k == job[r]
  <2>1. /\ Cleared(r) /\ k \in Jobs /\ op[r] = "remove" /\ Live(k)
        /\ at[r][k] = "idle" /\ pc[r] = "clear"
    BY <1>5, OwnJob DEF DeleteRow, Cleared
  <2>2. \A j \in Jobs : blame[j] \subseteq blame'[j]
    BY <1>5, BlamingTyped DEF DeleteRow
  <2>3. pc'[r] = "idle"
    BY <1>5, Answered DEF DeleteRow, Replies
  <2>4. /\ UNCHANGED <<scheduler, once, onceFor, op, job, at>>
        /\ row'[k] = Gone /\ \A j \in Jobs \ {k} : row'[j] = row[j]
    BY <1>5, <2>1 DEF DeleteRow, queueVars, TypeOK
  <2>5. ~Live(k)' /\ Gone # Unborn
    BY <2>4, SchedulingAssumption DEF Live
  <2> QED BY <2>1, <2>2, <2>3, <2>4, <2>5, OwnStepKeys
<1>6. ASSUME NEW reply \in Replies, DeleteDatapoint(r, reply)
      PROVE  KeyKept(r)
  <2>1. \A j \in Jobs : blame[j] \subseteq blame'[j]
    BY <1>6, BlamingTyped DEF DeleteDatapoint
  <2>2. pc' = [pc EXCEPT ![r] = "idle"]
    BY <1>6, Answered DEF DeleteDatapoint, Replies
  <2>3. \A j \in Jobs : ~Live(j)'
    BY <1>6 DEF DeleteDatapoint, Emptied, Live
  <2>4. /\ Cleared(r) /\ op[r] = "removeAll" /\ row' = Emptied
        /\ UNCHANGED <<op, job, at, scheduler, once, onceFor>>
    BY <1>6 DEF DeleteDatapoint, queueVars
  <2> QED BY <2>1, <2>2, <2>3, <2>4, RemoveAllEndsKeys
<1>7. ASSUME RejectCron(r) \/ StayPaused(r)
      PROVE  KeyKept(r)
  <2> DEFINE k == job[r]
  <2>1. /\ Cleared(r) /\ k \in Jobs /\ op[r] \in {"create", "update"}
        /\ at[r][k] = "idle" /\ pc[r] = "clear"
        /\ cur[r].cron \in BadPatterns \/ cur[r].status = "PAUSED"
    BY <1>7, OwnJob DEF RejectCron, StayPaused, Schedules, Cleared, ReqOK
  <2>2. pc'[r] = "idle"
    BY <1>7, Answered DEF RejectCron, StayPaused
  <2>3. /\ UNCHANGED <<row, scheduler, once, onceFor, op, job, at>>
        /\ blame' = blame
    BY <1>7 DEF RejectCron, StayPaused, queueVars, tableVars
  <2>4. KeyClean(k) /\ Duty(r, k) /\ Progress(r, k) => OnceInStep(k)'
    BY <2>1, <2>3, SchedulingAssumption DEF Duty, Progress, OnceInStep
  <2>5. row[k] # Unborn
    BY <2>1 DEF Known
  <2> QED BY <2>1, <2>2, <2>3, <2>4, <2>5, OwnStepKeys DEF Live
<1>8. ASSUME RowMissing(r)
      PROVE  KeyKept(r)
  <2>1. /\ pc' = [pc EXCEPT ![r] = "idle"] /\ pc'[r] = "idle" /\ blame' = blame
        /\ UNCHANGED <<row, scheduler, once, onceFor, op, job, at>>
    BY <1>8, Answered DEF RowMissing, queueVars, tableVars
  <2>2. CASE Cleared(r) /\ op[r] = "removeAll" /\ ~datapoint
    BY <2>1, <2>2, RemoveAllEndsKeys DEF NoOrphanRow, Live
  <2>3. CASE \/ pc[r] = "write" /\ ~Live(job[r])
             \/ Cleared(r) /\ op[r] = "remove" /\ ~Live(job[r])
    <3>1. /\ pc[r] # "idle" /\ op[r] \notin {"removeAll", "run"}
          /\ job[r] \in Jobs /\ at[r][job[r]] = "idle" /\ ~Live(job[r])
          /\ row[job[r]] # Unborn
      BY <2>3, OwnJob DEF Cleared, Known
    <3> QED BY <2>1, <3>1, OwnStepKeys DEF Live
  <2> QED BY <1>8, <2>2, <2>3 DEF RowMissing
<1>9. ASSUME CallFails(r)
      PROVE  KeyKept(r)
  <2>1. /\ \A j \in Jobs : blame[j] \subseteq blame'[j]
        /\ \A j \in Jobs \cap Scope(r, job[r]) : "failed" \in blame'[j]
    BY <1>9, BlamingTyped DEF CallFails
  <2>2. /\ pc' = [pc EXCEPT ![r] = "idle"] /\ pc'[r] = "idle"
        /\ UNCHANGED <<row, scheduler, once, onceFor, op, job, at>>
    BY <1>9, Answered DEF CallFails, queueVars, tableVars
  <2>3. CASE pc[r] = "add"
    <3>1. \A j \in Jobs : ~Touches(r, j) /\ ~Touches(r, j)'
      BY <2>2, <2>3 DEF Touches, Clearing, ReqOK
    <3>2. Known(r)'
      BY <2>2 DEF Known
    <3> QED BY <2>1, <2>2, <3>1, <3>2, KeyIdle
  <2>4. CASE Cleared(r) /\ op[r] = "removeAll"
    BY <2>1, <2>2, <2>4, RemoveAllEndsKeys DEF Scope
  <2>5. CASE pc[r] \in {"write", "now"} \/ (Cleared(r) /\ op[r] # "removeAll")
    <3>1. /\ pc[r] # "idle" /\ op[r] \notin {"removeAll", "run"}
          /\ job[r] \in Jobs /\ at[r][job[r]] = "idle" /\ row[job[r]] # Unborn
      BY <2>5, OwnJob DEF Cleared, Known
    <3>2. ~Clean(job[r])'
      BY <2>1, <2>2, <3>1 DEF Scope, Clean
    <3> QED BY <2>1, <2>2, <3>1, <3>2, OwnStepKeys DEF Live
  <2> QED BY <1>9, <2>3, <2>4, <2>5 DEF CallFails
<1> QED BY <1>1, <1>2, <1>3, <1>4, <1>5, <1>6, <1>7, <1>8, <1>9 DEF Proceed

\* What happens outside the requests: a cascade, and the queue's own steps,
\* which neither free a one-time key nor take a free one.
LEMMA OutsideKeepsKeys ==
    ASSUME IInv, KeyInv,
           \/ Cascade
           \/ \E j \in Jobs : CronFires(j) \/ TakeRun(j) \/ OnceAdvances(j)
    PROVE  KeyInv'
<1> TypeOK /\ (\A j \in Jobs : KeyOK(j)) /\ (\A r \in Reqs : Known(r) /\ ReqOK(r))
  BY DEF IInv, KeyInv
<1>1. CASE Cascade
  <2>1. /\ UNCHANGED <<pc, op, job, at, scheduler, once>>
        /\ row' = Emptied /\ blame' = Blame(blame, Jobs, "cascade")
    BY <1>1 DEF Cascade, reqVars, queueVars
  <2>2. \A j \in Jobs : /\ row'[j] # Unborn <=> row[j] # Unborn
                        /\ ~Live(j)' /\ "cascade" \in blame'[j]
    BY <2>1, BlameTyped, SchedulingAssumption DEF Emptied, Live, TypeOK, Causes
  <2>3. ASSUME NEW j \in Jobs PROVE KeyOK(j)'
    BY <2>1, <2>2 DEF KeyOK
  <2>4. ASSUME NEW r \in Reqs PROVE Known(r)'
    BY <2>1, <2>2 DEF Known, ReqOK
  <2> QED BY <2>3, <2>4 DEF KeyInv
<1>2. CASE \E j \in Jobs : CronFires(j) \/ TakeRun(j) \/ OnceAdvances(j)
  <2>1. UNCHANGED <<row, scheduler, onceFor, pc, op, job, at, blame>>
    BY <1>2 DEF CronFires, TakeRun, OnceAdvances, OnceMoves, tableVars, reqVars
  <2>2. \A j \in Jobs : once'[j] = "none" <=> once[j] = "none"
    BY <1>2 DEF CronFires, TakeRun, OnceAdvances, OnceMoves, TypeOK
  <2>3. ASSUME NEW j \in Jobs PROVE KeyOK(j)'
    BY <2>1, <2>2 DEF KeyOK, Removed, Progress, KeyClean, Clean, Live, Settled,
       Touches, Clearing, OnceInStep
  <2>4. ASSUME NEW r \in Reqs PROVE Known(r)'
    BY <2>1 DEF Known
  <2> QED BY <2>3, <2>4 DEF KeyInv
<1> QED BY <1>1, <1>2

\* The second inductive invariant, which rests on the first.
LEMMA KeysInvariant == Spec => []KeyInv
<1>1. Init => KeyInv
  <2>1. Init => \A r \in Reqs, j \in Jobs : ~Touches(r, j) /\ at[r][j] = "idle"
    BY DEF Init, Touches, Clearing
  <2>2. Init => \A j \in Jobs : KeyOK(j)
    BY <2>1, SchedulingAssumption DEF Init, KeyOK, Live
  <2> QED BY <2>1, <2>2 DEF Init, KeyInv, Known
<1>2. IInv /\ KeyInv /\ [Next]_vars => KeyInv'
  <2> SUFFICES ASSUME IInv, KeyInv, [Next]_vars PROVE KeyInv'
    OBVIOUS
  <2>1. CASE UNCHANGED vars
    BY <2>1 DEF vars, tableVars, queueVars, reqVars, bounds, KeyInv, Known, KeyOK,
       Removed, Progress, KeyClean, Clean, Live, Settled, Touches, Clearing, OnceInStep
  <2>2. ASSUME NEW r \in Reqs, Arrive(r) \/ Clear(r) \/ Proceed(r)
        PROVE  KeyInv'
    <3>1. Others(r)
      BY <2>2, ArriveKept, ClearKept, ProceedKept DEF Kept
    <3>2. KeyKept(r)
      BY <2>2, ArriveKeepsKeys, ClearKeepsKeys, ProceedKeepsKeys
    <3> QED BY <3>1, <3>2, KeyKeptSuffices
  <2> QED BY <2>1, <2>2, OutsideKeepsKeys DEF Next, Quiescent
<1> QED BY <1>1, <1>2, Invariance, PTL DEF Spec

\* The one-time entry of a live, undisturbed job is there exactly while the
\* row asks for it, and for the date the row names (enqueueOnce and
\* clearSchedule in job-scheduler.service.ts).
THEOREM OnceEntryFollowsRow == Spec => []OnceFollowsRow
<1>1. KeyInv => OnceFollowsRow
  BY DEF KeyInv, KeyOK, OnceFollowsRow, Undisturbed, Clean, KeyClean, OnceInStep
<1> QED BY <1>1, KeysInvariant, PTL

\* Whatever calls fail, a job that is gone leaves a scheduler behind only if a
\* cascade took it or requests overlapped on it, and a one-time entry only if
\* one of these did or its removal failed or was refused (JobsService.remove
\* and DatapointsService.remove clear before they delete).
THEOREM OrphansAreExplained == Spec => []OrphansExplained
<1>1. KeyInv => OrphansExplained
  BY DEF KeyInv, KeyOK, OrphansExplained, Undisturbed, Removed, KeyClean
<1> QED BY <1>1, KeysInvariant, PTL

\* Nothing but a manual run starts a job that is paused and undisturbed.
THEOREM PausedJobsStayQuiet == Spec => PausedStaysQuiet
<1> DEFINE Disturbing == \A j \in Jobs :
      /\ Live(j) /\ row[j].status = "PAUSED"
      /\ Undisturbed(j, {"overlap", "failed", "locked"})
      => /\ runs'[j] > runs[j] => Manual(j)
         /\ once'[j] # "waiting"
<1>1. IInv /\ KeyInv /\ [Next]_vars => [Disturbing]_vars
  <2> SUFFICES ASSUME IInv, KeyInv, Next, NEW j \in Jobs,
                      Live(j), row[j].status = "PAUSED",
                      Undisturbed(j, {"overlap", "failed", "locked"})
               PROVE  /\ runs'[j] > runs[j] => Manual(j)
                      /\ once'[j] # "waiting"
    OBVIOUS
  <2> TypeOK /\ \A r \in Reqs : ReqOK(r) /\ ~Touches(r, j)
    BY DEF IInv, Undisturbed, Settled
  <2>1. scheduler[j] = None /\ once[j] = "none"
    BY DEF IInv, JobOK, KeyInv, KeyOK, Undisturbed, Clean, KeyClean, InStep, Wanted,
       OnceInStep
  <2>2. runs[j] \in Nat
    BY SchedulingAssumption DEF TypeOK
  <2>3. ASSUME NEW r \in Reqs, Arrive(r) PROVE runs' = runs /\ once' = once
    BY <2>3 DEF Arrive, Insert, BeginUpdate, BeginRemove, BeginRun, BeginRemoveAll,
       Read, queueVars
  <2>4. ASSUME NEW r \in Reqs, Clear(r)
        PROVE  runs' = runs /\ once'[j] # "waiting"
    BY <2>1, <2>4 DEF Clear, RemoveCronScheduler, FindOnce, RemoveOnce,
       RemoveOnceFails, ClearFails, queueVars, TypeOK
  <2>5. ASSUME NEW r \in Reqs, Proceed(r)
        PROVE  /\ runs'[j] > runs[j] => Manual(j)
               /\ once'[j] # "waiting"
    <3>1. ASSUME NEW reply \in Replies, AddRun(r, reply)
          PROVE  /\ runs'[j] > runs[j] => Manual(j)
                 /\ once' = once
      <4>1. ASSUME runs'[j] > runs[j] PROVE Manual(j)
        <5>1. job[r] = j
          BY <2>2, <3>1, <4>1 DEF AddRun, TypeOK
        <5>2. pc[r] = "add"
          BY <3>1, <5>1 DEF AddRun, ReqOK, Touches
        <5>3. pc'[r] = "idle"
          BY <3>1, Answered DEF AddRun, Replies
        <5> QED BY <5>1, <5>2, <5>3 DEF Manual
      <4> QED BY <3>1, <4>1 DEF AddRun
    <3>2. ASSUME NEW reply \in Replies, EnqueueOnce(r, reply)
          PROVE  runs' = runs /\ once'[j] # "waiting"
      BY <2>1, <3>2 DEF EnqueueOnce, TypeOK
    <3>3. ASSUME \/ \E reply \in Replies :
                       \/ \E new \in Row : Write(r, new, reply)
                       \/ RegisterCron(r, reply)
                       \/ DeleteRow(r, reply)
                       \/ DeleteDatapoint(r, reply)
                 \/ RejectCron(r) \/ StayPaused(r) \/ RowMissing(r) \/ CallFails(r)
          PROVE  runs' = runs /\ once' = once
      BY <3>3 DEF Write, RegisterCron, DeleteRow, DeleteDatapoint, RejectCron,
         StayPaused, RowMissing, CallFails, queueVars
    <3> QED BY <2>1, <2>2, <2>5, <3>1, <3>2, <3>3 DEF Proceed
  <2>6. ASSUME NEW k \in Jobs, CronFires(k) \/ TakeRun(k) \/ OnceAdvances(k)
        PROVE  ~(runs'[j] > runs[j]) /\ once'[j] # "waiting"
    BY <2>1, <2>2, <2>6 DEF CronFires, TakeRun, OnceAdvances, OnceMoves, TypeOK
  <2>7. Cascade \/ Quiescent => runs' = runs /\ once' = once
    BY DEF Cascade, Quiescent, vars, queueVars
  <2>8. runs' = runs => ~(runs'[j] > runs[j])
    BY <2>2
  <2> QED BY <2>1, <2>3, <2>4, <2>5, <2>6, <2>7, <2>8 DEF Next
<1> QED BY <1>1, Invariance, KeysInvariant, PTL DEF Spec, PausedStaysQuiet
=============================================================================
