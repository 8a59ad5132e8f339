----------------------- MODULE ExecutionLifecycle_proofs -----------------------
(***************************************************************************)
(* Theorems about ExecutionLifecycle, for every number of jobs, runs,      *)
(* workers and execution ids and for every bound on faults, crashes and    *)
(* expired locks.                                                          *)
(***************************************************************************)
EXTENDS ExecutionLifecycle, TLAPS

-----------------------------------------------------------------------------
\* Updating a function at a point keeps its type, also when the point is not
\* in its domain (a worker without an execution updates nothing).

\* A value of the range may be written anywhere.
LEMMA Update ==
    ASSUME NEW S, NEW T, NEW f \in [S -> T], NEW x, NEW v \in T
    PROVE  [f EXCEPT ![x] = v] \in [S -> T]
  OBVIOUS

\* Counting up one entry of a table of counters.
LEMMA Bump ==
    ASSUME NEW S, NEW T, NEW f \in [S -> [T -> Nat]], NEW x, NEW t \in T
    PROVE  [f EXCEPT ![x][t] = f[x][t] + 1] \in [S -> [T -> Nat]]
<1>1. CASE x \in S
  <2>1. [f[x] EXCEPT ![t] = f[x][t] + 1] \in [T -> Nat]
    BY <1>1
  <2> QED BY <1>1, <2>1
<1>2. CASE x \notin S
  BY <1>2
<1> QED BY <1>1, <1>2

\* Adding one member to a set-valued entry.
LEMMA Insert ==
    ASSUME NEW S, NEW T, NEW f \in [S -> SUBSET T], NEW x, NEW t \in T
    PROVE  [f EXCEPT ![x] = f[x] \cup {t}] \in [S -> SUBSET T]
<1>1. CASE x \in S
  <2>1. f[x] \cup {t} \in SUBSET T
    BY <1>1
  <2> QED BY <2>1, Update
<1>2. CASE x \notin S
  BY <1>2
<1> QED BY <1>1, <1>2

-----------------------------------------------------------------------------
\* Typing.

\* An await leaves every worker at a step and every bound kept.
LEMMA AwaitTyped ==
    ASSUME TypeOK, NEW w \in Workers, NEW here, NEW next \in Steps,
           NEW reply \in Replies, Await(w, here, next, reply)
    PROVE  pc' \in [Workers -> Steps] /\ BoundsTyped'
<1>1. OnError(here) \in Steps
  BY DEF OnError, Steps, CatchSteps
<1>2. pc' \in [Workers -> Steps]
  BY <1>1 DEF Await, TypeOK
<1>3. faults' \in 0..MaxFaults
  BY ConstantsAssumption DEF Await, TypeOK, BoundsTyped, Replies
<1> QED
  BY <1>2, <1>3 DEF Await, TypeOK, BoundsTyped

\* The named groups of variables keep their types when nothing touches them.
LEMMA UnchangedTyped ==
    ASSUME TypeOK
    PROVE  /\ UNCHANGED rowVars => RowsTyped'
           /\ UNCHANGED queueVars => QueueTyped'
           /\ UNCHANGED localVars => LocalsTyped'
           /\ UNCHANGED outVars => OutTyped'
           /\ UNCHANGED bounds => BoundsTyped'
  BY DEF TypeOK, RowsTyped, QueueTyped, LocalsTyped, OutTyped, BoundsTyped,
         rowVars, queueVars, localVars, outVars, bounds

\* A worker that forgets its run or dies leaves nothing ill-typed behind.
LEMMA ForgetTyped ==
    ASSUME TypeOK, NEW w \in Workers, Forget(w), Release(w)
    PROVE  /\ pc' \in [Workers -> Steps]
           /\ LocalsTyped'
           /\ lock' \in [Runs -> Workers \cup {None}]
  BY DEF TypeOK, LocalsTyped, QueueTyped, Forget, Release, Steps

\* A step of the processor keeps the types.
LEMMA WorkTyped ==
    ASSUME TypeOK, NEW w \in Workers, Work(w)
    PROVE  TypeOK'
<1> "ok" \in Replies
  BY DEF Replies
<1> /\ {"saveResult", "logDone", "markDone", "markActive", "pushDone"} \subseteq Steps
    /\ {"target", "scrape", "compare", "emitDone", "resolve", "reject"} \subseteq Steps
    /\ {"logError", "markFailed", "reportFailed"} \subseteq Steps
  BY DEF Steps, TrySteps, CatchSteps
<1> /\ "DONE" \in Outcomes /\ "FAILED" \in Outcomes
    /\ "DONE" \in Events /\ "FAILED" \in Events /\ "DIFF" \in Events
    /\ emits \in [Execs -> [Events -> Nat]]
    /\ pushes \in [Execs -> [Outcomes -> Nat]]
  BY DEF TypeOK, OutTyped, Outcomes, Events
<1>1. ASSUME NEW e \in Execs, NEW reply \in Replies, InitExecution(w, e, reply)
      PROVE  TypeOK'
  <2>1. pc' \in [Workers -> Steps] /\ BoundsTyped'
    BY <1>1, AwaitTyped DEF InitExecution
  <2>2. RowsTyped'
    BY <1>1 DEF InitExecution, TypeOK, RowsTyped, LocalsTyped, Statuses
  <2>3. LocalsTyped'
    BY <1>1 DEF InitExecution, TypeOK, LocalsTyped
  <2> QED BY <1>1, <2>1, <2>2, <2>3, UnchangedTyped DEF InitExecution, TypeOK
<1>2. ASSUME FetchJobTarget(w) PROVE TypeOK'
  <2>1. pc' \in [Workers -> Steps] /\ BoundsTyped'
    BY <1>2, AwaitTyped DEF FetchJobTarget
  <2> QED BY <1>2, <2>1, UnchangedTyped DEF FetchJobTarget, TypeOK
<1>3. ASSUME NEW t \in Texts, Scrape(w, t) PROVE TypeOK'
  <2>1. pc' \in [Workers -> Steps] /\ BoundsTyped'
    BY <1>3, AwaitTyped DEF Scrape
  <2>2. LocalsTyped'
    BY <1>3 DEF Scrape, TypeOK, LocalsTyped
  <2> QED BY <1>3, <2>1, <2>2, UnchangedTyped DEF Scrape, TypeOK
<1>4. ASSUME ScrapeFails(w) PROVE TypeOK'
  <2>1. pc' \in [Workers -> Steps]
    BY <1>4 DEF ScrapeFails, OnError, TypeOK
  <2> QED BY <1>4, <2>1, UnchangedTyped DEF ScrapeFails, TypeOK
<1>5. ASSUME NEW reply \in Replies, SaveResult(w, reply) PROVE TypeOK'
  <2>1. pc' \in [Workers -> Steps] /\ BoundsTyped'
    BY <1>5, AwaitTyped DEF SaveResult
  <2>2. result' \in [Execs -> Texts \cup {None}]
    BY <1>5, Update DEF SaveResult, TypeOK, RowsTyped, LocalsTyped
  <2>3. RowsTyped'
    BY <1>5, <2>2 DEF SaveResult, TypeOK, RowsTyped
  <2> QED BY <1>5, <2>1, <2>3, UnchangedTyped DEF SaveResult, TypeOK
<1>6. ASSUME NEW reply \in Replies, NEW here, NEW next \in Steps,
             NEW level \in {"INFO", "ERROR"}, SaveLog(w, here, level, next, reply)
      PROVE  TypeOK'
  <2>1. pc' \in [Workers -> Steps] /\ BoundsTyped'
    BY <1>6, AwaitTyped DEF SaveLog
  <2>2. logs' = [logs EXCEPT ![exec[w]] = logs[exec[w]] \cup {level}]
    BY <1>6 DEF SaveLog
  <2>3. logs' \in [Execs -> SUBSET {"INFO", "ERROR"}]
    BY <2>2, Insert DEF TypeOK, RowsTyped
  <2>4. RowsTyped'
    BY <1>6, <2>3 DEF SaveLog, TypeOK, RowsTyped
  <2> QED BY <1>6, <2>1, <2>4, UnchangedTyped DEF SaveLog, TypeOK
<1>7. ASSUME NEW reply \in Replies, NEW here, NEW next \in Steps,
             NEW outcome \in Outcomes,
             Await(w, here, next, reply), Mark(w, outcome)
      PROVE  TypeOK'
  <2>1. pc' \in [Workers -> Steps] /\ BoundsTyped'
    BY <1>7, AwaitTyped
  <2>2. clock' \in Nat
    BY <1>7 DEF Mark, TypeOK, RowsTyped
  <2>3. finishedAt' = [finishedAt EXCEPT ![exec[w]] = clock']
    BY <1>7 DEF Mark
  <2>4. finishedAt' \in [Execs -> Nat]
    BY <2>2, <2>3, Update DEF TypeOK, RowsTyped
  <2>5. status' \in [Execs -> Statuses]
    BY <1>7, Update DEF Mark, Outcomes, Statuses, TypeOK, RowsTyped
  <2>6. RowsTyped'
    BY <1>7, <2>2, <2>4, <2>5 DEF Mark, TypeOK, RowsTyped
  <2> QED BY <1>7, <2>1, <2>6, UnchangedTyped DEF Mark, TypeOK
<1>8. ASSUME NEW reply \in Replies, MarkTargetActive(w, reply) PROVE TypeOK'
  <2>1. pc' \in [Workers -> Steps] /\ BoundsTyped'
    BY <1>8, AwaitTyped DEF MarkTargetActive
  <2>2. RowsTyped'
    BY <1>8 DEF MarkTargetActive, TypeOK, RowsTyped
  <2> QED BY <1>8, <2>1, <2>2, UnchangedTyped DEF MarkTargetActive, TypeOK
<1>9. ASSUME PushDone(w) PROVE TypeOK'
  <2>1. pc' \in [Workers -> Steps] /\ BoundsTyped'
    BY <1>9, AwaitTyped DEF PushDone
  <2>2. pushes' = [pushes EXCEPT ![exec[w]]["DONE"] = pushes[exec[w]]["DONE"] + 1]
    BY <1>9 DEF PushDone
  <2>3. pushes' \in [Execs -> [Outcomes -> Nat]]
    BY <2>2, Bump
  <2>4. OutTyped'
    BY <1>9, <2>3 DEF PushDone, OutTyped
  <2> QED BY <1>9, <2>1, <2>4, UnchangedTyped DEF PushDone, TypeOK
<1>10. ASSUME Compare(w) PROVE TypeOK'
  <2>1. pc' \in [Workers -> Steps] /\ BoundsTyped'
    BY <1>10, AwaitTyped DEF Compare
  <2>2. LatestTwoDiffer(Job(w)) \in BOOLEAN
    BY DEF LatestTwoDiffer
  <2>3. LocalsTyped'
    BY <1>10, <2>2 DEF Compare, TypeOK, LocalsTyped
  <2> QED BY <1>10, <2>1, <2>3, UnchangedTyped DEF Compare, TypeOK
<1>11. ASSUME EmitDone(w) PROVE TypeOK'
  <2>1. pc' \in [Workers -> Steps] /\ BoundsTyped'
    BY <1>11, AwaitTyped DEF EmitDone
  <2>2. DEFINE f == [emits EXCEPT ![exec[w]]["DONE"] = emits[exec[w]]["DONE"] + 1]
  <2>3. f \in [Execs -> [Events -> Nat]]
    BY Bump
  <2>4. emits' = [f EXCEPT ![exec[w]]["DIFF"] =
                    IF differs[w] THEN f[exec[w]]["DIFF"] + 1 ELSE f[exec[w]]["DIFF"]]
    BY <1>11 DEF EmitDone
  <2> HIDE DEF f
  <2>5. emits' \in [Execs -> [Events -> Nat]]
    <3>1. CASE differs[w]
      <4>1. emits' = [f EXCEPT ![exec[w]]["DIFF"] = f[exec[w]]["DIFF"] + 1]
        BY <2>4, <3>1
      <4> QED BY <2>3, <4>1, Bump
    <3>2. CASE ~differs[w]
      <4>1. emits' = f
        BY <2>3, <2>4, <3>2
      <4> QED BY <2>3, <4>1
    <3> QED BY <3>1, <3>2
  <2>6. OutTyped'
    BY <1>11, <2>5 DEF EmitDone, TypeOK, OutTyped
  <2> QED BY <1>11, <2>1, <2>6, UnchangedTyped DEF EmitDone, TypeOK
<1>12. ASSUME ReportFailed(w) PROVE TypeOK'
  <2>1. pc' \in [Workers -> Steps] /\ BoundsTyped'
    BY <1>12, AwaitTyped DEF ReportFailed
  <2>2. pushes' = [pushes EXCEPT ![exec[w]]["FAILED"] = pushes[exec[w]]["FAILED"] + 1]
    BY <1>12 DEF ReportFailed
  <2>3. emits' = [emits EXCEPT ![exec[w]]["FAILED"] = emits[exec[w]]["FAILED"] + 1]
    BY <1>12 DEF ReportFailed
  <2>4. OutTyped'
    BY <2>2, <2>3, Bump DEF OutTyped
  <2> QED BY <1>12, <2>1, <2>4, UnchangedTyped DEF ReportFailed, TypeOK
<1>13. ASSUME QueryFails(w) PROVE TypeOK'
  <2>1. pc' \in [Workers -> Steps]
    BY <1>13 DEF QueryFails, OnError, TypeOK
  <2>2. BoundsTyped'
    BY <1>13, ConstantsAssumption DEF QueryFails, TypeOK, BoundsTyped
  <2> QED BY <1>13, <2>1, <2>2, UnchangedTyped DEF QueryFails, TypeOK
<1>14. ASSUME RowMissing(w) PROVE TypeOK'
  <2>1. pc' \in [Workers -> Steps]
    BY <1>14 DEF RowMissing, OnError, TypeOK
  <2> QED BY <1>14, <2>1, UnchangedTyped DEF RowMissing, TypeOK
<1>15. ASSUME Settle(w) PROVE TypeOK'
  <2>1. pc' \in [Workers -> Steps] /\ LocalsTyped' /\ lock' \in [Runs -> Workers \cup {None}]
    BY <1>15, ForgetTyped DEF Settle
  <2>2. QueueTyped'
    BY <1>15, <2>1 DEF Settle, TypeOK, QueueTyped, Settled
  <2> QED BY <1>15, <2>1, <2>2, UnchangedTyped DEF Settle, TypeOK
<1> QED
  BY <1>1, <1>2, <1>3, <1>4, <1>5, <1>6, <1>7, <1>8, <1>9, <1>10, <1>11, <1>12,
     <1>13, <1>14, <1>15
     DEF Work, LogDone, LogError, MarkDone, MarkFailed, Outcomes

\* The types hold initially.
LEMMA InitTyped == Init => TypeOK
  BY ConstantsAssumption
     DEF Init, TypeOK, RowsTyped, QueueTyped, LocalsTyped, OutTyped, BoundsTyped,
         Steps, Statuses, Events, Outcomes

\* Every step of the specification keeps them.
LEMMA NextTyped == TypeOK /\ [Next]_vars => TypeOK'
<1> SUFFICES ASSUME TypeOK, [Next]_vars PROVE TypeOK'
  OBVIOUS
<1>1. ASSUME NEW w \in Workers, Work(w) PROVE TypeOK'
  BY <1>1, WorkTyped
<1>2. ASSUME NEW w \in Workers, NEW r \in Runs, Fetch(w, r) PROVE TypeOK'
  <2>1. QueueTyped' /\ LocalsTyped' /\ pc' \in [Workers -> Steps]
    BY <1>2 DEF Fetch, TypeOK, QueueTyped, LocalsTyped, Steps
  <2> QED BY <1>2, <2>1, UnchangedTyped DEF Fetch, TypeOK
<1>3. ASSUME NEW r \in Runs, RecoverStalled(r) PROVE TypeOK'
  <2>1. QueueTyped'
    BY <1>3 DEF RecoverStalled, TypeOK, QueueTyped, Settled
  <2> QED BY <1>3, <2>1, UnchangedTyped DEF RecoverStalled, TypeOK
<1>4. ASSUME NEW w \in Workers, Die(w), crashes' \in 0..MaxCrashes PROVE TypeOK'
  <2>1. pc' \in [Workers -> Steps] /\ LocalsTyped' /\ lock' \in [Runs -> Workers \cup {None}]
    BY <1>4, ForgetTyped DEF Die
  <2>2. QueueTyped' /\ BoundsTyped'
    BY <1>4, <2>1 DEF Die, TypeOK, QueueTyped, BoundsTyped
  <2> QED BY <1>4, <2>1, <2>2, UnchangedTyped DEF Die, TypeOK
<1>5. ASSUME NEW w \in Workers, Crash(w) \/ UnhandledLog(w) PROVE TypeOK'
  <2>1. crashes' \in 0..MaxCrashes
    BY <1>5, ConstantsAssumption DEF Crash, UnhandledLog, TypeOK, BoundsTyped
  <2> QED BY <1>4, <1>5, <2>1 DEF Crash, UnhandledLog
<1>6. ASSUME NEW r \in Runs, LockExpires(r) PROVE TypeOK'
  <2>1. QueueTyped' /\ BoundsTyped'
    BY <1>6, ConstantsAssumption DEF LockExpires, TypeOK, QueueTyped, BoundsTyped
  <2> QED BY <1>6, <2>1, UnchangedTyped DEF LockExpires, TypeOK
<1>7. ASSUME NEW r \in Runs, NEW j \in Jobs, Enqueue(r, j) PROVE TypeOK'
  <2>1. QueueTyped'
    BY <1>7 DEF Enqueue, TypeOK, QueueTyped
  <2> QED BY <1>7, <2>1, UnchangedTyped DEF Enqueue, TypeOK
<1>8. ASSUME NEW j \in Jobs, DeleteJob(j) PROVE TypeOK'
  <2>1. RowsTyped'
    BY <1>8 DEF DeleteJob, TypeOK, RowsTyped, Statuses
  <2> QED BY <1>8, <2>1, UnchangedTyped DEF DeleteJob, TypeOK
<1>9. CASE UNCHANGED vars
  BY <1>9, UnchangedTyped DEF vars, TypeOK
<1> QED
  BY <1>1, <1>2, <1>3, <1>5, <1>6, <1>7, <1>8, <1>9
     DEF Next, Disturb, Users, Quiescent

\* The columns, counters and program state keep their types.
THEOREM TypeCorrect == Spec => []TypeOK
  BY InitTyped, NextTyped, PTL DEF Spec
-----------------------------------------------------------------------------
(***************************************************************************)
(* The inductive invariant.  EventsTellTheTruth and OutcomeHasEvidence     *)
(* speak of rows only; what keeps them true is where each worker is in the *)
(* handler: an execution that is still being worked on has not been heard  *)
(* of, the steps behind markDone know its row to be DONE, and no two       *)
(* workers ever hold the same execution.                                   *)
(***************************************************************************)
Unheard(e) == \A t \in Events : emits[e][t] = 0

Working  == TrySteps \cup CatchSteps
PastDone == {"markActive", "pushDone", "compare", "emitDone"}

WorkerInv(w) ==
    /\ pc[w] # "idle" => run[w] \in Runs /\ runState[run[w]] # "absent"
    /\ pc[w] \in {"idle", "init"} => exec[w] = None
    /\ pc[w] \in Working \cup {"resolve"} => exec[w] \in Execs
    /\ exec[w] # None => status[exec[w]] # "none" /\ execRun[exec[w]] = run[w]
    /\ pc[w] = "saveResult" => raw[w] # None
    /\ pc[w] \in Working => Unheard(exec[w])
    /\ pc[w] \in PastDone => status[exec[w]] \in {"DONE", "deleted"}
    /\ pc[w] = "reportFailed" => status[exec[w]] \in {"FAILED", "deleted"}
    /\ pc[w] \in {"logDone", "markDone"} =>
          status[exec[w]] = "deleted" \/ result[exec[w]] # None
    /\ pc[w] = "markDone" =>
          status[exec[w]] = "deleted" \/ "INFO" \in logs[exec[w]]
    /\ pc[w] = "markFailed" =>
          status[exec[w]] = "deleted" \/ "ERROR" \in logs[exec[w]]
    /\ pc[w] = "resolve" => emits[exec[w]]["DONE"] > 0

RowInv(e) ==
    /\ status[e] = "none" => Unheard(e) /\ execRun[e] = None
    /\ status[e] # "none" => execRun[e] \in Runs /\ runState[execRun[e]] # "absent"
    /\ status[e] = "deleted" => JobOf(e) \notin jobs
    /\ emits[e]["DONE"] + emits[e]["FAILED"] <= 1
    /\ emits[e]["DIFF"] <= emits[e]["DONE"]
    /\ emits[e]["DONE"] > 0 => status[e] \in {"DONE", "deleted"}
    /\ emits[e]["FAILED"] > 0 => status[e] \in {"FAILED", "deleted"}
    /\ status[e] = "DONE" => result[e] # None /\ "INFO" \in logs[e]
    /\ status[e] = "FAILED" => "ERROR" \in logs[e]

OneOwner == \A v, w \in Workers : exec[v] = exec[w] /\ exec[v] # None => v = w

IInv ==
    /\ TypeOK
    /\ \A w \in Workers : WorkerInv(w)
    /\ OneOwner
    /\ \A e \in Execs : RowInv(e)
    /\ CompletedRunWasDone
-----------------------------------------------------------------------------
\* What a step leaves alone.

RowKept(e) ==
    /\ status'[e] = status[e]
    /\ result'[e] = result[e]
    /\ logs'[e] = logs[e]
    /\ execRun'[e] = execRun[e]
    /\ emits'[e] = emits[e]

WorkerKept(w) ==
    /\ pc'[w] = pc[w]
    /\ run'[w] = run[w]
    /\ exec'[w] = exec[w]
    /\ raw'[w] = raw[w]

\* Once enqueued, a run keeps its job and never becomes absent again.
QueueKept == \A r \in Runs : runState[r] # "absent" =>
    runState'[r] # "absent" /\ runJob'[r] = runJob[r]

\* A worker that takes no step, and whose row is left alone, keeps its invariant.
LEMMA WorkerUnaffected ==
    ASSUME IInv, NEW w \in Workers, WorkerKept(w), QueueKept,
           exec[w] # None => RowKept(exec[w])
    PROVE  WorkerInv(w)'
  BY ConstantsAssumption
     DEF IInv, TypeOK, LocalsTyped, WorkerInv, WorkerKept, QueueKept, RowKept, Unheard,
         Working, PastDone, TrySteps, CatchSteps

\* A row that is left alone keeps its invariant: jobs only ever go.
LEMMA RowUnaffected ==
    ASSUME IInv, NEW e \in Execs, RowKept(e), QueueKept, jobs' \subseteq jobs
    PROVE  RowInv(e)'
  BY DEF IInv, RowInv, RowKept, QueueKept, Unheard, JobOf

\* Announcements are never taken back, so neither is a completed run's.
LEMMA CompletedUnaffected ==
    ASSUME IInv,
           \A r \in Runs : runState'[r] = "completed" => runState[r] = "completed",
           \A e \in Execs : emits[e]["DONE"] > 0 =>
               emits'[e]["DONE"] > 0 /\ execRun'[e] = execRun[e]
    PROVE  CompletedRunWasDone'
  BY DEF IInv, CompletedRunWasDone

\* A step of worker w inside the handler, on its own row only.
LEMMA HandlerStep ==
    ASSUME IInv, TypeOK', NEW w \in Workers,
           UNCHANGED <<jobs, execRun, runJob, runState, run, exec>>,
           \A v \in Workers \ {w} : WorkerKept(v),
           \A e \in Execs \ {exec[w]} : RowKept(e),
           \A e \in Execs : emits[e]["DONE"] > 0 => emits'[e]["DONE"] > 0,
           WorkerInv(w)',
           exec[w] \in Execs => RowInv(exec[w])'
    PROVE  IInv'
<1>1. QueueKept
  BY DEF QueueKept
<1>2. ASSUME NEW v \in Workers PROVE WorkerInv(v)'
  <2>1. CASE v = w
    BY <2>1
  <2>2. CASE v # w
    <3>1. exec[v] # None => exec[v] \in Execs \ {exec[w]}
      BY <2>2 DEF IInv, OneOwner, TypeOK, LocalsTyped
    <3> QED BY <1>1, <2>2, <3>1, WorkerUnaffected
  <2> QED BY <2>1, <2>2
<1>3. ASSUME NEW e \in Execs PROVE RowInv(e)'
  <2>1. CASE e = exec[w]
    BY <2>1
  <2>2. CASE e # exec[w]
    BY <1>1, <2>2, RowUnaffected
  <2> QED BY <2>1, <2>2
<1>4. OneOwner'
  BY DEF IInv, OneOwner
<1>5. CompletedRunWasDone'
  BY CompletedUnaffected
<1> QED BY <1>2, <1>3, <1>4, <1>5 DEF IInv
\* An await moves its worker to the next step or to the error path.
LEMMA AwaitMoves ==
    ASSUME TypeOK, NEW w \in Workers, NEW here, NEW next, NEW reply,
           Await(w, here, next, reply)
    PROVE  /\ pc[w] = here
           /\ pc'[w] = next \/ (pc'[w] = OnError(here) /\ reply # "ok")
           /\ \A v \in Workers \ {w} : pc'[v] = pc[v]
  BY DEF Await, TypeOK

\* The steps of the handler that change nothing but the worker's own state:
\* reads, errors, and the update of the target.
LEMMA LocalStep ==
    ASSUME IInv, TypeOK', NEW w \in Workers,
           FetchJobTarget(w) \/ (\E t \in Texts : Scrape(w, t)) \/ ScrapeFails(w)
           \/ Compare(w) \/ QueryFails(w) \/ RowMissing(w)
           \/ (\E reply \in Replies : MarkTargetActive(w, reply))
    PROVE  IInv'
<1> USE DEF rowVars, queueVars, localVars, outVars
<1>1. UNCHANGED <<jobs, status, result, logs, execRun, runJob, runState, run, exec, emits>>
  BY DEF FetchJobTarget, Scrape, ScrapeFails, Compare, QueryFails, RowMissing,
         MarkTargetActive
<1>2. \A v \in Workers \ {w} : pc'[v] = pc[v] /\ raw'[v] = raw[v]
  BY AwaitMoves
     DEF IInv, TypeOK, LocalsTyped, FetchJobTarget, Scrape, ScrapeFails, Compare,
         QueryFails, RowMissing, MarkTargetActive
<1>3. \/ pc[w] \in Working /\ pc'[w] \in {"logError", "reject"} /\ raw' = raw
      \/ pc[w] = "init" /\ pc'[w] = "reject" /\ raw' = raw
      \/ pc[w] = "target" /\ pc'[w] = "scrape" /\ raw' = raw
      \/ pc[w] = "scrape" /\ pc'[w] = "saveResult" /\ raw'[w] # None
      \/ pc[w] = "compare" /\ pc'[w] = "emitDone" /\ raw' = raw
      \/ pc[w] = "markActive" /\ pc'[w] = "pushDone" /\ raw' = raw
  <2>1. CASE FetchJobTarget(w)
    BY <2>1 DEF FetchJobTarget, Await, IInv, TypeOK
  <2>2. CASE \E t \in Texts : Scrape(w, t)
    BY <2>2, ConstantsAssumption DEF Scrape, Await, IInv, TypeOK, LocalsTyped
  <2>3. CASE ScrapeFails(w)
    BY <2>3 DEF ScrapeFails, OnError, Working, TrySteps, IInv, TypeOK
  <2>4. CASE Compare(w)
    BY <2>4 DEF Compare, Await, IInv, TypeOK
  <2>5. CASE QueryFails(w)
    BY <2>5 DEF QueryFails, OnError, Working, TrySteps, CatchSteps, DbSteps, IInv, TypeOK
  <2>6. CASE RowMissing(w)
    BY <2>6 DEF RowMissing, RowSteps, OnError, Working, TrySteps, CatchSteps, DbSteps,
                IInv, TypeOK
  <2>7. CASE \E reply \in Replies : MarkTargetActive(w, reply)
    BY <2>7 DEF MarkTargetActive, Await, OnError, Working, TrySteps, IInv, TypeOK
  <2> QED BY <2>1, <2>2, <2>3, <2>4, <2>5, <2>6, <2>7
<1>4. WorkerInv(w)'
  BY <1>1, <1>3
     DEF IInv, WorkerInv, Unheard, Working, PastDone, TrySteps, CatchSteps
<1>5. \A e \in Execs : RowKept(e)
  BY <1>1 DEF RowKept
<1>6. QueueKept
  BY <1>1 DEF QueueKept
<1>7. \A e \in Execs : RowInv(e)'
  BY <1>1, <1>5, <1>6, RowUnaffected
<1>8. \A v \in Workers \ {w} : WorkerKept(v)
  BY <1>1, <1>2 DEF WorkerKept
<1> QED
  BY <1>1, <1>4, <1>5, <1>7, <1>8, HandlerStep

\* saveResult stores the text the worker holds, under a live row.
LEMMA SaveResultStep ==
    ASSUME IInv, TypeOK', NEW w \in Workers, NEW reply \in Replies, SaveResult(w, reply)
    PROVE  IInv'
<1> USE DEF rowVars, queueVars, localVars, outVars
<1> DEFINE e == exec[w]
<1>1. /\ UNCHANGED <<jobs, status, logs, execRun, runJob, runState, run, exec, raw, emits>>
      /\ result' = [result EXCEPT ![e] = raw[w]]
  BY DEF SaveResult
<1>2. /\ pc[w] = "saveResult" /\ pc'[w] \in {"logDone", "logError"}
      /\ \A v \in Workers \ {w} : pc'[v] = pc[v]
  BY AwaitMoves DEF SaveResult, OnError, TrySteps, IInv
<1>3. e \in Execs /\ raw[w] # None
  BY <1>2 DEF IInv, WorkerInv, Working, TrySteps
<1>4. result'[e] # None /\ \A f \in Execs \ {e} : result'[f] = result[f]
  BY <1>1, <1>3 DEF IInv, TypeOK, RowsTyped
<1>5. WorkerInv(w)'
  BY <1>1, <1>2, <1>3, <1>4
     DEF IInv, WorkerInv, Unheard, Working, PastDone, TrySteps, CatchSteps
<1>6. RowInv(e)'
  BY <1>1, <1>3, <1>4 DEF IInv, RowInv, Unheard, JobOf
<1>7. \A f \in Execs \ {e} : RowKept(f)
  BY <1>1, <1>4 DEF RowKept
<1>8. \A v \in Workers \ {w} : WorkerKept(v)
  BY <1>1, <1>2 DEF WorkerKept
<1> QED
  BY <1>1, <1>5, <1>6, <1>7, <1>8, HandlerStep
\* While its job exists, the row a worker holds has not been deleted.
LEMMA LiveRow ==
    ASSUME IInv, NEW w \in Workers, exec[w] \in Execs, Job(w) \in jobs
    PROVE  status[exec[w]] # "deleted"
  BY ConstantsAssumption DEF IInv, WorkerInv, RowInv, JobOf, Job

\* saveLog adds the line of its level, under a live row.
LEMMA SaveLogStep ==
    ASSUME IInv, TypeOK', NEW w \in Workers, NEW reply \in Replies,
           LogDone(w, reply) \/ LogError(w, reply)
    PROVE  IInv'
<1> USE DEF rowVars, queueVars, localVars, outVars
<1> DEFINE e == exec[w]
<1>1. UNCHANGED <<jobs, status, result, execRun, runJob, runState, run, exec, raw, emits>>
  BY DEF LogDone, LogError, SaveLog
<1>2. \/ /\ pc[w] = "logDone" /\ pc'[w] \in {"markDone", "logError"}
         /\ logs' = [logs EXCEPT ![e] = @ \cup {"INFO"}]
      \/ /\ pc[w] = "logError" /\ pc'[w] \in {"markFailed", "reject"}
         /\ logs' = [logs EXCEPT ![e] = @ \cup {"ERROR"}]
  BY AwaitMoves DEF LogDone, LogError, SaveLog, OnError, TrySteps, IInv
<1>3. \A v \in Workers \ {w} : pc'[v] = pc[v]
  BY AwaitMoves DEF LogDone, LogError, SaveLog, IInv
<1>4. e \in Execs
  BY <1>2 DEF IInv, WorkerInv, Working, TrySteps, CatchSteps
<1>5. /\ \A f \in Execs \ {e} : logs'[f] = logs[f]
      /\ logs[e] \subseteq logs'[e]
      /\ pc[w] = "logDone" => "INFO" \in logs'[e]
      /\ pc[w] = "logError" => "ERROR" \in logs'[e]
  BY <1>2, <1>4 DEF IInv, TypeOK, RowsTyped
<1>6. WorkerInv(w)'
  BY <1>1, <1>2, <1>5
     DEF IInv, WorkerInv, Unheard, Working, PastDone, TrySteps, CatchSteps
<1>7. RowInv(e)'
  BY <1>1, <1>4, <1>5 DEF IInv, RowInv, Unheard, JobOf
<1>8. \A f \in Execs \ {e} : RowKept(f)
  BY <1>1, <1>5 DEF RowKept
<1>9. \A v \in Workers \ {w} : WorkerKept(v)
  BY <1>1, <1>3 DEF WorkerKept
<1> QED
  BY <1>1, <1>6, <1>7, <1>8, <1>9, HandlerStep

\* A mark overwrites the status of a live row nobody has heard of, after the
\* evidence for it has been stored.
LEMMA MarkStep ==
    ASSUME IInv, TypeOK', NEW w \in Workers, NEW reply \in Replies,
           MarkDone(w, reply) \/ MarkFailed(w, reply)
    PROVE  IInv'
<1> USE DEF rowVars, queueVars, localVars, outVars
<1> DEFINE e == exec[w]
<1>1. UNCHANGED <<jobs, result, logs, execRun, runJob, runState, run, exec, raw, emits>>
  BY DEF MarkDone, MarkFailed, Mark
<1>2. \/ /\ pc[w] = "markDone" /\ pc'[w] \in {"markActive", "logError"}
         /\ status' = [status EXCEPT ![e] = "DONE"]
      \/ /\ pc[w] = "markFailed" /\ pc'[w] \in {"reportFailed", "reject"}
         /\ status' = [status EXCEPT ![e] = "FAILED"]
  BY AwaitMoves DEF MarkDone, MarkFailed, Mark, OnError, TrySteps, IInv
<1>3. \A v \in Workers \ {w} : pc'[v] = pc[v]
  BY AwaitMoves DEF MarkDone, MarkFailed, IInv
<1>4. e \in Execs /\ Unheard(e)
  BY <1>2 DEF IInv, WorkerInv, Working, TrySteps, CatchSteps
<1>5. Job(w) \in jobs
  BY DEF MarkDone, MarkFailed, Mark
<1>6. status[e] # "deleted"
  BY <1>4, <1>5, LiveRow
<1>7. /\ \A f \in Execs \ {e} : status'[f] = status[f]
      /\ \/ pc[w] = "markDone" /\ status'[e] = "DONE"
         \/ pc[w] = "markFailed" /\ status'[e] = "FAILED"
  BY <1>2, <1>4 DEF IInv, TypeOK, RowsTyped
<1>8. WorkerInv(w)'
  BY <1>1, <1>2, <1>4, <1>7
     DEF IInv, WorkerInv, Unheard, Working, PastDone, TrySteps, CatchSteps
<1>9. emits[e]["DONE"] = 0 /\ emits[e]["FAILED"] = 0 /\ emits[e]["DIFF"] = 0
  BY <1>4 DEF Unheard, Events
<1>10. execRun[e] = run[w] /\ run[w] \in Runs /\ runState[run[w]] # "absent"
  BY <1>2, <1>4, ConstantsAssumption DEF IInv, WorkerInv
<1>11. /\ pc[w] = "markDone" => result[e] # None /\ "INFO" \in logs[e]
       /\ pc[w] = "markFailed" => "ERROR" \in logs[e]
  BY <1>6 DEF IInv, WorkerInv
<1>12. RowInv(e)'
  BY <1>1, <1>7, <1>9, <1>10, <1>11 DEF RowInv
<1>13. \A f \in Execs \ {e} : RowKept(f)
  BY <1>1, <1>7 DEF RowKept
<1>14. \A v \in Workers \ {w} : WorkerKept(v)
  BY <1>1, <1>3 DEF WorkerKept
<1> QED
  BY <1>1, <1>8, <1>12, <1>13, <1>14, HandlerStep

\* A push to the sockets changes nothing the invariant speaks of.
LEMMA PushDoneStep ==
    ASSUME IInv, TypeOK', NEW w \in Workers, PushDone(w)
    PROVE  IInv'
<1> USE DEF rowVars, queueVars, localVars, outVars
<1>1. UNCHANGED <<jobs, status, result, logs, execRun, runJob, runState, run, exec, raw, emits>>
  BY DEF PushDone
<1>2. /\ pc[w] = "pushDone" /\ pc'[w] = "compare"
      /\ \A v \in Workers \ {w} : pc'[v] = pc[v]
  BY AwaitMoves DEF PushDone, IInv
<1>3. WorkerInv(w)'
  BY <1>1, <1>2
     DEF IInv, WorkerInv, Unheard, Working, PastDone, TrySteps, CatchSteps
<1>4. \A e \in Execs : RowKept(e)
  BY <1>1 DEF RowKept
<1>5. QueueKept
  BY <1>1 DEF QueueKept
<1>6. \A e \in Execs : RowInv(e)'
  BY <1>1, <1>4, <1>5, RowUnaffected
<1>7. \A v \in Workers \ {w} : WorkerKept(v)
  BY <1>1, <1>2 DEF WorkerKept
<1> QED
  BY <1>1, <1>3, <1>4, <1>6, <1>7, HandlerStep

\* The first word about an execution is its last: execution.done, with or
\* without execution.diff, for a row that is DONE or gone.
LEMMA EmitDoneStep ==
    ASSUME IInv, TypeOK', NEW w \in Workers, EmitDone(w)
    PROVE  IInv'
<1> USE DEF rowVars, queueVars, localVars, outVars
<1> DEFINE e == exec[w]
<1>1. UNCHANGED <<jobs, status, result, logs, execRun, runJob, runState, run, exec, raw>>
  BY DEF EmitDone
<1>2. /\ pc[w] = "emitDone" /\ pc'[w] = "resolve"
      /\ \A v \in Workers \ {w} : pc'[v] = pc[v]
  BY AwaitMoves DEF EmitDone, IInv
<1>3. e \in Execs /\ Unheard(e) /\ status[e] \in {"DONE", "deleted"}
  BY <1>2 DEF IInv, WorkerInv, Working, PastDone, TrySteps
<1>4. emits[e]["DONE"] = 0 /\ emits[e]["FAILED"] = 0 /\ emits[e]["DIFF"] = 0
  BY <1>3 DEF Unheard, Events
<1>5. emits \in [Execs -> [Events -> Nat]]
  BY DEF IInv, TypeOK, OutTyped
<1>6. \A f \in Execs \ {e} : emits'[f] = emits[f]
  BY <1>3, <1>5 DEF EmitDone
<1>7. /\ emits'[e]["DONE"] = 1
      /\ emits'[e]["FAILED"] = 0
      /\ emits'[e]["DIFF"] \in {0, 1}
  BY <1>3, <1>4, <1>5 DEF EmitDone, Events
<1>8. WorkerInv(w)'
  BY <1>1, <1>2, <1>7
     DEF IInv, WorkerInv, Working, PastDone, TrySteps, CatchSteps
<1>9. RowInv(e)'
  BY <1>1, <1>3, <1>7 DEF IInv, RowInv, JobOf
<1>10. \A f \in Execs \ {e} : RowKept(f)
  BY <1>1, <1>6 DEF RowKept
<1>11. \A f \in Execs : emits[f]["DONE"] > 0 => emits'[f]["DONE"] > 0
  BY <1>4, <1>6
<1>12. \A v \in Workers \ {w} : WorkerKept(v)
  BY <1>1, <1>2 DEF WorkerKept
<1> QED
  BY <1>1, <1>8, <1>9, <1>10, <1>11, <1>12, HandlerStep
\* The first word about a failed execution is its last too.
LEMMA ReportFailedStep ==
    ASSUME IInv, TypeOK', NEW w \in Workers, ReportFailed(w)
    PROVE  IInv'
<1> USE DEF rowVars, queueVars, localVars, outVars
<1> DEFINE e == exec[w]
<1>1. UNCHANGED <<jobs, status, result, logs, execRun, runJob, runState, run, exec, raw>>
  BY DEF ReportFailed
<1>2. /\ pc[w] = "reportFailed" /\ pc'[w] = "reject"
      /\ \A v \in Workers \ {w} : pc'[v] = pc[v]
  BY AwaitMoves DEF ReportFailed, IInv
<1>3. e \in Execs /\ Unheard(e) /\ status[e] \in {"FAILED", "deleted"}
  BY <1>2 DEF IInv, WorkerInv, Working, CatchSteps
<1>4. emits[e]["DONE"] = 0 /\ emits[e]["FAILED"] = 0 /\ emits[e]["DIFF"] = 0
  BY <1>3 DEF Unheard, Events
<1>5. emits \in [Execs -> [Events -> Nat]]
  BY DEF IInv, TypeOK, OutTyped
<1>6. \A f \in Execs \ {e} : emits'[f] = emits[f]
  BY <1>3, <1>5 DEF ReportFailed
<1>7. emits'[e]["DONE"] = 0 /\ emits'[e]["FAILED"] = 1 /\ emits'[e]["DIFF"] = 0
  BY <1>3, <1>4, <1>5 DEF ReportFailed, Events
<1>8. WorkerInv(w)'
  BY <1>1, <1>2
     DEF IInv, WorkerInv, Working, PastDone, TrySteps, CatchSteps
<1>9. RowInv(e)'
  BY <1>1, <1>3, <1>7 DEF IInv, RowInv, JobOf
<1>10. \A f \in Execs \ {e} : RowKept(f)
  BY <1>1, <1>6 DEF RowKept
<1>11. \A f \in Execs : emits[f]["DONE"] > 0 => emits'[f]["DONE"] > 0
  BY <1>4, <1>6
<1>12. \A v \in Workers \ {w} : WorkerKept(v)
  BY <1>1, <1>2 DEF WorkerKept
<1> QED
  BY <1>1, <1>8, <1>9, <1>10, <1>11, <1>12, HandlerStep

\* A new row is one nobody has held or heard of; if the answer is lost, nobody
\* will ever hold it.
LEMMA InitExecutionStep ==
    ASSUME IInv, TypeOK', NEW w \in Workers, NEW e \in Execs, NEW reply \in Replies,
           InitExecution(w, e, reply)
    PROVE  IInv'
<1> USE DEF rowVars, queueVars, localVars, outVars
<1>1. /\ UNCHANGED <<jobs, result, logs, runJob, runState, run, raw, emits>>
      /\ status' = [status EXCEPT ![e] = "RUNNING"]
      /\ execRun' = [execRun EXCEPT ![e] = run[w]]
      /\ exec' = [exec EXCEPT ![w] = IF reply = "ok" THEN e ELSE None]
  BY DEF InitExecution
<1>2. /\ pc[w] = "init"
      /\ pc'[w] = "target" \/ (pc'[w] = "reject" /\ reply # "ok")
      /\ \A v \in Workers \ {w} : pc'[v] = pc[v]
  BY AwaitMoves DEF InitExecution, OnError, TrySteps, IInv
<1>3. pc'[w] = "target" => reply = "ok"
  BY DEF InitExecution, Await, OnError, TrySteps, IInv, TypeOK
<1>4. status[e] = "none" /\ Unheard(e)
  BY DEF InitExecution, NextExec, Unused, IInv, RowInv
<1>5. emits[e]["DONE"] = 0 /\ emits[e]["FAILED"] = 0 /\ emits[e]["DIFF"] = 0
  BY <1>4 DEF Unheard, Events
<1>6. \A v \in Workers : exec[v] # e
  BY <1>4, ConstantsAssumption DEF IInv, WorkerInv
<1>7. /\ status'[e] = "RUNNING" /\ execRun'[e] = run[w]
      /\ \A f \in Execs \ {e} : status'[f] = status[f] /\ execRun'[f] = execRun[f]
  BY <1>1 DEF IInv, TypeOK, RowsTyped
<1>8. /\ exec'[w] \in {e, None}
      /\ pc'[w] = "target" => exec'[w] = e
      /\ \A v \in Workers \ {w} : exec'[v] = exec[v]
  BY <1>1, <1>3 DEF IInv, TypeOK, LocalsTyped
<1>9. run[w] \in Runs /\ runState[run[w]] # "absent"
  BY <1>2 DEF IInv, WorkerInv
<1>10. QueueKept
  BY <1>1 DEF QueueKept
<1>11. WorkerInv(w)'
  BY <1>1, <1>2, <1>4, <1>7, <1>8, <1>9
     DEF IInv, WorkerInv, Unheard, Working, PastDone, TrySteps, CatchSteps
<1>12. \A f \in Execs \ {e} : RowKept(f)
  BY <1>1, <1>7 DEF RowKept
<1>13. ASSUME NEW v \in Workers \ {w} PROVE WorkerInv(v)'
  <2>1. WorkerKept(v)
    BY <1>1, <1>2, <1>8 DEF WorkerKept
  <2>2. exec[v] # None => exec[v] \in Execs \ {e}
    BY <1>6 DEF IInv, TypeOK, LocalsTyped
  <2> QED BY <1>10, <1>12, <2>1, <2>2, WorkerUnaffected
<1>14. RowInv(e)'
  BY <1>1, <1>5, <1>7, <1>9 DEF RowInv
<1>15. \A f \in Execs \ {e} : RowInv(f)'
  BY <1>1, <1>10, <1>12, RowUnaffected
<1>16. OneOwner'
  BY <1>6, <1>8 DEF IInv, OneOwner
<1>17. CompletedRunWasDone'
  BY <1>1, <1>5, <1>7, CompletedUnaffected
<1> QED BY <1>11, <1>13, <1>14, <1>15, <1>16, <1>17 DEF IInv

\* A step in which worker w forgets its run: the rows stay as they are.
LEMMA ForgetStep ==
    ASSUME IInv, TypeOK', NEW w \in Workers, Forget(w),
           UNCHANGED <<jobs, status, result, logs, execRun, runJob, emits>>,
           \A r \in Runs : runState[r] # "absent" => runState'[r] # "absent",
           CompletedRunWasDone'
    PROVE  IInv'
<1>1. pc'[w] = "idle" /\ exec'[w] = None
  BY DEF Forget, IInv, TypeOK, LocalsTyped
<1>2. \A v \in Workers \ {w} : WorkerKept(v)
  BY DEF Forget, WorkerKept, IInv, TypeOK, LocalsTyped
<1>3. \A e \in Execs : RowKept(e)
  BY DEF RowKept
<1>4. QueueKept
  BY DEF QueueKept
<1>5. WorkerInv(w)'
  BY <1>1 DEF WorkerInv, Working, PastDone, TrySteps, CatchSteps
<1>6. \A v \in Workers \ {w} : WorkerInv(v)'
  BY <1>2, <1>3, <1>4, WorkerUnaffected DEF IInv, TypeOK, LocalsTyped
<1>7. \A e \in Execs : RowInv(e)'
  BY <1>3, <1>4, RowUnaffected
<1>8. OneOwner'
  BY <1>1, <1>2 DEF WorkerKept, IInv, OneOwner
<1> QED BY <1>5, <1>6, <1>7, <1>8 DEF IInv

\* A run is completed by a worker that has announced its execution as done.
LEMMA SettleStep ==
    ASSUME IInv, TypeOK', NEW w \in Workers, Settle(w)
    PROVE  IInv'
<1> USE DEF rowVars, queueVars, localVars, outVars
<1>1. /\ UNCHANGED <<jobs, status, result, logs, execRun, runJob, emits>>
      /\ Forget(w)
      /\ pc[w] \in {"resolve", "reject"}
  BY DEF Settle
<1>2. run[w] \in Runs /\ runState[run[w]] # "absent"
  BY <1>1 DEF IInv, WorkerInv
<1>3. /\ \A r \in Runs \ {run[w]} : runState'[r] = runState[r]
      /\ \/ runState'[run[w]] = runState[run[w]]
         \/ runState'[run[w]] = "failed"
         \/ runState'[run[w]] = "completed" /\ pc[w] = "resolve"
  BY <1>1, <1>2 DEF Settle, IInv, TypeOK, QueueTyped
<1>4. CompletedRunWasDone'
  <2> SUFFICES ASSUME NEW r \in Runs, runState'[r] = "completed"
               PROVE  \E e \in Execs : execRun'[e] = r /\ emits'[e]["DONE"] > 0
    BY DEF CompletedRunWasDone
  <2>1. CASE runState[r] = "completed"
    BY <1>1, <2>1 DEF IInv, CompletedRunWasDone
  <2>2. CASE runState[r] # "completed"
    <3>1. r = run[w] /\ pc[w] = "resolve"
      BY <1>3, <2>2
    <3>2. exec[w] \in Execs /\ execRun[exec[w]] = r /\ emits[exec[w]]["DONE"] > 0
      BY <3>1, ConstantsAssumption DEF IInv, WorkerInv
    <3> QED BY <1>1, <3>2
  <2> QED BY <2>1, <2>2
<1>5. \A r \in Runs : runState[r] # "absent" => runState'[r] # "absent"
  BY <1>3
<1> QED BY <1>1, <1>4, <1>5, ForgetStep

\* A crash loses what the process knew and nothing of the rows.
LEMMA DieStep ==
    ASSUME IInv, TypeOK', NEW w \in Workers, Die(w)
    PROVE  IInv'
<1> USE DEF rowVars, queueVars, localVars, outVars
<1>1. /\ UNCHANGED <<jobs, status, result, logs, execRun, runJob, runState, emits>>
      /\ Forget(w)
  BY DEF Die
<1>2. CompletedRunWasDone'
  BY <1>1, CompletedUnaffected
<1> QED BY <1>1, <1>2, ForgetStep
\* Taking a run changes no row; the worker starts without an execution.
LEMMA FetchStep ==
    ASSUME IInv, TypeOK', NEW w \in Workers, NEW r \in Runs, Fetch(w, r)
    PROVE  IInv'
<1> USE DEF rowVars, queueVars, localVars, outVars
<1>1. /\ UNCHANGED <<jobs, status, result, logs, execRun, runJob, exec, raw, emits>>
      /\ pc' = [pc EXCEPT ![w] = "init"]
      /\ run' = [run EXCEPT ![w] = r]
      /\ runState' = [runState EXCEPT ![r] = "active"]
      /\ pc[w] = "idle"
  BY DEF Fetch
<1>2. /\ pc'[w] = "init" /\ run'[w] = r /\ exec'[w] = None
      /\ runState'[r] = "active"
      /\ \A q \in Runs \ {r} : runState'[q] = runState[q]
  BY <1>1 DEF IInv, WorkerInv, TypeOK, LocalsTyped, QueueTyped
<1>3. WorkerInv(w)'
  BY <1>2 DEF WorkerInv, Working, PastDone, TrySteps, CatchSteps
<1>4. \A v \in Workers \ {w} : WorkerKept(v)
  BY <1>1 DEF WorkerKept, IInv, TypeOK, LocalsTyped
<1>5. \A e \in Execs : RowKept(e)
  BY <1>1 DEF RowKept
<1>6. QueueKept
  BY <1>1, <1>2 DEF QueueKept
<1>7. \A v \in Workers \ {w} : WorkerInv(v)'
  BY <1>4, <1>5, <1>6, WorkerUnaffected DEF IInv, TypeOK, LocalsTyped
<1>8. \A e \in Execs : RowInv(e)'
  BY <1>1, <1>5, <1>6, RowUnaffected
<1>9. OneOwner'
  BY <1>1 DEF IInv, OneOwner
<1>10. CompletedRunWasDone'
  BY <1>1, <1>2, CompletedUnaffected
<1> QED BY <1>3, <1>7, <1>8, <1>9, <1>10 DEF IInv

\* What BullMQ and the producers do to a run touches no worker and no row.
LEMMA QueueStep ==
    ASSUME IInv, TypeOK', NEW r \in Runs,
           RecoverStalled(r) \/ LockExpires(r) \/ (\E j \in Jobs : Enqueue(r, j))
    PROVE  IInv'
<1> USE DEF rowVars, queueVars, localVars, outVars
<1>1. UNCHANGED <<jobs, status, result, logs, execRun, pc, run, exec, raw, emits>>
  BY DEF RecoverStalled, LockExpires, Enqueue
<1>2. QueueKept
  BY DEF QueueKept, RecoverStalled, LockExpires, Enqueue, IInv, TypeOK, QueueTyped
<1>3. \A q \in Runs : runState'[q] = "completed" => runState[q] = "completed"
  BY DEF RecoverStalled, LockExpires, Enqueue, IInv, TypeOK, QueueTyped
<1>4. \A v \in Workers : WorkerKept(v)
  BY <1>1 DEF WorkerKept
<1>5. \A e \in Execs : RowKept(e)
  BY <1>1 DEF RowKept
<1>6. \A v \in Workers : WorkerInv(v)'
  BY <1>2, <1>4, <1>5, WorkerUnaffected DEF IInv, TypeOK, LocalsTyped
<1>7. \A e \in Execs : RowInv(e)'
  BY <1>1, <1>2, <1>5, RowUnaffected
<1>8. OneOwner'
  BY <1>1 DEF IInv, OneOwner
<1>9. CompletedRunWasDone'
  BY <1>1, <1>3, CompletedUnaffected
<1> QED BY <1>6, <1>7, <1>8, <1>9 DEF IInv

\* A deletion turns rows into deleted ones, which every clause allows.
LEMMA DeleteJobStep ==
    ASSUME IInv, TypeOK', NEW j \in Jobs, DeleteJob(j)
    PROVE  IInv'
<1> USE DEF rowVars, queueVars, localVars, outVars
<1>1. /\ UNCHANGED <<execRun, runJob, runState, pc, run, exec, raw, emits>>
      /\ jobs' = jobs \ {j}
  BY DEF DeleteJob
<1>2. \A e \in RowsOf(j) : status'[e] = "deleted" /\ JobOf(e) = j
  BY DEF DeleteJob, RowsOf
<1>3. \A e \in Execs \ RowsOf(j) : RowKept(e)
  BY <1>1 DEF DeleteJob, RowKept
<1>4. QueueKept
  BY <1>1 DEF QueueKept
<1>5. ASSUME NEW e \in Execs PROVE RowInv(e)'
  <2>1. CASE e \in RowsOf(j)
    <3>1. status[e] # "none"
      BY <2>1, ConstantsAssumption DEF RowsOf, IInv, RowInv
    <3>2. RowInv(e)
      BY DEF IInv
    <3>3. status'[e] = "deleted" /\ JobOf(e)' = j /\ j \notin jobs'
      BY <1>1, <1>2, <2>1 DEF JobOf
    <3>4. emits'[e] = emits[e] /\ execRun'[e] = execRun[e]
          /\ runState'[execRun'[e]] = runState[execRun[e]]
      BY <1>1
    <3> QED BY <3>1, <3>2, <3>3, <3>4 DEF RowInv, Unheard
  <2>2. CASE e \notin RowsOf(j)
    BY <1>1, <1>3, <1>4, <2>2, RowUnaffected
  <2> QED BY <2>1, <2>2
<1>6. ASSUME NEW w \in Workers PROVE WorkerInv(w)'
  <2>1. WorkerKept(w)
    BY <1>1 DEF WorkerKept
  <2>2. CASE exec[w] \in RowsOf(j)
    BY <1>1, <1>2, <2>1, <2>2
       DEF IInv, WorkerInv, Unheard, Working, PastDone, TrySteps, CatchSteps
  <2>3. CASE exec[w] \notin RowsOf(j)
    BY <1>3, <1>4, <2>1, <2>3, WorkerUnaffected DEF IInv, TypeOK, LocalsTyped
  <2> QED BY <2>2, <2>3
<1>7. OneOwner'
  BY <1>1 DEF IInv, OneOwner
<1>8. CompletedRunWasDone'
  BY <1>1, CompletedUnaffected
<1> QED BY <1>5, <1>6, <1>7, <1>8 DEF IInv

-----------------------------------------------------------------------------
\* The invariant, and what follows from it.

\* The invariant holds before anything has run.
LEMMA InitIInv == Init => IInv
<1> SUFFICES ASSUME Init PROVE IInv
  OBVIOUS
<1>1. TypeOK
  BY InitTyped
<1>2. \A w \in Workers : WorkerInv(w)
  BY DEF Init, WorkerInv, Working, PastDone, TrySteps, CatchSteps
<1>3. \A e \in Execs : RowInv(e)
  BY DEF Init, RowInv, Unheard, Events
<1>4. OneOwner /\ CompletedRunWasDone
  BY DEF Init, OneOwner, CompletedRunWasDone
<1> QED BY <1>1, <1>2, <1>3, <1>4 DEF IInv

\* Every step preserves the invariant.
LEMMA NextIInv == IInv /\ [Next]_vars => IInv'
<1> SUFFICES ASSUME IInv, [Next]_vars PROVE IInv'
  OBVIOUS
<1>1. TypeOK'
  BY NextTyped DEF IInv
<1>2. ASSUME NEW w \in Workers, Work(w) PROVE IInv'
  BY <1>1, <1>2, LocalStep, SaveResultStep, SaveLogStep, MarkStep, PushDoneStep,
     EmitDoneStep, ReportFailedStep, InitExecutionStep, SettleStep DEF Work
<1>3. ASSUME NEW w \in Workers, NEW r \in Runs, Fetch(w, r) PROVE IInv'
  BY <1>1, <1>3, FetchStep
<1>4. ASSUME NEW r \in Runs,
             RecoverStalled(r) \/ LockExpires(r) \/ (\E j \in Jobs : Enqueue(r, j))
      PROVE  IInv'
  BY <1>1, <1>4, QueueStep
<1>5. ASSUME NEW w \in Workers, Crash(w) \/ UnhandledLog(w) PROVE IInv'
  BY <1>1, <1>5, DieStep DEF Crash, UnhandledLog
<1>6. ASSUME NEW j \in Jobs, DeleteJob(j) PROVE IInv'
  BY <1>1, <1>6, DeleteJobStep
<1>7. CASE UNCHANGED vars
  BY <1>1, <1>7
     DEF vars, rowVars, queueVars, localVars, outVars, IInv, WorkerInv, RowInv,
         OneOwner, Unheard, JobOf, CompletedRunWasDone
<1> QED
  BY <1>2, <1>3, <1>4, <1>5, <1>6, <1>7 DEF Next, Disturb, Users, Quiescent

\* The handler's invariant holds throughout.
THEOREM Invariance == Spec => []IInv
  BY InitIInv, NextIInv, PTL DEF Spec

\* At most one of execution.done and execution.failed is ever emitted for an
\* execution, execution.diff only with execution.done, and the row agrees for
\* as long as it exists, whatever crashes, stalls or errors intervene.
THEOREM EventsAreTrue == Spec => []EventsTellTheTruth
<1>1. IInv => EventsTellTheTruth
  BY DEF IInv, RowInv, EventsTellTheTruth
<1> QED BY <1>1, Invariance, PTL

\* A DONE row has its result and its log line, a FAILED row its error line.
THEOREM OutcomesHaveEvidence == Spec => []OutcomeHasEvidence
<1>1. IInv => OutcomeHasEvidence
  BY DEF IInv, RowInv, OutcomeHasEvidence
<1> QED BY <1>1, Invariance, PTL

\* A run that BullMQ shows as completed had an execution announced as done.
THEOREM CompletedRunsWereDone == Spec => []CompletedRunWasDone
<1>1. IInv => CompletedRunWasDone
  BY DEF IInv
<1> QED BY <1>1, Invariance, PTL
=============================================================================
