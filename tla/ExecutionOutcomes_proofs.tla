----------------------- MODULE ExecutionOutcomes_proofs -----------------------
(***************************************************************************)
(* More theorems about ExecutionLifecycle, on top of its handler's         *)
(* invariant: what is never undone, what only a failure leaves behind,     *)
(* that a comparison comes to the right verdict while no two workers close *)
(* executions of one job, that a client told too early of a success is     *)
(* told of the failure, that no change is missed, that the diff view       *)
(* shows the texts that were compared, and that no run of the queue is     *)
(* stranded or handed out too often.                                       *)
(***************************************************************************)
EXTENDS ExecutionLifecycle_proofs, FiniteSetTheorems

-----------------------------------------------------------------------------
\* Final outcomes.  Before an execution has failed it has not been marked so,
\* and before its result is saved it has none.

BeforeSave == {"target", "scrape", "saveResult"}

Undecided(w) ==
    /\ pc[w] \in Working \ {"reportFailed"} => status[exec[w]] # "FAILED"
    /\ pc[w] \in BeforeSave => result[exec[w]] = None

Blank(e) == status[e] \in {"none", "deleted"} => result[e] = None

FInv ==
    /\ IInv
    /\ \A w \in Workers : Undecided(w)
    /\ \A e \in Execs : Blank(e)

\* A step of w inside its handler touches its own row and its own place only.
LEMMA OwnStep ==
    ASSUME IInv, NEW w \in Workers, Work(w), pc[w] \in Working
    PROVE  /\ exec' = exec /\ exec[w] \in Execs
           /\ UNCHANGED <<jobs, execRun, runJob, runState, run, lock>>
           /\ \A v \in Workers \ {w} : pc'[v] = pc[v] /\ raw'[v] = raw[v] /\ differs'[v] = differs[v]
           /\ \A f \in Execs \ {exec[w]} : RowKept(f) /\ finishedAt'[f] = finishedAt[f]
<1> USE DEF rowVars, queueVars, localVars, outVars
<1>1. exec[w] \in Execs /\ pc[w] \notin {"init", "resolve", "reject"}
  BY DEF IInv, WorkerInv, Working, TrySteps, CatchSteps
<1>2. \A e \in Execs, reply \in Replies : ~InitExecution(w, e, reply)
  BY <1>1 DEF InitExecution, Await
<1>3. ~Settle(w)
  BY <1>1 DEF Settle
<1>4. CASE FetchJobTarget(w) \/ (\E t \in Texts : Scrape(w, t)) \/ ScrapeFails(w)
           \/ Compare(w) \/ QueryFails(w) \/ RowMissing(w) \/ PushDone(w)
           \/ EmitDone(w) \/ ReportFailed(w)
  BY <1>1, <1>4 DEF FetchJobTarget, Scrape, ScrapeFails, Compare, QueryFails, RowMissing, PushDone,
        EmitDone, ReportFailed, Await, IInv, TypeOK, LocalsTyped, OutTyped, RowKept
<1>5. CASE \E reply \in Replies : SaveResult(w, reply) \/ LogDone(w, reply)
           \/ MarkDone(w, reply) \/ MarkTargetActive(w, reply)
           \/ LogError(w, reply) \/ MarkFailed(w, reply)
  BY <1>1, <1>5 DEF SaveResult, LogDone, MarkDone, MarkTargetActive, LogError, MarkFailed, SaveLog,
        Mark, Await, IInv, TypeOK, RowsTyped, RowKept
<1> QED BY <1>1, <1>2, <1>3, <1>4, <1>5 DEF Work

\* What it does to that row, and where it goes.
LEMMA OwnOutcome ==
    ASSUME IInv, NEW w \in Workers, Work(w), pc[w] \in Working
    PROVE  LET x == exec[w] IN
           /\ \/ /\ status'[x] = status[x] /\ result'[x] = result[x]
                 /\ finishedAt'[x] = finishedAt[x] /\ clock' = clock
              \/ /\ pc[w] = "saveResult" /\ pc'[w] \in {"logDone", "logError"} /\ Job(w) \in jobs
                 /\ status'[x] = status[x] /\ finishedAt'[x] = finishedAt[x] /\ clock' = clock
              \/ /\ pc[w] = "markDone" /\ pc'[w] \in {"markActive", "logError"} /\ Job(w) \in jobs
                 /\ status'[x] = "DONE" /\ result'[x] = result[x]
                 /\ finishedAt'[x] = clock + 1 /\ clock' = clock + 1
              \/ /\ pc[w] = "markFailed" /\ pc'[w] \in {"reportFailed", "reject"}
                 /\ Job(w) \in jobs
                 /\ status'[x] = "FAILED" /\ result'[x] = result[x]
                 /\ finishedAt'[x] = clock + 1 /\ clock' = clock + 1
           /\ pc'[w] \in BeforeSave => pc[w] \in BeforeSave /\ result'[x] = result[x]
           /\ pc'[w] # "idle" /\ (pc[w] = "reportFailed" => pc'[w] = "reject")
           /\ emits'[x] = emits[x] \/ pc[w] \in {"emitDone", "reportFailed"}
<1> USE DEF rowVars, queueVars, localVars, outVars
<1>1. exec[w] \in Execs /\ pc[w] \notin {"init", "resolve", "reject"}
  BY DEF IInv, WorkerInv, Working, TrySteps, CatchSteps
<1>2. \A e \in Execs, reply \in Replies : ~InitExecution(w, e, reply)
  BY <1>1 DEF InitExecution, Await
<1>3. ~Settle(w)
  BY <1>1 DEF Settle
<1>4. CASE FetchJobTarget(w) \/ (\E t \in Texts : Scrape(w, t)) \/ ScrapeFails(w)
           \/ Compare(w) \/ QueryFails(w) \/ RowMissing(w) \/ PushDone(w)
           \/ EmitDone(w) \/ ReportFailed(w)
  BY <1>1, <1>4 DEF FetchJobTarget, Scrape, ScrapeFails, Compare, QueryFails, RowMissing, PushDone,
        EmitDone, ReportFailed, Await, IInv, TypeOK, LocalsTyped, OutTyped, OnError, BeforeSave,
        TrySteps, CatchSteps, DbSteps, RowSteps
<1>5. CASE \E reply \in Replies : SaveResult(w, reply) \/ LogDone(w, reply)
           \/ MarkTargetActive(w, reply) \/ LogError(w, reply)
  BY <1>1, <1>5 DEF SaveResult, LogDone, MarkTargetActive, LogError, SaveLog,
        Await, IInv, TypeOK, RowsTyped, OnError, TrySteps, BeforeSave
<1>6. CASE \E reply \in Replies : MarkDone(w, reply) \/ MarkFailed(w, reply)
  BY <1>1, <1>6 DEF MarkDone, MarkFailed, Mark, Await, IInv, TypeOK, RowsTyped, OnError,
        TrySteps, BeforeSave
<1> QED BY <1>1, <1>2, <1>3, <1>4, <1>5, <1>6 DEF Work

\* A worker at "init" creates a row or loses its run to an error.
LEMMA CreateStep ==
    ASSUME IInv, NEW w \in Workers, Work(w), pc[w] = "init"
    PROVE  /\ UNCHANGED <<jobs, active, finishedAt, result, logs, clock, run, emits, runState, runJob>>
           /\ \A v \in Workers \ {w} : pc'[v] = pc[v] /\ exec'[v] = exec[v]
                                    /\ differs'[v] = differs[v]
           /\ \/ /\ UNCHANGED <<status, execRun, exec>> /\ pc'[w] = "reject"
              \/ \E e \in Execs :
                    /\ status[e] = "none" /\ Job(w) \in jobs
                    /\ status' = [status EXCEPT ![e] = "RUNNING"]
                    /\ execRun' = [execRun EXCEPT ![e] = run[w]]
                    /\ \/ pc'[w] = "target" /\ exec'[w] = e /\ faults' = faults
                       \/ pc'[w] = "reject" /\ exec'[w] = None /\ faults' = faults + 1
<1> USE DEF rowVars, queueVars, localVars, outVars
<1>1. CASE \E e \in Execs, reply \in Replies : InitExecution(w, e, reply)
  BY <1>1 DEF InitExecution, Await, IInv, TypeOK, LocalsTyped, NextExec, Unused, OnError, TrySteps,
              Replies
<1>2. CASE QueryFails(w) \/ RowMissing(w)
  BY <1>2 DEF QueryFails, RowMissing, OnError, TrySteps, IInv, TypeOK
<1>3. Work(w) => (\E e \in Execs, reply \in Replies : InitExecution(w, e, reply))
                 \/ QueryFails(w) \/ RowMissing(w)
  BY DEF Work, FetchJobTarget, Scrape, ScrapeFails, SaveResult, LogDone, MarkDone, SaveLog, LogError,
         MarkTargetActive, MarkFailed, PushDone, Compare, EmitDone, ReportFailed, Settle, Await
<1> QED BY <1>1, <1>2, <1>3

\* A worker that forgets its run changes no row.
LEMMA ForgetShape ==
    ASSUME IInv, NEW w \in Workers, Settle(w) \/ Crash(w) \/ UnhandledLog(w)
    PROVE  /\ UNCHANGED <<jobs, status, result, logs, finishedAt, clock, execRun, runJob, emits>>
           /\ pc'[w] = "idle" /\ exec'[w] = None
           /\ \A v \in Workers \ {w} : pc'[v] = pc[v] /\ exec'[v] = exec[v]
                                    /\ differs'[v] = differs[v]
BY DEF Settle, Crash, UnhandledLog, Die, Forget, IInv, TypeOK, LocalsTyped, rowVars, outVars

\* The queue's own steps change no row and no execution's worker.
LEMMA QueueShape ==
    ASSUME IInv,
           \/ \E w \in Workers, r \in Runs : Fetch(w, r)
           \/ \E r \in Runs : RecoverStalled(r) \/ LockExpires(r) \/ \E j \in Jobs : Enqueue(r, j)
    PROVE  /\ UNCHANGED <<jobs, status, result, logs, finishedAt, clock, execRun, emits, exec, differs>>
           /\ \A v \in Workers : pc'[v] = pc[v] \/ (pc[v] = "idle" /\ pc'[v] = "init")
           /\ \A r \in Runs : runState[r] # "absent" => runJob'[r] = runJob[r]
BY DEF Fetch, RecoverStalled, LockExpires, Enqueue, IInv, TypeOK, QueueTyped, rowVars, queueVars,
       localVars, outVars

\* A worker takes steps inside its handler, creates its row or leaves.
LEMMA WorkCases ==
    ASSUME IInv, NEW w \in Workers, Work(w)
    PROVE  pc[w] \in Working \/ pc[w] = "init" \/ Settle(w)
<1>1. pc[w] \in Steps
  BY DEF IInv, TypeOK
<1>2. CASE pc[w] \in {"idle", "resolve", "reject"}
  BY <1>2 DEF Work, InitExecution, FetchJobTarget, Scrape, ScrapeFails, SaveResult, LogDone, MarkDone,
         SaveLog, LogError, MarkTargetActive, MarkFailed, PushDone, Compare, EmitDone, ReportFailed,
         QueryFails, RowMissing, DbSteps, RowSteps, TrySteps, CatchSteps, Await, Settle
<1> QED BY <1>1, <1>2 DEF Steps, Working

LEMMA InitFInv == Init => FInv
<1> SUFFICES ASSUME Init PROVE FInv
  OBVIOUS
<1>1. IInv
  BY InitIInv
<1> QED BY <1>1 DEF Init, FInv, Undecided, Blank, Working, TrySteps, CatchSteps, BeforeSave

\* Who is not in the handler owes nothing yet.
LEMMA UndecidedAway ==
    ASSUME NEW w \in Workers, pc[w] \in {"idle", "init", "resolve", "reject"}
    PROVE  Undecided(w)
BY DEF Undecided, Working, TrySteps, CatchSteps, BeforeSave

LEMMA OwnFInv == ASSUME FInv, IInv', NEW w \in Workers, Work(w), pc[w] \in Working PROVE FInv'
<1> DEFINE x == exec[w]
<1>1. IInv
  BY DEF FInv
<1>2. /\ exec' = exec /\ x \in Execs
      /\ \A v \in Workers \ {w} : pc'[v] = pc[v]
      /\ \A f \in Execs \ {x} : RowKept(f)
  BY <1>1, OwnStep
<1>3. status[x] # "none" /\ (Job(w) \in jobs => status[x] # "deleted")
  BY <1>1, <1>2, LiveRow, ConstantsAssumption DEF IInv, WorkerInv
<1>4. Blank(x)'
  BY <1>1, <1>2, <1>3, OwnOutcome DEF FInv, Blank
<1>5. ASSUME NEW e \in Execs PROVE Blank(e)'
  <2>1. CASE e = x
    BY <1>2, <1>4, <2>1 DEF Blank
  <2>2. CASE e # x
    BY <1>2, <2>2 DEF FInv, Blank, RowKept
  <2> QED BY <2>1, <2>2
<1>6. Undecided(w)'
  <2>1. Undecided(w)
    BY DEF FInv
  <2>2. CASE status'[x] = status[x] /\ result'[x] = result[x]
    <3>1. pc'[w] \in BeforeSave => result'[x] = None
      BY <1>1, <2>1, <2>2, OwnOutcome DEF Undecided
    <3>2. pc[w] # "reportFailed" \/ pc'[w] = "reject"
      BY <1>1, OwnOutcome
    <3> QED BY <1>2, <2>1, <2>2, <3>1, <3>2 DEF Undecided, Working, TrySteps, CatchSteps
  <2>3. CASE pc[w] = "saveResult" /\ pc'[w] \in {"logDone", "logError"} /\ status'[x] = status[x]
    BY <1>2, <2>1, <2>3 DEF Undecided, Working, TrySteps, CatchSteps, BeforeSave
  <2>4. CASE pc[w] = "markDone" /\ pc'[w] \in {"markActive", "logError"} /\ status'[x] = "DONE"
    BY <1>2, <2>4 DEF Undecided, BeforeSave
  <2>5. CASE pc[w] = "markFailed" /\ pc'[w] \in {"reportFailed", "reject"}
    BY <2>5 DEF Undecided, Working, TrySteps, CatchSteps, BeforeSave
  <2> QED BY <1>1, <2>2, <2>3, <2>4, <2>5, OwnOutcome
<1>7. ASSUME NEW v \in Workers \ {w} PROVE Undecided(v)'
  <2>1. pc[v] \in Working => exec[v] \in Execs \ {x}
    BY <1>1, <1>2, ConstantsAssumption DEF IInv, WorkerInv, OneOwner
  <2> QED BY <1>2, <2>1 DEF FInv, Undecided, RowKept, Working, TrySteps, BeforeSave
<1> QED BY <1>5, <1>6, <1>7 DEF FInv

LEMMA NextFInv == FInv /\ [Next]_vars => FInv'
<1> SUFFICES ASSUME FInv, [Next]_vars PROVE FInv'
  OBVIOUS
<1>1. IInv /\ IInv'
  BY NextIInv DEF FInv
<1>2. ASSUME NEW w \in Workers, Work(w), pc[w] = "init" PROVE FInv'
  <2>1. CASE UNCHANGED <<status, result, exec>> /\ pc'[w] = "reject"
             /\ \A v \in Workers \ {w} : pc'[v] = pc[v]
    BY <1>1, <2>1 DEF FInv, Undecided, Blank, Working, TrySteps, CatchSteps, BeforeSave
  <2>2. CASE \E e \in Execs :
                /\ status[e] = "none" /\ status' = [status EXCEPT ![e] = "RUNNING"]
                /\ result' = result
                /\ (pc'[w] = "target" /\ exec'[w] = e) \/ pc'[w] = "reject"
                /\ \A v \in Workers \ {w} : pc'[v] = pc[v] /\ exec'[v] = exec[v]
    <3>1. \A v \in Workers : pc[v] \in Working => exec[v] \in Execs /\ status[exec[v]] # "none"
      BY <1>1, ConstantsAssumption DEF IInv, WorkerInv
    <3> QED BY <1>1, <2>2, <3>1 DEF FInv, Undecided, Blank, IInv, TypeOK, RowsTyped, Working,
               TrySteps, CatchSteps, BeforeSave
  <2> QED BY <1>1, <1>2, <2>1, <2>2, CreateStep
<1>3. ASSUME UNCHANGED <<status, result>>,
             \A v \in Workers : (pc'[v] = pc[v] /\ exec'[v] = exec[v]) \/ pc'[v] \in {"idle", "init"}
      PROVE  FInv'
  BY <1>1, <1>3 DEF FInv, Undecided, Blank, Working, TrySteps, CatchSteps, BeforeSave
<1>4. ASSUME NEW w \in Workers, Work(w) PROVE FInv'
  <2>1. CASE pc[w] \in Working
    BY <1>1, <1>4, <2>1, OwnFInv
  <2>2. CASE Settle(w)
    <3>1. UNCHANGED <<status, result>> /\ pc'[w] = "idle"
          /\ \A v \in Workers \ {w} : pc'[v] = pc[v] /\ exec'[v] = exec[v]
      BY <1>1, <2>2, ForgetShape
    <3> QED BY <1>3, <3>1
  <2> QED BY <1>1, <1>2, <1>4, <2>1, <2>2, WorkCases
<1>5. ASSUME NEW w \in Workers, Crash(w) \/ UnhandledLog(w) PROVE FInv'
  <2>1. UNCHANGED <<status, result>> /\ pc'[w] = "idle"
        /\ \A v \in Workers \ {w} : pc'[v] = pc[v] /\ exec'[v] = exec[v]
    BY <1>1, <1>5, ForgetShape
  <2> QED BY <1>3, <2>1
<1>6. ASSUME \/ \E w \in Workers, r \in Runs : Fetch(w, r)
             \/ \E r \in Runs : RecoverStalled(r) \/ LockExpires(r) \/ \E j \in Jobs : Enqueue(r, j)
      PROVE  FInv'
  <2>1. UNCHANGED <<status, result, exec>>
        /\ \A v \in Workers : pc'[v] = pc[v] \/ (pc[v] = "idle" /\ pc'[v] = "init")
    BY <1>1, <1>6, QueueShape
  <2> QED BY <1>3, <2>1
<1>7. ASSUME NEW j \in Jobs, DeleteJob(j) PROVE FInv'
  BY <1>1, <1>7 DEF DeleteJob, FInv, Undecided, Blank, IInv, WorkerInv, localVars, Working,
                    TrySteps, CatchSteps, BeforeSave
<1>8. CASE UNCHANGED vars
  BY <1>3, <1>8 DEF vars, rowVars, localVars
<1> QED BY <1>4, <1>5, <1>6, <1>7, <1>8 DEF Next, Disturb, Users, Quiescent

THEOREM Undisputed == Spec => []FInv
<1> QED BY InitFInv, NextFInv, PTL DEF Spec

\* What OutcomeIsFinal says of one execution.
Final(e) ==
    /\ status[e] \in {"FAILED", "deleted"} \/ emits[e]["DONE"] > 0
          => status'[e] \in {status[e], "deleted"}
    /\ result[e] # None => result'[e] = result[e] \/ status'[e] = "deleted"

LEMMA OwnFinal ==
    ASSUME FInv, NEW w \in Workers, Work(w), pc[w] \in Working, NEW e \in Execs
    PROVE  Final(e)
<1> DEFINE x == exec[w]
<1>1. IInv /\ x \in Execs
  BY OwnStep DEF FInv
<1>2. CASE e # x
  BY <1>1, <1>2, OwnStep DEF RowKept, Final
<1>3. CASE e = x
  <2>1. emits[x]["DONE"] = 0
    BY <1>1 DEF IInv, WorkerInv, Unheard, Events
  <2>2. Undecided(w)
    BY DEF FInv
  <2>3. Job(w) \in jobs => status[x] # "deleted"
    BY <1>1, LiveRow, ConstantsAssumption DEF IInv, WorkerInv
  <2>4. pc[w] \in Working \ {"reportFailed"} => status[x] # "FAILED"
    BY <2>2 DEF Undecided
  <2>5. pc[w] = "saveResult" => result[x] = None
    BY <2>2 DEF Undecided, BeforeSave
  <2> QED BY <1>1, <1>3, <2>1, <2>3, <2>4, <2>5, OwnOutcome DEF Final
<1> QED BY <1>2, <1>3

LEMMA NextFinal == FInv /\ [Next]_vars => \A e \in Execs : Final(e)
<1> SUFFICES ASSUME FInv, [Next]_vars, NEW e \in Execs PROVE Final(e)
  OBVIOUS
<1>1. IInv
  BY DEF FInv
<1>2. ASSUME UNCHANGED <<status, result>> PROVE Final(e)
  BY <1>2 DEF Final
<1>3. ASSUME NEW w \in Workers, Work(w) PROVE Final(e)
  <2>1. CASE pc[w] \in Working
    BY <1>3, <2>1, OwnFinal
  <2>2. CASE pc[w] = "init"
    <3>1. emits[e]["DONE"] > 0 => status[e] # "none"
      BY <1>1 DEF IInv, RowInv
    <3>2. result' = result
      BY <1>1, <1>3, <2>2, CreateStep
    <3>3. status'[e] = status[e] \/ status[e] = "none"
      BY <1>1, <1>3, <2>2, CreateStep DEF IInv, TypeOK, RowsTyped
    <3> QED BY <3>1, <3>2, <3>3 DEF Final
  <2>3. CASE Settle(w)
    BY <1>1, <1>2, <2>3, ForgetShape
  <2> QED BY <1>1, <1>3, <2>1, <2>2, <2>3, WorkCases
<1>4. ASSUME NEW w \in Workers, Crash(w) \/ UnhandledLog(w) PROVE Final(e)
  BY <1>1, <1>2, <1>4, ForgetShape
<1>5. ASSUME \/ \E w \in Workers, r \in Runs : Fetch(w, r)
             \/ \E r \in Runs : RecoverStalled(r) \/ LockExpires(r) \/ \E j \in Jobs : Enqueue(r, j)
      PROVE  Final(e)
  BY <1>1, <1>2, <1>5, QueueShape
<1>6. ASSUME NEW j \in Jobs, DeleteJob(j) PROVE Final(e)
  BY <1>6 DEF DeleteJob, Final
<1>7. CASE UNCHANGED vars
  BY <1>2, <1>7 DEF vars, rowVars
<1> QED BY <1>3, <1>4, <1>5, <1>6, <1>7 DEF Next, Disturb, Users, Quiescent

\* Neither an announced outcome nor a failure nor a saved result is ever
\* replaced, although markDone and markFailed overwrite whatever they find.
THEOREM OutcomesAreFinal == Spec => OutcomeIsFinal
<1>1. FInv /\ [Next]_vars => [\A e \in Execs : Final(e)]_vars
  BY NextFinal
<1>2. [\A e \in Execs : Final(e)]_vars <=>
      [\A e \in Execs :
          /\ status[e] \in {"FAILED", "deleted"} \/ emits[e]["DONE"] > 0
                => status'[e] \in {status[e], "deleted"}
          /\ result[e] # None => result'[e] = result[e] \/ status'[e] = "deleted"]_vars
  BY DEF Final
<1> QED BY <1>1, <1>2, Undisputed, PTL DEF Spec, OutcomeIsFinal

-----------------------------------------------------------------------------
\* Rows left RUNNING.  A row is lost once nobody is in the handler for it; each
\* crash and each rejected query loses at most one, and nothing else loses any.

Held(w, e) == pc[w] \in Working /\ exec[w] = e
Lost == {e \in Execs : status[e] = "RUNNING" /\ \A w \in Workers : ~Held(w, e)}

\* Rows go with their job.
Cascade(e) == status[e] # "none" /\ JobOf(e) \notin jobs => status[e] = "deleted"

LInv ==
    /\ IInv
    /\ \A e \in Execs : Cascade(e)
    /\ IsFiniteSet(Lost) /\ Cardinality(Lost) <= crashes + faults

LEMMA Fewer ==
    ASSUME NEW S, NEW T, IsFiniteSet(S), NEW n \in Nat, Cardinality(S) <= n, T \subseteq S
    PROVE  IsFiniteSet(T) /\ Cardinality(T) <= n
<1>1. IsFiniteSet(T) /\ Cardinality(T) <= Cardinality(S)
  BY FS_Subset
<1>2. Cardinality(S) \in Nat /\ Cardinality(T) \in Nat
  BY <1>1, FS_CardinalityType
<1> QED BY <1>1, <1>2

LEMMA OneMore ==
    ASSUME NEW S, NEW T, IsFiniteSet(S), NEW n \in Nat, Cardinality(S) <= n,
           NEW x, T \subseteq S \cup {x}
    PROVE  IsFiniteSet(T) /\ Cardinality(T) <= n + 1
<1>1. /\ IsFiniteSet(S \cup {x})
      /\ Cardinality(S \cup {x}) = Cardinality(S) \/ Cardinality(S \cup {x}) = Cardinality(S) + 1
  BY FS_AddElement
<1>2. Cardinality(S) \in Nat
  BY FS_CardinalityType
<1> QED BY <1>1, <1>2, Fewer

\* A worker leaves its handler with a row that is closed or gone, or because a
\* query failed.
LEMMA OwnLeaves ==
    ASSUME IInv, \A e \in Execs : Cascade(e), NEW w \in Workers, Work(w), pc[w] \in Working
    PROVE  /\ crashes' = crashes /\ faults' \in {faults, faults + 1}
           /\ pc'[w] \in Working \/ faults' = faults + 1 \/ status'[exec[w]] # "RUNNING"
<1> USE DEF rowVars, queueVars, localVars, outVars, bounds
<1>1. exec[w] \in Execs /\ pc[w] \notin {"init", "resolve", "reject"}
  BY DEF IInv, WorkerInv, Working, TrySteps, CatchSteps
<1>2. \A e \in Execs, reply \in Replies : ~InitExecution(w, e, reply)
  BY <1>1 DEF InitExecution, Await
<1>3. ~Settle(w)
  BY <1>1 DEF Settle
<1>4. Job(w) \notin jobs => status[exec[w]] = "deleted"
  BY <1>1, ConstantsAssumption DEF IInv, WorkerInv, Cascade, JobOf, Job
<1>5. /\ pc[w] = "emitDone" => status[exec[w]] \in {"DONE", "deleted"}
      /\ pc[w] = "reportFailed" => status[exec[w]] \in {"FAILED", "deleted"}
  BY DEF IInv, WorkerInv, PastDone
<1>6. CASE FetchJobTarget(w) \/ (\E t \in Texts : Scrape(w, t)) \/ ScrapeFails(w)
           \/ Compare(w) \/ PushDone(w)
  BY <1>6 DEF FetchJobTarget, Scrape, ScrapeFails, Compare, PushDone, Await, IInv, TypeOK,
        OnError, Working, TrySteps, CatchSteps
<1>7. CASE QueryFails(w) \/ RowMissing(w) \/ EmitDone(w) \/ ReportFailed(w)
  BY <1>1, <1>4, <1>5, <1>7 DEF QueryFails, RowMissing, EmitDone, ReportFailed, Await, IInv, TypeOK,
        OnError, Working, TrySteps, CatchSteps
<1>8. CASE \E reply \in Replies : SaveResult(w, reply) \/ LogDone(w, reply)
           \/ MarkTargetActive(w, reply) \/ LogError(w, reply)
           \/ MarkDone(w, reply) \/ MarkFailed(w, reply)
  BY <1>8 DEF SaveResult, LogDone, MarkTargetActive, LogError, SaveLog, MarkDone, MarkFailed, Mark,
        Await, IInv, TypeOK, OnError, Replies, Working, TrySteps, CatchSteps
<1> QED BY <1>1, <1>2, <1>3, <1>6, <1>7, <1>8 DEF Work

LEMMA InitLInv == Init => LInv
<1> SUFFICES ASSUME Init PROVE LInv
  OBVIOUS
<1>1. IInv
  BY InitIInv
<1>2. Lost = {}
  BY DEF Init, Lost
<1>3. \A e \in Execs : Cascade(e)
  BY DEF Init, Cascade
<1>4. IsFiniteSet({}) /\ Cardinality({}) = 0
  BY FS_EmptySet
<1>5. crashes = 0 /\ faults = 0
  BY DEF Init
<1> QED BY <1>1, <1>2, <1>3, <1>4, <1>5 DEF LInv

LEMMA NextCascade == LInv /\ IInv' /\ [Next]_vars => \A e \in Execs : Cascade(e)'
<1> SUFFICES ASSUME LInv, IInv', [Next]_vars, NEW e \in Execs PROVE Cascade(e)'
  OBVIOUS
<1>1. IInv /\ Cascade(e)
  BY DEF LInv
<1>2. ASSUME jobs' = jobs, status'[e] = status[e], execRun'[e] = execRun[e],
             status[e] # "none" => runJob'[execRun[e]] = runJob[execRun[e]]
      PROVE  Cascade(e)'
  BY <1>1, <1>2 DEF Cascade, JobOf
<1>3. ASSUME NEW w \in Workers, Work(w) PROVE Cascade(e)'
  <2>1. CASE pc[w] \in Working
    <3>1. CASE e # exec[w]
      BY <1>1, <1>2, <1>3, <2>1, <3>1, OwnStep DEF RowKept
    <3>2. CASE e = exec[w]
      <4>1. UNCHANGED <<jobs, execRun, runJob>> /\ status[e] # "none"
        BY <1>1, <1>3, <2>1, <3>2, OwnStep, ConstantsAssumption DEF IInv, WorkerInv
      <4>2. status'[e] = status[e] \/ Job(w) \in jobs
        BY <1>1, <1>3, <2>1, <3>2, OwnOutcome
      <4>3. JobOf(e) = Job(w)
        BY <1>1, <3>2, ConstantsAssumption DEF IInv, WorkerInv, JobOf, Job
      <4> QED BY <1>1, <4>1, <4>2, <4>3 DEF Cascade, JobOf
    <3> QED BY <3>1, <3>2
  <2>2. CASE pc[w] = "init"
    <3>1. UNCHANGED <<jobs, runJob>>
      BY <1>1, <1>3, <2>2, CreateStep
    <3>2. CASE status'[e] = status[e] /\ execRun'[e] = execRun[e]
      BY <1>2, <3>1, <3>2
    <3>3. CASE execRun'[e] = run[w] /\ Job(w) \in jobs
      BY <3>1, <3>3 DEF Cascade, JobOf, Job
    <3> QED BY <1>1, <1>3, <2>2, <3>2, <3>3, CreateStep DEF IInv, TypeOK, RowsTyped
  <2>3. CASE Settle(w)
    BY <1>1, <1>2, <2>3, ForgetShape
  <2> QED BY <1>1, <1>3, <2>1, <2>2, <2>3, WorkCases
<1>4. ASSUME NEW w \in Workers, Crash(w) \/ UnhandledLog(w) PROVE Cascade(e)'
  BY <1>1, <1>2, <1>4, ForgetShape
<1>5. ASSUME \/ \E w \in Workers, r \in Runs : Fetch(w, r)
             \/ \E r \in Runs : RecoverStalled(r) \/ LockExpires(r) \/ \E j \in Jobs : Enqueue(r, j)
      PROVE  Cascade(e)'
  <2>1. status[e] # "none" => execRun[e] \in Runs /\ runState[execRun[e]] # "absent"
    BY <1>1 DEF IInv, RowInv
  <2> QED BY <1>1, <1>2, <1>5, <2>1, QueueShape
<1>6. ASSUME NEW j \in Jobs, DeleteJob(j) PROVE Cascade(e)'
  <2>1. /\ jobs' = jobs \ {j} /\ UNCHANGED <<execRun, runJob>>
        /\ status'[e] = IF e \in RowsOf(j) THEN "deleted" ELSE status[e]
    BY <1>6 DEF DeleteJob, queueVars
  <2>2. status[e] # "none" => execRun[e] # None
    BY <1>1, ConstantsAssumption DEF IInv, RowInv
  <2> QED BY <1>1, <2>1, <2>2 DEF Cascade, JobOf, RowsOf
<1>7. CASE UNCHANGED vars
  BY <1>2, <1>7 DEF vars, rowVars, queueVars
<1> QED BY <1>3, <1>4, <1>5, <1>6, <1>7 DEF Next, Disturb, Users, Quiescent

\* Whoever leaves nothing behind keeps the bound.
LEMMA NothingLost ==
    ASSUME LInv, Lost' \subseteq Lost, crashes' = crashes, faults' \in {faults, faults + 1}
    PROVE  IsFiniteSet(Lost') /\ Cardinality(Lost') <= crashes' + faults'
<1>1. crashes \in Nat /\ faults \in Nat
  BY ConstantsAssumption DEF LInv, IInv, TypeOK, BoundsTyped
<1>2. IsFiniteSet(Lost') /\ Cardinality(Lost') <= crashes + faults
  BY <1>1, Fewer DEF LInv
<1>3. Cardinality(Lost') \in Nat
  BY <1>2, FS_CardinalityType
<1> QED BY <1>1, <1>2, <1>3

LEMMA OneLost ==
    ASSUME LInv, NEW x, Lost' \subseteq Lost \cup {x},
           crashes' + faults' = crashes + faults + 1
    PROVE  IsFiniteSet(Lost') /\ Cardinality(Lost') <= crashes' + faults'
<1>1. crashes \in Nat /\ faults \in Nat
  BY ConstantsAssumption DEF LInv, IInv, TypeOK, BoundsTyped
<1>2. crashes + faults \in Nat /\ IsFiniteSet(Lost) /\ Cardinality(Lost) <= crashes + faults
  BY <1>1 DEF LInv
<1>3. IsFiniteSet(Lost') /\ Cardinality(Lost') <= (crashes + faults) + 1
  BY <1>2, OneMore
<1> QED BY <1>1, <1>3

\* The step of one worker out of its handler touches no other worker's hold.
LEMMA OwnLost ==
    ASSUME LInv, NEW w \in Workers, Work(w), pc[w] \in Working
    PROVE  IsFiniteSet(Lost') /\ Cardinality(Lost') <= crashes' + faults'
<1> DEFINE x == exec[w]
<1>1. IInv /\ \A e \in Execs : Cascade(e)
  BY DEF LInv
<1>2. /\ exec' = exec /\ x \in Execs
      /\ \A v \in Workers \ {w} : pc'[v] = pc[v]
      /\ \A f \in Execs \ {x} : status'[f] = status[f]
  BY <1>1, OwnStep DEF RowKept
<1>3. Lost' \subseteq Lost \cup {x}
  BY <1>2 DEF Lost, Held
<1>4. CASE pc'[w] \in Working \/ status'[x] # "RUNNING"
  <2>1. x \notin Lost'
    BY <1>2, <1>4 DEF Lost, Held
  <2>2. Lost' \subseteq Lost
    BY <1>3, <2>1
  <2> QED BY <1>1, <2>2, OwnLeaves, NothingLost
<1>5. CASE faults' = faults + 1
  <2>1. crashes' = crashes /\ crashes \in Nat /\ faults \in Nat
    BY <1>1, OwnLeaves, ConstantsAssumption DEF IInv, TypeOK, BoundsTyped
  <2> QED BY <1>3, <1>5, <2>1, OneLost
<1> QED BY <1>1, <1>4, <1>5, OwnLeaves

LEMMA NextLInv == LInv /\ [Next]_vars => LInv'
<1> SUFFICES ASSUME LInv, [Next]_vars PROVE LInv'
  OBVIOUS
<1> USE DEF rowVars, queueVars, localVars, outVars, bounds
<1>1. IInv /\ IInv' /\ \A e \in Execs : Cascade(e) /\ Cascade(e)'
  BY NextIInv, NextCascade DEF LInv
<1>2. crashes \in Nat /\ faults \in Nat
  BY <1>1, ConstantsAssumption DEF IInv, TypeOK, BoundsTyped
<1> SUFFICES IsFiniteSet(Lost') /\ Cardinality(Lost') <= crashes' + faults'
  BY <1>1 DEF LInv
<1>3. ASSUME NEW w \in Workers, Work(w), pc[w] = "init"
      PROVE  IsFiniteSet(Lost') /\ Cardinality(Lost') <= crashes' + faults'
  <2>1. pc[w] \notin Working /\ exec[w] = None
    BY <1>1, <1>3 DEF IInv, WorkerInv, Working, TrySteps, CatchSteps
  <2>2. crashes' = crashes /\ faults' \in {faults, faults + 1}
    BY <1>3 DEF Work, InitExecution, Await, QueryFails, RowMissing, FetchJobTarget, Scrape,
          ScrapeFails, SaveResult, LogDone, MarkDone, SaveLog, LogError, MarkTargetActive,
          MarkFailed, PushDone, Compare, EmitDone, ReportFailed, Settle
  <2>3. CASE UNCHANGED <<status, exec>> /\ pc'[w] = "reject"
             /\ \A v \in Workers \ {w} : pc'[v] = pc[v]
    <3>1. Lost' \subseteq Lost
      BY <2>1, <2>3 DEF Lost, Held
    <3> QED BY <2>2, <3>1, NothingLost
  <2>4. ASSUME NEW e \in Execs, status[e] = "none",
               status' = [status EXCEPT ![e] = "RUNNING"],
               \A v \in Workers \ {w} : pc'[v] = pc[v] /\ exec'[v] = exec[v]
        PROVE  Lost' \subseteq Lost \cup {e}
    BY <2>1, <2>4 DEF Lost, Held
  <2>5. ASSUME NEW e \in Execs, status[e] = "none",
               status' = [status EXCEPT ![e] = "RUNNING"],
               \A v \in Workers \ {w} : pc'[v] = pc[v] /\ exec'[v] = exec[v],
               pc'[w] = "target", exec'[w] = e
        PROVE  IsFiniteSet(Lost') /\ Cardinality(Lost') <= crashes' + faults'
    <3>1. e \notin Lost'
      BY <2>5 DEF Lost, Held, Working, TrySteps
    <3>2. Lost' \subseteq Lost
      BY <2>4, <2>5, <3>1
    <3> QED BY <2>2, <3>2, NothingLost
  <2>6. ASSUME NEW e \in Execs, status[e] = "none",
               status' = [status EXCEPT ![e] = "RUNNING"],
               \A v \in Workers \ {w} : pc'[v] = pc[v] /\ exec'[v] = exec[v],
               faults' = faults + 1
        PROVE  IsFiniteSet(Lost') /\ Cardinality(Lost') <= crashes' + faults'
    <3>1. crashes' + faults' = crashes + faults + 1
      BY <1>2, <2>2, <2>6
    <3>2. Lost' \subseteq Lost \cup {e}
      BY <2>4, <2>6
    <3> QED BY <3>1, <3>2, OneLost
  <2> QED BY <1>1, <1>3, <2>3, <2>5, <2>6, CreateStep
<1>4. ASSUME UNCHANGED <<status, crashes, faults>>,
             \A v \in Workers : \/ pc'[v] = pc[v] /\ exec'[v] = exec[v]
                                \/ pc[v] \notin Working \/ status[exec[v]] # "RUNNING"
      PROVE  IsFiniteSet(Lost') /\ Cardinality(Lost') <= crashes' + faults'
  <2>1. Lost' \subseteq Lost
    BY <1>4 DEF Lost, Held
  <2> QED BY <1>4, <2>1, NothingLost
<1>5. ASSUME NEW w \in Workers, Work(w)
      PROVE  IsFiniteSet(Lost') /\ Cardinality(Lost') <= crashes' + faults'
  <2>1. CASE pc[w] \in Working
    BY <1>5, <2>1, OwnLost
  <2>2. CASE Settle(w)
    <3>1. pc[w] \notin Working /\ UNCHANGED <<crashes, faults>>
      BY <2>2 DEF Settle, Working, TrySteps, CatchSteps
    <3> QED BY <1>1, <1>4, <2>2, <3>1, ForgetShape
  <2> QED BY <1>1, <1>3, <1>5, <2>1, <2>2, WorkCases
<1>6. ASSUME NEW w \in Workers, Crash(w)
      PROVE  IsFiniteSet(Lost') /\ Cardinality(Lost') <= crashes' + faults'
  <2>1. crashes' = crashes + 1 /\ faults' = faults
    BY <1>6 DEF Crash, Die
  <2>2. Lost' \subseteq Lost \cup {exec[w]}
    BY <1>1, <1>6, ForgetShape DEF Lost, Held
  <2> QED BY <1>2, <2>1, <2>2, OneLost
<1>7. ASSUME NEW w \in Workers, UnhandledLog(w)
      PROVE  IsFiniteSet(Lost') /\ Cardinality(Lost') <= crashes' + faults'
  <2>1. UNCHANGED <<crashes, faults>> /\ Job(w) \notin jobs /\ pc[w] \in Working
    BY <1>7 DEF UnhandledLog, Die, Working, TrySteps
  <2>2. status[exec[w]] # "RUNNING"
    BY <1>1, <2>1, ConstantsAssumption DEF IInv, WorkerInv, Cascade, JobOf, Job
  <2> QED BY <1>1, <1>4, <1>7, <2>1, <2>2, ForgetShape
<1>8. ASSUME \/ \E w \in Workers, r \in Runs : Fetch(w, r)
             \/ \E r \in Runs : RecoverStalled(r) \/ LockExpires(r) \/ \E j \in Jobs : Enqueue(r, j)
      PROVE  IsFiniteSet(Lost') /\ Cardinality(Lost') <= crashes' + faults'
  <2>1. UNCHANGED <<crashes, faults>>
    BY <1>8 DEF Fetch, RecoverStalled, LockExpires, Enqueue
  <2>2. "idle" \notin Working
    BY DEF Working, TrySteps, CatchSteps
  <2> QED BY <1>1, <1>4, <1>8, <2>1, <2>2, QueueShape
<1>9. ASSUME NEW j \in Jobs, DeleteJob(j)
      PROVE  IsFiniteSet(Lost') /\ Cardinality(Lost') <= crashes' + faults'
  <2>1. Lost' \subseteq Lost /\ UNCHANGED <<crashes, faults>>
    BY <1>9 DEF DeleteJob, Lost, Held
  <2> QED BY <2>1, NothingLost
<1>10. CASE UNCHANGED vars
  BY <1>4, <1>10 DEF vars
<1> QED BY <1>5, <1>6, <1>7, <1>8, <1>9, <1>10 DEF Next, Disturb, Users, Quiescent

\* A row left RUNNING is the trace of a crash or of a failed query: there are
\* never more of them than there were failures.
THEOREM RunningRowsAreFailures == Spec => []StuckOnlyByFailure
<1>1. LInv => StuckOnlyByFailure
  <2> SUFFICES ASSUME LInv PROVE StuckOnlyByFailure
    OBVIOUS
  <2>1. crashes + faults \in Nat
    BY ConstantsAssumption DEF LInv, IInv, TypeOK, BoundsTyped
  <2>2. Stuck \subseteq Lost
    BY DEF Stuck, Unowned, Lost, Held
  <2> QED BY <2>1, <2>2, Fewer DEF LInv, StuckOnlyByFailure
<1> QED BY <1>1, InitLInv, NextLInv, PTL DEF Spec

-----------------------------------------------------------------------------
\* One final word: every step of the processor is one of ExecutionReport, or
\* changes nothing that listeners could tell.

Words(e) == emits[e]["DONE"] + emits[e]["FAILED"]

\* The four phases, told apart.
LEMMA PhaseIs ==
    ASSUME IInv, NEW e \in Execs
    PROVE  /\ Words(e) \in Nat
           /\ Words(e) > 0 => Phase(e) = "spoken"
           /\ Words(e) = 0 /\ status[e] = "none" => Phase(e) = "unborn"
           /\ Words(e) = 0 /\ status[e] # "none" /\ Unowned(e) => Phase(e) = "silent"
           /\ Words(e) = 0 /\ status[e] # "none" /\ ~Unowned(e) => Phase(e) = "open"
<1>1. /\ emits[e]["DONE"] \in Nat /\ emits[e]["FAILED"] \in Nat
      /\ status[e] = "none" => Words(e) = 0
  BY DEF IInv, TypeOK, OutTyped, RowInv, Unheard, Words, Events
<1>2. Words(e) \in Nat
  BY <1>1 DEF Words
<1>3. Phase(e) = CASE Words(e) > 0 -> "spoken"
                   [] status[e] = "none" -> "unborn"
                   [] Words(e) = 0 /\ status[e] # "none" /\ Unowned(e) -> "silent"
                   [] OTHER -> "open"
  BY DEF Words, Phase
<1> QED BY <1>1, <1>2, <1>3

LEMMA PhaseIsNext ==
    ASSUME IInv', NEW e \in Execs
    PROVE  /\ Words(e)' \in Nat
           /\ Words(e)' > 0 => Phase(e)' = "spoken"
           /\ Words(e)' = 0 /\ status'[e] = "none" => Phase(e)' = "unborn"
           /\ Words(e)' = 0 /\ status'[e] # "none" /\ Unowned(e)' => Phase(e)' = "silent"
           /\ Words(e)' = 0 /\ status'[e] # "none" /\ ~Unowned(e)' => Phase(e)' = "open"
<1>1. /\ emits'[e]["DONE"] \in Nat /\ emits'[e]["FAILED"] \in Nat
      /\ status'[e] = "none" => Words(e)' = 0
  BY DEF IInv, TypeOK, OutTyped, RowInv, Unheard, Words, Events
<1>2. Words(e)' \in Nat
  BY <1>1 DEF Words
<1>3. Phase(e)' = CASE Words(e)' > 0 -> "spoken"
                   [] status'[e] = "none" -> "unborn"
                   [] Words(e)' = 0 /\ status'[e] # "none" /\ Unowned(e)' -> "silent"
                   [] OTHER -> "open"
  BY DEF Words, Phase
<1> QED BY <1>1, <1>2, <1>3

LEMMA PhaseKept ==
    ASSUME NEW e \in Execs, emits'[e] = emits[e],
           status'[e] = "none" <=> status[e] = "none", Unowned(e)' <=> Unowned(e)
    PROVE  Phase(e)' = Phase(e)
BY DEF Phase

\* A step that touches one execution's phase.
LEMMA PhaseMoves ==
    ASSUME NEW x \in Execs, \A f \in Execs \ {x} : Phase(f)' = Phase(f)
    PROVE  [e \in Execs |-> Phase(e)]' = [[e \in Execs |-> Phase(e)] EXCEPT ![x] = Phase(x)']
OBVIOUS

LEMMA Unnoticed ==
    ASSUME UNCHANGED emits, \A e \in Execs : Phase(e)' = Phase(e)
    PROVE  UNCHANGED Report!vars
BY DEF Report!vars

\* A worker that forgets its run gives up its execution, unless it has spoken.
LEMMA ForgetReports ==
    ASSUME IInv, IInv', NEW w \in Workers, Settle(w) \/ Crash(w) \/ UnhandledLog(w)
    PROVE  Report!Next \/ UNCHANGED Report!vars
<1> DEFINE x == exec[w]
<1>1. /\ UNCHANGED <<status, emits>> /\ exec'[w] = None
      /\ \A v \in Workers \ {w} : exec'[v] = exec[v]
  BY ForgetShape
<1>2. ASSUME NEW f \in Execs, f # exec[w] PROVE Phase(f)' = Phase(f)
  <2>1. f # None
    BY ConstantsAssumption
  <2>2. Unowned(f)' <=> Unowned(f)
    BY <1>1, <1>2, <2>1 DEF Unowned
  <2> QED BY <1>1, <2>2, PhaseKept
<1>3. CASE exec[w] \notin Execs
  BY <1>1, <1>2, <1>3, Unnoticed
<1>4. CASE exec[w] \in Execs
  <2>1. ~Unowned(exec[w]) /\ status[exec[w]] # "none" /\ exec[w] # None
    BY <1>4, ConstantsAssumption DEF Unowned, IInv, WorkerInv
  <2>2. \A v \in Workers : exec'[v] # exec[w]
    BY <1>1, <2>1 DEF IInv, OneOwner
  <2>3. PICK e \in Execs : e = exec[w]
    BY <1>4
  <2>4. Unowned(e)' /\ ~Unowned(e) /\ status[e] # "none"
    BY <2>1, <2>2, <2>3 DEF Unowned
  <2>5. Words(e)' = Words(e)
    BY <1>1 DEF Words
  <2>7. CASE Words(e) > 0
    <3>1. Phase(e)' = Phase(e)
      BY <2>5, <2>7, PhaseIs, PhaseIsNext
    <3> QED BY <1>1, <1>2, <2>3, <3>1, Unnoticed
  <2>8. CASE Words(e) = 0
    <3>1. Phase(e) = "open"
      BY <2>4, <2>8, PhaseIs
    <3>2. status'[e] # "none" /\ Words(e)' = 0
      BY <1>1, <2>4, <2>5, <2>8
    <3>3. Phase(e)' = "silent"
      BY <2>4, <3>2, PhaseIsNext
    <3>4. [f \in Execs |-> Phase(f)]' = [[f \in Execs |-> Phase(f)] EXCEPT ![e] = "silent"]
      BY <1>2, <2>3, <3>3, PhaseMoves
    <3>5. Report!GiveUp(e)
      BY <1>1, <3>1, <3>4 DEF Report!GiveUp, Report!Move
    <3> QED BY <3>5 DEF Report!Next
  <2> QED BY <2>7, <2>8, PhaseIs, <1>4, <2>3
<1> QED BY <1>3, <1>4

\* A worker that creates a row opens its execution, or loses it at once.
LEMMA CreateReports ==
    ASSUME IInv, IInv', NEW w \in Workers, Work(w), pc[w] = "init"
    PROVE  Report!Next \/ UNCHANGED Report!vars
<1>1. TypeOK /\ TypeOK' /\ exec[w] = None
  BY DEF IInv, WorkerInv
<1>2. UNCHANGED emits /\ \A v \in Workers \ {w} : exec'[v] = exec[v]
  BY CreateStep
<1>3. CASE UNCHANGED <<status, exec>>
  <2>1. ASSUME NEW f \in Execs PROVE Phase(f)' = Phase(f)
    BY <1>2, <1>3, PhaseKept DEF Unowned
  <2> QED BY <1>2, <2>1, Unnoticed
<1>4. ASSUME NEW e \in Execs, status[e] = "none", status' = [status EXCEPT ![e] = "RUNNING"],
             exec'[w] = e \/ exec'[w] = None
      PROVE  Report!Next \/ UNCHANGED Report!vars
  <2>1. ASSUME NEW f \in Execs \ {e} PROVE Phase(f)' = Phase(f)
    <3>1. Unowned(f)' <=> Unowned(f)
      BY <1>1, <1>2, <1>4, ConstantsAssumption DEF Unowned
    <3> QED BY <1>1, <1>2, <1>4, <3>1, PhaseKept DEF TypeOK, RowsTyped
  <2>2. Words(e) = 0 /\ Words(e)' = 0 /\ status'[e] = "RUNNING"
    BY <1>1, <1>2, <1>4 DEF IInv, RowInv, Unheard, Events, Words, TypeOK, RowsTyped
  <2>3. Phase(e) = "unborn" /\ Phase(e)' \in {"open", "silent"}
    BY <1>1, <1>4, <2>2, PhaseIs, PhaseIsNext
  <2>4. [f \in Execs |-> Phase(f)]' = [[f \in Execs |-> Phase(f)] EXCEPT ![e] = Phase(e)']
    BY <2>1, PhaseMoves
  <2>5. Report!Open(e) \/ Report!StillBorn(e)
    BY <1>2, <2>3, <2>4 DEF Report!Open, Report!StillBorn, Report!Move
  <2> QED BY <2>5 DEF Report!Next
<1> QED BY <1>1, <1>3, <1>4, CreateStep

\* A step inside the handler that emits is the final word.
LEMMA OwnReports ==
    ASSUME IInv, IInv', NEW w \in Workers, Work(w), pc[w] \in Working
    PROVE  Report!Next \/ UNCHANGED Report!vars
<1> USE DEF rowVars, queueVars, localVars, outVars
<1>1. /\ exec' = exec /\ exec[w] \in Execs /\ TypeOK /\ TypeOK'
      /\ \A f \in Execs \ {exec[w]} : emits'[f] = emits[f] /\ status'[f] = status[f]
  BY OwnStep DEF RowKept, IInv
<1>2. PICK x \in Execs : x = exec[w]
  BY <1>1
<1>3. \A f \in Execs \ {x} : Phase(f)' = Phase(f)
  BY <1>1, <1>2, PhaseKept DEF Unowned
<1>4. status[x] # "none" /\ status'[x] # "none" /\ ~Unowned(x) /\ ~Unowned(x)' /\ Words(x) = 0
      /\ emits[x]["DONE"] = 0 /\ emits[x]["FAILED"] = 0
  <2>1. status[x] # "none" /\ Unheard(x) /\ ~Unowned(x) /\ ~Unowned(x)'
    BY <1>1, <1>2, ConstantsAssumption DEF IInv, WorkerInv, Unowned
  <2>2. status'[x] # "none"
    BY <1>2, <2>1, OwnOutcome
  <2> QED BY <2>1, <2>2 DEF Unheard, Events, Words
<1>5. CASE emits' = emits
  <2>1. Phase(x)' = Phase(x)
    BY <1>2, <1>4, <1>5, PhaseKept
  <2> QED BY <1>3, <1>5, <2>1, Unnoticed
<1>6. ASSUME NEW o \in Outcomes,
             \A e \in Execs, a \in Outcomes :
                emits'[e][a] = IF e = x /\ a = o THEN emits[e][a] + 1 ELSE emits[e][a]
      PROVE  Report!Next
  <2>1. Words(x)' = 1
    BY <1>4, <1>6 DEF Words, Outcomes
  <2>2. Phase(x) = "open" /\ Phase(x)' = "spoken"
    BY <1>1, <1>4, <2>1, PhaseIs, PhaseIsNext
  <2>3. [f \in Execs |-> Phase(f)]' = [[f \in Execs |-> Phase(f)] EXCEPT ![x] = "spoken"]
    BY <1>3, <2>2, PhaseMoves
  <2>4. [e \in Execs |-> [a \in Outcomes |-> emits[e][a]]]' =
          [[e \in Execs |-> [a \in Outcomes |-> emits[e][a]]] EXCEPT ![x][o] = @ + 1]
    <3> DEFINE g == [e \in Execs |-> [a \in Outcomes |-> emits[e][a]]]
    <3>1. ASSUME NEW e \in Execs
          PROVE  [a \in Outcomes |-> emits'[e][a]] = [g EXCEPT ![x][o] = @ + 1][e]
      <4>1. CASE e = x
        BY <1>6, <4>1
      <4>2. CASE e # x
        BY <1>6, <4>2
      <4> QED BY <4>1, <4>2
    <3> QED BY <3>1
  <2>5. Report!Speak(x, o)
    BY <2>2, <2>3, <2>4 DEF Report!Speak, Report!Move
  <2> QED BY <2>5 DEF Report!Next
<1>7. CASE EmitDone(w)
  <2>1. emits' = [emits EXCEPT ![x]["DONE"] = @ + 1,
                               ![x]["DIFF"] = IF differs[w] THEN @ + 1 ELSE @]
    BY <1>2, <1>7 DEF EmitDone
  <2>2. \A e \in Execs, a \in Outcomes :
          emits'[e][a] = IF e = x /\ a = "DONE" THEN emits[e][a] + 1 ELSE emits[e][a]
    BY <1>1, <2>1 DEF TypeOK, OutTyped, Outcomes, Events
  <2> QED BY <1>6, <2>2 DEF Outcomes
<1>8. CASE ReportFailed(w)
  <2>1. emits' = [emits EXCEPT ![x]["FAILED"] = @ + 1]
    BY <1>2, <1>8 DEF ReportFailed
  <2>2. \A e \in Execs, a \in Outcomes :
          emits'[e][a] = IF e = x /\ a = "FAILED" THEN emits[e][a] + 1 ELSE emits[e][a]
    BY <1>1, <2>1 DEF TypeOK, OutTyped, Outcomes, Events
  <2> QED BY <1>6, <2>2 DEF Outcomes
<1>9. EmitDone(w) \/ ReportFailed(w) \/ emits' = emits
  BY DEF Work, InitExecution, FetchJobTarget, Scrape, ScrapeFails, SaveResult, LogDone, MarkDone,
         SaveLog, LogError, Mark, MarkTargetActive, MarkFailed, PushDone, Compare, QueryFails,
         RowMissing, Settle
<1> QED BY <1>5, <1>7, <1>8, <1>9

LEMMA NextReports == IInv /\ IInv' /\ [Next]_vars => Report!Next \/ UNCHANGED Report!vars
<1> SUFFICES ASSUME IInv, IInv', [Next]_vars PROVE Report!Next \/ UNCHANGED Report!vars
  OBVIOUS
<1>1. ASSUME UNCHANGED <<emits, status, exec>> PROVE UNCHANGED Report!vars
  <2>1. \A e \in Execs : Phase(e)' = Phase(e)
    BY <1>1, PhaseKept DEF Unowned
  <2> QED BY <1>1, <2>1, Unnoticed
<1>2. ASSUME NEW w \in Workers, Work(w) PROVE Report!Next \/ UNCHANGED Report!vars
  BY <1>2, WorkCases, OwnReports, CreateReports, ForgetReports
<1>3. ASSUME NEW w \in Workers, Crash(w) \/ UnhandledLog(w)
      PROVE  Report!Next \/ UNCHANGED Report!vars
  BY <1>3, ForgetReports
<1>4. ASSUME \/ \E w \in Workers, r \in Runs : Fetch(w, r)
             \/ \E r \in Runs : RecoverStalled(r) \/ LockExpires(r) \/ \E j \in Jobs : Enqueue(r, j)
      PROVE  UNCHANGED Report!vars
  BY <1>1, <1>4, QueueShape
<1>5. ASSUME NEW j \in Jobs, DeleteJob(j) PROVE UNCHANGED Report!vars
  <2>1. /\ UNCHANGED <<emits, exec>>
        /\ \A e \in Execs : status'[e] = IF e \in RowsOf(j) THEN "deleted" ELSE status[e]
    BY <1>5 DEF DeleteJob, outVars, localVars
  <2>2. \A e \in RowsOf(j) : e \in Execs /\ status[e] # "none"
    BY DEF RowsOf, IInv, RowInv
  <2>3. \A e \in Execs : Phase(e)' = Phase(e)
    BY <2>1, <2>2, PhaseKept DEF Unowned
  <2> QED BY <2>1, <2>3, Unnoticed
<1>6. CASE UNCHANGED vars
  BY <1>1, <1>6 DEF vars, rowVars, localVars, outVars
<1> QED BY <1>2, <1>3, <1>4, <1>5, <1>6 DEF Next, Disturb, Users, Quiescent

LEMMA InitReports == Init => Report!Init
<1> SUFFICES ASSUME Init PROVE Report!Init
  OBVIOUS
<1>1. \A e \in Execs : Phase(e) = "unborn"
  <2>1. IInv
    BY InitIInv
  <2>2. \A e \in Execs : Words(e) = 0 /\ status[e] = "none"
    BY DEF Init, Words, Events
  <2> QED BY <2>1, <2>2, PhaseIs
<1> QED BY <1>1 DEF Init, Report!Init, Outcomes, Events

\* The processor implements ExecutionReport: whatever fails, crashes or is
\* processed twice, listeners hear at most one final word of an execution.
THEOREM ReportImplemented == Spec => ReportsOnce
<1>1. IInv /\ IInv' /\ [Next]_vars => [Report!Next]_(Report!vars)
  BY NextReports
<1> QED BY <1>1, InitReports, Invariance, PTL DEF Spec, ReportsOnce, Report!Spec

-----------------------------------------------------------------------------
(***************************************************************************)
(* The verdict of a comparison, for any number of workers.  While no two   *)
(* of them are closing executions of the same job, the row of the one that *)
(* is has the latest finishedAt of the job's completed rows, so that the   *)
(* two newest rows the query finds are this one and the one before it; and *)
(* no later step touches a row that an announced one was compared with.    *)
(***************************************************************************)

\* From markDone until it has announced the outcome, or marked the row FAILED
\* after all, a worker is closing its execution.
Closing(w, j) == pc[w] \in Working /\ exec[w] \in DoneRows(j)
Apart(j)      == \A v, w \in Workers : Closing(v, j) /\ Closing(w, j) => v = w

Dates ==
    /\ \A e \in Execs : finishedAt[e] <= clock
    /\ \A e, f \in Execs : e # f /\ finishedAt[e] > 0 => finishedAt[e] # finishedAt[f]
    /\ \A e \in Execs : status[e] = "DONE" => finishedAt[e] > 0

Newest(e, j) == \A f \in DoneRows(j) : finishedAt[f] <= finishedAt[e]

Verdict(w, j) == Closing(w, j) =>
    /\ Newest(exec[w], j)
    /\ pc[w] = "emitDone" => (differs[w] <=> Changed(exec[w]))

Announced(e) == status[e] = "DONE" /\ emits[e]["DONE"] > 0 =>
    (emits[e]["DIFF"] > 0 <=> Changed(e))

\* What DiffVerdictCorrect says, of one job's executions.
VerdictsCorrect(j) == \A e \in RowsOf(j) : Announced(e)

JobInv(j) ==
    /\ IInv
    /\ Dates
    /\ \A w \in Workers : Verdict(w, j)
    /\ VerdictsCorrect(j)

RowSame(f) ==
    /\ status'[f] = status[f] /\ execRun'[f] = execRun[f]
    /\ result'[f] = result[f] /\ finishedAt'[f] = finishedAt[f]
    /\ execRun[f] # None => JobOf(f)' = JobOf(f)

\* What a row was compared with depends on the rows before it only.
LEMMA ChangedKept ==
    ASSUME NEW x, NEW e \in Execs, e # x, execRun[e] # None,
           \A f \in Execs \ {x} : RowSame(f),
           x \notin Before(e), x \notin Before(e)'
    PROVE  Changed(e)' <=> Changed(e)
<1>1. Before(e)' = Before(e)
  <2>1. ASSUME NEW f PROVE f \in Before(e)' <=> f \in Before(e)
    <3>1. CASE f = x
      BY <3>1
    <3>2. CASE f \in Execs \ {x}
      BY <3>2 DEF RowSame, Before, DoneRows, RowsOf
    <3>3. CASE f \notin Execs
      BY <3>3 DEF Before, DoneRows, RowsOf
    <3> QED BY <3>1, <3>2, <3>3
  <2> QED BY <2>1
<1>2. \A f \in Before(e) \cup {e} : finishedAt'[f] = finishedAt[f] /\ result'[f] = result[f]
  BY DEF RowSame, Before, DoneRows, RowsOf
<1> QED BY <1>1, <1>2 DEF Changed, IsLatest

\* The query finds the newest row and the one before it.
LEMMA ComparesWithLast ==
    ASSUME TypeOK, Dates, NEW j, NEW x \in DoneRows(j), Newest(x, j)
    PROVE  LatestTwoDiffer(j) <=> Changed(x)
<1> DEFINE D == DoneRows(j)
<1>1. x \in D /\ D \subseteq Execs /\ JobOf(x) = j /\ status[x] = "DONE"
  BY DEF DoneRows, RowsOf
<1>2. \A f \in Execs : finishedAt[f] \in Nat
  BY DEF TypeOK, RowsTyped
<1>3. \A f \in D \ {x} : finishedAt[f] < finishedAt[x]
  <2>1. finishedAt[x] > 0
    BY <1>1 DEF Dates
  <2> QED BY <1>1, <1>2, <2>1 DEF Dates, Newest
<1>4. Before(x) = D \ {x}
  BY <1>1, <1>2, <1>3 DEF Before
<1>5. \A e : IsLatest(D, e) <=> e = x
  <2>1. IsLatest(D, x)
    BY <1>1, <1>3 DEF IsLatest
  <2>2. ASSUME NEW e, IsLatest(D, e), e # x PROVE FALSE
    BY <1>1, <1>2, <1>3, <2>2 DEF IsLatest
  <2> QED BY <2>1, <2>2
<1> HIDE DEF D
<1>6. LatestTwoDiffer(j) <=>
        \E e, p \in D : IsLatest(D, e) /\ IsLatest(D \ {e}, p) /\ p # e /\ result[e] # result[p]
  BY DEF LatestTwoDiffer, D
<1>7. Changed(x) <=> \E p \in D \ {x} : IsLatest(D \ {x}, p) /\ result[p] # result[x]
  BY <1>4 DEF Changed
<1> QED BY <1>1, <1>5, <1>6, <1>7

\* Where emitDone is reached, and where events come from.
LEMMA EmitCases ==
    ASSUME IInv, NEW w \in Workers, Work(w), pc[w] \in Working
    PROVE  /\ pc'[w] = "emitDone" => Compare(w)
           /\ EmitDone(w) \/ ReportFailed(w) \/ emits' = emits
<1> USE DEF outVars
<1>1. EmitDone(w) \/ ReportFailed(w) \/ emits' = emits
  BY DEF Work, InitExecution, FetchJobTarget, Scrape, ScrapeFails, SaveResult, LogDone, MarkDone,
         SaveLog, LogError, Mark, MarkTargetActive, MarkFailed, PushDone, Compare, QueryFails,
         RowMissing, Settle
<1>2. \A here, next, reply : Await(w, here, next, reply) =>
          pc'[w] \in {next, "logError", "reject"}
  BY DEF Await, OnError, IInv, TypeOK
<1>3. ScrapeFails(w) \/ QueryFails(w) \/ RowMissing(w) => pc'[w] \in {"logError", "reject"}
  BY DEF ScrapeFails, QueryFails, RowMissing, OnError, IInv, TypeOK
<1>4. ~Settle(w)
  BY DEF Settle, Working, TrySteps, CatchSteps
<1>5. pc'[w] = "emitDone" => Compare(w)
  BY <1>2, <1>3, <1>4 DEF Work, InitExecution, FetchJobTarget, Scrape, SaveResult, LogDone, MarkDone,
         SaveLog, LogError, MarkTargetActive, MarkFailed, PushDone, EmitDone, ReportFailed
<1> QED BY <1>1, <1>5

\* Rows that are kept stay among the rows of their job.
LEMMA SameRows ==
    ASSUME NEW j, NEW e \in Execs, execRun[e] # None, RowSame(e)
    PROVE  /\ e \in RowsOf(j)' <=> e \in RowsOf(j)
           /\ e \in DoneRows(j)' <=> e \in DoneRows(j)
BY DEF RowSame, RowsOf, DoneRows

\* A step inside the handler touches no row that was compared with.
LEMMA OwnBefore ==
    ASSUME NEW j, JobInv(j), NEW w \in Workers, Work(w), pc[w] \in Working,
           NEW e \in DoneRows(j), e # exec[w]
    PROVE  exec[w] \notin Before(e) /\ exec[w] \notin Before(e)'
<1> DEFINE x == exec[w]
<1>1. IInv /\ Dates /\ Verdict(w, j) /\ e \in Execs /\ JobOf(e) = j /\ execRun[e] # None
  BY DEF JobInv, DoneRows, RowsOf
<1>2. /\ x \in Execs /\ clock \in Nat /\ finishedAt[e] \in Nat /\ finishedAt[e] <= clock
      /\ finishedAt[x] \in Nat
  BY <1>1, OwnStep DEF Dates, IInv, TypeOK, RowsTyped
<1>3. finishedAt'[e] = finishedAt[e] /\ JobOf(e)' = j /\ UNCHANGED <<execRun, runJob>>
  BY <1>1, OwnStep DEF RowKept, JobOf
<1>4. x \in DoneRows(j) => finishedAt[e] <= finishedAt[x]
  BY <1>1 DEF Verdict, Closing, Newest
<1>5. x \notin Before(e)
  BY <1>1, <1>2, <1>4 DEF Before
<1>6. x \in DoneRows(j)' => finishedAt'[x] \in Nat /\ finishedAt'[x] >= finishedAt[e]
  <2>1. x \in DoneRows(j)' => status'[x] = "DONE" /\ x \in RowsOf(j)
    BY <1>3 DEF DoneRows, RowsOf, JobOf
  <2>2. CASE status'[x] = status[x] /\ finishedAt'[x] = finishedAt[x]
    BY <1>2, <1>4, <2>1, <2>2 DEF DoneRows
  <2>3. CASE finishedAt'[x] = clock + 1
    BY <1>2, <2>3
  <2> QED BY <1>1, <2>2, <2>3, OwnOutcome
<1>7. x \notin Before(e)'
  BY <1>2, <1>3, <1>6 DEF Before
<1> QED BY <1>5, <1>7

LEMMA OwnDates ==
    ASSUME IInv, Dates, IInv', NEW w \in Workers, Work(w), pc[w] \in Working
    PROVE  Dates'
<1> DEFINE x == exec[w]
<1>1. IInv /\ Dates
  OBVIOUS
<1>2. /\ x \in Execs /\ clock \in Nat /\ \A e \in Execs : finishedAt[e] \in Nat
      /\ \A f \in Execs \ {x} : finishedAt'[f] = finishedAt[f] /\ status'[f] = status[f]
  BY <1>1, OwnStep DEF IInv, TypeOK, RowsTyped, RowKept
<1>3. CASE finishedAt'[x] = finishedAt[x] /\ clock' = clock /\ status'[x] = status[x]
  BY <1>1, <1>2, <1>3 DEF Dates
<1>4. CASE finishedAt'[x] = clock + 1 /\ clock' = clock + 1
  <2>1. \A e \in Execs : finishedAt'[e] <= clock'
    BY <1>1, <1>2, <1>4 DEF Dates
  <2>2. ASSUME NEW e \in Execs, NEW f \in Execs, e # f, finishedAt'[e] > 0
        PROVE  finishedAt'[e] # finishedAt'[f]
    BY <1>1, <1>2, <1>4, <2>2 DEF Dates
  <2>3. ASSUME NEW e \in Execs, status'[e] = "DONE" PROVE finishedAt'[e] > 0
    BY <1>1, <1>2, <1>4, <2>3 DEF Dates
  <2> QED BY <2>1, <2>2, <2>3 DEF Dates
<1> QED BY <1>1, <1>3, <1>4, OwnOutcome

\* A step of w inside the handler.
LEMMA OwnJobInv ==
    ASSUME NEW j, JobInv(j), IInv', Apart(j)', NEW w \in Workers, Work(w), pc[w] \in Working
    PROVE  JobInv(j)'
<1>1. IInv /\ Dates /\ Verdict(w, j)
  BY DEF JobInv
<1>2. /\ exec' = exec /\ exec[w] \in Execs
      /\ UNCHANGED <<jobs, execRun, runJob>>
      /\ \A v \in Workers \ {w} : pc'[v] = pc[v] /\ differs'[v] = differs[v]
      /\ \A f \in Execs \ {exec[w]} : RowKept(f) /\ finishedAt'[f] = finishedAt[f]
  BY <1>1, OwnStep
<1>3. PICK x \in Execs : x = exec[w]
  BY <1>2
<1>4. execRun[x] \in Runs /\ Unheard(x) /\ JobOf(x) = Job(w) /\ execRun[x] # None
  BY <1>1, <1>3, ConstantsAssumption DEF IInv, WorkerInv, RowInv, JobOf, Job
<1>5. \A f \in Execs \ {x} : RowSame(f)
  BY <1>2, <1>3 DEF RowSame, RowKept, JobOf
<1>6. Dates'
  BY <1>1, OwnDates
<1>7. RowsOf(j)' = RowsOf(j) /\ \A f \in Execs \ {x} : f \in DoneRows(j)' <=> f \in DoneRows(j)
  BY <1>2, <1>3 DEF RowsOf, DoneRows, JobOf, RowKept
<1>8. ASSUME NEW e \in DoneRows(j), e # x PROVE Changed(e)' <=> Changed(e)
  <2>1. e \in Execs /\ execRun[e] # None
    BY DEF DoneRows, RowsOf
  <2> QED BY <1>3, <1>5, <1>8, <2>1, OwnBefore, ChangedKept
<1>9. ASSUME NEW e \in RowsOf(j), e # x PROVE Announced(e)'
  <2>1. e \in Execs /\ status'[e] = status[e] /\ emits'[e] = emits[e] /\ Announced(e)
    BY <1>2, <1>3, <1>9 DEF RowsOf, RowKept, JobInv, VerdictsCorrect
  <2>2. status[e] = "DONE" => (Changed(e)' <=> Changed(e))
    BY <1>8, <1>9 DEF DoneRows
  <2> QED BY <2>1, <2>2 DEF Announced
<1>10. ASSUME x \in RowsOf(j), EmitDone(w) PROVE Announced(x)'
  <2>1. /\ UNCHANGED <<status, result, finishedAt, execRun, runJob>>
        /\ pc[w] = "emitDone"
        /\ emits'[x]["DIFF"] > 0 <=> differs[w]
    <3>1. emits' = [emits EXCEPT ![x]["DONE"] = @ + 1,
                                 ![x]["DIFF"] = IF differs[w] THEN @ + 1 ELSE @]
      BY <1>3, <1>10 DEF EmitDone
    <3>2. emits[x]["DIFF"] = 0 /\ emits \in [Execs -> [Events -> Nat]]
      BY <1>1, <1>4 DEF Unheard, Events, IInv, TypeOK, OutTyped
    <3>3. emits'[x]["DIFF"] = IF differs[w] THEN 1 ELSE 0
      BY <3>1, <3>2 DEF Events
    <3> QED BY <1>10, <3>3 DEF EmitDone, Await, rowVars, queueVars
  <2>2. Changed(x)' <=> Changed(x)
    BY <2>1 DEF Changed, Before, DoneRows, RowsOf, JobOf, IsLatest
  <2>3. status[x] = "DONE" => (differs[w] <=> Changed(x))
    BY <1>1, <1>3, <1>10, <2>1 DEF Verdict, Closing, DoneRows
  <2> QED BY <2>1, <2>2, <2>3 DEF Announced
<1>11. ASSUME ~EmitDone(w) PROVE Announced(x)'
  <2>1. emits'[x]["DONE"] = 0
    <3>1. emits[x]["DONE"] = 0
      BY <1>4 DEF Unheard, Events
    <3>2. CASE emits' = emits
      BY <3>1, <3>2
    <3>3. CASE ReportFailed(w)
      BY <1>1, <1>3, <3>1, <3>3 DEF ReportFailed, IInv, TypeOK, OutTyped, Events
    <3> QED BY <1>1, <1>11, <3>2, <3>3, EmitCases
  <2> QED BY <2>1 DEF Announced
<1>12. \A f \in Execs : finishedAt[f] \in Nat /\ finishedAt[f] <= clock /\ clock \in Nat
  BY <1>1 DEF Dates, IInv, TypeOK, RowsTyped
<1>13. ASSUME Closing(w, j)' PROVE Verdict(w, j)'
  <2>1. pc'[w] \in Working /\ x \in DoneRows(j)' /\ exec'[w] = x /\ status'[x] = "DONE" /\ x \in RowsOf(j)
    BY <1>2, <1>3, <1>7, <1>13 DEF Closing, DoneRows
  <2>2. Newest(x, j)'
    <3> SUFFICES ASSUME NEW f \in DoneRows(j)' PROVE finishedAt'[f] <= finishedAt'[x]
      BY DEF Newest
    <3>1. f \in Execs /\ (f # x => f \in DoneRows(j) /\ finishedAt'[f] = finishedAt[f])
      BY <1>2, <1>3, <1>7 DEF DoneRows, RowsOf
    <3>2. CASE status'[x] = status[x] /\ finishedAt'[x] = finishedAt[x]
      <4>1. x \in DoneRows(j)
        BY <2>1, <3>2 DEF DoneRows
      <4>2. Newest(x, j)
        BY <1>1, <1>3, <4>1 DEF Verdict, Closing
      <4> QED BY <1>12, <3>1, <3>2, <4>1, <4>2 DEF Newest
    <3>3. CASE finishedAt'[x] = clock + 1
      BY <1>12, <3>1, <3>3
    <3> QED BY <1>1, <1>3, <3>2, <3>3, OwnOutcome
  <2>3. ASSUME pc'[w] = "emitDone" PROVE differs'[w] <=> Changed(x)'
    <3>1. Compare(w)
      BY <1>1, <2>3, EmitCases
    <3>2. /\ UNCHANGED <<status, result, finishedAt, execRun, runJob, clock>>
          /\ differs'[w] <=> LatestTwoDiffer(Job(w))
      BY <1>1, <3>1 DEF Compare, rowVars, queueVars, IInv, TypeOK, LocalsTyped
    <3>3. Changed(x)' <=> Changed(x)
      BY <3>2 DEF Changed, Before, DoneRows, RowsOf, JobOf, IsLatest
    <3>4. x \in DoneRows(j) /\ Job(w) = j
      BY <1>4, <2>1, <3>2 DEF DoneRows, RowsOf
    <3>5. Newest(x, j)
      BY <1>1, <1>3, <3>4 DEF Verdict, Closing
    <3>6. LatestTwoDiffer(j) <=> Changed(x)
      BY <1>1, <3>4, <3>5, ComparesWithLast DEF IInv
    <3> QED BY <3>2, <3>3, <3>4, <3>6
  <2> QED BY <1>2, <1>3, <2>2, <2>3 DEF Verdict
<1>14. ASSUME NEW v \in Workers, v # w, Closing(v, j)' PROVE Verdict(v, j)'
  <2>1. exec[v] \in Execs \ {x} /\ exec'[v] = exec[v] /\ pc'[v] = pc[v] /\ differs'[v] = differs[v]
        /\ exec[v] \in DoneRows(j)' /\ pc[v] \in Working
    <3>1. exec'[v] = exec[v] /\ pc'[v] = pc[v] /\ differs'[v] = differs[v]
      BY <1>2, <1>14
    <3>2. exec[v] \in DoneRows(j)' /\ pc[v] \in Working
      BY <1>14, <3>1 DEF Closing
    <3>3. exec[v] \in Execs
      BY <3>2 DEF DoneRows, RowsOf
    <3> QED BY <1>1, <1>3, <1>14, <3>1, <3>2, <3>3, ConstantsAssumption DEF IInv, OneOwner
  <2>2. PICK y \in Execs \ {x} : y = exec[v]
    BY <2>1
  <2>3. y \in DoneRows(j) /\ Verdict(v, j) /\ finishedAt'[y] = finishedAt[y]
    BY <1>2, <1>3, <1>7, <2>1, <2>2 DEF JobInv
  <2>4. Newest(y, j) /\ (pc[v] = "emitDone" => (differs[v] <=> Changed(y)))
    BY <2>1, <2>2, <2>3 DEF Verdict, Closing
  <2>5. x \in DoneRows(j)' => x \in DoneRows(j) /\ finishedAt'[x] = finishedAt[x]
    <3> SUFFICES ASSUME x \in DoneRows(j)' PROVE x \in DoneRows(j) /\ finishedAt'[x] = finishedAt[x]
      OBVIOUS
    <3>1. status'[x] = "DONE" /\ x \in RowsOf(j)
      BY <1>7 DEF DoneRows
    <3>2. ~Closing(w, j)'
      BY <1>14 DEF Apart
    <3>3. pc'[w] \notin Working
      BY <1>2, <1>3, <3>2 DEF Closing
    <3>4. status'[x] = status[x] /\ finishedAt'[x] = finishedAt[x]
      BY <1>1, <1>3, <3>1, <3>3, OwnOutcome DEF Working, TrySteps, CatchSteps
    <3> QED BY <3>1, <3>4 DEF DoneRows
  <2>6. Newest(y, j)'
    <3> SUFFICES ASSUME NEW f \in DoneRows(j)' PROVE finishedAt'[f] <= finishedAt'[y]
      BY DEF Newest
    <3>1. f \in DoneRows(j) /\ finishedAt'[f] = finishedAt[f]
      BY <1>2, <1>3, <1>7, <2>5 DEF DoneRows, RowsOf
    <3> QED BY <2>3, <2>4, <3>1 DEF Newest
  <2>7. Changed(y)' <=> Changed(y)
    BY <1>8, <2>2, <2>3
  <2>8. exec'[v] = y
    BY <2>1, <2>2
  <2> QED BY <2>1, <2>4, <2>6, <2>7, <2>8 DEF Verdict
<1>15. ASSUME NEW v \in Workers PROVE Verdict(v, j)'
  BY <1>13, <1>14 DEF Verdict
<1>16. ASSUME NEW e \in RowsOf(j)' PROVE Announced(e)'
  BY <1>7, <1>9, <1>10, <1>11
<1> QED BY <1>6, <1>15, <1>16 DEF JobInv, VerdictsCorrect

\* A step that changes no row and no worker's verdict.
LEMMA RowsStillJobInv ==
    ASSUME NEW j, JobInv(j), IInv', UNCHANGED <<status, result, finishedAt, clock, execRun, emits>>,
           \A r \in Runs : runState[r] # "absent" => runJob'[r] = runJob[r],
           \A w \in Workers : \/ pc'[w] \in {"idle", "init", "resolve", "reject"}
                              \/ pc'[w] = pc[w] /\ exec'[w] = exec[w] /\ differs'[w] = differs[w]
    PROVE  JobInv(j)'
<1>1. IInv
  BY DEF JobInv
<1>2. \A f \in Execs : RowSame(f)
  BY <1>1, ConstantsAssumption DEF RowSame, JobOf, IInv, RowInv
<1>3. ASSUME NEW e PROVE /\ e \in RowsOf(j)' <=> e \in RowsOf(j)
                         /\ e \in DoneRows(j)' <=> e \in DoneRows(j)
  <2>1. CASE e \in Execs /\ execRun[e] # None
    BY <1>2, <2>1, SameRows
  <2>2. CASE e \notin Execs \/ execRun[e] = None
    BY <2>2 DEF RowsOf, DoneRows
  <2> QED BY <2>1, <2>2
<1>4. ASSUME NEW e \in DoneRows(j) PROVE Changed(e)' <=> Changed(e)
  <2>1. None # e /\ None \notin Before(e) /\ None \notin Before(e)' /\ e \in Execs /\ execRun[e] # None
    BY ConstantsAssumption DEF Before, DoneRows, RowsOf
  <2> QED BY <1>2, <2>1, ChangedKept
<1>5. Dates'
  BY DEF JobInv, Dates
<1>6. ASSUME NEW e \in RowsOf(j)' PROVE Announced(e)'
  <2>1. e \in RowsOf(j) /\ (status[e] = "DONE" => (Changed(e)' <=> Changed(e)))
    BY <1>3, <1>4 DEF DoneRows
  <2> QED BY <2>1 DEF JobInv, VerdictsCorrect, Announced
<1>7. ASSUME NEW w \in Workers, Closing(w, j)' PROVE Verdict(w, j)'
  <2>1. pc'[w] = pc[w] /\ exec'[w] = exec[w] /\ differs'[w] = differs[w]
    BY <1>7 DEF Closing, Working, TrySteps, CatchSteps
  <2>2. PICK x \in DoneRows(j) : x = exec[w]
    BY <1>3, <1>7, <2>1 DEF Closing
  <2>3. Newest(x, j) /\ (pc[w] = "emitDone" => (differs[w] <=> Changed(x)))
    BY <1>7, <2>1, <2>2 DEF JobInv, Verdict, Closing
  <2>4. Newest(x, j)'
    BY <1>3, <2>3 DEF Newest
  <2>5. exec'[w] = x /\ (Changed(x)' <=> Changed(x))
    BY <1>4, <2>1, <2>2
  <2> QED BY <2>1, <2>3, <2>4, <2>5 DEF Verdict
<1>8. \A w \in Workers : Verdict(w, j)'
  BY <1>7 DEF Verdict
<1> QED BY <1>5, <1>6, <1>8 DEF JobInv, VerdictsCorrect

\* A new row is not DONE, so no comparison sees it.
LEMMA CreateJobInv ==
    ASSUME NEW j, JobInv(j), IInv', NEW w \in Workers, Work(w), pc[w] = "init"
    PROVE  JobInv(j)'
<1>1. IInv
  BY DEF JobInv
<1>2. /\ UNCHANGED <<result, finishedAt, clock, emits, runJob>>
      /\ \A v \in Workers \ {w} : pc'[v] = pc[v] /\ exec'[v] = exec[v] /\ differs'[v] = differs[v]
  BY <1>1, CreateStep
<1>3. CASE UNCHANGED <<status, execRun, exec>> /\ pc'[w] = "reject"
  BY <1>2, <1>3, RowsStillJobInv
<1>4. ASSUME NEW x \in Execs, status[x] = "none", status' = [status EXCEPT ![x] = "RUNNING"],
             execRun' = [execRun EXCEPT ![x] = run[w]],
             (pc'[w] = "target" /\ exec'[w] = x) \/ pc'[w] = "reject"
      PROVE  JobInv(j)'
  <2>1. status'[x] = "RUNNING" /\ \A f \in Execs \ {x} : RowSame(f)
    BY <1>1, <1>2, <1>4 DEF RowSame, JobOf, IInv, TypeOK, RowsTyped
  <2>2. Dates'
    BY <1>2, <2>1 DEF JobInv, Dates, RowSame
  <2>3. ASSUME NEW e PROVE e \in DoneRows(j)' <=> e \in DoneRows(j)
    <3>1. x \notin DoneRows(j) /\ x \notin DoneRows(j)'
      BY <1>4, <2>1 DEF DoneRows
    <3>2. CASE e \in Execs \ {x} /\ execRun[e] # None
      BY <2>1, <3>2, SameRows
    <3>3. CASE e \notin Execs \/ (e # x /\ execRun[e] = None)
      BY <2>1, <3>3 DEF RowsOf, DoneRows, RowSame
    <3> QED BY <3>1, <3>2, <3>3
  <2>4. ASSUME NEW e \in DoneRows(j)
        PROVE  e \in Execs \ {x} /\ execRun[e] # None /\ (Changed(e)' <=> Changed(e))
    <3>1. e \in Execs \ {x} /\ execRun[e] # None /\ x \notin Before(e) /\ x \notin Before(e)'
      BY <1>4, <2>1 DEF Before, DoneRows, RowsOf
    <3> QED BY <2>1, <3>1, ChangedKept
  <2>5. ASSUME NEW e \in RowsOf(j)' PROVE Announced(e)'
    <3>1. CASE e \in DoneRows(j)'
      <4>1. e \in DoneRows(j) /\ Announced(e) /\ e \in Execs \ {x}
        BY <2>3, <2>4, <3>1 DEF JobInv, VerdictsCorrect, DoneRows
      <4> QED BY <1>2, <2>1, <2>4, <4>1 DEF Announced, RowSame
    <3>2. CASE e \notin DoneRows(j)'
      BY <3>2 DEF Announced, DoneRows
    <3> QED BY <3>1, <3>2
  <2>6. ASSUME NEW v \in Workers, Closing(v, j)' PROVE Verdict(v, j)'
    <3>1. v # w
      <4>1. x \notin DoneRows(j)'
        BY <2>1 DEF DoneRows
      <4> QED BY <1>4, <2>6, <4>1 DEF Closing, Working, TrySteps, CatchSteps
    <3>2. pc'[v] = pc[v] /\ exec'[v] = exec[v] /\ differs'[v] = differs[v]
      BY <1>2, <3>1
    <3>3. PICK y \in DoneRows(j) : y = exec[v]
      BY <2>3, <2>6, <3>2 DEF Closing
    <3>4. Newest(y, j) /\ (pc[v] = "emitDone" => (differs[v] <=> Changed(y)))
      BY <2>6, <3>2, <3>3 DEF JobInv, Verdict, Closing
    <3>5. Newest(y, j)'
      BY <1>2, <2>3, <3>4 DEF Newest
    <3>6. exec'[v] = y /\ (Changed(y)' <=> Changed(y))
      BY <2>4, <3>2, <3>3
    <3> QED BY <3>2, <3>4, <3>5, <3>6 DEF Verdict
  <2>7. \A v \in Workers : Verdict(v, j)'
    BY <2>6 DEF Verdict
  <2> QED BY <2>2, <2>5, <2>7 DEF JobInv, VerdictsCorrect
<1> QED BY <1>1, <1>3, <1>4, CreateStep

\* Deleting a job takes all its rows along, and no row of another job.
LEMMA DeleteJobInv ==
    ASSUME NEW j, JobInv(j), IInv', NEW k \in Jobs, DeleteJob(k)
    PROVE  JobInv(j)'
<1>1. /\ UNCHANGED <<clock, execRun, runJob, pc, exec, differs, emits>>
      /\ \A e \in RowsOf(k) : status'[e] = "deleted" /\ finishedAt'[e] = 0
      /\ \A e \in Execs \ RowsOf(k) : /\ status'[e] = status[e] /\ finishedAt'[e] = finishedAt[e]
                                      /\ result'[e] = result[e]
  BY DEF DeleteJob, queueVars, localVars, outVars, RowsOf
<1>2. IInv /\ Dates /\ clock \in Nat
  BY DEF JobInv, IInv, TypeOK, RowsTyped
<1>3. Dates'
  <2>1. ASSUME NEW e \in Execs PROVE finishedAt'[e] = 0 \/ finishedAt'[e] = finishedAt[e]
    BY <1>1
  <2>2. \A e \in Execs : finishedAt'[e] <= clock'
    BY <1>1, <1>2, <2>1 DEF Dates
  <2>3. ASSUME NEW e \in Execs, NEW f \in Execs, e # f, finishedAt'[e] > 0
        PROVE  finishedAt'[e] # finishedAt'[f]
    BY <1>2, <2>1, <2>3 DEF Dates
  <2>4. ASSUME NEW e \in Execs, status'[e] = "DONE" PROVE finishedAt'[e] > 0
    BY <1>1, <1>2, <2>4 DEF Dates
  <2> QED BY <2>2, <2>3, <2>4 DEF Dates
<1>4. RowsOf(j)' = RowsOf(j)
  BY <1>1 DEF RowsOf, JobOf
<1>5. CASE j = k
  <2>1. \A e : e \notin DoneRows(j)'
    BY <1>1, <1>4, <1>5 DEF DoneRows
  <2>2. \A w \in Workers : Verdict(w, j)'
    BY <2>1 DEF Verdict, Closing
  <2>3. \A e \in RowsOf(j)' : Announced(e)'
    BY <2>1 DEF Announced, DoneRows
  <2> QED BY <1>3, <2>2, <2>3 DEF JobInv, VerdictsCorrect
<1>6. CASE j # k
  <2>1. RowsOf(j) \subseteq Execs \ RowsOf(k)
    BY <1>6 DEF RowsOf
  <2>2. /\ \A e \in RowsOf(j) : /\ status'[e] = status[e] /\ finishedAt'[e] = finishedAt[e]
                                /\ result'[e] = result[e]
        /\ DoneRows(j)' = DoneRows(j)
    BY <1>1, <1>4, <2>1 DEF DoneRows
  <2>3. ASSUME NEW e \in DoneRows(j) PROVE Changed(e)' <=> Changed(e)
    <3>1. JobOf(e) = j /\ JobOf(e)' = j /\ e \in RowsOf(j)
      BY <1>1 DEF DoneRows, RowsOf, JobOf
    <3>2. Before(e)' = Before(e) /\ Before(e) \subseteq RowsOf(j)
      BY <2>2, <3>1 DEF Before, DoneRows
    <3> QED BY <2>2, <3>1, <3>2 DEF Changed, IsLatest
  <2>4. ASSUME NEW e \in RowsOf(j)' PROVE Announced(e)'
    BY <1>1, <1>4, <2>2, <2>3 DEF JobInv, VerdictsCorrect, Announced, DoneRows
  <2>5. ASSUME NEW w \in Workers, Closing(w, j)' PROVE Verdict(w, j)'
    <3>1. PICK y \in DoneRows(j) : y = exec[w]
      BY <1>1, <2>2, <2>5 DEF Closing
    <3>2. Newest(y, j) /\ (pc[w] = "emitDone" => (differs[w] <=> Changed(y)))
      BY <1>1, <2>5, <3>1 DEF JobInv, Verdict, Closing
    <3>3. Newest(y, j)'
      BY <2>2, <3>1, <3>2 DEF Newest, DoneRows
    <3> QED BY <1>1, <2>3, <3>1, <3>2, <3>3 DEF Verdict
  <2>6. \A w \in Workers : Verdict(w, j)'
    BY <2>5 DEF Verdict
  <2> QED BY <1>3, <2>4, <2>6 DEF JobInv, VerdictsCorrect
<1> QED BY <1>5, <1>6

LEMMA InitJobInv == ASSUME NEW j, Init PROVE JobInv(j)
<1>1. IInv
  BY InitIInv
<1>2. \A e : e \notin RowsOf(j) /\ e \notin DoneRows(j)
  BY DEF Init, RowsOf, DoneRows
<1>3. Dates
  BY DEF Init, Dates
<1> QED BY <1>1, <1>2, <1>3 DEF JobInv, VerdictsCorrect, Verdict, Closing

LEMMA NextJobInv ==
    ASSUME NEW j, JobInv(j), Apart(j)', [Next]_vars
    PROVE  JobInv(j)'
<1>1. IInv /\ IInv'
  BY NextIInv DEF JobInv
<1>2. ASSUME NEW w \in Workers, Work(w) PROVE JobInv(j)'
  <2>1. CASE pc[w] \in Working
    BY <1>1, <1>2, <2>1, OwnJobInv
  <2>2. CASE pc[w] = "init"
    BY <1>1, <1>2, <2>2, CreateJobInv
  <2>3. CASE Settle(w)
    BY <1>1, <2>3, ForgetShape, RowsStillJobInv
  <2> QED BY <1>1, <1>2, <2>1, <2>2, <2>3, WorkCases
<1>3. ASSUME NEW w \in Workers, Crash(w) \/ UnhandledLog(w) PROVE JobInv(j)'
  BY <1>1, <1>3, ForgetShape, RowsStillJobInv
<1>4. ASSUME \/ \E w \in Workers, r \in Runs : Fetch(w, r)
             \/ \E r \in Runs : RecoverStalled(r) \/ LockExpires(r) \/ \E k \in Jobs : Enqueue(r, k)
      PROVE  JobInv(j)'
  BY <1>1, <1>4, QueueShape, RowsStillJobInv
<1>5. ASSUME NEW k \in Jobs, DeleteJob(k) PROVE JobInv(j)'
  BY <1>1, <1>5, DeleteJobInv
<1>6. CASE UNCHANGED vars
  BY <1>1, <1>6, RowsStillJobInv DEF vars, rowVars, queueVars, localVars, outVars
<1> QED BY <1>2, <1>3, <1>4, <1>5, <1>6 DEF Next, Disturb, Users, Quiescent

\* However many workers process the queue, execution.diff accompanies
\* execution.done exactly when the text has changed since the job's completed
\* execution before it, as long as no two workers are closing executions of
\* that job at the same time.  What they do for other jobs does not matter.
THEOREM ApartVerdictsAreCorrect ==
    ASSUME NEW j \in Jobs
    PROVE  Spec /\ []Apart(j) => []VerdictsCorrect(j)
<1>1. Init => JobInv(j)
  BY InitJobInv
<1>2. JobInv(j) /\ Apart(j)' /\ [Next]_vars => JobInv(j)'
  BY NextJobInv
<1>3. JobInv(j) => VerdictsCorrect(j)
  BY DEF JobInv
<1> QED BY <1>1, <1>2, <1>3, PTL DEF Spec

\* One worker keeps all executions apart.
DInv == \A j \in Jobs \cup {None} : JobInv(j)

LEMMA DInvSays ==
    ASSUME DInv
    PROVE  IInv /\ Dates /\ \A e \in Execs : Announced(e)
<1>1. IInv /\ Dates
  BY DEF DInv, JobInv
<1>2. ASSUME NEW e \in Execs, status[e] = "DONE" PROVE Announced(e)
  <2>1. execRun[e] # None /\ JobOf(e) \in Jobs \cup {None}
    BY <1>1, <1>2, ConstantsAssumption DEF IInv, RowInv, JobOf, TypeOK, QueueTyped
  <2> QED BY <2>1 DEF DInv, JobInv, VerdictsCorrect, RowsOf
<1>3. ASSUME NEW e \in Execs PROVE Announced(e)
  BY <1>2 DEF Announced
<1> QED BY <1>1, <1>3

LEMMA InitDInv == Init => DInv
BY InitJobInv DEF DInv

LEMMA NextDInv ==
    ASSUME \A v, w \in Workers : v = w
    PROVE  DInv /\ [Next]_vars => DInv'
<1>1. \A j : Apart(j)'
  BY DEF Apart
<1> QED BY <1>1, NextJobInv DEF DInv

\* While one worker processes the queue, execution.diff accompanies
\* execution.done exactly when the text has changed since the completed
\* execution before it.
THEOREM VerdictsAreCorrect ==
    ASSUME \A v, w \in Workers : v = w
    PROVE  Spec => []DiffVerdictCorrect
<1>1. DInv => DiffVerdictCorrect
  BY DInvSays DEF Announced, DiffVerdictCorrect
<1> QED BY <1>1, InitDInv, NextDInv, PTL DEF Spec

-----------------------------------------------------------------------------
\* A DONE that was pushed too early.  Up to pushDone nobody has been told; the
\* catch block is reached behind it only by a failed query; and a row that is
\* then marked FAILED is reported by the next await, unless a second call
\* fails, or the process dies, in between.

BeforePush == {"target", "scrape", "saveResult", "logDone", "markDone",
               "markActive", "pushDone"}
Told(e)     == pushes[e]["DONE"] > 0
Mistaken(e) == status[e] = "FAILED" /\ Told(e) /\ pushes[e]["FAILED"] = 0

Correcting(w) ==
    /\ pc[w] \in BeforePush => ~Told(exec[w])
    /\ pc[w] \in CatchSteps /\ Told(exec[w]) =>
          faults >= 1 \/ status[exec[w]] = "deleted"

Excused(e) ==
    /\ status[e] = "none" => ~Told(e)
    /\ Mistaken(e) => \/ crashes + faults >= 2
                      \/ /\ faults >= 1
                         /\ \E w \in Workers : pc[w] = "reportFailed" /\ exec[w] = e

PInv ==
    /\ LInv
    /\ \A w \in Workers : Correcting(w)
    /\ \A e \in Execs : Excused(e)

\* What a step inside the handler pushes, and where it may go.
LEMMA OwnPushes ==
    ASSUME IInv, NEW w \in Workers, Work(w), pc[w] \in Working
    PROVE  LET x == exec[w] IN
           /\ \A f \in Execs \ {x} : pushes'[f] = pushes[f]
           /\ pushes'[x]["DONE"] = pushes[x]["DONE"] \/ pc[w] = "pushDone"
           /\ pushes'[x]["FAILED"] >= pushes[x]["FAILED"]
           /\ pc'[w] \in BeforePush => pc[w] \in BeforePush \ {"pushDone"}
           /\ pc'[w] \in CatchSteps =>
                 /\ pushes'[x] = pushes[x]
                 /\ pc[w] \in BeforePush \cup CatchSteps \/ faults' = faults + 1
           /\ pc[w] = "markFailed" => pc'[w] = "reportFailed" \/ faults' = faults + 1
                                      \/ Job(w) \notin jobs
           /\ pc[w] = "reportFailed" => pushes'[x]["FAILED"] > 0 \/ faults' = faults + 1
                                        \/ Job(w) \notin jobs
<1> USE DEF rowVars, queueVars, localVars, outVars, bounds
<1>1. exec[w] \in Execs /\ pc[w] \notin {"init", "resolve", "reject"}
  BY DEF IInv, WorkerInv, Working, TrySteps, CatchSteps
<1>2. \A e \in Execs, reply \in Replies : ~InitExecution(w, e, reply)
  BY <1>1 DEF InitExecution, Await
<1>3. ~Settle(w)
  BY <1>1 DEF Settle
<1>4. /\ pushes \in [Execs -> [{"DONE", "FAILED"} -> Nat]]
      /\ pc \in [Workers -> Steps]
  BY DEF IInv, TypeOK, OutTyped, Outcomes
<1>5. CASE PushDone(w) \/ ReportFailed(w)
  BY <1>1, <1>4, <1>5 DEF PushDone, ReportFailed, Await, BeforePush, CatchSteps
<1>6. CASE FetchJobTarget(w) \/ (\E t \in Texts : Scrape(w, t)) \/ ScrapeFails(w)
           \/ Compare(w) \/ QueryFails(w) \/ RowMissing(w) \/ EmitDone(w)
  BY <1>1, <1>4, <1>6 DEF FetchJobTarget, Scrape, ScrapeFails, Compare, QueryFails, RowMissing,
        EmitDone, Await, OnError, BeforePush, Working, TrySteps, CatchSteps, DbSteps, RowSteps
<1>7. CASE \E reply \in Replies : SaveResult(w, reply) \/ LogDone(w, reply)
           \/ MarkTargetActive(w, reply) \/ LogError(w, reply)
           \/ MarkDone(w, reply) \/ MarkFailed(w, reply)
  BY <1>1, <1>4, <1>7 DEF SaveResult, LogDone, MarkTargetActive, LogError, SaveLog, MarkDone,
        MarkFailed, Mark, Await, OnError, Replies, BeforePush, TrySteps, CatchSteps
<1> QED BY <1>1, <1>2, <1>3, <1>5, <1>6, <1>7 DEF Work

\* Failures are only ever added to, which keeps every excuse.
LEMMA PushesUnaffected ==
    ASSUME PInv, LInv', NEW e \in Execs, status'[e] \in {status[e], "deleted"},
           pushes'[e] = pushes[e], crashes' >= crashes, faults' >= faults,
           \A w \in Workers : exec[w] = e /\ pc[w] = "reportFailed" =>
               \/ pc'[w] = pc[w] /\ exec'[w] = e
               \/ crashes' >= crashes + 1
    PROVE  Excused(e)'
<1>1. /\ crashes \in Nat /\ faults \in Nat /\ crashes' \in Nat /\ faults' \in Nat
  BY ConstantsAssumption DEF PInv, LInv, IInv, TypeOK, BoundsTyped
<1> QED BY <1>1 DEF PInv, Excused, Mistaken, Told

\* A step of w inside the handler.
LEMMA OwnPInv ==
    ASSUME PInv, LInv', NEW w \in Workers, Work(w), pc[w] \in Working
    PROVE  PInv'
<1>0. PICK x \in Execs : x = exec[w]
  BY OwnStep DEF PInv, LInv
<1>1. IInv /\ LInv /\ Correcting(w) /\ (\A e \in Execs : Excused(e))
      /\ (\A e \in Execs : Cascade(e))
  BY DEF PInv, LInv
<1>2. /\ exec' = exec /\ x = exec[w]
      /\ \A v \in Workers \ {w} : pc'[v] = pc[v]
      /\ \A f \in Execs \ {x} : status'[f] = status[f] /\ pushes'[f] = pushes[f]
  BY <1>0, <1>1, OwnStep, OwnPushes DEF RowKept
<1>3. /\ crashes \in Nat /\ faults \in Nat /\ crashes' = crashes
      /\ faults' \in {faults, faults + 1}
  <2>1. crashes \in Nat /\ faults \in Nat
    BY <1>1, ConstantsAssumption DEF IInv, TypeOK, BoundsTyped
  <2>2. crashes' = crashes /\ faults' \in {faults, faults + 1}
    BY <1>1, OwnLeaves
  <2> QED BY <2>1, <2>2
<1>4. /\ status[x] # "none"
      /\ Job(w) \notin jobs => status[x] = "deleted"
      /\ Job(w) \in jobs => status[x] # "deleted"
      /\ pc[w] = "reportFailed" => status[x] \in {"FAILED", "deleted"}
      /\ pc[w] = "markFailed" => pc[w] \in CatchSteps
      /\ pushes[x]["FAILED"] \in Nat /\ pushes'[x]["FAILED"] \in Nat
  BY <1>1, <1>2, LiveRow, ConstantsAssumption
     DEF IInv, WorkerInv, Cascade, JobOf, Job, CatchSteps, LInv, TypeOK, OutTyped, Outcomes
<1>5. Correcting(w)'
  <2>1. pc'[w] \in BeforePush => ~Told(x)'
    BY <1>1, <1>2, OwnPushes DEF Correcting, Told
  <2>2. pc'[w] \in CatchSteps /\ Told(x)' => faults' >= 1 \/ status'[x] = "deleted"
    <3>1. status[x] = "deleted" /\ Job(w) \notin jobs => status'[x] = "deleted"
      BY <1>1, <1>2, OwnOutcome
    <3> QED BY <1>1, <1>2, <1>3, <1>4, <3>1, OwnPushes DEF Correcting, Told
  <2> QED BY <1>2, <2>1, <2>2 DEF Correcting, Told
<1>6. ASSUME NEW v \in Workers \ {w} PROVE Correcting(v)'
  <2>1. pc[v] \in Working => exec[v] \in Execs \ {x}
    BY <1>1, <1>2, ConstantsAssumption DEF IInv, WorkerInv, OneOwner
  <2>2. BeforePush \cup CatchSteps \subseteq Working
    BY DEF BeforePush, Working, TrySteps
  <2> QED BY <1>2, <1>3, <2>1, <2>2 DEF PInv, Correcting, Told
<1>7. Excused(x)'
  <2>1. status'[x] # "none"
    BY <1>1, <1>2, <1>4, OwnOutcome
  <2>2. ASSUME Mistaken(x)' PROVE Excused(x)'
    <3>1. Job(w) \in jobs
      BY <1>1, <1>2, <1>4, <2>2, OwnOutcome DEF Mistaken
    <3>2. pc[w] = "markFailed" \/ status[x] = "FAILED"
      BY <1>1, <1>2, <2>2, OwnOutcome DEF Mistaken
    <3>3. CASE pc[w] = "markFailed"
      <4>2. Told(x)
        BY <1>1, <1>2, <2>2, <3>3, OwnPushes DEF Mistaken, Told
      <4>3. faults >= 1
        BY <1>1, <1>2, <1>4, <3>1, <3>3, <4>2 DEF Correcting
      <4>4. pc'[w] = "reportFailed" \/ faults' = faults + 1
        BY <1>1, <1>2, <3>1, <3>3, OwnPushes
      <4>5. ASSUME pc'[w] = "reportFailed" PROVE Excused(x)'
        <5>1. faults' >= 1
          BY <1>3, <4>3
        <5>2. exec'[w] = x
          BY <1>2
        <5> QED BY <2>1, <4>5, <5>1, <5>2 DEF Excused
      <4>6. ASSUME faults' = faults + 1 PROVE Excused(x)'
        BY <1>3, <2>1, <4>3, <4>6 DEF Excused
      <4> QED BY <4>4, <4>5, <4>6
    <3>4. CASE pc[w] = "reportFailed"
      <4>1. faults' = faults + 1
        BY <1>1, <1>2, <2>2, <3>1, <3>4, OwnPushes DEF Mistaken
      <4>2. Mistaken(x)
        BY <1>1, <1>2, <1>4, <2>2, <3>2, <3>4, OwnPushes DEF Mistaken, Told
      <4> QED BY <1>1, <1>2, <1>3, <2>1, <4>1, <4>2 DEF Excused
    <3>5. CASE pc[w] \notin {"markFailed", "reportFailed"}
      <4>1. status[x] = "FAILED"
        BY <3>2, <3>5
      <4>2. pc[w] # "pushDone"
        BY <1>1, <1>2, <4>1 DEF IInv, WorkerInv, PastDone
      <4>3. Mistaken(x)
        BY <1>1, <1>2, <1>4, <2>2, <4>1, <4>2, OwnPushes DEF Mistaken, Told
      <4>4. ~(\E v \in Workers : pc[v] = "reportFailed" /\ exec[v] = x)
        BY <1>1, <1>2, <3>5, ConstantsAssumption DEF IInv, OneOwner
      <4> QED BY <1>1, <1>2, <1>3, <2>1, <4>3, <4>4 DEF Excused
    <3> QED BY <3>3, <3>4, <3>5
  <2> QED BY <2>1, <2>2 DEF Excused
<1>8. ASSUME NEW e \in Execs, e # x PROVE Excused(e)'
  <2>1. \A v \in Workers : exec[v] = e /\ pc[v] = "reportFailed" =>
            pc'[v] = pc[v] /\ exec'[v] = e
    BY <1>2, <1>8
  <2> QED BY <1>2, <1>3, <1>8, <2>1, PushesUnaffected
<1> QED BY <1>5, <1>6, <1>7, <1>8 DEF PInv

\* A new row, or a run lost before it has one.
LEMMA CreatePInv ==
    ASSUME PInv, LInv', NEW w \in Workers, Work(w), pc[w] = "init"
    PROVE  PInv'
<1>1. IInv
  BY DEF PInv, LInv
<1>2. /\ pushes' = pushes /\ crashes' = crashes /\ faults' \in {faults, faults + 1}
      /\ crashes \in Nat /\ faults \in Nat
  BY <1>1, ConstantsAssumption
     DEF IInv, TypeOK, BoundsTyped, Work, InitExecution, Await, QueryFails, RowMissing,
         FetchJobTarget, Scrape, ScrapeFails, SaveResult, LogDone, MarkDone, SaveLog, LogError,
         MarkTargetActive, MarkFailed, PushDone, Compare, EmitDone, ReportFailed, Settle,
         outVars, bounds
<1>3. \A v \in Workers \ {w} : pc'[v] = pc[v] /\ exec'[v] = exec[v]
  BY <1>1, CreateStep
<1>4. /\ \A e \in Execs : status[e] # "none" => status'[e] = status[e]
      /\ \A e \in Execs : status'[e] \in {status[e], "RUNNING"}
      /\ pc'[w] = "reject" \/ (pc'[w] = "target" /\ exec'[w] \in Execs
                                /\ status[exec'[w]] = "none")
  BY <1>1, CreateStep DEF IInv, TypeOK, RowsTyped
<1>5. Correcting(w)'
  BY <1>2, <1>4 DEF PInv, Excused, Correcting, Told, BeforePush, CatchSteps
<1>6. ASSUME NEW v \in Workers \ {w} PROVE Correcting(v)'
  <2>1. pc[v] \in BeforePush \cup CatchSteps => exec[v] \in Execs /\ status[exec[v]] # "none"
    BY <1>1, ConstantsAssumption DEF IInv, WorkerInv, Working, TrySteps, BeforePush
  <2> QED BY <1>2, <1>3, <1>4, <2>1 DEF PInv, Correcting, Told
<1>7. ASSUME NEW e \in Execs PROVE Excused(e)'
  <2>1. Mistaken(e)' => Mistaken(e)
    BY <1>2, <1>4 DEF Mistaken, Told
  <2>2. \A v \in Workers : pc[v] = "reportFailed" => v # w /\ pc'[v] = pc[v] /\ exec'[v] = exec[v]
    BY <1>3
  <2> QED BY <1>2, <1>4, <2>1, <2>2 DEF PInv, Excused, Told
<1> QED BY <1>5, <1>6, <1>7 DEF PInv

\* Steps that push nothing and leave the rows alone or delete them.
LEMMA QuietPInv ==
    ASSUME PInv, LInv', pushes' = pushes, faults' = faults, crashes' >= crashes,
           \A e \in Execs : status'[e] \in {status[e], "deleted"}
                           /\ (status'[e] = "none" => status[e] = "none"),
           \A v \in Workers : \/ pc'[v] = pc[v] /\ exec'[v] = exec[v]
                              \/ pc'[v] \in {"idle", "init"} /\ pc[v] # "reportFailed"
                              \/ pc'[v] = "idle" /\ crashes' >= crashes + 1
    PROVE  PInv'
<1>1. ASSUME NEW v \in Workers PROVE Correcting(v)'
  <2>1. pc[v] \in CatchSteps => exec[v] \in Execs
    BY DEF PInv, LInv, IInv, WorkerInv, Working
  <2> QED BY <2>1 DEF PInv, Correcting, Told, BeforePush, CatchSteps
<1>2. ASSUME NEW e \in Execs PROVE Excused(e)'
  <2>1. faults' >= faults
    BY ConstantsAssumption DEF PInv, LInv, IInv, TypeOK, BoundsTyped
  <2> QED BY <2>1, PushesUnaffected
<1> QED BY <1>1, <1>2 DEF PInv

LEMMA NextPInv == PInv /\ [Next]_vars => PInv'
<1> SUFFICES ASSUME PInv, [Next]_vars PROVE PInv'
  OBVIOUS
<1>1. LInv /\ LInv' /\ IInv
  BY NextLInv DEF PInv, LInv
<1>2. crashes \in Nat /\ crashes >= crashes /\ crashes + 1 >= crashes
  BY <1>1, ConstantsAssumption DEF IInv, TypeOK, BoundsTyped
<1>3. ASSUME NEW w \in Workers, Work(w) PROVE PInv'
  <2>1. CASE Settle(w)
    <3>1. UNCHANGED <<pushes, faults, crashes>> /\ pc[w] # "reportFailed"
      BY <2>1 DEF Settle, outVars, bounds
    <3>2. /\ status' = status /\ pc'[w] = "idle"
          /\ \A v \in Workers \ {w} : pc'[v] = pc[v] /\ exec'[v] = exec[v]
      BY <1>1, <2>1, ForgetShape
    <3> QED BY <1>1, <1>2, <3>1, <3>2, QuietPInv
  <2> QED BY <1>1, <1>3, <2>1, WorkCases, OwnPInv, CreatePInv
<1>4. ASSUME NEW w \in Workers, Crash(w) \/ UnhandledLog(w) PROVE PInv'
  <2>1. /\ UNCHANGED <<pushes, faults>>
        /\ crashes' = crashes + 1 \/ (crashes' = crashes /\ pc[w] # "reportFailed")
    BY <1>4 DEF Crash, UnhandledLog, Die, outVars
  <2>2. /\ status' = status /\ pc'[w] = "idle"
        /\ \A v \in Workers \ {w} : pc'[v] = pc[v] /\ exec'[v] = exec[v]
    BY <1>1, <1>4, ForgetShape
  <2> QED BY <1>1, <1>2, <2>1, <2>2, QuietPInv
<1>5. ASSUME \/ \E w \in Workers, r \in Runs : Fetch(w, r)
             \/ \E r \in Runs : RecoverStalled(r) \/ LockExpires(r) \/ \E j \in Jobs : Enqueue(r, j)
      PROVE  PInv'
  <2>1. UNCHANGED <<pushes, faults, crashes>>
    BY <1>5 DEF Fetch, RecoverStalled, LockExpires, Enqueue, outVars, bounds
  <2> QED BY <1>1, <1>2, <1>5, <2>1, QueueShape, QuietPInv
<1>6. ASSUME NEW j \in Jobs, DeleteJob(j) PROVE PInv'
  <2>1. UNCHANGED <<pushes, faults, crashes, pc, exec>>
    BY <1>6 DEF DeleteJob, outVars, bounds, localVars
  <2>2. \A e \in Execs : /\ status'[e] \in {status[e], "deleted"}
                          /\ (status'[e] = "none" => status[e] = "none")
    BY <1>6 DEF DeleteJob
  <2>3. \A v \in Workers : pc'[v] = pc[v] /\ exec'[v] = exec[v]
    BY <2>1
  <2>4. crashes' >= crashes
    BY <1>2, <2>1
  <2> QED BY <1>1, <2>1, <2>2, <2>3, <2>4, QuietPInv
<1>7. CASE UNCHANGED vars
  BY <1>1, <1>2, <1>7, QuietPInv DEF vars, rowVars, localVars, outVars, bounds
<1> QED BY <1>3, <1>4, <1>5, <1>6, <1>7 DEF Next, Disturb, Users, Quiescent

\* A client that was told DONE of an execution recorded as FAILED is told so
\* in turn, unless the process dies or a second call fails on the way.
THEOREM FalseDonesCorrected == Spec => []FalseDoneCorrected
<1>1. Init => PInv
  <2> SUFFICES ASSUME Init PROVE PInv
    OBVIOUS
  <2>1. LInv
    BY InitLInv
  <2>2. \A e \in Execs : ~Told(e) /\ status[e] = "none"
    BY DEF Init, Told, Outcomes
  <2>3. \A w \in Workers : pc[w] = "idle"
    BY DEF Init
  <2> QED BY <2>1, <2>2, <2>3 DEF PInv, Correcting, Excused, Mistaken, BeforePush, CatchSteps
<1>2. PInv => FalseDoneCorrected
  <2> SUFFICES ASSUME PInv, NEW e \in Execs, Told(e), status[e] = "FAILED", Unowned(e),
                      crashes + faults <= 1
               PROVE  pushes[e]["FAILED"] > 0
    BY DEF FalseDoneCorrected, Told
  <2>1. /\ crashes \in Nat /\ faults \in Nat /\ pushes[e]["FAILED"] \in Nat
    BY ConstantsAssumption DEF PInv, LInv, IInv, TypeOK, BoundsTyped, OutTyped, Outcomes
  <2> QED BY <2>1 DEF PInv, Excused, Mistaken, Unowned
<1> QED BY <1>1, <1>2, NextPInv, PTL DEF Spec

-----------------------------------------------------------------------------
\* No outcome is missed.  A row that is DONE and unannounced is in the hands of
\* the worker that marked it, unless that worker died or failed twice: the first
\* failed call takes it to the catch block, which marks the row FAILED.  A
\* FAILED row is announced by the next await, which may fail.

BeforeDone == {"target", "scrape", "saveResult", "logDone", "markDone"}

Undone(w) ==
    /\ pc[w] \in BeforeDone => status[exec[w]] # "DONE"
    /\ pc[w] \in CatchSteps /\ status[exec[w]] = "DONE" => faults >= 1

Announcing(w, e) == exec[w] = e /\ pc[w] \in PastDone \cup CatchSteps

Accounted(e) ==
    status[e] = "DONE" /\ emits[e]["DONE"] = 0 =>
        crashes > 0 \/ faults > 1 \/ \E w \in Workers : Announcing(w, e)

Reported(e) ==
    status[e] = "FAILED" /\ emits[e]["FAILED"] = 0 =>
        \/ crashes > 0 \/ faults > 0
        \/ \E w \in Workers : Announcing(w, e) /\ pc[w] = "reportFailed"

AInv ==
    /\ LInv
    /\ \A w \in Workers : Undone(w)
    /\ \A e \in Execs : Accounted(e) /\ Reported(e)

\* Where a step inside the handler may lead, and at what cost.
LEMMA OwnWay ==
    ASSUME IInv, NEW w \in Workers, Work(w), pc[w] \in Working
    PROVE  LET x == exec[w] IN
           /\ pc'[w] \in BeforeDone => pc[w] \in BeforeDone \ {"markDone"}
           /\ pc'[w] \in CatchSteps =>
                 pc[w] \in BeforeDone \cup CatchSteps \/ faults' = faults + 1 \/ Job(w) \notin jobs
           /\ pc[w] = "markDone" /\ pc'[w] \in CatchSteps =>
                 faults' = faults + 1 \/ status'[x] = status[x]
           /\ pc[w] \in PastDone =>
                 pc'[w] \in PastDone \cup CatchSteps \/ emits'[x]["DONE"] > 0
           /\ pc[w] \in {"logError", "markFailed"} =>
                 pc'[w] \in CatchSteps \/ faults' = faults + 1 \/ Job(w) \notin jobs
           /\ pc[w] = "reportFailed" =>
                 emits'[x]["FAILED"] > 0 \/ faults' = faults + 1 \/ Job(w) \notin jobs
<1> USE DEF rowVars, queueVars, localVars, outVars, bounds
<1>1. exec[w] \in Execs /\ pc[w] \notin {"init", "resolve", "reject"}
  BY DEF IInv, WorkerInv, Working, TrySteps, CatchSteps
<1>2. \A e \in Execs, reply \in Replies : ~InitExecution(w, e, reply)
  BY <1>1 DEF InitExecution, Await
<1>3. ~Settle(w)
  BY <1>1 DEF Settle
<1>4. /\ emits \in [Execs -> [{"DONE", "FAILED", "DIFF"} -> Nat]]
      /\ pc \in [Workers -> Steps]
  BY DEF IInv, TypeOK, OutTyped, Events
<1>5. CASE EmitDone(w) \/ ReportFailed(w)
  BY <1>1, <1>4, <1>5 DEF EmitDone, ReportFailed, Await, BeforeDone, PastDone, CatchSteps
<1>6. CASE FetchJobTarget(w) \/ (\E t \in Texts : Scrape(w, t)) \/ ScrapeFails(w)
           \/ Compare(w) \/ QueryFails(w) \/ RowMissing(w) \/ PushDone(w)
  BY <1>1, <1>4, <1>6 DEF FetchJobTarget, Scrape, ScrapeFails, Compare, QueryFails, RowMissing,
        PushDone, Await, OnError, BeforeDone, PastDone, Working, TrySteps, CatchSteps,
        DbSteps, RowSteps
<1>7. CASE \E reply \in Replies : SaveResult(w, reply) \/ LogDone(w, reply)
           \/ MarkTargetActive(w, reply) \/ LogError(w, reply)
           \/ MarkDone(w, reply) \/ MarkFailed(w, reply)
  BY <1>1, <1>4, <1>7 DEF SaveResult, LogDone, MarkTargetActive, LogError, SaveLog, MarkDone,
        MarkFailed, Mark, Await, OnError, Replies, BeforeDone, PastDone, TrySteps, CatchSteps
<1> QED BY <1>1, <1>2, <1>3, <1>5, <1>6, <1>7 DEF Work

\* A row that is left as it is, or goes.
LEMMA AccountKept ==
    ASSUME AInv, LInv', NEW e \in Execs, status'[e] \in {status[e], "deleted"},
           emits'[e] = emits[e], crashes' >= crashes, faults' >= faults,
           \A w \in Workers : Announcing(w, e) =>
               crashes' > 0 \/ (Announcing(w, e)' /\ pc'[w] = pc[w])
    PROVE  Accounted(e)' /\ Reported(e)'
<1>1. /\ crashes \in Nat /\ faults \in Nat /\ crashes' \in Nat /\ faults' \in Nat
  BY ConstantsAssumption DEF AInv, LInv, IInv, TypeOK, BoundsTyped
<1>2. Accounted(e)'
  BY <1>1 DEF AInv, Accounted
<1>3. Reported(e)'
  BY <1>1 DEF AInv, Reported
<1> QED BY <1>2, <1>3

\* A step of w inside the handler.
LEMMA OwnAInv ==
    ASSUME AInv, LInv', NEW w \in Workers, Work(w), pc[w] \in Working
    PROVE  AInv'
<1>0. PICK x \in Execs : x = exec[w]
  BY OwnStep DEF AInv, LInv
<1>1. IInv /\ LInv /\ Undone(w) /\ (\A e \in Execs : Cascade(e))
  BY DEF AInv, LInv
<1>2. /\ exec' = exec /\ jobs' = jobs
      /\ \A v \in Workers \ {w} : pc'[v] = pc[v]
      /\ \A f \in Execs \ {x} : status'[f] = status[f] /\ emits'[f] = emits[f]
  BY <1>0, <1>1, OwnStep DEF RowKept
<1>3. /\ crashes \in Nat /\ faults \in Nat /\ crashes' = crashes
      /\ faults' \in {faults, faults + 1}
  <2>1. crashes \in Nat /\ faults \in Nat
    BY <1>1, ConstantsAssumption DEF IInv, TypeOK, BoundsTyped
  <2>2. crashes' = crashes /\ faults' \in {faults, faults + 1}
    BY <1>1, OwnLeaves
  <2> QED BY <2>1, <2>2
<1>4. status'[x] = "DONE" => status[x] = "DONE" \/ pc[w] = "markDone"
  BY <1>0, <1>1, OwnOutcome
<1>5. status'[x] = "DONE" => Job(w) \in jobs
  <2>1. Job(w) \notin jobs => status[x] = "deleted"
    BY <1>0, <1>1, ConstantsAssumption DEF IInv, WorkerInv, Cascade, JobOf, Job
  <2> QED BY <1>0, <1>1, <2>1, OwnOutcome
<1>6. Undone(w)'
  <2>1. pc'[w] \in BeforeDone => status'[x] # "DONE"
    BY <1>0, <1>1, <1>4, OwnWay DEF Undone
  <2>2. pc'[w] \in CatchSteps /\ status'[x] = "DONE" => faults' >= 1
    BY <1>0, <1>1, <1>3, <1>4, <1>5, OwnWay DEF Undone
  <2> QED BY <1>0, <1>2, <2>1, <2>2 DEF Undone
<1>7. ASSUME NEW v \in Workers \ {w} PROVE Undone(v)'
  <2>1. pc[v] \in Working => exec[v] \in Execs \ {x}
    BY <1>0, <1>1, <1>2, ConstantsAssumption DEF IInv, WorkerInv, OneOwner
  <2>2. BeforeDone \cup CatchSteps \subseteq Working
    BY DEF BeforeDone, Working, TrySteps
  <2>3. Undone(v)
    BY DEF AInv
  <2> QED BY <1>2, <1>3, <2>1, <2>2, <2>3 DEF Undone
<1>8. ASSUME status'[x] = "DONE", emits'[x]["DONE"] = 0 PROVE Accounted(x)'
  <2>1. CASE pc[w] \in BeforeDone
    <3>1. pc'[w] \in {"markActive", "logError"}
      BY <1>0, <1>1, <1>4, <1>8, <2>1, OwnOutcome DEF Undone
    <3> QED BY <1>0, <1>2, <3>1 DEF Accounted, Announcing, PastDone, CatchSteps
  <2>2. CASE pc[w] \in PastDone
    BY <1>0, <1>1, <1>2, <1>8, <2>2, OwnWay DEF Accounted, Announcing
  <2>3. CASE pc[w] \in {"logError", "markFailed"}
    <3>1. pc'[w] \in CatchSteps \/ faults' > 1
      <4>1. pc[w] \in CatchSteps /\ status[x] = "DONE"
        BY <1>4, <1>8, <2>3 DEF CatchSteps
      <4>2. faults >= 1
        BY <1>0, <1>1, <4>1 DEF Undone
      <4>3. pc'[w] \in CatchSteps \/ faults' = faults + 1
        BY <1>0, <1>1, <1>5, <1>8, <2>3, OwnWay
      <4> QED BY <1>3, <4>2, <4>3
    <3> QED BY <1>0, <1>2, <3>1 DEF Accounted, Announcing
  <2>4. pc[w] # "reportFailed"
    BY <1>0, <1>1, <1>4, <1>8 DEF IInv, WorkerInv
  <2> QED BY <2>1, <2>2, <2>3, <2>4 DEF Working, TrySteps, CatchSteps, BeforeDone, PastDone
<1>9. ASSUME NEW e \in Execs, e # x PROVE Accounted(e)' /\ Reported(e)'
  <2>1. \A v \in Workers : Announcing(v, e) => Announcing(v, e)' /\ pc'[v] = pc[v]
    BY <1>0, <1>2, <1>9 DEF Announcing
  <2> QED BY <1>2, <1>3, <1>9, <2>1, AccountKept
<1>10. Accounted(x)'
  BY <1>8 DEF Accounted
<1>11. ASSUME status'[x] = "FAILED", emits'[x]["FAILED"] = 0 PROVE Reported(x)'
  <2>1. CASE pc[w] = "reportFailed"
    <3>1. Job(w) \in jobs
      <4>1. Job(w) \notin jobs => status[x] = "deleted"
        BY <1>0, <1>1, ConstantsAssumption DEF IInv, WorkerInv, Cascade, JobOf, Job
      <4> QED BY <1>0, <1>1, <1>11, <4>1, OwnOutcome
    <3> QED BY <1>0, <1>1, <1>3, <1>11, <2>1, <3>1, OwnWay DEF Reported
  <2>2. CASE pc[w] = "markFailed" /\ status[x] # "FAILED"
    <3>1. pc'[w] \in {"reportFailed", "reject"} /\ Job(w) \in jobs
      BY <1>0, <1>1, <1>11, <2>2, OwnOutcome
    <3>2. pc'[w] = "reportFailed" \/ faults' > 0
      BY <1>0, <1>1, <1>3, <2>2, <3>1, OwnWay DEF CatchSteps
    <3> QED BY <1>0, <1>2, <3>2 DEF Reported, Announcing, CatchSteps
  <2>3. CASE pc[w] # "reportFailed" /\ status[x] = "FAILED"
    <3>1. emits[x]["FAILED"] = 0
      BY <1>0, <1>1 DEF IInv, WorkerInv, Unheard, Events
    <3>2. \A v \in Workers : exec[v] = x => v = w
      BY <1>0, <1>1, ConstantsAssumption DEF IInv, OneOwner
    <3>3. crashes > 0 \/ faults > 0
      BY <2>3, <3>1, <3>2 DEF AInv, Reported, Announcing
    <3> QED BY <1>3, <3>3 DEF Reported
  <2> QED BY <1>0, <1>1, <1>11, <2>1, <2>2, <2>3, OwnOutcome
<1>12. Reported(x)'
  BY <1>11 DEF Reported
<1> QED BY <1>6, <1>7, <1>9, <1>10, <1>12 DEF AInv

\* A new row, or a run lost before it has one.
LEMMA CreateAInv ==
    ASSUME AInv, LInv', NEW w \in Workers, Work(w), pc[w] = "init"
    PROVE  AInv'
<1>1. IInv
  BY DEF AInv, LInv
<1>2. /\ emits' = emits /\ crashes' = crashes /\ faults' \in {faults, faults + 1}
      /\ crashes \in Nat /\ faults \in Nat
  BY <1>1, ConstantsAssumption
     DEF IInv, TypeOK, BoundsTyped, Work, InitExecution, Await, QueryFails, RowMissing,
         FetchJobTarget, Scrape, ScrapeFails, SaveResult, LogDone, MarkDone, SaveLog, LogError,
         MarkTargetActive, MarkFailed, PushDone, Compare, EmitDone, ReportFailed, Settle,
         outVars, bounds
<1>3. \A v \in Workers \ {w} : pc'[v] = pc[v] /\ exec'[v] = exec[v]
  BY <1>1, CreateStep
<1>4. /\ \A e \in Execs : status'[e] = status[e] \/ (status[e] = "none" /\ status'[e] = "RUNNING")
      /\ pc'[w] = "reject" \/ (pc'[w] = "target" /\ exec'[w] \in Execs
                                /\ status'[exec'[w]] = "RUNNING")
  BY <1>1, CreateStep DEF IInv, TypeOK, RowsTyped
<1>5. Undone(w)'
  BY <1>4 DEF Undone, BeforeDone, CatchSteps
<1>6. ASSUME NEW v \in Workers \ {w} PROVE Undone(v)'
  <2>1. pc[v] \in BeforeDone \cup CatchSteps => exec[v] \in Execs
    BY <1>1 DEF IInv, WorkerInv, Working, TrySteps, BeforeDone
  <2>2. Undone(v)
    BY DEF AInv
  <2> QED BY <1>2, <1>3, <1>4, <2>1, <2>2 DEF Undone
<1>7. ASSUME NEW e \in Execs PROVE Accounted(e)' /\ Reported(e)'
  <2>1. CASE status'[e] = status[e]
    <3>1. \A v \in Workers : Announcing(v, e) => v # w
      BY DEF Announcing, PastDone, CatchSteps
    <3>2. \A v \in Workers : Announcing(v, e) => Announcing(v, e)' /\ pc'[v] = pc[v]
      BY <1>3, <3>1 DEF Announcing
    <3> QED BY <1>2, <2>1, <3>2, AccountKept
  <2>2. CASE status'[e] = "RUNNING"
    BY <2>2 DEF Accounted, Reported
  <2> QED BY <1>4, <2>1, <2>2
<1> QED BY <1>5, <1>6, <1>7 DEF AInv

\* Steps that emit nothing and leave the rows alone or delete them.
LEMMA QuietAInv ==
    ASSUME AInv, LInv', emits' = emits, faults' = faults, crashes' >= crashes,
           \A e \in Execs : status'[e] \in {status[e], "deleted"},
           \A v \in Workers : \/ pc'[v] = pc[v] /\ exec'[v] = exec[v]
                              \/ /\ pc'[v] \in {"idle", "init"}
                                 /\ \A e \in Execs : ~Announcing(v, e)
                              \/ pc'[v] = "idle" /\ crashes' > 0
    PROVE  AInv'
<1>1. ASSUME NEW v \in Workers PROVE Undone(v)'
  <2>1. pc[v] \in BeforeDone \cup CatchSteps => exec[v] \in Execs
    BY DEF AInv, LInv, IInv, WorkerInv, Working, TrySteps, BeforeDone
  <2> QED BY <2>1 DEF AInv, Undone, BeforeDone, CatchSteps
<1>2. ASSUME NEW e \in Execs PROVE Accounted(e)' /\ Reported(e)'
  <2>1. faults' >= faults
    BY ConstantsAssumption DEF AInv, LInv, IInv, TypeOK, BoundsTyped
  <2>2. \A v \in Workers : Announcing(v, e) =>
            crashes' > 0 \/ (Announcing(v, e)' /\ pc'[v] = pc[v])
    BY DEF Announcing
  <2> QED BY <2>1, <2>2, AccountKept
<1> QED BY <1>1, <1>2 DEF AInv

LEMMA NextAInv == AInv /\ [Next]_vars => AInv'
<1> SUFFICES ASSUME AInv, [Next]_vars PROVE AInv'
  OBVIOUS
<1>1. LInv /\ LInv' /\ IInv
  BY NextLInv DEF AInv, LInv
<1>2. crashes \in Nat /\ crashes >= crashes /\ crashes + 1 >= crashes /\ crashes + 1 > 0
  BY <1>1, ConstantsAssumption DEF IInv, TypeOK, BoundsTyped
<1>3. ASSUME NEW w \in Workers, Work(w) PROVE AInv'
  <2>1. CASE Settle(w)
    <3>1. UNCHANGED <<faults, crashes>> /\ \A e \in Execs : ~Announcing(w, e)
      BY <2>1 DEF Settle, bounds, Announcing, PastDone, CatchSteps
    <3>2. /\ status' = status /\ emits' = emits /\ pc'[w] = "idle"
          /\ \A v \in Workers \ {w} : pc'[v] = pc[v] /\ exec'[v] = exec[v]
      BY <1>1, <2>1, ForgetShape
    <3> QED BY <1>1, <1>2, <3>1, <3>2, QuietAInv
  <2> QED BY <1>1, <1>3, <2>1, WorkCases, OwnAInv, CreateAInv
<1>4. ASSUME NEW w \in Workers, Crash(w) \/ UnhandledLog(w) PROVE AInv'
  <2>1. /\ faults' = faults
        /\ crashes' = crashes + 1 \/ (crashes' = crashes /\ pc[w] \in {"scrape", "saveResult"})
    BY <1>4 DEF Crash, UnhandledLog, Die
  <2>2. /\ status' = status /\ emits' = emits /\ pc'[w] = "idle"
        /\ \A v \in Workers \ {w} : pc'[v] = pc[v] /\ exec'[v] = exec[v]
    BY <1>1, <1>4, ForgetShape
  <2>3. pc[w] \in {"scrape", "saveResult"} => \A e \in Execs : ~Announcing(w, e)
    BY DEF Announcing, PastDone, CatchSteps
  <2> QED BY <1>1, <1>2, <2>1, <2>2, <2>3, QuietAInv
<1>5. ASSUME \/ \E w \in Workers, r \in Runs : Fetch(w, r)
             \/ \E r \in Runs : RecoverStalled(r) \/ LockExpires(r) \/ \E j \in Jobs : Enqueue(r, j)
      PROVE  AInv'
  <2>1. UNCHANGED <<faults, crashes>>
    BY <1>5 DEF Fetch, RecoverStalled, LockExpires, Enqueue, bounds
  <2>2. \A v \in Workers : pc[v] = "idle" => \A e \in Execs : ~Announcing(v, e)
    BY DEF Announcing, PastDone, CatchSteps
  <2> QED BY <1>1, <1>2, <1>5, <2>1, <2>2, QueueShape, QuietAInv
<1>6. ASSUME NEW j \in Jobs, DeleteJob(j) PROVE AInv'
  <2>1. UNCHANGED <<emits, faults, crashes, pc, exec>>
    BY <1>6 DEF DeleteJob, outVars, bounds, localVars
  <2>2. \A e \in Execs : status'[e] \in {status[e], "deleted"}
    BY <1>6 DEF DeleteJob
  <2>3. \A v \in Workers : pc'[v] = pc[v] /\ exec'[v] = exec[v]
    BY <2>1
  <2>4. crashes' >= crashes
    BY <1>2, <2>1
  <2> QED BY <1>1, <2>1, <2>2, <2>3, <2>4, QuietAInv
<1>7. CASE UNCHANGED vars
  BY <1>1, <1>2, <1>7, QuietAInv DEF vars, rowVars, localVars, outVars, bounds
<1> QED BY <1>3, <1>4, <1>5, <1>6, <1>7 DEF Next, Disturb, Users, Quiescent

LEMMA EveryOutcomeAccounted == Spec => []AInv
<1>1. Init => AInv
  <2> SUFFICES ASSUME Init PROVE AInv
    OBVIOUS
  <2>1. LInv
    BY InitLInv
  <2> QED BY <2>1 DEF Init, AInv, Undone, Accounted, Reported, BeforeDone, CatchSteps
<1> QED BY <1>1, NextAInv, PTL DEF Spec

\* NoChangeMissed for one job.
ChangesTold(j) ==
    crashes = 0 /\ faults <= 1 => \A e \in DoneRows(j) :
        Unowned(e) /\ Changed(e) =>
            \E f \in DoneRows(j) : finishedAt[f] >= finishedAt[e] /\ emits[f]["DIFF"] > 0

LEMMA ChangeTold ==
    ASSUME AInv, NEW e \in Execs, Announced(e), crashes = 0, faults <= 1,
           status[e] = "DONE", Unowned(e), Changed(e)
    PROVE  e \in DoneRows(JobOf(e)) /\ finishedAt[e] >= finishedAt[e] /\ emits[e]["DIFF"] > 0
<1>1. /\ faults \in Nat /\ emits[e]["DONE"] \in Nat /\ finishedAt[e] \in Nat
      /\ execRun[e] # None
  BY ConstantsAssumption
     DEF AInv, LInv, IInv, RowInv, TypeOK, BoundsTyped, OutTyped, RowsTyped, Events
<1>2. emits[e]["DONE"] > 0
  BY <1>1 DEF AInv, Accounted, Announcing, Unowned
<1>3. emits[e]["DIFF"] > 0
  BY <1>2 DEF Announced
<1> QED BY <1>1, <1>3 DEF DoneRows, RowsOf

\* However many workers process the queue, a change of a job's text is announced
\* by the time nobody is at work on the execution that found it, unless the
\* process died, two calls failed, or two workers were closing executions of
\* the job at the same time.
THEOREM ApartChangesAreAnnounced ==
    ASSUME NEW j \in Jobs
    PROVE  Spec /\ []Apart(j) => []ChangesTold(j)
<1>1. AInv /\ VerdictsCorrect(j) => ChangesTold(j)
  <2> SUFFICES ASSUME AInv, VerdictsCorrect(j), crashes = 0, faults <= 1, NEW e \in DoneRows(j),
                      Unowned(e), Changed(e)
               PROVE  \E f \in DoneRows(j) :
                          finishedAt[f] >= finishedAt[e] /\ emits[f]["DIFF"] > 0
    BY DEF ChangesTold
  <2>1. e \in Execs /\ status[e] = "DONE" /\ Announced(e) /\ JobOf(e) = j
    BY DEF DoneRows, RowsOf, VerdictsCorrect
  <2> QED BY <2>1, ChangeTold
<1> QED BY <1>1, ApartVerdictsAreCorrect, EveryOutcomeAccounted, PTL

\* While one worker processes the queue, a change is announced by the time
\* nobody is at work on the execution that found it, unless the process died
\* or two calls failed.
THEOREM ChangesAreAnnounced ==
    ASSUME \A v, w \in Workers : v = w
    PROVE  Spec => []NoChangeMissed
<1>1. AInv /\ DInv => NoChangeMissed
  BY ChangeTold, DInvSays DEF NoChangeMissed
<1> QED BY <1>1, InitDInv, NextDInv, EveryOutcomeAccounted, PTL DEF Spec

-----------------------------------------------------------------------------
\* The diff view.  One worker creates, saves and finishes its executions in the
\* order of their ids, so the order of the results is that of the ends.

Used == {e \in Execs : status[e] # "none"}

InOrder ==
    /\ IsFiniteSet(Used)
    /\ \A f \in Used, g \in Execs \ Used : f < g
    /\ \A w \in Workers : pc[w] \in Working => \A f \in Used : f <= exec[w]
    /\ \A f, g \in Execs : status[f] = "DONE" /\ status[g] = "DONE" /\ f < g
                              => finishedAt[f] < finishedAt[g]

VInv == DInv /\ InOrder

LEMMA OwnVInv ==
    ASSUME VInv, DInv', NEW w \in Workers, Work(w), pc[w] \in Working,
           \A v \in Workers : v = w
    PROVE  VInv'
<1>0. PICK x \in Execs : x = exec[w]
  BY OwnStep, DInvSays DEF VInv
<1>1. IInv /\ Dates /\ InOrder
  BY DInvSays DEF VInv
<1>2. /\ exec' = exec
      /\ \A f \in Execs \ {x} : status'[f] = status[f] /\ finishedAt'[f] = finishedAt[f]
  BY <1>0, <1>1, OwnStep DEF RowKept
<1>3. status[x] # "none" /\ status'[x] # "none"
  BY <1>0, <1>1, OwnOutcome, ConstantsAssumption DEF IInv, WorkerInv
<1>4. Used' = Used
  BY <1>2, <1>3 DEF Used
<1>5. ASSUME NEW v \in Workers, pc'[v] \in Working, NEW f \in Used' PROVE f <= exec'[v]
  BY <1>1, <1>2, <1>4, <1>5 DEF InOrder
<1>6. ASSUME NEW f \in Execs, NEW g \in Execs, status'[f] = "DONE", status'[g] = "DONE", f < g
      PROVE  finishedAt'[f] < finishedAt'[g]
  <2>1. \A e \in Used : e <= x
    BY <1>0, <1>1 DEF InOrder
  <2>2. CASE status'[x] = status[x] /\ finishedAt'[x] = finishedAt[x]
    BY <1>1, <1>2, <1>6, <2>2 DEF InOrder
  <2>3. CASE finishedAt'[x] = clock + 1
    <3>1. \A e \in Execs : finishedAt[e] \in Nat /\ finishedAt[e] <= clock /\ clock \in Nat
      BY <1>1 DEF Dates, IInv, TypeOK, RowsTyped
    <3>2. f # x
      <4>1. g \in Used /\ g \in Nat /\ f \in Nat /\ x \in Nat
        BY <1>4, <1>6, ConstantsAssumption DEF Used
      <4> QED BY <1>6, <2>1, <4>1
    <3>3. CASE g = x
      BY <1>2, <2>3, <3>1, <3>2, <3>3
    <3>4. CASE g # x
      BY <1>1, <1>2, <1>6, <3>2, <3>4 DEF InOrder
    <3> QED BY <3>3, <3>4
  <2> QED BY <1>0, <1>1, <2>2, <2>3, OwnOutcome
<1> QED BY <1>1, <1>4, <1>5, <1>6 DEF VInv, InOrder

\* A new row has the least unused id.
LEMMA CreateVInv ==
    ASSUME VInv, DInv', NEW w \in Workers, Work(w), pc[w] = "init", \A v \in Workers : v = w
    PROVE  VInv'
<1>1. IInv /\ InOrder
  BY DInvSays DEF VInv
<1>2. finishedAt' = finishedAt
  BY <1>1, CreateStep
<1>3. CASE \E e \in Execs, reply \in Replies : InitExecution(w, e, reply)
  <2>1. PICK e \in Execs : /\ NextExec(e)
                            /\ status' = [status EXCEPT ![e] = "RUNNING"]
                            /\ (pc'[w] = "reject" \/ exec'[w] = e)
    BY <1>1, <1>3 DEF InitExecution, Await, OnError, TrySteps, Replies, IInv, TypeOK, LocalsTyped
  <2>2. Used' = Used \cup {e} /\ e \notin Used
    BY <1>1, <2>1 DEF Used, NextExec, Unused, IInv, TypeOK, RowsTyped
  <2>3. IsFiniteSet(Used')
    BY <1>1, <2>2, FS_AddElement DEF InOrder
  <2>4. ASSUME NEW f \in Used', NEW g \in Execs \ Used' PROVE f < g
    <3>1. g \notin Used /\ g # e /\ status[g] = "none" /\ g \in Nat /\ e \in Nat
      BY <2>2, <2>4, ConstantsAssumption DEF Used
    <3>2. e <= g
      BY <2>1, <2>4, <3>1 DEF NextExec, Unused
    <3>3. CASE f = e
      BY <3>1, <3>2, <3>3
    <3>4. CASE f \in Used
      BY <1>1, <2>4, <3>1, <3>4 DEF InOrder
    <3> QED BY <2>2, <2>4, <3>3, <3>4
  <2>5. ASSUME NEW v \in Workers, pc'[v] \in Working, NEW f \in Used' PROVE f <= exec'[v]
    <3>1. exec'[v] = e /\ f \in Nat /\ e \in Nat
      BY <2>1, <2>5, ConstantsAssumption DEF Working, TrySteps, CatchSteps, Used
    <3>2. f \in Used => f < e
      BY <1>1, <2>2 DEF InOrder
    <3> QED BY <2>2, <2>5, <3>1, <3>2
  <2>6. \A f \in Execs : status'[f] = "DONE" => status[f] = "DONE"
    BY <1>1, <2>1 DEF IInv, TypeOK, RowsTyped
  <2>7. \A f, g \in Execs : status'[f] = "DONE" /\ status'[g] = "DONE" /\ f < g
            => finishedAt'[f] < finishedAt'[g]
    BY <1>1, <1>2, <2>6 DEF InOrder
  <2> QED BY <2>3, <2>4, <2>5, <2>7 DEF VInv, InOrder
<1>4. CASE QueryFails(w) \/ RowMissing(w)
  <2>1. pc'[w] = "reject" /\ status' = status
    BY <1>1, <1>4 DEF QueryFails, RowMissing, OnError, TrySteps, IInv, TypeOK, rowVars
  <2>2. Used' = Used
    BY <2>1 DEF Used
  <2> QED BY <1>1, <1>2, <2>1, <2>2 DEF VInv, InOrder, Working, TrySteps, CatchSteps
<1>5. Work(w) => (\E e \in Execs, reply \in Replies : InitExecution(w, e, reply))
                 \/ QueryFails(w) \/ RowMissing(w)
  BY DEF Work, FetchJobTarget, Scrape, ScrapeFails, SaveResult, LogDone, MarkDone, SaveLog, LogError,
         MarkTargetActive, MarkFailed, PushDone, Compare, EmitDone, ReportFailed, Settle, Await
<1> QED BY <1>3, <1>4, <1>5

\* Steps that end no execution and begin none.
LEMMA QuietVInv ==
    ASSUME VInv, DInv',
           \A e \in Execs : status'[e] = "none" <=> status[e] = "none",
           \A e \in Execs : status'[e] = "DONE" =>
               status[e] = "DONE" /\ finishedAt'[e] = finishedAt[e],
           \A v \in Workers : \/ pc'[v] = pc[v] /\ exec'[v] = exec[v]
                              \/ pc'[v] \in {"idle", "init"}
    PROVE  VInv'
<1>1. InOrder
  BY DEF VInv
<1>2. Used' = Used
  BY DEF Used
<1>3. ASSUME NEW v \in Workers, pc'[v] \in Working, NEW f \in Used' PROVE f <= exec'[v]
  <2>1. pc'[v] \notin {"idle", "init"}
    BY <1>3 DEF Working, TrySteps, CatchSteps
  <2> QED BY <1>1, <1>2, <1>3, <2>1 DEF InOrder
<1>4. \A f, g \in Execs : status'[f] = "DONE" /\ status'[g] = "DONE" /\ f < g
          => finishedAt'[f] < finishedAt'[g]
  BY <1>1 DEF InOrder
<1> QED BY <1>1, <1>2, <1>3, <1>4 DEF VInv, InOrder

LEMMA NextVInv ==
    ASSUME \A v, w \in Workers : v = w
    PROVE  VInv /\ [Next]_vars => VInv'
<1> SUFFICES ASSUME VInv, [Next]_vars PROVE VInv'
  OBVIOUS
<1>1. IInv /\ DInv'
  BY NextDInv, DInvSays DEF VInv
<1>2. ASSUME NEW w \in Workers, Work(w) PROVE VInv'
  <2>1. CASE Settle(w)
    BY <1>1, <2>1, ForgetShape, QuietVInv
  <2> QED BY <1>1, <1>2, <2>1, WorkCases, OwnVInv, CreateVInv
<1>3. ASSUME NEW w \in Workers, Crash(w) \/ UnhandledLog(w) PROVE VInv'
  BY <1>1, <1>3, ForgetShape, QuietVInv
<1>4. ASSUME \/ \E w \in Workers, r \in Runs : Fetch(w, r)
             \/ \E r \in Runs : RecoverStalled(r) \/ LockExpires(r) \/ \E j \in Jobs : Enqueue(r, j)
      PROVE  VInv'
  BY <1>1, <1>4, QueueShape, QuietVInv
<1>5. ASSUME NEW j \in Jobs, DeleteJob(j) PROVE VInv'
  <2>1. \A e \in RowsOf(j) : status[e] # "none"
    BY <1>1 DEF RowsOf, IInv, RowInv
  <2>2. /\ \A e \in RowsOf(j) : status'[e] = "deleted"
        /\ \A e \in Execs \ RowsOf(j) : status'[e] = status[e] /\ finishedAt'[e] = finishedAt[e]
    BY <1>5 DEF DeleteJob, RowsOf
  <2>3. \A v \in Workers : pc'[v] = pc[v] /\ exec'[v] = exec[v]
    BY <1>5 DEF DeleteJob, localVars
  <2>4. ASSUME NEW e \in Execs
        PROVE  /\ status'[e] = "none" <=> status[e] = "none"
               /\ status'[e] = "DONE" => status[e] = "DONE" /\ finishedAt'[e] = finishedAt[e]
    BY <2>1, <2>2
  <2> QED BY <1>1, <2>3, <2>4, QuietVInv
<1>6. CASE UNCHANGED vars
  BY <1>1, <1>6, QuietVInv DEF vars, rowVars, localVars
<1> QED BY <1>2, <1>3, <1>4, <1>5, <1>6 DEF Next, Disturb, Users, Quiescent

LEMMA TwoIn ==
    ASSUME NEW T, IsFiniteSet(T), NEW a \in T, NEW b \in T, a # b
    PROVE  ~(Cardinality(T) < 2)
<1>1. ASSUME NEW A, IsFiniteSet(A), Cardinality(A) = 1, b \notin A
      PROVE  IsFiniteSet(A \cup {b}) /\ Cardinality(A \cup {b}) = 2
  BY <1>1, FS_AddElement
<1>2. IsFiniteSet({a}) /\ Cardinality({a}) = 1 /\ b \notin {a}
  BY FS_Singleton
<1>3. Cardinality({a} \cup {b}) = 2
  BY <1>1, <1>2
<1>4. {a} \cup {b} \subseteq T
  OBVIOUS
<1>5. Cardinality({a} \cup {b}) <= Cardinality(T) /\ Cardinality(T) \in Nat
  BY <1>4, FS_Subset, FS_CardinalityType
<1> QED BY <1>3, <1>5

\* The two newest results, if both are of completed executions, are the later
\* one and the one it was compared with.
LEMMA ViewShowsCompared ==
    ASSUME VInv, NEW e \in Execs, NEW p \in Execs, status[e] = "DONE", status[p] = "DONE", p < e,
           {e, p} = InView(JobOf(e))
    PROVE  Changed(e) <=> result[e] # result[p]
<1> DEFINE S == Saved(JobOf(e))
<1>1. IInv /\ InOrder /\ \A f \in Execs : finishedAt[f] \in Nat /\ f \in Nat
  BY ConstantsAssumption, DInvSays DEF VInv, IInv, TypeOK, RowsTyped
<1>2. /\ e \in S /\ p \in S
      /\ ~(Cardinality({f \in S : f > p}) >= 2)
  <2>1. e \in InView(JobOf(e)) /\ p \in InView(JobOf(e))
    OBVIOUS
  <2>2. e \in S /\ p \in S /\ Cardinality({f \in S : f > p}) < 2
    BY <2>1 DEF InView
  <2>3. IsFiniteSet({f \in S : f > p})
    <3>1. {f \in S : f > p} \subseteq Used
      BY <1>1 DEF Saved, RowsOf, Used, IInv, RowInv
    <3> QED BY <1>1, <3>1, FS_Subset DEF InOrder
  <2>4. Cardinality({f \in S : f > p}) \in Nat
    BY <2>3, FS_CardinalityType
  <2> QED BY <2>2, <2>4
<1>3. p \in Before(e)
  BY <1>1, <1>2 DEF Before, DoneRows, Saved, RowsOf, InOrder
<1>4. ASSUME NEW f \in Before(e), f # p PROVE finishedAt[f] < finishedAt[p]
  <2>1. f \in Execs /\ status[f] = "DONE" /\ f # e /\ f \in S
    <3>1. f \in Execs /\ status[f] = "DONE" /\ f \in RowsOf(JobOf(e)) /\ finishedAt[f] < finishedAt[e]
      BY DEF Before, DoneRows, RowsOf
    <3>2. result[f] # None
      BY <1>1, <3>1 DEF IInv, RowInv
    <3> QED BY <1>1, <3>1, <3>2 DEF Saved
  <2>2. CASE f < p
    BY <1>1, <2>1, <2>2 DEF InOrder
  <2>3. CASE f > p
    <3> DEFINE T == {g \in S : g > p}
    <3>1. IsFiniteSet(T)
      <4>1. T \subseteq Used
        BY <1>1 DEF Saved, RowsOf, Used, IInv, RowInv
      <4> QED BY <1>1, <4>1, FS_Subset DEF InOrder
    <3>2. e \in T /\ f \in T /\ e # f
      BY <1>1, <1>2, <2>1, <2>3
    <3>3. Cardinality(T) \in Nat
      BY <3>1, FS_CardinalityType
    <3>4. ~(Cardinality(T) < 2)
      BY <3>1, <3>2, TwoIn
    <3> QED BY <1>2, <3>3, <3>4
  <2> QED BY <1>1, <1>4, <2>1, <2>2, <2>3
<1>5. IsLatest(Before(e), p)
  BY <1>3, <1>4 DEF IsLatest
<1>6. ASSUME NEW q \in Before(e), IsLatest(Before(e), q) PROVE q = p
  <2>1. q \in Execs /\ p \in Execs
    BY DEF Before, DoneRows, RowsOf
  <2> QED BY <1>1, <1>3, <1>5, <1>6, <2>1 DEF IsLatest
<1> QED BY <1>3, <1>5, <1>6 DEF Changed

\* While one worker processes the queue, the diff view of a job whose two newest
\* results are of completed executions shows a change exactly when
\* execution.diff was emitted with the later one.
THEOREM ViewAndVerdictAgree ==
    ASSUME \A v, w \in Workers : v = w
    PROVE  Spec => []ViewAgreesWithDiff
<1>1. Init => VInv
  <2> SUFFICES ASSUME Init PROVE VInv
    OBVIOUS
  <2>1. DInv /\ Used = {}
    BY InitDInv DEF Init, Used
  <2> QED BY <2>1, FS_EmptySet DEF Init, VInv, InOrder, Working, TrySteps, CatchSteps
<1>2. VInv => ViewAgreesWithDiff
  BY ViewShowsCompared, DInvSays DEF VInv, Announced, ViewAgreesWithDiff
<1> QED BY <1>1, <1>2, NextVInv, PTL DEF Spec

-----------------------------------------------------------------------------
(***************************************************************************)
(* The queue: what EveryRunSettles rests on.  A run that is active either  *)
(* has the lock of a worker that is at work on it, or is found by the      *)
(* stalled check; the awaits of a handler only ever lead on; and a run     *)
(* changes its state a bounded number of times.                            *)
(***************************************************************************)

\* The awaits that are still ahead of a worker.
AwaitsLeft(w) ==
    IF pc[w] = "idle" THEN 0 ELSE IF pc[w] \in {"resolve", "reject"} THEN 1
    ELSE IF pc[w] = "reportFailed" THEN 2 ELSE IF pc[w] = "markFailed" THEN 3
    ELSE IF pc[w] = "logError" THEN 4 ELSE IF pc[w] = "emitDone" THEN 5
    ELSE IF pc[w] = "compare" THEN 6 ELSE IF pc[w] = "pushDone" THEN 7
    ELSE IF pc[w] = "markActive" THEN 8 ELSE IF pc[w] = "markDone" THEN 9
    ELSE IF pc[w] = "logDone" THEN 10 ELSE IF pc[w] = "saveResult" THEN 11
    ELSE IF pc[w] = "scrape" THEN 12 ELSE IF pc[w] = "target" THEN 13 ELSE 14

\* The changes of its state that are still ahead of a run.
ChangesLeft(r) ==
    IF runState[r] \in Settled THEN 0
    ELSE 2 * (MaxStalled - stalls[r]) +
         (IF runState[r] = "absent" THEN 3 ELSE IF runState[r] = "waiting" THEN 2 ELSE 1)

Locked(r) == lock[r] # None =>
    runState[r] = "active" /\ run[lock[r]] = r /\ pc[lock[r]] # "idle"

\* The rows of a run, and the workers that are about to create one more.
RowsOfRun(r) == {e \in Execs : execRun[e] = r}
AtStart(r)   == {w \in Workers : run[w] = r /\ pc[w] = "init"}

\* How often a run can have been handed out by now.
HandedOut(r) ==
    IF runState[r] \in Settled THEN MaxStalled + 1
    ELSE IF runState[r] = "active" THEN stalls[r] + 1 ELSE stalls[r]

Accountable(r) ==
    /\ runState[r] \notin Settled => stalls[r] <= MaxStalled
    /\ IsFiniteSet(RowsOfRun(r)) /\ IsFiniteSet(AtStart(r))
    /\ Cardinality(RowsOfRun(r)) + Cardinality(AtStart(r)) <= HandedOut(r)

QInv == IInv /\ \A r \in Runs : Locked(r) /\ Accountable(r)

\* What a busy worker's step does to its place and to the queue.
LEMMA WorkMoves ==
    ASSUME IInv, NEW w \in Workers, Work(w)
    PROVE  /\ \A v \in Workers \ {w} : pc'[v] = pc[v] /\ run'[v] = run[v]
           /\ stalls' = stalls /\ AwaitsLeft(w)' < AwaitsLeft(w)
           /\ pc[w] # "idle" /\ pc'[w] # "init"
           /\ \/ Settle(w)
              \/ /\ UNCHANGED <<runState, lock, run>> /\ pc'[w] # "idle"
                 /\ \/ execRun' = execRun
                    \/ /\ pc[w] = "init"
                       /\ \E e \in Execs : /\ status[e] = "none"
                                           /\ execRun' = [execRun EXCEPT ![e] = run[w]]
<1> USE DEF rowVars, queueVars, localVars, AwaitsLeft
<1>1. /\ pc \in [Workers -> Steps] /\ run \in [Workers -> Runs \cup {None}]
  BY DEF IInv, TypeOK, LocalsTyped
<1>2. CASE \E e \in Execs, reply \in Replies : InitExecution(w, e, reply)
  <2>1. PICK e \in Execs, reply \in Replies : InitExecution(w, e, reply)
    BY <1>2
  <2>2. status[e] = "none" /\ execRun' = [execRun EXCEPT ![e] = run[w]]
        /\ UNCHANGED <<runState, lock, run, stalls>>
    BY <2>1 DEF InitExecution, NextExec, Unused
  <2>3. pc[w] = "init" /\ pc'[w] \in {"target", "reject"} /\ \A v \in Workers \ {w} : pc'[v] = pc[v]
    BY <1>1, <2>1 DEF InitExecution, Await, OnError, TrySteps
  <2>4. AwaitsLeft(w)' < AwaitsLeft(w)
    BY <2>3
  <2>5. \E f \in Execs : status[f] = "none" /\ execRun' = [execRun EXCEPT ![f] = run[w]]
    BY <2>2
  <2> HIDE DEF AwaitsLeft
  <2> QED BY <2>2, <2>3, <2>4, <2>5
<1>3. CASE FetchJobTarget(w) \/ (\E t \in Texts : Scrape(w, t)) \/ ScrapeFails(w)
           \/ Compare(w) \/ PushDone(w) \/ EmitDone(w) \/ ReportFailed(w)
  BY <1>1, <1>3 DEF FetchJobTarget, Scrape, ScrapeFails, Compare, PushDone, EmitDone,
        ReportFailed, Await, OnError, TrySteps
<1>4. CASE \E reply \in Replies : SaveResult(w, reply) \/ LogDone(w, reply)
           \/ MarkTargetActive(w, reply) \/ LogError(w, reply)
           \/ MarkDone(w, reply) \/ MarkFailed(w, reply)
  BY <1>1, <1>4 DEF SaveResult, LogDone, MarkTargetActive, LogError, SaveLog, MarkDone,
        MarkFailed, Mark, Await, OnError, TrySteps
<1>5. CASE QueryFails(w) \/ RowMissing(w)
  BY <1>1, <1>5 DEF QueryFails, RowMissing, OnError, DbSteps, RowSteps, TrySteps, CatchSteps
<1>6. CASE Settle(w)
  BY <1>1, <1>6 DEF Settle, Forget
<1> QED BY <1>2, <1>3, <1>4, <1>5, <1>6 DEF Work

\* The same rows, and no worker more about to create one.
LEMMA CountKept ==
    ASSUME NEW r \in Runs, Accountable(r), Accountable(r) => stalls[r] \in Nat,
           RowsOfRun(r)' = RowsOfRun(r), AtStart(r)' \subseteq AtStart(r),
           HandedOut(r) \in Nat, HandedOut(r)' \in Nat, HandedOut(r)' >= HandedOut(r),
           runState'[r] \notin Settled => stalls'[r] <= MaxStalled
    PROVE  Accountable(r)'
<1>1. /\ IsFiniteSet(RowsOfRun(r)) /\ IsFiniteSet(AtStart(r))
      /\ Cardinality(RowsOfRun(r)) \in Nat /\ Cardinality(AtStart(r)) \in Nat
      /\ Cardinality(RowsOfRun(r)) + Cardinality(AtStart(r)) <= HandedOut(r)
  BY FS_CardinalityType DEF Accountable
<1>2. /\ IsFiniteSet(AtStart(r)') /\ Cardinality(AtStart(r)') <= Cardinality(AtStart(r))
      /\ Cardinality(AtStart(r)') \in Nat
  BY <1>1, FS_Subset, FS_CardinalityType
<1> QED BY <1>1, <1>2 DEF Accountable

LEMMA WorkLocked ==
    ASSUME QInv, NEW w \in Workers, Work(w), NEW r \in Runs
    PROVE  Locked(r)'
<1>1. IInv /\ Locked(r) /\ lock[r] \in Workers \cup {None} /\ lock \in [Runs -> Workers \cup {None}]
  BY DEF QInv, IInv, TypeOK, QueueTyped
<1>2. CASE Settle(w)
  <2>1. lock'[r] = (IF lock[r] = w THEN None ELSE lock[r])
    BY <1>2 DEF Settle, Release
  <2>2. ASSUME NEW v \in Workers \ {w}, lock[r] = v PROVE Locked(r)'
    <3>1. run[v] = r /\ runState[r] = "active" /\ pc[v] # "idle"
      BY <1>1, <2>2, ConstantsAssumption DEF Locked
    <3>2. run'[v] = r /\ pc'[v] # "idle"
      BY <1>1, <2>2, <3>1, WorkMoves
    <3>3. runState'[r] = runState[r]
      BY <1>1, <1>2, <2>2 DEF Settle, IInv, TypeOK, QueueTyped
    <3> QED BY <2>1, <2>2, <3>1, <3>2, <3>3 DEF Locked
  <2> QED BY <1>1, <2>1, <2>2 DEF Locked
<1>3. CASE ~Settle(w)
  BY <1>1, <1>3, WorkMoves DEF Locked
<1> QED BY <1>2, <1>3

\* A worker that begins creates a row or gives up, and begins no more.
LEMMA WorkAccountable ==
    ASSUME QInv, NEW w \in Workers, Work(w), NEW r \in Runs
    PROVE  Accountable(r)'
<1>1. /\ IInv /\ Accountable(r) /\ Locked(r) /\ stalls[r] \in Nat /\ stalls' = stalls
      /\ MaxStalled \in Nat /\ HandedOut(r) \in Nat
      /\ execRun \in [Execs -> Runs \cup {None}]
      /\ runState \in [Runs -> {"absent", "waiting", "active"} \cup Settled]
  BY WorkMoves, ConstantsAssumption DEF QInv, IInv, TypeOK, QueueTyped, RowsTyped, HandedOut
<1>2. AtStart(r)' = AtStart(r) \ {w}
  <2>1. ASSUME NEW v \in Workers PROVE v \in AtStart(r)' <=> v \in AtStart(r) \ {w}
    BY <1>1, WorkMoves DEF AtStart
  <2> QED BY <2>1 DEF AtStart
<1>3. CASE Settle(w)
  <2>1. \/ runState'[r] = runState[r]
        \/ runState[r] = "active" /\ runState'[r] \in Settled
    <3>1. CASE run[w] = r /\ lock[r] = w
      BY <1>1, <1>3, <3>1, ConstantsAssumption DEF Settle, Locked, Settled
    <3>2. CASE ~(run[w] = r /\ lock[r] = w)
      BY <1>1, <1>3, <3>2 DEF Settle
    <3> QED BY <3>1, <3>2
  <2>2. HandedOut(r)' \in Nat /\ HandedOut(r)' >= HandedOut(r)
    BY <1>1, <2>1 DEF HandedOut, Accountable, Settled
  <2>3. RowsOfRun(r)' = RowsOfRun(r)
    BY <1>3 DEF Settle, rowVars, RowsOfRun
  <2>4. runState'[r] \notin Settled => stalls'[r] <= MaxStalled
    BY <1>1, <2>1 DEF Accountable
  <2> QED BY <1>1, <1>2, <2>2, <2>3, <2>4, CountKept
<1>4. CASE ~Settle(w) /\ execRun' = execRun
  <2>1. HandedOut(r)' = HandedOut(r) /\ RowsOfRun(r)' = RowsOfRun(r) /\ runState' = runState
    BY <1>1, <1>4, WorkMoves DEF HandedOut, RowsOfRun
  <2> QED BY <1>1, <1>2, <2>1, CountKept DEF Accountable
<1>5. ASSUME ~Settle(w), pc[w] = "init", NEW e \in Execs, status[e] = "none",
             execRun' = [execRun EXCEPT ![e] = run[w]]
      PROVE  Accountable(r)'
  <2>1. HandedOut(r)' = HandedOut(r) /\ runState' = runState
    BY <1>1, <1>5, WorkMoves DEF HandedOut
  <2>2. execRun[e] = None
    BY <1>1, <1>5 DEF IInv, RowInv
  <2>3. CASE run[w] # r
    <3>1. RowsOfRun(r)' = RowsOfRun(r)
      BY <1>1, <1>5, <2>2, <2>3, ConstantsAssumption DEF RowsOfRun
    <3> QED BY <1>1, <1>2, <2>1, <3>1, CountKept DEF Accountable
  <2>4. CASE run[w] = r
    <3>1. RowsOfRun(r)' = RowsOfRun(r) \cup {e} /\ e \notin RowsOfRun(r)
      BY <1>1, <1>5, <2>2, <2>4, ConstantsAssumption DEF RowsOfRun
    <3>2. w \in AtStart(r)
      BY <1>5, <2>4 DEF AtStart
    <3>3. IsFiniteSet(RowsOfRun(r)) /\ IsFiniteSet(AtStart(r))
      BY <1>1 DEF Accountable
    <3>4. /\ IsFiniteSet(RowsOfRun(r)') /\ IsFiniteSet(AtStart(r)')
          /\ Cardinality(RowsOfRun(r)') = Cardinality(RowsOfRun(r)) + 1
          /\ Cardinality(AtStart(r)') = Cardinality(AtStart(r)) - 1
      BY <1>2, <3>1, <3>2, <3>3, FS_AddElement, FS_RemoveElement
    <3>5. Cardinality(RowsOfRun(r)) \in Nat /\ Cardinality(AtStart(r)) \in Nat
      BY <3>3, FS_CardinalityType
    <3> QED BY <1>1, <2>1, <3>4, <3>5 DEF Accountable
  <2> QED BY <2>3, <2>4
<1> QED BY <1>1, <1>3, <1>4, <1>5, WorkMoves

\* A worker that dies gives up what it has locked.
LEMMA DieKeeps ==
    ASSUME QInv, NEW w \in Workers, Die(w), NEW r \in Runs
    PROVE  Locked(r)' /\ Accountable(r)'
<1>1. /\ IInv /\ Accountable(r) /\ Locked(r) /\ stalls[r] \in Nat
      /\ MaxStalled \in Nat /\ HandedOut(r) \in Nat
      /\ lock[r] \in Workers \cup {None}
      /\ pc \in [Workers -> Steps] /\ run \in [Workers -> Runs \cup {None}]
  BY ConstantsAssumption DEF QInv, IInv, TypeOK, QueueTyped, LocalsTyped, HandedOut
<1>2. /\ UNCHANGED <<execRun, runState, stalls>>
      /\ lock'[r] = (IF lock[r] = w THEN None ELSE lock[r])
      /\ pc'[w] = "idle"
      /\ \A v \in Workers \ {w} : pc'[v] = pc[v] /\ run'[v] = run[v]
  BY <1>1 DEF Die, Release, Forget, rowVars
<1>3. Locked(r)'
  BY <1>1, <1>2 DEF Locked
<1>4. AtStart(r)' \subseteq AtStart(r) /\ RowsOfRun(r)' = RowsOfRun(r) /\ HandedOut(r)' = HandedOut(r)
  BY <1>2 DEF AtStart, RowsOfRun, HandedOut
<1> QED BY <1>1, <1>2, <1>3, <1>4, CountKept DEF Accountable

\* The run that is fetched is handed out once more.
LEMMA FetchKeeps ==
    ASSUME QInv, NEW w \in Workers, NEW s \in Runs, Fetch(w, s), NEW r \in Runs
    PROVE  Locked(r)' /\ Accountable(r)'
<1>1. /\ IInv /\ Accountable(r) /\ Locked(r) /\ stalls[r] \in Nat
      /\ MaxStalled \in Nat /\ HandedOut(r) \in Nat
      /\ lock \in [Runs -> Workers \cup {None}]
      /\ runState \in [Runs -> {"absent", "waiting", "active"} \cup Settled]
      /\ pc \in [Workers -> Steps] /\ run \in [Workers -> Runs \cup {None}]
  BY ConstantsAssumption DEF QInv, IInv, TypeOK, QueueTyped, LocalsTyped, HandedOut
<1>2. /\ UNCHANGED <<execRun, stalls>>
      /\ pc[w] = "idle" /\ runState[s] = "waiting" /\ runState'[s] = "active" /\ lock'[s] = w
      /\ \A q \in Runs \ {s} : runState'[q] = runState[q] /\ lock'[q] = lock[q]
      /\ pc'[w] = "init" /\ run'[w] = s
      /\ \A v \in Workers \ {w} : pc'[v] = pc[v] /\ run'[v] = run[v]
  BY <1>1 DEF Fetch, rowVars
<1>3. RowsOfRun(r)' = RowsOfRun(r)
  BY <1>2 DEF RowsOfRun
<1>4. CASE r # s
  <2>1. AtStart(r)' \subseteq AtStart(r)
    <3>1. ASSUME NEW v \in AtStart(r)' PROVE v \in AtStart(r)
      BY <1>2, <1>4 DEF AtStart
    <3> QED BY <3>1
  <2>2. HandedOut(r)' = HandedOut(r) /\ runState'[r] = runState[r]
    BY <1>2, <1>4 DEF HandedOut
  <2>3. Locked(r)'
    BY <1>1, <1>2, <1>4 DEF Locked
  <2> QED BY <1>1, <1>2, <1>3, <2>1, <2>2, <2>3, CountKept DEF Accountable
<1>5. CASE r = s
  <2>1. AtStart(r)' = AtStart(r) \cup {w} /\ w \notin AtStart(r)
    <3>1. ASSUME NEW v \in Workers PROVE v \in AtStart(r)' <=> v \in AtStart(r) \cup {w}
      BY <1>2, <1>5 DEF AtStart
    <3>2. w \notin AtStart(r)
      BY <1>2 DEF AtStart
    <3> QED BY <3>1, <3>2 DEF AtStart
  <2>2. HandedOut(r) = stalls[r] /\ HandedOut(r)' = stalls[r] + 1 /\ stalls[r] <= MaxStalled
    BY <1>1, <1>2, <1>5 DEF HandedOut, Settled, Accountable
  <2>3. IsFiniteSet(RowsOfRun(r)) /\ IsFiniteSet(AtStart(r))
    BY <1>1 DEF Accountable
  <2>4. IsFiniteSet(AtStart(r)') /\ Cardinality(AtStart(r)') = Cardinality(AtStart(r)) + 1
    BY <2>1, <2>3, FS_AddElement
  <2>5. Cardinality(RowsOfRun(r)) \in Nat /\ Cardinality(AtStart(r)) \in Nat
    BY <2>3, FS_CardinalityType
  <2>6. Accountable(r)'
    BY <1>1, <1>2, <1>3, <2>2, <2>3, <2>4, <2>5 DEF Accountable
  <2>7. Locked(r)'
    BY <1>2, <1>5 DEF Locked
  <2> QED BY <2>6, <2>7
<1> QED BY <1>4, <1>5

\* Stalls and expired locks, new runs, and jobs that go.
LEMMA QueueKeeps ==
    ASSUME QInv, NEW r \in Runs,
           \/ \E s \in Runs : RecoverStalled(s) \/ LockExpires(s) \/ \E j \in Jobs : Enqueue(s, j)
           \/ \E j \in Jobs : DeleteJob(j)
    PROVE  Locked(r)' /\ Accountable(r)'
<1>1. /\ IInv /\ Accountable(r) /\ Locked(r) /\ stalls \in [Runs -> Nat]
      /\ MaxStalled \in Nat /\ HandedOut(r) \in Nat
      /\ lock \in [Runs -> Workers \cup {None}]
      /\ runState \in [Runs -> {"absent", "waiting", "active"} \cup Settled]
  BY ConstantsAssumption DEF QInv, IInv, TypeOK, QueueTyped, HandedOut
<1>2. UNCHANGED <<execRun, pc, run>>
  BY DEF RecoverStalled, LockExpires, Enqueue, DeleteJob, rowVars, localVars
<1>3. RowsOfRun(r)' = RowsOfRun(r) /\ AtStart(r)' = AtStart(r)
  BY <1>2 DEF RowsOfRun, AtStart
<1>4. /\ lock'[r] \in {lock[r], None}
      /\ \/ runState'[r] = runState[r] /\ stalls'[r] = stalls[r]
         \/ runState[r] = "absent" /\ runState'[r] = "waiting" /\ stalls'[r] = stalls[r]
         \/ /\ runState[r] = "active" /\ stalls'[r] = stalls[r] + 1 /\ lock[r] = None
            /\ runState'[r] = IF stalls[r] < MaxStalled THEN "waiting" ELSE "failed"
  BY <1>1 DEF RecoverStalled, LockExpires, Enqueue, DeleteJob, queueVars
<1>5. Locked(r)'
  BY <1>1, <1>2, <1>4, ConstantsAssumption DEF Locked
<1>6. HandedOut(r)' \in Nat /\ HandedOut(r)' >= HandedOut(r)
  BY <1>1, <1>4 DEF HandedOut, Settled, Accountable
<1>7. runState'[r] \notin Settled => stalls'[r] <= MaxStalled
  BY <1>1, <1>4 DEF Settled, Accountable
<1> QED BY <1>1, <1>3, <1>5, <1>6, <1>7, CountKept

LEMMA InitQInv == Init => QInv
<1> SUFFICES ASSUME Init PROVE QInv
  OBVIOUS
<1>1. IInv
  BY InitIInv
<1>2. ASSUME NEW r \in Runs PROVE Locked(r) /\ Accountable(r)
  <2>1. RowsOfRun(r) = {} /\ AtStart(r) = {}
    BY ConstantsAssumption DEF Init, RowsOfRun, AtStart
  <2>2. HandedOut(r) = 0 /\ stalls[r] = 0 /\ MaxStalled \in Nat /\ lock[r] = None
    BY ConstantsAssumption DEF Init, HandedOut, Settled
  <2> QED BY <2>1, <2>2, FS_EmptySet DEF Locked, Accountable
<1> QED BY <1>1, <1>2 DEF QInv

LEMMA NextQInv == QInv /\ [Next]_vars => QInv'
<1> SUFFICES ASSUME QInv, [Next]_vars PROVE QInv'
  OBVIOUS
<1>1. IInv /\ IInv'
  BY NextIInv DEF QInv
<1>2. ASSUME NEW r \in Runs PROVE Locked(r)' /\ Accountable(r)'
  <2>1. ASSUME NEW w \in Workers, Work(w) PROVE Locked(r)' /\ Accountable(r)'
    BY <2>1, WorkLocked, WorkAccountable
  <2>2. ASSUME NEW w \in Workers, Crash(w) \/ UnhandledLog(w) PROVE Locked(r)' /\ Accountable(r)'
    BY <2>2, DieKeeps DEF Crash, UnhandledLog
  <2>3. ASSUME NEW w \in Workers, NEW s \in Runs, Fetch(w, s) PROVE Locked(r)' /\ Accountable(r)'
    BY <2>3, FetchKeeps
  <2>4. CASE UNCHANGED vars
    BY <2>4 DEF QInv, vars, rowVars, queueVars, localVars, Locked, Accountable, HandedOut, RowsOfRun, AtStart
  <2> QED BY <2>1, <2>2, <2>3, <2>4, QueueKeeps DEF Next, Disturb, Users, Quiescent
<1> QED BY <1>1, <1>2 DEF QInv

LEMMA QueueInvariant == Spec => []QInv
BY InitQInv, NextQInv, PTL DEF Spec

\* An active run is never stranded: either the worker that has its lock is at
\* work on it, or nobody has the lock and the stalled check is due to return the
\* run to the queue (or to give it up).
THEOREM RunsAreAttended == Spec => [](\A r \in Runs : Locked(r))
<1>1. QInv => \A r \in Runs : Locked(r)
  BY DEF QInv
<1> QED BY <1>1, QueueInvariant, PTL

\* A run leaves at most MaxStalled + 1 rows, however often workers crash, locks
\* expire under live workers and answers are lost: each time it is handed out
\* makes one row at most.
THEOREM FewRowsPerRun ==
    Spec => [](\A r \in Runs : Cardinality(RowsOfRun(r)) <= MaxStalled + 1)
<1>1. QInv => \A r \in Runs : Cardinality(RowsOfRun(r)) <= MaxStalled + 1
  <2> SUFFICES ASSUME QInv, NEW r \in Runs PROVE Cardinality(RowsOfRun(r)) <= MaxStalled + 1
    OBVIOUS
  <2>1. Accountable(r) /\ stalls[r] \in Nat /\ MaxStalled \in Nat
    BY ConstantsAssumption DEF QInv, IInv, TypeOK, QueueTyped
  <2>2. Cardinality(RowsOfRun(r)) \in Nat /\ Cardinality(AtStart(r)) \in Nat
    BY <2>1, FS_CardinalityType DEF Accountable
  <2>3. HandedOut(r) \in Nat /\ HandedOut(r) <= MaxStalled + 1
    BY <2>1 DEF HandedOut, Accountable, Settled
  <2> QED BY <2>1, <2>2, <2>3 DEF Accountable
<1> QED BY <1>1, QueueInvariant, PTL

\* What a worker does brings it closer to the end of its handler, errors
\* included; only a fetch sets it back, and it needs a run that waits.
HandlersRunDown == \A w \in Workers :
    /\ Work(w) => AwaitsLeft(w)' < AwaitsLeft(w)
    /\ AwaitsLeft(w)' <= AwaitsLeft(w) \/ \E r \in Runs : runState[r] = "waiting" /\ Fetch(w, r)

\* Each change of a run's state is one of a bounded number: nothing brings a
\* settled run back, and the stalled check does not go on for ever.
RunsRunDown == \A r \in Runs :
    /\ ChangesLeft(r) \in Nat
    /\ runState'[r] = runState[r] \/ ChangesLeft(r)' < ChangesLeft(r)

LEMMA WorkersOnly ==
    ASSUME QInv, [Next]_vars, NEW w \in Workers
    PROVE  \/ Work(w) \/ (\E r \in Runs : Fetch(w, r)) \/ pc'[w] \in {pc[w], "idle"}
<1>1. IInv
  BY DEF QInv
<1>2. ASSUME NEW v \in Workers, v # w, Work(v) PROVE pc'[w] = pc[w]
  BY <1>1, <1>2, WorkMoves
<1>3. ASSUME NEW v \in Workers, Crash(v) \/ UnhandledLog(v) PROVE pc'[w] \in {pc[w], "idle"}
  BY <1>1, <1>3, ForgetShape
<1>4. ASSUME NEW v \in Workers, v # w, NEW r \in Runs, Fetch(v, r) PROVE pc'[w] = pc[w]
  BY <1>1, <1>4 DEF Fetch, IInv, TypeOK
<1>5. ASSUME \/ \E r \in Runs : RecoverStalled(r) \/ LockExpires(r) \/ \E j \in Jobs : Enqueue(r, j)
             \/ \E j \in Jobs : DeleteJob(j)
             \/ UNCHANGED vars
      PROVE  pc' = pc
  BY <1>5 DEF RecoverStalled, LockExpires, Enqueue, DeleteJob, vars
<1> QED BY <1>2, <1>3, <1>4, <1>5 DEF Next, Disturb, Users, Quiescent

\* The awaits of a handler lead on, whatever fails.
THEOREM HandlersEnd == Spec => [][HandlersRunDown]_vars
<1>1. ASSUME QInv, [Next]_vars PROVE HandlersRunDown
  <2> SUFFICES ASSUME NEW w \in Workers
               PROVE  /\ Work(w) => AwaitsLeft(w)' < AwaitsLeft(w)
                      /\ \/ AwaitsLeft(w)' <= AwaitsLeft(w)
                         \/ \E r \in Runs : runState[r] = "waiting" /\ Fetch(w, r)
    BY DEF HandlersRunDown
  <2>1. IInv /\ AwaitsLeft(w) \in Nat /\ AwaitsLeft(w)' \in Nat
    BY <1>1 DEF QInv, AwaitsLeft
  <2>2. Work(w) => AwaitsLeft(w)' < AwaitsLeft(w)
    BY <2>1, WorkMoves
  <2>3. pc'[w] \in {pc[w], "idle"} => AwaitsLeft(w)' <= AwaitsLeft(w)
    BY DEF AwaitsLeft
  <2>4. ASSUME NEW r \in Runs, Fetch(w, r) PROVE runState[r] = "waiting" /\ Fetch(w, r)
    BY <2>4 DEF Fetch
  <2> QED BY <1>1, <2>1, <2>2, <2>3, <2>4, WorkersOnly
<1> QED BY <1>1, QueueInvariant, PTL DEF Spec

\* A run changes its state at most 2 * MaxStalled + 3 times, and a settled one
\* never again, although a worker that has lost the lock may still settle.
THEOREM RunsEnd == Spec => [][RunsRunDown]_vars
<1>1. ASSUME QInv, [Next]_vars PROVE RunsRunDown
  <2> SUFFICES ASSUME NEW r \in Runs
               PROVE  /\ ChangesLeft(r) \in Nat
                      /\ runState'[r] = runState[r] \/ ChangesLeft(r)' < ChangesLeft(r)
    BY DEF RunsRunDown
  <2>1. /\ IInv /\ Accountable(r) /\ Locked(r) /\ stalls \in [Runs -> Nat] /\ MaxStalled \in Nat
        /\ runState \in [Runs -> {"absent", "waiting", "active"} \cup Settled]
        /\ lock \in [Runs -> Workers \cup {None}]
    BY <1>1, ConstantsAssumption DEF QInv, IInv, TypeOK, QueueTyped
  <2>2. \/ runState'[r] = runState[r]
        \/ runState[r] = "absent" /\ runState'[r] = "waiting" /\ stalls'[r] = stalls[r]
        \/ runState[r] = "waiting" /\ runState'[r] = "active" /\ stalls'[r] = stalls[r]
        \/ runState[r] = "active" /\ runState'[r] \in Settled
        \/ /\ runState[r] = "active" /\ runState'[r] = "waiting"
           /\ stalls'[r] = stalls[r] + 1 /\ stalls[r] < MaxStalled
    <3>1. ASSUME NEW w \in Workers, Work(w)
          PROVE  runState'[r] = runState[r] \/ (runState[r] = "active" /\ runState'[r] \in Settled)
      <4>1. CASE Settle(w) /\ run[w] = r /\ lock[r] = w
        BY <2>1, <4>1, ConstantsAssumption DEF Settle, Locked, Settled
      <4>2. CASE Settle(w) /\ ~(run[w] = r /\ lock[r] = w)
        BY <2>1, <4>2 DEF Settle
      <4>3. CASE ~Settle(w)
        BY <2>1, <3>1, <4>3, WorkMoves
      <4> QED BY <4>1, <4>2, <4>3
    <3>2. ASSUME NEW w \in Workers, Crash(w) \/ UnhandledLog(w) PROVE runState' = runState
      BY <3>2 DEF Crash, UnhandledLog, Die
    <3>3. ASSUME NEW w \in Workers, NEW s \in Runs, Fetch(w, s)
          PROVE  \/ runState'[r] = runState[r]
                 \/ runState[r] = "waiting" /\ runState'[r] = "active" /\ stalls'[r] = stalls[r]
      BY <2>1, <3>3 DEF Fetch
    <3>4. ASSUME NEW s \in Runs, RecoverStalled(s)
          PROVE  \/ runState'[r] = runState[r]
                 \/ runState[r] = "active" /\ runState'[r] \in Settled
                 \/ /\ runState[r] = "active" /\ runState'[r] = "waiting"
                    /\ stalls'[r] = stalls[r] + 1 /\ stalls[r] < MaxStalled
      BY <2>1, <3>4 DEF RecoverStalled, Settled
    <3>5. ASSUME NEW s \in Runs, NEW j \in Jobs, Enqueue(s, j)
          PROVE  \/ runState'[r] = runState[r]
                 \/ runState[r] = "absent" /\ runState'[r] = "waiting" /\ stalls'[r] = stalls[r]
      BY <2>1, <3>5 DEF Enqueue
    <3>6. ASSUME \/ \E s \in Runs : LockExpires(s)
                 \/ \E j \in Jobs : DeleteJob(j)
                 \/ UNCHANGED vars
          PROVE  runState' = runState
      BY <3>6 DEF LockExpires, DeleteJob, vars, queueVars
    <3> QED BY <1>1, <3>1, <3>2, <3>3, <3>4, <3>5, <3>6 DEF Next, Disturb, Users, Quiescent
  <2>3. ChangesLeft(r) \in Nat
    BY <2>1 DEF ChangesLeft, Accountable, Settled
  <2> QED BY <2>1, <2>2, <2>3 DEF ChangesLeft, Accountable, Settled
<1> QED BY <1>1, QueueInvariant, PTL DEF Spec
=============================================================================
