------------------------------- MODULE Delivery -------------------------------
(***************************************************************************)
(* From an execution to its owner's inbox: ExecutionLifecycle and          *)
(* Notifications composed, for one job and the process that works on its   *)
(* runs.  EventEmitter2 joins them: emit starts the listeners in the same  *)
(* stretch of code, nobody awaits them, and they read the job again, which *)
(* may be gone by then.  The process takes its handlers along when it      *)
(* dies.  A handler is named after the execution and the event it is for.  *)
(***************************************************************************)
EXTENDS ExecutionLifecycle

CONSTANTS
    MaxKept, MaxAttempts, Ties, MaxTrouble   \* as in Notifications

Handlers == Execs \X Events

ASSUME DeliveryAssumption ==
    /\ IsFiniteSet(Execs)
    /\ MaxKept \in Nat \ {0} /\ MaxAttempts \in Nat \ {0}
    /\ Ties \in BOOLEAN
    /\ MaxTrouble \in Nat

EventType == [DONE |-> "EXECUTION_DONE", FAILED |-> "EXECUTION_FAILED",
              DIFF |-> "EXECUTION_DIFF"]

VARIABLES notes, createdAt, time, read, user, notifyByEmail, enabled, webhook,
          handler, oldest, attempt, pushed, mailed, posts, client, view,
          broken, changes

notifyVars == <<notes, createdAt, time, read, user, notifyByEmail, enabled, webhook,
                handler, oldest, attempt, pushed, mailed, posts, client, view,
                broken, changes>>

N == INSTANCE Notifications WITH
    TypeOf <- [h \in Handlers |-> EventType[h[2]]],
    job <- jobs # {}, clock <- time, pc <- handler, faults <- broken

allVars == <<vars, notifyVars>>

\* The job has no webhook and its owner wants no mail: what comes after the
\* push is left to Notifications.
DeliveryInit == Init /\ N!Init /\ ~webhook /\ ~notifyByEmail

\* One worker emits: the listeners of these events start with it.
Starting(w) ==
    {h \in Handlers : h[1] = exec[w] /\ emits'[h[1]][h[2]] > emits[h[1]][h[2]]}

\* Mutants of Announce: the listener of execution.done is only registered for
\* executions without a change; execution.diff starts both listeners.
AnnounceOne(w) ==
    /\ EmitDone(w) \/ ReportFailed(w)
    /\ LET S == Starting(w)
       IN  N!Emit(IF Cardinality(S) > 1 THEN S \ {<<exec[w], "DONE">>} ELSE S)
AnnounceBoth(w) ==
    /\ EmitDone(w) \/ ReportFailed(w)
    /\ N!Emit(Starting(w) \cup {<<exec[w], "DIFF">>})

\* completeExecution's or failExecution's emits, and the listeners' first
\* stretch.
Announce(w) ==
    /\ EmitDone(w) \/ ReportFailed(w)
    /\ N!Emit(Starting(w))

\* The rest of what workers, the queue and users do to executions.
Quietly ==
    /\ \/ \E w \in Workers : (Work(w) /\ emits' = emits) \/ \E r \in Runs : Fetch(w, r)
       \/ \E r \in Runs : RecoverStalled(r) \/ LockExpires(r)
       \/ \E r \in Runs, j \in Jobs : Enqueue(r, j)
    /\ UNCHANGED notifyVars

\* The process dies with the handlers that are at work in it.
Perish ==
    /\ \E w \in Workers : Crash(w) \/ UnhandledLog(w)
    /\ IF N!InFlight = {} THEN UNCHANGED notifyVars ELSE N!Stop(N!InFlight)

\* DELETE /jobs/:id, or the account's, with the cascade to the executions.
DeleteWithJob ==
    /\ \E j \in Jobs : DeleteJob(j)
    /\ N!RemoveJob \/ N!DeleteAccount

AdvanceHandler(h) == UNCHANGED vars /\ N!Handle(h)

\* The handlers read the settings at two awaits, and may find them changed, the
\* webhookUrl as well, though no DTO names it.
ChangeSettings ==
    /\ UNCHANGED vars
    /\ N!UpdateJob \/ N!UpdateNotificationSettings

\* A handler breaks off by itself: one of its awaits rejects.
BreakOff ==
    /\ UNCHANGED vars
    /\ \E h \in Handlers : N!Stop({h})

AtRest ==
    /\ \A r \in Runs : runState[r] \in Settled
    /\ \A w \in Workers : pc[w] = "idle"
    /\ N!InFlight = {}

DeliveryNext ==
    \/ \E w \in Workers : Announce(w)
    \/ Quietly
    \/ Perish
    \/ DeleteWithJob
    \/ \E h \in Handlers : AdvanceHandler(h)
    \/ ChangeSettings
    \/ BreakOff
    \/ AtRest /\ UNCHANGED allVars

DeliverySpec == DeliveryInit /\ [][DeliveryNext]_allVars
-----------------------------------------------------------------------------
\* Properties.

Noted(e, t) == createdAt[<<e, t>>] > 0

\* What the inbox says of an execution is so: a note that it is done, has
\* failed or has found a change, saved however long after the event, agrees
\* with the execution's row as long as there is one, and never are there notes
\* of both outcomes, although both completeExecution and failExecution may run
\* for it and the handlers of several executions interleave.
InboxTellsTheTruth == \A e \in Execs :
    /\ Noted(e, "DONE") => status[e] \in {"DONE", "deleted"}
    /\ Noted(e, "FAILED") => status[e] \in {"FAILED", "deleted"}
    /\ Noted(e, "DIFF") => status[e] = "deleted" \/ (status[e] = "DONE" /\ Changed(e))
    /\ ~(Noted(e, "DONE") /\ Noted(e, "FAILED"))

\* When all is done, every outcome in the table has come to the inbox, with
\* the change where there was one, unless the owner has changed the
\* settings, the process died or a handler broke off.  One failed query on the
\* worker's side loses no DONE; it may lose a FAILED, the one after markFailed.
OutcomesAreNoted ==
    AtRest /\ crashes = 0 /\ broken = 0 /\ changes = 0 => \A e \in Execs :
        /\ status[e] = "DONE" /\ faults <= 1 => Noted(e, "DONE")
        /\ status[e] = "DONE" /\ faults = 0 /\ Changed(e) => Noted(e, "DIFF")
        /\ status[e] = "FAILED" /\ faults = 0 => Noted(e, "FAILED")

\* A row that is older than the newest note of another execution may have been
\* trimmed, but with distinct timestamps the inbox shows exactly the newest
\* MaxKept of all notes ever saved (the table implements NotificationInbox).
InboxShowsNewest == N!InboxShowsNewest
=============================================================================
