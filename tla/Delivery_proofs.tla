---------------------------- MODULE Delivery_proofs ----------------------------
(***************************************************************************)
(* Theorems about Delivery: the composition keeps what was proved of its   *)
(* two parts, a note in the inbox has an event behind it, and an outcome   *)
(* that nothing disturbs on its way comes to the inbox.                    *)
(***************************************************************************)
EXTENDS Delivery, ExecutionOutcomes_proofs

P == INSTANCE Notifications_proofs WITH
    TypeOf <- [h \in Handlers |-> EventType[h[2]]],
    job <- jobs # {}, clock <- time, pc <- handler, faults <- broken

-----------------------------------------------------------------------------
\* The executions, among the handlers.

\* Every step of the composition is a step of the executions, or none.
LEMMA LifecycleStep == ASSUME [DeliveryNext]_allVars PROVE [Next]_vars
<1>1. CASE \E w \in Workers : Announce(w)
  BY <1>1 DEF Announce, Next, Work
<1>2. CASE Quietly
  BY <1>2 DEF Quietly, Next, Disturb, Users
<1>3. CASE Perish
  BY <1>3 DEF Perish, Next, Disturb
<1>4. CASE DeleteWithJob
  BY <1>4 DEF DeleteWithJob, Next, Users
<1>5. CASE UNCHANGED vars
  BY <1>5
<1> QED BY <1>1, <1>2, <1>3, <1>4, <1>5 DEF DeliveryNext, AdvanceHandler, ChangeSettings, BreakOff, allVars

\* The composition does to executions what ExecutionLifecycle allows: listeners
\* and inboxes never hold a worker up or change a row of its (EventEmitter2's
\* emit awaits nobody), so whatever holds of executions alone holds here.
THEOREM LifecycleImplemented == DeliverySpec => Spec
<1>1. DeliveryInit => Init
  BY DEF DeliveryInit
<1> QED BY <1>1, LifecycleStep, PTL DEF DeliverySpec, Spec

-----------------------------------------------------------------------------
\* Behind every note there is an event.

HandlersTyped ==
    /\ handler \in [Handlers -> N!Steps]
    /\ createdAt \in [Handlers -> Nat]
    /\ time \in Nat

Heard == \A h \in Handlers :
    handler[h] # "idle" \/ createdAt[h] > 0 => emits[h[1]][h[2]] > 0

LEMMA InitHeard == DeliveryInit => HandlersTyped /\ Heard
BY DEF DeliveryInit, N!Init, HandlersTyped, Heard, N!Steps

\* Events are emitted where listeners start, and never taken back.
LEMMA EmitsGrow ==
    ASSUME TypeOK, NEW w \in Workers, EmitDone(w) \/ ReportFailed(w)
    PROVE  \A e \in Execs, t \in Events :
               emits'[e][t] >= emits[e][t] /\ emits[e][t] \in Nat /\ emits'[e][t] \in Nat
<1>1. emits \in [Execs -> [Events -> Nat]]
  BY DEF TypeOK, OutTyped
<1>2. \/ emits' = [emits EXCEPT ![exec[w]]["DONE"] = @ + 1,
                                ![exec[w]]["DIFF"] = IF differs[w] THEN @ + 1 ELSE @]
      \/ emits' = [emits EXCEPT ![exec[w]]["FAILED"] = @ + 1]
  BY DEF EmitDone, ReportFailed
<1> QED BY <1>1, <1>2 DEF Events

LEMMA AnnounceHeard ==
    ASSUME TypeOK, HandlersTyped, Heard, NEW w \in Workers, Announce(w)
    PROVE  HandlersTyped' /\ Heard'
<1> USE DEF Handlers
<1>1. /\ handler' = [h \in Handlers |-> IF h \in Starting(w) THEN "fetchJob" ELSE handler[h]]
      /\ createdAt' = createdAt /\ time' = time
  BY DEF Announce, N!Emit, N!tableVars
<1>2. HandlersTyped'
  BY <1>1 DEF HandlersTyped, N!Steps
<1>3. \A e \in Execs, t \in Events : emits'[e][t] >= emits[e][t] /\ emits[e][t] \in Nat
                                     /\ emits'[e][t] \in Nat
  BY EmitsGrow DEF Announce
<1>4. ASSUME NEW h \in Handlers, handler'[h] # "idle" \/ createdAt'[h] > 0
      PROVE  emits'[h[1]][h[2]] > 0
  <2>1. CASE h \in Starting(w)
    BY <1>3, <2>1 DEF Starting
  <2>2. CASE h \notin Starting(w)
    BY <1>1, <1>3, <1>4, <2>2 DEF Heard
  <2> QED BY <2>1, <2>2
<1> QED BY <1>2, <1>4 DEF Heard

\* No handler starts or saves but for an event of its own.
LEMMA HandlerHeard ==
    ASSUME HandlersTyped, Heard, NEW h \in Handlers, N!Handle(h), emits' = emits
    PROVE  HandlersTyped' /\ Heard'
<1>1. /\ handler[h] # "idle" /\ handler' = [handler EXCEPT ![h] = handler'[h]]
      /\ handler'[h] \in N!Steps
  BY DEF HandlersTyped, N!Steps, N!Over, N!Go, N!Handle, N!FetchJob, N!SaveNotification, N!SaveFails,
         N!FindOldest, N!DeleteOldest, N!FindWebhook, N!Post, N!PostFails, N!FindUser, N!SendMail
<1>2. /\ createdAt' = [createdAt EXCEPT ![h] = createdAt'[h]]
      /\ createdAt'[h] \in Nat /\ time' \in Nat
  <2>1. CASE N!SaveNotification(h)
    <3>1. PICK now \in IF Ties THEN {time, time + 1} \ {0} ELSE {time + 1} :
             time' = now /\ createdAt' = [createdAt EXCEPT ![h] = now]
      BY <2>1 DEF N!SaveNotification
    <3>2. now \in Nat
      BY <3>1 DEF HandlersTyped
    <3> QED BY <3>1, <3>2 DEF HandlersTyped
  <2>2. CASE ~N!SaveNotification(h)
    <3>1. UNCHANGED <<createdAt, time>>
      BY <2>2 DEF N!Handle, N!FetchJob, N!SaveFails, N!tableVars, N!FindOldest, N!DeleteOldest,
         N!FindWebhook, N!Post, N!PostFails, N!FindUser, N!SendMail
    <3> QED BY <3>1 DEF HandlersTyped
  <2> QED BY <2>1, <2>2
<1> QED BY <1>1, <1>2 DEF HandlersTyped, Heard

\* The other steps start no handler, save nothing and emit nothing.
LEMMA QuietHeard ==
    ASSUME HandlersTyped, Heard, UNCHANGED <<createdAt, time, emits>>,
           \/ handler' = handler
           \/ \E S \in SUBSET Handlers :
                 /\ \A h \in S : handler[h] # "idle"
                 /\ handler' = [h \in Handlers |-> IF h \in S THEN "failed" ELSE handler[h]]
    PROVE  HandlersTyped' /\ Heard'
BY DEF HandlersTyped, Heard, N!Steps, N!Over

LEMMA StopShape ==
    ASSUME NEW S, N!Stop(S)
    PROVE  /\ S \subseteq Handlers /\ UNCHANGED <<createdAt, time>>
           /\ \A h \in S : handler[h] # "idle"
           /\ handler' = [h \in Handlers |-> IF h \in S THEN "failed" ELSE handler[h]]
BY DEF N!Stop, N!InFlight

LEMMA NextHeard ==
    ASSUME TypeOK, HandlersTyped, Heard, [DeliveryNext]_allVars PROVE HandlersTyped' /\ Heard'
<1>1. CASE \E w \in Workers : Announce(w)
  BY <1>1, AnnounceHeard
<1>2. CASE Quietly
  <2>1. UNCHANGED <<createdAt, time, emits, handler>>
    BY <1>2 DEF Quietly, notifyVars, Fetch, RecoverStalled, LockExpires, Enqueue, outVars
  <2> QED BY <2>1, QuietHeard
<1>3. CASE Perish
  <2>1. emits' = emits
    BY <1>3 DEF Perish, Crash, UnhandledLog, Die, outVars
  <2>2. CASE UNCHANGED notifyVars
    BY <2>1, <2>2, QuietHeard DEF notifyVars
  <2>3. CASE N!Stop(N!InFlight)
    BY <2>1, <2>3, StopShape, QuietHeard
  <2> QED BY <1>3, <2>2, <2>3 DEF Perish
<1>4. CASE DeleteWithJob
  <2>1. UNCHANGED <<createdAt, time, emits, handler>>
    BY <1>4 DEF DeleteWithJob, DeleteJob, N!RemoveJob, N!DeleteAccount, N!Change, outVars
  <2> QED BY <2>1, QuietHeard
<1>5. CASE \E h \in Handlers : AdvanceHandler(h)
  BY <1>5, HandlerHeard DEF AdvanceHandler, vars, outVars
<1>6. CASE ChangeSettings
  <2>1. UNCHANGED <<createdAt, time, emits, handler>>
    BY <1>6 DEF ChangeSettings, N!UpdateJob, N!UpdateNotificationSettings, N!Change, vars, outVars
  <2> QED BY <2>1, QuietHeard
<1>7. CASE BreakOff
  BY <1>7, StopShape, QuietHeard DEF BreakOff, vars, outVars
<1>8. CASE UNCHANGED allVars
  BY <1>8, QuietHeard DEF allVars, vars, notifyVars, outVars
<1> QED BY <1>1, <1>2, <1>3, <1>4, <1>5, <1>6, <1>7, <1>8 DEF DeliveryNext

OutcomesTrue(e) ==
    /\ Noted(e, "DONE") => status[e] \in {"DONE", "deleted"}
    /\ Noted(e, "FAILED") => status[e] \in {"FAILED", "deleted"}
    /\ ~(Noted(e, "DONE") /\ Noted(e, "FAILED"))

ChangeTrue(e) ==
    Noted(e, "DIFF") => status[e] = "deleted" \/ (status[e] = "DONE" /\ Changed(e))

LEMMA InboxFollowsEvents ==
    ASSUME TypeOK, EventsTellTheTruth, HandlersTyped, Heard, NEW e \in Execs
    PROVE  OutcomesTrue(e) /\ (Announced(e) => ChangeTrue(e))
<1>1. \A t \in Events : Noted(e, t) => emits[e][t] > 0
  <2> SUFFICES ASSUME NEW t \in Events, Noted(e, t) PROVE emits[e][t] > 0
    OBVIOUS
  <2>1. PICK h \in Handlers : h = <<e, t>>
    BY DEF Handlers
  <2> QED BY <2>1 DEF Noted, Heard
<1>2. \A t \in Events : emits[e][t] \in Nat
  BY DEF TypeOK, OutTyped
<1> QED BY <1>1, <1>2 DEF Events, EventsTellTheTruth, Announced, OutcomesTrue, ChangeTrue

LEMMA InboxHeard == DeliverySpec => [](TypeOK /\ EventsTellTheTruth /\ HandlersTyped /\ Heard)
<1>1. HandlersTyped /\ Heard /\ TypeOK /\ [DeliveryNext]_allVars => HandlersTyped' /\ Heard'
  BY NextHeard
<1>2. Spec => []TypeOK
  BY TypeCorrect
<1>3. Spec => []EventsTellTheTruth
  BY EventsAreTrue
<1> QED BY <1>1, <1>2, <1>3, LifecycleImplemented, InitHeard, PTL DEF DeliverySpec

\* However many workers process the queue, a note of an outcome agrees with the
\* execution's row, however late it is saved, and there are never notes of both.
THEOREM InboxOutcomesAreTrue == DeliverySpec => [](\A e \in Execs : OutcomesTrue(e))
<1>1. TypeOK /\ EventsTellTheTruth /\ HandlersTyped /\ Heard => \A e \in Execs : OutcomesTrue(e)
  BY InboxFollowsEvents
<1> QED BY <1>1, InboxHeard, PTL

\* The inbox reports a change of a job's text only where there is one, as long as
\* no two workers are closing executions of that job at the same time.
THEOREM ApartInboxIsTrue ==
    ASSUME NEW j \in Jobs
    PROVE  DeliverySpec /\ []Apart(j) => [](\A e \in RowsOf(j) : ChangeTrue(e))
<1>1. TypeOK /\ EventsTellTheTruth /\ HandlersTyped /\ Heard /\ VerdictsCorrect(j)
        => \A e \in RowsOf(j) : ChangeTrue(e)
  BY InboxFollowsEvents DEF VerdictsCorrect, RowsOf
<1>2. Spec /\ []Apart(j) => []VerdictsCorrect(j)
  BY ApartVerdictsAreCorrect
<1> QED BY <1>1, <1>2, InboxHeard, LifecycleImplemented, PTL

\* What the inbox says of an execution agrees with its row, however late it is
\* saved, while one process works on the queue.
THEOREM InboxIsTrue ==
    ASSUME \A v, w \in Workers : v = w
    PROVE  DeliverySpec => []InboxTellsTheTruth
<1>1. ASSUME TypeOK, EventsTellTheTruth, HandlersTyped, Heard, DiffVerdictCorrect
      PROVE  InboxTellsTheTruth
  BY <1>1, InboxFollowsEvents
     DEF DiffVerdictCorrect, Announced, InboxTellsTheTruth, OutcomesTrue, ChangeTrue
<1>2. Spec => []DiffVerdictCorrect
  BY VerdictsAreCorrect
<1> QED BY <1>1, <1>2, InboxHeard, LifecycleImplemented, PTL

-----------------------------------------------------------------------------
(***************************************************************************)
(* The notifications, beside the executions.  P is the instance N again,   *)
(* of the module that has the theorems.                                    *)
(***************************************************************************)

LEMMA SameCounts ==
    /\ \A S : N!Cardinality(S) = Cardinality(S) /\ P!Cardinality(S) = Cardinality(S)
    /\ \A S : P!IsFiniteSet(S) = IsFiniteSet(S)
BY DEF N!Cardinality, P!Cardinality, Cardinality, P!IsFiniteSet, IsFiniteSet

LEMMA NotificationsApply == P!NotificationsAssumption
<1>1. IsFiniteSet(Handlers)
  <2>1. IsFiniteSet(Events)
    <3>1. Events = ({"DONE"} \cup {"FAILED"}) \cup {"DIFF"}
      BY DEF Events
    <3>2. IsFiniteSet({"DONE"}) /\ IsFiniteSet({"FAILED"}) /\ IsFiniteSet({"DIFF"})
      BY FS_Singleton
    <3> QED BY <3>1, <3>2, FS_Union
  <2> QED BY <2>1, FS_Product, DeliveryAssumption DEF Handlers
<1>2. [h \in Handlers |-> EventType[h[2]]] \in [Handlers -> P!Types]
  BY DEF Handlers, Events, EventType, P!Types
<1> QED BY <1>1, <1>2, SameCounts, DeliveryAssumption DEF P!NotificationsAssumption

LEMMA SameEmit == ASSUME NEW S, N!Emit(S) PROVE P!Emit(S)
BY DEF N!Emit, N!tableVars, N!settingsVars, N!outVars, N!sentVars,
       P!Emit, P!tableVars, P!settingsVars, P!outVars, P!sentVars

LEMMA SameStop == ASSUME NEW S, N!Stop(S) PROVE P!Stop(S)
BY SameCounts DEF
   N!Stop, N!settingsVars, N!outVars, N!sentVars, N!InFlight, N!Over,
   P!Stop, P!settingsVars, P!outVars, P!sentVars, P!InFlight, P!Over

LEMMA SameHandle == ASSUME NEW h, N!Handle(h) PROVE P!Handle(h)
BY SameCounts DEF
   N!Handle, N!FetchJob, N!SaveNotification, N!SaveFails, N!FindOldest, N!DeleteOldest,
   N!FindWebhook, N!Post, N!PostFails, N!FindUser, N!SendMail, N!Go, N!Push, N!Skipped, N!Deliver,
   N!tableVars, N!settingsVars, N!outVars, N!sentVars,
   P!Handle, P!FetchJob, P!SaveNotification, P!SaveFails, P!FindOldest, P!DeleteOldest,
   P!FindWebhook, P!Post, P!PostFails, P!FindUser, P!SendMail, P!Go, P!Push, P!Skipped, P!Deliver,
   P!tableVars, P!settingsVars, P!outVars, P!sentVars

LEMMA SameSettings ==
    ASSUME N!UpdateJob \/ N!UpdateNotificationSettings \/ N!RemoveJob \/ N!DeleteAccount
    PROVE  P!UpdateJob \/ P!UpdateNotificationSettings \/ P!RemoveJob \/ P!DeleteAccount
BY DEF N!UpdateJob, N!UpdateNotificationSettings, N!RemoveJob, N!DeleteAccount, N!Change, N!Types,
       N!outVars, N!sentVars,
       P!UpdateJob, P!UpdateNotificationSettings, P!RemoveJob, P!DeleteAccount, P!Change, P!Types,
       P!outVars, P!sentVars

\* Every step of the composition is a step of the notifications, or none.
LEMMA NotificationsStep == ASSUME [DeliveryNext]_allVars PROVE [P!Next]_(P!vars)
<1> USE DEF P!Next
<1>1. CASE \E w \in Workers : Announce(w)
  <2>1. PICK w \in Workers : N!Emit(Starting(w))
    BY <1>1 DEF Announce
  <2>2. Starting(w) \in SUBSET Handlers
    BY DEF Starting
  <2> QED BY <2>1, <2>2, SameEmit
<1>2. ASSUME UNCHANGED notifyVars, jobs' = jobs PROVE UNCHANGED P!vars
  BY <1>2 DEF notifyVars, P!vars, P!tableVars, P!settingsVars, P!outVars, P!sentVars
<1>3. CASE Quietly
  <2>1. jobs' = jobs
    BY <1>3 DEF Quietly, Work, InitExecution, FetchJobTarget, Scrape, ScrapeFails, SaveResult, LogDone,
       MarkDone, SaveLog, LogError, Mark, MarkTargetActive, MarkFailed, PushDone, Compare, EmitDone,
       ReportFailed, QueryFails, RowMissing, Settle, Fetch, RecoverStalled, LockExpires, Enqueue, rowVars
  <2> QED BY <1>2, <1>3, <2>1 DEF Quietly
<1>4. CASE Perish
  <2>1. jobs' = jobs
    BY <1>4 DEF Perish, Crash, UnhandledLog, Die, rowVars
  <2>2. N!InFlight \in SUBSET Handlers
    BY DEF N!InFlight
  <2> QED BY <1>2, <1>4, <2>1, <2>2, SameStop DEF Perish
<1>5. CASE DeleteWithJob \/ ChangeSettings
  BY <1>5, SameSettings DEF DeleteWithJob, ChangeSettings
<1>6. CASE \E h \in Handlers : AdvanceHandler(h)
  BY <1>6, SameHandle DEF AdvanceHandler
<1>7. CASE BreakOff
  <2>1. PICK h \in Handlers : N!Stop({h})
    BY <1>7 DEF BreakOff
  <2>2. {h} \in SUBSET Handlers
    OBVIOUS
  <2> QED BY <2>1, <2>2, SameStop
<1>8. CASE UNCHANGED allVars
  BY <1>2, <1>8 DEF allVars, vars, rowVars
<1> QED BY <1>1, <1>3, <1>4, <1>5, <1>6, <1>7, <1>8 DEF DeliveryNext

\* The composition does to the notifications what their specification allows,
\* when an execution's emits start the listeners.
THEOREM NotificationsImplemented == DeliverySpec => P!Spec
<1>1. DeliveryInit => P!Init
  BY DEF DeliveryInit, N!Init, N!Types, P!Init, P!Types
<1> QED BY <1>1, NotificationsStep, PTL DEF DeliverySpec, P!Spec

\* With distinct timestamps, what executions bring to the inbox is shown as if
\* nothing had ever been trimmed, crashes and deletions included.
THEOREM DeliveredInbox == ASSUME ~Ties PROVE DeliverySpec => InboxShowsNewest
<1>1. P!Spec => P!InboxShowsNewest
  BY P!InboxImplemented, NotificationsApply
<1>2. UNCHANGED P!Inbox!vars => UNCHANGED N!Inbox!vars
  BY SameCounts DEF P!Inbox!vars, N!Inbox!vars
<1>3. P!Inbox!Init => N!Inbox!Init
  BY SameCounts DEF P!Inbox!Init, N!Inbox!Init
<1>4. P!Inbox!Next => N!Inbox!Next
  <2>1. \A S, r : P!Inbox!Newest(S, r) = N!Inbox!Newest(S, r)
    BY DEF P!Inbox!Newest, N!Inbox!Newest, P!Inbox!Cardinality, N!Inbox!Cardinality
  <2> QED BY <2>1, SameCounts DEF P!Inbox!Next, P!Inbox!Arrive, P!Inbox!Leave,
                                  N!Inbox!Next, N!Inbox!Arrive, N!Inbox!Leave
<1>5. P!InboxShowsNewest => InboxShowsNewest
  BY <1>2, <1>3, <1>4, PTL DEF P!InboxShowsNewest, P!Inbox!Spec, InboxShowsNewest,
                               N!InboxShowsNewest, N!Inbox!Spec
<1> QED BY <1>1, <1>5, NotificationsImplemented


-----------------------------------------------------------------------------
\* No outcome is lost on the way to the inbox.  Until a handler breaks off or
\* the settings change, a handler that has been started goes on to its save.

Started == \A h \in Handlers : emits[h[1]][h[2]] > 0 => handler[h] # "idle"

Counted == broken \in Nat /\ changes \in Nat

Untouched == changes = 0 => jobs # {} /\ user /\ enabled = N!Types

BeforeNote == {"idle", "fetchJob", "save"}

OnItsWay(h) == handler[h] # "failed" /\ (handler[h] \notin BeforeNote => createdAt[h] > 0)

Undisturbed == broken = 0 /\ changes = 0 => \A h \in Handlers : OnItsWay(h)

Delivers == HandlersTyped /\ Started /\ Counted /\ Untouched /\ Undisturbed

LEMMA InitDelivers == DeliveryInit => Delivers
<1> USE DEF Handlers
<1>1. SUFFICES ASSUME DeliveryInit PROVE Delivers
  OBVIOUS
<1>2. Started
  BY <1>1 DEF DeliveryInit, Init, Started, Events
<1>3. jobs # {}
  BY <1>1 DEF DeliveryInit, N!Init
<1> QED BY <1>1, <1>2, <1>3, InitHeard DEF DeliveryInit, N!Init, Delivers, Counted, Untouched, Undisturbed,
          OnItsWay, BeforeNote

\* A step that leaves the handlers and the counts alone.
LEMMA DeliversKept ==
    ASSUME Delivers, UNCHANGED <<createdAt, time, emits, handler, broken, changes, jobs, user, enabled>>
    PROVE  Delivers'
BY DEF Delivers, HandlersTyped, Started, Counted, Untouched, Undisturbed, OnItsWay

LEMMA AnnounceDelivers ==
    ASSUME TypeOK, HandlersTyped', Delivers, NEW w \in Workers, Announce(w)
    PROVE  Delivers'
<1> USE DEF Handlers
<1>1. /\ handler' = [h \in Handlers |-> IF h \in Starting(w) THEN "fetchJob" ELSE handler[h]]
      /\ UNCHANGED <<createdAt, user, enabled, broken, changes>>
  BY DEF Announce, N!Emit, N!tableVars, N!settingsVars
<1>2. jobs' = jobs
  BY DEF Announce, EmitDone, ReportFailed, rowVars
<1>3. \A e \in Execs \ {exec[w]} : emits'[e] = emits[e]
  BY DEF Announce, EmitDone, ReportFailed, TypeOK, OutTyped
<1>4. Started'
  <2> SUFFICES ASSUME NEW h \in Handlers, emits'[h[1]][h[2]] > 0 PROVE handler'[h] # "idle"
    BY DEF Started
  <2>1. emits'[h[1]][h[2]] >= emits[h[1]][h[2]] /\ emits[h[1]][h[2]] \in Nat
    BY EmitsGrow DEF Announce
  <2>2. emits'[h[1]][h[2]] \in Nat
    BY EmitsGrow DEF Announce
  <2>3. CASE h \in Starting(w)
    BY <1>1, <2>3
  <2>4. CASE h \notin Starting(w)
    <3>1. emits[h[1]][h[2]] > 0
      BY <1>3, <2>1, <2>2, <2>4 DEF Starting
    <3> QED BY <1>1, <2>4, <3>1 DEF Delivers, Started
  <2> QED BY <2>3, <2>4
<1>5. Undisturbed'
  BY <1>1 DEF Delivers, Undisturbed, OnItsWay, BeforeNote
<1> QED BY <1>1, <1>2, <1>4, <1>5 DEF Delivers, Counted, Untouched

LEMMA HandlerDelivers ==
    ASSUME HandlersTyped', Delivers, NEW h \in Handlers, AdvanceHandler(h)
    PROVE  Delivers'
<1>1. UNCHANGED <<emits, jobs>>
  BY DEF AdvanceHandler, vars, outVars, rowVars
<1>2. /\ handler[h] \notin {"idle", "ended", "failed"} /\ UNCHANGED <<user, enabled, broken, changes>>
      /\ handler' = [handler EXCEPT ![h] = handler'[h]]
      /\ handler'[h] # "idle"
      /\ handler'[h] = "failed" => ~user
      /\ handler'[h] = "ended" /\ handler[h] = "fetchJob" => jobs = {} \/ EventType[h[2]] \notin enabled
      /\ handler[h] = "fetchJob" => handler'[h] \in {"save", "ended"}
  BY DEF AdvanceHandler, Delivers, HandlersTyped, N!Steps, N!Over, N!Go, N!Handle, N!FetchJob,
         N!SaveNotification, N!SaveFails, N!FindOldest, N!DeleteOldest, N!FindWebhook, N!Post,
         N!PostFails, N!FindUser, N!SendMail, N!settingsVars
<1>3. /\ createdAt' = [createdAt EXCEPT ![h] = createdAt'[h]]
      /\ IF handler[h] = "save" /\ user THEN createdAt'[h] > 0 ELSE createdAt' = createdAt
  <2>1. CASE N!SaveNotification(h)
    <3>1. PICK now \in IF Ties THEN {time, time + 1} \ {0} ELSE {time + 1} :
             createdAt' = [createdAt EXCEPT ![h] = now]
      BY <2>1 DEF N!SaveNotification
    <3>2. now > 0
      BY <3>1 DEF Delivers, HandlersTyped
    <3> QED BY <2>1, <3>1, <3>2 DEF Delivers, HandlersTyped, N!SaveNotification, N!Go
  <2>2. CASE ~N!SaveNotification(h)
    <3>1. createdAt' = createdAt /\ ~(handler[h] = "save" /\ user)
      BY <2>2 DEF AdvanceHandler, N!Handle, N!Go, N!FetchJob, N!SaveFails, N!tableVars, N!FindOldest,
         N!DeleteOldest, N!FindWebhook, N!Post, N!PostFails, N!FindUser, N!SendMail
    <3> QED BY <3>1 DEF Delivers, HandlersTyped
  <2> QED BY <2>1, <2>2
<1>4. Started'
  BY <1>1, <1>2 DEF Delivers, Started, HandlersTyped
<1>5. Undisturbed'
  <2> SUFFICES ASSUME broken' = 0, changes' = 0, NEW g \in Handlers PROVE OnItsWay(g)'
    BY DEF Undisturbed
  <2>1. user /\ jobs # {} /\ enabled = N!Types /\ OnItsWay(g) /\ OnItsWay(h)
    BY <1>2 DEF Delivers, Untouched, Undisturbed
  <2>2. CASE g # h
    BY <1>2, <1>3, <2>1, <2>2 DEF OnItsWay, Delivers, HandlersTyped
  <2>3. CASE g = h
    <3>1. EventType[h[2]] \in N!Types
      BY DEF Handlers, Events, EventType, N!Types
    <3>2. CASE handler[h] = "fetchJob"
      BY <1>2, <2>1, <2>3, <3>1, <3>2 DEF OnItsWay, BeforeNote
    <3>3. CASE handler[h] # "fetchJob"
      BY <1>2, <1>3, <2>1, <2>3, <3>3 DEF OnItsWay, BeforeNote
    <3> QED BY <3>2, <3>3
  <2> QED BY <2>2, <2>3
<1> QED BY <1>1, <1>2, <1>4, <1>5 DEF Delivers, Counted, Untouched

\* Handlers that break off are counted, and so are changes of the settings.
LEMMA StopDelivers ==
    ASSUME HandlersTyped', Delivers, NEW S, N!Stop(S), UNCHANGED <<emits, jobs>>
    PROVE  Delivers'
<1>1. /\ S # {} /\ S \subseteq Handlers /\ \A h \in S : handler[h] # "idle"
      /\ UNCHANGED <<user, enabled, changes>> /\ broken' = broken + N!Cardinality(S)
      /\ handler' = [h \in Handlers |-> IF h \in S THEN "failed" ELSE handler[h]]
  BY DEF N!Stop, N!InFlight, N!settingsVars
<1>2. N!Cardinality(S) \in Nat /\ N!Cardinality(S) > 0
  <2>1. IsFiniteSet(Handlers)
    BY NotificationsApply, SameCounts DEF P!NotificationsAssumption
  <2>2. IsFiniteSet(S)
    BY <1>1, <2>1, FS_Subset
  <2> QED BY <1>1, <2>2, SameCounts, FS_CardinalityType, FS_EmptySet
<1>3. broken' > 0 /\ broken' \in Nat
  BY <1>1, <1>2 DEF Delivers, Counted
<1> QED BY <1>1, <1>3 DEF Delivers, Started, Counted, Untouched, Undisturbed

LEMMA ChangeDelivers ==
    ASSUME HandlersTyped', Delivers, emits' = emits,
           N!UpdateJob \/ N!UpdateNotificationSettings \/ N!RemoveJob \/ N!DeleteAccount
    PROVE  Delivers'
<1>1. changes' = changes + 1 /\ UNCHANGED <<handler, broken>>
  BY DEF N!UpdateJob, N!UpdateNotificationSettings, N!RemoveJob, N!DeleteAccount, N!Change
<1>2. changes' # 0 /\ changes' \in Nat
  BY <1>1 DEF Delivers, Counted
<1> QED BY <1>1, <1>2 DEF Delivers, Started, Counted, Untouched, Undisturbed

LEMMA NextDelivers ==
    ASSUME TypeOK, Heard, Delivers, [DeliveryNext]_allVars PROVE Delivers'
<1>0. HandlersTyped'
  BY NextHeard DEF Delivers
<1>1. CASE \E w \in Workers : Announce(w)
  BY <1>0, <1>1, AnnounceDelivers
<1>2. CASE Quietly
  <2>1. jobs' = jobs
    BY <1>2 DEF Quietly, Work, InitExecution, FetchJobTarget, Scrape, ScrapeFails, SaveResult, LogDone,
       MarkDone, SaveLog, LogError, Mark, MarkTargetActive, MarkFailed, PushDone, Compare, EmitDone,
       ReportFailed, QueryFails, RowMissing, Settle, Fetch, RecoverStalled, LockExpires, Enqueue, rowVars
  <2>2. emits' = emits
    BY <1>2 DEF Quietly, Fetch, RecoverStalled, LockExpires, Enqueue, outVars
  <2> QED BY <1>2, <2>1, <2>2, DeliversKept DEF Quietly, notifyVars
<1>3. CASE Perish
  <2>1. UNCHANGED <<emits, jobs>>
    BY <1>3 DEF Perish, Crash, UnhandledLog, Die, outVars, rowVars
  <2>2. CASE UNCHANGED notifyVars
    BY <2>1, <2>2, DeliversKept DEF notifyVars
  <2>3. CASE N!Stop(N!InFlight)
    BY <1>0, <2>1, <2>3, StopDelivers
  <2> QED BY <1>3, <2>2, <2>3 DEF Perish
<1>4. CASE DeleteWithJob
  <2>1. emits' = emits
    BY <1>4 DEF DeleteWithJob, DeleteJob, outVars
  <2> QED BY <1>0, <1>4, <2>1, ChangeDelivers DEF DeleteWithJob
<1>5. CASE \E h \in Handlers : AdvanceHandler(h)
  BY <1>0, <1>5, HandlerDelivers
<1>6. CASE ChangeSettings
  BY <1>0, <1>6, ChangeDelivers DEF ChangeSettings, vars, outVars
<1>7. CASE BreakOff
  BY <1>0, <1>7, StopDelivers DEF BreakOff, vars, outVars, rowVars
<1>8. CASE UNCHANGED allVars
  BY <1>8, DeliversKept DEF allVars, vars, notifyVars, outVars, rowVars
<1> QED BY <1>1, <1>2, <1>3, <1>4, <1>5, <1>6, <1>7, <1>8 DEF DeliveryNext

\* What OutcomesAreNoted says of one execution.
AllDone == AtRest /\ crashes = 0 /\ broken = 0 /\ changes = 0

OutcomeNoted(e) ==
    /\ status[e] = "DONE" /\ faults <= 1 => Noted(e, "DONE")
    /\ status[e] = "FAILED" /\ faults = 0 => Noted(e, "FAILED")

ChangeNoted(e) == status[e] = "DONE" /\ faults = 0 /\ Changed(e) => Noted(e, "DIFF")

LEMMA EventsReachInbox ==
    ASSUME TypeOK, AInv, Delivers, AllDone, NEW e \in Execs
    PROVE  OutcomeNoted(e) /\ (Announced(e) => ChangeNoted(e))
<1>1. ASSUME NEW t \in Events, emits[e][t] > 0 PROVE Noted(e, t)
  <2>1. PICK h \in Handlers : h = <<e, t>>
    BY DEF Handlers
  <2>2. handler[h] # "idle" /\ handler[h] \in N!Steps /\ OnItsWay(h)
    BY <1>1, <2>1 DEF Delivers, Started, Undisturbed, HandlersTyped, AllDone
  <2>3. handler[h] = "ended"
    BY <2>2 DEF AllDone, AtRest, N!InFlight, N!Over, OnItsWay
  <2> QED BY <2>1, <2>2, <2>3 DEF OnItsWay, BeforeNote, Noted
<1>2. /\ \A t \in Events : emits[e][t] \in Nat
      /\ faults \in Nat
  BY ConstantsAssumption DEF TypeOK, OutTyped, BoundsTyped
<1>3. ~\E w \in Workers : Announcing(w, e)
  BY DEF AllDone, AtRest, Announcing, PastDone, CatchSteps
<1>4. status[e] = "DONE" /\ faults <= 1 => emits[e]["DONE"] > 0
  BY <1>2, <1>3 DEF AllDone, AInv, Accounted, Events
<1>5. status[e] = "FAILED" /\ faults = 0 => emits[e]["FAILED"] > 0
  BY <1>2, <1>3 DEF AllDone, AInv, Reported, Events
<1>6. Announced(e) /\ status[e] = "DONE" /\ faults = 0 /\ Changed(e) => emits[e]["DIFF"] > 0
  BY <1>2, <1>4 DEF Announced
<1> QED BY <1>1, <1>2, <1>4, <1>5, <1>6 DEF Events, OutcomeNoted, ChangeNoted

LEMMA DeliveryDelivers == DeliverySpec => [](TypeOK /\ AInv /\ Delivers)
<1>1. TypeOK /\ Heard /\ Delivers /\ [DeliveryNext]_allVars => Delivers'
  BY NextDelivers
<1>2. HandlersTyped /\ Heard /\ TypeOK /\ [DeliveryNext]_allVars => HandlersTyped' /\ Heard'
  BY NextHeard
<1>3. Spec => [](TypeOK /\ AInv)
  BY TypeCorrect, EveryOutcomeAccounted, PTL
<1>4. Delivers => HandlersTyped
  BY DEF Delivers
<1> QED BY <1>1, <1>2, <1>3, <1>4, LifecycleImplemented, InitHeard, InitDelivers, PTL
        DEF DeliverySpec

\* However many workers process the queue, every outcome in the table comes to
\* the inbox once all is done, unless a call fails where the outcome is announced,
\* the process dies, a handler breaks off or the owner changes the settings.
THEOREM EveryOutcomeReachesInbox ==
    DeliverySpec => [](AllDone => \A e \in Execs : OutcomeNoted(e))
<1>1. TypeOK /\ AInv /\ Delivers => (AllDone => \A e \in Execs : OutcomeNoted(e))
  BY EventsReachInbox
<1> QED BY <1>1, DeliveryDelivers, PTL

\* So does every change of a job's text, as long as no two workers are closing
\* executions of that job at the same time.
THEOREM ApartChangesReachInbox ==
    ASSUME NEW j \in Jobs
    PROVE  DeliverySpec /\ []Apart(j) => [](AllDone => \A e \in RowsOf(j) : ChangeNoted(e))
<1>1. TypeOK /\ AInv /\ Delivers /\ VerdictsCorrect(j)
        => (AllDone => \A e \in RowsOf(j) : ChangeNoted(e))
  BY EventsReachInbox DEF VerdictsCorrect, RowsOf
<1>2. Spec /\ []Apart(j) => []VerdictsCorrect(j)
  BY ApartVerdictsAreCorrect
<1> QED BY <1>1, <1>2, DeliveryDelivers, LifecycleImplemented, PTL

\* While one process works on the queue, every outcome in the table comes to the
\* inbox once all is done, with the change where there was one, unless a call
\* fails where the outcome is announced, the process dies, a handler breaks off
\* or the owner changes the settings.
THEOREM OutcomesReachInbox ==
    ASSUME \A v, w \in Workers : v = w
    PROVE  DeliverySpec => []OutcomesAreNoted
<1>1. ASSUME TypeOK, AInv, Delivers, DiffVerdictCorrect PROVE OutcomesAreNoted
  <2> SUFFICES ASSUME AllDone, NEW e \in Execs PROVE OutcomeNoted(e) /\ ChangeNoted(e)
    BY DEF OutcomesAreNoted, AllDone, OutcomeNoted, ChangeNoted
  <2>1. Announced(e)
    BY <1>1 DEF DiffVerdictCorrect, Announced
  <2> QED BY <1>1, <2>1, EventsReachInbox
<1>2. Spec => []DiffVerdictCorrect
  BY VerdictsAreCorrect
<1> QED BY <1>1, <1>2, DeliveryDelivers, LifecycleImplemented, PTL
=============================================================================
