---------------------------- MODULE Notifications ----------------------------
(***************************************************************************)
(* NotificationsService (src/notifications/notifications.service.ts) and   *)
(* the WebhookChannel it uses, for one user and one job of theirs.         *)
(*                                                                         *)
(* An emitted event starts an async listener that nobody awaits: the       *)
(* handlers of execution.diff and execution.done of one execution, and     *)
(* those of other executions, interleave at every await, and share the     *)
(* table that each of them trims.  Other users' rows never meet a query of *)
(* this user's.  NotificationsGateway (src/notifications/gateways) keeps   *)
(* the sockets of the user in a room; one client of theirs is modelled,    *)
(* which connects and then loads its inbox.                                *)
(***************************************************************************)
EXTENDS Naturals, FiniteSets

CONSTANTS
    Handlers,     \* listener calls; a handler also names the row it saves
    TypeOf,       \* the type of event each of them handles
    MaxKept,      \* MAX_NOTIFICATIONS_PER_USER
    MaxAttempts,  \* WEBHOOK_MAX_RETRIES
    Ties,         \* whether rows can be saved in the same millisecond
    MaxTrouble    \* bound: handlers that break off, changes of settings and
                  \* removals of the job or the account

Types == {"EXECUTION_DONE", "EXECUTION_FAILED", "EXECUTION_DIFF"}

ASSUME NotificationsAssumption ==
    /\ IsFiniteSet(Handlers)
    /\ TypeOf \in [Handlers -> Types]
    /\ MaxKept \in Nat \ {0} /\ MaxAttempts \in Nat \ {0}
    /\ Ties \in BOOLEAN
    /\ MaxTrouble \in Nat

VARIABLES
    notes,       \* the rows of the notifications table
    createdAt,   \* when each row was saved; 0 if it was not
    clock,       \* the time of the last save
    read,        \* the rows marked as read
    user,        \* the account exists
    notifyByEmail,
    job,         \* the job exists
    enabled,     \* the types of event its notifyOn... flags ask for
    webhook,     \* the job has a webhookUrl
    pc,          \* the await each handler is at
    oldest,      \* the rows its trim has found
    attempt,     \* number of the webhook attempt it is at
    pushed,      \* handlers whose notification went to the sockets
    mailed,      \* handlers whose email was accepted
    posts,       \* how often the endpoint got each handler's payload
    client,      \* the client is away, in the user's room, or has loaded as well
    view,        \* the notifications it has been given since it connected
    faults, changes

tableVars    == <<notes, createdAt, clock, read>>
settingsVars == <<user, notifyByEmail, job, enabled, webhook>>
sentVars     == <<mailed, posts>>
outVars      == <<pushed, view, sentVars>>
vars == <<tableVars, settingsVars, pc, oldest, attempt, outVars, client, faults, changes>>

Over  == {"ended", "failed"}
Steps == {"idle", "fetchJob", "save", "find", "delete", "findWebhook", "post",
          "findUser", "mail"} \cup Over

TypeOK ==
    /\ notes \subseteq Handlers
    /\ createdAt \in [Handlers -> Nat]
    /\ clock \in Nat
    /\ read \subseteq notes
    /\ user \in BOOLEAN /\ notifyByEmail \in BOOLEAN
    /\ job \in BOOLEAN /\ enabled \subseteq Types /\ webhook \in BOOLEAN
    /\ pc \in [Handlers -> Steps]
    /\ oldest \in [Handlers -> SUBSET Handlers]
    /\ attempt \in [Handlers -> 0..MaxAttempts]
    /\ pushed \subseteq Handlers /\ mailed \subseteq Handlers
    /\ posts \in [Handlers -> 0..MaxAttempts]
    /\ client \in {"away", "joined", "loaded"} /\ view \subseteq Handlers
    /\ faults \in Nat /\ changes \in Nat /\ faults + changes <= MaxTrouble

Init ==
    /\ notes = {} /\ read = {} /\ clock = 0
    /\ createdAt = [h \in Handlers |-> 0]
    /\ user = TRUE /\ job = TRUE
    /\ notifyByEmail \in BOOLEAN /\ webhook \in BOOLEAN
    /\ enabled = Types
    /\ pc = [h \in Handlers |-> "idle"]
    /\ oldest = [h \in Handlers |-> {}]
    /\ attempt = [h \in Handlers |-> 0]
    /\ pushed = {} /\ mailed = {}
    /\ posts = [h \in Handlers |-> 0]
    /\ client = "away" /\ view = {}
    /\ faults = 0 /\ changes = 0
-----------------------------------------------------------------------------
\* One handler: notifyFromExecutionEvent and dispatchNotification.

Go(h, here, next) == pc[h] = here /\ pc' = [pc EXCEPT ![h] = next]

\* EventEmitter2 calls the listeners of the events one stretch of code emits;
\* each runs up to its first await.
Emit(S) ==
    /\ S # {} /\ \A h \in S : pc[h] = "idle"
    /\ pc' = [h \in Handlers |-> IF h \in S THEN "fetchJob" ELSE pc[h]]
    /\ UNCHANGED <<tableVars, settingsVars, oldest, attempt, outVars, client, faults,
                   changes>>

FetchJob(h) ==
    /\ Go(h, "fetchJob", IF job /\ TypeOf[h] \in enabled THEN "save" ELSE "ended")
    /\ UNCHANGED <<tableVars, settingsVars, oldest, attempt, outVars, client, faults, changes>>

SaveNotification(h) ==
    /\ Go(h, "save", "find")
    /\ user
    /\ \E now \in IF Ties THEN {clock, clock + 1} \ {0} ELSE {clock + 1} :
          /\ clock' = now
          /\ createdAt' = [createdAt EXCEPT ![h] = now]
    /\ notes' = notes \cup {h}
    /\ UNCHANGED <<read, settingsVars, oldest, attempt, outVars, client, faults, changes>>

\* The row's userId has lost its user.
SaveFails(h) ==
    /\ Go(h, "save", "failed")
    /\ ~user
    /\ UNCHANGED <<tableVars, settingsVars, oldest, attempt, outVars, client, faults, changes>>

\* Mutants: the query skips one row too many; it sorts the wrong way round.
SkippedOneMore(D) ==
    /\ Cardinality(notes \ D) = IF Cardinality(notes) < MaxKept + 1
                                THEN Cardinality(notes) ELSE MaxKept + 1
    /\ \A d \in D, k \in notes \ D : createdAt[d] <= createdAt[k]
SkippedAscending(D) ==
    /\ Cardinality(notes \ D) = IF Cardinality(notes) < MaxKept
                                THEN Cardinality(notes) ELSE MaxKept
    /\ \A d \in D, k \in notes \ D : createdAt[d] >= createdAt[k]

\* What is left of the newest-first list after MaxKept rows are skipped; rows
\* of the same moment come in any order.
Skipped(D) ==
    /\ Cardinality(notes \ D) = IF Cardinality(notes) < MaxKept
                                THEN Cardinality(notes) ELSE MaxKept
    /\ \A d \in D, k \in notes \ D : createdAt[d] <= createdAt[k]

\* Mutant: the push goes to the bare user id, a room that nobody has joined.
PushToBareId(h) == pushed' = pushed \cup {h} /\ UNCHANGED <<view, sentVars>>

\* The stretch after the trim's last await pushes to the sockets in the room.
Push(h) ==
    /\ pushed' = pushed \cup {h}
    /\ view' = IF client = "away" THEN view ELSE view \cup {h}
    /\ UNCHANGED sentVars

FindOldest(h) == \E D \in SUBSET notes :
    /\ Skipped(D)
    /\ oldest' = [oldest EXCEPT ![h] = D]
    /\ IF D = {}
       THEN Go(h, "find", "findWebhook") /\ Push(h)
       ELSE Go(h, "find", "delete") /\ UNCHANGED outVars
    /\ UNCHANGED <<tableVars, settingsVars, attempt, client, faults, changes>>

\* Mutant: the trim deletes whatever is over the limit when it gets there, as
\* many rows as it has counted before.
DeleteByCount(h) ==
    /\ Go(h, "delete", "findWebhook")
    /\ \E D \in SUBSET notes :
          /\ Cardinality(D) = IF Cardinality(oldest[h]) < Cardinality(notes)
                              THEN Cardinality(oldest[h]) ELSE Cardinality(notes)
          /\ \A d \in D, k \in notes \ D : createdAt[d] <= createdAt[k]
          /\ notes' = notes \ D
          /\ read' = read \ D
    /\ Push(h)
    /\ UNCHANGED <<createdAt, clock, settingsVars, oldest, attempt, client, faults, changes>>

\* deleteMany by id: rows that another trim has deleted are passed over.
DeleteOldest(h) ==
    /\ Go(h, "delete", "findWebhook")
    /\ notes' = notes \ oldest[h]
    /\ read' = read \ oldest[h]
    /\ Push(h)
    /\ UNCHANGED <<createdAt, clock, settingsVars, oldest, attempt, client, faults, changes>>

FindWebhook(h) ==
    /\ Go(h, "findWebhook", IF job /\ webhook THEN "post" ELSE "findUser")
    /\ attempt' = [attempt EXCEPT ![h] = IF job /\ webhook THEN 1 ELSE 0]
    /\ UNCHANGED <<tableVars, settingsVars, oldest, outVars, client, faults, changes>>

\* The endpoint gets the payload or not, and answers within the timeout or not.
Deliver(h, arrives) ==
    posts' = [posts EXCEPT ![h] = IF arrives THEN @ + 1 ELSE @]

Post(h) ==
    /\ Go(h, "post", "findUser")
    /\ Deliver(h, TRUE)
    /\ UNCHANGED <<tableVars, settingsVars, oldest, attempt, pushed, view, mailed,
                   client, faults, changes>>

\* Mutants of PostFails: the last error is thrown; one attempt too many.
PostFailsThrown(h, arrives) ==
    /\ Go(h, "post", IF attempt[h] < MaxAttempts THEN "post" ELSE "failed")
    /\ attempt' = [attempt EXCEPT ![h] = IF @ < MaxAttempts THEN @ + 1 ELSE @]
    /\ Deliver(h, arrives)
    /\ UNCHANGED <<tableVars, settingsVars, oldest, pushed, view, mailed, client,
                   faults, changes>>

PostFailsOnceMore(h, arrives) ==
    /\ Go(h, "post", IF attempt[h] <= MaxAttempts THEN "post" ELSE "findUser")
    /\ attempt' = [attempt EXCEPT ![h] = IF @ <= MaxAttempts THEN @ + 1 ELSE @]
    /\ Deliver(h, arrives)
    /\ UNCHANGED <<tableVars, settingsVars, oldest, pushed, view, mailed, client,
                   faults, changes>>

\* A late answer counts as a failure, so the payload can arrive once for each
\* attempt.  The last error is logged, not thrown.
PostFails(h, arrives) ==
    /\ Go(h, "post", IF attempt[h] < MaxAttempts THEN "post" ELSE "findUser")
    /\ attempt' = [attempt EXCEPT ![h] = IF @ < MaxAttempts THEN @ + 1 ELSE @]
    /\ Deliver(h, arrives)
    /\ UNCHANGED <<tableVars, settingsVars, oldest, pushed, view, mailed, client,
                   faults, changes>>

FindUser(h) ==
    /\ Go(h, "findUser", IF user /\ notifyByEmail THEN "mail" ELSE "ended")
    /\ UNCHANGED <<tableVars, settingsVars, oldest, attempt, outVars, client, faults, changes>>

SendMail(h) ==
    /\ Go(h, "mail", "ended")
    /\ mailed' = mailed \cup {h}
    /\ UNCHANGED <<tableVars, settingsVars, oldest, attempt, pushed, view, posts, client,
                   faults, changes>>

InFlight == {h \in Handlers : pc[h] \notin {"idle"} \cup Over}

\* An await of one handler rejects, or the process dies with all of them:
\* nothing resumes a handler.  The answer to a deleteMany can be lost after
\* the rows are gone.
Stop(S) ==
    /\ S # {} /\ S \subseteq InFlight
    /\ faults + Cardinality(S) + changes <= MaxTrouble
    /\ faults' = faults + Cardinality(S)
    /\ pc' = [h \in Handlers |-> IF h \in S THEN "failed" ELSE pc[h]]
    /\ \E Q \in SUBSET {h \in S : pc[h] = "delete"} :
          LET D == UNION {oldest[h] : h \in Q}
          IN  notes' = notes \ D /\ read' = read \ D
    /\ UNCHANGED <<createdAt, clock, settingsVars, oldest, attempt, outVars, client, changes>>

-----------------------------------------------------------------------------
\* The user.

\* markAsRead of a row that is gone throws; markAllAsRead takes what is there.
MarkAsRead(n) ==
    /\ n \in notes
    /\ read' = read \cup {n}
    /\ UNCHANGED <<notes, createdAt, clock, settingsVars, pc, oldest, attempt,
                   outVars, client, faults, changes>>
MarkAllAsRead ==
    /\ read' = notes
    /\ UNCHANGED <<notes, createdAt, clock, settingsVars, pc, oldest, attempt,
                   outVars, client, faults, changes>>

\* handleConnection finds a token and joins the room.
Connect ==
    /\ client = "away"
    /\ client' = "joined" /\ view' = {}
    /\ UNCHANGED <<tableVars, settingsVars, pc, oldest, attempt, pushed, sentVars,
                   faults, changes>>

\* getByUser: the newest MaxKept.
Load ==
    /\ client = "joined"
    /\ client' = "loaded"
    /\ \E D \in SUBSET notes : Skipped(D) /\ view' = view \cup (notes \ D)
    /\ UNCHANGED <<tableVars, settingsVars, pc, oldest, attempt, pushed, sentVars,
                   faults, changes>>

\* Socket.IO drops what is pushed while the client is away.
Disconnect ==
    /\ client # "away"
    /\ client' = "away" /\ view' = {}
    /\ UNCHANGED <<tableVars, settingsVars, pc, oldest, attempt, pushed, sentVars,
                   faults, changes>>

Change ==
    /\ faults + changes < MaxTrouble
    /\ changes' = changes + 1
    /\ UNCHANGED <<createdAt, clock, pc, oldest, attempt, outVars, client, faults>>

\* A notifyOn flag or the webhookUrl changes; one of them at a time will do.  No
\* DTO names the webhookUrl of the row: it is set by other means, if at all.
UpdateJob ==
    /\ job
    /\ Change
    /\ \/ /\ \E t \in Types : enabled' = (enabled \cup {t}) \ (enabled \cap {t})
          /\ UNCHANGED webhook
       \/ webhook' = ~webhook /\ UNCHANGED enabled
    /\ UNCHANGED <<notes, read, user, notifyByEmail, job>>

UpdateNotificationSettings ==
    /\ user
    /\ Change
    /\ notifyByEmail' = ~notifyByEmail
    /\ UNCHANGED <<notes, read, user, job, enabled, webhook>>

\* Notifications carry the job's id without a foreign key and outlive it.
RemoveJob ==
    /\ job
    /\ Change
    /\ job' = FALSE
    /\ UNCHANGED <<notes, read, user, notifyByEmail, enabled, webhook>>

DeleteAccount ==
    /\ user
    /\ Change
    /\ user' = FALSE /\ job' = FALSE
    /\ notes' = {} /\ read' = {}
    /\ UNCHANGED <<notifyByEmail, enabled, webhook>>

-----------------------------------------------------------------------------
Handle(h) ==
    \/ FetchJob(h)
    \/ SaveNotification(h)
    \/ SaveFails(h)
    \/ FindOldest(h)
    \/ DeleteOldest(h)
    \/ FindWebhook(h)
    \/ Post(h)
    \/ \E arrives \in BOOLEAN : PostFails(h, arrives)
    \/ FindUser(h)
    \/ SendMail(h)

Next ==
    \/ \E h \in Handlers : Handle(h)
    \/ \E S \in SUBSET Handlers : Emit(S) \/ Stop(S)
    \/ Connect \/ Load \/ Disconnect
    \/ \E n \in Handlers : MarkAsRead(n)
    \/ MarkAllAsRead
    \/ UpdateJob
    \/ UpdateNotificationSettings
    \/ RemoveJob
    \/ DeleteAccount

Spec == Init /\ [][Next]_vars

\* Every await of a handler ends: axios and the mail client have timeouts.
FairSpec == Spec /\ \A h \in Handlers : WF_vars(Handle(h))
-----------------------------------------------------------------------------
\* Properties.

\* However the handlers interleave, the table holds at most MaxKept rows, one
\* more for every handler between its save and the end of its trim, and one
\* for every handler that broke off (trimOldNotifications).
Trimming == {h \in Handlers : pc[h] \in {"find", "delete"}}
NotesBounded == Cardinality(notes) <= MaxKept + Cardinality(Trimming) + faults

\* No trim takes a row that is among the newest MaxKept the user was ever
\* sent, although it deletes what an earlier query has found.
NotOlder(h) == {k \in Handlers \ {h} : createdAt[k] >= createdAt[h]}
NewestKept == \A h \in Handlers :
    /\ user /\ createdAt[h] > 0
    /\ Cardinality(NotOlder(h)) < MaxKept
    => h \in notes

\* A client that joins its room before it loads the inbox misses nothing: each
\* row that is there has been pushed or loaded, or is about to be pushed,
\* unless its handler broke off or there were newer ones for the whole inbox.
\* The row is saved before it is pushed, and the push takes in whoever is in
\* the room by then (handleConnection, dispatchNotification, getByUser).
ClientMissesNothing ==
    client = "loaded" => \A h \in notes :
        \/ h \in view
        \/ pc[h] \in {"find", "delete", "failed"}
        \/ Cardinality(NotOlder(h)) >= MaxKept

\* A user who keeps email on is sent every notification over the sockets and by
\* mail in the end, even when the webhook fails on every attempt: the retries
\* end and postWithRetry swallows the last error.
MailedInSpiteOfWebhook == \A h \in Handlers :
    pc[h] = "save" ~> \/ h \in pushed /\ h \in mailed
                      \/ ~notifyByEmail \/ changes + faults > 0

\* Without ties, GET /notifications shows the newest MaxKept of all
\* notifications at every moment, as if no trimming ever took place.
Inbox == INSTANCE NotificationInbox WITH
    Notes <- Handlers, Kept <- MaxKept, rank <- createdAt, account <- user,
    inbox <- {n \in notes : Cardinality({m \in notes : createdAt[m] > createdAt[n]})
                            < MaxKept}
InboxShowsNewest == Inbox!Spec
=============================================================================
