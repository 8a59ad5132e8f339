-------------------------- MODULE Notifications_proofs --------------------------
(***************************************************************************)
(* Proofs about Notifications, for any finite set of handlers, any limit   *)
(* and any number of faults.                                               *)
(*                                                                         *)
(* The bound on the table is not inductive: a trim deletes what an earlier *)
(* query has found, and two trims may have found the same rows.  The       *)
(* invariant therefore bounds what is left when any set of the pending     *)
(* deletions is done (Bounded).  That the newest rows survive rests on     *)
(* each pending deletion holding rows that were already too old when they  *)
(* were found, and on newer rows only ever being added (FoundIsOld).       *)
(***************************************************************************)
EXTENDS Notifications, FiniteSetTheorems, TLAPS

USE NotificationsAssumption

Deleting == {h \in Handlers : pc[h] = "delete"}
Pending(S) == UNION {oldest[k] : k \in S}

\* A row that has never been among the newest, or no longer is.
Old(h) == Cardinality(NotOlder(h)) >= MaxKept

Bounded == \A S \in SUBSET Deleting :
    Cardinality(notes \ Pending(S)) <= MaxKept + Cardinality(Trimming \ S) + faults

\* Rows carry the time of their save, which no later save goes back behind.
Times == \A h \in Handlers :
    /\ createdAt[h] <= clock
    /\ h \in notes => createdAt[h] > 0
    /\ pc[h] \in {"idle", "fetchJob", "save"} => createdAt[h] = 0

FoundIsOld == \A k \in Deleting : \A h \in oldest[k] :
    createdAt[h] > 0 /\ (user => Old(h))

\* An attempt delivers the payload at most once.
Before == {"idle", "fetchJob", "save", "find", "delete", "findWebhook"}
PostsOK == \A h \in Handlers :
    /\ pc[h] = "post" => posts[h] < attempt[h]
    /\ pc[h] \in Before => posts[h] = 0

Inv ==
    /\ TypeOK
    /\ PostsOK
    /\ Bounded
    /\ Times
    /\ FoundIsOld
    /\ NewestKept
    /\ ClientMissesNothing
-----------------------------------------------------------------------------
\* Counting.

LEMMA Finite ==
    ASSUME NEW S \in SUBSET Handlers
    PROVE  IsFiniteSet(S) /\ Cardinality(S) \in Nat
BY FS_Subset, FS_CardinalityType

LEMMA Smaller ==
    ASSUME NEW S \in SUBSET Handlers, NEW T \in SUBSET S
    PROVE  Cardinality(T) <= Cardinality(S)
BY Finite, FS_Subset

LEMMA OneMore ==
    ASSUME NEW S \in SUBSET Handlers, NEW h \in Handlers
    PROVE  /\ Cardinality(S \cup {h}) <= Cardinality(S) + 1
           /\ h \notin S => Cardinality(S \cup {h}) = Cardinality(S) + 1
<1>1. IsFiniteSet(S) /\ Cardinality(S) \in Nat
  BY Finite
<1>2. Cardinality(S \cup {h}) = IF h \in S THEN Cardinality(S) ELSE Cardinality(S) + 1
  BY <1>1, FS_AddElement
<1> QED BY <1>1, <1>2

LEMMA AtMostBoth ==
    ASSUME NEW S \in SUBSET Handlers, NEW T \in SUBSET Handlers
    PROVE  Cardinality(S \cup T) <= Cardinality(S) + Cardinality(T)
<1>1. /\ IsFiniteSet(S) /\ IsFiniteSet(T)
      /\ Cardinality(S) \in Nat /\ Cardinality(T) \in Nat /\ Cardinality(S \cap T) \in Nat
  BY Finite
<1>2. Cardinality(S \cup T) = Cardinality(S) + Cardinality(T) - Cardinality(S \cap T)
  BY <1>1, FS_Union
<1> QED BY <1>1, <1>2

\* The rows that come after the newest MaxKept.
LEMMA SkippedAreOld ==
    ASSUME TypeOK, Times, NEW D \in SUBSET notes, Skipped(D)
    PROVE  /\ Cardinality(notes \ D) <= MaxKept
           /\ \A d \in D : createdAt[d] > 0 /\ Old(d)
<1>1. /\ Cardinality(notes) \in Nat
      /\ Cardinality(notes \ D) = IF Cardinality(notes) < MaxKept
                                  THEN Cardinality(notes) ELSE MaxKept
  BY Finite DEF Skipped, TypeOK
<1>2. ASSUME NEW d \in D PROVE createdAt[d] > 0 /\ Old(d)
  <2>1. notes \ D \subseteq notes \ {d} /\ notes \ {d} \subseteq Handlers
    BY DEF TypeOK
  <2>2. Cardinality(notes \ {d}) = Cardinality(notes) - 1
    BY <1>2, Finite, FS_RemoveElement DEF TypeOK
  <2>3. Cardinality(notes \ D) <= Cardinality(notes \ {d})
    BY <2>1, Smaller
  <2>4. Cardinality(notes \ D) = MaxKept
    BY <1>1, <2>2, <2>3
  <2>5. notes \ D \subseteq NotOlder(d)
    BY <1>2 DEF Skipped, NotOlder, TypeOK
  <2>6. Cardinality(notes \ D) <= Cardinality(NotOlder(d))
    BY <2>5, Smaller DEF NotOlder
  <2>7. createdAt[d] > 0
    BY <1>2 DEF Times, TypeOK
  <2> QED BY <2>4, <2>6, <2>7 DEF Old
<1> QED BY <1>1, <1>2

\* Times never go back, so what is old stays old.
LEMMA StaysOld ==
    ASSUME TypeOK, NEW h \in Handlers, createdAt'[h] = createdAt[h],
           \A k \in Handlers : createdAt'[k] \in Nat /\ createdAt'[k] >= createdAt[k],
           Old(h)
    PROVE  Old(h)'
<1>1. NotOlder(h) \subseteq NotOlder(h)'
  BY DEF NotOlder, TypeOK
<1>2. NotOlder(h)' \in SUBSET Handlers
  BY DEF NotOlder
<1>3. Cardinality(NotOlder(h)) <= Cardinality(NotOlder(h)')
  BY <1>1, <1>2, Smaller
<1>4. Cardinality(NotOlder(h)) \in Nat /\ Cardinality(NotOlder(h)') \in Nat
  BY <1>2, Finite DEF NotOlder
<1> QED BY <1>3, <1>4 DEF Old

LEMMA AgeIsNat ==
    ASSUME NEW h \in Handlers
    PROVE  Cardinality(NotOlder(h)) \in Nat /\ Cardinality(NotOlder(h)') \in Nat
<1>1. NotOlder(h) \in SUBSET Handlers /\ NotOlder(h)' \in SUBSET Handlers
  BY DEF NotOlder
<1> QED BY <1>1, Finite
-----------------------------------------------------------------------------
LEMMA InitInv == Init => Inv
<1> SUFFICES ASSUME Init PROVE Inv
  OBVIOUS
<1>1. TypeOK
  BY DEF Init, TypeOK, Types, Steps, Over
<1>2. Deleting = {} /\ Trimming = {}
  BY DEF Init, Deleting, Trimming
<1>3. Bounded
  <2>1. ASSUME NEW S \in SUBSET Deleting
        PROVE  Cardinality(notes \ Pending(S)) <= MaxKept + Cardinality(Trimming \ S) + faults
    BY <1>2, FS_EmptySet DEF Init
  <2> QED BY <2>1 DEF Bounded
<1>4. Times /\ FoundIsOld /\ NewestKept /\ ClientMissesNothing
  BY <1>2 DEF Init, Times, FoundIsOld, NewestKept, ClientMissesNothing
<1>5. PostsOK
  BY DEF Init, PostsOK, Before
<1> QED BY <1>1, <1>3, <1>4, <1>5 DEF Inv
-----------------------------------------------------------------------------
\* One lemma per kind of step.  Most steps leave the table and what the trims
\* have found alone; Quiet collects what such a step may change.

\* Rows, their times and the trims at their deletion stay as they are, and no
\* handler leaves a trim, nor a client its inbox, without a push.
LEMMA QuietInv ==
    ASSUME Inv, TypeOK', PostsOK',
           UNCHANGED <<notes, createdAt, clock, oldest, faults, view>>,
           user' => user,
           \A h \in Handlers :
              /\ pc'[h] = "delete" <=> pc[h] = "delete"
              /\ pc'[h] = "find" <=> pc[h] = "find"
              /\ pc[h] = "failed" => pc'[h] = "failed"
              /\ pc'[h] \in {"idle", "fetchJob", "save"}
                    => pc[h] \in {"idle", "fetchJob", "save"},
           client' = client
    PROVE  Inv'
<1>1. Deleting' = Deleting /\ Trimming' = Trimming
  BY DEF Deleting, Trimming
<1>2. \A h : NotOlder(h)' = NotOlder(h)
  BY DEF NotOlder
<1>3. Bounded'
  BY <1>1 DEF Inv, Bounded, Pending
<1>4. Times'
  BY DEF Inv, Times
<1>5. FoundIsOld'
  BY <1>1, <1>2 DEF Inv, FoundIsOld, Old
<1>6. NewestKept'
  BY <1>2 DEF Inv, NewestKept
<1>7. ClientMissesNothing'
  BY <1>2 DEF Inv, ClientMissesNothing, TypeOK
<1> QED BY <1>3, <1>4, <1>5, <1>6, <1>7 DEF Inv

LEMMA QuietStepsInv ==
    ASSUME Inv, NEW h \in Handlers,
           \/ FetchJob(h) \/ SaveFails(h) \/ FindWebhook(h) \/ Post(h)
           \/ \E arrives \in BOOLEAN : PostFails(h, arrives)
           \/ FindUser(h) \/ SendMail(h)
    PROVE  Inv'
<1>1. /\ UNCHANGED <<notes, createdAt, clock, read, settingsVars, oldest, pushed, view,
                     client, faults, changes>>
      /\ \E next \in {"save", "ended", "failed", "post", "findUser", "mail"} :
            /\ pc' = [pc EXCEPT ![h] = next]
            /\ next = "save" => pc[h] = "fetchJob"
            /\ pc[h] \in {"fetchJob", "save", "findWebhook", "post", "findUser", "mail"}
  BY DEF FetchJob, SaveFails, FindWebhook, Post, PostFails, FindUser, SendMail, Go, Deliver,
         tableVars, outVars, sentVars
<1>2. attempt' \in [Handlers -> 0..MaxAttempts]
  <2>1. 1 \in 0..MaxAttempts /\ 0 \in 0..MaxAttempts
    OBVIOUS
  <2>2. \A a \in 0..MaxAttempts : (IF a < MaxAttempts THEN a + 1 ELSE a) \in 0..MaxAttempts
    OBVIOUS
  <2> QED
    BY <2>1, <2>2 DEF Inv, TypeOK, FetchJob, SaveFails, FindWebhook, Post, PostFails,
                      FindUser, SendMail
<1>3. mailed' \subseteq Handlers
  BY DEF Inv, TypeOK, FetchJob, SaveFails, FindWebhook, Post, PostFails, FindUser, SendMail,
         outVars, sentVars, Deliver
<1>4. posts' \in [Handlers -> 0..MaxAttempts] /\ PostsOK'
  <2>1. CASE FetchJob(h) \/ SaveFails(h) \/ FindUser(h) \/ SendMail(h)
    BY <2>1, <1>1 DEF Inv, TypeOK, PostsOK, Before, FetchJob, SaveFails, FindUser, SendMail,
                      outVars, sentVars, Go
  <2>2. CASE FindWebhook(h)
    BY <2>2 DEF Inv, TypeOK, PostsOK, Before, FindWebhook, outVars, sentVars, Go
  <2>3. CASE Post(h)
    <3>1. posts[h] + 1 \in 0..MaxAttempts
      BY <2>3 DEF Inv, TypeOK, PostsOK, Post, Go
    <3> QED BY <2>3, <3>1 DEF Inv, TypeOK, PostsOK, Before, Post, Go, Deliver
  <2>4. CASE \E arrives \in BOOLEAN : PostFails(h, arrives)
    <3>1. /\ posts[h] + 1 \in 0..MaxAttempts /\ posts[h] \in 0..MaxAttempts
          /\ posts[h] + 1 <= attempt[h] /\ attempt[h] \in 0..MaxAttempts
          /\ pc[h] = "post"
      BY <2>4 DEF Inv, TypeOK, PostsOK, PostFails, Go
    <3>2. PICK v \in {posts[h], posts[h] + 1} : posts' = [posts EXCEPT ![h] = v]
      BY <2>4 DEF PostFails, Deliver
    <3>3. \A q \in Handlers \ {h} : posts'[q] = posts[q] /\ attempt'[q] = attempt[q]
                                  /\ pc'[q] = pc[q]
      BY <2>4, <3>2 DEF PostFails, Go, Inv, TypeOK
    <3>4. pc'[h] = "post" => attempt'[h] = attempt[h] + 1
      BY <2>4 DEF PostFails, Go, Inv, TypeOK
    <3>5. pc'[h] \in {"post", "findUser"}
      BY <2>4 DEF PostFails, Go, Inv, TypeOK
    <3> QED BY <3>1, <3>2, <3>3, <3>4, <3>5 DEF Inv, TypeOK, PostsOK, Before
  <2> QED BY <2>1, <2>2, <2>3, <2>4
<1>5. TypeOK'
  BY <1>1, <1>2, <1>3, <1>4 DEF Inv, TypeOK, Steps, Over, settingsVars
<1> QED BY <1>1, <1>4, <1>5, QuietInv DEF Inv, TypeOK, settingsVars

LEMMA EmitInv == ASSUME Inv, NEW S \in SUBSET Handlers, Emit(S) PROVE Inv'
<1>1. TypeOK'
  BY DEF Inv, TypeOK, Emit, Steps, Over, tableVars, settingsVars, outVars, sentVars
<1>2. PostsOK'
  BY DEF Inv, TypeOK, PostsOK, Before, Emit, outVars, sentVars
<1> QED
  BY <1>1, <1>2, QuietInv DEF Inv, TypeOK, Emit, tableVars, settingsVars, outVars

LEMMA SettingsInv ==
    ASSUME Inv,
           \/ \E n \in Handlers : MarkAsRead(n)
           \/ MarkAllAsRead \/ UpdateJob \/ UpdateNotificationSettings \/ RemoveJob
    PROVE  Inv'
<1>1. /\ UNCHANGED <<notes, createdAt, clock, user, pc, oldest, attempt, outVars, client, faults>>
      /\ read' \subseteq notes
      /\ notifyByEmail' \in BOOLEAN /\ job' \in BOOLEAN /\ webhook' \in BOOLEAN
  BY DEF Inv, TypeOK, MarkAsRead, MarkAllAsRead, UpdateJob, UpdateNotificationSettings,
         RemoveJob, Change, settingsVars
<1>2. enabled' \subseteq Types
  BY DEF Inv, TypeOK, MarkAsRead, MarkAllAsRead, UpdateJob, UpdateNotificationSettings,
         RemoveJob, settingsVars
<1>3. changes' \in Nat /\ faults' + changes' <= MaxTrouble
  BY DEF Inv, TypeOK, MarkAsRead, MarkAllAsRead, UpdateJob, UpdateNotificationSettings,
         RemoveJob, Change
<1>4. TypeOK'
  BY <1>1, <1>2, <1>3 DEF Inv, TypeOK, outVars, sentVars
<1>5. PostsOK'
  BY <1>1 DEF Inv, PostsOK, outVars, sentVars
<1> QED BY <1>1, <1>4, <1>5, QuietInv DEF Inv, TypeOK, outVars

\* A save is the newest row there is; whatever was old has one more above it.
LEMMA SaveInv == ASSUME Inv, NEW h \in Handlers, SaveNotification(h) PROVE Inv'
<1>1. PICK now \in Nat : /\ now > 0 /\ now >= clock /\ clock' = now
                         /\ createdAt' = [createdAt EXCEPT ![h] = now]
  <2>1. clock \in Nat
    BY DEF Inv, TypeOK
  <2>2. PICK t \in IF Ties THEN {clock, clock + 1} \ {0} ELSE {clock + 1} :
               clock' = t /\ createdAt' = [createdAt EXCEPT ![h] = t]
    BY DEF SaveNotification
  <2>3. t \in {clock, clock + 1} /\ t # 0
    BY <2>1, <2>2
  <2>4. t \in Nat /\ t > 0 /\ t >= clock
    BY <2>1, <2>3
  <2> QED BY <2>2, <2>4
<1>2. /\ pc[h] = "save" /\ pc' = [pc EXCEPT ![h] = "find"] /\ notes' = notes \cup {h}
      /\ UNCHANGED <<read, settingsVars, oldest, attempt, outVars, client, faults, changes>>
  BY DEF SaveNotification, Go
<1>3. createdAt[h] = 0 /\ h \notin notes
  BY <1>2 DEF Inv, Times, TypeOK
<1>4. TypeOK'
  BY <1>1, <1>2 DEF Inv, TypeOK, Steps, settingsVars, outVars, sentVars
<1>5. PostsOK'
  BY <1>2 DEF Inv, TypeOK, PostsOK, Before, outVars, sentVars
<1>6. Deleting' = Deleting /\ Trimming' = Trimming \cup {h} /\ h \notin Trimming
  BY <1>2 DEF Inv, TypeOK, Deleting, Trimming
<1>7. Bounded'
  <2> SUFFICES ASSUME NEW S \in SUBSET Deleting
               PROVE  Cardinality(notes' \ Pending(S)) <= MaxKept + Cardinality(Trimming' \ S)
                                                          + faults
    BY <1>2, <1>6 DEF Bounded, Pending
  <2>1. h \notin S
    BY <1>2 DEF Deleting
  <2>2. Trimming' \ S = (Trimming \ S) \cup {h} /\ h \notin Trimming \ S
    BY <1>6, <2>1
  <2>3. Cardinality(Trimming' \ S) = Cardinality(Trimming \ S) + 1
    BY <2>2, OneMore DEF Trimming
  <2>4. notes' \ Pending(S) \in SUBSET ((notes \ Pending(S)) \cup {h})
    BY <1>2
  <2>5. notes \ Pending(S) \in SUBSET Handlers
    BY DEF Inv, TypeOK
  <2>6. Cardinality(notes' \ Pending(S)) <= Cardinality((notes \ Pending(S)) \cup {h})
    BY <2>4, <2>5, Smaller
  <2>7. Cardinality((notes \ Pending(S)) \cup {h}) <= Cardinality(notes \ Pending(S)) + 1
    BY <2>5, OneMore
  <2>8. Cardinality(notes \ Pending(S)) <= MaxKept + Cardinality(Trimming \ S) + faults
    BY DEF Inv, Bounded
  <2>9. /\ Cardinality(notes' \ Pending(S)) \in Nat /\ Cardinality(notes \ Pending(S)) \in Nat
        /\ Cardinality((notes \ Pending(S)) \cup {h}) \in Nat
        /\ Cardinality(Trimming \ S) \in Nat /\ faults \in Nat
    BY <1>2, <2>5, Finite DEF Inv, TypeOK, Trimming
  <2> QED BY <2>3, <2>6, <2>7, <2>8, <2>9
<1>8. Times'
  BY <1>1, <1>2 DEF Inv, TypeOK, Times
<1>9. \A q \in Handlers \ {h} : Old(q) => Old(q)'
  <2>1. \A k \in Handlers : createdAt'[k] \in Nat /\ createdAt'[k] >= createdAt[k]
    BY <1>1, <1>3 DEF Inv, TypeOK
  <2> QED BY <1>1, <2>1, StaysOld DEF Inv, TypeOK
<1>10. FoundIsOld'
  <2> SUFFICES ASSUME NEW k \in Deleting, NEW q \in oldest[k]
               PROVE  createdAt'[q] > 0 /\ (user => Old(q)')
    BY <1>2, <1>6 DEF FoundIsOld, settingsVars
  <2>1. q \in Handlers /\ createdAt[q] > 0 /\ (user => Old(q))
    BY DEF Inv, TypeOK, FoundIsOld, Deleting
  <2> QED BY <1>1, <1>3, <1>9, <2>1 DEF Inv, TypeOK
<1>11. NewestKept'
  <2> SUFFICES ASSUME NEW q \in Handlers, user', createdAt'[q] > 0,
                      Cardinality(NotOlder(q)') < MaxKept
               PROVE  q \in notes'
    BY DEF NewestKept
  <2>1. ASSUME q # h PROVE q \in notes
    <3>1. ~Old(q)
      BY <1>9, <2>1, AgeIsNat DEF Old
    <3> QED BY <1>1, <1>2, <2>1, <3>1, AgeIsNat DEF Inv, TypeOK, NewestKept, Old, settingsVars
  <2> QED BY <1>2, <2>1
<1>12. ClientMissesNothing'
  <2> SUFFICES ASSUME client' = "loaded", NEW q \in notes'
               PROVE  \/ q \in view'
                      \/ pc'[q] \in {"find", "delete", "failed"}
                      \/ Old(q)'
    BY DEF ClientMissesNothing, Old
  <2>1. CASE q = h
    BY <1>2, <2>1 DEF Inv, TypeOK
  <2>2. CASE q # h
    <3>1. q \in notes /\ q \in Handlers /\ pc'[q] = pc[q]
      BY <1>2, <2>2 DEF Inv, TypeOK
    <3> QED BY <1>2, <1>9, <2>2, <3>1 DEF Inv, ClientMissesNothing, Old, outVars
  <2> QED BY <2>1, <2>2
<1> QED BY <1>4, <1>5, <1>7, <1>8, <1>10, <1>11, <1>12 DEF Inv

\* A step that saves no row keeps what is old old.
LEMMA OldUnchanged == ASSUME createdAt' = createdAt PROVE \A h : Old(h)' <=> Old(h)
BY DEF Old, NotOlder

\* The trim either finds the rows after the newest MaxKept, or has nothing to
\* delete because there are no more than that.
LEMMA FindOldestInv == ASSUME Inv, NEW h \in Handlers, FindOldest(h) PROVE Inv'
<1>1. PICK D \in SUBSET notes :
          /\ Skipped(D) /\ oldest' = [oldest EXCEPT ![h] = D]
          /\ \/ D = {} /\ pc' = [pc EXCEPT ![h] = "findWebhook"] /\ Push(h)
             \/ D # {} /\ pc' = [pc EXCEPT ![h] = "delete"] /\ UNCHANGED outVars
  BY DEF FindOldest, Go
<1>2. /\ pc[h] = "find"
      /\ UNCHANGED <<notes, createdAt, clock, read, settingsVars, attempt, mailed, posts, client,
                     faults, changes>>
  BY DEF FindOldest, Go, Push, outVars, sentVars, tableVars
<1>3. /\ Cardinality(notes \ D) <= MaxKept
      /\ \A d \in D : createdAt[d] > 0 /\ Old(d)
  BY <1>1, SkippedAreOld DEF Inv
<1>4. /\ pushed' \subseteq Handlers /\ view' \subseteq Handlers /\ view \subseteq view'
      /\ D = {} /\ client # "away" => h \in view'
  BY <1>1 DEF Inv, TypeOK, Push, outVars
<1>5. TypeOK'
  BY <1>1, <1>2, <1>4 DEF Inv, TypeOK, Steps, settingsVars
<1>6. PostsOK'
  BY <1>1, <1>2 DEF Inv, TypeOK, PostsOK, Before
<1>7. Bounded'
  <2> SUFFICES ASSUME NEW S \in SUBSET (Deleting')
               PROVE  Cardinality(notes \ Pending(S)') <= MaxKept + Cardinality(Trimming' \ S)
                                                          + faults
    BY <1>2 DEF Bounded
  <2>1. /\ Cardinality(Trimming' \ S) \in Nat /\ faults \in Nat
        /\ Cardinality(notes \ Pending(S)') \in Nat /\ Cardinality(notes \ D) \in Nat
    BY Finite DEF Inv, TypeOK, Trimming
  <2>2. CASE D = {} \/ h \in S
    <3>1. notes \ Pending(S)' \in SUBSET (notes \ D)
      BY <1>1, <2>2 DEF Pending, Inv, TypeOK
    <3>2. Cardinality(notes \ Pending(S)') <= Cardinality(notes \ D)
      BY <3>1, Smaller DEF Inv, TypeOK
    <3> QED BY <1>3, <2>1, <3>2
  <2>3. CASE D # {} /\ h \notin S
    <3>1. S \in SUBSET Deleting /\ Pending(S)' = Pending(S) /\ Trimming' = Trimming
      BY <1>1, <1>2, <2>3 DEF Inv, TypeOK, Deleting, Trimming, Pending
    <3> QED BY <3>1 DEF Inv, Bounded
  <2> QED BY <2>2, <2>3
<1>8. Times'
  BY <1>1, <1>2 DEF Inv, TypeOK, Times
<1>9. \A q : Old(q)' <=> Old(q)
  BY <1>2, OldUnchanged
<1>10. FoundIsOld'
  <2> SUFFICES ASSUME NEW k \in Handlers, pc'[k] = "delete", NEW q \in oldest'[k]
               PROVE  createdAt[q] > 0 /\ (user => Old(q))
    BY <1>2, <1>9 DEF FoundIsOld, Deleting, settingsVars
  <2>1. CASE k = h
    BY <1>1, <1>3, <2>1 DEF Inv, TypeOK
  <2>2. CASE k # h
    BY <1>1, <2>2 DEF Inv, TypeOK, FoundIsOld, Deleting
  <2> QED BY <2>1, <2>2
<1>11. NewestKept'
  BY <1>2 DEF Inv, NewestKept, NotOlder, settingsVars
<1>12. ClientMissesNothing'
  BY <1>1, <1>2, <1>4, <1>9 DEF Inv, TypeOK, ClientMissesNothing, Old
<1> QED BY <1>5, <1>6, <1>7, <1>8, <1>10, <1>11, <1>12 DEF Inv

\* What is left is what the bound already allowed for with this deletion done.
LEMMA DeleteOldestInv == ASSUME Inv, NEW h \in Handlers, DeleteOldest(h) PROVE Inv'
<1>1. /\ pc[h] = "delete" /\ pc' = [pc EXCEPT ![h] = "findWebhook"]
      /\ notes' = notes \ oldest[h] /\ read' = read \ oldest[h] /\ Push(h)
      /\ UNCHANGED <<createdAt, clock, settingsVars, oldest, attempt, mailed, posts, client,
                     faults, changes>>
  BY DEF DeleteOldest, Go, Push, sentVars
<1>2. /\ pushed' \subseteq Handlers /\ view' \subseteq Handlers /\ view \subseteq view'
      /\ client # "away" => h \in view'
  BY <1>1 DEF Inv, TypeOK, Push
<1>3. TypeOK'
  BY <1>1, <1>2 DEF Inv, TypeOK, Steps, settingsVars
<1>4. PostsOK'
  BY <1>1 DEF Inv, TypeOK, PostsOK, Before
<1>5. Bounded'
  <2> SUFFICES ASSUME NEW S \in SUBSET (Deleting')
               PROVE  Cardinality(notes' \ Pending(S)) <= MaxKept + Cardinality(Trimming' \ S)
                                                          + faults
    BY <1>1 DEF Bounded, Pending
  <2>1. S \cup {h} \in SUBSET Deleting /\ notes' \ Pending(S) = notes \ Pending(S \cup {h})
    BY <1>1 DEF Inv, TypeOK, Deleting, Pending
  <2>2. Trimming' \ S = Trimming \ (S \cup {h})
    BY <1>1 DEF Inv, TypeOK, Trimming
  <2> QED BY <2>1, <2>2 DEF Inv, Bounded
<1>6. Times'
  BY <1>1 DEF Inv, TypeOK, Times
<1>7. \A q : Old(q)' <=> Old(q)
  BY <1>1, OldUnchanged
<1>8. FoundIsOld'
  <2>1. Deleting' \subseteq Deleting
    BY <1>1 DEF Inv, TypeOK, Deleting
  <2> QED BY <1>1, <1>7, <2>1 DEF Inv, FoundIsOld, settingsVars
<1>9. NewestKept'
  <2> SUFFICES ASSUME NEW q \in Handlers, user, createdAt[q] > 0,
                      Cardinality(NotOlder(q)) < MaxKept
               PROVE  q \notin oldest[h] /\ q \in notes
    BY <1>1 DEF NewestKept, NotOlder, settingsVars
  <2>1. ~Old(q)
    BY AgeIsNat DEF Old
  <2> QED BY <1>1, <2>1 DEF Inv, FoundIsOld, Deleting, NewestKept
<1>10. ClientMissesNothing'
  BY <1>1, <1>2, <1>7 DEF Inv, TypeOK, ClientMissesNothing, Old
<1> QED BY <1>3, <1>4, <1>5, <1>6, <1>8, <1>9, <1>10 DEF Inv

\* Every handler that breaks off in a trim adds one to the faults; what it has
\* deleted is what one of the pending deletions would have taken.
LEMMA StopInv == ASSUME Inv, NEW B \in SUBSET Handlers, Stop(B) PROVE Inv'
<1>1. PICK Q \in SUBSET {h \in B : pc[h] = "delete"} :
          notes' = notes \ Pending(Q) /\ read' = read \ Pending(Q)
  BY DEF Stop, Pending
<1>2. /\ B \subseteq InFlight /\ faults' = faults + Cardinality(B)
      /\ faults + Cardinality(B) + changes <= MaxTrouble
      /\ pc' = [h \in Handlers |-> IF h \in B THEN "failed" ELSE pc[h]]
      /\ UNCHANGED <<createdAt, clock, settingsVars, oldest, attempt, outVars, client, changes>>
  BY DEF Stop
<1>3. Cardinality(B) \in Nat /\ faults \in Nat /\ faults' \in Nat
  BY <1>2, Finite DEF Inv, TypeOK
<1>4. TypeOK'
  BY <1>1, <1>2, <1>3 DEF Inv, TypeOK, Steps, Over, settingsVars, outVars, sentVars
<1>5. PostsOK'
  BY <1>2 DEF Inv, TypeOK, PostsOK, Before, outVars, sentVars
<1>6. Bounded'
  <2> SUFFICES ASSUME NEW S \in SUBSET (Deleting')
               PROVE  Cardinality(notes' \ Pending(S)) <= MaxKept + Cardinality(Trimming' \ S)
                                                          + faults'
    BY <1>2 DEF Bounded, Pending
  <2>1. S \cup Q \in SUBSET Deleting /\ notes' \ Pending(S) = notes \ Pending(S \cup Q)
    BY <1>1, <1>2 DEF Deleting, Pending
  <2>2. Trimming \ (S \cup Q) \in SUBSET ((Trimming' \ S) \cup B)
    BY <1>2 DEF Trimming
  <2>3. Trimming' \ S \in SUBSET Handlers /\ Trimming \ (S \cup Q) \in SUBSET Handlers
        /\ notes \ Pending(S \cup Q) \in SUBSET Handlers
    BY DEF Trimming, Inv, TypeOK
  <2>4. Cardinality((Trimming' \ S) \cup B) <= Cardinality(Trimming' \ S) + Cardinality(B)
    BY <2>3, AtMostBoth
  <2>5. Cardinality(Trimming \ (S \cup Q)) <= Cardinality((Trimming' \ S) \cup B)
    BY <2>2, <2>3, Smaller
  <2>6. Cardinality(notes \ Pending(S \cup Q)) <= MaxKept + Cardinality(Trimming \ (S \cup Q))
                                                 + faults
    BY <2>1 DEF Inv, Bounded
  <2>7. /\ Cardinality(Trimming \ (S \cup Q)) \in Nat /\ Cardinality(Trimming' \ S) \in Nat
        /\ Cardinality((Trimming' \ S) \cup B) \in Nat
        /\ Cardinality(notes \ Pending(S \cup Q)) \in Nat
    BY <2>3, Finite
  <2>8. faults' = faults + Cardinality(B) /\ MaxKept \in Nat
    BY <1>2
  <2>9. Cardinality(notes \ Pending(S \cup Q)) <= MaxKept + Cardinality(Trimming' \ S) + faults'
    BY <1>3, <2>4, <2>5, <2>6, <2>7, <2>8
  <2> QED BY <2>1, <2>9
<1>7. Times'
  BY <1>1, <1>2 DEF Inv, Times
<1>8. \A q : Old(q)' <=> Old(q)
  BY <1>2, OldUnchanged
<1>9. FoundIsOld'
  <2>1. Deleting' \subseteq Deleting
    BY <1>2 DEF Deleting
  <2> QED BY <1>2, <1>8, <2>1 DEF Inv, FoundIsOld, settingsVars
<1>10. NewestKept'
  <2> SUFFICES ASSUME NEW q \in Handlers, user, createdAt[q] > 0,
                      Cardinality(NotOlder(q)) < MaxKept
               PROVE  q \notin Pending(Q) /\ q \in notes
    BY <1>1, <1>2 DEF NewestKept, NotOlder, settingsVars
  <2>1. ~Old(q)
    BY AgeIsNat DEF Old
  <2> QED BY <2>1 DEF Inv, FoundIsOld, Deleting, NewestKept, Pending
<1>11. ClientMissesNothing'
  BY <1>1, <1>2, <1>8 DEF Inv, TypeOK, ClientMissesNothing, Old, outVars
<1> QED BY <1>4, <1>5, <1>6, <1>7, <1>9, <1>10, <1>11 DEF Inv

LEMMA ClientInv == ASSUME Inv, Connect \/ Load \/ Disconnect PROVE Inv'
<1>1. /\ UNCHANGED <<tableVars, settingsVars, pc, oldest, attempt, pushed, sentVars, faults, changes>>
      /\ view' \subseteq Handlers /\ client' \in {"away", "joined", "loaded"}
  BY DEF Connect, Load, Disconnect, Inv, TypeOK
<1>2. TypeOK' /\ PostsOK'
  BY <1>1 DEF Inv, TypeOK, PostsOK, tableVars, settingsVars, sentVars
<1>3. (Bounded /\ Times /\ FoundIsOld /\ NewestKept)'
  BY <1>1 DEF Inv, Bounded, Deleting, Trimming, Pending, Times, FoundIsOld, NewestKept, Old,
              NotOlder, tableVars, settingsVars
<1>4. ASSUME client' = "loaded" PROVE \A h \in notes' : h \in view' \/ Old(h)'
  <2>1. PICK D \in SUBSET notes : Skipped(D) /\ view' = view \cup (notes \ D)
    BY <1>4 DEF Connect, Load, Disconnect, Inv, TypeOK
  <2>2. \A h \in D : Old(h)
    BY <2>1, SkippedAreOld DEF Inv
  <2>3. \A h : Old(h)' <=> Old(h)
    BY <1>1, OldUnchanged DEF tableVars
  <2> QED BY <1>1, <2>1, <2>2, <2>3 DEF tableVars
<1>5. ClientMissesNothing'
  BY <1>4 DEF ClientMissesNothing, Old
<1> QED BY <1>2, <1>3, <1>5 DEF Inv

LEMMA DeleteAccountInv == ASSUME Inv, DeleteAccount PROVE Inv'
<1>1. /\ notes' = {} /\ read' = {} /\ user' = FALSE /\ job' = FALSE
      /\ UNCHANGED <<createdAt, clock, notifyByEmail, enabled, webhook, pc, oldest, attempt,
                     outVars, client, faults>>
      /\ changes' \in Nat /\ faults + changes' <= MaxTrouble
  BY DEF DeleteAccount, Change, Inv, TypeOK
<1>2. TypeOK' /\ PostsOK'
  BY <1>1 DEF Inv, TypeOK, PostsOK, outVars, sentVars
<1>3. Bounded'
  <2>1. ASSUME NEW S \in SUBSET Deleting
        PROVE  Cardinality({} \ Pending(S)) <= MaxKept + Cardinality(Trimming \ S) + faults
    <3>1. Cardinality({} \ Pending(S)) = 0
      BY FS_EmptySet
    <3> QED BY <3>1, Finite DEF Trimming, Inv, TypeOK
  <2> QED BY <1>1, <2>1 DEF Bounded, Deleting, Trimming, Pending
<1>4. (Times /\ FoundIsOld /\ NewestKept /\ ClientMissesNothing)'
  BY <1>1 DEF Inv, Times, FoundIsOld, NewestKept, ClientMissesNothing, Deleting, Old
<1> QED BY <1>2, <1>3, <1>4 DEF Inv

LEMMA NextInv == Inv /\ [Next]_vars => Inv'
<1> SUFFICES ASSUME Inv, [Next]_vars PROVE Inv'
  OBVIOUS
<1>1. CASE UNCHANGED vars
  <2>1. TypeOK' /\ PostsOK'
    BY <1>1 DEF Inv, TypeOK, PostsOK, vars, tableVars, settingsVars, outVars, sentVars
  <2> QED
    BY <1>1, <2>1, QuietInv DEF vars, tableVars, settingsVars, outVars
<1>2. ASSUME NEW h \in Handlers, Handle(h) PROVE Inv'
  BY <1>2, QuietStepsInv, SaveInv, FindOldestInv, DeleteOldestInv DEF Handle
<1> QED
  BY <1>1, <1>2, EmitInv, StopInv, ClientInv, SettingsInv, DeleteAccountInv DEF Next

THEOREM SpecInv == Spec => []Inv
<1> QED BY InitInv, NextInv, PTL DEF Spec
-----------------------------------------------------------------------------
\* Every row, handler and socket keeps its type; above all, no endpoint gets a
\* payload more often than there are attempts, although a late answer counts as
\* a failure.
THEOREM TypeCorrect == Spec => []TypeOK
<1>1. Inv => TypeOK
  BY DEF Inv
<1> QED BY <1>1, SpecInv, PTL

\* However many handlers interleave and break off, the table stays within
\* MaxKept rows, one for each handler in its trim and one for each that failed.
THEOREM TableBounded == Spec => []NotesBounded
<1>1. Inv => NotesBounded
  <2> SUFFICES ASSUME Inv PROVE NotesBounded
    OBVIOUS
  <2>1. {} \in SUBSET Deleting /\ notes \ Pending({}) = notes /\ Trimming \ {} = Trimming
    BY DEF Pending
  <2> QED BY <2>1 DEF Inv, Bounded, NotesBounded
<1> QED BY <1>1, SpecInv, PTL

\* No trim deletes a row that is among the newest MaxKept of all that were ever
\* saved, although it goes by what an earlier query has found.
THEOREM NewestSurvive == Spec => []NewestKept
<1>1. Inv => NewestKept
  BY DEF Inv
<1> QED BY <1>1, SpecInv, PTL

\* A client that joins its room before it loads the inbox has seen every row
\* that is there, but for those about to be pushed, those whose handler broke
\* off and those below the inbox's limit.
THEOREM NothingMissed == Spec => []ClientMissesNothing
<1>1. Inv => ClientMissesNothing
  BY DEF Inv
<1> QED BY <1>1, SpecInv, PTL
-----------------------------------------------------------------------------
\* What becomes of a listener call.

\* While nothing breaks off and no setting changes, a handler is where it is
\* because of what the user was sent.
Told == changes + faults = 0 =>
    /\ user /\ job /\ enabled = Types
    /\ \A h \in Handlers :
          /\ pc[h] # "failed"
          /\ pc[h] \in {"findWebhook", "post", "findUser", "mail"} => h \in pushed
          /\ pc[h] = "ended" => h \in pushed /\ (notifyByEmail => h \in mailed)

\* The steps a handler has before it, at most: one for each await and one more
\* for each attempt at the webhook.
StepsFrom(p, a) ==
    CASE p = "idle"        -> MaxAttempts + 8
      [] p = "fetchJob"    -> MaxAttempts + 7
      [] p = "save"        -> MaxAttempts + 6
      [] p = "find"        -> MaxAttempts + 5
      [] p = "delete"      -> MaxAttempts + 4
      [] p = "findWebhook" -> MaxAttempts + 3
      [] p = "post"        -> MaxAttempts - a + 3
      [] p = "findUser"    -> 2
      [] p = "mail"        -> 1
      [] OTHER             -> 0
StepsLeft(h) == StepsFrom(pc[h], attempt[h])

ListenersRunDown == \A h \in Handlers :
    /\ StepsLeft(h)' \in Nat /\ StepsLeft(h)' <= StepsLeft(h)
    /\ Handle(h) => StepsLeft(h)' < StepsLeft(h)

\* A step that neither breaks off nor changes a setting is a handler's, starts
\* handlers or is about the client and its inbox.
LEMMA ToldKept ==
    ASSUME Inv, Told, [Next]_vars
    PROVE  Told'
<1> SUFFICES ASSUME changes' + faults' = 0
             PROVE  /\ user' /\ job' /\ enabled' = Types
                    /\ \A h \in Handlers :
                          /\ pc'[h] # "failed"
                          /\ pc'[h] \in {"findWebhook", "post", "findUser", "mail"}
                                => h \in pushed'
                          /\ pc'[h] = "ended"
                                => h \in pushed' /\ (notifyByEmail' => h \in mailed')
  BY DEF Told
<1>1. CASE changes' = changes /\ faults' = faults
  <2>1. /\ changes + faults = 0 /\ user /\ job /\ enabled = Types
        /\ \A h \in Handlers :
              /\ pc[h] # "failed"
              /\ pc[h] \in {"findWebhook", "post", "findUser", "mail"} => h \in pushed
              /\ pc[h] = "ended" => h \in pushed /\ (notifyByEmail => h \in mailed)
    BY <1>1 DEF Told
  <2>2. pc \in [Handlers -> Steps] /\ TypeOf \in [Handlers -> Types]
    BY DEF Inv, TypeOK
  <2>3. ASSUME NEW h \in Handlers, Handle(h)
        PROVE  /\ UNCHANGED <<user, job, enabled, notifyByEmail>>
               /\ pushed \subseteq pushed' /\ mailed \subseteq mailed'
               /\ \A q \in Handlers \ {h} : pc'[q] = pc[q]
    BY <2>2, <2>3 DEF Handle, FetchJob, SaveNotification, SaveFails, FindOldest, DeleteOldest,
                      FindWebhook, Post, PostFails, FindUser, SendMail, Go, Push, settingsVars,
                      outVars, sentVars
  <2>4. ASSUME NEW h \in Handlers, Handle(h)
        PROVE  /\ pc'[h] # "failed"
               /\ pc'[h] \in {"findWebhook", "post", "findUser", "mail"} => h \in pushed'
               /\ pc'[h] = "ended" => h \in pushed' /\ (notifyByEmail => h \in mailed')
    <3>1. CASE FetchJob(h) \/ SaveNotification(h) \/ SaveFails(h)
      BY <2>1, <2>2, <3>1 DEF FetchJob, SaveNotification, SaveFails, Go
    <3>2. CASE FindOldest(h) \/ DeleteOldest(h)
      BY <2>2, <3>2 DEF FindOldest, DeleteOldest, Go, Push
    <3>3. CASE FindWebhook(h) \/ Post(h) \/ \E arrives \in BOOLEAN : PostFails(h, arrives)
      BY <2>1, <2>2, <3>3 DEF FindWebhook, Post, PostFails, Go, outVars
    <3>4. CASE FindUser(h) \/ SendMail(h)
      BY <2>1, <2>2, <3>4 DEF FindUser, SendMail, Go, outVars
    <3> QED BY <2>4, <3>1, <3>2, <3>3, <3>4 DEF Handle
  <2>5. CASE \E h \in Handlers : Handle(h)
    BY <2>1, <2>3, <2>4, <2>5
  <2>6. ASSUME NEW S \in SUBSET Handlers, Emit(S) PROVE pc' = [h \in Handlers |-> IF h \in S THEN "fetchJob" ELSE pc[h]]
                                                      /\ UNCHANGED <<settingsVars, outVars>>
    BY <2>6 DEF Emit
  <2>7. CASE \E S \in SUBSET Handlers : Emit(S)
    BY <2>1, <2>2, <2>6, <2>7 DEF settingsVars, outVars, sentVars
  <2>8. ASSUME \/ UNCHANGED vars \/ Connect \/ Load \/ Disconnect \/ MarkAllAsRead
               \/ \E n \in Handlers : MarkAsRead(n)
        PROVE  UNCHANGED <<pc, settingsVars, pushed, sentVars>>
    BY <2>8 DEF Connect, Load, Disconnect, MarkAsRead, MarkAllAsRead, vars, outVars
  <2>9. ASSUME UNCHANGED <<pc, settingsVars, pushed, sentVars>>
        PROVE  /\ user' /\ job' /\ enabled' = Types
               /\ \A h \in Handlers :
                     /\ pc'[h] # "failed"
                     /\ pc'[h] \in {"findWebhook", "post", "findUser", "mail"} => h \in pushed'
                     /\ pc'[h] = "ended" => h \in pushed' /\ (notifyByEmail' => h \in mailed')
    BY <2>1, <2>9 DEF settingsVars, sentVars
  <2>10. ASSUME NEW S \in SUBSET Handlers, Stop(S) PROVE FALSE
    <3>1. faults' = faults + Cardinality(S) /\ S # {} /\ faults \in Nat /\ Cardinality(S) \in Nat
      BY <2>10, Finite DEF Stop, Inv, TypeOK
    <3>2. Cardinality(S) # 0
      BY <3>1, Finite, FS_EmptySet
    <3> QED BY <1>1, <3>1, <3>2
  <2>11. ASSUME UpdateJob \/ UpdateNotificationSettings \/ RemoveJob \/ DeleteAccount PROVE FALSE
    BY <1>1, <2>11 DEF UpdateJob, UpdateNotificationSettings, RemoveJob, DeleteAccount, Change,
                       Inv, TypeOK
  <2> QED BY <2>5, <2>7, <2>8, <2>9, <2>10, <2>11 DEF Next
<1>2. CASE ~(changes' = changes /\ faults' = faults)
  <2>1. faults \in Nat /\ changes \in Nat /\ faults' \in Nat /\ changes' \in Nat
    BY NextInv DEF Inv, TypeOK
  <2>2. faults' >= faults /\ changes' >= changes
    <3>1. ASSUME NEW h \in Handlers, Handle(h) PROVE UNCHANGED <<faults, changes>>
      BY <3>1 DEF Handle, FetchJob, SaveNotification, SaveFails, FindOldest, DeleteOldest,
                  FindWebhook, Post, PostFails, FindUser, SendMail
    <3>2. ASSUME NEW S \in SUBSET Handlers, Emit(S) \/ Stop(S)
          PROVE  faults' >= faults /\ changes' = changes
      <4>1. Cardinality(S) \in Nat
        BY Finite
      <4> QED BY <2>1, <3>2, <4>1 DEF Emit, Stop
    <3>3. ASSUME \/ UNCHANGED vars \/ Connect \/ Load \/ Disconnect \/ MarkAllAsRead
                 \/ \E n \in Handlers : MarkAsRead(n)
          PROVE  UNCHANGED <<faults, changes>>
      BY <3>3 DEF Connect, Load, Disconnect, MarkAsRead, MarkAllAsRead, vars
    <3>4. ASSUME UpdateJob \/ UpdateNotificationSettings \/ RemoveJob \/ DeleteAccount
          PROVE  faults' = faults /\ changes' = changes + 1
      BY <3>4 DEF UpdateJob, UpdateNotificationSettings, RemoveJob, DeleteAccount, Change
    <3>5. CASE \E h \in Handlers : Handle(h)
      BY <2>1, <3>1, <3>5
    <3>6. CASE \E S \in SUBSET Handlers : Emit(S) \/ Stop(S)
      BY <2>1, <3>2, <3>6
    <3> QED BY <2>1, <3>3, <3>4, <3>5, <3>6 DEF Next
  <2>3. changes' = 0 /\ faults' = 0
    <3>1. \A m, n \in Nat : m + n = 0 => m = 0 /\ n = 0
      OBVIOUS
    <3> QED BY <2>1, <3>1
  <2>4. changes = 0 /\ faults = 0
    BY <2>1, <2>2, <2>3
  <2> QED BY <1>2, <2>3, <2>4
<1> QED BY <1>1, <1>2

\* What else moves a handler than a step of its own.
LEMMA OthersLeave ==
    ASSUME Inv, [Next]_vars, NEW h \in Handlers, ~Handle(h)
    PROVE  /\ attempt'[h] = attempt[h]
           /\ \/ pc'[h] = pc[h]
              \/ pc[h] = "idle" /\ pc'[h] = "fetchJob"
              \/ pc'[h] = "failed"
<1>1. pc \in [Handlers -> Steps] /\ attempt \in [Handlers -> 0..MaxAttempts]
  BY DEF Inv, TypeOK
<1>2. ASSUME NEW q \in Handlers, Handle(q) PROVE pc'[h] = pc[h] /\ attempt'[h] = attempt[h]
  <2>1. q # h
    BY <1>2
  <2> QED
    BY <1>1, <1>2, <2>1 DEF Handle, FetchJob, SaveNotification, SaveFails, FindOldest,
                            DeleteOldest, FindWebhook, Post, PostFails, FindUser, SendMail, Go
<1>3. ASSUME NEW S \in SUBSET Handlers, Emit(S) \/ Stop(S)
      PROVE  /\ attempt' = attempt
             /\ \/ pc'[h] = pc[h]
                \/ pc[h] = "idle" /\ pc'[h] = "fetchJob"
                \/ pc'[h] = "failed"
  BY <1>1, <1>3 DEF Emit, Stop
<1>4. ASSUME \/ UNCHANGED vars \/ Connect \/ Load \/ Disconnect \/ MarkAllAsRead
             \/ \E n \in Handlers : MarkAsRead(n)
             \/ UpdateJob \/ UpdateNotificationSettings \/ RemoveJob \/ DeleteAccount
      PROVE  UNCHANGED <<pc, attempt>>
  BY <1>4 DEF Connect, Load, Disconnect, MarkAsRead, MarkAllAsRead, UpdateJob,
              UpdateNotificationSettings, RemoveJob, DeleteAccount, Change, vars
<1> QED BY <1>2, <1>3, <1>4 DEF Next

LEMMA ListenerRunsDown ==
    ASSUME Inv, NEW h \in Handlers, Handle(h)
    PROVE  StepsLeft(h)' < StepsLeft(h)
<1>1. /\ pc \in [Handlers -> Steps] /\ attempt \in [Handlers -> 0..MaxAttempts]
      /\ MaxAttempts \in Nat \ {0} /\ attempt[h] \in 0..MaxAttempts
  BY DEF Inv, TypeOK
<1>2. CASE FetchJob(h) \/ SaveNotification(h) \/ SaveFails(h)
  BY <1>1, <1>2 DEF FetchJob, SaveNotification, SaveFails, Go, StepsLeft, StepsFrom
<1>3. CASE FindOldest(h) \/ DeleteOldest(h)
  BY <1>1, <1>3 DEF FindOldest, DeleteOldest, Go, StepsLeft, StepsFrom
<1>4. CASE FindWebhook(h)
  <2>1. pc[h] = "findWebhook"
        /\ \/ pc'[h] = "post" /\ attempt'[h] = 1
           \/ pc'[h] = "findUser"
    BY <1>1, <1>4 DEF FindWebhook, Go
  <2> QED BY <1>1, <2>1 DEF StepsLeft, StepsFrom
<1>5. CASE Post(h) \/ \E arrives \in BOOLEAN : PostFails(h, arrives)
  <2>1. /\ pc[h] = "post"
        /\ \/ pc'[h] = "findUser"
           \/ pc'[h] = "post" /\ attempt'[h] = attempt[h] + 1
    BY <1>1, <1>5 DEF Post, PostFails, Go
  <2> QED BY <1>1, <2>1 DEF StepsLeft, StepsFrom
<1>6. CASE FindUser(h) \/ SendMail(h)
  <2>1. \/ pc[h] = "findUser" /\ pc'[h] \in {"mail", "ended"}
        \/ pc[h] = "mail" /\ pc'[h] = "ended"
    BY <1>1, <1>6 DEF FindUser, SendMail, Go
  <2> QED BY <2>1 DEF StepsLeft, StepsFrom
<1> QED BY <1>2, <1>3, <1>4, <1>5, <1>6 DEF Handle

\* While nothing breaks off and the user changes nothing, no handler fails, and one that has ended has pushed its notification and, if the
\* user wants mail, has sent it, however often the webhook failed on the way:
\* there is no other way to the end (dispatchNotification, postWithRetry).
THEOREM EndedMeansTold == Spec => []Told
<1>1. Init => Told
  BY DEF Init, Told
<1> QED BY <1>1, ToldKept, SpecInv, PTL DEF Spec

\* A handler takes at most MaxAttempts + 8 steps, its start included, however
\* the webhook answers; nothing but its own steps is needed, and nothing anyone
\* else does gives it more of them.
THEOREM ListenersEnd == Spec => [][ListenersRunDown]_vars
<1>1. ASSUME Inv, [Next]_vars PROVE ListenersRunDown
  <2> SUFFICES ASSUME NEW h \in Handlers
               PROVE  /\ StepsLeft(h)' \in Nat /\ StepsLeft(h)' <= StepsLeft(h)
                      /\ Handle(h) => StepsLeft(h)' < StepsLeft(h)
    BY DEF ListenersRunDown
  <2>1. StepsLeft(h) \in Nat /\ StepsLeft(h)' \in Nat
    <3>1. /\ attempt[h] \in 0..MaxAttempts /\ attempt'[h] \in 0..MaxAttempts
          /\ MaxAttempts \in Nat
      BY <1>1, NextInv DEF Inv, TypeOK
    <3> QED BY <3>1 DEF StepsLeft, StepsFrom
  <2>2. CASE Handle(h)
    BY <1>1, <2>1, <2>2, ListenerRunsDown
  <2>3. CASE ~Handle(h)
    <3> DEFINE from == StepsFrom(pc[h], attempt[h])
               to == StepsFrom(pc'[h], attempt'[h])
    <3>1. /\ attempt'[h] = attempt[h] /\ attempt[h] \in 0..MaxAttempts /\ MaxAttempts \in Nat
          /\ \/ pc'[h] = pc[h]
             \/ pc[h] = "idle" /\ pc'[h] = "fetchJob"
             \/ pc'[h] = "failed"
      BY <1>1, <2>3, OthersLeave DEF Inv, TypeOK
    <3>2. StepsLeft(h) = from /\ StepsLeft(h)' = to
      BY DEF StepsLeft, StepsFrom
    <3>3. ASSUME pc'[h] = pc[h] PROVE to = from
      BY <3>1, <3>3
    <3>4. ASSUME pc[h] = "idle", pc'[h] = "fetchJob" PROVE to < from
      BY <3>1, <3>4 DEF StepsFrom
    <3>5. ASSUME pc'[h] = "failed" PROVE to = 0
      BY <3>5 DEF StepsFrom
    <3> HIDE DEF from, to
    <3>6. to = from \/ to < from \/ to = 0
      BY <3>1, <3>3, <3>4, <3>5
    <3> QED BY <2>1, <2>3, <3>2, <3>6
  <2> QED BY <2>2, <2>3
<1> QED BY <1>1, SpecInv, PTL DEF Spec
-----------------------------------------------------------------------------
\* The table implements the inbox.  What is shown of any set between the newest
\* rows and all rows is the same, so a table that keeps the newest rows shows
\* what a table with all of them would.

Newer(S, r, n) == {m \in S : r[m] > r[n]}
NewestOf(S, r) == {n \in S : Cardinality(Newer(S, r, n)) < MaxKept}

\* Some member of a finite set has no later one beside it.
LEMMA Latest ==
    ASSUME NEW S \in SUBSET Handlers, S # {}, NEW r \in [Handlers -> Nat]
    PROVE  \E m \in S : \A k \in S : r[k] <= r[m]
<1> DEFINE After == {Newer(S, r, m) : m \in S}
<1>1. IsFiniteSet(S)
  BY Finite
<1>2. FiniteSubsetsOf(S) = SUBSET S
  BY <1>1, FS_FiniteSubsetsOfFinite
<1>3. After \subseteq FiniteSubsetsOf(S) /\ After # {}
  <2>1. \A m \in S : Newer(S, r, m) \in SUBSET S
    BY DEF Newer
  <2>2. PICK m \in S : TRUE
    OBVIOUS
  <2>3. Newer(S, r, m) \in After
    OBVIOUS
  <2> QED BY <1>2, <2>1, <2>3
<1>4. IsWellFoundedOn(StrictSubsetOrdering(S), FiniteSubsetsOf(S))
  BY FS_StrictSubsetOrderingWellFounded
<1>5. PICK A \in After : \A B \in After : ~(<<B, A>> \in StrictSubsetOrdering(S))
  BY <1>3, <1>4, WFMin
<1>6. PICK m \in S : A = Newer(S, r, m)
  BY <1>5
<1>7. ASSUME NEW k \in S, r[k] > r[m] PROVE FALSE
  <2>1. Newer(S, r, k) \subseteq A /\ k \in A /\ k \notin Newer(S, r, k)
    BY <1>6, <1>7 DEF Newer
  <2>2. <<Newer(S, r, k), A>> \in StrictSubsetOrdering(S)
    BY <1>6, <2>1 DEF StrictSubsetOrdering, Newer
  <2> QED BY <1>5, <2>2
<1>8. \A k \in S : r[k] \in Nat /\ r[m] \in Nat
  OBVIOUS
<1> QED BY <1>7, <1>8

LEMMA NewestOfPart ==
    ASSUME NEW X \in SUBSET Handlers, NEW r \in [Handlers -> Nat], NEW S \in SUBSET X,
           NewestOf(X, r) \subseteq S
    PROVE  NewestOf(S, r) = NewestOf(X, r)
<1>1. ASSUME NEW n \in X
      PROVE  /\ Cardinality(Newer(S, r, n)) \in Nat /\ Cardinality(Newer(X, r, n)) \in Nat
             /\ Cardinality(Newer(S, r, n)) <= Cardinality(Newer(X, r, n))
  <2>1. Newer(S, r, n) \in SUBSET Newer(X, r, n) /\ Newer(X, r, n) \in SUBSET Handlers
    BY DEF Newer
  <2> QED BY <2>1, Finite, Smaller
<1>2. NewestOf(X, r) \subseteq NewestOf(S, r)
  BY <1>1 DEF NewestOf
<1>3. ASSUME NEW n \in NewestOf(S, r), n \notin NewestOf(X, r) PROVE FALSE
  <2>1. n \in S /\ Cardinality(Newer(S, r, n)) < MaxKept
        /\ Cardinality(Newer(X, r, n)) >= MaxKept
    BY <1>1, <1>3 DEF NewestOf
  <2> DEFINE Out == Newer(X, r, n) \ S
  <2>2. Out # {}
    <3>1. SUFFICES ASSUME Out = {} PROVE FALSE
      OBVIOUS
    <3>2. Newer(X, r, n) = Newer(S, r, n)
      BY <3>1 DEF Newer
    <3> QED BY <1>1, <2>1, <3>2
  <2>3. Out \in SUBSET Handlers
    BY DEF Newer
  <2>4. PICK m \in Out : \A k \in Out : r[k] <= r[m]
    BY <2>2, <2>3, Latest
  <2>5. m \in X /\ r[m] > r[n] /\ Cardinality(Newer(X, r, m)) >= MaxKept
    <3>1. m \in X /\ r[m] > r[n] /\ m \notin NewestOf(X, r)
      BY <2>4 DEF Newer
    <3>2. ~(Cardinality(Newer(X, r, m)) < MaxKept)
      BY <3>1 DEF NewestOf
    <3> QED BY <1>1, <3>1, <3>2
  <2>6. Newer(X, r, m) \subseteq Newer(S, r, n)
    BY <2>1, <2>4, <2>5 DEF Newer
  <2>7. Newer(S, r, n) \in SUBSET Handlers
    BY DEF Newer
  <2>8. Cardinality(Newer(X, r, m)) <= Cardinality(Newer(S, r, n))
    BY <2>6, <2>7, Smaller
  <2> QED BY <1>1, <2>1, <2>5, <2>8
<1> QED BY <1>2, <1>3 DEF NewestOf

SavedBy(r) == {h \in Handlers : r[h] > 0}
Distinct(r) == \A h, k \in Handlers : h # k /\ r[h] > 0 => r[h] # r[k]

\* What NewestKept says of a table, for the table before and after a step.
LEMMA TableShowsNewest ==
    ASSUME NEW T \in SUBSET Handlers, NEW r \in [Handlers -> Nat], Distinct(r),
           \A h \in T : r[h] > 0,
           \A h \in Handlers :
              r[h] > 0 /\ Cardinality({k \in Handlers \ {h} : r[k] >= r[h]}) < MaxKept
                 => h \in T
    PROVE  NewestOf(T, r) = NewestOf(SavedBy(r), r)
<1>1. T \in SUBSET SavedBy(r) /\ SavedBy(r) \in SUBSET Handlers
  BY DEF SavedBy
<1>2. ASSUME NEW h \in NewestOf(SavedBy(r), r) PROVE h \in T
  <2>1. h \in Handlers /\ r[h] > 0 /\ Cardinality(Newer(SavedBy(r), r, h)) < MaxKept
    BY <1>2 DEF NewestOf, SavedBy
  <2>2. {k \in Handlers \ {h} : r[k] >= r[h]} = Newer(SavedBy(r), r, h)
    BY <2>1 DEF Newer, SavedBy, Distinct
  <2> QED BY <2>1, <2>2
<1> QED BY <1>1, <1>2, NewestOfPart

\* Saves of the same moment are ruled out, and nobody is left after the account.
InboxInv == Distinct(createdAt) /\ (~user => notes = {})

LEMMA InboxInvStep == ASSUME ~Ties, Inv, InboxInv, [Next]_vars PROVE InboxInv'
<1>1. ASSUME NEW h \in Handlers, SaveNotification(h) PROVE InboxInv'
  <2>1. createdAt' = [createdAt EXCEPT ![h] = clock + 1] /\ user /\ user' = user
    BY <1>1 DEF SaveNotification, settingsVars
  <2>2. \A k \in Handlers : createdAt[k] \in Nat /\ clock \in Nat /\ createdAt[k] < clock + 1
    BY DEF Inv, TypeOK, Times
  <2> QED BY <2>1, <2>2 DEF InboxInv, Distinct, Inv, TypeOK
<1>2. ASSUME createdAt' = createdAt, user' => user, notes' \subseteq notes, user' = user \/ notes' = {}
      PROVE  InboxInv'
  BY <1>2 DEF InboxInv, Distinct
<1>3. ASSUME NEW h \in Handlers, Handle(h), ~SaveNotification(h) PROVE InboxInv'
  <2>1. createdAt' = createdAt /\ user' = user /\ notes' \subseteq notes
    BY <1>3 DEF Handle, FetchJob, SaveFails, FindOldest, DeleteOldest, FindWebhook, Post,
                PostFails, FindUser, SendMail, tableVars, settingsVars
  <2> QED BY <1>2, <2>1
<1>4. CASE Next /\ ~\E h \in Handlers : Handle(h)
  <2>1. createdAt' = createdAt /\ (user' => user) /\ notes' \subseteq notes
        /\ (user' = user \/ notes' = {})
    BY <1>4 DEF Next, Emit, Stop, Connect, Load, Disconnect, MarkAsRead, MarkAllAsRead,
                UpdateJob, UpdateNotificationSettings, RemoveJob, DeleteAccount, Change,
                tableVars, settingsVars
  <2> QED BY <1>2, <2>1
<1>5. CASE UNCHANGED vars
  BY <1>2, <1>5 DEF vars, tableVars, settingsVars
<1> QED BY <1>1, <1>3, <1>4, <1>5 DEF Next

\* The refinement mapping's inbox is the newest of the table.
LEMMA Shown ==
    /\ {n \in notes : Cardinality({m \in notes : createdAt[m] > createdAt[n]}) < MaxKept}
          = NewestOf(notes, createdAt)
    /\ \A S, r : Inbox!Newest(S, r) = NewestOf(S, r)
<1>1. {n \in notes : Cardinality({m \in notes : createdAt[m] > createdAt[n]}) < MaxKept}
         = NewestOf(notes, createdAt)
  BY DEF NewestOf, Newer
<1>2. ASSUME NEW S, NEW r PROVE Inbox!Newest(S, r) = NewestOf(S, r)
  <2>1. \A T : Inbox!Cardinality(T) = Cardinality(T)
    BY DEF Inbox!Cardinality, Cardinality
  <2> QED BY <2>1 DEF NewestOf, Newer, Inbox!Newest
<1> QED BY <1>1, <1>2

LEMMA ShownIsNewest ==
    ASSUME Inv, InboxInv, user
    PROVE  NewestOf(notes, createdAt) = NewestOf(SavedBy(createdAt), createdAt)
BY TableShowsNewest DEF Inv, TypeOK, Times, NewestKept, NotOlder, InboxInv

LEMMA ShownIsNewestNext ==
    ASSUME Inv', InboxInv', user'
    PROVE  NewestOf(notes', createdAt') = NewestOf(SavedBy(createdAt'), createdAt')
BY TableShowsNewest DEF Inv, TypeOK, Times, NewestKept, NotOlder, InboxInv

LEMMA ShownToNobody == NewestOf({}, createdAt) = {} /\ NewestOf({}, createdAt') = {}
BY DEF NewestOf

\* One save is one arrival; what came before ranks as it did.
LEMMA SaveArrives ==
    ASSUME ~Ties, Inv, InboxInv, Inv', InboxInv', NEW h \in Handlers, SaveNotification(h)
    PROVE  Inbox!Arrive(h)
<1> DEFINE before == NewestOf(SavedBy(createdAt), createdAt)
           after == NewestOf(SavedBy(createdAt'), createdAt')
<1>1. /\ createdAt' = [createdAt EXCEPT ![h] = clock + 1] /\ user /\ user' = user
      /\ pc[h] = "save"
  BY DEF SaveNotification, settingsVars, Go
<1>2. /\ createdAt \in [Handlers -> Nat] /\ createdAt' \in [Handlers -> Nat]
      /\ createdAt[h] = 0 /\ clock \in Nat
      /\ \A k \in Handlers : createdAt[k] < clock + 1
  BY <1>1 DEF Inv, TypeOK, Times
<1>3. SavedBy(createdAt') = SavedBy(createdAt) \cup {h} /\ h \notin SavedBy(createdAt)
      /\ SavedBy(createdAt) \subseteq Handlers
  BY <1>1, <1>2 DEF SavedBy
<1>4. after \subseteq before \cup {h}
  <2> SUFFICES ASSUME NEW n \in after, n # h PROVE n \in before
    OBVIOUS
  <2>1. n \in SavedBy(createdAt) /\ n \in Handlers
        /\ Cardinality(Newer(SavedBy(createdAt'), createdAt', n)) < MaxKept
    BY <1>3 DEF NewestOf
  <2>2. Newer(SavedBy(createdAt), createdAt, n) \subseteq Newer(SavedBy(createdAt'), createdAt', n)
    BY <1>1, <1>2, <1>3, <2>1 DEF Newer
  <2>3. Newer(SavedBy(createdAt'), createdAt', n) \in SUBSET Handlers
        /\ Newer(SavedBy(createdAt), createdAt, n) \in SUBSET Handlers
    BY DEF Newer, SavedBy
  <2>4. /\ Cardinality(Newer(SavedBy(createdAt), createdAt, n)) \in Nat
        /\ Cardinality(Newer(SavedBy(createdAt'), createdAt', n)) \in Nat
        /\ Cardinality(Newer(SavedBy(createdAt), createdAt, n))
              <= Cardinality(Newer(SavedBy(createdAt'), createdAt', n))
    BY <2>2, <2>3, Finite, Smaller
  <2> QED BY <2>1, <2>4 DEF NewestOf
<1>5. before \cup {h} \in SUBSET SavedBy(createdAt')
  BY <1>3 DEF NewestOf
<1>6. NewestOf(before \cup {h}, createdAt') = after
  BY <1>2, <1>3, <1>4, <1>5, NewestOfPart
<1>7. NewestOf(notes, createdAt) = before /\ NewestOf(notes', createdAt') = after
  BY <1>1, ShownIsNewest, ShownIsNewestNext
<1>8. createdAt' = [createdAt EXCEPT ![h] = createdAt'[h]]
  BY <1>1, <1>2
<1>9. \A k \in Handlers : createdAt[k] < createdAt'[h]
  BY <1>1, <1>2
<1> HIDE DEF before, after
<1> QED
  BY <1>1, <1>2, <1>6, <1>7, <1>8, <1>9, Shown DEF Inbox!Arrive, NewestOf, Newer

\* Every other step leaves what is shown alone, or is the account's removal.
LEMMA OthersShowTheSame ==
    ASSUME Inv, InboxInv, Inv', InboxInv', createdAt' = createdAt, user' => user
    PROVE  Inbox!Leave \/ UNCHANGED Inbox!vars
<1>1. CASE user /\ user'
  BY <1>1, ShownIsNewest, ShownIsNewestNext, Shown DEF Inbox!vars, NewestOf, Newer
<1>2. CASE ~user
  <2>1. user = FALSE /\ user' = FALSE /\ notes = {} /\ notes' = {}
    BY <1>2 DEF InboxInv, Inv, TypeOK
  <2> QED BY <1>2, <2>1 DEF Inbox!vars
<1>3. CASE user /\ ~user'
  BY <1>3 DEF Inbox!Leave, InboxInv, Inv, TypeOK
<1> QED BY <1>1, <1>2, <1>3

\* GET /notifications answers at every moment what it would if nothing had ever
\* been trimmed, provided that no two rows share a millisecond: the table
\* implements NotificationInbox.
THEOREM InboxImplemented == ASSUME ~Ties PROVE Spec => InboxShowsNewest
<1>1. Init => Inbox!Init /\ InboxInv
  BY DEF Init, Inbox!Init, InboxInv, Distinct
<1>2. Inv /\ InboxInv /\ [Next]_vars => [Inbox!Next]_(Inbox!vars) /\ InboxInv'
  <2> SUFFICES ASSUME Inv, InboxInv, [Next]_vars PROVE [Inbox!Next]_(Inbox!vars) /\ InboxInv'
    OBVIOUS
  <2>1. Inv' /\ InboxInv'
    BY NextInv, InboxInvStep
  <2>2. ASSUME NEW h \in Handlers, SaveNotification(h) PROVE [Inbox!Next]_(Inbox!vars)
    BY <2>1, <2>2, SaveArrives DEF Inbox!Next
  <2>3. ASSUME ~\E h \in Handlers : SaveNotification(h) PROVE createdAt' = createdAt /\ (user' => user)
    <3>1. ASSUME NEW h \in Handlers, Handle(h) PROVE createdAt' = createdAt /\ user' = user
      BY <2>3, <3>1 DEF Handle, FetchJob, SaveFails, FindOldest, DeleteOldest, FindWebhook, Post,
                        PostFails, FindUser, SendMail, tableVars, settingsVars
    <3>2. CASE Next /\ ~\E h \in Handlers : Handle(h)
      BY <3>2 DEF Next, Emit, Stop, Connect, Load, Disconnect, MarkAsRead, MarkAllAsRead,
                  UpdateJob, UpdateNotificationSettings, RemoveJob, DeleteAccount, Change,
                  tableVars, settingsVars
    <3>3. CASE UNCHANGED vars
      BY <3>3 DEF vars, tableVars, settingsVars
    <3> QED BY <3>1, <3>2, <3>3
  <2> QED BY <2>1, <2>2, <2>3, OthersShowTheSame DEF Inbox!Next
<1>3. Spec => Inbox!Spec
  BY <1>1, <1>2, SpecInv, PTL DEF Spec, Inbox!Spec
<1> QED BY <1>3 DEF InboxShowsNewest
=============================================================================
