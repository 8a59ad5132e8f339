---------------------------- MODULE Accounts_proofs ----------------------------
(***************************************************************************)
(* Theorems about Accounts, for any number of requests in flight, of calls *)
(* and of failures.                                                        *)
(***************************************************************************)
EXTENDS Accounts, FiniteSetTheorems, TLAPS

-----------------------------------------------------------------------------
(***************************************************************************)
(* The inductive invariant.  What a request holds is bound to what it is   *)
(* doing; ids are handed out once, so a mail and a stored secret of one id *)
(* are the same; and while nothing of an area has overlapped, the one      *)
(* request at work on it accounts for what is not settled yet.             *)
(***************************************************************************)

Local(r) == op[r] \in {"register", "resend", "forgot"}

Doing(r) ==
    /\ pc[r] = "createUser" => op[r] \in {"register", "oauth"}
                               /\ (op[r] = "oauth" => word[r] = None)
    /\ pc[r] \in {"drop", "add", "mail"} => Local(r)
    /\ pc[r] \in {"findCode", "setVerified"} => op[r] = "verify"
    /\ pc[r] = "setPassword" => op[r] \in {"reset", "change"} /\ word[r] \in Passwords
    /\ pc[r] = "spend" => op[r] \in {"verify", "reset"}
    /\ pc[r] = "deleteUser" => op[r] = "delete"
    /\ pc[r] \notin {"idle", "createUser"} => who[r] \in Ids /\ who[r] < nextId
    /\ pc[r] = "mail" \/ (op[r] = "reset" /\ pc[r] \in {"setPassword", "spend"})
          => held[r] \in Ids /\ held[r] < nextId
    /\ pc[r] = "mail" => \A s \in secrets :
          s.id = held[r] => s.kind = Kind(r) /\ s.user = who[r]
    /\ pc[r] = "findCode" => \E m \in inbox : m.kind = "code" /\ m.id = held[r]
    /\ pc[r] = "setVerified" => \E m \in inbox : m.kind = "code" /\ m.user = who[r]
    /\ op[r] = "reset" /\ pc[r] = "setPassword" => ByOwner(r, who[r])

Fresh ==
    /\ user # None => user.id < nextId
    /\ \A s \in secrets : s.id < nextId /\ user # None /\ s.user = user.id
    /\ \A m \in inbox : m.id < nextId
    /\ \A i \in resets : i < nextId

SameMail == \A s \in secrets, m \in inbox :
    s.id = m.id => s.kind = m.kind /\ s.user = m.user

Alone(a) == a \in blame \/ \A q, r \in Reqs :
    InFlight(q) /\ InFlight(r) /\ a \in Areas(op[q]) /\ a \in Areas(op[r]) => q = r

Single(kind) == kind \in blame \/
    /\ \A s, t \in secrets : s.kind = kind /\ t.kind = kind => s = t
    /\ \A r \in Reqs : pc[r] = "add" /\ Kind(r) = kind /\ Mine(r) =>
          \A s \in secrets : s.kind # kind

\* A registration that has not reported yet, and a reset that has not.
Registers(r) == op[r] = "register" /\ pc[r] \in {"drop", "add", "mail"}
Resets(r)    == op[r] = "reset" /\ pc[r] = "spend"

Spending == blame \cap {"token", "failed"} # {} \/
    /\ \A r \in Reqs : op[r] = "reset" /\ pc[r] = "setPassword" => held[r] \notin resets
    /\ \A s \in secrets : s.kind = "token" /\ s.id \in resets =>
          s.used \/ \E q \in Reqs : Resets(q) /\ held[q] = s.id

Accepted == blame \cap {"token", "password", "failed"} # {} \/
    /\ \A r \in Reqs : op[r] = "reset" /\ pc[r] \in {"setPassword", "spend"} => Token(r) # {}
    /\ \A r \in Reqs : Registers(r) => Mine(r)
    /\ \A r \in Reqs : Registers(r) \/ Resets(r) => user # None /\ user.password = word[r]
    /\ user = None => acked = None
    /\ user # None => user.password = acked \/ \E r \in Reqs : Registers(r) \/ Resets(r)

IInv ==
    /\ TypeOK
    /\ \A r \in Reqs : Doing(r)
    /\ Fresh
    /\ SameMail
    /\ VerifiedByMail
    /\ \A a \in {"code", "token", "password"} : Alone(a)
    /\ \A kind \in Kinds : Single(kind)
    /\ Spending
    /\ Accepted

-----------------------------------------------------------------------------
\* Typing, and what the steps have in common.

\* An await ends with its answer, or with an error that is remembered.
LEMMA AwaitShape ==
    ASSUME TypeOK, NEW r \in Reqs, NEW here, NEW next \in Awaits, Await(r, here, next)
    PROVE  /\ pc[r] = here /\ UNCHANGED <<op, word, calls>>
           /\ pc' \in [Reqs -> Awaits] /\ faults' \in 0..MaxFaults
           /\ blame \subseteq blame' /\ blame' \subseteq blame \cup {"failed"}
           /\ \A q \in Reqs \ {r} : pc'[q] = pc[q]
           /\ \/ pc'[r] = next /\ blame' = blame /\ faults' = faults
              \/ pc'[r] = "idle" /\ "failed" \in blame' /\ faults' = faults + 1
BY AccountsAssumption DEF Await, TypeOK, Awaits

LEMMA BeginTyped ==
    ASSUME TypeOK, NEW r \in Reqs, NEW o \in Ops, NEW next \in Awaits,
           NEW u \in Ids \cup {None}, NEW s \in Ids \cup {None}, NEW w \in Passwords \cup {None},
           Begin(r, o, next, u, s, w)
    PROVE  TypeOK'
<1>1. Areas(o) \subseteq {"code", "token", "password"}
  BY DEF Areas, Ops
<1>2. calls' \in 0..MaxCalls
  BY AccountsAssumption DEF Begin, TypeOK
<1> QED BY <1>1, <1>2 DEF Begin, TypeOK

LEMMA ArriveTyped ==
    ASSUME TypeOK, NEW r \in Reqs, Arrive(r) PROVE TypeOK'
<1> USE DEF Awaits, Ops
<1>1. user # None => user.id \in Ids
  BY DEF TypeOK, Row
<1>2. \A m \in inbox : m.id \in Ids
  BY DEF TypeOK, Mail
<1>3. \A s \in secrets : s.id \in Ids /\ s.user \in Ids
  BY DEF TypeOK, Secret
<1>4. CASE OAuthLogin(r)
  BY <1>4, BeginTyped DEF OAuthLogin
<1>5. CASE Resend(r) \/ Forgot(r) \/ Delete(r)
  BY <1>1, <1>5, BeginTyped DEF Resend, Forgot, Delete
<1>6. CASE \E w \in Passwords : Register(r, w)
  BY <1>6, BeginTyped DEF Register
<1>7. CASE \E w \in Passwords : Change(r, w)
  BY <1>1, <1>7, BeginTyped DEF Change
<1>8. CASE \E m \in inbox : Verify(r, m)
  BY <1>1, <1>2, <1>8, BeginTyped DEF Verify
<1>9. CASE \E m \in inbox, w \in Passwords : Reset(r, m, w)
  BY <1>3, <1>9, BeginTyped DEF Reset
<1> QED BY <1>4, <1>5, <1>6, <1>7, <1>8, <1>9 DEF Arrive

LEMMA ProceedTyped ==
    ASSUME TypeOK, \A q \in Reqs : Doing(q), NEW r \in Reqs, Proceed(r) PROVE TypeOK'
<1> USE DEF Awaits, reqVars
<1>1. Doing(r) /\ Kind(r) \in Kinds /\ nextId + 1 \in Ids
  BY DEF Kind, Kinds, TypeOK, Ids
<1>2. CASE CreateUser(r)
  <2>1. pc' \in [Reqs -> Awaits] /\ faults' \in 0..MaxFaults /\ blame' \subseteq blame \cup {"failed"}
    BY <1>2, AwaitShape DEF CreateUser
  <2>2. user' \in Row
    BY <1>2 DEF CreateUser, TypeOK, Row
  <2> QED BY <1>1, <1>2, <2>1, <2>2 DEF CreateUser, TypeOK, Await
<1>3. CASE DropOld(r) \/ SpendCodes(r)
  <2>1. pc' \in [Reqs -> Awaits] /\ faults' \in 0..MaxFaults /\ blame' \subseteq blame \cup {"failed"}
    BY <1>3, AwaitShape DEF DropOld, SpendCodes
  <2>2. Others(r) \subseteq Secret
    BY DEF Others, TypeOK
  <2> QED BY <1>3, <2>1, <2>2 DEF DropOld, SpendCodes, TypeOK, Await
<1>4. CASE AddNew(r)
  <2>1. pc' \in [Reqs -> Awaits] /\ faults' \in 0..MaxFaults /\ blame' \subseteq blame \cup {"failed"}
    BY <1>4, AwaitShape DEF AddNew
  <2>2. who[r] \in Ids
    BY <1>1, <1>4 DEF AddNew, Await, Doing
  <2>3. [kind |-> Kind(r), id |-> nextId, user |-> who[r], live |-> TRUE, used |-> FALSE] \in Secret
    BY <1>1, <2>2 DEF Secret, TypeOK
  <2> QED BY <1>1, <1>4, <2>1, <2>3 DEF AddNew, TypeOK, Await
<1>5. CASE MailNew(r)
  <2>1. pc' \in [Reqs -> Awaits] /\ faults' \in 0..MaxFaults /\ blame' \subseteq blame \cup {"failed"}
    BY <1>5, AwaitShape DEF MailNew
  <2>2. who[r] \in Ids /\ held[r] \in Ids
    BY <1>1, <1>5 DEF MailNew, Await, Doing
  <2>3. [kind |-> Kind(r), id |-> held[r], user |-> who[r]] \in Mail
    BY <1>1, <2>2 DEF Mail
  <2>4. acked' \in Passwords \cup {None}
    BY <1>5 DEF MailNew, Acknowledge, TypeOK
  <2> QED BY <1>5, <2>1, <2>3, <2>4 DEF MailNew, TypeOK, Await
<1>6. CASE FindCode(r) \/ Conflict(r)
  BY <1>6 DEF FindCode, Conflict, End, TypeOK
<1>7. CASE CallFails(r)
  BY <1>7, AccountsAssumption DEF CallFails, End, TypeOK
<1>8. CASE SetVerified(r)
  <2>1. pc' \in [Reqs -> Awaits] /\ faults' \in 0..MaxFaults /\ blame' \subseteq blame \cup {"failed"}
    BY <1>8, AwaitShape DEF SetVerified
  <2>2. user' \in Row
    BY <1>8 DEF SetVerified, Mine, TypeOK, Row
  <2> QED BY <1>8, <2>1, <2>2 DEF SetVerified, TypeOK, Await
<1>9. CASE SetPassword(r)
  <2>1. /\ pc' \in [Reqs -> Awaits] /\ faults' \in 0..MaxFaults
        /\ blame' \subseteq blame \cup {"failed"} /\ pc[r] = "setPassword"
    BY <1>9, AwaitShape DEF SetPassword
  <2>2. user' \in Row /\ acked' \in Passwords \cup {None}
    BY <1>9 DEF SetPassword, Mine, Acknowledge, TypeOK, Row
  <2>3. resets' \subseteq Ids
    BY <1>1, <1>9, <2>1 DEF SetPassword, Doing, TypeOK
  <2> QED BY <1>9, <2>1, <2>2, <2>3 DEF SetPassword, TypeOK, Await
<1>10. CASE SpendToken(r)
  <2>1. pc' \in [Reqs -> Awaits] /\ faults' \in 0..MaxFaults /\ blame' \subseteq blame \cup {"failed"}
    BY <1>10, AwaitShape DEF SpendToken
  <2>2. \A s \in Token(r) : [s EXCEPT !.used = TRUE] \in Secret
    BY DEF Token, TypeOK, Secret
  <2>3. secrets' \subseteq Secret /\ acked' \in Passwords \cup {None}
    BY <1>10, <2>2 DEF SpendToken, Acknowledge, TypeOK
  <2> QED BY <1>10, <2>1, <2>3 DEF SpendToken, TypeOK, Await
<1>11. CASE DeleteUser(r)
  <2>1. pc' \in [Reqs -> Awaits] /\ faults' \in 0..MaxFaults /\ blame' \subseteq blame \cup {"failed"}
    BY <1>11, AwaitShape DEF DeleteUser
  <2> QED BY <1>11, <2>1 DEF DeleteUser, TypeOK, Await
<1> QED BY <1>2, <1>3, <1>4, <1>5, <1>6, <1>7, <1>8, <1>9, <1>10, <1>11 DEF Proceed

LEMMA ExpireTyped == ASSUME TypeOK, NEW s \in secrets, Expire(s) PROVE TypeOK'
<1>1. [s EXCEPT !.live = FALSE] \in Secret
  BY DEF TypeOK, Secret
<1> QED BY <1>1 DEF Expire, TypeOK, reqVars

-----------------------------------------------------------------------------
\* What a step leaves alone.

\* Every secret is the new one, or comes of an old one.
Descends == \A t \in secrets' :
    \/ t.id = nextId /\ nextId' = nextId + 1
    \/ \E s \in secrets : s.id = t.id /\ s.kind = t.kind /\ s.user = t.user /\ (s.used => t.used)

SameRequest(q) ==
    /\ pc'[q] = pc[q] /\ op'[q] = op[q] /\ who'[q] = who[q]
    /\ held'[q] = held[q] /\ word'[q] = word[q]

LEMMA ProceedShape ==
    ASSUME TypeOK, NEW r \in Reqs, Proceed(r)
    PROVE  /\ \A q \in Reqs \ {r} : SameRequest(q)
           /\ op' = op /\ word' = word
           /\ nextId' \in {nextId, nextId + 1} /\ inbox \subseteq inbox' /\ Descends
           /\ blame \subseteq blame'
<1> USE DEF SameRequest, Descends, Awaits
<1>1. CASE CreateUser(r)
  BY <1>1, AwaitShape DEF CreateUser, TypeOK
<1>2. CASE DropOld(r) \/ SpendCodes(r)
  BY <1>2, AwaitShape DEF DropOld, SpendCodes, Others
<1>3. CASE AddNew(r)
  BY <1>3, AwaitShape DEF AddNew, TypeOK
<1>4. CASE MailNew(r)
  BY <1>4, AwaitShape DEF MailNew
<1>5. CASE SetVerified(r) \/ SetPassword(r) \/ DeleteUser(r)
  BY <1>5, AwaitShape DEF SetVerified, SetPassword, DeleteUser
<1>6. CASE FindCode(r) \/ Conflict(r) \/ CallFails(r)
  BY <1>6 DEF FindCode, Conflict, CallFails, End, TypeOK
<1>7. CASE SpendToken(r)
  <2>1. \A s \in Token(r) : LET t == [s EXCEPT !.used = TRUE]
                            IN  t.id = s.id /\ t.kind = s.kind /\ t.user = s.user /\ t.used
    BY DEF Token, TypeOK, Secret
  <2>2. ASSUME NEW t \in secrets'
        PROVE  \E s \in secrets : s.id = t.id /\ s.kind = t.kind /\ s.user = t.user /\ (s.used => t.used)
    <3>1. t \in secrets \/ \E s \in Token(r) : t = [s EXCEPT !.used = TRUE]
      BY <1>7 DEF SpendToken
    <3>2. CASE t \in secrets
      BY <3>2
    <3>3. CASE \E s \in Token(r) : t = [s EXCEPT !.used = TRUE]
      BY <2>1, <3>3 DEF Token
    <3> QED BY <3>1, <3>2, <3>3
  <2> QED BY <1>7, <2>2, AwaitShape DEF SpendToken
<1> QED BY <1>1, <1>2, <1>3, <1>4, <1>5, <1>6, <1>7 DEF Proceed

LEMMA ExpireShape ==
    ASSUME TypeOK, NEW s \in secrets, Expire(s)
    PROVE  Descends /\ UNCHANGED <<user, inbox, reqVars, acked, resets, blame, nextId>>
<1>1. LET t == [s EXCEPT !.live = FALSE]
      IN  t.id = s.id /\ t.kind = s.kind /\ t.user = s.user /\ t.used = s.used
  BY DEF TypeOK, Secret
<1> QED BY <1>1 DEF Expire, Descends

\* A request that takes no step keeps what it knows.
LEMMA DoingKept ==
    ASSUME TypeOK, NEW q \in Reqs, Doing(q), SameRequest(q),
           nextId' \in {nextId, nextId + 1}, inbox \subseteq inbox', Descends
    PROVE  Doing(q)'
<1>1. nextId \in Nat
  BY DEF TypeOK, Ids
<1>2. pc[q] = "mail" => \A t \in secrets' : t.id = held[q] => t.kind = Kind(q) /\ t.user = who[q]
  BY <1>1 DEF Doing, Descends, Ids
<1>3. Kind(q)' = Kind(q) /\ Local(q)' = Local(q)
  BY DEF SameRequest, Kind, Local
<1>4. ByOwner(q, who[q]) => ByOwner(q, who[q])'
  BY DEF ByOwner, SameRequest
<1> QED BY <1>1, <1>2, <1>3, <1>4 DEF Doing, SameRequest, Ids

\* Where each request goes, and what it knows then.
LEMMA ActorDoing ==
    ASSUME IInv, NEW r \in Reqs, Proceed(r) PROVE Doing(r)'
<1> USE DEF Awaits
<1>1. /\ TypeOK /\ Doing(r) /\ Fresh /\ SameMail /\ nextId \in Nat /\ r \in DOMAIN pc
      /\ r \in DOMAIN who /\ r \in DOMAIN held
  BY DEF IInv, TypeOK, Ids
<1>2. CASE pc'[r] = "idle"
  <2>1. op' = op /\ pc'[r] \notin {"mail", "setPassword", "spend", "findCode", "setVerified"}
    BY <1>1, <1>2, ProceedShape
  <2> QED BY <1>2, <2>1 DEF Doing
<1>3. CASE CreateUser(r) /\ pc'[r] # "idle"
  <2>1. pc'[r] = "drop" /\ op[r] = "register" /\ op' = op /\ who'[r] = nextId /\ nextId' = nextId + 1
    BY <1>1, <1>3, AwaitShape DEF CreateUser
  <2> QED BY <1>1, <2>1 DEF Doing, Local, Ids, TypeOK
<1>4. CASE DropOld(r) /\ pc'[r] # "idle"
  <2>1. pc[r] = "drop" /\ pc'[r] = "add" /\ UNCHANGED <<op, word, who, held, nextId, inbox>>
    BY <1>1, <1>4, AwaitShape DEF DropOld
  <2> QED BY <1>1, <2>1 DEF Doing, Local
<1>5. CASE AddNew(r) /\ pc'[r] # "idle"
  <2>1. /\ pc[r] = "add" /\ pc'[r] = "mail" /\ UNCHANGED <<op, word, who>>
        /\ held'[r] = nextId /\ nextId' = nextId + 1
        /\ secrets' = secrets \cup {[kind |-> Kind(r), id |-> nextId, user |-> who[r],
                                     live |-> TRUE, used |-> FALSE]}
    BY <1>1, <1>5, AwaitShape DEF AddNew
  <2>2. who[r] \in Ids /\ who[r] < nextId /\ Local(r) /\ Local(r)' /\ Kind(r)' = Kind(r)
    BY <1>1, <2>1 DEF Doing, Local, Kind
  <2>3. \A s \in secrets' : s.id = nextId => s.kind = Kind(r) /\ s.user = who[r]
    BY <1>1, <2>1 DEF Fresh
  <2>4. nextId \in Ids /\ nextId < nextId'
    BY <1>1, <2>1 DEF TypeOK
  <2> QED BY <1>1, <2>1, <2>2, <2>3, <2>4 DEF Doing, Ids
<1>6. CASE FindCode(r) /\ pc'[r] # "idle"
  <2>1. /\ pc[r] = "findCode" /\ pc'[r] = "setVerified" /\ UNCHANGED <<op, word, who, held, nextId, inbox>>
        /\ \E s \in secrets : s.kind = "code" /\ s.id = held[r] /\ s.user = who[r]
    BY <1>1, <1>6 DEF FindCode
  <2>2. \E m \in inbox : m.kind = "code" /\ m.user = who[r]
    BY <1>1, <2>1 DEF Doing, SameMail
  <2> QED BY <1>1, <2>1, <2>2 DEF Doing
<1>7. CASE SetVerified(r) /\ pc'[r] # "idle"
  <2>1. pc[r] = "setVerified" /\ pc'[r] = "spend" /\ UNCHANGED <<op, word, who, held, nextId>>
    BY <1>1, <1>7, AwaitShape DEF SetVerified
  <2> QED BY <1>1, <2>1 DEF Doing
<1>8. CASE SetPassword(r) /\ pc'[r] # "idle"
  <2>1. /\ pc[r] = "setPassword" /\ pc'[r] = "spend" /\ op[r] = "reset"
        /\ UNCHANGED <<op, word, who, held, nextId>>
    BY <1>1, <1>8, AwaitShape DEF SetPassword
  <2> QED BY <1>1, <2>1 DEF Doing
<1>9. CASE MailNew(r) \/ SpendCodes(r) \/ SpendToken(r) \/ DeleteUser(r)
  <2>1. pc'[r] = "idle"
    BY <1>1, <1>9, AwaitShape DEF MailNew, SpendCodes, SpendToken, DeleteUser
  <2> QED BY <1>2, <2>1
<1>10. CASE Conflict(r) \/ CallFails(r)
  BY <1>1, <1>2, <1>10 DEF Conflict, CallFails, End
<1> QED BY <1>2, <1>3, <1>4, <1>5, <1>6, <1>7, <1>8, <1>9, <1>10 DEF Proceed

\* What a new request knows.
LEMMA ArriveShape ==
    ASSUME TypeOK, NEW r \in Reqs, Arrive(r)
    PROVE  /\ \A q \in Reqs \ {r} : SameRequest(q)
           /\ UNCHANGED <<user, secrets, inbox, acked, resets, nextId, faults>>
           /\ ~InFlight(r) /\ op'[r] \in Ops
           /\ blame' = blame \cup {a \in Areas(op'[r]) : \E q \in Reqs : InFlight(q) /\ a \in Areas(op[q])}
           /\ \/ pc'[r] = "createUser" /\ op'[r] = "register"
              \/ pc'[r] = "createUser" /\ op'[r] = "oauth" /\ word'[r] = None
              \/ /\ user # None /\ who'[r] = user.id
                 /\ \/ pc'[r] = "drop" /\ op'[r] \in {"resend", "forgot"}
                    \/ pc'[r] = "setPassword" /\ op'[r] = "change" /\ word'[r] \in Passwords
                    \/ pc'[r] = "deleteUser" /\ op'[r] = "delete"
                    \/ /\ pc'[r] = "findCode" /\ op'[r] = "verify"
                       /\ \E m \in inbox : m.kind = "code" /\ m.id = held'[r]
              \/ /\ pc'[r] = "setPassword" /\ op'[r] = "reset" /\ word'[r] \in Passwords
                 /\ \E s \in secrets : /\ s.kind = "token" /\ s.id = held'[r] /\ ~s.used
                                       /\ who'[r] = s.user
                 /\ \E m \in inbox : m.kind = "token" /\ m.id = held'[r]
<1> USE DEF Begin, SameRequest, Ops, TypeOK, InFlight
<1>1. CASE OAuthLogin(r) \/ \E w \in Passwords : Register(r, w)
  BY <1>1 DEF OAuthLogin, Register
<1>2. CASE Resend(r) \/ Forgot(r) \/ Delete(r) \/ \E w \in Passwords : Change(r, w)
  BY <1>2 DEF Resend, Forgot, Delete, Change
<1>3. CASE \E m \in inbox : Verify(r, m)
  BY <1>3 DEF Verify
<1>4. CASE \E m \in inbox, w \in Passwords : Reset(r, m, w)
  BY <1>4 DEF Reset, Usable
<1> QED BY <1>1, <1>2, <1>3, <1>4 DEF Arrive

LEMMA NewcomerDoing == ASSUME IInv, NEW r \in Reqs, Arrive(r) PROVE Doing(r)'
<1>1. /\ TypeOK /\ Fresh /\ SameMail
      /\ (user # None => user.id \in Ids) /\ \A s \in secrets : s.id \in Ids
  BY DEF IInv, TypeOK, Row, Secret
<1>2. op'[r] = "reset" /\ pc'[r] = "setPassword" => ByOwner(r, who[r])'
  BY <1>1, ArriveShape DEF ByOwner, SameMail
<1> QED BY <1>1, <1>2, ArriveShape DEF Doing, Local, Fresh

-----------------------------------------------------------------------------
\* Ids, mails and verification.

LEMMA ProceedFresh == ASSUME IInv, TypeOK', NEW r \in Reqs, Proceed(r) PROVE Fresh'
<1> USE DEF Awaits
<1>1. TypeOK /\ Doing(r) /\ Fresh /\ nextId \in Nat
  BY DEF IInv, TypeOK, Ids
<1>2. nextId' \in {nextId, nextId + 1} /\ Descends
  BY <1>1, ProceedShape
<1>3. \A t \in secrets' : t.id < nextId'
  <2> SUFFICES ASSUME NEW t \in secrets' PROVE t.id < nextId'
    OBVIOUS
  <2>1. \A s \in secrets : s.id \in Nat /\ s.id < nextId
    BY <1>1 DEF TypeOK, Secret, Ids, Fresh
  <2> QED BY <1>1, <1>2, <2>1 DEF Descends
<1>4. user' # None => user'.id < nextId'
  <2>1. user # None => user.id \in Nat /\ user.id < nextId
    BY <1>1 DEF TypeOK, Row, Ids, Fresh
  <2>2. CASE user' = user
    BY <1>1, <1>2, <2>1, <2>2
  <2>3. CASE CreateUser(r)
    BY <1>1, <2>3 DEF CreateUser
  <2>4. CASE SetVerified(r) \/ SetPassword(r)
    BY <1>1, <1>2, <2>1, <2>4 DEF SetVerified, SetPassword, Mine, TypeOK, Row
  <2>5. CASE DeleteUser(r)
    BY <2>5 DEF DeleteUser
  <2> QED BY <2>2, <2>3, <2>4, <2>5 DEF Proceed, DropOld, AddNew, MailNew, FindCode, SpendCodes,
             SpendToken, Conflict, CallFails, End
<1>5. \A t \in secrets' : user' # None /\ t.user = user'.id
  <2>1. CASE CreateUser(r) \/ DeleteUser(r)
    <3>1. secrets' = {}
      BY <1>1, <2>1 DEF CreateUser, DeleteUser, Fresh, Mine
    <3> QED BY <3>1
  <2>2. CASE SetVerified(r) \/ SetPassword(r)
    <3>1. user \in Row /\ secrets' = secrets
      BY <1>1, <2>2 DEF SetVerified, SetPassword, Mine, TypeOK
    <3>2. user' = [user EXCEPT !.verified = TRUE] \/ user' = [user EXCEPT !.password = word[r]]
      BY <2>2 DEF SetVerified, SetPassword
    <3>3. user' \in Row /\ user'.id = user.id
      <4>1. word[r] \in Passwords \cup {None}
        BY <1>1 DEF TypeOK
      <4>2. CASE user' = [user EXCEPT !.verified = TRUE]
        BY <3>1, <4>2 DEF Row
      <4>3. CASE user' = [user EXCEPT !.password = word[r]]
        BY <3>1, <4>1, <4>3 DEF Row
      <4> QED BY <3>2, <4>2, <4>3
    <3>4. user # None /\ user' # None
      BY <3>1, <3>3, AccountsAssumption
    <3> QED BY <1>1, <3>1, <3>3, <3>4 DEF Fresh
  <2>3. CASE AddNew(r)
    BY <1>1, <2>3 DEF AddNew, Fresh, Mine
  <2>4. CASE user' = user /\ \A t \in secrets' : \E s \in secrets : s.user = t.user
    BY <1>1, <2>4 DEF Fresh
  <2>5. CASE SpendToken(r)
    <3>1. \A s \in Token(r) : s \in secrets /\ [s EXCEPT !.used = TRUE].user = s.user
      BY <1>1 DEF Token, TypeOK, Secret
    <3> QED BY <2>4, <2>5, <3>1 DEF SpendToken
  <2> QED BY <2>1, <2>2, <2>3, <2>4, <2>5 DEF Proceed, DropOld, MailNew, FindCode, SpendCodes, Others,
             Conflict, CallFails, End
<1>6. \A m \in inbox' : m.id < nextId'
  <2>1. \A m \in inbox : m.id \in Nat /\ m.id < nextId
    BY <1>1 DEF TypeOK, Mail, Ids, Fresh
  <2>2. CASE MailNew(r)
    BY <1>1, <1>2, <2>1, <2>2 DEF MailNew, Await, Doing, Ids
  <2>3. CASE inbox' = inbox
    BY <1>1, <1>2, <2>1, <2>3
  <2> QED BY <2>2, <2>3 DEF Proceed, CreateUser, DropOld, AddNew, FindCode, SetVerified, SpendCodes,
             SetPassword, SpendToken, DeleteUser, Conflict, CallFails, End
<1>7. \A i \in resets' : i < nextId'
  <2>1. \A i \in resets : i \in Nat /\ i < nextId
    BY <1>1 DEF TypeOK, Ids, Fresh
  <2>2. CASE SetPassword(r)
    BY <1>1, <1>2, <2>1, <2>2 DEF SetPassword, Await, Doing, Ids
  <2>3. CASE resets' = resets
    BY <1>1, <1>2, <2>1, <2>3
  <2> QED BY <2>2, <2>3 DEF Proceed, CreateUser, DropOld, AddNew, MailNew, FindCode, SetVerified,
             SpendCodes, SpendToken, DeleteUser, Conflict, CallFails, End
<1> QED BY <1>3, <1>4, <1>5, <1>6, <1>7 DEF Fresh

\* A secret that comes of an old one has the old one's mails.
LEMMA DescentKeepsMail ==
    ASSUME TypeOK, SameMail, Fresh, Descends, NEW t \in secrets', NEW m \in inbox, t.id = m.id
    PROVE  t.kind = m.kind /\ t.user = m.user
<1>1. m.id \in Nat /\ nextId \in Nat /\ m.id < nextId
  BY DEF TypeOK, Mail, Ids, Fresh
<1> QED BY <1>1 DEF Descends, SameMail

LEMMA ProceedSameMail == ASSUME IInv, NEW r \in Reqs, Proceed(r) PROVE SameMail'
<1>1. TypeOK /\ Doing(r) /\ Fresh /\ SameMail /\ Descends
  BY ProceedShape DEF IInv
<1>2. CASE MailNew(r)
  <2>1. /\ secrets' = secrets /\ pc[r] = "mail"
        /\ inbox' = inbox \cup {[kind |-> Kind(r), id |-> held[r], user |-> who[r]]}
    BY <1>2 DEF MailNew, Await
  <2> QED BY <1>1, <2>1 DEF SameMail, Doing
<1>3. CASE inbox' = inbox
  BY <1>1, <1>3, DescentKeepsMail DEF SameMail
<1> QED BY <1>2, <1>3 DEF Proceed, CreateUser, DropOld, AddNew, FindCode, SetVerified, SpendCodes,
           SetPassword, SpendToken, DeleteUser, Conflict, CallFails, End

LEMMA ProceedVerified == ASSUME IInv, NEW r \in Reqs, Proceed(r) PROVE VerifiedByMail'
<1>1. TypeOK /\ Doing(r) /\ VerifiedByMail /\ inbox \subseteq inbox'
  BY ProceedShape DEF IInv
<1>2. CASE user' = user
  BY <1>1, <1>2 DEF VerifiedByMail
<1>3. CASE CreateUser(r)
  BY <1>3 DEF CreateUser, VerifiedByMail
<1>4. CASE SetVerified(r)
  <2>1. user' = [user EXCEPT !.verified = TRUE] /\ user \in Row /\ user.id = who[r] /\ inbox' = inbox
    BY <1>1, <1>4 DEF SetVerified, Mine, TypeOK
  <2>2. user'.id = who[r]
    BY <2>1 DEF Row
  <2>3. \E m \in inbox : m.kind = "code" /\ m.user = who[r]
    BY <1>1, <1>4 DEF SetVerified, Await, Doing
  <2> QED BY <2>1, <2>2, <2>3 DEF VerifiedByMail
<1>5. CASE SetPassword(r)
  <2>1. user' = [user EXCEPT !.password = word[r]] /\ user # None /\ user \in Row /\ inbox' = inbox
    BY <1>1, <1>5 DEF SetPassword, Mine, TypeOK
  <2>2. user'.id = user.id /\ user'.provider = user.provider /\ user'.verified = user.verified
    BY <2>1 DEF Row
  <2> QED BY <1>1, <2>1, <2>2 DEF VerifiedByMail
<1>6. CASE DeleteUser(r)
  BY <1>6 DEF DeleteUser, VerifiedByMail
<1> QED BY <1>2, <1>3, <1>4, <1>5, <1>6 DEF Proceed, DropOld, AddNew, MailNew, FindCode, SpendCodes,
           SpendToken, Conflict, CallFails, End

-----------------------------------------------------------------------------
\* Overlaps: of the requests on one area, one is in flight, or the area is
\* marked.

LEMMA AreasOf ==
    /\ "token" \in Areas("reset") /\ "token" \in Areas("forgot") /\ "token" \in Areas("delete")
    /\ "password" \in Areas("reset") /\ "password" \in Areas("change")
    /\ "password" \in Areas("register") /\ "password" \in Areas("delete")
    /\ "code" \in Areas("register") /\ "code" \in Areas("resend")
BY DEF Areas

LEMMA KindArea == ASSUME NEW r, Local(r) PROVE Kind(r) \in Areas(op[r]) /\ Kind(r) \in Kinds
BY AreasOf DEF Local, Kind, Kinds

LEMMA ProceedBusy == ASSUME NEW r \in Reqs, Proceed(r) PROVE InFlight(r)
BY DEF Proceed, CreateUser, DropOld, AddNew, MailNew, FindCode, SetVerified, SpendCodes,
       SetPassword, SpendToken, DeleteUser, Conflict, CallFails, Await, InFlight

LEMMA ProceedAlone ==
    ASSUME IInv, NEW r \in Reqs, Proceed(r), NEW a, Alone(a) PROVE Alone(a)'
<1>1. InFlight(r) /\ op' = op /\ blame \subseteq blame' /\ \A q \in Reqs \ {r} : pc'[q] = pc[q]
  BY ProceedBusy, ProceedShape DEF IInv, SameRequest
<1> QED BY <1>1 DEF Alone, InFlight

LEMMA ArriveAlone ==
    ASSUME IInv, NEW r \in Reqs, Arrive(r), NEW a, Alone(a) PROVE Alone(a)'
<1>1. /\ \A q \in Reqs \ {r} : pc'[q] = pc[q] /\ op'[q] = op[q]
      /\ blame' = blame \cup {b \in Areas(op'[r]) : \E q \in Reqs : InFlight(q) /\ b \in Areas(op[q])}
  BY ArriveShape DEF IInv, SameRequest
<1> QED BY <1>1 DEF Alone, InFlight

-----------------------------------------------------------------------------
\* One secret of a kind.

LEMMA SingleKept ==
    ASSUME NEW kind, Single(kind), blame \subseteq blame', secrets' \subseteq secrets,
           \A q \in Reqs : pc'[q] = "add" =>
              SameRequest(q) /\ (user' # None /\ user'.id = who[q] => Mine(q))
    PROVE  Single(kind)'
<1>1. ASSUME NEW q \in Reqs, pc'[q] = "add"
      PROVE  pc[q] = "add" /\ Kind(q)' = Kind(q) /\ (Mine(q)' => Mine(q))
  BY <1>1 DEF SameRequest, Kind, Mine
<1> QED BY <1>1 DEF Single

LEMMA ProceedSingle ==
    ASSUME IInv, NEW r \in Reqs, Proceed(r), NEW kind \in Kinds PROVE Single(kind)'
<1> USE DEF Awaits
<1>1. /\ TypeOK /\ Doing(r) /\ Fresh /\ Single(kind) /\ Alone(kind)
      /\ \A q \in Reqs : Doing(q)
  BY DEF IInv, Kinds
<1>2. /\ \A q \in Reqs \ {r} : SameRequest(q)
      /\ op' = op /\ blame \subseteq blame'
  BY <1>1, ProceedShape
<1>3. CASE secrets' = {}
  BY <1>3 DEF Single
<1>4. CASE DropOld(r)
  <2>1. pc[r] = "drop" /\ UNCHANGED <<user, who>> /\ secrets' = Others(r) /\ Others(r) \subseteq secrets
    BY <1>1, <1>4, AwaitShape DEF DropOld, Others
  <2>2. ASSUME kind \notin blame', NEW q \in Reqs, pc'[q] = "add", Kind(q)' = kind, Mine(q)',
               NEW s \in secrets'
        PROVE  s.kind # kind
    <3>1. Kind(q) = kind /\ Mine(q)
      BY <1>2, <2>1, <2>2 DEF Kind, Mine
    <3>2. CASE q = r
      BY <1>1, <2>1, <2>2, <3>1, <3>2 DEF Others, Fresh, Mine
    <3>3. CASE q # r
      BY <1>1, <1>2, <2>1, <2>2, <3>1, <3>3 DEF Single, SameRequest
    <3> QED BY <3>2, <3>3
  <2> QED BY <1>1, <1>2, <2>1, <2>2 DEF Single
<1>5. CASE AddNew(r)
  <2> DEFINE n == [kind |-> Kind(r), id |-> nextId, user |-> who[r], live |-> TRUE, used |-> FALSE]
  <2>1. /\ pc[r] = "add" /\ pc'[r] # "add" /\ UNCHANGED <<user, who>> /\ Mine(r)
        /\ secrets' = secrets \cup {n}
    BY <1>1, <1>5, AwaitShape DEF AddNew
  <2>2. \A q \in Reqs : pc'[q] = "add" => pc[q] = "add" /\ q # r /\ Kind(q)' = Kind(q) /\ Mine(q)' = Mine(q)
    BY <1>2, <2>1 DEF SameRequest, Kind, Mine
  <2>3. CASE Kind(r) = kind /\ kind \notin blame
    <3>1. \A s \in secrets : s.kind # kind
      BY <1>1, <2>1, <2>3 DEF Single
    <3>2. ASSUME NEW q \in Reqs, pc'[q] = "add", Kind(q) = kind PROVE FALSE
      <4>1. Local(q) /\ Local(r) /\ InFlight(q) /\ InFlight(r)
        BY <1>1, <2>1, <2>2, <3>2 DEF Doing, InFlight
      <4> QED BY <1>1, <2>2, <2>3, <3>2, <4>1, KindArea DEF Alone
    <3> QED BY <2>1, <2>2, <3>1, <3>2 DEF Single
  <2>4. CASE Kind(r) # kind
    <3>1. n.kind # kind
      BY <2>4
    <3> QED BY <1>1, <1>2, <2>1, <2>2, <3>1 DEF Single
  <2> QED BY <1>2, <2>3, <2>4 DEF Single
<1>6. CASE SpendCodes(r) \/ MailNew(r) \/ FindCode(r) \/ Conflict(r) \/ CallFails(r)
  <2>1. pc'[r] # "add" /\ UNCHANGED <<user, who>> /\ secrets' \subseteq secrets
    BY <1>1, <1>6, AwaitShape DEF SpendCodes, Others, MailNew, FindCode, Conflict, CallFails, End, TypeOK
  <2> QED BY <1>1, <1>2, <2>1, SingleKept DEF Mine
<1>7. CASE SetVerified(r) \/ SetPassword(r)
  <2>1. pc'[r] # "add" /\ who' = who /\ secrets' = secrets /\ user # None /\ user'.id = user.id
    BY <1>1, <1>7, AwaitShape DEF SetVerified, SetPassword, Mine, TypeOK, Row
  <2> QED BY <1>1, <1>2, <2>1, SingleKept DEF Mine
<1>8. CASE SpendToken(r)
  <2>1. pc'[r] = "idle" /\ UNCHANGED <<user, who>>
        /\ secrets' = (secrets \ Token(r)) \cup {[s EXCEPT !.used = TRUE] : s \in Token(r)}
    BY <1>1, <1>8, AwaitShape DEF SpendToken
  <2>2. Token(r) \subseteq secrets /\ \A s \in Token(r) : [s EXCEPT !.used = TRUE].kind = s.kind
    BY <1>1 DEF Token, TypeOK, Secret
  <2>3. \A q \in Reqs : pc'[q] = "add" => pc[q] = "add" /\ Kind(q)' = Kind(q) /\ Mine(q)' = Mine(q)
    BY <1>2, <2>1 DEF SameRequest, Kind, Mine
  <2>4. \A t \in secrets' : \E s \in secrets :
           s.kind = t.kind /\ t = IF s \in Token(r) THEN [s EXCEPT !.used = TRUE] ELSE s
    BY <2>1, <2>2
  <2> QED BY <1>1, <1>2, <2>3, <2>4 DEF Single
<1>9. CASE CreateUser(r) \/ DeleteUser(r)
  <2>1. secrets' = {}
    BY <1>1, <1>9 DEF CreateUser, DeleteUser, Fresh, Mine
  <2> QED BY <1>3, <2>1
<1> QED BY <1>4, <1>5, <1>6, <1>7, <1>8, <1>9 DEF Proceed

LEMMA ExpireSingle == ASSUME IInv, NEW s \in secrets, Expire(s), NEW kind \in Kinds PROVE Single(kind)'
<1>1. /\ TypeOK /\ Single(kind) /\ UNCHANGED <<user, reqVars, blame>>
      /\ secrets' = (secrets \ {s}) \cup {[s EXCEPT !.live = FALSE]}
      /\ [s EXCEPT !.live = FALSE].kind = s.kind
  BY DEF IInv, Expire, TypeOK, Secret
<1>2. \A q \in Reqs : Kind(q)' = Kind(q) /\ Mine(q)' = Mine(q) /\ pc'[q] = pc[q]
  BY <1>1 DEF Kind, Mine, reqVars
<1>3. \A t \in secrets' : \E u \in secrets :
         u.kind = t.kind /\ t = IF u = s THEN [s EXCEPT !.live = FALSE] ELSE u
  BY <1>1
<1> QED BY <1>1, <1>2, <1>3 DEF Single

LEMMA ArriveSingle == ASSUME IInv, NEW r \in Reqs, Arrive(r), NEW kind \in Kinds PROVE Single(kind)'
<1>1. /\ TypeOK /\ Single(kind) /\ blame \subseteq blame' /\ UNCHANGED <<user, secrets>>
      /\ pc'[r] # "add" /\ \A q \in Reqs \ {r} : SameRequest(q)
  BY ArriveShape DEF IInv
<1> QED BY <1>1, SingleKept DEF Mine

-----------------------------------------------------------------------------
\* Reset tokens, and the password that is accepted.

\* Requests in flight on one area are one request.
LEMMA OnlyOne ==
    ASSUME NEW a, Alone(a), a \notin blame, NEW q \in Reqs, NEW r \in Reqs,
           InFlight(q), InFlight(r), a \in Areas(op[q]), a \in Areas(op[r])
    PROVE  q = r
BY DEF Alone

LEMMA ProceedSpending == ASSUME IInv, NEW r \in Reqs, Proceed(r) PROVE Spending'
<1> USE DEF Awaits
<1>1. /\ TypeOK /\ Doing(r) /\ Fresh /\ Spending /\ Alone("token") /\ InFlight(r)
      /\ nextId \in Nat /\ \A i \in resets : i < nextId
  BY ProceedBusy DEF IInv, Fresh, TypeOK, Ids
<1>2. /\ \A q \in Reqs \ {r} : SameRequest(q)
      /\ op' = op /\ blame \subseteq blame' /\ Descends
  BY <1>1, ProceedShape
<1> SUFFICES ASSUME blame' \cap {"token", "failed"} = {} PROVE Spending'
  BY DEF Spending
<1>3. /\ "token" \notin blame /\ "failed" \notin blame /\ "failed" \notin blame'
      /\ blame \cap {"token", "failed"} = {}
  BY <1>2
<1>4. /\ \A q \in Reqs : op[q] = "reset" /\ pc[q] = "setPassword" => held[q] \notin resets
      /\ \A s \in secrets : s.kind = "token" /\ s.id \in resets =>
            s.used \/ \E q \in Reqs : Resets(q) /\ held[q] = s.id
  BY <1>1, <1>3 DEF Spending
<1>5. ASSUME resets' = resets, pc'[r] # "setPassword",
             \A t \in secrets' : t.kind = "token" /\ Resets(r) /\ t.id = held[r] => t.used
      PROVE  Spending'
  <2>1. ASSUME NEW q \in Reqs, op'[q] = "reset", pc'[q] = "setPassword" PROVE held'[q] \notin resets'
    BY <1>2, <1>4, <1>5, <2>1 DEF SameRequest
  <2>2. ASSUME NEW t \in secrets', t.kind = "token", t.id \in resets',  ~t.used
        PROVE  \E q \in Reqs : Resets(q)' /\ held'[q] = t.id
    <3>1. t.id # nextId
      BY <1>1, <1>5, <2>2
    <3>2. PICK s \in secrets : s.id = t.id /\ s.kind = "token" /\ ~s.used
      BY <1>2, <2>2, <3>1 DEF Descends
    <3>3. PICK q \in Reqs : Resets(q) /\ held[q] = t.id
      BY <1>4, <1>5, <2>2, <3>2
    <3>4. q # r
      BY <1>5, <2>2, <3>3
    <3> QED BY <1>2, <3>3, <3>4 DEF Resets, SameRequest
  <2> QED BY <2>1, <2>2 DEF Spending
<1>6. CASE CreateUser(r) \/ DropOld(r) \/ AddNew(r) \/ MailNew(r) \/ FindCode(r)
           \/ SetVerified(r) \/ SpendCodes(r) \/ DeleteUser(r)
  <2>1. resets' = resets /\ pc'[r] # "setPassword" /\ ~Resets(r)
    BY <1>1, <1>6, AwaitShape DEF CreateUser, DropOld, AddNew, MailNew, FindCode, SetVerified,
       SpendCodes, DeleteUser, Resets, TypeOK
  <2> QED BY <1>5, <2>1
<1>7. CASE SetPassword(r)
  <2>1. /\ pc[r] = "setPassword" /\ pc'[r] = IF op[r] = "reset" THEN "spend" ELSE "idle"
        /\ UNCHANGED <<secrets, held>>
        /\ resets' = IF op[r] = "reset" THEN resets \cup {held[r]} ELSE resets
    BY <1>1, <1>3, <1>7, AwaitShape DEF SetPassword
  <2>2. CASE op[r] = "reset"
    <3>1. ASSUME NEW q \in Reqs, op'[q] = "reset", pc'[q] = "setPassword" PROVE FALSE
      <4>1. InFlight(q) /\ op[q] = "reset" /\ q # r
        BY <1>2, <2>1, <2>2, <3>1 DEF InFlight, SameRequest
      <4> QED BY <1>1, <1>3, <2>2, <4>1, OnlyOne, AreasOf
    <3>2. ASSUME NEW t \in secrets', t.kind = "token", t.id \in resets', ~t.used
          PROVE  \E q \in Reqs : Resets(q)' /\ held'[q] = t.id
      <4>1. CASE t.id = held[r]
        BY <1>2, <2>1, <2>2, <4>1 DEF Resets
      <4>2. CASE t.id \in resets
        <5>1. PICK q \in Reqs : Resets(q) /\ held[q] = t.id
          BY <1>4, <2>1, <3>2, <4>2
        <5>2. q # r
          BY <2>1, <5>1 DEF Resets
        <5> QED BY <1>2, <5>1, <5>2 DEF Resets, SameRequest
      <4> QED BY <2>1, <2>2, <3>2, <4>1, <4>2
    <3> QED BY <3>1, <3>2 DEF Spending
  <2>3. CASE op[r] # "reset"
    BY <1>5, <2>1, <2>3 DEF Resets
  <2> QED BY <2>2, <2>3
<1>8. CASE SpendToken(r)
  <2>1. /\ resets' = resets /\ pc'[r] = "idle"
        /\ secrets' = (secrets \ Token(r)) \cup {[s EXCEPT !.used = TRUE] : s \in Token(r)}
    BY <1>1, <1>8, AwaitShape DEF SpendToken
  <2>2. \A s \in Token(r) : [s EXCEPT !.used = TRUE].used
    BY <1>1 DEF Token, TypeOK, Secret
  <2>3. \A t \in secrets \ Token(r) : t.kind = "token" => t.id # held[r]
    BY DEF Token
  <2> QED BY <1>5, <2>1, <2>2, <2>3
<1>9. CASE Conflict(r)
  <2>1. resets' = resets /\ pc'[r] = "idle" /\ secrets' = secrets /\ (Resets(r) => Token(r) = {})
    BY <1>1, <1>9 DEF Conflict, End, Resets, TypeOK
  <2> QED BY <1>5, <2>1 DEF Token
<1>10. CASE CallFails(r)
  BY <1>3, <1>10 DEF CallFails
<1> QED BY <1>6, <1>7, <1>8, <1>9, <1>10 DEF Proceed

LEMMA ExpireSpending == ASSUME IInv, NEW s \in secrets, Expire(s) PROVE Spending'
<1>1. TypeOK /\ Spending /\ UNCHANGED <<reqVars, blame, resets, nextId>> /\ Descends
  BY ExpireShape DEF IInv
<1>2. nextId \in Nat /\ \A i \in resets : i < nextId
  BY DEF IInv, Fresh, TypeOK, Ids
<1>3. \A q \in Reqs : Resets(q)' = Resets(q)
  BY <1>1 DEF Resets, reqVars
<1> QED BY <1>1, <1>2, <1>3 DEF Spending, Descends, reqVars

LEMMA ArriveSpending == ASSUME IInv, NEW r \in Reqs, Arrive(r) PROVE Spending'
<1>1. /\ Spending /\ UNCHANGED <<secrets, resets>>
      /\ \A q \in Reqs \ {r} : SameRequest(q)
      /\ ~InFlight(r)
      /\ blame' = blame \cup {a \in Areas(op'[r]) : \E q \in Reqs : InFlight(q) /\ a \in Areas(op[q])}
      /\ pc'[r] = "setPassword" /\ op'[r] = "reset" =>
            \E s \in secrets : s.kind = "token" /\ s.id = held'[r] /\ ~s.used
  BY ArriveShape DEF IInv
<1> SUFFICES ASSUME blame' \cap {"token", "failed"} = {} PROVE Spending'
  BY DEF Spending
<1>2. /\ \A q \in Reqs : op[q] = "reset" /\ pc[q] = "setPassword" => held[q] \notin resets
      /\ \A s \in secrets : s.kind = "token" /\ s.id \in resets =>
            s.used \/ \E q \in Reqs : Resets(q) /\ held[q] = s.id
  BY <1>1 DEF Spending
<1>3. \A q \in Reqs : Resets(q) => q # r /\ InFlight(q) /\ Resets(q)' /\ held'[q] = held[q]
  BY <1>1 DEF Resets, InFlight, SameRequest
<1>4. pc'[r] = "setPassword" /\ op'[r] = "reset" => held'[r] \notin resets
  <2> SUFFICES ASSUME op'[r] = "reset", NEW s \in secrets, s.kind = "token", s.id = held'[r], ~s.used,
                      held'[r] \in resets
               PROVE  FALSE
    BY <1>1
  <2>1. PICK q \in Reqs : Resets(q)
    BY <1>2
  <2>2. "token" \in Areas(op'[r]) /\ "token" \in Areas(op[q]) /\ InFlight(q)
    BY <1>3, <2>1, AreasOf DEF Resets
  <2> QED BY <1>1, <2>2
<1>5. ASSUME NEW q \in Reqs, op'[q] = "reset", pc'[q] = "setPassword" PROVE held'[q] \notin resets'
  BY <1>1, <1>2, <1>4, <1>5 DEF SameRequest
<1>6. ASSUME NEW s \in secrets', s.kind = "token", s.id \in resets'
      PROVE  s.used \/ \E q \in Reqs : Resets(q)' /\ held'[q] = s.id
  BY <1>1, <1>2, <1>3, <1>6
<1> QED BY <1>5, <1>6 DEF Spending

LEMMA ProceedAccepted == ASSUME IInv, TypeOK', NEW r \in Reqs, Proceed(r) PROVE Accepted'
<1> USE DEF Awaits
<1>1. /\ TypeOK /\ Doing(r) /\ Fresh /\ Accepted /\ Alone("token") /\ Alone("password") /\ InFlight(r)
      /\ \A q \in Reqs : Doing(q)
  BY ProceedBusy DEF IInv
<1>2. /\ \A q \in Reqs \ {r} : SameRequest(q)
      /\ op' = op /\ word' = word /\ blame \subseteq blame'
  BY <1>1, ProceedShape
<1> SUFFICES ASSUME blame' \cap {"token", "password", "failed"} = {} PROVE Accepted'
  BY DEF Accepted
<1>3. /\ "token" \notin blame /\ "password" \notin blame /\ "failed" \notin blame
      /\ "failed" \notin blame' /\ blame \cap {"token", "password", "failed"} = {}
  BY <1>2
<1> DEFINE Holds(q)  == op[q] = "reset" /\ pc[q] \in {"setPassword", "spend"}
           Owes(q)   == Registers(q) \/ Resets(q)
<1>4. /\ \A q \in Reqs : Holds(q) => Token(q) # {}
      /\ \A q \in Reqs : Registers(q) => Mine(q)
      /\ \A q \in Reqs : Owes(q) => user # None /\ user.password = word[q]
      /\ user = None => acked = None
      /\ user # None => user.password = acked \/ \E q \in Reqs : Owes(q)
  BY <1>1, <1>3 DEF Accepted
\* What the others owe and hold stays so.
<1>5. ASSUME NEW q \in Reqs \ {r}
      PROVE  /\ Holds(q)' = Holds(q) /\ Owes(q)' = Owes(q) /\ Registers(q)' = Registers(q)
             /\ who'[q] = who[q] /\ held'[q] = held[q]
  BY <1>2, <1>5 DEF SameRequest, Registers, Resets
<1>6. ASSUME NEW q \in Reqs \ {r}, Owes(q) \/ Holds(q)
      PROVE  /\ InFlight(q) /\ "password" \in Areas(op[q])
             /\ op[q] = "reset" => "token" \in Areas(op[q])
             /\ "password" \notin Areas(op[r])
             /\ op[q] = "reset" => "token" \notin Areas(op[r])
  <2>1. InFlight(q) /\ "password" \in Areas(op[q]) /\ (op[q] = "reset" => "token" \in Areas(op[q]))
    BY <1>6, AreasOf DEF Registers, Resets, InFlight
  <2> QED BY <1>1, <1>3, <1>6, <2>1, OnlyOne
\* The account and the tokens are as they were; so is what r owes.
<1>7. ASSUME user' = user, acked' = acked, held'[r] = held[r], who'[r] = who[r],
             \A q \in Reqs : Holds(q)' => Token(q) \subseteq secrets',
             Owes(r)' = Owes(r), Registers(r)' => Registers(r), Holds(r)' => Holds(r)
      PROVE  Accepted'
  <2>1. ASSUME NEW q \in Reqs, Holds(q)' PROVE Token(q)' # {}
    <3>1. Holds(q) /\ held'[q] = held[q]
      BY <1>5, <1>7, <2>1
    <3>2. PICK s \in Token(q) : TRUE
      BY <1>4, <3>1
    <3>3. s \in Token(q)'
      BY <1>7, <2>1, <3>1, <3>2 DEF Token
    <3> QED BY <3>3
  <2>2. ASSUME NEW q \in Reqs, Registers(q)' PROVE Mine(q)'
    BY <1>4, <1>5, <1>7, <2>2 DEF Mine
  <2>3. ASSUME NEW q \in Reqs, Owes(q)' PROVE user' # None /\ user'.password = word'[q]
    BY <1>2, <1>4, <1>5, <1>7, <2>3
  <2>4. user' # None => user'.password = acked' \/ \E q \in Reqs : Owes(q)'
    BY <1>4, <1>5, <1>7
  <2> QED BY <1>4, <1>7, <2>1, <2>2, <2>3, <2>4 DEF Accepted
\* Nobody but r has anything to do with the password or a token.
<1>8. ASSUME \A q \in Reqs \ {r} : ~Owes(q) /\ ~Holds(q),
             user' # None => user'.password = acked' \/ Owes(r)',
             Owes(r)' => user' # None /\ user'.password = word[r],
             Registers(r)' => Mine(r)', Holds(r)' => Token(r)' # {},
             user' = None => acked' = None
      PROVE  Accepted'
  BY <1>2, <1>5, <1>8 DEF Accepted, Registers, Resets
<1>9. CASE CreateUser(r)
  <2>1. /\ user = None /\ pc[r] = "createUser" /\ secrets = {}
        /\ pc'[r] = IF op[r] = "register" THEN "drop" ELSE "idle"
        /\ user' = [id |-> nextId, password |-> word[r], verified |-> op[r] = "oauth",
                    provider |-> IF op[r] = "oauth" THEN "OAUTH" ELSE "LOCAL"]
        /\ who' = [who EXCEPT ![r] = nextId] /\ acked' = acked
    BY <1>1, <1>3, <1>9, AwaitShape DEF CreateUser, Fresh
  <2>2. user'.id = nextId /\ user'.password = word[r] /\ user' # None
    <3>1. user' \in Row
      BY <1>1, <2>1 DEF Row, TypeOK
    <3> QED BY <2>1, <3>1, AccountsAssumption
  <2>3. \A q \in Reqs \ {r} : ~Owes(q) /\ ~Holds(q)
    BY <1>4, <2>1 DEF Token
  <2>4. ~Holds(r)' /\ who'[r] = nextId
    BY <1>1, <2>1 DEF TypeOK
  <2>5. op[r] = "register" => Owes(r)'
    BY <1>2, <2>1 DEF Registers
  <2>6. op[r] # "register" => word[r] = None /\ acked' = None
    BY <1>1, <1>4, <2>1 DEF Doing
  <2> QED BY <1>8, <2>2, <2>3, <2>4, <2>5, <2>6 DEF Mine
<1>10. CASE DropOld(r)
  <2>1. /\ pc[r] = "drop" /\ pc'[r] = "add" /\ UNCHANGED <<user, who, held, acked>>
        /\ secrets' = Others(r) /\ Local(r)
    BY <1>1, <1>3, <1>10, AwaitShape DEF DropOld, Doing
  <2>2. Registers(r)' = Registers(r) /\ ~Resets(r) /\ ~Resets(r)' /\ ~Holds(r)'
    BY <1>2, <2>1 DEF Registers, Resets, Local
  <2>3. ASSUME NEW q \in Reqs, Holds(q)' PROVE Token(q) \subseteq secrets'
    <3>1. q # r /\ Holds(q)
      BY <1>5, <2>2, <2>3
    <3>2. op[r] # "forgot"
      BY <1>6, <3>1, AreasOf
    <3> QED BY <2>1, <3>2 DEF Token, Others, Kind
  <2> QED BY <1>7, <2>1, <2>2, <2>3
<1>11. CASE AddNew(r)
  <2>1. /\ pc[r] = "add" /\ pc'[r] = "mail" /\ UNCHANGED <<user, who, acked>>
        /\ secrets \subseteq secrets' /\ Local(r)
    BY <1>1, <1>3, <1>11, AwaitShape DEF AddNew, Doing
  <2>2. Registers(r)' = Registers(r) /\ ~Resets(r) /\ ~Resets(r)' /\ ~Holds(r)'
    BY <1>2, <2>1 DEF Registers, Resets, Local
  <2>3. ASSUME NEW q \in Reqs, Holds(q)' PROVE Token(q)' # {}
    <3>1. Holds(q) /\ held'[q] = held[q]
      BY <1>5, <2>2, <2>3
    <3>2. PICK s \in Token(q) : TRUE
      BY <1>4, <3>1
    <3> QED BY <2>1, <3>1, <3>2 DEF Token
  <2>4. \A q \in Reqs : Registers(q)' => Mine(q)'
    BY <1>4, <1>5, <2>1, <2>2 DEF Mine
  <2>5. \A q \in Reqs : Owes(q)' = Owes(q)
    BY <1>5, <2>2
  <2> QED BY <1>2, <1>4, <2>1, <2>3, <2>4, <2>5 DEF Accepted
<1>12. CASE MailNew(r)
  <2>1. /\ pc[r] = "mail" /\ pc'[r] = "idle" /\ UNCHANGED <<user, secrets, who, held>>
        /\ acked' = (IF op[r] = "register" THEN word[r] ELSE acked) /\ Local(r)
    BY <1>1, <1>3, <1>12, AwaitShape DEF MailNew, Acknowledge, Doing
  <2>2. ~Registers(r)' /\ ~Resets(r) /\ ~Resets(r)' /\ ~Holds(r)' /\ ~Owes(r)'
    BY <1>2, <2>1 DEF Registers, Resets, Local
  <2>3. CASE op[r] = "register"
    <3>1. Registers(r) /\ "password" \in Areas(op[r])
      BY <2>1, <2>3, AreasOf DEF Registers
    <3>2. \A q \in Reqs \ {r} : ~Owes(q) /\ ~Holds(q)
      BY <1>6, <3>1
    <3> QED BY <1>4, <1>8, <2>1, <2>2, <2>3, <3>1, <3>2
  <2>4. CASE op[r] # "register"
    <3>1. ~Owes(r)
      BY <2>2, <2>4 DEF Registers
    <3> QED BY <1>7, <2>1, <2>2, <2>4, <3>1 DEF Token
  <2> QED BY <2>3, <2>4
<1>13. CASE FindCode(r) \/ SpendCodes(r)
  <2>1. /\ UNCHANGED <<user, who, held, acked>> /\ op[r] = "verify"
        /\ secrets' \in {secrets, Others(r)}
    BY <1>1, <1>13, AwaitShape DEF FindCode, SpendCodes, Doing
  <2>2. ~Owes(r)' /\ ~Owes(r) /\ ~Holds(r)'
    BY <1>2, <2>1 DEF Registers, Resets
  <2>3. Others(r) \cap {s \in secrets : s.kind = "token"} = {s \in secrets : s.kind = "token"}
    BY <2>1 DEF Others, Kind
  <2>4. \A q \in Reqs : Token(q) \subseteq secrets'
    BY <2>1, <2>3 DEF Token
  <2> QED BY <1>7, <2>1, <2>2, <2>4
<1>14. CASE SetVerified(r)
  <2>1. /\ pc[r] = "setVerified" /\ user # None /\ user \in Row
        /\ UNCHANGED <<secrets, who, held, acked>>
        /\ user' = [user EXCEPT !.verified = TRUE] /\ op[r] = "verify"
    BY <1>1, <1>14, AwaitShape DEF SetVerified, Mine, Doing, TypeOK
  <2>2. user'.password = user.password /\ user'.id = user.id /\ user' \in Row
    BY <2>1 DEF Row
  <2>3. user' # None
    BY <2>2, AccountsAssumption
  <2>4. ~Owes(r)' /\ ~Owes(r) /\ ~Holds(r)' /\ ~Registers(r)'
    BY <1>2, <2>1 DEF Registers, Resets
  <2>5. \A q \in Reqs : Owes(q)' = Owes(q)
    BY <1>5, <2>4
  <2>6. \A q \in Reqs : Registers(q)' => Mine(q)'
    BY <1>4, <1>5, <2>1, <2>2, <2>3, <2>4 DEF Mine
  <2>7. \A q \in Reqs : Holds(q)' => Token(q)' # {}
    BY <1>4, <1>5, <2>1, <2>4 DEF Token
  <2> QED BY <1>2, <1>4, <2>1, <2>2, <2>3, <2>5, <2>6, <2>7 DEF Accepted
<1>15. CASE SetPassword(r)
  <2>1. /\ pc[r] = "setPassword" /\ pc'[r] = IF op[r] = "reset" THEN "spend" ELSE "idle"
        /\ user # None /\ user \in Row /\ UNCHANGED <<secrets, who, held>>
        /\ user' = [user EXCEPT !.password = word[r]]
        /\ acked' = (IF op[r] = "change" THEN word[r] ELSE acked)
        /\ op[r] \in {"reset", "change"} /\ word[r] \in Passwords
    BY <1>1, <1>3, <1>15, AwaitShape DEF SetPassword, Acknowledge, Mine, Doing, TypeOK
  <2>2. user'.password = word[r] /\ user' \in Row
    BY <2>1 DEF Row
  <2>3. user' # None
    BY <2>2, AccountsAssumption
  <2>4. \A q \in Reqs \ {r} : ~Owes(q) /\ ~Holds(q)
    BY <1>6, <2>1, AreasOf
  <2>5. ~Registers(r)' /\ (op[r] = "reset" => Owes(r)' /\ Holds(r)) /\ (Holds(r)' => Holds(r))
    BY <1>2, <2>1 DEF Registers, Resets
  <2>6. Token(r)' = Token(r)
    BY <2>1 DEF Token
  <2> QED BY <1>4, <1>8, <2>1, <2>2, <2>3, <2>4, <2>5, <2>6
<1>16. CASE SpendToken(r)
  <2>1. /\ pc[r] = "spend" /\ pc'[r] = "idle" /\ op[r] = "reset" /\ user' = user /\ acked' = word[r]
    BY <1>1, <1>3, <1>16, AwaitShape DEF SpendToken, Acknowledge
  <2>2. \A q \in Reqs \ {r} : ~Owes(q) /\ ~Holds(q)
    BY <1>6, <2>1, AreasOf
  <2>3. Owes(r) /\ ~Owes(r)' /\ ~Registers(r)' /\ ~Holds(r)'
    BY <1>2, <2>1 DEF Registers, Resets
  <2> QED BY <1>4, <1>8, <2>1, <2>2, <2>3
<1>17. CASE DeleteUser(r)
  <2>1. pc[r] = "deleteUser" /\ pc'[r] = "idle" /\ op[r] = "delete" /\ user' = None /\ acked' = None
    BY <1>1, <1>3, <1>17, AwaitShape DEF DeleteUser, Doing
  <2>2. \A q \in Reqs \ {r} : ~Owes(q) /\ ~Holds(q)
    BY <1>6, <2>1, AreasOf
  <2>3. ~Owes(r)' /\ ~Registers(r)' /\ ~Holds(r)'
    BY <1>2, <2>1 DEF Registers, Resets
  <2> QED BY <1>8, <2>1, <2>2, <2>3
<1>18. CASE Conflict(r)
  <2>1. pc'[r] = "idle" /\ UNCHANGED <<user, secrets, who, held, acked>>
    BY <1>1, <1>18 DEF Conflict, End, TypeOK
  <2>2. ~Owes(r)
    BY <1>4, <1>18 DEF Conflict, Registers, Resets
  <2>3. ~Owes(r)' /\ ~Registers(r)' /\ ~Holds(r)'
    BY <2>1 DEF Registers, Resets
  <2> QED BY <1>7, <2>1, <2>2, <2>3 DEF Token
<1>19. CASE CallFails(r)
  BY <1>3, <1>19 DEF CallFails
<1> QED BY <1>9, <1>10, <1>11, <1>12, <1>13, <1>14, <1>15, <1>16, <1>17, <1>18, <1>19 DEF Proceed


LEMMA ExpireAccepted == ASSUME IInv, NEW s \in secrets, Expire(s) PROVE Accepted'
<1>1. /\ TypeOK /\ Accepted /\ UNCHANGED <<user, reqVars, acked, blame>>
      /\ secrets' = (secrets \ {s}) \cup {[s EXCEPT !.live = FALSE]}
      /\ [s EXCEPT !.live = FALSE].kind = s.kind /\ [s EXCEPT !.live = FALSE].id = s.id
  BY DEF IInv, Expire, TypeOK, Secret
<1>2. ASSUME NEW q \in Reqs, Token(q) # {} PROVE Token(q)' # {}
  <2>1. PICK t \in secrets : t.kind = "token" /\ t.id = held[q]
    BY <1>2 DEF Token
  <2>2. \E u \in secrets' : u.kind = t.kind /\ u.id = t.id
    BY <1>1
  <2> QED BY <1>1, <2>1, <2>2 DEF Token, reqVars
<1>3. /\ \A q \in Reqs : Mine(q)' = Mine(q) /\ pc'[q] = pc[q] /\ op'[q] = op[q] /\ word'[q] = word[q]
      /\ \A q \in Reqs : Registers(q)' = Registers(q) /\ Resets(q)' = Resets(q)
  BY <1>1 DEF Mine, Registers, Resets, reqVars
<1> QED BY <1>1, <1>2, <1>3 DEF Accepted

LEMMA ArriveAccepted == ASSUME IInv, NEW r \in Reqs, Arrive(r) PROVE Accepted'
<1>1. /\ Accepted /\ UNCHANGED <<user, secrets, acked>> /\ blame \subseteq blame'
      /\ \A q \in Reqs \ {r} : SameRequest(q)
      /\ ~InFlight(r)
      /\ ~Registers(r)' /\ ~Resets(r)' /\ pc'[r] # "spend"
      /\ pc'[r] = "setPassword" /\ op'[r] = "reset" =>
            \E s \in secrets : s.kind = "token" /\ s.id = held'[r]
  BY ArriveShape DEF IInv, Registers, Resets
<1> SUFFICES ASSUME blame' \cap {"token", "password", "failed"} = {} PROVE Accepted'
  BY DEF Accepted
<1>2. /\ \A q \in Reqs : op[q] = "reset" /\ pc[q] \in {"setPassword", "spend"} => Token(q) # {}
      /\ \A q \in Reqs : Registers(q) => Mine(q)
      /\ \A q \in Reqs : Registers(q) \/ Resets(q) => user # None /\ user.password = word[q]
      /\ user = None => acked = None
      /\ user # None => user.password = acked \/ \E q \in Reqs : Registers(q) \/ Resets(q)
  BY <1>1 DEF Accepted
<1>3. ~Registers(r) /\ ~Resets(r)
  BY <1>1 DEF InFlight, Registers, Resets
<1>4. \A q \in Reqs \ {r} : /\ Registers(q)' = Registers(q) /\ Resets(q)' = Resets(q)
                            /\ Mine(q)' = Mine(q) /\ Token(q)' = Token(q) /\ word'[q] = word[q]
  BY <1>1 DEF SameRequest, Registers, Resets, Mine, Token
<1>5. ASSUME NEW q \in Reqs, op'[q] = "reset", pc'[q] \in {"setPassword", "spend"} PROVE Token(q)' # {}
  <2>1. CASE q = r
    BY <1>1, <1>5, <2>1 DEF Token
  <2>2. CASE q # r
    BY <1>1, <1>2, <1>4, <1>5, <2>2 DEF SameRequest
  <2> QED BY <2>1, <2>2
<1> QED BY <1>1, <1>2, <1>3, <1>4, <1>5 DEF Accepted

-----------------------------------------------------------------------------
\* Every step keeps the invariant.

LEMMA ProceedIInv == ASSUME IInv, NEW r \in Reqs, Proceed(r) PROVE IInv'
<1>1. /\ TypeOK /\ \A q \in Reqs : Doing(q)
      /\ \A a \in {"code", "token", "password"} : Alone(a)
  BY DEF IInv
<1>2. TypeOK'
  BY <1>1, ProceedTyped
<1>3. ASSUME NEW q \in Reqs PROVE Doing(q)'
  <2>1. CASE q = r
    BY <2>1, ActorDoing
  <2>2. CASE q # r
    BY <1>1, <2>2, ProceedShape, DoingKept
  <2> QED BY <2>1, <2>2
<1>4. \A a \in {"code", "token", "password"} : Alone(a)'
  BY <1>1, ProceedAlone
<1>5. \A kind \in Kinds : Single(kind)'
  BY ProceedSingle
<1> QED BY <1>2, <1>3, <1>4, <1>5, ProceedFresh, ProceedSameMail, ProceedVerified,
           ProceedSpending, ProceedAccepted DEF IInv

LEMMA ArriveIInv == ASSUME IInv, NEW r \in Reqs, Arrive(r) PROVE IInv'
<1>1. /\ TypeOK /\ Fresh /\ SameMail /\ VerifiedByMail /\ \A q \in Reqs : Doing(q)
      /\ \A a \in {"code", "token", "password"} : Alone(a)
  BY DEF IInv
<1>2. /\ UNCHANGED <<user, secrets, inbox, acked, resets, nextId>>
      /\ \A q \in Reqs \ {r} : SameRequest(q)
  BY <1>1, ArriveShape
<1>3. ASSUME NEW q \in Reqs PROVE Doing(q)'
  <2>1. CASE q = r
    BY <2>1, NewcomerDoing
  <2>2. CASE q # r
    BY <1>1, <1>2, <2>2, DoingKept DEF Descends
  <2> QED BY <2>1, <2>2
<1>4. Fresh' /\ SameMail' /\ VerifiedByMail'
  BY <1>1, <1>2 DEF Fresh, SameMail, VerifiedByMail
<1>5. TypeOK'
  BY <1>1, ArriveTyped
<1>6. \A a \in {"code", "token", "password"} : Alone(a)'
  BY <1>1, ArriveAlone
<1>7. \A kind \in Kinds : Single(kind)'
  BY ArriveSingle
<1> QED BY <1>3, <1>4, <1>5, <1>6, <1>7, ArriveSpending, ArriveAccepted DEF IInv

LEMMA ExpireIInv == ASSUME IInv, NEW s \in secrets, Expire(s) PROVE IInv'
<1>1. /\ TypeOK /\ Fresh /\ SameMail /\ VerifiedByMail /\ \A q \in Reqs : Doing(q)
      /\ \A a \in {"code", "token", "password"} : Alone(a)
  BY DEF IInv
<1>2. /\ UNCHANGED <<user, inbox, reqVars, acked, resets, blame, nextId>> /\ Descends
      /\ \A t \in secrets' : \E u \in secrets : u.id = t.id /\ u.kind = t.kind /\ u.user = t.user
  <2>1. [s EXCEPT !.live = FALSE].id = s.id /\ [s EXCEPT !.live = FALSE].kind = s.kind
        /\ [s EXCEPT !.live = FALSE].user = s.user
    BY <1>1 DEF TypeOK, Secret
  <2> QED BY <1>1, <2>1, ExpireShape DEF Expire
<1>3. \A q \in Reqs : Doing(q)'
  BY <1>1, <1>2, DoingKept DEF SameRequest, reqVars
<1>4. Fresh' /\ SameMail' /\ VerifiedByMail'
  BY <1>1, <1>2 DEF Fresh, SameMail, VerifiedByMail
<1>5. TypeOK'
  BY <1>1, ExpireTyped
<1>6. \A a \in {"code", "token", "password"} : Alone(a)'
  BY <1>1, <1>2 DEF Alone, InFlight, reqVars
<1>7. \A kind \in Kinds : Single(kind)'
  BY ExpireSingle
<1> QED BY <1>3, <1>4, <1>5, <1>6, <1>7, ExpireSpending, ExpireAccepted DEF IInv

LEMMA InitIInv == Init => IInv
<1> SUFFICES ASSUME Init PROVE IInv
  OBVIOUS
<1>1. TypeOK
  BY AccountsAssumption DEF Init, TypeOK, Ids, Awaits
<1>2. \A r \in Reqs : pc[r] = "idle" /\ op[r] = None
  BY DEF Init
<1>3. (\A r \in Reqs : Doing(r)) /\ \A r \in Reqs : ~Registers(r) /\ ~Resets(r) /\ ~InFlight(r)
  BY <1>2 DEF Doing, Registers, Resets, InFlight
<1> QED BY <1>1, <1>2, <1>3 DEF Init, IInv, Fresh, SameMail, VerifiedByMail, Alone, Single,
           Spending, Accepted

LEMMA StutterIInv == ASSUME IInv, UNCHANGED vars PROVE IInv'
BY DEF IInv, vars, reqVars, TypeOK, Doing, Local, Kind, Fresh, SameMail, VerifiedByMail, Alone,
       InFlight, Single, Mine, Spending, Resets, Accepted, Registers, Token, ByOwner

LEMMA NextIInv == IInv /\ [Next]_vars => IInv'
<1> SUFFICES ASSUME IInv, [Next]_vars PROVE IInv'
  OBVIOUS
<1>1. CASE \E r \in Reqs : Arrive(r) \/ Proceed(r)
  BY <1>1, ArriveIInv, ProceedIInv
<1>2. CASE \E s \in secrets : Expire(s)
  BY <1>2, ExpireIInv
<1>3. CASE UNCHANGED vars
  BY <1>3, StutterIInv
<1> QED BY <1>1, <1>2, <1>3 DEF Next, Quiescent

\* The inductive invariant holds of every reachable state.
THEOREM Invariance == Spec => []IInv
BY InitIInv, NextIInv, PTL DEF Spec

-----------------------------------------------------------------------------
\* The theorems.

\* Every value of the state is of its kind, whatever arrives and fails.
THEOREM TypeCorrect == Spec => []TypeOK
<1>1. IInv => TypeOK
  BY DEF IInv
<1> QED BY <1>1, Invariance, PTL

\* Unless requests for a kind of secret have overlapped, an account has one
\* secret of that kind at most ("Delete existing codes", auth.service.ts).
THEOREM CodesAndTokensSingle == Spec => []OneSecretOfAKind
<1>1. ASSUME IInv, NEW kind \in Kinds \ blame
      PROVE  Cardinality({s \in secrets : s.kind = kind}) <= 1
  <2> DEFINE S == {s \in secrets : s.kind = kind}
  <2>1. \A s, t \in S : s = t
    BY <1>1 DEF IInv, Single
  <2>2. CASE S = {}
    BY <2>2, FS_EmptySet
  <2>3. CASE S # {}
    <3>1. PICK s : S = {s}
      BY <2>1, <2>3
    <3>2. Cardinality(S) = 1
      BY <3>1, FS_Singleton, Zenon
    <3> QED BY <3>2
  <2> QED BY <2>2, <2>3
<1>2. IInv => OneSecretOfAKind
  BY <1>1 DEF OneSecretOfAKind
<1> QED BY <1>2, Invariance, PTL

\* A local account is verified only by a code that was mailed for it, though
\* the row is written long after the code has been looked up (verifyEmail).
THEOREM VerifiedOnlyByMail == Spec => []VerifiedByMail
<1>1. IInv => VerifiedByMail
  BY DEF IInv
<1> QED BY <1>1, Invariance, PTL

\* At rest, the password in the row is the one last reported as set, unless
\* writers of it have overlapped or a call has failed (resetPassword,
\* changePassword).
THEOREM PasswordAcknowledged == Spec => []PasswordAsAcknowledged
<1>1. IInv => PasswordAsAcknowledged
  BY DEF IInv, Accepted, PasswordAsAcknowledged, InFlight, Registers, Resets
<1> QED BY <1>1, Invariance, PTL

\* A reset token that has changed the password does not change it again, unless
\* requests on tokens have overlapped or a call has failed (resetPassword).
THEOREM TokenSpentOnceHolds == Spec => TokenSpentOnce
<1>1. IInv /\ [Next]_vars =>
        [\A r \in Reqs : pc[r] = "setPassword" /\ op[r] = "reset" /\ held[r] \in resets
                         /\ blame \cap {"token", "failed"} = {} => user' = user]_vars
  BY DEF IInv, Spending
<1> QED BY <1>1, Invariance, PTL DEF Spec, TokenSpentOnce

\* A step that gives the row of an account another password is the write of a
\* request.
LEMMA OnlySetPassword ==
    ASSUME TypeOK, Next,
           user # None, user' # None, user'.id = user.id, user'.password # user.password
    PROVE  \E r \in Reqs : SetPassword(r)
<1>1. ASSUME NEW r \in Reqs, Arrive(r) PROVE FALSE
  BY <1>1, ArriveShape
<1>2. ASSUME NEW s \in secrets, Expire(s) PROVE FALSE
  BY <1>2, ExpireShape
<1>3. ASSUME NEW r \in Reqs, Proceed(r), ~SetPassword(r) PROVE FALSE
  <2>1. CASE SetVerified(r)
    BY <2>1 DEF SetVerified, TypeOK, Row
  <2>2. CASE CreateUser(r) \/ DeleteUser(r)
    BY <2>2 DEF CreateUser, DeleteUser
  <2> QED BY <1>3, <2>1, <2>2 DEF Proceed, DropOld, AddNew, MailNew, FindCode, SpendCodes,
             SpendToken, Conflict, CallFails, End
<1>4. ~Quiescent
  BY DEF Quiescent, vars
<1> QED BY <1>1, <1>2, <1>3, <1>4 DEF Next

\* Only its owner changes the password of an account, whatever happens between
\* what resetPassword and changePassword have checked and what they write.
THEOREM PasswordSetOnlyByOwner == Spec => PasswordSetByOwner
<1> DEFINE A == user # None /\ user' # None /\ user'.id = user.id /\ user'.password # user.password
                => \E r \in Reqs : pc[r] = "setPassword" /\ pc'[r] # pc[r] /\ ByOwner(r, user.id)
<1>1. IInv /\ [Next]_vars => [A]_vars
  <2> SUFFICES ASSUME IInv, Next,
                      user # None, user' # None, user'.id = user.id, user'.password # user.password
               PROVE  \E r \in Reqs : pc[r] = "setPassword" /\ pc'[r] # pc[r] /\ ByOwner(r, user.id)
    OBVIOUS
  <2>1. TypeOK /\ \A r \in Reqs : Doing(r)
    BY DEF IInv
  <2>2. PICK r \in Reqs : SetPassword(r)
    BY <2>1, OnlySetPassword
  <2>3. pc[r] = "setPassword" /\ pc'[r] \in {"spend", "idle"}
    BY <2>1, <2>2, AwaitShape DEF SetPassword, Awaits
  <2>4. who[r] = user.id
    BY <2>2 DEF SetPassword, Mine
  <2>5. ByOwner(r, user.id)
    BY <2>1, <2>3, <2>4 DEF Doing, ByOwner
  <2> QED BY <2>3, <2>5
<1> QED BY <1>1, Invariance, PTL DEF Spec, PasswordSetByOwner
=============================================================================
