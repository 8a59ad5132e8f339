------------------------------- MODULE Accounts -------------------------------
(***************************************************************************)
(* The account of one e-mail address: AuthService (src/auth) registers,    *)
(* verifies and resets it, UsersService (src/users) changes its password   *)
(* and deletes it.  Requests interleave at every await; no transaction     *)
(* spans two of them.  A request's arrival and its first query are one     *)
(* step, and a request that this query turns away is left out.             *)
(*                                                                         *)
(* Verification codes and reset tokens are handled alike: the old ones are *)
(* deleted, a new one is stored, and then mailed.  Both are called secrets *)
(* here, and no two are equal.  The database and the mail service are      *)
(* external: a call answers, rejects, or takes effect and loses its answer.*)
(***************************************************************************)
EXTENDS Naturals, FiniteSets

CONSTANTS
    Reqs,        \* slots for requests in flight
    Passwords,   \* passwords users choose
    None,        \* null, and no account
    MaxCalls,    \* bound: requests served
    MaxFaults    \* bound: calls that reject or whose answer is lost

VARIABLES
    user,       \* the row with this address, or None
    secrets,    \* rows of verification_codes and password_resets
    inbox,      \* what the mail service has delivered
    op, pc,     \* what each request does, and the await it is at
    who,        \* the id of the user it has read
    held,       \* the id of the secret it was given, or has made
    word,       \* the password it was given
    acked,      \* the password the last request to report success has set
    resets,     \* tokens that have changed a password
    blame,      \* what has happened that the properties except
    nextId, calls, faults

reqVars == <<op, pc, who, held, word>>
vars    == <<user, secrets, inbox, reqVars, acked, resets, blame,
             nextId, calls, faults>>

Ids   == Nat \ {0}
Kinds == {"code", "token"}
Ops   == {"register", "resend", "verify", "forgot", "reset", "change",
          "oauth", "delete"}
Mail   == [kind : Kinds, id : Ids, user : Ids]
Secret == [kind : Kinds, id : Ids, user : Ids, live : BOOLEAN, used : BOOLEAN]
Row    == [id : Ids, provider : {"LOCAL", "OAUTH"},
           password : Passwords \cup {None}, verified : BOOLEAN]

ASSUME AccountsAssumption ==
    /\ None \notin Passwords /\ None \notin Row
    /\ MaxCalls \in Nat /\ MaxFaults \in Nat

Awaits == {"idle", "createUser", "drop", "add", "mail", "findCode",
           "setVerified", "setPassword", "spend", "deleteUser"}

\* What a request may change, and so what it may disturb in another.
Areas(o) ==
    CASE o \in {"resend", "verify"} -> {"code"}
      [] o = "forgot"               -> {"token"}
      [] o = "reset"                -> {"token", "password"}
      [] o = "change"               -> {"password"}
      [] o \in {"register", "oauth"} -> {"code", "password"}
      [] OTHER                      -> {"code", "token", "password"}

InFlight(r) == pc[r] # "idle"

TypeOK ==
    /\ user \in Row \cup {None}
    /\ secrets \subseteq Secret
    /\ inbox \subseteq Mail
    /\ op \in [Reqs -> Ops \cup {None}]
    /\ pc \in [Reqs -> Awaits]
    /\ who \in [Reqs -> Ids \cup {None}]
    /\ held \in [Reqs -> Ids \cup {None}]
    /\ word \in [Reqs -> Passwords \cup {None}]
    /\ acked \in Passwords \cup {None}
    /\ resets \subseteq Ids
    /\ blame \subseteq {"code", "token", "password", "failed"}
    /\ nextId \in Ids
    /\ calls \in 0..MaxCalls /\ faults \in 0..MaxFaults

Init ==
    /\ user = None /\ secrets = {} /\ inbox = {}
    /\ op = [r \in Reqs |-> None]
    /\ pc = [r \in Reqs |-> "idle"]
    /\ who = [r \in Reqs |-> None]
    /\ held = [r \in Reqs |-> None]
    /\ word = [r \in Reqs |-> None]
    /\ acked = None /\ resets = {} /\ blame = {}
    /\ nextId = 1 /\ calls = 0 /\ faults = 0
-----------------------------------------------------------------------------
\* Requests arrive.

Begin(r, o, next, u, s, w) ==
    /\ ~InFlight(r)
    /\ calls < MaxCalls
    /\ calls' = calls + 1
    /\ op' = [op EXCEPT ![r] = o]
    /\ pc' = [pc EXCEPT ![r] = next]
    /\ who' = [who EXCEPT ![r] = u]
    /\ held' = [held EXCEPT ![r] = s]
    /\ word' = [word EXCEPT ![r] = w]
    /\ blame' = blame \cup
           {a \in Areas(o) : \E q \in Reqs : InFlight(q) /\ a \in Areas(op[q])}
    /\ UNCHANGED <<user, secrets, inbox, acked, resets, nextId, faults>>

Register(r, w) == user = None /\ Begin(r, "register", "createUser", None, None, w)
OAuthLogin(r)  == user = None /\ Begin(r, "oauth", "createUser", None, None, None)

Resend(r) ==
    /\ user # None /\ ~user.verified
    /\ Begin(r, "resend", "drop", user.id, None, None)

Forgot(r) ==
    /\ user # None /\ user.provider = "LOCAL"
    /\ Begin(r, "forgot", "drop", user.id, None, None)

\* Users present what they were mailed, for whichever account of theirs.
Verify(r, m) ==
    /\ user # None /\ m.kind = "code"
    /\ Begin(r, "verify", "findCode", user.id, m.id, None)

Usable(s) == s.live /\ ~s.used
Reset(r, m, w) == \E s \in secrets :
    /\ m.kind = "token" /\ s.kind = "token" /\ s.id = m.id
    /\ Usable(s)
    /\ Begin(r, "reset", "setPassword", s.user, s.id, w)

\* changePassword, given the current password.
Change(r, w) ==
    /\ user # None /\ user.provider = "LOCAL"
    /\ Begin(r, "change", "setPassword", user.id, None, w)

Delete(r) ==
    /\ user # None
    /\ Begin(r, "delete", "deleteUser", user.id, None, None)

Arrive(r) ==
    \/ OAuthLogin(r) \/ Resend(r) \/ Forgot(r) \/ Delete(r)
    \/ \E w \in Passwords : Register(r, w) \/ Change(r, w)
    \/ \E m \in inbox : Verify(r, m) \/ \E w \in Passwords : Reset(r, m, w)

-----------------------------------------------------------------------------
\* The awaits of a request.

\* The call takes effect; its answer arrives and the request goes on to next,
\* or is lost and the request ends.
Await(r, here, next) ==
    /\ pc[r] = here
    /\ \/ /\ pc' = [pc EXCEPT ![r] = next]
          /\ UNCHANGED <<blame, faults>>
       \/ /\ faults < MaxFaults
          /\ faults' = faults + 1
          /\ pc' = [pc EXCEPT ![r] = "idle"]
          /\ blame' = blame \cup {"failed"}
    /\ UNCHANGED <<op, word, calls>>

\* What the request reports if it has succeeded with this step.
Acknowledge(p) == acked' = IF faults' = faults THEN p ELSE acked

Mine(r) == user # None /\ user.id = who[r]

\* Mutant: the provider of an OAuth login is stored as it came, in lower case.
CreateUserAsGiven(r) ==
    /\ user = None
    /\ Await(r, "createUser", IF op[r] = "register" THEN "drop" ELSE "idle")
    /\ user' = [id |-> nextId, password |-> word[r], verified |-> op[r] = "oauth",
                provider |-> IF op[r] = "oauth" THEN "oauth" ELSE "LOCAL"]
    /\ who' = [who EXCEPT ![r] = nextId]
    /\ nextId' = nextId + 1
    /\ UNCHANGED <<secrets, inbox, held, acked, resets>>

\* The address is unique.
CreateUser(r) ==
    /\ user = None
    /\ Await(r, "createUser", IF op[r] = "register" THEN "drop" ELSE "idle")
    /\ user' = [id |-> nextId, password |-> word[r], verified |-> op[r] = "oauth",
                provider |-> IF op[r] = "oauth" THEN "OAUTH" ELSE "LOCAL"]
    /\ who' = [who EXCEPT ![r] = nextId]
    /\ nextId' = nextId + 1
    /\ UNCHANGED <<secrets, inbox, held, acked, resets>>

Kind(r)    == IF op[r] = "forgot" THEN "token" ELSE "code"
Others(r)  == {s \in secrets : s.kind # Kind(r) \/ s.user # who[r]}

\* Mutant: only what can no longer be used is deleted.
DropUnusable(r) ==
    /\ Await(r, "drop", "add")
    /\ secrets' = Others(r) \cup {s \in secrets : Usable(s)}
    /\ UNCHANGED <<user, inbox, who, held, acked, resets, nextId>>

DropOld(r) ==
    /\ Await(r, "drop", "add")
    /\ secrets' = Others(r)
    /\ UNCHANGED <<user, inbox, who, held, acked, resets, nextId>>

AddNew(r) ==
    /\ Mine(r)
    /\ Await(r, "add", "mail")
    /\ secrets' = secrets \cup {[kind |-> Kind(r), id |-> nextId, user |-> who[r],
                                 live |-> TRUE, used |-> FALSE]}
    /\ held' = [held EXCEPT ![r] = nextId]
    /\ nextId' = nextId + 1
    /\ UNCHANGED <<user, inbox, who, acked, resets>>

MailNew(r) ==
    /\ Await(r, "mail", "idle")
    /\ inbox' = inbox \cup {[kind |-> Kind(r), id |-> held[r], user |-> who[r]]}
    /\ IF op[r] = "register" THEN Acknowledge(word[r]) ELSE UNCHANGED acked
    /\ UNCHANGED <<user, secrets, who, held, resets, nextId>>

FindCode(r) ==
    /\ pc[r] = "findCode"
    /\ LET found == \E s \in secrets : /\ s.kind = "code" /\ s.id = held[r]
                                       /\ s.user = who[r] /\ s.live
       IN  pc' = [pc EXCEPT ![r] = IF found THEN "setVerified" ELSE "idle"]
    /\ UNCHANGED <<user, secrets, inbox, op, who, held, word, acked, resets,
                   blame, nextId, calls, faults>>

\* Mutant: the row is found by its address.
SetVerifiedByEmail(r) ==
    /\ user # None
    /\ Await(r, "setVerified", "spend")
    /\ user' = [user EXCEPT !.verified = TRUE]
    /\ UNCHANGED <<secrets, inbox, who, held, acked, resets, nextId>>

SetVerified(r) ==
    /\ Mine(r)
    /\ Await(r, "setVerified", "spend")
    /\ user' = [user EXCEPT !.verified = TRUE]
    /\ UNCHANGED <<secrets, inbox, who, held, acked, resets, nextId>>

SpendCodes(r) ==
    /\ op[r] = "verify"
    /\ Await(r, "spend", "idle")
    /\ secrets' = Others(r)
    /\ UNCHANGED <<user, inbox, who, held, acked, resets, nextId>>

\* Mutant: resetPassword is done when the password is set.
SetPasswordOnly(r) ==
    /\ Mine(r)
    /\ Await(r, "setPassword", "idle")
    /\ user' = [user EXCEPT !.password = word[r]]
    /\ resets' = IF op[r] = "reset" THEN resets \cup {held[r]} ELSE resets
    /\ Acknowledge(word[r])
    /\ UNCHANGED <<secrets, inbox, who, held, nextId>>

\* Mutant: resetPassword finds the row by the address of the token's account.
SetPasswordByEmail(r) ==
    /\ user # None /\ (op[r] = "change" => Mine(r))
    /\ Await(r, "setPassword", IF op[r] = "reset" THEN "spend" ELSE "idle")
    /\ user' = [user EXCEPT !.password = word[r]]
    /\ resets' = IF op[r] = "reset" THEN resets \cup {held[r]} ELSE resets
    /\ IF op[r] = "change" THEN Acknowledge(word[r]) ELSE UNCHANGED acked
    /\ UNCHANGED <<secrets, inbox, who, held, nextId>>

\* Mutant: changePassword answers before it has written.
SetPasswordLater(r) ==
    /\ Mine(r)
    /\ Await(r, "setPassword", IF op[r] = "reset" THEN "spend" ELSE "idle")
    /\ user' = IF op[r] = "reset" THEN [user EXCEPT !.password = word[r]] ELSE user
    /\ resets' = IF op[r] = "reset" THEN resets \cup {held[r]} ELSE resets
    /\ IF op[r] = "change" THEN Acknowledge(word[r]) ELSE UNCHANGED acked
    /\ UNCHANGED <<secrets, inbox, who, held, nextId>>

\* resetPassword has its token to spend yet; changePassword is done.
SetPassword(r) ==
    /\ Mine(r)
    /\ Await(r, "setPassword", IF op[r] = "reset" THEN "spend" ELSE "idle")
    /\ user' = [user EXCEPT !.password = word[r]]
    /\ resets' = IF op[r] = "reset" THEN resets \cup {held[r]} ELSE resets
    /\ IF op[r] = "change" THEN Acknowledge(word[r]) ELSE UNCHANGED acked
    /\ UNCHANGED <<secrets, inbox, who, held, nextId>>

Token(r) == {s \in secrets : s.kind = "token" /\ s.id = held[r]}

SpendToken(r) ==
    /\ op[r] = "reset" /\ Token(r) # {}
    /\ Await(r, "spend", "idle")
    /\ secrets' = (secrets \ Token(r)) \cup {[s EXCEPT !.used = TRUE] : s \in Token(r)}
    /\ Acknowledge(word[r])
    /\ UNCHANGED <<user, inbox, who, held, resets, nextId>>

\* The cascade takes the secrets of the user along.
DeleteUser(r) ==
    /\ Mine(r)
    /\ Await(r, "deleteUser", "idle")
    /\ user' = None
    /\ secrets' = {s \in secrets : s.user # who[r]}
    /\ acked' = None
    /\ UNCHANGED <<inbox, who, held, resets, nextId>>

-----------------------------------------------------------------------------
\* The errors, and time.

End(r) ==
    /\ pc' = [pc EXCEPT ![r] = "idle"]
    /\ UNCHANGED <<user, secrets, inbox, op, who, held, word, acked, resets,
                   nextId, calls>>

\* The address is taken, or the row to write to or to refer to is gone.
Conflict(r) ==
    /\ \/ pc[r] = "createUser" /\ user # None
       \/ pc[r] \in {"add", "setVerified", "setPassword", "deleteUser"} /\ ~Mine(r)
       \/ pc[r] = "spend" /\ op[r] = "reset" /\ Token(r) = {}
    /\ End(r)
    /\ UNCHANGED <<blame, faults>>

CallFails(r) ==
    /\ InFlight(r) /\ faults < MaxFaults
    /\ faults' = faults + 1
    /\ blame' = blame \cup {"failed"}
    /\ End(r)

\* expiresAt passes, a quarter of an hour or an hour later.
Expire(s) ==
    /\ s \in secrets /\ s.live
    /\ secrets' = (secrets \ {s}) \cup {[s EXCEPT !.live = FALSE]}
    /\ UNCHANGED <<user, inbox, reqVars, acked, resets, blame, nextId, calls, faults>>

Quiescent == (\A r \in Reqs : ~InFlight(r)) /\ UNCHANGED vars

Proceed(r) ==
    \/ CreateUser(r) \/ DropOld(r) \/ AddNew(r) \/ MailNew(r)
    \/ FindCode(r) \/ SetVerified(r) \/ SpendCodes(r)
    \/ SetPassword(r) \/ SpendToken(r) \/ DeleteUser(r)
    \/ Conflict(r) \/ CallFails(r)

Next ==
    \/ \E r \in Reqs : Arrive(r) \/ Proceed(r)
    \/ \E s \in secrets : Expire(s)
    \/ Quiescent

Spec == Init /\ [][Next]_vars
-----------------------------------------------------------------------------
\* Properties.

\* auth.service.ts, "Delete existing codes" and "Delete existing tokens": an
\* account has at most one verification code and one reset token, through
\* registrations, repeated requests, failures, expiry and deletion, unless two
\* requests for the same kind have overlapped: each then deletes before either
\* has stored.
OneSecretOfAKind == \A kind \in Kinds \ blame :
    Cardinality({s \in secrets : s.kind = kind}) <= 1

\* A local account is verified only by a code that was mailed for this very
\* account: an earlier account of the same address, deleted while its code was
\* being checked, does not count (verifyEmail).
VerifiedByMail ==
    user # None /\ user.provider = "LOCAL" /\ user.verified =>
        \E m \in inbox : m.kind = "code" /\ m.user = user.id

\* Once nothing is in flight, the password that is accepted is the one set by
\* the last registration, reset or change that reported success, unless
\* requests that write it, or that replace the token of a reset, overlapped,
\* or a call failed: resetPassword then reports an error for a password it has
\* set.
PasswordAsAcknowledged ==
    /\ user # None /\ \A r \in Reqs : ~InFlight(r)
    /\ blame \cap {"token", "password", "failed"} = {}
    => user.password = acked

\* A reset token changes the password at most once, unless requests on tokens
\* overlapped, between the check and the mark, or a call failed there.
TokenSpentOnce == [][\A r \in Reqs :
    pc[r] = "setPassword" /\ op[r] = "reset" /\ held[r] \in resets
    /\ blame \cap {"token", "failed"} = {}
    => user' = user]_vars

\* The owner of an account is who it was registered for: a change it was asked
\* for itself, or a reset with a token that was mailed for it.
ByOwner(r, account) ==
    \/ op[r] = "change" /\ who[r] = account
    \/ op[r] = "reset" /\ \E m \in inbox :
          m.kind = "token" /\ m.id = held[r] /\ m.user = account

\* An account keeps its password but for a change of its own and for a reset
\* with a token mailed for it, not for an earlier account of the address: that
\* one may be deleted and the address registered anew while resetPassword or
\* changePassword hashes, between what it has checked and what it writes.
PasswordSetByOwner == [][
    user # None /\ user' # None /\ user'.id = user.id /\ user'.password # user.password
    => \E r \in Reqs : pc[r] = "setPassword" /\ pc'[r] # pc[r] /\ ByOwner(r, user.id)]_vars
=============================================================================
