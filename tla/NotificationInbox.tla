-------------------------- MODULE NotificationInbox --------------------------
(***************************************************************************)
(* What a user sees of the notifications: the newest Kept of those that    *)
(* arrived, one arrival at a time, until the account is removed.  Trimming *)
(* the table is not part of this picture.                                  *)
(***************************************************************************)
EXTENDS Naturals, FiniteSets

CONSTANTS
    Notes,   \* notifications that can arrive
    Kept     \* how many of them the inbox shows

VARIABLES
    inbox,    \* the notifications shown
    rank,     \* of each notification: 0 until it arrives
    account   \* whether the account exists

vars == <<inbox, rank, account>>

\* The members of S with fewer than Kept later ones beside them.
Newest(S, r) == {n \in S : Cardinality({m \in S : r[m] > r[n]}) < Kept}

Init ==
    /\ inbox = {}
    /\ rank = [n \in Notes |-> 0]
    /\ account = TRUE

Arrive(n) ==
    /\ account /\ rank[n] = 0
    /\ rank' = [rank EXCEPT ![n] = rank'[n]]
    /\ \A m \in Notes : rank[m] < rank'[n]
    /\ inbox' = Newest(inbox \cup {n}, rank')
    /\ UNCHANGED account

Leave == account /\ account' = FALSE /\ inbox' = {} /\ UNCHANGED rank

Next == Leave \/ \E n \in Notes : Arrive(n)

Spec == Init /\ [][Next]_vars
=============================================================================
