--------------------------- MODULE ExecutionReport ---------------------------
(***************************************************************************)
(* What listeners of execution.done and execution.failed may rely on,      *)
(* whatever the processor, the queue and the database go through: an       *)
(* execution is closed by at most one final word, spoken while it is being *)
(* worked on; one that is given up without a word stays silent for ever.   *)
(***************************************************************************)
EXTENDS Naturals

CONSTANTS Execs, Outcomes

VARIABLES
    phase,   \* of each execution: unborn, open, spoken or silent
    heard    \* how often each outcome was announced for it

vars == <<phase, heard>>

Init ==
    /\ phase = [e \in Execs |-> "unborn"]
    /\ heard = [e \in Execs |-> [o \in Outcomes |-> 0]]

Move(e, from, to) == phase[e] = from /\ phase' = [phase EXCEPT ![e] = to]

\* A worker creates the execution; it may lose it in the same moment.
Open(e) == Move(e, "unborn", "open") /\ UNCHANGED heard
StillBorn(e) == Move(e, "unborn", "silent") /\ UNCHANGED heard

\* The one final word.
Speak(e, o) ==
    /\ Move(e, "open", "spoken")
    /\ heard' = [heard EXCEPT ![e][o] = @ + 1]

\* The worker dies, or fails to record even the failure.
GiveUp(e) == Move(e, "open", "silent") /\ UNCHANGED heard

Next == \E e \in Execs :
    \/ Open(e)
    \/ StillBorn(e)
    \/ \E o \in Outcomes : Speak(e, o)
    \/ GiveUp(e)

Spec == Init /\ [][Next]_vars
=============================================================================
