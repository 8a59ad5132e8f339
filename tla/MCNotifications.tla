---------------------------- MODULE MCNotifications ----------------------------
(***************************************************************************)
(* The instance of Notifications for TLC: two handlers overfill an inbox   *)
(* of one.                                                                 *)
(***************************************************************************)
EXTENDS Notifications, TLC

\* The two events of an execution that changed something.
DiffAndDone == LET d == CHOOSE h \in Handlers : TRUE
               IN  [h \in Handlers |-> IF h = d THEN "EXECUTION_DIFF"
                                               ELSE "EXECUTION_DONE"]
=============================================================================
