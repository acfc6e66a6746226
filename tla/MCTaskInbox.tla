---------------------------- MODULE MCTaskInbox ----------------------------
(* Two colleagues: ana holds the task's role, whose limit is below the amount;
   ben holds another role, with a limit above it, and is an administrator. *)
EXTENDS TaskInbox, TLC

CONSTANTS ana, ben, none, unlimited

People == {ana, ben}
Bosses == {ben}
RolesAtStart == (ana :> {"r1"}) @@ (ben :> {"r2"})
LimitOfRole == ("r1" :> 5) @@ ("r2" :> 10)
OverrideValues == {unlimited, 8}
=============================================================================
