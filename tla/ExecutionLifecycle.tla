------------------------- MODULE ExecutionLifecycle -------------------------
(***************************************************************************)
(* What an execution promises the people who work on it: it asks for one   *)
(* decision at a time, goes on only once that decision has been taken, and *)
(* when it has ended it stays ended, with nothing left to decide.          *)
(***************************************************************************)
VARIABLES
  status,   \* status of the execution
  awaiting  \* the tasks that wait for somebody's decision

vars == <<status, awaiting>>

Final == {"completed", "rejected", "cancelled"}

Init == status = "none" /\ awaiting = {}

Start ==
  /\ status = "none"
  /\ status' = "running"
  /\ UNCHANGED awaiting

Ask ==
  /\ status = "running" /\ awaiting = {}
  /\ \E t \in awaiting' : awaiting' = {t}
  /\ UNCHANGED status

Park ==
  /\ status = "running" /\ awaiting # {}
  /\ status' = "paused"
  /\ UNCHANGED awaiting

Decide ==
  /\ status \in {"running", "paused"} /\ awaiting # {}
  /\ awaiting' = {}
  /\ UNCHANGED status

GoOn ==
  /\ status = "paused" /\ awaiting = {}
  /\ status' = "running"
  /\ UNCHANGED awaiting

End ==
  /\ status \in {"running", "paused"} /\ awaiting = {}
  /\ status' \in Final
  /\ UNCHANGED awaiting

Next == Start \/ Ask \/ Park \/ Decide \/ GoOn \/ End

Spec == Init /\ [][Next]_vars
=============================================================================
