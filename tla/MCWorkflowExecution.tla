------------------------ MODULE MCWorkflowExecution ------------------------
(* Small workflows and client surfaces for the runs of WorkflowExecution. *)
EXTENDS WorkflowExecution, TLC

CONSTANTS p1, p2

Slots == {p1, p2}
OneSlot == {p1}
SlotSymmetry == Permutations(Slots)

Ids == {"s1", "s2", "s3", "s4", "gone"}
Null == "null"
Keys == {"none", "PENDING", "new_hire", "it_setup", "rejected"}

Step(order, type) ==
  [order |-> order, type |-> type, next |-> Null, onReject |-> Null,
   onTrue |-> Null, onFalse |-> Null, falseAction |-> "complete",
   rejectionState |-> "rejected"]

Active(steps, stateOrder, transitions) ==
  [status |-> "active", trigger |-> "event_based", steps |-> steps,
   stateOrder |-> stateOrder, transitions |-> transitions]

Move2(from, to, ts) == [from |-> from, to |-> to, tasks |-> ts]
Onboard == ("new_hire" :> 1) @@ ("it_setup" :> 2)

(* A task, then an approval whose rejection goes back to the task. *)
TaskThenApproval ==
  Active(("s1" :> Step(2, "task"))
         @@ ("s2" :> [Step(3, "approval") EXCEPT !.onReject = "s1"]),
         Onboard, {Move2("new_hire", "it_setup", <<>>)})

(* Every other type of step, a branch, and a reference to a removed step. *)
Branching ==
  Active(("s1" :> [Step(1, "condition") EXCEPT !.onTrue = "s3", !.falseAction = "next"])
         @@ ("s2" :> [Step(2, "notification") EXCEPT !.next = "gone"])
         @@ ("s3" :> Step(3, "automation"))
         @@ ("s4" :> [Step(4, "approval") EXCEPT !.rejectionState = "PENDING"]),
         <<>>, {})

(* No steps: the execution lives by its transitions alone. *)
StateOnly ==
  Active(<<>>, Onboard,
         {Move2("new_hire", "it_setup", <<"approval", "task">>),
          Move2("it_setup", "new_hire", <<>>)})

(* Two tasks, a step of an unknown type and an approval, in order. *)
Linear ==
  Active(("s1" :> Step(1, "task")) @@ ("s2" :> Step(1, "unknown"))
         @@ ("s3" :> Step(2, "task")) @@ ("s4" :> Step(4, "approval")), <<>>, {})

(* A task that names its successor, past a step in between. *)
Skipping ==
  Active(("s1" :> [Step(1, "task") EXCEPT !.next = "s3"])
         @@ ("s2" :> Step(2, "task")) @@ ("s3" :> Step(3, "task")), <<>>, {})

AnyFlow == {TaskThenApproval, Branching, StateOnly}
StepFlows == {TaskThenApproval, Branching, Linear}

SkippingFlow == {Skipping}
LinearFlow == {Linear}

Anything == {Kinds}
Inbox == {{"trigger", "complete_task", "complete_approval"}}
NoTransitions == {Kinds \ {"transition"}}
=============================================================================
