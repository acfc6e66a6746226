-------------------------- MODULE WorkflowExecution --------------------------
(***************************************************************************)
(* One run of a workflow, as workflow-execution.service.ts drives it.      *)
(*                                                                         *)
(* Every HTTP handler is an async function over TypeORM repositories, with *)
(* no transaction and no row lock, so a handler is a sequence of database  *)
(* statements and any other handler may run between two of them.  Each     *)
(* action below is one statement together with the computation that        *)
(* follows it up to the next await.  pc[p] names the statement request p   *)
(* is about to issue, loc[p] holds its JavaScript locals; loc[p].snap is   *)
(* the copy of the execution row the handler read last and works on.       *)
(***************************************************************************)
EXTENDS Naturals, Sequences, FiniteSets

CONSTANTS
  Reqs,       \* slots for concurrent requests
  StepIds,    \* ids a workflow step can have
  NoStep,     \* a null or undefined step id
  StateKeys,  \* keys of the business states (workflow_states.key)
  Workflows,  \* the workflow definitions the run may execute
  Surfaces,   \* the sets of API calls a client may be restricted to
  Overlap,    \* may a request start while another one is in flight?
  MaxCalls,   \* bound on the requests accepted
  MaxFails    \* bound on the requests that die at an await

VARIABLES
  wf,       \* the workflow with its steps, states and transitions
  surface,  \* the calls this run's client issues
  row,      \* the workflow_executions row
  tasks,    \* the tasks rows of the execution, in creation order
  events,   \* the workflow_events logged, as <<type, step>> pairs
  pc, loc,  \* control point and locals of each request
  calls, fails

vars == <<wf, surface, row, tasks, events, pc, loc, calls, fails>>
-----------------------------------------------------------------------------
Kinds == {"trigger", "complete_task", "complete_approval", "approve", "reject",
          "transition", "start", "cancel"}
StepTypes == {"task", "approval", "automation", "notification", "condition",
              "unknown"}
HumanTypes == {"task", "approval"}
Target == StepIds \cup {NoStep}

(* A step id outside DOMAIN wf.steps is a reference to a removed step. The
   field onReject is NoStep unless onRejectAction is 'goto'. *)
StepConfig == [order: Nat, type: StepTypes, next: Target, onReject: Target,
               onTrue: Target, onFalse: Target,
               falseAction: {"complete", "next"}, rejectionState: StateKeys]
Transition == [from: StateKeys, to: StateKeys, tasks: Seq(HumanTypes)]

WorkflowStatuses == {"draft", "active", "paused", "completed", "archived"}
TriggerTypes == {"manual", "scheduled", "event_based", "webhook"}

WorkflowsAssumption == \A w \in Workflows :
  /\ DOMAIN w.steps \subseteq StepIds
  /\ w.steps \in [DOMAIN w.steps -> StepConfig]
  /\ DOMAIN w.stateOrder \subseteq StateKeys
  /\ w.stateOrder \in [DOMAIN w.stateOrder -> Nat]
  /\ w.transitions \subseteq Transition
  /\ w.status \in WorkflowStatuses /\ w.trigger \in TriggerTypes

ASSUME ConstantsAssumption ==
  /\ NoStep \notin StepIds
  /\ "complete" \notin Target
  /\ "PENDING" \in StateKeys /\ "none" \in StateKeys
  /\ WorkflowsAssumption
  /\ Surfaces \subseteq SUBSET Kinds
  /\ Overlap \in BOOLEAN
  /\ MaxCalls \in Nat /\ MaxFails \in Nat

Steps == DOMAIN wf.steps
-----------------------------------------------------------------------------
Statuses == {"none", "running", "paused", "completed", "rejected", "cancelled"}
Waiting == {"waiting_for_task", "waiting_for_approval"}

Result == [step: Target, task: Nat,
           status: Waiting \cup {"none", "completed", "failed", "approved"}]
NoResult == [step |-> NoStep, task |-> 0, status |-> "none"]
StateMove == [from: StateKeys, to: StateKeys]

(* stepResults is kept as the set of its entries and its last entry: the code
   appends, filters by stepId and looks at the last entry, nothing else. *)
Row == [status: Statuses, order: Nat, state: StateKeys, hist: Seq(StateMove),
        results: SUBSET Result, last: Result]
NoRow == [status |-> "none", order |-> 0, state |-> "none", hist |-> <<>>,
          results |-> {}, last |-> NoResult]

(* PENDING and IN_PROGRESS are both "open": the engine only asks whether a task
   can still be completed.  TaskInbox tells them apart. *)
Task == [step: Target, type: HumanTypes, status: {"open", "completed", "cancelled"}]

Points == {"idle", "trigger_event", "run_next", "complete", "order", "load_step",
           "automation_event", "read_results", "write_results", "save_task", "pause",
           "resume_load", "close_task", "cancel", "task_move", "resume",
           "reject_event", "reject_goto", "reject_load", "reject_save",
           "reject_moved_event", "reject_status", "decision_event",
           "approve_save", "approve_event", "move_save", "move_event", "move_load"}

Local == [cur: Target, task: Nat, ok: BOOLEAN, acts: Seq(HumanTypes),
          to: StateKeys, dest: Target \cup {"complete"}, snap: Row]
NoLocal == [cur |-> NoStep, task |-> 0, ok |-> TRUE, acts |-> <<>>,
            to |-> "none", dest |-> NoStep, snap |-> NoRow]

EventTypes == {"triggered", "state_changed", "approved", "rejected", "step_executed"}

TypeOK ==
  /\ wf \in Workflows
  /\ surface \in Surfaces
  /\ row \in Row
  /\ tasks \in Seq(Task)
  /\ events \subseteq EventTypes \X Target
  /\ pc \in [Reqs -> Points]
  /\ loc \in [Reqs -> Local]
  /\ calls \in 0..MaxCalls
  /\ fails \in 0..MaxFails
-----------------------------------------------------------------------------
Init ==
  /\ wf \in Workflows
  /\ surface \in Surfaces
  /\ row = NoRow
  /\ tasks = <<>>
  /\ events = {}
  /\ pc = [p \in Reqs |-> "idle"]
  /\ loc = [p \in Reqs |-> NoLocal]
  /\ calls = 0
  /\ fails = 0

Idle == \A p \in Reqs : pc[p] = "idle"

(* A client call of the given kind may be issued now. *)
MayCall(kind) ==
  /\ kind \in surface
  /\ calls < MaxCalls
  /\ Overlap \/ Idle

(* Request p leaves its handler's entry point for point l with locals v. *)
Accept(p, kind, l, v) ==
  /\ MayCall(kind)
  /\ pc[p] = "idle"
  /\ pc' = [pc EXCEPT ![p] = l]
  /\ loc' = [loc EXCEPT ![p] = v]
  /\ calls' = calls + 1
  /\ UNCHANGED <<wf, surface, fails>>

(* Request p goes from point l to point m with locals v. *)
Move(p, l, m, v) ==
  /\ pc[p] = l
  /\ pc' = [pc EXCEPT ![p] = m]
  /\ loc' = [loc EXCEPT ![p] = IF m = "idle" THEN NoLocal ELSE v]
  /\ UNCHANGED <<wf, surface, calls, fails>>

Log(type, step) == events' = events \cup {<<type, step>>}

(* The row with entry e appended to a stepResults of contents old. *)
WithResult(r, old, e) == [r EXCEPT !.results = old \cup {e}, !.last = e]
Without(results, s) == {e \in results : e.step # s}

(* Slip: the state is set without its history entry. *)
MovedUnrecorded(r, c, s) == [r EXCEPT !.state = s, !.hist = c.hist]

(* The row with one more state move, taken from copy c. *)
Moved(r, c, s) == [r EXCEPT !.state = s,
                            !.hist = Append(c.hist, [from |-> c.state, to |-> s])]
-----------------------------------------------------------------------------
(* triggerWorkflow: create the row, log it, run the first step. *)

(* The states that may come first in wf.states sorted by order. *)
FirstStates ==
  {s \in DOMAIN wf.stateOrder :
     \A t \in DOMAIN wf.stateOrder : wf.stateOrder[s] <= wf.stateOrder[t]}

(* Slip: the key as the enum spells it, which is not the default's spelling. *)
InitialStatesEnum == IF DOMAIN wf.stateOrder = {} THEN {"pending"} ELSE FirstStates

InitialStates == IF DOMAIN wf.stateOrder = {} THEN {"PENDING"} ELSE FirstStates

TriggerWorkflow(p, type) ==
  /\ row.status = "none"
  /\ wf.status = "active"
  /\ type = "manual" \/ type = wf.trigger
  /\ Accept(p, "trigger", "trigger_event", NoLocal)
  /\ \E s \in InitialStates :
       row' = [NoRow EXCEPT !.status = "running", !.state = s,
                 !.hist = <<[from |-> "none", to |-> s]>>]
  /\ UNCHANGED <<tasks, events>>

TriggerEvent(p) ==
  /\ Move(p, "trigger_event", "run_next", loc[p])
  /\ Log("triggered", NoStep)
  /\ UNCHANGED <<row, tasks>>
-----------------------------------------------------------------------------
(* runNextStep, runStepAt, gotoStepById and proceedAfterStep. *)

(* Slip: `>=` for `>`. *)
FollowingOrSame(n) ==
  {s \in Steps : /\ wf.steps[s].order >= n
                 /\ \A t \in Steps : \/ wf.steps[t].order < n
                                     \/ wf.steps[s].order <= wf.steps[t].order}

(* The steps `find((step) => step.order > currentStepOrder)` may return from a
   list sorted by order; steps of equal order come in any order. *)
Following(n) ==
  {s \in Steps : /\ wf.steps[s].order > n
                 /\ \A t \in Steps : \/ wf.steps[t].order <= n
                                     \/ wf.steps[s].order <= wf.steps[t].order}

RunNextStep(p) ==
  /\ \/ /\ Following(row.order) = {}
        /\ Move(p, "run_next", "complete", loc[p])
     \/ \E s \in Following(row.order) :
          Move(p, "run_next", "order", [loc[p] EXCEPT !.cur = s])
  /\ UNCHANGED <<row, tasks, events>>

CompleteExecution(p) ==
  /\ Move(p, "complete", "idle", NoLocal)
  /\ row' = [row EXCEPT !.status = "completed"]
  /\ UNCHANGED <<tasks, events>>

RunStepAt(p) ==
  /\ Move(p, "order", "load_step", loc[p])
  /\ row' = [row EXCEPT !.order = wf.steps[loc[p].cur].order]
  /\ UNCHANGED <<tasks, events>>

(* Where a handler goes when a step leads to destination d: NoStep is "the next
   step in order"; a removed step, or "complete", ends the execution. *)
PointFor(d) == IF d = NoStep THEN "run_next"
               ELSE IF d \in Steps THEN "order" ELSE "complete"
StepFor(d, s) == IF d \in Steps THEN d ELSE s

Proceed(p, l, d) ==
  Move(p, l, PointFor(d), [loc[p] EXCEPT !.cur = StepFor(d, @)])

(* executeConditionStep: the branch taken depends on the record's data. *)
ConditionTargets(c) ==
  {IF c.onTrue # NoStep THEN c.onTrue ELSE c.next,
   IF c.onFalse # NoStep THEN c.onFalse
   ELSE IF c.falseAction = "next" THEN c.next ELSE "complete"}

(* executeStepOfType, from the copy of the row that runStepAt loads. *)
ExecuteStep(p) ==
  LET s == loc[p].cur
      c == wf.steps[s]
      v == [loc[p] EXCEPT !.snap = row]
  IN /\ pc[p] = "load_step"
     /\ \/ /\ c.type \in HumanTypes
           /\ Move(p, "load_step", "save_task", [v EXCEPT !.acts = <<c.type>>])
        \/ /\ c.type = "automation"
           /\ \E ok \in BOOLEAN :
                Move(p, "load_step", "automation_event",
                     [v EXCEPT !.ok = ok, !.dest = c.next])
        \/ /\ c.type = "notification"
           /\ Move(p, "load_step", "read_results",
                   [v EXCEPT !.ok = TRUE, !.dest = c.next])
        \/ /\ c.type = "condition"
           /\ \E d \in ConditionTargets(c) :
                Move(p, "load_step", "read_results",
                     [v EXCEPT !.ok = TRUE, !.dest = d])
        \/ /\ c.type = "unknown"
           /\ Move(p, "load_step", "run_next", v)
     /\ UNCHANGED <<row, tasks, events>>

(* executeAutomationStep: the actions have run, well (ok) or not. *)
AutomationEvent(p) ==
  /\ Move(p, "automation_event", "read_results", loc[p])
  /\ Log("step_executed", loc[p].cur)
  /\ UNCHANGED <<row, tasks>>

(* recordStepResult: read stepResults, then write them back with the entry. *)
ReadResults(p) ==
  /\ Move(p, "read_results", "write_results", [loc[p] EXCEPT !.snap = row])
  /\ UNCHANGED <<row, tasks, events>>

WriteResults(p) ==
  LET s == loc[p].cur
      e == [step |-> s, task |-> 0,
            status |-> IF loc[p].ok THEN "completed" ELSE "failed"]
  IN /\ Proceed(p, "write_results", loc[p].dest)
     /\ row' = WithResult(row, Without(loc[p].snap.results, s), e)
     /\ UNCHANGED <<tasks, events>>
-----------------------------------------------------------------------------
(* executeTaskStep, executeApprovalStep and createTaskFromTransitionConfig:
   save the task, then pause the execution, one statement each.  A task that a
   transition creates has no step. *)

(* Slip: the save is not awaited and the row never arrives. *)
SaveTaskLost(p) ==
  /\ Move(p, "save_task", "pause", [loc[p] EXCEPT !.task = Len(tasks) + 1])
  /\ UNCHANGED <<row, tasks, events>>

SaveTask(p) ==
  /\ Move(p, "save_task", "pause", [loc[p] EXCEPT !.task = Len(tasks) + 1])
  /\ tasks' = Append(tasks, [step |-> loc[p].cur, type |-> Head(loc[p].acts),
                             status |-> "open"])
  /\ UNCHANGED <<row, events>>

(* Slip: the step result is recorded but the status is not. *)
PauseResultOnly(p) ==
  LET e == [step |-> loc[p].cur, task |-> loc[p].task, status |-> "waiting_for_task"]
  IN /\ Move(p, "pause", "idle", NoLocal)
     /\ row' = WithResult(row, loc[p].snap.results, e)
     /\ UNCHANGED <<tasks, events>>

Pause(p) ==
  LET rest == Tail(loc[p].acts)
      e == [step |-> loc[p].cur, task |-> loc[p].task,
            status |-> IF Head(loc[p].acts) = "approval"
                       THEN "waiting_for_approval" ELSE "waiting_for_task"]
  IN /\ Move(p, "pause", IF rest = <<>> THEN "idle" ELSE "save_task",
             [loc[p] EXCEPT !.acts = rest])
     /\ row' = WithResult([row EXCEPT !.status = "paused"], loc[p].snap.results, e)
     /\ UNCHANGED <<tasks, events>>
-----------------------------------------------------------------------------
(* completeTask and resumeAfterTaskCompletion.  The caller is the assignee and
   within the approval limit; other callers are refused and change nothing.
   approved is FALSE for a body with `approved: false` and TRUE for any other:
   a body without a verdict goes the way of an approval. *)

(* Slip: the status of the task is not checked. *)
CompleteTaskAgain(p, t, approved) ==
  /\ approved \/ tasks[t].type = "approval"
  /\ Accept(p, IF tasks[t].type = "approval" THEN "complete_approval"
                                             ELSE "complete_task",
            "resume_load", [NoLocal EXCEPT !.task = t, !.ok = approved])
  /\ UNCHANGED <<row, tasks, events>>

CompleteTask(p, t, approved) ==
  /\ tasks[t].status = "open"
  /\ approved \/ tasks[t].type = "approval"
  /\ Accept(p, IF tasks[t].type = "approval" THEN "complete_approval"
                                             ELSE "complete_task",
            "resume_load", [NoLocal EXCEPT !.task = t, !.ok = approved])
  /\ UNCHANGED <<row, tasks, events>>

ResumeLoad(p) ==
  /\ Move(p, "resume_load", "close_task", [loc[p] EXCEPT !.snap = row])
  /\ UNCHANGED <<row, tasks, events>>

(* findOne({where: {id: task.stepId}}): a null id is no condition at all, so
   for a task that a transition created any step row may come back. *)
StepsOfTask(t) ==
  IF tasks[t].step = NoStep THEN Steps ELSE {tasks[t].step} \cap Steps

CloseTask(p) ==
  LET t == loc[p].task IN
  /\ pc[p] = "close_task"
  /\ \/ /\ loc[p].ok
        /\ Move(p, "close_task", "task_move", loc[p])
     \/ /\ ~loc[p].ok
        /\ \E s \in StepsOfTask(t) :
             Move(p, "close_task", "reject_event", [loc[p] EXCEPT !.cur = s])
     \/ /\ ~loc[p].ok
        /\ StepsOfTask(t) = {}
        /\ Move(p, "close_task", "cancel", loc[p])
  /\ tasks' = [tasks EXCEPT ![t].status = "completed"]
  /\ UNCHANGED <<row, events>>

CancelExecution(p) ==
  /\ Move(p, "cancel", "idle", NoLocal)
  /\ row' = [row EXCEPT !.status = "cancelled"]
  /\ UNCHANGED <<tasks, events>>

(* handleStateTransitionAfterTaskCompletion: the moves it is written for. *)
TaskMoves == {<<"task", 2, "new_hire", "it_setup">>,
              <<"task", 3, "it_setup", "finance_review">>,
              <<"approval", 4, "finance_review", "completed">>}
MovesAfter(s) ==
  {tr \in wf.transitions :
     <<wf.steps[s].type, wf.steps[s].order, tr.from, tr.to>> \in TaskMoves}

TaskMove(p) ==
  LET found == StepsOfTask(loc[p].task) IN
  /\ Move(p, "task_move", "resume", loc[p])
  /\ \/ \E s \in found : \E tr \in MovesAfter(s) :
          row' = Moved(row, loc[p].snap, tr.to)
     \/ /\ found = {} \/ \E s \in found : MovesAfter(s) = {}
        /\ row' = row
  /\ UNCHANGED <<tasks, events>>

(* Its catch clause: a failed statement is logged and the resumption goes on. *)
TaskMoveFails(p) ==
  /\ fails < MaxFails
  /\ pc[p] = "task_move"
  /\ pc' = [pc EXCEPT ![p] = "resume"]
  /\ fails' = fails + 1
  /\ UNCHANGED <<wf, surface, row, tasks, events, loc, calls>>

Resume(p) ==
  LET s == tasks[loc[p].task].step
      e == [step |-> s, task |-> 0, status |-> "completed"]
  IN /\ Move(p, "resume", "run_next", loc[p])
     /\ row' = WithResult([row EXCEPT !.status = "running"],
                          Without(loc[p].snap.results, s), e)
     /\ UNCHANGED <<tasks, events>>
-----------------------------------------------------------------------------
(* routeAfterRejection. *)

(* Slip: the rejection is not logged. *)
RejectUnlogged(p) ==
  /\ Move(p, "reject_event",
          IF wf.steps[loc[p].cur].onReject = NoStep THEN "reject_load"
                                                    ELSE "reject_goto", loc[p])
  /\ UNCHANGED <<row, tasks, events>>

RejectEvent(p) ==
  /\ Move(p, "reject_event",
          IF wf.steps[loc[p].cur].onReject = NoStep THEN "reject_load"
                                                    ELSE "reject_goto", loc[p])
  /\ Log("rejected", loc[p].cur)
  /\ UNCHANGED <<row, tasks>>

RejectGoto(p) ==
  /\ Proceed(p, "reject_goto", wf.steps[loc[p].cur].onReject)
  /\ row' = [row EXCEPT !.status = "running"]
  /\ UNCHANGED <<tasks, events>>

RejectLoad(p) ==
  /\ Move(p, "reject_load", "reject_save", [loc[p] EXCEPT !.snap = row])
  /\ UNCHANGED <<row, tasks, events>>

(* transitionState: save() writes every column of the loaded copy that differs
   from the row, so the copy replaces the row. *)
RejectSave(p) ==
  LET c == loc[p].snap IN
  /\ Move(p, "reject_save", "reject_moved_event", loc[p])
  /\ row' = Moved(c, c, wf.steps[loc[p].cur].rejectionState)
  /\ UNCHANGED <<tasks, events>>

RejectMovedEvent(p) ==
  /\ Move(p, "reject_moved_event", "reject_status", loc[p])
  /\ Log("state_changed", NoStep)
  /\ UNCHANGED <<row, tasks>>

RejectStatus(p) ==
  /\ Move(p, "reject_status", "idle", NoLocal)
  /\ row' = [row EXCEPT !.status = "rejected"]
  /\ UNCHANGED <<tasks, events>>
-----------------------------------------------------------------------------
(* handleApproval, behind POST :executionId/approve and /reject.  It finds the
   step in the last step result and never looks at the task. *)
HandleApproval(p, approved) ==
  /\ row.status = "paused"
  /\ row.last.status = "waiting_for_approval"
  /\ row.last.step \in Steps
  /\ Accept(p, IF approved THEN "approve" ELSE "reject", "decision_event",
            [NoLocal EXCEPT !.cur = row.last.step, !.ok = approved, !.snap = row])
  /\ UNCHANGED <<row, tasks, events>>

DecisionEvent(p) ==
  /\ Move(p, "decision_event",
          IF loc[p].ok THEN "approve_save" ELSE "reject_event", loc[p])
  /\ Log(IF loc[p].ok THEN "approved" ELSE "rejected", loc[p].cur)
  /\ UNCHANGED <<row, tasks>>

ApproveSave(p) ==
  LET c == loc[p].snap
      e == [c.last EXCEPT !.status = "approved"]
  IN /\ Move(p, "approve_save", "approve_event", loc[p])
     /\ row' = WithResult([c EXCEPT !.status = "running"], c.results \ {c.last}, e)
     /\ UNCHANGED <<tasks, events>>

ApproveEvent(p) ==
  /\ Proceed(p, "approve_event", wf.steps[loc[p].cur].next)
  /\ Log("step_executed", loc[p].cur)
  /\ UNCHANGED <<row, tasks>>
-----------------------------------------------------------------------------
(* executeTransition.  The caller holds the required role.  Of the actions of a
   transition only create_task touches this state. *)

(* Slip: fromState is not compared with currentState. *)
ExecuteAnyTransition(p, tr) ==
  /\ row.status # "none"
  /\ Accept(p, "transition", "move_save",
            [NoLocal EXCEPT !.to = tr.to, !.acts = tr.tasks, !.snap = row])
  /\ UNCHANGED <<row, tasks, events>>

ExecuteTransition(p, tr) ==
  /\ row.status # "none"
  /\ tr.from = row.state
  /\ Accept(p, "transition", "move_save",
            [NoLocal EXCEPT !.to = tr.to, !.acts = tr.tasks, !.snap = row])
  /\ UNCHANGED <<row, tasks, events>>

MoveSave(p) ==
  LET c == loc[p].snap IN
  /\ Move(p, "move_save", "move_event", loc[p])
  /\ row' = Moved(c, c, loc[p].to)
  /\ UNCHANGED <<tasks, events>>

MoveEvent(p) ==
  /\ Move(p, "move_event", "move_load", loc[p])
  /\ Log("state_changed", NoStep)
  /\ UNCHANGED <<row, tasks>>

MoveLoad(p) ==
  /\ Move(p, "move_load", IF loc[p].acts = <<>> THEN "idle" ELSE "save_task",
          [loc[p] EXCEPT !.snap = row])
  /\ UNCHANGED <<row, tasks, events>>
-----------------------------------------------------------------------------
(* The task inbox: startTask and claimTask reopen whatever status the task has,
   cancelTask closes it, and none of them looks at the execution. *)
SetTask(t, kind, status) ==
  /\ MayCall(kind)
  /\ tasks' = [tasks EXCEPT ![t].status = status]
  /\ calls' = calls + 1
  /\ UNCHANGED <<wf, surface, row, events, pc, loc, fails>>

StartTask(t) == SetTask(t, "start", "open")
CancelTask(t) == SetTask(t, "cancel", "cancelled")

(* A request dies at an await: its statement failed, or the process crashed. *)
Fail(p) ==
  /\ fails < MaxFails
  /\ pc[p] # "idle"
  /\ pc' = [pc EXCEPT ![p] = "idle"]
  /\ loc' = [loc EXCEPT ![p] = NoLocal]
  /\ fails' = fails + 1
  /\ UNCHANGED <<wf, surface, row, tasks, events, calls>>
-----------------------------------------------------------------------------
(* The next statement of request p. *)
Statement(p) ==
  \/ TriggerEvent(p) \/ RunNextStep(p) \/ CompleteExecution(p) \/ RunStepAt(p)
  \/ ExecuteStep(p) \/ AutomationEvent(p) \/ ReadResults(p) \/ WriteResults(p)
  \/ SaveTask(p) \/ Pause(p)
  \/ ResumeLoad(p) \/ CloseTask(p) \/ CancelExecution(p) \/ TaskMove(p) \/ Resume(p)
  \/ RejectEvent(p) \/ RejectGoto(p) \/ RejectLoad(p) \/ RejectSave(p)
  \/ RejectMovedEvent(p) \/ RejectStatus(p)
  \/ DecisionEvent(p) \/ ApproveSave(p) \/ ApproveEvent(p)
  \/ MoveSave(p) \/ MoveEvent(p) \/ MoveLoad(p)

Call(p) ==
  \/ \E type \in TriggerTypes : TriggerWorkflow(p, type)
  \/ \E t \in DOMAIN tasks, approved \in BOOLEAN : CompleteTask(p, t, approved)
  \/ \E approved \in BOOLEAN : HandleApproval(p, approved)
  \/ \E tr \in wf.transitions : ExecuteTransition(p, tr)

Next ==
  \/ \E p \in Reqs : Call(p) \/ Statement(p) \/ TaskMoveFails(p) \/ Fail(p)
  \/ \E t \in DOMAIN tasks : StartTask(t) \/ CancelTask(t)

Spec == Init /\ [][Next]_vars

(* Node resumes a handler once its statement has returned, so a request that is
   in flight goes on; nothing obliges a client to issue a call. *)
FairSpec == Spec /\ \A p \in Reqs : WF_vars(Statement(p))

Open == {t \in DOMAIN tasks : tasks[t].status = "open"}
-----------------------------------------------------------------------------
(* Properties that hold whatever the clients do: any calls, overlapping in any
   way, any of them dying at any await. *)

(* An execution never waits for a task that does not exist: every waiting entry
   of stepResults names a task that was saved, for that step (the task is saved
   before the execution is paused, and stale copies only carry older entries). *)
WaitingHasTask ==
  \A e \in row.results : e.status \in Waiting =>
    /\ e.task \in DOMAIN tasks
    /\ tasks[e.task].step = e.step
    /\ tasks[e.task].type = "approval" <=> e.status = "waiting_for_approval"

(* The audit trail is never behind the row: a REJECTED execution has a logged
   rejection, and a step that POST :executionId/approve marked approved (handleApproval)
   a logged approval.  An approval in the inbox is stored as a completed step and logs
   no approval of its own (resumeAfterTaskCompletion). *)
DecisionsAudited ==
  /\ row.status = "rejected" => \E s \in Steps : <<"rejected", s>> \in events
  /\ \A e \in row.results : e.status = "approved" => <<"approved", e.step>> \in events

(* stateHistory explains currentState: it is a chain of moves, each one leaving
   the state the previous one reached, that ends in the current state. *)
HistoryExplainsState ==
  row.status # "none" =>
    /\ row.hist # <<>>
    /\ row.hist[Len(row.hist)].to = row.state
    /\ \A i \in 1..(Len(row.hist) - 1) : row.hist[i].to = row.hist[i + 1].from

(* Every move of a workflow without the built-in onboarding moves is a
   configured transition or a rejection, although executeTransition tests
   fromState on a copy that may be stale when it is saved. *)
MovesAreConfigured ==
  (\A s \in Steps : MovesAfter(s) = {}) =>
    \A i \in 2..Len(row.hist) :
      \/ \E tr \in wf.transitions : tr.from = row.hist[i].from /\ tr.to = row.hist[i].to
      \/ \E s \in Steps : wf.steps[s].rejectionState = row.hist[i].to
-----------------------------------------------------------------------------
(* Properties of clients that execute no transitions, with no request dying. *)

(* However requests overlap, the last one to return leaves no execution RUNNING
   with nobody to run it: the last status a request writes is never RUNNING.
   (executeTransition is excluded: it saves the status of its copy, which may be
   the RUNNING of a handler that has returned since.) *)
IdleMeansSettled == Idle => row.status # "running"

(* Every request returns: steps lead forward, so no handler runs in circles even
   while other handlers move currentStepOrder under it. *)
RequestsFinish == \A p \in Reqs : pc[p] # "idle" ~> pc[p] = "idle"

(* "PAUSE execution - will resume when task is completed": once all requests
   have returned, a paused execution has a task left to complete. *)
ResumesWhenTaskCompleted == Idle /\ row.status = "paused" => Open # {}

(* "After a step finishes, follow explicit nextStepId or the next step in
   order": the order decides only after a step without nextStepId. *)
FollowsNextStepId ==
  [][\A p \in Reqs :
       /\ pc[p] = "run_next" /\ pc'[p] \in {"order", "complete"}
       /\ row.last.step \in Steps
       => wf.steps[row.last.step].next = NoStep]_vars
-----------------------------------------------------------------------------
(* A property of one client at a time (Overlap = FALSE). *)

(* A client that works through the task inbox, one request at a time, sees an
   execution keep the promises of ExecutionLifecycle: one open task at a time, no
   advance before its completion, no step after the end.  Requests may die. *)
Lifecycle == INSTANCE ExecutionLifecycle WITH
               status <- row.status, awaiting <- Open
KeepsLifecycle == Lifecycle!Spec
=============================================================================
