----------------------- MODULE WorkflowExecutionProofs -----------------------
(***************************************************************************)
(* Proofs about WorkflowExecution, for any workflows, any number of        *)
(* requests and calls: typing, that what is written is well founded        *)
(* (WaitingHasTask, DecisionsAudited, HistoryExplainsState,                *)
(* MovesAreConfigured), that handlers settle what they start               *)
(* (IdleMeansSettled) and that one client at a time sees ExecutionLifecycle*)
(* (KeepsLifecycle).                                                       *)
(***************************************************************************)
EXTENDS WorkflowExecution, SequenceTheorems, TLAPS

(* Where a request runs, or has just run, the step cur of the workflow. *)
StepPoints == {"order", "load_step", "automation_event", "read_results",
               "write_results", "reject_event", "reject_goto", "reject_load",
               "reject_save", "decision_event", "approve_save", "approve_event"}

(* Where it works for the task it has been asked to complete. *)
TaskPoints == {"resume_load", "close_task", "task_move", "resume"}

(* Where its copy of the execution row is one it has read. *)
SnapPoints == {"automation_event", "write_results", "save_task", "pause",
               "close_task", "task_move", "resume", "reject_save",
               "decision_event", "approve_save", "move_save"}

(* Where a rejection of the step cur has been logged. *)
RejectedPoints == {"reject_goto", "reject_load", "reject_save",
                   "reject_moved_event", "reject_status"}

Fit(l, v) ==
  /\ l \in StepPoints => v.cur \in Steps
  /\ l \in TaskPoints => v.task \in DOMAIN tasks
  /\ l \in {"save_task", "pause"} => v.acts # <<>>

LocalsFit == \A p \in Reqs : Fit(pc[p], loc[p])

(* TypeOK, with what the typing of the next step needs of the locals. *)
Typed == TypeOK /\ LocalsFit
-----------------------------------------------------------------------------
(* What each of the three properties says of one copy of the row. *)
WaitOK(r) ==
  \A e \in r.results : e.status \in Waiting =>
    /\ e.task \in DOMAIN tasks
    /\ tasks[e.task].step = e.step
    /\ tasks[e.task].type = "approval" <=> e.status = "waiting_for_approval"

Chained(h) == \A i \in 1..(Len(h) - 1) : h[i].to = h[i + 1].from

HistOK(r) ==
  /\ r.status # "none"
  /\ r.hist # <<>>
  /\ r.hist[Len(r.hist)].to = r.state
  /\ Chained(r.hist)

RejectionLogged == \E s \in Steps : <<"rejected", s>> \in events

AuditOK(r) ==
  /\ r.status = "rejected" => RejectionLogged
  /\ \A e \in r.results : e.status = "approved" => <<"approved", e.step>> \in events

(* Every copy that is about to be written keeps the promise that the row keeps. *)
WaitInv ==
  /\ WaitOK(row)
  /\ \A p \in Reqs :
       /\ WaitOK(loc[p].snap)
       /\ pc[p] = "pause" =>
            /\ loc[p].task \in DOMAIN tasks
            /\ tasks[loc[p].task].step = loc[p].cur
            /\ tasks[loc[p].task].type = Head(loc[p].acts)

(* The row exists once anything refers to it. *)
HistInv ==
  /\ row.status # "none" => HistOK(row)
  /\ row.status = "none" => tasks = <<>> /\ \A p \in Reqs : pc[p] = "idle"
  /\ \A p \in Reqs : pc[p] \in SnapPoints => HistOK(loc[p].snap)

AuditInv ==
  /\ AuditOK(row)
  /\ \A p \in Reqs :
       /\ AuditOK(loc[p].snap)
       /\ pc[p] \in RejectedPoints => RejectionLogged
       /\ pc[p] \in {"decision_event", "approve_save"} =>
            loc[p].snap.last.step = loc[p].cur
       /\ pc[p] = "approve_save" => <<"approved", loc[p].cur>> \in events
-----------------------------------------------------------------------------
(* Typing. *)

LEMMA WorkflowFacts ==
  ASSUME Typed
  PROVE  /\ Steps \subseteq StepIds
         /\ wf.steps \in [Steps -> StepConfig]
         /\ DOMAIN wf.stateOrder \subseteq StateKeys
         /\ wf.transitions \subseteq Transition
         /\ wf.trigger \in TriggerTypes
BY ConstantsAssumption DEF Typed, TypeOK, WorkflowsAssumption, Steps

LEMMA NoLocalTyped == NoRow \in Row /\ NoLocal \in Local /\ NoResult \in Result
<1>1. NoResult \in Result
  BY DEF NoResult, Result, Target
<1>2. NoRow \in Row
  BY <1>1, ConstantsAssumption DEF NoRow, Row, Statuses
<1>3. NoLocal \in Local
  BY <1>2, ConstantsAssumption DEF NoLocal, Local, Target
<1> QED
  BY <1>1, <1>2, <1>3

LEMMA MovedTyped ==
  ASSUME NEW r \in Row, NEW c \in Row, NEW s \in StateKeys
  PROVE  Moved(r, c, s) \in Row
<1>1. [from |-> c.state, to |-> s] \in StateMove
  BY DEF Row, StateMove
<1>2. Append(c.hist, [from |-> c.state, to |-> s]) \in Seq(StateMove)
  BY <1>1 DEF Row
<1> QED
  BY <1>2 DEF Moved, Row

LEMMA WithResultTyped ==
  ASSUME NEW r \in Row, NEW old \in SUBSET Result, NEW e \in Result
  PROVE  WithResult(r, old, e) \in Row
BY DEF WithResult, Row

(* A move types if what it hands over does. *)
LEMMA MoveTyped ==
  ASSUME Typed,
         NEW p \in Reqs, NEW l, NEW m \in Points, NEW v \in Local,
         Move(p, l, m, v), Fit(m, v),
         row' \in Row, tasks' \in Seq(Task), DOMAIN tasks \subseteq DOMAIN tasks',
         events' \subseteq EventTypes \X Target
  PROVE  Typed'
<1> USE DEF Typed
<1>1. pc' \in [Reqs -> Points] /\ loc' \in [Reqs -> Local]
  BY NoLocalTyped DEF TypeOK, Move
<1>2. TypeOK'
  BY <1>1 DEF TypeOK, Move
<1>3. LocalsFit'
  <2> SUFFICES ASSUME NEW q \in Reqs PROVE Fit(pc[q], loc[q])'
    BY DEF LocalsFit
  <2>1. Steps' = Steps
    BY DEF Move, Steps
  <2>2. CASE q = p /\ m = "idle"
    BY <2>2 DEF TypeOK, Move, Fit, StepPoints, TaskPoints
  <2>3. CASE q = p /\ m # "idle"
    BY <2>1, <2>3 DEF TypeOK, Move, Fit
  <2>4. CASE q # p
    BY <2>1, <2>4 DEF TypeOK, Move, Fit, LocalsFit
  <2> QED
    BY <2>2, <2>3, <2>4
<1> QED
  BY <1>2, <1>3

LEMMA AcceptTyped ==
  ASSUME Typed,
         NEW p \in Reqs, NEW kind, NEW m \in Points, NEW v \in Local,
         Accept(p, kind, m, v), Fit(m, v),
         row' \in Row, UNCHANGED <<tasks, events>>
  PROVE  Typed'
<1> USE DEF Typed
<1>1. pc' \in [Reqs -> Points] /\ loc' \in [Reqs -> Local]
  BY DEF TypeOK, Accept
<1>2. calls' \in 0..MaxCalls
  BY ConstantsAssumption DEF TypeOK, Accept, MayCall
<1>3. TypeOK'
  BY <1>1, <1>2 DEF TypeOK, Accept
<1>4. LocalsFit'
  <2> SUFFICES ASSUME NEW q \in Reqs PROVE Fit(pc[q], loc[q])'
    BY DEF LocalsFit
  <2>1. Steps' = Steps
    BY DEF Accept, Steps
  <2>2. CASE q = p
    BY <2>1, <2>2 DEF TypeOK, Accept, Fit
  <2>3. CASE q # p
    BY <2>1, <2>3 DEF TypeOK, Accept, Fit, LocalsFit
  <2> QED
    BY <2>2, <2>3
<1> QED
  BY <1>3, <1>4

(* Where a step leads: a step of the workflow, run_next or complete. *)
LEMMA ProceedTyped ==
  ASSUME Typed,
         NEW p \in Reqs, NEW l \in StepPoints, NEW d \in Target \cup {"complete"},
         Proceed(p, l, d),
         row' \in Row, tasks' = tasks, events' \subseteq EventTypes \X Target
  PROVE  Typed'
<1> DEFINE v == [loc[p] EXCEPT !.cur = StepFor(d, @)]
<1>0. loc[p] \in Local /\ pc[p] = l /\ loc[p].cur \in Steps
  BY DEF Typed, TypeOK, LocalsFit, Fit, Proceed, Move
<1>1. PointFor(d) \in Points
  BY DEF PointFor, Points
<1>2. v \in Local /\ v.cur = StepFor(d, loc[p].cur)
  BY <1>0, WorkflowFacts DEF StepFor, Local, Target
<1>3. Fit(PointFor(d), v)
  BY <1>0, <1>2 DEF Fit, PointFor, StepFor, StepPoints, TaskPoints
<1>4. Move(p, l, PointFor(d), v)
  BY DEF Proceed
<1>5. tasks' \in Seq(Task)
  BY DEF Typed, TypeOK
<1> QED
  BY <1>1, <1>2, <1>3, <1>4, <1>5, MoveTyped

LEMMA TriggerTyped ==
  ASSUME Typed, NEW p \in Reqs, NEW type, TriggerWorkflow(p, type)
  PROVE  Typed'
<1>1. PICK s \in InitialStates :
        row' = [NoRow EXCEPT !.status = "running", !.state = s,
                             !.hist = <<[from |-> "none", to |-> s]>>]
  BY DEF TriggerWorkflow
<1>2. s \in StateKeys
  BY WorkflowFacts, ConstantsAssumption DEF InitialStates, FirstStates
<1>3. <<[from |-> "none", to |-> s]>> \in Seq(StateMove)
  BY <1>2, ConstantsAssumption DEF StateMove
<1>4. row' \in Row
  BY <1>1, <1>2, <1>3, NoLocalTyped DEF Row, Statuses
<1>5. Fit("trigger_event", NoLocal) /\ "trigger_event" \in Points
  BY DEF Fit, StepPoints, TaskPoints, Points
<1> QED
  BY <1>4, <1>5, AcceptTyped, NoLocalTyped DEF TriggerWorkflow

(* The parts of Typed that the cases below use. *)
LEMMA TypedFacts ==
  ASSUME Typed, NEW p \in Reqs
  PROVE  /\ row \in Row /\ tasks \in Seq(Task)
         /\ events \subseteq EventTypes \X Target
         /\ pc[p] \in Points /\ loc[p] \in Local /\ loc[p].snap \in Row
         /\ Fit(pc[p], loc[p])
BY DEF Typed, TypeOK, LocalsFit, Local

LEMMA LogTyped ==
  ASSUME Typed, NEW type \in EventTypes, NEW s \in Target, Log(type, s)
  PROVE  events' \subseteq EventTypes \X Target
BY DEF Typed, TypeOK, Log

LEMMA StatusTyped ==
  ASSUME Typed, NEW st \in Statuses
  PROVE  [row EXCEPT !.status = st] \in Row
BY DEF Typed, TypeOK, Row

(* A request that goes on with the locals it has, or gives up. *)
LEMMA KeepTyped ==
  ASSUME Typed,
         NEW p \in Reqs, NEW l, NEW m \in Points, Move(p, l, m, loc[p]),
         \/ l \in StepPoints
         \/ m \notin StepPoints /\ l \in TaskPoints
         \/ m \notin StepPoints \cup TaskPoints,
         m \notin {"save_task", "pause"}, l \in StepPoints => m \notin TaskPoints,
         row' \in Row, tasks' \in Seq(Task), DOMAIN tasks \subseteq DOMAIN tasks',
         events' \subseteq EventTypes \X Target
  PROVE  Typed'
<1>1. pc[p] = l
  BY DEF Move
<1>2. Fit(m, loc[p])
  BY <1>1, TypedFacts DEF Fit
<1> QED
  BY <1>2, TypedFacts, MoveTyped

LEMMA EndTyped ==
  ASSUME Typed,
         NEW p \in Reqs, NEW l, Move(p, l, "idle", NoLocal),
         row' \in Row, UNCHANGED <<tasks, events>>
  PROVE  Typed'
<1>1. Fit("idle", NoLocal) /\ "idle" \in Points
  BY DEF Fit, StepPoints, TaskPoints, Points
<1> QED
  BY <1>1, NoLocalTyped, TypedFacts, MoveTyped

LEMMA EngineTyped ==
  ASSUME Typed, NEW p \in Reqs
  PROVE  /\ TriggerEvent(p) => Typed'
         /\ RunNextStep(p) => Typed'
         /\ CompleteExecution(p) => Typed'
         /\ RunStepAt(p) => Typed'
         /\ ExecuteStep(p) => Typed'
         /\ AutomationEvent(p) => Typed'
         /\ ReadResults(p) => Typed'
         /\ WriteResults(p) => Typed'
<1> USE TypedFacts DEF StepPoints, TaskPoints, Points
<1>1. ASSUME TriggerEvent(p) PROVE Typed'
  <2>1. events' \subseteq EventTypes \X Target
    BY <1>1, LogTyped DEF TriggerEvent, EventTypes, Target
  <2> QED
    BY <1>1, <2>1, KeepTyped DEF TriggerEvent
<1>2. ASSUME RunNextStep(p) PROVE Typed'
  <2>1. CASE Move(p, "run_next", "complete", loc[p])
    BY <1>2, <2>1, KeepTyped DEF RunNextStep
  <2>2. ASSUME NEW s \in Following(row.order),
               Move(p, "run_next", "order", [loc[p] EXCEPT !.cur = s])
        PROVE  Typed'
    <3>1. s \in Steps /\ s \in Target
      BY WorkflowFacts DEF Following, Target
    <3>2. [loc[p] EXCEPT !.cur = s] \in Local
      BY <3>1 DEF Local
    <3>3. Fit("order", [loc[p] EXCEPT !.cur = s])
      BY <3>1 DEF Fit, Local
    <3> QED
      BY <1>2, <2>2, <3>2, <3>3, MoveTyped DEF RunNextStep
  <2> QED
    BY <1>2, <2>1, <2>2 DEF RunNextStep
<1>3. ASSUME CompleteExecution(p) PROVE Typed'
  BY <1>3, EndTyped, StatusTyped DEF CompleteExecution, Statuses
<1>4. ASSUME RunStepAt(p) PROVE Typed'
  <2>1. loc[p].cur \in Steps
    BY <1>4 DEF RunStepAt, Move, Fit
  <2>2. wf.steps[loc[p].cur].order \in Nat
    BY <2>1, WorkflowFacts DEF StepConfig
  <2>3. row' \in Row
    BY <1>4, <2>2 DEF RunStepAt, Row
  <2> QED
    BY <1>4, <2>3, KeepTyped DEF RunStepAt
<1>5. ASSUME ExecuteStep(p) PROVE Typed'
  <2> DEFINE s == loc[p].cur
             c == wf.steps[s]
             v == [loc[p] EXCEPT !.snap = row]
  <2>1. s \in Steps
    BY <1>5 DEF ExecuteStep, Fit
  <2>2. c \in StepConfig
    BY <2>1, WorkflowFacts
  <2>3. v \in Local /\ v.cur = s
    BY DEF Local
  <2>4. row' \in Row /\ tasks' = tasks /\ events' = events
    BY <1>5 DEF ExecuteStep
  <2>5. ASSUME c.type \in HumanTypes,
               Move(p, "load_step", "save_task", [v EXCEPT !.acts = <<c.type>>])
        PROVE  Typed'
    <3>0. <<c.type>> \in Seq(HumanTypes)
      BY <2>5
    <3>1. [v EXCEPT !.acts = <<c.type>>] \in Local
      BY <2>3, <3>0 DEF Local
    <3>2. Fit("save_task", [v EXCEPT !.acts = <<c.type>>])
      BY <2>3 DEF Fit, Local
    <3> QED
      BY <2>4, <2>5, <3>1, <3>2, MoveTyped
  <2>6. ASSUME NEW ok \in BOOLEAN,
               Move(p, "load_step", "automation_event",
                    [v EXCEPT !.ok = ok, !.dest = c.next])
        PROVE  Typed'
    <3>1. [v EXCEPT !.ok = ok, !.dest = c.next] \in Local
      BY <2>2, <2>3 DEF Local, StepConfig
    <3>2. Fit("automation_event", [v EXCEPT !.ok = ok, !.dest = c.next])
      BY <2>1, <2>3 DEF Fit, Local
    <3> QED
      BY <2>4, <2>6, <3>1, <3>2, MoveTyped
  <2>7. ASSUME NEW d \in Target \cup {"complete"},
               Move(p, "load_step", "read_results", [v EXCEPT !.ok = TRUE, !.dest = d])
        PROVE  Typed'
    <3>1. [v EXCEPT !.ok = TRUE, !.dest = d] \in Local
      BY <2>3 DEF Local
    <3>2. Fit("read_results", [v EXCEPT !.ok = TRUE, !.dest = d])
      BY <2>1, <2>3 DEF Fit, Local
    <3> QED
      BY <2>4, <2>7, <3>1, <3>2, MoveTyped
  <2>8. ASSUME Move(p, "load_step", "run_next", v) PROVE Typed'
    <3>1. Fit("run_next", v)
      BY DEF Fit
    <3> QED
      BY <2>3, <2>4, <2>8, <3>1, MoveTyped
  <2>9. c.next \in Target /\ ConditionTargets(c) \subseteq Target \cup {"complete"}
    BY <2>2 DEF ConditionTargets, StepConfig
  <2> QED
    BY <1>5, <2>5, <2>6, <2>7, <2>8, <2>9 DEF ExecuteStep
<1>6. ASSUME AutomationEvent(p) PROVE Typed'
  <2>1. loc[p].cur \in Target
    BY DEF Local
  <2>2. events' \subseteq EventTypes \X Target
    BY <1>6, <2>1, LogTyped DEF AutomationEvent, EventTypes
  <2> QED
    BY <1>6, <2>2, KeepTyped DEF AutomationEvent
<1>7. ASSUME ReadResults(p) PROVE Typed'
  <2>1. [loc[p] EXCEPT !.snap = row] \in Local
    BY DEF Local
  <2>2. loc[p].cur \in Steps
    BY <1>7 DEF ReadResults, Move, Fit
  <2>3. Fit("write_results", [loc[p] EXCEPT !.snap = row])
    BY <2>2 DEF Fit, Local
  <2> QED
    BY <1>7, <2>1, <2>3, MoveTyped DEF ReadResults
<1>8. ASSUME WriteResults(p) PROVE Typed'
  <2> DEFINE e == [step |-> loc[p].cur, task |-> 0,
                   status |-> IF loc[p].ok THEN "completed" ELSE "failed"]
  <2>1. e \in Result
    BY DEF Result, Local
  <2>2. Without(loc[p].snap.results, loc[p].cur) \in SUBSET Result
    BY DEF Without, Row
  <2>3. row' \in Row
    BY <1>8, <2>1, <2>2, WithResultTyped DEF WriteResults
  <2>4. loc[p].dest \in Target \cup {"complete"}
    BY DEF Local
  <2> QED
    BY <1>8, <2>3, <2>4, ProceedTyped DEF WriteResults
<1> QED
  BY <1>1, <1>2, <1>3, <1>4, <1>5, <1>6, <1>7, <1>8

(* Setting a status leaves the rest of the tasks as they are. *)
LEMMA TasksUpdated ==
  ASSUME Typed, NEW t \in DOMAIN tasks, NEW st \in {"open", "completed", "cancelled"},
         tasks' = [tasks EXCEPT ![t].status = st]
  PROVE  /\ tasks' \in Seq(Task)
         /\ DOMAIN tasks' = DOMAIN tasks
         /\ \A u \in DOMAIN tasks : /\ tasks'[u].step = tasks[u].step
                                    /\ tasks'[u].type = tasks[u].type
<1>1. tasks \in Seq(Task) /\ tasks[t] \in Task
  BY DEF Typed, TypeOK
<1>2. [tasks[t] EXCEPT !.status = st] \in Task
  BY <1>1 DEF Task
<1>3. tasks' = [tasks EXCEPT ![t] = [tasks[t] EXCEPT !.status = st]]
  OBVIOUS
<1>4. \A u \in DOMAIN tasks : tasks[u] \in Task
  BY <1>1
<1>5. DOMAIN tasks' = DOMAIN tasks /\ t \in 1..Len(tasks)
  BY <1>1, <1>3
<1>6. tasks' \in Seq(Task)
  BY <1>1, <1>2, <1>3, <1>5, ExceptSeq
<1>7. \A u \in DOMAIN tasks : /\ tasks'[u].step = tasks[u].step
                              /\ tasks'[u].type = tasks[u].type
  BY <1>3, <1>4 DEF Task
<1> QED
  BY <1>1, <1>5, <1>6, <1>7

LEMMA TaskTyped ==
  ASSUME Typed, NEW p \in Reqs
  PROVE  /\ SaveTask(p) => Typed'
         /\ Pause(p) => Typed'
         /\ \A t \in DOMAIN tasks, ok \in BOOLEAN : CompleteTask(p, t, ok) => Typed'
         /\ ResumeLoad(p) => Typed'
         /\ CloseTask(p) => Typed'
         /\ CancelExecution(p) => Typed'
         /\ TaskMove(p) => Typed'
         /\ TaskMoveFails(p) => Typed'
         /\ Resume(p) => Typed'
<1> USE TypedFacts DEF StepPoints, TaskPoints, Points
<1>1. ASSUME SaveTask(p) PROVE Typed'
  <2> DEFINE v == [loc[p] EXCEPT !.task = Len(tasks) + 1]
             t == [step |-> loc[p].cur, type |-> Head(loc[p].acts), status |-> "open"]
  <2>1. loc[p].acts # <<>> /\ Head(loc[p].acts) \in HumanTypes
    BY <1>1 DEF SaveTask, Move, Fit, Local
  <2>2. t \in Task
    BY <2>1 DEF Task, Local
  <2>3. tasks' \in Seq(Task) /\ DOMAIN tasks \subseteq DOMAIN tasks'
    BY <1>1, <2>2 DEF SaveTask
  <2>4. v \in Local /\ Fit("pause", v)
    BY <2>1 DEF Fit, Local
  <2> QED
    BY <1>1, <2>3, <2>4, MoveTyped DEF SaveTask
<1>2. ASSUME Pause(p) PROVE Typed'
  <2> DEFINE e == [step |-> loc[p].cur, task |-> loc[p].task,
                   status |-> IF Head(loc[p].acts) = "approval"
                              THEN "waiting_for_approval" ELSE "waiting_for_task"]
             v == [loc[p] EXCEPT !.acts = Tail(loc[p].acts)]
  <2>1. loc[p].acts # <<>> /\ Tail(loc[p].acts) \in Seq(HumanTypes)
    BY <1>2 DEF Pause, Move, Fit, Local
  <2>2. e \in Result
    BY DEF Result, Local, Waiting
  <2>3. [row EXCEPT !.status = "paused"] \in Row /\ loc[p].snap.results \in SUBSET Result
    BY StatusTyped DEF Statuses, Row
  <2>4. row' \in Row
    BY <1>2, <2>2, <2>3, WithResultTyped DEF Pause
  <2>5. v \in Local
    BY <2>1 DEF Local
  <2>6. Tail(loc[p].acts) # <<>> => Fit("save_task", v)
    BY DEF Fit, Local
  <2>7. Fit("idle", v)
    BY DEF Fit
  <2> QED
    BY <1>2, <2>4, <2>5, <2>6, <2>7, MoveTyped DEF Pause
<1>3. ASSUME NEW t \in DOMAIN tasks, NEW ok \in BOOLEAN, CompleteTask(p, t, ok)
      PROVE  Typed'
  <2> DEFINE v == [NoLocal EXCEPT !.task = t, !.ok = ok]
  <2>1. t \in Nat
    OBVIOUS
  <2>2. v \in Local /\ v.task = t
    BY <2>1, NoLocalTyped DEF Local
  <2>3. Fit("resume_load", v)
    BY <2>2 DEF Fit
  <2> QED
    BY <1>3, <2>2, <2>3, AcceptTyped DEF CompleteTask
<1>4. ASSUME ResumeLoad(p) PROVE Typed'
  <2>1. [loc[p] EXCEPT !.snap = row] \in Local
    BY DEF Local
  <2>2. loc[p].task \in DOMAIN tasks
    BY <1>4 DEF ResumeLoad, Move, Fit
  <2>3. Fit("close_task", [loc[p] EXCEPT !.snap = row])
    BY <2>2 DEF Fit, Local
  <2> QED
    BY <1>4, <2>1, <2>3, MoveTyped DEF ResumeLoad
<1>5. ASSUME CloseTask(p) PROVE Typed'
  <2>1. loc[p].task \in DOMAIN tasks
    BY <1>5 DEF CloseTask, Fit
  <2>2. tasks' \in Seq(Task) /\ DOMAIN tasks' = DOMAIN tasks
    BY <1>5, <2>1, TasksUpdated DEF CloseTask
  <2>3. CASE Move(p, "close_task", "task_move", loc[p])
    BY <1>5, <2>2, <2>3, KeepTyped DEF CloseTask
  <2>4. ASSUME NEW s \in StepsOfTask(loc[p].task),
               Move(p, "close_task", "reject_event", [loc[p] EXCEPT !.cur = s])
        PROVE  Typed'
    <3>1. s \in Steps /\ s \in Target
      BY WorkflowFacts DEF StepsOfTask, Target
    <3>2. [loc[p] EXCEPT !.cur = s] \in Local
      BY <3>1 DEF Local
    <3>3. Fit("reject_event", [loc[p] EXCEPT !.cur = s])
      BY <3>1 DEF Fit, Local
    <3> QED
      BY <1>5, <2>2, <2>4, <3>2, <3>3, MoveTyped DEF CloseTask
  <2>5. CASE Move(p, "close_task", "cancel", loc[p])
    BY <1>5, <2>2, <2>5, KeepTyped DEF CloseTask
  <2> QED
    BY <1>5, <2>3, <2>4, <2>5 DEF CloseTask
<1>6. ASSUME CancelExecution(p) PROVE Typed'
  BY <1>6, EndTyped, StatusTyped DEF CancelExecution, Statuses
<1>7. ASSUME TaskMove(p) PROVE Typed'
  <2>1. row' \in Row
    <3>1. ASSUME NEW s \in StepsOfTask(loc[p].task), NEW tr \in MovesAfter(s),
                 row' = Moved(row, loc[p].snap, tr.to)
          PROVE  row' \in Row
      BY <3>1, WorkflowFacts, MovedTyped DEF MovesAfter, Transition
    <3> QED
      BY <1>7, <3>1 DEF TaskMove
  <2> QED
    BY <1>7, <2>1, KeepTyped DEF TaskMove
<1>8. ASSUME TaskMoveFails(p) PROVE Typed'
  <2>1. fails' \in 0..MaxFails
    BY <1>8, ConstantsAssumption DEF TaskMoveFails, Typed, TypeOK
  <2>2. TypeOK'
    BY <1>8, <2>1 DEF TaskMoveFails, Typed, TypeOK
  <2>3. LocalsFit'
    BY <1>8 DEF TaskMoveFails, Typed, TypeOK, LocalsFit, Fit, Steps
  <2> QED
    BY <2>2, <2>3 DEF Typed
<1>9. ASSUME Resume(p) PROVE Typed'
  <2> DEFINE s == tasks[loc[p].task].step
             e == [step |-> s, task |-> 0, status |-> "completed"]
  <2>1. loc[p].task \in DOMAIN tasks
    BY <1>9 DEF Resume, Move, Fit
  <2>2. tasks[loc[p].task] \in Task
    BY <2>1
  <2>3. e \in Result
    BY <2>2 DEF Result, Task
  <2>4. [row EXCEPT !.status = "running"] \in Row
        /\ Without(loc[p].snap.results, s) \in SUBSET Result
    BY StatusTyped DEF Statuses, Row, Without
  <2>5. row' \in Row
    BY <1>9, <2>3, <2>4, WithResultTyped DEF Resume
  <2> QED
    BY <1>9, <2>5, KeepTyped DEF Resume
<1> QED
  BY <1>1, <1>2, <1>3, <1>4, <1>5, <1>6, <1>7, <1>8, <1>9

LEMMA DecisionTyped ==
  ASSUME Typed, NEW p \in Reqs
  PROVE  /\ RejectEvent(p) => Typed'
         /\ RejectGoto(p) => Typed'
         /\ RejectLoad(p) => Typed'
         /\ RejectSave(p) => Typed'
         /\ RejectMovedEvent(p) => Typed'
         /\ RejectStatus(p) => Typed'
         /\ \A ok \in BOOLEAN : HandleApproval(p, ok) => Typed'
         /\ DecisionEvent(p) => Typed'
         /\ ApproveSave(p) => Typed'
         /\ ApproveEvent(p) => Typed'
<1> USE TypedFacts DEF StepPoints, TaskPoints, Points
<1>0. loc[p].cur \in Target
  BY DEF Local
<1>1. ASSUME RejectEvent(p) PROVE Typed'
  <2>1. events' \subseteq EventTypes \X Target
    BY <1>0, <1>1, LogTyped DEF RejectEvent, EventTypes
  <2> QED
    BY <1>1, <2>1, KeepTyped DEF RejectEvent
<1>2. ASSUME RejectGoto(p) PROVE Typed'
  <2>1. loc[p].cur \in Steps
    BY <1>2 DEF RejectGoto, Proceed, Move, Fit
  <2>2. wf.steps[loc[p].cur].onReject \in Target
    BY <2>1, WorkflowFacts DEF StepConfig
  <2>3. row' \in Row
    BY <1>2, StatusTyped DEF RejectGoto, Statuses
  <2> QED
    BY <1>2, <2>2, <2>3, ProceedTyped DEF RejectGoto
<1>3. ASSUME RejectLoad(p) PROVE Typed'
  <2>1. [loc[p] EXCEPT !.snap = row] \in Local
    BY DEF Local
  <2>2. loc[p].cur \in Steps
    BY <1>3 DEF RejectLoad, Move, Fit
  <2>3. Fit("reject_save", [loc[p] EXCEPT !.snap = row])
    BY <2>2 DEF Fit, Local
  <2> QED
    BY <1>3, <2>1, <2>3, MoveTyped DEF RejectLoad
<1>4. ASSUME RejectSave(p) PROVE Typed'
  <2>1. loc[p].cur \in Steps
    BY <1>4 DEF RejectSave, Move, Fit
  <2>2. wf.steps[loc[p].cur].rejectionState \in StateKeys
    BY <2>1, WorkflowFacts DEF StepConfig
  <2>3. row' \in Row
    BY <1>4, <2>2, MovedTyped DEF RejectSave
  <2> QED
    BY <1>4, <2>3, KeepTyped DEF RejectSave
<1>5. ASSUME RejectMovedEvent(p) PROVE Typed'
  <2>1. events' \subseteq EventTypes \X Target
    BY <1>5, LogTyped DEF RejectMovedEvent, EventTypes, Target
  <2> QED
    BY <1>5, <2>1, KeepTyped DEF RejectMovedEvent
<1>6. ASSUME RejectStatus(p) PROVE Typed'
  BY <1>6, EndTyped, StatusTyped DEF RejectStatus, Statuses
<1>7. ASSUME NEW ok \in BOOLEAN, HandleApproval(p, ok) PROVE Typed'
  <2> DEFINE v == [NoLocal EXCEPT !.cur = row.last.step, !.ok = ok, !.snap = row]
  <2>1. row.last.step \in Steps /\ row.last.step \in Target
    BY <1>7, WorkflowFacts DEF HandleApproval, Target
  <2>2. v \in Local /\ v.cur = row.last.step
    BY <2>1, NoLocalTyped DEF Local
  <2>3. Fit("decision_event", v)
    BY <2>1, <2>2 DEF Fit
  <2> QED
    BY <1>7, <2>2, <2>3, AcceptTyped DEF HandleApproval
<1>8. ASSUME DecisionEvent(p) PROVE Typed'
  <2>1. events' \subseteq EventTypes \X Target
    BY <1>0, <1>8, LogTyped DEF DecisionEvent, EventTypes
  <2> QED
    BY <1>8, <2>1, KeepTyped DEF DecisionEvent
<1>9. ASSUME ApproveSave(p) PROVE Typed'
  <2> DEFINE c == loc[p].snap
             e == [c.last EXCEPT !.status = "approved"]
  <2>1. e \in Result
    BY DEF Row, Result
  <2>2. [c EXCEPT !.status = "running"] \in Row /\ c.results \ {c.last} \in SUBSET Result
    BY DEF Row, Statuses
  <2>3. row' \in Row
    BY <1>9, <2>1, <2>2, WithResultTyped DEF ApproveSave
  <2> QED
    BY <1>9, <2>3, KeepTyped DEF ApproveSave
<1>10. ASSUME ApproveEvent(p) PROVE Typed'
  <2>1. loc[p].cur \in Steps
    BY <1>10 DEF ApproveEvent, Proceed, Move, Fit
  <2>2. wf.steps[loc[p].cur].next \in Target
    BY <2>1, WorkflowFacts DEF StepConfig
  <2>3. events' \subseteq EventTypes \X Target
    BY <1>0, <1>10, LogTyped DEF ApproveEvent, EventTypes
  <2> QED
    BY <1>10, <2>2, <2>3, ProceedTyped DEF ApproveEvent
<1> QED
  BY <1>1, <1>2, <1>3, <1>4, <1>5, <1>6, <1>7, <1>8, <1>9, <1>10

LEMMA TransitionTyped ==
  ASSUME Typed, NEW p \in Reqs
  PROVE  /\ \A tr \in wf.transitions : ExecuteTransition(p, tr) => Typed'
         /\ MoveSave(p) => Typed'
         /\ MoveEvent(p) => Typed'
         /\ MoveLoad(p) => Typed'
         /\ Fail(p) => Typed'
<1> USE TypedFacts DEF StepPoints, TaskPoints, Points
<1>1. ASSUME NEW tr \in wf.transitions, ExecuteTransition(p, tr) PROVE Typed'
  <2> DEFINE v == [NoLocal EXCEPT !.to = tr.to, !.acts = tr.tasks, !.snap = row]
  <2>1. tr.to \in StateKeys /\ tr.tasks \in Seq(HumanTypes)
    BY WorkflowFacts DEF Transition
  <2>2. v \in Local
    BY <2>1, NoLocalTyped DEF Local
  <2>3. Fit("move_save", v)
    BY DEF Fit
  <2> QED
    BY <1>1, <2>2, <2>3, AcceptTyped DEF ExecuteTransition
<1>2. ASSUME MoveSave(p) PROVE Typed'
  <2>1. row' \in Row
    BY <1>2, MovedTyped DEF MoveSave, Local
  <2> QED
    BY <1>2, <2>1, KeepTyped DEF MoveSave
<1>3. ASSUME MoveEvent(p) PROVE Typed'
  <2>1. events' \subseteq EventTypes \X Target
    BY <1>3, LogTyped DEF MoveEvent, EventTypes, Target
  <2> QED
    BY <1>3, <2>1, KeepTyped DEF MoveEvent
<1>4. ASSUME MoveLoad(p) PROVE Typed'
  <2>1. [loc[p] EXCEPT !.snap = row] \in Local
    BY DEF Local
  <2>2. loc[p].acts # <<>> => Fit("save_task", [loc[p] EXCEPT !.snap = row])
    BY DEF Fit, Local
  <2>3. Fit("idle", [loc[p] EXCEPT !.snap = row])
    BY DEF Fit
  <2> QED
    BY <1>4, <2>1, <2>2, <2>3, MoveTyped DEF MoveLoad
<1>5. ASSUME Fail(p) PROVE Typed'
  <2>1. fails' \in 0..MaxFails
    BY <1>5, ConstantsAssumption DEF Fail, Typed, TypeOK
  <2>2. TypeOK'
    BY <1>5, <2>1, NoLocalTyped DEF Fail, Typed, TypeOK
  <2>3. LocalsFit'
    BY <1>5 DEF Fail, Typed, TypeOK, LocalsFit, Fit, Steps
  <2> QED
    BY <2>2, <2>3 DEF Typed
<1> QED
  BY <1>1, <1>2, <1>3, <1>4, <1>5

LEMMA SetTaskTyped ==
  ASSUME Typed, NEW t \in DOMAIN tasks, NEW kind,
         NEW st \in {"open", "completed", "cancelled"}, SetTask(t, kind, st)
  PROVE  Typed'
<1>1. tasks' \in Seq(Task) /\ DOMAIN tasks' = DOMAIN tasks
  BY TasksUpdated DEF SetTask
<1>2. calls' \in 0..MaxCalls
  BY ConstantsAssumption DEF SetTask, MayCall, Typed, TypeOK
<1>3. TypeOK'
  BY <1>1, <1>2 DEF SetTask, Typed, TypeOK
<1>4. LocalsFit'
  BY <1>1 DEF SetTask, Typed, LocalsFit, Fit, Steps
<1> QED
  BY <1>3, <1>4 DEF Typed

LEMMA InitTyped == Init => Typed
<1> SUFFICES ASSUME Init PROVE Typed
  OBVIOUS
<1>1. TypeOK
  BY NoLocalTyped, ConstantsAssumption DEF Init, TypeOK, Points
<1>2. LocalsFit
  BY DEF Init, LocalsFit, Fit, StepPoints, TaskPoints
<1> QED
  BY <1>1, <1>2 DEF Typed

LEMMA NextTyped == Typed /\ [Next]_vars => Typed'
<1> SUFFICES ASSUME Typed, [Next]_vars PROVE Typed'
  OBVIOUS
<1>1. CASE UNCHANGED vars
  BY <1>1 DEF vars, Typed, TypeOK, LocalsFit, Fit, Steps
<1>2. ASSUME NEW p \in Reqs, Call(p) PROVE Typed'
  BY <1>2, TriggerTyped, TaskTyped, DecisionTyped, TransitionTyped DEF Call
<1>3. ASSUME NEW p \in Reqs, Statement(p) PROVE Typed'
  BY <1>3, EngineTyped, TaskTyped, DecisionTyped, TransitionTyped DEF Statement
<1>4. ASSUME NEW p \in Reqs, TaskMoveFails(p) \/ Fail(p) PROVE Typed'
  BY <1>4, TaskTyped, TransitionTyped
<1>5. ASSUME NEW t \in DOMAIN tasks, StartTask(t) \/ CancelTask(t) PROVE Typed'
  BY <1>5, SetTaskTyped DEF StartTask, CancelTask
<1> QED
  BY <1>1, <1>2, <1>3, <1>4, <1>5 DEF Next

(* Typing: whatever calls overlap, and wherever requests die, every variable
   keeps its type; in particular every step a handler looks up exists. *)
THEOREM TypeCorrect == Spec => []TypeOK
<1>1. Spec => []Typed
  BY InitTyped, NextTyped, PTL DEF Spec
<1>2. Typed => TypeOK
  BY DEF Typed
<1> QED
  BY <1>1, <1>2, PTL
-----------------------------------------------------------------------------
(* HistoryExplainsState: every copy of the row that may be written has a
   history that explains its state. *)

LEMMA MovedHist ==
  ASSUME NEW r \in Row, NEW c \in Row, NEW s \in StateKeys,
         r.status # "none", HistOK(c)
  PROVE  HistOK(Moved(r, c, s))
<1> DEFINE e == [from |-> c.state, to |-> s]
           h == Append(c.hist, e)
           n == Len(c.hist)
<1>1. c.hist \in Seq(StateMove) /\ e \in StateMove /\ n \in Nat
  BY DEF Row, StateMove
<1>2. h \in Seq(StateMove) /\ Len(h) = n + 1 /\ h[n + 1] = e
      /\ \A i \in 1..n : h[i] = c.hist[i]
  BY <1>1
<1>3. n > 0 /\ c.hist[n].to = c.state
  BY <1>1 DEF HistOK
<1>4. Chained(h)
  <2> SUFFICES ASSUME NEW i \in 1..(Len(h) - 1) PROVE h[i].to = h[i + 1].from
    BY DEF Chained
  <2>1. CASE i = n
    BY <1>2, <1>3, <2>1
  <2>2. CASE i # n
    BY <1>1, <1>2, <2>2 DEF HistOK, Chained
  <2> QED
    BY <2>1, <2>2
<1>5. Moved(r, c, s).hist = h /\ Moved(r, c, s).state = s
      /\ Moved(r, c, s).status = r.status
  BY DEF Moved, Row
<1>6. h # <<>> /\ h[Len(h)].to = s
  BY <1>1, <1>2
<1> QED
  BY <1>4, <1>5, <1>6 DEF HistOK

LEMMA SameHist ==
  ASSUME NEW r, NEW c, HistOK(c), r.hist = c.hist, r.state = c.state, r.status # "none"
  PROVE  HistOK(r)
BY DEF HistOK

(* A request in flight works on an execution that exists. *)
LEMMA RowExists ==
  ASSUME HistInv, NEW p \in Reqs, pc[p] # "idle"
  PROVE  row.status # "none" /\ HistOK(row)
BY DEF HistInv

(* executeStep hands over the row it has read. *)
LEMMA ExecuteMoves ==
  ASSUME Typed, NEW p \in Reqs, ExecuteStep(p)
  PROVE  /\ UNCHANGED row /\ UNCHANGED tasks
         /\ \E m, w : w.snap = row /\ m \notin {"pause", "idle"} /\ Move(p, "load_step", m, w)
<1> DEFINE v == [loc[p] EXCEPT !.snap = row]
<1>1. loc[p] \in Local /\ row \in Row
  BY TypedFacts
<1>2. v.snap = row /\ v \in Local
  BY <1>1 DEF Local
<1>3. \A x : [v EXCEPT !.acts = x].snap = row
  BY <1>2 DEF Local
<1>4. \A x, y : [v EXCEPT !.ok = x, !.dest = y].snap = row
  BY <1>2 DEF Local
<1>5. /\ UNCHANGED row /\ UNCHANGED tasks
      /\ \/ \E x : Move(p, "load_step", "save_task", [v EXCEPT !.acts = x])
         \/ \E x, y : Move(p, "load_step", "automation_event", [v EXCEPT !.ok = x, !.dest = y])
         \/ \E x, y : Move(p, "load_step", "read_results", [v EXCEPT !.ok = x, !.dest = y])
         \/ Move(p, "load_step", "run_next", v)
  BY DEF ExecuteStep
<1> HIDE DEF v
<1>6. CASE \E x : Move(p, "load_step", "save_task", [v EXCEPT !.acts = x])
  BY <1>3, <1>5, <1>6
<1>7. CASE \E x, y : Move(p, "load_step", "automation_event", [v EXCEPT !.ok = x, !.dest = y])
  BY <1>4, <1>5, <1>7
<1>8. CASE \E x, y : Move(p, "load_step", "read_results", [v EXCEPT !.ok = x, !.dest = y])
  BY <1>4, <1>5, <1>8
<1>9. CASE Move(p, "load_step", "run_next", v)
  BY <1>2, <1>5, <1>9
<1> QED
  BY <1>5, <1>6, <1>7, <1>8, <1>9

(* A request that hands over the copy it has, or the row itself. *)
LEMMA HistMove ==
  ASSUME Typed, HistInv,
         NEW p \in Reqs, NEW l, NEW m, NEW v, Move(p, l, m, v),
         HistOK(row'),
         m \in SnapPoints => HistOK(v.snap)
  PROVE  HistInv'
<1>1. row'.status # "none"
  BY DEF HistOK
<1>2. ASSUME NEW q \in Reqs, pc'[q] \in SnapPoints PROVE HistOK(loc'[q].snap)
  <2>1. CASE q = p
    BY <1>2, <2>1 DEF Typed, TypeOK, Move, SnapPoints
  <2>2. CASE q # p
    BY <1>2, <2>2 DEF Typed, TypeOK, Move, HistInv
  <2> QED
    BY <2>1, <2>2
<1> QED
  BY <1>1, <1>2 DEF HistInv

(* The same when the statement hands over no copy and keeps state and history. *)
LEMMA HistKept ==
  ASSUME Typed, HistInv, NEW p \in Reqs, NEW l, NEW m, NEW v, Move(p, l, m, v),
         l # "idle", m \notin SnapPoints,
         row'.hist = row.hist, row'.state = row.state, row'.status # "none"
  PROVE  HistInv'
<1>1. HistOK(row)
  BY RowExists DEF Move
<1>2. HistOK(row')
  BY <1>1, SameHist
<1> QED
  BY <1>2, HistMove

LEMMA HistAccept ==
  ASSUME Typed, HistInv,
         NEW p \in Reqs, NEW kind, NEW m, NEW v, Accept(p, kind, m, v),
         HistOK(row'),
         m \in SnapPoints => HistOK(v.snap)
  PROVE  HistInv'
<1>1. row'.status # "none"
  BY DEF HistOK
<1>2. ASSUME NEW q \in Reqs, pc'[q] \in SnapPoints PROVE HistOK(loc'[q].snap)
  <2>1. CASE q = p
    BY <1>2, <2>1 DEF Typed, TypeOK, Accept
  <2>2. CASE q # p
    BY <1>2, <2>2 DEF Typed, TypeOK, Accept, HistInv
  <2> QED
    BY <2>1, <2>2
<1> QED
  BY <1>1, <1>2 DEF HistInv

LEMMA ProceedHist ==
  ASSUME Typed, HistInv,
         NEW p \in Reqs, NEW l, NEW d, Proceed(p, l, d), HistOK(row')
  PROVE  HistInv'
<1>1. PointFor(d) \notin SnapPoints
  BY DEF PointFor, SnapPoints
<1> QED
  BY <1>1, HistMove DEF Proceed

(* Statements that leave currentState and stateHistory alone. *)
LEMMA StateKeptHist ==
  ASSUME Typed, HistInv, NEW p \in Reqs
  PROVE  /\ TriggerEvent(p) => HistInv'
         /\ RunNextStep(p) => HistInv'
         /\ CompleteExecution(p) => HistInv'
         /\ RunStepAt(p) => HistInv'
         /\ AutomationEvent(p) => HistInv'
         /\ ReadResults(p) => HistInv'
         /\ WriteResults(p) => HistInv'
         /\ SaveTask(p) => HistInv'
         /\ Pause(p) => HistInv'
         /\ ResumeLoad(p) => HistInv'
         /\ CancelExecution(p) => HistInv'
         /\ Resume(p) => HistInv'
<1> USE TypedFacts, RowExists, SameHist, HistMove DEF Row, SnapPoints
<1>1. ASSUME TriggerEvent(p) PROVE HistInv'
  <2>1. PICK l, m, v : Move(p, l, m, v) /\ l # "idle" /\ m \notin SnapPoints
    BY <1>1 DEF TriggerEvent
  <2>2. row \in Row /\ row.status # "none"
    BY <2>1 DEF Move
  <2>3. row'.hist = row.hist /\ row'.state = row.state /\ row'.status # "none"
    BY <1>1, <2>2 DEF TriggerEvent
  <2> QED
    BY <2>1, <2>3, HistKept
<1>2. ASSUME RunNextStep(p) PROVE HistInv'
  <2>1. HistOK(row')
    BY <1>2 DEF RunNextStep, Move
  <2> QED
    BY <1>2, <2>1 DEF RunNextStep
<1>3. ASSUME CompleteExecution(p) PROVE HistInv'
  <2>1. PICK l, m, v : Move(p, l, m, v) /\ l # "idle" /\ m \notin SnapPoints
    BY <1>3 DEF CompleteExecution
  <2>2. row \in Row /\ row.status # "none"
    BY <2>1 DEF Move
  <2>3. row'.hist = row.hist /\ row'.state = row.state /\ row'.status # "none"
    BY <1>3, <2>2 DEF CompleteExecution
  <2> QED
    BY <2>1, <2>3, HistKept
<1>4. ASSUME RunStepAt(p) PROVE HistInv'
  <2>1. HistOK(row')
    BY <1>4 DEF RunStepAt, Move
  <2> QED
    BY <1>4, <2>1 DEF RunStepAt
<1>5. ASSUME AutomationEvent(p) PROVE HistInv'
  <2>1. PICK l, m, v : Move(p, l, m, v) /\ l # "idle" /\ m \notin SnapPoints
    BY <1>5 DEF AutomationEvent
  <2>2. row \in Row /\ row.status # "none"
    BY <2>1 DEF Move
  <2>3. row'.hist = row.hist /\ row'.state = row.state /\ row'.status # "none"
    BY <1>5, <2>2 DEF AutomationEvent
  <2> QED
    BY <2>1, <2>3, HistKept
<1>6. ASSUME ReadResults(p) PROVE HistInv'
  <2>1. HistOK(row') /\ [loc[p] EXCEPT !.snap = row].snap = row
    BY <1>6 DEF ReadResults, Move, Local
  <2> QED
    BY <1>6, <2>1 DEF ReadResults
<1>7. ASSUME WriteResults(p) PROVE HistInv'
  <2>1. HistOK(row')
    BY <1>7 DEF WriteResults, Proceed, Move, WithResult
  <2> QED
    BY <1>7, <2>1, ProceedHist DEF WriteResults
<1>8. ASSUME SaveTask(p) PROVE HistInv'
  <2>1. HistOK(row') /\ HistOK([loc[p] EXCEPT !.task = Len(tasks) + 1].snap)
    BY <1>8 DEF SaveTask, Move, Local, HistInv
  <2> QED
    BY <1>8, <2>1 DEF SaveTask
<1>9. ASSUME Pause(p) PROVE HistInv'
  <2>1. HistOK(row') /\ HistOK([loc[p] EXCEPT !.acts = Tail(loc[p].acts)].snap)
    BY <1>9 DEF Pause, Move, Local, HistInv, WithResult
  <2> QED
    BY <1>9, <2>1 DEF Pause
<1>10. ASSUME ResumeLoad(p) PROVE HistInv'
  <2>1. HistOK(row') /\ [loc[p] EXCEPT !.snap = row].snap = row
    BY <1>10 DEF ResumeLoad, Move, Local
  <2> QED
    BY <1>10, <2>1 DEF ResumeLoad
<1>11. ASSUME CancelExecution(p) PROVE HistInv'
  <2>1. PICK l, m, v : Move(p, l, m, v) /\ l # "idle" /\ m \notin SnapPoints
    BY <1>11 DEF CancelExecution
  <2>2. row \in Row /\ row.status # "none"
    BY <2>1 DEF Move
  <2>3. row'.hist = row.hist /\ row'.state = row.state /\ row'.status # "none"
    BY <1>11, <2>2 DEF CancelExecution
  <2> QED
    BY <2>1, <2>3, HistKept
<1>12. ASSUME Resume(p) PROVE HistInv'
  <2>1. HistOK(row')
    BY <1>12 DEF Resume, Move, WithResult
  <2> QED
    BY <1>12, <2>1 DEF Resume
<1> QED
  BY <1>1, <1>2, <1>3, <1>4, <1>5, <1>6, <1>7, <1>8, <1>9, <1>10, <1>11, <1>12

LEMMA BranchHist ==
  ASSUME Typed, HistInv, NEW p \in Reqs
  PROVE  /\ ExecuteStep(p) => HistInv'
         /\ CloseTask(p) => HistInv'
         /\ TaskMoveFails(p) => HistInv'
         /\ RejectEvent(p) => HistInv'
         /\ RejectGoto(p) => HistInv'
         /\ RejectLoad(p) => HistInv'
         /\ RejectMovedEvent(p) => HistInv'
         /\ RejectStatus(p) => HistInv'
         /\ DecisionEvent(p) => HistInv'
         /\ ApproveEvent(p) => HistInv'
         /\ MoveEvent(p) => HistInv'
         /\ MoveLoad(p) => HistInv'
         /\ Fail(p) => HistInv'
<1> USE TypedFacts, RowExists, SameHist, HistMove DEF Row, SnapPoints
<1>1. ASSUME ExecuteStep(p) PROVE HistInv'
  <2>1. PICK m, w : w.snap = row /\ Move(p, "load_step", m, w)
    BY <1>1, ExecuteMoves
  <2>2. HistOK(row) /\ row' = row
    BY <1>1, <2>1, ExecuteMoves DEF Move
  <2>3. HistOK(row')
    BY <2>2
  <2>4. HistOK(w.snap)
    BY <2>1, <2>2
  <2> QED
    BY <2>1, <2>3, <2>4
<1>2. ASSUME CloseTask(p) PROVE HistInv'
  <2>1. HistOK(row') /\ HistOK(loc[p].snap)
    BY <1>2 DEF CloseTask, HistInv
  <2> QED
    BY <1>2, <2>1 DEF CloseTask
<1>3. TaskMoveFails(p) => HistInv'
  BY DEF TaskMoveFails, HistInv, Typed, TypeOK
<1>4. ASSUME RejectEvent(p) PROVE HistInv'
  <2>1. HistOK(row')
    BY <1>4 DEF RejectEvent, Move
  <2> QED
    BY <1>4, <2>1 DEF RejectEvent
<1>5. ASSUME RejectGoto(p) PROVE HistInv'
  <2>1. HistOK(row')
    BY <1>5 DEF RejectGoto, Proceed, Move
  <2> QED
    BY <1>5, <2>1, ProceedHist DEF RejectGoto
<1>6. ASSUME RejectLoad(p) PROVE HistInv'
  <2>1. HistOK(row') /\ [loc[p] EXCEPT !.snap = row].snap = row
    BY <1>6 DEF RejectLoad, Move, Local
  <2> QED
    BY <1>6, <2>1 DEF RejectLoad
<1>7. ASSUME RejectMovedEvent(p) PROVE HistInv'
  <2>1. PICK l, m, v : Move(p, l, m, v) /\ l # "idle" /\ m \notin SnapPoints
    BY <1>7 DEF RejectMovedEvent
  <2>2. row \in Row /\ row.status # "none"
    BY <2>1 DEF Move
  <2>3. row'.hist = row.hist /\ row'.state = row.state /\ row'.status # "none"
    BY <1>7, <2>2 DEF RejectMovedEvent
  <2> QED
    BY <2>1, <2>3, HistKept
<1>8. ASSUME RejectStatus(p) PROVE HistInv'
  <2>1. HistOK(row')
    BY <1>8 DEF RejectStatus, Move
  <2> QED
    BY <1>8, <2>1 DEF RejectStatus
<1>9. ASSUME DecisionEvent(p) PROVE HistInv'
  <2>1. HistOK(row') /\ HistOK(loc[p].snap)
    BY <1>9 DEF DecisionEvent, Move, HistInv
  <2> QED
    BY <1>9, <2>1 DEF DecisionEvent
<1>10. ASSUME ApproveEvent(p) PROVE HistInv'
  <2>1. HistOK(row')
    BY <1>10 DEF ApproveEvent, Proceed, Move
  <2> QED
    BY <1>10, <2>1, ProceedHist DEF ApproveEvent
<1>11. ASSUME MoveEvent(p) PROVE HistInv'
  <2>1. PICK l, m, v : Move(p, l, m, v) /\ l # "idle" /\ m \notin SnapPoints
    BY <1>11 DEF MoveEvent
  <2>2. row \in Row /\ row.status # "none"
    BY <2>1 DEF Move
  <2>3. row'.hist = row.hist /\ row'.state = row.state /\ row'.status # "none"
    BY <1>11, <2>2 DEF MoveEvent
  <2> QED
    BY <2>1, <2>3, HistKept
<1>12. ASSUME MoveLoad(p) PROVE HistInv'
  <2>1. HistOK(row') /\ [loc[p] EXCEPT !.snap = row].snap = row
    BY <1>12 DEF MoveLoad, Move, Local
  <2> QED
    BY <1>12, <2>1 DEF MoveLoad
<1>13. Fail(p) => HistInv'
  BY DEF Fail, HistInv, Typed, TypeOK
<1> QED
  BY <1>1, <1>2, <1>3, <1>4, <1>5, <1>6, <1>7, <1>8, <1>9, <1>10, <1>11, <1>12, <1>13

(* Statements that write a copy of the row, or a move computed from one. *)
LEMMA StateMovedHist ==
  ASSUME Typed, HistInv, NEW p \in Reqs
  PROVE  /\ TaskMove(p) => HistInv'
         /\ RejectSave(p) => HistInv'
         /\ ApproveSave(p) => HistInv'
         /\ MoveSave(p) => HistInv'
<1> USE TypedFacts, RowExists, HistMove DEF SnapPoints
<1>1. ASSUME TaskMove(p) PROVE HistInv'
  <2>1. HistOK(loc[p].snap) /\ HistOK(row) /\ row.status # "none"
    BY <1>1 DEF TaskMove, Move, HistInv
  <2>2. ASSUME NEW s \in StepsOfTask(loc[p].task), NEW tr \in MovesAfter(s),
               row' = Moved(row, loc[p].snap, tr.to)
        PROVE  HistOK(row')
    BY <2>1, <2>2, WorkflowFacts, MovedHist DEF MovesAfter, Transition
  <2> QED
    BY <1>1, <2>1, <2>2 DEF TaskMove
<1>2. ASSUME RejectSave(p) PROVE HistInv'
  <2>1. HistOK(loc[p].snap) /\ loc[p].snap.status # "none"
    BY <1>2 DEF RejectSave, Move, HistInv, HistOK
  <2>2. loc[p].cur \in Steps
    BY <1>2 DEF RejectSave, Move, Fit, StepPoints
  <2>3. wf.steps[loc[p].cur].rejectionState \in StateKeys
    BY <2>2, WorkflowFacts DEF StepConfig
  <2>4. HistOK(row')
    BY <1>2, <2>1, <2>3, MovedHist DEF RejectSave
  <2> QED
    BY <1>2, <2>4 DEF RejectSave
<1>3. ASSUME ApproveSave(p) PROVE HistInv'
  <2>1. HistOK(loc[p].snap)
    BY <1>3 DEF ApproveSave, Move, HistInv
  <2>2. HistOK(row')
    BY <1>3, <2>1, SameHist DEF ApproveSave, WithResult, Row
  <2> QED
    BY <1>3, <2>2 DEF ApproveSave
<1>4. ASSUME MoveSave(p) PROVE HistInv'
  <2>1. HistOK(loc[p].snap) /\ loc[p].snap.status # "none" /\ loc[p].to \in StateKeys
    BY <1>4 DEF MoveSave, Move, HistInv, HistOK, Local
  <2>2. HistOK(row')
    BY <1>4, <2>1, MovedHist DEF MoveSave
  <2> QED
    BY <1>4, <2>2 DEF MoveSave
<1> QED
  BY <1>1, <1>2, <1>3, <1>4

LEMMA CallHist ==
  ASSUME Typed, HistInv, NEW p \in Reqs, Call(p)
  PROVE  HistInv'
<1> USE TypedFacts, HistAccept DEF SnapPoints
<1>1. ASSUME NEW type, TriggerWorkflow(p, type) PROVE HistInv'
  <2>1. PICK s \in InitialStates :
          row' = [NoRow EXCEPT !.status = "running", !.state = s,
                               !.hist = <<[from |-> "none", to |-> s]>>]
    BY <1>1 DEF TriggerWorkflow
  <2>2. row'.status = "running" /\ row'.state = s
        /\ row'.hist = <<[from |-> "none", to |-> s]>>
    BY <2>1 DEF NoRow
  <2>3. HistOK(row')
    BY <2>2 DEF HistOK, Chained
  <2> QED
    BY <1>1, <2>3 DEF TriggerWorkflow
<1>2. ASSUME NEW t \in DOMAIN tasks, NEW ok, CompleteTask(p, t, ok) PROVE HistInv'
  <2>1. HistOK(row)
    BY DEF HistInv
  <2> QED
    BY <1>2, <2>1 DEF CompleteTask
<1>3. ASSUME NEW ok, HandleApproval(p, ok) PROVE HistInv'
  <2>1. HistOK(row)
    BY <1>3 DEF HandleApproval, HistInv
  <2>2. [NoLocal EXCEPT !.cur = row.last.step, !.ok = ok, !.snap = row].snap = row
    BY DEF NoLocal
  <2> QED
    BY <1>3, <2>1, <2>2 DEF HandleApproval
<1>4. ASSUME NEW tr \in wf.transitions, ExecuteTransition(p, tr) PROVE HistInv'
  <2>1. HistOK(row)
    BY <1>4 DEF ExecuteTransition, HistInv
  <2>2. [NoLocal EXCEPT !.to = tr.to, !.acts = tr.tasks, !.snap = row].snap = row
    BY DEF NoLocal
  <2> QED
    BY <1>4, <2>1, <2>2 DEF ExecuteTransition
<1> QED
  BY <1>1, <1>2, <1>3, <1>4 DEF Call

LEMMA NextHist == Typed /\ HistInv /\ [Next]_vars => HistInv'
<1> SUFFICES ASSUME Typed, HistInv, [Next]_vars PROVE HistInv'
  OBVIOUS
<1>1. CASE UNCHANGED vars
  BY <1>1 DEF vars, HistInv
<1>2. ASSUME NEW p \in Reqs, Statement(p) PROVE HistInv'
  BY <1>2, StateKeptHist, BranchHist, StateMovedHist DEF Statement
<1>3. ASSUME NEW t \in DOMAIN tasks, StartTask(t) \/ CancelTask(t) PROVE HistInv'
  BY <1>3 DEF StartTask, CancelTask, SetTask, HistInv
<1> QED
  BY <1>1, <1>2, <1>3, CallHist, BranchHist DEF Next

(* The state of an execution is always explained by its history: overlapping
   handlers lose each other's moves, but never break the chain. *)
THEOREM HistoryCorrect == Spec => []HistoryExplainsState
<1>1. Init => HistInv
  BY DEF Init, HistInv, NoRow, SnapPoints
<1>2. HistInv => HistoryExplainsState
  BY DEF HistInv, HistOK, Chained, HistoryExplainsState
<1>3. Spec => []HistInv
  BY <1>1, InitTyped, NextTyped, NextHist, PTL DEF Spec
<1> QED
  BY <1>2, <1>3, PTL
-----------------------------------------------------------------------------
(* WaitingHasTask: every copy of the row names only tasks that were saved. *)

(* Tasks are only added, and keep their step and type. *)
TasksKept ==
  \A t \in DOMAIN tasks : /\ t \in DOMAIN tasks'
                          /\ tasks'[t].step = tasks[t].step
                          /\ tasks'[t].type = tasks[t].type

LEMMA WaitKept ==
  ASSUME TasksKept, NEW r, WaitOK(r)
  PROVE  \A e \in r.results : e.status \in Waiting =>
           /\ e.task \in DOMAIN tasks'
           /\ tasks'[e.task].step = e.step
           /\ tasks'[e.task].type = "approval" <=> e.status = "waiting_for_approval"
BY DEF TasksKept, WaitOK

LEMMA WaitMove ==
  ASSUME Typed, WaitInv, TasksKept,
         NEW p \in Reqs, NEW l, NEW m, NEW v, Move(p, l, m, v),
         WaitOK(row)', m # "idle" => WaitOK(v.snap), m # "pause"
  PROVE  WaitInv'
<1>1. ASSUME NEW q \in Reqs
      PROVE  /\ WaitOK(loc[q].snap)'
             /\ pc'[q] = "pause" =>
                  /\ loc'[q].task \in DOMAIN tasks'
                  /\ tasks'[loc'[q].task].step = loc'[q].cur
                  /\ tasks'[loc'[q].task].type = Head(loc'[q].acts)
  <2>1. CASE q = p
    <3>1. loc'[q].snap = NoRow \/ (m # "idle" /\ loc'[q].snap = v.snap)
      BY <2>1 DEF Typed, TypeOK, Move, NoLocal
    <3>2. WaitOK(NoRow)
      BY DEF WaitOK, NoRow
    <3>3. WaitOK(loc[q].snap)'
      BY <3>1, <3>2, WaitKept DEF WaitOK
    <3> QED
      BY <2>1, <3>3 DEF Typed, TypeOK, Move
  <2>2. CASE q # p
    <3>1. loc'[q] = loc[q] /\ pc'[q] = pc[q]
      BY <2>2 DEF Typed, TypeOK, Move
    <3>2. WaitOK(loc[q].snap)'
      BY <3>1, WaitKept DEF WaitInv, WaitOK
    <3> QED
      BY <3>1, <3>2 DEF WaitInv, TasksKept
  <2> QED
    BY <2>1, <2>2
<1> QED
  BY <1>1 DEF WaitInv

LEMMA WaitAccept ==
  ASSUME Typed, WaitInv,
         NEW p \in Reqs, NEW kind, NEW m, NEW v, Accept(p, kind, m, v),
         WaitOK(row'), WaitOK(v.snap), m # "pause", UNCHANGED tasks
  PROVE  WaitInv'
<1>1. ASSUME NEW q \in Reqs
      PROVE  /\ WaitOK(loc[q].snap)'
             /\ pc'[q] = "pause" =>
                  /\ loc'[q].task \in DOMAIN tasks'
                  /\ tasks'[loc'[q].task].step = loc'[q].cur
                  /\ tasks'[loc'[q].task].type = Head(loc'[q].acts)
  <2>1. CASE q = p
    BY <2>1 DEF Typed, TypeOK, Accept, WaitOK
  <2>2. CASE q # p
    BY <2>2 DEF Typed, TypeOK, Accept, WaitOK, WaitInv
  <2> QED
    BY <2>1, <2>2
<1> QED
  BY <1>1 DEF WaitInv, WaitOK

(* No waiting entries but those of r. *)
LEMMA FewerWaits ==
  ASSUME NEW r, NEW c, WaitOK(c),
         \A e \in r.results : e \in c.results \/ e.status \notin Waiting
  PROVE  WaitOK(r)
BY DEF WaitOK

(* A statement that leaves the tasks, and the results in the row, alone. *)
LEMMA ResultsKept ==
  ASSUME Typed, WaitInv,
         NEW p \in Reqs, NEW l, NEW m, NEW v, Move(p, l, m, v),
         row'.results = row.results, UNCHANGED tasks,
         v.snap = loc[p].snap \/ v.snap = row \/ m = "idle", m # "pause"
  PROVE  WaitInv'
<1>1. TasksKept
  BY DEF TasksKept
<1>2. WaitOK(row)'
  BY DEF WaitInv, WaitOK
<1>3. m # "idle" => WaitOK(v.snap)
  BY DEF WaitInv
<1> QED
  BY <1>1, <1>2, <1>3, WaitMove

(* The same for a statement that replaces results by an entry that waits for
   nothing and entries of a copy. *)
LEMMA ResultAdded ==
  ASSUME Typed, WaitInv,
         NEW p \in Reqs, NEW l, NEW m, NEW v, Move(p, l, m, v),
         NEW e, e.status \notin Waiting,
         \A x \in row'.results : x \in loc[p].snap.results \/ x = e,
         UNCHANGED tasks, v.snap = loc[p].snap, m # "pause"
  PROVE  WaitInv'
<1>1. TasksKept
  BY DEF TasksKept
<1>2. WaitOK(loc[p].snap)
  BY DEF WaitInv
<1>3. WaitOK(row')
  BY <1>2, FewerWaits
<1>4. WaitOK(row)'
  BY <1>3 DEF WaitOK
<1> QED
  BY <1>1, <1>2, <1>4, WaitMove

LEMMA QuietWait ==
  ASSUME Typed, WaitInv, NEW p \in Reqs
  PROVE  /\ TriggerEvent(p) => WaitInv'
         /\ RunNextStep(p) => WaitInv'
         /\ CompleteExecution(p) => WaitInv'
         /\ RunStepAt(p) => WaitInv'
         /\ AutomationEvent(p) => WaitInv'
         /\ ReadResults(p) => WaitInv'
         /\ ResumeLoad(p) => WaitInv'
         /\ CancelExecution(p) => WaitInv'
         /\ TaskMove(p) => WaitInv'
         /\ RejectEvent(p) => WaitInv'
         /\ RejectGoto(p) => WaitInv'
         /\ RejectLoad(p) => WaitInv'
         /\ RejectMovedEvent(p) => WaitInv'
         /\ RejectStatus(p) => WaitInv'
         /\ DecisionEvent(p) => WaitInv'
         /\ ApproveEvent(p) => WaitInv'
         /\ MoveEvent(p) => WaitInv'
         /\ MoveLoad(p) => WaitInv'
<1> USE TypedFacts, ResultsKept
<1>0. row \in [status: Statuses, order: Nat, state: StateKeys, hist: Seq(StateMove),
                results: SUBSET Result, last: Result]
  BY DEF Row
<1>a. [loc[p] EXCEPT !.snap = row].snap = row
  BY DEF Local
<1>b. \A s : [loc[p] EXCEPT !.cur = s].snap = loc[p].snap
  BY DEF Local
<1>1. TriggerEvent(p) => WaitInv'
  BY DEF TriggerEvent
<1>2. RunNextStep(p) => WaitInv'
  BY <1>b DEF RunNextStep
<1>3. CompleteExecution(p) => WaitInv'
  BY <1>0 DEF CompleteExecution
<1>4. RunStepAt(p) => WaitInv'
  BY <1>0 DEF RunStepAt
<1>5. AutomationEvent(p) => WaitInv'
  BY DEF AutomationEvent
<1>6. ReadResults(p) => WaitInv'
  BY <1>a DEF ReadResults
<1>7. ResumeLoad(p) => WaitInv'
  BY <1>a DEF ResumeLoad
<1>8. CancelExecution(p) => WaitInv'
  BY <1>0 DEF CancelExecution
<1>9. TaskMove(p) => WaitInv'
  BY <1>0 DEF TaskMove, Moved
<1>10. RejectEvent(p) => WaitInv'
  BY DEF RejectEvent
<1>11. RejectGoto(p) => WaitInv'
  BY <1>0, <1>b DEF RejectGoto, Proceed, PointFor
<1>12. RejectLoad(p) => WaitInv'
  BY <1>a DEF RejectLoad
<1>13. RejectMovedEvent(p) => WaitInv'
  BY DEF RejectMovedEvent
<1>14. RejectStatus(p) => WaitInv'
  BY <1>0 DEF RejectStatus
<1>15. DecisionEvent(p) => WaitInv'
  BY DEF DecisionEvent
<1>16. ApproveEvent(p) => WaitInv'
  BY <1>b DEF ApproveEvent, Proceed, PointFor
<1>17. MoveEvent(p) => WaitInv'
  BY DEF MoveEvent
<1>18. MoveLoad(p) => WaitInv'
  BY <1>a DEF MoveLoad
<1> QED
  BY <1>1, <1>2, <1>3, <1>4, <1>5, <1>6, <1>7, <1>8, <1>9, <1>10, <1>11, <1>12,
     <1>13, <1>14, <1>15, <1>16, <1>17, <1>18

(* Statements that write results. *)
LEMMA ResultsWait ==
  ASSUME Typed, WaitInv, NEW p \in Reqs
  PROVE  /\ WriteResults(p) => WaitInv'
         /\ Resume(p) => WaitInv'
         /\ RejectSave(p) => WaitInv'
         /\ ApproveSave(p) => WaitInv'
         /\ MoveSave(p) => WaitInv'
         /\ Pause(p) => WaitInv'
<1> USE TypedFacts DEF Waiting
<1>0. row \in [status: Statuses, order: Nat, state: StateKeys, hist: Seq(StateMove),
                results: SUBSET Result, last: Result]
  BY DEF Row
<1>a. loc[p].snap \in [status: Statuses, order: Nat, state: StateKeys,
                       hist: Seq(StateMove), results: SUBSET Result, last: Result]
  BY DEF Row
<1>b. NoResult.status = "none"
  BY DEF NoResult
<1>1. ASSUME WriteResults(p) PROVE WaitInv'
  <2> DEFINE e == [step |-> loc[p].cur, task |-> 0,
                   status |-> IF loc[p].ok THEN "completed" ELSE "failed"]
             v == [loc[p] EXCEPT !.cur = StepFor(loc[p].dest, @)]
  <2>1. \A x \in row'.results : x \in loc[p].snap.results \/ x = e
    BY <1>0, <1>1 DEF WriteResults, WithResult, Without
  <2>2. v.snap = loc[p].snap /\ PointFor(loc[p].dest) # "pause"
    BY DEF Local, PointFor
  <2>3. Move(p, "write_results", PointFor(loc[p].dest), v) /\ UNCHANGED tasks
    BY <1>1 DEF WriteResults, Proceed
  <2>4. e.status \notin Waiting
    OBVIOUS
  <2> HIDE DEF e, v
  <2> QED
    BY <2>1, <2>2, <2>3, <2>4, ResultAdded
<1>2. ASSUME Resume(p) PROVE WaitInv'
  <2> DEFINE e == [step |-> tasks[loc[p].task].step, task |-> 0, status |-> "completed"]
  <2>1. \A x \in row'.results : x \in loc[p].snap.results \/ x = e
    BY <1>0, <1>2 DEF Resume, WithResult, Without
  <2>2. Move(p, "resume", "run_next", loc[p]) /\ UNCHANGED tasks
    BY <1>2 DEF Resume
  <2>3. e.status \notin Waiting
    OBVIOUS
  <2> HIDE DEF e
  <2> QED
    BY <2>1, <2>2, <2>3, ResultAdded
<1>3. ASSUME RejectSave(p) PROVE WaitInv'
  <2>1. row'.results = loc[p].snap.results
    BY <1>a, <1>3 DEF RejectSave, Moved
  <2> QED
    BY <1>b, <1>3, <2>1, ResultAdded DEF RejectSave
<1>4. ASSUME ApproveSave(p) PROVE WaitInv'
  <2> DEFINE e == [loc[p].snap.last EXCEPT !.status = "approved"]
  <2>1. \A x \in row'.results : x \in loc[p].snap.results \/ x = e
    BY <1>a, <1>4 DEF ApproveSave, WithResult
  <2>2. e.status \notin Waiting
    BY <1>a DEF Result
  <2>3. Move(p, "approve_save", "approve_event", loc[p]) /\ UNCHANGED tasks
    BY <1>4 DEF ApproveSave
  <2> HIDE DEF e
  <2> QED
    BY <2>1, <2>2, <2>3, ResultAdded
<1>5. ASSUME MoveSave(p) PROVE WaitInv'
  <2>1. row'.results = loc[p].snap.results
    BY <1>a, <1>5 DEF MoveSave, Moved
  <2> QED
    BY <1>b, <1>5, <2>1, ResultAdded DEF MoveSave
<1>6. ASSUME Pause(p) PROVE WaitInv'
  <2> DEFINE e == [step |-> loc[p].cur, task |-> loc[p].task,
                   status |-> IF Head(loc[p].acts) = "approval"
                              THEN "waiting_for_approval" ELSE "waiting_for_task"]
             m == IF Tail(loc[p].acts) = <<>> THEN "idle" ELSE "save_task"
             v == [loc[p] EXCEPT !.acts = Tail(loc[p].acts)]
  <2>1. \A x \in row'.results : x \in loc[p].snap.results \/ x = e
    BY <1>0, <1>6 DEF Pause, WithResult
  <2>2. /\ e.task \in DOMAIN tasks
        /\ tasks[e.task].step = e.step
        /\ tasks[e.task].type = "approval" <=> e.status = "waiting_for_approval"
    BY <1>6 DEF Pause, Move, WaitInv
  <2>3. WaitOK(loc[p].snap)
    BY DEF WaitInv
  <2>4. WaitOK(row')
    BY <2>1, <2>2, <2>3 DEF WaitOK
  <2>5. WaitOK(row)' /\ TasksKept
    BY <1>6, <2>4 DEF WaitOK, TasksKept, Pause
  <2>6. v.snap = loc[p].snap
    BY DEF Local
  <2>7. Move(p, "pause", m, v) /\ m # "pause"
    BY <1>6 DEF Pause
  <2> QED
    BY <2>3, <2>5, <2>6, <2>7, WaitMove
<1> QED
  BY <1>1, <1>2, <1>3, <1>4, <1>5, <1>6

LEMMA TasksWait ==
  ASSUME Typed, WaitInv, NEW p \in Reqs
  PROVE  /\ ExecuteStep(p) => WaitInv'
         /\ SaveTask(p) => WaitInv'
         /\ CloseTask(p) => WaitInv'
         /\ TaskMoveFails(p) => WaitInv'
         /\ Fail(p) => WaitInv'
<1> USE TypedFacts
<1>1. ASSUME ExecuteStep(p) PROVE WaitInv'
  <2>1. PICK m, w : w.snap = row /\ m # "pause" /\ Move(p, "load_step", m, w)
    BY <1>1, ExecuteMoves
  <2>2. row'.results = row.results /\ UNCHANGED tasks
    BY <1>1, ExecuteMoves
  <2> QED
    BY <2>1, <2>2, ResultsKept
<1>2. ASSUME SaveTask(p) PROVE WaitInv'
  <2> DEFINE n == Len(tasks) + 1
             v == [loc[p] EXCEPT !.task = n]
             t == [step |-> loc[p].cur, type |-> Head(loc[p].acts), status |-> "open"]
  <2>1. tasks' = Append(tasks, t) /\ row' = row /\ Move(p, "save_task", "pause", v)
    BY <1>2 DEF SaveTask
  <2>2. n \in DOMAIN tasks' /\ tasks'[n] = t /\ n \in Nat
    BY <2>1
  <2>3. TasksKept
    BY <2>1 DEF TasksKept
  <2>4. v.task = n /\ v.snap = loc[p].snap /\ v.cur = loc[p].cur /\ v.acts = loc[p].acts
    BY DEF Local
  <2>5. WaitOK(row)'
    BY <2>1, <2>3, WaitKept DEF WaitInv, WaitOK
  <2>6. ASSUME NEW q \in Reqs
        PROVE  /\ WaitOK(loc[q].snap)'
               /\ pc'[q] = "pause" =>
                    /\ loc'[q].task \in DOMAIN tasks'
                    /\ tasks'[loc'[q].task].step = loc'[q].cur
                    /\ tasks'[loc'[q].task].type = Head(loc'[q].acts)
    <3>1. loc'[q].snap = loc[q].snap
      BY <2>1, <2>4 DEF Typed, TypeOK, Move
    <3>2. WaitOK(loc[q].snap)'
      BY <2>3, <3>1, WaitKept DEF WaitInv, WaitOK
    <3>3. CASE q = p
      BY <2>1, <2>2, <2>4, <3>2, <3>3 DEF Typed, TypeOK, Move
    <3>4. CASE q # p
      BY <2>1, <2>3, <3>2, <3>4 DEF Typed, TypeOK, Move, WaitInv, TasksKept
    <3> QED
      BY <3>3, <3>4
  <2> QED
    BY <2>5, <2>6 DEF WaitInv
<1>3. ASSUME CloseTask(p) PROVE WaitInv'
  <2>1. loc[p].task \in DOMAIN tasks
    BY <1>3 DEF CloseTask, Fit, TaskPoints
  <2>2. TasksKept
    BY <1>3, <2>1, TasksUpdated DEF CloseTask, TasksKept
  <2>3. WaitOK(row)'
    BY <1>3, <2>2, WaitKept DEF CloseTask, WaitInv, WaitOK
  <2>4. WaitOK(loc[p].snap) /\ \A s : [loc[p] EXCEPT !.cur = s].snap = loc[p].snap
    BY DEF WaitInv, Local
  <2> QED
    BY <1>3, <2>2, <2>3, <2>4, WaitMove DEF CloseTask
<1>4. TaskMoveFails(p) => WaitInv'
  BY DEF TaskMoveFails, WaitInv, WaitOK, Typed, TypeOK
<1>5. ASSUME Fail(p) PROVE WaitInv'
  <2>1. WaitOK(NoLocal.snap)
    BY DEF WaitOK, NoLocal, NoRow
  <2> QED
    BY <1>5, <2>1 DEF Fail, WaitInv, WaitOK, Typed, TypeOK
<1> QED
  BY <1>1, <1>2, <1>3, <1>4, <1>5

LEMMA CallWait ==
  ASSUME Typed, WaitInv, NEW p \in Reqs, Call(p)
  PROVE  WaitInv'
<1>0. WaitOK(row) /\ WaitOK(NoRow) /\ NoLocal.snap = NoRow
  BY DEF WaitInv, WaitOK, NoLocal, NoRow
<1>1. ASSUME NEW type, TriggerWorkflow(p, type) PROVE WaitInv'
  <2>1. row'.results = {}
    BY <1>1 DEF TriggerWorkflow, NoRow
  <2>2. WaitOK(row')
    BY <2>1 DEF WaitOK
  <2> QED
    BY <1>0, <1>1, <2>2, WaitAccept DEF TriggerWorkflow
<1>2. ASSUME NEW t \in DOMAIN tasks, NEW ok, CompleteTask(p, t, ok) PROVE WaitInv'
  <2>1. [NoLocal EXCEPT !.task = t, !.ok = ok].snap = NoRow
    BY DEF NoLocal
  <2> QED
    BY <1>0, <1>2, <2>1, WaitAccept DEF CompleteTask
<1>3. ASSUME NEW ok, HandleApproval(p, ok) PROVE WaitInv'
  <2>1. [NoLocal EXCEPT !.cur = row.last.step, !.ok = ok, !.snap = row].snap = row
    BY DEF NoLocal
  <2> QED
    BY <1>0, <1>3, <2>1, WaitAccept DEF HandleApproval
<1>4. ASSUME NEW tr, ExecuteTransition(p, tr) PROVE WaitInv'
  <2>1. [NoLocal EXCEPT !.to = tr.to, !.acts = tr.tasks, !.snap = row].snap = row
    BY DEF NoLocal
  <2> QED
    BY <1>0, <1>4, <2>1, WaitAccept DEF ExecuteTransition
<1> QED
  BY <1>1, <1>2, <1>3, <1>4 DEF Call

LEMMA NextWait == Typed /\ WaitInv /\ [Next]_vars => WaitInv'
<1> SUFFICES ASSUME Typed, WaitInv, [Next]_vars PROVE WaitInv'
  OBVIOUS
<1>1. CASE UNCHANGED vars
  BY <1>1 DEF vars, WaitInv, WaitOK
<1>2. ASSUME NEW p \in Reqs, Statement(p) PROVE WaitInv'
  BY <1>2, QuietWait, ResultsWait, TasksWait DEF Statement
<1>3. ASSUME NEW t \in DOMAIN tasks, StartTask(t) \/ CancelTask(t) PROVE WaitInv'
  <2>1. TasksKept
    BY <1>3, TasksUpdated DEF StartTask, CancelTask, SetTask, TasksKept
  <2>2. UNCHANGED <<row, pc, loc>>
    BY <1>3 DEF StartTask, CancelTask, SetTask
  <2>3. WaitOK(row)' /\ \A p \in Reqs : WaitOK(loc[p].snap)'
    BY <2>1, <2>2, WaitKept DEF WaitInv, WaitOK
  <2> QED
    BY <2>1, <2>2, <2>3 DEF WaitInv, TasksKept
<1> QED
  BY <1>1, <1>2, <1>3, CallWait, TasksWait DEF Next

(* An execution never waits for a task that does not exist, however handlers
   with stale copies of stepResults overwrite each other. *)
THEOREM WaitCorrect == Spec => []WaitingHasTask
<1>1. Init => WaitInv
  BY DEF Init, WaitInv, WaitOK, NoRow, NoLocal
<1>2. WaitInv => WaitingHasTask
  BY DEF WaitInv, WaitOK, WaitingHasTask
<1>3. Spec => []WaitInv
  BY <1>1, InitTyped, NextTyped, NextWait, PTL DEF Spec
<1> QED
  BY <1>2, <1>3, PTL
-----------------------------------------------------------------------------
(* DecisionsAudited: the event of a decision is logged before the decision is
   written, and every copy of the row carries logged decisions only. *)

LEMMA AuditKept ==
  ASSUME wf' = wf, events \subseteq events', NEW r, AuditOK(r)
  PROVE  /\ r.status = "rejected" => RejectionLogged'
         /\ \A e \in r.results : e.status = "approved" => <<"approved", e.step>> \in events'
BY DEF AuditOK, RejectionLogged, Steps

(* What AuditInv asks of request q. *)
AuditedRequest(q) ==
  /\ AuditOK(loc[q].snap)
  /\ pc[q] \in RejectedPoints => RejectionLogged
  /\ pc[q] \in {"decision_event", "approve_save"} => loc[q].snap.last.step = loc[q].cur
  /\ pc[q] = "approve_save" => <<"approved", loc[q].cur>> \in events

LEMMA AuditOthers ==
  ASSUME AuditInv, wf' = wf, events \subseteq events',
         NEW q \in Reqs, pc'[q] = pc[q], loc'[q] = loc[q]
  PROVE  AuditedRequest(q)'
<1>1. AuditOK(loc[q].snap)'
  BY AuditKept DEF AuditInv, AuditOK
<1>2. RejectionLogged => RejectionLogged'
  BY DEF RejectionLogged, Steps
<1> QED
  BY <1>1, <1>2 DEF AuditInv, AuditedRequest

LEMMA AuditMove ==
  ASSUME Typed, AuditInv, events \subseteq events',
         NEW p \in Reqs, NEW l, NEW m, NEW v, Move(p, l, m, v),
         AuditOK(row'), m # "idle" => AuditOK(v.snap),
         m \in RejectedPoints => RejectionLogged',
         m \in {"decision_event", "approve_save"} => v.snap.last.step = v.cur,
         m = "approve_save" => <<"approved", v.cur>> \in events'
  PROVE  AuditInv'
<1>1. wf' = wf
  BY DEF Move
<1>2. AuditOK(row)'
  BY <1>1, AuditKept DEF AuditOK
<1>3. ASSUME NEW q \in Reqs PROVE AuditedRequest(q)'
  <2>1. CASE q = p /\ m = "idle"
    <3>1. pc'[q] = "idle" /\ loc'[q].snap = NoRow
      BY <2>1 DEF Typed, TypeOK, Move, NoLocal
    <3> QED
      BY <3>1 DEF AuditedRequest, AuditOK, NoRow, RejectedPoints
  <2>2. CASE q = p /\ m # "idle"
    <3>1. pc'[q] = m /\ loc'[q] = v
      BY <2>2 DEF Typed, TypeOK, Move
    <3>2. AuditOK(loc[q].snap)'
      BY <1>1, <2>2, <3>1, AuditKept DEF AuditOK
    <3> QED
      BY <3>1, <3>2 DEF AuditedRequest
  <2>3. CASE q # p
    BY <1>1, <2>3, AuditOthers DEF Typed, TypeOK, Move
  <2> QED
    BY <2>1, <2>2, <2>3
<1> QED
  BY <1>2, <1>3 DEF AuditInv, AuditedRequest

LEMMA AuditAccept ==
  ASSUME Typed, AuditInv, UNCHANGED events,
         NEW p \in Reqs, NEW kind, NEW m, NEW v, Accept(p, kind, m, v),
         AuditOK(row'), AuditOK(v.snap), m \notin RejectedPoints \cup {"approve_save"},
         m = "decision_event" => v.snap.last.step = v.cur
  PROVE  AuditInv'
<1>1. wf' = wf
  BY DEF Accept
<1>2. AuditOK(row)'
  BY <1>1, AuditKept DEF AuditOK
<1>3. ASSUME NEW q \in Reqs PROVE AuditedRequest(q)'
  <2>1. CASE q = p
    <3>1. pc'[q] = m /\ loc'[q] = v
      BY <2>1 DEF Typed, TypeOK, Accept
    <3>2. AuditOK(loc[q].snap)'
      BY <1>1, <3>1, AuditKept DEF AuditOK
    <3> QED
      BY <3>1, <3>2 DEF AuditedRequest
  <2>2. CASE q # p
    BY <1>1, <2>2, AuditOthers DEF Typed, TypeOK, Accept
  <2> QED
    BY <2>1, <2>2
<1> QED
  BY <1>2, <1>3 DEF AuditInv, AuditedRequest

(* A row whose decisions come from the row, from p's copy, or are logged. *)
LEMMA AuditedWrite ==
  ASSUME AuditInv, NEW p \in Reqs, NEW r,
         r.status = "rejected" => RejectionLogged,
         \A x \in r.results : \/ x \in row.results \/ x \in loc[p].snap.results
                              \/ x.status = "approved" => <<"approved", x.step>> \in events
  PROVE  AuditOK(r)
BY DEF AuditInv, AuditOK

(* A statement that does not come to a point AuditInv speaks of. *)
LEMMA AuditPlain ==
  ASSUME Typed, AuditInv, events \subseteq events',
         NEW p \in Reqs, NEW l, NEW m, NEW v, Move(p, l, m, v),
         AuditOK(row'), m = "idle" \/ v.snap = loc[p].snap \/ v.snap = row,
         m \notin RejectedPoints \cup {"decision_event", "approve_save"}
  PROVE  AuditInv'
<1>1. m # "idle" => AuditOK(v.snap)
  BY DEF AuditInv
<1> QED
  BY <1>1, AuditMove

LEMMA EngineAudit ==
  ASSUME Typed, AuditInv, NEW p \in Reqs
  PROVE  /\ TriggerEvent(p) => AuditInv'
         /\ RunNextStep(p) => AuditInv'
         /\ CompleteExecution(p) => AuditInv'
         /\ RunStepAt(p) => AuditInv'
         /\ ExecuteStep(p) => AuditInv'
         /\ AutomationEvent(p) => AuditInv'
         /\ ReadResults(p) => AuditInv'
         /\ WriteResults(p) => AuditInv'
<1> USE TypedFacts DEF RejectedPoints
<1>0. row \in [status: Statuses, order: Nat, state: StateKeys, hist: Seq(StateMove),
                results: SUBSET Result, last: Result]
  BY DEF Row
<1>a. [loc[p] EXCEPT !.snap = row].snap = row
  BY DEF Local
<1>b. \A s : [loc[p] EXCEPT !.cur = s].snap = loc[p].snap
  BY DEF Local
<1>c. AuditOK(row)
  BY DEF AuditInv
<1>1. TriggerEvent(p) => AuditInv'
  BY <1>c, AuditPlain DEF TriggerEvent, Log
<1>2. RunNextStep(p) => AuditInv'
  BY <1>b, <1>c, AuditPlain DEF RunNextStep
<1>3. ASSUME CompleteExecution(p) PROVE AuditInv'
  <2>1. AuditOK(row')
    BY <1>0, <1>3, AuditedWrite DEF CompleteExecution
  <2> QED
    BY <1>3, <2>1, AuditPlain DEF CompleteExecution
<1>4. ASSUME RunStepAt(p) PROVE AuditInv'
  <2>1. AuditOK(row')
    BY <1>0, <1>4, <1>c, AuditedWrite DEF RunStepAt, AuditOK
  <2> QED
    BY <1>4, <2>1, AuditPlain DEF RunStepAt
<1>5. ASSUME ExecuteStep(p) PROVE AuditInv'
  <2> DEFINE c == wf.steps[loc[p].cur]
             v == [loc[p] EXCEPT !.snap = row]
  <2>1. v.snap = row /\ v \in Local
    BY DEF Local
  <2>2. AuditOK(row') /\ UNCHANGED events
    BY <1>5, <1>c DEF ExecuteStep
  <2>3. ASSUME NEW m \in {"save_task", "automation_event", "read_results", "run_next"},
               NEW w, w.snap = row, Move(p, "load_step", m, w)
        PROVE  AuditInv'
    BY <2>2, <2>3, AuditPlain
  <2>4. CASE Move(p, "load_step", "save_task", [v EXCEPT !.acts = <<c.type>>])
    <3> DEFINE w == [v EXCEPT !.acts = <<c.type>>]
    <3>1. w.snap = row
      BY <2>1 DEF Local
    <3>2. Move(p, "load_step", "save_task", w)
      BY <2>4
    <3> HIDE DEF w
    <3> QED
      BY <2>3, <3>1, <3>2
  <2>5. ASSUME NEW m \in {"automation_event", "read_results"}, NEW ok, NEW d,
               Move(p, "load_step", m, [v EXCEPT !.ok = ok, !.dest = d])
        PROVE  AuditInv'
    <3> DEFINE w == [v EXCEPT !.ok = ok, !.dest = d]
    <3>1. w.snap = row
      BY <2>1 DEF Local
    <3>2. Move(p, "load_step", m, w)
      BY <2>5
    <3> HIDE DEF w
    <3> QED
      BY <2>3, <3>1, <3>2
  <2>6. CASE Move(p, "load_step", "run_next", v)
    BY <2>1, <2>3, <2>6
  <2> QED
    BY <1>5, <2>4, <2>5, <2>6 DEF ExecuteStep
<1>6. AutomationEvent(p) => AuditInv'
  BY <1>c, AuditPlain DEF AutomationEvent, Log
<1>7. ReadResults(p) => AuditInv'
  BY <1>a, <1>c, AuditPlain DEF ReadResults
<1>8. ASSUME WriteResults(p) PROVE AuditInv'
  <2>1. row'.status = row.status
    BY <1>0, <1>8 DEF WriteResults, WithResult
  <2>2. \A x \in row'.results : x \in loc[p].snap.results \/ x.status # "approved"
    BY <1>0, <1>8 DEF WriteResults, WithResult, Without
  <2>3. AuditOK(row')
    BY <1>c, <2>1, <2>2, AuditedWrite DEF AuditOK
  <2> DEFINE m == PointFor(loc[p].dest)
             v == [loc[p] EXCEPT !.cur = StepFor(loc[p].dest, @)]
  <2>4. m \in {"run_next", "order", "complete"}
    BY DEF PointFor
  <2>5. Move(p, "write_results", m, v) /\ UNCHANGED events
    BY <1>8 DEF WriteResults, Proceed
  <2>6. v.snap = loc[p].snap
    BY DEF Local
  <2> HIDE DEF m, v
  <2> QED
    BY <2>3, <2>4, <2>5, <2>6, AuditPlain
<1> QED
  BY <1>1, <1>2, <1>3, <1>4, <1>5, <1>6, <1>7, <1>8

LEMMA TaskAudit ==
  ASSUME Typed, AuditInv, NEW p \in Reqs
  PROVE  /\ SaveTask(p) => AuditInv'
         /\ Pause(p) => AuditInv'
         /\ ResumeLoad(p) => AuditInv'
         /\ CloseTask(p) => AuditInv'
         /\ CancelExecution(p) => AuditInv'
         /\ TaskMove(p) => AuditInv'
         /\ TaskMoveFails(p) => AuditInv'
         /\ Resume(p) => AuditInv'
         /\ Fail(p) => AuditInv'
<1> USE TypedFacts DEF RejectedPoints
<1>0. row \in [status: Statuses, order: Nat, state: StateKeys, hist: Seq(StateMove),
                results: SUBSET Result, last: Result]
  BY DEF Row
<1>a. [loc[p] EXCEPT !.snap = row].snap = row
  BY DEF Local
<1>b. \A s : [loc[p] EXCEPT !.cur = s].snap = loc[p].snap
  BY DEF Local
<1>c. AuditOK(row)
  BY DEF AuditInv
<1>1. ASSUME SaveTask(p) PROVE AuditInv'
  <2>1. [loc[p] EXCEPT !.task = Len(tasks) + 1].snap = loc[p].snap
    BY DEF Local
  <2> QED
    BY <1>1, <1>c, <2>1, AuditPlain DEF SaveTask
<1>2. ASSUME Pause(p) PROVE AuditInv'
  <2>1. row'.status = "paused"
    BY <1>0, <1>2 DEF Pause, WithResult
  <2>2. \A x \in row'.results : x \in loc[p].snap.results \/ x.status # "approved"
    BY <1>0, <1>2 DEF Pause, WithResult
  <2>3. AuditOK(row')
    BY <2>1, <2>2, AuditedWrite
  <2> DEFINE m == IF Tail(loc[p].acts) = <<>> THEN "idle" ELSE "save_task"
             v == [loc[p] EXCEPT !.acts = Tail(loc[p].acts)]
  <2>4. Move(p, "pause", m, v) /\ UNCHANGED events /\ m \in {"idle", "save_task"}
    BY <1>2 DEF Pause
  <2>5. v.snap = loc[p].snap
    BY DEF Local
  <2> HIDE DEF m, v
  <2> QED
    BY <2>3, <2>4, <2>5, AuditPlain
<1>3. ResumeLoad(p) => AuditInv'
  BY <1>a, <1>c, AuditPlain DEF ResumeLoad
<1>4. CloseTask(p) => AuditInv'
  BY <1>b, <1>c, AuditPlain DEF CloseTask
<1>5. ASSUME CancelExecution(p) PROVE AuditInv'
  <2>1. AuditOK(row')
    BY <1>0, <1>5, AuditedWrite DEF CancelExecution
  <2> QED
    BY <1>5, <2>1, AuditPlain DEF CancelExecution
<1>6. ASSUME TaskMove(p) PROVE AuditInv'
  <2>1. row'.status = row.status /\ row'.results = row.results
    BY <1>0, <1>6 DEF TaskMove, Moved
  <2>2. AuditOK(row')
    BY <1>c, <2>1 DEF AuditOK
  <2> QED
    BY <1>6, <2>2, AuditPlain DEF TaskMove
<1>7. ASSUME TaskMoveFails(p) PROVE AuditInv'
  <2>1. wf' = wf /\ events' = events /\ row' = row /\ loc' = loc
    BY <1>7 DEF TaskMoveFails
  <2>2. \A q \in Reqs : pc'[q] = pc[q] \/ pc'[q] = "resume"
    BY <1>7 DEF TaskMoveFails, Typed, TypeOK
  <2> QED
    BY <2>1, <2>2 DEF AuditInv, AuditOK, RejectionLogged, Steps
<1>8. ASSUME Resume(p) PROVE AuditInv'
  <2>1. row'.status = "running"
    BY <1>0, <1>8 DEF Resume, WithResult
  <2>2. \A x \in row'.results : x \in loc[p].snap.results \/ x.status # "approved"
    BY <1>0, <1>8 DEF Resume, WithResult, Without
  <2>3. AuditOK(row')
    BY <2>1, <2>2, AuditedWrite
  <2> QED
    BY <1>8, <2>3, AuditPlain DEF Resume
<1>9. ASSUME Fail(p) PROVE AuditInv'
  <2>1. wf' = wf /\ events' = events /\ row' = row
    BY <1>9 DEF Fail
  <2>2. AuditOK(NoLocal.snap)
    BY DEF AuditOK, NoLocal, NoRow
  <2>3. \A q \in Reqs : \/ pc'[q] = pc[q] /\ loc'[q] = loc[q]
                        \/ pc'[q] = "idle" /\ loc'[q] = NoLocal
    BY <1>9 DEF Fail, Typed, TypeOK
  <2> QED
    BY <2>1, <2>2, <2>3 DEF AuditInv, AuditOK, RejectionLogged, Steps
<1> QED
  BY <1>1, <1>2, <1>3, <1>4, <1>5, <1>6, <1>7, <1>8, <1>9

LEMMA DecisionAudit ==
  ASSUME Typed, AuditInv, NEW p \in Reqs
  PROVE  /\ RejectEvent(p) => AuditInv'
         /\ RejectGoto(p) => AuditInv'
         /\ RejectLoad(p) => AuditInv'
         /\ RejectSave(p) => AuditInv'
         /\ RejectMovedEvent(p) => AuditInv'
         /\ RejectStatus(p) => AuditInv'
         /\ DecisionEvent(p) => AuditInv'
         /\ ApproveSave(p) => AuditInv'
         /\ ApproveEvent(p) => AuditInv'
<1> USE TypedFacts DEF RejectedPoints
<1>0. row \in [status: Statuses, order: Nat, state: StateKeys, hist: Seq(StateMove),
                results: SUBSET Result, last: Result]
  BY DEF Row
<1>a. loc[p].snap \in [status: Statuses, order: Nat, state: StateKeys,
                       hist: Seq(StateMove), results: SUBSET Result, last: Result]
  BY DEF Row
<1>b. AuditOK(row) /\ AuditOK(loc[p].snap)
  BY DEF AuditInv
<1>1. ASSUME RejectEvent(p) PROVE AuditInv'
  <2>1. loc[p].cur \in Steps
    BY <1>1 DEF RejectEvent, Move, Fit, StepPoints
  <2>2. RejectionLogged' /\ events \subseteq events'
    BY <1>1, <2>1 DEF RejectEvent, Move, Log, RejectionLogged, Steps
  <2> QED
    BY <1>1, <1>b, <2>2, AuditMove DEF RejectEvent
<1>2. ASSUME RejectGoto(p) PROVE AuditInv'
  <2> DEFINE d == wf.steps[loc[p].cur].onReject
             v == [loc[p] EXCEPT !.cur = StepFor(d, @)]
  <2>1. AuditOK(row')
    BY <1>0, <1>2, AuditedWrite DEF RejectGoto
  <2>2. Move(p, "reject_goto", PointFor(d), v) /\ UNCHANGED events
    BY <1>2 DEF RejectGoto, Proceed
  <2>3. v.snap = loc[p].snap /\ PointFor(d) \in {"run_next", "order", "complete"}
    BY DEF Local, PointFor
  <2> HIDE DEF d, v
  <2> QED
    BY <2>1, <2>2, <2>3, AuditPlain
<1>3. ASSUME RejectLoad(p) PROVE AuditInv'
  <2> DEFINE v == [loc[p] EXCEPT !.snap = row]
  <2>1. v.snap = row
    BY DEF Local
  <2>2. RejectionLogged'
    BY <1>3 DEF RejectLoad, Move, AuditInv, RejectionLogged, Steps
  <2>3. Move(p, "reject_load", "reject_save", v) /\ UNCHANGED <<row, events>>
    BY <1>3 DEF RejectLoad
  <2> HIDE DEF v
  <2> QED
    BY <1>b, <2>1, <2>2, <2>3, AuditMove
<1>4. ASSUME RejectSave(p) PROVE AuditInv'
  <2>1. row'.status = loc[p].snap.status /\ row'.results = loc[p].snap.results
    BY <1>a, <1>4 DEF RejectSave, Moved
  <2>2. AuditOK(row')
    BY <1>b, <2>1 DEF AuditOK
  <2>3. RejectionLogged'
    BY <1>4 DEF RejectSave, Move, AuditInv, RejectionLogged, Steps
  <2> QED
    BY <1>4, <1>b, <2>2, <2>3, AuditMove DEF RejectSave
<1>5. ASSUME RejectMovedEvent(p) PROVE AuditInv'
  <2>1. RejectionLogged' /\ events \subseteq events'
    BY <1>5 DEF RejectMovedEvent, Log, Move, AuditInv, RejectionLogged, Steps
  <2> QED
    BY <1>5, <1>b, <2>1, AuditMove DEF RejectMovedEvent
<1>6. ASSUME RejectStatus(p) PROVE AuditInv'
  <2>1. RejectionLogged
    BY <1>6 DEF RejectStatus, Move, AuditInv
  <2>2. AuditOK(row')
    BY <1>0, <1>6, <2>1, AuditedWrite DEF RejectStatus
  <2> QED
    BY <1>6, <2>2, AuditPlain DEF RejectStatus
<1>7. ASSUME DecisionEvent(p) PROVE AuditInv'
  <2> DEFINE m == IF loc[p].ok THEN "approve_save" ELSE "reject_event"
  <2>1. events \subseteq events' /\ row' = row
    BY <1>7 DEF DecisionEvent, Log
  <2>2. m = "approve_save" => <<"approved", loc[p].cur>> \in events'
    BY <1>7 DEF DecisionEvent, Log
  <2>3. loc[p].snap.last.step = loc[p].cur
    BY <1>7 DEF DecisionEvent, Move, AuditInv
  <2>4. Move(p, "decision_event", m, loc[p]) /\ m \in {"approve_save", "reject_event"}
    BY <1>7 DEF DecisionEvent
  <2> HIDE DEF m
  <2> QED
    BY <1>b, <2>1, <2>2, <2>3, <2>4, AuditMove
<1>8. ASSUME ApproveSave(p) PROVE AuditInv'
  <2> DEFINE e == [loc[p].snap.last EXCEPT !.status = "approved"]
  <2>1. e.step = loc[p].cur /\ <<"approved", e.step>> \in events
    BY <1>8, <1>a DEF ApproveSave, Move, AuditInv, Result
  <2>2. \A x \in row'.results : x \in loc[p].snap.results \/ x = e
    BY <1>a, <1>8 DEF ApproveSave, WithResult
  <2>3. row'.status = "running"
    BY <1>a, <1>8 DEF ApproveSave, WithResult
  <2>4. AuditOK(row')
    BY <2>1, <2>2, <2>3, AuditedWrite
  <2> QED
    BY <1>8, <2>4, AuditPlain DEF ApproveSave
<1>9. ASSUME ApproveEvent(p) PROVE AuditInv'
  <2> DEFINE d == wf.steps[loc[p].cur].next
             v == [loc[p] EXCEPT !.cur = StepFor(d, @)]
  <2>1. events \subseteq events' /\ row' = row
    BY <1>9 DEF ApproveEvent, Log
  <2>2. Move(p, "approve_event", PointFor(d), v)
    BY <1>9 DEF ApproveEvent, Proceed
  <2>3. v.snap = loc[p].snap /\ PointFor(d) \in {"run_next", "order", "complete"}
    BY DEF Local, PointFor
  <2> HIDE DEF d, v
  <2> QED
    BY <1>b, <2>1, <2>2, <2>3, AuditPlain
<1> QED
  BY <1>1, <1>2, <1>3, <1>4, <1>5, <1>6, <1>7, <1>8, <1>9

LEMMA TransitionAudit ==
  ASSUME Typed, AuditInv, NEW p \in Reqs
  PROVE  /\ MoveSave(p) => AuditInv'
         /\ MoveEvent(p) => AuditInv'
         /\ MoveLoad(p) => AuditInv'
<1> USE TypedFacts DEF RejectedPoints
<1>0. AuditOK(row) /\ AuditOK(loc[p].snap)
  BY DEF AuditInv
<1>1. ASSUME MoveSave(p) PROVE AuditInv'
  <2>1. row'.status = loc[p].snap.status /\ row'.results = loc[p].snap.results
    BY <1>1 DEF MoveSave, Moved, Row
  <2>2. AuditOK(row')
    BY <1>0, <2>1 DEF AuditOK
  <2> QED
    BY <1>1, <2>2, AuditPlain DEF MoveSave
<1>2. MoveEvent(p) => AuditInv'
  BY <1>0, AuditPlain DEF MoveEvent, Log
<1>3. ASSUME MoveLoad(p) PROVE AuditInv'
  <2> DEFINE m == IF loc[p].acts = <<>> THEN "idle" ELSE "save_task"
             v == [loc[p] EXCEPT !.snap = row]
  <2>1. Move(p, "move_load", m, v) /\ UNCHANGED <<row, events>>
        /\ m \in {"idle", "save_task"}
    BY <1>3 DEF MoveLoad
  <2>2. v.snap = row
    BY DEF Local
  <2> HIDE DEF m, v
  <2> QED
    BY <1>0, <2>1, <2>2, AuditPlain
<1> QED
  BY <1>1, <1>2, <1>3

LEMMA CallAudit ==
  ASSUME Typed, AuditInv, NEW p \in Reqs, Call(p)
  PROVE  AuditInv'
<1> USE DEF RejectedPoints
<1>0. AuditOK(row) /\ AuditOK(NoRow) /\ NoLocal.snap = NoRow
  BY DEF AuditInv, AuditOK, NoLocal, NoRow
<1>1. ASSUME NEW type, TriggerWorkflow(p, type) PROVE AuditInv'
  <2>1. row'.results = {} /\ row'.status = "running"
    BY <1>1 DEF TriggerWorkflow, NoRow
  <2>2. AuditOK(row')
    BY <2>1 DEF AuditOK
  <2> QED
    BY <1>0, <1>1, <2>2, AuditAccept DEF TriggerWorkflow
<1>2. ASSUME NEW t \in DOMAIN tasks, NEW ok, CompleteTask(p, t, ok) PROVE AuditInv'
  <2>1. [NoLocal EXCEPT !.task = t, !.ok = ok].snap = NoRow
    BY DEF NoLocal
  <2> QED
    BY <1>0, <1>2, <2>1, AuditAccept DEF CompleteTask
<1>3. ASSUME NEW ok, HandleApproval(p, ok) PROVE AuditInv'
  <2> DEFINE v == [NoLocal EXCEPT !.cur = row.last.step, !.ok = ok, !.snap = row]
  <2>1. v.snap = row /\ v.cur = row.last.step
    BY DEF NoLocal
  <2>2. Accept(p, IF ok THEN "approve" ELSE "reject", "decision_event", v)
        /\ UNCHANGED <<row, events>>
    BY <1>3 DEF HandleApproval
  <2> HIDE DEF v
  <2> QED
    BY <1>0, <2>1, <2>2, AuditAccept
<1>4. ASSUME NEW tr, ExecuteTransition(p, tr) PROVE AuditInv'
  <2> DEFINE v == [NoLocal EXCEPT !.to = tr.to, !.acts = tr.tasks, !.snap = row]
  <2>1. v.snap = row
    BY DEF NoLocal
  <2>2. Accept(p, "transition", "move_save", v) /\ UNCHANGED <<row, events>>
    BY <1>4 DEF ExecuteTransition
  <2> HIDE DEF v
  <2> QED
    BY <1>0, <2>1, <2>2, AuditAccept
<1> QED
  BY <1>1, <1>2, <1>3, <1>4 DEF Call

LEMMA NextAudit == Typed /\ AuditInv /\ [Next]_vars => AuditInv'
<1> SUFFICES ASSUME Typed, AuditInv, [Next]_vars PROVE AuditInv'
  OBVIOUS
<1>1. CASE UNCHANGED vars
  BY <1>1 DEF vars, AuditInv, AuditOK, RejectionLogged, Steps
<1>2. ASSUME NEW p \in Reqs, Statement(p) PROVE AuditInv'
  BY <1>2, EngineAudit, TaskAudit, DecisionAudit, TransitionAudit DEF Statement
<1>3. ASSUME NEW t \in DOMAIN tasks, StartTask(t) \/ CancelTask(t) PROVE AuditInv'
  BY <1>3 DEF StartTask, CancelTask, SetTask, AuditInv, AuditOK, RejectionLogged, Steps
<1> QED
  BY <1>1, <1>2, <1>3, CallAudit, TaskAudit DEF Next

(* The audit trail is never behind the row: whatever is REJECTED or approved in
   the row has its event, in spite of copies written late and requests that die
   between the event and the write. *)
THEOREM AuditCorrect == Spec => []DecisionsAudited
<1>1. Init => AuditInv
  BY DEF Init, AuditInv, AuditOK, NoRow, NoLocal, RejectedPoints
<1>2. AuditInv => DecisionsAudited
  BY DEF AuditInv, AuditOK, RejectionLogged, DecisionsAudited
<1>3. Spec => []AuditInv
  BY <1>1, InitTyped, NextTyped, NextAudit, PTL DEF Spec
<1> QED
  BY <1>2, <1>3, PTL
-----------------------------------------------------------------------------
(* MovesAreConfigured: every copy of the row records configured moves only, and a
   transition that is about to be saved leaves the state its copy is in. *)

NoBuiltInMoves == \A s \in Steps : MovesAfter(s) = {}

ConfiguredMove(from, to) ==
  \/ \E tr \in wf.transitions : tr.from = from /\ tr.to = to
  \/ \E s \in Steps : wf.steps[s].rejectionState = to

MovesOK(r) ==
  NoBuiltInMoves => \A i \in 2..Len(r.hist) : ConfiguredMove(r.hist[i].from, r.hist[i].to)

MovesInv ==
  /\ MovesOK(row)
  /\ \A p \in Reqs :
       /\ MovesOK(loc[p].snap)
       /\ pc[p] = "move_save" => ConfiguredMove(loc[p].snap.state, loc[p].to)

(* A step that writes no history: requests keep their copy, read the row or drop
   what they have, and none of them comes to save a transition. *)
Quiet ==
  /\ UNCHANGED wf
  /\ row'.hist = row.hist
  /\ \A q \in Reqs :
       /\ loc'[q].snap \in {row, loc[q].snap, NoRow}
       /\ pc'[q] = "move_save" => pc[q] = "move_save" /\ UNCHANGED loc[q]

LEMMA NoRowMoves == MovesOK(NoRow)
BY DEF MovesOK, NoRow

LEMMA MovesKept ==
  ASSUME NEW r, NEW c, MovesOK(c), r.hist = c.hist
  PROVE  MovesOK(r)
BY DEF MovesOK

LEMMA MovesFixed ==
  ASSUME UNCHANGED wf
  PROVE  /\ MovesOK(row)' <=> MovesOK(row')
         /\ \A p : MovesOK(loc[p].snap)' <=> MovesOK(loc'[p].snap)
         /\ \A f, t : ConfiguredMove(f, t)' <=> ConfiguredMove(f, t)
<1>1. NoBuiltInMoves' <=> NoBuiltInMoves
  BY DEF NoBuiltInMoves, Steps, MovesAfter
<1>2. \A f, t : ConfiguredMove(f, t)' <=> ConfiguredMove(f, t)
  BY DEF ConfiguredMove, Steps
<1> QED
  BY <1>1, <1>2 DEF MovesOK

LEMMA QuietMoves ==
  ASSUME MovesInv, Quiet
  PROVE  MovesInv'
<1>1. UNCHANGED wf
  BY DEF Quiet
<1>2. MovesOK(row)'
  BY <1>1, MovesFixed, MovesKept DEF Quiet, MovesInv
<1>3. ASSUME NEW p \in Reqs PROVE MovesOK(loc[p].snap)'
  <2>1. MovesOK(loc'[p].snap)
    BY NoRowMoves DEF Quiet, MovesInv
  <2> QED
    BY <1>1, <2>1, MovesFixed
<1>4. ASSUME NEW p \in Reqs, pc'[p] = "move_save"
      PROVE  ConfiguredMove(loc[p].snap.state, loc[p].to)'
  <2>1. pc[p] = "move_save" /\ loc'[p] = loc[p]
    BY <1>4 DEF Quiet
  <2>2. ConfiguredMove(loc[p].snap.state, loc[p].to)
    BY <2>1 DEF MovesInv
  <2> QED
    BY <1>1, <2>1, <2>2 DEF ConfiguredMove, Steps
<1> QED
  BY <1>2, <1>3, <1>4 DEF MovesInv

LEMMA QuietMove ==
  ASSUME Typed, NEW p \in Reqs, NEW l, NEW m, NEW v, Move(p, l, m, v), m # "move_save",
         row'.hist = row.hist, v.snap \in {row, loc[p].snap, NoRow}
  PROVE  Quiet
<1>1. wf' = wf /\ pc' = [pc EXCEPT ![p] = m]
      /\ loc' = [loc EXCEPT ![p] = IF m = "idle" THEN NoLocal ELSE v]
  BY DEF Move
<1>2. loc'[p].snap \in {row, loc[p].snap, NoRow} /\ pc'[p] = m
  BY <1>1 DEF Typed, TypeOK, NoLocal
<1>3. \A q \in Reqs \ {p} : loc'[q] = loc[q] /\ pc'[q] = pc[q]
  BY <1>1 DEF Typed, TypeOK
<1> QED
  BY <1>1, <1>2, <1>3 DEF Quiet

LEMMA EngineQuiet ==
  ASSUME Typed, NEW p \in Reqs
  PROVE  /\ TriggerEvent(p) => Quiet
         /\ RunNextStep(p) => Quiet
         /\ CompleteExecution(p) => Quiet
         /\ RunStepAt(p) => Quiet
         /\ ExecuteStep(p) => Quiet
         /\ AutomationEvent(p) => Quiet
         /\ ReadResults(p) => Quiet
         /\ WriteResults(p) => Quiet
         /\ SaveTask(p) => Quiet
         /\ Pause(p) => Quiet
<1> USE TypedFacts, QuietMove DEF Row
<1>0. NoLocal.snap = NoRow
  BY DEF NoLocal
<1>1. TriggerEvent(p) => Quiet
  BY DEF TriggerEvent
<1>2. ASSUME RunNextStep(p) PROVE Quiet
  <2>1. \A s : [loc[p] EXCEPT !.cur = s].snap = loc[p].snap
    BY DEF Local
  <2> QED
    BY <1>2, <2>1 DEF RunNextStep
<1>3. CompleteExecution(p) => Quiet
  BY <1>0 DEF CompleteExecution
<1>4. RunStepAt(p) => Quiet
  BY DEF RunStepAt
<1>5. ASSUME ExecuteStep(p) PROVE Quiet
  <2> DEFINE v == [loc[p] EXCEPT !.snap = row]
  <2>1. v.snap = row /\ v \in Local
    BY DEF Local
  <2>2. \A x : [v EXCEPT !.acts = x].snap = row
    BY <2>1 DEF Local
  <2>3. \A x, y : [v EXCEPT !.ok = x, !.dest = y].snap = row
    BY <2>1 DEF Local
  <2> HIDE DEF v
  <2> QED
    BY <1>5, <2>1, <2>2, <2>3 DEF ExecuteStep, v
<1>6. AutomationEvent(p) => Quiet
  BY DEF AutomationEvent
<1>7. ASSUME ReadResults(p) PROVE Quiet
  <2>1. [loc[p] EXCEPT !.snap = row].snap = row
    BY DEF Local
  <2> QED
    BY <1>7, <2>1 DEF ReadResults
<1>8. ASSUME WriteResults(p) PROVE Quiet
  <2>1. \A d : [loc[p] EXCEPT !.cur = StepFor(d, loc[p].cur)].snap = loc[p].snap
    BY DEF Local
  <2>2. \A d : PointFor(d) # "move_save"
    BY DEF PointFor
  <2>3. row'.hist = row.hist
    BY <1>8 DEF WriteResults, WithResult
  <2> QED
    BY <1>8, <2>1, <2>2, <2>3 DEF WriteResults, Proceed
<1>9. ASSUME SaveTask(p) PROVE Quiet
  <2>1. \A n : [loc[p] EXCEPT !.task = n].snap = loc[p].snap
    BY DEF Local
  <2> QED
    BY <1>9, <2>1 DEF SaveTask
<1>10. ASSUME Pause(p) PROVE Quiet
  <2>1. \A x : [loc[p] EXCEPT !.acts = x].snap = loc[p].snap
    BY DEF Local
  <2>2. row'.hist = row.hist
    BY <1>10 DEF Pause, WithResult
  <2> QED
    BY <1>10, <2>1, <2>2 DEF Pause
<1> QED
  BY <1>1, <1>2, <1>3, <1>4, <1>5, <1>6, <1>7, <1>8, <1>9, <1>10

LEMMA DecisionQuiet ==
  ASSUME Typed, NEW p \in Reqs
  PROVE  /\ ResumeLoad(p) => Quiet
         /\ CloseTask(p) => Quiet
         /\ CancelExecution(p) => Quiet
         /\ Resume(p) => Quiet
         /\ RejectEvent(p) => Quiet
         /\ RejectGoto(p) => Quiet
         /\ RejectLoad(p) => Quiet
         /\ RejectMovedEvent(p) => Quiet
         /\ RejectStatus(p) => Quiet
         /\ DecisionEvent(p) => Quiet
         /\ ApproveEvent(p) => Quiet
         /\ MoveEvent(p) => Quiet
         /\ MoveLoad(p) => Quiet
         /\ TaskMoveFails(p) => Quiet
         /\ Fail(p) => Quiet
<1> USE TypedFacts, QuietMove DEF Row
<1>0. NoLocal.snap = NoRow
  BY DEF NoLocal
<1>1. \A x : /\ [loc[p] EXCEPT !.snap = row].snap = row
             /\ [loc[p] EXCEPT !.cur = x].snap = loc[p].snap
  BY DEF Local
<1>2. \A d : PointFor(d) # "move_save"
  BY DEF PointFor
<1>3. ResumeLoad(p) => Quiet
  BY <1>1 DEF ResumeLoad
<1>4. CloseTask(p) => Quiet
  BY <1>1 DEF CloseTask
<1>5. CancelExecution(p) => Quiet
  BY <1>0 DEF CancelExecution
<1>6. ASSUME Resume(p) PROVE Quiet
  <2>1. row'.hist = row.hist
    BY <1>6 DEF Resume, WithResult
  <2> QED
    BY <1>6, <2>1 DEF Resume
<1>7. RejectEvent(p) => Quiet
  BY DEF RejectEvent
<1>8. RejectGoto(p) => Quiet
  BY <1>1, <1>2 DEF RejectGoto, Proceed
<1>9. RejectLoad(p) => Quiet
  BY <1>1 DEF RejectLoad
<1>10. RejectMovedEvent(p) => Quiet
  BY DEF RejectMovedEvent
<1>11. RejectStatus(p) => Quiet
  BY <1>0 DEF RejectStatus
<1>12. DecisionEvent(p) => Quiet
  BY DEF DecisionEvent
<1>13. ApproveEvent(p) => Quiet
  BY <1>1, <1>2 DEF ApproveEvent, Proceed
<1>14. MoveEvent(p) => Quiet
  BY DEF MoveEvent
<1>15. MoveLoad(p) => Quiet
  BY <1>1 DEF MoveLoad
<1>16. TaskMoveFails(p) => Quiet
  BY DEF TaskMoveFails, Quiet, Typed, TypeOK
<1>17. Fail(p) => Quiet
  BY <1>0 DEF Fail, Quiet, Typed, TypeOK
<1> QED
  BY <1>3, <1>4, <1>5, <1>6, <1>7, <1>8, <1>9, <1>10, <1>11, <1>12, <1>13, <1>14, <1>15,
     <1>16, <1>17

LEMMA MovesMoved ==
  ASSUME NEW r \in Row, NEW c \in Row, NEW s \in StateKeys, MovesOK(c),
         NoBuiltInMoves => ConfiguredMove(c.state, s)
  PROVE  MovesOK(Moved(r, c, s))
<1> DEFINE e == [from |-> c.state, to |-> s]
           h == Append(c.hist, e)
           n == Len(c.hist)
<1>1. c.hist \in Seq(StateMove) /\ e \in StateMove /\ n \in Nat
  BY DEF Row, StateMove
<1>2. h \in Seq(StateMove) /\ Len(h) = n + 1 /\ h[n + 1] = e
      /\ \A i \in 1..n : h[i] = c.hist[i]
  BY <1>1
<1>3. Moved(r, c, s).hist = h
  BY DEF Moved, Row
<1>4. ASSUME NoBuiltInMoves, NEW i \in 2..Len(h)
      PROVE  ConfiguredMove(h[i].from, h[i].to)
  <2>1. CASE i = n + 1
    BY <1>2, <1>4, <2>1
  <2>2. CASE i \in 2..n
    BY <1>2, <1>4, <2>2 DEF MovesOK
  <2> QED
    BY <1>1, <1>2, <1>4, <2>1, <2>2
<1> QED
  BY <1>3, <1>4 DEF MovesOK

(* A step of a request that changes the history of the row. *)
LEMMA MovesMove ==
  ASSUME Typed, MovesInv, NEW p \in Reqs, NEW l, NEW m, Move(p, l, m, loc[p]),
         m # "move_save", MovesOK(row')
  PROVE  MovesInv'
<1>1. wf' = wf /\ pc' = [pc EXCEPT ![p] = m]
      /\ loc' = [loc EXCEPT ![p] = IF m = "idle" THEN NoLocal ELSE loc[p]]
  BY DEF Move
<1>2. \A q \in Reqs : loc'[q].snap \in {loc[q].snap, NoRow}
  BY <1>1 DEF Typed, TypeOK, NoLocal
<1>3. \A q \in Reqs : pc'[q] = "move_save" => pc[q] = "move_save" /\ loc'[q] = loc[q]
  BY <1>1 DEF Typed, TypeOK
<1>4. \A q \in Reqs : MovesOK(loc'[q].snap)
  BY <1>2, NoRowMoves DEF MovesInv
<1>5. \A q \in Reqs : pc'[q] = "move_save" => ConfiguredMove(loc'[q].snap.state, loc'[q].to)
  BY <1>3 DEF MovesInv
<1> QED
  BY <1>1, <1>4, <1>5, MovesFixed DEF MovesInv, ConfiguredMove, Steps

LEMMA MovesAccept ==
  ASSUME Typed, MovesInv, NEW p \in Reqs, NEW kind, NEW m, NEW v, Accept(p, kind, m, v),
         MovesOK(row'), MovesOK(v.snap),
         m = "move_save" => ConfiguredMove(v.snap.state, v.to)
  PROVE  MovesInv'
<1>1. wf' = wf /\ pc' = [pc EXCEPT ![p] = m] /\ loc' = [loc EXCEPT ![p] = v]
  BY DEF Accept
<1>2. \A q \in Reqs : MovesOK(loc'[q].snap)
  BY <1>1 DEF Typed, TypeOK, MovesInv
<1>3. \A q \in Reqs : pc'[q] = "move_save" => ConfiguredMove(loc'[q].snap.state, loc'[q].to)
  BY <1>1 DEF Typed, TypeOK, MovesInv
<1> QED
  BY <1>1, <1>2, <1>3, MovesFixed DEF MovesInv, ConfiguredMove, Steps

LEMMA WritesMoves ==
  ASSUME Typed, MovesInv, NEW p \in Reqs
  PROVE  /\ TaskMove(p) => MovesInv'
         /\ RejectSave(p) => MovesInv'
         /\ ApproveSave(p) => MovesInv'
         /\ MoveSave(p) => MovesInv'
<1> USE TypedFacts, MovesMove
<1>0. MovesOK(row) /\ MovesOK(loc[p].snap)
  BY DEF MovesInv
<1>1. ASSUME TaskMove(p) PROVE MovesInv'
  <2>1. StepsOfTask(loc[p].task) \subseteq Steps
    BY DEF StepsOfTask
  <2>2. ASSUME NEW s \in StepsOfTask(loc[p].task), NEW tr \in MovesAfter(s),
               row' = Moved(row, loc[p].snap, tr.to)
        PROVE  MovesOK(row')
    <3>1. ~ NoBuiltInMoves
      BY <2>1 DEF NoBuiltInMoves
    <3> QED
      BY <3>1 DEF MovesOK
  <2>3. MovesOK(row')
    BY <1>0, <1>1, <2>2 DEF TaskMove
  <2> QED
    BY <1>1, <2>3 DEF TaskMove
<1>2. ASSUME RejectSave(p) PROVE MovesInv'
  <2>1. loc[p].cur \in Steps
    BY <1>2 DEF RejectSave, Move, Fit, StepPoints
  <2>2. wf.steps[loc[p].cur].rejectionState \in StateKeys
    BY <2>1, WorkflowFacts DEF StepConfig
  <2>3. ConfiguredMove(loc[p].snap.state, wf.steps[loc[p].cur].rejectionState)
    BY <2>1 DEF ConfiguredMove
  <2>4. MovesOK(row')
    BY <1>0, <1>2, <2>2, <2>3, MovesMoved DEF RejectSave
  <2> QED
    BY <1>2, <2>4 DEF RejectSave
<1>3. ASSUME ApproveSave(p) PROVE MovesInv'
  <2>1. row'.hist = loc[p].snap.hist
    BY <1>3 DEF ApproveSave, WithResult, Row
  <2>2. MovesOK(row')
    BY <1>0, <2>1, MovesKept
  <2> QED
    BY <1>3, <2>2 DEF ApproveSave
<1>4. ASSUME MoveSave(p) PROVE MovesInv'
  <2>1. loc[p].to \in StateKeys /\ ConfiguredMove(loc[p].snap.state, loc[p].to)
    BY <1>4 DEF MoveSave, Move, MovesInv, Local
  <2>2. MovesOK(row')
    BY <1>0, <1>4, <2>1, MovesMoved DEF MoveSave
  <2> QED
    BY <1>4, <2>2 DEF MoveSave
<1> QED
  BY <1>1, <1>2, <1>3, <1>4

LEMMA CallMoves ==
  ASSUME Typed, MovesInv, NEW p \in Reqs, Call(p)
  PROVE  MovesInv'
<1>0. MovesOK(row) /\ NoLocal.snap = NoRow
  BY DEF MovesInv, NoLocal
<1>1. ASSUME NEW type, TriggerWorkflow(p, type) PROVE MovesInv'
  <2>1. PICK s \in InitialStates :
          row' = [NoRow EXCEPT !.status = "running", !.state = s,
                               !.hist = <<[from |-> "none", to |-> s]>>]
    BY <1>1 DEF TriggerWorkflow
  <2>2. row'.hist = <<[from |-> "none", to |-> s]>>
    BY <2>1 DEF NoRow
  <2>3. MovesOK(row')
    BY <2>2 DEF MovesOK
  <2> QED
    BY <1>0, <1>1, <2>3, NoRowMoves, MovesAccept DEF TriggerWorkflow
<1>2. ASSUME NEW t \in DOMAIN tasks, NEW ok, CompleteTask(p, t, ok) PROVE MovesInv'
  <2>1. [NoLocal EXCEPT !.task = t, !.ok = ok].snap = NoRow
    BY DEF NoLocal
  <2> QED
    BY <1>0, <1>2, <2>1, NoRowMoves, MovesAccept DEF CompleteTask
<1>3. ASSUME NEW ok, HandleApproval(p, ok) PROVE MovesInv'
  <2>1. [NoLocal EXCEPT !.cur = row.last.step, !.ok = ok, !.snap = row].snap = row
    BY DEF NoLocal
  <2> QED
    BY <1>0, <1>3, <2>1, MovesAccept DEF HandleApproval
<1>4. ASSUME NEW tr \in wf.transitions, ExecuteTransition(p, tr) PROVE MovesInv'
  <2> DEFINE v == [NoLocal EXCEPT !.to = tr.to, !.acts = tr.tasks, !.snap = row]
  <2>1. v.snap = row /\ v.to = tr.to
    BY DEF NoLocal
  <2>2. ConfiguredMove(row.state, tr.to)
    BY <1>4 DEF ExecuteTransition, ConfiguredMove
  <2> HIDE DEF v
  <2> QED
    BY <1>0, <1>4, <2>1, <2>2, MovesAccept DEF ExecuteTransition, v
<1> QED
  BY <1>1, <1>2, <1>3, <1>4 DEF Call

LEMMA NextMoves == Typed /\ MovesInv /\ [Next]_vars => MovesInv'
<1> SUFFICES ASSUME Typed, MovesInv, [Next]_vars PROVE MovesInv'
  OBVIOUS
<1>1. CASE UNCHANGED vars
  BY <1>1, QuietMoves DEF vars, Quiet
<1>2. ASSUME NEW p \in Reqs, Statement(p) PROVE MovesInv'
  BY <1>2, EngineQuiet, DecisionQuiet, QuietMoves, WritesMoves DEF Statement
<1>3. ASSUME NEW p \in Reqs, TaskMoveFails(p) \/ Fail(p) PROVE MovesInv'
  BY <1>3, DecisionQuiet, QuietMoves
<1>4. ASSUME NEW t \in DOMAIN tasks, StartTask(t) \/ CancelTask(t) PROVE MovesInv'
  BY <1>4, QuietMoves DEF StartTask, CancelTask, SetTask, Quiet
<1> QED
  BY <1>1, <1>2, <1>3, <1>4, CallMoves DEF Next

(* Stale copies never smuggle in a move: whatever overlaps and dies, the history of
   a workflow without the built-in moves is made of its transitions and rejections. *)
THEOREM MovesCorrect == Spec => []MovesAreConfigured
<1>1. Init => MovesInv
  BY NoRowMoves DEF Init, MovesInv, NoLocal
<1>2. MovesInv => MovesAreConfigured
  BY DEF MovesInv, MovesOK, NoBuiltInMoves, ConfiguredMove, MovesAreConfigured
<1>3. Spec => []MovesInv
  BY <1>1, InitTyped, NextTyped, NextMoves, PTL DEF Spec
<1> QED
  BY <1>2, <1>3, PTL
-----------------------------------------------------------------------------
(* IdleMeansSettled, for clients that execute no transitions and requests that do not
   die: a request that returns has just written a status other than RUNNING. *)

MovePoints == {"move_save", "move_event", "move_load"}
NoMoves == \A p \in Reqs : pc[p] \notin MovePoints

(* Request p goes on, or has settled the execution. *)
SettledBy(p) ==
  /\ pc'[p] # "idle" \/ row'.status # "running"
  /\ pc'[p] \notin MovePoints
  /\ \A q \in Reqs \ {p} : pc'[q] = pc[q]

LEMMA GoesOn ==
  ASSUME Typed, NEW p \in Reqs, NEW l, NEW m, NEW v, Move(p, l, m, v),
         m # "idle", m # "move_save", m # "move_event", m # "move_load"
  PROVE  SettledBy(p)
BY DEF Typed, TypeOK, Move, SettledBy, MovePoints

LEMMA Ends ==
  ASSUME Typed, NEW p \in Reqs, NEW l, NEW v, Move(p, l, "idle", v),
         row'.status # "running"
  PROVE  SettledBy(p)
BY DEF Typed, TypeOK, Move, SettledBy, MovePoints

LEMMA StatementSettles ==
  ASSUME Typed, NoMoves, NEW p \in Reqs, Statement(p)
  PROVE  SettledBy(p)
<1> USE GoesOn
<1>1. TriggerEvent(p) => SettledBy(p)
  BY DEF TriggerEvent
<1>2. RunStepAt(p) => SettledBy(p)
  BY DEF RunStepAt
<1>3. RunNextStep(p) => SettledBy(p)
  BY DEF RunNextStep
<1>4. ExecuteStep(p) => SettledBy(p)
  BY DEF ExecuteStep
<1>5. AutomationEvent(p) => SettledBy(p)
  BY DEF AutomationEvent
<1>6. ReadResults(p) => SettledBy(p)
  BY DEF ReadResults
<1>7. SaveTask(p) => SettledBy(p)
  BY DEF SaveTask
<1>8. ResumeLoad(p) => SettledBy(p)
  BY DEF ResumeLoad
<1>9. Resume(p) => SettledBy(p)
  BY DEF Resume
<1>10. CloseTask(p) => SettledBy(p)
  BY DEF CloseTask
<1>11. TaskMove(p) => SettledBy(p)
  BY DEF TaskMove
<1>12. RejectEvent(p) => SettledBy(p)
  BY DEF RejectEvent
<1>13. RejectLoad(p) => SettledBy(p)
  BY DEF RejectLoad
<1>14. RejectSave(p) => SettledBy(p)
  BY DEF RejectSave
<1>15. RejectMovedEvent(p) => SettledBy(p)
  BY DEF RejectMovedEvent
<1>16. DecisionEvent(p) => SettledBy(p)
  BY DEF DecisionEvent
<1>17. ApproveSave(p) => SettledBy(p)
  BY DEF ApproveSave
<1>20. \A d : PointFor(d) \in {"run_next", "order", "complete"}
  BY DEF PointFor
<1>21. WriteResults(p) => SettledBy(p)
  BY <1>20 DEF WriteResults, Proceed
<1>22. RejectGoto(p) => SettledBy(p)
  BY <1>20 DEF RejectGoto, Proceed
<1>23. ApproveEvent(p) => SettledBy(p)
  BY <1>20 DEF ApproveEvent, Proceed
<1>24. ASSUME Pause(p) PROVE SettledBy(p)
  <2>1. row'.status = "paused"
    BY <1>24, TypedFacts DEF Pause, WithResult, Row
  <2> QED
    BY <1>24, <2>1, Ends DEF Pause
<1>25. ASSUME CompleteExecution(p) \/ CancelExecution(p) \/ RejectStatus(p)
       PROVE  SettledBy(p)
  <2>1. row'.status \in {"completed", "cancelled", "rejected"}
    BY <1>25, TypedFacts DEF CompleteExecution, CancelExecution, RejectStatus, Row
  <2> QED
    BY <1>25, <2>1, Ends DEF CompleteExecution, CancelExecution, RejectStatus
<1>26. ~ (MoveSave(p) \/ MoveEvent(p) \/ MoveLoad(p))
  BY DEF NoMoves, MovePoints, MoveSave, MoveEvent, MoveLoad, Move
<1> QED
  BY <1>1, <1>2, <1>3, <1>4, <1>5, <1>6, <1>7, <1>8, <1>9, <1>10, <1>11, <1>12, <1>13, <1>14, <1>15, <1>16, <1>17, <1>21, <1>22, <1>23, <1>24, <1>25, <1>26 DEF Statement

LEMMA CallSettles ==
  ASSUME Typed, "transition" \notin surface, NEW p \in Reqs, Call(p)
  PROVE  SettledBy(p)
<1>1. ASSUME NEW kind, NEW m, NEW v, Accept(p, kind, m, v), m \notin MovePoints, m # "idle"
      PROVE  SettledBy(p)
  BY <1>1 DEF Typed, TypeOK, Accept, SettledBy
<1>2. \A tr \in wf.transitions : ~ ExecuteTransition(p, tr)
  BY DEF ExecuteTransition, Accept, MayCall
<1>3. ASSUME NEW type, TriggerWorkflow(p, type) PROVE SettledBy(p)
  BY <1>1, <1>3 DEF TriggerWorkflow, MovePoints
<1>4. ASSUME NEW t, NEW ok, CompleteTask(p, t, ok) PROVE SettledBy(p)
  BY <1>1, <1>4 DEF CompleteTask, MovePoints
<1>5. ASSUME NEW ok, HandleApproval(p, ok) PROVE SettledBy(p)
  BY <1>1, <1>5 DEF HandleApproval, MovePoints
<1> QED
  BY <1>2, <1>3, <1>4, <1>5 DEF Call

(* Whatever the workflows, and however many requests overlap, an execution with no
   request in flight is not RUNNING: every handler that returns has parked it, ended
   it, or been followed by one that will. *)
THEOREM SettledCorrect ==
  ASSUME MaxFails = 0, \A s \in Surfaces : "transition" \notin s
  PROVE  Spec => []IdleMeansSettled
<1> DEFINE Inv == Typed /\ NoMoves /\ IdleMeansSettled
<1>1. Init => Inv
  BY InitTyped DEF Init, NoMoves, MovePoints, IdleMeansSettled, NoRow
<1>2. Inv /\ [Next]_vars => Inv'
  <2> SUFFICES ASSUME Inv, [Next]_vars PROVE (NoMoves /\ IdleMeansSettled)'
    BY NextTyped
  <2>1. ASSUME NEW p \in Reqs, SettledBy(p) PROVE (NoMoves /\ IdleMeansSettled)'
    BY <2>1 DEF SettledBy, NoMoves, IdleMeansSettled, Idle
  <2>2. "transition" \notin surface
    BY DEF Typed, TypeOK
  <2>3. CASE UNCHANGED vars
    BY <2>3 DEF vars, NoMoves, IdleMeansSettled, Idle
  <2>4. ASSUME NEW p \in Reqs, Statement(p) PROVE SettledBy(p)
    BY <2>4, StatementSettles
  <2>5. ASSUME NEW p \in Reqs, Call(p) PROVE SettledBy(p)
    BY <2>2, <2>5, CallSettles
  <2>6. ASSUME NEW p \in Reqs, TaskMoveFails(p) \/ Fail(p) PROVE FALSE
    BY <2>6 DEF TaskMoveFails, Fail, Typed, TypeOK
  <2>7. ASSUME NEW t \in DOMAIN tasks, StartTask(t) \/ CancelTask(t)
        PROVE  (NoMoves /\ IdleMeansSettled)'
    BY <2>7 DEF StartTask, CancelTask, SetTask, NoMoves, IdleMeansSettled, Idle
  <2> QED
    BY <2>1, <2>3, <2>4, <2>5, <2>6, <2>7 DEF Next
<1> QED
  BY <1>1, <1>2, PTL DEF Spec
-----------------------------------------------------------------------------
(* KeepsLifecycle: for one client at a time that works through the task inbox, every
   statement of a handler is a step of ExecutionLifecycle or changes neither the
   status nor the open tasks.  The invariant says, for each control point, what the
   status and the open tasks are there. *)

InboxKinds == {"trigger", "complete_task", "complete_approval"}

RunPoints == {"trigger_event", "run_next", "complete", "order", "load_step",
              "automation_event", "read_results", "write_results", "save_task"}
DecidedPoints == {"task_move", "resume", "cancel", "reject_event", "reject_goto",
                  "reject_load", "reject_save", "reject_moved_event", "reject_status"}
OtherPoints == {"decision_event", "approve_save", "approve_event"} \cup MovePoints

Live == {"running", "paused"}

Stage(l, v, status, open) ==
  /\ l \in RunPoints => status = "running" /\ open = {}
  /\ l \in {"save_task", "pause"} => \E a \in HumanTypes : v.acts = <<a>>
  /\ l = "pause" => status = "running" /\ open = {v.task}
  /\ l \in {"resume_load", "close_task"} => status \in Live /\ open = {v.task}
  /\ l \in DecidedPoints => status \in Live /\ open = {}
  /\ l = "reject_save" => v.snap.status = status
  /\ l \notin OtherPoints

(* At any time at most one task is open, and only while the execution lives. *)
Calm(status, open) ==
  \/ open = {}
  \/ status \in Live /\ \E t \in open : open = {t}

Alone == \A p, q \in Reqs : pc[p] # "idle" /\ pc[q] # "idle" => p = q

LifeInv ==
  /\ Alone
  /\ Calm(row.status, Open)
  /\ \A p \in Reqs : Stage(pc[p], loc[p], row.status, Open)

LifeStep == [Lifecycle!Next]_(Lifecycle!vars)

LEMMA IdleStage ==
  ASSUME NEW v, NEW status, NEW open
  PROVE  Stage("idle", v, status, open)
BY DEF Stage, RunPoints, DecidedPoints, OtherPoints, MovePoints

LEMMA LifeMove ==
  ASSUME Typed, LifeInv, NEW p \in Reqs, NEW l, NEW m, NEW v, Move(p, l, m, v), l # "idle",
         Calm(row'.status, Open'), Stage(m, v, row'.status, Open')
  PROVE  LifeInv'
<1>1. /\ pc[p] = l /\ pc' = [pc EXCEPT ![p] = m]
      /\ loc' = [loc EXCEPT ![p] = IF m = "idle" THEN NoLocal ELSE v]
  BY DEF Move
<1>2. \A q \in Reqs \ {p} : pc'[q] = "idle"
  BY <1>1 DEF LifeInv, Alone, Typed, TypeOK
<1>3. Alone'
  BY <1>2 DEF Alone
<1>4. pc'[p] = m /\ (m # "idle" => loc'[p] = v)
  BY <1>1 DEF Typed, TypeOK
<1>5. \A q \in Reqs : Stage(pc'[q], loc'[q], row'.status, Open')
  BY <1>2, <1>4, IdleStage
<1> QED
  BY <1>3, <1>5 DEF LifeInv

LEMMA LifeAccept ==
  ASSUME Typed, LifeInv, Overlap = FALSE,
         NEW p \in Reqs, NEW kind, NEW m, NEW v, Accept(p, kind, m, v),
         Calm(row'.status, Open'), Stage(m, v, row'.status, Open')
  PROVE  LifeInv'
<1>1. Idle /\ pc' = [pc EXCEPT ![p] = m] /\ loc' = [loc EXCEPT ![p] = v]
  BY DEF Accept, MayCall
<1>2. \A q \in Reqs \ {p} : pc'[q] = "idle"
  BY <1>1 DEF Idle, Typed, TypeOK
<1>3. Alone'
  BY <1>2 DEF Alone
<1>4. pc'[p] = m /\ loc'[p] = v
  BY <1>1 DEF Typed, TypeOK
<1>5. \A q \in Reqs : Stage(pc'[q], loc'[q], row'.status, Open')
  BY <1>2, <1>4, IdleStage
<1> QED
  BY <1>3, <1>5 DEF LifeInv

LEMMA OpenKept == ASSUME UNCHANGED tasks PROVE Open' = Open
BY DEF Open

LEMMA LifeKept ==
  ASSUME row'.status = row.status, Open' = Open
  PROVE  LifeStep
BY DEF LifeStep, Lifecycle!vars

(* Statements of a running execution that ask for nothing. *)
LEMMA RunLife ==
  ASSUME Typed, LifeInv, NEW p \in Reqs,
         \/ TriggerEvent(p) \/ RunNextStep(p) \/ RunStepAt(p) \/ ExecuteStep(p)
         \/ AutomationEvent(p) \/ ReadResults(p) \/ WriteResults(p)
  PROVE  LifeInv' /\ LifeStep
<1>1. /\ pc[p] \in RunPoints /\ row'.status = row.status /\ UNCHANGED tasks
  BY TypedFacts DEF TriggerEvent, RunNextStep, RunStepAt, ExecuteStep, AutomationEvent,
     ReadResults, WriteResults, Proceed, Move, WithResult, Row, RunPoints
<1>2. row'.status = "running" /\ Open' = {} /\ Open = {}
  BY <1>1, OpenKept DEF LifeInv, Stage
<1>3. Calm(row'.status, Open') /\ LifeStep
  BY <1>1, <1>2, LifeKept DEF Calm
<1>4. ASSUME NEW l, NEW m \in RunPoints, NEW v, Move(p, l, m, v), l \in RunPoints,
             m = "save_task" => \E a \in HumanTypes : v.acts = <<a>>
      PROVE  LifeInv'
  <2>1. Stage(m, v, row'.status, Open')
    BY <1>2, <1>4 DEF Stage, RunPoints, DecidedPoints, OtherPoints, MovePoints
  <2>2. l # "idle"
    BY <1>4 DEF RunPoints
  <2> QED
    BY <1>3, <1>4, <2>1, <2>2, LifeMove
<1>5. \A d : PointFor(d) \in {"run_next", "order", "complete"}
  BY DEF PointFor
<1>6. CASE TriggerEvent(p)
  BY <1>3, <1>4, <1>6 DEF TriggerEvent, RunPoints
<1>7. CASE RunNextStep(p)
  BY <1>3, <1>4, <1>7 DEF RunNextStep, RunPoints
<1>8. CASE RunStepAt(p)
  BY <1>3, <1>4, <1>8 DEF RunStepAt, RunPoints
<1>9. CASE ExecuteStep(p)
  <2> DEFINE v == [loc[p] EXCEPT !.snap = row]
  <2>1. \A a : [v EXCEPT !.acts = <<a>>].acts = <<a>>
    BY TypedFacts DEF Local
  <2> HIDE DEF v
  <2> QED
    BY <1>3, <1>4, <1>9, <2>1 DEF ExecuteStep, RunPoints, v
<1>10. CASE AutomationEvent(p)
  BY <1>3, <1>4, <1>10 DEF AutomationEvent, RunPoints
<1>11. CASE ReadResults(p)
  BY <1>3, <1>4, <1>11 DEF ReadResults, RunPoints
<1>12. CASE WriteResults(p)
  BY <1>3, <1>4, <1>5, <1>12 DEF WriteResults, Proceed, RunPoints
<1> QED
  BY <1>6, <1>7, <1>8, <1>9, <1>10, <1>11, <1>12

(* Saving a task asks for a decision, pausing parks the execution on it. *)
LEMMA SaveTaskLife ==
  ASSUME Typed, LifeInv, NEW p \in Reqs, SaveTask(p)
  PROVE  LifeInv' /\ LifeStep
<1> DEFINE n == Len(tasks) + 1
           t == [step |-> loc[p].cur, type |-> Head(loc[p].acts), status |-> "open"]
           v == [loc[p] EXCEPT !.task = n]
<1>1. /\ pc[p] = "save_task" /\ Move(p, "save_task", "pause", v)
      /\ tasks' = Append(tasks, t) /\ UNCHANGED row
  BY DEF SaveTask, Move
<1>2. row.status = "running" /\ Open = {} /\ \E a \in HumanTypes : loc[p].acts = <<a>>
  BY <1>1 DEF LifeInv, Stage, RunPoints
<1>3. tasks \in Seq(Task) /\ loc[p] \in Local
  BY TypedFacts
<1>4. Open' = {n}
  <2>1. DOMAIN tasks' = 1..n /\ tasks'[n].status = "open"
        /\ \A i \in DOMAIN tasks : tasks'[i] = tasks[i]
    BY <1>1, <1>3
  <2>2. DOMAIN tasks = 1..(n - 1) /\ n \in Nat
    BY <1>3
  <2> QED
    BY <1>2, <2>1, <2>2 DEF Open
<1>5. v.task = n /\ v.acts = loc[p].acts
  BY <1>3 DEF Local
<1>6. Calm(row'.status, Open') /\ Stage("pause", v, row'.status, Open')
  <2> HIDE DEF v, n, t
  <2> QED
    BY <1>1, <1>2, <1>4, <1>5
       DEF Calm, Stage, Live, RunPoints, DecidedPoints, OtherPoints, MovePoints
<1>7. LifeInv'
  BY <1>1, <1>6, LifeMove
<1>8. Lifecycle!Ask
  <2> HIDE DEF n, t, v
  <2> QED
    BY <1>1, <1>2, <1>4 DEF Lifecycle!Ask
<1> QED
  BY <1>7, <1>8 DEF LifeStep, Lifecycle!Next

LEMMA PauseLife ==
  ASSUME Typed, LifeInv, NEW p \in Reqs, Pause(p)
  PROVE  LifeInv' /\ LifeStep
<1>1. pc[p] = "pause" /\ UNCHANGED tasks /\ row'.status = "paused"
  BY TypedFacts DEF Pause, Move, WithResult, Row
<1>2. row.status = "running" /\ Open = {loc[p].task} /\ \E a \in HumanTypes : loc[p].acts = <<a>>
  BY <1>1 DEF LifeInv, Stage
<1>3. Open' = Open
  BY <1>1, OpenKept
<1>4. Tail(loc[p].acts) = <<>>
  BY <1>2
<1>5. \E v : Move(p, "pause", "idle", v)
  BY <1>4 DEF Pause
<1>6. Calm(row'.status, Open')
  BY <1>1, <1>2, <1>3 DEF Calm, Live
<1>7. LifeInv'
  BY <1>5, <1>6, IdleStage, LifeMove
<1>8. Lifecycle!Park
  BY <1>1, <1>2, <1>3 DEF Lifecycle!Park
<1> QED
  BY <1>7, <1>8 DEF LifeStep, Lifecycle!Next

(* The execution ends with nothing left to decide. *)
LEMMA EndLife ==
  ASSUME Typed, LifeInv, NEW p \in Reqs,
         CompleteExecution(p) \/ CancelExecution(p) \/ RejectStatus(p)
  PROVE  LifeInv' /\ LifeStep
<1>1. /\ pc[p] \in {"complete", "cancel", "reject_status"} /\ UNCHANGED tasks
      /\ row'.status \in {"completed", "cancelled", "rejected"}
      /\ \E l : Move(p, l, "idle", NoLocal) /\ l # "idle"
  BY TypedFacts DEF CompleteExecution, CancelExecution, RejectStatus, Move, Row
<1>2. row.status \in Live /\ Open = {}
  BY <1>1 DEF LifeInv, Stage, RunPoints, DecidedPoints, Live
<1>3. Open' = {}
  BY <1>1, <1>2, OpenKept
<1>4. LifeInv'
  BY <1>1, <1>3, IdleStage, LifeMove DEF Calm
<1>5. Lifecycle!End
  BY <1>1, <1>2, <1>3 DEF Lifecycle!End, Lifecycle!Final, Live
<1> QED
  BY <1>4, <1>5 DEF LifeStep, Lifecycle!Next

(* The statements of a completion, up to the one that closes the task ... *)
LEMMA ResumeLoadLife ==
  ASSUME Typed, LifeInv, NEW p \in Reqs, ResumeLoad(p)
  PROVE  LifeInv' /\ LifeStep
<1> DEFINE v == [loc[p] EXCEPT !.snap = row]
<1>1. /\ pc[p] = "resume_load" /\ UNCHANGED <<row, tasks>>
      /\ Move(p, "resume_load", "close_task", v)
  BY DEF ResumeLoad, Move
<1>2. row'.status \in Live /\ Open = {loc[p].task} /\ Open' = Open
  BY <1>1, OpenKept DEF LifeInv, Stage
<1>3. v.task = loc[p].task
  BY TypedFacts DEF Local
<1> HIDE DEF v
<1>4. Calm(row'.status, Open') /\ Stage("close_task", v, row'.status, Open')
  BY <1>2, <1>3 DEF Calm, Stage, RunPoints, DecidedPoints, OtherPoints, MovePoints
<1>5. LifeInv'
  BY <1>1, <1>4, LifeMove
<1> QED
  BY <1>1, <1>2, <1>5, LifeKept

LEMMA DecidedStage ==
  ASSUME NEW m \in DecidedPoints \cup {"idle"}, NEW v, NEW status \in Live,
         m = "reject_save" => v.snap.status = status
  PROVE  Stage(m, v, status, {})
BY DEF Stage, RunPoints, DecidedPoints, OtherPoints, MovePoints

LEMMA CloseTaskLife ==
  ASSUME Typed, LifeInv, NEW p \in Reqs, CloseTask(p)
  PROVE  LifeInv' /\ LifeStep
<1> DEFINE t == loc[p].task
<1>1. /\ pc[p] = "close_task" /\ tasks' = [tasks EXCEPT ![t].status = "completed"]
      /\ UNCHANGED row
  BY DEF CloseTask
<1>2. row'.status \in Live /\ row.status \in Live /\ Open = {t}
  BY <1>1 DEF LifeInv, Stage
<1>3. Open' = {}
  <2>1. t \in DOMAIN tasks /\ tasks \in Seq(Task)
    BY <1>2, TypedFacts DEF Open
  <2>2. DOMAIN tasks' = DOMAIN tasks
    BY <1>1, <2>1
  <2>3. tasks'[t].status = "completed"
    <3>1. tasks[t] \in Task
      BY <2>1
    <3>2. tasks'[t] = [tasks[t] EXCEPT !.status = "completed"]
      BY <1>1, <2>1
    <3> QED
      BY <3>1, <3>2 DEF Task
  <2>4. \A i \in DOMAIN tasks \ {t} : tasks'[i] = tasks[i] /\ tasks[i].status # "open"
    BY <1>1, <1>2, <2>1 DEF Open
  <2> QED
    BY <2>2, <2>3, <2>4 DEF Open
<1>4. Calm(row'.status, Open')
  BY <1>3 DEF Calm
<1>5. \E m \in {"task_move", "reject_event", "cancel"} : \E v : Move(p, "close_task", m, v)
  BY DEF CloseTask
<1>6. LifeInv'
  <2>1. PICK m, v : m \in {"task_move", "reject_event", "cancel"} /\ Move(p, "close_task", m, v)
    BY <1>5
  <2>2. m \in DecidedPoints /\ m # "reject_save"
    BY <2>1 DEF DecidedPoints
  <2>3. Stage(m, v, row'.status, Open')
    BY <1>2, <1>3, <2>2, DecidedStage
  <2> QED
    BY <1>4, <2>1, <2>3, LifeMove
<1>7. Lifecycle!Decide
  BY <1>1, <1>2, <1>3 DEF Lifecycle!Decide, Live
<1> QED
  BY <1>6, <1>7 DEF LifeStep, Lifecycle!Next

(* ... and those after it, which leave the status alone ... *)
LEMMA DecidedLife ==
  ASSUME Typed, LifeInv, NEW p \in Reqs,
         \/ TaskMove(p) \/ RejectEvent(p) \/ RejectLoad(p) \/ RejectSave(p)
         \/ RejectMovedEvent(p)
  PROVE  LifeInv' /\ LifeStep
<1>1. pc[p] \in {"task_move", "reject_event", "reject_load", "reject_save",
                 "reject_moved_event"} /\ UNCHANGED tasks
  BY DEF TaskMove, RejectEvent, RejectLoad, RejectSave, RejectMovedEvent, Move
<1>2. row.status \in Live /\ Open = {} /\ Open' = {}
  BY <1>1, OpenKept DEF LifeInv, Stage, DecidedPoints
<1>3. row'.status = row.status
  <2>1. CASE TaskMove(p)
    BY <2>1, TypedFacts DEF TaskMove, Moved, Row
  <2>2. CASE RejectSave(p)
    <3>1. loc[p].snap.status = row.status
      BY <2>2 DEF RejectSave, Move, LifeInv, Stage
    <3> QED
      BY <2>2, <3>1, TypedFacts DEF RejectSave, Moved, Row
  <2>3. CASE RejectEvent(p) \/ RejectLoad(p) \/ RejectMovedEvent(p)
    BY <2>3 DEF RejectEvent, RejectLoad, RejectMovedEvent
  <2> QED
    BY <2>1, <2>2, <2>3
<1>4. \E l, m, v :
        /\ l \in DecidedPoints /\ m \in DecidedPoints
        /\ Move(p, l, m, v) /\ (m = "reject_save" => v.snap.status = row.status)
  <2>1. [loc[p] EXCEPT !.snap = row].snap.status = row.status
    BY TypedFacts DEF Local
  <2>2. CASE TaskMove(p)
    BY <2>2 DEF TaskMove, DecidedPoints
  <2>3. CASE RejectEvent(p)
    BY <2>3 DEF RejectEvent, DecidedPoints
  <2>4. CASE RejectLoad(p)
    BY <2>1, <2>4 DEF RejectLoad, DecidedPoints
  <2>5. CASE RejectSave(p)
    BY <2>5 DEF RejectSave, DecidedPoints
  <2>6. CASE RejectMovedEvent(p)
    BY <2>6 DEF RejectMovedEvent, DecidedPoints
  <2> QED
    BY <2>2, <2>3, <2>4, <2>5, <2>6
<1>5. PICK l, m, v :
        /\ l \in DecidedPoints /\ m \in DecidedPoints
        /\ Move(p, l, m, v) /\ (m = "reject_save" => v.snap.status = row.status)
  BY <1>4
<1>6. Stage(m, v, row'.status, Open') /\ l # "idle"
  BY <1>2, <1>3, <1>5, DecidedStage DEF DecidedPoints
<1>7. LifeInv'
  BY <1>2, <1>5, <1>6, LifeMove DEF Calm
<1> QED
  BY <1>2, <1>3, <1>7, LifeKept

(* ... until the execution goes on. *)
LEMMA GoOnLife ==
  ASSUME Typed, LifeInv, NEW p \in Reqs, Resume(p) \/ RejectGoto(p)
  PROVE  LifeInv' /\ LifeStep
<1>1. /\ pc[p] \in {"resume", "reject_goto"} /\ UNCHANGED tasks /\ row'.status = "running"
      /\ \E l, m, v : /\ l \in {"resume", "reject_goto"}
                       /\ m \in {"run_next", "order", "complete"} /\ Move(p, l, m, v)
  BY TypedFacts DEF Resume, RejectGoto, Proceed, PointFor, Move, WithResult, Row
<1>2. row.status \in Live /\ Open = {} /\ Open' = {}
  BY <1>1, OpenKept DEF LifeInv, Stage, DecidedPoints
<1>3. PICK l, m, v : /\ l \in {"resume", "reject_goto"}
                      /\ m \in {"run_next", "order", "complete"} /\ Move(p, l, m, v)
  BY <1>1
<1>4. Calm(row'.status, Open') /\ Stage(m, v, row'.status, Open')
  BY <1>1, <1>2, <1>3 DEF Calm, Stage, RunPoints, DecidedPoints, OtherPoints, MovePoints
<1>5. LifeInv'
  BY <1>3, <1>4, LifeMove
<1>6. CASE row.status = "running"
  BY <1>1, <1>2, <1>5, <1>6, LifeKept
<1>7. CASE row.status = "paused"
  BY <1>1, <1>2, <1>5, <1>7 DEF LifeStep, Lifecycle!Next, Lifecycle!GoOn
<1> QED
  BY <1>2, <1>6, <1>7 DEF Live

(* A request that dies leaves the execution where it is. *)
LEMMA FailLife ==
  ASSUME Typed, LifeInv, NEW p \in Reqs, TaskMoveFails(p) \/ Fail(p)
  PROVE  LifeInv' /\ LifeStep
<1>1. UNCHANGED <<row, tasks>>
  BY DEF TaskMoveFails, Fail
<1>2. row'.status = row.status /\ Open' = Open
  BY <1>1, OpenKept
<1>3. CASE TaskMoveFails(p)
  <2>1. pc[p] = "task_move" /\ pc' = [pc EXCEPT ![p] = "resume"] /\ loc' = loc
    BY <1>3 DEF TaskMoveFails
  <2>2. row.status \in Live /\ Open = {}
    BY <2>1 DEF LifeInv, Stage, DecidedPoints
  <2>3. Alone'
    BY <2>1 DEF LifeInv, Alone, Typed, TypeOK
  <2>4. "resume" \in DecidedPoints
    BY DEF DecidedPoints
  <2>5. \A q \in Reqs : Stage(pc'[q], loc'[q], row'.status, Open')
    BY <1>2, <2>1, <2>2, <2>4, DecidedStage DEF LifeInv, Typed, TypeOK
  <2> QED
    BY <1>2, <2>3, <2>5, LifeKept DEF LifeInv
<1>4. CASE Fail(p)
  <2>1. pc' = [pc EXCEPT ![p] = "idle"] /\ loc' = [loc EXCEPT ![p] = NoLocal]
    BY <1>4 DEF Fail
  <2>2. Alone'
    BY <2>1 DEF LifeInv, Alone, Typed, TypeOK
  <2>3. \A q \in Reqs : Stage(pc'[q], loc'[q], row'.status, Open')
    BY <1>2, <2>1, IdleStage DEF LifeInv, Typed, TypeOK
  <2> QED
    BY <1>2, <2>2, <2>3, LifeKept DEF LifeInv
<1> QED
  BY <1>3, <1>4

LEMMA CallLife ==
  ASSUME Typed, LifeInv, Overlap = FALSE, surface \subseteq InboxKinds,
         NEW p \in Reqs, Call(p)
  PROVE  LifeInv' /\ LifeStep
<1>1. ASSUME NEW type, TriggerWorkflow(p, type) PROVE LifeInv' /\ LifeStep
  <2>1. row.status = "none" /\ row'.status = "running" /\ UNCHANGED tasks
        /\ Accept(p, "trigger", "trigger_event", NoLocal)
    BY <1>1 DEF TriggerWorkflow, NoRow
  <2>2. Open = {} /\ Open' = {}
    BY <2>1, OpenKept DEF LifeInv, Calm, Live
  <2>3. Calm(row'.status, Open') /\ Stage("trigger_event", NoLocal, row'.status, Open')
    BY <2>1, <2>2 DEF Calm, Stage, RunPoints, DecidedPoints, OtherPoints, MovePoints
  <2>4. Lifecycle!Start
    BY <2>1, <2>2 DEF Lifecycle!Start
  <2> QED
    BY <2>1, <2>3, <2>4, LifeAccept DEF LifeStep, Lifecycle!Next
<1>2. ASSUME NEW t \in DOMAIN tasks, NEW ok, CompleteTask(p, t, ok)
      PROVE  LifeInv' /\ LifeStep
  <2> DEFINE v == [NoLocal EXCEPT !.task = t, !.ok = ok]
  <2>1. t \in Open /\ UNCHANGED <<row, tasks>>
        /\ \E kind : Accept(p, kind, "resume_load", v)
    BY <1>2 DEF CompleteTask, Open
  <2>2. row'.status = row.status /\ row.status \in Live /\ Open = {t} /\ Open' = Open
    BY <2>1, OpenKept DEF LifeInv, Calm
  <2>3. v.task = t
    BY DEF NoLocal
  <2> HIDE DEF v
  <2>4. Calm(row'.status, Open') /\ Stage("resume_load", v, row'.status, Open')
    BY <2>2, <2>3 DEF Calm, Stage, RunPoints, DecidedPoints, OtherPoints, MovePoints
  <2> QED
    BY <2>1, <2>2, <2>4, LifeAccept, LifeKept
<1>3. ASSUME NEW ok, HandleApproval(p, ok) PROVE FALSE
  BY <1>3 DEF HandleApproval, Accept, MayCall, InboxKinds
<1>4. ASSUME NEW tr, ExecuteTransition(p, tr) PROVE FALSE
  BY <1>4 DEF ExecuteTransition, Accept, MayCall, InboxKinds
<1> QED
  BY <1>1, <1>2, <1>3, <1>4 DEF Call

LEMMA NextLife ==
  ASSUME Typed, LifeInv, Overlap = FALSE, surface \subseteq InboxKinds, [Next]_vars
  PROVE  LifeInv' /\ LifeStep
<1>1. CASE UNCHANGED vars
  BY <1>1, OpenKept, LifeKept DEF vars, LifeInv, Alone
<1>2. ASSUME NEW p \in Reqs, Statement(p) PROVE LifeInv' /\ LifeStep
  <2>1. ~ (DecisionEvent(p) \/ ApproveSave(p) \/ ApproveEvent(p) \/ MoveSave(p)
           \/ MoveEvent(p) \/ MoveLoad(p))
    BY DEF LifeInv, Stage, OtherPoints, MovePoints, DecisionEvent, ApproveSave,
       ApproveEvent, Proceed, MoveSave, MoveEvent, MoveLoad, Move
  <2> QED
    BY <1>2, <2>1, RunLife, SaveTaskLife, PauseLife, EndLife, ResumeLoadLife,
       CloseTaskLife, DecidedLife, GoOnLife DEF Statement
<1>3. ASSUME NEW t \in DOMAIN tasks, StartTask(t) \/ CancelTask(t) PROVE FALSE
  BY <1>3 DEF StartTask, CancelTask, SetTask, MayCall, InboxKinds
<1> QED
  BY <1>1, <1>2, <1>3, CallLife, FailLife DEF Next

(* Refinement: whatever the workflow and wherever requests die, an execution whose
   clients use the task inbox one request at a time behaves as ExecutionLifecycle says:
   one decision at a time, no advance before it, nothing left open at the end. *)
THEOREM LifecycleKept ==
  ASSUME Overlap = FALSE, \A s \in Surfaces : s \subseteq InboxKinds
  PROVE  Spec => KeepsLifecycle
<1>1. Init => LifeInv /\ Lifecycle!Init
  <2> SUFFICES ASSUME Init PROVE LifeInv /\ Lifecycle!Init
    OBVIOUS
  <2>1. Open = {} /\ row.status = "none"
    BY DEF Init, Open, NoRow
  <2>2. Alone /\ \A p \in Reqs : Stage(pc[p], loc[p], row.status, Open)
    BY IdleStage DEF Init, Alone
  <2> QED
    BY <2>1, <2>2 DEF LifeInv, Calm, Lifecycle!Init
<1>2. Typed /\ LifeInv /\ [Next]_vars => LifeInv' /\ [Lifecycle!Next]_(Lifecycle!vars)
  <2>1. Typed => surface \subseteq InboxKinds
    BY DEF Typed, TypeOK
  <2> QED
    BY <2>1, NextLife DEF LifeStep
<1> QED
  BY <1>1, <1>2, InitTyped, NextTyped, PTL DEF Spec, KeepsLifecycle, Lifecycle!Spec
=============================================================================
