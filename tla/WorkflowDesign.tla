--------------------------- MODULE WorkflowDesign ---------------------------
(***************************************************************************)
(* Designing workflows: workflows.service.ts.  Workflows with their states,*)
(* transitions, steps and executions, edited by requests that interleave   *)
(* between statements, and deployed from templates: a deployment that fails*)
(* after it created its workflow removes it again.                         *)
(***************************************************************************)
EXTENDS Naturals, Sequences, FiniteSets

CONSTANTS
  Workflows, StateIds, TransitionIds, StepIds, Executions, Requests, Null,
  Keys,        \* state keys
  Templates,   \* the templates clients deploy
  RoleNames, Slugs,
  InitialTables, InitialRoles,
  MaxWorkflows, \* plan limit
  MaxRequests

VARIABLES
  wf, state, transition, step, execution,  \* the tables
  entities,  \* slugs of the entity definitions
  roles,     \* how many roles have each name, active (TRUE) and deactivated
  pc, loc, started,
  touched,   \* history: workflows another request than their deployment edited
  answered,  \* history: deployments that were answered with their workflow
  abandoned, \* history: deployments whose process or whose clean-up failed
  raced      \* history: role names given while another request was giving them
             \* or, by an administrator, while an active role had them

tables == <<wf, state, transition, step, execution, entities, roles>>
requests == <<pc, loc, started>>
history == <<touched, answered, abandoned, raced>>
vars == <<tables, requests, history>>
-----------------------------------------------------------------------------
Template == [states: Seq(Keys), transitions: Seq(Keys \X Keys), steps: Nat,
             roles: SUBSET RoleNames, slugs: SUBSET Slugs, activate: BOOLEAN]
EmptyTemplate == [states |-> <<>>, transitions |-> <<>>, steps |-> 0, roles |-> {},
                  slugs |-> {}, activate |-> FALSE]

ASSUME DesignAssumption ==
  /\ Null \notin Workflows \cup StateIds \cup TransitionIds \cup StepIds \cup Executions
  /\ Templates \subseteq Template
  /\ IsFiniteSet(Workflows) /\ IsFiniteSet(StepIds)
  /\ MaxWorkflows \in Nat /\ MaxRequests \in Nat

WorkflowStatuses == {"free", "draft", "active", "paused", "gone"}
(* late and copied are history: created although another creation came after
   its count, created by duplicate; template: what it is deployed from. *)
Workflow == [status: WorkflowStatuses, late: BOOLEAN, copied: BOOLEAN,
             template: Templates \cup {EmptyTemplate}]
StateRow == [wf: Workflows \cup {Null}, key: Keys \cup {Null}, used: BOOLEAN]
TransitionRow == [wf: Workflows \cup {Null}, from: StateIds \cup {Null},
                  to: StateIds \cup {Null}, moved: BOOLEAN, used: BOOLEAN]
ChildRow == [wf: Workflows \cup {Null}, used: BOOLEAN]
ExecutionRow == [wf: Workflows \cup {Null}, logged: BOOLEAN, used: BOOLEAN]

NoWorkflow == [status |-> "free", late |-> FALSE, copied |-> FALSE,
               template |-> EmptyTemplate]
NoState == [wf |-> Null, key |-> Null, used |-> FALSE]
NoTransition == [wf |-> Null, from |-> Null, to |-> Null, moved |-> FALSE, used |-> FALSE]
NoChild == [wf |-> Null, used |-> FALSE]
NoExecution == [wf |-> Null, logged |-> FALSE, used |-> FALSE]

(* The tables at the start: workflows within the plan, with rows that the API
   could have stored. *)
ASSUME TablesAssumption ==
  \A t \in InitialTables :
    LET live == {w \in Workflows : t[1][w].status \in {"draft", "active", "paused"}} IN
    /\ t[1] \in [Workflows -> Workflow] /\ t[2] \in [StateIds -> StateRow]
    /\ t[3] \in [TransitionIds -> TransitionRow] /\ t[4] \in [StepIds -> ChildRow]
    /\ \A w \in live : t[1][w].template = EmptyTemplate
    /\ Cardinality({w \in live : ~t[1][w].late /\ ~t[1][w].copied}) <= MaxWorkflows
    /\ \A i \in StateIds : t[2][i].wf # Null =>
         /\ t[2][i].used /\ t[2][i].wf \in live
         /\ \A j \in StateIds :
              t[2][j].wf = t[2][i].wf /\ t[2][j].key = t[2][i].key => j = i
    /\ \A i \in TransitionIds :
         \/ t[3][i].wf = Null /\ t[3][i].from = Null /\ t[3][i].to = Null
         \/ /\ t[3][i].used /\ t[3][i].wf \in live
            /\ \A j \in {t[3][i].from, t[3][i].to} : j # Null /\ t[2][j].wf = t[3][i].wf
    /\ \A i \in StepIds : t[4][i].wf # Null => t[4][i].used /\ t[4][i].wf \in live

ASSUME RolesAssumption == InitialRoles \subseteq [RoleNames \X BOOLEAN -> 0..1]

Kinds == {"none", "deploy", "create", "duplicate", "activate", "pause", "update", "remove",
          "add_state", "change_state", "drop_state", "add_transition",
          "move_transition", "drop_transition", "add_step", "drop_step", "trigger"}
Points == {"idle", "entities", "entity_insert", "validate", "count", "insert", "state",
           "state_insert", "roles", "role_insert", "transition", "transition_insert",
           "step", "step_insert", "status", "answer", "list", "commit", "change",
           "cut", "drop", "move", "cut_transition", "cut_step", "execute", "event"}
Local == [kind: Kinds, w: Workflows \cup {Null}, template: Templates \cup {EmptyTemplate},
          states: Seq(Keys), transitions: Seq(Keys \X Keys), steps: Nat,
          roles: SUBSET RoleNames, slugs: SUBSET Slugs,
          id: StateIds \cup TransitionIds \cup StepIds \cup Executions \cup {Null},
          to: StateIds \cup {Null}, key: Keys \cup Slugs \cup {Null}, listed: SUBSET Executions,
          ids: [Keys -> StateIds \cup {Null}], late: BOOLEAN]
NoLocal == [kind |-> "none", w |-> Null, template |-> EmptyTemplate, states |-> <<>>,
            transitions |-> <<>>, steps |-> 0, roles |-> {}, slugs |-> {}, id |-> Null,
            to |-> Null, key |-> Null, listed |-> {},
            ids |-> [k \in Keys |-> Null], late |-> FALSE]

TypeOK ==
  /\ wf \in [Workflows -> Workflow] /\ state \in [StateIds -> StateRow]
  /\ transition \in [TransitionIds -> TransitionRow] /\ step \in [StepIds -> ChildRow]
  /\ execution \in [Executions -> ExecutionRow]
  /\ entities \subseteq Slugs /\ roles \in [RoleNames \X BOOLEAN -> Nat]
  /\ pc \in [Requests -> Points] /\ DOMAIN loc = Requests
  /\ \A p \in Requests :
       /\ loc[p].kind \in Kinds /\ loc[p].w \in Workflows \cup {Null}
       /\ loc[p].listed \subseteq Executions /\ loc[p].steps \in Nat
  /\ started \in 0..MaxRequests
  /\ touched \subseteq Workflows /\ answered \subseteq Workflows
  /\ abandoned \subseteq Workflows /\ raced \subseteq RoleNames

Init ==
  /\ \E t \in InitialTables : wf = t[1] /\ state = t[2] /\ transition = t[3] /\ step = t[4]
  /\ execution = [x \in Executions |-> NoExecution]
  /\ entities = {} /\ roles \in InitialRoles
  /\ pc = [p \in Requests |-> "idle"] /\ loc = [p \in Requests |-> NoLocal]
  /\ started = 0 /\ touched = {} /\ answered = {}
  /\ abandoned = {} /\ raced = {}
-----------------------------------------------------------------------------
Live(w) == wf[w].status \in {"draft", "active", "paused"}
LiveWorkflows == {w \in Workflows : Live(w)}
NextWorkflow == LET free == {w \in Workflows : wf[w].status = "free"}
                IN IF free = {} THEN {} ELSE {CHOOSE w \in free : TRUE}
RowsOf(table, w) == {i \in DOMAIN table : table[i].wf = w}
(* The id the database gives the next row: one never used before. *)
NextId(table) == LET free == {i \in DOMAIN table : ~table[i].used}
                 IN IF free = {} THEN {} ELSE {CHOOSE i \in free : TRUE}

Goto(p, point) == pc' = [pc EXCEPT ![p] = point] /\ UNCHANGED started
Keep(p, l) == loc' = [loc EXCEPT ![p] = l]
End(p) == Goto(p, "idle") /\ Keep(p, NoLocal)
Arrive(p, l, point) ==
  /\ pc[p] = "idle" /\ started < MaxRequests /\ started' = started + 1
  /\ pc' = [pc EXCEPT ![p] = point] /\ Keep(p, l)
  /\ UNCHANGED <<tables, history>>
RaiseOnly(p) == End(p)  \* slip: a failed deployment is not rolled back
(* An error: a deployment that has created its workflow removes it again. *)
Raise(p) ==
  IF loc[p].kind = "deploy" /\ loc[p].w # Null /\ pc[p] \notin {"list", "commit"}
  THEN Goto(p, "list") /\ UNCHANGED loc
  ELSE End(p)
Touch(p, w) == touched' = IF loc[p].kind = "deploy" THEN touched ELSE touched \cup {w}
Only(changed) == /\ UNCHANGED <<execution, entities, roles, answered, abandoned, raced>>
                 /\ "wf" \in changed \/ UNCHANGED wf
                 /\ "state" \in changed \/ UNCHANGED state
                 /\ "transition" \in changed \/ UNCHANGED transition
                 /\ "step" \in changed \/ UNCHANGED step
                 /\ "touched" \in changed \/ UNCHANGED touched
-----------------------------------------------------------------------------
(* A deployment links entity definitions, then, like any create, counts the
   workflows, asks for the limit and inserts; the API's create names no entity. *)
BeginDeploy(p) ==
  \E t \in Templates :
    Arrive(p, [NoLocal EXCEPT !.kind = "deploy", !.template = t, !.states = t.states,
                 !.transitions = t.transitions, !.steps = t.steps, !.roles = t.roles,
                 !.slugs = t.slugs], "entities")
BeginNew(p) == Arrive(p, [NoLocal EXCEPT !.kind = "create"], "count")
(* duplicate copies neither steps nor states and asks for no limit. *)
BeginDuplicate(p) ==
  LiveWorkflows # {} /\ Arrive(p, [NoLocal EXCEPT !.kind = "duplicate"], "insert")

(* ensureTemplateEntities, slug by slug, then resolveEntityAssignments: a missing
   definition is created.  When another request created it in between, either
   EntitiesService.create says that it already exists, and it is linked, or the
   unique index refuses it, which is an error. *)
FindEntity(p) ==
  /\ pc[p] = "entities"
  /\ \/ /\ loc[p].slugs = {}
        /\ Keep(p, [loc[p] EXCEPT !.slugs = loc[p].template.slugs \cap entities])
        /\ Goto(p, "validate")
     \/ \E s \in loc[p].slugs :
          /\ Keep(p, [loc[p] EXCEPT !.slugs = @ \ {s}, !.key = s])
          /\ Goto(p, IF s \in entities THEN "entities" ELSE "entity_insert")
  /\ UNCHANGED <<tables, history>>
InsertEntity(p) ==
  /\ pc[p] = "entity_insert"
  /\ \/ Goto(p, "entities") /\ UNCHANGED loc /\ entities' = entities \cup {loc[p].key}
     \/ loc[p].key \in entities /\ Raise(p) /\ UNCHANGED entities
  /\ UNCHANGED <<wf, state, transition, step, execution, roles, history>>
ValidateAssignments(p) ==
  /\ pc[p] = "validate"
  /\ IF loc[p].slugs \subseteq entities
     THEN Goto(p, "count") /\ UNCHANGED loc
     ELSE Raise(p)
  /\ UNCHANGED <<tables, history>>

CountWorkflowsInclusive(p) ==  \* slip: the limit itself still passes
  /\ pc[p] = "count"
  /\ IF Cardinality(LiveWorkflows) > MaxWorkflows
     THEN Raise(p)
     ELSE Goto(p, "insert") /\ UNCHANGED loc
  /\ UNCHANGED <<tables, history>>
CountWorkflows(p) ==
  /\ pc[p] = "count"
  /\ IF Cardinality(LiveWorkflows) >= MaxWorkflows
     THEN Raise(p)
     ELSE Goto(p, "insert") /\ UNCHANGED loc
  /\ UNCHANGED <<tables, history>>
InsertWorkflow(p) ==
  /\ pc[p] = "insert"
  /\ \E w \in NextWorkflow, s \in {"draft", "active"} :
       /\ s = "draft" \/ loc[p].kind = "create"  \* the body of a create may hold a status
       /\ wf' = [wf EXCEPT ![w] =
            [status |-> s, late |-> loc[p].late, copied |-> loc[p].kind = "duplicate",
             template |-> loc[p].template]]
       /\ loc' = [q \in Requests |->
            IF q # p THEN [loc[q] EXCEPT !.late = @ \/ pc[q] = "insert"]
            ELSE IF loc[p].kind = "deploy" THEN [loc[p] EXCEPT !.w = w] ELSE NoLocal]
  /\ Goto(p, IF loc[p].kind = "deploy" THEN "state" ELSE "idle")
  /\ Only({"wf"})
-----------------------------------------------------------------------------
(* createState, for the states of a template one by one or for the API: the
   workflow and a state with the key are looked up, then the row is inserted
   under the unique key and the foreign key of the schema. *)
NextKey(p) == IF loc[p].kind = "deploy" THEN Head(loc[p].states) ELSE loc[p].key
HasKey(w, k) == \E i \in RowsOf(state, w) : state[i].key = k
CheckState(p) ==
  /\ pc[p] = "state"
  /\ IF loc[p].kind = "deploy" /\ loc[p].states = <<>>
     THEN Goto(p, "roles") /\ UNCHANGED loc
     ELSE IF Live(loc[p].w) /\ ~HasKey(loc[p].w, NextKey(p))
          THEN Goto(p, "state_insert") /\ UNCHANGED loc
          ELSE Raise(p)
  /\ UNCHANGED <<tables, history>>
KeyTrusted(w, k, i) == TRUE  \* slip: no unique key over workflow and key
(* @Unique(workflowId, key); i is the row that may keep the key. *)
KeyFree(w, k, i) == \A j \in RowsOf(state, w) \ {i} : state[j].key # k
InsertState(p) ==
  /\ pc[p] = "state_insert"
  /\ IF Live(loc[p].w) /\ KeyFree(loc[p].w, NextKey(p), Null)
     THEN \E i \in NextId(state) :
            /\ state' = [state EXCEPT ![i] = [wf |-> loc[p].w, key |-> NextKey(p), used |-> TRUE]]
            /\ Touch(p, loc[p].w)
            /\ IF loc[p].kind = "deploy"
               THEN /\ Keep(p, [loc[p] EXCEPT !.states = Tail(@), !.ids[NextKey(p)] = i])
                    /\ Goto(p, "state")
               ELSE End(p)
     ELSE Raise(p) /\ UNCHANGED <<state, touched>>
  /\ Only({"state", "touched"})

Active(n) == roles[<<n, TRUE>>]
Seeding(q, n) == pc[q] = "role_insert" /\ n \in loc[q].roles
ReadRolesNot(p) ==  \* slip: the roles the tenant has are not looked up
  pc[p] = "roles" /\ Goto(p, "role_insert") /\ UNCHANGED <<loc, tables, history>>
(* buildRoleNameMap: the active roles are read once, the missing ones inserted;
   a deactivated role does not count. *)
ReadRoles(p) ==
  /\ pc[p] = "roles"
  /\ Keep(p, [loc[p] EXCEPT !.roles = {n \in @ : Active(n) = 0}])
  /\ Goto(p, "role_insert") /\ UNCHANGED <<tables, history>>
InsertRole(p) ==
  /\ pc[p] = "role_insert"
  /\ \/ /\ loc[p].roles = {}
        /\ Goto(p, "transition") /\ UNCHANGED <<loc, roles, raced>>
     \/ \E n \in loc[p].roles :
          /\ roles' = [roles EXCEPT ![<<n, TRUE>>] = @ + 1]
          /\ raced' = raced \cup {m \in {n} : \E q \in Requests \ {p} : Seeding(q, m)}
          /\ Keep(p, [loc[p] EXCEPT !.roles = @ \ {n}]) /\ Goto(p, "role_insert")
  /\ UNCHANGED <<wf, state, transition, step, execution, entities, touched, answered, abandoned>>

(* createTransition: a template names states by key, resolved to the ids of the
   states the deployment inserted; a key without one is an error. *)
Ends(p) == IF loc[p].kind = "deploy"
           THEN LET t == Head(loc[p].transitions) IN <<loc[p].ids[t[1]], loc[p].ids[t[2]]>>
           ELSE <<loc[p].id, loc[p].to>>
CheckTransitionLeniently(p) ==  \* slip: a transition with an unknown state is skipped
  /\ pc[p] = "transition"
  /\ IF loc[p].kind = "deploy" /\ loc[p].transitions = <<>>
     THEN Goto(p, "step") /\ UNCHANGED loc
     ELSE IF Live(loc[p].w) /\ {Ends(p)[1], Ends(p)[2]} \subseteq RowsOf(state, loc[p].w)
          THEN Goto(p, "transition_insert") /\ UNCHANGED loc
          ELSE IF loc[p].kind = "deploy"
               THEN Goto(p, "transition") /\ Keep(p, [loc[p] EXCEPT !.transitions = Tail(@)])
               ELSE Raise(p)
  /\ UNCHANGED <<tables, history>>
CheckTransition(p) ==
  /\ pc[p] = "transition"
  /\ IF loc[p].kind = "deploy" /\ loc[p].transitions = <<>>
     THEN Goto(p, "step") /\ UNCHANGED loc
     ELSE IF Live(loc[p].w) /\ {Ends(p)[1], Ends(p)[2]} \subseteq RowsOf(state, loc[p].w)
          THEN Goto(p, "transition_insert") /\ UNCHANGED loc
          ELSE Raise(p)
  /\ UNCHANGED <<tables, history>>
StatesUnchecked(i, j) == TRUE  \* slip: transitions without foreign keys to states
(* The foreign keys from transitions to states. *)
StatesExist(i, j) == state[i].wf # Null /\ state[j].wf # Null
InsertTransition(p) ==
  /\ pc[p] = "transition_insert"
  /\ IF Live(loc[p].w) /\ StatesExist(Ends(p)[1], Ends(p)[2])
     THEN /\ \E i \in NextId(transition) :
               transition' = [transition EXCEPT ![i] =
                 [wf |-> loc[p].w, from |-> Ends(p)[1], to |-> Ends(p)[2],
                  moved |-> FALSE, used |-> TRUE]]
          /\ Touch(p, loc[p].w)
          /\ IF loc[p].kind = "deploy"
             THEN Goto(p, "transition") /\ Keep(p, [loc[p] EXCEPT !.transitions = Tail(@)])
             ELSE End(p)
     ELSE Raise(p) /\ UNCHANGED <<transition, touched>>
  /\ Only({"transition", "touched"})

CheckStepOffByOne(p) ==  \* slip: the steps are counted to the last one and not past it
  /\ pc[p] = "step"
  /\ IF Live(loc[p].w) THEN Goto(p, "step_insert") /\ UNCHANGED loc ELSE Raise(p)
  /\ UNCHANGED <<tables, history>>
(* addStep: findOne, then the insert under the foreign key. *)
CheckStep(p) ==
  /\ pc[p] = "step"
  /\ IF loc[p].kind = "deploy" /\ loc[p].steps = 0
     THEN Goto(p, IF loc[p].template.activate THEN "status" ELSE "answer") /\ UNCHANGED loc
     ELSE IF Live(loc[p].w) THEN Goto(p, "step_insert") /\ UNCHANGED loc ELSE Raise(p)
  /\ UNCHANGED <<tables, history>>
InsertStep(p) ==
  /\ pc[p] = "step_insert"
  /\ IF Live(loc[p].w)
     THEN /\ \E i \in NextId(step) : step' = [step EXCEPT ![i] = [wf |-> loc[p].w, used |-> TRUE]]
          /\ Touch(p, loc[p].w)
          /\ IF loc[p].kind = "deploy"
             THEN Goto(p, "step") /\ Keep(p, [loc[p] EXCEPT !.steps = @ - 1])
             ELSE End(p)
     ELSE Raise(p) /\ UNCHANGED <<step, touched>>
  /\ Only({"step", "touched"})

(* activate, deactivate and the status of an update look at no status; startWorkflow
   is activate for a workflow that is active.  The update of a row that is gone
   changes nothing and the re-read answers 404. *)
SetStatus(p) ==
  /\ pc[p] = "status"
  /\ wf' = IF Live(loc[p].w)
           THEN [wf EXCEPT ![loc[p].w].status =
                  CASE loc[p].kind = "pause" -> "paused"
                    [] loc[p].kind = "update" -> "draft"
                    [] OTHER -> "active"]
           ELSE wf
  /\ Touch(p, loc[p].w) /\ Goto(p, "answer") /\ UNCHANGED loc
  /\ Only({"wf", "touched"})
Answer(p) ==
  /\ pc[p] = "answer"
  /\ IF Live(loc[p].w) THEN End(p) ELSE Raise(p)
  /\ answered' = IF Live(loc[p].w) /\ loc[p].kind = "deploy"
                 THEN answered \cup {loc[p].w} ELSE answered
  /\ UNCHANGED <<tables, touched, abandoned, raced>>
-----------------------------------------------------------------------------
(* The editor's requests arrive; each loads the row it is about. *)
BeginStatus(p) ==
  \E w \in LiveWorkflows, k \in {"activate", "pause", "update"} :
    Arrive(p, [NoLocal EXCEPT !.kind = k, !.w = w], "status")
BeginAdd(p) ==
  \E w \in LiveWorkflows :
    \/ \E k \in Keys : Arrive(p, [NoLocal EXCEPT !.kind = "add_state", !.w = w, !.key = k], "state")
    \/ \E i, j \in RowsOf(state, w) :
         Arrive(p, [NoLocal EXCEPT !.kind = "add_transition", !.w = w, !.id = i, !.to = j],
                "transition")
    \/ Arrive(p, [NoLocal EXCEPT !.kind = "add_step", !.w = w], "step")
BeginEdit(p) ==
  \/ \E i \in StateIds, k \in Keys :
       /\ state[i].wf # Null
       /\ \/ Arrive(p, [NoLocal EXCEPT !.kind = "change_state", !.w = state[i].wf, !.id = i,
                                       !.key = k], "change")
          \/ Arrive(p, [NoLocal EXCEPT !.kind = "drop_state", !.w = state[i].wf, !.id = i], "cut")
  \/ \E t \in TransitionIds, i \in StateIds :
       /\ transition[t].wf # Null /\ state[i].wf # Null
       /\ \/ Arrive(p, [NoLocal EXCEPT !.kind = "move_transition", !.w = transition[t].wf,
                                       !.id = t, !.to = i], "move")
          \/ Arrive(p, [NoLocal EXCEPT !.kind = "drop_transition", !.w = transition[t].wf,
                                       !.id = t], "cut_transition")
  \/ \E i \in StepIds :
       /\ step[i].wf # Null
       /\ Arrive(p, [NoLocal EXCEPT !.kind = "drop_step", !.w = step[i].wf, !.id = i], "cut_step")

(* updateState saves the copy it loaded: a row deleted in between is inserted
   again under its old id. *)
ChangeState(p) ==
  /\ pc[p] = "change"
  /\ IF Live(loc[p].w) /\ KeyFree(loc[p].w, loc[p].key, loc[p].id)
     THEN state' = [state EXCEPT ![loc[p].id] = [wf |-> loc[p].w, key |-> loc[p].key, used |-> TRUE]]
     ELSE UNCHANGED state
  /\ Touch(p, loc[p].w) /\ End(p) /\ Only({"state", "touched"})
(* deleteState: its transitions in one statement, itself in the next. *)
UsesState(t, i) == i \in {transition[t].from, transition[t].to}
CutTransitions(p) ==
  /\ pc[p] = "cut"
  /\ transition' = [t \in TransitionIds |->
       IF UsesState(t, loc[p].id) THEN [NoTransition EXCEPT !.used = TRUE] ELSE transition[t]]
  /\ touched' = touched \cup {loc[p].w} \cup
       {transition[t].wf : t \in {u \in TransitionIds : UsesState(u, loc[p].id)}}
  /\ Goto(p, "drop") /\ UNCHANGED loc /\ Only({"transition", "touched"})
StateUnused(i) == \A t \in TransitionIds : ~UsesState(t, i)
DropState(p) ==
  /\ pc[p] = "drop"
  /\ state' = IF StateUnused(loc[p].id)
              THEN [state EXCEPT ![loc[p].id] = [NoState EXCEPT !.used = TRUE]]
              ELSE state
  /\ End(p) /\ Only({"state"})
(* updateTransition assigns whatever the body holds, a state of another
   workflow included; like updateState it may insert a deleted row again. *)
MoveTransition(p) ==
  /\ pc[p] = "move"
  /\ LET old == transition[loc[p].id]
         from == IF old.wf = Null THEN loc[p].to ELSE old.from IN
     IF Live(loc[p].w) /\ StatesExist(from, loc[p].to)
     THEN transition' = [transition EXCEPT ![loc[p].id] =
            [wf |-> loc[p].w, from |-> from, to |-> loc[p].to, moved |-> TRUE, used |-> TRUE]]
     ELSE UNCHANGED transition
  /\ Touch(p, loc[p].w) /\ End(p) /\ Only({"transition", "touched"})
CutTransition(p) ==
  /\ pc[p] = "cut_transition"
  /\ transition' = [transition EXCEPT ![loc[p].id] = [NoTransition EXCEPT !.used = TRUE]]
  /\ Touch(p, loc[p].w) /\ End(p) /\ Only({"transition", "touched"})
CutStep(p) ==
  /\ pc[p] = "cut_step"
  /\ step' = [step EXCEPT ![loc[p].id] = [NoChild EXCEPT !.used = TRUE]]
  /\ Touch(p, loc[p].w) /\ End(p) /\ Only({"step", "touched"})
-----------------------------------------------------------------------------
(* remove: one transaction that lists the executions and later deletes them with
   their rows; the foreign keys roll all of it back when another request added
   an execution with events, or a transition of another workflow uses a state. *)
BeginRemove(p) ==
  \E w \in LiveWorkflows : Arrive(p, [NoLocal EXCEPT !.kind = "remove", !.w = w], "list")
ListExecutions(p) ==
  /\ pc[p] = "list"
  /\ IF Live(loc[p].w)
     THEN /\ Keep(p, [loc[p] EXCEPT !.listed = RowsOf(execution, loc[p].w)])
          /\ Goto(p, "commit")
     ELSE End(p)
  /\ UNCHANGED <<tables, history>>
Unlisted(p) == RowsOf(execution, loc[p].w) \ loc[p].listed
Removable(p) ==
  /\ \A x \in Unlisted(p) : loc[p].listed # {} /\ ~execution[x].logged
  /\ \A t \in TransitionIds, i \in RowsOf(state, loc[p].w) :
       UsesState(t, i) => transition[t].wf = loc[p].w
Without(table, w, empty) ==
  [i \in DOMAIN table |-> IF table[i].wf = w THEN [empty EXCEPT !.used = TRUE] ELSE table[i]]
CommitRemoval(p) ==
  /\ pc[p] = "commit"
  /\ IF Removable(p)
     THEN /\ wf' = [wf EXCEPT ![loc[p].w].status = "gone"]
          /\ execution' = Without(execution, loc[p].w, NoExecution)
          /\ transition' = Without(transition, loc[p].w, NoTransition)
          /\ state' = Without(state, loc[p].w, NoState)
          /\ step' = Without(step, loc[p].w, NoChild)
          /\ UNCHANGED abandoned
     ELSE /\ abandoned' = abandoned \cup {loc[p].w}
          /\ UNCHANGED <<wf, execution, transition, state, step>>
  /\ End(p) /\ UNCHANGED <<entities, roles, touched, answered, raced>>

(* triggerWorkflow: the execution, then its first event. *)
BeginTrigger(p) ==
  \E w \in Workflows :
    /\ wf[w].status = "active"
    /\ Arrive(p, [NoLocal EXCEPT !.kind = "trigger", !.w = w], "execute")
InsertExecution(p) ==
  /\ pc[p] = "execute"
  /\ \/ /\ Live(loc[p].w)
        /\ \E x \in NextId(execution) :
             /\ execution' = [execution EXCEPT ![x] = [wf |-> loc[p].w, logged |-> FALSE, used |-> TRUE]]
             /\ Keep(p, [loc[p] EXCEPT !.id = x])
        /\ Goto(p, "event")
     \/ ~Live(loc[p].w) /\ End(p) /\ UNCHANGED execution
  /\ UNCHANGED <<wf, state, transition, step, entities, roles, history>>
LogEvent(p) ==
  /\ pc[p] = "event"
  /\ execution' = IF execution[loc[p].id].wf # Null
                  THEN [execution EXCEPT ![loc[p].id].logged = TRUE] ELSE execution
  /\ End(p) /\ UNCHANGED <<wf, state, transition, step, entities, roles, history>>
-----------------------------------------------------------------------------
(* A statement fails, or the process stops and nothing is cleaned up. *)
Deploys(p) == loc[p].kind = "deploy" /\ loc[p].w # Null
Abandon(p) == abandoned' = IF Deploys(p) THEN abandoned \cup {loc[p].w} ELSE abandoned
Fail(p) ==
  /\ pc[p] # "idle" /\ Raise(p)
  /\ IF pc[p] \in {"list", "commit"} THEN Abandon(p) ELSE UNCHANGED abandoned
  /\ UNCHANGED <<tables, touched, answered, raced>>
Crash(p) ==
  /\ Deploys(p) /\ End(p) /\ Abandon(p) /\ UNCHANGED <<tables, touched, answered, raced>>
(* EntitiesService.remove. *)
DropEntity ==
  /\ started < MaxRequests /\ started' = started + 1
  /\ \E s \in entities : entities' = entities \ {s}
  /\ UNCHANGED <<wf, state, transition, step, execution, roles, pc, loc, history>>

(* An administrator of the tenant: createTenantRole asks for no other role of the
   name; updateTenantRole stores any name and flag, deleteTenantRole deactivates. *)
Given(n) == {m \in {n} : Active(m) > 0 \/ \E q \in Requests : Seeding(q, m)}
CreateRole ==
  /\ started < MaxRequests /\ started' = started + 1
  /\ \E n \in RoleNames : /\ roles' = [roles EXCEPT ![<<n, TRUE>>] = @ + 1]
                          /\ raced' = raced \cup Given(n)
  /\ UNCHANGED <<wf, state, transition, step, execution, entities, pc, loc>>
  /\ UNCHANGED <<touched, answered, abandoned>>
UpdateRole ==
  /\ started < MaxRequests /\ started' = started + 1
  /\ \E old \in RoleNames \X BOOLEAN, n \in RoleNames, active \in BOOLEAN :
       /\ roles[old] > 0 /\ old # <<n, active>>
       /\ roles' = [roles EXCEPT ![old] = @ - 1, ![<<n, active>>] = @ + 1]
       /\ raced' = IF active THEN raced \cup Given(n) ELSE raced
  /\ UNCHANGED <<wf, state, transition, step, execution, entities, pc, loc>>
  /\ UNCHANGED <<touched, answered, abandoned>>

Begin(p) ==
  \/ BeginDeploy(p) \/ BeginNew(p) \/ BeginDuplicate(p) \/ BeginStatus(p)
  \/ BeginAdd(p) \/ BeginEdit(p) \/ BeginRemove(p) \/ BeginTrigger(p)
Step(p) ==
  \/ FindEntity(p) \/ InsertEntity(p) \/ ValidateAssignments(p)
  \/ CountWorkflows(p) \/ InsertWorkflow(p)
  \/ CheckState(p) \/ InsertState(p) \/ ReadRoles(p) \/ InsertRole(p)
  \/ CheckTransition(p) \/ InsertTransition(p) \/ CheckStep(p) \/ InsertStep(p)
  \/ SetStatus(p) \/ Answer(p)
  \/ ChangeState(p) \/ CutTransitions(p) \/ DropState(p)
  \/ MoveTransition(p) \/ CutTransition(p) \/ CutStep(p)
  \/ ListExecutions(p) \/ CommitRemoval(p) \/ InsertExecution(p) \/ LogEvent(p)
  \/ Fail(p) \/ Crash(p)
Next == (\E p \in Requests : Begin(p) \/ Step(p)) \/ DropEntity \/ CreateRole \/ UpdateRole
Spec == Init /\ [][Next]_vars
-----------------------------------------------------------------------------
(* States, transitions, steps and executions belong to a workflow that exists,
   transitions join existing states, and states of their own workflow unless a
   PATCH moved them: whatever request removes the workflow or a state while
   another adds to it (workflows.service.ts:181-214, 500-504). *)
NothingIsOrphaned ==
  /\ \A w \in Workflows \ LiveWorkflows :
       /\ RowsOf(state, w) = {} /\ RowsOf(transition, w) = {}
       /\ RowsOf(step, w) = {} /\ RowsOf(execution, w) = {}
  /\ \A t \in TransitionIds :
       transition[t].wf # Null =>
         LET ends == {state[transition[t].from].wf, state[transition[t].to].wf} IN
         /\ Null \notin ends
         /\ transition[t].moved \/ ends = {transition[t].wf}

(* Two requests that both find a key unused never give a workflow two states
   with it (workflows.service.ts:439-453, 485). *)
OneStatePerKey ==
  \A i, j \in StateIds : state[i].wf # Null /\ state[i].wf = state[j].wf
                         /\ state[i].key = state[j].key => i = j

(* What a template deployment must have stored. *)
Elements(seq) == {seq[i] : i \in DOMAIN seq}
Complete(w) ==
  LET t == wf[w].template IN
  /\ {state[i].key : i \in RowsOf(state, w)} = Elements(t.states)
  /\ {<<state[transition[i].from].key, state[transition[i].to].key>> :
        i \in RowsOf(transition, w)} = Elements(t.transitions)
  /\ Cardinality(RowsOf(step, w)) = t.steps

(* A workflow that nobody but its deployment touched runs only when it is
   complete: no event can trigger half a template, however far the deployment
   got (workflows.service.ts:663-749). *)
OnlyCompleteRuns ==
  \A w \in LiveWorkflows \ touched :
    /\ wf[w].template # EmptyTemplate
    /\ wf[w].status = "active" \/ w \in answered \/ RowsOf(execution, w) # {}
    => Complete(w)

(* A deployment ends with an answered workflow or with none: one that is neither
   answered nor removed is still being worked on, unless its process died or
   its clean-up failed (workflows.service.ts:604-624). *)
DeploymentsSettle ==
  \A w \in LiveWorkflows :
    wf[w].template # EmptyTemplate =>
      \/ w \in answered \cup abandoned
      \/ \E p \in Requests : Deploys(p) /\ loc[p].w = w

(* A tenant has more workflows than its plan allows only when creations overlapped
   or one was copied by duplicate, which asks for no limit
   (workflows.service.ts:96-100, 256). *)
LimitOvershootHasCause ==
  Cardinality(LiveWorkflows) > MaxWorkflows =>
    \E w \in LiveWorkflows : wf[w].late \/ wf[w].copied

(* Deployments share the roles they name: a name gets a second active role only
   when requests overlapped in giving it or an administrator gave it to a role
   although an active one had it, whatever roles are deactivated, reactivated and
   renamed around the deployments (workflows.service.ts:774-798,
   users.service.ts:110-140). *)
SecondRoleHasCause == \A n \in RoleNames : Active(n) > 1 => n \in raced
=============================================================================
