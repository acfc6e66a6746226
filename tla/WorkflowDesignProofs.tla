------------------------ MODULE WorkflowDesignProofs ------------------------
(***************************************************************************)
(* The safety properties of WorkflowDesign, for every tenant: any number   *)
(* of workflows, rows, templates and overlapping requests.  DesignInv says *)
(* of the tables what foreign keys and unique keys enforce, and of each    *)
(* request what it knows at the statement it has reached: which rows its   *)
(* ids name, that no other workflow was created since it counted, that the *)
(* roles it is about to insert are missing.                                *)
(***************************************************************************)
EXTENDS WorkflowDesign, FiniteSetTheorems, SequenceTheorems, TLAPS

Alive == {"draft", "active", "paused"}
LiveIn(W) == {w \in Workflows : W[w].status \in Alive}
(* A deployment before it has its workflow, while it fills it and while it
   removes it. *)
Before == {"entities", "entity_insert", "validate", "count", "insert"}
Building == {"state", "state_insert", "roles", "role_insert", "transition",
             "transition_insert", "step", "step_insert", "status", "answer"}
Undoing == {"list", "commit"}
(* The states a transition is to join. *)
From(v) == IF v.kind = "deploy" THEN v.ids[Head(v.transitions)[1]] ELSE v.id
To(v) == IF v.kind = "deploy" THEN v.ids[Head(v.transitions)[2]] ELSE v.to

-----------------------------------------------------------------------------
(* The points each request passes, and what its locals are there. *)
Course(l, v) ==
  \/ v.kind = "none" /\ l = "idle"
  \/ v.kind = "deploy" /\ v.w = Null /\ l \in Before
  \/ v.kind = "deploy" /\ v.w # Null /\ l \in Building \cup Undoing
  \/ v.kind = "create" /\ l \in {"count", "insert"}
  \/ v.kind = "duplicate" /\ l = "insert"
  \/ v.kind \in {"activate", "pause", "update"} /\ l \in {"status", "answer"}
  \/ v.kind = "remove" /\ l \in Undoing
  \/ v.kind = "add_state" /\ l \in {"state", "state_insert"}
  \/ v.kind = "change_state" /\ l = "change"
  \/ v.kind = "drop_state" /\ l \in {"cut", "drop"}
  \/ v.kind = "add_transition" /\ l \in {"transition", "transition_insert"}
  \/ v.kind = "move_transition" /\ l = "move"
  \/ v.kind = "drop_transition" /\ l = "cut_transition"
  \/ v.kind = "add_step" /\ l \in {"step", "step_insert"}
  \/ v.kind = "drop_step" /\ l = "cut_step"
  \/ v.kind = "trigger" /\ l \in {"execute", "event"}
Locals(l, v) ==
  /\ v.kind \notin {"none", "create", "duplicate", "deploy"} => v.w \in Workflows
  /\ v.kind # "deploy" => v.template = EmptyTemplate
  /\ l = "entity_insert" => v.key \in Slugs
  /\ l = "change" \/ v.kind = "add_state" => v.key \in Keys
  /\ l = "state_insert" /\ v.kind = "deploy" => v.states # <<>>
  /\ l \in {"change", "cut", "drop"} => v.id \in StateIds
  /\ v.kind = "add_transition" => v.id \in StateIds /\ v.to \in StateIds
  /\ l = "transition_insert" => From(v) \in StateIds /\ To(v) \in StateIds
  /\ l = "transition_insert" /\ v.kind = "deploy" => v.transitions # <<>>
  /\ l = "move" => v.to \in StateIds
  /\ l \in {"move", "cut_transition"} => v.id \in TransitionIds
  /\ l = "step_insert" /\ v.kind = "deploy" => v.steps > 0
  /\ l = "cut_step" => v.id \in StepIds
  /\ l = "event" => v.id \in Executions

(* The rows a request is about to write or to refer to by their ids. *)
ClaimsState(l, v, i) ==
  \/ l \in {"change", "cut", "drop"} /\ i = v.id
  \/ l = "transition_insert" /\ i \in {From(v), To(v)}
ClaimsTransition(l, v, i) == l \in {"move", "cut_transition"} /\ i = v.id
OnRows(l, v, S, T) ==
  /\ \A i \in StateIds : ClaimsState(l, v, i) => S[i].used /\ S[i].wf \in {Null, v.w}
  /\ \A i \in TransitionIds : ClaimsTransition(l, v, i) => T[i].used /\ T[i].wf \in {Null, v.w}
OnWorkflow(v, W) == v.w # Null => W[v.w].status # "free"
(* No workflow was added since the request counted them. *)
OnLimit(l, v, W) ==
  l = "insert" /\ v.kind # "duplicate" /\ ~v.late => Cardinality(LiveIn(W)) < MaxWorkflows
(* The roles still to be inserted are missing, or another request has inserted
   them since they were looked up. *)
OnRoles(l, v, R, again) == l = "role_insert" => \A n \in v.roles : R[<<n, TRUE>>] = 0 \/ n \in again

Knows(l, v, W, S, T, R, again) ==
  /\ Course(l, v) /\ Locals(l, v) /\ OnRows(l, v, S, T) /\ OnWorkflow(v, W)
  /\ OnLimit(l, v, W) /\ OnRoles(l, v, R, again)
(* Two requests agree on the workflow of a row, and deploy different ones. *)
Agree(l, v, l2, v2) ==
  /\ \A i \in StateIds : ClaimsState(l, v, i) /\ ClaimsState(l2, v2, i) => v.w = v2.w
  /\ \A i \in TransitionIds :
       ClaimsTransition(l, v, i) /\ ClaimsTransition(l2, v2, i) => v.w = v2.w
  /\ v.kind = "deploy" /\ v2.kind = "deploy" /\ v.w # Null => v.w # v2.w

-----------------------------------------------------------------------------
(* The tables. *)
TablesTyped ==
  /\ wf \in [Workflows -> Workflow] /\ state \in [StateIds -> StateRow]
  /\ transition \in [TransitionIds -> TransitionRow] /\ step \in [StepIds -> ChildRow]
  /\ execution \in [Executions -> ExecutionRow]
  /\ entities \subseteq Slugs /\ roles \in [RoleNames \X BOOLEAN -> Nat]
  /\ touched \subseteq Workflows /\ answered \subseteq Workflows
  /\ abandoned \subseteq Workflows /\ raced \subseteq RoleNames
Typed == /\ TablesTyped /\ pc \in [Requests -> Points] /\ loc \in [Requests -> Local]
         /\ started \in 0..MaxRequests

(* A row of a workflow has an id that was given out, and the workflow exists;
   a transition joins states that exist. *)
Owned(table) == \A i \in DOMAIN table : table[i].wf # Null => table[i].used /\ Live(table[i].wf)
Joins(x) ==
  \A i \in {x.from, x.to} :
    i \in StateIds /\ state[i].wf # Null /\ (x.moved \/ state[i].wf = x.wf)
Joined ==
  \A t \in TransitionIds : IF transition[t].wf = Null
                           THEN transition[t].from = Null /\ transition[t].to = Null
                           ELSE Joins(transition[t])
Rows == /\ Owned(state) /\ Owned(transition) /\ Owned(step) /\ Owned(execution)
        /\ Joined /\ OneStatePerKey
(* Those that were created within the limit. *)
Honest == {w \in LiveWorkflows : ~wf[w].late /\ ~wf[w].copied}
WithinLimit == Cardinality(Honest) <= MaxWorkflows

Informed == \A q \in Requests : Knows(pc[q], loc[q], wf, state, transition, roles, raced)
Agreed == \A p, q \in Requests : p # q => Agree(pc[p], loc[p], pc[q], loc[q])

DesignInv == /\ Typed /\ Rows /\ WithinLimit /\ SecondRoleHasCause /\ DeploymentsSettle
             /\ Informed /\ Agreed

(* The roles of one name, active ones. *)
LEMMA RoleCounts ==
  ASSUME NEW R \in [RoleNames \X BOOLEAN -> Nat], NEW n \in RoleNames
  PROVE  R[<<n, TRUE>>] \in Nat /\ <<n, TRUE>> \in RoleNames \X BOOLEAN
OBVIOUS

LEMMA OneMore ==
  ASSUME NEW K, NEW R \in [K -> Nat], NEW k \in K, NEW R2, R2 = [R EXCEPT ![k] = @ + 1]
  PROVE  R2 \in [K -> Nat] /\ R2[k] = R[k] + 1 /\ \A j \in K \ {k} : R2[j] = R[j]
OBVIOUS

LEMMA OneMoreRole ==
  ASSUME NEW R \in [RoleNames \X BOOLEAN -> Nat], NEW n \in RoleNames, NEW R2,
         R2 = [R EXCEPT ![<<n, TRUE>>] = @ + 1]
  PROVE  R2 \in [RoleNames \X BOOLEAN -> Nat] /\ R2[<<n, TRUE>>] = R[<<n, TRUE>>] + 1
<1> DEFINE K == RoleNames \X BOOLEAN
           k == <<n, TRUE>>
<1>1. k \in K /\ R \in [K -> Nat] /\ R2 = [R EXCEPT ![k] = @ + 1]
  OBVIOUS
<1> HIDE DEF K, k
<1>2. R2 \in [K -> Nat] /\ R2[k] = R[k] + 1
  BY ONLY <1>1, OneMore
<1> QED
  BY <1>2 DEF K, k

LEMMA SameRoles ==
  ASSUME DesignInv, UNCHANGED roles, UNCHANGED raced  PROVE  SecondRoleHasCause'
BY DEF DesignInv, SecondRoleHasCause, Active

-----------------------------------------------------------------------------
(* What the step of another request, at lp with locals vp, may do to the tables:
   an id stays given out, and its row keeps its workflow, loses it or is stored
   again by a request that claims it. *)
Evolved(lp, vp, W, W2, S, S2, T, T2) ==
  /\ \A w \in Workflows : W[w].status # "free" => W2[w].status # "free"
  /\ \A i \in StateIds : S[i].used =>
       /\ S2[i].used
       /\ S2[i].wf \in {Null, S[i].wf} \/ (ClaimsState(lp, vp, i) /\ S2[i].wf = vp.w)
  /\ \A i \in TransitionIds : T[i].used =>
       /\ T2[i].used
       /\ T2[i].wf \in {Null, T[i].wf} \/ (ClaimsTransition(lp, vp, i) /\ T2[i].wf = vp.w)
(* Its locals, but for the mark that a workflow was created. *)
Alike(v, v2) ==
  /\ v2.kind = v.kind /\ v2.w = v.w /\ v2.template = v.template /\ v2.states = v.states
  /\ v2.transitions = v.transitions /\ v2.steps = v.steps /\ v2.roles = v.roles
  /\ v2.slugs = v.slugs /\ v2.id = v.id /\ v2.to = v.to /\ v2.key = v.key
  /\ v2.listed = v.listed /\ v2.ids = v.ids
  /\ v.late => v2.late
LiveNotMore(W, W2) == LiveIn(W2) \subseteq LiveIn(W)

LEMMA LiveFinite ==
  ASSUME NEW W, NEW W2, LiveNotMore(W, W2)
  PROVE  /\ IsFiniteSet(LiveIn(W)) /\ Cardinality(LiveIn(W)) \in Nat
         /\ Cardinality(LiveIn(W2)) \in Nat
         /\ Cardinality(LiveIn(W2)) <= Cardinality(LiveIn(W))
<1>1. IsFiniteSet(LiveIn(W))
  BY DesignAssumption, FS_Subset DEF LiveIn
<1>2. IsFiniteSet(LiveIn(W2)) /\ Cardinality(LiveIn(W2)) <= Cardinality(LiveIn(W))
  BY <1>1, FS_Subset DEF LiveNotMore
<1> QED
  BY <1>1, <1>2, FS_CardinalityType

(* A waiting request still knows what it knew after the step of another. *)
LEMMA KnowsStays ==
  ASSUME NEW l \in Points, NEW v \in Local, NEW v2 \in Local, NEW lp, NEW vp,
         NEW W, NEW W2, NEW S \in [StateIds -> StateRow], NEW S2,
         NEW T \in [TransitionIds -> TransitionRow], NEW T2,
         NEW R, NEW R2, NEW again, NEW again2,
         Knows(l, v, W, S, T, R, again), Alike(v, v2), Agree(lp, vp, l, v),
         Evolved(lp, vp, W, W2, S, S2, T, T2),
         l = "insert" => v2.late \/ LiveNotMore(W, W2),
         l = "role_insert" => \A n \in v.roles : (R[<<n, TRUE>>] = 0 => R2[<<n, TRUE>>] = 0) \/ n \in again2,
         again \subseteq again2
  PROVE  Knows(l, v2, W2, S2, T2, R2, again2)
<1>1. Course(l, v2)
  BY DEF Knows, Course, Alike
<1>2. From(v2) = From(v) /\ To(v2) = To(v)
  BY DEF From, To, Alike
<1>3. Locals(l, v2)
  BY <1>2 DEF Knows, Locals, Alike
<1>4. /\ \A i \in StateIds : ClaimsState(l, v2, i) <=> ClaimsState(l, v, i)
      /\ \A i \in TransitionIds : ClaimsTransition(l, v2, i) <=> ClaimsTransition(l, v, i)
  BY <1>2 DEF ClaimsState, ClaimsTransition, Alike
<1>5. v2.w = v.w
  BY DEF Alike
<1>6. ASSUME NEW i \in StateIds, ClaimsState(l, v, i)
      PROVE  S2[i].used /\ S2[i].wf \in {Null, v.w}
  <2>1. S[i].used /\ S[i].wf \in {Null, v.w}
    BY <1>6 DEF Knows, OnRows
  <2>2. /\ S2[i].used
        /\ S2[i].wf \in {Null, S[i].wf} \/ (ClaimsState(lp, vp, i) /\ S2[i].wf = vp.w)
    BY <2>1 DEF Evolved
  <2>3. ClaimsState(lp, vp, i) => vp.w = v.w
    BY <1>6 DEF Agree
  <2> QED
    BY <2>1, <2>2, <2>3
<1>7. ASSUME NEW i \in TransitionIds, ClaimsTransition(l, v, i)
      PROVE  T2[i].used /\ T2[i].wf \in {Null, v.w}
  <2>1. T[i].used /\ T[i].wf \in {Null, v.w}
    BY <1>7 DEF Knows, OnRows
  <2>2. /\ T2[i].used
        /\ T2[i].wf \in {Null, T[i].wf} \/ (ClaimsTransition(lp, vp, i) /\ T2[i].wf = vp.w)
    BY <2>1 DEF Evolved
  <2>3. ClaimsTransition(lp, vp, i) => vp.w = v.w
    BY <1>7 DEF Agree
  <2> QED
    BY <2>1, <2>2, <2>3
<1>8. OnRows(l, v2, S2, T2)
  BY <1>4, <1>5, <1>6, <1>7 DEF OnRows
<1>9. OnWorkflow(v2, W2)
  <2>1. v.w \in Workflows \cup {Null}
    BY DEF Local
  <2> QED
    BY <1>5, <2>1 DEF Knows, OnWorkflow, Evolved
<1>10. OnLimit(l, v2, W2)
  <2>1. SUFFICES ASSUME l = "insert", v.kind # "duplicate", ~v2.late
                 PROVE  Cardinality(LiveIn(W2)) < MaxWorkflows
    BY DEF OnLimit, Alike
  <2>2. Cardinality(LiveIn(W)) < MaxWorkflows
    BY <2>1 DEF Knows, OnLimit, Alike
  <2>3. LiveNotMore(W, W2)
    BY <2>1
  <2> QED
    BY <2>2, <2>3, LiveFinite, DesignAssumption
<1>11. OnRoles(l, v2, R2, again2)
  BY DEF Knows, OnRoles, Alike
<1> QED
  BY <1>1, <1>3, <1>8, <1>9, <1>10, <1>11 DEF Knows

-----------------------------------------------------------------------------
(* The rows p comes to claim are those of its workflow, or it claimed them
   before; a workflow it begins to deploy is a new one. *)
Grounded(p, l, v) ==
  /\ \A i \in StateIds : ClaimsState(l, v, i) =>
       \/ ClaimsState(pc[p], loc[p], i) /\ v.w = loc[p].w
       \/ v.w # Null /\ state[i].wf = v.w
  /\ \A i \in TransitionIds : ClaimsTransition(l, v, i) =>
       \/ ClaimsTransition(pc[p], loc[p], i) /\ v.w = loc[p].w
       \/ v.w # Null /\ transition[i].wf = v.w
  /\ v.kind = "deploy" /\ v.w # Null =>
       \/ loc[p].kind = "deploy" /\ v.w = loc[p].w
       \/ wf[v.w].status = "free"
(* The other requests wait; those about to insert a workflow are marked when
   there may be one more, and those about to insert a role when it is there. *)
Aside(p) ==
  \A q \in Requests \ {p} :
    /\ pc'[q] = pc[q] /\ Alike(loc[q], loc'[q])
    /\ pc[q] = "insert" => loc'[q].late \/ LiveNotMore(wf, wf')
    /\ pc[q] = "role_insert" =>
         \A n \in loc[q].roles : (roles[<<n, TRUE>>] = 0 => roles'[<<n, TRUE>>] = 0) \/ n \in raced'
(* p, that goes on with locals v, drops no deployment that is not settled. *)
Settles(p, v) ==
  /\ \A w \in Workflows : wf'[w].status \in Alive /\ wf'[w].template # EmptyTemplate =>
       \/ wf[w].status \in Alive /\ wf'[w].template = wf[w].template
       \/ v.kind = "deploy" /\ v.w = w
  /\ Deploys(p) => \/ v.kind = "deploy" /\ v.w = loc[p].w
                   \/ loc[p].w \in answered' \cup abandoned'
                   \/ wf'[loc[p].w].status \notin Alive
  /\ answered \subseteq answered' /\ abandoned \subseteq abandoned'

LEMMA StepOfOne ==
  ASSUME DesignInv, NEW p \in Requests, NEW l \in Points, NEW v \in Local,
         TablesTyped', Rows', WithinLimit', SecondRoleHasCause',
         started' \in 0..MaxRequests, raced \subseteq raced',
         pc' = [pc EXCEPT ![p] = l], loc' \in [Requests -> Local], loc'[p] = v,
         Evolved(pc[p], loc[p], wf, wf', state, state', transition, transition'),
         Aside(p), Settles(p, v), Grounded(p, l, v),
         Knows(l, v, wf', state', transition', roles', raced')
  PROVE  DesignInv'
<1>1. /\ pc'[p] = l /\ pc \in [Requests -> Points] /\ pc' \in [Requests -> Points]
      /\ loc \in [Requests -> Local]
      /\ state \in [StateIds -> StateRow] /\ transition \in [TransitionIds -> TransitionRow]
  BY DEF DesignInv, Typed, TablesTyped
<1>2. Typed'
  BY <1>1 DEF Typed
<1>3. ASSUME NEW q \in Requests \ {p}
      PROVE  /\ pc'[q] = pc[q] /\ Alike(loc[q], loc'[q])
             /\ Knows(pc[q], loc[q], wf, state, transition, roles, raced)
             /\ Agree(pc[p], loc[p], pc[q], loc[q]) /\ Agree(pc[q], loc[q], pc[p], loc[p])
  BY DEF Aside, DesignInv, Informed, Agreed
<1>4. ASSUME NEW q \in Requests \ {p}
      PROVE  Knows(pc'[q], loc'[q], wf', state', transition', roles', raced')
  <2>1. /\ pc[q] \in Points /\ loc[q] \in Local /\ loc'[q] \in Local
    BY <1>1
  <2>2. /\ pc[q] = "insert" => loc'[q].late \/ LiveNotMore(wf, wf')
        /\ pc[q] = "role_insert" =>
             \A n \in loc[q].roles : (roles[<<n, TRUE>>] = 0 => roles'[<<n, TRUE>>] = 0) \/ n \in raced'
    BY DEF Aside
  <2>3. Evolved(pc[p], loc[p], wf, wf', state, state', transition, transition')
        /\ raced \subseteq raced'
    OBVIOUS
  <2>5. /\ Knows(pc[q], loc[q], wf, state, transition, roles, raced)
        /\ Alike(loc[q], loc'[q]) /\ Agree(pc[p], loc[p], pc[q], loc[q])
    BY <1>3
  <2>6. /\ state \in [StateIds -> StateRow] /\ transition \in [TransitionIds -> TransitionRow]
    BY <1>1
  <2>4. Knows(pc[q], loc'[q], wf', state', transition', roles', raced')
    BY ONLY <2>1, <2>2, <2>3, <2>5, <2>6, KnowsStays
  <2> QED
    BY <1>3, <2>4
<1>5. Informed'
  BY <1>1, <1>4 DEF Informed
<1>6. ASSUME NEW q \in Requests \ {p}
      PROVE  Agree(l, v, pc[q], loc[q]) /\ Agree(pc[q], loc[q], l, v)
  <2>1. ASSUME NEW i \in StateIds, ClaimsState(l, v, i), ClaimsState(pc[q], loc[q], i)
        PROVE  v.w = loc[q].w
    <3>1. state[i].wf \in {Null, loc[q].w}
      BY <1>3, <2>1 DEF Knows, OnRows
    <3>2. ClaimsState(pc[p], loc[p], i) => loc[p].w = loc[q].w
      BY <1>3, <2>1 DEF Agree
    <3> QED
      BY <2>1, <3>1, <3>2 DEF Grounded
  <2>2. ASSUME NEW i \in TransitionIds, ClaimsTransition(l, v, i),
               ClaimsTransition(pc[q], loc[q], i)
        PROVE  v.w = loc[q].w
    <3>1. transition[i].wf \in {Null, loc[q].w}
      BY <1>3, <2>2 DEF Knows, OnRows
    <3>2. ClaimsTransition(pc[p], loc[p], i) => loc[p].w = loc[q].w
      BY <1>3, <2>2 DEF Agree
    <3> QED
      BY <2>2, <3>1, <3>2 DEF Grounded
  <2>3. v.kind = "deploy" /\ loc[q].kind = "deploy" /\ v.w # Null => v.w # loc[q].w
    BY <1>3 DEF Grounded, Agree, Knows, OnWorkflow
  <2>4. v.kind = "deploy" /\ loc[q].kind = "deploy" /\ loc[q].w # Null => v.w # loc[q].w
    BY <2>3
  <2> QED
    BY <2>1, <2>2, <2>3, <2>4 DEF Agree
<1>7. Agreed'
  <2>1. ASSUME NEW q \in Requests, NEW r \in Requests, q # r
        PROVE  Agree(pc'[q], loc'[q], pc'[r], loc'[r])
    <3>1. ASSUME NEW x \in Requests \ {p}
          PROVE  /\ pc'[x] = pc[x] /\ loc'[x].kind = loc[x].kind /\ loc'[x].w = loc[x].w
                 /\ \A i \in StateIds :
                      ClaimsState(pc'[x], loc'[x], i) <=> ClaimsState(pc[x], loc[x], i)
                 /\ \A i \in TransitionIds :
                      ClaimsTransition(pc'[x], loc'[x], i) <=> ClaimsTransition(pc[x], loc[x], i)
      BY <1>3 DEF Alike, ClaimsState, ClaimsTransition, From, To
    <3>2. CASE q # p /\ r # p
      <4>1. Agree(pc[q], loc[q], pc[r], loc[r])
        BY <2>1 DEF DesignInv, Agreed
      <4> QED
        BY <3>1, <3>2, <4>1 DEF Agree
    <3>3. CASE q = p
      BY <1>1, <1>6, <2>1, <3>1, <3>3 DEF Agree
    <3>4. CASE r = p
      BY <1>1, <1>6, <2>1, <3>1, <3>4 DEF Agree
    <3> QED
      BY <3>2, <3>3, <3>4
  <2> QED
    BY <2>1 DEF Agreed
<1>8. DeploymentsSettle'
  <2>1. SUFFICES ASSUME NEW w \in Workflows, wf'[w].status \in Alive,
                        wf'[w].template # EmptyTemplate
                 PROVE  \/ w \in answered' \cup abandoned'
                        \/ \E q \in Requests : loc'[q].kind = "deploy" /\ loc'[q].w = w
                                               /\ loc'[q].w # Null
    BY DEF DeploymentsSettle, LiveWorkflows, Live, Deploys, Alive
  <2>2. w # Null
    BY DesignAssumption
  <2>3. CASE v.kind = "deploy" /\ v.w = w
    BY <2>2, <2>3
  <2>4. CASE wf[w].status \in Alive /\ wf'[w].template = wf[w].template
    <3>1. \/ w \in answered \cup abandoned
          \/ \E q \in Requests : Deploys(q) /\ loc[q].w = w
      BY <2>1, <2>4 DEF DesignInv, DeploymentsSettle, LiveWorkflows, Live, Alive
    <3>2. CASE w \in answered \cup abandoned
      BY <3>2 DEF Settles
    <3>3. ASSUME NEW q \in Requests, Deploys(q), loc[q].w = w
          PROVE  \/ w \in answered' \cup abandoned'
                 \/ \E x \in Requests : loc'[x].kind = "deploy" /\ loc'[x].w = w
                                        /\ loc'[x].w # Null
      <4>1. CASE q = p
        BY <2>1, <2>2, <3>3, <4>1 DEF Settles
      <4>2. CASE q # p
        BY <1>3, <2>2, <3>3, <4>2 DEF Alike, Deploys
      <4> QED
        BY <4>1, <4>2
    <3> QED
      BY <3>1, <3>2, <3>3
  <2> QED
    BY <2>1, <2>3, <2>4 DEF Settles
<1> QED
  BY <1>2, <1>5, <1>7, <1>8 DEF DesignInv

-----------------------------------------------------------------------------
(* Steps that leave the tables alone. *)
LEMMA TypedFacts ==
  ASSUME DesignInv, NEW p \in Requests
  PROVE  /\ pc[p] \in Points /\ loc[p] \in Local
         /\ Knows(pc[p], loc[p], wf, state, transition, roles, raced)
         /\ \A w \in Workflows : wf[w] \in Workflow
         /\ \A i \in StateIds : state[i] \in StateRow
         /\ \A i \in TransitionIds : transition[i] \in TransitionRow
BY DEF DesignInv, Typed, TablesTyped, Informed

LEMMA QuietStep ==
  ASSUME DesignInv, NEW p \in Requests, NEW l \in Points, NEW v \in Local,
         UNCHANGED tables, UNCHANGED raced, touched' = touched,
         answered \subseteq answered', answered' \subseteq Workflows,
         abandoned \subseteq abandoned', abandoned' \subseteq Workflows,
         started' \in 0..MaxRequests,
         pc' = [pc EXCEPT ![p] = l], loc' = [loc EXCEPT ![p] = v],
         Deploys(p) => \/ v.kind = "deploy" /\ v.w = loc[p].w
                       \/ loc[p].w \in answered' \cup abandoned'
                       \/ ~Live(loc[p].w),
         Grounded(p, l, v), Knows(l, v, wf, state, transition, roles, raced)
  PROVE  DesignInv'
<1>1. /\ wf' = wf /\ state' = state /\ transition' = transition /\ step' = step
      /\ execution' = execution /\ entities' = entities /\ roles' = roles
  BY DEF tables
<1>2. TablesTyped'
  BY <1>1 DEF DesignInv, Typed, TablesTyped
<1>3. Rows' /\ WithinLimit' /\ SecondRoleHasCause'
  <2>1. Rows' /\ WithinLimit'
    BY <1>1 DEF DesignInv, Rows, Owned, Joined, Joins, OneStatePerKey, WithinLimit, Honest,
       LiveWorkflows, Live
  <2> QED
    BY <1>1, <2>1, SameRoles
<1>4. loc' \in [Requests -> Local] /\ loc'[p] = v
  BY DEF DesignInv, Typed
<1>5. Evolved(pc[p], loc[p], wf, wf', state, state', transition, transition')
  BY <1>1 DEF Evolved
<1>6. Aside(p)
  BY <1>1 DEF Aside, Alike, LiveNotMore, DesignInv, Typed
<1>7. Settles(p, v)
  BY <1>1 DEF Settles, Live, Alive
<1>8. Knows(l, v, wf', state', transition', roles', raced')
  BY <1>1
<1>9. raced \subseteq raced'
  OBVIOUS
<1> QED
  BY <1>2, <1>3, <1>4, <1>5, <1>6, <1>7, <1>8, <1>9, StepOfOne

(* A step that moves p on, with or without a change of its locals. *)
LEMMA QuietKeep ==
  ASSUME DesignInv, NEW p \in Requests, NEW l \in Points, NEW v \in Local,
         UNCHANGED <<tables, history>>, Goto(p, l), Keep(p, v),
         v.kind = loc[p].kind, v.w = loc[p].w,
         Grounded(p, l, v), Knows(l, v, wf, state, transition, roles, raced)
  PROVE  DesignInv'
<1>1. /\ pc' = [pc EXCEPT ![p] = l] /\ loc' = [loc EXCEPT ![p] = v]
      /\ started' \in 0..MaxRequests
  BY DEF Goto, Keep, DesignInv, Typed
<1>2. /\ touched' = touched /\ answered' = answered /\ abandoned' = abandoned
      /\ UNCHANGED raced /\ UNCHANGED tables
  BY DEF history
<1>3. answered \subseteq Workflows /\ abandoned \subseteq Workflows
  BY DEF DesignInv, Typed, TablesTyped
<1>4. Deploys(p) => v.kind = "deploy" /\ v.w = loc[p].w
  BY DEF Deploys
<1> QED
  BY <1>1, <1>2, <1>3, <1>4, QuietStep

LEMMA QuietMove ==
  ASSUME DesignInv, NEW p \in Requests, NEW l \in Points,
         UNCHANGED <<tables, history>>, Goto(p, l), UNCHANGED loc,
         Grounded(p, l, loc[p]),
         Knows(l, loc[p], wf, state, transition, roles, raced)
  PROVE  DesignInv'
<1>1. loc[p] \in Local /\ Keep(p, loc[p])
  BY DEF Keep, DesignInv, Typed
<1> QED
  BY <1>1, QuietKeep

LEMMA NoLocalTyped == NoLocal \in Local
<1>1. <<>> \in Seq(Keys) /\ <<>> \in Seq(Keys \X Keys)
  OBVIOUS
<1> QED
  BY <1>1 DEF NoLocal, Local, Kinds

LEMMA EndKnows ==
  ASSUME NEW p, NEW W, NEW S, NEW T, NEW R, NEW again
  PROVE  /\ Knows("idle", NoLocal, W, S, T, R, again) /\ Grounded(p, "idle", NoLocal)
         /\ "idle" \in Points
BY DEF Knows, Course, Locals, OnRows, OnWorkflow, OnLimit, OnRoles, NoLocal, Grounded,
   ClaimsState, ClaimsTransition, Points

LEMMA QuietEnd ==
  ASSUME DesignInv, NEW p \in Requests, UNCHANGED tables, UNCHANGED raced,
         touched' = touched,
         answered \subseteq answered', answered' \subseteq Workflows,
         abandoned \subseteq abandoned', abandoned' \subseteq Workflows, End(p),
         Deploys(p) => \/ loc[p].w \in answered' \cup abandoned'
                       \/ ~Live(loc[p].w)
  PROVE  DesignInv'
<1>1. started' \in 0..MaxRequests
  BY DEF DesignInv, Typed, End, Goto
<1> QED
  BY <1>1, EndKnows, NoLocalTyped, QuietStep DEF End, Goto, Keep

LEMMA HistoryTyped ==
  ASSUME DesignInv, UNCHANGED history
  PROVE  /\ UNCHANGED raced /\ touched' = touched
         /\ answered \subseteq answered' /\ answered' \subseteq Workflows
         /\ abandoned \subseteq abandoned' /\ abandoned' \subseteq Workflows
BY DEF history, DesignInv, Typed, TablesTyped

(* What Knows asks for at a point without claims. *)
Plain == Points \ {"change", "cut", "drop", "transition_insert", "move", "cut_transition"}
LEMMA PlainKnows ==
  ASSUME NEW l \in Plain, NEW v, NEW p, NEW W, NEW S, NEW T, NEW R, NEW again,
         Course(l, v), Locals(l, v), OnWorkflow(v, W), OnLimit(l, v, W),
         OnRoles(l, v, R, again)
  PROVE  /\ Knows(l, v, W, S, T, R, again)
         /\ loc[p].kind = v.kind /\ loc[p].w = v.w => Grounded(p, l, v)
         /\ ~(v.kind = "deploy" /\ v.w # Null) => Grounded(p, l, v)
BY DEF Knows, OnRows, ClaimsState, ClaimsTransition, Grounded, Plain

LEMMA RaiseKeeps ==
  ASSUME DesignInv, NEW p \in Requests, UNCHANGED <<tables, history>>, Raise(p),
         pc[p] \notin Undoing \/ ~Deploys(p)
  PROVE  DesignInv'
<1>1. CASE End(p) /\ ~Deploys(p)
  BY <1>1, QuietEnd, HistoryTyped
<1>2. CASE Deploys(p) /\ Goto(p, "list") /\ UNCHANGED loc
  <2>1. Course("list", loc[p]) /\ Locals("list", loc[p])
    BY <1>2, TypedFacts DEF Deploys, Course, Undoing, Knows, Locals
  <2>2. OnWorkflow(loc[p], wf) /\ "list" \in Plain
    BY TypedFacts DEF Knows, Plain, Points
  <2>3. OnLimit("list", loc[p], wf) /\ OnRoles("list", loc[p], roles, raced)
    BY DEF OnLimit, OnRoles
  <2>4. /\ Knows("list", loc[p], wf, state, transition, roles, raced)
        /\ Grounded(p, "list", loc[p])
    BY <2>1, <2>2, <2>3, PlainKnows
  <2> QED
    BY <1>2, <2>2, <2>4, QuietMove DEF Plain
<1> QED
  BY <1>1, <1>2 DEF Raise, Deploys, Undoing

LEMMA FindEntityKeeps ==
  ASSUME DesignInv, NEW p \in Requests, FindEntity(p)  PROVE  DesignInv'
<1> DEFINE u == loc[p]
<1>1. /\ pc[p] = "entities" /\ u \in Local /\ UNCHANGED <<tables, history>>
      /\ Course("entities", u) /\ Locals("entities", u)
  BY TypedFacts DEF FindEntity, Knows
<1>2. u.kind = "deploy" /\ u.w = Null
  BY <1>1 DEF Course, Building, Undoing, Before
<1>3. ASSUME NEW l \in {"entities", "entity_insert", "validate"}, NEW v \in Local,
             v.kind = u.kind, v.w = u.w, l = "entity_insert" => v.key \in Slugs,
             Keep(p, v), Goto(p, l)
      PROVE  DesignInv'
  <2>1. Course(l, v) /\ Locals(l, v)
    BY <1>2, <1>3 DEF Course, Locals, Before, Building, Undoing
  <2>2. OnWorkflow(v, wf) /\ OnLimit(l, v, wf) /\ OnRoles(l, v, roles, raced)
    BY <1>2, <1>3 DEF OnWorkflow, OnLimit, OnRoles
  <2>3. l \in Plain /\ l \in Points
    BY DEF Plain, Points
  <2>4. Knows(l, v, wf, state, transition, roles, raced) /\ Grounded(p, l, v)
    BY <1>3, <2>1, <2>2, <2>3, PlainKnows
  <2> QED
    BY <1>1, <1>3, <2>3, <2>4, QuietKeep
<1>4. CASE /\ Keep(p, [u EXCEPT !.slugs = u.template.slugs \cap entities])
           /\ Goto(p, "validate")
  <2> DEFINE v == [u EXCEPT !.slugs = u.template.slugs \cap entities]
  <2>1. entities \subseteq Slugs
    BY DEF DesignInv, Typed, TablesTyped
  <2>2. v \in Local /\ v.kind = u.kind /\ v.w = u.w
    BY <1>1, <2>1 DEF Local
  <2> QED
    BY <1>3, <1>4, <2>2
<1>5. ASSUME NEW s \in u.slugs, Keep(p, [u EXCEPT !.slugs = @ \ {s}, !.key = s]),
             Goto(p, IF s \in entities THEN "entities" ELSE "entity_insert")
      PROVE  DesignInv'
  <2> DEFINE v == [u EXCEPT !.slugs = @ \ {s}, !.key = s]
             l == IF s \in entities THEN "entities" ELSE "entity_insert"
  <2>1. s \in Slugs
    BY <1>1 DEF Local
  <2>2. v \in Local /\ v.kind = u.kind /\ v.w = u.w /\ v.key = s
    BY <1>1, <2>1 DEF Local
  <2>3. l \in {"entities", "entity_insert", "validate"} /\ Keep(p, v) /\ Goto(p, l)
    BY <1>5
  <2> HIDE DEF v, l
  <2> QED
    BY <1>3, <2>1, <2>2, <2>3
<1> QED
  BY <1>4, <1>5 DEF FindEntity

LEMMA ValidateAssignmentsKeeps ==
  ASSUME DesignInv, NEW p \in Requests, ValidateAssignments(p)  PROVE  DesignInv'
<1> DEFINE v == loc[p]
<1>1. /\ pc[p] = "validate" /\ v \in Local /\ UNCHANGED <<tables, history>>
      /\ Course("validate", v) /\ Locals("validate", v) /\ OnWorkflow(v, wf)
  BY TypedFacts DEF ValidateAssignments, Knows
<1>2. CASE Raise(p)
  BY <1>1, <1>2, RaiseKeeps DEF Undoing
<1>3. CASE Goto(p, "count") /\ UNCHANGED loc
  <2>1. Course("count", v) /\ Locals("count", v) /\ "count" \in Plain /\ "count" \in Points
    BY <1>1 DEF Course, Locals, Before, Building, Undoing, Plain, Points
  <2>2. OnLimit("count", v, wf) /\ OnRoles("count", v, roles, raced)
    BY DEF OnLimit, OnRoles
  <2>3. Knows("count", v, wf, state, transition, roles, raced) /\ Grounded(p, "count", v)
    BY <1>1, <2>1, <2>2, PlainKnows
  <2> QED
    BY <1>1, <1>3, <2>1, <2>3, QuietMove
<1> QED
  BY <1>2, <1>3 DEF ValidateAssignments

LEMMA CountWorkflowsKeeps ==
  ASSUME DesignInv, NEW p \in Requests, CountWorkflows(p)  PROVE  DesignInv'
<1> DEFINE v == loc[p]
<1>1. /\ pc[p] = "count" /\ v \in Local /\ UNCHANGED <<tables, history>>
      /\ Course("count", v) /\ Locals("count", v) /\ OnWorkflow(v, wf)
  BY TypedFacts DEF CountWorkflows, Knows
<1>2. CASE Raise(p)
  BY <1>1, <1>2, RaiseKeeps DEF Undoing
<1>3. CASE ~(Cardinality(LiveWorkflows) >= MaxWorkflows) /\ Goto(p, "insert") /\ UNCHANGED loc
  <2>1. Course("insert", v) /\ Locals("insert", v) /\ "insert" \in Plain /\ "insert" \in Points
    BY <1>1 DEF Course, Locals, Before, Building, Undoing, Plain, Points
  <2>2. LiveIn(wf) = LiveWorkflows
    BY DEF LiveIn, LiveWorkflows, Live, Alive
  <2>3. Cardinality(LiveIn(wf)) \in Nat
    BY LiveFinite DEF LiveNotMore
  <2>4. Cardinality(LiveIn(wf)) < MaxWorkflows
    BY <1>3, <2>2, <2>3, DesignAssumption
  <2>5. OnLimit("insert", v, wf) /\ OnRoles("insert", v, roles, raced)
    BY <2>4 DEF OnLimit, OnRoles
  <2>6. Knows("insert", v, wf, state, transition, roles, raced) /\ Grounded(p, "insert", v)
    BY <1>1, <2>1, <2>5, PlainKnows
  <2> QED
    BY <1>1, <1>3, <2>1, <2>6, QuietMove
<1> QED
  BY <1>2, <1>3 DEF CountWorkflows

(* The steps of a request between two statements: p passes to a point without
   claims, its locals and its history as they are. *)
LEMMA PassKeeps ==
  ASSUME DesignInv, NEW p \in Requests, NEW l \in Plain, l # "insert", l # "role_insert",
         UNCHANGED <<tables, history>>, Goto(p, l), UNCHANGED loc,
         Course(l, loc[p]), Locals(l, loc[p])
  PROVE  DesignInv'
<1>1. OnWorkflow(loc[p], wf)
  BY TypedFacts DEF Knows
<1>2. OnLimit(l, loc[p], wf) /\ OnRoles(l, loc[p], roles, raced)
  BY DEF OnLimit, OnRoles
<1>3. Knows(l, loc[p], wf, state, transition, roles, raced) /\ Grounded(p, l, loc[p])
  BY <1>1, <1>2, PlainKnows
<1>4. l \in Points
  BY DEF Plain
<1> QED
  BY <1>3, <1>4, QuietMove

LEMMA CheckStateKeeps ==
  ASSUME DesignInv, NEW p \in Requests, CheckState(p)  PROVE  DesignInv'
<1> DEFINE v == loc[p]
<1>1. /\ pc[p] = "state" /\ UNCHANGED <<tables, history>>
      /\ Course("state", v) /\ Locals("state", v)
  BY TypedFacts DEF CheckState, Knows
<1>2. CASE Raise(p)
  BY <1>1, <1>2, RaiseKeeps DEF Undoing
<1>3. CASE v.kind = "deploy" /\ Goto(p, "roles") /\ UNCHANGED loc
  <2>1. Course("roles", v) /\ Locals("roles", v) /\ "roles" \in Plain
    BY <1>1, <1>3 DEF Course, Locals, Before, Building, Plain, Points
  <2> QED
    BY <1>1, <1>3, <2>1, PassKeeps
<1>4. CASE /\ ~(v.kind = "deploy" /\ v.states = <<>>)
           /\ Goto(p, "state_insert") /\ UNCHANGED loc
  <2>1. Course("state_insert", v) /\ "state_insert" \in Plain
    BY <1>1 DEF Course, Before, Building, Undoing, Plain, Points
  <2>2. Locals("state_insert", v)
    BY <1>1, <1>4 DEF Course, Locals
  <2> QED
    BY <1>1, <1>4, <2>1, <2>2, PassKeeps
<1> QED
  BY <1>2, <1>3, <1>4 DEF CheckState

LEMMA ReadRolesKeeps ==
  ASSUME DesignInv, NEW p \in Requests, ReadRoles(p)  PROVE  DesignInv'
<1> DEFINE u == loc[p]
           v == [u EXCEPT !.roles = {n \in @ : Active(n) = 0}]
<1>1. /\ pc[p] = "roles" /\ u \in Local /\ UNCHANGED <<tables, history>>
      /\ Course("roles", u) /\ Locals("roles", u) /\ OnWorkflow(u, wf)
      /\ Keep(p, v) /\ Goto(p, "role_insert")
  BY TypedFacts DEF ReadRoles, Knows
<1>2. /\ v \in Local /\ v.kind = u.kind /\ v.w = u.w
      /\ v.roles = {n \in u.roles : Active(n) = 0}
  BY <1>1 DEF Local
<1> HIDE DEF v
<1>3. u.kind = "deploy" /\ u.w # Null
  BY <1>1 DEF Course, Before, Building, Undoing
<1>4. Course("role_insert", v) /\ Locals("role_insert", v) /\ "role_insert" \in Plain
      /\ "role_insert" \in Points
  BY <1>1, <1>2, <1>3 DEF Course, Locals, Building, Plain, Points
<1>5. OnWorkflow(v, wf) /\ OnLimit("role_insert", v, wf)
      /\ OnRoles("role_insert", v, roles, raced)
  BY <1>1, <1>2 DEF OnWorkflow, OnLimit, OnRoles, Active
<1>6. Knows("role_insert", v, wf, state, transition, roles, raced)
      /\ Grounded(p, "role_insert", v)
  BY <1>2, <1>4, <1>5, PlainKnows
<1> QED
  BY <1>1, <1>2, <1>4, <1>6, QuietKeep

LEMMA CheckTransitionKeeps ==
  ASSUME DesignInv, NEW p \in Requests, CheckTransition(p)  PROVE  DesignInv'
<1> DEFINE v == loc[p]
<1>1. /\ pc[p] = "transition" /\ v \in Local /\ UNCHANGED <<tables, history>>
      /\ Course("transition", v) /\ Locals("transition", v) /\ OnWorkflow(v, wf)
  BY TypedFacts DEF CheckTransition, Knows
<1>2. CASE Raise(p)
  BY <1>1, <1>2, RaiseKeeps DEF Undoing
<1>3. CASE v.kind = "deploy" /\ Goto(p, "step") /\ UNCHANGED loc
  <2>1. Course("step", v) /\ Locals("step", v) /\ "step" \in Plain
    BY <1>1, <1>3 DEF Course, Locals, Before, Building, Plain, Points
  <2> QED
    BY <1>1, <1>3, <2>1, PassKeeps
<1>4. CASE /\ ~(v.kind = "deploy" /\ v.transitions = <<>>)
           /\ Live(v.w) /\ {Ends(p)[1], Ends(p)[2]} \subseteq RowsOf(state, v.w)
           /\ Goto(p, "transition_insert") /\ UNCHANGED loc
  <2>1. Ends(p)[1] = From(v) /\ Ends(p)[2] = To(v)
    BY DEF Ends, From, To
  <2>2. DOMAIN state = StateIds
    BY DEF DesignInv, Typed, TablesTyped
  <2>3. \A i \in {From(v), To(v)} : i \in StateIds /\ state[i].wf = v.w
    BY <1>4, <2>1, <2>2 DEF RowsOf
  <2>4. v.kind \in {"deploy", "add_transition"} /\ v.w \in Workflows /\ v.w # Null
    BY <1>1, DesignAssumption DEF Course, Before, Building, Undoing, Locals, Local
  <2>5. Course("transition_insert", v) /\ Locals("transition_insert", v)
    BY <1>1, <1>4, <2>3, <2>4 DEF Course, Locals, Building
  <2>6. state[From(v)].used /\ state[To(v)].used
    BY <2>2, <2>3, <2>4 DEF DesignInv, Rows, Owned
  <2>7. OnRows("transition_insert", v, state, transition)
    BY <2>3, <2>6 DEF OnRows, ClaimsState, ClaimsTransition
  <2>8. OnLimit("transition_insert", v, wf) /\ OnRoles("transition_insert", v, roles, raced)
    BY DEF OnLimit, OnRoles
  <2>9. Grounded(p, "transition_insert", v)
    BY <2>3, <2>4 DEF Grounded, ClaimsState, ClaimsTransition
  <2>10. Knows("transition_insert", v, wf, state, transition, roles, raced)
         /\ "transition_insert" \in Points
    BY <1>1, <2>5, <2>7, <2>8 DEF Knows, Points
  <2> QED
    BY <1>1, <1>4, <2>9, <2>10, QuietMove
<1> QED
  BY <1>2, <1>3, <1>4 DEF CheckTransition

LEMMA CheckStepKeeps ==
  ASSUME DesignInv, NEW p \in Requests, CheckStep(p)  PROVE  DesignInv'
<1> DEFINE v == loc[p]
<1>1. /\ pc[p] = "step" /\ v \in Local /\ UNCHANGED <<tables, history>>
      /\ Course("step", v) /\ Locals("step", v)
  BY TypedFacts DEF CheckStep, Knows
<1>2. CASE Raise(p)
  BY <1>1, <1>2, RaiseKeeps DEF Undoing
<1>3. ASSUME NEW l \in {"status", "answer"}, v.kind = "deploy", Goto(p, l), UNCHANGED loc
      PROVE  DesignInv'
  <2>1. Course(l, v) /\ Locals(l, v) /\ l \in Plain
    BY <1>1, <1>3 DEF Course, Locals, Before, Building, Plain, Points
  <2> QED
    BY <1>1, <1>3, <2>1, PassKeeps
<1>4. CASE /\ ~(v.kind = "deploy" /\ v.steps = 0)
           /\ Goto(p, "step_insert") /\ UNCHANGED loc
  <2>1. Course("step_insert", v) /\ "step_insert" \in Plain
    BY <1>1 DEF Course, Before, Building, Undoing, Plain, Points
  <2>2. v.steps \in Nat
    BY <1>1 DEF Local
  <2>3. Locals("step_insert", v)
    BY <1>1, <1>4, <2>2 DEF Course, Locals
  <2> QED
    BY <1>1, <1>4, <2>1, <2>3, PassKeeps
<1> QED
  BY <1>2, <1>3, <1>4 DEF CheckStep

LEMMA AnswerKeeps ==
  ASSUME DesignInv, NEW p \in Requests, Answer(p)  PROVE  DesignInv'
<1> DEFINE v == loc[p]
<1>1. /\ pc[p] = "answer" /\ v \in Local
      /\ Course("answer", v) /\ Locals("answer", v)
      /\ UNCHANGED <<tables, touched, abandoned, raced>>
  BY TypedFacts DEF Answer, Knows
<1>2. answered \subseteq Workflows /\ abandoned \subseteq Workflows
  BY DEF DesignInv, Typed, TablesTyped
<1>3. CASE ~Live(v.w)
  <2>1. UNCHANGED <<tables, history>> /\ Raise(p)
    BY <1>1, <1>3 DEF Answer, history
  <2> QED
    BY <1>1, <2>1, RaiseKeeps DEF Undoing
<1>4. CASE Live(v.w)
  <2>1. End(p) /\ answered' = IF v.kind = "deploy" THEN answered \cup {v.w} ELSE answered
    BY <1>4 DEF Answer
  <2>2. Deploys(p) => v.w \in answered' /\ v.w \in Workflows
    BY <1>1, <2>1 DEF Deploys, Local
  <2>3. answered \subseteq answered' /\ answered' \subseteq Workflows
    <3>1. v.kind = "deploy" => v.w # Null
      BY <1>1 DEF Course, Before
    <3> QED
      BY <1>2, <2>1, <2>2, <3>1 DEF Deploys
  <2>4. UNCHANGED tables /\ UNCHANGED raced /\ touched' = touched /\ abandoned' = abandoned
    BY <1>1
  <2> QED
    BY <1>2, <2>1, <2>2, <2>3, <2>4, QuietEnd
<1> QED
  BY <1>3, <1>4

LEMMA ListExecutionsKeeps ==
  ASSUME DesignInv, NEW p \in Requests, ListExecutions(p)  PROVE  DesignInv'
<1> DEFINE u == loc[p]
           v == [u EXCEPT !.listed = RowsOf(execution, u.w)]
<1>1. /\ pc[p] = "list" /\ u \in Local /\ UNCHANGED <<tables, history>>
      /\ Course("list", u) /\ Locals("list", u) /\ OnWorkflow(u, wf)
  BY TypedFacts DEF ListExecutions, Knows
<1>2. CASE ~Live(u.w)
  BY <1>1, <1>2, QuietEnd, HistoryTyped DEF ListExecutions
<1>3. CASE Live(u.w)
  <2>1. Keep(p, v) /\ Goto(p, "commit")
    BY <1>3 DEF ListExecutions
  <2>2. RowsOf(execution, u.w) \subseteq Executions
    BY DEF RowsOf, DesignInv, Typed, TablesTyped
  <2>3. v \in Local /\ v.kind = u.kind /\ v.w = u.w /\ v.template = u.template
    BY <1>1, <2>2 DEF Local
  <2> HIDE DEF v
  <2>4. Course("commit", v) /\ "commit" \in Plain /\ "commit" \in Points
    BY <1>1, <2>3 DEF Course, Before, Undoing, Plain, Points
  <2>5. Locals("commit", v)
    BY <1>1, <2>3 DEF Course, Locals, Before
  <2>6. OnWorkflow(v, wf) /\ OnLimit("commit", v, wf) /\ OnRoles("commit", v, roles, raced)
    BY <1>1, <2>3 DEF OnWorkflow, OnLimit, OnRoles
  <2>7. Knows("commit", v, wf, state, transition, roles, raced) /\ Grounded(p, "commit", v)
    BY <2>3, <2>4, <2>5, <2>6, PlainKnows
  <2> QED
    BY <1>1, <2>1, <2>3, <2>4, <2>7, QuietKeep
<1> QED
  BY <1>2, <1>3

LEMMA AbandonTyped ==
  ASSUME DesignInv, NEW p \in Requests, Abandon(p)
  PROVE  /\ abandoned \subseteq abandoned' /\ abandoned' \subseteq Workflows
         /\ Deploys(p) => loc[p].w \in abandoned'
<1>1. abandoned \subseteq Workflows /\ loc[p].w \in Workflows \cup {Null}
  BY TypedFacts DEF DesignInv, Typed, TablesTyped, Local
<1> QED
  BY <1>1 DEF Abandon, Deploys

LEMMA FailKeeps ==
  ASSUME DesignInv, NEW p \in Requests, Fail(p)  PROVE  DesignInv'
<1>1. UNCHANGED tables /\ touched' = touched /\ answered' = answered /\ UNCHANGED raced
      /\ Raise(p) /\ answered \subseteq Workflows
  BY DEF Fail, DesignInv, Typed, TablesTyped
<1>2. CASE pc[p] \in Undoing
  <2>1. Abandon(p) /\ End(p)
    BY <1>2 DEF Fail, Raise, Undoing
  <2> QED
    BY <1>1, <2>1, AbandonTyped, QuietEnd
<1>3. CASE pc[p] \notin Undoing
  <2>1. UNCHANGED <<tables, history>>
    BY <1>1, <1>3 DEF Fail, history, Undoing
  <2> QED
    BY <1>1, <1>3, <2>1, RaiseKeeps
<1> QED
  BY <1>2, <1>3

LEMMA CrashKeeps ==
  ASSUME DesignInv, NEW p \in Requests, Crash(p)  PROVE  DesignInv'
<1>1. UNCHANGED tables /\ touched' = touched /\ answered' = answered /\ UNCHANGED raced
      /\ End(p) /\ Abandon(p) /\ answered \subseteq Workflows
  BY DEF Crash, DesignInv, Typed, TablesTyped
<1> QED
  BY <1>1, AbandonTyped, QuietEnd

-----------------------------------------------------------------------------
(* The requests that arrive. *)
LEMMA ArriveKeeps ==
  ASSUME DesignInv, NEW p \in Requests, NEW l \in Points, NEW v \in Local,
         Arrive(p, v, l), Grounded(p, l, v),
         Knows(l, v, wf, state, transition, roles, raced)
  PROVE  DesignInv'
<1>1. /\ started' \in 0..MaxRequests /\ UNCHANGED tables /\ UNCHANGED history
      /\ pc' = [pc EXCEPT ![p] = l] /\ loc' = [loc EXCEPT ![p] = v]
  BY DesignAssumption DEF Arrive, Keep, DesignInv, Typed
<1>2. ~Deploys(p)
  <2>1. pc[p] = "idle"
    BY DEF Arrive
  <2>2. Course("idle", loc[p])
    BY <2>1, TypedFacts DEF Knows
  <2> QED
    BY <2>2 DEF Course, Deploys, Before, Building, Undoing
<1> QED
  BY <1>1, <1>2, HistoryTyped, QuietStep

LEMMA PlainArrival ==
  ASSUME DesignInv, NEW p \in Requests, NEW l \in Plain, NEW v \in Local,
         Arrive(p, v, l), l # "role_insert", l = "insert" => v.kind = "duplicate",
         Course(l, v), Locals(l, v), OnWorkflow(v, wf), ~(v.kind = "deploy" /\ v.w # Null)
  PROVE  DesignInv'
<1>1. OnLimit(l, v, wf) /\ OnRoles(l, v, roles, raced)
  BY DEF OnLimit, OnRoles
<1>2. Knows(l, v, wf, state, transition, roles, raced) /\ Grounded(p, l, v)
  BY <1>1, PlainKnows
<1>3. l \in Points
  BY DEF Plain
<1> QED
  BY <1>2, <1>3, ArriveKeeps

LEMMA BeginDeployKeeps ==
  ASSUME DesignInv, NEW p \in Requests, BeginDeploy(p)  PROVE  DesignInv'
<1>1. PICK t \in Templates :
        Arrive(p, [NoLocal EXCEPT !.kind = "deploy", !.template = t, !.states = t.states,
                     !.transitions = t.transitions, !.steps = t.steps, !.roles = t.roles,
                     !.slugs = t.slugs], "entities")
  BY DEF BeginDeploy
<1> DEFINE v == [NoLocal EXCEPT !.kind = "deploy", !.template = t, !.states = t.states,
                   !.transitions = t.transitions, !.steps = t.steps, !.roles = t.roles,
                   !.slugs = t.slugs]
<1>2. t \in Template
  BY DesignAssumption
<1>3. /\ t.states \in Seq(Keys) /\ t.transitions \in Seq(Keys \X Keys) /\ t.steps \in Nat
      /\ t.roles \in SUBSET RoleNames /\ t.slugs \in SUBSET Slugs
  BY <1>2 DEF Template
<1>4. v \in Local /\ v.kind = "deploy" /\ v.w = Null
  BY <1>3, NoLocalTyped, ZenonT(60) DEF Local, Kinds, NoLocal
<1>5. Arrive(p, v, "entities")
  BY <1>1
<1> HIDE DEF v
<1>6. Course("entities", v) /\ Locals("entities", v) /\ OnWorkflow(v, wf)
      /\ "entities" \in Plain
  BY <1>4 DEF Course, Locals, OnWorkflow, Before, Plain, Points
<1> QED
  BY <1>4, <1>5, <1>6, PlainArrival

LEMMA BeginNewKeeps ==
  ASSUME DesignInv, NEW p \in Requests, BeginNew(p) \/ BeginDuplicate(p)
  PROVE  DesignInv'
<1>1. ASSUME NEW k \in {"create", "duplicate"}, NEW l \in {"count", "insert"},
             k = "duplicate" <=> l = "insert",
             Arrive(p, [NoLocal EXCEPT !.kind = k], l)
      PROVE  DesignInv'
  <2> DEFINE v == [NoLocal EXCEPT !.kind = k]
  <2>1. v \in Local /\ v.kind = k /\ v.w = Null /\ v.template = EmptyTemplate
    BY NoLocalTyped, ZenonT(60) DEF Local, Kinds, NoLocal
  <2>2. Arrive(p, v, l)
    BY <1>1
  <2> HIDE DEF v
  <2>3. Course(l, v) /\ Locals(l, v) /\ OnWorkflow(v, wf) /\ l \in Plain
    BY <1>1, <2>1 DEF Course, Locals, OnWorkflow, Plain, Points
  <2> QED
    BY <1>1, <2>1, <2>2, <2>3, PlainArrival
<1> QED
  BY <1>1 DEF BeginNew, BeginDuplicate

LEMMA LiveStarted == ASSUME NEW w, Live(w) PROVE wf[w].status # "free"
BY DEF Live

LEMMA BeginStatusKeeps ==
  ASSUME DesignInv, NEW p \in Requests, BeginStatus(p)  PROVE  DesignInv'
<1>1. PICK w \in LiveWorkflows, k \in {"activate", "pause", "update"} :
        Arrive(p, [NoLocal EXCEPT !.kind = k, !.w = w], "status")
  BY DEF BeginStatus
<1> DEFINE v == [NoLocal EXCEPT !.kind = k, !.w = w]
<1>2. w \in Workflows /\ wf[w].status # "free"
  BY LiveStarted DEF LiveWorkflows
<1>3. v \in Local /\ v.kind = k /\ v.w = w /\ v.template = EmptyTemplate
  BY <1>2, NoLocalTyped, ZenonT(60) DEF Local, Kinds, NoLocal
<1>4. Arrive(p, v, "status")
  BY <1>1
<1> HIDE DEF v
<1>5. Course("status", v) /\ Locals("status", v) /\ OnWorkflow(v, wf) /\ "status" \in Plain
  BY <1>2, <1>3 DEF Course, Locals, OnWorkflow, Plain, Points
<1> QED
  BY <1>3, <1>4, <1>5, PlainArrival

LEMMA BeginAddKeeps ==
  ASSUME DesignInv, NEW p \in Requests, BeginAdd(p)  PROVE  DesignInv'
<1>1. PICK w \in LiveWorkflows :
        \/ \E k \in Keys :
             Arrive(p, [NoLocal EXCEPT !.kind = "add_state", !.w = w, !.key = k], "state")
        \/ \E i, j \in RowsOf(state, w) :
             Arrive(p, [NoLocal EXCEPT !.kind = "add_transition", !.w = w, !.id = i, !.to = j],
                    "transition")
        \/ Arrive(p, [NoLocal EXCEPT !.kind = "add_step", !.w = w], "step")
  BY DEF BeginAdd
<1>2. w \in Workflows /\ wf[w].status # "free"
  BY LiveStarted DEF LiveWorkflows
<1>3. ASSUME NEW k \in Keys,
             Arrive(p, [NoLocal EXCEPT !.kind = "add_state", !.w = w, !.key = k], "state")
      PROVE  DesignInv'
  <2> DEFINE v == [NoLocal EXCEPT !.kind = "add_state", !.w = w, !.key = k]
  <2>1. /\ v \in Local /\ v.kind = "add_state" /\ v.w = w /\ v.key = k
        /\ v.template = EmptyTemplate
    BY <1>2, NoLocalTyped, ZenonT(60) DEF Local, Kinds, NoLocal
  <2>2. Arrive(p, v, "state")
    BY <1>3
  <2> HIDE DEF v
  <2>3. Course("state", v) /\ Locals("state", v) /\ OnWorkflow(v, wf) /\ "state" \in Plain
    BY <1>2, <2>1 DEF Course, Locals, OnWorkflow, Plain, Points
  <2> QED
    BY <2>1, <2>2, <2>3, PlainArrival
<1>4. ASSUME NEW i \in RowsOf(state, w), NEW j \in RowsOf(state, w),
             Arrive(p, [NoLocal EXCEPT !.kind = "add_transition", !.w = w, !.id = i, !.to = j],
                    "transition")
      PROVE  DesignInv'
  <2> DEFINE v == [NoLocal EXCEPT !.kind = "add_transition", !.w = w, !.id = i, !.to = j]
  <2>0. i \in StateIds /\ j \in StateIds
    BY DEF RowsOf, DesignInv, Typed, TablesTyped
  <2>1. /\ v \in Local /\ v.kind = "add_transition" /\ v.w = w /\ v.id = i /\ v.to = j
        /\ v.template = EmptyTemplate
    BY <1>2, <2>0, NoLocalTyped, ZenonT(60) DEF Local, Kinds, NoLocal
  <2>2. Arrive(p, v, "transition")
    BY <1>4
  <2> HIDE DEF v
  <2>3. /\ Course("transition", v) /\ Locals("transition", v) /\ OnWorkflow(v, wf)
        /\ "transition" \in Plain
    BY <1>2, <2>0, <2>1 DEF Course, Locals, OnWorkflow, Plain, Points
  <2> QED
    BY <2>1, <2>2, <2>3, PlainArrival
<1>5. CASE Arrive(p, [NoLocal EXCEPT !.kind = "add_step", !.w = w], "step")
  <2> DEFINE v == [NoLocal EXCEPT !.kind = "add_step", !.w = w]
  <2>1. v \in Local /\ v.kind = "add_step" /\ v.w = w /\ v.template = EmptyTemplate
    BY <1>2, NoLocalTyped, ZenonT(60) DEF Local, Kinds, NoLocal
  <2>2. Arrive(p, v, "step")
    BY <1>5
  <2> HIDE DEF v
  <2>3. Course("step", v) /\ Locals("step", v) /\ OnWorkflow(v, wf) /\ "step" \in Plain
    BY <1>2, <2>1 DEF Course, Locals, OnWorkflow, Plain, Points
  <2> QED
    BY <2>1, <2>2, <2>3, PlainArrival
<1> QED
  BY <1>1, <1>3, <1>4, <1>5

(* What a row that is stored says of its workflow. *)
LEMMA StoredRow ==
  ASSUME DesignInv
  PROVE  /\ \A i \in StateIds : state[i].wf # Null =>
              /\ state[i].used /\ state[i].wf \in Workflows
              /\ wf[state[i].wf].status # "free" /\ Live(state[i].wf)
         /\ \A i \in TransitionIds : transition[i].wf # Null =>
              /\ transition[i].used /\ transition[i].wf \in Workflows
              /\ wf[transition[i].wf].status # "free" /\ Live(transition[i].wf)
         /\ \A i \in StepIds : step[i].wf # Null =>
              /\ step[i].wf \in Workflows /\ wf[step[i].wf].status # "free"
              /\ Live(step[i].wf)
<1>1. /\ state \in [StateIds -> StateRow] /\ transition \in [TransitionIds -> TransitionRow]
      /\ step \in [StepIds -> ChildRow]
      /\ Owned(state) /\ Owned(transition) /\ Owned(step)
  BY DEF DesignInv, Typed, TablesTyped, Rows
<1>2. ASSUME NEW i \in StateIds, state[i].wf # Null
      PROVE  /\ state[i].used /\ state[i].wf \in Workflows
             /\ wf[state[i].wf].status # "free" /\ Live(state[i].wf)
  BY <1>1, <1>2, LiveStarted DEF Owned, StateRow
<1>3. ASSUME NEW i \in TransitionIds, transition[i].wf # Null
      PROVE  /\ transition[i].used /\ transition[i].wf \in Workflows
             /\ wf[transition[i].wf].status # "free" /\ Live(transition[i].wf)
  BY <1>1, <1>3, LiveStarted DEF Owned, TransitionRow
<1>4. ASSUME NEW i \in StepIds, step[i].wf # Null
      PROVE  step[i].wf \in Workflows /\ wf[step[i].wf].status # "free" /\ Live(step[i].wf)
  BY <1>1, <1>4, LiveStarted DEF Owned, ChildRow
<1> QED
  BY <1>2, <1>3, <1>4

(* A request about a row it has found. *)
LEMMA RowArrival ==
  ASSUME DesignInv, NEW p \in Requests, NEW v \in Local, NEW l \in Points,
         Arrive(p, v, l), Course(l, v), Locals(l, v), OnWorkflow(v, wf),
         l \in {"change", "cut", "move", "cut_transition"},
         l \in {"change", "cut"} => v.w = state[v.id].wf,
         l \in {"move", "cut_transition"} => v.w = transition[v.id].wf
  PROVE  DesignInv'
<1>1. /\ v.w # Null /\ v.kind # "deploy"
      /\ l \in {"change", "cut"} => v.id \in StateIds
      /\ l \in {"move", "cut_transition"} => v.id \in TransitionIds
  BY DesignAssumption DEF Course, Locals, Before, Building, Undoing
<1>2. OnRows(l, v, state, transition)
  BY <1>1, StoredRow DEF OnRows, ClaimsState, ClaimsTransition
<1>3. Grounded(p, l, v)
  BY <1>1 DEF Grounded, ClaimsState, ClaimsTransition
<1>4. OnLimit(l, v, wf) /\ OnRoles(l, v, roles, raced)
  BY DEF OnLimit, OnRoles
<1> QED
  BY <1>2, <1>3, <1>4, ArriveKeeps DEF Knows

LEMMA BeginEditKeeps ==
  ASSUME DesignInv, NEW p \in Requests, BeginEdit(p)  PROVE  DesignInv'
<1>1. ASSUME NEW i \in StateIds, NEW k \in Keys, state[i].wf # Null,
             Arrive(p, [NoLocal EXCEPT !.kind = "change_state", !.w = state[i].wf, !.id = i,
                                       !.key = k], "change")
      PROVE  DesignInv'
  <2> DEFINE v == [NoLocal EXCEPT !.kind = "change_state", !.w = state[i].wf, !.id = i,
                                  !.key = k]
  <2>1. state[i].wf \in Workflows /\ wf[state[i].wf].status # "free"
    BY <1>1, StoredRow
  <2>2. /\ v \in Local /\ v.kind = "change_state" /\ v.w = state[i].wf /\ v.id = i
        /\ v.key = k /\ v.template = EmptyTemplate
    BY <2>1, NoLocalTyped, ZenonT(60) DEF Local, Kinds, NoLocal
  <2>3. Arrive(p, v, "change")
    BY <1>1
  <2> HIDE DEF v
  <2>4. Course("change", v) /\ Locals("change", v) /\ OnWorkflow(v, wf) /\ "change" \in Points
    BY <2>1, <2>2 DEF Course, Locals, OnWorkflow, Points
  <2> QED
    BY <2>2, <2>3, <2>4, RowArrival
<1>2. ASSUME NEW i \in StateIds, state[i].wf # Null,
             Arrive(p, [NoLocal EXCEPT !.kind = "drop_state", !.w = state[i].wf, !.id = i], "cut")
      PROVE  DesignInv'
  <2> DEFINE v == [NoLocal EXCEPT !.kind = "drop_state", !.w = state[i].wf, !.id = i]
  <2>1. state[i].wf \in Workflows /\ wf[state[i].wf].status # "free"
    BY <1>2, StoredRow
  <2>2. /\ v \in Local /\ v.kind = "drop_state" /\ v.w = state[i].wf /\ v.id = i
        /\ v.template = EmptyTemplate
    BY <2>1, NoLocalTyped, ZenonT(60) DEF Local, Kinds, NoLocal
  <2>3. Arrive(p, v, "cut")
    BY <1>2
  <2> HIDE DEF v
  <2>4. Course("cut", v) /\ Locals("cut", v) /\ OnWorkflow(v, wf) /\ "cut" \in Points
    BY <2>1, <2>2 DEF Course, Locals, OnWorkflow, Points
  <2> QED
    BY <2>2, <2>3, <2>4, RowArrival
<1>3. ASSUME NEW t \in TransitionIds, NEW i \in StateIds, transition[t].wf # Null,
             Arrive(p, [NoLocal EXCEPT !.kind = "move_transition", !.w = transition[t].wf,
                                       !.id = t, !.to = i], "move")
      PROVE  DesignInv'
  <2> DEFINE v == [NoLocal EXCEPT !.kind = "move_transition", !.w = transition[t].wf,
                                  !.id = t, !.to = i]
  <2>1. transition[t].wf \in Workflows /\ wf[transition[t].wf].status # "free"
    BY <1>3, StoredRow
  <2>2. /\ v \in Local /\ v.kind = "move_transition" /\ v.w = transition[t].wf /\ v.id = t
        /\ v.to = i /\ v.template = EmptyTemplate
    BY <2>1, NoLocalTyped, ZenonT(60) DEF Local, Kinds, NoLocal
  <2>3. Arrive(p, v, "move")
    BY <1>3
  <2> HIDE DEF v
  <2>4. Course("move", v) /\ Locals("move", v) /\ OnWorkflow(v, wf) /\ "move" \in Points
    BY <2>1, <2>2 DEF Course, Locals, OnWorkflow, Points
  <2> QED
    BY <2>2, <2>3, <2>4, RowArrival
<1>4. ASSUME NEW t \in TransitionIds, transition[t].wf # Null,
             Arrive(p, [NoLocal EXCEPT !.kind = "drop_transition", !.w = transition[t].wf,
                                       !.id = t], "cut_transition")
      PROVE  DesignInv'
  <2> DEFINE v == [NoLocal EXCEPT !.kind = "drop_transition", !.w = transition[t].wf, !.id = t]
  <2>1. transition[t].wf \in Workflows /\ wf[transition[t].wf].status # "free"
    BY <1>4, StoredRow
  <2>2. /\ v \in Local /\ v.kind = "drop_transition" /\ v.w = transition[t].wf /\ v.id = t
        /\ v.template = EmptyTemplate
    BY <2>1, NoLocalTyped, ZenonT(60) DEF Local, Kinds, NoLocal
  <2>3. Arrive(p, v, "cut_transition")
    BY <1>4
  <2> HIDE DEF v
  <2>4. /\ Course("cut_transition", v) /\ Locals("cut_transition", v) /\ OnWorkflow(v, wf)
        /\ "cut_transition" \in Points
    BY <2>1, <2>2 DEF Course, Locals, OnWorkflow, Points
  <2> QED
    BY <2>2, <2>3, <2>4, RowArrival
<1>5. ASSUME NEW i \in StepIds, step[i].wf # Null,
             Arrive(p, [NoLocal EXCEPT !.kind = "drop_step", !.w = step[i].wf, !.id = i],
                    "cut_step")
      PROVE  DesignInv'
  <2> DEFINE v == [NoLocal EXCEPT !.kind = "drop_step", !.w = step[i].wf, !.id = i]
  <2>1. step[i].wf \in Workflows /\ wf[step[i].wf].status # "free"
    BY <1>5, StoredRow
  <2>2. /\ v \in Local /\ v.kind = "drop_step" /\ v.w = step[i].wf /\ v.id = i
        /\ v.template = EmptyTemplate
    BY <2>1, NoLocalTyped, ZenonT(60) DEF Local, Kinds, NoLocal
  <2>3. Arrive(p, v, "cut_step")
    BY <1>5
  <2> HIDE DEF v
  <2>4. /\ Course("cut_step", v) /\ Locals("cut_step", v) /\ OnWorkflow(v, wf)
        /\ "cut_step" \in Plain
    BY <2>1, <2>2 DEF Course, Locals, OnWorkflow, Plain, Points
  <2> QED
    BY <2>2, <2>3, <2>4, PlainArrival
<1> QED
  BY <1>1, <1>2, <1>3, <1>4, <1>5 DEF BeginEdit

LEMMA BeginWholeKeeps ==
  ASSUME DesignInv, NEW p \in Requests, BeginRemove(p) \/ BeginTrigger(p)
  PROVE  DesignInv'
<1>1. PICK w \in Workflows, k \in {"remove", "trigger"}, l \in {"list", "execute"} :
        /\ k = "remove" <=> l = "list"
        /\ Live(w) /\ Arrive(p, [NoLocal EXCEPT !.kind = k, !.w = w], l)
  BY DEF BeginRemove, BeginTrigger, LiveWorkflows, Live
<1> DEFINE v == [NoLocal EXCEPT !.kind = k, !.w = w]
<1>2. v \in Local /\ v.kind = k /\ v.w = w /\ v.template = EmptyTemplate
  BY NoLocalTyped, ZenonT(60) DEF Local, Kinds, NoLocal
<1>3. Arrive(p, v, l)
  BY <1>1
<1> HIDE DEF v
<1>4. Course(l, v) /\ Locals(l, v) /\ OnWorkflow(v, wf) /\ l \in Plain
  BY <1>1, <1>2, LiveStarted DEF Course, Locals, OnWorkflow, Undoing, Plain, Points
<1> QED
  BY <1>1, <1>2, <1>3, <1>4, PlainArrival

LEMMA BeginKeeps ==
  ASSUME DesignInv, NEW p \in Requests, Begin(p)  PROVE  DesignInv'
BY BeginDeployKeeps, BeginNewKeeps, BeginStatusKeeps, BeginAddKeeps, BeginEditKeeps,
   BeginWholeKeeps DEF Begin

-----------------------------------------------------------------------------
(* Statements that write rows of a workflow and leave the workflows alone. *)
RowsTyped == /\ state \in [StateIds -> StateRow] /\ transition \in [TransitionIds -> TransitionRow]
             /\ step \in [StepIds -> ChildRow] /\ execution \in [Executions -> ExecutionRow]
             /\ touched \subseteq Workflows

LEMMA RowsStep ==
  ASSUME DesignInv, NEW p \in Requests, NEW l \in Points, NEW v \in Local,
         UNCHANGED <<wf, entities, roles, answered, abandoned, raced>>, RowsTyped', Rows',
         started' = started, pc' = [pc EXCEPT ![p] = l], loc' = [loc EXCEPT ![p] = v],
         Evolved(pc[p], loc[p], wf, wf, state, state', transition, transition'),
         Deploys(p) => v.kind = "deploy" /\ v.w = loc[p].w,
         Grounded(p, l, v), Knows(l, v, wf, state', transition', roles, raced)
  PROVE  DesignInv'
<1>1. TablesTyped' /\ started' \in 0..MaxRequests
  BY DEF DesignInv, Typed, TablesTyped, RowsTyped
<1>2. WithinLimit' /\ SecondRoleHasCause'
  BY DEF DesignInv, WithinLimit, Honest, LiveWorkflows, Live, SecondRoleHasCause, Active
<1>3. loc' \in [Requests -> Local] /\ loc'[p] = v
  BY DEF DesignInv, Typed
<1>4. Evolved(pc[p], loc[p], wf, wf', state, state', transition, transition')
  OBVIOUS
<1>5. Aside(p)
  BY DEF Aside, Alike, LiveNotMore, DesignInv, Typed
<1>6. Settles(p, v)
  BY DEF Settles
<1>7. Knows(l, v, wf', state', transition', roles', raced') /\ raced \subseteq raced'
  OBVIOUS
<1> QED
  BY <1>1, <1>2, <1>3, <1>4, <1>5, <1>6, <1>7, StepOfOne

LEMMA RowsEnd ==
  ASSUME DesignInv, NEW p \in Requests, End(p), ~Deploys(p),
         UNCHANGED <<wf, entities, roles, answered, abandoned, raced>>, RowsTyped', Rows',
         Evolved(pc[p], loc[p], wf, wf, state, state', transition, transition')
  PROVE  DesignInv'
BY EndKnows, NoLocalTyped, RowsStep DEF End, Goto, Keep

LEMMA RowsOn ==
  ASSUME DesignInv, NEW p \in Requests, NEW l \in Plain, NEW v \in Local,
         l # "insert", l # "role_insert", Goto(p, l), Keep(p, v),
         v.kind = loc[p].kind, v.w = loc[p].w, Course(l, v), Locals(l, v),
         UNCHANGED <<wf, entities, roles, answered, abandoned, raced>>, RowsTyped', Rows',
         Evolved(pc[p], loc[p], wf, wf, state, state', transition, transition')
  PROVE  DesignInv'
<1>1. OnWorkflow(v, wf)
  BY TypedFacts DEF Knows, OnWorkflow
<1>2. OnLimit(l, v, wf) /\ OnRoles(l, v, roles, raced)
  BY DEF OnLimit, OnRoles
<1>3. Knows(l, v, wf, state', transition', roles, raced) /\ Grounded(p, l, v)
  BY <1>1, <1>2, PlainKnows
<1>4. l \in Points /\ (Deploys(p) => v.kind = "deploy" /\ v.w = loc[p].w)
  BY DEF Plain, Deploys
<1>5. /\ started' = started /\ pc' = [pc EXCEPT ![p] = l] /\ loc' = [loc EXCEPT ![p] = v]
  BY DEF Goto, Keep
<1> QED
  BY <1>3, <1>4, <1>5, RowsStep

LEMMA NextFree ==
  ASSUME NEW table, NEW i \in NextId(table)  PROVE  i \in DOMAIN table /\ ~table[i].used
BY DEF NextId

LEMMA TouchTyped ==
  ASSUME DesignInv, NEW p \in Requests, NEW w \in Workflows, Touch(p, w)
  PROVE  touched' \subseteq Workflows
BY DEF Touch, DesignInv, Typed, TablesTyped

(* The state at id i of workflow w is written. *)
LEMMA WriteState ==
  ASSUME DesignInv, NEW i \in StateIds, NEW w \in Workflows, NEW k \in Keys,
         Live(w), KeyFree(w, k, i), state[i].wf \in {Null, w},
         state' = [state EXCEPT ![i] = [wf |-> w, key |-> k, used |-> TRUE]],
         UNCHANGED <<wf, transition, step, execution>>, touched' \subseteq Workflows
  PROVE  /\ RowsTyped' /\ Rows'
         /\ \A j \in StateIds : state[j].used =>
              /\ state'[j].used /\ (state'[j].wf = state[j].wf \/ (j = i /\ state'[j].wf = w))
<1> DEFINE x == [wf |-> w, key |-> k, used |-> TRUE]
<1>1. /\ wf' = wf /\ transition' = transition /\ step' = step /\ execution' = execution
      /\ state \in [StateIds -> StateRow] /\ transition \in [TransitionIds -> TransitionRow]
      /\ w # Null
  BY DesignAssumption DEF DesignInv, Typed, TablesTyped
<1>2. /\ state'[i] = x /\ \A j \in StateIds \ {i} : state'[j] = state[j]
      /\ state' \in [StateIds -> StateRow]
  BY <1>1 DEF StateRow
<1>3. RowsTyped'
  BY <1>1, <1>2 DEF RowsTyped, DesignInv, Typed, TablesTyped
<1>4. Owned(state)' /\ Owned(transition)' /\ Owned(step)' /\ Owned(execution)'
  <2>1. Owned(state) /\ Owned(transition) /\ Owned(step) /\ Owned(execution)
    BY DEF DesignInv, Rows
  <2>2. Owned(state)'
    BY <1>1, <1>2, <2>1 DEF Owned, Live
  <2> QED
    BY <1>1, <2>1, <2>2 DEF Owned, Live
<1>5. Joined'
  <2>1. Joined
    BY DEF DesignInv, Rows
  <2>2. \A j \in StateIds : state[j].wf # Null => state'[j].wf = state[j].wf
    BY <1>2
  <2> QED
    BY <1>1, <2>1, <2>2 DEF Joined, Joins
<1>6. OneStatePerKey'
  <2>1. OneStatePerKey
    BY DEF DesignInv, Rows
  <2>2. \A j \in StateIds \ {i} : state[j].wf = w => state[j].key # k
    BY <1>1 DEF KeyFree, RowsOf
  <2> QED
    BY <1>1, <1>2, <2>1, <2>2 DEF OneStatePerKey
<1>7. \A j \in StateIds : state[j].used =>
        /\ state'[j].used /\ (state'[j].wf = state[j].wf \/ (j = i /\ state'[j].wf = w))
  BY <1>2
<1> QED
  BY <1>3, <1>4, <1>5, <1>6, <1>7 DEF Rows

(* The transition at id i of workflow w is written. *)
RowOf(x, w) == x \in TransitionRow /\ x.wf = w /\ x.used = TRUE /\ Joins(x)
Put(table, i, x) == [table EXCEPT ![i] = x]
(* Every row keeps its workflow, but for the one at i, which w has now. *)
RowsKept(T, T2, i, w) ==
  \A j \in TransitionIds : T[j].used =>
    /\ T2[j].used
    /\ \/ T2[j].wf = T[j].wf
       \/ j = i /\ T2[j].wf = w
LEMMA WriteTransition ==
  ASSUME DesignInv, NEW i \in TransitionIds, NEW x, NEW w \in Workflows, Live(w), RowOf(x, w),
         transition' = Put(transition, i, x),
         UNCHANGED <<wf, state, step, execution>>, touched' \subseteq Workflows
  PROVE  /\ RowsTyped' /\ Rows'
         /\ RowsKept(transition, transition', i, w)
<1>1. /\ wf' = wf /\ state' = state /\ step' = step /\ execution' = execution
      /\ state \in [StateIds -> StateRow] /\ transition \in [TransitionIds -> TransitionRow]
      /\ w # Null
      /\ x \in TransitionRow /\ x.wf = w /\ x.used = TRUE /\ Joins(x)
  BY DesignAssumption DEF DesignInv, Typed, TablesTyped, RowOf
<1>2. /\ transition'[i] = x /\ \A j \in TransitionIds \ {i} : transition'[j] = transition[j]
      /\ transition' \in [TransitionIds -> TransitionRow]
  BY <1>1 DEF TransitionRow, Put
<1>3. RowsTyped'
  BY <1>1, <1>2 DEF RowsTyped, DesignInv, Typed, TablesTyped
<1>4. Owned(state)' /\ Owned(transition)' /\ Owned(step)' /\ Owned(execution)'
  <2>1. Owned(state) /\ Owned(transition) /\ Owned(step) /\ Owned(execution)
    BY DEF DesignInv, Rows
  <2>2. Owned(transition)'
    BY <1>1, <1>2, <2>1 DEF Owned, Live
  <2> QED
    BY <1>1, <2>1, <2>2 DEF Owned, Live
<1>5. Joined'
  <2>1. Joined
    BY DEF DesignInv, Rows
  <2>2. Joins(x)'
    BY <1>1 DEF Joins
  <2> QED
    BY <1>1, <1>2, <2>1, <2>2 DEF Joined, Joins
<1>6. OneStatePerKey'
  BY <1>1 DEF OneStatePerKey, DesignInv, Rows
<1>7. RowsKept(transition, transition', i, w)
  BY <1>1, <1>2 DEF RowsKept
<1> QED
  BY <1>3, <1>4, <1>5, <1>6, <1>7 DEF Rows

(* A transition that is moved joins two states that exist. *)
LEMMA WriteMoved ==
  ASSUME DesignInv, NEW t \in TransitionIds, NEW a \in StateIds, NEW b \in StateIds,
         NEW w \in Workflows, Live(w), StatesExist(a, b),
         transition' = Put(transition, t,
           [wf |-> w, from |-> a, to |-> b, moved |-> TRUE, used |-> TRUE]),
         UNCHANGED <<wf, state, step, execution>>, touched' \subseteq Workflows
  PROVE  /\ RowsTyped' /\ Rows'
         /\ RowsKept(transition, transition', t, w)
<1> DEFINE x == [wf |-> w, from |-> a, to |-> b, moved |-> TRUE, used |-> TRUE]
<1>1. /\ x \in TransitionRow /\ x.wf = w /\ x.used = TRUE
      /\ x.from = a /\ x.to = b /\ x.moved = TRUE
      /\ transition' = Put(transition, t, x)
  BY DEF TransitionRow
<1> HIDE DEF x
<1>2. RowOf(x, w)
  BY <1>1 DEF RowOf, Joins, StatesExist
<1>3. transition' = Put(transition, t, x)
  BY <1>1
<1> QED
  BY <1>2, <1>3, WriteTransition

LEMMA InsertStateKeeps ==
  ASSUME DesignInv, NEW p \in Requests, InsertState(p)  PROVE  DesignInv'
<1> DEFINE u == loc[p]
<1>1. /\ pc[p] = "state_insert" /\ u \in Local
      /\ Course("state_insert", u) /\ Locals("state_insert", u)
      /\ UNCHANGED <<execution, entities, roles, answered, abandoned, raced>>
      /\ UNCHANGED <<wf, transition, step>>
  BY TypedFacts DEF InsertState, Only, Knows
<1>2. u.kind \in {"deploy", "add_state"} /\ u.w \in Workflows /\ u.w # Null
  BY <1>1, DesignAssumption DEF Course, Locals, Local, Before, Building, Undoing
<1>3. NextKey(p) \in Keys
  BY <1>1, <1>2, HeadTailProperties DEF NextKey, Locals, Local
<1>4. CASE ~(Live(u.w) /\ KeyFree(u.w, NextKey(p), Null))
  <2>1. UNCHANGED <<tables, history>> /\ Raise(p)
    BY <1>1, <1>4 DEF InsertState, tables, history
  <2> QED
    BY <1>1, <2>1, RaiseKeeps DEF Undoing
<1>5. CASE Live(u.w) /\ KeyFree(u.w, NextKey(p), Null)
  <2>1. PICK i \in NextId(state) :
          /\ state' = [state EXCEPT ![i] = [wf |-> u.w, key |-> NextKey(p), used |-> TRUE]]
          /\ Touch(p, u.w)
          /\ IF u.kind = "deploy"
             THEN /\ Keep(p, [u EXCEPT !.states = Tail(@), !.ids[NextKey(p)] = i])
                  /\ Goto(p, "state")
             ELSE End(p)
    BY <1>5 DEF InsertState
  <2>2. i \in StateIds /\ ~state[i].used /\ state[i].wf = Null
    BY NextFree DEF DesignInv, Typed, TablesTyped, Rows, Owned
  <2>3. KeyFree(u.w, NextKey(p), i)
    BY <1>5, DesignAssumption DEF KeyFree, RowsOf, DesignInv, Typed, TablesTyped
  <2>4. touched' \subseteq Workflows
    BY <1>2, <2>1, TouchTyped
  <2>5. /\ RowsTyped' /\ Rows'
        /\ \A j \in StateIds : state[j].used =>
              /\ state'[j].used /\ (state'[j].wf = state[j].wf \/ (j = i /\ state'[j].wf = u.w))
    BY <1>1, <1>2, <1>3, <1>5, <2>1, <2>2, <2>3, <2>4, WriteState
  <2>6. Evolved(pc[p], u, wf, wf, state, state', transition, transition')
    BY <1>1, <2>2, <2>5 DEF Evolved
  <2>7. CASE u.kind # "deploy"
    BY <1>1, <2>1, <2>5, <2>6, <2>7, RowsEnd DEF Deploys
  <2>8. CASE u.kind = "deploy"
    <3> DEFINE v == [u EXCEPT !.states = Tail(@), !.ids[NextKey(p)] = i]
    <3>1. Tail(u.states) \in Seq(Keys)
      BY <1>1, <2>8, HeadTailProperties DEF Locals, Local
    <3>2. v \in Local /\ v.kind = "deploy" /\ v.w = u.w
      BY <1>1, <1>3, <2>2, <2>8, <3>1 DEF Local
    <3>3. Keep(p, v) /\ Goto(p, "state")
      BY <2>1, <2>8
    <3> HIDE DEF v
    <3>4. Course("state", v) /\ Locals("state", v) /\ "state" \in Plain
      BY <1>2, <3>2 DEF Course, Locals, Building, Plain, Points
    <3> QED
      BY <1>1, <2>5, <2>6, <2>8, <3>2, <3>3, <3>4, RowsOn
  <2> QED
    BY <2>7, <2>8
<1> QED
  BY <1>4, <1>5

LEMMA InsertTransitionKeeps ==
  ASSUME DesignInv, NEW p \in Requests, InsertTransition(p)  PROVE  DesignInv'
<1> DEFINE u == loc[p]
<1>1. /\ pc[p] = "transition_insert" /\ u \in Local
      /\ Course("transition_insert", u) /\ Locals("transition_insert", u)
      /\ OnRows("transition_insert", u, state, transition)
      /\ UNCHANGED <<execution, entities, roles, answered, abandoned, raced>>
      /\ UNCHANGED <<wf, state, step>>
  BY TypedFacts DEF InsertTransition, Only, Knows
<1>2. u.kind \in {"deploy", "add_transition"} /\ u.w \in Workflows /\ u.w # Null
  BY <1>1, DesignAssumption DEF Course, Locals, Local, Before, Building, Undoing
<1>3. Ends(p)[1] = From(u) /\ Ends(p)[2] = To(u)
  BY DEF Ends, From, To
<1>4. From(u) \in StateIds /\ To(u) \in StateIds
  BY <1>1 DEF Locals
<1>5. CASE ~(Live(u.w) /\ StatesExist(From(u), To(u)))
  <2>1. UNCHANGED <<tables, history>> /\ Raise(p)
    BY <1>1, <1>3, <1>5 DEF InsertTransition, tables, history
  <2> QED
    BY <1>1, <2>1, RaiseKeeps DEF Undoing
<1>6. CASE Live(u.w) /\ StatesExist(From(u), To(u))
  <2>1. PICK i \in NextId(transition) :
          transition' = [transition EXCEPT ![i] =
            [wf |-> u.w, from |-> From(u), to |-> To(u), moved |-> FALSE, used |-> TRUE]]
    BY <1>3, <1>6 DEF InsertTransition
  <2>2. /\ Touch(p, u.w)
        /\ IF u.kind = "deploy"
           THEN Goto(p, "transition") /\ Keep(p, [u EXCEPT !.transitions = Tail(@)])
           ELSE End(p)
    BY <1>3, <1>6 DEF InsertTransition
  <2>3. i \in TransitionIds /\ ~transition[i].used
    BY NextFree DEF DesignInv, Typed, TablesTyped
  <2>4. state[From(u)].wf = u.w /\ state[To(u)].wf = u.w
    BY <1>1, <1>4, <1>6 DEF OnRows, ClaimsState, StatesExist
  <2>5. touched' \subseteq Workflows
    BY <1>2, <2>2, TouchTyped
  <2> DEFINE x == [wf |-> u.w, from |-> From(u), to |-> To(u), moved |-> FALSE, used |-> TRUE]
  <2>a. /\ x \in TransitionRow /\ x.wf = u.w /\ x.used /\ x.from = From(u) /\ x.to = To(u)
        /\ transition' = Put(transition, i, x)
    BY <1>2, <1>4, <2>1 DEF TransitionRow, Put
  <2> HIDE DEF x
  <2>b. RowOf(x, u.w)
    BY <1>2, <1>4, <2>4, <2>a DEF Joins, RowOf
  <2>6. UNCHANGED <<wf, state, step, execution>>
    BY <1>1
  <2>7. /\ RowsTyped' /\ Rows'
        /\ RowsKept(transition, transition', i, u.w)
    BY <1>2, <1>6, <2>3, <2>5, <2>6, <2>a, <2>b, WriteTransition
  <2>8. Evolved(pc[p], u, wf, wf, state, state', transition, transition')
    BY <1>1, <2>3, <2>7 DEF Evolved, RowsKept
  <2>9. CASE u.kind # "deploy"
    BY <1>1, <2>2, <2>7, <2>8, <2>9, RowsEnd DEF Deploys
  <2>10. CASE u.kind = "deploy"
    <3> DEFINE v == [u EXCEPT !.transitions = Tail(@)]
    <3>1. Tail(u.transitions) \in Seq(Keys \X Keys)
      BY <1>1, <2>10, HeadTailProperties DEF Locals, Local
    <3>2. v \in Local /\ v.kind = "deploy" /\ v.w = u.w
      BY <1>1, <2>10, <3>1, ZenonT(60) DEF Local
    <3>3. Keep(p, v) /\ Goto(p, "transition")
      BY <2>2, <2>10
    <3> HIDE DEF v
    <3>4. Course("transition", v) /\ Locals("transition", v) /\ "transition" \in Plain
      BY <1>2, <3>2 DEF Course, Locals, Building, Plain, Points
    <3> QED
      BY <1>1, <2>7, <2>8, <2>10, <3>2, <3>3, <3>4, RowsOn
  <2> QED
    BY <2>9, <2>10
<1> QED
  BY <1>5, <1>6

(* Steps and executions refer to nothing but their workflow. *)
LEMMA ChildRows ==
  ASSUME DesignInv, NEW lp, NEW vp, UNCHANGED <<wf, state, transition>>,
         Owned(step)', Owned(execution)'
  PROVE  Rows' /\ Evolved(lp, vp, wf, wf, state, state', transition, transition')
<1>1. wf' = wf /\ state' = state /\ transition' = transition
  OBVIOUS
<1>2. Rows'
  BY <1>1 DEF DesignInv, Rows, Owned, Live, Joined, Joins, OneStatePerKey
<1>3. Evolved(lp, vp, wf, wf, state, state', transition, transition')
  BY <1>1 DEF Evolved
<1> QED
  BY <1>2, <1>3

LEMMA InsertStepKeeps ==
  ASSUME DesignInv, NEW p \in Requests, InsertStep(p)  PROVE  DesignInv'
<1> DEFINE u == loc[p]
<1>1. /\ pc[p] = "step_insert" /\ u \in Local
      /\ Course("step_insert", u) /\ Locals("step_insert", u)
      /\ UNCHANGED <<execution, entities, roles, answered, abandoned, raced>>
      /\ UNCHANGED <<wf, state, transition>>
  BY TypedFacts DEF InsertStep, Only, Knows
<1>2. u.kind \in {"deploy", "add_step"} /\ u.w \in Workflows /\ u.w # Null
  BY <1>1, DesignAssumption DEF Course, Locals, Local, Before, Building, Undoing
<1>3. CASE ~Live(u.w)
  <2>1. UNCHANGED <<tables, history>> /\ Raise(p)
    BY <1>1, <1>3 DEF InsertStep, tables, history
  <2> QED
    BY <1>1, <2>1, RaiseKeeps DEF Undoing
<1>4. CASE Live(u.w)
  <2>1. PICK i \in NextId(step) : step' = [step EXCEPT ![i] = [wf |-> u.w, used |-> TRUE]]
    BY <1>4 DEF InsertStep
  <2>2. /\ Touch(p, u.w)
        /\ IF u.kind = "deploy"
           THEN Goto(p, "step") /\ Keep(p, [u EXCEPT !.steps = @ - 1])
           ELSE End(p)
    BY <1>4 DEF InsertStep
  <2>3. i \in StepIds /\ step \in [StepIds -> ChildRow]
    BY NextFree DEF DesignInv, Typed, TablesTyped
  <2>4. touched' \subseteq Workflows
    BY <1>2, <2>2, TouchTyped
  <2>5. step' \in [StepIds -> ChildRow]
    BY <1>2, <2>1, <2>3 DEF ChildRow
  <2>6. RowsTyped'
    BY <1>1, <2>4, <2>5 DEF RowsTyped, DesignInv, Typed, TablesTyped
  <2>7. Owned(step)' /\ Owned(execution)'
    <3>1. Owned(step) /\ Owned(execution)
      BY DEF DesignInv, Rows
    <3> QED
      BY <1>1, <1>4, <2>1, <2>3, <2>5, <3>1 DEF Owned, Live
  <2>8. Rows' /\ Evolved(pc[p], u, wf, wf, state, state', transition, transition')
    BY <1>1, <2>7, ChildRows
  <2>9. CASE u.kind # "deploy"
    BY <1>1, <2>2, <2>6, <2>8, <2>9, RowsEnd DEF Deploys
  <2>10. CASE u.kind = "deploy"
    <3> DEFINE v == [u EXCEPT !.steps = @ - 1]
    <3>1. u.steps - 1 \in Nat
      BY <1>1, <2>10 DEF Locals, Local
    <3>2. v \in Local /\ v.kind = "deploy" /\ v.w = u.w
      BY <1>1, <2>10, <3>1 DEF Local
    <3>3. Keep(p, v) /\ Goto(p, "step")
      BY <2>2, <2>10
    <3> HIDE DEF v
    <3>4. Course("step", v) /\ Locals("step", v) /\ "step" \in Plain
      BY <1>2, <3>2 DEF Course, Locals, Building, Plain, Points
    <3> QED
      BY <1>1, <2>6, <2>8, <2>10, <3>2, <3>3, <3>4, RowsOn
  <2> QED
    BY <2>9, <2>10
<1> QED
  BY <1>3, <1>4

LEMMA ChangeStateKeeps ==
  ASSUME DesignInv, NEW p \in Requests, ChangeState(p)  PROVE  DesignInv'
<1> DEFINE u == loc[p]
<1>1. /\ pc[p] = "change" /\ u \in Local /\ End(p) /\ Touch(p, u.w)
      /\ Course("change", u) /\ Locals("change", u) /\ OnRows("change", u, state, transition)
      /\ UNCHANGED <<execution, entities, roles, answered, abandoned, raced>>
      /\ UNCHANGED <<wf, transition, step>>
  BY TypedFacts DEF ChangeState, Only, Knows
<1>2. /\ u.kind = "change_state" /\ u.w \in Workflows
      /\ u.id \in StateIds /\ u.key \in Keys /\ state[u.id].wf \in {Null, u.w}
  BY <1>1 DEF Course, Locals, OnRows, ClaimsState, Before, Building, Undoing
<1>3. touched' \subseteq Workflows
  BY <1>1, <1>2, TouchTyped
<1>4. CASE ~(Live(u.w) /\ KeyFree(u.w, u.key, u.id))
  <2>1. UNCHANGED state
    BY <1>4 DEF ChangeState
  <2>2. RowsTyped'
    BY <1>1, <1>3, <2>1 DEF RowsTyped, DesignInv, Typed, TablesTyped
  <2>3. Owned(step)' /\ Owned(execution)'
    BY <1>1 DEF Owned, Live, DesignInv, Rows
  <2>4. Rows' /\ Evolved(pc[p], u, wf, wf, state, state', transition, transition')
    BY <1>1, <2>1, <2>3, ChildRows
  <2> QED
    BY <1>1, <1>2, <2>2, <2>4, RowsEnd DEF Deploys
<1>5. CASE Live(u.w) /\ KeyFree(u.w, u.key, u.id)
  <2>1. state' = [state EXCEPT ![u.id] = [wf |-> u.w, key |-> u.key, used |-> TRUE]]
    BY <1>5 DEF ChangeState
  <2>a. UNCHANGED <<wf, transition, step, execution>>
    BY <1>1
  <2>2. /\ RowsTyped' /\ Rows'
        /\ \A j \in StateIds : state[j].used =>
              /\ state'[j].used
              /\ state'[j].wf = state[j].wf \/ (j = u.id /\ state'[j].wf = u.w)
    BY <1>2, <1>3, <1>5, <2>1, <2>a, WriteState
  <2>3. Evolved(pc[p], u, wf, wf, state, state', transition, transition')
    BY <1>1, <2>2 DEF Evolved, ClaimsState
  <2> QED
    BY <1>1, <1>2, <2>2, <2>3, RowsEnd DEF Deploys
<1> QED
  BY <1>4, <1>5

LEMMA MoveTransitionKeeps ==
  ASSUME DesignInv, NEW p \in Requests, MoveTransition(p)  PROVE  DesignInv'
<1> DEFINE u == loc[p]
           from == IF transition[u.id].wf = Null THEN u.to ELSE transition[u.id].from
<1>1. /\ pc[p] = "move" /\ u \in Local /\ End(p) /\ Touch(p, u.w)
      /\ Course("move", u) /\ Locals("move", u)
      /\ UNCHANGED <<execution, entities, roles, answered, abandoned, raced>>
      /\ UNCHANGED <<wf, state, step>>
  BY TypedFacts DEF MoveTransition, Only, Knows
<1>2. /\ u.kind = "move_transition" /\ u.w \in Workflows
      /\ u.id \in TransitionIds /\ u.to \in StateIds
  BY <1>1 DEF Course, Locals, Before, Building, Undoing
<1>3. touched' \subseteq Workflows
  BY <1>1, <1>2, TouchTyped
<1>4. CASE ~(Live(u.w) /\ StatesExist(from, u.to))
  <2>1. UNCHANGED transition
    BY <1>4 DEF MoveTransition
  <2>2. RowsTyped'
    BY <1>1, <1>3, <2>1 DEF RowsTyped, DesignInv, Typed, TablesTyped
  <2>3. Owned(step)' /\ Owned(execution)'
    BY <1>1 DEF Owned, Live, DesignInv, Rows
  <2>4. Rows' /\ Evolved(pc[p], u, wf, wf, state, state', transition, transition')
    BY <1>1, <2>1, <2>3, ChildRows
  <2> QED
    BY <1>1, <1>2, <2>2, <2>4, RowsEnd DEF Deploys
<1>5. CASE Live(u.w) /\ StatesExist(from, u.to)
  <2>1. transition' = Put(transition, u.id,
          [wf |-> u.w, from |-> from, to |-> u.to, moved |-> TRUE, used |-> TRUE])
    BY <1>5 DEF MoveTransition, Put
  <2>2. from \in StateIds
    BY <1>2 DEF DesignInv, Rows, Joined, Joins
  <2>3. UNCHANGED <<wf, state, step, execution>>
    BY <1>1
  <2> HIDE DEF from
  <2>4. /\ RowsTyped' /\ Rows'
        /\ RowsKept(transition, transition', u.id, u.w)
    BY <1>2, <1>3, <1>5, <2>1, <2>2, <2>3, WriteMoved
  <2>5. Evolved(pc[p], u, wf, wf, state, state', transition, transition')
    BY <1>1, <2>4 DEF Evolved, ClaimsTransition, RowsKept
  <2> QED
    BY <1>1, <1>2, <2>4, <2>5, RowsEnd DEF Deploys
<1> QED
  BY <1>4, <1>5

-----------------------------------------------------------------------------
(* Statements that empty rows: their ids stay given out. *)
Emptied(T, T2, empty) ==
  \A i \in DOMAIN T : T2[i] = T[i] \/ T2[i] = [empty EXCEPT !.used = TRUE]
Bare(w) == /\ \A i \in StateIds : state[i].wf # w
           /\ \A i \in TransitionIds : transition[i].wf # w
           /\ \A i \in StepIds : step[i].wf # w
           /\ \A i \in Executions : execution[i].wf # w

(* No workflow goes while it has rows, and no state that a transition joins. *)
LEMMA EmptyRows ==
  ASSUME DesignInv, RowsTyped', NEW lp, NEW vp,
         Emptied(state, state', NoState), Emptied(transition, transition', NoTransition),
         Emptied(step, step', NoChild), Emptied(execution, execution', NoExecution),
         \A w \in Workflows : wf[w].status # "free" => wf'[w].status # "free",
         \A w \in Workflows : wf[w].status \in Alive => wf'[w].status \in Alive \/ Bare(w)',
         \A t \in TransitionIds : transition'[t].wf # Null =>
           \A i \in {transition[t].from, transition[t].to} : state'[i] = state[i]
  PROVE  Rows' /\ Evolved(lp, vp, wf, wf', state, state', transition, transition')
<1>1. /\ state \in [StateIds -> StateRow] /\ transition \in [TransitionIds -> TransitionRow]
      /\ step \in [StepIds -> ChildRow] /\ execution \in [Executions -> ExecutionRow]
      /\ Owned(state) /\ Owned(transition) /\ Owned(step) /\ Owned(execution)
      /\ Joined /\ OneStatePerKey
  BY DEF DesignInv, Typed, TablesTyped, Rows
<1>2. /\ state' \in [StateIds -> StateRow] /\ transition' \in [TransitionIds -> TransitionRow]
      /\ step' \in [StepIds -> ChildRow] /\ execution' \in [Executions -> ExecutionRow]
  BY DEF RowsTyped
<1>3. \A i \in StateIds :
        \/ state'[i] = state[i]
        \/ state'[i].wf = Null /\ state'[i].used /\ state'[i].key = Null
  BY <1>1 DEF Emptied, NoState
<1>4. \A i \in TransitionIds :
        \/ transition'[i] = transition[i]
        \/ /\ transition'[i].wf = Null /\ transition'[i].used
           /\ transition'[i].from = Null /\ transition'[i].to = Null
  BY <1>1 DEF Emptied, NoTransition
<1>5. \A i \in StepIds : step'[i] = step[i] \/ step'[i].wf = Null
  BY <1>1 DEF Emptied, NoChild
<1>6. \A i \in Executions : execution'[i] = execution[i] \/ execution'[i].wf = Null
  BY <1>1 DEF Emptied, NoExecution
<1>7. Owned(state)'
  <2>1. ASSUME NEW i \in StateIds, state'[i].wf # Null
        PROVE  state'[i].used /\ wf'[state'[i].wf].status \in Alive
    <3>1. state'[i] = state[i] /\ state[i].wf \in Workflows
      BY <1>1, <1>3, <2>1 DEF StateRow
    <3>2. state[i].used /\ wf[state[i].wf].status \in Alive
      BY <1>1, <2>1, <3>1 DEF Owned, Live, Alive
    <3>3. ~Bare(state[i].wf)'
      BY <3>1 DEF Bare
    <3> QED
      BY <3>1, <3>2, <3>3
  <2> QED
    BY <1>2, <2>1 DEF Owned, Live, Alive
<1>8. Owned(transition)'
  <2>1. ASSUME NEW i \in TransitionIds, transition'[i].wf # Null
        PROVE  transition'[i].used /\ wf'[transition'[i].wf].status \in Alive
    <3>1. transition'[i] = transition[i] /\ transition[i].wf \in Workflows
      BY <1>1, <1>4, <2>1 DEF TransitionRow
    <3>2. transition[i].used /\ wf[transition[i].wf].status \in Alive
      BY <1>1, <2>1, <3>1 DEF Owned, Live, Alive
    <3>3. ~Bare(transition[i].wf)'
      BY <3>1 DEF Bare
    <3> QED
      BY <3>1, <3>2, <3>3
  <2> QED
    BY <1>2, <2>1 DEF Owned, Live, Alive
<1>9. Owned(step)'
  <2>1. ASSUME NEW i \in StepIds, step'[i].wf # Null
        PROVE  step'[i].used /\ wf'[step'[i].wf].status \in Alive
    <3>1. step'[i] = step[i] /\ step[i].wf \in Workflows
      BY <1>1, <1>5, <2>1 DEF ChildRow
    <3>2. step[i].used /\ wf[step[i].wf].status \in Alive
      BY <1>1, <2>1, <3>1 DEF Owned, Live, Alive
    <3>3. ~Bare(step[i].wf)'
      BY <3>1 DEF Bare
    <3> QED
      BY <3>1, <3>2, <3>3
  <2> QED
    BY <1>2, <2>1 DEF Owned, Live, Alive
<1>10. Owned(execution)'
  <2>1. ASSUME NEW i \in Executions, execution'[i].wf # Null
        PROVE  execution'[i].used /\ wf'[execution'[i].wf].status \in Alive
    <3>1. execution'[i] = execution[i] /\ execution[i].wf \in Workflows
      BY <1>1, <1>6, <2>1 DEF ExecutionRow
    <3>2. execution[i].used /\ wf[execution[i].wf].status \in Alive
      BY <1>1, <2>1, <3>1 DEF Owned, Live, Alive
    <3>3. ~Bare(execution[i].wf)'
      BY <3>1 DEF Bare
    <3> QED
      BY <3>1, <3>2, <3>3
  <2> QED
    BY <1>2, <2>1 DEF Owned, Live, Alive
<1>11. Joined'
  <2>1. ASSUME NEW t \in TransitionIds
        PROVE  IF transition'[t].wf = Null
               THEN transition'[t].from = Null /\ transition'[t].to = Null
               ELSE \A i \in {transition'[t].from, transition'[t].to} :
                      /\ i \in StateIds /\ state'[i].wf # Null
                      /\ transition'[t].moved \/ state'[i].wf = transition'[t].wf
    <3>1. CASE transition'[t].wf = Null
      BY <1>1, <1>4, <3>1 DEF Joined
    <3>2. CASE transition'[t].wf # Null
      <4>1. transition'[t] = transition[t]
        BY <1>4, <3>2
      <4>2. Joins(transition[t])
        BY <1>1, <3>2, <4>1 DEF Joined
      <4>3. \A i \in {transition[t].from, transition[t].to} : state'[i] = state[i]
        BY <3>2
      <4> QED
        BY <3>2, <4>1, <4>2, <4>3 DEF Joins
    <3> QED
      BY <3>1, <3>2
  <2> QED
    BY <2>1 DEF Joined, Joins
<1>12. OneStatePerKey'
  BY <1>1, <1>3 DEF OneStatePerKey
<1>13. Evolved(lp, vp, wf, wf', state, state', transition, transition')
  BY <1>3, <1>4 DEF Evolved
<1> QED
  BY <1>7, <1>8, <1>9, <1>10, <1>11, <1>12, <1>13 DEF Rows

LEMMA Unemptied == ASSUME NEW T, NEW empty  PROVE Emptied(T, T, empty)
BY DEF Emptied

LEMMA CutTransitionsKeeps ==
  ASSUME DesignInv, NEW p \in Requests, CutTransitions(p)  PROVE  DesignInv'
<1> DEFINE u == loc[p]
<1>1. /\ pc[p] = "cut" /\ u \in Local /\ Goto(p, "drop") /\ UNCHANGED loc
      /\ Knows("cut", u, wf, state, transition, roles, raced)
      /\ UNCHANGED <<execution, entities, roles, answered, abandoned, raced>>
      /\ UNCHANGED <<wf, state, step>>
  BY TypedFacts DEF CutTransitions, Only
<1>2. /\ u.kind = "drop_state" /\ u.w \in Workflows /\ u.id \in StateIds /\ u.id # Null
  BY <1>1, DesignAssumption DEF Knows, Course, Locals, Before, Building, Undoing
<1>3. /\ transition \in [TransitionIds -> TransitionRow] /\ Joined
      /\ touched \subseteq Workflows
  BY DEF DesignInv, Typed, TablesTyped, Rows
<1>4. \A t \in TransitionIds : UsesState(t, u.id) => transition[t].wf \in Workflows
  BY <1>2, <1>3 DEF UsesState, Joined, TransitionRow
<1>5. touched' \subseteq Workflows
  BY <1>2, <1>3, <1>4 DEF CutTransitions
<1>6. transition' \in [TransitionIds -> TransitionRow] /\ Emptied(transition, transition', NoTransition)
  BY <1>3 DEF CutTransitions, Emptied, NoTransition, TransitionRow
<1>7. RowsTyped'
  BY <1>1, <1>5, <1>6 DEF RowsTyped, DesignInv, Typed, TablesTyped
<1>8. Emptied(state, state', NoState) /\ Emptied(step, step', NoChild)
      /\ Emptied(execution, execution', NoExecution)
  BY <1>1, Unemptied
<1>9. /\ \A w \in Workflows : wf[w].status # "free" => wf'[w].status # "free"
      /\ \A w \in Workflows : wf[w].status \in Alive => wf'[w].status \in Alive \/ Bare(w)'
      /\ \A t \in TransitionIds : transition'[t].wf # Null =>
           \A i \in {transition[t].from, transition[t].to} : state'[i] = state[i]
  BY <1>1 DEF Live
<1>10. Rows' /\ Evolved(pc[p], u, wf, wf, state, state', transition, transition')
  BY <1>1, <1>6, <1>7, <1>8, <1>9, EmptyRows
<1>11. Knows("drop", u, wf, state', transition', roles, raced)
  <2>1. Course("drop", u) /\ Locals("drop", u) /\ OnWorkflow(u, wf)
    BY <1>1, <1>2 DEF Knows, Course, Locals, Before, Building, Undoing
  <2>2. OnLimit("drop", u, wf) /\ OnRoles("drop", u, roles, raced)
    BY DEF OnLimit, OnRoles
  <2>3. OnRows("drop", u, state', transition')
    BY <1>1 DEF Knows, OnRows, ClaimsState, ClaimsTransition
  <2> QED
    BY <2>1, <2>2, <2>3 DEF Knows
<1>12. Grounded(p, "drop", u)
  BY <1>1, <1>2 DEF Grounded, ClaimsState, ClaimsTransition
<1>13. /\ started' = started /\ pc' = [pc EXCEPT ![p] = "drop"] /\ loc' = [loc EXCEPT ![p] = u]
       /\ "drop" \in Points
  BY <1>1 DEF Goto, DesignInv, Typed, Points
<1> QED
  BY <1>1, <1>7, <1>10, <1>11, <1>12, <1>13, RowsStep DEF Deploys

(* A request that empties rows of its workflow and ends. *)
LEMMA EmptiedEnd ==
  ASSUME DesignInv, NEW p \in Requests, End(p), ~Deploys(p), RowsTyped',
         UNCHANGED <<wf, entities, roles, answered, abandoned, raced>>,
         Emptied(state, state', NoState), Emptied(transition, transition', NoTransition),
         Emptied(step, step', NoChild), UNCHANGED execution,
         \A t \in TransitionIds : transition'[t].wf # Null =>
           \A i \in {transition[t].from, transition[t].to} : state'[i] = state[i]
  PROVE  DesignInv'
<1>1. /\ \A w \in Workflows : wf[w].status # "free" => wf'[w].status # "free"
      /\ \A w \in Workflows : wf[w].status \in Alive => wf'[w].status \in Alive \/ Bare(w)'
  OBVIOUS
<1>2. Emptied(execution, execution', NoExecution)
  BY Unemptied
<1>3. Rows' /\ Evolved(pc[p], loc[p], wf, wf', state, state', transition, transition')
  BY <1>1, <1>2, EmptyRows
<1>4. Rows' /\ Evolved(pc[p], loc[p], wf, wf, state, state', transition, transition')
  BY <1>3
<1> QED
  BY <1>4, RowsEnd

LEMMA DropStateKeeps ==
  ASSUME DesignInv, NEW p \in Requests, DropState(p)  PROVE  DesignInv'
<1> DEFINE u == loc[p]
<1>1. /\ pc[p] = "drop" /\ u \in Local /\ End(p)
      /\ Course("drop", u) /\ Locals("drop", u)
      /\ UNCHANGED <<wf, entities, roles, answered, abandoned, raced>>
      /\ UNCHANGED <<transition, step, execution, touched>>
  BY TypedFacts DEF DropState, Only, Knows
<1>2. u.kind = "drop_state" /\ u.id \in StateIds
  BY <1>1 DEF Course, Locals, Before, Building, Undoing
<1>3. /\ state \in [StateIds -> StateRow] /\ transition \in [TransitionIds -> TransitionRow]
      /\ Joined
  BY DEF DesignInv, Typed, TablesTyped, Rows
<1>4. /\ state' \in [StateIds -> StateRow] /\ Emptied(state, state', NoState)
      /\ \A i \in StateIds : i # u.id => state'[i] = state[i]
      /\ StateUnused(u.id) \/ state' = state
  <2>1. CASE StateUnused(u.id)
    <3>1. state' = [state EXCEPT ![u.id] = [NoState EXCEPT !.used = TRUE]]
      BY <2>1 DEF DropState
    <3> QED
      BY <1>2, <1>3, <2>1, <3>1 DEF Emptied, NoState, StateRow
  <2>2. CASE ~StateUnused(u.id)
    BY <1>3, <2>2, Unemptied DEF DropState
  <2> QED
    BY <2>1, <2>2
<1>5. Emptied(transition, transition', NoTransition) /\ Emptied(step, step', NoChild)
  BY <1>1, Unemptied
<1>6. RowsTyped'
  BY <1>1, <1>4 DEF RowsTyped, DesignInv, Typed, TablesTyped
<1>7. \A t \in TransitionIds : transition'[t].wf # Null =>
        \A i \in {transition[t].from, transition[t].to} : state'[i] = state[i]
  <2>1. SUFFICES ASSUME NEW t \in TransitionIds, transition[t].wf # Null,
                        NEW i \in {transition[t].from, transition[t].to}
                 PROVE  state'[i] = state[i]
    BY <1>1
  <2>2. i \in StateIds
    BY <1>3, <2>1 DEF Joined, Joins
  <2>3. UsesState(t, i)
    BY <2>1 DEF UsesState
  <2>4. StateUnused(u.id) => i # u.id
    BY <2>1, <2>3 DEF StateUnused
  <2> QED
    BY <1>4, <2>2, <2>4
<1>8. ~Deploys(p) /\ UNCHANGED execution
  BY <1>1, <1>2 DEF Deploys
<1> QED
  BY <1>1, <1>4, <1>5, <1>6, <1>7, <1>8, EmptiedEnd

LEMMA CutTransitionKeeps ==
  ASSUME DesignInv, NEW p \in Requests, CutTransition(p)  PROVE  DesignInv'
<1> DEFINE u == loc[p]
<1>1. /\ pc[p] = "cut_transition" /\ u \in Local /\ End(p) /\ Touch(p, u.w)
      /\ Course("cut_transition", u) /\ Locals("cut_transition", u)
      /\ UNCHANGED <<wf, entities, roles, answered, abandoned, raced>>
      /\ UNCHANGED <<state, step, execution>>
  BY TypedFacts DEF CutTransition, Only, Knows
<1>2. u.kind = "drop_transition" /\ u.w \in Workflows /\ u.id \in TransitionIds
  BY <1>1 DEF Course, Locals, Before, Building, Undoing
<1>3. transition \in [TransitionIds -> TransitionRow]
  BY DEF DesignInv, Typed, TablesTyped
<1>4. transition' \in [TransitionIds -> TransitionRow] /\ Emptied(transition, transition', NoTransition)
  BY <1>2, <1>3 DEF CutTransition, Emptied, NoTransition, TransitionRow
<1>5. Emptied(state, state', NoState) /\ Emptied(step, step', NoChild)
  BY <1>1, Unemptied
<1>6. touched' \subseteq Workflows
  BY <1>1, <1>2, TouchTyped
<1>7. RowsTyped'
  BY <1>1, <1>4, <1>6 DEF RowsTyped, DesignInv, Typed, TablesTyped
<1>8. /\ ~Deploys(p) /\ UNCHANGED execution
      /\ \A t \in TransitionIds : transition'[t].wf # Null =>
           \A i \in {transition[t].from, transition[t].to} : state'[i] = state[i]
  BY <1>1, <1>2 DEF Deploys
<1> QED
  BY <1>1, <1>4, <1>5, <1>7, <1>8, EmptiedEnd

LEMMA CutStepKeeps ==
  ASSUME DesignInv, NEW p \in Requests, CutStep(p)  PROVE  DesignInv'
<1> DEFINE u == loc[p]
<1>1. /\ pc[p] = "cut_step" /\ u \in Local /\ End(p) /\ Touch(p, u.w)
      /\ Course("cut_step", u) /\ Locals("cut_step", u)
      /\ UNCHANGED <<wf, entities, roles, answered, abandoned, raced>>
      /\ UNCHANGED <<state, transition, execution>>
  BY TypedFacts DEF CutStep, Only, Knows
<1>2. u.kind = "drop_step" /\ u.w \in Workflows /\ u.id \in StepIds
  BY <1>1 DEF Course, Locals, Before, Building, Undoing
<1>3. step \in [StepIds -> ChildRow]
  BY DEF DesignInv, Typed, TablesTyped
<1>4. step' \in [StepIds -> ChildRow] /\ Emptied(step, step', NoChild)
  BY <1>2, <1>3 DEF CutStep, Emptied, NoChild, ChildRow
<1>5. Emptied(state, state', NoState) /\ Emptied(transition, transition', NoTransition)
  BY <1>1, Unemptied
<1>6. touched' \subseteq Workflows
  BY <1>1, <1>2, TouchTyped
<1>7. RowsTyped'
  BY <1>1, <1>4, <1>6 DEF RowsTyped, DesignInv, Typed, TablesTyped
<1>8. /\ ~Deploys(p) /\ UNCHANGED execution
      /\ \A t \in TransitionIds : transition'[t].wf # Null =>
           \A i \in {transition[t].from, transition[t].to} : state'[i] = state[i]
  BY <1>1, <1>2 DEF Deploys
<1> QED
  BY <1>1, <1>4, <1>5, <1>7, <1>8, EmptiedEnd

-----------------------------------------------------------------------------
(* Statements that change the status of workflows. *)
LEMMA StatusStep ==
  ASSUME DesignInv, NEW p \in Requests, NEW l \in Points, NEW v \in Local,
         wf' \in [Workflows -> Workflow],
         \A w \in Workflows :
           /\ wf'[w].template = wf[w].template /\ wf'[w].late = wf[w].late
           /\ wf'[w].copied = wf[w].copied
           /\ wf'[w].status \in Alive => wf[w].status \in Alive,
         UNCHANGED <<entities, roles, answered, abandoned, raced>>, RowsTyped', Rows',
         started' = started, pc' = [pc EXCEPT ![p] = l], loc' = [loc EXCEPT ![p] = v],
         Evolved(pc[p], loc[p], wf, wf', state, state', transition, transition'),
         Deploys(p) => \/ v.kind = "deploy" /\ v.w = loc[p].w
                       \/ wf'[loc[p].w].status \notin Alive,
         Grounded(p, l, v), Knows(l, v, wf', state', transition', roles, raced)
  PROVE  DesignInv'
<1>1. TablesTyped' /\ started' \in 0..MaxRequests
  BY DEF DesignInv, Typed, TablesTyped, RowsTyped
<1>2. WithinLimit'
  <2>1. Honest' \subseteq Honest
    BY DEF Honest, LiveWorkflows, Live, Alive
  <2>2. IsFiniteSet(Honest)
    BY DesignAssumption, FS_Subset DEF Honest, LiveWorkflows
  <2>3. /\ Cardinality(Honest') <= Cardinality(Honest)
        /\ Cardinality(Honest') \in Nat /\ Cardinality(Honest) \in Nat
    BY <2>1, <2>2, FS_Subset, FS_CardinalityType
  <2>4. Cardinality(Honest) <= MaxWorkflows
    BY DEF DesignInv, WithinLimit
  <2>5. Cardinality(Honest') <= MaxWorkflows
    BY <2>3, <2>4, DesignAssumption
  <2> QED
    BY <2>5 DEF WithinLimit
<1>3. SecondRoleHasCause'
  BY DEF DesignInv, SecondRoleHasCause, Active
<1>4. loc' \in [Requests -> Local] /\ loc'[p] = v
  BY DEF DesignInv, Typed
<1>5. LiveNotMore(wf, wf')
  BY DEF LiveNotMore, LiveIn
<1>6. Aside(p)
  BY <1>5 DEF Aside, Alike, DesignInv, Typed
<1>7. Settles(p, v)
  BY DEF Settles
<1>8. Knows(l, v, wf', state', transition', roles', raced') /\ raced \subseteq raced'
  OBVIOUS
<1> QED
  BY <1>1, <1>2, <1>3, <1>4, <1>6, <1>7, <1>8, StepOfOne

LEMMA SetStatusKeeps ==
  ASSUME DesignInv, NEW p \in Requests, SetStatus(p)  PROVE  DesignInv'
<1> DEFINE u == loc[p]
<1>1. /\ pc[p] = "status" /\ u \in Local /\ Touch(p, u.w) /\ Goto(p, "answer") /\ UNCHANGED loc
      /\ Course("status", u) /\ Locals("status", u) /\ OnWorkflow(u, wf)
      /\ UNCHANGED <<execution, entities, roles, answered, abandoned, raced>>
      /\ UNCHANGED <<state, transition, step>>
  BY TypedFacts DEF SetStatus, Only, Knows
<1>2. u.w \in Workflows /\ u.w # Null
  BY <1>1, DesignAssumption DEF Course, Locals, Local, Before, Building, Undoing
<1>3. wf \in [Workflows -> Workflow]
  BY DEF DesignInv, Typed, TablesTyped
<1>4. /\ wf' \in [Workflows -> Workflow]
      /\ \A w \in Workflows :
           /\ wf'[w].template = wf[w].template /\ wf'[w].late = wf[w].late
           /\ wf'[w].copied = wf[w].copied
           /\ wf'[w].status \in Alive <=> wf[w].status \in Alive
           /\ wf[w].status # "free" => wf'[w].status # "free"
  <2>1. CASE ~Live(u.w)
    BY <1>3, <2>1 DEF SetStatus
  <2>2. CASE Live(u.w)
    <3>1. PICK s \in {"paused", "draft", "active"} : wf' = [wf EXCEPT ![u.w].status = s]
      BY <2>2 DEF SetStatus
    <3>2. wf[u.w].status \in Alive /\ wf[u.w] \in Workflow
      BY <1>2, <1>3, <2>2 DEF Live, Alive
    <3>3. wf' \in [Workflows -> Workflow] /\ wf'[u.w].status \in Alive
      BY <1>2, <1>3, <3>1, <3>2 DEF Workflow, WorkflowStatuses, Alive
    <3>4. /\ wf'[u.w].template = wf[u.w].template /\ wf'[u.w].late = wf[u.w].late
          /\ wf'[u.w].copied = wf[u.w].copied /\ "free" \notin Alive
          /\ \A w \in Workflows : w # u.w => wf'[w] = wf[w]
      BY <1>2, <1>3, <3>1, <3>2 DEF Workflow, Alive
    <3> QED
      BY <3>2, <3>3, <3>4
  <2> QED
    BY <2>1, <2>2
<1>5. touched' \subseteq Workflows
  BY <1>1, <1>2, TouchTyped
<1>6. RowsTyped'
  BY <1>1, <1>5 DEF RowsTyped, DesignInv, Typed, TablesTyped
<1>7. /\ Emptied(state, state', NoState) /\ Emptied(transition, transition', NoTransition)
      /\ Emptied(step, step', NoChild) /\ Emptied(execution, execution', NoExecution)
  BY <1>1, Unemptied
<1>8. /\ \A w \in Workflows : wf[w].status # "free" => wf'[w].status # "free"
      /\ \A w \in Workflows : wf[w].status \in Alive => wf'[w].status \in Alive \/ Bare(w)'
      /\ \A t \in TransitionIds : transition'[t].wf # Null =>
           \A i \in {transition[t].from, transition[t].to} : state'[i] = state[i]
  BY <1>1, <1>4
<1>9. Rows' /\ Evolved(pc[p], u, wf, wf', state, state', transition, transition')
  BY <1>6, <1>7, <1>8, EmptyRows
<1>10. /\ Course("answer", u) /\ Locals("answer", u) /\ "answer" \in Plain /\ "answer" \in Points
  BY <1>1, <1>2 DEF Course, Locals, Before, Building, Undoing, Plain, Points
<1>11. OnWorkflow(u, wf') /\ OnLimit("answer", u, wf') /\ OnRoles("answer", u, roles, raced)
  BY <1>1, <1>2, <1>4 DEF OnWorkflow, OnLimit, OnRoles
<1>12. Knows("answer", u, wf', state', transition', roles, raced) /\ Grounded(p, "answer", u)
  BY <1>10, <1>11, PlainKnows
<1>13. /\ started' = started /\ pc' = [pc EXCEPT ![p] = "answer"] /\ loc' = [loc EXCEPT ![p] = u]
       /\ Deploys(p) => \/ u.kind = "deploy" /\ u.w = loc[p].w
                       \/ wf'[loc[p].w].status \notin Alive
       /\ UNCHANGED <<entities, roles, answered, abandoned, raced>>
  BY <1>1 DEF Goto, DesignInv, Typed, Deploys
<1>14. \A w \in Workflows :
         /\ wf'[w].template = wf[w].template /\ wf'[w].late = wf[w].late
         /\ wf'[w].copied = wf[w].copied
         /\ wf'[w].status \in Alive => wf[w].status \in Alive
  BY <1>4
<1> QED
  BY <1>1, <1>4, <1>6, <1>9, <1>10, <1>12, <1>13, <1>14, StatusStep

(* Removing the rows of a workflow in one transaction. *)
LEMMA WithoutTyped ==
  ASSUME NEW table, NEW w, NEW empty, NEW Row, table \in [DOMAIN table -> Row],
         [empty EXCEPT !.used = TRUE] \in Row, [empty EXCEPT !.used = TRUE].wf = Null, w # Null
  PROVE  /\ Without(table, w, empty) \in [DOMAIN table -> Row]
         /\ Emptied(table, Without(table, w, empty), empty)
         /\ \A i \in DOMAIN table : Without(table, w, empty)[i].wf # w
         /\ \A i \in DOMAIN table : table[i].wf # w => Without(table, w, empty)[i] = table[i]
<1> DEFINE e == [empty EXCEPT !.used = TRUE]
<1>1. e \in Row /\ e.wf = Null
  OBVIOUS
<1> HIDE DEF e
<1>2. Without(table, w, empty) = [i \in DOMAIN table |-> IF table[i].wf = w THEN e ELSE table[i]]
  BY DEF Without, e
<1>3. /\ Without(table, w, empty) \in [DOMAIN table -> Row]
      /\ \A i \in DOMAIN table : Without(table, w, empty)[i].wf # w
      /\ \A i \in DOMAIN table : table[i].wf # w => Without(table, w, empty)[i] = table[i]
      /\ \A i \in DOMAIN table :
           Without(table, w, empty)[i] = table[i] \/ Without(table, w, empty)[i] = e
  BY <1>1, <1>2
<1> QED
  BY <1>3 DEF Emptied, e

LEMMA CommitRemovalKeeps ==
  ASSUME DesignInv, NEW p \in Requests, CommitRemoval(p)  PROVE  DesignInv'
<1> DEFINE u == loc[p]
<1>1. /\ pc[p] = "commit" /\ u \in Local /\ End(p)
      /\ Course("commit", u) /\ Locals("commit", u) /\ OnWorkflow(u, wf)
      /\ UNCHANGED <<entities, roles, touched, answered, raced>>
  BY TypedFacts DEF CommitRemoval, Knows
<1>2. u.w \in Workflows /\ u.w # Null
  BY <1>1, DesignAssumption DEF Course, Locals, Local, Before, Building, Undoing
<1>3. CASE ~Removable(p)
  <2>1. /\ abandoned' = abandoned \cup {u.w}
        /\ UNCHANGED <<wf, execution, transition, state, step>>
    BY <1>3 DEF CommitRemoval
  <2>2. /\ answered \subseteq Workflows /\ abandoned' \subseteq Workflows
        /\ abandoned \subseteq abandoned' /\ u.w \in abandoned'
    BY <1>2, <2>1 DEF DesignInv, Typed, TablesTyped
  <2>3. UNCHANGED tables /\ UNCHANGED raced /\ touched' = touched /\ answered' = answered
    BY <1>1, <2>1 DEF tables
  <2> QED
    BY <1>1, <2>2, <2>3, QuietEnd
<1>4. CASE Removable(p)
  <2>1. /\ wf' = [wf EXCEPT ![u.w].status = "gone"]
        /\ execution' = Without(execution, u.w, NoExecution)
        /\ transition' = Without(transition, u.w, NoTransition)
        /\ state' = Without(state, u.w, NoState)
        /\ step' = Without(step, u.w, NoChild)
        /\ UNCHANGED abandoned
    BY <1>4 DEF CommitRemoval
  <2>2. /\ wf \in [Workflows -> Workflow] /\ state \in [StateIds -> StateRow]
        /\ transition \in [TransitionIds -> TransitionRow]
        /\ step \in [StepIds -> ChildRow] /\ execution \in [Executions -> ExecutionRow]
        /\ touched \subseteq Workflows /\ Joined
    BY DEF DesignInv, Typed, TablesTyped, Rows
  <2>3. /\ state' \in [StateIds -> StateRow] /\ Emptied(state, state', NoState)
        /\ \A i \in StateIds : state'[i].wf # u.w
        /\ \A i \in StateIds : state[i].wf # u.w => state'[i] = state[i]
    <3>1. /\ [NoState EXCEPT !.used = TRUE] \in StateRow
          /\ [NoState EXCEPT !.used = TRUE].wf = Null
      BY DEF NoState, StateRow
    <3>2. DOMAIN state = StateIds
      BY <2>2
    <3> QED
      BY <1>2, <2>1, <2>2, <3>1, <3>2, WithoutTyped
  <2>4. /\ transition' \in [TransitionIds -> TransitionRow]
        /\ Emptied(transition, transition', NoTransition)
        /\ \A i \in TransitionIds : transition'[i].wf # u.w
        /\ \A i \in TransitionIds : transition[i].wf # u.w => transition'[i] = transition[i]
    <3>1. /\ [NoTransition EXCEPT !.used = TRUE] \in TransitionRow
          /\ [NoTransition EXCEPT !.used = TRUE].wf = Null
      BY DEF NoTransition, TransitionRow
    <3>2. DOMAIN transition = TransitionIds
      BY <2>2
    <3> QED
      BY <1>2, <2>1, <2>2, <3>1, <3>2, WithoutTyped
  <2>5. /\ step' \in [StepIds -> ChildRow] /\ Emptied(step, step', NoChild)
        /\ \A i \in StepIds : step'[i].wf # u.w
    <3>1. [NoChild EXCEPT !.used = TRUE] \in ChildRow /\ [NoChild EXCEPT !.used = TRUE].wf = Null
      BY DEF NoChild, ChildRow
    <3>2. DOMAIN step = StepIds
      BY <2>2
    <3> QED
      BY <1>2, <2>1, <2>2, <3>1, <3>2, WithoutTyped
  <2>6. /\ execution' \in [Executions -> ExecutionRow]
        /\ Emptied(execution, execution', NoExecution)
        /\ \A i \in Executions : execution'[i].wf # u.w
    <3>1. /\ [NoExecution EXCEPT !.used = TRUE] \in ExecutionRow
          /\ [NoExecution EXCEPT !.used = TRUE].wf = Null
      BY DEF NoExecution, ExecutionRow
    <3>2. DOMAIN execution = Executions
      BY <2>2
    <3> QED
      BY <1>2, <2>1, <2>2, <3>1, <3>2, WithoutTyped
  <2>7. ASSUME NEW w \in Workflows, w = u.w  PROVE  Bare(w)'
    BY <2>3, <2>4, <2>5, <2>6, <2>7 DEF Bare
  <2>8. /\ wf' \in [Workflows -> Workflow] /\ wf'[u.w].status = "gone"
        /\ wf'[u.w].template = wf[u.w].template /\ wf'[u.w].late = wf[u.w].late
        /\ wf'[u.w].copied = wf[u.w].copied
        /\ \A w \in Workflows : w # u.w => wf'[w] = wf[w]
    BY <1>2, <2>1, <2>2 DEF Workflow, WorkflowStatuses
  <2>9. \A w \in Workflows : wf[w].status # "free" => wf'[w].status # "free"
    BY <2>8
  <2>10. \A w \in Workflows : wf[w].status \in Alive => wf'[w].status \in Alive \/ Bare(w)'
    BY <2>7, <2>8
  <2>11. \A t \in TransitionIds : transition'[t].wf # Null =>
           \A i \in {transition[t].from, transition[t].to} : state'[i] = state[i]
    <3>1. SUFFICES ASSUME NEW t \in TransitionIds, transition'[t].wf # Null,
                          NEW i \in {transition[t].from, transition[t].to}
                   PROVE  state'[i] = state[i]
      OBVIOUS
    <3>2. transition[t].wf # u.w /\ transition[t].wf # Null
      BY <2>2, <2>4, <3>1 DEF Emptied, NoTransition
    <3>3. i \in StateIds
      BY <2>2, <3>1, <3>2 DEF Joined, Joins
    <3>4. state[i].wf # u.w
      BY <1>4, <2>2, <3>1, <3>2, <3>3 DEF Removable, RowsOf, UsesState
    <3> QED
      BY <2>3, <3>3, <3>4
  <2>12. RowsTyped'
    BY <1>1, <2>2, <2>3, <2>4, <2>5, <2>6 DEF RowsTyped
  <2>13. Rows' /\ Evolved(pc[p], u, wf, wf', state, state', transition, transition')
    BY <2>3, <2>4, <2>5, <2>6, <2>9, <2>10, <2>11, <2>12, EmptyRows
  <2>14. \A w \in Workflows :
           /\ wf'[w].template = wf[w].template /\ wf'[w].late = wf[w].late
           /\ wf'[w].copied = wf[w].copied
           /\ wf'[w].status \in Alive => wf[w].status \in Alive
    BY <2>8 DEF Alive
  <2>15. /\ started' = started /\ pc' = [pc EXCEPT ![p] = "idle"]
         /\ loc' = [loc EXCEPT ![p] = NoLocal]
         /\ UNCHANGED <<entities, roles, answered, abandoned, raced>>
         /\ wf'[u.w].status \notin Alive
    BY <1>1, <2>1, <2>8 DEF End, Goto, Keep, Alive
  <2>16. /\ Knows("idle", NoLocal, wf', state', transition', roles, raced)
         /\ Grounded(p, "idle", NoLocal) /\ "idle" \in Points /\ NoLocal \in Local
    BY EndKnows, NoLocalTyped
  <2> QED
    BY <2>8, <2>12, <2>13, <2>14, <2>15, <2>16, StatusStep
<1> QED
  BY <1>3, <1>4

-----------------------------------------------------------------------------
(* The remaining statements. *)
LEMMA InsertExecutionKeeps ==
  ASSUME DesignInv, NEW p \in Requests, InsertExecution(p)  PROVE  DesignInv'
<1> DEFINE u == loc[p]
<1>1. /\ pc[p] = "execute" /\ u \in Local
      /\ Course("execute", u) /\ Locals("execute", u)
      /\ UNCHANGED <<wf, state, transition, step, entities, roles, history>>
  BY TypedFacts DEF InsertExecution, Knows
<1>2. u.kind = "trigger" /\ u.w \in Workflows /\ u.w # Null
  BY <1>1, DesignAssumption DEF Course, Locals, Before, Building, Undoing
<1>3. CASE ~Live(u.w) /\ End(p) /\ UNCHANGED execution
  <2>1. UNCHANGED <<tables, history>> /\ ~Deploys(p)
    BY <1>1, <1>2, <1>3 DEF tables, Deploys
  <2> QED
    BY <1>3, <2>1, QuietEnd, HistoryTyped
<1>4. ASSUME Live(u.w), NEW x \in NextId(execution), Goto(p, "event"),
             execution' = [execution EXCEPT ![x] = [wf |-> u.w, logged |-> FALSE, used |-> TRUE]],
             Keep(p, [u EXCEPT !.id = x])
      PROVE  DesignInv'
  <2>1. execution \in [Executions -> ExecutionRow] /\ x \in Executions /\ touched \subseteq Workflows
    BY NextFree DEF DesignInv, Typed, TablesTyped
  <2>2. execution' \in [Executions -> ExecutionRow]
    BY <1>2, <1>4, <2>1 DEF ExecutionRow
  <2>3. RowsTyped'
    BY <1>1, <2>1, <2>2 DEF RowsTyped, DesignInv, Typed, TablesTyped, history
  <2>4. Owned(step)' /\ Owned(execution)'
    <3>1. Owned(step) /\ Owned(execution)
      BY DEF DesignInv, Rows
    <3>2. wf' = wf /\ step' = step
      BY <1>1
    <3>3. Owned(step)'
      BY <3>1, <3>2 DEF Owned, Live
    <3>4. Owned(execution)'
      BY <1>4, <2>1, <3>1, <3>2 DEF Owned, Live
    <3> QED
      BY <3>3, <3>4
  <2>5. UNCHANGED <<wf, state, transition>>
    BY <1>1
  <2>6. Rows' /\ Evolved(pc[p], u, wf, wf, state, state', transition, transition')
    BY <2>4, <2>5, ChildRows
  <2> DEFINE v == [u EXCEPT !.id = x]
  <2>7. v \in Local /\ v.kind = u.kind /\ v.w = u.w /\ v.template = u.template /\ v.id = x
    BY <1>1, <2>1 DEF Local
  <2>8. Keep(p, v)
    BY <1>4
  <2> HIDE DEF v
  <2>9. Course("event", v) /\ Locals("event", v) /\ "event" \in Plain
    BY <1>1, <1>2, <2>1, <2>7 DEF Course, Locals, Plain, Points
  <2>10. UNCHANGED <<wf, entities, roles, answered, abandoned, raced>>
    BY <1>1 DEF history
  <2> QED
    BY <1>4, <2>3, <2>6, <2>7, <2>8, <2>9, <2>10, RowsOn
<1> QED
  BY <1>3, <1>4 DEF InsertExecution

LEMMA LogEventKeeps ==
  ASSUME DesignInv, NEW p \in Requests, LogEvent(p)  PROVE  DesignInv'
<1> DEFINE u == loc[p]
<1>1. /\ pc[p] = "event" /\ u \in Local /\ End(p)
      /\ Course("event", u) /\ Locals("event", u)
      /\ UNCHANGED <<wf, state, transition, step, entities, roles, history>>
  BY TypedFacts DEF LogEvent, Knows
<1>2. u.kind = "trigger" /\ u.id \in Executions
  BY <1>1 DEF Course, Locals, Before, Building, Undoing
<1>3. execution \in [Executions -> ExecutionRow] /\ touched \subseteq Workflows
  BY DEF DesignInv, Typed, TablesTyped
<1>4. /\ execution' \in [Executions -> ExecutionRow]
      /\ \A x \in Executions : execution'[x].wf = execution[x].wf
                               /\ execution'[x].used = execution[x].used
  BY <1>2, <1>3 DEF LogEvent, ExecutionRow
<1>5. RowsTyped'
  BY <1>1, <1>3, <1>4 DEF RowsTyped, DesignInv, Typed, TablesTyped, history
<1>6. Owned(step)' /\ Owned(execution)'
  <2>1. Owned(step) /\ Owned(execution)
    BY DEF DesignInv, Rows
  <2>2. wf' = wf /\ step' = step
    BY <1>1
  <2>3. Owned(step)'
    BY <2>1, <2>2 DEF Owned, Live
  <2>4. Owned(execution)'
    BY <1>3, <1>4, <2>1, <2>2 DEF Owned, Live
  <2> QED
    BY <2>3, <2>4
<1>7. UNCHANGED <<wf, state, transition>>
  BY <1>1
<1>8. Rows' /\ Evolved(pc[p], u, wf, wf, state, state', transition, transition')
  BY <1>6, <1>7, ChildRows
<1>9. ~Deploys(p) /\ UNCHANGED <<wf, entities, roles, answered, abandoned, raced>>
  BY <1>1, <1>2 DEF Deploys, history
<1> QED
  BY <1>1, <1>5, <1>8, <1>9, RowsEnd

(* Steps that write entity definitions or roles: the rows of workflows stay. *)
LEMMA LibraryStep ==
  ASSUME DesignInv, NEW p \in Requests, NEW l \in Plain, NEW v \in Local,
         UNCHANGED <<wf, state, transition, step, execution, touched, answered, abandoned>>,
         entities' \subseteq Slugs, roles' \in [RoleNames \X BOOLEAN -> Nat],
         raced \subseteq raced', raced' \subseteq RoleNames, SecondRoleHasCause',
         Goto(p, l), Keep(p, v), v.kind = loc[p].kind, v.w = loc[p].w, l # "insert",
         Course(l, v), Locals(l, v), OnRoles(l, v, roles', raced'),
         \A q \in Requests \ {p} : pc[q] = "role_insert" =>
           \A n \in loc[q].roles : (roles[<<n, TRUE>>] = 0 => roles'[<<n, TRUE>>] = 0) \/ n \in raced'
  PROVE  DesignInv'
<1>1. /\ wf' = wf /\ state' = state /\ transition' = transition /\ step' = step
      /\ execution' = execution
  OBVIOUS
<1>2. TablesTyped' /\ started' \in 0..MaxRequests
  BY <1>1 DEF DesignInv, Typed, TablesTyped, Goto
<1>3. Rows' /\ WithinLimit'
  BY <1>1 DEF DesignInv, Rows, Owned, Joined, Joins, OneStatePerKey, WithinLimit, Honest,
     LiveWorkflows, Live
<1>4. /\ pc' = [pc EXCEPT ![p] = l] /\ loc' = [loc EXCEPT ![p] = v]
      /\ loc' \in [Requests -> Local] /\ loc'[p] = v /\ l \in Points
  BY DEF DesignInv, Typed, Goto, Keep, Plain
<1>5. Evolved(pc[p], loc[p], wf, wf', state, state', transition, transition')
  BY <1>1 DEF Evolved
<1>6. Aside(p)
  BY <1>1, <1>4 DEF Aside, Alike, LiveNotMore, DesignInv, Typed
<1>7. Settles(p, v)
  BY <1>1 DEF Settles, Deploys
<1>8. OnWorkflow(v, wf') /\ OnLimit(l, v, wf')
  BY <1>1, TypedFacts DEF OnWorkflow, OnLimit, Knows
<1>9. Knows(l, v, wf', state', transition', roles', raced') /\ Grounded(p, l, v)
  BY <1>8, PlainKnows
<1> QED
  BY <1>2, <1>3, <1>4, <1>5, <1>6, <1>7, <1>9, StepOfOne

LEMMA InsertEntityKeeps ==
  ASSUME DesignInv, NEW p \in Requests, InsertEntity(p)  PROVE  DesignInv'
<1> DEFINE u == loc[p]
<1>1. /\ pc[p] = "entity_insert" /\ u \in Local
      /\ Course("entity_insert", u) /\ Locals("entity_insert", u)
      /\ UNCHANGED <<wf, state, transition, step, execution, roles, history>>
  BY TypedFacts DEF InsertEntity, Knows
<1>2. u.kind = "deploy" /\ u.w = Null /\ u.key \in Slugs
  BY <1>1 DEF Course, Locals, Before, Building, Undoing
<1>3. CASE Raise(p) /\ UNCHANGED entities
  <2>1. UNCHANGED <<tables, history>> /\ ~Deploys(p)
    BY <1>1, <1>2, <1>3 DEF tables, Deploys
  <2> QED
    BY <1>3, <2>1, RaiseKeeps
<1>4. CASE Goto(p, "entities") /\ UNCHANGED loc /\ entities' = entities \cup {u.key}
  <2>1. /\ UNCHANGED <<wf, state, transition, step, execution, touched, answered, abandoned>>
        /\ roles' = roles /\ raced' = raced
    BY <1>1 DEF history
  <2>2. /\ entities' \subseteq Slugs /\ roles' \in [RoleNames \X BOOLEAN -> Nat]
        /\ raced \subseteq raced' /\ raced' \subseteq RoleNames
    BY <1>2, <1>4, <2>1 DEF DesignInv, Typed, TablesTyped
  <2>3. SecondRoleHasCause'
    BY <2>1 DEF DesignInv, SecondRoleHasCause, Active
  <2>4. Keep(p, u)
    BY <1>4 DEF Keep, DesignInv, Typed
  <2>5. /\ Course("entities", u) /\ Locals("entities", u) /\ "entities" \in Plain
        /\ OnRoles("entities", u, roles', raced')
    BY <1>1, <1>2 DEF Course, Locals, Before, Plain, Points, OnRoles
  <2>6. \A q \in Requests \ {p} : pc[q] = "role_insert" =>
          \A n \in loc[q].roles : (roles[<<n, TRUE>>] = 0 => roles'[<<n, TRUE>>] = 0) \/ n \in raced'
    BY <2>1
  <2> QED
    BY <1>1, <1>4, <2>1, <2>2, <2>3, <2>4, <2>5, <2>6, LibraryStep
<1> QED
  BY <1>3, <1>4 DEF InsertEntity

LEMMA InsertRoleKeeps ==
  ASSUME DesignInv, NEW p \in Requests, InsertRole(p)  PROVE  DesignInv'
<1> DEFINE u == loc[p]
<1>1. /\ pc[p] = "role_insert" /\ u \in Local
      /\ Course("role_insert", u) /\ Locals("role_insert", u)
      /\ OnRoles("role_insert", u, roles, raced)
      /\ UNCHANGED <<wf, state, transition, step, execution, entities, touched, answered, abandoned>>
  BY TypedFacts DEF InsertRole, Knows
<1>2. u.kind = "deploy" /\ u.w # Null /\ u.roles \subseteq RoleNames
  BY <1>1 DEF Course, Locals, Before, Building, Undoing, Local
<1>3. CASE u.roles = {} /\ Goto(p, "transition") /\ UNCHANGED <<loc, roles, raced>>
  <2>1. UNCHANGED <<tables, history>> /\ Goto(p, "transition") /\ UNCHANGED loc
    BY <1>1, <1>3 DEF tables, history
  <2>2. Course("transition", u) /\ Locals("transition", u) /\ "transition" \in Plain
    BY <1>1, <1>2 DEF Course, Locals, Building, Plain, Points
  <2> QED
    BY <2>1, <2>2, PassKeeps
<1>4. ASSUME NEW n \in u.roles, Goto(p, "role_insert"), Keep(p, [u EXCEPT !.roles = @ \ {n}]),
             roles' = [roles EXCEPT ![<<n, TRUE>>] = @ + 1],
             raced' = raced \cup {m \in {n} : \E q \in Requests \ {p} : Seeding(q, m)}
      PROVE  DesignInv'
  <2> DEFINE v == [u EXCEPT !.roles = @ \ {n}]
  <2>1. v \in Local /\ v.kind = u.kind /\ v.w = u.w /\ v.template = u.template
        /\ v.roles = u.roles \ {n}
    BY <1>1 DEF Local
  <2>2. Keep(p, v)
    BY <1>4
  <2> HIDE DEF v
  <2>3. n \in RoleNames /\ roles \in [RoleNames \X BOOLEAN -> Nat] /\ raced \subseteq RoleNames
        /\ entities \subseteq Slugs /\ SecondRoleHasCause
    BY <1>2 DEF DesignInv, Typed, TablesTyped
  <2>4. /\ entities' \subseteq Slugs /\ roles' \in [RoleNames \X BOOLEAN -> Nat]
        /\ raced \subseteq raced' /\ raced' \subseteq RoleNames
        /\ roles'[<<n, TRUE>>] = roles[<<n, TRUE>>] + 1
        /\ \A m \in RoleNames \ {n} : roles'[<<m, TRUE>>] = roles[<<m, TRUE>>]
    <3>1. /\ roles' \in [RoleNames \X BOOLEAN -> Nat]
          /\ roles'[<<n, TRUE>>] = roles[<<n, TRUE>>] + 1
      BY <1>4, <2>3, OneMoreRole
    <3>2. ASSUME NEW m \in RoleNames \ {n}  PROVE  roles'[<<m, TRUE>>] = roles[<<m, TRUE>>]
      BY <1>4, <2>3, RoleCounts
    <3> QED
      BY <1>1, <1>4, <2>3, <3>1, <3>2
  <2>5. roles[<<n, TRUE>>] = 0 \/ n \in raced
    BY <1>1 DEF OnRoles
  <2>6. SecondRoleHasCause'
    <3>1. ASSUME NEW m \in RoleNames, roles'[<<m, TRUE>>] > 1  PROVE  m \in raced'
      <4>1. roles[<<m, TRUE>>] \in Nat /\ (roles[<<m, TRUE>>] > 1 => m \in raced)
        BY <2>3, RoleCounts DEF SecondRoleHasCause, Active
      <4>2. CASE m = n
        <5>1. roles[<<n, TRUE>>] = 0 => ~(roles'[<<n, TRUE>>] > 1)
          BY <2>4
        <5> QED
          BY <2>4, <2>5, <3>1, <4>2, <5>1
      <4>3. CASE m # n
        BY <2>4, <3>1, <4>1, <4>3
      <4> QED
        BY <4>2, <4>3
    <3> QED
      BY <3>1 DEF SecondRoleHasCause, Active
  <2>7. OnRoles("role_insert", v, roles', raced')
    <3>1. SUFFICES ASSUME NEW m \in v.roles  PROVE  roles'[<<m, TRUE>>] = 0 \/ m \in raced'
      BY DEF OnRoles
    <3>2. m \in u.roles /\ m # n /\ m \in RoleNames
      BY <1>2, <2>1
    <3>3. roles[<<m, TRUE>>] = 0 \/ m \in raced
      BY <1>1, <3>2 DEF OnRoles
    <3> QED
      BY <2>4, <3>2, <3>3
  <2>8. ASSUME NEW q \in Requests \ {p}, pc[q] = "role_insert", NEW m \in loc[q].roles
        PROVE  (roles[<<m, TRUE>>] = 0 => roles'[<<m, TRUE>>] = 0) \/ m \in raced'
    <3>1. m \in RoleNames
      BY TypedFacts DEF Local
    <3>2. m = n => m \in raced'
      BY <1>4, <2>8 DEF Seeding
    <3> QED
      BY <2>4, <3>1, <3>2
  <2>9. Course("role_insert", v) /\ Locals("role_insert", v) /\ "role_insert" \in Plain
    BY <1>1, <1>2, <2>1 DEF Course, Locals, Building, Plain, Points
  <2>10. \A q \in Requests \ {p} : pc[q] = "role_insert" =>
           \A m \in loc[q].roles : (roles[<<m, TRUE>>] = 0 => roles'[<<m, TRUE>>] = 0) \/ m \in raced'
    BY <2>8
  <2>11. UNCHANGED <<wf, state, transition, step, execution, touched, answered, abandoned>>
    BY <1>1
  <2> QED
    BY <1>4, <2>1, <2>2, <2>4, <2>6, <2>7, <2>9, <2>10, <2>11, LibraryStep
<1> QED
  BY <1>3, <1>4 DEF InsertRole

LEMMA DropEntityKeeps ==
  ASSUME DesignInv, DropEntity  PROVE  DesignInv'
<1>1. /\ UNCHANGED <<wf, state, transition, step, execution, roles, pc, loc, history>>
      /\ started < MaxRequests /\ started' = started + 1 /\ entities' \subseteq entities
  BY DEF DropEntity
<1>2. /\ wf' = wf /\ state' = state /\ transition' = transition /\ step' = step
      /\ execution' = execution /\ roles' = roles /\ pc' = pc /\ loc' = loc
      /\ touched' = touched /\ answered' = answered /\ abandoned' = abandoned /\ raced' = raced
  BY <1>1 DEF history
<1>3. Typed'
  BY <1>1, <1>2, DesignAssumption DEF DesignInv, Typed, TablesTyped
<1>4. Rows' /\ WithinLimit' /\ SecondRoleHasCause' /\ DeploymentsSettle'
  <2>1. Rows' /\ WithinLimit' /\ DeploymentsSettle'
    BY <1>2 DEF DesignInv, Rows, Owned, Joined, Joins, OneStatePerKey, WithinLimit, Honest,
       LiveWorkflows, Live, DeploymentsSettle, Deploys
  <2> QED
    BY <1>2, <2>1, SameRoles
<1>5. Informed' /\ Agreed'
  BY <1>2 DEF DesignInv, Informed, Agreed
<1> QED
  BY <1>3, <1>4, <1>5 DEF DesignInv

(* An administrator's change of the roles: a name whose active roles become more
   is noted when one had it or a deployment is about to insert it. *)
LEMMA RolesChange ==
  ASSUME DesignInv, started < MaxRequests, started' = started + 1,
         UNCHANGED <<wf, state, transition, step, execution, entities, pc, loc>>,
         UNCHANGED <<touched, answered, abandoned>>,
         roles' \in [RoleNames \X BOOLEAN -> Nat],
         raced \subseteq raced', raced' \subseteq RoleNames,
         \A n \in RoleNames : \/ roles'[<<n, TRUE>>] <= roles[<<n, TRUE>>]
                               \/ /\ roles'[<<n, TRUE>>] = roles[<<n, TRUE>>] + 1
                                  /\ Given(n) \subseteq raced'
  PROVE  DesignInv'
<1>1. /\ wf' = wf /\ state' = state /\ transition' = transition /\ step' = step
      /\ execution' = execution /\ entities' = entities /\ pc' = pc /\ loc' = loc
      /\ touched' = touched /\ answered' = answered /\ abandoned' = abandoned
  OBVIOUS
<1>2. Typed'
  BY <1>1, DesignAssumption DEF DesignInv, Typed, TablesTyped
<1>3. Rows' /\ WithinLimit' /\ DeploymentsSettle'
  BY <1>1 DEF DesignInv, Rows, Owned, Joined, Joins, OneStatePerKey, WithinLimit, Honest,
     LiveWorkflows, Live, DeploymentsSettle, Deploys
<1>4. ASSUME NEW n \in RoleNames
      PROVE  /\ roles[<<n, TRUE>>] \in Nat /\ roles'[<<n, TRUE>>] \in Nat
             /\ \/ roles'[<<n, TRUE>>] <= roles[<<n, TRUE>>]
                \/ /\ roles'[<<n, TRUE>>] = roles[<<n, TRUE>>] + 1
                   /\ roles[<<n, TRUE>>] > 0 \/ (\E q \in Requests : Seeding(q, n)) => n \in raced'
             /\ roles[<<n, TRUE>>] > 1 => n \in raced'
  <2>1. roles[<<n, TRUE>>] \in Nat /\ roles'[<<n, TRUE>>] \in Nat
    BY RoleCounts DEF DesignInv, Typed, TablesTyped
  <2> QED
    BY <2>1 DEF DesignInv, Given, Active, SecondRoleHasCause
<1>5. SecondRoleHasCause'
  <2>1. ASSUME NEW n \in RoleNames, roles'[<<n, TRUE>>] > 1  PROVE  n \in raced'
    <3>a. n \in RoleNames
      BY <2>1
    <3>1. /\ roles[<<n, TRUE>>] \in Nat /\ roles'[<<n, TRUE>>] \in Nat
          /\ roles[<<n, TRUE>>] > 1 => n \in raced'
      <4>1. roles[<<n, TRUE>>] \in Nat /\ roles'[<<n, TRUE>>] \in Nat
        BY <1>4, <3>a
      <4>2. roles[<<n, TRUE>>] > 1 => n \in raced'
        BY <1>4, <3>a
      <4> QED
        BY <4>1, <4>2
    <3>2. \/ roles'[<<n, TRUE>>] <= roles[<<n, TRUE>>]
          \/ /\ roles'[<<n, TRUE>>] = roles[<<n, TRUE>>] + 1
             /\ roles[<<n, TRUE>>] > 0 => n \in raced'
      BY <1>4, <3>a
    <3>3. roles[<<n, TRUE>>] > 1 \/ roles'[<<n, TRUE>>] = roles[<<n, TRUE>>] + 1
      BY <2>1, <3>1, <3>2
    <3>4. CASE roles[<<n, TRUE>>] > 1
      BY <3>1, <3>4
    <3>5. CASE roles'[<<n, TRUE>>] = roles[<<n, TRUE>>] + 1
      <4>1. roles[<<n, TRUE>>] > 0 /\ ~(roles'[<<n, TRUE>>] <= roles[<<n, TRUE>>])
        BY <2>1, <3>1, <3>5
      <4> QED
        BY <3>2, <4>1
    <3> QED
      BY <3>3, <3>4, <3>5
  <2> QED
    BY <2>1 DEF SecondRoleHasCause, Active
<1>6. ASSUME NEW q \in Requests
      PROVE  Knows(pc[q], loc[q], wf, state, transition, roles', raced')
  <2>1. Knows(pc[q], loc[q], wf, state, transition, roles, raced) /\ loc[q].roles \subseteq RoleNames
    BY TypedFacts DEF Local
  <2>2. OnRoles(pc[q], loc[q], roles', raced')
    <3>1. SUFFICES ASSUME pc[q] = "role_insert", NEW n \in loc[q].roles
                   PROVE  roles'[<<n, TRUE>>] = 0 \/ n \in raced'
      BY DEF OnRoles
    <3>2. roles[<<n, TRUE>>] = 0 \/ n \in raced
      BY <2>1, <3>1 DEF Knows, OnRoles
    <3>3. n \in RoleNames /\ Seeding(q, n)
      BY <2>1, <3>1 DEF Seeding
    <3>4. /\ roles[<<n, TRUE>>] \in Nat /\ roles'[<<n, TRUE>>] \in Nat
          /\ roles'[<<n, TRUE>>] <= roles[<<n, TRUE>>] \/ n \in raced'
      BY <1>4, <3>3
    <3> QED
      BY <3>2, <3>4
  <2> QED
    BY <2>1, <2>2 DEF Knows
<1>7. Informed'
  BY <1>1, <1>6 DEF Informed
<1>8. Agreed'
  BY <1>1 DEF DesignInv, Agreed
<1> QED
  BY <1>2, <1>3, <1>5, <1>7, <1>8 DEF DesignInv

LEMMA CreateRoleKeeps ==
  ASSUME DesignInv, CreateRole  PROVE  DesignInv'
<1>1. PICK n \in RoleNames : /\ roles' = [roles EXCEPT ![<<n, TRUE>>] = @ + 1]
                             /\ raced' = raced \cup Given(n)
  BY DEF CreateRole
<1>2. roles \in [RoleNames \X BOOLEAN -> Nat] /\ raced \subseteq RoleNames
  BY DEF DesignInv, Typed, TablesTyped
<1>3. /\ roles' \in [RoleNames \X BOOLEAN -> Nat]
      /\ roles'[<<n, TRUE>>] = roles[<<n, TRUE>>] + 1
      /\ \A m \in RoleNames \ {n} : roles'[<<m, TRUE>>] = roles[<<m, TRUE>>]
      /\ \A m \in RoleNames : roles[<<m, TRUE>>] \in Nat
  <2>1. /\ roles' \in [RoleNames \X BOOLEAN -> Nat]
        /\ roles'[<<n, TRUE>>] = roles[<<n, TRUE>>] + 1
    BY <1>1, <1>2, OneMoreRole
  <2>2. ASSUME NEW m \in RoleNames \ {n}  PROVE  roles'[<<m, TRUE>>] = roles[<<m, TRUE>>]
    BY <1>1, <1>2, RoleCounts
  <2> QED
    BY <1>2, <2>1, <2>2, RoleCounts
<1>4. raced \subseteq raced' /\ raced' \subseteq RoleNames /\ Given(n) \subseteq raced'
  BY <1>1, <1>2 DEF Given
<1>5. \A m \in RoleNames : \/ roles'[<<m, TRUE>>] <= roles[<<m, TRUE>>]
                            \/ /\ roles'[<<m, TRUE>>] = roles[<<m, TRUE>>] + 1
                               /\ Given(m) \subseteq raced'
  <2>1. ASSUME NEW m \in RoleNames \ {n}  PROVE  roles'[<<m, TRUE>>] <= roles[<<m, TRUE>>]
    <3>1. roles'[<<m, TRUE>>] = roles[<<m, TRUE>>] /\ roles[<<m, TRUE>>] \in Nat
      BY <1>3
    <3> QED
      BY <3>1
  <2> QED
    BY <1>3, <1>4, <2>1
<1> QED
  BY <1>3, <1>4, <1>5, RolesChange DEF CreateRole

LEMMA UpdateRoleKeeps ==
  ASSUME DesignInv, UpdateRole  PROVE  DesignInv'
<1>1. PICK old \in RoleNames \X BOOLEAN, n \in RoleNames, active \in BOOLEAN :
        /\ roles[old] > 0 /\ old # <<n, active>>
        /\ roles' = [roles EXCEPT ![old] = @ - 1, ![<<n, active>>] = @ + 1]
        /\ raced' = IF active THEN raced \cup Given(n) ELSE raced
  BY DEF UpdateRole
<1>2. roles \in [RoleNames \X BOOLEAN -> Nat] /\ raced \subseteq RoleNames
  BY DEF DesignInv, Typed, TablesTyped
<1> DEFINE new == <<n, active>>
<1>a. new \in RoleNames \X BOOLEAN
  OBVIOUS
<1>3. /\ roles' \in [RoleNames \X BOOLEAN -> Nat]
      /\ roles'[old] = roles[old] - 1 /\ roles'[new] = roles[new] + 1
      /\ \A r \in (RoleNames \X BOOLEAN) \ {old, new} : roles'[r] = roles[r]
      /\ \A r \in RoleNames \X BOOLEAN : roles[r] \in Nat
  <2> HIDE DEF new
  <2>1. roles' = [[roles EXCEPT ![old] = @ - 1] EXCEPT ![new] = @ + 1] /\ old # new
    BY <1>1 DEF new
  <2>2. roles[old] \in Nat /\ roles[old] > 0 /\ roles[new] \in Nat
    BY <1>1, <1>2, <1>a
  <2> QED
    BY <1>2, <1>a, <2>1, <2>2
<1>4. raced \subseteq raced' /\ raced' \subseteq RoleNames /\ (active => Given(n) \subseteq raced')
  BY <1>1, <1>2 DEF Given
<1>5. ASSUME NEW m \in RoleNames
      PROVE  \/ roles'[<<m, TRUE>>] <= roles[<<m, TRUE>>]
             \/ /\ roles'[<<m, TRUE>>] = roles[<<m, TRUE>>] + 1
                /\ Given(m) \subseteq raced'
  <2>1. <<m, TRUE>> \in RoleNames \X BOOLEAN
    OBVIOUS
  <2>2. CASE <<m, TRUE>> = new
    <3>1. m = n /\ active = TRUE
      BY <2>2
    <3> QED
      BY <1>3, <1>4, <2>2, <3>1
  <2>3. CASE <<m, TRUE>> = old
    <3> HIDE DEF new
    <3>1. roles'[old] <= roles[old]
      BY <1>3
    <3> QED
      BY <2>3, <3>1
  <2>4. CASE <<m, TRUE>> \notin {old, new}
    <3> HIDE DEF new
    <3> DEFINE r == <<m, TRUE>>
    <3>1. r \in (RoleNames \X BOOLEAN) \ {old, new}
      BY <2>1, <2>4
    <3> HIDE DEF r
    <3>2. roles'[r] <= roles[r]
      BY <1>3, <3>1
    <3> QED
      BY <3>2 DEF r
  <2> QED
    BY <2>2, <2>3, <2>4
<1> QED
  BY <1>3, <1>4, <1>5, RolesChange DEF UpdateRole

(* A new workflow: one that was not counted is marked late, the creations that
   are still to insert theirs are marked too. *)
LEMMA NewRow ==
  ASSUME DesignInv, NEW u \in Local, NEW w \in Workflows, NEW s \in {"draft", "active"},
         Locals("insert", u), OnLimit("insert", u, wf), wf[w].status = "free",
         wf' = [wf EXCEPT ![w] = [status |-> s, late |-> u.late,
                                  copied |-> u.kind = "duplicate", template |-> u.template]]
  PROVE  /\ wf' \in [Workflows -> Workflow] /\ WithinLimit'
         /\ wf'[w].status \in Alive /\ wf'[w].template = u.template
         /\ \A x \in Workflows : x # w => wf'[x] = wf[x]
<1> DEFINE row == [status |-> s, late |-> u.late, copied |-> u.kind = "duplicate",
                   template |-> u.template]
<1>1. wf \in [Workflows -> Workflow] /\ Cardinality(Honest) <= MaxWorkflows
  BY DEF DesignInv, Typed, TablesTyped, WithinLimit
<1>2. row \in Workflow /\ row.status = s
      /\ row.template = u.template /\ row.late = u.late
  BY DEF Workflow, WorkflowStatuses, Local
<1>3. u.kind = "duplicate" => row.copied
  OBVIOUS
<1>4. wf' = [wf EXCEPT ![w] = row]
  OBVIOUS
<1> HIDE DEF row
<1>5. /\ wf' \in [Workflows -> Workflow] /\ wf'[w] = row
      /\ \A x \in Workflows : x # w => wf'[x] = wf[x]
  BY <1>1, <1>2, <1>4
<1>6. Honest' \subseteq Honest \cup {w}
  BY <1>5 DEF Honest, LiveWorkflows, Live
<1>7. IsFiniteSet(Honest) /\ IsFiniteSet(LiveIn(wf)) /\ Honest \subseteq LiveIn(wf)
  BY DesignAssumption, FS_Subset DEF Honest, LiveWorkflows, LiveIn, Live, Alive
<1>8. CASE u.late \/ u.kind = "duplicate"
  <2>1. w \notin Honest'
    BY <1>2, <1>3, <1>5, <1>8 DEF Honest, LiveWorkflows
  <2>2. Honest' \subseteq Honest
    BY <1>6, <2>1
  <2>3. /\ Cardinality(Honest') <= Cardinality(Honest)
        /\ Cardinality(Honest') \in Nat /\ Cardinality(Honest) \in Nat
    BY <1>7, <2>2, FS_Subset, FS_CardinalityType
  <2>4. Cardinality(Honest') <= MaxWorkflows
    BY <1>1, <2>3, DesignAssumption
  <2> QED
    BY <1>2, <1>5, <2>4 DEF WithinLimit, Alive
<1>9. CASE ~(u.late \/ u.kind = "duplicate")
  <2>1. Cardinality(LiveIn(wf)) < MaxWorkflows
    BY <1>9 DEF OnLimit
  <2>2. w \notin Honest
    BY DEF Honest, LiveWorkflows, Live
  <2>3. IsFiniteSet(Honest \cup {w}) /\ Cardinality(Honest \cup {w}) = Cardinality(Honest) + 1
    BY <1>7, <2>2, FS_AddElement
  <2>4. /\ Cardinality(Honest') <= Cardinality(Honest \cup {w})
        /\ Cardinality(Honest) <= Cardinality(LiveIn(wf))
        /\ Cardinality(Honest') \in Nat /\ Cardinality(Honest) \in Nat
        /\ Cardinality(LiveIn(wf)) \in Nat
    BY <1>6, <1>7, <2>3, FS_Subset, FS_CardinalityType
  <2>5. Cardinality(Honest') <= MaxWorkflows
    BY <2>1, <2>3, <2>4, DesignAssumption
  <2> QED
    BY <1>2, <1>5, <2>5 DEF WithinLimit, Alive
<1> QED
  BY <1>8, <1>9

(* Marking the requests that are about to insert leaves their locals alike. *)
LEMMA MarkedLate ==
  ASSUME NEW v \in Local, NEW l
  PROVE  /\ [v EXCEPT !.late = @ \/ l = "insert"] \in Local
         /\ Alike(v, [v EXCEPT !.late = @ \/ l = "insert"])
         /\ l = "insert" => [v EXCEPT !.late = @ \/ l = "insert"].late
<1>1. v.late \in BOOLEAN
  BY DEF Local
<1>2. CASE l = "insert" \/ v.late
  <2>1. [v EXCEPT !.late = @ \/ l = "insert"] = [v EXCEPT !.late = TRUE]
    BY <1>2
  <2>2. [v EXCEPT !.late = TRUE] \in Local /\ [v EXCEPT !.late = TRUE].late
    BY DEF Local
  <2>3. Alike(v, [v EXCEPT !.late = TRUE])
    BY <2>2 DEF Alike, Local
  <2> QED
    BY <2>1, <2>2, <2>3
<1>3. CASE ~(l = "insert" \/ v.late)
  <2>1. [v EXCEPT !.late = @ \/ l = "insert"] = v
    BY <1>1, <1>3 DEF Local
  <2> QED
    BY <1>3, <2>1 DEF Alike
<1> QED
  BY <1>2, <1>3

LEMMA InsertWorkflowKeeps ==
  ASSUME DesignInv, NEW p \in Requests, InsertWorkflow(p)  PROVE  DesignInv'
<1> DEFINE u == loc[p]
<1>1. /\ pc[p] = "insert" /\ u \in Local
      /\ Course("insert", u) /\ Locals("insert", u) /\ OnLimit("insert", u, wf)
      /\ UNCHANGED <<execution, entities, roles, answered, abandoned, raced>>
      /\ UNCHANGED <<state, transition, step, touched>>
      /\ Goto(p, IF u.kind = "deploy" THEN "state" ELSE "idle")
  BY TypedFacts DEF InsertWorkflow, Only, Knows
<1>2. u.kind \in {"deploy", "create", "duplicate"} /\ (u.kind = "deploy" => u.w = Null)
  BY <1>1 DEF Course, Before, Building, Undoing
<1>3. PICK w \in NextWorkflow, s \in {"draft", "active"} :
        /\ wf' = [wf EXCEPT ![w] = [status |-> s, late |-> u.late,
                                    copied |-> u.kind = "duplicate", template |-> u.template]]
        /\ loc' = [q \in Requests |->
             IF q # p THEN [loc[q] EXCEPT !.late = @ \/ pc[q] = "insert"]
             ELSE IF u.kind = "deploy" THEN [u EXCEPT !.w = w] ELSE NoLocal]
  BY DEF InsertWorkflow
<1>4. w \in Workflows /\ w # Null /\ wf[w].status = "free"
  BY DesignAssumption DEF NextWorkflow
<1>5. /\ wf' \in [Workflows -> Workflow] /\ WithinLimit'
      /\ wf'[w].status \in Alive /\ wf'[w].template = u.template
      /\ \A x \in Workflows : x # w => wf'[x] = wf[x]
  BY <1>1, <1>3, <1>4, NewRow
<1> DEFINE l == IF u.kind = "deploy" THEN "state" ELSE "idle"
           v == IF u.kind = "deploy" THEN [u EXCEPT !.w = w] ELSE NoLocal
<1>6. v \in Local /\ loc'[p] = v
  <2>1. [u EXCEPT !.w = w] \in Local
    BY <1>1, <1>4 DEF Local
  <2>2. loc'[p] = IF u.kind = "deploy" THEN [u EXCEPT !.w = w] ELSE NoLocal
    BY <1>3
  <2> QED
    BY <2>1, <2>2, NoLocalTyped
<1>7. /\ u.kind = "deploy" => /\ v.kind = "deploy" /\ v.w = w /\ v.template = u.template
                              /\ l = "state"
      /\ u.kind # "deploy" => v = NoLocal /\ l = "idle"
  BY <1>1 DEF Local
<1>8. pc' = [pc EXCEPT ![p] = l] /\ started' = started
  BY <1>1 DEF Goto
<1> HIDE DEF v, l
<1>9. ASSUME NEW q \in Requests \ {p}
      PROVE  /\ loc'[q] \in Local /\ Alike(loc[q], loc'[q])
             /\ pc[q] = "insert" => loc'[q].late
             /\ pc'[q] = pc[q]
  <2>1. loc'[q] = [loc[q] EXCEPT !.late = @ \/ pc[q] = "insert"]
    BY <1>3, <1>9
  <2>2. loc[q] \in Local
    BY <1>9, TypedFacts
  <2>3. pc'[q] = pc[q]
    BY <1>8, <1>9 DEF DesignInv, Typed
  <2> QED
    BY <2>1, <2>2, <2>3, MarkedLate
<1>10. loc' \in [Requests -> Local]
  BY <1>3, <1>6, <1>9
<1>11. Aside(p)
  BY <1>1, <1>9 DEF Aside
<1>12. RowsTyped'
  BY <1>1 DEF RowsTyped, DesignInv, Typed, TablesTyped
<1>13. /\ Emptied(state, state', NoState) /\ Emptied(transition, transition', NoTransition)
       /\ Emptied(step, step', NoChild) /\ Emptied(execution, execution', NoExecution)
  BY <1>1, Unemptied
<1>14. /\ \A x \in Workflows : wf[x].status # "free" => wf'[x].status # "free"
       /\ \A x \in Workflows : wf[x].status \in Alive => wf'[x].status \in Alive \/ Bare(x)'
       /\ \A t \in TransitionIds : transition'[t].wf # Null =>
            \A i \in {transition[t].from, transition[t].to} : state'[i] = state[i]
  BY <1>1, <1>4, <1>5 DEF Alive
<1>15. Rows' /\ Evolved(pc[p], loc[p], wf, wf', state, state', transition, transition')
  BY <1>12, <1>13, <1>14, EmptyRows
<1>16. TablesTyped' /\ SecondRoleHasCause' /\ started' \in 0..MaxRequests
  BY <1>1, <1>5, <1>8 DEF DesignInv, Typed, TablesTyped, SecondRoleHasCause, Active
<1>17. Settles(p, v)
  <2>1. ASSUME NEW x \in Workflows, wf'[x].status \in Alive, wf'[x].template # EmptyTemplate
        PROVE  \/ wf[x].status \in Alive /\ wf'[x].template = wf[x].template
               \/ v.kind = "deploy" /\ v.w = x
    <3>1. CASE x # w
      BY <1>5, <2>1, <3>1
    <3>2. CASE x = w
      BY <1>1, <1>5, <1>7, <2>1, <3>2 DEF Locals
    <3> QED
      BY <3>1, <3>2
  <2>2. ~Deploys(p)
    BY <1>2 DEF Deploys
  <2>3. answered \subseteq answered' /\ abandoned \subseteq abandoned'
    BY <1>1
  <2> QED
    BY <2>1, <2>2, <2>3 DEF Settles
<1>18. /\ Grounded(p, l, v) /\ l \in Points
       /\ Knows(l, v, wf', state', transition', roles', raced')
  <2>1. CASE u.kind = "deploy"
    <3>1. Course(l, v) /\ Locals(l, v) /\ OnWorkflow(v, wf') /\ l \in Plain /\ l \in Points
      BY <1>4, <1>5, <1>7, <2>1 DEF Course, Locals, OnWorkflow, Building, Plain, Points, Alive
    <3>2. OnLimit(l, v, wf') /\ OnRoles(l, v, roles', raced')
      BY <1>7, <2>1 DEF OnLimit, OnRoles
    <3>3. Knows(l, v, wf', state', transition', roles', raced')
      BY <3>1, <3>2, PlainKnows
    <3>4. Grounded(p, l, v)
      BY <1>4, <1>7, <2>1 DEF Grounded, ClaimsState, ClaimsTransition
    <3> QED
      BY <3>1, <3>3, <3>4
  <2>2. CASE u.kind # "deploy"
    BY <1>7, <2>2, EndKnows
  <2> QED
    BY <2>1, <2>2
<1>19. raced \subseteq raced'
  BY <1>1
<1> QED
  BY <1>5, <1>6, <1>8, <1>10, <1>11, <1>15, <1>16, <1>17, <1>18, <1>19, StepOfOne

-----------------------------------------------------------------------------
LEMMA StepKeeps ==
  ASSUME DesignInv, NEW p \in Requests, Step(p)  PROVE  DesignInv'
<1>1. CASE FindEntity(p) \/ InsertEntity(p) \/ ValidateAssignments(p)
           \/ CountWorkflows(p) \/ InsertWorkflow(p)
  BY <1>1, FindEntityKeeps, InsertEntityKeeps, ValidateAssignmentsKeeps, CountWorkflowsKeeps,
     InsertWorkflowKeeps
<1>2. CASE CheckState(p) \/ InsertState(p) \/ ReadRoles(p) \/ InsertRole(p)
  BY <1>2, CheckStateKeeps, InsertStateKeeps, ReadRolesKeeps, InsertRoleKeeps
<1>3. CASE CheckTransition(p) \/ InsertTransition(p) \/ CheckStep(p) \/ InsertStep(p)
  BY <1>3, CheckTransitionKeeps, InsertTransitionKeeps, CheckStepKeeps, InsertStepKeeps
<1>4. CASE SetStatus(p) \/ Answer(p)
  BY <1>4, SetStatusKeeps, AnswerKeeps
<1>5. CASE ChangeState(p) \/ CutTransitions(p) \/ DropState(p)
  BY <1>5, ChangeStateKeeps, CutTransitionsKeeps, DropStateKeeps
<1>6. CASE MoveTransition(p) \/ CutTransition(p) \/ CutStep(p)
  BY <1>6, MoveTransitionKeeps, CutTransitionKeeps, CutStepKeeps
<1>7. CASE ListExecutions(p) \/ CommitRemoval(p) \/ InsertExecution(p) \/ LogEvent(p)
  BY <1>7, ListExecutionsKeeps, CommitRemovalKeeps, InsertExecutionKeeps, LogEventKeeps
<1>8. CASE Fail(p) \/ Crash(p)
  BY <1>8, FailKeeps, CrashKeeps
<1> QED
  BY <1>1, <1>2, <1>3, <1>4, <1>5, <1>6, <1>7, <1>8 DEF Step

LEMMA StutterKeeps ==
  ASSUME DesignInv, UNCHANGED vars  PROVE  DesignInv'
<1>1. /\ wf' = wf /\ state' = state /\ transition' = transition /\ step' = step
      /\ execution' = execution /\ entities' = entities /\ roles' = roles
      /\ pc' = pc /\ loc' = loc /\ started' = started
      /\ touched' = touched /\ answered' = answered /\ abandoned' = abandoned /\ raced' = raced
  BY DEF vars, tables, requests, history
<1>2. Typed'
  BY <1>1 DEF DesignInv, Typed, TablesTyped
<1>3. Rows' /\ WithinLimit' /\ SecondRoleHasCause' /\ DeploymentsSettle'
  <2>1. Rows' /\ WithinLimit' /\ DeploymentsSettle'
    BY <1>1 DEF DesignInv, Rows, Owned, Joined, Joins, OneStatePerKey, WithinLimit, Honest,
       LiveWorkflows, Live, DeploymentsSettle, Deploys
  <2> QED
    BY <1>1, <2>1, SameRoles
<1>4. Informed' /\ Agreed'
  BY <1>1 DEF DesignInv, Informed, Agreed
<1> QED
  BY <1>2, <1>3, <1>4 DEF DesignInv

LEMMA NextKeeps == DesignInv /\ [Next]_vars => DesignInv'
<1>1. ASSUME DesignInv, NEW p \in Requests, Begin(p) \/ Step(p)  PROVE  DesignInv'
  BY <1>1, BeginKeeps, StepKeeps
<1> QED
  BY <1>1, DropEntityKeeps, CreateRoleKeeps, UpdateRoleKeeps, StutterKeeps DEF Next

(* The tables the system starts with. *)
LEMMA InitHolds == Init => DesignInv
<1> SUFFICES ASSUME Init  PROVE  DesignInv
  OBVIOUS
<1>1. PICK t \in InitialTables : wf = t[1] /\ state = t[2] /\ transition = t[3] /\ step = t[4]
  BY DEF Init
<1>2. LiveWorkflows = {w \in Workflows : t[1][w].status \in {"draft", "active", "paused"}}
  BY <1>1 DEF LiveWorkflows, Live
<1>a. /\ wf \in [Workflows -> Workflow] /\ state \in [StateIds -> StateRow]
      /\ transition \in [TransitionIds -> TransitionRow] /\ step \in [StepIds -> ChildRow]
      /\ \A w \in LiveWorkflows : wf[w].template = EmptyTemplate
  BY <1>1, <1>2, TablesAssumption
<1>b. Cardinality({w \in LiveWorkflows : ~wf[w].late /\ ~wf[w].copied}) <= MaxWorkflows
  BY <1>1, <1>2, TablesAssumption
<1>c. \A i \in StateIds : state[i].wf # Null =>
           /\ state[i].used /\ state[i].wf \in LiveWorkflows
           /\ \A j \in StateIds :
                state[j].wf = state[i].wf /\ state[j].key = state[i].key => j = i
  BY <1>1, <1>2, TablesAssumption
<1>d. \A i \in TransitionIds :
           \/ transition[i].wf = Null /\ transition[i].from = Null /\ transition[i].to = Null
           \/ /\ transition[i].used /\ transition[i].wf \in LiveWorkflows
              /\ \A j \in {transition[i].from, transition[i].to} :
                   j # Null /\ state[j].wf = transition[i].wf
  BY <1>1, <1>2, TablesAssumption, ZenonT(60)
<1>e. \A i \in StepIds : step[i].wf # Null => step[i].used /\ step[i].wf \in LiveWorkflows
  BY <1>1, <1>2, TablesAssumption
<1>4. /\ execution = [x \in Executions |-> NoExecution]
      /\ entities = {} /\ roles \in InitialRoles
      /\ pc = [p \in Requests |-> "idle"] /\ loc = [p \in Requests |-> NoLocal]
      /\ started = 0 /\ touched = {} /\ answered = {} /\ abandoned = {} /\ raced = {}
  BY DEF Init
<1>5. Typed
  <2>1. execution \in [Executions -> ExecutionRow]
    BY <1>4 DEF ExecutionRow, NoExecution
  <2>2. pc \in [Requests -> Points] /\ loc \in [Requests -> Local]
    BY <1>4, NoLocalTyped DEF Points
  <2>3. roles \in [RoleNames \X BOOLEAN -> Nat] /\ started \in 0..MaxRequests
    <3>1. roles \in [RoleNames \X BOOLEAN -> 0..1]
      BY <1>4, RolesAssumption
    <3> QED
      BY <1>4, <3>1, DesignAssumption
  <2> QED
    BY <1>a, <1>b, <1>c, <1>d, <1>e, <1>4, <2>1, <2>2, <2>3 DEF Typed, TablesTyped
<1>6. Rows
  <2>1. Owned(state) /\ Owned(transition) /\ Owned(step)
    BY <1>a, <1>b, <1>c, <1>d, <1>e DEF Owned, LiveWorkflows
  <2>2. Owned(execution)
    BY <1>4 DEF Owned, NoExecution
  <2>3. Joined
    <3>1. ASSUME NEW i \in TransitionIds, transition[i].wf # Null,
                 NEW j \in {transition[i].from, transition[i].to}
          PROVE  j \in StateIds /\ state[j].wf # Null /\ state[j].wf = transition[i].wf
      <4>1. j # Null /\ state[j].wf = transition[i].wf
        BY <1>a, <1>b, <1>c, <1>d, <1>e, <3>1
      <4>2. transition[i] \in TransitionRow
        BY <1>a, <1>b, <1>c, <1>d, <1>e
      <4>3. j \in StateIds
        BY <3>1, <4>1, <4>2 DEF TransitionRow
      <4> QED
        BY <3>1, <4>1, <4>3
    <3>2. \A i \in TransitionIds : transition[i].wf = Null =>
            transition[i].from = Null /\ transition[i].to = Null
      BY <1>a, <1>b, <1>c, <1>d, <1>e, DesignAssumption DEF LiveWorkflows
    <3> QED
      BY <3>1, <3>2 DEF Joined, Joins
  <2>4. OneStatePerKey
    BY <1>a, <1>b, <1>c, <1>d, <1>e DEF OneStatePerKey
  <2> QED
    BY <2>1, <2>2, <2>3, <2>4 DEF Rows
<1>7. WithinLimit
  BY <1>a, <1>b, <1>c, <1>d, <1>e DEF WithinLimit, Honest
<1>8. SecondRoleHasCause
  <2>1. ASSUME NEW n \in RoleNames  PROVE  ~(Active(n) > 1)
    <3>1. roles \in [RoleNames \X BOOLEAN -> 0..1] /\ <<n, TRUE>> \in RoleNames \X BOOLEAN
      BY <1>4, RolesAssumption
    <3>2. roles[<<n, TRUE>>] \in 0..1
      BY <3>1
    <3> QED
      BY <3>2 DEF Active
  <2> QED
    BY <2>1 DEF SecondRoleHasCause
<1>9. DeploymentsSettle
  BY <1>a, <1>b, <1>c, <1>d, <1>e DEF DeploymentsSettle
<1>10. Informed
  BY <1>4, EndKnows DEF Informed
<1>11. Agreed
  BY <1>4 DEF Agreed, Agree, ClaimsState, ClaimsTransition, NoLocal
<1> QED
  BY <1>5, <1>6, <1>7, <1>8, <1>9, <1>10, <1>11 DEF DesignInv

THEOREM DesignAlways == Spec => []DesignInv
<1>1. Init => DesignInv
  BY InitHolds
<1>2. DesignInv /\ [Next]_vars => DesignInv'
  BY NextKeeps
<1> QED
  BY <1>1, <1>2, PTL DEF Spec

(* Whatever requests overlap, the rows of a workflow go with it, and a transition
   joins states that exist: of its own workflow, unless a PATCH moved it
   (workflows.service.ts:181-214, 500-504). *)
THEOREM NothingOrphaned == Spec => []NothingIsOrphaned
<1>1. DesignInv => NothingIsOrphaned
  <2> SUFFICES ASSUME DesignInv  PROVE  NothingIsOrphaned
    OBVIOUS
  <2>1. /\ state \in [StateIds -> StateRow] /\ transition \in [TransitionIds -> TransitionRow]
        /\ step \in [StepIds -> ChildRow] /\ execution \in [Executions -> ExecutionRow]
        /\ Owned(state) /\ Owned(transition) /\ Owned(step) /\ Owned(execution) /\ Joined
    BY DEF DesignInv, Typed, TablesTyped, Rows
  <2>2. ASSUME NEW w \in Workflows \ LiveWorkflows
        PROVE  /\ RowsOf(state, w) = {} /\ RowsOf(transition, w) = {}
               /\ RowsOf(step, w) = {} /\ RowsOf(execution, w) = {}
    <3>1. ~Live(w) /\ w # Null
      BY <2>2, DesignAssumption DEF LiveWorkflows
    <3> QED
      BY <2>1, <3>1 DEF RowsOf, Owned
  <2>3. ASSUME NEW t \in TransitionIds, transition[t].wf # Null
        PROVE  LET ends == {state[transition[t].from].wf, state[transition[t].to].wf} IN
               Null \notin ends /\ (transition[t].moved \/ ends = {transition[t].wf})
    <3>1. Joins(transition[t])
      BY <2>1, <2>3 DEF Joined
    <3> QED
      BY <3>1 DEF Joins
  <2> QED
    BY <2>2, <2>3 DEF NothingIsOrphaned
<1> QED
  BY <1>1, DesignAlways, PTL

(* However two requests that found a key unused interleave, no workflow gets two
   states with it (workflows.service.ts:439-453, 485). *)
THEOREM KeysAreUnique == Spec => []OneStatePerKey
<1>1. DesignInv => OneStatePerKey
  BY DEF DesignInv, Rows
<1> QED
  BY <1>1, DesignAlways, PTL

(* A deployment ends with an answered workflow or with none, unless its process
   died or its clean-up failed (workflows.service.ts:604-624). *)
THEOREM DeploymentsDoSettle == Spec => []DeploymentsSettle
<1>1. DesignInv => DeploymentsSettle
  BY DEF DesignInv
<1> QED
  BY <1>1, DesignAlways, PTL

(* More workflows than the plan allows mean that creations overlapped, or that
   one was duplicated, whatever the limit (workflows.service.ts:96-100, 256). *)
THEOREM OvershootsHaveCause == Spec => []LimitOvershootHasCause
<1>1. DesignInv => LimitOvershootHasCause
  <2> SUFFICES ASSUME DesignInv, Cardinality(LiveWorkflows) > MaxWorkflows,
                      \A w \in LiveWorkflows : ~(wf[w].late \/ wf[w].copied)
               PROVE  FALSE
    BY DEF LimitOvershootHasCause
  <2>1. Honest = LiveWorkflows
    BY DEF Honest
  <2>2. Cardinality(LiveWorkflows) <= MaxWorkflows
    BY <2>1 DEF DesignInv, WithinLimit
  <2>3. Cardinality(LiveWorkflows) \in Nat
    BY DesignAssumption, FS_Subset, FS_CardinalityType DEF LiveWorkflows
  <2> QED
    BY <2>2, <2>3, DesignAssumption
<1> QED
  BY <1>1, DesignAlways, PTL

(* A name gets a second active role only when two requests gave it at once or an
   administrator gave it to a role beside an active one, whatever roles are
   deactivated, reactivated and renamed between the deployments
   (workflows.service.ts:774-798, users.service.ts:110-140). *)
THEOREM SecondRolesHaveCause == Spec => []SecondRoleHasCause
<1>1. DesignInv => SecondRoleHasCause
  BY DEF DesignInv
<1> QED
  BY <1>1, DesignAlways, PTL

(* The tables and the requests keep their types, whatever is deployed, edited or
   removed meanwhile. *)
THEOREM DesignTyped == Spec => []TypeOK
<1>1. DesignInv => TypeOK
  <2> SUFFICES ASSUME Typed PROVE TypeOK
    BY DEF DesignInv
  <2>1. ASSUME NEW p \in Requests
        PROVE  /\ loc[p].kind \in Kinds /\ loc[p].w \in Workflows \cup {Null}
               /\ loc[p].listed \subseteq Executions /\ loc[p].steps \in Nat
    BY DEF Typed, Local
  <2> QED
    BY <2>1 DEF Typed, TablesTyped, TypeOK
<1> QED
  BY <1>1, DesignAlways, PTL
=============================================================================
