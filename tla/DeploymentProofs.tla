-------------------------- MODULE DeploymentProofs --------------------------
(***************************************************************************)
(* A workflow that only its deployment touched runs only when it is        *)
(* complete, for every tenant: any templates, and any number of requests   *)
(* that deploy, edit, remove and trigger at once.  DeployInv, on top of    *)
(* DesignInv, says how much of its template a deployment has stored, what  *)
(* it still lists, and that a workflow which runs has all of it.           *)
(***************************************************************************)
EXTENDS WorkflowDesignProofs

-----------------------------------------------------------------------------
(* How far a deployment has come: what is stored and what its locals still list
   make up the template, unless somebody else touched the workflow.  The tables
   are W, S, T, A, X: workflows, states, transitions, steps, executions. *)
KeysIn(S, w) == {S[i].key : i \in RowsOf(S, w)}
PairsIn(S, T, w) == {<<S[T[i].from].key, S[T[i].to].key>> : i \in RowsOf(T, w)}
Full(W, S, T, A, w) ==
  /\ KeysIn(S, w) = Elements(W[w].template.states)
  /\ PairsIn(S, T, w) = Elements(W[w].template.transitions)
  /\ Cardinality(RowsOf(A, w)) = W[w].template.steps
Unspoilt(W, edited, w) ==
  W[w].status \in Alive /\ w \notin edited /\ W[w].template # EmptyTemplate
Listed(v) == /\ v.states = v.template.states /\ v.transitions = v.template.transitions
             /\ v.steps = v.template.steps /\ \A k \in Keys : v.ids[k] = Null
Stored(l, v, W, S, T, A, X, done) ==
  LET t == v.template IN
  /\ W[v.w].template = t
  /\ l # "answer" => W[v.w].status = "draft" /\ v.w \notin done /\ RowsOf(X, v.w) = {}
  /\ KeysIn(S, v.w) \cup Elements(v.states) = Elements(t.states)
  /\ PairsIn(S, T, v.w) \cup Elements(v.transitions) = Elements(t.transitions)
  /\ Cardinality(RowsOf(A, v.w)) + v.steps = t.steps
  /\ l \notin {"state", "state_insert"} => v.states = <<>>
  /\ l \in {"step", "step_insert", "status", "answer"} => v.transitions = <<>>
  /\ l \in {"status", "answer"} => v.steps = 0
  /\ \A k \in Keys : v.ids[k] # Null => S[v.ids[k]].wf = v.w /\ S[v.ids[k]].key = k
Progress(l, v, W, S, T, A, X, edited, done) ==
  /\ v.kind = "deploy" /\ l \in Before => Listed(v)
  /\ v.kind = "deploy" /\ l \in Building /\ Unspoilt(W, edited, v.w) =>
       Stored(l, v, W, S, T, A, X, done)
  /\ l = "drop" => v.w \in edited
  /\ l = "cut_step" => A[v.id].used /\ A[v.id].wf \in {Null, v.w}
  /\ v.kind = "trigger" /\ Unspoilt(W, edited, v.w) =>
       Full(W, S, T, A, v.w) /\ W[v.w].status = "active"
(* What a workflow that runs, or that was announced, must have. *)
Sound(W, S, T, A, X, edited, done, w) ==
  /\ Unspoilt(W, edited, w) /\ (W[w].status = "active" \/ w \in done \/ RowsOf(X, w) # {})
     => Full(W, S, T, A, w)
  /\ Unspoilt(W, edited, w) => \A i \in TransitionIds : T[i].wf = w => ~T[i].moved

DeployInv ==
  /\ \A q \in Requests :
       Progress(pc[q], loc[q], wf, state, transition, step, execution, touched, answered)
  /\ \A w \in Workflows : Sound(wf, state, transition, step, execution, touched, answered, w)
  /\ \A w \in answered : wf[w].status # "free"

(* A workflow whose rows a step leaves alone is as complete as it was. *)
SameRows(S, S2, w) == \A i \in DOMAIN S : S[i].wf = w \/ S2[i].wf = w => S2[i] = S[i]
OwnEnds(S, T, w) ==
  \A i \in TransitionIds : T[i].wf = w =>
    /\ T[i].from \in StateIds /\ S[T[i].from].wf = w
    /\ T[i].to \in StateIds /\ S[T[i].to].wf = w

Untouched(W, W2, S, S2, T, T2, A, A2, w) ==
  W2[w] = W[w] /\ SameRows(S, S2, w) /\ SameRows(T, T2, w) /\ SameRows(A, A2, w)
Unrun(X, X2, done, done2, w) == RowsOf(X2, w) \subseteq RowsOf(X, w) /\ (w \in done2 => w \in done)
TypedRows(S, T, A) == /\ S \in [StateIds -> StateRow] /\ T \in [TransitionIds -> TransitionRow]
                      /\ A \in [StepIds -> ChildRow]

LEMMA SameRowsOf ==
  ASSUME NEW S, NEW S2, NEW w, DOMAIN S2 = DOMAIN S, SameRows(S, S2, w)
  PROVE  RowsOf(S2, w) = RowsOf(S, w) /\ \A i \in RowsOf(S, w) : S2[i] = S[i]
BY DEF RowsOf, SameRows

LEMMA SameParts ==
  ASSUME NEW S \in [StateIds -> StateRow], NEW S2 \in [StateIds -> StateRow],
         NEW T \in [TransitionIds -> TransitionRow], NEW T2 \in [TransitionIds -> TransitionRow],
         NEW A \in [StepIds -> ChildRow], NEW A2 \in [StepIds -> ChildRow], NEW w,
         SameRows(S, S2, w), SameRows(T, T2, w), SameRows(A, A2, w), OwnEnds(S, T, w)
  PROVE  /\ KeysIn(S2, w) = KeysIn(S, w) /\ PairsIn(S2, T2, w) = PairsIn(S, T, w)
         /\ RowsOf(A2, w) = RowsOf(A, w)
<1>1. DOMAIN S = StateIds /\ DOMAIN S2 = StateIds /\ DOMAIN T = TransitionIds
      /\ DOMAIN T2 = TransitionIds /\ DOMAIN A = StepIds /\ DOMAIN A2 = StepIds
  OBVIOUS
<1>2. RowsOf(S2, w) = RowsOf(S, w) /\ \A i \in RowsOf(S, w) : S2[i] = S[i]
  BY <1>1, SameRowsOf
<1>3. RowsOf(T2, w) = RowsOf(T, w) /\ \A i \in RowsOf(T, w) : T2[i] = T[i]
  BY <1>1, SameRowsOf
<1>4. RowsOf(A2, w) = RowsOf(A, w)
  BY <1>1, SameRowsOf
<1>5. KeysIn(S2, w) = KeysIn(S, w)
  BY <1>2 DEF KeysIn
<1>6. \A i \in RowsOf(T, w) : /\ S2[T2[i].from].key = S[T[i].from].key
                              /\ S2[T2[i].to].key = S[T[i].to].key
  <2>1. SUFFICES ASSUME NEW i \in RowsOf(T, w)
                 PROVE  /\ S2[T2[i].from].key = S[T[i].from].key
                        /\ S2[T2[i].to].key = S[T[i].to].key
    OBVIOUS
  <2>2. i \in TransitionIds /\ T[i].wf = w
    BY <1>1 DEF RowsOf
  <2>3. T[i].from \in RowsOf(S, w) /\ T[i].to \in RowsOf(S, w)
    BY <1>1, <2>2 DEF OwnEnds, RowsOf
  <2> QED
    BY <1>2, <1>3, <2>3
<1>7. PairsIn(S2, T2, w) = PairsIn(S, T, w)
  BY <1>3, <1>6 DEF PairsIn
<1> QED
  BY <1>4, <1>5, <1>7

LEMMA FullStays ==
  ASSUME NEW S, NEW S2, NEW T, NEW T2, NEW A, NEW A2, NEW w, NEW W, NEW W2,
         TypedRows(S, T, A), TypedRows(S2, T2, A2),
         Untouched(W, W2, S, S2, T, T2, A, A2, w), OwnEnds(S, T, w),
         Full(W, S, T, A, w)
  PROVE  Full(W2, S2, T2, A2, w)
BY SameParts DEF Full, TypedRows, Untouched

LEMMA StoredStays ==
  ASSUME NEW S, NEW S2, NEW T, NEW T2, NEW A, NEW A2, NEW w, NEW W, NEW W2,
         TypedRows(S, T, A), TypedRows(S2, T2, A2),
         Untouched(W, W2, S, S2, T, T2, A, A2, w), OwnEnds(S, T, w), w # Null,
         NEW l, NEW v \in Local, NEW v2, Alike(v, v2), v.w = w,
         NEW X, NEW X2, NEW done, NEW done2,
         l = "answer" \/ Unrun(X, X2, done, done2, w),
         Stored(l, v, W, S, T, A, X, done)
  PROVE  Stored(l, v2, W2, S2, T2, A2, X2, done2)
<1>1. /\ v2.template = v.template /\ v2.w = w /\ v2.states = v.states
      /\ v2.transitions = v.transitions /\ v2.steps = v.steps /\ v2.ids = v.ids
  BY DEF Alike
<1>2. /\ KeysIn(S2, w) = KeysIn(S, w) /\ PairsIn(S2, T2, w) = PairsIn(S, T, w)
      /\ RowsOf(A2, w) = RowsOf(A, w)
  BY SameParts DEF TypedRows, Untouched
<1>3. ASSUME NEW k \in Keys, v.ids[k] # Null
      PROVE  S2[v.ids[k]].wf = w /\ S2[v.ids[k]].key = k
  <2>1. v.ids[k] \in StateIds /\ S[v.ids[k]].wf = w /\ S[v.ids[k]].key = k
    BY <1>3 DEF Stored, Local
  <2>2. S2[v.ids[k]] = S[v.ids[k]]
    BY <2>1 DEF Untouched, SameRows, TypedRows
  <2> QED
    BY <2>1, <2>2
<1>4. l # "answer" => W2[w].status = "draft" /\ w \notin done2 /\ RowsOf(X2, w) = {}
  BY DEF Stored, Untouched, Unrun
<1>5. /\ W2[w].template = v.template
      /\ KeysIn(S, w) \cup Elements(v.states) = Elements(v.template.states)
      /\ PairsIn(S, T, w) \cup Elements(v.transitions) = Elements(v.template.transitions)
      /\ Cardinality(RowsOf(A, w)) + v.steps = v.template.steps
      /\ l \notin {"state", "state_insert"} => v.states = <<>>
      /\ l \in {"step", "step_insert", "status", "answer"} => v.transitions = <<>>
      /\ l \in {"status", "answer"} => v.steps = 0
  BY DEF Stored, Untouched
<1> QED
  BY <1>1, <1>2, <1>3, <1>4, <1>5 DEF Stored

LEMMA ElementsOf ==
  /\ Elements(<<>>) = {}
  /\ \A K : \A s \in Seq(K) : s # <<>> => Elements(s) = {Head(s)} \cup Elements(Tail(s))
<1>1. Elements(<<>>) = {}
  BY DEF Elements
<1>2. ASSUME NEW K, NEW s \in Seq(K), s # <<>>
      PROVE  Elements(s) = {Head(s)} \cup Elements(Tail(s))
  <2>1. Len(s) \in Nat /\ Len(s) > 0 /\ DOMAIN s = 1..Len(s) /\ Head(s) = s[1]
    BY <1>2
  <2>2. Tail(s) \in Seq(K) /\ Len(Tail(s)) = Len(s) - 1 /\ DOMAIN Tail(s) = 1..(Len(s) - 1)
        /\ \A i \in 1..(Len(s) - 1) : Tail(s)[i] = s[i + 1]
    BY <1>2
  <2>3. ASSUME NEW i \in DOMAIN s  PROVE s[i] \in {Head(s)} \cup Elements(Tail(s))
    <3>1. CASE i = 1
      BY <2>1, <3>1
    <3>2. CASE i # 1
      <4>1. i - 1 \in 1..(Len(s) - 1)
        BY <2>1, <2>3, <3>2
      <4>2. Tail(s)[i - 1] = s[i]
        BY <2>2, <4>1
      <4> QED
        BY <2>2, <4>1, <4>2 DEF Elements
    <3> QED
      BY <3>1, <3>2
  <2>4. ASSUME NEW i \in DOMAIN Tail(s)  PROVE Tail(s)[i] \in Elements(s)
    <3>1. Tail(s)[i] = s[i + 1] /\ i + 1 \in DOMAIN s
      BY <2>1, <2>2, <2>4
    <3> QED
      BY <3>1 DEF Elements
  <2>5. Head(s) \in Elements(s)
    BY <2>1 DEF Elements
  <2> QED
    BY <2>3, <2>4, <2>5 DEF Elements
<1> QED
  BY <1>1, <1>2

-----------------------------------------------------------------------------
(* A step of p as a workflow w that is unspoilt after it sees it: w is left as it
   was and no execution or answer is new; or one is, and w is complete; or p is
   the deployment that builds w. *)
Spared(w) == /\ w \notin touched
             /\ Untouched(wf, wf', state, state', transition, transition', step, step', w)
Quiet(w) == Unrun(execution, execution', answered, answered', w)
Ready(p, w) ==
  /\ Full(wf, state, transition, step, w)
  /\ \A q \in Requests \ {p} :
       loc[q].kind = "deploy" /\ loc[q].w = w => pc[q] \notin Building \ {"answer"}
Built(p, l, v, w) ==
  /\ v.kind = "deploy" /\ v.w = w /\ l \in Building
  /\ \A q \in Requests \ {p} : loc[q].w = w => loc[q].kind \notin {"deploy", "trigger"}
  /\ \A i \in TransitionIds : transition'[i].wf = w => ~transition'[i].moved
StepsKept == \A i \in StepIds : step[i].used => step'[i].used /\ step'[i].wf \in {Null, step[i].wf}
Effect(p, l, v) ==
  /\ \A w \in Workflows : Unspoilt(wf', touched', w) =>
       \/ Spared(w) /\ (Quiet(w) \/ Ready(p, w))
       \/ Built(p, l, v, w)
  /\ touched \subseteq touched' /\ StepsKept
  /\ \A w \in answered' : wf'[w].status # "free"

(* The transitions of an unspoilt workflow join its own states. *)
LEMMA UnspoiltEnds ==
  ASSUME DesignInv, DeployInv, NEW w \in Workflows, Unspoilt(wf, touched, w)
  PROVE  OwnEnds(state, transition, w) /\ w # Null
<1>1. w # Null
  BY DesignAssumption
<1>2. Joined /\ Sound(wf, state, transition, step, execution, touched, answered, w)
  BY DEF DesignInv, Rows, DeployInv
<1>3. ASSUME NEW i \in TransitionIds, transition[i].wf = w
      PROVE  /\ transition[i].from \in StateIds /\ state[transition[i].from].wf = w
             /\ transition[i].to \in StateIds /\ state[transition[i].to].wf = w
  <2>1. Joins(transition[i]) /\ ~transition[i].moved
    BY <1>1, <1>2, <1>3 DEF Joined, Sound
  <2> QED
    BY <1>3, <2>1 DEF Joins
<1> QED
  BY <1>1, <1>3 DEF OwnEnds

LEMMA TablesNow ==
  ASSUME DesignInv
  PROVE  /\ state \in [StateIds -> StateRow] /\ transition \in [TransitionIds -> TransitionRow]
         /\ TypedRows(state, transition, step)
         /\ step \in [StepIds -> ChildRow] /\ execution \in [Executions -> ExecutionRow]
         /\ wf \in [Workflows -> Workflow]
BY DEF DesignInv, Typed, TablesTyped, TypedRows

LEMMA TablesNext ==
  ASSUME DesignInv'
  PROVE  /\ state' \in [StateIds -> StateRow] /\ transition' \in [TransitionIds -> TransitionRow]
         /\ TypedRows(state', transition', step')
         /\ step' \in [StepIds -> ChildRow] /\ execution' \in [Executions -> ExecutionRow]
         /\ wf' \in [Workflows -> Workflow]
BY DEF DesignInv, Typed, TablesTyped, TypedRows

LEMMA SparedFacts ==
  ASSUME DesignInv, DesignInv', DeployInv, NEW w \in Workflows,
         Unspoilt(wf', touched', w), Spared(w)
  PROVE  /\ Unspoilt(wf, touched, w) /\ OwnEnds(state, transition, w) /\ w # Null
         /\ Full(wf, state, transition, step, w) => Full(wf', state', transition', step', w)
<1>1. Unspoilt(wf, touched, w)
  BY DEF Spared, Unspoilt, Untouched
<1>2. OwnEnds(state, transition, w) /\ w # Null
  BY <1>1, UnspoiltEnds
<1>3. ASSUME Full(wf, state, transition, step, w)
      PROVE  Full(wf', state', transition', step', w)
  <2>1. Untouched(wf, wf', state, state', transition, transition', step, step', w)
    BY DEF Spared
  <2>2. TypedRows(state, transition, step) /\ TypedRows(state', transition', step')
    BY TablesNow, TablesNext
  <2> QED
    BY ONLY <1>2, <1>3, <2>1, <2>2, FullStays
<1> QED
  BY <1>1, <1>2, <1>3

LEMMA OtherProgress ==
  ASSUME DesignInv, DesignInv', DeployInv, NEW p \in Requests, NEW l, NEW v, Effect(p, l, v),
         NEW q \in Requests, q # p, pc'[q] = pc[q], Alike(loc[q], loc'[q])
  PROVE  Progress(pc'[q], loc'[q], wf', state', transition', step', execution', touched', answered')
<1> DEFINE m == pc[q]
           u == loc[q]
           u2 == loc'[q]
<1>1. /\ u \in Local /\ Course(m, u) /\ Locals(m, u)
      /\ Progress(m, u, wf, state, transition, step, execution, touched, answered)
  BY TypedFacts DEF Knows, DeployInv
<1>2. /\ u2.kind = u.kind /\ u2.w = u.w /\ u2.template = u.template /\ u2.states = u.states
      /\ u2.transitions = u.transitions /\ u2.steps = u.steps /\ u2.ids = u.ids /\ u2.id = u.id
  BY DEF Alike
<1>3. u2.kind = "deploy" /\ m \in Before => Listed(u2)
  BY <1>1, <1>2 DEF Progress, Listed
<1>4. ASSUME u.kind = "deploy", m \in Building, Unspoilt(wf', touched', u.w)
      PROVE  Stored(m, u2, wf', state', transition', step', execution', answered')
  <2>1. u.w \in Workflows
    BY <1>1, <1>4 DEF Course, Local, Before, Building
  <2>2. PICK w \in Workflows : w = u.w
    BY <2>1
  <2>3. ~Built(p, l, v, w)
    BY <1>4, <2>2 DEF Built
  <2>4. Spared(w) /\ (Quiet(w) \/ Ready(p, w)) /\ Unspoilt(wf', touched', w)
    BY <1>4, <2>2, <2>3 DEF Effect
  <2>5. Unspoilt(wf, touched, w) /\ OwnEnds(state, transition, w) /\ w # Null
    BY <2>4, SparedFacts
  <2>6. Stored(m, u, wf, state, transition, step, execution, answered)
    BY <1>1, <1>4, <2>2, <2>5 DEF Progress
  <2>7. m = "answer" \/ Unrun(execution, execution', answered, answered', w)
    BY <1>4, <2>2, <2>4 DEF Quiet, Ready
  <2>8. Untouched(wf, wf', state, state', transition, transition', step, step', w)
    BY <2>4 DEF Spared
  <2>9. Alike(u, u2) /\ u.w = w /\ u \in Local
    BY <1>1, <2>2
  <2>10. TypedRows(state, transition, step) /\ TypedRows(state', transition', step')
    BY TablesNow, TablesNext
  <2> HIDE DEF u, u2, m
  <2> QED
    BY ONLY <2>5, <2>6, <2>7, <2>8, <2>9, <2>10, StoredStays
<1>5. m = "drop" => u2.w \in touched'
  BY <1>1, <1>2 DEF Progress, Effect
<1>6. m = "cut_step" => step'[u2.id].used /\ step'[u2.id].wf \in {Null, u2.w}
  <2>1. SUFFICES ASSUME m = "cut_step"
                 PROVE  step'[u.id].used /\ step'[u.id].wf \in {Null, u.w}
    BY <1>2
  <2>2. u.id \in StepIds /\ step[u.id].used /\ step[u.id].wf \in {Null, u.w}
    BY <1>1, <2>1 DEF Locals, Progress
  <2> QED
    BY <2>2 DEF Effect, StepsKept
<1>7. ASSUME u.kind = "trigger", Unspoilt(wf', touched', u.w)
      PROVE  Full(wf', state', transition', step', u.w) /\ wf'[u.w].status = "active"
  <2>1. PICK w \in Workflows : w = u.w
    BY <1>1, <1>7 DEF Locals
  <2>2. ~Built(p, l, v, w)
    BY <1>7, <2>1 DEF Built
  <2>3. Spared(w) /\ Unspoilt(wf', touched', w)
    BY <1>7, <2>1, <2>2 DEF Effect
  <2>4. /\ Unspoilt(wf, touched, w)
        /\ Full(wf, state, transition, step, w) => Full(wf', state', transition', step', w)
    BY <2>3, SparedFacts
  <2>5. Full(wf, state, transition, step, w) /\ wf[w].status = "active"
    BY <1>1, <1>7, <2>1, <2>4 DEF Progress
  <2>6. wf'[w] = wf[w]
    BY <2>3 DEF Spared, Untouched
  <2> QED
    BY <2>1, <2>4, <2>5, <2>6
<1> QED
  BY <1>2, <1>3, <1>4, <1>5, <1>6, <1>7 DEF Progress

(* A deployment that has nothing left to store has a complete workflow. *)
LEMMA AllStored ==
  ASSUME NEW v, NEW W, NEW S, NEW T, NEW A \in [StepIds -> ChildRow], NEW X, NEW done,
         Stored("answer", v, W, S, T, A, X, done)
  PROVE  Full(W, S, T, A, v.w)
<1>1. /\ W[v.w].template = v.template /\ v.states = <<>> /\ v.transitions = <<>>
      /\ v.steps = 0
      /\ KeysIn(S, v.w) \cup Elements(v.states) = Elements(v.template.states)
      /\ PairsIn(S, T, v.w) \cup Elements(v.transitions) = Elements(v.template.transitions)
      /\ Cardinality(RowsOf(A, v.w)) + v.steps = v.template.steps
  BY DEF Stored
<1>2. Cardinality(RowsOf(A, v.w)) \in Nat
  BY DesignAssumption, FS_Subset, FS_CardinalityType DEF RowsOf
<1>3. KeysIn(S, v.w) = Elements(W[v.w].template.states)
  BY <1>1, ElementsOf
<1>4. PairsIn(S, T, v.w) = Elements(W[v.w].template.transitions)
  BY <1>1, ElementsOf
<1>5. Cardinality(RowsOf(A, v.w)) = W[v.w].template.steps
  BY <1>1, <1>2
<1> QED
  BY <1>3, <1>4, <1>5 DEF Full

LEMMA SoundStays ==
  ASSUME DesignInv, DesignInv', DeployInv, NEW p \in Requests, NEW l, NEW v, Effect(p, l, v),
         Progress(l, v, wf', state', transition', step', execution', touched', answered'),
         NEW w \in Workflows
  PROVE  Sound(wf', state', transition', step', execution', touched', answered', w)
<1>1. SUFFICES ASSUME Unspoilt(wf', touched', w)
               PROVE  /\ wf'[w].status = "active" \/ w \in answered' \/ RowsOf(execution', w) # {}
                           => Full(wf', state', transition', step', w)
                      /\ \A i \in TransitionIds : transition'[i].wf = w => ~transition'[i].moved
  BY DEF Sound
<1>2. CASE Spared(w) /\ (Quiet(w) \/ Ready(p, w))
  <2>1. /\ Unspoilt(wf, touched, w)
        /\ Full(wf, state, transition, step, w) => Full(wf', state', transition', step', w)
    BY <1>1, <1>2, SparedFacts
  <2>2. /\ wf[w].status = "active" \/ w \in answered \/ RowsOf(execution, w) # {}
             => Full(wf, state, transition, step, w)
        /\ \A i \in TransitionIds : transition[i].wf = w => ~transition[i].moved
    BY <2>1 DEF DeployInv, Sound
  <2>3. wf'[w] = wf[w] /\ SameRows(transition, transition', w)
    BY <1>2 DEF Spared, Untouched
  <2>4. \A i \in TransitionIds : transition'[i].wf = w => ~transition'[i].moved
    BY <2>2, <2>3, TablesNow DEF SameRows
  <2>5. CASE Quiet(w)
    BY <2>1, <2>2, <2>3, <2>4, <2>5 DEF Quiet, Unrun
  <2>6. CASE Ready(p, w)
    BY <2>1, <2>4, <2>6 DEF Ready
  <2> QED
    BY <1>2, <2>5, <2>6
<1>3. CASE Built(p, l, v, w)
  <2>1. Stored(l, v, wf', state', transition', step', execution', answered') /\ v.w = w
    BY <1>1, <1>3 DEF Built, Progress
  <2>2. \A i \in TransitionIds : transition'[i].wf = w => ~transition'[i].moved
    BY <1>3 DEF Built
  <2>3. CASE l # "answer"
    BY <2>1, <2>2, <2>3 DEF Stored
  <2>4. CASE l = "answer"
    <3>1. Full(wf', state', transition', step', w)
      BY <2>1, <2>4, AllStored, TablesNext
    <3> QED
      BY <2>2, <3>1
  <2> QED
    BY <2>3, <2>4
<1> QED
  BY <1>1, <1>2, <1>3 DEF Effect

LEMMA DeployStep ==
  ASSUME DesignInv, DesignInv', DeployInv, NEW p \in Requests, NEW l, NEW v, Effect(p, l, v),
         pc'[p] = l, loc'[p] = v,
         \A q \in Requests \ {p} : pc'[q] = pc[q] /\ Alike(loc[q], loc'[q]),
         Progress(l, v, wf', state', transition', step', execution', touched', answered')
  PROVE  DeployInv'
<1>1. ASSUME NEW q \in Requests
      PROVE  Progress(pc'[q], loc'[q], wf', state', transition', step', execution',
                      touched', answered')
  <2>1. CASE q = p
    BY <2>1
  <2>2. CASE q # p
    BY <2>2, OtherProgress
  <2> QED
    BY <2>1, <2>2
<1>2. \A w \in Workflows :
        Sound(wf', state', transition', step', execution', touched', answered', w)
  BY SoundStays
<1>3. \A w \in answered' : wf'[w].status # "free"
  BY DEF Effect
<1> QED
  BY <1>1, <1>2, <1>3 DEF DeployInv

-----------------------------------------------------------------------------
(* What the lemmas above ask of a step, for steps that change no table, for those
   that edit, and for those of the deployment that builds the workflow. *)
OthersWait(p) == \A q \in Requests \ {p} : pc'[q] = pc[q] /\ Alike(loc[q], loc'[q])
ProgressNext(l, v) ==
  Progress(l, v, wf', state', transition', step', execution', touched', answered')
ProgressNow(l, v) ==
  Progress(l, v, wf, state, transition, step, execution, touched, answered)

LEMMA WaitFacts ==
  ASSUME DesignInv, NEW p \in Requests, NEW l, NEW v, Goto(p, l), Keep(p, v)
  PROVE  pc'[p] = l /\ loc'[p] = v /\ OthersWait(p)
BY DEF DesignInv, Typed, Goto, Keep, OthersWait, Alike

LEMMA FreeProgress ==
  ASSUME NEW l, NEW v, v.kind # "trigger", v.kind = "deploy" => l \notin Before \cup Building,
         l \notin {"drop", "cut_step"},
         NEW W, NEW S, NEW T, NEW A, NEW X, NEW edited, NEW done
  PROVE  Progress(l, v, W, S, T, A, X, edited, done)
BY DEF Progress

LEMMA IdleProgress ==
  ASSUME NEW W, NEW S, NEW T, NEW A, NEW X, NEW edited, NEW done
  PROVE  Progress("idle", NoLocal, W, S, T, A, X, edited, done)
BY DEF NoLocal, Progress

(* Every workflow that is unspoilt afterwards was left alone. *)
LEMMA EditedEffect ==
  ASSUME DeployInv, NEW p, NEW l, NEW v,
         \A w \in Workflows : Unspoilt(wf', touched', w) =>
           /\ Untouched(wf, wf', state, state', transition, transition', step, step', w)
           /\ RowsOf(execution', w) \subseteq RowsOf(execution, w),
         \A w \in Workflows : wf[w].status # "free" => wf'[w].status # "free",
         touched \subseteq touched', answered' = answered, answered \subseteq Workflows,
         StepsKept
  PROVE  Effect(p, l, v)
<1>1. ASSUME NEW w \in Workflows, Unspoilt(wf', touched', w)
      PROVE  Spared(w) /\ Quiet(w)
  BY <1>1 DEF Unspoilt, Spared, Quiet, Unrun
<1>2. \A w \in answered' : wf'[w].status # "free"
  BY DEF DeployInv
<1> QED
  BY <1>1, <1>2 DEF Effect

LEMMA QuietDeploy ==
  ASSUME DesignInv, DesignInv', DeployInv, NEW p \in Requests, NEW l, NEW v,
         UNCHANGED <<wf, state, transition, step, execution, touched, answered>>,
         pc'[p] = l, loc'[p] = v, OthersWait(p), ProgressNow(l, v)
  PROVE  DeployInv'
<1>1. \A w \in Workflows :
        /\ Untouched(wf, wf', state, state', transition, transition', step, step', w)
        /\ RowsOf(execution', w) \subseteq RowsOf(execution, w)
  BY DEF Untouched, SameRows
<1>2. StepsKept /\ answered \subseteq Workflows
  BY DEF StepsKept, DesignInv, Typed, TablesTyped
<1>3. Effect(p, l, v)
  BY <1>1, <1>2, EditedEffect
<1>4. ProgressNext(l, v)
  BY DEF ProgressNow, ProgressNext
<1> QED
  BY <1>3, <1>4, DeployStep DEF OthersWait, ProgressNext

LEMMA QuietDeployMove ==
  ASSUME DesignInv, DesignInv', DeployInv, NEW p \in Requests, NEW l, NEW v,
         UNCHANGED <<wf, state, transition, step, execution, touched, answered>>,
         Goto(p, l), Keep(p, v), ProgressNow(l, v)
  PROVE  DeployInv'
BY WaitFacts, QuietDeploy

LEMMA QuietDeployEnd ==
  ASSUME DesignInv, DesignInv', DeployInv, NEW p \in Requests,
         UNCHANGED <<wf, state, transition, step, execution, touched, answered>>, End(p)
  PROVE  DeployInv'
BY IdleProgress, QuietDeployMove DEF End, ProgressNow

LEMMA KeepSame ==
  ASSUME DesignInv, NEW p \in Requests, UNCHANGED loc
  PROVE  Keep(p, loc[p])
BY DEF Keep, DesignInv, Typed

LEMMA QuietDeployRaise ==
  ASSUME DesignInv, DesignInv', DeployInv, NEW p \in Requests,
         UNCHANGED <<wf, state, transition, step, execution, touched, answered>>, Raise(p)
  PROVE  DeployInv'
<1>1. CASE End(p)
  BY <1>1, QuietDeployEnd
<1>2. CASE loc[p].kind = "deploy" /\ Goto(p, "list") /\ UNCHANGED loc
  <2>1. ProgressNow("list", loc[p])
    BY <1>2, FreeProgress DEF Before, Building, ProgressNow
  <2> QED
    BY <1>2, <2>1, KeepSame, QuietDeployMove
<1> QED
  BY <1>1, <1>2 DEF Raise

(* What the request knows of its deployment. *)
LEMMA ProgressFacts ==
  ASSUME DesignInv, DeployInv, NEW p \in Requests
  PROVE  /\ loc[p] \in Local /\ Course(pc[p], loc[p]) /\ Locals(pc[p], loc[p])
         /\ ProgressNow(pc[p], loc[p])
BY TypedFacts DEF Knows, DeployInv, ProgressNow

SameParcel(v, v2) ==
  /\ v2.kind = v.kind /\ v2.w = v.w /\ v2.template = v.template /\ v2.states = v.states
  /\ v2.transitions = v.transitions /\ v2.steps = v.steps /\ v2.ids = v.ids

(* A deployment goes on to its next point with the same parts to store. *)
LEMMA BuildOn ==
  ASSUME DesignInv, DesignInv', DeployInv, NEW p \in Requests, NEW l, NEW v,
         UNCHANGED <<wf, state, transition, step, execution, touched, answered>>,
         Goto(p, l), Keep(p, v), SameParcel(loc[p], v), loc[p].kind = "deploy",
         pc[p] \in Building \ {"answer"}, l \in Building,
         l \in {"state", "state_insert"} \/ v.states = <<>>
           \/ pc[p] \notin {"state", "state_insert"},
         l \notin {"step", "step_insert", "status", "answer"} \/ v.transitions = <<>>
           \/ pc[p] \in {"step", "step_insert", "status"},
         l \notin {"status", "answer"} \/ v.steps = 0 \/ pc[p] = "status"
  PROVE  DeployInv'
<1>1. ASSUME Unspoilt(wf, touched, v.w)
      PROVE  Stored(l, v, wf, state, transition, step, execution, answered)
  <2>1. Stored(pc[p], loc[p], wf, state, transition, step, execution, answered)
    BY <1>1, ProgressFacts DEF Progress, ProgressNow, SameParcel
  <2> QED
    BY <2>1 DEF Stored, SameParcel
<1>2. ProgressNow(l, v)
  BY <1>1 DEF ProgressNow, Progress, SameParcel, Building, Before
<1> QED
  BY <1>2, QuietDeployMove

(* A deployment before its workflow is inserted lists its whole template. *)
LEMMA ListOn ==
  ASSUME DesignInv, DesignInv', DeployInv, NEW p \in Requests, NEW l \in Before, NEW v,
         UNCHANGED <<wf, state, transition, step, execution, touched, answered>>,
         Goto(p, l), Keep(p, v), SameParcel(loc[p], v), loc[p].kind = "deploy",
         pc[p] \in Before
  PROVE  DeployInv'
<1>1. Listed(v)
  BY ProgressFacts DEF ProgressNow, Progress, Listed, SameParcel
<1>2. ProgressNow(l, v)
  BY <1>1 DEF ProgressNow, Progress, SameParcel, Building, Before
<1> QED
  BY <1>2, QuietDeployMove

LEMMA SameParcelItself == ASSUME NEW v  PROVE SameParcel(v, v)
BY DEF SameParcel

LEMMA FindEntityDeploys ==
  ASSUME DesignInv, DesignInv', DeployInv, NEW p \in Requests, FindEntity(p)  PROVE  DeployInv'
<1>1. /\ pc[p] = "entities" /\ loc[p] \in Local /\ loc[p].kind = "deploy" /\ pc[p] \in Before
      /\ UNCHANGED <<wf, state, transition, step, execution, touched, answered>>
  BY ProgressFacts DEF FindEntity, Course, Before, Building, Undoing, tables, history
<1>2. CASE /\ Keep(p, [loc[p] EXCEPT !.slugs = loc[p].template.slugs \cap entities])
           /\ Goto(p, "validate")
  <2>1. SameParcel(loc[p], [loc[p] EXCEPT !.slugs = loc[p].template.slugs \cap entities])
    BY <1>1 DEF SameParcel, Local
  <2> QED
    BY <1>1, <1>2, <2>1, ListOn DEF Before
<1>3. ASSUME NEW s \in loc[p].slugs, Keep(p, [loc[p] EXCEPT !.slugs = @ \ {s}, !.key = s]),
             Goto(p, IF s \in entities THEN "entities" ELSE "entity_insert")
      PROVE  DeployInv'
  <2>1. SameParcel(loc[p], [loc[p] EXCEPT !.slugs = @ \ {s}, !.key = s])
    BY <1>1 DEF SameParcel, Local
  <2> QED
    BY <1>1, <1>3, <2>1, ListOn DEF Before
<1> QED
  BY <1>2, <1>3 DEF FindEntity

LEMMA InsertEntityDeploys ==
  ASSUME DesignInv, DesignInv', DeployInv, NEW p \in Requests, InsertEntity(p)
  PROVE  DeployInv'
<1>1. /\ pc[p] = "entity_insert" /\ loc[p].kind = "deploy" /\ pc[p] \in Before
      /\ UNCHANGED <<wf, state, transition, step, execution, touched, answered>>
  BY ProgressFacts DEF InsertEntity, Course, Before, Building, Undoing, history
<1>2. CASE Goto(p, "entities") /\ UNCHANGED loc
  BY <1>1, <1>2, SameParcelItself, KeepSame, ListOn DEF Before
<1>3. CASE Raise(p)
  BY <1>1, <1>3, QuietDeployRaise
<1> QED
  BY <1>2, <1>3 DEF InsertEntity

LEMMA ValidateAssignmentsDeploys ==
  ASSUME DesignInv, DesignInv', DeployInv, NEW p \in Requests, ValidateAssignments(p)
  PROVE  DeployInv'
<1>1. /\ pc[p] = "validate" /\ loc[p].kind = "deploy" /\ pc[p] \in Before
      /\ UNCHANGED <<wf, state, transition, step, execution, touched, answered>>
  BY ProgressFacts DEF ValidateAssignments, Course, Before, Building, Undoing, tables, history
<1>2. CASE Goto(p, "count") /\ UNCHANGED loc
  BY <1>1, <1>2, SameParcelItself, KeepSame, ListOn DEF Before
<1>3. CASE Raise(p)
  BY <1>1, <1>3, QuietDeployRaise
<1> QED
  BY <1>2, <1>3 DEF ValidateAssignments

LEMMA CountWorkflowsDeploys ==
  ASSUME DesignInv, DesignInv', DeployInv, NEW p \in Requests, CountWorkflows(p)
  PROVE  DeployInv'
<1>1. /\ pc[p] = "count" /\ loc[p].kind \in {"deploy", "create"} /\ pc[p] \in Before
      /\ UNCHANGED <<wf, state, transition, step, execution, touched, answered>>
  BY ProgressFacts DEF CountWorkflows, Course, Before, Building, Undoing, tables, history
<1>2. CASE Goto(p, "insert") /\ UNCHANGED loc
  <2>1. CASE loc[p].kind = "deploy"
    BY <1>1, <1>2, <2>1, SameParcelItself, KeepSame, ListOn DEF Before
  <2>2. CASE loc[p].kind = "create"
    <3>1. ProgressNow("insert", loc[p])
      BY <2>2, FreeProgress DEF ProgressNow
    <3> QED
      BY <1>1, <1>2, <3>1, KeepSame, QuietDeployMove
  <2> QED
    BY <1>1, <2>1, <2>2
<1>3. CASE Raise(p)
  BY <1>1, <1>3, QuietDeployRaise
<1> QED
  BY <1>2, <1>3 DEF CountWorkflows

(* A deployment that passes a check, or another request that does. *)
LEMMA CheckOn ==
  ASSUME DesignInv, DesignInv', DeployInv, NEW p \in Requests, NEW l,
         UNCHANGED <<wf, state, transition, step, execution, touched, answered>>,
         Goto(p, l), UNCHANGED loc, pc[p] \in Building \ {"answer"}, l \in Building,
         l # "drop", l # "cut_step", loc[p].kind # "trigger",
         loc[p].kind = "deploy" =>
           \/ l \in {"state_insert"} /\ pc[p] = "state"
           \/ l = "roles" /\ loc[p].states = <<>>
           \/ l \in {"transition", "transition_insert"} /\ pc[p] \in {"role_insert", "transition"}
           \/ l = "step" /\ pc[p] = "transition" /\ loc[p].transitions = <<>>
           \/ l = "step_insert" /\ pc[p] = "step"
           \/ l \in {"status", "answer"} /\ pc[p] = "step" /\ loc[p].steps = 0
  PROVE  DeployInv'
<1>1. CASE loc[p].kind = "deploy"
  BY <1>1, SameParcelItself, KeepSame, BuildOn
<1>2. CASE loc[p].kind # "deploy"
  <2>1. ProgressNow(l, loc[p])
    BY <1>2, FreeProgress DEF ProgressNow
  <2> QED
    BY <2>1, KeepSame, QuietDeployMove
<1> QED
  BY <1>1, <1>2

LEMMA CheckStateDeploys ==
  ASSUME DesignInv, DesignInv', DeployInv, NEW p \in Requests, CheckState(p)
  PROVE  DeployInv'
<1>1. /\ pc[p] = "state" /\ loc[p].kind # "trigger"
      /\ UNCHANGED <<wf, state, transition, step, execution, touched, answered>>
  BY ProgressFacts DEF CheckState, Course, tables, history
<1>2. CASE loc[p].kind = "deploy" /\ loc[p].states = <<>> /\ Goto(p, "roles") /\ UNCHANGED loc
  BY <1>1, <1>2, CheckOn DEF Building
<1>3. CASE Goto(p, "state_insert") /\ UNCHANGED loc
  BY <1>1, <1>3, CheckOn DEF Building
<1>4. CASE Raise(p)
  BY <1>1, <1>4, QuietDeployRaise
<1> QED
  BY <1>2, <1>3, <1>4 DEF CheckState

LEMMA ReadRolesDeploys ==
  ASSUME DesignInv, DesignInv', DeployInv, NEW p \in Requests, ReadRoles(p)  PROVE  DeployInv'
<1> DEFINE v == [loc[p] EXCEPT !.roles = {n \in @ : Active(n) = 0}]
<1>1. /\ pc[p] = "roles" /\ loc[p] \in Local /\ loc[p].kind = "deploy"
      /\ UNCHANGED <<wf, state, transition, step, execution, touched, answered>>
      /\ Keep(p, v) /\ Goto(p, "role_insert")
  BY ProgressFacts DEF ReadRoles, Course, Before, Building, Undoing, tables, history
<1>2. SameParcel(loc[p], v)
  BY <1>1 DEF SameParcel, Local
<1> HIDE DEF v
<1> QED
  BY <1>1, <1>2, BuildOn DEF Building

LEMMA InsertRoleDeploys ==
  ASSUME DesignInv, DesignInv', DeployInv, NEW p \in Requests, InsertRole(p)  PROVE  DeployInv'
<1>1. /\ pc[p] = "role_insert" /\ loc[p] \in Local /\ loc[p].kind = "deploy"
      /\ UNCHANGED <<wf, state, transition, step, execution, touched, answered>>
  BY ProgressFacts DEF InsertRole, Course, Before, Building, Undoing, tables, history
<1>2. CASE Goto(p, "transition") /\ UNCHANGED loc
  BY <1>1, <1>2, CheckOn DEF Building
<1>3. ASSUME NEW n, Keep(p, [loc[p] EXCEPT !.roles = @ \ {n}]), Goto(p, "role_insert")
      PROVE  DeployInv'
  <2>1. SameParcel(loc[p], [loc[p] EXCEPT !.roles = @ \ {n}])
    BY <1>1 DEF SameParcel, Local
  <2> QED
    BY <1>1, <1>3, <2>1, BuildOn DEF Building
<1> QED
  BY <1>2, <1>3 DEF InsertRole

LEMMA CheckTransitionDeploys ==
  ASSUME DesignInv, DesignInv', DeployInv, NEW p \in Requests, CheckTransition(p)
  PROVE  DeployInv'
<1>1. /\ pc[p] = "transition" /\ loc[p].kind # "trigger"
      /\ UNCHANGED <<wf, state, transition, step, execution, touched, answered>>
  BY ProgressFacts DEF CheckTransition, Course, tables, history
<1>2. CASE loc[p].kind = "deploy" /\ loc[p].transitions = <<>> /\ Goto(p, "step") /\ UNCHANGED loc
  BY <1>1, <1>2, CheckOn DEF Building
<1>3. CASE Goto(p, "transition_insert") /\ UNCHANGED loc
  BY <1>1, <1>3, CheckOn DEF Building
<1>4. CASE Raise(p)
  BY <1>1, <1>4, QuietDeployRaise
<1> QED
  BY <1>2, <1>3, <1>4 DEF CheckTransition

LEMMA CheckStepDeploys ==
  ASSUME DesignInv, DesignInv', DeployInv, NEW p \in Requests, CheckStep(p)
  PROVE  DeployInv'
<1>1. /\ pc[p] = "step" /\ loc[p].kind # "trigger"
      /\ UNCHANGED <<wf, state, transition, step, execution, touched, answered>>
  BY ProgressFacts DEF CheckStep, Course, tables, history
<1>2. ASSUME NEW l \in {"status", "answer"}, loc[p].kind = "deploy", loc[p].steps = 0,
             Goto(p, l), UNCHANGED loc
      PROVE  DeployInv'
  BY <1>1, <1>2, CheckOn DEF Building
<1>3. CASE Goto(p, "step_insert") /\ UNCHANGED loc
  BY <1>1, <1>3, CheckOn DEF Building
<1>4. CASE Raise(p)
  BY <1>1, <1>4, QuietDeployRaise
<1> QED
  BY <1>2, <1>3, <1>4 DEF CheckStep

LEMMA ListExecutionsDeploys ==
  ASSUME DesignInv, DesignInv', DeployInv, NEW p \in Requests, ListExecutions(p)
  PROVE  DeployInv'
<1> DEFINE v == [loc[p] EXCEPT !.listed = RowsOf(execution, loc[p].w)]
<1>1. /\ pc[p] = "list" /\ loc[p] \in Local /\ loc[p].kind # "trigger"
      /\ UNCHANGED <<wf, state, transition, step, execution, touched, answered>>
  BY ProgressFacts DEF ListExecutions, Course, tables, history
<1>2. CASE Keep(p, v) /\ Goto(p, "commit")
  <2>1. v.kind # "trigger"
    BY <1>1 DEF Local
  <2>2. ProgressNow("commit", v)
    BY <2>1, FreeProgress DEF ProgressNow, Before, Building
  <2> HIDE DEF v
  <2> QED
    BY <1>1, <1>2, <2>2, QuietDeployMove
<1>3. CASE End(p)
  BY <1>1, <1>3, QuietDeployEnd
<1> QED
  BY <1>2, <1>3 DEF ListExecutions

LEMMA FailDeploys ==
  ASSUME DesignInv, DesignInv', DeployInv, NEW p \in Requests, Fail(p)  PROVE  DeployInv'
BY QuietDeployRaise DEF Fail, tables

LEMMA CrashDeploys ==
  ASSUME DesignInv, DesignInv', DeployInv, NEW p \in Requests, Crash(p)  PROVE  DeployInv'
BY QuietDeployEnd DEF Crash, tables

(* A request arrives. *)
LEMMA ArriveDeploys ==
  ASSUME DesignInv, DesignInv', DeployInv, NEW p \in Requests, NEW l, NEW v,
         Arrive(p, v, l), ProgressNow(l, v)
  PROVE  DeployInv'
<1>1. /\ UNCHANGED <<wf, state, transition, step, execution, touched, answered>>
      /\ pc'[p] = l /\ loc'[p] = v /\ OthersWait(p)
  BY DEF Arrive, Keep, tables, history, DesignInv, Typed, OthersWait, Alike
<1> QED
  BY <1>1, QuietDeploy

LEMMA EditorArrives ==
  ASSUME DesignInv, DesignInv', DeployInv, NEW p \in Requests, NEW l, NEW v,
         Arrive(p, v, l), v.kind \notin {"trigger", "deploy"}, l \notin {"drop", "cut_step"}
  PROVE  DeployInv'
<1>1. ProgressNow(l, v)
  BY FreeProgress DEF ProgressNow
<1> QED
  BY <1>1, ArriveDeploys

LEMMA BeginDeployDeploys ==
  ASSUME DesignInv, DesignInv', DeployInv, NEW p \in Requests, BeginDeploy(p)
  PROVE  DeployInv'
<1>1. PICK t \in Templates :
        Arrive(p, [NoLocal EXCEPT !.kind = "deploy", !.template = t, !.states = t.states,
                     !.transitions = t.transitions, !.steps = t.steps, !.roles = t.roles,
                     !.slugs = t.slugs], "entities")
  BY DEF BeginDeploy
<1> DEFINE v == [NoLocal EXCEPT !.kind = "deploy", !.template = t, !.states = t.states,
                     !.transitions = t.transitions, !.steps = t.steps, !.roles = t.roles,
                     !.slugs = t.slugs]
<1>2. /\ v.kind = "deploy" /\ v.template = t /\ v.states = t.states /\ v.steps = t.steps
      /\ v.transitions = t.transitions /\ v.ids = [k \in Keys |-> Null]
  BY DEF NoLocal
<1> HIDE DEF v
<1>3. Listed(v)
  BY <1>2 DEF Listed
<1>4. ProgressNow("entities", v)
  BY <1>2, <1>3 DEF ProgressNow, Progress, Building
<1>5. Arrive(p, v, "entities")
  BY <1>1 DEF v
<1> QED
  BY <1>4, <1>5, ArriveDeploys

LEMMA BeginPlainDeploys ==
  ASSUME DesignInv, DesignInv', DeployInv, NEW p \in Requests,
         BeginNew(p) \/ BeginDuplicate(p) \/ BeginStatus(p) \/ BeginAdd(p) \/ BeginRemove(p)
  PROVE  DeployInv'
<1>1. CASE BeginNew(p)
  <2>1. [NoLocal EXCEPT !.kind = "create"].kind = "create"
    BY DEF NoLocal
  <2> QED
    BY <1>1, <2>1, EditorArrives DEF BeginNew
<1>2. CASE BeginDuplicate(p)
  <2>1. [NoLocal EXCEPT !.kind = "duplicate"].kind = "duplicate"
    BY DEF NoLocal
  <2> QED
    BY <1>2, <2>1, EditorArrives DEF BeginDuplicate
<1>3. CASE BeginStatus(p)
  <2>1. PICK w \in LiveWorkflows, k \in {"activate", "pause", "update"} :
          Arrive(p, [NoLocal EXCEPT !.kind = k, !.w = w], "status")
    BY <1>3 DEF BeginStatus
  <2>2. [NoLocal EXCEPT !.kind = k, !.w = w].kind = k
    BY DEF NoLocal
  <2> QED
    BY <2>1, <2>2, EditorArrives
<1>4. CASE BeginAdd(p)
  <2>1. PICK w \in LiveWorkflows :
          \/ \E k \in Keys :
               Arrive(p, [NoLocal EXCEPT !.kind = "add_state", !.w = w, !.key = k], "state")
          \/ \E i, j \in RowsOf(state, w) :
               Arrive(p, [NoLocal EXCEPT !.kind = "add_transition", !.w = w, !.id = i, !.to = j],
                      "transition")
          \/ Arrive(p, [NoLocal EXCEPT !.kind = "add_step", !.w = w], "step")
    BY <1>4 DEF BeginAdd
  <2>2. ASSUME NEW k \in Keys,
               Arrive(p, [NoLocal EXCEPT !.kind = "add_state", !.w = w, !.key = k], "state")
        PROVE  DeployInv'
    <3>1. [NoLocal EXCEPT !.kind = "add_state", !.w = w, !.key = k].kind = "add_state"
      BY DEF NoLocal
    <3> QED
      BY <2>2, <3>1, EditorArrives
  <2>3. ASSUME NEW i \in RowsOf(state, w), NEW j \in RowsOf(state, w),
               Arrive(p, [NoLocal EXCEPT !.kind = "add_transition", !.w = w, !.id = i, !.to = j],
                      "transition")
        PROVE  DeployInv'
    <3>1. [NoLocal EXCEPT !.kind = "add_transition", !.w = w, !.id = i, !.to = j].kind
            = "add_transition"
      BY DEF NoLocal
    <3> QED
      BY <2>3, <3>1, EditorArrives
  <2>4. ASSUME Arrive(p, [NoLocal EXCEPT !.kind = "add_step", !.w = w], "step")
        PROVE  DeployInv'
    <3>1. [NoLocal EXCEPT !.kind = "add_step", !.w = w].kind = "add_step"
      BY DEF NoLocal
    <3> QED
      BY <2>4, <3>1, EditorArrives
  <2> QED
    BY <2>1, <2>2, <2>3, <2>4
<1>5. CASE BeginRemove(p)
  <2>1. PICK w \in LiveWorkflows : Arrive(p, [NoLocal EXCEPT !.kind = "remove", !.w = w], "list")
    BY <1>5 DEF BeginRemove
  <2>2. [NoLocal EXCEPT !.kind = "remove", !.w = w].kind = "remove"
    BY DEF NoLocal
  <2> QED
    BY <2>1, <2>2, EditorArrives
<1> QED
  BY <1>1, <1>2, <1>3, <1>4, <1>5

LEMMA BeginTriggerDeploys ==
  ASSUME DesignInv, DesignInv', DeployInv, NEW p \in Requests, BeginTrigger(p)
  PROVE  DeployInv'
<1>1. PICK w \in Workflows :
        /\ wf[w].status = "active"
        /\ Arrive(p, [NoLocal EXCEPT !.kind = "trigger", !.w = w], "execute")
  BY DEF BeginTrigger
<1> DEFINE v == [NoLocal EXCEPT !.kind = "trigger", !.w = w]
<1>2. v.kind = "trigger" /\ v.w = w
  BY DEF NoLocal
<1>3. Arrive(p, v, "execute")
  BY <1>1
<1> HIDE DEF v
<1>4. Unspoilt(wf, touched, w) => Full(wf, state, transition, step, w)
  BY <1>1 DEF DeployInv, Sound
<1>5. ProgressNow("execute", v)
  BY <1>1, <1>2, <1>4 DEF ProgressNow, Progress
<1> QED
  BY <1>3, <1>5, ArriveDeploys

LEMMA BeginEditDeploys ==
  ASSUME DesignInv, DesignInv', DeployInv, NEW p \in Requests, BeginEdit(p)
  PROVE  DeployInv'
<1>1. ASSUME NEW i, NEW k, NEW w,
             \/ Arrive(p, [NoLocal EXCEPT !.kind = "change_state", !.w = w, !.id = i, !.key = k],
                       "change")
             \/ Arrive(p, [NoLocal EXCEPT !.kind = "drop_state", !.w = w, !.id = i], "cut")
      PROVE  DeployInv'
  <2>1. /\ [NoLocal EXCEPT !.kind = "change_state", !.w = w, !.id = i, !.key = k].kind
             = "change_state"
        /\ [NoLocal EXCEPT !.kind = "drop_state", !.w = w, !.id = i].kind = "drop_state"
    BY DEF NoLocal
  <2> QED
    BY <1>1, <2>1, EditorArrives
<1>2. ASSUME NEW t, NEW i, NEW w,
             \/ Arrive(p, [NoLocal EXCEPT !.kind = "move_transition", !.w = w, !.id = t, !.to = i],
                       "move")
             \/ Arrive(p, [NoLocal EXCEPT !.kind = "drop_transition", !.w = w, !.id = t],
                       "cut_transition")
      PROVE  DeployInv'
  <2>1. /\ [NoLocal EXCEPT !.kind = "move_transition", !.w = w, !.id = t, !.to = i].kind
             = "move_transition"
        /\ [NoLocal EXCEPT !.kind = "drop_transition", !.w = w, !.id = t].kind
             = "drop_transition"
    BY DEF NoLocal
  <2> QED
    BY <1>2, <2>1, EditorArrives
<1>3. ASSUME NEW i \in StepIds, step[i].wf # Null,
             Arrive(p, [NoLocal EXCEPT !.kind = "drop_step", !.w = step[i].wf, !.id = i],
                    "cut_step")
      PROVE  DeployInv'
  <2> DEFINE v == [NoLocal EXCEPT !.kind = "drop_step", !.w = step[i].wf, !.id = i]
  <2>1. v.kind = "drop_step" /\ v.w = step[i].wf /\ v.id = i /\ Arrive(p, v, "cut_step")
    BY <1>3 DEF NoLocal
  <2>2. step[i].used
    BY <1>3, TablesNow DEF DesignInv, Rows, Owned
  <2> HIDE DEF v
  <2>3. ProgressNow("cut_step", v)
    BY <2>1, <2>2 DEF ProgressNow, Progress
  <2> QED
    BY <2>1, <2>3, ArriveDeploys
<1> QED
  BY <1>1, <1>2, <1>3 DEF BeginEdit

LEMMA BeginDeploys ==
  ASSUME DesignInv, DesignInv', DeployInv, NEW p \in Requests, Begin(p)  PROVE  DeployInv'
BY BeginDeployDeploys, BeginPlainDeploys, BeginTriggerDeploys, BeginEditDeploys DEF Begin

-----------------------------------------------------------------------------
(* Requests that edit a workflow say so in touched. *)
LEMMA SameItself == ASSUME NEW S, NEW x  PROVE SameRows(S, S, x)
BY DEF SameRows

LEMMA EditDeploys ==
  ASSUME DesignInv, DesignInv', DeployInv, NEW p \in Requests, NEW l, NEW v,
         pc'[p] = l, loc'[p] = v, OthersWait(p), ProgressNext(l, v),
         \A w \in Workflows : Unspoilt(wf', touched', w) =>
           /\ Untouched(wf, wf', state, state', transition, transition', step, step', w)
           /\ RowsOf(execution', w) \subseteq RowsOf(execution, w),
         \A w \in Workflows : wf[w].status # "free" => wf'[w].status # "free",
         touched \subseteq touched', answered' = answered, StepsKept
  PROVE  DeployInv'
<1>1. answered \subseteq Workflows
  BY DEF DesignInv, Typed, TablesTyped
<1>2. Effect(p, l, v)
  BY <1>1, EditedEffect
<1> QED
  BY <1>2, DeployStep DEF OthersWait, ProgressNext

(* One row of a table is written, by a request other than a deployment. *)
LEMMA EditorWrites ==
  ASSUME DesignInv, DesignInv', DeployInv, NEW p \in Requests, End(p), Touch(p, loc[p].w),
         loc[p].kind # "deploy", NEW changed, Only(changed),
         \A x \in Workflows \ {loc[p].w} :
           Untouched(wf, wf', state, state', transition, transition', step, step', x),
         wf' = wf, StepsKept
  PROVE  DeployInv'
<1>1. pc'[p] = "idle" /\ loc'[p] = NoLocal /\ OthersWait(p)
  BY WaitFacts DEF End
<1>2. ProgressNext("idle", NoLocal)
  BY IdleProgress DEF ProgressNext
<1>3. touched' = touched \cup {loc[p].w} /\ answered' = answered /\ execution' = execution
  BY DEF Touch, Only
<1>4. ASSUME NEW w \in Workflows, Unspoilt(wf', touched', w)
      PROVE  /\ Untouched(wf, wf', state, state', transition, transition', step, step', w)
             /\ RowsOf(execution', w) \subseteq RowsOf(execution, w)
  <2>1. w # loc[p].w
    BY <1>3, <1>4 DEF Unspoilt
  <2> QED
    BY <1>3, <2>1
<1> QED
  BY <1>1, <1>2, <1>3, <1>4, EditDeploys

LEMMA StepsKeptSame == step' = step => StepsKept
BY DEF StepsKept

LEMMA ChangeStateDeploys ==
  ASSUME DesignInv, DesignInv', DeployInv, NEW p \in Requests, ChangeState(p)
  PROVE  DeployInv'
<1>1. /\ pc[p] = "change" /\ loc[p] \in Local /\ loc[p].kind = "change_state"
      /\ loc[p].w \in Workflows /\ loc[p].id \in StateIds
      /\ End(p) /\ Touch(p, loc[p].w) /\ Only({"state", "touched"})
      /\ wf' = wf /\ transition' = transition /\ step' = step
  BY ProgressFacts DEF ChangeState, Course, Locals, Only, Before, Building, Undoing
<1>2. state[loc[p].id].wf \in {Null, loc[p].w}
  BY <1>1, TypedFacts DEF Knows, OnRows, ClaimsState
<1>3. ASSUME NEW x \in Workflows \ {loc[p].w}  PROVE SameRows(state, state', x)
  <2>1. x # Null /\ loc[p].id \in DOMAIN state
    BY <1>1, TablesNow, DesignAssumption
  <2>2. CASE state' = state
    BY <2>2, SameItself
  <2>3. CASE state' = [state EXCEPT ![loc[p].id] =
                        [wf |-> loc[p].w, key |-> loc[p].key, used |-> TRUE]]
    BY <1>2, <2>1, <2>3, TablesNow DEF SameRows
  <2> QED
    BY <2>2, <2>3 DEF ChangeState
<1>4. \A x \in Workflows \ {loc[p].w} :
        Untouched(wf, wf', state, state', transition, transition', step, step', x)
  BY <1>1, <1>3, SameItself DEF Untouched
<1> QED
  BY <1>1, <1>4, EditorWrites, StepsKeptSame

LEMMA MoveTransitionDeploys ==
  ASSUME DesignInv, DesignInv', DeployInv, NEW p \in Requests, MoveTransition(p)
  PROVE  DeployInv'
<1>1. /\ pc[p] = "move" /\ loc[p] \in Local /\ loc[p].kind = "move_transition"
      /\ loc[p].w \in Workflows /\ loc[p].id \in TransitionIds
      /\ End(p) /\ Touch(p, loc[p].w) /\ Only({"transition", "touched"})
      /\ wf' = wf /\ state' = state /\ step' = step
  BY ProgressFacts DEF MoveTransition, Course, Locals, Only, Before, Building, Undoing
<1>2. transition[loc[p].id].wf \in {Null, loc[p].w}
  BY <1>1, TypedFacts DEF Knows, OnRows, ClaimsTransition
<1>3. \/ transition' = transition
      \/ \E from : transition' = [transition EXCEPT ![loc[p].id] =
           [wf |-> loc[p].w, from |-> from, to |-> loc[p].to, moved |-> TRUE, used |-> TRUE]]
  BY DEF MoveTransition
<1>4. ASSUME NEW x \in Workflows \ {loc[p].w}  PROVE SameRows(transition, transition', x)
  <2>1. x # Null /\ loc[p].id \in DOMAIN transition
    BY <1>1, TablesNow, DesignAssumption
  <2>2. CASE transition' = transition
    BY <2>2, SameItself
  <2>3. ASSUME NEW from, transition' = [transition EXCEPT ![loc[p].id] =
                 [wf |-> loc[p].w, from |-> from, to |-> loc[p].to, moved |-> TRUE,
                  used |-> TRUE]]
        PROVE  SameRows(transition, transition', x)
    BY <1>2, <2>1, <2>3, TablesNow DEF SameRows
  <2> QED
    BY <1>3, <2>2, <2>3
<1>5. \A x \in Workflows \ {loc[p].w} :
        Untouched(wf, wf', state, state', transition, transition', step, step', x)
  BY <1>1, <1>4, SameItself DEF Untouched
<1> QED
  BY <1>1, <1>5, EditorWrites, StepsKeptSame

LEMMA CutTransitionDeploys ==
  ASSUME DesignInv, DesignInv', DeployInv, NEW p \in Requests, CutTransition(p)
  PROVE  DeployInv'
<1>1. /\ pc[p] = "cut_transition" /\ loc[p] \in Local /\ loc[p].kind = "drop_transition"
      /\ loc[p].w \in Workflows /\ loc[p].id \in TransitionIds
      /\ End(p) /\ Touch(p, loc[p].w) /\ Only({"transition", "touched"})
      /\ wf' = wf /\ state' = state /\ step' = step
      /\ transition' = [transition EXCEPT ![loc[p].id] = [NoTransition EXCEPT !.used = TRUE]]
  BY ProgressFacts DEF CutTransition, Course, Locals, Only, Before, Building, Undoing
<1>2. transition[loc[p].id].wf \in {Null, loc[p].w}
  BY <1>1, TypedFacts DEF Knows, OnRows, ClaimsTransition
<1>3. [NoTransition EXCEPT !.used = TRUE].wf = Null
  BY DEF NoTransition
<1>4. ASSUME NEW x \in Workflows \ {loc[p].w}  PROVE SameRows(transition, transition', x)
  <2>1. x # Null /\ loc[p].id \in DOMAIN transition
    BY <1>1, TablesNow, DesignAssumption
  <2> QED
    BY <1>1, <1>2, <1>3, <2>1, TablesNow DEF SameRows
<1>5. \A x \in Workflows \ {loc[p].w} :
        Untouched(wf, wf', state, state', transition, transition', step, step', x)
  BY <1>1, <1>4, SameItself DEF Untouched
<1> QED
  BY <1>1, <1>5, EditorWrites, StepsKeptSame

LEMMA CutStepDeploys ==
  ASSUME DesignInv, DesignInv', DeployInv, NEW p \in Requests, CutStep(p)
  PROVE  DeployInv'
<1>1. /\ pc[p] = "cut_step" /\ loc[p] \in Local /\ loc[p].kind = "drop_step"
      /\ loc[p].w \in Workflows /\ loc[p].id \in StepIds
      /\ End(p) /\ Touch(p, loc[p].w) /\ Only({"step", "touched"})
      /\ wf' = wf /\ state' = state /\ transition' = transition
      /\ step' = [step EXCEPT ![loc[p].id] = [NoChild EXCEPT !.used = TRUE]]
  BY ProgressFacts DEF CutStep, Course, Locals, Only, Before, Building, Undoing
<1>2. step[loc[p].id].wf \in {Null, loc[p].w}
  BY <1>1, ProgressFacts DEF Progress, ProgressNow
<1>3. [NoChild EXCEPT !.used = TRUE].wf = Null /\ [NoChild EXCEPT !.used = TRUE].used
  BY DEF NoChild
<1>4. ASSUME NEW x \in Workflows \ {loc[p].w}  PROVE SameRows(step, step', x)
  <2>1. x # Null /\ loc[p].id \in DOMAIN step
    BY <1>1, TablesNow, DesignAssumption
  <2> QED
    BY <1>1, <1>2, <1>3, <2>1, TablesNow DEF SameRows
<1>5. \A x \in Workflows \ {loc[p].w} :
        Untouched(wf, wf', state, state', transition, transition', step, step', x)
  BY <1>1, <1>4, SameItself DEF Untouched
<1>6. StepsKept
  BY <1>1, <1>3, TablesNow DEF StepsKept
<1> QED
  BY <1>1, <1>5, <1>6, EditorWrites

LEMMA CutTransitionsDeploys ==
  ASSUME DesignInv, DesignInv', DeployInv, NEW p \in Requests, CutTransitions(p)
  PROVE  DeployInv'
<1>1. /\ pc[p] = "cut" /\ loc[p].kind = "drop_state" /\ loc[p] \in Local
      /\ wf' = wf /\ state' = state /\ step' = step /\ execution' = execution
      /\ answered' = answered
      /\ pc'[p] = "drop" /\ loc'[p] = loc[p] /\ OthersWait(p)
      /\ transition' = [t \in TransitionIds |->
           IF UsesState(t, loc[p].id) THEN [NoTransition EXCEPT !.used = TRUE]
           ELSE transition[t]]
      /\ touched' = touched \cup {loc[p].w} \cup
           {transition[t].wf : t \in {u \in TransitionIds : UsesState(u, loc[p].id)}}
  BY ProgressFacts, WaitFacts, KeepSame
     DEF CutTransitions, Course, Only, Before, Building, Undoing
<1>2. ProgressNext("drop", loc[p])
  BY <1>1 DEF ProgressNext, Progress, Before, Building
<1>3. ASSUME NEW w \in Workflows, Unspoilt(wf', touched', w)
      PROVE  /\ Untouched(wf, wf', state, state', transition, transition', step, step', w)
             /\ RowsOf(execution', w) \subseteq RowsOf(execution, w)
  <2>1. w \notin touched' /\ w # Null
    BY <1>3, DesignAssumption DEF Unspoilt
  <2>2. [NoTransition EXCEPT !.used = TRUE].wf = Null
    BY DEF NoTransition
  <2>3. ASSUME NEW t \in TransitionIds, transition[t].wf = w \/ transition'[t].wf = w
        PROVE  transition'[t] = transition[t]
    <3>1. CASE UsesState(t, loc[p].id)
      <4>1. transition'[t].wf = Null /\ transition[t].wf \in touched'
        BY <1>1, <2>2, <3>1
      <4> QED
        BY <2>1, <2>3, <4>1
    <3>2. CASE ~UsesState(t, loc[p].id)
      BY <1>1, <3>2
    <3> QED
      BY <3>1, <3>2
  <2>4. SameRows(transition, transition', w)
    BY <2>3, TablesNow DEF SameRows
  <2> QED
    BY <1>1, <2>4, SameItself DEF Untouched
<1>4. StepsKept
  BY <1>1, StepsKeptSame
<1> QED
  BY <1>1, <1>2, <1>3, <1>4, EditDeploys

LEMMA DropStateDeploys ==
  ASSUME DesignInv, DesignInv', DeployInv, NEW p \in Requests, DropState(p)
  PROVE  DeployInv'
<1>1. /\ pc[p] = "drop" /\ loc[p] \in Local /\ loc[p].w \in touched
      /\ loc[p].id \in StateIds
      /\ wf' = wf /\ transition' = transition /\ step' = step /\ execution' = execution
      /\ answered' = answered /\ touched' = touched
      /\ pc'[p] = "idle" /\ loc'[p] = NoLocal /\ OthersWait(p)
  BY ProgressFacts, WaitFacts DEF DropState, Locals, Only, End, Progress, ProgressNow
<1>2. ProgressNext("idle", NoLocal)
  BY IdleProgress DEF ProgressNext
<1>3. state[loc[p].id].wf \in {Null, loc[p].w}
  BY <1>1, TypedFacts DEF Knows, OnRows, ClaimsState
<1>4. [NoState EXCEPT !.used = TRUE].wf = Null
  BY DEF NoState
<1>5. ASSUME NEW w \in Workflows, Unspoilt(wf', touched', w)
      PROVE  /\ Untouched(wf, wf', state, state', transition, transition', step, step', w)
             /\ RowsOf(execution', w) \subseteq RowsOf(execution, w)
  <2>1. w # loc[p].w /\ w # Null /\ loc[p].id \in DOMAIN state
    BY <1>1, <1>5, TablesNow, DesignAssumption DEF Unspoilt
  <2>2. CASE state' = state
    BY <1>1, <2>2, SameItself DEF Untouched
  <2>3. CASE state' = [state EXCEPT ![loc[p].id] = [NoState EXCEPT !.used = TRUE]]
    <3>1. SameRows(state, state', w)
      BY <1>3, <1>4, <2>1, <2>3, TablesNow DEF SameRows
    <3> QED
      BY <1>1, <3>1, SameItself DEF Untouched
  <2> QED
    BY <2>2, <2>3 DEF DropState
<1>6. StepsKept
  BY <1>1, StepsKeptSame
<1> QED
  BY <1>1, <1>2, <1>5, <1>6, EditDeploys

LEMMA WithoutSame ==
  ASSUME NEW table, NEW w, NEW empty, NEW x, x # w, x # Null,
         [empty EXCEPT !.used = TRUE].wf = Null
  PROVE  /\ SameRows(table, Without(table, w, empty), x)
         /\ RowsOf(Without(table, w, empty), x) \subseteq RowsOf(table, x)
<1> DEFINE e == [empty EXCEPT !.used = TRUE]
<1>1. e.wf = Null
  OBVIOUS
<1>2. Without(table, w, empty) = [i \in DOMAIN table |-> IF table[i].wf = w THEN e ELSE table[i]]
  BY DEF Without
<1> HIDE DEF e
<1>3. /\ DOMAIN Without(table, w, empty) = DOMAIN table
      /\ \A i \in DOMAIN table : \/ table[i].wf = w /\ Without(table, w, empty)[i].wf = Null
                                 \/ Without(table, w, empty)[i] = table[i]
  BY <1>1, <1>2
<1> QED
  BY <1>3 DEF SameRows, RowsOf

(* A removal ends the workflow it is about, and leaves the others alone. *)
LEMMA CommitRemovalDeploys ==
  ASSUME DesignInv, DesignInv', DeployInv, NEW p \in Requests, CommitRemoval(p)
  PROVE  DeployInv'
<1>1. /\ End(p) /\ loc[p].w \in Workflows /\ touched' = touched /\ answered' = answered
  BY ProgressFacts DEF CommitRemoval, Course, Locals, Local, Before, Building, Undoing
<1>2. CASE ~Removable(p)
  BY <1>1, <1>2, QuietDeployEnd DEF CommitRemoval
<1>3. CASE Removable(p)
  <2>1. /\ wf' = [wf EXCEPT ![loc[p].w].status = "gone"]
        /\ execution' = Without(execution, loc[p].w, NoExecution)
        /\ transition' = Without(transition, loc[p].w, NoTransition)
        /\ state' = Without(state, loc[p].w, NoState)
        /\ step' = Without(step, loc[p].w, NoChild)
    BY <1>3 DEF CommitRemoval
  <2>2. /\ [NoExecution EXCEPT !.used = TRUE].wf = Null
        /\ [NoTransition EXCEPT !.used = TRUE].wf = Null
        /\ [NoState EXCEPT !.used = TRUE].wf = Null /\ [NoChild EXCEPT !.used = TRUE].wf = Null
        /\ [NoChild EXCEPT !.used = TRUE].used
    BY DEF NoExecution, NoTransition, NoState, NoChild
  <2>3. /\ wf'[loc[p].w].status = "gone"
        /\ \A x \in Workflows : x # loc[p].w => wf'[x] = wf[x]
    BY <1>1, <2>1, TablesNow DEF Workflow
  <2>4. ASSUME NEW w \in Workflows, Unspoilt(wf', touched', w)
        PROVE  /\ Untouched(wf, wf', state, state', transition, transition', step, step', w)
               /\ RowsOf(execution', w) \subseteq RowsOf(execution, w)
    <3>1. w # loc[p].w /\ w # Null
      BY <2>3, <2>4, DesignAssumption DEF Unspoilt, Alive
    <3>2. SameRows(state, state', w)
      BY <2>1, <2>2, <3>1, WithoutSame
    <3>3. SameRows(transition, transition', w)
      BY <2>1, <2>2, <3>1, WithoutSame
    <3>4. SameRows(step, step', w)
      BY <2>1, <2>2, <3>1, WithoutSame
    <3>5. RowsOf(execution', w) \subseteq RowsOf(execution, w)
      BY <2>1, <2>2, <3>1, WithoutSame
    <3> QED
      BY <2>3, <3>1, <3>2, <3>3, <3>4, <3>5 DEF Untouched
  <2>5. \A w \in Workflows : wf[w].status # "free" => wf'[w].status # "free"
    BY <2>3
  <2>6. StepsKept
    <3>1. \A i \in StepIds : step'[i] = step[i] \/ step'[i] = [NoChild EXCEPT !.used = TRUE]
      BY <2>1, TablesNow DEF Without
    <3> QED
      BY <2>2, <3>1 DEF StepsKept
  <2>7. pc'[p] = "idle" /\ loc'[p] = NoLocal /\ OthersWait(p)
    BY <1>1, WaitFacts DEF End
  <2>8. ProgressNext("idle", NoLocal)
    BY IdleProgress DEF ProgressNext
  <2> QED
    BY <1>1, <2>4, <2>5, <2>6, <2>7, <2>8, EditDeploys
<1> QED
  BY <1>2, <1>3

LEMMA LogEventDeploys ==
  ASSUME DesignInv, DesignInv', DeployInv, NEW p \in Requests, LogEvent(p)
  PROVE  DeployInv'
<1>1. /\ End(p) /\ wf' = wf /\ state' = state /\ transition' = transition /\ step' = step
      /\ touched' = touched /\ answered' = answered
  BY DEF LogEvent, history
<1>2. \A x \in Executions : execution'[x].wf = execution[x].wf
  BY TablesNow DEF LogEvent, ExecutionRow
<1>3. ASSUME NEW w \in Workflows
      PROVE  /\ Untouched(wf, wf', state, state', transition, transition', step, step', w)
             /\ RowsOf(execution', w) \subseteq RowsOf(execution, w)
  <2>1. DOMAIN execution = Executions /\ DOMAIN execution' = Executions
    BY TablesNow, TablesNext
  <2>2. RowsOf(execution', w) \subseteq RowsOf(execution, w)
    BY <1>2, <2>1 DEF RowsOf
  <2> QED
    BY <1>1, <2>2, SameItself DEF Untouched
<1>4. pc'[p] = "idle" /\ loc'[p] = NoLocal /\ OthersWait(p)
  BY <1>1, WaitFacts DEF End
<1>5. ProgressNext("idle", NoLocal)
  BY IdleProgress DEF ProgressNext
<1>6. StepsKept
  BY <1>1, StepsKeptSame
<1> QED
  BY <1>1, <1>3, <1>4, <1>5, <1>6, EditDeploys

(* An execution starts on a workflow that is complete, if nobody edited it. *)
LEMMA InsertExecutionDeploys ==
  ASSUME DesignInv, DesignInv', DeployInv, NEW p \in Requests, InsertExecution(p)
  PROVE  DeployInv'
<1> DEFINE w == loc[p].w
<1>1. /\ pc[p] = "execute" /\ loc[p] \in Local /\ loc[p].kind = "trigger" /\ w \in Workflows
      /\ wf' = wf /\ state' = state /\ transition' = transition /\ step' = step
      /\ touched' = touched /\ answered' = answered
  BY ProgressFacts DEF InsertExecution, Course, Locals, Before, Building, Undoing, history
<1>2. CASE End(p) /\ UNCHANGED execution
  BY <1>1, <1>2, QuietDeployEnd
<1>3. ASSUME NEW x \in NextId(execution), Goto(p, "event"),
             execution' = [execution EXCEPT ![x] = [wf |-> w, logged |-> FALSE, used |-> TRUE]],
             Keep(p, [loc[p] EXCEPT !.id = x])
      PROVE  DeployInv'
  <2> DEFINE v == [loc[p] EXCEPT !.id = x]
  <2>1. v.kind = "trigger" /\ v.w = w /\ Keep(p, v)
    BY <1>1, <1>3 DEF Local
  <2> HIDE DEF v
  <2>2. pc'[p] = "event" /\ loc'[p] = v /\ OthersWait(p)
    BY <1>3, <2>1, WaitFacts
  <2>3. Unspoilt(wf, touched, w) => Full(wf, state, transition, step, w) /\ wf[w].status = "active"
    BY <1>1, ProgressFacts DEF Progress, ProgressNow
  <2>4. ProgressNext("event", v)
    BY <1>1, <2>1, <2>3 DEF ProgressNext, Progress
  <2>5. ASSUME NEW y \in Workflows, y # w  PROVE RowsOf(execution', y) \subseteq RowsOf(execution, y)
    BY <1>3, <2>5, TablesNow DEF RowsOf
  <2>6. ASSUME NEW y \in Workflows, Unspoilt(wf', touched', y)
        PROVE  Spared(y) /\ (Quiet(y) \/ Ready(p, y))
    <3>1. Spared(y)
      BY <1>1, <2>6, SameItself DEF Spared, Untouched, Unspoilt
    <3>2. CASE y # w
      BY <1>1, <2>5, <3>1, <3>2 DEF Quiet, Unrun
    <3>3. CASE y = w
      <4>1. Full(wf, state, transition, step, y) /\ wf[y].status = "active"
            /\ Unspoilt(wf, touched, y)
        BY <1>1, <2>3, <2>6, <3>3
      <4>2. ASSUME NEW q \in Requests, loc[q].kind = "deploy", loc[q].w = y,
                   pc[q] \in Building \ {"answer"}
            PROVE  FALSE
        <5>1. Stored(pc[q], loc[q], wf, state, transition, step, execution, answered)
          BY <4>1, <4>2, ProgressFacts DEF Progress, ProgressNow
        <5> QED
          BY <4>1, <4>2, <5>1 DEF Stored
      <4> QED
        BY <3>1, <4>1, <4>2 DEF Ready
    <3> QED
      BY <3>1, <3>2, <3>3
  <2>7. \A y \in answered' : wf'[y].status # "free"
    BY <1>1 DEF DeployInv
  <2>8. Effect(p, "event", v)
    BY <1>1, <2>6, <2>7, StepsKeptSame DEF Effect
  <2> QED
    BY <2>2, <2>4, <2>8, DeployStep DEF OthersWait, ProgressNext
<1> QED
  BY <1>2, <1>3 DEF InsertExecution

LEMMA AnswerDeploys ==
  ASSUME DesignInv, DesignInv', DeployInv, NEW p \in Requests, Answer(p)  PROVE  DeployInv'
<1> DEFINE w == loc[p].w
<1>1. /\ pc[p] = "answer" /\ loc[p] \in Local /\ w \in Workflows
      /\ wf' = wf /\ state' = state /\ transition' = transition /\ step' = step
      /\ execution' = execution /\ touched' = touched
  BY ProgressFacts DEF Answer, Course, Locals, Local, Before, Building, Undoing, tables
<1>2. CASE ~(Live(w) /\ loc[p].kind = "deploy")
  <2>1. answered' = answered /\ (End(p) \/ Raise(p))
    BY <1>2 DEF Answer
  <2> QED
    BY <1>1, <2>1, QuietDeployEnd, QuietDeployRaise
<1>3. CASE Live(w) /\ loc[p].kind = "deploy"
  <2>1. answered' = answered \cup {w} /\ End(p)
    BY <1>3 DEF Answer
  <2>2. pc'[p] = "idle" /\ loc'[p] = NoLocal /\ OthersWait(p)
    BY <2>1, WaitFacts DEF End
  <2>3. ProgressNext("idle", NoLocal)
    BY IdleProgress DEF ProgressNext
  <2>4. ASSUME NEW y \in Workflows, Unspoilt(wf', touched', y)
        PROVE  Spared(y) /\ (Quiet(y) \/ Ready(p, y))
    <3>1. Spared(y)
      BY <1>1, <2>4, SameItself DEF Spared, Untouched, Unspoilt
    <3>2. CASE y # w
      BY <1>1, <2>1, <3>1, <3>2 DEF Quiet, Unrun
    <3>3. CASE y = w
      <4>1. Stored("answer", loc[p], wf, state, transition, step, execution, answered)
        BY <1>1, <1>3, <2>4, <3>3, ProgressFacts DEF Progress, ProgressNow, Building
      <4>2. Full(wf, state, transition, step, y)
        BY <3>3, <4>1, AllStored, TablesNow
      <4>3. \A q \in Requests \ {p} : loc[q].kind = "deploy" => loc[q].w # y
        BY <1>1, <1>3, <3>3, DesignAssumption DEF DesignInv, Agreed, Agree
      <4> QED
        BY <3>1, <4>2, <4>3 DEF Ready
    <3> QED
      BY <3>1, <3>2, <3>3
  <2>5. \A y \in answered' : wf'[y].status # "free"
    BY <1>1, <1>3, <2>1 DEF DeployInv, Live
  <2>6. Effect(p, "idle", NoLocal)
    BY <1>1, <2>4, <2>5, StepsKeptSame DEF Effect
  <2> QED
    BY <2>2, <2>3, <2>6, DeployStep DEF OthersWait, ProgressNext
<1> QED
  BY <1>2, <1>3

-----------------------------------------------------------------------------
(* The steps of a deployment on its own workflow. *)
Alone(p) ==
  LET w == loc[p].w IN
  /\ \A q \in Requests \ {p} : loc[q].w = w => loc[q].kind \notin {"deploy", "trigger"}
  /\ \A i \in TransitionIds : transition[i].wf = w => ~transition[i].moved

LEMMA AloneBuilds ==
  ASSUME DesignInv, DeployInv, NEW p \in Requests, loc[p].kind = "deploy",
         pc[p] \in Building \ {"answer"}, Unspoilt(wf, touched, loc[p].w)
  PROVE  /\ Stored(pc[p], loc[p], wf, state, transition, step, execution, answered)
         /\ Alone(p)
<1>1. loc[p].w \in Workflows /\ loc[p].w # Null
  BY ProgressFacts, DesignAssumption DEF Course, Local, Before, Building
<1>2. Stored(pc[p], loc[p], wf, state, transition, step, execution, answered)
  BY ProgressFacts DEF Progress, ProgressNow
<1>3. wf[loc[p].w].status = "draft"
  BY <1>2 DEF Stored
<1>4. ASSUME NEW q \in Requests \ {p}, loc[q].w = loc[p].w
      PROVE  loc[q].kind \notin {"deploy", "trigger"}
  <2>1. loc[q].kind # "deploy"
    BY <1>1, <1>4 DEF DesignInv, Agreed, Agree
  <2>2. loc[q].kind = "trigger" => wf[loc[q].w].status = "active"
    BY <1>4, ProgressFacts DEF Progress, ProgressNow
  <2> QED
    BY <1>3, <1>4, <2>1, <2>2
<1>5. \A i \in TransitionIds : transition[i].wf = loc[p].w => ~transition[i].moved
  BY <1>1 DEF DeployInv, Sound
<1> QED
  BY <1>2, <1>4, <1>5 DEF Alone

LEMMA BuildDeploys ==
  ASSUME DesignInv, DesignInv', DeployInv, NEW p \in Requests, NEW l \in Building, NEW v,
         loc[p].kind = "deploy", pc[p] \in Building \ {"answer"},
         v.kind = "deploy", v.w = loc[p].w,
         Goto(p, l), Keep(p, v), NEW w \in Workflows, w = loc[p].w,
         \A x \in Workflows \ {w} :
           Untouched(wf, wf', state, state', transition, transition', step, step', x),
         wf[w].status # "free" => wf'[w].status # "free",
         execution' = execution, answered' = answered, touched' = touched, StepsKept,
         Unspoilt(wf', touched', w) => Unspoilt(wf, touched, w),
         \A i \in TransitionIds : transition'[i].wf = w /\ transition'[i].moved =>
           transition[i].wf = w /\ transition[i].moved,
         Unspoilt(wf', touched', w)
           /\ Stored(pc[p], loc[p], wf, state, transition, step, execution, answered)
           => Stored(l, v, wf', state', transition', step', execution', answered')
  PROVE  DeployInv'
<1>1. pc'[p] = l /\ loc'[p] = v /\ OthersWait(p)
  BY WaitFacts
<1>2. ASSUME Unspoilt(wf', touched', w)
      PROVE  /\ Stored(l, v, wf', state', transition', step', execution', answered')
             /\ Built(p, l, v, w)
  <2>1. Stored(pc[p], loc[p], wf, state, transition, step, execution, answered) /\ Alone(p)
    BY <1>2, AloneBuilds
  <2> QED
    BY <1>2, <2>1 DEF Built, Alone
<1>3. ProgressNext(l, v)
  BY <1>2 DEF ProgressNext, Progress, Building, Before
<1>4. ASSUME NEW x \in Workflows, Unspoilt(wf', touched', x)
      PROVE  \/ Spared(x) /\ (Quiet(x) \/ Ready(p, x))
             \/ Built(p, l, v, x)
  <2>1. CASE x = w
    BY <1>2, <1>4, <2>1
  <2>2. CASE x # w
    BY <1>4, <2>2 DEF Spared, Quiet, Unrun, Unspoilt
  <2> QED
    BY <2>1, <2>2
<1>5. \A x \in answered' : wf'[x].status # "free"
  <2>1. ASSUME NEW x \in answered'  PROVE wf'[x].status # "free"
    <3>1. x \in Workflows /\ wf[x].status # "free"
      BY DEF DeployInv, DesignInv, Typed, TablesTyped
    <3> QED
      BY <3>1 DEF Untouched
  <2> QED
    BY <2>1
<1>6. Effect(p, l, v)
  BY <1>4, <1>5 DEF Effect
<1> QED
  BY <1>1, <1>3, <1>6, DeployStep DEF OthersWait, ProgressNext

LEMMA SetStatusDeploys ==
  ASSUME DesignInv, DesignInv', DeployInv, NEW p \in Requests, SetStatus(p)  PROVE  DeployInv'
<1> DEFINE w == loc[p].w
<1>1. /\ pc[p] = "status" /\ loc[p] \in Local /\ loc[p].w \in Workflows
      /\ loc[p].kind # "trigger"
      /\ state' = state /\ transition' = transition /\ step' = step /\ execution' = execution
      /\ answered' = answered /\ Touch(p, loc[p].w) /\ Goto(p, "answer") /\ Keep(p, loc[p])
  BY ProgressFacts, KeepSame
     DEF SetStatus, Only, Course, Locals, Local, Before, Building, Undoing
<1>2. /\ \A x \in Workflows : x # w => wf'[x] = wf[x]
      /\ wf'[w].template = wf[w].template
      /\ wf'[w].status \in Alive <=> wf[w].status \in Alive
      /\ wf[w].status # "free" => wf'[w].status # "free"
  <2>1. CASE ~Live(w)
    BY <1>1, <2>1 DEF SetStatus
  <2>2. CASE Live(w)
    <3>1. PICK s \in {"paused", "draft", "active"} : wf' = [wf EXCEPT ![w].status = s]
      BY <2>2 DEF SetStatus
    <3>2. wf[w].status \in Alive /\ wf[w] \in Workflow
      BY <1>1, <2>2, TablesNow DEF Live, Alive
    <3>3. wf'[w].status = s /\ wf'[w].template = wf[w].template
          /\ \A x \in Workflows : x # w => wf'[x] = wf[x]
      BY <1>1, <3>1, <3>2, TablesNow DEF Workflow
    <3> QED
      BY <3>2, <3>3 DEF Alive
  <2> QED
    BY <2>1, <2>2
<1>3. \A x \in Workflows \ {w} :
        Untouched(wf, wf', state, state', transition, transition', step, step', x)
  BY <1>1, <1>2, SameItself DEF Untouched
<1>4. StepsKept
  BY <1>1, StepsKeptSame
<1>5. CASE loc[p].kind # "deploy"
  <2>1. touched' = touched \cup {w}
    BY <1>1, <1>5 DEF Touch
  <2>2. pc'[p] = "answer" /\ loc'[p] = loc[p] /\ OthersWait(p)
    BY <1>1, WaitFacts
  <2>3. ProgressNext("answer", loc[p])
    BY <1>1, <1>5, FreeProgress DEF ProgressNext
  <2>4. ASSUME NEW x \in Workflows, Unspoilt(wf', touched', x)
        PROVE  /\ Untouched(wf, wf', state, state', transition, transition', step, step', x)
               /\ RowsOf(execution', x) \subseteq RowsOf(execution, x)
    BY <1>1, <1>3, <2>1, <2>4 DEF Unspoilt
  <2>5. \A x \in Workflows : wf[x].status # "free" => wf'[x].status # "free"
    BY <1>2
  <2> QED
    BY <1>1, <1>4, <2>1, <2>2, <2>3, <2>4, <2>5, EditDeploys
<1>6. CASE loc[p].kind = "deploy"
  <2>1. touched' = touched
    BY <1>1, <1>6 DEF Touch
  <2>2. Unspoilt(wf', touched', w) => Unspoilt(wf, touched, w)
    BY <1>2, <2>1 DEF Unspoilt
  <2>3. ASSUME Stored("status", loc[p], wf, state, transition, step, execution, answered)
        PROVE  Stored("answer", loc[p], wf', state', transition', step', execution', answered')
    BY <1>1, <1>2, <2>3 DEF Stored
  <2>4. \A i \in TransitionIds : transition'[i].wf = w /\ transition'[i].moved =>
           transition[i].wf = w /\ transition[i].moved
    BY <1>1
  <2>5. "answer" \in Building /\ pc[p] \in Building \ {"answer"}
    BY <1>1 DEF Building
  <2> QED
    BY <1>1, <1>2, <1>3, <1>4, <1>6, <2>1, <2>2, <2>3, <2>4, <2>5, BuildDeploys
<1> QED
  BY <1>5, <1>6

LEMMA InsertFacts ==
  ASSUME DesignInv, DeployInv, NEW p \in Requests,
         pc[p] \in {"state_insert", "transition_insert", "step_insert"}
  PROVE  /\ loc[p] \in Local /\ loc[p].w \in Workflows /\ loc[p].w # Null
         /\ Locals(pc[p], loc[p])
<1>1. loc[p] \in Local /\ Course(pc[p], loc[p]) /\ Locals(pc[p], loc[p])
  BY ProgressFacts
<1>2. loc[p].kind = "deploy" => loc[p].w # Null
  BY <1>1 DEF Course, Before
<1>3. loc[p].kind # "deploy" => loc[p].w \in Workflows
  BY <1>1 DEF Course, Locals, Before, Undoing
<1> QED
  BY <1>1, <1>2, <1>3, DesignAssumption DEF Local

LEMMA InsertStepDeploys ==
  ASSUME DesignInv, DesignInv', DeployInv, NEW p \in Requests, InsertStep(p)  PROVE  DeployInv'
<1> DEFINE w == loc[p].w
<1>1. /\ pc[p] = "step_insert" /\ loc[p] \in Local /\ loc[p].w \in Workflows /\ w # Null
      /\ Only({"step", "touched"})
      /\ wf' = wf /\ state' = state /\ transition' = transition /\ execution' = execution
      /\ answered' = answered /\ (loc[p].kind = "deploy" => loc[p].steps > 0)
  BY InsertFacts DEF InsertStep, Only, Locals
<1>2. CASE ~Live(w)
  BY <1>1, <1>2, QuietDeployRaise DEF InsertStep
<1>3. CASE Live(w)
  <2>1. PICK i \in NextId(step) : step' = [step EXCEPT ![i] = [wf |-> w, used |-> TRUE]]
    BY <1>3 DEF InsertStep
  <2>2. /\ Touch(p, w)
        /\ IF loc[p].kind = "deploy"
           THEN Goto(p, "step") /\ Keep(p, [loc[p] EXCEPT !.steps = @ - 1])
           ELSE End(p)
    BY <1>3 DEF InsertStep
  <2>3. i \in StepIds /\ step[i].wf = Null /\ ~step[i].used
    BY NextFree, TablesNow DEF DesignInv, Rows, Owned
  <2>4. step'[i] = [wf |-> w, used |-> TRUE] /\ \A j \in StepIds : j # i => step'[j] = step[j]
    BY <2>1, <2>3, TablesNow
  <2>5. \A x \in Workflows \ {w} : SameRows(step, step', x)
    BY <2>3, <2>4, TablesNow, DesignAssumption DEF SameRows
  <2>6. \A x \in Workflows \ {w} :
          Untouched(wf, wf', state, state', transition, transition', step, step', x)
    BY <1>1, <2>5, SameItself DEF Untouched
  <2>7. StepsKept
    BY <2>3, <2>4 DEF StepsKept
  <2>8. CASE loc[p].kind # "deploy"
    BY <1>1, <2>2, <2>6, <2>7, <2>8, EditorWrites
  <2>9. CASE loc[p].kind = "deploy"
    <3> DEFINE v == [loc[p] EXCEPT !.steps = @ - 1]
    <3>1. /\ v.kind = "deploy" /\ v.w = w /\ v.template = loc[p].template
          /\ v.states = loc[p].states /\ v.transitions = loc[p].transitions
          /\ v.steps = loc[p].steps - 1 /\ v.ids = loc[p].ids
      BY <1>1, <2>9 DEF Local
    <3>2. Goto(p, "step") /\ Keep(p, v) /\ touched' = touched
      BY <2>2, <2>9 DEF Touch
    <3> HIDE DEF v
    <3>3. RowsOf(step', w) = RowsOf(step, w) \cup {i} /\ i \notin RowsOf(step, w)
      BY <1>1, <2>3, <2>4, TablesNow, TablesNext DEF RowsOf
    <3>4. IsFiniteSet(RowsOf(step, w))
      BY TablesNow, DesignAssumption, FS_Subset DEF RowsOf
    <3>5. /\ Cardinality(RowsOf(step', w)) = Cardinality(RowsOf(step, w)) + 1
          /\ Cardinality(RowsOf(step, w)) \in Nat /\ loc[p].steps \in Nat
      <4>1. Cardinality(RowsOf(step, w)) \in Nat
        BY <3>4, FS_CardinalityType
      <4>2. Cardinality(RowsOf(step, w) \cup {i}) = Cardinality(RowsOf(step, w)) + 1
        BY <3>3, <3>4, FS_AddElement
      <4>3. loc[p].steps \in Nat
        BY <1>1 DEF Local
      <4> QED
        BY <3>3, <4>1, <4>2, <4>3
    <3>6. Cardinality(RowsOf(step', w)) + v.steps = Cardinality(RowsOf(step, w)) + loc[p].steps
      BY <3>1, <3>5
    <3>7. ASSUME Stored("step_insert", loc[p], wf, state, transition, step, execution, answered)
          PROVE  Stored("step", v, wf', state', transition', step', execution', answered')
      BY <1>1, <3>1, <3>6, <3>7 DEF Stored
    <3>8. "step" \in Building /\ pc[p] \in Building \ {"answer"}
      BY <1>1 DEF Building
    <3>9. \A j \in TransitionIds : transition'[j].wf = w /\ transition'[j].moved =>
            transition[j].wf = w /\ transition[j].moved
      BY <1>1
    <3>10. Unspoilt(wf', touched', w) => Unspoilt(wf, touched, w)
      BY <1>1, <3>2
    <3> QED
      BY <1>1, <2>6, <2>7, <2>9, <3>1, <3>2, <3>7, <3>8, <3>9, <3>10, BuildDeploys
  <2> QED
    BY <2>8, <2>9
<1> QED
  BY <1>2, <1>3

LEMMA InsertTransitionDeploys ==
  ASSUME DesignInv, DesignInv', DeployInv, NEW p \in Requests, InsertTransition(p)
  PROVE  DeployInv'
<1> DEFINE u == loc[p]
           w == loc[p].w
<1>1. /\ pc[p] = "transition_insert" /\ u \in Local /\ u.w \in Workflows /\ w # Null
      /\ Only({"transition", "touched"})
      /\ wf' = wf /\ state' = state /\ step' = step /\ execution' = execution
      /\ answered' = answered /\ (u.kind = "deploy" => u.transitions # <<>>)
      /\ From(u) \in StateIds /\ To(u) \in StateIds
  BY InsertFacts DEF InsertTransition, Only, Locals
<1>2. Ends(p)[1] = From(u) /\ Ends(p)[2] = To(u)
  BY DEF Ends, From, To
<1>3. CASE ~(Live(w) /\ StatesExist(Ends(p)[1], Ends(p)[2]))
  BY <1>1, <1>3, QuietDeployRaise DEF InsertTransition
<1>4. CASE Live(w) /\ StatesExist(Ends(p)[1], Ends(p)[2])
  <2>1. PICK i \in NextId(transition) :
          transition' = [transition EXCEPT ![i] =
            [wf |-> w, from |-> From(u), to |-> To(u), moved |-> FALSE, used |-> TRUE]]
    BY <1>2, <1>4 DEF InsertTransition
  <2>2. /\ Touch(p, w)
        /\ IF u.kind = "deploy"
           THEN Goto(p, "transition") /\ Keep(p, [u EXCEPT !.transitions = Tail(@)])
           ELSE End(p)
    BY <1>4 DEF InsertTransition
  <2>3. i \in TransitionIds /\ transition[i].wf = Null
    BY NextFree, TablesNow DEF DesignInv, Rows, Owned
  <2>4. /\ transition'[i].wf = w /\ transition'[i].from = From(u) /\ transition'[i].to = To(u)
        /\ ~transition'[i].moved
        /\ \A j \in TransitionIds : j # i => transition'[j] = transition[j]
    BY <2>1, <2>3, TablesNow
  <2>5. \A x \in Workflows \ {w} : SameRows(transition, transition', x)
    BY <2>3, <2>4, TablesNow, DesignAssumption DEF SameRows
  <2>6. \A x \in Workflows \ {w} :
          Untouched(wf, wf', state, state', transition, transition', step, step', x)
    BY <1>1, <2>5, SameItself DEF Untouched
  <2>7. StepsKept
    BY <1>1, StepsKeptSame
  <2>8. CASE u.kind # "deploy"
    BY <1>1, <2>2, <2>6, <2>7, <2>8, EditorWrites
  <2>9. CASE u.kind = "deploy"
    <3> DEFINE v == [u EXCEPT !.transitions = Tail(@)]
    <3>1. /\ v.kind = "deploy" /\ v.w = w /\ v.template = u.template
          /\ v.states = u.states /\ v.transitions = Tail(u.transitions)
          /\ v.steps = u.steps /\ v.ids = u.ids
      BY <1>1, <2>9 DEF Local
    <3>2. Goto(p, "transition") /\ Keep(p, v) /\ touched' = touched
      BY <2>2, <2>9 DEF Touch
    <3> HIDE DEF v
    <3>3. RowsOf(transition', w) = RowsOf(transition, w) \cup {i}
      BY <1>1, <2>3, <2>4, TablesNow, TablesNext DEF RowsOf
    <3>4. ASSUME Stored("transition_insert", u, wf, state, transition, step, execution, answered)
          PROVE  Stored("transition", v, wf', state', transition', step', execution', answered')
      <4>1. u.transitions \in Seq(Keys \X Keys) /\ u.transitions # <<>>
        BY <1>1, <2>9 DEF Local
      <4>2. Head(u.transitions) \in Keys \X Keys
        BY <4>1, HeadTailProperties
      <4>3. PICK a \in Keys, b \in Keys : Head(u.transitions) = <<a, b>>
        BY <4>2
      <4>4. From(u) = u.ids[a] /\ To(u) = u.ids[b]
        BY <2>9, <4>3 DEF From, To
      <4>5. state[From(u)].key = a /\ state[To(u)].key = b
        BY <1>1, <3>4, <4>3, <4>4, DesignAssumption DEF Stored
      <4>6. <<state'[transition'[i].from].key, state'[transition'[i].to].key>>
              = Head(u.transitions)
        BY <1>1, <2>4, <4>3, <4>5
      <4>7. PairsIn(state', transition', w)
              = PairsIn(state, transition, w) \cup {Head(u.transitions)}
        <5>1. \A j \in RowsOf(transition, w) : transition'[j] = transition[j]
          BY <1>1, <2>3, <2>4, TablesNow DEF RowsOf
        <5> QED
          BY <1>1, <3>3, <4>6, <5>1 DEF PairsIn
      <4>8. Elements(u.transitions) = {Head(u.transitions)} \cup Elements(Tail(u.transitions))
        BY <4>1, ElementsOf
      <4>9. PairsIn(state, transition, w) \cup Elements(u.transitions)
              = Elements(u.template.transitions)
        BY <3>4 DEF Stored
      <4>10. PairsIn(state', transition', v.w) \cup Elements(v.transitions)
               = Elements(v.template.transitions)
        BY <3>1, <4>7, <4>8, <4>9
      <4>11. /\ wf'[v.w].template = v.template
             /\ wf'[v.w].status = "draft" /\ v.w \notin answered' /\ RowsOf(execution', v.w) = {}
             /\ KeysIn(state', v.w) \cup Elements(v.states) = Elements(v.template.states)
             /\ Cardinality(RowsOf(step', v.w)) + v.steps = v.template.steps
             /\ v.states = <<>>
             /\ \A k \in Keys : v.ids[k] # Null =>
                  state'[v.ids[k]].wf = v.w /\ state'[v.ids[k]].key = k
        BY <1>1, <3>1, <3>4 DEF Stored
      <4> QED
        BY <4>10, <4>11 DEF Stored
    <3>5. "transition" \in Building /\ pc[p] \in Building \ {"answer"}
      BY <1>1 DEF Building
    <3>6. \A j \in TransitionIds : transition'[j].wf = w /\ transition'[j].moved =>
            transition[j].wf = w /\ transition[j].moved
      BY <2>4
    <3>7. Unspoilt(wf', touched', w) => Unspoilt(wf, touched, w)
      BY <1>1, <3>2
    <3> QED
      BY <1>1, <2>6, <2>7, <2>9, <3>1, <3>2, <3>4, <3>5, <3>6, <3>7, BuildDeploys
  <2> QED
    BY <2>8, <2>9
<1> QED
  BY <1>3, <1>4

LEMMA InsertStateDeploys ==
  ASSUME DesignInv, DesignInv', DeployInv, NEW p \in Requests, InsertState(p)
  PROVE  DeployInv'
<1> DEFINE u == loc[p]
           w == loc[p].w
           k0 == NextKey(p)
<1>1. /\ pc[p] = "state_insert" /\ u \in Local /\ u.w \in Workflows /\ w # Null
      /\ Only({"state", "touched"})
      /\ wf' = wf /\ transition' = transition /\ step' = step /\ execution' = execution
      /\ answered' = answered /\ (u.kind = "deploy" => u.states # <<>>)
  BY InsertFacts DEF InsertState, Only, Locals
<1>2. CASE ~(Live(w) /\ KeyFree(w, k0, Null))
  BY <1>1, <1>2, QuietDeployRaise DEF InsertState
<1>3. CASE Live(w) /\ KeyFree(w, k0, Null)
  <2>1. PICK i \in NextId(state) :
          /\ state' = [state EXCEPT ![i] = [wf |-> w, key |-> k0, used |-> TRUE]]
          /\ Touch(p, w)
          /\ IF u.kind = "deploy"
             THEN /\ Keep(p, [u EXCEPT !.states = Tail(@), !.ids[k0] = i])
                  /\ Goto(p, "state")
             ELSE End(p)
    BY <1>3 DEF InsertState
  <2>2. i \in StateIds /\ state[i].wf = Null
    BY NextFree, TablesNow DEF DesignInv, Rows, Owned
  <2>3. /\ state'[i].wf = w /\ state'[i].key = k0
        /\ \A j \in StateIds : j # i => state'[j] = state[j]
    BY <2>1, <2>2, TablesNow
  <2>4. \A x \in Workflows \ {w} : SameRows(state, state', x)
    BY <2>2, <2>3, TablesNow, DesignAssumption DEF SameRows
  <2>5. \A x \in Workflows \ {w} :
          Untouched(wf, wf', state, state', transition, transition', step, step', x)
    BY <1>1, <2>4, SameItself DEF Untouched
  <2>6. StepsKept
    BY <1>1, StepsKeptSame
  <2>7. CASE u.kind # "deploy"
    BY <1>1, <2>1, <2>5, <2>6, <2>7, EditorWrites
  <2>8. CASE u.kind = "deploy"
    <3> DEFINE v == [u EXCEPT !.states = Tail(@), !.ids[k0] = i]
    <3>1. u.states \in Seq(Keys) /\ u.states # <<>> /\ k0 = Head(u.states) /\ k0 \in Keys
      BY <1>1, <2>8, HeadTailProperties DEF NextKey, Local
    <3>2. /\ v.kind = "deploy" /\ v.w = w /\ v.template = u.template
          /\ v.states = Tail(u.states) /\ v.transitions = u.transitions
          /\ v.steps = u.steps
      BY <1>1, <2>8 DEF Local
    <3>3. v.ids[k0] = i /\ \A k \in Keys : k # k0 => v.ids[k] = u.ids[k]
      BY <1>1, <3>1 DEF Local
    <3>4. Goto(p, "state") /\ Keep(p, v) /\ touched' = touched
      BY <2>1, <2>8 DEF Touch
    <3> HIDE DEF v
    <3>5. RowsOf(state', w) = RowsOf(state, w) \cup {i}
      BY <1>1, <2>2, <2>3, TablesNow, TablesNext DEF RowsOf
    <3>6. ASSUME Unspoilt(wf', touched', w),
                 Stored("state_insert", u, wf, state, transition, step, execution, answered)
          PROVE  Stored("state", v, wf', state', transition', step', execution', answered')
      <4>1. KeysIn(state', w) = KeysIn(state, w) \cup {k0}
        <5>1. \A j \in RowsOf(state, w) : state'[j] = state[j]
          BY <1>1, <2>2, <2>3, TablesNow DEF RowsOf
        <5> QED
          BY <2>3, <3>5, <5>1 DEF KeysIn
      <4>2. Elements(u.states) = {k0} \cup Elements(Tail(u.states))
        BY <3>1, ElementsOf
      <4>3. KeysIn(state', v.w) \cup Elements(v.states) = Elements(v.template.states)
        BY <3>2, <3>6, <4>1, <4>2 DEF Stored
      <4>4. OwnEnds(state, transition, w)
        BY <1>1, <3>4, <3>6, UnspoiltEnds
      <4>5. \A t \in RowsOf(transition, w) :
              /\ state'[transition[t].from] = state[transition[t].from]
              /\ state'[transition[t].to] = state[transition[t].to]
        BY <1>1, <2>2, <2>3, <4>4, TablesNow DEF OwnEnds, RowsOf
      <4>6. PairsIn(state', transition', w) = PairsIn(state, transition, w)
        BY <1>1, <4>5 DEF PairsIn
      <4>7. ASSUME NEW k \in Keys, v.ids[k] # Null
            PROVE  state'[v.ids[k]].wf = v.w /\ state'[v.ids[k]].key = k
        <5>1. CASE k = k0
          BY <2>3, <3>2, <3>3, <5>1
        <5>2. CASE k # k0
          <6>1. v.ids[k] = u.ids[k] /\ u.ids[k] \in StateIds
            BY <1>1, <3>3, <4>7, <5>2 DEF Local
          <6>2. state[u.ids[k]].wf = w /\ state[u.ids[k]].key = k
            BY <3>6, <4>7, <6>1 DEF Stored
          <6>3. u.ids[k] # i
            BY <1>1, <2>2, <6>2
          <6> QED
            BY <2>3, <3>2, <6>1, <6>2, <6>3
        <5> QED
          BY <5>1, <5>2
      <4>8. /\ wf'[v.w].template = v.template
            /\ wf'[v.w].status = "draft" /\ v.w \notin answered' /\ RowsOf(execution', v.w) = {}
            /\ PairsIn(state', transition', v.w) \cup Elements(v.transitions)
                 = Elements(v.template.transitions)
            /\ Cardinality(RowsOf(step', v.w)) + v.steps = v.template.steps
        BY <1>1, <3>2, <3>6, <4>6 DEF Stored
      <4> QED
        BY <4>3, <4>7, <4>8 DEF Stored
    <3>7. "state" \in Building /\ pc[p] \in Building \ {"answer"}
      BY <1>1 DEF Building
    <3>8. \A j \in TransitionIds : transition'[j].wf = w /\ transition'[j].moved =>
            transition[j].wf = w /\ transition[j].moved
      BY <1>1
    <3>9. Unspoilt(wf', touched', w) => Unspoilt(wf, touched, w)
      BY <1>1, <3>4
    <3> QED
      BY <1>1, <2>5, <2>6, <2>8, <3>2, <3>4, <3>6, <3>7, <3>8, <3>9, BuildDeploys
  <2> QED
    BY <2>7, <2>8
<1> QED
  BY <1>2, <1>3

LEMMA InsertWorkflowDeploys ==
  ASSUME DesignInv, DesignInv', DeployInv, NEW p \in Requests, InsertWorkflow(p)
  PROVE  DeployInv'
<1> DEFINE u == loc[p]
<1>1. /\ pc[p] = "insert" /\ u \in Local /\ Locals("insert", u) /\ OnLimit("insert", u, wf)
      /\ state' = state /\ transition' = transition /\ step' = step /\ execution' = execution
      /\ touched' = touched /\ answered' = answered
      /\ Goto(p, IF u.kind = "deploy" THEN "state" ELSE "idle")
  BY ProgressFacts, TypedFacts DEF InsertWorkflow, Only, Knows
<1>2. PICK w \in NextWorkflow, s \in {"draft", "active"} :
        /\ s = "draft" \/ u.kind = "create"
        /\ wf' = [wf EXCEPT ![w] = [status |-> s, late |-> u.late,
                                    copied |-> u.kind = "duplicate", template |-> u.template]]
        /\ loc' = [q \in Requests |->
             IF q # p THEN [loc[q] EXCEPT !.late = @ \/ pc[q] = "insert"]
             ELSE IF u.kind = "deploy" THEN [u EXCEPT !.w = w] ELSE NoLocal]
  BY DEF InsertWorkflow
<1>3. w \in Workflows /\ w # Null /\ wf[w].status = "free"
  BY DesignAssumption DEF NextWorkflow
<1>4. /\ wf'[w].template = u.template /\ wf'[w].status = s
      /\ \A x \in Workflows : x # w => wf'[x] = wf[x]
  BY <1>2, <1>3, TablesNow
<1> DEFINE l == IF u.kind = "deploy" THEN "state" ELSE "idle"
           v == IF u.kind = "deploy" THEN [u EXCEPT !.w = w] ELSE NoLocal
<1>5. loc'[p] = v /\ pc'[p] = l /\ Goto(p, l)
  BY <1>1, <1>2 DEF Goto, DesignInv, Typed
<1>6. /\ u.kind = "deploy" =>
           /\ v.kind = "deploy" /\ v.w = w /\ v.template = u.template /\ v.states = u.states
           /\ v.transitions = u.transitions /\ v.steps = u.steps /\ v.ids = u.ids
           /\ l = "state"
      /\ u.kind # "deploy" => v = NoLocal /\ l = "idle"
  BY <1>1 DEF Local
<1> HIDE DEF v, l
<1>7. OthersWait(p)
  <2>1. ASSUME NEW q \in Requests \ {p}
        PROVE  pc'[q] = pc[q] /\ Alike(loc[q], loc'[q])
    <3>1. loc'[q] = [loc[q] EXCEPT !.late = @ \/ pc[q] = "insert"]
      BY <1>2, <2>1
    <3>2. loc[q] \in Local /\ pc'[q] = pc[q]
      BY <1>5, <2>1, TypedFacts DEF Goto, DesignInv, Typed
    <3> QED
      BY <3>1, <3>2, MarkedLate
  <2> QED
    BY <2>1 DEF OthersWait
<1>8. /\ RowsOf(state, w) = {} /\ RowsOf(transition, w) = {} /\ RowsOf(step, w) = {}
      /\ RowsOf(execution, w) = {} /\ w \notin answered
  <2>1. ~Live(w)
    BY <1>3 DEF Live
  <2>2. w \notin answered
    BY <1>3 DEF DeployInv
  <2> QED
    BY <1>3, <2>1, <2>2 DEF DesignInv, Rows, Owned, RowsOf
<1>9. \A x \in Workflows \ {w} :
        Untouched(wf, wf', state, state', transition, transition', step, step', x)
  BY <1>1, <1>4, SameItself DEF Untouched
<1>10. \A x \in answered' : wf'[x].status # "free"
  <2>1. \A x \in answered : x \in Workflows /\ x # w /\ wf[x].status # "free"
    BY <1>8 DEF DeployInv, DesignInv, Typed, TablesTyped
  <2> QED
    BY <1>1, <1>4, <2>1
<1>11. StepsKept
  BY <1>1, StepsKeptSame
<1>12. ASSUME u.kind = "deploy"
       PROVE  Stored("state", v, wf', state', transition', step', execution', answered')
  <2>1. Listed(u)
    BY <1>1, <1>12, ProgressFacts DEF Progress, ProgressNow, Before
  <2>2. s = "draft"
    BY <1>2, <1>12
  <2>3. KeysIn(state', w) = {} /\ PairsIn(state', transition', w) = {}
    BY <1>1, <1>8 DEF KeysIn, PairsIn
  <2>4. Cardinality(RowsOf(step', w)) = 0 /\ u.steps \in Nat
    BY <1>1, <1>8, FS_EmptySet DEF Local
  <2>5. Cardinality(RowsOf(step', w)) + u.steps = u.template.steps
    BY <2>1, <2>4 DEF Listed
  <2> QED
    BY <1>1, <1>4, <1>6, <1>8, <1>12, <2>1, <2>2, <2>3, <2>5 DEF Stored, Listed
<1>13. ProgressNext(l, v)
  <2>1. CASE u.kind = "deploy"
    BY <1>6, <1>12, <2>1 DEF ProgressNext, Progress, Before, Building
  <2>2. CASE u.kind # "deploy"
    BY <1>6, <2>2, IdleProgress DEF ProgressNext
  <2> QED
    BY <2>1, <2>2
<1>14. ASSUME NEW x \in Workflows, Unspoilt(wf', touched', x)
       PROVE  \/ Spared(x) /\ (Quiet(x) \/ Ready(p, x))
              \/ Built(p, l, v, x)
  <2>1. CASE x # w
    BY <1>1, <1>9, <1>14, <2>1 DEF Spared, Quiet, Unrun, Unspoilt
  <2>2. CASE x = w
    <3>1. u.kind = "deploy"
      BY <1>1, <1>4, <1>14, <2>2 DEF Unspoilt, Locals
    <3>2. ASSUME NEW q \in Requests \ {p}  PROVE loc[q].w # w
      BY <1>3, <3>2, TypedFacts DEF Knows, OnWorkflow
    <3>3. \A i \in TransitionIds : transition'[i].wf # w
      BY <1>1, <1>8, TablesNow DEF RowsOf
    <3> QED
      BY <1>6, <2>2, <3>1, <3>2, <3>3 DEF Built, Building
  <2> QED
    BY <2>1, <2>2
<1>15. Effect(p, l, v)
  BY <1>1, <1>10, <1>11, <1>14 DEF Effect
<1> QED
  BY <1>5, <1>7, <1>13, <1>15, DeployStep DEF OthersWait, ProgressNext

-----------------------------------------------------------------------------
LEMMA StepDeploys ==
  ASSUME DesignInv, DesignInv', DeployInv, NEW p \in Requests, Step(p)  PROVE  DeployInv'
<1>1. CASE FindEntity(p) \/ InsertEntity(p) \/ ValidateAssignments(p)
           \/ CountWorkflows(p) \/ InsertWorkflow(p)
  BY <1>1, FindEntityDeploys, InsertEntityDeploys, ValidateAssignmentsDeploys,
     CountWorkflowsDeploys, InsertWorkflowDeploys
<1>2. CASE CheckState(p) \/ InsertState(p) \/ ReadRoles(p) \/ InsertRole(p)
  BY <1>2, CheckStateDeploys, InsertStateDeploys, ReadRolesDeploys, InsertRoleDeploys
<1>3. CASE CheckTransition(p) \/ InsertTransition(p) \/ CheckStep(p) \/ InsertStep(p)
  BY <1>3, CheckTransitionDeploys, InsertTransitionDeploys, CheckStepDeploys, InsertStepDeploys
<1>4. CASE SetStatus(p) \/ Answer(p)
  BY <1>4, SetStatusDeploys, AnswerDeploys
<1>5. CASE ChangeState(p) \/ CutTransitions(p) \/ DropState(p)
  BY <1>5, ChangeStateDeploys, CutTransitionsDeploys, DropStateDeploys
<1>6. CASE MoveTransition(p) \/ CutTransition(p) \/ CutStep(p)
  BY <1>6, MoveTransitionDeploys, CutTransitionDeploys, CutStepDeploys
<1>7. CASE ListExecutions(p) \/ CommitRemoval(p) \/ InsertExecution(p) \/ LogEvent(p)
  BY <1>7, ListExecutionsDeploys, CommitRemovalDeploys, InsertExecutionDeploys, LogEventDeploys
<1>8. CASE Fail(p) \/ Crash(p)
  BY <1>8, FailDeploys, CrashDeploys
<1> QED
  BY <1>1, <1>2, <1>3, <1>4, <1>5, <1>6, <1>7, <1>8 DEF Step

LEMMA NothingDeploys ==
  ASSUME DeployInv, UNCHANGED <<wf, state, transition, step, execution, touched, answered>>,
         UNCHANGED <<pc, loc>>
  PROVE  DeployInv'
BY DEF DeployInv

LEMMA NextDeploys == DesignInv /\ DesignInv' /\ DeployInv /\ [Next]_vars => DeployInv'
<1>1. ASSUME DesignInv, DesignInv', DeployInv, NEW p \in Requests, Begin(p) \/ Step(p)
      PROVE  DeployInv'
  BY <1>1, BeginDeploys, StepDeploys
<1>2. ASSUME DeployInv, DropEntity \/ CreateRole \/ UpdateRole  PROVE DeployInv'
  BY <1>2, NothingDeploys DEF DropEntity, CreateRole, UpdateRole, history
<1>3. ASSUME DeployInv, UNCHANGED vars  PROVE DeployInv'
  BY <1>3, NothingDeploys DEF vars, tables, requests, history
<1> QED
  BY <1>1, <1>2, <1>3 DEF Next

LEMMA InitDeploys == Init => DeployInv
<1> SUFFICES ASSUME Init  PROVE  DeployInv
  OBVIOUS
<1>1. \A w \in Workflows : wf[w].status \in Alive => wf[w].template = EmptyTemplate
  <2>1. PICK t \in InitialTables : wf = t[1]
    BY DEF Init
  <2> QED
    BY <2>1, TablesAssumption DEF Alive
<1>2. /\ pc = [p \in Requests |-> "idle"] /\ loc = [p \in Requests |-> NoLocal]
      /\ answered = {}
  BY DEF Init
<1>3. \A q \in Requests :
        Progress(pc[q], loc[q], wf, state, transition, step, execution, touched, answered)
  BY <1>2, IdleProgress
<1>4. \A w \in Workflows : ~Unspoilt(wf, touched, w)
  BY <1>1 DEF Unspoilt
<1>5. \A w \in Workflows :
        Sound(wf, state, transition, step, execution, touched, answered, w)
  BY <1>4 DEF Sound
<1> QED
  BY <1>2, <1>3, <1>5 DEF DeployInv

THEOREM DeployAlways == Spec => [](DesignInv /\ DeployInv)
<1>1. Init => DesignInv /\ DeployInv
  BY InitHolds, InitDeploys
<1>2. DesignInv /\ DeployInv /\ [Next]_vars => (DesignInv /\ DeployInv)'
  BY NextKeeps, NextDeploys
<1> QED
  BY <1>1, <1>2, PTL DEF Spec

(* A workflow that nobody but its deployment touched runs, or is announced, only
   when all states, transitions and steps of its template are stored. *)
THEOREM OnlyWholeTemplatesRun == Spec => []OnlyCompleteRuns
<1>1. DeployInv => OnlyCompleteRuns
  <2>1. SUFFICES ASSUME DeployInv, NEW w \in Workflows, w \notin touched, Live(w),
                        wf[w].template # EmptyTemplate,
                        wf[w].status = "active" \/ w \in answered \/ RowsOf(execution, w) # {}
                 PROVE  Complete(w)
    BY DEF OnlyCompleteRuns, LiveWorkflows
  <2>2. Unspoilt(wf, touched, w)
    BY <2>1 DEF Unspoilt, Live, Alive
  <2>3. Full(wf, state, transition, step, w)
    BY <2>1, <2>2 DEF DeployInv, Sound
  <2> QED
    BY <2>3 DEF Full, KeysIn, PairsIn, Complete
<1> QED
  BY <1>1, DeployAlways, PTL
=============================================================================
