--------------------------- MODULE RecordsProofs ---------------------------
(***************************************************************************)
(* The safety properties of Records, for every number of definitions,      *)
(* rows, workflows and requests.  The invariant has a part about the       *)
(* tables and, for each request, what its handler still knows about them   *)
(* at the statement it has reached: the tables change under it, but a row  *)
(* that is moved is known to be, a version never returns, and a write that *)
(* could spoil a uniqueness test or a copy marks the request.  A second    *)
(* invariant on top of it is about the audit log.                          *)
(***************************************************************************)
EXTENDS Records, TLAPS

Lasting == {"live", "gone"}
Validating == {"code", "link", "save"}
Calling == {"run", "field_read", "field_write", "new_find", "new_save"}

-----------------------------------------------------------------------------
(* What a request at point l with locals v knows.                          *)

(* The request that made a row, and so calls its workflows. *)
Owner(l, v) == \/ v.kind = "employee"
               \/ v.kind = "create" /\ l \notin Validating
(* The points each handler passes, and the locals it has set by then. *)
Control(l, v) ==
  /\ \/ v.kind = "none" /\ l = "idle"
     \/ v.kind = "create" /\ l \in Validating \cup Calling \cup {"workflows", "audit"}
     \/ v.kind = "update" /\ l \in Validating \cup {"reread", "audit"}
     \/ v.kind = "move" /\ l \in {"save", "reread", "audit"}
     \/ v.kind = "remove" /\ l \in {"delete", "audit"}
     \/ v.kind = "employee" /\ l \in Calling \cup {"slug", "workflows"}
     \/ v.kind = "resume" /\ l \in {"field_read", "field_write"}
     \/ v.kind = "define" /\ l \in {"count", "insert", "audit"}
     \/ v.kind = "redefine" /\ l \in {"alter", "reread", "audit"}
     \/ v.kind = "drop" /\ l \in {"records", "drop", "audit"}
  /\ v.kind \notin {"none", "employee", "resume"} => v.e \in Entities
  /\ v.kind \in {"update", "move", "remove", "resume"} \/ Owner(l, v) => v.r \in Rows
  /\ v.kind \in {"define", "redefine"} => v.def.exists
  /\ l = "new_save" => v.into \in Entities

(* The lookup of d named a row of the related definition when it was tested. *)
Resolved(d, e, R) ==
  d.link # Null => /\ R[d.link].status \in Lasting
                   /\ R[d.link].entity = Related[e] \/ R[d.link].moved
OnRows(l, v, R) ==
  /\ v.kind \in {"update", "move", "remove"} => R[v.r].status \in Lasting
  /\ v.kind = "create" /\ l \notin Validating => /\ R[v.r].status \in Lasting
                                                 /\ R[v.r].born = v.e
  /\ v.kind = "employee" => R[v.r].status = "employee"
  /\ v.kind = "resume" => R[v.r].status \in Lasting \cup {"employee"}
  /\ v.kind = "remove" /\ l = "audit" => R[v.r].status = "gone"
  /\ l = "save" => Resolved(v.data, v.e, R)
  /\ l = "field_write" => R[v.r].status \in Lasting
  /\ l = "field_write" /\ R[v.r].status = "live" /\ ~v.raced =>
       v.data.link = R[v.r].data.link

(* The definition the handler loaded is an earlier one or the present one. *)
OnDefinition(l, v, E) ==
  /\ l \in Validating /\ v.kind # "move" =>
       /\ v.def.version <= E[v.e].version
       /\ v.def.version = E[v.e].version => /\ v.def.required = E[v.e].required
                                            /\ v.def.unique = E[v.e].unique
  /\ l \in {"link", "save"} /\ v.kind = "create" => AcceptedOnCreate(v.def, v.data.code)
  /\ l \in {"link", "save"} /\ v.kind = "update" => AcceptedOnUpdate(v.def, v.data.code)
  /\ l \in {"count", "insert"} => E[v.e].version = 0 /\ v.def.version = 1

(* The workflows of the new row that were called, and those that still are. *)
OnCalls(l, v, A, c) ==
  /\ l \in {"slug", "workflows"} => \A w \in Workflows : A[<<w, v.r>>] = 0
  /\ l \in Calling /\ v.kind # "resume" =>
       \A w \in v.todo : A[<<w, v.r>>] = 0 /\ v.e \in Linked[w]
  /\ l \in Calling /\ v.kind = "create" /\ c = 0 =>
       \A w \in Workflows : v.e \in Linked[w] => w \in v.todo \/ A[<<w, v.r>>] = 1
  /\ l = "audit" /\ v.kind = "create" /\ c = 0 =>
       \A w \in Workflows : v.e \in Linked[w] => A[<<w, v.r>>] = 1

(* Between its uniqueness test and its write, a request that no write has
   marked still finds no other holder of its value. *)
Unraced(l, v, R) ==
  l \in {"link", "save"} /\ ~v.raced /\ v.def.unique /\ ~Missing(v.data.code) =>
    \A s \in Rows : /\ R[s].status = "live" /\ R[s].entity = v.e
                    /\ Text(R[s].data.code) = Text(v.data.code)
                    => v.kind = "update" /\ s = v.r

Knows(l, v, E, R, A, c) ==
  Control(l, v) /\ OnRows(l, v, R) /\ OnDefinition(l, v, E) /\ OnCalls(l, v, A, c)
  /\ Unraced(l, v, R)

(* Two requests never own the same row or create the same definition. *)
Apart(l, v, l2, v2) ==
  /\ Owner(l, v) /\ Owner(l2, v2) => v.r # v2.r
  /\ v.kind = "define" /\ v2.kind = "define" => v.e # v2.e

-----------------------------------------------------------------------------
(* What holds of the tables. *)
Versions ==
  /\ \A e \in Entities : entity[e].exists => entity[e].version > 0
  /\ \A r \in Rows : row[r].status = "live" /\ row[r].tested =>
                      row[r].version <= entity[row[r].entity].version
RowsMatch ==
  \A r \in Rows : row[r].status = "live" =>
    /\ row[r].entity \in Entities
    /\ row[r].tested /\ ~row[r].crossed => Resolved(row[r].data, row[r].entity, row)
LoggedLast ==
  \A r \in Rows, n \in 0..MaxRequests : <<"created", r, n>> \in log => row[r].status \in Lasting
FreeUncalled == \A r \in Rows, w \in Workflows : row[r].status = "free" => attempts[<<w, r>>] = 0
AllActive == changes = 0 => active = Workflows

Definitions == OneDefinitionPerSlug /\ RecordsHaveDefinition /\ Versions
Contents == RowsMatch /\ StoredRecordsAreValid /\ DuplicateHasCause /\ LookupLossHasCause
Effects == TriggersOnce /\ FreeUncalled /\ LoggedLast

Informed == \A q \in Requests : Knows(pc[q], loc[q], entity, row, attempts, changes)
Disjoint == \A p, q \in Requests : p # q => Apart(pc[p], loc[p], pc[q], loc[q])

(* The types of everything but the log and the histories of it. *)
Typed ==
  /\ entity \in [Entities -> Definition]
  /\ row \in [Rows -> Row]
  /\ active \subseteq Workflows
  /\ attempts \in [Workflows \X Rows -> Nat]
  /\ pc \in [Requests -> Points] /\ loc \in [Requests -> Local]
  /\ started \in 0..MaxRequests /\ changes \in 0..MaxChanges

RecordsInv == /\ Typed /\ Definitions /\ Contents /\ Effects /\ AllActive
              /\ Informed /\ Disjoint

-----------------------------------------------------------------------------
(* How the tables and the locals of a waiting request may change under it. *)
Evolved(E, E2, R, R2) ==
  /\ \A e \in Entities :
       /\ E[e].version <= E2[e].version
       /\ E2[e].version = E[e].version => /\ E2[e].required = E[e].required
                                          /\ E2[e].unique = E[e].unique
  /\ \A r \in Rows :
       /\ R[r].status \in Lasting => /\ R2[r].status \in Lasting
                                     /\ R2[r].entity = R[r].entity \/ R2[r].moved
                                     /\ R[r].moved => R2[r].moved
                                     /\ R2[r].born = R[r].born
       /\ R[r].status = "gone" => R2[r].status = "gone"
       /\ R[r].status = "employee" => R2[r].status = "employee"
Alike(v, v2) ==
  /\ v2.kind = v.kind /\ v2.e = v.e /\ v2.r = v.r /\ v2.data = v.data
  /\ v2.def = v.def /\ v2.into = v.into /\ v2.todo = v.todo /\ v2.no = v.no
  /\ v.raced => v2.raced
NoNewHolder(R, R2) ==
  \A s \in Rows : R2[s].status = "live" => /\ R[s].status = "live"
                                           /\ R2[s].entity = R[s].entity
                                           /\ R2[s].data = R[s].data
(* What a waiting request tested or copied is still so, or it is marked. *)
Warned(l, v, v2, R, R2) ==
  \/ v2.raced
  \/ NoNewHolder(R, R2)
  \/ l \notin {"link", "save"} /\ (l = "field_write" => R2[v.r] = R[v.r])

(* A waiting request still knows what it knew after the step of another. *)
LEMMA KnowsStays ==
  ASSUME NEW l \in Points, NEW v \in Local, NEW v2 \in Local,
         NEW E \in [Entities -> Definition], NEW E2 \in [Entities -> Definition],
         NEW R \in [Rows -> Row], NEW R2 \in [Rows -> Row],
         NEW A, NEW A2, NEW c,
         Knows(l, v, E, R, A, c), Alike(v, v2), Evolved(E, E2, R, R2),
         l \in {"count", "insert"} => E2[v.e].version = E[v.e].version,
         Owner(l, v) => \A w \in Workflows : A2[<<w, v.r>>] = A[<<w, v.r>>],
         Warned(l, v, v2, R, R2)
  PROVE  Knows(l, v2, E2, R2, A2, c)
<1>1. Control(l, v2)
  BY DEF Knows, Control, Alike, Owner
<1>2. OnRows(l, v2, R2)
  <2>1. \A d, e : d.link \in Links /\ Resolved(d, e, R) => Resolved(d, e, R2)
    BY DEF Resolved, Evolved, Links
  <2>2. v.data.link \in Links /\ v2.data = v.data /\ v2.r = v.r /\ v2.e = v.e
        /\ v2.kind = v.kind /\ (v.raced => v2.raced)
    BY DEF Local, Data, Alike
  <2>3. v.kind \in {"update", "move", "remove", "resume", "employee"} => v.r \in Rows
    BY DEF Knows, Control, Owner
  <2>4. v.kind = "create" /\ l \notin Validating => v.r \in Rows
    BY DEF Knows, Control, Owner
  <2>5. l = "field_write" => v.r \in Rows
    BY <2>3, <2>4 DEF Knows, Control, Validating
  <2>6. OnRows(l, v, R) /\ Evolved(E, E2, R, R2)
    BY DEF Knows
  <2>7. l = "save" => Resolved(v2.data, v2.e, R2)
    BY <2>1, <2>2, <2>6 DEF OnRows
  <2>8. l = "field_write" => R2[v2.r].status \in Lasting
    BY <2>2, <2>5, <2>6 DEF OnRows, Evolved
  <2>9. l = "field_write" /\ R2[v2.r].status = "live" /\ ~v2.raced =>
          v2.data.link = R2[v2.r].data.link
    <3>1. SUFFICES ASSUME l = "field_write", R2[v.r].status = "live", ~v2.raced
                   PROVE  v.data.link = R2[v.r].data.link
      BY <2>2
    <3>2. R[v.r].status = "live" /\ R2[v.r].data = R[v.r].data
      BY <2>5, <3>1 DEF Warned, NoNewHolder
    <3>3. ~v.raced
      BY <2>2, <3>1
    <3> QED
      BY <2>6, <3>1, <3>2, <3>3 DEF OnRows
  <2> QED
    BY <2>2, <2>3, <2>4, <2>6, <2>7, <2>8, <2>9 DEF OnRows, Evolved, Lasting
<1>3. OnDefinition(l, v2, E2)
  <2>1. l \in Validating => v.e \in Entities /\ v.kind # "define"
    BY DEF Knows, Control, Validating, Calling
  <2>2. v.def.version \in Nat /\ v2.def = v.def /\ v2.e = v.e
        /\ v2.kind = v.kind /\ v2.data = v.data
    BY DEF Local, Definition, Alike
  <2>3. \A e \in Entities : E[e].version \in Nat /\ E2[e].version \in Nat
    BY DEF Definition
  <2>4. l \in {"count", "insert"} => v.kind = "define"
    BY DEF Knows, Control, Validating, Calling
  <2>5. l \in Validating /\ v.kind # "move" =>
          /\ v2.def.version <= E2[v2.e].version
          /\ v2.def.version = E2[v2.e].version => /\ v2.def.required = E2[v2.e].required
                                                  /\ v2.def.unique = E2[v2.e].unique
    <3>1. SUFFICES ASSUME l \in Validating, v.kind # "move"
                   PROVE  /\ v.def.version <= E2[v.e].version
                          /\ v.def.version = E2[v.e].version =>
                               /\ v.def.required = E2[v.e].required
                               /\ v.def.unique = E2[v.e].unique
      BY <2>2
    <3>2. /\ E[v.e].version <= E2[v.e].version
          /\ E2[v.e].version = E[v.e].version => /\ E2[v.e].required = E[v.e].required
                                                 /\ E2[v.e].unique = E[v.e].unique
      BY <2>1, <3>1 DEF Evolved
    <3>3. /\ v.def.version <= E[v.e].version
          /\ v.def.version = E[v.e].version => /\ v.def.required = E[v.e].required
                                               /\ v.def.unique = E[v.e].unique
      BY <3>1 DEF Knows, OnDefinition
    <3>4. E[v.e].version \in Nat /\ E2[v.e].version \in Nat
      BY <2>1, <2>3, <3>1
    <3> QED
      BY <2>2, <3>2, <3>3, <3>4
  <2> QED
    BY <2>2, <2>4, <2>5 DEF Knows, OnDefinition
<1>4. OnCalls(l, v2, A2, c)
  <2>1. l \in {"slug", "workflows"} => Owner(l, v)
    BY DEF Knows, Control, Owner, Validating, Calling
  <2>2. l \in Calling /\ v.kind # "resume" => Owner(l, v)
    BY DEF Knows, Control, Owner, Validating, Calling
  <2>3. l = "audit" /\ v.kind = "create" => Owner(l, v)
    BY DEF Owner, Validating
  <2>4. v.todo \subseteq Workflows
    BY DEF Local
  <2> QED
    BY <2>1, <2>2, <2>3, <2>4 DEF Knows, OnCalls, Alike
<1>5. Unraced(l, v2, R2)
  BY DEF Knows, Unraced, Alike, NoNewHolder, Warned
<1> QED
  BY <1>1, <1>2, <1>3, <1>4, <1>5 DEF Knows

-----------------------------------------------------------------------------
(* A step of p preserves the invariant when the tables it leaves are right, the
   other requests are at most marked, and p knows what its new point asks for. *)
Aside(p) ==
  \A q \in Requests \ {p} :
    /\ pc'[q] = pc[q] /\ Alike(loc[q], loc'[q])
    /\ pc[q] \in {"count", "insert"} => entity'[loc[q].e].version = entity[loc[q].e].version
    /\ Owner(pc[q], loc[q]) => \A w \in Workflows :
                                 attempts'[<<w, loc[q].r>>] = attempts[<<w, loc[q].r>>]
    /\ Warned(pc[q], loc[q], loc'[q], row, row')

LEMMA StepOfOne ==
  ASSUME RecordsInv, NEW p \in Requests,
         Typed', Definitions', Contents', Effects', AllActive', changes' = changes,
         Evolved(entity, entity', row, row'), Aside(p),
         Knows(pc'[p], loc'[p], entity', row', attempts', changes'),
         \A q \in Requests \ {p} : Apart(pc'[p], loc'[p], pc[q], loc[q])
  PROVE  RecordsInv'
<1>1. ASSUME NEW q \in Requests \ {p}
      PROVE  Knows(pc'[q], loc'[q], entity', row', attempts', changes')
  <2>1. pc[q] \in Points /\ loc[q] \in Local /\ loc'[q] \in Local
    BY DEF RecordsInv, Typed
  <2>2. /\ entity \in [Entities -> Definition] /\ entity' \in [Entities -> Definition]
        /\ row \in [Rows -> Row] /\ row' \in [Rows -> Row]
    BY DEF RecordsInv, Typed
  <2>3. Knows(pc[q], loc[q], entity, row, attempts, changes)
    BY DEF RecordsInv, Informed
  <2>4. /\ Alike(loc[q], loc'[q])
        /\ pc[q] \in {"count", "insert"} => entity'[loc[q].e].version = entity[loc[q].e].version
        /\ Owner(pc[q], loc[q]) => \A w \in Workflows :
                                 attempts'[<<w, loc[q].r>>] = attempts[<<w, loc[q].r>>]
        /\ Warned(pc[q], loc[q], loc'[q], row, row')
    BY DEF Aside
  <2>5. Knows(pc[q], loc'[q], entity', row', attempts', changes)
    BY <2>1, <2>2, <2>3, <2>4, KnowsStays
  <2> QED
    BY <2>5 DEF Aside
<1>2. Informed'
  BY <1>1 DEF Informed
<1>3. Disjoint'
  <2>1. ASSUME NEW q \in Requests, NEW q2 \in Requests, q # q2
        PROVE  Apart(pc'[q], loc'[q], pc'[q2], loc'[q2])
    <3>1. \A x \in Requests \ {p} : /\ pc'[x] = pc[x] /\ loc'[x].kind = loc[x].kind
                                    /\ loc'[x].r = loc[x].r /\ loc'[x].e = loc[x].e
      BY DEF Aside, Alike
    <3>2. CASE q # p /\ q2 # p
      <4>1. Apart(pc[q], loc[q], pc[q2], loc[q2])
        BY <2>1 DEF RecordsInv, Disjoint
      <4> QED
        BY <3>1, <3>2, <4>1 DEF Apart, Owner
    <3>3. CASE q = p
      BY <2>1, <3>1, <3>3 DEF Apart, Owner
    <3>4. CASE q2 = p
      BY <2>1, <3>1, <3>4 DEF Apart, Owner
    <3> QED
      BY <3>2, <3>3, <3>4
  <2> QED
    BY <2>1 DEF Disjoint
<1> QED
  BY <1>2, <1>3 DEF RecordsInv

(* A step that reads: the tables stay, and p keeps the row it owns. *)
LEMMA QuietStep ==
  ASSUME RecordsInv, NEW p \in Requests, NEW l \in Points, NEW v \in Local,
         UNCHANGED tables, UNCHANGED others, started' \in 0..MaxRequests,
         pc' = [pc EXCEPT ![p] = l],
         loc' = [loc EXCEPT ![p] = v],
         Knows(l, v, entity, row, attempts, changes),
         Owner(l, v) => Owner(pc[p], loc[p]) /\ v.r = loc[p].r,
         v.kind = "define" =>
           \/ loc[p].kind = "define" /\ v.e = loc[p].e
           \/ \A q \in Requests \ {p} : loc[q].kind # "define" \/ loc[q].e # v.e
  PROVE  RecordsInv'
<1>1. /\ entity' = entity /\ row' = row /\ log' = log /\ attempts' = attempts
      /\ active' = active /\ changes' = changes
  BY DEF tables, others
<1>2. Typed'
  BY <1>1 DEF RecordsInv, Typed
<1>3. Definitions' /\ Contents' /\ Effects' /\ AllActive'
  BY <1>1 DEF RecordsInv, Definitions, Contents, Effects, AllActive, OneDefinitionPerSlug,
     RecordsHaveDefinition, Versions, RowsMatch, StoredRecordsAreValid, DuplicateHasCause,
     LookupLossHasCause, TriggersOnce, FreeUncalled, LoggedLast, Existing, RowsOf
<1>4. Evolved(entity, entity', row, row') /\ NoNewHolder(row, row')
  <2>1. \A e \in Entities : entity[e].version <= entity[e].version
    BY DEF RecordsInv, Typed, Definition
  <2> QED
    BY <1>1, <2>1 DEF Evolved, NoNewHolder
<1>5. pc'[p] = l /\ loc'[p] = v
  BY DEF RecordsInv, Typed
<1>6. Aside(p)
  BY <1>1, <1>4 DEF Aside, Alike, Warned, RecordsInv, Typed
<1>7. \A q \in Requests \ {p} : Apart(l, v, pc[q], loc[q])
  <2>1. \A q \in Requests \ {p} : Apart(pc[p], loc[p], pc[q], loc[q])
    BY DEF RecordsInv, Disjoint
  <2> QED
    BY <2>1 DEF Apart
<1> QED
  BY <1>1, <1>2, <1>3, <1>4, <1>5, <1>6, <1>7, StepOfOne

(* The same for a step that only moves p on. *)
LEMMA QuietMove ==
  ASSUME RecordsInv, NEW p \in Requests, NEW l \in Points,
         UNCHANGED tables, UNCHANGED others, started' = started,
         Goto(p, l), UNCHANGED loc,
         Knows(l, loc[p], entity, row, attempts, changes),
         Owner(l, loc[p]) => Owner(pc[p], loc[p])
  PROVE  RecordsInv'
<1>1. loc[p] \in Local /\ loc' = [loc EXCEPT ![p] = loc[p]]
      /\ started' \in 0..MaxRequests /\ pc' = [pc EXCEPT ![p] = l]
  BY DEF RecordsInv, Typed, Goto
<1> QED
  BY <1>1, QuietStep

LEMMA NoLocalTyped == NoLocal \in Local /\ NoData \in Data /\ NoDefinition \in Definition
BY RecordsAssumption
   DEF NoLocal, Local, NoData, NoDefinition, Data, Codes, Links, Definition, Kinds

LEMMA QuietEnd ==
  ASSUME RecordsInv, NEW p \in Requests, UNCHANGED tables, UNCHANGED others,
         started' = started, End(p)
  PROVE  RecordsInv'
<1>1. Knows("idle", NoLocal, entity, row, attempts, changes)
  BY DEF Knows, Control, OnRows, OnDefinition, OnCalls, Unraced, Owner, NoLocal,
     Validating, Calling
<1>2. "idle" \in Points /\ ~Owner("idle", NoLocal) /\ NoLocal.kind # "define"
  BY DEF Points, Owner, NoLocal
<1>3. started' \in 0..MaxRequests
  BY DEF RecordsInv, Typed
<1> QED
  BY <1>1, <1>2, <1>3, NoLocalTyped, QuietStep DEF End, Goto

-----------------------------------------------------------------------------
(* The steps that only read. *)
LEMMA TypedFacts ==
  ASSUME RecordsInv, NEW p \in Requests
  PROVE  /\ pc[p] \in Points /\ loc[p] \in Local
         /\ Knows(pc[p], loc[p], entity, row, attempts, changes)
         /\ \A e \in Entities : entity[e] \in Definition
         /\ \A r \in Rows : row[r] \in Row
BY DEF RecordsInv, Typed, Informed

LEMMA CheckCodeKeeps ==
  ASSUME RecordsInv, NEW p \in Requests, CheckCode(p)  PROVE  RecordsInv'
<1> DEFINE v == loc[p]
<1>1. CASE ~CodePasses(v)
  BY <1>1, QuietEnd DEF CheckCode, Continue
<1>2. CASE CodePasses(v)
  <2>1. /\ pc[p] = "code" /\ v \in Local /\ Goto(p, "link") /\ UNCHANGED loc
        /\ UNCHANGED tables /\ Continue
        /\ Knows("code", v, entity, row, attempts, changes)
    BY <1>2, TypedFacts DEF CheckCode
  <2>2. v.kind \in {"create", "update"}
    BY <2>1 DEF Knows, Control, Validating, Calling
  <2>3. Control("link", v) /\ OnRows("link", v, row) /\ OnCalls("link", v, attempts, changes)
    BY <2>1, <2>2 DEF Knows, Control, OnRows, OnCalls, Validating, Calling, Owner
  <2>4. OnDefinition("link", v, entity)
    BY <1>2, <2>1, <2>2 DEF Knows, OnDefinition, CodePasses, Validating
  <2>5. Unraced("link", v, row)
    BY <1>2, <2>2 DEF Unraced, CodePasses, ComparedOnCreate, ComparedOnUpdate, Missing,
       Holders
  <2>6. "link" \in Points /\ ~Owner("link", v)
    BY <2>2 DEF Points, Owner, Validating
  <2> QED
    BY <2>1, <2>3, <2>4, <2>5, <2>6, QuietMove DEF Knows, Continue
<1> QED
  BY <1>1, <1>2

LEMMA CheckLinkKeeps ==
  ASSUME RecordsInv, NEW p \in Requests, CheckLink(p)  PROVE  RecordsInv'
<1> DEFINE v == loc[p]
           found == v.data.link = Null \/ LinkResolves(v.e, v.data.link)
<1>1. CASE ~found
  BY <1>1, QuietEnd DEF CheckLink, Continue
<1>2. CASE found
  <2>1. /\ pc[p] = "link" /\ v \in Local /\ Goto(p, "save") /\ UNCHANGED loc
        /\ UNCHANGED tables /\ Continue
        /\ Knows("link", v, entity, row, attempts, changes)
    BY <1>2, TypedFacts DEF CheckLink
  <2>2. v.kind \in {"create", "update"}
    BY <2>1 DEF Knows, Control, Validating, Calling
  <2>3. Resolved(v.data, v.e, row)
    BY <1>2 DEF Resolved, LinkResolves, Lasting
  <2>4. Control("save", v) /\ OnRows("save", v, row) /\ OnCalls("save", v, attempts, changes)
    BY <2>1, <2>2, <2>3 DEF Knows, Control, OnRows, OnCalls, Validating, Calling, Owner
  <2>5. OnDefinition("save", v, entity) /\ Unraced("save", v, row)
    BY <2>1, <2>2 DEF Knows, OnDefinition, Unraced, Validating
  <2>6. "save" \in Points /\ ~Owner("save", v)
    BY <2>2 DEF Points, Owner, Validating
  <2> QED
    BY <2>1, <2>4, <2>5, <2>6, QuietMove DEF Knows, Continue
<1> QED
  BY <1>1, <1>2

LEMMA RereadKeeps ==
  ASSUME RecordsInv, NEW p \in Requests, Reread(p)  PROVE  RecordsInv'
<1> DEFINE v == loc[p]
<1>1. CASE ~Found(v)
  BY <1>1, QuietEnd DEF Reread, Continue
<1>2. CASE Found(v)
  <2>1. /\ pc[p] = "reread" /\ v \in Local /\ Goto(p, "audit") /\ UNCHANGED loc
        /\ UNCHANGED tables /\ Continue
        /\ Knows("reread", v, entity, row, attempts, changes)
    BY <1>2, TypedFacts DEF Reread
  <2>2. v.kind \in {"update", "move", "redefine"}
    BY <2>1 DEF Knows, Control, Validating, Calling
  <2>3. Knows("audit", v, entity, row, attempts, changes)
    BY <2>1, <2>2 DEF Knows, Control, OnRows, OnDefinition, OnCalls, Unraced, Validating,
       Calling, Owner
  <2>4. "audit" \in Points /\ ~Owner("audit", v)
    BY <2>2 DEF Points, Owner
  <2> QED
    BY <2>1, <2>3, <2>4, QuietMove DEF Continue
<1> QED
  BY <1>1, <1>2

LEMMA FindBySlugKeeps ==
  ASSUME RecordsInv, NEW p \in Requests, FindBySlug(p)  PROVE  RecordsInv'
<1>1. CASE (\A e \in Existing : entity[e].slug # "employee") /\ End(p)
  BY <1>1, QuietEnd DEF FindBySlug, Continue
<1>2. ASSUME NEW e \in Existing,
             Keep(p, [loc[p] EXCEPT !.e = e]), Goto(p, "workflows")
      PROVE  RecordsInv'
  <2> DEFINE v == [loc[p] EXCEPT !.e = e]
  <2>1. /\ pc[p] = "slug" /\ loc[p] \in Local /\ e \in Entities
        /\ UNCHANGED tables /\ Continue
        /\ Knows("slug", loc[p], entity, row, attempts, changes)
    BY TypedFacts DEF FindBySlug, Existing
  <2>2. loc[p].kind = "employee"
    BY <2>1 DEF Knows, Control, Validating, Calling
  <2>3. v \in Local /\ v.kind = "employee" /\ v.e = e /\ v.r = loc[p].r
    BY <2>1, <2>2 DEF Local
  <2>4. Knows("workflows", v, entity, row, attempts, changes)
    BY <2>1, <2>2, <2>3 DEF Knows, Control, OnRows, OnDefinition, OnCalls, Unraced,
       Validating, Calling, Owner
  <2>5. "workflows" \in Points /\ Owner(pc[p], loc[p])
    BY <2>2 DEF Points, Owner
  <2>6. started' \in 0..MaxRequests /\ UNCHANGED others
    BY <2>1 DEF Continue, RecordsInv, Typed
  <2> HIDE DEF v
  <2> QED
    BY <1>2, <2>1, <2>3, <2>4, <2>5, <2>6, QuietStep DEF Keep, Goto, v
<1> QED
  BY <1>1, <1>2 DEF FindBySlug

LEMMA FindWorkflowsKeeps ==
  ASSUME RecordsInv, NEW p \in Requests, FindWorkflows(p)  PROVE  RecordsInv'
<1> DEFINE u == loc[p]
           v == [u EXCEPT !.todo = {w \in active : u.e \in Linked[w]}]
<1>1. /\ pc[p] = "workflows" /\ u \in Local
      /\ UNCHANGED tables /\ Continue /\ Keep(p, v) /\ Goto(p, "run")
      /\ Knows("workflows", u, entity, row, attempts, changes)
  BY TypedFacts DEF FindWorkflows
<1>2. u.kind \in {"create", "employee"}
  BY <1>1 DEF Knows, Control, Validating, Calling
<1>3. active \subseteq Workflows /\ (changes = 0 => active = Workflows)
  BY DEF RecordsInv, Typed, AllActive
<1>4. /\ v \in Local /\ v.kind = u.kind /\ v.e = u.e /\ v.r = u.r
      /\ v.todo = {w \in active : u.e \in Linked[w]}
  BY <1>1, <1>3 DEF Local
<1> HIDE DEF v
<1>5. Control("run", v) /\ OnRows("run", v, row)
  BY <1>1, <1>2, <1>4 DEF Knows, Control, OnRows, Validating, Calling, Owner
<1>6. OnDefinition("run", v, entity) /\ Unraced("run", v, row)
  BY DEF OnDefinition, Unraced, Validating
<1>7. OnCalls("run", v, attempts, changes)
  BY <1>1, <1>2, <1>3, <1>4 DEF Knows, OnCalls, Calling
<1>8. "run" \in Points /\ Owner("workflows", u) /\ v.kind # "define"
  BY <1>2, <1>4 DEF Points, Owner, Validating
<1>9. started' \in 0..MaxRequests /\ UNCHANGED others
  BY <1>1 DEF Continue, RecordsInv, Typed
<1> QED
  BY <1>1, <1>4, <1>5, <1>6, <1>7, <1>8, <1>9, QuietStep DEF Knows, Keep, Goto

LEMMA TriggersDoneKeeps ==
  ASSUME RecordsInv, NEW p \in Requests, TriggersDone(p)  PROVE  RecordsInv'
<1> DEFINE v == loc[p]
<1>1. CASE v.kind # "create"
  BY <1>1, QuietEnd DEF TriggersDone, Continue
<1>2. CASE v.kind = "create"
  <2>1. /\ pc[p] = "run" /\ v \in Local /\ Goto(p, "audit") /\ UNCHANGED loc
        /\ UNCHANGED tables /\ Continue /\ v.todo = {}
        /\ Knows("run", v, entity, row, attempts, changes)
    BY <1>2, TypedFacts DEF TriggersDone
  <2>2. Knows("audit", v, entity, row, attempts, changes)
    BY <1>2, <2>1 DEF Knows, Control, OnRows, OnDefinition, OnCalls, Unraced, Validating,
       Calling, Owner
  <2>3. "audit" \in Points /\ Owner("run", v)
    BY <1>2 DEF Points, Owner, Validating
  <2> QED
    BY <2>1, <2>2, <2>3, QuietMove DEF Continue
<1> QED
  BY <1>1, <1>2

(* What runAutomationStep goes on to after its action. *)
LEMMA AfterActionKeeps ==
  ASSUME RecordsInv, NEW p \in Requests, AfterAction(p), UNCHANGED tables, Continue,
         pc[p] \in {"field_read", "field_write", "new_find", "new_save"}
  PROVE  RecordsInv'
<1> DEFINE v == loc[p]
<1>1. CASE v.kind = "resume"
  BY <1>1, QuietEnd DEF AfterAction, Continue
<1>2. CASE v.kind # "resume"
  <2>1. /\ v \in Local /\ Goto(p, "run") /\ UNCHANGED loc
        /\ Knows(pc[p], v, entity, row, attempts, changes)
    BY <1>2, TypedFacts DEF AfterAction
  <2>2. v.kind \in {"create", "employee"} /\ pc[p] \in Calling
    BY <1>2, <2>1 DEF Knows, Control, Validating, Calling
  <2>3. Control("run", v) /\ OnRows("run", v, row)
    BY <2>1, <2>2 DEF Knows, Control, OnRows, Validating, Calling, Owner
  <2>4. OnDefinition("run", v, entity) /\ Unraced("run", v, row)
    BY DEF OnDefinition, Unraced, Validating
  <2>5. OnCalls("run", v, attempts, changes)
    BY <2>1, <2>2 DEF Knows, OnCalls, Calling
  <2>6. "run" \in Points /\ Owner(pc[p], v)
    BY <2>2 DEF Points, Owner, Validating, Calling
  <2> QED
    BY <2>1, <2>3, <2>4, <2>5, <2>6, QuietMove DEF Knows, Continue
<1> QED
  BY <1>1, <1>2

LEMMA ReadFieldKeeps ==
  ASSUME RecordsInv, NEW p \in Requests, ReadField(p)  PROVE  RecordsInv'
<1> DEFINE u == loc[p]
<1>1. CASE row[u.r].status # "live"
  BY <1>1, AfterActionKeeps DEF ReadField
<1>2. CASE row[u.r].status = "live"
  <2> DEFINE v == [u EXCEPT !.data = row[u.r].data, !.raced = FALSE]
  <2>1. /\ pc[p] = "field_read" /\ u \in Local
        /\ UNCHANGED tables /\ Continue /\ Keep(p, v) /\ Goto(p, "field_write")
        /\ Knows("field_read", u, entity, row, attempts, changes)
    BY <1>2, TypedFacts DEF ReadField
  <2>2. u.kind \in {"create", "employee", "resume"}
    BY <2>1 DEF Knows, Control, Validating, Calling
  <2>3. u.r \in Rows
    BY <2>1, <2>2 DEF Knows, Control, Owner, Validating
  <2>4. row[u.r] \in Row
    BY <2>3, TypedFacts
  <2>5. /\ v \in Local /\ v.kind = u.kind /\ v.e = u.e /\ v.r = u.r /\ v.todo = u.todo
        /\ v.data = row[u.r].data
    BY <2>1, <2>4 DEF Local, Row
  <2> HIDE DEF v
  <2>6. Control("field_write", v)
    BY <2>1, <2>2, <2>5 DEF Knows, Control, Validating, Calling, Owner
  <2>7. OnRows("field_write", v, row)
    BY <1>2, <2>1, <2>2, <2>5 DEF Knows, OnRows, Validating, Lasting
  <2>8. OnDefinition("field_write", v, entity) /\ Unraced("field_write", v, row)
    BY DEF OnDefinition, Unraced, Validating
  <2>9. OnCalls("field_write", v, attempts, changes)
    BY <2>1, <2>2, <2>5 DEF Knows, OnCalls, Calling
  <2>10. "field_write" \in Points /\ (Owner("field_write", v) => Owner("field_read", u))
    BY <2>5 DEF Points, Owner, Validating
  <2>11. started' \in 0..MaxRequests /\ UNCHANGED others /\ v.kind # "define"
    BY <2>1, <2>2, <2>5 DEF Continue, RecordsInv, Typed
  <2> QED
    BY <2>1, <2>5, <2>6, <2>7, <2>8, <2>9, <2>10, <2>11, QuietStep DEF Knows, Keep, Goto
<1> QED
  BY <1>1, <1>2

LEMMA FindCreatedKeeps ==
  ASSUME RecordsInv, NEW p \in Requests, FindCreated(p)  PROVE  RecordsInv'
<1> DEFINE u == loc[p]
<1>1. CASE (\A e \in Existing : entity[e].slug # CreatedSlug) /\ AfterAction(p)
  BY <1>1, AfterActionKeeps DEF FindCreated
<1>2. ASSUME NEW e \in Existing, Keep(p, [u EXCEPT !.into = e]), Goto(p, "new_save")
      PROVE  RecordsInv'
  <2> DEFINE v == [u EXCEPT !.into = e]
  <2>1. /\ pc[p] = "new_find" /\ u \in Local /\ e \in Entities
        /\ UNCHANGED tables /\ Continue
        /\ Knows("new_find", u, entity, row, attempts, changes)
    BY TypedFacts DEF FindCreated, Existing
  <2>2. u.kind \in {"create", "employee"}
    BY <2>1 DEF Knows, Control, Validating, Calling
  <2>3. /\ v \in Local /\ v.kind = u.kind /\ v.e = u.e /\ v.r = u.r /\ v.todo = u.todo
        /\ v.data = u.data /\ v.into = e
    BY <2>1 DEF Local
  <2>4. Keep(p, v)
    BY <1>2
  <2> HIDE DEF v
  <2>5. Control("new_save", v) /\ OnRows("new_save", v, row)
    BY <2>1, <2>2, <2>3 DEF Knows, Control, OnRows, Validating, Calling, Owner
  <2>6. OnDefinition("new_save", v, entity) /\ Unraced("new_save", v, row)
    BY DEF OnDefinition, Unraced, Validating
  <2>7. OnCalls("new_save", v, attempts, changes)
    BY <2>1, <2>2, <2>3 DEF Knows, OnCalls, Calling
  <2>8. "new_save" \in Points /\ Owner("new_find", u) /\ v.kind # "define"
    BY <2>2, <2>3 DEF Points, Owner, Validating
  <2>9. started' \in 0..MaxRequests /\ UNCHANGED others
    BY <2>1 DEF Continue, RecordsInv, Typed
  <2> QED
    BY <1>2, <2>1, <2>3, <2>4, <2>5, <2>6, <2>7, <2>8, <2>9, QuietStep DEF Knows, Keep, Goto
<1> QED
  BY <1>1, <1>2 DEF FindCreated

LEMMA CheckLimitKeeps ==
  ASSUME RecordsInv, NEW p \in Requests, CheckLimit(p)  PROVE  RecordsInv'
<1> DEFINE v == loc[p]
<1>1. CASE End(p)
  BY <1>1, QuietEnd DEF CheckLimit, Continue
<1>2. CASE Goto(p, "insert") /\ UNCHANGED loc
  <2>1. /\ pc[p] = "count" /\ UNCHANGED tables /\ Continue
        /\ Knows("count", v, entity, row, attempts, changes)
    BY TypedFacts DEF CheckLimit
  <2>2. v.kind = "define"
    BY <2>1 DEF Knows, Control, Validating, Calling
  <2>3. Knows("insert", v, entity, row, attempts, changes)
    BY <2>1, <2>2 DEF Knows, Control, OnRows, OnDefinition, OnCalls, Unraced, Validating,
       Calling, Owner
  <2>4. "insert" \in Points /\ ~Owner("insert", v)
    BY <2>2 DEF Points, Owner
  <2> QED
    BY <1>2, <2>1, <2>3, <2>4, QuietMove DEF Continue
<1> QED
  BY <1>1, <1>2 DEF CheckLimit

LEMMA CountRecordsKeeps ==
  ASSUME RecordsInv, NEW p \in Requests, CountRecords(p)  PROVE  RecordsInv'
<1> DEFINE v == loc[p]
<1>1. CASE End(p)
  BY <1>1, QuietEnd DEF CountRecords, Continue
<1>2. CASE Goto(p, "drop") /\ UNCHANGED loc
  <2>1. /\ pc[p] = "records" /\ UNCHANGED tables /\ Continue
        /\ Knows("records", v, entity, row, attempts, changes)
    BY TypedFacts DEF CountRecords
  <2>2. v.kind = "drop"
    BY <2>1 DEF Knows, Control, Validating, Calling
  <2>3. Knows("drop", v, entity, row, attempts, changes)
    BY <2>1, <2>2 DEF Knows, Control, OnRows, OnDefinition, OnCalls, Unraced, Validating,
       Calling, Owner
  <2>4. "drop" \in Points /\ ~Owner("drop", v)
    BY <2>2 DEF Points, Owner
  <2> QED
    BY <1>2, <2>1, <2>3, <2>4, QuietMove DEF Continue
<1> QED
  BY <1>1, <1>2 DEF CountRecords

-----------------------------------------------------------------------------
(* The requests that arrive. *)
LEMMA ArriveKeeps ==
  ASSUME RecordsInv, NEW p \in Requests, NEW l \in Points, NEW v \in Local,
         Arrive(p, v, l), Knows(l, v, entity, row, attempts, changes), ~Owner(l, v),
         v.kind = "define" =>
           \A q \in Requests \ {p} : loc[q].kind # "define" \/ loc[q].e # v.e
  PROVE  RecordsInv'
<1> DEFINE w == [v EXCEPT !.no = started']
<1>1. started' \in 0..MaxRequests
  BY RecordsAssumption DEF Arrive, RecordsInv, Typed
<1>2. /\ w \in Local /\ w.kind = v.kind /\ w.e = v.e /\ w.r = v.r /\ w.data = v.data
      /\ w.def = v.def /\ w.into = v.into /\ w.raced = v.raced /\ w.todo = v.todo
  BY <1>1 DEF Local
<1>3. Keep(p, w)
  BY DEF Arrive
<1> HIDE DEF w
<1>4. Knows(l, w, entity, row, attempts, changes) /\ ~Owner(l, w)
  <2>1. Control(l, w) /\ OnRows(l, w, row) /\ ~Owner(l, w)
    BY <1>2 DEF Knows, Control, OnRows, Owner
  <2>2. OnDefinition(l, w, entity) /\ OnCalls(l, w, attempts, changes) /\ Unraced(l, w, row)
    BY <1>2 DEF Knows, OnDefinition, OnCalls, Unraced
  <2> QED
    BY <2>1, <2>2 DEF Knows
<1>5. /\ UNCHANGED tables /\ UNCHANGED others /\ pc' = [pc EXCEPT ![p] = l]
      /\ loc' = [loc EXCEPT ![p] = w]
  BY <1>3 DEF Arrive, Keep, Goto
<1>6. w \in Local /\ (w.kind = "define" =>
        \A q \in Requests \ {p} : loc[q].kind # "define" \/ loc[q].e # w.e)
  BY <1>2
<1> QED
  BY <1>1, <1>4, <1>5, <1>6, QuietStep

LEMMA BeginCreateKeeps ==
  ASSUME RecordsInv, NEW p \in Requests, BeginCreate(p)  PROVE  RecordsInv'
<1>1. PICK e \in Existing, d \in Known :
        Arrive(p, [NoLocal EXCEPT !.kind = "create", !.e = e, !.data = d,
                                  !.def = entity[e]], "code")
  BY DEF BeginCreate
<1> DEFINE v == [NoLocal EXCEPT !.kind = "create", !.e = e, !.data = d, !.def = entity[e]]
<1>2. e \in Entities /\ d \in Data /\ entity[e] \in Definition
  BY RecordsAssumption, TypedFacts DEF Existing, Known, Data
<1>3. v \in Local /\ v.kind = "create" /\ v.e = e /\ v.def = entity[e]
  BY <1>2, NoLocalTyped DEF Local, Kinds, NoLocal
<1>4. Arrive(p, v, "code")
  BY <1>1
<1> HIDE DEF v
<1>5. Knows("code", v, entity, row, attempts, changes)
  BY <1>2, <1>3 DEF Knows, Control, OnRows, OnDefinition, OnCalls, Unraced, Validating,
     Calling, Owner, Definition
<1>6. "code" \in Points /\ ~Owner("code", v) /\ v.kind # "define"
  BY <1>3 DEF Points, Owner, Validating
<1> QED
  BY <1>3, <1>4, <1>5, <1>6, ArriveKeeps

LEMMA BeginUpdateKeeps ==
  ASSUME RecordsInv, NEW p \in Requests, BeginUpdate(p)  PROVE  RecordsInv'
<1>1. PICK r \in Rows, d \in Known, into \in Existing \cup {Null} :
        /\ row[r].status = "live" /\ entity[row[r].entity].exists
        /\ Arrive(p, [NoLocal EXCEPT !.kind = "update", !.e = row[r].entity, !.r = r,
                                     !.data = d, !.def = entity[row[r].entity],
                                     !.into = into], "code")
  BY DEF BeginUpdate
<1> DEFINE e == row[r].entity
           v == [NoLocal EXCEPT !.kind = "update", !.e = e, !.r = r, !.data = d,
                                !.def = entity[e], !.into = into]
<1>2. e \in Entities /\ d \in Data /\ r \in Links /\ into \in Entities \cup {Null}
  BY <1>1, RecordsAssumption
     DEF Known, Data, Links, Existing, RecordsInv, Contents, RowsMatch
<1>3. entity[e] \in Definition
  BY <1>2, TypedFacts
<1>4. v \in Local /\ v.kind = "update" /\ v.e = e /\ v.r = r /\ v.def = entity[e]
  BY <1>2, <1>3, NoLocalTyped DEF Local, Kinds, NoLocal
<1>5. Arrive(p, v, "code")
  BY <1>1
<1> HIDE DEF v
<1>6. Knows("code", v, entity, row, attempts, changes)
  BY <1>1, <1>2, <1>3, <1>4 DEF Knows, Control, OnRows, OnDefinition, OnCalls, Unraced,
     Validating, Calling, Owner, Definition, Lasting
<1>7. "code" \in Points /\ ~Owner("code", v) /\ v.kind # "define"
  BY <1>4 DEF Points, Owner, Validating
<1> QED
  BY <1>4, <1>5, <1>6, <1>7, ArriveKeeps

LEMMA BeginMoveKeeps ==
  ASSUME RecordsInv, NEW p \in Requests, BeginMove(p)  PROVE  RecordsInv'
<1>1. PICK r \in Rows, into \in Existing :
        /\ row[r].status = "live" /\ entity[row[r].entity].exists
        /\ Arrive(p, [NoLocal EXCEPT !.kind = "move", !.e = row[r].entity, !.r = r,
                                     !.into = into], "save")
  BY DEF BeginMove
<1> DEFINE e == row[r].entity
           v == [NoLocal EXCEPT !.kind = "move", !.e = e, !.r = r, !.into = into]
<1>2. e \in Entities /\ r \in Links /\ into \in Entities
  BY <1>1 DEF Links, Existing, RecordsInv, Contents, RowsMatch
<1>3. /\ v \in Local /\ v.kind = "move" /\ v.e = e /\ v.r = r /\ v.into = into
      /\ v.data.link = Null /\ ~v.def.unique
  BY <1>2, NoLocalTyped DEF Local, Kinds, NoLocal, NoData, NoDefinition
<1>4. Arrive(p, v, "save")
  BY <1>1
<1> HIDE DEF v
<1>5. OnRows("save", v, row)
  BY <1>1, <1>3 DEF OnRows, Lasting, Resolved
<1>6. Knows("save", v, entity, row, attempts, changes)
  BY <1>1, <1>2, <1>3, <1>5 DEF Knows, Control, OnDefinition, OnCalls, Unraced,
     Validating, Calling, Owner
<1>7. "save" \in Points /\ ~Owner("save", v) /\ v.kind # "define"
  BY <1>3 DEF Points, Owner, Validating
<1> QED
  BY <1>3, <1>4, <1>6, <1>7, ArriveKeeps

LEMMA BeginRemoveKeeps ==
  ASSUME RecordsInv, NEW p \in Requests, BeginRemove(p)  PROVE  RecordsInv'
<1>1. PICK r \in Rows :
        /\ row[r].status = "live" /\ entity[row[r].entity].exists
        /\ Arrive(p, [NoLocal EXCEPT !.kind = "remove", !.e = row[r].entity, !.r = r],
                  "delete")
  BY DEF BeginRemove
<1> DEFINE v == [NoLocal EXCEPT !.kind = "remove", !.e = row[r].entity, !.r = r]
<1>2. row[r].entity \in Entities /\ r \in Links
  BY <1>1 DEF Links, RecordsInv, Contents, RowsMatch
<1>3. v \in Local /\ v.kind = "remove" /\ v.e = row[r].entity /\ v.r = r
  BY <1>2, NoLocalTyped DEF Local, Kinds, NoLocal
<1>4. Arrive(p, v, "delete")
  BY <1>1
<1> HIDE DEF v
<1>5. Knows("delete", v, entity, row, attempts, changes)
  BY <1>1, <1>2, <1>3 DEF Knows, Control, OnRows, OnDefinition, OnCalls, Unraced,
     Validating, Calling, Owner, Lasting
<1>6. "delete" \in Points /\ ~Owner("delete", v) /\ v.kind # "define"
  BY <1>3 DEF Points, Owner
<1> QED
  BY <1>3, <1>4, <1>5, <1>6, ArriveKeeps

LEMMA BeginResumeKeeps ==
  ASSUME RecordsInv, NEW p \in Requests, BeginResume(p)  PROVE  RecordsInv'
<1>1. PICK r \in Rows, w \in Workflows :
        /\ attempts[<<w, r>>] > 0
        /\ Arrive(p, [NoLocal EXCEPT !.kind = "resume", !.r = r], "field_read")
  BY DEF BeginResume
<1> DEFINE v == [NoLocal EXCEPT !.kind = "resume", !.r = r]
<1>2. row[r].status \in Lasting \cup {"employee"}
  BY <1>1, TypedFacts DEF RecordsInv, Effects, FreeUncalled, Row, Lasting
<1>3. v \in Local /\ v.kind = "resume" /\ v.r = r
  BY NoLocalTyped DEF Local, Kinds, NoLocal, Links
<1>4. Arrive(p, v, "field_read")
  BY <1>1
<1> HIDE DEF v
<1>5. Knows("field_read", v, entity, row, attempts, changes)
  BY <1>2, <1>3 DEF Knows, Control, OnRows, OnDefinition, OnCalls, Unraced,
     Validating, Calling, Owner
<1>6. "field_read" \in Points /\ ~Owner("field_read", v) /\ v.kind # "define"
  BY <1>3 DEF Points, Owner
<1> QED
  BY <1>3, <1>4, <1>5, <1>6, ArriveKeeps

LEMMA DesignTyped ==
  ASSUME NEW d \in Designs, NEW n \in Nat
  PROVE  /\ Designed(d, n) \in Definition
         /\ Designed(d, n).exists /\ Designed(d, n).version = n
BY RecordsAssumption DEF Designed, Definition

LEMMA BeginDefineKeeps ==
  ASSUME RecordsInv, NEW p \in Requests, BeginDefine(p)  PROVE  RecordsInv'
<1>1. PICK e \in Entities, d \in Designs :
        /\ entity[e].version = 0
        /\ \A q \in Requests : loc[q].e # e \/ loc[q].kind # "define"
        /\ Arrive(p, [NoLocal EXCEPT !.kind = "define", !.e = e,
                                     !.def = Designed(d, 1)], "count")
  BY DEF BeginDefine
<1> DEFINE v == [NoLocal EXCEPT !.kind = "define", !.e = e, !.def = Designed(d, 1)]
<1>2. Designed(d, 1) \in Definition /\ Designed(d, 1).exists /\ Designed(d, 1).version = 1
  BY DesignTyped
<1>3. v \in Local /\ v.kind = "define" /\ v.e = e /\ v.def = Designed(d, 1)
  BY <1>2, NoLocalTyped DEF Local, Kinds, NoLocal
<1>4. Arrive(p, v, "count")
  BY <1>1
<1> HIDE DEF v
<1>5. Knows("count", v, entity, row, attempts, changes)
  BY <1>1, <1>2, <1>3 DEF Knows, Control, OnRows, OnDefinition, OnCalls, Unraced,
     Validating, Calling, Owner
<1>6. "count" \in Points /\ ~Owner("count", v)
  BY <1>3 DEF Points, Owner
<1> QED
  BY <1>1, <1>3, <1>4, <1>5, <1>6, ArriveKeeps

LEMMA BeginRedefineKeeps ==
  ASSUME RecordsInv, NEW p \in Requests, BeginRedefine(p)  PROVE  RecordsInv'
<1>1. PICK e \in Existing, d \in Designs :
        Arrive(p, [NoLocal EXCEPT !.kind = "redefine", !.e = e, !.def = Designed(d, 0)],
               "alter")
  BY DEF BeginRedefine
<1> DEFINE v == [NoLocal EXCEPT !.kind = "redefine", !.e = e, !.def = Designed(d, 0)]
<1>2. Designed(d, 0) \in Definition /\ Designed(d, 0).exists /\ e \in Entities
  BY DesignTyped DEF Existing
<1>3. v \in Local /\ v.kind = "redefine" /\ v.e = e /\ v.def = Designed(d, 0)
  BY <1>2, NoLocalTyped DEF Local, Kinds, NoLocal
<1>4. Arrive(p, v, "alter")
  BY <1>1
<1> HIDE DEF v
<1>5. Knows("alter", v, entity, row, attempts, changes)
  BY <1>2, <1>3 DEF Knows, Control, OnRows, OnDefinition, OnCalls, Unraced,
     Validating, Calling, Owner
<1>6. "alter" \in Points /\ ~Owner("alter", v) /\ v.kind # "define"
  BY <1>3 DEF Points, Owner
<1> QED
  BY <1>3, <1>4, <1>5, <1>6, ArriveKeeps

LEMMA BeginDropKeeps ==
  ASSUME RecordsInv, NEW p \in Requests, BeginDrop(p)  PROVE  RecordsInv'
<1>1. PICK e \in Existing : Arrive(p, [NoLocal EXCEPT !.kind = "drop", !.e = e], "records")
  BY DEF BeginDrop
<1> DEFINE v == [NoLocal EXCEPT !.kind = "drop", !.e = e]
<1>2. v \in Local /\ v.kind = "drop" /\ v.e = e /\ e \in Entities
  BY NoLocalTyped DEF Local, Kinds, NoLocal, Existing
<1>3. Arrive(p, v, "records")
  BY <1>1
<1> HIDE DEF v
<1>4. Knows("records", v, entity, row, attempts, changes)
  BY <1>2 DEF Knows, Control, OnRows, OnDefinition, OnCalls, Unraced,
     Validating, Calling, Owner
<1>5. "records" \in Points /\ ~Owner("records", v) /\ v.kind # "define"
  BY <1>2 DEF Points, Owner
<1> QED
  BY <1>2, <1>3, <1>4, <1>5, ArriveKeeps

-----------------------------------------------------------------------------
(* The steps that write rows. *)
LEMMA NewIdsFree == \A r \in NewIds : r \in Rows /\ row[r].status = "free"
BY DEF NewIds, FreeRows

(* Marking changes nothing else of the locals of the other requests, and warns
   those that the write of row r overtakes. *)
LEMMA MarkedOthers ==
  ASSUME RecordsInv, NEW p \in Requests, NEW v \in Local, NEW r \in Rows, Marked(p, v, r),
         \A s \in Rows \ {r} : row'[s] = row[s]
  PROVE  /\ loc' \in [Requests -> Local] /\ loc'[p] = v
         /\ \A q \in Requests \ {p} : /\ Alike(loc[q], loc'[q])
                                      /\ Warned(pc[q], loc[q], loc'[q], row, row')
<1>1. \A q \in Requests : loc[q] \in Local
  BY DEF RecordsInv, Typed
<1>2. loc'[p] = v
  BY DEF Marked
<1>3. ASSUME NEW q \in Requests \ {p}
      PROVE  /\ loc'[q] \in Local /\ Alike(loc[q], loc'[q])
             /\ Warned(pc[q], loc[q], loc'[q], row, row')
  <2>1. loc'[q] = [loc[q] EXCEPT !.raced = loc[q].raced \/ Overtaken(q, r)]
    BY DEF Marked
  <2>2. loc[q] \in Local
    BY <1>1
  <2>3. (loc[q].raced \/ Overtaken(q, r)) \in BOOLEAN
    BY DEF Overtaken
  <2>4. /\ loc'[q] \in Local
        /\ loc'[q].raced = (loc[q].raced \/ Overtaken(q, r))
    BY <2>1, <2>2, <2>3 DEF Local
  <2>5. Alike(loc[q], loc'[q])
    BY <2>1, <2>2, <2>4 DEF Alike, Local
  <2>6. pc[q] = "field_write" => loc[q].r \in Rows
    BY TypedFacts DEF Knows, Control, Owner, Validating, Calling
  <2>7. Warned(pc[q], loc[q], loc'[q], row, row')
    BY <2>4, <2>6 DEF Warned, Overtaken
  <2> QED
    BY <2>4, <2>5, <2>7
<1>4. \A q \in Requests : loc'[q] \in Local
  BY <1>2, <1>3
<1>5. loc' = [q \in Requests |-> IF q = p THEN v
                ELSE [loc[q] EXCEPT !.raced = @ \/ Overtaken(q, r)]]
  BY DEF Marked
<1>6. loc' \in [Requests -> Local]
  BY <1>4, <1>5
<1> QED
  BY <1>2, <1>3, <1>6

(* What was called for a row, and what was logged of its creation, stays right
   when rows only change as Evolved says. *)
LEMMA EffectsKept ==
  ASSUME RecordsInv, row' \in [Rows -> Row], Evolved(entity, entity', row, row'),
         log' = log, attempts' = attempts, changes' = changes,
         \A r \in Rows : row'[r].status = "free" => row[r].status = "free"
  PROVE  Effects'
<1>1. \A r \in Rows : row[r].status \in Lasting \cup {"free", "employee"}
  BY DEF RecordsInv, Typed, Row, Lasting
<1>2. LoggedLast'
  BY DEF RecordsInv, Effects, LoggedLast, Evolved, Lasting
<1>4. FreeUncalled'
  BY DEF RecordsInv, Effects, FreeUncalled
<1>5. ASSUME NEW r \in Rows, NEW w \in Workflows, NEW n \in 0..MaxRequests,
             <<"created", r, n>> \in log', changes' = 0, row'[r].born \in Linked[w]
      PROVE  attempts'[<<w, r>>] = 1
  <2>1. row[r].status \in Lasting
    BY <1>5 DEF RecordsInv, Effects, LoggedLast
  <2>2. row'[r].born = row[r].born
    BY <2>1 DEF Evolved
  <2> QED
    BY <1>5, <2>2 DEF RecordsInv, Effects, TriggersOnce
<1>6. ASSUME NEW r \in Rows, NEW w \in Workflows, attempts'[<<w, r>>] > 0
      PROVE  row'[r].status = "employee" \/ row'[r].born \in Linked[w]
  <2>1. row[r].status # "free"
    BY <1>6 DEF RecordsInv, Effects, FreeUncalled
  <2>2. row[r].status = "employee" \/ row[r].born \in Linked[w]
    BY <1>6 DEF RecordsInv, Effects, TriggersOnce
  <2> QED
    BY <1>1, <2>1, <2>2 DEF Evolved
<1>7. \A x \in Workflows \X Rows : attempts'[x] <= 1
  BY DEF RecordsInv, Effects, TriggersOnce
<1>8. TriggersOnce'
  BY <1>5, <1>6, <1>7 DEF TriggersOnce
<1> QED
  BY <1>2, <1>4, <1>8 DEF Effects

LEMMA RowStep ==
  ASSUME RecordsInv, NEW p \in Requests, NEW l \in Points, NEW v \in Local,
         entity' = entity, log' = log, attempts' = attempts, UNCHANGED others,
         started' \in 0..MaxRequests, row' \in [Rows -> Row],
         Definitions', Contents', Evolved(entity, entity', row, row'),
         \A r \in Rows : row'[r].status = "free" => row[r].status = "free",
         Goto(p, l), loc' \in [Requests -> Local], loc'[p] = v,
         \A q \in Requests \ {p} :
           /\ Alike(loc[q], loc'[q])
           /\ Warned(pc[q], loc[q], loc'[q], row, row'),
         Knows(l, v, entity, row', attempts, changes), v.kind # "define",
         Owner(l, v) => \/ Owner(pc[p], loc[p]) /\ v.r = loc[p].r
                        \/ row[v.r].status = "free"
  PROVE  RecordsInv'
<1>1. changes' = changes /\ active' = active
  BY DEF others
<1>2. Typed' /\ AllActive'
  BY <1>1 DEF RecordsInv, Typed, AllActive, Goto
<1>3. Effects'
  BY <1>1, EffectsKept
<1>4. pc'[p] = l /\ \A q \in Requests \ {p} : pc'[q] = pc[q]
  BY DEF Goto, RecordsInv, Typed
<1>5. Aside(p)
  BY <1>4 DEF Aside
<1>6. ASSUME NEW q \in Requests \ {p}  PROVE  Apart(l, v, pc[q], loc[q])
  <2>1. Apart(pc[p], loc[p], pc[q], loc[q])
    BY DEF RecordsInv, Disjoint
  <2>2. Owner(pc[q], loc[q]) => row[loc[q].r].status # "free"
    BY TypedFacts DEF Knows, OnRows, Owner, Lasting
  <2> QED
    BY <2>1, <2>2 DEF Apart
<1>7. Knows(pc'[p], loc'[p], entity', row', attempts', changes')
  BY <1>1, <1>4
<1>8. \A q \in Requests \ {p} : Apart(pc'[p], loc'[p], pc[q], loc[q])
  BY <1>4, <1>6
<1> QED
  BY <1>1, <1>2, <1>3, <1>5, <1>7, <1>8, StepOfOne

LEMMA SameTextMissing == \A a, b : Text(a) = Text(b) /\ Missing(a) => Missing(b)
BY DEF Text, Missing

(* The history of a row is not rewritten. *)
Follows(x, y) ==
  /\ x.entity = y.entity \/ x.moved
  /\ y.moved => x.moved
  /\ x.born = y.born
(* What a row written last by a form, and then at most automatically, obeys. *)
Obeys(x) ==
  /\ x.tested => x.version <= entity[x.entity].version
  /\ x.tested /\ ~x.crossed => Resolved(x.data, x.entity, row)
  /\ x.tested /\ x.version = entity[x.entity].version =>
       /\ x.by = "create" => AcceptedOnCreate(entity[x.entity], x.data.code)
       /\ x.by = "update" => AcceptedOnUpdate(entity[x.entity], x.data.code)
  /\ x.data.link # x.wanted => x.crossed
Excused(x) == \/ x.raced \/ x.by = "automation" \/ ~x.tested
              \/ x.version # entity[x.entity].version

(* Writing one live row keeps the rules of the tables when the row has a present
   definition, is not newer than it, and obeys it. *)
LEMMA WriteRow ==
  ASSUME RecordsInv, entity' = entity, NEW r \in Rows, NEW x \in Row,
         row' = [row EXCEPT ![r] = x], x.status = "live",
         x.entity \in Entities, entity[x.entity].exists,
         row[r].status = "free" \/ (row[r].status = "live" /\ Follows(x, row[r])),
         Obeys(x),
         entity[x.entity].unique /\ ~Missing(x.data.code) /\ ~Excused(x) =>
           \A s \in Rows \ {r} : row[s].status = "live" /\ row[s].entity = x.entity
                                 => \/ Text(row[s].data.code) # Text(x.data.code)
                                    \/ Excused(row[s])
  PROVE  /\ row' \in [Rows -> Row] /\ Definitions' /\ Contents'
         /\ Evolved(entity, entity', row, row')
         /\ \A s \in Rows : row'[s].status = "free" => row[s].status = "free"
         /\ \A s \in Rows \ {r} : row'[s] = row[s]
<1>1. /\ row' \in [Rows -> Row] /\ row'[r] = x
      /\ \A s \in Rows \ {r} : row'[s] = row[s]
  BY DEF RecordsInv, Typed
<1>2. Evolved(entity, entity', row, row')
  <2>1. \A e \in Entities : entity[e].version <= entity[e].version
    BY DEF RecordsInv, Typed, Definition
  <2>2. row[r].status \in {"free", "live"} /\ row'[r].status = "live"
        /\ (row[r].status = "live" => Follows(row'[r], row[r]))
    BY <1>1
  <2>3. ASSUME NEW s \in Rows
        PROVE  /\ row[s].status \in Lasting => row'[s].status \in Lasting /\ Follows(row'[s], row[s])
               /\ row[s].status = "gone" => row'[s].status = "gone"
               /\ row[s].status = "employee" => row'[s].status = "employee"
    BY <1>1, <2>2 DEF Lasting, Follows
  <2> QED
    BY <2>1, <2>3 DEF Evolved, Follows
<1>3. Definitions'
  BY <1>1 DEF RecordsInv, Definitions, OneDefinitionPerSlug, RecordsHaveDefinition,
     Versions, Existing, Obeys
<1>4. \A d, e : d.link \in Links /\ Resolved(d, e, row) => Resolved(d, e, row')
  BY <1>2 DEF Resolved, Evolved, Links
<1>5. \A s \in Rows : row[s].data.link \in Links /\ x.data.link \in Links
  BY DEF RecordsInv, Typed, Row, Data
<1>6. RowsMatch'
  <2>1. ASSUME NEW s \in Rows, row'[s].status = "live"
        PROVE  /\ row'[s].entity \in Entities
               /\ row'[s].tested /\ ~row'[s].crossed =>
                    Resolved(row'[s].data, row'[s].entity, row')
    <3>1. CASE s = r
      BY <1>1, <1>4, <1>5, <3>1 DEF Obeys
    <3>2. CASE s # r
      BY <1>1, <1>4, <1>5, <2>1, <3>2 DEF RecordsInv, Contents, RowsMatch
    <3> QED
      BY <3>1, <3>2
  <2> QED
    BY <2>1 DEF RowsMatch
<1>7. StoredRecordsAreValid'
  <2>1. ASSUME NEW s \in Rows, row'[s].status = "live", row'[s].tested,
               row'[s].version = entity[row'[s].entity].version
        PROVE  /\ row'[s].by = "create" =>
                    AcceptedOnCreate(entity[row'[s].entity], row'[s].data.code)
               /\ row'[s].by = "update" =>
                    AcceptedOnUpdate(entity[row'[s].entity], row'[s].data.code)
    <3>1. CASE s = r
      BY <1>1, <2>1, <3>1 DEF Obeys
    <3>2. CASE s # r
      BY <1>1, <2>1, <3>2 DEF RecordsInv, Contents, StoredRecordsAreValid
    <3> QED
      BY <3>1, <3>2
  <2>2. \A s \in Rows : row'[s].status = "live" /\ row'[s].tested /\ ~row'[s].crossed =>
          Resolved(row'[s].data, row'[s].entity, row')
    BY <1>6 DEF RowsMatch
  <2> QED
    BY <2>1, <2>2 DEF StoredRecordsAreValid, Resolved, Lasting
<1>8. DuplicateHasCause'
  <2>1. SUFFICES
          ASSUME NEW s \in Rows, NEW u \in Rows, s # u,
                 row'[s].status = "live", row'[u].status = "live",
                 row'[u].entity = row'[s].entity, entity[row'[s].entity].unique,
                 ~Missing(row'[s].data.code),
                 Text(row'[s].data.code) = Text(row'[u].data.code)
          PROVE  \E y \in {s, u} : \/ row'[y].raced \/ row'[y].by = "automation"
                                   \/ ~row'[y].tested
                                   \/ row'[y].version # entity[row'[s].entity].version
    BY DEF DuplicateHasCause, RowsOf
  <2>2. CASE s # r /\ u # r
    BY <1>1, <2>1, <2>2 DEF RecordsInv, Contents, DuplicateHasCause, RowsOf
  <2>3. CASE s = r
    BY <1>1, <2>1, <2>3 DEF Excused
  <2>4. CASE u = r
    <3>1. ~Missing(x.data.code)
      BY <1>1, <2>1, <2>4, SameTextMissing
    <3> QED
      BY <1>1, <2>1, <2>4, <3>1 DEF Excused
  <2> QED
    BY <2>2, <2>3, <2>4
<1>9. LookupLossHasCause'
  BY <1>1 DEF Obeys, LookupLossHasCause, RecordsInv, Contents
<1>10. \A s \in Rows : row'[s].status = "free" => row[s].status = "free"
  BY <1>1
<1> QED
  BY <1>1, <1>2, <1>3, <1>6, <1>7, <1>8, <1>9, <1>10 DEF Contents

LEMMA InsertRowKeeps ==
  ASSUME RecordsInv, NEW p \in Requests, InsertRow(p)  PROVE  RecordsInv'
<1> DEFINE u == loc[p]
<1>1. CASE ~entity[u.e].exists
  BY <1>1, QuietEnd DEF InsertRow, tables, Continue
<1>2. CASE entity[u.e].exists
  <2>1. PICK r \in NewIds :
          /\ row' = [row EXCEPT ![r] =
               [status |-> "live", entity |-> u.e, data |-> u.data,
                by |-> "create", version |-> u.def.version, raced |-> u.raced,
                tested |-> TRUE, moved |-> FALSE, born |-> u.e,
                wanted |-> u.data.link, crossed |-> FALSE]]
          /\ Marked(p, [u EXCEPT !.r = r], r) /\ Goto(p, "workflows")
    <3>1. PICK r \in NewIds :
             LET l == [u EXCEPT !.r = r] IN
             /\ row' = [row EXCEPT ![r] =
                  [status |-> "live", entity |-> l.e, data |-> l.data,
                   by |-> "create", version |-> l.def.version, raced |-> l.raced,
                   tested |-> TRUE, moved |-> FALSE, born |-> l.e,
                   wanted |-> l.data.link, crossed |-> FALSE]]
             /\ Marked(p, l, r) /\ Goto(p, "workflows")
      BY <1>2 DEF InsertRow
    <3>2. u \in Local
      BY TypedFacts
    <3>3. LET l == [u EXCEPT !.r = r] IN
            l.e = u.e /\ l.data = u.data /\ l.def = u.def /\ l.raced = u.raced
      BY <3>2 DEF Local
    <3> QED
      BY <3>1, <3>3
  <2> DEFINE x == [status |-> "live", entity |-> u.e, data |-> u.data,
                   by |-> "create", version |-> u.def.version, raced |-> u.raced,
                   tested |-> TRUE, moved |-> FALSE, born |-> u.e,
                   wanted |-> u.data.link, crossed |-> FALSE]
             v == [u EXCEPT !.r = r]
  <2>2. /\ pc[p] = "save" /\ u.kind = "create" /\ u \in Local /\ Continue
        /\ entity' = entity /\ log' = log /\ attempts' = attempts
        /\ Knows("save", u, entity, row, attempts, changes)
    BY TypedFacts DEF InsertRow
  <2>3. r \in Rows /\ row[r].status = "free" /\ u.e \in Entities
    BY <2>2, NewIdsFree DEF Knows, Control
  <2>4. /\ x \in Row /\ x.status = "live" /\ x.entity = u.e /\ x.data = u.data
        /\ x.by = "create" /\ x.version = u.def.version /\ x.raced = u.raced
        /\ x.tested /\ x.born = u.e /\ x.wanted = u.data.link
    BY <2>2, <2>3 DEF Row, Local, Definition, Data
  <2>5. /\ v \in Local /\ v.kind = "create" /\ v.e = u.e /\ v.r = r
    BY <2>2, <2>3 DEF Local, Links
  <2>6. row' = [row EXCEPT ![r] = x] /\ Marked(p, v, r)
    BY <2>1
  <2> HIDE DEF x, v
  <2>7. Resolved(x.data, x.entity, row) /\ x.version <= entity[x.entity].version
    BY <2>2, <2>4 DEF Knows, OnRows, OnDefinition, Validating
  <2>8. x.version = entity[x.entity].version =>
          /\ AcceptedOnCreate(entity[x.entity], x.data.code)
          /\ u.def.unique = entity[x.entity].unique
    BY <2>2, <2>4 DEF Knows, OnDefinition, Validating, AcceptedOnCreate
  <2>9. u.def.unique /\ ~Missing(x.data.code) /\ ~x.raced =>
          \A s \in Rows : row[s].status = "live" /\ row[s].entity = x.entity
                          => Text(row[s].data.code) # Text(x.data.code)
    BY <2>2, <2>4 DEF Knows, Unraced
  <2>10. /\ row' \in [Rows -> Row] /\ Definitions' /\ Contents'
         /\ Evolved(entity, entity', row, row')
         /\ \A s \in Rows : row'[s].status = "free" => row[s].status = "free"
         /\ \A s \in Rows \ {r} : row'[s] = row[s]
    <3>1. Obeys(x)
      BY <2>4, <2>7, <2>8 DEF Obeys
    <3>2. entity[x.entity].unique /\ ~Missing(x.data.code) /\ ~Excused(x) =>
            \A s \in Rows \ {r} : row[s].status = "live" /\ row[s].entity = x.entity
                                  => Text(row[s].data.code) # Text(x.data.code)
      BY <2>8, <2>9 DEF Excused
    <3>3. x.entity \in Entities /\ entity[x.entity].exists
      BY <1>2, <2>3, <2>4
    <3> QED
      BY <2>2, <2>3, <2>4, <2>6, <3>1, <3>2, <3>3, WriteRow
  <2>11. Knows("workflows", v, entity, row', attempts, changes)
    <3>1. row'[r].status = "live" /\ row'[r].born = u.e
      BY <2>3, <2>4, <2>6 DEF RecordsInv, Typed
    <3>2. \A w \in Workflows : attempts[<<w, r>>] = 0
      BY <2>3 DEF RecordsInv, Effects, FreeUncalled
    <3> QED
      BY <2>2, <2>3, <2>5, <3>1, <3>2 DEF Knows, Control, OnRows, OnDefinition, OnCalls,
         Unraced, Validating, Calling, Owner, Lasting
  <2>12. "workflows" \in Points /\ v.kind # "define" /\ row[v.r].status = "free"
    BY <2>3, <2>5 DEF Points
  <2>13. started' \in 0..MaxRequests /\ UNCHANGED others
    BY <2>2 DEF Continue, RecordsInv, Typed
  <2>14. /\ loc' \in [Requests -> Local] /\ loc'[p] = v
         /\ \A q \in Requests \ {p} : /\ Alike(loc[q], loc'[q])
                                      /\ Warned(pc[q], loc[q], loc'[q], row, row')
    BY <2>3, <2>5, <2>6, <2>10, MarkedOthers
  <2> QED
    BY <2>1, <2>2, <2>5, <2>10, <2>11, <2>12, <2>13, <2>14, RowStep
<1> QED
  BY <1>1, <1>2

(* An update that finds its row live and its target defined.  A row is only
   called tested when it ends under the definition that its data was tested by. *)
LEMMA ReplaceWrites ==
  ASSUME RecordsInv, NEW p \in Requests, pc[p] = "save",
         loc[p].kind \in {"update", "move"}, row[loc[p].r].status = "live",
         entity[Target(loc[p])].exists, entity' = entity,
         row' = [row EXCEPT ![loc[p].r] =
                  [Body(row[loc[p].r], loc[p], Target(loc[p])) EXCEPT
                     !.entity = Target(loc[p]),
                     !.moved = @ \/ Target(loc[p]) # row[loc[p].r].entity]]
  PROVE  /\ row' \in [Rows -> Row] /\ Definitions' /\ Contents'
         /\ Evolved(entity, entity', row, row')
         /\ \A s \in Rows : row'[s].status = "free" => row[s].status = "free"
         /\ \A s \in Rows \ {loc[p].r} : row'[s] = row[s]
         /\ row'[loc[p].r].status = "live"
<1> DEFINE u == loc[p]
           here == row[u.r]
           e == Target(u)
           b == Body(here, u, e)
           x == [b EXCEPT !.entity = e, !.moved = b.moved \/ e # here.entity]
<1>1. u \in Local /\ Knows("save", u, entity, row, attempts, changes)
  BY TypedFacts
<1>2. u.r \in Rows /\ u.e \in Entities /\ u.into \in Entities \cup {Null}
  BY <1>1 DEF Knows, Control, Local
<1>3. /\ here \in Row /\ here.entity \in Entities
      /\ here.status = "live" /\ entity[here.entity].exists
  BY <1>2, TypedFacts DEF RecordsInv, Contents, RowsMatch, Definitions, RecordsHaveDefinition
<1>4. e \in Entities
  BY <1>2, <1>3 DEF Target
<1>5. /\ u.kind = "move" =>
           b = [here EXCEPT !.tested = here.tested /\ e = here.entity]
      /\ u.kind = "update" =>
           b = [here EXCEPT !.data = u.data, !.by = "update", !.version = u.def.version,
                            !.raced = u.raced, !.tested = (e = u.e),
                            !.wanted = u.data.link, !.crossed = FALSE]
  BY DEF Body
<1>6. row' = [row EXCEPT ![u.r] = x]
  OBVIOUS
<1>12. entity[e].exists
  OBVIOUS
<1>10. row'[u.r] = x /\ row[u.r] = here
  BY <1>2, <1>6 DEF RecordsInv, Typed
<1>11. x = [b EXCEPT !.entity = e, !.moved = b.moved \/ e # here.entity]
  OBVIOUS
<1> HIDE DEF x, b, e, here
<1>7. CASE u.kind = "move"
  <2>1. b \in Row /\ b.moved = here.moved
    BY <1>3, <1>5, <1>7 DEF Row
  <2>2. /\ x \in Row /\ x.status = "live" /\ x.entity = e /\ x.born = here.born
        /\ x.moved = (here.moved \/ e # here.entity) /\ x.data = here.data
        /\ x.by = here.by /\ x.version = here.version /\ x.raced = here.raced
        /\ x.wanted = here.wanted /\ x.crossed = here.crossed
        /\ x.tested = (here.tested /\ e = here.entity)
    BY <1>3, <1>4, <1>5, <1>7, <1>11, <2>1 DEF Row
  <2>3. Obeys(x) /\ Follows(x, row[u.r]) /\ row[u.r].status = "live"
    <3>1. Obeys(here)
      BY <1>2, <1>3, <1>10 DEF Obeys, RecordsInv, Contents, RowsMatch,
         StoredRecordsAreValid, LookupLossHasCause, Definitions, Versions
    <3>2. Obeys(x)
      BY <2>2, <3>1 DEF Obeys
    <3> QED
      BY <1>3, <1>10, <2>2, <3>2 DEF Follows
  <2>4. entity[x.entity].unique /\ ~Missing(x.data.code) /\ ~Excused(x) =>
          \A s \in Rows \ {u.r} : row[s].status = "live" /\ row[s].entity = x.entity
                                  => \/ Text(row[s].data.code) # Text(x.data.code)
                                     \/ Excused(row[s])
    <3>1. SUFFICES ASSUME NEW s \in Rows \ {u.r}, entity[x.entity].unique,
                          ~Missing(x.data.code), ~Excused(x), row[s].status = "live",
                          row[s].entity = x.entity,
                          Text(row[s].data.code) = Text(x.data.code)
                   PROVE  Excused(row[s])
      OBVIOUS
    <3>2. e = here.entity /\ ~Excused(here)
      BY <2>2, <3>1 DEF Excused
    <3>3. \E y \in {u.r, s} : \/ row[y].raced \/ row[y].by = "automation"
                             \/ ~row[y].tested
                             \/ row[y].version # entity[here.entity].version
      BY <1>2, <1>3, <1>10, <2>2, <3>1, <3>2
         DEF RecordsInv, Contents, DuplicateHasCause, RowsOf
    <3> QED
      BY <1>10, <2>2, <3>1, <3>2, <3>3 DEF Excused
  <2>5. x.entity \in Entities /\ entity[x.entity].exists
    BY <1>4, <1>12, <2>2
  <2> QED
    BY <1>2, <1>6, <1>10, <2>2, <2>3, <2>4, <2>5, WriteRow
<1>8. CASE u.kind = "update"
  <2> DEFINE t == (e = u.e)
  <2>0. /\ u.data \in Data /\ u.data.link \in Links /\ u.def.version \in Nat
        /\ u.raced \in BOOLEAN /\ t \in BOOLEAN
    BY <1>1 DEF Local, Data, Definition
  <2>9. b = [here EXCEPT !.data = u.data, !.by = "update", !.version = u.def.version,
                         !.raced = u.raced, !.tested = t, !.wanted = u.data.link,
                         !.crossed = FALSE]
    BY <1>5, <1>8
  <2> HIDE DEF t
  <2>1. /\ b \in Row /\ b.moved = here.moved /\ b.status = here.status
        /\ b.born = here.born /\ b.data = u.data /\ b.by = "update"
        /\ b.version = u.def.version /\ b.raced = u.raced
        /\ b.wanted = u.data.link /\ ~b.crossed /\ b.tested = t
    BY <1>3, <2>0, <2>9 DEF Row
  <2>2. /\ x \in Row /\ x.status = "live" /\ x.entity = e /\ x.born = here.born
        /\ x.moved = (here.moved \/ e # here.entity) /\ x.data = u.data
        /\ x.by = "update" /\ x.version = u.def.version /\ x.raced = u.raced
        /\ x.wanted = u.data.link /\ ~x.crossed /\ x.tested = (e = u.e)
    BY <1>3, <1>4, <1>11, <2>1 DEF Row, t
  <2>3. x.tested => /\ Resolved(x.data, x.entity, row)
                    /\ x.version <= entity[x.entity].version
    BY <1>1, <1>8, <2>2 DEF Knows, OnRows, OnDefinition, Validating
  <2>4. x.tested /\ x.version = entity[x.entity].version =>
          /\ AcceptedOnUpdate(entity[x.entity], x.data.code)
          /\ u.def.unique = entity[x.entity].unique
    BY <1>1, <1>8, <2>2 DEF Knows, OnDefinition, Validating, AcceptedOnUpdate
  <2>5. Obeys(x) /\ Follows(x, here)
    BY <2>2, <2>3, <2>4 DEF Obeys, Follows
  <2>6. u.def.unique /\ ~Missing(x.data.code) /\ ~x.raced /\ x.tested =>
          \A s \in Rows \ {u.r} : row[s].status = "live" /\ row[s].entity = x.entity
                                  => Text(row[s].data.code) # Text(x.data.code)
    BY <1>1, <1>8, <2>2 DEF Knows, Unraced
  <2>7. entity[x.entity].unique /\ ~Missing(x.data.code) /\ ~Excused(x) =>
          \A s \in Rows \ {u.r} : row[s].status = "live" /\ row[s].entity = x.entity
                                  => Text(row[s].data.code) # Text(x.data.code)
    BY <2>4, <2>6 DEF Excused
  <2>8. row[u.r].status = "live" /\ Follows(x, row[u.r])
    BY <1>3, <1>10, <2>5
  <2>10. entity[x.entity].exists /\ x.entity \in Entities
    BY <1>4, <1>12, <2>2
  <2> QED
    BY <1>2, <1>6, <1>10, <2>2, <2>5, <2>7, <2>8, <2>10, WriteRow
<1> QED
  BY <1>7, <1>8

LEMMA ReplaceKeeps ==
  ASSUME RecordsInv, NEW p \in Requests, Replace(p)  PROVE  RecordsInv'
<1> DEFINE u == loc[p]
<1>1. /\ pc[p] = "save" /\ u.kind \in {"update", "move"} /\ u \in Local /\ Continue
      /\ entity' = entity /\ log' = log /\ attempts' = attempts
      /\ Knows("save", u, entity, row, attempts, changes)
  BY TypedFacts DEF Replace
<1>2. u.r \in Rows /\ u.e \in Entities
  BY <1>1 DEF Knows, Control
<1>3. ASSUME NEW R, R[u.r].status \in Lasting
      PROVE  Knows("reread", u, entity, R, attempts, changes)
  BY <1>1, <1>2, <1>3 DEF Knows, Control, OnRows, OnDefinition, OnCalls, Unraced,
     Validating, Calling, Owner
<1>4. "reread" \in Points /\ ~Owner("reread", u)
  BY <1>1 DEF Points, Owner
<1>5. CASE row[u.r].status # "live"
  <2>1. UNCHANGED <<row, loc, effects>> /\ Goto(p, "reread")
    BY <1>5 DEF Replace
  <2>2. Knows("reread", u, entity, row, attempts, changes)
    BY <1>1, <1>3 DEF Knows, OnRows
  <2> QED
    BY <1>1, <1>4, <2>1, <2>2, QuietMove DEF tables, Continue
<1>6. CASE row[u.r].status = "live" /\ entity[Target(u)].exists
  <2>1. /\ row' = [row EXCEPT ![u.r] =
                     [Body(row[u.r], u, Target(u)) EXCEPT !.entity = Target(u),
                        !.moved = @ \/ Target(u) # row[u.r].entity]]
        /\ Marked(p, u, u.r) /\ Goto(p, "reread")
    BY <1>6 DEF Replace
  <2>2. /\ row' \in [Rows -> Row] /\ Definitions' /\ Contents'
        /\ Evolved(entity, entity', row, row')
        /\ \A s \in Rows : row'[s].status = "free" => row[s].status = "free"
        /\ \A s \in Rows \ {u.r} : row'[s] = row[s]
        /\ row'[u.r].status = "live"
    BY <1>1, <1>6, <2>1, ReplaceWrites
  <2>3. Knows("reread", u, entity, row', attempts, changes)
    BY <1>3, <2>2 DEF Lasting
  <2>4. started' \in 0..MaxRequests /\ UNCHANGED others /\ u.kind # "define"
    BY <1>1 DEF Continue, RecordsInv, Typed
  <2>5. /\ loc' \in [Requests -> Local] /\ loc'[p] = u
        /\ \A q \in Requests \ {p} : /\ Alike(loc[q], loc'[q])
                                     /\ Warned(pc[q], loc[q], loc'[q], row, row')
    BY <1>1, <1>2, <2>1, <2>2, MarkedOthers
  <2> QED
    BY <1>1, <1>4, <2>1, <2>2, <2>3, <2>4, <2>5, RowStep
<1>7. CASE row[u.r].status = "live" /\ ~entity[Target(u)].exists
  BY <1>7, QuietEnd DEF Replace, tables, Continue
<1> QED
  BY <1>5, <1>6, <1>7

(* A deletion leaves the row in place for the lookups that name it. *)
LEMMA DeleteRowKeeps ==
  ASSUME RecordsInv, NEW p \in Requests, DeleteRow(p)  PROVE  RecordsInv'
<1> DEFINE u == loc[p]
           x == [row[u.r] EXCEPT !.status = "gone"]
<1>1. /\ pc[p] = "delete" /\ u \in Local /\ Continue /\ UNCHANGED loc
      /\ entity' = entity /\ log' = log /\ attempts' = attempts /\ Goto(p, "audit")
      /\ Knows("delete", u, entity, row, attempts, changes)
  BY TypedFacts DEF DeleteRow
<1>2. u.kind = "remove"
  BY <1>1 DEF Knows, Control, Validating, Calling
<1>3. u.r \in Rows /\ u.e \in Entities /\ row[u.r].status \in Lasting
  BY <1>1, <1>2 DEF Knows, Control, OnRows
<1>4. ASSUME NEW R, R[u.r].status = "gone"
      PROVE  Knows("audit", u, entity, R, attempts, changes)
  BY <1>1, <1>2, <1>3, <1>4 DEF Knows, Control, OnRows, OnDefinition, OnCalls, Unraced,
     Validating, Calling, Owner, Lasting
<1>5. "audit" \in Points /\ ~Owner("audit", u) /\ u.kind # "define"
  BY <1>2 DEF Points, Owner
<1>6. CASE row[u.r].status # "live"
  <2>1. UNCHANGED tables
    BY <1>1, <1>6 DEF DeleteRow, tables
  <2>2. Knows("audit", u, entity, row, attempts, changes)
    BY <1>3, <1>4, <1>6 DEF Lasting
  <2> QED
    BY <1>1, <1>5, <2>1, <2>2, QuietMove DEF Continue
<1>7. CASE row[u.r].status = "live"
  <2>1. row[u.r] \in Row
    BY <1>3, TypedFacts
  <2>2. /\ x \in Row /\ x.status = "gone" /\ x.entity = row[u.r].entity
        /\ x.moved = row[u.r].moved /\ x.born = row[u.r].born
    BY <2>1 DEF Row
  <2>3. /\ row' \in [Rows -> Row] /\ row'[u.r] = x
        /\ \A s \in Rows \ {u.r} : row'[s] = row[s]
    BY <1>3, <1>7, <2>2 DEF DeleteRow, RecordsInv, Typed
  <2> HIDE DEF x
  <2>4. \A s \in Rows :
          /\ row'[s].entity = row[s].entity /\ row'[s].moved = row[s].moved
          /\ row'[s].born = row[s].born
          /\ row'[s].status = "live" => row[s].status = "live" /\ row'[s] = row[s]
          /\ row'[s].status \in Lasting <=> row[s].status \in Lasting
          /\ row[s].status = "gone" => row'[s].status = "gone"
          /\ row[s].status = "employee" => row'[s].status = "employee"
          /\ row'[s].status = "free" => row[s].status = "free"
    BY <1>7, <2>2, <2>3 DEF Lasting
  <2>5. Evolved(entity, entity', row, row') /\ NoNewHolder(row, row')
    <3>1. \A e \in Entities : entity[e].version <= entity[e].version
      BY DEF RecordsInv, Typed, Definition
    <3> QED
      BY <1>1, <2>4, <3>1 DEF Evolved, NoNewHolder
  <2>6. Definitions'
    BY <1>1, <2>4 DEF RecordsInv, Definitions, OneDefinitionPerSlug, RecordsHaveDefinition,
       Versions, Existing
  <2>7. Contents'
    <3>1. \A s \in Rows : row[s].data.link \in Links
      BY DEF RecordsInv, Typed, Row, Data
    <3>2. RowsMatch'
      BY <2>4, <3>1 DEF RecordsInv, Contents, RowsMatch, Resolved, Links
    <3>3. StoredRecordsAreValid'
      BY <1>1, <2>4, <3>1, <3>2 DEF RecordsInv, Contents, StoredRecordsAreValid, RowsMatch,
         Resolved, Lasting
    <3>4. DuplicateHasCause' /\ LookupLossHasCause'
      BY <1>1, <2>4 DEF RecordsInv, Contents, DuplicateHasCause, LookupLossHasCause, RowsOf
    <3> QED
      BY <3>2, <3>3, <3>4 DEF Contents
  <2>8. Knows("audit", u, entity, row', attempts, changes)
    BY <1>4, <2>2, <2>3
  <2>9. started' \in 0..MaxRequests /\ UNCHANGED others
    BY <1>1 DEF Continue, RecordsInv, Typed
  <2>10. /\ loc' \in [Requests -> Local] /\ loc'[p] = u
         /\ \A q \in Requests \ {p} : /\ Alike(loc[q], loc'[q])
                                      /\ Warned(pc[q], loc[q], loc'[q], row, row')
    BY <1>1, <2>5 DEF RecordsInv, Typed, Alike, Warned
  <2> QED
    BY <1>1, <1>5, <2>3, <2>4, <2>5, <2>6, <2>7, <2>8, <2>9, <2>10, RowStep
<1> QED
  BY <1>6, <1>7

(* The log names what the request did, and its workflows are all called. *)
LEMMA AuditKeeps ==
  ASSUME RecordsInv, NEW p \in Requests, Audit(p)  PROVE  RecordsInv'
<1> DEFINE u == loc[p]
           n == Entry(u)
<1>1. /\ pc[p] = "audit" /\ u \in Local /\ Continue /\ log' = log \cup {n}
      /\ entity' = entity /\ row' = row /\ attempts' = attempts /\ End(p)
      /\ Knows("audit", u, entity, row, attempts, changes)
  BY TypedFacts DEF Audit
<1>2. /\ active' = active /\ changes' = changes /\ started' = started
      /\ loc' = [loc EXCEPT ![p] = NoLocal] /\ pc' = [pc EXCEPT ![p] = "idle"]
  BY <1>1 DEF Continue, others, End, Goto
<1>3. ASSUME NEW r \in Rows, NEW k, n = <<"created", r, k>>
      PROVE  u.kind = "create" /\ u.r = r
  <2>1. u.kind \in {"create", "define"} /\ Subject(u) = r
    BY <1>3 DEF Entry, Event
  <2>2. u.kind = "define" => u.e \in Entities /\ Subject(u) = u.e
    BY <1>1 DEF Knows, Control, Subject
  <2>3. u.kind = "create" => Subject(u) = u.r
    BY DEF Subject
  <2> QED
    BY <2>1, <2>2, <2>3, RecordsAssumption
<1>4. \A r \in Rows, k \in 0..MaxRequests :
        <<"created", r, k>> \in log' =>
          <<"created", r, k>> \in log \/ (u.kind = "create" /\ u.r = r)
  BY <1>1, <1>3
<1> HIDE DEF n
<1>5. u.kind = "create" => /\ row[u.r].status \in Lasting
                           /\ row[u.r].born = u.e
  BY <1>1 DEF Knows, OnRows, Validating
<1>6. LoggedLast'
  BY <1>1, <1>4, <1>5 DEF RecordsInv, Effects, LoggedLast
<1>7. TriggersOnce'
  <2>1. ASSUME NEW r \in Rows, NEW w \in Workflows, NEW k \in 0..MaxRequests,
               <<"created", r, k>> \in log', changes' = 0, row[r].born \in Linked[w]
        PROVE  attempts[<<w, r>>] = 1
    <3>1. CASE <<"created", r, k>> \in log
      BY <1>2, <2>1, <3>1 DEF RecordsInv, Effects, TriggersOnce
    <3>2. CASE u.kind = "create" /\ u.r = r
      BY <1>1, <1>2, <1>5, <2>1, <3>2 DEF Knows, OnCalls
    <3> QED
      BY <1>4, <2>1, <3>1, <3>2
  <2> QED
    BY <1>1, <2>1 DEF RecordsInv, Effects, TriggersOnce
<1>8. Effects'
  BY <1>1, <1>6, <1>7 DEF RecordsInv, Effects, FreeUncalled
<1>9. Definitions' /\ Contents' /\ AllActive'
  BY <1>1, <1>2 DEF RecordsInv, Definitions, Contents, AllActive, OneDefinitionPerSlug,
     RecordsHaveDefinition, Versions, RowsMatch, StoredRecordsAreValid, DuplicateHasCause,
     LookupLossHasCause, Existing, RowsOf
<1>10. Typed'
  <2>1. pc' \in [Requests -> Points] /\ loc' \in [Requests -> Local]
    BY <1>2, NoLocalTyped DEF RecordsInv, Typed, Points
  <2> QED
    BY <1>1, <1>2, <2>1 DEF RecordsInv, Typed
<1>11. Evolved(entity, entity', row, row') /\ Aside(p)
  <2>1. \A e \in Entities : entity[e].version <= entity[e].version
    BY DEF RecordsInv, Typed, Definition
  <2> QED
    BY <1>1, <1>2, <2>1 DEF Evolved, Aside, Alike, Warned, NoNewHolder, RecordsInv, Typed
<1>12. /\ pc'[p] = "idle" /\ loc'[p] = NoLocal
       /\ Knows("idle", NoLocal, entity', row', attempts', changes')
       /\ \A q \in Requests \ {p} : Apart("idle", NoLocal, pc[q], loc[q])
  BY <1>2 DEF Knows, Control, OnRows, OnDefinition, OnCalls, Unraced, Owner, NoLocal,
     Validating, Calling, Apart, RecordsInv, Typed
<1> QED
  BY <1>2, <1>8, <1>9, <1>10, <1>11, <1>12, StepOfOne

LEMMA BeginEmployeeKeeps ==
  ASSUME RecordsInv, NEW p \in Requests, BeginEmployee(p)  PROVE  RecordsInv'
<1>1. PICK r \in NewIds :
        /\ row' = [row EXCEPT ![r].status = "employee"]
        /\ Keep(p, [NoLocal EXCEPT !.kind = "employee", !.r = r, !.no = started'])
  BY DEF BeginEmployee
<1> DEFINE v == [NoLocal EXCEPT !.kind = "employee", !.r = r, !.no = started']
           x == [row[r] EXCEPT !.status = "employee"]
<1>2. /\ entity' = entity /\ log' = log /\ attempts' = attempts /\ UNCHANGED others
      /\ started' = started + 1 /\ started < MaxRequests /\ Goto(p, "slug")
  BY DEF BeginEmployee
<1>14. started' \in 0..MaxRequests
  BY <1>2, RecordsAssumption DEF RecordsInv, Typed
<1>3. r \in Rows /\ row[r].status = "free" /\ row[r] \in Row
  BY NewIdsFree, TypedFacts
<1>4. x \in Row /\ x.status = "employee"
  BY <1>3 DEF Row
<1>5. v \in Local /\ v.kind = "employee" /\ v.r = r
  BY <1>3, <1>14, NoLocalTyped DEF Local, Kinds, NoLocal, Links
<1>6. /\ row' \in [Rows -> Row] /\ row'[r].status = "employee"
      /\ \A s \in Rows \ {r} : row'[s] = row[s]
  BY <1>1, <1>3, <1>4 DEF RecordsInv, Typed
<1>7. loc' = [loc EXCEPT ![p] = v]
  BY <1>1 DEF Keep
<1> HIDE DEF v, x
<1>8. \A s \in Rows :
        /\ row'[s].status \in Lasting <=> row[s].status \in Lasting
        /\ row[s].status \in Lasting => row'[s] = row[s]
        /\ row'[s].status = "live" => row[s].status = "live"
        /\ row[s].status = "gone" => row'[s].status = "gone"
        /\ row[s].status = "employee" => row'[s].status = "employee"
        /\ row'[s].status = "free" => row[s].status = "free"
  BY <1>3, <1>6 DEF Lasting
<1>9. Evolved(entity, entity', row, row') /\ NoNewHolder(row, row')
  <2>1. \A e \in Entities : entity[e].version <= entity[e].version
    BY DEF RecordsInv, Typed, Definition
  <2> QED
    BY <1>2, <1>8, <2>1 DEF Evolved, NoNewHolder, Lasting
<1>10. Definitions'
  BY <1>2, <1>8 DEF RecordsInv, Definitions, OneDefinitionPerSlug, RecordsHaveDefinition,
     Versions, Existing, Lasting
<1>11. Contents'
  <2>1. \A s \in Rows : row[s].data.link \in Links
    BY DEF RecordsInv, Typed, Row, Data
  <2>2. RowsMatch'
    BY <1>8, <2>1 DEF RecordsInv, Contents, RowsMatch, Resolved, Links, Lasting
  <2>3. StoredRecordsAreValid'
    BY <1>2, <1>8, <2>1, <2>2 DEF RecordsInv, Contents, StoredRecordsAreValid, RowsMatch,
       Resolved, Lasting
  <2>4. DuplicateHasCause' /\ LookupLossHasCause'
    BY <1>2, <1>8 DEF RecordsInv, Contents, DuplicateHasCause, LookupLossHasCause, RowsOf,
       Lasting
  <2> QED
    BY <2>2, <2>3, <2>4 DEF Contents
<1>12. Knows("slug", v, entity, row', attempts, changes)
  <2>1. \A w \in Workflows : attempts[<<w, r>>] = 0
    BY <1>3 DEF RecordsInv, Effects, FreeUncalled
  <2> QED
    BY <1>3, <1>5, <1>6, <2>1 DEF Knows, Control, OnRows, OnDefinition, OnCalls, Unraced,
       Validating, Calling, Owner
<1>13. "slug" \in Points /\ v.kind # "define" /\ row[v.r].status = "free"
  BY <1>3, <1>5 DEF Points
<1>15. /\ loc' \in [Requests -> Local] /\ loc'[p] = v
       /\ \A q \in Requests \ {p} : /\ Alike(loc[q], loc'[q])
                                    /\ Warned(pc[q], loc[q], loc'[q], row, row')
  BY <1>5, <1>7, <1>9 DEF RecordsInv, Typed, Alike, Warned
<1> QED
  BY <1>2, <1>5, <1>6, <1>8, <1>9, <1>10, <1>11, <1>12, <1>13, <1>14, <1>15, RowStep

(* One call of one workflow: no other request owns the row. *)
LEMMA RunWorkflowKeeps ==
  ASSUME RecordsInv, NEW p \in Requests, RunWorkflow(p)  PROVE  RecordsInv'
<1> DEFINE u == loc[p]
<1>1. PICK w \in u.todo :
        /\ Called(w, u.r) /\ Keep(p, [u EXCEPT !.todo = @ \ {w}])
        /\ Goto(p, IF w \in active THEN FirstPoint(w) ELSE "run")
  BY DEF RunWorkflow
<1> DEFINE l == IF w \in active THEN FirstPoint(w) ELSE "run"
           v == [u EXCEPT !.todo = u.todo \ {w}]
<1>2. /\ pc[p] = "run" /\ u \in Local /\ Continue
      /\ entity' = entity /\ row' = row /\ log' = log
      /\ Knows("run", u, entity, row, attempts, changes)
  BY TypedFacts DEF RunWorkflow
<1>3. u.kind \in {"create", "employee"}
  BY <1>2 DEF Knows, Control, Validating, Calling
<1>4. w \in Workflows /\ u.r \in Rows /\ attempts[<<w, u.r>>] = 0 /\ u.e \in Linked[w]
  BY <1>2, <1>3 DEF Local, Knows, Control, OnCalls, Owner, Validating, Calling
<1>5. row[u.r].status = "employee" \/ (row[u.r].status \in Lasting /\ row[u.r].born = u.e)
  BY <1>2, <1>3 DEF Knows, OnRows, Validating
<1>6. /\ v \in Local /\ v.kind = u.kind /\ v.e = u.e /\ v.r = u.r /\ v.data = u.data
      /\ v.todo = u.todo \ {w}
  BY <1>2 DEF Local
<1>7. l \in {"run", "field_read", "new_find"} /\ l \in Points /\ l \in Calling
  BY DEF FirstPoint, Points, Calling
<1>8. /\ active' = active /\ changes' = changes /\ started' = started
      /\ loc' = [loc EXCEPT ![p] = v] /\ pc' = [pc EXCEPT ![p] = l]
  BY <1>1, <1>2 DEF Continue, others, Keep, Goto
<1> HIDE DEF v, l
<1>9. /\ attempts' \in [Workflows \X Rows -> Nat] /\ attempts'[<<w, u.r>>] = 1
      /\ \A x \in Workflows \X Rows : x # <<w, u.r>> => attempts'[x] = attempts[x]
  BY <1>1, <1>4 DEF Called, RecordsInv, Typed
<1>10. \A o \in Workflows, s \in Rows :
         <<o, s>> = <<w, u.r>> \/ attempts'[<<o, s>>] = attempts[<<o, s>>]
  BY <1>9
<1>11. Effects'
  <2>1. \A x \in Workflows \X Rows : attempts'[x] <= 1
    BY <1>9 DEF RecordsInv, Effects, TriggersOnce
  <2>2. ASSUME NEW r \in Rows, NEW o \in Workflows, NEW k \in 0..MaxRequests,
               <<"created", r, k>> \in log', changes' = 0, row'[r].born \in Linked[o]
        PROVE  attempts'[<<o, r>>] = 1
    <3>1. attempts[<<o, r>>] = 1
      BY <1>2, <1>8, <2>2 DEF RecordsInv, Effects, TriggersOnce
    <3> QED
      BY <1>4, <1>10, <3>1
  <2>3. ASSUME NEW r \in Rows, NEW o \in Workflows, attempts'[<<o, r>>] > 0
        PROVE  row'[r].status = "employee" \/ row'[r].born \in Linked[o]
    <3>1. CASE <<o, r>> = <<w, u.r>>
      BY <1>2, <1>4, <1>5, <3>1
    <3>2. CASE attempts'[<<o, r>>] = attempts[<<o, r>>]
      BY <1>2, <2>3, <3>2 DEF RecordsInv, Effects, TriggersOnce
    <3> QED
      BY <1>10, <3>1, <3>2
  <2>4. FreeUncalled'
    BY <1>2, <1>5, <1>10 DEF RecordsInv, Effects, FreeUncalled, Lasting
  <2>5. LoggedLast'
    BY <1>2 DEF RecordsInv, Effects, LoggedLast
  <2> QED
    BY <2>1, <2>2, <2>3, <2>4, <2>5 DEF Effects, TriggersOnce
<1>12. Definitions' /\ Contents' /\ AllActive'
  BY <1>2, <1>8 DEF RecordsInv, Definitions, Contents, AllActive, OneDefinitionPerSlug,
     RecordsHaveDefinition, Versions, RowsMatch, StoredRecordsAreValid, DuplicateHasCause,
     LookupLossHasCause, Existing, RowsOf
<1>13. Typed'
  BY <1>2, <1>6, <1>7, <1>8, <1>9 DEF RecordsInv, Typed
<1>14. Owner("run", u)
  BY <1>3 DEF Owner, Validating
<1>15. \A q \in Requests \ {p} : Apart("run", u, pc[q], loc[q])
  BY <1>2 DEF RecordsInv, Disjoint
<1>16. Evolved(entity, entity', row, row')
  <2>1. \A e \in Entities : entity[e].version <= entity[e].version
    BY DEF RecordsInv, Typed, Definition
  <2> QED
    BY <1>2, <2>1 DEF Evolved
<1>17. Aside(p)
  <2>1. ASSUME NEW q \in Requests \ {p}, Owner(pc[q], loc[q]), NEW o \in Workflows
        PROVE  attempts'[<<o, loc[q].r>>] = attempts[<<o, loc[q].r>>]
    <3>1. loc[q].r # u.r
      BY <1>14, <1>15, <2>1 DEF Apart
    <3>2. loc[q].r \in Rows
      BY <2>1, TypedFacts DEF Knows, Control
    <3> QED
      BY <1>10, <3>1, <3>2
  <2>2. \A q \in Requests \ {p} : pc'[q] = pc[q] /\ loc'[q] = loc[q]
    BY <1>8 DEF RecordsInv, Typed
  <2> QED
    BY <1>2, <2>1, <2>2 DEF Aside, Alike, Warned, NoNewHolder
<1>18. OnCalls(l, v, attempts', changes)
  <2>1. \A o \in u.todo \ {w} : attempts'[<<o, u.r>>] = 0 /\ u.e \in Linked[o]
    BY <1>2, <1>3, <1>4, <1>10 DEF Knows, OnCalls, Calling, Local
  <2>2. u.kind = "create" /\ changes = 0 =>
          \A o \in Workflows : u.e \in Linked[o] =>
            o \in u.todo \ {w} \/ attempts'[<<o, u.r>>] = 1
    BY <1>2, <1>4, <1>9, <1>10 DEF Knows, OnCalls, Calling
  <2> QED
    BY <1>6, <1>7, <2>1, <2>2 DEF OnCalls
<1>19. Knows(l, v, entity, row, attempts', changes)
  BY <1>2, <1>3, <1>6, <1>7, <1>18 DEF Knows, Control, OnRows, OnDefinition, Unraced,
     Validating, Calling, Owner
<1>20. \A q \in Requests \ {p} : Apart(l, v, pc[q], loc[q])
  BY <1>3, <1>6, <1>14, <1>15 DEF Apart
<1>21. pc'[p] = l /\ loc'[p] = v
  BY <1>8 DEF RecordsInv, Typed
<1> QED
  BY <1>2, <1>8, <1>11, <1>12, <1>13, <1>16, <1>17, <1>19, <1>20, <1>21, StepOfOne

LEMMA WriteFieldKeeps ==
  ASSUME RecordsInv, NEW p \in Requests, WriteField(p)  PROVE  RecordsInv'
<1> DEFINE u == loc[p]
           l == IF u.kind = "resume" THEN "idle" ELSE "run"
           v == IF u.kind = "resume" THEN NoLocal ELSE u
<1>1. /\ pc[p] = "field_write" /\ u \in Local /\ Continue /\ v \in Local
      /\ entity' = entity /\ log' = log /\ attempts' = attempts /\ effects' = effects
      /\ Knows("field_write", u, entity, row, attempts, changes)
  BY TypedFacts, NoLocalTyped DEF WriteField
<1>2. u.kind \in {"create", "employee", "resume"}
  BY <1>1 DEF Knows, Control, Validating, Calling
<1>3. u.r \in Rows
  BY <1>1, <1>2 DEF Knows, Control, Owner, Validating
<1>4. started' \in 0..MaxRequests /\ UNCHANGED others
  BY <1>1 DEF Continue, RecordsInv, Typed
<1>5. CASE row[u.r].status # "live"
  <2>1. AfterAction(p) /\ UNCHANGED tables
    BY <1>1, <1>5 DEF WriteField, tables
  <2> QED
    BY <1>1, <2>1, AfterActionKeeps
<1>6. CASE row[u.r].status = "live"
  <2>1. PICK c \in {"num", "word"} :
          row' = [row EXCEPT ![u.r] = [row[u.r] EXCEPT !.data = NextData(u.data, c),
                                         !.by = "automation", !.crossed = @ \/ u.raced]]
    BY <1>6 DEF WriteField
  <2>2. Goto(p, l) /\ Marked(p, v, u.r)
    BY <1>6 DEF WriteField
  <2> DEFINE here == row[u.r]
             d == NextData(u.data, c)
             k == here.crossed \/ u.raced
             x == [here EXCEPT !.data = d, !.by = "automation", !.crossed = k]
  <2>3. here \in Row /\ here.entity \in Entities /\ entity[here.entity].exists
    BY <1>3, <1>6, TypedFacts DEF RecordsInv, Contents, RowsMatch, Definitions,
       RecordsHaveDefinition
  <2>4. d \in Data /\ d.link = u.data.link /\ k \in BOOLEAN
    BY <1>1, <2>3 DEF NextData, Data, Local, Codes, Row
  <2>5. row' = [row EXCEPT ![u.r] = x]
    BY <2>1
  <2>6. ~u.raced => d.link = here.data.link
    BY <1>1, <1>6, <2>4 DEF Knows, OnRows
  <2>7. Obeys(here)
    BY <1>3, <1>6, <2>3 DEF Obeys, RecordsInv, Contents, RowsMatch, StoredRecordsAreValid,
       LookupLossHasCause, Definitions, Versions
  <2>8. here.status = "live"
    BY <1>6
  <2>9. k = (here.crossed \/ u.raced)
    OBVIOUS
  <2> HIDE DEF here, d, k
  <2>10. /\ x \in Row /\ x.status = "live" /\ x.entity = here.entity
         /\ x.moved = here.moved /\ x.born = here.born /\ x.data = d
         /\ x.by = "automation" /\ x.version = here.version /\ x.tested = here.tested
         /\ x.wanted = here.wanted /\ x.crossed = k
    BY <2>3, <2>4, <2>8 DEF Row
  <2> HIDE DEF x
  <2>11. Obeys(x) /\ Excused(x)
    BY <2>6, <2>7, <2>9, <2>10 DEF Obeys, Excused, Resolved
  <2>12. row[u.r].status = "live" /\ Follows(x, row[u.r])
         /\ x.entity \in Entities /\ entity[x.entity].exists
    BY <1>6, <2>3, <2>10 DEF Follows, here
  <2>13. /\ row' \in [Rows -> Row] /\ Definitions' /\ Contents'
         /\ Evolved(entity, entity', row, row')
         /\ \A s \in Rows : row'[s].status = "free" => row[s].status = "free"
         /\ \A s \in Rows \ {u.r} : row'[s] = row[s]
    BY <1>1, <1>3, <2>5, <2>10, <2>11, <2>12, WriteRow
  <2>14. Knows(l, v, entity, row', attempts, changes)
    <3>1. CASE u.kind = "resume"
      BY <3>1 DEF Knows, Control, OnRows, OnDefinition, OnCalls, Unraced, Owner, NoLocal,
         Validating, Calling
    <3>2. CASE u.kind # "resume"
      <4>1. Control(l, v) /\ OnRows(l, v, row')
        BY <1>1, <1>2, <1>3, <2>13, <3>2 DEF Knows, Control, OnRows, Evolved, Validating,
           Calling, Owner
      <4>2. OnDefinition(l, v, entity) /\ Unraced(l, v, row')
        BY <3>2 DEF OnDefinition, Unraced, Validating
      <4>3. OnCalls(l, v, attempts, changes)
        BY <1>1, <1>2, <3>2 DEF Knows, OnCalls, Calling
      <4> QED
        BY <4>1, <4>2, <4>3 DEF Knows
    <3> QED
      BY <3>1, <3>2
  <2>15. l \in Points /\ v.kind # "define"
         /\ (Owner(l, v) => Owner(pc[p], loc[p]) /\ v.r = loc[p].r)
    BY <1>1, <1>2 DEF Points, Owner, NoLocal, Validating
  <2> HIDE DEF l, v
  <2>16. /\ loc' \in [Requests -> Local] /\ loc'[p] = v
         /\ \A q \in Requests \ {p} : /\ Alike(loc[q], loc'[q])
                                      /\ Warned(pc[q], loc[q], loc'[q], row, row')
    BY <1>1, <1>3, <2>2, <2>13, MarkedOthers
  <2> QED
    BY <1>1, <1>4, <2>2, <2>13, <2>14, <2>15, <2>16, RowStep
<1> QED
  BY <1>5, <1>6

LEMMA InsertCreatedKeeps ==
  ASSUME RecordsInv, NEW p \in Requests, InsertCreated(p)  PROVE  RecordsInv'
<1> DEFINE u == loc[p]
<1>1. /\ pc[p] = "new_save" /\ u \in Local /\ Continue
      /\ entity' = entity /\ log' = log /\ attempts' = attempts /\ effects' = effects
      /\ Knows("new_save", u, entity, row, attempts, changes) /\ Goto(p, "run")
  BY TypedFacts DEF InsertCreated
<1>2. u.kind \in {"create", "employee"} /\ u.into \in Entities
  BY <1>1 DEF Knows, Control, Validating, Calling
<1>3. u.r \in Rows
  BY <1>1, <1>2 DEF Knows, Control, Owner, Validating
<1>4. started' \in 0..MaxRequests /\ UNCHANGED others
  BY <1>1 DEF Continue, RecordsInv, Typed
<1>5. ASSUME NEW T, Evolved(entity, entity, row, T)
      PROVE  Knows("run", u, entity, T, attempts, changes)
  <2>1. Control("run", u) /\ OnRows("run", u, T)
    BY <1>1, <1>2, <1>3, <1>5 DEF Knows, Control, OnRows, Evolved, Validating, Calling, Owner
  <2>2. OnDefinition("run", u, entity) /\ Unraced("run", u, T)
    BY DEF OnDefinition, Unraced, Validating
  <2>3. OnCalls("run", u, attempts, changes)
    BY <1>1, <1>2 DEF Knows, OnCalls, Calling
  <2> QED
    BY <2>1, <2>2, <2>3 DEF Knows
<1>6. "run" \in Points /\ u.kind # "define" /\ Owner(pc[p], u)
  BY <1>1, <1>2 DEF Points, Owner, Validating
<1>7. CASE ~entity[u.into].exists
  <2>1. UNCHANGED tables /\ UNCHANGED loc
    BY <1>1, <1>7 DEF InsertCreated, tables
  <2>2. Evolved(entity, entity, row, row)
    <3>1. \A e \in Entities : entity[e].version <= entity[e].version
      BY DEF RecordsInv, Typed, Definition
    <3> QED
      BY <3>1 DEF Evolved
  <2> QED
    BY <1>1, <1>5, <1>6, <2>1, <2>2, QuietMove DEF Continue
<1>8. CASE entity[u.into].exists
  <2>1. PICK r \in NewIds, c \in {"num", "word"} :
          /\ row' = [row EXCEPT ![r] =
              [status |-> "live", entity |-> u.into,
               data |-> [code |-> c, link |-> Null], by |-> "automation",
               version |-> 0, raced |-> FALSE, tested |-> FALSE, moved |-> FALSE,
               born |-> Null, wanted |-> Null, crossed |-> FALSE]]
          /\ Marked(p, u, r)
    BY <1>8 DEF InsertCreated
  <2> DEFINE d == [code |-> c, link |-> Null]
             x == [status |-> "live", entity |-> u.into, data |-> d, by |-> "automation",
                   version |-> 0, raced |-> FALSE, tested |-> FALSE, moved |-> FALSE,
                   born |-> Null, wanted |-> Null, crossed |-> FALSE]
  <2>2. d \in Data /\ d.link = Null
    BY DEF Data, Codes, Links
  <2>3. row' = [row EXCEPT ![r] = x]
    BY <2>1
  <2> HIDE DEF d
  <2>4. /\ x \in Row /\ x.status = "live" /\ x.entity = u.into /\ x.data = d
        /\ x.by = "automation" /\ ~x.tested /\ x.wanted = Null
    BY <1>2, <2>2 DEF Row, Links
  <2> HIDE DEF x
  <2>5. Obeys(x) /\ Excused(x)
    BY <2>2, <2>4 DEF Obeys, Excused
  <2>6. r \in Rows /\ row[r].status = "free"
    BY NewIdsFree
  <2>7. /\ row' \in [Rows -> Row] /\ Definitions' /\ Contents'
        /\ Evolved(entity, entity', row, row')
        /\ \A s \in Rows : row'[s].status = "free" => row[s].status = "free"
        /\ \A s \in Rows \ {r} : row'[s] = row[s]
    BY <1>1, <1>2, <1>8, <2>3, <2>4, <2>5, <2>6, WriteRow
  <2>8. Knows("run", u, entity, row', attempts, changes)
    BY <1>1, <1>5, <2>7
  <2>9. /\ loc' \in [Requests -> Local] /\ loc'[p] = u
        /\ \A q \in Requests \ {p} : /\ Alike(loc[q], loc'[q])
                                     /\ Warned(pc[q], loc[q], loc'[q], row, row')
    BY <1>1, <2>1, <2>6, <2>7, MarkedOthers
  <2> QED
    BY <1>1, <1>4, <1>6, <2>7, <2>8, <2>9, RowStep
<1> QED
  BY <1>7, <1>8

-----------------------------------------------------------------------------
(* The steps that write definitions. *)

(* A definition may change when its live rows were tested under an earlier
   version of it or not at all, and its slug is free. *)
LEMMA EntityStep ==
  ASSUME RecordsInv, NEW p \in Requests, NEW l \in Points,
         NEW e \in Entities, NEW x \in Definition,
         entity' = [entity EXCEPT ![e] = x],
         row' = row, log' = log, attempts' = attempts, Continue,
         Goto(p, l), UNCHANGED loc, ~Owner(l, loc[p]),
         entity[e].version <= x.version,
         x.version = entity[e].version => /\ x.required = entity[e].required
                                          /\ x.unique = entity[e].unique,
         x.exists => x.version > 0 /\ SlugFree(e, x.slug),
         \A r \in Rows : row[r].status = "live" /\ row[r].entity = e
                         => x.exists /\ (row[r].tested => row[r].version < x.version),
         \A q \in Requests \ {p} : pc[q] \in {"count", "insert"} /\ loc[q].e = e
                                   => x.version = entity[e].version,
         Knows(l, loc[p], entity', row, attempts, changes)
  PROVE  RecordsInv'
<1>1. /\ entity' \in [Entities -> Definition] /\ entity'[e] = x
      /\ \A y \in Entities \ {e} : entity'[y] = entity[y]
  BY DEF RecordsInv, Typed
<1>2. active' = active /\ changes' = changes /\ started' = started
  BY DEF Continue, others
<1>3. pc' \in [Requests -> Points] /\ pc'[p] = l
      /\ \A q \in Requests \ {p} : pc'[q] = pc[q]
  BY DEF Goto, RecordsInv, Typed
<1>4. Typed' /\ AllActive'
  BY <1>1, <1>2, <1>3 DEF RecordsInv, Typed, AllActive
<1>5. Evolved(entity, entity', row, row')
  <2>1. \A y \in Entities : entity[y].version <= entity[y].version
    BY DEF RecordsInv, Typed, Definition
  <2> QED
    BY <1>1, <2>1 DEF Evolved
<1>6. \A r \in Rows : row[r].status = "live" =>
        row[r].entity \in Entities /\ row[r].version \in Nat
  BY DEF RecordsInv, Contents, RowsMatch, Lasting, Typed, Row
<1>7. \A y \in Entities : entity[y].version \in Nat /\ x.version \in Nat
  BY DEF RecordsInv, Typed, Definition
<1>8. Definitions'
  <2>1. OneDefinitionPerSlug'
    <3>1. SUFFICES ASSUME NEW y \in Entities, NEW z \in Entities, y # z,
                          entity'[y].exists, entity'[z].exists,
                          entity'[y].slug = entity'[z].slug
                   PROVE  FALSE
      BY DEF OneDefinitionPerSlug, Existing
    <3>2. CASE y = e
      BY <1>1, <3>1, <3>2 DEF SlugFree, Existing
    <3>3. CASE z = e
      BY <1>1, <3>1, <3>3 DEF SlugFree, Existing
    <3>4. CASE y # e /\ z # e
      BY <1>1, <3>1, <3>4 DEF RecordsInv, Definitions, OneDefinitionPerSlug, Existing
    <3> QED
      BY <3>2, <3>3, <3>4
  <2>2. RecordsHaveDefinition'
    BY <1>1, <1>6 DEF RecordsInv, Definitions, RecordsHaveDefinition
  <2>3. Versions'
    BY <1>1, <1>6, <1>7 DEF RecordsInv, Definitions, Versions
  <2> QED
    BY <2>1, <2>2, <2>3 DEF Definitions
<1>9. Contents'
  <2>1. RowsMatch'
    BY DEF RecordsInv, Contents, RowsMatch
  <2>2. \A r \in Rows : row[r].status = "live" =>
          \/ entity'[row[r].entity] = entity[row[r].entity]
          \/ ~row[r].tested
          \/ row[r].version # entity'[row[r].entity].version
    BY <1>1, <1>6, <1>7
  <2>3. StoredRecordsAreValid'
    BY <2>2 DEF RecordsInv, Contents, StoredRecordsAreValid
  <2>4. DuplicateHasCause'
    <3>1. SUFFICES
            ASSUME NEW r \in Rows, NEW s \in Rows, r # s,
                   row[r].status = "live", row[s].status = "live",
                   row[s].entity = row[r].entity, entity'[row[r].entity].unique,
                   ~Missing(row[r].data.code),
                   Text(row[r].data.code) = Text(row[s].data.code)
            PROVE  \E y \in {r, s} : \/ row[y].raced \/ row[y].by = "automation"
                                     \/ ~row[y].tested
                                     \/ row[y].version # entity'[row[r].entity].version
      BY DEF DuplicateHasCause, RowsOf
    <3>2. CASE entity'[row[r].entity] = entity[row[r].entity]
      BY <3>1, <3>2 DEF RecordsInv, Contents, DuplicateHasCause, RowsOf
    <3>3. CASE ~row[r].tested \/ row[r].version # entity'[row[r].entity].version
      BY <3>3
    <3> QED
      BY <2>2, <3>1, <3>2, <3>3
  <2>5. LookupLossHasCause'
    BY DEF RecordsInv, Contents, LookupLossHasCause
  <2> QED
    BY <2>1, <2>3, <2>4, <2>5 DEF Contents
<1>10. Effects'
  BY <1>2 DEF RecordsInv, Effects, TriggersOnce, FreeUncalled, LoggedLast
<1>11. Aside(p)
  <2>1. \A q \in Requests \ {p} : pc[q] \in {"count", "insert"} => loc[q].e \in Entities
    BY TypedFacts DEF Knows, Control, Validating, Calling
  <2> QED
    BY <1>1, <1>3, <2>1 DEF Aside, Alike, Warned, NoNewHolder
<1>12. \A q \in Requests \ {p} : Apart(l, loc[p], pc[q], loc[q])
  BY DEF RecordsInv, Disjoint, Apart
<1>13. /\ Knows(pc'[p], loc'[p], entity', row', attempts', changes')
       /\ \A q \in Requests \ {p} : Apart(pc'[p], loc'[p], pc[q], loc[q])
  BY <1>2, <1>3, <1>12
<1> QED
  BY <1>2, <1>4, <1>5, <1>8, <1>9, <1>10, <1>11, <1>13, StepOfOne

LEMMA InsertEntityKeeps ==
  ASSUME RecordsInv, NEW p \in Requests, InsertEntity(p)  PROVE  RecordsInv'
<1> DEFINE u == loc[p]
           e == u.e
           x == u.def
<1>1. CASE ~SlugFree(e, x.slug)
  BY <1>1, QuietEnd DEF InsertEntity, tables, Continue
<1>2. CASE SlugFree(e, x.slug)
  <2>1. /\ pc[p] = "insert" /\ u \in Local /\ Continue
        /\ row' = row /\ log' = log /\ attempts' = attempts
        /\ entity' = [entity EXCEPT ![e] = x] /\ Goto(p, "audit") /\ UNCHANGED loc
        /\ Knows("insert", u, entity, row, attempts, changes)
    BY <1>2, TypedFacts DEF InsertEntity
  <2>2. u.kind = "define" /\ e \in Entities /\ x \in Definition
    BY <2>1 DEF Knows, Control, Validating, Calling, Local
  <2>3. entity[e].version = 0 /\ x.version = 1 /\ x.exists
    BY <2>1, <2>2 DEF Knows, Control, OnDefinition
  <2>4. ~entity[e].exists
    BY <2>2, <2>3 DEF RecordsInv, Definitions, Versions
  <2>5. \A r \in Rows : ~(row[r].status = "live" /\ row[r].entity = e)
    BY <2>4 DEF RecordsInv, Definitions, RecordsHaveDefinition
  <2>6. \A q \in Requests \ {p} : pc[q] \in {"count", "insert"} => loc[q].e # e
    <3>1. ASSUME NEW q \in Requests \ {p}, pc[q] \in {"count", "insert"}
          PROVE  loc[q].e # e
      <4>1. loc[q].kind = "define"
        BY <3>1, TypedFacts DEF Knows, Control, Validating, Calling
      <4> QED
        BY <2>2, <4>1 DEF RecordsInv, Disjoint, Apart
    <3> QED
      BY <3>1
  <2>7. Knows("audit", u, entity', row, attempts, changes)
    BY <2>1, <2>2, <2>3 DEF Knows, Control, OnRows, OnDefinition, OnCalls, Unraced,
       Validating, Calling, Owner
  <2>8. "audit" \in Points /\ ~Owner("audit", u)
    BY <2>2 DEF Points, Owner
  <2>9. entity[e].version <= x.version /\ x.version > 0 /\ x.version # entity[e].version
    BY <2>3
  <2> HIDE DEF x
  <2>10. /\ x.exists => x.version > 0 /\ SlugFree(e, x.slug)
         /\ \A r \in Rows : row[r].status = "live" /\ row[r].entity = e
                            => x.exists /\ (row[r].tested => row[r].version < x.version)
         /\ \A q \in Requests \ {p} : pc[q] \in {"count", "insert"} /\ loc[q].e = e
                                       => x.version = entity[e].version
    BY <1>2, <2>5, <2>6, <2>9
  <2> QED
    BY <2>1, <2>2, <2>7, <2>8, <2>9, <2>10, EntityStep
<1> QED
  BY <1>1, <1>2

LEMMA AlterEntityKeeps ==
  ASSUME RecordsInv, NEW p \in Requests, AlterEntity(p)  PROVE  RecordsInv'
<1> DEFINE u == loc[p]
           e == u.e
<1>1. CASE entity[e].exists /\ ~SlugFree(e, u.def.slug)
  BY <1>1, QuietEnd DEF AlterEntity, tables, Continue
<1>3. CASE ~entity[e].exists
  <2>1. /\ pc[p] = "alter" /\ UNCHANGED tables /\ UNCHANGED loc /\ Continue
        /\ Goto(p, "reread") /\ Knows("alter", u, entity, row, attempts, changes)
    BY <1>3, TypedFacts DEF AlterEntity, tables
  <2>2. u.kind = "redefine"
    BY <2>1 DEF Knows, Control, Validating, Calling
  <2>3. Knows("reread", u, entity, row, attempts, changes)
    BY <2>1, <2>2 DEF Knows, Control, OnRows, OnDefinition, OnCalls, Unraced,
       Validating, Calling, Owner
  <2>4. "reread" \in Points /\ ~Owner("reread", u)
    BY <2>2 DEF Points, Owner
  <2> QED
    BY <2>1, <2>3, <2>4, QuietMove DEF Continue
<1>2. CASE entity[e].exists /\ SlugFree(e, u.def.slug)
  <2> DEFINE x == [u.def EXCEPT !.version = entity[e].version + 1]
  <2>1. /\ pc[p] = "alter" /\ u \in Local /\ Continue
        /\ row' = row /\ log' = log /\ attempts' = attempts
        /\ entity' = [entity EXCEPT ![e] = x] /\ Goto(p, "reread") /\ UNCHANGED loc
        /\ Knows("alter", u, entity, row, attempts, changes)
    BY <1>2, TypedFacts DEF AlterEntity
  <2>2. u.kind = "redefine" /\ e \in Entities /\ u.def \in Definition /\ u.def.exists
    BY <2>1 DEF Knows, Control, Validating, Calling, Local
  <2>3. entity[e] \in Definition /\ entity[e].version \in Nat
    BY <2>2, TypedFacts DEF Definition
  <2>4. /\ x \in Definition /\ x.version = entity[e].version + 1 /\ x.exists
        /\ x.slug = u.def.slug
    BY <2>2, <2>3 DEF Definition
  <2> HIDE DEF x
  <2>5. /\ entity[e].version <= x.version /\ x.version > 0
        /\ x.version # entity[e].version
    BY <2>3, <2>4
  <2>6. \A r \in Rows : row[r].status = "live" /\ row[r].entity = e
                        => (row[r].tested => row[r].version < x.version)
    <3>1. \A r \in Rows : row[r].version \in Nat
      BY DEF RecordsInv, Typed, Row
    <3> QED
      BY <2>3, <2>4, <3>1 DEF RecordsInv, Definitions, Versions
  <2>7. \A q \in Requests \ {p} : pc[q] \in {"count", "insert"} => loc[q].e # e
    <3>1. entity[e].version > 0
      BY <1>2, <2>2 DEF RecordsInv, Definitions, Versions
    <3>2. \A q \in Requests : pc[q] \in {"count", "insert"} => entity[loc[q].e].version = 0
      BY TypedFacts DEF Knows, OnDefinition
    <3> QED
      BY <2>3, <3>1, <3>2
  <2>8. Knows("reread", u, entity', row, attempts, changes)
    BY <2>1, <2>2 DEF Knows, Control, OnRows, OnDefinition, OnCalls, Unraced,
       Validating, Calling, Owner
  <2>9. "reread" \in Points /\ ~Owner("reread", u)
    BY <2>2 DEF Points, Owner
  <2>10. SlugFree(e, x.slug)
    BY <1>2, <2>4
  <2> QED
    BY <2>1, <2>2, <2>4, <2>5, <2>6, <2>7, <2>8, <2>9, <2>10, EntityStep
<1> QED
  BY <1>1, <1>2, <1>3

LEMMA DeleteEntityKeeps ==
  ASSUME RecordsInv, NEW p \in Requests, DeleteEntity(p)  PROVE  RecordsInv'
<1> DEFINE u == loc[p]
           e == u.e
<1>1. CASE entity[e].exists /\ ~Deletable(e)
  BY <1>1, QuietEnd DEF DeleteEntity, tables, Continue
<1>3. CASE ~entity[e].exists
  <2>1. /\ pc[p] = "drop" /\ UNCHANGED tables /\ UNCHANGED loc /\ Continue
        /\ Goto(p, "audit") /\ Knows("drop", u, entity, row, attempts, changes)
    BY <1>3, TypedFacts DEF DeleteEntity, tables
  <2>2. u.kind = "drop"
    BY <2>1 DEF Knows, Control, Validating, Calling
  <2>3. Knows("audit", u, entity, row, attempts, changes)
    BY <2>1, <2>2 DEF Knows, Control, OnRows, OnDefinition, OnCalls, Unraced,
       Validating, Calling, Owner
  <2>4. "audit" \in Points /\ ~Owner("audit", u)
    BY <2>2 DEF Points, Owner
  <2> QED
    BY <2>1, <2>3, <2>4, QuietMove DEF Continue
<1>2. CASE entity[e].exists /\ Deletable(e)
  <2> DEFINE x == [entity[e] EXCEPT !.exists = FALSE]
  <2>1. /\ pc[p] = "drop" /\ u \in Local /\ Continue
        /\ row' = row /\ log' = log /\ attempts' = attempts
        /\ entity' = [entity EXCEPT ![e].exists = FALSE]
        /\ Goto(p, "audit") /\ UNCHANGED loc
        /\ Knows("drop", u, entity, row, attempts, changes)
    BY <1>2, TypedFacts DEF DeleteEntity
  <2>2. u.kind = "drop" /\ e \in Entities
    BY <2>1 DEF Knows, Control, Validating, Calling
  <2>3. entity[e] \in Definition /\ entity[e].version \in Nat
    BY <2>2, TypedFacts DEF Definition
  <2>4. /\ x \in Definition /\ x.version = entity[e].version /\ ~x.exists
        /\ x.required = entity[e].required /\ x.unique = entity[e].unique
    BY <2>3 DEF Definition
  <2>5. entity' = [entity EXCEPT ![e] = x]
    BY <2>1
  <2> HIDE DEF x
  <2>6. \A r \in Rows : ~(row[r].status = "live" /\ row[r].entity = e)
    BY <1>2 DEF Deletable, RowsOf
  <2>7. Knows("audit", u, entity', row, attempts, changes)
    BY <2>1, <2>2 DEF Knows, Control, OnRows, OnDefinition, OnCalls, Unraced,
       Validating, Calling, Owner
  <2>8. "audit" \in Points /\ ~Owner("audit", u) /\ entity[e].version <= x.version
    BY <2>2, <2>3, <2>4 DEF Points, Owner
  <2>9. /\ x.exists => x.version > 0 /\ SlugFree(e, x.slug)
        /\ \A r \in Rows : row[r].status = "live" /\ row[r].entity = e
                           => x.exists /\ (row[r].tested => row[r].version < x.version)
        /\ \A q \in Requests \ {p} : pc[q] \in {"count", "insert"} /\ loc[q].e = e
                                      => x.version = entity[e].version
    BY <2>4, <2>6
  <2> QED
    BY <2>1, <2>2, <2>4, <2>5, <2>7, <2>8, <2>9, EntityStep
<1> QED
  BY <1>1, <1>2, <1>3

-----------------------------------------------------------------------------
LEMMA InitHolds == Init => RecordsInv
<1> SUFFICES ASSUME Init PROVE RecordsInv
  OBVIOUS
<1>1. /\ entity = InitialEntities /\ row \in InitialTables /\ active = Workflows
      /\ log = {} /\ attempts = [x \in Workflows \X Rows |-> 0]
      /\ pc = [p \in Requests |-> "idle"] /\ loc = [p \in Requests |-> NoLocal]
      /\ started = 0 /\ changes = 0
  BY DEF Init
<1>2. Typed
  BY <1>1, NoLocalTyped, RecordsAssumption, TablesAssumption DEF Typed, Points
<1>3. \A x \in Entities : entity[x].exists =>
        /\ entity[x].version > 0
        /\ \A y \in Entities : /\ entity[y].exists /\ entity[y].slug = entity[x].slug
                               => y = x
  BY <1>1, TablesAssumption
<1>4. ASSUME NEW r \in Rows, row[r].status # "free"
      PROVE  /\ row[r].status = "live" /\ row[r].entity \in Entities
             /\ row[r].by = "create" /\ entity[row[r].entity].exists
             /\ row[r].tested /\ row[r].wanted = row[r].data.link
             /\ row[r].version = entity[row[r].entity].version
             /\ AcceptedOnCreate(entity[row[r].entity], row[r].data.code)
             /\ Resolved(row[r].data, row[r].entity, row)
             /\ \A s \in Rows \ {r} :
                  /\ row[s].status = "live" /\ row[s].entity = row[r].entity
                  /\ entity[row[r].entity].unique /\ ~Missing(row[r].data.code)
                  => Text(row[s].data.code) # Text(row[r].data.code)
  BY <1>1, <1>4, TablesAssumption DEF Resolved, Lasting
<1>5. Definitions
  <2>1. \A r \in Rows : row[r].status = "live" =>
          row[r].version <= entity[row[r].entity].version
    BY <1>2, <1>4 DEF Typed, Row
  <2> QED
    BY <1>3, <1>4, <2>1 DEF Definitions, OneDefinitionPerSlug, RecordsHaveDefinition,
       Versions, Existing
<1>6. Contents
  <2>1. RowsMatch
    BY <1>4 DEF RowsMatch, Lasting
  <2>2. StoredRecordsAreValid
    BY <1>4 DEF StoredRecordsAreValid, Resolved, Lasting
  <2>3. DuplicateHasCause
    BY <1>4 DEF DuplicateHasCause, RowsOf
  <2>4. LookupLossHasCause
    BY <1>4 DEF LookupLossHasCause
  <2> QED
    BY <2>1, <2>2, <2>3, <2>4 DEF Contents
<1>7. Effects /\ AllActive
  <2>1. \A x \in Workflows \X Rows : attempts[x] = 0
    BY <1>1
  <2>2. \A r \in Rows, w \in Workflows : attempts[<<w, r>>] = 0
    BY <2>1
  <2> QED
    BY <1>1, <2>1, <2>2 DEF Effects, TriggersOnce, FreeUncalled, LoggedLast, AllActive
<1>8. Informed
  BY <1>1 DEF Informed, Knows, Control, OnRows, OnDefinition, OnCalls, Unraced, Owner,
     NoLocal, Validating, Calling
<1>9. Disjoint
  BY <1>1 DEF Disjoint, Apart, Owner, NoLocal
<1> QED
  BY <1>2, <1>5, <1>6, <1>7, <1>8, <1>9 DEF RecordsInv

(* (De)activating a workflow touches no table, and no promise about workflows
   that stayed active outlives it. *)
LEMMA ToggleKeeps ==
  ASSUME RecordsInv, Toggle  PROVE  RecordsInv'
<1>1. /\ entity' = entity /\ row' = row /\ log' = log /\ attempts' = attempts
      /\ pc' = pc /\ loc' = loc /\ started' = started
      /\ changes \in 0..MaxChanges /\ changes < MaxChanges /\ changes' = changes + 1
      /\ active' \subseteq Workflows
  BY DEF Toggle, tables, RecordsInv, Typed
<1>2. changes' \in 0..MaxChanges /\ changes' # 0
  BY <1>1, RecordsAssumption
<1>3. Typed'
  BY <1>1, <1>2 DEF RecordsInv, Typed
<1>4. Definitions' /\ Contents' /\ AllActive' /\ Disjoint'
  BY <1>1, <1>2 DEF RecordsInv, Definitions, Contents, AllActive, OneDefinitionPerSlug,
     RecordsHaveDefinition, Versions, RowsMatch, StoredRecordsAreValid, DuplicateHasCause,
     LookupLossHasCause, Existing, RowsOf, Disjoint
<1>5. Effects'
  BY <1>1, <1>2 DEF RecordsInv, Effects, TriggersOnce, FreeUncalled, LoggedLast
<1>6. Informed'
  <2>1. ASSUME NEW q \in Requests
        PROVE  Knows(pc[q], loc[q], entity, row, attempts, changes')
    <3>1. Knows(pc[q], loc[q], entity, row, attempts, changes)
      BY TypedFacts
    <3>2. OnCalls(pc[q], loc[q], attempts, changes')
      BY <1>2, <3>1 DEF Knows, OnCalls
    <3> QED
      BY <3>1, <3>2 DEF Knows
  <2> QED
    BY <1>1, <2>1 DEF Informed
<1> QED
  BY <1>3, <1>4, <1>5, <1>6 DEF RecordsInv

LEMMA StutterKeeps ==
  ASSUME RecordsInv, UNCHANGED vars  PROVE  RecordsInv'
BY DEF vars, RecordsInv, Typed, Definitions, Contents, Effects, AllActive, Informed,
   Disjoint, OneDefinitionPerSlug, RecordsHaveDefinition, Versions, RowsMatch,
   StoredRecordsAreValid, DuplicateHasCause, LookupLossHasCause, TriggersOnce, FreeUncalled, LoggedLast,
   Existing, RowsOf

LEMMA NextKeeps == RecordsInv /\ [Next]_vars => RecordsInv'
<1> SUFFICES ASSUME RecordsInv, [Next]_vars PROVE RecordsInv'
  OBVIOUS
<1>1. CASE UNCHANGED vars
  BY <1>1, StutterKeeps
<1>2. CASE Toggle
  BY <1>2, ToggleKeeps
<1>3. ASSUME NEW p \in Requests, Begin(p)  PROVE RecordsInv'
  <2>1. CASE BeginCreate(p)
    BY <2>1, BeginCreateKeeps
  <2>2. CASE BeginUpdate(p)
    BY <2>2, BeginUpdateKeeps
  <2>9. CASE BeginMove(p)
    BY <2>9, BeginMoveKeeps
  <2>3. CASE BeginRemove(p)
    BY <2>3, BeginRemoveKeeps
  <2>4. CASE BeginEmployee(p)
    BY <2>4, BeginEmployeeKeeps
  <2>5. CASE BeginResume(p)
    BY <2>5, BeginResumeKeeps
  <2>6. CASE BeginDefine(p)
    BY <2>6, BeginDefineKeeps
  <2>7. CASE BeginRedefine(p)
    BY <2>7, BeginRedefineKeeps
  <2>8. CASE BeginDrop(p)
    BY <2>8, BeginDropKeeps
  <2> QED
    BY <1>3, <2>1, <2>2, <2>3, <2>4, <2>5, <2>6, <2>7, <2>8, <2>9 DEF Begin
<1>4. ASSUME NEW p \in Requests, Step(p)  PROVE RecordsInv'
  <2>1. CASE CheckCode(p)
    BY <2>1, CheckCodeKeeps
  <2>2. CASE CheckLink(p)
    BY <2>2, CheckLinkKeeps
  <2>3. CASE InsertRow(p)
    BY <2>3, InsertRowKeeps
  <2>4. CASE Replace(p)
    BY <2>4, ReplaceKeeps
  <2>5. CASE Reread(p)
    BY <2>5, RereadKeeps
  <2>6. CASE DeleteRow(p)
    BY <2>6, DeleteRowKeeps
  <2>7. CASE Audit(p)
    BY <2>7, AuditKeeps
  <2>8. CASE FindBySlug(p)
    BY <2>8, FindBySlugKeeps
  <2>9. CASE FindWorkflows(p)
    BY <2>9, FindWorkflowsKeeps
  <2>10. CASE RunWorkflow(p)
    BY <2>10, RunWorkflowKeeps
  <2>11. CASE TriggersDone(p)
    BY <2>11, TriggersDoneKeeps
  <2>12. CASE ReadField(p)
    BY <2>12, ReadFieldKeeps
  <2>13. CASE WriteField(p)
    BY <2>13, WriteFieldKeeps
  <2>14. CASE FindCreated(p)
    BY <2>14, FindCreatedKeeps
  <2>15. CASE InsertCreated(p)
    BY <2>15, InsertCreatedKeeps
  <2>16. CASE ActionFails(p)
    BY <2>16, AfterActionKeeps DEF ActionFails
  <2>17. CASE CheckLimit(p)
    BY <2>17, CheckLimitKeeps
  <2>18. CASE InsertEntity(p)
    BY <2>18, InsertEntityKeeps
  <2>19. CASE AlterEntity(p)
    BY <2>19, AlterEntityKeeps
  <2>20. CASE CountRecords(p)
    BY <2>20, CountRecordsKeeps
  <2>21. CASE DeleteEntity(p)
    BY <2>21, DeleteEntityKeeps
  <2>22. CASE Fail(p)
    BY <2>22, QuietEnd DEF Fail
  <2> QED
    BY <1>4, <2>1, <2>2, <2>3, <2>4, <2>5, <2>6, <2>7, <2>8, <2>9, <2>10, <2>11, <2>12,
       <2>13, <2>14, <2>15, <2>16, <2>17, <2>18, <2>19, <2>20, <2>21, <2>22 DEF Step
<1> QED
  BY <1>1, <1>2, <1>3, <1>4 DEF Next

THEOREM RecordsAlways == Spec => []RecordsInv
<1> QED
  BY InitHolds, NextKeeps, PTL DEF Spec

-----------------------------------------------------------------------------
(* The audit log, on top of RecordsInv: what each request has done to the tables,
   and which of them still has to log it.                                  *)

(* What is gone for good: a row that was deleted, a definition that was removed. *)
Buried(s, E, R) ==
  IF s \in Rows THEN R[s].status = "gone" ELSE E[s].version > 0 /\ ~E[s].exists
(* A request between what it did and its entry in the log. *)
Bearing(l, v) ==
  \/ v.kind = "create" /\ l \notin Validating
  \/ v.kind \in {"update", "move", "redefine"} /\ l \in {"reread", "audit"}
  \/ v.kind \in {"remove", "define", "drop"} /\ l = "audit"
(* It did what it is about to log, or what it was to change is gone. *)
Settled(l, v, F, E, R) ==
  /\ v.kind = "create" /\ l \notin Validating => Entry(v) \in F
  /\ l = "audit" =>
       Entry(v) \in F \/ (Event(v.kind) = "deleted" /\ Buried(Subject(v), E, R))
  /\ l = "reread" => Entry(v) \in F \/ Buried(Subject(v), E, R)
  /\ v.kind \in {"redefine", "drop"} => E[v.e].version > 0

LogsTyped == log \subseteq Entries /\ effects \subseteq Entries /\ failed \subseteq 0..MaxRequests
LogIsTrue ==
  \A x \in log : x \in effects \/ (x[1] = "deleted" /\ Buried(x[2], entity, row))
Borne(x) == \E q \in Requests : Bearing(pc[q], loc[q]) /\ Entry(loc[q]) = x
NothingForgotten ==
  \A x \in effects : \/ x \in log \/ x[3] \in failed
                     \/ x[1] = "updated" /\ Buried(x[2], entity, row)
                     \/ Borne(x)
Answers == \A q \in Requests : Settled(pc[q], loc[q], effects, entity, row)
AuditInv == LogsTyped /\ LogIsTrue /\ NothingForgotten /\ Answers

(* No step brings back what is gone, and a step of p leaves the others be. *)
Burials ==
  /\ \A r \in Rows : row[r].status = "gone" => row'[r].status = "gone"
  /\ \A e \in Entities : entity[e].version > 0 =>
       entity'[e].version > 0 /\ (~entity[e].exists => ~entity'[e].exists)
Rest(p) ==
  \A q \in Requests \ {p} : /\ pc'[q] = pc[q] /\ loc'[q].kind = loc[q].kind
                            /\ loc'[q].e = loc[q].e /\ loc'[q].r = loc[q].r
                            /\ loc'[q].no = loc[q].no

LEMMA SubjectsTyped ==
  ASSUME RecordsInv, NEW q \in Requests,
         Bearing(pc[q], loc[q]) \/ loc[q].kind \in {"update", "move", "remove", "define",
                                                    "redefine", "drop"}
  PROVE  /\ Entry(loc[q]) \in Entries /\ Subject(loc[q]) \in Rows \cup Entities
         /\ loc[q].kind \in {"define", "redefine", "drop"} =>
              Subject(loc[q]) = loc[q].e /\ loc[q].e \in Entities
         /\ loc[q].kind \notin {"define", "redefine", "drop"} =>
              Subject(loc[q]) = loc[q].r /\ loc[q].r \in Rows
<1> DEFINE v == loc[q]
<1>1. Control(pc[q], v) /\ v.no \in 0..MaxRequests
  BY TypedFacts DEF Knows, Local
<1>2. v.kind \in {"define", "redefine", "drop"} => Subject(v) = v.e /\ v.e \in Entities
  BY <1>1 DEF Control, Subject
<1>3. v.kind \notin {"define", "redefine", "drop"} => Subject(v) = v.r /\ v.r \in Rows
  BY <1>1 DEF Control, Subject, Bearing, Owner
<1>4. Event(v.kind) \in {"created", "updated", "deleted"}
  BY DEF Event
<1>5. Entry(v) = <<Event(v.kind), Subject(v), v.no>> /\ Subject(v) \in Rows \cup Entities
  BY <1>2, <1>3 DEF Entry
<1>6. Entry(v) \in Entries
  BY <1>1, <1>4, <1>5 DEF Entries
<1> QED
  BY <1>2, <1>3, <1>5, <1>6

LEMMA AuditStep ==
  ASSUME RecordsInv, AuditInv, NEW p \in Requests, LogsTyped', Burials, Rest(p),
         log \subseteq log', effects \subseteq effects', failed \subseteq failed',
         \A x \in log' : \/ x \in log \/ x \in effects'
                         \/ x[1] = "deleted" /\ Buried(x[2], entity', row'),
         \A x \in effects' : \/ x \in effects
                             \/ Bearing(pc'[p], loc'[p]) /\ Entry(loc'[p]) = x,
         \A x \in effects :
           Bearing(pc[p], loc[p]) /\ Entry(loc[p]) = x =>
             \/ x \in log' \/ x[3] \in failed'
             \/ x[1] = "updated" /\ Buried(x[2], entity', row')
             \/ Bearing(pc'[p], loc'[p]) /\ Entry(loc'[p]) = x,
         Settled(pc'[p], loc'[p], effects', entity', row')
  PROVE  AuditInv'
<1>1. \A s \in Rows \cup Entities : Buried(s, entity, row) => Buried(s, entity', row')
  BY DEF Buried, Burials
<1>2. \A x \in Entries : x[2] \in Rows \cup Entities
  BY DEF Entries
<1>3. LogIsTrue'
  BY <1>1, <1>2 DEF AuditInv, LogsTyped, LogIsTrue
<1>4. \A q \in Requests \ {p} : Bearing(pc[q], loc[q]) =>
        Bearing(pc'[q], loc'[q]) /\ Entry(loc'[q]) = Entry(loc[q])
  BY DEF Rest, Bearing, Entry, Subject
<1>5. NothingForgotten'
  <2>1. ASSUME NEW x \in effects'
        PROVE  \/ x \in log' \/ x[3] \in failed'
               \/ x[1] = "updated" /\ Buried(x[2], entity', row')
               \/ \E q \in Requests : Bearing(pc'[q], loc'[q]) /\ Entry(loc'[q]) = x
    <3>1. CASE Bearing(pc'[p], loc'[p]) /\ Entry(loc'[p]) = x
      BY <3>1
    <3>2. CASE x \in effects
      <4>1. CASE x \in log \/ x[3] \in failed
        BY <4>1
      <4>2. CASE x[1] = "updated" /\ Buried(x[2], entity, row)
        BY <1>1, <1>2, <3>2, <4>2 DEF AuditInv, LogsTyped
      <4>3. CASE Borne(x)
        <5>1. PICK q \in Requests : Bearing(pc[q], loc[q]) /\ Entry(loc[q]) = x
          BY <4>3 DEF Borne
        <5>2. CASE q = p
          BY <3>2, <5>1, <5>2
        <5>3. CASE q # p
          BY <1>4, <5>1, <5>3
        <5> QED
          BY <5>2, <5>3
      <4> QED
        BY <3>2, <4>1, <4>2, <4>3 DEF AuditInv, NothingForgotten
    <3> QED
      BY <2>1, <3>1, <3>2
  <2> QED
    BY <2>1 DEF NothingForgotten, Borne
<1>6. Answers'
  <2>1. ASSUME NEW q \in Requests \ {p}
        PROVE  Settled(pc'[q], loc'[q], effects', entity', row')
    <3>1. Settled(pc[q], loc[q], effects, entity, row)
      BY DEF AuditInv, Answers
    <3>2. /\ pc'[q] = pc[q] /\ loc'[q].kind = loc[q].kind /\ loc'[q].e = loc[q].e
          /\ Entry(loc'[q]) = Entry(loc[q]) /\ Subject(loc'[q]) = Subject(loc[q])
      BY DEF Rest, Entry, Subject
    <3>3. loc[q].kind \in {"redefine", "drop"} => loc[q].e \in Entities
      BY TypedFacts DEF Knows, Control
    <3>4. pc[q] \in {"reread", "audit"} => Subject(loc[q]) \in Rows \cup Entities
      <4>1. pc[q] \in {"reread", "audit"} =>
              \/ loc[q].kind \in {"update", "move", "remove", "define", "redefine", "drop"}
              \/ Bearing(pc[q], loc[q])
        BY TypedFacts DEF Knows, Control, Bearing, Validating, Calling
      <4> QED
        BY <4>1, SubjectsTyped
    <3> QED
      BY <1>1, <3>1, <3>2, <3>3, <3>4 DEF Settled, Burials
  <2> QED
    BY <2>1 DEF Answers
<1> QED
  BY <1>3, <1>5, <1>6 DEF AuditInv

LEMMA RestKept ==
  ASSUME RecordsInv, NEW p \in Requests, NEW l, NEW v,
         pc' = [pc EXCEPT ![p] = l], loc' = [loc EXCEPT ![p] = v]
  PROVE  Rest(p) /\ pc'[p] = l /\ loc'[p] = v
BY DEF RecordsInv, Typed, Rest

LEMMA RestMoved ==
  ASSUME RecordsInv, NEW p \in Requests, NEW l,
         pc' = [pc EXCEPT ![p] = l], UNCHANGED loc
  PROVE  Rest(p) /\ pc'[p] = l /\ loc'[p] = loc[p]
BY DEF RecordsInv, Typed, Rest

LEMMA RestMarked ==
  ASSUME RecordsInv, NEW p \in Requests, NEW l, NEW v, NEW r,
         pc' = [pc EXCEPT ![p] = l], Marked(p, v, r)
  PROVE  Rest(p) /\ pc'[p] = l /\ loc'[p] = v
<1>1. loc'[p] = v /\ pc'[p] = l
  BY DEF Marked, RecordsInv, Typed
<1>2. ASSUME NEW q \in Requests \ {p}
      PROVE  /\ pc'[q] = pc[q] /\ loc'[q].kind = loc[q].kind /\ loc'[q].e = loc[q].e
             /\ loc'[q].r = loc[q].r /\ loc'[q].no = loc[q].no
  <2>1. loc'[q] = [loc[q] EXCEPT !.raced = loc[q].raced \/ Overtaken(q, r)]
    BY DEF Marked
  <2>2. loc[q] \in Local /\ pc'[q] = pc[q]
    BY DEF RecordsInv, Typed
  <2> QED
    BY <2>1, <2>2 DEF Local
<1> QED
  BY <1>1, <1>2 DEF Rest

LEMMA NothingBuried ==
  ASSUME RecordsInv, UNCHANGED <<entity, row>>  PROVE  Burials
BY DEF Burials

(* A step of p that does nothing worth logging. *)
LEMMA SilentStep ==
  ASSUME RecordsInv, AuditInv, NEW p \in Requests, Burials, Rest(p),
         log' = log, effects' = effects, failed' = failed,
         Bearing(pc[p], loc[p]) =>
           \/ Event(loc[p].kind) = "updated" /\ Buried(Subject(loc[p]), entity', row')
           \/ Bearing(pc'[p], loc'[p]) /\ Entry(loc'[p]) = Entry(loc[p]),
         Settled(pc'[p], loc'[p], effects, entity', row')
  PROVE  AuditInv'
<1>1. LogsTyped'
  BY DEF AuditInv, LogsTyped
<1>2. \A x \in log' : x \in log
  OBVIOUS
<1>3. \A x \in effects : Bearing(pc[p], loc[p]) /\ Entry(loc[p]) = x =>
        \/ x[1] = "updated" /\ Buried(x[2], entity', row')
        \/ Bearing(pc'[p], loc'[p]) /\ Entry(loc'[p]) = x
  BY DEF Entry
<1> QED
  BY <1>1, <1>2, <1>3, AuditStep

LEMMA SilentEnd ==
  ASSUME RecordsInv, AuditInv, NEW p \in Requests, Burials, End(p),
         log' = log, effects' = effects, failed' = failed,
         Bearing(pc[p], loc[p]) =>
           Event(loc[p].kind) = "updated" /\ Buried(Subject(loc[p]), entity', row')
  PROVE  AuditInv'
<1>1. Rest(p) /\ pc'[p] = "idle" /\ loc'[p] = NoLocal
  BY RestKept DEF End, Goto
<1>2. Settled("idle", NoLocal, effects, entity', row')
  BY DEF Settled, NoLocal
<1> QED
  BY <1>1, <1>2, SilentStep

(* The calls of the workflows, from the first to the last. *)
LEMMA CallingGoesOn ==
  ASSUME RecordsInv, AuditInv, NEW p \in Requests, Burials, Rest(p),
         log' = log, effects' = effects, failed' = failed,
         pc[p] \in Calling \cup {"slug", "workflows"}, pc'[p] \in Calling \cup {"workflows"},
         loc'[p].kind = loc[p].kind, loc'[p].r = loc[p].r, loc'[p].no = loc[p].no
  PROVE  AuditInv'
<1>1. loc[p].kind \in {"create", "employee", "resume"}
  BY TypedFacts DEF Knows, Control, Validating, Calling
<1>2. pc[p] \notin Validating /\ pc'[p] \notin Validating
      /\ pc[p] \notin {"reread", "audit"} /\ pc'[p] \notin {"reread", "audit"}
  BY DEF Calling, Validating
<1>3. Entry(loc'[p]) = Entry(loc[p])
  BY <1>1 DEF Entry, Subject
<1>4. Settled(pc[p], loc[p], effects, entity, row)
  BY DEF AuditInv, Answers
<1>5. Settled(pc'[p], loc'[p], effects, entity', row')
  BY <1>1, <1>2, <1>3, <1>4 DEF Settled
<1>6. Bearing(pc[p], loc[p]) => Bearing(pc'[p], loc'[p])
  BY <1>1, <1>2 DEF Bearing
<1> QED
  BY <1>3, <1>5, <1>6, SilentStep

(* A step of p that does what it will log. *)
LEMMA DoingStep ==
  ASSUME RecordsInv, AuditInv, NEW p \in Requests, Burials, Rest(p),
         log' = log, failed' = failed, effects' = effects \cup {Entry(loc'[p])},
         Entry(loc'[p]) \in Entries, ~Bearing(pc[p], loc[p]), Bearing(pc'[p], loc'[p]),
         loc'[p].kind \in {"redefine", "drop"} => entity'[loc'[p].e].version > 0
  PROVE  AuditInv'
<1>1. LogsTyped'
  BY DEF AuditInv, LogsTyped
<1>2. Settled(pc'[p], loc'[p], effects', entity', row')
  BY DEF Settled
<1> QED
  BY <1>1, <1>2, AuditStep

LEMMA ArrivesQuietly ==
  ASSUME RecordsInv, AuditInv, NEW p \in Requests, NEW l \in Points, NEW v \in Local,
         Arrive(p, v, l), ~Bearing(l, v), l \notin {"reread", "audit"},
         v.kind \in {"redefine", "drop"} => entity[v.e].version > 0
  PROVE  AuditInv'
<1> DEFINE w == [v EXCEPT !.no = started']
<1>1. w.kind = v.kind /\ w.e = v.e
  BY DEF Local
<1>2. pc' = [pc EXCEPT ![p] = l] /\ loc' = [loc EXCEPT ![p] = w]
      /\ UNCHANGED <<entity, row, log, effects, failed>> /\ pc[p] = "idle"
  BY DEF Arrive, Keep, Goto, tables
<1> HIDE DEF w
<1>3. Rest(p) /\ pc'[p] = l /\ loc'[p] = w /\ Burials
  BY <1>2, RestKept, NothingBuried
<1>4. ~Bearing("idle", loc[p])
  BY <1>2, TypedFacts DEF Knows, Control, Bearing, Validating, Calling
<1>5. Settled(l, w, effects, entity, row)
  BY <1>1 DEF Settled, Bearing
<1> QED
  BY <1>2, <1>3, <1>4, <1>5, SilentStep

LEMMA BeginAudited ==
  ASSUME RecordsInv, AuditInv, NEW p \in Requests, Begin(p)  PROVE  AuditInv'
<1> USE NoLocalTyped, TypedFacts
<1>0. \A r \in Rows : row[r].status = "live" => row[r].entity \in Entities
  BY DEF RecordsInv, Contents, RowsMatch
<1>1. CASE BeginCreate(p)
  <2>1. PICK e \in Existing, d \in Known :
          Arrive(p, [NoLocal EXCEPT !.kind = "create", !.e = e, !.data = d,
                                    !.def = entity[e]], "code")
    BY <1>1 DEF BeginCreate
  <2> DEFINE v == [NoLocal EXCEPT !.kind = "create", !.e = e, !.data = d, !.def = entity[e]]
  <2>2. e \in Entities /\ d \in Data /\ entity[e] \in Definition
    BY RecordsAssumption DEF Existing, Known, Data
  <2>3. v \in Local /\ v.kind = "create" /\ Arrive(p, v, "code")
    BY <2>1, <2>2 DEF Local, Kinds, NoLocal
  <2> HIDE DEF v
  <2> QED
    BY <2>3, ArrivesQuietly DEF Bearing, Points, Validating
<1>2. CASE BeginUpdate(p)
  <2>1. PICK r \in Rows, d \in Known, into \in Existing \cup {Null} :
          /\ row[r].status = "live"
          /\ Arrive(p, [NoLocal EXCEPT !.kind = "update", !.e = row[r].entity, !.r = r,
                                       !.data = d, !.def = entity[row[r].entity],
                                       !.into = into], "code")
    BY <1>2 DEF BeginUpdate
  <2> DEFINE e == row[r].entity
             v == [NoLocal EXCEPT !.kind = "update", !.e = e, !.r = r, !.data = d,
                                  !.def = entity[e], !.into = into]
  <2>2. e \in Entities /\ d \in Data /\ r \in Links /\ into \in Entities \cup {Null}
        /\ entity[e] \in Definition
    BY <1>0, <2>1, RecordsAssumption DEF Known, Data, Links, Existing
  <2>3. v \in Local /\ v.kind = "update" /\ Arrive(p, v, "code")
    BY <2>1, <2>2 DEF Local, Kinds, NoLocal
  <2> HIDE DEF v
  <2> QED
    BY <2>3, ArrivesQuietly DEF Bearing, Points
<1>3. CASE BeginMove(p)
  <2>1. PICK r \in Rows, into \in Existing :
          /\ row[r].status = "live"
          /\ Arrive(p, [NoLocal EXCEPT !.kind = "move", !.e = row[r].entity, !.r = r,
                                       !.into = into], "save")
    BY <1>3 DEF BeginMove
  <2> DEFINE v == [NoLocal EXCEPT !.kind = "move", !.e = row[r].entity, !.r = r,
                                  !.into = into]
  <2>2. row[r].entity \in Entities /\ r \in Links /\ into \in Entities
    BY <1>0, <2>1 DEF Links, Existing
  <2>3. v \in Local /\ v.kind = "move" /\ Arrive(p, v, "save")
    BY <2>1, <2>2 DEF Local, Kinds, NoLocal
  <2> HIDE DEF v
  <2> QED
    BY <2>3, ArrivesQuietly DEF Bearing, Points
<1>4. CASE BeginRemove(p)
  <2>1. PICK r \in Rows :
          /\ row[r].status = "live"
          /\ Arrive(p, [NoLocal EXCEPT !.kind = "remove", !.e = row[r].entity, !.r = r],
                    "delete")
    BY <1>4 DEF BeginRemove
  <2> DEFINE v == [NoLocal EXCEPT !.kind = "remove", !.e = row[r].entity, !.r = r]
  <2>2. v \in Local /\ v.kind = "remove" /\ Arrive(p, v, "delete")
    BY <1>0, <2>1 DEF Local, Kinds, NoLocal, Links
  <2> HIDE DEF v
  <2> QED
    BY <2>2, ArrivesQuietly DEF Bearing, Points
<1>5. CASE BeginEmployee(p)
  <2>1. PICK r \in NewIds :
          /\ row' = [row EXCEPT ![r].status = "employee"]
          /\ Keep(p, [NoLocal EXCEPT !.kind = "employee", !.r = r, !.no = started'])
    BY <1>5 DEF BeginEmployee
  <2> DEFINE v == [NoLocal EXCEPT !.kind = "employee", !.r = r, !.no = started']
  <2>2. v.kind = "employee" /\ loc' = [loc EXCEPT ![p] = v] /\ pc' = [pc EXCEPT ![p] = "slug"]
    BY <1>5, <2>1 DEF NoLocal, Keep, BeginEmployee, Goto
  <2> HIDE DEF v
  <2>3. Rest(p) /\ pc'[p] = "slug" /\ loc'[p] = v
    BY <2>2, RestKept
  <2>4. Burials
    BY <1>5, <2>1, NewIdsFree DEF Burials, BeginEmployee, RecordsInv, Typed
  <2>5. ~Bearing(pc[p], loc[p])
    BY <1>5 DEF BeginEmployee, Knows, Control, Bearing, Validating, Calling
  <2>6. Settled("slug", v, effects, entity', row')
    BY <2>2 DEF Settled
  <2> QED
    BY <1>5, <2>3, <2>4, <2>5, <2>6, SilentStep DEF BeginEmployee
<1>6. CASE BeginResume(p)
  <2>1. PICK r \in Rows :
          Arrive(p, [NoLocal EXCEPT !.kind = "resume", !.r = r], "field_read")
    BY <1>6 DEF BeginResume
  <2> DEFINE v == [NoLocal EXCEPT !.kind = "resume", !.r = r]
  <2>2. v \in Local /\ v.kind = "resume" /\ Arrive(p, v, "field_read")
    BY <2>1 DEF Local, Kinds, NoLocal, Links
  <2> HIDE DEF v
  <2> QED
    BY <2>2, ArrivesQuietly DEF Bearing, Points
<1>7. CASE BeginDefine(p)
  <2>1. PICK e \in Entities, d \in Designs :
          Arrive(p, [NoLocal EXCEPT !.kind = "define", !.e = e, !.def = Designed(d, 1)],
                 "count")
    BY <1>7 DEF BeginDefine
  <2> DEFINE v == [NoLocal EXCEPT !.kind = "define", !.e = e, !.def = Designed(d, 1)]
  <2>2. Designed(d, 1) \in Definition
    BY DesignTyped
  <2>3. v \in Local /\ v.kind = "define" /\ Arrive(p, v, "count")
    BY <2>1, <2>2 DEF Local, Kinds, NoLocal
  <2> HIDE DEF v
  <2> QED
    BY <2>3, ArrivesQuietly DEF Bearing, Points
<1>8. CASE BeginRedefine(p)
  <2>1. PICK e \in Existing, d \in Designs :
          Arrive(p, [NoLocal EXCEPT !.kind = "redefine", !.e = e, !.def = Designed(d, 0)],
                 "alter")
    BY <1>8 DEF BeginRedefine
  <2> DEFINE v == [NoLocal EXCEPT !.kind = "redefine", !.e = e, !.def = Designed(d, 0)]
  <2>2. Designed(d, 0) \in Definition /\ e \in Entities /\ entity[e].version > 0
    BY DesignTyped DEF Existing, RecordsInv, Definitions, Versions
  <2>3. v \in Local /\ v.kind = "redefine" /\ v.e = e /\ Arrive(p, v, "alter")
    BY <2>1, <2>2 DEF Local, Kinds, NoLocal
  <2> HIDE DEF v
  <2> QED
    BY <2>2, <2>3, ArrivesQuietly DEF Bearing, Points
<1>9. CASE BeginDrop(p)
  <2>1. PICK e \in Existing : Arrive(p, [NoLocal EXCEPT !.kind = "drop", !.e = e], "records")
    BY <1>9 DEF BeginDrop
  <2> DEFINE v == [NoLocal EXCEPT !.kind = "drop", !.e = e]
  <2>2. entity[e].version > 0 /\ e \in Entities
    BY DEF Existing, RecordsInv, Definitions, Versions
  <2>3. v \in Local /\ v.kind = "drop" /\ v.e = e /\ Arrive(p, v, "records")
    BY <2>1, <2>2 DEF Local, Kinds, NoLocal
  <2> HIDE DEF v
  <2> QED
    BY <2>2, <2>3, ArrivesQuietly DEF Bearing, Points
<1> QED
  BY <1>1, <1>2, <1>3, <1>4, <1>5, <1>6, <1>7, <1>8, <1>9 DEF Begin

(* The steps of a request that only read. *)
LEMMA ReadsAudited ==
  ASSUME RecordsInv, AuditInv, NEW p \in Requests,
         CheckCode(p) \/ CheckLink(p) \/ Reread(p) \/ CheckLimit(p) \/ CountRecords(p)
  PROVE  AuditInv'
<1> DEFINE v == loc[p]
<1>1. /\ UNCHANGED <<entity, row, log, effects, failed>>
      /\ pc[p] \in {"code", "link", "reread", "count", "records"}
  BY DEF CheckCode, CheckLink, Reread, CheckLimit, CountRecords, tables, Continue
<1>2. Burials
  BY <1>1, NothingBuried
<1>3. Control(pc[p], v) /\ OnRows(pc[p], v, row) /\ Settled(pc[p], v, effects, entity, row)
  BY TypedFacts DEF Knows, AuditInv, Answers
<1>4. Bearing(pc[p], v) <=> pc[p] = "reread"
  BY <1>1, <1>3 DEF Control, Bearing, Validating, Calling
<1>5. CASE End(p)
  <2>1. ASSUME pc[p] = "reread"
        PROVE  Event(v.kind) = "updated" /\ Buried(Subject(v), entity, row)
    <3>1. v.kind \in {"update", "move", "redefine"}
      BY <1>3, <2>1 DEF Control, Validating, Calling
    <3>2. ~Found(v)
      <4>1. CASE Found(v)
        <5>1. pc' = [pc EXCEPT ![p] = "audit"] /\ pc' = [pc EXCEPT ![p] = "idle"]
          BY <1>5, <2>1, <4>1 DEF CheckCode, CheckLink, Reread, CheckLimit, CountRecords,
             End, Goto
        <5>2. pc'[p] = "audit" /\ pc'[p] = "idle"
          BY <5>1 DEF RecordsInv, Typed
        <5> QED
          BY <5>2
      <4> QED
        BY <4>1
    <3>3. CASE v.kind = "redefine"
      BY <1>3, <3>2, <3>3, SubjectsTyped, RecordsAssumption
         DEF Found, Settled, Buried, Event
    <3>4. CASE v.kind # "redefine"
      BY <1>3, <3>1, <3>2, <3>4, SubjectsTyped
         DEF Found, OnRows, Lasting, Buried, Event
    <3> QED
      BY <3>3, <3>4
  <2> QED
    BY <1>1, <1>2, <1>4, <1>5, <2>1, SilentEnd
<1>6. CASE ~End(p)
  <2>1. PICK l \in {"link", "save", "audit", "insert", "drop"} :
          /\ Goto(p, l) /\ UNCHANGED loc
          /\ pc[p] = "reread" => l = "audit" /\ Found(v)
          /\ pc[p] \in {"code", "link"} => l \in {"link", "save"}
          /\ pc[p] \in {"count", "records"} => l \in {"insert", "drop"}
    BY <1>6 DEF CheckCode, CheckLink, Reread, CheckLimit, CountRecords
  <2>2. Rest(p) /\ pc'[p] = l /\ loc'[p] = v
    BY <2>1, RestMoved DEF Goto
  <2>3. CASE pc[p] = "reread"
    <3>1. v.kind \in {"update", "move", "redefine"}
      BY <1>3, <2>3 DEF Control, Validating, Calling
    <3>2. ~Buried(Subject(v), entity, row)
      BY <2>1, <2>3, <3>1, SubjectsTyped, RecordsAssumption DEF Found, Buried
    <3>3. Settled("audit", v, effects, entity, row) /\ Bearing("audit", v)
      BY <1>3, <2>3, <3>1, <3>2 DEF Settled, Bearing
    <3> QED
      BY <1>1, <1>2, <2>1, <2>2, <2>3, <3>3, SilentStep
  <2>4. CASE pc[p] # "reread"
    <3>1. v.kind = "create" => l \in Validating
      BY <1>1, <1>3, <2>1, <2>4 DEF Control, Validating, Calling
    <3>2. Settled(l, v, effects, entity, row)
      BY <1>1, <1>3, <2>1, <2>4, <3>1 DEF Settled
    <3> QED
      BY <1>1, <1>2, <1>4, <2>2, <2>4, <3>2, SilentStep
  <2> QED
    BY <2>3, <2>4
<1> QED
  BY <1>5, <1>6

LEMMA AfterActionAudited ==
  ASSUME RecordsInv, AuditInv, NEW p \in Requests, AfterAction(p), Burials,
         log' = log, effects' = effects, failed' = failed,
         pc[p] \in {"field_read", "field_write", "new_find", "new_save"}
  PROVE  AuditInv'
<1>1. CASE loc[p].kind = "resume"
  BY <1>1, SilentEnd DEF AfterAction, Bearing
<1>2. CASE loc[p].kind # "resume"
  <2>1. Rest(p) /\ pc'[p] = "run" /\ loc'[p] = loc[p]
    BY <1>2, RestMoved DEF AfterAction, Goto
  <2> QED
    BY <2>1, CallingGoesOn DEF Calling
<1> QED
  BY <1>1, <1>2

(* The steps between the creation of a row and the end of its triggers. *)
LEMMA TriggersAudited ==
  ASSUME RecordsInv, AuditInv, NEW p \in Requests,
         \/ FindBySlug(p) \/ FindWorkflows(p) \/ RunWorkflow(p) \/ TriggersDone(p)
         \/ ReadField(p) \/ FindCreated(p) \/ ActionFails(p)
  PROVE  AuditInv'
<1> DEFINE v == loc[p]
<1>1. UNCHANGED <<entity, row, log, effects, failed>>
  BY DEF FindBySlug, FindWorkflows, RunWorkflow, TriggersDone, ReadField, FindCreated,
     ActionFails, tables, Continue
<1>2. Burials
  BY <1>1, NothingBuried
<1>3. v \in Local /\ Control(pc[p], v) /\ Settled(pc[p], v, effects, entity, row)
  BY TypedFacts DEF Knows, AuditInv, Answers
<1>4. CASE FindBySlug(p)
  <2>1. CASE End(p)
    <3>1. v.kind = "employee"
      BY <1>3, <1>4 DEF FindBySlug, Control, Validating, Calling
    <3> QED
      BY <1>1, <1>2, <2>1, <3>1, SilentEnd DEF Bearing
  <2>2. CASE ~End(p)
    <3>1. PICK e \in Existing : Keep(p, [v EXCEPT !.e = e]) /\ Goto(p, "workflows")
      BY <1>4, <2>2 DEF FindBySlug
    <3>2. Rest(p) /\ pc'[p] = "workflows" /\ loc'[p] = [v EXCEPT !.e = e]
      BY <3>1, RestKept DEF Keep, Goto
    <3>3. loc'[p].kind = v.kind /\ loc'[p].r = v.r /\ loc'[p].no = v.no
      BY <1>3, <3>2 DEF Local
    <3> QED
      BY <1>1, <1>2, <1>4, <3>2, <3>3, CallingGoesOn DEF FindBySlug
  <2> QED
    BY <2>1, <2>2
<1>5. CASE FindWorkflows(p)
  <2> DEFINE t == {w \in active : v.e \in Linked[w]}
  <2>1. Rest(p) /\ pc'[p] = "run" /\ loc'[p] = [v EXCEPT !.todo = t]
    BY <1>5, RestKept DEF FindWorkflows, Keep, Goto
  <2> HIDE DEF t
  <2>2. loc'[p].kind = v.kind /\ loc'[p].r = v.r /\ loc'[p].no = v.no
    BY <1>3, <2>1 DEF Local
  <2> QED
    BY <1>1, <1>2, <1>5, <2>1, <2>2, CallingGoesOn DEF FindWorkflows, Calling
<1>6. CASE RunWorkflow(p)
  <2>1. PICK w \in v.todo :
          /\ Keep(p, [v EXCEPT !.todo = @ \ {w}])
          /\ Goto(p, IF w \in active THEN FirstPoint(w) ELSE "run")
    BY <1>6 DEF RunWorkflow
  <2> DEFINE l == IF w \in active THEN FirstPoint(w) ELSE "run"
             t == v.todo \ {w}
  <2>2. l \in Calling
    BY DEF FirstPoint, Calling
  <2>3. Rest(p) /\ pc'[p] = l /\ loc'[p] = [v EXCEPT !.todo = t]
    BY <2>1, RestKept DEF Keep, Goto
  <2> HIDE DEF l, t
  <2>4. loc'[p].kind = v.kind /\ loc'[p].r = v.r /\ loc'[p].no = v.no
    BY <1>3, <2>3 DEF Local
  <2> QED
    BY <1>1, <1>2, <1>6, <2>2, <2>3, <2>4, CallingGoesOn DEF RunWorkflow, Calling
<1>7. CASE TriggersDone(p)
  <2>1. v.kind \in {"create", "employee"} /\ pc[p] = "run"
    BY <1>3, <1>7 DEF TriggersDone, Control, Validating, Calling
  <2>2. CASE v.kind = "create"
    <3>1. Rest(p) /\ pc'[p] = "audit" /\ loc'[p] = v
      BY <1>7, <2>2, RestMoved DEF TriggersDone, Goto
    <3>2. Settled("audit", v, effects, entity, row) /\ Bearing("audit", v)
      BY <1>3, <2>1, <2>2 DEF Settled, Bearing, Validating
    <3> QED
      BY <1>1, <1>2, <3>1, <3>2, SilentStep
  <2>3. CASE v.kind # "create"
    BY <1>1, <1>2, <1>7, <2>1, <2>3, SilentEnd DEF TriggersDone, Bearing
  <2> QED
    BY <2>2, <2>3
<1>8. CASE ReadField(p)
  <2>1. CASE row[v.r].status # "live"
    BY <1>1, <1>2, <1>8, <2>1, AfterActionAudited DEF ReadField
  <2>2. CASE row[v.r].status = "live"
    <3> DEFINE d == row[v.r].data
    <3>1. Rest(p) /\ pc'[p] = "field_write"
          /\ loc'[p] = [v EXCEPT !.data = d, !.raced = FALSE]
      BY <1>8, <2>2, RestKept DEF ReadField, Keep, Goto
    <3> HIDE DEF d
    <3>2. loc'[p].kind = v.kind /\ loc'[p].r = v.r /\ loc'[p].no = v.no
      BY <1>3, <3>1 DEF Local
    <3> QED
      BY <1>1, <1>2, <1>8, <3>1, <3>2, CallingGoesOn DEF ReadField, Calling
  <2> QED
    BY <2>1, <2>2
<1>9. CASE FindCreated(p)
  <2>1. CASE AfterAction(p)
    BY <1>1, <1>2, <1>9, <2>1, AfterActionAudited DEF FindCreated
  <2>2. CASE ~AfterAction(p)
    <3>1. PICK e \in Existing : Keep(p, [v EXCEPT !.into = e]) /\ Goto(p, "new_save")
      BY <1>9, <2>2 DEF FindCreated
    <3>2. Rest(p) /\ pc'[p] = "new_save" /\ loc'[p] = [v EXCEPT !.into = e]
      BY <3>1, RestKept DEF Keep, Goto
    <3>3. loc'[p].kind = v.kind /\ loc'[p].r = v.r /\ loc'[p].no = v.no
      BY <1>3, <3>2 DEF Local
    <3> QED
      BY <1>1, <1>2, <1>9, <3>2, <3>3, CallingGoesOn DEF FindCreated, Calling
  <2> QED
    BY <2>1, <2>2
<1>10. CASE ActionFails(p)
  BY <1>1, <1>2, <1>10, AfterActionAudited DEF ActionFails
<1> QED
  BY <1>4, <1>5, <1>6, <1>7, <1>8, <1>9, <1>10

(* What an automation writes is not logged. *)
LEMMA AutomationAudited ==
  ASSUME RecordsInv, AuditInv, NEW p \in Requests, WriteField(p) \/ InsertCreated(p)
  PROVE  AuditInv'
<1> DEFINE v == loc[p]
<1>1. UNCHANGED <<entity, log, effects, failed>>
  BY DEF WriteField, InsertCreated, Continue
<1>2. v \in Local /\ Control(pc[p], v)
  BY TypedFacts DEF Knows
<1>3. Burials
  BY <1>1, NewIdsFree DEF WriteField, InsertCreated, Burials, RecordsInv, Typed
<1>4. CASE WriteField(p)
  <2>1. CASE row[v.r].status # "live"
    BY <1>1, <1>3, <1>4, <2>1, AfterActionAudited DEF WriteField
  <2>2. CASE row[v.r].status = "live" /\ v.kind # "resume"
    <3>1. Rest(p) /\ pc'[p] = "run" /\ loc'[p] = v
      BY <1>4, <2>2, RestMarked DEF WriteField, Goto
    <3> QED
      BY <1>1, <1>3, <1>4, <3>1, CallingGoesOn DEF WriteField, Calling
  <2>3. CASE row[v.r].status = "live" /\ v.kind = "resume"
    <3>1. Rest(p) /\ pc'[p] = "idle" /\ loc'[p] = NoLocal
      BY <1>4, <2>3, RestMarked DEF WriteField, Goto
    <3>2. Settled("idle", NoLocal, effects, entity', row') /\ ~Bearing(pc[p], v)
      BY <2>3 DEF Settled, NoLocal, Bearing
    <3> QED
      BY <1>1, <1>3, <3>1, <3>2, SilentStep
  <2> QED
    BY <2>1, <2>2, <2>3
<1>5. CASE InsertCreated(p)
  <2>1. Rest(p) /\ pc'[p] = "run" /\ loc'[p] = v
    <3>1. CASE entity[v.into].exists
      BY <1>5, <3>1, RestMarked DEF InsertCreated, Goto
    <3>2. CASE ~entity[v.into].exists
      BY <1>5, <3>2, RestMoved DEF InsertCreated, Goto
    <3> QED
      BY <3>1, <3>2
  <2> QED
    BY <1>1, <1>3, <1>5, <2>1, CallingGoesOn DEF InsertCreated, Calling
<1> QED
  BY <1>4, <1>5

(* The steps that do what is logged later. *)
LEMMA InsertRowAudited ==
  ASSUME RecordsInv, AuditInv, NEW p \in Requests, InsertRow(p)  PROVE  AuditInv'
<1> DEFINE u == loc[p]
<1>1. /\ pc[p] = "save" /\ u.kind = "create" /\ u \in Local /\ Control(pc[p], u)
      /\ UNCHANGED <<entity, log, failed>>
  BY TypedFacts DEF InsertRow, Continue, Knows
<1>2. ~Bearing(pc[p], u)
  BY <1>1 DEF Bearing, Validating
<1>3. CASE ~entity[u.e].exists
  <2>1. Burials
    BY <1>1, <1>3, NothingBuried DEF InsertRow
  <2> QED
    BY <1>1, <1>2, <1>3, <2>1, SilentEnd DEF InsertRow
<1>4. CASE entity[u.e].exists
  <2>1. PICK r \in NewIds :
          /\ Marked(p, [u EXCEPT !.r = r], r) /\ Did([u EXCEPT !.r = r])
          /\ \A s \in Rows \ {r} : row'[s] = row[s]
          /\ Goto(p, "workflows")
    BY <1>1, <1>4 DEF InsertRow, RecordsInv, Typed
  <2> DEFINE v == [u EXCEPT !.r = r]
  <2>2. r \in Rows /\ row[r].status = "free"
    BY NewIdsFree
  <2>3. v.kind = "create" /\ v.r = r /\ v.no = u.no /\ u.no \in 0..MaxRequests
    BY <1>1 DEF Local
  <2>4. Marked(p, v, r) /\ effects' = effects \cup {Entry(v)}
    BY <2>1 DEF Did
  <2> HIDE DEF v
  <2>5. Rest(p) /\ pc'[p] = "workflows" /\ loc'[p] = v
    BY <2>1, <2>4, RestMarked DEF Goto
  <2>6. Burials
    BY <1>1, <2>1, <2>2 DEF Burials
  <2>7. Entry(v) \in Entries
    BY <2>2, <2>3 DEF Entry, Entries, Event, Subject
  <2>8. Bearing("workflows", v)
    BY <2>3 DEF Bearing, Validating
  <2> QED
    BY <1>1, <1>2, <2>3, <2>4, <2>5, <2>6, <2>7, <2>8, DoingStep
<1> QED
  BY <1>3, <1>4

LEMMA ReplaceAudited ==
  ASSUME RecordsInv, AuditInv, NEW p \in Requests, Replace(p)  PROVE  AuditInv'
<1> DEFINE u == loc[p]
<1>1. /\ pc[p] = "save" /\ u.kind \in {"update", "move"} /\ OnRows(pc[p], u, row)
      /\ UNCHANGED <<entity, log, failed>>
  BY TypedFacts DEF Replace, Continue, Knows
<1>2. ~Bearing(pc[p], u)
  BY <1>1 DEF Bearing
<1>3. u.r \in Rows /\ Entry(u) \in Entries /\ Subject(u) = u.r
  BY <1>1, SubjectsTyped
<1>4. Bearing("reread", u)
  BY <1>1 DEF Bearing
<1>5. CASE row[u.r].status # "live"
  <2>1. UNCHANGED <<row, effects>> /\ Rest(p) /\ pc'[p] = "reread" /\ loc'[p] = u
    BY <1>5, RestMoved DEF Replace, Goto
  <2>2. Burials
    BY <1>1, <2>1, NothingBuried
  <2>3. Buried(Subject(u), entity, row)
    BY <1>1, <1>3, <1>5 DEF OnRows, Lasting, Buried
  <2>4. Settled("reread", u, effects, entity, row)
    BY <1>1, <2>3 DEF Settled
  <2> QED
    BY <1>1, <1>2, <2>1, <2>2, <2>4, SilentStep
<1>6. CASE row[u.r].status = "live" /\ ~entity[Target(u)].exists
  <2>1. End(p) /\ UNCHANGED <<row, effects>>
    BY <1>6 DEF Replace
  <2> QED
    BY <1>1, <1>2, <2>1, NothingBuried, SilentEnd
<1>7. CASE row[u.r].status = "live" /\ entity[Target(u)].exists
  <2>1. /\ Marked(p, u, u.r) /\ effects' = effects \cup {Entry(u)} /\ Goto(p, "reread")
        /\ \A s \in Rows \ {u.r} : row'[s] = row[s]
    BY <1>7 DEF Replace, Did, RecordsInv, Typed
  <2>2. Rest(p) /\ pc'[p] = "reread" /\ loc'[p] = u
    BY <2>1, RestMarked DEF Goto
  <2>3. Burials
    BY <1>1, <1>7, <2>1 DEF Burials
  <2> QED
    BY <1>1, <1>2, <1>3, <1>4, <2>1, <2>2, <2>3, DoingStep
<1> QED
  BY <1>5, <1>6, <1>7

LEMMA DeleteRowAudited ==
  ASSUME RecordsInv, AuditInv, NEW p \in Requests, DeleteRow(p)  PROVE  AuditInv'
<1> DEFINE u == loc[p]
<1>1. /\ pc[p] = "delete" /\ OnRows(pc[p], u, row) /\ Control(pc[p], u)
      /\ UNCHANGED <<entity, log, failed>>
      /\ Rest(p) /\ pc'[p] = "audit" /\ loc'[p] = u
  BY TypedFacts, RestMoved DEF DeleteRow, Continue, Knows, Goto
<1>2. u.kind = "remove" /\ ~Bearing(pc[p], u) /\ Bearing("audit", u)
  BY <1>1 DEF Control, Bearing, Validating, Calling
<1>3. u.r \in Rows /\ Entry(u) \in Entries /\ Subject(u) = u.r
  BY <1>2, SubjectsTyped
<1>4. CASE row[u.r].status # "live"
  <2>1. UNCHANGED <<row, effects>> /\ Burials
    BY <1>1, <1>4, NothingBuried DEF DeleteRow
  <2>2. Settled("audit", u, effects, entity, row)
    BY <1>1, <1>2, <1>3, <1>4 DEF OnRows, Lasting, Buried, Settled, Event
  <2> QED
    BY <1>1, <1>2, <2>1, <2>2, SilentStep
<1>5. CASE row[u.r].status = "live"
  <2>1. effects' = effects \cup {Entry(u)} /\ \A s \in Rows \ {u.r} : row'[s] = row[s]
    BY <1>5 DEF DeleteRow, Did, RecordsInv, Typed
  <2>2. Burials
    BY <1>1, <1>5, <2>1 DEF Burials
  <2> QED
    BY <1>1, <1>2, <1>3, <2>1, <2>2, DoingStep
<1> QED
  BY <1>4, <1>5

LEMMA InsertEntityAudited ==
  ASSUME RecordsInv, AuditInv, NEW p \in Requests, InsertEntity(p)  PROVE  AuditInv'
<1> DEFINE u == loc[p]
<1>1. /\ pc[p] = "insert" /\ Control(pc[p], u) /\ OnDefinition(pc[p], u, entity)
      /\ UNCHANGED <<row, log, failed>> /\ u \in Local
  BY TypedFacts DEF InsertEntity, Continue, Knows
<1>2. u.kind = "define" /\ ~Bearing(pc[p], u) /\ Bearing("audit", u)
  BY <1>1 DEF Control, Bearing, Validating, Calling
<1>3. CASE ~SlugFree(u.e, u.def.slug)
  BY <1>1, <1>2, <1>3, NothingBuried, SilentEnd DEF InsertEntity
<1>4. CASE SlugFree(u.e, u.def.slug)
  <2>1. /\ effects' = effects \cup {Entry(u)} /\ Rest(p) /\ pc'[p] = "audit" /\ loc'[p] = u
        /\ entity' = [entity EXCEPT ![u.e] = u.def]
    BY <1>4, RestMoved DEF InsertEntity, Did, Goto
  <2>2. u.e \in Entities /\ Entry(u) \in Entries
    BY <1>2, SubjectsTyped
  <2>3. Burials
    BY <1>1, <2>1, <2>2 DEF Burials, OnDefinition, RecordsInv, Typed
  <2> QED
    BY <1>1, <1>2, <2>1, <2>2, <2>3, DoingStep
<1> QED
  BY <1>3, <1>4

LEMMA AlterEntityAudited ==
  ASSUME RecordsInv, AuditInv, NEW p \in Requests, AlterEntity(p)  PROVE  AuditInv'
<1> DEFINE u == loc[p]
           e == u.e
<1>1. /\ pc[p] = "alter" /\ Control(pc[p], u) /\ u \in Local
      /\ UNCHANGED <<row, log, failed>> /\ Settled(pc[p], u, effects, entity, row)
  BY TypedFacts DEF AlterEntity, Continue, Knows, AuditInv, Answers
<1>2. u.kind = "redefine" /\ ~Bearing(pc[p], u) /\ Bearing("reread", u)
  BY <1>1 DEF Control, Bearing, Validating, Calling
<1>3. e \in Entities /\ Subject(u) = e /\ Entry(u) \in Entries /\ entity[e].version > 0
  BY <1>1, <1>2, SubjectsTyped DEF Settled
<1>4. CASE entity[e].exists /\ ~SlugFree(e, u.def.slug)
  BY <1>1, <1>2, <1>4, NothingBuried, SilentEnd DEF AlterEntity
<1>5. CASE ~entity[e].exists
  <2>1. UNCHANGED <<entity, effects>> /\ Rest(p) /\ pc'[p] = "reread" /\ loc'[p] = u
    BY <1>5, RestMoved DEF AlterEntity, Goto
  <2>2. Settled("reread", u, effects, entity, row)
    BY <1>2, <1>3, <1>5, RecordsAssumption DEF Settled, Buried
  <2> QED
    BY <1>1, <1>2, <2>1, <2>2, NothingBuried, SilentStep
<1>6. CASE entity[e].exists /\ SlugFree(e, u.def.slug)
  <2> DEFINE x == [u.def EXCEPT !.version = entity[e].version + 1]
  <2>1. /\ effects' = effects \cup {Entry(u)} /\ Rest(p) /\ pc'[p] = "reread" /\ loc'[p] = u
        /\ entity' = [entity EXCEPT ![e] = x]
    BY <1>6, RestMoved DEF AlterEntity, Did, Goto
  <2>2. x.version = entity[e].version + 1 /\ entity[e].version \in Nat
    BY <1>1, <1>3, TypedFacts DEF Local, Definition
  <2> HIDE DEF x
  <2>3. entity'[e].version > 0 /\ \A y \in Entities \ {e} : entity'[y] = entity[y]
    BY <1>3, <2>1, <2>2 DEF RecordsInv, Typed
  <2>4. Burials
    BY <1>1, <1>6, <2>3 DEF Burials
  <2> QED
    BY <1>1, <1>2, <1>3, <2>1, <2>3, <2>4, DoingStep
<1> QED
  BY <1>4, <1>5, <1>6

LEMMA DeleteEntityAudited ==
  ASSUME RecordsInv, AuditInv, NEW p \in Requests, DeleteEntity(p)  PROVE  AuditInv'
<1> DEFINE u == loc[p]
           e == u.e
<1>1. /\ pc[p] = "drop" /\ Control(pc[p], u)
      /\ UNCHANGED <<row, log, failed>> /\ Settled(pc[p], u, effects, entity, row)
  BY TypedFacts DEF DeleteEntity, Continue, Knows, AuditInv, Answers
<1>2. u.kind = "drop" /\ ~Bearing(pc[p], u) /\ Bearing("audit", u)
  BY <1>1 DEF Control, Bearing, Validating, Calling
<1>3. e \in Entities /\ Subject(u) = e /\ Entry(u) \in Entries /\ entity[e].version > 0
  BY <1>1, <1>2, SubjectsTyped DEF Settled
<1>4. CASE entity[e].exists /\ ~Deletable(e)
  BY <1>1, <1>2, <1>4, NothingBuried, SilentEnd DEF DeleteEntity
<1>5. CASE ~entity[e].exists
  <2>1. UNCHANGED <<entity, effects>> /\ Rest(p) /\ pc'[p] = "audit" /\ loc'[p] = u
    BY <1>5, RestMoved DEF DeleteEntity, Goto
  <2>2. Settled("audit", u, effects, entity, row)
    BY <1>2, <1>3, <1>5, RecordsAssumption DEF Settled, Buried, Event
  <2> QED
    BY <1>1, <1>2, <2>1, <2>2, NothingBuried, SilentStep
<1>6. CASE entity[e].exists /\ Deletable(e)
  <2> DEFINE x == [entity[e] EXCEPT !.exists = FALSE]
  <2>1. /\ effects' = effects \cup {Entry(u)} /\ Rest(p) /\ pc'[p] = "audit" /\ loc'[p] = u
        /\ entity' = [entity EXCEPT ![e] = x]
    BY <1>6, RestMoved DEF DeleteEntity, Did, Goto
  <2>2. x.version = entity[e].version
    BY <1>3, TypedFacts DEF Definition
  <2> HIDE DEF x
  <2>3. entity'[e].version > 0 /\ \A y \in Entities \ {e} : entity'[y] = entity[y]
    BY <1>3, <2>1, <2>2 DEF RecordsInv, Typed
  <2>4. Burials
    BY <1>1, <1>6, <2>3 DEF Burials
  <2> QED
    BY <1>1, <1>2, <1>3, <2>1, <2>3, <2>4, DoingStep
<1> QED
  BY <1>4, <1>5, <1>6

(* The entry of a request is true, and a request that fails is known to. *)
LEMMA AuditAudited ==
  ASSUME RecordsInv, AuditInv, NEW p \in Requests, Audit(p)  PROVE  AuditInv'
<1> DEFINE u == loc[p]
<1>1. /\ pc[p] = "audit" /\ log' = log \cup {Entry(u)} /\ End(p) /\ Control(pc[p], u)
      /\ UNCHANGED <<entity, row, effects, failed>> /\ Settled(pc[p], u, effects, entity, row)
  BY TypedFacts DEF Audit, Continue, Knows, AuditInv, Answers
<1>2. Bearing(pc[p], u)
  BY <1>1 DEF Control, Bearing, Validating, Calling
<1>3. LogsTyped'
  BY <1>1, <1>2, SubjectsTyped DEF AuditInv, LogsTyped
<1>4. Rest(p) /\ pc'[p] = "idle" /\ loc'[p] = NoLocal
  BY <1>1, RestKept DEF End, Goto
<1>5. Settled("idle", NoLocal, effects', entity', row')
  BY DEF Settled, NoLocal
<1>6. Entry(u) \in effects \/ (Entry(u)[1] = "deleted" /\ Buried(Entry(u)[2], entity, row))
  BY <1>1 DEF Settled, Entry
<1> QED
  BY <1>1, <1>3, <1>4, <1>5, <1>6, NothingBuried, AuditStep

LEMMA FailAudited ==
  ASSUME RecordsInv, AuditInv, NEW p \in Requests, Fail(p)  PROVE  AuditInv'
<1> DEFINE u == loc[p]
<1>1. /\ End(p) /\ UNCHANGED <<entity, row, log, effects>>
      /\ failed' = failed \cup {x[3] : x \in {y \in effects : y[3] = u.no}}
  BY DEF Fail, tables
<1>2. \A x \in effects : x[3] \in 0..MaxRequests
  BY DEF AuditInv, LogsTyped, Entries
<1>3. LogsTyped'
  BY <1>1, <1>2 DEF AuditInv, LogsTyped
<1>4. Rest(p) /\ pc'[p] = "idle" /\ loc'[p] = NoLocal
  BY <1>1, RestKept DEF End, Goto
<1>5. Settled("idle", NoLocal, effects', entity', row')
  BY DEF Settled, NoLocal
<1>6. \A x \in effects : Entry(u) = x => x[3] \in failed'
  <2>1. Entry(u)[3] = u.no
    BY DEF Entry
  <2> QED
    BY <1>1, <2>1
<1> QED
  BY <1>1, <1>3, <1>4, <1>5, <1>6, NothingBuried, AuditStep

LEMMA NextAudited == RecordsInv /\ AuditInv /\ [Next]_vars => AuditInv'
<1> SUFFICES ASSUME RecordsInv, AuditInv, [Next]_vars PROVE AuditInv'
  OBVIOUS
<1>1. CASE UNCHANGED vars \/ Toggle
  <2>1. UNCHANGED <<entity, row, log, effects, failed, pc, loc>>
    BY <1>1 DEF vars, Toggle, tables
  <2> QED
    BY <2>1 DEF AuditInv, LogsTyped, LogIsTrue, NothingForgotten, Borne, Answers
<1>2. ASSUME NEW p \in Requests, Begin(p)  PROVE AuditInv'
  BY <1>2, BeginAudited
<1>3. ASSUME NEW p \in Requests, Step(p)  PROVE AuditInv'
  <2>1. CASE CheckCode(p) \/ CheckLink(p) \/ Reread(p) \/ CheckLimit(p) \/ CountRecords(p)
    BY <2>1, ReadsAudited
  <2>2. CASE \/ FindBySlug(p) \/ FindWorkflows(p) \/ RunWorkflow(p) \/ TriggersDone(p)
             \/ ReadField(p) \/ FindCreated(p) \/ ActionFails(p)
    BY <2>2, TriggersAudited
  <2>3. CASE WriteField(p) \/ InsertCreated(p)
    BY <2>3, AutomationAudited
  <2>4. CASE InsertRow(p)
    BY <2>4, InsertRowAudited
  <2>5. CASE Replace(p)
    BY <2>5, ReplaceAudited
  <2>6. CASE DeleteRow(p)
    BY <2>6, DeleteRowAudited
  <2>7. CASE InsertEntity(p)
    BY <2>7, InsertEntityAudited
  <2>8. CASE AlterEntity(p)
    BY <2>8, AlterEntityAudited
  <2>9. CASE DeleteEntity(p)
    BY <2>9, DeleteEntityAudited
  <2>10. CASE Audit(p)
    BY <2>10, AuditAudited
  <2>11. CASE Fail(p)
    BY <2>11, FailAudited
  <2> QED
    BY <1>3, <2>1, <2>2, <2>3, <2>4, <2>5, <2>6, <2>7, <2>8, <2>9, <2>10, <2>11 DEF Step
<1> QED
  BY <1>1, <1>2, <1>3 DEF Next

LEMMA AuditStarts == Init => AuditInv
BY DEF Init, AuditInv, LogsTyped, LogIsTrue, NothingForgotten, Answers, Settled, NoLocal

THEOREM AuditAlways == Spec => []AuditInv
<1> QED
  BY AuditStarts, NextAudited, RecordsAlways, PTL DEF Spec

-----------------------------------------------------------------------------
(* Every variable keeps its type, whatever requests meet. *)
THEOREM RecordsTyped == Spec => []TypeOK
<1>1. RecordsInv /\ AuditInv => TypeOK
  BY DEF RecordsInv, Typed, AuditInv, LogsTyped, TypeOK
<1> QED
  BY <1>1, RecordsAlways, AuditAlways, PTL

(* A log entry "created" or "updated" names what its request did, one "deleted"
   something that is gone, and what a request did to a record or a definition is
   logged, or still will be, unless the request failed afterwards or found at the
   end that what it had updated is gone, however the statements of overlapping
   requests fall. *)
THEOREM AuditIsTrue == Spec => []AuditTellsTruth
<1>1. ASSUME RecordsInv, AuditInv  PROVE AuditTellsTruth
  <2>1. ASSUME NEW s \in Rows \cup Entities, Buried(s, entity, row)  PROVE Gone(s)
    BY <2>1 DEF Buried, Gone
  <2>2. \A x \in Entries : x[2] \in Rows \cup Entities
    BY DEF Entries
  <2>3. ASSUME NEW x \in log
        PROVE  x \in effects \/ (x[1] = "deleted" /\ Gone(x[2]))
    BY <1>1, <2>1, <2>2 DEF AuditInv, LogsTyped, LogIsTrue
  <2>4. ASSUME NEW x \in effects, Borne(x)  PROVE UnderWay(x[3])
    <3>1. PICK q \in Requests : Bearing(pc[q], loc[q]) /\ Entry(loc[q]) = x
      BY <2>4 DEF Borne
    <3>2. pc[q] # "idle"
      BY <1>1, <3>1, TypedFacts DEF Knows, Control, Bearing, Validating, Calling
    <3> QED
      BY <3>1, <3>2 DEF UnderWay, Entry
  <2>5. ASSUME NEW x \in effects
        PROVE  \/ x \in log \/ UnderWay(x[3]) \/ x[3] \in failed
               \/ x[1] = "updated" /\ Gone(x[2])
    BY <1>1, <2>1, <2>2, <2>4 DEF AuditInv, LogsTyped, NothingForgotten
  <2> QED
    BY <2>3, <2>5 DEF AuditTellsTruth
<1> QED
  BY <1>1, RecordsAlways, AuditAlways, PTL

(* Two records hold the same value of a unique field only if the tests of their
   requests overlapped, an automation wrote one, the definition changed since one
   was tested, or one came from another definition untested (assertFieldUnique,
   updateData). *)
THEOREM DuplicatesExplained == Spec => []DuplicateHasCause
<1>1. RecordsInv => DuplicateHasCause
  BY DEF RecordsInv, Contents
<1> QED
  BY <1>1, RecordsAlways, PTL

(* No interleaving of creations, updates, automations and removals of definitions
   leaves a live record without its definition. *)
THEOREM NoRecordIsOrphaned == Spec => []RecordsHaveDefinition
<1>1. RecordsInv => RecordsHaveDefinition
  BY DEF RecordsInv, Definitions
<1> QED
  BY <1>1, RecordsAlways, PTL

(* Definitions created and renamed at once never share a slug. *)
THEOREM SlugsAreUnique == Spec => []OneDefinitionPerSlug
<1>1. RecordsInv => OneDefinitionPerSlug
  BY DEF RecordsInv, Definitions
<1> QED
  BY <1>1, RecordsAlways, PTL

(* A record obeys the rules of the form that wrote it last as long as its
   definition is the one that form was of and has not changed, and its lookup
   then names a record of the related definition, unless that one was moved or an
   automation wrote back an older copy. *)
THEOREM RecordsObeyForms == Spec => []StoredRecordsAreValid
<1>1. RecordsInv => StoredRecordsAreValid
  BY DEF RecordsInv, Contents
<1> QED
  BY <1>1, RecordsAlways, PTL

(* A new record calls each workflow of the definition it is created under at most
   once, and each that stayed active exactly once before its creation is logged;
   a record an automation made calls none. *)
THEOREM TriggersAreCalledOnce == Spec => []TriggersOnce
<1>1. RecordsInv => TriggersOnce
  BY DEF RecordsInv, Effects
<1> QED
  BY <1>1, RecordsAlways, PTL

(* A record loses the lookup of its last form only to a copy that was overtaken. *)
THEOREM LookupLossExplained == Spec => []LookupLossHasCause
<1>1. RecordsInv => LookupLossHasCause
  BY DEF RecordsInv, Contents
<1> QED
  BY <1>1, RecordsAlways, PTL
=============================================================================
