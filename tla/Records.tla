------------------------------ MODULE Records ------------------------------
(***************************************************************************)
(* Entity definitions and their records: entities.service.ts, the event    *)
(* triggers of workflow-trigger.service.ts (with HRM, which uses them too) *)
(* and the record actions of workflow-automation.service.ts.  Requests     *)
(* interleave between any two database statements.  A record has a number  *)
(* field "code" and a lookup field "link"; the other field types run       *)
(* through the same statements with another type test.                     *)
(***************************************************************************)
EXTENDS Naturals, FiniteSets

CONSTANTS
  Entities, Rows, Workflows, Requests, Null,
  Slugs,
  Related,      \* relatedEntityId of the lookup field of each entity
  Linked,       \* the entityAssignments of each workflow
  Automation,   \* what the automation step of each workflow does
  CreatedSlug,  \* the entitySlug of create_entity actions
  InitialEntities,
  InitialTables, \* what entity_data may hold at the start
  Inputs,        \* the data record forms are filled with
  Designs,       \* what definition forms are filled with
  MaxEntities,  \* plan limit
  MaxRequests, MaxChanges \* bounds on requests and on workflow (de)activations

VARIABLES
  entity,   \* the entities table
  row,      \* the entity_data table, employees of HRM included
  active,   \* the active event_based workflows
  log,      \* audit_logs
  attempts, \* how often triggerWorkflow was called for a workflow and a row
  effects,  \* history: what each request did to the tables
  failed,   \* history: the requests that failed after they did something
  pc, loc,  \* control point and locals of each request
  started, changes

vars == <<entity, row, active, log, attempts, effects, failed, pc, loc, started, changes>>

-----------------------------------------------------------------------------
(* What a number field can hold: nothing, '', a number, the same number as
   text, a number above the field's validation.max, or a word. *)
Codes == {"absent", "empty", "num", "numtext", "big", "word"}
Links == Rows \cup {Null}
Data == [code: Codes, link: Links]
(* version is history: 0 before the definition is created, then it counts the
   forms the definition has had. *)
Definition == [exists: BOOLEAN, slug: Slugs, required: BOOLEAN,
               unique: BOOLEAN, version: Nat]
(* All fields after data are history: which handler wrote the data last, under
   which version of the definition, and whether another write came between
   its uniqueness test and its own; whether the data was tested by a form of
   the definition the row has now, and whether it ever had another one (moved);
   the definition whose form inserted it (born); the lookup its last form asked
   for, and whether a copy read before another write replaced it (crossed). *)
Row == [status: {"free", "live", "gone", "employee"}, entity: Entities \cup {Null},
        data: Data, by: {"none", "create", "update", "automation"},
        version: Nat, raced: BOOLEAN, tested: BOOLEAN, moved: BOOLEAN,
        born: Entities \cup {Null}, wanted: Links, crossed: BOOLEAN]
Kinds == {"none", "create", "update", "move", "remove", "employee", "resume",
          "define", "redefine", "drop"}
Points == {"idle", "code", "link", "save", "reread", "slug", "workflows", "run",
           "field_read", "field_write", "new_find", "new_save", "delete", "audit",
           "count", "insert", "alter", "records", "drop"}
Local == [kind: Kinds, e: Entities \cup {Null}, r: Links, data: Data,
          def: Definition, into: Entities \cup {Null}, raced: BOOLEAN,
          todo: SUBSET Workflows, no: 0..MaxRequests]
(* What happened to which row or definition, and the number of the request. *)
Entries == {"created", "updated", "deleted"} \X (Rows \cup Entities) \X (0..MaxRequests)

ASSUME RecordsAssumption ==
  /\ Null \notin Rows \cup Entities \cup Workflows
  /\ Rows \cap Entities = {}
  /\ Related \in [Entities -> Entities]
  /\ Linked \in [Workflows -> SUBSET Entities]
  /\ Automation \in [Workflows -> {"update_field", "create_entity"}]
  /\ CreatedSlug \in Slugs /\ "employee" \in Slugs
  /\ Inputs \subseteq [code: Codes, link: Links]
  /\ Designs \subseteq [slug: Slugs, required: BOOLEAN, unique: BOOLEAN]
  /\ MaxEntities \in Nat /\ MaxRequests \in Nat /\ MaxChanges \in Nat

Missing(v) == v \in {"absent", "empty"}
Text(v) == IF v = "numtext" THEN "num" ELSE v

(* validateDynamicData: a numeric text or '' passes, no rule is looked at. *)
AcceptedOnCreate(def, v) == (def.required => ~Missing(v)) /\ v # "word"
(* validateEntityData: only a number within its rules passes, or nothing. *)
AcceptedOnUpdate(def, v) == (def.required => ~Missing(v)) /\ v \in {"absent", "num"}
ComparedOnCreate(def, v) == def.unique /\ ~Missing(v)
ComparedOnUpdate(def, v) == def.unique /\ v # "absent"

\* Slip: values are compared with their types, not as texts.
HoldersTyped(e, v) ==
  {r \in Rows : /\ row[r].status = "live" /\ row[r].entity = e
                /\ v # "absent" /\ row[r].data.code = v}
(* assertFieldUnique: data ->> field compares texts; a null never matches. *)
Holders(e, v) ==
  {r \in Rows : /\ row[r].status = "live" /\ row[r].entity = e
                /\ v # "absent" /\ Text(row[r].data.code) = Text(v)}
LinkResolves(e, l) == row[l].status = "live" /\ row[l].entity = Related[e]

NoData == [code |-> "absent", link |-> Null]
NoDefinition == [exists |-> FALSE, slug |-> CreatedSlug, required |-> FALSE,
                 unique |-> FALSE, version |-> 0]
FreeRow == [status |-> "free", entity |-> Null, data |-> NoData, by |-> "none",
            version |-> 0, raced |-> FALSE, tested |-> FALSE, moved |-> FALSE,
            born |-> Null, wanted |-> Null, crossed |-> FALSE]
(* The tables at the start: definitions with different slugs, and records that
   their forms accepted. *)
ASSUME TablesAssumption ==
  /\ InitialEntities \in [Entities -> Definition]
  /\ InitialTables \subseteq [Rows -> Row]
  /\ \A x \in Entities : InitialEntities[x].exists =>
       /\ InitialEntities[x].version > 0
       /\ \A y \in Entities : /\ InitialEntities[y].exists
                              /\ InitialEntities[y].slug = InitialEntities[x].slug
                              => y = x
  /\ \A t \in InitialTables, r \in Rows :
       LET e == t[r].entity d == t[r].data IN
       \/ t[r].status = "free"
       \/ /\ t[r].status = "live" /\ e \in Entities /\ t[r].by = "create"
          /\ t[r].tested /\ ~t[r].moved /\ t[r].born = e /\ t[r].wanted = d.link
          /\ InitialEntities[e].exists /\ t[r].version = InitialEntities[e].version
          /\ AcceptedOnCreate(InitialEntities[e], d.code)
          /\ d.link # Null => t[d.link].status = "live" /\ t[d.link].entity = Related[e]
          /\ \A s \in Rows \ {r} :
               /\ t[s].status = "live" /\ t[s].entity = e
               /\ InitialEntities[e].unique /\ ~Missing(d.code)
               => Text(t[s].data.code) # Text(d.code)
NoLocal == [kind |-> "none", e |-> Null, r |-> Null, data |-> NoData,
            def |-> NoDefinition, into |-> Null, raced |-> FALSE, todo |-> {},
            no |-> 0]

TypeOK ==
  /\ entity \in [Entities -> Definition]
  /\ row \in [Rows -> Row]
  /\ active \subseteq Workflows
  /\ log \subseteq Entries /\ effects \subseteq Entries
  /\ failed \subseteq 0..MaxRequests
  /\ attempts \in [Workflows \X Rows -> Nat]
  /\ pc \in [Requests -> Points] /\ loc \in [Requests -> Local]
  /\ started \in 0..MaxRequests /\ changes \in 0..MaxChanges

Init ==
  /\ entity = InitialEntities
  /\ row \in InitialTables
  /\ active = Workflows /\ log = {} /\ effects = {} /\ failed = {}
  /\ attempts = [x \in Workflows \X Rows |-> 0]
  /\ pc = [p \in Requests |-> "idle"] /\ loc = [p \in Requests |-> NoLocal]
  /\ started = 0 /\ changes = 0
-----------------------------------------------------------------------------
tables == <<entity, row, log, attempts, effects>>
others == <<active, changes>>

Goto(p, point) == pc' = [pc EXCEPT ![p] = point]
(* The request ends, with an answer or an error. *)
End(p) == Goto(p, "idle") /\ loc' = [loc EXCEPT ![p] = NoLocal]
Keep(p, l) == loc' = [loc EXCEPT ![p] = l]
(* A request arrives and its handler executes up to its first suspension. *)
Arrive(p, l, point) ==
  /\ pc[p] = "idle" /\ started < MaxRequests /\ started' = started + 1
  /\ Keep(p, [l EXCEPT !.no = started'])
  /\ Goto(p, point) /\ UNCHANGED <<others, tables, failed>>
Continue == UNCHANGED <<others, started, failed>>

(* A write of row r marks the requests it overtakes: those between their
   uniqueness test and their write, and those that hold a copy of r. *)
Overtaken(q, r) == \/ pc[q] \in {"link", "save"}
                   \/ pc[q] = "field_write" /\ loc[q].r = r
Marked(p, l, r) ==
  loc' = [q \in Requests |->
            IF q = p THEN l ELSE [loc[q] EXCEPT !.raced = @ \/ Overtaken(q, r)]]

Event(k) == CASE k \in {"create", "define"} -> "created"
              [] k \in {"update", "move", "redefine"} -> "updated"
              [] OTHER -> "deleted"
Subject(l) == IF l.kind \in {"define", "redefine", "drop"} THEN l.e ELSE l.r
Entry(l) == <<Event(l.kind), Subject(l), l.no>>
Did(l) == effects' = effects \cup {Entry(l)}
Existing == {e \in Entities : entity[e].exists}
FreeRows == {r \in Rows : row[r].status = "free"}
(* The id of the next row; ids are not reused. *)
NewIds == IF FreeRows = {} THEN {} ELSE {CHOOSE r \in FreeRows : TRUE}
(* Clients only know the ids of rows that were created. *)
Known == {d \in Inputs : d.link \notin FreeRows}
-----------------------------------------------------------------------------
(* createEntityData, updateData, removeData: the handlers load the definition,
   or the row and its definition, before they validate. *)
BeginCreate(p) ==
  \E e \in Existing, d \in Known :
    Arrive(p, [NoLocal EXCEPT !.kind = "create", !.e = e, !.data = d,
                              !.def = entity[e]], "code")
(* The body of an update has a data object, an entityId, or both: without data
   nothing is validated. *)
BeginUpdate(p) ==
  \E r \in Rows, d \in Known, into \in Existing \cup {Null} :
    /\ row[r].status = "live" /\ entity[row[r].entity].exists
    /\ Arrive(p, [NoLocal EXCEPT !.kind = "update", !.e = row[r].entity, !.r = r,
                                 !.data = d, !.def = entity[row[r].entity],
                                 !.into = into], "code")
BeginMove(p) ==
  \E r \in Rows, into \in Existing :
    /\ row[r].status = "live" /\ entity[row[r].entity].exists
    /\ Arrive(p, [NoLocal EXCEPT !.kind = "move", !.e = row[r].entity, !.r = r,
                                 !.into = into], "save")
BeginRemove(p) ==
  \E r \in Rows :
    /\ row[r].status = "live" /\ entity[row[r].entity].exists
    /\ Arrive(p, [NoLocal EXCEPT !.kind = "remove", !.e = row[r].entity, !.r = r],
              "delete")

\* Slip: an update is validated by the rules of a creation.
CodePassesAsCreate(l) ==
  /\ AcceptedOnCreate(l.def, l.data.code)
  /\ ComparedOnCreate(l.def, l.data.code) => Holders(l.e, l.data.code) \subseteq {l.r}
CodePasses(l) ==
  IF l.kind = "create"
  THEN /\ AcceptedOnCreate(l.def, l.data.code)
       /\ ComparedOnCreate(l.def, l.data.code) => Holders(l.e, l.data.code) = {}
  ELSE /\ AcceptedOnUpdate(l.def, l.data.code)
       /\ ComparedOnUpdate(l.def, l.data.code)
            => Holders(l.e, l.data.code) \subseteq {l.r}
CheckCode(p) ==
  /\ pc[p] = "code"
  /\ IF CodePasses(loc[p]) THEN Goto(p, "link") /\ UNCHANGED loc ELSE End(p)
  /\ UNCHANGED tables /\ Continue

CheckLink(p) ==
  /\ pc[p] = "link"
  /\ IF loc[p].data.link = Null \/ LinkResolves(loc[p].e, loc[p].data.link)
     THEN Goto(p, "save") /\ UNCHANGED loc
     ELSE End(p)
  /\ UNCHANGED tables /\ Continue

(* The insert: the foreign key to entities refuses a row whose definition is
   gone. *)
InsertRow(p) ==
  /\ pc[p] = "save" /\ loc[p].kind = "create"
  /\ \/ /\ entity[loc[p].e].exists
        /\ \E r \in NewIds :
             LET l == [loc[p] EXCEPT !.r = r] IN
             /\ row' = [row EXCEPT ![r] =
                  [status |-> "live", entity |-> l.e, data |-> l.data,
                   by |-> "create", version |-> l.def.version, raced |-> l.raced,
                   tested |-> TRUE, moved |-> FALSE, born |-> l.e,
                   wanted |-> l.data.link, crossed |-> FALSE]]
             /\ Marked(p, l, r) /\ Did(l) /\ Goto(p, "workflows")
     \/ /\ ~entity[loc[p].e].exists
        /\ End(p) /\ UNCHANGED <<row, effects>>
  /\ UNCHANGED <<entity, log, attempts>> /\ Continue

(* updateData spreads the body over the row: the whole data column, and the
   definition when the body names one, which the foreign key must know.  The data
   was validated under the definition the row had.  A row that is gone is not an
   error here. *)
Body(here, l, e) ==
  IF l.kind = "move" THEN [here EXCEPT !.tested = @ /\ e = here.entity]
  ELSE [here EXCEPT !.data = l.data, !.by = "update", !.version = l.def.version,
                    !.raced = l.raced, !.tested = (e = l.e),
                    !.wanted = l.data.link, !.crossed = FALSE]
Target(l) == IF l.into = Null THEN row[l.r].entity ELSE l.into
Replace(p) ==
  /\ pc[p] = "save" /\ loc[p].kind \in {"update", "move"}
  /\ LET l == loc[p] IN
     \/ /\ row[l.r].status = "live" /\ entity[Target(l)].exists
        /\ row' = [row EXCEPT ![l.r] =
                     [Body(row[l.r], l, Target(l)) EXCEPT !.entity = Target(l),
                        !.moved = @ \/ Target(l) # row[l.r].entity]]
        /\ Marked(p, l, l.r) /\ Did(l) /\ Goto(p, "reread")
     \/ /\ row[l.r].status = "live" /\ ~entity[Target(l)].exists
        /\ End(p) /\ UNCHANGED <<row, effects>>
     \/ /\ row[l.r].status # "live"
        /\ Goto(p, "reread") /\ UNCHANGED <<row, loc, effects>>
  /\ UNCHANGED <<entity, log, attempts>> /\ Continue
(* An update is answered with what was stored, and not logged when that is gone. *)
Found(l) == IF l.kind = "redefine" THEN entity[l.e].exists ELSE row[l.r].status = "live"
Reread(p) ==
  /\ pc[p] = "reread"
  /\ IF Found(loc[p]) THEN Goto(p, "audit") /\ UNCHANGED loc ELSE End(p)
  /\ UNCHANGED tables /\ Continue

\* Slip: the delete only matches the row as some form left it.
Matches(r) == row[r].status = "live" /\ row[r].by # "automation"
DeleteRowMatching(p) ==
  /\ pc[p] = "delete"
  /\ IF Matches(loc[p].r)
     THEN row' = [row EXCEPT ![loc[p].r].status = "gone"] /\ Did(loc[p])
     ELSE UNCHANGED <<row, effects>>
  /\ Goto(p, "audit") /\ UNCHANGED <<entity, log, attempts, loc>> /\ Continue
\* Slip: a status no other handler knows.
DeleteRowSoftly(p) ==
  /\ pc[p] = "delete"
  /\ row' = [row EXCEPT ![loc[p].r].status = "removed"] /\ Did(loc[p])
  /\ Goto(p, "audit") /\ UNCHANGED <<entity, log, attempts, loc>> /\ Continue
(* A delete that finds no row is logged like one that does. *)
DeleteRow(p) ==
  /\ pc[p] = "delete"
  /\ IF row[loc[p].r].status = "live"
     THEN row' = [row EXCEPT ![loc[p].r].status = "gone"] /\ Did(loc[p])
     ELSE UNCHANGED <<row, effects>>
  /\ Goto(p, "audit") /\ UNCHANGED <<entity, log, attempts, loc>> /\ Continue

Audit(p) ==
  /\ pc[p] = "audit"
  /\ log' = log \cup {Entry(loc[p])}
  /\ End(p) /\ UNCHANGED <<entity, row, attempts, effects>> /\ Continue
-----------------------------------------------------------------------------
(* HrmService.create saves an employee and looks the definition up by slug. *)
BeginEmployee(p) ==
  /\ pc[p] = "idle" /\ started < MaxRequests /\ started' = started + 1
  /\ \E r \in NewIds :
       /\ row' = [row EXCEPT ![r].status = "employee"]
       /\ Keep(p, [NoLocal EXCEPT !.kind = "employee", !.r = r, !.no = started'])
  /\ Goto(p, "slug") /\ UNCHANGED <<others, entity, log, attempts, effects, failed>>
FindBySlug(p) ==
  /\ pc[p] = "slug"
  /\ \/ \E e \in Existing :
          /\ entity[e].slug = "employee"
          /\ Keep(p, [loc[p] EXCEPT !.e = e]) /\ Goto(p, "workflows")
     \/ (\A e \in Existing : entity[e].slug # "employee") /\ End(p)
  /\ UNCHANGED tables /\ Continue

(* triggerForEntityRecord: the linked workflows, one after the other; a failure
   of one is caught and the loop goes on. *)
FindWorkflows(p) ==
  /\ pc[p] = "workflows"
  /\ Keep(p, [loc[p] EXCEPT !.todo = {w \in active : loc[p].e \in Linked[w]}])
  /\ Goto(p, "run") /\ UNCHANGED tables /\ Continue
Called(w, r) == attempts' = [attempts EXCEPT ![<<w, r>>] = @ + 1]
FirstPoint(w) == IF Automation[w] = "update_field" THEN "field_read" ELSE "new_find"
RunWorkflow(p) ==
  /\ pc[p] = "run"
  /\ \E w \in loc[p].todo :
       /\ Called(w, loc[p].r)
       /\ Keep(p, [loc[p] EXCEPT !.todo = @ \ {w}])
       /\ Goto(p, IF w \in active THEN FirstPoint(w) ELSE "run")
  /\ UNCHANGED <<entity, row, log, effects>> /\ Continue
TriggersDone(p) ==
  /\ pc[p] = "run" /\ loc[p].todo = {}
  /\ IF loc[p].kind = "create" THEN Goto(p, "audit") /\ UNCHANGED loc ELSE End(p)
  /\ UNCHANGED tables /\ Continue

(* An execution that waited for a task runs an automation step later, with the
   record of its context. *)
BeginResume(p) ==
  \E r \in Rows, w \in Workflows :
    /\ attempts[<<w, r>>] > 0 /\ Automation[w] = "update_field"
    /\ Arrive(p, [NoLocal EXCEPT !.kind = "resume", !.r = r], "field_read")
\* Slip: a failed automation ends the loop over the workflows.
AfterActionLeavesLoop(p) ==
  IF loc[p].kind \in {"resume", "employee"} THEN End(p) ELSE Goto(p, "audit") /\ UNCHANGED loc
AfterAction(p) ==
  IF loc[p].kind = "resume" THEN End(p) ELSE Goto(p, "run") /\ UNCHANGED loc

(* updateField: the whole data object is written back from the copy read; an
   employee is not in entity_data. *)
ReadField(p) ==
  /\ pc[p] = "field_read"
  /\ IF row[loc[p].r].status = "live"
     THEN /\ Keep(p, [loc[p] EXCEPT !.data = row[loc[p].r].data, !.raced = FALSE])
          /\ Goto(p, "field_write")
     ELSE AfterAction(p)
  /\ UNCHANGED tables /\ Continue
\* Slip: the other fields are not spread into the new object.
NextDataAlone(copy, v) == [code |-> v, link |-> Null]
NextData(copy, v) == [copy EXCEPT !.code = v]
WriteField(p) ==
  /\ pc[p] = "field_write"
  /\ LET l == loc[p] IN
     IF row[l.r].status = "live"
     THEN /\ \E v \in {"num", "word"} :
               row' = [row EXCEPT ![l.r] =
                 [row[l.r] EXCEPT !.data = NextData(l.data, v), !.by = "automation",
                                  !.crossed = @ \/ l.raced]]
          /\ Marked(p, IF l.kind = "resume" THEN NoLocal ELSE l, l.r)
          /\ Goto(p, IF l.kind = "resume" THEN "idle" ELSE "run")
     ELSE AfterAction(p) /\ UNCHANGED row
  /\ UNCHANGED <<entity, log, attempts, effects>> /\ Continue

(* createEntityRecord: no validation, and no workflow is triggered. *)
FindCreated(p) ==
  /\ pc[p] = "new_find"
  /\ \/ \E e \in Existing :
          /\ entity[e].slug = CreatedSlug
          /\ Keep(p, [loc[p] EXCEPT !.into = e])
          /\ Goto(p, "new_save")
     \/ (\A e \in Existing : entity[e].slug # CreatedSlug) /\ AfterAction(p)
  /\ UNCHANGED tables /\ Continue
InsertCreated(p) ==
  /\ pc[p] = "new_save"
  /\ IF entity[loc[p].into].exists
     THEN \E r \in NewIds, v \in {"num", "word"} :
            /\ row' = [row EXCEPT ![r] =
                 [status |-> "live", entity |-> loc[p].into,
                  data |-> [code |-> v, link |-> Null], by |-> "automation",
                  version |-> 0, raced |-> FALSE, tested |-> FALSE, moved |-> FALSE,
                  born |-> Null, wanted |-> Null, crossed |-> FALSE]]
            /\ Marked(p, loc[p], r)
     ELSE UNCHANGED <<row, loc>>
  /\ Goto(p, "run")
  /\ UNCHANGED <<entity, log, attempts, effects>> /\ Continue
(* runAutomationStep catches what an action throws and goes on. *)
ActionFails(p) ==
  /\ pc[p] \in {"field_read", "field_write", "new_find", "new_save"}
  /\ AfterAction(p) /\ UNCHANGED tables /\ Continue
-----------------------------------------------------------------------------
(* create, update and remove of an entity definition.  A new definition has an id
   that no other has had. *)
Designed(d, v) == [exists |-> TRUE, slug |-> d.slug, required |-> d.required,
                   unique |-> d.unique, version |-> v]
BeginDefine(p) ==
  \E e \in Entities, d \in Designs :
    /\ entity[e].version = 0
    /\ \A x \in Existing : entity[x].slug # d.slug
    /\ \A q \in Requests : loc[q].e # e \/ loc[q].kind # "define"
    /\ Arrive(p, [NoLocal EXCEPT !.kind = "define", !.e = e,
                                 !.def = Designed(d, 1)], "count")
CheckLimit(p) ==
  /\ pc[p] = "count"
  /\ IF Cardinality(Existing) >= MaxEntities
     THEN End(p)
     ELSE Goto(p, "insert") /\ UNCHANGED loc
  /\ UNCHANGED tables /\ Continue
\* Slip: no unique index on slug and tenant.
SlugUnchecked(e, s) == TRUE
SlugFree(e, s) == \A x \in Existing \ {e} : entity[x].slug # s
(* The unique index on slug and tenant refuses a second definition. *)
InsertEntity(p) ==
  /\ pc[p] = "insert"
  /\ IF SlugFree(loc[p].e, loc[p].def.slug)
     THEN /\ entity' = [entity EXCEPT ![loc[p].e] = loc[p].def]
          /\ Did(loc[p])
          /\ Goto(p, "audit") /\ UNCHANGED loc
     ELSE End(p) /\ UNCHANGED <<entity, effects>>
  /\ UNCHANGED <<row, log, attempts>> /\ Continue

BeginRedefine(p) ==
  \E e \in Existing, d \in Designs :
    /\ d.slug # entity[e].slug => \A x \in Existing : entity[x].slug # d.slug
    /\ Arrive(p, [NoLocal EXCEPT !.kind = "redefine", !.e = e, !.def = Designed(d, 0)],
              "alter")
(* Records are not looked at again when their definition changes. *)
AlterEntity(p) ==
  /\ pc[p] = "alter"
  /\ LET l == loc[p] IN
     \/ /\ entity[l.e].exists /\ SlugFree(l.e, l.def.slug)
        /\ entity' = [entity EXCEPT ![l.e] = [l.def EXCEPT !.version =
                                                entity[l.e].version + 1]]
        /\ Did(l) /\ Goto(p, "reread") /\ UNCHANGED loc
     \/ /\ entity[l.e].exists /\ ~SlugFree(l.e, l.def.slug)
        /\ End(p) /\ UNCHANGED <<entity, effects>>
     \/ /\ ~entity[l.e].exists
        /\ Goto(p, "reread") /\ UNCHANGED <<entity, loc, effects>>
  /\ UNCHANGED <<row, log, attempts>> /\ Continue

BeginDrop(p) ==
  \E e \in Existing :
    Arrive(p, [NoLocal EXCEPT !.kind = "drop", !.e = e], "records")
RowsOf(e) == {r \in Rows : row[r].status = "live" /\ row[r].entity = e}
CountRecords(p) ==
  /\ pc[p] = "records"
  /\ IF RowsOf(loc[p].e) = {} THEN Goto(p, "drop") /\ UNCHANGED loc ELSE End(p)
  /\ UNCHANGED tables /\ Continue
\* Slip: the relation of records to their entity has no foreign key.
DeletableAlways(e) == TRUE
(* The foreign key of entity_data refuses to delete a definition that rows use. *)
Deletable(e) == RowsOf(e) = {}
DeleteEntity(p) ==
  /\ pc[p] = "drop"
  /\ LET l == loc[p] IN
     \/ /\ entity[l.e].exists /\ Deletable(l.e)
        /\ entity' = [entity EXCEPT ![l.e].exists = FALSE]
        /\ Did(l) /\ Goto(p, "audit") /\ UNCHANGED loc
     \/ /\ entity[l.e].exists /\ ~Deletable(l.e)
        /\ End(p) /\ UNCHANGED <<entity, effects>>
     \/ /\ ~entity[l.e].exists
        /\ Goto(p, "audit") /\ UNCHANGED <<entity, loc, effects>>
  /\ UNCHANGED <<row, log, attempts>> /\ Continue
-----------------------------------------------------------------------------
(* A statement fails and the request is answered with an error, or the process
   stops. *)
Fail(p) ==
  /\ pc[p] # "idle"
  /\ failed' = failed \cup {x[3] : x \in {y \in effects : y[3] = loc[p].no}}
  /\ End(p) /\ UNCHANGED <<tables, others, started>>

(* activate and pause of workflows.service.ts. *)
Toggle ==
  /\ changes < MaxChanges /\ changes' = changes + 1
  /\ \E w \in Workflows : active' = (active \ {w}) \cup ({w} \ active)
  /\ UNCHANGED <<tables, failed, pc, loc, started>>

Begin(p) ==
  \/ BeginCreate(p) \/ BeginUpdate(p) \/ BeginMove(p) \/ BeginRemove(p)
  \/ BeginEmployee(p) \/ BeginResume(p) \/ BeginDefine(p) \/ BeginRedefine(p) \/ BeginDrop(p)
Step(p) ==
  \/ CheckCode(p) \/ CheckLink(p) \/ InsertRow(p) \/ Replace(p) \/ Reread(p)
  \/ DeleteRow(p) \/ Audit(p)
  \/ FindBySlug(p) \/ FindWorkflows(p) \/ RunWorkflow(p) \/ TriggersDone(p)
  \/ ReadField(p) \/ WriteField(p) \/ FindCreated(p) \/ InsertCreated(p)
  \/ ActionFails(p)
  \/ CheckLimit(p) \/ InsertEntity(p) \/ AlterEntity(p)
  \/ CountRecords(p) \/ DeleteEntity(p)
  \/ Fail(p)
Next == (\E p \in Requests : Begin(p) \/ Step(p)) \/ Toggle
Spec == Init /\ [][Next]_vars
-----------------------------------------------------------------------------
(* Two records of a definition hold the same value of a unique field only if
   the tests of their requests overlapped, an automation wrote one of them, the
   definition changed since one of them was validated, or one of them came to
   it from another definition untested (assertFieldUnique and updateData,
   entities.service.ts:374, 505). *)
DuplicateHasCause ==
  \A r, s \in Rows :
    LET e == row[r].entity IN
    /\ r # s /\ row[r].status = "live" /\ s \in RowsOf(e) /\ entity[e].unique
    /\ ~Missing(row[r].data.code) /\ Text(row[r].data.code) = Text(row[s].data.code)
    => \E x \in {r, s} : \/ row[x].raced \/ row[x].by = "automation"
                         \/ ~row[x].tested \/ row[x].version # entity[e].version

(* A definition removed while a record is created under it or moved to it never
   leaves the record without its definition, although remove counts the records
   in one statement and deletes in another (entities.service.ts:204-214). *)
RecordsHaveDefinition ==
  \A r \in Rows : row[r].status = "live" => entity[row[r].entity].exists

(* Two definitions created or renamed at once never share a slug, so the
   lookups by slug of HRM and of create_entity are unambiguous
   (entities.service.ts:55, 157). *)
OneDefinitionPerSlug ==
  \A x, y \in Existing : entity[x].slug = entity[y].slug => x = y

(* A record satisfies the rules of the form that wrote it last as long as that
   was a form of its definition and of its present version.  Its lookup then
   names a record of the related definition, perhaps one deleted or moved since,
   unless an automation wrote back an older copy (entities.service.ts:254, 505,
   584). *)
StoredRecordsAreValid ==
  \A r \in Rows :
    LET e == row[r].entity d == row[r].data IN
    row[r].status = "live" /\ row[r].tested /\ row[r].version = entity[e].version =>
      /\ row[r].by = "create" => AcceptedOnCreate(entity[e], d.code)
      /\ row[r].by = "update" => AcceptedOnUpdate(entity[e], d.code)
      /\ d.link # Null /\ ~row[r].crossed =>
           /\ row[d.link].status \in {"live", "gone"}
           /\ row[d.link].entity = Related[e] \/ row[d.link].moved

(* A new record calls every workflow of the definition it is created under at
   most once, and once its creation is logged it has called every one of them
   that was active all the time, whatever failed before in the loop, whatever
   happened to the record meanwhile.  A record made by an automation (born
   nowhere) calls none, so triggers do not cascade
   (workflow-trigger.service.ts:56-84, workflow-automation.service.ts:520). *)
TriggersOnce ==
  /\ \A x \in Workflows \X Rows : attempts[x] <= 1
  /\ \A r \in Rows, w \in Workflows, n \in 0..MaxRequests :
       <<"created", r, n>> \in log /\ changes = 0 /\ row[r].born \in Linked[w]
       => attempts[<<w, r>>] = 1
  /\ \A r \in Rows, w \in Workflows :
       attempts[<<w, r>>] > 0 => row[r].status = "employee" \/ row[r].born \in Linked[w]

(* What the audit log calls created or updated its request did, what it calls
   deleted is gone, and what a request did is logged unless the request is still
   on its way, failed later, or found at the end that what it updated is gone:
   for records and definitions, in whatever order the statements of two
   requests fall (entities.service.ts:421, 526, 553). *)
UnderWay(n) == \E p \in Requests : pc[p] # "idle" /\ loc[p].no = n
Gone(s) == IF s \in Rows THEN row[s].status = "gone" ELSE ~entity[s].exists
AuditTellsTruth ==
  /\ \A x \in log : x \in effects \/ (x[1] = "deleted" /\ Gone(x[2]))
  /\ \A x \in effects : \/ x \in log \/ UnderWay(x[3]) \/ x[3] \in failed
                        \/ x[1] = "updated" /\ Gone(x[2])

(* A record loses the lookup its last form gave it only if update_field wrote
   back a copy that another write had overtaken
   (workflow-automation.service.ts:454-482). *)
LookupLossHasCause ==
  \A r \in Rows :
    row[r].status = "live" /\ row[r].data.link # row[r].wanted => row[r].crossed
=============================================================================
