--------------------------- MODULE TemplateCatalog ---------------------------
(***************************************************************************)
(* The catalog of published templates: workflow-catalog.service.ts.  Every *)
(* process writes the library it was built with into the catalog when it   *)
(* starts, while administrators publish and unpublish; each of them loads a*)
(* row, changes its copy and saves it, and the save writes every column in *)
(* which the copy differs from the row as it is then.                      *)
(***************************************************************************)
EXTENDS Naturals, FiniteSets

CONSTANTS CatalogKeys, Clerks, NoKey,
          MaxRelease,  \* releases of the library
          MaxRounds    \* requests and process starts

VARIABLES
  row,       \* the catalog by key
  library,   \* release of the definitions a process started now is built with
  at, work, rounds,
  intended,  \* history: what the last decision about each column asked for
  crossed    \* history: keys saved from a copy another save had outdated

catalogVars == <<row, library, at, work, rounds, intended, crossed>>

ASSUME ReleasesAssumption == MaxRelease \in Nat \ {0} /\ MaxRounds \in Nat

(* release 0: there is no such row. *)
Row == [release : 0..MaxRelease, published : BOOLEAN]
NoRow == [release |-> 0, published |-> FALSE]
Work == [task : {"none", "sync", "publish", "unpublish"}, todo : SUBSET CatalogKeys,
         key : CatalogKeys \cup {NoKey}, copy : Row, release : 0..MaxRelease,
         outdated : BOOLEAN]
NoWork == [task |-> "none", todo |-> {}, key |-> NoKey, copy |-> NoRow, release |-> 0,
           outdated |-> FALSE]

CatalogTypeOK ==
  /\ row \in [CatalogKeys -> Row] /\ intended \in [CatalogKeys -> Row]
  /\ library \in 1..MaxRelease /\ rounds \in 0..MaxRounds /\ crossed \subseteq CatalogKeys
  /\ at \in [Clerks -> {"idle", "load", "save"}] /\ work \in [Clerks -> Work]

CatalogInit ==
  /\ row = [k \in CatalogKeys |-> NoRow] /\ intended = row /\ crossed = {}
  /\ library = 1 /\ rounds = 0
  /\ at = [c \in Clerks |-> "idle"] /\ work = [c \in Clerks |-> NoWork]

Enter(c, w) ==
  /\ at[c] = "idle" /\ rounds < MaxRounds /\ rounds' = rounds + 1
  /\ at' = [at EXCEPT ![c] = "load"] /\ work' = [work EXCEPT ![c] = w]
  /\ UNCHANGED <<row, library, intended, crossed>>
(* onModuleInit of a process, or an administrator's sync. *)
BeginSync(c) ==
  Enter(c, [NoWork EXCEPT !.task = "sync", !.todo = CatalogKeys, !.release = library])
BeginPublication(c) ==
  \E k \in CatalogKeys, t \in {"publish", "unpublish"} :
    Enter(c, [NoWork EXCEPT !.task = t, !.todo = {k}])
Release ==
  /\ library < MaxRelease /\ library' = library + 1
  /\ UNCHANGED <<row, at, work, rounds, intended, crossed>>

Exit(c) == at' = [at EXCEPT ![c] = "idle"] /\ work' = [work EXCEPT ![c] = NoWork]
(* findOne; an administrator's key without a row is a 404. *)
Load(c) ==
  /\ at[c] = "load"
  /\ \/ work[c].todo = {} /\ Exit(c)
     \/ \E k \in work[c].todo :
          IF row[k].release = 0 /\ work[c].task # "sync"
          THEN Exit(c)
          ELSE /\ at' = [at EXCEPT ![c] = "save"]
               /\ work' = [work EXCEPT ![c] = [work[c] EXCEPT !.todo = @ \ {k}, !.key = k,
                                                 !.copy = row[k], !.outdated = FALSE]]
  /\ UNCHANGED <<row, library, rounds, intended, crossed>>

EditedAfresh(c) ==  \* slip: a sync publishes every template again
  CASE work[c].task = "publish" -> [work[c].copy EXCEPT !.published = TRUE]
    [] work[c].task = "unpublish" -> [work[c].copy EXCEPT !.published = FALSE]
    [] OTHER -> [release |-> work[c].release, published |-> TRUE]
(* What a clerk makes of its copy: a sync sets everything but whether the row is
   published, unless the row is new. *)
Edited(c) ==
  CASE work[c].task = "publish" -> [work[c].copy EXCEPT !.published = TRUE]
    [] work[c].task = "unpublish" -> [work[c].copy EXCEPT !.published = FALSE]
    [] OTHER -> [release |-> work[c].release,
                 published |-> work[c].copy.release = 0 \/ work[c].copy.published]
(* History: the row as it would be had the clerk set its columns and no other. *)
Asked(c, base) ==
  [release |-> IF work[c].task = "sync" THEN work[c].release ELSE base.release,
   published |-> \/ work[c].task = "publish"
                 \/ work[c].task = "sync" /\ (base.published \/ base.release = 0)]
(* The save of a row that was missing is an insert, which the unique key refuses
   when another process inserted it meanwhile: the sync ends there. *)
Save(c) ==
  LET k == work[c].key IN
  /\ at[c] = "save"
  /\ IF work[c].copy.release = 0 /\ row[k].release # 0
     THEN Exit(c) /\ UNCHANGED <<row, intended, crossed>>
     ELSE /\ row' = [row EXCEPT ![k] = Edited(c)]
          /\ intended' = [intended EXCEPT ![k] = Asked(c, @)]
          /\ crossed' = IF work[c].outdated THEN crossed \cup {k} ELSE crossed
          /\ at' = [at EXCEPT ![c] = "load"]
          /\ work' = [d \in Clerks |->
               IF d = c THEN [work[c] EXCEPT !.key = NoKey, !.copy = NoRow]
               ELSE [work[d] EXCEPT !.outdated = @ \/ work[d].key = k]]
  /\ UNCHANGED <<library, rounds>>

CatalogNext ==
  \/ Release
  \/ \E c \in Clerks : BeginSync(c) \/ BeginPublication(c) \/ Load(c) \/ Save(c)
CatalogSpec == CatalogInit /\ [][CatalogNext]_catalogVars
-----------------------------------------------------------------------------
(* A template an administrator withdrew stays withdrawn over every restart, and a
   publication never brings an older definition back, except where a save used
   a copy loaded before another save (workflow-catalog.service.ts:59-107, 172-193). *)
CatalogLossHasCause == \A k \in CatalogKeys : row[k] # intended[k] => k \in crossed
(* The catalog keeps its types and this statement (workflow-catalog.service.ts:59-193). *)
CatalogHolds == CatalogTypeOK /\ CatalogLossHasCause
=============================================================================
