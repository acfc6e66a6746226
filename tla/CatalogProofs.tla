---------------------------- MODULE CatalogProofs ----------------------------
(* Proof, for any set of templates, any number of processes and administrators and
   any number of releases, that the catalog loses a decision only to an outdated
   copy. *)
EXTENDS TemplateCatalog, TLAPS

(* A clerk about to save holds the row as it is, or knows nothing of what another
   has made of it since. *)
CopiesAreFresh ==
  \A c \in Clerks :
    at[c] = "save" => /\ work[c].key \in CatalogKeys
                      /\ work[c].task # "none"
                      /\ work[c].outdated \/ work[c].copy = row[work[c].key]
TasksSet == \A c \in Clerks : at[c] = "load" => work[c].task # "none"

CatalogInv == CatalogTypeOK /\ CopiesAreFresh /\ TasksSet /\ CatalogLossHasCause
-----------------------------------------------------------------------------
LEMMA NothingTyped == NoRow \in Row /\ NoWork \in Work
  BY ReleasesAssumption DEF NoRow, NoWork, Row, Work

LEMMA CatalogInitInv == CatalogInit => CatalogInv
  BY NothingTyped, ReleasesAssumption DEF CatalogInit, CatalogInv, CatalogTypeOK, CopiesAreFresh, TasksSet,
                      CatalogLossHasCause

(* Another request's save marks a copy and leaves the rest of the work alone. *)
LEMMA MarkedWork ==
  ASSUME NEW w \in Work, NEW b \in BOOLEAN
  PROVE  LET v == [w EXCEPT !.outdated = b] IN
         v \in Work /\ v.key = w.key /\ v.task = w.task /\ v.copy = w.copy /\ (b => v.outdated)
<1>1. CASE b = TRUE
  BY <1>1 DEF Work
<1>2. CASE b = FALSE
  BY <1>2 DEF Work
<1> QED
  BY <1>1, <1>2

LEMMA LoadedWork ==
  ASSUME NEW w \in Work, NEW t \in SUBSET CatalogKeys, NEW k \in CatalogKeys, NEW r \in Row
  PROVE  [w EXCEPT !.todo = t, !.key = k, !.copy = r, !.outdated = FALSE] \in Work
<1> DEFINE v == [w EXCEPT !.todo = t, !.key = k, !.copy = r]
<1>1. v \in Work
  BY DEF Work
<1>2. [w EXCEPT !.todo = t, !.key = k, !.copy = r, !.outdated = FALSE]
      = [v EXCEPT !.outdated = FALSE]
  BY Zenon
<1> QED
  BY <1>1, <1>2, MarkedWork

LEMMA EnterInv ==
  ASSUME CatalogInv, NEW c \in Clerks, NEW w \in Work, w.task # "none", Enter(c, w)
  PROVE  CatalogInv'
<1>1. /\ at' = [at EXCEPT ![c] = "load"] /\ work' = [work EXCEPT ![c] = w]
      /\ UNCHANGED <<row, library, intended, crossed>>
  BY DEF Enter
<1>2. CatalogTypeOK'
  <2>1. rounds \in 0..MaxRounds /\ rounds < MaxRounds /\ rounds' = rounds + 1
    BY DEF Enter, CatalogInv, CatalogTypeOK
  <2>2. rounds' \in 0..MaxRounds
    BY <2>1, ReleasesAssumption
  <2> QED
    BY <1>1, <2>2 DEF CatalogInv, CatalogTypeOK
<1>3. CopiesAreFresh' /\ TasksSet'
  BY <1>1 DEF CatalogInv, CatalogTypeOK, CopiesAreFresh, TasksSet
<1> QED
  BY <1>1, <1>2, <1>3 DEF CatalogInv, CatalogLossHasCause

LEMMA ExitInv ==
  ASSUME CatalogInv, NEW c \in Clerks, Exit(c), UNCHANGED <<row, library, rounds, intended, crossed>>
  PROVE  CatalogInv'
<1>1. CatalogTypeOK'
  BY NothingTyped DEF CatalogInv, CatalogTypeOK, Exit
<1>2. CopiesAreFresh' /\ TasksSet'
  BY DEF CatalogInv, CatalogTypeOK, CopiesAreFresh, TasksSet, Exit
<1> QED
  BY <1>1, <1>2 DEF CatalogInv, CatalogLossHasCause

LEMMA LoadInv ==
  ASSUME CatalogInv, NEW c \in Clerks, Load(c)
  PROVE  CatalogInv'
<1>1. UNCHANGED <<row, library, rounds, intended, crossed>>
  BY DEF Load
<1>2. ASSUME NEW k \in work[c].todo,
             at[c] = "load",
             at' = [at EXCEPT ![c] = "save"],
             work' = [work EXCEPT ![c] = [work[c] EXCEPT !.todo = work[c].todo \ {k},
                        !.key = k, !.copy = row[k], !.outdated = FALSE]]
      PROVE  CatalogInv'
  <2>1. k \in CatalogKeys /\ work[c].task # "none"
    BY <1>2 DEF CatalogInv, CatalogTypeOK, Work, TasksSet
  <2>2. [work[c] EXCEPT !.todo = work[c].todo \ {k}, !.key = k, !.copy = row[k], !.outdated = FALSE]
          \in Work
    <3>1. /\ work[c] \in Work /\ row[k] \in Row
          /\ work[c].todo \ {k} \in SUBSET CatalogKeys
      BY <2>1 DEF CatalogInv, CatalogTypeOK, Work
    <3> QED
      BY <2>1, <3>1, LoadedWork
  <2>3. CatalogTypeOK'
    BY <1>1, <1>2, <2>2 DEF CatalogInv, CatalogTypeOK
  <2>4. /\ work'[c].key = k /\ work'[c].task = work[c].task
        /\ work'[c].copy = row[k]
        /\ \A d \in Clerks \ {c} : work'[d] = work[d] /\ at'[d] = at[d]
    BY <1>2 DEF CatalogInv, CatalogTypeOK, Work
  <2>5. CopiesAreFresh' /\ TasksSet'
    BY <1>1, <1>2, <2>1, <2>4 DEF CatalogInv, CatalogTypeOK, CopiesAreFresh, TasksSet
  <2> QED
    BY <1>1, <2>3, <2>5 DEF CatalogInv, CatalogLossHasCause
<1> QED
  BY <1>1, <1>2, ExitInv DEF Load

(* A save from a fresh copy changes exactly the columns the clerk means to. *)
LEMMA FreshSave ==
  ASSUME NEW c \in Clerks, CatalogTypeOK, work[c].task # "none"
  PROVE  Edited(c) = Asked(c, work[c].copy)
<1>1. work[c].copy = [release |-> work[c].copy.release, published |-> work[c].copy.published]
  BY DEF CatalogTypeOK, Work, Row
<1>2. work[c].task \in {"sync", "publish", "unpublish"}
  BY DEF CatalogTypeOK, Work
<1> QED
  BY <1>1, <1>2 DEF CatalogTypeOK, Work, Row, Edited, Asked

LEMMA SaveInv ==
  ASSUME CatalogInv, NEW c \in Clerks, Save(c)
  PROVE  CatalogInv'
<1> DEFINE k == work[c].key
<1>1. k \in CatalogKeys /\ work[c].task # "none"
  BY DEF CatalogInv, CopiesAreFresh, Save
<1>2. CASE Exit(c) /\ UNCHANGED <<row, intended, crossed>>
  BY <1>2, ExitInv DEF Save
<1>3. CASE /\ row' = [row EXCEPT ![k] = Edited(c)]
           /\ intended' = [intended EXCEPT ![k] = Asked(c, @)]
           /\ crossed' = IF work[c].outdated THEN crossed \cup {k} ELSE crossed
           /\ at' = [at EXCEPT ![c] = "load"]
           /\ work' = [d \in Clerks |->
                IF d = c THEN [work[c] EXCEPT !.key = NoKey, !.copy = NoRow]
                ELSE [work[d] EXCEPT !.outdated = @ \/ work[d].key = k]]
  <2>1. library' = library /\ rounds' = rounds
    BY DEF Save
  <2>2. /\ Edited(c) \in Row
        /\ Asked(c, intended[k]) \in Row
    BY <1>1 DEF CatalogInv, CatalogTypeOK, Row, Work, Edited, Asked
  <2>3. ASSUME NEW d \in Clerks \ {c}
        PROVE  /\ work'[d] \in Work
               /\ work'[d].key = work[d].key /\ work'[d].task = work[d].task
               /\ work'[d].copy = work[d].copy
               /\ work[d].outdated \/ work[d].key = k => work'[d].outdated
    <3> DEFINE b == work[d].outdated \/ work[d].key = k
    <3>1. b \in BOOLEAN /\ work[d] \in Work
      BY DEF CatalogInv, CatalogTypeOK
    <3>2. work'[d] = [work[d] EXCEPT !.outdated = b]
      BY <1>3
    <3> HIDE DEF b
    <3>3. /\ work'[d] \in Work
          /\ work'[d].key = work[d].key /\ work'[d].task = work[d].task
          /\ work'[d].copy = work[d].copy
          /\ b => work'[d].outdated
      BY <3>1, <3>2, MarkedWork
    <3> QED
      BY <3>3 DEF b
  <2>4. work'[c] = [work[c] EXCEPT !.key = NoKey, !.copy = NoRow]
    BY <1>3
  <2>5. CatalogTypeOK'
    <3>1. \A d \in Clerks : work'[d] \in Work
      <4>1. work'[c] \in Work
        BY <2>4, NothingTyped DEF CatalogInv, CatalogTypeOK, Work
      <4> QED
        BY <2>3, <4>1
    <3>2. work' \in [Clerks -> Work]
      BY <1>3, <3>1
    <3> QED
      BY <1>1, <1>3, <2>1, <2>2, <3>2 DEF CatalogInv, CatalogTypeOK
  <2>6. CopiesAreFresh'
    <3> SUFFICES ASSUME NEW d \in Clerks, at'[d] = "save"
                 PROVE  /\ work'[d].key \in CatalogKeys
                        /\ work'[d].task # "none"
                        /\ work'[d].outdated \/ work'[d].copy = row'[work'[d].key]
      BY DEF CopiesAreFresh
    <3>1. d # c /\ at[d] = "save"
      BY <1>3 DEF CatalogInv, CatalogTypeOK
    <3>2. /\ work'[d].key = work[d].key /\ work'[d].task = work[d].task
          /\ work'[d].copy = work[d].copy
          /\ work[d].outdated \/ work[d].key = k => work'[d].outdated
      BY <2>3, <3>1
    <3>3. work[d].key # k => row'[work[d].key] = row[work[d].key]
      BY <1>3, <3>1 DEF CatalogInv, CatalogTypeOK, CopiesAreFresh
    <3> QED
      BY <3>1, <3>2, <3>3 DEF CatalogInv, CopiesAreFresh
  <2>7. TasksSet'
    BY <1>1, <1>3, <2>3, <2>4 DEF CatalogInv, CatalogTypeOK, TasksSet
  <2>8. CatalogLossHasCause'
    <3> SUFFICES ASSUME NEW j \in CatalogKeys, row'[j] # intended'[j], j \notin crossed'
                 PROVE  FALSE
      BY DEF CatalogLossHasCause
    <3>1. j \notin crossed /\ row[j] = intended[j]
      BY <1>3 DEF CatalogInv, CatalogLossHasCause
    <3>2. j = k
      BY <1>3, <3>1 DEF CatalogInv, CatalogTypeOK
    <3>3. work[c].copy = row[k]
      BY <1>3, <3>2 DEF CatalogInv, CopiesAreFresh, Save
    <3>4. row'[k] = Edited(c) /\ intended'[k] = Asked(c, intended[k])
      BY <1>1, <1>3 DEF CatalogInv, CatalogTypeOK
    <3> QED
      BY <1>1, <3>1, <3>2, <3>3, <3>4, FreshSave DEF CatalogInv
  <2> QED
    BY <2>5, <2>6, <2>7, <2>8 DEF CatalogInv
<1> QED
  BY <1>2, <1>3 DEF Save

LEMMA CatalogStepInv ==
  ASSUME CatalogInv, [CatalogNext]_catalogVars
  PROVE  CatalogInv'
<1>1. CASE UNCHANGED catalogVars
  BY <1>1 DEF catalogVars, CatalogInv, CatalogTypeOK, CopiesAreFresh, TasksSet, CatalogLossHasCause
<1>2. CASE Release
  <2>1. library' \in 1..MaxRelease
    BY <1>2, ReleasesAssumption DEF Release, CatalogInv, CatalogTypeOK
  <2> QED
    BY <1>2, <2>1 DEF Release, CatalogInv, CatalogTypeOK, CopiesAreFresh, TasksSet, CatalogLossHasCause
<1>3. ASSUME NEW c \in Clerks, BeginSync(c) PROVE CatalogInv'
  <2> DEFINE w == [NoWork EXCEPT !.task = "sync", !.todo = CatalogKeys, !.release = library]
  <2>1. library \in 0..MaxRelease
    BY DEF CatalogInv, CatalogTypeOK
  <2>2. w \in Work /\ w.task = "sync"
    BY <2>1, NothingTyped DEF Work
  <2>3. Enter(c, w)
    BY <1>3 DEF BeginSync
  <2> QED
    BY <2>2, <2>3, EnterInv
<1>4. ASSUME NEW c \in Clerks, BeginPublication(c) PROVE CatalogInv'
  <2>1. PICK k \in CatalogKeys, t \in {"publish", "unpublish"} :
          Enter(c, [NoWork EXCEPT !.task = t, !.todo = {k}])
    BY <1>4 DEF BeginPublication
  <2>2. /\ [NoWork EXCEPT !.task = t, !.todo = {k}] \in Work
        /\ [NoWork EXCEPT !.task = t, !.todo = {k}].task = t
    BY NothingTyped DEF Work
  <2> QED
    BY <2>1, <2>2, EnterInv
<1> QED
  BY <1>1, <1>2, <1>3, <1>4, LoadInv, SaveInv DEF CatalogNext

(* A template an administrator withdrew stays withdrawn over any number of restarts
   and releases, and no definition goes back, unless a save used an outdated copy
   (workflow-catalog.service.ts:59-107, 172-193). *)
THEOREM CatalogLossesHaveCause == CatalogSpec => []CatalogLossHasCause
<1>1. CatalogInv => CatalogLossHasCause
  BY DEF CatalogInv
<1> QED
  BY <1>1, CatalogInitInv, CatalogStepInv, PTL DEF CatalogSpec

(* The catalog keeps its types: its rows, the library and the requests. *)
THEOREM CatalogTyped == CatalogSpec => []CatalogTypeOK
<1>1. CatalogInv => CatalogTypeOK
  BY DEF CatalogInv
<1> QED
  BY <1>1, CatalogInitInv, CatalogStepInv, PTL DEF CatalogSpec

(* Both together, as they are checked. *)
THEOREM CatalogCorrect == CatalogSpec => []CatalogHolds
  BY CatalogTyped, CatalogLossesHaveCause, PTL DEF CatalogHolds
=============================================================================
