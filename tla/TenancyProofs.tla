--------------------------- MODULE TenancyProofs ---------------------------
(***************************************************************************)
(* Proofs about the administration: a workspace and its verification, its  *)
(* plans and payments, its accounts.  The three share no table, and each   *)
(* has its own inductive invariant: what every request is doing and what it*)
(* relies on while it does it, and which history a loss or a double leaves.*)
(***************************************************************************)
EXTENDS Tenancy, Billing, Accounts, FiniteSetTheorems, TLAPS

(* The points each request passes, and what it carries there. *)
Requests == {"onboard", "settings", "submit", "link"}
Verdicts == {"approve", "reject"}
Course(s, w) ==
  /\ s = "load" => w.task \in Requests
  /\ s = "store" => w.task \in {"submit", "link"}
  /\ s = "audit" => w.task \in Verdicts
  /\ s \in {"load", "update"} /\ w.task = "onboard" /\ w.blueprint # Nobody => w.left = 2
  /\ s \in {"seed", "seed_flow"} => w.blueprint \in Blueprints
  /\ s = "seed" => w.left \in {1, 2}
  /\ s = "seed_flow" => w.left = 0
  /\ s # "idle" => w.value # 0
(* What it has read is still so, or it was told of a change. *)
UpToDate(s, w, row, files) ==
  /\ s \in {"store", "update"} /\ w.task \notin Verdicts =>
       w.outdated \/ w.copy = row.settings
  /\ s = "update" /\ w.task = "approve" => w.stale \/ w.seen = row.documents
  /\ w.files \subseteq files
Informed == \A a \in Actors : Course(stage[a], work[a]) /\ UpToDate(stage[a], work[a], tenant, disk)

(* A request that has created the first definition of b and not yet its workflow. *)
Seeds(s, w, b) == s \in {"seed", "seed_flow"} /\ w.blueprint = b /\ w.left # 2
Own(b) == Elements(EntitiesOf(b))
First(b) == EntitiesOf(b)[1]
SeededOnce ==
  \A b \in Blueprints :
    /\ flows[b] > 0 => Own(b) \subseteq slugs \cup dropped
    /\ Own(b) \cap dropped = {} =>
         /\ flows[b] \in {0, 1}
         /\ \A a \in Actors : Seeds(stage[a], work[a], b) =>
              /\ First(b) \in slugs /\ flows[b] = 0
              /\ \A c \in Actors : Seeds(stage[c], work[c], b) => c = a

TenancyInv ==
  /\ TenancyTypeOK /\ Informed /\ SeededOnce /\ SettingsLossHasCause /\ VerdictsHold
-----------------------------------------------------------------------------
Settled(a) == stage' = [stage EXCEPT ![a] = "idle"]

LEMMA NoWorkTyped == NoWork \in Work
  BY VisitsAssumption DEF NoWork, Work, Settings, Tasks

LEMMA EntitiesTyped ==
  ASSUME NEW b \in Blueprints
  PROVE  /\ EntitiesOf(b)[1] \in Slugs /\ EntitiesOf(b)[2] \in Slugs
         /\ Own(b) = {EntitiesOf(b)[1], EntitiesOf(b)[2]}
         /\ EntitiesOf(b)[1] # EntitiesOf(b)[2]
<1>1. \E x, y : x # y /\ EntitiesOf(b) = <<x, y>>
  <2>1. "leads" # "deals" /\ "products" # "suppliers" /\ "clients" # "products"
    OBVIOUS
  <2> QED
    BY <2>1 DEF EntitiesOf, CrmEntities, InventoryEntities, StandardEntities
<1>2. PICK x, y : x # y /\ EntitiesOf(b) = <<x, y>>
  BY <1>1
<1>3. Own(b) = {x, y}
  BY <1>2 DEF Own, Elements
<1>4. Own(b) \subseteq Slugs
  BY DEF Own, Slugs
<1> QED
  BY <1>2, <1>3, <1>4

LEMMA InitInv == TenancyInit => TenancyInv
<1> SUFFICES ASSUME TenancyInit PROVE TenancyInv
  OBVIOUS
<1>1. TenancyTypeOK
  <2>1. tenant \in Tenant /\ asked \in Settings /\ visits \in 0..MaxVisits
    BY VisitsAssumption DEF TenancyInit, Tenant, Settings
  <2>2. stage \in [Actors -> Stages] /\ work \in [Actors -> Work]
    BY NoWorkTyped DEF TenancyInit, Stages
  <2>3. flows \in [Blueprints -> Nat] /\ {crossed, unseen, reopened} \subseteq BOOLEAN
    BY DEF TenancyInit
  <2> QED
    BY <2>1, <2>2, <2>3 DEF TenancyInit, TenancyTypeOK
<1>2. Informed
  BY DEF TenancyInit, Informed, Course, UpToDate, NoWork
<1>3. SeededOnce
  BY DEF TenancyInit, SeededOnce, Seeds
<1> QED
  BY <1>1, <1>2, <1>3 DEF TenancyInit, TenancyInv, SettingsLossHasCause, VerdictsHold,
     ActiveOnReviewedDocuments, RecordedDocumentsExist, VerdictsAgree, VerdictIsLogged, Unlogged

(* The request a goes to s with w, the others stay where they are. *)
Goes(a, s, w) == /\ stage' = [stage EXCEPT ![a] = s]
                 /\ work' = [work EXCEPT ![a] = w]

LEMMA GoesTyped ==
  ASSUME TenancyTypeOK, NEW a \in Actors, NEW s \in Stages, NEW w \in Work, Goes(a, s, w)
  PROVE  /\ stage' \in [Actors -> Stages] /\ work' \in [Actors -> Work]
         /\ stage'[a] = s /\ work'[a] = w
         /\ \A c \in Actors : c # a => stage'[c] = stage[c] /\ work'[c] = work[c]
  BY DEF TenancyTypeOK, Goes

(* A step that neither begins nor ends a decision leaves the verdicts to be logged. *)
LEMMA UnloggedStays ==
  ASSUME \A b \in Actors : /\ stage'[b] = "audit" <=> stage[b] = "audit"
                           /\ stage[b] = "audit" => work'[b] = work[b]
  PROVE  Unlogged' = Unlogged
  BY DEF Unlogged, Verdict

(* A request that goes on without writing the row. *)
LEMMA ReadStep ==
  ASSUME TenancyInv, NEW a \in Actors, NEW s \in Stages, NEW w \in Work, Goes(a, s, w),
         Course(s, w), UpToDate(s, w, tenant, disk'),
         \A b \in Blueprints : Seeds(s, w, b) => Seeds(stage[a], work[a], b),
         stage[a] # "audit", s # "audit",
         disk \subseteq disk', disk' \subseteq Files,
         UNCHANGED <<tenant, seeds, audit, rowHistory, failed, verdicts>>, visits' \in 0..MaxVisits
  PROVE  TenancyInv'
<1>1. TenancyTypeOK'
  BY GoesTyped DEF TenancyInv, TenancyTypeOK, seeds, rowHistory
<1>2. Informed'
  BY GoesTyped DEF TenancyInv, Informed, UpToDate
<1>3. SeededOnce'
  BY GoesTyped DEF TenancyInv, SeededOnce, seeds
<1>4. SettingsLossHasCause' /\ ActiveOnReviewedDocuments' /\ VerdictsAgree'
  BY DEF TenancyInv, SettingsLossHasCause, VerdictsHold, ActiveOnReviewedDocuments, VerdictsAgree,
     rowHistory
<1>a. \A b \in Actors : /\ stage'[b] = "audit" <=> stage[b] = "audit"
                        /\ stage[b] = "audit" => work'[b] = work[b]
  <2>1. /\ stage'[a] = s /\ \A c \in Actors : c # a => stage'[c] = stage[c] /\ work'[c] = work[c]
    BY GoesTyped DEF TenancyInv
  <2> QED
    BY <2>1
<1>b. Unlogged' = Unlogged
  BY <1>a, UnloggedStays
<1>5. RecordedDocumentsExist' /\ VerdictIsLogged'
  BY <1>b DEF TenancyInv, VerdictsHold, RecordedDocumentsExist, VerdictIsLogged
<1> QED
  BY <1>1, <1>2, <1>3, <1>4, <1>5 DEF TenancyInv, VerdictsHold
-----------------------------------------------------------------------------
LEMMA EnterStep ==
  ASSUME TenancyInv, NEW a \in Actors, NEW w \in Work, NEW s \in {"load", "update"}, Enter(a, w, s),
         s = "load" => w.task \in Requests,
         s = "update" => w.task \in Verdicts /\ w.seen = tenant.documents,
         w.task = "onboard" /\ w.blueprint # Nobody => w.left = 2,
         w.files = {}
  PROVE  TenancyInv'
<1> DEFINE v == [w EXCEPT !.value = visits + 1]
<1>1. visits \in 0..MaxVisits /\ visits + 1 \in 1..MaxVisits /\ stage[a] = "idle"
  BY VisitsAssumption DEF TenancyInv, TenancyTypeOK, Enter
<1>2. v \in Work
  BY <1>1 DEF Work
<1>3. /\ v.task = w.task /\ v.blueprint = w.blueprint /\ v.left = w.left
      /\ v.files = w.files /\ v.seen = w.seen /\ v.value = visits + 1
  BY DEF Work
<1> HIDE DEF v
<1>4. Goes(a, s, v)
  BY DEF Enter, Goes, v
<1>5. Course(s, v) /\ UpToDate(s, v, tenant, disk)
  BY <1>1, <1>3 DEF Course, UpToDate, Verdicts
<1>6. \A b \in Blueprints : ~ Seeds(s, v, b)
  BY DEF Seeds
<1> QED
  BY <1>1, <1>2, <1>4, <1>5, <1>6, ReadStep DEF Enter, Stages, TenancyInv, TenancyTypeOK

LEMMA ArriveStep ==
  ASSUME TenancyInv, NEW a \in Actors, MemberArrives(a) \/ AdministratorArrives(a)
  PROVE  TenancyInv'
<1>1. ASSUME NEW t \in {"settings", "submit", "link"},
             Enter(a, [NoWork EXCEPT !.task = t], "load")
      PROVE  TenancyInv'
  <2> DEFINE w == [NoWork EXCEPT !.task = t]
  <2>1. w \in Work /\ w.task = t /\ w.files = {}
    BY NoWorkTyped DEF Work, NoWork, Tasks
  <2> QED
    BY <1>1, <2>1, EnterStep DEF Requests
<1>2. ASSUME NEW b \in Blueprints \cup {Nobody},
             Enter(a, [NoWork EXCEPT !.task = "onboard", !.blueprint = b,
                         !.left = IF b = Nobody THEN 0 ELSE 2], "load")
      PROVE  TenancyInv'
  <2> DEFINE n == IF b = Nobody THEN 0 ELSE 2
             w == [NoWork EXCEPT !.task = "onboard", !.blueprint = b, !.left = n]
  <2>0. n \in 0..2 /\ (b # Nobody => n = 2)
    OBVIOUS
  <2>1. w \in Work /\ w.task = "onboard" /\ w.files = {} /\ w.blueprint = b /\ w.left = n
    <3> HIDE DEF n
    <3> QED
      BY <2>0, NoWorkTyped DEF Work, NoWork, Tasks
  <2> QED
    BY <1>2, <2>0, <2>1, EnterStep DEF Requests
<1>3. ASSUME NEW t \in Verdicts,
             Enter(a, [NoWork EXCEPT !.task = t, !.seen = tenant.documents], "update")
      PROVE  TenancyInv'
  <2> DEFINE w == [NoWork EXCEPT !.task = t, !.seen = tenant.documents]
  <2>0. tenant.documents \subseteq Files
    BY DEF TenancyInv, TenancyTypeOK, Tenant
  <2>1. w \in Work /\ w.task = t /\ w.files = {} /\ w.seen = tenant.documents
    BY <2>0, NoWorkTyped DEF Work, NoWork, Tasks, Verdicts
  <2> QED
    BY <1>3, <2>1, EnterStep DEF Verdicts
<1> QED
  BY <1>1, <1>2, <1>3 DEF MemberArrives, AdministratorArrives, Verdicts

LEMMA LoadStep ==
  ASSUME TenancyInv, NEW a \in Actors, LoadTenant(a)
  PROVE  TenancyInv'
<1> DEFINE w == [work[a] EXCEPT !.copy = tenant.settings]
           s == IF work[a].task \in {"submit", "link"} THEN "store" ELSE "update"
<1>1. work[a] \in Work /\ tenant.settings \in Settings
  BY DEF TenancyInv, TenancyTypeOK, Tenant
<1>2. /\ w \in Work /\ w.copy = tenant.settings /\ w.task = work[a].task /\ w.files = work[a].files
      /\ w.blueprint = work[a].blueprint /\ w.left = work[a].left /\ w.value = work[a].value
  BY <1>1 DEF Work
<1>3. Goes(a, s, w) /\ stage[a] = "load"
  BY DEF LoadTenant, Goes
<1> HIDE DEF w
<1>4. Course(s, w) /\ UpToDate(s, w, tenant, disk)
  BY <1>2, <1>3 DEF TenancyInv, Informed, Course, UpToDate, Requests, Verdicts
<1>5. \A b \in Blueprints : ~ Seeds(s, w, b)
  BY DEF Seeds
<1> QED
  BY <1>2, <1>3, <1>4, <1>5, ReadStep DEF LoadTenant, Stages, TenancyInv, TenancyTypeOK

LEMMA LeaveStep ==
  ASSUME TenancyInv, NEW a \in Actors, Leave(a), stage[a] # "audit",
         disk \subseteq disk', disk' \subseteq Files,
         UNCHANGED <<tenant, seeds, audit, rowHistory, failed, verdicts, visits>>
  PROVE  TenancyInv'
<1>1. Goes(a, "idle", NoWork)
  BY DEF Leave, Goes
<1>2. Course("idle", NoWork) /\ UpToDate("idle", NoWork, tenant, disk')
  BY DEF Course, UpToDate, NoWork
<1>3. \A b \in Blueprints : ~ Seeds("idle", NoWork, b)
  BY DEF Seeds
<1> QED
  BY <1>1, <1>2, <1>3, NoWorkTyped, ReadStep DEF Stages, TenancyInv, TenancyTypeOK

LEMMA StoreStep ==
  ASSUME TenancyInv, NEW a \in Actors, StoreDocuments(a)
  PROVE  TenancyInv'
<1>0. FirstFresh \subseteq Fresh /\ Fresh \subseteq Files /\ disk \subseteq Files /\ work[a] \in Work
      /\ stage[a] = "store"
  BY DEF FirstFresh, Fresh, TenancyInv, TenancyTypeOK, StoreDocuments
<1>1. ASSUME work[a].task = "submit", NEW second \in Fresh \ FirstFresh,
             work' = [work EXCEPT ![a].files = FirstFresh \cup {second}],
             disk' = disk \cup FirstFresh \cup {second},
             stage' = [stage EXCEPT ![a] = "update"],
             UNCHANGED <<tenant, seeds, visits, audit, rowHistory, failed, verdicts>>
      PROVE  TenancyInv'
  <2> DEFINE f == FirstFresh \cup {second}
             w == [work[a] EXCEPT !.files = f]
  <2>1. f \subseteq Files /\ disk' = disk \cup f
    BY <1>0, <1>1
  <2> HIDE DEF f
  <2>2. /\ w \in Work /\ w.files = f /\ w.task = "submit" /\ w.copy = work[a].copy
        /\ w.outdated = work[a].outdated /\ w.value = work[a].value
    BY <1>0, <1>1, <2>1 DEF Work
  <2>3. Goes(a, "update", w)
    BY <1>1 DEF Goes, f
  <2> HIDE DEF w
  <2>4. Course("update", w) /\ UpToDate("update", w, tenant, disk')
    BY <1>0, <1>1, <2>1, <2>2 DEF TenancyInv, Informed, Course, UpToDate, Verdicts
  <2>5. \A b \in Blueprints : ~ Seeds("update", w, b)
    BY DEF Seeds
  <2> QED
    BY <1>0, <1>1, <2>1, <2>2, <2>3, <2>4, <2>5, ReadStep DEF Stages, TenancyInv, TenancyTypeOK
<1>2. ASSUME Leave(a), NEW written \in SUBSET FirstFresh, disk' = disk \cup written,
             UNCHANGED <<tenant, seeds, visits, audit, rowHistory, failed, verdicts>>
      PROVE  TenancyInv'
  BY <1>0, <1>2, LeaveStep
<1>3. ASSUME work[a].task = "link", stage' = [stage EXCEPT ![a] = "update"],
             UNCHANGED <<work, disk, tenant, seeds, visits, audit, rowHistory, failed, verdicts>>
      PROVE  TenancyInv'
  <2>1. Goes(a, "update", work[a])
    BY <1>3 DEF Goes, TenancyInv, TenancyTypeOK
  <2>2. Course("update", work[a]) /\ UpToDate("update", work[a], tenant, disk')
    BY <1>0, <1>3 DEF TenancyInv, Informed, Course, UpToDate, Verdicts
  <2>3. \A b \in Blueprints : ~ Seeds("update", work[a], b)
    BY DEF Seeds
  <2> QED
    BY <1>0, <1>3, <2>1, <2>2, <2>3, ReadStep DEF Stages, TenancyInv, TenancyTypeOK
<1> QED
  BY <1>1, <1>2, <1>3 DEF StoreDocuments
-----------------------------------------------------------------------------
(* What a write of the row leaves of another request: it is told that what it has
   read is no longer so. *)
Told(before, after, s, newSettings, newDocuments) ==
  /\ after \in Work
  /\ after.task = before.task /\ after.copy = before.copy /\ after.files = before.files
  /\ after.seen = before.seen /\ after.blueprint = before.blueprint
  /\ after.left = before.left /\ after.value = before.value
  /\ before.outdated \/ (newSettings /\ s \in {"store", "update"}) => after.outdated
  /\ before.stale \/ (newDocuments /\ s = "update") => after.stale

LEMMA OvertakeTells ==
  ASSUME TenancyInv, NEW a \in Actors, NEW w \in Work, NEW x \in BOOLEAN, NEW y \in BOOLEAN,
         Overtake(a, w, x, y)
  PROVE  /\ work' \in [Actors -> Work] /\ work'[a] = w
         /\ \A b \in Actors : b # a => Told(work[b], work'[b], stage[b], x, y)
<1>1. \A b \in Actors : b # a => Told(work[b], work'[b], stage[b], x, y)
  <2> SUFFICES ASSUME NEW b \in Actors, b # a PROVE Told(work[b], work'[b], stage[b], x, y)
    OBVIOUS
  <2> DEFINE p == x /\ stage[b] \in {"store", "update"}
             q == y /\ stage[b] = "update"
  <2>1. work[b] \in Work /\ p \in BOOLEAN /\ q \in BOOLEAN
    BY DEF TenancyInv, TenancyTypeOK
  <2> HIDE DEF p, q
  <2> DEFINE v == [work[b] EXCEPT !.outdated = (@ \/ p), !.stale = (@ \/ q)]
  <2>2. work'[b] = v
    BY DEF Overtake, p, q
  <2>3. /\ v \in Work
        /\ v.task = work[b].task /\ v.copy = work[b].copy /\ v.files = work[b].files
        /\ v.seen = work[b].seen /\ v.blueprint = work[b].blueprint
        /\ v.left = work[b].left /\ v.value = work[b].value
        /\ (work[b].outdated \/ p => v.outdated) /\ (work[b].stale \/ q => v.stale)
    <3>1. CASE p /\ q
      BY <2>1, <3>1 DEF Work
    <3>2. CASE p /\ ~q
      BY <2>1, <3>2 DEF Work
    <3>3. CASE ~p /\ q
      BY <2>1, <3>3 DEF Work
    <3>4. CASE ~p /\ ~q
      BY <2>1, <3>4 DEF Work
    <3> QED
      BY <3>1, <3>2, <3>3, <3>4
  <2> HIDE DEF v
  <2> QED
    BY <2>2, <2>3 DEF Told, p, q
<1>2. work'[a] = w
  BY DEF Overtake
<1>3. \A b \in Actors : work'[b] \in Work
  BY <1>1, <1>2 DEF Told
<1>4. work' = [b \in Actors |-> work'[b]]
  BY DEF Overtake
<1> QED
  BY <1>1, <1>2, <1>3, <1>4

LEMMA WriteStep ==
  ASSUME TenancyInv, NEW a \in Actors, NEW s \in Stages, NEW w \in Work, stage[a] = "update",
         stage' = [stage EXCEPT ![a] = s],
         NEW x \in BOOLEAN, NEW y \in BOOLEAN,
         work' \in [Actors -> Work], work'[a] = w,
         \A b \in Actors : b # a => Told(work[b], work'[b], stage[b], x, y),
         Course(s, w), UpToDate(s, w, tenant', disk),
         \A b \in Blueprints : ~ Seeds(s, w, b),
         tenant' \in Tenant, asked' \in Settings, accepted' \subseteq Files,
         {crossed', unseen', reopened'} \subseteq BOOLEAN,
         tenant'.settings # tenant.settings => x, tenant'.documents # tenant.documents => y,
         SettingsLossHasCause', ActiveOnReviewedDocuments', RecordedDocumentsExist', VerdictsAgree',
         \A t \in {<<"approved", "approve">>, <<"rejected", "reject">>} :
           tenant'.verification = t[1] =>
             tenant.verification = t[1] \/ (s = "audit" /\ w.task = t[2]),
         verdicts' = IF s = "audit" THEN verdicts \cup {<<w.value, w.task>>} ELSE verdicts,
         verdicts' \subseteq (1..MaxVisits) \X {"approve", "reject"},
         UNCHANGED <<disk, seeds, visits, audit, failed>>
  PROVE  TenancyInv'
<1>1. stage' \in [Actors -> Stages] /\ stage'[a] = s
      /\ \A b \in Actors : b # a => stage'[b] = stage[b]
  BY DEF TenancyInv, TenancyTypeOK
<1>2. TenancyTypeOK'
  BY <1>1 DEF TenancyInv, TenancyTypeOK, seeds
<1>3. Informed'
  <2> SUFFICES ASSUME NEW b \in Actors, b # a
               PROVE  Course(stage[b], work'[b]) /\ UpToDate(stage[b], work'[b], tenant', disk)
    BY <1>1 DEF Informed
  <2> QED
    BY DEF TenancyInv, Informed, Told, Course, UpToDate
<1>4. SeededOnce'
  <2>1. \A b \in Blueprints, c \in Actors :
          Seeds(stage'[c], work'[c], b) => Seeds(stage[c], work[c], b)
    BY <1>1 DEF Told, Seeds
  <2> QED
    BY <2>1 DEF TenancyInv, SeededOnce, seeds
<1>5. VerdictIsLogged'
  <2>1. \A b \in Actors : b # a => /\ stage'[b] = "audit" <=> stage[b] = "audit"
                                   /\ Verdict(b)' = Verdict(b)
    BY <1>1 DEF Told, Verdict
  <2>2. Verdict(a)' = <<w.value, w.task>>
    BY DEF Verdict
  <2>3. Unlogged' = IF s = "audit" THEN Unlogged \cup {<<w.value, w.task>>} ELSE Unlogged
    BY <1>1, <2>1, <2>2 DEF Unlogged
  <2>4. /\ audit \cup Unlogged \subseteq verdicts
        /\ \A v \in verdicts \ (audit \cup Unlogged) : v[1] \in failed
        /\ tenant.verification = "approved" => \E v \in verdicts : v[2] = "approve"
        /\ tenant.verification = "rejected" => \E v \in verdicts : v[2] = "reject"
    BY DEF TenancyInv, VerdictsHold, VerdictIsLogged
  <2>5. /\ audit' \cup Unlogged' \subseteq verdicts'
        /\ \A v \in verdicts' \ (audit' \cup Unlogged') : v[1] \in failed'
    BY <2>3, <2>4
  <2>6. ASSUME NEW t \in {<<"approved", "approve">>, <<"rejected", "reject">>},
               tenant'.verification = t[1]
        PROVE  \E v \in verdicts' : v[2] = t[2]
    <3>1. CASE tenant.verification = t[1]
      BY <2>4, <3>1
    <3>2. CASE s = "audit" /\ w.task = t[2]
      <4>1. <<w.value, w.task>> \in verdicts' /\ <<w.value, w.task>>[2] = t[2]
        BY <3>2
      <4> QED
        BY <4>1
    <3> QED
      BY <2>6, <3>1, <3>2
  <2>7. /\ tenant'.verification = "approved" => \E v \in verdicts' : v[2] = "approve"
        /\ tenant'.verification = "rejected" => \E v \in verdicts' : v[2] = "reject"
    BY <2>6
  <2> QED
    BY <2>5, <2>7 DEF VerdictIsLogged
<1> QED
  BY <1>2, <1>3, <1>4, <1>5 DEF TenancyInv, VerdictsHold
-----------------------------------------------------------------------------
LEMMA MergedTyped ==
  ASSUME TenancyInv, NEW a \in Actors
  PROVE  /\ Merged(a) \in Settings /\ work[a] \in Work /\ tenant \in Tenant
         /\ KeepsSettings(a) => asked' \in Settings /\ crossed' \in BOOLEAN
<1>1. work[a] \in Work /\ tenant \in Tenant /\ asked \in Settings /\ crossed \in BOOLEAN
  BY DEF TenancyInv, TenancyTypeOK
<1>2. Merged(a) \in Settings
  BY <1>1 DEF Merged, Work, Settings
<1>3. KeepsSettings(a) => asked' \in Settings /\ crossed' \in BOOLEAN
  BY <1>1 DEF KeepsSettings, Work, Settings
<1> QED
  BY <1>1, <1>2, <1>3

(* A merge of a copy that is up to date changes the request's own parts only. *)
LEMMA MergeKeeps ==
  ASSUME TenancyInv, NEW a \in Actors, stage[a] = "update", work[a].task \notin Verdicts,
         tenant'.settings = Merged(a), KeepsSettings(a)
  PROVE  SettingsLossHasCause'
<1> SUFFICES ASSUME ~crossed' PROVE tenant'.settings = asked'
  BY DEF SettingsLossHasCause
<1>1. ~crossed /\ ~work[a].outdated
  BY DEF KeepsSettings
<1>2. work[a].copy = tenant.settings /\ tenant.settings = asked
  BY <1>1 DEF TenancyInv, Informed, UpToDate, SettingsLossHasCause
<1> QED
  BY <1>2 DEF Merged, KeepsSettings

LEMMA NoWorkFits == Course("idle", NoWork) /\ \A r, f : UpToDate("idle", NoWork, r, f)
                    /\ \A b \in Blueprints : ~ Seeds("idle", NoWork, b)
  BY DEF Course, UpToDate, NoWork, Seeds

LEMMA SettingsStep ==
  ASSUME TenancyInv, NEW a \in Actors, UpdateSettings(a)
  PROVE  TenancyInv'
<1>1. /\ tenant' \in Tenant /\ tenant'.settings = Merged(a)
      /\ tenant'.documents = tenant.documents /\ tenant'.status = tenant.status
      /\ tenant'.verification = tenant.verification /\ tenant'.reason = tenant.reason
  BY MergedTyped DEF UpdateSettings, Tenant
<1>2. asked' \in Settings /\ crossed' \in BOOLEAN
  BY MergedTyped DEF UpdateSettings
<1>3. SettingsLossHasCause'
  BY <1>1, MergeKeeps DEF UpdateSettings, Verdicts
<1>4. ActiveOnReviewedDocuments' /\ RecordedDocumentsExist' /\ VerdictsAgree'
  BY <1>1 DEF UpdateSettings, TenancyInv, VerdictsHold, ActiveOnReviewedDocuments,
     RecordedDocumentsExist, VerdictsAgree
<1>5. /\ work' \in [Actors -> Work] /\ work'[a] = NoWork
      /\ \A b \in Actors : b # a => Told(work[b], work'[b], stage[b], TRUE, FALSE)
  BY OvertakeTells, NoWorkTyped DEF UpdateSettings
<1>6. "idle" \in Stages /\ accepted' \subseteq Files /\ unseen' \in BOOLEAN /\ reopened' \in BOOLEAN
      /\ verdicts' = verdicts /\ verdicts \subseteq (1..MaxVisits) \X {"approve", "reject"}
  BY DEF Stages, UpdateSettings, TenancyInv, TenancyTypeOK
<1> QED
  BY <1>1, <1>2, <1>3, <1>4, <1>5, <1>6, NoWorkFits, NoWorkTyped, WriteStep DEF UpdateSettings

LEMMA OnboardStep ==
  ASSUME TenancyInv, NEW a \in Actors, CompleteOnboarding(a)
  PROVE  TenancyInv'
<1> DEFINE s == IF work[a].blueprint = Nobody THEN "idle" ELSE "seed"
           w == IF work[a].blueprint = Nobody THEN NoWork ELSE work[a]
<1>1. /\ tenant' \in Tenant /\ tenant'.settings = Merged(a)
      /\ tenant'.documents = tenant.documents /\ tenant'.status = "pending_verification"
      /\ tenant'.verification = tenant.verification
  BY MergedTyped DEF CompleteOnboarding, Tenant
<1>2. asked' \in Settings /\ crossed' \in BOOLEAN
  BY MergedTyped DEF CompleteOnboarding
<1>3. SettingsLossHasCause'
  BY <1>1, MergeKeeps DEF CompleteOnboarding, Verdicts
<1>4. ActiveOnReviewedDocuments' /\ RecordedDocumentsExist' /\ VerdictsAgree'
  BY <1>1 DEF CompleteOnboarding, TenancyInv, VerdictsHold, ActiveOnReviewedDocuments,
     RecordedDocumentsExist, VerdictsAgree
<1>5. w \in Work /\ s \in Stages
  BY NoWorkTyped, MergedTyped DEF Stages
<1>6. /\ work' \in [Actors -> Work] /\ work'[a] = w
      /\ \A b \in Actors : b # a => Told(work[b], work'[b], stage[b], TRUE, FALSE)
  BY <1>5, OvertakeTells DEF CompleteOnboarding
<1>7. Course(s, w) /\ UpToDate(s, w, tenant', disk) /\ \A b \in Blueprints : ~ Seeds(s, w, b)
  <2>1. CASE work[a].blueprint = Nobody
    BY <2>1, NoWorkFits
  <2>2. CASE work[a].blueprint # Nobody
    <3>1. work[a].left = 2 /\ work[a].blueprint \in Blueprints /\ work[a].value # 0
          /\ work[a].files \subseteq disk
      BY <2>2, MergedTyped DEF CompleteOnboarding, TenancyInv, Informed, Course, UpToDate, Work
    <3> QED
      BY <2>2, <3>1 DEF Course, UpToDate, Seeds
  <2> QED
    BY <2>1, <2>2
<1>8. accepted' \subseteq Files /\ unseen' \in BOOLEAN /\ reopened' \in BOOLEAN
  BY DEF CompleteOnboarding, TenancyInv, TenancyTypeOK
<1>9. stage' = [stage EXCEPT ![a] = s] /\ stage[a] = "update"
      /\ UNCHANGED <<disk, seeds, visits, audit, failed, verdicts>>
      /\ s # "audit" /\ verdicts \subseteq (1..MaxVisits) \X {"approve", "reject"}
  BY DEF CompleteOnboarding, TenancyInv, TenancyTypeOK
<1> HIDE DEF s, w
<1> QED
  BY <1>1, <1>2, <1>3, <1>4, <1>5, <1>6, <1>7, <1>8, <1>9, WriteStep

LEMMA SubmitStep ==
  ASSUME TenancyInv, NEW a \in Actors, SubmitApplication(a)
  PROVE  TenancyInv'
<1>1. /\ tenant' \in Tenant /\ tenant'.settings = Merged(a)
      /\ tenant'.documents = work[a].files /\ tenant'.status = "pending_verification"
      /\ tenant'.verification = "submitted" /\ tenant'.reason = FALSE
  BY MergedTyped DEF SubmitApplication, Submitted, Tenant, Work
<1>2. asked' \in Settings /\ crossed' \in BOOLEAN /\ work[a].files \subseteq disk
  BY MergedTyped DEF SubmitApplication, TenancyInv, Informed, UpToDate
<1>3. SettingsLossHasCause'
  BY <1>1, MergeKeeps DEF SubmitApplication, Verdicts
<1>4. ActiveOnReviewedDocuments' /\ RecordedDocumentsExist' /\ VerdictsAgree'
  BY <1>1, <1>2 DEF SubmitApplication, ActiveOnReviewedDocuments, RecordedDocumentsExist, VerdictsAgree
<1>5. /\ work' \in [Actors -> Work] /\ work'[a] = NoWork
      /\ \A b \in Actors : b # a => Told(work[b], work'[b], stage[b], TRUE, TRUE)
  BY OvertakeTells, NoWorkTyped DEF SubmitApplication
<1>6. "idle" \in Stages /\ accepted' \subseteq Files /\ unseen' \in BOOLEAN /\ reopened' \in BOOLEAN
      /\ verdicts' = verdicts /\ verdicts \subseteq (1..MaxVisits) \X {"approve", "reject"}
  BY DEF Stages, SubmitApplication, TenancyInv, TenancyTypeOK
<1>7. \A t \in {<<"approved", "approve">>, <<"rejected", "reject">>} :
        tenant'.verification = t[1] =>
          tenant.verification = t[1] \/ ("idle" = "audit" /\ NoWork.task = t[2])
  BY <1>1
<1> QED
  BY <1>1, <1>2, <1>3, <1>4, <1>5, <1>6, <1>7, NoWorkFits, NoWorkTyped, WriteStep DEF SubmitApplication

LEMMA LinksStep ==
  ASSUME TenancyInv, NEW a \in Actors, SubmitLinks(a)
  PROVE  TenancyInv'
<1>1. /\ tenant' \in Tenant /\ tenant'.settings = tenant.settings
      /\ tenant'.documents = {} /\ tenant'.status = "pending_verification"
      /\ tenant'.verification = "submitted" /\ tenant'.reason = FALSE
  BY MergedTyped DEF SubmitLinks, Submitted, Tenant
<1>3. SettingsLossHasCause'
  BY <1>1 DEF SubmitLinks, SettingsLossHasCause, TenancyInv
<1>4. ActiveOnReviewedDocuments' /\ RecordedDocumentsExist' /\ VerdictsAgree'
  BY <1>1 DEF SubmitLinks, ActiveOnReviewedDocuments, RecordedDocumentsExist, VerdictsAgree
<1>5. /\ work' \in [Actors -> Work] /\ work'[a] = NoWork
      /\ \A b \in Actors : b # a => Told(work[b], work'[b], stage[b], FALSE, TRUE)
  BY OvertakeTells, NoWorkTyped DEF SubmitLinks
<1>6. "idle" \in Stages /\ accepted' \subseteq Files /\ unseen' \in BOOLEAN /\ reopened' \in BOOLEAN
      /\ verdicts' = verdicts /\ verdicts \subseteq (1..MaxVisits) \X {"approve", "reject"}
      /\ asked' \in Settings /\ crossed' \in BOOLEAN
  BY DEF Stages, SubmitLinks, TenancyInv, TenancyTypeOK
<1>7. \A t \in {<<"approved", "approve">>, <<"rejected", "reject">>} :
        tenant'.verification = t[1] =>
          tenant.verification = t[1] \/ ("idle" = "audit" /\ NoWork.task = t[2])
  BY <1>1
<1> QED
  BY <1>1, <1>3, <1>4, <1>5, <1>6, <1>7, NoWorkFits, NoWorkTyped, WriteStep DEF SubmitLinks

(* approveTenant and rejectTenant leave what every request carries as it is. *)
LEMMA VerdictStep ==
  ASSUME TenancyInv, NEW a \in Actors, ApproveTenant(a) \/ RejectTenant(a)
  PROVE  TenancyInv'
<1>1. /\ tenant' \in Tenant /\ tenant'.settings = tenant.settings
      /\ tenant'.documents = tenant.documents
      /\ \/ /\ work[a].task = "approve" /\ tenant'.status = "active"
            /\ tenant'.verification = "approved" /\ tenant'.reason = FALSE
         \/ /\ work[a].task = "reject" /\ tenant'.status = "rejected"
            /\ tenant'.verification = "rejected" /\ tenant'.reason = TRUE
  BY MergedTyped DEF ApproveTenant, RejectTenant, Tenant
<1>2. asked' \in Settings /\ accepted' \subseteq Files /\ {crossed', unseen', reopened'} \subseteq BOOLEAN
      /\ work[a] \in Work /\ stage[a] = "update"
  BY DEF ApproveTenant, RejectTenant, TenancyInv, TenancyTypeOK, Work
<1>3. SettingsLossHasCause'
  BY <1>1 DEF ApproveTenant, RejectTenant, SettingsLossHasCause, TenancyInv
<1>4. ActiveOnReviewedDocuments'
  BY <1>1 DEF ApproveTenant, RejectTenant, ActiveOnReviewedDocuments, TenancyInv, Informed, UpToDate
<1>5. RecordedDocumentsExist' /\ VerdictsAgree'
  BY <1>1 DEF ApproveTenant, RejectTenant, RecordedDocumentsExist, VerdictsAgree, TenancyInv, VerdictsHold
<1>6. work' \in [Actors -> Work] /\ work' = work
      /\ \A b \in Actors : b # a => Told(work[b], work'[b], stage[b], FALSE, FALSE)
  BY DEF ApproveTenant, RejectTenant, TenancyInv, TenancyTypeOK, Told
<1>7. Course("audit", work[a]) /\ UpToDate("audit", work[a], tenant', disk)
  BY <1>1, <1>2 DEF TenancyInv, Informed, Course, UpToDate, Verdicts
<1>8. "audit" \in Stages /\ \A b \in Blueprints : ~ Seeds("audit", work[a], b)
  BY DEF Stages, Seeds
<1>9. /\ stage' = [stage EXCEPT ![a] = "audit"] /\ UNCHANGED <<disk, seeds, visits, audit, failed>>
      /\ verdicts' = verdicts \cup {<<work[a].value, work[a].task>>}
  BY DEF ApproveTenant, RejectTenant, Decide, Verdict
<1>a. verdicts' \subseteq (1..MaxVisits) \X {"approve", "reject"}
  <2>1. work[a].value \in 1..MaxVisits /\ work[a].task \in {"approve", "reject"}
    BY <1>1, <1>2, <1>7, VisitsAssumption DEF Course, Work
  <2> QED
    BY <1>9, <2>1 DEF TenancyInv, TenancyTypeOK
<1>10. \A t \in {<<"approved", "approve">>, <<"rejected", "reject">>} :
        tenant'.verification = t[1] =>
          tenant.verification = t[1] \/ ("audit" = "audit" /\ work[a].task = t[2])
  BY <1>1
<1> QED
  BY <1>1, <1>2, <1>3, <1>4, <1>5, <1>6, <1>7, <1>8, <1>9, <1>a, <1>10, WriteStep

(* The end of a decision: its verdict is logged, or the request has failed. *)
LEMMA AuditStep ==
  ASSUME TenancyInv, NEW a \in Actors, LogVerdict(a) \/ (Fail(a) /\ stage[a] = "audit")
  PROVE  TenancyInv'
<1>1. Goes(a, "idle", NoWork) /\ stage[a] = "audit"
      /\ UNCHANGED <<tenant, disk, seeds, visits, rowHistory, verdicts>>
  BY DEF LogVerdict, Fail, Leave, Goes
<1>2. work[a] \in Work /\ work[a].task \in Verdicts /\ work[a].value \in 1..MaxVisits
  BY <1>1, VisitsAssumption DEF TenancyInv, TenancyTypeOK, Informed, Course, Work
<1>3. /\ stage' \in [Actors -> Stages] /\ work' \in [Actors -> Work]
      /\ stage'[a] = "idle" /\ work'[a] = NoWork
      /\ \A c \in Actors : c # a => stage'[c] = stage[c] /\ work'[c] = work[c]
  BY <1>1, NoWorkTyped, GoesTyped DEF TenancyInv, Stages
<1>4. TenancyTypeOK'
  <2>1. audit' \subseteq (1..MaxVisits) \X {"approve", "reject"} /\ failed' \subseteq 1..MaxVisits
    <3>1. /\ audit \subseteq (1..MaxVisits) \X {"approve", "reject"} /\ failed \subseteq 1..MaxVisits
          /\ work[a].task \in {"approve", "reject"} /\ work[a].value \in 1..MaxVisits
      BY <1>2 DEF TenancyInv, TenancyTypeOK, Verdicts
    <3>2. CASE LogVerdict(a)
      BY <3>1, <3>2 DEF LogVerdict, Verdict
    <3>3. CASE Fail(a)
      BY <3>1, <3>3 DEF Fail
    <3> QED
      BY <3>2, <3>3
  <2> QED
    BY <1>1, <1>3, <2>1 DEF TenancyInv, TenancyTypeOK, seeds, rowHistory
<1>5. Informed'
  BY <1>1, <1>3, NoWorkFits DEF TenancyInv, Informed
<1>6. SeededOnce'
  BY <1>1, <1>3, NoWorkFits DEF TenancyInv, SeededOnce, seeds
<1>7. SettingsLossHasCause' /\ ActiveOnReviewedDocuments' /\ RecordedDocumentsExist' /\ VerdictsAgree'
  BY <1>1 DEF TenancyInv, SettingsLossHasCause, VerdictsHold, ActiveOnReviewedDocuments, VerdictsAgree,
     RecordedDocumentsExist, rowHistory
<1>8. VerdictIsLogged'
  <2>1. /\ Verdict(a) \in Unlogged /\ Verdict(a)[1] = work[a].value
        /\ Unlogged' \subseteq Unlogged /\ Unlogged \subseteq Unlogged' \cup {Verdict(a)}
    <3>1. \A c \in Actors : c # a => /\ stage'[c] = "audit" <=> stage[c] = "audit"
                                     /\ Verdict(c)' = Verdict(c)
      BY <1>3 DEF Verdict
    <3>2. Verdict(a) \in Unlogged /\ Verdict(a)[1] = work[a].value
      BY <1>1 DEF Unlogged, Verdict
    <3> QED
      BY <1>1, <1>3, <3>1, <3>2 DEF Unlogged
  <2>2. /\ audit \cup Unlogged \subseteq verdicts
        /\ \A v \in verdicts \ (audit \cup Unlogged) : v[1] \in failed
        /\ tenant.verification = "approved" => \E v \in verdicts : v[2] = "approve"
        /\ tenant.verification = "rejected" => \E v \in verdicts : v[2] = "reject"
    BY DEF TenancyInv, VerdictsHold, VerdictIsLogged
  <2>3. \/ audit' = audit \cup {Verdict(a)} /\ failed' = failed
        \/ audit' = audit /\ failed' = failed \cup {work[a].value}
    BY <1>1 DEF LogVerdict, Fail
  <2>4. /\ audit' \cup Unlogged' \subseteq verdicts'
        /\ \A v \in verdicts' \ (audit' \cup Unlogged') : v[1] \in failed'
    <3> DEFINE v == Verdict(a)
               n == work[a].value
    <3>1. v \in Unlogged /\ v[1] = n
      BY <2>1
    <3>2. /\ Unlogged' \subseteq Unlogged /\ Unlogged \subseteq Unlogged' \cup {v}
          /\ verdicts' = verdicts
          /\ \/ audit' = audit \cup {v} /\ failed' = failed
             \/ audit' = audit /\ failed' = failed \cup {n}
      BY <1>1, <2>1, <2>3
    <3> HIDE DEF v, n
    <3> QED
      BY <2>2, <3>1, <3>2
  <2> QED
    BY <1>1, <2>2, <2>4 DEF VerdictIsLogged
<1> QED
  BY <1>4, <1>5, <1>6, <1>7, <1>8 DEF TenancyInv, VerdictsHold
-----------------------------------------------------------------------------
(* What the steps of a seeding leave as it is. *)
SeedFrame == UNCHANGED <<tenant, disk, audit, rowHistory, failed, verdicts>>

LEMMA FrameKeeps ==
  ASSUME TenancyInv, SeedFrame,
         stage' \in [Actors -> Stages], work' \in [Actors -> Work],
         \A c \in Actors : stage[c] = "audit" \/ stage'[c] = "audit" =>
                           stage'[c] = stage[c] /\ work'[c] = work[c],
         \A c \in Actors : Course(stage'[c], work'[c]) /\ UpToDate(stage'[c], work'[c], tenant, disk),
         slugs' \subseteq Slugs, flows' \in [Blueprints -> Nat], dropped' \subseteq Slugs,
         visits' \in 0..MaxVisits, SeededOnce'
  PROVE  TenancyInv'
<1>1. TenancyTypeOK'
  BY DEF TenancyInv, TenancyTypeOK, SeedFrame, rowHistory
<1>2. Informed'
  BY DEF Informed, SeedFrame
<1>3. SettingsLossHasCause' /\ ActiveOnReviewedDocuments' /\ RecordedDocumentsExist' /\ VerdictsAgree'
  BY DEF TenancyInv, SettingsLossHasCause, VerdictsHold, ActiveOnReviewedDocuments, VerdictsAgree,
     RecordedDocumentsExist, SeedFrame, rowHistory
<1>4. VerdictIsLogged'
  <2>1. Unlogged' = Unlogged
    BY UnloggedStays
  <2> QED
    BY <2>1 DEF TenancyInv, VerdictsHold, VerdictIsLogged, SeedFrame
<1> QED
  BY <1>1, <1>2, <1>3, <1>4 DEF TenancyInv, VerdictsHold

LEMMA SeedStep ==
  ASSUME TenancyInv, NEW a \in Actors, SeedEntity(a), ~ SlugTaken(a)
  PROVE  TenancyInv'
<1> DEFINE b == work[a].blueprint
           n == work[a].left - 1
           s == IF work[a].left = 1 THEN "seed_flow" ELSE "seed"
           w == [work[a] EXCEPT !.left = n]
<1>1. /\ work[a] \in Work /\ b \in Blueprints /\ work[a].left \in {1, 2} /\ work[a].value # 0
      /\ work[a].files \subseteq disk /\ stage[a] = "seed"
  BY DEF SeedEntity, TenancyInv, TenancyTypeOK, Informed, Course, UpToDate
<1>2. n \in {0, 1} /\ (n = 0 <=> work[a].left = 1) /\ (n = 1 <=> work[a].left = 2)
  BY <1>1
<1>3. Goes(a, s, w) /\ slugs' = slugs \cup {NextSlug(a)} /\ NextSlug(a) \notin slugs
      /\ UNCHANGED <<flows, dropped, visits>> /\ SeedFrame
  BY DEF SeedEntity, SlugTaken, Goes, SeedFrame
<1> HIDE DEF n
<1>4. /\ w \in Work /\ w.left = n /\ w.task = work[a].task /\ w.blueprint = b
      /\ w.files = work[a].files /\ w.value = work[a].value
  BY <1>1, <1>2 DEF Work
<1> HIDE DEF w
<1>5. s \in Stages /\ s \in {"seed", "seed_flow"} /\ (s = "seed_flow" <=> n = 0)
  BY <1>2 DEF Stages
<1> HIDE DEF s
<1>6. /\ stage' \in [Actors -> Stages] /\ work' \in [Actors -> Work]
      /\ stage'[a] = s /\ work'[a] = w
      /\ \A c \in Actors : c # a => stage'[c] = stage[c] /\ work'[c] = work[c]
  BY <1>3, <1>4, <1>5, GoesTyped DEF TenancyInv
<1>7. Course(s, w) /\ UpToDate(s, w, tenant, disk)
  BY <1>1, <1>2, <1>4, <1>5 DEF Course, UpToDate
<1>8. NextSlug(a) = EntitiesOf(b)[IF n = 1 THEN 1 ELSE 2]
  <2>1. CASE work[a].left = 1
    BY <1>2, <2>1 DEF NextSlug
  <2>2. CASE work[a].left = 2
    BY <1>2, <2>2 DEF NextSlug
  <2> QED
    BY <1>1, <2>1, <2>2
<1>9. NextSlug(a) \in Slugs /\ NextSlug(a) \in Own(b)
  BY <1>1, <1>2, <1>8, EntitiesTyped
<1>10. SeededOnce'
  <2> SUFFICES ASSUME NEW d \in Blueprints
               PROVE  /\ flows[d] > 0 => Own(d) \subseteq slugs' \cup dropped
                      /\ Own(d) \cap dropped = {} =>
                           /\ flows[d] \in {0, 1}
                           /\ \A c \in Actors : Seeds(stage'[c], work'[c], d) =>
                                /\ First(d) \in slugs' /\ flows[d] = 0
                                /\ \A e \in Actors : Seeds(stage'[e], work'[e], d) => e = c
    BY <1>3 DEF SeededOnce
  <2>1. flows[d] > 0 => Own(d) \subseteq slugs \cup dropped
    BY DEF TenancyInv, SeededOnce
  <2> SUFFICES ASSUME Own(d) \cap dropped = {}
               PROVE  /\ flows[d] \in {0, 1}
                      /\ \A c \in Actors : Seeds(stage'[c], work'[c], d) =>
                                /\ First(d) \in slugs' /\ flows[d] = 0
                                /\ \A e \in Actors : Seeds(stage'[e], work'[e], d) => e = c
    BY <1>3, <2>1
  <2>2. /\ flows[d] \in {0, 1}
        /\ \A c \in Actors : Seeds(stage[c], work[c], d) =>
              /\ First(d) \in slugs /\ flows[d] = 0
              /\ \A e \in Actors : Seeds(stage[e], work[e], d) => e = c
    BY DEF TenancyInv, SeededOnce
  <2>3. CASE d # b
    <3>1. \A c \in Actors : Seeds(stage'[c], work'[c], d) => Seeds(stage[c], work[c], d)
      BY <1>4, <1>6, <2>3 DEF Seeds
    <3> QED
      BY <1>3, <2>2, <3>1
  <2>4. CASE d = b /\ n = 0
    <3>1. \A c \in Actors : Seeds(stage'[c], work'[c], d) => Seeds(stage[c], work[c], d)
      BY <1>1, <1>2, <1>6, <2>4 DEF Seeds
    <3> QED
      BY <1>3, <2>2, <3>1
  <2>5. CASE d = b /\ n = 1
    <3>1. First(d) \notin slugs /\ First(d) \in slugs' /\ First(d) \in Own(d)
      BY <1>1, <1>3, <1>8, <2>5, EntitiesTyped DEF First
    <3>2. \A c \in Actors : ~ Seeds(stage[c], work[c], d)
      BY <2>2, <3>1
    <3>3. flows[d] = 0
      BY <2>1, <2>2, <3>1
    <3>4. \A c \in Actors : Seeds(stage'[c], work'[c], d) => c = a
      BY <1>6, <3>2
    <3> QED
      BY <2>2, <3>1, <3>3, <3>4
  <2> QED
    BY <1>2, <2>3, <2>4, <2>5
<1>11. slugs' \subseteq Slugs /\ flows' \in [Blueprints -> Nat] /\ dropped' \subseteq Slugs
       /\ visits' \in 0..MaxVisits
  BY <1>3, <1>9 DEF TenancyInv, TenancyTypeOK
<1>12. \A c \in Actors : stage[c] = "audit" \/ stage'[c] = "audit" =>
                           stage'[c] = stage[c] /\ work'[c] = work[c]
  BY <1>1, <1>5, <1>6
<1>13. \A c \in Actors : Course(stage'[c], work'[c]) /\ UpToDate(stage'[c], work'[c], tenant, disk)
  BY <1>1, <1>6, <1>7 DEF TenancyInv, Informed
<1> QED
  BY <1>3, <1>6, <1>10, <1>11, <1>12, <1>13, FrameKeeps

LEMMA SeedFlowStep ==
  ASSUME TenancyInv, NEW a \in Actors, SeedWorkflow(a)
  PROVE  TenancyInv'
<1> DEFINE b == work[a].blueprint
           whole == Own(b) \subseteq slugs
<1>1. work[a] \in Work /\ b \in Blueprints /\ work[a].left = 0 /\ stage[a] = "seed_flow"
  BY DEF SeedWorkflow, TenancyInv, TenancyTypeOK, Informed, Course
<1>2. Goes(a, "idle", NoWork) /\ UNCHANGED <<slugs, dropped, visits>> /\ SeedFrame
  BY DEF SeedWorkflow, Leave, Goes, SeedFrame
<1>3. /\ stage' \in [Actors -> Stages] /\ work' \in [Actors -> Work]
      /\ stage'[a] = "idle" /\ work'[a] = NoWork
      /\ \A c \in Actors : c # a => stage'[c] = stage[c] /\ work'[c] = work[c]
  BY <1>2, NoWorkTyped, GoesTyped DEF TenancyInv, Stages
<1>4. /\ flows \in [Blueprints -> Nat] /\ flows' \in [Blueprints -> Nat]
      /\ \A d \in Blueprints : d # b => flows'[d] = flows[d]
      /\ flows'[b] = IF whole THEN flows[b] + 1 ELSE flows[b]
  BY <1>1 DEF SeedWorkflow, TenancyInv, TenancyTypeOK, Own
<1>5. \A c \in Actors, d \in Blueprints :
        Seeds(stage'[c], work'[c], d) => c # a /\ Seeds(stage[c], work[c], d)
  BY <1>3 DEF Seeds
<1>6. Seeds(stage[a], work[a], b)
  BY <1>1 DEF Seeds
<1>7. SeededOnce'
  <2> SUFFICES ASSUME NEW d \in Blueprints
               PROVE  /\ flows'[d] > 0 => Own(d) \subseteq slugs \cup dropped
                      /\ Own(d) \cap dropped = {} =>
                           /\ flows'[d] \in {0, 1}
                           /\ \A c \in Actors : Seeds(stage'[c], work'[c], d) =>
                                /\ First(d) \in slugs /\ flows'[d] = 0
                                /\ \A e \in Actors : Seeds(stage'[e], work'[e], d) => e = c
    BY <1>2 DEF SeededOnce
  <2>1. /\ flows[d] > 0 => Own(d) \subseteq slugs \cup dropped
        /\ Own(d) \cap dropped = {} =>
             /\ flows[d] \in {0, 1}
             /\ \A c \in Actors : Seeds(stage[c], work[c], d) =>
                  /\ First(d) \in slugs /\ flows[d] = 0
                  /\ \A e \in Actors : Seeds(stage[e], work[e], d) => e = c
    BY DEF TenancyInv, SeededOnce
  <2>2. CASE d # b
    BY <1>4, <1>5, <2>1, <2>2
  <2>3. CASE d = b
    <3>1. flows'[d] > 0 => Own(d) \subseteq slugs \cup dropped
      BY <1>4, <2>1, <2>3
    <3>2. ASSUME Own(d) \cap dropped = {}
          PROVE  flows[d] = 0 /\ \A c \in Actors : ~ Seeds(stage'[c], work'[c], d)
      BY <1>5, <1>6, <2>1, <2>3, <3>2
    <3> QED
      BY <1>4, <2>3, <3>1, <3>2
  <2> QED
    BY <2>2, <2>3
<1>8. slugs' \subseteq Slugs /\ dropped' \subseteq Slugs /\ visits' \in 0..MaxVisits
  BY <1>2 DEF TenancyInv, TenancyTypeOK
<1>9. \A c \in Actors : stage[c] = "audit" \/ stage'[c] = "audit" =>
                           stage'[c] = stage[c] /\ work'[c] = work[c]
  BY <1>1, <1>3
<1>10. \A c \in Actors : Course(stage'[c], work'[c]) /\ UpToDate(stage'[c], work'[c], tenant, disk)
  BY <1>1, <1>3, NoWorkFits DEF TenancyInv, Informed
<1> QED
  BY <1>2, <1>3, <1>4, <1>7, <1>8, <1>9, <1>10, FrameKeeps

LEMMA DropStep ==
  ASSUME TenancyInv, DropEntity
  PROVE  TenancyInv'
<1>1. PICK s \in slugs : slugs' = slugs \ {s} /\ dropped' = dropped \cup {s}
  BY DEF DropEntity
<1>2. SeedFrame /\ UNCHANGED <<flows, stage, work>>
  BY DEF DropEntity, SeedFrame
<1>3. SeededOnce'
  <2> SUFFICES ASSUME NEW d \in Blueprints
               PROVE  /\ flows[d] > 0 => Own(d) \subseteq slugs' \cup dropped'
                      /\ Own(d) \cap dropped' = {} =>
                           /\ flows[d] \in {0, 1}
                           /\ \A c \in Actors : Seeds(stage[c], work[c], d) =>
                                /\ First(d) \in slugs' /\ flows[d] = 0
                                /\ \A e \in Actors : Seeds(stage[e], work[e], d) => e = c
    BY <1>2 DEF SeededOnce
  <2>1. First(d) \in Own(d)
    BY EntitiesTyped DEF First
  <2> QED
    BY <1>1, <2>1 DEF TenancyInv, SeededOnce
<1>4. slugs' \subseteq Slugs /\ dropped' \subseteq Slugs /\ visits' \in 0..MaxVisits
      /\ flows' \in [Blueprints -> Nat]
      /\ stage' \in [Actors -> Stages] /\ work' \in [Actors -> Work]
  BY <1>1, <1>2, VisitsAssumption DEF DropEntity, TenancyInv, TenancyTypeOK
<1>5. \A c \in Actors : stage[c] = "audit" \/ stage'[c] = "audit" =>
                           stage'[c] = stage[c] /\ work'[c] = work[c]
  BY <1>2
<1>6. \A c \in Actors : Course(stage'[c], work'[c]) /\ UpToDate(stage'[c], work'[c], tenant, disk)
  BY <1>2 DEF TenancyInv, Informed
<1> QED
  BY <1>2, <1>3, <1>4, <1>5, <1>6, FrameKeeps
-----------------------------------------------------------------------------
LEMMA NextInv == TenancyInv /\ [TenancyNext]_tenancyVars => TenancyInv'
<1> SUFFICES ASSUME TenancyInv, [TenancyNext]_tenancyVars PROVE TenancyInv'
  OBVIOUS
<1>1. CASE DropEntity
  BY <1>1, DropStep
<1>2. ASSUME NEW a \in Actors, MemberArrives(a) \/ AdministratorArrives(a) PROVE TenancyInv'
  BY <1>2, ArriveStep
<1>3. ASSUME NEW a \in Actors, LoadTenant(a) \/ StoreDocuments(a) PROVE TenancyInv'
  BY <1>3, LoadStep, StoreStep
<1>4. ASSUME NEW a \in Actors, UpdateSettings(a) \/ CompleteOnboarding(a) PROVE TenancyInv'
  BY <1>4, SettingsStep, OnboardStep
<1>5. ASSUME NEW a \in Actors, SubmitApplication(a) \/ SubmitLinks(a) PROVE TenancyInv'
  BY <1>5, SubmitStep, LinksStep
<1>6. ASSUME NEW a \in Actors, ApproveTenant(a) \/ RejectTenant(a) PROVE TenancyInv'
  BY <1>6, VerdictStep
<1>7. ASSUME NEW a \in Actors, LogVerdict(a) PROVE TenancyInv'
  BY <1>7, AuditStep
<1>8. ASSUME NEW a \in Actors, SeedEntity(a) PROVE TenancyInv'
  <2>1. CASE SlugTaken(a)
    <3>1. Leave(a) /\ stage[a] = "seed"
          /\ UNCHANGED <<tenant, disk, slugs, flows, dropped, visits, audit, rowHistory, failed, verdicts>>
      BY <1>8, <2>1 DEF SeedEntity
    <3>2. disk \subseteq disk' /\ disk' \subseteq Files
      BY <3>1 DEF TenancyInv, TenancyTypeOK
    <3> QED
      BY <3>1, <3>2, LeaveStep DEF seeds
  <2>2. CASE ~ SlugTaken(a)
    BY <1>8, <2>2, SeedStep
  <2> QED
    BY <2>1, <2>2
<1>9. ASSUME NEW a \in Actors, SeedWorkflow(a) PROVE TenancyInv'
  BY <1>9, SeedFlowStep
<1>10. ASSUME NEW a \in Actors, Fail(a) PROVE TenancyInv'
  <2>1. CASE stage[a] = "audit"
    BY <1>10, <2>1, AuditStep
  <2>2. CASE stage[a] # "audit"
    <3>1. disk \subseteq disk' /\ disk' \subseteq Files
      BY <1>10 DEF Fail, TenancyInv, TenancyTypeOK
    <3> QED
      BY <1>10, <2>2, <3>1, LeaveStep DEF Fail
  <2> QED
    BY <2>1, <2>2
<1>11. CASE UNCHANGED tenancyVars
  <2>1. TenancyTypeOK' /\ Informed' /\ SeededOnce'
    BY <1>11 DEF TenancyInv, tenancyVars, TenancyTypeOK, Informed, SeededOnce
  <2>2. SettingsLossHasCause' /\ ActiveOnReviewedDocuments' /\ RecordedDocumentsExist'
        /\ VerdictsAgree' /\ VerdictIsLogged'
    BY <1>11 DEF TenancyInv, tenancyVars, SettingsLossHasCause, VerdictsHold,
       ActiveOnReviewedDocuments, RecordedDocumentsExist, VerdictsAgree, VerdictIsLogged,
       Unlogged, Verdict
  <2> QED
    BY <2>1, <2>2 DEF TenancyInv, VerdictsHold
<1> QED
  BY <1>1, <1>2, <1>3, <1>4, <1>5, <1>6, <1>7, <1>8, <1>9, <1>10, <1>11 DEF TenancyNext

LEMMA Once == TenancyInv => BlueprintSeededOnce
<1> SUFFICES ASSUME TenancyInv, NEW b \in Blueprints
             PROVE  /\ flows[b] > 1 => Own(b) \cap dropped # {}
                    /\ flows[b] > 0 => Own(b) \subseteq slugs \cup dropped
  BY DEF BlueprintSeededOnce, Own
<1>1. flows[b] \in {0, 1} => ~ (flows[b] > 1)
  OBVIOUS
<1> QED
  BY <1>1 DEF TenancyInv, SeededOnce

LEMMA Invariance == TenancySpec => []TenancyInv
  BY InitInv, NextInv, PTL DEF TenancySpec

(* In every reachable state of every workspace, for any number of members,
   administrators, documents and requests, each column, file and request in progress
   has its type (tenants.service.ts, tenant.entity.ts). *)
THEOREM TenancyTyped == TenancySpec => []TenancyTypeOK
<1>1. TenancyInv => TenancyTypeOK
  BY DEF TenancyInv
<1> QED
  BY <1>1, Invariance, PTL

(* A setting that is not the one last asked for was overwritten by a request that had
   read the settings before another one saved them; nothing else in the service loses
   a setting (tenants.service.ts:132-162, 173-186, 236-248). *)
THEOREM SettingsLossesHaveCause == TenancySpec => []SettingsLossHasCause
<1>1. TenancyInv => SettingsLossHasCause
  BY DEF TenancyInv
<1> QED
  BY <1>1, Invariance, PTL

(* A company is active on the documents its approval was about, unless others came in
   meanwhile, those documents are on disk, its two status columns agree unless an
   onboarding reopened one, and each verdict is logged unless its own request failed
   (tenants.service.ts:176-187, 205-211, 238-243, 299-328). *)
THEOREM VerdictsAreKept == TenancySpec => []VerdictsHold
<1>1. TenancyInv => VerdictsHold
  BY DEF TenancyInv
<1> QED
  BY <1>1, Invariance, PTL

(* However many onboardings overlap, a blueprint gets a second workflow only after one
   of its definitions was removed (tenants.service.ts:341-682). *)
THEOREM BlueprintsSeededOnce == TenancySpec => []BlueprintSeededOnce
  BY Once, Invariance, PTL

(* Types and verdicts together, as they are checked. *)
THEOREM TenancyCorrect == TenancySpec => []TenancyHolds
  BY TenancyTyped, VerdictsAreKept, PTL DEF TenancyHolds
-----------------------------------------------------------------------------
Names == PlanNames \cup {FreeName}

(* What the proof needs of the types. *)
BillingShape ==
  /\ plan \in [PlanIds -> Plan] /\ payment \in [Payments -> Payment]
  /\ point \in [Payers -> JobPoints] /\ job \in [Payers -> Job]

(* Only choices and payments change a subscription that is there. *)
LimitsChangeNothing == \A p \in Payers : point[p] = "change" => job[p].task # "limit"

(* A free plan that no administrator touched stays free and offered. *)
FreeStaysFree ==
  \A i \in Untouched(FreeName) : plan[i].active /\ plan[i].free

(* A plan about to be inserted is still missing, or there is a cause for two. *)
InsertsAreCaused ==
  \A p \in Payers :
    point[p] = "insert_plan" =>
      /\ job[p].name \in Names
      /\ Untouched(job[p].name) = {} \/ job[p].name \in doubled

TwinsCaused == \A n \in Names : \A i, j \in Untouched(n) : i # j => n \in doubled

BillingInv ==
  /\ BillingShape /\ PaidPlanHolds /\ LimitsChangeNothing
  /\ FreeStaysFree /\ InsertsAreCaused /\ TwinsCaused
-----------------------------------------------------------------------------
LEMMA NothingInOrder == NoPlan \in Plan /\ NoPayment \in Payment /\ NoJob \in Job
  BY DEF NoPlan, Plan, NoPayment, Payment, NoJob, Job

LEMMA BillingInitInv == BillingInit => BillingInv
<1> SUFFICES ASSUME BillingInit PROVE BillingInv
  OBVIOUS
<1>1. \A i \in PlanIds : plan[i].name = Nothing
  BY DEF BillingInit, NoPlan
<1>2. \A n \in Names : Untouched(n) = {}
  BY <1>1, NamesApart DEF Untouched, Named, Names
<1>3. FreeName \in Names
  BY DEF Names
<1>4. BillingShape
  BY NothingInOrder DEF BillingInit, BillingShape, JobPoints
<1> QED
  BY <1>1, <1>2, <1>3, <1>4, NamesApart DEF BillingInit, BillingInv, PaidPlanHolds, LimitsChangeNothing,
     FreeStaysFree, InsertsAreCaused, TwinsCaused

(* A request goes on, not to the insert of a plan, and leaves the plans alone. *)
LEMMA BillingQuietStep ==
  ASSUME BillingInv, NEW p \in Payers, NEW at \in JobPoints \ {"insert_plan"}, NEW j \in Job,
         GoOn(p, at, j), at = "change" => j.task # "limit",
         UNCHANGED <<plan, doubled>>, payment' \in [Payments -> Payment], PaidPlanHolds'
  PROVE  BillingInv'
<1>1. point' = [point EXCEPT ![p] = at] /\ job' = [job EXCEPT ![p] = j]
  BY DEF GoOn
<1>2. BillingShape' /\ LimitsChangeNothing'
  BY <1>1 DEF BillingInv, BillingShape, LimitsChangeNothing
<1>3. FreeStaysFree' /\ TwinsCaused'
  BY DEF BillingInv, FreeStaysFree, TwinsCaused, Untouched, Named
<1>4. InsertsAreCaused'
  BY <1>1 DEF BillingInv, BillingShape, InsertsAreCaused, Untouched, Named
<1> QED
  BY <1>2, <1>3, <1>4 DEF BillingInv

LEMMA StopStep ==
  ASSUME BillingInv, NEW p \in Payers, Stop(p), UNCHANGED <<plan, doubled>>,
         payment' \in [Payments -> Payment], PaidPlanHolds'
  PROVE  BillingInv'
  BY BillingQuietStep, NothingInOrder DEF Stop, NoJob, JobPoints

LEMMA OrderStep ==
  ASSUME BillingInv, NEW p \in Payers, NEW j \in Job, NEW at \in {"seed", "find", "plan"},
         Order(p, j, at)
  PROVE  BillingInv'
<1>1. GoOn(p, at, j) /\ UNCHANGED <<plan, doubled, subscription, chosen, payment>>
  BY DEF Order, GoOn
<1>2. PaidPlanHolds' /\ payment' \in [Payments -> Payment]
  BY <1>1 DEF BillingInv, BillingShape, PaidPlanHolds
<1> QED
  BY <1>1, <1>2, BillingQuietStep DEF JobPoints

LEMMA BeginSteps ==
  ASSUME BillingInv, NEW p \in Payers,
         StartProcess(p) \/ CheckLimit(p) \/ Upgrade(p) \/ Verify(p)
  PROVE  BillingInv'
<1>1. CASE StartProcess(p)
  <2>1. [NoJob EXCEPT !.task = "start", !.todo = PlanNames] \in Job
    BY NothingInOrder DEF Job
  <2> QED
    BY <1>1, <2>1, OrderStep DEF StartProcess
<1>2. CASE CheckLimit(p)
  <2>1. [NoJob EXCEPT !.task = "limit"] \in Job
    BY NothingInOrder DEF Job
  <2> QED
    BY <1>2, <2>1, OrderStep DEF CheckLimit
<1>3. CASE Upgrade(p)
  <2>1. PICK i \in PlanIds : Order(p, [NoJob EXCEPT !.task = "upgrade", !.plan = i], "find")
    BY <1>3 DEF Upgrade
  <2>2. [NoJob EXCEPT !.task = "upgrade", !.plan = i] \in Job
    BY NothingInOrder DEF Job
  <2> QED
    BY <2>1, <2>2, OrderStep
<1>4. CASE Verify(p)
  <2>1. PICK t \in Payments :
          Order(p, [NoJob EXCEPT !.task = "verify", !.plan = payment[t].plan, !.payment = t],
                "plan")
    BY <1>4 DEF Verify
  <2>2. payment[t].plan \in PlanIds \cup {Nothing}
    BY DEF BillingInv, BillingShape, Payment
  <2>3. [NoJob EXCEPT !.task = "verify", !.plan = payment[t].plan, !.payment = t] \in Job
    BY <2>2, NothingInOrder DEF Job
  <2> QED
    BY <2>1, <2>3, OrderStep
<1> QED
  BY <1>1, <1>2, <1>3, <1>4

LEMMA ReadSteps ==
  ASSUME BillingInv, NEW p \in Payers, MatchPlan(p) \/ FindSubscription(p) \/ BillingFail(p)
  PROVE  BillingInv'
<1>1. /\ UNCHANGED <<plan, doubled>> /\ PaidPlanHolds' /\ payment' \in [Payments -> Payment]
      /\ job[p] \in Job
  BY DEF MatchPlan, FindSubscription, BillingFail, BillingInv, BillingShape, PaidPlanHolds
<1>2. CASE Stop(p)
  BY <1>1, <1>2, StopStep
<1>3. CASE GoOn(p, "find", job[p])
  BY <1>1, <1>3, BillingQuietStep DEF JobPoints
<1>4. CASE job[p].task # "limit" /\ GoOn(p, "change", job[p])
  BY <1>1, <1>4, BillingQuietStep DEF JobPoints
<1>5. CASE GoOn(p, "find_free", job[p])
  BY <1>1, <1>5, BillingQuietStep DEF JobPoints
<1>6. CASE GoOn(p, "insert", job[p])
  BY <1>1, <1>6, BillingQuietStep DEF JobPoints
<1> QED
  BY <1>2, <1>3, <1>4, <1>5, <1>6 DEF MatchPlan, FindSubscription, BillingFail

(* A request decides to insert a plan whose name it found missing. *)
LEMMA MissingStep ==
  ASSUME BillingInv, NEW p \in Payers, NEW n \in Names, NEW j \in Job, j.name = n,
         GoOn(p, "insert_plan", j), Untouched(n) = {} \/ n \in doubled,
         UNCHANGED <<plan, payment, doubled>>, PaidPlanHolds'
  PROVE  BillingInv'
<1>1. point' = [point EXCEPT ![p] = "insert_plan"] /\ job' = [job EXCEPT ![p] = j]
  BY DEF GoOn
<1>2. BillingShape' /\ LimitsChangeNothing'
  BY <1>1 DEF BillingInv, BillingShape, LimitsChangeNothing, JobPoints
<1>3. FreeStaysFree' /\ TwinsCaused'
  BY DEF BillingInv, FreeStaysFree, TwinsCaused, Untouched, Named
<1>4. InsertsAreCaused'
  BY <1>1 DEF BillingInv, BillingShape, InsertsAreCaused, Untouched, Named
<1> QED
  BY <1>2, <1>3, <1>4 DEF BillingInv

LEMMA FindFreePlanStep ==
  ASSUME BillingInv, NEW p \in Payers, FindFreePlan(p)
  PROVE  BillingInv'
<1>1. /\ UNCHANGED <<plan, payment, doubled>> /\ PaidPlanHolds' /\ job[p] \in Job
      /\ payment' \in [Payments -> Payment]
  BY DEF FindFreePlan, BillingInv, BillingShape, PaidPlanHolds
<1>2. CASE FreePlans = {} /\ GoOn(p, "insert_plan", [job[p] EXCEPT !.name = FreeName])
  <2>1. Untouched(FreeName) = {}
    BY <1>2, NamesApart DEF BillingInv, FreeStaysFree, FreePlans, ActivePlans, Unused, Untouched, Named
  <2>2. /\ [job[p] EXCEPT !.name = FreeName] \in Job
        /\ [job[p] EXCEPT !.name = FreeName].name = FreeName
    BY <1>1 DEF Job
  <2> QED
    BY <1>1, <1>2, <2>1, <2>2, MissingStep DEF Names
<1>3. ASSUME NEW i \in FreePlans, GoOn(p, "insert", [job[p] EXCEPT !.plan = i])
      PROVE  BillingInv'
  <2>1. [job[p] EXCEPT !.plan = i] \in Job
    BY <1>1 DEF Job, FreePlans, ActivePlans
  <2> QED
    BY <1>1, <1>3, <2>1, BillingQuietStep DEF JobPoints
<1> QED
  BY <1>2, <1>3 DEF FindFreePlan

(* Changes that leave a plan its name or take it out of the untouched ones double
   nothing. *)
LEMMA EditStep ==
  ASSUME BillingInv, plan' \in [PlanIds -> Plan], UNCHANGED doubled,
         \A n \in Names : Untouched(n)' \subseteq Untouched(n),
         \A q \in Payers : point'[q] = "insert_plan" => point[q] = "insert_plan" /\ job'[q] = job[q]
  PROVE  InsertsAreCaused' /\ TwinsCaused'
<1>1. TwinsCaused'
  <2>1. \A n \in Names : \A i, j \in Untouched(n)' : i # j => n \in doubled'
    BY DEF BillingInv, TwinsCaused
  <2> QED
    BY <2>1 DEF TwinsCaused
<1>2. ASSUME NEW q \in Payers, point'[q] = "insert_plan", NEW n, n = job'[q].name
      PROVE  n \in Names /\ (Untouched(n)' = {} \/ n \in doubled')
  BY <1>2 DEF BillingInv, InsertsAreCaused
<1>3. InsertsAreCaused'
  BY <1>2 DEF InsertsAreCaused, Untouched, Named
<1> QED
  BY <1>1, <1>3

LEMMA SeedPlanStep ==
  ASSUME BillingInv, NEW p \in Payers, SeedPlan(p)
  PROVE  BillingInv'
<1>1. /\ UNCHANGED <<payment, doubled>> /\ PaidPlanHolds' /\ job[p] \in Job
      /\ payment' \in [Payments -> Payment]
  BY DEF SeedPlan, BillingInv, BillingShape, PaidPlanHolds
<1>2. CASE Stop(p) /\ UNCHANGED plan
  BY <1>1, <1>2, StopStep
<1>3. ASSUME NEW n \in job[p].todo, Named(n) = {},
             GoOn(p, "insert_plan", [job[p] EXCEPT !.todo = @ \ {n}, !.name = n]),
             UNCHANGED plan
      PROVE  BillingInv'
  <2>1. n \in PlanNames /\ job[p].todo \ {n} \in SUBSET PlanNames
    BY <1>1, <1>3 DEF Job
  <2>2. /\ [job[p] EXCEPT !.todo = @ \ {n}, !.name = n] \in Job
        /\ [job[p] EXCEPT !.todo = @ \ {n}, !.name = n].name = n
    BY <1>1, <2>1 DEF Job
  <2>3. n \in Names /\ Untouched(n) = {}
    BY <1>3, <2>1 DEF Names, Untouched
  <2> QED
    BY <1>1, <1>3, <2>2, <2>3, MissingStep
<1>4. ASSUME NEW n \in job[p].todo, NEW i \in Named(n),
             plan' = [plan EXCEPT ![i].free = FALSE],
             GoOn(p, "seed", [job[p] EXCEPT !.todo = @ \ {n}])
      PROVE  BillingInv'
  <2>1. /\ n \in PlanNames /\ i \in PlanIds /\ plan[i].name = n /\ n # FreeName
        /\ job[p].todo \ {n} \in SUBSET PlanNames
    BY <1>1, <1>4, NamesApart DEF Job, Named, Names
  <2>2. /\ plan' \in [PlanIds -> Plan]
        /\ \A k \in PlanIds : plan'[k].name = plan[k].name /\ plan'[k].hand = plan[k].hand
        /\ \A k \in PlanIds \ {i} : plan'[k] = plan[k]
    BY <1>4, <2>1 DEF BillingInv, BillingShape, Plan
  <2>3. [job[p] EXCEPT !.todo = @ \ {n}] \in Job
    BY <1>1, <2>1 DEF Job
  <2>4. /\ point' = [point EXCEPT ![p] = "seed"]
        /\ job' = [job EXCEPT ![p] = [job[p] EXCEPT !.todo = @ \ {n}]]
    BY <1>4 DEF GoOn
  <2>5. BillingShape' /\ LimitsChangeNothing'
    BY <1>1, <2>2, <2>3, <2>4 DEF BillingInv, BillingShape, LimitsChangeNothing, JobPoints
  <2>6. FreeStaysFree'
    BY <2>1, <2>2 DEF BillingInv, FreeStaysFree, Untouched, Named
  <2>7. \A m \in Names : Untouched(m)' \subseteq Untouched(m)
    BY <2>2 DEF Untouched, Named
  <2>8. InsertsAreCaused' /\ TwinsCaused'
    BY <1>1, <2>2, <2>4, <2>7, EditStep DEF BillingInv, BillingShape
  <2> QED
    BY <1>1, <2>5, <2>6, <2>8 DEF BillingInv
<1> QED
  BY <1>1, <1>2, <1>3, <1>4 DEF SeedPlan

LEMMA InsertPlanStep ==
  ASSUME BillingInv, NEW p \in Payers, InsertPlan(p)
  PROVE  BillingInv'
<1>0. PICK m : m = job[p].name
  OBVIOUS
<1> DEFINE new == [name |-> m, active |-> TRUE, free |-> m = FreeName, hand |-> FALSE]
<1>1. PICK i \in NextPlan :
        /\ plan' = [plan EXCEPT ![i] = new]
        /\ IF job[p].task = "start" THEN GoOn(p, "seed", [job[p] EXCEPT !.name = Nothing])
           ELSE GoOn(p, "insert", [job[p] EXCEPT !.plan = i])
  BY <1>0 DEF InsertPlan
<1>2. /\ point[p] = "insert_plan" /\ UNCHANGED <<subscription, payment, chosen>>
      /\ doubled' = doubled \cup
           {n \in {m} : \E q \in Payers \ {p} : point[q] = "insert_plan" /\ job[q].name = n}
  BY <1>0 DEF InsertPlan
<1>3. i \in PlanIds /\ plan[i].name = Nothing
  <2>1. NextPlan \subseteq Unused
    BY Zenon DEF NextPlan
  <2> QED
    BY <1>1, <2>1 DEF Unused, Named
<1>4. m \in Names /\ m # Nothing /\ (Untouched(m) = {} \/ m \in doubled)
  BY <1>0, <1>2, NamesApart DEF BillingInv, InsertsAreCaused, Names
<1>5. /\ new \in Plan /\ new.name = m /\ new.active /\ ~new.hand
      /\ m = FreeName => new.free
  BY <1>4 DEF Plan, Names
<1>6. /\ plan' \in [PlanIds -> Plan] /\ plan'[i] = new
      /\ \A k \in PlanIds \ {i} : plan'[k] = plan[k]
  BY <1>1, <1>3, <1>5 DEF BillingInv, BillingShape
<1>7. PICK at \in {"seed", "insert"}, j \in Job :
        point' = [point EXCEPT ![p] = at] /\ job' = [job EXCEPT ![p] = j]
  <2>1. job[p] \in Job
    BY DEF BillingInv, BillingShape
  <2>2. [job[p] EXCEPT !.name = Nothing] \in Job /\ [job[p] EXCEPT !.plan = i] \in Job
    BY <1>3, <2>1 DEF Job
  <2> QED
    BY <1>1, <2>2 DEF GoOn
<1>8. BillingShape' /\ LimitsChangeNothing' /\ PaidPlanHolds'
  BY <1>2, <1>6, <1>7 DEF BillingInv, BillingShape, LimitsChangeNothing, PaidPlanHolds, JobPoints
<1> HIDE DEF new
<1>9. FreeStaysFree'
  BY <1>5, <1>6 DEF BillingInv, FreeStaysFree, Untouched, Named
<1>10. \A n : n # m /\ n # Nothing => Untouched(n)' = Untouched(n)
  BY <1>3, <1>5, <1>6 DEF Untouched, Named
<1>11. Untouched(m)' = Untouched(m) \cup {i}
  BY <1>3, <1>4, <1>5, <1>6 DEF Untouched, Named
<1>12. doubled \subseteq doubled'
  BY <1>2
<1>13. InsertsAreCaused'
  <2> SUFFICES ASSUME NEW q \in Payers, point'[q] = "insert_plan",
                      NEW n, n = job'[q].name
               PROVE  n \in Names /\ (Untouched(n)' = {} \/ n \in doubled')
    BY DEF InsertsAreCaused, Untouched, Named
  <2>1. q # p /\ point[q] = "insert_plan" /\ job[q].name = n
    BY <1>7 DEF BillingInv, BillingShape
  <2>2. n \in Names /\ n # Nothing /\ (Untouched(n) = {} \/ n \in doubled)
    BY <2>1, NamesApart DEF BillingInv, InsertsAreCaused, Names
  <2>3. CASE n = m
    BY <1>2, <2>1, <2>2, <2>3
  <2>4. CASE n # m
    BY <1>10, <1>12, <2>2, <2>4
  <2> QED
    BY <2>3, <2>4
<1>14. TwinsCaused'
  <2> SUFFICES ASSUME NEW n \in Names, NEW k \in Untouched(n)', NEW l \in Untouched(n)', k # l
               PROVE  n \in doubled'
    BY DEF TwinsCaused, Untouched, Named
  <2>1. CASE n = m
    BY <1>4, <1>11, <1>12, <2>1 DEF BillingInv, TwinsCaused
  <2>2. CASE n # m
    BY <1>10, <1>12, <2>2, NamesApart DEF BillingInv, TwinsCaused, Names
  <2> QED
    BY <2>1, <2>2
<1> QED
  BY <1>8, <1>9, <1>13, <1>14 DEF BillingInv

LEMMA SubscriptionSteps ==
  ASSUME BillingInv, NEW p \in Payers, InsertSubscription(p) \/ ChangeSubscription(p)
  PROVE  BillingInv'
<1>1. Stop(p) /\ UNCHANGED <<plan, doubled>>
  BY DEF InsertSubscription, ChangeSubscription
<1>2. payment' \in [Payments -> Payment]
  <2>1. CASE UNCHANGED payment
    BY <2>1 DEF BillingInv, BillingShape
  <2>2. CASE Granted(p)
    BY <2>2 DEF Granted, BillingInv, BillingShape, Payment
  <2> QED
    BY <2>1, <2>2 DEF InsertSubscription, ChangeSubscription
<1>3. PaidPlanHolds'
  <2>1. CASE InsertSubscription(p)
    BY <2>1 DEF InsertSubscription, CompanyIsFree, Choice, BillingInv, PaidPlanHolds
  <2>2. CASE ChangeSubscription(p)
    BY <2>2 DEF ChangeSubscription, Choice, BillingInv, LimitsChangeNothing, PaidPlanHolds
  <2> QED
    BY <2>1, <2>2
<1> QED
  BY <1>1, <1>2, <1>3, StopStep

(* Steps of no request: they leave every control point where it is. *)
LEMMA PaymentSteps ==
  ASSUME BillingInv, Checkout \/ CustomerPays
  PROVE  BillingInv'
<1>1. UNCHANGED <<plan, subscription, point, job, doubled, chosen>>
  BY DEF Checkout, CustomerPays
<1>2. payment' \in [Payments -> Payment]
  <2>1. CASE Checkout
    <3>1. PICK i \in PlanIds, t \in Payments :
            payment' = [payment EXCEPT ![t] = [plan |-> i, state |-> "open"]]
      BY <2>1 DEF Checkout
    <3>2. [plan |-> i, state |-> "open"] \in Payment
      BY DEF Payment
    <3> QED
      BY <3>1, <3>2 DEF BillingInv, BillingShape
  <2>2. CASE CustomerPays
    BY <2>2 DEF CustomerPays, BillingInv, BillingShape, Payment
  <2> QED
    BY <2>1, <2>2
<1> QED
  BY <1>1, <1>2 DEF BillingInv, BillingShape, PaidPlanHolds, LimitsChangeNothing,
     FreeStaysFree, InsertsAreCaused, TwinsCaused, Untouched, Named

(* An administrator's plan is not an untouched one. *)
LEMMA ByHandSteps ==
  ASSUME BillingInv, CreatePlan \/ UpdatePlan
  PROVE  BillingInv'
<1>1. UNCHANGED <<subscription, payment, point, job, doubled, chosen>>
  BY DEF CreatePlan, UpdatePlan
<1>2. PICK i \in PlanIds : ByHand(i)
  <2>1. NextPlan \subseteq PlanIds
    BY Zenon DEF NextPlan, Unused, Named
  <2> QED
    BY <2>1 DEF CreatePlan, UpdatePlan
<1>3. PICK new \in Plan : plan' = [plan EXCEPT ![i] = new] /\ new.hand
  <2>1. PICK n \in Names, on \in BOOLEAN, free \in BOOLEAN :
          plan' = [plan EXCEPT ![i] = [name |-> n, active |-> on, free |-> free, hand |-> TRUE]]
    BY <1>2 DEF ByHand, Names
  <2>2. [name |-> n, active |-> on, free |-> free, hand |-> TRUE] \in Plan
    BY DEF Plan, Names
  <2> QED
    BY <2>1, <2>2
<1>4. /\ plan' \in [PlanIds -> Plan] /\ plan'[i].hand
      /\ \A k \in PlanIds \ {i} : plan'[k] = plan[k]
  BY <1>3 DEF BillingInv, BillingShape
<1>5. \A n : Untouched(n)' \subseteq Untouched(n) \ {i}
  BY <1>4 DEF Untouched, Named
<1>6. FreeStaysFree'
  <2>1. ASSUME NEW k \in Untouched(FreeName)'  PROVE  plan'[k].active /\ plan'[k].free
    <3>1. k \in Untouched(FreeName) /\ k # i /\ k \in PlanIds
      BY <1>5, <2>1 DEF Untouched, Named
    <3>2. plan'[k] = plan[k]
      BY <1>4, <3>1
    <3> QED
      BY <3>1, <3>2 DEF BillingInv, FreeStaysFree
  <2> QED
    BY <2>1 DEF FreeStaysFree, Untouched, Named
<1>7. InsertsAreCaused' /\ TwinsCaused'
  BY <1>1, <1>4, <1>5, EditStep
<1> QED
  BY <1>1, <1>4, <1>6, <1>7 DEF BillingInv, BillingShape, PaidPlanHolds, LimitsChangeNothing

LEMMA BillingStepInv ==
  ASSUME BillingInv, [BillingNext]_billingVars
  PROVE  BillingInv'
<1>1. CASE UNCHANGED billingVars
  BY <1>1 DEF billingVars, BillingInv, BillingShape, PaidPlanHolds, LimitsChangeNothing,
     FreeStaysFree, InsertsAreCaused, TwinsCaused, Untouched, Named
<1>2. CASE BillingNext
  BY <1>2, BeginSteps, ReadSteps, FindFreePlanStep, SeedPlanStep, InsertPlanStep,
     SubscriptionSteps, PaymentSteps, ByHandSteps DEF BillingNext
<1> QED
  BY <1>1, <1>2

(* Two plans of one name are two members of a set. *)
LEMMA TwinsAreDistinct ==
  ASSUME TwinsCaused
  PROVE  DoublePlanHasCause
<1> SUFFICES ASSUME NEW n \in Names, Cardinality(Untouched(n)) > 1, n \notin doubled PROVE FALSE
  BY DEF DoublePlanHasCause, Names
<1>1. CASE Untouched(n) = {}
  BY <1>1, FS_EmptySet
<1>2. ASSUME NEW i \in Untouched(n) PROVE FALSE
  <2>1. Untouched(n) = {i}
    BY <1>2 DEF TwinsCaused
  <2>2. Cardinality({i}) = 1
    BY FS_Singleton
  <2> QED
    BY <2>1, <2>2
<1> QED
  BY <1>1, <1>2

-----------------------------------------------------------------------------
(* Who moves the company's subscription moves it to the plan of a request. *)
LEMMA BillingTypesStep ==
  ASSUME BillingInv, BillingTypeOK, [BillingNext]_billingVars
  PROVE  /\ subscription' \in PlanIds \cup {Nothing} /\ chosen' \in PlanIds \cup {Nothing}
         /\ orders' \in 0..MaxOrders /\ doubled' \subseteq Names
<1> DEFINE Goal == /\ subscription' \in PlanIds \cup {Nothing} /\ chosen' \in PlanIds \cup {Nothing}
                   /\ orders' \in 0..MaxOrders /\ doubled' \subseteq Names
<1>1. /\ subscription \in PlanIds \cup {Nothing} /\ chosen \in PlanIds \cup {Nothing}
      /\ orders \in 0..MaxOrders /\ doubled \subseteq Names
  BY DEF BillingTypeOK, Names
<1>2. ASSUME UNCHANGED <<subscription, chosen, doubled>>,
             orders' = orders \/ (orders < MaxOrders /\ orders' = orders + 1)
      PROVE  Goal
  BY <1>1, <1>2, OrdersAssumption
<1>3. CASE Checkout \/ CustomerPays \/ CreatePlan \/ UpdatePlan \/ UNCHANGED billingVars
  BY <1>2, <1>3 DEF Checkout, CustomerPays, CreatePlan, UpdatePlan, billingVars
<1>4. ASSUME NEW p \in Payers,
             \/ StartProcess(p) \/ SeedPlan(p) \/ CheckLimit(p) \/ Upgrade(p) \/ Verify(p)
             \/ MatchPlan(p) \/ FindSubscription(p) \/ FindFreePlan(p) \/ BillingFail(p)
      PROVE  Goal
  BY <1>2, <1>4 DEF StartProcess, SeedPlan, CheckLimit, Upgrade, Verify, MatchPlan, FindSubscription,
                    FindFreePlan, BillingFail, Order
<1>5. ASSUME NEW p \in Payers, InsertPlan(p) PROVE Goal
  <2>1. job[p].name \in Names
    BY <1>5 DEF InsertPlan, BillingInv, InsertsAreCaused
  <2>2. doubled' \subseteq doubled \cup {job[p].name} /\ UNCHANGED <<subscription, orders, chosen>>
    BY <1>5 DEF InsertPlan
  <2> QED
    BY <1>1, <2>1, <2>2
<1>6. ASSUME NEW p \in Payers, InsertSubscription(p) \/ ChangeSubscription(p) PROVE Goal
  <2>1. job[p].plan \in PlanIds \cup {Nothing}
    BY DEF BillingTypeOK, Job
  <2> QED
    BY <1>1, <1>6, <2>1 DEF InsertSubscription, ChangeSubscription, Choice
<1> QED
  BY <1>3, <1>4, <1>5, <1>6 DEF BillingNext

(* Billing keeps its types: plans, subscription, payments and requests. *)
THEOREM BillingTyped == BillingSpec => []BillingTypeOK
<1>1. BillingInit => BillingTypeOK
  BY NothingInOrder, OrdersAssumption DEF BillingInit, BillingTypeOK, JobPoints
<1>2. BillingTypeOK /\ BillingInv /\ BillingInv' /\ [BillingNext]_billingVars => BillingTypeOK'
  BY BillingTypesStep DEF BillingInv, BillingShape, BillingTypeOK, Names
<1> QED
  BY <1>1, <1>2, BillingInitInv, BillingStepInv, PTL DEF BillingSpec

(* However limit checks, choices, payments, restarts and edits overlap, a company
   stays on the plan it was last moved to, and plans that no administrator touched
   share a name only when two inserts overlapped, whatever administrators create,
   rename, price and withdraw (subscriptions.service.ts:68-201). *)
THEOREM BillingCorrect == BillingSpec => []BillingHolds
<1>1. BillingInv => PaidPlanHolds /\ DoublePlanHasCause
  BY TwinsAreDistinct DEF BillingInv
<1> QED
  BY <1>1, BillingTyped, BillingInitInv, BillingStepInv, PTL DEF BillingSpec, BillingHolds
-----------------------------------------------------------------------------
(* What never changes of a user once the row is there. *)
SameIdentity(r, q) ==
  r.email = q.email /\ r.company = q.company /\ r.twin = q.twin /\ r.late = q.late
(* Where each request is, and what it relies on there. *)
CallCourse(s, k) ==
  /\ s \in {"load", "find_role", "save"} => k.kind \in {"assign", "remove"} /\ k.role \in RoleIds
  /\ s \in {"email", "count", "limit", "find_super", "insert", "company"} => k.email \in Emails
  /\ s = "email" => (k.kind = "company" /\ k.company \in Companies) \/ k.kind = "register"
  /\ s = "company" => k.company \in Companies
  /\ s \in {"count", "limit"} => k.kind = "register" /\ k.company \in Companies
  /\ s = "find_super" => k.kind = "super" /\ k.company = Nil
  /\ s = "insert" => k.kind \in {"register", "invite"} \/ (k.kind = "super" /\ k.company = Nil)
Relies(s, k, n) ==
  /\ s # "idle" => k.number \in 1..n
  /\ s \in {"load", "find_role", "save", "password", "ask", "reset"} => k.user \in Users
  /\ s \in {"find_link", "reset"} => k.link \in 1..n
  /\ s \in {"find_role", "save"} =>
       SameIdentity(k.copy, user[k.user]) /\ (k.outdated \/ k.copy = user[k.user])
  /\ s \in {"count", "limit", "insert", "company"} /\ ~k.twin => WithEmail(k.email) = {}
  /\ s = "limit" /\ ~k.late => k.counted = Cardinality(Members(k.company))
  /\ s = "insert" /\ k.kind = "register" /\ k.company # Nil /\ ~k.late =>
       Admits(k.company, Cardinality(Members(k.company)))
CallsFit == \A c \in Callers : CallCourse(spot[c], call[c]) /\ Relies(spot[c], call[c], calls)
NumbersApart ==
  \A c, d \in Callers : c # d /\ spot[c] # "idle" /\ spot[d] # "idle" => call[c].number # call[d].number
BlankRows == IsFiniteSet(Users) /\ \A u \in UserIds : u \notin Users => user[u] = NoUser

(* Links, as long as no change of roles has brought an old one back. *)
Held(l) == \E u \in UserIds : user[u].link = l
Resetting(l) == \E d \in Callers : spot[d] = "reset" /\ call[d].link = l
OneHolder == \A u, v \in UserIds : user[u].link # 0 /\ user[u].link = user[v].link => u = v
ResetsItsHolder ==
  \A d \in Callers, v \in UserIds :
    spot[d] = "reset" /\ user[v].link = call[d].link => v = call[d].user
AskedIsFresh ==
  \A c \in Callers : spot[c] = "ask" =>
    LET n == call[c].number IN ~Held(n) /\ ~Resetting(n) /\ spent[n] = 0
SpentIsGone ==
  \A l \in 1..MaxCalls : spent[l] # 0 /\ l \notin hurried =>
    spent[l] = 1 /\ ~Held(l) /\ ~Resetting(l)
KnownLinks == /\ \A u \in UserIds : user[u].link <= calls
              /\ \A l \in 1..MaxCalls : spent[l] # 0 => l <= calls
LinksInOrder == tangled = {} => KnownLinks /\ OneHolder /\ ResetsItsHolder /\ AskedIsFresh /\ SpentIsGone

AccountsInv ==
  /\ AccountsTypeOK /\ CallsFit /\ NumbersApart /\ BlankRows
  /\ UserLossHasCause /\ TwinsHaveCause /\ LinksInOrder
-----------------------------------------------------------------------------
LEMMA NoCallTyped == NoCall \in Call /\ NoUser \in User
  BY AccountsAssumption DEF NoCall, Call, NoUser, User, Places

LEMMA NoCallFits ==
  CallCourse("idle", NoCall) /\ Relies("idle", NoCall, calls)
  BY DEF CallCourse, Relies

LEMMA RegisteredTyped ==
  ASSUME NEW e \in Emails, NEW m \in Companies
  PROVE  LET r == [NoUser EXCEPT !.email = e, !.company = m, !.active = TRUE] IN
         r \in User /\ r.email = e /\ r.link = 0
<1> DEFINE r == [NoUser EXCEPT !.email = e, !.company = m, !.active = TRUE]
<1>1. NoUser.link = 0
  BY DEF NoUser
<1>2. r \in User /\ r.email = e /\ r.link = NoUser.link
  BY NoCallTyped DEF User, Places
<1> QED
  BY <1>1, <1>2

LEMMA FirstUsersTyped ==
  ASSUME user \in FirstUsers
  PROVE  /\ user \in [UserIds -> User]
         /\ \A u \in UserIds : u \notin Users => user[u] = NoUser
         /\ \A u \in UserIds : user[u].link = 0
         /\ Users = {} \/ \E u \in UserIds : Users = {u}
<1>1. AnyOf(Emails) \in Emails /\ AnyOf(Companies) \in Companies /\ AnyOf(UserIds) \in UserIds
  BY AccountsAssumption DEF AnyOf
<1>2. Registered \in User /\ Registered.email = AnyOf(Emails) /\ Registered.link = 0
  BY <1>1, RegisteredTyped DEF Registered
<1>3. NoUser.email = Nil /\ NoUser.link = 0
  BY DEF NoUser
<1>4. CASE user = [u \in UserIds |-> NoUser]
  BY <1>3, <1>4, NoCallTyped DEF Users
<1>5. CASE user = [u \in UserIds |-> IF u = AnyOf(UserIds) THEN Registered ELSE NoUser]
  <2>1. \A u \in UserIds : user[u] = IF u = AnyOf(UserIds) THEN Registered ELSE NoUser
    BY <1>5
  <2>2. user \in [UserIds -> User]
    BY <1>2, <1>5, NoCallTyped
  <2>3. AnyOf(Emails) # Nil
    BY <1>1, AccountsAssumption
  <2>4. Users = {AnyOf(UserIds)}
    BY <1>1, <1>2, <1>3, <2>1, <2>3 DEF Users
  <2> QED
    BY <1>1, <1>2, <1>3, <2>1, <2>2, <2>4
<1> QED
  BY <1>4, <1>5 DEF FirstUsers

LEMMA AccountsInitInv == AccountsInit => AccountsInv
<1> SUFFICES ASSUME AccountsInit PROVE AccountsInv
  OBVIOUS
<1>1. /\ user \in [UserIds -> User]
      /\ \A u \in UserIds : u \notin Users => user[u] = NoUser
      /\ \A u \in UserIds : user[u].link = 0
      /\ Users = {} \/ \E u \in UserIds : Users = {u}
  BY FirstUsersTyped DEF AccountsInit
<1>2. AccountsTypeOK
  <2>1. spot \in [Callers -> Spots] /\ call \in [Callers -> Call] /\ calls \in 0..MaxCalls
    BY NoCallTyped, AccountsAssumption DEF AccountsInit, Spots
  <2> QED
    BY <1>1, <2>1 DEF AccountsInit, AccountsTypeOK
<1>3. CallsFit /\ NumbersApart
  BY NoCallFits DEF AccountsInit, CallsFit, NumbersApart
<1>4. BlankRows
  BY <1>1, FS_EmptySet, FS_Singleton DEF BlankRows
<1>5. UserLossHasCause
  BY DEF AccountsInit, UserLossHasCause
<1>6. TwinsHaveCause
  <2>1. \A u, v \in Users : u = v
    BY <1>1
  <2>2. \A m \in Companies : ~ (capacity[m] # 0 /\ Cardinality(Members(m)) > capacity[m])
    <3> SUFFICES ASSUME NEW m \in Companies
                 PROVE  ~ (capacity[m] # 0 /\ Cardinality(Members(m)) > capacity[m])
      OBVIOUS
    <3>1. Members(m) = {} \/ \E u \in UserIds : Members(m) = {u}
      BY <1>1 DEF Members
    <3>2. Cardinality(Members(m)) = 0 \/ Cardinality(Members(m)) = 1
      BY <3>1, FS_EmptySet, FS_Singleton
    <3>3. capacity[m] \in Nat
      BY AccountsAssumption DEF AccountsInit
    <3> QED
      BY <3>2, <3>3
  <2> QED
    BY <2>1, <2>2 DEF TwinsHaveCause
<1>7. LinksInOrder
  <2>1. KnownLinks /\ OneHolder /\ SpentIsGone
    BY <1>1, AccountsAssumption DEF AccountsInit, KnownLinks, OneHolder, SpentIsGone
  <2>2. ResetsItsHolder /\ AskedIsFresh
    BY DEF AccountsInit, ResetsItsHolder, AskedIsFresh
  <2> QED
    BY <2>1, <2>2 DEF LinksInOrder
<1> QED
  BY <1>2, <1>3, <1>4, <1>5, <1>6, <1>7 DEF AccountsInv
-----------------------------------------------------------------------------

(* A request that goes on and changes no row. *)
LEMMA QuietStep ==
  ASSUME AccountsInv, NEW c \in Callers, NEW s \in Spots, NEW k \in Call,
         spot' = [spot EXCEPT ![c] = s], call' = [call EXCEPT ![c] = k],
         UNCHANGED <<user, revoked, expired, capacity, shrunk, wanted, tangled, spent, hurried>>,
         calls' \in 0..MaxCalls, calls <= calls',
         CallCourse(s, k), Relies(s, k, calls'),
         s # "idle" => \A d \in Callers : d # c /\ spot[d] # "idle" => call[d].number # k.number,
         s = "ask" => k.number > calls,
         s = "reset" => Held(k.link) /\ user[k.user].link = k.link
  PROVE  AccountsInv'
<1>0. calls \in Nat /\ calls' \in Nat
  BY AccountsAssumption DEF AccountsInv, AccountsTypeOK
<1>1. /\ spot' \in [Callers -> Spots] /\ call' \in [Callers -> Call]
      /\ spot'[c] = s /\ call'[c] = k
      /\ \A d \in Callers : d # c => spot'[d] = spot[d] /\ call'[d] = call[d]
  BY DEF AccountsInv, AccountsTypeOK
<1>2. AccountsTypeOK'
  BY <1>1 DEF AccountsInv, AccountsTypeOK
<1>3. CallsFit'
  <2>1. ASSUME NEW t \in Spots, NEW j \in Call, Relies(t, j, calls) \/ Relies(t, j, calls')
        PROVE  Relies(t, j, calls)'
    BY <1>0, <2>1 DEF Relies, Users, WithEmail, Members, Admits
  <2>2. \A d \in Callers : spot[d] \in Spots /\ call[d] \in Call
    BY DEF AccountsInv, AccountsTypeOK
  <2> QED
    BY <1>1, <2>1, <2>2 DEF AccountsInv, CallsFit
<1>4. NumbersApart'
  BY <1>1 DEF AccountsInv, NumbersApart
<1>5. BlankRows' /\ UserLossHasCause' /\ TwinsHaveCause'
  BY DEF AccountsInv, BlankRows, UserLossHasCause, TwinsHaveCause, Users, Members
<1>6. LinksInOrder'
  <2> SUFFICES ASSUME tangled = {}
               PROVE  KnownLinks' /\ OneHolder' /\ ResetsItsHolder' /\ AskedIsFresh' /\ SpentIsGone'
    BY DEF LinksInOrder
  <2>0. KnownLinks /\ OneHolder /\ ResetsItsHolder /\ AskedIsFresh /\ SpentIsGone
    BY DEF AccountsInv, LinksInOrder
  <2>1. KnownLinks'
    <3>1. \A u \in UserIds : user[u].link \in Nat
      BY AccountsAssumption DEF AccountsInv, AccountsTypeOK, User
    <3> QED
      BY <1>0, <2>0, <3>1, AccountsAssumption DEF KnownLinks
  <2>2. OneHolder' /\ ResetsItsHolder'
    <3>1. s = "reset" => k.user \in UserIds /\ k.link # 0
      BY DEF Relies, Users
    <3> QED
      BY <1>1, <2>0, <3>1 DEF OneHolder, ResetsItsHolder
  <2>3. AskedIsFresh'
    <3> SUFFICES ASSUME NEW d \in Callers, spot'[d] = "ask"
                 PROVE  LET n == call'[d].number IN
                        ~Held(n) /\ ~(\E e \in Callers : spot'[e] = "reset" /\ call'[e].link = n)
                        /\ spent[n] = 0
      BY DEF AskedIsFresh, Held, Resetting
    <3>1. CASE d = c
      <4>1. s = "ask" /\ k.number > calls /\ k.number \in 1..MaxCalls
        BY <1>0, <1>1, <3>1, AccountsAssumption DEF Relies
      <4>2. ~Held(k.number)
        <5>1. \A u \in UserIds : user[u].link <= calls /\ user[u].link \in Nat
          BY <2>0, AccountsAssumption DEF KnownLinks, AccountsInv, AccountsTypeOK, User
        <5> QED
          BY <1>0, <4>1, <5>1 DEF Held
      <4>3. spent[k.number] = 0
        BY <1>0, <2>0, <4>1 DEF KnownLinks
      <4>4. \A e \in Callers : spot'[e] = "reset" => e # c /\ spot[e] = "reset" /\ call'[e].link \in 1..calls
        BY <1>1, <4>1 DEF AccountsInv, CallsFit, Relies
      <4> QED
        BY <1>0, <1>1, <3>1, <4>1, <4>2, <4>3, <4>4
    <3>2. CASE d # c
      <4>1. spot[d] = "ask" /\ call'[d] = call[d]
        BY <1>1, <3>2
      <4>2. ~Held(call[d].number) /\ ~Resetting(call[d].number) /\ spent[call[d].number] = 0
        BY <2>0, <4>1 DEF AskedIsFresh
      <4>3. s = "reset" => k.link # call[d].number
        BY <4>2
      <4> QED
        BY <1>1, <4>1, <4>2, <4>3 DEF Resetting
    <3> QED
      BY <3>1, <3>2
  <2>4. SpentIsGone'
    <3> SUFFICES ASSUME NEW l \in 1..MaxCalls, spent[l] # 0, l \notin hurried
                 PROVE  /\ spent[l] = 1 /\ ~Held(l)
                        /\ ~(\E e \in Callers : spot'[e] = "reset" /\ call'[e].link = l)
      BY DEF SpentIsGone, Held, Resetting
    <3>1. spent[l] = 1 /\ ~Held(l) /\ ~Resetting(l)
      BY <2>0 DEF SpentIsGone
    <3> QED
      BY <1>1, <3>1 DEF Resetting
  <2> QED
    BY <2>1, <2>2, <2>3, <2>4
<1> QED
  BY <1>2, <1>3, <1>4, <1>5, <1>6 DEF AccountsInv

LEMMA HangUpStep ==
  ASSUME AccountsInv, NEW c \in Callers, HangUp(c),
         UNCHANGED <<user, revoked, expired, capacity, shrunk, calls, wanted, tangled, spent, hurried>>
  PROVE  AccountsInv'
<1>1. "idle" \in Spots /\ CallCourse("idle", NoCall) /\ Relies("idle", NoCall, calls')
  BY DEF Spots, CallCourse, Relies
<1>2. calls' \in 0..MaxCalls /\ calls <= calls'
  BY AccountsAssumption DEF AccountsInv, AccountsTypeOK
<1> QED
  BY <1>1, <1>2, NoCallTyped, QuietStep DEF HangUp

(* A request that goes on to s with k, the calls being what they were. *)
LEMMA GoOnStep ==
  ASSUME AccountsInv, NEW c \in Callers, NEW s \in Spots, NEW k \in Call,
         spot[c] # "idle", s \notin {"idle", "ask", "reset"}, k.number = call[c].number,
         spot' = [spot EXCEPT ![c] = s], call' = [call EXCEPT ![c] = k],
         UNCHANGED <<user, revoked, expired, capacity, shrunk, calls, wanted, tangled, spent, hurried>>,
         CallCourse(s, k), Relies(s, k, calls)
  PROVE  AccountsInv'
<1>1. Relies(s, k, calls')
  BY DEF Relies, Users, WithEmail, Members, Admits
<1>2. calls' \in 0..MaxCalls /\ calls <= calls'
  BY AccountsAssumption DEF AccountsInv, AccountsTypeOK
<1>3. \A d \in Callers : d # c /\ spot[d] # "idle" => call[d].number # k.number
  BY DEF AccountsInv, NumbersApart
<1> QED
  BY <1>1, <1>2, <1>3, QuietStep

LEMMA RingStep ==
  ASSUME AccountsInv, NEW c \in Callers, NEW k \in Call,
         NEW s \in {"email", "find_super", "insert", "load", "password", "ask", "find_link"},
         Ring(c, k, s), CallCourse(s, k),
         s \in {"load", "password", "ask"} => k.user \in Users,
         s = "find_link" => k.link \in 1..calls,
         s = "insert" => k.twin /\ k.kind = "invite"
  PROVE  AccountsInv'
<1> DEFINE v == [k EXCEPT !.number = calls + 1]
<1>1. calls \in Nat /\ calls' = calls + 1 /\ calls' \in 1..MaxCalls /\ calls' \in 0..MaxCalls
      /\ calls <= calls' /\ spot[c] = "idle"
  BY AccountsAssumption DEF Ring, AccountsInv, AccountsTypeOK
<1>2. v \in Call /\ v.kind = k.kind /\ v.role = k.role /\ v.email = k.email /\ v.company = k.company
      /\ v.user = k.user /\ v.link = k.link /\ v.twin = k.twin /\ v.number = calls + 1
  BY <1>1 DEF Call
<1>3. spot' = [spot EXCEPT ![c] = s] /\ call' = [call EXCEPT ![c] = v]
      /\ UNCHANGED <<user, revoked, expired, capacity, shrunk, wanted, tangled, spent, hurried>>
  BY DEF Ring
<1> HIDE DEF v
<1>4. CallCourse(s, v)
  BY <1>2 DEF CallCourse
<1>5. Relies(s, v, calls')
  BY <1>1, <1>2, <1>3 DEF Relies, Users
<1>6. \A d \in Callers : d # c /\ spot[d] # "idle" => call[d].number # v.number
  BY <1>1, <1>2 DEF AccountsInv, CallsFit, Relies
<1>7. (s = "ask" => v.number > calls) /\ s \in Spots /\ s # "reset"
  BY <1>1, <1>2 DEF Spots
<1> QED
  BY <1>1, <1>2, <1>3, <1>4, <1>5, <1>6, <1>7, QuietStep

LEMMA BeginStep ==
  ASSUME AccountsInv, NEW c \in Callers,
         BeginAccount(c) \/ BeginSuper(c) \/ BeginRole(c) \/ BeginPassword(c) \/ BeginForgot(c)
         \/ BeginReset(c)
  PROVE  AccountsInv'
<1>0. Users \subseteq UserIds
  BY DEF Users
<1>1. ASSUME NEW e \in Emails, NEW m \in Places,
             Ring(c, [NoCall EXCEPT !.kind = "register", !.email = e, !.company = m], "email")
      PROVE  AccountsInv'
  <2> DEFINE k == [NoCall EXCEPT !.kind = "register", !.email = e, !.company = m]
  <2>1. k \in Call /\ k.kind = "register" /\ k.email = e
    BY NoCallTyped DEF Call
  <2> QED
    BY <1>1, <2>1, RingStep DEF CallCourse
<1>2. ASSUME NEW e \in Emails, NEW m \in Companies,
             Ring(c, [NoCall EXCEPT !.kind = "company", !.email = e, !.company = m], "email")
      PROVE  AccountsInv'
  <2> DEFINE k == [NoCall EXCEPT !.kind = "company", !.email = e, !.company = m]
  <2>1. k \in Call /\ k.kind = "company" /\ k.email = e /\ k.company = m
    BY NoCallTyped DEF Call, Places
  <2> QED
    BY <1>2, <2>1, RingStep DEF CallCourse
<1>3. ASSUME NEW e \in Emails, NEW m \in Companies, NEW r \in RoleIds \cup {Nil},
             Ring(c, [NoCall EXCEPT !.kind = "invite", !.email = e, !.company = m, !.role = r,
                                    !.twin = TRUE], "insert")
      PROVE  AccountsInv'
  <2> DEFINE k == [NoCall EXCEPT !.kind = "invite", !.email = e, !.company = m, !.role = r,
                                 !.twin = TRUE]
  <2>1. k \in Call /\ k.kind = "invite" /\ k.email = e /\ k.twin
    BY NoCallTyped DEF Call, Places
  <2> QED
    BY <1>3, <2>1, RingStep DEF CallCourse
<1>4. ASSUME NEW u \in Users, NEW r \in RoleIds, NEW t \in {"assign", "remove"},
             Ring(c, [NoCall EXCEPT !.kind = t, !.user = u, !.role = r], "load")
      PROVE  AccountsInv'
  <2> DEFINE k == [NoCall EXCEPT !.kind = t, !.user = u, !.role = r]
  <2>1. k \in Call /\ k.kind = t /\ k.user = u /\ k.role = r
    BY <1>0, NoCallTyped DEF Call
  <2> QED
    BY <1>4, <2>1, RingStep DEF CallCourse
<1>5. ASSUME NEW u \in Users, NEW t \in {"change", "forgot"}, NEW s \in {"password", "ask"},
             Ring(c, [NoCall EXCEPT !.kind = t, !.user = u], s)
      PROVE  AccountsInv'
  <2> DEFINE k == [NoCall EXCEPT !.kind = t, !.user = u]
  <2>1. k \in Call /\ k.user = u
    BY <1>0, NoCallTyped DEF Call
  <2> QED
    BY <1>5, <2>1, RingStep DEF CallCourse
<1>6. ASSUME NEW l \in 1..calls, Ring(c, [NoCall EXCEPT !.kind = "reset", !.link = l], "find_link")
      PROVE  AccountsInv'
  <2> DEFINE k == [NoCall EXCEPT !.kind = "reset", !.link = l]
  <2>1. l \in 0..MaxCalls
    BY AccountsAssumption DEF AccountsInv, AccountsTypeOK
  <2>2. k \in Call /\ k.link = l
    BY <2>1, NoCallTyped DEF Call
  <2> QED
    BY <1>6, <2>2, RingStep DEF CallCourse
<1>7. CASE BeginSuper(c)
  <2> DEFINE k == [NoCall EXCEPT !.kind = "super", !.email = SuperEmail]
  <2>1. SuperEmail \in Emails
    BY AccountsAssumption
  <2>2. k \in Call /\ k.kind = "super" /\ k.email = SuperEmail /\ k.company = Nil
    BY <2>1, NoCallTyped DEF Call, NoCall
  <2> QED
    BY <1>7, <2>1, <2>2, RingStep DEF CallCourse, BeginSuper
<1> QED
  BY <1>1, <1>2, <1>3, <1>4, <1>5, <1>6, <1>7
     DEF BeginAccount, BeginRole, BeginPassword, BeginForgot, BeginReset

LEMMA LookStep ==
  ASSUME AccountsInv, NEW c \in Callers,
         FindEmail(c) \/ FindSuper(c) \/ CountUsers(c) \/ CheckCapacity(c)
  PROVE  AccountsInv'
<1>0. UNCHANGED <<user, revoked, expired, capacity, shrunk, calls, wanted, tangled, spent, hurried>>
      /\ call[c] \in Call /\ CallCourse(spot[c], call[c]) /\ Relies(spot[c], call[c], calls)
  BY DEF FindEmail, FindSuper, CountUsers, CheckCapacity, Still, AccountsInv, AccountsTypeOK, CallsFit
<1>1. CASE HangUp(c)
  BY <1>0, <1>1, HangUpStep
<1>2. CASE FindEmail(c) /\ ~HangUp(c)
  <2>1. PICK s \in {"company", "insert", "count"} :
          /\ Move(c, s) /\ spot[c] = "email" /\ WithEmail(call[c].email) = {}
          /\ s = "company" <=> call[c].kind = "company"
          /\ s = "insert" => call[c].company = Nil
          /\ s = "count" => call[c].company # Nil
    BY <1>2 DEF FindEmail
  <2>2. s \in Spots /\ CallCourse(s, call[c]) /\ Relies(s, call[c], calls)
    BY <1>0, <2>1 DEF Spots, CallCourse, Relies, Call, Places
  <2>3. call' = [call EXCEPT ![c] = call[c]] /\ spot' = [spot EXCEPT ![c] = s]
    BY <2>1 DEF Move, AccountsInv, AccountsTypeOK
  <2> QED
    BY <1>0, <2>1, <2>2, <2>3, GoOnStep
<1>3. CASE CountUsers(c)
  <2> DEFINE n == Cardinality(Members(call[c].company))
             k == [call[c] EXCEPT !.counted = n]
  <2>1. n \in Nat
    <3>1. Members(call[c].company) \subseteq Users
      BY DEF Members
    <3>2. IsFiniteSet(Members(call[c].company))
      BY <3>1, FS_Subset DEF AccountsInv, BlankRows
    <3> QED
      BY <3>2, FS_CardinalityType
  <2>2. spot[c] = "count" /\ call' = [call EXCEPT ![c] = k] /\ spot' = [spot EXCEPT ![c] = "limit"]
    BY <1>3 DEF CountUsers
  <2>3. /\ k \in Call /\ k.counted = n /\ k.kind = call[c].kind /\ k.email = call[c].email
        /\ k.company = call[c].company /\ k.twin = call[c].twin /\ k.number = call[c].number
    <3> HIDE DEF n
    <3> QED
      BY <1>0, <2>1 DEF Call
  <2> HIDE DEF k
  <2>4. "limit" \in Spots /\ CallCourse("limit", k) /\ Relies("limit", k, calls)
    BY <1>0, <2>2, <2>3 DEF Spots, CallCourse, Relies
  <2> QED
    BY <1>0, <2>2, <2>3, <2>4, GoOnStep
<1>4. CASE CheckCapacity(c) /\ ~HangUp(c)
  <2>1. Move(c, "insert") /\ spot[c] = "limit" /\ Admits(call[c].company, call[c].counted)
    BY <1>4 DEF CheckCapacity
  <2>2. "insert" \in Spots /\ CallCourse("insert", call[c]) /\ Relies("insert", call[c], calls)
    BY <1>0, <2>1 DEF Spots, CallCourse, Relies
  <2>3. call' = [call EXCEPT ![c] = call[c]] /\ spot' = [spot EXCEPT ![c] = "insert"]
    BY <2>1 DEF Move, AccountsInv, AccountsTypeOK
  <2> QED
    BY <1>0, <2>1, <2>2, <2>3, GoOnStep
<1>5. CASE FindSuper(c) /\ ~HangUp(c)
  <2> DEFINE t == WithEmail(call[c].email) # {}
             k == [call[c] EXCEPT !.twin = t]
  <2>1. spot[c] = "find_super" /\ call' = [call EXCEPT ![c] = k] /\ spot' = [spot EXCEPT ![c] = "insert"]
    BY <1>5 DEF FindSuper
  <2>2. /\ k \in Call /\ k.twin = t /\ k.kind = call[c].kind /\ k.email = call[c].email
        /\ k.company = call[c].company /\ k.number = call[c].number
    <3>1. t \in BOOLEAN
      OBVIOUS
    <3> HIDE DEF t
    <3> QED
      BY <1>0, <3>1 DEF Call
  <2> HIDE DEF k
  <2>3. "insert" \in Spots /\ CallCourse("insert", k) /\ Relies("insert", k, calls)
    BY <1>0, <2>1, <2>2 DEF Spots, CallCourse, Relies
  <2> QED
    BY <1>0, <2>1, <2>2, <2>3, GoOnStep
<1> QED
  BY <1>1, <1>2, <1>3, <1>4, <1>5

LEMMA LoadUserStep ==
  ASSUME AccountsInv, NEW c \in Callers, LoadUser(c) \/ FindRole(c)
  PROVE  AccountsInv'
<1>0. UNCHANGED <<user, revoked, expired, capacity, shrunk, calls, wanted, tangled, spent, hurried>>
      /\ call[c] \in Call /\ CallCourse(spot[c], call[c]) /\ Relies(spot[c], call[c], calls)
  BY DEF LoadUser, FindRole, Still, AccountsInv, AccountsTypeOK, CallsFit
<1>1. CASE LoadUser(c)
  <2> DEFINE row == user[call[c].user]
             k == [call[c] EXCEPT !.copy = row, !.outdated = FALSE]
             s == IF call[c].kind = "assign" THEN "find_role" ELSE "save"
  <2>1. spot[c] = "load" /\ call[c].user \in Users /\ row \in User
    BY <1>0, <1>1 DEF LoadUser, Relies, Users, AccountsInv, AccountsTypeOK
  <2>2. /\ k \in Call /\ k.copy = row /\ k.user = call[c].user /\ k.kind = call[c].kind
        /\ k.role = call[c].role /\ k.number = call[c].number
    BY <1>0, <2>1 DEF Call
  <2>3. call' = [call EXCEPT ![c] = k] /\ spot' = [spot EXCEPT ![c] = s]
    BY <1>1 DEF LoadUser
  <2> HIDE DEF k
  <2>4. s \in {"find_role", "save"} /\ s \in Spots
    BY DEF Spots
  <2> HIDE DEF s
  <2>5. CallCourse(s, k) /\ Relies(s, k, calls)
    BY <1>0, <2>1, <2>2, <2>4 DEF CallCourse, Relies, SameIdentity
  <2> QED
    BY <1>0, <2>1, <2>2, <2>3, <2>4, <2>5, GoOnStep
<1>2. CASE FindRole(c)
  <2>1. "save" \in Spots /\ CallCourse("save", call[c]) /\ Relies("save", call[c], calls) /\ spot[c] = "find_role"
    BY <1>0, <1>2 DEF FindRole, Spots, CallCourse, Relies
  <2>2. call' = [call EXCEPT ![c] = call[c]] /\ spot' = [spot EXCEPT ![c] = "save"]
    BY <1>2 DEF FindRole, Move, AccountsInv, AccountsTypeOK
  <2> QED
    BY <1>0, <2>1, <2>2, GoOnStep
<1> QED
  BY <1>1, <1>2

LEMMA FindLinkStep ==
  ASSUME AccountsInv, NEW c \in Callers, FindLink(c)
  PROVE  AccountsInv'
<1>0. UNCHANGED <<user, revoked, expired, capacity, shrunk, calls, wanted, tangled, spent, hurried>>
      /\ spot[c] = "find_link" /\ call[c] \in Call /\ Relies(spot[c], call[c], calls)
  BY DEF FindLink, Still, AccountsInv, AccountsTypeOK, CallsFit
<1>1. CASE HangUp(c)
  BY <1>0, <1>1, HangUpStep
<1>2. ASSUME NEW u \in Holder(call[c].link), call' = [call EXCEPT ![c].user = u],
             spot' = [spot EXCEPT ![c] = "reset"]
      PROVE  AccountsInv'
  <2> DEFINE k == [call[c] EXCEPT !.user = u]
  <2>1. u \in Users /\ u \in UserIds /\ user[u].link = call[c].link
    BY <1>2 DEF Holder, Users
  <2>2. k \in Call /\ k.user = u /\ k.link = call[c].link /\ k.number = call[c].number
    BY <1>0, <2>1 DEF Call
  <2>3. call' = [call EXCEPT ![c] = k]
    BY <1>2
  <2> HIDE DEF k
  <2>4. "reset" \in Spots /\ CallCourse("reset", k) /\ Relies("reset", k, calls')
    BY <1>0, <2>1, <2>2 DEF Spots, CallCourse, Relies, Users
  <2>5. Held(k.link) /\ user[k.user].link = k.link
    BY <2>1, <2>2 DEF Held
  <2>6. calls' \in 0..MaxCalls /\ calls <= calls'
    BY <1>0, AccountsAssumption DEF AccountsInv, AccountsTypeOK
  <2>7. \A d \in Callers : d # c /\ spot[d] # "idle" => call[d].number # k.number
    BY <1>0, <2>2 DEF AccountsInv, NumbersApart
  <2> QED
    BY <1>0, <1>2, <2>2, <2>3, <2>4, <2>5, <2>6, <2>7, QuietStep
<1> QED
  BY <1>1, <1>2 DEF FindLink

LEMMA AsideStep ==
  ASSUME AccountsInv, DeactivateRole \/ LinkExpires
  PROVE  AccountsInv'
<1>1. UNCHANGED <<user, capacity, shrunk, spot, call, wanted, tangled, spent, hurried>>
  BY DEF DeactivateRole, LinkExpires
<1>2. calls \in Nat /\ calls' \in 0..MaxCalls /\ calls <= calls'
  BY AccountsAssumption DEF DeactivateRole, LinkExpires, AccountsInv, AccountsTypeOK
<1>3. AccountsTypeOK'
  <2>1. \A u \in UserIds : user[u].link \in 0..MaxCalls
    BY DEF AccountsInv, AccountsTypeOK, User
  <2>2. expired \subseteq 1..MaxCalls /\ revoked \subseteq RoleIds /\ Users \subseteq UserIds
    BY DEF AccountsInv, AccountsTypeOK, Users
  <2>3. CASE DeactivateRole
    BY <1>1, <1>2, <2>2, <2>3 DEF AccountsInv, AccountsTypeOK, DeactivateRole
  <2>4. CASE LinkExpires
    <3>1. PICK u \in Users : user[u].link \notin expired \cup {0} /\ expired' = expired \cup {user[u].link}
      BY <2>4 DEF LinkExpires
    <3>2. user[u].link \in 0..MaxCalls /\ user[u].link # 0
      BY <2>1, <2>2, <3>1
    <3>3. user[u].link \in 1..MaxCalls
      BY <3>2, AccountsAssumption
    <3>4. expired' \subseteq 1..MaxCalls
      BY <2>2, <3>1, <3>3
    <3> QED
      BY <1>1, <1>2, <2>4, <3>4 DEF AccountsInv, AccountsTypeOK, LinkExpires
  <2> QED
    BY <2>3, <2>4
<1>4. CallsFit'
  <2>1. ASSUME NEW t \in Spots, NEW j \in Call, Relies(t, j, calls) PROVE Relies(t, j, calls)'
    BY <1>1, <1>2, <2>1 DEF Relies, Users, WithEmail, Members, Admits
  <2>2. \A d \in Callers : spot[d] \in Spots /\ call[d] \in Call
    BY DEF AccountsInv, AccountsTypeOK
  <2> QED
    BY <1>1, <2>1, <2>2 DEF AccountsInv, CallsFit
<1>5. NumbersApart' /\ BlankRows' /\ UserLossHasCause' /\ TwinsHaveCause'
  BY <1>1 DEF AccountsInv, NumbersApart, BlankRows, UserLossHasCause, TwinsHaveCause, Users, Members
<1>6. LinksInOrder'
  <2>1. ASSUME KnownLinks PROVE KnownLinks'
    <3>1. \A u \in UserIds : user[u].link \in Nat
      BY AccountsAssumption DEF AccountsInv, AccountsTypeOK, User
    <3> QED
      BY <1>1, <1>2, <2>1, <3>1, AccountsAssumption DEF KnownLinks
  <2> QED
    BY <1>1, <2>1 DEF AccountsInv, LinksInOrder, OneHolder, ResetsItsHolder, AskedIsFresh, SpentIsGone,
       Held, Resetting
<1> QED
  BY <1>3, <1>4, <1>5, <1>6 DEF AccountsInv
-----------------------------------------------------------------------------
(* What a write or an insert leaves of another request: at most it is told. *)
Warned(before, after, o, t, l) ==
  /\ after \in Call
  /\ after.kind = before.kind /\ after.user = before.user /\ after.email = before.email
  /\ after.company = before.company /\ after.counted = before.counted /\ after.role = before.role
  /\ after.copy = before.copy /\ after.link = before.link /\ after.number = before.number
  /\ (before.outdated \/ o => after.outdated) /\ (before.twin \/ t => after.twin)
  /\ (before.late \/ l => after.late)

(* The rows change in one user, who is and was there. *)
LEMMA SameUsers ==
  ASSUME AccountsInv, NEW u \in Users, NEW new \in User, user' = [user EXCEPT ![u] = new],
         SameIdentity(new, user[u])
  PROVE  /\ user' \in [UserIds -> User] /\ user'[u] = new
         /\ \A v \in UserIds : v # u => user'[v] = user[v]
         /\ \A v \in UserIds : SameIdentity(user'[v], user[v])
         /\ Users' = Users
         /\ \A e : WithEmail(e)' = WithEmail(e)
         /\ \A m : Members(m)' = Members(m)
<1>1. user \in [UserIds -> User] /\ u \in UserIds
  BY DEF AccountsInv, AccountsTypeOK, Users
<1>2. /\ user' \in [UserIds -> User] /\ user'[u] = new
      /\ \A v \in UserIds : v # u => user'[v] = user[v]
  BY <1>1
<1>3. \A v \in UserIds : SameIdentity(user'[v], user[v])
  BY <1>2 DEF SameIdentity
<1>4. Users' = Users
  BY <1>3 DEF Users, SameIdentity
<1> QED
  BY <1>2, <1>3, <1>4 DEF WithEmail, Members, SameIdentity, Users

LEMMA WriteTells ==
  ASSUME AccountsInv, NEW c \in Callers, NEW u \in Users, NEW new \in User, NEW meantRow \in User,
         Write(c, u, new, meantRow)
  PROVE  /\ call' \in [Callers -> Call] /\ call'[c] = NoCall
         /\ \A d \in Callers : d # c => Warned(call[d], call'[d], call[d].user = u /\ Loaded(d), FALSE, FALSE)
<1>1. ASSUME NEW d \in Callers, d # c
      PROVE  Warned(call[d], call'[d], call[d].user = u /\ Loaded(d), FALSE, FALSE)
  <2> DEFINE p == call[d].user = u /\ Loaded(d)
  <2>1. call[d] \in Call /\ p \in BOOLEAN
    BY DEF AccountsInv, AccountsTypeOK
  <2> HIDE DEF p
  <2>2. call'[d] = [call[d] EXCEPT !.outdated = (@ \/ p)]
    BY <1>1 DEF Write, p
  <2>3. ASSUME p PROVE Warned(call[d], call'[d], p, FALSE, FALSE)
    BY <2>1, <2>2, <2>3 DEF Warned, Call
  <2>4. ASSUME ~p PROVE Warned(call[d], call'[d], p, FALSE, FALSE)
    BY <2>1, <2>2, <2>4 DEF Warned, Call
  <2> QED
    BY <2>3, <2>4 DEF p
<1>2. call'[c] = NoCall
  BY DEF Write
<1>3. \A d \in Callers : call'[d] \in Call
  BY <1>1, <1>2, NoCallTyped DEF Warned
<1>4. call' = [d \in Callers |-> call'[d]]
  BY DEF Write
<1> QED
  BY <1>1, <1>2, <1>3, <1>4

LEMMA RowWrittenStep ==
  ASSUME AccountsInv, NEW c \in Callers, NEW u \in Users, NEW new \in User, NEW meantRow \in User,
         Write(c, u, new, meantRow), SameIdentity(new, user[u]), spot[c] # "idle",
         tangled \subseteq tangled', tangled' \subseteq UserIds,
         u \in tangled' \/ new = meantRow,
         spent' \in [1..MaxCalls -> Nat], hurried' \subseteq 1..MaxCalls,
         UNCHANGED <<revoked, expired, capacity, shrunk, calls>>, LinksInOrder'
  PROVE  AccountsInv'
<1>1. /\ user' \in [UserIds -> User] /\ user'[u] = new
      /\ \A v \in UserIds : v # u => user'[v] = user[v]
      /\ \A v \in UserIds : SameIdentity(user'[v], user[v])
      /\ Users' = Users
      /\ \A e : WithEmail(e)' = WithEmail(e)
      /\ \A m : Members(m)' = Members(m)
  BY SameUsers DEF Write
<1>2. /\ call' \in [Callers -> Call] /\ call'[c] = NoCall
      /\ \A d \in Callers : d # c => Warned(call[d], call'[d], call[d].user = u /\ Loaded(d), FALSE, FALSE)
  BY WriteTells
<1>3. /\ spot' \in [Callers -> Spots] /\ spot'[c] = "idle"
      /\ \A d \in Callers : d # c => spot'[d] = spot[d]
  BY DEF Write, Spots, AccountsInv, AccountsTypeOK
<1>4. /\ wanted' \in [UserIds -> User] /\ wanted'[u] = meantRow
      /\ \A v \in UserIds : v # u => wanted'[v] = wanted[v]
  BY DEF Write, AccountsInv, AccountsTypeOK, Users
<1>5. AccountsTypeOK'
  BY <1>1, <1>2, <1>3, <1>4 DEF AccountsInv, AccountsTypeOK
<1>6. CallsFit'
  <2> DEFINE told(d) == Warned(call[d], call'[d], call[d].user = u /\ Loaded(d), FALSE, FALSE)
  <2>1. \A d \in Callers : CallCourse(spot'[d], call'[d])
    BY <1>2, <1>3 DEF AccountsInv, CallsFit, CallCourse, Warned
  <2>2. \A d \in Callers : spot'[d] # "idle" => call'[d].number \in 1..calls
    BY <1>2, <1>3 DEF AccountsInv, CallsFit, Relies, Warned
  <2>3. \A d \in Callers : spot'[d] \in {"load", "find_role", "save", "password", "ask", "reset"} =>
          call'[d].user \in Users
    BY <1>2, <1>3 DEF AccountsInv, CallsFit, Relies, Warned
  <2>4. \A d \in Callers : spot'[d] \in {"find_link", "reset"} => call'[d].link \in 1..calls
    BY <1>2, <1>3 DEF AccountsInv, CallsFit, Relies, Warned
  <2>5. ASSUME NEW d \in Callers, spot'[d] \in {"find_role", "save"}
        PROVE  /\ SameIdentity(call'[d].copy, user'[call'[d].user])
               /\ call'[d].outdated \/ call'[d].copy = user'[call'[d].user]
    <3>1. d # c /\ spot[d] = spot'[d] /\ told(d)
      BY <1>2, <1>3, <2>5
    <3>2. /\ SameIdentity(call[d].copy, user[call[d].user]) /\ call[d].user \in UserIds
          /\ call[d].outdated \/ call[d].copy = user[call[d].user]
      BY <2>5, <3>1 DEF AccountsInv, CallsFit, Relies, Users
    <3>3. Loaded(d)
      BY <2>5, <3>1 DEF Loaded
    <3>4. call'[d].copy = call[d].copy /\ call'[d].user = call[d].user
          /\ (call[d].outdated \/ call[d].user = u => call'[d].outdated)
      BY <3>1, <3>3 DEF Warned
    <3> QED
      BY <1>1, <3>2, <3>4 DEF SameIdentity
  <2>6. \A d \in Callers : spot'[d] \in {"count", "limit", "insert", "company"} /\ ~call'[d].twin =>
          WithEmail(call'[d].email) = {}
    BY <1>2, <1>3 DEF AccountsInv, CallsFit, Relies, Warned
  <2>7. \A d \in Callers :
          spot'[d] = "insert" /\ call'[d].kind = "register" /\ call'[d].company # Nil /\ ~call'[d].late =>
            Admits(call'[d].company, Cardinality(Members(call'[d].company)))
    BY <1>2, <1>3 DEF AccountsInv, CallsFit, Relies, Warned
  <2>8. \A d \in Callers : spot'[d] = "limit" /\ ~call'[d].late =>
          call'[d].counted = Cardinality(Members(call'[d].company))
    BY <1>2, <1>3 DEF AccountsInv, CallsFit, Relies, Warned
  <2> QED
    BY <1>1, <2>1, <2>2, <2>3, <2>4, <2>5, <2>6, <2>7, <2>8 DEF CallsFit, Relies, Admits
<1>7. NumbersApart'
  BY <1>2, <1>3 DEF AccountsInv, NumbersApart, Warned
<1>8. BlankRows' /\ UserLossHasCause'
  BY <1>1, <1>4 DEF AccountsInv, BlankRows, UserLossHasCause, Users
<1>9. TwinsHaveCause'
  <2>1. \A m : Members(m) \subseteq UserIds
    BY DEF Members, Users
  <2> QED
    BY <1>1, <2>1 DEF AccountsInv, TwinsHaveCause, SameIdentity, Users
<1> QED
  BY <1>5, <1>6, <1>7, <1>8, <1>9 DEF AccountsInv

(* A write that leaves the link of its user as it is keeps the links in order. *)
LEMMA LinksKept ==
  ASSUME AccountsInv, NEW c \in Callers, NEW u \in Users, NEW new \in User, NEW meantRow \in User,
         Write(c, u, new, meantRow), SameIdentity(new, user[u]), tangled \subseteq tangled',
         tangled' = {} => new.link = user[u].link,
         UNCHANGED <<calls, spent, hurried>>
  PROVE  LinksInOrder'
<1> SUFFICES ASSUME tangled' = {}, tangled = {}
             PROVE  KnownLinks' /\ OneHolder' /\ ResetsItsHolder' /\ AskedIsFresh' /\ SpentIsGone'
  BY DEF LinksInOrder
<1>0. KnownLinks /\ OneHolder /\ ResetsItsHolder /\ AskedIsFresh /\ SpentIsGone
  BY DEF AccountsInv, LinksInOrder
<1>1. \A v \in UserIds : user'[v].link = user[v].link
  BY SameUsers DEF Write
<1>2. /\ call'[c] = NoCall
      /\ \A d \in Callers : d # c => /\ call'[d].user = call[d].user /\ call'[d].link = call[d].link
                                     /\ call'[d].number = call[d].number
  BY WriteTells DEF Warned
<1>3. spot'[c] = "idle" /\ \A d \in Callers : d # c => spot'[d] = spot[d]
  BY DEF Write, AccountsInv, AccountsTypeOK
<1>4. KnownLinks' /\ OneHolder'
  BY <1>0, <1>1 DEF KnownLinks, OneHolder
<1>5. ResetsItsHolder'
  BY <1>0, <1>1, <1>2, <1>3 DEF ResetsItsHolder
<1>6. \A l : Held(l)' => Held(l)
  BY <1>1 DEF Held
<1>7. \A l : Resetting(l)' => Resetting(l)
  BY <1>2, <1>3 DEF Resetting
<1>8. AskedIsFresh'
  BY <1>0, <1>2, <1>3, <1>6, <1>7 DEF AskedIsFresh
<1>9. SpentIsGone'
  BY <1>0, <1>6, <1>7 DEF SpentIsGone
<1> QED
  BY <1>4, <1>5, <1>8, <1>9

LEMMA SaveStep ==
  ASSUME AccountsInv, NEW c \in Callers, SaveUser(c)
  PROVE  AccountsInv'
<1> DEFINE u == call[c].user
           copy == call[c].copy
           roles == NextRoles(c, copy.roles)
           new == [copy EXCEPT !.roles = roles]
           meantRow == [wanted[u] EXCEPT !.roles = NextRoles(c, wanted[u].roles)]
<1>1. /\ spot[c] = "save" /\ call[c] \in Call /\ CallCourse(spot[c], call[c])
      /\ Relies(spot[c], call[c], calls)
  BY DEF SaveUser, AccountsInv, AccountsTypeOK, CallsFit
<1>2. /\ u \in Users /\ u \in UserIds /\ copy \in User /\ call[c].role \in RoleIds
      /\ SameIdentity(copy, user[u]) /\ (call[c].outdated \/ copy = user[u])
  BY <1>1 DEF CallCourse, Relies, Call, Users
<1>3. wanted[u] \in User /\ user[u] \in User
  BY <1>2 DEF AccountsInv, AccountsTypeOK
<1>4. \A r \in SUBSET RoleIds : NextRoles(c, r) \in SUBSET RoleIds
  BY <1>2 DEF NextRoles
<1>5. roles \in SUBSET RoleIds
  BY <1>2, <1>4 DEF User
<1>6. new \in User /\ SameIdentity(new, copy) /\ new.link = copy.link
  <2> HIDE DEF roles, copy
  <2> QED
    BY <1>2, <1>5 DEF User, SameIdentity
<1>7. meantRow \in User
  BY <1>3, <1>4 DEF User
<1>8. Write(c, u, new, meantRow) /\ tangled' = (IF call[c].outdated THEN tangled \cup {u} ELSE tangled)
      /\ UNCHANGED <<revoked, expired, capacity, shrunk, calls, spent, hurried>>
  BY DEF SaveUser, Saved
<1>9. u \in tangled' \/ new = meantRow
  BY <1>2, <1>8 DEF AccountsInv, UserLossHasCause
<1>10. tangled' = {} => copy = user[u]
  BY <1>2, <1>8
<1>11. tangled \subseteq tangled' /\ tangled' \subseteq UserIds /\ spent' \in [1..MaxCalls -> Nat]
       /\ hurried' \subseteq 1..MaxCalls
  BY <1>2, <1>8 DEF AccountsInv, AccountsTypeOK
<1>12. SameIdentity(new, user[u])
  BY <1>2, <1>6 DEF SameIdentity
<1> HIDE DEF u, copy, roles, new, meantRow
<1>13. LinksInOrder'
  BY <1>2, <1>6, <1>7, <1>8, <1>10, <1>11, <1>12, LinksKept
<1> QED
  BY <1>1, <1>2, <1>6, <1>7, <1>8, <1>9, <1>11, <1>12, <1>13, RowWrittenStep

LEMMA PasswordStep ==
  ASSUME AccountsInv, NEW c \in Callers, ChangePassword(c)
  PROVE  AccountsInv'
<1> DEFINE u == call[c].user
           n == call[c].number
           new == [user[u] EXCEPT !.password = n]
           meantRow == [wanted[u] EXCEPT !.password = n]
<1>1. /\ spot[c] = "password" /\ call[c] \in Call /\ u \in Users /\ u \in UserIds
  BY DEF ChangePassword, AccountsInv, AccountsTypeOK, CallsFit, Relies, Users
<1>2. wanted[u] \in User /\ user[u] \in User /\ n \in 0..MaxCalls
  BY <1>1 DEF AccountsInv, AccountsTypeOK, Call
<1>3. /\ Write(c, u, new, meantRow)
      /\ UNCHANGED <<revoked, expired, capacity, shrunk, calls, tangled, spent, hurried>>
  BY DEF ChangePassword
<1>4. new \in User /\ meantRow \in User /\ SameIdentity(new, user[u]) /\ new.link = user[u].link
  BY <1>2 DEF User, SameIdentity
<1>5. u \in tangled \/ new = meantRow
  BY <1>1 DEF AccountsInv, UserLossHasCause
<1>6. tangled \subseteq tangled' /\ tangled' \subseteq UserIds /\ spent' \in [1..MaxCalls -> Nat]
      /\ hurried' \subseteq 1..MaxCalls
  BY <1>3 DEF AccountsInv, AccountsTypeOK
<1> HIDE DEF u, n, new, meantRow
<1>7. LinksInOrder'
  BY <1>1, <1>3, <1>4, <1>6, LinksKept
<1> QED
  BY <1>1, <1>3, <1>4, <1>5, <1>6, <1>7, RowWrittenStep

LEMMA AskStep ==
  ASSUME AccountsInv, NEW c \in Callers, MakeLink(c)
  PROVE  AccountsInv'
<1> DEFINE u == call[c].user
           n == call[c].number
           new == [user[u] EXCEPT !.link = n]
           meantRow == [wanted[u] EXCEPT !.link = n]
<1>1. /\ spot[c] = "ask" /\ call[c] \in Call /\ u \in Users /\ u \in UserIds /\ n \in 1..calls
  BY DEF MakeLink, AccountsInv, AccountsTypeOK, CallsFit, Relies, Users
<1>2. wanted[u] \in User /\ user[u] \in User /\ n \in 0..MaxCalls
  BY <1>1 DEF AccountsInv, AccountsTypeOK, Call
<1>3. /\ Write(c, u, new, meantRow)
      /\ UNCHANGED <<revoked, expired, capacity, shrunk, calls, tangled, spent, hurried>>
  BY DEF MakeLink
<1>4. new \in User /\ meantRow \in User /\ SameIdentity(new, user[u]) /\ new.link = n
  BY <1>2 DEF User, SameIdentity
<1>5. u \in tangled \/ new = meantRow
  BY <1>1 DEF AccountsInv, UserLossHasCause
<1>6. tangled \subseteq tangled' /\ tangled' \subseteq UserIds /\ spent' \in [1..MaxCalls -> Nat]
      /\ hurried' \subseteq 1..MaxCalls
  BY <1>3 DEF AccountsInv, AccountsTypeOK
<1>7. LinksInOrder'
  <2> SUFFICES ASSUME tangled = {}
               PROVE  KnownLinks' /\ OneHolder' /\ ResetsItsHolder' /\ AskedIsFresh' /\ SpentIsGone'
    BY <1>3 DEF LinksInOrder
  <2>0. KnownLinks /\ OneHolder /\ ResetsItsHolder /\ AskedIsFresh /\ SpentIsGone
    BY DEF AccountsInv, LinksInOrder
  <2> HIDE DEF new, meantRow, u, n
  <2>1. user'[u].link = n /\ \A v \in UserIds : v # u => user'[v].link = user[v].link
    BY <1>1, <1>3, <1>4, SameUsers DEF Write
  <2>2. /\ call'[c] = NoCall
        /\ \A d \in Callers : d # c => /\ call'[d].user = call[d].user /\ call'[d].link = call[d].link
                                       /\ call'[d].number = call[d].number
    BY <1>1, <1>3, <1>4, WriteTells DEF Warned
  <2>3. spot'[c] = "idle" /\ \A d \in Callers : d # c => spot'[d] = spot[d]
    BY <1>3 DEF Write, AccountsInv, AccountsTypeOK
  <2>4. ~Held(n) /\ ~Resetting(n) /\ spent[n] = 0
    BY <1>1, <2>0 DEF AskedIsFresh, n
  <2>5. \A d \in Callers : d # c /\ spot[d] # "idle" => call[d].number # n
    BY <1>1 DEF AccountsInv, NumbersApart, n
  <2>6. calls \in Nat /\ calls' = calls
    BY <1>3, AccountsAssumption DEF AccountsInv, AccountsTypeOK
  <2>7. KnownLinks'
    BY <1>1, <1>3, <2>0, <2>1, <2>6 DEF KnownLinks
  <2>8. OneHolder'
    BY <2>0, <2>1, <2>4 DEF OneHolder, Held
  <2>9. ResetsItsHolder'
    BY <2>0, <2>1, <2>2, <2>3, <2>4 DEF ResetsItsHolder, Resetting
  <2>10. \A l : l # n /\ Held(l)' => Held(l)
    BY <2>1 DEF Held
  <2>11. \A l : Resetting(l)' => Resetting(l)
    BY <2>2, <2>3 DEF Resetting
  <2>12. AskedIsFresh'
    BY <1>3, <2>0, <2>2, <2>3, <2>5, <2>10, <2>11 DEF AskedIsFresh
  <2>13. SpentIsGone'
    BY <1>3, <2>0, <2>4, <2>10, <2>11 DEF SpentIsGone
  <2> QED
    BY <2>7, <2>8, <2>9, <2>12, <2>13
<1> HIDE DEF u, n, new, meantRow
<1> QED
  BY <1>1, <1>3, <1>4, <1>5, <1>6, <1>7, RowWrittenStep

LEMMA ResetStep ==
  ASSUME AccountsInv, NEW c \in Callers, ResetPassword(c)
  PROVE  AccountsInv'
<1> DEFINE u == call[c].user
           n == call[c].number
           l == call[c].link
           new == [user[u] EXCEPT !.password = n, !.link = 0]
           meantRow == [wanted[u] EXCEPT !.password = n, !.link = 0]
<1>1. /\ spot[c] = "reset" /\ call[c] \in Call /\ u \in Users /\ u \in UserIds /\ l \in 1..calls
  BY DEF ResetPassword, AccountsInv, AccountsTypeOK, CallsFit, Relies, Users
<1>2. wanted[u] \in User /\ user[u] \in User /\ n \in 0..MaxCalls /\ calls \in 0..MaxCalls
  BY <1>1 DEF AccountsInv, AccountsTypeOK, Call
<1>3. /\ Write(c, u, new, meantRow) /\ UNCHANGED <<revoked, expired, capacity, shrunk, calls, tangled>>
      /\ spent' = [spent EXCEPT ![l] = @ + 1]
      /\ hurried' = hurried \cup {k \in {l} : \E d \in Callers \ {c} : spot[d] = "reset" /\ call[d].link = k}
  BY DEF ResetPassword, Unlinked
<1>4. new \in User /\ meantRow \in User /\ SameIdentity(new, user[u]) /\ new.link = 0
  <2>1. 0 \in 0..MaxCalls
    BY AccountsAssumption
  <2> QED
    BY <1>2, <2>1 DEF User, SameIdentity
<1>5. u \in tangled \/ new = meantRow
  BY <1>1 DEF AccountsInv, UserLossHasCause
<1> HIDE DEF u, n, new, meantRow
<1>6. l \in 1..MaxCalls
  BY <1>1, <1>2, AccountsAssumption
<1>7. /\ spent \in [1..MaxCalls -> Nat] /\ spent' \in [1..MaxCalls -> Nat]
      /\ spent'[l] = spent[l] + 1 /\ \A k \in 1..MaxCalls : k # l => spent'[k] = spent[k]
  BY <1>3, <1>6 DEF AccountsInv, AccountsTypeOK
<1>8. tangled \subseteq tangled' /\ tangled' \subseteq UserIds /\ hurried' \subseteq 1..MaxCalls
  BY <1>3, <1>6 DEF AccountsInv, AccountsTypeOK
<1>9. LinksInOrder'
  <2> SUFFICES ASSUME tangled = {}
               PROVE  KnownLinks' /\ OneHolder' /\ ResetsItsHolder' /\ AskedIsFresh' /\ SpentIsGone'
    BY <1>3 DEF LinksInOrder
  <2>0. KnownLinks /\ OneHolder /\ ResetsItsHolder /\ AskedIsFresh /\ SpentIsGone
    BY DEF AccountsInv, LinksInOrder
  <2>1. user'[u].link = 0 /\ \A v \in UserIds : v # u => user'[v].link = user[v].link
    BY <1>1, <1>3, <1>4, SameUsers DEF Write
  <2>2. /\ call'[c] = NoCall
        /\ \A d \in Callers : d # c => /\ call'[d].user = call[d].user /\ call'[d].link = call[d].link
                                       /\ call'[d].number = call[d].number
    BY <1>1, <1>3, <1>4, WriteTells DEF Warned
  <2>3. spot'[c] = "idle" /\ \A d \in Callers : d # c => spot'[d] = spot[d]
    BY <1>3 DEF Write, AccountsInv, AccountsTypeOK
  <2>4. calls \in Nat /\ calls' = calls
    BY <1>2, <1>3, AccountsAssumption
  <2>5. \A d \in Callers : spot[d] = "reset" => call[d].link # 0
    BY DEF AccountsInv, CallsFit, Relies
  <2>6. \A d \in Callers : spot[d] = "ask" => call[d].number \in 1..MaxCalls /\ call[d].number # 0
    BY <1>2, <2>4, AccountsAssumption DEF AccountsInv, CallsFit, Relies
  <2>7. KnownLinks'
    BY <1>1, <1>7, <2>0, <2>1, <2>4 DEF KnownLinks
  <2>8. OneHolder'
    BY <2>0, <2>1 DEF OneHolder
  <2>9. ResetsItsHolder'
    BY <2>0, <2>1, <2>2, <2>3, <2>5 DEF ResetsItsHolder
  <2>10. \A k : k # 0 /\ Held(k)' => Held(k)
    BY <2>1 DEF Held
  <2>11. \A k : Resetting(k)' => Resetting(k)
    BY <2>2, <2>3 DEF Resetting
  <2>12. Resetting(l)
    BY <1>1 DEF Resetting
  <2>13. AskedIsFresh'
    <3>1. ASSUME NEW d \in Callers, spot'[d] = "ask"
          PROVE  LET k == call[d].number IN
                 k = call'[d].number /\ k # 0 /\ k # l /\ ~Held(k) /\ ~Resetting(k) /\ spent'[k] = 0
      BY <1>7, <2>0, <2>2, <2>3, <2>6, <2>12, <3>1 DEF AskedIsFresh
    <3> QED
      BY <2>10, <2>11, <3>1 DEF AskedIsFresh
  <2>14. SpentIsGone'
    <3> SUFFICES ASSUME NEW k \in 1..MaxCalls, spent'[k] # 0, k \notin hurried'
                 PROVE  spent'[k] = 1 /\ ~Held(k)' /\ ~Resetting(k)'
      BY DEF SpentIsGone
    <3>1. CASE k # l
      BY <1>3, <1>7, <2>0, <2>10, <2>11, <3>1 DEF SpentIsGone
    <3>2. CASE k = l
      <4>1. spent[l] = 0
        BY <1>3, <1>6, <2>0, <2>12, <3>2 DEF SpentIsGone
      <4>2. ~Resetting(k)'
        BY <1>3, <2>2, <2>3, <3>2 DEF Resetting
      <4>3. ~Held(k)'
        BY <1>1, <2>0, <2>1, <2>5, <3>2 DEF Held, ResetsItsHolder, u
      <4> QED
        BY <1>7, <3>2, <4>1, <4>2, <4>3
    <3> QED
      BY <3>1, <3>2
  <2> QED
    BY <2>7, <2>8, <2>9, <2>13, <2>14
<1> QED
  BY <1>1, <1>3, <1>4, <1>5, <1>7, <1>8, <1>9, RowWrittenStep
-----------------------------------------------------------------------------
SameEmail(c, d) ==
  call[d].email = call[c].email /\ spot[d] \in {"count", "limit", "insert", "company"}
SameCount(c, d) == call[d].company = call[c].company /\ spot[d] \in {"limit", "insert"}

LEMMA WarnTells ==
  ASSUME AccountsInv, NEW c \in Callers, NEW mine \in Call, Warn(c, mine)
  PROVE  /\ call' \in [Callers -> Call] /\ call'[c] = mine
         /\ \A d \in Callers : d # c => Warned(call[d], call'[d], FALSE, SameEmail(c, d), SameCount(c, d))
<1>1. ASSUME NEW d \in Callers, d # c
      PROVE  Warned(call[d], call'[d], FALSE, SameEmail(c, d), SameCount(c, d))
  <2> DEFINE p == SameEmail(c, d)
             q == SameCount(c, d)
  <2>1. call[d] \in Call /\ p \in BOOLEAN /\ q \in BOOLEAN
    BY DEF AccountsInv, AccountsTypeOK, SameEmail, SameCount
  <2>2. call'[d] = [call[d] EXCEPT !.twin = (@ \/ p), !.late = (@ \/ q)]
    BY <1>1 DEF Warn, SameEmail, SameCount
  <2> HIDE DEF p, q
  <2>3. ASSUME p, q PROVE Warned(call[d], call'[d], FALSE, p, q)
    BY <2>1, <2>2, <2>3 DEF Warned, Call
  <2>4. ASSUME p, ~q PROVE Warned(call[d], call'[d], FALSE, p, q)
    BY <2>1, <2>2, <2>4 DEF Warned, Call
  <2>5. ASSUME ~p, q PROVE Warned(call[d], call'[d], FALSE, p, q)
    BY <2>1, <2>2, <2>5 DEF Warned, Call
  <2>6. ASSUME ~p, ~q PROVE Warned(call[d], call'[d], FALSE, p, q)
    BY <2>1, <2>2, <2>6 DEF Warned, Call
  <2> QED
    BY <2>3, <2>4, <2>5, <2>6 DEF p, q
<1>2. call'[c] = mine
  BY DEF Warn
<1>3. \A d \in Callers : call'[d] \in Call
  BY <1>1, <1>2 DEF Warned
<1>4. call' = [d \in Callers |-> call'[d]]
  BY DEF Warn
<1> QED
  BY <1>1, <1>2, <1>3, <1>4

(* A new row: everyone who had found the e-mail unused, or had counted the company's
   users, is told, and the row is a twin, or late, only if its own request was. *)
LEMMA InsertStep ==
  ASSUME AccountsInv, NEW c \in Callers, NEW u \in NextUser, NEW row \in User,
         NEW s \in {"idle", "load"}, NEW mine \in Call,
         spot[c] \in {"insert", "company"},
         user' = [user EXCEPT ![u] = row], wanted' = [wanted EXCEPT ![u] = row],
         row.email = call[c].email, row.company = call[c].company, row.twin = call[c].twin,
         row.link = 0,
         spot' = [spot EXCEPT ![c] = s], Warn(c, mine), CallCourse(s, mine),
         s = "load" => mine.user = u /\ mine.number = call[c].number,
         EmailFree(call[c].email, call[c].company),
         call[c].company \in Companies =>
           row.late \/ Admits(call[c].company, Cardinality(Members(call[c].company))),
         UNCHANGED <<revoked, expired, capacity, shrunk, calls, tangled, spent, hurried>>
  PROVE  AccountsInv'
<1> DEFINE e == call[c].email
           m == call[c].company
<1>1. u \in UserIds /\ u \notin Users /\ Users \subseteq UserIds
  BY DEF NextUser, Users
<1>2. call[c] \in Call /\ CallCourse(spot[c], call[c]) /\ Relies(spot[c], call[c], calls)
  BY DEF AccountsInv, AccountsTypeOK, CallsFit
<1>3. e \in Emails /\ e # Nil /\ (~row.twin => WithEmail(e) = {})
  BY <1>2, AccountsAssumption DEF CallCourse, Relies
<1> HIDE DEF e, m
<1>4. /\ user' \in [UserIds -> User] /\ user'[u] = row
      /\ \A v \in UserIds : v # u => user'[v] = user[v]
  BY <1>1 DEF AccountsInv, AccountsTypeOK
<1>5. /\ wanted' \in [UserIds -> User] /\ wanted'[u] = row
      /\ \A v \in UserIds : v # u => wanted'[v] = wanted[v]
  BY <1>1 DEF AccountsInv, AccountsTypeOK
<1>6. /\ spot' \in [Callers -> Spots] /\ spot'[c] = s
      /\ \A d \in Callers : d # c => spot'[d] = spot[d]
  BY DEF Spots, AccountsInv, AccountsTypeOK
<1>7. /\ call' \in [Callers -> Call] /\ call'[c] = mine
      /\ \A d \in Callers : d # c => Warned(call[d], call'[d], FALSE, SameEmail(c, d), SameCount(c, d))
  BY WarnTells
<1>8. row.email = e /\ row.company = m
  BY DEF e, m
<1>9. Users' = Users \cup {u}
  BY <1>1, <1>3, <1>4, <1>8 DEF Users
<1>10. \A f : f # e => WithEmail(f)' = WithEmail(f)
  BY <1>1, <1>4, <1>8, <1>9 DEF WithEmail
<1>11. \A t : t # m => Members(t)' = Members(t)
  BY <1>1, <1>4, <1>8, <1>9 DEF Members
<1>12. AccountsTypeOK'
  BY <1>4, <1>5, <1>6, <1>7 DEF AccountsInv, AccountsTypeOK
<1>13. CallsFit'
  <2>1. \A d \in Callers : CallCourse(spot'[d], call'[d])
    BY <1>6, <1>7 DEF AccountsInv, CallsFit, CallCourse, Warned
  <2>2. \A d \in Callers : spot'[d] # "idle" => call'[d].number \in 1..calls
    BY <1>2, <1>6, <1>7 DEF AccountsInv, CallsFit, Relies, Warned
  <2>3. \A d \in Callers : spot'[d] \in {"load", "find_role", "save", "password", "ask", "reset"} =>
          call'[d].user \in Users'
    BY <1>6, <1>7, <1>9 DEF AccountsInv, CallsFit, Relies, Warned
  <2>4. \A d \in Callers : spot'[d] \in {"find_link", "reset"} => call'[d].link \in 1..calls
    BY <1>6, <1>7 DEF AccountsInv, CallsFit, Relies, Warned
  <2>5. ASSUME NEW d \in Callers, spot'[d] \in {"find_role", "save"}
        PROVE  /\ SameIdentity(call'[d].copy, user'[call'[d].user])
               /\ call'[d].outdated \/ call'[d].copy = user'[call'[d].user]
    <3>1. d # c /\ spot[d] = spot'[d] /\ call'[d].copy = call[d].copy /\ call'[d].user = call[d].user
          /\ (call[d].outdated => call'[d].outdated)
      BY <1>6, <1>7, <2>5 DEF Warned
    <3>2. /\ SameIdentity(call[d].copy, user[call[d].user]) /\ call[d].user \in Users
          /\ call[d].outdated \/ call[d].copy = user[call[d].user]
      BY <2>5, <3>1 DEF AccountsInv, CallsFit, Relies
    <3> QED
      BY <1>1, <1>4, <3>1, <3>2
  <2>6. ASSUME NEW d \in Callers, spot'[d] \in {"count", "limit", "insert", "company"}, ~call'[d].twin
        PROVE  {v \in Users' : user'[v].email = call'[d].email} = {}
    <3>1. d # c /\ spot[d] = spot'[d] /\ call'[d].email = call[d].email /\ ~call[d].twin /\ call[d].email # e
      BY <1>6, <1>7, <2>6 DEF Warned, SameEmail, e
    <3>2. WithEmail(call[d].email) = {}
      BY <2>6, <3>1 DEF AccountsInv, CallsFit, Relies
    <3> QED
      BY <1>1, <1>4, <1>8, <1>9, <3>1, <3>2 DEF WithEmail
  <2>7. ASSUME NEW d \in Callers, spot'[d] = "insert", call'[d].kind = "register",
               call'[d].company # Nil, ~call'[d].late
        PROVE  Admits(call'[d].company, Cardinality({v \in Users' : user'[v].company = call'[d].company}))
    <3>1. d # c /\ spot[d] = "insert" /\ call'[d].company = call[d].company /\ ~call[d].late
          /\ call[d].kind = "register" /\ call[d].company # m
      BY <1>6, <1>7, <2>7 DEF Warned, SameCount, m
    <3>2. Admits(call[d].company, Cardinality(Members(call[d].company)))
      BY <2>7, <3>1 DEF AccountsInv, CallsFit, Relies
    <3>3. {v \in Users' : user'[v].company = call'[d].company} = Members(call[d].company)
      BY <1>1, <1>4, <1>8, <1>9, <3>1 DEF Members
    <3> QED
      BY <3>1, <3>2, <3>3
  <2>8. ASSUME NEW d \in Callers, spot'[d] = "limit", ~call'[d].late
        PROVE  call'[d].counted = Cardinality({v \in Users' : user'[v].company = call'[d].company})
    <3>1. d # c /\ spot[d] = "limit" /\ call'[d].company = call[d].company /\ ~call[d].late
          /\ call'[d].counted = call[d].counted /\ call[d].company # m
      BY <1>6, <1>7, <2>8 DEF Warned, SameCount, m
    <3>2. call[d].counted = Cardinality(Members(call[d].company))
      BY <2>8, <3>1 DEF AccountsInv, CallsFit, Relies
    <3>3. {v \in Users' : user'[v].company = call'[d].company} = Members(call[d].company)
      BY <1>1, <1>4, <1>8, <1>9, <3>1 DEF Members
    <3> QED
      BY <3>1, <3>2, <3>3
  <2> QED
    BY <2>1, <2>2, <2>3, <2>4, <2>5, <2>6, <2>7, <2>8 DEF CallsFit, Relies, WithEmail, Members, Admits
<1>14. NumbersApart'
  BY <1>6, <1>7 DEF AccountsInv, NumbersApart, Warned
<1>15. BlankRows'
  BY <1>4, <1>9, FS_AddElement DEF AccountsInv, BlankRows
<1>16. UserLossHasCause'
  BY <1>1, <1>4, <1>5, <1>9 DEF AccountsInv, UserLossHasCause
<1>17. TwinsHaveCause'
  <2>1. ASSUME NEW v \in Users, user[v].email = e
        PROVE  row.twin /\ (m = Nil \/ user[v].company # m)
    BY <1>3, <2>1 DEF WithEmail, EmailFree, Members, e, m
  <2>2. \A v \in Users : user'[v] = user[v]
    BY <1>1, <1>4
  <2>3. ASSUME NEW v \in Users', NEW w \in Users', v # w, user'[v].email = user'[w].email
        PROVE  /\ user'[v].twin \/ user'[w].twin
               /\ user'[v].company = Nil \/ user'[v].company # user'[w].company
    <3>1. CASE v = u
      BY <1>4, <1>8, <1>9, <2>1, <2>2, <2>3, <3>1
    <3>2. CASE w = u
      BY <1>4, <1>8, <1>9, <2>1, <2>2, <2>3, <3>2
    <3>3. CASE v # u /\ w # u
      BY <1>9, <2>2, <2>3, <3>3 DEF AccountsInv, TwinsHaveCause
    <3> QED
      BY <3>1, <3>2, <3>3
  <2>4. ASSUME NEW t \in Companies, capacity[t] # 0, Cardinality(Members(t)') > capacity[t],
               t \notin shrunk
        PROVE  \E v \in Members(t)' : user'[v].late
    <3>1. CASE t # m
      <4>1. Members(t)' = Members(t) /\ Members(t) \subseteq Users
        BY <1>11, <3>1 DEF Members
      <4> QED
        BY <2>2, <2>4, <4>1 DEF AccountsInv, TwinsHaveCause
    <3>2. CASE t = m
      <4>1. Members(t)' = Members(t) \cup {u} /\ u \notin Members(t) /\ Members(t) \subseteq Users
        BY <1>1, <1>4, <1>8, <1>9, <3>2 DEF Members
      <4>2. IsFiniteSet(Members(t))
        BY <4>1, FS_Subset DEF AccountsInv, BlankRows
      <4>3. Cardinality(Members(t)') = Cardinality(Members(t)) + 1 /\ Cardinality(Members(t)) \in Nat
        <5> DEFINE before == Members(t)
        <5>1. IsFiniteSet(before) /\ u \notin before /\ Members(t)' = before \cup {u}
          BY <4>1, <4>2
        <5> HIDE DEF before
        <5>2. Cardinality(before) \in Nat /\ Cardinality(before \cup {u}) = Cardinality(before) + 1
          BY <5>1, FS_AddElement, FS_CardinalityType
        <5> QED
          BY <5>1, <5>2 DEF before
      <4>4. row.late \/ Admits(t, Cardinality(Members(t)))
        <5>1. m \in Companies => row.late \/ Admits(m, Cardinality(Members(m)))
          BY DEF m
        <5> QED
          BY <3>2, <5>1
      <4>5. row.late
        <5>1. capacity[t] \in Nat
          BY AccountsAssumption DEF AccountsInv, AccountsTypeOK
        <5> QED
          BY <2>4, <4>3, <4>4, <5>1 DEF Admits
      <4> QED
        BY <1>4, <4>1, <4>5
    <3> QED
      BY <3>1, <3>2
  <2> QED
    BY <2>3, <2>4 DEF TwinsHaveCause
<1>18. LinksInOrder'
  <2>1. \A v \in UserIds : user'[v].link = user[v].link
    BY <1>1, <1>4 DEF AccountsInv, BlankRows, NoUser
  <2>2. \A d \in Callers : spot'[d] \in {"ask", "reset"} =>
          /\ spot[d] = spot'[d] /\ call'[d].user = call[d].user /\ call'[d].link = call[d].link
          /\ call'[d].number = call[d].number
    BY <1>6, <1>7 DEF Warned
  <2>3. \A l : Held(l)' => Held(l)
    BY <2>1 DEF Held
  <2>4. \A l : Resetting(l)' => Resetting(l)
    BY <2>2 DEF Resetting
  <2>5. KnownLinks => KnownLinks'
    BY <2>1 DEF KnownLinks
  <2>6. OneHolder => OneHolder'
    BY <2>1 DEF OneHolder
  <2>7. ResetsItsHolder => ResetsItsHolder'
    BY <2>1, <2>2 DEF ResetsItsHolder
  <2>8. AskedIsFresh => AskedIsFresh'
    BY <2>2, <2>3, <2>4 DEF AskedIsFresh
  <2>9. SpentIsGone => SpentIsGone'
    BY <2>3, <2>4 DEF SpentIsGone
  <2> QED
    BY <2>5, <2>6, <2>7, <2>8, <2>9 DEF AccountsInv, LinksInOrder
<1> QED
  BY <1>12, <1>13, <1>14, <1>15, <1>16, <1>17, <1>18 DEF AccountsInv

LEMMA NewRowTyped ==
  ASSUME NEW c \in Callers, call[c] \in Call, NEW active \in BOOLEAN, NEW super \in BOOLEAN
  PROVE  /\ NewRow(c, active, super) \in User /\ NewRow(c, active, super).email = call[c].email
         /\ NewRow(c, active, super).company = call[c].company /\ NewRow(c, active, super).twin = call[c].twin
         /\ NewRow(c, active, super).link = 0
         /\ call[c].late \/ call[c].kind = "invite" => NewRow(c, active, super).late
<1> DEFINE late == call[c].late \/ call[c].kind = "invite"
<1>1. late \in BOOLEAN /\ call[c].email \in Emails \cup {Nil} /\ call[c].company \in Places
      /\ call[c].number \in 0..MaxCalls /\ call[c].twin \in BOOLEAN
  BY DEF Call
<1> HIDE DEF late
<1>2. NewRow(c, active, super) =
        [NoUser EXCEPT !.email = call[c].email, !.company = call[c].company,
                       !.password = call[c].number, !.active = active, !.super = super,
                       !.twin = call[c].twin, !.late = late]
  BY DEF NewRow, late
<1>3. NoUser.link = 0
  BY DEF NoUser
<1>4. /\ NewRow(c, active, super) \in User /\ NewRow(c, active, super).email = call[c].email
      /\ NewRow(c, active, super).company = call[c].company /\ NewRow(c, active, super).twin = call[c].twin
      /\ NewRow(c, active, super).link = NoUser.link /\ NewRow(c, active, super).late = late
  BY <1>1, <1>2, NoCallTyped DEF User
<1> QED
  BY <1>3, <1>4 DEF late

LEMMA InsertUserStep ==
  ASSUME AccountsInv, NEW c \in Callers, InsertUser(c)
  PROVE  AccountsInv'
<1>0. /\ spot[c] = "insert" /\ call[c] \in Call /\ CallCourse(spot[c], call[c])
      /\ Relies(spot[c], call[c], calls)
      /\ UNCHANGED <<revoked, expired, capacity, shrunk, calls, tangled, spent, hurried>>
  BY DEF InsertUser, AccountsInv, AccountsTypeOK, CallsFit
<1>1. CASE HangUp(c) /\ UNCHANGED <<user, wanted>>
  BY <1>0, <1>1, HangUpStep
<1>2. CASE EmailFree(call[c].email, call[c].company)
  <2> DEFINE goesOn == call[c].kind = "invite" /\ call[c].role # Nil
             active == call[c].kind \in {"invite", "super"}
  <2>0. PICK u \in NextUser, super \in Ranks(c) :
          /\ user' = [user EXCEPT ![u] = NewRow(c, active, super)]
          /\ wanted' = [wanted EXCEPT ![u] = user'[u]]
          /\ spot' = [spot EXCEPT ![c] = IF goesOn THEN "load" ELSE "idle"]
          /\ Warn(c, IF goesOn THEN [call[c] EXCEPT !.kind = "assign", !.user = u, !.twin = FALSE]
                     ELSE NoCall)
    BY <1>2 DEF InsertUser
  <2> DEFINE row == NewRow(c, active, super)
  <2>1. /\ user' = [user EXCEPT ![u] = row]
        /\ wanted' = [wanted EXCEPT ![u] = user'[u]]
        /\ spot' = [spot EXCEPT ![c] = IF goesOn THEN "load" ELSE "idle"]
        /\ Warn(c, IF goesOn THEN [call[c] EXCEPT !.kind = "assign", !.user = u, !.twin = FALSE]
                   ELSE NoCall)
    BY <2>0
  <2>2. u \in UserIds
    BY <2>1 DEF NextUser, Users
  <2>3. active \in BOOLEAN /\ super \in BOOLEAN
    <3>1. Ranks(c) \subseteq BOOLEAN
      BY DEF Ranks
    <3>2. active \in BOOLEAN
      OBVIOUS
    <3> HIDE DEF active
    <3> QED
      BY <3>1, <3>2
  <2>4. row \in User /\ row.email = call[c].email /\ row.company = call[c].company
        /\ row.twin = call[c].twin /\ row.link = 0
        /\ (call[c].late \/ call[c].kind = "invite" => row.late)
    BY <1>0, <2>3, NewRowTyped
  <2>5. wanted' = [wanted EXCEPT ![u] = row]
    BY <2>1, <2>2 DEF AccountsInv, AccountsTypeOK
  <2>6. call[c].company \in Companies =>
          row.late \/ Admits(call[c].company, Cardinality(Members(call[c].company)))
    BY <1>0, <2>4, AccountsAssumption DEF CallCourse, Relies
  <2> HIDE DEF row
  <2>7. CASE goesOn
    <3> DEFINE mine == [call[c] EXCEPT !.kind = "assign", !.user = u, !.twin = FALSE]
    <3>1. mine \in Call /\ mine.kind = "assign" /\ mine.user = u /\ mine.number = call[c].number
          /\ mine.role = call[c].role
      BY <1>0, <2>2 DEF Call
    <3>2. call[c].role \in RoleIds
      BY <1>0, <2>7 DEF Call
    <3>3. Warn(c, mine) /\ spot' = [spot EXCEPT ![c] = "load"]
      BY <2>1, <2>7
    <3> HIDE DEF mine
    <3>4. CallCourse("load", mine)
      BY <3>1, <3>2 DEF CallCourse
    <3> QED
      BY <1>0, <1>2, <2>1, <2>4, <2>5, <2>6, <3>1, <3>3, <3>4, InsertStep
  <2>8. CASE ~goesOn
    <3>1. Warn(c, NoCall) /\ spot' = [spot EXCEPT ![c] = "idle"]
      BY <2>1, <2>8
    <3> QED
      BY <1>0, <1>2, <2>1, <2>4, <2>5, <2>6, <3>1, NoCallTyped, NoCallFits, InsertStep
  <2> QED
    BY <2>7, <2>8
<1> QED
  BY <1>1, <1>2 DEF InsertUser

LEMMA CompanyStep ==
  ASSUME AccountsInv, NEW c \in Callers, RegisterCompany(c)
  PROVE  AccountsInv'
<1>0. /\ spot[c] = "company" /\ call[c] \in Call /\ CallCourse(spot[c], call[c])
      /\ UNCHANGED <<revoked, expired, capacity, shrunk, calls, tangled, spent, hurried>>
  BY DEF RegisterCompany, AccountsInv, AccountsTypeOK, CallsFit
<1>1. CASE HangUp(c) /\ UNCHANGED <<user, wanted>>
  BY <1>0, <1>1, HangUpStep
<1>2. CASE Members(call[c].company) = {}
  <2> DEFINE row == NewRow(c, TRUE, FALSE)
  <2>1. PICK u \in NextUser :
          /\ user' = [user EXCEPT ![u] = row]
          /\ wanted' = [wanted EXCEPT ![u] = user'[u]]
          /\ spot' = [spot EXCEPT ![c] = "idle"] /\ Warn(c, NoCall)
    BY <1>2 DEF RegisterCompany
  <2>2. u \in UserIds
    BY <2>1 DEF NextUser, Users
  <2>3. row \in User /\ row.email = call[c].email /\ row.company = call[c].company
        /\ row.twin = call[c].twin /\ row.link = 0
    BY <1>0, NewRowTyped
  <2>4. wanted' = [wanted EXCEPT ![u] = row]
    BY <2>1, <2>2 DEF AccountsInv, AccountsTypeOK
  <2>5. call[c].company \in Companies =>
          Admits(call[c].company, Cardinality(Members(call[c].company)))
    <3>1. Cardinality(Members(call[c].company)) = 0
      BY <1>2, FS_EmptySet
    <3> SUFFICES ASSUME call[c].company \in Companies
                 PROVE  Admits(call[c].company, Cardinality(Members(call[c].company)))
      OBVIOUS
    <3>2. capacity[call[c].company] \in Nat
      BY AccountsAssumption DEF AccountsInv, AccountsTypeOK
    <3> QED
      BY <3>1, <3>2 DEF Admits
  <2>6. EmailFree(call[c].email, call[c].company)
    BY <1>2 DEF EmailFree
  <2> HIDE DEF row
  <2> QED
    BY <1>0, <2>1, <2>3, <2>4, <2>5, <2>6, NoCallTyped, NoCallFits, InsertStep
<1> QED
  BY <1>1, <1>2 DEF RegisterCompany
-----------------------------------------------------------------------------
(* A change of plan: who was admitted by the old limit is told. *)
LEMMA ChangePlanStep ==
  ASSUME AccountsInv, ChangePlan
  PROVE  AccountsInv'
<1>1. PICK m \in Companies, n \in 0..MaxUsers :
        /\ capacity' = [capacity EXCEPT ![m] = n]
        /\ shrunk' = IF Cardinality(Members(m)) > n /\ n # 0 THEN shrunk \cup {m} ELSE shrunk \ {m}
        /\ call' = [d \in Callers |-> [call[d] EXCEPT
                     !.late = (@ \/ (spot[d] = "insert" /\ call[d].company = m))]]
  BY DEF ChangePlan
<1>2. /\ UNCHANGED <<user, revoked, expired, spot, wanted, tangled, spent, hurried>>
      /\ calls \in Nat /\ calls' \in 0..MaxCalls /\ calls <= calls'
  BY AccountsAssumption DEF ChangePlan, AccountsInv, AccountsTypeOK
<1>3. /\ capacity' \in [Companies -> 0..MaxUsers] /\ capacity'[m] = n
      /\ \A t \in Companies : t # m => capacity'[t] = capacity[t]
  BY <1>1 DEF AccountsInv, AccountsTypeOK
<1>4. ASSUME NEW d \in Callers
      PROVE  Warned(call[d], call'[d], FALSE, FALSE, spot[d] = "insert" /\ call[d].company = m)
  <2> DEFINE p == spot[d] = "insert" /\ call[d].company = m
  <2>1. call[d] \in Call /\ p \in BOOLEAN
    BY DEF AccountsInv, AccountsTypeOK
  <2>2. call'[d] = [call[d] EXCEPT !.late = (@ \/ p)]
    BY <1>1
  <2> HIDE DEF p
  <2>3. ASSUME p PROVE Warned(call[d], call'[d], FALSE, FALSE, p)
    BY <2>1, <2>2, <2>3 DEF Warned, Call
  <2>4. ASSUME ~p PROVE Warned(call[d], call'[d], FALSE, FALSE, p)
    BY <2>1, <2>2, <2>4 DEF Warned, Call
  <2> QED
    BY <2>3, <2>4 DEF p
<1>5. call' \in [Callers -> Call]
  BY <1>1, <1>4 DEF Warned
<1>6. AccountsTypeOK'
  BY <1>1, <1>2, <1>3, <1>5 DEF AccountsInv, AccountsTypeOK
<1>7. CallsFit'
  <2>1. \A d \in Callers : CallCourse(spot[d], call'[d])
    BY <1>4 DEF AccountsInv, CallsFit, CallCourse, Warned
  <2>2. ASSUME NEW d \in Callers
        PROVE  Relies(spot[d], call'[d], calls)
    <3> DEFINE told == spot[d] = "insert" /\ call[d].company = m
    <3>1. Warned(call[d], call'[d], FALSE, FALSE, told) /\ Relies(spot[d], call[d], calls)
      BY <1>4 DEF AccountsInv, CallsFit
    <3> QED
      BY <3>1 DEF Relies, Warned
  <2>3. ASSUME NEW d \in Callers, Relies(spot[d], call'[d], calls)
        PROVE  Relies(spot[d], call[d], calls)'
    <3>1. CASE spot[d] = "insert" /\ call[d].company = m
      <4>1. call'[d].late
        BY <1>4, <3>1 DEF Warned
      <4> QED
        BY <1>2, <2>3, <3>1, <4>1 DEF Relies, Users, WithEmail, Members
    <3>2. CASE spot[d] = "insert" /\ call[d].company # m
      <4>1. call'[d].company = call[d].company /\ call'[d] \in Call
        BY <1>4 DEF Warned
      <4>2. call'[d].company # Nil => call'[d].company \in Companies
        BY <4>1 DEF Call, Places
      <4>3. call'[d].company # Nil => capacity'[call'[d].company] = capacity[call'[d].company]
        BY <1>3, <3>2, <4>1, <4>2
      <4> QED
        BY <1>2, <2>3, <3>2, <4>3 DEF Relies, Users, WithEmail, Members, Admits
    <3>3. CASE spot[d] # "insert"
      BY <1>2, <2>3, <3>3 DEF Relies, Users, WithEmail, Members
    <3> QED
      BY <3>1, <3>2, <3>3
  <2> QED
    BY <1>2, <2>1, <2>2, <2>3 DEF CallsFit
<1>8. NumbersApart'
  BY <1>2, <1>4 DEF AccountsInv, NumbersApart, Warned
<1>9. BlankRows' /\ UserLossHasCause'
  BY <1>2 DEF AccountsInv, BlankRows, UserLossHasCause, Users
<1>10. TwinsHaveCause'
  <2>1. \A u, v \in Users : u # v /\ user[u].email = user[v].email =>
          /\ user[u].twin \/ user[v].twin
          /\ user[u].company = Nil \/ user[u].company # user[v].company
    BY DEF AccountsInv, TwinsHaveCause
  <2>2. ASSUME NEW t \in Companies, capacity'[t] # 0, Cardinality(Members(t)) > capacity'[t]
        PROVE  t \in shrunk' \/ \E u \in Members(t) : user[u].late
    <3>1. CASE t = m
      BY <1>1, <1>3, <2>2, <3>1
    <3>2. CASE t # m
      BY <1>1, <1>3, <2>2, <3>2 DEF AccountsInv, TwinsHaveCause
    <3> QED
      BY <3>1, <3>2
  <2> QED
    BY <1>2, <2>1, <2>2 DEF TwinsHaveCause, Members, Users
<1>11. LinksInOrder'
  <2> SUFFICES ASSUME tangled = {}
               PROVE  KnownLinks' /\ OneHolder' /\ ResetsItsHolder' /\ AskedIsFresh' /\ SpentIsGone'
    BY <1>2 DEF LinksInOrder
  <2>0. KnownLinks /\ OneHolder /\ ResetsItsHolder /\ AskedIsFresh /\ SpentIsGone
    BY DEF AccountsInv, LinksInOrder
  <2>1. \A d \in Callers : call'[d].user = call[d].user /\ call'[d].link = call[d].link
                           /\ call'[d].number = call[d].number
    BY <1>4 DEF Warned
  <2>2. \A u \in UserIds : user[u].link \in Nat
    BY AccountsAssumption DEF AccountsInv, AccountsTypeOK, User
  <2>3. KnownLinks'
    BY <1>2, <2>0, <2>2, AccountsAssumption DEF KnownLinks
  <2>4. OneHolder' /\ ResetsItsHolder'
    BY <1>2, <2>0, <2>1 DEF OneHolder, ResetsItsHolder
  <2>5. \A l : (Held(l)' => Held(l)) /\ (Resetting(l)' => Resetting(l))
    BY <1>2, <2>1 DEF Held, Resetting
  <2>6. AskedIsFresh'
    BY <1>2, <2>0, <2>1, <2>5 DEF AskedIsFresh
  <2>7. SpentIsGone'
    BY <1>2, <2>0, <2>5 DEF SpentIsGone
  <2> QED
    BY <2>3, <2>4, <2>6, <2>7
<1> QED
  BY <1>6, <1>7, <1>8, <1>9, <1>10, <1>11 DEF AccountsInv

LEMMA AccountsNextInv == AccountsInv /\ [AccountsNext]_accountVars => AccountsInv'
<1> SUFFICES ASSUME AccountsInv, [AccountsNext]_accountVars PROVE AccountsInv'
  OBVIOUS
<1>1. CASE DeactivateRole \/ LinkExpires
  BY <1>1, AsideStep
<1>2. ASSUME NEW c \in Callers,
             BeginAccount(c) \/ BeginSuper(c) \/ BeginRole(c) \/ BeginPassword(c) \/ BeginForgot(c)
             \/ BeginReset(c)
      PROVE  AccountsInv'
  BY <1>2, BeginStep
<1>3. ASSUME NEW c \in Callers, FindEmail(c) \/ FindSuper(c) \/ CountUsers(c) \/ CheckCapacity(c)
      PROVE  AccountsInv'
  BY <1>3, LookStep
<1>4. ASSUME NEW c \in Callers, InsertUser(c) \/ RegisterCompany(c) PROVE AccountsInv'
  BY <1>4, InsertUserStep, CompanyStep
<1>5. ASSUME NEW c \in Callers, LoadUser(c) \/ FindRole(c) PROVE AccountsInv'
  BY <1>5, LoadUserStep
<1>6. ASSUME NEW c \in Callers, SaveUser(c) \/ ChangePassword(c) PROVE AccountsInv'
  BY <1>6, SaveStep, PasswordStep
<1>7. ASSUME NEW c \in Callers, MakeLink(c) \/ ResetPassword(c) PROVE AccountsInv'
  BY <1>7, AskStep, ResetStep
<1>8. ASSUME NEW c \in Callers, FindLink(c) PROVE AccountsInv'
  BY <1>8, FindLinkStep
<1>9. ASSUME NEW c \in Callers, Drop(c) PROVE AccountsInv'
  BY <1>9, HangUpStep DEF Drop, Still
<1>10. CASE UNCHANGED accountVars
  <2>1. AccountsTypeOK' /\ NumbersApart' /\ BlankRows' /\ UserLossHasCause' /\ TwinsHaveCause'
    BY <1>10 DEF AccountsInv, accountVars, AccountsTypeOK, NumbersApart, BlankRows, UserLossHasCause,
       TwinsHaveCause, Users, Members
  <2>2. CallsFit'
    BY <1>10 DEF AccountsInv, accountVars, CallsFit, Relies, Users, WithEmail, Members, Admits
  <2>3. LinksInOrder'
    BY <1>10 DEF AccountsInv, accountVars, LinksInOrder, KnownLinks, OneHolder, ResetsItsHolder,
       AskedIsFresh, SpentIsGone, Held, Resetting
  <2> QED
    BY <2>1, <2>2, <2>3 DEF AccountsInv
<1>11. CASE ChangePlan
  BY <1>11, ChangePlanStep
<1> QED
  BY <1>1, <1>2, <1>3, <1>4, <1>5, <1>6, <1>7, <1>8, <1>9, <1>10, <1>11 DEF AccountsNext

LEMMA LinkOnce == AccountsInv => LinkWorksOnce
<1> SUFFICES ASSUME AccountsInv, NEW l \in 1..MaxCalls, spent[l] > 1, l \notin hurried, tangled = {}
             PROVE  FALSE
  BY DEF LinkWorksOnce
<1>1. spent[l] \in Nat
  BY DEF AccountsInv, AccountsTypeOK
<1> QED
  BY <1>1 DEF AccountsInv, LinksInOrder, SpentIsGone
-----------------------------------------------------------------------------

LEMMA AccountsInvariance == AccountsSpec => []AccountsInv
  BY AccountsInitInv, AccountsNextInv, PTL DEF AccountsSpec

(* For any number of users, companies, roles and requests, every row, link and request
   in progress has its type (user.entity.ts, auth.service.ts, users.service.ts). *)
THEOREM AccountsTyped == AccountsSpec => []AccountsTypeOK
<1>1. AccountsInv => AccountsTypeOK
  BY DEF AccountsInv
<1> QED
  BY <1>1, AccountsInvariance, PTL

(* A user's password, link or roles differ from what the requests about them asked for
   only if a change of roles saved a copy that another request had outdated
   (users.service.ts:142-167). *)
THEOREM UserLossesHaveCause == AccountsSpec => []UserLossHasCause
<1>1. AccountsInv => UserLossHasCause
  BY DEF AccountsInv
<1> QED
  BY <1>1, AccountsInvariance, PTL

(* As long as no stale copy has brought a link back, a link that set two passwords was
   accepted by two resets at once (auth.service.ts:125-156). *)
THEOREM LinksWorkOnce == AccountsSpec => []LinkWorksOnce
  BY LinkOnce, AccountsInvariance, PTL

(* Two accounts share an e-mail only through creations that overlapped, an
   administrator's, or the super administrator's at an address in use, and never within
   one company; a company exceeds its plan only through creations that overlapped each
   other or a change of plan, an administrator's, or a plan that admits fewer users than
   it had (auth.service.ts:217-231, 281-317; users.service.ts:177-206;
   subscriptions.service.ts:141-184). *)
THEOREM TwinsHaveACause == AccountsSpec => []TwinsHaveCause
<1>1. AccountsInv => TwinsHaveCause
  BY DEF AccountsInv
<1> QED
  BY <1>1, AccountsInvariance, PTL

(* Types and the causes of twins together, as they are checked. *)
THEOREM AccountsCorrect == AccountsSpec => []AccountsHold
  BY AccountsTyped, TwinsHaveACause, PTL DEF AccountsHold
=============================================================================
