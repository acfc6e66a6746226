------------------------------ MODULE Tenancy ------------------------------
(***************************************************************************)
(* One company workspace: tenants.service.ts and                           *)
(* tenant-verification-storage.service.ts.  Members set the workspace up   *)
(* and apply for verification, administrators of the platform approve or   *)
(* reject the application they looked at, and the onboarding seeds the     *)
(* entities and the workflow of a blueprint, swallowing every error.       *)
(***************************************************************************)
EXTENDS Naturals, Sequences, FiniteSets

CONSTANTS
  Actors, Nobody,
  Files,      \* ids of uploaded documents, as many as the uploads of a run may use
  Blueprints, \* the template ids an onboarding may choose
  MaxVisits   \* requests; also the values settings are given

VARIABLES
  tenant,      \* the row
  disk,        \* files under uploads/verification
  slugs, flows,\* entity definitions; seeded workflows of each blueprint
  audit,       \* verdicts in the audit log
  stage, work, visits,
  asked,       \* history: the last value asked for of each setting
  crossed,     \* history: settings were saved from a copy another save had outdated
  accepted,    \* history: the documents the last approval was about
  unseen,      \* history: documents came in between a look and its approval
  reopened,    \* history: an onboarding came after the last verdict
  dropped,     \* history: entity definitions removed
  failed,      \* history: requests that failed after their update
  verdicts     \* history: the verdicts written to the row, with their requests

ASSUME VisitsAssumption == MaxVisits \in Nat

tenancyVars == <<tenant, disk, slugs, flows, audit, stage, work, visits, asked, crossed,
                 accepted, unseen, reopened, dropped, failed, verdicts>>
-----------------------------------------------------------------------------
(* seedBlueprint: the definitions each blueprint creates before its workflow. *)
CrmEntities == <<"leads", "deals">>
InventoryEntities == <<"products", "suppliers">>
StandardEntities == <<"clients", "products">>
EntitiesOf(b) == CASE b = "crm" -> CrmEntities
                   [] b = "inventory" -> InventoryEntities
                   [] OTHER -> StandardEntities
Elements(seq) == {seq[i] : i \in DOMAIN seq}
Slugs == UNION {Elements(EntitiesOf(b)) : b \in Blueprints}

(* The parts of tenant.settings that different requests write. *)
Parts == {"industry", "regional", "profile"}
Settings == [Parts -> 0..MaxVisits]
Tenant == [status : {"pending_verification", "active", "rejected"},
           verification : {"pending", "submitted", "approved", "rejected"},
           reason : BOOLEAN, onboarded : BOOLEAN, settings : Settings,
           documents : SUBSET Files]
Tasks == {"none", "onboard", "settings", "submit", "link", "approve", "reject"}
Stages == {"idle", "load", "store", "update", "seed", "seed_flow", "audit"}
Work == [task : Tasks, copy : Settings, files : SUBSET Files, seen : SUBSET Files,
         blueprint : Blueprints \cup {Nobody}, left : 0..2, value : 0..MaxVisits,
         outdated : BOOLEAN, stale : BOOLEAN]
NoWork == [task |-> "none", copy |-> [x \in Parts |-> 0], files |-> {}, seen |-> {},
           blueprint |-> Nobody, left |-> 0, value |-> 0, outdated |-> FALSE, stale |-> FALSE]

TenancyTypeOK ==
  /\ tenant \in Tenant /\ disk \subseteq Files /\ slugs \subseteq Slugs
  /\ flows \in [Blueprints -> Nat] /\ audit \subseteq (1..MaxVisits) \X {"approve", "reject"}
  /\ stage \in [Actors -> Stages] /\ work \in [Actors -> Work] /\ visits \in 0..MaxVisits
  /\ asked \in Settings /\ accepted \subseteq Files /\ dropped \subseteq Slugs
  /\ failed \subseteq 1..MaxVisits /\ verdicts \subseteq (1..MaxVisits) \X {"approve", "reject"}
  /\ {crossed, unseen, reopened} \subseteq BOOLEAN

TenancyInit ==
  /\ tenant = [status |-> "pending_verification", verification |-> "pending", reason |-> FALSE,
               onboarded |-> FALSE, settings |-> [x \in Parts |-> 0], documents |-> {}]
  /\ disk = {} /\ slugs = {} /\ flows = [b \in Blueprints |-> 0] /\ audit = {}
  /\ stage = [a \in Actors |-> "idle"] /\ work = [a \in Actors |-> NoWork] /\ visits = 0
  /\ asked = [x \in Parts |-> 0] /\ accepted = {} /\ dropped = {} /\ failed = {}
  /\ verdicts = {}
  /\ crossed = FALSE /\ unseen = FALSE /\ reopened = FALSE

rowHistory == <<asked, crossed, accepted, unseen, reopened>>
seeds == <<slugs, flows, dropped>>
-----------------------------------------------------------------------------
Enter(a, w, s) ==
  /\ stage[a] = "idle" /\ visits < MaxVisits /\ visits' = visits + 1
  /\ stage' = [stage EXCEPT ![a] = s]
  /\ work' = [work EXCEPT ![a] = [w EXCEPT !.value = visits + 1]]
  /\ UNCHANGED <<tenant, disk, seeds, audit, rowHistory, failed, verdicts>>
MemberArrives(a) ==
  \/ \E t \in {"settings", "submit", "link"} : Enter(a, [NoWork EXCEPT !.task = t], "load")
  \/ \E b \in Blueprints \cup {Nobody} :
       Enter(a, [NoWork EXCEPT !.task = "onboard", !.blueprint = b,
                   !.left = IF b = Nobody THEN 0 ELSE 2], "load")
(* An administrator decides on what the list of tenants showed. *)
AdministratorArrives(a) ==
  \E t \in {"approve", "reject"} :
    Enter(a, [NoWork EXCEPT !.task = t, !.seen = tenant.documents], "update")

Leave(a) == stage' = [stage EXCEPT ![a] = "idle"] /\ work' = [work EXCEPT ![a] = NoWork]
(* findOne. *)
LoadTenant(a) ==
  /\ stage[a] = "load"
  /\ stage' = [stage EXCEPT ![a] =
       IF work[a].task \in {"submit", "link"} THEN "store" ELSE "update"]
  /\ work' = [work EXCEPT ![a].copy = tenant.settings]
  /\ UNCHANGED <<tenant, disk, seeds, visits, audit, rowHistory, failed, verdicts>>

Fresh == LET taken == disk \cup tenant.documents \cup UNION {work[a].files : a \in Actors}
         IN Files \ taken
FirstFresh == IF Fresh = {} THEN {} ELSE {CHOOSE f \in Fresh : TRUE}
(* collectUploadedFiles: both required documents are written, or a missing or
   unacceptable one ends the request and leaves what was already written.  The
   links of submitDocuments store nothing. *)
StoreDocuments(a) ==
  /\ stage[a] = "store"
  /\ \/ /\ work[a].task = "submit" /\ Cardinality(Fresh) >= 2
        /\ \E second \in Fresh \ FirstFresh :
             /\ work' = [work EXCEPT ![a].files = FirstFresh \cup {second}]
             /\ disk' = disk \cup FirstFresh \cup {second}
        /\ stage' = [stage EXCEPT ![a] = "update"]
     \/ /\ work[a].task = "submit" /\ Leave(a)
        /\ \E written \in SUBSET FirstFresh : disk' = disk \cup written
     \/ /\ work[a].task = "link" /\ stage' = [stage EXCEPT ![a] = "update"]
        /\ UNCHANGED <<work, disk>>
  /\ UNCHANGED <<tenant, seeds, visits, audit, rowHistory, failed, verdicts>>
-----------------------------------------------------------------------------
(* update: one statement that sets the columns of the request.  The settings are
   the copy loaded before with the request's part changed. *)
PartsSet(task) == CASE task = "onboard" -> {"industry"}
                    [] task = "settings" -> {"regional", "industry"}
                    [] task = "submit" -> {"profile"}
                    [] OTHER -> {}
MergedAlone(a) ==  \* slip: the settings of the request replace all of them
  [x \in Parts |-> IF x \in PartsSet(work[a].task) THEN work[a].value ELSE 0]
Merged(a) == [x \in Parts |-> IF x \in PartsSet(work[a].task) THEN work[a].value
                              ELSE work[a].copy[x]]
Overtake(a, mine, newSettings, newDocuments) ==
  work' = [b \in Actors |->
    IF b = a THEN mine
    ELSE [work[b] EXCEPT
            !.outdated = (@ \/ (newSettings /\ stage[b] \in {"store", "update"})),
            !.stale = (@ \/ (newDocuments /\ stage[b] = "update"))]]
KeepsSettings(a) ==
  /\ asked' = [x \in Parts |-> IF x \in PartsSet(work[a].task) THEN work[a].value ELSE asked[x]]
  /\ crossed' = (crossed \/ work[a].outdated)
UpdateSettings(a) ==
  /\ stage[a] = "update" /\ work[a].task = "settings"
  /\ tenant' = [tenant EXCEPT !.settings = Merged(a)]
  /\ KeepsSettings(a) /\ stage' = [stage EXCEPT ![a] = "idle"] /\ Overtake(a, NoWork, TRUE, FALSE)
  /\ UNCHANGED <<disk, seeds, visits, audit, accepted, unseen, reopened, failed, verdicts>>
CompleteOnboarding(a) ==
  /\ stage[a] = "update" /\ work[a].task = "onboard"
  /\ tenant' = [tenant EXCEPT !.onboarded = TRUE, !.status = "pending_verification",
                              !.settings = Merged(a)]
  /\ KeepsSettings(a) /\ reopened' = TRUE
  /\ stage' = [stage EXCEPT ![a] = IF work[a].blueprint = Nobody THEN "idle" ELSE "seed"]
  /\ Overtake(a, IF work[a].blueprint = Nobody THEN NoWork ELSE work[a], TRUE, FALSE)
  /\ UNCHANGED <<disk, seeds, visits, audit, accepted, unseen, failed, verdicts>>
SubmittedQuietly(row, docs) ==  \* slip: new documents leave an active company active
  [row EXCEPT !.documents = docs, !.verification = "submitted", !.reason = FALSE]
Submitted(row, docs) ==
  [row EXCEPT !.documents = docs, !.verification = "submitted",
              !.status = "pending_verification", !.reason = FALSE]
SubmitApplication(a) ==
  /\ stage[a] = "update" /\ work[a].task = "submit"
  /\ tenant' = [Submitted(tenant, work[a].files) EXCEPT !.settings = Merged(a)]
  /\ KeepsSettings(a) /\ reopened' = FALSE
  /\ stage' = [stage EXCEPT ![a] = "idle"] /\ Overtake(a, NoWork, TRUE, TRUE)
  /\ UNCHANGED <<disk, seeds, visits, audit, accepted, unseen, failed, verdicts>>
SubmitLinks(a) ==
  /\ stage[a] = "update" /\ work[a].task = "link"
  /\ tenant' = Submitted(tenant, {}) /\ reopened' = FALSE
  /\ stage' = [stage EXCEPT ![a] = "idle"] /\ Overtake(a, NoWork, FALSE, TRUE)
  /\ UNCHANGED <<disk, seeds, visits, audit, asked, crossed, accepted, unseen, failed, verdicts>>
Verdict(a) == <<work[a].value, work[a].task>>
Decide(a) == stage' = [stage EXCEPT ![a] = "audit"] /\ verdicts' = verdicts \cup {Verdict(a)}
(* approveTenant and rejectTenant look at no status. *)
ApproveTenant(a) ==
  /\ stage[a] = "update" /\ work[a].task = "approve"
  /\ tenant' = [tenant EXCEPT !.status = "active", !.verification = "approved", !.reason = FALSE]
  /\ accepted' = work[a].seen /\ unseen' = work[a].stale /\ reopened' = FALSE
  /\ Decide(a)
  /\ UNCHANGED <<disk, seeds, visits, audit, work, asked, crossed, failed>>
RejectTenant(a) ==
  /\ stage[a] = "update" /\ work[a].task = "reject"
  /\ tenant' = [tenant EXCEPT !.status = "rejected", !.verification = "rejected", !.reason = TRUE]
  /\ reopened' = FALSE /\ Decide(a)
  /\ UNCHANGED <<disk, seeds, visits, audit, work, asked, crossed, accepted, unseen, failed>>
LogVerdict(a) ==
  /\ stage[a] = "audit" /\ audit' = audit \cup {Verdict(a)}
  /\ Leave(a) /\ UNCHANGED <<tenant, disk, seeds, visits, rowHistory, failed, verdicts>>
-----------------------------------------------------------------------------
(* seedBlueprint creates the definitions one by one; a slug that is taken, found
   or refused by the unique index, throws, and the rest is not seeded. *)
NextSlug(a) == EntitiesOf(work[a].blueprint)[3 - work[a].left]
SlugIgnored(a) == FALSE  \* slip: a definition that exists already is taken over
SlugTaken(a) == NextSlug(a) \in slugs
SeedEntity(a) ==
  /\ stage[a] = "seed"
  /\ IF SlugTaken(a)
     THEN Leave(a) /\ UNCHANGED slugs
     ELSE /\ slugs' = slugs \cup {NextSlug(a)}
          /\ work' = [work EXCEPT ![a].left = @ - 1]
          /\ stage' = [stage EXCEPT ![a] = IF work[a].left = 1 THEN "seed_flow" ELSE "seed"]
  /\ UNCHANGED <<tenant, disk, flows, dropped, visits, audit, rowHistory, failed, verdicts>>
(* WorkflowsService.create looks the assigned definitions up. *)
SeedWorkflow(a) ==
  /\ stage[a] = "seed_flow"
  /\ flows' = IF Elements(EntitiesOf(work[a].blueprint)) \subseteq slugs
              THEN [flows EXCEPT ![work[a].blueprint] = @ + 1] ELSE flows
  /\ Leave(a) /\ UNCHANGED <<tenant, disk, slugs, dropped, visits, audit, rowHistory, failed, verdicts>>
(* EntitiesService.remove. *)
DropEntity ==
  /\ visits < MaxVisits /\ visits' = visits + 1
  /\ \E s \in slugs : slugs' = slugs \ {s} /\ dropped' = dropped \cup {s}
  /\ UNCHANGED <<tenant, disk, flows, audit, stage, work, rowHistory, failed, verdicts>>
(* A statement fails, a plan limit refuses a seed, or the process stops. *)
Fail(a) ==
  /\ stage[a] # "idle" /\ Leave(a)
  /\ failed' = IF stage[a] = "audit" THEN failed \cup {work[a].value} ELSE failed
  /\ UNCHANGED <<tenant, disk, seeds, visits, audit, rowHistory, verdicts>>

TenancyNext ==
  \/ DropEntity
  \/ \E a \in Actors :
       \/ MemberArrives(a) \/ AdministratorArrives(a) \/ LoadTenant(a) \/ StoreDocuments(a)
       \/ UpdateSettings(a) \/ CompleteOnboarding(a) \/ SubmitApplication(a) \/ SubmitLinks(a)
       \/ ApproveTenant(a) \/ RejectTenant(a) \/ LogVerdict(a)
       \/ SeedEntity(a) \/ SeedWorkflow(a) \/ Fail(a)
TenancySpec == TenancyInit /\ [][TenancyNext]_tenancyVars
-----------------------------------------------------------------------------
(* A setting keeps the value it was last given, unless two requests overlapped and
   the later one wrote its older copy of all settings back
   (tenants.service.ts:132-162, 173-186, 236-248). *)
SettingsLossHasCause == tenant.settings # asked => crossed

(* A company is active on the documents its approval was about, all of them still on
   disk, unless new ones came in while the administrator decided; the two status
   columns tell the same verdict, except that an onboarding after the verdict
   reopens one of them and not the other; the audit log has the verdicts that were
   given and no others, each one unless its own request failed or is about to write it
   (tenants.service.ts:176-187, 205-211, 238-243, 299-328). *)
ActiveOnReviewedDocuments ==
  tenant.status = "active" => tenant.documents = accepted \/ unseen
RecordedDocumentsExist == tenant.documents \subseteq disk
VerdictsAgree ==
  ~reopened =>
    /\ tenant.status = "active" <=> tenant.verification = "approved"
    /\ tenant.status = "rejected" <=> tenant.verification = "rejected"
    /\ tenant.reason <=> tenant.verification = "rejected"
Unlogged == {Verdict(a) : a \in {b \in Actors : stage[b] = "audit"}}
VerdictIsLogged ==
  /\ audit \cup Unlogged \subseteq verdicts
  /\ \A v \in verdicts \ (audit \cup Unlogged) : v[1] \in failed
  /\ tenant.verification = "approved" => \E v \in verdicts : v[2] = "approve"
  /\ tenant.verification = "rejected" => \E v \in verdicts : v[2] = "reject"
VerdictsHold ==
  ActiveOnReviewedDocuments /\ RecordedDocumentsExist /\ VerdictsAgree /\ VerdictIsLogged
(* A workspace keeps its types and these statements (tenants.service.ts:176-328). *)
TenancyHolds == TenancyTypeOK /\ VerdictsHold

(* However often and however concurrently a workspace is onboarded, a blueprint has
   one workflow at most, and that workflow has the definitions it needs: only the
   removal of a definition lets it be seeded again (tenants.service.ts:341-682). *)
BlueprintSeededOnce ==
  \A b \in Blueprints :
    LET own == Elements(EntitiesOf(b)) IN
    /\ flows[b] > 1 => own \cap dropped # {}
    /\ flows[b] > 0 => own \subseteq slugs \cup dropped
=============================================================================
