----------------------------- MODULE TaskInbox -----------------------------
(***************************************************************************)
(* Who may work on a task: the claim system of tasks.service.ts with the   *)
(* delegations of workflow-delegations.service.ts and the approval limits. *)
(* One approval task, assigned to the role TaskRole; each user has at most *)
(* one request in flight, requests of different users interleave between   *)
(* a handler's reads and its write.                                        *)
(***************************************************************************)
EXTENDS Naturals, ApprovalLimits

CONSTANTS
  Users, NoUser,
  Roles, TaskRole,  \* the task's assignedToRoleId
  Admins,           \* users whose account role is an administrator's
  InitialRoles,     \* the roles each user starts with
  RoleLimit,        \* maxApprovalAmount of each role
  Overrides,        \* values an administrator sets as approvalLimitOverride
  Amount,           \* the amount the approval is about
  MaxTime,          \* bound on the clock
  MaxChanges        \* bound on administrative changes

VARIABLES
  task,         \* the tasks row
  holds,        \* the roles of each user
  override,     \* approvalLimitOverride of each user
  delegations,  \* the workflow_delegations rows
  now,          \* the clock
  pc, loc,      \* control point and locals of each user's request
  changes,
  held, entitled, permitted, roled, approvedBy  \* history, see the properties

admin == <<holds, override, delegations, now, changes>>
history == <<held, entitled, permitted>>
vars == <<task, admin, pc, loc, history, roled, approvedBy>>

ASSUME InboxAssumption ==
  /\ NoUser \notin Users /\ Admins \subseteq Users
  /\ TaskRole \in Roles
  /\ InitialRoles \in [Users -> SUBSET Roles]
  /\ RoleLimit \in [Roles -> Limit]
  /\ Overrides \subseteq Limit /\ Amount \in Nat
  /\ MaxTime \in Nat /\ MaxChanges \in Nat
-----------------------------------------------------------------------------
Statuses == {"pending", "in_progress", "completed", "cancelled"}
Task == [status: Statuses, assigned: Users \cup {NoUser},
         claimed: Users \cup {NoUser}, via: BOOLEAN]

(* An empty set of roles delegates every role the delegator holds. *)
Delegation == [from: Users, to: Users, roles: SUBSET Roles,
               starts: 0..MaxTime, ends: 0..MaxTime, active: BOOLEAN]

Points == {"idle", "claim_roles", "claim_delegations", "claim_write",
           "unclaim_write", "start_write", "cancel_write",
           "complete_limit", "complete_write"}
Verdicts == {"approve", "reject", "none"}
Local == [task: Task, via: BOOLEAN, verdict: Verdicts]
NewTask == [status |-> "pending", assigned |-> NoUser, claimed |-> NoUser, via |-> FALSE]
NoLocal == [task |-> NewTask, via |-> FALSE, verdict |-> "none"]

TypeOK ==
  /\ task \in Task
  /\ holds \in [Users -> SUBSET Roles]
  /\ override \in [Users -> Limit]
  /\ delegations \subseteq Delegation
  /\ now \in 0..MaxTime /\ changes \in 0..MaxChanges
  /\ pc \in [Users -> Points] /\ loc \in [Users -> Local]
  /\ held \in SUBSET Users /\ entitled \in SUBSET Users
  /\ permitted \in SUBSET Users /\ roled \in SUBSET Users
  /\ approvedBy \in Users \cup {NoUser}
-----------------------------------------------------------------------------
(* getActiveDelegateRoleIds at the current time. *)
Current(d) == d.active /\ d.starts <= now /\ now <= d.ends

(* Slip: the delegation's window is not looked at. *)
UnexpiredRoles(u) ==
  UNION {IF d.roles # {} THEN d.roles ELSE holds[d.from] :
           d \in {e \in delegations : e.to = u /\ e.active}}

DelegatedRoles(u) ==
  UNION {IF d.roles # {} THEN d.roles ELSE holds[d.from] :
           d \in {e \in delegations : e.to = u /\ Current(e)}}

Holders == {u \in Users : TaskRole \in holds[u]}
Claiming == {"claim_roles", "claim_delegations", "claim_write"}

Account(u) == [admin |-> u \in Admins, override |-> override[u], roles |-> holds[u]]

Go(u, l, m, v) ==
  /\ pc[u] = l
  /\ pc' = [pc EXCEPT ![u] = m]
  /\ loc' = [loc EXCEPT ![u] = IF m = "idle" THEN NoLocal ELSE v]
  /\ roled' = IF m = "claim_roles" THEN (roled \ {u}) \cup ({u} \cap Holders) ELSE roled
  /\ UNCHANGED <<admin, history>>

Unchanged == UNCHANGED <<task, approvedBy>>

(* The history variables: users who have held the task's role, users who have
   held it or have been its current delegates, users whose limit has covered
   the amount, each at some moment so far; and users who have held the role since
   they began their last claim, while it lasted. *)
Observe ==
  LET delegate(u) == \E d \in delegations' :
        /\ d.to = u /\ d.active /\ d.starts <= now' /\ now' <= d.ends
        /\ \/ TaskRole \in d.roles
           \/ d.roles = {} /\ TaskRole \in holds'[d.from]
      account(u) == [admin |-> u \in Admins, override |-> override'[u], roles |-> holds'[u]]
      holders == {u \in Users : TaskRole \in holds'[u]}
  IN /\ held' = held \cup holders
     /\ entitled' = entitled \cup holders \cup {u \in Users : delegate(u)}
     /\ roled' = roled \cup {u \in holders : pc[u] \in Claiming}
     /\ permitted' = permitted \cup
          {u \in Users : MayApprove(account(u), {TaskRole}, RoleLimit, Amount)}
-----------------------------------------------------------------------------
Init ==
  /\ task = NewTask
  /\ holds = InitialRoles
  /\ override = [u \in Users |-> NoLimit]
  /\ delegations = {}
  /\ now = 0 /\ changes = 0
  /\ pc = [u \in Users |-> "idle"]
  /\ loc = [u \in Users |-> NoLocal]
  /\ held = Holders /\ entitled = held /\ roled = {}
  /\ permitted = {u \in Users : MayApprove(Account(u), {TaskRole}, RoleLimit, Amount)}
  /\ approvedBy = NoUser

(* claimTask: a task one has already claimed is returned as it is, a task that
   somebody else has claimed is refused. *)
ClaimRead(u) ==
  /\ task.claimed = NoUser
  /\ Go(u, "idle", "claim_roles", [NoLocal EXCEPT !.task = task])
  /\ Unchanged

(* canActOnRole, first the user's own roles, read before it is called ... *)
ClaimRoles(u) ==
  /\ Go(u, "claim_roles",
        IF TaskRole \in holds[u] THEN "claim_write" ELSE "claim_delegations", loc[u])
  /\ Unchanged

(* Slip: an act on behalf of another is reported as one's own. *)
ClaimUnmarked(u) ==
  /\ Go(u, "claim_delegations",
        IF TaskRole \in DelegatedRoles(u) THEN "claim_write" ELSE "idle", loc[u])
  /\ Unchanged

(* ... then the roles delegated to the user. *)
ClaimDelegations(u) ==
  /\ Go(u, "claim_delegations",
        IF TaskRole \in DelegatedRoles(u) THEN "claim_write" ELSE "idle",
        [loc[u] EXCEPT !.via = TRUE])
  /\ Unchanged

(* Slip: assignedToId is left to the assignee the task had. *)
ClaimKeepsAssignee(u) ==
  /\ Go(u, "claim_write", "idle", NoLocal)
  /\ task' = [task EXCEPT !.claimed = u, !.status = "in_progress"]
  /\ UNCHANGED approvedBy

(* The write spreads the metadata of the copy read at the start. *)
ClaimWrite(u) ==
  /\ Go(u, "claim_write", "idle", NoLocal)
  /\ task' = [status |-> "in_progress", assigned |-> u, claimed |-> u,
              via |-> loc[u].task.via \/ loc[u].via]
  /\ UNCHANGED approvedBy
-----------------------------------------------------------------------------
(* unclaimTask.  TypeORM's update() leaves out the keys whose value is
   undefined, so of the four columns named only status is written. *)
UnclaimRead(u) ==
  /\ task.claimed = u /\ task.status = "in_progress"
  /\ Go(u, "idle", "unclaim_write", NoLocal)
  /\ Unchanged

UnclaimWrite(u) ==
  /\ Go(u, "unclaim_write", "idle", NoLocal)
  /\ task' = [task EXCEPT !.status = "pending"]
  /\ UNCHANGED approvedBy

(* startTask and cancelTask ask who the assignee is, not what the status is. *)
StartRead(u) ==
  /\ task.assigned = u
  /\ Go(u, "idle", "start_write", NoLocal)
  /\ Unchanged

(* Slip: a status the task entity does not have. *)
StartAsStarted(u) ==
  /\ Go(u, "start_write", "idle", NoLocal)
  /\ task' = [task EXCEPT !.status = "started"]
  /\ UNCHANGED approvedBy

StartWrite(u) ==
  /\ Go(u, "start_write", "idle", NoLocal)
  /\ task' = [task EXCEPT !.status = "in_progress"]
  /\ UNCHANGED approvedBy

CancelRead(u) ==
  /\ task.assigned = u
  /\ Go(u, "idle", "cancel_write", NoLocal)
  /\ Unchanged

CancelWrite(u) ==
  /\ Go(u, "cancel_write", "idle", NoLocal)
  /\ task' = [task EXCEPT !.status = "cancelled"]
  /\ UNCHANGED approvedBy

(* completeTask: the assignee of an open task; `approved === true` needs a limit
   that covers the amount, a rejection or a body without a verdict does not. *)
CompleteRead(u, verdict) ==
  /\ task.assigned = u \/ task.claimed = u
  /\ task.status \in {"pending", "in_progress"}
  /\ Go(u, "idle", IF verdict = "approve" THEN "complete_limit" ELSE "complete_write",
        [NoLocal EXCEPT !.verdict = verdict])
  /\ Unchanged

CompleteLimit(u) ==
  /\ Go(u, "complete_limit",
        IF CanApprove(Account(u), {TaskRole}, RoleLimit, Amount)
        THEN "complete_write" ELSE "idle", loc[u])
  /\ Unchanged

(* resumeAfterTaskCompletion closes the task whatever has become of it. *)
CompleteWrite(u) ==
  /\ Go(u, "complete_write", "idle", NoLocal)
  /\ task' = [task EXCEPT !.status = "completed"]
  /\ approvedBy' = IF loc[u].verdict = "approve" THEN u ELSE approvedBy
-----------------------------------------------------------------------------
(* What administrators and delegators change meanwhile. *)
Change ==
  /\ changes < MaxChanges
  /\ changes' = changes + 1
  /\ UNCHANGED <<task, pc, loc, approvedBy>>

AssignRole(u, r) ==
  /\ Change
  /\ holds' = [holds EXCEPT ![u] = @ \cup {r}]
  /\ UNCHANGED <<override, delegations, now>>
  /\ Observe

RemoveRole(u, r) ==
  /\ Change
  /\ r \in holds[u]
  /\ holds' = [holds EXCEPT ![u] = @ \ {r}]
  /\ UNCHANGED <<override, delegations, now>>
  /\ Observe

SetOverride(u, n) ==
  /\ Change
  /\ override' = [override EXCEPT ![u] = n]
  /\ UNCHANGED <<holds, delegations, now>>
  /\ Observe

(* Slip: any role may be delegated, held or not. *)
DelegateAny(u, v, rs, starts, ends) ==
  /\ Change
  /\ v # u /\ starts < ends
  /\ delegations' = delegations \cup
       {[from |-> u, to |-> v, roles |-> rs, starts |-> starts, ends |-> ends,
         active |-> TRUE]}
  /\ UNCHANGED <<holds, override, now>>
  /\ Observe

CreateDelegation(u, v, rs, starts, ends) ==
  /\ Change
  /\ v # u /\ starts < ends
  /\ rs \subseteq holds[u]
  /\ delegations' = delegations \cup
       {[from |-> u, to |-> v, roles |-> rs, starts |-> starts, ends |-> ends,
         active |-> TRUE]}
  /\ UNCHANGED <<holds, override, now>>
  /\ Observe

RevokeDelegation(d) ==
  /\ Change
  /\ delegations' = (delegations \ {d}) \cup {[d EXCEPT !.active = FALSE]}
  /\ UNCHANGED <<holds, override, now>>
  /\ Observe

Tick ==
  /\ now < MaxTime
  /\ now' = now + 1
  /\ UNCHANGED <<task, pc, loc, approvedBy, holds, override, delegations, changes>>
  /\ Observe
-----------------------------------------------------------------------------
Request(u) ==
  \/ ClaimRead(u) \/ ClaimRoles(u) \/ ClaimDelegations(u) \/ ClaimWrite(u)
  \/ UnclaimRead(u) \/ UnclaimWrite(u)
  \/ StartRead(u) \/ StartWrite(u) \/ CancelRead(u) \/ CancelWrite(u)
  \/ \E verdict \in Verdicts : CompleteRead(u, verdict)
  \/ CompleteLimit(u) \/ CompleteWrite(u)

Administration ==
  \/ \E u \in Users, r \in Roles : AssignRole(u, r) \/ RemoveRole(u, r)
  \/ \E u \in Users, n \in Overrides : SetOverride(u, n)
  \/ \E u, v \in Users, rs \in SUBSET Roles, starts, ends \in 0..MaxTime :
       CreateDelegation(u, v, rs, starts, ends)
  \/ \E d \in delegations : RevokeDelegation(d)
  \/ Tick

Next == Administration \/ \E u \in Users : Request(u)

Spec == Init /\ [][Next]_vars
-----------------------------------------------------------------------------
(* A task never has one claimant and another assignee: completeTask accepts
   either, so two people would be allowed to decide it. *)
ClaimantIsAssignee == task.claimed # NoUser => task.assigned = task.claimed

(* Whoever has claimed the task was entitled to: at some moment the user held
   its role or was the current delegate of somebody who held it or had been
   given leave to pass it on.  Delegations that end, roles that are withdrawn
   and claims that race between the check and the write make no difference. *)
ClaimantWasEntitled == task.claimed # NoUser => task.claimed \in entitled

(* Authority is never made up: only a user who held the role himself has ever
   passed it on, so delegation does not chain. *)
DelegationStartsFromHolder ==
  \A d \in delegations : TaskRole \in d.roles => d.from \in held

(* A claim by a user who held the role at no moment while the claim was handled bears
   the flag actedViaDelegation (tasks.service.ts:303-314), whatever the user held
   before or after and whichever of two racing claims is written last.  The flag is
   all the code keeps: not on whose behalf the claim was made. *)
ActingForAnotherIsMarked == task.claimed \in Users \ roled => task.via

(* Whoever has said "approved" had a limit that covered the amount at some
   moment, by the rule in words: the strictest role wins unless there is an
   override.  (A completion that gives no verdict is not held to a limit.) *)
ApprovalsWithinLimit == approvedBy # NoUser => approvedBy \in permitted

(* "Claim a task - user takes ownership of an unclaimed task": nobody's claim is
   taken over by another claim. *)
ClaimTakesUnclaimed ==
  [][\A u \in Users : pc[u] = "claim_write" /\ pc'[u] = "idle"
                        => task.claimed \in {NoUser, u}]_vars

(* "Unclaim a task (release ownership)": once it has returned, the task is
   nobody's, or somebody else's. *)
UnclaimReleases ==
  [][\A u \in Users : pc[u] = "unclaim_write" /\ pc'[u] = "idle"
                        => task'.claimed # u]_vars
=============================================================================
