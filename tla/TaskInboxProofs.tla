-------------------------- MODULE TaskInboxProofs --------------------------
(***************************************************************************)
(* Proofs about TaskInbox, for any set of users and roles, any amount, any *)
(* number of administrative changes and any interleaving of the requests:  *)
(* a claim and an approval rest on a right the user had at some moment,    *)
(* whatever is withdrawn between a handler's check and its write.          *)
(***************************************************************************)
EXTENDS TaskInbox, WellFoundedInduction, TLAPS

(* The history variables have seen the present. *)
PresentIsObserved ==
  /\ held \subseteq entitled
  /\ \A u \in Users : TaskRole \in holds[u] => u \in held
  /\ \A u \in Users : TaskRole \in DelegatedRoles(u) => u \in entitled
  /\ \A u \in Users :
       MayApprove(Account(u), {TaskRole}, RoleLimit, Amount) => u \in permitted
  /\ \A u \in Users : pc[u] \in Claiming /\ TaskRole \in holds[u] => u \in roled

(* What a request has found out before its write stays true of the past. *)
ClaimsAreChecked ==
  \A u \in Users : pc[u] = "claim_write" => /\ u \in entitled
                                            /\ u \in roled \/ loc[u].via

VerdictsAreChecked ==
  \A u \in Users : pc[u] = "complete_write" /\ loc[u].verdict = "approve"
                     => u \in permitted

InboxInv ==
  /\ TypeOK
  /\ PresentIsObserved /\ ClaimsAreChecked /\ VerdictsAreChecked
  /\ ClaimantIsAssignee /\ ClaimantWasEntitled /\ DelegationStartsFromHolder
  /\ ActingForAnotherIsMarked /\ ApprovalsWithinLimit
-----------------------------------------------------------------------------
(* The approval limits: Math.min over a set of limits that is not empty is its
   least element ... *)
LEMMA LeastLimit ==
  ASSUME NEW S \in SUBSET Nat, S # {}
  PROVE  \E n \in S : \A m \in S : n <= m
<1>0. IsWellFoundedOn({ss \in Nat \X Nat : ss[1] < ss[2]}, Nat)
  BY NatLessThanWellFounded DEF OpToRel
<1>1. PICK n \in S : \A m \in S : ~ (<<m, n>> \in {ss \in Nat \X Nat : ss[1] < ss[2]})
  BY <1>0, WFMin
<1>2. \A m \in S : ~ (m < n)
  BY <1>1
<1> QED
  BY <1>2

LEMMA StrictestIsLeast ==
  ASSUME NEW S \in SUBSET Nat, S # {}
  PROVE  StrictestLimit(S) \in S /\ \A m \in S : StrictestLimit(S) <= m
BY LeastLimit DEF StrictestLimit

(* ... so that the check of the code says what the rule in words says: for every
   user, every task and every table of limits, an amount is let through exactly when
   no role forbids it, the user is an administrator or an override covers it. *)
THEOREM LimitRule ==
  ASSUME NEW R, NEW roleLimit \in [R -> Limit], NEW taskRoles \in SUBSET R,
         NEW user \in [admin: BOOLEAN, override: Limit, roles: SUBSET R],
         NEW amount \in Nat
  PROVE  CanApprove(user, taskRoles, roleLimit, amount)
           <=> MayApprove(user, taskRoles, roleLimit, amount)
<1> DEFINE all == user.roles \cup taskRoles
           S == {roleLimit[r] : r \in all} \ {NoLimit}
<1>1. CASE user.admin
  BY <1>1 DEF CanApprove, EffectiveLimit, MayApprove
<1>2. CASE ~ user.admin /\ user.override # NoLimit
  BY <1>2 DEF CanApprove, EffectiveLimit, MayApprove
<1>3. CASE ~ user.admin /\ user.override = NoLimit
  <2>1. CanApprove(user, taskRoles, roleLimit, amount)
          <=> StrictestLimit(S) = NoLimit \/ amount <= StrictestLimit(S)
    BY <1>3 DEF CanApprove, EffectiveLimit
  <2>2. MayApprove(user, taskRoles, roleLimit, amount)
          <=> \A r \in all : roleLimit[r] = NoLimit \/ amount <= roleLimit[r]
    BY <1>3 DEF MayApprove
  <2>3. all \subseteq R /\ S \in SUBSET Nat
    BY DEF Limit
  <2>4. CASE S = {}
    BY <2>1, <2>2, <2>4 DEF StrictestLimit
  <2>5. CASE S # {}
    <3>1. StrictestLimit(S) \in S /\ \A m \in S : StrictestLimit(S) <= m
      BY <2>3, <2>5, StrictestIsLeast
    <3>2. (\A r \in all : roleLimit[r] = NoLimit \/ amount <= roleLimit[r])
            <=> \A m \in S : amount <= m
      OBVIOUS
    <3>3. StrictestLimit(S) \in Nat /\ StrictestLimit(S) # NoLimit
      BY <2>3, <3>1
    <3>4. (\A m \in S : amount <= m) <=> amount <= StrictestLimit(S)
      <4> HIDE DEF S
      <4> QED BY <2>3, <3>1, <3>3
    <3> QED
      BY <2>1, <2>2, <3>2, <3>3, <3>4
  <2> QED
    BY <2>4, <2>5
<1> QED
  BY <1>1, <1>2, <1>3
-----------------------------------------------------------------------------
LEMMA InboxInitInv == Init => InboxInv
<1> SUFFICES ASSUME Init PROVE InboxInv
  OBVIOUS
<1>1. TypeOK
  <2>1. task \in Task /\ pc \in [Users -> Points] /\ loc \in [Users -> Local]
    BY InboxAssumption DEF Init, NewTask, Task, NoLocal, Local, Statuses, Verdicts, Points
  <2>2. /\ held \in SUBSET Users /\ entitled \in SUBSET Users /\ permitted \in SUBSET Users
        /\ roled \in SUBSET Users /\ approvedBy \in Users \cup {NoUser}
    BY DEF Init, Holders
  <2>3. /\ holds \in [Users -> SUBSET Roles] /\ override \in [Users -> Limit]
        /\ delegations \subseteq Delegation /\ now \in 0..MaxTime /\ changes \in 0..MaxChanges
    BY InboxAssumption DEF Init, Limit
  <2> QED
    BY <2>1, <2>2, <2>3 DEF TypeOK
<1>2. PresentIsObserved
  BY DEF Init, PresentIsObserved, DelegatedRoles, Account, Holders, Claiming
<1> QED
  BY <1>1, <1>2, InboxAssumption DEF Init, InboxInv, ClaimsAreChecked, VerdictsAreChecked,
     ClaimantIsAssignee, ClaimantWasEntitled, DelegationStartsFromHolder,
     ActingForAnotherIsMarked, ApprovalsWithinLimit, NewTask
-----------------------------------------------------------------------------
(* A step of a request moves its own user's control point and observes nothing new. *)
LEMMA GoInv ==
  ASSUME InboxInv, NEW u \in Users, NEW l, NEW m \in Points, NEW v \in Local, Go(u, l, m, v),
         m = "claim_write" => u \in entitled /\ (u \in roled \/ v.via),
         m \in Claiming \ {"claim_roles"} => l \in Claiming,
         m = "complete_write" /\ v.verdict = "approve" => u \in permitted
  PROVE  /\ pc' \in [Users -> Points] /\ loc' \in [Users -> Local]
         /\ UNCHANGED <<holds, override, delegations, now, changes, held, entitled, permitted>>
         /\ PresentIsObserved' /\ ClaimsAreChecked' /\ VerdictsAreChecked'
         /\ DelegationStartsFromHolder' /\ roled' \in SUBSET Users
         /\ m # "claim_roles" => roled' = roled
<1>1. UNCHANGED <<holds, override, delegations, now, changes, held, entitled, permitted>>
  BY DEF Go, admin, history
<1>2. NoLocal \in Local
  BY DEF NoLocal, Local, NewTask, Task, Statuses, Verdicts
<1>3. /\ pc' = [pc EXCEPT ![u] = m]
      /\ loc' = [loc EXCEPT ![u] = IF m = "idle" THEN NoLocal ELSE v]
      /\ pc[u] = l
      /\ roled' = IF m = "claim_roles" THEN (roled \ {u}) \cup ({u} \cap Holders) ELSE roled
  BY DEF Go
<1>4. pc' \in [Users -> Points] /\ loc' \in [Users -> Local]
  BY <1>2, <1>3 DEF InboxInv, TypeOK
<1>a. \A x \in Users : x # u => pc'[x] = pc[x] /\ loc'[x] = loc[x] /\ (x \in roled' <=> x \in roled)
  BY <1>3 DEF InboxInv, TypeOK
<1>b. pc'[u] = m /\ loc'[u] = IF m = "idle" THEN NoLocal ELSE v
  BY <1>3 DEF InboxInv, TypeOK
<1>c. ASSUME NEW x \in Users, pc'[x] \in Claiming, TaskRole \in holds'[x] PROVE x \in roled'
  <2>1. CASE x # u
    BY <1>1, <1>a, <1>c, <2>1 DEF InboxInv, PresentIsObserved
  <2>2. CASE x = u /\ m = "claim_roles"
    BY <1>1, <1>3, <1>c, <2>2 DEF Holders
  <2>3. CASE x = u /\ m # "claim_roles"
    BY <1>1, <1>3, <1>b, <1>c, <2>3 DEF InboxInv, PresentIsObserved
  <2> QED
    BY <2>1, <2>2, <2>3
<1>d. roled' \in SUBSET Users
  BY <1>3 DEF InboxInv, TypeOK
<1>5. PresentIsObserved'
  BY <1>1, <1>c DEF InboxInv, PresentIsObserved, DelegatedRoles, Current, Account
<1>6. ClaimsAreChecked'
  BY <1>1, <1>3, <1>a, <1>b DEF InboxInv, ClaimsAreChecked
<1>7. VerdictsAreChecked'
  BY <1>1, <1>3 DEF InboxInv, TypeOK, VerdictsAreChecked
<1>8. DelegationStartsFromHolder'
  BY <1>1 DEF InboxInv, DelegationStartsFromHolder
<1> QED
  BY <1>1, <1>3, <1>4, <1>5, <1>6, <1>7, <1>8, <1>d

(* A step that reads leaves the task alone. *)
LEMMA ReadInv ==
  ASSUME InboxInv, NEW u \in Users, NEW l, NEW m \in Points, NEW v \in Local, Go(u, l, m, v),
         m = "claim_write" => u \in entitled /\ (u \in roled \/ v.via),
         m \in Claiming \ {"claim_roles"} => l \in Claiming,
         m = "claim_roles" => task.claimed = NoUser,
         m = "complete_write" /\ v.verdict = "approve" => u \in permitted,
         Unchanged
  PROVE  InboxInv'
<1>1. UNCHANGED <<task, approvedBy>>
  BY DEF Unchanged
<1>2. /\ pc' \in [Users -> Points] /\ loc' \in [Users -> Local]
      /\ UNCHANGED <<holds, override, delegations, now, changes, held, entitled, permitted>>
      /\ PresentIsObserved' /\ ClaimsAreChecked' /\ VerdictsAreChecked'
      /\ DelegationStartsFromHolder' /\ roled' \in SUBSET Users
      /\ m # "claim_roles" => roled' = roled
  BY GoInv
<1>3. TypeOK'
  BY <1>1, <1>2 DEF InboxInv, TypeOK
<1>4. ClaimantIsAssignee' /\ ClaimantWasEntitled' /\ ApprovalsWithinLimit'
  BY <1>1, <1>2 DEF InboxInv, ClaimantIsAssignee, ClaimantWasEntitled, ApprovalsWithinLimit
<1>5. ActingForAnotherIsMarked'
  BY <1>1, <1>2, InboxAssumption DEF InboxInv, ActingForAnotherIsMarked
<1> QED
  BY <1>2, <1>3, <1>4, <1>5 DEF InboxInv

(* Unclaiming, starting and cancelling write the status and no other column. *)
LEMMA StatusInv ==
  ASSUME InboxInv, NEW u \in Users, NEW l, NEW s \in Statuses, Go(u, l, "idle", NoLocal),
         task' = [task EXCEPT !.status = s], approvedBy' \in {approvedBy} \cup permitted,
         approvedBy' \in Users \cup {NoUser}
  PROVE  InboxInv'
<1>0. NoLocal \in Local /\ "idle" \in Points
  BY DEF NoLocal, Local, NewTask, Task, Statuses, Verdicts, Points
<1>1. /\ pc' \in [Users -> Points] /\ loc' \in [Users -> Local]
      /\ UNCHANGED <<holds, override, delegations, now, changes, held, entitled, permitted>>
      /\ PresentIsObserved' /\ ClaimsAreChecked' /\ VerdictsAreChecked'
      /\ DelegationStartsFromHolder' /\ roled' = roled /\ roled \in SUBSET Users
  BY <1>0, GoInv DEF Claiming
<1>2. task' \in Task /\ task'.claimed = task.claimed /\ task'.assigned = task.assigned
      /\ (task.via => task'.via)
  BY DEF InboxInv, TypeOK, Task
<1>3. TypeOK'
  BY <1>1, <1>2 DEF InboxInv, TypeOK
<1>4. ClaimantIsAssignee' /\ ClaimantWasEntitled' /\ ActingForAnotherIsMarked'
      /\ ApprovalsWithinLimit'
  BY <1>1, <1>2 DEF InboxInv, ClaimantIsAssignee, ClaimantWasEntitled,
     ActingForAnotherIsMarked, ApprovalsWithinLimit
<1> QED
  BY <1>1, <1>3, <1>4 DEF InboxInv

(* The claim: the check of a moment ago is what the write relies on. *)
LEMMA ClaimWriteInv ==
  ASSUME InboxInv, NEW u \in Users, ClaimWrite(u)
  PROVE  InboxInv'
<1>0. NoLocal \in Local /\ "idle" \in Points
  BY DEF NoLocal, Local, NewTask, Task, Statuses, Verdicts, Points
<1>1. /\ pc' \in [Users -> Points] /\ loc' \in [Users -> Local]
      /\ UNCHANGED <<holds, override, delegations, now, changes, held, entitled, permitted>>
      /\ PresentIsObserved' /\ ClaimsAreChecked' /\ VerdictsAreChecked'
      /\ DelegationStartsFromHolder' /\ roled' = roled /\ roled \in SUBSET Users
  BY <1>0, GoInv DEF ClaimWrite, Claiming
<1>2. /\ pc[u] = "claim_write" /\ UNCHANGED approvedBy
      /\ task' = [status |-> "in_progress", assigned |-> u, claimed |-> u,
                  via |-> loc[u].task.via \/ loc[u].via]
  BY DEF ClaimWrite, Go
<1>3. loc[u] \in Local
  BY DEF InboxInv, TypeOK
<1>4. task' \in Task
  BY <1>2, <1>3 DEF Task, Local, Statuses
<1>5. TypeOK'
  BY <1>1, <1>2, <1>4 DEF InboxInv, TypeOK
<1>6. u \in entitled /\ (u \in roled \/ loc[u].via)
  BY <1>2 DEF InboxInv, ClaimsAreChecked
<1>7. ClaimantIsAssignee' /\ ClaimantWasEntitled'
  BY <1>1, <1>2, <1>6 DEF ClaimantIsAssignee, ClaimantWasEntitled
<1>8. ActingForAnotherIsMarked'
  BY <1>1, <1>2, <1>6 DEF ActingForAnotherIsMarked
<1>9. ApprovalsWithinLimit'
  BY <1>1, <1>2 DEF InboxInv, ApprovalsWithinLimit
<1> QED
  BY <1>1, <1>5, <1>7, <1>8, <1>9 DEF InboxInv

LEMMA AccountTyped ==
  ASSUME TypeOK, NEW u \in Users
  PROVE  Account(u) \in [admin: BOOLEAN, override: Limit, roles: SUBSET Roles]
BY DEF TypeOK, Account

LEMMA RequestInv ==
  ASSUME InboxInv, NEW u \in Users, Request(u)
  PROVE  InboxInv'
<1>0. /\ NoLocal \in Local /\ loc[u] \in Local /\ task \in Task
      /\ TypeOK
  BY DEF NoLocal, Local, NewTask, Task, Statuses, Verdicts, InboxInv, TypeOK
<1>1. CASE ClaimRead(u)
  <2>1. [NoLocal EXCEPT !.task = task] \in Local /\ "claim_roles" \in Points
    BY <1>0 DEF Local, Points
  <2>2. Go(u, "idle", "claim_roles", [NoLocal EXCEPT !.task = task]) /\ Unchanged
        /\ task.claimed = NoUser
    BY <1>1 DEF ClaimRead
  <2> QED
    BY <2>1, <2>2, ReadInv
<1>2. CASE ClaimRoles(u)
  <2> DEFINE m == IF TaskRole \in holds[u] THEN "claim_write" ELSE "claim_delegations"
  <2>1. m \in Points
    BY DEF Points
  <2>2. m = "claim_write" => u \in entitled /\ (u \in roled \/ loc[u].via)
    BY <1>2 DEF InboxInv, PresentIsObserved, ClaimRoles, Go, Claiming
  <2>3. m # "complete_write" /\ m # "claim_roles" /\ "claim_roles" \in Claiming
    BY DEF Claiming
  <2>4. Go(u, "claim_roles", m, loc[u]) /\ Unchanged
    BY <1>2 DEF ClaimRoles
  <2> HIDE DEF m
  <2> QED
    BY <1>0, <2>1, <2>2, <2>3, <2>4, ReadInv
<1>3. CASE ClaimDelegations(u)
  <2> DEFINE m == IF TaskRole \in DelegatedRoles(u) THEN "claim_write" ELSE "idle"
             v == [loc[u] EXCEPT !.via = TRUE]
  <2>1. m \in Points /\ v \in Local /\ v.via
    BY <1>0 DEF Points, Local
  <2>2. m = "claim_write" => u \in entitled
    BY DEF InboxInv, PresentIsObserved
  <2>3. m # "complete_write" /\ m # "claim_roles" /\ "claim_delegations" \in Claiming
    BY DEF Claiming
  <2>4. Go(u, "claim_delegations", m, v) /\ Unchanged
    BY <1>3 DEF ClaimDelegations
  <2> HIDE DEF m, v
  <2> QED
    BY <1>0, <2>1, <2>2, <2>3, <2>4, ReadInv
<1>4. CASE ClaimWrite(u)
  BY <1>4, ClaimWriteInv
<1>5. CASE UnclaimRead(u) \/ StartRead(u) \/ CancelRead(u)
  <2>1. /\ {"unclaim_write", "start_write", "cancel_write"} \subseteq Points
        /\ {"unclaim_write", "start_write", "cancel_write"} \cap Claiming = {}
    BY DEF Points, Claiming
  <2> QED
    BY <1>0, <1>5, <2>1, ReadInv DEF UnclaimRead, StartRead, CancelRead, Claiming
<1>6. CASE UnclaimWrite(u) \/ StartWrite(u) \/ CancelWrite(u)
  <2>1. {"pending", "in_progress", "cancelled"} \subseteq Statuses
    BY DEF Statuses
  <2>2. approvedBy \in Users \cup {NoUser}
    BY <1>0 DEF TypeOK
  <2> QED
    BY <1>6, <2>1, <2>2, StatusInv DEF UnclaimWrite, StartWrite, CancelWrite
<1>7. ASSUME NEW verdict \in Verdicts, CompleteRead(u, verdict)
      PROVE  InboxInv'
  <2> DEFINE m == IF verdict = "approve" THEN "complete_limit" ELSE "complete_write"
             v == [NoLocal EXCEPT !.verdict = verdict]
  <2>1. m \in Points /\ v \in Local /\ v.verdict = verdict
    BY <1>0 DEF Points, Local
  <2>2. m # "claim_write" /\ m \notin Claiming /\ m # "claim_roles"
        /\ (m = "complete_write" => verdict # "approve")
    BY DEF Claiming
  <2>3. Go(u, "idle", m, v) /\ Unchanged
    BY <1>7 DEF CompleteRead
  <2> HIDE DEF m, v
  <2> QED
    BY <2>1, <2>2, <2>3, ReadInv
<1>8. CASE CompleteLimit(u)
  <2> DEFINE m == IF CanApprove(Account(u), {TaskRole}, RoleLimit, Amount)
                  THEN "complete_write" ELSE "idle"
  <2>1. m \in Points /\ m # "claim_write" /\ m # "claim_roles" /\ m \notin Claiming
    BY DEF Points, Claiming
  <2>2. m = "complete_write" => u \in permitted
    <3>1. {TaskRole} \in SUBSET Roles /\ RoleLimit \in [Roles -> Limit] /\ Amount \in Nat
      BY InboxAssumption
    <3>2. CanApprove(Account(u), {TaskRole}, RoleLimit, Amount)
            => MayApprove(Account(u), {TaskRole}, RoleLimit, Amount)
      BY <1>0, <3>1, AccountTyped, LimitRule
    <3> QED
      BY <3>2 DEF InboxInv, PresentIsObserved
  <2>3. Go(u, "complete_limit", m, loc[u]) /\ Unchanged
    BY <1>8 DEF CompleteLimit
  <2> HIDE DEF m
  <2> QED
    BY <1>0, <2>1, <2>2, <2>3, ReadInv
<1>9. CASE CompleteWrite(u)
  <2>1. pc[u] = "complete_write" /\ "completed" \in Statuses
    BY <1>9 DEF CompleteWrite, Go, Statuses
  <2>2. approvedBy' \in {approvedBy} \cup permitted
    BY <1>9, <2>1 DEF CompleteWrite, InboxInv, VerdictsAreChecked
  <2>3. approvedBy' \in Users \cup {NoUser}
    BY <1>0, <1>9 DEF CompleteWrite, TypeOK
  <2> QED
    BY <1>9, <2>1, <2>2, <2>3, StatusInv DEF CompleteWrite
<1> QED
  BY <1>1, <1>2, <1>3, <1>4, <1>5, <1>6, <1>7, <1>8, <1>9 DEF Request
-----------------------------------------------------------------------------
(* What administrators, delegators and the clock do is observed: rights that are
   taken away were had, rights that are given are recorded. *)
LEMMA ObserveInv ==
  ASSUME InboxInv, Observe, UNCHANGED <<task, pc, loc, approvedBy>>,
         holds' \in [Users -> SUBSET Roles], override' \in [Users -> Limit],
         delegations' \subseteq Delegation, now' \in 0..MaxTime, changes' \in 0..MaxChanges,
         DelegationStartsFromHolder'
  PROVE  InboxInv'
<1> DEFINE delegate(u) == \E d \in delegations' :
             /\ d.to = u /\ d.active /\ d.starts <= now' /\ now' <= d.ends
             /\ \/ TaskRole \in d.roles
                \/ d.roles = {} /\ TaskRole \in holds'[d.from]
           account(u) == [admin |-> u \in Admins, override |-> override'[u],
                          roles |-> holds'[u]]
           holders == {u \in Users : TaskRole \in holds'[u]}
           able == {u \in Users : MayApprove(account(u), {TaskRole}, RoleLimit, Amount)}
<1>1. /\ held' = held \cup holders
      /\ entitled' = entitled \cup holders \cup {u \in Users : delegate(u)}
      /\ permitted' = permitted \cup able
      /\ roled' = roled \cup {u \in holders : pc[u] \in Claiming}
  BY DEF Observe
<1>2. held' \in SUBSET Users /\ entitled' \in SUBSET Users /\ permitted' \in SUBSET Users
      /\ roled' \in SUBSET Users
  BY <1>1 DEF InboxInv, TypeOK
<1>3. TypeOK'
  BY <1>2 DEF InboxInv, TypeOK
<1>4. \A u \in Users : TaskRole \in DelegatedRoles(u)' => delegate(u)
  BY DEF DelegatedRoles, Current
<1>5. \A u \in Users : Account(u)' = account(u)
  BY DEF Account
<1>6. held' \subseteq entitled' /\ \A u \in Users : TaskRole \in holds'[u] => u \in held'
  BY <1>1 DEF InboxInv, PresentIsObserved
<1>7. \A u \in Users : TaskRole \in DelegatedRoles(u)' => u \in entitled'
  BY <1>1, <1>4
<1>8. \A u \in Users : MayApprove(Account(u)', {TaskRole}, RoleLimit, Amount)
                         => u \in permitted'
  BY <1>1, <1>5
<1>a. \A u \in Users : pc'[u] \in Claiming /\ TaskRole \in holds'[u] => u \in roled'
  BY <1>1
<1>9. PresentIsObserved'
  BY <1>6, <1>7, <1>8, <1>a DEF PresentIsObserved
<1>10. roled \subseteq roled' /\ held \subseteq held' /\ entitled \subseteq entitled' /\ permitted \subseteq permitted'
  BY <1>1
<1>11. ClaimsAreChecked' /\ VerdictsAreChecked'
  BY <1>10 DEF InboxInv, ClaimsAreChecked, VerdictsAreChecked
<1>12. ClaimantIsAssignee' /\ ClaimantWasEntitled' /\ ActingForAnotherIsMarked'
       /\ ApprovalsWithinLimit'
  BY <1>2, <1>10 DEF InboxInv, ClaimantIsAssignee, ClaimantWasEntitled,
     ActingForAnotherIsMarked, ApprovalsWithinLimit
<1> QED
  BY <1>3, <1>9, <1>11, <1>12 DEF InboxInv

LEMMA ChangeTyped ==
  ASSUME TypeOK, Change
  PROVE  changes' \in 0..MaxChanges /\ UNCHANGED <<task, pc, loc, approvedBy>>
BY InboxAssumption DEF Change, TypeOK

(* The rights of delegators survive everything but a new delegation. *)
LEMMA HeldGrows ==
  ASSUME Observe PROVE held \subseteq held'
BY DEF Observe

LEMMA AdministrationInv ==
  ASSUME InboxInv, Administration
  PROVE  InboxInv'
<1>0. TypeOK /\ DelegationStartsFromHolder
  BY DEF InboxInv
<1>1. ASSUME NEW u \in Users, NEW r \in Roles, AssignRole(u, r) \/ RemoveRole(u, r)
      PROVE  InboxInv'
  <2>1. /\ Change /\ Observe /\ UNCHANGED <<override, delegations, now>>
        /\ holds' \in [Users -> SUBSET Roles]
    BY <1>0, <1>1 DEF AssignRole, RemoveRole, TypeOK
  <2>2. DelegationStartsFromHolder'
    BY <1>0, <2>1, HeldGrows DEF DelegationStartsFromHolder
  <2> QED
    BY <1>0, <2>1, <2>2, ChangeTyped, ObserveInv DEF TypeOK
<1>2. ASSUME NEW u \in Users, NEW n \in Overrides, SetOverride(u, n)
      PROVE  InboxInv'
  <2>1. /\ Change /\ Observe /\ UNCHANGED <<holds, delegations, now>>
        /\ override' \in [Users -> Limit]
    BY <1>0, <1>2, InboxAssumption DEF SetOverride, TypeOK
  <2>2. DelegationStartsFromHolder'
    BY <1>0, <2>1, HeldGrows DEF DelegationStartsFromHolder
  <2> QED
    BY <1>0, <2>1, <2>2, ChangeTyped, ObserveInv DEF TypeOK
<1>3. ASSUME NEW u \in Users, NEW v \in Users, NEW rs \in SUBSET Roles,
             NEW starts \in 0..MaxTime, NEW ends \in 0..MaxTime,
             CreateDelegation(u, v, rs, starts, ends)
      PROVE  InboxInv'
  <2> DEFINE d == [from |-> u, to |-> v, roles |-> rs, starts |-> starts, ends |-> ends,
                   active |-> TRUE]
  <2>1. /\ Change /\ Observe /\ UNCHANGED <<holds, override, now>>
        /\ delegations' = delegations \cup {d} /\ rs \subseteq holds[u]
    BY <1>3 DEF CreateDelegation
  <2>2. delegations' \subseteq Delegation
    <3>1. d \in Delegation
      BY DEF Delegation
    <3> HIDE DEF d
    <3> QED BY <1>0, <2>1, <3>1 DEF TypeOK
  <2>3. TaskRole \in rs => u \in held
    BY <2>1 DEF InboxInv, PresentIsObserved
  <2>4. DelegationStartsFromHolder'
    BY <1>0, <2>1, <2>3, HeldGrows DEF DelegationStartsFromHolder
  <2> QED
    BY <1>0, <2>1, <2>2, <2>4, ChangeTyped, ObserveInv DEF TypeOK
<1>4. ASSUME NEW d \in delegations, RevokeDelegation(d)
      PROVE  InboxInv'
  <2> DEFINE e == [d EXCEPT !.active = FALSE]
  <2>1. /\ Change /\ Observe /\ UNCHANGED <<holds, override, now>>
        /\ delegations' = (delegations \ {d}) \cup {e}
    BY <1>4 DEF RevokeDelegation
  <2>2. d \in Delegation
    BY <1>0 DEF TypeOK
  <2>3. e \in Delegation /\ e.roles = d.roles /\ e.from = d.from
    BY <2>2 DEF Delegation
  <2>4. delegations' \subseteq Delegation
    BY <1>0, <2>1, <2>3 DEF TypeOK
  <2>5. DelegationStartsFromHolder'
    BY <1>0, <2>1, <2>3, HeldGrows DEF DelegationStartsFromHolder
  <2> QED
    BY <1>0, <2>1, <2>4, <2>5, ChangeTyped, ObserveInv DEF TypeOK
<1>5. CASE Tick
  <2>1. now' \in 0..MaxTime /\ Observe
        /\ UNCHANGED <<task, pc, loc, approvedBy, holds, override, delegations, changes>>
    BY <1>0, <1>5, InboxAssumption DEF Tick, TypeOK
  <2>2. DelegationStartsFromHolder'
    BY <1>0, <2>1, HeldGrows DEF DelegationStartsFromHolder
  <2> QED
    BY <1>0, <2>1, <2>2, ObserveInv DEF TypeOK
<1> QED
  BY <1>1, <1>2, <1>3, <1>4, <1>5 DEF Administration

LEMMA InboxStutterInv ==
  ASSUME InboxInv, UNCHANGED vars PROVE InboxInv'
<1> USE DEF vars, admin, history
<1>1. TypeOK' /\ DelegationStartsFromHolder'
  BY DEF InboxInv, TypeOK, DelegationStartsFromHolder
<1>2. PresentIsObserved'
  BY DEF InboxInv, PresentIsObserved, DelegatedRoles, Current, Account
<1>3. ClaimsAreChecked' /\ VerdictsAreChecked'
  BY DEF InboxInv, ClaimsAreChecked, VerdictsAreChecked
<1>4. ClaimantIsAssignee' /\ ClaimantWasEntitled' /\ ActingForAnotherIsMarked'
      /\ ApprovalsWithinLimit'
  BY DEF InboxInv, ClaimantIsAssignee, ClaimantWasEntitled, ActingForAnotherIsMarked,
     ApprovalsWithinLimit
<1> QED
  BY <1>1, <1>2, <1>3, <1>4 DEF InboxInv

THEOREM InboxAlways == Spec => []InboxInv
<1>1. InboxInv /\ [Next]_vars => InboxInv'
  BY AdministrationInv, RequestInv, InboxStutterInv DEF Next
<1> QED
  BY <1>1, InboxInitInv, PTL DEF Spec
-----------------------------------------------------------------------------
(* Every column keeps its type. *)
THEOREM InboxTyped == Spec => []TypeOK
  BY InboxAlways, PTL DEF InboxInv

(* Claimant and assignee are never two people, so completeTask's "either" is one. *)
THEOREM OneHolder == Spec => []ClaimantIsAssignee
  BY InboxAlways, PTL DEF InboxInv

(* Nobody has a claim without having been entitled to it at some moment, however
   claims race with one another and with the withdrawal of roles and delegations. *)
THEOREM ClaimsAreEntitled == Spec => []ClaimantWasEntitled
  BY InboxAlways, PTL DEF InboxInv

(* A delegation passes on only what its author has held: authority does not chain. *)
THEOREM NoChaining == Spec => []DelegationStartsFromHolder
  BY InboxAlways, PTL DEF InboxInv

(* A claim by a user who held the role at no moment while it was handled bears the flag
   actedViaDelegation, the only trace of a delegation that the code keeps. *)
THEOREM DelegatedClaimsMarked == Spec => []ActingForAnotherIsMarked
  BY InboxAlways, PTL DEF InboxInv

(* Every approval was within a limit the approver had. *)
THEOREM ApprovalsWereCovered == Spec => []ApprovalsWithinLimit
  BY InboxAlways, PTL DEF InboxInv
=============================================================================
