--------------------------- MODULE ApprovalLimits ---------------------------
(***************************************************************************)
(* How large an amount a user may approve (workflow-approval-limits.       *)
(* service.ts).  A limit is a natural number, or NoLimit.                  *)
(***************************************************************************)
EXTENDS Integers

CONSTANT NoLimit

ASSUME NoLimitAssumption == NoLimit \notin Nat

Limit == Nat \cup {NoLimit}

(* Slip: the most generous role wins. *)
GreatestLimit(limits) ==
  IF limits = {} THEN NoLimit
  ELSE CHOOSE n \in limits : \A m \in limits : m <= n

(* Math.min over the limits that are set, null when none is. *)
StrictestLimit(limits) ==
  IF limits = {} THEN NoLimit
  ELSE CHOOSE n \in limits : \A m \in limits : n <= m

(* getEffectiveLimit of a user [admin, override, roles] for a task assigned to
   the roles in taskRoles (one or none), whether the user holds them or not. *)
EffectiveLimit(user, taskRoles, roleLimit) ==
  IF user.admin THEN NoLimit
  ELSE IF user.override # NoLimit THEN user.override
  ELSE StrictestLimit({roleLimit[r] : r \in user.roles \cup taskRoles} \ {NoLimit})

(* assertCanApproveAmount, for an amount that is a number. *)
CanApprove(user, taskRoles, roleLimit, amount) ==
  LET limit == EffectiveLimit(user, taskRoles, roleLimit)
  IN limit = NoLimit \/ amount <= limit

(* The rule in words: nobody's limit but an administrator's or an override can
   be passed while one role, the task's included, forbids the amount. *)
MayApprove(user, taskRoles, roleLimit, amount) ==
  \/ user.admin
  \/ user.override # NoLimit /\ amount <= user.override
  \/ /\ user.override = NoLimit
     /\ \A r \in user.roles \cup taskRoles :
          roleLimit[r] = NoLimit \/ amount <= roleLimit[r]
=============================================================================
