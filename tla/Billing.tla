------------------------------- MODULE Billing -------------------------------
(***************************************************************************)
(* Plans, the subscription of a company and its payments:                  *)
(* subscriptions.service.ts, the checkout and verify handlers of           *)
(* subscriptions.controller.ts and, from what chapa.service.ts asks of it, *)
(* the payment provider.                                                   *)
(***************************************************************************)
EXTENDS Naturals, FiniteSets

CONSTANTS
  Payers,      \* requests and process starts
  PlanIds, PlanNames, FreeName,
  Payments,    \* transaction references
  Nothing,
  MaxOrders    \* bound on requests, starts and administrator's edits

VARIABLES
  plan, subscription, payment,
  point, job, orders,
  doubled,  \* history: plan names two overlapping inserts were decided for
  chosen    \* history: the plan the company was last moved to by choice or payment

billingVars == <<plan, subscription, payment, point, job, orders, doubled, chosen>>

ASSUME OrdersAssumption == MaxOrders \in Nat
ASSUME NamesApart == FreeName \notin PlanNames /\ Nothing \notin PlanNames \cup {FreeName}

(* A name stands for the plans the seed's ILIKE pattern takes for one; free: the
   price is 0; hand is history: an administrator created or edited the plan. *)
Plan == [name : PlanNames \cup {FreeName, Nothing}, active : BOOLEAN, free : BOOLEAN,
         hand : BOOLEAN]
NoPlan == [name |-> Nothing, active |-> FALSE, free |-> FALSE, hand |-> FALSE]
Payment == [plan : PlanIds \cup {Nothing}, state : {"none", "open", "paid", "granted"}]
NoPayment == [plan |-> Nothing, state |-> "none"]
Job == [task : {"none", "start", "limit", "upgrade", "verify"}, todo : SUBSET PlanNames,
        name : PlanNames \cup {FreeName, Nothing}, plan : PlanIds \cup {Nothing},
        payment : Payments \cup {Nothing}]
NoJob == [task |-> "none", todo |-> {}, name |-> Nothing, plan |-> Nothing, payment |-> Nothing]
JobPoints == {"idle", "seed", "find", "find_free", "insert_plan", "insert", "change", "plan"}

BillingTypeOK ==
  /\ plan \in [PlanIds -> Plan] /\ subscription \in PlanIds \cup {Nothing}
  /\ payment \in [Payments -> Payment] /\ chosen \in PlanIds \cup {Nothing}
  /\ point \in [Payers -> JobPoints] /\ job \in [Payers -> Job]
  /\ orders \in 0..MaxOrders /\ doubled \subseteq PlanNames \cup {FreeName}

BillingInit ==
  /\ plan = [i \in PlanIds |-> NoPlan] /\ subscription = Nothing
  /\ payment = [t \in Payments |-> NoPayment] /\ chosen = Nothing
  /\ point = [p \in Payers |-> "idle"] /\ job = [p \in Payers |-> NoJob]
  /\ orders = 0 /\ doubled = {}
-----------------------------------------------------------------------------
Order(p, j, at) ==
  /\ point[p] = "idle" /\ orders < MaxOrders /\ orders' = orders + 1
  /\ point' = [point EXCEPT ![p] = at] /\ job' = [job EXCEPT ![p] = j]
  /\ UNCHANGED <<plan, subscription, payment, doubled, chosen>>
GoOn(p, at, j) == point' = [point EXCEPT ![p] = at] /\ job' = [job EXCEPT ![p] = j]
Stop(p) == GoOn(p, "idle", NoJob)
Named(n) == {i \in PlanIds : plan[i].name = n}
Unused == Named(Nothing)
ActivePlans == {i \in PlanIds \ Unused : plan[i].active}
FreePlans == {i \in ActivePlans : plan[i].free}
Untouched(n) == {i \in Named(n) : ~plan[i].hand}
NextPlan == IF Unused = {} THEN {} ELSE {CHOOSE i \in Unused : TRUE}

(* seedDefaultPlans, when a process starts: a plan found by its name gets its price
   and limits back, one that is missing is inserted. *)
StartProcess(p) == Order(p, [NoJob EXCEPT !.task = "start", !.todo = PlanNames], "seed")
SeedPlan(p) ==
  /\ point[p] = "seed"
  /\ \/ job[p].todo = {} /\ Stop(p) /\ UNCHANGED plan
     \/ \E n \in job[p].todo :
          IF Named(n) = {}
          THEN GoOn(p, "insert_plan", [job[p] EXCEPT !.todo = @ \ {n}, !.name = n])
               /\ UNCHANGED plan
          ELSE /\ \E i \in Named(n) : plan' = [plan EXCEPT ![i].free = FALSE]
               /\ GoOn(p, "seed", [job[p] EXCEPT !.todo = @ \ {n}])
  /\ UNCHANGED <<subscription, payment, orders, doubled, chosen>>
InsertPlan(p) ==
  /\ point[p] = "insert_plan"
  /\ \E i \in NextPlan :
       /\ plan' = [plan EXCEPT ![i] = [name |-> job[p].name, active |-> TRUE,
                                       free |-> job[p].name = FreeName, hand |-> FALSE]]
       /\ IF job[p].task = "start" THEN GoOn(p, "seed", [job[p] EXCEPT !.name = Nothing])
          ELSE GoOn(p, "insert", [job[p] EXCEPT !.plan = i])
  /\ doubled' = doubled \cup
       {n \in {job[p].name} : \E q \in Payers \ {p} : point[q] = "insert_plan" /\ job[q].name = n}
  /\ UNCHANGED <<subscription, payment, orders, chosen>>

(* checkLimit: findTenantSubscription, and a trial on the free plan for a company
   that has no subscription yet. *)
CheckLimit(p) == Order(p, [NoJob EXCEPT !.task = "limit"], "find")
(* upgradePlan and verify find the plan first. *)
Upgrade(p) ==
  \E i \in PlanIds \ Unused : Order(p, [NoJob EXCEPT !.task = "upgrade", !.plan = i], "find")
(* verify asks the provider, then matches the plan of the reference among the
   active ones. *)
Verify(p) ==
  \E t \in Payments :
    /\ payment[t].state \in {"paid", "granted"}
    /\ Order(p, [NoJob EXCEPT !.task = "verify", !.plan = payment[t].plan, !.payment = t], "plan")
MatchPlan(p) ==
  /\ point[p] = "plan"
  /\ IF job[p].plan \in ActivePlans THEN GoOn(p, "find", job[p]) ELSE Stop(p)
  /\ UNCHANGED <<plan, subscription, payment, orders, doubled, chosen>>
FindSubscription(p) ==
  /\ point[p] = "find"
  /\ IF subscription # Nothing
     THEN IF job[p].task = "limit" THEN Stop(p) ELSE GoOn(p, "change", job[p])
     ELSE GoOn(p, IF job[p].task = "limit" THEN "find_free" ELSE "insert", job[p])
  /\ UNCHANGED <<plan, subscription, payment, orders, doubled, chosen>>
FindFreePlan(p) ==
  /\ point[p] = "find_free"
  /\ IF FreePlans = {} THEN GoOn(p, "insert_plan", [job[p] EXCEPT !.name = FreeName])
     ELSE \E i \in FreePlans : GoOn(p, "insert", [job[p] EXCEPT !.plan = i])
  /\ UNCHANGED <<plan, subscription, payment, orders, doubled, chosen>>
Granted(p) == payment' = [t \in Payments |->
  IF t = job[p].payment THEN [payment[t] EXCEPT !.state = "granted"] ELSE payment[t]]
Choice(p) == chosen' = IF job[p].task = "limit" THEN chosen ELSE job[p].plan
CompanyIsAlwaysFree == TRUE  \* slip: subscriptions without a unique company
(* The one-to-one join column makes the company unique among subscriptions. *)
CompanyIsFree == subscription = Nothing
InsertSubscription(p) ==
  /\ point[p] = "insert"
  /\ IF CompanyIsFree
     THEN subscription' = job[p].plan /\ Choice(p) /\ Granted(p)
     ELSE UNCHANGED <<subscription, chosen, payment>>
  /\ Stop(p) /\ UNCHANGED <<plan, orders, doubled>>
ChangeSubscription(p) ==
  /\ point[p] = "change" /\ subscription' = job[p].plan /\ Choice(p) /\ Granted(p)
  /\ Stop(p) /\ UNCHANGED <<plan, orders, doubled>>
BillingFail(p) ==
  /\ point[p] # "idle" /\ Stop(p)
  /\ UNCHANGED <<plan, subscription, payment, orders, doubled, chosen>>
-----------------------------------------------------------------------------
(* checkout makes a reference for a plan; the customer pays it with the provider. *)
Checkout ==
  /\ orders < MaxOrders /\ orders' = orders + 1
  /\ \E i \in PlanIds \ Unused, t \in Payments :
       /\ payment[t] = NoPayment
       /\ payment' = [payment EXCEPT ![t] = [plan |-> i, state |-> "open"]]
  /\ UNCHANGED <<plan, subscription, point, job, doubled, chosen>>
CustomerPays ==
  /\ \E t \in Payments :
       payment[t].state = "open" /\ payment' = [payment EXCEPT ![t].state = "paid"]
  /\ UNCHANGED <<plan, subscription, point, job, orders, doubled, chosen>>
(* createPlan and updatePlan store the body of an administrator's request as it is:
   any name, a price or none, offered or withdrawn. *)
ByHand(i) ==
  \E n \in PlanNames \cup {FreeName}, on \in BOOLEAN, free \in BOOLEAN :
    plan' = [plan EXCEPT ![i] = [name |-> n, active |-> on, free |-> free, hand |-> TRUE]]
CreatePlan ==
  /\ orders < MaxOrders /\ orders' = orders + 1
  /\ \E i \in NextPlan : ByHand(i)
  /\ UNCHANGED <<subscription, payment, point, job, doubled, chosen>>
UpdatePlan ==
  /\ orders < MaxOrders /\ orders' = orders + 1
  /\ \E i \in PlanIds \ Unused : ByHand(i)
  /\ UNCHANGED <<subscription, payment, point, job, doubled, chosen>>

BillingNext ==
  \/ Checkout \/ CustomerPays \/ CreatePlan \/ UpdatePlan
  \/ \E p \in Payers :
       \/ StartProcess(p) \/ SeedPlan(p) \/ InsertPlan(p) \/ CheckLimit(p) \/ Upgrade(p)
       \/ Verify(p) \/ MatchPlan(p) \/ FindSubscription(p) \/ FindFreePlan(p)
       \/ InsertSubscription(p) \/ ChangeSubscription(p) \/ BillingFail(p)
BillingSpec == BillingInit /\ [][BillingNext]_billingVars
-----------------------------------------------------------------------------
(* A company that was moved to a plan by a payment or by choice stays on the plan
   it was last moved to: the trial that a limit check creates never replaces it,
   however the two overlap (subscriptions.service.ts:102-171). *)
PaidPlanHolds == chosen # Nothing => subscription = chosen
(* The service doubles a plan only when two processes that started together, or two
   trials, both missed it: among the plans of a name that no administrator created
   or edited there is one, whatever plans are created, renamed, priced and
   withdrawn around it (subscriptions.service.ts:68-88, 115-133, 193-201). *)
DoublePlanHasCause ==
  \A n \in PlanNames \cup {FreeName} : Cardinality(Untouched(n)) > 1 => n \in doubled
(* Billing keeps its types and both statements (subscriptions.service.ts:68-171). *)
BillingHolds == BillingTypeOK /\ PaidPlanHolds /\ DoublePlanHasCause
=============================================================================
