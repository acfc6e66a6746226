----------------------------- MODULE MCTenancy -----------------------------
(* Three parts of the administration that share no table: one workspace, its
   billing and its accounts.  Each behaviour is about one of them. *)
EXTENDS Tenancy, Billing, Accounts, TLC

VARIABLE part

MCInit == /\ part \in {"workspace", "bills", "people"}
          /\ TenancyInit /\ BillingInit /\ AccountsInit
          /\ part # "people" => /\ user = [u \in UserIds |-> NoUser]
                                /\ capacity = [m \in Companies |-> 0]
MCNext ==
  \/ part = "workspace" /\ TenancyNext /\ UNCHANGED <<part, billingVars, accountVars>>
  \/ part = "bills" /\ BillingNext /\ UNCHANGED <<part, tenancyVars, accountVars>>
  \/ part = "people" /\ AccountsNext /\ UNCHANGED <<part, tenancyVars, billingVars>>
MCSpec == MCInit /\ [][MCNext]_<<part, tenancyVars, billingVars, accountVars>>
(* Visits, payments and requests differ only by name; the three sets are one, and
   each behaviour is about one of them. *)
Same == Permutations(Actors)
=============================================================================
