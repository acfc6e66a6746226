-------------------------- MODULE MCWorkflowDesign --------------------------
(* A tenant that starts with nothing or with one deployed workflow, a plan for
   two workflows, a good template and one whose transition names a state the
   template does not have; or, as another part of the run that shares no table
   with it, the catalog of templates. *)
EXTENDS WorkflowDesign, TemplateCatalog, TLC

VARIABLE part

MCInit == part \in {"design", "catalog"} /\ Init /\ CatalogInit
MCNext ==
  \/ part = "design" /\ Next /\ UNCHANGED <<part, catalogVars>>
  \/ part = "catalog" /\ CatalogNext /\ UNCHANGED <<part, vars>>
MCSpec == MCInit /\ [][MCNext]_<<part, vars, catalogVars>>

Good == [states |-> <<"new", "done">>, transitions |-> <<<<"new", "done">>>>, steps |-> 1,
         roles |-> {"manager"}, slugs |-> {"order"}, activate |-> TRUE]
Broken == [states |-> <<"new">>, transitions |-> <<<<"new", "done">>>>, steps |-> 1,
           roles |-> {"manager"}, slugs |-> {}, activate |-> FALSE]
Library == {Good, Broken}
Row1(table, i, r, none) == [j \in table |-> IF j = i THEN r ELSE none]
Empty == <<[w \in Workflows |-> NoWorkflow], [i \in StateIds |-> NoState],
           [i \in TransitionIds |-> NoTransition], [i \in StepIds |-> NoChild]>>
Deployed ==
  <<Row1(Workflows, "w1", [NoWorkflow EXCEPT !.status = "active"], NoWorkflow),
    [i \in StateIds |->
       CASE i = "s1" -> [wf |-> "w1", key |-> "new", used |-> TRUE]
         [] i = "s2" -> [wf |-> "w1", key |-> "done", used |-> TRUE]
         [] OTHER -> NoState],
    Row1(TransitionIds, "t1", [wf |-> "w1", from |-> "s1", to |-> "s2", moved |-> FALSE,
                               used |-> TRUE], NoTransition),
    Row1(StepIds, "a1", [wf |-> "w1", used |-> TRUE], NoChild)>>
Tables == {Empty, Deployed}
(* No role, a deactivated manager, or a guest that can be renamed to manager. *)
Roles == {[r \in RoleNames \X BOOLEAN |-> IF r = one THEN 1 ELSE 0] :
            one \in {<<"nobody", TRUE>>, <<"manager", FALSE>>, <<"guest", TRUE>>}}
=============================================================================
