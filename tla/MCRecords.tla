----------------------------- MODULE MCRecords -----------------------------
(* Two definitions, the second without a unique field yet, with a record of the
   same number in each or one record alone and room for two, and a definition
   that is not created yet: orders look up orders, the others look up orders.
   Two workflows are linked to orders, one writes the field of the record, one
   creates another order. *)
EXTENDS Records, TLC

RelatedDefinition == [e \in Entities |-> "orders"]
Links2 == ("w1" :> {"orders", "people"}) @@ ("w2" :> {"orders"})
Automations == ("w1" :> "update_field") @@ ("w2" :> "create_entity")
DefinitionsAtStart ==
  ("orders" :> [exists |-> TRUE, slug |-> "order", required |-> TRUE,
                unique |-> TRUE, version |-> 1])
  @@ ("people" :> [exists |-> TRUE, slug |-> "employee", required |-> FALSE,
                   unique |-> FALSE, version |-> 1])
  @@ ("items" :> NoDefinition)
Filled == [code: {"num", "big"}, link: {Null}] \cup [code: {"absent"}, link: {"r1"}]
Stored(e, c) == [status |-> "live", entity |-> e, by |-> "create", version |-> 1,
                 data |-> [code |-> c, link |-> Null], raced |-> FALSE, tested |-> TRUE,
                 moved |-> FALSE, born |-> e, wanted |-> Null, crossed |-> FALSE]
Start(e1, e2) == [r \in Rows |-> CASE r = "r1" -> Stored(e1, "numtext")
                                   [] r = "r2" -> Stored(e2, "num")
                                   [] OTHER -> FreeRow]
Tables == {Start("orders", "people"),
           [Start("orders", "people") EXCEPT !["r2"] = FreeRow]}
Forms == {[slug |-> "order", required |-> FALSE, unique |-> TRUE],
          [slug |-> "item", required |-> TRUE, unique |-> TRUE]}
\* Requests only differ by name.
Same == Permutations(Requests)
=============================================================================
