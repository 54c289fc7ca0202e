----------------------------- MODULE MCStartup -----------------------------
(***************************************************************************)
(* Startup with the presets of seed.go, in its order and with its ids.     *)
(***************************************************************************)
EXTENDS Startup

MCTables == {"users", "incidents", "inspections", "items", "trainings", "certs"}

P(table, refers) == [table |-> table, refers |-> refers]

\* Users 2, 3 and 4 report, inspect and take part; inspection 1 has the items.
MCPresets ==
    << P("users", {}), P("users", {}), P("users", {}), P("users", {}),
       P("incidents", {<<"users", 3>>, <<"users", 4>>}),
       P("incidents", {<<"users", 3>>, <<"users", 4>>}),
       P("incidents", {<<"users", 2>>, <<"users", 4>>}),
       P("inspections", {<<"users", 3>>}), P("inspections", {<<"users", 3>>}),
       P("items", {<<"inspections", 1>>}), P("items", {<<"inspections", 1>>}),
       P("items", {<<"inspections", 1>>}),
       P("trainings", {<<"users", 4>>}), P("trainings", {}),
       P("certs", {<<"users", 4>>}), P("certs", {<<"users", 3>>}) >>

=============================================================================
