----------------------------- MODULE MCColdTier -----------------------------
(***************************************************************************)
(* Instances of ColdTier for TLC.                                          *)
(***************************************************************************)
EXTENDS ColdTier

Create(name, def) == [kind |-> "create", name |-> name, def |-> def]
Alter(name, def) == [kind |-> "alter", name |-> name, def |-> def]

\* The ledger; the table; a view and a change of the table.
Versions ==
  << <<Create("schema_migrations", {})>>,
     <<Create("spans", {"value"})>>,
     <<Create("rollup", {}), Alter("spans", {"value", "labels"})>> >>
=============================================================================
