----------------------------- MODULE EntClient -----------------------------
(***************************************************************************)
(* One use of the generated client: a caller gets either a create or       *)
(* update builder from it, or a query builder, and calls its methods in    *)
(* any order.                                                              *)
(***************************************************************************)
EXTENDS EntBuilder, EntQuery

vars == <<builderVars, queryVars>>

Init == (BuilderInit /\ NoQuery) \/ (QueryInit /\ NoBuilder)

Next ==
    \/ BuilderStep /\ UNCHANGED queryVars
    \/ QueryStep /\ UNCHANGED builderVars

Spec == Init /\ [][Next]_vars
=============================================================================
