------------------------------- MODULE Keyset -------------------------------
(***************************************************************************)
(* Paging by key, as every scan of the telemetry store does it: the keys   *)
(* after a cursor, in order, up to a limit.  Keys are numbers.             *)
(***************************************************************************)
EXTENDS Naturals, FiniteSets

\* The first n members of S in key order: ORDER BY key LIMIT n.
FirstOf(S, n) == {x \in S : Cardinality({y \in S : y < x}) < n}
=============================================================================
