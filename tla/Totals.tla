-------------------------------- MODULE Totals --------------------------------
(***************************************************************************)
(* Sums of balances. A total is counted as the size of a set, and not      *)
(* folded, so that theorems can be proved about it.                        *)
(***************************************************************************)
EXTENDS Integers, FiniteSets

\* The units of each member of S, told apart by their owner
UnitsOf(S, units) == UNION {{x} \X (1 .. units[x]) : x \in S}

\* The sum of units[x] over the members of S
Total(S, units) == Cardinality(UnitsOf(S, units))
=============================================================================
