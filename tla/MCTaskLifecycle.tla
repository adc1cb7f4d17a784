-------------------------- MODULE MCTaskLifecycle --------------------------
(***************************************************************************)
(* Small instances of TaskLifecycle: an entitlement row, whose tasks cost  *)
(* one unit, and a credits row, whose tasks cost two.                      *)
(***************************************************************************)
EXTENDS TaskLifecycle, TLC

CONSTANTS entitlement, credits, p1, p2

MCCost == [a \in Accounts |-> IF a = credits THEN 2 ELSE 1]
\* one task can be admitted on the entitlement, two on the credits
MCGrant == [a \in Accounts |-> IF a = credits THEN 4 ELSE 1]
\* the goroutines of a process, and the processes, are interchangeable
MCSymmetry == Permutations(Slots) \cup Permutations(Instances)
MCProfileCap == [p \in Profiles |-> IF p = p1 THEN 2 ELSE 1]
=============================================================================
