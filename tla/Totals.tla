------------------------------- MODULE Totals -------------------------------
(***************************************************************************)
(* The sum of a function into the naturals, by counting: every unit held   *)
(* by x is a pair <<x, i>> with i in 1..f[x], and the total is the number  *)
(* of units.  Counting keeps the definition free of recursion, so that     *)
(* what it sums to can be proved from the cardinality theorems.            *)
(***************************************************************************)
EXTENDS Integers, FiniteSets

UnitsOf(f, x) == {x} \X (1..f[x])

Units(f) == UNION {UnitsOf(f, x) : x \in DOMAIN f}

Total(f) == Cardinality(Units(f))

=============================================================================
