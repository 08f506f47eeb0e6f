------------------------------ MODULE Numerals ------------------------------
(* What numbers written with digits are worth, as recurrences: the texts   *)
(* of numbers and the limbs of decimals are measured with them.            *)
EXTENDS Integers

(* A value that begins with first and becomes, n times, factor times what  *)
(* it was and a term more.                                                 *)
Linear(first, factor, terms, n) ==
  LET x[k \in 0 .. n] == IF k = 0 THEN first ELSE factor * x[k - 1] + terms[k] IN x[n]

(* v times ten to n.                                                       *)
Tens(v, n) == Linear(v, 10, [k \in 1 .. n |-> 0], n)
Ten(n) == Linear(1, 10, [k \in 1 .. n |-> 0], n)
=============================================================================
