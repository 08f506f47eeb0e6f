------------------------------- MODULE Strop --------------------------------
(* Integers as text (strop_fmt_uint64 and strop_fmt_uint64_padded of       *)
(* src/common/strop.c).  A character is a string of length one; its bytes  *)
(* in the encoding of the client are left out.                             *)
EXTENDS Integers, Sequences

Figures == <<"0", "1", "2", "3", "4", "5", "6", "7", "8", "9">>
Figure(d) == Figures[d + 1]
FigureValue(c) == CHOOSE v \in 0 .. 9 : Figure(v) = c
Repeat(c, k) == [i \in 1 .. k |-> c]

(* The last k digits.                                                      *)
strop_fmt_uint64_padded(v, k) == [i \in 1 .. k |-> Figure((v \div 10 ^ (k - i)) % 10)]

(* All the digits, with no zeros in front.                                 *)
strop_fmt_uint64(v) ==
  LET length == CHOOSE n \in 1 .. 10 : v \div 10 ^ (n - 1) < 10 /\ (n > 1 => v \div 10 ^ (n - 1) > 0)
  IN strop_fmt_uint64_padded(v, length)
=============================================================================
