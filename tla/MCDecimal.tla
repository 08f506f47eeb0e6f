----------------------------- MODULE MCDecimal -----------------------------
EXTENDS DecimalProps

MCMinExponent == -9
DecimalOf(sign, w, e, n) ==
  [sign |-> sign, e |-> e, n |-> n,
   m |-> [i \in Limbs |-> (w \div Base ^ i) % Base]]
Length(w) == Cardinality({k \in 0 .. 8 : w >= 10 ^ k})

MCLiterals ==
  {Zero, DecimalOf(1, 1, -5, 5)}
  \cup {DecimalOf(p[1], w, p[2], Length(w)) :
          p \in {<<1, -1>>, <<1, 2>>, <<-1, -1>>}, w \in {2, 15, 99, 101, 9999, 50001, 999999}}

(* Numbers to print: around 1, with zeros inside and at the end.           *)
MCNumbers ==
  {Zero, [Zero EXCEPT !.sign = -1]}
  \cup {DecimalOf(s, w, e, Length(w)) :
          s \in {1, -1}, w \in {7, 40, 99, 305, 1000, 90071, 200000}, e \in -6 .. 2}

MCFormats ==
  {<<>>, <<"s">>, <<"e">>, <<"d">>, <<"d", "d", "d">>, <<"d", "d", "d", "d", "d">>,
   <<"s", "d">>, <<"s", "d", "d", "d">>, <<"s", "d", "d", "d", "e">>, <<"d", "d", "e">>,
   <<"d", "s", "d", "d", "d", "d">>, <<"d", "d", "d", "s", "d", "d", "d">>, <<"d", "d", "d", "s">>,
   <<"d", "s", "d", "d", "d", "e">>, <<"d", "d", "s", "d", "d", "d", "e">>,
   <<"d", "d", "d", "d", "d", "d", "s", "d", "d", "d", "d", "d", "d">>,
   <<"d", "s", "s">>, <<"d", "e", "d">>, <<"d", "x">>}

MCColumns == {[precision |-> 0, scale |-> 0], [precision |-> 6, scale |-> 2], [precision |-> 3, scale |-> 3]}
=============================================================================
