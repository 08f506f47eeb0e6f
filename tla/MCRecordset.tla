---------------------------- MODULE MCRecordset -----------------------------
EXTENDS Recordset

(* All of up to four columns that may be null or not, with two bits to a   *)
(* byte of the mask, and up to two rows; a value is its place.  The zones  *)
(* of the first row have a lowest byte that is not 0.                      *)
MCNull == <<0, 0>>
MCRowValues == (0 .. 2) \X (0 .. 5)
MCZoneMarks == {1} \X (0 .. 5)
VarCols(n) == [1 .. n -> {[type |-> "varchar", nullable |-> b] : b \in BOOLEAN}]
RowsOf(cols, count) ==
  {rows \in [1 .. count -> [DOMAIN cols -> {TRUE, FALSE}]] :
     \A i \in 1 .. count : \A c \in DOMAIN cols : rows[i][c] => cols[c].nullable}
MCRecordsetOf(cols, nulls) ==
  [cols |-> cols,
   rows |-> [i \in DOMAIN nulls |-> [c \in DOMAIN cols |-> IF nulls[i][c] THEN MCNull ELSE <<i, c>>]]]
Plain(cols) == MCRecordsetOf(cols, [i \in 1 .. 2 |-> [c \in DOMAIN cols |-> FALSE]])

(* A time with a zone and a text, each of which may be null.               *)
Zoned == <<[type |-> "zoned", nullable |-> TRUE], [type |-> "varchar", nullable |-> TRUE]>>

NoRecordset == [cols |-> <<>>, rows |-> <<>>]
MCRecordsets ==
  UNION {UNION {{MCRecordsetOf(cols, nulls) : nulls \in RowsOf(cols, count)} : cols \in VarCols(n)} :
           n \in 0 .. 4, count \in 0 .. 2}
  \cup {MCRecordsetOf(Zoned, nulls) : nulls \in RowsOf(Zoned, 2)}
  \cup {Plain([c \in 1 .. 5 |-> [type |-> "varchar", nullable |-> TRUE]]),
        Plain(<<[type |-> "varchar", nullable |-> TRUE], [type |-> "fixed", nullable |-> FALSE]>>)}
=============================================================================
