------------------------------ MODULE MCDates -------------------------------
EXTENDS StropDate

(* Four hundred years and one more.                                        *)
MCDays == 0 .. 146097 + 366
MCTimes == {[hour |-> 0, min |-> 0, sec |-> 0], [hour |-> 23, min |-> 59, sec |-> 59]}
MCBadTimes == {[hour |-> 24, min |-> 0, sec |-> 0], [hour |-> 0, min |-> 60, sec |-> 0],
               [hour |-> 0, min |-> 0, sec |-> 60]}
MCAll == MCTimes \cup MCBadTimes

(* Around the ends of months, of a leap year, of a century and of the year *)
(* 9999, and parts of one and of several figures.                          *)
MCStamps ==
  {[day |-> d, sec |-> 0, micro |-> 0] :
     d \in {0, make_date(999, 12, 31), make_date(2000, 2, 29), make_date(2000, 3, 1),
            make_date(2000, 10, 9), make_date(2100, 12, 31), make_date(9999, 12, 31), make_date(10000, 1, 1)}}
  \cup {[day |-> make_date(2000, 2, 29), sec |-> s, micro |-> m] :
          s \in {9, 3599, 86399}, m \in {0, 9, 1999, 999999}}

AtMost(a, b) ==
  \/ a.day < b.day
  \/ a.day = b.day /\ (a.sec < b.sec \/ (a.sec = b.sec /\ a.micro <= b.micro))
MCStampPairs == {pair \in MCStamps \X MCStamps : AtMost(pair[1], pair[2])}

MCZones == {0, -90, 825}
YMD == <<"y", "y", "y", "y", "-", "m", "m", "-", "d", "d">>
HMS == <<"h", "h", ":", "m", "i", ":", "s", "s">>
MCTemplates ==
  {[fmt |-> YMD, finest |-> "day"],
   [fmt |-> YMD \o <<" ">> \o HMS, finest |-> "second"],                      \* of psql
   [fmt |-> YMD \o <<"t", "z">> \o HMS \o <<".", "f", "f", "f">>, finest |-> "milli"],
   [fmt |-> YMD \o HMS \o Repeat("f", 6), finest |-> "micro"],
   [fmt |-> YMD \o HMS \o Repeat("t", 6) \o <<"+", "t", "z">>, finest |-> "second"],  \* of psql
   [fmt |-> YMD \o <<"y", "d">> \o HMS, finest |-> "second"],
   [fmt |-> Repeat("y", 7) \o <<"m", "m", "m", "x", "d", "d", "d", "h", "x", "t">>, finest |-> "none"],
   [fmt |-> Repeat("f", 8) \o <<"s", "t", "z", "t", "z">>, finest |-> "none"],
   [fmt |-> YMD \o HMS \o YMD \o HMS, finest |-> "none"],                     \* too long
   [fmt |-> <<>>, finest |-> "none"]}
=============================================================================
