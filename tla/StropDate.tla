----------------------------- MODULE StropDate ------------------------------
(***************************************************************************)
(* Dates and timestamps as text (strop_fmt_dttm_all of src/common/strop.c):*)
(* one step for each turn of the loop over the template.  Two stamps go    *)
(* through the same template side by side, so that their texts can be      *)
(* compared; every field is as wide for one as for the other.              *)
(***************************************************************************)
EXTENDS Calendar, Strop, FiniteSetsExt

CONSTANTS
  StampPairs,     \* pairs of [day, sec, micro]
  Templates,      \* [fmt, finest]: characters, and the smallest unit shown
  Zones,          \* minutes
  DateBufSize     \* bytes left in the buffer

----------------------------------------------------------------------------
(* What the walk over a template takes next of what is left of it.         *)
RunOf(rest, c, most) ==
  Max({k \in 0 .. most : k <= Len(rest) /\ \A i \in 1 .. k : rest[i] = c})
Begins(rest, word) == Len(rest) >= Len(word) /\ SubSeq(rest, 1, Len(word)) = word
Words == {<<"m", "m">>, <<"m", "i">>, <<"d", "d">>, <<"h", "h">>, <<"s", "s">>, <<"t", "z">>}

(* The unit that is shown there: 1 for the year to 6 for the second, and   *)
(* 6 + k for k digits behind the point; 0 for none.                        *)
UnitOf(rest) ==
  CASE RunOf(rest, "y", 4) = 4 -> 1
    [] Begins(rest, <<"m", "m">>) -> 2
    [] Begins(rest, <<"d", "d">>) -> 3
    [] Begins(rest, <<"h", "h">>) -> 4
    [] Begins(rest, <<"m", "i">>) -> 5
    [] Begins(rest, <<"s", "s">>) -> 6
    [] RunOf(rest, "f", 6) > 0 -> 6 + RunOf(rest, "f", 6)
    [] OTHER -> 0
SizeOf(rest) ==
  CASE RunOf(rest, "y", 4) > 0 -> RunOf(rest, "y", 4)
    [] RunOf(rest, "f", 6) > 0 -> RunOf(rest, "f", 6)
    [] \E word \in Words : Begins(rest, word) -> 2
    [] OTHER -> 1

(* The units that a template shows, from each of its places on.            *)
UnitsFrom(f) ==
  LET from[p \in 0 .. Len(f)] ==
        IF p = Len(f) THEN <<>>
        ELSE LET rest == SubSeq(f, p + 1, Len(f))
             IN (IF UnitOf(rest) = 0 THEN <<>> ELSE <<UnitOf(rest)>>) \o from[p + SizeOf(rest)]
  IN from
DownTo(finest) ==
  CASE finest = "day"    -> <<1, 2, 3>>
    [] finest = "second" -> <<1, 2, 3, 4, 5, 6>>
    [] finest = "milli"  -> <<1, 2, 3, 4, 5, 6, 9>>
    [] finest = "micro"  -> <<1, 2, 3, 4, 5, 6, 12>>

Stamps == {s \in [day : Nat, sec : Nat, micro : Nat] : s.sec < 86400 /\ s.micro < 1000000}

ASSUME StropDateAssumption ==
  /\ DateBufSize \in Nat \ {0}
  /\ Zones \subseteq Int /\ \A tz \in Zones : -32768 < tz /\ tz < 32768   \* sint16, without the least one
  /\ StampPairs \subseteq Stamps \X Stamps
  /\ \A t \in Templates :
       /\ t.fmt \in Seq(STRING)
       /\ t.finest \in {"none", "day", "second", "milli", "micro"}
       /\ t.finest # "none" => UnitsFrom(t.fmt)[0] = DownTo(t.finest)

VARIABLES
  stamps,      \* the two, or <<>> before
  template,    \* the template
  fmt,         \* what is left of it
  tzminutes,
  date_texts,       \* the texts of the two so far
  dttm_ret     \* -1 while in the loop, then 0 or 1
stropDateVars == <<stamps, template, fmt, tzminutes, date_texts, dttm_ret>>

----------------------------------------------------------------------------
(* count characters of the template become a piece of each text; with no   *)
(* room for it the call ends, and the buffer's start has not moved.        *)
Puts(count, pieces) ==
  IF Len(date_texts[1]) + Len(pieces[1]) <= DateBufSize
  THEN /\ date_texts' = [i \in 1 .. 2 |-> date_texts[i] \o pieces[i]]
       /\ fmt' = SubSeq(fmt, count + 1, Len(fmt))
       /\ UNCHANGED dttm_ret
  ELSE /\ date_texts' = <<<<>>, <<>>>>
       /\ dttm_ret' = 1
       /\ UNCHANGED fmt

PutsNumbers(count, numbers, width) ==
  Puts(count, [i \in 1 .. 2 |-> strop_fmt_uint64_padded(numbers[i], width)])
PutsSame(count, piece) == Puts(count, [i \in 1 .. 2 |-> piece])

Years ==
  LET count == RunOf(fmt, "y", 4) IN
  /\ count > 0
  /\ IF count = 4 THEN PutsNumbers(4, [i \in 1 .. 2 |-> extract_year(stamps[i].day)], 4)
     ELSE PutsSame(count, Repeat("y", count))

Two(word, numbers) == Begins(fmt, word) /\ PutsNumbers(2, numbers, 2)
PairOfLetters ==
  \/ Two(<<"m", "m">>, [i \in 1 .. 2 |-> extract_month_of_year(stamps[i].day)])
  \/ Two(<<"m", "i">>, [i \in 1 .. 2 |-> (stamps[i].sec % 3600) \div 60])
  \/ Two(<<"d", "d">>, [i \in 1 .. 2 |-> extract_day_of_month(stamps[i].day)])
  \/ Two(<<"h", "h">>, [i \in 1 .. 2 |-> stamps[i].sec \div 3600])
  \/ Two(<<"s", "s">>, [i \in 1 .. 2 |-> stamps[i].sec % 60])

LowFraction ==          \* mutant: the last digits of the micros
  LET count == RunOf(fmt, "f", 6) IN
  count > 0 /\ PutsNumbers(count, [i \in 1 .. 2 |-> stamps[i].micro], count)

Fraction ==
  LET count == RunOf(fmt, "f", 6) IN
  /\ count > 0
  /\ PutsNumbers(count, [i \in 1 .. 2 |-> stamps[i].micro \div 10 ^ (6 - count)], count)

(* The sign is taken off for good.                                         *)
Zone ==
  LET minutes == IF tzminutes >= 0 THEN tzminutes ELSE -tzminutes IN
  /\ Begins(fmt, <<"t", "z">>)
  /\ PutsSame(2, <<IF tzminutes >= 0 THEN "+" ELSE "-">>
                 \o strop_fmt_uint64_padded(minutes \div 60, 2) \o <<":">>
                 \o strop_fmt_uint64_padded(minutes % 60, 2))
  /\ tzminutes' = minutes

OtherCharacter ==
  /\ fmt # <<>> /\ fmt[1] \notin {"y", "f"}
  /\ \A word \in Words : ~Begins(fmt, word)
  /\ PutsSame(1, <<fmt[1]>>)

Ends ==
  /\ fmt = <<>>
  /\ dttm_ret' = 0
  /\ UNCHANGED <<fmt, date_texts>>

----------------------------------------------------------------------------
StropDateInit ==
  /\ stamps = <<>> /\ template = <<>> /\ fmt = <<>> /\ tzminutes = 0
  /\ date_texts = <<<<>>, <<>>>> /\ dttm_ret = -1

(* strop_fmt_date has no micros, strop_fmt_timestamp no zone.              *)
strop_fmt_dttm_all(a, b, t, tz) ==
  /\ stamps' = <<a, b>> /\ template' = t /\ fmt' = t.fmt /\ tzminutes' = tz
  /\ UNCHANGED <<date_texts, dttm_ret>>

Formatting ==
  /\ stamps # <<>> /\ dttm_ret = -1
  /\ UNCHANGED <<stamps, template>>
  /\ \/ Years /\ UNCHANGED tzminutes
     \/ PairOfLetters /\ UNCHANGED tzminutes
     \/ Fraction /\ UNCHANGED tzminutes
     \/ Zone
     \/ OtherCharacter /\ UNCHANGED tzminutes
     \/ Ends /\ UNCHANGED tzminutes

StropDateNext ==
  \/ /\ stamps = <<>>
     /\ \E pair \in StampPairs, t \in Templates, tz \in Zones :
          strop_fmt_dttm_all(pair[1], pair[2], t, tz)
  \/ Formatting

StropDateSpec == StropDateInit /\ [][StropDateNext]_stropDateVars

----------------------------------------------------------------------------
(* What a template that goes down to finest can tell of a stamp.           *)
Shown(s, finest) ==
  CASE finest = "day"    -> <<s.day, 0, 0>>
    [] finest = "second" -> <<s.day, s.sec, 0>>
    [] finest = "milli"  -> <<s.day, s.sec, s.micro \div 1000>>
    [] finest = "micro"  -> <<s.day, s.sec, s.micro>>

FirstApart(s, t) == Min({k \in DOMAIN s : s[k] # t[k]})
Earlier(s, t) == s # t /\ s[FirstApart(s, t)] < t[FirstApart(s, t)]
SortsBefore(s, t) ==
  /\ Len(s) = Len(t) /\ s # t
  /\ FigureValue(s[FirstApart(s, t)]) < FigureValue(t[FirstApart(s, t)])

(* Texts of a template from the years down sort as what they stand for, by *)
(* as little as the template shows, up to the year 9999 (strop.c:124-346,  *)
(* grigorian.c:31-105): every field is in its place, of full width, and    *)
(* of its own part of the stamp.                                           *)
DatesSort ==
  dttm_ret = 0 /\ template.finest # "none" /\ (\A i \in 1 .. 2 : extract_year(stamps[i].day) <= 9999) =>
    LET s == Shown(stamps[1], template.finest)
        t == Shown(stamps[2], template.finest)
    IN /\ s = t <=> date_texts[1] = date_texts[2]
       /\ Earlier(s, t) => SortsBefore(date_texts[1], date_texts[2])
=============================================================================
