--------------------------- MODULE LibraryProofs ---------------------------
(***************************************************************************)
(* Four parts of the program that do not touch each other.                 *)
(*                                                                         *)
(* The hash table is a map, for every number of entries, all keys and      *)
(* every hash function.                                                    *)
(*                                                                         *)
(* What a process logs goes to a log, and it adds a bounded amount to a    *)
(* log each time it opens it, for every number of sessions and             *)
(* descriptors, every threshold and every length of the messages.          *)
(*                                                                         *)
(* The calendar, for every date and every year: a year is an amount of     *)
(* centuries and of fours of years (Apart), so that what extract_year      *)
(* counts out of a day is what make_date counts into it; a day of a year   *)
(* is in one month only (OneMonth); and so taking apart and making are     *)
(* inverse of each other (MadeIsTaken, TakenIsMade).                       *)
(*                                                                         *)
(* The texts of dates, for every template: while two stamps are written,   *)
(* the characters of the template that are behind the walk have shown the  *)
(* first of its units, each by a field of one width (TextsAt), and the     *)
(* texts are in the order of those fields (Ordered).                       *)
(***************************************************************************)
EXTENDS Htable, Logger, StropDate, SequenceLemmas, SequenceTheorems, FiniteSetTheorems, TLAPS

Calls == [op : {"add"}, key : Keys, data : Data] \cup [op : {"search"}, key : Keys]
Entries == [key : Keys \cup {None}, data : Data \cup {None}]

(* The slots from h on, over the end of the table, that lie before i.      *)
Before(j, h, i) == IF h <= i THEN h <= j /\ j < i ELSE h <= j \/ j < i

Home(k)  == hfun[k] % n
Occupied == {i \in Slots : tbl[i].key # None}
Looked   == {j \in Slots : Before(j, Home(asked.key), hash)}

TableTypeOK ==
  /\ n \in Nat /\ used \in 0 .. n
  /\ n > 0 => tbl \in [Slots -> Entries] /\ hfun \in [Keys -> Nat]
  /\ asked # None => asked \in Calls /\ n > 0 /\ hash \in Slots /\ checked \in Nat

(* A key has one entry, nothing free lies before it from its hash on, and  *)
(* no more slots are taken than are counted.                               *)
KeysOnce ==
  \A i, j \in Slots : tbl[i].key # None /\ tbl[i].key = tbl[j].key => i = j
PathsFull ==
  \A i, j \in Slots :
    tbl[i].key # None /\ Before(j, Home(tbl[i].key), i) => tbl[j].key # None
Counted == Cardinality(Occupied) <= used

(* A call has met other keys only, and a search has counted them.          *)
Probed ==
  asked # None => \A j \in Slots : Before(j, Home(asked.key), hash) =>
                                     tbl[j].key \notin {None, asked.key}
Searched == asked # None /\ asked.op = "search" => Cardinality(Looked) = checked

TableInv ==
  /\ TableTypeOK
  /\ n > 0 => KeysOnce /\ PathsFull /\ Counted /\ Probed /\ Searched

----------------------------------------------------------------------------
(* A slot has one next to it, before which lies it and what lies before it *)
(* - or, when that is where one began, everything.                         *)
LEMMA StepAround ==
  ASSUME NEW N \in Nat, NEW h \in 0 .. N - 1, NEW i \in 0 .. N - 1, NEW nx,
         nx = IF i + 1 = N THEN 0 ELSE i + 1
  PROVE  /\ nx \in 0 .. N - 1
         /\ ~Before(i, h, i)
         /\ nx # h => \A j \in 0 .. N - 1 : Before(j, h, nx) <=> Before(j, h, i) \/ j = i
         /\ nx = h => \A j \in 0 .. N - 1 : Before(j, h, i) \/ j = i
  BY DEF Before

(* Of two slots one lies before the other.                                 *)
LEMMA BeforeTotal ==
  ASSUME NEW N \in Nat, NEW h \in 0 .. N - 1, NEW i \in 0 .. N - 1, NEW j \in 0 .. N - 1
  PROVE  i = j \/ Before(i, h, j) \/ Before(j, h, i)
  BY DEF Before

LEMMA NothingBefore ==
  ASSUME NEW N \in Nat, NEW h \in 0 .. N - 1, NEW j \in 0 .. N - 1
  PROVE  ~Before(j, h, h)
  BY DEF Before

(* The slots, and any of them, can be counted.                             *)
LEMMA SlotsCount ==
  ASSUME n \in Nat, NEW S \in SUBSET Slots
  PROVE  /\ IsFiniteSet(S)
         /\ Cardinality(S) \in Nat
         /\ Cardinality(S) <= n
         /\ Cardinality(S) = n => S = Slots
<1>1. IsFiniteSet(Slots) /\ Cardinality(Slots) = n
  BY FS_Interval DEF Slots
<1>2. IsFiniteSet(S) /\ Cardinality(S) <= Cardinality(Slots)
      /\ (Cardinality(Slots) = Cardinality(S) => Slots = S)
  BY <1>1, FS_Subset
<1> QED BY <1>1, <1>2, FS_CardinalityType

(* Where a key's hash leads.                                               *)
LEMMA HomeIsSlot ==
  ASSUME TableTypeOK, n > 0, NEW k \in Keys
  PROVE  Home(k) \in Slots
<1>1. hfun[k] \in Nat /\ n \in Nat /\ n > 0
  BY DEF TableTypeOK
<1> QED BY <1>1 DEF Home, Slots

(* A table that is not full has a free slot.                               *)
LEMMA FreeSlot ==
  ASSUME TableTypeOK, Counted, used < n
  PROVE  \E i \in Slots : tbl[i].key = None
<1> SUFFICES ASSUME \A i \in Slots : tbl[i].key # None PROVE FALSE
  OBVIOUS
<1>1. Occupied = Slots
  BY DEF Occupied
<1>2. Cardinality(Slots) = n
  BY FS_Interval DEF Slots, TableTypeOK
<1> QED BY <1>1, <1>2 DEF Counted, TableTypeOK

(* A probe that has come to a free slot has passed all that could hold the *)
(* key.                                                                    *)
LEMMA NotBeyondFree ==
  ASSUME TableInv, asked # None, tbl[hash].key = None, NEW i \in Slots
  PROVE  tbl[i].key # asked.key
<1> SUFFICES ASSUME tbl[i].key = asked.key PROVE FALSE
  OBVIOUS
<1>1. asked.key \in Keys /\ hash \in Slots /\ n > 0 /\ n \in Nat
  BY DEF TableInv, TableTypeOK, Calls
<1>2. Home(asked.key) \in Slots
  BY <1>1, HomeIsSlot DEF TableInv
<1>3. i = hash \/ Before(i, Home(asked.key), hash) \/ Before(hash, Home(asked.key), i)
  BY <1>1, <1>2, BeforeTotal DEF Slots
<1>4. asked.key # None
  BY <1>1, HtableAssumption DEF HtableAssumption
<1>5. i # hash
  BY <1>4
<1>6. ~Before(i, Home(asked.key), hash)
  BY <1>1 DEF TableInv, Probed
<1>7. ~Before(hash, Home(asked.key), i)
  BY <1>1, <1>4 DEF TableInv, PathsFull
<1> QED BY <1>3, <1>5, <1>6, <1>7

(* A search that has counted as many as there are has passed them all.     *)
LEMMA NotBeyondUsed ==
  ASSUME TableInv, asked # None, asked.op = "search", ~ProbesOn,
         tbl[hash].key \notin {None, asked.key}, NEW i \in Slots
  PROVE  tbl[i].key # asked.key
<1>1. /\ asked.key \in Keys /\ hash \in Slots /\ n > 0 /\ n \in Nat
      /\ checked \in Nat /\ used \in Nat /\ Home(asked.key) \in Slots
  BY HomeIsSlot DEF TableInv, TableTypeOK, Calls
<1>2. hash \notin Looked
  BY <1>1, StepAround DEF Looked, Slots
<1>3. Looked \subseteq Slots /\ Cardinality(Looked) = checked
  BY <1>1 DEF TableInv, Searched, Looked
<1>4. IsFiniteSet(Looked)
  BY <1>1, <1>3, SlotsCount
<1>5. Cardinality(Looked \cup {hash}) = checked + 1
  BY <1>2, <1>3, <1>4, FS_AddElement
<1>6. Looked \cup {hash} \subseteq Occupied
  BY <1>1 DEF TableInv, Probed, Looked, Occupied
<1>7. /\ Cardinality(Occupied) <= checked + 1
      /\ IsFiniteSet(Occupied) /\ Cardinality(Occupied) \in Nat
  <2>1. Occupied \subseteq Slots
    BY DEF Occupied
  <2>2. IsFiniteSet(Occupied) /\ Cardinality(Occupied) \in Nat
    BY <1>1, <2>1, SlotsCount
  <2>3. used <= checked + 1 /\ Cardinality(Occupied) <= used
    BY <1>1 DEF ProbesOn, TableInv, Counted
  <2> QED BY <1>1, <2>2, <2>3
<1>8. Looked \cup {hash} = Occupied
  <2>1. /\ Cardinality(Looked \cup {hash}) <= Cardinality(Occupied)
        /\ Cardinality(Occupied) = Cardinality(Looked \cup {hash}) =>
             Occupied = Looked \cup {hash}
    BY <1>6, <1>7, FS_Subset
  <2> QED BY <1>1, <1>5, <1>7, <2>1
<1>9. CASE i \in Occupied
  BY <1>8, <1>9, <1>1 DEF TableInv, Probed, Looked
<1>10. CASE i \notin Occupied
  BY <1>10, <1>1, HtableAssumption DEF Occupied, HtableAssumption
<1> QED BY <1>9, <1>10

----------------------------------------------------------------------------
(* TableInv is inductive, an action at a time.                             *)
LEMMA InvCreate ==
  ASSUME TableInv, NEW size \in TableSizes, NEW f \in Hashes, htable_create(size, f)
  PROVE  TableInv'
<1>1. /\ n = 0 /\ n' = size /\ used' = 0 /\ hfun' = f /\ asked' = asked
      /\ tbl' = [i \in 0 .. size - 1 |-> Empty]
  BY DEF htable_create, probe
<1>2. size \in Nat /\ size > 0 /\ f \in [Keys -> Nat]
  BY HtableAssumption DEF HtableAssumption
<1>3. asked = None
  BY <1>1 DEF TableInv, TableTypeOK
<1>4. \A i \in Slots' : tbl'[i] = Empty
  BY <1>1 DEF Slots
<1>5. TableTypeOK'
  BY <1>1, <1>2, <1>3 DEF TableTypeOK, Slots, Empty, Entries
<1>6. Occupied' = {}
  BY <1>4 DEF Occupied, Empty
<1>7. Counted'
  BY <1>1, <1>6, FS_EmptySet DEF Counted
<1>8. KeysOnce' /\ PathsFull'
  BY <1>4 DEF KeysOnce, PathsFull, Empty
<1> QED BY <1>1, <1>3, <1>5, <1>7, <1>8 DEF TableInv, Probed, Searched

(* What the invariant says of the entries alone stays while they do.       *)
LEMMA EntriesStay ==
  ASSUME TableInv, UNCHANGED htable
  PROVE  n > 0 => (KeysOnce /\ PathsFull /\ Counted)'
<1>1. n' = n /\ used' = used /\ tbl' = tbl /\ hfun' = hfun
  BY DEF htable
<1>2. Slots' = Slots /\ (\A k : Home(k)' = Home(k))
  BY <1>1 DEF Slots, Home
<1>3. Occupied' = Occupied
  BY <1>1, <1>2 DEF Occupied
<1> QED BY <1>1, <1>2, <1>3 DEF TableInv, KeysOnce, PathsFull, Counted

LEMMA InvAsks ==
  ASSUME TableInv, NEW call \in Calls, Asks(call)
  PROVE  TableInv'
<1>1. /\ n > 0 /\ asked' = call /\ hash' = hfun[call.key] % n /\ checked' = 0
      /\ UNCHANGED htable
  BY DEF Asks
<1>2. n' = n /\ used' = used /\ tbl' = tbl /\ hfun' = hfun /\ Slots' = Slots
  BY <1>1 DEF htable, Slots
<1>3. call.key \in Keys
  BY DEF Calls
<1>4. Home(call.key) \in Slots /\ hash' = Home(call.key) /\ Home(call.key)' = Home(call.key)
  BY <1>1, <1>2, <1>3, HomeIsSlot DEF TableInv, Home
<1>5. \A j \in Slots : ~Before(j, Home(call.key), hash')
  BY <1>4, NothingBefore DEF TableInv, TableTypeOK, Slots
<1>6. TableTypeOK'
  BY <1>1, <1>2, <1>4 DEF TableInv, TableTypeOK
<1>7. Probed'
  BY <1>1, <1>2, <1>4, <1>5 DEF Probed
<1>8. Looked' = {}
  BY <1>1, <1>2, <1>4, <1>5 DEF Looked
<1>9. Searched'
  BY <1>1, <1>8, FS_EmptySet DEF Searched
<1> QED BY <1>1, <1>6, <1>7, <1>9, EntriesStay DEF TableInv

(* A call that returns leaves no probe.                                    *)
LEMMA InvReturns ==
  ASSUME TableInv, NEW ret, Return(ret), UNCHANGED htable
  PROVE  TableInv'
<1>1. asked' = None
  BY DEF Return
<1>2. n' = n /\ used' = used /\ tbl' = tbl /\ hfun' = hfun /\ Slots' = Slots
  BY DEF htable, Slots
<1>3. TableTypeOK'
  BY <1>1, <1>2 DEF TableInv, TableTypeOK
<1> QED BY <1>1, <1>2, <1>3, EntriesStay DEF TableInv, Probed, Searched

(* A probe goes on to a slot that is not the one it began with: one of     *)
(* those it has not looked at is free, or not counted.                     *)
LEMMA AddGoesOn ==
  ASSUME TableInv, htable_add_probes
  PROVE  NextSlot # Home(asked.key)
<1> SUFFICES ASSUME NextSlot = Home(asked.key) PROVE FALSE
  OBVIOUS
<1>1. /\ n \in Nat /\ n > 0 /\ asked # None /\ asked.key \in Keys /\ hash \in Slots
      /\ tbl[hash].key # None /\ used < n
  BY DEF htable_add_probes, TableInv, TableTypeOK, Calls, Full
<1>2. Home(asked.key) \in Slots
  BY <1>1, HomeIsSlot DEF TableInv
<1>3. \A j \in Slots : Before(j, Home(asked.key), hash) \/ j = hash
  BY <1>1, <1>2, StepAround DEF Slots, NextSlot
<1>4. \A j \in Slots : tbl[j].key # None
  BY <1>1, <1>3 DEF TableInv, Probed
<1> QED BY <1>1, <1>4, FreeSlot DEF TableInv

LEMMA SearchGoesOn ==
  ASSUME TableInv, htable_search_probes
  PROVE  NextSlot # Home(asked.key)
<1> SUFFICES ASSUME NextSlot = Home(asked.key) PROVE FALSE
  OBVIOUS
<1>1. /\ n \in Nat /\ n > 0 /\ asked # None /\ asked.op = "search" /\ asked.key \in Keys
      /\ hash \in Slots /\ checked \in Nat /\ checked + 1 < used /\ used <= n /\ used \in Nat
  BY DEF htable_search_probes, TableInv, TableTypeOK, Calls, ProbesOn
<1>2. Home(asked.key) \in Slots
  BY <1>1, HomeIsSlot DEF TableInv
<1>3. \A j \in Slots : Before(j, Home(asked.key), hash) \/ j = hash
  BY <1>1, <1>2, StepAround DEF Slots, NextSlot
<1>4. Looked \cup {hash} = Slots
  BY <1>1, <1>3 DEF Looked
<1>5. hash \notin Looked
  BY <1>1, <1>2, StepAround DEF Looked, Slots
<1>6. IsFiniteSet(Looked) /\ Cardinality(Looked) = checked
  BY <1>1, SlotsCount DEF TableInv, Searched, Looked
<1>7. Cardinality(Looked \cup {hash}) = checked + 1
  BY <1>5, <1>6, FS_AddElement
<1>8. Cardinality(Slots) = n
  BY <1>1, FS_Interval DEF Slots
<1> QED BY <1>1, <1>4, <1>7, <1>8

(* What both loops do to the probe.                                        *)
LEMMA InvProbes ==
  ASSUME TableInv, asked # None, tbl[hash].key \notin {None, asked.key},
         NextSlot # Home(asked.key),
         hash' = NextSlot, UNCHANGED <<htable, asked>>,
         checked' \in Nat, asked.op = "search" => checked' = checked + 1
  PROVE  TableInv'
<1>1. /\ n \in Nat /\ n > 0 /\ asked \in Calls /\ asked.key \in Keys /\ hash \in Slots
      /\ checked \in Nat
  BY DEF TableInv, TableTypeOK, Calls
<1>2. /\ n' = n /\ used' = used /\ tbl' = tbl /\ hfun' = hfun /\ Slots' = Slots /\ asked' = asked
      /\ Home(asked.key)' = Home(asked.key)
  BY DEF htable, Slots, Home
<1>3. Home(asked.key) \in Slots
  BY <1>1, HomeIsSlot DEF TableInv
<1>4. /\ NextSlot \in Slots /\ ~Before(hash, Home(asked.key), hash)
      /\ \A j \in Slots : Before(j, Home(asked.key), NextSlot) <=>
                            Before(j, Home(asked.key), hash) \/ j = hash
  BY <1>1, <1>3, StepAround DEF Slots, NextSlot
<1>5. TableTypeOK'
  BY <1>1, <1>2, <1>4 DEF TableInv, TableTypeOK
<1>6. Probed'
  BY <1>1, <1>2, <1>4 DEF TableInv, Probed
<1>7. Looked' = Looked \cup {hash}
  BY <1>1, <1>2, <1>4 DEF Looked
<1>8. ASSUME asked.op = "search" PROVE Searched'
  <2>1. hash \notin Looked
    BY <1>4 DEF Looked
  <2>2. IsFiniteSet(Looked) /\ Cardinality(Looked) = checked
    BY <1>1, <1>8, SlotsCount DEF TableInv, Searched, Looked
  <2>3. Cardinality(Looked \cup {hash}) = checked + 1
    BY <2>1, <2>2, FS_AddElement
  <2> QED BY <1>7, <1>8, <2>3 DEF Searched
<1>9. Searched'
  BY <1>2, <1>8 DEF Searched
<1> QED BY <1>1, <1>2, <1>5, <1>6, <1>9, EntriesStay DEF TableInv

(* An entry goes where its key is, or to the first free slot on its way,   *)
(* and then its key is nowhere else.                                       *)
LEMMA InvStores ==
  ASSUME TableInv, htable_add_stores
  PROVE  TableInv'
<1>1. /\ n \in Nat /\ n > 0 /\ asked # None /\ asked \in Calls /\ asked.op = "add"
      /\ asked.key \in Keys /\ hash \in Slots /\ used \in Nat /\ used < n
      /\ tbl \in [Slots -> Entries]
  BY DEF htable_add_stores, TableInv, TableTypeOK, Calls, Full
<1>2. asked.data \in Data /\ asked.key # None
  BY <1>1, HtableAssumption DEF Calls, HtableAssumption
<1>3. /\ n' = n /\ hfun' = hfun /\ used' = used + 1 /\ asked' = None /\ Slots' = Slots
  BY DEF htable_add_stores, Return, Slots
<1>4. /\ tbl' = [tbl EXCEPT ![hash] = [key |-> asked.key, data |-> asked.data]]
      /\ tbl[hash].key \in {None, asked.key}
  BY DEF htable_add_stores
<1>5. /\ tbl' \in [Slots -> Entries]
      /\ tbl'[hash].key = asked.key
      /\ \A i \in Slots : i # hash => tbl'[i] = tbl[i]
  BY <1>1, <1>2, <1>4 DEF Entries
<1>6. TableTypeOK'
  BY <1>1, <1>3, <1>5 DEF TableInv, TableTypeOK
<1>7. \A i \in Slots : i # hash => tbl[i].key # asked.key
  <2>1. CASE tbl[hash].key = None
    BY <1>1, <2>1, NotBeyondFree
  <2>2. CASE tbl[hash].key = asked.key
    BY <1>1, <1>2, <2>2 DEF TableInv, KeysOnce
  <2> QED BY <1>4, <2>1, <2>2
<1>8. KeysOnce'
  BY <1>1, <1>3, <1>5, <1>7 DEF TableInv, KeysOnce
<1>9. \A j \in Slots : tbl[j].key # None => tbl'[j].key # None
  BY <1>2, <1>5
<1>10. PathsFull'
  <2> SUFFICES ASSUME NEW i \in Slots, NEW j \in Slots, tbl'[i].key # None,
                      Before(j, Home(tbl'[i].key), i)
               PROVE  tbl'[j].key # None
    BY <1>3 DEF PathsFull, Home
  <2>1. CASE i = hash
    BY <1>1, <1>5, <1>9, <2>1 DEF TableInv, Probed
  <2>2. CASE i # hash
    <3>1. tbl'[i] = tbl[i]
      BY <1>5, <2>2
    <3>2. Before(j, Home(tbl[i].key), i) /\ tbl[i].key # None
      BY <3>1
    <3> QED BY <1>1, <1>9, <3>2 DEF TableInv, PathsFull
  <2> QED BY <2>1, <2>2
<1>11. Occupied' = Occupied \cup {hash}
  BY <1>1, <1>2, <1>3, <1>5 DEF Occupied
<1>12. Counted'
  <2>1. IsFiniteSet(Occupied) /\ Cardinality(Occupied) \in Nat
    BY <1>1, SlotsCount DEF Occupied
  <2>2. Cardinality(Occupied \cup {hash}) <= Cardinality(Occupied) + 1
    BY <2>1, FS_AddElement
  <2>3. Cardinality(Occupied) <= used
    BY <1>1 DEF TableInv, Counted
  <2>4. Cardinality(Occupied \cup {hash}) \in Nat
    BY <2>1, FS_AddElement, FS_CardinalityType
  <2> QED BY <1>1, <1>3, <1>11, <2>1, <2>2, <2>3, <2>4 DEF Counted
<1> QED BY <1>3, <1>6, <1>8, <1>10, <1>12 DEF TableInv, Probed, Searched

LEMMA InvStep ==
  ASSUME TableInv, [HtableNext]_htableVars
  PROVE  TableInv'
<1>1. ASSUME NEW size \in TableSizes, NEW f \in Hashes, htable_create(size, f)
      PROVE  TableInv'
  BY <1>1, InvCreate
<1>2. ASSUME NEW call \in Calls, Asks(call) PROVE TableInv'
  BY <1>2, InvAsks
<1>3. CASE htable_add_refuses
  BY <1>3, InvReturns DEF htable_add_refuses
<1>4. CASE htable_add_probes
  <2>1. checked' \in Nat /\ asked.op # "search"
    BY <1>4 DEF htable_add_probes, TableInv, TableTypeOK
  <2> QED BY <1>4, <2>1, AddGoesOn, InvProbes DEF htable_add_probes, htable
<1>5. CASE htable_add_stores
  BY <1>5, InvStores
<1>6. CASE htable_search_probes
  <2>1. checked' = checked + 1 /\ checked' \in Nat
    BY <1>6 DEF htable_search_probes, TableInv, TableTypeOK
  <2> QED BY <1>6, <2>1, SearchGoesOn, InvProbes DEF htable_search_probes, htable
<1>7. CASE htable_search_ends
  BY <1>7, InvReturns DEF htable_search_ends
<1>8. CASE UNCHANGED htableVars
  <2>1. UNCHANGED htable /\ UNCHANGED probe
    BY <1>8 DEF htableVars
  <2>2. /\ n' = n /\ used' = used /\ tbl' = tbl /\ hfun' = hfun
        /\ asked' = asked /\ hash' = hash /\ checked' = checked
    BY <2>1 DEF htable, probe
  <2>3. Slots' = Slots /\ Home(asked.key)' = Home(asked.key)
    BY <2>2 DEF Slots, Home
  <2>4. Looked' = Looked
    BY <2>2, <2>3 DEF Looked
  <2> QED BY <2>1, <2>2, <2>3, <2>4, EntriesStay DEF TableInv, TableTypeOK, Probed, Searched
<1>9. \A k \in Keys, d \in Data : [op |-> "add", key |-> k, data |-> d] \in Calls
  BY DEF Calls
<1>10. \A k \in Keys : [op |-> "search", key |-> k] \in Calls
  BY DEF Calls
<1> QED BY <1>1, <1>2, <1>3, <1>4, <1>5, <1>6, <1>7, <1>8, <1>9, <1>10 DEF HtableNext

LEMMA InvHolds == HtableSpec => []TableInv
<1>1. HtableInit => TableInv
  BY DEF HtableInit, TableInv, TableTypeOK
<1> QED BY <1>1, InvStep, PTL DEF HtableSpec

(* The loop of htable_add ends: an entry that the count lets in has a slot *)
(* to go to, though what is counted is calls and not slots (htable.c:50-74). *)
THEOREM EntryFindsSlot == HtableSpec => []AddFindsSlot
<1>1. TableInv => AddFindsSlot
  <2> SUFFICES ASSUME TableInv, asked # None, ~Full
               PROVE  \E i \in Slots : tbl[i].key \in {None, asked.key}
    BY DEF AddFindsSlot
  <2>1. n > 0 /\ used < n
    BY DEF TableInv, TableTypeOK, Full
  <2> QED BY <2>1, FreeSlot DEF TableInv
<1> QED BY <1>1, InvHolds, PTL

----------------------------------------------------------------------------
(* What is stored under a key is what its entry holds.                     *)
LEMMA StoredAt ==
  ASSUME TableInv, n > 0, NEW i \in Slots, NEW k \in Keys, tbl[i].key = k
  PROVE  Stored[k] = tbl[i].data
<1>1. k # None
  BY HtableAssumption DEF HtableAssumption
<1>2. \A j \in Slots : tbl[j].key = k => j = i
  BY <1>1 DEF TableInv, KeysOnce
<1>3. (CHOOSE j \in Slots : tbl[j].key = k) = i
  BY <1>2
<1> QED BY <1>3 DEF Stored

LEMMA StoredNowhere ==
  ASSUME NEW k \in Keys, \A i \in Slots : tbl[i].key # k
  PROVE  Stored[k] = None
  BY DEF Stored

(* A slot filled is an entry of the map.                                   *)
LEMMA StoresTakes ==
  ASSUME TableInv, htable_add_stores
  PROVE  Map!Take
<1>1. /\ n \in Nat /\ n > 0 /\ asked # None /\ asked \in Calls /\ asked.op = "add"
      /\ asked.key \in Keys /\ hash \in Slots /\ used \in Nat /\ used < n
      /\ tbl \in [Slots -> Entries]
  BY DEF htable_add_stores, TableInv, TableTypeOK, Calls, Full
<1>2. /\ n' = n /\ used' = used + 1 /\ asked' = None /\ returned' = 0 /\ Slots' = Slots
      /\ tbl' = [tbl EXCEPT ![hash] = [key |-> asked.key, data |-> asked.data]]
      /\ tbl[hash].key \in {None, asked.key}
  BY DEF htable_add_stores, Return, Slots
<1>3. TableInv'
  BY InvStores
<1>4. /\ tbl'[hash] = [key |-> asked.key, data |-> asked.data]
      /\ \A i \in Slots : i # hash => tbl'[i] = tbl[i]
  BY <1>1, <1>2
<1>5. Stored'[asked.key] = asked.data
  <2>1. (n > 0)' /\ hash \in Slots' /\ tbl'[hash].key = asked.key /\ tbl'[hash].data = asked.data
    BY <1>1, <1>2, <1>4
  <2> DEFINE i == hash
             k == asked.key
  <2>2. k # None
    BY <1>1, HtableAssumption DEF HtableAssumption
  <2>3. \A j \in Slots : tbl'[j].key = k => j = i
    BY <1>2, <1>3, <2>1, <2>2 DEF TableInv, KeysOnce
  <2>4. (CHOOSE j \in Slots : tbl'[j].key = k) = i
    BY <1>1, <2>1, <2>3
  <2> QED BY <1>1, <1>2, <2>1, <2>4 DEF Stored
<1>6. ASSUME NEW k \in Keys, k # asked.key PROVE Stored'[k] = Stored[k]
  <2>1. k # None
    BY HtableAssumption DEF HtableAssumption
  <2>2. tbl[hash].key # k /\ tbl'[hash].key # k
    BY <1>2, <1>4, <1>6, <2>1
  <2>3. \A j \in Slots : (tbl'[j].key = k) <=> (tbl[j].key = k)
    BY <1>4, <2>2
  <2>4. CASE \E j \in Slots : tbl[j].key = k
    <3>1. PICK j \in Slots : tbl[j].key = k
      BY <2>4
    <3>2. j # hash /\ tbl'[j] = tbl[j]
      BY <1>4, <2>2, <3>1
    <3>3. Stored[k] = tbl[j].data
      BY <1>1, <3>1, StoredAt
    <3>4. \A i \in Slots : tbl'[i].key = k => i = j
      BY <1>1, <2>1, <2>3, <3>1 DEF TableInv, KeysOnce
    <3>5. (CHOOSE i \in Slots : tbl'[i].key = k) = j
      BY <2>3, <3>1, <3>4
    <3>6. Stored'[k] = tbl'[j].data
      BY <1>2, <2>3, <3>1, <3>5 DEF Stored
    <3> QED BY <3>2, <3>3, <3>6
  <2>5. CASE \A j \in Slots : tbl[j].key # k
    BY <1>2, <2>3, <2>5 DEF Stored
  <2> QED BY <2>4, <2>5
<1>7. Stored' = [Stored EXCEPT ![asked.key] = asked.data]
  <2>1. DOMAIN Stored = Keys /\ DOMAIN Stored' = Keys
    BY DEF Stored
  <2>2. Stored' = [k \in Keys |-> Stored'[k]] /\ Stored = [k \in Keys |-> Stored[k]]
    BY DEF Stored
  <2> QED BY <1>5, <1>6, <2>1, <2>2
<1>8. n # 0 /\ n' # 0 /\ n - used # 0 /\ n' - used' = n - used - 1
  BY <1>1, <1>2
<1> QED BY <1>1, <1>2, <1>7, <1>8 DEF Map!Take

(* A search that ends answers what the map has under its key.              *)
LEMMA SearchFinds ==
  ASSUME TableInv, htable_search_ends
  PROVE  Map!Find
<1>1. /\ n > 0 /\ asked # None /\ asked \in Calls /\ asked.op = "search"
      /\ asked.key \in Keys /\ hash \in Slots
  BY DEF htable_search_ends, TableInv, TableTypeOK, Calls
<1>2. /\ UNCHANGED htable /\ asked' = None
      /\ returned' = IF tbl[hash].key = asked.key THEN tbl[hash].data ELSE None
      /\ tbl[hash].key \in {None, asked.key} \/ ~ProbesOn
  BY DEF htable_search_ends, Return
<1>3. returned' = Stored[asked.key]
  <2>1. CASE tbl[hash].key = asked.key
    BY <1>1, <1>2, <2>1, StoredAt
  <2>2. CASE tbl[hash].key = None
    <3>1. \A i \in Slots : tbl[i].key # asked.key
      BY <1>1, <2>2, NotBeyondFree
    <3> QED BY <1>1, <1>2, <3>1, StoredNowhere
  <2>3. CASE tbl[hash].key \notin {None, asked.key}
    <3>1. \A i \in Slots : tbl[i].key # asked.key
      BY <1>1, <1>2, <2>3, NotBeyondUsed
    <3> QED BY <1>1, <1>2, <3>1, StoredNowhere
  <2> QED BY <2>1, <2>2, <2>3
<1>4. n' = n /\ used' = used /\ Stored' = Stored
  BY <1>2 DEF htable, Stored, Slots
<1> QED BY <1>1, <1>2, <1>3, <1>4 DEF Map!Find

(* A table just made has no entries.                                       *)
LEMMA CreatesEmpty ==
  ASSUME TableInv, NEW size \in TableSizes, NEW f \in Hashes, htable_create(size, f)
  PROVE  Map!Create
<1>1. /\ n = 0 /\ n' = size /\ used' = 0 /\ UNCHANGED probe
      /\ tbl' = [i \in 0 .. size - 1 |-> Empty]
  BY DEF htable_create
<1>2. size \in Nat /\ size > 0
  BY HtableAssumption DEF HtableAssumption
<1>3. asked = None /\ asked' = asked /\ returned' = returned
  BY <1>1 DEF TableInv, TableTypeOK, probe
<1>4. ASSUME NEW k \in Keys PROVE Stored'[k] = None /\ Stored[k] = None
  <2>1. k # None
    BY HtableAssumption DEF HtableAssumption
  <2>2. ~ \E i \in Slots : tbl[i].key = k
    BY <1>1 DEF Slots
  <2>3. ~ \E i \in Slots' : tbl'[i].key = k
    BY <1>1, <2>1 DEF Slots, Empty
  <2> QED BY <2>2, <2>3 DEF Stored
<1>5. Stored' = Stored
  <2>1. Stored' = [k \in Keys |-> Stored'[k]] /\ Stored = [k \in Keys |-> Stored[k]]
    BY DEF Stored
  <2> QED BY <1>4, <2>1
<1>6. n' # 0 /\ n' - used' \in Nat \ {0}
  BY <1>1, <1>2
<1> QED BY <1>1, <1>3, <1>5, <1>6 DEF Map!Create

(* Every step of the table is one of the map, or none of it.               *)
LEMMA StepIsMapStep ==
  ASSUME TableInv, [HtableNext]_htableVars
  PROVE  [Map!MapNext]_(Map!mapVars)
<1>1. ASSUME NEW size \in TableSizes, NEW f \in Hashes, htable_create(size, f)
      PROVE  Map!MapNext
  BY <1>1, CreatesEmpty DEF Map!MapNext
<1>2. ASSUME UNCHANGED htable
      PROVE  n' = n /\ used' = used /\ Stored' = Stored
  BY <1>2 DEF htable, Stored, Slots
<1>3. ASSUME NEW call \in Calls, Asks(call) PROVE Map!MapNext
  <2>1. n > 0 /\ asked = None /\ asked' = call /\ returned' = None /\ UNCHANGED htable
    BY <1>3 DEF Asks
  <2>2. n # 0 /\ n - used # None
    BY <2>1, HtableAssumption DEF HtableAssumption, TableInv, TableTypeOK
  <2> QED BY <1>2, <2>1, <2>2 DEF Map!MapNext, Map!Ask, Map!Calls, Calls
<1>4. CASE htable_add_refuses
  <2>1. /\ asked # None /\ asked.op = "add" /\ used = n /\ UNCHANGED htable
        /\ asked' = None /\ returned' = -1 /\ n \in Nat /\ n # 0
    BY <1>4 DEF htable_add_refuses, Full, Return, TableInv, TableTypeOK
  <2>2. n - used = 0
    BY <2>1
  <2> QED BY <1>2, <2>1, <2>2 DEF Map!MapNext, Map!Refuse
<1>5. CASE htable_add_probes
  BY <1>2, <1>5 DEF htable_add_probes, htable, Map!mapVars
<1>6. CASE htable_add_stores
  BY <1>6, StoresTakes DEF Map!MapNext
<1>7. CASE htable_search_probes
  BY <1>2, <1>7 DEF htable_search_probes, htable, Map!mapVars
<1>8. CASE htable_search_ends
  BY <1>8, SearchFinds DEF Map!MapNext
<1>9. CASE UNCHANGED htableVars
  BY <1>2, <1>9 DEF htableVars, probe, Map!mapVars
<1>10. \A k \in Keys, d \in Data : [op |-> "add", key |-> k, data |-> d] \in Calls
  BY DEF Calls
<1>11. \A k \in Keys : [op |-> "search", key |-> k] \in Calls
  BY DEF Calls
<1> QED BY <1>1, <1>3, <1>4, <1>5, <1>6, <1>7, <1>8, <1>9, <1>10, <1>11 DEF HtableNext

(* Open addressing in an array is a map: a search finds what was added     *)
(* last under its key and nothing else, however keys collide and wrap      *)
(* around, and an entry is refused when as many were added as the table    *)
(* was made for (htable.c:26-114).                                         *)
THEOREM TableIsMap == HtableSpec => ImplementsMap
<1>1. HtableInit => Map!MapInit
  <2> SUFFICES ASSUME HtableInit PROVE Map!MapInit
    OBVIOUS
  <2>1. n = 0 /\ asked = None /\ returned = None
    BY DEF HtableInit
  <2>2. \A k \in Keys : ~ \E i \in Slots : tbl[i].key = k
    BY <2>1 DEF Slots
  <2>3. Stored = [k \in Keys |-> None]
    BY <2>2 DEF Stored
  <2> QED BY <2>1, <2>3 DEF Map!MapInit
<1> QED BY <1>1, StepIsMapStep, InvHolds, PTL DEF HtableSpec, ImplementsMap, Map!MapSpec


----------------------------------------------------------------------------
(* The lowest free descriptor.                                             *)

(* Every set of numbers that is not empty has a least one, and Lowest is   *)
(* one of the set.                                                         *)
LEMMA LowestIsOne ==
  ASSUME NEW S \in SUBSET Nat, S # {}
  PROVE  Lowest(S) \in S
<1>1. \E x \in S : \A y \in S : x <= y
  BY LeastOne
<1> QED BY <1>1 DEF Lowest

LEMMA FreeOne ==
  ASSUME NEW S \in SUBSET Descriptors, S # {}
  PROVE  Lowest(S) \in S
<1>1. S \in SUBSET Nat
  BY LoggerAssumption DEF LoggerAssumption
<1> QED BY <1>1, LowestIsOne

----------------------------------------------------------------------------
(* Types.                                                                  *)

Objects == {"free", "log", "listener", "client"}
Places == {"none", "accept", "fork", "forked", "child", "session"}
Writings == [left : MsgLens, total : Nat]
Counts == [Procs -> [Logs -> Nat]]

LoggerTypeOK ==
  /\ at \in [Procs -> Places]
  /\ fds \in [Procs -> [Descriptors -> Objects]]
  /\ current_log \in [Procs -> Descriptors \cup {-1}]
  /\ log_file_size \in [Procs -> Nat]
  /\ writing \in [Procs -> {<<>>} \cup Writings]
  /\ close_failed \in [Procs -> BOOLEAN]
  /\ messages \in Nat /\ failures \in Nat
  /\ now \in Logs /\ file \in [Procs -> Logs]
  /\ put \in Counts /\ opened \in Counts /\ errors \in Counts

(* The log a process writes to is one, unless it failed to close one.      *)
LogIsLog ==
  \A p \in Procs : current_log[p] # -1 /\ ~close_failed[p] => fds[p][current_log[p]] = "log"

(* What a process may have put into a log it opened so often.              *)
Allowed(times) == times * Room
Within(p, log) == put[p][log] <= Allowed(opened[p][log]) + errors[p][log]

(* For the log that is open there is room left, as much as is not counted. *)
(* A write that fails before anything of its message was taken leaves the  *)
(* largest total there is, and the loop.                                   *)
CountIs(p, log) ==
  IF Quiet(p)
  THEN put[p][log] + Room <= Allowed(opened[p][log]) + errors[p][log] + log_file_size[p]
  ELSE \/ /\ writing[p].total <= writing[p].left
          /\ put[p][log] + Room
               <= Allowed(opened[p][log]) + errors[p][log] + log_file_size[p] + writing[p].total
       \/ /\ writing[p].total = SizeModulus - 1
          /\ put[p][log] + Room + 1
               <= Allowed(opened[p][log]) + errors[p][log] + log_file_size[p]

Accounted(p) ==
  /\ current_log[p] # -1 => log_file_size[p] < log_file_size_threshold
  /\ \A log \in Logs : Within(p, log)
  /\ HasLog(p) => CountIs(p, file[p])

LogIsCounted == \A p \in Procs : Accounted(p)

NoneIsQuiet ==
  \A p \in Procs : at[p] = "none" => Quiet(p)

LoggerInv == LoggerTypeOK /\ LogIsLog /\ LogIsCounted /\ NoneIsQuiet

----------------------------------------------------------------------------
(* Counting.                                                               *)

LEMMA RoomIsNumber ==
  /\ log_file_size_threshold \in Nat \ {0} /\ MAX_LOG_MSG_LEN \in Nat
  /\ Room \in Nat /\ Room = log_file_size_threshold - 1 + MAX_LOG_MSG_LEN
BY LoggerAssumption DEF LoggerAssumption, Room

LEMMA OneMoreTime ==
  ASSUME NEW times \in Nat
  PROVE  /\ Allowed(times) \in Nat /\ Allowed(times + 1) = Allowed(times) + Room
         /\ Allowed(0) = 0 /\ Allowed(1) = Room
<1>1. \A a, b \in Nat : a * b \in Nat /\ (a + 1) * b = a * b + b /\ 0 * b = 0 /\ 1 * b = b
  OBVIOUS
<1>2. Room \in Nat
  BY RoomIsNumber
<1> HIDE DEF Room
<1>3. Allowed(times) \in Nat /\ Allowed(times + 1) = Allowed(times) + Room
  BY <1>1, <1>2 DEF Allowed
<1>4. Allowed(0) = 0 /\ Allowed(1) = Room
  BY <1>1, <1>2 DEF Allowed
<1> QED BY <1>3, <1>4

LEMMA MoreIsMore ==
  ASSUME NEW counts \in Counts, NEW p \in Procs, NEW log \in Logs, NEW k \in Nat
  PROVE  /\ More(counts, p, log, k) \in Counts
         /\ More(counts, p, log, k)[p][log] = counts[p][log] + k
         /\ \A other \in Logs \ {log} : More(counts, p, log, k)[p][other] = counts[p][other]
         /\ \A q \in Procs \ {p} : More(counts, p, log, k)[q] = counts[q]
<1>1. counts[p] \in [Logs -> Nat] /\ counts[p][log] + k \in Nat
  BY DEF Counts
<1> DEFINE row == [counts[p] EXCEPT ![log] = counts[p][log] + k]
<1>2. /\ row \in [Logs -> Nat] /\ row[log] = counts[p][log] + k
      /\ \A other \in Logs \ {log} : row[other] = counts[p][other]
  BY <1>1
<1>3. More(counts, p, log, k) = [counts EXCEPT ![p] = row]
  BY DEF More
<1> HIDE DEF row
<1> QED BY <1>2, <1>3 DEF Counts

(* A table in which one process counts n more for a log of its own, or     *)
(* nothing, where it has none open.                                        *)
Grown(counts, after, p, log, k, has) ==
  /\ after \in Counts
  /\ has => after[p][log] = counts[p][log] + k
  /\ has => \A other \in Logs \ {log} : after[p][other] = counts[p][other]
  /\ ~has => after = counts
  /\ \A q \in Procs \ {p} : after[q] = counts[q]

LEMMA Grows ==
  ASSUME NEW counts \in Counts, NEW after, NEW p \in Procs, NEW log \in Logs, NEW k \in Nat,
         NEW has \in BOOLEAN, after = IF has THEN More(counts, p, log, k) ELSE counts
  PROVE  Grown(counts, after, p, log, k, has)
<1>1. CASE has
  <2>1. after = More(counts, p, log, k)
    BY <1>1
  <2> HIDE DEF Counts
  <2>2. /\ More(counts, p, log, k) \in Counts
        /\ More(counts, p, log, k)[p][log] = counts[p][log] + k
        /\ \A other \in Logs \ {log} : More(counts, p, log, k)[p][other] = counts[p][other]
        /\ \A q \in Procs \ {p} : More(counts, p, log, k)[q] = counts[q]
    BY MoreIsMore
  <2>3. /\ after \in Counts
        /\ after[p][log] = counts[p][log] + k
        /\ \A other \in Logs \ {log} : after[p][other] = counts[p][other]
        /\ \A q \in Procs \ {p} : after[q] = counts[q]
    BY <2>1, <2>2
  <2> QED BY <1>1, <2>3 DEF Grown
<1>2. CASE ~has
  BY <1>2 DEF Grown
<1> QED BY <1>1, <1>2

LEMMA KeptIsGrown ==
  ASSUME NEW counts \in Counts, NEW after, NEW p \in Procs, NEW log \in Logs,
         NEW has \in BOOLEAN, after = counts
  PROVE  Grown(counts, after, p, log, 0, has)
<1>1. counts[p][log] \in Nat
  BY DEF Counts
<1> QED BY <1>1 DEF Grown

(* A step that leaves what a process counts and its logs alone.            *)
LEMMA AccountedIsKept ==
  ASSUME NEW p \in Procs, Accounted(p),
         put'[p] = put[p], opened'[p] = opened[p], errors'[p] = errors[p], file'[p] = file[p],
         log_file_size'[p] = log_file_size[p], writing'[p] = writing[p],
         current_log'[p] = current_log[p], HasLog(p)' => HasLog(p)
  PROVE  Accounted(p)'
BY DEF Accounted, Within, CountIs, Quiet

(* The numbers of one process and one log.                                 *)
LEMMA Numbers ==
  ASSUME LoggerTypeOK, NEW p \in Procs, NEW log \in Logs
  PROVE  /\ put[p][log] \in Nat /\ opened[p][log] \in Nat /\ errors[p][log] \in Nat
         /\ log_file_size[p] \in Nat /\ file[p] \in Logs /\ now \in Logs
         /\ Allowed(opened[p][log]) \in Nat
<1>1. put[p][log] \in Nat /\ opened[p][log] \in Nat /\ errors[p][log] \in Nat
  BY DEF LoggerTypeOK, Counts
<1>2. log_file_size[p] \in Nat /\ file[p] \in Logs /\ now \in Logs
  BY DEF LoggerTypeOK
<1> QED BY <1>1, <1>2, OneMoreTime

----------------------------------------------------------------------------
(* The listener starts with a log of its own.                              *)
LEMMA LoggerStarts == LoggerInit => LoggerInv
<1> SUFFICES ASSUME LoggerInit PROVE LoggerInv
  OBVIOUS
<1> DEFINE log == Lowest(Descriptors)
           sock == Lowest(Descriptors \ {log})
           first == [NoLogs EXCEPT ![0] = 1]
<1>1. log \in Descriptors /\ -1 \notin Descriptors
  BY FreeOne, LoggerAssumption DEF LoggerAssumption
<1>2. /\ at = [p \in Procs |-> IF p = Listener THEN "accept" ELSE "none"]
      /\ fds = [p \in Procs |-> [d \in Descriptors |->
                  IF p = Listener /\ d = log THEN "log"
                  ELSE IF p = Listener /\ d = sock THEN "listener" ELSE "free"]]
      /\ current_log = [p \in Procs |-> IF p = Listener THEN log ELSE -1]
      /\ log_file_size = [p \in Procs |-> 0]
      /\ writing = [p \in Procs |-> <<>>]
      /\ close_failed = [p \in Procs |-> FALSE]
      /\ messages = 0 /\ failures = 0
      /\ now = 0 /\ file = [p \in Procs |-> 0]
      /\ put = [p \in Procs |-> NoLogs] /\ errors = [p \in Procs |-> NoLogs]
      /\ opened = [p \in Procs |-> IF p = Listener THEN first ELSE NoLogs]
  BY DEF LoggerInit
<1>3. /\ 0 \in Logs /\ NoLogs \in [Logs -> Nat] /\ \A l \in Logs : NoLogs[l] = 0
      /\ first \in [Logs -> Nat] /\ first[0] = 1
  <2>1. 0 \in Logs
    BY LoggerAssumption DEF LoggerAssumption, Logs
  <2> QED BY <2>1 DEF NoLogs
<1> HIDE DEF log, sock, first
<1>4. at \in [Procs -> Places] /\ fds \in [Procs -> [Descriptors -> Objects]]
  BY <1>2 DEF Places, Objects
<1>5. /\ now \in Logs /\ file \in [Procs -> Logs]
      /\ put \in Counts /\ errors \in Counts /\ opened \in Counts
  BY <1>2, <1>3 DEF Counts
<1>6. LoggerTypeOK
  BY <1>1, <1>2, <1>4, <1>5 DEF LoggerTypeOK
<1>7. LogIsLog
  BY <1>1, <1>2 DEF LogIsLog
<1>8. ASSUME NEW p \in Procs PROVE Accounted(p)
  <2>1. log_file_size[p] = 0 /\ 0 < log_file_size_threshold
    BY <1>2, RoomIsNumber
  <2>2. \A l \in Logs : put[p][l] = 0 /\ errors[p][l] = 0
    BY <1>2, <1>3
  <2>3. \A l \in Logs : Within(p, l)
    BY <1>6, <2>2, Numbers DEF Within
  <2>4. HasLog(p) => CountIs(p, file[p])
    <3> SUFFICES ASSUME HasLog(p) PROVE CountIs(p, file[p])
      OBVIOUS
    <3>1. p = Listener
      BY <1>2 DEF HasLog
    <3>2. file[p] = 0 /\ opened[p][0] = 1 /\ Quiet(p)
      BY <1>2, <1>3, <3>1 DEF Quiet
    <3>3. Allowed(opened[p][0]) = Room /\ Room \in Nat
      BY <3>2, OneMoreTime, RoomIsNumber
    <3>4. put[p][0] = 0 /\ errors[p][0] = 0
      BY <1>3, <2>2
    <3> QED BY <2>1, <3>2, <3>3, <3>4 DEF CountIs
  <2> QED BY <2>1, <2>3, <2>4 DEF Accounted
<1>9. NoneIsQuiet
  BY <1>2 DEF NoneIsQuiet, Quiet
<1> QED BY <1>6, <1>7, <1>8, <1>9 DEF LoggerInv, LogIsCounted

(* A process that opens or closes anything but its log keeps what is       *)
(* counted and the log.                                                    *)
LEMMA LogIsKept ==
  ASSUME LoggerInv, at' \in [Procs -> Places],
         UNCHANGED <<current_log, log_file_size, writing, close_failed, messages, failures,
                     file, put, opened, errors>>,
         now' \in Logs,
         \A p \in Procs : at'[p] = "none" => at[p] = "none" \/ Quiet(p),
         fds' \in [Procs -> [Descriptors -> Objects]],
         \A p \in Procs : \A d \in Descriptors : fds[p][d] = "log" <=> fds'[p][d] = "log"
  PROVE  LoggerInv'
<1>1. LoggerTypeOK'
  BY DEF LoggerInv, LoggerTypeOK
<1>2. \A p \in Procs : current_log[p] \in Descriptors \cup {-1}
  BY DEF LoggerInv, LoggerTypeOK
<1>3. LogIsLog'
  <2> SUFFICES ASSUME NEW p \in Procs, current_log[p] # -1, ~close_failed[p]
               PROVE  fds'[p][current_log[p]] = "log"
    BY DEF LogIsLog
  <2>1. fds[p][current_log[p]] = "log" /\ current_log[p] \in Descriptors
    BY <1>2 DEF LoggerInv, LogIsLog
  <2> QED BY <2>1
<1>4. LogIsCounted'
  <2> SUFFICES ASSUME NEW p \in Procs PROVE Accounted(p)'
    BY DEF LogIsCounted
  <2>1. HasLog(p)' => HasLog(p)
    BY <1>2 DEF HasLog
  <2>2. Accounted(p)
    BY DEF LoggerInv, LogIsCounted
  <2> QED BY <2>1, <2>2, AccountedIsKept
<1>5. NoneIsQuiet'
  BY DEF LoggerInv, NoneIsQuiet, Quiet
<1> QED BY <1>1, <1>3, <1>4, <1>5 DEF LoggerInv

LEMMA AcceptKeepsLog == LoggerInv /\ accept => LoggerInv'
<1> SUFFICES ASSUME LoggerInv, accept PROVE LoggerInv'
  OBVIOUS
<1> DEFINE d == Lowest(Free(Listener))
<1>1. d \in Free(Listener) /\ Listener \in Procs
  BY FreeOne DEF accept, Free, Procs
<1>2. /\ fds' = [fds EXCEPT ![Listener][d] = "client"]
      /\ at' = [at EXCEPT ![Listener] = "fork"]
      /\ UNCHANGED loggerVars
  BY DEF accept
<1> HIDE DEF d
<1>3. d \in Descriptors /\ fds[Listener][d] = "free"
  BY <1>1 DEF Free
<1>4. at \in [Procs -> Places] /\ fds \in [Procs -> [Descriptors -> Objects]] /\ now \in Logs
  BY DEF LoggerInv, LoggerTypeOK
<1>5. at' \in [Procs -> Places] /\ fds' \in [Procs -> [Descriptors -> Objects]]
  BY <1>2, <1>4 DEF Places, Objects
<1>6. \A p \in Procs : \A e \in Descriptors : fds[p][e] = "log" <=> fds'[p][e] = "log"
  BY <1>1, <1>2, <1>3, <1>4
<1>7. \A p \in Procs : at'[p] = "none" => at[p] = "none"
  BY <1>2, <1>4
<1>8. UNCHANGED <<current_log, log_file_size, writing, close_failed, messages, failures,
                  now, file, put, opened, errors>>
  BY <1>2 DEF loggerVars, logsVars
<1> QED BY <1>4, <1>5, <1>6, <1>7, <1>8, LogIsKept

LEMMA CloseKeepsLog ==
  ASSUME LoggerInv, NEW p \in Procs, NEW object \in Objects \ {"log"}, CloseOf(p, object),
         at' \in [Procs -> Places], UNCHANGED loggerVars,
         \A q \in Procs : at'[q] = "none" => at[q] = "none" \/ Quiet(q)
  PROVE  LoggerInv'
<1>1. fds \in [Procs -> [Descriptors -> Objects]] /\ now \in Logs
  BY DEF LoggerInv, LoggerTypeOK
<1>2. fds' = [fds EXCEPT ![p] = [d \in Descriptors |->
                             IF fds[p][d] = object THEN "free" ELSE fds[p][d]]]
  BY DEF CloseOf
<1>3. fds' \in [Procs -> [Descriptors -> Objects]]
  BY <1>1, <1>2 DEF Objects
<1>4. \A q \in Procs : \A e \in Descriptors : fds[q][e] = "log" <=> fds'[q][e] = "log"
  BY <1>1, <1>2
<1>5. UNCHANGED <<current_log, log_file_size, writing, close_failed, messages, failures,
                  now, file, put, opened, errors>>
  BY DEF loggerVars, logsVars
<1> QED BY <1>1, <1>3, <1>4, <1>5, LogIsKept

LEMMA ClosesKeepLog ==
  ASSUME LoggerInv, NEW p \in Procs, CloseListener(p) \/ CloseClient(p)
  PROVE  LoggerInv'
<1>1. at \in [Procs -> Places]
  BY DEF LoggerInv, LoggerTypeOK
<1>2. CASE CloseListener(p)
  <2>1. CloseOf(p, "listener") /\ UNCHANGED loggerVars /\ at' \in [Procs -> Places]
    BY <1>1, <1>2 DEF CloseListener, Places
  <2>2. \A q \in Procs : at'[q] = "none" => at[q] = "none" \/ Quiet(q)
    BY <1>1, <1>2 DEF CloseListener
  <2> QED BY <2>1, <2>2, CloseKeepsLog DEF Objects
<1>3. CASE CloseClient(p)
  <2>1. CloseOf(p, "client") /\ UNCHANGED loggerVars /\ at' \in [Procs -> Places]
    BY <1>1, <1>3 DEF CloseClient, Places
  <2>2. \A q \in Procs : at'[q] = "none" => at[q] = "none" \/ Quiet(q)
    BY <1>1, <1>3 DEF CloseClient
  <2> QED BY <2>1, <2>2, CloseKeepsLog DEF Objects
<1> QED BY <1>2, <1>3

LEMMA TickKeepsLog == LoggerInv /\ Tick => LoggerInv'
<1> SUFFICES ASSUME LoggerInv, Tick PROVE LoggerInv'
  OBVIOUS
<1>1. /\ now < MaxSeconds /\ now' = now + 1
      /\ UNCHANGED <<procVars, current_log, log_file_size, writing, close_failed, messages,
                     failures, file, put, opened, errors>>
  BY DEF Tick
<1>2. now' \in Logs
  BY <1>1, LoggerAssumption DEF LoggerAssumption, LoggerInv, LoggerTypeOK, Logs
<1>3. at' = at /\ fds' = fds
  BY <1>1 DEF procVars
<1> QED BY <1>1, <1>2, <1>3, LogIsKept DEF LoggerInv, LoggerTypeOK

(* A session starts with what the listener has; it has put nothing into    *)
(* the log yet and counts as if it had.                                    *)
LEMMA ForkKeepsLog ==
  ASSUME LoggerInv, NEW p \in Sessions, fork(p)
  PROVE  LoggerInv'
<1> DEFINE first == [NoLogs EXCEPT ![file[Listener]] = 1]
           row == IF HasLog(Listener) THEN first ELSE NoLogs
<1>1. /\ p \in Procs /\ Listener \in Procs /\ p # Listener
      /\ Quiet(Listener) /\ Quiet(p)
  BY LoggerAssumption DEF LoggerAssumption, Procs, fork, LoggerInv, NoneIsQuiet
<1>2. /\ at' = [at EXCEPT ![Listener] = "forked", ![p] = "child"]
      /\ fds' = [fds EXCEPT ![p] = fds[Listener]]
      /\ current_log' = [current_log EXCEPT ![p] = current_log[Listener]]
      /\ log_file_size' = [log_file_size EXCEPT ![p] = log_file_size[Listener]]
      /\ close_failed' = [close_failed EXCEPT ![p] = close_failed[Listener]]
      /\ file' = [file EXCEPT ![p] = file[Listener]]
      /\ put' = [put EXCEPT ![p] = NoLogs] /\ errors' = [errors EXCEPT ![p] = NoLogs]
      /\ opened' = [opened EXCEPT ![p] = row]
      /\ UNCHANGED <<writing, messages, failures, now>>
  BY DEF fork
<1>3. /\ at \in [Procs -> Places]
      /\ fds \in [Procs -> [Descriptors -> Objects]]
      /\ current_log \in [Procs -> Descriptors \cup {-1}]
      /\ log_file_size \in [Procs -> Nat]
      /\ close_failed \in [Procs -> BOOLEAN]
      /\ file \in [Procs -> Logs] /\ file[Listener] \in Logs
      /\ put \in Counts /\ errors \in Counts /\ opened \in Counts
  BY <1>1 DEF LoggerInv, LoggerTypeOK
<1>4. /\ NoLogs \in [Logs -> Nat] /\ \A l \in Logs : NoLogs[l] = 0
      /\ row \in [Logs -> Nat] /\ (HasLog(Listener) => row[file[Listener]] = 1)
  BY <1>3 DEF NoLogs
<1> HIDE DEF first, row
<1>5. LoggerTypeOK'
  <2>1. at' \in [Procs -> Places] /\ fds' \in [Procs -> [Descriptors -> Objects]]
    BY <1>1, <1>2, <1>3 DEF Places
  <2>2. /\ current_log' \in [Procs -> Descriptors \cup {-1}]
        /\ log_file_size' \in [Procs -> Nat] /\ file' \in [Procs -> Logs]
    BY <1>1, <1>2, <1>3
  <2>3. close_failed' \in [Procs -> BOOLEAN]
    BY <1>1, <1>2, <1>3
  <2>4. put' \in Counts /\ errors' \in Counts /\ opened' \in Counts
    BY <1>2, <1>3, <1>4 DEF Counts
  <2> QED BY <1>2, <2>1, <2>2, <2>3, <2>4 DEF LoggerInv, LoggerTypeOK
<1>6. LogIsLog'
  <2> SUFFICES ASSUME NEW q \in Procs, current_log'[q] # -1, ~close_failed'[q]
               PROVE  fds'[q][current_log'[q]] = "log"
    BY DEF LogIsLog
  <2> DEFINE r == IF q = p THEN Listener ELSE q
  <2>1. r \in Procs /\ current_log'[q] = current_log[r] /\ fds'[q] = fds[r]
    BY <1>1, <1>2, <1>3
  <2>2. ~close_failed[r]
    BY <1>1, <1>2, <1>3
  <2> QED BY <2>1, <2>2 DEF LoggerInv, LogIsLog
<1>7. LogIsCounted'
  <2> SUFFICES ASSUME NEW q \in Procs PROVE Accounted(q)'
    BY DEF LogIsCounted
  <2>1. CASE q = p
    <3>1. /\ current_log'[p] = current_log[Listener] /\ fds'[p] = fds[Listener]
          /\ log_file_size'[p] = log_file_size[Listener] /\ file'[p] = file[Listener]
          /\ put'[p] = NoLogs /\ errors'[p] = NoLogs /\ opened'[p] = row
      BY <1>1, <1>2, <1>3 DEF Counts
    <3>2. Quiet(p)' /\ (HasLog(p)' <=> HasLog(Listener))
      BY <1>1, <1>2, <3>1 DEF Quiet, HasLog
    <3>3. current_log'[p] # -1 => log_file_size'[p] < log_file_size_threshold
      BY <1>1, <3>1 DEF LoggerInv, LogIsCounted, Accounted
    <3>4. ASSUME NEW l \in Logs PROVE Within(p, l)'
      <4>1. row[l] \in Nat
        BY <1>4
      <4>2. Allowed(row[l]) \in Nat
        BY <4>1, OneMoreTime
      <4> QED BY <1>4, <3>1, <4>2 DEF Within
    <3>5. HasLog(p)' => CountIs(p, file[p])'
      <4> SUFFICES ASSUME HasLog(Listener) PROVE CountIs(p, file[p])'
        BY <3>2
      <4>1. row[file[Listener]] = 1
        BY <1>4
      <4>2. Allowed(row[file[Listener]]) = Room /\ Room \in Nat
        BY <4>1, OneMoreTime, RoomIsNumber
      <4>3. log_file_size[Listener] \in Nat
        BY <1>1, <1>3
      <4>4. NoLogs[file[Listener]] = 0
        BY <1>3, <1>4
      <4> QED BY <3>1, <3>2, <4>2, <4>3, <4>4 DEF CountIs
    <3> QED BY <2>1, <3>3, <3>4, <3>5 DEF Accounted
  <2>2. CASE q # p
    <3>1. /\ current_log'[q] = current_log[q] /\ put'[q] = put[q] /\ fds'[q] = fds[q]
          /\ log_file_size'[q] = log_file_size[q] /\ errors'[q] = errors[q]
          /\ opened'[q] = opened[q] /\ file'[q] = file[q] /\ writing'[q] = writing[q]
      BY <1>1, <1>2, <1>3, <2>2 DEF Counts
    <3>2. HasLog(q)' => HasLog(q)
      BY <3>1 DEF HasLog
    <3>3. Accounted(q)
      BY DEF LoggerInv, LogIsCounted
    <3> QED BY <3>1, <3>2, <3>3, AccountedIsKept
  <2> QED BY <2>1, <2>2
<1>8. NoneIsQuiet'
  <2>1. \A q \in Procs : at'[q] = "none" => at[q] = "none"
    BY <1>1, <1>2, <1>3
  <2> QED BY <1>2, <2>1 DEF LoggerInv, NoneIsQuiet, Quiet
<1> QED BY <1>5, <1>6, <1>7, <1>8 DEF LoggerInv

----------------------------------------------------------------------------
(* One message.                                                            *)

LEMMA WritingIsNoTuple ==
  ASSUME NEW w \in Writings
  PROVE  w # <<>>
<1>1. "left" \in DOMAIN w
  BY DEF Writings
<1>2. DOMAIN <<>> = {}
  OBVIOUS
<1> QED BY <1>1, <1>2

(* A step of one process that leaves descriptors, the log and the size     *)
(* alone and counts right keeps the invariant: b bytes more in its log and *)
(* e more failed writes.                                                   *)
LEMMA CountIsKept ==
  ASSUME LoggerInv, NEW p \in Procs,
         UNCHANGED <<procVars, current_log, log_file_size, close_failed, now, file, opened>>,
         messages' \in Nat, failures' \in Nat,
         NEW w \in Writings, writing' = [writing EXCEPT ![p] = w], at[p] # "none",
         NEW f \in Logs, f = file[p], NEW has \in BOOLEAN, has = HasLog(p),
         NEW b \in Nat, Grown(put, put', p, f, b, has),
         NEW e \in Nat, Grown(errors, errors', p, f, e, has),
         NEW left \in Nat, left = put[p][f] + b + Room,
         NEW right \in Nat,
         right = Allowed(opened[p][f]) + errors[p][f] + e + log_file_size[p],
         has => \/ w.total <= w.left /\ left <= right + w.total
                \/ w.total = SizeModulus - 1 /\ left + 1 <= right
  PROVE  LoggerInv'
<1>1. LoggerTypeOK /\ file[p] \in Logs
  BY DEF LoggerInv, LoggerTypeOK
<1>p. /\ put' \in Counts /\ (has => put'[p][f] = put[p][f] + b)
      /\ has => \A l \in Logs \ {f} : put'[p][l] = put[p][l]
      /\ ~has => put' = put
      /\ \A q \in Procs \ {p} : put'[q] = put[q]
  BY DEF Grown
<1>e. /\ errors' \in Counts /\ (has => errors'[p][f] = errors[p][f] + e)
      /\ has => \A l \in Logs \ {f} : errors'[p][l] = errors[p][l]
      /\ ~has => errors' = errors
      /\ \A q \in Procs \ {p} : errors'[q] = errors[q]
  BY DEF Grown
<1>3. LoggerTypeOK'
  BY <1>1, <1>p, <1>e DEF LoggerTypeOK, procVars
<1>4. LogIsLog'
  BY DEF LoggerInv, LogIsLog, procVars
<1>5. \A q \in Procs : HasLog(q)' <=> HasLog(q)
  BY DEF HasLog, procVars
<1>6. LogIsCounted'
  <2> SUFFICES ASSUME NEW q \in Procs PROVE Accounted(q)'
    BY DEF LogIsCounted
  <2>1. Accounted(q)
    BY DEF LoggerInv, LogIsCounted
  <2>2. CASE q # p
    <3>1. writing'[q] = writing[q] /\ put'[q] = put[q] /\ errors'[q] = errors[q]
      BY <1>1, <1>p, <1>e, <2>2 DEF LoggerTypeOK
    <3> QED BY <1>5, <2>1, <3>1, AccountedIsKept DEF procVars
  <2>3. CASE q = p /\ ~HasLog(p)
    <3>1. put' = put /\ errors' = errors
      BY <1>p, <1>e, <2>3
    <3> QED BY <1>5, <2>1, <2>3, <3>1 DEF Accounted, Within
  <2>4. CASE q = p /\ HasLog(p)
    <3>0. has /\ f = file[p]
      BY <2>4
    <3>2. /\ put'[p][f] = put[p][f] + b
          /\ \A l \in Logs \ {f} : put'[p][l] = put[p][l]
      BY <1>p, <3>0
    <3>3. /\ errors'[p][f] = errors[p][f] + e
          /\ \A l \in Logs \ {f} : errors'[p][l] = errors[p][l]
      BY <1>e, <3>0
    <3>4. writing'[p] = w /\ w # <<>>
      BY <1>1, WritingIsNoTuple DEF LoggerTypeOK
    <3>5. /\ put[p][f] \in Nat /\ opened[p][f] \in Nat /\ errors[p][f] \in Nat
          /\ log_file_size[p] \in Nat /\ Allowed(opened[p][f]) \in Nat
      BY <1>1, Numbers
    <3>6. log_file_size[p] < log_file_size_threshold
      BY <2>1, <2>4 DEF Accounted, HasLog
    <3>7. left = put[p][f] + b + Room
          /\ right = Allowed(opened[p][f]) + errors[p][f] + e + log_file_size[p]
      BY <3>0
    <3>8. w.left \in 1 .. MAX_LOG_MSG_LEN /\ w.total \in Nat
      BY LoggerAssumption DEF LoggerAssumption, Writings
    <3>9. Within(p, f)'
      <4>1. put[p][f] + b <= Allowed(opened[p][f]) + errors[p][f] + e
        BY <2>4, <3>5, <3>6, <3>7, <3>8, RoomIsNumber
      <4>2. put'[p][f] <= Allowed(opened[p][f]) + errors'[p][f]
        BY <3>2, <3>3, <3>5, <4>1
      <4> QED BY <4>2 DEF Within
    <3>10. \A l \in Logs : Within(p, l)'
      <4>1. \A l \in Logs \ {f} : Within(p, l)'
        BY <2>1, <2>4, <3>2, <3>3 DEF Accounted, Within
      <4> QED BY <3>9, <4>1
    <3>11. CountIs(p, f)'
      <4>1. ~ Quiet(p)'
        BY <3>4 DEF Quiet
      <4>2. put'[p][f] + Room = left
        BY <3>2, <3>5, <3>7, RoomIsNumber
      <4>3. Allowed(opened[p][f]) + errors'[p][f] + log_file_size[p] = right
        BY <3>3, <3>5, <3>7
      <4> QED BY <2>4, <3>4, <4>1, <4>2, <4>3 DEF CountIs
    <3> QED BY <2>4, <3>0, <3>6, <3>10, <3>11 DEF Accounted
  <2> QED BY <2>2, <2>3, <2>4
<1>7. NoneIsQuiet'
  BY <1>1 DEF LoggerInv, LoggerTypeOK, NoneIsQuiet, Quiet, procVars
<1> QED BY <1>3, <1>4, <1>6, <1>7 DEF LoggerInv

(* Only the total of a message under way changes.                          *)
LEMMA TotalChanges ==
  ASSUME LoggerInv, NEW p \in Procs, writing[p] \in Writings, NEW t \in Nat
  PROVE  [writing EXCEPT ![p].total = t]
           = [writing EXCEPT ![p] = [left |-> writing[p].left, total |-> t]]
<1> DEFINE v == writing[p]
<1>1. v \in [left : MsgLens, total : Nat]
  BY DEF Writings
<1> HIDE DEF v
<1>2. [v EXCEPT !.total = t] = [left |-> v.left, total |-> t]
  BY <1>1
<1>3. [writing EXCEPT ![p].total = t] = [writing EXCEPT ![p] = [v EXCEPT !.total = t]]
  BY DEF v
<1> QED BY <1>2, <1>3 DEF v

LEMMA WriteKeepsCount ==
  ASSUME LoggerInv, NEW p \in Procs, NEW len \in MsgLens, logger_write(p, len)
  PROVE  LoggerInv'
<1>1. LoggerTypeOK /\ len \in Nat /\ Quiet(p) /\ at[p] # "none"
  BY LoggerAssumption DEF LoggerAssumption, LoggerInv, logger_write
<1>2. PICK w \in Writings : w = [left |-> len, total |-> 0]
  BY DEF Writings
<1>3. w.total <= w.left /\ w.total = 0
  BY <1>1, <1>2
<1>4. /\ writing' = [writing EXCEPT ![p] = w] /\ messages' \in Nat /\ failures' \in Nat
      /\ UNCHANGED <<procVars, current_log, log_file_size, close_failed, now, file, opened>>
      /\ put' = put /\ errors' = errors
  BY <1>1, <1>2 DEF logger_write, LoggerTypeOK, logsVars
<1>5. PICK f \in Logs, has \in BOOLEAN : f = file[p] /\ has = HasLog(p)
  BY <1>1 DEF LoggerTypeOK, HasLog
<1>6. Grown(put, put', p, f, 0, has) /\ Grown(errors, errors', p, f, 0, has)
  BY <1>1, <1>4, KeptIsGrown DEF LoggerTypeOK
<1>7. /\ put[p][f] \in Nat /\ errors[p][f] \in Nat /\ log_file_size[p] \in Nat
      /\ Allowed(opened[p][f]) \in Nat /\ Room \in Nat
  BY <1>1, Numbers, RoomIsNumber
<1>8. has => put[p][f] + Room <= Allowed(opened[p][f]) + errors[p][f] + log_file_size[p]
  BY <1>1, <1>5 DEF LoggerInv, LogIsCounted, Accounted, CountIs
<1>9. PICK left \in Nat : left = put[p][f] + 0 + Room
  BY <1>7
<1>10. PICK right \in Nat :
         right = Allowed(opened[p][f]) + errors[p][f] + 0 + log_file_size[p]
  BY <1>7
<1>11. has => w.total <= w.left /\ left <= right + w.total
  BY <1>3, <1>7, <1>8, <1>9, <1>10
<1> QED BY <1>1, <1>4, <1>5, <1>6, <1>9, <1>10, <1>11, CountIsKept

(* What a message under way is, and that no log is without a count.        *)
LEMMA UnderWay ==
  ASSUME LoggerInv, NEW p \in Procs, ~Quiet(p)
  PROVE  /\ at[p] # "none" /\ writing[p] \in Writings
         /\ writing[p].left \in 1 .. MAX_LOG_MSG_LEN /\ writing[p].left \in Nat \ {0}
         /\ writing[p].total \in Nat /\ log_file_size[p] \in Nat
         /\ log_file_size_threshold \in Nat \ {0} /\ SizeModulus \in Nat
         /\ log_file_size_threshold + 2 * writing[p].left < SizeModulus
<1>1. writing[p] \in Writings
  BY DEF LoggerInv, LoggerTypeOK, Quiet
<1>2. writing[p].left \in MsgLens /\ writing[p].total \in Nat
  BY <1>1 DEF Writings
<1>3. at[p] # "none"
  BY DEF LoggerInv, NoneIsQuiet
<1>4. log_file_size[p] \in Nat
  BY DEF LoggerInv, LoggerTypeOK
<1>5. /\ MsgLens \subseteq 1 .. MAX_LOG_MSG_LEN /\ MAX_LOG_MSG_LEN \in Nat
      /\ log_file_size_threshold \in Nat \ {0} /\ SizeModulus \in Nat
      /\ log_file_size_threshold + 2 * MAX_LOG_MSG_LEN < SizeModulus
  BY LoggerAssumption DEF LoggerAssumption
<1>6. writing[p].left \in 1 .. MAX_LOG_MSG_LEN
  BY <1>2, <1>5
<1>7. log_file_size_threshold + 2 * writing[p].left < SizeModulus
  BY <1>5, <1>6
<1> QED BY <1>1, <1>2, <1>3, <1>4, <1>5, <1>6, <1>7

LEMMA WrittenKeepsCount ==
  ASSUME LoggerInv, NEW p \in Procs, Written(p)
  PROVE  LoggerInv'
<1>1. PICK m \in 1 .. writing[p].left - writing[p].total :
        /\ writing' = [writing EXCEPT ![p].total = writing[p].total + m]
        /\ put' = IF HasLog(p) THEN More(put, p, file[p], m) ELSE put
  BY DEF Written
<1>2. UNCHANGED <<procVars, current_log, log_file_size, close_failed, messages, failures,
                  now, file, opened, errors>>
  BY DEF Written
<1>3. ~Quiet(p) /\ writing[p].left > writing[p].total /\ LoggerTypeOK
  BY DEF Written, Unfinished, LoggerInv
<1>4. m \in Nat /\ m <= writing[p].left - writing[p].total
  BY <1>1, <1>3, UnderWay
<1>5. PICK w \in Writings : w = [left |-> writing[p].left, total |-> writing[p].total + m]
  <2>1. writing[p].left \in MsgLens /\ writing[p].total + m \in Nat
    BY <1>3, <1>4, UnderWay DEF Writings
  <2> QED BY <2>1 DEF Writings
<1>6. w.total = writing[p].total + m /\ w.left = writing[p].left /\ w.total <= w.left
  BY <1>3, <1>4, <1>5, UnderWay
<1>7. writing' = [writing EXCEPT ![p] = w]
  <2>1. writing[p].total + m \in Nat /\ writing[p] \in Writings
    BY <1>3, <1>4, UnderWay
  <2> QED BY <1>1, <1>5, <2>1, TotalChanges
<1>8. PICK f \in Logs, has \in BOOLEAN : f = file[p] /\ has = HasLog(p)
  BY <1>3 DEF LoggerTypeOK, HasLog
<1>9. put \in Counts /\ errors \in Counts /\ errors' = errors
  BY <1>2, <1>3 DEF LoggerTypeOK
<1>10. Grown(put, put', p, f, m, has)
  <2>1. put' = IF has THEN More(put, p, f, m) ELSE put
    BY <1>1, <1>8
  <2> QED BY <1>4, <1>9, <2>1, Grows
<1>11. Grown(errors, errors', p, f, 0, has)
  BY <1>9, KeptIsGrown
<1>12. /\ put[p][f] \in Nat /\ errors[p][f] \in Nat /\ log_file_size[p] \in Nat
       /\ Allowed(opened[p][f]) \in Nat /\ Room \in Nat
  BY <1>3, Numbers, RoomIsNumber
<1>13. has => put[p][f] + Room
                <= Allowed(opened[p][f]) + errors[p][f] + log_file_size[p] + writing[p].total
  <2> SUFFICES ASSUME has
               PROVE  put[p][f] + Room
                        <= Allowed(opened[p][f]) + errors[p][f] + log_file_size[p] + writing[p].total
    OBVIOUS
  <2>1. CountIs(p, f)
    BY <1>3, <1>8 DEF LoggerInv, LogIsCounted, Accounted
  <2>2. writing[p].total # SizeModulus - 1
    BY <1>3, UnderWay
  <2> QED BY <1>3, <2>1, <2>2 DEF CountIs
<1>14. PICK left \in Nat : left = put[p][f] + m + Room
  BY <1>4, <1>12
<1>15. PICK right \in Nat :
         right = Allowed(opened[p][f]) + errors[p][f] + 0 + log_file_size[p]
  BY <1>12
<1>16. has => left <= right + w.total
  BY <1>3, <1>4, <1>6, <1>12, <1>13, <1>14, <1>15, UnderWay
<1>17. /\ UNCHANGED <<procVars, current_log, log_file_size, close_failed, now, file, opened>>
       /\ messages' \in Nat /\ failures' \in Nat /\ at[p] # "none"
  BY <1>2, <1>3, UnderWay DEF LoggerTypeOK
<1> QED BY <1>4, <1>6, <1>7, <1>8, <1>10, <1>11, <1>14, <1>15, <1>16, <1>17, CountIsKept

LEMMA FailureKeepsCount ==
  ASSUME LoggerInv, NEW p \in Procs, WriteFails(p)
  PROVE  LoggerInv'
<1>1. ~Quiet(p) /\ writing[p].left > writing[p].total /\ LoggerTypeOK
  BY DEF WriteFails, Unfinished, LoggerInv
<1>2. PICK t : t = (writing[p].total + SizeModulus - 1) % SizeModulus
  OBVIOUS
<1>3. t = IF writing[p].total = 0 THEN SizeModulus - 1 ELSE writing[p].total - 1
  <2>1. CASE writing[p].total = 0
    BY <1>1, <1>2, <2>1, UnderWay
  <2>2. CASE writing[p].total # 0
    <3>1. writing[p].total - 1 \in 0 .. SizeModulus - 1
      BY <1>1, <2>2, UnderWay
    <3>2. writing[p].total + SizeModulus - 1 = SizeModulus + (writing[p].total - 1)
      BY <1>1, UnderWay
    <3>3. t = (SizeModulus + (writing[p].total - 1)) % SizeModulus
      BY <1>2, <3>2
    <3>4. SizeModulus \in Nat \ {0}
      BY <1>1, UnderWay
    <3> QED BY <2>2, <3>1, <3>3, <3>4
  <2> QED BY <2>1, <2>2
<1>4. t \in Nat
  BY <1>1, <1>3, UnderWay
<1>5. /\ writing' = [writing EXCEPT ![p].total = t]
      /\ errors' = IF HasLog(p) THEN More(errors, p, file[p], 1) ELSE errors
      /\ UNCHANGED <<procVars, current_log, log_file_size, close_failed, messages,
                     now, file, put, opened>>
      /\ failures' = failures + 1
  BY <1>2 DEF WriteFails
<1>6. PICK w \in Writings : w = [left |-> writing[p].left, total |-> t]
  <2>1. writing[p].left \in MsgLens
    BY <1>1, UnderWay DEF Writings
  <2> QED BY <1>4, <2>1 DEF Writings
<1>7. w.total = t /\ w.left = writing[p].left
  BY <1>6
<1>8. writing' = [writing EXCEPT ![p] = w]
  <2>1. writing[p] \in Writings
    BY <1>1, UnderWay
  <2> QED BY <1>4, <1>5, <1>6, <2>1, TotalChanges
<1>9. PICK f \in Logs, has \in BOOLEAN : f = file[p] /\ has = HasLog(p)
  BY <1>1 DEF LoggerTypeOK, HasLog
<1>10. put \in Counts /\ errors \in Counts /\ put' = put
  BY <1>1, <1>5 DEF LoggerTypeOK
<1>11. Grown(errors, errors', p, f, 1, has)
  <2>1. errors' = IF has THEN More(errors, p, f, 1) ELSE errors
    BY <1>5, <1>9
  <2> QED BY <1>10, <2>1, Grows
<1>12. Grown(put, put', p, f, 0, has)
  BY <1>10, KeptIsGrown
<1>13. /\ put[p][f] \in Nat /\ errors[p][f] \in Nat /\ log_file_size[p] \in Nat
       /\ Allowed(opened[p][f]) \in Nat /\ Room \in Nat
  BY <1>1, Numbers, RoomIsNumber
<1>14. has => put[p][f] + Room
                <= Allowed(opened[p][f]) + errors[p][f] + log_file_size[p] + writing[p].total
  <2> SUFFICES ASSUME has
               PROVE  put[p][f] + Room
                        <= Allowed(opened[p][f]) + errors[p][f] + log_file_size[p] + writing[p].total
    OBVIOUS
  <2>1. CountIs(p, f)
    BY <1>1, <1>9 DEF LoggerInv, LogIsCounted, Accounted
  <2>2. writing[p].total # SizeModulus - 1
    BY <1>1, UnderWay
  <2> QED BY <1>1, <2>1, <2>2 DEF CountIs
<1>15. PICK left \in Nat : left = put[p][f] + 0 + Room
  BY <1>13
<1>16. PICK right \in Nat :
         right = Allowed(opened[p][f]) + errors[p][f] + 1 + log_file_size[p]
  BY <1>13
<1>17. has => \/ w.total <= w.left /\ left <= right + w.total
              \/ w.total = SizeModulus - 1 /\ left + 1 <= right
  <2>1. CASE writing[p].total = 0
    BY <1>1, <1>3, <1>7, <1>13, <1>14, <1>15, <1>16, <2>1, UnderWay
  <2>2. CASE writing[p].total # 0
    BY <1>1, <1>3, <1>7, <1>13, <1>14, <1>15, <1>16, <2>2, UnderWay
  <2> QED BY <2>1, <2>2
<1>18. /\ UNCHANGED <<procVars, current_log, log_file_size, close_failed, now, file, opened>>
       /\ messages' \in Nat /\ failures' \in Nat /\ at[p] # "none"
  BY <1>1, <1>5, UnderWay DEF LoggerTypeOK
<1> QED BY <1>8, <1>9, <1>11, <1>12, <1>15, <1>16, <1>17, <1>18, CountIsKept

----------------------------------------------------------------------------
(* The end of a message, and the next log.                                 *)

(* What is counted then leaves as much room, unless it is the largest      *)
(* number there is.                                                        *)
LEMMA CountAtEnd ==
  ASSUME LoggerInv, NEW p \in Procs, ~Quiet(p), HasLog(p),
         CountedSize(p) < log_file_size_threshold, NEW f \in Logs, f = file[p]
  PROVE  /\ CountedSize(p) \in Nat
         /\ put[p][f] + Room <= Allowed(opened[p][f]) + errors[p][f] + CountedSize(p)
<1>1. CountedSize(p) = (log_file_size[p] + writing[p].total) % SizeModulus
  BY DEF CountedSize, SizeAfter
<1>2. log_file_size[p] < log_file_size_threshold /\ CountIs(p, f)
  BY DEF LoggerInv, LogIsCounted, Accounted, HasLog
<1>3. /\ put[p][f] \in Nat /\ errors[p][f] \in Nat /\ log_file_size[p] \in Nat
      /\ Allowed(opened[p][f]) \in Nat /\ Room \in Nat
  BY Numbers, RoomIsNumber DEF LoggerInv
<1>4. CASE /\ writing[p].total <= writing[p].left
           /\ put[p][f] + Room
                <= Allowed(opened[p][f]) + errors[p][f] + log_file_size[p] + writing[p].total
  <2>1. log_file_size[p] + writing[p].total \in 0 .. SizeModulus - 1
    BY <1>2, <1>4, UnderWay
  <2>2. CountedSize(p) = log_file_size[p] + writing[p].total
    BY <1>1, <2>1, UnderWay
  <2> QED BY <1>3, <1>4, <2>2, UnderWay
<1>5. CASE /\ writing[p].total = SizeModulus - 1
           /\ put[p][f] + Room + 1 <= Allowed(opened[p][f]) + errors[p][f] + log_file_size[p]
  <2>1. CASE log_file_size[p] = 0
    <3>1. CountedSize(p) = SizeModulus - 1
      BY <1>1, <1>5, <2>1, UnderWay
    <3> QED BY <3>1, UnderWay
  <2>2. CASE log_file_size[p] # 0
    <3>1. /\ log_file_size[p] - 1 \in 0 .. SizeModulus - 1
          /\ log_file_size[p] + (SizeModulus - 1) = SizeModulus + (log_file_size[p] - 1)
      BY <1>2, <2>2, UnderWay
    <3>2. CountedSize(p) = log_file_size[p] - 1
      BY <1>1, <1>5, <3>1, UnderWay
    <3> QED BY <1>3, <1>5, <2>2, <3>2
  <2> QED BY <2>1, <2>2
<1> QED BY <1>2, <1>4, <1>5 DEF CountIs

(* The size is a number again, also for a process that writes to the       *)
(* streams, where it is not looked at.                                     *)
LEMMA SizeIsNumber ==
  ASSUME LoggerInv, NEW p \in Procs, ~Quiet(p)
  PROVE  CountedSize(p) \in Nat
<1>1. log_file_size[p] + writing[p].total \in Nat /\ SizeModulus \in Nat \ {0}
  BY UnderWay
<1> QED BY <1>1 DEF CountedSize, SizeAfter

(* A log that is opened is one, under whatever number, and the one of the  *)
(* second; one that could not be closed is left behind for good.           *)
LEMMA ReopenedIsLog ==
  ASSUME LoggerInv, NEW p \in Procs, current_log[p] # -1,
         NEW closed \in BOOLEAN, NEW opens \in BOOLEAN, Reopened(p, closed, opens)
  PROVE  /\ LogIsLog'
         /\ fds' \in [Procs -> [Descriptors -> Objects]]
         /\ current_log' \in [Procs -> Descriptors \cup {-1}]
         /\ close_failed' \in [Procs -> BOOLEAN]
         /\ file' \in [Procs -> Logs]
         /\ \A q \in Procs \ {p} : /\ current_log'[q] = current_log[q]
                                   /\ fds'[q] = fds[q] /\ file'[q] = file[q]
         /\ Grown(opened, opened', p, now, 1, closed /\ opens)
         /\ HasLog(p)' => closed /\ opens /\ file'[p] = now
<1> DEFINE left == [d \in Descriptors |-> IF d = current_log[p] THEN "free" ELSE fds[p][d]]
           log == Lowest({d \in Descriptors : left[d] = "free"})
<1>1. /\ fds \in [Procs -> [Descriptors -> Objects]]
      /\ current_log \in [Procs -> Descriptors \cup {-1}]
      /\ close_failed \in [Procs -> BOOLEAN]
      /\ current_log[p] \in Descriptors
      /\ file \in [Procs -> Logs] /\ now \in Logs /\ opened \in Counts
  BY DEF LoggerInv, LoggerTypeOK
<1>2. log \in Descriptors
  <2>1. current_log[p] \in {d \in Descriptors : left[d] = "free"}
    BY <1>1
  <2> HIDE DEF left
  <2> QED BY <2>1, FreeOne
<1>3. left \in [Descriptors -> Objects] /\ left[current_log[p]] = "free"
  BY <1>1 DEF Objects
<1>4. \/ /\ ~closed
         /\ fds' = [fds EXCEPT ![p] = left]
         /\ close_failed' = [close_failed EXCEPT ![p] = TRUE]
         /\ UNCHANGED <<current_log, file, opened>>
      \/ /\ closed
         /\ fds' = [fds EXCEPT ![p] = IF opens THEN [left EXCEPT ![log] = "log"] ELSE left]
         /\ current_log' = [current_log EXCEPT ![p] = IF opens THEN log ELSE -1]
         /\ file' = [file EXCEPT ![p] = now]
         /\ opened' = IF opens THEN More(opened, p, now, 1) ELSE opened
         /\ UNCHANGED close_failed
  BY DEF Reopened
<1> HIDE DEF left, log
<1>5. CASE ~closed
  <2>1. /\ fds' = [fds EXCEPT ![p] = left]
        /\ close_failed' = [close_failed EXCEPT ![p] = TRUE]
        /\ current_log' = current_log /\ file' = file /\ opened' = opened
    BY <1>4, <1>5
  <2>2. LogIsLog'
    <3> SUFFICES ASSUME NEW q \in Procs, current_log'[q] # -1, ~close_failed'[q]
                 PROVE  fds'[q][current_log'[q]] = "log"
      BY DEF LogIsLog
    <3>1. q # p
      BY <1>1, <2>1
    <3>2. fds'[q] = fds[q] /\ current_log'[q] = current_log[q]
      BY <1>1, <2>1, <3>1
    <3>3. ~close_failed[q]
      BY <1>1, <2>1, <3>1
    <3> QED BY <3>2, <3>3 DEF LoggerInv, LogIsLog
  <2>3. fds' \in [Procs -> [Descriptors -> Objects]] /\ \A q \in Procs \ {p} : fds'[q] = fds[q]
    BY <1>1, <1>3, <2>1
  <2>4. close_failed' \in [Procs -> BOOLEAN]
    BY <1>1, <2>1
  <2>5. Grown(opened, opened', p, now, 1, closed /\ opens)
    BY <1>1, <1>5, <2>1 DEF Grown
  <2>6. ~HasLog(p)'
    BY <1>1, <1>3, <2>1 DEF HasLog
  <2> QED BY <1>1, <2>1, <2>2, <2>3, <2>4, <2>5, <2>6
<1>6. CASE closed
  <2> DEFINE next == IF opens THEN [left EXCEPT ![log] = "log"] ELSE left
             number == IF opens THEN log ELSE -1
  <2>1. /\ fds' = [fds EXCEPT ![p] = next]
        /\ current_log' = [current_log EXCEPT ![p] = number]
        /\ file' = [file EXCEPT ![p] = now]
        /\ opened' = IF opens THEN More(opened, p, now, 1) ELSE opened
        /\ close_failed' = close_failed
    BY <1>4, <1>6
  <2>2. next \in [Descriptors -> Objects] /\ number \in Descriptors \cup {-1}
    BY <1>2, <1>3 DEF Objects
  <2>3. number # -1 => opens /\ next[number] = "log"
    BY <1>2, <1>3
  <2> HIDE DEF next, number
  <2>4. LogIsLog'
    <3> SUFFICES ASSUME NEW q \in Procs, current_log'[q] # -1, ~close_failed'[q]
                 PROVE  fds'[q][current_log'[q]] = "log"
      BY DEF LogIsLog
    <3>1. CASE q = p
      BY <1>1, <2>1, <2>3, <3>1
    <3>2. CASE q # p
      <4>1. fds'[q] = fds[q] /\ current_log'[q] = current_log[q]
        BY <1>1, <2>1, <3>2
      <4>2. ~close_failed[q]
        BY <2>1
      <4> QED BY <4>1, <4>2 DEF LoggerInv, LogIsLog
    <3> QED BY <3>1, <3>2
  <2>5. /\ fds' \in [Procs -> [Descriptors -> Objects]]
        /\ current_log' \in [Procs -> Descriptors \cup {-1}]
        /\ file' \in [Procs -> Logs] /\ file'[p] = now
        /\ \A q \in Procs \ {p} : /\ current_log'[q] = current_log[q]
                                  /\ fds'[q] = fds[q] /\ file'[q] = file[q]
    BY <1>1, <2>1, <2>2
  <2>6. Grown(opened, opened', p, now, 1, opens)
    BY <1>1, <2>1, Grows
  <2>7. HasLog(p)' => opens
    BY <1>1, <2>1, <2>3 DEF HasLog
  <2> QED BY <1>1, <1>6, <2>1, <2>4, <2>5, <2>6, <2>7
<1> QED BY <1>5, <1>6

(* The size starts again with a log that is opened, and so does the room.  *)
LEMMA EndKeepsCount ==
  ASSUME LoggerInv, NEW p \in Procs, MessageEnds(p)
  PROVE  LoggerInv'
<1>1. /\ ~Quiet(p) /\ LoggerTypeOK
      /\ writing' = [writing EXCEPT ![p] = <<>>]
      /\ UNCHANGED <<at, messages, failures, now, put, errors>>
  BY DEF MessageEnds, LoggerInv
<1>2. writing' \in [Procs -> {<<>>} \cup Writings] /\ NoneIsQuiet'
  BY <1>1 DEF LoggerInv, LoggerTypeOK, NoneIsQuiet, Quiet
<1>3. Quiet(p)' /\ \A q \in Procs \ {p} : writing'[q] = writing[q]
  BY <1>1 DEF LoggerTypeOK, Quiet
<1>4. CASE current_log[p] # -1 /\ CountedSize(p) >= log_file_size_threshold
  <2>1. PICK closed \in BOOLEAN, opens \in BOOLEAN : Reopened(p, closed, opens)
    BY <1>4 DEF MessageEnds, reopen_log_file
  <2>2. log_file_size' = [log_file_size EXCEPT ![p] = 0]
    BY <1>4 DEF MessageEnds
  <2>3. /\ LogIsLog'
        /\ fds' \in [Procs -> [Descriptors -> Objects]]
        /\ current_log' \in [Procs -> Descriptors \cup {-1}]
        /\ close_failed' \in [Procs -> BOOLEAN]
        /\ file' \in [Procs -> Logs]
        /\ \A q \in Procs \ {p} : /\ current_log'[q] = current_log[q]
                                  /\ fds'[q] = fds[q] /\ file'[q] = file[q]
        /\ Grown(opened, opened', p, now, 1, closed /\ opens)
        /\ HasLog(p)' => closed /\ opens /\ file'[p] = now
    BY <1>4, <2>1, ReopenedIsLog
  <2>4. PICK won \in BOOLEAN : won = (closed /\ opens)
    OBVIOUS
  <2>5. /\ opened' \in Counts /\ now \in Logs
        /\ won => opened'[p][now] = opened[p][now] + 1
        /\ \A l \in Logs : opened'[p][l] = opened[p][l] \/ opened'[p][l] = opened[p][l] + 1
        /\ \A q \in Procs \ {p} : opened'[q] = opened[q]
    BY <1>1, <2>3, <2>4 DEF Grown, LoggerTypeOK
  <2>6. LoggerTypeOK'
    BY <1>1, <1>2, <2>2, <2>3, <2>5 DEF LoggerTypeOK
  <2>7. ASSUME NEW q \in Procs PROVE Accounted(q)'
    <3>1. CASE q = p
      <4>1. log_file_size'[p] = 0 /\ 0 < log_file_size_threshold
        BY <1>1, <2>2, RoomIsNumber DEF LoggerTypeOK
      <4>2. ASSUME NEW l \in Logs PROVE Within(p, l)'
        <5>1. /\ put[p][l] \in Nat /\ opened[p][l] \in Nat /\ errors[p][l] \in Nat
              /\ Allowed(opened[p][l]) \in Nat /\ Room \in Nat
              /\ Allowed(opened[p][l] + 1) = Allowed(opened[p][l]) + Room
          BY <1>1, Numbers, OneMoreTime, RoomIsNumber
        <5>2. put[p][l] <= Allowed(opened[p][l]) + errors[p][l]
          BY DEF LoggerInv, LogIsCounted, Accounted, Within
        <5>3. opened'[p][l] = opened[p][l] \/ opened'[p][l] = opened[p][l] + 1
          BY <2>5
        <5>4. put'[p][l] = put[p][l] /\ errors'[p][l] = errors[p][l]
          BY <1>1
        <5>5. CASE opened'[p][l] = opened[p][l]
          BY <5>2, <5>4, <5>5 DEF Within
        <5>6. CASE opened'[p][l] = opened[p][l] + 1
          <6>1. put[p][l] <= Allowed(opened[p][l] + 1) + errors[p][l]
            BY <5>1, <5>2
          <6> QED BY <5>4, <5>6, <6>1 DEF Within
        <5> QED BY <5>3, <5>5, <5>6
      <4>3. HasLog(p)' => CountIs(p, file[p])'
        <5> SUFFICES ASSUME HasLog(p)' PROVE CountIs(p, file[p])'
          OBVIOUS
        <5>1. file'[p] = now /\ opened'[p][now] = opened[p][now] + 1
          BY <2>3, <2>4, <2>5
        <5>2. /\ put[p][now] \in Nat /\ opened[p][now] \in Nat /\ errors[p][now] \in Nat
              /\ Allowed(opened[p][now]) \in Nat /\ Room \in Nat
              /\ Allowed(opened[p][now] + 1) = Allowed(opened[p][now]) + Room
          BY <1>1, <2>5, Numbers, OneMoreTime, RoomIsNumber
        <5>3. put[p][now] <= Allowed(opened[p][now]) + errors[p][now]
          BY <2>5 DEF LoggerInv, LogIsCounted, Accounted, Within
        <5>4. put[p][now] + Room <= Allowed(opened[p][now] + 1) + errors[p][now] + 0
          BY <5>2, <5>3
        <5>5. put'[p][now] = put[p][now] /\ errors'[p][now] = errors[p][now]
          BY <1>1
        <5> QED BY <1>3, <4>1, <5>1, <5>4, <5>5 DEF CountIs
      <4> QED BY <3>1, <4>1, <4>2, <4>3 DEF Accounted
    <3>2. CASE q # p
      <4>1. /\ writing'[q] = writing[q] /\ put'[q] = put[q] /\ errors'[q] = errors[q]
            /\ current_log'[q] = current_log[q] /\ log_file_size'[q] = log_file_size[q]
            /\ file'[q] = file[q] /\ opened'[q] = opened[q]
        BY <1>1, <1>3, <2>2, <2>3, <2>5, <3>2 DEF LoggerTypeOK
      <4>2. HasLog(q)' => HasLog(q)
        BY <2>3, <3>2 DEF HasLog
      <4>3. Accounted(q)
        BY DEF LoggerInv, LogIsCounted
      <4> QED BY <4>1, <4>2, <4>3, AccountedIsKept
    <3> QED BY <3>1, <3>2
  <2> QED BY <1>2, <2>3, <2>6, <2>7 DEF LoggerInv, LogIsCounted
<1>5. CASE ~ (current_log[p] # -1 /\ CountedSize(p) >= log_file_size_threshold)
  <2>1. /\ log_file_size' = [log_file_size EXCEPT ![p] = CountedSize(p)]
        /\ UNCHANGED <<fds, current_log, close_failed, file, opened>>
    BY <1>5 DEF MessageEnds
  <2>2. CountedSize(p) \in Nat
    BY <1>1, SizeIsNumber
  <2>3. LoggerTypeOK'
    BY <1>1, <1>2, <2>1, <2>2 DEF LoggerTypeOK
  <2>4. LogIsLog'
    BY <2>1 DEF LoggerInv, LogIsLog
  <2>5. \A q \in Procs : HasLog(q)' <=> HasLog(q)
    BY <2>1 DEF HasLog
  <2>6. ASSUME NEW q \in Procs PROVE Accounted(q)'
    <3>0. Accounted(q)
      BY DEF LoggerInv, LogIsCounted
    <3>1. CASE q = p
      <4>1. log_file_size'[p] = CountedSize(p)
        BY <1>1, <2>1 DEF LoggerTypeOK
      <4>2. current_log[p] # -1 => CountedSize(p) < log_file_size_threshold
        BY <1>5, <2>2, RoomIsNumber
      <4>3. \A l \in Logs : Within(p, l)'
        BY <1>1, <2>1, <3>0, <3>1 DEF Accounted, Within
      <4>4. HasLog(p) => CountIs(p, file[p])'
        <5> SUFFICES ASSUME HasLog(p) PROVE CountIs(p, file[p])'
          OBVIOUS
        <5>1. PICK f \in Logs : f = file[p]
          BY <1>1 DEF LoggerTypeOK
        <5>2. put[p][f] + Room <= Allowed(opened[p][f]) + errors[p][f] + CountedSize(p)
          BY <1>1, <4>2, <5>1, CountAtEnd DEF HasLog
        <5> QED BY <1>1, <1>3, <2>1, <4>1, <5>1, <5>2 DEF CountIs
      <4> QED BY <2>1, <2>5, <3>1, <4>1, <4>2, <4>3, <4>4 DEF Accounted
    <3>2. CASE q # p
      <4>1. /\ writing'[q] = writing[q] /\ put' = put /\ errors' = errors
            /\ log_file_size'[q] = log_file_size[q]
        BY <1>1, <1>3, <2>1, <3>2 DEF LoggerTypeOK
      <4> QED BY <2>1, <2>5, <3>0, <4>1, AccountedIsKept
    <3> QED BY <3>1, <3>2
  <2> QED BY <1>2, <2>3, <2>4, <2>6 DEF LoggerInv, LogIsCounted
<1> QED BY <1>4, <1>5

----------------------------------------------------------------------------
LEMMA LoggerStep == LoggerInv /\ [LoggerNext]_logVars => LoggerInv'
<1> SUFFICES ASSUME LoggerInv, [LoggerNext]_logVars PROVE LoggerInv'
  OBVIOUS
<1>1. CASE accept
  BY <1>1, AcceptKeepsLog
<1>2. CASE ForkFails
  <2>1. /\ at' \in [Procs -> Places] /\ fds' = fds /\ UNCHANGED loggerVars
        /\ \A p \in Procs : at'[p] = "none" => at[p] = "none"
    BY <1>2 DEF ForkFails, LoggerInv, LoggerTypeOK, Places
  <2> QED BY <2>1, LogIsKept DEF LoggerInv, LoggerTypeOK, loggerVars, logsVars
<1>3. ASSUME NEW p \in Sessions, fork(p) PROVE LoggerInv'
  BY <1>3, ForkKeepsLog
<1>4. ASSUME NEW p \in Procs, CloseListener(p) \/ CloseClient(p) PROVE LoggerInv'
  BY <1>4, ClosesKeepLog
<1>5. ASSUME NEW p \in Procs, NEW len \in MsgLens, logger_write(p, len) PROVE LoggerInv'
  BY <1>5, WriteKeepsCount
<1>6. ASSUME NEW p \in Procs, Written(p) \/ WriteFails(p) PROVE LoggerInv'
  BY <1>6, WrittenKeepsCount, FailureKeepsCount
<1>7. ASSUME NEW p \in Procs, WritesNothing(p) \/ WritesAll(p) PROVE LoggerInv'
  BY <1>7, EndKeepsCount DEF WritesNothing, WritesAll
<1>8. CASE Tick
  BY <1>8, TickKeepsLog
<1>9. CASE UNCHANGED logVars
  <2>1. UNCHANGED loggerVars /\ at' = at /\ fds' = fds
    BY <1>9 DEF logVars, procVars
  <2> QED BY <2>1, LogIsKept DEF LoggerInv, LoggerTypeOK, loggerVars, logsVars
<1> QED BY <1>1, <1>2, <1>3, <1>4, <1>5, <1>6, <1>7, <1>8, <1>9 DEF LoggerNext

LEMMA LoggerAlways == LoggerSpec => []LoggerInv
  BY LoggerStarts, LoggerStep, PTL DEF LoggerSpec

(* Whatever descriptors the listener and its sessions open, close and      *)
(* inherit, and whichever of their calls fail: what a process that never   *)
(* failed to close a log writes to is a log, never its client or the       *)
(* listening socket (logger.c:88-140, listener.c:66-106).                  *)
THEOREM LogStaysApart == LoggerSpec => []LogsApart
<1>1. LoggerInv => LogsApart
  BY DEF LoggerInv, LogIsLog, LogsApart
<1> QED BY <1>1, LoggerAlways, PTL

(* Whatever the messages' lengths and the results of write(), also where   *)
(* the unsigned total passes zero, a process adds less than the threshold  *)
(* and one message to a log each time it opens it or has it from the fork, *)
(* over what failed writes took from the count (logger.c:104-146,          *)
(* 181-228).  A log opened again within its second may so hold any number  *)
(* of thresholds.                                                          *)
THEOREM NoLogOvergrows == LoggerSpec => []RotatesInTime
<1>1. LoggerInv => RotatesInTime
  BY DEF LoggerInv, LogIsCounted, Accounted, Within, Allowed, RotatesInTime
<1> QED BY <1>1, LoggerAlways, PTL

----------------------------------------------------------------------------
(* The calendar.                                                           *)

(* The year of a day: its days, its leap day, its first day.               *)

LEMMA YearDayRange ==
  ASSUME NEW day \in Nat
  PROVE  year_day(day) \in 0 .. IF is_leap_year(day) THEN 365 ELSE 364
BY DEF year_day, is_leap_year, trunc_to_year, YearOf4, DAYS_IN_4_PERIOD, DAYS_IN_100_PERIOD, DAYS_IN_400_PERIOD

LEMMA LeapAgrees ==
  ASSUME NEW day \in Nat
  PROVE  is_leap_year(day) <=> LeapYear(extract_year(day))
BY SMTT(60) DEF is_leap_year, LeapYear, extract_year, YearOf4, DAYS_IN_4_PERIOD, DAYS_IN_100_PERIOD, DAYS_IN_400_PERIOD

(* The days before a year, as make_date counts them.                       *)
YearStart(year) ==
  ((year - 1) \div 400) * DAYS_IN_400_PERIOD
  + (((year - 1) % 400) \div 100) * DAYS_IN_100_PERIOD
  + (((year - 1) % 100) \div 4) * DAYS_IN_4_PERIOD
  + ((year - 1) % 4) * 365

LEMMA YearStarts ==
  ASSUME NEW day \in Nat
  PROVE  trunc_to_year(day) = YearStart(extract_year(day))
BY SMTT(60) DEF YearStart, trunc_to_year, extract_year, YearOf4, DAYS_IN_4_PERIOD, DAYS_IN_100_PERIOD, DAYS_IN_400_PERIOD

Apart(day, a, b, c, e, d, r4, r100, r400) ==
  /\ a \in Nat /\ b \in 0 .. 3 /\ c \in 0 .. 24 /\ e \in 0 .. 3
  /\ d \in 0 .. IF e = 3 /\ (c # 24 \/ b = 3) THEN 365 ELSE 364
  /\ r4 = e * 365 + d /\ r100 = c * 1461 + r4 /\ r400 = b * 36524 + r100 /\ day = a * 146097 + r400

LEMMA YearOfDay ==
  ASSUME NEW day, NEW a, NEW b, NEW c, NEW e, NEW d, NEW r4, NEW r100, NEW r400,
         Apart(day, a, b, c, e, d, r4, r100, r400)
  PROVE  day \in Nat /\ extract_year(day) = a * 400 + b * 100 + c * 4 + e + 1
<1>0. /\ a \in Nat /\ b \in 0 .. 3 /\ c \in 0 .. 24 /\ e \in 0 .. 3
      /\ d \in 0 .. IF e = 3 /\ (c # 24 \/ b = 3) THEN 365 ELSE 364
      /\ r4 = e * 365 + d /\ r100 = c * 1461 + r4 /\ r400 = b * 36524 + r100 /\ day = a * 146097 + r400
      /\ r4 \in Int /\ r100 \in Int /\ r400 \in Int /\ day \in Int
  BY DEF Apart
<1> USE <1>0
<1>1. d \in Int /\ 0 <= d /\ d <= 365 /\ (d = 365 => e = 3 /\ (c # 24 \/ b = 3))
  OBVIOUS
<1>2. 0 <= r4 /\ r4 <= 1460 /\ (r4 = 1460 <=> d = 365 /\ e = 3)
  BY <1>1
<1>3. 0 <= r100 /\ r100 <= 36524 /\ (r100 = 36524 <=> c = 24 /\ r4 = 1460)
  BY <1>2
<1>4. r100 = 36524 => b = 3
  BY <1>1, <1>2, <1>3
<1>5. 0 <= r400 /\ r400 <= 146096 /\ (r400 = 146096 <=> r100 = 36524)
  BY <1>3, <1>4
<1>6. day \in Nat /\ day \div 146097 = a /\ day % 146097 = r400
  BY <1>5
<1>7. r400 # 146096 => r400 \div 36524 = b /\ r400 % 36524 = r100
  BY <1>3, <1>5
<1>8. r100 \div 1461 = c /\ r100 % 1461 = r4
  BY <1>2
<1>9. YearOf4(r4) = e
  BY <1>1, <1>2 DEF YearOf4, DAYS_IN_4_PERIOD
<1>10. CASE r400 = 146096
  <2>1. extract_year(day) = a * 400 + 3 * 100 + (36524 \div 1461) * 4 + YearOf4(36524 % 1461) + 1
    BY <1>6, <1>10 DEF extract_year, DAYS_IN_4_PERIOD, DAYS_IN_100_PERIOD, DAYS_IN_400_PERIOD
  <2>2. r100 = 36524 /\ b = 3
    BY <1>5, <1>4, <1>10
  <2> QED BY <2>1, <2>2, <1>8, <1>9, <1>6
<1>11. CASE r400 # 146096
  <2>1. extract_year(day) = a * 400 + (r400 \div 36524) * 100 + ((r400 % 36524) \div 1461) * 4
                            + YearOf4((r400 % 36524) % 1461) + 1
    BY <1>6, <1>11 DEF extract_year, DAYS_IN_4_PERIOD, DAYS_IN_100_PERIOD, DAYS_IN_400_PERIOD
  <2> QED BY <2>1, <1>6, <1>7, <1>8, <1>9, <1>11
<1> QED BY <1>10, <1>11

(* The months added up are the table of days before each month.            *)
LEMMA DaysBeforeTable ==
  ASSUME NEW leap \in BOOLEAN
  PROVE  DaysBefore(leap) = year_day_by_month(leap)
<1> DEFINE Sums(f) == f = [m \in 1 .. MONTHS |-> IF m = 1 THEN 0 ELSE f[m - 1] + month_days(leap)[m - 1]]
<1>1. Sums(year_day_by_month(leap))
  BY DEF year_day_by_month, month_days, MONTHS
<1>2. DaysBefore(leap) = CHOOSE f : Sums(f)
  BY DEF DaysBefore
<1>3. \A f : Sums(f) => f = year_day_by_month(leap)
  BY DEF year_day_by_month, month_days, MONTHS
<1> QED BY <1>1, <1>2, <1>3

LEMMA Quarter ==
  ASSUME NEW q \in 0 .. 99
  PROVE  q \div 4 \in 0 .. 24 /\ q % 4 \in 0 .. 3 /\ q = (q \div 4) * 4 + (q % 4)
OBVIOUS

LEMMA FourthDigit ==
  ASSUME NEW u \in Nat, NEW t \in 0 .. 3, NEW y \in Int, y = u * 4 + t
  PROVE  y % 4 = t
OBVIOUS

(* A year as its centuries, fours and rest, and the days before it.        *)
LEMMA YearParts ==
  ASSUME NEW year \in Nat \ {0}, NEW a \in Int, NEW b \in Int, NEW c \in Int, NEW e \in Int,
         a = (year - 1) \div 400, b = ((year - 1) % 400) \div 100,
         c = ((year - 1) % 100) \div 4, e = (year - 1) % 4
  PROVE  /\ a \in Nat /\ b \in 0 .. 3 /\ c \in 0 .. 24 /\ e \in 0 .. 3
         /\ year = a * 400 + b * 100 + c * 4 + e + 1
         /\ YearStart(year) = a * 146097 + b * 36524 + c * 1461 + e * 365
         /\ LeapYear(year) <=> e = 3 /\ (c # 24 \/ b = 3)
<1>1. /\ a \in Nat /\ b \in 0 .. 3 /\ c \in 0 .. 24 /\ e \in 0 .. 3
      /\ year = a * 400 + b * 100 + c * 4 + e + 1
  <2>1. PICK y \in Nat : y = year - 1
    OBVIOUS
  <2>2. PICK r \in Int : r = y % 400
    BY <2>1
  <2>3. a \in Nat /\ r \in 0 .. 399 /\ y = a * 400 + r
    BY <2>1, <2>2
  <2>4. PICK q \in Int : q = r % 100
    BY <2>3
  <2>5. b = r \div 100
    BY <2>1, <2>2
  <2>6. b \in 0 .. 3 /\ q \in 0 .. 99 /\ r = b * 100 + q
    BY <2>3, <2>4, <2>5
  <2>7. PICK k \in Int : k = a * 4 + b
    BY <2>3, <2>6
  <2>8. y = k * 100 + q
    BY <2>3, <2>6, <2>7
  <2>9. y % 100 = q
    BY <2>6, <2>7, <2>8
  <2>10. c = q \div 4
    BY <2>1, <2>9
  <2>11. c \in 0 .. 24 /\ q = c * 4 + (q % 4) /\ q % 4 \in 0 .. 3
    BY <2>6, <2>10, Quarter
  <2>12. PICK t \in Int : t = q % 4
    BY <2>6
  <2>13. PICK u \in Nat : u = k * 25 + c
    BY <2>3, <2>6, <2>7, <2>11
  <2>14. t \in 0 .. 3 /\ y = u * 4 + t
    BY <2>8, <2>11, <2>12, <2>13
  <2>15. y % 4 = t
    BY <2>13, <2>14, <2>1, FourthDigit
  <2>16. e = y % 4
    BY <2>1
  <2> QED BY <2>1, <2>3, <2>6, <2>11, <2>12, <2>15, <2>16
<1>2. YearStart(year) = a * 146097 + b * 36524 + c * 1461 + e * 365
  BY DEF YearStart, DAYS_IN_4_PERIOD, DAYS_IN_100_PERIOD, DAYS_IN_400_PERIOD
<1>3. LeapYear(year) <=> e = 3 /\ (c # 24 \/ b = 3)
  BY <1>1 DEF LeapYear
<1> QED BY <1>1, <1>2, <1>3

(* Every day counted from the first of a year is of that year.             *)
LEMMA DayOfYear ==
  ASSUME NEW year \in Nat \ {0}, NEW d \in 0 .. IF LeapYear(year) THEN 365 ELSE 364,
         NEW day, day = YearStart(year) + d
  PROVE  /\ day \in Nat /\ extract_year(day) = year
         /\ is_leap_year(day) <=> LeapYear(year)
         /\ trunc_to_year(day) = YearStart(year)
         /\ year_day(day) = d
<1>1. PICK a \in Int, b \in Int, c \in Int, e \in Int :
        /\ a = (year - 1) \div 400 /\ b = ((year - 1) % 400) \div 100
        /\ c = ((year - 1) % 100) \div 4 /\ e = (year - 1) % 4
  OBVIOUS
<1>2. /\ a \in Nat /\ b \in 0 .. 3 /\ c \in 0 .. 24 /\ e \in 0 .. 3
      /\ year = a * 400 + b * 100 + c * 4 + e + 1
      /\ YearStart(year) = a * 146097 + b * 36524 + c * 1461 + e * 365
      /\ LeapYear(year) <=> e = 3 /\ (c # 24 \/ b = 3)
  BY <1>1, YearParts
<1>3. d \in 0 .. IF e = 3 /\ (c # 24 \/ b = 3) THEN 365 ELSE 364
  BY <1>2
<1>4. d \in Int
  OBVIOUS
<1>5. PICK r4 \in Int : r4 = e * 365 + d
  BY <1>2, <1>4
<1>6. PICK r100 \in Int : r100 = c * 1461 + r4
  BY <1>2
<1>7. PICK r400 \in Int : r400 = b * 36524 + r100
  BY <1>2
<1>8. day = a * 146097 + r400 /\ day \in Int
  BY <1>2, <1>4, <1>5, <1>6, <1>7
<1>9. day \in Nat /\ extract_year(day) = a * 400 + b * 100 + c * 4 + e + 1
  <2>1. Apart(day, a, b, c, e, d, r4, r100, r400)
    BY <1>2, <1>3, <1>5, <1>6, <1>7, <1>8 DEF Apart
  <2> QED BY <2>1, YearOfDay
<1>10. extract_year(day) = year /\ day \in Nat
  BY <1>2, <1>9
<1>11. trunc_to_year(day) = YearStart(year)
  BY <1>10, YearStarts
<1>12. YearStart(year) \in Int
  BY <1>2
<1> QED BY <1>10, <1>11, <1>12, <1>4, LeapAgrees DEF year_day

(* The two tables agree with the lengths of the months.                    *)
LEMMA Table ==
  ASSUME NEW year \in Nat, NEW month \in 1 .. 12, NEW before, before = year_day_by_month(LeapYear(year))
  PROVE  /\ before[month] \in Nat
         /\ month_days(LeapYear(year))[month] = LastOf(year, month)
         /\ LastOf(year, month) \in 28 .. 31
         /\ month < 12 => before[month + 1] = before[month] + LastOf(year, month)
         /\ month = 12 => before[month] + 31 = IF LeapYear(year) THEN 366 ELSE 365
<1>1. month \in {1, 2, 3, 4, 5, 6, 7, 8, 9, 10, 11, 12}
  OBVIOUS
<1> QED BY <1>1 DEF year_day_by_month, month_days, LastOf

InMonth(before, month, j) == before[month] <= j /\ (month = 12 \/ j < before[month + 1])

LEMMA OneMonth ==
  ASSUME NEW leap \in BOOLEAN, NEW before, before = year_day_by_month(leap), NEW j \in Nat
  PROVE  /\ \E m \in 1 .. 12 : InMonth(before, m, j)
         /\ \A m1, m2 \in 1 .. 12 : InMonth(before, m1, j) /\ InMonth(before, m2, j) => m1 = m2
<1>1. PICK s \in Nat : s = IF leap THEN 1 ELSE 0
  OBVIOUS
<1>2. /\ before[1] = 0 /\ before[2] = 31 /\ before[3] = 59 + s /\ before[4] = 90 + s
      /\ before[5] = 120 + s /\ before[6] = 151 + s /\ before[7] = 181 + s /\ before[8] = 212 + s
      /\ before[9] = 243 + s /\ before[10] = 273 + s /\ before[11] = 304 + s /\ before[12] = 334 + s
  BY <1>1 DEF year_day_by_month
<1>3. \A m \in 1 .. 12 : m \in {1, 2, 3, 4, 5, 6, 7, 8, 9, 10, 11, 12}
  OBVIOUS
<1>4. \E m \in 1 .. 12 : InMonth(before, m, j)
  <2>1. s \in {0, 1}
    BY <1>1
  <2>2. SUFFICES ASSUME \A m \in 1 .. 12 : ~ InMonth(before, m, j)
                 PROVE  FALSE
    OBVIOUS
  <2>3. /\ ~ InMonth(before, 1, j) /\ ~ InMonth(before, 2, j) /\ ~ InMonth(before, 3, j)
        /\ ~ InMonth(before, 4, j) /\ ~ InMonth(before, 5, j) /\ ~ InMonth(before, 6, j)
        /\ ~ InMonth(before, 7, j) /\ ~ InMonth(before, 8, j) /\ ~ InMonth(before, 9, j)
        /\ ~ InMonth(before, 10, j) /\ ~ InMonth(before, 11, j) /\ ~ InMonth(before, 12, j)
    BY <2>2
  <2> QED BY <2>1, <2>3, <1>2 DEF InMonth
<1>5. ASSUME NEW m1 \in 1 .. 12, NEW m2 \in 1 .. 12, m1 < m2
      PROVE  before[m1 + 1] <= before[m2]
  BY <1>1, <1>2, <1>3, <1>5
<1>6. \A m \in 1 .. 12 : before[m] \in Nat
  BY <1>1, <1>2, <1>3
<1>7. ASSUME NEW m1 \in 1 .. 12, NEW m2 \in 1 .. 12, m1 < m2, InMonth(before, m1, j)
      PROVE  ~ InMonth(before, m2, j)
  BY <1>5, <1>6, <1>7 DEF InMonth
<1>8. ASSUME NEW m1 \in 1 .. 12, NEW m2 \in 1 .. 12, m1 # m2
      PROVE  m1 < m2 \/ m2 < m1
  BY <1>8
<1> QED BY <1>4, <1>7, <1>8

LEMMA MonthOfDay ==
  ASSUME NEW day \in Nat, NEW before, before = year_day_by_month(is_leap_year(day)),
         NEW month \in 1 .. 12, InMonth(before, month, year_day(day))
  PROVE  /\ extract_month_of_year(day) = month
         /\ extract_day_of_month(day) = year_day(day) - before[month] + 1
<1>1. is_leap_year(day) \in BOOLEAN
  BY DEF is_leap_year
<1>2. DaysBefore(is_leap_year(day)) = before
  BY <1>1, DaysBeforeTable
<1>3. extract_month_of_year(day) = CHOOSE m \in 1 .. 12 : InMonth(before, m, year_day(day))
  BY <1>2 DEF extract_month_of_year, InMonth, MONTHS
<1>4. year_day(day) \in Nat
  BY YearDayRange
<1>5. \A m1, m2 \in 1 .. 12 : InMonth(before, m1, year_day(day)) /\ InMonth(before, m2, year_day(day)) => m1 = m2
  BY <1>1, <1>4, OneMonth
<1>6. extract_month_of_year(day) = month
  BY <1>3, <1>5
<1> QED BY <1>2, <1>6 DEF extract_day_of_month

LEMMA ExtractedYear ==
  ASSUME NEW day \in Nat
  PROVE  extract_year(day) \in Nat \ {0}
BY DEF extract_year, YearOf4, DAYS_IN_4_PERIOD, DAYS_IN_100_PERIOD, DAYS_IN_400_PERIOD

DayOf(year, month, day) ==
  year \in Nat \ {0} /\ month \in 1 .. 12 /\ day \in 1 .. LastOf(year, month)

LEMMA TableIn ==
  ASSUME NEW year \in Nat \ {0}, NEW month \in 1 .. 12, NEW day \in 1 .. LastOf(year, month),
         NEW before, before = year_day_by_month(LeapYear(year)), NEW j, j = before[month] + day - 1
  PROVE  j \in 0 .. (IF LeapYear(year) THEN 365 ELSE 364) /\ InMonth(before, month, j)
<1>1. month \in {1, 2, 3, 4, 5, 6, 7, 8, 9, 10, 11, 12}
  OBVIOUS
<1>2. day \in Nat /\ 1 <= day /\ day <= LastOf(year, month)
  BY Table
<1> QED BY <1>1, <1>2 DEF year_day_by_month, LastOf, InMonth

(* A day of the calendar is taken apart to what it was made of.            *)
LEMMA MadeIsTaken ==
  ASSUME NEW year, NEW month, NEW day, DayOf(year, month, day)
  PROVE  /\ make_date(year, month, day) \in Nat
         /\ extract_year(make_date(year, month, day)) = year
         /\ extract_month_of_year(make_date(year, month, day)) = month
         /\ extract_day_of_month(make_date(year, month, day)) = day
<1>1. year \in Nat \ {0} /\ month \in 1 .. 12 /\ day \in 1 .. LastOf(year, month) /\ day \in Nat
  BY Table DEF DayOf
<1>2. PICK before : before = year_day_by_month(LeapYear(year))
  OBVIOUS
<1>3. PICK j : j = before[month] + day - 1
  OBVIOUS
<1>4. j \in 0 .. (IF LeapYear(year) THEN 365 ELSE 364) /\ InMonth(before, month, j)
  BY <1>1, <1>2, <1>3, TableIn
<1>5. before[month] \in Nat
  BY <1>1, <1>2, Table
<1>6. YearStart(year) \in Int
  BY <1>1 DEF YearStart, DAYS_IN_4_PERIOD, DAYS_IN_100_PERIOD, DAYS_IN_400_PERIOD
<1>7. PICK date0 : date0 = make_date(year, month, day)
  OBVIOUS
<1>8. date0 = YearStart(year) + before[month] + day - 1
  BY <1>2, <1>7 DEF make_date, YearStart
<1>9. date0 = YearStart(year) + j
  BY <1>1, <1>3, <1>5, <1>6, <1>8
<1>10. /\ date0 \in Nat /\ extract_year(date0) = year
       /\ is_leap_year(date0) <=> LeapYear(year)
       /\ year_day(date0) = j
  BY <1>1, <1>4, <1>9, DayOfYear
<1>11. is_leap_year(date0) = LeapYear(year)
  BY <1>10 DEF is_leap_year, LeapYear
<1>12. /\ extract_month_of_year(date0) = month
       /\ extract_day_of_month(date0) = j - before[month] + 1
  BY <1>1, <1>2, <1>4, <1>10, <1>11, MonthOfDay
<1>13. j - before[month] + 1 = day
  BY <1>1, <1>3, <1>5
<1> QED BY <1>7, <1>10, <1>12, <1>13

(* What any day is taken apart to is a day of the calendar: the same day.  *)
LEMMA TakenIsMade ==
  ASSUME NEW day \in Nat
  PROVE  /\ DayOf(extract_year(day), extract_month_of_year(day), extract_day_of_month(day))
         /\ make_date(extract_year(day), extract_month_of_year(day), extract_day_of_month(day)) = day
         /\ is_leap_year(day) = LeapYear(extract_year(day))
         /\ trunc_to_year(day) = make_date(extract_year(day), 1, 1)
<1>1. PICK year : year = extract_year(day)
  OBVIOUS
<1>2. year \in Nat \ {0}
  BY <1>1, ExtractedYear
<1>3. is_leap_year(day) = LeapYear(year) /\ LeapYear(year) \in BOOLEAN
  <2>1. is_leap_year(day) \in BOOLEAN /\ LeapYear(year) \in BOOLEAN
    BY DEF is_leap_year, LeapYear
  <2> QED BY <2>1, <1>1, LeapAgrees
<1>4. PICK j : j = year_day(day)
  OBVIOUS
<1>5. j \in 0 .. (IF LeapYear(year) THEN 365 ELSE 364) /\ j \in Nat
  BY <1>3, <1>4, YearDayRange
<1>6. trunc_to_year(day) = YearStart(year)
  BY <1>1, YearStarts
<1>7. YearStart(year) \in Int
  BY <1>2 DEF YearStart, DAYS_IN_4_PERIOD, DAYS_IN_100_PERIOD, DAYS_IN_400_PERIOD
<1>8. day = YearStart(year) + j
  BY <1>4, <1>6, <1>7 DEF year_day
<1>9. PICK before : before = year_day_by_month(LeapYear(year))
  OBVIOUS
<1>10. PICK month \in 1 .. 12 : InMonth(before, month, j)
  BY <1>3, <1>5, <1>9, OneMonth
<1>11. /\ extract_month_of_year(day) = month
       /\ extract_day_of_month(day) = j - before[month] + 1
  BY <1>3, <1>4, <1>9, <1>10, MonthOfDay
<1>12. /\ before[month] \in Nat /\ LastOf(year, month) \in 28 .. 31
       /\ month < 12 => before[month + 1] = before[month] + LastOf(year, month)
       /\ month = 12 => before[month] + 31 = IF LeapYear(year) THEN 366 ELSE 365
  BY <1>2, <1>9, Table
<1>13. month = 12 => LastOf(year, month) = 31
  BY DEF LastOf
<1>14. j - before[month] + 1 \in 1 .. LastOf(year, month)
  BY <1>5, <1>10, <1>12, <1>13 DEF InMonth
<1>15. make_date(year, month, j - before[month] + 1) = day
  <2>1. PICK k \in Int : k = j - before[month] + 1
    BY <1>5, <1>12
  <2>2. make_date(year, month, k) = YearStart(year) + before[month] + k - 1
    BY <1>9 DEF make_date, YearStart
  <2> QED BY <2>1, <2>2, <1>5, <1>7, <1>8, <1>12
<1>16. make_date(year, 1, 1) = YearStart(year)
  <2>1. make_date(year, 1, 1) = YearStart(year) + year_day_by_month(LeapYear(year))[1] + 1 - 1
    BY DEF make_date, YearStart
  <2>2. year_day_by_month(LeapYear(year))[1] = 0
    BY DEF year_day_by_month
  <2> QED BY <2>1, <2>2, <1>7
<1>17. DayOf(year, month, j - before[month] + 1)
  BY <1>2, <1>10, <1>14 DEF DayOf
<1>18. trunc_to_year(day) = make_date(year, 1, 1)
  BY <1>6, <1>16
<1> QED BY <1>1, <1>3, <1>11, <1>15, <1>17, <1>18

LEMMA YearAfter ==
  ASSUME NEW year \in Nat \ {0}
  PROVE  YearStart(year + 1) = YearStart(year) + IF LeapYear(year) THEN 366 ELSE 365
<1>1. PICK a \in Int, b \in Int, c \in Int, e \in Int :
        /\ a = (year - 1) \div 400 /\ b = ((year - 1) % 400) \div 100
        /\ c = ((year - 1) % 100) \div 4 /\ e = (year - 1) % 4
  OBVIOUS
<1>2. /\ a \in Nat /\ b \in 0 .. 3 /\ c \in 0 .. 24 /\ e \in 0 .. 3
      /\ year = a * 400 + b * 100 + c * 4 + e + 1
      /\ YearStart(year) = a * 146097 + b * 36524 + c * 1461 + e * 365
      /\ LeapYear(year) <=> e = 3 /\ (c # 24 \/ b = 3)
  BY <1>1, YearParts
<1>3. PICK next \in Nat \ {0} : next = year + 1
  OBVIOUS
<1>4. PICK a1 \in Int, b1 \in Int, c1 \in Int, e1 \in Int :
        /\ a1 = (next - 1) \div 400 /\ b1 = ((next - 1) % 400) \div 100
        /\ c1 = ((next - 1) % 100) \div 4 /\ e1 = (next - 1) % 4
  OBVIOUS
<1>5. /\ a1 \in Nat /\ b1 \in 0 .. 3 /\ c1 \in 0 .. 24 /\ e1 \in 0 .. 3
      /\ next = a1 * 400 + b1 * 100 + c1 * 4 + e1 + 1
      /\ YearStart(next) = a1 * 146097 + b1 * 36524 + c1 * 1461 + e1 * 365
  BY <1>4, YearParts
<1>6. CASE e < 3
  <2>1. a1 = a /\ b1 = b /\ c1 = c /\ e1 = e + 1
    BY <1>2, <1>3, <1>5, <1>6, SMTT(60)
  <2> QED BY <2>1, <1>2, <1>3, <1>5, <1>6
<1>7. CASE e = 3 /\ c < 24
  <2>1. a1 = a /\ b1 = b /\ c1 = c + 1 /\ e1 = 0
    BY <1>2, <1>3, <1>5, <1>7
  <2> QED BY <2>1, <1>2, <1>3, <1>5, <1>7
<1>8. CASE e = 3 /\ c = 24 /\ b < 3
  <2>1. a1 = a /\ b1 = b + 1 /\ c1 = 0 /\ e1 = 0
    BY <1>2, <1>3, <1>5, <1>8
  <2> QED BY <2>1, <1>2, <1>3, <1>5, <1>8
<1>9. CASE e = 3 /\ c = 24 /\ b = 3
  <2>1. a1 = a + 1 /\ b1 = 0 /\ c1 = 0 /\ e1 = 0
    BY <1>2, <1>3, <1>5, <1>9
  <2> QED BY <2>1, <1>2, <1>3, <1>5, <1>9
<1> QED BY <1>2, <1>6, <1>7, <1>8, <1>9

(* The next day of the calendar is one day later.                          *)
LEMMA DayAfter ==
  ASSUME NEW year, NEW month, NEW day, DayOf(year, month, day)
  PROVE  /\ day < LastOf(year, month) =>
              /\ DayOf(year, month, day + 1)
              /\ make_date(year, month, day + 1) = make_date(year, month, day) + 1
         /\ ~ (day < LastOf(year, month)) /\ month < 12 =>
              /\ DayOf(year, month + 1, 1)
              /\ make_date(year, month + 1, 1) = make_date(year, month, day) + 1
         /\ ~ (day < LastOf(year, month)) /\ ~ (month < 12) =>
              /\ DayOf(year + 1, 1, 1)
              /\ make_date(year + 1, 1, 1) = make_date(year, month, day) + 1
<1>1. year \in Nat \ {0} /\ month \in 1 .. 12 /\ day \in 1 .. LastOf(year, month)
  BY DEF DayOf
<1>2. PICK before : before = year_day_by_month(LeapYear(year))
  OBVIOUS
<1>3. /\ before[month] \in Nat /\ LastOf(year, month) \in 28 .. 31
      /\ month < 12 => before[month + 1] = before[month] + LastOf(year, month)
      /\ month = 12 => before[month] + 31 = IF LeapYear(year) THEN 366 ELSE 365
  BY <1>1, <1>2, Table
<1>4. \A y \in Nat \ {0} : YearStart(y) \in Int
  BY DEF YearStart, DAYS_IN_4_PERIOD, DAYS_IN_100_PERIOD, DAYS_IN_400_PERIOD
<1>5. \A m, d : make_date(year, m, d) = YearStart(year) + before[m] + d - 1
  BY <1>2 DEF make_date, YearStart
<1>6. CASE day < LastOf(year, month)
  <2>1. DayOf(year, month, day + 1)
    BY <1>1, <1>3, <1>6 DEF DayOf
  <2> QED BY <2>1, <1>1, <1>3, <1>4, <1>5, <1>6
<1>7. CASE ~ (day < LastOf(year, month)) /\ month < 12
  <2>1. month + 1 \in 1 .. 12 /\ day = LastOf(year, month)
    BY <1>1, <1>3, <1>7
  <2>2. LastOf(year, month + 1) \in 28 .. 31
    BY <2>1, <1>1, Table
  <2>3. DayOf(year, month + 1, 1)
    BY <1>1, <2>1, <2>2 DEF DayOf
  <2> QED BY <2>1, <2>3, <1>1, <1>3, <1>4, <1>5, <1>7
<1>8. CASE ~ (day < LastOf(year, month)) /\ ~ (month < 12)
  <2>1. month = 12 /\ day = 31
    <3>1. month = 12
      BY <1>1, <1>8
    <3>2. LastOf(year, month) = 31
      BY <3>1 DEF LastOf
    <3> QED BY <3>1, <3>2, <1>1, <1>8
  <2>2. PICK next \in Nat \ {0} : next = year + 1
    BY <1>1
  <2>3. LastOf(next, 1) \in 28 .. 31
    BY <2>2, Table
  <2>4. DayOf(next, 1, 1)
    BY <2>2, <2>3 DEF DayOf
  <2>5. make_date(next, 1, 1) = YearStart(next)
    <3>1. make_date(next, 1, 1) = YearStart(next) + year_day_by_month(LeapYear(next))[1] + 1 - 1
      BY DEF make_date, YearStart
    <3>2. year_day_by_month(LeapYear(next))[1] = 0
      BY DEF year_day_by_month
    <3> QED BY <3>1, <3>2, <2>2, <1>4
  <2>6. YearStart(next) = YearStart(year) + IF LeapYear(year) THEN 366 ELSE 365
    BY <2>2, <1>1, YearAfter
  <2>7. make_date(year, month, day) = YearStart(year) + before[month] + 31 - 1
    BY <2>1, <1>5
  <2>8. make_date(next, 1, 1) = make_date(year, month, day) + 1
    BY <2>1, <2>5, <2>6, <2>7, <1>1, <1>3, <1>4
  <2> QED BY <2>2, <2>4, <2>8, <1>8
<1> QED BY <1>6, <1>7, <1>8
SecondsOf(j, h, m, s) ==
  h \in 0 .. 23 /\ m \in 0 .. 59 /\ s \in 0 .. 59 /\ j = h * 3600 + m * 60 + s

LEMMA TimeBack ==
  ASSUME NEW j, NEW h, NEW m, NEW s, SecondsOf(j, h, m, s)
  PROVE  j \in Nat /\ j \div 3600 = h /\ (j % 3600) \div 60 = m /\ j % 60 = s
<1> USE DEF SecondsOf
<1>1. j \in Nat /\ j \div 3600 = h /\ j % 3600 = m * 60 + s
  OBVIOUS
<1>2. (m * 60 + s) \div 60 = m
  OBVIOUS
<1>3. PICK k \in Nat : k = h * 60 + m
  OBVIOUS
<1>4. j = k * 60 + s
  BY <1>3
<1>5. j % 60 = s
  BY <1>3, <1>4
<1> QED BY <1>1, <1>2, <1>5

Time == [hour : 0 .. 255, min : 0 .. 255, sec : 0 .. 255]
Parts == [year : Nat, month : 0 .. 255, day : 0 .. 255, time : Time]

(* What is known of the variables between the steps: a date there is has   *)
(* been made of parts it can be made of, or came as it is.                 *)
CalendarInv ==
  /\ date # <<>> => date.day \in Nat /\ date.sec \in Nat /\ date = [day |-> date.day, sec |-> date.sec]
  /\ made # <<>> =>
       /\ made \in Parts
       /\ made_ret = IF TimeError(made.time) # 0 THEN TimeError(made.time)
                     ELSE DateError(made.year, made.month, made.day)
       /\ date # <<>> =>
            /\ made_ret = 0
            /\ date = [day |-> make_date(made.year, made.month, made.day), sec |-> SecondOfDay(made.time)]
  /\ taken # <<>> => date # <<>> /\ taken = TakenApart(date)

LEMMA Refused ==
  ASSUME NEW p \in Parts
  PROVE  /\ TimeError(p.time) = 0 <=> p.time.hour < 24 /\ p.time.min < 60 /\ p.time.sec < 60
         /\ DateError(p.year, p.month, p.day) = 0 <=> DayOf(p.year, p.month, p.day)
<1>1. p.time \in Time /\ p.year \in Nat /\ p.month \in Nat /\ p.day \in Nat
  BY DEF Parts
<1>2. p.time.hour \in Nat /\ p.time.min \in Nat /\ p.time.sec \in Nat
  BY <1>1, SMTT(60) DEF Time
<1>3. TimeError(p.time) = 0 <=> p.time.hour < 24 /\ p.time.min < 60 /\ p.time.sec < 60
  BY <1>2 DEF TimeError
<1>4. p.month \in 1 .. 12 => month_days(LeapYear(p.year))[p.month] = LastOf(p.year, p.month)
  BY <1>1, Table
<1>5. DateError(p.year, p.month, p.day) = 0 <=> DayOf(p.year, p.month, p.day)
  BY <1>1, <1>4 DEF DateError, DayOf
<1> QED BY <1>3, <1>5

LEMMA SecondsAreNat ==
  ASSUME NEW time \in Time
  PROVE  SecondOfDay(time) \in Nat
<1>1. time.hour \in Nat /\ time.min \in Nat /\ time.sec \in Nat
  BY DEF Time
<1> QED BY <1>1 DEF SecondOfDay

LEMMA CalendarInductive == CalendarInv /\ [CalendarNext]_calendarVars => CalendarInv'
<1> SUFFICES ASSUME CalendarInv, [CalendarNext]_calendarVars
             PROVE  CalendarInv'
  OBVIOUS
<1>1. ASSUME NoDate, NEW day \in Days, Arrives(day)
      PROVE  CalendarInv'
  <2>1. day \in Nat /\ 0 \in Nat
    BY CalendarAssumption DEF CalendarAssumption
  <2>2. date' = [day |-> day, sec |-> 0] /\ made' = <<>> /\ taken' = <<>>
    BY <1>1 DEF Arrives, NoDate, CalendarInv
  <2> QED BY <2>1, <2>2 DEF CalendarInv
<1>2. ASSUME NoDate, NEW year \in MadeYears, NEW month \in MadeMonths, NEW day \in MadeDays,
             NEW time \in MadeTimes, make_date_with_time(year, month, day, time)
      PROVE  CalendarInv'
  <2>1. year \in Nat /\ month \in 0 .. 255 /\ day \in 0 .. 255 /\ time \in Time
    BY CalendarAssumption DEF CalendarAssumption, Time
  <2>2. made' = [year |-> year, month |-> month, day |-> day, time |-> time] /\ made' \in Parts
    BY <2>1, <1>2 DEF make_date_with_time, Parts
  <2>3. /\ made'.year = year /\ made'.month = month /\ made'.day = day /\ made'.time = time
    BY <2>2
  <2>4. taken' = <<>>
    BY <1>2 DEF make_date_with_time, NoDate, CalendarInv
  <2>5. made_ret' = IF TimeError(time) # 0 THEN TimeError(time) ELSE DateError(year, month, day)
    BY <1>2 DEF make_date_with_time
  <2>6. date' # <<>> => /\ made_ret' = 0
                        /\ date' = [day |-> make_date(year, month, day), sec |-> SecondOfDay(time)]
    BY <1>2 DEF make_date_with_time, NoDate
  <2>7. made_ret' = 0 => DayOf(year, month, day)
    BY <2>2, <2>3, <2>5, Refused
  <2>8. made_ret' = 0 => make_date(year, month, day) \in Nat /\ SecondOfDay(time) \in Nat
    BY <2>1, <2>7, MadeIsTaken, SecondsAreNat
  <2> QED BY <2>2, <2>3, <2>4, <2>5, <2>6, <2>8 DEF CalendarInv
<1>3. ASSUME Extract
      PROVE  CalendarInv'
  BY <1>3 DEF Extract, CalendarInv
<1>4. ASSUME UNCHANGED calendarVars
      PROVE  CalendarInv'
  BY <1>4 DEF calendarVars, CalendarInv
<1> QED BY <1>1, <1>2, <1>3, <1>4 DEF CalendarNext

LEMMA CalendarAlways == CalendarSpec => []CalendarInv
<1>1. CalendarInit => CalendarInv
  BY DEF CalendarInit, CalendarInv
<1> QED BY <1>1, CalendarInductive, PTL DEF CalendarSpec

(* A date of any year is taken apart to what it was made of, every day is  *)
(* made again of what it is taken apart to, and no other parts are taken.  *)
THEOREM RoundTrip == CalendarSpec => []MadeAsTaken
<1>1. ASSUME CalendarInv, made # <<>>, taken # <<>>
      PROVE  taken = made
  <2>1. /\ made \in Parts /\ made_ret = 0
        /\ made_ret = IF TimeError(made.time) # 0 THEN TimeError(made.time)
                      ELSE DateError(made.year, made.month, made.day)
        /\ date = [day |-> make_date(made.year, made.month, made.day), sec |-> SecondOfDay(made.time)]
        /\ taken = TakenApart(date)
    BY <1>1 DEF CalendarInv
  <2>2. DayOf(made.year, made.month, made.day) /\ TimeError(made.time) = 0
    BY <2>1, Refused
  <2>3. made.time.hour < 24 /\ made.time.min < 60 /\ made.time.sec < 60
    BY <2>1, <2>2, Refused
  <2>4. made.time \in Time
    BY <2>1 DEF Parts
  <2>5. made.time.hour \in 0 .. 23 /\ made.time.min \in 0 .. 59 /\ made.time.sec \in 0 .. 59
    BY <2>3, <2>4 DEF Time
  <2>6. /\ date.day = make_date(made.year, made.month, made.day)
        /\ date.sec = made.time.hour * 3600 + made.time.min * 60 + made.time.sec
    BY <2>1 DEF SecondOfDay
  <2>7. /\ extract_year(date.day) = made.year /\ extract_month_of_year(date.day) = made.month
        /\ extract_day_of_month(date.day) = made.day
    BY <2>2, <2>6, MadeIsTaken
  <2>8. /\ date.sec \div 3600 = made.time.hour /\ (date.sec % 3600) \div 60 = made.time.min
        /\ date.sec % 60 = made.time.sec
    <3>1. SecondsOf(date.sec, made.time.hour, made.time.min, made.time.sec)
      BY <2>5, <2>6 DEF SecondsOf
    <3> QED BY <3>1, TimeBack
  <2>9. taken = [year |-> made.year, month |-> made.month, day |-> made.day,
                 time |-> [hour |-> made.time.hour, min |-> made.time.min, sec |-> made.time.sec]]
    BY <2>1, <2>7, <2>8 DEF TakenApart
  <2>10. made.time = [hour |-> made.time.hour, min |-> made.time.min, sec |-> made.time.sec]
    BY <2>4 DEF Time
  <2>11. made = [year |-> made.year, month |-> made.month, day |-> made.day, time |-> made.time]
    BY <2>1 DEF Parts
  <2> QED BY <2>9, <2>10, <2>11
<1>2. ASSUME CalendarInv, taken # <<>>
      PROVE  date.day = make_date(taken.year, taken.month, taken.day)
  <2>1. date.day \in Nat /\ taken = TakenApart(date)
    BY <1>2 DEF CalendarInv
  <2>2. /\ taken.year = extract_year(date.day) /\ taken.month = extract_month_of_year(date.day)
        /\ taken.day = extract_day_of_month(date.day)
    BY <2>1 DEF TakenApart
  <2> QED BY <2>1, <2>2, TakenIsMade
<1>3. ASSUME CalendarInv, made # <<>>
      PROVE  made_ret = 0 <=> /\ made.year >= 1 /\ made.month \in 1 .. 12
                              /\ made.day \in 1 .. LastOf(made.year, made.month)
                              /\ made.time.hour < 24 /\ made.time.min < 60 /\ made.time.sec < 60
  <2>1. /\ made \in Parts
        /\ made_ret = IF TimeError(made.time) # 0 THEN TimeError(made.time)
                      ELSE DateError(made.year, made.month, made.day)
    BY <1>3 DEF CalendarInv
  <2>2. made.year \in Nat
    BY <2>1 DEF Parts
  <2>3. DayOf(made.year, made.month, made.day) <=>
          /\ made.year >= 1 /\ made.month \in 1 .. 12
          /\ made.day \in 1 .. LastOf(made.year, made.month)
    BY <2>2 DEF DayOf
  <2>4. made_ret = 0 <=> TimeError(made.time) = 0 /\ DateError(made.year, made.month, made.day) = 0
    BY <2>1
  <2>5. /\ TimeError(made.time) = 0 <=> made.time.hour < 24 /\ made.time.min < 60 /\ made.time.sec < 60
        /\ DateError(made.year, made.month, made.day) = 0 <=> DayOf(made.year, made.month, made.day)
    BY <2>1, Refused
  <2> QED BY <2>3, <2>4, <2>5
<1>4. CalendarInv => MadeAsTaken
  BY <1>1, <1>2, <1>3 DEF MadeAsTaken
<1> QED BY <1>4, CalendarAlways, PTL

(* The day after any day is the next one of the calendar.                  *)
THEOREM DaysAreInOrder == CalendarSpec => []DaysFollow
<1>1. ASSUME CalendarInv, taken # <<>>
      PROVE  DaysFollow
  <2>1. /\ date.day \in Nat /\ taken = TakenApart(date)
        /\ date = [day |-> date.day, sec |-> date.sec]
    BY <1>1 DEF CalendarInv
  <2>2. PICK day \in Nat : day = date.day
    BY <2>1
  <2> DEFINE year  == extract_year(day)
             month == extract_month_of_year(day)
             dom   == extract_day_of_month(day)
             time  == [hour |-> date.sec \div 3600, min |-> (date.sec % 3600) \div 60, sec |-> date.sec % 60]
  <2>3. /\ year = extract_year(day) /\ month = extract_month_of_year(day)
        /\ dom = extract_day_of_month(day)
        /\ time = [hour |-> date.sec \div 3600, min |-> (date.sec % 3600) \div 60, sec |-> date.sec % 60]
    OBVIOUS
  <2> HIDE DEF year, month, dom, time
  <2>4. taken = [year |-> year, month |-> month, day |-> dom, time |-> time]
    BY <2>1, <2>2, <2>3 DEF TakenApart
  <2>5. /\ DayOf(year, month, dom) /\ make_date(year, month, dom) = day
        /\ is_leap_year(day) = LeapYear(year) /\ trunc_to_year(day) = make_date(year, 1, 1)
    BY <2>3, TakenIsMade
  <2>6. PICK after \in Nat : after = day + 1
    OBVIOUS
  <2>7. [date EXCEPT !.day = @ + 1] = [day |-> after, sec |-> date.sec]
    BY <2>1, <2>2, <2>6
  <2>8. TakenApart([date EXCEPT !.day = @ + 1]) =
          [year |-> extract_year(after), month |-> extract_month_of_year(after),
           day |-> extract_day_of_month(after), time |-> time]
    BY <2>7, <2>3 DEF TakenApart
  <2>9. TakenApart([date EXCEPT !.day = @ + 1]) = Tomorrow(taken)
    <3>1. CASE dom < LastOf(year, month)
      <4>1. DayOf(year, month, dom + 1) /\ make_date(year, month, dom + 1) = after
        BY <2>5, <2>6, <3>1, DayAfter
      <4>2. TakenApart([date EXCEPT !.day = @ + 1]) = [year |-> year, month |-> month, day |-> dom + 1, time |-> time]
        BY <4>1, <2>8, MadeIsTaken
      <4>3. Tomorrow(taken) = [year |-> year, month |-> month, day |-> dom + 1, time |-> time]
        BY <2>4, <3>1 DEF Tomorrow
      <4> QED BY <4>2, <4>3
    <3>2. CASE ~ (dom < LastOf(year, month)) /\ month < 12
      <4>1. DayOf(year, month + 1, 1) /\ make_date(year, month + 1, 1) = after
        BY <2>5, <2>6, <3>2, DayAfter
      <4>2. TakenApart([date EXCEPT !.day = @ + 1]) = [year |-> year, month |-> month + 1, day |-> 1, time |-> time]
        BY <4>1, <2>8, MadeIsTaken
      <4>3. Tomorrow(taken) = [year |-> year, month |-> month + 1, day |-> 1, time |-> time]
        BY <2>4, <3>2 DEF Tomorrow
      <4> QED BY <4>2, <4>3
    <3>3. CASE ~ (dom < LastOf(year, month)) /\ ~ (month < 12)
      <4>1. DayOf(year + 1, 1, 1) /\ make_date(year + 1, 1, 1) = after
        BY <2>5, <2>6, <3>3, DayAfter
      <4>2. TakenApart([date EXCEPT !.day = @ + 1]) = [year |-> year + 1, month |-> 1, day |-> 1, time |-> time]
        BY <4>1, <2>8, MadeIsTaken
      <4>3. Tomorrow(taken) = [year |-> year + 1, month |-> 1, day |-> 1, time |-> time]
        BY <2>4, <3>3 DEF Tomorrow
      <4> QED BY <4>2, <4>3
    <3> QED BY <3>1, <3>2, <3>3
  <2>10. date.day = 0 => taken.year = 1 /\ taken.month = 1 /\ taken.day = 1
    <3>1. 1 \in Nat \ {0} /\ LastOf(1, 1) \in 28 .. 31
      BY Table
    <3>2. DayOf(1, 1, 1)
      BY <3>1 DEF DayOf
    <3>3. make_date(1, 1, 1) = 0
      <4>1. year_day_by_month(LeapYear(1))[1] = 0
        BY DEF year_day_by_month
      <4> QED BY <4>1 DEF make_date, DAYS_IN_4_PERIOD, DAYS_IN_100_PERIOD, DAYS_IN_400_PERIOD
    <3> QED BY <3>2, <3>3, <2>2, <2>3, <2>4, MadeIsTaken
  <2>11. taken.year = year
    BY <2>4
  <2> QED BY <2>2, <2>5, <2>9, <2>10, <2>11 DEF DaysFollow
<1>2. CalendarInv => DaysFollow
  BY <1>1 DEF DaysFollow
<1> QED BY <1>2, CalendarAlways, PTL

----------------------------------------------------------------------------
(* The text of dates: the characters of a template and of numbers.         *)
Characters == {Figure(d) : d \in 0 .. 9} \cup {"+", "-", ":", "y"} \cup STRING

(* s is before t in the order of texts, by the figure where they differ    *)
(* first.                                                                  *)
LowerAt(s, t, k) ==
  /\ \A i \in 1 .. k - 1 : s[i] = t[i]
  /\ FigureValue(s[k]) \in Nat /\ FigureValue(t[k]) \in Nat
  /\ FigureValue(s[k]) < FigureValue(t[k])
Sorts(s, t) == Len(s) = Len(t) /\ \E k \in 1 .. Len(s) : LowerAt(s, t, k)

(* What sorts by some figure sorts by the first one that differs.           *)
LEMMA SortsIsBefore ==
  ASSUME NEW S, NEW s \in Seq(S), NEW t \in Seq(S), Sorts(s, t)
  PROVE  SortsBefore(s, t)
<1>1. PICK k \in 1 .. Len(s) : LowerAt(s, t, k)
  BY DEF Sorts
<1>2. Len(s) = Len(t) /\ s[k] # t[k] /\ s # t /\ Len(s) \in Nat /\ DOMAIN s = 1 .. Len(s)
  BY <1>1 DEF Sorts, LowerAt
<1> DEFINE D == {i \in DOMAIN s : s[i] # t[i]}
<1>3. k \in D /\ \A i \in D : i >= k
  BY <1>1, <1>2 DEF LowerAt
<1>4. \A x \in D : (\A y \in D : y >= x) => x = k
  <2> TAKE x \in D
  <2>1. HAVE \A y \in D : y >= x
  <2>2. k >= x /\ x >= k /\ x \in Nat
    BY <1>2, <1>3, <2>1
  <2> QED BY <2>2
<1>5. Min(D) = k
  <2>1. Min(D) = CHOOSE x \in D : \A y \in D : y >= x
    BY DEF Min
  <2> HIDE DEF D
  <2> QED BY <1>3, <1>4, <2>1
<1>6. FirstApart(s, t) = k
  BY <1>5 DEF FirstApart
<1> QED BY <1>1, <1>2, <1>6 DEF SortsBefore, LowerAt

(* What is appended to two texts leaves their order, or makes it.          *)
LEMMA SortsBehind ==
  ASSUME NEW S, NEW s \in Seq(S), NEW t \in Seq(S), NEW a \in Seq(S), NEW b \in Seq(S),
         Sorts(s, t), Len(a) = Len(b)
  PROVE  Sorts(s \o a, t \o b)
<1>1. PICK k \in 1 .. Len(s) : LowerAt(s, t, k)
  BY DEF Sorts
<1>2. Len(s) = Len(t) /\ Len(s) \in Nat /\ Len(a) \in Nat
  BY DEF Sorts
<1>3. PICK u, v : u = s \o a /\ v = t \o b
  OBVIOUS
<1>4. /\ Len(u) = Len(s) + Len(a) /\ Len(v) = Len(s) + Len(a)
      /\ \A i \in 1 .. Len(s) : u[i] = s[i] /\ v[i] = t[i]
  <2>1. /\ Len(u) = Len(s) + Len(a)
        /\ \A i \in 1 .. Len(s) + Len(a) : u[i] = IF i <= Len(s) THEN s[i] ELSE a[i - Len(s)]
    BY <1>3, ConcatProperties, ZenonT(60)
  <2>2. /\ Len(v) = Len(t) + Len(b)
        /\ \A i \in 1 .. Len(t) + Len(b) : v[i] = IF i <= Len(t) THEN t[i] ELSE b[i - Len(t)]
    BY <1>3, ConcatProperties
  <2> QED BY <1>2, <2>1, <2>2
<1>5. LowerAt(u, v, k)
  BY <1>1, <1>2, <1>4 DEF LowerAt
<1>6. k \in 1 .. Len(u)
  BY <1>2, <1>4
<1> QED BY <1>3, <1>4, <1>5, <1>6 DEF Sorts

(* Pieces that are in order make an order behind the same text.             *)
LEMMA SortsByPiece ==
  ASSUME NEW S, NEW s \in Seq(S), NEW a \in Seq(S), NEW b \in Seq(S), Sorts(a, b)
  PROVE  Sorts(s \o a, s \o b)
<1>1. PICK k \in 1 .. Len(a) : LowerAt(a, b, k)
  BY DEF Sorts
<1>2. Len(a) = Len(b) /\ Len(s) \in Nat /\ Len(a) \in Nat
  BY DEF Sorts
<1>3. PICK u, v : u = s \o a /\ v = s \o b
  OBVIOUS
<1>4. /\ Len(u) = Len(s) + Len(a) /\ Len(v) = Len(s) + Len(a)
      /\ \A i \in 1 .. Len(s) : u[i] = s[i] /\ v[i] = s[i]
      /\ \A i \in 1 .. Len(a) : u[Len(s) + i] = a[i] /\ v[Len(s) + i] = b[i]
  <2>1. /\ Len(u) = Len(s) + Len(a) /\ \A i \in 1 .. Len(u) : u[i] = IF i <= Len(s) THEN s[i] ELSE a[i - Len(s)]
        /\ Len(v) = Len(s) + Len(b) /\ \A i \in 1 .. Len(v) : v[i] = IF i <= Len(s) THEN s[i] ELSE b[i - Len(s)]
    BY <1>3, ConcatProperties
  <2>2. ASSUME NEW i \in 1 .. Len(a)
        PROVE  u[Len(s) + i] = a[i] /\ v[Len(s) + i] = b[i]
    <3>1. PICK j \in Nat : j = Len(s) + i
      BY <1>2
    <3>2. j \in 1 .. Len(u) /\ j \in 1 .. Len(v) /\ ~ (j <= Len(s)) /\ j - Len(s) = i
      BY <1>2, <2>1, <3>1
    <3> QED BY <2>1, <3>1, <3>2
  <2> QED BY <1>2, <2>1, <2>2
<1>5. PICK m \in Nat : m = Len(s) + k
  BY <1>2
<1>6. m \in 1 .. Len(u)
  BY <1>2, <1>4, <1>5
<1>7. u[m] = a[k] /\ v[m] = b[k]
  BY <1>4, <1>5
<1>8. ASSUME NEW i \in 1 .. m - 1 PROVE u[i] = v[i]
  <2>1. CASE i <= Len(s)
    BY <1>2, <1>4, <2>1
  <2>2. CASE i > Len(s)
    <3>1. PICK j \in 1 .. k - 1 : i = Len(s) + j
      <4>1. i - Len(s) \in 1 .. k - 1 /\ i = Len(s) + (i - Len(s))
        BY <1>2, <1>5, <2>2
      <4> QED BY <4>1
    <3>2. j \in 1 .. Len(a)
      BY <1>2
    <3>3. a[j] = b[j]
      BY <1>1, <3>1 DEF LowerAt
    <3> QED BY <1>4, <3>1, <3>2, <3>3
  <2> QED BY <1>2, <1>5, <2>1, <2>2
<1>9. LowerAt(u, v, m)
  BY <1>1, <1>7, <1>8 DEF LowerAt
<1> QED BY <1>3, <1>4, <1>6, <1>9 DEF Sorts

(* A figure is written for every digit, and stands for it.                  *)
LEMMA FigureOf ==
  ASSUME NEW d \in 0 .. 9
  PROVE  Figure(d) \in Characters /\ FigureValue(Figure(d)) = d
<1>1. Figure(d) \in Characters
  BY DEF Characters
<1>2. \A v \in 0 .. 9 : Figure(v) = Figure(d) => v = d
  BY DEF Figure, Figures
<1>3. FigureValue(Figure(d)) = CHOOSE v \in 0 .. 9 : Figure(v) = Figure(d)
  BY DEF FigureValue
<1> HIDE DEF Figure
<1>4. \A v : v \in 0 .. 9 /\ Figure(v) = Figure(d) <=> v = d
  BY <1>2
<1> QED BY <1>1, <1>3, <1>4

(* Numbers of so many digits sort as texts as they do as numbers.          *)
Padded(x, k, v) == x = strop_fmt_uint64_padded(v, k)

Six(v, a, b, c, d, e, f) ==
  /\ v = a * 100000 + b * 10000 + c * 1000 + d * 100 + e * 10 + f
  /\ (v \div 100000) % 10 = a /\ (v \div 10000) % 10 = b /\ (v \div 1000) % 10 = c
  /\ (v \div 100) % 10 = d /\ (v \div 10) % 10 = e /\ v % 10 = f
Spells(x, k, a, b, c, d, e, f) ==
  /\ x \in Seq(Characters) /\ Len(x) = k
  /\ x[k] = Figure(f) /\ x[k - 1] = Figure(e)
  /\ k >= 3 => x[k - 2] = Figure(d)
  /\ k >= 4 => x[k - 3] = Figure(c)
  /\ k = 6 => x[2] = Figure(b) /\ x[1] = Figure(a)

LEMMA PaddedText ==
  ASSUME NEW k \in {2, 3, 4, 6}, NEW v \in Nat, NEW x, Padded(x, k, v),
         NEW a, NEW b, NEW c, NEW d, NEW e, NEW f, Six(v, a, b, c, d, e, f)
  PROVE  Spells(x, k, a, b, c, d, e, f)
<1>1. x = [i \in 1 .. k |-> Figure((v \div 10 ^ (k - i)) % 10)]
  BY DEF Padded, strop_fmt_uint64_padded
<1>2. \A i \in 1 .. k : x[i] = Figure((v \div 10 ^ (k - i)) % 10)
  BY <1>1
<1>3. /\ 10 ^ 0 = 1 /\ 10 ^ 1 = 10 /\ 10 ^ 2 = 100
      /\ 10 ^ 3 = 1000 /\ 10 ^ 4 = 10000 /\ 10 ^ 5 = 100000
  OBVIOUS
<1>4. ASSUME NEW i \in 1 .. k PROVE x[i] \in Characters
  <2>1. k - i \in {0, 1, 2, 3, 4, 5}
    OBVIOUS
  <2>2. PICK j : j = k - i
    OBVIOUS
  <2>3. j = 0 \/ j = 1 \/ j = 2 \/ j = 3 \/ j = 4 \/ j = 5
    BY <2>1, <2>2
  <2>4. PICK q \in {1, 10, 100, 1000, 10000, 100000} : q = 10 ^ j
    <3>1. CASE j = 0
      BY <1>3, <3>1
    <3>2. CASE j = 1
      BY <1>3, <3>2
    <3>3. CASE j = 2
      BY <1>3, <3>3
    <3>4. CASE j = 3
      BY <1>3, <3>4
    <3>5. CASE j = 4
      BY <1>3, <3>5
    <3>6. CASE j = 5
      BY <1>3, <3>6
    <3> QED BY <2>3, <3>1, <3>2, <3>3, <3>4, <3>5, <3>6
  <2>5. (v \div q) % 10 \in 0 .. 9
    OBVIOUS
  <2> QED BY <1>2, <2>2, <2>4, <2>5, FigureOf
<1>5. x \in Seq(Characters) /\ Len(x) = k
  BY <1>1, <1>4
<1>6. x[k] = Figure((v \div 10 ^ 0) % 10) /\ x[k - 1] = Figure((v \div 10 ^ 1) % 10)
  <2>1. k \in 1 .. k /\ k - k = 0 /\ k - 1 \in 1 .. k /\ k - (k - 1) = 1
    OBVIOUS
  <2> QED BY <1>2, <2>1
<1>7. k >= 3 => x[k - 2] = Figure((v \div 10 ^ 2) % 10)
  <2>1. k >= 3 => k - 2 \in 1 .. k /\ k - (k - 2) = 2
    OBVIOUS
  <2> QED BY <1>2, <2>1
<1>8. k >= 4 => x[k - 3] = Figure((v \div 10 ^ 3) % 10)
  <2>1. k >= 4 => k - 3 \in 1 .. k /\ k - (k - 3) = 3
    OBVIOUS
  <2> QED BY <1>2, <2>1
<1>9. k = 6 => x[2] = Figure((v \div 10 ^ 4) % 10) /\ x[1] = Figure((v \div 10 ^ 5) % 10)
  <2>1. k = 6 => 2 \in 1 .. k /\ k - 2 = 4 /\ 1 \in 1 .. k /\ k - 1 = 5
    OBVIOUS
  <2> QED BY <1>2, <2>1
<1>10. v \div 1 = v
  OBVIOUS
<1> HIDE DEF Figure
<1>11. x[k] = Figure(f) /\ x[k - 1] = Figure(e)
  BY SMT, <1>3, <1>6, <1>10 DEF Six
<1>12. (k >= 3 => x[k - 2] = Figure(d)) /\ (k >= 4 => x[k - 3] = Figure(c))
  BY SMT, <1>3, <1>7, <1>8 DEF Six
<1>13. k = 6 => x[2] = Figure(b) /\ x[1] = Figure(a)
  BY SMTT(60), <1>3, <1>9 DEF Six
<1> QED BY SMT, <1>5, <1>11, <1>12, <1>13 DEF Spells




(* Six digits, the first one first.                                        *)
Fits(v, k) ==
  /\ v < 1000000
  /\ k = 2 => v < 100
  /\ k = 3 => v < 1000
  /\ k = 4 => v < 10000

LEMMA SixDigits ==
  ASSUME NEW v \in Nat, NEW k, Fits(v, k)
  PROVE  \E a, b, c, d, e, f \in 0 .. 9 : Six(v, a, b, c, d, e, f)
<1>0. v < 1000000
  BY SMT DEF Fits
<1>1. PICK q1 \in Nat, f \in 0 .. 9 : q1 = v \div 10 /\ f = v % 10 /\ v = q1 * 10 + f
  BY SMT
<1>2. PICK q2 \in Nat, e \in 0 .. 9 : q2 = q1 \div 10 /\ e = q1 % 10 /\ q1 = q2 * 10 + e
  BY SMT
<1>3. PICK q3 \in Nat, d \in 0 .. 9 : q3 = q2 \div 10 /\ d = q2 % 10 /\ q2 = q3 * 10 + d
  BY SMT
<1>4. PICK q4 \in Nat, c \in 0 .. 9 : q4 = q3 \div 10 /\ c = q3 % 10 /\ q3 = q4 * 10 + c
  BY SMT
<1>5. PICK q5 \in Nat, b \in 0 .. 9 : q5 = q4 \div 10 /\ b = q4 % 10 /\ q4 = q5 * 10 + b
  BY SMT
<1>6. PICK r2 \in Nat : r2 = e * 10 + f
  BY SMT, <1>1, <1>2
<1>7. v = q2 * 100 + r2 /\ r2 < 100
  BY SMT, <1>1, <1>2, <1>6
<1>8. PICK r3 \in Nat : r3 = d * 100 + r2
  BY SMT, <1>3
<1>9. v = q3 * 1000 + r3 /\ r3 < 1000
  BY SMT, <1>3, <1>7, <1>8
<1>10. PICK r4 \in Nat : r4 = c * 1000 + r3
  BY SMT, <1>4
<1>11. v = q4 * 10000 + r4 /\ r4 < 10000
  BY SMT, <1>4, <1>9, <1>10
<1>12. PICK r5 \in Nat : r5 = b * 10000 + r4
  BY SMT, <1>5
<1>13. v = q5 * 100000 + r5 /\ r5 < 100000
  BY SMT, <1>5, <1>11, <1>12
<1>14. v \div 100 = q2 /\ v \div 1000 = q3
  BY SMT, <1>7, <1>9
<1>15. v \div 10000 = q4
  BY SMT, <1>11
<1>16. v \div 100000 = q5
  BY SMT, <1>13
<1>17. q5 \in 0 .. 9 /\ q5 % 10 = q5
  BY SMT, <1>0, <1>13
<1>18. v = q5 * 100000 + b * 10000 + c * 1000 + d * 100 + e * 10 + f
  BY SMT, <1>6, <1>8, <1>10, <1>12, <1>13
<1>19. Six(v, q5, b, c, d, e, f)
  <2>1. (v \div 10) % 10 = e /\ v % 10 = f
    BY SMT, <1>1, <1>2
  <2>2. (v \div 100) % 10 = d /\ (v \div 1000) % 10 = c
    BY SMTT(60), <1>3, <1>4, <1>14
  <2>3. (v \div 10000) % 10 = b /\ (v \div 100000) % 10 = q5
    BY SMT, <1>5, <1>15, <1>16, <1>17
  <2> QED BY SMT, <2>1, <2>2, <2>3, <1>18 DEF Six
<1> QED BY <1>17, <1>19, ZenonT(60)

LEMMA PaddedSorts ==
  ASSUME NEW k \in {2, 3, 4, 6}, NEW v \in Nat, NEW w \in Nat, Fits(v, k), Fits(w, k),
         v < w, NEW x, NEW y, Padded(x, k, v), Padded(y, k, w)
  PROVE  Sorts(x, y)
<1>2. PICK a, b, c, d, e, f \in 0 .. 9 : Six(v, a, b, c, d, e, f)
  BY SixDigits, ZenonT(60)
<1>3. PICK a1, b1, c1, d1, e1, f1 \in 0 .. 9 : Six(w, a1, b1, c1, d1, e1, f1)
  BY SixDigits, ZenonT(60)
<1>4. Spells(x, k, a, b, c, d, e, f)
  BY <1>2, PaddedText
<1>5. Spells(y, k, a1, b1, c1, d1, e1, f1)
  BY <1>3, PaddedText
<1>6. \A p, q \in 0 .. 9 : p < q =>
        /\ FigureValue(Figure(p)) \in Nat /\ FigureValue(Figure(q)) \in Nat
        /\ FigureValue(Figure(p)) < FigureValue(Figure(q))
  BY FigureOf
<1> HIDE DEF Figure
<1>7. CASE k = 2
  <2>1. a = 0 /\ b = 0 /\ c = 0 /\ d = 0 /\ a1 = 0 /\ b1 = 0 /\ c1 = 0 /\ d1 = 0
    BY SMT, <1>2, <1>3, <1>7 DEF Six, Fits
  <2>2. e < e1 \/ (e = e1 /\ f < f1)
    BY SMT, <2>1, <1>2, <1>3 DEF Six
  <2>3. x[1] = Figure(e) /\ x[2] = Figure(f) /\ y[1] = Figure(e1) /\ y[2] = Figure(f1)
    BY <1>4, <1>5, <1>7 DEF Spells
  <2>4. CASE e < e1
    <3>1. LowerAt(x, y, 1)
      BY <2>3, <2>4, <1>6 DEF LowerAt
    <3> QED BY <3>1, <1>4, <1>5, <1>7 DEF Sorts, Spells
  <2>5. CASE e = e1 /\ f < f1
    <3>1. LowerAt(x, y, 2)
      BY <2>3, <2>5, <1>6 DEF LowerAt
    <3> QED BY <3>1, <1>4, <1>5, <1>7 DEF Sorts, Spells
  <2> QED BY <2>2, <2>4, <2>5
<1>8. CASE k = 3
  <2>1. a = 0 /\ b = 0 /\ c = 0 /\ a1 = 0 /\ b1 = 0 /\ c1 = 0
    BY SMT, <1>2, <1>3, <1>8 DEF Six, Fits
  <2>2. d < d1 \/ (d = d1 /\ e < e1) \/ (d = d1 /\ e = e1 /\ f < f1)
    BY SMT, <2>1, <1>2, <1>3 DEF Six
  <2>3. /\ x[1] = Figure(d) /\ x[2] = Figure(e) /\ x[3] = Figure(f)
        /\ y[1] = Figure(d1) /\ y[2] = Figure(e1) /\ y[3] = Figure(f1)
    BY <1>4, <1>5, <1>8 DEF Spells
  <2>4. CASE d < d1
    <3>1. LowerAt(x, y, 1)
      BY <2>3, <2>4, <1>6 DEF LowerAt
    <3> QED BY <3>1, <1>4, <1>5, <1>8 DEF Sorts, Spells
  <2>5. CASE d = d1 /\ e < e1
    <3>1. LowerAt(x, y, 2)
      BY <2>3, <2>5, <1>6 DEF LowerAt
    <3> QED BY <3>1, <1>4, <1>5, <1>8 DEF Sorts, Spells
  <2>6. CASE d = d1 /\ e = e1 /\ f < f1
    <3>1. LowerAt(x, y, 3)
      BY <2>3, <2>6, <1>6 DEF LowerAt
    <3> QED BY <3>1, <1>4, <1>5, <1>8 DEF Sorts, Spells
  <2> QED BY <2>2, <2>4, <2>5, <2>6
<1>9. CASE k = 4
  <2>1. a = 0 /\ b = 0 /\ a1 = 0 /\ b1 = 0
    BY SMT, <1>2, <1>3, <1>9 DEF Six, Fits
  <2>2. c < c1 \/ (c = c1 /\ (d < d1 \/ (d = d1 /\ e < e1) \/ (d = d1 /\ e = e1 /\ f < f1)))
    BY SMTT(60), <2>1, <1>2, <1>3 DEF Six
  <2>3. /\ x[1] = Figure(c) /\ x[2] = Figure(d) /\ x[3] = Figure(e) /\ x[4] = Figure(f)
        /\ y[1] = Figure(c1) /\ y[2] = Figure(d1) /\ y[3] = Figure(e1) /\ y[4] = Figure(f1)
    BY <1>4, <1>5, <1>9 DEF Spells
  <2>4. CASE c < c1
    <3>1. LowerAt(x, y, 1)
      BY <2>3, <2>4, <1>6 DEF LowerAt
    <3> QED BY <3>1, <1>4, <1>5, <1>9 DEF Sorts, Spells
  <2>5. CASE c = c1 /\ d < d1
    <3>1. LowerAt(x, y, 2)
      BY <2>3, <2>5, <1>6 DEF LowerAt
    <3> QED BY <3>1, <1>4, <1>5, <1>9 DEF Sorts, Spells
  <2>6. CASE c = c1 /\ d = d1 /\ e < e1
    <3>1. LowerAt(x, y, 3)
      BY <2>3, <2>6, <1>6 DEF LowerAt
    <3> QED BY <3>1, <1>4, <1>5, <1>9 DEF Sorts, Spells
  <2>7. CASE c = c1 /\ d = d1 /\ e = e1 /\ f < f1
    <3>1. LowerAt(x, y, 4)
      BY <2>3, <2>7, <1>6 DEF LowerAt
    <3> QED BY <3>1, <1>4, <1>5, <1>9 DEF Sorts, Spells
  <2> QED BY <2>2, <2>4, <2>5, <2>6, <2>7
<1>10. CASE k = 6
  <2>2. \/ a < a1 \/ (a = a1 /\ b < b1) \/ (a = a1 /\ b = b1 /\ c < c1)
        \/ (a = a1 /\ b = b1 /\ c = c1 /\ d < d1) \/ (a = a1 /\ b = b1 /\ c = c1 /\ d = d1 /\ e < e1)
        \/ (a = a1 /\ b = b1 /\ c = c1 /\ d = d1 /\ e = e1 /\ f < f1)
    BY SMT, <1>2, <1>3 DEF Six
  <2>3. /\ x[1] = Figure(a) /\ x[2] = Figure(b) /\ x[3] = Figure(c) /\ x[4] = Figure(d)
        /\ x[5] = Figure(e) /\ x[6] = Figure(f)
        /\ y[1] = Figure(a1) /\ y[2] = Figure(b1) /\ y[3] = Figure(c1) /\ y[4] = Figure(d1)
        /\ y[5] = Figure(e1) /\ y[6] = Figure(f1)
    BY <1>4, <1>5, <1>10 DEF Spells
  <2>4. CASE a < a1
    <3>1. LowerAt(x, y, 1)
      BY <2>3, <2>4, <1>6 DEF LowerAt
    <3> QED BY <3>1, <1>4, <1>5, <1>10 DEF Sorts, Spells
  <2>5. CASE a = a1 /\ b < b1
    <3>1. LowerAt(x, y, 2)
      BY <2>3, <2>5, <1>6 DEF LowerAt
    <3> QED BY <3>1, <1>4, <1>5, <1>10 DEF Sorts, Spells
  <2>6. CASE a = a1 /\ b = b1 /\ c < c1
    <3>1. LowerAt(x, y, 3)
      BY <2>3, <2>6, <1>6 DEF LowerAt
    <3> QED BY <3>1, <1>4, <1>5, <1>10 DEF Sorts, Spells
  <2>7. CASE a = a1 /\ b = b1 /\ c = c1 /\ d < d1
    <3>1. LowerAt(x, y, 4)
      BY <2>3, <2>7, <1>6 DEF LowerAt
    <3> QED BY <3>1, <1>4, <1>5, <1>10 DEF Sorts, Spells
  <2>8. CASE a = a1 /\ b = b1 /\ c = c1 /\ d = d1 /\ e < e1
    <3>1. LowerAt(x, y, 5)
      BY <2>3, <2>8, <1>6 DEF LowerAt
    <3> QED BY <3>1, <1>4, <1>5, <1>10 DEF Sorts, Spells
  <2>9. CASE a = a1 /\ b = b1 /\ c = c1 /\ d = d1 /\ e = e1 /\ f < f1
    <3>1. LowerAt(x, y, 6)
      BY <2>3, <2>9, <1>6 DEF LowerAt
    <3> QED BY <3>1, <1>4, <1>5, <1>10 DEF Sorts, Spells
  <2> QED BY <2>2, <2>4, <2>5, <2>6, <2>7, <2>8, <2>9
<1> QED BY <1>7, <1>8, <1>9, <1>10, SMTT(60)

----------------------------------------------------------------------------
(* What the walk finds at its place: so many characters of a kind, a word, *)
(* or some other character.                                                *)
LEMMA RunIs ==
  ASSUME NEW X, NEW rest \in Seq(X), NEW c, NEW most \in 1 .. 6, NEW r, r = RunOf(rest, c, most)
  PROVE  /\ r \in 0 .. most /\ r <= Len(rest)
         /\ r > 0 <=> Len(rest) > 0 /\ rest[1] = c
<1> DEFINE S == {k \in 0 .. most : k <= Len(rest) /\ \A i \in 1 .. k : rest[i] = c}
<1>1. Len(rest) \in Nat
  OBVIOUS
<1>2. S \in SUBSET (0 .. most) /\ 0 \in S /\ most \in Nat
  BY <1>1
<1>3. r = Max(S)
  BY DEF RunOf
<1>4. Len(rest) > 0 /\ rest[1] = c => 1 \in S
  BY <1>1
<1>5. \A k \in S : k <= Len(rest) /\ (k > 0 => rest[1] = c)
  OBVIOUS
<1> HIDE DEF S
<1>6. r \in S /\ \A y \in S : r >= y
  <2>1. S # {}
    BY <1>2
  <2> QED BY <1>2, <1>3, <2>1, LargestOne
<1> QED BY <1>1, <1>2, <1>4, <1>5, <1>6

LEMMA BeginsIs ==
  ASSUME NEW X, NEW rest \in Seq(X), NEW a, NEW b
  PROVE  Begins(rest, <<a, b>>) <=> Len(rest) >= 2 /\ rest[1] = a /\ rest[2] = b
<1>1. Len(rest) \in Nat /\ Len(<<a, b>>) = 2
  OBVIOUS
<1>2. CASE Len(rest) >= 2
  <2>1. PICK u : u = SubSeq(rest, 1, 2)
    OBVIOUS
  <2>2. u \in Seq(X) /\ Len(u) = 2 /\ u[1] = rest[1] /\ u[2] = rest[2]
    BY <1>1, <1>2, <2>1, SubSeqProperties
  <2>3. u = <<rest[1], rest[2]>>
    BY <2>2
  <2>4. PICK word : word = <<a, b>>
    OBVIOUS
  <2>5. Len(word) = 2
    BY <2>4
  <2>6. Begins(rest, word) <=> u = word
    BY <1>2, <2>1, <2>5 DEF Begins
  <2>7. u = word <=> rest[1] = a /\ rest[2] = b
    BY <2>3, <2>4
  <2> QED BY <1>2, <2>4, <2>6, <2>7
<1>3. CASE ~ (Len(rest) >= 2)
  BY <1>1, <1>3 DEF Begins
<1>4. Len(rest) >= 2 \/ ~ (Len(rest) >= 2)
  OBVIOUS
<1> QED BY <1>2, <1>3, <1>4

LEMMA NoRun ==
  ASSUME NEW X, NEW rest \in Seq(X), Len(rest) > 0, NEW c, rest[1] # c, NEW most \in 1 .. 6
  PROVE  RunOf(rest, c, most) = 0
<1>1. PICK r : r = RunOf(rest, c, most)
  OBVIOUS
<1>2. r \in 0 .. most /\ (r > 0 <=> Len(rest) > 0 /\ rest[1] = c)
  BY <1>1, RunIs
<1> QED BY <1>1, <1>2

(* The first letter of a word.                                             *)
LEMMA FirstOfWord ==
  ASSUME NEW X, NEW rest \in Seq(X), NEW word \in Words, Begins(rest, word)
  PROVE  rest[1] \in {"m", "d", "h", "s", "t"} /\ Len(rest) >= 2 /\ Len(rest) > 0
<1>1. PICK a, b : word = <<a, b>> /\ a \in {"m", "d", "h", "s", "t"}
  BY DEF Words
<1>2. Len(rest) \in Nat /\ Len(rest) >= 2 /\ rest[1] = a
  BY <1>1, BeginsIs
<1> QED BY <1>1, <1>2

(* Where the walk finds letters y: four show the year, fewer show           *)
(* themselves.                                                              *)
LEMMA YearPlace ==
  ASSUME NEW X, NEW rest \in Seq(X), NEW r, r = RunOf(rest, "y", 4), r > 0
  PROVE  /\ SizeOf(rest) = r /\ UnitOf(rest) = (IF r = 4 THEN 1 ELSE 0)
         /\ r \in 1 .. 4 /\ r <= Len(rest)
<1>0. 4 \in 1 .. 6
  OBVIOUS
<1>1. r \in 1 .. 4 /\ r <= Len(rest) /\ Len(rest) > 0 /\ rest[1] = "y" /\ Len(rest) \in Nat
  <2>1. r \in 0 .. 4 /\ r <= Len(rest) /\ (r > 0 <=> Len(rest) > 0 /\ rest[1] = "y")
    BY <1>0, RunIs
  <2> QED BY <2>1
<1>2. RunOf(rest, "f", 6) = 0
  BY <1>1, NoRun
<1>3. \A word \in Words : ~ Begins(rest, word)
  BY <1>1, FirstOfWord
<1>4. SizeOf(rest) = r
  BY <1>1, <1>2, <1>3 DEF SizeOf
<1>5. UnitOf(rest) = (IF r = 4 THEN 1 ELSE 0)
  <2>1. <<"m", "m">> \in Words /\ <<"d", "d">> \in Words /\ <<"h", "h">> \in Words
        /\ <<"m", "i">> \in Words /\ <<"s", "s">> \in Words
    BY DEF Words
  <2> QED BY <1>1, <1>2, <1>3, <2>1 DEF UnitOf
<1> QED BY <1>1, <1>4, <1>5

(* Where it finds letters f: so many digits behind the point.               *)
LEMMA FractionPlace ==
  ASSUME NEW X, NEW rest \in Seq(X), NEW r, r = RunOf(rest, "f", 6), r > 0
  PROVE  SizeOf(rest) = r /\ UnitOf(rest) = 6 + r /\ r \in 1 .. 6 /\ r <= Len(rest)
<1>0. 6 \in 1 .. 6
  OBVIOUS
<1>1. r \in 1 .. 6 /\ r <= Len(rest) /\ Len(rest) > 0 /\ rest[1] = "f" /\ Len(rest) \in Nat
  <2>1. r \in 0 .. 6 /\ r <= Len(rest) /\ (r > 0 <=> Len(rest) > 0 /\ rest[1] = "f")
    BY <1>0, RunIs
  <2> QED BY <2>1
<1>2. RunOf(rest, "y", 4) = 0
  BY <1>1, NoRun
<1>3. \A word \in Words : ~ Begins(rest, word)
  BY <1>1, FirstOfWord
<1>4. SizeOf(rest) = r
  BY <1>1, <1>2, <1>3 DEF SizeOf
<1>5. UnitOf(rest) = 6 + r
  <2>1. <<"m", "m">> \in Words /\ <<"d", "d">> \in Words /\ <<"h", "h">> \in Words
        /\ <<"m", "i">> \in Words /\ <<"s", "s">> \in Words
    BY DEF Words
  <2> QED BY <1>1, <1>2, <1>3, <2>1 DEF UnitOf
<1> QED BY <1>1, <1>4, <1>5

UnitOfWord(word) ==
  CASE word = <<"m", "m">> -> 2 [] word = <<"d", "d">> -> 3 [] word = <<"h", "h">> -> 4
    [] word = <<"m", "i">> -> 5 [] word = <<"s", "s">> -> 6 [] word = <<"t", "z">> -> 0

(* Where it finds a word: two characters, for the unit of the word.         *)
LEMMA WordPlace ==
  ASSUME NEW X, NEW rest \in Seq(X), NEW word \in Words, Begins(rest, word)
  PROVE  SizeOf(rest) = 2 /\ UnitOf(rest) = UnitOfWord(word) /\ Len(rest) >= 2
<1>1. rest[1] \in {"m", "d", "h", "s", "t"} /\ Len(rest) >= 2 /\ Len(rest) > 0
  BY FirstOfWord
<1>2. RunOf(rest, "y", 4) = 0 /\ RunOf(rest, "f", 6) = 0
  BY <1>1, NoRun
<1>3. SizeOf(rest) = 2
  BY <1>2 DEF SizeOf
<1>4. /\ Begins(rest, <<"m", "m">>) <=> word = <<"m", "m">>
      /\ Begins(rest, <<"d", "d">>) <=> word = <<"d", "d">>
      /\ Begins(rest, <<"h", "h">>) <=> word = <<"h", "h">>
      /\ Begins(rest, <<"m", "i">>) <=> word = <<"m", "i">>
      /\ Begins(rest, <<"s", "s">>) <=> word = <<"s", "s">>
  <2>1. PICK a, b : word = <<a, b>>
    BY DEF Words
  <2>2. rest[1] = a /\ rest[2] = b
    BY <2>1, BeginsIs
  <2>3. \A p, q : Begins(rest, <<p, q>>) <=> p = a /\ q = b
    BY <2>2, <1>1, BeginsIs
  <2> QED BY <2>1, <2>3
<1>5. UnitOf(rest) = UnitOfWord(word)
  BY <1>2, <1>4 DEF UnitOf, UnitOfWord, Words
<1> QED BY <1>1, <1>3, <1>5

(* Anything else is a character that shows itself.                          *)
LEMMA OtherPlace ==
  ASSUME NEW X, NEW rest \in Seq(X), Len(rest) > 0, rest[1] \notin {"y", "f"},
         \A word \in Words : ~ Begins(rest, word)
  PROVE  SizeOf(rest) = 1 /\ UnitOf(rest) = 0
<1>1. RunOf(rest, "y", 4) = 0 /\ RunOf(rest, "f", 6) = 0
  BY NoRun
<1>2. SizeOf(rest) = 1
  BY <1>1 DEF SizeOf
<1>3. <<"m", "m">> \in Words /\ <<"d", "d">> \in Words /\ <<"h", "h">> \in Words
      /\ <<"m", "i">> \in Words /\ <<"s", "s">> \in Words
  BY DEF Words
<1> QED BY <1>1, <1>2, <1>3 DEF UnitOf

(* A place has a size of at least one character, within what is left.       *)
LEMMA SizeIn ==
  ASSUME NEW X, NEW rest \in Seq(X), Len(rest) > 0
  PROVE  SizeOf(rest) \in 1 .. Len(rest) /\ UnitOf(rest) \in 0 .. 12
<1>0. Len(rest) \in Nat
  OBVIOUS
<1>1. PICK r : r = RunOf(rest, "y", 4)
  OBVIOUS
<1>2. PICK s : s = RunOf(rest, "f", 6)
  OBVIOUS
<1>3. r \in 0 .. 4 /\ s \in 0 .. 6 /\ (rest[1] = "y" => r > 0) /\ (rest[1] = "f" => s > 0)
  <2>1. r \in 0 .. 4 /\ (rest[1] = "y" => r > 0)
    BY <1>1, RunIs
  <2>2. s \in 0 .. 6 /\ (rest[1] = "f" => s > 0)
    BY <1>2, RunIs
  <2> QED BY <2>1, <2>2
<1>4. CASE rest[1] = "y"
  BY <1>0, <1>1, <1>3, <1>4, YearPlace
<1>5. CASE rest[1] = "f"
  BY <1>0, <1>2, <1>3, <1>5, FractionPlace, SMTT(60)
<1>6. CASE \E word \in Words : Begins(rest, word)
  <2>1. PICK word \in Words : Begins(rest, word)
    BY <1>6
  <2>2. UnitOfWord(word) \in 0 .. 12
    BY DEF UnitOfWord, Words
  <2> QED BY <1>0, <2>1, <2>2, WordPlace
<1>7. CASE rest[1] \notin {"y", "f"} /\ \A word \in Words : ~ Begins(rest, word)
  BY <1>0, <1>7, OtherPlace
<1> QED BY <1>4, <1>5, <1>6, <1>7

(* The units that a template shows are found from its end.                 *)
Rest(f, p) == SubSeq(f, p + 1, Len(f))
WalkValue(f, from, p) ==
  IF p = Len(f) THEN <<>>
  ELSE (IF UnitOf(Rest(f, p)) = 0 THEN <<>> ELSE <<UnitOf(Rest(f, p))>>)
       \o from[p + SizeOf(Rest(f, p))]
WalkIs(f, from, q) == from = [p \in q .. Len(f) |-> WalkValue(f, from, p)]

LEMMA RestSize ==
  ASSUME NEW X, NEW f \in Seq(X), NEW p \in 0 .. Len(f), p # Len(f)
  PROVE  /\ SizeOf(Rest(f, p)) \in 1 .. Len(f) - p
         /\ Rest(f, p) \in Seq(X) /\ Len(Rest(f, p)) = Len(f) - p
<1>1. Len(f) \in Nat
  OBVIOUS
<1>2. PICK rest : rest = Rest(f, p)
  OBVIOUS
<1>3. rest \in Seq(X) /\ Len(rest) = Len(f) - p
  BY <1>2, PartsBehind DEF Rest
<1>4. Len(rest) > 0
  BY <1>1, <1>3
<1> QED BY <1>2, <1>3, <1>4, SizeIn

(* The units from a place on are defined by those behind it, from the end.  *)
LEMMA WalkAbove ==
  ASSUME NEW X, NEW f \in Seq(X), NEW q \in Nat, q < Len(f), NEW g, WalkIs(f, g, q + 1)
  PROVE  \E h : WalkIs(f, h, q)
<1>1. Len(f) \in Nat
  OBVIOUS
<1>2. g = [p \in q + 1 .. Len(f) |-> WalkValue(f, g, p)]
  BY DEF WalkIs
<1> DEFINE h == [p \in q .. Len(f) |-> IF p \in q + 1 .. Len(f) THEN g[p] ELSE WalkValue(f, g, p)]
<1>3. \A p \in q .. Len(f) : h[p] = WalkValue(f, g, p)
  BY <1>2
<1>4. \A p \in q + 1 .. Len(f) : h[p] = g[p]
  BY <1>1
<1>5. h = [p \in q .. Len(f) |-> WalkValue(f, g, p)]
  BY <1>3
<1> HIDE DEF h
<1>6. \A p \in q .. Len(f) : WalkValue(f, g, p) = WalkValue(f, h, p)
  <2> TAKE p \in q .. Len(f)
  <2>1. CASE p = Len(f)
    BY <2>1 DEF WalkValue
  <2>2. CASE p # Len(f)
    <3>1. PICK z : z = SizeOf(Rest(f, p))
      OBVIOUS
    <3>2. z \in 1 .. Len(f) - p
      BY <1>1, <2>2, <3>1, RestSize
    <3>3. p + z \in q + 1 .. Len(f)
      BY <1>1, <3>2
    <3>4. h[p + z] = g[p + z]
      BY <1>4, <3>3
    <3> QED BY <3>1, <3>4 DEF WalkValue
  <2> QED BY <2>1, <2>2
<1>7. h = [p \in q .. Len(f) |-> WalkValue(f, h, p)]
  BY <1>5, <1>6
<1> QED BY <1>7 DEF WalkIs

LEMMA WalkExists ==
  ASSUME NEW X, NEW f \in Seq(X)
  PROVE  \E g : WalkIs(f, g, 0)
<1>1. Len(f) \in Nat
  OBVIOUS
<1>2. \E g : WalkIs(f, g, Len(f))
  <2> DEFINE g == [p \in Len(f) .. Len(f) |-> <<>>]
  <2>1. \A p \in Len(f) .. Len(f) : WalkValue(f, g, p) = <<>>
    BY <1>1 DEF WalkValue
  <2>2. g = [p \in Len(f) .. Len(f) |-> WalkValue(f, g, p)]
    <3>1. \A p \in Len(f) .. Len(f) : g[p] = <<>>
      OBVIOUS
    <3> QED BY <2>1
  <2> HIDE DEF g
  <2>3. WalkIs(f, g, Len(f))
    BY <2>2 DEF WalkIs
  <2> QED BY <2>3
<1> DEFINE S == {k \in Nat : k <= Len(f) /\ \E g : WalkIs(f, g, k)}
<1>3. S \in SUBSET Nat /\ S # {}
  BY <1>1, <1>2
<1> HIDE DEF S
<1>4. PICK k \in S : \A m \in S : k <= m
  BY <1>3, LeastOne
<1>5. k \in Nat /\ k <= Len(f) /\ \E g : WalkIs(f, g, k)
  BY <1>4 DEF S
<1>6. CASE k = 0
  BY <1>5, <1>6
<1>7. CASE k # 0
  <2>1. PICK m \in Nat : k = m + 1
    <3>1. k - 1 \in Nat /\ k = (k - 1) + 1
      BY <1>5, <1>7
    <3> QED BY <3>1
  <2>2. PICK g : WalkIs(f, g, m + 1)
    BY <1>5, <2>1
  <2>3. m < Len(f) /\ m <= Len(f)
    BY <1>1, <1>5, <2>1
  <2>4. \E h : WalkIs(f, h, m)
    BY <2>2, <2>3, WalkAbove
  <2>5. m \in S
    BY <2>3, <2>4 DEF S
  <2> QED BY <1>4, <2>1, <2>5
<1> QED BY <1>6, <1>7

LEMMA WalkAt ==
  ASSUME NEW X, NEW f \in Seq(X)
  PROVE  \A p \in 0 .. Len(f) : UnitsFrom(f)[p] = WalkValue(f, UnitsFrom(f), p)
<1> DEFINE from == CHOOSE from : from = [p \in 0 .. Len(f) |->
              IF p = Len(f) THEN <<>>
              ELSE LET rest == SubSeq(f, p + 1, Len(f))
                   IN (IF UnitOf(rest) = 0 THEN <<>> ELSE <<UnitOf(rest)>>) \o from[p + SizeOf(rest)]]
<1>1. \E g : g = [p \in 0 .. Len(f) |->
              IF p = Len(f) THEN <<>>
              ELSE LET rest == SubSeq(f, p + 1, Len(f))
                   IN (IF UnitOf(rest) = 0 THEN <<>> ELSE <<UnitOf(rest)>>) \o g[p + SizeOf(rest)]]
  <2>1. PICK g : WalkIs(f, g, 0)
    BY WalkExists, SMTT(60)
  <2> QED BY <2>1 DEF WalkIs, WalkValue, Rest
<1>2. from = [p \in 0 .. Len(f) |->
              IF p = Len(f) THEN <<>>
              ELSE LET rest == SubSeq(f, p + 1, Len(f))
                   IN (IF UnitOf(rest) = 0 THEN <<>> ELSE <<UnitOf(rest)>>) \o from[p + SizeOf(rest)]]
  BY <1>1, ZenonT(60)
<1>3. UnitsFrom(f) = from
  BY DEF UnitsFrom
<1> HIDE DEF from
<1>4. \A p \in 0 .. Len(f) : from[p] = WalkValue(f, from, p)
  BY <1>2 DEF WalkValue, Rest
<1> QED BY <1>3, <1>4

LEMMA UnitsAreSequences ==
  ASSUME NEW X, NEW f \in Seq(X)
  PROVE  \A p \in 0 .. Len(f) : UnitsFrom(f)[p] \in Seq(1 .. 12)
<1> DEFINE S == {p \in 0 .. Len(f) : UnitsFrom(f)[p] \notin Seq(1 .. 12)}
<1> SUFFICES ASSUME S # {} PROVE FALSE
  OBVIOUS
<1>1. Len(f) \in Nat /\ S \in SUBSET (0 .. Len(f))
  OBVIOUS
<1>2. PICK p \in S : \A y \in S : p >= y
  <2> HIDE DEF S
  <2>1. Max(S) \in S /\ \A y \in S : Max(S) >= y
    BY <1>1, LargestOne
  <2> QED BY <2>1
<1>3. p \in 0 .. Len(f) /\ UnitsFrom(f)[p] = WalkValue(f, UnitsFrom(f), p)
  BY <1>2, WalkAt
<1>4. CASE p = Len(f)
  <2>1. UnitsFrom(f)[p] = <<>>
    BY <1>3, <1>4 DEF WalkValue
  <2>2. <<>> \in Seq(1 .. 12)
    OBVIOUS
  <2>3. UnitsFrom(f)[p] \notin Seq(1 .. 12)
    BY <1>2
  <2> QED BY <2>1, <2>2, <2>3
<1>5. CASE p # Len(f)
  <2>1. PICK z, u : z = SizeOf(Rest(f, p)) /\ u = UnitOf(Rest(f, p))
    OBVIOUS
  <2>2. z \in 1 .. Len(f) - p /\ u \in 0 .. 12
    <3>1. Rest(f, p) \in Seq(X) /\ Len(Rest(f, p)) = Len(f) - p /\ z \in 1 .. Len(f) - p
      BY <1>3, <1>5, <2>1, RestSize
    <3>2. Len(Rest(f, p)) > 0
      BY <1>1, <1>3, <1>5, <3>1
    <3> QED BY <2>1, <3>1, <3>2, SizeIn
  <2>3. PICK r : r = UnitsFrom(f)[p + z]
    OBVIOUS
  <2>4. r \in Seq(1 .. 12)
    <3>1. p + z \in 0 .. Len(f) /\ ~ (p >= p + z)
      BY <1>1, <1>3, <2>2
    <3>2. p + z \notin S
      BY <1>2, <3>1
    <3> QED BY <2>3, <3>1, <3>2
  <2>5. UnitsFrom(f)[p] = (IF u = 0 THEN <<>> ELSE <<u>>) \o r
    BY <1>3, <1>5, <2>1, <2>3 DEF WalkValue
  <2>6. PICK h : h = IF u = 0 THEN <<>> ELSE <<u>>
    OBVIOUS
  <2>7. h \in Seq(1 .. 12)
    <3>1. CASE u = 0
      BY <2>6, <3>1
    <3>2. CASE u # 0
      <4>1. u \in 1 .. 12
        BY <2>2, <3>2
      <4>2. <<u>> \in Seq(1 .. 12)
        BY <4>1
      <4> QED BY <2>6, <3>2, <4>2
    <3> QED BY <3>1, <3>2
  <2>8. h \o r \in Seq(1 .. 12)
    BY <2>4, <2>7
  <2> QED BY <1>2, <2>5, <2>6, <2>8
<1> QED BY <1>4, <1>5

(* The walk over one place takes its unit, if there is one, from the units *)
(* still to be shown.                                                      *)
LEMMA UnitTaken ==
  ASSUME NEW D \in Seq(1 .. 12), NEW c \in 0 .. Len(D), NEW r \in Seq(1 .. 12), NEW u \in 1 .. 12,
         <<u>> \o r = Rest(D, c)
  PROVE  c < Len(D) /\ u = D[c + 1] /\ r = Rest(D, c + 1)
<1>1. PICK h : h = <<u>> \o r
  OBVIOUS
<1>2. /\ h \in Seq(1 .. 12) /\ Len(h) = Len(r) + 1 /\ h[1] = u
      /\ \A i \in 1 .. Len(r) : h[i + 1] = r[i]
  <2>1. PICK w : w = <<u>>
    OBVIOUS
  <2>2. w \in Seq(1 .. 12) /\ Len(w) = 1 /\ w[1] = u
    <3>1. <<u>> \in Seq(1 .. 12) /\ Len(<<u>>) = 1 /\ <<u>>[1] = u
      OBVIOUS
    <3> QED BY <2>1, <3>1
  <2>3. /\ h \in Seq(1 .. 12) /\ Len(h) = 1 + Len(r)
        /\ \A i \in 1 .. 1 + Len(r) : h[i] = IF i <= 1 THEN w[i] ELSE r[i - 1]
    BY <1>1, <2>1, <2>2, ConcatProperties
  <2>4. Len(r) \in Nat
    OBVIOUS
  <2>5. ASSUME NEW i \in 1 .. Len(r) PROVE h[i + 1] = r[i]
    <3>1. PICK j \in Nat : j = i + 1
      BY <2>4
    <3>2. j \in 1 .. 1 + Len(r) /\ ~ (j <= 1) /\ j - 1 = i
      BY <2>4, <3>1
    <3> QED BY <2>3, <3>1, <3>2
  <2> QED BY <2>2, <2>3, <2>4, <2>5
<1>3. /\ Len(h) = Len(D) - c /\ Len(D) \in Nat /\ Len(r) \in Nat
      /\ \A i \in 1 .. Len(D) - c : h[i] = D[c + i]
  <2>1. h = SubSeq(D, c + 1, Len(D))
    BY <1>1 DEF Rest
  <2>2. Len(D) \in Nat /\ Len(r) \in Nat
    OBVIOUS
  <2> QED BY <2>1, <2>2, PartsBehind
<1>4. c < Len(D) /\ c + 1 \in 0 .. Len(D) /\ Len(r) = Len(D) - (c + 1)
  <2>1. PICK num \in Nat, m \in Nat : num = Len(D) /\ m = Len(r)
    BY <1>3
  <2>2. c \in 0 .. num /\ m + 1 = num - c
    BY <1>2, <1>3, <2>1
  <2>3. c < num /\ c + 1 \in 0 .. num /\ m = num - (c + 1)
    BY <2>2
  <2> QED BY <2>1, <2>3
<1>5. u = D[c + 1]
  BY <1>2, <1>3, <1>4
<1>6. PICK t : t = Rest(D, c + 1)
  OBVIOUS
<1>7. /\ t \in Seq(1 .. 12) /\ Len(t) = Len(D) - (c + 1)
      /\ \A i \in 1 .. Len(D) - (c + 1) : t[i] = D[(c + 1) + i]
  BY <1>4, <1>6, PartsBehind DEF Rest
<1>8. ASSUME NEW i \in 1 .. Len(r) PROVE r[i] = t[i]
  <2>1. PICK j \in Nat : j = i + 1
    BY <1>3
  <2>2. j \in 1 .. Len(D) - c /\ c + j = (c + 1) + i
    BY <1>3, <1>4, <2>1
  <2> QED BY <1>2, <1>3, <1>4, <1>7, <2>1, <2>2
<1>9. r = t
  BY <1>4, <1>7, <1>8, SeqEqual
<1> QED BY <1>4, <1>5, <1>6, <1>9

----------------------------------------------------------------------------
(* Earlier years end before later ones start.                              *)
LEMMA YearsInOrder ==
  ASSUME NEW y1 \in Nat \ {0}, NEW y2 \in Nat \ {0}, y1 < y2
  PROVE  YearStart(y1) + (IF LeapYear(y1) THEN 366 ELSE 365) <= YearStart(y2)
<1>1. PICK a \in Int, b \in Int, c \in Int, e \in Int :
        /\ a = (y1 - 1) \div 400 /\ b = ((y1 - 1) % 400) \div 100
        /\ c = ((y1 - 1) % 100) \div 4 /\ e = (y1 - 1) % 4
  OBVIOUS
<1>2. /\ a \in Nat /\ b \in 0 .. 3 /\ c \in 0 .. 24 /\ e \in 0 .. 3
      /\ y1 = a * 400 + b * 100 + c * 4 + e + 1
      /\ YearStart(y1) = a * 146097 + b * 36524 + c * 1461 + e * 365
      /\ LeapYear(y1) <=> e = 3 /\ (c # 24 \/ b = 3)
  BY <1>1, YearParts
<1>3. PICK a1 \in Int, b1 \in Int, c1 \in Int, e1 \in Int :
        /\ a1 = (y2 - 1) \div 400 /\ b1 = ((y2 - 1) % 400) \div 100
        /\ c1 = ((y2 - 1) % 100) \div 4 /\ e1 = (y2 - 1) % 4
  OBVIOUS
<1>4. /\ a1 \in Nat /\ b1 \in 0 .. 3 /\ c1 \in 0 .. 24 /\ e1 \in 0 .. 3
      /\ y2 = a1 * 400 + b1 * 100 + c1 * 4 + e1 + 1
      /\ YearStart(y2) = a1 * 146097 + b1 * 36524 + c1 * 1461 + e1 * 365
  BY <1>3, YearParts
<1>5. PICK x \in Nat : x = YearStart(y1) + IF LeapYear(y1) THEN 366 ELSE 365
  BY <1>2
<1>6. x <= a * 146097 + b * 36524 + c * 1461 + (e + 1) * 365 + (IF e = 3 /\ (c # 24 \/ b = 3) THEN 1 ELSE 0)
  BY <1>2, <1>5
<1>7. \/ a < a1
      \/ a = a1 /\ b < b1
      \/ a = a1 /\ b = b1 /\ c < c1
      \/ a = a1 /\ b = b1 /\ c = c1 /\ e < e1
  BY <1>2, <1>4
<1>8. CASE a < a1
  BY <1>2, <1>4, <1>6, <1>5, <1>8
<1>9. CASE a = a1 /\ b < b1
  BY <1>2, <1>4, <1>6, <1>5, <1>9
<1>10. CASE a = a1 /\ b = b1 /\ c < c1
  BY <1>2, <1>4, <1>6, <1>5, <1>10
<1>11. CASE a = a1 /\ b = b1 /\ c = c1 /\ e < e1
  BY <1>2, <1>4, <1>6, <1>5, <1>11
<1> QED BY <1>7, <1>8, <1>9, <1>10, <1>11

(* Earlier months end before later ones start.                              *)
LEMMA MonthsInOrder ==
  ASSUME NEW year \in Nat, NEW m1 \in 1 .. 12, NEW m2 \in 1 .. 12, m1 < m2,
         NEW before, before = year_day_by_month(LeapYear(year))
  PROVE  /\ before[m1] + LastOf(year, m1) <= before[m2]
         /\ before[m1] \in Nat /\ before[m2] \in Nat
         /\ LastOf(year, m1) \in 28 .. 31 /\ LastOf(year, m2) \in 28 .. 31
<1>1. m1 \in {1, 2, 3, 4, 5, 6, 7, 8, 9, 10, 11, 12} /\ m2 \in {1, 2, 3, 4, 5, 6, 7, 8, 9, 10, 11, 12}
  OBVIOUS
<1>2. /\ before[m1] \in Nat /\ before[m2] \in Nat
      /\ LastOf(year, m1) \in 28 .. 31 /\ LastOf(year, m2) \in 28 .. 31
  BY Table, SMTT(60)
<1>3. before[m1] + LastOf(year, m1) <= before[m2]
  BY <1>1 DEF year_day_by_month, LastOf
<1> QED BY <1>2, <1>3

(* A day that is of an earlier year, month or day of a month is earlier.   *)
Sooner(y1, m1, d1, y2, m2, d2) ==
  y1 < y2 \/ (y1 = y2 /\ (m1 < m2 \/ (m1 = m2 /\ d1 < d2)))

(* Days made of earlier parts are earlier,                                  *)
LEMMA MadeInOrder ==
  ASSUME NEW y1, NEW m1, NEW d1, DayOf(y1, m1, d1), NEW y2, NEW m2, NEW d2, DayOf(y2, m2, d2),
         Sooner(y1, m1, d1, y2, m2, d2)
  PROVE  make_date(y1, m1, d1) < make_date(y2, m2, d2)
<1>1. /\ y1 \in Nat \ {0} /\ m1 \in 1 .. 12 /\ d1 \in 1 .. LastOf(y1, m1)
      /\ y2 \in Nat \ {0} /\ m2 \in 1 .. 12 /\ d2 \in 1 .. LastOf(y2, m2)
  BY DEF DayOf
<1>2. PICK b1 : b1 = year_day_by_month(LeapYear(y1))
  OBVIOUS
<1>3. PICK b2 : b2 = year_day_by_month(LeapYear(y2))
  OBVIOUS
<1>4. PICK s1, s2 : s1 = YearStart(y1) /\ s2 = YearStart(y2)
  OBVIOUS
<1>5. s1 \in Int /\ s2 \in Int
  BY <1>1, <1>4 DEF YearStart, DAYS_IN_4_PERIOD, DAYS_IN_100_PERIOD, DAYS_IN_400_PERIOD
<1>6. make_date(y1, m1, d1) = s1 + b1[m1] + d1 - 1 /\ make_date(y2, m2, d2) = s2 + b2[m2] + d2 - 1
  BY <1>2, <1>3, <1>4 DEF make_date, YearStart
<1>7. b1[m1] \in Nat /\ LastOf(y1, m1) \in 28 .. 31 /\ b2[m2] \in Nat /\ LastOf(y2, m2) \in 28 .. 31
  BY <1>1, <1>2, <1>3, Table, SMTT(60)
<1>8. d1 \in Nat /\ d2 \in Nat /\ 1 <= d1 /\ d1 <= LastOf(y1, m1) /\ 1 <= d2 /\ d2 <= LastOf(y2, m2)
  BY <1>1, <1>7
<1>9. CASE y1 < y2
  <2>1. s1 + (IF LeapYear(y1) THEN 366 ELSE 365) <= s2
    BY <1>1, <1>4, <1>9, YearsInOrder
  <2>2. PICK j : j = b1[m1] + d1 - 1
    OBVIOUS
  <2>3. j \in 0 .. (IF LeapYear(y1) THEN 365 ELSE 364)
    BY <1>1, <1>2, <2>2, TableIn
  <2> QED BY <2>1, <2>2, <2>3, <1>5, <1>6, <1>7, <1>8
<1>10. CASE y1 = y2 /\ m1 < m2
  <2>1. b1[m1] + LastOf(y1, m1) <= b2[m2]
    BY <1>1, <1>2, <1>3, <1>10, MonthsInOrder
  <2> QED BY <2>1, <1>4, <1>5, <1>6, <1>7, <1>8, <1>10
<1>11. CASE y1 = y2 /\ m1 = m2 /\ d1 < d2
  BY <1>2, <1>3, <1>4, <1>5, <1>6, <1>7, <1>8, <1>11
<1> QED BY <1>9, <1>10, <1>11 DEF Sooner

(* so the parts of earlier days are earlier.                                *)
LEMMA TakenInOrder ==
  ASSUME NEW a \in Nat, NEW b \in Nat, a < b
  PROVE  Sooner(extract_year(a), extract_month_of_year(a), extract_day_of_month(a),
                extract_year(b), extract_month_of_year(b), extract_day_of_month(b))
<1>1. PICK y1, m1, d1 : y1 = extract_year(a) /\ m1 = extract_month_of_year(a) /\ d1 = extract_day_of_month(a)
  OBVIOUS
<1>2. PICK y2, m2, d2 : y2 = extract_year(b) /\ m2 = extract_month_of_year(b) /\ d2 = extract_day_of_month(b)
  OBVIOUS
<1>3. DayOf(y1, m1, d1) /\ make_date(y1, m1, d1) = a
  BY <1>1, TakenIsMade
<1>4. DayOf(y2, m2, d2) /\ make_date(y2, m2, d2) = b
  BY <1>2, TakenIsMade
<1>5. /\ y1 \in Int /\ m1 \in Int /\ d1 \in Int /\ y2 \in Int /\ m2 \in Int /\ d2 \in Int
  <2>1. y1 \in Nat /\ m1 \in 1 .. 12 /\ d1 \in 1 .. LastOf(y1, m1)
    BY <1>3 DEF DayOf
  <2>2. y2 \in Nat /\ m2 \in 1 .. 12 /\ d2 \in 1 .. LastOf(y2, m2)
    BY <1>4 DEF DayOf
  <2>3. LastOf(y1, m1) \in 28 .. 31 /\ LastOf(y2, m2) \in 28 .. 31
    BY <2>1, <2>2, Table
  <2> QED BY <2>1, <2>2, <2>3
<1>6. \/ Sooner(y1, m1, d1, y2, m2, d2) \/ Sooner(y2, m2, d2, y1, m1, d1)
      \/ y1 = y2 /\ m1 = m2 /\ d1 = d2
  BY <1>5 DEF Sooner
<1>7. ~ Sooner(y2, m2, d2, y1, m1, d1)
  <2>1. SUFFICES ASSUME Sooner(y2, m2, d2, y1, m1, d1) PROVE FALSE
    OBVIOUS
  <2>2. b < a
    BY <1>3, <1>4, <2>1, MadeInOrder
  <2> QED BY <2>2
<1>8. ~ (y1 = y2 /\ m1 = m2 /\ d1 = d2)
  BY <1>3, <1>4
<1> QED BY <1>1, <1>2, <1>6, <1>7, <1>8

----------------------------------------------------------------------------
(* The units of a stamp that a template can be asked to show in order, and *)
(* what it writes for each.                                                *)
UnitsShown == {1, 2, 3, 4, 5, 6, 9, 12}
Width(u) == IF u = 1 THEN 4 ELSE IF u <= 6 THEN 2 ELSE u - 6
Field(s, u) ==
  CASE u = 1 -> extract_year(s.day)
    [] u = 2 -> extract_month_of_year(s.day)
    [] u = 3 -> extract_day_of_month(s.day)
    [] u = 4 -> s.sec \div 3600
    [] u = 5 -> (s.sec % 3600) \div 60
    [] u = 6 -> s.sec % 60
    [] u = 9 -> s.micro \div 1000
    [] u = 12 -> s.micro
FourFigures(s) == s \in Stamps /\ extract_year(s.day) <= 9999

(* Every field of a stamp up to the year 9999 fits its width.               *)
LEMMA FieldFits ==
  ASSUME NEW s, FourFigures(s), NEW u \in UnitsShown
  PROVE  Field(s, u) \in Nat /\ Width(u) \in {2, 3, 4, 6} /\ Fits(Field(s, u), Width(u))
<1>1. PICK day, sec, micro : day = s.day /\ sec = s.sec /\ micro = s.micro
  OBVIOUS
<1>2. day \in Nat /\ sec \in Nat /\ sec < 86400 /\ micro \in Nat /\ micro < 1000000 /\ extract_year(day) <= 9999
  BY SMT, <1>1 DEF FourFigures, Stamps
<1>3. PICK y, m, d : y = extract_year(day) /\ m = extract_month_of_year(day) /\ d = extract_day_of_month(day)
  OBVIOUS
<1>4. y \in Nat /\ y <= 9999 /\ m \in 1 .. 12 /\ d \in 1 .. 31
  <2>1. DayOf(y, m, d)
    BY <1>2, <1>3, TakenIsMade
  <2>2. y \in Nat /\ m \in 1 .. 12 /\ d \in 1 .. LastOf(y, m)
    BY <2>1 DEF DayOf
  <2>3. LastOf(y, m) \in 28 .. 31
    BY <2>2, Table
  <2> QED BY <1>2, <1>3, <2>2, <2>3
<1>5. CASE u = 1
  <2>1. Field(s, u) = y /\ Width(u) = 4
    BY <1>1, <1>3, <1>5 DEF Field, Width
  <2> QED BY SMT, <1>4, <2>1 DEF Fits
<1>6. CASE u = 2
  <2>1. Field(s, u) = m /\ Width(u) = 2
    BY <1>1, <1>3, <1>6 DEF Field, Width
  <2> QED BY SMT, <1>4, <2>1 DEF Fits
<1>7. CASE u = 3
  <2>1. Field(s, u) = d /\ Width(u) = 2
    BY <1>1, <1>3, <1>7 DEF Field, Width
  <2> QED BY SMT, <1>4, <2>1 DEF Fits
<1>8. CASE u = 4
  <2>1. Field(s, u) = sec \div 3600 /\ Width(u) = 2
    BY <1>1, <1>8 DEF Field, Width
  <2>2. PICK v \in Nat : v = sec \div 3600 /\ v < 24
    <3>1. PICK v \in Int : v = sec \div 3600
      BY <1>2
    <3>2. 0 <= v /\ v < 24
      BY SMT, <1>2, <3>1
    <3> QED BY <3>1, <3>2
  <2> QED BY SMT, <2>1, <2>2 DEF Fits
<1>9. CASE u = 5
  <2>1. Field(s, u) = (sec % 3600) \div 60 /\ Width(u) = 2
    BY <1>1, <1>9 DEF Field, Width
  <2>2. PICK v \in Nat : v = (sec % 3600) \div 60 /\ v < 60
    <3>1. PICK v \in Int : v = (sec % 3600) \div 60
      BY <1>2
    <3>2. 0 <= v /\ v < 60
      BY SMT, <1>2, <3>1
    <3> QED BY <3>1, <3>2
  <2> QED BY SMT, <2>1, <2>2 DEF Fits
<1>10. CASE u = 6
  <2>1. Field(s, u) = sec % 60 /\ Width(u) = 2
    BY <1>1, <1>10 DEF Field, Width
  <2>2. PICK v \in Nat : v = sec % 60 /\ v < 60
    <3>1. PICK v \in Int : v = sec % 60
      BY <1>2
    <3>2. 0 <= v /\ v < 60
      BY SMT, <1>2, <3>1
    <3> QED BY <3>1, <3>2
  <2> QED BY SMT, <2>1, <2>2 DEF Fits
<1>11. CASE u = 9
  <2>1. Field(s, u) = micro \div 1000 /\ Width(u) = 3
    BY <1>1, <1>11 DEF Field, Width
  <2>2. PICK v \in Nat : v = micro \div 1000 /\ v < 1000
    BY SMT, <1>2
  <2> QED BY SMT, <2>1, <2>2 DEF Fits
<1>12. CASE u = 12
  <2>1. Field(s, u) = micro /\ Width(u) = 6
    BY <1>1, <1>12 DEF Field, Width
  <2> QED BY SMT, <1>2, <2>1 DEF Fits
<1> QED BY <1>5, <1>6, <1>7, <1>8, <1>9, <1>10, <1>11, <1>12 DEF UnitsShown

(* Two texts of the first c units of D are in the order of the stamps, as  *)
(* far as these units tell.                                                *)
SameFields(a, b, D, c) == \A i \in 1 .. c : Field(a, D[i]) = Field(b, D[i])
LowerField(a, b, D, i) == SameFields(a, b, D, i - 1) /\ Field(a, D[i]) < Field(b, D[i])
Ordered(a, b, x, y, D, c) ==
  /\ SameFields(a, b, D, c) => x = y
  /\ \A i \in 1 .. c : LowerField(a, b, D, i) => Sorts(x, y)

(* The same piece behind two texts leaves them as they were ordered.        *)
LEMMA SameBehind ==
  ASSUME NEW a, NEW b, NEW x \in Seq(Characters), NEW y \in Seq(Characters), NEW z \in Seq(Characters),
         NEW D, NEW c, Ordered(a, b, x, y, D, c)
  PROVE  Ordered(a, b, x \o z, y \o z, D, c)
<1>1. SameFields(a, b, D, c) => x \o z = y \o z
  BY DEF Ordered
<1>2. ASSUME NEW i \in 1 .. c, LowerField(a, b, D, i) PROVE Sorts(x \o z, y \o z)
  <2>1. Sorts(x, y)
    BY <1>2 DEF Ordered
  <2> QED BY <2>1, SortsBehind
<1> QED BY <1>1, <1>2 DEF Ordered

(* The field of the next unit behind two texts orders them by one more      *)
(* unit.                                                                    *)
LEMMA UnitBehind ==
  ASSUME NEW a, NEW b, FourFigures(a), FourFigures(b),
         NEW x \in Seq(Characters), NEW y \in Seq(Characters), Len(x) = Len(y),
         NEW D, NEW c \in Nat, NEW u \in UnitsShown, u = D[c + 1], Ordered(a, b, x, y, D, c),
         NEW p, NEW q, Padded(p, Width(u), Field(a, u)), Padded(q, Width(u), Field(b, u))
  PROVE  /\ p \in Seq(Characters) /\ q \in Seq(Characters) /\ Len(p) = Len(q)
         /\ Ordered(a, b, x \o p, y \o q, D, c + 1)
<1>1. PICK v, w, k : v = Field(a, u) /\ w = Field(b, u) /\ k = Width(u)
  OBVIOUS
<1>2. /\ v \in Nat /\ w \in Nat /\ k \in {2, 3, 4, 6} /\ Fits(v, k) /\ Fits(w, k)
      /\ Padded(p, k, v) /\ Padded(q, k, w)
  BY <1>1, FieldFits
<1>3. p \in Seq(Characters) /\ q \in Seq(Characters) /\ Len(p) = Len(q)
  <2>1. ASSUME NEW r, NEW num \in Nat, Fits(num, k), Padded(r, k, num) PROVE r \in Seq(Characters) /\ Len(r) = k
    <3>1. PICK a0, b0, c0, d0, e0, f0 \in 0 .. 9 : Six(num, a0, b0, c0, d0, e0, f0)
      BY <2>1, SixDigits, ZenonT(60)
    <3>2. Spells(r, k, a0, b0, c0, d0, e0, f0)
      BY <1>2, <2>1, <3>1, PaddedText
    <3> QED BY <3>2, SMTT(60) DEF Spells
  <2> QED BY <1>2, <2>1
<1>4. PICK num : num = c + 1
  OBVIOUS
<1>5. num \in Nat /\ num \in 1 .. num /\ D[num] = u /\ \A i \in 1 .. num : i \in 1 .. c \/ i = num
  BY <1>4
<1>6. ASSUME SameFields(a, b, D, num) PROVE x \o p = y \o q
  <2>1. SameFields(a, b, D, c) /\ v = w
    BY <1>1, <1>4, <1>5, <1>6 DEF SameFields
  <2>2. x = y
    BY <2>1 DEF Ordered
  <2>3. p = q
    BY <1>2, <2>1 DEF Padded
  <2> QED BY <2>2, <2>3
<1>7. ASSUME NEW i \in 1 .. num, LowerField(a, b, D, i) PROVE Sorts(x \o p, y \o q)
  <2>1. CASE i \in 1 .. c
    <3>1. Sorts(x, y)
      BY <1>7, <2>1 DEF Ordered
    <3> QED BY <1>3, <3>1, SortsBehind
  <2>2. CASE i = num
    <3>1. i - 1 = c
      BY <1>4, <2>2
    <3>2. SameFields(a, b, D, c) /\ v < w
      BY <1>1, <1>5, <1>7, <2>2, <3>1 DEF LowerField
    <3>3. x = y
      BY <3>2 DEF Ordered
    <3>4. Sorts(p, q)
      BY <1>2, <3>2, PaddedSorts
    <3> QED BY <1>3, <3>3, <3>4, SortsByPiece
  <2> QED BY <1>5, <2>1, <2>2
<1>8. Ordered(a, b, x \o p, y \o q, D, num)
  BY <1>6, <1>7 DEF Ordered
<1> QED BY <1>3, <1>4, <1>8

(* What is shown of two stamps, as the fields that show it.                *)
LowerTriple(s, t) ==
  s[1] < t[1] \/ (s[1] = t[1] /\ (s[2] < t[2] \/ (s[2] = t[2] /\ s[3] < t[3])))
Triple(s) == \E i, j, k \in Nat : s = <<i, j, k>>

(* What is shown of a stamp, compared part by part.                         *)
LEMMA Triples ==
  ASSUME NEW s, NEW t, Triple(s), Triple(t)
  PROVE  /\ Earlier(s, t) => LowerTriple(s, t)
         /\ s = t \/ LowerTriple(s, t) \/ LowerTriple(t, s)
<1>1. PICK i, j, k \in Nat : s = <<i, j, k>>
  BY DEF Triple
<1>2. PICK i1, j1, k1 \in Nat : t = <<i1, j1, k1>>
  BY DEF Triple
<1>3. /\ DOMAIN s = 1 .. 3 /\ s[1] = i /\ s[2] = j /\ s[3] = k
      /\ t[1] = i1 /\ t[2] = j1 /\ t[3] = k1
  BY <1>1, <1>2
<1>4. s = t \/ LowerTriple(s, t) \/ LowerTriple(t, s)
  BY <1>1, <1>2, <1>3 DEF LowerTriple
<1>5. ASSUME Earlier(s, t) PROVE LowerTriple(s, t)
  <2> DEFINE S == {m \in DOMAIN s : s[m] # t[m]}
  <2>1. S \in SUBSET Nat /\ S # {}
    BY <1>1, <1>2, <1>3, <1>5 DEF Earlier
  <2>2. PICK f : f = FirstApart(s, t)
    OBVIOUS
  <2>3. f = CHOOSE m \in S : \A y \in S : y >= m
    BY <2>2 DEF FirstApart, Min
  <2>4. \E m \in S : \A y \in S : y >= m
    <3> HIDE DEF S
    <3>1. PICK m \in S : \A y \in S : m <= y
      BY <2>1, LeastOne
    <3>2. \A y \in S : y >= m
      BY <2>1, <3>1
    <3> QED BY <3>2
  <2>5. f \in S /\ \A y \in S : y >= f
    <3> HIDE DEF S
    <3> QED BY <2>3, <2>4
  <2>6. f \in 1 .. 3 /\ s[f] < t[f] /\ \A m \in 1 .. 3 : m < f => s[m] = t[m]
    BY <1>3, <1>5, <2>2, <2>5 DEF Earlier
  <2>7. f = 1 \/ f = 2 \/ f = 3
    BY <2>6
  <2> QED BY <1>3, <2>6, <2>7 DEF LowerTriple
<1> QED BY <1>4, <1>5

----------------------------------------------------------------------------
Finest == {"day", "second", "milli", "micro"}

(* The units down to the finest, one by one.                                *)
LEMMA UnitsDown ==
  ASSUME NEW finest \in Finest, NEW D, D = DownTo(finest)
  PROVE  /\ D \in Seq(1 .. 12) /\ Len(D) \in {3, 6, 7}
         /\ D[1] = 1 /\ D[2] = 2 /\ D[3] = 3
         /\ finest = "day" <=> Len(D) = 3
         /\ finest = "second" <=> Len(D) = 6
         /\ finest # "day" => D[4] = 4 /\ D[5] = 5 /\ D[6] = 6
         /\ finest = "milli" => D[7] = 9
         /\ finest = "micro" => D[7] = 12
         /\ \A i \in 1 .. Len(D) : D[i] \in UnitsShown
<1>1. CASE finest = "day"
  <2>1. D = <<1, 2, 3>>
    BY <1>1 DEF DownTo
  <2>2. <<1, 2, 3>> \in Seq(1 .. 12)
    OBVIOUS
  <2>3. Len(D) = 3 /\ D[1] = 1 /\ D[2] = 2 /\ D[3] = 3
    BY <2>1
  <2>4. \A i \in 1 .. 3 : i = 1 \/ i = 2 \/ i = 3
    OBVIOUS
  <2>5. \A i \in 1 .. Len(D) : D[i] \in UnitsShown
    BY <2>3, <2>4 DEF UnitsShown
  <2>6. D \in Seq(1 .. 12)
    BY <2>1, <2>2
  <2>7. finest # "second" /\ finest # "milli" /\ finest # "micro"
    BY <1>1
  <2>8. Len(D) \in {3, 6, 7} /\ (finest = "second" <=> Len(D) = 6)
    BY <2>3, <2>7
  <2> QED BY <1>1, <2>3, <2>5, <2>6, <2>7, <2>8
<1>2. CASE finest = "second"
  <2>1. D = <<1, 2, 3, 4, 5, 6>>
    BY <1>2 DEF DownTo
  <2>2. <<1, 2, 3, 4, 5, 6>> \in Seq(1 .. 12)
    OBVIOUS
  <2>3. Len(D) = 6 /\ D[1] = 1 /\ D[2] = 2 /\ D[3] = 3 /\ D[4] = 4 /\ D[5] = 5 /\ D[6] = 6
    BY <2>1
  <2>4. \A i \in 1 .. 6 : i = 1 \/ i = 2 \/ i = 3 \/ i = 4 \/ i = 5 \/ i = 6
    OBVIOUS
  <2>5. \A i \in 1 .. Len(D) : D[i] \in UnitsShown
    BY <2>3, <2>4 DEF UnitsShown
  <2>6. D \in Seq(1 .. 12)
    BY <2>1, <2>2
  <2> QED BY <1>2, <2>3, <2>5, <2>6
<1>3. CASE finest = "milli"
  <2>1. D = <<1, 2, 3, 4, 5, 6, 9>>
    BY <1>3 DEF DownTo
  <2>2. <<1, 2, 3, 4, 5, 6, 9>> \in Seq(1 .. 12)
    OBVIOUS
  <2>3. Len(D) = 7 /\ D[1] = 1 /\ D[2] = 2 /\ D[3] = 3 /\ D[4] = 4 /\ D[5] = 5 /\ D[6] = 6 /\ D[7] = 9
    BY <2>1
  <2>4. \A i \in 1 .. 7 : i = 1 \/ i = 2 \/ i = 3 \/ i = 4 \/ i = 5 \/ i = 6 \/ i = 7
    OBVIOUS
  <2>5. \A i \in 1 .. Len(D) : D[i] \in UnitsShown
    BY <2>3, <2>4 DEF UnitsShown
  <2>6. D \in Seq(1 .. 12)
    BY <2>1, <2>2
  <2> QED BY <1>3, <2>3, <2>5, <2>6
<1>4. CASE finest = "micro"
  <2>1. D = <<1, 2, 3, 4, 5, 6, 12>>
    BY <1>4 DEF DownTo
  <2>2. <<1, 2, 3, 4, 5, 6, 12>> \in Seq(1 .. 12)
    OBVIOUS
  <2>3. Len(D) = 7 /\ D[1] = 1 /\ D[2] = 2 /\ D[3] = 3 /\ D[4] = 4 /\ D[5] = 5 /\ D[6] = 6 /\ D[7] = 12
    BY <2>1
  <2>4. \A i \in 1 .. 7 : i = 1 \/ i = 2 \/ i = 3 \/ i = 4 \/ i = 5 \/ i = 6 \/ i = 7
    OBVIOUS
  <2>5. \A i \in 1 .. Len(D) : D[i] \in UnitsShown
    BY <2>3, <2>4 DEF UnitsShown
  <2>6. D \in Seq(1 .. 12)
    BY <2>1, <2>2
  <2> QED BY <1>4, <2>3, <2>5, <2>6
<1> QED BY <1>1, <1>2, <1>3, <1>4 DEF Finest

(* An earlier day is lower in its year, its month or its day of month,      *)
LEMMA FieldsOfDay ==
  ASSUME NEW a, NEW b, FourFigures(a), FourFigures(b),
         NEW D, D[1] = 1, D[2] = 2, D[3] = 3
  PROVE  /\ a.day = b.day => SameFields(a, b, D, 3)
         /\ a.day < b.day => \E i \in 1 .. 3 : LowerField(a, b, D, i)
<1>1. a.day \in Nat /\ b.day \in Nat
  BY SMT DEF FourFigures, Stamps
<1>2. \A s : /\ Field(s, 1) = extract_year(s.day) /\ Field(s, 2) = extract_month_of_year(s.day)
             /\ Field(s, 3) = extract_day_of_month(s.day)
  BY DEF Field
<1>3. \A i \in 1 .. 3 : i = 1 \/ i = 2 \/ i = 3
  OBVIOUS
<1>4. a.day = b.day => SameFields(a, b, D, 3)
  BY <1>2, <1>3 DEF SameFields
<1>5. ASSUME a.day < b.day PROVE \E i \in 1 .. 3 : LowerField(a, b, D, i)
  <2>1. Sooner(Field(a, 1), Field(a, 2), Field(a, 3), Field(b, 1), Field(b, 2), Field(b, 3))
    BY <1>1, <1>2, <1>5, TakenInOrder
  <2>2. CASE Field(a, 1) < Field(b, 1)
    <3>1. SameFields(a, b, D, 1 - 1)
      BY DEF SameFields
    <3>2. LowerField(a, b, D, 1)
      BY <2>2, <3>1 DEF LowerField
    <3> QED BY <3>2
  <2>3. CASE Field(a, 1) = Field(b, 1) /\ Field(a, 2) < Field(b, 2)
    <3>1. SameFields(a, b, D, 2 - 1)
      BY <2>3 DEF SameFields
    <3>2. LowerField(a, b, D, 2)
      BY <2>3, <3>1 DEF LowerField
    <3> QED BY <3>2
  <2>4. CASE Field(a, 1) = Field(b, 1) /\ Field(a, 2) = Field(b, 2) /\ Field(a, 3) < Field(b, 3)
    <3>1. SameFields(a, b, D, 3 - 1)
      <4>1. \A i \in 1 .. 3 - 1 : i = 1 \/ i = 2
        OBVIOUS
      <4> QED BY <2>4, <4>1 DEF SameFields
    <3>2. LowerField(a, b, D, 3)
      BY <2>4, <3>1 DEF LowerField
    <3> QED BY <3>2
  <2> QED BY <2>1, <2>2, <2>3, <2>4 DEF Sooner
<1> QED BY <1>4, <1>5

(* an earlier second in its hour, its minute or its second.                 *)
LEMMA FieldsOfTime ==
  ASSUME NEW a, NEW b, FourFigures(a), FourFigures(b),
         NEW D, D[1] = 1, D[2] = 2, D[3] = 3, D[4] = 4, D[5] = 5, D[6] = 6, a.day = b.day
  PROVE  /\ a.sec = b.sec => SameFields(a, b, D, 6)
         /\ a.sec < b.sec => \E i \in 1 .. 6 : LowerField(a, b, D, i)
<1>1. a.sec \in Nat /\ b.sec \in Nat
  BY SMT DEF FourFigures, Stamps
<1>2. \A s : /\ Field(s, 4) = s.sec \div 3600 /\ Field(s, 5) = (s.sec % 3600) \div 60
             /\ Field(s, 6) = s.sec % 60
  BY DEF Field
<1>3. Field(a, 1) = Field(b, 1) /\ Field(a, 2) = Field(b, 2) /\ Field(a, 3) = Field(b, 3)
  BY DEF Field
<1>4. a.sec = b.sec => SameFields(a, b, D, 6)
  <2>1. \A i \in 1 .. 6 : i = 1 \/ i = 2 \/ i = 3 \/ i = 4 \/ i = 5 \/ i = 6
    OBVIOUS
  <2> QED BY <1>2, <1>3, <2>1 DEF SameFields
<1>5. ASSUME a.sec < b.sec PROVE \E i \in 1 .. 6 : LowerField(a, b, D, i)
  <2>1. PICK j \in Nat, k \in Nat : j = a.sec /\ k = b.sec
    BY <1>1
  <2>2. PICK h1 \in Int, m1 \in Int, s1 \in Int : h1 = j \div 3600 /\ m1 = (j % 3600) \div 60 /\ s1 = j % 60
    OBVIOUS
  <2>3. PICK h2 \in Int, m2 \in Int, s2 \in Int : h2 = k \div 3600 /\ m2 = (k % 3600) \div 60 /\ s2 = k % 60
    OBVIOUS
  <2>4. j = h1 * 3600 + m1 * 60 + s1 /\ 0 <= s1 /\ s1 < 60 /\ 0 <= m1 /\ m1 < 60
    BY SMT, <2>2
  <2>5. k = h2 * 3600 + m2 * 60 + s2 /\ 0 <= s2 /\ s2 < 60 /\ 0 <= m2 /\ m2 < 60
    BY SMT, <2>3
  <2>6. h1 < h2 \/ (h1 = h2 /\ (m1 < m2 \/ (m1 = m2 /\ s1 < s2)))
    BY SMT, <1>5, <2>1, <2>4, <2>5
  <2>7. /\ Field(a, 4) = h1 /\ Field(a, 5) = m1 /\ Field(a, 6) = s1
        /\ Field(b, 4) = h2 /\ Field(b, 5) = m2 /\ Field(b, 6) = s2
    BY <1>2, <2>1, <2>2, <2>3
  <2>8. CASE h1 < h2
    <3>1. SameFields(a, b, D, 4 - 1)
      <4>1. \A i \in 1 .. 4 - 1 : i = 1 \/ i = 2 \/ i = 3
        OBVIOUS
      <4> QED BY <1>3, <4>1 DEF SameFields
    <3>2. LowerField(a, b, D, 4)
      BY <2>7, <2>8, <3>1 DEF LowerField
    <3> QED BY <3>2
  <2>9. CASE h1 = h2 /\ m1 < m2
    <3>1. SameFields(a, b, D, 5 - 1)
      <4>1. \A i \in 1 .. 5 - 1 : i = 1 \/ i = 2 \/ i = 3 \/ i = 4
        OBVIOUS
      <4> QED BY <1>3, <2>7, <2>9, <4>1 DEF SameFields
    <3>2. LowerField(a, b, D, 5)
      BY <2>7, <2>9, <3>1 DEF LowerField
    <3> QED BY <3>2
  <2>10. CASE h1 = h2 /\ m1 = m2 /\ s1 < s2
    <3>1. SameFields(a, b, D, 6 - 1)
      <4>1. \A i \in 1 .. 6 - 1 : i = 1 \/ i = 2 \/ i = 3 \/ i = 4 \/ i = 5
        OBVIOUS
      <4> QED BY <1>3, <2>7, <2>10, <4>1 DEF SameFields
    <3>2. LowerField(a, b, D, 6)
      BY <2>7, <2>10, <3>1 DEF LowerField
    <3> QED BY <3>2
  <2> QED BY <2>6, <2>8, <2>9, <2>10
<1> QED BY <1>4, <1>5

(* What is shown of two stamps is in the order of their fields.             *)
LEMMA ShownByFields ==
  ASSUME NEW a, NEW b, FourFigures(a), FourFigures(b), NEW finest \in Finest,
         NEW D, D = DownTo(finest), NEW s, NEW t, s = Shown(a, finest), t = Shown(b, finest)
  PROVE  /\ Triple(s)
         /\ s = t => SameFields(a, b, D, Len(D))
         /\ LowerTriple(s, t) => \E i \in 1 .. Len(D) : LowerField(a, b, D, i)
<1>1. /\ Len(D) \in {3, 6, 7}
      /\ D[1] = 1 /\ D[2] = 2 /\ D[3] = 3
      /\ finest = "day" <=> Len(D) = 3
      /\ finest = "second" <=> Len(D) = 6
      /\ finest # "day" => D[4] = 4 /\ D[5] = 5 /\ D[6] = 6
      /\ finest = "milli" => D[7] = 9
      /\ finest = "micro" => D[7] = 12
  BY UnitsDown
<1>2. /\ a.day \in Nat /\ b.day \in Nat /\ a.sec \in Nat /\ b.sec \in Nat
      /\ a.micro \in Nat /\ b.micro \in Nat
  BY SMT DEF FourFigures, Stamps
<1>3. /\ a.day = b.day => SameFields(a, b, D, 3)
      /\ a.day < b.day => \E i \in 1 .. 3 : LowerField(a, b, D, i)
  BY <1>1, FieldsOfDay
<1>4. CASE finest = "day"
  <2>1. s = <<a.day, 0, 0>> /\ t = <<b.day, 0, 0>> /\ Len(D) = 3
    BY <1>1, <1>4 DEF Shown
  <2>2. Triple(s)
    BY <1>2, <2>1 DEF Triple
  <2>3. (LowerTriple(s, t) => a.day < b.day) /\ (s = t => a.day = b.day)
    BY <1>2, <2>1 DEF LowerTriple
  <2> QED BY <1>3, <2>1, <2>2, <2>3
<1>5. ASSUME finest # "day", a.day = b.day
      PROVE  /\ a.sec = b.sec => SameFields(a, b, D, 6)
             /\ a.sec < b.sec => \E i \in 1 .. 6 : LowerField(a, b, D, i)
  BY <1>1, <1>5, FieldsOfTime
<1>6. CASE finest = "second"
  <2>1. s = <<a.day, a.sec, 0>> /\ t = <<b.day, b.sec, 0>> /\ Len(D) = 6
    BY <1>1, <1>6 DEF Shown
  <2>2. Triple(s)
    BY <1>2, <2>1 DEF Triple
  <2>3. LowerTriple(s, t) => a.day < b.day \/ (a.day = b.day /\ a.sec < b.sec)
    BY <1>2, <2>1 DEF LowerTriple
  <2>4. \A i \in 1 .. 3 : i \in 1 .. 6
    OBVIOUS
  <2>5. s = t => a.day = b.day /\ a.sec = b.sec
    BY <2>1
  <2>6. ASSUME LowerTriple(s, t) PROVE \E i \in 1 .. 6 : LowerField(a, b, D, i)
    <3>1. CASE a.day < b.day
      BY <1>3, <2>4, <3>1
    <3>2. CASE a.day = b.day /\ a.sec < b.sec
      BY <1>5, <1>6, <3>2
    <3> QED BY <2>3, <2>6, <3>1, <3>2
  <2>7. s = t => SameFields(a, b, D, 6)
    BY <1>5, <1>6, <2>5
  <2> QED BY <2>1, <2>2, <2>6, <2>7
<1>7. CASE finest \in {"milli", "micro"}
  <2>1. PICK p, q : p = Field(a, D[7]) /\ q = Field(b, D[7])
    OBVIOUS
  <2>2. s = <<a.day, a.sec, p>> /\ t = <<b.day, b.sec, q>> /\ Len(D) = 7
    BY <1>1, <1>7, <2>1 DEF Shown, Field
  <2>3. p \in Nat /\ q \in Nat
    <3>1. D[7] \in UnitsShown
      BY <1>1, <1>7 DEF UnitsShown
    <3> QED BY <2>1, <3>1, FieldFits
  <2>4. Triple(s)
    BY <1>2, <2>2, <2>3 DEF Triple
  <2>5. LowerTriple(s, t) =>
          a.day < b.day \/ (a.day = b.day /\ (a.sec < b.sec \/ (a.sec = b.sec /\ p < q)))
    BY <1>2, <2>2, <2>3 DEF LowerTriple
  <2>6. \A i \in 1 .. 3 : i \in 1 .. 7
    OBVIOUS
  <2>7. \A i \in 1 .. 6 : i \in 1 .. 7
    OBVIOUS
  <2>8. ASSUME a.day = b.day, a.sec = b.sec, p < q PROVE LowerField(a, b, D, 7)
    <3>1. SameFields(a, b, D, 7 - 1)
      BY <1>5, <1>7, <2>8
    <3> QED BY <2>1, <2>8, <3>1 DEF LowerField
  <2>9. ASSUME s = t PROVE SameFields(a, b, D, 7)
    <3>1. a.day = b.day /\ a.sec = b.sec /\ p = q
      BY <2>2, <2>9
    <3>2. SameFields(a, b, D, 6)
      BY <1>5, <1>7, <3>1
    <3>3. \A i \in 1 .. 7 : i \in 1 .. 6 \/ i = 7
      OBVIOUS
    <3> QED BY <2>1, <3>1, <3>2, <3>3 DEF SameFields
  <2>10. 7 \in 1 .. 7
    OBVIOUS
  <2>11. ASSUME LowerTriple(s, t) PROVE \E i \in 1 .. 7 : LowerField(a, b, D, i)
    <3>1. CASE a.day < b.day
      BY <1>3, <2>6, <3>1
    <3>2. CASE a.day = b.day /\ a.sec < b.sec
      BY <1>5, <1>7, <2>7, <3>2
    <3>3. CASE a.day = b.day /\ a.sec = b.sec /\ p < q
      BY <2>8, <2>10, <3>3
    <3> QED BY <2>5, <2>11, <3>1, <3>2, <3>3
  <2> QED BY <2>2, <2>4, <2>9, <2>11
<1> QED BY <1>4, <1>6, <1>7 DEF Finest

(* Texts of all the units are in the order of what is shown.               *)
LEMMA TextsTell ==
  ASSUME NEW a, NEW b, FourFigures(a), FourFigures(b), NEW finest \in Finest,
         NEW D, D = DownTo(finest), NEW s, NEW t, s = Shown(a, finest), t = Shown(b, finest),
         NEW x \in Seq(Characters), NEW y \in Seq(Characters),
         Ordered(a, b, x, y, D, Len(D)), Ordered(b, a, y, x, D, Len(D))
  PROVE  /\ s = t <=> x = y
         /\ Earlier(s, t) => SortsBefore(x, y)
<1>1. /\ Triple(s)
      /\ s = t => SameFields(a, b, D, Len(D))
      /\ LowerTriple(s, t) => \E i \in 1 .. Len(D) : LowerField(a, b, D, i)
  BY ShownByFields
<1>2. /\ Triple(t)
      /\ LowerTriple(t, s) => \E i \in 1 .. Len(D) : LowerField(b, a, D, i)
  BY ShownByFields
<1>3. s = t => x = y
  BY <1>1 DEF Ordered
<1>4. ASSUME LowerTriple(s, t) PROVE SortsBefore(x, y)
  <2>1. Sorts(x, y)
    BY <1>1, <1>4 DEF Ordered
  <2> QED BY <2>1, SortsIsBefore
<1>5. ASSUME LowerTriple(t, s) PROVE SortsBefore(y, x)
  <2>1. Sorts(y, x)
    BY <1>2, <1>5 DEF Ordered
  <2> QED BY <2>1, SortsIsBefore
<1>6. s # t => x # y
  <2>1. s = t \/ LowerTriple(s, t) \/ LowerTriple(t, s)
    BY <1>1, <1>2, Triples
  <2> QED BY <1>4, <1>5, <2>1 DEF SortsBefore
<1>7. Earlier(s, t) => LowerTriple(s, t)
  BY <1>1, <1>2, Triples
<1> QED BY <1>3, <1>4, <1>6, <1>7

----------------------------------------------------------------------------
(* While two stamps are written: the characters of the template up to p    *)
(* have shown the first c of the units, in texts of one length.            *)
TextsAt(a, b, t, rest, x, y, p) ==
  /\ p \in 0 .. Len(t.fmt) /\ rest = Rest(t.fmt, p)
  /\ x \in Seq(Characters) /\ y \in Seq(Characters) /\ Len(x) = Len(y)
  /\ \E c \in 0 .. Len(DownTo(t.finest)) :
       /\ UnitsFrom(t.fmt)[p] = Rest(DownTo(t.finest), c)
       /\ Ordered(a, b, x, y, DownTo(t.finest), c) /\ Ordered(b, a, y, x, DownTo(t.finest), c)

Pieces(a, b, u, p, q) ==
  /\ u = 0 => p = q /\ p \in Seq(Characters)
  /\ u \in UnitsShown => Padded(p, Width(u), Field(a, u)) /\ Padded(q, Width(u), Field(b, u))

Telling ==
  template.finest # "none" /\ \A i \in 1 .. 2 : extract_year(stamps[i].day) <= 9999

DatesInv ==
  /\ stamps = <<>> => date_texts = <<<<>>, <<>>>> /\ dttm_ret = -1
  /\ stamps # <<>> =>
       /\ stamps[1] \in Stamps /\ stamps[2] \in Stamps /\ template \in Templates /\ tzminutes \in Int
       /\ dttm_ret = 0 => fmt = <<>>
       /\ dttm_ret # 1 /\ Telling =>
            \E p : TextsAt(stamps[1], stamps[2], template, fmt, date_texts[1], date_texts[2], p)

(* What is left of what is left.                                            *)
LEMMA RestOfRest ==
  ASSUME NEW X, NEW f \in Seq(X), NEW p \in 0 .. Len(f), NEW z \in 0 .. Len(f) - p,
         NEW rest, rest = Rest(f, p)
  PROVE  p + z \in 0 .. Len(f) /\ Rest(rest, z) = Rest(f, p + z)
<1>1. Len(f) \in Nat
  OBVIOUS
<1>2. /\ rest \in Seq(X) /\ Len(rest) = Len(f) - p
      /\ \A i \in 1 .. Len(f) - p : rest[i] = f[p + i]
  BY PartsBehind DEF Rest
<1>3. PICK num : num = p + z
  OBVIOUS
<1>4. num \in 0 .. Len(f) /\ z \in 0 .. Len(rest)
  BY <1>1, <1>2, <1>3
<1>5. PICK u, v : u = Rest(rest, z) /\ v = Rest(f, num)
  OBVIOUS
<1>6. /\ u \in Seq(X) /\ Len(u) = Len(rest) - z
      /\ \A i \in 1 .. Len(rest) - z : u[i] = rest[z + i]
  BY <1>2, <1>4, <1>5, PartsBehind, SMTT(60) DEF Rest
<1>7. /\ v \in Seq(X) /\ Len(v) = Len(f) - num
      /\ \A i \in 1 .. Len(f) - num : v[i] = f[num + i]
  BY <1>4, <1>5, PartsBehind DEF Rest
<1>8. Len(u) = Len(v)
  BY <1>1, <1>2, <1>3, <1>6, <1>7
<1>9. ASSUME NEW i \in 1 .. Len(u) PROVE u[i] = v[i]
  <2>1. PICK j : j = z + i
    OBVIOUS
  <2>2. j \in 1 .. Len(f) - p /\ p + j = num + i /\ i \in 1 .. Len(f) - num /\ i \in 1 .. Len(rest) - z
    BY <1>1, <1>2, <1>3, <1>4, <1>6, <2>1
  <2> QED BY <1>2, <1>6, <1>7, <2>1, <2>2
<1>10. u = v
  BY <1>6, <1>7, <1>8, <1>9, SeqEqual
<1> QED BY <1>3, <1>4, <1>5, <1>10

(* A place of the template takes both texts on by its unit, or by nothing   *)
(* that tells.                                                              *)
LEMMA TextsGoOn ==
  ASSUME NEW a, NEW b, FourFigures(a), FourFigures(b), NEW t \in Templates, t.finest # "none",
         NEW rest, NEW x, NEW y, NEW p, TextsAt(a, b, t, rest, x, y, p), rest # <<>>,
         NEW g, NEW h, Pieces(a, b, UnitOf(rest), g, h)
  PROVE  TextsAt(a, b, t, Rest(rest, SizeOf(rest)), x \o g, y \o h, p + SizeOf(rest))
<1>1. PICK f, D, from : f = t.fmt /\ D = DownTo(t.finest) /\ from = UnitsFrom(t.fmt)
  OBVIOUS
<1>2. f \in Seq(STRING) /\ t.finest \in Finest
  BY <1>1, StropDateAssumption DEF Finest
<1>3. D \in Seq(1 .. 12) /\ Len(D) \in Nat /\ \A i \in 1 .. Len(D) : D[i] \in UnitsShown
  BY <1>1, <1>2, UnitsDown
<1>4. /\ p \in 0 .. Len(f) /\ rest = Rest(f, p)
      /\ x \in Seq(Characters) /\ y \in Seq(Characters) /\ Len(x) = Len(y)
  BY <1>1 DEF TextsAt
<1>5. PICK c \in 0 .. Len(D) :
        from[p] = Rest(D, c) /\ Ordered(a, b, x, y, D, c) /\ Ordered(b, a, y, x, D, c)
  BY <1>1 DEF TextsAt
<1>6. p # Len(f)
  <2>1. SUFFICES ASSUME p = Len(f) PROVE FALSE
    OBVIOUS
  <2>2. Len(f) \in Int /\ Len(f) < Len(f) + 1
    BY <1>2
  <2>3. rest = <<>>
    BY <1>4, <2>1, <2>2, SubSeqEmpty DEF Rest
  <2> QED BY <2>3
<1>7. PICK z, u : z = SizeOf(rest) /\ u = UnitOf(rest)
  OBVIOUS
<1>8. z \in 1 .. Len(f) - p /\ rest \in Seq(STRING) /\ Len(rest) = Len(f) - p
  BY <1>2, <1>4, <1>6, <1>7, RestSize
<1>9. p + z \in 0 .. Len(f) /\ Rest(rest, z) = Rest(f, p + z)
  <2>1. z \in 0 .. Len(f) - p
    BY <1>8
  <2> QED BY <1>2, <1>4, <2>1, RestOfRest
<1>10. PICK r : r = from[p + z]
  OBVIOUS
<1>11. from[p] = (IF u = 0 THEN <<>> ELSE <<u>>) \o r
  BY <1>1, <1>2, <1>4, <1>6, <1>7, <1>10, WalkAt DEF WalkValue
<1>12. r \in Seq(1 .. 12)
  BY <1>1, <1>2, <1>9, <1>10, UnitsAreSequences
<1>13. u \in 0 .. 12
  <2>1. Len(rest) > 0
    BY <1>2, <1>4, <1>6, <1>8
  <2> QED BY <1>7, <1>8, <2>1, SizeIn
<1>14. CASE u = 0
  <2>1. g = h /\ g \in Seq(Characters)
    BY <1>7, <1>14 DEF Pieces
  <2>2. r = Rest(D, c)
    <3>1. from[p] = <<>> \o r
      BY <1>11, <1>14
    <3>2. <<>> \o r = r
      BY <1>12
    <3> QED BY <1>5, <3>1, <3>2
  <2>3. Ordered(a, b, x \o g, y \o h, D, c) /\ Ordered(b, a, y \o h, x \o g, D, c)
    BY <1>4, <1>5, <2>1, SameBehind
  <2>4. x \o g \in Seq(Characters) /\ y \o h \in Seq(Characters) /\ Len(x \o g) = Len(y \o h)
    <3>1. x \o g \in Seq(Characters) /\ Len(x \o g) = Len(x) + Len(g)
      BY <1>4, <2>1, ConcatProperties
    <3>2. y \o g \in Seq(Characters) /\ Len(y \o g) = Len(y) + Len(g)
      BY <1>4, <2>1, ConcatProperties
    <3> QED BY <1>4, <2>1, <3>1, <3>2
  <2>5. TextsAt(a, b, t, Rest(rest, z), x \o g, y \o h, p + z)
    BY <1>1, <1>5, <1>9, <1>10, <2>2, <2>3, <2>4 DEF TextsAt
  <2> QED BY <1>7, <2>5
<1>15. CASE u # 0
  <2>1. u \in 1 .. 12 /\ <<u>> \o r = Rest(D, c)
    BY <1>5, <1>11, <1>13, <1>15
  <2>2. c < Len(D) /\ u = D[c + 1] /\ r = Rest(D, c + 1)
    BY <1>3, <1>12, <2>1, UnitTaken
  <2>3. c \in Nat /\ c + 1 \in 0 .. Len(D) /\ c + 1 \in 1 .. Len(D)
    BY <1>3, <2>2
  <2>4. u \in UnitsShown
    BY <1>3, <2>2, <2>3
  <2>5. Padded(g, Width(u), Field(a, u)) /\ Padded(h, Width(u), Field(b, u))
    BY <1>7, <2>4 DEF Pieces
  <2>6. /\ g \in Seq(Characters) /\ h \in Seq(Characters) /\ Len(g) = Len(h)
        /\ Ordered(a, b, x \o g, y \o h, D, c + 1)
    BY <1>4, <1>5, <2>2, <2>3, <2>4, <2>5, UnitBehind
  <2>7. Ordered(b, a, y \o h, x \o g, D, c + 1)
    BY <1>4, <1>5, <2>2, <2>3, <2>4, <2>5, UnitBehind
  <2>8. x \o g \in Seq(Characters) /\ y \o h \in Seq(Characters) /\ Len(x \o g) = Len(y \o h)
    <3>1. x \o g \in Seq(Characters) /\ Len(x \o g) = Len(x) + Len(g)
      BY <1>4, <2>6, ConcatProperties
    <3>2. y \o h \in Seq(Characters) /\ Len(y \o h) = Len(y) + Len(h)
      BY <1>4, <2>6, ConcatProperties
    <3> QED BY <1>4, <2>6, <3>1, <3>2
  <2>9. TextsAt(a, b, t, Rest(rest, z), x \o g, y \o h, p + z)
    BY <1>1, <1>9, <1>10, <2>2, <2>3, <2>6, <2>7, <2>8 DEF TextsAt
  <2> QED BY <1>7, <2>9
<1> QED BY <1>14, <1>15

JoinedBoth(f, x, y) == f = [i \in 1 .. 2 |-> x[i] \o y[i]]

JoinedEach(f, x, y) == f[1] = x[1] \o y[1] /\ f[2] = x[2] \o y[2]

LEMMA BothBehind ==
  ASSUME NEW f, NEW x, NEW y, JoinedBoth(f, x, y)
  PROVE  JoinedEach(f, x, y)
<1>1. \A i \in 1 .. 2 : f[i] = x[i] \o y[i]
  BY Zenon DEF JoinedBoth
<1>2. 1 \in 1 .. 2 /\ 2 \in 1 .. 2
  OBVIOUS
<1> QED BY <1>1, <1>2, Zenon DEF JoinedEach

LEMMA TwoFigures ==
  ASSUME NEW v \in Nat
  PROVE  strop_fmt_uint64_padded(v, 2) \in Seq(Characters)
<1>1. PICK x : x = strop_fmt_uint64_padded(v, 2)
  OBVIOUS
<1>2. x = [i \in 1 .. 2 |-> Figure((v \div 10 ^ (2 - i)) % 10)]
  BY <1>1 DEF strop_fmt_uint64_padded
<1>3. ASSUME NEW i \in 1 .. 2 PROVE Figure((v \div 10 ^ (2 - i)) % 10) \in Characters
  <2>1. 10 ^ 1 = 10 /\ 10 ^ 0 = 1
    OBVIOUS
  <2>2. 2 - i = 1 \/ 2 - i = 0
    OBVIOUS
  <2>3. (v \div 10) % 10 \in 0 .. 9 /\ (v \div 1) % 10 \in 0 .. 9
    OBVIOUS
  <2>4. (v \div 10 ^ (2 - i)) % 10 \in 0 .. 9
    BY <2>1, <2>2, <2>3
  <2> QED BY <2>4 DEF Characters
<1>4. x \in [1 .. 2 -> Characters]
  BY <1>2, <1>3
<1>5. x \in Seq(Characters)
  BY <1>4, SeqDef
<1> QED BY <1>1, <1>5

(* A step that puts a piece behind each text.                               *)
LEMMA PutsKeeps ==
  ASSUME DatesInv, stamps # <<>>, dttm_ret = -1, UNCHANGED <<stamps, template>>, tzminutes' \in Int,
         NEW count, NEW pieces, Puts(count, pieces),
         Telling => /\ fmt # <<>> /\ count = SizeOf(fmt)
                    /\ Pieces(stamps[1], stamps[2], UnitOf(fmt), pieces[1], pieces[2])
  PROVE  DatesInv'
<1>1. /\ stamps[1] \in Stamps /\ stamps[2] \in Stamps /\ template \in Templates
      /\ Telling => \E p : TextsAt(stamps[1], stamps[2], template, fmt, date_texts[1], date_texts[2], p)
  BY DEF DatesInv
<1>2. stamps' = stamps /\ template' = template /\ (Telling' <=> Telling)
  BY DEF Telling
<1>3. CASE dttm_ret' = 1
  BY <1>1, <1>2, <1>3 DEF DatesInv
<1>4. CASE dttm_ret' # 1
  <2>1. fmt' = SubSeq(fmt, count + 1, Len(fmt)) /\ dttm_ret' = -1
    BY <1>4 DEF Puts
  <2>2. date_texts' = [i \in 1 .. 2 |-> date_texts[i] \o pieces[i]]
    BY <1>4 DEF Puts
  <2>3. fmt' = Rest(fmt, count)
    BY <2>1 DEF Rest
  <2>5. date_texts'[1] = date_texts[1] \o pieces[1] /\ date_texts'[2] = date_texts[2] \o pieces[2]
    <3>1. PICK both, x, y : both = date_texts' /\ x = date_texts /\ y = pieces
      OBVIOUS
    <3>2. JoinedBoth(both, x, y)
      BY <2>2, <3>1 DEF JoinedBoth
    <3>3. JoinedEach(both, x, y)
      BY <3>2, BothBehind
    <3> QED BY <3>1, <3>3 DEF JoinedEach
  <2>6. dttm_ret' = -1
    BY <2>1
  <2>4. ASSUME Telling
        PROVE  \E p : TextsAt(stamps[1], stamps[2], template, fmt', date_texts'[1], date_texts'[2], p)
    <3>1. PICK p : TextsAt(stamps[1], stamps[2], template, fmt, date_texts[1], date_texts[2], p)
      BY <1>1, <2>4
    <3>2. FourFigures(stamps[1]) /\ FourFigures(stamps[2]) /\ template.finest # "none"
      BY <1>1, <2>4 DEF Telling, FourFigures
    <3>3. PICK a, b, t, rest, x, y, g, h :
            /\ a = stamps[1] /\ b = stamps[2] /\ t = template /\ rest = fmt
            /\ x = date_texts[1] /\ y = date_texts[2] /\ g = pieces[1] /\ h = pieces[2]
      OBVIOUS
    <3>4. TextsAt(a, b, t, Rest(rest, SizeOf(rest)), x \o g, y \o h, p + SizeOf(rest))
      <4>1. /\ FourFigures(a) /\ FourFigures(b) /\ t \in Templates /\ t.finest # "none"
            /\ TextsAt(a, b, t, rest, x, y, p) /\ rest # <<>> /\ Pieces(a, b, UnitOf(rest), g, h)
        BY <1>1, <2>4, <3>1, <3>2, <3>3
      <4> QED BY <4>1, TextsGoOn
    <3>5. Rest(rest, SizeOf(rest)) = fmt'
      BY <2>3, <2>4, <3>3
    <3> QED BY <2>5, <3>3, <3>4, <3>5
  <2> QED BY <1>1, <1>2, <2>6, <2>4 DEF DatesInv
<1> QED BY <1>3, <1>4

(* The characters that are left, while the texts tell.                     *)
LEMMA LeftIsText ==
  ASSUME DatesInv, stamps # <<>>, dttm_ret # 1, Telling
  PROVE  /\ fmt \in Seq(STRING) /\ Len(fmt) \in Nat /\ (Len(fmt) > 0 => fmt # <<>>)
         /\ FourFigures(stamps[1]) /\ FourFigures(stamps[2])
<1>1. /\ stamps[1] \in Stamps /\ stamps[2] \in Stamps /\ template \in Templates
      /\ \E p : TextsAt(stamps[1], stamps[2], template, fmt, date_texts[1], date_texts[2], p)
  BY DEF DatesInv
<1>2. PICK p : p \in 0 .. Len(template.fmt) /\ fmt = Rest(template.fmt, p)
  BY <1>1 DEF TextsAt
<1>3. template.fmt \in Seq(STRING)
  BY <1>1, StropDateAssumption
<1>4. fmt \in Seq(STRING)
  BY <1>2, <1>3, PartsBehind DEF Rest
<1>5. FourFigures(stamps[1]) /\ FourFigures(stamps[2])
  BY <1>1 DEF Telling, FourFigures
<1> QED BY <1>4, <1>5

----------------------------------------------------------------------------
(* The steps of the walk, one by one.                                       *)
LEMMA YearsKeep ==
  ASSUME DatesInv, stamps # <<>>, dttm_ret = -1, UNCHANGED <<stamps, template, tzminutes>>, Years
  PROVE  DatesInv'
<1>1. PICK count : count = RunOf(fmt, "y", 4) /\ count > 0
  BY DEF Years
<1>2. tzminutes' \in Int /\ dttm_ret # 1
  BY DEF DatesInv
<1>3. CASE count = 4
  <2>1. PICK pieces : /\ Puts(4, pieces)
                      /\ pieces = [i \in 1 .. 2 |-> strop_fmt_uint64_padded([j \in 1 .. 2 |-> extract_year(stamps[j].day)][i], 4)]
    BY <1>1, <1>3 DEF Years, PutsNumbers
  <2>2. pieces[1] = strop_fmt_uint64_padded(extract_year(stamps[1].day), 4)
    BY <2>1
  <2>3. pieces[2] = strop_fmt_uint64_padded(extract_year(stamps[2].day), 4)
    BY <2>1
  <2>4. ASSUME Telling
        PROVE  /\ fmt # <<>> /\ 4 = SizeOf(fmt)
               /\ Pieces(stamps[1], stamps[2], UnitOf(fmt), pieces[1], pieces[2])
    <3>1. fmt \in Seq(STRING) /\ (Len(fmt) > 0 => fmt # <<>>)
      BY <1>2, <2>4, LeftIsText
    <3>2. SizeOf(fmt) = 4 /\ UnitOf(fmt) = 1 /\ 4 <= Len(fmt)
      BY <1>1, <1>3, <3>1, YearPlace
    <3>3. Field(stamps[1], 1) = extract_year(stamps[1].day) /\ Field(stamps[2], 1) = extract_year(stamps[2].day)
          /\ Width(1) = 4
      BY DEF Field, Width
    <3>4. Pieces(stamps[1], stamps[2], 1, pieces[1], pieces[2])
      BY <2>2, <2>3, <3>3 DEF Pieces, Padded
    <3> QED BY <3>1, <3>2, <3>4
  <2> QED BY <1>2, <2>1, <2>4, PutsKeeps
<1>4. CASE count # 4
  <2>1. PICK pieces : Puts(count, pieces) /\ pieces = [i \in 1 .. 2 |-> Repeat("y", count)]
    BY <1>1, <1>4 DEF Years, PutsSame
  <2>2. pieces[1] = Repeat("y", count) /\ pieces[2] = Repeat("y", count)
    BY <2>1
  <2>3. ASSUME Telling
        PROVE  /\ fmt # <<>> /\ count = SizeOf(fmt)
               /\ Pieces(stamps[1], stamps[2], UnitOf(fmt), pieces[1], pieces[2])
    <3>1. fmt \in Seq(STRING) /\ Len(fmt) \in Nat /\ (Len(fmt) > 0 => fmt # <<>>)
      BY <1>2, <2>3, LeftIsText
    <3>2. SizeOf(fmt) = count /\ UnitOf(fmt) = 0 /\ count <= Len(fmt) /\ count \in 1 .. 4
      BY <1>1, <1>4, <3>1, YearPlace
    <3>3. Repeat("y", count) \in Seq(Characters)
      <4>1. "y" \in Characters
        BY DEF Characters
      <4> QED BY <3>2, <4>1 DEF Repeat
    <3>4. 0 \notin UnitsShown
      BY DEF UnitsShown
    <3>5. Pieces(stamps[1], stamps[2], 0, pieces[1], pieces[2])
      BY <2>2, <3>3, <3>4 DEF Pieces
    <3> QED BY <3>1, <3>2, <3>5
  <2> QED BY <1>2, <2>1, <2>3, PutsKeeps
<1> QED BY <1>3, <1>4

(* A word stands for a number of each stamp, its unit.                     *)
LEMMA WordKeeps ==
  ASSUME DatesInv, stamps # <<>>, dttm_ret = -1, UNCHANGED <<stamps, template, tzminutes>>,
         NEW word \in Words, NEW numbers, Two(word, numbers),
         numbers[1] = Field(stamps[1], UnitOfWord(word)), numbers[2] = Field(stamps[2], UnitOfWord(word)),
         word # <<"t", "z">>
  PROVE  DatesInv'
<1>1. tzminutes' \in Int /\ dttm_ret # 1
  BY DEF DatesInv
<1>2. PICK pieces : /\ Puts(2, pieces)
                    /\ pieces = [i \in 1 .. 2 |-> strop_fmt_uint64_padded(numbers[i], 2)]
  BY DEF Two, PutsNumbers
<1>3. pieces[1] = strop_fmt_uint64_padded(numbers[1], 2) /\ pieces[2] = strop_fmt_uint64_padded(numbers[2], 2)
  BY <1>2
<1>4. ASSUME Telling
      PROVE  /\ fmt # <<>> /\ 2 = SizeOf(fmt)
             /\ Pieces(stamps[1], stamps[2], UnitOf(fmt), pieces[1], pieces[2])
  <2>1. fmt \in Seq(STRING) /\ Len(fmt) \in Nat /\ (Len(fmt) > 0 => fmt # <<>>)
    BY <1>1, <1>4, LeftIsText
  <2>2. Begins(fmt, word)
    BY DEF Two
  <2>3. SizeOf(fmt) = 2 /\ UnitOf(fmt) = UnitOfWord(word) /\ Len(fmt) >= 2
    BY <2>1, <2>2, WordPlace
  <2>4. UnitOfWord(word) \in 2 .. 6
    BY DEF UnitOfWord, Words
  <2>5. Width(UnitOfWord(word)) = 2 /\ UnitOfWord(word) # 0
    BY <2>4 DEF Width
  <2>6. Pieces(stamps[1], stamps[2], UnitOfWord(word), pieces[1], pieces[2])
    BY <1>3, <2>5 DEF Pieces, Padded
  <2>7. Len(fmt) > 0
    BY <2>1, <2>3
  <2> QED BY <2>1, <2>3, <2>6, <2>7
<1> QED BY <1>1, <1>2, <1>4, PutsKeeps

LEMMA LettersKeep ==
  ASSUME DatesInv, stamps # <<>>, dttm_ret = -1, UNCHANGED <<stamps, template, tzminutes>>, PairOfLetters
  PROVE  DatesInv'
<1>0. /\ <<"m", "m">> \in Words /\ <<"m", "i">> \in Words /\ <<"d", "d">> \in Words
      /\ <<"h", "h">> \in Words /\ <<"s", "s">> \in Words
  BY DEF Words
<1>1. /\ UnitOfWord(<<"m", "m">>) = 2 /\ UnitOfWord(<<"d", "d">>) = 3 /\ UnitOfWord(<<"h", "h">>) = 4
      /\ UnitOfWord(<<"m", "i">>) = 5 /\ UnitOfWord(<<"s", "s">>) = 6
  BY DEF UnitOfWord
<1>2. \A s : /\ Field(s, 2) = extract_month_of_year(s.day) /\ Field(s, 3) = extract_day_of_month(s.day)
             /\ Field(s, 4) = s.sec \div 3600 /\ Field(s, 5) = (s.sec % 3600) \div 60
             /\ Field(s, 6) = s.sec % 60
  BY DEF Field
<1>3. CASE Two(<<"m", "m">>, [i \in 1 .. 2 |-> extract_month_of_year(stamps[i].day)])
  <2>1. PICK numbers : numbers = [i \in 1 .. 2 |-> extract_month_of_year(stamps[i].day)]
    OBVIOUS
  <2>2. numbers[1] = Field(stamps[1], 2) /\ numbers[2] = Field(stamps[2], 2)
    BY <1>2, <2>1
  <2>3. Two(<<"m", "m">>, numbers)
    BY <1>3, <2>1
  <2> QED BY <1>0, <1>1, <2>2, <2>3, WordKeeps
<1>4. CASE Two(<<"m", "i">>, [i \in 1 .. 2 |-> (stamps[i].sec % 3600) \div 60])
  <2>1. PICK numbers : numbers = [i \in 1 .. 2 |-> (stamps[i].sec % 3600) \div 60]
    BY ZenonT(60)
  <2>2. numbers[1] = Field(stamps[1], 5) /\ numbers[2] = Field(stamps[2], 5)
    BY <1>2, <2>1
  <2>3. Two(<<"m", "i">>, numbers)
    BY <1>4, <2>1
  <2> QED BY <1>0, <1>1, <2>2, <2>3, WordKeeps
<1>5. CASE Two(<<"d", "d">>, [i \in 1 .. 2 |-> extract_day_of_month(stamps[i].day)])
  <2>1. PICK numbers : numbers = [i \in 1 .. 2 |-> extract_day_of_month(stamps[i].day)]
    OBVIOUS
  <2>2. numbers[1] = Field(stamps[1], 3) /\ numbers[2] = Field(stamps[2], 3)
    BY <1>2, <2>1
  <2>3. Two(<<"d", "d">>, numbers)
    BY <1>5, <2>1
  <2> QED BY <1>0, <1>1, <2>2, <2>3, WordKeeps
<1>6. CASE Two(<<"h", "h">>, [i \in 1 .. 2 |-> stamps[i].sec \div 3600])
  <2>1. PICK numbers : numbers = [i \in 1 .. 2 |-> stamps[i].sec \div 3600]
    BY ZenonT(60)
  <2>2. numbers[1] = Field(stamps[1], 4) /\ numbers[2] = Field(stamps[2], 4)
    BY <1>2, <2>1
  <2>3. Two(<<"h", "h">>, numbers)
    BY <1>6, <2>1
  <2> QED BY <1>0, <1>1, <2>2, <2>3, WordKeeps
<1>7. CASE Two(<<"s", "s">>, [i \in 1 .. 2 |-> stamps[i].sec % 60])
  <2>1. PICK numbers : numbers = [i \in 1 .. 2 |-> stamps[i].sec % 60]
    OBVIOUS
  <2>2. numbers[1] = Field(stamps[1], 6) /\ numbers[2] = Field(stamps[2], 6)
    BY <1>2, <2>1
  <2>3. Two(<<"s", "s">>, numbers)
    BY <1>7, <2>1
  <2> QED BY <1>0, <1>1, <2>2, <2>3, WordKeeps
<1> QED BY <1>3, <1>4, <1>5, <1>6, <1>7 DEF PairOfLetters

LEMMA FractionKeeps ==
  ASSUME DatesInv, stamps # <<>>, dttm_ret = -1, UNCHANGED <<stamps, template, tzminutes>>, Fraction
  PROVE  DatesInv'
<1>1. PICK count : count = RunOf(fmt, "f", 6) /\ count > 0
  BY DEF Fraction
<1>2. tzminutes' \in Int /\ dttm_ret # 1
  BY DEF DatesInv
<1>3. PICK numbers : /\ numbers = [i \in 1 .. 2 |-> stamps[i].micro \div 10 ^ (6 - count)]
                     /\ PutsNumbers(count, numbers, count)
  BY <1>1 DEF Fraction
<1>4. PICK pieces : /\ Puts(count, pieces)
                    /\ pieces = [i \in 1 .. 2 |-> strop_fmt_uint64_padded(numbers[i], count)]
  BY <1>3 DEF PutsNumbers
<1>5. /\ pieces[1] = strop_fmt_uint64_padded(numbers[1], count)
      /\ pieces[2] = strop_fmt_uint64_padded(numbers[2], count)
  BY <1>4
<1>6. numbers[1] = stamps[1].micro \div 10 ^ (6 - count) /\ numbers[2] = stamps[2].micro \div 10 ^ (6 - count)
  BY <1>3
<1>7. ASSUME Telling
      PROVE  /\ fmt # <<>> /\ count = SizeOf(fmt)
             /\ Pieces(stamps[1], stamps[2], UnitOf(fmt), pieces[1], pieces[2])
  <2>1. /\ fmt \in Seq(STRING) /\ Len(fmt) \in Nat /\ (Len(fmt) > 0 => fmt # <<>>)
        /\ FourFigures(stamps[1]) /\ FourFigures(stamps[2])
    BY <1>2, <1>7, LeftIsText
  <2>2. SizeOf(fmt) = count /\ UnitOf(fmt) = 6 + count /\ count \in 1 .. 6 /\ count <= Len(fmt)
    BY <1>1, <2>1, FractionPlace
  <2>3. PICK u : u = 6 + count
    OBVIOUS
  <2>4. u # 0 /\ Width(u) = count /\ (u \in UnitsShown => u = 9 \/ u = 12)
    BY <2>2, <2>3 DEF Width, UnitsShown
  <2>5. stamps[1].micro \in Nat /\ stamps[2].micro \in Nat
    BY SMT, <2>1 DEF FourFigures, Stamps
  <2>6. \A num \in Nat : num \div 1 = num
    OBVIOUS
  <2>7. \A s : Field(s, 9) = s.micro \div 1000 /\ Field(s, 12) = s.micro
    BY DEF Field
  <2>8. CASE u = 9
    <3>1. 6 - count = 3
      <4>1. count \in 1 .. 6
        BY <2>2
      <4> QED BY <2>3, <2>8, <4>1
    <3>2. 10 ^ (6 - count) = 1000
      <4>1. PICK e : e = 6 - count
        OBVIOUS
      <4>2. e = 3
        BY <3>1, <4>1
      <4>3. 10 ^ 3 = 1000
        OBVIOUS
      <4>4. 10 ^ e = 1000
        BY <4>2, <4>3, Zenon
      <4> QED BY <4>1, <4>4, Zenon
    <3>3. numbers[1] = stamps[1].micro \div 1000 /\ numbers[2] = stamps[2].micro \div 1000
      BY <1>6, <3>2, ZenonT(60)
    <3>4. numbers[1] = Field(stamps[1], 9) /\ numbers[2] = Field(stamps[2], 9)
      BY <2>7, <3>3
    <3> QED BY <1>5, <2>1, <2>2, <2>3, <2>4, <2>8, <3>4 DEF Pieces, Padded
  <2>9. CASE u = 12
    <3>1. 6 - count = 0
      <4>1. count \in 1 .. 6
        BY <2>2
      <4> QED BY <2>3, <2>9, <4>1
    <3>2. 10 ^ (6 - count) = 1
      <4>1. PICK e : e = 6 - count
        OBVIOUS
      <4>2. e = 0
        BY <3>1, <4>1
      <4>3. 10 ^ 0 = 1
        OBVIOUS
      <4>4. 10 ^ e = 1
        BY <4>2, <4>3, Zenon
      <4> QED BY <4>1, <4>4, Zenon
    <3>3. numbers[1] = stamps[1].micro \div 1 /\ numbers[2] = stamps[2].micro \div 1
      BY <1>6, <3>2, Zenon
    <3>4. numbers[1] = Field(stamps[1], 12) /\ numbers[2] = Field(stamps[2], 12)
      BY <2>7, <3>3, <2>5, <2>6
    <3> QED BY <1>5, <2>1, <2>2, <2>3, <2>4, <2>9, <3>4 DEF Pieces, Padded
  <2>10. CASE u # 9 /\ u # 12
    BY <2>1, <2>2, <2>3, <2>4, <2>10 DEF Pieces
  <2> QED BY <2>8, <2>9, <2>10
<1> QED BY <1>2, <1>4, <1>7, PutsKeeps

LEMMA ZoneKeeps ==
  ASSUME DatesInv, stamps # <<>>, dttm_ret = -1, UNCHANGED <<stamps, template>>, Zone
  PROVE  DatesInv'
<1>1. tzminutes \in Int /\ dttm_ret # 1
  BY DEF DatesInv
<1>2. PICK minutes : minutes = IF tzminutes >= 0 THEN tzminutes ELSE -tzminutes
  OBVIOUS
<1>3. minutes \in Nat
  BY <1>1, <1>2
<1>4. PICK sign, hours, rest :
        /\ sign = <<IF tzminutes >= 0 THEN "+" ELSE "-">>
        /\ hours = strop_fmt_uint64_padded(minutes \div 60, 2)
        /\ rest = strop_fmt_uint64_padded(minutes % 60, 2)
  OBVIOUS
<1>5. PICK piece : piece = sign \o hours \o <<":">> \o rest
  OBVIOUS
<1>6. Begins(fmt, <<"t", "z">>) /\ PutsSame(2, piece) /\ tzminutes' = minutes
  BY <1>2, <1>4, <1>5 DEF Zone
<1>7. PICK pieces : Puts(2, pieces) /\ pieces = [i \in 1 .. 2 |-> piece]
  BY <1>6 DEF PutsSame
<1>8. pieces[1] = piece /\ pieces[2] = piece
  BY <1>7
<1>9. piece \in Seq(Characters)
  <2>1. PICK h, m : h = minutes \div 60 /\ m = minutes % 60
    OBVIOUS
  <2>2. h \in Nat /\ m \in Nat
    BY <1>3, <2>1
  <2>3. hours \in Seq(Characters) /\ rest \in Seq(Characters)
    BY <1>4, <2>1, <2>2, TwoFigures
  <2>4. <<":">> \in Seq(Characters) /\ sign \in Seq(Characters)
    <3>1. ":" \in Characters /\ "+" \in Characters /\ "-" \in Characters
      BY DEF Characters
    <3>2. PICK s : sign = <<s>> /\ s \in Characters
      <4>1. CASE tzminutes >= 0
        BY <1>4, <3>1, <4>1
      <4>2. CASE ~ (tzminutes >= 0)
        BY <1>4, <3>1, <4>2
      <4> QED BY <4>1, <4>2
    <3> QED BY <3>1, <3>2
  <2>5. sign \o hours \in Seq(Characters)
    BY <2>3, <2>4, ConcatProperties
  <2>6. sign \o hours \o <<":">> \in Seq(Characters)
    BY <2>4, <2>5, ConcatProperties
  <2> QED BY <1>5, <2>3, <2>6, ConcatProperties
<1>10. ASSUME Telling
      PROVE  /\ fmt # <<>> /\ 2 = SizeOf(fmt)
             /\ Pieces(stamps[1], stamps[2], UnitOf(fmt), pieces[1], pieces[2])
  <2>1. fmt \in Seq(STRING) /\ Len(fmt) \in Nat /\ (Len(fmt) > 0 => fmt # <<>>)
    BY <1>1, <1>10, LeftIsText
  <2>2. <<"t", "z">> \in Words /\ UnitOfWord(<<"t", "z">>) = 0
    BY DEF Words, UnitOfWord
  <2>3. SizeOf(fmt) = 2 /\ UnitOf(fmt) = 0 /\ Len(fmt) >= 2
    BY <1>6, <2>1, <2>2, WordPlace
  <2>4. 0 \notin UnitsShown
    BY DEF UnitsShown
  <2>5. Pieces(stamps[1], stamps[2], 0, pieces[1], pieces[2])
    BY <1>8, <1>9, <2>4 DEF Pieces
  <2>6. Len(fmt) > 0
    BY <2>1, <2>3
  <2> QED BY <2>1, <2>3, <2>5, <2>6
<1> QED BY <1>1, <1>3, <1>6, <1>7, <1>10, PutsKeeps

LEMMA OtherKeeps ==
  ASSUME DatesInv, stamps # <<>>, dttm_ret = -1, UNCHANGED <<stamps, template, tzminutes>>, OtherCharacter
  PROVE  DatesInv'
<1>1. tzminutes' \in Int /\ dttm_ret # 1
  BY DEF DatesInv
<1>2. /\ fmt # <<>> /\ fmt[1] \notin {"y", "f"} /\ \A word \in Words : ~ Begins(fmt, word)
      /\ PutsSame(1, <<fmt[1]>>)
  BY DEF OtherCharacter
<1>3. PICK pieces : Puts(1, pieces) /\ pieces = [i \in 1 .. 2 |-> <<fmt[1]>>]
  BY <1>2 DEF PutsSame
<1>4. pieces[1] = <<fmt[1]>> /\ pieces[2] = <<fmt[1]>>
  BY <1>3
<1>5. ASSUME Telling
      PROVE  /\ fmt # <<>> /\ 1 = SizeOf(fmt)
             /\ Pieces(stamps[1], stamps[2], UnitOf(fmt), pieces[1], pieces[2])
  <2>1. fmt \in Seq(STRING)
    BY <1>1, <1>5, LeftIsText
  <2>2. Len(fmt) > 0 /\ fmt[1] \in STRING
    <3>1. Len(fmt) \in Nat /\ Len(fmt) # 0
      BY <1>2, <2>1, EmptySeq
    <3> QED BY <2>1, <3>1
  <2>3. SizeOf(fmt) = 1 /\ UnitOf(fmt) = 0
    BY <1>2, <2>1, <2>2, OtherPlace
  <2>4. <<fmt[1]>> \in Seq(Characters)
    <3>1. PICK c : c = fmt[1]
      OBVIOUS
    <3>2. c \in Characters
      BY <2>2, <3>1 DEF Characters
    <3> QED BY <3>1, <3>2
  <2>5. 0 \notin UnitsShown
    BY DEF UnitsShown
  <2>6. Pieces(stamps[1], stamps[2], 0, pieces[1], pieces[2])
    BY <1>4, <2>4, <2>5 DEF Pieces
  <2> QED BY <1>2, <2>3, <2>6
<1> QED BY <1>1, <1>3, <1>5, PutsKeeps

----------------------------------------------------------------------------
LEMMA WholeRest ==
  ASSUME NEW X, NEW f \in Seq(X), NEW r, r = Rest(f, 0)
  PROVE  r = f
<1>1. Len(f) \in Nat /\ 0 \in 0 .. Len(f)
  OBVIOUS
<1>2. r \in Seq(X) /\ Len(r) = Len(f) - 0 /\ \A i \in 1 .. Len(f) - 0 : r[i] = f[0 + i]
  BY <1>1, PartsBehind DEF Rest
<1>3. Len(r) = Len(f) /\ \A i \in 1 .. Len(r) : r[i] = f[i]
  BY <1>1, <1>2
<1> QED BY <1>2, <1>3, SeqEqual

LEMMA NothingLeft ==
  ASSUME NEW X, NEW f \in Seq(X), NEW p \in 0 .. Len(f), NEW r, r = Rest(f, p), r = <<>>
  PROVE  p = Len(f)
<1>1. Len(f) \in Nat
  OBVIOUS
<1>2. Len(r) = Len(f) - p
  BY PartsBehind DEF Rest
<1>3. Len(r) = 0
  OBVIOUS
<1> QED BY <1>1, <1>2, <1>3

(* With nothing left of the template, all its units have been shown.        *)
LEMMA NothingUnshown ==
  ASSUME NEW a, NEW b, NEW t \in Templates, t.finest # "none",
         NEW x, NEW y, NEW p, TextsAt(a, b, t, <<>>, x, y, p)
  PROVE  /\ x \in Seq(Characters) /\ y \in Seq(Characters)
         /\ Ordered(a, b, x, y, DownTo(t.finest), Len(DownTo(t.finest)))
         /\ Ordered(b, a, y, x, DownTo(t.finest), Len(DownTo(t.finest)))
<1>1. PICK f, D, from : f = t.fmt /\ D = DownTo(t.finest) /\ from = UnitsFrom(t.fmt)
  OBVIOUS
<1>2. f \in Seq(STRING) /\ t.finest \in Finest
  BY <1>1, StropDateAssumption DEF Finest
<1>3. D \in Seq(1 .. 12)
  BY <1>1, <1>2, UnitsDown
<1>4. p \in 0 .. Len(f) /\ Rest(f, p) = <<>> /\ x \in Seq(Characters) /\ y \in Seq(Characters)
  BY <1>1 DEF TextsAt
<1>5. PICK c \in 0 .. Len(D) :
        from[p] = Rest(D, c) /\ Ordered(a, b, x, y, D, c) /\ Ordered(b, a, y, x, D, c)
  BY <1>1 DEF TextsAt
<1>6. p = Len(f)
  BY <1>2, <1>4, NothingLeft
<1>7. from[p] = <<>>
  BY <1>1, <1>2, <1>4, <1>6, WalkAt DEF WalkValue
<1>8. c = Len(D)
  BY <1>3, <1>5, <1>7, NothingLeft
<1> QED BY <1>1, <1>4, <1>5, <1>8

----------------------------------------------------------------------------
(* The call, its end, and any step.                                         *)
LEMMA DatesStart ==
  ASSUME DatesInv, stamps = <<>>,
         NEW pair \in StampPairs, NEW t \in Templates, NEW tz \in Zones,
         strop_fmt_dttm_all(pair[1], pair[2], t, tz)
  PROVE  DatesInv'
<1>1. PICK a, b : a = pair[1] /\ b = pair[2]
  OBVIOUS
<1>2. a \in Stamps /\ b \in Stamps /\ tz \in Int
  BY <1>1, StropDateAssumption
<1>3. /\ stamps' = <<a, b>> /\ template' = t /\ fmt' = t.fmt /\ tzminutes' = tz
      /\ date_texts' = <<<<>>, <<>>>> /\ dttm_ret' = -1
  BY <1>1 DEF strop_fmt_dttm_all, DatesInv
<1>4. stamps' # <<>> /\ stamps'[1] = a /\ stamps'[2] = b /\ date_texts'[1] = <<>> /\ date_texts'[2] = <<>>
  BY <1>3
<1>5. ASSUME Telling' PROVE TextsAt(a, b, t, t.fmt, <<>>, <<>>, 0)
  <2>1. PICK f, D, from : f = t.fmt /\ D = DownTo(t.finest) /\ from = UnitsFrom(t.fmt)
    OBVIOUS
  <2>2. t.finest # "none"
    BY <1>3, <1>5 DEF Telling
  <2>3. f \in Seq(STRING) /\ t.finest \in Finest /\ from[0] = D
    BY <2>1, <2>2, StropDateAssumption DEF Finest
  <2>4. D \in Seq(1 .. 12) /\ Len(D) \in Nat
    BY <2>1, <2>3, UnitsDown
  <2>5. f = Rest(f, 0) /\ D = Rest(D, 0)
    BY <2>3, <2>4, WholeRest
  <2>6. Ordered(a, b, <<>>, <<>>, D, 0) /\ Ordered(b, a, <<>>, <<>>, D, 0)
    BY DEF Ordered
  <2>7. <<>> \in Seq(Characters) /\ 0 \in 0 .. Len(D) /\ 0 \in 0 .. Len(f)
    BY <2>3, <2>4
  <2> QED BY <2>1, <2>3, <2>5, <2>6, <2>7 DEF TextsAt
<1>6. Telling' => \E p : TextsAt(stamps'[1], stamps'[2], template', fmt', date_texts'[1], date_texts'[2], p)
  BY <1>3, <1>4, <1>5
<1> QED BY <1>2, <1>3, <1>4, <1>6 DEF DatesInv

LEMMA EndKeeps ==
  ASSUME DatesInv, stamps # <<>>, dttm_ret = -1, UNCHANGED <<stamps, template, tzminutes>>, Ends
  PROVE  DatesInv'
<1>1. fmt = <<>> /\ dttm_ret' = 0 /\ fmt' = fmt /\ date_texts' = date_texts
  BY DEF Ends
<1>2. stamps' = stamps /\ template' = template /\ tzminutes' = tzminutes /\ (Telling' <=> Telling)
  BY DEF Telling
<1> QED BY <1>1, <1>2 DEF DatesInv

LEMMA DatesStep ==
  ASSUME DatesInv, [StropDateNext]_stropDateVars
  PROVE  DatesInv'
<1>1. CASE Formatting
  <2>1. stamps # <<>> /\ dttm_ret = -1 /\ UNCHANGED <<stamps, template>>
    BY <1>1 DEF Formatting
  <2>2. CASE Years /\ UNCHANGED tzminutes
    BY <2>1, <2>2, YearsKeep
  <2>3. CASE PairOfLetters /\ UNCHANGED tzminutes
    BY <2>1, <2>3, LettersKeep
  <2>4. CASE Fraction /\ UNCHANGED tzminutes
    BY <2>1, <2>4, FractionKeeps
  <2>5. CASE Zone
    BY <2>1, <2>5, ZoneKeeps
  <2>6. CASE OtherCharacter /\ UNCHANGED tzminutes
    BY <2>1, <2>6, OtherKeeps
  <2>7. CASE Ends /\ UNCHANGED tzminutes
    BY <2>1, <2>7, EndKeeps
  <2> QED BY <1>1, <2>2, <2>3, <2>4, <2>5, <2>6, <2>7 DEF Formatting
<1>2. CASE /\ stamps = <<>>
           /\ \E pair \in StampPairs, t \in Templates, tz \in Zones :
                strop_fmt_dttm_all(pair[1], pair[2], t, tz)
  <2>1. PICK pair \in StampPairs, t \in Templates, tz \in Zones :
          strop_fmt_dttm_all(pair[1], pair[2], t, tz)
    BY <1>2
  <2> QED BY <1>2, <2>1, DatesStart
<1>3. CASE UNCHANGED stropDateVars
  <2>1. /\ stamps' = stamps /\ template' = template /\ tzminutes' = tzminutes /\ (Telling' <=> Telling)
        /\ fmt' = fmt /\ date_texts' = date_texts /\ dttm_ret' = dttm_ret
    BY <1>3 DEF Telling, stropDateVars
  <2> QED BY <2>1 DEF DatesInv
<1> QED BY <1>1, <1>2, <1>3 DEF StropDateNext

LEMMA ToldApart ==
  ASSUME DatesInv
  PROVE  DatesSort
<1>1. SUFFICES ASSUME dttm_ret = 0, template.finest # "none",
                      \A i \in 1 .. 2 : extract_year(stamps[i].day) <= 9999,
                      NEW s, NEW t, s = Shown(stamps[1], template.finest), t = Shown(stamps[2], template.finest)
               PROVE  /\ s = t <=> date_texts[1] = date_texts[2]
                      /\ Earlier(s, t) => SortsBefore(date_texts[1], date_texts[2])
  BY DEF DatesSort
<1>2. stamps # <<>> /\ Telling
  BY <1>1 DEF DatesInv, Telling
<1>3. /\ stamps[1] \in Stamps /\ stamps[2] \in Stamps /\ template \in Templates /\ fmt = <<>>
      /\ \E p : TextsAt(stamps[1], stamps[2], template, fmt, date_texts[1], date_texts[2], p)
  BY <1>1, <1>2 DEF DatesInv
<1>4. PICK a, b, x, y, k, finest :
        a = stamps[1] /\ b = stamps[2] /\ x = date_texts[1] /\ y = date_texts[2] /\ k = template /\ finest = template.finest
  OBVIOUS
<1>5. FourFigures(a) /\ FourFigures(b) /\ finest \in Finest
  BY <1>1, <1>3, <1>4, StropDateAssumption DEF FourFigures, Finest
<1>6. PICK p : TextsAt(a, b, k, <<>>, x, y, p)
  BY <1>3, <1>4
<1>7. PICK D : D = DownTo(finest)
  OBVIOUS
<1>8. /\ x \in Seq(Characters) /\ y \in Seq(Characters)
      /\ Ordered(a, b, x, y, D, Len(D)) /\ Ordered(b, a, y, x, D, Len(D))
  <2>1. k \in Templates /\ k.finest # "none" /\ D = DownTo(k.finest)
    BY <1>1, <1>3, <1>4, <1>7
  <2> QED BY <1>6, <2>1, NothingUnshown
<1>9. s = Shown(a, finest) /\ t = Shown(b, finest)
  BY <1>1, <1>4
<1>10. (s = t <=> x = y) /\ (Earlier(s, t) => SortsBefore(x, y))
  BY <1>5, <1>7, <1>8, <1>9, TextsTell
<1> QED BY <1>4, <1>10

(* Texts of two stamps that one template from the years down has written    *)
(* sort as the stamps do, by as little as the template shows, up to the    *)
(* year 9999: for all stamps, templates, zones and sizes of the buffer.    *)
THEOREM DatesSortAsText == StropDateSpec => []DatesSort
<1>1. StropDateInit => DatesInv
  BY DEF StropDateInit, DatesInv
<1>2. DatesInv /\ [StropDateNext]_stropDateVars => DatesInv'
  BY DatesStep
<1>3. DatesInv => DatesSort
  BY ToldApart
<1> QED BY <1>1, <1>2, <1>3, PTL DEF StropDateSpec
=============================================================================
