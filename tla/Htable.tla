------------------------------- MODULE Htable -------------------------------
(***************************************************************************)
(* The hash table of src/common/htable.c: open addressing in an array of n *)
(* entries, one probe a step.  A key is its bytes together with their      *)
(* number; hfun is the function the table was created with.                *)
(***************************************************************************)
EXTENDS Integers

CONSTANTS
  Keys, Data, None,
  TableSizes,    \* n's
  Hashes         \* functions from keys to hash values

ASSUME HtableAssumption ==
  /\ TableSizes \subseteq Nat \ {0} /\ TableSizes # {}
  /\ Hashes \subseteq [Keys -> Nat]
  /\ None \notin Nat \cup Keys \cup Data
  /\ None \notin [op : {"add"}, key : Keys, data : Data] \cup [op : {"search"}, key : Keys]

VARIABLES
  n, hfun, used, tbl,
  asked,     \* [op, key, data] of the call under way, or None
  hash,      \* the slot it looks at
  checked,   \* how many a search has looked at
  returned
htable == <<n, hfun, used, tbl>>
probe == <<asked, hash, checked, returned>>
htableVars == <<htable, probe>>

Empty == [key |-> None, data |-> None]
Slots == 0 .. n - 1

HtableInit ==
  /\ n = 0 /\ hfun = <<>> /\ used = 0 /\ tbl = <<>>
  /\ asked = None /\ hash = 0 /\ checked = 0 /\ returned = None

htable_create(size, f) ==
  /\ n = 0
  /\ n' = size /\ hfun' = f /\ used' = 0 /\ tbl' = [i \in 0 .. size - 1 |-> Empty]
  /\ UNCHANGED probe

Return(ret) == asked' = None /\ returned' = ret /\ hash' = 0 /\ checked' = 0

FullNever == FALSE                                          \* mutant: adds to a full table
Full == used = n

Asks(call) ==
  /\ n > 0 /\ asked = None
  /\ asked' = call /\ returned' = None /\ hash' = hfun[call.key] % n /\ checked' = 0
  /\ UNCHANGED htable

NextSlot == IF hash + 1 = n THEN 0 ELSE hash + 1

htable_add_refuses ==
  /\ asked # None /\ asked.op = "add" /\ Full
  /\ Return(-1)
  /\ UNCHANGED htable

htable_add_probes ==
  /\ asked # None /\ asked.op = "add" /\ ~Full
  /\ tbl[hash].key \notin {None, asked.key}
  /\ hash' = NextSlot
  /\ UNCHANGED <<htable, asked, checked, returned>>

htable_add_stores ==
  /\ asked # None /\ asked.op = "add" /\ ~Full
  /\ tbl[hash].key \in {None, asked.key}
  /\ tbl' = [tbl EXCEPT ![hash] = [key |-> asked.key, data |-> asked.data]]
  /\ used' = used + 1
  /\ Return(0)
  /\ UNCHANGED <<n, hfun>>

OneShort == checked + 1 < used - 1   \* mutant: the last entry is not looked at
ProbesOn == checked + 1 < used

htable_search_probes ==
  /\ asked # None /\ asked.op = "search"
  /\ tbl[hash].key \notin {None, asked.key} /\ ProbesOn
  /\ hash' = NextSlot /\ checked' = checked + 1
  /\ UNCHANGED <<htable, asked, returned>>

htable_search_ends ==
  /\ asked # None /\ asked.op = "search"
  /\ tbl[hash].key \in {None, asked.key} \/ ~ProbesOn
  /\ Return(IF tbl[hash].key = asked.key THEN tbl[hash].data ELSE None)
  /\ UNCHANGED htable

HtableNext ==
  \/ n = 0 /\ \E size \in TableSizes, f \in Hashes : htable_create(size, f)
  \/ asked = None /\ n > 0 /\ \/ \E k \in Keys, d \in Data : Asks([op |-> "add", key |-> k, data |-> d])
                              \/ \E k \in Keys : Asks([op |-> "search", key |-> k])
  \/ htable_add_refuses \/ htable_add_probes \/ htable_add_stores
  \/ htable_search_probes \/ htable_search_ends

HtableSpec == HtableInit /\ [][HtableNext]_htableVars

----------------------------------------------------------------------------
(* The entries of the table, by key.                                       *)
Stored ==
  [k \in Keys |-> IF \E i \in Slots : tbl[i].key = k
                  THEN tbl[CHOOSE i \in Slots : tbl[i].key = k].data ELSE None]

Map == INSTANCE KeyMap WITH
  room <- IF n = 0 THEN None ELSE n - used, entries <- Stored, call <- asked, answer <- returned

(* Whatever the keys' hashes and however they collide, the table answers   *)
(* as a map from keys to data does (htable.h:27-38).                       *)
ImplementsMap == Map!MapSpec

(* An entry that is added finds a slot: the table is not full, so a probe  *)
(* from its hash on meets a free one or the key's own (htable.c:58-70).    *)
AddFindsSlot ==
  asked # None /\ asked.op = "add" /\ ~Full =>
    \E i \in Slots : tbl[i].key \in {None, asked.key}
=============================================================================
