------------------------------- MODULE KeyMap -------------------------------
(***************************************************************************)
(* What a caller of the hash table can rely on: a search gives the entry   *)
(* that was added last under the key, or none when there was none; an      *)
(* entry is refused only when the table has taken as many as it was        *)
(* created for.  This is less than htable.h says, "not enough memory": the *)
(* code counts an entry that replaces one a second time (htable.c:46-75),  *)
(* so what a table has taken is more than what it holds.                   *)
(***************************************************************************)
EXTENDS Integers

CONSTANTS Keys, Data, None

VARIABLES
  room,      \* entries it still takes, or None before it is created
  entries,   \* the data of each key, or None
  call,      \* the call under way, or None
  answer     \* what the last one returned
mapVars == <<room, entries, call, answer>>

Calls == [op : {"add"}, key : Keys, data : Data] \cup [op : {"search"}, key : Keys]

MapInit == room = None /\ entries = [k \in Keys |-> None] /\ call = None /\ answer = None

Create == call = None /\ room = None /\ room' \in Nat \ {0} /\ UNCHANGED <<entries, call, answer>>

Ask ==
  /\ room # None /\ call = None /\ call' \in Calls /\ answer' = None
  /\ UNCHANGED <<room, entries>>

Take ==
  /\ call # None /\ call.op = "add" /\ room # 0
  /\ entries' = [entries EXCEPT ![call.key] = call.data]
  /\ room' = room - 1 /\ call' = None /\ answer' = 0

Refuse ==
  /\ call # None /\ call.op = "add" /\ room = 0
  /\ call' = None /\ answer' = -1
  /\ UNCHANGED <<room, entries>>

Find ==
  /\ call # None /\ call.op = "search"
  /\ call' = None /\ answer' = entries[call.key]
  /\ UNCHANGED <<room, entries>>

MapNext == Create \/ Ask \/ Take \/ Refuse \/ Find

MapSpec == MapInit /\ [][MapNext]_mapVars
=============================================================================
