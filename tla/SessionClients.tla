--------------------------- MODULE SessionClients ---------------------------
(***************************************************************************)
(* A server session with a client of one of two kinds: one that forms its  *)
(* messages as the protocol has them and names users by names the server   *)
(* has room for, or one that sends anything.                               *)
(***************************************************************************)
EXTENDS SessionProps

CONSTANT MaxAnyMsgs     \* bound on the messages of a client of any kind

ASSUME SessionClientsAssumption == MaxAnyMsgs \in Nat

VARIABLE polite
clientsVars == <<vars, polite>>

----------------------------------------------------------------------------
(* Where the text of a message has its first length of a chunk.            *)
TextBegins(m) == IF m[2] = LText THEN 3 + LenSz ELSE 3

(* A text from begin to end: each chunk behind its length, and a length of *)
(* none at the end.                                                        *)
IsText(m, begin, end, lengths) ==
  /\ begin \in lengths /\ lengths \subseteq begin .. end
  /\ \A l \in lengths :
       /\ m[l] = 0 <=> l = end
       /\ m[l] # 0 => l + m[l] + 1 \in lengths /\ l + 1 .. l + m[l] \cap lengths = {}

IsStatement(m) ==
  /\ Len(m) >= 2
  /\ \E lengths \in SUBSET (1 .. Len(m)) : IsText(m, TextBegins(m), Len(m), lengths)

(* Credentials of full size behind a name that is neither empty nor too    *)
(* long and has only valid characters.                                     *)
NameEnds(m) == Len(m) - CredSz
IsName(m, lengths) ==
  LET characters == (TextBegins(m) .. NameEnds(m)) \ lengths IN
  /\ IsText(m, TextBegins(m), NameEnds(m), lengths)
  /\ Cardinality(characters) \in 1 .. NameSz
  /\ \A i \in characters : ValidChar(m[i])
NamesUser(m) ==
  /\ Len(m) >= 2
  /\ \E lengths \in SUBSET (1 .. Len(m)) : IsName(m, lengths)

(* Of a message of any other type only the type is ever read: it ends the  *)
(* session.                                                                *)
Conformant(m) ==
  /\ m # <<>>
  /\ m[1] = HelloHi => Len(m) = 4 /\ m[2] = HelloLo
  /\ m[1] = AuthMagic => NamesUser(m)
  /\ m[1] = SqlMagic => IsStatement(m)

ConformantMsgs == {m \in ClientMsgs : Conformant(m)}

----------------------------------------------------------------------------
ClientsInit == Init /\ polite \in BOOLEAN

ClientsNext ==
  /\ \/ Server \/ ClientGone \/ ListenerShutdown
     \/ polite /\ \E m \in ConformantMsgs : ClientSend(m)
     \/ ~polite /\ nsent < MaxAnyMsgs /\ \E m \in ClientMsgs : ClientSend(m)
  /\ UNCHANGED polite

ClientsSpec == ClientsInit /\ [][ClientsNext]_clientsVars /\ WF_vars(Server)

----------------------------------------------------------------------------
(* The server looks for the type of a message only where a message begins: *)
(* none is left half read or read past its end, whatever path through the  *)
(* chunked strings was taken (pproto_server.c:369-608), as long as names   *)
(* are not refused: of a refused one the credentials stay unread.          *)
PoliteReadsAtBoundary == polite => ReadsAtBoundary

(* Then an attempt, too, leads to an answer or to the end.                 *)
PoliteAttemptAnswered == polite => AttemptLeadsToAnswer
=============================================================================
