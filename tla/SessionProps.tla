---------------------------- MODULE SessionProps ----------------------------
(***************************************************************************)
(* What must hold of a server session, and what the documents say of it    *)
(* that does not.                                                          *)
(***************************************************************************)
EXTENDS Session, FiniteSets

Count(m) == Cardinality({i \in 1 .. Len(out) : out[i] = m})
Answers == Count("AUTH_OK") + Count("AUTH_FAIL")

Sent(m) == \E i \in 1 .. Len(out) : out[i] = m

(* No statement is read, parsed or answered before the client has been     *)
(* told that its credentials were accepted, under the identity that        *)
(* auth_check_credentials returned (session.c:100-139, 142-171).           *)
AuthBeforeExec ==
  pc \in ExecStates \cup {"repl", "send_syntax", "send_violation", "send_goodbye"}
    => userId # 0 /\ Sent("AUTH_OK")

(* The dialogue as the client sees it: the greeting first, the request for *)
(* authentication second and only once, no second acceptance, no refusal   *)
(* after it, and no error or goodbye before it (session.c:90-139).         *)
OutDiscipline ==
  \A i \in 1 .. Len(out) :
    /\ out[i] = "HELLO" <=> i = 1
    /\ out[i] = "AUTH_REQUEST" <=> i = 2
    /\ out[i] \in {"ERROR_TEXT", "GOODBYE"} =>
         i = Len(out) /\ \E j \in 1 .. i : out[j] = "AUTH_OK"
    /\ \A j \in 1 .. i : out[j] = "AUTH_OK" =>
         j = i \/ out[i] \in {"ERROR_TEXT", "GOODBYE"}

(* Every authentication attempt is answered before the next message is     *)
(* looked at, whatever went wrong in reading it: too long a name, an       *)
(* invalid character, no name (session.c:114-131).                         *)
AttemptsAnswered ==
  pc \in {"auth", "repl"} \cup ExecStates => Answers = attempts

(* The server looks for a message type only where a message begins: no     *)
(* message is left half read or read past its end, whatever path through   *)
(* the chunked strings was taken (pproto_server.c:369-608).                *)
ReadsAtBoundary ==
  pc \in {"hello", "auth", "repl"} /\ inp # <<>> => inp[1].first

(* A child whose client is gone ends, however it was interrupted: in the   *)
(* middle of a string, of the credentials, of a statement, between two     *)
(* answers (every `return 1' of session.c and pproto_server.c).            *)
EndsWithClient == peer = "gone" ~> pc \in Ended

(* An attempt whose type was read leads to an answer or to the end.        *)
AttemptLeadsToAnswer ==
  pc = "auth_str" ~> pc \in {"auth", "repl"} \cup Ended

(* The documented automaton (session.c:13-41).  A session that has read its *)
(* last message is at its end, whatever it still has to say.               *)
AutomatonState ==
  IF pc \in {"create", "hello", "hello_enc"} THEN 0
  ELSE IF pc \in {"send_hello", "send_request"} \cup AuthStates THEN 1
  ELSE IF pc \in {"send_ok", "repl"} THEN 2
  ELSE IF pc \in ExecStates THEN 3
  ELSE 4

(* What the type of a message says of its condition.  The credentials of   *)
(* an auth message are read in state 1 only; elsewhere it is either.       *)
TypeConditions ==
  CASE MsgType = "HELLO"   -> {"a"}
    [] MsgType = "AUTH"    -> {"b", "c"}
    [] MsgType = "SQL"     -> {"d"}
    [] MsgType = "CANCEL"  -> {"e"}
    [] MsgType = "GOODBYE" -> {"f"}
    [] OTHER               -> {"g"}

(* The message a step hears: reads to where it knows what there is to know *)
(* of it.  Of a hello that is the encoding, of an auth message in state 1  *)
(* the credentials or, when they are not even looked at, the bad name.     *)
HearsType ==
  /\ pc \in {"hello", "auth", "repl"} /\ pc' # pc /\ Readable(TypeLen)
  /\ ~ (pc = "hello" /\ MsgType = "HELLO") /\ ~ (pc = "auth" /\ MsgType = "AUTH")
HearsEncoding == pc = "hello_enc" /\ pc' # pc /\ Readable(2)
HearsName == pc \in AuthStates \ {"auth", "auth_cred", "auth_reject"} /\ pc' = "auth_reject"
HearsCredentials == pc = "auth_cred" /\ pc' # pc /\ Readable(CredSz)

Heard ==
  IF HearsType THEN TypeConditions
  ELSE IF HearsEncoding
       THEN {IF Convertible(clientEnc', ServerEncoding) /\ Convertible(clientEnc', 2)
             THEN "a" ELSE "g"}
  ELSE IF HearsCredentials THEN {IF userId' # 0 THEN "c" ELSE "b"}
  ELSE IF HearsName THEN {"b"} ELSE {}

(* The server ends the session on anything but a request or a goodbye      *)
(* (session.c:166-169).                                                    *)
Violations == {2} \X {"a", "b", "c", "e", "g"}

Broken == peer = "gone" \/ writeEnd = "shut"

AsCoded == INSTANCE SessionAutomaton WITH st <- AutomatonState, Dismissed <- Violations
AsDrawn == INSTANCE SessionAutomaton WITH st <- AutomatonState, Dismissed <- {}

(* Each message the session hears takes it where the table of              *)
(* session.c:13-24 says, and nothing else moves it but the end of a        *)
(* statement and a connection that breaks.  The five cells of state 2 that *)
(* Violations names are the exception.                                     *)
FollowsTable == AsCoded!Init /\ [][AsCoded!Step(Heard, Broken)]_vars

----------------------------------------------------------------------------
(* Statements of the documents that the code refutes.                      *)

(* session.c:13-24, every cell of it.                                      *)
TableAsDrawn == AsDrawn!Init /\ [][AsDrawn!Step(Heard, Broken)]_vars

(* protocol_bnf.txt:113-114, steps 1 and 2: the server answers the hello   *)
(* of a client that stays with a hello of its own.                         *)
HelloGetsHello ==
  nsent > 0 ~> Sent("HELLO") \/ pc \in {"closed", "error"} \/ peer = "gone"
=============================================================================
