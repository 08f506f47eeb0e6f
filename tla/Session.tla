------------------------------ MODULE Session ------------------------------
(***************************************************************************)
(* The server side of one client session: session/session.c with the       *)
(* message level of session/pproto_server.c and the statement driver of    *)
(* execution/execution.c.  One forked child of the listener runs it and    *)
(* nothing else, so the process is sequential; what interleaves with it is *)
(* the client, who sends whole protocol messages at any time and may       *)
(* vanish at any time.                                                     *)
(*                                                                         *)
(* Client to server the channel is a stream of bytes, because where a      *)
(* message starts is exactly what the code can lose track of.  Server to   *)
(* client it is a sequence of messages: the server flushes each one whole. *)
(***************************************************************************)
EXTENDS Integers, Sequences

CONSTANTS
  ServerEncoding,   \* g_session_state.server_encoding
  Verdicts,         \* what auth_check_credentials may answer
  NameSz,           \* AUTH_USER_NAME_SZ, 260 in the code
  CredSz,           \* AUTH_CREDENTIAL_SZ, 512 in the code
  LenSz,            \* bytes of a limited string's length, 8 in the code
  ClientMsgs,       \* the messages a client may send, as byte sequences
  MaxMsgs           \* how many messages the client sends in all

Byte == 0 .. 255
MaxUint16 == 65535
Uint16 == 0 .. MaxUint16

ASSUME SessionAssumption ==
  /\ ServerEncoding \in 0 .. 2
  /\ Verdicts \subseteq BOOLEAN
  /\ NameSz \in Nat \ {0}
  /\ CredSz \in Nat \ {0}
  /\ LenSz \in Nat
  /\ ClientMsgs \subseteq Seq(Byte)
  /\ MaxMsgs \in Nat

----------------------------------------------------------------------------
(* Magic numbers of the protocol.                                          *)

HelloHi   == 20     \* 0x14, high byte of the client hello magic
HelloLo   == 6      \* 0x06
AuthMagic == 34     \* 0x22
SqlMagic  == 85     \* 0x55
CancelMagic  == 87  \* 0x57
GoodbyeMagic == 190 \* 0xBE
UText == 1          \* unbound text string
LText == 254        \* limited text string

Kind(b) ==
  CASE b = AuthMagic    -> "AUTH"
    [] b = SqlMagic     -> "SQL"
    [] b = CancelMagic  -> "CANCEL"
    [] b = GoodbyeMagic -> "GOODBYE"
    [] OTHER            -> "OTHER"

(* A character of a text the client sends.  Every character is one byte;   *)
(* a byte above 127 stands for one that the client encoding rejects.       *)
ValidChar(b) == b < 128

(* The encodings encoding_is_convertable() relates to each other.          *)
Convertible(e1, e2) == e1 \in {1, 2} /\ e2 \in {1, 2}

ServerMsg == {"HELLO", "AUTH_REQUEST", "AUTH_OK", "AUTH_FAIL", "CANCEL",
              "ERROR_TEXT", "GOODBYE"}

----------------------------------------------------------------------------
VARIABLES
  pc,           \* where the child is
  inp,          \* bytes sent by the client and not yet read
  out,          \* messages sent to the client, oldest first
  peer,         \* "up", or "gone" once the client's end is closed
  writeEnd,     \* "open", or "shut" once shut down for writing
  chunkLeft,    \* g_pproto_server_state.chunk_len_left
  wr,           \* characters taken of the string being read
  userId,       \* g_session_state.user_id
  clientEnc,    \* g_session_state.client_encoding
  nsent,        \* messages the client has sent
  attempts      \* history: auth messages whose type the server has read

vars == <<pc, inp, out, peer, writeEnd, chunkLeft, wr, userId, clientEnc, nsent, attempts>>

(* What the child never changes itself.                                    *)
environment == <<peer, writeEnd, nsent>>

(* A byte of the stream remembers whether it is the first of a message;    *)
(* no action looks at that mark, only the framing property does.           *)
StreamByte == [byte : Byte, first : BOOLEAN]

AuthStates == {"auth", "auth_str", "auth_name", "auth_str_end", "auth_drain",
               "auth_cred", "auth_reject"}
ExecStates == {"exec_str", "exec_reset", "exec"}
Ended      == {"closed", "error", "aborted"}
States     == {"create", "hello", "hello_enc", "send_hello", "send_request",
               "send_ok", "repl", "send_goodbye", "send_violation",
               "send_syntax"} \cup AuthStates \cup ExecStates \cup Ended

TypeOK ==
  /\ pc \in States
  /\ inp \in Seq(StreamByte)
  /\ out \in Seq(ServerMsg)
  /\ peer \in {"up", "gone"}
  /\ writeEnd \in {"open", "shut"}
  /\ chunkLeft \in Byte
  /\ wr \in Nat
  /\ userId \in {0, 1}
  /\ clientEnc \in Uint16
  /\ nsent \in Nat
  /\ attempts \in Nat

Init ==
  /\ pc = "create"
  /\ inp = <<>>
  /\ out = <<>>
  /\ peer = "up"
  /\ writeEnd = "open"
  /\ chunkLeft = 0
  /\ wr = 0
  /\ userId = 0
  /\ clientEnc = 0
  /\ nsent = 0
  /\ attempts = 0

----------------------------------------------------------------------------
(* Reading and sending.                                                    *)

Goto(s) == pc' = s

(* Mutant: recv() = 0 is not taken for the end of the stream.              *)
ShutdownNotNoticed(n) == FALSE

(* recv() blocks until n bytes are there; it fails once the client is gone *)
(* and the stream ends before them, and what there was is read by then.    *)
Readable(n)   == Len(inp) >= n
ReadFails(n)  == peer = "gone" /\ Len(inp) < n /\ inp' = <<>>
Take(n)       == inp' = SubSeq(inp, n + 1, Len(inp))
At(i)         == inp[i].byte

(* send() fails when the client is gone, if not at once; over a connection *)
(* known to be broken or shut down for writing it raises SIGPIPE, which    *)
(* nobody handles.                                                         *)
Deliver(m, next, orElse) ==
  \/ /\ writeEnd = "open"
     /\ out' = Append(out, m)
     /\ Goto(next)
  \/ /\ writeEnd = "open" /\ peer = "gone"
     /\ Goto(orElse)
     /\ UNCHANGED out
  \/ /\ writeEnd = "shut" \/ peer = "gone"
     /\ Goto("aborted")
     /\ UNCHANGED out

(* pproto_server_read_msg_type: the hello magic has two bytes, and when    *)
(* the second is not the expected one it is itself taken for a message     *)
(* type.                                                                   *)
TypeLen == IF inp # <<>> /\ At(1) = HelloHi THEN 2 ELSE 1
MsgType ==
  IF At(1) = HelloHi
  THEN IF At(2) = HelloLo THEN "HELLO" ELSE Kind(At(2))
  ELSE Kind(At(1))

(* Mutant: a limited string's length is not read.                          *)
OneByteHead == 2

(* pproto_server_read_str_begin: any type byte but the limited one is      *)
(* taken for an unbound string.                                            *)
StrHeadLen == IF inp # <<>> /\ At(1) = LText THEN 2 + LenSz ELSE 2

(* Reading one byte of a chunk: with the chunk's last byte the length of   *)
(* the next one is read too.                                               *)
CharLen       == IF chunkLeft = 1 THEN 2 ELSE 1
NextChunkLeft == IF chunkLeft = 1 THEN At(2) ELSE chunkLeft - 1

----------------------------------------------------------------------------
(* session_create: lexer_create asserts that the server encoding has a     *)
(* conversion to ASCII, which the unknown encoding has not.                *)
CreateLexer ==
  /\ pc = "create"
  /\ Goto(IF Convertible(ServerEncoding, 1) THEN "hello" ELSE "aborted")
  /\ UNCHANGED <<inp, out, environment, chunkLeft, wr, userId, clientEnc, attempts>>

ReadHelloType ==
  /\ pc = "hello"
  /\ \/ /\ Readable(TypeLen)
        /\ Take(TypeLen)
        /\ Goto(CASE MsgType = "GOODBYE" -> "closed"
                  [] MsgType = "HELLO"   -> "hello_enc"
                  [] OTHER               -> "error")
     \/ /\ ReadFails(TypeLen)
        /\ Goto("error")
  /\ UNCHANGED <<out, environment, chunkLeft, wr, userId, clientEnc, attempts>>

(* Mutant: the encoding is checked and then forgotten.                     *)
ForgetsEncoding(enc) == UNCHANGED clientEnc
StoresEncoding(enc) == clientEnc' = enc

(* The client's encoding must be known, and convertible to the server's    *)
(* and to the UTF-8 of the messages.                                       *)
ReadClientHello ==
  /\ pc = "hello_enc"
  /\ \/ /\ Readable(2)
        /\ Take(2)
        /\ LET enc == 256 * At(1) + At(2) IN
             /\ StoresEncoding(enc)
             /\ Goto(IF Convertible(enc, ServerEncoding) /\ Convertible(enc, 2)
                     THEN "send_hello" ELSE "error")
     \/ /\ ReadFails(2)
        /\ Goto("error")
        /\ UNCHANGED clientEnc
  /\ UNCHANGED <<out, environment, chunkLeft, wr, userId, attempts>>

SendServerHello ==
  /\ pc = "send_hello"
  /\ Deliver("HELLO", "send_request", "error")
  /\ UNCHANGED <<inp, environment, chunkLeft, wr, userId, clientEnc, attempts>>

SendAuthRequest ==
  /\ pc = "send_request"
  /\ Deliver("AUTH_REQUEST", "auth", "error")
  /\ UNCHANGED <<inp, environment, chunkLeft, wr, userId, clientEnc, attempts>>

----------------------------------------------------------------------------
(* The authentication loop.  pproto_server_read_auth answers every failure *)
(* with 1, an i/o error too, and the loop treats 1 as wrong credentials.   *)

ReadAuthType ==
  /\ pc = "auth"
  /\ \/ /\ Readable(TypeLen)
        /\ Take(TypeLen)
        /\ Goto(CASE MsgType = "GOODBYE" -> "closed"
                  [] MsgType = "AUTH"    -> "auth_str"
                  [] OTHER               -> "error")
        /\ attempts' = IF MsgType = "AUTH" THEN attempts + 1 ELSE attempts
     \/ /\ ReadFails(TypeLen)
        /\ Goto("error")
        /\ UNCHANGED attempts
  /\ UNCHANGED <<out, environment, chunkLeft, wr, userId, clientEnc>>

(* Mutant: an empty string is read all the same.                           *)
AlwaysReads(n) == "auth_name"
AfterStrBegin(n) == IF n = 0 THEN "auth_str_end" ELSE "auth_name"

ReadAuthStrBegin ==
  /\ pc = "auth_str"
  /\ \/ /\ Readable(StrHeadLen)
        /\ Take(StrHeadLen)
        /\ chunkLeft' = At(StrHeadLen)
        /\ wr' = 0
        /\ Goto(AfterStrBegin(At(StrHeadLen)))
     \/ /\ ReadFails(StrHeadLen)
        /\ Goto("auth_reject")
        /\ UNCHANGED <<chunkLeft, wr>>
  /\ UNCHANGED <<out, environment, userId, clientEnc, attempts>>

(* One turn of the loop of pproto_server_read_str.  A rejected byte makes  *)
(* it return before the byte is consumed.  The loop ends with the string,  *)
(* or when the next character might not fit into NameSz + MAXCHAR bytes.   *)
ReadAuthName ==
  /\ pc = "auth_name"
  /\ \/ /\ Readable(1)
        /\ ~ ValidChar(At(1))
        /\ Goto("auth_reject")
        /\ UNCHANGED <<inp, chunkLeft, wr>>
     \/ /\ Readable(CharLen)
        /\ ValidChar(At(1))
        /\ Take(CharLen)
        /\ wr' = wr + 1
        /\ chunkLeft' = NextChunkLeft
        /\ Goto(IF NextChunkLeft = 0 \/ wr + 1 > NameSz
                THEN "auth_str_end" ELSE "auth_name")
     \/ /\ ReadFails(CharLen)
        /\ Readable(1) => ValidChar(At(1))
        /\ Goto("auth_reject")
        /\ UNCHANGED <<chunkLeft, wr>>
  /\ UNCHANGED <<out, environment, userId, clientEnc, attempts>>

(* Mutant: a bad name is not answered.                                     *)
NoAnswerToBadName == IF wr > NameSz \/ wr = 0 THEN "auth" ELSE "auth_cred"

(* The check of the name's length, made once the string is finished.       *)
AfterName == IF wr > NameSz \/ wr = 0 THEN "auth_reject" ELSE "auth_cred"

(* pproto_server_read_str_end: an unfinished string is cancelled, then     *)
(* skipped to its end.                                                     *)
ReadAuthStrEnd ==
  /\ pc = "auth_str_end"
  /\ IF chunkLeft = 0
     THEN Goto(AfterName) /\ UNCHANGED out
     ELSE Deliver("CANCEL", "auth_drain", "auth_reject")
  /\ UNCHANGED <<inp, environment, chunkLeft, wr, userId, clientEnc, attempts>>

DrainAuthName ==
  /\ pc = "auth_drain"
  /\ \/ /\ Readable(chunkLeft + 1)
        /\ Take(chunkLeft + 1)
        /\ chunkLeft' = At(chunkLeft + 1)
        /\ Goto(IF At(chunkLeft + 1) = 0 THEN AfterName ELSE "auth_drain")
     \/ /\ ReadFails(chunkLeft + 1)
        /\ Goto("auth_reject")
        /\ UNCHANGED chunkLeft
  /\ UNCHANGED <<out, environment, wr, userId, clientEnc, attempts>>

(* Mutants: the verdict is ignored; wrong credentials are not answered and *)
(* others are waited for.                                                  *)
VerdictIgnored(granted) == "send_ok"
WaitsForOthers(granted) == IF granted THEN "send_ok" ELSE "auth_cred"
AfterVerdict(granted) == IF granted THEN "send_ok" ELSE "auth_reject"

(* The hashed password, then auth_check_credentials.                       *)
ReadCredentials ==
  /\ pc = "auth_cred"
  /\ \/ /\ Readable(CredSz)
        /\ Take(CredSz)
        /\ \E granted \in Verdicts :
             /\ userId' = IF granted THEN 1 ELSE userId
             /\ Goto(AfterVerdict(granted))
     \/ /\ ReadFails(CredSz)
        /\ Goto("auth_reject")
        /\ UNCHANGED userId
  /\ UNCHANGED <<out, environment, chunkLeft, wr, clientEnc, attempts>>

(* Mutant: credentials are asked for again, as dbclient_authenticate        *)
(* expects.                                                                *)
SendAuthFailAndAsk ==
  /\ pc = "auth_reject"
  /\ Deliver("AUTH_FAIL", "send_request", "error")
  /\ UNCHANGED <<inp, environment, chunkLeft, wr, userId, clientEnc, attempts>>

SendAuthFail ==
  /\ pc = "auth_reject"
  /\ Deliver("AUTH_FAIL", "auth", "error")
  /\ UNCHANGED <<inp, environment, chunkLeft, wr, userId, clientEnc, attempts>>

SendAuthOk ==
  /\ pc = "send_ok"
  /\ Deliver("AUTH_OK", "repl", "error")
  /\ UNCHANGED <<inp, environment, chunkLeft, wr, userId, clientEnc, attempts>>

----------------------------------------------------------------------------
(* session_enter_repl and execution_exec_statement.                        *)

ReadRequestType ==
  /\ pc = "repl"
  /\ \/ /\ Readable(TypeLen)
        /\ Take(TypeLen)
        /\ Goto(CASE MsgType = "SQL"     -> "exec_str"
                  [] MsgType = "GOODBYE" -> "send_goodbye"
                  [] OTHER               -> "send_violation")
     \/ /\ ReadFails(TypeLen)
        /\ Goto("error")
  /\ UNCHANGED <<out, environment, chunkLeft, wr, userId, clientEnc, attempts>>

ReadStmtStrBegin ==
  /\ pc = "exec_str"
  /\ \/ /\ Readable(StrHeadLen)
        /\ Take(StrHeadLen)
        /\ chunkLeft' = At(StrHeadLen)
        /\ wr' = 0
        /\ Goto("exec_reset")
     \/ /\ ReadFails(StrHeadLen)
        /\ Goto("error")
        /\ UNCHANGED <<chunkLeft, wr>>
  /\ UNCHANGED <<out, environment, userId, clientEnc, attempts>>

(* pproto_server_read_char, called by the lexer for the first time from    *)
(* lexer_reset and then whenever the parser wants a lexem.  An invalid     *)
(* character ends the parse without a message, unless it is the very last  *)
(* of the text: then the end of the text is reported and the error lost.   *)
ReadStmtChar ==
  /\ pc \in {"exec_reset", "exec"}
  /\ \/ /\ chunkLeft = 0
        /\ pc = "exec_reset"
        /\ Goto("exec")
        /\ UNCHANGED <<inp, chunkLeft, wr>>
     \/ /\ chunkLeft > 0
        /\ Readable(CharLen)
        /\ Take(CharLen)
        /\ chunkLeft' = NextChunkLeft
        /\ wr' = wr + 1
        /\ Goto(IF ValidChar(At(1)) \/ NextChunkLeft = 0 THEN "exec" ELSE "error")
     \/ /\ chunkLeft > 0
        /\ ReadFails(CharLen)
        /\ Goto("error")
        /\ UNCHANGED <<chunkLeft, wr>>
  /\ UNCHANGED <<out, environment, userId, clientEnc, attempts>>

(* parser_parse succeeds only at the end of the text, and never on an      *)
(* empty one; the character that came with the end mark is not parsed.     *)
(* Nothing is sent: execution is a stub that only parses.                  *)
StatementParsed ==
  /\ pc = "exec"
  /\ chunkLeft = 0
  /\ wr > 1
  /\ Goto("repl")
  /\ UNCHANGED <<inp, out, environment, chunkLeft, wr, userId, clientEnc, attempts>>

StatementRejected ==
  /\ pc = "exec"
  /\ Goto("send_syntax")
  /\ UNCHANGED <<inp, out, environment, chunkLeft, wr, userId, clientEnc, attempts>>

(* A parse may also fail with no message: out of memory, a lexer error.    *)
StatementAborted ==
  /\ pc = "exec"
  /\ Goto("error")
  /\ UNCHANGED <<inp, out, environment, chunkLeft, wr, userId, clientEnc, attempts>>

(* pproto_server_send_error: the text alone, without the error magic.      *)
SendSyntaxError ==
  /\ pc = "send_syntax"
  /\ Deliver("ERROR_TEXT", "error", "error")
  /\ UNCHANGED <<inp, environment, chunkLeft, wr, userId, clientEnc, attempts>>

SendViolation ==
  /\ pc = "send_violation"
  /\ Deliver("ERROR_TEXT", "error", "error")
  /\ UNCHANGED <<inp, environment, chunkLeft, wr, userId, clientEnc, attempts>>

SendGoodbye ==
  /\ pc = "send_goodbye"
  /\ Deliver("GOODBYE", "closed", "closed")
  /\ UNCHANGED <<inp, environment, chunkLeft, wr, userId, clientEnc, attempts>>

----------------------------------------------------------------------------
(* The client, as the server sees it.                                      *)

Frame(m) == [i \in 1 .. Len(m) |-> [byte |-> m[i], first |-> i = 1]]

ClientSend(m) ==
  /\ peer = "up"
  /\ nsent < MaxMsgs
  /\ inp' = inp \o Frame(m)
  /\ nsent' = nsent + 1
  /\ UNCHANGED <<pc, out, peer, writeEnd, chunkLeft, wr, userId, clientEnc, attempts>>

(* The client closes, or its connection breaks and what was in flight is   *)
(* lost from some byte on.                                                 *)
ClientGone ==
  /\ peer = "up"
  /\ peer' = "gone"
  /\ \E n \in 0 .. Len(inp) : inp' = SubSeq(inp, 1, n)
  /\ UNCHANGED <<pc, out, writeEnd, chunkLeft, wr, userId, clientEnc, nsent, attempts>>

(* Not the client but the parent: after the fork the listener shuts the    *)
(* connection it shares with the child down for writing (listener.c:89).   *)
ListenerShutdown ==
  /\ writeEnd = "open"
  /\ writeEnd' = "shut"
  /\ UNCHANGED <<pc, inp, out, peer, chunkLeft, wr, userId, clientEnc, nsent, attempts>>

----------------------------------------------------------------------------
Authentication ==
  \/ ReadAuthType \/ ReadAuthStrBegin \/ ReadAuthName \/ ReadAuthStrEnd
  \/ DrainAuthName \/ ReadCredentials \/ SendAuthFail \/ SendAuthOk

Repl ==
  \/ ReadRequestType \/ ReadStmtStrBegin \/ ReadStmtChar \/ StatementParsed
  \/ StatementRejected \/ StatementAborted \/ SendSyntaxError
  \/ SendViolation \/ SendGoodbye

Server ==
  \/ CreateLexer \/ ReadHelloType \/ ReadClientHello \/ SendServerHello
  \/ SendAuthRequest \/ Authentication \/ Repl

Client == ClientGone \/ \E m \in ClientMsgs : ClientSend(m)

Next == Server \/ Client \/ ListenerShutdown

Spec == Init /\ [][Next]_vars

(* The child is a process the kernel schedules; nothing obliges a client   *)
(* to do anything.                                                         *)
FairSpec == Spec /\ WF_vars(Server)
=============================================================================
