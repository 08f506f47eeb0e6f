------------------------------ MODULE DbClient ------------------------------
(***************************************************************************)
(* The client library client/dbclient.c over client/pproto_client.c,       *)
(* talking to the server session of module Session over one connection at  *)
(* a time.  The application calls the library's functions in any order;    *)
(* a call that reads from the server blocks, and `call' says in which read *)
(* it is.  The functions that read a recordset are left out: the server of *)
(* this repository never sends one.                                        *)
(***************************************************************************)
EXTENDS Session, SequencesExt

CONSTANTS
  UserName,     \* the name dbclient_authenticate is called with, as bytes
  Password,     \* its hash, CredSz bytes
  MaxConns,     \* bound on the connections made
  MaxCalls      \* bound on the calls made

ASSUME DbClientAssumption ==
  /\ UserName \in Seq(Byte) /\ Len(UserName) \in Byte   \* one chunk
  /\ Password \in [1 .. CredSz -> Byte]
  /\ MaxConns \in Nat
  /\ MaxCalls \in Nat

----------------------------------------------------------------------------
(* The server's messages as bytes.                                         *)

SrvHelloHi == 25     \* 0x19, high byte of the server hello magic
SrvHelloLo == 133    \* 0x85
AuthReqMagic  == 17  \* 0x11
AuthRespMagic == 51  \* 0x33
Granted == 204       \* 0xCC
Refused == 255       \* 0xFF

Wire(m) ==
  CASE m = "HELLO"        -> <<SrvHelloHi, SrvHelloLo, 0, 1, 0, 1>>
    [] m = "AUTH_REQUEST" -> <<AuthReqMagic>>
    [] m = "AUTH_OK"      -> <<AuthRespMagic, Granted>>
    [] m = "AUTH_FAIL"    -> <<AuthRespMagic, Refused>>
    [] m = "CANCEL"       -> <<CancelMagic>>
    [] m = "ERROR_TEXT"   -> <<UText, 1, 65, 0>>
    [] m = "GOODBYE"      -> <<GoodbyeMagic>>

(* States of the library, by the letters of include/client/dbclient.h.     *)
ClientStates == {"D", "C", "A", "S", "E"}

(* In which read a call waits; "none" between calls, "dead" once the       *)
(* process is gone.                                                        *)
Waiting == {"hello", "version", "auth_request", "auth_responce", "auth_status",
            "stmt_reply", "status"}
Calls == Waiting \cup {"none", "dead"}

VARIABLES
  cs,       \* ss->state
  handle,   \* ss->pproto_client_session: "own" or, never assigned, "wild"
  call,     \* the read the application's call is in
  rbuf,     \* received and not yet consumed, in state->recv_buf
  sbuf,     \* not yet flushed, in state->send_buf
  taken,    \* messages of `out' already received
  conns,    \* connections made
  calls     \* calls made

client == <<cs, handle, call, rbuf, sbuf, taken, conns, calls>>
server == <<pc, out, chunkLeft, wr, userId, clientEnc, nsent, attempts>>
allVars == <<vars, client>>

(* dbclient_allocate_session leaves pproto_client_session as it was.       *)
ClientInit ==
  /\ Init
  /\ cs = "D"
  /\ handle \in {"own", "wild"}
  /\ call = "none"
  /\ rbuf = <<>>
  /\ sbuf = <<>>
  /\ taken = 0
  /\ conns = 0
  /\ calls = 0

----------------------------------------------------------------------------
(* Reading and sending.                                                    *)

ServerGone == pc \in Ended \/ writeEnd = "shut"

Have(n)    == Len(rbuf) >= n
Consume(n) == rbuf' = SubSeq(rbuf, n + 1, Len(rbuf))

(* Mutant: recv() = 0 is not an error.                                     *)
EndNotNoticed(n) == FALSE

(* The stream ends; what the server sent may be lost when it left input    *)
(* of the client unread.                                                   *)
StreamEnds(n) ==
  /\ ~ Have(n)
  /\ ServerGone
  /\ taken = Len(out) \/ inp # <<>>
  /\ rbuf' = <<>>

(* pproto_client_read_msg_type, with the two bytes of a hello.             *)
ReplyLen  == IF rbuf # <<>> /\ rbuf[1] = SrvHelloHi THEN 2 ELSE 1
ReplyByte == rbuf[ReplyLen]
IsHello   == ReplyLen = 2 /\ ReplyByte = SrvHelloLo

Need ==
  CASE call = "version"     -> 4
    [] call = "auth_status" -> 1
    [] OTHER                -> ReplyLen

(* pproto_client_flush_send of b behind what is buffered.  A connection    *)
(* the server has left lets the bytes vanish, reports an error or kills    *)
(* the process with SIGPIPE; on an error the buffer keeps its bytes.       *)
Flush(b) ==
  /\ inp' = IF pc \in Ended THEN inp ELSE inp \o Frame(sbuf \o b)
  /\ sbuf' = <<>>

FlushFails(b) ==
  /\ pc \in Ended
  /\ sbuf' = sbuf \o b
  /\ UNCHANGED inp

(* dbclient_close_connection.                                              *)
Close ==
  /\ cs' = "D"
  /\ peer' = "gone"

Return == call' = "none"
Await(c) == call' = c

(* The process ends, of its own, by a signal or by an assertion; the       *)
(* kernel closes its socket.                                               *)
Die ==
  /\ call' = "dead"
  /\ peer' = "gone"
  /\ UNCHANGED cs

KilledBySend ==
  /\ pc \in Ended
  /\ Die
  /\ UNCHANGED <<inp, sbuf>>

Calling(states) ==
  /\ call = "none"
  /\ cs \in states
  /\ calls < MaxCalls
  /\ calls' = calls + 1

----------------------------------------------------------------------------
(* dbclient_connect.  A new connection has a new server child; the         *)
(* buffers of the client are those of the old one.                         *)

NewChild(bytes) ==
  /\ pc' = "create"
  /\ inp' = Frame(bytes)
  /\ out' = <<>>
  /\ peer' = "up"
  /\ writeEnd' = "open"
  /\ chunkLeft' = 0
  /\ wr' = 0
  /\ userId' = 0
  /\ clientEnc' = 0
  /\ attempts' = 0
  /\ UNCHANGED nsent

HelloBytes == <<HelloHi, HelloLo, 0, 1>>

Connect ==
  /\ Calling({"D"})
  /\ handle = "own"
  /\ conns < MaxConns
  /\ conns' = conns + 1
  /\ NewChild(sbuf \o HelloBytes)
  /\ sbuf' = <<>>
  /\ taken' = 0
  /\ Await("hello")
  /\ UNCHANGED <<cs, handle, rbuf>>

(* The hello cannot be sent: the listener could not fork, or the child is  *)
(* already gone.  The buffer keeps it.                                     *)
ConnectFails ==
  /\ Calling({"D"})
  /\ handle = "own"
  /\ conns < MaxConns
  /\ conns' = conns + 1
  /\ sbuf' = sbuf \o HelloBytes
  /\ UNCHANGED <<server, inp, peer, writeEnd, cs, handle, call, rbuf, taken>>

(* Without a session of its own pproto_client_set_sock writes through a    *)
(* pointer that was never set.                                             *)
ConnectWild ==
  /\ Calling({"D"})
  /\ handle = "wild"
  /\ Die
  /\ UNCHANGED <<server, inp, writeEnd, handle, rbuf, sbuf, taken, conns>>

(* Any other message is consumed with its type and ends the connection.    *)
ReadServerHello ==
  /\ call = "hello"
  /\ \/ /\ Have(ReplyLen) /\ IsHello
        /\ Consume(2)
        /\ Await("version")
        /\ UNCHANGED <<cs, peer>>
     \/ /\ Have(ReplyLen) /\ ~ IsHello
        /\ Consume(ReplyLen)
        /\ Close /\ Return
     \/ /\ StreamEnds(ReplyLen)
        /\ Close /\ Return
  /\ UNCHANGED <<server, inp, writeEnd, handle, sbuf, taken, conns, calls>>

ReadVersion ==
  /\ call = "version"
  /\ Return
  /\ \/ /\ Have(4)
        /\ Consume(4)
        /\ IF rbuf[1] = 0 /\ rbuf[2] = 1
           THEN cs' = "C" /\ UNCHANGED peer
           ELSE Close
     \/ /\ StreamEnds(4)
        /\ Close
  /\ UNCHANGED <<server, inp, writeEnd, handle, sbuf, taken, conns, calls>>

----------------------------------------------------------------------------
(* dbclient_authenticate.  Every error leaves the session connected.       *)

(* pproto_client_send_string: a limited string of one chunk.               *)
AuthBytes ==
  <<AuthMagic, LText>> \o [i \in 1 .. LenSz |-> IF i = LenSz THEN Len(UserName) ELSE 0]
    \o <<Len(UserName)>> \o UserName \o <<0>> \o Password

(* Mutant: the credentials are sent without waiting for the request.       *)
AuthenticateAtOnce ==
  /\ Calling({"C"})
  /\ Flush(AuthBytes)
  /\ Await("auth_responce")
  /\ UNCHANGED <<server, peer, writeEnd, cs, handle, rbuf, taken, conns>>

Authenticate ==
  /\ Calling({"C"})
  /\ Await("auth_request")
  /\ UNCHANGED <<server, inp, peer, writeEnd, cs, handle, rbuf, sbuf, taken, conns>>

ReadAuthRequest ==
  /\ call = "auth_request"
  /\ \/ /\ Have(ReplyLen) /\ ReplyByte = AuthReqMagic
        /\ Consume(ReplyLen)
        /\ \/ Flush(AuthBytes) /\ Await("auth_responce") /\ UNCHANGED <<cs, peer>>
           \/ FlushFails(AuthBytes) /\ Return /\ UNCHANGED <<cs, peer>>
           \/ KilledBySend
     \/ /\ Have(ReplyLen) /\ ReplyByte # AuthReqMagic
        /\ Consume(ReplyLen)
        /\ Return
        /\ UNCHANGED <<cs, inp, peer, sbuf>>
     \/ /\ StreamEnds(ReplyLen)
        /\ Return
        /\ UNCHANGED <<cs, inp, peer, sbuf>>
  /\ UNCHANGED <<server, writeEnd, handle, taken, conns, calls>>

ReadAuthResponce ==
  /\ call = "auth_responce"
  /\ \/ /\ Have(ReplyLen)
        /\ Consume(ReplyLen)
        /\ call' = IF ReplyByte = AuthRespMagic THEN "auth_status" ELSE "none"
     \/ /\ StreamEnds(ReplyLen)
        /\ Return
  /\ UNCHANGED <<server, inp, peer, writeEnd, cs, handle, sbuf, taken, conns, calls>>

(* Mutant: the status is read but not looked at.                           *)
AnyAnswer(b) == TRUE
IsGranted(b) == b = Granted

ReadAuthStatus ==
  /\ call = "auth_status"
  /\ Return
  /\ \/ /\ Have(1)
        /\ Consume(1)
        /\ cs' = IF IsGranted(rbuf[1]) THEN "A" ELSE cs
     \/ /\ StreamEnds(1)
        /\ UNCHANGED cs
  /\ UNCHANGED <<server, inp, peer, writeEnd, handle, sbuf, taken, conns, calls>>

----------------------------------------------------------------------------
(* Statements.  Nothing of a statement leaves the buffer before its end.   *)

BeginStatement ==
  /\ Calling({"C"})
  /\ sbuf' = sbuf \o <<SqlMagic, UText>>
  /\ cs' = "S"
  /\ UNCHANGED <<server, inp, peer, writeEnd, handle, call, rbuf, taken, conns>>

(* dbclient_statement polls first: anything to read, the end of the stream *)
(* too, is taken for a reply that ends the connection.                     *)
SomethingToRead == rbuf # <<>> \/ taken < Len(out) \/ ServerGone

Statement ==
  /\ Calling({"S"})
  /\ \/ /\ ~ SomethingToRead
        /\ sbuf' = sbuf \o <<1, 65>>
        /\ UNCHANGED call
     \/ /\ SomethingToRead
        /\ Await("stmt_reply")
        /\ UNCHANGED sbuf
  /\ UNCHANGED <<server, inp, peer, writeEnd, cs, handle, rbuf, taken, conns>>

ReadStatementReply ==
  /\ call = "stmt_reply"
  /\ Return
  /\ Close
  /\ \/ Have(ReplyLen) /\ Consume(ReplyLen)
     \/ StreamEnds(ReplyLen)
  /\ UNCHANGED <<server, inp, writeEnd, handle, sbuf, taken, conns, calls>>

FinishStatement ==
  /\ Calling({"C"})
  /\ \/ Flush(<<0>>) /\ cs' = "E" /\ UNCHANGED <<peer, call>>
     \/ FlushFails(<<0>>) /\ UNCHANGED <<cs, peer, call>>
     \/ KilledBySend
  /\ UNCHANGED <<server, writeEnd, handle, rbuf, taken, conns>>

ExecutionStatus ==
  /\ Calling({"E"})
  /\ Await("status")
  /\ UNCHANGED <<server, inp, peer, writeEnd, cs, handle, rbuf, sbuf, taken, conns>>

(* Whatever comes, the state stays: it says only what is returned.         *)
ReadStatus ==
  /\ call = "status"
  /\ Return
  /\ \/ Have(ReplyLen) /\ Consume(ReplyLen)
     \/ StreamEnds(ReplyLen)
  /\ UNCHANGED <<server, inp, peer, writeEnd, cs, handle, sbuf, taken, conns, calls>>

CancelStatement ==
  /\ Calling({"S", "E"})
  /\ \/ Flush(<<CancelMagic>>) /\ cs' = "A" /\ UNCHANGED <<peer, call>>
     \/ FlushFails(<<CancelMagic>>) /\ UNCHANGED <<cs, peer, call>>
     \/ KilledBySend
  /\ UNCHANGED <<server, writeEnd, handle, rbuf, taken, conns>>

(* dbclient_close_session: an error in saying goodbye stops it unless the  *)
(* application forces it.                                                  *)
CloseSession ==
  /\ Calling(ClientStates \ {"D"})
  /\ \/ Flush(<<GoodbyeMagic>>) /\ Close /\ UNCHANGED call
     \/ FlushFails(<<GoodbyeMagic>>) /\ Close /\ UNCHANGED call
     \/ FlushFails(<<GoodbyeMagic>>) /\ UNCHANGED <<cs, peer, call>>
     \/ KilledBySend
  /\ UNCHANGED <<server, writeEnd, handle, rbuf, taken, conns>>

----------------------------------------------------------------------------
(* recv() brings some of what the server sent, when the buffer has not     *)
(* what the pending read needs.  Messages come whole: a call that has a    *)
(* part of one goes on waiting, and nothing else reads it (what a buffer   *)
(* does with a part is module RecvBuffer's).                               *)
Receive ==
  /\ call \in Waiting
  /\ ~ Have(Need)
  /\ \E k \in taken + 1 .. Len(out) :
       /\ rbuf' = rbuf \o FlattenSeq([i \in 1 .. k - taken |-> Wire(out[taken + i])])
       /\ taken' = k
  /\ UNCHANGED <<server, inp, peer, writeEnd, cs, handle, call, sbuf, conns, calls>>

Exit ==
  /\ call # "dead"
  /\ Die
  /\ UNCHANGED <<server, inp, writeEnd, handle, rbuf, sbuf, taken, conns, calls>>

Reading ==
  \/ ReadServerHello \/ ReadVersion \/ ReadAuthRequest \/ ReadAuthResponce
  \/ ReadAuthStatus \/ ReadStatementReply \/ ReadStatus \/ Receive

Application ==
  \/ Connect \/ ConnectFails \/ ConnectWild \/ Authenticate \/ BeginStatement
  \/ Statement \/ FinishStatement \/ ExecutionStatus \/ CancelStatement \/ CloseSession
  \/ Exit

ServerChild == conns > 0 /\ Server /\ UNCHANGED client
Parent      == conns > 0 /\ ListenerShutdown /\ UNCHANGED client

ClientNext == Application \/ Reading \/ ServerChild \/ Parent

ClientSpec == ClientInit /\ [][ClientNext]_allVars

(* The child and a call that can go on are scheduled; the application is   *)
(* under no obligation to call anything, nor to end.                       *)
ClientFairSpec ==
  ClientSpec /\ WF_allVars(ServerChild) /\ WF_allVars(Reading)
=============================================================================
