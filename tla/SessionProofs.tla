--------------------------- MODULE SessionProofs ---------------------------
(***************************************************************************)
(* Server sessions of any sizes and with any client: the types; nothing is *)
(* executed before the credentials were accepted; the dialogue is in       *)
(* order; each attempt to authenticate is answered once; and the session   *)
(* moves as the automaton drawn in session.c does.  With a client whose    *)
(* messages are formed as the protocol has them and whose names fit, the   *)
(* server keeps in step with the stream, wherever the connection breaks.   *)
(* And the client library and the session together, for every user name    *)
(* and password, any number of connections and calls: the handshake, the   *)
(* credentials and the success of an authentication are matters of the     *)
(* connection there is now, whatever an earlier one left in the buffers.   *)
(***************************************************************************)
EXTENDS SessionProps, SessionClients, DbClientProps, SequenceLemmas, SequenceTheorems,
        FiniteSetTheorems, TLAPS

----------------------------------------------------------------------------
(* Facts about the stream of bytes.                                        *)

(* Reading the first n bytes leaves a stream.                              *)
LEMMA TakeKeepsStream ==
  ASSUME inp \in Seq(StreamByte), NEW n \in Nat, Readable(n), Take(n)
  PROVE  inp' \in Seq(StreamByte)
<1>1. n + 1 \in 1 .. Len(inp) + 1
  BY DEF Readable
<1>2. \A i \in n + 1 .. Len(inp) : inp[i] \in StreamByte
  OBVIOUS
<1>3. SubSeq(inp, n + 1, Len(inp)) \in Seq(StreamByte)
  BY <1>1, SubSeqProperties
<1> QED BY <1>3 DEF Take

(* A byte of the stream is a byte.                                         *)
LEMMA AtIsByte ==
  ASSUME inp \in Seq(StreamByte), NEW i \in 1 .. Len(inp)
  PROVE  At(i) \in Byte
<1>1. inp[i] \in StreamByte
  OBVIOUS
<1> QED BY <1>1 DEF At, StreamByte

(* Two bytes make a number of sixteen bits.                                *)
LEMMA TwoBytes ==
  ASSUME NEW a \in Byte, NEW b \in Byte
  PROVE  256 * a + b \in Uint16
<1>1. MaxUint16 = 65535
  BY DEF MaxUint16
<1>2. a \in Int /\ b \in Int /\ 0 <= a /\ a <= 255 /\ 0 <= b /\ b <= 255
  BY DEF Byte
<1>3. 256 * a + b \in Int
  BY <1>2
<1>4. 0 <= 256 * a + b
  BY <1>2
<1>5. 256 * a + b <= 65535
  BY <1>2
<1> DEFINE n == 256 * a + b
<1>6. n \in Int /\ 0 <= n /\ n <= MaxUint16
  BY <1>1, <1>3, <1>4, <1>5
<1> HIDE DEF n
<1>7. n \in Uint16
  BY <1>6, Z3 DEF Uint16
<1> QED BY <1>7 DEF n

(* A read that fails leaves the stream empty.                              *)
LEMMA FailLeavesStream ==
  ASSUME NEW n, ReadFails(n)
  PROVE  inp' \in Seq(StreamByte)
  BY DEF ReadFails

(* What the heads of messages and strings are long.                        *)
LEMMA Lengths ==
  ASSUME TypeOK
  PROVE  /\ TypeLen \in {1, 2}
         /\ StrHeadLen \in Nat /\ StrHeadLen >= 2
         /\ CharLen \in {1, 2}
  BY SessionAssumption DEF SessionAssumption, TypeLen, StrHeadLen, CharLen

(* Sending keeps to the messages of the server and to the next states.     *)
LEMMA DeliverKeepsType ==
  ASSUME out \in Seq(ServerMsg), NEW m \in ServerMsg,
         NEW next \in States, NEW orElse \in States, Deliver(m, next, orElse)
  PROVE  /\ out' \in Seq(ServerMsg)
         /\ pc' \in States
         /\ pc' \in {next, orElse, "aborted"}
         /\ pc' = next => out' = Append(out, m) \/ next \in {orElse, "aborted"}
         /\ out' = out \/ out' = Append(out, m)
  BY DEF Deliver, Goto, States, Ended, AuthStates, ExecStates

(* A client's message as bytes of the stream.                              *)
LEMMA FrameIsStream ==
  ASSUME NEW m \in Seq(Byte)
  PROVE  Frame(m) \in Seq(StreamByte)
<1>1. \A i \in 1 .. Len(m) : [byte |-> m[i], first |-> i = 1] \in StreamByte
  BY DEF StreamByte
<1>2. Frame(m) \in [1 .. Len(m) -> StreamByte]
  BY <1>1 DEF Frame
<1> QED BY <1>2

----------------------------------------------------------------------------
(* Type correctness.  That a chunk's length stays a byte needs to know that *)
(* a string is never read on with its terminator already read.             *)

InsideString == pc \in {"auth_name", "auth_drain"} => chunkLeft > 0

TypeInv == TypeOK /\ InsideString

(* The initial states are well typed.                                      *)
LEMMA TypeInit == Init => TypeInv
<1> SUFFICES ASSUME Init PROVE TypeInv
  OBVIOUS
<1>1. inp \in Seq(StreamByte) /\ out \in Seq(ServerMsg)
  BY DEF Init
<1> QED BY <1>1 DEF Init, TypeInv, TypeOK, InsideString, States, Byte, Uint16,
        MaxUint16

(* The length of the next chunk is a byte, and of the string's last one 0. *)
LEMMA NextChunkIsByte ==
  ASSUME TypeOK, chunkLeft > 0, Readable(CharLen)
  PROVE  NextChunkLeft \in Byte
<1>1. chunkLeft # 1 => chunkLeft - 1 \in Byte
  BY DEF TypeOK, Byte
<1>2. chunkLeft = 1 => At(2) \in Byte
  BY AtIsByte DEF Readable, CharLen, TypeOK
<1> QED BY <1>1, <1>2 DEF NextChunkLeft

(* The states, one by one.                                                 *)
LEMMA StateNames ==
  /\ "create" \in States /\ "hello" \in States /\ "hello_enc" \in States
  /\ "send_hello" \in States /\ "send_request" \in States
  /\ "send_ok" \in States /\ "repl" \in States /\ "send_goodbye" \in States
  /\ "send_violation" \in States /\ "send_syntax" \in States
  /\ "auth" \in States /\ "auth_str" \in States /\ "auth_name" \in States
  /\ "auth_str_end" \in States /\ "auth_drain" \in States
  /\ "auth_cred" \in States /\ "auth_reject" \in States
  /\ "exec_str" \in States /\ "exec_reset" \in States /\ "exec" \in States
  /\ "closed" \in States /\ "error" \in States /\ "aborted" \in States
  BY DEF States, AuthStates, ExecStates, Ended

(* A read of n bytes, successful or not, leaves a stream.                  *)
LEMMA ReadKeepsStream ==
  ASSUME TypeInv, NEW n \in Nat, (Readable(n) /\ Take(n)) \/ ReadFails(n)
  PROVE  inp' \in Seq(StreamByte)
<1>1. inp \in Seq(StreamByte)
  BY DEF TypeInv, TypeOK
<1> QED BY <1>1, TakeKeepsStream, FailLeavesStream

(* What a step of the child has to keep, the environment being unchanged.  *)
LEMMA ChildKeepsTypes ==
  ASSUME TypeInv, UNCHANGED environment,
         pc' \in States, inp' \in Seq(StreamByte), out' \in Seq(ServerMsg),
         chunkLeft' \in Byte, wr' \in Nat, userId' \in {0, 1},
         clientEnc' \in Uint16, attempts' \in Nat, InsideString'
  PROVE  TypeInv'
<1>1. /\ peer' \in {"up", "gone"} /\ writeEnd' \in {"open", "shut"}
      /\ nsent' \in Nat
  BY DEF TypeInv, TypeOK, environment
<1> QED BY <1>1 DEF TypeInv, TypeOK

(* A step of the child that only reads, or only sends, and moves outside   *)
(* of strings.                                                             *)
LEMMA PlainStepKeepsTypes ==
  ASSUME TypeInv, UNCHANGED <<environment, chunkLeft, wr, userId>>,
         clientEnc' \in Uint16, attempts' \in Nat,
         inp' \in Seq(StreamByte), out' \in Seq(ServerMsg), pc' \in States,
         pc' \notin {"auth_name", "auth_drain"}
  PROVE  TypeInv'
<1>1. chunkLeft' \in Byte /\ wr' \in Nat /\ userId' \in {0, 1}
  BY DEF TypeInv, TypeOK
<1>2. InsideString'
  BY DEF InsideString
<1>3. UNCHANGED environment
  OBVIOUS
<1> QED BY <1>1, <1>2, <1>3, ChildKeepsTypes

(* A step of the child that sends m.                                       *)
LEMMA SendingKeepsTypes ==
  ASSUME TypeInv, NEW m \in ServerMsg, NEW next \in States, NEW orElse \in States,
         {next, orElse} \cap {"auth_name", "auth_drain"} = {},
         Deliver(m, next, orElse),
         UNCHANGED <<inp, environment, chunkLeft, wr, userId, clientEnc, attempts>>
  PROVE  TypeInv'
<1>1. /\ out \in Seq(ServerMsg) /\ inp' \in Seq(StreamByte)
      /\ clientEnc' \in Uint16 /\ attempts' \in Nat
  BY DEF TypeInv, TypeOK
<1>2. out' \in Seq(ServerMsg) /\ pc' \in States /\ pc' \in {next, orElse, "aborted"}
  BY <1>1, DeliverKeepsType
<1>3. pc' \notin {"auth_name", "auth_drain"}
  BY <1>2
<1>4. UNCHANGED <<environment, chunkLeft, wr, userId>>
  OBVIOUS
<1> QED BY <1>1, <1>2, <1>3, <1>4, PlainStepKeepsTypes

----------------------------------------------------------------------------
(* One lemma per action that reads; the sending ones are alike.            *)

(* The lexer is created or the assertion fails.                            *)
LEMMA CreateLexerTypes == TypeInv /\ CreateLexer => TypeInv'
<1> SUFFICES ASSUME TypeInv, CreateLexer PROVE TypeInv'
  OBVIOUS
<1>1. TypeOK
  BY DEF TypeInv
<1>3. UNCHANGED <<environment, inp, out, chunkLeft, wr, userId, clientEnc, attempts>>
  BY DEF CreateLexer
<1>4. pc' \in {"hello", "aborted"}
  BY DEF CreateLexer, Goto
<1>5. inp' \in Seq(StreamByte) /\ out' \in Seq(ServerMsg) /\ chunkLeft' \in Byte /\ wr' \in Nat /\ userId' \in {0, 1} /\ clientEnc' \in Uint16 /\ attempts' \in Nat
  BY <1>1, <1>3 DEF TypeOK
<1>6. pc' \in States /\ InsideString'
  BY <1>4, StateNames DEF InsideString
<1> QED BY <1>3, <1>5, <1>6, ChildKeepsTypes

(* The type of the first message.                                          *)
LEMMA ReadHelloTypeTypes == TypeInv /\ ReadHelloType => TypeInv'
<1> SUFFICES ASSUME TypeInv, ReadHelloType PROVE TypeInv'
  OBVIOUS
<1>1. TypeOK
  BY DEF TypeInv
<1>2. inp' \in Seq(StreamByte)
  <2>1. (Readable(TypeLen) /\ Take(TypeLen)) \/ ReadFails(TypeLen)
    BY DEF ReadHelloType
  <2>2. TypeLen \in Nat
    BY <1>1, Lengths
  <2> QED BY <2>1, <2>2, ReadKeepsStream
<1>3. UNCHANGED <<environment, out, chunkLeft, wr, userId, clientEnc, attempts>>
  BY DEF ReadHelloType
<1>4. pc' \in {"closed", "hello_enc", "error"}
  BY DEF ReadHelloType, Goto
<1>5. out' \in Seq(ServerMsg) /\ chunkLeft' \in Byte /\ wr' \in Nat /\ userId' \in {0, 1} /\ clientEnc' \in Uint16 /\ attempts' \in Nat
  BY <1>1, <1>3 DEF TypeOK
<1>6. pc' \in States /\ InsideString'
  BY <1>4, StateNames DEF InsideString
<1> QED BY <1>2, <1>3, <1>5, <1>6, ChildKeepsTypes

(* Two bytes make an encoding.                                             *)
LEMMA ReadClientHelloTypes == TypeInv /\ ReadClientHello => TypeInv'
<1> SUFFICES ASSUME TypeInv, ReadClientHello PROVE TypeInv'
  OBVIOUS
<1>1. TypeOK
  BY DEF TypeInv
<1>2. inp' \in Seq(StreamByte)
  <2>1. (Readable(2) /\ Take(2)) \/ ReadFails(2)
    BY DEF ReadClientHello
  <2> QED BY <2>1, ReadKeepsStream
<1>3. UNCHANGED <<environment, out, chunkLeft, wr, userId, attempts>>
  BY DEF ReadClientHello
<1>4. pc' \in {"send_hello", "error"}
  BY DEF ReadClientHello, Goto
<1>5. out' \in Seq(ServerMsg) /\ chunkLeft' \in Byte /\ wr' \in Nat /\ userId' \in {0, 1} /\ attempts' \in Nat
  BY <1>1, <1>3 DEF TypeOK
<1>6. clientEnc' \in Uint16
  <2>1. ASSUME Readable(2)
        PROVE  256 * At(1) + At(2) \in Uint16
    <3>1. At(1) \in Byte /\ At(2) \in Byte
      BY <1>1, <2>1, AtIsByte DEF Readable, TypeOK
    <3> QED BY <3>1, TwoBytes
  <2>2. \/ Readable(2) /\ clientEnc' = 256 * At(1) + At(2)
        \/ clientEnc' = clientEnc
    BY DEF ReadClientHello, StoresEncoding
  <2> QED BY <1>1, <2>1, <2>2 DEF TypeOK
<1>7. pc' \in States /\ InsideString'
  BY <1>4, StateNames DEF InsideString
<1> QED BY <1>2, <1>3, <1>5, <1>6, <1>7, ChildKeepsTypes

(* The type of a message that should be an authentication.                 *)
LEMMA ReadAuthTypeTypes == TypeInv /\ ReadAuthType => TypeInv'
<1> SUFFICES ASSUME TypeInv, ReadAuthType PROVE TypeInv'
  OBVIOUS
<1>1. TypeOK
  BY DEF TypeInv
<1>2. inp' \in Seq(StreamByte)
  <2>1. (Readable(TypeLen) /\ Take(TypeLen)) \/ ReadFails(TypeLen)
    BY DEF ReadAuthType
  <2>2. TypeLen \in Nat
    BY <1>1, Lengths
  <2> QED BY <2>1, <2>2, ReadKeepsStream
<1>3. UNCHANGED <<environment, out, chunkLeft, wr, userId, clientEnc>>
  BY DEF ReadAuthType
<1>4. pc' \in {"closed", "auth_str", "error"}
  BY DEF ReadAuthType, Goto
<1>5. out' \in Seq(ServerMsg) /\ chunkLeft' \in Byte /\ wr' \in Nat /\ userId' \in {0, 1} /\ clientEnc' \in Uint16
  BY <1>1, <1>3 DEF TypeOK
<1>6. attempts' \in Nat
  <2>1. attempts' \in {attempts, attempts + 1}
    BY DEF ReadAuthType
  <2> QED BY <1>1, <2>1 DEF TypeOK
<1>7. pc' \in States /\ InsideString'
  BY <1>4, StateNames DEF InsideString
<1> QED BY <1>2, <1>3, <1>5, <1>6, <1>7, ChildKeepsTypes

(* The head of the user name.                                              *)
LEMMA ReadAuthStrBeginTypes == TypeInv /\ ReadAuthStrBegin => TypeInv'
<1> SUFFICES ASSUME TypeInv, ReadAuthStrBegin PROVE TypeInv'
  OBVIOUS
<1>1. TypeOK
  BY DEF TypeInv
<1>2. inp' \in Seq(StreamByte)
  <2>1. (Readable(StrHeadLen) /\ Take(StrHeadLen)) \/ ReadFails(StrHeadLen)
    BY DEF ReadAuthStrBegin
  <2>2. StrHeadLen \in Nat
    BY <1>1, Lengths
  <2> QED BY <2>1, <2>2, ReadKeepsStream
<1>3. UNCHANGED <<environment, out, userId, clientEnc, attempts>>
  BY DEF ReadAuthStrBegin
<1>4. pc' \in {"auth_str_end", "auth_name", "auth_reject"}
  BY DEF ReadAuthStrBegin, Goto, AfterStrBegin
<1>5. out' \in Seq(ServerMsg) /\ userId' \in {0, 1} /\ clientEnc' \in Uint16 /\ attempts' \in Nat
  BY <1>1, <1>3 DEF TypeOK
<1>6. /\ chunkLeft' \in Byte /\ wr' \in Nat
      /\ InsideString'
  <2>1. CASE /\ Readable(StrHeadLen)
             /\ chunkLeft' = At(StrHeadLen) /\ wr' = 0
             /\ pc' = AfterStrBegin(At(StrHeadLen))
    <3>1. At(StrHeadLen) \in Byte
      BY <1>1, <2>1, Lengths, AtIsByte DEF Readable, TypeOK
    <3>2. pc' = "auth_name" => At(StrHeadLen) # 0
      BY <2>1 DEF AfterStrBegin
    <3>3. pc' # "auth_drain"
      BY <1>4
    <3> QED BY <2>1, <3>1, <3>2, <3>3 DEF InsideString, Byte
  <2>2. CASE chunkLeft' = chunkLeft /\ wr' = wr /\ pc' = "auth_reject"
    BY <1>1, <2>2 DEF InsideString, TypeOK
  <2> QED BY <2>1, <2>2 DEF ReadAuthStrBegin, Goto
<1>7. pc' \in States
  BY <1>4, StateNames
<1> QED BY <1>2, <1>3, <1>5, <1>6, <1>7, ChildKeepsTypes

(* One character of the user name.                                         *)
LEMMA ReadAuthNameTypes == TypeInv /\ ReadAuthName => TypeInv'
<1> SUFFICES ASSUME TypeInv, ReadAuthName PROVE TypeInv'
  OBVIOUS
<1>1. TypeOK /\ chunkLeft > 0
  BY DEF TypeInv, InsideString, ReadAuthName
<1>2. UNCHANGED <<environment, out, userId, clientEnc, attempts>>
  BY DEF ReadAuthName
<1>3. /\ out' \in Seq(ServerMsg) /\ userId' \in {0, 1}
      /\ clientEnc' \in Uint16 /\ attempts' \in Nat
  BY <1>1, <1>2 DEF TypeOK
<1>4. CASE pc' = "auth_reject" /\ UNCHANGED <<inp, chunkLeft, wr>>
  <2>1. /\ inp' \in Seq(StreamByte) /\ chunkLeft' \in Byte /\ wr' \in Nat
        /\ pc' \in States /\ InsideString'
    BY <1>1, <1>4, StateNames DEF TypeOK, InsideString
  <2> QED BY <1>2, <1>3, <2>1, ChildKeepsTypes
<1>5. CASE /\ Readable(CharLen) /\ Take(CharLen)
           /\ wr' = wr + 1 /\ chunkLeft' = NextChunkLeft
           /\ pc' = IF NextChunkLeft = 0 \/ wr + 1 > NameSz
                   THEN "auth_str_end" ELSE "auth_name"
  <2>1. inp' \in Seq(StreamByte)
    BY <1>1, <1>5, Lengths, ReadKeepsStream
  <2>2. chunkLeft' \in Byte /\ wr' \in Nat
    BY <1>1, <1>5, NextChunkIsByte DEF TypeOK
  <2>3. pc' \in {"auth_str_end", "auth_name"} /\ (pc' = "auth_name" => chunkLeft' # 0)
    BY <1>5
  <2>4. pc' \in States /\ InsideString'
    BY <2>2, <2>3, StateNames DEF InsideString, Byte
  <2> QED BY <1>2, <1>3, <2>1, <2>2, <2>4, ChildKeepsTypes
<1>6. CASE ReadFails(CharLen) /\ pc' = "auth_reject" /\ UNCHANGED <<chunkLeft, wr>>
  <2>1. inp' \in Seq(StreamByte)
    BY <1>6, FailLeavesStream
  <2>2. /\ chunkLeft' \in Byte /\ wr' \in Nat
        /\ pc' \in States /\ InsideString'
    BY <1>1, <1>6, StateNames DEF TypeOK, InsideString
  <2> QED BY <1>2, <1>3, <2>1, <2>2, ChildKeepsTypes
<1> QED BY <1>4, <1>5, <1>6 DEF ReadAuthName, Goto

(* The end of the user name.                                               *)
LEMMA ReadAuthStrEndTypes == TypeInv /\ ReadAuthStrEnd => TypeInv'
<1> SUFFICES ASSUME TypeInv, ReadAuthStrEnd PROVE TypeInv'
  OBVIOUS
<1>1. TypeOK
  BY DEF TypeInv
<1>2. UNCHANGED <<inp, environment, chunkLeft, wr, userId, clientEnc, attempts>>
  BY DEF ReadAuthStrEnd
<1>3. /\ inp' \in Seq(StreamByte) /\ chunkLeft' \in Byte /\ wr' \in Nat
      /\ userId' \in {0, 1} /\ clientEnc' \in Uint16 /\ attempts' \in Nat
  BY <1>1, <1>2 DEF TypeOK
<1>4. CASE chunkLeft = 0
  <2>1. pc' \in {"auth_reject", "auth_cred"} /\ out' = out
    BY <1>4 DEF ReadAuthStrEnd, AfterName, Goto
  <2>2. pc' \in States /\ InsideString' /\ out' \in Seq(ServerMsg)
    BY <1>1, <2>1, StateNames DEF InsideString, TypeOK
  <2> QED BY <1>2, <1>3, <2>2, ChildKeepsTypes
<1>5. CASE chunkLeft # 0
  <2>1. Deliver("CANCEL", "auth_drain", "auth_reject")
    BY <1>5 DEF ReadAuthStrEnd
  <2>2. out' \in Seq(ServerMsg) /\ pc' \in States
    BY <1>1, <2>1, StateNames, DeliverKeepsType DEF TypeOK, ServerMsg
  <2>3. chunkLeft' > 0
    BY <1>1, <1>2, <1>5 DEF TypeOK, Byte
  <2>4. InsideString'
    BY <2>3 DEF InsideString
  <2> QED BY <1>2, <1>3, <2>2, <2>4, ChildKeepsTypes
<1> QED BY <1>4, <1>5

(* A chunk of a name that is too long.                                     *)
LEMMA DrainAuthNameTypes == TypeInv /\ DrainAuthName => TypeInv'
<1> SUFFICES ASSUME TypeInv, DrainAuthName PROVE TypeInv'
  OBVIOUS
<1>1. TypeOK /\ chunkLeft + 1 \in Nat
  BY DEF TypeInv, TypeOK, Byte
<1>2. inp' \in Seq(StreamByte)
  <2>1. (Readable(chunkLeft + 1) /\ Take(chunkLeft + 1)) \/ ReadFails(chunkLeft + 1)
    BY DEF DrainAuthName
  <2> QED BY <1>1, <2>1, ReadKeepsStream
<1>3. UNCHANGED <<environment, out, wr, userId, clientEnc, attempts>>
  BY DEF DrainAuthName
<1>4. /\ out' \in Seq(ServerMsg) /\ wr' \in Nat /\ userId' \in {0, 1}
      /\ clientEnc' \in Uint16 /\ attempts' \in Nat
  BY <1>1, <1>3 DEF TypeOK
<1>5. CASE /\ Readable(chunkLeft + 1)
           /\ chunkLeft' = At(chunkLeft + 1)
           /\ pc' = IF At(chunkLeft + 1) = 0 THEN AfterName ELSE "auth_drain"
  <2>1. chunkLeft' \in Byte
    <3>1. chunkLeft + 1 \in 1 .. Len(inp)
      BY <1>1, <1>5 DEF Readable, TypeOK, Byte
    <3> QED BY <1>1, <1>5, <3>1, AtIsByte DEF TypeOK
  <2>2. /\ pc' \in {"auth_reject", "auth_cred", "auth_drain"}
        /\ pc' = "auth_drain" => chunkLeft' # 0
    BY <1>5 DEF AfterName
  <2>3. pc' \in States /\ InsideString'
    BY <2>1, <2>2, StateNames DEF InsideString, Byte
  <2> QED BY <1>2, <1>3, <1>4, <2>1, <2>3, ChildKeepsTypes
<1>6. CASE pc' = "auth_reject" /\ chunkLeft' = chunkLeft
  <2>1. chunkLeft' \in Byte /\ pc' \in States /\ InsideString'
    BY <1>1, <1>6, StateNames DEF InsideString, TypeOK
  <2> QED BY <1>2, <1>3, <1>4, <2>1, ChildKeepsTypes
<1> QED BY <1>5, <1>6 DEF DrainAuthName, Goto

(* The credentials, and the verdict.                                       *)
LEMMA ReadCredentialsTypes == TypeInv /\ ReadCredentials => TypeInv'
<1> SUFFICES ASSUME TypeInv, ReadCredentials PROVE TypeInv'
  OBVIOUS
<1>1. TypeOK
  BY DEF TypeInv
<1>2. inp' \in Seq(StreamByte)
  <2>1. (Readable(CredSz) /\ Take(CredSz)) \/ ReadFails(CredSz)
    BY DEF ReadCredentials
  <2>2. CredSz \in Nat
    BY SessionAssumption DEF SessionAssumption
  <2> QED BY <2>1, <2>2, ReadKeepsStream
<1>3. UNCHANGED <<environment, out, chunkLeft, wr, clientEnc, attempts>>
  BY DEF ReadCredentials
<1>4. pc' \in {"send_ok", "auth_reject"}
  BY DEF ReadCredentials, Goto, AfterVerdict
<1>5. out' \in Seq(ServerMsg) /\ chunkLeft' \in Byte /\ wr' \in Nat /\ clientEnc' \in Uint16 /\ attempts' \in Nat
  BY <1>1, <1>3 DEF TypeOK
<1>6. userId' \in {0, 1}
  <2>1. userId' \in {1, userId}
    BY DEF ReadCredentials
  <2> QED BY <1>1, <2>1 DEF TypeOK
<1>7. pc' \in States /\ InsideString'
  BY <1>4, StateNames DEF InsideString
<1> QED BY <1>2, <1>3, <1>5, <1>6, <1>7, ChildKeepsTypes

(* The type of a request.                                                  *)
LEMMA ReadRequestTypeTypes == TypeInv /\ ReadRequestType => TypeInv'
<1> SUFFICES ASSUME TypeInv, ReadRequestType PROVE TypeInv'
  OBVIOUS
<1>1. TypeOK
  BY DEF TypeInv
<1>2. inp' \in Seq(StreamByte)
  <2>1. (Readable(TypeLen) /\ Take(TypeLen)) \/ ReadFails(TypeLen)
    BY DEF ReadRequestType
  <2>2. TypeLen \in Nat
    BY <1>1, Lengths
  <2> QED BY <2>1, <2>2, ReadKeepsStream
<1>3. UNCHANGED <<environment, out, chunkLeft, wr, userId, clientEnc, attempts>>
  BY DEF ReadRequestType
<1>4. pc' \in {"exec_str", "send_goodbye", "send_violation", "error"}
  BY DEF ReadRequestType, Goto
<1>5. out' \in Seq(ServerMsg) /\ chunkLeft' \in Byte /\ wr' \in Nat /\ userId' \in {0, 1} /\ clientEnc' \in Uint16 /\ attempts' \in Nat
  BY <1>1, <1>3 DEF TypeOK
<1>6. pc' \in States /\ InsideString'
  BY <1>4, StateNames DEF InsideString
<1> QED BY <1>2, <1>3, <1>5, <1>6, ChildKeepsTypes

(* The head of a statement.                                                *)
LEMMA ReadStmtStrBeginTypes == TypeInv /\ ReadStmtStrBegin => TypeInv'
<1> SUFFICES ASSUME TypeInv, ReadStmtStrBegin PROVE TypeInv'
  OBVIOUS
<1>1. TypeOK
  BY DEF TypeInv
<1>2. inp' \in Seq(StreamByte)
  <2>1. (Readable(StrHeadLen) /\ Take(StrHeadLen)) \/ ReadFails(StrHeadLen)
    BY DEF ReadStmtStrBegin
  <2>2. StrHeadLen \in Nat
    BY <1>1, Lengths
  <2> QED BY <2>1, <2>2, ReadKeepsStream
<1>3. UNCHANGED <<environment, out, userId, clientEnc, attempts>>
  BY DEF ReadStmtStrBegin
<1>4. pc' \in {"exec_reset", "error"}
  BY DEF ReadStmtStrBegin, Goto
<1>5. out' \in Seq(ServerMsg) /\ userId' \in {0, 1} /\ clientEnc' \in Uint16 /\ attempts' \in Nat
  BY <1>1, <1>3 DEF TypeOK
<1>6. chunkLeft' \in Byte /\ wr' \in Nat
  <2>1. CASE Readable(StrHeadLen) /\ chunkLeft' = At(StrHeadLen) /\ wr' = 0
    BY <1>1, <2>1, Lengths, AtIsByte DEF Readable, TypeOK
  <2>2. CASE chunkLeft' = chunkLeft /\ wr' = wr
    BY <1>1, <2>2 DEF TypeOK
  <2> QED BY <2>1, <2>2 DEF ReadStmtStrBegin
<1>7. pc' \in States /\ InsideString'
  BY <1>4, StateNames DEF InsideString
<1> QED BY <1>2, <1>3, <1>5, <1>6, <1>7, ChildKeepsTypes

(* A character of a statement.                                             *)
LEMMA ReadStmtCharTypes == TypeInv /\ ReadStmtChar => TypeInv'
<1> SUFFICES ASSUME TypeInv, ReadStmtChar PROVE TypeInv'
  OBVIOUS
<1>1. TypeOK
  BY DEF TypeInv
<1>2. UNCHANGED <<environment, out, userId, clientEnc, attempts>>
  BY DEF ReadStmtChar
<1>3. /\ out' \in Seq(ServerMsg) /\ userId' \in {0, 1}
      /\ clientEnc' \in Uint16 /\ attempts' \in Nat
  BY <1>1, <1>2 DEF TypeOK
<1>4. pc' \in States /\ InsideString'
  <2>1. pc' \in {"exec", "error"}
    BY DEF ReadStmtChar, Goto
  <2> QED BY <2>1, StateNames DEF InsideString
<1>5. CASE /\ chunkLeft > 0 /\ Readable(CharLen) /\ Take(CharLen)
           /\ chunkLeft' = NextChunkLeft /\ wr' = wr + 1
  <2>1. inp' \in Seq(StreamByte)
    BY <1>1, <1>5, Lengths, ReadKeepsStream
  <2>2. chunkLeft' \in Byte /\ wr' \in Nat
    BY <1>1, <1>5, NextChunkIsByte DEF TypeOK
  <2> QED BY <1>2, <1>3, <1>4, <2>1, <2>2, ChildKeepsTypes
<1>6. CASE inp' \in {inp, <<>>} /\ UNCHANGED <<chunkLeft, wr>>
  <2>1. inp \in Seq(StreamByte) /\ chunkLeft' \in Byte /\ wr' \in Nat
    BY <1>1, <1>6 DEF TypeOK
  <2>2. inp' \in Seq(StreamByte)
    <3>1. <<>> \in Seq(StreamByte)
      OBVIOUS
    <3>2. inp' = inp \/ inp' = <<>>
      BY <1>6
    <3> QED BY <2>1, <3>1, <3>2
  <2> QED BY <1>2, <1>3, <1>4, <2>1, <2>2, ChildKeepsTypes
<1>7. \/ /\ chunkLeft > 0 /\ Readable(CharLen) /\ Take(CharLen)
         /\ chunkLeft' = NextChunkLeft /\ wr' = wr + 1
      \/ inp' \in {inp, <<>>} /\ UNCHANGED <<chunkLeft, wr>>
  BY DEF ReadStmtChar, ReadFails
<1> QED BY <1>5, <1>6, <1>7

(* The steps of the child that neither read nor send.                      *)
LEMMA ParserTypes ==
  TypeInv /\ (StatementParsed \/ StatementRejected \/ StatementAborted) => TypeInv'
<1> SUFFICES ASSUME TypeInv, StatementParsed \/ StatementRejected \/ StatementAborted
             PROVE  TypeInv'
  OBVIOUS
<1>1. UNCHANGED <<inp, out, environment, chunkLeft, wr, userId, clientEnc, attempts>>
  BY DEF StatementParsed, StatementRejected, StatementAborted
<1>2. pc' \in {"repl", "send_syntax", "error"}
  BY DEF StatementParsed, StatementRejected, StatementAborted, Goto
<1>3. pc' \in States /\ InsideString'
  BY <1>2, StateNames DEF InsideString
<1>4. TypeOK
  BY DEF TypeInv
<1>5. /\ inp' \in Seq(StreamByte) /\ out' \in Seq(ServerMsg) /\ chunkLeft' \in Byte
      /\ wr' \in Nat /\ userId' \in {0, 1} /\ clientEnc' \in Uint16
      /\ attempts' \in Nat
  BY <1>1, <1>4 DEF TypeOK
<1> QED BY <1>1, <1>3, <1>5, ChildKeepsTypes

(* The steps of the child that send.                                       *)
LEMMA SendTypes ==
  /\ TypeInv
  /\ \/ SendServerHello \/ SendAuthRequest \/ SendAuthFail \/ SendAuthOk
     \/ SendSyntaxError \/ SendViolation \/ SendGoodbye
  => TypeInv'
<1> SUFFICES ASSUME TypeInv,
                    \/ SendServerHello \/ SendAuthRequest \/ SendAuthFail \/ SendAuthOk
                    \/ SendSyntaxError \/ SendViolation \/ SendGoodbye
             PROVE  TypeInv'
  OBVIOUS
<1> DEFINE same == UNCHANGED <<inp, environment, chunkLeft, wr, userId, clientEnc, attempts>>
<1>1. CASE Deliver("HELLO", "send_request", "error") /\ same
  BY <1>1, StateNames, SendingKeepsTypes DEF ServerMsg
<1>2. CASE Deliver("AUTH_REQUEST", "auth", "error") /\ same
  BY <1>2, StateNames, SendingKeepsTypes DEF ServerMsg
<1>3. CASE Deliver("AUTH_FAIL", "auth", "error") /\ same
  BY <1>3, StateNames, SendingKeepsTypes DEF ServerMsg
<1>4. CASE Deliver("AUTH_OK", "repl", "error") /\ same
  BY <1>4, StateNames, SendingKeepsTypes DEF ServerMsg
<1>5. CASE Deliver("ERROR_TEXT", "error", "error") /\ same
  BY <1>5, StateNames, SendingKeepsTypes DEF ServerMsg
<1>6. CASE Deliver("GOODBYE", "closed", "closed") /\ same
  BY <1>6, StateNames, SendingKeepsTypes DEF ServerMsg
<1> QED BY <1>1, <1>2, <1>3, <1>4, <1>5, <1>6
        DEF SendServerHello, SendAuthRequest, SendAuthFail, SendAuthOk,
            SendSyntaxError, SendViolation, SendGoodbye

(* The client and the listener.                                            *)
LEMMA EnvironmentTypes == TypeInv /\ (Client \/ ListenerShutdown) => TypeInv'
<1> SUFFICES ASSUME TypeInv, Client \/ ListenerShutdown PROVE TypeInv'
  OBVIOUS
<1>1. TypeOK /\ InsideString
  BY DEF TypeInv
<1>2. ASSUME NEW m \in ClientMsgs, ClientSend(m) PROVE TypeInv'
  <2>1. Frame(m) \in Seq(StreamByte)
    BY SessionAssumption, FrameIsStream DEF SessionAssumption
  <2>2. inp' \in Seq(StreamByte) /\ nsent' \in Nat
    BY <1>1, <1>2, <2>1 DEF ClientSend, TypeOK
  <2>3. UNCHANGED <<pc, out, peer, writeEnd, chunkLeft, wr, userId, clientEnc, attempts>>
    BY <1>2 DEF ClientSend
  <2> QED BY <1>1, <2>2, <2>3 DEF TypeInv, TypeOK, InsideString
<1>3. ASSUME ClientGone PROVE TypeInv'
  <2>1. PICK n \in 0 .. Len(inp) : inp' = SubSeq(inp, 1, n)
    BY <1>3 DEF ClientGone
  <2>2. inp' \in Seq(StreamByte)
    BY <1>1, <2>1 DEF TypeOK
  <2>3. /\ UNCHANGED <<pc, out, writeEnd, chunkLeft, wr, userId, clientEnc, nsent, attempts>>
        /\ peer' = "gone"
    BY <1>3 DEF ClientGone
  <2> QED BY <1>1, <2>2, <2>3 DEF TypeInv, TypeOK, InsideString
<1>4. ASSUME ListenerShutdown PROVE TypeInv'
  <2>1. /\ UNCHANGED <<pc, inp, out, peer, chunkLeft, wr, userId, clientEnc, nsent, attempts>>
        /\ writeEnd' = "shut"
    BY <1>4 DEF ListenerShutdown
  <2> QED BY <1>1, <2>1 DEF TypeInv, TypeOK, InsideString
<1> QED BY <1>2, <1>3, <1>4 DEF Client

(* Every step keeps the types.                                             *)
LEMMA TypeStep == TypeInv /\ [Next]_vars => TypeInv'
<1> SUFFICES ASSUME TypeInv, [Next]_vars PROVE TypeInv'
  OBVIOUS
<1>1. CASE UNCHANGED vars
  <2>1. UNCHANGED <<pc, inp, out, peer, writeEnd, chunkLeft, wr, userId, clientEnc,
                    nsent, attempts>>
    BY <1>1 DEF vars
  <2> QED BY <2>1 DEF TypeInv, TypeOK, InsideString
<1>2. CASE Authentication
  BY <1>2, ReadAuthTypeTypes, ReadAuthStrBeginTypes, ReadAuthNameTypes,
     ReadAuthStrEndTypes, DrainAuthNameTypes, ReadCredentialsTypes, SendTypes
     DEF Authentication
<1>3. CASE Repl
  BY <1>3, ReadRequestTypeTypes, ReadStmtStrBeginTypes, ReadStmtCharTypes,
     ParserTypes, SendTypes DEF Repl
<1>4. CASE Server
  BY <1>2, <1>3, <1>4, CreateLexerTypes, ReadHelloTypeTypes, ReadClientHelloTypes,
     SendTypes DEF Server
<1> QED BY <1>1, <1>4, EnvironmentTypes DEF Next

(* A session is well typed whatever its client sends                       *)
(* (session.c:58-222, pproto_server.c:369-742).                            *)
THEOREM TypeCorrect == Spec => []TypeOK
<1>1. TypeInv => TypeOK
  BY DEF TypeInv
<1> QED BY TypeInit, TypeStep, <1>1, PTL DEF Spec

----------------------------------------------------------------------------
(* Nothing is executed before the credentials were accepted.  The property *)
(* is inductive once the state between the verdict and its message is      *)
(* included.                                                               *)

LateStates == ExecStates \cup {"repl", "send_syntax", "send_violation", "send_goodbye"}

VerdictKept == pc = "send_ok" => userId # 0

AuthInv == TypeOK /\ VerdictKept /\ AuthBeforeExec

(* What was sent stays sent when another message follows.                  *)
LEMMA SentStays ==
  ASSUME out \in Seq(ServerMsg), NEW m \in ServerMsg, NEW w,
         Sent(w), out' = out \/ out' = Append(out, m)
  PROVE  Sent(w)'
<1>1. PICK i \in 1 .. Len(out) : out[i] = w
  BY DEF Sent
<1>2. i \in 1 .. Len(out') /\ out'[i] = w
  BY <1>1
<1> QED BY <1>2 DEF Sent

(* A step to a state before the verdict owes nothing.                      *)
LEMMA EarlyStep ==
  ASSUME TypeOK', pc' \notin LateStates, pc' # "send_ok"
  PROVE  AuthInv'
  BY DEF AuthInv, VerdictKept, AuthBeforeExec, LateStates

(* A step among the states after it keeps what was established.            *)
LEMMA LateStep ==
  ASSUME AuthInv, TypeOK', NEW m \in ServerMsg, pc \in LateStates, pc' # "send_ok",
         userId' = userId, out' = out \/ out' = Append(out, m)
  PROVE  AuthInv'
<1>1. out \in Seq(ServerMsg) /\ userId # 0 /\ Sent("AUTH_OK")
  BY DEF AuthInv, AuthBeforeExec, TypeOK, LateStates
<1>2. Sent("AUTH_OK")'
  BY <1>1, SentStays
<1> QED BY <1>1, <1>2 DEF AuthInv, VerdictKept, AuthBeforeExec

(* Up to the verdict no step reaches a state that owes it.                 *)
LEMMA AuthBeforeVerdict ==
  ASSUME AuthInv, TypeOK',
         \/ CreateLexer \/ ReadHelloType \/ ReadClientHello \/ SendServerHello
         \/ SendAuthRequest \/ ReadAuthType \/ ReadAuthStrBegin \/ ReadAuthName
         \/ ReadAuthStrEnd \/ DrainAuthName \/ SendAuthFail
  PROVE  AuthInv'
<1> DEFINE early == {"hello", "aborted", "closed", "hello_enc", "error", "send_hello",
                     "send_request", "auth", "auth_str", "auth_str_end", "auth_name",
                     "auth_reject", "auth_cred", "auth_drain"}
<1>1. CASE CreateLexer \/ ReadHelloType \/ ReadClientHello
  <2>1. pc' \in early
    BY <1>1 DEF CreateLexer, ReadHelloType, ReadClientHello, Goto
  <2> QED BY <2>1, EarlyStep DEF LateStates, ExecStates
<1>2. CASE SendServerHello \/ SendAuthRequest \/ SendAuthFail
  <2>1. pc' \in early
    BY <1>2 DEF SendServerHello, SendAuthRequest, SendAuthFail, Deliver, Goto
  <2> QED BY <2>1, EarlyStep DEF LateStates, ExecStates
<1>3. CASE ReadAuthType \/ ReadAuthStrBegin
  <2>1. pc' \in early
    BY <1>3 DEF ReadAuthType, ReadAuthStrBegin, AfterStrBegin, Goto
  <2> QED BY <2>1, EarlyStep DEF LateStates, ExecStates
<1>4. CASE ReadAuthName \/ ReadAuthStrEnd \/ DrainAuthName
  <2>1. pc' \in early
    BY <1>4 DEF ReadAuthName, ReadAuthStrEnd, DrainAuthName, AfterName, Deliver, Goto
  <2> QED BY <2>1, EarlyStep DEF LateStates, ExecStates
<1> QED BY <1>1, <1>2, <1>3, <1>4

(* The verdict is kept until it is told, and told before the first request *)
(* is read.                                                                *)
LEMMA AuthAtVerdict ==
  ASSUME AuthInv, TypeOK', ReadCredentials \/ SendAuthOk
  PROVE  AuthInv'
<1>1. CASE ReadCredentials
  <2>1. \/ pc' = "send_ok" /\ userId' = 1
        \/ pc' = "auth_reject"
    BY <1>1 DEF ReadCredentials, AfterVerdict, Goto
  <2> QED BY <2>1 DEF AuthInv, VerdictKept, AuthBeforeExec, ExecStates
<1>2. CASE SendAuthOk
  <2>1. /\ userId' = userId /\ userId # 0
        /\ out \in Seq(ServerMsg)
    BY <1>2 DEF SendAuthOk, AuthInv, VerdictKept, TypeOK
  <2>2. \/ pc' = "repl" /\ out' = Append(out, "AUTH_OK")
        \/ pc' \in {"error", "aborted"}
    BY <1>2 DEF SendAuthOk, Deliver, Goto
  <2>3. CASE pc' = "repl" /\ out' = Append(out, "AUTH_OK")
    <3>1. Len(out) + 1 \in 1 .. Len(out') /\ out'[Len(out) + 1] = "AUTH_OK"
      BY <2>1, <2>3
    <3>2. Sent("AUTH_OK")'
      BY <3>1 DEF Sent
    <3> QED BY <2>1, <2>3, <3>2 DEF AuthInv, VerdictKept, AuthBeforeExec
  <2>4. CASE pc' \in {"error", "aborted"}
    BY <2>4, EarlyStep DEF LateStates, ExecStates
  <2> QED BY <2>2, <2>3, <2>4
<1> QED BY <1>1, <1>2

(* Afterwards the identity stays, and what was sent stays sent.            *)
LEMMA AuthAfterVerdict ==
  ASSUME AuthInv, TypeOK', Repl
  PROVE  AuthInv'
<1>1. userId' = userId /\ pc' # "send_ok"
  BY DEF Repl, ReadRequestType, ReadStmtStrBegin, ReadStmtChar, StatementParsed,
         StatementRejected, StatementAborted, SendSyntaxError, SendViolation,
         SendGoodbye, Deliver, Goto
<1>2. pc \in LateStates
  BY DEF Repl, ReadRequestType, ReadStmtStrBegin, ReadStmtChar, StatementParsed,
         StatementRejected, StatementAborted, SendSyntaxError, SendViolation,
         SendGoodbye, LateStates, ExecStates
<1>3. \E m \in ServerMsg : out' = out \/ out' = Append(out, m)
  BY DEF Repl, ReadRequestType, ReadStmtStrBegin, ReadStmtChar, StatementParsed,
         StatementRejected, StatementAborted, SendSyntaxError, SendViolation,
         SendGoodbye, Deliver, ServerMsg
<1> QED BY <1>1, <1>2, <1>3, LateStep

(* Every step keeps it.                                                    *)
LEMMA AuthStep == AuthInv /\ TypeOK' /\ [Next]_vars => AuthInv'
<1> SUFFICES ASSUME AuthInv, TypeOK', [Next]_vars PROVE AuthInv'
  OBVIOUS
<1>1. CASE Client \/ ListenerShutdown \/ UNCHANGED vars
  <2>1. UNCHANGED <<pc, out, userId>>
    BY <1>1 DEF Client, ClientGone, ClientSend, ListenerShutdown, vars
  <2>2. Sent("AUTH_OK") => Sent("AUTH_OK")'
    BY <2>1 DEF Sent
  <2> QED BY <2>1, <2>2 DEF AuthInv, VerdictKept, AuthBeforeExec
<1>2. CASE Authentication
  BY <1>2, AuthBeforeVerdict, AuthAtVerdict DEF Authentication
<1>3. CASE Repl
  BY <1>3, AuthAfterVerdict
<1>4. CASE Server
  BY <1>2, <1>3, <1>4, AuthBeforeVerdict DEF Server
<1> QED BY <1>1, <1>4 DEF Next

(* No statement is read, parsed or answered before the client was told     *)
(* that its credentials were accepted, whatever it sends, however long its *)
(* strings and whatever the encodings (session.c:58-171).                  *)
THEOREM AuthenticationFirst == Spec => []AuthBeforeExec
<1>1. Init /\ TypeOK => AuthInv
  BY DEF Init, AuthInv, VerdictKept, AuthBeforeExec, ExecStates
<1>2. AuthInv => AuthBeforeExec
  BY DEF AuthInv
<1> QED BY <1>1, <1>2, AuthStep, TypeCorrect, PTL DEF Spec

----------------------------------------------------------------------------
(* The dialogue.  How far it has got is known from the state, and that     *)
(* makes the discipline inductive.                                         *)

GreetStates == {"create", "hello", "hello_enc", "send_hello"}
AskedStates == AuthStates \cup {"send_ok"}

(* Greeted and asked, and so far only refused or cancelled.                *)
Asked ==
  /\ Len(out) >= 2 /\ out[1] = "HELLO" /\ out[2] = "AUTH_REQUEST"
  /\ \A i \in 3 .. Len(out) : out[i] \in {"AUTH_FAIL", "CANCEL"}

(* Accepted with the last message.                                         *)
Accepted ==
  /\ Len(out) >= 3 /\ out[1] = "HELLO" /\ out[2] = "AUTH_REQUEST"
  /\ \A i \in 3 .. Len(out) - 1 : out[i] \in {"AUTH_FAIL", "CANCEL"}
  /\ out[Len(out)] = "AUTH_OK"

OutInv ==
  /\ pc \in GreetStates => out = <<>>
  /\ pc = "send_request" => out = <<"HELLO">>
  /\ pc \in AskedStates => Asked
  /\ pc \in LateStates => Accepted
  /\ OutDiscipline

(* Either stage, once reached, is a disciplined dialogue.                   *)
LEMMA StagesAreDisciplined ==
  ASSUME out' \in Seq(ServerMsg), Asked' \/ Accepted'
  PROVE  OutDiscipline'
<1>1. CASE Asked'
  <2>1. \A i \in 1 .. Len(out') : i = 1 \/ i = 2 \/ i \in 3 .. Len(out')
    OBVIOUS
  <2> QED BY <1>1, <2>1 DEF Asked, OutDiscipline
<1>2. CASE Accepted'
  <2>1. \A i \in 1 .. Len(out') :
          i = 1 \/ i = 2 \/ i \in 3 .. Len(out') - 1 \/ i = Len(out')
    OBVIOUS
  <2> QED BY <1>2, <2>1 DEF Accepted, OutDiscipline
<1> QED BY <1>1, <1>2

(* A last word after the acceptance.                                       *)
LEMMA LastWord ==
  ASSUME out \in Seq(ServerMsg), Accepted, NEW m \in {"ERROR_TEXT", "GOODBYE"},
         out' = Append(out, m)
  PROVE  OutDiscipline'
<1> DEFINE n == Len(out)
<1>1. n \in Nat /\ n >= 3 /\ Len(out') = n + 1 /\ out'[n + 1] = m
  BY DEF Accepted
<1>2. \A i \in 1 .. n : out'[i] = out[i]
  OBVIOUS
<1>3. /\ out'[1] = "HELLO" /\ out'[2] = "AUTH_REQUEST" /\ out'[n] = "AUTH_OK"
      /\ \A i \in 3 .. n - 1 : out'[i] \in {"AUTH_FAIL", "CANCEL"}
  BY <1>1, <1>2 DEF Accepted
<1>4. \A i \in 1 .. n + 1 : i = 1 \/ i = 2 \/ i \in 3 .. n - 1 \/ i = n \/ i = n + 1
  BY <1>1
<1> HIDE DEF n
<1> QED BY <1>1, <1>3, <1>4 DEF OutDiscipline

(* A refusal or a cancellation leaves the client asked.                    *)
LEMMA RefusalKeepsAsked ==
  ASSUME out \in Seq(ServerMsg), Asked, NEW m \in {"AUTH_FAIL", "CANCEL"},
         out' = Append(out, m)
  PROVE  Asked'
<1>1. Len(out') = Len(out) + 1 /\ out'[Len(out) + 1] = m
  OBVIOUS
<1>2. \A i \in 1 .. Len(out) : out'[i] = out[i]
  OBVIOUS
<1>3. \A i \in 3 .. Len(out) + 1 : i \in 3 .. Len(out) \/ i = Len(out) + 1
  OBVIOUS
<1> QED BY <1>1, <1>2, <1>3 DEF Asked

(* An acceptance ends it.                                                  *)
LEMMA AcceptanceFollowsAsked ==
  ASSUME out \in Seq(ServerMsg), Asked, out' = Append(out, "AUTH_OK")
  PROVE  Accepted'
<1>1. Len(out') = Len(out) + 1 /\ out'[Len(out) + 1] = "AUTH_OK"
  OBVIOUS
<1>2. \A i \in 1 .. Len(out) : out'[i] = out[i]
  OBVIOUS
<1> QED BY <1>1, <1>2 DEF Asked, Accepted

(* A silent step stays in its stage or ends the session.                   *)
LEMMA SilentStep ==
  ASSUME OutInv, out' = out,
         \/ pc' \in Ended
         \/ pc \in GreetStates /\ pc' \in GreetStates
         \/ pc \in AskedStates /\ pc' \in AskedStates
         \/ pc \in LateStates /\ pc' \in LateStates
         \/ pc' = pc
  PROVE  OutInv'
<1>1. OutDiscipline'
  BY DEF OutInv, OutDiscipline
<1>2. (Asked => Asked') /\ (Accepted => Accepted')
  BY DEF Asked, Accepted
<1> QED BY <1>1, <1>2
        DEF OutInv, GreetStates, AskedStates, LateStates, AuthStates, ExecStates, Ended

(* The steps of the child that send nothing.                               *)
LEMMA SilentSteps ==
  ASSUME OutInv,
         \/ CreateLexer \/ ReadHelloType \/ ReadClientHello
         \/ ReadAuthType \/ ReadAuthStrBegin \/ ReadAuthName \/ DrainAuthName
         \/ ReadCredentials \/ ReadRequestType \/ ReadStmtStrBegin \/ ReadStmtChar
         \/ StatementParsed \/ StatementRejected \/ StatementAborted
  PROVE  OutInv'
<1>1. CASE CreateLexer \/ ReadHelloType \/ ReadClientHello
  <2>1. /\ out' = out /\ pc \in GreetStates
        /\ pc' \in GreetStates \cup Ended
    BY <1>1 DEF CreateLexer, ReadHelloType, ReadClientHello, Goto, GreetStates, Ended
  <2> QED BY <2>1, SilentStep
<1>2. CASE ReadAuthType \/ ReadAuthStrBegin \/ ReadAuthName
  <2>1. /\ out' = out /\ pc \in AskedStates
        /\ pc' \in AskedStates \cup Ended
    BY <1>2 DEF ReadAuthType, ReadAuthStrBegin, ReadAuthName, AfterStrBegin, Goto,
                AskedStates, AuthStates, Ended
  <2> QED BY <2>1, SilentStep
<1>3. CASE DrainAuthName \/ ReadCredentials
  <2>1. /\ out' = out /\ pc \in AskedStates
        /\ pc' \in AskedStates \cup Ended
    BY <1>3 DEF DrainAuthName, ReadCredentials, AfterName, AfterVerdict, Goto,
                AskedStates, AuthStates, Ended
  <2> QED BY <2>1, SilentStep
<1>4. CASE \/ ReadRequestType \/ ReadStmtStrBegin \/ ReadStmtChar
           \/ StatementParsed \/ StatementRejected \/ StatementAborted
  <2>1. /\ out' = out /\ pc \in LateStates
        /\ pc' \in LateStates \cup Ended
    BY <1>4 DEF ReadRequestType, ReadStmtStrBegin, ReadStmtChar, StatementParsed,
                StatementRejected, StatementAborted, Goto, LateStates, ExecStates, Ended
  <2> QED BY <2>1, SilentStep
<1> QED BY <1>1, <1>2, <1>3, <1>4

(* The greeting and the request.                                           *)
LEMMA GreetingSteps ==
  ASSUME OutInv, SendServerHello \/ SendAuthRequest
  PROVE  OutInv'
<1>1. CASE SendServerHello
  <2>1. out = <<>>
    BY <1>1 DEF OutInv, SendServerHello, GreetStates
  <2>2. CASE pc' = "send_request" /\ out' = Append(out, "HELLO")
    <3>1. out' = <<"HELLO">>
      BY <2>1, <2>2
    <3>2. OutDiscipline'
      BY <3>1 DEF OutDiscipline
    <3> QED BY <2>2, <3>1, <3>2
            DEF OutInv, GreetStates, AskedStates, LateStates, AuthStates, ExecStates
  <2>3. CASE out' = out /\ pc' \in Ended
    BY <2>3, SilentStep
  <2> QED BY <1>1, <2>2, <2>3 DEF SendServerHello, Deliver, Goto, Ended
<1>2. CASE SendAuthRequest
  <2>1. out = <<"HELLO">>
    BY <1>2 DEF OutInv, SendAuthRequest
  <2>2. CASE pc' = "auth" /\ out' = Append(out, "AUTH_REQUEST")
    <3>1. /\ out' \in Seq(ServerMsg) /\ Len(out') = 2
          /\ out'[1] = "HELLO" /\ out'[2] = "AUTH_REQUEST"
      BY <2>1, <2>2 DEF ServerMsg
    <3>2. Asked'
      BY <3>1 DEF Asked
    <3>3. OutDiscipline'
      BY <3>1, <3>2, StagesAreDisciplined
    <3> QED BY <2>2, <3>2, <3>3
            DEF OutInv, GreetStates, AskedStates, LateStates, AuthStates, ExecStates
  <2>3. CASE out' = out /\ pc' \in Ended
    BY <2>3, SilentStep
  <2> QED BY <1>2, <2>2, <2>3 DEF SendAuthRequest, Deliver, Goto, Ended
<1> QED BY <1>1, <1>2

(* The answers to authentications.                                         *)
LEMMA AnswerSteps ==
  ASSUME OutInv, out \in Seq(ServerMsg), out' \in Seq(ServerMsg),
         ReadAuthStrEnd \/ SendAuthFail \/ SendAuthOk
  PROVE  OutInv'
<1>1. pc \in AskedStates /\ Asked
  BY DEF ReadAuthStrEnd, SendAuthFail, SendAuthOk, AskedStates, AuthStates, OutInv
<1>2. CASE out' = out /\ pc' \in AskedStates \cup Ended
  BY <1>1, <1>2, SilentStep
<1>3. CASE /\ pc' \in {"auth_drain", "auth"}
           /\ out' = Append(out, "AUTH_FAIL") \/ out' = Append(out, "CANCEL")
  <2>1. Asked'
    BY <1>1, <1>3, RefusalKeepsAsked
  <2>2. OutDiscipline'
    BY <2>1, StagesAreDisciplined
  <2> QED BY <1>3, <2>1, <2>2
          DEF OutInv, GreetStates, AskedStates, LateStates, AuthStates, ExecStates
<1>4. CASE pc' = "repl" /\ out' = Append(out, "AUTH_OK")
  <2>1. Accepted'
    BY <1>1, <1>4, AcceptanceFollowsAsked
  <2>2. OutDiscipline'
    BY <2>1, StagesAreDisciplined
  <2> QED BY <1>4, <2>1, <2>2
          DEF OutInv, GreetStates, AskedStates, LateStates, AuthStates, ExecStates
<1> QED BY <1>1, <1>2, <1>3, <1>4
        DEF ReadAuthStrEnd, SendAuthFail, SendAuthOk, AfterName, Deliver, Goto,
            AskedStates, AuthStates, Ended

(* The last messages.                                                      *)
LEMMA LastSteps ==
  ASSUME OutInv, out \in Seq(ServerMsg), SendSyntaxError \/ SendViolation \/ SendGoodbye
  PROVE  OutInv'
<1>1. Accepted
  BY DEF SendSyntaxError, SendViolation, SendGoodbye, OutInv, LateStates
<1>2. pc' \in Ended
  BY DEF SendSyntaxError, SendViolation, SendGoodbye, Deliver, Goto, Ended
<1>3. CASE out' = out
  BY <1>2, <1>3, SilentStep
<1>4. CASE out' = Append(out, "ERROR_TEXT") \/ out' = Append(out, "GOODBYE")
  <2>1. OutDiscipline'
    BY <1>1, <1>4, LastWord
  <2> QED BY <1>2, <2>1
          DEF OutInv, GreetStates, AskedStates, LateStates, AuthStates, ExecStates, Ended
<1> QED BY <1>3, <1>4 DEF SendSyntaxError, SendViolation, SendGoodbye, Deliver

(* Every step keeps it.                                                    *)
LEMMA OutStep == OutInv /\ TypeOK /\ TypeOK' /\ [Next]_vars => OutInv'
<1> SUFFICES ASSUME OutInv, TypeOK, TypeOK', [Next]_vars PROVE OutInv'
  OBVIOUS
<1>1. out \in Seq(ServerMsg) /\ out' \in Seq(ServerMsg)
  BY DEF TypeOK
<1>2. CASE Client \/ ListenerShutdown \/ UNCHANGED vars
  <2>1. UNCHANGED <<pc, out>>
    BY <1>2 DEF Client, ClientGone, ClientSend, ListenerShutdown, vars
  <2> QED BY <2>1, SilentStep
<1>3. CASE Authentication
  BY <1>1, <1>3, SilentSteps, AnswerSteps DEF Authentication
<1>4. CASE Repl
  BY <1>1, <1>4, SilentSteps, LastSteps DEF Repl
<1>5. CASE Server
  BY <1>3, <1>4, <1>5, SilentSteps, GreetingSteps DEF Server
<1> QED BY <1>2, <1>5 DEF Next

(* The dialogue keeps its order whatever the client sends and whenever it  *)
(* or the connection goes (session.c:90-171).                              *)
THEOREM DialogueInOrder == Spec => []OutDiscipline
<1>1. Init => OutInv
  BY DEF Init, OutInv, OutDiscipline, GreetStates, AskedStates, LateStates,
         AuthStates, ExecStates
<1>2. OutInv => OutDiscipline
  BY DEF OutInv
<1> QED BY <1>1, <1>2, OutStep, TypeCorrect, PTL DEF Spec

----------------------------------------------------------------------------
(* Counting the messages that were sent.                                   *)

Places(m) == {i \in 1 .. Len(out) : out[i] = m}

(* A count is a number.                                                    *)
LEMMA CountIsNat ==
  ASSUME out \in Seq(ServerMsg), NEW m
  PROVE  /\ IsFiniteSet(Places(m))
         /\ Cardinality(Places(m)) \in Nat /\ Count(m) = Cardinality(Places(m))
<1>1. Len(out) \in Nat
  OBVIOUS
<1>2. IsFiniteSet(1 .. Len(out)) /\ Places(m) \subseteq 1 .. Len(out)
  BY <1>1, FS_Interval DEF Places
<1>3. IsFiniteSet(Places(m))
  BY <1>2, FS_Subset
<1> QED BY <1>3, FS_CardinalityType DEF Count, Places

(* With another message the count of that message goes up by one.          *)
LEMMA CountAppended ==
  ASSUME out \in Seq(ServerMsg), NEW m \in ServerMsg, out' = Append(out, m), NEW w
  PROVE  Count(w)' = IF m = w THEN Count(w) + 1 ELSE Count(w)
<1>1. /\ Len(out) \in Nat /\ out' \in Seq(ServerMsg)
      /\ Len(out') = Len(out) + 1 /\ out'[Len(out) + 1] = m
      /\ \A i \in 1 .. Len(out) : out'[i] = out[i]
  OBVIOUS
<1>2. \A i : i \in 1 .. Len(out') <=> i \in 1 .. Len(out) \/ i = Len(out) + 1
  BY <1>1
<1>3. Len(out) + 1 \notin Places(w)
  BY <1>1 DEF Places
<1>4. Count(w)' = Cardinality(Places(w)')
  BY DEF Count, Places
<1>5. IsFiniteSet(Places(w)) /\ Count(w) = Cardinality(Places(w))
  BY CountIsNat
<1>6. CASE m = w
  <2>1. Places(w)' = Places(w) \cup {Len(out) + 1}
    BY <1>1, <1>2, <1>6 DEF Places
  <2>2. Cardinality(Places(w) \cup {Len(out) + 1}) = Cardinality(Places(w)) + 1
    BY <1>3, <1>5, FS_AddElement
  <2> QED BY <1>4, <1>5, <1>6, <2>1, <2>2
<1>7. CASE m # w
  <2>1. Places(w)' = Places(w)
    BY <1>1, <1>2, <1>7 DEF Places
  <2> QED BY <1>4, <1>5, <1>7, <2>1
<1> QED BY <1>6, <1>7

(* An answer counts as one, another message does not.                      *)
LEMMA AnswersAppended ==
  ASSUME out \in Seq(ServerMsg), NEW m \in ServerMsg, out' = Append(out, m)
  PROVE  /\ m \in {"AUTH_OK", "AUTH_FAIL"} => Answers' = Answers + 1
         /\ m \notin {"AUTH_OK", "AUTH_FAIL"} => Answers' = Answers
<1>1. Count("AUTH_OK") \in Nat /\ Count("AUTH_FAIL") \in Nat
  BY CountIsNat
<1>2. /\ Count("AUTH_OK")' = IF m = "AUTH_OK" THEN Count("AUTH_OK") + 1 ELSE Count("AUTH_OK")
      /\ Count("AUTH_FAIL")' = IF m = "AUTH_FAIL" THEN Count("AUTH_FAIL") + 1 ELSE Count("AUTH_FAIL")
  BY CountAppended
<1>3. Answers' = Count("AUTH_OK")' + Count("AUTH_FAIL")'
  BY DEF Answers
<1> QED BY <1>1, <1>2, <1>3 DEF Answers

----------------------------------------------------------------------------
(* While an attempt is read one answer is owed, and else none.  A session  *)
(* that has ended may owe one.                                             *)

OwingStates == (AuthStates \ {"auth"}) \cup {"send_ok"}

AnswersInv ==
  /\ pc \notin OwingStates \cup Ended => attempts = Answers
  /\ pc \in OwingStates => attempts = Answers + 1

(* A step that sends nothing and stays on its side, or ends the session.   *)
LEMMA NothingAnswered ==
  ASSUME AnswersInv, out' = out, attempts' = attempts,
         pc' \in Ended \/ (pc \notin Ended /\ (pc' \in OwingStates <=> pc \in OwingStates))
  PROVE  AnswersInv'
<1>1. Answers' = Answers
  BY DEF Answers, Count
<1> QED BY <1>1 DEF AnswersInv, OwingStates, AuthStates, Ended

(* Steps that send nothing.                                                *)
LEMMA SilentAnswers ==
  ASSUME AnswersInv,
         \/ CreateLexer \/ ReadHelloType \/ ReadClientHello
         \/ ReadAuthStrBegin \/ ReadAuthName \/ DrainAuthName
         \/ ReadCredentials \/ ReadRequestType \/ ReadStmtStrBegin \/ ReadStmtChar
         \/ StatementParsed \/ StatementRejected \/ StatementAborted
  PROVE  AnswersInv'
<1>1. CASE CreateLexer \/ ReadHelloType \/ ReadClientHello
  <2>1. /\ out' = out /\ attempts' = attempts /\ pc \in {"create", "hello", "hello_enc"}
        /\ pc' \in {"hello", "hello_enc", "send_hello"} \cup Ended
    BY <1>1 DEF CreateLexer, ReadHelloType, ReadClientHello, Goto, Ended
  <2> QED BY <2>1, NothingAnswered DEF OwingStates, AuthStates, Ended
<1>2. CASE ReadAuthStrBegin \/ ReadAuthName \/ DrainAuthName \/ ReadCredentials
  <2>1. /\ out' = out /\ attempts' = attempts /\ pc \in OwingStates
        /\ pc' \in OwingStates
    BY <1>2 DEF ReadAuthStrBegin, ReadAuthName, DrainAuthName, ReadCredentials,
                AfterStrBegin, AfterName, AfterVerdict, Goto, OwingStates, AuthStates
  <2> QED BY <2>1, NothingAnswered DEF OwingStates, AuthStates, Ended
<1>3. CASE \/ ReadRequestType \/ ReadStmtStrBegin \/ ReadStmtChar
           \/ StatementParsed \/ StatementRejected \/ StatementAborted
  <2>1. /\ out' = out /\ attempts' = attempts /\ pc \in LateStates
        /\ pc' \in LateStates \cup Ended
    BY <1>3 DEF ReadRequestType, ReadStmtStrBegin, ReadStmtChar, StatementParsed,
                StatementRejected, StatementAborted, Goto, LateStates, ExecStates, Ended
  <2> QED BY <2>1, NothingAnswered DEF OwingStates, AuthStates, LateStates, ExecStates, Ended
<1> QED BY <1>1, <1>2, <1>3

(* An attempt begins when none is open.                                    *)
LEMMA AttemptBegins ==
  ASSUME AnswersInv, TypeOK, ReadAuthType
  PROVE  AnswersInv'
<1>1. pc = "auth" /\ out' = out /\ attempts = Answers
  BY DEF ReadAuthType, AnswersInv, OwingStates, AuthStates, Ended
<1>2. CASE attempts' = attempts + 1 /\ pc' = "auth_str"
  <2>1. Answers' = Answers
    BY <1>1 DEF Answers, Count
  <2> QED BY <1>1, <1>2, <2>1 DEF AnswersInv, OwingStates, AuthStates, Ended
<1>3. CASE attempts' = attempts /\ pc' \in {"closed", "error"}
  BY <1>1, <1>3, NothingAnswered DEF Ended
<1> QED BY <1>2, <1>3 DEF ReadAuthType, Goto

(* Greeting, cancelling and the last words are no answers.                 *)
LEMMA NoAnswers ==
  ASSUME AnswersInv, TypeOK,
         \/ SendServerHello \/ SendAuthRequest \/ ReadAuthStrEnd
         \/ SendSyntaxError \/ SendViolation \/ SendGoodbye
  PROVE  AnswersInv'
<1>1. out \in Seq(ServerMsg) /\ attempts' = attempts
  BY DEF TypeOK, SendServerHello, SendAuthRequest, ReadAuthStrEnd, SendSyntaxError,
         SendViolation, SendGoodbye
<1>2. \/ out' = out
      \/ \E m \in ServerMsg \ {"AUTH_OK", "AUTH_FAIL"} : out' = Append(out, m)
  BY DEF SendServerHello, SendAuthRequest, ReadAuthStrEnd, SendSyntaxError,
         SendViolation, SendGoodbye, Deliver, ServerMsg
<1>3. Answers' = Answers
  <2>1. CASE out' = out
    BY <2>1 DEF Answers, Count
  <2>2. CASE \E m \in ServerMsg \ {"AUTH_OK", "AUTH_FAIL"} : out' = Append(out, m)
    BY <1>1, <2>2, AnswersAppended
  <2> QED BY <1>2, <2>1, <2>2
<1>4. \/ pc' \in Ended
      \/ pc \notin OwingStates \cup Ended /\ pc' \notin OwingStates
      \/ pc \in OwingStates /\ pc' \in OwingStates
  BY DEF SendServerHello, SendAuthRequest, ReadAuthStrEnd, SendSyntaxError, SendViolation,
         SendGoodbye, AfterName, Deliver, Goto, OwingStates, AuthStates, Ended
<1> QED BY <1>1, <1>3, <1>4 DEF AnswersInv, OwingStates, AuthStates, Ended

(* A verdict answers.                                                      *)
LEMMA VerdictAnswers ==
  ASSUME AnswersInv, TypeOK, SendAuthFail \/ SendAuthOk
  PROVE  AnswersInv'
<1>1. /\ out \in Seq(ServerMsg) /\ attempts' = attempts /\ attempts = Answers + 1
  BY DEF TypeOK, SendAuthFail, SendAuthOk, AnswersInv, OwingStates, AuthStates
<1>2. CASE out' = out /\ pc' \in Ended
  BY <1>1, <1>2, NothingAnswered
<1>3. CASE /\ pc' \in {"auth", "repl"}
           /\ \E m \in {"AUTH_OK", "AUTH_FAIL"} : out' = Append(out, m)
  <2>1. Answers' = Answers + 1
    BY <1>1, <1>3, AnswersAppended DEF ServerMsg
  <2> QED BY <1>1, <1>3, <2>1 DEF AnswersInv, OwingStates, AuthStates, Ended
<1> QED BY <1>2, <1>3 DEF SendAuthFail, SendAuthOk, Deliver, Goto, Ended

(* Every step keeps it.                                                    *)
LEMMA AnswersStep == AnswersInv /\ TypeOK /\ [Next]_vars => AnswersInv'
<1> SUFFICES ASSUME AnswersInv, TypeOK, [Next]_vars PROVE AnswersInv'
  OBVIOUS
<1>1. CASE Client \/ ListenerShutdown \/ UNCHANGED vars
  <2>1. UNCHANGED <<pc, out, attempts>>
    BY <1>1 DEF Client, ClientGone, ClientSend, ListenerShutdown, vars
  <2>2. Answers' = Answers
    BY <2>1 DEF Answers, Count
  <2> QED BY <2>1, <2>2 DEF AnswersInv
<1>2. CASE Authentication
  BY <1>2, SilentAnswers, AttemptBegins, NoAnswers, VerdictAnswers DEF Authentication
<1>3. CASE Repl
  BY <1>3, SilentAnswers, NoAnswers DEF Repl
<1>4. CASE Server
  BY <1>2, <1>3, <1>4, SilentAnswers, NoAnswers DEF Server
<1> QED BY <1>1, <1>4 DEF Next

(* Whatever went wrong in reading an attempt, and whatever the sizes, it   *)
(* is answered, and only once, before another message is looked at         *)
(* (session.c:114-131, pproto_server.c:578-608).                           *)
THEOREM EachAttemptAnswered == Spec => []AttemptsAnswered
<1>1. Init => AnswersInv
  <2> SUFFICES ASSUME Init PROVE AnswersInv
    OBVIOUS
  <2>1. pc = "create" /\ out = <<>> /\ attempts = 0
    BY DEF Init
  <2>2. out \in Seq(ServerMsg) /\ \A m : Places(m) = {}
    BY <2>1 DEF Places
  <2>3. \A m : Count(m) = 0
    BY <2>2, CountIsNat, FS_EmptySet
  <2> QED BY <2>1, <2>3 DEF AnswersInv, Answers, OwingStates, AuthStates
<1>2. AnswersInv => AttemptsAnswered
  BY DEF AnswersInv, AttemptsAnswered, OwingStates, AuthStates, ExecStates, Ended
<1> QED BY <1>1, <1>2, AnswersStep, TypeCorrect, PTL DEF Spec

----------------------------------------------------------------------------
(* The automaton, cell by cell as far as messages are heard.               *)
LEMMA Cells ==
  /\ AsCoded!Cell(0, "a") = 1
  /\ \A c \in {"b", "c", "d", "e", "f", "g"} : AsCoded!Cell(0, c) = 4
  /\ AsCoded!Cell(1, "b") = 1 /\ AsCoded!Cell(1, "c") = 2
  /\ \A c \in {"a", "d", "e", "f", "g"} : AsCoded!Cell(1, c) = 4
  /\ AsCoded!Cell(2, "d") = 3
  /\ \A c \in {"a", "b", "c", "e", "f", "g"} : AsCoded!Cell(2, c) = 4
<1>1. /\ \A c : <<0, c>> \notin Violations /\ <<1, c>> \notin Violations
      /\ <<2, "d">> \notin Violations /\ <<2, "f">> \notin Violations
      /\ \A c \in {"a", "b", "c", "e", "g"} : <<2, c>> \in Violations
  BY DEF Violations
<1>2. /\ AsCoded!Table[0] = AsCoded!Row(1, 4, 4, 4, 4, 4, 4)
      /\ AsCoded!Table[1] = AsCoded!Row(4, 1, 2, 4, 4, 4, 4)
      /\ AsCoded!Table[2] = AsCoded!Row(2, 2, 2, 3, 2, 4, 2)
  BY DEF AsCoded!Table, AsCoded!State
<1>3. \A c : AsCoded!Cell(0, c) = AsCoded!Table[0][c] /\ AsCoded!Cell(1, c) = AsCoded!Table[1][c]
  <2> TAKE c
  <2>1. <<0, c>> \notin Violations /\ <<1, c>> \notin Violations
    BY <1>1
  <2>2. AsCoded!Cell(0, c) = AsCoded!Table[0][c]
    BY <2>1, Zenon DEF AsCoded!Cell
  <2>3. AsCoded!Cell(1, c) = AsCoded!Table[1][c]
    BY <2>1, Zenon DEF AsCoded!Cell
  <2> QED BY <2>2, <2>3
<1>4. /\ AsCoded!Cell(0, "a") = 1
      /\ \A c \in {"b", "c", "d", "e", "f", "g"} : AsCoded!Cell(0, c) = 4
  BY <1>2, <1>3, SMTT(30) DEF AsCoded!Row
<1>5. /\ AsCoded!Cell(1, "b") = 1 /\ AsCoded!Cell(1, "c") = 2
      /\ \A c \in {"a", "d", "e", "f", "g"} : AsCoded!Cell(1, c) = 4
  BY <1>2, <1>3, SMTT(30) DEF AsCoded!Row
<1>6. /\ AsCoded!Cell(2, "d") = 3 /\ AsCoded!Cell(2, "f") = 4
      /\ \A c \in {"a", "b", "c", "e", "g"} : AsCoded!Cell(2, c) = 4
  BY <1>1, <1>2, SMTT(30) DEF AsCoded!Cell, AsCoded!Row
<1> QED BY <1>4, <1>5, <1>6

(* The two ways to move as the automaton does: by the cell of a message    *)
(* that is heard, and without any message.                                 *)
LEMMA HeardMoves ==
  ASSUME NEW c \in Heard, AutomatonState' = AsCoded!Cell(AutomatonState, c)
  PROVE  AsCoded!Step(Heard, Broken)
  BY DEF AsCoded!Step, AsCoded!OnMessage

LEMMA UnheardMoves ==
  ASSUME Heard = {},
         \/ AutomatonState' = AutomatonState
         \/ AutomatonState = 3 /\ AutomatonState' \in {2, 4}
         \/ AutomatonState = 0 /\ AutomatonState' = 4
         \/ Broken /\ AutomatonState' = 4
  PROVE  AsCoded!Step(Heard, Broken)
  BY DEF AsCoded!Step, AsCoded!Executed, AsCoded!Unprepared, AsCoded!Cut

(* A read that fails is of more bytes than there are.                      *)
LEMMA ShortOrNot ==
  ASSUME TypeOK
  PROVE  /\ ReadFails(TypeLen) => ~ Readable(TypeLen)
         /\ ReadFails(2) => ~ Readable(2)
         /\ ReadFails(CredSz) => ~ Readable(CredSz)
<1>1. Len(inp) \in Nat /\ TypeLen \in Nat /\ CredSz \in Nat
  BY SessionAssumption DEF SessionAssumption, TypeOK, TypeLen
<1> QED BY <1>1 DEF ReadFails, Readable

(* Where nothing is heard.                                                 *)
LEMMA NothingHeard ==
  ASSUME \/ pc' = pc
         \/ pc \notin {"hello", "hello_enc", "auth", "repl"} \cup AuthStates
         \/ pc = "auth_reject"
         \/ pc \in AuthStates \ {"auth", "auth_cred", "auth_reject"} /\ pc' # "auth_reject"
  PROVE  Heard = {}
  BY DEF Heard, HearsType, HearsEncoding, HearsName, HearsCredentials, AuthStates

(* A type is heard where it is all there is to hear.                       *)
LEMMA TypeHeard ==
  ASSUME pc \in {"hello", "auth", "repl"}, pc' # pc, Readable(TypeLen),
         ~ (pc = "hello" /\ MsgType = "HELLO"), ~ (pc = "auth" /\ MsgType = "AUTH")
  PROVE  Heard = TypeConditions
  BY DEF Heard, HearsType

(* Every type has its conditions.                                          *)
LEMMA TypeHasConditions ==
  /\ MsgType = "HELLO" => TypeConditions = {"a"}
  /\ MsgType = "AUTH" => TypeConditions = {"b", "c"}
  /\ MsgType = "SQL" => TypeConditions = {"d"}
  /\ MsgType = "GOODBYE" => TypeConditions = {"f"}
  /\ MsgType \notin {"HELLO", "AUTH", "SQL", "GOODBYE"} =>
       TypeConditions \in {{"e"}, {"g"}}
  BY DEF TypeConditions

(* No identity before a verdict.                                           *)
Nameless == pc \in {"create", "hello", "hello_enc", "send_hello", "send_request"} \cup AuthStates
              => userId = 0

LEMMA NamelessStep == Nameless /\ [Next]_vars => Nameless'
<1> SUFFICES ASSUME Nameless, [Next]_vars PROVE Nameless'
  OBVIOUS
<1>1. CASE Client \/ ListenerShutdown \/ UNCHANGED vars
  <2>1. UNCHANGED <<pc, userId>>
    BY <1>1 DEF Client, ClientGone, ClientSend, ListenerShutdown, vars
  <2> QED BY <2>1 DEF Nameless
<1>2. CASE CreateLexer \/ ReadHelloType \/ ReadClientHello \/ SendServerHello \/ SendAuthRequest
  <2>1. /\ pc \in {"create", "hello", "hello_enc", "send_hello", "send_request"}
        /\ userId' = userId
    BY <1>2 DEF CreateLexer, ReadHelloType, ReadClientHello, SendServerHello, SendAuthRequest
  <2> QED BY <2>1 DEF Nameless
<1>3. CASE ReadAuthType \/ ReadAuthStrBegin \/ ReadAuthName \/ ReadAuthStrEnd
           \/ DrainAuthName \/ SendAuthFail
  <2>1. pc \in AuthStates /\ userId' = userId
    BY <1>3 DEF ReadAuthType, ReadAuthStrBegin, ReadAuthName, ReadAuthStrEnd,
                DrainAuthName, SendAuthFail, AuthStates
  <2> QED BY <2>1 DEF Nameless
<1>4. CASE ReadCredentials
  <2>1. pc \in AuthStates /\ (userId' = userId \/ pc' = "send_ok")
    BY <1>4 DEF ReadCredentials, AfterVerdict, Goto, AuthStates
  <2> QED BY <2>1 DEF Nameless, AuthStates
<1>5. CASE SendAuthOk \/ Repl
  <2>1. pc' \in {"repl", "send_goodbye", "send_violation", "send_syntax"} \cup ExecStates \cup Ended
    BY <1>5 DEF SendAuthOk, Repl, ReadRequestType, ReadStmtStrBegin, ReadStmtChar,
                StatementParsed, StatementRejected, StatementAborted, SendSyntaxError,
                SendViolation, SendGoodbye, Deliver, Goto, ExecStates, Ended
  <2> QED BY <2>1 DEF Nameless, AuthStates, ExecStates, Ended
<1> QED BY <1>1, <1>2, <1>3, <1>4, <1>5 DEF Next, Server, Authentication

(* The session and its automaton, a step before the authentication is      *)
(* asked for.                                                              *)
LEMMA GreetingMoves ==
  ASSUME TypeOK,
         CreateLexer \/ ReadHelloType \/ ReadClientHello \/ SendServerHello \/ SendAuthRequest
  PROVE  AsCoded!Step(Heard, Broken)
<1>1. CASE CreateLexer
  <2>1. pc = "create" /\ pc' \in {"hello", "aborted"}
    BY <1>1 DEF CreateLexer, Goto
  <2>2. Heard = {}
    BY <2>1, NothingHeard DEF AuthStates
  <2> QED BY <2>1, <2>2, UnheardMoves DEF AutomatonState, AuthStates, ExecStates
<1>2. CASE ReadHelloType
  <2>1. CASE Readable(TypeLen) /\ MsgType = "HELLO" /\ pc' = "hello_enc"
    <3>1. pc = "hello"
      BY <1>2 DEF ReadHelloType
    <3>2. Heard = {}
      BY <2>1, <3>1 DEF Heard, HearsType, HearsEncoding, HearsName, HearsCredentials, AuthStates
    <3> QED BY <2>1, <3>1, <3>2, UnheardMoves DEF AutomatonState
  <2>2. CASE Readable(TypeLen) /\ MsgType # "HELLO" /\ pc' \in {"closed", "error"}
    <3>1. pc = "hello"
      BY <1>2 DEF ReadHelloType
    <3>2. Heard = TypeConditions
      BY <2>2, <3>1, TypeHeard
    <3>3. PICK c \in {"b", "c", "d", "e", "f", "g"} : c \in Heard
      BY <2>2, <3>2, TypeHasConditions
    <3>4. AutomatonState = 0 /\ AutomatonState' = 4
      BY <2>2, <3>1 DEF AutomatonState, AuthStates, ExecStates
    <3> QED BY <3>3, <3>4, Cells, HeardMoves
  <2>3. CASE ~ Readable(TypeLen) /\ pc' = "error"
    <3>1. pc = "hello"
      BY <1>2 DEF ReadHelloType
    <3>2. Heard = {}
      BY <2>3, <3>1 DEF Heard, HearsType, HearsEncoding, HearsName, HearsCredentials, AuthStates
    <3> QED BY <2>3, <3>1, <3>2, UnheardMoves DEF AutomatonState, AuthStates, ExecStates
  <2> QED BY <1>2, <2>1, <2>2, <2>3, ShortOrNot DEF ReadHelloType, Goto
<1>3. CASE ReadClientHello
  <2>1. pc = "hello_enc"
    BY <1>3 DEF ReadClientHello
  <2>2. CASE Readable(2)
    <3>1. pc' = IF Convertible(clientEnc', ServerEncoding) /\ Convertible(clientEnc', 2)
                THEN "send_hello" ELSE "error"
      BY <1>3, <2>2, ShortOrNot DEF ReadClientHello, StoresEncoding, Goto
    <3>2. Heard = {IF Convertible(clientEnc', ServerEncoding) /\ Convertible(clientEnc', 2)
                   THEN "a" ELSE "g"}
      BY <2>1, <2>2, <3>1 DEF Heard, HearsType, HearsEncoding
    <3>3. CASE Convertible(clientEnc', ServerEncoding) /\ Convertible(clientEnc', 2)
      <4>1. "a" \in Heard /\ pc' = "send_hello"
        BY <3>1, <3>2, <3>3
      <4>2. AutomatonState = 0 /\ AutomatonState' = 1
        BY <2>1, <4>1 DEF AutomatonState
      <4> QED BY <4>1, <4>2, Cells, HeardMoves
    <3>4. CASE ~ (Convertible(clientEnc', ServerEncoding) /\ Convertible(clientEnc', 2))
      <4>1. "g" \in Heard /\ pc' = "error"
        BY <3>1, <3>2, <3>4
      <4>2. AutomatonState = 0 /\ AutomatonState' = 4
        BY <2>1, <4>1 DEF AutomatonState, AuthStates, ExecStates
      <4> QED BY <4>1, <4>2, Cells, HeardMoves
    <3> QED BY <3>3, <3>4
  <2>3. CASE ~ Readable(2)
    <3>1. pc' = "error"
      BY <1>3, <2>3 DEF ReadClientHello, Goto
    <3>2. Heard = {}
      BY <2>1, <2>3 DEF Heard, HearsType, HearsEncoding, HearsName, HearsCredentials, AuthStates
    <3> QED BY <2>1, <3>1, <3>2, UnheardMoves DEF AutomatonState, AuthStates, ExecStates
  <2> QED BY <2>2, <2>3
<1>4. CASE SendServerHello \/ SendAuthRequest
  <2>1. /\ pc \in {"send_hello", "send_request"}
        /\ pc' \in {"send_request", "auth"} \/ (Broken /\ pc' \in {"error", "aborted"})
    BY <1>4 DEF SendServerHello, SendAuthRequest, Deliver, Goto, Broken
  <2>2. Heard = {}
    BY <2>1, NothingHeard DEF AuthStates
  <2> QED BY <2>1, <2>2, UnheardMoves DEF AutomatonState, AuthStates, ExecStates
<1> QED BY <1>1, <1>2, <1>3, <1>4

(* A step of the authentication: the verdict takes the session on, and any *)
(* other message but another attempt ends it.                              *)
LEMMA AuthenticationMoves ==
  ASSUME TypeOK, Authentication, Nameless
  PROVE  AsCoded!Step(Heard, Broken)
<1>1. CASE ReadAuthType
  <2>1. pc = "auth" /\ AutomatonState = 1
    BY <1>1 DEF ReadAuthType, AutomatonState, AuthStates
  <2>2. CASE Readable(TypeLen) /\ MsgType = "AUTH"
    <3>1. pc' = "auth_str"
      BY <1>1, <2>2, ShortOrNot DEF ReadAuthType, Goto
    <3>2. Heard = {}
      BY <2>1, <2>2, <3>1 DEF Heard, HearsType, HearsEncoding, HearsName, HearsCredentials, AuthStates
    <3> QED BY <2>1, <3>1, <3>2, UnheardMoves DEF AutomatonState, AuthStates
  <2>3. CASE Readable(TypeLen) /\ MsgType # "AUTH"
    <3>1. pc' \in {"closed", "error"}
      BY <1>1, <2>3, ShortOrNot DEF ReadAuthType, Goto
    <3>2. Heard = TypeConditions
      BY <2>1, <2>3, <3>1, TypeHeard
    <3>3. PICK c \in {"a", "d", "e", "f", "g"} : c \in Heard
      BY <2>3, <3>2, TypeHasConditions
    <3>4. AutomatonState' = 4
      BY <3>1 DEF AutomatonState, AuthStates, ExecStates
    <3> QED BY <2>1, <3>3, <3>4, Cells, HeardMoves
  <2>4. CASE ~ Readable(TypeLen)
    <3>1. pc' = "error" /\ Broken
      BY <1>1, <2>4 DEF ReadAuthType, ReadFails, Goto, Broken
    <3>2. Heard = {}
      BY <2>1, <2>4, <3>1 DEF Heard, HearsType, HearsEncoding, HearsName, HearsCredentials, AuthStates
    <3> QED BY <3>1, <3>2, UnheardMoves DEF AutomatonState, AuthStates, ExecStates
  <2> QED BY <2>2, <2>3, <2>4
<1>2. CASE ReadAuthStrBegin \/ ReadAuthName \/ ReadAuthStrEnd \/ DrainAuthName
  <2>1. /\ pc \in AuthStates \ {"auth", "auth_cred", "auth_reject"}
        /\ pc' \in AuthStates \/ (Broken /\ pc' = "aborted")
    BY <1>2 DEF ReadAuthStrBegin, ReadAuthName, ReadAuthStrEnd, DrainAuthName,
                AfterStrBegin, AfterName, Deliver, Goto, AuthStates, Broken
  <2>2. CASE pc' = "auth_reject"
    <3>1. Heard = {"b"}
      BY <2>1, <2>2 DEF Heard, HearsType, HearsEncoding, HearsName, HearsCredentials, AuthStates
    <3>2. AutomatonState = 1 /\ AutomatonState' = 1
      BY <2>1, <2>2 DEF AutomatonState, AuthStates
    <3>3. "b" \in Heard
      BY <3>1
    <3> QED BY <3>2, <3>3, Cells, HeardMoves
  <2>3. CASE pc' # "auth_reject"
    <3>1. Heard = {}
      BY <2>1, <2>3, NothingHeard
    <3>2. AutomatonState = 1 /\ (AutomatonState' = 1 \/ (Broken /\ AutomatonState' = 4))
      BY <2>1 DEF AutomatonState, AuthStates, ExecStates
    <3> QED BY <3>1, <3>2, UnheardMoves
  <2> QED BY <2>2, <2>3
<1>3. CASE ReadCredentials
  <2>1. pc = "auth_cred" /\ AutomatonState = 1 /\ userId = 0
    BY <1>3 DEF ReadCredentials, AutomatonState, AuthStates, Nameless
  <2>2. CASE Readable(CredSz)
    <3>1. \/ userId' = 1 /\ pc' = "send_ok"
          \/ userId' = 0 /\ pc' = "auth_reject"
      BY <1>3, <2>1, <2>2, ShortOrNot DEF ReadCredentials, AfterVerdict, Goto
    <3>2. Heard = {IF userId' # 0 THEN "c" ELSE "b"}
      BY <2>1, <2>2, <3>1 DEF Heard, HearsType, HearsEncoding, HearsCredentials
    <3>3. CASE userId' = 1 /\ pc' = "send_ok"
      <4>1. "c" \in Heard /\ AutomatonState' = 2
        BY <3>2, <3>3 DEF AutomatonState, AuthStates
      <4> QED BY <2>1, <4>1, Cells, HeardMoves
    <3>4. CASE userId' = 0 /\ pc' = "auth_reject"
      <4>1. "b" \in Heard /\ AutomatonState' = 1
        BY <3>2, <3>4 DEF AutomatonState, AuthStates
      <4> QED BY <2>1, <4>1, Cells, HeardMoves
    <3> QED BY <3>1, <3>3, <3>4
  <2>3. CASE ~ Readable(CredSz)
    <3>1. pc' = "auth_reject"
      BY <1>3, <2>3 DEF ReadCredentials, Goto
    <3>2. Heard = {}
      BY <2>1, <2>3 DEF Heard, HearsType, HearsEncoding, HearsName, HearsCredentials
    <3> QED BY <2>1, <3>1, <3>2, UnheardMoves DEF AutomatonState, AuthStates
  <2> QED BY <2>2, <2>3
<1>4. CASE SendAuthFail \/ SendAuthOk
  <2>1. \/ pc = "auth_reject" /\ (pc' = "auth" \/ (Broken /\ pc' \in {"error", "aborted"}))
        \/ pc = "send_ok" /\ (pc' = "repl" \/ (Broken /\ pc' \in {"error", "aborted"}))
    BY <1>4 DEF SendAuthFail, SendAuthOk, Deliver, Goto, Broken
  <2>2. Heard = {}
    BY <2>1, NothingHeard DEF AuthStates
  <2> QED BY <2>1, <2>2, UnheardMoves DEF AutomatonState, AuthStates, ExecStates
<1> QED BY <1>1, <1>2, <1>3, <1>4 DEF Authentication

(* A step among the requests: a statement goes and comes back, and any     *)
(* other message is the last.                                              *)
LEMMA RequestMoves ==
  ASSUME TypeOK, Repl
  PROVE  AsCoded!Step(Heard, Broken)
<1>1. CASE ReadRequestType
  <2>1. pc = "repl" /\ AutomatonState = 2
    BY <1>1 DEF ReadRequestType, AutomatonState, AuthStates
  <2>2. CASE Readable(TypeLen)
    <3>1. pc' = IF MsgType = "SQL" THEN "exec_str"
                ELSE IF MsgType = "GOODBYE" THEN "send_goodbye" ELSE "send_violation"
      BY <1>1, <2>2, ShortOrNot DEF ReadRequestType, Goto
    <3>2. Heard = TypeConditions
      BY <2>1, <2>2, <3>1, TypeHeard
    <3>3. CASE MsgType = "SQL"
      <4>1. "d" \in Heard /\ AutomatonState' = 3
        BY <3>1, <3>2, <3>3, TypeHasConditions DEF AutomatonState, AuthStates, ExecStates
      <4> QED BY <2>1, <4>1, Cells, HeardMoves
    <3>4. CASE MsgType # "SQL"
      <4>1. PICK c \in {"a", "b", "c", "e", "f", "g"} : c \in Heard
        BY <3>2, <3>4, TypeHasConditions
      <4>2. AutomatonState' = 4
        BY <3>1, <3>4 DEF AutomatonState, AuthStates, ExecStates
      <4> QED BY <2>1, <4>1, <4>2, Cells, HeardMoves
    <3> QED BY <3>3, <3>4
  <2>3. CASE ~ Readable(TypeLen)
    <3>1. pc' = "error" /\ Broken
      BY <1>1, <2>3 DEF ReadRequestType, ReadFails, Goto, Broken
    <3>2. Heard = {}
      BY <2>1, <2>3 DEF Heard, HearsType, HearsEncoding, HearsName, HearsCredentials, AuthStates
    <3> QED BY <3>1, <3>2, UnheardMoves DEF AutomatonState, AuthStates, ExecStates
  <2> QED BY <2>2, <2>3
<1>2. CASE \/ ReadStmtStrBegin \/ ReadStmtChar \/ StatementParsed \/ StatementRejected
           \/ StatementAborted
  <2>1. /\ pc \in ExecStates
        /\ pc' \in ExecStates \cup {"send_syntax", "repl", "error"}
    BY <1>2 DEF ReadStmtStrBegin, ReadStmtChar, StatementParsed, StatementRejected,
                StatementAborted, Goto, ExecStates
  <2>2. Heard = {}
    BY <2>1, NothingHeard DEF AuthStates, ExecStates
  <2> QED BY <2>1, <2>2, UnheardMoves DEF AutomatonState, AuthStates, ExecStates
<1>3. CASE SendSyntaxError \/ SendViolation \/ SendGoodbye
  <2>1. /\ pc \in {"send_syntax", "send_goodbye", "send_violation"}
        /\ pc' \in Ended
    BY <1>3 DEF SendSyntaxError, SendViolation, SendGoodbye, Deliver, Goto, Ended
  <2>2. Heard = {}
    BY <2>1, NothingHeard DEF AuthStates
  <2> QED BY <2>1, <2>2, UnheardMoves DEF AutomatonState, AuthStates, ExecStates, Ended
<1> QED BY <1>1, <1>2, <1>3 DEF Repl

(* The session follows the table of session.c:13-24 but for the cells that *)
(* Violations names, for every client and every size: each message it      *)
(* hears takes it where its cell says, and nothing else moves it but the   *)
(* end of a statement and a connection that breaks.                        *)
THEOREM TableFollowed == Spec => FollowsTable
<1>1. Init => AsCoded!Init /\ Nameless
  BY DEF Init, AsCoded!Init, AutomatonState, Nameless
<1>2. TypeOK /\ Nameless /\ [Next]_vars => [AsCoded!Step(Heard, Broken)]_vars
  <2> SUFFICES ASSUME TypeOK, Nameless, Next PROVE AsCoded!Step(Heard, Broken)
    OBVIOUS
  <2>1. CASE Client \/ ListenerShutdown
    <3>1. UNCHANGED pc
      BY <2>1 DEF Client, ClientGone, ClientSend, ListenerShutdown
    <3>2. Heard = {}
      BY <3>1 DEF Heard, HearsType, HearsEncoding, HearsName, HearsCredentials, AuthStates
    <3> QED BY <3>1, <3>2, UnheardMoves DEF AutomatonState
  <2>2. CASE Server
    BY <2>2, GreetingMoves, AuthenticationMoves, RequestMoves DEF Server
  <2> QED BY <2>1, <2>2 DEF Next
<1> QED BY <1>1, <1>2, NamelessStep, TypeCorrect, PTL DEF Spec, FollowsTable

----------------------------------------------------------------------------
(* The stream and the messages in it.                                      *)

(* The byte of the stream that p of the message m is.                      *)
Mark(m, p) == [byte |-> m[p], first |-> p = 1]

Begins(s, i) == s[i].first

(* From place i on, the stream s goes on with what is behind the first k   *)
(* bytes of m, and then with another message, and breaks off within m only *)
(* if the client is gone.                                                  *)
Follows(s, open, i, m, k) ==
  /\ \A p \in k + 1 .. Len(m) : i + p - k - 1 <= Len(s) => s[i + p - k - 1] = Mark(m, p)
  /\ i + Len(m) - k <= Len(s) => Begins(s, i + Len(m) - k)
  /\ open => i + Len(m) - k <= Len(s) + 1

(* Each message of the stream is one of the client's.                      *)
Whole(s, open) ==
  \A i \in 1 .. Len(s) : Begins(s, i) => \E m \in ConformantMsgs : Follows(s, open, i, m, 0)

AtMessage(s) == s # <<>> => Begins(s, 1)

(* What can be read is the rest of m behind its first k bytes.             *)
Rest(s, open, m, k) == k \in 0 .. Len(m) /\ Follows(s, open, 1, m, k)

LEMMA SameBegins ==
  ASSUME NEW s, NEW i, NEW t, NEW j, t[j] = s[i]
  PROVE  Begins(t, j) <=> Begins(s, i)
  BY DEF Begins

LEMMA MarksFirst ==
  ASSUME NEW m, NEW p
  PROVE  Mark(m, p).first = (p = 1) /\ Mark(m, p).byte = m[p]
  BY DEF Mark

LEMMA ConformantMsgsAreBytes ==
  ASSUME NEW m \in ConformantMsgs
  PROVE  m \in Seq(Byte) /\ Len(m) \in Nat \ {0} /\ Conformant(m)
  BY SessionAssumption DEF SessionAssumption, ConformantMsgs, Conformant

(* One reads on in a message.                                              *)
LEMMA FollowsOn ==
  ASSUME NEW s \in Seq(StreamByte), NEW open \in BOOLEAN, NEW i \in Nat \ {0},
         NEW m \in Seq(Byte), NEW k \in Nat, NEW n \in Nat, k + n <= Len(m),
         Follows(s, open, i, m, k)
  PROVE  Follows(s, open, i + n, m, k + n)
<1>1. Len(m) \in Nat /\ Len(s) \in Nat
  OBVIOUS
<1>2. (i + n) + Len(m) - (k + n) = i + Len(m) - k
  BY <1>1
<1>3. \A p \in Int : (i + n) + p - (k + n) - 1 = i + p - k - 1
  OBVIOUS
<1>4. \A p \in k + n + 1 .. Len(m) : p \in k + 1 .. Len(m) /\ p \in Int
  BY <1>1
<1> QED BY <1>2, <1>3, <1>4 DEF Follows

(* The first n bytes of the stream are read.                               *)
LEMMA TakeFollows ==
  ASSUME NEW s \in Seq(StreamByte), NEW open \in BOOLEAN, NEW i \in Nat \ {0},
         NEW m \in Seq(Byte), NEW k \in Nat, k <= Len(m), NEW n \in 0 .. Len(s),
         Follows(s, open, i + n, m, k), NEW t, t = SubSeq(s, n + 1, Len(s))
  PROVE  Follows(t, open, i, m, k)
<1>1. Len(m) \in Nat /\ Len(s) \in Nat /\ n \in Nat
  OBVIOUS
<1>2. /\ t \in Seq(StreamByte) /\ Len(t) = Len(s) - n
      /\ \A j \in 1 .. Len(s) - n : t[j] = s[n + j]
  BY <1>1
<1>3. ASSUME NEW p \in k + 1 .. Len(m), i + p - k - 1 <= Len(t)
      PROVE  t[i + p - k - 1] = Mark(m, p)
  <2>3. PICK y \in Int : y = i + p - k - 1 /\ y >= 1 /\ (i + n) + p - k - 1 = n + y
    <3>1. p \in Int /\ p >= k + 1
      BY <1>1
    <3>2. i + p - k - 1 \in Int /\ i + p - k - 1 >= 1 /\ (i + n) + p - k - 1 = n + (i + p - k - 1)
      BY <1>1, <3>1
    <3> QED BY <3>2
  <2>4. PICK ls \in Nat, x \in Nat : ls = Len(s) /\ x = n
    BY <1>1
  <2>5. Len(t) = ls - x
    BY <1>2, <2>4
  <2>6. y <= ls - x
    BY <1>3, <2>3, <2>5
  <2>7. y \in 1 .. ls - x
    BY <2>3, <2>6
  <2>1. i + p - k - 1 \in 1 .. Len(s) - n /\ n + (i + p - k - 1) = (i + n) + p - k - 1
    BY <2>3, <2>4, <2>7
  <2>2. (i + n) + p - k - 1 <= Len(s)
    BY <1>1, <2>1
  <2> QED BY <1>2, <2>1, <2>2 DEF Follows
<1>4. i + Len(m) - k <= Len(t) => Begins(t, i + Len(m) - k)
  <2> SUFFICES ASSUME NEW j, j = i + Len(m) - k, j <= Len(t) PROVE Begins(t, j)
    OBVIOUS
  <2>1. j \in 1 .. Len(s) - n /\ n + j = (i + n) + Len(m) - k /\ n + j <= Len(s)
    BY <1>1, <1>2, SMTT(60)
  <2>2. Begins(s, n + j)
    BY <2>1 DEF Follows
  <2>3. t[j] = s[n + j]
    BY <1>2, <2>1
  <2> QED BY <2>2, <2>3 DEF Begins
<1>5. open => i + Len(m) - k <= Len(t) + 1
  BY <1>1, <1>2 DEF Follows
<1> QED BY <1>3, <1>4, <1>5 DEF Follows

(* Reading n bytes of a message.                                           *)
LEMMA ReadFollows ==
  ASSUME NEW s \in Seq(StreamByte), NEW open \in BOOLEAN,
         NEW m \in Seq(Byte), NEW k \in Nat, NEW n \in 0 .. Len(s), k + n <= Len(m),
         Follows(s, open, 1, m, k), NEW t, t = SubSeq(s, n + 1, Len(s))
  PROVE  Follows(t, open, 1, m, k + n)
<1>1. n \in Nat
  OBVIOUS
<1>2. Follows(s, open, 1 + n, m, k + n)
  BY <1>1, FollowsOn
<1>3. k + n \in Nat /\ 1 \in Nat \ {0}
  BY <1>1
<1> HIDE DEF Follows
<1> QED BY <1>2, <1>3, TakeFollows

LEMMA TakeWhole ==
  ASSUME NEW s \in Seq(StreamByte), NEW open \in BOOLEAN, NEW n \in 0 .. Len(s),
         Whole(s, open), NEW t, t = SubSeq(s, n + 1, Len(s))
  PROVE  Whole(t, open)
<1>1. /\ n \in Nat /\ Len(s) \in Nat
      /\ Len(t) = Len(s) - n /\ \A j \in 1 .. Len(s) - n : t[j] = s[n + j]
  OBVIOUS
<1>2. ASSUME NEW i \in 1 .. Len(t), Begins(t, i)
      PROVE  \E m \in ConformantMsgs : Follows(t, open, i, m, 0)
  <2>1. i \in Nat \ {0} /\ i + n \in 1 .. Len(s) /\ Begins(s, i + n)
    <3>1. i \in Nat \ {0} /\ i + n \in 1 .. Len(s) /\ t[i] = s[n + i] /\ n + i = i + n
      BY <1>1, <1>2
    <3> QED BY <1>2, <3>1, SameBegins
  <2>2. PICK m \in ConformantMsgs : Follows(s, open, i + n, m, 0)
    BY <2>1 DEF Whole
  <2>3. m \in Seq(Byte) /\ 0 <= Len(m)
    BY ConformantMsgsAreBytes
  <2>4. Follows(t, open, i, m, 0)
    BY <2>1, <2>2, <2>3, TakeFollows
  <2> QED BY <2>4
<1> QED BY <1>2 DEF Whole

(* The client sends another message.                                       *)
LEMMA FrameMarks ==
  ASSUME NEW x \in Seq(Byte)
  PROVE  /\ Frame(x) \in Seq(StreamByte) /\ Len(Frame(x)) = Len(x)
         /\ \A i \in 1 .. Len(x) : Frame(x)[i] = Mark(x, i)
<1>1. Frame(x) \in Seq(StreamByte)
  BY FrameIsStream
<1> QED BY <1>1 DEF Frame, Mark

LEMMA Joined ==
  ASSUME NEW s \in Seq(StreamByte), NEW f \in Seq(StreamByte)
  PROVE  /\ s \o f \in Seq(StreamByte) /\ Len(s \o f) = Len(s) + Len(f)
         /\ \A j \in 1 .. Len(s) : (s \o f)[j] = s[j]
         /\ \A j \in 1 .. Len(f) : (s \o f)[Len(s) + j] = f[j]
  OBVIOUS

LEMMA SentMarks ==
  ASSUME NEW s \in Seq(StreamByte), NEW x \in Seq(Byte)
  PROVE  /\ s \o Frame(x) \in Seq(StreamByte) /\ Len(s \o Frame(x)) = Len(s) + Len(x)
         /\ \A j \in 1 .. Len(s) : (s \o Frame(x))[j] = s[j]
         /\ \A j \in 1 .. Len(x) : (s \o Frame(x))[Len(s) + j] = Mark(x, j)
<1> DEFINE f == Frame(x)
<1>1. /\ f \in Seq(StreamByte) /\ Len(f) = Len(x)
      /\ \A i \in 1 .. Len(x) : f[i] = Mark(x, i)
  BY FrameMarks
<1> HIDE DEF f
<1>2. /\ s \o f \in Seq(StreamByte) /\ Len(s \o f) = Len(s) + Len(f)
      /\ \A j \in 1 .. Len(s) : (s \o f)[j] = s[j]
      /\ \A j \in 1 .. Len(f) : (s \o f)[Len(s) + j] = f[j]
  BY <1>1, Joined
<1>3. /\ s \o f \in Seq(StreamByte) /\ Len(s \o f) = Len(s) + Len(x)
      /\ \A j \in 1 .. Len(s) : (s \o f)[j] = s[j]
      /\ \A j \in 1 .. Len(x) : (s \o f)[Len(s) + j] = Mark(x, j)
  BY <1>1, <1>2
<1> QED BY <1>3 DEF f

LEMMA EndsWithin ==
  ASSUME NEW i \in Nat \ {0}, NEW len \in Nat, NEW k \in Nat, NEW n \in Nat,
         k <= len, i + len - k <= n + 1
  PROVE  i + len - k \in 1 .. n \/ i + len - k = n + 1
OBVIOUS

LEMMA SendFollows ==
  ASSUME NEW s \in Seq(StreamByte), NEW i \in Nat \ {0},
         NEW m \in Seq(Byte), NEW k \in Nat, k <= Len(m), Follows(s, TRUE, i, m, k),
         NEW t \in Seq(StreamByte), Len(t) > Len(s), \A j \in 1 .. Len(s) : t[j] = s[j],
         Begins(t, Len(s) + 1)
  PROVE  Follows(t, TRUE, i, m, k)
<1>1. Len(m) \in Nat /\ Len(s) \in Nat /\ Len(t) \in Nat
  OBVIOUS
<1>2. i + Len(m) - k <= Len(s) + 1
  BY DEF Follows
<1>3. ASSUME NEW p \in k + 1 .. Len(m)
      PROVE  t[i + p - k - 1] = Mark(m, p)
  <2>1. i + p - k - 1 \in 1 .. Len(s)
    BY <1>1, <1>2
  <2> QED BY <2>1, SMTT(60) DEF Follows
<1>4. Begins(t, i + Len(m) - k)
  <2>1. i + Len(m) - k \in 1 .. Len(s) \/ i + Len(m) - k = Len(s) + 1
    BY <1>1, <1>2, EndsWithin, SMTT(60)
  <2>2. CASE i + Len(m) - k \in 1 .. Len(s)
    <3>1. Begins(s, i + Len(m) - k)
      BY <2>2 DEF Follows
    <3>2. t[i + Len(m) - k] = s[i + Len(m) - k]
      BY <2>2
    <3> QED BY <3>1, <3>2, SameBegins
  <2>3. CASE i + Len(m) - k = Len(s) + 1
    BY <2>3
  <2> QED BY <2>1, <2>2, <2>3
<1>5. i + Len(m) - k <= Len(t) + 1
  BY <1>1, <1>2
<1> QED BY <1>3, <1>4, <1>5 DEF Follows

LEMMA SendWhole ==
  ASSUME NEW s \in Seq(StreamByte), Whole(s, TRUE),
         NEW x \in ConformantMsgs, NEW t, t = s \o Frame(x)
  PROVE  Whole(t, TRUE)
<1>1. x \in Seq(Byte) /\ x # <<>> /\ Len(x) \in Nat \ {0} /\ Len(s) \in Nat
  BY ConformantMsgsAreBytes
<1>2. /\ t \in Seq(StreamByte) /\ Len(t) = Len(s) + Len(x)
      /\ \A j \in 1 .. Len(s) : t[j] = s[j]
      /\ \A j \in 1 .. Len(x) : t[Len(s) + j] = Mark(x, j)
  BY <1>1, SentMarks
<1>3. ASSUME NEW i \in 1 .. Len(t), Begins(t, i)
      PROVE  \E m \in ConformantMsgs : Follows(t, TRUE, i, m, 0)
  <2>1. CASE i <= Len(s)
    <3>1. i \in 1 .. Len(s) /\ i \in Nat \ {0} /\ Begins(s, i)
      <4>1. i \in 1 .. Len(s) /\ i \in Nat \ {0} /\ t[i] = s[i]
        BY <1>1, <1>2, <2>1
      <4> QED BY <1>3, <4>1, SameBegins
    <3>2. PICK m \in ConformantMsgs : Follows(s, TRUE, i, m, 0)
      BY <3>1 DEF Whole
    <3>3. m \in Seq(Byte) /\ 0 <= Len(m)
      BY ConformantMsgsAreBytes
    <3>4. Len(t) > Len(s) /\ Begins(t, Len(s) + 1)
      <4>1. 1 \in 1 .. Len(x) /\ Len(t) > Len(s)
        BY <1>1, <1>2
      <4>2. t[Len(s) + 1] = Mark(x, 1)
        BY <1>2, <4>1
      <4> QED BY <4>1, <4>2, MarksFirst DEF Begins
    <3>5. Follows(t, TRUE, i, m, 0)
      BY <1>2, <3>1, <3>2, <3>3, <3>4, SendFollows
    <3> QED BY <3>5
  <2>2. CASE i > Len(s)
    <3>1. PICK j \in 1 .. Len(x) : i = Len(s) + j
      <4>1. i - Len(s) \in 1 .. Len(x) /\ i = Len(s) + (i - Len(s))
        BY <1>1, <1>2, <2>2
      <4> QED BY <4>1
    <3>2. Mark(x, j).first
      BY <1>2, <1>3, <3>1 DEF Begins
    <3>3. j = 1
      BY <3>2, MarksFirst
    <3>4. /\ \A p \in 0 + 1 .. Len(x) : t[i + p - 0 - 1] = Mark(x, p)
          /\ ~ i + Len(x) - 0 <= Len(t)
          /\ i + Len(x) - 0 <= Len(t) + 1
      <4>1. \A p \in 1 .. Len(x) : i + p - 0 - 1 = Len(s) + p
        BY <1>1, <3>1, <3>3
      <4>2. ~ i + Len(x) - 0 <= Len(t) /\ i + Len(x) - 0 <= Len(t) + 1
        BY <1>1, <1>2, <3>1, <3>3
      <4> QED BY <1>2, <4>1, <4>2, SMTT(60)
    <3>5. Follows(t, TRUE, i, x, 0)
      BY <3>4 DEF Follows
    <3> QED BY <3>5
  <2>3. i <= Len(s) \/ i > Len(s)
    BY <1>1, <1>2
  <2> QED BY <2>1, <2>2, <2>3
<1> QED BY <1>3 DEF Whole

(* The connection breaks behind the first n bytes.                         *)
LEMMA CutFollows ==
  ASSUME NEW s \in Seq(StreamByte), NEW open \in BOOLEAN, NEW i \in Nat \ {0},
         NEW m \in Seq(Byte), NEW k \in Nat, k <= Len(m), Follows(s, open, i, m, k),
         NEW n \in 0 .. Len(s), NEW t, t = SubSeq(s, 1, n)
  PROVE  Follows(t, FALSE, i, m, k)
<1>1. Len(m) \in Nat /\ Len(s) \in Nat /\ n \in Nat
  OBVIOUS
<1>2. Len(t) = n /\ \A j \in 1 .. n : t[j] = s[j]
  BY <1>1
<1>3. ASSUME NEW p \in k + 1 .. Len(m), i + p - k - 1 <= Len(t)
      PROVE  t[i + p - k - 1] = Mark(m, p)
  <2>1. i + p - k - 1 \in 1 .. n /\ i + p - k - 1 <= Len(s)
    BY <1>1, <1>2, <1>3
  <2> QED BY <1>2, <2>1 DEF Follows
<1>4. i + Len(m) - k <= Len(t) => Begins(t, i + Len(m) - k)
  <2> SUFFICES ASSUME NEW j, j = i + Len(m) - k, j <= Len(t) PROVE Begins(t, j)
    OBVIOUS
  <2>1. j \in 1 .. n /\ j <= Len(s)
    BY <1>1, <1>2
  <2>2. Begins(s, j)
    BY <2>1 DEF Follows
  <2>3. t[j] = s[j]
    BY <1>2, <2>1
  <2> QED BY <2>2, <2>3 DEF Begins
<1> QED BY <1>3, <1>4 DEF Follows

LEMMA CutWhole ==
  ASSUME NEW s \in Seq(StreamByte), NEW open \in BOOLEAN, Whole(s, open),
         NEW n \in 0 .. Len(s), NEW t, t = SubSeq(s, 1, n)
  PROVE  Whole(t, FALSE)
<1>1. Len(s) \in Nat /\ n \in Nat /\ Len(t) = n /\ \A j \in 1 .. n : t[j] = s[j]
  OBVIOUS
<1>2. ASSUME NEW i \in 1 .. Len(t), Begins(t, i)
      PROVE  \E m \in ConformantMsgs : Follows(t, FALSE, i, m, 0)
  <2>1. i \in Nat \ {0} /\ i \in 1 .. Len(s) /\ Begins(s, i)
    <3>1. i \in Nat \ {0} /\ i \in 1 .. Len(s) /\ t[i] = s[i]
      BY <1>1, <1>2
    <3> QED BY <1>2, <3>1, SameBegins
  <2>2. PICK m \in ConformantMsgs : Follows(s, open, i, m, 0)
    BY <2>1 DEF Whole
  <2>3. m \in Seq(Byte) /\ 0 <= Len(m)
    BY ConformantMsgsAreBytes
  <2>4. Follows(t, FALSE, i, m, 0)
    BY <2>1, <2>2, <2>3, CutFollows
  <2> QED BY <2>4
<1> QED BY <1>2 DEF Whole

----------------------------------------------------------------------------
(* Texts.                                                                  *)

(* Behind the first k bytes there are left bytes of a chunk, and its next  *)
(* length behind them, or the text has ended.                              *)
InChunk(begin, end, lengths, k, left) ==
  /\ k \in begin .. end
  /\ IF left = 0 THEN k = end
     ELSE k + left + 1 \in lengths /\ k + 1 .. k + left \cap lengths = {}

(* The characters up to there.                                             *)
Characters(begin, lengths, k) == Cardinality((begin .. k) \ lengths)

(* A chunk is entered behind its length.                                   *)
LEMMA ChunkBegins ==
  ASSUME NEW m \in Seq(Byte), NEW begin \in Nat, NEW end \in Nat, NEW lengths,
         IsText(m, begin, end, lengths), NEW l \in lengths
  PROVE  InChunk(begin, end, lengths, l, m[l])
  BY DEF IsText, InChunk

(* The next character, and the length of the next chunk behind a last one. *)
LEMMA ChunkGoesOn ==
  ASSUME NEW m \in Seq(Byte), NEW begin \in Nat \ {0}, NEW end \in Nat, end <= Len(m),
         NEW lengths, IsText(m, begin, end, lengths), NEW k, NEW left \in Nat \ {0},
         InChunk(begin, end, lengths, k, left)
  PROVE  /\ k \in Nat /\ k + 1 \in begin .. end /\ k + 1 \notin lengths
         /\ left = 1 => /\ k + 2 \in lengths /\ k + 2 \in begin .. end
                        /\ InChunk(begin, end, lengths, k + 2, m[k + 2])
         /\ left > 1 => InChunk(begin, end, lengths, k + 1, left - 1)
<1>1. /\ k \in Nat /\ k \in begin .. end /\ k + left + 1 \in lengths
      /\ k + 1 .. k + left \cap lengths = {}
  BY DEF InChunk
<1>2. k + left + 1 \in begin .. end
  BY <1>1 DEF IsText
<1>3. k + 1 \in begin .. end /\ k + 1 \in k + 1 .. k + left
  BY <1>1, <1>2
<1>4. k + 1 \notin lengths
  BY <1>1, <1>3
<1>5. ASSUME left = 1
      PROVE  /\ k + 2 \in lengths /\ k + 2 \in begin .. end
             /\ InChunk(begin, end, lengths, k + 2, m[k + 2])
  <2>1. k + left + 1 = k + 2
    BY <1>1, <1>5
  <2>2. k + 2 \in lengths /\ k + 2 \in begin .. end
    BY <1>1, <1>2, <2>1
  <2> QED BY <2>2, ChunkBegins
<1>6. ASSUME left > 1 PROVE InChunk(begin, end, lengths, k + 1, left - 1)
  <2>1. left - 1 # 0 /\ (k + 1) + (left - 1) + 1 = k + left + 1
    BY <1>1, <1>6
  <2>2. (k + 1) + 1 .. (k + 1) + (left - 1) \subseteq k + 1 .. k + left
    BY <1>1, <1>6
  <2>3. (k + 1) + 1 .. (k + 1) + (left - 1) \cap lengths = {}
    BY <1>1, <2>2
  <2> QED BY <1>1, <1>3, <2>1, <2>3 DEF InChunk
<1> QED BY <1>1, <1>3, <1>4, <1>5, <1>6

LEMMA CharactersFinite ==
  ASSUME NEW begin \in Nat, NEW k \in Nat, NEW lengths
  PROVE  IsFiniteSet((begin .. k) \ lengths) /\ Characters(begin, lengths, k) \in Nat
<1>1. IsFiniteSet(begin .. k)
  BY FS_Interval
<1>2. IsFiniteSet((begin .. k) \ lengths)
  BY <1>1, FS_Subset
<1> QED BY <1>2, FS_CardinalityType DEF Characters

(* The length of a chunk is no character.                                  *)
LEMMA NoCharacter ==
  ASSUME NEW begin \in Nat, NEW k \in Nat, NEW lengths, k + 1 \in lengths
  PROVE  Characters(begin, lengths, k + 1) = Characters(begin, lengths, k)
<1>1. (begin .. k + 1) \ lengths = (begin .. k) \ lengths
  <2>1. \A i \in begin .. k + 1 : i # k + 1 => i \in begin .. k
    OBVIOUS
  <2>2. begin .. k \subseteq begin .. k + 1
    OBVIOUS
  <2> QED BY <2>1, <2>2
<1> QED BY <1>1 DEF Characters

LEMMA NoCharacterYet ==
  ASSUME NEW begin \in Nat, NEW lengths, begin \in lengths
  PROVE  Characters(begin, lengths, begin) = 0
<1>1. (begin .. begin) \ lengths = {}
  OBVIOUS
<1> QED BY <1>1, FS_EmptySet DEF Characters

LEMMA OneCharacter ==
  ASSUME NEW begin \in Nat, NEW k \in Nat, NEW lengths,
         k + 1 \in begin .. k + 1, k + 1 \notin lengths
  PROVE  Characters(begin, lengths, k + 1) = Characters(begin, lengths, k) + 1
<1>1. (begin .. k + 1) \ lengths = ((begin .. k) \ lengths) \cup {k + 1}
  <2>1. \A i \in begin .. k + 1 : i # k + 1 => i \in begin .. k
    OBVIOUS
  <2>2. begin .. k \subseteq begin .. k + 1
    OBVIOUS
  <2> QED BY <2>1, <2>2
<1>2. k + 1 \notin begin .. k
  OBVIOUS
<1>3. IsFiniteSet((begin .. k) \ lengths)
  BY CharactersFinite
<1>4. Cardinality(((begin .. k) \ lengths) \cup {k + 1}) = Cardinality((begin .. k) \ lengths) + 1
  BY <1>2, <1>3, FS_AddElement
<1> QED BY <1>1, <1>4 DEF Characters

LEMMA FewerCharacters ==
  ASSUME NEW begin \in Nat, NEW k \in Nat, NEW end \in Nat, k <= end, NEW lengths
  PROVE  Characters(begin, lengths, k) <= Characters(begin, lengths, end)
<1>1. (begin .. k) \ lengths \subseteq (begin .. end) \ lengths
  OBVIOUS
<1>2. IsFiniteSet((begin .. end) \ lengths)
  BY CharactersFinite
<1> QED BY <1>1, <1>2, FS_Subset DEF Characters

----------------------------------------------------------------------------
(* The inductive invariant: what of which message is still to be read,     *)
(* where the child is.                                                     *)

MessageStates == {"create", "hello", "send_hello", "send_request", "auth", "auth_reject",
                  "send_ok", "repl"}
TextStates == {"auth_name", "auth_str_end", "exec_reset", "exec"}

InHello(s, open) == \E m \in ConformantMsgs : Len(m) = 4 /\ Rest(s, open, m, 2)

BehindType(s, open, type) == \E m \in ConformantMsgs : m[1] = type /\ Rest(s, open, m, 1)

InName(s, open, left, removed) ==
  \E m \in ConformantMsgs, lengths \in SUBSET Nat, k \in Nat :
    /\ Len(m) >= 2 /\ IsName(m, lengths)
    /\ InChunk(TextBegins(m), NameEnds(m), lengths, k, left)
    /\ removed = Characters(TextBegins(m), lengths, k)
    /\ Rest(s, open, m, k)

AtCredentials(s, open) == \E m \in ConformantMsgs : Rest(s, open, m, NameEnds(m))

InStatement(s, open, left) ==
  \E m \in ConformantMsgs, lengths \in SUBSET Nat, k \in Nat :
    /\ Len(m) >= 2 /\ IsText(m, TextBegins(m), Len(m), lengths)
    /\ InChunk(TextBegins(m), Len(m), lengths, k, left)
    /\ Rest(s, open, m, k)

InStep(p, s, open, left, removed) ==
  /\ Whole(s, open)
  /\ p \in MessageStates => AtMessage(s)
  /\ p = "hello_enc" => InHello(s, open)
  /\ p = "auth_str" => BehindType(s, open, AuthMagic)
  /\ p = "exec_str" => BehindType(s, open, SqlMagic)
  /\ p \in {"auth_name", "auth_str_end"} => InName(s, open, left, removed)
  /\ p = "auth_name" => left # 0
  /\ p = "auth_str_end" => left = 0
  /\ p # "auth_drain"
  /\ p = "auth_cred" => AtCredentials(s, open)
  /\ p \in {"exec_reset", "exec"} => InStatement(s, open, left)

Open == peer = "up"
InHere == InStep(pc, inp, Open, chunkLeft, wr)
FramingInv == TypeInv /\ polite \in BOOLEAN /\ (polite => InHere)

(* What changes the stream but not where in which message the reader is.   *)
LEMMA PlaceKept ==
  ASSUME NEW p, NEW s, NEW t, NEW open, NEW still, NEW left, NEW removed,
         InStep(p, s, open, left, removed), Whole(t, still), AtMessage(s) => AtMessage(t),
         \A m \in ConformantMsgs : \A k \in 0 .. Len(m) :
           Follows(s, open, 1, m, k) => Follows(t, still, 1, m, k)
  PROVE  InStep(p, t, still, left, removed)
<1>1. \A m \in ConformantMsgs : \A k : Rest(s, open, m, k) => Rest(t, still, m, k)
  BY DEF Rest
<1>2. InHello(s, open) => InHello(t, still)
  BY <1>1 DEF InHello
<1>3. \A type : BehindType(s, open, type) => BehindType(t, still, type)
  BY <1>1 DEF BehindType
<1>4. InName(s, open, left, removed) => InName(t, still, left, removed)
  BY <1>1 DEF InName
<1>5. AtCredentials(s, open) => AtCredentials(t, still)
  BY <1>1 DEF AtCredentials
<1>6. InStatement(s, open, left) => InStatement(t, still, left)
  BY <1>1 DEF InStatement
<1> QED BY <1>2, <1>3, <1>4, <1>5, <1>6 DEF InStep

(* The client sends a message of its own.                                  *)
LEMMA SendKeepsStep ==
  ASSUME NEW s \in Seq(StreamByte), NEW x \in ConformantMsgs, NEW p, NEW left, NEW removed,
         InStep(p, s, TRUE, left, removed)
  PROVE  InStep(p, s \o Frame(x), TRUE, left, removed)
<1>1. x \in Seq(Byte) /\ Len(x) \in Nat \ {0}
  BY ConformantMsgsAreBytes
<1> DEFINE t == s \o Frame(x)
<1>2. /\ t \in Seq(StreamByte) /\ Len(t) = Len(s) + Len(x) /\ Len(s) \in Nat
      /\ \A j \in 1 .. Len(s) : t[j] = s[j]
      /\ \A j \in 1 .. Len(x) : t[Len(s) + j] = Mark(x, j)
  BY <1>1, SentMarks
<1>3. Whole(t, TRUE)
  BY SendWhole DEF InStep
<1> HIDE DEF t
<1>4. Len(t) > Len(s) /\ Begins(t, Len(s) + 1)
  <2>1. 1 \in 1 .. Len(x) /\ Len(t) > Len(s)
    BY <1>1, <1>2
  <2>2. t[Len(s) + 1] = Mark(x, 1)
    BY <1>2, <2>1
  <2> QED BY <2>1, <2>2, MarksFirst, ZenonT(60) DEF Begins
<1>5. ASSUME AtMessage(s) PROVE AtMessage(t)
  <2>1. CASE s = <<>>
    <3>1. Len(s) + 1 = 1
      BY <2>1
    <3> QED BY <1>4, <3>1 DEF AtMessage
  <2>2. CASE s # <<>>
    <3>1. 1 \in 1 .. Len(s)
      BY <1>2, <2>2
    <3>2. t[1] = s[1] /\ Begins(s, 1)
      BY <1>2, <1>5, <2>2, <3>1 DEF AtMessage
    <3> QED BY <3>2, SameBegins DEF AtMessage
  <2> QED BY <2>1, <2>2
<1>6. ASSUME NEW m \in ConformantMsgs, NEW k \in 0 .. Len(m), Follows(s, TRUE, 1, m, k)
      PROVE  Follows(t, TRUE, 1, m, k)
  <2>1. m \in Seq(Byte) /\ Len(m) \in Nat
    BY ConformantMsgsAreBytes
  <2>2. k \in Nat /\ k <= Len(m) /\ 1 \in Nat \ {0}
    BY <2>1
  <2> QED BY <1>2, <1>4, <1>6, <2>1, <2>2, SendFollows
<1>7. InStep(p, t, TRUE, left, removed)
  BY <1>3, <1>5, <1>6, PlaceKept
<1> QED BY <1>7 DEF t

(* The connection breaks.                                                  *)
LEMMA CutKeepsStep ==
  ASSUME NEW s \in Seq(StreamByte), NEW open \in BOOLEAN, NEW p, NEW left, NEW removed,
         InStep(p, s, open, left, removed), NEW n \in 0 .. Len(s), NEW t, t = SubSeq(s, 1, n)
  PROVE  InStep(p, t, FALSE, left, removed)
<1>1. Whole(t, FALSE)
  BY CutWhole DEF InStep
<1>2. ASSUME AtMessage(s) PROVE AtMessage(t)
  <2>1. CASE t = <<>>
    BY <2>1 DEF AtMessage
  <2>2. CASE t # <<>>
    <3>1. s # <<>> /\ t[1] = s[1]
      BY <2>2
    <3> QED BY <1>2, <3>1, SameBegins DEF AtMessage
  <2> QED BY <2>1, <2>2
<1>3. ASSUME NEW m \in ConformantMsgs, NEW k \in 0 .. Len(m), Follows(s, open, 1, m, k)
      PROVE  Follows(t, FALSE, 1, m, k)
  <2>1. m \in Seq(Byte) /\ Len(m) \in Nat
    BY ConformantMsgsAreBytes
  <2>2. k \in Nat /\ k <= Len(m) /\ 1 \in Nat \ {0}
    BY <2>1
  <2> QED BY <1>3, <2>1, <2>2, CutFollows
<1> QED BY <1>1, <1>2, <1>3, PlaceKept

----------------------------------------------------------------------------
(* What the reads of the child find.                                       *)

(* Nothing is left to read of a connection that broke.                     *)
LEMMA NothingLeft ==
  ASSUME NEW p \in {"error", "auth_reject"}, NEW open, open = FALSE, NEW left, NEW removed
  PROVE  InStep(p, <<>>, open, left, removed)
<1>1. Whole(<<>>, open)
  BY DEF Whole
<1>2. AtMessage(<<>>)
  BY DEF AtMessage
<1> QED BY <1>1, <1>2 DEF InStep

(* Nothing but the whole stream matters where nothing more is read, or     *)
(* where a message begins.                                                 *)
LEMMA StandsBetween ==
  ASSUME NEW p, NEW s, NEW open, NEW left, NEW removed, Whole(s, open), AtMessage(s),
         p \notin {"hello_enc", "auth_str", "exec_str", "auth_drain", "auth_cred"} \cup TextStates
  PROVE  InStep(p, s, open, left, removed)
  BY DEF InStep, TextStates

LEMMA Stops ==
  ASSUME NEW p, NEW s, NEW open, NEW left, NEW removed, Whole(s, open),
         p \notin {"hello_enc", "auth_str", "exec_str", "auth_drain", "auth_cred"}
                   \cup TextStates \cup MessageStates
  PROVE  InStep(p, s, open, left, removed)
  BY DEF InStep, TextStates

(* Behind the last byte of a message another begins.                       *)
LEMMA MessageRead ==
  ASSUME NEW s \in Seq(StreamByte), NEW open \in BOOLEAN, NEW m \in Seq(Byte),
         Rest(s, open, m, Len(m))
  PROVE  AtMessage(s)
<1>1. Len(m) \in Nat /\ 1 + Len(m) - Len(m) = 1 /\ Len(s) \in Nat
  OBVIOUS
<1>2. 1 <= Len(s) => Begins(s, 1)
  BY <1>1 DEF Rest, Follows
<1>3. s # <<>> => 1 <= Len(s)
  OBVIOUS
<1> QED BY <1>2, <1>3 DEF AtMessage

(* What is read is what comes next in the message.                         *)
LEMMA ReadByte ==
  ASSUME NEW s \in Seq(StreamByte), NEW open \in BOOLEAN, NEW m \in Seq(Byte), NEW k,
         Rest(s, open, m, k), NEW j \in 1 .. Len(s), k + j <= Len(m)
  PROVE  s[j].byte = m[k + j]
<1>1. /\ Len(m) \in Nat /\ k \in Nat /\ k + j \in k + 1 .. Len(m) /\ Len(s) \in Nat
      /\ 1 + (k + j) - k - 1 = j /\ j <= Len(s)
  BY DEF Rest
<1>2. s[j] = Mark(m, k + j)
  BY <1>1 DEF Rest, Follows
<1> QED BY <1>2, MarksFirst

(* There are as many bytes of it as have been sent.                        *)
LEMMA ReadOn ==
  ASSUME NEW s \in Seq(StreamByte), NEW open \in BOOLEAN, NEW m \in Seq(Byte), NEW k,
         Rest(s, open, m, k), NEW n \in 0 .. Len(s), k + n <= Len(m),
         NEW t, t = SubSeq(s, n + 1, Len(s))
  PROVE  Rest(t, open, m, k + n)
<1>1. k \in Nat /\ Len(m) \in Nat /\ n \in Nat
  BY DEF Rest
<1>2. Follows(s, open, 1, m, k)
  BY DEF Rest
<1>3. Follows(t, open, 1, m, k + n)
  BY <1>1, <1>2, ReadFollows
<1> QED BY <1>1, <1>3 DEF Rest

(* The next message, whose type has not been read.                         *)
LEMMA NextMessage ==
  ASSUME NEW s \in Seq(StreamByte), NEW open \in BOOLEAN, Whole(s, open), AtMessage(s),
         Len(s) >= 1
  PROVE  \E m \in ConformantMsgs : Rest(s, open, m, 0)
<1>1. 1 \in 1 .. Len(s) /\ s # <<>>
  OBVIOUS
<1>2. Begins(s, 1)
  BY <1>1 DEF AtMessage
<1>3. PICK m \in ConformantMsgs : Follows(s, open, 1, m, 0)
  BY <1>1, <1>2 DEF Whole
<1>4. Len(m) \in Nat \ {0}
  BY ConformantMsgsAreBytes
<1>5. 0 \in 0 .. Len(m)
  BY <1>4
<1> QED BY <1>3, <1>5 DEF Rest

(* A message type.                                                         *)
LEMMA TypeRead ==
  ASSUME inp \in Seq(StreamByte), Whole(inp, Open), AtMessage(inp),
         Readable(TypeLen), Take(TypeLen)
  PROVE  /\ Whole(inp', Open)
         /\ MsgType = "HELLO" => InHello(inp', Open)
         /\ MsgType = "AUTH" => BehindType(inp', Open, AuthMagic)
         /\ MsgType = "SQL" => BehindType(inp', Open, SqlMagic)
<1>1. TypeLen \in {1, 2} /\ Len(inp) \in Nat /\ Open \in BOOLEAN
  BY DEF TypeLen, Open
<1>2. Len(inp) >= TypeLen /\ Len(inp) >= 1 /\ inp # <<>> /\ TypeLen \in 0 .. Len(inp)
  BY <1>1 DEF Readable
<1>3. PICK m \in ConformantMsgs : Rest(inp, Open, m, 0)
  BY <1>1, <1>2, NextMessage
<1>4. m \in Seq(Byte) /\ Len(m) \in Nat \ {0} /\ Conformant(m)
  BY ConformantMsgsAreBytes
<1>5. At(1) = m[1]
  <2>1. 1 \in 1 .. Len(inp) /\ 0 + 1 <= Len(m) /\ 0 + 1 = 1
    BY <1>1, <1>2, <1>4
  <2> QED BY <1>1, <1>3, <1>4, <2>1, ReadByte DEF At
<1>6. Whole(inp', Open)
  BY <1>1, <1>2, TakeWhole DEF Take
<1>7. CASE m[1] = HelloHi
  <2>1. Len(m) = 4 /\ m[2] = HelloLo /\ TypeLen = 2
    BY <1>2, <1>4, <1>5, <1>7 DEF Conformant, TypeLen
  <2>2. At(2) = m[2]
    <3>1. 2 \in 1 .. Len(inp) /\ 0 + 2 <= Len(m) /\ 0 + 2 = 2
      BY <1>1, <1>2, <2>1
    <3> QED BY <1>1, <1>3, <1>4, <3>1, ReadByte DEF At
  <2>3. MsgType = "HELLO"
    BY <1>5, <1>7, <2>1, <2>2 DEF MsgType
  <2>4. 0 + TypeLen <= Len(m) /\ 0 + TypeLen = 2
    BY <2>1
  <2>5. Rest(inp', Open, m, 2)
    BY <1>1, <1>2, <1>3, <1>4, <2>4, ReadOn DEF Take
  <2> QED BY <1>6, <2>1, <2>3, <2>5 DEF InHello
<1>8. CASE m[1] # HelloHi
  <2>1. TypeLen = 1 /\ MsgType = Kind(m[1])
    BY <1>5, <1>8 DEF TypeLen, MsgType
  <2>2. 0 + TypeLen <= Len(m) /\ 0 + TypeLen = 1
    BY <1>4, <2>1
  <2>3. Rest(inp', Open, m, 1)
    BY <1>1, <1>2, <1>3, <1>4, <2>2, ReadOn DEF Take
  <2>4. MsgType # "HELLO"
    BY <2>1 DEF Kind
  <2>5. MsgType = "AUTH" => m[1] = AuthMagic
    BY <2>1 DEF Kind
  <2>6. MsgType = "SQL" => m[1] = SqlMagic
    BY <2>1 DEF Kind
  <2> QED BY <1>6, <2>3, <2>4, <2>5, <2>6 DEF BehindType
<1> QED BY <1>7, <1>8

(* The places of a text are places of its message.                         *)
LEMMA TextsBegin ==
  ASSUME NEW m \in Seq(Byte)
  PROVE  TextBegins(m) \in Nat \ {0} /\ NameEnds(m) \in Int /\ NameEnds(m) <= Len(m)
  BY SessionAssumption DEF SessionAssumption, TextBegins, NameEnds

LEMMA TextHasPlace ==
  ASSUME NEW m, NEW begin \in Nat, NEW end \in Int, NEW lengths, IsText(m, begin, end, lengths)
  PROVE  begin \in lengths /\ begin <= end /\ end \in Nat
<1>1. begin \in lengths /\ begin \in begin .. end
  BY DEF IsText
<1> QED BY <1>1

(* The head of a text, up to the length of its first chunk.                *)
LEMMA HeadRead ==
  ASSUME TypeOK, NEW m \in Seq(Byte), Len(m) >= 2, TextBegins(m) <= Len(m),
         Rest(inp, Open, m, 1), Readable(StrHeadLen), Take(StrHeadLen)
  PROVE  /\ TextBegins(m) \in Nat \ {0}
         /\ At(StrHeadLen) = m[TextBegins(m)]
         /\ Rest(inp', Open, m, TextBegins(m))
<1>1. /\ inp \in Seq(StreamByte) /\ Len(inp) \in Nat /\ Open \in BOOLEAN /\ Len(m) \in Nat
      /\ StrHeadLen \in Nat /\ StrHeadLen >= 2 /\ LenSz \in Nat
  BY Lengths, SessionAssumption DEF TypeOK, Open, SessionAssumption
<1>2. Len(inp) >= StrHeadLen /\ inp # <<>>
  BY <1>1 DEF Readable
<1>3. At(1) = m[2]
  <2>1. 1 \in 1 .. Len(inp) /\ 1 + 1 <= Len(m) /\ 1 + 1 = 2
    BY <1>1, <1>2
  <2> QED BY <1>1, <2>1, ReadByte DEF At
<1>4. TextBegins(m) = 1 + StrHeadLen
  BY <1>1, <1>2, <1>3 DEF TextBegins, StrHeadLen
<1>5. StrHeadLen \in 1 .. Len(inp) /\ StrHeadLen \in 0 .. Len(inp) /\ 1 + StrHeadLen <= Len(m)
  BY <1>1, <1>2, <1>4
<1>6. At(StrHeadLen) = m[TextBegins(m)]
  BY <1>1, <1>4, <1>5, ReadByte DEF At
<1>7. Rest(inp', Open, m, 1 + StrHeadLen)
  BY <1>1, <1>5, ReadOn DEF Take
<1> QED BY <1>1, <1>4, <1>6, <1>7

LEMMA NameBegins ==
  ASSUME TypeOK, BehindType(inp, Open, AuthMagic), Readable(StrHeadLen), Take(StrHeadLen)
  PROVE  InName(inp', Open, At(StrHeadLen), 0)
<1>1. PICK m \in ConformantMsgs : m[1] = AuthMagic /\ Rest(inp, Open, m, 1)
  BY DEF BehindType
<1>2. m \in Seq(Byte) /\ Len(m) \in Nat \ {0} /\ NamesUser(m)
  BY <1>1, ConformantMsgsAreBytes DEF Conformant
<1>3. PICK lengths \in SUBSET (1 .. Len(m)) : IsName(m, lengths)
  BY <1>2 DEF NamesUser
<1>4. IsText(m, TextBegins(m), NameEnds(m), lengths) /\ Len(m) >= 2
  BY <1>2, <1>3 DEF IsName, NamesUser
<1>5. TextBegins(m) \in lengths /\ TextBegins(m) <= Len(m) /\ NameEnds(m) \in Nat
  <2>1. TextBegins(m) \in Nat \ {0} /\ NameEnds(m) \in Int /\ NameEnds(m) <= Len(m)
    BY <1>2, TextsBegin
  <2>2. /\ TextBegins(m) \in lengths /\ TextBegins(m) <= NameEnds(m)
        /\ NameEnds(m) \in Nat
    BY <1>4, <2>1, TextHasPlace
  <2> QED BY <1>2, <2>1, <2>2
<1>6. /\ TextBegins(m) \in Nat \ {0} /\ At(StrHeadLen) = m[TextBegins(m)]
      /\ Rest(inp', Open, m, TextBegins(m))
  BY <1>1, <1>2, <1>4, <1>5, HeadRead
<1>7. InChunk(TextBegins(m), NameEnds(m), lengths, TextBegins(m), m[TextBegins(m)])
  BY <1>2, <1>4, <1>5, <1>6, ChunkBegins
<1>8. Characters(TextBegins(m), lengths, TextBegins(m)) = 0
  BY <1>5, <1>6, NoCharacterYet
<1>9. lengths \in SUBSET Nat
  BY <1>2, <1>3
<1> QED BY <1>3, <1>4, <1>6, <1>7, <1>8, <1>9 DEF InName

LEMMA StatementBegins ==
  ASSUME TypeOK, BehindType(inp, Open, SqlMagic), Readable(StrHeadLen), Take(StrHeadLen)
  PROVE  InStatement(inp', Open, At(StrHeadLen))
<1>1. PICK m \in ConformantMsgs : m[1] = SqlMagic /\ Rest(inp, Open, m, 1)
  BY DEF BehindType
<1>2. m \in Seq(Byte) /\ Len(m) \in Nat \ {0} /\ IsStatement(m)
  BY <1>1, ConformantMsgsAreBytes DEF Conformant
<1>3. Len(m) >= 2
  BY <1>2 DEF IsStatement
<1>4. PICK lengths \in SUBSET (1 .. Len(m)) : IsText(m, TextBegins(m), Len(m), lengths)
  BY <1>2 DEF IsStatement
<1>5. TextBegins(m) \in lengths /\ TextBegins(m) <= Len(m)
  <2>1. TextBegins(m) \in Nat \ {0} /\ Len(m) \in Int
    BY <1>2, TextsBegin
  <2> QED BY <1>4, <2>1, TextHasPlace
<1>6. /\ TextBegins(m) \in Nat \ {0} /\ At(StrHeadLen) = m[TextBegins(m)]
      /\ Rest(inp', Open, m, TextBegins(m))
  BY <1>1, <1>2, <1>3, <1>5, HeadRead
<1>7. InChunk(TextBegins(m), Len(m), lengths, TextBegins(m), m[TextBegins(m)])
  BY <1>2, <1>4, <1>5, <1>6, ChunkBegins
<1>8. lengths \in SUBSET Nat
  BY <1>2, <1>4
<1> QED BY <1>3, <1>4, <1>6, <1>7, <1>8 DEF InStatement

(* A byte of a chunk, with the next length behind a last one.              *)
LEMMA CharRead ==
  ASSUME TypeOK, NEW m \in Seq(Byte), NEW begin \in Nat \ {0}, NEW end \in Nat, end <= Len(m),
         NEW lengths, IsText(m, begin, end, lengths), NEW k, chunkLeft # 0,
         InChunk(begin, end, lengths, k, chunkLeft), Rest(inp, Open, m, k), Readable(1)
  PROVE  /\ k \in Nat /\ k + 1 \in begin .. end /\ k + 1 \notin lengths /\ At(1) = m[k + 1]
         /\ Readable(CharLen) /\ Take(CharLen) =>
              /\ InChunk(begin, end, lengths, k + CharLen, NextChunkLeft)
              /\ Rest(inp', Open, m, k + CharLen)
              /\ CharLen = 1 \/ (CharLen = 2 /\ k + 2 \in lengths)
<1>1. /\ inp \in Seq(StreamByte) /\ Len(inp) \in Nat /\ Open \in BOOLEAN /\ Len(m) \in Nat
      /\ chunkLeft \in Nat \ {0}
  BY DEF TypeOK, Open, Byte
<1>2. /\ k \in Nat /\ k + 1 \in begin .. end /\ k + 1 \notin lengths
      /\ chunkLeft = 1 => /\ k + 2 \in lengths /\ k + 2 \in begin .. end
                          /\ InChunk(begin, end, lengths, k + 2, m[k + 2])
      /\ chunkLeft > 1 => InChunk(begin, end, lengths, k + 1, chunkLeft - 1)
  BY <1>1, ChunkGoesOn
<1>3. At(1) = m[k + 1]
  <2>1. 1 \in 1 .. Len(inp) /\ k + 1 <= Len(m)
    BY <1>1, <1>2 DEF Readable
  <2> QED BY <1>1, <2>1, ReadByte DEF At
<1>4. ASSUME Readable(CharLen), Take(CharLen), chunkLeft = 1
      PROVE  /\ InChunk(begin, end, lengths, k + CharLen, NextChunkLeft)
             /\ Rest(inp', Open, m, k + CharLen)
             /\ CharLen = 2 /\ k + 2 \in lengths
  <2>1. CharLen = 2 /\ NextChunkLeft = At(2) /\ Len(inp) >= 2
    BY <1>4 DEF CharLen, NextChunkLeft, Readable
  <2>2. 2 \in 1 .. Len(inp) /\ 2 \in 0 .. Len(inp) /\ k + 2 <= Len(m)
    BY <1>1, <1>2, <1>4, <2>1
  <2>3. At(2) = m[k + 2]
    BY <1>1, <2>2, ReadByte DEF At
  <2>4. inp' = SubSeq(inp, 2 + 1, Len(inp))
    BY <1>4, <2>1 DEF Take
  <2>5. Rest(inp', Open, m, k + 2)
    BY <1>1, <2>2, <2>4, ReadOn
  <2> QED BY <1>2, <1>4, <2>1, <2>3, <2>5
<1>5. ASSUME Readable(CharLen), Take(CharLen), chunkLeft # 1
      PROVE  /\ InChunk(begin, end, lengths, k + CharLen, NextChunkLeft)
             /\ Rest(inp', Open, m, k + CharLen)
             /\ CharLen = 1
  <2>1. CharLen = 1 /\ NextChunkLeft = chunkLeft - 1 /\ Len(inp) >= 1 /\ chunkLeft > 1
    BY <1>1, <1>5 DEF CharLen, NextChunkLeft, Readable
  <2>2. 1 \in 0 .. Len(inp) /\ k + 1 <= Len(m)
    BY <1>1, <1>2, <2>1
  <2>3. inp' = SubSeq(inp, 1 + 1, Len(inp))
    BY <1>5, <2>1 DEF Take
  <2>4. Rest(inp', Open, m, k + 1)
    BY <1>1, <2>2, <2>3, ReadOn
  <2> QED BY <1>2, <2>1, <2>4
<1> QED BY <1>2, <1>3, <1>4, <1>5

(* Names are read to their end and found neither too long nor empty.       *)
LEMMA NameCharRead ==
  ASSUME TypeOK, InName(inp, Open, chunkLeft, wr), chunkLeft # 0, Readable(1)
  PROVE  /\ ValidChar(At(1))
         /\ Readable(CharLen) /\ Take(CharLen) =>
              InName(inp', Open, NextChunkLeft, wr + 1) /\ wr + 1 <= NameSz
<1>1. PICK m \in ConformantMsgs, lengths \in SUBSET Nat, k \in Nat :
        /\ Len(m) >= 2 /\ IsName(m, lengths)
        /\ InChunk(TextBegins(m), NameEnds(m), lengths, k, chunkLeft)
        /\ wr = Characters(TextBegins(m), lengths, k)
        /\ Rest(inp, Open, m, k)
  BY DEF InName
<1> DEFINE begin == TextBegins(m)
           end == NameEnds(m)
<1>2. m \in Seq(Byte) /\ begin \in Nat \ {0} /\ end \in Int /\ end <= Len(m)
  BY ConformantMsgsAreBytes, TextsBegin
<1>3. /\ IsText(m, begin, end, lengths) /\ Characters(begin, lengths, end) <= NameSz
      /\ \A i \in (begin .. end) \ lengths : ValidChar(m[i])
  BY <1>1 DEF IsName, Characters
<1>4. InChunk(begin, end, lengths, k, chunkLeft) /\ wr = Characters(begin, lengths, k)
  BY <1>1
<1>5. IsName(m, lengths) /\ Len(m) >= 2 /\ Rest(inp, Open, m, k)
  BY <1>1
<1> HIDE DEF begin, end
<1>6. end \in Nat
  BY <1>2, <1>4 DEF InChunk
<1>7. /\ k + 1 \in begin .. end /\ k + 1 \notin lengths /\ At(1) = m[k + 1]
      /\ Readable(CharLen) /\ Take(CharLen) =>
           /\ InChunk(begin, end, lengths, k + CharLen, NextChunkLeft)
           /\ Rest(inp', Open, m, k + CharLen)
           /\ CharLen = 1 \/ (CharLen = 2 /\ k + 2 \in lengths)
  BY <1>2, <1>3, <1>4, <1>5, <1>6, CharRead
<1>8. ValidChar(At(1))
  BY <1>3, <1>7
<1>9. Characters(begin, lengths, k + 1) = wr + 1
  <2>1. k + 1 \in begin .. k + 1
    BY <1>2, <1>7
  <2> QED BY <1>2, <1>4, <1>7, <2>1, OneCharacter
<1>10. ASSUME Readable(CharLen), Take(CharLen)
       PROVE  InName(inp', Open, NextChunkLeft, wr + 1) /\ wr + 1 <= NameSz
  <2>1. PICK k2 : k2 = k + CharLen
    OBVIOUS
  <2>2. /\ InChunk(begin, end, lengths, k2, NextChunkLeft) /\ Rest(inp', Open, m, k2)
        /\ k2 = k + 1 \/ (k2 = (k + 1) + 1 /\ (k + 1) + 1 \in lengths)
    <3>1. k + 2 = (k + 1) + 1
      OBVIOUS
    <3> QED BY <1>7, <1>10, <2>1, <3>1
  <2>3. k2 \in Nat /\ k2 <= end
    BY <1>2, <1>6, <2>2 DEF InChunk
  <2>4. Characters(begin, lengths, k2) = wr + 1
    <3>1. CASE k2 = k + 1
      BY <1>9, <3>1
    <3>2. CASE k2 = (k + 1) + 1 /\ (k + 1) + 1 \in lengths
      <4>1. k + 1 \in Nat
        OBVIOUS
      <4> QED BY <1>2, <1>9, <3>2, <4>1, NoCharacter
    <3> QED BY <2>2, <3>1, <3>2
  <2>5. InName(inp', Open, NextChunkLeft, wr + 1)
    BY <1>5, <2>2, <2>3, <2>4 DEF InName, begin, end
  <2>6. wr + 1 <= NameSz
    <3>1. Characters(begin, lengths, k2) <= Characters(begin, lengths, end)
      BY <1>2, <1>6, <2>3, FewerCharacters
    <3>2. /\ Characters(begin, lengths, end) \in Nat /\ NameSz \in Nat
          /\ Characters(begin, lengths, k2) \in Nat
      BY <1>2, <1>6, <2>3, CharactersFinite, SessionAssumption DEF SessionAssumption
    <3> QED BY <1>3, <2>4, <3>1, <3>2
  <2> QED BY <2>5, <2>6
<1> QED BY <1>8, <1>10

LEMMA NameRead ==
  ASSUME NEW s, NEW open, NEW removed, InName(s, open, 0, removed)
  PROVE  AtCredentials(s, open) /\ removed \in 1 .. NameSz
<1>1. PICK m \in ConformantMsgs, lengths \in SUBSET Nat, k \in Nat :
        /\ Len(m) >= 2 /\ IsName(m, lengths)
        /\ InChunk(TextBegins(m), NameEnds(m), lengths, k, 0)
        /\ removed = Characters(TextBegins(m), lengths, k)
        /\ Rest(s, open, m, k)
  BY DEF InName
<1>2. k = NameEnds(m)
  BY <1>1 DEF InChunk
<1> QED BY <1>1, <1>2 DEF AtCredentials, IsName, Characters

LEMMA CredentialsRead ==
  ASSUME TypeOK, AtCredentials(inp, Open), Readable(CredSz), Take(CredSz)
  PROVE  AtMessage(inp')
<1>1. PICK m \in ConformantMsgs : Rest(inp, Open, m, NameEnds(m))
  BY DEF AtCredentials
<1>2. /\ m \in Seq(Byte) /\ Len(m) \in Nat /\ CredSz \in Nat /\ Open \in BOOLEAN
      /\ inp \in Seq(StreamByte) /\ Len(inp) \in Nat
  BY ConformantMsgsAreBytes, SessionAssumption DEF SessionAssumption, Open, TypeOK
<1>3. NameEnds(m) + CredSz = Len(m) /\ NameEnds(m) + CredSz <= Len(m) /\ CredSz \in 0 .. Len(inp)
  BY <1>2 DEF NameEnds, Readable
<1>4. Rest(inp', Open, m, NameEnds(m) + CredSz) /\ inp' \in Seq(StreamByte)
  <2>1. inp' \in Seq(StreamByte)
    BY <1>2, TakeKeepsStream
  <2>2. Rest(inp', Open, m, NameEnds(m) + CredSz)
    BY <1>1, <1>2, <1>3, ReadOn DEF Take
  <2> QED BY <2>1, <2>2
<1> QED BY <1>2, <1>3, <1>4, MessageRead

(* A statement, which may be left before its end only for good.            *)
LEMMA StatementCharRead ==
  ASSUME TypeOK, InStatement(inp, Open, chunkLeft), chunkLeft # 0,
         Readable(CharLen), Take(CharLen)
  PROVE  InStatement(inp', Open, NextChunkLeft)
<1>1. PICK m \in ConformantMsgs, lengths \in SUBSET Nat, k \in Nat :
        /\ Len(m) >= 2 /\ IsText(m, TextBegins(m), Len(m), lengths)
        /\ InChunk(TextBegins(m), Len(m), lengths, k, chunkLeft)
        /\ Rest(inp, Open, m, k)
  BY DEF InStatement
<1>2. m \in Seq(Byte) /\ Len(m) \in Nat /\ TextBegins(m) \in Nat \ {0} /\ Len(m) <= Len(m)
  BY ConformantMsgsAreBytes, TextsBegin
<1>3. Readable(1)
  BY Lengths DEF Readable, TypeOK
<1>4. /\ InChunk(TextBegins(m), Len(m), lengths, k + CharLen, NextChunkLeft)
      /\ Rest(inp', Open, m, k + CharLen)
  BY <1>1, <1>2, <1>3, CharRead
<1>5. k + CharLen \in Nat
  BY Lengths
<1> QED BY <1>1, <1>4, <1>5 DEF InStatement

LEMMA StatementRead ==
  ASSUME NEW s \in Seq(StreamByte), NEW open \in BOOLEAN, InStatement(s, open, 0)
  PROVE  AtMessage(s)
<1>1. PICK m \in ConformantMsgs, lengths \in SUBSET Nat, k \in Nat :
        InChunk(TextBegins(m), Len(m), lengths, k, 0) /\ Rest(s, open, m, k)
  BY DEF InStatement
<1>2. k = Len(m) /\ m \in Seq(Byte)
  BY <1>1, ConformantMsgsAreBytes DEF InChunk
<1> QED BY <1>1, <1>2, MessageRead

----------------------------------------------------------------------------
(* The steps of the child.                                                 *)

(* What is to be shown of a state of the child.                            *)
LEMMA Enters ==
  ASSUME NEW p, NEW s, NEW open, NEW left, NEW removed, Whole(s, open),
         \/ p = "hello_enc" /\ InHello(s, open)
         \/ p = "auth_str" /\ BehindType(s, open, AuthMagic)
         \/ p = "exec_str" /\ BehindType(s, open, SqlMagic)
         \/ p = "auth_name" /\ InName(s, open, left, removed) /\ left # 0
         \/ p = "auth_str_end" /\ InName(s, open, left, removed) /\ left = 0
         \/ p = "auth_cred" /\ AtCredentials(s, open)
         \/ p \in {"exec_reset", "exec"} /\ InStatement(s, open, left)
         \/ p \in {"error", "aborted", "closed", "send_goodbye", "send_violation", "send_syntax"}
         \/ p \in MessageStates /\ AtMessage(s)
  PROVE  InStep(p, s, open, left, removed)
  BY DEF InStep, MessageStates

(* A read that fails.                                                      *)
LEMMA ReadFailed ==
  ASSUME NEW n, ReadFails(n), UNCHANGED environment, pc' \in {"error", "auth_reject"}
  PROVE  InHere'
<1>1. inp' = <<>> /\ Open' = FALSE
  BY DEF ReadFails, Open, environment
<1>2. InStep(pc', <<>>, FALSE, chunkLeft', wr')
  BY NothingLeft
<1>3. InStep(pc', inp', Open', chunkLeft', wr')
  BY <1>1, <1>2
<1> QED BY <1>3 DEF InHere

(* Nothing is read.                                                        *)
LEMMA NothingRead ==
  ASSUME InHere, inp' = inp, UNCHANGED environment,
         \/ pc \in MessageStates /\ pc' \in MessageStates
         \/ pc' \in {"error", "aborted", "closed", "send_goodbye", "send_violation", "send_syntax"}
  PROVE  InHere'
<1>1. Open' = Open
  BY DEF Open, environment
<1>2. Whole(inp, Open) /\ (pc \in MessageStates => AtMessage(inp))
  BY DEF InHere, InStep
<1>3. InStep(pc', inp, Open, chunkLeft', wr')
  BY <1>2, Enters
<1>4. InStep(pc', inp', Open', chunkLeft', wr')
  BY <1>1, <1>3
<1> QED BY <1>4 DEF InHere

(* The new state, when something was read.                                 *)
LEMMA Read ==
  ASSUME UNCHANGED environment, InStep(pc', inp', Open, chunkLeft', wr')
  PROVE  InHere'
<1>1. Open' = Open
  BY DEF Open, environment
<1>2. InStep(pc', inp', Open', chunkLeft', wr')
  BY <1>1
<1> QED BY <1>2 DEF InHere

(* What was in the stream is still in what is left of it.                  *)
LEMMA TakenWhole ==
  ASSUME TypeOK, Whole(inp, Open), NEW n \in Nat, Readable(n), Take(n)
  PROVE  Whole(inp', Open)
<1>1. n \in 0 .. Len(inp) /\ inp \in Seq(StreamByte) /\ Open \in BOOLEAN
  BY DEF Readable, TypeOK, Open
<1> QED BY <1>1, TakeWhole DEF Take

(* The states between two messages.                                        *)
LEMMA SilentStepsInStep ==
  ASSUME InHere, CreateLexer \/ SendServerHello \/ SendAuthRequest \/ SendAuthFail \/ SendAuthOk
  PROVE  InHere'
<1>1. inp' = inp /\ UNCHANGED environment
  BY DEF CreateLexer, SendServerHello, SendAuthRequest, SendAuthFail, SendAuthOk
<1>2. pc \in MessageStates /\ pc' \in MessageStates \cup {"error", "aborted"}
  BY DEF CreateLexer, SendServerHello, SendAuthRequest, SendAuthFail, SendAuthOk, Deliver, Goto,
         MessageStates
<1> QED BY <1>1, <1>2, NothingRead

(* Nothing is read any more.                                               *)
LEMMA LastStepsInStep ==
  ASSUME InHere, StatementRejected \/ StatementAborted \/ SendSyntaxError \/ SendViolation
                 \/ SendGoodbye
  PROVE  InHere'
<1>1. inp' = inp /\ UNCHANGED environment
  BY DEF StatementRejected, StatementAborted, SendSyntaxError, SendViolation, SendGoodbye
<1>2. pc' \in {"send_syntax", "error", "closed", "aborted"}
  BY DEF StatementRejected, StatementAborted, SendSyntaxError, SendViolation, SendGoodbye,
         Deliver, Goto
<1> QED BY <1>1, <1>2, NothingRead

(* The type of a message.                                                  *)
LEMMA TypesInStep ==
  ASSUME TypeOK, InHere, ReadHelloType \/ ReadAuthType \/ ReadRequestType
  PROVE  InHere'
<1>1. UNCHANGED environment /\ pc \in {"hello", "auth", "repl"}
  BY DEF ReadHelloType, ReadAuthType, ReadRequestType
<1>2. inp \in Seq(StreamByte) /\ Whole(inp, Open) /\ AtMessage(inp)
  BY <1>1 DEF TypeOK, InHere, InStep, MessageStates
<1>3. CASE ReadFails(TypeLen) /\ pc' = "error"
  BY <1>1, <1>3, ReadFailed
<1>4. CASE /\ Readable(TypeLen) /\ Take(TypeLen)
           /\ \/ pc' \in {"closed", "error", "send_goodbye", "send_violation"}
              \/ pc' = "hello_enc" /\ MsgType = "HELLO"
              \/ pc' = "auth_str" /\ MsgType = "AUTH"
              \/ pc' = "exec_str" /\ MsgType = "SQL"
  <2>1. /\ Whole(inp', Open)
        /\ MsgType = "HELLO" => InHello(inp', Open)
        /\ MsgType = "AUTH" => BehindType(inp', Open, AuthMagic)
        /\ MsgType = "SQL" => BehindType(inp', Open, SqlMagic)
    BY <1>2, <1>4, TypeRead
  <2>2. InStep(pc', inp', Open, chunkLeft', wr')
    BY <1>4, <2>1, Enters
  <2> QED BY <1>1, <2>2, Read
<1> QED BY <1>3, <1>4 DEF ReadHelloType, ReadAuthType, ReadRequestType, Goto

(* The rest of the hello.                                                  *)
LEMMA HelloInStep ==
  ASSUME TypeOK, InHere, ReadClientHello
  PROVE  InHere'
<1>1. UNCHANGED environment /\ Whole(inp, Open) /\ InHello(inp, Open)
  BY DEF ReadClientHello, InHere, InStep
<1>2. CASE ReadFails(2) /\ pc' = "error"
  BY <1>1, <1>2, ReadFailed
<1>3. CASE Readable(2) /\ Take(2) /\ pc' \in {"send_hello", "error"}
  <2>1. PICK m \in ConformantMsgs : Len(m) = 4 /\ Rest(inp, Open, m, 2)
    BY <1>1 DEF InHello
  <2>2. /\ m \in Seq(Byte) /\ inp \in Seq(StreamByte) /\ Open \in BOOLEAN
        /\ 2 \in 0 .. Len(inp) /\ 2 + 2 <= Len(m) /\ 2 + 2 = Len(m)
    BY <1>3, <2>1, ConformantMsgsAreBytes DEF TypeOK, Open, Readable
  <2>3. Rest(inp', Open, m, 2 + 2)
    BY <1>3, <2>1, <2>2, ReadOn DEF Take
  <2>4. inp' \in Seq(StreamByte)
    BY <1>3, <2>2, TakeKeepsStream
  <2>5. Rest(inp', Open, m, Len(m))
    BY <2>2, <2>3
  <2>6. AtMessage(inp')
    BY <2>2, <2>4, <2>5, MessageRead
  <2>7. Whole(inp', Open)
    BY <1>1, <1>3, TakenWhole
  <2>8. InStep(pc', inp', Open, chunkLeft', wr')
    BY <1>3, <2>6, <2>7, Enters DEF MessageStates
  <2> QED BY <1>1, <2>8, Read
<1> QED BY <1>2, <1>3 DEF ReadClientHello, Goto

(* The head of a text.                                                     *)
LEMMA HeadsInStep ==
  ASSUME TypeOK, InHere, ReadAuthStrBegin \/ ReadStmtStrBegin
  PROVE  InHere'
<1>1. /\ UNCHANGED environment /\ Whole(inp, Open) /\ StrHeadLen \in Nat
      /\ pc = "auth_str" => BehindType(inp, Open, AuthMagic)
      /\ pc = "exec_str" => BehindType(inp, Open, SqlMagic)
  BY Lengths DEF ReadAuthStrBegin, ReadStmtStrBegin, InHere, InStep
<1>2. CASE ReadFails(StrHeadLen) /\ pc' \in {"error", "auth_reject"}
  BY <1>1, <1>2, ReadFailed
<1>3. CASE /\ Readable(StrHeadLen) /\ Take(StrHeadLen) /\ pc = "auth_str"
           /\ chunkLeft' = At(StrHeadLen) /\ wr' = 0
           /\ pc' = AfterStrBegin(chunkLeft')
  <2>1. InName(inp', Open, chunkLeft', wr')
    BY <1>1, <1>3, NameBegins
  <2>2. Whole(inp', Open)
    BY <1>1, <1>3, TakenWhole
  <2>3. \/ pc' = "auth_name" /\ chunkLeft' # 0
        \/ pc' = "auth_str_end" /\ chunkLeft' = 0
    BY <1>3 DEF AfterStrBegin
  <2>4. InStep(pc', inp', Open, chunkLeft', wr')
    BY <2>1, <2>2, <2>3, Enters
  <2> QED BY <1>1, <2>4, Read
<1>4. CASE /\ Readable(StrHeadLen) /\ Take(StrHeadLen) /\ pc = "exec_str"
           /\ chunkLeft' = At(StrHeadLen) /\ pc' = "exec_reset"
  <2>1. InStatement(inp', Open, chunkLeft')
    BY <1>1, <1>4, StatementBegins
  <2>2. Whole(inp', Open)
    BY <1>1, <1>4, TakenWhole
  <2>3. InStep(pc', inp', Open, chunkLeft', wr')
    BY <1>4, <2>1, <2>2, Enters
  <2> QED BY <1>1, <2>3, Read
<1> QED BY <1>2, <1>3, <1>4 DEF ReadAuthStrBegin, ReadStmtStrBegin, Goto

(* A character of a name.                                                  *)
LEMMA NameInStep ==
  ASSUME TypeOK, InHere, ReadAuthName
  PROVE  InHere'
<1>1. /\ UNCHANGED environment /\ Whole(inp, Open) /\ CharLen \in {1, 2}
      /\ InName(inp, Open, chunkLeft, wr) /\ chunkLeft # 0
  BY Lengths DEF ReadAuthName, InHere, InStep
<1>2. Readable(1) => ValidChar(At(1))
  BY <1>1, NameCharRead
<1>3. CASE ReadFails(CharLen) /\ pc' = "auth_reject"
  BY <1>1, <1>3, ReadFailed
<1>4. CASE /\ Readable(CharLen) /\ Take(CharLen) /\ wr' = wr + 1 /\ chunkLeft' = NextChunkLeft
           /\ pc' = IF NextChunkLeft = 0 \/ wr + 1 > NameSz THEN "auth_str_end" ELSE "auth_name"
  <2>1. Readable(1) /\ CharLen \in Nat
    BY <1>1, <1>4 DEF Readable, TypeOK
  <2>2. InName(inp', Open, chunkLeft', wr') /\ wr + 1 <= NameSz
    BY <1>1, <1>4, <2>1, NameCharRead
  <2>3. wr + 1 \in Nat /\ NameSz \in Nat
    BY SessionAssumption DEF SessionAssumption, TypeOK
  <2>4. \/ pc' = "auth_str_end" /\ chunkLeft' = 0
        \/ pc' = "auth_name" /\ chunkLeft' # 0
    BY <1>4, <2>2, <2>3
  <2>5. Whole(inp', Open)
    BY <1>1, <1>4, <2>1, TakenWhole
  <2>6. InStep(pc', inp', Open, chunkLeft', wr')
    BY <2>2, <2>4, <2>5, Enters
  <2> QED BY <1>1, <2>6, Read
<1> QED BY <1>2, <1>3, <1>4 DEF ReadAuthName, Goto

(* The end of a name: it is not to be drained, nor refused.                *)
LEMMA NameEndInStep ==
  ASSUME TypeOK, InHere, ReadAuthStrEnd \/ DrainAuthName
  PROVE  InHere'
<1>1. ~ DrainAuthName
  BY DEF DrainAuthName, InHere, InStep
<1>2. /\ UNCHANGED <<environment, inp, chunkLeft, wr>> /\ Whole(inp, Open)
      /\ InName(inp, Open, chunkLeft, wr) /\ chunkLeft = 0
  BY <1>1 DEF ReadAuthStrEnd, InHere, InStep
<1>3. AtCredentials(inp, Open) /\ wr \in 1 .. NameSz
  BY <1>2, NameRead
<1>4. NameSz \in Nat
  BY SessionAssumption DEF SessionAssumption
<1>5. pc' = AfterName
  BY <1>1, <1>2 DEF ReadAuthStrEnd, Goto
<1>6. pc' = "auth_cred"
  BY <1>3, <1>4, <1>5 DEF AfterName
<1>7. InStep(pc', inp, Open, chunkLeft', wr')
  BY <1>2, <1>3, <1>6, Enters
<1>8. InStep(pc', inp', Open, chunkLeft', wr')
  BY <1>2, <1>7
<1> QED BY <1>2, <1>8, Read

(* The credentials.                                                        *)
LEMMA CredentialsInStep ==
  ASSUME TypeOK, InHere, ReadCredentials
  PROVE  InHere'
<1>1. UNCHANGED environment /\ Whole(inp, Open) /\ AtCredentials(inp, Open) /\ CredSz \in Nat
  BY SessionAssumption DEF SessionAssumption, ReadCredentials, InHere, InStep
<1>2. CASE ReadFails(CredSz) /\ pc' = "auth_reject"
  BY <1>1, <1>2, ReadFailed
<1>3. CASE Readable(CredSz) /\ Take(CredSz) /\ pc' \in {"send_ok", "auth_reject"}
  <2>1. AtMessage(inp') /\ Whole(inp', Open)
    BY <1>1, <1>3, CredentialsRead, TakenWhole
  <2>2. InStep(pc', inp', Open, chunkLeft', wr')
    BY <1>3, <2>1, Enters DEF MessageStates
  <2> QED BY <1>1, <2>2, Read
<1> QED BY <1>2, <1>3 DEF ReadCredentials, AfterVerdict, Goto

(* A character of a statement.                                             *)
LEMMA StatementInStep ==
  ASSUME TypeOK, InHere, ReadStmtChar
  PROVE  InHere'
<1>1. /\ UNCHANGED environment /\ Whole(inp, Open) /\ CharLen \in Nat
      /\ InStatement(inp, Open, chunkLeft)
  BY Lengths DEF ReadStmtChar, InHere, InStep
<1>2. CASE ReadFails(CharLen) /\ pc' = "error"
  BY <1>1, <1>2, ReadFailed
<1>3. CASE UNCHANGED <<inp, chunkLeft, wr>> /\ pc' = "exec"
  <2>1. InStep(pc', inp, Open, chunkLeft, wr)
    BY <1>1, <1>3, Enters
  <2>2. InStep(pc', inp', Open, chunkLeft', wr')
    BY <1>3, <2>1
  <2> QED BY <1>1, <2>2, Read
<1>4. CASE /\ chunkLeft # 0 /\ Readable(CharLen) /\ Take(CharLen)
           /\ chunkLeft' = NextChunkLeft /\ pc' \in {"exec", "error"}
  <2>1. InStatement(inp', Open, chunkLeft') /\ Whole(inp', Open)
    BY <1>1, <1>4, StatementCharRead, TakenWhole
  <2>2. InStep(pc', inp', Open, chunkLeft', wr')
    BY <1>4, <2>1, Enters
  <2> QED BY <1>1, <2>2, Read
<1>5. chunkLeft > 0 => chunkLeft # 0
  BY DEF TypeOK, Byte
<1> QED BY <1>2, <1>3, <1>4, <1>5 DEF ReadStmtChar, Goto

(* A statement has been read to its end when it has been parsed.           *)
LEMMA ParsedInStep ==
  ASSUME TypeOK, InHere, StatementParsed
  PROVE  InHere'
<1>1. /\ UNCHANGED environment /\ inp' = inp /\ pc' = "repl" /\ chunkLeft = 0
      /\ Whole(inp, Open) /\ InStatement(inp, Open, 0)
  BY DEF StatementParsed, Goto, InHere, InStep
<1>2. inp \in Seq(StreamByte) /\ Open \in BOOLEAN
  BY DEF TypeOK, Open
<1>3. AtMessage(inp)
  BY <1>1, <1>2, StatementRead
<1>4. InStep(pc', inp, Open, chunkLeft', wr')
  BY <1>1, <1>3, Enters DEF MessageStates
<1>5. InStep(pc', inp', Open, chunkLeft', wr')
  BY <1>1, <1>4
<1> QED BY <1>1, <1>5, Read

LEMMA ServerInStep == TypeOK /\ InHere /\ Server => InHere'
  BY SilentStepsInStep, LastStepsInStep, TypesInStep, HelloInStep, HeadsInStep, NameInStep,
     NameEndInStep, CredentialsInStep, StatementInStep, ParsedInStep
     DEF Server, Authentication, Repl

(* The steps of the others.                                                *)
LEMMA OthersInStep ==
  ASSUME TypeOK, InHere,
         ClientGone \/ ListenerShutdown \/ \E m \in ConformantMsgs : ClientSend(m)
  PROVE  InHere'
<1>1. pc' = pc /\ chunkLeft' = chunkLeft /\ wr' = wr
  BY DEF ClientGone, ListenerShutdown, ClientSend
<1>2. InStep(pc, inp, Open, chunkLeft, wr) /\ inp \in Seq(StreamByte) /\ Open \in BOOLEAN
  BY DEF InHere, TypeOK, Open
<1>3. CASE ClientGone
  <2>1. PICK n \in 0 .. Len(inp) : inp' = SubSeq(inp, 1, n)
    BY <1>3 DEF ClientGone
  <2>2. Open' = FALSE
    BY <1>3 DEF ClientGone, Open
  <2>3. InStep(pc, inp', FALSE, chunkLeft, wr)
    BY <1>2, <2>1, CutKeepsStep
  <2>4. InStep(pc', inp', Open', chunkLeft', wr')
    BY <1>1, <2>2, <2>3
  <2> QED BY <2>4 DEF InHere
<1>4. CASE ListenerShutdown
  <2>1. inp' = inp /\ Open' = Open
    BY <1>4 DEF ListenerShutdown, Open
  <2>2. InStep(pc', inp', Open', chunkLeft', wr')
    BY <1>1, <1>2, <2>1
  <2> QED BY <2>2 DEF InHere
<1>5. CASE \E m \in ConformantMsgs : ClientSend(m)
  <2>1. PICK m \in ConformantMsgs : ClientSend(m)
    BY <1>5
  <2>2. inp' = inp \o Frame(m) /\ Open = TRUE /\ Open' = TRUE
    BY <2>1 DEF ClientSend, Open
  <2>3. InStep(pc, inp, TRUE, chunkLeft, wr)
    BY <1>2, <2>2
  <2>4. InStep(pc, inp \o Frame(m), TRUE, chunkLeft, wr)
    BY <1>2, <2>3, SendKeepsStep
  <2>5. InStep(pc', inp', Open', chunkLeft', wr')
    BY <1>1, <2>2, <2>4
  <2> QED BY <2>5 DEF InHere
<1> QED BY <1>3, <1>4, <1>5

LEMMA FramingInit == ClientsInit => FramingInv
<1> SUFFICES ASSUME ClientsInit PROVE FramingInv
  OBVIOUS
<1>1. Init /\ TypeInv /\ polite \in BOOLEAN
  BY TypeInit DEF ClientsInit
<1>2. pc = "create" /\ inp = <<>>
  BY <1>1 DEF Init
<1>3. Whole(inp, Open) /\ AtMessage(inp)
  BY <1>2 DEF Whole, AtMessage
<1>4. InStep(pc, inp, Open, chunkLeft, wr)
  BY <1>2, <1>3, Enters DEF MessageStates
<1> QED BY <1>1, <1>4 DEF FramingInv, InHere

LEMMA FramingStep == FramingInv /\ [ClientsNext]_clientsVars => FramingInv'
<1> SUFFICES ASSUME FramingInv, [ClientsNext]_clientsVars PROVE FramingInv'
  OBVIOUS
<1>1. TypeInv /\ TypeOK /\ polite \in BOOLEAN /\ polite' = polite
  BY DEF FramingInv, TypeInv, ClientsNext, clientsVars
<1>2. [Next]_vars
  BY DEF ClientsNext, clientsVars, Next, Client, ConformantMsgs
<1>3. TypeInv'
  BY <1>1, <1>2, TypeStep
<1>4. ASSUME polite PROVE InHere'
  <2>1. InHere
    BY <1>4 DEF FramingInv
  <2>2. CASE UNCHANGED clientsVars
    BY <2>1, <2>2 DEF clientsVars, vars, InHere, Open
  <2>3. CASE ClientsNext
    BY <1>1, <1>4, <2>1, <2>3, ServerInStep, OthersInStep DEF ClientsNext
  <2> QED BY <2>2, <2>3
<1> QED BY <1>1, <1>3, <1>4 DEF FramingInv

(* The server keeps in step with every client whose messages are formed as *)
(* the protocol has them and whose names fit: where it looks for the type  *)
(* of a message one begins, however long the texts are and into however    *)
(* many chunks they are cut, after refused credentials, too, and whatever  *)
(* is lost when the connection breaks (pproto_server.c:369-608).           *)
THEOREM MessagesInStep == ClientsSpec => []PoliteReadsAtBoundary
<1>1. FramingInv => PoliteReadsAtBoundary
  <2> SUFFICES ASSUME FramingInv, polite, pc \in {"hello", "auth", "repl"}, inp # <<>>
               PROVE  inp[1].first
    BY DEF PoliteReadsAtBoundary, ReadsAtBoundary
  <2>1. AtMessage(inp)
    BY DEF FramingInv, InHere, InStep, MessageStates
  <2> QED BY <2>1 DEF AtMessage, Begins
<1> QED BY <1>1, FramingInit, FramingStep, PTL DEF ClientsSpec

----------------------------------------------------------------------------
(* The client library.  What recv() brings.                                *)

(* What a join of the first k of some messages brings: the first message,  *)
(* and then nothing but bytes of the others.                               *)
Brings(x, s, k) ==
  /\ x \in Seq(Byte) /\ Len(x) >= Len(s[1])
  /\ \A i \in 1 .. Len(s[1]) : x[i] = s[1][i]
  /\ \A i \in Len(s[1]) + 1 .. Len(x) :
       \E j \in 2 .. k : \E h \in 1 .. Len(s[j]) : s[j][h] = x[i]

(* One more message.                                                       *)
LEMMA BringsMore ==
  ASSUME NEW s, NEW k \in Nat, k >= 1, NEW x, Brings(x, s, k),
         s[1] \in Seq(Byte), NEW y \in Seq(Byte), y = s[k + 1]
  PROVE  Brings(x \o y, s, k + 1)
<1>1. x \in Seq(Byte) /\ Len(x) >= Len(s[1]) /\ Len(s[1]) \in Nat
  BY DEF Brings
<1>2. /\ x \o y \in Seq(Byte) /\ Len(x \o y) = Len(x) + Len(y)
      /\ \A i \in 1 .. Len(x) : (x \o y)[i] = x[i]
      /\ \A i \in Len(x) + 1 .. Len(x) + Len(y) : (x \o y)[i] = y[i - Len(x)]
  BY <1>1
<1>3. \A i \in 1 .. Len(s[1]) : (x \o y)[i] = s[1][i]
  BY <1>1, <1>2 DEF Brings
<1>4. ASSUME NEW i \in Len(s[1]) + 1 .. Len(x \o y)
      PROVE  \E j \in 2 .. k + 1 : \E h \in 1 .. Len(s[j]) : s[j][h] = (x \o y)[i]
  <2>1. CASE i <= Len(x)
    <3>1. i \in Len(s[1]) + 1 .. Len(x) /\ (x \o y)[i] = x[i]
      BY <1>1, <1>2, <1>4, <2>1
    <3>2. PICK j \in 2 .. k : \E h \in 1 .. Len(s[j]) : s[j][h] = x[i]
      BY <3>1 DEF Brings
    <3>3. j \in 2 .. k + 1
      OBVIOUS
    <3> QED BY <3>1, <3>2, <3>3
  <2>2. CASE i > Len(x)
    <3>1. i \in Len(x) + 1 .. Len(x) + Len(y) /\ i - Len(x) \in 1 .. Len(y)
      BY <1>1, <1>2, <1>4, <2>2
    <3>2. (x \o y)[i] = s[k + 1][i - Len(x)]
      BY <1>2, <3>1
    <3>3. k + 1 \in 2 .. k + 1 /\ i - Len(x) \in 1 .. Len(s[k + 1])
      BY <3>1
    <3> QED BY <3>2, <3>3
  <2> QED BY <1>1, <1>2, <1>4, <2>1, <2>2
<1>5. Len(x \o y) >= Len(s[1])
  BY <1>1, <1>2
<1> QED BY <1>2, <1>3, <1>4, <1>5 DEF Brings

(* Every join brings that.                                                 *)
LEMMA JoinBrings ==
  ASSUME NEW n \in Nat, n >= 1, NEW s, \A i \in 1 .. n : s[i] \in Seq(Byte),
         NEW f, Joins(f, s, n)
  PROVE  Brings(f[n], s, n)
<1> DEFINE S == {k \in 1 .. n : ~ Brings(f[k], s, k)}
<1> SUFFICES ASSUME n \in S PROVE FALSE
  OBVIOUS
<1>1. S \in SUBSET Nat /\ S # {}
  OBVIOUS
<1> HIDE DEF S
<1>2. PICK m \in S : \A k \in S : m <= k
  BY <1>1, LeastOne
<1>3. m \in 1 .. n /\ ~ Brings(f[m], s, m)
  BY <1>2 DEF S
<1>4. f = [i \in 1 .. n |-> IF i = 1 THEN s[i] ELSE f[i - 1] \o s[i]]
  BY DEF Joins
<1>5. f[m] = IF m = 1 THEN s[m] ELSE f[m - 1] \o s[m]
  BY <1>3, <1>4
<1>6. CASE m = 1
  <2>1. f[1] = s[1] /\ s[1] \in Seq(Byte)
    BY <1>5, <1>6
  <2>2. Brings(s[1], s, 1)
    BY <2>1 DEF Brings
  <2> QED BY <1>3, <1>6, <2>1, <2>2
<1>7. CASE m # 1
  <2>1. m - 1 \in 1 .. n /\ m - 1 \notin S /\ m - 1 >= 1 /\ m - 1 \in Nat
    BY <1>1, <1>2, <1>3, <1>7
  <2>2. Brings(f[m - 1], s, m - 1)
    BY <2>1 DEF S
  <2>3. s[1] \in Seq(Byte) /\ s[m] \in Seq(Byte) /\ (m - 1) + 1 = m
    BY <1>3
  <2>4. Brings(f[m - 1] \o s[m], s, (m - 1) + 1)
    BY <2>1, <2>2, <2>3, BringsMore
  <2> QED BY <1>3, <1>5, <1>7, <2>3, <2>4
<1> QED BY <1>6, <1>7

----------------------------------------------------------------------------
(* The child of the connection.                                            *)

(* Bytes that are a hello, of an encoding every server converts, or that   *)
(* are none at all.                                                        *)
GoodStart(x) ==
  x # <<>> => \/ x[1] # HelloHi
              \/ Len(x) >= 4 /\ x[2] = HelloLo /\ x[3] = 0 /\ x[4] = 1

StreamStarts ==
  inp # <<>> => \/ At(1) # HelloHi
                \/ Len(inp) >= 4 /\ At(2) = HelloLo /\ At(3) = 0 /\ At(4) = 1

Ungreeted == {"create", "hello", "hello_enc"} \cup Ended

(* The encoding is settled before anything is said.                        *)
ChildGreets ==
  /\ pc \in {"create", "hello"} => StreamStarts
  /\ pc = "hello_enc" => Len(inp) >= 2 /\ At(1) = 0 /\ At(2) = 1
  /\ clientEnc = 1 \/ (out = <<>> /\ pc \in Ungreeted)

(* Who is told of success has an identity, and keeps it.                   *)
Granting == pc = "send_ok" \/ Sent("AUTH_OK") => userId # 0

ChildInv == TypeInv /\ OutInv /\ ChildGreets /\ Granting

(* Steps of the child after the greeting.                                  *)
LaterSteps == Authentication \/ Repl

(* What is sent by a step of the child is one message at most, and success *)
(* is told in one state only.                                              *)
LEMMA OneMessage ==
  ASSUME Server
  PROVE  \E m \in ServerMsg :
           /\ out' = out \/ out' = Append(out, m)
           /\ m = "AUTH_OK" => pc = "send_ok"
<1>1. CASE CreateLexer \/ ReadHelloType \/ ReadClientHello
  <2>1. out' = out
    BY <1>1 DEF CreateLexer, ReadHelloType, ReadClientHello
  <2> QED BY <2>1 DEF ServerMsg
<1>2. CASE SendServerHello \/ SendAuthRequest
  <2>1. out' = out \/ out' = Append(out, "HELLO") \/ out' = Append(out, "AUTH_REQUEST")
    BY <1>2 DEF SendServerHello, SendAuthRequest, Deliver
  <2> QED BY <2>1 DEF ServerMsg
<1>3. CASE \/ ReadAuthType \/ ReadAuthStrBegin \/ ReadAuthName \/ DrainAuthName
           \/ ReadCredentials
  <2>1. out' = out
    BY <1>3 DEF ReadAuthType, ReadAuthStrBegin, ReadAuthName, DrainAuthName,
                ReadCredentials
  <2> QED BY <2>1 DEF ServerMsg
<1>4. CASE ReadAuthStrEnd \/ SendAuthFail
  <2>1. out' = out \/ out' = Append(out, "CANCEL") \/ out' = Append(out, "AUTH_FAIL")
    BY <1>4 DEF ReadAuthStrEnd, SendAuthFail, Deliver
  <2> QED BY <2>1 DEF ServerMsg
<1>5. CASE SendAuthOk
  <2>1. pc = "send_ok" /\ (out' = out \/ out' = Append(out, "AUTH_OK"))
    BY <1>5 DEF SendAuthOk, Deliver
  <2> QED BY <2>1 DEF ServerMsg
<1>6. CASE \/ ReadRequestType \/ ReadStmtStrBegin \/ ReadStmtChar \/ StatementParsed
           \/ StatementRejected \/ StatementAborted
  <2>1. out' = out
    BY <1>6 DEF ReadRequestType, ReadStmtStrBegin, ReadStmtChar, StatementParsed,
                StatementRejected, StatementAborted
  <2> QED BY <2>1 DEF ServerMsg
<1>7. CASE SendSyntaxError \/ SendViolation \/ SendGoodbye
  <2>1. out' = out \/ out' = Append(out, "ERROR_TEXT") \/ out' = Append(out, "GOODBYE")
    BY <1>7 DEF SendSyntaxError, SendViolation, SendGoodbye, Deliver
  <2> QED BY <2>1 DEF ServerMsg
<1> QED BY <1>1, <1>2, <1>3, <1>4, <1>5, <1>6, <1>7 DEF Server, Authentication, Repl

(* After the greeting the encoding stays.                                  *)
LEMMA EncodingStays ==
  ASSUME SendServerHello \/ SendAuthRequest \/ LaterSteps
  PROVE  /\ clientEnc' = clientEnc
         /\ pc \notin Ungreeted
         /\ pc' \notin {"create", "hello", "hello_enc"}
<1>1. CASE SendServerHello \/ SendAuthRequest
  BY <1>1 DEF SendServerHello, SendAuthRequest, Deliver, Goto, Ungreeted, Ended
<1>2. CASE Authentication
  BY <1>2 DEF Authentication, ReadAuthType, ReadAuthStrBegin, ReadAuthName, ReadAuthStrEnd,
     DrainAuthName, ReadCredentials, SendAuthFail, SendAuthOk, AfterName, AfterVerdict,
     AfterStrBegin, Deliver, Goto, Ungreeted, Ended
<1>3. CASE Repl
  BY <1>3 DEF Repl, ReadRequestType, ReadStmtStrBegin, ReadStmtChar, StatementParsed,
     StatementRejected, StatementAborted, SendSyntaxError, SendViolation, SendGoodbye,
     Deliver, Goto, Ungreeted, Ended
<1> QED BY <1>1, <1>2, <1>3 DEF LaterSteps

(* The identity is given once and stays.                                   *)
LEMMA IdentityStays ==
  ASSUME Server
  PROVE  /\ userId' = userId \/ userId' = 1
         /\ pc' = "send_ok" => userId' = 1
<1>1. CASE CreateLexer \/ ReadHelloType \/ ReadClientHello
  BY <1>1 DEF CreateLexer, ReadHelloType, ReadClientHello, Goto
<1>2. CASE SendServerHello \/ SendAuthRequest \/ SendAuthFail \/ SendAuthOk
  BY <1>2 DEF SendServerHello, SendAuthRequest, SendAuthFail, SendAuthOk, Deliver, Goto
<1>3. CASE ReadAuthType \/ ReadAuthStrBegin \/ ReadAuthName
  BY <1>3 DEF ReadAuthType, ReadAuthStrBegin, ReadAuthName, AfterStrBegin, Goto
<1>4. CASE ReadAuthStrEnd \/ DrainAuthName
  BY <1>4 DEF ReadAuthStrEnd, DrainAuthName, AfterName, Deliver, Goto
<1>5. CASE ReadCredentials
  BY <1>5 DEF ReadCredentials, AfterVerdict, Goto
<1>6. CASE Repl
  BY <1>6 DEF Repl, ReadRequestType, ReadStmtStrBegin, ReadStmtChar, StatementParsed,
     StatementRejected, StatementAborted, SendSyntaxError, SendViolation, SendGoodbye,
     Deliver, Goto
<1> QED BY <1>1, <1>2, <1>3, <1>4, <1>5, <1>6 DEF Server, Authentication

(* The greeting: a hello that is read is one of encoding 1.                *)
LEMMA GreetingKept ==
  ASSUME TypeOK, ChildGreets, CreateLexer \/ ReadHelloType \/ ReadClientHello
  PROVE  ChildGreets'
<1>1. CASE CreateLexer
  <2>1. /\ pc = "create" /\ pc' \in {"hello", "aborted"}
        /\ UNCHANGED <<inp, out, clientEnc>>
    BY <1>1 DEF CreateLexer, Goto
  <2> QED BY <2>1 DEF ChildGreets, StreamStarts, At, Ungreeted, Ended
<1>2. CASE ReadHelloType
  <2>1. /\ pc = "hello" /\ pc' \in {"closed", "hello_enc", "error"}
        /\ UNCHANGED <<out, clientEnc>>
    BY <1>2 DEF ReadHelloType, Goto
  <2>2. clientEnc' = 1 \/ (out' = <<>> /\ pc' \in Ungreeted)
    BY <2>1 DEF ChildGreets, Ungreeted, Ended
  <2>3. ASSUME pc' = "hello_enc"
        PROVE  Len(inp') >= 2 /\ At(1)' = 0 /\ At(2)' = 1
    <3>1. Readable(TypeLen) /\ Take(TypeLen) /\ MsgType = "HELLO"
      BY <1>2, <2>3 DEF ReadHelloType, Goto
    <3>2. inp \in Seq(StreamByte) /\ inp # <<>>
      BY <3>1 DEF Readable, TypeLen, TypeOK
    <3>3. At(1) = HelloHi
      BY <3>1 DEF MsgType, Kind
    <3>4. /\ TypeLen = 2 /\ Len(inp) >= 4 /\ At(3) = 0 /\ At(4) = 1
      BY <2>1, <3>2, <3>3 DEF ChildGreets, StreamStarts, TypeLen
    <3>5. inp' = SubSeq(inp, 3, Len(inp))
      BY <3>1, <3>4 DEF Take
    <3>6. Len(inp') = Len(inp) - 2 /\ inp'[1] = inp[3] /\ inp'[2] = inp[4]
      BY <3>2, <3>4, <3>5
    <3> QED BY <3>2, <3>4, <3>6 DEF At
  <2> QED BY <2>1, <2>2, <2>3 DEF ChildGreets
<1>3. CASE ReadClientHello
  <2>1. /\ pc = "hello_enc" /\ pc' \in {"send_hello", "error"} /\ out' = out
        /\ pc' = "send_hello" => clientEnc' = 256 * At(1) + At(2)
        /\ clientEnc' = clientEnc \/ clientEnc' = 256 * At(1) + At(2)
    BY <1>3 DEF ReadClientHello, StoresEncoding, Goto
  <2>2. 256 * At(1) + At(2) = 1
    BY <2>1 DEF ChildGreets
  <2> QED BY <2>1, <2>2 DEF ChildGreets, Ungreeted, Ended
<1> QED BY <1>1, <1>2, <1>3

(* Every step of the child, and of its parent, keeps all of this.          *)
LEMMA ChildStep ==
  ASSUME ChildInv, Server \/ ListenerShutdown
  PROVE  ChildInv'
<1>1. TypeInv' /\ TypeOK /\ TypeOK'
  BY TypeStep DEF ChildInv, TypeInv, Next
<1>2. OutInv'
  BY <1>1, OutStep DEF ChildInv, Next
<1>3. CASE ListenerShutdown
  <2>1. UNCHANGED <<pc, inp, out, userId, clientEnc>>
    BY <1>3 DEF ListenerShutdown
  <2>2. ChildGreets' /\ Granting'
    BY <2>1 DEF ChildInv, ChildGreets, Granting, StreamStarts, At, Sent
  <2> QED BY <1>1, <1>2, <2>2 DEF ChildInv
<1>4. CASE Server
  <2>1. ChildGreets'
    <3>1. CASE SendServerHello \/ SendAuthRequest \/ LaterSteps
      BY <3>1, EncodingStays DEF ChildInv, ChildGreets
    <3>2. CASE CreateLexer \/ ReadHelloType \/ ReadClientHello
      BY <1>1, <3>2, GreetingKept DEF ChildInv
    <3> QED BY <1>4, <3>1, <3>2 DEF Server, LaterSteps
  <2>2. Granting'
    <3>1. PICK m \in ServerMsg :
            /\ out' = out \/ out' = Append(out, m)
            /\ m = "AUTH_OK" => pc = "send_ok"
      BY <1>4, OneMessage
    <3>2. (userId' = userId \/ userId' = 1) /\ (pc' = "send_ok" => userId' = 1)
      BY <1>4, IdentityStays
    <3>3. ASSUME Sent("AUTH_OK")' PROVE userId # 0
      <4>1. PICK i \in 1 .. Len(out') : out'[i] = "AUTH_OK"
        BY <3>3 DEF Sent
      <4>2. CASE i \in 1 .. Len(out) /\ out[i] = "AUTH_OK"
        BY <4>2 DEF ChildInv, Granting, Sent
      <4>3. CASE m = "AUTH_OK"
        BY <3>1, <4>3 DEF ChildInv, Granting
      <4>4. out \in Seq(ServerMsg)
        BY <1>1 DEF TypeOK
      <4> QED BY <3>1, <4>1, <4>2, <4>3, <4>4, SMTT(60)
    <3> QED BY <3>2, <3>3 DEF Granting
  <2> QED BY <1>1, <1>2, <2>1, <2>2 DEF ChildInv
<1> QED BY <1>3, <1>4

----------------------------------------------------------------------------
(* What the client sends, and what its steps leave of the child.           *)

(* Nothing put behind the bytes changes how they start.                    *)
LEMMA StartStays ==
  ASSUME NEW x \in Seq(Byte), NEW y \in Seq(Byte), GoodStart(x), GoodStart(y)
  PROVE  x \o y \in Seq(Byte) /\ GoodStart(x \o y)
<1>1. x \o y \in Seq(Byte) /\ Len(x \o y) = Len(x) + Len(y)
  OBVIOUS
<1>2. CASE x = <<>>
  <2>1. x \o y = y
    BY <1>2
  <2> QED BY <1>1, <2>1
<1>3. CASE x # <<>>
  <2>1. Len(x) >= 1 /\ \A i \in 1 .. Len(x) : (x \o y)[i] = x[i]
    BY <1>3
  <2>2. (x \o y)[1] = x[1] /\ x \o y # <<>>
    BY <1>1, <2>1
  <2>3. CASE x[1] # HelloHi
    BY <2>2, <2>3 DEF GoodStart
  <2>4. CASE x[1] = HelloHi
    <3>1. Len(x) >= 4 /\ x[2] = HelloLo /\ x[3] = 0 /\ x[4] = 1
      BY <1>3, <2>4 DEF GoodStart
    <3>2. (x \o y)[2] = HelloLo /\ (x \o y)[3] = 0 /\ (x \o y)[4] = 1
      BY <2>1, <3>1
    <3>3. Len(x \o y) >= 4
      BY <1>1, <3>1
    <3> QED BY <3>2, <3>3 DEF GoodStart
  <2> QED BY <1>1, <2>3, <2>4
<1> QED BY <1>2, <1>3

LEMMA HelloStarts == HelloBytes \in Seq(Byte) /\ GoodStart(HelloBytes)
<1>1. HelloHi = 20 /\ HelloLo = 6
  BY DEF HelloHi, HelloLo
<1>2. HelloBytes = <<20, 6, 0, 1>>
  BY <1>1 DEF HelloBytes
<1>3. 20 \in Byte /\ 6 \in Byte /\ 0 \in Byte /\ 1 \in Byte
  BY DEF Byte
<1>4. HelloBytes \in Seq(Byte)
  BY <1>2, <1>3
<1>5. Len(HelloBytes) = 4 /\ HelloBytes[2] = 6 /\ HelloBytes[3] = 0 /\ HelloBytes[4] = 1
  BY <1>2
<1> QED BY <1>1, <1>4, <1>5 DEF GoodStart

(* The first of some bytes put together.                                   *)
LEMMA FirstStays ==
  ASSUME NEW x \in Seq(Byte), NEW y \in Seq(Byte), NEW b, x # <<>>, x[1] = b
  PROVE  x \o y \in Seq(Byte) /\ x \o y # <<>> /\ (x \o y)[1] = b
<1>1. Len(x) >= 1 /\ Len(x \o y) = Len(x) + Len(y)
  OBVIOUS
<1>2. (x \o y)[1] = x[1]
  BY <1>1
<1> QED BY <1>1, <1>2

LEMMA CredentialsStart == AuthBytes \in Seq(Byte) /\ GoodStart(AuthBytes)
<1>1. /\ UserName \in Seq(Byte) /\ Len(UserName) \in Byte
      /\ Password \in [1 .. CredSz -> Byte] /\ CredSz \in Nat /\ LenSz \in Nat
  BY DbClientAssumption, SessionAssumption DEF DbClientAssumption, SessionAssumption
<1> DEFINE len == [i \in 1 .. LenSz |-> IF i = LenSz THEN Len(UserName) ELSE 0]
<1>2. 0 \in Byte /\ AuthMagic \in Byte /\ LText \in Byte
  BY DEF Byte, AuthMagic, LText
<1>3. \A i \in 1 .. LenSz : len[i] \in Byte
  BY <1>1, <1>2
<1>4. len \in [1 .. LenSz -> Byte]
  BY <1>3
<1>5. len \in Seq(Byte) /\ Password \in Seq(Byte)
  BY <1>1, <1>4
<1> HIDE DEF len
<1>6. <<AuthMagic, LText>> \in Seq(Byte) /\ <<Len(UserName)>> \in Seq(Byte) /\ <<0>> \in Seq(Byte)
  BY <1>1, <1>2
<1>7. <<AuthMagic, LText>> # <<>> /\ <<AuthMagic, LText>>[1] = AuthMagic
  OBVIOUS
<1> DEFINE a == <<AuthMagic, LText>> \o len
           b == a \o <<Len(UserName)>>
           c == b \o UserName
           d == c \o <<0>>
<1>8. a \in Seq(Byte) /\ a # <<>> /\ a[1] = AuthMagic
  BY <1>5, <1>6, <1>7, FirstStays
<1> HIDE DEF a
<1>9. b \in Seq(Byte) /\ b # <<>> /\ b[1] = AuthMagic
  BY <1>6, <1>8, FirstStays
<1> HIDE DEF b
<1>10. c \in Seq(Byte) /\ c # <<>> /\ c[1] = AuthMagic
  BY <1>1, <1>9, FirstStays
<1> HIDE DEF c
<1>11. d \in Seq(Byte) /\ d # <<>> /\ d[1] = AuthMagic
  BY <1>6, <1>10, FirstStays
<1> HIDE DEF d
<1>12. d \o Password \in Seq(Byte) /\ d \o Password # <<>> /\ (d \o Password)[1] = AuthMagic
  BY <1>5, <1>11, FirstStays
<1>13. AuthBytes = d \o Password
  BY DEF AuthBytes, d, c, b, a, len
<1>14. AuthMagic # HelloHi
  BY DEF AuthMagic, HelloHi
<1> QED BY <1>12, <1>13, <1>14 DEF GoodStart

(* The other messages: none starts like a hello.                           *)
LEMMA OthersStart ==
  ASSUME NEW b \in {<<SqlMagic, UText>>, <<1, 65>>, << 0 >>, <<CancelMagic>>, <<GoodbyeMagic>>}
  PROVE  b \in Seq(Byte) /\ GoodStart(b)
<1>1. /\ SqlMagic = 85 /\ UText = 1 /\ CancelMagic = 87 /\ GoodbyeMagic = 190 /\ HelloHi = 20
  BY DEF SqlMagic, UText, CancelMagic, GoodbyeMagic, HelloHi
<1>2. b \in {<<85, 1>>, <<1, 65>>, <<0>>, <<87>>, <<190>>}
  BY <1>1
<1>3. 85 \in Byte /\ 1 \in Byte /\ 65 \in Byte /\ 0 \in Byte /\ 87 \in Byte /\ 190 \in Byte
  BY DEF Byte
<1>4. b \in Seq(Byte)
  <2>1. <<85, 1>> \in Seq(Byte) /\ <<1, 65>> \in Seq(Byte)
    BY <1>3
  <2>2. <<0>> \in Seq(Byte) /\ <<87>> \in Seq(Byte) /\ <<190>> \in Seq(Byte)
    BY <1>3
  <2> QED BY <1>2, <2>1, <2>2, ZenonT(60)
<1>5. b[1] \in {85, 1, 0, 87, 190}
  BY <1>2
<1> QED BY <1>1, <1>4, <1>5 DEF GoodStart

(* A frame starts as its bytes do.                                         *)
LEMMA FrameStarts ==
  ASSUME NEW x \in Seq(Byte), GoodStart(x), inp' = Frame(x)
  PROVE  StreamStarts'
<1>1. Frame(x) \in Seq(StreamByte) /\ Len(Frame(x)) = Len(x)
  BY FrameIsStream DEF Frame
<1>2. \A i \in 1 .. Len(x) : Frame(x)[i].byte = x[i]
  BY DEF Frame
<1>3. \A i \in 1 .. Len(inp') : At(i)' = x[i]
  BY <1>1, <1>2 DEF At
<1>4. ASSUME inp' # <<>> PROVE Len(x) >= 1 /\ x # <<>> /\ At(1)' = x[1]
  BY <1>1, <1>3, <1>4
<1>5. Len(x) >= 4 => At(2)' = x[2] /\ At(3)' = x[3] /\ At(4)' = x[4]
  BY <1>1, <1>3
<1> QED BY <1>1, <1>4, <1>5 DEF StreamStarts, GoodStart

(* A new connection's child, when what is sent to it starts well.          *)
LEMMA NewChildKeeps ==
  ASSUME ChildInv, NEW x \in Seq(Byte), GoodStart(x), NewChild(x)
  PROVE  ChildInv'
<1>1. /\ pc' = "create" /\ inp' = Frame(x) /\ out' = <<>> /\ peer' = "up"
      /\ writeEnd' = "open" /\ chunkLeft' = 0 /\ wr' = 0 /\ userId' = 0
      /\ clientEnc' = 0 /\ attempts' = 0 /\ nsent' = nsent
  BY DEF NewChild
<1>2. TypeInv'
  <2>1. inp' \in Seq(StreamByte) /\ out' \in Seq(ServerMsg)
    BY <1>1, FrameIsStream
  <2>2. nsent' \in Nat
    BY <1>1 DEF ChildInv, TypeInv, TypeOK
  <2> QED BY <1>1, <2>1, <2>2, StateNames DEF TypeInv, TypeOK, InsideString, Byte, Uint16, MaxUint16
<1>3. OutInv'
  BY <1>1 DEF OutInv, OutDiscipline, GreetStates, AskedStates, LateStates, AuthStates, ExecStates
<1>4. StreamStarts'
  BY <1>1, FrameStarts
<1>5. ChildGreets' /\ Granting'
  BY <1>1, <1>4 DEF ChildGreets, Granting, Ungreeted, Sent
<1> QED BY <1>2, <1>3, <1>5 DEF ChildInv

(* A step of the client's that leaves the child as it is, and that sends   *)
(* to it only once it has greeted.                                         *)
LEMMA ClientLeavesChild ==
  ASSUME ChildInv, UNCHANGED server, UNCHANGED writeEnd, peer' \in {peer, "gone"},
         inp' \in Seq(StreamByte), inp' = inp \/ pc \notin {"create", "hello", "hello_enc"}
  PROVE  ChildInv'
<1>1. UNCHANGED <<pc, out, chunkLeft, wr, userId, clientEnc, nsent, attempts>>
  BY DEF server
<1>2. TypeInv'
  BY <1>1 DEF ChildInv, TypeInv, TypeOK, InsideString
<1>3. OutInv'
  BY <1>1, SilentStep DEF ChildInv
<1>4. ChildGreets'
  BY <1>1 DEF ChildInv, ChildGreets, StreamStarts, At
<1>5. Granting'
  BY <1>1 DEF ChildInv, Granting, Sent
<1> QED BY <1>2, <1>3, <1>4, <1>5 DEF ChildInv

----------------------------------------------------------------------------
(* The client.  Past its handshake what is in its buffer came from this    *)
(* connection's child, which said HELLO once; before it, in whatever an    *)
(* earlier connection left there, there is no hello.                       *)

Holds(b) == \E i \in 1 .. Len(rbuf) : rbuf[i] = b

Vouched ==
  /\ Holds(AuthReqMagic) => Sent("AUTH_REQUEST")
  /\ Holds(Granted) => Sent("AUTH_OK")

(* A hello, and no second one.                                             *)
HelloAhead ==
  /\ Len(rbuf) >= 2 /\ rbuf[1] = SrvHelloHi /\ rbuf[2] = SrvHelloLo
  /\ \A i \in 2 .. Len(rbuf) : rbuf[i] # SrvHelloHi

ClientTypeOK ==
  /\ cs \in ClientStates /\ call \in Calls
  /\ rbuf \in Seq(Byte) /\ sbuf \in Seq(Byte)
  /\ taken \in Nat /\ taken <= Len(out)

CallState ==
  /\ call \in {"hello", "version"} => cs = "D"
  /\ call \in {"auth_request", "auth_responce", "auth_status"} => cs = "C"
  /\ call = "stmt_reply" => cs = "S"
  /\ call = "status" => cs = "E"

Met == cs # "D" \/ call = "version"

BufferKnown ==
  /\ Met => taken >= 1 /\ Vouched
  /\ call \notin {"hello", "dead"} => ~ Holds(SrvHelloHi)
  /\ call = "hello" => \/ taken = 0 /\ ~ Holds(SrvHelloHi)
                       \/ taken >= 1 /\ Vouched /\ HelloAhead

ClientInv == ClientTypeOK /\ CallState /\ GoodStart(sbuf) /\ BufferKnown

(* The child speaks: nothing of the client changes.                        *)
LEMMA ChildSpeaks ==
  ASSUME TypeOK, ClientInv, UNCHANGED client, NEW m \in ServerMsg,
         out' = out \/ out' = Append(out, m)
  PROVE  ClientInv'
<1>1. UNCHANGED <<cs, call, rbuf, sbuf, taken>>
  BY DEF client
<1>2. out \in Seq(ServerMsg)
  BY DEF TypeOK
<1>3. (Sent("AUTH_REQUEST") => Sent("AUTH_REQUEST")') /\ (Sent("AUTH_OK") => Sent("AUTH_OK")')
  BY <1>2, SentStays
<1>4. Vouched => Vouched'
  BY <1>1, <1>3 DEF Vouched, Holds
<1>5. taken <= Len(out')
  BY <1>2 DEF ClientInv, ClientTypeOK
<1>6. ClientTypeOK' /\ CallState' /\ GoodStart(sbuf)'
  BY <1>1, <1>5 DEF ClientInv, ClientTypeOK, CallState, GoodStart
<1>7. BufferKnown'
  BY <1>1, <1>4 DEF ClientInv, BufferKnown, Met, HelloAhead, Holds
<1> QED BY <1>6, <1>7 DEF ClientInv

(* What is left of the buffer when the first n bytes are consumed, or when *)
(* the stream ends.                                                        *)
Left(n) ==
  \/ Have(n) /\ Consume(n)
  \/ rbuf' = <<>>

LEMMA LeftIsLess ==
  ASSUME rbuf \in Seq(Byte), NEW n \in Nat, Left(n)
  PROVE  /\ rbuf' \in Seq(Byte)
         /\ \A b : Holds(b)' => Holds(b)
         /\ n >= 1 /\ HelloAhead => ~ Holds(SrvHelloHi)'
<1>1. CASE rbuf' = <<>>
  BY <1>1 DEF Holds
<1>2. CASE Have(n) /\ Consume(n)
  <2>1. rbuf' = SubSeq(rbuf, n + 1, Len(rbuf)) /\ Len(rbuf) \in Nat /\ n <= Len(rbuf)
    BY <1>2 DEF Have, Consume
  <2>2. /\ rbuf' \in Seq(Byte) /\ Len(rbuf') = Len(rbuf) - n
        /\ \A i \in 1 .. Len(rbuf') : rbuf'[i] = rbuf[n + i]
    BY <2>1
  <2>3. \A i \in 1 .. Len(rbuf') : n + i \in 1 .. Len(rbuf) /\ n + i >= n + 1
    BY <2>1, <2>2
  <2>4. \A b : Holds(b)' => Holds(b)
    BY <2>2, <2>3 DEF Holds
  <2>5. ASSUME n >= 1, HelloAhead PROVE ~ Holds(SrvHelloHi)'
    <3>1. \A i \in 1 .. Len(rbuf') : n + i \in 2 .. Len(rbuf)
      BY <2>3, <2>5
    <3> QED BY <2>2, <2>5, <3>1 DEF Holds, HelloAhead
  <2> QED BY <2>2, <2>4, <2>5
<1> QED BY <1>1, <1>2 DEF Left

(* A step of the client's outside of its handshake.                        *)
LEMMA LaterClientStep ==
  ASSUME ClientInv, UNCHANGED <<out, taken>>,
         rbuf' \in Seq(Byte), \A b : Holds(b)' => Holds(b),
         sbuf' \in Seq(Byte), GoodStart(sbuf)',
         cs' \in ClientStates, call' \in Calls, CallState', call' # "hello", Met' => Met,
         call' # "dead" => ~ Holds(SrvHelloHi)
  PROVE  ClientInv'
<1>1. ClientTypeOK'
  BY DEF ClientInv, ClientTypeOK
<1>2. Vouched => Vouched'
  BY DEF Vouched, Sent
<1>3. BufferKnown'
  BY <1>2 DEF ClientInv, BufferKnown
<1> QED BY <1>1, <1>3 DEF ClientInv

(* A client past its handshake shares it with the child.                   *)
LEMMA MetIsGreeted ==
  ASSUME ChildInv, ClientInv, Met
  PROVE  /\ Sent("HELLO") /\ clientEnc = 1
         /\ pc \notin {"create", "hello", "hello_enc"}
<1>1. out \in Seq(ServerMsg) /\ taken \in Nat /\ taken >= 1 /\ taken <= Len(out)
  BY DEF ChildInv, TypeInv, TypeOK, ClientInv, ClientTypeOK, BufferKnown
<1>2. out # <<>> /\ 1 \in 1 .. Len(out)
  BY <1>1
<1>3. out[1] = "HELLO"
  BY <1>2 DEF ChildInv, OutInv, OutDiscipline
<1>4. pc \notin GreetStates
  BY <1>2 DEF ChildInv, OutInv
<1> QED BY <1>2, <1>3, <1>4 DEF Sent, ChildInv, ChildGreets, GreetStates

(* Sending, with whatever outcome.                                         *)
LEMMA SendKeeps ==
  ASSUME inp \in Seq(StreamByte), sbuf \in Seq(Byte), GoodStart(sbuf),
         NEW b \in Seq(Byte), GoodStart(b), Flush(b) \/ FlushFails(b) \/ KilledBySend
  PROVE  /\ sbuf' \in Seq(Byte) /\ GoodStart(sbuf)' /\ inp' \in Seq(StreamByte)
         /\ inp' = inp \/ pc \notin Ended
<1>1. sbuf \o b \in Seq(Byte) /\ GoodStart(sbuf \o b)
  BY StartStays
<1>2. Frame(sbuf \o b) \in Seq(StreamByte)
  BY <1>1, FrameIsStream
<1>3. inp \o Frame(sbuf \o b) \in Seq(StreamByte)
  BY <1>2
<1>4. <<>> \in Seq(Byte) /\ GoodStart(<<>>)
  BY DEF GoodStart
<1>5. CASE Flush(b)
  <2>1. sbuf' = <<>> /\ inp' \in {inp, inp \o Frame(sbuf \o b)}
        /\ (inp' = inp \/ pc \notin Ended)
    BY <1>5 DEF Flush
  <2> QED BY <1>3, <1>4, <2>1 DEF GoodStart
<1>6. CASE FlushFails(b)
  <2>1. sbuf' = sbuf \o b /\ inp' = inp
    BY <1>6 DEF FlushFails
  <2> QED BY <1>1, <2>1 DEF GoodStart
<1>7. CASE KilledBySend
  <2>1. sbuf' = sbuf /\ inp' = inp
    BY <1>7 DEF KilledBySend
  <2> QED BY <2>1 DEF GoodStart
<1> QED BY <1>5, <1>6, <1>7

(* A call that sends and returns, or ends the process or the session.      *)
LEMMA SendingCall ==
  ASSUME ChildInv, ClientInv, call = "none", cs # "D",
         UNCHANGED <<server, writeEnd, handle, rbuf, taken>>,
         NEW b \in Seq(Byte), GoodStart(b), Flush(b) \/ FlushFails(b) \/ KilledBySend,
         peer' \in {peer, "gone"}, cs' \in ClientStates, call' \in {"none", "dead"}
  PROVE  ChildInv' /\ ClientInv'
<1>1. Met
  BY DEF Met
<1>2. pc \notin {"create", "hello", "hello_enc"}
  BY <1>1, MetIsGreeted
<1>3. /\ inp \in Seq(StreamByte) /\ sbuf \in Seq(Byte) /\ rbuf \in Seq(Byte) /\ GoodStart(sbuf)
  BY DEF ChildInv, TypeInv, TypeOK, ClientInv, ClientTypeOK
<1>4. sbuf' \in Seq(Byte) /\ GoodStart(sbuf)' /\ inp' \in Seq(StreamByte)
  BY <1>3, SendKeeps
<1>5. ChildInv'
  BY <1>2, <1>4, ClientLeavesChild
<1>6. \A x : Holds(x)' => Holds(x)
  BY DEF Holds
<1>7. UNCHANGED <<out, taken>> /\ rbuf' \in Seq(Byte)
  BY <1>3 DEF server
<1>8. call' \in Calls /\ CallState' /\ call' # "hello"
  BY DEF Calls, CallState
<1>9. ~ Holds(SrvHelloHi)
  BY DEF ClientInv, BufferKnown
<1>10. Met' => Met
  BY <1>1
<1> QED BY <1>4, <1>5, <1>6, <1>7, <1>8, <1>9, <1>10, LaterClientStep

(* The calls that send.                                                    *)
LEMMA SendingCalls ==
  ASSUME ChildInv, ClientInv, FinishStatement \/ CancelStatement \/ CloseSession
  PROVE  ChildInv' /\ ClientInv'
<1>0. cs \in ClientStates
  BY DEF ClientInv, ClientTypeOK
<1>1. /\ call = "none" /\ cs # "D" /\ UNCHANGED <<server, writeEnd, handle, rbuf, taken>>
      /\ call' \in {"none", "dead"}
  BY DEF FinishStatement, CancelStatement, CloseSession, Calling, KilledBySend, Die, ClientStates
<1>2. peer' \in {peer, "gone"}
  BY DEF FinishStatement, CancelStatement, CloseSession, KilledBySend, Die, Close
<1>3. cs' \in ClientStates
  BY <1>0 DEF FinishStatement, CancelStatement, CloseSession, KilledBySend, Die, Close, ClientStates
<1>4. PICK b \in {<<SqlMagic, UText>>, <<1, 65>>, <<0>>, <<CancelMagic>>, <<GoodbyeMagic>>} :
        Flush(b) \/ FlushFails(b) \/ KilledBySend
  BY DEF FinishStatement, CancelStatement, CloseSession
<1>5. b \in Seq(Byte) /\ GoodStart(b)
  BY OthersStart
<1> QED BY <1>1, <1>2, <1>3, <1>4, <1>5, SendingCall

(* A call that begins, or one that only puts bytes into the buffer.        *)
LEMMA QuietCall ==
  ASSUME ChildInv, ClientInv, call = "none",
         UNCHANGED <<server, inp, writeEnd, handle, rbuf, taken>>,
         peer' \in {peer, "gone"}, cs' \in ClientStates, cs' # "D" => cs # "D",
         NEW b \in Seq(Byte), GoodStart(b), sbuf' = sbuf \/ sbuf' = sbuf \o b,
         call' \in Calls \ {"hello", "version"}, CallState'
  PROVE  ChildInv' /\ ClientInv'
<1>1. /\ inp \in Seq(StreamByte) /\ sbuf \in Seq(Byte) /\ rbuf \in Seq(Byte) /\ GoodStart(sbuf)
  BY DEF ChildInv, TypeInv, TypeOK, ClientInv, ClientTypeOK
<1>2. sbuf' \in Seq(Byte) /\ GoodStart(sbuf)'
  <2>1. sbuf \o b \in Seq(Byte) /\ GoodStart(sbuf \o b)
    BY <1>1, StartStays
  <2> QED BY <1>1, <2>1
<1>3. ChildInv'
  BY <1>1, ClientLeavesChild
<1>4. \A x : Holds(x)' => Holds(x)
  BY DEF Holds
<1>5. UNCHANGED <<out, taken>> /\ rbuf' \in Seq(Byte)
  BY <1>1 DEF server
<1>6. ~ Holds(SrvHelloHi)
  BY DEF ClientInv, BufferKnown
<1>7. (Met' => Met) /\ call' \in Calls /\ call' # "hello"
  BY DEF Met
<1> QED BY <1>2, <1>3, <1>4, <1>5, <1>6, <1>7, LaterClientStep

(* Those calls.                                                            *)
LEMMA QuietCalls ==
  ASSUME ChildInv, ClientInv,
         \/ ConnectFails \/ ConnectWild \/ Authenticate \/ BeginStatement
         \/ Statement \/ ExecutionStatus
  PROVE  ChildInv' /\ ClientInv'
<1>0. cs \in ClientStates /\ call \in Calls
  BY DEF ClientInv, ClientTypeOK
<1>1. CASE ConnectFails
  <2>1. /\ call = "none" /\ UNCHANGED <<server, inp, writeEnd, handle, rbuf, taken>>
        /\ peer' = peer /\ cs' = cs /\ call' = call /\ sbuf' = sbuf \o HelloBytes
    BY <1>1 DEF ConnectFails, Calling
  <2>2. call' \in Calls \ {"hello", "version"} /\ CallState'
    BY <1>0, <2>1 DEF CallState
  <2> QED BY <1>0, <2>1, <2>2, HelloStarts, QuietCall
<1>2. CASE ConnectWild \/ Authenticate \/ BeginStatement \/ Statement \/ ExecutionStatus
  <2>1. /\ call = "none" /\ UNCHANGED <<server, inp, writeEnd, handle, rbuf, taken>>
        /\ peer' \in {peer, "gone"}
    BY <1>2 DEF ConnectWild, Authenticate, BeginStatement, Statement, ExecutionStatus, Calling, Die
  <2>2. cs' \in ClientStates /\ (cs' # "D" => cs # "D")
    BY <1>0, <1>2 DEF ConnectWild, Authenticate, BeginStatement, Statement, ExecutionStatus, Calling, Die,
       ClientStates
  <2>3. call' \in Calls \ {"hello", "version"} /\ CallState'
    BY <1>0, <1>2 DEF ConnectWild, Authenticate, BeginStatement, Statement, ExecutionStatus, Calling, Die,
       Calls, Waiting, Await, CallState
  <2>4. PICK b \in {<<SqlMagic, UText>>, <<1, 65>>, <<0>>, <<CancelMagic>>, <<GoodbyeMagic>>} :
          sbuf' = sbuf \/ sbuf' = sbuf \o b
    BY <1>2 DEF ConnectWild, Authenticate, BeginStatement, Statement, ExecutionStatus
  <2>5. b \in Seq(Byte) /\ GoodStart(b)
    BY OthersStart
  <2> QED BY <2>1, <2>2, <2>3, <2>4, <2>5, QuietCall
<1> QED BY <1>1, <1>2

(* A new connection: no hello is in the buffer that an old one left.       *)
LEMMA ConnectKeeps ==
  ASSUME ChildInv, ClientInv, Connect
  PROVE  ChildInv' /\ ClientInv'
<1>1. /\ call = "none" /\ cs = "D" /\ NewChild(sbuf \o HelloBytes) /\ sbuf' = <<>> /\ taken' = 0
      /\ call' = "hello" /\ cs' = cs /\ rbuf' = rbuf
  BY DEF Connect, Calling, Await
<1>2. sbuf \in Seq(Byte) /\ rbuf \in Seq(Byte) /\ GoodStart(sbuf) /\ ~ Holds(SrvHelloHi)
  BY <1>1 DEF ClientInv, ClientTypeOK, BufferKnown
<1>3. sbuf \o HelloBytes \in Seq(Byte) /\ GoodStart(sbuf \o HelloBytes)
  BY <1>2, HelloStarts, StartStays
<1>4. ChildInv'
  BY <1>1, <1>3, NewChildKeeps
<1>5. ClientTypeOK'
  <2>1. out' = <<>> /\ Len(out') = 0 /\ "hello" \in Calls /\ "D" \in ClientStates
    BY <1>1 DEF NewChild, Calls, Waiting, ClientStates
  <2>2. <<>> \in Seq(Byte)
    OBVIOUS
  <2> QED BY <1>1, <1>2, <2>1, <2>2 DEF ClientTypeOK
<1>6. CallState' /\ GoodStart(sbuf)'
  BY <1>1 DEF CallState, GoodStart
<1>7. BufferKnown'
  BY <1>1, <1>2 DEF BufferKnown, Met, Holds
<1> QED BY <1>4, <1>5, <1>6, <1>7 DEF ClientInv

----------------------------------------------------------------------------
(* The reads.                                                              *)

LEMMA ReplyLenIs == ReplyLen \in {1, 2}
  BY DEF ReplyLen

(* A read past the hello: whatever was read, the rest is of this child.    *)
LEMMA LaterRead ==
  ASSUME ChildInv, ClientInv, call \in Waiting \ {"hello"}, NEW n \in Nat, Left(n),
         UNCHANGED <<server, writeEnd, taken>>, peer' \in {peer, "gone"},
         inp' \in Seq(StreamByte), inp' = inp \/ pc \notin {"create", "hello", "hello_enc"},
         sbuf' \in Seq(Byte), GoodStart(sbuf)',
         cs' \in ClientStates, call' \in Calls \ {"hello"}, CallState', Met' => Met
  PROVE  ChildInv' /\ ClientInv'
<1>1. rbuf \in Seq(Byte)
  BY DEF ClientInv, ClientTypeOK
<1>2. rbuf' \in Seq(Byte) /\ \A b : Holds(b)' => Holds(b)
  BY <1>1, LeftIsLess
<1>3. ChildInv'
  BY ClientLeavesChild
<1>4. UNCHANGED <<out, taken>>
  BY DEF server
<1>5. ~ Holds(SrvHelloHi)
  BY DEF ClientInv, BufferKnown, Waiting
<1>6. call' \in Calls /\ call' # "hello"
  OBVIOUS
<1> QED BY <1>2, <1>3, <1>4, <1>5, <1>6, LaterClientStep

(* One that sends nothing.                                                 *)
LEMMA SilentRead ==
  ASSUME ChildInv, ClientInv, call \in Waiting \ {"hello"}, NEW n \in Nat, Left(n),
         UNCHANGED <<server, inp, writeEnd, sbuf, taken>>, peer' \in {peer, "gone"},
         cs' \in ClientStates, call' \in Calls \ {"hello"}, CallState', Met' => Met
  PROVE  ChildInv' /\ ClientInv'
<1>1. /\ inp' \in Seq(StreamByte) /\ sbuf' \in Seq(Byte) /\ GoodStart(sbuf)'
  BY DEF ChildInv, TypeInv, TypeOK, ClientInv, ClientTypeOK, GoodStart
<1> QED BY <1>1, LaterRead

(* The reads of an authentication's answer and of a status.                *)
LEMMA AnswerReads ==
  ASSUME ChildInv, ClientInv,
         ReadAuthResponce \/ ReadAuthStatus \/ ReadStatementReply \/ ReadStatus \/ ReadVersion
  PROVE  ChildInv' /\ ClientInv'
<1>0. cs \in ClientStates /\ CallState
  BY DEF ClientInv, ClientTypeOK
<1>1. CASE ReadAuthResponce
  <2>1. /\ call = "auth_responce" /\ Left(ReplyLen)
        /\ UNCHANGED <<server, inp, writeEnd, sbuf, taken, peer, cs>>
        /\ call' \in {"none", "auth_status"}
    BY <1>1 DEF ReadAuthResponce, Left, StreamEnds, Return
  <2>2. cs = "C"
    BY <1>0, <2>1 DEF CallState
  <2>3. call \in Waiting \ {"hello"} /\ call' \in Calls \ {"hello"} /\ CallState' /\ (Met' => Met)
    BY <2>1, <2>2 DEF Waiting, Calls, CallState, Met
  <2> QED BY <1>0, <2>1, <2>3, ReplyLenIs, SilentRead
<1>2. CASE ReadAuthStatus
  <2>1. /\ call = "auth_status" /\ Left(1)
        /\ UNCHANGED <<server, inp, writeEnd, sbuf, taken, peer>>
        /\ call' = "none" /\ cs' \in {"A", cs}
    BY <1>2 DEF ReadAuthStatus, Left, StreamEnds, Return
  <2>2. cs = "C"
    BY <1>0, <2>1 DEF CallState
  <2>3. call \in Waiting \ {"hello"} /\ call' \in Calls \ {"hello"} /\ CallState' /\ (Met' => Met)
        /\ cs' \in ClientStates
    BY <2>1, <2>2 DEF Waiting, Calls, CallState, Met, ClientStates
  <2> QED BY <2>1, <2>3, SilentRead
<1>3. CASE ReadStatementReply
  <2>1. /\ call = "stmt_reply" /\ Left(ReplyLen)
        /\ UNCHANGED <<server, inp, writeEnd, sbuf, taken>> /\ peer' = "gone"
        /\ call' = "none" /\ cs' = "D"
    BY <1>3 DEF ReadStatementReply, Left, StreamEnds, Return, Close
  <2>2. call \in Waiting \ {"hello"} /\ call' \in Calls \ {"hello"} /\ CallState' /\ (Met' => Met)
        /\ cs' \in ClientStates
    BY <2>1 DEF Waiting, Calls, CallState, Met, ClientStates
  <2> QED BY <2>1, <2>2, ReplyLenIs, SilentRead
<1>4. CASE ReadStatus
  <2>1. /\ call = "status" /\ Left(ReplyLen)
        /\ UNCHANGED <<server, inp, writeEnd, sbuf, taken, peer, cs>>
        /\ call' = "none"
    BY <1>4 DEF ReadStatus, Left, StreamEnds, Return
  <2>2. call \in Waiting \ {"hello"} /\ call' \in Calls \ {"hello"} /\ CallState' /\ (Met' => Met)
    BY <2>1 DEF Waiting, Calls, CallState, Met
  <2> QED BY <1>0, <2>1, <2>2, ReplyLenIs, SilentRead
<1>5. CASE ReadVersion
  <2>1. /\ call = "version" /\ Left(4)
        /\ UNCHANGED <<server, inp, writeEnd, sbuf, taken>> /\ peer' \in {peer, "gone"}
        /\ call' = "none" /\ cs' \in {"C", "D"}
    BY <1>5 DEF ReadVersion, Left, StreamEnds, Return, Close
  <2>2. call \in Waiting \ {"hello"} /\ call' \in Calls \ {"hello"} /\ CallState' /\ (Met' => Met)
        /\ cs' \in ClientStates
    BY <2>1 DEF Waiting, Calls, CallState, Met, ClientStates
  <2> QED BY <2>1, <2>2, SilentRead
<1> QED BY <1>1, <1>2, <1>3, <1>4, <1>5

(* The read that is followed by the credentials.                           *)
LEMMA RequestRead ==
  ASSUME ChildInv, ClientInv, ReadAuthRequest
  PROVE  ChildInv' /\ ClientInv'
<1>1. /\ call = "auth_request" /\ Left(ReplyLen) /\ UNCHANGED <<server, writeEnd, taken>>
      /\ call' \in {"none", "auth_responce", "dead"} /\ cs' = cs /\ peer' \in {peer, "gone"}
      /\ \/ UNCHANGED <<inp, sbuf>>
         \/ Flush(AuthBytes) \/ FlushFails(AuthBytes) \/ KilledBySend
  BY DEF ReadAuthRequest, Left, StreamEnds, Return, Await, KilledBySend, Die
<1>2. cs = "C" /\ cs \in ClientStates /\ Met
  BY <1>1 DEF ClientInv, CallState, ClientTypeOK, Met
<1>3. pc \notin {"create", "hello", "hello_enc"}
  BY <1>2, MetIsGreeted
<1>4. /\ inp \in Seq(StreamByte) /\ sbuf \in Seq(Byte) /\ GoodStart(sbuf)
  BY DEF ChildInv, TypeInv, TypeOK, ClientInv, ClientTypeOK
<1>5. sbuf' \in Seq(Byte) /\ GoodStart(sbuf)' /\ inp' \in Seq(StreamByte)
  <2>1. CASE UNCHANGED <<inp, sbuf>>
    BY <1>4, <2>1 DEF GoodStart
  <2>2. CASE Flush(AuthBytes) \/ FlushFails(AuthBytes) \/ KilledBySend
    BY <1>4, <2>2, CredentialsStart, SendKeeps
  <2> QED BY <1>1, <2>1, <2>2
<1>6. call \in Waiting \ {"hello"} /\ call' \in Calls \ {"hello"} /\ CallState' /\ (Met' => Met)
      /\ cs' \in ClientStates
  BY <1>1, <1>2 DEF Waiting, Calls, CallState
<1> QED BY <1>1, <1>3, <1>5, <1>6, ReplyLenIs, LaterRead

(* The hello: one that is read came from this child.                       *)
LEMMA HelloRead ==
  ASSUME ChildInv, ClientInv, ReadServerHello
  PROVE  ChildInv' /\ ClientInv'
<1>1. /\ call = "hello" /\ cs = "D" /\ Left(ReplyLen) /\ UNCHANGED <<server, inp, writeEnd, sbuf, taken>>
      /\ cs' = "D" /\ peer' \in {peer, "gone"}
      /\ \/ call' = "version" /\ Have(ReplyLen) /\ IsHello
         \/ call' = "none" /\ ~ (Have(ReplyLen) /\ IsHello)
  BY DEF ReadServerHello, Left, StreamEnds, Return, Await, Close, ClientInv, CallState, IsHello
<1>2. /\ inp \in Seq(StreamByte) /\ sbuf \in Seq(Byte) /\ rbuf \in Seq(Byte) /\ GoodStart(sbuf)
  BY DEF ChildInv, TypeInv, TypeOK, ClientInv, ClientTypeOK
<1>3. ChildInv'
  BY <1>1, <1>2, ClientLeavesChild
<1>4. /\ rbuf' \in Seq(Byte) /\ \A b : Holds(b)' => Holds(b)
      /\ HelloAhead => ~ Holds(SrvHelloHi)'
  BY <1>1, <1>2, ReplyLenIs, LeftIsLess
<1>5. ClientTypeOK' /\ CallState' /\ GoodStart(sbuf)'
  <2>1. UNCHANGED <<out, taken>> /\ call' \in Calls /\ "D" \in ClientStates
    BY <1>1 DEF server, Calls, Waiting, ClientStates
  <2> QED BY <1>1, <1>2, <1>4, <2>1 DEF ClientInv, ClientTypeOK, CallState, GoodStart
<1>6. \/ taken = 0 /\ ~ Holds(SrvHelloHi)
      \/ taken >= 1 /\ Vouched /\ HelloAhead
  BY <1>1 DEF ClientInv, BufferKnown
<1>7. ~ Holds(SrvHelloHi)'
  BY <1>4, <1>6
<1>8. Vouched => Vouched'
  BY <1>1, <1>4 DEF Vouched, Sent, server
<1>9. call' = "version" => taken >= 1 /\ Vouched
  <2>1. ASSUME IsHello PROVE Holds(SrvHelloHi)
    <3>1. rbuf # <<>> /\ rbuf[1] = SrvHelloHi
      BY <2>1 DEF IsHello, ReplyLen
    <3>2. 1 \in 1 .. Len(rbuf)
      BY <1>2, <3>1
    <3> QED BY <3>1, <3>2 DEF Holds
  <2> QED BY <1>1, <1>6, <2>1
<1>10. BufferKnown'
  BY <1>1, <1>7, <1>8, <1>9 DEF BufferKnown, Met
<1> QED BY <1>3, <1>5, <1>10 DEF ClientInv

(* The application's process ends.                                         *)
LEMMA ExitKeeps ==
  ASSUME ChildInv, ClientInv, Exit
  PROVE  ChildInv' /\ ClientInv'
<1>1. /\ UNCHANGED <<server, inp, writeEnd, rbuf, sbuf, taken, cs>>
      /\ peer' = "gone" /\ call' = "dead" /\ call # "dead"
  BY DEF Exit, Die
<1>2. inp \in Seq(StreamByte)
  BY DEF ChildInv, TypeInv, TypeOK
<1>3. ChildInv'
  BY <1>1, <1>2, ClientLeavesChild
<1>4. ClientTypeOK' /\ CallState' /\ GoodStart(sbuf)'
  BY <1>1 DEF ClientInv, ClientTypeOK, CallState, GoodStart, Calls, server
<1>5. Vouched => Vouched'
  BY <1>1 DEF Vouched, Holds, Sent, server
<1>6. BufferKnown'
  BY <1>1, <1>5 DEF ClientInv, BufferKnown, Met
<1> QED BY <1>3, <1>4, <1>6 DEF ClientInv

----------------------------------------------------------------------------
(* What arrives.                                                           *)

(* The bytes of a message that say what it is are in no other.             *)
LEMMA WireTells ==
  ASSUME NEW m \in ServerMsg
  PROVE  /\ Wire(m) \in Seq(Byte)
         /\ \A h \in 1 .. Len(Wire(m)) :
              /\ Wire(m)[h] = AuthReqMagic => m = "AUTH_REQUEST"
              /\ Wire(m)[h] = Granted => m = "AUTH_OK"
              /\ Wire(m)[h] = SrvHelloHi => m = "HELLO" /\ h = 1
         /\ m = "HELLO" => Len(Wire(m)) = 6 /\ Wire(m)[1] = SrvHelloHi /\ Wire(m)[2] = SrvHelloLo
<1>1. /\ AuthReqMagic = 17 /\ Granted = 204 /\ SrvHelloHi = 25 /\ SrvHelloLo = 133
      /\ AuthRespMagic = 51 /\ Refused = 255 /\ CancelMagic = 87 /\ UText = 1 /\ GoodbyeMagic = 190
  BY DEF AuthReqMagic, Granted, SrvHelloHi, SrvHelloLo, AuthRespMagic, Refused, CancelMagic,
         UText, GoodbyeMagic
<1>2. /\ 17 \in Byte /\ 204 \in Byte /\ 25 \in Byte /\ 133 \in Byte /\ 51 \in Byte
      /\ 255 \in Byte /\ 87 \in Byte /\ 1 \in Byte /\ 190 \in Byte /\ 0 \in Byte /\ 65 \in Byte
  BY DEF Byte
<1>3. CASE m = "HELLO"
  <2>1. Wire(m) = <<25, 133, 0, 1, 0, 1>>
    BY <1>1, <1>3 DEF Wire
  <2>2. Wire(m) \in Seq(Byte) /\ Len(Wire(m)) = 6
    BY <1>2, <2>1
  <2>3. \A h \in 1 .. 6 : Wire(m)[h] \in {25, 133, 0, 1} /\ (Wire(m)[h] = 25 => h = 1)
    BY <2>1
  <2> QED BY <1>1, <1>3, <2>1, <2>2, <2>3, SMTT(60)
<1>4. CASE m = "AUTH_REQUEST"
  <2>1. Wire(m) = <<17>>
    BY <1>1, <1>4 DEF Wire
  <2>2. Wire(m) \in Seq(Byte) /\ \A h \in 1 .. Len(Wire(m)) : Wire(m)[h] = 17
    BY <1>2, <2>1
  <2> QED BY <1>1, <1>4, <2>2
<1>5. CASE m = "AUTH_OK"
  <2>1. Wire(m) = <<51, 204>>
    BY <1>1, <1>5 DEF Wire
  <2>2. Wire(m) \in Seq(Byte) /\ \A h \in 1 .. Len(Wire(m)) : Wire(m)[h] \in {51, 204}
    BY <1>2, <2>1
  <2> QED BY <1>1, <1>5, <2>2
<1>6. CASE m = "AUTH_FAIL"
  <2>1. Wire(m) = <<51, 255>>
    BY <1>1, <1>6 DEF Wire
  <2>2. Wire(m) \in Seq(Byte) /\ \A h \in 1 .. Len(Wire(m)) : Wire(m)[h] \in {51, 255}
    BY <1>2, <2>1
  <2> QED BY <1>1, <1>6, <2>2
<1>7. CASE m = "ERROR_TEXT"
  <2>1. Wire(m) = <<1, 1, 65, 0>>
    BY <1>1, <1>7 DEF Wire
  <2>2. Wire(m) \in Seq(Byte) /\ \A h \in 1 .. Len(Wire(m)) : Wire(m)[h] \in {1, 65, 0}
    BY <1>2, <2>1
  <2> QED BY <1>1, <1>7, <2>2
<1>8. CASE m = "CANCEL"
  <2>1. Wire(m) = <<87>>
    BY <1>1, <1>8 DEF Wire
  <2>2. Wire(m) \in Seq(Byte) /\ \A h \in 1 .. Len(Wire(m)) : Wire(m)[h] = 87
    BY <1>2, <2>1
  <2> QED BY <1>1, <1>8, <2>2
<1>9. CASE m = "GOODBYE"
  <2>1. Wire(m) = <<190>>
    BY <1>1, <1>9 DEF Wire
  <2>2. Wire(m) \in Seq(Byte) /\ \A h \in 1 .. Len(Wire(m)) : Wire(m)[h] = 190
    BY <1>2, <2>1
  <2> QED BY <1>1, <1>9, <2>2
<1> QED BY <1>3, <1>4, <1>5, <1>6, <1>7, <1>8, <1>9 DEF ServerMsg

(* What recv() brings names only messages that were sent, and a hello only *)
(* when it is the first to arrive.                                         *)
Telling(x) ==
  /\ x \in Seq(Byte)
  /\ \A h \in 1 .. Len(x) :
       /\ x[h] = AuthReqMagic => Sent("AUTH_REQUEST")
       /\ x[h] = Granted => Sent("AUTH_OK")
       /\ x[h] = SrvHelloHi => taken = 0 /\ h = 1
  /\ taken = 0 => Len(x) >= 2 /\ x[1] = SrvHelloHi /\ x[2] = SrvHelloLo

LEMMA BroughtTells ==
  ASSUME out \in Seq(ServerMsg), OutDiscipline, taken \in Nat,
         NEW k \in taken + 1 .. Len(out), NEW w, NEW x,
         \A i \in 1 .. k - taken : w[i] = Wire(out[taken + i]),
         Brings(x, w, k - taken)
  PROVE  Telling(x)
<1>1. /\ k - taken \in Nat /\ k - taken >= 1
      /\ \A i \in 1 .. k - taken : taken + i \in 1 .. Len(out)
  OBVIOUS
<1>2. \A i \in 1 .. k - taken : out[taken + i] \in ServerMsg
  BY <1>1
<1>3. 1 \in 1 .. k - taken /\ w[1] = Wire(out[taken + 1])
  BY <1>1
<1>4. w[1] \in Seq(Byte) /\ Len(w[1]) \in Nat
  BY <1>2, <1>3, WireTells
<1>5. x \in Seq(Byte) /\ Len(x) \in Nat /\ Len(x) >= Len(w[1])
  BY DEF Brings
<1>6. ASSUME NEW h \in 1 .. Len(x)
      PROVE  \E j \in 1 .. k - taken : \E g \in 1 .. Len(w[j]) :
               w[j][g] = x[h] /\ (j = 1 => g = h)
  <2>1. CASE h \in 1 .. Len(w[1])
    <3>1. x[h] = w[1][h]
      BY <2>1 DEF Brings
    <3> QED BY <1>3, <2>1, <3>1
  <2>2. CASE h \in Len(w[1]) + 1 .. Len(x)
    <3>1. PICK j \in 2 .. k - taken : \E g \in 1 .. Len(w[j]) : w[j][g] = x[h]
      BY <2>2 DEF Brings
    <3>2. j \in 1 .. k - taken /\ j # 1
      BY <1>1
    <3> QED BY <3>1, <3>2
  <2> QED BY <1>4, <1>5, <2>1, <2>2
<1>7. ASSUME NEW h \in 1 .. Len(x)
      PROVE  /\ x[h] = AuthReqMagic => Sent("AUTH_REQUEST")
             /\ x[h] = Granted => Sent("AUTH_OK")
             /\ x[h] = SrvHelloHi => taken = 0 /\ h = 1
  <2>1. PICK j \in 1 .. k - taken : \E g \in 1 .. Len(w[j]) :
               w[j][g] = x[h] /\ (j = 1 => g = h)
    BY <1>6
  <2>2. PICK g \in 1 .. Len(w[j]) : w[j][g] = x[h] /\ (j = 1 => g = h)
    BY <2>1
  <2> DEFINE m == out[taken + j]
  <2>3. m \in ServerMsg /\ w[j] = Wire(m) /\ taken + j \in 1 .. Len(out)
    BY <1>1, <1>2
  <2>4. m = "HELLO" => taken + j = 1
    BY <2>3 DEF OutDiscipline
  <2>5. \A a : m = a => Sent(a)
    BY <2>3 DEF Sent
  <2> HIDE DEF m
  <2>6. /\ x[h] = AuthReqMagic => m = "AUTH_REQUEST"
        /\ x[h] = Granted => m = "AUTH_OK"
        /\ x[h] = SrvHelloHi => m = "HELLO" /\ g = 1
    BY <2>2, <2>3, WireTells, SMTT(60)
  <2>7. m = "HELLO" => taken = 0 /\ j = 1
    BY <2>4
  <2> QED BY <2>2, <2>5, <2>6, <2>7
<1>8. ASSUME taken = 0
      PROVE  Len(x) >= 2 /\ x[1] = SrvHelloHi /\ x[2] = SrvHelloLo
  <2>1. out[1] = "HELLO" /\ w[1] = Wire(out[1])
    BY <1>1, <1>3, <1>8 DEF OutDiscipline
  <2>2. "HELLO" \in ServerMsg
    BY DEF ServerMsg
  <2>3. Len(w[1]) = 6 /\ w[1][1] = SrvHelloHi /\ w[1][2] = SrvHelloLo
    BY <2>1, <2>2, WireTells
  <2>4. x[1] = w[1][1] /\ x[2] = w[1][2]
    BY <2>3 DEF Brings
  <2> QED BY <1>5, <2>3, <2>4
<1> QED BY <1>5, <1>7, <1>8 DEF Telling

LEMMA ReceivedTells ==
  ASSUME ChildInv, ClientInv, NEW k \in taken + 1 .. Len(out)
  PROVE  Telling(FlattenSeq([i \in 1 .. k - taken |-> Wire(out[taken + i])]))
<1> DEFINE n == k - taken
           w == [i \in 1 .. n |-> Wire(out[taken + i])]
<1>1. out \in Seq(ServerMsg) /\ OutDiscipline /\ taken \in Nat
  BY DEF ChildInv, TypeInv, TypeOK, OutInv, ClientInv, ClientTypeOK
<1>2. n \in Nat /\ n >= 1
  BY <1>1
<1>3. \A i \in 1 .. n : out[taken + i] \in ServerMsg
  BY <1>1
<1>4. \A i \in 1 .. n : w[i] = Wire(out[taken + i]) /\ w[i] \in Seq(Byte)
  BY <1>3, WireTells
<1>5. Len(w) = n
  BY <1>2
<1> HIDE DEF w
<1>6. PICK f : Joins(f, w, n) /\ FlattenSeq(w) = f[n]
  BY <1>2, <1>5, FlattenIsJoin
<1>7. Brings(FlattenSeq(w), w, n)
  BY <1>2, <1>4, <1>6, JoinBrings
<1>8. Telling(FlattenSeq(w))
  BY <1>1, <1>4, <1>7, BroughtTells
<1> QED BY <1>8 DEF w

(* Bytes behind those that are there.                                      *)
LEMMA TellingAppended ==
  ASSUME rbuf \in Seq(Byte), NEW x, Telling(x), rbuf' = rbuf \o x, out' = out
  PROVE  /\ rbuf' \in Seq(Byte)
         /\ Vouched => Vouched'
         /\ ~ Holds(SrvHelloHi) /\ taken # 0 => ~ Holds(SrvHelloHi)'
<1>1. x \in Seq(Byte) /\ Len(x) \in Nat /\ Len(rbuf) \in Nat
  BY DEF Telling
<1>2. rbuf' \in Seq(Byte) /\ Len(rbuf') = Len(rbuf) + Len(x)
  BY <1>1
<1>3. ASSUME NEW b, Holds(b)'
      PROVE  Holds(b) \/ \E h \in 1 .. Len(x) : x[h] = b
  <2>1. PICK i \in 1 .. Len(rbuf') : rbuf'[i] = b
    BY <1>3 DEF Holds
  <2>2. CASE i <= Len(rbuf)
    <3>1. i \in 1 .. Len(rbuf) /\ rbuf[i] = b
      BY <1>1, <1>2, <2>1, <2>2
    <3> QED BY <3>1 DEF Holds
  <2>3. CASE i > Len(rbuf)
    <3>1. i - Len(rbuf) \in 1 .. Len(x) /\ x[i - Len(rbuf)] = b
      BY <1>1, <1>2, <2>1, <2>3
    <3> QED BY <3>1
  <2> QED BY <1>1, <1>2, <2>2, <2>3
<1>4. \A m : Sent(m) => Sent(m)'
  BY DEF Sent
<1>5. Vouched => Vouched'
  BY <1>3, <1>4 DEF Vouched, Telling
<1>6. ~ Holds(SrvHelloHi) /\ taken # 0 => ~ Holds(SrvHelloHi)'
  BY <1>3 DEF Telling
<1> QED BY <1>2, <1>5, <1>6

LEMMA ReceiveKeeps ==
  ASSUME ChildInv, ClientInv, Receive
  PROVE  ChildInv' /\ ClientInv'
<1>1. /\ call \in Waiting /\ ~ Have(Need)
      /\ UNCHANGED <<server, inp, peer, writeEnd, cs, call, sbuf>>
  BY DEF Receive
<1>2. PICK k \in taken + 1 .. Len(out) :
        /\ rbuf' = rbuf \o FlattenSeq([i \in 1 .. k - taken |-> Wire(out[taken + i])])
        /\ taken' = k
  BY DEF Receive
<1>3. PICK x : Telling(x) /\ rbuf' = rbuf \o x
  BY <1>2, ReceivedTells
<1>4. /\ inp \in Seq(StreamByte) /\ rbuf \in Seq(Byte) /\ taken \in Nat
      /\ out \in Seq(ServerMsg) /\ out' = out
  BY <1>1 DEF ChildInv, TypeInv, TypeOK, ClientInv, ClientTypeOK, server
<1>5. ChildInv'
  BY <1>1, <1>4, ClientLeavesChild
<1>6. /\ rbuf' \in Seq(Byte) /\ (Vouched => Vouched')
      /\ ~ Holds(SrvHelloHi) /\ taken # 0 => ~ Holds(SrvHelloHi)'
  BY <1>3, <1>4, TellingAppended
<1>7. taken' \in Nat /\ taken' >= 1 /\ taken' <= Len(out')
  BY <1>2, <1>4
<1>8. ClientTypeOK' /\ CallState' /\ GoodStart(sbuf)'
  BY <1>1, <1>6, <1>7 DEF ClientInv, ClientTypeOK, CallState, GoodStart
<1>9. CASE call = "hello"
  <2>1. /\ Need = ReplyLen /\ ~ Met /\ ~ Met' /\ call' = "hello"
    BY <1>1, <1>9 DEF Need, Met, ClientInv, CallState
  <2>2. taken = 0 /\ ~ Holds(SrvHelloHi)
    <3>1. ASSUME HelloAhead PROVE FALSE
      <4>1. Len(rbuf) >= 2 /\ ReplyLen \in {1, 2}
        BY <3>1, ReplyLenIs DEF HelloAhead
      <4> QED BY <1>1, <2>1, <4>1 DEF Have
    <3> QED BY <1>9, <3>1 DEF ClientInv, BufferKnown
  <2>3. rbuf = <<>>
    <3>1. ASSUME rbuf # <<>> PROVE FALSE
      <4>1. Len(rbuf) >= 1 /\ rbuf[1] # SrvHelloHi
        BY <1>4, <2>2, <3>1 DEF Holds
      <4>2. ReplyLen = 1
        BY <4>1 DEF ReplyLen
      <4> QED BY <1>1, <2>1, <4>1, <4>2 DEF Have
    <3> QED BY <3>1
  <2>4. rbuf' = x
    BY <1>3, <2>3 DEF Telling
  <2>5. Vouched
    BY <2>3 DEF Vouched, Holds
  <2>6. HelloAhead'
    BY <2>2, <2>4, <1>3, SMTT(60) DEF HelloAhead, Telling
  <2>7. BufferKnown'
    BY <1>6, <1>7, <2>1, <2>5, <2>6 DEF BufferKnown
  <2> QED BY <1>5, <1>8, <2>7 DEF ClientInv
<1>10. CASE call # "hello"
  <2>1. Met /\ call' = call /\ call # "dead"
    BY <1>1, <1>10 DEF Met, ClientInv, CallState, Waiting
  <2>2. taken >= 1 /\ Vouched /\ ~ Holds(SrvHelloHi)
    BY <1>10, <2>1 DEF ClientInv, BufferKnown
  <2>3. taken # 0
    BY <2>2
  <2>4. BufferKnown'
    BY <1>6, <1>7, <1>10, <2>1, <2>2, <2>3 DEF BufferKnown
  <2> QED BY <1>5, <1>8, <2>4 DEF ClientInv
<1> QED BY <1>9, <1>10

----------------------------------------------------------------------------
(* The theorems.                                                           *)

DbInv == ChildInv /\ ClientInv

LEMMA DbInit == ClientInit => DbInv
<1> SUFFICES ASSUME ClientInit PROVE DbInv
  OBVIOUS
<1>1. Init /\ cs = "D" /\ call = "none" /\ rbuf = <<>> /\ sbuf = <<>> /\ taken = 0
  BY DEF ClientInit
<1>2. TypeInv
  BY <1>1, TypeInit
<1>3. /\ pc = "create" /\ inp = <<>> /\ out = <<>>
  BY <1>1 DEF Init
<1>4. OutInv
  BY <1>3 DEF OutInv, OutDiscipline, GreetStates, AskedStates, LateStates, AuthStates, ExecStates
<1>5. ChildGreets /\ Granting
  BY <1>3 DEF ChildGreets, StreamStarts, Ungreeted, Granting, Sent
<1>6. ClientTypeOK
  <2>1. <<>> \in Seq(Byte) /\ Len(out) = 0
    BY <1>3
  <2> QED BY <1>1, <2>1 DEF ClientTypeOK, ClientStates, Calls
<1>7. CallState /\ GoodStart(sbuf) /\ BufferKnown
  BY <1>1 DEF CallState, GoodStart, BufferKnown, Met, Holds
<1> QED BY <1>2, <1>4, <1>5, <1>6, <1>7 DEF DbInv, ChildInv, ClientInv

(* Every step keeps it.                                                    *)
LEMMA DbStep == DbInv /\ [ClientNext]_allVars => DbInv'
<1> SUFFICES ASSUME ChildInv, ClientInv, [ClientNext]_allVars PROVE ChildInv' /\ ClientInv'
  BY DEF DbInv
<1>1. CASE Application
  BY <1>1, ConnectKeeps, QuietCalls, SendingCalls, ExitKeeps DEF Application
<1>2. CASE Reading
  BY <1>2, HelloRead, RequestRead, AnswerReads, ReceiveKeeps DEF Reading
<1>3. CASE ServerChild
  <2>1. Server /\ UNCHANGED client /\ TypeOK
    BY <1>3 DEF ServerChild, ChildInv, TypeInv
  <2>2. PICK m \in ServerMsg : out' = out \/ out' = Append(out, m)
    BY <2>1, OneMessage
  <2> QED BY <2>1, <2>2, ChildStep, ChildSpeaks
<1>4. CASE Parent
  <2>1. ListenerShutdown /\ UNCHANGED client /\ TypeOK
    BY <1>4 DEF Parent, ChildInv, TypeInv
  <2>2. out' = out /\ "HELLO" \in ServerMsg
    BY <2>1 DEF ListenerShutdown, ServerMsg
  <2> QED BY <2>1, <2>2, ChildStep, ChildSpeaks
<1>5. CASE UNCHANGED allVars
  <2>1. /\ UNCHANGED vars /\ UNCHANGED client /\ TypeOK
    BY <1>5 DEF allVars, ChildInv, TypeInv
  <2>2. UNCHANGED server /\ UNCHANGED <<inp, peer, writeEnd, out>>
    BY <2>1 DEF vars, server
  <2>3. inp' \in Seq(StreamByte) /\ "HELLO" \in ServerMsg
    BY <2>1, <2>2 DEF TypeOK, ServerMsg
  <2>4. ChildInv'
    BY <2>2, <2>3, ClientLeavesChild
  <2>5. ClientInv'
    BY <2>1, <2>2, <2>3, ChildSpeaks
  <2> QED BY <2>4, <2>5
<1> QED BY <1>1, <1>2, <1>3, <1>4, <1>5 DEF ClientNext

LEMMA DbInvHolds == ClientSpec => []DbInv
  BY DbInit, DbStep, PTL DEF ClientSpec

(* A client that believes its handshake done shares it with the server of  *)
(* this very connection, however many connections came before, wherever    *)
(* they broke off and whatever they left unread or unsent                  *)
(* (dbclient.c:288-341, session.c:61-93).                                  *)
THEOREM HandshakeShared == ClientSpec => []HandshakeAgreed
<1>1. DbInv => HandshakeAgreed
  BY MetIsGreeted DEF DbInv, HandshakeAgreed, Met
<1> QED BY <1>1, DbInvHolds, PTL

(* The name and the password leave the client only after a request of the  *)
(* server it is connected to now, whatever the name and the password are   *)
(* (dbclient.c:357-362).                                                   *)
THEOREM CredentialsAfterRequest == ClientSpec => CredentialsOnRequest
<1>1. DbInv /\ [ClientNext]_allVars =>
        [call # "auth_responce" /\ call' = "auth_responce" => Sent("AUTH_REQUEST")]_allVars
  <2> SUFFICES ASSUME DbInv, ClientNext, call # "auth_responce", call' = "auth_responce"
               PROVE  Sent("AUTH_REQUEST")
    OBVIOUS
  <2>1. ReadAuthRequest
    <3>1. ~ (ServerChild \/ Parent)
      BY DEF ServerChild, Parent, client
    <3>2. ~ Application
      BY DEF Application, Connect, ConnectFails, ConnectWild, Authenticate, BeginStatement,
         Statement, FinishStatement, ExecutionStatus, CancelStatement, CloseSession, Exit,
         Calling, KilledBySend, Die, Await
    <3>3. ~ (ReadServerHello \/ ReadVersion \/ ReadAuthResponce \/ ReadAuthStatus
             \/ ReadStatementReply \/ ReadStatus \/ Receive)
      BY DEF ReadServerHello, ReadVersion, ReadAuthResponce, ReadAuthStatus,
         ReadStatementReply, ReadStatus, Receive, Return, Await
    <3> QED BY <3>1, <3>2, <3>3 DEF ClientNext, Reading
  <2>2. call = "auth_request" /\ Have(ReplyLen) /\ ReplyByte = AuthReqMagic
    BY <2>1 DEF ReadAuthRequest, Return, KilledBySend, Die
  <2>3. Holds(AuthReqMagic)
    <3>1. ReplyLen \in 1 .. Len(rbuf)
      BY <2>2, ReplyLenIs DEF Have, DbInv, ClientInv, ClientTypeOK
    <3> QED BY <2>2, <3>1 DEF Holds, ReplyByte
  <2>4. Vouched
    BY <2>2 DEF DbInv, ClientInv, CallState, BufferKnown, Met
  <2> QED BY <2>3, <2>4 DEF Vouched
<1> QED BY <1>1, DbInvHolds, PTL DEF ClientSpec, CredentialsOnRequest

(* A success that dbclient_authenticate reports is one that this           *)
(* connection's child gave, and never the answer to an earlier attempt on  *)
(* another connection (dbclient.c:376-391, session.c:119-139).             *)
THEOREM SuccessWasGranted == ClientSpec => SuccessIsGranted
<1>1. DbInv /\ [ClientNext]_allVars =>
        [call = "auth_status" /\ cs' = "A" => userId # 0 /\ Sent("AUTH_OK")]_allVars
  <2> SUFFICES ASSUME DbInv, ClientNext, call = "auth_status", cs' = "A"
               PROVE  userId # 0 /\ Sent("AUTH_OK")
    OBVIOUS
  <2>1. cs = "C"
    BY DEF DbInv, ClientInv, CallState
  <2>2. ReadAuthStatus
    <3>1. ~ (ServerChild \/ Parent)
      BY <2>1 DEF ServerChild, Parent, client
    <3>2. ~ Application
      BY <2>1 DEF Application, Connect, ConnectFails, ConnectWild, Authenticate, BeginStatement,
         Statement, FinishStatement, ExecutionStatus, CancelStatement, CloseSession, Exit,
         Calling, Die
    <3>3. ~ (ReadServerHello \/ ReadVersion \/ ReadAuthRequest \/ ReadAuthResponce
             \/ ReadStatementReply \/ ReadStatus \/ Receive)
      BY <2>1 DEF ReadServerHello, ReadVersion, ReadAuthRequest, ReadAuthResponce,
         ReadStatementReply, ReadStatus, Receive
    <3> QED BY <3>1, <3>2, <3>3 DEF ClientNext, Reading
  <2>3. Have(1) /\ rbuf[1] = Granted
    BY <2>1, <2>2 DEF ReadAuthStatus, IsGranted
  <2>4. Holds(Granted)
    BY <2>3 DEF Have, DbInv, ClientInv, ClientTypeOK, Holds
  <2>5. Vouched
    BY <2>1 DEF DbInv, ClientInv, BufferKnown, Met
  <2> QED BY <2>4, <2>5 DEF Vouched, DbInv, ChildInv, Granting
<1> QED BY <1>1, DbInvHolds, PTL DEF ClientSpec, SuccessIsGranted
=============================================================================
