----------------------------- MODULE SendBuffer -----------------------------
(***************************************************************************)
(* The send buffer of both ends: pproto_client.c:66-83, 132-167 and its    *)
(* twin pproto_server.c:64-76, 107-115, 199-218.  Messages are collected   *)
(* in the buffer, which is written to the socket when it is full and when  *)
(* a message is finished.                                                  *)
(*                                                                         *)
(* A byte is the number of its place among all the bytes the callers gave; *)
(* 0 is a byte from behind a caller's data.                                *)
(***************************************************************************)
EXTENDS Integers, Sequences

CONSTANTS
  SendSize,     \* send_buf_size, 8192 in the code
  Chunks,       \* how many bytes a caller may give at once
  Crossing,     \* whether a call's data may cross the end of the buffer
  ShortWrites,  \* whether send() may take a part of what it is given
  MaxGiven      \* bound on the bytes given in all

VARIABLES
  given,        \* bytes the callers have given so far
  sbuf,         \* what is in send_buf below send_buf_ptr
  wire,         \* what the kernel has taken
  source,       \* bytes given before the call in progress
  sz,           \* bytes of the call in progress, 0 between calls
  copied,       \* wr of pproto_send
  flushing,     \* "no", "full" or "end": why the buffer is being written
  total,        \* total_written of pproto_send_fully
  broken        \* send() has failed: the connection takes no more

sendVars == <<given, sbuf, wire, source, sz, copied, flushing, total, broken>>

SendTypeOK ==
  /\ given \in 0 .. MaxGiven
  /\ sbuf \in Seq(0 .. MaxGiven)
  /\ Len(sbuf) <= SendSize
  /\ wire \in Seq(0 .. MaxGiven)
  /\ source \in 0 .. MaxGiven
  /\ sz \in Nat
  /\ copied \in Nat
  /\ flushing \in {"no", "full", "end"}
  /\ total \in 0 .. SendSize
  /\ broken \in BOOLEAN

SendInit ==
  /\ given = 0
  /\ sbuf = <<>>
  /\ wire = <<>>
  /\ source = 0
  /\ sz = 0
  /\ copied = 0
  /\ flushing = "no"
  /\ total = 0
  /\ broken = FALSE

Room == SendSize - Len(sbuf)

(* The byte at place i of the call's data, and what lies behind the data.  *)
DataAt(i) == IF i <= sz THEN source + i ELSE 0

----------------------------------------------------------------------------
(* pproto_send(buf, n) is called.  The messages of the server and psql's   *)
(* single characters never cross the buffer's end; those of another        *)
(* application may.                                                        *)
Fits(n) == n <= Room \/ (Room = 0 /\ n <= SendSize)

SendCall(n) ==
  /\ sz = 0
  /\ flushing = "no"
  /\ given + n <= MaxGiven
  /\ Crossing \/ Fits(n)
  /\ source' = given
  /\ given' = given + n
  /\ sz' = n
  /\ copied' = 0
  /\ UNCHANGED <<sbuf, wire, flushing, total, broken>>

(* One turn of its loop.  How much to copy is limited by the room and by   *)
(* sz, not by what is left of it.                                          *)
CopySize == IF Room > sz THEN sz ELSE Room

CopyIn ==
  /\ sz > copied
  /\ flushing = "no"
  /\ Room > 0
  /\ sbuf' = sbuf \o [i \in 1 .. CopySize |-> DataAt(copied + i)]
  /\ copied' = copied + CopySize
  /\ sz' = IF sz > copied + CopySize THEN sz ELSE 0
  /\ UNCHANGED <<given, wire, source, flushing, total, broken>>

FlushFull ==
  /\ sz > copied
  /\ flushing = "no"
  /\ Room = 0
  /\ flushing' = "full"
  /\ total' = 0
  /\ UNCHANGED <<given, sbuf, wire, source, sz, copied, broken>>

(* pproto_flush_send, at the end of a message.                             *)
FlushCall ==
  /\ sz = 0
  /\ flushing = "no"
  /\ sbuf # <<>>
  /\ flushing' = "end"
  /\ total' = 0
  /\ UNCHANGED <<given, sbuf, wire, source, sz, copied, broken>>

(* One send() of pproto_send_fully: always from the start of the data.     *)
Written(n) == SubSeq(sbuf, 1, n)

WriteOut ==
  /\ flushing # "no"
  /\ ~ broken
  /\ total < Len(sbuf)
  /\ \E n \in 1 .. Len(sbuf) - total :
       /\ ShortWrites \/ n = Len(sbuf) - total
       /\ wire' = wire \o Written(n)
       /\ total' = total + n
  /\ UNCHANGED <<given, sbuf, source, sz, copied, flushing, broken>>

(* send() fails: the call returns, and the buffer keeps its bytes.         *)
WriteFails ==
  /\ flushing # "no"
  /\ total < Len(sbuf)
  /\ broken' = TRUE
  /\ flushing' = "no"
  /\ sz' = 0
  /\ UNCHANGED <<given, sbuf, wire, source, copied, total>>

(* The buffer starts over once all of it is written.                       *)
KeepsBuffer == UNCHANGED sbuf      \* mutant: send_buf_ptr is not reset
EmptyBuffer == sbuf' = <<>>

FlushEnds ==
  /\ flushing # "no"
  /\ total = Len(sbuf)
  /\ EmptyBuffer
  /\ flushing' = "no"
  /\ UNCHANGED <<given, wire, source, sz, copied, total, broken>>

Sender ==
  \/ CopyIn \/ FlushFull \/ FlushCall \/ WriteOut \/ WriteFails \/ FlushEnds
  \/ \E n \in Chunks : SendCall(n)
=============================================================================
