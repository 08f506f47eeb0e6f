----------------------------- MODULE RecvBuffer -----------------------------
(***************************************************************************)
(* The receive buffer of both ends: pproto_server.c:79-151 with the reads  *)
(* of one byte spread over its text functions, and its twin in             *)
(* pproto_client.c:85-130.  recv() appends to the buffer behind what is    *)
(* there; when the buffer has been filled to its end it starts over.       *)
(* Callers get exactly the bytes they ask for, blocking for more.          *)
(***************************************************************************)
EXTENDS Integers, Sequences

CONSTANTS
  Size,       \* recv_buf_size, 8192 in the code
  Byte,       \* what a byte of the stream may be
  Sizes       \* how many bytes a caller may ask for

ASSUME RecvAssumption ==
  /\ Size \in Nat \ {0}
  /\ Sizes \subseteq Nat \ {0}
  /\ Byte # {}

VARIABLES
  wire,       \* every byte the peer has sent on this connection
  closed,     \* the peer sends no more
  arrived,    \* how many of them recv() has brought
  buf,        \* recv_buf, indexed from 0
  ptr,        \* recv_buf_ptr
  upper,      \* recv_buf_upper_bound
  want,       \* bytes the call in progress still has to copy, 0 between calls
  dst,        \* history: every byte handed to a caller, in order
  failed      \* some call returned an error

peerVars == <<wire, closed>>
recvVars == <<wire, closed, arrived, buf, ptr, upper, want, dst, failed>>

RecvTypeOK ==
  /\ wire \in Seq(Byte)
  /\ closed \in BOOLEAN
  /\ arrived \in Nat
  /\ buf \in [0 .. Size - 1 -> Byte]
  /\ ptr \in 0 .. Size
  /\ upper \in 0 .. Size
  /\ want \in Nat
  /\ dst \in Seq(Byte)
  /\ failed \in BOOLEAN

RecvInit ==
  /\ wire = <<>>
  /\ closed = FALSE
  /\ arrived = 0
  /\ buf \in [0 .. Size - 1 -> Byte]
  /\ ptr = 0
  /\ upper = 0
  /\ want = 0
  /\ dst = <<>>
  /\ failed = FALSE

MinOf(a, b) == IF a < b THEN a ELSE b

----------------------------------------------------------------------------
(* A call of pproto_get(buf, n), or a read of the byte under recv_buf_ptr. *)
Get(n) ==
  /\ want = 0
  /\ want' = n
  /\ UNCHANGED <<peerVars, arrived, buf, ptr, upper, dst, failed>>

(* One turn of its loop: what is there is copied first.                    *)
Copy ==
  /\ want > 0
  /\ ptr < upper
  /\ LET cpsz == MinOf(upper - ptr, want) IN
       /\ dst' = dst \o [i \in 1 .. cpsz |-> buf[ptr + i - 1]]
       /\ ptr' = ptr + cpsz
       /\ want' = want - cpsz
  /\ UNCHANGED <<peerVars, arrived, buf, upper, failed>>

(* read_portion is called with the buffer drained only.                    *)
TooEager == upper - ptr < want      \* mutant: ... with less than is wanted
Drained  == ptr = upper

(* Where recv() puts the next bytes: the start once the end is reached.    *)
NoRestart == upper                  \* mutant: ... never the start
Base == IF upper = Size THEN 0 ELSE upper

LeftSz == Size - Base

ReadPortion ==
  /\ want > 0
  /\ Drained
  /\ \E k \in 1 .. MinOf(LeftSz, Len(wire) - arrived) :
       /\ buf' = [i \in 0 .. Size - 1 |->
                    IF i \in Base .. Base + k - 1
                    THEN wire[arrived + 1 + i - Base] ELSE buf[i]]
       /\ upper' = Base + k
       /\ arrived' = arrived + k
  /\ ptr' = IF upper = Size THEN 0 ELSE ptr
  /\ UNCHANGED <<peerVars, want, dst, failed>>

(* recv() returns 0 or an error: the call fails with what it has copied.   *)
ReadPortionFails ==
  /\ want > 0
  /\ Drained
  /\ closed /\ arrived = Len(wire)
  /\ ptr' = IF upper = Size THEN 0 ELSE ptr
  /\ upper' = Base
  /\ want' = 0
  /\ failed' = TRUE
  /\ UNCHANGED <<peerVars, arrived, buf, dst>>

Receiver == Copy \/ ReadPortion \/ ReadPortionFails \/ \E n \in Sizes : Get(n)

----------------------------------------------------------------------------
(* The peer, when it is not another module.                                *)
PeerSend(b) ==
  /\ ~ closed
  /\ wire' = Append(wire, b)
  /\ UNCHANGED <<closed, arrived, buf, ptr, upper, want, dst, failed>>

PeerClose ==
  /\ ~ closed
  /\ closed' = TRUE
  /\ UNCHANGED <<wire, arrived, buf, ptr, upper, want, dst, failed>>

RecvNext == Receiver \/ PeerClose \/ \E b \in Byte : PeerSend(b)

RecvSpec == RecvInit /\ [][RecvNext]_recvVars

----------------------------------------------------------------------------
(* What was handed over is what was sent, from the first byte on, with no  *)
(* byte lost, repeated or from an earlier turn of the buffer               *)
(* (pproto_server.c:131-151).                                              *)
InOrder ==
  /\ Len(dst) <= Len(wire)
  /\ \A i \in 1 .. Len(dst) : dst[i] = wire[i]

(* What the buffer holds between the two pointers is what comes next.      *)
Buffered ==
  /\ ptr <= upper
  /\ arrived = Len(dst) + (upper - ptr)
  /\ arrived <= Len(wire)
  /\ \A i \in ptr .. upper - 1 : buf[i] = wire[Len(dst) + 1 + (i - ptr)]

RecvInv == RecvTypeOK /\ InOrder /\ Buffered
=============================================================================
