------------------------------ MODULE Channel ------------------------------
(***************************************************************************)
(* One direction of a connection end to end: the sender's buffer, the      *)
(* stream between the kernels and the receiver's buffer.  The sender works *)
(* on its buffer while the receiver reads from its own.                    *)
(***************************************************************************)
EXTENDS RecvBuffer

CONSTANTS SendSize, Chunks, Crossing, ShortWrites, MaxGiven

ASSUME ChannelAssumption ==
  /\ SendSize \in Nat \ {0}
  /\ Chunks \subseteq Nat \ {0}
  /\ Crossing \in BOOLEAN
  /\ ShortWrites \in BOOLEAN
  /\ MaxGiven \in Nat
  /\ Byte = 0 .. MaxGiven

VARIABLES given, sbuf, source, sz, copied, flushing, total, broken

S == INSTANCE SendBuffer

sender == <<given, sbuf, source, sz, copied, flushing, total, broken>>
channelVars == <<recvVars, sender>>

ChannelInit ==
  /\ RecvInit
  /\ buf = [i \in 0 .. Size - 1 |-> 0]
  /\ S!SendInit

(* The stream ends when the sender closes, of its own or after an error.   *)
SenderStep   == ~ closed /\ S!Sender /\ UNCHANGED <<closed, arrived, buf, ptr, upper, want, dst, failed>>
ReceiverStep == Receiver /\ UNCHANGED sender
CloseStep    == PeerClose /\ UNCHANGED sender

ChannelNext == SenderStep \/ ReceiverStep \/ CloseStep

ChannelSpec == ChannelInit /\ [][ChannelNext]_channelVars

(* A call in progress goes on: nothing obliges anyone to make one.         *)
ReceiverGoesOn == (Copy \/ ReadPortion \/ ReadPortionFails) /\ UNCHANGED sender

ChannelFairSpec == ChannelSpec /\ WF_channelVars(ReceiverGoesOn)

----------------------------------------------------------------------------
(* What reaches the callers of the receiving side is what the callers of   *)
(* the sending side gave, in order, whatever turns the two buffers have    *)
(* taken in between (pproto_client.c:144-167, pproto_server.c:79-151).     *)
EndToEnd ==
  \A i \in 1 .. Len(dst) : dst[i] = i

(* A read for which the stream has enough bytes, or whose stream is        *)
(* closed, returns (pproto_server.c:131-151).                              *)
ReadReturns ==
  want > 0 /\ (closed \/ Len(wire) >= arrived + want) ~> want = 0

(* pproto_client.h:114-115: pproto_client_send_sql_stmt sends the data of  *)
(* a statement, or it returns an error.                                    *)
WireInOrder ==
  \A i \in 1 .. Len(wire) : wire[i] = i
=============================================================================
