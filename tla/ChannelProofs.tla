--------------------------- MODULE ChannelProofs ---------------------------
(***************************************************************************)
(* What the callers of one end give is what the callers of the other get,  *)
(* in order, for buffers and calls of every size: the receive buffer hands *)
(* on the stream (RecvInv), the send buffer puts into it what it is given, *)
(* and the two are put together.  Above them, a recordset arrives with     *)
(* every value in its place (RecordsetInv), wherever the stream ends.      *)
(***************************************************************************)
EXTENDS Channel, Recordset, SequenceLemmas, SequenceTheorems, FiniteSetTheorems, TLAPS

----------------------------------------------------------------------------
(* The receiving half.                                                     *)

(* MinOf is the smaller of its arguments.                                  *)
LEMMA MinOfIsLeast ==
  ASSUME NEW a \in Int, NEW b \in Int
  PROVE  /\ MinOf(a, b) \in Int
         /\ MinOf(a, b) <= a
         /\ MinOf(a, b) <= b
         /\ MinOf(a, b) \in {a, b}
  BY DEF MinOf

(* What a copy out of the buffer appends to the bytes handed over.         *)
LEMMA CopyAppends ==
  ASSUME RecvTypeOK, NEW n \in Nat, ptr + n <= upper
  PROVE  LET d == dst \o [i \in 1 .. n |-> buf[ptr + i - 1]] IN
         /\ d \in Seq(Byte)
         /\ Len(d) = Len(dst) + n
         /\ \A i \in 1 .. Len(dst) : d[i] = dst[i]
         /\ \A i \in Len(dst) + 1 .. Len(dst) + n : d[i] = buf[ptr + (i - Len(dst)) - 1]
<1> DEFINE c == [i \in 1 .. n |-> buf[ptr + i - 1]]
<1> USE RecvAssumption DEF RecvAssumption
<1>1. \A i \in 1 .. n : ptr + i - 1 \in 0 .. Size - 1
  BY DEF RecvTypeOK
<1>2. c \in Seq(Byte) /\ Len(c) = n
  <2>1. \A i \in 1 .. n : c[i] \in Byte
    BY <1>1 DEF RecvTypeOK
  <2>2. c \in [1 .. n -> Byte]
    BY <2>1
  <2> QED BY <2>2
<1> HIDE DEF c
<1>3. /\ dst \o c \in Seq(Byte)
      /\ Len(dst \o c) = Len(dst) + n
      /\ \A i \in 1 .. Len(dst) : (dst \o c)[i] = dst[i]
      /\ \A i \in Len(dst) + 1 .. Len(dst) + n : (dst \o c)[i] = c[i - Len(dst)]
  BY <1>2, SMTT(60) DEF RecvTypeOK
<1>4. \A i \in Len(dst) + 1 .. Len(dst) + n :
        c[i - Len(dst)] = buf[ptr + (i - Len(dst)) - 1]
  BY DEF c, RecvTypeOK
<1> QED BY <1>3, <1>4 DEF c

(* The invariant holds before the first byte is sent.                      *)
LEMMA RecvInitInv == RecvInit => RecvInv
<1> SUFFICES ASSUME RecvInit PROVE RecvInv
  OBVIOUS
<1> USE RecvAssumption DEF RecvAssumption, RecvInit
<1>1. Len(dst) = 0 /\ Len(wire) = 0
  OBVIOUS
<1>2. RecvTypeOK
  BY DEF RecvTypeOK
<1> QED BY <1>1, <1>2 DEF RecvInv, InOrder, Buffered

(* Every step of the receiver and of its peer keeps the invariant.         *)
LEMMA RecvStepInv == RecvInv /\ [RecvNext]_recvVars => RecvInv'
<1> SUFFICES ASSUME RecvInv, [RecvNext]_recvVars
             PROVE  RecvInv'
  OBVIOUS
<1> USE RecvAssumption DEF RecvAssumption, RecvInv
<1>1. ASSUME NEW n \in Sizes, Get(n)
      PROVE  RecvInv'
  BY <1>1 DEF Get, peerVars, RecvTypeOK, InOrder, Buffered
<1>2. ASSUME Copy
      PROVE  RecvInv'
  <2> DEFINE cp == MinOf(upper - ptr, want)
             d  == dst \o [i \in 1 .. cp |-> buf[ptr + i - 1]]
  <2>1. cp \in Nat /\ cp <= upper - ptr /\ cp <= want
    <3>1. upper - ptr \in Nat /\ want \in Nat
      BY <1>2 DEF Copy, RecvTypeOK
    <3> QED BY <3>1 DEF MinOf
  <2>2. /\ dst' = d /\ ptr' = ptr + cp /\ want' = want - cp
        /\ UNCHANGED <<wire, closed, arrived, buf, upper, failed>>
    BY <1>2 DEF Copy, peerVars
  <2> HIDE DEF cp
  <2>3. /\ d \in Seq(Byte)
        /\ Len(d) = Len(dst) + cp
        /\ \A i \in 1 .. Len(dst) : d[i] = dst[i]
        /\ \A i \in Len(dst) + 1 .. Len(dst) + cp : d[i] = buf[ptr + (i - Len(dst)) - 1]
    BY <2>1, CopyAppends, SMTT(60) DEF RecvTypeOK
  <2> HIDE DEF d
  <2>4. RecvTypeOK'
    BY <2>1, <2>2, <2>3 DEF RecvTypeOK
  <2>5. ASSUME NEW i \in Len(dst) + 1 .. Len(dst) + cp
        PROVE  d[i] = wire[i]
    <3> DEFINE j == ptr + (i - Len(dst)) - 1
    <3>1. /\ ptr \in Int /\ upper \in Int /\ Len(dst) \in Int
          /\ i \in Int /\ Len(dst) + 1 <= i /\ i <= Len(dst) + cp
          /\ cp \in Int /\ cp <= upper - ptr
      BY <2>1, <2>5 DEF RecvTypeOK
    <3>2. j \in Int /\ ptr <= j /\ j <= upper - 1
      BY <3>1
    <3>3. Len(dst) + 1 + (j - ptr) = i
      BY <3>1
    <3>4. d[i] = buf[j]
      BY <2>3, <2>5
    <3> HIDE DEF j
    <3>5. j \in ptr .. upper - 1
      BY <3>1, <3>2
    <3>6. buf[j] = wire[Len(dst) + 1 + (j - ptr)]
      BY <3>5 DEF Buffered
    <3> QED BY <3>3, <3>4, <3>6
  <2>6. InOrder'
    <3> DEFINE len == Len(dst)
    <3>1. len \in Int /\ cp \in Int /\ 0 <= cp
      BY <2>1 DEF RecvTypeOK
    <3>2. \A i \in 1 .. len : d[i] = wire[i]
      BY <2>3 DEF InOrder
    <3>3. \A i \in len + 1 .. len + cp : d[i] = wire[i]
      BY <2>5
    <3>4. len + cp <= Len(wire)
      BY <2>1 DEF RecvTypeOK, Buffered
    <3>5. Len(d) = len + cp
      BY <2>3
    <3> HIDE DEF len
    <3>6. ASSUME NEW i \in 1 .. len + cp
          PROVE  i \in 1 .. len \/ i \in len + 1 .. len + cp
      BY <3>1, <3>6
    <3>7. \A i \in 1 .. len + cp : d[i] = wire[i]
      BY <3>2, <3>3, <3>6
    <3> QED BY <2>2, <3>4, <3>5, <3>7 DEF InOrder
  <2>7. Buffered'
    <3>1. \A i \in ptr + cp .. upper - 1 :
            buf[i] = wire[Len(dst) + cp + 1 + (i - (ptr + cp))]
      <4>1. ASSUME NEW i \in ptr + cp .. upper - 1
            PROVE  buf[i] = wire[Len(dst) + cp + 1 + (i - (ptr + cp))]
        <5>1. i \in ptr .. upper - 1
          BY <2>1 DEF RecvTypeOK
        <5>2. Len(dst) + cp + 1 + (i - (ptr + cp)) = Len(dst) + 1 + (i - ptr)
          BY <2>1 DEF RecvTypeOK
        <5> QED BY <5>1, <5>2 DEF Buffered
      <4> QED BY <4>1
    <3>2. /\ ptr + cp <= upper
          /\ arrived = Len(dst) + cp + (upper - (ptr + cp))
      BY <2>1 DEF RecvTypeOK, Buffered
    <3> QED BY <2>2, <2>3, <3>1, <3>2 DEF Buffered
  <2> QED BY <2>4, <2>6, <2>7
<1>3. ASSUME ReadPortion
      PROVE  RecvInv'
  <2>1. PICK k \in 1 .. MinOf(LeftSz, Len(wire) - arrived) :
          /\ buf' = [i \in 0 .. Size - 1 |->
                       IF i \in Base .. Base + k - 1
                       THEN wire[arrived + 1 + i - Base] ELSE buf[i]]
          /\ upper' = Base + k
          /\ arrived' = arrived + k
    BY <1>3 DEF ReadPortion
  <2>2. /\ ptr' = Base /\ ptr = upper
        /\ UNCHANGED <<wire, closed, want, dst, failed>>
    BY <1>3 DEF ReadPortion, Drained, Base, peerVars, RecvTypeOK
  <2>3. /\ k \in Nat \ {0}
        /\ Base \in Nat /\ Base < Size
        /\ Base + k <= Size
        /\ arrived + k <= Len(wire)
    <3>1. /\ Base \in Nat /\ Base < Size
          /\ LeftSz = Size - Base
      BY DEF LeftSz, Base, RecvTypeOK
    <3>2. LeftSz \in Int /\ Len(wire) - arrived \in Int
      BY <3>1 DEF RecvTypeOK
    <3>3. /\ MinOf(LeftSz, Len(wire) - arrived) \in Int
          /\ MinOf(LeftSz, Len(wire) - arrived) <= LeftSz
          /\ MinOf(LeftSz, Len(wire) - arrived) <= Len(wire) - arrived
      BY <3>2, MinOfIsLeast
    <3>4. k \in Nat \ {0} /\ k <= LeftSz /\ k <= Len(wire) - arrived
      BY <2>1, <3>2, <3>3
    <3> QED BY <3>1, <3>4 DEF RecvTypeOK
  <2>4. \A i \in Base .. Base + k - 1 : buf'[i] = wire[arrived + 1 + i - Base]
    BY <2>1, <2>3
  <2>5. RecvTypeOK'
    <3>1. \A i \in Base .. Base + k - 1 : arrived + 1 + i - Base \in 1 .. Len(wire)
      BY <2>3 DEF RecvTypeOK
    <3>2. \A i \in Base .. Base + k - 1 : wire[arrived + 1 + i - Base] \in Byte
      BY <3>1 DEF RecvTypeOK
    <3>3. buf' \in [0 .. Size - 1 -> Byte]
      BY <2>1, <3>2 DEF RecvTypeOK
    <3> QED BY <2>1, <2>2, <2>3, <3>3 DEF RecvTypeOK
  <2>6. InOrder'
    BY <2>2 DEF InOrder
  <2>7. Buffered'
    <3>1. arrived = Len(dst)
      BY <2>2 DEF Buffered, RecvTypeOK
    <3>2. \A i \in Base .. Base + k - 1 :
            buf'[i] = wire[Len(dst) + 1 + (i - Base)]
      BY <2>3, <2>4, <3>1 DEF RecvTypeOK
    <3> QED BY <2>1, <2>2, <2>3, <3>1, <3>2 DEF Buffered, RecvTypeOK
  <2> QED BY <2>5, <2>6, <2>7
<1>4. ASSUME ReadPortionFails
      PROVE  RecvInv'
  BY <1>4 DEF ReadPortionFails, Drained, Base, peerVars, RecvTypeOK, InOrder, Buffered
<1>5. ASSUME PeerClose
      PROVE  RecvInv'
  BY <1>5 DEF PeerClose, RecvTypeOK, InOrder, Buffered
<1>6. ASSUME NEW b \in Byte, PeerSend(b)
      PROVE  RecvInv'
  <2>1. /\ wire' = Append(wire, b)
        /\ UNCHANGED <<closed, arrived, buf, ptr, upper, want, dst, failed>>
    BY <1>6 DEF PeerSend
  <2>2. /\ wire' \in Seq(Byte)
        /\ Len(wire') = Len(wire) + 1
        /\ \A i \in 1 .. Len(wire) : wire'[i] = wire[i]
    BY <2>1 DEF RecvTypeOK
  <2>3. \A i \in ptr .. upper - 1 : Len(dst) + 1 + (i - ptr) \in 1 .. Len(wire)
    BY DEF Buffered, RecvTypeOK
  <2> QED BY <2>1, <2>2, <2>3, SMTT(60) DEF RecvTypeOK, InOrder, Buffered
<1>7. ASSUME UNCHANGED recvVars
      PROVE  RecvInv'
  BY <1>7 DEF recvVars, RecvTypeOK, InOrder, Buffered
<1> QED BY <1>1, <1>2, <1>3, <1>4, <1>5, <1>6, <1>7 DEF RecvNext, Receiver

(* The callers get the stream in order, and what the buffer holds is what  *)
(* they get next (pproto_server.c:79-151, pproto_client.c:85-130).         *)
THEOREM RecvCorrect == RecvSpec => []RecvInv
  BY RecvInitInv, RecvStepInv, PTL DEF RecvSpec

(* The property the runs check, by itself.                                 *)
THEOREM RecvBuffered == RecvSpec => []Buffered
<1>1. RecvInv => Buffered
  BY DEF RecvInv
<1> QED BY RecvCorrect, <1>1, PTL

----------------------------------------------------------------------------
(* The sending half.                                                       *)

(* Calls that do not cross the end of the send buffer, and a kernel that   *)
(* takes what it is given: without either the bytes get out of order.      *)
WellBehaved == ~Crossing /\ ~ShortWrites

----------------------------------------------------------------------------
(* The bytes of all calls are numbered, so that their order says it all:   *)
(* what has left is 1, 2, ...; the buffer goes on from there; and the call *)
(* in progress goes on behind the buffer.                                  *)

SenderTypeOK ==
  /\ given \in 0 .. MaxGiven /\ source \in Nat /\ sz \in Nat /\ copied \in Nat
  /\ sbuf \in Seq(Byte) /\ Len(sbuf) <= SendSize
  /\ total \in Nat /\ broken \in BOOLEAN

(* A call is copied in one piece: it fits, or will once a full buffer is   *)
(* written.                                                                *)
CallFits ==
  sz > 0 =>
    /\ copied = 0 /\ source + sz = given
    /\ sz <= SendSize - Len(sbuf) \/ (Len(sbuf) = SendSize /\ sz <= SendSize)

(* What the callers gave before the call in progress.                      *)
Before == IF sz > 0 THEN source ELSE given

(* Nothing, or all, of the buffer has been written.                        *)
Unsent ==
  flushing = "no" \/ total = 0 =>
    /\ Before = Len(wire) + Len(sbuf)
    /\ \A i \in 1 .. Len(sbuf) : sbuf[i] = Len(wire) + i
AllSent == flushing # "no" /\ total # 0 => Before = Len(wire)
InOneGo == flushing # "no" => total = 0 \/ total = Len(sbuf)

SenderInv ==
  /\ SenderTypeOK /\ CallFits /\ WireInOrder
  /\ ~broken => Unsent /\ AllSent /\ InOneGo

ChannelInv == RecvInv /\ SenderInv

----------------------------------------------------------------------------
(* The receiver does not mind how many bytes arrive.                       *)
LEMMA WireGrows ==
  ASSUME RecvInv, NEW s \in Seq(Byte), wire' = wire \o s,
         UNCHANGED <<closed, arrived, buf, ptr, upper, want, dst, failed>>
  PROVE  RecvInv'
<1> USE RecvAssumption DEF RecvAssumption, RecvInv
<1>1. /\ wire \in Seq(Byte) /\ wire' \in Seq(Byte) /\ Len(wire') >= Len(wire)
      /\ \A i \in 1 .. Len(wire) : wire'[i] = wire[i]
  BY DEF RecvTypeOK
<1>2. RecvTypeOK'
  BY <1>1 DEF RecvTypeOK
<1>3. InOrder'
  BY <1>1 DEF InOrder, RecvTypeOK
<1>4. \A i \in ptr .. upper - 1 :
        buf[i] = wire'[Len(dst) + 1 + (i - ptr)]
  <2> SUFFICES ASSUME NEW i \in ptr .. upper - 1
               PROVE  buf[i] = wire'[Len(dst) + 1 + (i - ptr)]
    OBVIOUS
  <2> DEFINE k == Len(dst) + 1 + (i - ptr)
  <2>1. k \in 1 .. Len(wire)
    BY <1>1 DEF Buffered, RecvTypeOK
  <2>2. buf[i] = wire[k]
    BY DEF Buffered
  <2> HIDE DEF k
  <2>3. buf[i] = wire'[k]
    BY <1>1, <2>1, <2>2
  <2> QED BY <2>3 DEF k
<1>5. Buffered'
  BY <1>1, <1>4, SMTT(60) DEF Buffered, RecvTypeOK
<1> QED BY <1>2, <1>3, <1>5

(* A step of the sender that leaves the wire alone.                        *)
LEMMA WireStays ==
  ASSUME RecvInv, UNCHANGED <<wire, closed, arrived, buf, ptr, upper, want, dst, failed>>
  PROVE  RecvInv'
BY DEF RecvInv, RecvTypeOK, InOrder, Buffered

----------------------------------------------------------------------------
(* One lemma for each step of the sender.                                  *)

(* A call begins behind what was given.                                    *)
LEMMA CallBegins ==
  ASSUME WellBehaved, SenderInv, NEW n \in Chunks, S!SendCall(n)
  PROVE  SenderInv'
<1> USE ChannelAssumption DEF ChannelAssumption
<1>1. /\ sz = 0 /\ flushing = "no" /\ given + n <= MaxGiven
      /\ source' = given /\ given' = given + n /\ sz' = n /\ copied' = 0
      /\ UNCHANGED <<sbuf, wire, flushing, total, broken>>
      /\ n \in Nat /\ n > 0
  BY DEF S!SendCall
<1>2. n <= SendSize - Len(sbuf) \/ (SendSize - Len(sbuf) = 0 /\ n <= SendSize)
  BY DEF S!SendCall, S!Fits, S!Room, WellBehaved
<1>3. SenderTypeOK'
  BY <1>1 DEF SenderInv, SenderTypeOK
<1>4. CallFits'
  BY <1>1, <1>2 DEF CallFits, SenderInv, SenderTypeOK
<1>5. WireInOrder'
  BY <1>1 DEF SenderInv, WireInOrder
<1>6. ~broken' => Unsent' /\ AllSent' /\ InOneGo'
  BY <1>1 DEF SenderInv, Unsent, AllSent, InOneGo, Before
<1> QED BY <1>3, <1>4, <1>5, <1>6 DEF SenderInv

(* The whole call is copied.                                               *)
LEMMA CallCopied ==
  ASSUME SenderInv, S!CopyIn
  PROVE  SenderInv'
<1> USE ChannelAssumption DEF ChannelAssumption
<1> DEFINE data == [i \in 1 .. sz |-> source + i]
<1>1. /\ sz \in Nat /\ sz > 0 /\ copied = 0 /\ flushing = "no" /\ source + sz = given
      /\ source \in Nat /\ given \in 0 .. MaxGiven /\ sbuf \in Seq(Byte) /\ Len(sbuf) <= SendSize
  BY DEF SenderInv, SenderTypeOK, CallFits, S!CopyIn
<1>2. sz <= S!Room /\ S!Room = SendSize - Len(sbuf)
  BY <1>1 DEF SenderInv, CallFits, S!CopyIn, S!Room
<1>3. S!CopySize = sz
  BY <1>1, <1>2 DEF S!CopySize
<1>4. [i \in 1 .. S!CopySize |-> S!DataAt(copied + i)] = data
  BY <1>1, <1>3 DEF S!DataAt
<1>5. /\ sbuf' = sbuf \o data /\ copied' = sz /\ sz' = 0
      /\ UNCHANGED <<given, wire, source, flushing, total, broken>>
  BY <1>1, <1>3, <1>4 DEF S!CopyIn
<1>6. data \in Seq(Byte) /\ Len(data) = sz
  <2>1. \A i \in 1 .. sz : source + i \in Byte
    BY <1>1
  <2>2. data \in [1 .. sz -> Byte]
    BY <2>1
  <2> QED BY <1>1, <2>2
<1>7. \A i \in 1 .. sz : data[i] = source + i
  OBVIOUS
<1> HIDE DEF data
<1>8. /\ sbuf' \in Seq(Byte) /\ Len(sbuf') = Len(sbuf) + sz
      /\ \A i \in 1 .. Len(sbuf) : sbuf'[i] = sbuf[i]
      /\ \A i \in Len(sbuf) + 1 .. Len(sbuf) + sz : sbuf'[i] = data[i - Len(sbuf)]
  <2>1. /\ sbuf \o data \in Seq(Byte) /\ Len(sbuf \o data) = Len(sbuf) + sz
        /\ \A i \in 1 .. Len(sbuf) : (sbuf \o data)[i] = sbuf[i]
        /\ \A i \in Len(sbuf) + 1 .. Len(sbuf) + sz : (sbuf \o data)[i] = data[i - Len(sbuf)]
    BY <1>1, <1>6, SMTT(60)
  <2> QED BY <1>5, <2>1
<1>9. SenderTypeOK'
  BY <1>1, <1>2, <1>5, <1>8 DEF SenderInv, SenderTypeOK
<1>10. CallFits' /\ WireInOrder' /\ AllSent' /\ InOneGo'
  BY <1>1, <1>5 DEF SenderInv, CallFits, WireInOrder, AllSent, InOneGo
<1>11. ASSUME ~broken
       PROVE  Unsent'
  <2>1. /\ source = Len(wire) + Len(sbuf)
        /\ \A i \in 1 .. Len(sbuf) : sbuf[i] = Len(wire) + i
    BY <1>1, <1>11 DEF SenderInv, Unsent, Before
  <2>2. Before' = Len(wire') + Len(sbuf')
    BY <1>1, <1>5, <1>8, <2>1 DEF Before
  <2>3. ASSUME NEW i \in 1 .. Len(sbuf) + sz
        PROVE  sbuf'[i] = Len(wire) + i
    <3>1. CASE i \in 1 .. Len(sbuf)
      BY <1>8, <2>1, <3>1
    <3>2. CASE i \in Len(sbuf) + 1 .. Len(sbuf) + sz
      <4>1. i - Len(sbuf) \in 1 .. sz
        BY <1>1, <3>2
      <4>2. sbuf'[i] = source + (i - Len(sbuf))
        BY <1>7, <1>8, <3>2, <4>1
      <4> QED BY <1>1, <2>1, <4>2
    <3> QED BY <1>1, <3>1, <3>2
  <2> QED BY <1>5, <1>8, <2>2, <2>3 DEF Unsent
<1> QED BY <1>5, <1>9, <1>10, <1>11 DEF SenderInv

(* A flush begins with a buffer that holds something.                      *)
LEMMA FlushBegins ==
  ASSUME SenderInv, S!FlushFull \/ S!FlushCall
  PROVE  SenderInv'
<1>1. /\ flushing = "no" /\ flushing' # "no" /\ total' = 0
      /\ UNCHANGED <<given, sbuf, wire, source, sz, copied, broken>>
  BY DEF S!FlushFull, S!FlushCall
<1>2. SenderTypeOK' /\ CallFits' /\ WireInOrder'
  BY <1>1 DEF SenderInv, SenderTypeOK, CallFits, WireInOrder
<1>3. ~broken => Unsent' /\ AllSent' /\ InOneGo'
  BY <1>1 DEF SenderInv, Unsent, AllSent, InOneGo, Before
<1> QED BY <1>1, <1>2, <1>3 DEF SenderInv

(* The buffer is written, from its first byte, in one piece.               *)
LEMMA BufferWritten ==
  ASSUME WellBehaved, SenderInv, wire \in Seq(Byte), S!WriteOut
  PROVE  SenderInv' /\ wire' = wire \o sbuf
<1>1. /\ flushing # "no" /\ ~broken /\ total < Len(sbuf)
      /\ UNCHANGED <<given, sbuf, source, sz, copied, flushing, broken>>
      /\ \E n \in 1 .. Len(sbuf) - total :
           n = Len(sbuf) - total /\ wire' = wire \o S!Written(n) /\ total' = total + n
  BY DEF S!WriteOut, WellBehaved
<1>2. /\ total = 0 /\ sbuf \in Seq(Byte) /\ Len(sbuf) \in Nat
      /\ Before = Len(wire) + Len(sbuf)
      /\ \A i \in 1 .. Len(sbuf) : sbuf[i] = Len(wire) + i
  BY <1>1 DEF SenderInv, SenderTypeOK, InOneGo, Unsent
<1>3. total' = Len(sbuf) /\ wire' = wire \o SubSeq(sbuf, 1, Len(sbuf))
  BY <1>1, <1>2 DEF S!Written
<1>4. wire' = wire \o sbuf
  <2>1. SubSeq(sbuf, 1, Len(sbuf)) = sbuf
    BY <1>2
  <2> QED BY <1>3, <2>1
<1>5. /\ Len(wire) \in Nat /\ Len(wire') = Len(wire) + Len(sbuf)
      /\ \A i \in 1 .. Len(wire) : wire'[i] = wire[i]
      /\ \A i \in Len(wire) + 1 .. Len(wire) + Len(sbuf) : wire'[i] = sbuf[i - Len(wire)]
  BY <1>2, <1>4
<1>6. WireInOrder'
  <2>1. ASSUME NEW i \in 1 .. Len(wire) + Len(sbuf)
        PROVE  wire'[i] = i
    <3>1. CASE i \in 1 .. Len(wire)
      BY <1>5, <3>1 DEF SenderInv, WireInOrder
    <3>2. CASE i \in Len(wire) + 1 .. Len(wire) + Len(sbuf)
      <4>1. i - Len(wire) \in 1 .. Len(sbuf)
        BY <1>2, <1>5, <3>2
      <4>2. wire'[i] = Len(wire) + (i - Len(wire))
        BY <1>2, <1>5, <3>2, <4>1
      <4> QED BY <1>5, <4>2
    <3> QED BY <1>2, <1>5, <3>1, <3>2
  <2> QED BY <1>5, <2>1 DEF WireInOrder
<1>7. SenderTypeOK' /\ CallFits'
  BY <1>1, <1>2, <1>3 DEF SenderInv, SenderTypeOK, CallFits
<1>8. Before' = Before
  BY <1>1 DEF Before
<1>9. total' # 0
  BY <1>1, <1>2, <1>3
<1>10. Unsent' /\ AllSent' /\ InOneGo'
  BY <1>1, <1>2, <1>3, <1>5, <1>8, <1>9 DEF Unsent, AllSent, InOneGo
<1> QED BY <1>4, <1>6, <1>7, <1>10 DEF SenderInv

(* The buffer starts over, or the connection has broken.                   *)
LEMMA FlushOver ==
  ASSUME SenderInv, S!FlushEnds \/ S!WriteFails
  PROVE  SenderInv'
<1> USE ChannelAssumption DEF ChannelAssumption
<1>1. CASE S!WriteFails
  <2>1. /\ broken' = TRUE /\ sz' = 0
        /\ UNCHANGED <<given, sbuf, wire, source, copied, total>>
    BY <1>1 DEF S!WriteFails
  <2> QED BY <2>1 DEF SenderInv, SenderTypeOK, CallFits, WireInOrder
<1>2. CASE S!FlushEnds
  <2>1. /\ flushing # "no" /\ total = Len(sbuf) /\ sbuf' = <<>> /\ flushing' = "no"
        /\ UNCHANGED <<given, wire, source, sz, copied, total, broken>>
    BY <1>2 DEF S!FlushEnds, S!EmptyBuffer
  <2>2. sbuf' \in Seq(Byte) /\ Len(sbuf') = 0
    BY <2>1
  <2>3. SenderTypeOK' /\ WireInOrder'
    BY <2>1, <2>2 DEF SenderInv, SenderTypeOK, WireInOrder
  <2>4. CallFits'
    BY <2>1, <2>2 DEF SenderInv, SenderTypeOK, CallFits
  <2>5. ASSUME ~broken
        PROVE  Before = Len(wire)
    <3>1. CASE total = 0
      BY <2>1, <2>5, <3>1 DEF SenderInv, SenderTypeOK, Unsent
    <3>2. CASE total # 0
      BY <2>1, <2>5, <3>2 DEF SenderInv, AllSent
    <3> QED BY <3>1, <3>2
  <2>6. ~broken => Unsent' /\ AllSent' /\ InOneGo'
    BY <2>1, <2>2, <2>5 DEF Unsent, AllSent, InOneGo, Before
  <2> QED BY <2>1, <2>3, <2>4, <2>6 DEF SenderInv
<1> QED BY <1>1, <1>2

----------------------------------------------------------------------------
(* Both halves together.                                                   *)

(* A step of the sender.                                                   *)
LEMMA SenderKeeps ==
  ASSUME WellBehaved, ChannelInv, SenderStep
  PROVE  ChannelInv'
<1>1. RecvInv /\ SenderInv /\ wire \in Seq(Byte) /\ sbuf \in Seq(Byte)
      /\ UNCHANGED <<closed, arrived, buf, ptr, upper, want, dst, failed>>
  BY DEF ChannelInv, RecvInv, RecvTypeOK, SenderInv, SenderTypeOK, SenderStep
<1>2. CASE S!WriteOut
  <2>1. SenderInv' /\ wire' = wire \o sbuf
    BY <1>1, <1>2, BufferWritten
  <2> QED BY <1>1, <2>1, WireGrows DEF ChannelInv
<1>3. CASE S!CopyIn \/ S!FlushFull \/ S!FlushCall \/ S!WriteFails \/ S!FlushEnds
           \/ \E n \in Chunks : S!SendCall(n)
  <2>1. wire' = wire
    BY <1>3 DEF S!CopyIn, S!FlushFull, S!FlushCall, S!WriteFails, S!FlushEnds, S!SendCall
  <2>2. SenderInv'
    BY <1>1, <1>3, CallBegins, CallCopied, FlushBegins, FlushOver
  <2>3. RecvInv'
    BY <1>1, <2>1, WireStays
  <2> QED BY <2>2, <2>3 DEF ChannelInv
<1> QED BY <1>2, <1>3 DEF SenderStep, S!Sender

(* A step of the receiver, or the end of the stream.                       *)
LEMMA ReceiverKeeps ==
  ASSUME ChannelInv, ReceiverStep \/ CloseStep
  PROVE  ChannelInv'
<1>1. RecvInv'
  <2>1. RecvNext
    BY DEF ReceiverStep, CloseStep, RecvNext
  <2> QED BY <2>1, RecvStepInv DEF ChannelInv
<1>2. wire' = wire
  BY DEF ReceiverStep, CloseStep, Receiver, PeerClose, Copy, ReadPortion, ReadPortionFails,
         Get, peerVars
<1>3. UNCHANGED <<given, sbuf, source, sz, copied, flushing, total, broken>>
  BY DEF ReceiverStep, CloseStep, sender
<1>4. SenderInv'
  BY <1>2, <1>3 DEF ChannelInv, SenderInv, SenderTypeOK, CallFits, WireInOrder, Unsent, AllSent,
                    InOneGo, Before
<1> QED BY <1>1, <1>4 DEF ChannelInv

(* What is read is what was given, in order, for send and receive buffers  *)
(* and calls of every size, and a connection that may break at any write   *)
(* (pproto_client.c:85-167, pproto_server.c:64-151), where calls do not    *)
(* cross the end of the send buffer and writes are not cut short.          *)
THEOREM BytesEndToEnd == WellBehaved => (ChannelSpec => []EndToEnd)
<1> SUFFICES ASSUME WellBehaved PROVE ChannelSpec => []EndToEnd
  OBVIOUS
<1>1. ChannelInit => ChannelInv
  <2> SUFFICES ASSUME ChannelInit PROVE ChannelInv
    OBVIOUS
  <2>1. RecvInv
    BY RecvInitInv DEF ChannelInit
  <2>2. /\ given = 0 /\ sbuf = <<>> /\ wire = <<>> /\ source = 0 /\ sz = 0 /\ copied = 0
        /\ flushing = "no" /\ total = 0 /\ broken = FALSE
    BY DEF ChannelInit, S!SendInit
  <2>3. sbuf \in Seq(Byte) /\ Len(sbuf) = 0 /\ Len(wire) = 0
    BY <2>2
  <2>4. SenderTypeOK
    <3>1. given \in 0 .. MaxGiven /\ source \in Nat /\ sz \in Nat /\ copied \in Nat /\ total \in Nat
      BY <2>2, ChannelAssumption DEF ChannelAssumption
    <3>2. Len(sbuf) <= SendSize
      BY <2>3, ChannelAssumption DEF ChannelAssumption
    <3>3. broken \in BOOLEAN
      BY <2>2
    <3> QED BY <2>3, <3>1, <3>2, <3>3 DEF SenderTypeOK
  <2>5. Len(wire) + Len(sbuf) = 0 /\ 1 .. Len(sbuf) = {} /\ 1 .. Len(wire) = {}
    BY <2>3
  <2>6. CallFits /\ WireInOrder
    BY <2>2, <2>5 DEF CallFits, WireInOrder
  <2>7. Unsent /\ AllSent /\ InOneGo
    BY <2>2, <2>5 DEF Unsent, AllSent, InOneGo, Before
  <2> QED BY <2>1, <2>4, <2>6, <2>7 DEF ChannelInv, SenderInv
<1>2. ChannelInv /\ [ChannelNext]_channelVars => ChannelInv'
  <2> SUFFICES ASSUME ChannelInv, [ChannelNext]_channelVars PROVE ChannelInv'
    OBVIOUS
  <2>1. CASE UNCHANGED channelVars
    <3>1. UNCHANGED <<wire, closed, arrived, buf, ptr, upper, want, dst, failed>>
          /\ UNCHANGED <<given, sbuf, source, sz, copied, flushing, total, broken>>
      BY <2>1 DEF channelVars, recvVars, sender
    <3>2. RecvInv'
      BY <3>1, WireStays DEF ChannelInv
    <3>3. SenderInv'
      BY <3>1 DEF ChannelInv, SenderInv, SenderTypeOK, CallFits, WireInOrder, Unsent, AllSent,
                  InOneGo, Before
    <3> QED BY <3>2, <3>3 DEF ChannelInv
  <2> QED BY <2>1, SenderKeeps, ReceiverKeeps DEF ChannelNext
<1>3. ChannelInv => EndToEnd
  BY DEF ChannelInv, RecvInv, RecvTypeOK, InOrder, SenderInv, WireInOrder, EndToEnd
<1> QED BY <1>1, <1>2, <1>3, PTL DEF ChannelSpec

----------------------------------------------------------------------------
(* A recordset as it lies in the stream.                                   *)

Content == Nat \cup Column \cup [0 .. BITS - 1 -> 0 .. 1] \cup RowValues
Kinds == {"col_num", "col", "row", "mask", "value", "end"}
AnyItem == [kind : Kinds, value : Content]

RowHead(cols, values) == <<Item("row", 0)>> \o MaskOf(cols, values)
RowsOfItems(r) == [i \in DOMAIN r.rows |-> RowItems(r.cols, r.rows[i])]
TheEnd == <<Item("end", 0)>>

(* What follows the first i rows, and the first j values of a row.         *)
RowsBehind(r, i) == JoinedBehind(RowsOfItems(r), i) \o TheEnd
ValuesBehind(values, j) == JoinedBehind(ValueItems(values), j)

IsRow(cols, values) ==
  /\ values \in Seq(RowValues) /\ Len(values) = Len(cols)
  /\ \A c \in 1 .. Len(cols) : values[c] = NullValue => cols[c].nullable

LEMMA RecordsetFacts ==
  ASSUME NEW r \in Recordsets
  PROVE  /\ r.cols \in Seq(Column) /\ r.rows \in Seq(Seq(RowValues))
         /\ \A i \in 1 .. Len(r.rows) : IsRow(r.cols, r.rows[i])
<1>1. r \in [cols : Seq(Column), rows : Seq(Seq(RowValues))]
  BY RecordsetAssumption DEF RecordsetAssumption
<1>2. r.cols \in Seq(Column) /\ r.rows \in Seq(Seq(RowValues))
  BY <1>1
<1>3. DOMAIN r.cols = 1 .. Len(r.cols) /\ DOMAIN r.rows = 1 .. Len(r.rows)
  BY <1>2, LenProperties
<1>4. ASSUME NEW i \in 1 .. Len(r.rows) PROVE IsRow(r.cols, r.rows[i])
  <2>1. r.rows[i] \in Seq(RowValues)
    BY <1>2
  <2>2. /\ Len(r.rows[i]) = Len(r.cols)
        /\ \A c \in DOMAIN r.cols : r.rows[i][c] = NullValue => r.cols[c].nullable
    BY <1>3, RecordsetAssumption DEF RecordsetAssumption
  <2> QED BY <1>3, <2>1, <2>2 DEF IsRow
<1> QED BY <1>2, <1>4

LEMMA ItemFields ==
  ASSUME NEW k, NEW v
  PROVE  Item(k, v).kind = k /\ Item(k, v).value = v
BY DEF Item

LEMMA ContentParts ==
  /\ \A v \in Nat : v \in Content
  /\ \A v \in Column : v \in Content
  /\ \A v \in [0 .. BITS - 1 -> 0 .. 1] : v \in Content
  /\ \A v \in RowValues : v \in Content
BY Zenon DEF Content

LEMMA ItemIsAny ==
  ASSUME NEW k \in Kinds, NEW v \in Content
  PROVE  Item(k, v) \in AnyItem
BY DEF Item, AnyItem

(* The number of columns before one that may be null.                      *)
LEMMA NullableCounts ==
  ASSUME NEW cols, NEW c \in Nat
  PROVE  /\ IsFiniteSet({d \in 1 .. c - 1 : cols[d].nullable})
         /\ NullableBefore(cols, c) \in Nat
<1>1. IsFiniteSet(1 .. c - 1)
  BY FS_Interval
<1>2. {d \in 1 .. c - 1 : cols[d].nullable} \subseteq 1 .. c - 1
  OBVIOUS
<1>3. IsFiniteSet({d \in 1 .. c - 1 : cols[d].nullable})
  BY <1>1, <1>2, FS_Subset
<1> QED BY <1>3, FS_CardinalityType DEF NullableBefore

LEMMA NullableNext ==
  ASSUME NEW cols, NEW c \in Nat, c >= 1
  PROVE  NullableBefore(cols, c + 1) =
           IF cols[c].nullable THEN NullableBefore(cols, c) + 1 ELSE NullableBefore(cols, c)
<1> DEFINE Earlier(n) == {d \in 1 .. n - 1 : cols[d].nullable}
<1>1. IsFiniteSet(Earlier(c))
  BY NullableCounts
<1>2. \A d : d \in 1 .. (c + 1) - 1 <=> d \in 1 .. c - 1 \/ d = c
  OBVIOUS
<1>3. c \notin 1 .. c - 1
  OBVIOUS
<1>4. CASE cols[c].nullable
  <2>1. Earlier(c + 1) = Earlier(c) \cup {c}
    BY <1>2, <1>4
  <2>2. c \notin Earlier(c)
    BY <1>3
  <2>3. Cardinality(Earlier(c) \cup {c}) = Cardinality(Earlier(c)) + 1
    BY <1>1, <2>2, FS_AddElement
  <2> QED BY <1>4, <2>1, <2>3 DEF NullableBefore
<1>5. CASE ~ cols[c].nullable
  <2>1. Earlier(c + 1) = Earlier(c)
    BY <1>2, <1>5
  <2> QED BY <1>5, <2>1 DEF NullableBefore
<1> QED BY <1>4, <1>5

LEMMA NullableGrows ==
  ASSUME NEW cols, NEW c \in Nat, NEW d \in Nat, c >= 1, c < d, cols[c].nullable
  PROVE  NullableBefore(cols, c) < NullableBefore(cols, d)
<1> DEFINE Earlier(n) == {e \in 1 .. n - 1 : cols[e].nullable}
<1>1. NullableBefore(cols, c + 1) = NullableBefore(cols, c) + 1
  BY NullableNext
<1>2. 1 .. (c + 1) - 1 \subseteq 1 .. d - 1
  OBVIOUS
<1>3. Earlier(c + 1) \subseteq Earlier(d)
  BY <1>2
<1>4. IsFiniteSet(Earlier(d))
  BY NullableCounts
<1>5. Cardinality(Earlier(c + 1)) <= Cardinality(Earlier(d))
  BY <1>3, <1>4, FS_Subset
<1>6. NullableBefore(cols, c + 1) <= NullableBefore(cols, d)
  BY <1>5 DEF NullableBefore
<1>7. NullableBefore(cols, c) \in Nat /\ NullableBefore(cols, d) \in Nat
  BY NullableCounts
<1> QED BY <1>1, <1>6, <1>7

LEMMA Division ==
  ASSUME NEW a \in Nat, NEW b \in Nat \ {0}
  PROVE  a \div b \in Nat /\ a % b \in 0 .. b - 1 /\ a = (a \div b) * b + (a % b)
OBVIOUS

LEMMA DivisionGrows ==
  ASSUME NEW a \in Nat, NEW n \in Nat, NEW b \in Nat \ {0}, a < n
  PROVE  (a \div b) < ((n + b - 1) \div b) /\ (n + b - 1) \div b \in Nat
OBVIOUS

LEMMA NullsSizeIsNumber ==
  ASSUME NEW cols \in Seq(Column)
  PROVE  NullsSize(cols) \in Nat
<1>1. Len(cols) + 1 \in Nat
  OBVIOUS
<1>2. PICK n \in Nat : n = NullableBefore(cols, Len(cols) + 1)
  BY <1>1, NullableCounts
<1>3. PICK a \in Nat : a = n + BITS - 1
  BY <1>2, RecordsetAssumption DEF RecordsetAssumption
<1>4. a \div BITS \in Nat
  BY Division, RecordsetAssumption DEF RecordsetAssumption
<1> QED BY <1>2, <1>3, <1>4 DEF NullsSize

(* The bits of the mask as it arrives.                                     *)
MaskBits(cols, values) ==
  [b \in 1 .. NullsSize(cols) |-> [k \in 0 .. BITS - 1 |->
     IF IsNull(cols, values, (b - 1) * BITS + k) THEN NullBit ELSE 1 - NullBit]]

LEMMA MaskItems ==
  ASSUME NEW cols \in Seq(Column), NEW values
  PROVE  /\ MaskOf(cols, values) \in Seq(AnyItem)
         /\ Len(MaskOf(cols, values)) = NullsSize(cols)
         /\ \A b \in 1 .. NullsSize(cols) :
              MaskOf(cols, values)[b] = Item("mask", MaskBits(cols, values)[b])
<1>1. PICK n \in Nat : n = NullsSize(cols)
  BY NullsSizeIsNumber
<1>2. PICK bits : bits = MaskBits(cols, values)
  OBVIOUS
<1>3. MaskOf(cols, values) = [b \in 1 .. n |-> Item("mask", bits[b])]
  BY <1>1, <1>2 DEF MaskOf, MaskBits
<1>4. \A b \in 1 .. n : bits[b] \in [0 .. BITS - 1 -> 0 .. 1]
  <2>1. NullBit \in 0 .. 1 /\ 1 - NullBit \in 0 .. 1
    BY RecordsetAssumption DEF RecordsetAssumption
  <2> TAKE b \in 1 .. n
  <2>2. bits[b] = [k \in 0 .. BITS - 1 |->
                    IF IsNull(cols, values, (b - 1) * BITS + k) THEN NullBit ELSE 1 - NullBit]
    BY <1>1, <1>2 DEF MaskBits
  <2> QED BY <2>1, <2>2
<1>5. \A b \in 1 .. n : Item("mask", bits[b]) \in AnyItem
  <2> TAKE b \in 1 .. n
  <2>1. bits[b] \in Content
    BY <1>4, ContentParts, Zenon
  <2>2. "mask" \in Kinds
    BY DEF Kinds
  <2> QED BY <2>1, <2>2, ItemIsAny, Zenon
<1>6. PICK m : m = MaskOf(cols, values)
  OBVIOUS
<1>7. m \in [1 .. n -> AnyItem] /\ \A b \in 1 .. n : m[b] = Item("mask", bits[b])
  BY <1>3, <1>5, <1>6
<1>8. m \in Seq(AnyItem) /\ Len(m) = n
  BY <1>7
<1> QED BY <1>1, <1>2, <1>6, <1>7, <1>8

(* The bit of a column tells whether its value is null.                    *)
LEMMA MaskTells ==
  ASSUME NEW cols \in Seq(Column), NEW values, NEW c \in 1 .. Len(cols),
         cols[c].nullable, NullBit = 1, NEW bit, bit = NullableBefore(cols, c)
  PROVE  /\ bit \in Nat /\ bit \div BITS \in Nat /\ bit \div BITS < NullsSize(cols)
         /\ MaskBits(cols, values)[bit \div BITS + 1][bit % BITS] =
              IF values[c] = NullValue THEN 1 ELSE 0
<1>1. Len(cols) \in Nat /\ Len(cols) + 1 \in Nat /\ c \in Nat /\ c >= 1
  OBVIOUS
<1>2. bit \in Nat /\ BITS \in Nat \ {0}
  BY <1>1, NullableCounts, RecordsetAssumption DEF RecordsetAssumption
<1>3. PICK n \in Nat : n = NullableBefore(cols, Len(cols) + 1)
  BY <1>1, NullableCounts
<1>4. bit < n
  BY <1>1, <1>3, NullableGrows
<1>5. bit \div BITS < NullsSize(cols) /\ NullsSize(cols) \in Nat
  BY <1>2, <1>3, <1>4, DivisionGrows DEF NullsSize
<1>6. PICK b, k : b = bit \div BITS + 1 /\ k = bit % BITS
  OBVIOUS
<1>7. /\ b \in 1 .. NullsSize(cols) /\ k \in 0 .. BITS - 1 /\ (b - 1) * BITS + k = bit
      /\ bit \div BITS \in Nat
  <2>1. /\ bit \div BITS \in Nat /\ bit % BITS \in 0 .. BITS - 1
        /\ bit = (bit \div BITS) * BITS + (bit % BITS)
    BY <1>2, Division
  <2>2. b - 1 = bit \div BITS
    BY <1>6, <2>1
  <2> QED BY <1>5, <1>6, <2>1, <2>2
<1>8. MaskBits(cols, values)[b][k] = IF IsNull(cols, values, bit) THEN NullBit ELSE 1 - NullBit
  BY <1>7 DEF MaskBits
<1>9. IsNull(cols, values, bit) <=> values[c] = NullValue
  <2>1. ASSUME NEW d \in DOMAIN cols, cols[d].nullable, NullableBefore(cols, d) = bit PROVE d = c
    <3>1. d \in Nat /\ d >= 1
      BY <2>1, LenProperties
    <3>2. NullableBefore(cols, d) \in Nat /\ NullableBefore(cols, c) \in Nat
      BY <1>1, <3>1, NullableCounts
    <3>3. ~ (c < d)
      BY <1>1, <2>1, <3>1, <3>2, NullableGrows
    <3>4. ~ (d < c)
      BY <1>1, <2>1, <3>1, <3>2, NullableGrows
    <3>5. c \in Int /\ d \in Int
      BY <1>1, <3>1
    <3> QED BY <3>3, <3>4, <3>5
  <2>2. c \in DOMAIN cols
    BY LenProperties
  <2> QED BY <2>1, <2>2 DEF IsNull
<1>10. MaskBits(cols, values)[b][k] = IF values[c] = NullValue THEN 1 ELSE 0
  <2>1. 1 - NullBit = 0
    OBVIOUS
  <2> QED BY <1>8, <1>9, <2>1
<1>11. MaskBits(cols, values)[bit \div BITS + 1][bit % BITS] = MaskBits(cols, values)[b][k]
  BY <1>6
<1> QED BY <1>2, <1>5, <1>7, <1>10, <1>11

(* The values of a row, each a part of its own, which is empty for a null. *)
LEMMA ValueParts ==
  ASSUME NEW values \in Seq(RowValues)
  PROVE  /\ ValueItems(values) \in Seq(Seq(AnyItem))
         /\ Len(ValueItems(values)) = Len(values)
         /\ \A c \in 1 .. Len(values) :
              ValueItems(values)[c] =
                IF values[c] = NullValue THEN <<>> ELSE <<Item("value", values[c])>>
<1>1. PICK n \in Nat : n = Len(values)
  OBVIOUS
<1>2. DOMAIN values = 1 .. n /\ \A c \in 1 .. n : values[c] \in RowValues
  BY <1>1, LenProperties, ElementOfSeq
<1>3. \A c \in 1 .. n : (IF values[c] = NullValue THEN <<>> ELSE <<Item("value", values[c])>>) \in Seq(AnyItem)
  <2> TAKE c \in 1 .. n
  <2>1. "value" \in Kinds
    BY DEF Kinds
  <2>2. values[c] \in Content
    BY <1>2, ContentParts, Zenon
  <2>3. PICK e : e = Item("value", values[c])
    OBVIOUS
  <2>4. e \in AnyItem
    BY <2>1, <2>2, <2>3, ItemIsAny, Zenon
  <2>5. <<e>> \in Seq(AnyItem) /\ <<>> \in Seq(AnyItem)
    BY <2>4
  <2> QED BY <2>3, <2>5, Zenon
<1>4. PICK p : p = ValueItems(values)
  OBVIOUS
<1>5. p = [c \in 1 .. n |-> IF values[c] = NullValue THEN <<>> ELSE <<Item("value", values[c])>>]
  BY <1>2, <1>4 DEF ValueItems
<1>6. \A c \in 1 .. n : p[c] = IF values[c] = NullValue THEN <<>> ELSE <<Item("value", values[c])>>
  BY <1>5, Zenon
<1>7. p \in [1 .. n -> Seq(AnyItem)]
  BY <1>3, <1>5, Zenon
<1>8. p \in Seq(Seq(AnyItem)) /\ Len(p) = n
  BY <1>7
<1> QED BY <1>1, <1>4, <1>6, <1>8

LEMMA ValuesAreItems ==
  ASSUME NEW values \in Seq(RowValues), NEW j \in 0 .. Len(values)
  PROVE  ValuesBehind(values, j) \in Seq(AnyItem)
BY ValueParts, BehindIsSequence DEF ValuesBehind

LEMMA NoMoreValues ==
  ASSUME NEW values \in Seq(RowValues)
  PROVE  ValuesBehind(values, Len(values)) = <<>>
<1>1. PICK p : p = ValueItems(values)
  OBVIOUS
<1>2. p \in Seq(Seq(AnyItem)) /\ Len(p) = Len(values)
  BY <1>1, ValueParts
<1>3. JoinedBehind(p, Len(p)) = <<>>
  BY <1>2, BehindLast
<1> QED BY <1>1, <1>2, <1>3 DEF ValuesBehind

LEMMA NextValue ==
  ASSUME NEW values \in Seq(RowValues), NEW j \in Nat, j < Len(values)
  PROVE  /\ values[j + 1] = NullValue => ValuesBehind(values, j) = ValuesBehind(values, j + 1)
         /\ values[j + 1] # NullValue =>
              ValuesBehind(values, j) = <<Item("value", values[j + 1])>> \o ValuesBehind(values, j + 1)
<1>1. PICK p : p = ValueItems(values)
  OBVIOUS
<1>2. p \in Seq(Seq(AnyItem)) /\ Len(p) = Len(values) /\ Len(values) \in Nat
  BY <1>1, ValueParts
<1>3. JoinedBehind(p, j) = p[j + 1] \o JoinedBehind(p, j + 1)
  BY <1>2, BehindNext
<1>4. j + 1 \in 1 .. Len(values) /\ j + 1 \in 0 .. Len(values)
  BY <1>2
<1>5. p[j + 1] = IF values[j + 1] = NullValue THEN <<>> ELSE <<Item("value", values[j + 1])>>
  BY <1>1, <1>4, ValueParts
<1>6. JoinedBehind(p, j + 1) \in Seq(AnyItem)
  BY <1>2, <1>4, BehindIsSequence
<1>7. values[j + 1] = NullValue => JoinedBehind(p, j) = JoinedBehind(p, j + 1)
  BY <1>3, <1>5, <1>6, ConcatEmptySeq
<1>8. values[j + 1] # NullValue =>
        JoinedBehind(p, j) = <<Item("value", values[j + 1])>> \o JoinedBehind(p, j + 1)
  BY <1>3, <1>5
<1> QED BY <1>1, <1>7, <1>8 DEF ValuesBehind

LEMMA AllBehind ==
  ASSUME NEW X, NEW s \in Seq(X)
  PROVE  JoinedBehind(s, 0) = FlattenSeq(s)
<1>1. SubSeq(s, 1, Len(s)) = s
  BY SubSeqFull
<1>2. 0 + 1 = 1
  OBVIOUS
<1> QED BY <1>1, <1>2 DEF JoinedBehind

LEMMA RowHeads ==
  ASSUME NEW cols \in Seq(Column), NEW values, NEW h, h = RowHead(cols, values)
  PROVE  /\ h \in Seq(AnyItem) /\ Len(h) = 1 + NullsSize(cols) /\ NullsSize(cols) \in Nat
         /\ h[1] = Item("row", 0)
         /\ \A b \in 1 .. NullsSize(cols) : h[b + 1] = Item("mask", MaskBits(cols, values)[b])
<1>1. PICK m, n, e : m = MaskOf(cols, values) /\ n = NullsSize(cols) /\ e = Item("row", 0)
  OBVIOUS
<1>2. /\ m \in Seq(AnyItem) /\ Len(m) = n /\ n \in Nat
      /\ \A b \in 1 .. n : m[b] = Item("mask", MaskBits(cols, values)[b])
  BY <1>1, MaskItems, NullsSizeIsNumber
<1>3. e \in AnyItem
  <2>1. "row" \in Kinds /\ 0 \in Nat
    BY DEF Kinds
  <2>2. 0 \in Content
    BY <2>1, ContentParts, Zenon
  <2> QED BY <1>1, <2>1, <2>2, ItemIsAny, Zenon
<1>4. <<e>> \in Seq(AnyItem) /\ Len(<<e>>) = 1 /\ <<e>>[1] = e
  BY <1>3
<1>5. h = <<e>> \o m
  BY <1>1 DEF RowHead
<1>6. /\ h \in Seq(AnyItem) /\ Len(h) = 1 + n
      /\ \A i \in 1 .. 1 + n : h[i] = IF i <= 1 THEN <<e>>[i] ELSE m[i - 1]
  BY <1>2, <1>4, <1>5, ConcatProperties
<1>7. h[1] = e
  BY <1>2, <1>4, <1>6
<1>8. \A b \in 1 .. n : h[b + 1] = m[b]
  BY <1>2, <1>6
<1> QED BY <1>1, <1>2, <1>6, <1>7, <1>8

LEMMA TheEndIsItems ==
  /\ TheEnd \in Seq(AnyItem) /\ Len(TheEnd) = 1 /\ TheEnd[1] = Item("end", 0)
<1>1. PICK e : e = Item("end", 0)
  OBVIOUS
<1>2. e \in AnyItem
  <2>1. "end" \in Kinds /\ 0 \in Nat
    BY DEF Kinds
  <2>2. 0 \in Content
    BY <2>1, ContentParts, Zenon
  <2> QED BY <1>1, <2>1, <2>2, ItemIsAny, Zenon
<1> QED BY <1>1, <1>2 DEF TheEnd

LEMMA RowParts ==
  ASSUME NEW cols \in Seq(Column), NEW values \in Seq(RowValues)
  PROVE  /\ RowItems(cols, values) \in Seq(AnyItem)
         /\ RowItems(cols, values) = RowHead(cols, values) \o ValuesBehind(values, 0)
<1>1. JoinedBehind(ValueItems(values), 0) = FlattenSeq(ValueItems(values))
  BY ValueParts, AllBehind
<1>2. RowItems(cols, values) = RowHead(cols, values) \o ValuesBehind(values, 0)
  BY <1>1 DEF RowItems, RowHead, ValuesBehind
<1>3. RowHead(cols, values) \in Seq(AnyItem)
  BY RowHeads
<1>4. 0 \in 0 .. Len(values)
  OBVIOUS
<1>5. ValuesBehind(values, 0) \in Seq(AnyItem)
  BY <1>4, ValuesAreItems
<1> QED BY <1>2, <1>3, <1>5, ConcatProperties

LEMMA RowsAreItems ==
  ASSUME NEW r \in Recordsets
  PROVE  /\ RowsOfItems(r) \in Seq(Seq(AnyItem))
         /\ Len(RowsOfItems(r)) = Len(r.rows) /\ Len(r.rows) \in Nat
         /\ \A i \in 1 .. Len(r.rows) : RowsOfItems(r)[i] = RowItems(r.cols, r.rows[i])
<1>1. r.cols \in Seq(Column) /\ r.rows \in Seq(Seq(RowValues))
  BY RecordsetFacts
<1>2. PICK n \in Nat : n = Len(r.rows) /\ DOMAIN r.rows = 1 .. n
  BY <1>1, LenProperties
<1>3. \A i \in 1 .. n : RowItems(r.cols, r.rows[i]) \in Seq(AnyItem)
  BY <1>1, <1>2, RowParts, SMTT(60)
<1>4. PICK p : p = RowsOfItems(r)
  OBVIOUS
<1>5. p = [i \in 1 .. n |-> RowItems(r.cols, r.rows[i])]
  BY <1>2, <1>4 DEF RowsOfItems
<1>6. p \in [1 .. n -> Seq(AnyItem)] /\ \A i \in 1 .. n : p[i] = RowItems(r.cols, r.rows[i])
  BY <1>3, <1>5, Zenon
<1>7. p \in Seq(Seq(AnyItem)) /\ Len(p) = n
  BY <1>6
<1> QED BY <1>2, <1>4, <1>6, <1>7

LEMMA RowsBehindAreItems ==
  ASSUME NEW r \in Recordsets, NEW i \in 0 .. Len(r.rows)
  PROVE  RowsBehind(r, i) \in Seq(AnyItem)
<1>1. JoinedBehind(RowsOfItems(r), i) \in Seq(AnyItem)
  BY RowsAreItems, BehindIsSequence
<1> QED BY <1>1, TheEndIsItems, ConcatProperties DEF RowsBehind

LEMMA NoMoreRows ==
  ASSUME NEW r \in Recordsets
  PROVE  RowsBehind(r, Len(r.rows)) = TheEnd
<1>1. PICK p : p = RowsOfItems(r)
  OBVIOUS
<1>2. p \in Seq(Seq(AnyItem)) /\ Len(p) = Len(r.rows)
  BY <1>1, RowsAreItems
<1>3. JoinedBehind(p, Len(p)) = <<>>
  BY <1>2, BehindLast
<1>4. <<>> \o TheEnd = TheEnd
  BY TheEndIsItems, ConcatEmptySeq
<1> QED BY <1>1, <1>2, <1>3, <1>4 DEF RowsBehind

Regrouped(h, v, j, e) == ((h \o v) \o j) \o e = h \o (v \o (j \o e))
LEMMA FourParts ==
  ASSUME NEW X, NEW h \in Seq(X), NEW v \in Seq(X), NEW j \in Seq(X), NEW e \in Seq(X)
  PROVE  Regrouped(h, v, j, e)
<1> SUFFICES ((h \o v) \o j) \o e = h \o (v \o (j \o e))
  BY DEF Regrouped
<1>1. h \o v \in Seq(X) /\ j \o e \in Seq(X)
  BY ConcatProperties
<1>2. ((h \o v) \o j) \o e = (h \o v) \o (j \o e)
  BY <1>1, ConcatAssociative, SMTT(60)
<1>3. (h \o v) \o (j \o e) = h \o (v \o (j \o e))
  BY <1>1, ConcatAssociative, SMTT(60)
<1> QED BY <1>2, <1>3

LEMMA NextRow ==
  ASSUME NEW r \in Recordsets, NEW i \in Nat, i < Len(r.rows)
  PROVE  RowsBehind(r, i) = RowHead(r.cols, r.rows[i + 1])
                            \o (ValuesBehind(r.rows[i + 1], 0) \o RowsBehind(r, i + 1))
<1>1. PICK p, values : p = RowsOfItems(r) /\ values = r.rows[i + 1]
  OBVIOUS
<1>2. p \in Seq(Seq(AnyItem)) /\ Len(p) = Len(r.rows) /\ Len(r.rows) \in Nat
  BY <1>1, RowsAreItems
<1>3. i + 1 \in 1 .. Len(r.rows) /\ i + 1 \in 0 .. Len(p)
  BY <1>2
<1>4. JoinedBehind(p, i) = p[i + 1] \o JoinedBehind(p, i + 1)
  BY <1>2, BehindNext
<1>5. p[i + 1] = RowItems(r.cols, values)
  BY <1>1, <1>3, RowsAreItems
<1>6. r.cols \in Seq(Column) /\ values \in Seq(RowValues)
  BY <1>1, <1>3, RecordsetFacts
<1>7. PICK h, v, j : /\ h = RowHead(r.cols, values) /\ v = ValuesBehind(values, 0)
                     /\ j = JoinedBehind(p, i + 1)
  OBVIOUS
<1>8. p[i + 1] = h \o v
  BY <1>5, <1>6, <1>7, RowParts
<1>9. h \in Seq(AnyItem) /\ v \in Seq(AnyItem) /\ j \in Seq(AnyItem) /\ TheEnd \in Seq(AnyItem)
  <2>1. 0 \in 0 .. Len(values)
    BY <1>6
  <2>2. h \in Seq(AnyItem)
    BY <1>6, <1>7, RowHeads
  <2>3. v \in Seq(AnyItem)
    BY <1>6, <1>7, <2>1, ValuesAreItems
  <2>4. j \in Seq(AnyItem)
    BY <1>2, <1>3, <1>7, BehindIsSequence
  <2> QED BY <2>2, <2>3, <2>4, TheEndIsItems
<1>10. Regrouped(h, v, j, TheEnd)
  BY <1>9, FourParts
<1>11. RowsBehind(r, i) = ((h \o v) \o j) \o TheEnd /\ RowsBehind(r, i + 1) = j \o TheEnd
  BY <1>1, <1>4, <1>7, <1>8 DEF RowsBehind
<1> QED BY <1>1, <1>7, <1>10, <1>11 DEF Regrouped

LEMMA RestOfRow ==
  ASSUME NEW r \in Recordsets, NEW i \in 0 .. Len(r.rows),
         NEW values \in Seq(RowValues), NEW j \in 0 .. Len(values)
  PROVE  ValuesBehind(values, j) \o RowsBehind(r, i) \in Seq(AnyItem)
BY ValuesAreItems, RowsBehindAreItems, ConcatProperties

(* The description of the columns.                                         *)
ColumnItems(cols) == <<Item("col_num", Len(cols))>> \o [c \in DOMAIN cols |-> Item("col", cols[c])]

LEMMA ColumnItemsAre ==
  ASSUME NEW cols \in Seq(Column), NEW h, h = ColumnItems(cols)
  PROVE  /\ h \in Seq(AnyItem) /\ Len(h) = 1 + Len(cols)
         /\ h[1] = Item("col_num", Len(cols))
         /\ \A c \in 1 .. Len(cols) : h[c + 1] = Item("col", cols[c])
<1>0. PICK n \in Nat : n = Len(cols) /\ DOMAIN cols = 1 .. n
  BY LenProperties
<1>1. PICK e : n = Len(cols) /\ DOMAIN cols = 1 .. n /\ e = Item("col_num", n)
  BY <1>0
<1>2. e \in AnyItem
  <2>1. "col_num" \in Kinds
    BY DEF Kinds
  <2>2. n \in Content
    BY ContentParts, Zenon
  <2> QED BY <1>1, <2>1, <2>2, ItemIsAny, Zenon
<1>3. \A c \in 1 .. n : Item("col", cols[c]) \in AnyItem
  <2> TAKE c \in 1 .. n
  <2>1. "col" \in Kinds
    BY DEF Kinds
  <2>2. cols[c] \in Column
    BY <1>1
  <2>3. cols[c] \in Content
    BY <2>2, ContentParts, Zenon
  <2> QED BY <2>1, <2>3, ItemIsAny, Zenon
<1>4. PICK d : d = [c \in DOMAIN cols |-> Item("col", cols[c])]
  OBVIOUS
<1>5. d = [c \in 1 .. n |-> Item("col", cols[c])]
  BY <1>1, <1>4
<1>6. d \in [1 .. n -> AnyItem] /\ \A c \in 1 .. n : d[c] = Item("col", cols[c])
  BY <1>3, <1>5, Zenon
<1>7. d \in Seq(AnyItem) /\ Len(d) = n
  BY <1>6
<1>8. <<e>> \in Seq(AnyItem) /\ Len(<<e>>) = 1 /\ <<e>>[1] = e
  BY <1>2
<1>9. h = <<e>> \o d
  BY <1>1, <1>4 DEF ColumnItems
<1>10. /\ h \in Seq(AnyItem) /\ Len(h) = 1 + n
       /\ \A i \in 1 .. 1 + n : h[i] = IF i <= 1 THEN <<e>>[i] ELSE d[i - 1]
  BY <1>7, <1>8, <1>9, ConcatProperties
<1>11. h[1] = e
  BY <1>8, <1>10
<1>12. \A c \in 1 .. n : h[c + 1] = d[c]
  BY <1>10
<1> QED BY <1>1, <1>6, <1>10, <1>11, <1>12

LEMMA RecordsetParts ==
  ASSUME NEW r \in Recordsets
  PROVE  RecordsetItems(r) = ColumnItems(r.cols) \o RowsBehind(r, 0)
<1>1. PICK p, h, j : p = RowsOfItems(r) /\ h = ColumnItems(r.cols) /\ j = JoinedBehind(p, 0)
  OBVIOUS
<1>2. p \in Seq(Seq(AnyItem)) /\ 0 \in 0 .. Len(p)
  BY <1>1, RowsAreItems
<1>3. j = FlattenSeq(p) /\ j \in Seq(AnyItem)
  BY <1>1, <1>2, AllBehind, BehindIsSequence
<1>4. h \in Seq(AnyItem)
  BY <1>1, RecordsetFacts, ColumnItemsAre
<1>5. RecordsetItems(r) = (h \o j) \o TheEnd
  BY <1>1, <1>3 DEF RecordsetItems, ColumnItems, RowsOfItems, TheEnd
<1>6. (h \o j) \o TheEnd = h \o (j \o TheEnd)
  BY <1>3, <1>4, TheEndIsItems, ConcatAssociative, SMTT(60)
<1> QED BY <1>1, <1>5, <1>6, SMTT(60) DEF RowsBehind

LEMMA RecordsetIsItems ==
  ASSUME NEW r \in Recordsets
  PROVE  RecordsetItems(r) \in Seq(AnyItem)
<1>1. 0 \in 0 .. Len(r.rows)
  BY RowsAreItems
<1>2. ColumnItems(r.cols) \in Seq(AnyItem)
  BY RecordsetFacts, ColumnItemsAre
<1>3. RowsBehind(r, 0) \in Seq(AnyItem)
  BY <1>1, RowsBehindAreItems
<1> QED BY <1>2, <1>3, RecordsetParts, ConcatProperties

----------------------------------------------------------------------------
(* The stream, which may be cut off anywhere, begins as what was sent.     *)

Starts(s, whole) == Len(s) <= Len(whole) /\ \A i \in 1 .. Len(s) : s[i] = whole[i]

LEMMA NothingStarts ==
  ASSUME NEW whole \in Seq(AnyItem)
  PROVE  Starts(<<>>, whole)
BY DEF Starts

LEMMA PartStarts ==
  ASSUME NEW whole \in Seq(AnyItem), NEW n \in 0 .. Len(whole), NEW s, s = SubSeq(whole, 1, n)
  PROVE  s \in Seq(AnyItem) /\ Starts(s, whole)
BY DEF Starts

Agree(s, h, n) == \A i \in 1 .. n : s[i] = h[i]

LEMMA HeadTaken ==
  ASSUME NEW s \in Seq(AnyItem), NEW h \in Seq(AnyItem), NEW rest \in Seq(AnyItem),
         Starts(s, h \o rest), NEW n, n = Len(h), n <= Len(s), NEW t, t = SubSeq(s, n + 1, Len(s))
  PROVE  /\ t \in Seq(AnyItem) /\ Starts(t, rest)
         /\ Agree(s, h, n)
<1>1. n \in Nat /\ Len(s) \in Nat /\ Len(rest) \in Nat /\ n \in 0 .. Len(s)
  OBVIOUS
<1>2. PICK w : w = h \o rest
  OBVIOUS
<1>3. /\ w \in Seq(AnyItem) /\ Len(w) = n + Len(rest)
      /\ \A i \in 1 .. n + Len(rest) : w[i] = IF i <= n THEN h[i] ELSE rest[i - n]
  BY <1>2, ConcatProperties
<1>4. Len(s) <= Len(w) /\ \A i \in 1 .. Len(s) : s[i] = w[i]
  BY <1>2 DEF Starts
<1>5. \A i \in 1 .. n : s[i] = h[i]
  <2> TAKE i \in 1 .. n
  <2>1. i \in 1 .. Len(s) /\ i \in 1 .. n + Len(rest) /\ i <= n
    BY <1>1
  <2>2. s[i] = w[i] /\ w[i] = h[i]
    BY <1>3, <1>4, <2>1
  <2> QED BY <2>2
<1>6. /\ t \in Seq(AnyItem) /\ Len(t) = Len(s) - n
      /\ \A i \in 1 .. Len(s) - n : t[i] = s[n + i]
  BY <1>1, PartsBehind
<1>7. \A i \in 1 .. Len(t) : t[i] = rest[i]
  <2> TAKE i \in 1 .. Len(t)
  <2>1. n + i \in 1 .. Len(s) /\ n + i \in 1 .. n + Len(rest) /\ ~ (n + i <= n) /\ (n + i) - n = i
    BY <1>1, <1>3, <1>4, <1>6
  <2>2. t[i] = s[n + i] /\ s[n + i] = w[n + i]
    BY <1>1, <1>4, <1>6, <2>1
  <2>3. w[n + i] = rest[(n + i) - n]
    BY <1>3, <2>1
  <2> QED BY <2>1, <2>2, <2>3
<1>8. Len(t) <= Len(rest)
  BY <1>1, <1>3, <1>4, <1>6
<1> QED BY <1>5, <1>6, <1>7, <1>8 DEF Starts, Agree

(* What is asked for comes, or the stream ends within it.                  *)
IsKinds(kinds, h) ==
  /\ DOMAIN kinds = 1 .. Len(h) /\ Len(kinds) = Len(h)
  /\ \A i \in 1 .. Len(h) : h[i].kind = kinds[i]

LEMMA HeadComes ==
  ASSUME items \in Seq(AnyItem), NEW h \in Seq(AnyItem), NEW rest \in Seq(AnyItem),
         Starts(items, h \o rest), NEW kinds, IsKinds(kinds, h)
  PROVE  Reads(kinds) \/ Cut(kinds)
<1>1. PICK w, n : w = h \o rest /\ n = Len(h)
  OBVIOUS
<1>2. /\ n \in Nat /\ Len(items) \in Nat /\ Len(rest) \in Nat /\ DOMAIN items = 1 .. Len(items)
      /\ \A i \in 1 .. n + Len(rest) : w[i] = IF i <= n THEN h[i] ELSE rest[i - n]
      /\ Len(w) = n + Len(rest)
  BY <1>1, ConcatProperties, LenProperties
<1>3. Len(items) <= Len(w) /\ \A i \in 1 .. Len(items) : items[i] = w[i]
  BY <1>1 DEF Starts
<1>4. \A i \in 1 .. n : i <= Len(items) => items[i].kind = kinds[i]
  <2> SUFFICES ASSUME NEW i \in 1 .. n, i <= Len(items) PROVE items[i].kind = kinds[i]
    OBVIOUS
  <2>1. i \in 1 .. Len(items) /\ i \in 1 .. n + Len(rest) /\ i <= n
    BY <1>2
  <2>2. items[i] = h[i]
    BY <1>2, <1>3, <2>1
  <2>3. h[i].kind = kinds[i]
    BY <1>1 DEF IsKinds
  <2> QED BY <2>2, <2>3
<1>5. DOMAIN kinds = 1 .. n /\ Len(kinds) = n
  BY <1>1 DEF IsKinds
<1>6. CASE Len(items) >= n
  <2>1. \A i \in 1 .. n : items[i].kind = kinds[i]
    BY <1>2, <1>4, <1>6
  <2> QED BY <1>5, <1>6, <2>1 DEF Reads
<1>7. CASE Len(items) < n
  <2>1. \A i \in 1 .. Len(items) : items[i].kind = kinds[i]
    BY <1>2, <1>4, <1>7
  <2> QED BY <1>2, <1>5, <1>7, <2>1 DEF Cut
<1> QED BY <1>2, <1>6, <1>7

LEMMA NotAstray ==
  ASSUME items \in Seq(AnyItem), NEW h \in Seq(AnyItem), NEW rest \in Seq(AnyItem),
         Starts(items, h \o rest), NEW kinds, IsKinds(kinds, h)
  PROVE  ~ Astray(kinds)
BY HeadComes DEF Astray

(* The first item is the first of what was sent.                           *)
LEMMA FirstRead ==
  ASSUME items \in Seq(AnyItem), NEW h \in Seq(AnyItem), NEW rest \in Seq(AnyItem),
         Starts(items, h \o rest), Len(h) >= 1, items # <<>>
  PROVE  items[1] = h[1]
<1>1. /\ Len(h \o rest) = Len(h) + Len(rest)
      /\ \A i \in 1 .. Len(h) + Len(rest) : (h \o rest)[i] = IF i <= Len(h) THEN h[i] ELSE rest[i - Len(h)]
  BY ConcatProperties
<1>2. Len(h) \in Nat /\ Len(rest) \in Nat /\ Len(items) \in Nat \ {0}
  BY EmptySeq
<1>3. 1 \in 1 .. Len(items) /\ 1 \in 1 .. Len(h) + Len(rest) /\ 1 <= Len(h)
  BY <1>2
<1>4. items[1] = (h \o rest)[1]
  BY <1>3 DEF Starts
<1> QED BY <1>1, <1>3, <1>4

(* Without an item a call does not go astray.                              *)
LEMMA NothingIsCut ==
  ASSUME items = <<>>, NEW kinds, Len(kinds) \in Nat, Len(kinds) >= 1
  PROVE  ~ Reads(kinds) /\ ~ Astray(kinds)
<1>1. Len(items) = 0 /\ DOMAIN items = {}
  OBVIOUS
<1> QED BY <1>1 DEF Reads, Cut, Astray

----------------------------------------------------------------------------
(* The inductive invariant: where in what was sent the reader is.          *)

Fits(r) ==
  /\ NullBit = 1
  /\ Len(r.cols) <= MAX_COLUMNS
  /\ \A c \in DOMAIN r.cols : r.cols[c].type # "fixed"

(* Behind the first j values of row i: the place in the mask, the mask     *)
(* itself, and the stream.                                                 *)
InRow(r, i, j, bit, nulls, stream) ==
  /\ i \in 1 .. Len(r.rows) /\ j \in 0 .. Len(r.cols)
  /\ bit = NullableBefore(r.cols, j + 1)
  /\ nulls = MaskBits(r.cols, r.rows[i])
  /\ Starts(stream, ValuesBehind(r.rows[i], j) \o RowsBehind(r, i))

CellsOf(r, i, read) ==
  /\ read \in Seq(RowValues)
  /\ \A c \in DOMAIN read : read[c] = r.rows[i][c]

(* What the caller finds of a value in a column, and of what was taken of  *)
(* a row.                                                                  *)
Told(r, even, c, v, w) ==
  \/ w = v
  \/ r.cols[c].type = "varchar" /\ ~even
  \/ r.cols[c].type # "varchar" /\ v \in ZoneMarks
FoundOf(r, even, read, told) ==
  /\ told \in Seq(RowValues \cup {NullValue, Lost}) /\ Len(told) = Len(read)
  /\ \A c \in DOMAIN read : Told(r, even, c, read[c], told[c])

Undescribed(r, stream, i, read, ret) ==
  i = 0 /\ read = <<>> /\ ret # "no_more_rows" /\ Starts(stream, RecordsetItems(r))
Described(r, cols, size) == cols = r.cols /\ size = NullsSize(r.cols)
BeforeRows(r, stream, i, read) == i = 0 /\ read = <<>> /\ Starts(stream, RowsBehind(r, 0))
Fetched(r, i, j, bit, nulls, stream, read) == j = Len(read) /\ InRow(r, i, j, bit, nulls, stream)

InPlace ==
  /\ items \in Seq(AnyItem)
  /\ rs_ret # "astray"
  /\ rs_ret = "no_more_rows" => row = Len(sent.rows)
  /\ CellsOf(sent, row, cells) /\ FoundOf(sent, aligned, cells, found)
  /\ rstate = "E" => Undescribed(sent, items, row, cells, rs_ret)
  /\ rstate \in {"R", "F"} => Described(sent, rs_columns, nulls_sz)
  /\ rstate = "R" => BeforeRows(sent, items, row, cells)
  /\ rstate = "F" /\ rs_ret = "success" =>
       Fetched(sent, row, col_idx, nullable_col_idx, row_nulls, items, cells)

RecordsetInv ==
  /\ sent \in Recordsets
  /\ Fits(sent) /\ ~skipped => InPlace

LEMMA NothingRead ==
  ASSUME NEW r, NEW i
  PROVE  CellsOf(r, i, <<>>)
BY EmptySeq DEF CellsOf

LEMMA NothingFound ==
  ASSUME NEW r, NEW even
  PROVE  FoundOf(r, even, <<>>, <<>>)
BY EmptySeq DEF FoundOf

----------------------------------------------------------------------------
(* The description is read.                                                *)

LEMMA ColumnKinds ==
  ASSUME NEW cols \in Seq(Column), NEW h, h = ColumnItems(cols), NEW kinds,
         kinds = <<"col_num">> \o [c \in 1 .. Len(cols) |-> "col"]
  PROVE  IsKinds(kinds, h)
<1>1. PICK n \in Nat : n = Len(cols)
  OBVIOUS
<1>2. PICK d : d = [c \in 1 .. n |-> "col"]
  OBVIOUS
<1>3. d \in Seq(Kinds) /\ Len(d) = n /\ \A c \in 1 .. n : d[c] = "col"
  <2>1. "col" \in Kinds
    BY DEF Kinds
  <2> QED BY <1>2, <2>1
<1>4. <<"col_num">> \in Seq(Kinds) /\ Len(<<"col_num">>) = 1 /\ <<"col_num">>[1] = "col_num"
  BY DEF Kinds
<1>5. kinds = <<"col_num">> \o d
  BY <1>1, <1>2
<1>6. /\ kinds \in Seq(Kinds) /\ Len(kinds) = 1 + n
      /\ \A i \in 1 .. 1 + n : kinds[i] = IF i <= 1 THEN <<"col_num">>[i] ELSE d[i - 1]
  BY <1>3, <1>4, <1>5, ConcatProperties
<1>7. /\ Len(h) = 1 + n /\ h[1] = Item("col_num", n)
      /\ \A c \in 1 .. n : h[c + 1] = Item("col", cols[c])
  BY <1>1, ColumnItemsAre
<1>8. \A i \in 1 .. 1 + n : h[i].kind = kinds[i]
  <2> TAKE i \in 1 .. 1 + n
  <2>1. CASE i = 1
    BY <1>4, <1>6, <1>7, <2>1, ItemFields
  <2>2. CASE i # 1
    <3>1. PICK c \in 1 .. n : i = c + 1
      <4>1. i - 1 \in 1 .. n /\ i = (i - 1) + 1
        BY <2>2
      <4> QED BY <4>1
    <3>2. h[i] = Item("col", cols[c]) /\ i - 1 = c /\ ~ (i <= 1)
      BY <1>7, <3>1
    <3>3. kinds[i] = "col"
      BY <1>3, <1>6, <3>2
    <3>4. Item("col", cols[c]).kind = "col"
      BY ItemFields
    <3> QED BY <3>2, <3>3, <3>4
  <2> QED BY <2>1, <2>2
<1>9. DOMAIN kinds = 1 .. 1 + n
  BY <1>6, LenProperties
<1> QED BY <1>6, <1>7, <1>8, <1>9 DEF IsKinds

LEMMA LeastOfTwo ==
  ASSUME NEW a \in Nat, NEW b \in Nat, a <= b
  PROVE  Min({a, b}) = a
<1>1. \A y \in {a, b} : a <= y
  OBVIOUS
<1>2. \A x \in {a, b} : (\A y \in {a, b} : x <= y) => x = a
  OBVIOUS
<1> QED BY <1>1, <1>2 DEF Min

LEMMA ColumnsToRead ==
  ASSUME items \in Seq(AnyItem), sent \in Recordsets, Fits(sent),
         Starts(items, RecordsetItems(sent)), items # <<>>
  PROVE  ColumnsRead = Len(sent.cols)
<1>1. PICK h, rest : h = ColumnItems(sent.cols) /\ rest = RowsBehind(sent, 0)
  OBVIOUS
<1>2. sent.cols \in Seq(Column) /\ Len(sent.cols) \in Nat /\ 0 \in 0 .. Len(sent.rows)
  BY RecordsetFacts, RowsAreItems
<1>3. /\ h \in Seq(AnyItem) /\ Len(h) >= 1 /\ h[1] = Item("col_num", Len(sent.cols))
      /\ rest \in Seq(AnyItem) /\ Starts(items, h \o rest)
  <2>1. /\ h \in Seq(AnyItem) /\ Len(h) = 1 + Len(sent.cols)
        /\ h[1] = Item("col_num", Len(sent.cols))
    BY <1>1, <1>2, ColumnItemsAre
  <2>2. rest \in Seq(AnyItem)
    BY <1>1, <1>2, RowsBehindAreItems
  <2>3. Starts(items, h \o rest)
    BY <1>1, RecordsetParts
  <2> QED BY <1>2, <2>1, <2>2, <2>3
<1>4. items[1] = Item("col_num", Len(sent.cols))
  BY <1>3, FirstRead
<1>5. items[1].kind = "col_num" /\ items[1].value = Len(sent.cols)
  BY <1>4, ItemFields
<1>6. Min({Len(sent.cols), MAX_COLUMNS}) = Len(sent.cols)
  BY <1>2, LeastOfTwo, RecordsetAssumption DEF RecordsetAssumption, Fits
<1> QED BY <1>5, <1>6 DEF ColumnsRead

LEMMA DescriptionRead ==
  ASSUME items \in Seq(AnyItem), sent \in Recordsets, NEW n, n = Len(sent.cols),
         Starts(items, RecordsetItems(sent)),
         NEW kinds, kinds = <<"col_num">> \o [c \in 1 .. n |-> "col"]
  PROVE  /\ Len(kinds) = 1 + n /\ ~ Astray(kinds)
         /\ Reads(kinds) =>
              /\ [c \in 1 .. n |-> items[c + 1].value] = sent.cols
              /\ SubSeq(items, n + 2, Len(items)) \in Seq(AnyItem)
              /\ Starts(SubSeq(items, n + 2, Len(items)), RowsBehind(sent, 0))
<1>1. PICK h, rest : h = ColumnItems(sent.cols) /\ rest = RowsBehind(sent, 0)
  OBVIOUS
<1>2. sent.cols \in Seq(Column) /\ n \in Nat /\ 0 \in 0 .. Len(sent.rows)
  BY RecordsetFacts, RowsAreItems
<1>3. /\ h \in Seq(AnyItem) /\ Len(h) = 1 + n
      /\ \A c \in 1 .. n : h[c + 1] = Item("col", sent.cols[c])
  BY <1>1, <1>2, ColumnItemsAre
<1>4. rest \in Seq(AnyItem) /\ Starts(items, h \o rest)
  BY <1>1, <1>2, RowsBehindAreItems, RecordsetParts
<1>5. IsKinds(kinds, h)
  BY <1>1, <1>2, ColumnKinds
<1>6. Len(kinds) = 1 + n
  BY <1>3, <1>5 DEF IsKinds
<1>7. ~ Astray(kinds)
  BY <1>3, <1>4, <1>5, NotAstray
<1>8. ASSUME Reads(kinds)
      PROVE  /\ [c \in 1 .. n |-> items[c + 1].value] = sent.cols
             /\ SubSeq(items, n + 2, Len(items)) \in Seq(AnyItem)
             /\ Starts(SubSeq(items, n + 2, Len(items)), RowsBehind(sent, 0))
  <2>1. Len(h) <= Len(items)
    BY <1>3, <1>6, <1>8 DEF Reads
  <2>2. PICK k, t : k = Len(h) /\ t = SubSeq(items, k + 1, Len(items))
    OBVIOUS
  <2>3. t \in Seq(AnyItem) /\ Starts(t, rest) /\ Agree(items, h, k)
    <3>1. h \in Seq(AnyItem) /\ k <= Len(items)
      BY <1>3, <2>1, <2>2
    <3> QED BY <1>4, <2>2, <3>1, HeadTaken, ZenonT(60)
  <2>4. \A c \in 1 .. n : items[c + 1].value = sent.cols[c]
    <3> TAKE c \in 1 .. n
    <3>1. c + 1 \in 1 .. k
      BY <1>2, <1>3, <2>2
    <3>2. items[c + 1] = Item("col", sent.cols[c])
      BY <1>3, <2>3, <3>1 DEF Agree
    <3>3. Item("col", sent.cols[c]).value = sent.cols[c]
      BY ItemFields
    <3> QED BY <3>2, <3>3
  <2>5. sent.cols = [c \in 1 .. n |-> sent.cols[c]]
    <3>1. PICK cols : cols = sent.cols
      OBVIOUS
    <3>2. cols \in [1 .. n -> Column]
      BY <1>2, <3>1, LenProperties
    <3>3. cols = [c \in 1 .. n |-> cols[c]]
      BY <3>2
    <3> QED BY <3>1, <3>3
  <2>6. [c \in 1 .. n |-> items[c + 1].value] = [c \in 1 .. n |-> sent.cols[c]]
    BY <2>4
  <2>7. k + 1 = n + 2
    BY <1>2, <1>3, <2>2
  <2> QED BY <1>1, <2>2, <2>3, <2>5, <2>6, <2>7
<1> QED BY <1>6, <1>7, <1>8

LEMMA NoColumnsRead ==
  ASSUME items = <<>>, NEW kinds, kinds = <<"col_num">> \o [c \in 1 .. ColumnsRead |-> "col"]
  PROVE  ~ Reads(kinds) /\ ~ Astray(kinds)
<1>1. ColumnsRead = 0
  BY DEF ColumnsRead
<1>2. PICK d : d = [c \in 1 .. 0 |-> "col"]
  OBVIOUS
<1>3. d = <<>>
  BY <1>2
<1>4. kinds = <<"col_num">> \o <<>>
  BY <1>1, <1>2, <1>3
<1>5. <<"col_num">> \in Seq(Kinds)
  BY DEF Kinds
<1>6. kinds = <<"col_num">>
  BY <1>4, <1>5, ConcatEmptySeq
<1>7. Len(<<"col_num">>) = 1 /\ 1 \in Nat /\ 1 >= 1
  OBVIOUS
<1>8. Len(kinds) \in Nat /\ Len(kinds) >= 1
  BY <1>6, <1>7, Zenon
<1> QED BY <1>8, NothingIsCut, Zenon

(* The two ways of begin_recordset.                                        *)
BeginReads(n) ==
  /\ Reads(<<"col_num">> \o [c \in 1 .. n |-> "col"])
  /\ rs_columns' = [c \in 1 .. n |-> items[c + 1].value]
  /\ nulls_sz' = NullsSize(rs_columns')
  /\ Drop(1 + n)
  /\ rstate' = "R" /\ rs_ret' = "success"
BeginFails(n) ==
  /\ \/ Broken(<<"col_num">> \o [c \in 1 .. n |-> "col"])
     \/ Astray(<<"col_num">> \o [c \in 1 .. n |-> "col"])
  /\ rstate' = rstate

LEMMA BeginKeepsPlace ==
  ASSUME RecordsetInv, begin_recordset
  PROVE  RecordsetInv'
<1>1. /\ rstate = "E" /\ sent' = sent /\ row' = row
      /\ cells' = cells /\ skipped' = skipped /\ found' = found /\ aligned' = aligned
      /\ BeginReads(ColumnsRead) \/ BeginFails(ColumnsRead)
  BY DEF begin_recordset, BeginReads, BeginFails
<1>2. sent \in Recordsets
  BY DEF RecordsetInv
<1>3. ASSUME Fits(sent'), ~ skipped'
      PROVE  InPlace'
  <2>1. InPlace /\ Fits(sent)
    BY <1>1, <1>3 DEF RecordsetInv
  <2>2. /\ row = 0 /\ cells = <<>> /\ items \in Seq(AnyItem)
        /\ Starts(items, RecordsetItems(sent)) /\ CellsOf(sent, row, cells)
        /\ FoundOf(sent, aligned, cells, found)
    BY <1>1, <2>1 DEF InPlace, Undescribed
  <2>3. PICK n, kinds : n = ColumnsRead /\ kinds = <<"col_num">> \o [c \in 1 .. n |-> "col"]
    OBVIOUS
  <2>4. CASE Broken(kinds) /\ rstate' = rstate
    <3>1. items' = <<>> /\ rs_ret' = "error" /\ rstate' = "E"
      BY <1>1, <2>4 DEF Broken
    <3>2. <<>> \in Seq(AnyItem)
      BY EmptySeq
    <3>3. Starts(<<>>, RecordsetItems(sent))
      <4>1. RecordsetItems(sent) \in Seq(AnyItem)
        BY <1>2, RecordsetIsItems
      <4> QED BY <4>1, NothingStarts
    <3> QED BY <1>1, <2>2, <3>1, <3>2, <3>3 DEF InPlace, Undescribed
  <2>5. CASE Astray(kinds)
    <3>1. items # <<>>
      BY <2>3, <2>5, NoColumnsRead
    <3>2. n = Len(sent.cols)
      BY <1>2, <2>1, <2>2, <2>3, <3>1, ColumnsToRead
    <3> QED BY <1>2, <2>2, <2>3, <2>5, <3>2, DescriptionRead
  <2>6. CASE BeginReads(ColumnsRead)
    <3>1. Reads(kinds) /\ Drop(1 + n) /\ rstate' = "R" /\ rs_ret' = "success"
      BY <2>3, <2>6 DEF BeginReads
    <3>2. items # <<>>
      BY <2>3, <3>1, NoColumnsRead
    <3>3. n = Len(sent.cols)
      BY <1>2, <2>1, <2>2, <2>3, <3>2, ColumnsToRead
    <3>4. /\ [c \in 1 .. n |-> items[c + 1].value] = sent.cols
          /\ SubSeq(items, n + 2, Len(items)) \in Seq(AnyItem)
          /\ Starts(SubSeq(items, n + 2, Len(items)), RowsBehind(sent, 0))
      BY <1>2, <2>2, <2>3, <3>1, <3>3, DescriptionRead
    <3>5. rs_columns' = sent.cols /\ nulls_sz' = NullsSize(sent.cols)
      BY <2>3, <2>6, <3>4 DEF BeginReads
    <3>6. items' = SubSeq(items, n + 2, Len(items))
      <4>1. n \in Nat
        BY <1>2, <3>3, RecordsetFacts
      <4>2. (1 + n) + 1 = n + 2
        BY <4>1
      <4> QED BY <3>1, <4>2 DEF Drop
    <3> QED BY <1>1, <2>2, <3>1, <3>4, <3>5, <3>6 DEF InPlace, Described, BeforeRows
  <2> QED BY <1>1, <2>3, <2>4, <2>5, <2>6 DEF BeginFails
<1> QED BY <1>1, <1>2, <1>3 DEF RecordsetInv

----------------------------------------------------------------------------
(* A row is begun, or the end is read.                                     *)

LEMMA MaskKinds ==
  ASSUME NEW cols \in Seq(Column), NEW values, NEW h, h = RowHead(cols, values),
         nulls_sz = NullsSize(cols)
  PROVE  IsKinds(Masks, h) /\ Len(Masks) = 1 + nulls_sz /\ nulls_sz \in Nat
<1>1. PICK n, d, kinds : n = nulls_sz /\ d = [b \in 1 .. n |-> "mask"] /\ kinds = Masks
  OBVIOUS
<1>2. /\ n \in Nat /\ Len(h) = 1 + n /\ h[1] = Item("row", 0)
      /\ \A b \in 1 .. n : h[b + 1] = Item("mask", MaskBits(cols, values)[b])
  BY <1>1, RowHeads
<1>3. d \in Seq(Kinds) /\ Len(d) = n /\ \A b \in 1 .. n : d[b] = "mask"
  <2>1. "mask" \in Kinds
    BY DEF Kinds
  <2> QED BY <1>1, <1>2, <2>1
<1>4. <<"row">> \in Seq(Kinds) /\ Len(<<"row">>) = 1 /\ <<"row">>[1] = "row"
  BY DEF Kinds
<1>5. kinds = <<"row">> \o d
  BY <1>1 DEF Masks
<1>6. /\ kinds \in Seq(Kinds) /\ Len(kinds) = 1 + n
      /\ \A i \in 1 .. 1 + n : kinds[i] = IF i <= 1 THEN <<"row">>[i] ELSE d[i - 1]
  BY <1>3, <1>4, <1>5, ConcatProperties
<1>7. \A i \in 1 .. 1 + n : h[i].kind = kinds[i]
  <2> TAKE i \in 1 .. 1 + n
  <2>1. CASE i = 1
    <3>1. kinds[1] = "row"
      BY <1>2, <1>4, <1>6
    <3> QED BY <1>2, <2>1, <3>1, ItemFields
  <2>2. CASE i # 1
    <3>1. PICK b \in 1 .. n : i = b + 1
      <4>1. i - 1 \in 1 .. n /\ i = (i - 1) + 1
        BY <1>2, <2>2
      <4> QED BY <4>1
    <3>2. i - 1 = b /\ ~ (i <= 1)
      BY <1>2, <3>1
    <3>3. kinds[i] = "mask"
      BY <1>3, <1>6, <3>2
    <3>4. Item("mask", MaskBits(cols, values)[b]).kind = "mask"
      BY ItemFields
    <3>5. h[i] = Item("mask", MaskBits(cols, values)[b])
      BY <1>2, <3>1
    <3> QED BY <3>3, <3>4, <3>5
  <2> QED BY <2>1, <2>2
<1>8. DOMAIN kinds = 1 .. 1 + n
  BY <1>6, LenProperties
<1> QED BY <1>1, <1>2, <1>6, <1>7, <1>8 DEF IsKinds

LEMMA EndKinds ==
  IsKinds(<<"end">>, TheEnd) /\ Len(<<"end">>) = 1
<1>1. TheEnd[1].kind = "end" /\ Len(TheEnd) = 1
  BY TheEndIsItems, ItemFields
<1> QED BY <1>1 DEF IsKinds

(* What is read is an end only behind the last row, and a row only before. *)
LEMMA EndRead ==
  ASSUME items \in Seq(AnyItem), sent \in Recordsets, Described(sent, rs_columns, nulls_sz),
         row \in 0 .. Len(sent.rows), Starts(items, RowsBehind(sent, row)),
         Reads(<<"end">>)
  PROVE  row = Len(sent.rows)
<1> SUFFICES ASSUME row # Len(sent.rows) PROVE FALSE
  OBVIOUS
<1>1. Len(sent.rows) \in Nat
  BY RowsAreItems
<1>2. row \in Nat /\ row < Len(sent.rows) /\ row + 1 \in 1 .. Len(sent.rows)
      /\ row + 1 \in 0 .. Len(sent.rows)
  BY <1>1
<1>3. PICK h, values, rest :
        /\ values = sent.rows[row + 1] /\ h = RowHead(sent.cols, values)
        /\ rest = ValuesBehind(values, 0) \o RowsBehind(sent, row + 1)
  OBVIOUS
<1>4. sent.cols \in Seq(Column) /\ values \in Seq(RowValues)
  BY <1>2, <1>3, RecordsetFacts
<1>5. RowsBehind(sent, row) = h \o rest
  BY <1>2, <1>3, NextRow
<1>6. h \in Seq(AnyItem) /\ Len(h) >= 1 /\ h[1] = Item("row", 0)
  BY <1>3, <1>4, RowHeads
<1>7. rest \in Seq(AnyItem)
  BY <1>2, <1>3, <1>4, RestOfRow
<1>8. items # <<>> /\ items[1].kind = "end"
  BY EndKinds DEF Reads
<1>9. items[1] = h[1]
  BY <1>5, <1>6, <1>7, <1>8, FirstRead
<1> QED BY <1>6, <1>8, <1>9, ItemFields

LEMMA MasksBegin ==
  ASSUME NEW cols \in Seq(Column), nulls_sz = NullsSize(cols)
  PROVE  Len(Masks) = 1 + nulls_sz /\ nulls_sz \in Nat /\ Masks[1] = "row"
<1>1. PICK h : h = RowHead(cols, <<>>)
  OBVIOUS
<1>2. IsKinds(Masks, h) /\ Len(Masks) = 1 + nulls_sz /\ nulls_sz \in Nat
  BY <1>1, MaskKinds
<1>3. h[1] = Item("row", 0) /\ Len(h) = 1 + nulls_sz
  BY <1>1, RowHeads
<1>4. 1 \in 1 .. Len(h)
  BY <1>2, <1>3
<1>5. h[1].kind = "row"
  BY <1>3, ItemFields
<1> QED BY <1>2, <1>4, <1>5 DEF IsKinds

LEMMA NothingIsRow ==
  ASSUME items \in Seq(AnyItem), NEW cols \in Seq(Column), nulls_sz = NullsSize(cols),
         Starts(items, TheEnd)
  PROVE  ~ Reads(Masks)
<1> SUFFICES ASSUME Reads(Masks) PROVE FALSE
  OBVIOUS
<1>1. Len(Masks) = 1 + nulls_sz /\ nulls_sz \in Nat /\ Masks[1] = "row"
  BY MasksBegin
<1>2. Len(items) >= 1 /\ \A i \in DOMAIN Masks : items[i].kind = Masks[i]
  BY <1>1 DEF Reads
<1>3. DOMAIN Masks = 1 .. 1 + nulls_sz
  <2>1. IsKinds(Masks, RowHead(cols, <<>>))
    BY MaskKinds
  <2>2. Len(RowHead(cols, <<>>)) = 1 + nulls_sz
    BY RowHeads
  <2> QED BY <2>1, <2>2 DEF IsKinds
<1>4. 1 \in DOMAIN Masks /\ 1 \in 1 .. Len(items)
  BY <1>1, <1>2, <1>3
<1>5. items[1].kind = "row"
  BY <1>1, <1>2, <1>4
<1>6. items[1] = Item("end", 0)
  BY <1>4, TheEndIsItems DEF Starts
<1> QED BY <1>5, <1>6, ItemFields

LEMMA NoColumnBefore ==
  ASSUME NEW cols
  PROVE  NullableBefore(cols, 1) = 0
<1>1. {d \in 1 .. 1 - 1 : cols[d].nullable} = {}
  OBVIOUS
<1> QED BY <1>1, FS_EmptySet DEF NullableBefore

LEMMA RowRead ==
  ASSUME items \in Seq(AnyItem), sent \in Recordsets, Described(sent, rs_columns, nulls_sz),
         row \in 0 .. Len(sent.rows), Starts(items, RowsBehind(sent, row)),
         Reads(Masks), NEW t, t = SubSeq(items, nulls_sz + 2, Len(items)),
         NEW nulls, nulls = [b \in 1 .. nulls_sz |-> items[b + 1].value]
  PROVE  /\ t \in Seq(AnyItem)
         /\ InRow(sent, row + 1, 0, 0, nulls, t)
<1>1. sent.cols \in Seq(Column) /\ Len(sent.rows) \in Nat /\ nulls_sz = NullsSize(sent.cols)
  BY RecordsetFacts, RowsAreItems DEF Described
<1>2. row < Len(sent.rows)
  <2> SUFFICES ASSUME row = Len(sent.rows) PROVE FALSE
    BY <1>1
  <2>1. Starts(items, TheEnd)
    BY NoMoreRows
  <2> QED BY <1>1, <2>1, NothingIsRow
<1>3. row \in Nat /\ row + 1 \in 1 .. Len(sent.rows) /\ row + 1 \in 0 .. Len(sent.rows)
  BY <1>1, <1>2
<1>4. PICK h, values, rest, n :
        /\ values = sent.rows[row + 1] /\ h = RowHead(sent.cols, values) /\ n = Len(h)
        /\ rest = ValuesBehind(values, 0) \o RowsBehind(sent, row + 1)
  OBVIOUS
<1>5. values \in Seq(RowValues) /\ 0 \in 0 .. Len(values)
  BY <1>3, <1>4, RecordsetFacts
<1>6. Starts(items, h \o rest)
  BY <1>2, <1>3, <1>4, NextRow
<1>7. /\ h \in Seq(AnyItem) /\ n = 1 + nulls_sz /\ nulls_sz \in Nat
      /\ \A b \in 1 .. nulls_sz : h[b + 1] = Item("mask", MaskBits(sent.cols, values)[b])
  BY <1>1, <1>4, RowHeads
<1>8. rest \in Seq(AnyItem)
  BY <1>3, <1>4, <1>5, RestOfRow
<1>9. n <= Len(items)
  BY <1>1, <1>7, MasksBegin DEF Reads
<1>10. t = SubSeq(items, n + 1, Len(items))
  <2>1. n + 1 = nulls_sz + 2
    BY <1>7
  <2> QED BY <2>1
<1>11. t \in Seq(AnyItem) /\ Starts(t, rest) /\ Agree(items, h, n)
  BY <1>4, <1>6, <1>7, <1>8, <1>9, <1>10, HeadTaken, ZenonT(60)
<1>12. nulls = MaskBits(sent.cols, values)
  <2>1. PICK bits : bits = MaskBits(sent.cols, values)
    OBVIOUS
  <2>2. \A b \in 1 .. nulls_sz : items[b + 1].value = bits[b]
    <3> TAKE b \in 1 .. nulls_sz
    <3>1. b + 1 \in 1 .. n
      BY <1>7
    <3>2. items[b + 1] = Item("mask", bits[b])
      BY <1>7, <1>11, <2>1, <3>1 DEF Agree
    <3>3. Item("mask", bits[b]).value = bits[b]
      BY ItemFields
    <3> QED BY <3>2, <3>3
  <2>3. bits = [b \in 1 .. nulls_sz |-> bits[b]]
    BY <1>1, <2>1 DEF MaskBits
  <2>4. [b \in 1 .. nulls_sz |-> items[b + 1].value] = [b \in 1 .. nulls_sz |-> bits[b]]
    BY <2>2
  <2> QED BY <2>1, <2>3, <2>4
<1>13. 0 = NullableBefore(sent.cols, 0 + 1) /\ 0 \in 0 .. Len(sent.cols)
  BY <1>1, NoColumnBefore
<1> QED BY <1>3, <1>4, <1>11, <1>12, <1>13 DEF InRow

LEMMA FetchNotAstray ==
  ASSUME items \in Seq(AnyItem), sent \in Recordsets, Described(sent, rs_columns, nulls_sz),
         row \in 0 .. Len(sent.rows), Starts(items, RowsBehind(sent, row)),
         ~ Reads(<<"end">>)
  PROVE  ~ Astray(Masks)
<1>1. sent.cols \in Seq(Column) /\ Len(sent.rows) \in Nat /\ nulls_sz = NullsSize(sent.cols)
  BY RecordsetFacts, RowsAreItems DEF Described
<1>2. CASE row = Len(sent.rows)
  <2>1. Starts(items, TheEnd)
    BY <1>2, NoMoreRows
  <2>2. TheEnd \in Seq(AnyItem) /\ <<>> \in Seq(AnyItem) /\ TheEnd \o <<>> = TheEnd
    BY TheEndIsItems, ConcatEmptySeq
  <2>3. Starts(items, TheEnd \o <<>>)
    BY <2>1, <2>2
  <2>4. Reads(<<"end">>) \/ Cut(<<"end">>)
    BY <2>2, <2>3, EndKinds, HeadComes
  <2>5. items = <<>>
    <3>1. Len(items) \in Nat /\ Len(items) < 1
      BY <2>4, EndKinds DEF Cut
    <3> QED BY <3>1, EmptySeq
  <2>6. Len(Masks) \in Nat /\ Len(Masks) >= 1
    BY <1>1, MasksBegin
  <2> QED BY <2>5, <2>6, NothingIsCut
<1>3. CASE row < Len(sent.rows)
  <2>1. row \in Nat /\ row + 1 \in 1 .. Len(sent.rows) /\ row + 1 \in 0 .. Len(sent.rows)
    BY <1>1, <1>3
  <2>2. PICK h, values, rest :
          /\ values = sent.rows[row + 1] /\ h = RowHead(sent.cols, values)
          /\ rest = ValuesBehind(values, 0) \o RowsBehind(sent, row + 1)
    OBVIOUS
  <2>3. values \in Seq(RowValues) /\ 0 \in 0 .. Len(values)
    BY <2>1, <2>2, RecordsetFacts
  <2>4. Starts(items, h \o rest)
    BY <1>3, <2>1, <2>2, NextRow
  <2>5. h \in Seq(AnyItem) /\ IsKinds(Masks, h)
    BY <1>1, <2>2, RowHeads, MaskKinds
  <2>6. rest \in Seq(AnyItem)
    BY <2>1, <2>2, <2>3, RestOfRow
  <2> QED BY <2>4, <2>5, <2>6, NotAstray
<1> QED BY <1>1, <1>2, <1>3

(* Where a row may be begun: before the first, or behind all values of one.*)
BetweenRows == row \in 0 .. Len(sent.rows) /\ Starts(items, RowsBehind(sent, row))

LEMMA RowsMeet ==
  ASSUME sent \in Recordsets, InPlace, rs_ret = "success",
         rstate = "R" \/ (rstate = "F" /\ ~ (col_idx < Len(rs_columns)))
  PROVE  BetweenRows
<1>1. Len(sent.rows) \in Nat /\ sent.cols \in Seq(Column) /\ Len(sent.cols) \in Nat
  BY RecordsetFacts, RowsAreItems
<1>2. CASE rstate = "R"
  BY <1>1, <1>2 DEF InPlace, BeforeRows, BetweenRows
<1>3. CASE rstate = "F" /\ ~ (col_idx < Len(rs_columns))
  <2>1. /\ Described(sent, rs_columns, nulls_sz)
        /\ InRow(sent, row, col_idx, nullable_col_idx, row_nulls, items)
    BY <1>3 DEF InPlace, Fetched
  <2>2. col_idx = Len(sent.cols) /\ row \in 1 .. Len(sent.rows) /\ row \in 0 .. Len(sent.rows)
    BY <1>1, <1>3, <2>1 DEF InRow, Described
  <2>3. PICK values, rest : values = sent.rows[row] /\ rest = RowsBehind(sent, row)
    OBVIOUS
  <2>4. values \in Seq(RowValues) /\ Len(values) = Len(sent.cols)
    <3>1. IsRow(sent.cols, values)
      BY <2>2, <2>3, RecordsetFacts
    <3> QED BY <3>1 DEF IsRow
  <2>5. ValuesBehind(values, col_idx) = <<>>
    BY <2>2, <2>4, NoMoreValues
  <2>6. rest \in Seq(AnyItem)
    BY <2>2, <2>3, RowsBehindAreItems
  <2>7. ValuesBehind(values, col_idx) \o rest = rest
    BY <2>5, <2>6, ConcatEmptySeq
  <2>8. Starts(items, ValuesBehind(values, col_idx) \o rest)
    BY <2>1, <2>3 DEF InRow
  <2> QED BY <2>2, <2>3, <2>7, <2>8 DEF BetweenRows
<1> QED BY <1>2, <1>3

(* The ways of fetch_row.                                                  *)
FetchEnd == Reads(<<"end">>) /\ Drop(1) /\ rs_ret' = "no_more_rows" /\ row' = row
FetchReads ==
  /\ Reads(Masks) /\ row_nulls' = [b \in 1 .. nulls_sz |-> items[b + 1].value]
  /\ Drop(1 + nulls_sz) /\ row' = row + 1 /\ rs_ret' = "success"
FetchFails == Broken(Masks) /\ row' = row

LEMMA FetchKeepsPlace ==
  ASSUME RecordsetInv, fetch_row
  PROVE  RecordsetInv'
<1>1. /\ rstate \in {"R", "F"} /\ rstate' = "F" /\ sent' = sent /\ cells' = <<>>
      /\ found' = <<>> /\ aligned' = aligned
      /\ col_idx' = 0 /\ nullable_col_idx' = 0 /\ rs_columns' = rs_columns /\ nulls_sz' = nulls_sz
      /\ skipped' = (skipped \/ rs_ret # "success" \/ (rstate = "F" /\ col_idx < Len(rs_columns)))
      /\ FetchEnd \/ FetchReads \/ (~ Reads(<<"end">>) /\ Astray(Masks)) \/ FetchFails
  BY DEF fetch_row, FetchEnd, FetchReads, FetchFails
<1>2. sent \in Recordsets
  BY DEF RecordsetInv
<1>3. ASSUME Fits(sent'), ~ skipped'
      PROVE  InPlace'
  <2>1. InPlace /\ rs_ret = "success" /\ (rstate = "F" => ~ (col_idx < Len(rs_columns)))
    BY <1>1, <1>3 DEF RecordsetInv
  <2>2. items \in Seq(AnyItem) /\ Described(sent, rs_columns, nulls_sz)
    BY <1>1, <2>1 DEF InPlace
  <2>3. row \in 0 .. Len(sent.rows) /\ Starts(items, RowsBehind(sent, row))
    <3>1. BetweenRows
      BY <1>1, <1>2, <2>1, RowsMeet
    <3> QED BY <3>1 DEF BetweenRows
  <2>4. /\ Described(sent, rs_columns, nulls_sz)' /\ CellsOf(sent, row', <<>>)
        /\ FoundOf(sent, aligned, <<>>, <<>>)
    BY <1>1, <2>2, NothingRead, NothingFound DEF Described
  <2>5. CASE FetchEnd
    <3>1. row' = Len(sent.rows) /\ rs_ret' = "no_more_rows"
      BY <1>2, <2>2, <2>3, <2>5, EndRead DEF FetchEnd
    <3>2. items' \in Seq(AnyItem)
      <4>1. 1 <= Len(items) /\ 1 \in 0 .. Len(items)
        BY <2>2, <2>5, EndKinds DEF FetchEnd, Reads
      <4>2. SubSeq(items, 1 + 1, Len(items)) \in Seq(AnyItem)
        BY <2>2, <4>1, PartsBehind
      <4> QED BY <2>5, <4>2 DEF FetchEnd, Drop
    <3> QED BY <1>1, <2>4, <3>1, <3>2 DEF InPlace
  <2>6. CASE FetchReads
    <3>1. nulls_sz \in Nat
      BY <1>2, <2>2, RecordsetFacts, NullsSizeIsNumber DEF Described
    <3>2. PICK t : t = SubSeq(items, nulls_sz + 2, Len(items))
      OBVIOUS
    <3>3. items' = t
      <4>1. (1 + nulls_sz) + 1 = nulls_sz + 2
        BY <3>1
      <4> QED BY <2>6, <3>2, <4>1 DEF FetchReads, Drop
    <3>4. PICK nulls : nulls = [b \in 1 .. nulls_sz |-> items[b + 1].value]
      OBVIOUS
    <3>5. row_nulls' = nulls /\ row' = row + 1 /\ rs_ret' = "success" /\ Reads(Masks)
      BY <2>6, <3>4 DEF FetchReads
    <3>6. t \in Seq(AnyItem) /\ InRow(sent, row + 1, 0, 0, nulls, t)
      BY <1>2, <2>2, <2>3, <3>2, <3>4, <3>5, RowRead
    <3>7. InRow(sent, row, col_idx, nullable_col_idx, row_nulls, items)'
      BY <1>1, <3>3, <3>5, <3>6
    <3>8. col_idx' = Len(cells')
      BY <1>1
    <3> QED BY <1>1, <2>4, <3>3, <3>5, <3>6, <3>7, <3>8 DEF InPlace, Fetched
  <2>7. CASE ~ Reads(<<"end">>) /\ Astray(Masks)
    BY <1>2, <2>2, <2>3, <2>7, FetchNotAstray
  <2>8. CASE FetchFails
    <3>1. items' = <<>> /\ rs_ret' = "error" /\ <<>> \in Seq(AnyItem)
      BY <2>8, EmptySeq DEF FetchFails, Broken
    <3> QED BY <1>1, <2>4, <3>1 DEF InPlace
  <2> QED BY <1>1, <2>5, <2>6, <2>7, <2>8
<1> QED BY <1>1, <1>2, <1>3 DEF RecordsetInv
----------------------------------------------------------------------------
(* The value of a column is read.                                          *)

(* A null: nothing of the stream is read.                                  *)
LEMMA NullKeepsRow ==
  ASSUME NEW r \in Recordsets, NullBit = 1, NEW i, NEW j, NEW bit, NEW nulls, NEW stream,
         InRow(r, i, j, bit, nulls, stream), j < Len(r.cols),
         r.cols[j + 1].nullable,
         bit \div BITS < Len(nulls) => nulls[bit \div BITS + 1][bit % BITS] = 1
  PROVE  /\ InRow(r, i, j + 1, bit + 1, nulls, stream)
         /\ r.rows[i][j + 1] = NullValue /\ NullValue \in RowValues
<1>1. r.cols \in Seq(Column) /\ Len(r.cols) \in Nat /\ i \in 1 .. Len(r.rows) /\ j \in Nat
  BY RecordsetFacts DEF InRow
<1>2. PICK values, cols, rest : values = r.rows[i] /\ cols = r.cols /\ rest = RowsBehind(r, i)
  OBVIOUS
<1>3. values \in Seq(RowValues) /\ Len(values) = Len(cols)
  BY <1>1, <1>2, RecordsetFacts DEF IsRow
<1>4. /\ bit = NullableBefore(cols, j + 1) /\ nulls = MaskBits(cols, values)
      /\ Starts(stream, ValuesBehind(values, j) \o rest)
  BY <1>2 DEF InRow
<1>5. j + 1 \in 1 .. Len(cols) /\ j + 1 \in Nat /\ j + 1 >= 1 /\ j + 1 \in 0 .. Len(cols)
  BY <1>1, <1>2
<1>6. /\ bit \in Nat /\ bit \div BITS \in Nat /\ bit \div BITS < NullsSize(cols)
      /\ MaskBits(cols, values)[bit \div BITS + 1][bit % BITS] =
           IF values[j + 1] = NullValue THEN 1 ELSE 0
  BY <1>1, <1>2, <1>4, <1>5, MaskTells, SMTT(60)
<1>7. Len(nulls) = NullsSize(cols)
  <2>1. NullsSize(cols) \in Nat
    BY <1>1, <1>2, NullsSizeIsNumber
  <2> QED BY <1>4, <2>1 DEF MaskBits
<1>8. values[j + 1] = NullValue
  BY <1>4, <1>6, <1>7
<1>9. NullableBefore(cols, (j + 1) + 1) = bit + 1
  BY <1>2, <1>4, <1>5, NullableNext
<1>10. ValuesBehind(values, j) = ValuesBehind(values, j + 1)
  BY <1>1, <1>2, <1>3, <1>8, NextValue
<1>11. Starts(stream, ValuesBehind(values, j + 1) \o rest)
  BY <1>4, <1>10
<1>12. NullValue \in RowValues
  BY <1>3, <1>5, <1>8
<1> QED BY <1>1, <1>2, <1>4, <1>5, <1>8, <1>9, <1>11, <1>12 DEF InRow

(* A value: it is what comes next in the stream.                           *)
LEMMA ValueComes ==
  ASSUME NEW r \in Recordsets, NullBit = 1, NEW i, NEW j, NEW bit, NEW nulls, NEW stream,
         InRow(r, i, j, bit, nulls, stream), j < Len(r.cols),
         r.cols[j + 1].nullable =>
           (bit \div BITS < Len(nulls) => nulls[bit \div BITS + 1][bit % BITS] = 0)
  PROVE  /\ r.rows[i][j + 1] \in RowValues
         /\ Starts(stream, <<Item("value", r.rows[i][j + 1])>>
                           \o (ValuesBehind(r.rows[i], j + 1) \o RowsBehind(r, i)))
<1>1. r.cols \in Seq(Column) /\ Len(r.cols) \in Nat /\ i \in 1 .. Len(r.rows) /\ j \in Nat
  BY RecordsetFacts DEF InRow
<1>2. PICK values, cols, rest : values = r.rows[i] /\ cols = r.cols /\ rest = RowsBehind(r, i)
  OBVIOUS
<1>3. IsRow(cols, values)
  BY <1>1, <1>2, RecordsetFacts
<1>4. values \in Seq(RowValues) /\ Len(values) = Len(cols)
  BY <1>3 DEF IsRow
<1>5. /\ bit = NullableBefore(cols, j + 1) /\ nulls = MaskBits(cols, values)
      /\ Starts(stream, ValuesBehind(values, j) \o rest)
  BY <1>2 DEF InRow
<1>6. j + 1 \in 1 .. Len(cols) /\ j + 1 \in 0 .. Len(cols)
  BY <1>1, <1>2
<1>7. values[j + 1] # NullValue
  <2> SUFFICES ASSUME values[j + 1] = NullValue PROVE FALSE
    OBVIOUS
  <2>1. cols[j + 1].nullable
    BY <1>3, <1>6 DEF IsRow
  <2>2. /\ bit \in Nat /\ bit \div BITS \in Nat /\ bit \div BITS < NullsSize(cols)
        /\ MaskBits(cols, values)[bit \div BITS + 1][bit % BITS] =
             IF values[j + 1] = NullValue THEN 1 ELSE 0
    BY <1>1, <1>2, <1>5, <1>6, <2>1, MaskTells, SMTT(60)
  <2>3. Len(nulls) = NullsSize(cols)
    <3>1. NullsSize(cols) \in Nat
      BY <1>1, <1>2, NullsSizeIsNumber
    <3> QED BY <1>5, <3>1 DEF MaskBits
  <2>4. nulls[bit \div BITS + 1][bit % BITS] = 0
    BY <1>2, <2>1, <2>2, <2>3
  <2> QED BY <1>5, <2>2, <2>4
<1>8. values[j + 1] \in RowValues
  BY <1>4, <1>6
<1>9. PICK v, b, e : /\ v = values[j + 1] /\ b = ValuesBehind(values, j + 1)
                     /\ e = Item("value", v)
  OBVIOUS
<1>10. ValuesBehind(values, j) = <<e>> \o b
  BY <1>1, <1>2, <1>4, <1>7, <1>9, NextValue
<1>11. <<e>> \in Seq(AnyItem) /\ b \in Seq(AnyItem) /\ rest \in Seq(AnyItem)
  <2>1. "value" \in Kinds /\ v \in Content
    BY <1>8, <1>9, ContentParts, Zenon DEF Kinds
  <2>2. e \in AnyItem
    BY <1>9, <2>1, ItemIsAny, Zenon
  <2>3. b \in Seq(AnyItem)
    BY <1>4, <1>6, <1>9, ValuesAreItems
  <2>4. i \in 0 .. Len(r.rows)
    BY <1>1
  <2>5. rest \in Seq(AnyItem)
    BY <1>2, <2>4, RowsBehindAreItems
  <2> QED BY <2>2, <2>3, <2>5
<1>12. (<<e>> \o b) \o rest = <<e>> \o (b \o rest)
  BY <1>11, ConcatAssociative
<1>13. Starts(stream, <<e>> \o (b \o rest))
  BY <1>5, <1>10, <1>12
<1> QED BY <1>2, <1>8, <1>9, <1>13

LEMMA ValueKinds ==
  ASSUME NEW v
  PROVE  IsKinds(<<"value">>, <<Item("value", v)>>) /\ Len(<<"value">>) = 1
<1>1. PICK e : e = Item("value", v)
  OBVIOUS
<1>2. e.kind = "value"
  BY <1>1, ItemFields
<1>3. Len(<<e>>) = 1 /\ <<e>>[1] = e
  OBVIOUS
<1> QED BY <1>1, <1>2, <1>3 DEF IsKinds

LEMMA ValueItemsAre ==
  ASSUME NEW v \in RowValues
  PROVE  <<Item("value", v)>> \in Seq(AnyItem)
<1>1. "value" \in Kinds /\ v \in Content
  BY ContentParts, Zenon DEF Kinds
<1>2. PICK e : e = Item("value", v)
  OBVIOUS
<1>3. e \in AnyItem
  BY <1>1, <1>2, ItemIsAny, Zenon
<1> QED BY <1>2, <1>3

(* What the caller gets.                                                   *)
LEMMA OneMore ==
  ASSUME NEW r, NEW i, NEW read, NEW v \in RowValues, CellsOf(r, i, read),
         NEW j, j = Len(read), v = r.rows[i][j + 1]
  PROVE  CellsOf(r, i, Append(read, v)) /\ Len(Append(read, v)) = j + 1
<1>1. read \in Seq(RowValues) /\ \A c \in DOMAIN read : read[c] = r.rows[i][c]
  BY DEF CellsOf
<1>2. /\ Append(read, v) \in Seq(RowValues) /\ Len(Append(read, v)) = j + 1
      /\ j \in Nat /\ DOMAIN read = 1 .. j /\ DOMAIN Append(read, v) = 1 .. j + 1
      /\ Append(read, v)[j + 1] = v
      /\ \A c \in 1 .. j : Append(read, v)[c] = read[c]
  BY <1>1, AppendProperties, LenProperties
<1>3. PICK more : more = Append(read, v)
  OBVIOUS
<1>4. \A c \in 1 .. j + 1 : more[c] = r.rows[i][c]
  <2> TAKE c \in 1 .. j + 1
  <2>1. CASE c = j + 1
    BY <1>2, <1>3, <2>1
  <2>2. CASE c \in 1 .. j
    BY <1>1, <1>2, <1>3, <2>2
  <2>3. c = j + 1 \/ c \in 1 .. j
    BY <1>2
  <2> QED BY <2>1, <2>2, <2>3
<1> QED BY <1>2, <1>3, <1>4 DEF CellsOf
(* What is found of one more.                                              *)
LEMMA OneMoreFound ==
  ASSUME NEW r, NEW even, NEW read \in Seq(RowValues), NEW told, FoundOf(r, even, read, told),
         NEW v \in RowValues, NEW w \in RowValues \cup {NullValue, Lost},
         Told(r, even, Len(read) + 1, v, w)
  PROVE  FoundOf(r, even, Append(read, v), Append(told, w))
<1>1. PICK more, tells, n : more = Append(read, v) /\ tells = Append(told, w) /\ n = Len(read)
  OBVIOUS
<1>n. n \in Nat
  BY <1>1
<1>2. told \in Seq(RowValues \cup {NullValue, Lost}) /\ Len(told) = n
  BY <1>1 DEF FoundOf
<1>3. /\ Len(more) = n + 1 /\ DOMAIN more = 1 .. n + 1 /\ more[n + 1] = v
      /\ \A c \in 1 .. n : more[c] = read[c]
  BY <1>1, <1>n
<1>4. /\ tells \in Seq(RowValues \cup {NullValue, Lost}) /\ Len(tells) = n + 1
      /\ tells[n + 1] = w /\ \A c \in 1 .. n : tells[c] = told[c]
  BY <1>1, <1>n, <1>2
<1>5. ASSUME NEW c \in 1 .. n + 1 PROVE Told(r, even, c, more[c], tells[c])
  <2>1. CASE c = n + 1
    BY <1>1, <1>3, <1>4, <2>1
  <2>2. CASE c \in 1 .. n
    <3>1. Told(r, even, c, read[c], told[c])
      BY <1>1, <2>2 DEF FoundOf
    <3> QED BY <1>3, <1>4, <2>2, <3>1
  <2>3. c = n + 1 \/ c \in 1 .. n
    BY <1>n
  <2> QED BY <2>1, <2>2, <2>3
<1> QED BY <1>1, <1>n, <1>3, <1>4, <1>5 DEF FoundOf

LEMMA LeftIsTold ==
  ASSUME NEW r, NEW c, NEW v \in RowValues
  PROVE  /\ Left(r.cols[c].type, v) \in RowValues \cup {NullValue, Lost}
         /\ Told(r, aligned, c, v, Left(r.cols[c].type, v))
BY DEF Left, Moved, Told

(* The ways of next_col_val in a column.                                   *)
NullRead ==
  /\ MayBeNull /\ cells' = Append(cells, NullValue) /\ found' = Append(found, NullValue)
  /\ col_idx' = col_idx + 1 /\ rs_ret' = "success" /\ items' = items
ValueRead ==
  /\ MayBeValue /\ Reads(<<"value">>) /\ cells' = Append(cells, items[1].value)
  /\ found' = Append(found, Left(rs_columns[col_idx + 1].type, items[1].value))
  /\ Drop(1) /\ col_idx' = col_idx + 1 /\ rs_ret' = "success"
ValueFails ==
  MayBeValue /\ Value(<<"value">>) /\ cells' = cells /\ found' = found /\ col_idx' = col_idx
InColumn ==
  /\ col_idx < Len(rs_columns)
  /\ nullable_col_idx' = nullable_col_idx + (IF rs_columns[col_idx + 1].nullable THEN 1 ELSE 0)
  /\ NullRead \/ ValueRead \/ ValueFails

LEMMA NextColKeepsPlace ==
  ASSUME RecordsetInv, next_col_val
  PROVE  RecordsetInv'
<1>1. /\ rstate = "F" /\ rstate' = "F" /\ sent' = sent /\ row' = row /\ aligned' = aligned
      /\ rs_columns' = rs_columns /\ nulls_sz' = nulls_sz /\ row_nulls' = row_nulls
      /\ skipped' = (skipped \/ rs_ret # "success")
      /\ (NoMoreColumns \/ InColumn)
  BY DEF next_col_val, InColumn, NullRead, ValueRead, ValueFails
<1>2. sent \in Recordsets
  BY DEF RecordsetInv
<1>3. ASSUME Fits(sent'), ~ skipped'
      PROVE  InPlace'
  <2>1. InPlace /\ Fits(sent) /\ rs_ret = "success"
    BY <1>1, <1>3 DEF RecordsetInv
  <2>2. /\ items \in Seq(AnyItem) /\ Described(sent, rs_columns, nulls_sz)
        /\ CellsOf(sent, row, cells) /\ FoundOf(sent, aligned, cells, found)
        /\ col_idx = Len(cells) /\ cells \in Seq(RowValues)
        /\ InRow(sent, row, col_idx, nullable_col_idx, row_nulls, items)
    BY <1>1, <2>1 DEF InPlace, Fetched, CellsOf
  <2>3. rs_columns = sent.cols /\ Described(sent, rs_columns, nulls_sz)' /\ NullBit = 1
    BY <1>1, <2>1, <2>2 DEF Described, Fits
  <2>4. CASE NoMoreColumns
    <3>1. items' = items /\ rs_ret' = "error" /\ cells' = cells /\ found' = found
      BY <2>4 DEF NoMoreColumns
    <3> QED BY <1>1, <2>2, <2>3, <3>1 DEF InPlace
  <2>5. ASSUME InColumn
        PROVE  /\ col_idx < Len(sent.cols) /\ col_idx \in Nat /\ Len(sent.cols) \in Nat
               /\ nullable_col_idx' = nullable_col_idx + (IF sent.cols[col_idx + 1].nullable THEN 1 ELSE 0)
               /\ sent.cols[col_idx + 1].type # "fixed"
    <3>1. /\ col_idx < Len(sent.cols)
          /\ nullable_col_idx' = nullable_col_idx + (IF sent.cols[col_idx + 1].nullable THEN 1 ELSE 0)
      BY <2>3, <2>5 DEF InColumn
    <3>2. col_idx \in Nat /\ DOMAIN sent.cols = 1 .. Len(sent.cols) /\ Len(sent.cols) \in Nat
      BY <1>2, <2>2, RecordsetFacts, LenProperties DEF InRow
    <3>3. col_idx + 1 \in DOMAIN sent.cols
      BY <3>1, <3>2
    <3> QED BY <2>1, <3>1, <3>2, <3>3 DEF Fits
  <2>6. CASE InColumn /\ NullRead
    <3>1. /\ sent.cols[col_idx + 1].nullable
          /\ (nullable_col_idx \div BITS < Len(row_nulls) =>
                row_nulls[nullable_col_idx \div BITS + 1][nullable_col_idx % BITS] = 1)
      BY <2>3, <2>6 DEF NullRead, MayBeNull, Bit, MaskBit
    <3>2. /\ InRow(sent, row, col_idx + 1, nullable_col_idx + 1, row_nulls, items)
          /\ sent.rows[row][col_idx + 1] = NullValue /\ NullValue \in RowValues
      BY <1>2, <2>2, <2>3, <2>5, <2>6, <3>1, NullKeepsRow
    <3>3. /\ CellsOf(sent, row, Append(cells, NullValue))
          /\ Len(Append(cells, NullValue)) = col_idx + 1
      BY <2>2, <3>2, OneMore
    <3>f. FoundOf(sent, aligned, Append(cells, NullValue), Append(found, NullValue))
      BY <2>2, <3>2, OneMoreFound DEF Told
    <3>4. /\ cells' = Append(cells, NullValue) /\ found' = Append(found, NullValue)
          /\ col_idx' = col_idx + 1 /\ rs_ret' = "success"
          /\ items' = items /\ nullable_col_idx' = nullable_col_idx + 1
      BY <2>5, <2>6, <3>1 DEF NullRead
    <3>5. InRow(sent, row, col_idx, nullable_col_idx, row_nulls, items)'
      BY <1>1, <3>2, <3>4
    <3>6. /\ CellsOf(sent, row, cells)' /\ col_idx' = Len(cells')
          /\ FoundOf(sent, aligned, cells, found)'
      BY <1>1, <3>3, <3>f, <3>4
    <3> QED BY <1>1, <2>2, <2>3, <3>4, <3>5, <3>6 DEF InPlace, Fetched
  <2>7. ASSUME InColumn, MayBeValue
        PROVE  /\ sent.rows[row][col_idx + 1] \in RowValues
               /\ Starts(items, <<Item("value", sent.rows[row][col_idx + 1])>>
                        \o (ValuesBehind(sent.rows[row], col_idx + 1) \o RowsBehind(sent, row)))
    <3>1. sent.cols[col_idx + 1].nullable =>
            (nullable_col_idx \div BITS < Len(row_nulls) =>
               row_nulls[nullable_col_idx \div BITS + 1][nullable_col_idx % BITS] = 0)
      BY <2>3, <2>7 DEF MayBeValue, Bit, MaskBit
    <3> QED BY <1>2, <2>2, <2>3, <2>5, <2>7, <3>1, ValueComes
  <2>8. ASSUME InColumn
        PROVE  ValuesBehind(sent.rows[row], col_idx + 1) \o RowsBehind(sent, row) \in Seq(AnyItem)
    <3>1. row \in 1 .. Len(sent.rows) /\ Len(sent.rows) \in Nat
      BY <1>2, <2>2, RowsAreItems DEF InRow
    <3>2. row \in 0 .. Len(sent.rows) /\ IsRow(sent.cols, sent.rows[row])
      BY <1>2, <3>1, RecordsetFacts
    <3>3. sent.rows[row] \in Seq(RowValues) /\ col_idx + 1 \in 0 .. Len(sent.rows[row])
      BY <2>5, <2>8, <3>2 DEF IsRow
    <3> QED BY <1>2, <3>2, <3>3, RestOfRow
  <2>9. CASE InColumn /\ ValueRead
    <3>1. PICK v, h, rest, n, t :
            /\ v = sent.rows[row][col_idx + 1] /\ h = <<Item("value", v)>>
            /\ rest = ValuesBehind(sent.rows[row], col_idx + 1) \o RowsBehind(sent, row)
            /\ n = 1 /\ t = SubSeq(items, n + 1, Len(items))
      OBVIOUS
    <3>2. v \in RowValues /\ Starts(items, h \o rest)
      BY <2>7, <2>9, <3>1 DEF ValueRead
    <3>3. h \in Seq(AnyItem) /\ rest \in Seq(AnyItem) /\ n = Len(h) /\ h[1] = Item("value", v)
      BY <2>8, <2>9, <3>1, <3>2, ValueItemsAre
    <3>4. n <= Len(items)
      BY <2>9, <3>1, ValueKinds DEF ValueRead, Reads
    <3>5. t \in Seq(AnyItem) /\ Starts(t, rest) /\ Agree(items, h, n)
      <4>1. /\ items \in Seq(AnyItem) /\ h \in Seq(AnyItem) /\ rest \in Seq(AnyItem)
            /\ Starts(items, h \o rest) /\ n = Len(h) /\ n <= Len(items)
            /\ t = SubSeq(items, n + 1, Len(items))
        BY <2>2, <3>1, <3>2, <3>3, <3>4
      <4> QED BY <4>1, HeadTaken, ZenonT(60)
    <3>6. items[1].value = v
      <4>1. 1 \in 1 .. n
        BY <3>1
      <4>2. items[1] = Item("value", v)
        BY <3>3, <3>5, <4>1 DEF Agree
      <4> QED BY <4>2, ItemFields
    <3>7. CellsOf(sent, row, Append(cells, v)) /\ Len(Append(cells, v)) = col_idx + 1
      BY <2>2, <3>1, <3>2, OneMore
    <3>f. PICK w : w = Left(sent.cols[col_idx + 1].type, v)
      OBVIOUS
    <3>g. FoundOf(sent, aligned, Append(cells, v), Append(found, w))
      <4>1. w \in RowValues \cup {NullValue, Lost} /\ Told(sent, aligned, Len(cells) + 1, v, w)
        BY <2>2, <3>2, <3>f, LeftIsTold
      <4> QED BY <2>2, <3>2, <4>1, OneMoreFound
    <3>h. found' = Append(found, w)
      BY <2>3, <2>9, <3>6, <3>f DEF ValueRead
    <3>8. /\ cells' = Append(cells, v) /\ col_idx' = col_idx + 1 /\ rs_ret' = "success"
          /\ items' = t
      BY <2>9, <3>1, <3>6 DEF ValueRead, Drop
    <3>9. nullable_col_idx' = NullableBefore(sent.cols, (col_idx + 1) + 1)
      <4>1. nullable_col_idx = NullableBefore(sent.cols, col_idx + 1)
        BY <2>2 DEF InRow
      <4>2. col_idx + 1 \in Nat /\ col_idx + 1 >= 1
        BY <2>5, <2>9
      <4>3. nullable_col_idx \in Nat
        BY <4>1, <4>2, NullableCounts
      <4> QED BY <2>5, <2>9, <4>1, <4>2, <4>3, NullableNext, SMTT(60)
    <3>10. InRow(sent, row, col_idx + 1, nullable_col_idx', row_nulls, t)
      <4>1. col_idx + 1 \in 0 .. Len(sent.cols)
        BY <2>5, <2>9
      <4> QED BY <2>2, <3>1, <3>5, <3>9, <4>1 DEF InRow
    <3>11. InRow(sent, row, col_idx, nullable_col_idx, row_nulls, items)'
      BY <1>1, <3>8, <3>10
    <3>12. /\ CellsOf(sent, row, cells)' /\ col_idx' = Len(cells')
           /\ FoundOf(sent, aligned, cells, found)'
      BY <1>1, <3>7, <3>g, <3>h, <3>8
    <3> QED BY <1>1, <2>3, <3>5, <3>8, <3>11, <3>12 DEF InPlace, Fetched
  <2>10. CASE InColumn /\ ValueFails
    <3>1. PICK v, h, rest :
            /\ v = sent.rows[row][col_idx + 1] /\ h = <<Item("value", v)>>
            /\ rest = ValuesBehind(sent.rows[row], col_idx + 1) \o RowsBehind(sent, row)
      OBVIOUS
    <3>2. v \in RowValues /\ Starts(items, h \o rest)
      BY <2>7, <2>10, <3>1 DEF ValueFails
    <3>3. h \in Seq(AnyItem) /\ rest \in Seq(AnyItem) /\ IsKinds(<<"value">>, h)
      BY <2>8, <2>10, <3>1, <3>2, ValueItemsAre, ValueKinds
    <3>4. ~ Astray(<<"value">>)
      BY <2>2, <3>2, <3>3, NotAstray
    <3>5. cells' = cells /\ found' = found
      BY <2>10 DEF ValueFails
    <3>6. CASE Broken(<<"value">>)
      <4>1. items' = <<>> /\ rs_ret' = "error" /\ <<>> \in Seq(AnyItem)
        BY <3>6, EmptySeq DEF Broken
      <4> QED BY <1>1, <2>2, <2>3, <3>5, <4>1 DEF InPlace
    <3>7. CASE rs_ret' = "crash" /\ items' = items
      BY <1>1, <2>2, <2>3, <3>5, <3>7 DEF InPlace
    <3> QED BY <2>3, <2>5, <2>10, <3>4, <3>6, <3>7 DEF ValueFails, Value
  <2> QED BY <1>1, <2>4, <2>6, <2>9, <2>10 DEF InColumn
<1> QED BY <1>1, <1>2, <1>3 DEF RecordsetInv

LEMMA CloseKeepsPlace ==
  ASSUME RecordsetInv, close_recordset
  PROVE  RecordsetInv'
<1>1. /\ sent' = sent /\ items' = items /\ rs_columns' = rs_columns /\ nulls_sz' = nulls_sz
      /\ row' = row /\ cells' = cells /\ skipped' = skipped /\ rstate \in {"R", "F"}
      /\ found' = found /\ aligned' = aligned
      /\ \/ rstate' = "A" /\ rs_ret' = "success"
         \/ rs_ret' = "error" /\ rstate' = rstate
  BY DEF close_recordset
<1> QED BY <1>1 DEF RecordsetInv, InPlace, Described, BeforeRows

LEMMA StaysInPlace ==
  ASSUME RecordsetInv, [RecordsetNext]_recordsetVars
  PROVE  RecordsetInv'
<1>1. CASE RecordsetNext
  BY <1>1, BeginKeepsPlace, FetchKeepsPlace, NextColKeepsPlace, CloseKeepsPlace DEF RecordsetNext
<1>2. CASE UNCHANGED recordsetVars
  <2>1. /\ sent' = sent /\ items' = items /\ rstate' = rstate /\ rs_columns' = rs_columns
        /\ nulls_sz' = nulls_sz /\ row_nulls' = row_nulls /\ col_idx' = col_idx
        /\ nullable_col_idx' = nullable_col_idx /\ row' = row /\ cells' = cells
        /\ skipped' = skipped /\ rs_ret' = rs_ret /\ found' = found /\ aligned' = aligned
    BY <1>2 DEF recordsetVars
  <2> QED BY <2>1 DEF RecordsetInv, InPlace, Undescribed, Described, BeforeRows, Fetched
<1> QED BY <1>1, <1>2

LEMMA BeginsInPlace ==
  ASSUME RecordsetInit
  PROVE  RecordsetInv
<1>1. sent \in Recordsets /\ rstate = "E" /\ row = 0 /\ cells = <<>> /\ rs_ret = "none"
      /\ found = <<>>
  BY DEF RecordsetInit
<1>2. PICK whole : whole = RecordsetItems(sent)
  OBVIOUS
<1>3. whole \in Seq(AnyItem)
  BY <1>1, <1>2, RecordsetIsItems
<1>4. PICK n \in 0 .. Len(whole) : items = SubSeq(whole, 1, n)
  BY <1>2 DEF RecordsetInit
<1>5. items \in Seq(AnyItem) /\ Starts(items, whole)
  BY <1>3, <1>4, PartStarts
<1>6. CellsOf(sent, row, cells) /\ FoundOf(sent, aligned, cells, found)
  BY <1>1, NothingRead, NothingFound
<1> QED BY <1>1, <1>2, <1>5, <1>6 DEF RecordsetInv, InPlace, Undescribed

(* For a caller that reads every row to its end each value of each column  *)
(* of each row is taken from the stream and no other, for every recordset, *)
(* every width of a byte of the mask, and a stream cut off anywhere; it    *)
(* finds a text where its buffer is at a multiple of 256, and a time with  *)
(* a zone where that is no mark of a null (dbclient.c:556-753,             *)
(* dbclient.h:58-78).                                                      *)
THEOREM ValuesArriveInPlace == RecordsetSpec => []ValuesInPlace
<1>1. RecordsetInv => ValuesInPlace
  <2> SUFFICES ASSUME RecordsetInv, Fits(sent), ~skipped
               PROVE  /\ CellsTrue /\ FoundTrue
                      /\ rs_ret = "no_more_rows" => row = Len(sent.rows)
                      /\ rs_ret # "astray"
    BY DEF Fits, ValuesInPlace
  <2>1. InPlace
    BY DEF RecordsetInv
  <2>2. CellsTrue
    BY <2>1 DEF InPlace, CellsOf, CellsTrue
  <2>3. FoundTrue
    <3> SUFFICES ASSUME NEW c \in DOMAIN cells, Survives(c) PROVE found[c] = sent.rows[row][c]
      BY DEF FoundTrue
    <3>1. Told(sent, aligned, c, cells[c], found[c])
      BY <2>1 DEF InPlace, FoundOf
    <3>2. found[c] = cells[c]
      BY <3>1 DEF Told, Survives
    <3> QED BY <2>2, <3>2 DEF CellsTrue
  <2> QED BY <2>1, <2>2, <2>3 DEF InPlace
<1> QED BY <1>1, BeginsInPlace, StaysInPlace, PTL DEF RecordsetSpec
=============================================================================
