-------------------------- MODULE TextStringProofs --------------------------
(***************************************************************************)
(* The send buffer never overflows while a text is written into it, and    *)
(* the text arrives at the client as it was given, for every size of the   *)
(* buffer that the assertion of send_str_begin admits, every length of the *)
(* chunks, and every sequence of calls and of characters.                  *)
(***************************************************************************)
EXTENDS TextString, SequenceTheorems, TLAPS

(* A part of a sequence, which may be empty, is one.                       *)
LEMMA PartIsSequence ==
  ASSUME NEW S, NEW s \in Seq(S),
         NEW a \in 1 .. Len(s) + 1, NEW b \in a - 1 .. Len(s)
  PROVE  SubSeq(s, a, b) \in Seq(S) /\ Len(SubSeq(s, a, b)) = b - a + 1
<1>1. Len(s) \in Nat
  OBVIOUS
<1>2. a \in Int /\ b \in Int
  BY <1>1
<1>3. \A i \in a .. b : s[i] \in S
  BY <1>1, ElementOfSeq
<1>4. /\ SubSeq(s, a, b) \in Seq(S)
      /\ Len(SubSeq(s, a, b)) = IF a <= b THEN b - a + 1 ELSE 0
  BY <1>2, <1>3, SubSeqProperties
<1>5. a <= b \/ b - a + 1 = 0
  BY <1>1, <1>2
<1> QED BY <1>4, <1>5

(* A function on 1 .. n is a sequence of length n.                         *)
LEMMA FunctionIsSequence ==
  ASSUME NEW S, NEW n \in Nat, NEW c \in [1 .. n -> S]
  PROVE  c \in Seq(S) /\ Len(c) = n
  OBVIOUS

(* The buffer starts empty, and no string is open.                         *)
LEMMA InitHasRoom == TextInit => ChunkHasRoom
<1> SUFFICES ASSUME TextInit PROVE ChunkHasRoom
  OBVIOUS
<1>1. sbuf \in Seq(Int) /\ texts \in Seq(Nat)
  BY DEF TextInit
<1>2. pc # "open"
  BY DEF TextInit
<1> QED BY <1>1, <1>2 DEF ChunkHasRoom

(* A string begins with its first chunk early in the buffer.               *)
LEMMA BeginHasRoom == ChunkHasRoom /\ send_str_begin => ChunkHasRoom'
<1> SUFFICES ASSUME ChunkHasRoom, send_str_begin PROVE ChunkHasRoom'
  OBVIOUS
<1> DEFINE typed == Put(sbuf, Magic)
           base  == IF Crowded(typed) THEN <<>> ELSE typed
<1> USE TextAssumption DEF TextAssumption
<1>1. typed \in Seq(Int)
  <2>1. Magic \in Int
    BY DEF Magic
  <2>2. <<Magic>> \in Seq(Int) /\ Append(sbuf, Magic) \in Seq(Int)
    BY <2>1, AppendProperties DEF ChunkHasRoom
  <2> QED BY <2>2 DEF Put
<1>2. base \in Seq(Int) /\ Len(base) \in 0 .. SendSize - (ChunkMax + 3) - MaxChar
  <2>1. CASE Crowded(typed)
    <3>1. base = <<>>
      BY <2>1
    <3>2. <<>> \in Seq(Int) /\ Len(<<>>) = 0
      OBVIOUS
    <3> HIDE DEF base
    <3> QED BY <3>1, <3>2
  <2>2. CASE ~ Crowded(typed)
    <3>1. base = typed
      BY <2>2
    <3>2. Len(typed) \in 0 .. SendSize - (ChunkMax + 3) - MaxChar
      <4> HIDE DEF typed
      <4> QED BY <1>1, <2>2 DEF Crowded
    <3> HIDE DEF base, typed
    <3> QED BY <1>1, <3>1, <3>2
  <2> QED BY <2>1, <2>2
<1>3. /\ sbuf' = Append(base, Unset)
      /\ lastLen' = Len(sbuf')
      /\ chunkLen' = 0
      /\ texts' = Append(texts, 0)
  BY DEF send_str_begin
<1> HIDE DEF base
<1>4. sbuf' \in Seq(Int) /\ Len(sbuf') = Len(base) + 1
  BY <1>2, <1>3, AppendProperties DEF Unset
<1>5. texts' \in Seq(Nat) /\ texts' # <<>>
  <2>1. texts \in Seq(Nat) /\ 0 \in Nat
    BY DEF ChunkHasRoom
  <2>2. Append(texts, 0) \in Seq(Nat) /\ Append(texts, 0) # <<>>
    BY <2>1, AppendProperties, SMTT(60)
  <2> QED BY <1>3, <2>2
<1>6. lastLen' \in 1 .. SendSize - (ChunkMax + 2) - MaxChar
  BY <1>2, <1>3, <1>4
<1> QED BY <1>3, <1>4, <1>5, <1>6 DEF ChunkHasRoom

(* So does every further chunk, in the buffer or, once the chunks before   *)
(* it are written out, at its start.                                       *)
LEMMA CharHasRoom ==
  ASSUME NEW n \in 1 .. MaxChar, ChunkHasRoom, send_str(n)
  PROVE  ChunkHasRoom'
<1> DEFINE k == Len(texts)
           t == texts[k]
           chars == [i \in 1 .. n |-> ByteAt(k, t + i)]
           filled == sbuf \o chars
           over == chunkLen + n - ChunkMax
           slot == Len(filled) - over + 1
           full == [SubSeq(filled, 1, slot - 1) EXCEPT ![lastLen] = ChunkMax]
           next == <<Unset>> \o Shifted(SubSeq(filled, slot, Len(filled)))
<1>0. /\ SendSize \in Nat /\ ChunkMax \in Nat /\ MaxChar \in Nat \ {0}
      /\ ChunkMax > MaxChar /\ SendSize > 2 * (ChunkMax + 1)
  BY TextAssumption DEF TextAssumption
<1>1. /\ pc = "open" /\ pc' = "open"
      /\ texts' = [texts EXCEPT ![k] = @ + n]
      /\ \/ over < 0 /\ sbuf' = filled /\ chunkLen' = chunkLen + n /\ lastLen' = lastLen
         \/ over >= 0 /\ chunkLen' = over /\ NoRoom(Len(filled) + 1)
              /\ sbuf' = next /\ lastLen' = 1
         \/ over >= 0 /\ chunkLen' = over /\ ~ NoRoom(Len(filled) + 1)
              /\ sbuf' = full \o next /\ lastLen' = slot
  BY DEF send_str
<1>2. /\ sbuf \in Seq(Int) /\ texts \in Seq(Nat) /\ texts # <<>>
      /\ lastLen \in 1 .. SendSize - (ChunkMax + 2) - MaxChar
      /\ chunkLen \in 0 .. ChunkMax - 1
      /\ Len(sbuf) = lastLen + chunkLen
  BY <1>1 DEF ChunkHasRoom
<1>3. n \in Nat /\ k \in Nat /\ k \in 1 .. Len(texts) /\ t \in Nat
  <2>1. n \in Nat
    BY <1>0
  <2>2. k \in Nat /\ k \in 1 .. Len(texts)
    BY <1>2, LenProperties, EmptySeq
  <2> HIDE DEF k
  <2> QED BY <1>2, <2>1, <2>2, ElementOfSeq
<1>4. texts' \in Seq(Nat) /\ texts' # <<>>
  <2>1. texts' \in Seq(Nat) /\ Len(texts') = Len(texts)
    <3>1. texts[k] + n \in Nat
      BY <1>3
    <3>2. texts' = [texts EXCEPT ![k] = texts[k] + n]
      BY <1>1
    <3> HIDE DEF k
    <3> QED BY <1>2, <1>3, <3>1, <3>2, ExceptSeq
  <2> QED BY <2>1, <1>3
<1>5. chars \in Seq(Int) /\ Len(chars) = n
  <2>1. \A i \in 1 .. n : ByteAt(k, t + i) \in Int
    <3> HIDE DEF k, t
    <3>1. (MaxText + 1) * k \in Int
      BY <1>3, TextAssumption DEF TextAssumption
    <3> QED BY <1>3, <3>1 DEF ByteAt, Other
  <2>2. chars \in [1 .. n -> Int]
    <3> HIDE DEF k, t
    <3> QED BY <2>1
  <2> HIDE DEF chars
  <2> QED BY <1>3, <2>2, FunctionIsSequence
<1> HIDE DEF chars, t, k
<1>6. filled \in Seq(Int) /\ Len(filled) = lastLen + chunkLen + n
  <2>1. filled \in Seq(Int) /\ Len(filled) = Len(sbuf) + Len(chars)
    BY <1>2, <1>5, ConcatProperties
  <2> QED BY <1>2, <1>3, <1>5, <2>1
<1>9. over \in Int
  BY <1>0, <1>2, <1>3
<1> HIDE DEF filled, over, slot, full, next
<1>7. CASE over < 0
  <2>1. sbuf' = filled /\ chunkLen' = chunkLen + n /\ lastLen' = lastLen
    BY <1>1, <1>7, <1>9
  <2>2. chunkLen' \in 0 .. ChunkMax - 1
    BY <1>0, <1>2, <1>3, <1>7, <2>1 DEF over
  <2> QED BY <1>2, <1>4, <1>6, <2>1, <2>2 DEF ChunkHasRoom
<1>8. CASE over >= 0
  <2>1. over \in 0 .. MaxChar - 1 /\ slot = lastLen + ChunkMax + 1
       /\ Len(filled) = slot - 1 + over
    BY <1>0, <1>2, <1>3, <1>6, <1>8 DEF over, slot
  <2>2. next \in Seq(Int) /\ Len(next) = over + 1
    <3>1. /\ SubSeq(filled, slot, Len(filled)) \in Seq(Int)
          /\ Len(SubSeq(filled, slot, Len(filled))) = over
      <4>1. /\ slot \in 1 .. Len(filled) + 1
            /\ Len(filled) \in slot - 1 .. Len(filled)
            /\ Len(filled) - slot + 1 = over
        BY <1>0, <1>2, <2>1
      <4> QED BY <1>6, <4>1, PartIsSequence
    <3>2. <<Unset>> \in Seq(Int) /\ Len(<<Unset>>) = 1
      BY DEF Unset
    <3>3. next = <<Unset>> \o SubSeq(filled, slot, Len(filled))
      BY DEF Shifted, next
    <3>4. next \in Seq(Int) /\ Len(next) = 1 + over
      BY <3>1, <3>2, <3>3, ConcatProperties
    <3> QED BY <1>0, <2>1, <3>4
  <2>3. full \in Seq(Int) /\ Len(full) = slot - 1
    <3>1. /\ SubSeq(filled, 1, slot - 1) \in Seq(Int)
          /\ Len(SubSeq(filled, 1, slot - 1)) = slot - 1
      <4>1. /\ 1 \in 1 .. Len(filled) + 1
            /\ slot - 1 \in 1 - 1 .. Len(filled)
            /\ slot - 1 - 1 + 1 = slot - 1
        BY <1>0, <1>2, <2>1
      <4> QED BY <1>6, <4>1, PartIsSequence
    <3>2. lastLen \in 1 .. slot - 1 /\ ChunkMax \in Int
      BY <1>0, <1>2, <2>1
    <3> QED BY <3>1, <3>2, ExceptSeq DEF full
  <2>4. chunkLen' = over /\ chunkLen' \in 0 .. ChunkMax - 1
    BY <1>0, <1>1, <1>8, <1>9, <2>1
  <2>5. CASE NoRoom(Len(filled) + 1)
    <3>1. sbuf' = next /\ lastLen' = 1
      BY <1>1, <1>8, <1>9, <2>5
    <3>2. 1 \in 1 .. SendSize - (ChunkMax + 2) - MaxChar
      BY <1>0
    <3> QED BY <1>4, <2>1, <2>2, <2>4, <3>1, <3>2 DEF ChunkHasRoom
  <2>6. CASE ~ NoRoom(Len(filled) + 1)
    <3>1. sbuf' = full \o next /\ lastLen' = slot
      BY <1>1, <1>8, <1>9, <2>6
    <3>2. sbuf' \in Seq(Int) /\ Len(sbuf') = slot + over
      <4>1. /\ full \o next \in Seq(Int)
            /\ Len(full \o next) = Len(full) + Len(next)
        BY <2>2, <2>3, ConcatProperties
      <4>2. slot \in Int /\ over \in Int
        BY <1>0, <1>2, <2>1
      <4> QED BY <2>2, <2>3, <3>1, <4>1, <4>2
    <3>3. slot \in 1 .. SendSize - (ChunkMax + 2) - MaxChar
      BY <1>0, <1>2, <2>1, <2>6 DEF NoRoom
    <3> QED BY <1>4, <2>4, <3>1, <3>2, <3>3 DEF ChunkHasRoom
  <2> QED BY <2>5, <2>6
<1> QED BY <1>2, <1>6, <1>7, <1>8, <1>9

(* Every step of the server and of the client keeps the room.              *)
LEMMA StepHasRoom == ChunkHasRoom /\ [TextNext]_textVars => ChunkHasRoom'
<1> SUFFICES ASSUME ChunkHasRoom, [TextNext]_textVars PROVE ChunkHasRoom'
  OBVIOUS
<1>1. ASSUME NEW n \in OtherSizes, SendOther(n) PROVE ChunkHasRoom'
  <2>1. n \in Nat
    BY TextAssumption DEF TextAssumption
  <2> DEFINE m == [i \in 1 .. n |-> Other]
  <2>2. m \in [1 .. n -> Int]
    BY DEF Other
  <2>3. sbuf' = sbuf \o m /\ pc' = "idle" /\ texts' = texts
    BY <1>1 DEF SendOther
  <2> HIDE DEF m
  <2>4. m \in Seq(Int)
    BY <2>1, <2>2, FunctionIsSequence
  <2> QED BY <2>3, <2>4, ConcatProperties DEF ChunkHasRoom
<1>2. CASE send_str_begin
  BY <1>2, BeginHasRoom
<1>3. ASSUME NEW n \in 1 .. MaxChar, send_str(n) PROVE ChunkHasRoom'
  BY <1>3, CharHasRoom
<1>4. CASE send_str_refused
  BY <1>4 DEF ChunkHasRoom, send_str_refused
<1>5. CASE ServerFails
  BY <1>5 DEF ChunkHasRoom, ServerFails
<1>6. CASE send_str_end
  <2>1. sbuf' = <<>> /\ pc' = "idle" /\ texts' = texts
    BY <1>6 DEF send_str_end
  <2> QED BY <2>1 DEF ChunkHasRoom
<1>7. CASE Client
  <2>1. UNCHANGED serverVars
    BY <1>7 DEF Client, Gets, ReadOther, read_str_begin, ReadFirstLen, read_str,
                ReadChunk, ReadChunkLen, ReadFails, read_str_end
  <2> QED BY <2>1 DEF ChunkHasRoom, serverVars
<1>8. CASE UNCHANGED textVars
  BY <1>8 DEF ChunkHasRoom, textVars, serverVars
<1> QED BY <1>1, <1>2, <1>3, <1>4, <1>5, <1>6, <1>7, <1>8 DEF TextNext, Server

(* An open chunk always began early enough in the buffer.                  *)
LEMMA AlwaysRoom == TextSpec => []ChunkHasRoom
  BY InitHasRoom, StepHasRoom, PTL DEF TextSpec

(* Whatever text is sent, a character of the greatest length and the       *)
(* length of a further chunk fit behind what the buffer holds: send_str    *)
(* never writes past its end (pproto_server.c:259-264, 308-345).           *)
THEOREM BufferNeverOverflows == TextSpec => []NextCharFits
<1>1. ChunkHasRoom => NextCharFits
  BY TextAssumption DEF TextAssumption, ChunkHasRoom, NextCharFits
<1> QED BY <1>1, AlwaysRoom, PTL

(* The one action that refuses finds room when the chunk is empty.         *)
LEMMA StepRefusesInside ==
  ChunkHasRoom /\ RefusedInsideChunk /\ [TextNext]_textVars => RefusedInsideChunk'
<1> SUFFICES ASSUME ChunkHasRoom, RefusedInsideChunk, [TextNext]_textVars, pc' = "refused"
             PROVE  chunkLen' > 0
  BY DEF RefusedInsideChunk
<1>1. CASE send_str_refused
  <2>1. chunkLen' = chunkLen /\ pc = "open" /\ NoRoom(Len(sbuf))
    BY <1>1 DEF send_str_refused
  <2> QED BY <2>1, TextAssumption DEF TextAssumption, ChunkHasRoom, NoRoom
<1>2. CASE Client
  <2>1. UNCHANGED serverVars
    BY <1>2 DEF Client, Gets, ReadOther, read_str_begin, ReadFirstLen, read_str,
                ReadChunk, ReadChunkLen, ReadFails, read_str_end
  <2> QED BY <2>1 DEF RefusedInsideChunk, serverVars
<1>3. CASE UNCHANGED textVars
  BY <1>3 DEF RefusedInsideChunk, textVars, serverVars
<1>4. ~ (send_str_begin \/ ServerFails \/ send_str_end)
  BY DEF send_str_begin, ServerFails, send_str_end
<1>5. \A n \in OtherSizes : ~ SendOther(n)
  BY DEF SendOther
<1>6. \A n \in 1 .. MaxChar : ~ send_str(n)
  BY DEF send_str
<1> QED BY <1>1, <1>2, <1>3, <1>4, <1>5, <1>6 DEF TextNext, Server

(* A text given to send_str in one call is never refused for want of room  *)
(* in the buffer; one given in pieces is refused only inside a chunk       *)
(* (pproto_server.c:292-297).                                              *)
THEOREM RefusedOnlyInside == TextSpec => []RefusedInsideChunk
<1>1. TextInit => RefusedInsideChunk
  BY DEF TextInit, RefusedInsideChunk
<1> QED BY <1>1, AlwaysRoom, StepRefusesInside, PTL DEF TextSpec

----------------------------------------------------------------------------
(* The stream between the two ends, read as the client reads it.  A label  *)
(* says where in which string a place of the stream is: between strings, k *)
(* of which were begun; before the length of a chunk, behind p bytes of    *)
(* string k; before the n bytes of that chunk; or inside them.             *)

Between(k) == [mode |-> "between", str |-> k, pos |-> 0, left |-> 0]
Length(k, p) == [mode |-> "length", str |-> k, pos |-> p, left |-> 0]
Chunk(k, p, n) == [mode |-> "chunk", str |-> k, pos |-> p, left |-> n]
Inside == [mode |-> "inside", str |-> 0, pos |-> 0, left |-> 0]

Labels == [mode : {"between", "length", "chunk", "inside"}, str : Nat, pos : Nat, left : Nat]

(* The strings the server has finished, with their sizes.                  *)
Finished ==
  {e \in Nat \X Nat : /\ e[1] \in DOMAIN texts /\ e[2] = texts[e[1]]
                      /\ e[1] = Len(texts) => pc # "open"}

(* What follows a label l at place i of the stream s, with the labels at.  *)
BetweenFollows(s, at, i, l) ==
  \/ s[i] = Other /\ at[i + 1] = l
  \/ s[i] = Magic /\ at[i + 1] = Length(l.str + 1, 0)

LengthFollows(s, at, i, l, F) ==
  /\ s[i] \in 0 .. ChunkMax
  /\ s[i] = 0 => at[i + 1] = Between(l.str) /\ <<l.str, l.pos>> \in F
  /\ s[i] > 0 => at[i + 1] = Chunk(l.str, l.pos, s[i])

ChunkFollows(s, at, i, l) ==
  /\ l.left > 0 /\ i + l.left <= Len(s) + 1
  /\ \A j \in 1 .. l.left : s[i + j - 1] = ByteAt(l.str, l.pos + j)
  /\ at[i + l.left] = Length(l.str, l.pos + l.left)

Follows(s, at, i, l, F) ==
  /\ l.mode = "between" => BetweenFollows(s, at, i, l)
  /\ l.mode = "length" => LengthFollows(s, at, i, l, F)
  /\ l.mode = "chunk" => ChunkFollows(s, at, i, l)

Coded(s, at, F) ==
  /\ s \in Seq(Int)
  /\ at \in [1 .. Len(s) + 1 -> Labels]
  /\ \A i \in 1 .. Len(s) : Follows(s, at, i, at[i], F)

(* Where the client is, with the label of the next byte it reads.          *)
ReaderAt(l) ==
  /\ rpc = "idle" => l = Between(reading)
  /\ rpc = "first_len" => l = Length(reading, 0) /\ got = <<>>
  /\ rpc = "open" => IF nextLen = 0
                     THEN l = Between(reading) /\ <<reading, Len(got)>> \in Finished
                     ELSE l = Chunk(reading, Len(got), nextLen)
  /\ rpc = "chunk" => \E p \in Nat : /\ l = Chunk(reading, p, nextLen) /\ nextLen > 0
                                     /\ ~draining => p = Len(got)
  /\ rpc = "chunk_len" => \E p \in Nat : /\ l = Length(reading, p)
                                         /\ ~draining => p = Len(got)

(* Where the server is, with the label behind what it has closed.          *)
WriterAt(tail, l) ==
  /\ pc = "idle" => tail = sbuf /\ l = Between(Len(texts))
  /\ pc = "open" =>
       \E p \in Nat :
         /\ tail = SubSeq(sbuf, 1, lastLen - 1)
         /\ texts[Len(texts)] = p + chunkLen
         /\ l = Length(Len(texts), p)
         /\ \A j \in 1 .. chunkLen : sbuf[lastLen + j] = ByteAt(Len(texts), p + j)

(* The stream s holds what is on its way and, behind it, the tail the      *)
(* server has closed but not written out; its labels are at, the first of  *)
(* them first and the last of them last.                                   *)
StreamIs(s, tail, at, first, last) ==
  /\ tail \in Seq(Int)
  /\ s = wire \o tail
  /\ Coded(s, at, Finished)
  /\ first = at[1] /\ ReaderAt(first)
  /\ last = at[Len(s) + 1] /\ WriterAt(tail, last)

StreamCoded == \E s, tail, at, first, last : StreamIs(s, tail, at, first, last)

TextInv ==
  /\ ChunkHasRoom
  /\ wire \in Seq(Int) /\ got \in Seq(Int) /\ reading \in Nat /\ nextLen \in Nat
  /\ draining \in BOOLEAN
  /\ draining => rpc \in {"chunk", "chunk_len", "error"}
  /\ \A i \in 1 .. Len(got) : got[i] = ByteAt(reading, i)
  /\ IF rpc = "error" THEN pc \in {"refused", "failed"} ELSE StreamCoded

(* The parts of the labels.                                                *)
LEMMA BetweenParts ==
  ASSUME NEW k \in Nat
  PROVE  Between(k) \in Labels /\ Between(k).mode = "between" /\ Between(k).str = k
  BY DEF Between, Labels

LEMMA LengthParts ==
  ASSUME NEW k \in Nat, NEW p \in Nat
  PROVE  /\ Length(k, p) \in Labels /\ Length(k, p).mode = "length"
         /\ Length(k, p).str = k /\ Length(k, p).pos = p
  BY DEF Length, Labels

LEMMA ChunkParts ==
  ASSUME NEW k \in Nat, NEW p \in Nat, NEW n \in Nat
  PROVE  /\ Chunk(k, p, n) \in Labels /\ Chunk(k, p, n).mode = "chunk"
         /\ Chunk(k, p, n).str = k /\ Chunk(k, p, n).pos = p /\ Chunk(k, p, n).left = n
  BY DEF Chunk, Labels

LEMMA InsideParts == Inside \in Labels /\ Inside.mode = "inside"
  BY DEF Inside, Labels

(* More strings may be finished.                                           *)
LEMMA MoreFinished ==
  ASSUME NEW s, NEW at, NEW F, NEW G, F \subseteq G, Coded(s, at, F)
  PROVE  Coded(s, at, G)
  BY DEF Coded, Follows, LengthFollows

(* What follows a place of the stream is not changed by what comes behind  *)
(* its end.                                                                *)
LEMMA FollowsStill ==
  ASSUME NEW s, NEW at, NEW F, Coded(s, at, F),
         NEW r \in Seq(Int), Len(s) <= Len(r), \A i \in 1 .. Len(s) : r[i] = s[i],
         NEW by, \A i \in 1 .. Len(s) + 1 : by[i] = at[i],
         NEW i \in 1 .. Len(s)
  PROVE  Follows(r, by, i, by[i], F)
<1> DEFINE l == at[i]
<1>1. Len(s) \in Nat /\ Len(r) \in Nat /\ i \in 1 .. Len(s) + 1 /\ i + 1 \in 1 .. Len(s) + 1
  BY DEF Coded
<1>2. l \in Labels /\ by[i] = l /\ r[i] = s[i] /\ by[i + 1] = at[i + 1]
  BY <1>1 DEF Coded
<1>3. Follows(s, at, i, l, F)
  BY DEF Coded
<1>4. l.left \in Nat
  BY <1>2 DEF Labels
<1> HIDE DEF l
<1>5. l.mode = "between" => BetweenFollows(r, by, i, l)
  BY <1>2, <1>3 DEF Follows, BetweenFollows
<1>6. l.mode = "length" => LengthFollows(r, by, i, l, F)
  BY <1>2, <1>3 DEF Follows, LengthFollows
<1>7. l.mode = "chunk" => ChunkFollows(r, by, i, l)
  <2> SUFFICES ASSUME l.mode = "chunk" PROVE ChunkFollows(r, by, i, l)
    OBVIOUS
  <2>1. /\ l.left > 0 /\ i + l.left <= Len(s) + 1
        /\ \A j \in 1 .. l.left : s[i + j - 1] = ByteAt(l.str, l.pos + j)
        /\ at[i + l.left] = Length(l.str, l.pos + l.left)
    BY <1>3 DEF Follows, ChunkFollows
  <2>2. i + l.left \in 1 .. Len(s) + 1
    BY <1>1, <1>4, <2>1
  <2>3. \A j \in 1 .. l.left : i + j - 1 \in 1 .. Len(s)
    BY <1>1, <1>4, <2>1
  <2>4. \A j \in 1 .. l.left : r[i + j - 1] = ByteAt(l.str, l.pos + j)
    BY <2>1, <2>3
  <2>5. i + l.left <= Len(r) + 1
    BY <1>1, <1>4, <2>1
  <2> QED BY <2>1, <2>2, <2>4, <2>5 DEF ChunkFollows
<1> QED BY <1>2, <1>5, <1>6, <1>7 DEF Follows

(* What is put behind the end has to be coded itself.                      *)
LEMMA CodedBehind ==
  ASSUME NEW s, NEW at, NEW F, Coded(s, at, F),
         NEW t \in Seq(Int), NEW by \in [1 .. Len(s) + Len(t) + 1 -> Labels],
         \A i \in 1 .. Len(s) + 1 : by[i] = at[i],
         \A i \in Len(s) + 1 .. Len(s) + Len(t) : Follows(s \o t, by, i, by[i], F)
  PROVE  Coded(s \o t, by, F)
<1>1. s \in Seq(Int) /\ Len(s) \in Nat /\ Len(t) \in Nat
  BY DEF Coded
<1>2. /\ s \o t \in Seq(Int) /\ Len(s \o t) = Len(s) + Len(t)
      /\ \A i \in 1 .. Len(s) : (s \o t)[i] = s[i]
  BY <1>1, ConcatProperties
<1> DEFINE r == s \o t
<1>3. /\ r \in Seq(Int) /\ Len(r) = Len(s) + Len(t)
      /\ \A i \in 1 .. Len(s) : r[i] = s[i]
      /\ \A i \in Len(s) + 1 .. Len(s) + Len(t) : Follows(r, by, i, by[i], F)
  BY <1>2
<1> HIDE DEF r
<1>4. \A i \in 1 .. Len(s) : Follows(r, by, i, by[i], F)
  <2>1. Len(s) <= Len(r)
    BY <1>1, <1>3
  <2> QED BY <1>3, <2>1, FollowsStill
<1>5. \A i \in 1 .. Len(r) : Follows(r, by, i, by[i], F)
  <2> SUFFICES ASSUME NEW i \in 1 .. Len(r) PROVE Follows(r, by, i, by[i], F)
    OBVIOUS
  <2>1. i \in 1 .. Len(s) \/ i \in Len(s) + 1 .. Len(s) + Len(t)
    BY <1>1, <1>3
  <2> QED BY <1>3, <1>4, <2>1
<1>6. Coded(r, by, F)
  BY <1>3, <1>5 DEF Coded
<1> QED BY <1>6 DEF r

(* What is left when n bytes are read.                                     *)
LEMMA RestIsCoded ==
  ASSUME NEW s, NEW at, NEW F, Coded(s, at, F), NEW n \in 0 .. Len(s)
  PROVE  LET r == SubSeq(s, n + 1, Len(s))
             by == [i \in 1 .. Len(s) - n + 1 |-> at[i + n]]
         IN Coded(r, by, F) /\ Len(r) = Len(s) - n
<1> DEFINE r == SubSeq(s, n + 1, Len(s))
           m == Len(s) - n
           by == [i \in 1 .. m + 1 |-> at[i + n]]
<1>1. s \in Seq(Int) /\ Len(s) \in Nat /\ n \in Nat /\ m \in Nat
  BY DEF Coded
<1>2. r \in Seq(Int) /\ Len(r) = m
  <2>1. n + 1 \in 1 .. Len(s) + 1 /\ Len(s) \in (n + 1) - 1 .. Len(s)
    BY <1>1
  <2>2. r \in Seq(Int) /\ Len(r) = Len(s) - (n + 1) + 1
    BY <1>1, <2>1, PartIsSequence
  <2> HIDE DEF r
  <2> QED BY <1>1, <2>2
<1>3. \A i \in 1 .. m : r[i] = s[i + n]
  <2>1. \A i \in n + 1 .. Len(s) : s[i] \in Int
    BY <1>1, ElementOfSeq
  <2>2. \A i \in 1 .. Len(s) - (n + 1) + 1 : r[i] = s[(n + 1) + i - 1]
    BY <1>1, <2>1, SubSeqProperties, SMTT(60)
  <2> HIDE DEF r
  <2> QED BY <1>1, <2>2, SMTT(60)
<1>4. \A i \in 1 .. m + 1 : i + n \in 1 .. Len(s) + 1
  BY <1>1
<1>5. by \in [1 .. m + 1 -> Labels] /\ \A i \in 1 .. m + 1 : by[i] = at[i + n]
  BY <1>4 DEF Coded
<1> HIDE DEF r, by
<1>6. \A i \in 1 .. m : Follows(r, by, i, by[i], F)
  <2> SUFFICES ASSUME NEW i \in 1 .. m PROVE Follows(r, by, i, by[i], F)
    OBVIOUS
  <2> DEFINE k == i + n
             l == at[k]
  <2>1. /\ k \in 1 .. Len(s) /\ i \in 1 .. m + 1 /\ i + 1 \in 1 .. m + 1
        /\ (i + 1) + n = k + 1
    BY <1>1
  <2>2. /\ by[i] = l /\ l \in Labels /\ Follows(s, at, k, l, F)
        /\ r[i] = s[k] /\ by[i + 1] = at[k + 1]
    BY <1>3, <1>5, <2>1, SMTT(60) DEF Coded
  <2>3. l.left \in Nat
    BY <2>2 DEF Labels
  <2> HIDE DEF l
  <2>4. l.mode = "between" => BetweenFollows(r, by, i, l)
    BY <2>2 DEF Follows, BetweenFollows
  <2>5. l.mode = "length" => LengthFollows(r, by, i, l, F)
    BY <2>2 DEF Follows, LengthFollows
  <2>6. l.mode = "chunk" => ChunkFollows(r, by, i, l)
    <3> SUFFICES ASSUME l.mode = "chunk" PROVE ChunkFollows(r, by, i, l)
      OBVIOUS
    <3>1. /\ l.left > 0 /\ k + l.left <= Len(s) + 1
          /\ \A j \in 1 .. l.left : s[k + j - 1] = ByteAt(l.str, l.pos + j)
          /\ at[k + l.left] = Length(l.str, l.pos + l.left)
      BY <2>2 DEF Follows, ChunkFollows
    <3>2. i + l.left \in 1 .. m + 1 /\ (i + l.left) + n = k + l.left
      BY <1>1, <2>3, <3>1
    <3>3. \A j \in 1 .. l.left : i + j - 1 \in 1 .. m /\ (i + j - 1) + n = k + j - 1
      BY <1>1, <2>3, <3>1
    <3>4. \A j \in 1 .. l.left : r[i + j - 1] = ByteAt(l.str, l.pos + j)
      BY <1>3, <3>1, <3>3
    <3>5. by[i + l.left] = Length(l.str, l.pos + l.left)
      BY <1>5, <3>1, <3>2
    <3>6. i + l.left <= Len(r) + 1
      BY <1>1, <1>2, <2>3, <3>2
    <3> QED BY <3>1, <3>4, <3>5, <3>6 DEF ChunkFollows
  <2> QED BY <2>2, <2>4, <2>5, <2>6 DEF Follows
<1>7. Coded(r, by, F)
  BY <1>2, <1>5, <1>6 DEF Coded
<1> QED BY <1>2, <1>7 DEF r, by

(* One part of the stream behind the other.                                *)
LEMMA TwoParts ==
  ASSUME NEW s \in Seq(Int), NEW t \in Seq(Int)
  PROVE  /\ s \o t \in Seq(Int) /\ Len(s \o t) = Len(s) + Len(t)
         /\ \A i \in 1 .. Len(s) : (s \o t)[i] = s[i]
         /\ \A i \in Len(s) + 1 .. Len(s) + Len(t) : (s \o t)[i] = t[i - Len(s)]
  BY ConcatProperties

(* A part t behind the stream s takes its last label to the label l.       *)
Extends(s, at, F, t, l) ==
  \E by \in [1 .. Len(s \o t) + 1 -> Labels] :
    Coded(s \o t, by, F) /\ by[1] = at[1] /\ by[Len(s \o t) + 1] = l

(* A byte of another message, the type of a string, or its last length.    *)
LEMMA OneByteMore ==
  ASSUME NEW s, NEW at, NEW F, Coded(s, at, F), NEW b \in Int, NEW l \in Labels,
         \/ /\ at[Len(s) + 1].mode = "between"
            /\ b = Magic
            /\ l = Length(at[Len(s) + 1].str + 1, 0)
         \/ /\ at[Len(s) + 1].mode = "length"
            /\ b = 0 /\ l = Between(at[Len(s) + 1].str)
            /\ <<at[Len(s) + 1].str, at[Len(s) + 1].pos>> \in F
  PROVE  Extends(s, at, F, <<b>>, l)
<1> DEFINE r == s \o <<b>>
           n == Len(s)
           last == at[n + 1]
           by == [i \in 1 .. n + 2 |-> IF i <= n + 1 THEN at[i] ELSE l]
<1>1. s \in Seq(Int) /\ n \in Nat /\ <<b>> \in Seq(Int) /\ Len(<<b>>) = 1
  BY DEF Coded
<1>2. r \in Seq(Int) /\ Len(r) = n + 1 /\ r[n + 1] = b
  <2>1. r \in Seq(Int) /\ Len(r) = Len(s) + Len(<<b>>)
        /\ \A i \in Len(s) + 1 .. Len(s) + Len(<<b>>) : r[i] = <<b>>[i - Len(s)]
    BY <1>1, ConcatProperties
  <2>2. Len(s) + 1 \in Len(s) + 1 .. Len(s) + Len(<<b>>) /\ (Len(s) + 1) - Len(s) = 1
    BY <1>1
  <2>3. r[Len(s) + 1] = <<b>>[1]
    BY <2>1, <2>2
  <2> QED BY <1>1, <2>1, <2>3
<1>3. \A i \in 1 .. n + 1 : at[i] \in Labels
  BY DEF Coded
<1>4. /\ by \in [1 .. n + 2 -> Labels] /\ by[n + 2] = l /\ by[1] = at[1]
      /\ \A i \in 1 .. n + 1 : by[i] = at[i]
  BY <1>1, <1>3
<1> HIDE DEF r, by
<1>5. Follows(r, by, n + 1, last, F)
  <2>1. (n + 1) + 1 = n + 2
    BY <1>1
  <2>2. CASE last.mode = "between" /\ b = Magic /\ l = Length(last.str + 1, 0)
    <3>1. BetweenFollows(r, by, n + 1, last)
      BY <1>2, <1>4, <2>1, <2>2 DEF BetweenFollows
    <3> QED BY <2>2, <3>1 DEF Follows
  <2>3. CASE /\ last.mode = "length" /\ b = 0 /\ l = Between(last.str)
             /\ <<last.str, last.pos>> \in F
    <3>1. LengthFollows(r, by, n + 1, last, F)
      <4>1. 0 \in 0 .. ChunkMax
        BY TextAssumption DEF TextAssumption
      <4> QED BY <1>2, <1>4, <2>1, <2>3, <4>1 DEF LengthFollows
    <3> QED BY <2>3, <3>1 DEF Follows
  <2> QED BY <2>2, <2>3
<1>6. Coded(r, by, F)
  <2>1. /\ by \in [1 .. Len(s) + Len(<<b>>) + 1 -> Labels]
        /\ \A i \in Len(s) + 1 .. Len(s) + Len(<<b>>) : i = n + 1
    BY <1>1, <1>4
  <2>2. n + 1 \in 1 .. n + 1
    BY <1>1
  <2>3. \A i \in Len(s) + 1 .. Len(s) + Len(<<b>>) : Follows(s \o <<b>>, by, i, by[i], F)
    BY <1>4, <1>5, <2>1, <2>2 DEF r
  <2> QED BY <1>1, <1>4, <2>1, <2>3, CodedBehind DEF r
<1>7. by \in [1 .. Len(r) + 1 -> Labels] /\ by[Len(r) + 1] = l
  BY <1>1, <1>2, <1>4
<1> HIDE DEF r, by
<1> QED BY <1>4, <1>6, <1>7 DEF Extends, r

(* A message between strings.                                              *)
LEMMA OthersMore ==
  ASSUME NEW s, NEW at, NEW F, Coded(s, at, F), at[Len(s) + 1].mode = "between",
         NEW t \in Seq(Int), \A i \in 1 .. Len(t) : t[i] = Other
  PROVE  Extends(s, at, F, t, at[Len(s) + 1])
<1> DEFINE r == s \o t
           n == Len(s)
           m == Len(t)
           last == at[n + 1]
           by == [i \in 1 .. n + m + 1 |-> IF i <= n + 1 THEN at[i] ELSE last]
<1>1. s \in Seq(Int) /\ n \in Nat /\ m \in Nat
  BY DEF Coded
<1>2. r \in Seq(Int) /\ Len(r) = n + m /\ \A i \in n + 1 .. n + m : r[i] = Other
  <2>1. r \in Seq(Int) /\ Len(r) = Len(s) + Len(t)
        /\ \A i \in Len(s) + 1 .. Len(s) + Len(t) : r[i] = t[i - Len(s)]
    BY <1>1, ConcatProperties
  <2>2. \A i \in Len(s) + 1 .. Len(s) + Len(t) : i - Len(s) \in 1 .. Len(t)
    BY <1>1
  <2> HIDE DEF r
  <2> QED BY <2>1, <2>2
<1>3. \A i \in 1 .. n + 1 : at[i] \in Labels
  BY DEF Coded
<1>4. /\ by \in [1 .. n + m + 1 -> Labels]
      /\ by[1] = at[1]
      /\ \A i \in 1 .. n + 1 : by[i] = at[i]
      /\ \A i \in n + 1 .. n + m + 1 : by[i] = last
  BY <1>1, <1>3
<1> HIDE DEF r, by
<1>5. \A i \in n + 1 .. n + m : Follows(r, by, i, by[i], F)
  <2> SUFFICES ASSUME NEW i \in n + 1 .. n + m PROVE Follows(r, by, i, by[i], F)
    OBVIOUS
  <2>1. i \in n + 1 .. n + m + 1 /\ i + 1 \in n + 1 .. n + m + 1
    BY <1>1
  <2>2. r[i] = Other /\ by[i] = last /\ by[i + 1] = last
    BY <1>2, <1>4, <2>1
  <2> QED BY <2>2 DEF Follows, BetweenFollows
<1>6. Coded(r, by, F)
  BY <1>4, <1>5, CodedBehind DEF r
<1>7. by \in [1 .. Len(r) + 1 -> Labels] /\ by[Len(r) + 1] = last
  <2>1. Len(r) + 1 = n + m + 1 /\ n + m + 1 \in n + 1 .. n + m + 1
    BY <1>1, <1>2
  <2> HIDE DEF last
  <2> QED BY <1>4, <2>1
<1> HIDE DEF r, by
<1> QED BY <1>4, <1>6, <1>7 DEF Extends, r

(* A chunk of b bytes with its length.                                     *)
LEMMA ChunkMore ==
  ASSUME NEW s, NEW at, NEW F, Coded(s, at, F), NEW k \in Nat, NEW p \in Nat,
         at[Len(s) + 1] = Length(k, p), NEW b \in 1 .. ChunkMax,
         NEW t \in Seq(Int), Len(t) = b + 1, t[1] = b,
         \A j \in 1 .. b : t[j + 1] = ByteAt(k, p + j)
  PROVE  Extends(s, at, F, t, Length(k, p + b))
<1> DEFINE r == s \o t
           n == Len(s)
           by == [i \in 1 .. n + b + 2 |->
                    IF i <= n + 1 THEN at[i]
                    ELSE IF i = n + 2 THEN Chunk(k, p, b)
                    ELSE IF i = n + b + 2 THEN Length(k, p + b) ELSE Inside]
<1> HIDE DEF by
<1>1. s \in Seq(Int) /\ n \in Nat /\ b \in Nat /\ b >= 1 /\ b <= ChunkMax
  BY TextAssumption DEF Coded, TextAssumption
<1>2. r \in Seq(Int) /\ Len(r) = n + b + 1 /\ r[n + 1] = b
      /\ \A j \in 1 .. b : r[n + 1 + j] = ByteAt(k, p + j)
  <2>1. r \in Seq(Int) /\ Len(r) = Len(s) + Len(t)
        /\ \A i \in Len(s) + 1 .. Len(s) + Len(t) : r[i] = t[i - Len(s)]
    BY <1>1, TwoParts
  <2>2. /\ n + 1 \in Len(s) + 1 .. Len(s) + Len(t) /\ (n + 1) - Len(s) = 1
        /\ \A j \in 1 .. b : /\ n + 1 + j \in Len(s) + 1 .. Len(s) + Len(t)
                             /\ (n + 1 + j) - Len(s) = j + 1
    BY <1>1
  <2> HIDE DEF r
  <2>3. r[n + 1] = t[1]
    BY <2>1, <2>2
  <2>4. \A j \in 1 .. b : r[n + 1 + j] = t[j + 1]
    BY <2>1, <2>2
  <2>5. Len(r) = n + b + 1
    BY <1>1, <2>1
  <2> QED BY <2>1, <2>3, <2>4, <2>5
<1>3. \A i \in 1 .. n + 1 : at[i] \in Labels
  BY DEF Coded
<1>4. /\ by \in [1 .. n + b + 2 -> Labels]
      /\ by[1] = at[1]
      /\ \A i \in 1 .. n + 1 : by[i] = at[i]
      /\ by[n + 1] = Length(k, p) /\ by[n + 2] = Chunk(k, p, b)
      /\ by[n + b + 2] = Length(k, p + b)
      /\ \A i \in n + 3 .. n + b + 1 : by[i] = Inside
  <2>1. /\ Chunk(k, p, b) \in Labels /\ Length(k, p + b) \in Labels /\ Inside \in Labels
    <3>1. p + b \in Nat
      BY <1>1
    <3> QED BY <1>1, <3>1, LengthParts, ChunkParts, InsideParts
  <2>2. by \in [1 .. n + b + 2 -> Labels]
    BY <1>1, <1>3, <2>1 DEF by
  <2>3. by[n + b + 2] = Length(k, p + b) /\ by[n + 2] = Chunk(k, p, b)
    BY <1>1 DEF by
  <2>4. \A i \in 1 .. n + 1 : by[i] = at[i]
    BY <1>1 DEF by
  <2>5. \A i \in n + 3 .. n + b + 1 : by[i] = Inside
    BY <1>1, SMTT(60) DEF by
  <2>6. 1 \in 1 .. n + 1 /\ n + 1 \in 1 .. n + 1
    BY <1>1
  <2> QED BY <2>2, <2>3, <2>4, <2>5, <2>6
<1> HIDE DEF r
<1>5. Follows(r, by, n + 1, by[n + 1], F)
  <2>1. r[n + 1] \in 0 .. ChunkMax /\ r[n + 1] > 0 /\ (n + 1) + 1 = n + 2
    BY <1>1, <1>2
  <2> DEFINE c == Length(k, p)
  <2>2. c.mode = "length" /\ c.str = k /\ c.pos = p
    BY LengthParts
  <2>3. by[n + 1] = c
    BY <1>4
  <2> HIDE DEF c
  <2>4. LengthFollows(r, by, n + 1, c, F)
    BY <1>2, <1>4, <2>1, <2>2 DEF LengthFollows
  <2> QED BY <2>2, <2>3, <2>4 DEF Follows
<1>6. Follows(r, by, n + 2, by[n + 2], F)
  <2> DEFINE c == Chunk(k, p, b)
  <2>1. c.mode = "chunk" /\ c.str = k /\ c.pos = p /\ c.left = b
    <3>1. b \in Nat
      BY <1>1
    <3> QED BY <3>1, ChunkParts, SMTT(60)
  <2> HIDE DEF c
  <2>2. ChunkFollows(r, by, n + 2, c)
    <3>1. b > 0 /\ (n + 2) + b <= Len(r) + 1 /\ (n + 2) + b = n + b + 2
      BY <1>1, <1>2
    <3>2. \A j \in 1 .. b : (n + 2) + j - 1 = n + 1 + j
      BY <1>1
    <3>3. \A j \in 1 .. b : r[(n + 2) + j - 1] = ByteAt(k, p + j)
      BY <1>2, <3>2
    <3> QED BY <1>4, <2>1, <3>1, <3>3 DEF ChunkFollows
  <2> QED BY <1>4, <2>1, <2>2 DEF Follows, c
<1>7. \A i \in n + 3 .. n + b + 1 : Follows(r, by, i, by[i], F)
  BY <1>4, InsideParts DEF Follows
<1>8. \A i \in n + 1 .. n + b + 1 : Follows(r, by, i, by[i], F)
  <2>1. \A i \in n + 1 .. n + b + 1 : i = n + 1 \/ i = n + 2 \/ i \in n + 3 .. n + b + 1
    BY <1>1, SMTT(60)
  <2> QED BY <1>5, <1>6, <1>7, <2>1
<1>9. Coded(r, by, F)
  <2>1. Len(s) + Len(t) = n + b + 1 /\ Len(s) + Len(t) + 1 = n + b + 2
    BY <1>1
  <2>2. /\ by \in [1 .. Len(s) + Len(t) + 1 -> Labels]
        /\ \A i \in Len(s) + 1 .. Len(s) + Len(t) : Follows(s \o t, by, i, by[i], F)
    BY <1>4, <1>8, <2>1 DEF r
  <2> QED BY <1>4, <2>2, CodedBehind DEF r
<1>10. by \in [1 .. Len(r) + 1 -> Labels] /\ by[Len(r) + 1] = Length(k, p + b)
  <2>1. Len(r) + 1 = n + b + 2
    BY <1>1, <1>2
  <2> QED BY <1>4, <2>1
<1> QED BY <1>4, <1>9, <1>10 DEF Extends, r

LEMMA NothingMore ==
  ASSUME NEW s, NEW at, NEW F, Coded(s, at, F)
  PROVE  Extends(s, at, F, <<>>, at[Len(s) + 1])
<1>1. s \o <<>> = s /\ Len(s) \in Nat
  BY ConcatEmptySeq DEF Coded
<1> QED BY <1>1 DEF Extends, Coded

(* Sequences that agree up to m have the same first m elements.            *)
LEMMA SameStart ==
  ASSUME NEW s \in Seq(Int), NEW r \in Seq(Int), NEW m \in Nat, m <= Len(s), m <= Len(r),
         \A i \in 1 .. m : s[i] = r[i]
  PROVE  SubSeq(s, 1, m) = SubSeq(r, 1, m)
<1>1. Len(s) \in Nat /\ Len(r) \in Nat
  OBVIOUS
<1>2. /\ \A i \in 1 .. m : s[i] \in Int
      /\ \A i \in 1 .. m : r[i] \in Int
  BY <1>1, ElementOfSeq
<1>3. /\ SubSeq(s, 1, m) \in Seq(Int) /\ Len(SubSeq(s, 1, m)) = m
      /\ SubSeq(r, 1, m) \in Seq(Int) /\ Len(SubSeq(r, 1, m)) = m
  <2>1. 1 \in 1 .. Len(s) + 1 /\ m \in 1 - 1 .. Len(s) /\ m - 1 + 1 = m
        /\ 1 \in 1 .. Len(r) + 1 /\ m \in 1 - 1 .. Len(r)
    BY <1>1
  <2>2. SubSeq(s, 1, m) \in Seq(Int) /\ Len(SubSeq(s, 1, m)) = m - 1 + 1
    BY <2>1, PartIsSequence
  <2>3. SubSeq(r, 1, m) \in Seq(Int) /\ Len(SubSeq(r, 1, m)) = m - 1 + 1
    BY <2>1, PartIsSequence
  <2> QED BY <2>1, <2>2, <2>3
<1>4. \A i \in 1 .. m - 1 + 1 : SubSeq(s, 1, m)[i] = s[1 + i - 1]
  BY <1>2, SubSeqProperties
<1>5. \A i \in 1 .. m - 1 + 1 : SubSeq(r, 1, m)[i] = r[1 + i - 1]
  BY <1>2, SubSeqProperties
<1>6. \A i \in 1 .. m : SubSeq(s, 1, m)[i] = SubSeq(r, 1, m)[i]
  <2>1. \A i \in 1 .. m : i \in 1 .. m - 1 + 1 /\ 1 + i - 1 = i
    OBVIOUS
  <2> QED BY <1>4, <1>5, <2>1
<1> QED BY <1>3, <1>6, SeqEqual

(* A sequence is its first m elements and the others.                      *)
LEMMA InTwo ==
  ASSUME NEW s \in Seq(Int), NEW m \in 1 .. Len(s)
  PROVE  /\ SubSeq(s, 1, m - 1) \in Seq(Int)
         /\ SubSeq(s, m, Len(s)) \in Seq(Int) /\ Len(SubSeq(s, m, Len(s))) = Len(s) - m + 1
         /\ s = SubSeq(s, 1, m - 1) \o SubSeq(s, m, Len(s))
         /\ \A j \in 1 .. Len(s) - m + 1 : SubSeq(s, m, Len(s))[j] = s[m + j - 1]
<1>1. /\ 1 \in 1 .. Len(s) + 1 /\ m - 1 \in 1 - 1 .. Len(s) /\ Len(s) \in m - 1 .. Len(s)
      /\ (m - 1) + 1 = m /\ m \in 1 .. Len(s) + 1 /\ m \in Int /\ Len(s) \in Int
  OBVIOUS
<1>2. SubSeq(s, 1, m - 1) \in Seq(Int)
  BY <1>1, PartIsSequence
<1>3. SubSeq(s, m, Len(s)) \in Seq(Int) /\ Len(SubSeq(s, m, Len(s))) = Len(s) - m + 1
  BY <1>1, PartIsSequence
<1>4. SubSeq(s, 1, m - 1) \o SubSeq(s, (m - 1) + 1, Len(s)) = SubSeq(s, 1, Len(s))
  BY <1>1, ConcatAdjacentSubSeq
<1>5. SubSeq(s, 1, Len(s)) = s
  BY SubSeqFull
<1>6. \A i \in m .. Len(s) : s[i] \in Int
  BY <1>1, ElementOfSeq
<1>7. \A j \in 1 .. Len(s) - m + 1 : SubSeq(s, m, Len(s))[j] = s[m + j - 1]
  BY <1>1, <1>6, SubSeqProperties
<1> QED BY <1>1, <1>2, <1>3, <1>4, <1>5, <1>7

----------------------------------------------------------------------------
(* The server writes.                                                      *)

(* What the client reads next is not touched by it.                        *)
LEMMA ReaderStays ==
  ASSUME UNCHANGED clientVars, Finished \subseteq Finished', NEW l, ReaderAt(l)
  PROVE  ReaderAt(l)'
  BY DEF ReaderAt, clientVars

LEMMA ServerMoves ==
  ASSUME UNCHANGED clientVars, Finished \subseteq Finished',
         NEW s, NEW at, NEW first, first = at[1], ReaderAt(first),
         NEW t, NEW l, Extends(s, at, Finished', t, l),
         NEW tail \in Seq(Int), wire' \o tail = s \o t, WriterAt(tail, l)',
         wire' \in Seq(Int)
  PROVE  StreamCoded' /\ wire' \in Seq(Int)
<1>1. PICK r : r = s \o t
  OBVIOUS
<1>2. PICK by \in [1 .. Len(r) + 1 -> Labels] :
        Coded(r, by, Finished') /\ by[1] = at[1] /\ by[Len(r) + 1] = l
  BY <1>1 DEF Extends
<1>3. ReaderAt(first)'
  BY ReaderStays
<1>4. /\ r = wire' \o tail
      /\ Coded(r, by, Finished')
      /\ first = by[1] /\ l = by[Len(r) + 1]
  BY <1>1, <1>2
<1>5. StreamIs(r, tail, by, first, l)'
  BY <1>3, <1>4 DEF StreamIs
<1> QED BY <1>5 DEF StreamCoded

LEMMA Regroup ==
  ASSUME NEW a \in Seq(Int), NEW b \in Seq(Int), NEW c \in Seq(Int)
  PROVE  (a \o b) \o c = a \o (b \o c)
  BY ConcatAssociative, SMTT(60)

(* A string once finished stays so.                                        *)
LEMMA FinishedStay ==
  ASSUME texts' = texts, pc' = "open" => pc = "open"
  PROVE  Finished \subseteq Finished'
  BY DEF Finished

(* What is between strings is followed by a message.                       *)
LEMMA OtherCoded ==
  ASSUME TextInv, NEW n \in OtherSizes, SendOther(n),
         NEW s, NEW tail, NEW at, NEW first, NEW last, StreamIs(s, tail, at, first, last)
  PROVE  StreamCoded' /\ wire' \in Seq(Int)
<1> DEFINE t == [i \in 1 .. n |-> Other]
<1>1. /\ pc = "idle" /\ pc' = "idle" /\ texts' = texts /\ wire' = wire
      /\ sbuf' = sbuf \o t /\ UNCHANGED clientVars
  BY DEF SendOther
<1>2. n \in Nat
  BY TextAssumption DEF TextAssumption
<1>3. t \in Seq(Int) /\ \A i \in 1 .. Len(t) : t[i] = Other
  BY <1>2 DEF Other
<1>4. tail = sbuf /\ last = Between(Len(texts)) /\ Len(texts) \in Nat
      /\ wire \in Seq(Int) /\ sbuf \in Seq(Int)
  BY <1>1 DEF StreamIs, WriterAt, TextInv, ChunkHasRoom
<1>5. Finished \subseteq Finished'
  BY <1>1, FinishedStay
<1> HIDE DEF t
<1>6. Extends(s, at, Finished', t, last)
  <2>1. Coded(s, at, Finished') /\ last = at[Len(s) + 1]
    BY <1>5, MoreFinished DEF StreamIs
  <2>2. last.mode = "between"
    BY <1>4, BetweenParts
  <2> QED BY <1>3, <2>1, <2>2, OthersMore
<1>7. wire' \o sbuf' = s \o t
  BY <1>1, <1>3, <1>4, Regroup DEF StreamIs
<1>8. PICK rest : rest = sbuf' /\ rest \in Seq(Int)
  BY <1>1, <1>3, <1>4, ConcatProperties
<1>9. WriterAt(rest, last)'
  BY <1>1, <1>4, <1>8 DEF WriterAt
<1>10. first = at[1] /\ ReaderAt(first)
  BY DEF StreamIs
<1>11. wire' \in Seq(Int)
  BY <1>1, <1>4
<1> QED BY <1>1, <1>5, <1>6, <1>7, <1>8, <1>9, <1>10, <1>11, ServerMoves

(* A string begins with its type, and the bytes before it are closed.      *)
LEMMA BeginCoded ==
  ASSUME TextInv, send_str_begin,
         NEW s, NEW tail, NEW at, NEW first, NEW last, StreamIs(s, tail, at, first, last)
  PROVE  StreamCoded' /\ wire' \in Seq(Int)
<1> DEFINE typed == Put(sbuf, Magic)
           base == IF Crowded(typed) THEN <<>> ELSE typed
           out == IF Crowded(typed) THEN typed ELSE <<>>
           sp == Spilled(sbuf)
<1>1. /\ pc = "idle" /\ pc' = "open" /\ texts' = Append(texts, 0)
      /\ wire' = wire \o sp \o out /\ sbuf' = Append(base, Unset)
      /\ lastLen' = Len(sbuf') /\ chunkLen' = 0 /\ UNCHANGED clientVars
  BY DEF send_str_begin
<1>2. /\ tail = sbuf /\ last = Between(Len(texts)) /\ texts \in Seq(Nat)
      /\ wire \in Seq(Int) /\ sbuf \in Seq(Int) /\ s = wire \o sbuf
  BY <1>1 DEF StreamIs, WriterAt, TextInv, ChunkHasRoom
<1>3. PICK k : k = Len(texts) /\ k \in Nat
  BY <1>2, SMTT(60)
<1>4. texts' \in Seq(Nat) /\ Len(texts') = k + 1 /\ texts'[k + 1] = 0
      /\ \A i \in 1 .. k : texts'[i] = texts[i]
  BY <1>1, <1>2, <1>3, AppendProperties
<1>5. Finished \subseteq Finished'
  <2>1. \A i \in DOMAIN texts : i \in DOMAIN texts' /\ texts'[i] = texts[i] /\ i # Len(texts')
    BY <1>2, <1>3, <1>4
  <2> QED BY <2>1 DEF Finished
<1>6. Extends(s, at, Finished', <<Magic>>, Length(k + 1, 0))
  <2>1. Coded(s, at, Finished') /\ last = at[Len(s) + 1]
    BY <1>5, MoreFinished DEF StreamIs
  <2>2. last.mode = "between" /\ last.str = k
    BY <1>2, <1>3, BetweenParts
  <2>3. Magic \in Int /\ k + 1 \in Nat /\ 0 \in Nat
    BY <1>3 DEF Magic
  <2>4. Length(k + 1, 0) \in Labels
    BY <2>3, LengthParts
  <2> QED BY <2>1, <2>2, <2>3, <2>4, OneByteMore
<1>7. /\ sp \in Seq(Int) /\ typed \in Seq(Int) /\ sp \o typed = sbuf \o <<Magic>>
      /\ <<Magic>> \in Seq(Int)
  <2>1. <<Magic>> \in Seq(Int) /\ <<>> \in Seq(Int) /\ Append(sbuf, Magic) \in Seq(Int)
        /\ Append(sbuf, Magic) = sbuf \o <<Magic>> /\ Magic \in Int
    BY <1>2, AppendProperties, AppendIsConcat DEF Magic
  <2>2. <<>> \o Append(sbuf, Magic) = Append(sbuf, Magic)
    BY <2>1, ConcatEmptySeq
  <2> QED BY <1>2, <2>1, <2>2 DEF Put, Spilled
<1> HIDE DEF typed, sp
<1>8. base \in Seq(Int) /\ out \in Seq(Int) /\ out \o base = typed
  <2>1. <<>> \in Seq(Int) /\ typed \o <<>> = typed /\ <<>> \o typed = typed
    BY <1>7, ConcatEmptySeq
  <2> QED BY <1>7, <2>1
<1> HIDE DEF base, out
<1>9. wire' \o base = s \o <<Magic>>
  <2>1. wire \o sp \in Seq(Int)
    BY <1>2, <1>7, ConcatProperties
  <2>2. wire' \o base = (wire \o sp) \o (out \o base)
    <3>1. wire' = (wire \o sp) \o out
      BY <1>1
    <3>2. ((wire \o sp) \o out) \o base = (wire \o sp) \o (out \o base)
      BY <1>8, <2>1, Regroup
    <3> QED BY <3>1, <3>2
  <2>3. wire' \o base = wire \o (sp \o typed)
    BY <1>2, <1>7, <1>8, <2>2, Regroup, ZenonT(60)
  <2>4. (wire \o sbuf) \o <<Magic>> = wire \o (sbuf \o <<Magic>>)
    BY <1>2, <1>7, Regroup
  <2> QED BY <1>2, <1>7, <2>3, <2>4
<1>10. PICK rest : rest = base /\ rest \in Seq(Int)
  BY <1>8
<1>11. WriterAt(rest, Length(k + 1, 0))'
  <2>1. Unset \in Int
    BY DEF Unset
  <2>2. sbuf' \in Seq(Int) /\ Len(sbuf') = Len(rest) + 1 /\ \A i \in 1 .. Len(rest) : sbuf'[i] = rest[i]
    BY <1>1, <1>10, <2>1, AppendProperties
  <2>3. Len(rest) \in Nat /\ lastLen' - 1 = Len(rest)
    BY <1>1, <1>10, <2>2
  <2>4. SubSeq(sbuf', 1, lastLen' - 1) = SubSeq(rest, 1, Len(rest))
    BY <1>10, <2>2, <2>3, SameStart
  <2>5. rest = SubSeq(sbuf', 1, lastLen' - 1)
    BY <1>10, <2>4, SubSeqFull
  <2>6. /\ texts'[Len(texts')] = 0 + chunkLen' /\ Length(k + 1, 0) = Length(Len(texts'), 0)
        /\ \A j \in 1 .. chunkLen' : FALSE /\ 0 \in Nat /\ pc' = "open"
    BY <1>1, <1>4
  <2> QED BY <1>1, <2>5, <2>6 DEF WriterAt
<1>12. first = at[1] /\ ReaderAt(first)
  BY DEF StreamIs
<1>13. wire' \in Seq(Int)
  <2>1. wire \o sp \in Seq(Int)
    BY <1>2, <1>7, TwoParts
  <2>2. (wire \o sp) \o out \in Seq(Int)
    BY <1>8, <2>1, TwoParts
  <2> QED BY <1>1, <2>2
<1> QED BY <1>1, <1>5, <1>6, <1>9, <1>10, <1>11, <1>12, <1>13, ServerMoves

(* A chunk is closed: its length is put before it.                         *)
ClosedAs(b, q, c, k, p) ==
  \E t \in Seq(Int) :
    /\ [SubSeq(b, 1, q + c) EXCEPT ![q] = c] = SubSeq(b, 1, q - 1) \o t
    /\ Len(t) = c + 1 /\ t[1] = c
    /\ \A j \in 1 .. c : t[j + 1] = ByteAt(k, p + j)

LEMMA ClosedChunk ==
  ASSUME NEW b \in Seq(Int), NEW q \in Nat, q > 0, NEW c \in Nat, q + c <= Len(b),
         NEW k, NEW p, \A j \in 1 .. c : b[q + j] = ByteAt(k, p + j)
  PROVE  ClosedAs(b, q, c, k, p)
<1> DEFINE a == SubSeq(b, 1, q + c)
           f == [a EXCEPT ![q] = c]
           t == SubSeq(f, q, Len(f))
<1>1. Len(b) \in Nat /\ q \in 1 .. q + c /\ q - 1 \in Nat
  OBVIOUS
<1>2. a \in Seq(Int) /\ Len(a) = q + c /\ \A i \in 1 .. q + c : a[i] = b[i]
  <2>1. 1 \in 1 .. Len(b) + 1 /\ q + c \in 1 - 1 .. Len(b) /\ (q + c) - 1 + 1 = q + c
        /\ 1 \in Int /\ q + c \in Int
    BY <1>1
  <2>2. a \in Seq(Int) /\ Len(a) = (q + c) - 1 + 1
    BY <2>1, PartIsSequence
  <2>3. \A i \in 1 .. q + c : b[i] \in Int
    BY <1>1, ElementOfSeq
  <2>4. \A i \in 1 .. (q + c) - 1 + 1 : a[i] = b[1 + i - 1]
    BY <2>1, <2>3, SubSeqProperties
  <2>5. \A i \in 1 .. q + c : i \in 1 .. (q + c) - 1 + 1 /\ 1 + i - 1 = i
    BY <2>1
  <2> HIDE DEF a
  <2> QED BY <2>1, <2>2, <2>4, <2>5
<1> HIDE DEF a
<1>3. /\ f \in Seq(Int) /\ Len(f) = q + c /\ f[q] = c
      /\ \A i \in 1 .. q + c : i # q => f[i] = b[i]
  BY <1>1, <1>2, ExceptSeq
<1> HIDE DEF f
<1>4. /\ SubSeq(f, 1, q - 1) \in Seq(Int) /\ t \in Seq(Int) /\ Len(t) = Len(f) - q + 1
      /\ f = SubSeq(f, 1, q - 1) \o t
      /\ \A j \in 1 .. Len(f) - q + 1 : t[j] = f[q + j - 1]
  BY <1>1, <1>3, InTwo
<1> HIDE DEF t
<1>5. SubSeq(f, 1, q - 1) = SubSeq(b, 1, q - 1)
  <2>1. /\ q - 1 <= Len(f) /\ q - 1 <= Len(b)
        /\ \A i \in 1 .. q - 1 : i \in 1 .. q + c /\ i # q
    BY <1>1, <1>3
  <2> QED BY <1>1, <1>3, <2>1, SameStart
<1>6. Len(t) = c + 1
  BY <1>1, <1>3, <1>4
<1>7. t[1] = c
  <2>1. 1 \in 1 .. Len(f) - q + 1 /\ q + 1 - 1 = q
    BY <1>1, <1>3
  <2>2. t[1] = f[q + 1 - 1]
    BY <1>4, <2>1
  <2> QED BY <1>3, <2>1, <2>2
<1>8. \A j \in 1 .. c : t[j + 1] = ByteAt(k, p + j)
  <2> SUFFICES ASSUME NEW j \in 1 .. c PROVE t[j + 1] = ByteAt(k, p + j)
    OBVIOUS
  <2>1. /\ j + 1 \in 1 .. Len(f) - q + 1 /\ q + (j + 1) - 1 = q + j
        /\ q + j \in 1 .. q + c /\ q + j # q
    BY <1>1, <1>3
  <2>2. t[j + 1] = f[q + (j + 1) - 1]
    BY <1>4, <2>1
  <2>3. t[j + 1] = f[q + j]
    BY <2>1, <2>2
  <2> QED BY <1>3, <2>1, <2>3
<1> QED BY <1>4, <1>5, <1>6, <1>7, <1>8 DEF ClosedAs, f, a

(* The c bytes behind place q of b are those behind the first p of string  *)
(* k.                                                                      *)
Carries(b, q, c, k, p) == \A j \in 1 .. c : b[q + j] = ByteAt(k, p + j)

(* The characters that come behind a chunk.                                *)
LEMMA FilledChunk ==
  ASSUME NEW b \in Seq(Int), NEW q \in Nat, NEW c \in Nat, Len(b) = q + c,
         NEW k \in Nat, NEW p \in Nat, Carries(b, q, c, k, p),
         NEW n \in Nat, NEW y \in Seq(Int), Len(y) = n,
         Carries(y, 0, n, k, p + c)
  PROVE  /\ b \o y \in Seq(Int) /\ Len(b \o y) = q + c + n
         /\ \A i \in 1 .. q + c : (b \o y)[i] = b[i]
         /\ Carries(b \o y, q, c + n, k, p)
<1> DEFINE r == b \o y
<1>2. /\ r \in Seq(Int) /\ Len(r) = Len(b) + Len(y)
      /\ \A i \in 1 .. Len(b) : r[i] = b[i]
      /\ \A i \in Len(b) + 1 .. Len(b) + Len(y) : r[i] = y[i - Len(b)]
  BY TwoParts
<1> HIDE DEF r
<1>3. Len(r) = q + c + n /\ \A i \in 1 .. q + c : r[i] = b[i]
  BY <1>2
<1>4. \A j \in 1 .. c + n : r[q + j] = ByteAt(k, p + j)
  <2> SUFFICES ASSUME NEW j \in 1 .. c + n PROVE r[q + j] = ByteAt(k, p + j)
    OBVIOUS
  <2>1. CASE j <= c
    <3>1. j \in 1 .. c /\ q + j \in 1 .. q + c
      BY <2>1
    <3>2. b[q + j] = ByteAt(k, p + j)
      BY <3>1 DEF Carries
    <3> QED BY <1>3, <3>1, <3>2
  <2>2. CASE j > c
    <3>1. /\ q + j \in Len(b) + 1 .. Len(b) + Len(y) /\ (q + j) - Len(b) = j - c
          /\ j - c \in 1 .. n /\ (p + c) + (j - c) = p + j
      BY <2>2
    <3>2. r[q + j] = y[j - c]
      BY <1>2, <3>1
    <3>3. y[j - c] = ByteAt(k, (p + c) + (j - c))
      <4>1. y[0 + (j - c)] = ByteAt(k, (p + c) + (j - c))
        BY <3>1 DEF Carries
      <4>2. 0 + (j - c) = j - c
        OBVIOUS
      <4> QED BY <4>1, <4>2
    <3> QED BY <3>1, <3>2, <3>3
  <2> QED BY <2>1, <2>2
<1> QED BY <1>2, <1>3, <1>4 DEF r, Carries

(* What is over moves up by one.                                           *)
LEMMA Overflow ==
  ASSUME NEW r \in Seq(Int), NEW slot \in 1 .. Len(r) + 1
  PROVE  LET next == <<Unset>> \o Shifted(SubSeq(r, slot, Len(r))) IN
           /\ next \in Seq(Int) /\ Len(next) = Len(r) - slot + 2
           /\ \A j \in 1 .. Len(r) - slot + 1 : next[1 + j] = r[slot + j - 1]
<1> DEFINE o == SubSeq(r, slot, Len(r))
           u == <<Unset>>
           next == u \o Shifted(o)
<1>1. Len(r) \in Nat /\ slot \in Int /\ Len(r) \in Int
  OBVIOUS
<1>2. o \in Seq(Int) /\ Len(o) = Len(r) - slot + 1
  <2>1. Len(r) \in slot - 1 .. Len(r)
    BY <1>1
  <2> QED BY <2>1, PartIsSequence
<1>3. \A j \in 1 .. Len(r) - slot + 1 : o[j] = r[slot + j - 1]
  <2>1. \A i \in slot .. Len(r) : r[i] \in Int
    BY <1>1, ElementOfSeq
  <2> QED BY <1>1, <2>1, SubSeqProperties
<1> HIDE DEF o
<1>4. u \in Seq(Int) /\ Len(u) = 1
  BY DEF Unset
<1> HIDE DEF u
<1>5. /\ next \in Seq(Int) /\ Len(next) = Len(u) + Len(o)
      /\ \A i \in Len(u) + 1 .. Len(u) + Len(o) : next[i] = o[i - Len(u)]
  BY <1>2, <1>4, TwoParts DEF Shifted
<1> HIDE DEF next
<1>6. Len(next) = Len(r) - slot + 2
  BY <1>1, <1>2, <1>4, <1>5
<1>7. \A j \in 1 .. Len(r) - slot + 1 : next[1 + j] = r[slot + j - 1]
  <2> SUFFICES ASSUME NEW j \in 1 .. Len(r) - slot + 1 PROVE next[1 + j] = r[slot + j - 1]
    OBVIOUS
  <2>1. 1 + j \in Len(u) + 1 .. Len(u) + Len(o) /\ (1 + j) - Len(u) = j
    BY <1>1, <1>2, <1>4
  <2>2. next[1 + j] = o[j]
    BY <1>5, <2>1
  <2> QED BY <1>3, <2>2
<1> QED BY <1>5, <1>6, <1>7 DEF next, o, u

(* What is known of the server while a string is open.                     *)
OpenAt(k, p, s, tail, at, first, last) ==
  /\ k = Len(texts) /\ k > 0 /\ texts \in Seq(Nat) /\ texts[k] = p + chunkLen
  /\ sbuf \in Seq(Int) /\ wire \in Seq(Int)
  /\ lastLen \in Nat /\ lastLen > 0 /\ chunkLen \in Nat /\ chunkLen < ChunkMax
  /\ Len(sbuf) = lastLen + chunkLen
  /\ tail = SubSeq(sbuf, 1, lastLen - 1) /\ tail \in Seq(Int)
  /\ s = wire \o tail /\ Coded(s, at, Finished) /\ last = at[Len(s) + 1]
  /\ first = at[1] /\ ReaderAt(first)
  /\ last = Length(k, p)
  /\ \A j \in 1 .. chunkLen : sbuf[lastLen + j] = ByteAt(k, p + j)

LEMMA OpenString ==
  ASSUME TextInv, pc = "open",
         NEW s, NEW tail, NEW at, NEW first, NEW last, StreamIs(s, tail, at, first, last)
  PROVE  \E k, p \in Nat : OpenAt(k, p, s, tail, at, first, last)
<1>1. PICK p \in Nat :
        /\ tail = SubSeq(sbuf, 1, lastLen - 1)
        /\ texts[Len(texts)] = p + chunkLen
        /\ last = Length(Len(texts), p)
        /\ \A j \in 1 .. chunkLen : sbuf[lastLen + j] = ByteAt(Len(texts), p + j)
  BY DEF StreamIs, WriterAt
<1>2. /\ sbuf \in Seq(Int) /\ texts \in Seq(Nat) /\ texts # <<>> /\ wire \in Seq(Int)
      /\ lastLen \in 1 .. SendSize - (ChunkMax + 2) - MaxChar
      /\ chunkLen \in 0 .. ChunkMax - 1
      /\ Len(sbuf) = lastLen + chunkLen
  BY DEF TextInv, ChunkHasRoom
<1>3. lastLen \in Nat /\ lastLen > 0 /\ chunkLen \in Nat /\ chunkLen < ChunkMax
  BY <1>2, TextAssumption DEF TextAssumption
<1>4. Len(texts) \in Nat /\ Len(texts) > 0
  <2>1. texts \in Seq(Nat) /\ texts # <<>>
    BY <1>2
  <2> QED BY <2>1, LenProperties, EmptySeq
<1>5. /\ tail \in Seq(Int) /\ s = wire \o tail /\ Coded(s, at, Finished) /\ last = at[Len(s) + 1]
      /\ first = at[1] /\ ReaderAt(first)
  BY DEF StreamIs
<1>6. OpenAt(Len(texts), p, s, tail, at, first, last)
  BY <1>1, <1>2, <1>3, <1>4, <1>5 DEF OpenAt
<1> QED BY <1>4, <1>6

(* A string ends: its last chunk is closed, and the one of no length       *)
(* follows unless it is that.                                              *)
LEMMA EndCoded ==
  ASSUME TextInv, send_str_end,
         NEW s, NEW tail, NEW at, NEW first, NEW last, StreamIs(s, tail, at, first, last)
  PROVE  StreamCoded' /\ wire' \in Seq(Int)
<1> DEFINE closed == [sbuf EXCEPT ![lastLen] = chunkLen]
<1>1. /\ pc = "open" /\ pc' = "idle" /\ texts' = texts /\ sbuf' = <<>>
      /\ wire' = wire \o (IF chunkLen > 0 THEN Append(closed, 0) ELSE closed)
      /\ UNCHANGED clientVars
  BY DEF send_str_end, NeedsOne
<1>0. PICK k \in Nat, p \in Nat : OpenAt(k, p, s, tail, at, first, last)
  BY <1>1, OpenString
<1>2. /\ k = Len(texts) /\ k > 0 /\ texts \in Seq(Nat) /\ texts[k] = p + chunkLen
      /\ sbuf \in Seq(Int) /\ wire \in Seq(Int)
      /\ lastLen \in Nat /\ lastLen > 0 /\ chunkLen \in Nat /\ chunkLen < ChunkMax
      /\ Len(sbuf) = lastLen + chunkLen
      /\ tail = SubSeq(sbuf, 1, lastLen - 1) /\ tail \in Seq(Int)
      /\ s = wire \o tail /\ Coded(s, at, Finished) /\ last = at[Len(s) + 1]
      /\ first = at[1] /\ ReaderAt(first)
      /\ last = Length(k, p)
      /\ \A j \in 1 .. chunkLen : sbuf[lastLen + j] = ByteAt(k, p + j)
  BY <1>0 DEF OpenAt
<1>3. Finished \subseteq Finished'
  BY <1>1, FinishedStay
<1>4. Coded(s, at, Finished')
  BY <1>2, <1>3, MoreFinished
<1>5. PICK c : c = chunkLen /\ c \in Nat
  BY <1>2
<1>6. PICK t \in Seq(Int) : /\ closed = tail \o t
                            /\ Len(t) = c + 1 /\ t[1] = c
                            /\ \A j \in 1 .. c : t[j + 1] = ByteAt(k, p + j)
  <2>1. SubSeq(sbuf, 1, lastLen + c) = sbuf
    BY <1>2, <1>5, SubSeqFull
  <2>2. lastLen + c <= Len(sbuf) /\ \A j \in 1 .. c : sbuf[lastLen + j] = ByteAt(k, p + j)
    BY <1>2, <1>5
  <2>3. ClosedAs(sbuf, lastLen, c, k, p)
    <3>1. sbuf \in Seq(Int) /\ lastLen \in Nat /\ lastLen > 0 /\ c \in Nat
      BY <1>2, <1>5
    <3> QED BY <2>2, <3>1, ClosedChunk
  <2>4. tail = SubSeq(sbuf, 1, lastLen - 1) /\ closed = [sbuf EXCEPT ![lastLen] = c]
    BY <1>2, <1>5
  <2> HIDE DEF closed
  <2> QED BY <2>1, <2>3, <2>4 DEF ClosedAs
<1> HIDE DEF closed
<1>7. <<k, p + c>> \in Finished'
  <2>1. k \in DOMAIN texts /\ p + c \in Nat
    BY <1>2, <1>5, SMTT(60)
  <2> QED BY <1>1, <1>2, <1>5, <2>1 DEF Finished
<1>8. PICK rest : rest = <<>> /\ rest \in Seq(Int)
  <2>1. <<>> \in Seq(Int)
    OBVIOUS
  <2> QED BY <2>1
<1>9. WriterAt(rest, Between(k))'
  BY <1>1, <1>2, <1>8 DEF WriterAt
<1>10. Between(k) \in Labels /\ 0 \in Int /\ <<0>> \in Seq(Int)
  BY BetweenParts
<1>11. closed \in Seq(Int) /\ wire \o closed = s \o t /\ s \in Seq(Int) /\ s \o t \in Seq(Int)
  <2>1. (wire \o tail) \o t = wire \o (tail \o t)
    BY <1>2, <1>6, Regroup
  <2>2. tail \o t \in Seq(Int) /\ wire \o tail \in Seq(Int)
    BY <1>2, <1>6, TwoParts
  <2>3. s \o t \in Seq(Int)
    BY <1>2, <1>6, <2>2, TwoParts
  <2> QED BY <1>2, <1>6, <2>1, <2>2, <2>3
<1>12. CASE c = 0
  <2>1. t = <<0>>
    <3>1. Len(t) = Len(<<0>>) /\ \A i \in 1 .. Len(t) : t[i] = <<0>>[i]
      BY <1>6, <1>12
    <3> QED BY <1>6, <1>10, <3>1, SeqEqual
  <2>2. at[Len(s) + 1].mode = "length" /\ at[Len(s) + 1].str = k /\ at[Len(s) + 1].pos = p
    <3>1. last = Length(k, p) /\ last = at[Len(s) + 1]
      BY <1>2
    <3>2. last.mode = "length" /\ last.str = k /\ last.pos = p
      <4>1. /\ Length(k, p).mode = "length" /\ Length(k, p).str = k
            /\ Length(k, p).pos = p
        BY LengthParts
      <4> QED BY <3>1, <4>1
    <3> QED BY <3>1, <3>2
  <2>3. <<k, p>> \in Finished'
    BY <1>7, <1>12
  <2>4. Extends(s, at, Finished', <<0>>, Between(k))
    BY <1>4, <1>10, <2>2, <2>3, OneByteMore
  <2>5. wire' = s \o <<0>> /\ wire' \in Seq(Int)
    <3>1. ~ (chunkLen > 0)
      BY <1>5, <1>12
    <3>2. wire' = wire \o closed
      BY <1>1, <3>1
    <3> QED BY <1>11, <2>1, <3>2
  <2>6. wire' \o rest = s \o <<0>>
    BY <1>8, <2>5, ConcatEmptySeq
  <2> QED BY <1>1, <1>2, <1>3, <1>8, <1>9, <2>4, <2>5, <2>6, ServerMoves
<1>13. CASE c > 0
  <2>1. c \in 1 .. ChunkMax
    BY <1>2, <1>5, <1>13, TextAssumption DEF TextAssumption
  <2>2. Extends(s, at, Finished', t, Length(k, p + c))
    BY <1>2, <1>4, <1>6, <2>1, ChunkMore
  <2>3. PICK r : r = s \o t /\ r \in Seq(Int)
    BY <1>11
  <2>4. PICK by : Coded(r, by, Finished') /\ by[1] = at[1] /\ by[Len(r) + 1] = Length(k, p + c)
    BY <2>2, <2>3 DEF Extends
  <2>5. p + c \in Nat
    BY <1>5
  <2>6. /\ by[Len(r) + 1].mode = "length" /\ by[Len(r) + 1].str = k
        /\ by[Len(r) + 1].pos = p + c
    BY <2>4, <2>5, LengthParts
  <2>7. Extends(r, by, Finished', <<0>>, Between(k))
    BY <1>7, <1>10, <2>4, <2>6, OneByteMore
  <2>8. wire' \o rest = r \o <<0>> /\ wire' \in Seq(Int)
    <3>1. wire' = wire \o Append(closed, 0)
      BY <1>1, <1>5, <1>13
    <3>2. Append(closed, 0) = closed \o <<0>>
      BY <1>10, <1>11, AppendIsConcat
    <3>3. (wire \o closed) \o <<0>> = wire \o (closed \o <<0>>)
      <4>1. wire \in Seq(Int)
        BY <1>2
      <4> QED BY <1>10, <1>11, <4>1, Regroup
    <3>4. wire' = r \o <<0>>
      BY <1>11, <2>3, <3>1, <3>2, <3>3
    <3>5. r \o <<0>> \in Seq(Int)
      BY <1>10, <2>3, TwoParts
    <3>6. r \o <<0>> = wire' \o rest
      BY <1>8, <3>4, <3>5, ConcatEmptySeq
    <3> QED BY <3>4, <3>5, <3>6
  <2>9. first = by[1]
    BY <1>2, <2>4
  <2> QED BY <1>1, <1>2, <1>3, <1>8, <1>9, <2>7, <2>8, <2>9, ServerMoves
<1> QED BY <1>5, <1>12, <1>13

(* The next chunk g comes behind the closed one.                           *)
LEMMA TailBehind ==
  ASSUME NEW h \in Seq(Int), NEW g \in Seq(Int), NEW z \in Nat, Len(h) = z - 1,
         NEW o \in Nat, Len(g) = o + 1
  PROVE  /\ SubSeq(h \o g, 1, z - 1) = h
         /\ \A j \in 1 .. o : (h \o g)[z + j] = g[1 + j]
<1> DEFINE m == h \o g
<1>1. Len(h) \in Nat /\ Len(g) \in Nat
  OBVIOUS
<1>2. /\ m \in Seq(Int) /\ Len(m) = Len(h) + Len(g)
      /\ \A i \in 1 .. Len(h) : m[i] = h[i]
      /\ \A i \in Len(h) + 1 .. Len(h) + Len(g) : m[i] = g[i - Len(h)]
  BY TwoParts
<1> HIDE DEF m
<1>3. SubSeq(m, 1, Len(h)) = SubSeq(h, 1, Len(h))
  <2>1. Len(h) <= Len(m) /\ Len(h) <= Len(h)
    BY <1>1, <1>2
  <2> QED BY <1>1, <1>2, <2>1, SameStart
<1>4. SubSeq(m, 1, z - 1) = h
  BY <1>3, SubSeqFull
<1>5. \A j \in 1 .. o : m[z + j] = g[1 + j]
  <2> SUFFICES ASSUME NEW j \in 1 .. o PROVE m[z + j] = g[1 + j]
    OBVIOUS
  <2>1. z + j \in Len(h) + 1 .. Len(h) + Len(g) /\ (z + j) - Len(h) = 1 + j
    BY <1>1
  <2> QED BY <1>2, <2>1
<1> QED BY <1>4, <1>5 DEF m

(* A character comes: the open chunk grows or, when it is full, is closed  *)
(* and the next one begins with what is over.                              *)
LEMMA CharCoded ==
  ASSUME TextInv, NEW n \in 1 .. MaxChar, send_str(n),
         NEW s, NEW tail, NEW at, NEW first, NEW last, StreamIs(s, tail, at, first, last)
  PROVE  StreamCoded' /\ wire' \in Seq(Int)
<1> DEFINE x == texts[Len(texts)]
           chars == [i \in 1 .. n |-> ByteAt(Len(texts), x + i)]
           filled == sbuf \o chars
           over == chunkLen + n - ChunkMax
           slot == Len(filled) - over + 1
           full == [SubSeq(filled, 1, slot - 1) EXCEPT ![lastLen] = ChunkMax]
           next == <<Unset>> \o Shifted(SubSeq(filled, slot, Len(filled)))
<1>1. /\ pc = "open" /\ pc' = "open" /\ texts' = [texts EXCEPT ![Len(texts)] = x + n]
      /\ UNCHANGED clientVars
      /\ \/ /\ over < 0 /\ sbuf' = filled /\ chunkLen' = chunkLen + n
            /\ lastLen' = lastLen /\ wire' = wire
         \/ /\ over >= 0 /\ chunkLen' = over
            /\ wire' = wire \o full /\ sbuf' = next /\ lastLen' = 1
         \/ /\ over >= 0 /\ chunkLen' = over
            /\ wire' = wire /\ sbuf' = full \o next /\ lastLen' = slot
  BY DEF send_str
<1>0. PICK k \in Nat, p \in Nat : OpenAt(k, p, s, tail, at, first, last)
  BY <1>1, OpenString
<1>2. /\ k = Len(texts) /\ k > 0 /\ texts \in Seq(Nat) /\ x = p + chunkLen
      /\ sbuf \in Seq(Int) /\ wire \in Seq(Int)
      /\ lastLen \in Nat /\ lastLen > 0 /\ chunkLen \in Nat /\ chunkLen < ChunkMax
      /\ Len(sbuf) = lastLen + chunkLen
      /\ tail = SubSeq(sbuf, 1, lastLen - 1) /\ tail \in Seq(Int)
      /\ s = wire \o tail /\ Coded(s, at, Finished) /\ last = at[Len(s) + 1]
      /\ first = at[1] /\ ReaderAt(first)
      /\ last = Length(k, p)
      /\ \A j \in 1 .. chunkLen : sbuf[lastLen + j] = ByteAt(k, p + j)
  BY <1>0 DEF OpenAt
<1>3. n \in Nat /\ n > 0 /\ n < ChunkMax /\ ChunkMax \in Nat
  BY TextAssumption DEF TextAssumption
<1>4. texts' \in Seq(Nat) /\ Len(texts') = k /\ texts'[k] = p + (chunkLen + n)
      /\ \A i \in 1 .. k : i # k => texts'[i] = texts[i]
  <2>1. x + n \in Nat /\ x + n = p + (chunkLen + n) /\ k \in 1 .. Len(texts)
    BY <1>2, <1>3
  <2>2. texts' = [texts EXCEPT ![k] = x + n] /\ texts \in Seq(Nat)
    BY <1>1, <1>2
  <2> HIDE DEF x
  <2>3. /\ texts' \in Seq(Nat) /\ Len(texts') = Len(texts)
        /\ \A i \in 1 .. Len(texts) : texts'[i] = IF i = k THEN x + n ELSE texts[i]
    BY <2>1, <2>2, ExceptSeq, SMTT(60)
  <2> QED BY <1>2, <2>1, <2>3
<1>5. Finished \subseteq Finished'
  <2>1. DOMAIN texts = 1 .. k /\ DOMAIN texts' = 1 .. k /\ Len(texts) = k
    BY <1>2, <1>4
  <2> QED BY <1>1, <1>4, <2>1 DEF Finished
<1>6. Coded(s, at, Finished')
  BY <1>2, <1>5, MoreFinished
<1>7. PICK q : q = lastLen /\ q \in Nat /\ q > 0
  BY <1>2
<1>8. PICK c : c = chunkLen /\ c \in Nat
  BY <1>2
<1>9. PICK w : w = wire /\ w \in Seq(Int)
  BY <1>2
<1>10. PICK b : b = sbuf /\ b \in Seq(Int)
  BY <1>2
<1>11. x = p + c
  BY <1>2, <1>8
<1>12. /\ Len(b) = q + c /\ tail = SubSeq(b, 1, q - 1)
       /\ \A j \in 1 .. c : b[q + j] = ByteAt(k, p + j)
  BY <1>2, <1>7, <1>8, <1>10
<1>13. PICK y \in Seq(Int) : /\ y = chars /\ Len(y) = n
                              /\ Carries(y, 0, n, k, p + c)
  <2>1. Len(texts) = k /\ p + c \in Nat
    BY <1>2, <1>8
  <2> HIDE DEF x
  <2>2. \A i \in 1 .. n : ByteAt(k, (p + c) + i) \in Int
    <3>1. k \in Nat
      BY <1>2, <2>1
    <3>2. (MaxText + 1) * k \in Int
      BY <3>1, TextAssumption DEF TextAssumption
    <3> QED BY <2>1, <3>2 DEF ByteAt, Other
  <2>3. \A i \in 1 .. n : chars[i] = ByteAt(k, (p + c) + i)
    BY <1>11, <2>1
  <2>4. chars = [i \in 1 .. n |-> chars[i]]
    OBVIOUS
  <2> HIDE DEF chars
  <2>5. chars \in [1 .. n -> Int]
    BY <2>2, <2>3, <2>4
  <2>6. \A i \in 1 .. n : chars[0 + i] = ByteAt(k, (p + c) + i)
    BY <1>3, <2>3
  <2> QED BY <1>3, <2>5, <2>6, FunctionIsSequence DEF Carries
<1> HIDE DEF x, chars
<1>14. PICK r : /\ r = filled /\ r \in Seq(Int) /\ Len(r) = q + c + n
                /\ \A i \in 1 .. q + c : r[i] = b[i]
                /\ Carries(r, q, c + n, k, p)
  <2>1. /\ b \in Seq(Int) /\ q \in Nat /\ c \in Nat /\ n \in Nat /\ Len(b) = q + c
        /\ Carries(b, q, c, k, p) /\ Carries(y, 0, n, k, p + c) /\ Len(y) = n
    BY <1>3, <1>7, <1>8, <1>10, <1>12, <1>13 DEF Carries
  <2>2. /\ b \o y \in Seq(Int) /\ Len(b \o y) = q + c + n
        /\ \A i \in 1 .. q + c : (b \o y)[i] = b[i]
        /\ Carries(b \o y, q, c + n, k, p)
    BY <2>1, FilledChunk
  <2>3. b \o y = filled
    BY <1>10, <1>13
  <2> HIDE DEF filled
  <2> QED BY <2>2, <2>3
<1>19. \A j \in 1 .. c + n : r[q + j] = ByteAt(k, p + j)
  BY <1>14 DEF Carries
<1> HIDE DEF filled
<1>15. SubSeq(r, 1, q - 1) = tail
  <2>1. /\ q - 1 \in Nat /\ q - 1 <= Len(r) /\ q - 1 <= Len(b)
        /\ \A i \in 1 .. q - 1 : i \in 1 .. q + c
    BY <1>3, <1>7, <1>8, <1>12, <1>14, SMTT(60)
  <2>2. \A i \in 1 .. q - 1 : r[i] = b[i]
    BY <1>14, <2>1
  <2>3. SubSeq(r, 1, q - 1) = SubSeq(b, 1, q - 1)
    BY <1>10, <1>14, <2>1, <2>2, SameStart
  <2> QED BY <1>12, <2>3
<1>16. over = c + n - ChunkMax /\ over \in Int
  BY <1>3, <1>8
<1>17. CASE over < 0
  <2>1. sbuf' = r /\ chunkLen' = c + n /\ lastLen' = q /\ wire' = w
    <3> HIDE DEF over, full, next, slot
    <3> QED BY <1>1, <1>7, <1>8, <1>9, <1>14, <1>16, <1>17
  <2>2. Extends(s, at, Finished', <<>>, last)
    BY <1>2, <1>6, NothingMore
  <2>3. wire' \o tail = s \o <<>>
    <3>1. w \o tail \in Seq(Int) /\ s = w \o tail
      BY <1>2, <1>9, TwoParts
    <3> QED BY <2>1, <3>1, ConcatEmptySeq
  <2>4. WriterAt(tail, last)'
    <3>1. /\ texts'[Len(texts')] = p + chunkLen' /\ last = Length(Len(texts'), p)
          /\ \A j \in 1 .. chunkLen' : sbuf'[lastLen' + j] = ByteAt(Len(texts'), p + j)
      BY <1>2, <1>4, <1>8, <1>19, <2>1
    <3>2. tail = SubSeq(sbuf', 1, lastLen' - 1)
      BY <1>15, <2>1
    <3> QED BY <1>1, <3>1, <3>2 DEF WriterAt
  <2>5. wire' \in Seq(Int)
    BY <1>9, <2>1
  <2> QED BY <1>1, <1>2, <1>5, <2>2, <2>3, <2>4, <2>5, ServerMoves
<1>18. CASE over >= 0
  <2>1. PICK o \in Nat : o = over /\ c + n = ChunkMax + o
    BY <1>3, <1>8, <1>16, <1>18
  <2>2. slot = q + ChunkMax + 1 /\ slot - 1 = q + ChunkMax /\ slot \in 1 .. Len(r) + 1
        /\ Len(r) - slot + 1 = o
    <3>1. slot = Len(r) - o + 1
      <4> HIDE DEF over
      <4> QED BY <1>14, <2>1
    <3>2. Len(r) = q + ChunkMax + o
      BY <1>3, <1>7, <1>8, <1>14, <2>1
    <3> HIDE DEF slot
    <3>3. slot = (q + ChunkMax + o) - o + 1 /\ q \in Nat /\ q > 0 /\ ChunkMax \in Nat /\ o \in Nat
      BY <1>3, <1>7, <2>1, <3>1, <3>2
    <3>4. slot = q + ChunkMax + 1 /\ slot - 1 = q + ChunkMax
      BY <3>3
    <3>5. slot \in 1 .. (q + ChunkMax + o) + 1 /\ (q + ChunkMax + o) - slot + 1 = o
      BY <3>3, <3>4
    <3> QED BY <3>2, <3>4, <3>5
  <2>3. PICK z : z = slot /\ z \in 1 .. Len(r) + 1
    BY <2>2
  <2>4. PICK g : /\ g = next /\ g \in Seq(Int) /\ Len(g) = o + 1
                 /\ \A j \in 1 .. o : g[1 + j] = r[z + j - 1]
    <3>1. next = <<Unset>> \o Shifted(SubSeq(r, z, Len(r)))
      BY <1>14, <2>3
    <3> HIDE DEF next, slot
    <3>2. /\ next \in Seq(Int) /\ Len(next) = Len(r) - z + 2
          /\ \A j \in 1 .. Len(r) - z + 1 : next[1 + j] = r[z + j - 1]
      BY <1>14, <2>3, <3>1, Overflow
    <3>3. Len(r) - z + 1 = o /\ Len(r) \in Nat /\ z \in Int
      BY <1>14, <2>2, <2>3
    <3>4. Len(r) - z + 2 = o + 1
      BY <3>3
    <3>5. Len(next) = o + 1 /\ \A j \in 1 .. o : next[1 + j] = r[z + j - 1]
      BY <3>2, <3>3, <3>4
    <3> QED BY <3>2, <3>5
  <2>5. \A j \in 1 .. o : g[1 + j] = ByteAt(k, (p + ChunkMax) + j)
    <3> SUFFICES ASSUME NEW j \in 1 .. o PROVE g[1 + j] = ByteAt(k, (p + ChunkMax) + j)
      OBVIOUS
    <3>1. /\ z + j - 1 = q + (ChunkMax + j) /\ ChunkMax + j \in 1 .. c + n
          /\ p + (ChunkMax + j) = (p + ChunkMax) + j
      BY <1>3, <1>7, <1>8, <2>1, <2>2, <2>3
    <3>2. r[q + (ChunkMax + j)] = ByteAt(k, p + (ChunkMax + j))
      BY <1>19, <3>1
    <3> QED BY <2>4, <3>1, <3>2
  <2>6. PICK t \in Seq(Int) : /\ full = tail \o t
                              /\ Len(t) = ChunkMax + 1 /\ t[1] = ChunkMax
                              /\ \A j \in 1 .. ChunkMax : t[j + 1] = ByteAt(k, p + j)
    <3>1. full = [SubSeq(r, 1, q + ChunkMax) EXCEPT ![q] = ChunkMax]
      BY <1>7, <1>14, <2>2
    <3>2. q + ChunkMax <= Len(r) /\ \A j \in 1 .. ChunkMax : j \in 1 .. c + n
      <4>1. Len(r) = q + ChunkMax + o
        BY <1>3, <1>7, <1>8, <1>14, <2>1
      <4> QED BY <1>3, <1>7, <1>8, <2>1, <4>1
    <3>3. \A j \in 1 .. ChunkMax : r[q + j] = ByteAt(k, p + j)
      BY <1>19, <3>2
    <3>4. ClosedAs(r, q, ChunkMax, k, p)
      BY <1>3, <1>7, <1>14, <3>2, <3>3, ClosedChunk
    <3> HIDE DEF full
    <3> QED BY <1>15, <3>1, <3>4 DEF ClosedAs
  <2>7. PICK h : h = full /\ h = tail \o t /\ h \in Seq(Int) /\ Len(h) = z - 1
    <3>1. Len(tail) = q - 1 /\ tail \in Seq(Int)
      <4>1. q - 1 \in 1 - 1 .. Len(b) /\ 1 \in 1 .. Len(b) + 1 /\ (q - 1) - 1 + 1 = q - 1
        BY <1>7, <1>8, <1>12
      <4>2. Len(SubSeq(b, 1, q - 1)) = (q - 1) - 1 + 1 /\ SubSeq(b, 1, q - 1) \in Seq(Int)
        BY <1>10, <4>1, PartIsSequence
      <4> QED BY <1>12, <4>1, <4>2
    <3>2. tail \o t \in Seq(Int) /\ Len(tail \o t) = Len(tail) + Len(t)
      BY <2>6, <3>1, TwoParts
    <3>3. Len(tail \o t) = z - 1
      BY <1>3, <1>7, <2>2, <2>3, <2>6, <3>1, <3>2
    <3> HIDE DEF full
    <3> QED BY <2>6, <3>2, <3>3
  <2>8. Extends(s, at, Finished', t, Length(k, p + ChunkMax))
    <3>1. ChunkMax \in 1 .. ChunkMax
      BY <1>3
    <3> QED BY <1>2, <1>6, <2>6, <3>1, ChunkMore
  <2>9. w \o h = s \o t /\ w \o h \in Seq(Int)
    <3>1. tail \in Seq(Int) /\ s = w \o tail
      BY <1>2, <1>9
    <3>2. (w \o tail) \o t = w \o (tail \o t)
      BY <1>9, <2>6, <3>1, Regroup, ZenonT(60)
    <3> QED BY <1>9, <2>7, <3>1, <3>2, TwoParts
  <2>10. /\ chunkLen' = o /\ p + ChunkMax \in Nat
         /\ texts'[Len(texts')] = (p + ChunkMax) + o
         /\ Length(k, p + ChunkMax) = Length(Len(texts'), p + ChunkMax)
    <3>1. texts'[k] = (p + ChunkMax) + o
      BY <1>3, <1>4, <1>8, <2>1
    <3>2. chunkLen' = o
      <4> HIDE DEF over, slot, full, next
      <4> QED BY <1>1, <1>16, <1>18, <2>1
    <3> QED BY <1>3, <1>4, <3>1, <3>2
  <2>11. CASE wire' = wire \o full /\ sbuf' = next /\ lastLen' = 1
    <3>1. wire' = w \o h /\ sbuf' = g
      BY <1>9, <2>4, <2>7, <2>11
    <3>2. <<>> \in Seq(Int) /\ (w \o h) \o <<>> = w \o h
      BY <2>9, ConcatEmptySeq
    <3>3. PICK rest : rest = <<>> /\ rest \in Seq(Int)
      BY <3>2
    <3>4. wire' \o rest = s \o t
      BY <2>9, <3>1, <3>2, <3>3
    <3>5. rest = SubSeq(sbuf', 1, lastLen' - 1)
      <4>1. SubSeq(g, 1, 0) = <<>>
        OBVIOUS
      <4>2. lastLen' - 1 = 0
        BY <2>11
      <4> QED BY <3>1, <3>3, <4>1, <4>2
    <3>6. \A j \in 1 .. chunkLen' : sbuf'[lastLen' + j] = ByteAt(Len(texts'), (p + ChunkMax) + j)
      BY <1>4, <2>5, <2>10, <2>11, <3>1
    <3>7. WriterAt(rest, Length(k, p + ChunkMax))'
      BY <1>1, <2>10, <3>5, <3>6 DEF WriterAt
    <3>8. wire' \in Seq(Int)
      BY <2>9, <3>1
    <3> QED BY <1>1, <1>2, <1>5, <2>8, <3>3, <3>4, <3>7, <3>8, ServerMoves
  <2>12. CASE wire' = wire /\ sbuf' = full \o next /\ lastLen' = slot
    <3>1. wire' = w /\ sbuf' = h \o g /\ lastLen' = z
      BY <1>9, <2>3, <2>4, <2>7, <2>12
    <3>2. PICK m : /\ m = h \o g /\ SubSeq(m, 1, z - 1) = h
                   /\ \A j \in 1 .. o : m[z + j] = g[1 + j]
      <4>1. z \in Nat
        BY <1>14, <2>3
      <4>2. h \in Seq(Int) /\ g \in Seq(Int) /\ Len(h) = z - 1 /\ Len(g) = o + 1
        BY <2>4, <2>7
      <4>3. /\ SubSeq(h \o g, 1, z - 1) = h
            /\ \A j \in 1 .. o : (h \o g)[z + j] = g[1 + j]
        BY <4>1, <4>2, TailBehind, SMTT(60)
      <4> QED BY <4>3
    <3>3. SubSeq(m, 1, z - 1) = h
      BY <3>2
    <3>4. \A j \in 1 .. o : m[z + j] = ByteAt(k, (p + ChunkMax) + j)
      BY <2>5, <3>2
    <3>5. /\ h = SubSeq(sbuf', 1, lastLen' - 1)
          /\ \A j \in 1 .. chunkLen' : sbuf'[lastLen' + j] = ByteAt(Len(texts'), (p + ChunkMax) + j)
      BY <1>4, <2>10, <3>1, <3>2, <3>3, <3>4
    <3>6. WriterAt(h, Length(k, p + ChunkMax))'
      BY <1>1, <2>10, <3>5 DEF WriterAt
    <3>7. wire' \o h = s \o t
      BY <2>9, <3>1
    <3>8. wire' \in Seq(Int)
      BY <1>9, <3>1
    <3> QED BY <1>1, <1>2, <1>5, <2>7, <2>8, <3>6, <3>7, <3>8, ServerMoves
  <2>13. \/ wire' = wire \o full /\ sbuf' = next /\ lastLen' = 1
         \/ wire' = wire /\ sbuf' = full \o next /\ lastLen' = slot
    <3> HIDE DEF over, slot, full, next
    <3> QED BY <1>1, <1>16, <1>18
  <2> QED BY <2>11, <2>12, <2>13
<1> QED BY <1>16, <1>17, <1>18

----------------------------------------------------------------------------
(* The client reads.                                                       *)

(* Neither what the server has finished nor where it is changes then.      *)
LEMMA ServerStays ==
  ASSUME UNCHANGED serverVars
  PROVE  /\ Finished' = Finished
         /\ \A tail, l : WriterAt(tail, l) => WriterAt(tail, l)'
  BY DEF Finished, WriterAt, serverVars

LEMMA RestBehind ==
  ASSUME NEW w \in Seq(Int), NEW t \in Seq(Int), NEW n \in Nat, n <= Len(w)
  PROVE  SubSeq(w, n + 1, Len(w)) \o t = SubSeq(w \o t, n + 1, Len(w \o t))
<1> DEFINE a == SubSeq(w, n + 1, Len(w))
           x == a \o t
           z == w \o t
           y == SubSeq(z, n + 1, Len(z))
<1>1. Len(w) \in Nat /\ Len(t) \in Nat
  OBVIOUS
<1>2. /\ a \in Seq(Int) /\ Len(a) = Len(w) - n
      /\ \A i \in 1 .. Len(w) - n : a[i] = w[n + i]
  <2>1. /\ n + 1 \in 1 .. Len(w) + 1 /\ Len(w) \in (n + 1) - 1 .. Len(w)
        /\ n + 1 \in Int /\ Len(w) \in Int
    BY <1>1
  <2>2. \A i \in n + 1 .. Len(w) : w[i] \in Int
    BY <1>1, ElementOfSeq
  <2>3. a \in Seq(Int) /\ Len(a) = Len(w) - (n + 1) + 1
    BY <2>1, PartIsSequence
  <2>4. \A i \in 1 .. Len(w) - (n + 1) + 1 : a[i] = w[(n + 1) + i - 1]
    BY <2>1, <2>2, SubSeqProperties
  <2>5. /\ Len(w) - (n + 1) + 1 = Len(w) - n
        /\ \A i \in 1 .. Len(w) - n : (n + 1) + i - 1 = n + i
    BY <1>1
  <2> HIDE DEF a
  <2> QED BY <2>3, <2>4, <2>5
<1>3. /\ z \in Seq(Int) /\ Len(z) = Len(w) + Len(t)
      /\ \A i \in 1 .. Len(w) : z[i] = w[i]
      /\ \A i \in Len(w) + 1 .. Len(w) + Len(t) : z[i] = t[i - Len(w)]
  BY TwoParts
<1> HIDE DEF a, z
<1>4. /\ x \in Seq(Int) /\ Len(x) = Len(a) + Len(t)
      /\ \A i \in 1 .. Len(a) : x[i] = a[i]
      /\ \A i \in Len(a) + 1 .. Len(a) + Len(t) : x[i] = t[i - Len(a)]
  BY <1>2, TwoParts
<1>5. /\ y \in Seq(Int) /\ Len(y) = Len(z) - n
      /\ \A i \in 1 .. Len(z) - n : y[i] = z[n + i]
  <2>1. /\ n + 1 \in 1 .. Len(z) + 1 /\ Len(z) \in (n + 1) - 1 .. Len(z)
        /\ n + 1 \in Int /\ Len(z) \in Int
    BY <1>1, <1>3
  <2>2. \A i \in n + 1 .. Len(z) : z[i] \in Int
    BY <1>1, <1>3, ElementOfSeq
  <2>3. y \in Seq(Int) /\ Len(y) = Len(z) - (n + 1) + 1
    BY <1>3, <2>1, PartIsSequence
  <2>4. \A i \in 1 .. Len(z) - (n + 1) + 1 : y[i] = z[(n + 1) + i - 1]
    BY <2>1, <2>2, SubSeqProperties
  <2>5. /\ Len(z) - (n + 1) + 1 = Len(z) - n
        /\ \A i \in 1 .. Len(z) - n : (n + 1) + i - 1 = n + i
    BY <2>1
  <2> HIDE DEF y
  <2> QED BY <2>3, <2>4, <2>5
<1> HIDE DEF x, y
<1>6. Len(x) = Len(y)
  BY <1>1, <1>2, <1>3, <1>4, <1>5
<1>7. \A i \in 1 .. Len(x) : x[i] = y[i]
  <2> SUFFICES ASSUME NEW i \in 1 .. Len(x) PROVE x[i] = y[i]
    OBVIOUS
  <2>1. y[i] = z[n + i]
    BY <1>5, <1>6
  <2>2. CASE i <= Len(a)
    <3>1. i \in 1 .. Len(a) /\ i \in 1 .. Len(w) - n /\ n + i \in 1 .. Len(w)
      BY <1>1, <1>2, <2>2
    <3> QED BY <1>2, <1>3, <1>4, <2>1, <3>1
  <2>3. CASE i > Len(a)
    <3>1. /\ i \in Len(a) + 1 .. Len(a) + Len(t)
          /\ n + i \in Len(w) + 1 .. Len(w) + Len(t)
          /\ (n + i) - Len(w) = i - Len(a)
      BY <1>1, <1>2, <1>4, <2>3
    <3> QED BY <1>3, <1>4, <2>1, <3>1
  <2> QED BY <1>2, <2>2, <2>3
<1>8. x = y
  BY <1>4, <1>5, <1>6, <1>7, SeqEqual
<1> QED BY <1>8 DEF x, y, a, z

(* What is left of the stream when n bytes are read.                       *)
LEMMA ClientMoves ==
  ASSUME UNCHANGED serverVars, wire \in Seq(Int),
         NEW s, NEW tail, NEW at, NEW first, NEW last, StreamIs(s, tail, at, first, last),
         NEW n \in Nat, n <= Len(wire), wire' = SubSeq(wire, n + 1, Len(wire)),
         NEW l, l = at[n + 1], ReaderAt(l)'
  PROVE  StreamCoded' /\ wire' \in Seq(Int)
<1>1. /\ tail \in Seq(Int) /\ s = wire \o tail /\ Coded(s, at, Finished)
      /\ last = at[Len(s) + 1] /\ WriterAt(tail, last)
  BY DEF StreamIs
<1>2. Len(wire) \in Nat /\ Len(tail) \in Nat /\ s \in Seq(Int) /\ Len(s) = Len(wire) + Len(tail)
  BY <1>1, TwoParts
<1>3. wire' \in Seq(Int)
  <2>1. n + 1 \in 1 .. Len(wire) + 1 /\ Len(wire) \in (n + 1) - 1 .. Len(wire)
    BY <1>2
  <2> QED BY <2>1, PartIsSequence
<1>4. wire' \o tail = SubSeq(s, n + 1, Len(s))
  BY <1>1, RestBehind
<1>5. PICK r, by : /\ r = SubSeq(s, n + 1, Len(s)) /\ Coded(r, by, Finished)
                   /\ Len(r) = Len(s) - n
                   /\ \A i \in 1 .. Len(s) - n + 1 : by[i] = at[i + n]
  <2> DEFINE r == SubSeq(s, n + 1, Len(s))
             by == [i \in 1 .. Len(s) - n + 1 |-> at[i + n]]
  <2>1. n \in 0 .. Len(s)
    BY <1>2
  <2>2. Coded(r, by, Finished) /\ Len(r) = Len(s) - n
    BY <1>1, <2>1, RestIsCoded
  <2>3. \A i \in 1 .. Len(s) - n + 1 : by[i] = at[i + n]
    OBVIOUS
  <2> HIDE DEF by, r
  <2> QED BY <2>2, <2>3 DEF r
<1>6. by[1] = l /\ by[Len(r) + 1] = last
  <2>1. 1 \in 1 .. Len(s) - n + 1 /\ Len(s) - n + 1 \in 1 .. Len(s) - n + 1
        /\ 1 + n = n + 1 /\ (Len(s) - n + 1) + n = Len(s) + 1
    BY <1>2
  <2> QED BY <1>1, <1>5, <2>1
<1>7. StreamIs(r, tail, by, l, last)'
  <2>1. Coded(r, by, Finished') /\ WriterAt(tail, last)'
    BY <1>1, <1>5, ServerStays
  <2> QED BY <1>1, <1>4, <1>5, <1>6, <2>1 DEF StreamIs
<1> QED BY <1>3, <1>7 DEF StreamCoded

(* The first bytes on the way are the first of the stream.                 *)
LEMMA FirstBytes ==
  ASSUME wire \in Seq(Int),
         NEW s, NEW tail, NEW at, NEW first, NEW last, StreamIs(s, tail, at, first, last)
  PROVE  /\ \A i \in 1 .. Len(wire) : s[i] = wire[i] /\ i \in 1 .. Len(s)
         /\ wire # <<>> => /\ Len(wire) >= 1 /\ s[1] = Head(wire) /\ first = at[1]
                           /\ first \in Labels
                           /\ Follows(s, at, 1, first, Finished)
<1>1. /\ tail \in Seq(Int) /\ s = wire \o tail /\ Coded(s, at, Finished)
      /\ first = at[1]
  BY DEF StreamIs
<1>2. /\ Len(wire) \in Nat /\ Len(tail) \in Nat /\ Len(s) = Len(wire) + Len(tail)
      /\ \A i \in 1 .. Len(wire) : s[i] = wire[i]
  BY <1>1, TwoParts
<1>3. \A i \in 1 .. Len(wire) : s[i] = wire[i] /\ i \in 1 .. Len(s)
  BY <1>2
<1>4. ASSUME wire # <<>>
      PROVE  /\ Len(wire) >= 1 /\ s[1] = Head(wire) /\ first \in Labels
             /\ Follows(s, at, 1, first, Finished)
  <2>1. Len(wire) >= 1 /\ Head(wire) = wire[1]
    BY <1>2, <1>4, EmptySeq
  <2>2. 1 \in 1 .. Len(wire) /\ 1 \in 1 .. Len(s) + 1
    BY <1>2, <2>1
  <2>3. s[1] = wire[1] /\ 1 \in 1 .. Len(s)
    BY <1>3, <2>2
  <2> QED BY <1>1, <2>1, <2>2, <2>3 DEF Coded
<1> QED BY <1>1, <1>3, <1>4

(* What the first byte is to a client that is between strings, or that     *)
(* expects the length of a chunk.                                          *)
LEMMA BetweenStrings ==
  ASSUME TextInv, rpc = "idle", wire # <<>>,
         NEW s, NEW tail, NEW at, NEW first, NEW last, StreamIs(s, tail, at, first, last)
  PROVE  \/ Head(wire) = Other /\ at[2] = Between(reading)
         \/ Head(wire) = Magic /\ at[2] = Length(reading + 1, 0)
<1>1. s[1] = Head(wire) /\ Follows(s, at, 1, first, Finished) /\ reading \in Nat
  BY FirstBytes DEF TextInv
<1>2. first = Between(reading)
  BY DEF StreamIs, ReaderAt
<1>3. first.mode = "between" /\ first.str = reading
  BY <1>1, <1>2, BetweenParts
<1>4. BetweenFollows(s, at, 1, first)
  BY <1>1, <1>3 DEF Follows
<1> QED BY <1>1, <1>2, <1>3, <1>4 DEF BetweenFollows

LEMMA BeforeLength ==
  ASSUME TextInv, NEW p \in Nat, wire # <<>>,
         NEW s, NEW tail, NEW at, NEW first, NEW last, StreamIs(s, tail, at, first, last),
         first = Length(reading, p)
  PROVE  /\ Head(wire) \in 0 .. ChunkMax
         /\ Head(wire) = 0 => at[2] = Between(reading) /\ <<reading, p>> \in Finished
         /\ Head(wire) # 0 => at[2] = Chunk(reading, p, Head(wire))
<1>1. s[1] = Head(wire) /\ Follows(s, at, 1, first, Finished) /\ reading \in Nat
  BY FirstBytes DEF TextInv
<1>2. first.mode = "length" /\ first.str = reading /\ first.pos = p
  BY <1>1, LengthParts
<1>3. LengthFollows(s, at, 1, first, Finished)
  BY <1>1, <1>2 DEF Follows
<1>4. Head(wire) \in 0 .. ChunkMax /\ (Head(wire) # 0 => Head(wire) > 0)
  BY <1>1, <1>3, TextAssumption DEF LengthFollows, TextAssumption
<1> QED BY <1>1, <1>2, <1>3, <1>4 DEF LengthFollows

(* One step of the client after the other: what comes next in the stream   *)
(* is what it goes on to expect.                                           *)
GotIsText == got \in Seq(Int) /\ \A i \in 1 .. Len(got) : got[i] = ByteAt(reading, i)

ClientInv ==
  /\ wire \in Seq(Int) /\ reading \in Nat /\ nextLen \in Nat
  /\ draining \in BOOLEAN
  /\ draining => rpc \in {"chunk", "chunk_len", "error"}
  /\ GotIsText

LEMMA OtherRead ==
  ASSUME TextInv, ReadOther,
         NEW s, NEW tail, NEW at, NEW first, NEW last, StreamIs(s, tail, at, first, last)
  PROVE  ClientInv' /\ StreamCoded'
<1>1. /\ rpc = "idle" /\ wire # <<>> /\ Head(wire) = Other
      /\ UNCHANGED serverVars /\ UNCHANGED clientVars
      /\ wire' = SubSeq(wire, 1 + 1, Len(wire))
  BY DEF ReadOther, Take
<1>2. wire \in Seq(Int) /\ 1 <= Len(wire) /\ first = at[1] /\ ReaderAt(first)
  BY <1>1, FirstBytes DEF TextInv, StreamIs
<1>3. at[1 + 1] = first
  <2>1. Other # Magic /\ 1 + 1 = 2
    BY DEF Other, Magic
  <2>2. first = Between(reading)
    BY <1>1, <1>2 DEF ReaderAt
  <2> QED BY <1>1, <2>1, <2>2, BetweenStrings
<1>4. ReaderAt(first)'
  <2>1. Finished' = Finished
    BY <1>1, ServerStays
  <2> QED BY <1>1, <1>2, <2>1 DEF ReaderAt, clientVars
<1>5. StreamCoded' /\ wire' \in Seq(Int)
  BY <1>1, <1>2, <1>3, <1>4, ClientMoves
<1> QED BY <1>1, <1>5 DEF TextInv, ClientInv, GotIsText, clientVars

LEMMA TypeRead ==
  ASSUME TextInv, read_str_begin,
         NEW s, NEW tail, NEW at, NEW first, NEW last, StreamIs(s, tail, at, first, last)
  PROVE  ClientInv' /\ StreamCoded'
<1>1. /\ rpc = "idle" /\ wire # <<>> /\ Head(wire) # Other
      /\ rpc' = "first_len" /\ reading' = reading + 1 /\ got' = <<>>
      /\ nextLen' = nextLen /\ draining' = draining
      /\ UNCHANGED serverVars
      /\ wire' = SubSeq(wire, 1 + 1, Len(wire))
  BY DEF read_str_begin, Take
<1>2. wire \in Seq(Int) /\ 1 <= Len(wire)
  BY <1>1, FirstBytes DEF TextInv
<1>3. PICK l : l = at[1 + 1] /\ l = Length(reading + 1, 0)
  <2>1. 1 + 1 = 2
    OBVIOUS
  <2> QED BY <1>1, <2>1, BetweenStrings
<1>4. ReaderAt(l)'
  BY <1>1, <1>3 DEF ReaderAt
<1>5. StreamCoded' /\ wire' \in Seq(Int)
  BY <1>1, <1>2, <1>3, <1>4, ClientMoves
<1> QED BY <1>1, <1>5 DEF TextInv, ClientInv, GotIsText

LEMMA FirstLengthRead ==
  ASSUME TextInv, ReadFirstLen,
         NEW s, NEW tail, NEW at, NEW first, NEW last, StreamIs(s, tail, at, first, last)
  PROVE  ClientInv' /\ StreamCoded'
<1>1. /\ rpc = "first_len" /\ 1 <= Len(wire) /\ wire' = SubSeq(wire, 1 + 1, Len(wire))
      /\ nextLen' = Head(wire) /\ rpc' = "open"
      /\ draining' = draining /\ reading' = reading /\ got' = got
      /\ UNCHANGED serverVars
  BY DEF ReadFirstLen, Take
<1>2. wire \in Seq(Int) /\ wire # <<>> /\ first = Length(reading, 0) /\ got = <<>>
  BY <1>1 DEF TextInv, StreamIs, ReaderAt
<1>3. PICK l : l = at[1 + 1]
  OBVIOUS
<1>4. /\ Head(wire) \in 0 .. ChunkMax
      /\ Head(wire) = 0 => l = Between(reading) /\ <<reading, 0>> \in Finished
      /\ Head(wire) # 0 => l = Chunk(reading, 0, Head(wire))
  <2>1. 1 + 1 = 2 /\ 0 \in Nat
    OBVIOUS
  <2> QED BY <1>2, <1>3, <2>1, BeforeLength
<1>5. ReaderAt(l)'
  <2>1. Finished' = Finished
    BY <1>1, ServerStays
  <2>2. Len(got') = 0
    BY <1>1, <1>2
  <2> QED BY <1>1, <1>4, <2>1, <2>2 DEF ReaderAt
<1>6. StreamCoded' /\ wire' \in Seq(Int)
  BY <1>1, <1>2, <1>3, <1>5, ClientMoves
<1>7. nextLen' \in Nat
  BY <1>1, <1>4, TextAssumption DEF TextAssumption
<1> QED BY <1>1, <1>6, <1>7 DEF TextInv, ClientInv, GotIsText

LEMMA LengthRead ==
  ASSUME TextInv, ReadChunkLen,
         NEW s, NEW tail, NEW at, NEW first, NEW last, StreamIs(s, tail, at, first, last)
  PROVE  ClientInv' /\ StreamCoded'
<1>1. /\ rpc = "chunk_len" /\ 1 <= Len(wire) /\ wire' = SubSeq(wire, 1 + 1, Len(wire))
      /\ nextLen' = Head(wire)
      /\ rpc' = IF GoesOn(nextLen') THEN "chunk" ELSE IF draining THEN "idle" ELSE "open"
      /\ draining' = (draining /\ rpc' # "idle")
      /\ reading' = reading /\ got' = got
      /\ UNCHANGED serverVars
  BY DEF ReadChunkLen, Take
<1>2. wire \in Seq(Int) /\ wire # <<>> /\ draining \in BOOLEAN
  BY <1>1 DEF TextInv
<1>3. PICK p \in Nat : first = Length(reading, p) /\ (~draining => p = Len(got))
  BY <1>1 DEF StreamIs, ReaderAt
<1>4. PICK l : l = at[1 + 1]
  OBVIOUS
<1>5. /\ Head(wire) \in 0 .. ChunkMax
      /\ Head(wire) = 0 => l = Between(reading) /\ <<reading, p>> \in Finished
      /\ Head(wire) # 0 => l = Chunk(reading, p, Head(wire))
  <2>1. 1 + 1 = 2
    OBVIOUS
  <2> QED BY <1>2, <1>3, <1>4, <2>1, BeforeLength
<1>6. Finished' = Finished
  BY <1>1, ServerStays
<1>7. ReaderAt(l)' /\ draining' \in BOOLEAN
      /\ (draining' => rpc' \in {"chunk", "chunk_len", "error"})
  <2>1. CASE rpc' = "chunk"
    <3>1. nextLen' # 0 /\ draining' = draining
      BY <1>1, <1>2, <2>1 DEF GoesOn
    <3>3. nextLen' > 0
      BY <1>1, <1>5, <3>1, TextAssumption DEF TextAssumption
    <3>2. l = Chunk(reading', p, nextLen') /\ (~draining' => p = Len(got'))
      BY <1>1, <1>3, <1>5, <3>1
    <3> QED BY <1>2, <2>1, <3>1, <3>2, <3>3 DEF ReaderAt
  <2>2. CASE rpc' = "idle"
    <3>1. nextLen' = 0 /\ draining' = FALSE
      BY <1>1, <1>2, <2>2 DEF GoesOn
    <3> QED BY <1>1, <1>5, <2>2, <3>1 DEF ReaderAt
  <2>3. CASE rpc' = "open"
    <3>1. draining = FALSE /\ draining' = FALSE
      BY <1>1, <1>2, <2>3
    <3>2. p = Len(got')
      BY <1>1, <1>3, <3>1
    <3> QED BY <1>1, <1>5, <1>6, <2>3, <3>1, <3>2 DEF ReaderAt
  <2> QED BY <1>1, <2>1, <2>2, <2>3
<1>8. StreamCoded' /\ wire' \in Seq(Int)
  BY <1>1, <1>2, <1>4, <1>7, ClientMoves
<1>9. nextLen' \in Nat
  BY <1>1, <1>5, TextAssumption DEF TextAssumption
<1> QED BY <1>1, <1>7, <1>8, <1>9 DEF TextInv, ClientInv, GotIsText

(* Nothing is read: the place in the stream is the same.                   *)
LEMMA SamePlace ==
  ASSUME TextInv, UNCHANGED serverVars, wire' = wire,
         NEW s, NEW tail, NEW at, NEW first, NEW last, StreamIs(s, tail, at, first, last),
         ReaderAt(first)'
  PROVE  StreamCoded' /\ wire' \in Seq(Int)
<1>1. StreamIs(s, tail, at, first, last)'
  BY ServerStays DEF StreamIs
<1> QED BY <1>1 DEF StreamCoded, TextInv

LEMMA CallRead ==
  ASSUME TextInv, NEW n, read_str(n),
         NEW s, NEW tail, NEW at, NEW first, NEW last, StreamIs(s, tail, at, first, last)
  PROVE  ClientInv' /\ StreamCoded'
<1>1. /\ rpc = "open" /\ nextLen # 0 /\ rpc' = "chunk" /\ wire' = wire /\ nextLen' = nextLen
      /\ draining' = draining /\ reading' = reading /\ got' = got /\ UNCHANGED serverVars
  BY DEF read_str
<1>2. first = Chunk(reading, Len(got), nextLen) /\ Len(got) \in Nat /\ nextLen > 0
  BY <1>1 DEF StreamIs, ReaderAt, TextInv
<1>3. ReaderAt(first)'
  BY <1>1, <1>2 DEF ReaderAt
<1>4. StreamCoded' /\ wire' \in Seq(Int)
  BY <1>1, <1>3, SamePlace
<1> QED BY <1>1, <1>4 DEF TextInv, ClientInv, GotIsText

LEMMA EndRead ==
  ASSUME TextInv, read_str_end,
         NEW s, NEW tail, NEW at, NEW first, NEW last, StreamIs(s, tail, at, first, last)
  PROVE  ClientInv' /\ StreamCoded'
<1>1. /\ rpc = "open" /\ wire' = wire /\ nextLen' = nextLen
      /\ reading' = reading /\ got' = got /\ UNCHANGED serverVars
      /\ \/ nextLen # 0 /\ rpc' = "chunk" /\ draining' = TRUE
         \/ nextLen = 0 /\ rpc' = "idle" /\ draining' = draining
  BY DEF read_str_end, SkipsRest
<1>2. /\ nextLen = 0 => first = Between(reading)
      /\ nextLen # 0 => first = Chunk(reading, Len(got), nextLen)
      /\ Len(got) \in Nat /\ draining = FALSE /\ nextLen \in Nat
  BY <1>1 DEF StreamIs, ReaderAt, TextInv
<1>3. ReaderAt(first)'
  BY <1>1, <1>2 DEF ReaderAt
<1>4. StreamCoded' /\ wire' \in Seq(Int)
  BY <1>1, <1>3, SamePlace
<1> QED BY <1>1, <1>2, <1>4 DEF TextInv, ClientInv, GotIsText

(* The bytes of a chunk are the next of the string's text.                 *)
LEMMA ChunkRead ==
  ASSUME TextInv, ReadChunk,
         NEW s, NEW tail, NEW at, NEW first, NEW last, StreamIs(s, tail, at, first, last)
  PROVE  ClientInv' /\ StreamCoded'
<1>1. /\ rpc = "chunk" /\ nextLen <= Len(wire)
      /\ wire' = SubSeq(wire, nextLen + 1, Len(wire))
      /\ got' = IF draining THEN got ELSE got \o SubSeq(wire, 1, nextLen)
      /\ rpc' = "chunk_len" /\ nextLen' = nextLen /\ draining' = draining /\ reading' = reading
      /\ UNCHANGED serverVars
  BY DEF ReadChunk, Take
<1>2. wire \in Seq(Int) /\ nextLen \in Nat /\ reading \in Nat /\ got \in Seq(Int)
      /\ draining \in BOOLEAN /\ \A i \in 1 .. Len(got) : got[i] = ByteAt(reading, i)
  BY DEF TextInv
<1>3. PICK p \in Nat : /\ first = Chunk(reading, p, nextLen) /\ nextLen > 0
                       /\ ~draining => p = Len(got)
  BY <1>1 DEF StreamIs, ReaderAt
<1>4. /\ nextLen > 0 /\ at[1 + nextLen] = Length(reading, p + nextLen)
      /\ \A j \in 1 .. nextLen : s[1 + j - 1] = ByteAt(reading, p + j)
  <2>1. first.mode = "chunk" /\ first.str = reading /\ first.pos = p /\ first.left = nextLen
    <3>1. /\ Chunk(reading, p, nextLen).mode = "chunk"
          /\ Chunk(reading, p, nextLen).str = reading
          /\ Chunk(reading, p, nextLen).pos = p
          /\ Chunk(reading, p, nextLen).left = nextLen
      BY <1>2, ChunkParts
    <3> QED BY <1>3, <3>1
  <2>2. Follows(s, at, 1, first, Finished)
    <3>1. wire # <<>>
      BY <1>1, <1>2, <1>3
    <3> QED BY <1>2, <3>1, FirstBytes
  <2>3. ChunkFollows(s, at, 1, first)
    BY <2>1, <2>2 DEF Follows
  <2> QED BY <2>1, <2>3 DEF ChunkFollows
<1>5. PICK l : l = at[nextLen + 1] /\ l = Length(reading, p + nextLen)
  BY <1>2, <1>4
<1>6. SubSeq(wire, 1, nextLen) \in Seq(Int) /\ Len(SubSeq(wire, 1, nextLen)) = nextLen
      /\ \A j \in 1 .. nextLen : SubSeq(wire, 1, nextLen)[j] = ByteAt(reading, p + j)
  <2>1. /\ 1 \in 1 .. Len(wire) + 1 /\ nextLen \in 1 - 1 .. Len(wire)
        /\ nextLen - 1 + 1 = nextLen /\ 1 \in Int /\ nextLen \in Int /\ Len(wire) \in Nat
    BY <1>1, <1>2
  <2>2. /\ SubSeq(wire, 1, nextLen) \in Seq(Int)
        /\ Len(SubSeq(wire, 1, nextLen)) = nextLen - 1 + 1
    BY <1>2, <2>1, PartIsSequence
  <2>3. \A i \in 1 .. nextLen : wire[i] \in Int
    BY <1>1, <1>2, <2>1, ElementOfSeq
  <2>4. \A j \in 1 .. nextLen - 1 + 1 : SubSeq(wire, 1, nextLen)[j] = wire[1 + j - 1]
    BY <2>1, <2>3, SubSeqProperties
  <2>5. \A j \in 1 .. nextLen :
          j \in 1 .. nextLen - 1 + 1 /\ 1 + j - 1 = j /\ j \in 1 .. Len(wire)
    BY <1>1, <2>1
  <2>6. \A j \in 1 .. nextLen : s[j] = wire[j]
    BY <1>2, <2>5, FirstBytes
  <2> QED BY <1>4, <2>1, <2>2, <2>4, <2>5, <2>6
<1>7. GotIsText'
  <2>1. CASE draining
    BY <1>1, <1>2, <2>1 DEF GotIsText
  <2>2. CASE ~ draining
    <3>1. PICK c \in Seq(Int) : /\ c = SubSeq(wire, 1, nextLen) /\ Len(c) = nextLen
                                /\ \A j \in 1 .. nextLen : c[j] = ByteAt(reading, p + j)
      BY <1>6
    <3>2. got' = got \o c /\ p = Len(got)
      BY <1>1, <1>3, <2>2, <3>1
    <3>3. /\ got' \in Seq(Int) /\ Len(got') = Len(got) + Len(c)
          /\ \A i \in 1 .. Len(got) : got'[i] = got[i]
          /\ \A i \in Len(got) + 1 .. Len(got) + Len(c) : got'[i] = c[i - Len(got)]
      BY <1>2, <3>2, TwoParts
    <3>4. \A i \in 1 .. Len(got') : got'[i] = ByteAt(reading, i)
      <4> SUFFICES ASSUME NEW i \in 1 .. Len(got') PROVE got'[i] = ByteAt(reading, i)
        OBVIOUS
      <4>1. CASE i <= Len(got)
        BY <1>2, <3>3, <4>1, SMTT(60)
      <4>2. CASE i > Len(got)
        <5>1. /\ i \in Len(got) + 1 .. Len(got) + Len(c)
              /\ i - Len(got) \in 1 .. nextLen /\ p + (i - Len(got)) = i
          BY <1>2, <3>1, <3>2, <3>3, <4>2
        <5>2. c[i - Len(got)] = ByteAt(reading, p + (i - Len(got)))
          BY <3>1, <5>1
        <5> QED BY <3>3, <5>1, <5>2
      <4> QED BY <1>2, <3>3, <4>1, <4>2
    <3> QED BY <1>1, <3>3, <3>4 DEF GotIsText
  <2> QED BY <2>1, <2>2
<1>8. ReaderAt(l)'
  <2>1. p + nextLen \in Nat /\ l = Length(reading', p + nextLen)
    BY <1>1, <1>2, <1>5
  <2>2. ~draining' => p + nextLen = Len(got')
    <3>1. ASSUME ~draining PROVE p + nextLen = Len(got')
      <4>1. got' = got \o SubSeq(wire, 1, nextLen) /\ p = Len(got)
        BY <1>1, <1>3, <3>1
      <4> QED BY <1>2, <1>6, <4>1, TwoParts
    <3> QED BY <1>1, <3>1
  <2> QED BY <1>1, <2>1, <2>2 DEF ReaderAt
<1>9. StreamCoded' /\ wire' \in Seq(Int)
  BY <1>1, <1>2, <1>5, <1>8, ClientMoves
<1> QED BY <1>1, <1>2, <1>7, <1>9 DEF ClientInv

----------------------------------------------------------------------------
(* The invariant of both ends.                                             *)
LEMMA InitCoded == TextInit => TextInv
<1> SUFFICES ASSUME TextInit PROVE TextInv
  OBVIOUS
<1>1. /\ pc = "idle" /\ sbuf = <<>> /\ texts = <<>> /\ wire = <<>> /\ rpc = "idle"
      /\ nextLen = 0 /\ draining = FALSE /\ reading = 0 /\ got = <<>>
  BY DEF TextInit
<1> DEFINE l == Between(0)
           at == [i \in 1 .. 1 |-> l]
<1>2. <<>> \in Seq(Int) /\ Len(<<>>) = 0 /\ <<>> = <<>> \o <<>> /\ l \in Labels
  BY ConcatEmptySeq, BetweenParts
<1>3. ReaderAt(l) /\ WriterAt(<<>>, l)
  <2>1. l = Between(reading) /\ l = Between(Len(texts))
    BY <1>1, <1>2
  <2> QED BY <1>1, <2>1 DEF ReaderAt, WriterAt
<1> HIDE DEF l
<1>4. at \in [1 .. Len(<<>>) + 1 -> Labels] /\ at[1] = l /\ at[Len(<<>>) + 1] = l
  BY <1>2
<1>5. \A i \in 1 .. Len(<<>>) : FALSE
  BY <1>2
<1> HIDE DEF at
<1>6. Coded(<<>>, at, Finished)
  BY <1>2, <1>4, <1>5 DEF Coded
<1>7. StreamIs(<<>>, <<>>, at, l, l)
  BY <1>1, <1>2, <1>3, <1>4, <1>6 DEF StreamIs
<1>8. \A i \in 1 .. Len(got) : FALSE
  BY <1>1
<1>9. ChunkHasRoom
  BY InitHasRoom
<1> QED BY <1>1, <1>2, <1>7, <1>8, <1>9 DEF TextInv, StreamCoded

LEMMA StepCoded == TextInv /\ [TextNext]_textVars => TextInv'
<1> SUFFICES ASSUME TextInv, [TextNext]_textVars PROVE TextInv'
  OBVIOUS
<1>1. ChunkHasRoom'
  BY StepHasRoom DEF TextInv
<1>2. CASE Server
  <2>1. UNCHANGED clientVars
    BY <1>2 DEF Server, send_str_begin, send_str_refused, ServerFails, send_str_end, SendOther,
                send_str
  <2>2. ASSUME rpc # "error"
        PROVE  StreamCoded' /\ wire' \in Seq(Int)
    <3>1. PICK s, tail, at, first, last : StreamIs(s, tail, at, first, last)
      BY <2>2 DEF TextInv, StreamCoded
    <3>2. CASE send_str_begin
      BY <3>1, <3>2, BeginCoded
    <3>3. CASE send_str_end
      BY <3>1, <3>3, EndCoded
    <3>4. ASSUME NEW n \in OtherSizes, SendOther(n) PROVE StreamCoded' /\ wire' \in Seq(Int)
      BY <3>1, <3>4, OtherCoded
    <3>5. ASSUME NEW n \in 1 .. MaxChar, send_str(n) PROVE StreamCoded' /\ wire' \in Seq(Int)
      BY <3>1, <3>5, CharCoded
    <3>6. CASE send_str_refused \/ ServerFails
      <4>1. wire' = wire /\ texts' = texts /\ pc' \notin {"idle", "open"}
        BY <3>6 DEF send_str_refused, ServerFails
      <4>2. Finished \subseteq Finished'
        BY <4>1, FinishedStay
      <4>3. /\ s = wire' \o tail /\ tail \in Seq(Int) /\ first = at[1] /\ last = at[Len(s) + 1]
            /\ Coded(s, at, Finished') /\ ReaderAt(first) /\ wire' \in Seq(Int)
        BY <3>1, <4>1, <4>2, MoreFinished DEF StreamIs, TextInv
      <4>4. ReaderAt(first)'
        BY <2>1, <4>2, <4>3, ReaderStays
      <4>5. WriterAt(tail, last)'
        BY <4>1 DEF WriterAt
      <4>6. StreamIs(s, tail, at, first, last)'
        BY <4>3, <4>4, <4>5, SMTT(60) DEF StreamIs
      <4> QED BY <4>3, <4>6 DEF StreamCoded
    <3> QED BY <1>2, <3>2, <3>3, <3>4, <3>5, <3>6 DEF Server
  <2>3. rpc # "error"
    BY <1>2 DEF TextInv, Server, send_str_begin, send_str_refused, ServerFails, send_str_end,
                SendOther, send_str
  <2> QED BY <1>1, <2>1, <2>2, <2>3, SMTT(60) DEF TextInv, clientVars
<1>3. CASE Client /\ ~ ReadFails
  <2>1. rpc # "error"
    BY <1>3 DEF Client, Gets, ReadOther, read_str_begin, ReadFirstLen, read_str,
                ReadChunk, ReadChunkLen, read_str_end
  <2>2. PICK s, tail, at, first, last : StreamIs(s, tail, at, first, last)
    BY <2>1 DEF TextInv, StreamCoded
  <2>3. ClientInv' /\ StreamCoded'
    <3>1. ASSUME NEW n \in ReadSizes, read_str(n) PROVE ClientInv' /\ StreamCoded'
      BY <2>2, <3>1, CallRead
    <3>2. CASE ReadOther
      BY <2>2, <3>2, OtherRead
    <3>3. CASE read_str_begin
      BY <2>2, <3>3, TypeRead
    <3>4. CASE ReadFirstLen
      BY <2>2, <3>4, FirstLengthRead
    <3>5. CASE ReadChunk
      BY <2>2, <3>5, ChunkRead
    <3>6. CASE ReadChunkLen
      BY <2>2, <3>6, LengthRead
    <3>7. CASE read_str_end
      BY <2>2, <3>7, EndRead
    <3> QED BY <1>3, <3>1, <3>2, <3>3, <3>4, <3>5, <3>6, <3>7 DEF Client, Gets
  <2>4. rpc' # "error"
    BY <1>3 DEF Client, Gets, ReadOther, read_str_begin, ReadFirstLen, read_str,
                ReadChunk, ReadChunkLen, read_str_end, clientVars
  <2> QED BY <1>1, <2>3, <2>4 DEF TextInv, ClientInv, GotIsText
<1>4. CASE ReadFails
  <2>1. /\ rpc' = "error" /\ pc \in {"refused", "failed"}
        /\ UNCHANGED <<serverVars, wire, nextLen, room, read, draining, reading, got>>
    BY <1>4 DEF ReadFails
  <2> QED BY <1>1, <2>1 DEF TextInv, serverVars
<1>5. CASE UNCHANGED textVars
  <2>1. UNCHANGED <<serverVars, wire, clientVars>>
    BY <1>5 DEF textVars
  <2>2. ASSUME rpc # "error" PROVE StreamCoded'
    <3>1. PICK s, tail, at, first, last : StreamIs(s, tail, at, first, last)
      BY <2>2 DEF TextInv, StreamCoded
    <3>2. ReaderAt(first) /\ Finished' = Finished
      BY <2>1, <3>1, ServerStays DEF StreamIs
    <3>3. ReaderAt(first)'
      BY <2>1, <3>2, ReaderStays
    <3> QED BY <2>1, <3>1, <3>3, SamePlace
  <2> QED BY <1>1, <2>1, <2>2 DEF TextInv, clientVars, serverVars
<1> QED BY <1>2, <1>3, <1>4, <1>5 DEF TextNext

LEMMA AlwaysCoded == TextSpec => []TextInv
  BY InitCoded, StepCoded, PTL DEF TextSpec

(* Wherever the client stops reading, for every size of the buffers, every *)
(* length of the chunks and every sequence of texts, what it takes for a   *)
(* type is one and what it takes for a length is one: a string cancelled   *)
(* or read to its end leaves the next one where it begins                  *)
(* (pproto_server.c:355-366, pproto_client.c:372-392).                     *)
THEOREM StringsStayApart == TextSpec => []StringsApart
<1>1. TextInv => StringsApart
  <2> SUFFICES ASSUME TextInv, wire # <<>>, rpc \in {"idle", "first_len", "chunk_len"}
               PROVE  /\ rpc = "idle" => Head(wire) \in {Magic, Other}
                      /\ rpc # "idle" => Head(wire) \in 0 .. ChunkMax
    BY DEF StringsApart
  <2>1. PICK s, tail, at, first, last : StreamIs(s, tail, at, first, last)
    BY DEF TextInv, StreamCoded
  <2>2. CASE rpc = "idle"
    BY <2>1, <2>2, BetweenStrings
  <2>3. CASE rpc # "idle"
    <3>1. PICK p \in Nat : first = Length(reading, p)
      BY <2>1, <2>3 DEF StreamIs, ReaderAt
    <3> QED BY <2>1, <2>3, <3>1, BeforeLength
  <2> QED BY <2>2, <2>3
<1> QED BY <1>1, AlwaysCoded, PTL

(* The text the client is handed over is the text the server was given,    *)
(* byte by byte and to its end, whatever the chunks and the flushes in     *)
(* between (pproto_server.c:299-349, pproto_client.c:338-392).             *)
THEOREM TextArrivesWhole == TextSpec => []WholeText
<1>1. TextInv => WholeText
  <2> SUFFICES ASSUME TextInv PROVE WholeText
    OBVIOUS
  <2>1. \A i \in 1 .. Len(got) : got[i] = ByteAt(reading, i)
    BY DEF TextInv
  <2>2. ASSUME rpc = "open", nextLen = 0
        PROVE  /\ reading \in DOMAIN texts
               /\ Len(got) = texts[reading]
               /\ reading = Len(texts) => pc # "open"
    <3>1. PICK s, tail, at, first, last : StreamIs(s, tail, at, first, last)
      BY <2>2 DEF TextInv, StreamCoded
    <3>2. <<reading, Len(got)>> \in Finished
      BY <2>2, <3>1 DEF StreamIs, ReaderAt
    <3> QED BY <3>2 DEF Finished
  <2> QED BY <2>1, <2>2 DEF WholeText
<1> QED BY <1>1, AlwaysCoded, PTL
=============================================================================
