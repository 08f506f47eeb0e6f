----------------------------- MODULE TextString -----------------------------
(***************************************************************************)
(* Text strings from the server to the client: pproto_server_send_str and  *)
(* its begin and end (pproto_server.c:248-366), which build the chunks in  *)
(* the send buffer itself, and pproto_client_read_str with its begin and   *)
(* end (pproto_client.c:313-392), which put the chunks together again or   *)
(* cancel the rest.                                                        *)
(*                                                                         *)
(* A byte of text is a number of its own for each string and place there;  *)
(* the reader does not look at it.  What is no length is below 0.          *)
(***************************************************************************)
EXTENDS Integers, Sequences

CONSTANTS
  SendSize,     \* send_buf_size, 8192 in the code
  ChunkMax,     \* the longest chunk, 255 in the code
  MaxChar,      \* ENCODING_MAXCHAR_LEN, 4 in the code
  ReadSizes,    \* sizes of the buffers pproto_client_read_str is given
  MaxText,      \* bound on the bytes of a string
  MaxStrings,   \* bound on the strings
  OtherSizes,   \* sizes of the messages that may come before a string
  MaxOthers     \* bound on them

ASSUME TextAssumption ==
  /\ SendSize \in Nat
  /\ ChunkMax \in Nat
  /\ MaxChar \in Nat \ {0}
  /\ ChunkMax > MaxChar
  /\ SendSize > 2 * (ChunkMax + 1)      \* the assertion of line 255
  /\ MaxText \in Nat
  /\ OtherSizes \subseteq 1 .. SendSize

VARIABLES
  pc,           \* server: "idle", "open" in a string, "refused", "failed"
  sbuf,         \* send_buf below send_buf_ptr
  lastLen,      \* last_chunk_len_ptr, as a place in sbuf
  chunkLen,     \* chunk_len
  texts,        \* history: bytes given for each string so far
  others,       \* other messages sent
  wire,         \* what the client has still to read
  rpc,          \* client: what it reads next
  nextLen,      \* next_chunk_len
  room,         \* sz of pproto_client_read_str
  read,         \* bytes it has read
  draining,     \* it is called from pproto_client_read_str_end
  reading,      \* strings the client has begun
  got           \* text handed over of the string being read

serverVars == <<pc, sbuf, lastLen, chunkLen, texts, others>>
clientVars == <<rpc, nextLen, room, read, draining, reading, got>>
textVars == <<serverVars, wire, clientVars>>

Unset == -1       \* what a chunk's length holds before it is known
Magic == -2       \* PPROTO_UTEXT_STRING_MAGIC
Other == -3       \* a byte of another message
ByteAt(k, i) == Other - ((MaxText + 1) * k + i)

TextInit ==
  /\ pc = "idle" /\ sbuf = <<>> /\ lastLen = 0 /\ chunkLen = 0
  /\ texts = <<>> /\ others = 0
  /\ wire = <<>>
  /\ rpc = "idle" /\ nextLen = 0 /\ room = 0 /\ read = 0
  /\ draining = FALSE /\ reading = 0 /\ got = <<>>

----------------------------------------------------------------------------
(* pproto_server_send of one byte into the buffer s: what it holds then,   *)
(* and what was written to the socket because it was full.                 *)
Put(s, b) == IF Len(s) = SendSize THEN <<b>> ELSE Append(s, b)
Spilled(s) == IF Len(s) = SendSize THEN s ELSE <<>>

(* A message of n bytes without a flush of its own: a string is a part of  *)
(* it, or follows it.                                                      *)
SendOther(n) ==
  /\ pc = "idle"
  /\ others < MaxOthers
  /\ Len(sbuf) + n <= SendSize
  /\ others' = others + 1
  /\ sbuf' = sbuf \o [i \in 1 .. n |-> Other]
  /\ UNCHANGED <<pc, lastLen, chunkLen, texts, wire, clientVars>>

(* The buffer is written out when a whole chunk may not fit behind the     *)
(* string's type.                                                          *)
Anywhere(s) == Len(s) >= SendSize - 1      \* mutant: a length has to fit
Crowded(s) == Len(s) >= SendSize - (ChunkMax + 2) - MaxChar

send_str_begin ==
  /\ pc = "idle"
  /\ Len(texts) < MaxStrings
  /\ LET typed == Put(sbuf, Magic) IN
       /\ wire' = wire \o Spilled(sbuf) \o (IF Crowded(typed) THEN typed ELSE <<>>)
       /\ sbuf' = Append(IF Crowded(typed) THEN <<>> ELSE typed, Unset)
  /\ lastLen' = Len(sbuf')
  /\ chunkLen' = 0
  /\ texts' = Append(texts, 0)
  /\ pc' = "open"
  /\ UNCHANGED <<others, clientVars>>

(* No chunk may fit behind the first n bytes of the buffer.                *)
RoomForOne(n) == n >= SendSize - MaxChar     \* mutant: a character has to fit
NoRoom(n) == n >= SendSize - (ChunkMax + 1) - MaxChar

(* The overflow of a chunk moves up by one to make place for the length    *)
(* of the next.  Source and destination overlap and memcpy may do anything *)
(* then; the C library of the build reads up to three bytes before it      *)
(* writes any.                                                             *)
Smeared(over) == [i \in 1 .. Len(over) |-> over[1]]   \* mutant: byte by byte
Shifted(over) == over

(* One character of a call of send_str, of n bytes once it is converted.   *)
send_str(n) ==
  /\ pc = "open"
  /\ LET k == Len(texts)
         filled == sbuf \o [i \in 1 .. n |-> ByteAt(k, texts[k] + i)]
         over == chunkLen + n - ChunkMax
         slot == Len(filled) - over + 1
         full == [SubSeq(filled, 1, slot - 1) EXCEPT ![lastLen] = ChunkMax]
         next == <<Unset>> \o Shifted(SubSeq(filled, slot, Len(filled)))
     IN
     /\ texts[k] + n <= MaxText
     /\ texts' = [texts EXCEPT ![k] = @ + n]
     /\ \/ /\ over < 0
           /\ sbuf' = filled
           /\ chunkLen' = chunkLen + n
           /\ UNCHANGED <<lastLen, wire>>
        \/ /\ over >= 0
           /\ chunkLen' = over
           /\ \/ /\ NoRoom(Len(filled) + 1)
                 /\ wire' = wire \o full
                 /\ sbuf' = next
                 /\ lastLen' = 1
              \/ /\ ~ NoRoom(Len(filled) + 1)
                 /\ sbuf' = full \o next
                 /\ lastLen' = slot
                 /\ UNCHANGED wire
  /\ UNCHANGED <<pc, others, clientVars>>

(* A call of send_str that finds no room: it and the message fail.         *)
send_str_refused ==
  /\ pc = "open"
  /\ NoRoom(Len(sbuf))
  /\ pc' = "refused"
  /\ UNCHANGED <<sbuf, lastLen, chunkLen, texts, others, wire, clientVars>>

(* A character of no length, or send() fails: the child ends.              *)
ServerFails ==
  /\ pc \in {"idle", "open"}
  /\ pc' = "failed"
  /\ UNCHANGED <<sbuf, lastLen, chunkLen, texts, others, wire, clientVars>>

(* The terminator is a chunk of length 0: the chunk begun, if it is empty. *)
NeedsOne == chunkLen > 0

send_str_end ==
  /\ pc = "open"
  /\ LET closed == [sbuf EXCEPT ![lastLen] = chunkLen] IN
       wire' = wire \o (IF NeedsOne THEN Append(closed, 0) ELSE closed)
  /\ sbuf' = <<>>
  /\ chunkLen' = 0
  /\ pc' = "idle"
  /\ UNCHANGED <<lastLen, texts, others, clientVars>>

Server ==
  \/ send_str_begin \/ send_str_refused \/ ServerFails \/ send_str_end
  \/ \E n \in OtherSizes : SendOther(n)
  \/ \E n \in 1 .. MaxChar : send_str(n)

----------------------------------------------------------------------------
(* The client.  pproto_client_get blocks until the bytes it wants are      *)
(* there; it fails when they will not come.                                *)
Take(n) ==
  /\ Len(wire) >= n
  /\ wire' = SubSeq(wire, n + 1, Len(wire))

ReadOther ==
  /\ rpc = "idle"
  /\ wire # <<>> /\ Head(wire) = Other
  /\ Take(1)
  /\ UNCHANGED <<serverVars, clientVars>>

(* The type of a string is not looked at, unless it says that a length     *)
(* comes first, which the server never sends.                              *)
read_str_begin ==
  /\ rpc = "idle"
  /\ wire # <<>> /\ Head(wire) # Other
  /\ Take(1)
  /\ rpc' = "first_len"
  /\ reading' = reading + 1
  /\ got' = <<>>
  /\ UNCHANGED <<serverVars, nextLen, room, read, draining>>

ReadFirstLen ==
  /\ rpc = "first_len"
  /\ Take(1)
  /\ nextLen' = Head(wire)
  /\ rpc' = "open"
  /\ UNCHANGED <<serverVars, room, read, draining, reading, got>>

(* A call with a buffer of n bytes; with nothing left to read, or too      *)
(* small a buffer for the first chunk, it returns at once.                 *)
read_str(n) ==
  /\ rpc = "open"
  /\ nextLen # 0
  /\ nextLen <= n
  /\ room' = n
  /\ read' = 0
  /\ rpc' = "chunk"
  /\ UNCHANGED <<serverVars, wire, nextLen, draining, reading, got>>

ReadChunk ==
  /\ rpc = "chunk"
  /\ Take(nextLen)
  /\ read' = read + nextLen
  /\ got' = IF draining THEN got ELSE got \o SubSeq(wire, 1, nextLen)
  /\ rpc' = "chunk_len"
  /\ UNCHANGED <<serverVars, nextLen, room, draining, reading>>

(* The length of the next chunk is read before it is known to fit.  When   *)
(* it does not the call returns, and read_str_end calls again until there  *)
(* is nothing left.                                                        *)
GoesOn(next) == next # 0 /\ (next + read <= room \/ draining)

ReadChunkLen ==
  /\ rpc = "chunk_len"
  /\ Take(1)
  /\ nextLen' = Head(wire)
  /\ rpc' = IF GoesOn(nextLen') THEN "chunk" ELSE IF draining THEN "idle" ELSE "open"
  /\ read' = IF draining /\ nextLen' + read > room THEN 0 ELSE read
  /\ draining' = (draining /\ rpc' # "idle")
  /\ UNCHANGED <<serverVars, room, reading, got>>

(* pproto_client_read_str_end: CANCEL is sent when the string is not read  *)
(* to its end, and the rest is read all the same.                          *)
LeavesRest == FALSE       \* mutant: ... and the rest is left
SkipsRest == nextLen # 0

read_str_end ==
  /\ rpc = "open"
  /\ \/ /\ SkipsRest
        /\ rpc' = "chunk"
        /\ draining' = TRUE
        /\ room' = ChunkMax
        /\ read' = 0
     \/ /\ ~ SkipsRest
        /\ rpc' = "idle"
        /\ UNCHANGED <<room, read, draining>>
  /\ UNCHANGED <<serverVars, wire, nextLen, reading, got>>

ReadFails ==
  /\ pc \in {"refused", "failed"}
  /\ \/ rpc \in {"first_len", "chunk_len"} /\ wire = <<>>
     \/ rpc = "chunk" /\ Len(wire) < nextLen
  /\ rpc' = "error"
  /\ UNCHANGED <<serverVars, wire, nextLen, room, read, draining, reading, got>>

Gets == ReadFirstLen \/ ReadChunk \/ ReadChunkLen \/ ReadFails

Client ==
  \/ ReadOther \/ read_str_begin \/ Gets \/ read_str_end
  \/ \E n \in ReadSizes : read_str(n)

TextNext == Server \/ Client

TextSpec == TextInit /\ [][TextNext]_textVars

----------------------------------------------------------------------------
(* What the client is handed over of a string is what the server was given *)
(* for it, from the first byte on, whatever the lengths of its characters, *)
(* the chunks and the flushes in between; and a string that is over for    *)
(* the client and was not cancelled is there as a whole                    *)
(* (pproto_server.c:299-349, pproto_client.c:338-392).                     *)
WholeText ==
  /\ \A i \in 1 .. Len(got) : got[i] = ByteAt(reading, i)
  /\ rpc = "open" /\ nextLen = 0 =>
       /\ reading \in DOMAIN texts
       /\ Len(got) = texts[reading]
       /\ reading = Len(texts) => pc # "open"

(* Each string begins where the one before it ended, cancelled or not, and *)
(* each chunk where its length says: lengths are lengths and text is text  *)
(* (pproto_server.c:355-366, pproto_client.c:372-392).                     *)
StringsApart ==
  /\ rpc = "idle" /\ wire # <<>> => Head(wire) \in {Magic, Other}
  /\ rpc \in {"first_len", "chunk_len"} /\ wire # <<>> => Head(wire) \in 0 .. ChunkMax

(* Whatever character comes, it and the length of a further chunk fit into *)
(* the buffer, which send_str writes to without asking                     *)
(* (pproto_server.c:259-264, 308-345).                                     *)
NextCharFits ==
  pc = "open" => Len(sbuf) + MaxChar + 1 <= SendSize

(* A call of send_str is refused only inside a chunk: a text given in one  *)
(* call never is (pproto_server.c:292-297).                                *)
RefusedInsideChunk ==
  pc = "refused" => chunkLen > 0

(* Why the two hold: an open chunk began early enough in the buffer.       *)
ChunkHasRoom ==
  /\ sbuf \in Seq(Int)
  /\ texts \in Seq(Nat)
  /\ pc = "open" =>
       /\ texts # <<>>
       /\ lastLen \in 1 .. SendSize - (ChunkMax + 2) - MaxChar
       /\ chunkLen \in 0 .. ChunkMax - 1
       /\ Len(sbuf) = lastLen + chunkLen
=============================================================================
