----------------------------- MODULE Recordset ------------------------------
(***************************************************************************)
(* How the client library reads a recordset (dbclient_begin_recordset,     *)
(* dbclient_fetch_row, dbclient_next_col_val and dbclient_close_recordset  *)
(* of src/client/dbclient.c over client/pproto_client.c).  The server of   *)
(* the repository sends none yet; what arrives is what protocol_bnf.txt    *)
(* says one consists of, cut off anywhere when the server ends.  An item   *)
(* is what one function of pproto_client.c reads.  The caller gets a value *)
(* in a union, whose first byte is also the mark of a null, the lowest     *)
(* byte of the pointer to its buffer for text, and of a zone.              *)
(***************************************************************************)
EXTENDS Integers, Sequences, FiniteSetsExt, SequencesExt

CONSTANTS
  Recordsets,      \* [cols, rows]: cols of [type, nullable], rows of values
  RowValues,       \* what may be in a row
  ZoneMarks,       \* of these, the times in a zone whose lowest byte is not 0
  Lost,            \* what is in a buffer that was not written to
  NullValue,       \* what a null is in a row
  BITS,            \* bits of a byte of the mask, 8 in the code
  MAX_COLUMNS,     \* DBCLIENT_MAX_COLUMNS
  NullBit,         \* the bit of a null as the server sends it
  MaxRetries       \* bound on the calls for a value that could not be read

Column == [type : STRING, nullable : BOOLEAN]

ASSUME RecordsetAssumption ==
  /\ BITS \in Nat \ {0} /\ MAX_COLUMNS \in Nat /\ MaxRetries \in Nat /\ NullBit \in {0, 1}
  /\ \A r \in Recordsets : r \in [cols : Seq(Column), rows : Seq(Seq(RowValues))]
  /\ \A r \in Recordsets : \A i \in DOMAIN r.rows :
       /\ Len(r.rows[i]) = Len(r.cols)
       /\ \A c \in DOMAIN r.cols : r.rows[i][c] = NullValue => r.cols[c].nullable

VARIABLES
  sent,                   \* the recordset the server sends
  items,                  \* what of it has not been read; then the stream ends
  rstate,                 \* "E", "R", "F" or "A" of client/dbclient.h
  rs_columns, nulls_sz,   \* the description, and the bytes of the mask
  row_nulls, col_idx, nullable_col_idx,
  aligned,                \* are the caller's buffers at a multiple of 256?
  row, cells, found,      \* history: the row, what was taken of it for the
                          \* caller, and what the caller finds
  skipped,                \* history: the caller has not read a row to its end
  rs_ret                  \* what the last call returned
recordsetVars == <<sent, items, rstate, rs_columns, nulls_sz, row_nulls, col_idx,
                   nullable_col_idx, aligned, row, cells, found, skipped, rs_ret>>

----------------------------------------------------------------------------
Item(kind, value) == [kind |-> kind, value |-> value]

(* The columns before c that may be null, and so the bit of c if it may.   *)
NullableBefore(cols, c) == Cardinality({d \in 1 .. c - 1 : cols[d].nullable})
NullsSize(cols) == (NullableBefore(cols, Len(cols) + 1) + BITS - 1) \div BITS

(* A row: its head, the mask byte by byte, and a value for each column     *)
(* that is not null.                                                       *)
IsNull(cols, values, i) ==
  \E c \in DOMAIN cols : cols[c].nullable /\ NullableBefore(cols, c) = i /\ values[c] = NullValue
MaskOf(cols, values) ==
  [b \in 1 .. NullsSize(cols) |->
     Item("mask", [k \in 0 .. BITS - 1 |->
       IF IsNull(cols, values, (b - 1) * BITS + k) THEN NullBit ELSE 1 - NullBit])]
ValueItems(values) ==
  [c \in DOMAIN values |-> IF values[c] = NullValue THEN <<>> ELSE <<Item("value", values[c])>>]
RowItems(cols, values) ==
  <<Item("row", 0)>> \o MaskOf(cols, values) \o FlattenSeq(ValueItems(values))

RecordsetItems(r) ==
  <<Item("col_num", Len(r.cols))>>
  \o [c \in DOMAIN r.cols |-> Item("col", r.cols[c])]
  \o FlattenSeq([i \in DOMAIN r.rows |-> RowItems(r.cols, r.rows[i])])
  \o <<Item("end", 0)>>

RecordsetInit ==
  /\ sent \in Recordsets
  /\ \E n \in 0 .. Len(RecordsetItems(sent)) : items = SubSeq(RecordsetItems(sent), 1, n)
  /\ rstate = "E"                    \* dbclient_execution_status has said so
  /\ rs_columns = <<>> /\ nulls_sz = 0 /\ row_nulls = <<>>
  /\ col_idx = 0 /\ nullable_col_idx = 0
  /\ aligned \in BOOLEAN
  /\ row = 0 /\ cells = <<>> /\ found = <<>> /\ skipped = FALSE /\ rs_ret = "none"

----------------------------------------------------------------------------
(* What is read is not followed any further once it is not what was sent   *)
(* for it, nor what a call through a wrong pointer does.                   *)
Goes == rs_ret \notin {"astray", "crash"}

Reads(kinds) == Len(items) >= Len(kinds) /\ \A i \in DOMAIN kinds : items[i].kind = kinds[i]
Cut(kinds) == Len(items) < Len(kinds) /\ \A i \in DOMAIN items : items[i].kind = kinds[i]
Drop(n) == items' = SubSeq(items, n + 1, Len(items))

(* The stream ends within what a call reads.                               *)
Broken(kinds) ==
  /\ Cut(kinds)
  /\ items' = <<>> /\ rs_ret' = "error"
Astray(kinds) ==
  /\ ~Reads(kinds) /\ ~Cut(kinds)
  /\ items' = <<>> /\ rs_ret' = "astray"

(* Columns beyond the last there is room for are not read.                 *)
ColumnsRead ==
  IF items # <<>> /\ items[1].kind = "col_num" THEN Min({items[1].value, MAX_COLUMNS}) ELSE 0

begin_recordset ==
  LET kinds == <<"col_num">> \o [c \in 1 .. ColumnsRead |-> "col"] IN
  /\ rstate = "E"
  /\ \/ /\ Reads(kinds)
        /\ rs_columns' = [c \in 1 .. ColumnsRead |-> items[c + 1].value]
        /\ nulls_sz' = NullsSize(rs_columns')
        /\ Drop(1 + ColumnsRead)
        /\ rstate' = "R" /\ rs_ret' = "success"
     \/ (Broken(kinds) \/ Astray(kinds)) /\ UNCHANGED <<rstate, rs_columns, nulls_sz>>
  /\ UNCHANGED <<sent, row_nulls, col_idx, nullable_col_idx, aligned, row, cells, found, skipped>>

(* The row counts as begun whatever has been read.                         *)
Masks == <<"row">> \o [b \in 1 .. nulls_sz |-> "mask"]
fetch_row ==
  /\ rstate \in {"R", "F"}
  /\ \/ /\ Reads(<<"end">>)
        /\ Drop(1) /\ rs_ret' = "no_more_rows"
        /\ UNCHANGED <<row_nulls, row>>
     \/ /\ Reads(Masks)
        /\ row_nulls' = [b \in 1 .. nulls_sz |-> items[b + 1].value]
        /\ Drop(1 + nulls_sz)
        /\ row' = row + 1 /\ rs_ret' = "success"
     \/ /\ ~Reads(<<"end">>) /\ Astray(Masks)
        /\ UNCHANGED <<row_nulls, row>>
     \/ /\ Broken(Masks)
        /\ row_nulls' = [b \in DOMAIN row_nulls |->
                           IF b < Len(items) THEN items[b + 1].value ELSE row_nulls[b]]
        /\ UNCHANGED row
  /\ col_idx' = 0 /\ nullable_col_idx' = 0 /\ rstate' = "F"
  /\ cells' = <<>> /\ found' = <<>>
  /\ skipped' = (skipped \/ rs_ret # "success" \/ (rstate = "F" /\ col_idx < Len(rs_columns)))
  /\ UNCHANGED <<sent, rs_columns, nulls_sz, aligned>>

MaskBitByColumn == col_idx        \* mutant: as if every column were nullable
MaskBit == nullable_col_idx

(* Before the first row, and behind the mask, where a caller gets to that  *)
(* asks again for a value that could not be read, there is any bit.        *)
Bit(v) == MaskBit \div BITS < Len(row_nulls) => row_nulls[MaskBit \div BITS + 1][MaskBit % BITS] = v
MayBeNull == rs_columns[col_idx + 1].nullable /\ Bit(1)
MayBeValue == rs_columns[col_idx + 1].nullable => Bit(0)

NoMoreColumns ==
  /\ col_idx = Len(rs_columns)
  /\ rs_ret' = "error"
  /\ UNCHANGED <<items, col_idx, nullable_col_idx, cells, found>>

(* The union when it is said not to hold a null and a value is read into   *)
(* it: a text goes to the address with its lowest byte 0, a zone is there  *)
(* instead of the mark.                                                    *)
Moved(type) == type = "varchar" /\ ~aligned
Left(type, value) ==
  IF Moved(type) THEN Lost
  ELSE IF type = "zoned" /\ value \in ZoneMarks THEN NullValue ELSE value

(* A value of fixed length is read with the socket in place of the handle, *)
(* and what lies below the caller's buffer may be anything.                *)
Value(kinds) ==
  IF rs_columns[col_idx + 1].type = "fixed" THEN rs_ret' = "crash" /\ UNCHANGED items
  ELSE \/ Moved(rs_columns[col_idx + 1].type) /\ Reads(kinds)
          /\ rs_ret' = "crash" /\ UNCHANGED items
       \/ Broken(kinds) \/ Astray(kinds)

next_col_val ==
  /\ rstate = "F"
  /\ \/ NoMoreColumns
     \/ /\ col_idx < Len(rs_columns)
        /\ nullable_col_idx <= col_idx + MaxRetries
        /\ nullable_col_idx' = nullable_col_idx + (IF rs_columns[col_idx + 1].nullable THEN 1 ELSE 0)
        /\ \/ /\ MayBeNull
              /\ cells' = Append(cells, NullValue) /\ found' = Append(found, NullValue)
              /\ col_idx' = col_idx + 1 /\ rs_ret' = "success"
              /\ UNCHANGED items
           \/ /\ MayBeValue /\ rs_columns[col_idx + 1].type # "fixed" /\ Reads(<<"value">>)
              /\ cells' = Append(cells, items[1].value)
              /\ found' = Append(found, Left(rs_columns[col_idx + 1].type, items[1].value))
              /\ Drop(1)
              /\ col_idx' = col_idx + 1 /\ rs_ret' = "success"
           \/ MayBeValue /\ Value(<<"value">>) /\ UNCHANGED <<cells, found, col_idx>>
  /\ skipped' = (skipped \/ rs_ret # "success")
  /\ UNCHANGED <<sent, rstate, rs_columns, nulls_sz, row_nulls, aligned, row>>

(* The cancel may not get out; what the server has sent is not read.       *)
close_recordset ==
  /\ rstate \in {"R", "F"}
  /\ \/ rstate' = "A" /\ rs_ret' = "success"
     \/ items = <<>> /\ rs_ret' = "error" /\ UNCHANGED rstate
  /\ UNCHANGED <<sent, items, rs_columns, nulls_sz, row_nulls, col_idx, nullable_col_idx,
                 aligned, row, cells, found, skipped>>

RecordsetNext == Goes /\ (begin_recordset \/ fetch_row \/ next_col_val \/ close_recordset)

RecordsetSpec == RecordsetInit /\ [][RecordsetNext]_recordsetVars

----------------------------------------------------------------------------
CellsTrue == \A c \in DOMAIN cells : cells[c] = sent.rows[row][c]

Survives(c) == IF sent.cols[c].type = "varchar" THEN aligned ELSE cells[c] \notin ZoneMarks
FoundTrue == \A c \in DOMAIN cells : Survives(c) => found[c] = sent.rows[row][c]

(* For a caller that reads every row to its end the library takes each     *)
(* value of each column of each row from the stream and no other, and a    *)
(* null where there is one, however many of the columns may be null, and   *)
(* tells of the end behind the last row, unless the stream broke           *)
(* (dbclient.c:556-753, pproto_client.c:275-309), where there is room for  *)
(* the columns and none is of a fixed length.  The caller finds a text if  *)
(* its buffer lies at a multiple of 256, and a time with a zone if the     *)
(* lowest byte of that is 0: the members of dbclient_value share it with   *)
(* isnull (dbclient.h:58-78).                                              *)
ValuesInPlace ==
  /\ NullBit = 1
  /\ Len(sent.cols) <= MAX_COLUMNS
  /\ \A c \in DOMAIN sent.cols : sent.cols[c].type # "fixed"
  /\ ~skipped
  => /\ CellsTrue /\ FoundTrue
     /\ rs_ret = "no_more_rows" => row = Len(sent.rows)
     /\ rs_ret # "astray"

(* protocol_bnf.txt:46 and pproto_client.h:33: a bit of the mask is 0 for  *)
(* a null and 1 for a value.                                               *)
NullsAsDocumented ==
  ~skipped => CellsTrue
=============================================================================
