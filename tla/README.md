# A formal model of persistence

`persistence` is the skeleton of an SQL database server in C: a listener that
forks a child for every client, the child's session (greeting, authentication,
statements), the protocol both ends speak, a client library with an interactive
client, a lexer, a parser and the beginnings of an evaluator.  This directory
models the parts in which a mistake is hard to see and hard to test, checks them
with TLC on small instances and proves what matters most for all instances with
TLAPS.

## The system

| component | source | state | operations | what is hard | what makes it correct |
|---|---|---|---|---|---|
| listener | `session/listener.c`, `session/main.c` | listening socket, one connection at a time | accept, fork, shutdown, close | the connection is shared by parent and child | a child serves its client to the end |
| session | `session/session.c`, `execution/execution.c` | `g_session_state`: encoding, user, lexer | create, greet, authenticate, request loop, statement | any message at any time, the client vanishing between any two bytes | nothing executed before authentication; every attempt answered once; the dialogue in order |
| protocol, server side | `session/pproto_server.c` | `g_pproto_server_state`: two buffers with pointers, bytes left in a chunk | message types, numbers, chunked texts, credentials | chunks end anywhere, a text may be abandoned, read errors half way | the next message is looked for where it begins |
| protocol, client side | `client/pproto_client.c` | `pproto_client_state`, the same buffers | the mirror image, with recordsets | buffers survive the connection | what is read is what was sent |
| client library | `client/dbclient.c` | `dbclient_session`: state D, C, A, S, E, R, F | connect, authenticate, statement, status, cancel, recordset, close | called in any order, over several connections | what the client believes is true of the server |
| psql | `client/main.c` | terminal input | a loop over the library | | |
| lexer | `parser/lexer.c`, `common/string_literal.c` | current and next character, position | next, reset, errors | the end of the text comes with its last character | the lexemes are those of the text |
| parser | `parser/parser.c`, `parser/semantics.c` | current lexem, tree under construction, an operator read too far | one function per statement, expressions by precedence | decisions on stale words and modes; nodes overwritten in place; the tree moves when it grows | it takes what `syntax.txt` documents; the tree is that of the text |
| evaluator | `execution/expression.c`, `common/stack.c` | the tree, a stack | constant parts of an expression | a walk without recursion over a tree that changes; NULL and errors | what it computes is the value |
| decimal | `common/decimal.c` | | add, subtract, multiply, divide, compare | carries, alignment, overflow | agrees with arithmetic |
| calendar | `calendar/grigorian.c`, `common/dateop.c` | | dates to seconds and back | leap years | agrees with counting days |
| hash table | `common/htable.c` | open addressing | add, search | collisions, a full table | is a map |
| encodings | `common/encoding.c` | | build, convert and measure characters | incomplete and invalid sequences | |
| formatting | `common/strop.c`, `client/printing.c` | | dates and numbers by template | | |
| logger | `logging/logger.c` | current file, its size | write, rotate | parent and children share a file | every message reaches a file |
| configuration | `config/config.c` | table of entries | read once | | |
| authentication | `auth/` | | hash (SHA-3), check | the check is a stub that grants everybody | |

How they meet: the listener accepts and forks; the child runs the session, which
calls the protocol, which reads and writes the socket through its two buffers;
a request makes the session call the parser, which pulls lexemes from the lexer,
which pulls characters from the protocol, so a text is parsed while it arrives;
the lexer and the parser report errors back through the protocol.  The client
library is the mirror image.  Everything in a process is sequential: what runs
concurrently are the client, the parent and the children, over sockets and a log
file.

## Modules

| module | what it models |
|---|---|
| `Session` | the child of one client: `session.c`, the message level of `pproto_server.c`, the driver of `execution.c`; the client and the parent as environment |
| `SessionProps` | its properties |
| `SessionAutomaton` | the table drawn in `session.c:13-41`, cell by cell, and what a step may do by it |
| `SessionClients` | a session with a client that forms its messages as the protocol has them, or with any client |
| `SessionProofs` | theorems about `Session`, `SessionClients` and the client library |
| `DbClient`, `DbClientProps` | the client library composed with `Session`, over several connections, what must hold between the two |
| `RecvBuffer` | the receive buffer both ends have |
| `SendBuffer` | the send buffer both ends have |
| `Channel`, `ChannelProofs` | send buffer, stream and receive buffer composed, theorems about the receive buffer and about all three, and about `Recordset` |
| `TextString`, `TextStringProofs` | texts in chunks, from the server's send buffer to the client's reader, theorems about it |
| `Recordset` | how the client library reads a recordset |
| `Lexer`, `LexerProps`, `LexerProofs` | the lexer over the characters of a statement, what its lexemes are, theorems about it |
| `Grammar` | grammars as data: a step of a predictive parser, what a documented grammar leaves to read |
| `Statements` | which texts the statement parser takes: every `parser_parse_*` function |
| `Syntax` | the grammar of `syntax.txt`, read along with the parser |
| `ExprTree`, `ExprProps` | how the parser builds the tree of an expression, what the tree promises about its text |
| `Folding` | the walk over a tree that computes its constant parts, against a recursive reading |
| `ExprProofs` | theorems about the walk and about the tree that is built |
| `Decimal`, `DecimalProps`, `DecimalProofs` | decimal numbers limb by limb, against integers, theorems about them |
| `Numerals` | what numbers written with digits are worth: linear recurrences, powers of ten |
| `Calendar` | dates made and taken apart |
| `Strop`, `StropDecimal`, `StropDate` | numbers and dates as text (what is proved of numbers as text is in `DecimalProofs`) |
| `KeyMap` | the abstract specification of a hash table: a map |
| `Htable` | the hash table probe by probe, refined to `KeyMap` |
| `Logger` | the log of the listener and the sessions it forks |
| `LibraryProofs` | theorems about `Htable`, `Logger`, `Calendar` and `StropDate` |
| `SequenceLemmas` | lemmas the proofs share: least and largest elements, `FlattenSeq` part by part, linear recurrences step by step |

The modules whose names begin with `MC` are instances for TLC.  `MCSession` gives
`SessionClients` its messages; `MCParser` and `MCLibrary` put parts that do not touch each
other into one run, in which a variable `part` says which of them moves and the others
stand still: `MCParser` the two buffers with the stream between them, the parser, the
trees and the walk, `MCLibrary` decimals, their text, calendar, dates as text, hash table,
log, text strings and recordsets.

### Session

The child is one sequential process, so its program counter is a variable `pc`
that names the point of `session_auth_client`, `session_enter_repl` or
`execution_exec_statement` it has reached; each action is what the code does from
one blocking call to the next.  `chunkLeft`, `userId` and `clientEnc` are the
fields of `g_pproto_server_state` and `g_session_state`; `wr` is the local
variable of `pproto_server_read_str`.  `inp` holds the bytes sent and not yet
read, because where a message begins is what the code can lose; a byte carries a
mark that says whether a message begins with it, which no action looks at.  `out`
is the sequence of messages sent, as each is flushed whole.

Details of the code the model keeps: `pproto_server_read_msg_type` takes the
second byte of what looked like a hello for a type; `pproto_server_read_str_begin`
takes every type byte but one for an unbound text; an invalid character ends the
reading of a name before it is consumed; the length of the next chunk is read with
the last byte of a chunk; a text that does not fit is cancelled with a message and
then skipped; every failure of `pproto_server_read_auth`, an i/o error too, is
answered as wrong credentials; the server reports a syntax error and then ends the
session; `recv()` returning 0 is an error; writing to a connection that is broken
or shut down raises SIGPIPE, which nobody handles.

`SessionAutomaton` is instantiated twice in `SessionProps`, with a monitor that tells of
each step which message was heard, by the condition of the table it meets (a to g), and
not only in which state the session is afterwards.  `FollowsTable` lets it leave
the table in the five cells of `Violations` and nowhere else; `TableAsDrawn` in none, and the
run `session_table` has TLC violate it.  In state 2, authenticated, the table goes on
after a hello, credentials, right or wrong, a cancel and an incorrect message, and the
code ends the session (`session.c:166-169`).  The table's way from state 3 to 2 by a cancel
is never taken: while a statement is executed no message type is read, and a cancel sent
then is heard afterwards, in state 2, where it ends the session.  `session.h:9-37` draws
the same table but for one cell.

Abstracted: every character is one byte and a byte above 127 stands for an invalid
one; the parse of a statement either succeeds (only at the end of a text of more
than one character), reports an error and fails, or fails silently, at any point;
logging and the one-second pause are left out.

### DbClient

One application calls the functions of `dbclient.c` in any order.  A call that reads is in
progress while `call` names the read, so the server's steps interleave with it.  `sbuf`
and `rbuf` are the buffers of `pproto_client.c` and are kept from one connection to the
next, as in the code.  `handle` is `ss->pproto_client_session`, which
`dbclient_allocate_session` does not assign: it holds what the memory held before, and
unless that was right `dbclient_connect` writes through it.  Messages come whole: a call
that has a part of one goes on waiting and nothing else reads it; what the buffer does
with a part is in `RecvBuffer`.  The functions for recordsets are in `Recordset`: this
server sends none.

### RecvBuffer, SendBuffer, Channel

`RecvBuffer` has the buffer, its two pointers and the loop of `pproto_get`:
copying and receiving are separate steps, so the peer sends in between.
`SendBuffer` has the loop of `pproto_send` with its copy size, and the flushes.
`Channel` composes them over one stream.  Bytes are numbered in the order the
callers gave them, so an order is a comparison; 0 is a byte that lies behind the
data of a call.

### TextString

The server writes the characters of a text straight into the send buffer, behind a
byte kept for the length of the chunk, which it fills in when the chunk is full or
the text ends; `sbuf`, `lastLen` and `chunkLen` are the buffer, `last_chunk_len_ptr`
and `chunk_len`.  An action is one character of `send_str`: what it does to the
chunk, the overflow of a character that crosses its end, the flush of the chunks
that are complete.  A text may be given in any number of calls, and a message may lie
before it in the buffer.  The client reads piece by piece from `wire`, with buffers
of its own, and may stop: then `read_str_end` sends CANCEL and skips the rest (the
server looks at the CANCEL only when it reads its next message, see `Session`).
Between sockets the stream is the one of `RecvBuffer`, whose order is proved, so
`wire` holds what is not read yet.  A byte is a number: a length as it is sent, and below 0
a length that is not known yet, the mark before a string, other messages, and each byte of
each text by its place, so that no byte is taken for another however long the texts are.

The overflow moves up by one place with `memcpy`, though source and destination
overlap when a character has three bytes behind the end of a chunk or two.  C leaves
the result open; the model has what the C library of the build does, which reads up to
three bytes before it writes, and the mutant of `WholeText` is the other outcome.

What is left to the caller of the library: a buffer smaller than the first chunk is
refused (`ENOBUFS`) and the text stays where it is; `TextString` lets the caller try
again or finish.

### Recordset

An item of `items` is what one function of `pproto_client.c` reads: the number of
columns, a column's description, the head of a row, a byte of the mask, a value, the
end.  The server of the repository has nothing that sends them, so what arrives is
made of `protocol_bnf.txt:29-57` and cut off anywhere, as when the server dies.  The
four functions of the library are called in any order.  Where a function would read
something that was not sent for it, `rs_ret` becomes `"astray"` and the behaviour is
not followed further; a value of fixed length ends in `"crash"`, because
`dbclient.c:738` hands the socket to a function that takes the protocol's handle.
`skipped` remembers that the caller left a row before its end or went on after an
error, since then the code makes no promise: asking again for a value that could not
be read moves on in the mask (`nullable_col_idx`, at most `MaxRetries` times here)
but not in the columns.

The caller hands over a `dbclient_value`, a union (`dbclient.h:58-78`) in which the mark
of a null shares its byte with every kind of value, with the pointer to the caller's
buffer for a text among them.  So `cells` is what the library takes from the stream for
each column, and `found` what the caller then finds.  The library sets the mark to 0
before it looks (`dbclient.c:708`) and so clears the lowest byte of the pointer: a text
arrives in its buffer only if this lies at a multiple of 256 (`aligned`), otherwise up to
255 bytes below it, which may as well crash.  A value read over the mark may look like
one: of the types the model tells apart a time with a zone whose lowest byte is not 0
(`ZoneMarks`) is found as a null. `ValuesInPlace` claims of `found` only what `Survives`
leaves.  psql does not notice either: `read_and_format_value` (`client/main.c:255-307`)
never asks for the mark.

### Lexer

The text is not given but comes into being: each step looks at the character read last and
reads any other one, as `lexer_next_ch` does with what `pproto_server_read_char` hands it,
or the end, or a character that cannot be read. `num_mode` may be changed between two
lexemes, which is what the parser does.  `lexems` keeps what was returned with the piece
of text it was made of, so that the properties speak of text and not of the way it is
read.  The end of the statement arrives with its last character, whatever that is, and the
lexer looks only at the end (`pproto_server.c:544`, `lexer.c:455`): in `text` the end
stands where the last character would.  psql does not send its delimiter
(`client/main.c:483-487`), so the character that is lost is the statement's own. Of a
number `value` has what its digits are worth, how many there are and how many stand behind
the point; how the code puts them into limbs in the end (`lexer.c:685-693`) is left out,
and `Decimal` starts from the limbs. Characters are members of small sets, by what the
lexer tells apart; `Width` is how many bytes a character of more than one byte has in a
name or a literal.  A string literal is the sequence of its characters (`string_literal.c`
puts them into a buffer and, from its size on, into a file).

### Grammar, Statements, Syntax

Each `parser_parse_*` function is the list of what it reads: a lexem that has to be
there, another function, or a decision on the lexem at hand (`At`, `Opt`, `While`).
`parser_parse` gives the parser one lexem after the other, any that the lexer can
produce; `stack` is what the functions that were called still have to read.  Two
pieces of state go beyond that, since the code may get them wrong: `int`, whether
the lexer reads integers, which is changed back one lexem late after a precision,
and `word`, the reserved word read last, which the test for ORDER looks at without
looking at the type of the lexem.

`Syntax` has the productions of `syntax.txt`, conditions (`<conditional_expr>`,
`<predicate>`) apart from expressions as the document has them, and keeps, in `open`, all
that a documented statement may have behind what was read.  So the two properties compare
languages and not single texts.  The parser and the document disagree in twenty places,
and each has a name: sixteen `Liberties`, which the parser takes and the document has not,
and four `Refusals`, which the document has and the parser turns down.  `reading` says
which of two grammars a text is held against.  `AllDocumented` is about the one that
has to be taken, the document without the Refusals; `OnlyDocumented` about the one that may
be taken, the document with the Liberties.  Each of the twenty is needed: without one of
them TLC finds a text.

Taken and not documented (`parser.c`, `syntax.txt:13-160`):

* in expressions: a sign behind NOT (`NOT -a`); NOT behind another operator (`a + NOT b`);
  any operand behind IS (`a IS 5`, where line 39 has `NULL` and `NOT NULL`); another
  operator behind an IS;
* any expression as a condition, without a comparison (`WHERE a`, lines 59-60 and 72-80),
  and a list of expressions behind HAVING (`HAVING a + b, c`, line 83);
* an alias that is `AS` without a name, and in UPDATE a name without `AS`; a join that is
  any one of its words (`LEFT` alone) and one without an item;
* a comma that ends the constraints of a table; `ADD` without a datatype; `ALTER TABLE t
  RENAME` (the check of what follows is inside the test for a reserved word); `WITH TIME
  ZONE`; a precision without a scale; `VARCHAR` without a length.

Documented and turned down:

* a number that begins with its point (`.5`, line 53);
* a sign behind a comparison in a condition (`WHERE a = -1`, line 80: an expression stands
  there, and one may begin with a sign, line 30);
* what line 83 has behind the comma of HAVING, any number of predicates without commas
  between them, so also a comma with nothing behind it;
* in DELETE an alias with a qualifier (`DELETE FROM t AS a.b`, line 98 has `<name>`).

Where the document has to be read one way or another, the head of `Syntax` says which way
is taken.  `IS` and `NOT` decide what a text is, the other levels of operators only what
its tree is. The exponent of a number is the lexer's and in no production: it needs a sign
(`1e5` is an error, `lexer.c:708-711`), and `Syntax` sees a number as one lexem.

### ExprTree, Folding

`calls` is the stack of activations of `parser_parse_expr_with_op_prio`, with its
local `node_for_level`, and `tree` the heap of nodes, which the code copies and
overwrites in place.  Each action is what one of the functions does with one
lexem.  Only texts that `Statements` takes are tried.

The tree is not the documented one.  When an operator binds less tightly than the
one before it, the code goes back to `node_for_level` of its level.  That is the
root as long as the level has not occurred, whatever the root is by then: so
`x = x * x + x` is read as `(x = x * x) + x` and `a OR b = c AND d` as
`(a OR b = c) AND d`.  Or it is a node that has meanwhile been moved to the left of a
looser operator, and then the operator is put there: `a + b + c = d * e + f` is read
as `a + ((b + c) + f) = d * e` (run `text_reordered`).  Operators of one level
associate to the right (`a - b - c` is `a - (b - c)`), which `syntax.txt` leaves open
and a test of the repository expects.  What does hold is checked: nothing is lost or
moved as long as a text has no more than four operators, or operators of two levels
(`FewOperators`), and what stands to the right of an operator binds at least as tightly,
in every text.

`Folding` has the loop of `expression_calc_const_expr`, one turn an action: with no
recursion and no marks, only the address it came back from tells it which operand
is done.  Operators above a name stay.  Comparisons with NULL are false, arithmetic
with NULL is NULL, AND, OR and NOT of NULL are errors, and `FALSE IS FALSE` is
false: that is what the code does, and nothing in the repository says otherwise.

### Decimal, StropDecimal

The code has ten limbs of base 10000; the model has `Parts` limbs of base `10 ^ Log10` (at
most four digits, a limb has 16 bits), in the runs three of base 100, so that everything
is reached (carries over limbs, a full mantissa, the correction of a trial quotient) and
the integers of TLC can be the reference.  A literal is `Sized`: its limbs are below the
base, and it counts no less digits than it has.  Operations are functions of whole
numbers, one action each: they have no state of their own.  `Stale` stands for limbs the
code never writes.  The result of an operation may be an operand of the next, as in an
expression.

What is asserted leaves out where the code is wrong, and says so in its guard:

* a difference has the sign of the operand with more digits when the operands were
  exchanged: 3 - 5 is 2 (`decimal.c:463-590`);
* a product that does not fit is cut off at a place computed from the number of limbs,
  not of digits, and `n` of it is not that of the mantissa;
* dividing by a number that counts more limbs than it has, as the literal `0.00001`,
  or by a literal zero that counts digits, reads outside the buffers; a divisor much
  longer than the dividend leaves low limbs unwritten;
* `decimal_cmp`: see the run `decimal_cmp`.

A division by a number of several limbs writes one limb behind its buffer
(`decimal_mul_by_digit` at `decimal.c:98`, called for the divisor at 348), always a 0.
What lies there is the compiler's choice; the model takes it that nothing in use does.

`StropDecimal` is the text of a number: by a template (digits, separator, exponent) or,
without one, in the format of a column.  `NumberAsPrinted` reads the text back.

### Calendar, StropDate

A date is a day and a second of it.  `make_date_with_time` and the functions that take a
date apart are those of `grigorian.c`, reached through `dateop.c`; there is one calendar.
Years are bounded by `MaxYear`: the code multiplies in 64 bits and does not check the year
(`grigorian.c:139`), so the seconds of a year beyond some 584 thousand million wrap; such
years are not followed.  `StropDate` walks a template as `strop_fmt_dttm_all` does, one
step for each piece of it, for two stamps at once, so that an invariant can compare the
texts; the buffer may be too small.  A template comes with the smallest unit it shows;
`StropDateAssumption` says that it then shows the units down to that one, each once and in
this order, whatever else is between them.

### Htable, KeyMap

A step of `Htable` is one probe of `htable_entry`, a call is under way while `asked` names
it.  `Hashes` are all functions from three keys to 0..3 and thus, modulo the size of the
table, every way keys may collide.  `KeyMap` is what a caller can rely on, which is less
than `htable.h:38-40` says ("non-0 when not enough memory"): a table counts what it adds,
and an entry that is overwritten counts again (`htable.c:46-75`), so the number of entries
it still takes is kept apart from those it holds, and no property objects.

### Logger

Every process has its own copy of `g_logger_state` and of the table of descriptors;
accept, fork and the closes of `listener.c` are steps, since the number of a
descriptor is what a process knows of its log and the lowest free one is what it gets
next.  `write` takes a part, or nothing, or fails; its result is kept unsigned, so the
total goes back by one, modulo `SizeModulus`.  Closing the log may fail, and so may
opening it again.

A log is named after the second it is opened in and is opened to append (`logger.c:121,
139`), so a log here is a second: whoever opens one in the same second goes on with the
same file.  `Tick` lets a second pass, at any time; the clock does not go back and `time()`
does not fail.  `put`, `opened` and `errors` are what each process did to each log.

`RotatesInTime` is what the code does keep: whenever a process opens a log, or has it from
a fork, it adds less than the threshold and one message to it.  It is not what
`persistence.cfg:11-12` says, "maximum log file size, bytes".  A file holds the sum over
the processes that write to it, each of which counts only its own bytes and those its
parent had counted at the fork; rotations within one second go on with the same file, any
number of times; and the message that reaches the threshold is written before the size is
looked at.

## What is checked

| run | instance | shows |
|---|---|---|
| `session` | one child; a client that sends up to three messages of seventeen kinds, or one that forms its messages as the protocol has them, with names that fit, and sends up to four; names of one character, two bytes of credentials | types; nothing executed before authentication; the dialogue; every attempt answered; the child ends with its client; each message takes the session where its cell of the table says, five named cells apart; for the second client: message types are read only where messages begin, and every attempt leads to an answer or an end |
| `db_client` | three connections, nine calls | the client's beliefs about greeting and acceptance; credentials are sent only on request; nobody waits for the dead |
| `parser` | a send buffer of 4 and a receive buffer of 3 bytes, calls of 1 to 4, nine bytes; all texts of statements, what is still open at most 12 items and nothing nested more than three deep; all expressions of at most 10 lexems, operators of three levels and both signs, two parentheses or NOTs within each other; all trees of at most 3 operators, a stack of 1 place | bytes in order end to end, reads that return; the parser and `syntax.txt` agree, twenty named places apart; the tree of a text with few operators keeps it, and right operands bind; the walk computes what a recursive reading does, fails where that fails, and ends |
| `lexer` | all texts of at most 6 characters of 12 kinds, two lexemes, two statements | the lexemes are the text, blanks apart, and where the errors say; a number is what is written, to the last digit; integers fit |
| `library` | below | below |
| `session_table` | violated: `session.c:13-24` | after authentication five kinds of message end the session though the table goes on |
| `auth_retry` | violated: `dbclient.h:97-99` | a second attempt never returns: the client waits for a request the server sends once |
| `hello_unanswered` | violated: `protocol_bnf.txt:114` | the parent's shutdown ends the child |
| `statement_crosses_buffer` | violated: `pproto_client.h:114-115` | data crossing the end of the send buffer is followed by foreign bytes |
| `text_reordered` | violated: `syntax.txt:30-42` | with five operators of three levels the tree has the operands in another order than the text |
| `decimal_cmp` | violated: `decimal.h:42-43` | of -1.5 and -0.2 the first is called the greater |
| `recordset_nulls` | violated: `protocol_bnf.txt:46`, `pproto_client.h:33` | the bits of the mask mean the opposite of what is documented |

The parts of `library`:

| part | instance | properties |
|---|---|---|
| decimal | three limbs of base 100, 23 literals of both signs, two operations in a row | `SumsPrecise`, `ProductAndQuotient`, `StaysNormal` |
| number | 128 numbers, 19 templates, three columns, a buffer of 12 | `NumberAsPrinted`: the text is the number, cut off where the format ends |
| calendar | every day of 400 years and one more; 16 years, all months, the days around the ends, right and wrong times | `DaysFollow`, `MadeAsTaken` |
| date | pairs of 20 stamps, ten templates, three zones, a buffer of 32 | `DatesSort`: texts of dates sort as the dates do, down to what the template shows |
| htable | tables of 1 to 4 entries, three keys, every hash function | `AddFindsSlot`: a probe ends; `ImplementsMap` |
| log | the listener, one session, four descriptors, four messages of 1 or 2 bytes with a threshold of 2, one failed write, two seconds, so two logs | `LogsApart`: no message goes to a socket; `RotatesInTime`: what one process adds to a log each time it opens it |
| text | two texts of at most 10 bytes, characters of 1 to 3, chunks of 4, a buffer of 16, buffers of 4 and 9 to read with | `WholeText`: what is read is the text, whole or up to where it was cancelled, in order; `StringsApart`: a text does not run into the next; `NextCharFits`, `RefusedInsideChunk`: the send buffer |
| recordset | up to four columns and two rows with any nulls, two bits to a byte of the mask, one too many columns, a column of fixed length, texts and times with a zone, a buffer at a multiple of 256 or not, the stream cut anywhere | `ValuesInPlace` |

### Bounds

What a session does depends on the last message and on where in a message
it is; three messages reach every state, with a refusal before an acceptance and a
statement after it.  The sizes (names, credentials, the length field) are small,
and the limits are crossed by names of zero, one, two and three characters in one
and several chunks.  Three connections are needed for a buffer to go stale twice;
nine calls for a connection, an authentication and a statement on each.  Both
buffers turn over at least twice within the nine bytes of the channel.

The run `parser` keeps calls from crossing the end of the send buffer (`Crossing = FALSE`),
which is what the server's messages and psql do (it sends single characters);
`statement_crosses_buffer` is the other case.

The length of a text is not bounded in `parser`, its nesting is: 12 open items leave
room for every production, and three expressions may lie one within another (`MaxNested`), so
that a parenthesis is met within a parenthesis, a query and a condition.  Ten
lexems hold a sign and four operators behind it, more than the four that are harmless
in any order; the operators are the ones just looser and just tighter than NOT, and a
third level with the signs.  `text_reordered` has them all and no parentheses.  Three
operators are the smallest trees in which the walk comes back from a left operand
that stayed and has a right one left, and two places deep is one more than the stack
has.

Six characters hold every number with a point and an exponent, a string with a doubled
quote, and a name over its limit of three bytes with something behind it; two
positions, an exponent of at most 9 and integers up to 32 put every limit
of a number within reach.

In `library`: 400 years are the calendar's period, and one more its seam.  Four entries
hold three keys with a free slot, one to three entries do not.  Four messages rotate a
log twice and leave one between.  A text of ten bytes fills two chunks of four and begins
a third, with an overflow of zero to two bytes at each; a buffer of 16 holds two chunks,
so there is one that ends with a flush and one that does not, and a message of 6 bytes
before it, or of 16, which fills it, forces the flush before the first.  Four columns
that may be null need two bytes of a mask of two bits each, with a bit left over where
there are three.

Deadlock checking is off everywhere: a session that has ended, a client that calls
nothing, a stream that is closed, a value that has been computed are at rest.

### Fairness

The child, and a call of the library that can go on, are scheduled by
the kernel: weak fairness of the whole process.  Nothing is assumed of the client,
of the application or of the parent.  The receiver of `Channel` is fair in its
copying and receiving, not in making calls.  The walk of `Folding` is one loop of
one process.  The other modules state no liveness: a probe, a piece of a template or
a turn of a write is bounded by their safety properties or by their data.

### Server encoding

The repository leaves `server_encoding` at `ENCODING_UNKNOWN`
(`session.c:49`, with a note at `session.c:205`); then `lexer_create` fails its
assertion and every child aborts before the greeting (`CreateLexer`).  The runs use
UTF-8, so that the rest is reached.

### Also met, without a run of its own

*Server.*  After an empty or too long name `pproto_server_read_auth` leaves
the credentials unread (`pproto_server.c:592-596`), and `session_auth_client`, which
then waits for another attempt (`session.c:20-21`), reads them as messages;
the properties that begin with `Polite` keep to names that avoid it.  A text sent in
several calls is refused when a call begins where less than a chunk's length is left in
the buffer, though the chunk in progress has its place: the comment there
(`pproto_server.c:294`) expects this only when somebody else uses the buffer.  With
8192 bytes it takes a text of 7900; `RefusedInsideChunk` says how far it goes.  A
statement is not answered when it succeeds (`protocol_bnf.txt:119`), a CANCEL of the
server is not in the server's grammar, and `send_error` does not end as the grammar says.

*Client.*  The table in `dbclient.h:21-36` has statements begin from
state A, the code from C (`dbclient.c:412`), so a client that did authenticate
cannot send one; `dbclient_finish_statement` requires C as well, which
`dbclient_begin_statement` has left (`dbclient.c:470-471`).  Cancelling makes a client
count as authenticated.  A send that takes only a part of the data goes on from its
start (`pproto_client.c:66`).  A recordset with a column of fixed length crashes
(`dbclient.c:738`); with more than 1000 columns the descriptions left over are taken
for for rows (`dbclient.c:575-582`); a description may be asked for one column behind the
last (`dbclient.c:638`); fetching before a row is read to its end reads values as the
head of a row; closing leaves what the server sent in the stream; the mark of a null shares
its byte with the value (see `Recordset`).

*Text of values.*  The literal 0.000001 is printed too small by a factor of ten.  psql
prints decimals without a precision as if the precision were 1 and the scale 6
(`client/main.c:280`).  Fractions of a second are `f` in the code, `x` in
`strop.h:66` and `t` in psql's default templates (`client/main.c:32-33`), which so
prints the letters.  A second `tz` in a template has lost the sign.  `grigorian.h` and
`dateop.h` count months from 0, the code from 1.

*Hash table.*  An entry that is overwritten counts again (`htable.c:46`), so a table
refuses keys while it has free entries.

*Log.*  After a partial write the beginning of the message is written again
(`logger.c:214`).  A failed write takes one from the size, and on a fresh log makes
it wrap and rotate at once.  When a log cannot be opened again the process writes to
the standard streams for good; when closing fails, the number of the descriptor stays in
use for the log though it is free.  The size of a file has no bound, `persistence.cfg:11-12`
notwithstanding (see above).

*Parser.*  The twenty places where it and `syntax.txt` disagree, and the precedence that is
lost with operators of three levels (see above).

## What is proved

`SessionProofs`, for every set of client messages, every size of a name, of the
credentials and of the length field, every encoding and every behaviour of the
check of credentials:

* `TypeCorrect`.  `TypeOK` is not inductive: `chunkLeft` is decremented before it
  is compared with 0, so one has to know that it is not 0 where a character is
  read (`InsideString`).  `TypeInv` is the conjunction.
* `AuthenticationFirst`: `AuthBeforeExec`, with `VerdictKept`: between the verdict
  and the message that tells it, the user is known.
* `DialogueInOrder`: `OutDiscipline`, with how far the dialogue has got in each
  group of states (`OutInv`).
* `EachAttemptAnswered`: `AttemptsAnswered`, with `AnswersInv`: while an attempt is read
  exactly one answer is owed.  It needs that a message appended to the dialogue adds one
  to the count of its kind and to no other.
* `TableFollowed` (`FollowsTable`): a message that is heard takes the session where the cell
  of its condition says, but for the five cells of `Violations`, and no other step moves it
  but the end of a statement, a session that was never set up and a connection that is broken.

Each has one lemma per action or group of like actions.

`SessionProofs`, of `SessionClients`, for every set of client messages, texts in any
number of chunks, every size of names, credentials and length fields:

* `MessagesInStep` (`PoliteReadsAtBoundary`).  `SessionClients` says which messages a polite
  client sends: `Conformant` is what the functions of `pproto_client.c` send, with a name
  that has room and only valid characters.  Of a name that is refused half way the
  credentials stay unread and the next byte is taken for a type, so the condition is needed
  (`AnyMsgs` in `MCSession` has such names, and without the condition TLC finds it).
  `FramingInv` says for each state of the child of which message the rest lies in the
  stream, and behind how many of its bytes: behind the type, within a chunk of the name
  with `chunkLeft` characters to its end and `wr` characters taken, at the credentials,
  within a chunk of the statement; and that from every marked byte on a whole message
  follows, or, once the client is gone, a part of one.  That a name that fits is never
  cut off needs the number of its characters, chunk lengths not counted.

`SessionProofs`, of the client library, for every password, every user name of one chunk,
every number of connections and calls, and every interruption of either end:

* `HandshakeShared` (`HandshakeAgreed`), `CredentialsAfterRequest`
  (`CredentialsOnRequest`, an action property) and `SuccessWasGranted`
  (`SuccessIsGranted`, likewise).  The invariant is `DbInv`.  Of the child
  (`ChildInv`): what its client sends begins with a hello of encoding 1 or with none, so
  the encoding is settled before anything is said; success is told only to who has an
  identity, and who was told keeps it.  Of the client (`ClientInv`): the buffers are not
  emptied for a new connection, but what is left over there holds no hello.  A handshake
  that succeeds has therefore met bytes of this child, and from then on a request or a
  success in the buffer is one this child has sent (`Vouched`).

`ChannelProofs`, for buffers and calls of every size, every sequence of calls and every
stream:

* `RecvCorrect` and `RecvBuffered`.  The invariant relates the two pointers of the
  receive buffer, the bytes handed over and the stream; it is inductive as it stands.
* `BytesEndToEnd`, with a connection that may break at any write: what is read is what
  was given.  The receiving half is the invariant above, which does not mind how many
  bytes arrive at once; for the sending half the bytes that have left, those in the
  buffer and those of the call in progress are consecutive, unless the connection has
  broken.  The two conditions are in the theorem: calls do not cross the end of the send
  buffer, and `send()` takes what it is given; without them the code does not keep the
  order (`pproto_client.c:66, 152`).
* `ValuesArriveInPlace` (`ValuesInPlace`), of `Recordset`, for every recordset, values of
  every kind, every number of columns that may be null, every width of a byte of the mask
  and a stream that ends anywhere.  `RecordsetInv` says where in what was sent the reader
  is: what is left begins as what follows the first rows, or the first values of a row; the
  mask is the one of this row, and the bit asked for next is the number of nullable columns
  before this one.  These bits differ from column to column and lie within the mask
  (`MaskTells`), so a bit tells of its own column, and what comes next is what is asked
  for or the end of the stream.  What is found goes along with what is taken, as the union
  leaves it.  The conditions are in the property: the bit of a null is
  the client's, there is room for the columns, none has a fixed length.

`TextStringProofs`, for every size of the send buffer that the assertion of
`send_str_begin` admits, every length of chunks and of characters (shorter than a chunk),
texts of every length and every sequence of calls: `BufferNeverOverflows`, that `send_str`
writes inside the buffer although it never asks for room, and `RefusedOnlyInside`.
Neither is inductive; `ChunkHasRoom` is: an open chunk began early enough in the buffer,
and between its length and the buffer's end of use lies exactly its text.  Then
`StringsStayApart` and `TextArrivesWhole`.  `TextInv` says that what is on the wire and in
the buffer is coded: there are labels for its bytes (between two strings, a length, a byte
of a chunk with so many to follow) that pass from each byte to the next as the format has
it, from the state of the reader to that of the writer.  The labels are not in the model,
the invariant says that some exist; a chunk whose length is still to be written has them
as soon as it is closed.

`LexerProofs`:

* `LexemesAreTheText` (`Tokenized`), for every text, every alphabet whose characters have
  one type each, every set of reserved words and all sizes.  `LexInv` says of the lexeme
  that is being read what the code knows of its characters in each place (`Shape`), that
  they stand in the text between where the lexeme began and the current character, and
  that the line and the column are those of that character; of the lexemes that were
  returned, that they stand in the text one behind the other with nothing but blanks
  between them.  What is read later adds to the text and changes none of it.  For a string
  literal the piece is the quote and the content so far with its quotes doubled.
* `IntegersFit`, for every largest integer above ten, every text and every change of mode.
  The check looks at the number before the digit is added; what has to be known besides is
  which states a number is being read in.
* `NumbersKeepTheirWorth` (`NumbersExact`), for every text, every number of positions and every
  range of exponents.  `NumInv` says in each state of the machine what the mantissa, the
  places behind the point and the exponent read so far are worth, against the same
  characters weighted by their places: both are linear recurrences, and a character more
  is a step of each.

`DecimalProofs`, for limbs of one to four digits and any number of them, any range of
exponents with 0 in it and any number of operations in a row:

* `SumsOfSized` (`SumsPrecise`, of `Sized` operands), `SumsStaySized` (what an addition or
  a subtraction makes of such operands is `Sized` again) and `SumsOfLiterals` (without a
  condition, when the operands are literals).  The value of a mantissa is the sum of its
  limbs, weighted (`Value`); addition with carries and subtraction with borrows, limb by
  limb, are those of the values; a shift by digits, which takes a limb's upper digits from
  one limb and its lower ones from the next, multiplies or divides the value by a power of
  ten.
* `ProductsAndShortQuotients` (`ProductAndQuotient`).  A row of the multiplication adds a
  multiple of the second mantissa at its place (`AddRowIs`), so the rows add up to the
  product of the values; where the product fits, the upper limbs are 0.  Division by one
  limb carries a remainder from limb to limb, and what it makes is the quotient the
  property finds digit by digit: both leave less than the divisor.
* `StaysNormalByOneLimb` (`StaysNormal`).
* `NumbersArePrinted` (`NumberAsPrinted`), for every number whose digits are counted
  right, every template and every precision and scale that are kept in bytes.  A text is
  read a character at a time (`Reads`), so texts that follow each other are read one after
  the other (`ReadsBoth`), and the exponent is read from where the first `e` is
  (`ExponentRead`).  The digits the code takes from the limbs, from the highest down, are
  those of the value, and read so far they are its first k digits (`First`,
  `DigitsAreRead`).  What the value has besides them is below the place of the last one
  (`RestIs`), whether that place is above the last digit of the mantissa or below it,
  where zeros are printed.  `Prints` says of a state that the text is the one asked for.

`MaxDigits`, up to which the runs compare numbers because the integers of TLC have 32
bits, is any number in these theorems.

The conditions of the theorems about arithmetic: the operands are `Sized`, which a literal
is and a sum remains, while a product that is cut off need not be (with four digits to a
limb its lowest limb may reach the base); and the divisor of a quotient has one limb.

`ExprProofs`, for every tree of an expression and every size of the stack:

* `WalkComputesValues` (`Folded`).  `FoldInv` says what the walk knows without marks.  The
  stack is the way from the root to the current node (`WayTo`).  To the left of this way
  everything has its value, to the right of it nothing has been entered (`Beside`), and
  of what is below the current node the address it came back from tells which of the two
  holds (`AtNode`).  So an operator is computed when its operands are, and an error found
  anywhere is an error of the root (`ErrorsRise`); a push fails only at an operator deeper
  than the stack.  That the recursive reading has a value for every subtree is shown from
  the deepest nodes upwards.  Assumed of a tree (`IsTree`) is what the parser builds:
  operators have operands, NOT has one, operands have none, and there is a deepest node.

* `RightOperandsBind` (`RightBinds`), for every text and every nesting.  `TreeInv` holds
  of the tree at any moment, with calls under way: what an operator has to its right binds,
  unless it is the root of a parenthesis that is still open and may yet get a looser one
  above it (`EdgesBind`).  An operator is put above a node and takes its place, so what is
  above that node must be known: the root of a NOT is nobody's right operand, and gets
  nothing looser than NOT (`Within`); any other entry of `node_for_level` is an operator
  of the level it is the entry of, so one of this level may take its place (`Levelled`).
  The nodes of a call come before the root of the calls inside it (`Before`), so an inner
  call disturbs none of what an outer one knows.  That `node_for_level` may point to the
  wrong operator, as `text_reordered` shows, does no harm here: it is of the right level.

`LibraryProofs`, of the calendar: `RoundTrip` and `DaysAreInOrder`, for every year up to
`MaxYear`, which may be any number, and every day there is, not only those of one period.
A day is the sum of periods of 400, 100, 4 and 1 years and a rest, each below its bound
(`Apart`); what `extract_year` counts out of it is what `make_date` counts into it.
Within a year a table of the months' first days decides.

Of the texts of dates: `DatesSortAsText` (`DatesSort`), for every pair of stamps and every
template and zone.  `DatesInv` says that the part of the template which the walk has
passed shows the first units of those it goes down to (`TextsAt`); what is left of the
template decides what it shows from there on, and this is a recursive function of the
place (`WalkAt`).  The two texts have one length; they are the same if the fields shown so
far are, and if one of these is lower with those before it equal, the texts sort by it
(`Ordered`).  A field is as wide for every stamp (`FieldFits`: it needs the year to have
four figures), so numbers of it sort as their figures do (`PaddedSorts`).  That an earlier
day has an earlier year, month or day of month is shown with the sums of the calendar
(`TakenInOrder`).

`LibraryProofs`, of the hash table: `EntryFindsSlot` and `TableIsMap`, for every size,
every set of keys and every hash function.  The invariant says: a key has one entry; from
the slot its hash leads to up to its own nothing is free; no more slots are taken than are
counted; and what a call has passed are other keys.  So a probe that meets a free slot, or
has counted as many entries as there are, has passed every place where the key could be,
which is what refusing, adding and not finding need; the refinement to `KeyMap` follows
step by step.

Of the log: `LogStaysApart` (`LogsApart`) and `NoLogOvergrows` (`RotatesInTime`), for
every number of processes and descriptors, every threshold and length of messages, every
order of accepting, forking and closing, and every failure of `open`, `close` and `write`.
`LoggerInv` knows of each process what its log's descriptor refers to, and of each log
that the bytes the process has put into it are those of the times it opened it before,
each less than the threshold and a message, and what it has counted since, failed writes
apart, also in the middle of a message and where the unsigned total has passed zero.

Assumptions: the named ASSUMEs of the modules (sizes are positive, messages are
sequences of bytes, a hash is a number, a user name is one chunk, a character of a
statement is of one type, a tree is a tree), which TLC evaluates in the runs.

Only model-checked: which statements the parser takes (`OnlyDocumented`,
`AllDocumented`), that the trees keep the text (`SameText`), and quotients by divisors of
several limbs.  What a text, a tree or a number is worth is
defined by recursion on it.  Induction over data is out of reach where it needs a theorem
that takes an operator as a parameter.  It is not where a least counterexample will do:
`SequenceLemmas` gets the least number of a set from the well-foundedness of `<`, and with
it what `FlattenSeq` returns, from its front and behind its first parts, and what a linear
recurrence is worth; `LibraryProofs` uses it for the lowest free descriptor, and for what a
template shows.  A power `10 ^ k` whose exponent is not a literal is unknown to the provers;
the proofs about numbers split on the four sizes of a limb, and use `Ten`, a recurrence,
where the exponent has no bound.  `SameText` is false of a long text (see the findings), so
no theorem states it for every text.
Liveness and fairness stay with TLC.

## What could follow

1. A proof of the division by several limbs: that the trial quotient is at most two too
   large and the remainder stays below the divisor.
2. Statements as text in `Session`: the lexer's errors where they now are a choice, so
   that `Lexer`, `Statements` and `Session` compose.
3. The tree of a whole statement with its memory, which is reallocated when it grows
   (`parser.c:75`).

## Not modelled, and why

* SHA-3: a fixed permutation of 1600 bits; a known-answer test covers it and a model
  checker could not.
* `config.c`: one pass over a file at the start, before anything runs that could
  depend on it.
* `semantics.c`: nothing calls it; the parser's own tree is not modelled beyond
  expressions.
* The byte automata of `encoding.c`: tables.  In `Session` and `Lexer` a character is
  valid or not.
* psql's options, terminal input and layout of tables (`client/main.c`,
  `client/printing.c`): what it calls is covered by `DbClient`, whose functions are
  called in any order, and by `Recordset`.
* What the bytes of a single value of a recordset mean (`pproto_client.c`).
* `error.c`, `stream.c`, `table.h` and the definitions: constants and declarations.

