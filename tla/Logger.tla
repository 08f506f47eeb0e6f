------------------------------- MODULE Logger -------------------------------
(***************************************************************************)
(* The log of the listener and of the sessions it forks (src/logging,      *)
(* src/session/listener.c).  Every process has its own copy of the         *)
(* logger's state and its own descriptors; the files are shared.  A        *)
(* message is its length, a log the second it is named after: who opens    *)
(* one within the same second goes on with it.                             *)
(***************************************************************************)
EXTENDS Integers

CONSTANTS
  Listener, Sessions,     \* the process that listens, those it forks
  Descriptors,            \* numbers of descriptors, above the standard streams
  log_file_size_threshold,
  MsgLens, MAX_LOG_MSG_LEN,
  SizeModulus,            \* 2^w of size_t
  MaxMessages, MaxErrors, \* bounds: messages the processes log, failed write()s,
  MaxSeconds              \* seconds that pass

ASSUME LoggerAssumption ==
  /\ Listener \notin Sessions
  /\ Descriptors \subseteq Nat \ {0, 1, 2}
  /\ \E log, sock \in Descriptors : log # sock    \* what the listener has open
  /\ log_file_size_threshold \in Nat \ {0} /\ SizeModulus \in Nat
  /\ MAX_LOG_MSG_LEN \in Nat /\ MsgLens \subseteq 1 .. MAX_LOG_MSG_LEN
  /\ log_file_size_threshold + 2 * MAX_LOG_MSG_LEN < SizeModulus
  /\ MaxMessages \in Nat /\ MaxErrors \in Nat /\ MaxSeconds \in Nat

Procs == {Listener} \cup Sessions
Logs == 0 .. MaxSeconds

VARIABLES
  at,             \* where a process is between its messages
  fds,            \* what each descriptor of a process is
  current_log,    \* of g_logger_state
  log_file_size,  \* of g_logger_state
  writing,        \* [left, total] of the logger_write under way, or <<>>
  close_failed,   \* did a close of a log ever fail in it
  messages, failures,   \* so far, for the bounds
  now,            \* the second
  file,           \* log a process opened last, or had at the fork
  put,            \* how many bytes a process wrote to a log,
  opened,         \* how often it opened it, or had it open at a fork,
  errors          \* and how many of its write()s to it failed
procVars == <<at, fds>>
logsVars == <<now, file, put, opened, errors>>
loggerVars == <<current_log, log_file_size, writing, close_failed, messages, failures, logsVars>>
logVars == <<procVars, loggerVars>>

Free(p) == {d \in Descriptors : fds[p][d] = "free"}
Lowest(S) == CHOOSE d \in S : \A other \in S : d <= other

Quiet(p) == writing[p] = <<>>

NoLogs == [l \in Logs |-> 0]

(* Does it have a log open?  n more for one of its logs in a table.        *)
HasLog(p) == current_log[p] # -1 /\ fds[p][current_log[p]] = "log"
More(counts, p, log, n) == [counts EXCEPT ![p] = [counts[p] EXCEPT ![log] = counts[p][log] + n]]

LoggerInit ==
  LET log == Lowest(Descriptors)
      sock == Lowest(Descriptors \ {log})
  IN /\ at = [p \in Procs |-> IF p = Listener THEN "accept" ELSE "none"]
     /\ fds = [p \in Procs |-> [d \in Descriptors |->
                 IF p = Listener /\ d = log THEN "log"
                 ELSE IF p = Listener /\ d = sock THEN "listener" ELSE "free"]]
     /\ current_log = [p \in Procs |-> IF p = Listener THEN log ELSE -1]
     /\ log_file_size = [p \in Procs |-> 0]
     /\ writing = [p \in Procs |-> <<>>]
     /\ close_failed = [p \in Procs |-> FALSE]
     /\ messages = 0 /\ failures = 0
     /\ now = 0 /\ file = [p \in Procs |-> 0]
     /\ put = [p \in Procs |-> NoLogs] /\ errors = [p \in Procs |-> NoLogs]
     /\ opened = [p \in Procs |-> IF p = Listener THEN [NoLogs EXCEPT ![0] = 1] ELSE NoLogs]

----------------------------------------------------------------------------
(* The listener takes a client and forks a session for it.  A close frees  *)
(* the descriptor also where it reports an error, which is only logged.    *)
CloseOf(p, object) ==
  fds' = [fds EXCEPT ![p] = [d \in Descriptors |-> IF fds[p][d] = object THEN "free" ELSE fds[p][d]]]

accept ==
  /\ at[Listener] = "accept" /\ Quiet(Listener) /\ Free(Listener) # {}
  /\ fds' = [fds EXCEPT ![Listener][Lowest(Free(Listener))] = "client"]
  /\ at' = [at EXCEPT ![Listener] = "fork"]
  /\ UNCHANGED loggerVars

fork(p) ==
  /\ at[Listener] = "fork" /\ at[p] = "none" /\ Quiet(Listener)
  /\ at' = [at EXCEPT ![Listener] = "forked", ![p] = "child"]
  /\ fds' = [fds EXCEPT ![p] = fds[Listener]]
  /\ current_log' = [current_log EXCEPT ![p] = current_log[Listener]]
  /\ log_file_size' = [log_file_size EXCEPT ![p] = log_file_size[Listener]]
  /\ close_failed' = [close_failed EXCEPT ![p] = close_failed[Listener]]
  /\ file' = [file EXCEPT ![p] = file[Listener]]
  /\ put' = [put EXCEPT ![p] = NoLogs] /\ errors' = [errors EXCEPT ![p] = NoLogs]
  /\ opened' = [opened EXCEPT ![p] = IF HasLog(Listener) THEN [NoLogs EXCEPT ![file[Listener]] = 1]
                                     ELSE NoLogs]
  /\ UNCHANGED <<writing, messages, failures, now>>

ForkFails ==
  /\ at[Listener] = "fork" /\ Quiet(Listener)
  /\ at' = [at EXCEPT ![Listener] = "forked"]
  /\ UNCHANGED <<fds, loggerVars>>

CloseListener(p) ==
  /\ at[p] = "child" /\ Quiet(p)
  /\ CloseOf(p, "listener")
  /\ at' = [at EXCEPT ![p] = "session"]
  /\ UNCHANGED loggerVars

CloseClient(p) ==
  /\ at[p] = IF p = Listener THEN "forked" ELSE "session"
  /\ Quiet(p)
  /\ CloseOf(p, "client")
  /\ at' = [at EXCEPT ![p] = IF p = Listener THEN "accept" ELSE "none"]
  /\ UNCHANGED loggerVars

----------------------------------------------------------------------------
(* One message: write() is called until it has taken the length of it or   *)
(* returns 0.  Its result is unsigned, so that an error takes one from the *)
(* total and goes on, until the total is what no message is longer than.   *)
logger_write(p, len) ==
  /\ at[p] # "none" /\ Quiet(p) /\ messages < MaxMessages
  /\ writing' = [writing EXCEPT ![p] = [left |-> len, total |-> 0]]
  /\ messages' = messages + 1
  /\ UNCHANGED <<procVars, current_log, log_file_size, close_failed, failures, logsVars>>

Unfinished(p) == ~Quiet(p) /\ writing[p].left > writing[p].total

(* What takes bytes: a stream, a log, or what a stale number leads to.     *)
Takes(p) == current_log[p] # -1 => fds[p][current_log[p]] \in {"log", "client"}

Written(p) ==
  /\ Unfinished(p) /\ Takes(p)
  /\ \E n \in 1 .. writing[p].left - writing[p].total :
       /\ writing' = [writing EXCEPT ![p].total = writing[p].total + n]
       /\ put' = IF HasLog(p) THEN More(put, p, file[p], n) ELSE put
  /\ UNCHANGED <<procVars, current_log, log_file_size, close_failed, messages, failures,
                 now, file, opened, errors>>

WriteFails(p) ==
  /\ Unfinished(p) /\ failures < MaxErrors
  /\ failures' = failures + 1
  /\ writing' = [writing EXCEPT ![p].total = (writing[p].total + SizeModulus - 1) % SizeModulus]
  /\ errors' = IF HasLog(p) THEN More(errors, p, file[p], 1) ELSE errors
  /\ UNCHANGED <<procVars, current_log, log_file_size, close_failed, messages,
                 now, file, put, opened>>

(* reopen_log_file: closing the log may fail and then nothing is opened;   *)
(* its number is free all the same and may be taken by what comes next.    *)
(* The new log is the one of this second, at its end when there is one; if *)
(* it cannot be opened the process is left to the streams.                 *)
Reopened(p, closed, opens) ==
  LET left == [d \in Descriptors |-> IF d = current_log[p] THEN "free" ELSE fds[p][d]]
      log == Lowest({d \in Descriptors : left[d] = "free"})
  IN /\ closed => fds[p][current_log[p]] # "free"
     /\ IF ~closed
        THEN /\ fds' = [fds EXCEPT ![p] = left]
             /\ close_failed' = [close_failed EXCEPT ![p] = TRUE]
             /\ UNCHANGED <<current_log, file, opened>>
        ELSE /\ fds' = [fds EXCEPT ![p] = IF opens THEN [left EXCEPT ![log] = "log"] ELSE left]
             /\ current_log' = [current_log EXCEPT ![p] = IF opens THEN log ELSE -1]
             /\ file' = [file EXCEPT ![p] = now]
             /\ opened' = IF opens THEN More(opened, p, now, 1) ELSE opened
             /\ UNCHANGED close_failed

(* mutant: the number of a log that could not be opened again is kept.     *)
ReopenedOrKept(p, closed, opens) ==
  IF closed /\ ~opens
  THEN /\ CloseOf(p, "log") /\ UNCHANGED <<current_log, close_failed, file, opened>>
  ELSE Reopened(p, closed, opens)

reopen_log_file(p, closed, opens) == Reopened(p, closed, opens)

SizeAfter(p) == (log_file_size[p] + writing[p].total) % SizeModulus
TotalIgnored(p) == log_file_size[p]      \* mutant: the message is not counted
CountedSize(p) == SizeAfter(p)

MessageEnds(p) ==
  /\ ~Quiet(p)
  /\ writing' = [writing EXCEPT ![p] = <<>>]
  /\ IF current_log[p] # -1 /\ CountedSize(p) >= log_file_size_threshold
     THEN /\ \E closed, opens \in BOOLEAN : reopen_log_file(p, closed, opens)
          /\ log_file_size' = [log_file_size EXCEPT ![p] = 0]
     ELSE /\ log_file_size' = [log_file_size EXCEPT ![p] = CountedSize(p)]
          /\ UNCHANGED <<fds, current_log, close_failed, file, opened>>
  /\ UNCHANGED <<at, messages, failures, now, put, errors>>

(* The loop ends with the whole length taken or with a write of nothing.   *)
WritesNothing(p) == Unfinished(p) /\ MessageEnds(p)
WritesAll(p) == ~Quiet(p) /\ ~Unfinished(p) /\ MessageEnds(p)

Tick ==
  /\ now < MaxSeconds /\ now' = now + 1
  /\ UNCHANGED <<procVars, current_log, log_file_size, writing, close_failed, messages, failures,
                 file, put, opened, errors>>

LoggerNext ==
  \/ accept \/ ForkFails \/ Tick
  \/ \E p \in Sessions : fork(p)
  \/ \E p \in Procs : \/ CloseListener(p) \/ CloseClient(p)
                      \/ \E len \in MsgLens : logger_write(p, len)
                      \/ Written(p) \/ WriteFails(p)
                      \/ WritesNothing(p) \/ WritesAll(p)

LoggerSpec == LoggerInit /\ [][LoggerNext]_logVars

----------------------------------------------------------------------------
(* What a process logs goes to a log or to the streams, never to its       *)
(* client or to the listening socket, whose descriptor may have the number *)
(* the log had: it is given up only with the log.  A close that fails is   *)
(* the exception, it leaves the number of the log behind (logger.c:90-98). *)
LogsApart ==
  \A p \in Procs : at[p] # "none" /\ current_log[p] # -1 /\ ~close_failed[p] =>
                     fds[p][current_log[p]] = "log"

(* Whenever a process has opened a log, or has it from the fork, it adds   *)
(* less than the threshold and one message, over the bytes that failed     *)
(* writes take from its count (logger.c:214-226).                          *)
Room == log_file_size_threshold - 1 + MAX_LOG_MSG_LEN
RotatesInTime ==
  \A p \in Procs : \A l \in Logs : put[p][l] <= opened[p][l] * Room + errors[p][l]
=============================================================================
