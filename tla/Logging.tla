------------------------------ MODULE Logging ------------------------------
(***************************************************************************)
(* The log (src/logging.c): where it goes, the socket that is connected       *)
(* again with each write, and how messages are put together to lines.        *)
(*                                                                         *)
(* Of a text only its line ends count.  A call holds the lock of the log      *)
(* stream from its first to its last character and is one step; a hexdump is  *)
(* a series of such calls, between which other threads log.                  *)
(***************************************************************************)
EXTENDS Integers, Sequences, SequencesExt

CONSTANTS
  LogThread,  \* threads that log
  LogFd,      \* descriptors, a set of numbers
  NoFd,       \* -1
  ErrorLimit, \* where errorcount stops: 30000
  HexDumps    \* the series of calls that hexdumps make

Formats == {"null", "empty", "part", "line", "lf"}

ASSUME LogFdAssumption == LogFd \subseteq Nat /\ NoFd \notin LogFd
ASSUME HexDumpsAssumption == HexDumps \subseteq Seq(STRING \X Formats)

VARIABLES
  log,    \* the variables of logging.c, the state of the stream, and history
  appFds, \* descriptors that the program has open for other things
  peer,   \* the server of the log socket is there
  hex     \* [LogThread -> the calls that a hexdump has still to make]

logVars == <<log, appFds, peer, hex>>

LogInit ==
  /\ log = [sink |-> "none", fd |-> NoFd, is_socket |-> FALSE, quiet |-> FALSE,
            log_socket |-> NoFd, running_detached |-> FALSE, missing_lf |-> FALSE,
            errorcount |-> 0, ended |-> FALSE,
            pending |-> FALSE,   \* the stream has buffered a part of a line
            open |-> FALSE,      \* the last line that was printed has no end yet
            broken |-> FALSE,    \* the connection of the socket is gone
            lost |-> 0,          \* lines lost since the server is there (history)
            tails |-> {},        \* of the sinks that are not in use: whose last line has no end
            silent |-> "none",   \* who left it open without being a text: "flush", "empty" or "sink"
            glued |-> FALSE]     \* a message began in a line that a text had left open (history)
  /\ appFds = {} /\ peer = FALSE
  /\ hex = [t \in LogThread |-> <<>>]

Unused(l) == LogFd \ (appFds \cup {l.fd})
LowestOf(s) == CHOOSE f \in s : \A g \in s : f <= g

-----------------------------------------------------------------------------
(***************************************************************************)
(* The writer of the socket's cookie, called with a line or with what is      *)
(* left of one when the stream is closed.                                    *)
(***************************************************************************)
\* A socket that is not connected is connected; the first failure is quiet after.
Connected(l) ==
  IF l.fd # NoFd THEN l
  ELSE IF Unused(l) # {} /\ peer
       THEN [l EXCEPT !.fd = LowestOf(Unused(l)), !.is_socket = TRUE, !.quiet = FALSE, !.broken = FALSE]
       ELSE [l EXCEPT !.is_socket = FALSE, !.quiet = @ \/ ~l.running_detached]

\* What is written goes to the server or is lost, and never comes back.
Lost(l) == [l EXCEPT !.lost = IF peer /\ Unused(l) # {} THEN @ + 1 ELSE @]

\* Mutant: a connection that failed is kept.
FunWriterKeeps(l) ==
  LET c == Connected(l) IN
  IF l.sink # "socket" THEN l
  ELSE IF c.fd # NoFd /\ ~c.broken THEN [c EXCEPT !.log_socket = c.fd]
  ELSE [Lost(c) EXCEPT !.log_socket = c.fd]

FunWriter(l) ==
  LET c == Connected(l) IN
  IF l.sink # "socket" THEN l
  ELSE IF c.fd # NoFd /\ ~c.broken THEN [c EXCEPT !.log_socket = c.fd]
  ELSE [Lost(c) EXCEPT !.fd = NoFd, !.log_socket = NoFd]

\* The stream is line buffered.
LogText(l) == [l EXCEPT !.pending = TRUE, !.open = TRUE]
Lf(l) == [FunWriter(l) EXCEPT !.pending = FALSE, !.open = FALSE, !.silent = "none"]

-----------------------------------------------------------------------------
(***************************************************************************)
(* _gpgrt_log_set_sink.                                                     *)
(***************************************************************************)
\* Mutant: the number of the socket is kept when its cookie is closed.
ClosedKeeps(l) ==
  LET f == IF l.pending THEN FunWriter(l) ELSE l
  IN  [f EXCEPT !.sink = "none", !.fd = NoFd, !.pending = FALSE, !.open = FALSE, !.silent = "none"]

\* The old stream is closed, after what is left of its last line was written,
\* unless it is stderr.  The line is not ended: stderr, and the log file that the
\* program may name again, keep it.
Closed(l) ==
  LET f == IF l.pending /\ l.sink # "stderr" THEN FunWriter(l) ELSE l
  IN  [f EXCEPT !.sink = "none", !.fd = NoFd, !.pending = FALSE, !.open = FALSE,
                !.tails = IF l.open /\ l.sink \in {"stderr", "file"} THEN @ \cup {l.sink} ELSE @,
                !.silent = "none", !.log_socket = IF l.sink = "socket" THEN NoFd ELSE @]

\* The new stream goes on where its last line ended, or did not end.
Sink(l, sink, fd) ==
  [l EXCEPT !.sink = sink, !.fd = fd, !.missing_lf = FALSE, !.open = sink \in l.tails,
            !.silent = IF sink \in l.tails THEN "sink" ELSE "none", !.tails = @ \ {sink}]

Default(l) == Sink(Closed(l), "stderr", NoFd)

\* The log file is opened for appending; it gets the lowest descriptor.
set_file_fd_file ==
  LET l == Closed(log) IN
  /\ log' = IF Unused(l) = {} THEN Default(log)
            ELSE Sink(l, "file", LowestOf(Unused(l)))
  /\ UNCHANGED <<appFds, peer, hex>>

\* A descriptor that the program gives away, alone or under a stream of its own.
set_file_fd_given(fd) ==
  /\ fd \in appFds
  /\ log' = Sink(Closed(log), "fd", fd)
  /\ appFds' = appFds \ {fd}
  /\ UNCHANGED <<peer, hex>>

\* A socket; it is connected with the first write.
set_file_fd_socket ==
  /\ log' = [Sink(Closed(log), "socket", NoFd) EXCEPT !.quiet = FALSE, !.is_socket = FALSE,
                                                       !.log_socket = NoFd]
  /\ UNCHANGED <<appFds, peer, hex>>

\* No memory for the cookie: there is no log until something is logged.
set_file_fd_fails == log' = Closed(log) /\ UNCHANGED <<appFds, peer, hex>>

log_set_sink ==
  /\ \A t \in LogThread : hex[t] = <<>>
  /\ \/ set_file_fd_file \/ set_file_fd_socket \/ set_file_fd_fails
     \/ \E fd \in appFds : set_file_fd_given(fd)
     \/ log' = Default(log) /\ UNCHANGED <<appFds, peer, hex>>

log_set_prefix(detached) ==
  /\ log' = [log EXCEPT !.running_detached = detached]
  /\ UNCHANGED <<appFds, peer, hex>>

-----------------------------------------------------------------------------
(***************************************************************************)
(* _gpgrt_logv_internal.  A format is "null", "empty", "part" (no line end),   *)
(* "line", or "lf" (a line end only); extra is the string of log_debug_string. *)
(***************************************************************************)
print_prefix(l, level) ==
  IF level = "cont" THEN l ELSE [LogText(l) EXCEPT !.glued = @ \/ (l.open /\ l.silent = "none")]

\* Mutant: an unfinished line is not ended.
BeginsAnywhere(l, level) == [l EXCEPT !.missing_lf = FALSE]

\* A message of its own ends the line before it; a continuation takes it over.
Begins(l, level) ==
  [(IF l.missing_lf /\ level # "cont" THEN Lf(l) ELSE l) EXCEPT !.missing_lf = FALSE]

Formatted(l, fmt) ==
  CASE fmt \in {"null", "empty"} -> [l EXCEPT !.silent = IF l.open THEN "empty" ELSE @]
    [] fmt = "part" -> [LogText(l) EXCEPT !.missing_lf = TRUE, !.silent = "none"]
    [] fmt = "line" -> Lf(LogText(l))
    [] fmt = "lf" -> Lf(l)

\* After the message, lines of their own: each with a prefix, all of them ended.
LogExtra(l, level, lines) ==
  LET ended == IF l.missing_lf THEN [Lf(l) EXCEPT !.missing_lf = FALSE] ELSE l
  IN  FoldLeft(LAMBDA a, i : Lf(LogText(print_prefix(a, level))), ended, [i \in 1..lines |-> i])

\* A fatal message ends the program, which closes its streams.
Finished(l, level) ==
  CASE level \in {"fatal", "bug"} -> [(IF l.missing_lf THEN Lf(l) ELSE l) EXCEPT !.ended = TRUE]
    [] level = "error" -> [l EXCEPT !.errorcount = IF @ < ErrorLimit THEN @ + 1 ELSE @]
    [] OTHER -> l

logv_internal(level, fmt, lines) ==
  LET l0 == IF log.sink = "none" THEN Default(log) ELSE log
      l1 == Formatted(print_prefix(Begins(l0, level), level), fmt)
  IN  Finished(IF lines = 0 THEN l1 ELSE LogExtra(l1, level, lines), level)

Log(level, fmt) ==
  /\ log' = logv_internal(level, fmt, 0)
  /\ UNCHANGED <<appFds, peer, hex>>

log_debug_string(fmt, lines) ==
  /\ log' = logv_internal("debug", fmt, lines)
  /\ UNCHANGED <<appFds, peer, hex>>

\* log_printf(NULL) begins a line, log_flush() has nothing to say.
log_printf(fmt) == Log(IF fmt = "null" THEN "begin" ELSE "cont", fmt)
log_flush ==
  /\ log' = LET l == logv_internal("cont", "null", 0)
            IN  [l EXCEPT !.silent = IF log.missing_lf THEN "flush" ELSE @]
  /\ UNCHANGED <<appFds, peer, hex>>

get_errorcount(clear) ==
  /\ log' = [log EXCEPT !.errorcount = IF clear THEN 0 ELSE @]
  /\ UNCHANGED <<appFds, peer, hex>>

\* log_printhex: the calls that it makes, one after the other.
log_printhex(t, calls) ==
  /\ hex[t] = <<>>
  /\ hex' = [hex EXCEPT ![t] = calls]
  /\ UNCHANGED <<log, appFds, peer>>
log_printhex_step(t) ==
  /\ hex[t] # <<>>
  /\ log' = logv_internal(Head(hex[t])[1], Head(hex[t])[2], 0)
  /\ hex' = [hex EXCEPT ![t] = Tail(@)]
  /\ UNCHANGED <<appFds, peer>>

-----------------------------------------------------------------------------
\* The program opens and closes other files, the server comes and goes.
AppOpenFd ==
  /\ Unused(log) # {}
  /\ appFds' = appFds \cup {LowestOf(Unused(log))}
  /\ UNCHANGED <<log, peer, hex>>
AppCloseFd(fd) ==
  /\ fd \in appFds /\ appFds' = appFds \ {fd}
  /\ UNCHANGED <<log, peer, hex>>
PeerChanges ==
  /\ peer' = ~peer
  /\ log' = [log EXCEPT !.broken = @ \/ (log.is_socket /\ log.fd # NoFd), !.lost = 0]
  /\ UNCHANGED <<appFds, hex>>

LogNext ==
  /\ ~log.ended
  /\ \/ log_set_sink \/ AppOpenFd \/ PeerChanges
     \/ \E fd \in appFds : AppCloseFd(fd)
     \/ \E b \in BOOLEAN : log_set_prefix(b) \/ get_errorcount(b)
     \/ \E level \in {"info", "error", "fatal"}, fmt \in {"empty", "part", "line"} : Log(level, fmt)
     \/ \E fmt \in {"null", "empty", "part", "line", "lf"} : log_printf(fmt)
     \/ log_flush
     \/ \E fmt \in {"empty", "part", "line"}, lines \in 1..2 : log_debug_string(fmt, lines)
     \/ \E t \in LogThread : log_printhex_step(t) \/ \E calls \in HexDumps : log_printhex(t, calls)

LogSpec == LogInit /\ [][LogNext]_logVars

-----------------------------------------------------------------------------
\* Whatever threads log, in whatever order, a message with a prefix begins a new
\* line.  The exceptions are a line that a call without text took over and left
\* open (missing_lf in _gpgrt_logv_internal), and one that was unfinished on stderr
\* or in the log file when the sink was set: set_file_fd forgets it
\* (logging.c:535), and a message after the return to that sink goes on in it.
MessagesBeginLines == ~log.glued

\* While the server is there and a descriptor is free at most one line is lost:
\* the one that finds out that the old connection is gone (fun_writer).
LogReconnects == log.lost <= 1

\* log_test_fd says of a descriptor that it is used for logging exactly when it
\* is, so that a program that closes all others keeps the log and nothing more
\* (log_socket; it is announced with the first write).
log_test_fd(fd) == (log.sink \in {"fd", "file"} /\ log.fd = fd) \/ log.log_socket = fd
LogFdAnnounced == \A fd \in LogFd : log_test_fd(fd) <=> log.fd = fd


\* The log stream is connected again after an error or a new name, the descriptor that
\* gpgrt_log_test_fd announces is the one that it writes to, and messages begin lines.
LogStreamExact == LogReconnects /\ LogFdAnnounced /\ MessagesBeginLines
=============================================================================
