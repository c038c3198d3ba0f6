------------------------------- MODULE W32Writer -------------------------------
(***************************************************************************)
(* The writing half of a pollable stream on Windows, w32-estream.c: the    *)
(* program's calls hand a buffer of bytes to a thread, which gives them to *)
(* the backend.                                                            *)
(*                                                                         *)
(* The program holds the critical section of the writer across two steps   *)
(* only at "w_reset".                                                      *)
(***************************************************************************)
EXTENDS Integers, Sequences

CONSTANTS
  WRITEBUF_SIZE,  \* size of the writer's buffer
  WriteFaults,    \* how a write of the backend may fail: a subset of
                  \* {"error", "busy"}, the latter being ERROR_BUSY
  ShortWrites,    \* whether it may take a part of the bytes only
  MaxOut          \* bound: bytes the program writes

VARIABLES
  prog,      \* where the program's thread is; "idle" between its calls
  nonblock,  \* O_NONBLOCK in pcookie->modeflags
  w,         \* the writer context, and where its thread is (w.at)
  written,   \* how many bytes the program has written: the i-th byte is i
  output,    \* the bytes the backend has got
  outcome    \* how the last write ended

NoWriter ==
  [at |-> "none", nwritten |-> 0, buffer |-> <<>>, nbytes |-> 0,
   stop_me |-> FALSE, error |-> FALSE,
   have_data |-> FALSE, is_empty |-> TRUE, close_ev |-> FALSE]

create_writer == [NoWriter EXCEPT !.at = "top"]

Free == prog # "w_reset"
ThreadStep == UNCHANGED <<prog, nonblock, written, outcome>>

-----------------------------------------------------------------------------
(* The thread *)

\* Mutant: a thread told to stop does so with bytes in its buffer.
WriterTopHasty ==
  /\ w.at = "top" /\ Free
  /\ w' = IF w.stop_me THEN [w EXCEPT !.at = "end"]
          ELSE IF w.nbytes = 0
          THEN [w EXCEPT !.is_empty = TRUE, !.have_data = FALSE, !.at = "idle"]
          ELSE [w EXCEPT !.at = "call"]
  /\ ThreadStep /\ UNCHANGED output

\* Mutant: nobody is told that the buffer is empty.
WriterTopSilently ==
  /\ w.at = "top" /\ Free
  /\ w' = IF w.nbytes # 0 THEN [w EXCEPT !.at = "call"]
          ELSE IF w.stop_me THEN [w EXCEPT !.at = "end"]
          ELSE [w EXCEPT !.have_data = FALSE, !.at = "idle"]
  /\ ThreadStep /\ UNCHANGED output

WriterTop ==
  /\ w.at = "top" /\ Free
  /\ w' = IF w.nbytes # 0 THEN [w EXCEPT !.at = "call"]
          ELSE IF w.stop_me THEN [w EXCEPT !.at = "end"]
          ELSE [w EXCEPT !.is_empty = TRUE, !.have_data = FALSE, !.at = "idle"]
  /\ ThreadStep /\ UNCHANGED output

WriterWoken ==
  /\ w.at = "idle" /\ w.have_data /\ Free
  /\ w' = [w EXCEPT !.at = IF w.stop_me /\ w.nbytes = 0 THEN "end" ELSE "call"]
  /\ ThreadStep /\ UNCHANGED output

\* The backend takes n bytes, always counted from the start of the buffer.
WriterWrites(n) ==
  /\ w.at = "call"
  /\ n = w.nbytes \/ (ShortWrites /\ n \in 1..w.nbytes)
  /\ output' = output \o SubSeq(w.buffer, 1, n)
  /\ w' = [w EXCEPT !.nwritten = n, !.at = "wrote"]
  /\ ThreadStep

\* Mutant: what was written stays in the buffer.
WriterWroteAgain ==
  /\ w.at = "wrote" /\ Free
  /\ w' = [w EXCEPT !.at = "top"]
  /\ ThreadStep /\ UNCHANGED output

WriterWrote ==
  /\ w.at = "wrote" /\ Free
  /\ w' = [w EXCEPT !.nbytes = @ - w.nwritten, !.at = "top"]
  /\ ThreadStep /\ UNCHANGED output

\* A busy pipe is tried again; any other failure ends the thread.  The flag is
\* set outside the critical section.
WriterFails(how) ==
  /\ w.at = "call"
  /\ w' = IF how = "busy" THEN [w EXCEPT !.at = "top"]
          ELSE [w EXCEPT !.error = TRUE, !.at = "end"]
  /\ ThreadStep /\ UNCHANGED output

\* Mutant: nobody is told that the thread has ended.
WriterEndSilently ==
  /\ w.at = "end"
  /\ w' = [w EXCEPT !.at = "close"]
  /\ ThreadStep /\ UNCHANGED output

WriterEnd ==
  /\ w.at = "end"
  /\ w' = [w EXCEPT !.is_empty = TRUE, !.at = "close"]
  /\ ThreadStep /\ UNCHANGED output

WriterClose ==
  /\ w.at = "close" /\ w.close_ev
  /\ w' = [w EXCEPT !.at = "gone"]
  /\ ThreadStep /\ UNCHANGED output

-----------------------------------------------------------------------------
(* func_w32_pollable_write *)

Lesser(a, b) == IF a < b THEN a ELSE b

\* Mutant: the event still says that the buffer is empty.
PutNoReset(c, count) ==
  LET n == Lesser(count, WRITEBUF_SIZE)
  IN IF c.error THEN w' = c /\ outcome' = "error" /\ UNCHANGED written
     ELSE /\ outcome' = IF c.nbytes = 0 THEN "data" ELSE "assert"
          /\ w' = [c EXCEPT !.buffer = [i \in 1..n |-> written + i], !.nbytes = n,
                            !.have_data = TRUE]
          /\ written' = written + n

\* The second half of a write, in the critical section, by a program that finds
\* the context c.  The code asserts that the buffer is empty.
Put(c, count) ==
  LET n == Lesser(count, WRITEBUF_SIZE)
  IN IF c.error THEN w' = c /\ outcome' = "error" /\ UNCHANGED written
     ELSE /\ outcome' = IF c.nbytes = 0 THEN "data" ELSE "assert"
          /\ w' = [c EXCEPT !.buffer = [i \in 1..n |-> written + i], !.nbytes = n,
                            !.is_empty = FALSE, !.have_data = TRUE]
          /\ written' = written + n

Ready(c) == IF c.at = "none" THEN create_writer ELSE c

Write(count) ==
  /\ prog = "idle" /\ written + Lesser(count, WRITEBUF_SIZE) <= MaxOut
  /\ LET c == Ready(w) IN
       IF ~c.error /\ c.nbytes # 0
       THEN prog' = "w_reset" /\ UNCHANGED <<w, written, outcome>>
       ELSE Put(c, count) /\ UNCHANGED prog
  /\ UNCHANGED <<nonblock, output>>

\* Bytes were pending, and no error was seen, when the program looked.
WriteReset ==
  /\ prog = "w_reset"
  /\ w' = [w EXCEPT !.is_empty = FALSE]
  /\ IF nonblock THEN outcome' = "EAGAIN" /\ prog' = "idle"
     ELSE prog' = "w_wait" /\ UNCHANGED outcome
  /\ UNCHANGED <<nonblock, written, output>>

WriteWake(count) ==
  /\ prog = "w_wait" /\ w.is_empty
  /\ written + Lesser(count, WRITEBUF_SIZE) <= MaxOut
  /\ Put(w, count)
  /\ prog' = "idle"
  /\ UNCHANGED <<nonblock, output>>

\* destroy_writer: its first half, and what it waits for.
StopWriter ==
  w' = IF w.at = "none" THEN w ELSE [w EXCEPT !.stop_me = TRUE, !.have_data = TRUE]
WriterFlushed == w.at = "none" \/ w.is_empty
CloseWriter == w' = IF w.at = "none" THEN w ELSE [w EXCEPT !.close_ev = TRUE]

WriterThread ==
  \/ WriterTop \/ WriterWoken
  \/ \E n \in 0..WRITEBUF_SIZE : WriterWrites(n)
  \/ WriterWrote
  \/ \E how \in WriteFaults : WriterFails(how)
  \/ WriterEnd \/ WriterClose

WriteCall ==
  \/ \E count \in 1..(WRITEBUF_SIZE + 1) : Write(count)
  \/ WriteReset
  \/ \E count \in 1..(WRITEBUF_SIZE + 1) : WriteWake(count)
=============================================================================
