------------------------------- MODULE W32Reader -------------------------------
(***************************************************************************)
(* The reading half of a pollable stream on Windows, w32-estream.c: a      *)
(* thread reads from the backend into a ring buffer, and the program's     *)
(* calls take the bytes out of it.  They meet in the reader context:       *)
(* a critical section, the ring, three events and the flags eof and error, *)
(* which the thread also sets outside the critical section.                *)
(*                                                                         *)
(* A critical section that nothing else can look into is one step.  The    *)
(* program holds the one of the reader across two steps only at "r_reset". *)
(***************************************************************************)
EXTENDS Integers, Sequences

CONSTANTS
  READBUF_SIZE,  \* size of the ring; one byte of it stays unused
  ReadFaults,    \* how a read of the backend may fail: a subset of
                 \* {"error", "broken"}, the latter being ERROR_BROKEN_PIPE
  MaxIn          \* bound: bytes the backend has to give

VARIABLES
  prog,      \* where the program's thread is; "idle" between its calls
  nonblock,  \* O_NONBLOCK in pcookie->modeflags
  r,         \* the reader context, and where its thread is (r.at)
  input,     \* how many bytes the backend has given: the i-th byte is i
  got,       \* the bytes the program has read
  result     \* how its last read ended

NoReader ==
  [at |-> "none", room |-> 0, nread |-> 0,
   buffer |-> [i \in 0..(READBUF_SIZE - 1) |-> 0], readpos |-> 0, writepos |-> 0,
   stop_me |-> FALSE, eof |-> FALSE, error |-> FALSE, eof_shortcut |-> FALSE,
   have_data |-> FALSE, have_space |-> TRUE, close_ev |-> FALSE]

create_reader == [NoReader EXCEPT !.at = "top"]

Empty(c) == c.readpos = c.writepos
Full(c)  == (c.writepos + 1) % READBUF_SIZE = c.readpos

\* The reader's critical section can be entered.
Free == prog # "r_reset"

\* The cookie and the backend below it have been freed.
Freed == prog = "closed"

ThreadStep == UNCHANGED <<prog, nonblock, got, result>>

-----------------------------------------------------------------------------
(* The thread *)

\* Mutant: the thread fills the ring up to the last byte.
RoomNoGap == LET n == (r.readpos + READBUF_SIZE - r.writepos) % READBUF_SIZE
             IN IF n = 0 THEN READBUF_SIZE - r.writepos
                ELSE IF n > READBUF_SIZE - r.writepos THEN READBUF_SIZE - r.writepos ELSE n

\* What can be read in one go: the ring is not wrapped around, and one byte of
\* it stays free to tell full from empty.
Room ==
  LET n == (r.readpos + READBUF_SIZE - r.writepos - 1) % READBUF_SIZE
  IN IF n > READBUF_SIZE - r.writepos THEN READBUF_SIZE - r.writepos ELSE n

\* stop_me is looked at only after the wait for space is over.
ReaderTop ==
  /\ r.at = "top" /\ Free
  /\ r' = IF Full(r) THEN [r EXCEPT !.have_space = FALSE, !.at = "space"]
          ELSE IF r.stop_me THEN [r EXCEPT !.at = "end"]
          ELSE [r EXCEPT !.room = Room, !.at = "call"]
  /\ ThreadStep /\ UNCHANGED input

\* have_space_ev is reset by the wait.
ReaderSpace ==
  /\ r.at = "space" /\ r.have_space
  /\ r' = [r EXCEPT !.have_space = FALSE, !.at = "top"]
  /\ ThreadStep /\ UNCHANGED input

\* The thread finds the backend through the cookie, which may be gone.
ReaderCall ==
  /\ r.at = "call"
  /\ r' = [r EXCEPT !.at = IF Freed THEN "wild" ELSE "reading"]
  /\ ThreadStep /\ UNCHANGED input

\* func_read returns n bytes, which go straight into the ring; 0 at the end.
ReaderReturns(n) ==
  /\ r.at = "reading"
  /\ n <= r.room /\ input + n <= MaxIn
  /\ r' = [r EXCEPT !.at = "got", !.nread = n,
                    !.buffer = [i \in DOMAIN @ |->
                      IF i >= r.writepos /\ i < r.writepos + n
                      THEN input + 1 + i - r.writepos ELSE @[i]]]
  /\ input' = input + n
  /\ ThreadStep

\* Mutant: the program is not told that there is data.
ReaderGotSilently ==
  /\ r.at = "got" /\ Free
  /\ r' = IF r.stop_me THEN [r EXCEPT !.at = "end"]
          ELSE IF r.nread = 0 THEN [r EXCEPT !.eof = TRUE, !.at = "end"]
          ELSE [r EXCEPT !.writepos = (@ + r.nread) % READBUF_SIZE, !.at = "top"]
  /\ ThreadStep /\ UNCHANGED input

ReaderGot ==
  /\ r.at = "got" /\ Free
  /\ r' = IF r.stop_me THEN [r EXCEPT !.at = "end"]
          ELSE IF r.nread = 0 THEN [r EXCEPT !.eof = TRUE, !.at = "end"]
          ELSE [r EXCEPT !.writepos = (@ + r.nread) % READBUF_SIZE,
                         !.have_data = TRUE, !.at = "top"]
  /\ ThreadStep /\ UNCHANGED input

\* func_read fails.  The flags are set outside the critical section.
ReaderFails(how) ==
  /\ r.at = "reading"
  /\ r' = [r EXCEPT !.at = "end", !.eof = @ \/ how = "broken",
                                  !.error = @ \/ how = "error"]
  /\ ThreadStep /\ UNCHANGED input

\* Outside the critical section too.
ReaderEnd ==
  /\ r.at = "end"
  /\ r' = [r EXCEPT !.have_data = TRUE, !.at = "close"]
  /\ ThreadStep /\ UNCHANGED input

\* The thread frees the context and ends.
ReaderClose ==
  /\ r.at = "close" /\ r.close_ev
  /\ r' = [r EXCEPT !.at = "gone"]
  /\ ThreadStep /\ UNCHANGED input

-----------------------------------------------------------------------------
(* func_w32_pollable_read *)

\* The second half of a read, in the critical section, by a program that finds
\* the context c: the end of the input, an error, or the bytes up to the end of
\* the ring.  have_data_ev is reset if they were the last ones.
Take(c, count) ==
  IF Empty(c) \/ c.error
  THEN /\ r' = [c EXCEPT !.eof_shortcut = TRUE]
       /\ result' = IF c.error /\ ~c.eof THEN "error" ELSE "eof"
       /\ prog' = "idle"
       /\ UNCHANGED got
  ELSE LET have == IF c.readpos < c.writepos THEN c.writepos - c.readpos
                   ELSE READBUF_SIZE - c.readpos
           n    == IF have > count THEN count ELSE have
           c1   == [c EXCEPT !.readpos = (@ + n) % READBUF_SIZE]
       IN /\ got' = got \o [i \in 1..n |-> c.buffer[c.readpos + i - 1]]
          /\ result' = "data"
          /\ IF Empty(c1) /\ ~c.eof
             THEN r' = c1 /\ prog' = "r_reset"
             ELSE r' = [c1 EXCEPT !.have_space = TRUE] /\ prog' = "idle"

Ready(c) == IF c.at = "none" THEN create_reader ELSE c

Read(count) ==
  /\ prog = "idle"
  /\ LET c == Ready(r) IN
       IF c.eof_shortcut
       THEN result' = "eof" /\ UNCHANGED <<prog, r, got>>
       ELSE IF Empty(c) /\ ~c.error
       THEN /\ r' = c
            /\ IF nonblock /\ ~c.eof
               THEN result' = "EAGAIN" /\ UNCHANGED prog
               ELSE prog' = "r_wait" /\ UNCHANGED result
            /\ UNCHANGED got
       ELSE Take(c, count)
  /\ UNCHANGED <<nonblock, input>>

ReadWake(count) ==
  /\ prog = "r_wait" /\ r.have_data
  /\ Take(r, count)
  /\ UNCHANGED <<nonblock, input>>

\* Mutant: the event is left alone when the last byte is taken.
ReadNoReset ==
  /\ prog = "r_reset"
  /\ r' = [r EXCEPT !.have_space = TRUE]
  /\ prog' = "idle"
  /\ UNCHANGED <<nonblock, input, got, result>>

\* The end of the critical section after the last byte was taken.  It was the
\* last one when the program looked; the thread may have set eof or error, and
\* have_data_ev, since then.
ReadReset ==
  /\ prog = "r_reset"
  /\ r' = [r EXCEPT !.have_data = FALSE, !.have_space = TRUE]
  /\ prog' = "idle"
  /\ UNCHANGED <<nonblock, input, got, result>>

\* destroy_reader, up to its two SetEvent calls: the thread has to end.
StopReader ==
  r' = IF r.at = "none" THEN r
       ELSE [r EXCEPT !.stop_me = TRUE, !.have_space = TRUE]
\* Mutant: the thread is not told that it may free the context.
CloseReaderForgets == UNCHANGED r

CloseReader ==
  r' = IF r.at = "none" THEN r ELSE [r EXCEPT !.close_ev = TRUE]

ReaderThread ==
  \/ ReaderTop \/ ReaderSpace \/ ReaderCall
  \/ \E n \in 0..MaxIn : ReaderReturns(n)
  \/ ReaderGot
  \/ \E how \in ReadFaults : ReaderFails(how)
  \/ ReaderEnd \/ ReaderClose

ReadCall ==
  \/ \E count \in 1..READBUF_SIZE : Read(count)
  \/ \E count \in 1..READBUF_SIZE : ReadWake(count)
  \/ ReadReset
=============================================================================
