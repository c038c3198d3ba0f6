------------------------------ MODULE W32Pollable ------------------------------
(***************************************************************************)
(* A pollable stream on Windows: one program thread, which reads, writes,  *)
(* polls and finally closes the stream (it holds the stream's lock in each *)
(* call), the reader thread and the writer thread.  The events are Windows *)
(* event objects; the backend below is func_w32_read and func_w32_write.   *)
(***************************************************************************)
EXTENDS Integers, Sequences

CONSTANTS READBUF_SIZE, ReadFaults, MaxIn,
          WRITEBUF_SIZE, WriteFaults, ShortWrites, MaxOut

ASSUME ReaderAssumption ==
  /\ READBUF_SIZE \in Nat \ {0, 1}
  /\ ReadFaults \subseteq {"error", "broken"}
  /\ MaxIn \in Nat

ASSUME WriterAssumption ==
  /\ WRITEBUF_SIZE \in Nat \ {0}
  /\ WriteFaults \subseteq {"error", "busy"}
  /\ ShortWrites \in BOOLEAN
  /\ MaxOut \in Nat

VARIABLES prog, nonblock, r, input, got, result, w, written, output, outcome

R == INSTANCE W32Reader
W == INSTANCE W32Writer

readerVars == <<r, input, got, result>>
writerVars == <<w, written, output, outcome>>
vars == <<prog, nonblock, r, input, got, result, w, written, output, outcome>>

Init ==
  /\ prog = "idle"
  /\ nonblock \in BOOLEAN
  /\ r = R!NoReader /\ input = 0 /\ got = <<>> /\ result = "none"
  /\ w = W!NoWriter /\ written = 0 /\ output = <<>> /\ outcome = "none"

\* func_w32_pollable_ioctl
SetNonblock ==
  /\ prog = "idle"
  /\ nonblock' = ~nonblock
  /\ UNCHANGED <<prog, readerVars, writerVars>>

\* _gpgrt_w32_poll starts the threads it asks about and waits for their events,
\* for some time or for ever.  What it finds is in the events themselves.
PollRead ==
  /\ prog = "idle"
  /\ r' = R!Ready(r)
  /\ prog' = IF r'.have_data THEN "idle" ELSE "poll"
  /\ UNCHANGED <<nonblock, input, got, result, writerVars>>

PollReadWake ==
  /\ prog = "poll" /\ r.have_data
  /\ prog' = "idle"
  /\ UNCHANGED <<nonblock, readerVars, writerVars>>

PollTimeout ==
  /\ prog = "poll"
  /\ prog' = "idle"
  /\ UNCHANGED <<nonblock, readerVars, writerVars>>

PollWrite ==
  /\ prog = "idle"
  /\ w.at = "none"
  /\ w' = W!create_writer
  /\ UNCHANGED <<prog, nonblock, readerVars, written, output, outcome>>

\* func_w32_pollable_destroy: destroy_reader, which does not wait, then
\* destroy_writer, which does, then the backend and the cookie are freed.
DestroyReader ==
  /\ prog = "idle"
  /\ R!StopReader
  /\ prog' = "d_reader"
  /\ UNCHANGED <<nonblock, input, got, result, writerVars>>

DestroyReaderClose ==
  /\ prog = "d_reader"
  /\ R!CloseReader
  /\ prog' = "d_writer"
  /\ UNCHANGED <<nonblock, input, got, result, writerVars>>

DestroyWriter ==
  /\ prog = "d_writer"
  /\ W!StopWriter
  /\ prog' = "d_wait"
  /\ UNCHANGED <<nonblock, readerVars, written, output, outcome>>

DestroyWriterClose ==
  /\ prog = "d_wait" /\ W!WriterFlushed
  /\ W!CloseWriter
  /\ prog' = "closed"
  /\ UNCHANGED <<nonblock, readerVars, written, output, outcome>>

Close == DestroyReader \/ DestroyReaderClose \/ DestroyWriter \/ DestroyWriterClose

Next ==
  \/ R!ReaderThread /\ UNCHANGED writerVars
  \/ R!ReadCall /\ UNCHANGED writerVars
  \/ W!WriterThread /\ UNCHANGED readerVars
  \/ W!WriteCall /\ UNCHANGED readerVars
  \/ SetNonblock
  \/ PollRead \/ PollReadWake \/ PollTimeout \/ PollWrite
  \/ Close

\* A call that has begun goes on: the program's thread is scheduled, as are the
\* two others, the backend answers a read, and a busy pipe is not busy for ever.
\* The program may stop calling at any time; poll may wait without a timeout.
Fairness ==
  /\ WF_vars(R!ReaderThread /\ UNCHANGED writerVars)
  /\ WF_vars(W!WriterThread /\ UNCHANGED readerVars)
  /\ SF_vars(\E n \in 0..WRITEBUF_SIZE : W!WriterWrites(n) /\ UNCHANGED readerVars)
  /\ WF_vars(\E n \in 1..READBUF_SIZE : R!ReadWake(n) /\ UNCHANGED writerVars)
  /\ WF_vars(R!ReadReset /\ UNCHANGED writerVars)
  /\ WF_vars(W!WriteReset /\ UNCHANGED readerVars)
  /\ WF_vars(\E n \in 1..WRITEBUF_SIZE : W!WriteWake(n) /\ UNCHANGED readerVars)
  /\ WF_vars(PollReadWake)
  /\ WF_vars(DestroyReaderClose) /\ WF_vars(DestroyWriter) /\ WF_vars(DestroyWriterClose)

Spec == Init /\ [][Next]_vars /\ Fairness

-----------------------------------------------------------------------------
(* Properties *)

PipeTypes ==
  /\ prog \in {"idle", "r_wait", "r_reset", "w_reset", "w_wait", "poll",
               "d_reader", "d_writer", "d_wait", "closed"}
  /\ nonblock \in BOOLEAN
  /\ r \in [at : {"none", "top", "space", "call", "reading", "got", "end", "close",
                  "gone", "wild"},
            room : 0..(READBUF_SIZE - 1), nread : 0..(READBUF_SIZE - 1),
            buffer : [0..(READBUF_SIZE - 1) -> 0..MaxIn],
            readpos : 0..(READBUF_SIZE - 1), writepos : 0..(READBUF_SIZE - 1),
            stop_me : BOOLEAN, eof : BOOLEAN, error : BOOLEAN, eof_shortcut : BOOLEAN,
            have_data : BOOLEAN, have_space : BOOLEAN, close_ev : BOOLEAN]
  /\ input \in 0..MaxIn /\ got \in Seq(1..MaxIn)
  /\ result \in {"none", "data", "eof", "error", "EAGAIN"}
  /\ w \in [at : {"none", "top", "idle", "call", "wrote", "end", "close", "gone"},
            nwritten : 0..WRITEBUF_SIZE, buffer : Seq(1..MaxOut),
            nbytes : 0..WRITEBUF_SIZE, stop_me : BOOLEAN, error : BOOLEAN,
            have_data : BOOLEAN, is_empty : BOOLEAN, close_ev : BOOLEAN]
  /\ written \in 0..MaxOut /\ output \in Seq(1..MaxOut)
  /\ outcome \in {"none", "data", "error", "EAGAIN"}

\* The bytes of the ring, in the order in which they will be read.
InRing ==
  [i \in 1..((r.writepos + READBUF_SIZE - r.readpos) % READBUF_SIZE) |->
     r.buffer[(r.readpos + i - 1) % READBUF_SIZE]]

\* Those the thread has put into the ring and not yet counted in writepos.
Arriving == IF r.at = "got" THEN r.nread ELSE 0

\* The program reads the backend's bytes in order, none lost, doubled or
\* overwritten in the ring, whatever the interleaving of thread and program.
RingKeepsBytes ==
  r.stop_me \/ got \o InRing = [i \in 1..(input - Arriving) |-> i]

\* A first "end of file" is answered only at the end of the input, with every
\* byte read before it; never because the program woke up and found the ring
\* empty for another reason.
NoFalseEof ==
  [][result' = "eof" /\ result' # result /\ ~r.eof_shortcut
       => r.eof /\ Len(got) = input]_vars

\* have_data_ev, on which poll and read rely: it is signalled whenever there is
\* something to read, and when it is, a read does not block or answer EAGAIN.
\* The program resets it, the thread sets it inside and outside the lock.
HaveDataExact ==
  prog \in {"idle", "poll", "r_wait"} =>
    /\ ~R!Empty(r) => r.have_data
    /\ r.have_data => ~R!Empty(r) \/ r.eof \/ r.error

\* The same of is_empty, the writer's event: a write that follows finds an empty buffer, or learns
\* of the error.
IsEmptyTrue ==
  (prog \in {"idle", "w_wait", "d_wait"} /\ w.at # "none" /\ w.is_empty) =>
    w.nbytes = 0 \/ w.error

\* Unless the backend takes a part of a buffer only, it gets the program's bytes
\* in order, each once.
WriterKeepsBytes ==
  ~ShortWrites =>
    \/ w.at = "wrote" /\ output = [i \in 1..written |-> i]
    \/ w.at # "wrote" /\ output = [i \in 1..(written - w.nbytes) |-> i]

\* Closing the stream waits for the last buffer: what was written is out, unless
\* the backend has failed.
CloseFlushes == prog = "closed" /\ ~w.error => Len(output) = written

\* A read that waits is answered, given that the input ends or goes on, except
\* when the input ended with a broken pipe: that is noted outside the critical
\* section, where the program may reset the event after the thread has set it.
ReadReturns == prog = "r_wait" ~> (prog # "r_wait" \/ (r.eof /\ ~r.have_data))

\* A write that waits is answered, and so is a close, except when the thread
\* failed at the wrong moment (the same race, over is_empty).
WriteReturns == prog = "w_wait" ~> (prog # "w_wait" \/ w.error)
CloseReturns == prog = "d_reader" ~> (prog = "closed" \/ w.error)

\* The comment on top of the writer: the program is informed of a write error
\* with the next call to the write function.  So that call returns.
WriteErrorReported == prog = "w_wait" ~> prog # "w_wait"

\* After a close the reader's thread ends and frees its context, unless it waits
\* for space in a full ring, or was about to use the cookie that is gone.
ReaderEnds ==
  prog = "closed" /\ r.at # "none" ~> r.at \in {"gone", "wild"} \/ R!Full(r)
=============================================================================
