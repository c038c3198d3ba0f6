------------------------------ MODULE MCEStream ------------------------------
(***************************************************************************)
(* Bounded instances of EStream, and the properties TLC checks of them     *)
(* that the proofs do not speak of.                                        *)
(***************************************************************************)
EXTENDS EStream

MCByte == {"a", "nl"}
MCFiles == {<<>>, <<"a", "nl", "a">>}
MCPipeFiles == {<<>>, <<"a", "nl">>}
MCOffsets == -1..2

\* No step depends on the result of the call before it: states that differ in
\* ret only have the same successors, and every property that speaks of ret is
\* one of steps.
View == <<mode, s>>

-----------------------------------------------------------------------------
(* A seekable backend *)

LogicalData(t) == Overlay(t.file, t.fpos, Pending(t))

\* Reads, writes, pushed back bytes, seeks, flushes and changes of the buffering
\* in any order show the program a file with a position: the buffer, the read
\* ahead and the switches between reading and writing mode are invisible.
Abstract == INSTANCE ByteStream
  WITH data <- LogicalData(s), pos <- LogicalPos(s), back <- s.unread, res <- ret
ImplementsByteStream == Abstract!Spec

\* The number of bytes of a found, in order, in b.
Found(a, b) ==
  LET f[i \in 0..Len(b)] ==
        IF i = 0 THEN 0
        ELSE IF f[i - 1] < Len(a) /\ a[f[i - 1] + 1] = b[i] THEN f[i - 1] + 1
        ELSE f[i - 1]
  IN f[Len(b)]

\* An fclose that reports success has delivered every byte the stream had
\* accepted.
CloseDelivers ==
  [][ret'.op = "fclose" /\ ret'.rc = 0 =>
       IF s.backend = "file" THEN s'.file = LogicalData(s)
       ELSE ~s.turned => Found(s.accepted, s'.out) = Len(s.accepted)]_vars

\* The comment of set_nonblock: when fgetc fails and neither feof nor ferror
\* tells why, the caller may take it that the backend would block.
Untold == ret'.op = "getc" /\ ret'.rc = -1 /\ ~s'.eof /\ ~s'.err
BufferedFailureTold ==
  [][Untold /\ s.strategy # "_IONBF" => ret'.errno = "EAGAIN"]_vars

\* Every value has its type, the cursors stay within the buffers, the offset the
\* stream keeps accounts for where the backend stands, and ftell tells where the
\* program is (es_read_lbf, es_write_fbf, es_seek, flush_stream): any sequence
\* of reads, writes, seeks, ungetcs and failing flushes could break the sum.
PositionExact == TypeOK /\ CursorsInBounds /\ PositionAccounted /\ FtellExact

-----------------------------------------------------------------------------
(* A pipe, or a cookie without a seek function *)

Sent == s.out \o Pending(s)

\* However often a flush fails half way and is repeated, no byte is lost or
\* overtaken by a later one: leaving out what was sent twice, the backend has
\* or will get exactly what the program wrote.
NothingLostInPipe ==
  (~Astray /\ s.status = "open") => Found(s.accepted, Sent) = Len(s.accepted)

\* Bytes are sent twice only if a flush was cut short after some were taken,
\* and no more of them than were taken then.
SentTwiceIsAccounted ==
  (s.backend # "file" /\ ~Astray /\ s.status = "open") =>
    Len(Sent) = Len(s.accepted) + s.data_flushed + s.resent

\* The assertions hold and only the buffer's memory is used unless a stream that cannot
\* seek was read and then written, or a setvbuf that failed for want of memory has left
\* the stream without a buffer.
CrashOnlyAfterTurn ==
  s.status \in {"aborted", "overrun"} => s.turned \/ (s.status = "overrun" /\ s.buffer = "none")

\* A backend that fails and takes bytes in part (flush_stream, es_fill) loses
\* nothing, gets twice only what is accounted for, and brings the stream into an
\* undefined state only after a change of direction that needs a seek, or when its
\* buffer was lost by a failing setvbuf.
PipeExact == NothingLostInPipe /\ SentTwiceIsAccounted /\ CrashOnlyAfterTurn

\* The comment of es_writen: switching to writing mode discards input data.  So
\* what a pipe is sent is nothing but what the program wrote.
InputIsNotSent == s.backend = "pipe" => Found(s.out, s.accepted) = Len(s.out)
=============================================================================
