---------------------------- MODULE MCW32Pollable ----------------------------
(***************************************************************************)
(* Bounded instances of W32Pollable, given by the two .cfg files: rings    *)
(* and buffers of a few bytes, and inputs that go once around them.        *)
(***************************************************************************)
EXTENDS W32Pollable

\* Through both threads and whatever way they interleave (reader, writer,
\* func_w32_pollable_read, func_w32_pollable_write, destroy): the program gets
\* the bytes of the reader's backend, and the writer's backend those of the
\* program, in order and once; the two events poll waits for say the truth; a
\* close has written all.
PipesKeepBytes ==
  /\ PipeTypes
  /\ RingKeepsBytes /\ HaveDataExact
  /\ WriterKeepsBytes /\ IsEmptyTrue /\ CloseFlushes

\* A read, a write and a close that wait for a thread are answered, and after a
\* close the reader's thread ends; the exceptions are the two lost wake-ups that
\* the four properties name.
CallsReturn == ReadReturns /\ WriteReturns /\ CloseReturns /\ ReaderEnds

=============================================================================
