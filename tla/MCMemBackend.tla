----------------------------- MODULE MCMemBackend -----------------------------
(***************************************************************************)
(* Bounded instances of MemBackend, with words of four bits and blocks of  *)
(* two bytes.                                                              *)
(***************************************************************************)
EXTENDS MemBackend

MCOffsets == {-1, 0, 3}

\* No action looks at the result of the last call.
View == c

MemData == IF c.data_len <= c.memory_size THEN BytesAt(c, 0, c.data_len) ELSE <<>>

File == INSTANCE MemFile WITH
  append <- c.append, data <- MemData, pos <- c.offset, res <- ret

\* What is known to break the promise: a relative seek that fails has moved the
\* offset or changed the length of the data, and one from the end that succeeds
\* has changed that length too (it cuts the data, or leaves a gap unfilled).
Breaks ==
  \/ c'.strayed
  \/ ret'.op = "seek" /\ ret'.whence = "end" /\ ret'.arg # 0

\* Every other call does what a file does.
ImplementsMemFile == [][Breaks \/ File!Next]_memVars
=============================================================================
