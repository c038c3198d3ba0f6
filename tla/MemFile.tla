-------------------------------- MODULE MemFile --------------------------------
(***************************************************************************)
(* What a memory object promises the stream on top of it: a file that may  *)
(* be limited in size, with a position.  Growing leaves zeroes, a call     *)
(* that fails leaves everything as it was.                                 *)
(***************************************************************************)
EXTENDS Integers, Sequences

VARIABLES
  append, \* how the file was opened: every write goes to the end
  data,   \* the bytes of the file
  pos,    \* the position; it may be anywhere in the file or at its end
  res     \* the result of the last call

\* The data cut or filled up to n bytes.
Cut(q, n) == IF n < Len(q) THEN SubSeq(q, 1, n) ELSE q
Zeroes(n) == [i \in 1..n |-> 0]

Read ==
  /\ res'.op = "read" /\ res'.rc >= 0
  /\ LET n == res'.rc
         left == Len(data) - pos
     IN /\ n <= res'.arg
        /\ n < res'.arg => n = left
        /\ res'.bytes = SubSeq(data, pos + 1, pos + n)
        /\ pos' = pos + n
  /\ UNCHANGED data

\* The question whether there is something to read.
Pending ==
  /\ res'.op = "pending" /\ (res'.rc = 0 <=> pos < Len(data))
  /\ UNCHANGED <<data, pos>>

\* A write is short only when there is no more room.
Write ==
  /\ res'.op = "write" /\ res'.rc >= 0
  /\ LET n == res'.rc
         p == IF append /\ res'.arg > 0 THEN Len(data) ELSE pos
     IN /\ n <= res'.arg
        /\ data' = SubSeq(data, 1, p) \o SubSeq(res'.bytes, 1, n)
                   \o SubSeq(data, p + n + 1, Len(data))
        /\ pos' = p + n

Seek ==
  /\ res'.op = "seek" /\ res'.rc >= 0
  /\ pos' = CASE res'.whence = "set" -> res'.arg
              [] res'.whence = "cur" -> pos + res'.arg
              [] res'.whence = "end" -> Len(data) + res'.arg
  /\ res'.rc = pos'
  /\ data' = data \o Zeroes(pos' - Len(data))

Truncate ==
  /\ res'.op = "truncate" /\ res'.rc >= 0
  /\ pos' = res'.arg
  /\ data' = Cut(data, pos') \o Zeroes(pos' - Len(data))

\* The buffer goes to the program; the object is no longer used.
Snatch ==
  /\ res'.op = "snatch" /\ res'.bytes = data
  /\ data' = <<>> /\ pos' = 0

\* An append that fails has moved to the end all the same.
Fail ==
  /\ res'.rc = -1
  /\ UNCHANGED data
  /\ pos' = pos \/ (append /\ res'.op = "write" /\ pos' = Len(data))

Next ==
  /\ Read \/ Pending \/ Write \/ Seek \/ Truncate \/ Snatch \/ Fail
  /\ UNCHANGED append
=============================================================================
