------------------------------ MODULE ByteStream ------------------------------
(***************************************************************************)
(* What an estream over a seekable backend promises its program: a file    *)
(* of bytes, a position in it, and a stack of pushed back bytes in front   *)
(* of that position.  There is no buffer here: a byte written is in the    *)
(* file, a byte read is the byte of the file at the position.              *)
(***************************************************************************)
EXTENDS Integers, Sequences

CONSTANTS Byte, NL, Zero

VARIABLES
  data,   \* the bytes of the file, as the program sees them
  pos,    \* the position of the next byte to read or write
  back,   \* the bytes pushed back, the last one is the next to be read
  res     \* the result of the last call

vars == <<data, pos, back, res>>

Bigger(a, b) == IF a > b THEN a ELSE b

\* The file after w was written at p.
Put(d, p, w) ==
  IF w = <<>> THEN d
  ELSE [i \in 1..Bigger(Len(d), p + Len(w)) |->
          IF i > p /\ i <= p + Len(w) THEN w[i - p]
          ELSE IF i <= Len(d) THEN d[i] ELSE Zero]

\* The n bytes pushed back last, in the order in which they are read.
Pop(n) == [i \in 1..n |-> back[Len(back) + 1 - i]]
Slice(n) == SubSeq(data, pos + 1, pos + n)
Left == IF pos >= Len(data) THEN 0 ELSE Len(data) - pos
Ok == res'.errno = "ok"

Init ==
  /\ data \in Seq(Byte)
  /\ pos = 0
  /\ back = <<>>
  /\ res = [op |-> "open", arg |-> <<>>, rc |-> 0, errno |-> "ok", bytes |-> <<>>]

\* All pushed back bytes are taken before any byte of the file.
Take(u, m) ==
  /\ u = Len(back) \/ m = 0
  /\ res'.bytes = Pop(u) \o Slice(m)
  /\ back' = SubSeq(back, 1, Len(back) - u)
  /\ pos' = pos + m
  /\ UNCHANGED data

\* A read returns fewer bytes than asked for only at the end of the file or
\* with an error.
Read ==
  /\ res'.op \in {"read", "getc"}
  /\ \E u \in 0..Len(back), m \in 0..Left :
       /\ Take(u, m)
       /\ u + m <= res'.arg[1]
       /\ Ok /\ u + m < res'.arg[1] => m = Left /\ back' = <<>>

\* A line ends at its only newline, or at the end of the file.
IsLine(line) ==
  /\ \A i \in 1..(Len(line) - 1) : line[i] # NL
  /\ line[Len(line)] = NL \/ pos' >= Len(data)

ReadLine ==
  /\ res'.op = "read_line"
  /\ \E u \in 0..Len(back), m \in 0..Left : Take(u, m)
  /\ Ok => IF res'.bytes = <<>> THEN Left = 0 ELSE IsLine(res'.bytes)

\* getline does not look at the pushed back bytes.  A failing one may lose a
\* part of the line, and on an unbuffered stream it finds no line at all.
GetLine ==
  /\ res'.op = "getline"
  /\ \E m \in 0..Left :
       /\ pos' = pos + m
       /\ res'.bytes = IF Ok THEN Slice(m) ELSE <<>>
  /\ Ok /\ res'.bytes # <<>> => IsLine(res'.bytes)
  /\ UNCHANGED <<data, back>>

Ungetc ==
  /\ res'.op = "ungetc"
  /\ back' = IF res'.rc = -1 THEN back ELSE back \o res'.arg
  /\ UNCHANGED <<data, pos>>

\* A write puts the bytes it accepts at the position.  After a read that is
\* where the reader stands, and what was pushed back is forgotten.
Write ==
  /\ res'.op = "write"
  /\ res'.bytes = SubSeq(res'.arg, 1, Len(res'.bytes))
  /\ res'.rc = 0 <=> res'.bytes = res'.arg
  /\ \E start \in {pos, pos - Len(back)} :
       /\ start >= 0
       /\ back' = IF start = pos THEN back ELSE <<>>
       /\ data' = Put(data, start, res'.bytes)
       /\ pos' = start + Len(res'.bytes)

Goal ==
  LET o == res'.arg[2]
  IN CASE res'.arg[1] = "SEEK_SET" -> o
       [] res'.arg[1] = "SEEK_CUR" -> pos - Len(back) + o
       [] res'.arg[1] = "SEEK_END" -> Len(data) + o

Seek ==
  /\ res'.op \in {"seek", "rewind"}
  /\ IF res'.rc = 0 THEN pos' = Goal /\ back' = <<>> ELSE UNCHANGED <<pos, back>>
  /\ UNCHANGED data

\* A flush loses nothing that was written.  A reader that flushes, or changes
\* the buffering, may find itself further down the file.
Flush ==
  /\ res'.op \in {"fflush", "setvbuf"}
  /\ \/ UNCHANGED <<pos, back>>
     \/ back' = <<>> /\ pos' \in pos..(pos + Left)
  /\ UNCHANGED data

\* Calls that do not touch the bytes, failing or not.
Neutral ==
  /\ res'.op \in {"pending", "clearerr", "fclose"}
  /\ UNCHANGED <<data, pos, back>>

\* A cancelled stream drops what it still holds; no promise is made.
Cancel ==
  /\ res'.op = "fcancel"
  /\ data' \in Seq(Byte) /\ pos' \in Nat /\ back' = <<>>

Next == Read \/ ReadLine \/ GetLine \/ Ungetc \/ Write \/ Seek \/ Flush \/ Neutral \/ Cancel

Spec == Init /\ [][Next]_vars
=============================================================================
