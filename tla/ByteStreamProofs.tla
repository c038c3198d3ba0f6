--------------------------- MODULE ByteStreamProofs ---------------------------
(***************************************************************************)
(* A stream over a file shows its program a file of bytes with a position  *)
(* and a stack of pushed back bytes (ByteStream), as long as no flush is   *)
(* left half done.  What the program sees of a stream t is LogicalData(t), *)
(* LogicalPos(t) and t.unread.                                             *)
(***************************************************************************)
EXTENDS EStreamProofs

-----------------------------------------------------------------------------
(* Bytes put over others. *)

\* The bytes of a file that w was put into.
LEMMA OverlayAt ==
  ASSUME NEW q \in Bytes, NEW p \in Nat, NEW w \in Bytes
  PROVE  /\ w = <<>> => Overlay(q, p, w) = q
         /\ w # <<>> => Len(Overlay(q, p, w)) = Larger(Len(q), p + Len(w))
         /\ w # <<>> => \A i \in 1..Larger(Len(q), p + Len(w)) :
              Overlay(q, p, w)[i] = IF i > p /\ i <= p + Len(w) THEN w[i - p]
                                    ELSE IF i <= Len(q) THEN q[i] ELSE Zero
         /\ Overlay(q, p, w) \in Bytes /\ Len(q) \in Nat /\ Len(w) \in Nat
         /\ w # <<>> => Len(w) # 0
<1>1. Len(q) \in Nat /\ Len(w) \in Nat /\ (w # <<>> => Len(w) # 0)
  BY DEF Bytes
<1>2. CASE w = <<>>
  BY <1>1, <1>2, OverlayIs DEF Overlay
<1>3. CASE w # <<>>
  <2>1. Overlay(q, p, w) \in Bytes /\ Len(Overlay(q, p, w)) = Larger(Len(q), p + Len(w))
    BY <1>3, OverlayIs
  <2>2. Overlay(q, p, w) = [i \in 1..Larger(Len(q), p + Len(w)) |->
          IF i > p /\ i <= p + Len(w) THEN w[i - p]
          ELSE IF i <= Len(q) THEN q[i] ELSE Zero]
    BY <1>3 DEF Overlay
  <2> QED BY <1>1, <1>3, <2>1, <2>2
<1> QED BY <1>2, <1>3

\* Two strings put one behind the other are one string put there.
LEMMA OverlayTwice ==
  ASSUME NEW q \in Bytes, NEW p \in Nat, NEW u \in Bytes, NEW v \in Bytes
  PROVE  Overlay(Overlay(q, p, u), p + Len(u), v) = Overlay(q, p, u \o v)
<1> DEFINE A == Overlay(q, p, u)
           m == p + Len(u)
           w == u \o v
           B == Overlay(A, m, v)
           C == Overlay(q, p, w)
<1>1. /\ w \in Bytes /\ Len(w) = Len(u) + Len(v) /\ Len(u) \in Nat /\ Len(v) \in Nat
      /\ \A i \in 1..Len(u) : w[i] = u[i]
      /\ \A i \in 1..Len(v) : w[Len(u) + i] = v[i]
  BY JoinedAt
<1>2. /\ A \in Bytes /\ Len(q) \in Nat
      /\ u = <<>> => A = q
      /\ u # <<>> => Len(A) = Larger(Len(q), p + Len(u)) /\ Len(u) # 0
      /\ u # <<>> => \A i \in 1..Larger(Len(q), p + Len(u)) :
              A[i] = IF i > p /\ i <= p + Len(u) THEN u[i - p]
                     ELSE IF i <= Len(q) THEN q[i] ELSE Zero
  BY OverlayAt, ZenonT(60)
<1>3. CASE u = <<>>
  <2>1. w = v /\ m = p
    BY <1>3, NoBytes
  <2> QED BY <1>2, <1>3, <2>1
<1>4. CASE v = <<>>
  <2>1. w = u
    BY <1>4, NoBytes
  <2>2. B = A
    <3> HIDE DEF A
    <3> QED BY <1>4 DEF Overlay
  <2> QED BY <2>1, <2>2
<1>5. CASE u # <<>> /\ v # <<>>
  <2>1. m \in Nat
    BY <1>1
  <2> HIDE DEF A, w
  <2>2. /\ B \in Bytes /\ Len(A) \in Nat /\ Len(v) # 0
        /\ Len(B) = Larger(Len(A), m + Len(v))
        /\ \A i \in 1..Larger(Len(A), m + Len(v)) :
              B[i] = IF i > m /\ i <= m + Len(v) THEN v[i - m]
                     ELSE IF i <= Len(A) THEN A[i] ELSE Zero
    <3> HIDE DEF m
    <3> QED BY <1>2, <1>5, <2>1, OverlayAt, ZenonT(60)
  <2>3. w # <<>>
    <3>1. Len(w) # 0
      BY <1>1, <2>2
    <3> QED BY <3>1, NoBytes
  <2>4. /\ C \in Bytes
        /\ Len(C) = Larger(Len(q), p + Len(w))
        /\ \A i \in 1..Larger(Len(q), p + Len(w)) :
              C[i] = IF i > p /\ i <= p + Len(w) THEN w[i - p]
                     ELSE IF i <= Len(q) THEN q[i] ELSE Zero
    BY <1>1, <2>3, OverlayAt, ZenonT(60)
  <2> HIDE DEF B, C
  <2>5. Len(A) = Larger(Len(q), m)
    BY <1>2, <1>5
  <2>6. Len(B) = Len(C)
    BY <1>1, <1>2, <2>1, <2>2, <2>4, <2>5 DEF Larger
  <2>7. ASSUME NEW i \in 1..Len(B) PROVE B[i] = C[i]
    <3>1. i \in Nat /\ i >= 1 /\ i <= Larger(Len(A), m + Len(v)) /\ i <= Larger(Len(q), p + Len(w))
      BY <2>2, <2>4, <2>6, <2>1, <1>1, <1>2 DEF Larger
    <3>2. i \in 1..Larger(Len(A), m + Len(v)) /\ i \in 1..Larger(Len(q), p + Len(w))
      BY <2>2, <2>4, <2>6
    <3>3. CASE i > m /\ i <= m + Len(v)
      <4>1. B[i] = v[i - m]
        BY <2>2, <3>2, <3>3
      <4>2. i > p /\ i <= p + Len(w) /\ i - m \in 1..Len(v) /\ Len(u) + (i - m) = i - p
        BY <1>1, <3>1, <3>3
      <4>3. w[i - p] = v[i - m]
        BY <1>1, <4>2
      <4> QED BY <2>4, <3>2, <4>1, <4>2, <4>3
    <3>4. CASE i > p /\ i <= m
      <4>1. i \in 1..Larger(Len(q), m) /\ ~(i > m) /\ i <= Len(A)
        BY <1>1, <1>2, <2>5, <3>1, <3>4 DEF Larger
      <4>2. B[i] = A[i] /\ A[i] = u[i - p]
        BY <1>2, <1>5, <2>2, <3>2, <3>4, <4>1
      <4>3. i <= p + Len(w) /\ i - p \in 1..Len(u)
        BY <1>1, <3>1, <3>4
      <4>4. C[i] = w[i - p] /\ w[i - p] = u[i - p]
        BY <1>1, <2>4, <3>2, <3>4, <4>3
      <4> QED BY <4>2, <4>4
    <3>5. CASE ~(i > p /\ i <= m + Len(v))
      <4>1. ~(i > p /\ i <= p + Len(w)) /\ ~(i > m /\ i <= m + Len(v)) /\ ~(i > p /\ i <= m)
        BY <1>1, <3>1, <3>5
      <4>2. C[i] = IF i <= Len(q) THEN q[i] ELSE Zero
        BY <2>4, <3>2, <4>1
      <4>3. B[i] = IF i <= Len(A) THEN A[i] ELSE Zero
        BY <2>2, <3>2, <4>1
      <4>4. CASE i <= Len(A)
        <5>1. A[i] = IF i <= Len(q) THEN q[i] ELSE Zero
          BY <1>2, <1>5, <2>5, <3>1, <4>1, <4>4
        <5> QED BY <4>2, <4>3, <4>4, <5>1
      <4>5. CASE ~(i <= Len(A))
        <5>1. ~(i <= Len(q))
          BY <2>5, <1>1, <1>2, <3>1, <4>5 DEF Larger
        <5> QED BY <4>2, <4>3, <4>5, <5>1
      <4> QED BY <4>4, <4>5
    <3> QED BY <3>1, <3>3, <3>4, <3>5, <1>1
  <2>8. B = C
    BY <2>2, <2>4, <2>6, <2>7, SameBytes
  <2> QED BY <2>8 DEF A, B, C, w
<1> QED BY <1>3, <1>4, <1>5

-----------------------------------------------------------------------------
(* What the program sees of a stream. *)

\* A stream over a file that no flush has left half done.
Steady(t) == /\ Usable(t) /\ t.backend = "file" /\ t.data_flushed = 0
             /\ ~t.writing /\ t.data_len > 0 => t.fpos <= Len(t.file)

\* The program sees no difference.
Alike(t, u) ==
  LogicalData(u) = LogicalData(t) /\ LogicalPos(u) = LogicalPos(t) /\ u.unread = t.unread

\* What a reader shows: the file, and where its buffer stands in it.
LEMMA ReaderShows ==
  ASSUME NEW t, Reader(t)
  PROVE  /\ LogicalData(t) = t.file /\ LogicalPos(t) = t.fpos - t.data_len + t.data_offset
         /\ LogicalPos(t) \in Nat /\ t.file \in Bytes /\ t.data_offset <= t.data_len
         /\ t.data_len \in Nat /\ t.data_offset \in Nat /\ t.fpos \in Nat /\ t.data_len <= t.fpos
<1>1. /\ t \in StreamType /\ ~t.writing /\ t.data_len <= t.fpos /\ t.data_offset <= t.data_len
  BY UsableIs DEF Reader, Bounded, Mirrors
<1>2. /\ t.file \in Bytes /\ t.fpos \in Nat /\ t.data_len \in Nat /\ t.data_offset \in Nat
  BY <1>1, Fields
<1>3. LogicalData(t) = t.file
  BY <1>1 DEF LogicalData, Pending, Overlay
<1>4. LogicalPos(t) = t.fpos - t.data_len + t.data_offset
  BY <1>1 DEF LogicalPos
<1> QED BY <1>1, <1>2, <1>3, <1>4

\* What a writer shows: the file with the buffer already in it.
LEMMA WriterShows ==
  ASSUME NEW t \in StreamType, t.writing, t.data_offset <= Len(t.buf)
  PROVE  /\ LogicalData(t) = Overlay(t.file, t.fpos, SubSeq(t.buf, 1, t.data_offset))
         /\ LogicalPos(t) = t.fpos + t.data_offset
         /\ LogicalData(t) \in Bytes /\ LogicalPos(t) \in Nat
         /\ t.data_offset = 0 => LogicalData(t) = t.file /\ LogicalPos(t) = t.fpos
         /\ SubSeq(t.buf, 1, t.data_offset) \in Bytes /\ Len(SubSeq(t.buf, 1, t.data_offset)) = t.data_offset
         /\ t.file \in Bytes /\ t.fpos \in Nat /\ t.data_offset \in Nat
<1> DEFINE p == SubSeq(t.buf, 1, t.data_offset)
<1>1. /\ t.file \in Bytes /\ t.fpos \in Nat /\ t.data_offset \in Nat /\ t.buf \in Bytes
  BY Fields
<1>2. p \in Bytes /\ Len(p) = t.data_offset
  BY <1>1, Front
<1>3. LogicalData(t) = Overlay(t.file, t.fpos, p)
  BY DEF LogicalData, Pending
<1>4. LogicalPos(t) = t.fpos + t.data_offset
  BY DEF LogicalPos
<1> HIDE DEF p
<1>5. Overlay(t.file, t.fpos, p) \in Bytes
  BY <1>1, <1>2, OverlayIs
<1>6. t.data_offset = 0 => p = <<>> /\ t.fpos + t.data_offset = t.fpos
  BY <1>1, <1>2 DEF Bytes
<1>7. t.data_offset = 0 => LogicalData(t) = t.file
  BY <1>3, <1>6 DEF Overlay
<1> QED BY <1>1, <1>2, <1>3, <1>4, <1>5, <1>6, <1>7 DEF p

\* What such a stream is, whatever it does.
LEMMA SteadyIs ==
  ASSUME NEW t, Steady(t)
  PROVE  /\ t \in StreamType /\ Usable(t) /\ Good(t) /\ t.status = "open" /\ ~t.turned
         /\ t.data_offset <= Len(t.buf) /\ t.unread \in Bytes /\ Len(t.unread) \in Nat
         /\ LogicalData(t) \in Bytes /\ LogicalPos(t) \in Nat /\ Len(LogicalData(t)) \in Nat
         /\ ~t.writing => Reader(t)
         /\ t.writing => Writer(t) /\ t.data_len = 0
<1>1. /\ t \in StreamType /\ Usable(t) /\ Formed(t) /\ Good(t) /\ Bounded(t) /\ t.status = "open" /\ ~t.turned
  BY UsableIs DEF Steady
<1>2. t.data_offset <= Len(t.buf) /\ t.unread \in Bytes /\ Len(t.unread) \in Nat
  BY <1>1, Fields DEF Formed
<1>3. LogicalData(t) \in Bytes /\ LogicalPos(t) \in Nat
  <2>1. CASE t.writing
    BY <1>1, <1>2, <2>1, WriterShows
  <2>2. CASE ~t.writing
    BY <1>1, <2>2, ReaderShows DEF Reader
  <2> QED BY <2>1, <2>2
<1>4. Len(LogicalData(t)) \in Nat
  <2> DEFINE d == LogicalData(t)
  <2>1. d \in Bytes
    BY <1>3
  <2> HIDE DEF d
  <2>2. Len(d) \in Nat
    BY <2>1 DEF Bytes
  <2> QED BY <2>2 DEF d
<1>5. t.writing => Writer(t) /\ t.data_len = 0
  BY <1>1 DEF Writer, Bounded
<1> QED BY <1>1, <1>2, <1>3, <1>4, <1>5 DEF Reader

\* What is not seen twice is not seen.
LEMMA AlikeTrans == ASSUME NEW t, NEW u, NEW v, Alike(t, u), Alike(u, v) PROVE Alike(t, v)
  BY DEF Alike

\* What nothing of this depends on.
LEMMA SameShown ==
  ASSUME NEW t, NEW u, u.file = t.file, u.fpos = t.fpos, u.buf = t.buf, u.data_len = t.data_len,
         u.data_offset = t.data_offset, u.unread = t.unread, u.writing <=> t.writing
  PROVE  Alike(t, u)
  BY DEF Alike, LogicalData, LogicalPos, Pending

\* A flush that gives all to the backend, or nothing, is not seen.
LEMMA FlushShows ==
  ASSUME NEW t, Usable(t), t.backend = "file", t.writing, t.data_flushed = 0,
         NEW r \in flush_stream(t), r.err = "ok" \/ r.s.data_flushed = 0
  PROVE  /\ Alike(t, r.s)
         /\ r.err = "ok" => r.s.file = LogicalData(t) /\ r.s.fpos = LogicalPos(t)
<1> DEFINE p == SubSeq(t.buf, 1, t.data_offset)
           q(k) == SubSeq(p, 1, k)
           A == [Deliver(t, p) EXCEPT
                   !.offset = @ + t.data_offset, !.data_offset = 0,
                   !.data_flushed = 0, !.resent = @ + t.data_flushed,
                   !.buf = Upto(@, t.data_len)]
           B(k) == [Deliver(t, q(k)) EXCEPT !.data_flushed = @ + k]
<1>1. t \in StreamType /\ t.data_offset <= Len(t.buf) /\ ~t.turned /\ Good(t) /\ t.status = "open"
  BY UsableIs DEF Formed
<1>2. /\ p \in Bytes /\ Len(p) = t.data_offset /\ t.file \in Bytes /\ t.fpos \in Nat /\ t.data_offset \in Nat
      /\ LogicalData(t) = Overlay(t.file, t.fpos, p) /\ LogicalPos(t) = t.fpos + t.data_offset
  BY <1>1, WriterShows
<1>3. r \in {Done(A)} \cup {Fail(Indicate(B(k), e), e) : k \in Cut(t), e \in Faults}
  BY DEF flush_stream
<1>4. /\ GoodOutcome(r) /\ r.s.writing /\ r.err \in {"ok"} \cup Faults
      /\ r.err = "ok" => Clean(r.s)
  BY <1>1, FlushOk
<1> HIDE DEF p, q
<1>5. CASE r = Done(A)
  <2> DEFINE D == Deliver(t, p)
  <2>1. /\ D \in StreamType /\ D.fpos = t.fpos + Len(p) /\ D.file = Overlay(t.file, t.fpos, p)
        /\ D.unread = t.unread
    BY <1>1, <1>2, DeliverIs
  <2>2. A.fpos = D.fpos /\ A.file = D.file /\ A.unread = D.unread
    <3> DEFINE b == Upto(D.buf, t.data_len)
    <3>1. A = [D EXCEPT !.offset = D.offset + t.data_offset, !.data_offset = 0,
                        !.data_flushed = 0, !.resent = D.resent + t.data_flushed, !.buf = b]
      OBVIOUS
    <3> HIDE DEF D, A, b
    <3> QED BY <2>1, <3>1 DEF StreamType
  <2>3. r.s = A /\ r.err = "ok"
    BY <1>5 DEF Done, Fail
  <2> HIDE DEF A, D
  <2>4. A.file = LogicalData(t) /\ A.fpos = LogicalPos(t) /\ A.unread = t.unread
    BY <1>2, <2>1, <2>2
  <2>5. A \in StreamType /\ A.writing /\ A.data_offset = 0 /\ A.data_offset <= Len(A.buf)
    BY <1>4, <2>3, NoBytes DEF GoodOutcome, OutcomeType, Clean
  <2>6. LogicalData(A) = A.file /\ LogicalPos(A) = A.fpos
    BY <2>5, WriterShows
  <2> QED BY <2>3, <2>4, <2>6 DEF Alike
<1>6. CASE r # Done(A)
  <2>1. PICK k \in Cut(t), e \in Faults : r = Fail(Indicate(B(k), e), e)
    BY <1>3, <1>6
  <2> DEFINE D == Deliver(t, q(k))
             F == B(k)
             u == Indicate(F, e)
  <2>2. k \in Nat /\ k <= Len(p) /\ q(k) \in Bytes /\ Len(q(k)) = k
    <3>1. k \in Nat /\ k <= Len(p)
      BY <1>2 DEF Cut
    <3> QED BY <3>1, <1>2, Front DEF q
  <2>3. /\ D \in StreamType /\ D.fpos = t.fpos + k /\ D.file = Overlay(t.file, t.fpos, q(k))
        /\ D.buf = t.buf /\ D.data_len = t.data_len /\ D.data_offset = t.data_offset
        /\ D.data_flushed = 0 /\ D.unread = t.unread /\ (D.writing <=> t.writing)
    BY <1>1, <2>2, DeliverIs
  <2> HIDE DEF D
  <2>4. /\ F \in StreamType /\ F.fpos = D.fpos /\ F.file = D.file
        /\ F.buf = D.buf /\ F.data_len = D.data_len /\ F.data_offset = D.data_offset
        /\ F.data_flushed = k /\ F.unread = D.unread /\ (F.writing <=> D.writing)
    <3>1. F = [D EXCEPT !.data_flushed = k]
      BY <2>2, <2>3 DEF D
    <3> HIDE DEF F
    <3> QED BY <2>2, <2>3, <3>1 DEF StreamType
  <2> HIDE DEF F
  <2>5. u \in StreamType /\ Untouched(F, u) /\ u.buf = F.buf /\ u.unread = F.unread /\ u.data_offset = F.data_offset
    BY <2>4, IndicateIs
  <2>6. r.s = u /\ r.err = e /\ e # "ok"
    BY <2>1, FaultsAre DEF Fail, F
  <2> HIDE DEF u
  <2>7. k = 0
    BY <2>4, <2>5, <2>6 DEF Untouched
  <2>8. q(k) = <<>>
    BY <2>2, <2>7 DEF Bytes
  <2>9. D.file = t.file /\ D.fpos = t.fpos
    BY <1>2, <2>3, <2>7, <2>8 DEF Overlay
  <2>10. Alike(t, u)
    BY <2>3, <2>4, <2>5, <2>9, SameShown DEF Untouched
  <2> QED BY <2>6, <2>10
<1> QED BY <1>5, <1>6

\* Nor are the indicators.
LEMMA MarkedShows ==
  ASSUME NEW t, Steady(t),
         NEW u \in {[t EXCEPT !.err = TRUE], [t EXCEPT !.err = FALSE], [t EXCEPT !.eof = TRUE],
                    [t EXCEPT !.eof = FALSE, !.err = FALSE]}
  PROVE  Steady(u) /\ Alike(t, u)
<1>1. t \in StreamType /\ Good(t)
  BY SteadyIs
<1>2. Good(u) /\ Untouched(t, u)
  BY <1>1, MarkedIs
<1>3. u.buf = t.buf /\ u.data_offset = t.data_offset /\ u.unread = t.unread
  BY <1>1, ZenonT(60) DEF StreamType
<1>4. Alike(t, u)
  BY <1>2, <1>3, SameShown DEF Untouched
<1>5. Steady(u)
  BY <1>2 DEF Steady, Usable, Untouched, Same
<1> QED BY <1>4, <1>5

-----------------------------------------------------------------------------
(* Reading *)

\* The switch to reading mode is not seen.
LEMMA ToReadingShows ==
  ASSUME NEW t, Steady(t), NEW r \in ToReading(t), r.err = "ok" \/ r.s.data_flushed = 0
  PROVE  /\ Alike(t, r.s) /\ Steady(r.s) /\ r.n = 0 /\ r.got = <<>> /\ r.err \in {"ok"} \cup Faults
         /\ r.err = "ok" => Reader(r.s)
<1>1. /\ Harmless(t, r) /\ r.n = 0 /\ r.got = <<>> /\ r.err \in {"ok"} \cup Faults
      /\ r.err = "ok" => Reader(r.s)
  BY ToReadingOk DEF Steady
<1>2. /\ Good(r.s) /\ Usable(r.s) /\ r.s.backend = "file" /\ r.s \in StreamType
  BY <1>1, SteadyIs DEF Harmless, GoodOutcome, OutcomeType, Same, Usable, Steady
<1>3. r.s.data_flushed = 0
  BY <1>1, UsableIs DEF Reader, Bounded
<1>4. CASE ~t.writing
  <2>1. r = Done(t)
    BY <1>4 DEF ToReading
  <2>2. r.s = t
    BY <2>1 DEF Done, Fail
  <2> QED BY <1>1, <2>2 DEF Alike
<1>5. CASE t.writing
  <2>1. PICK f \in flush_stream(t) : r = [f EXCEPT !.s.writing = (f.err # "ok")]
    BY <1>5 DEF ToReading
  <2>2. GoodOutcome(f) /\ f.s.writing /\ f.err \in {"ok"} \cup Faults /\ (f.err = "ok" => Clean(f.s))
    BY <1>5, SteadyIs, FlushOk
  <2>3. f \in OutcomeType /\ f.s \in StreamType
    BY <2>2 DEF GoodOutcome, OutcomeType
  <2> DEFINE u == [f.s EXCEPT !.writing = (f.err # "ok")]
  <2>4. r.s = u /\ r.err = f.err
    BY <2>1, <2>3 DEF OutcomeType
  <2>5. /\ u.file = f.s.file /\ u.fpos = f.s.fpos /\ u.buf = f.s.buf /\ u.data_len = f.s.data_len
        /\ u.data_offset = f.s.data_offset /\ u.unread = f.s.unread /\ u.data_flushed = f.s.data_flushed
        /\ (u.writing <=> f.err # "ok")
    BY <2>3 DEF StreamType
  <2> HIDE DEF u
  <2>6. /\ Alike(t, f.s)
        /\ f.err = "ok" => f.s.file = LogicalData(t) /\ f.s.fpos = LogicalPos(t)
    BY <1>3, <1>5, <2>4, <2>5, UsableIs, FlushShows DEF Steady
  <2>7. CASE f.err # "ok"
    <3>1. u.writing /\ f.s.writing
      BY <2>2, <2>5, <2>7
    <3>2. Alike(f.s, u)
      BY <2>5, <3>1, SameShown
    <3> QED BY <1>1, <1>2, <1>3, <2>4, <2>6, <3>1, <3>2, AlikeTrans DEF Steady
  <2>8. CASE f.err = "ok"
    <3>1. Clean(u) /\ u.file = LogicalData(t) /\ u.fpos = LogicalPos(t) /\ u.unread = t.unread
      BY <2>2, <2>5, <2>6, <2>8 DEF Clean, Alike
    <3>2. LogicalData(u) = u.file /\ LogicalPos(u) = u.fpos - u.data_len + u.data_offset /\ u.fpos \in Nat
      BY <1>1, <2>4, <2>8, ReaderShows
    <3>3. LogicalPos(u) = u.fpos
      BY <3>1, <3>2 DEF Clean
    <3>4. Alike(t, u)
      BY <3>1, <3>2, <3>3 DEF Alike
    <3>5. Steady(u)
      BY <1>2, <1>3, <2>4, <3>1 DEF Steady, Clean
    <3> QED BY <1>1, <2>4, <3>4, <3>5
  <2> QED BY <2>7, <2>8
<1> QED BY <1>4, <1>5, <1>1

\* How many bytes of the file are left before the program, and the next m of them.
Ahead(t) == IF LogicalPos(t) >= Len(LogicalData(t)) THEN 0 ELSE Len(LogicalData(t)) - LogicalPos(t)
Following(t, m) == SubSeq(LogicalData(t), LogicalPos(t) + 1, LogicalPos(t) + m)

\* What is left of a window of f, and what follows the window.
LEMMA WindowIs ==
  ASSUME NEW f \in Bytes, NEW x \in Nat, NEW y \in Nat, NEW o \in Nat, x <= y, y <= Len(f), o <= y - x
  PROVE  SubSeq(SubSeq(f, x + 1, y), o + 1, y - x) \o SubSeq(f, y + 1, Len(f)) = SubSeq(f, (x + o) + 1, Len(f))
<1> DEFINE n == Len(f)
           l == y - x
           P == x + o
           w == SubSeq(f, x + 1, y)
           a == SubSeq(w, o + 1, l)
           b == SubSeq(f, y + 1, n)
           c == SubSeq(f, P + 1, n)
<1>1. n \in Nat /\ l \in Nat /\ P \in Nat /\ P <= n /\ o <= l
  BY DEF Bytes
<1>2. w \in Bytes /\ Len(w) = l /\ \A i \in 1..l : w[i] = f[x + i]
  BY PartAt
<1>3. b \in Bytes /\ Len(b) = n - y /\ \A i \in 1..(n - y) : b[i] = f[y + i]
  BY <1>1, PartAt
<1>4. c \in Bytes /\ Len(c) = n - P /\ \A i \in 1..(n - P) : c[i] = f[P + i]
  <2> HIDE DEF P
  <2> QED BY <1>1, PartAt
<1> HIDE DEF w, b, c
<1>5. a \in Bytes /\ Len(a) = l - o /\ \A i \in 1..(l - o) : a[i] = w[o + i]
  <2>1. w \in Bytes /\ o \in Nat /\ l \in Nat /\ o <= l /\ l <= Len(w)
    BY <1>1, <1>2
  <2> HIDE DEF l
  <2> QED BY <2>1, PartAt
<1> HIDE DEF a
<1>6. /\ a \o b \in Bytes /\ Len(a \o b) = Len(a) + Len(b)
      /\ \A i \in 1..Len(a) : (a \o b)[i] = a[i]
      /\ \A i \in 1..Len(b) : (a \o b)[Len(a) + i] = b[i]
  BY <1>3, <1>5, JoinedAt
<1> HIDE DEF n
<1>7. Len(a \o b) = Len(c)
  BY <1>1, <1>3, <1>4, <1>5, <1>6
<1>8. ASSUME NEW i \in 1..Len(a \o b) PROVE (a \o b)[i] = c[i]
  <2>1. i \in 1..(n - P)
    BY <1>4, <1>7
  <2>2. c[i] = f[P + i]
    BY <1>4, <2>1
  <2>3. CASE i <= l - o
    <3>1. i \in 1..(l - o) /\ o + i \in 1..l /\ x + (o + i) = P + i
      BY <1>1, <2>1, <2>3
    <3>2. (a \o b)[i] = a[i]
      BY <1>5, <1>6, <3>1
    <3>3. a[i] = w[o + i] /\ w[o + i] = f[x + (o + i)]
      BY <1>2, <1>5, <3>1
    <3> QED BY <2>2, <3>1, <3>2, <3>3
  <2>4. CASE ~(i <= l - o)
    <3> DEFINE j == i - (l - o)
    <3>1. j \in 1..(n - y) /\ (l - o) + j = i /\ y + j = P + i
      BY <1>1, <2>1, <2>4
    <3> HIDE DEF j
    <3>2. (a \o b)[(l - o) + j] = b[j]
      BY <1>3, <1>5, <1>6, <3>1
    <3>3. b[j] = f[y + j]
      BY <1>3, <3>1
    <3> QED BY <2>2, <3>1, <3>2, <3>3
  <2> QED BY <2>3, <2>4
<1>9. a \o b = c
  BY <1>4, <1>6, <1>7, <1>8, SameBytes
<1> QED BY <1>9 DEF a, b, c, w, n

\* The buffer and the rest of the backend are the rest of the file.
LEMMA RestIsFile ==
  ASSUME NEW t, Steady(t), Reader(t)
  PROVE  Rest(t) = SubSeq(LogicalData(t), LogicalPos(t) + 1, Len(LogicalData(t)))
<1>1. /\ t \in StreamType /\ t.data_len = Len(t.buf) /\ Mirrors(t) /\ ~t.writing
      /\ t.data_len > 0 => t.fpos <= Len(t.file)
  BY UsableIs DEF Reader, Bounded, Steady
<1>2. /\ LogicalData(t) = t.file /\ LogicalPos(t) = t.fpos - t.data_len + t.data_offset
      /\ t.file \in Bytes /\ t.data_offset <= t.data_len /\ t.data_len \in Nat /\ t.data_offset \in Nat
      /\ t.fpos \in Nat /\ t.data_len <= t.fpos /\ t.buf \in Bytes
  BY <1>1, ReaderShows, Fields
<1>3. Rest(t) = SubSeq(t.buf, t.data_offset + 1, t.data_len) \o SubSeq(t.file, t.fpos + 1, Len(t.file))
  BY <1>1 DEF Rest, Lesser
<1>4. CASE t.data_len = 0
  <2>1. LogicalPos(t) = t.fpos /\ t.data_offset = 0
    BY <1>2, <1>4
  <2>2. SubSeq(t.buf, t.data_offset + 1, t.data_len) = <<>>
    BY <1>2, <1>4, <2>1 DEF Bytes
  <2>3. Len(t.file) \in Int /\ SubSeq(t.file, t.fpos + 1, Len(t.file)) \in Bytes
    <3>1. Len(t.file) \in Int
      BY <1>2 DEF Bytes
    <3> QED BY <3>1, <1>2, Part
  <2> QED BY <1>2, <1>3, <2>1, <2>2, <2>3, NoBytes
<1>5. CASE t.data_len > 0
  <2> DEFINE x == t.fpos - t.data_len
  <2>1. x \in Nat /\ t.fpos - x = t.data_len /\ x <= t.fpos /\ LogicalPos(t) = x + t.data_offset
        /\ t.data_offset <= t.fpos - x
    BY <1>2
  <2>2. t.fpos <= Len(t.file) /\ t.buf = SubSeq(t.file, x + 1, t.fpos)
    BY <1>1, <1>5 DEF Mirrors
  <2> HIDE DEF x
  <2>3. SubSeq(SubSeq(t.file, x + 1, t.fpos), t.data_offset + 1, t.fpos - x) \o SubSeq(t.file, t.fpos + 1, Len(t.file))
          = SubSeq(t.file, (x + t.data_offset) + 1, Len(t.file))
    BY <1>2, <2>1, <2>2, WindowIs, ZenonT(60)
  <2> QED BY <1>2, <1>3, <2>1, <2>2, <2>3
<1> QED BY <1>2, <1>4, <1>5

\* So a reader has ahead of it what the program has ahead in the file.
LEMMA RestShows ==
  ASSUME NEW t, Steady(t), Reader(t)
  PROVE  /\ Rest(t) \in Bytes /\ Len(Rest(t)) = Ahead(t) /\ Ahead(t) \in Nat
         /\ t.data_len - t.data_offset <= Ahead(t)
         /\ \A m \in 0..Ahead(t) : SubSeq(Rest(t), 1, m) = Following(t, m)
<1> DEFINE f == LogicalData(t)
           P == LogicalPos(t)
           n == Len(f)
           c == SubSeq(f, P + 1, n)
<1>1. Rest(t) = c
  BY RestIsFile
<1>2. f \in Bytes /\ P \in Nat /\ n \in Nat
  BY SteadyIs
<1>3. Ahead(t) = IF P >= n THEN 0 ELSE n - P
  BY DEF Ahead
<1>4. t.data_len - t.data_offset <= Len(Rest(t))
  BY RestIs
<1>5. \A m : Following(t, m) = SubSeq(f, P + 1, P + m)
  BY DEF Following
<1> HIDE DEF f, P
<1>6. c \in Bytes /\ Len(c) = IF P < n THEN n - P ELSE 0
  BY <1>2, Part
<1>7. Len(c) = Ahead(t) /\ Ahead(t) \in Nat
  <2> HIDE DEF c, n
  <2> QED BY <1>2, <1>3, <1>6
<1>8. ASSUME NEW m \in 0..Ahead(t) PROVE SubSeq(c, 1, m) = SubSeq(f, P + 1, P + m)
  <2>1. CASE P <= n
    <3>1. m \in Nat /\ m <= n - P
      <4> HIDE DEF n
      <4> QED BY <1>2, <1>3, <2>1
    <3> QED BY <1>2, <2>1, <3>1, PartOfPart
  <2>2. CASE ~(P <= n)
    <3>1. m = 0
      <4> HIDE DEF n
      <4> QED BY <1>2, <1>3, <2>2
    <3> HIDE DEF c
    <3>2. SubSeq(c, 1, 0) = <<>> /\ SubSeq(f, P + 1, P + 0) = <<>>
      BY <1>2, <1>6 DEF Bytes
    <3> QED BY <3>1, <3>2
  <2> QED BY <2>1, <2>2
<1> HIDE DEF c
<1> QED BY <1>1, <1>4, <1>5, <1>6, <1>7, <1>8

\* What a read of n bytes from the file does: it gives the next m.
Reads(t, n, r) ==
  /\ Steady(r.s) /\ Reader(r.s)
  /\ LogicalData(r.s) = LogicalData(t) /\ r.s.unread = t.unread
  /\ \E m \in 0..Ahead(t) :
       /\ m <= n /\ r.n = m /\ r.got = Following(t, m)
       /\ LogicalPos(r.s) = LogicalPos(t) + m
       /\ r.err = "ok" /\ m < n => m = Ahead(t)

\* What is enough for that.
LEMMA ReadsIf ==
  ASSUME NEW t, Steady(t), Reader(t), NEW n \in Nat, NEW r, ReadOutcome(t, r), NEW m \in Nat,
         m <= n, m <= Len(Rest(t)), r.got = SubSeq(Rest(t), 1, m), r.n = Len(r.got),
         r.s.file = t.file, r.s.unread = t.unread,
         r.s.fpos - r.s.data_len + r.s.data_offset = (t.fpos - t.data_len + t.data_offset) + m,
         r.s.data_len > 0 => r.s.fpos <= Len(t.file),
         r.err = "ok" /\ m < n => m = Len(Rest(t))
  PROVE  Reads(t, n, r)
<1>1. Reader(r.s) /\ Usable(r.s) /\ r.s.backend = "file"
  BY DEF ReadOutcome, Reader, Harmless, Same, Steady
<1>2. r.s.data_flushed = 0
  BY <1>1, UsableIs DEF Reader, Bounded
<1>3. Steady(r.s)
  BY <1>1, <1>2 DEF Steady
<1>4. /\ LogicalData(r.s) = r.s.file /\ LogicalPos(r.s) = r.s.fpos - r.s.data_len + r.s.data_offset
      /\ LogicalData(t) = t.file /\ LogicalPos(t) = t.fpos - t.data_len + t.data_offset
  BY <1>1, ReaderShows
<1>5. /\ Rest(t) \in Bytes /\ Len(Rest(t)) = Ahead(t) /\ Ahead(t) \in Nat
      /\ \A k \in 0..Ahead(t) : SubSeq(Rest(t), 1, k) = Following(t, k)
  BY RestShows
<1>6. m \in 0..Ahead(t) /\ r.got = Following(t, m)
  BY <1>5
<1>7. r.n = m
  BY <1>5, Front
<1> QED BY <1>1, <1>3, <1>4, <1>5, <1>6, <1>7 DEF Reads

\* A fill, whatever is then noted or taken.
LEMMA FillFields ==
  ASSUME NEW t, t \in StreamType, NEW a \in Nat, NEW l \in Nat, l = 0 \/ t.fpos + a + l <= Len(t.file)
  PROVE  LET F == fill_stream(t, a, l)
         IN /\ F \in StreamType /\ F.file = t.file /\ F.unread = t.unread
            /\ F.fpos = t.fpos + a + l /\ F.data_len = l /\ F.data_offset = 0
<1> DEFINE F == fill_stream(t, a, l)
           b == SubSeq(t.file, t.fpos + a + 1, t.fpos + a + l)
<1>1. b \in Bytes /\ Len(b) = l
  BY NextBytes
<1>2. t.fpos + a + l \in Nat /\ t.offset + t.data_len + a \in Nat
  BY Fields, SMTT(60)
<1>3. F = [t EXCEPT !.buf = b, !.data_len = l, !.data_offset = 0,
                    !.fpos = t.fpos + a + l, !.offset = t.offset + t.data_len + a]
  BY DEF fill_stream
<1> HIDE DEF F, b
<1>4. F \in StreamType /\ F.file = t.file /\ F.unread = t.unread
      /\ F.fpos = t.fpos + a + l /\ F.data_len = l /\ F.data_offset = 0
  BY <1>1, <1>2, <1>3 DEF StreamType, Bytes
<1> QED BY <1>4 DEF F

\* es_read_fbf gives the next bytes of the file.
LEMMA ReadBufferedShows ==
  ASSUME NEW t, Steady(t), Reader(t), NEW n \in Nat, NEW r \in do_read_fbf(t, n)
  PROVE  Reads(t, n, r)
<1> DEFINE left == t.data_len - t.data_offset
           all == Rest(t)
<1>1. /\ t \in StreamType /\ t.data_len = Len(t.buf) /\ t.data_offset <= t.data_len
      /\ t.buffer = "none" => t.buf = <<>>
  BY UsableIs DEF Reader, Bounded
<1>2. /\ t.data_len \in Nat /\ t.data_offset \in Nat /\ t.fpos \in Nat /\ t.buffer_size \in Nat
      /\ Len(t.file) \in Nat /\ left \in Nat /\ t.data_len <= t.fpos
  BY <1>1, Fields, ReaderShows
<1>3. all \in Bytes /\ Len(all) \in Nat /\ left <= Len(all)
  BY RestIs
<1>0. ReadOutcome(t, r)
  BY ReadBufferedOk
<1>4. CASE n = 0
  <2>1. r = Gave(t, <<>>, "ok")
    BY <1>4 DEF do_read_fbf, Done, Fail, Gave
  <2>2. r.s = t /\ r.got = <<>> /\ r.n = Len(r.got)
    BY <2>1 DEF Gave
  <2> DEFINE z == t.fpos - t.data_len + t.data_offset
  <2>3. SubSeq(all, 1, 0) = <<>> /\ 0 <= Len(all) /\ z + 0 = z /\ 0 \in Nat /\ 0 <= n
    <3> HIDE DEF all
    <3> QED BY <1>2, <1>3 DEF Bytes
  <2>4. t.data_len > 0 => t.fpos <= Len(t.file)
    BY DEF Steady, Reader
  <2>5. /\ 0 <= Len(Rest(t)) /\ r.got = SubSeq(Rest(t), 1, 0) /\ r.s.file = t.file /\ r.s.unread = t.unread
        /\ r.s.fpos - r.s.data_len + r.s.data_offset = (t.fpos - t.data_len + t.data_offset) + 0
        /\ (r.s.data_len > 0 => r.s.fpos <= Len(t.file)) /\ ~(0 < n)
    BY <1>4, <2>2, <2>3, <2>4
  <2> QED BY <1>0, <2>2, <2>3, <2>5, ReadsIf
<1>6. CASE n # 0 /\ t.buffer = "none"
  <2>1. t.data_len = 0 /\ t.data_offset = 0
    BY <1>1, <1>2, <1>6, NoBytes
  <2>2. ~(left < 0 \/ t.data_len > Len(t.buf))
    BY <1>1, <1>2, <2>1
  <2>3. r \in NullRead(t)
    <3> HIDE DEF left
    <3> QED BY <1>6, <2>2 DEF do_read_fbf, left
  <2> DEFINE F == fill_stream(t, 0, 0)
             E == [F EXCEPT !.eof = TRUE]
  <2>4. \/ Len(all) = 0 /\ r = Gave(E, <<>>, "ok")
        \/ \E e \in Faults \cup {"EFAULT"} : r = Gave(Indicate(F, e), <<>>, e)
    <3> HIDE DEF E, F
    <3>1. NullRead(t) = {Gave(E, <<>>, "ok") : end \in {0} \cap {Len(all)}}
                        \cup {Gave(Indicate(F, e), <<>>, e) : e \in Faults \cup {"EFAULT"}}
      BY DEF NullRead, E, F
    <3> HIDE DEF all
    <3> QED BY <2>3, <3>1
  <2> HIDE DEF all, left
  <2>5. /\ F \in StreamType /\ F.file = t.file /\ F.unread = t.unread
        /\ F.fpos = t.fpos + 0 + 0 /\ F.data_len = 0 /\ F.data_offset = 0
    BY <1>1, FillFields
  <2> HIDE DEF F
  <2>6. /\ SubSeq(all, 1, 0) = <<>> /\ Len(<<>>) = 0 /\ 0 <= Len(all) /\ 0 <= n /\ 0 \in Nat
        /\ (t.fpos + 0 + 0) - 0 + 0 = (t.fpos - t.data_len + t.data_offset) + 0
    BY <1>2, <1>3, <2>1 DEF Bytes
  <2>7. ASSUME NEW u \in {E, Indicate(F, "EAGAIN")} \cup {Indicate(F, e) : e \in Faults \cup {"EFAULT"}}
        PROVE  /\ u.file = t.file /\ u.unread = t.unread /\ ~(u.data_len > 0)
               /\ u.fpos - u.data_len + u.data_offset = (t.fpos - t.data_len + t.data_offset) + 0
    <3>1. /\ u.file = t.file /\ u.unread = t.unread /\ u.fpos = t.fpos + 0 + 0 /\ u.data_len = 0
          /\ u.data_offset = 0
      <4>1. CASE u = E
        BY <2>5, <4>1 DEF StreamType
      <4>2. ASSUME NEW e, u = Indicate(F, e)
            PROVE  /\ u.file = F.file /\ u.unread = F.unread /\ u.fpos = F.fpos /\ u.data_len = F.data_len
                   /\ u.data_offset = F.data_offset
        BY <2>5, <4>2 DEF Indicate, StreamType
      <4> QED BY <2>5, <4>1, <4>2
    <3> QED BY <2>6, <3>1
  <2> HIDE DEF E
  <2>8. CASE Len(all) = 0 /\ r = Gave(E, <<>>, "ok")
    <3>1. r.s = E /\ r.got = <<>> /\ r.n = Len(r.got)
      BY <2>8 DEF Gave
    <3> QED BY <1>0, <2>6, <2>7, <2>8, <3>1, ReadsIf DEF all
  <2>9. ASSUME NEW e \in Faults \cup {"EFAULT"}, r = Gave(Indicate(F, e), <<>>, e)
        PROVE  Reads(t, n, r)
    <3>1. r.s = Indicate(F, e) /\ r.got = <<>> /\ r.n = Len(r.got) /\ r.err # "ok"
      BY <2>9, FaultsAre DEF Gave
    <3> QED BY <1>0, <2>6, <2>7, <3>1, ReadsIf DEF all
  <2> QED BY <2>4, <2>8, <2>9
<1>5. CASE n # 0 /\ t.buffer # "none"
  <2>1. ~(left < 0 \/ t.data_len > Len(t.buf))
    <3> HIDE DEF left
    <3> QED BY <1>1, <1>2
  <2> DEFINE S1 == {Gave([t EXCEPT !.data_offset = @ + m], SubSeq(all, 1, n), "ok") : m \in {n} \cap 0..left}
             Full == {f \in (0..(n - left - 1)) \X (1..t.buffer_size) :
                        /\ n - left - f[1] <= f[2]
                        /\ t.fpos + f[1] + f[2] <= Len(t.file)}
             S2 == {Gave([fill_stream(t, f[1], f[2]) EXCEPT !.data_offset = n - left - f[1]],
                         SubSeq(all, 1, n), "ok") : f \in Full}
             S3 == {Gave([fill_stream(t, c - left, 0) EXCEPT !.eof = TRUE], all, "ok") :
                      c \in {Len(all)} \cap 0..(n - 1)}
             S4 == {Gave(Indicate(fill_stream(t, c - left, 0), e), SubSeq(all, 1, c), e) :
                      c \in left..Lesser(n - 1, Len(all)), e \in Faults}
  <2>2. r \in S1 \cup S2 \cup S3 \cup S4
    <3>1. do_read_fbf(t, n) = IF n = 0 THEN {Done(t)}
                              ELSE IF left < 0 \/ t.data_len > Len(t.buf) THEN {Crash(t, "overrun")}
                              ELSE IF t.buffer = "none" THEN NullRead(t)
                              ELSE S1 \cup S2 \cup S3 \cup S4
      BY DEF do_read_fbf
    <3> HIDE DEF S1, S2, S3, S4, left
    <3> QED BY <3>1, <1>5, <2>1
  <2> HIDE DEF all
  <2>3. ASSUME NEW m \in {n} \cap 0..left,
               r = Gave([t EXCEPT !.data_offset = @ + m], SubSeq(all, 1, n), "ok")
        PROVE  Reads(t, n, r)
    <3> DEFINE u == [t EXCEPT !.data_offset = @ + m]
               g == SubSeq(all, 1, n)
    <3>1. n <= Len(all) /\ m = n
      BY <1>2, <1>3
    <3>2. u.data_offset = t.data_offset + n /\ u.file = t.file /\ u.fpos = t.fpos
          /\ u.data_len = t.data_len /\ u.unread = t.unread
      BY <1>1, <3>1 DEF StreamType
    <3>3. t.data_len > 0 => t.fpos <= Len(t.file)
      BY DEF Steady, Reader
    <3>4. r.s = u /\ r.got = g /\ r.n = Len(r.got)
      BY <2>3 DEF Gave
    <3>5. t.fpos - t.data_len + (t.data_offset + n) = (t.fpos - t.data_len + t.data_offset) + n
      BY <1>2
    <3> HIDE DEF u, left
    <3> QED BY <1>0, <3>1, <3>2, <3>3, <3>4, <3>5, ReadsIf DEF all
  <2>4. ASSUME NEW f \in (0..(n - left - 1)) \X (1..t.buffer_size), n - left - f[1] <= f[2],
               t.fpos + f[1] + f[2] <= Len(t.file),
               r = Gave([fill_stream(t, f[1], f[2]) EXCEPT !.data_offset = n - left - f[1]], SubSeq(all, 1, n), "ok")
        PROVE  Reads(t, n, r)
    <3> DEFINE a == f[1]
               l == f[2]
               o == n - left - a
               F == fill_stream(t, a, l)
               u == [F EXCEPT !.data_offset = o]
    <3>1. a \in 0..(n - left - 1) /\ l \in 1..t.buffer_size
      OBVIOUS
    <3>2. o <= l /\ t.fpos + a + l <= Len(t.file) /\ r = Gave(u, SubSeq(all, 1, n), "ok")
      BY <2>4
    <3> HIDE DEF a, l
    <3>3. a \in Nat /\ l \in Nat /\ l >= 1 /\ o \in Nat
      BY <1>2, <3>1, SMTT(60)
    <3>4. /\ F \in StreamType /\ F.file = t.file /\ F.unread = t.unread
          /\ F.fpos = t.fpos + a + l /\ F.data_len = l
      <4> HIDE DEF o
      <4> QED BY <1>1, <3>2, <3>3, FillFields, SMTT(60)
    <3> HIDE DEF F
    <3>5. /\ u.file = t.file /\ u.unread = t.unread /\ u.fpos = t.fpos + a + l /\ u.data_len = l /\ u.data_offset = o
      BY <3>4 DEF StreamType
    <3>6. r.s = u /\ r.got = SubSeq(all, 1, n) /\ r.n = Len(r.got)
      BY <3>2 DEF Gave
    <3>7. n <= Len(all)
      <4>1. /\ LogicalPos(t) = t.fpos - t.data_len + t.data_offset /\ LogicalData(t) = t.file /\ Len(all) = Ahead(t)
        BY ReaderShows, RestShows DEF all
      <4>2. Len(all) = IF LogicalPos(t) >= Len(t.file) THEN 0 ELSE Len(t.file) - LogicalPos(t)
        BY <4>1 DEF Ahead
      <4>3. LogicalPos(t) = t.fpos - left /\ n - left - a <= l
        BY <1>2, <3>2, <4>1, SMTT(60)
      <4>4. \A x, y \in Nat : left \in Nat /\ y >= x + a + l /\ n - left - a <= l =>
               n <= IF x - left >= y THEN 0 ELSE y - (x - left)
        <5> HIDE DEF left
        <5> QED BY <3>3
      <4> HIDE DEF left
      <4> QED BY <1>2, <3>2, <4>2, <4>3, <4>4
    <3>8. u.fpos - u.data_len + u.data_offset = (t.fpos - t.data_len + t.data_offset) + n
      <4>1. \A x, y, z \in Nat : ((x + a + l) - l) + (n - (y - z) - a) = (x - y + z) + n
        BY <3>3
      <4>2. ((t.fpos + a + l) - l) + o = (t.fpos - t.data_len + t.data_offset) + n
        BY <1>2, <4>1, ZenonT(60)
      <4> HIDE DEF u, o
      <4> QED BY <3>5, <4>2
    <3>9. u.fpos <= Len(t.file)
      BY <3>2, <3>5
    <3> HIDE DEF u, left, o
    <3> QED BY <1>0, <3>5, <3>6, <3>7, <3>8, <3>9, ReadsIf DEF all
  <2>5. ASSUME NEW c \in {Len(all)} \cap 0..(n - 1),
               r = Gave([fill_stream(t, c - left, 0) EXCEPT !.eof = TRUE], all, "ok")
        PROVE  Reads(t, n, r)
    <3> DEFINE a == c - left
               F == fill_stream(t, a, 0)
               u == [F EXCEPT !.eof = TRUE]
    <3>1. a \in Nat /\ c = Len(all) /\ c <= n
      BY <1>2, <1>3
    <3>2. F \in StreamType /\ F.file = t.file /\ F.unread = t.unread
          /\ F.fpos = t.fpos + a + 0 /\ F.data_len = 0 /\ F.data_offset = 0
      <4> HIDE DEF a
      <4> QED BY <1>1, <3>1, FillFields, SMTT(60)
    <3> HIDE DEF F
    <3>3. u.file = t.file /\ u.unread = t.unread /\ u.fpos = t.fpos + a + 0 /\ u.data_len = 0 /\ u.data_offset = 0
      BY <3>2 DEF StreamType
    <3>4. r.s = u /\ r.got = all /\ r.n = Len(r.got)
      BY <2>5 DEF Gave, F
    <3>5. SubSeq(all, 1, c) = all
      BY <1>3, <3>1 DEF Bytes
    <3>6. u.fpos - u.data_len + u.data_offset = (t.fpos - t.data_len + t.data_offset) + c
      BY <1>2, <3>1, <3>3, SMTT(60)
    <3>7. c \in Nat /\ c <= Len(all) /\ ~(u.data_len > 0)
      BY <1>3, <3>1, <3>3
    <3> HIDE DEF u, left
    <3> QED BY <1>0, <3>1, <3>3, <3>4, <3>5, <3>6, <3>7, ReadsIf DEF all
  <2>6. ASSUME NEW c \in left..Lesser(n - 1, Len(all)), NEW e \in Faults,
               r = Gave(Indicate(fill_stream(t, c - left, 0), e), SubSeq(all, 1, c), e)
        PROVE  Reads(t, n, r)
    <3> DEFINE a == c - left
               F == fill_stream(t, a, 0)
               u == Indicate(F, e)
    <3>1. a \in Nat /\ c \in Nat /\ c <= Len(all) /\ c <= n
      BY <1>2, <1>3 DEF Lesser
    <3>2. F \in StreamType /\ F.file = t.file /\ F.unread = t.unread
          /\ F.fpos = t.fpos + a + 0 /\ F.data_len = 0 /\ F.data_offset = 0
      <4> HIDE DEF a, left, S1, S2, S3, S4, Full
      <4>1. 0 \in Nat /\ a \in Nat
        BY <3>1
      <4> QED BY <1>1, <4>1, FillFields, ZenonT(60)
    <3>4. r.s = u /\ r.got = SubSeq(all, 1, c) /\ r.n = Len(r.got) /\ r.err # "ok"
      BY <2>6, FaultsAre DEF Gave
    <3> HIDE DEF F
    <3>3. u.file = t.file /\ u.unread = t.unread /\ u.fpos = t.fpos + a + 0 /\ u.data_len = 0 /\ u.data_offset = 0
      BY <3>2, IndicateIs DEF Untouched
    <3>6. u.fpos - u.data_len + u.data_offset = (t.fpos - t.data_len + t.data_offset) + c
      BY <1>2, <3>1, <3>3, SMTT(60)
    <3>7. ~(u.data_len > 0)
      BY <3>3
    <3> HIDE DEF u, left
    <3> QED BY <1>0, <3>1, <3>3, <3>4, <3>6, <3>7, ReadsIf DEF all
  <2>7. CASE r \in S1
    <3>1. PICK m \in {n} \cap 0..left : r = Gave([t EXCEPT !.data_offset = @ + m], SubSeq(all, 1, n), "ok")
      BY <2>7
    <3> QED BY <2>3, <3>1
  <2>8. CASE r \in S2
    <3>1. PICK f \in Full : r = Gave([fill_stream(t, f[1], f[2]) EXCEPT !.data_offset = n - left - f[1]],
                                    SubSeq(all, 1, n), "ok")
      BY <2>8
    <3> QED BY <2>4, <3>1
  <2>9. CASE r \in S3
    <3>1. PICK c \in {Len(all)} \cap 0..(n - 1) :
            r = Gave([fill_stream(t, c - left, 0) EXCEPT !.eof = TRUE], all, "ok")
      BY <2>9
    <3> QED BY <2>5, <3>1
  <2>10. CASE r \in S4
    <3>1. PICK c \in left..Lesser(n - 1, Len(all)), e \in Faults :
            r = Gave(Indicate(fill_stream(t, c - left, 0), e), SubSeq(all, 1, c), e)
      BY <2>10
    <3> QED BY <2>6, <3>1
  <2> HIDE DEF S1, S2, S3, S4
  <2> QED BY <2>2, <2>7, <2>8, <2>9, <2>10
<1> QED BY <1>4, <1>5, <1>6

\* An unbuffered reader.
LEMMA ReadUnbufferedShows ==
  ASSUME NEW t, Steady(t), Reader(t), t.strategy = "_IONBF", NEW n \in Nat, NEW r \in do_read_nbf(t, n)
  PROVE  Reads(t, n, r)
<1>1. t \in StreamType /\ t.data_len = 0 /\ t.data_offset \in Nat /\ t.fpos \in Nat /\ t.offset \in Nat
  BY UsableIs, Fields DEF Reader, Bounded, Formed
<1>2. LogicalData(t) = t.file /\ LogicalPos(t) = t.fpos - t.data_len + t.data_offset /\ t.data_offset <= t.data_len
  BY ReaderShows
<1>3. LogicalPos(t) = t.fpos
  BY <1>1, <1>2
<1>4. Rest(t) = Left(t)
  BY <1>2, <1>3, RestIsFile DEF Left
<1>5. Rest(t) \in Bytes /\ Len(Rest(t)) \in Nat
  BY RestIs
<1>6. ReadOutcome(t, r)
  BY ReadUnbufferedOk
<1>7. ASSUME NEW k \in Nat, k <= n, k <= Len(Rest(t)), NEW e, r = Gave(Taken(t, k), SubSeq(Rest(t), 1, k), e),
             e = "ok" /\ k < n => k = Len(Rest(t))
      PROVE  Reads(t, n, r)
  <2> DEFINE u == Taken(t, k)
  <2>1. /\ u.file = t.file /\ u.unread = t.unread /\ u.fpos = t.fpos + k /\ u.data_len = t.data_len
        /\ u.data_offset = t.data_offset
    BY <1>1 DEF Taken, StreamType
  <2> HIDE DEF u
  <2>2. r.s = u /\ r.got = SubSeq(Rest(t), 1, k) /\ r.n = Len(r.got) /\ r.err = e
    BY <1>7 DEF Gave, u
  <2>3. u.fpos - u.data_len + u.data_offset = (t.fpos - t.data_len + t.data_offset) + k /\ ~(u.data_len > 0)
    BY <1>1, <2>1
  <2> QED BY <1>6, <1>7, <2>1, <2>2, <2>3, ReadsIf
<1>8. CASE r = Gave(Taken(t, Lesser(n, Len(Left(t)))), SubSeq(Left(t), 1, Lesser(n, Len(Left(t)))), "ok")
  <2> DEFINE k == Lesser(n, Len(Rest(t)))
  <2>1. k \in Nat /\ k <= n /\ k <= Len(Rest(t)) /\ (k < n => k = Len(Rest(t)))
    BY <1>5 DEF Lesser
  <2>2. r = Gave(Taken(t, k), SubSeq(Rest(t), 1, k), "ok")
    BY <1>4, <1>8
  <2> HIDE DEF k
  <2> QED BY <1>7, <2>1, <2>2
<1>9. CASE \E k \in 0..Lesser(n - 1, Len(Left(t))), e \in Faults : r = Gave(Taken(t, k), SubSeq(Left(t), 1, k), e)
  <2>1. PICK k \in 0..Lesser(n - 1, Len(Left(t))), e \in Faults : r = Gave(Taken(t, k), SubSeq(Left(t), 1, k), e)
    BY <1>9
  <2>2. k \in Nat /\ k <= n /\ k <= Len(Rest(t)) /\ e # "ok"
    BY <1>4, <1>5, FaultsAre DEF Lesser
  <2>3. r = Gave(Taken(t, k), SubSeq(Rest(t), 1, k), e)
    BY <1>4, <2>1
  <2> QED BY <1>7, <2>2, <2>3
<1> QED BY <1>8, <1>9, ReadUnbufferedIs

\* The bytes pushed back last, in the order in which they are read.
Popped(t, u) == [i \in 1..u |-> t.unread[Len(t.unread) + 1 - i]]

\* What a read of n bytes does: first the bytes pushed back, then those of the file.
Takes(t, n, r) ==
  /\ Steady(r.s) /\ LogicalData(r.s) = LogicalData(t)
  /\ \E u \in 0..Len(t.unread), m \in 0..Ahead(t) :
       /\ u = Len(t.unread) \/ m = 0
       /\ u + m <= n /\ r.n = u + m /\ r.got = Popped(t, u) \o Following(t, m)
       /\ r.s.unread = SubSeq(t.unread, 1, Len(t.unread) - u)
       /\ LogicalPos(r.s) = LogicalPos(t) + m
       /\ r.err = "ok" /\ u + m < n => m = Ahead(t) /\ u = Len(t.unread)

\* What is ahead of the program is the same in two streams it cannot tell apart.
LEMMA AlikeAhead ==
  ASSUME NEW t, NEW u, Alike(t, u)
  PROVE  Ahead(u) = Ahead(t) /\ \A m : Following(u, m) = Following(t, m) /\ Popped(u, m) = Popped(t, m)
  BY DEF Alike, Ahead, Following, Popped

\* How much is ahead, and what none of it is.
LEMMA AheadIs ==
  ASSUME NEW t, Steady(t)
  PROVE  Ahead(t) \in Nat /\ Following(t, 0) = <<>> /\ Popped(t, 0) = <<>>
<1>1. LogicalPos(t) \in Nat /\ Len(LogicalData(t)) \in Nat /\ LogicalData(t) \in Bytes
  BY SteadyIs
<1>2. Ahead(t) \in Nat
  BY <1>1 DEF Ahead
<1>3. Following(t, 0) = <<>>
  <2> DEFINE d == LogicalData(t)
             p == LogicalPos(t)
  <2>1. Following(t, 0) = SubSeq(d, p + 1, p + 0)
    BY DEF Following
  <2> HIDE DEF d, p
  <2>2. d \in Bytes /\ p \in Nat
    BY <1>1 DEF d, p
  <2> QED BY <2>1, <2>2 DEF Bytes
<1>4. Popped(t, 0) = <<>>
  BY DEF Popped
<1> QED BY <1>2, <1>3, <1>4

\* The bytes pushed back are taken first, and the rest of the stream is left alone.
LEMMA TakeUnreadShows ==
  ASSUME NEW t, Steady(t), Reader(t), NEW n \in Nat
  PROVE  \E u \in 0..Len(t.unread) :
           LET k == TakeUnread(t, n)
           IN /\ u <= n /\ (u < n => u = Len(t.unread)) /\ k.n = u /\ k.got = Popped(t, u)
              /\ k.s.unread = SubSeq(t.unread, 1, Len(t.unread) - u)
              /\ LogicalData(k.s) = LogicalData(t) /\ LogicalPos(k.s) = LogicalPos(t)
              /\ Steady(k.s) /\ Reader(k.s) /\ Same(t, k.s)
<1> DEFINE L == Len(t.unread)
           u == Lesser(n, L)
           w == SubSeq(t.unread, 1, L - u)
           v == [t EXCEPT !.unread = w]
           h == SubSeq(t.unread, L - u + 1, L)
           g == Reversed(h)
           k == TakeUnread(t, n)
<1>1. t \in StreamType /\ t.unread \in Bytes /\ L \in Nat
  BY SteadyIs
<1>2. u \in Nat /\ u <= L /\ u <= n /\ (u < n => u = L) /\ L - u \in Nat
  <2> HIDE DEF L
  <2> QED BY <1>1 DEF Lesser
<1>3. k = Gave(v, g, "ok")
  BY DEF TakeUnread
<1>4. ReadOutcome(t, k)
  BY TakeUnreadOk
<1> HIDE DEF u, k
<1>5. g = Popped(t, u) /\ Len(g) = u
  <2> DEFINE d == L - u
  <2>0. d \in Nat /\ d <= L /\ L - d = u
    <3> HIDE DEF L
    <3> QED BY <1>1, <1>2
  <2>1. h \in Bytes /\ Len(h) = L - d /\ \A i \in 1..(L - d) : h[i] = t.unread[d + i]
    <3> HIDE DEF d
    <3>1. SubSeq(t.unread, d + 1, L) \in Bytes /\ Len(SubSeq(t.unread, d + 1, L)) = L - d
          /\ \A i \in 1..(L - d) : SubSeq(t.unread, d + 1, L)[i] = t.unread[d + i]
      BY <1>1, <2>0, PartAt
    <3> QED BY <3>1 DEF d
  <2> HIDE DEF h
  <2>2. Reversed(h) = [i \in 1..u |-> h[u + 1 - i]]
    BY <2>0, <2>1 DEF Reversed
  <2>3. \A i \in 1..u : h[u + 1 - i] = t.unread[L + 1 - i]
    <3> TAKE i \in 1..u
    <3>1. u + 1 - i \in 1..(L - d) /\ d + (u + 1 - i) = L + 1 - i
      <4> HIDE DEF L, d
      <4> QED BY <1>1, <1>2, <2>0
    <3> QED BY <2>1, <3>1
  <2>4. Reversed(h) = Popped(t, u)
    BY <2>2, <2>3 DEF Popped
  <2> QED BY <2>0, <2>1, <2>4, ReversedIs
<1> HIDE DEF g, w
<1>6. k.s = v /\ k.got = g /\ k.n = Len(g)
  BY <1>3 DEF Gave
<1>7. /\ v.file = t.file /\ v.fpos = t.fpos /\ v.buf = t.buf /\ v.data_len = t.data_len /\ v.unread = w
      /\ v.data_offset = t.data_offset /\ v.data_flushed = t.data_flushed /\ (v.writing <=> t.writing)
  BY <1>1 DEF StreamType
<1> HIDE DEF v
<1>8. LogicalData(v) = LogicalData(t) /\ LogicalPos(v) = LogicalPos(t)
  BY <1>7 DEF LogicalData, LogicalPos, Pending
<1>9. Reader(v) /\ Same(t, v)
  BY <1>4, <1>6 DEF ReadOutcome, Harmless
<1>10. Steady(v)
  BY <1>7, <1>9 DEF Steady, Reader, Same
<1>11. u \in 0..L
  <2> HIDE DEF L
  <2> QED BY <1>1, <1>2
<1> QED BY <1>2, <1>5, <1>6, <1>7, <1>8, <1>9, <1>10, <1>11 DEF w, k

\* es_readn returns the bytes pushed back and then those of the file, and fewer than
\* asked for only at the end of the file or with an error.
LEMMA ReadnShows ==
  ASSUME NEW t, Steady(t), NEW n \in Nat, NEW r \in es_readn(t, n), r.err = "ok" \/ r.s.data_flushed = 0
  PROVE  Takes(t, n, r)
<1>1. PICK f \in ToReading(t) :
        \/ f.err # "ok" /\ r = f
        \/ f.err = "ok" /\ \E q \in ReadOn(t, TakeUnread(f.s, n), n) : r = After(TakeUnread(f.s, n), q)
  BY ReadIs
<1>2. f.err = "ok" \/ f.s.data_flushed = 0
  BY <1>1
<1>3. /\ Alike(t, f.s) /\ Steady(f.s) /\ f.n = 0 /\ f.got = <<>> /\ f.err \in {"ok"} \cup Faults
      /\ f.err = "ok" => Reader(f.s)
  BY <1>2, ToReadingShows
<1>4. t.unread \in Bytes /\ Len(t.unread) \in Nat /\ Ahead(t) \in Nat /\ Following(t, 0) = <<>> /\ Popped(t, 0) = <<>>
      /\ LogicalPos(t) \in Nat
  BY SteadyIs, AheadIs
<1>5. CASE f.err # "ok"
  <2>1. r = f
    BY <1>1, <1>5
  <2>2. SubSeq(t.unread, 1, Len(t.unread) - 0) = t.unread /\ <<>> \o <<>> = <<>>
    BY <1>4 DEF Bytes
  <2>3. 0 \in 0..Len(t.unread) /\ 0 \in 0..Ahead(t) /\ 0 + 0 <= n /\ 0 = 0 + 0 /\ LogicalPos(t) = LogicalPos(t) + 0
    BY <1>4
  <2> QED BY <1>3, <1>4, <1>5, <2>1, <2>2, <2>3 DEF Takes, Alike
<1>6. CASE f.err = "ok"
  <2> DEFINE k == TakeUnread(f.s, n)
  <2>1. Same(t, f.s)
    BY ToReadingOk DEF Harmless, Steady
  <2>2. PICK u \in 0..Len(f.s.unread) :
           /\ u <= n /\ (u < n => u = Len(f.s.unread)) /\ k.n = u /\ k.got = Popped(f.s, u)
           /\ k.s.unread = SubSeq(f.s.unread, 1, Len(f.s.unread) - u)
           /\ LogicalData(k.s) = LogicalData(f.s) /\ LogicalPos(k.s) = LogicalPos(f.s)
           /\ Steady(k.s) /\ Reader(k.s) /\ Same(f.s, k.s)
    BY <1>3, <1>6, TakeUnreadShows
  <2>3. PICK q \in ReadOn(t, k, n) : r = After(k, q)
    BY <1>1, <1>6
  <2> HIDE DEF k
  <2>4. k.s.strategy = t.strategy
    BY <2>1, <2>2 DEF Same
  <2>5. u \in Nat /\ n - u \in Nat
    BY <1>3, <2>2, SteadyIs
  <2>6. Reads(k.s, n - u, q)
    <3>1. CASE t.strategy = "_IONBF"
      BY <2>2, <2>3, <2>4, <2>5, <3>1, ReadUnbufferedShows DEF ReadOn
    <3>2. CASE t.strategy # "_IONBF"
      BY <2>2, <2>3, <2>4, <2>5, <3>2, ReadBufferedShows DEF ReadOn
    <3> QED BY <3>1, <3>2
  <2>7. r.s = q.s /\ r.err = q.err /\ r.n = k.n + q.n /\ r.got = k.got \o q.got
    <3>1. q \in OutcomeType
      <4>1. ReadOutcome(k.s, q)
        BY <2>2, <2>3, <2>4, <2>5, ReadByStrategy DEF ReadOn
      <4> QED BY <4>1 DEF ReadOutcome, Harmless, GoodOutcome
    <3> QED BY <2>3, <3>1 DEF OutcomeType, After
  <2>8. /\ Ahead(k.s) = Ahead(t) /\ \A m : Following(k.s, m) = Following(t, m)
        /\ LogicalData(k.s) = LogicalData(t) /\ LogicalPos(k.s) = LogicalPos(t)
        /\ f.s.unread = t.unread /\ Popped(f.s, u) = Popped(t, u)
    BY <1>3, <2>2 DEF Ahead, Following, Alike, Popped
  <2>9. PICK m \in 0..Ahead(k.s) :
          /\ m <= n - u /\ q.n = m /\ q.got = Following(k.s, m)
          /\ LogicalPos(q.s) = LogicalPos(k.s) + m
          /\ q.err = "ok" /\ m < n - u => m = Ahead(k.s)
    BY <2>6 DEF Reads
  <2>10. Steady(q.s) /\ LogicalData(q.s) = LogicalData(t) /\ q.s.unread = k.s.unread
    BY <2>6, <2>8 DEF Reads
  <2>11. /\ u \in 0..Len(t.unread) /\ m \in 0..Ahead(t)
         /\ u = Len(t.unread) \/ m = 0
         /\ u + m <= n
         /\ q.err = "ok" /\ u + m < n => m = Ahead(t) /\ u = Len(t.unread)
    BY <1>4, <2>2, <2>5, <2>8, <2>9
  <2>12. /\ r.n = u + m /\ r.got = Popped(t, u) \o Following(t, m)
         /\ r.s.unread = SubSeq(t.unread, 1, Len(t.unread) - u)
         /\ LogicalPos(r.s) = LogicalPos(t) + m
    BY <2>2, <2>7, <2>8, <2>9, <2>10
  <2> QED BY <2>7, <2>10, <2>11, <2>12 DEF Takes
<1> QED BY <1>5, <1>6

-----------------------------------------------------------------------------
(* Lines *)

\* g ends at its only newline, or where the file does.
Line(g, end) == (\A i \in 1..(Len(g) - 1) : g[i] # NL) /\ (g[Len(g)] = NL \/ end)

\* The front of q that doreadline or _gpgrt_read_line takes is a line.
LEMMA FrontIsLine ==
  ASSUME NEW q \in Bytes, NEW m \in Nat, m <= Len(q), m <= LineLength(q), m < LineLength(q) => m = Len(q)
  PROVE  /\ SubSeq(q, 1, m) = <<>> => Len(q) = 0
         /\ Line(SubSeq(q, 1, m), m = Len(q))
<1> DEFINE n == LineLength(q)
           g == SubSeq(q, 1, m)
<1>1. Len(q) \in Nat
  BY DEF Bytes
<1>2. n \in 1..(Len(q) + 1) /\ (\A j \in 1..(n - 1) : q[j] # NL) /\ (n <= Len(q) => q[n] = NL)
  BY LineLengthIs
<1> HIDE DEF n
<1>3. g \in Bytes /\ Len(g) = m /\ \A i \in 1..m : g[i] = q[i]
  BY FrontAt
<1> HIDE DEF g
<1>4. m <= n /\ (m < n => m = Len(q))
  BY DEF n
<1>5. g = <<>> => Len(q) = 0
  <2> SUFFICES ASSUME g = <<>> PROVE Len(q) = 0
    OBVIOUS
  <2>1. m = 0
    BY <1>3, NoBytes
  <2> QED BY <1>1, <1>2, <1>4, <2>1
<1>6. \A i \in 1..(Len(g) - 1) : g[i] # NL
  <2> TAKE i \in 1..(Len(g) - 1)
  <2>1. i \in 1..m /\ i \in 1..(n - 1)
    BY <1>1, <1>2, <1>3, <1>4
  <2> QED BY <1>2, <1>3, <2>1
<1>7. g[Len(g)] = NL \/ m = Len(q)
  <2>1. CASE m = n
    <3>1. n \in 1..m /\ n <= Len(q)
      BY <1>1, <1>2, <2>1
    <3> QED BY <1>2, <1>3, <2>1, <3>1
  <2>2. CASE m # n
    BY <1>1, <1>2, <1>4, <2>2
  <2> QED BY <2>1, <2>2
<1> QED BY <1>5, <1>6, <1>7 DEF Line, g

\* What was pushed back and then the rest of the file is what will be read.
LEMMA FrontOfAll ==
  ASSUME NEW t, Steady(t), Reader(t), NEW u \in 0..Len(t.unread), NEW m \in 0..Ahead(t),
         u = Len(t.unread) \/ m = 0
  PROVE  LET q == Reversed(t.unread) \o Rest(t)
         IN /\ q \in Bytes /\ Len(q) = Len(t.unread) + Ahead(t)
            /\ Popped(t, u) \o Following(t, m) = SubSeq(q, 1, u + m)
<1> DEFINE L == Len(t.unread)
           v == Reversed(t.unread)
           q == v \o Rest(t)
<1>1. t.unread \in Bytes /\ L \in Nat
  BY SteadyIs
<1>2. /\ Rest(t) \in Bytes /\ Len(Rest(t)) = Ahead(t) /\ Ahead(t) \in Nat
      /\ SubSeq(Rest(t), 1, m) = Following(t, m)
  BY RestShows
<1>3. v \in Bytes /\ Len(v) = L
  BY <1>1, ReversedIs
<1>4. v = Popped(t, L)
  BY DEF Reversed, Popped
<1>5. /\ q \in Bytes /\ Len(q) = Len(v) + Len(Rest(t))
      /\ \A i \in 1..Len(v) : q[i] = v[i]
  <2> HIDE DEF v
  <2> QED BY <1>2, <1>3, JoinedAt
<1> HIDE DEF v
<1>6. CASE u = L
  <2>0. m \in Nat /\ m <= Len(Rest(t))
    BY <1>2
  <2>1. SubSeq(v \o Rest(t), 1, Len(v) + m) = v \o SubSeq(Rest(t), 1, m)
    BY <1>2, <1>3, <2>0, FrontOfJoined
  <2> QED BY <1>2, <1>3, <1>4, <1>5, <1>6, <2>1 DEF v
<1>7. CASE m = 0
  <2> HIDE DEF q, L
  <2>1. u \in Nat /\ u <= L /\ u + m = u /\ u <= Len(q)
    BY <1>1, <1>2, <1>3, <1>5, <1>7 DEF L
  <2>2. SubSeq(q, 1, u) \in Bytes /\ Len(SubSeq(q, 1, u)) = u /\ \A i \in 1..u : SubSeq(q, 1, u)[i] = q[i]
    BY <1>5, <2>1, FrontAt
  <2>3. Following(t, m) = <<>>
    BY <1>7, AheadIs
  <2>4. \A i \in 1..u : i \in 1..L
    BY <1>1, <2>1
  <2>5. \A i \in 1..u : q[i] = Popped(t, L)[i] /\ Popped(t, L)[i] = t.unread[L + 1 - i]
    BY <1>3, <1>4, <1>5, <2>4 DEF Popped, L
  <2> DEFINE g == Popped(t, u)
  <2>6. g = [i \in 1..u |-> t.unread[L + 1 - i]]
    BY DEF Popped, L
  <2>7. \A i \in 1..u : t.unread[L + 1 - i] \in Byte
    <3> TAKE i \in 1..u
    <3>1. L + 1 - i \in 1..L
      BY <1>1, <2>1
    <3> QED BY <1>1, <3>1 DEF Bytes, L
  <2>8. g \in Bytes /\ Len(g) = u /\ \A i \in 1..u : g[i] = t.unread[L + 1 - i]
    BY <2>1, <2>6, <2>7 DEF Bytes
  <2> HIDE DEF g
  <2>9. g = SubSeq(q, 1, u)
    BY <2>2, <2>5, <2>8, SameBytes, ZenonT(60)
  <2>10. g \o <<>> = g
    BY <2>8, NoBytes
  <2>11. Popped(t, u) \o Following(t, m) = SubSeq(q, 1, u + m)
    BY <2>1, <2>3, <2>9, <2>10 DEF g
  <2> QED BY <1>2, <1>3, <1>5, <2>11 DEF L, q, v
<1> QED BY <1>6, <1>7

\* _gpgrt_read_line gives a line, or nothing at the end of the file.
LEMMA ReadLineShows ==
  ASSUME NEW t, Steady(t), NEW r \in read_line(t), r.err = "ok" \/ r.s.data_flushed = 0
  PROVE  /\ \E n \in Nat : Takes(t, n, r)
         /\ r.err = "ok" => IF r.got = <<>> THEN Ahead(t) = 0
                            ELSE Line(r.got, LogicalPos(r.s) >= Len(LogicalData(t)))
<1>1. PICK f \in ToReading(t) :
        \/ f.err # "ok" /\ r = f
        \/ f.err = "ok" /\ r \in es_readn(f.s, LineLength(Reversed(t.unread) \o Rest(f.s)))
  BY ReadLineIs
<1>2. f.err = "ok" \/ f.s.data_flushed = 0
  BY <1>1
<1>3. /\ Alike(t, f.s) /\ Steady(f.s) /\ f.n = 0 /\ f.got = <<>> /\ f.err \in {"ok"} \cup Faults
      /\ f.err = "ok" => Reader(f.s)
  BY <1>2, ToReadingShows
<1>4. t.unread \in Bytes /\ Len(t.unread) \in Nat /\ Ahead(t) \in Nat /\ Following(t, 0) = <<>> /\ Popped(t, 0) = <<>>
      /\ LogicalPos(t) \in Nat /\ Len(LogicalData(t)) \in Nat
  BY SteadyIs, AheadIs
<1>5. CASE f.err # "ok"
  <2>1. r = f
    BY <1>1, <1>5
  <2>2. SubSeq(t.unread, 1, Len(t.unread) - 0) = t.unread /\ <<>> \o <<>> = <<>>
    BY <1>4 DEF Bytes
  <2>3. 0 \in 0..Len(t.unread) /\ 0 \in 0..Ahead(t) /\ 0 + 0 <= 0 /\ 0 = 0 + 0 /\ LogicalPos(t) = LogicalPos(t) + 0
    BY <1>4
  <2>4. Takes(t, 0, r)
    BY <1>3, <1>4, <1>5, <2>1, <2>2, <2>3 DEF Takes, Alike
  <2> QED BY <1>5, <2>1, <2>4
<1>6. CASE f.err = "ok"
  <2> DEFINE q == Reversed(t.unread) \o Rest(f.s)
             n == LineLength(q)
  <2>1. r \in es_readn(f.s, n) /\ Reader(f.s) /\ f.s.unread = t.unread
    BY <1>1, <1>3, <1>6 DEF Alike
  <2>2. /\ q \in Bytes /\ Len(q) = Len(t.unread) + Ahead(t)
        /\ \A u \in 0..Len(t.unread), m \in 0..Ahead(t) :
             u = Len(t.unread) \/ m = 0 => Popped(t, u) \o Following(t, m) = SubSeq(q, 1, u + m)
    <3>1. /\ \A u : Popped(f.s, u) = Popped(t, u) /\ Following(f.s, u) = Following(t, u)
          /\ Ahead(f.s) = Ahead(t)
      BY <1>3, AlikeAhead
    <3>2. 0 \in 0..Len(t.unread) /\ 0 \in 0..Ahead(t) /\ 0 = 0
      BY <1>4
    <3>3. ASSUME NEW u \in 0..Len(t.unread), NEW m \in 0..Ahead(t), u = Len(t.unread) \/ m = 0
          PROVE  /\ q \in Bytes /\ Len(q) = Len(t.unread) + Ahead(t)
                 /\ Popped(t, u) \o Following(t, m) = SubSeq(q, 1, u + m)
      <4>1. u \in 0..Len(f.s.unread) /\ m \in 0..Ahead(f.s) /\ (u = Len(f.s.unread) \/ m = 0)
        BY <2>1, <3>1, <3>3
      <4>2. LET a == Reversed(f.s.unread) \o Rest(f.s)
            IN /\ a \in Bytes /\ Len(a) = Len(f.s.unread) + Ahead(f.s)
               /\ Popped(f.s, u) \o Following(f.s, m) = SubSeq(a, 1, u + m)
        BY <1>3, <2>1, <4>1, FrontOfAll
      <4> QED BY <2>1, <3>1, <4>2
    <3> HIDE DEF q
    <3> QED BY <3>2, <3>3
  <2> HIDE DEF q
  <2>3. n \in Nat
    BY <2>2, LineLengthIs
  <2>4. Takes(f.s, n, r)
    BY <1>3, <2>1, <2>3, ReadnShows
  <2>5. Takes(t, n, r)
    <3>1. /\ \A u : Popped(f.s, u) = Popped(t, u) /\ Following(f.s, u) = Following(t, u)
          /\ Ahead(f.s) = Ahead(t) /\ LogicalData(f.s) = LogicalData(t) /\ LogicalPos(f.s) = LogicalPos(t)
      BY <1>3, AlikeAhead DEF Alike
    <3> HIDE DEF n
    <3> QED BY <2>1, <2>4, <3>1 DEF Takes
  <2>6. ASSUME r.err = "ok"
        PROVE  IF r.got = <<>> THEN Ahead(t) = 0 ELSE Line(r.got, LogicalPos(r.s) >= Len(LogicalData(t)))
    <3>1. PICK u \in 0..Len(t.unread), m \in 0..Ahead(t) :
            /\ u = Len(t.unread) \/ m = 0
            /\ u + m <= n /\ r.got = Popped(t, u) \o Following(t, m)
            /\ LogicalPos(r.s) = LogicalPos(t) + m
            /\ u + m < n => m = Ahead(t) /\ u = Len(t.unread)
      BY <2>5, <2>6 DEF Takes
    <3> DEFINE l == u + m
    <3>2. l \in Nat /\ l <= Len(q) /\ l <= n /\ (l < n => l = Len(q)) /\ (l = Len(q) => m = Ahead(t))
      <4> DEFINE L == Len(t.unread)
                 A == Ahead(t)
                 k == Len(q)
      <4>1. k = L + A /\ L \in Nat /\ A \in Nat /\ u \in 0..L /\ m \in 0..A /\ n \in Nat
        BY <1>4, <2>2, <2>3
      <4>2. u + m <= n /\ (u + m < n => m = A /\ u = L)
        BY <3>1
      <4> HIDE DEF n, L, A, k
      <4>3. l \in Nat /\ l <= k /\ l <= n /\ (l < n => l = k) /\ (l = k => m = A)
        BY <4>1, <4>2
      <4> QED BY <4>3 DEF A, k
    <3>3. r.got = SubSeq(q, 1, l)
      BY <2>2, <3>1
    <3> HIDE DEF l
    <3>4. (SubSeq(q, 1, l) = <<>> => Len(q) = 0) /\ Line(SubSeq(q, 1, l), l = Len(q))
      BY <2>2, <3>2, FrontIsLine
    <3>5. l = Len(q) => LogicalPos(r.s) >= Len(LogicalData(t))
      <4>1. LogicalPos(t) + Ahead(t) >= Len(LogicalData(t))
        BY <1>4 DEF Ahead
      <4>2. l = Len(q) => LogicalPos(r.s) = LogicalPos(t) + Ahead(t)
        BY <3>1, <3>2
      <4> QED BY <4>1, <4>2
    <3>6. CASE r.got = <<>>
      <4>1. Len(q) = 0
        BY <3>3, <3>4, <3>6
      <4>2. \A a, b \in Nat : a + b = 0 => b = 0
        OBVIOUS
      <4>3. Ahead(t) = 0
        BY <1>4, <2>2, <4>1, <4>2
      <4> QED BY <3>6, <4>3
    <3>7. CASE r.got # <<>>
      BY <3>3, <3>4, <3>5, <3>7 DEF Line
    <3> QED BY <3>6, <3>7
  <2> QED BY <2>3, <2>5, <2>6
<1> QED BY <1>5, <1>6

\* getline gives a line of the file, or nothing, and does not look at what was pushed back.
LEMMA GetLineShows ==
  ASSUME NEW t, Steady(t), NEW r \in doreadline(t), r.err = "ok" \/ r.s.data_flushed = 0
  PROVE  /\ Steady(r.s) /\ LogicalData(r.s) = LogicalData(t) /\ r.s.unread = t.unread
         /\ \E m \in 0..Ahead(t) : /\ LogicalPos(r.s) = LogicalPos(t) + m
                                   /\ r.got = IF r.err = "ok" THEN Following(t, m) ELSE <<>>
         /\ r.err = "ok" /\ r.got # <<>> => Line(r.got, LogicalPos(r.s) >= Len(LogicalData(t)))
<1>1. PICK f \in ToReading(t) :
        \/ f.err # "ok" /\ r = [f EXCEPT !.s.err = TRUE]
        \/ f.err = "ok" /\ LineOutcome(f.s, r)
  BY GetLineIs
<1>0. f \in OutcomeType
  BY ToReadingOk DEF Steady, Harmless, GoodOutcome
<1>4. Ahead(t) \in Nat /\ Following(t, 0) = <<>> /\ LogicalPos(t) \in Nat /\ Len(LogicalData(t)) \in Nat
      /\ 0 \in 0..Ahead(t) /\ LogicalPos(t) + 0 = LogicalPos(t)
  BY SteadyIs, AheadIs
<1>5. CASE f.err # "ok"
  <2> DEFINE u == [f.s EXCEPT !.err = TRUE]
  <2>1. r.s = u /\ r.err = f.err /\ r.got = f.got
    BY <1>0, <1>1, <1>5 DEF OutcomeType
  <2>2. u.data_flushed = f.s.data_flushed
    BY <1>0 DEF OutcomeType, StreamType
  <2>3. Alike(t, f.s) /\ Steady(f.s) /\ f.got = <<>>
    BY <1>5, <2>1, <2>2, ToReadingShows
  <2>4. Steady(u) /\ Alike(f.s, u)
    BY <2>3, MarkedShows
  <2> HIDE DEF u
  <2> QED BY <1>4, <1>5, <2>1, <2>3, <2>4 DEF Alike
<1>6. CASE f.err = "ok"
  <2> DEFINE x == f.s
  <2>1. LineOutcome(x, r) /\ Alike(t, x) /\ Steady(x) /\ Reader(x) /\ x \in StreamType
    BY <1>1, <1>6, ToReadingShows, SteadyIs
  <2> HIDE DEF x
  <2>2. /\ Ahead(x) = Ahead(t) /\ \A m : Following(x, m) = Following(t, m)
        /\ LogicalData(x) = LogicalData(t) /\ LogicalPos(x) = LogicalPos(t) /\ x.unread = t.unread
    BY <2>1, AlikeAhead DEF Alike
  <2>3. CASE r = Done([x EXCEPT !.eof = TRUE])
    <3> DEFINE u == [x EXCEPT !.eof = TRUE]
    <3>1. Steady(u) /\ Alike(x, u)
      BY <2>1, MarkedShows
    <3>2. r.s = u /\ r.err = "ok" /\ r.got = <<>>
      BY <2>3 DEF Done, Fail
    <3> HIDE DEF u
    <3> QED BY <1>4, <2>2, <3>1, <3>2 DEF Alike
  <2>4. ASSUME NEW q \in do_read_fbf(x, LineLength(Rest(x))),
               r = IF q.err = "ok" THEN q ELSE Fail([q.s EXCEPT !.err = TRUE], q.err)
        PROVE  /\ Steady(r.s) /\ LogicalData(r.s) = LogicalData(t) /\ r.s.unread = t.unread
               /\ \E m \in 0..Ahead(t) : /\ LogicalPos(r.s) = LogicalPos(t) + m
                                         /\ r.got = IF r.err = "ok" THEN Following(t, m) ELSE <<>>
               /\ r.err = "ok" /\ r.got # <<>> => Line(r.got, LogicalPos(r.s) >= Len(LogicalData(t)))
    <3> DEFINE n == LineLength(Rest(x))
    <3>1. /\ Rest(x) \in Bytes /\ Len(Rest(x)) = Ahead(t)
          /\ \A m \in 0..Ahead(t) : SubSeq(Rest(x), 1, m) = Following(t, m)
      BY <2>1, <2>2, RestShows
    <3>2. n \in Nat
      BY <3>1, LineLengthIs
    <3>3. Reads(x, n, q)
      BY <2>1, <3>2, ReadBufferedShows
    <3>4. PICK m \in 0..Ahead(t) :
            /\ m <= n /\ q.got = Following(t, m) /\ LogicalPos(q.s) = LogicalPos(t) + m
            /\ q.err = "ok" /\ m < n => m = Ahead(t)
      BY <2>2, <3>3 DEF Reads
    <3>5. Steady(q.s) /\ LogicalData(q.s) = LogicalData(t) /\ q.s.unread = t.unread
      BY <2>2, <3>3 DEF Reads
    <3>6. CASE q.err = "ok"
      <4>1. r = q
        BY <2>4, <3>6
      <4>2. m \in Nat /\ m <= Len(Rest(x)) /\ (m < n => m = Len(Rest(x)))
        BY <1>4, <3>1, <3>4, <3>6
      <4>3. Line(SubSeq(Rest(x), 1, m), m = Len(Rest(x)))
        BY <3>1, <3>4, <4>2, FrontIsLine
      <4>4. Line(q.got, m = Ahead(t))
        BY <3>1, <3>4, <4>3
      <4>5. m = Ahead(t) => LogicalPos(q.s) >= Len(LogicalData(t))
        BY <1>4, <3>4 DEF Ahead
      <4>6. Line(q.got, LogicalPos(q.s) >= Len(LogicalData(t)))
        BY <4>4, <4>5 DEF Line
      <4> QED BY <3>4, <3>5, <3>6, <4>1, <4>6
    <3>7. CASE q.err # "ok"
      <4> DEFINE u == [q.s EXCEPT !.err = TRUE]
      <4>1. r.s = u /\ r.err = q.err /\ r.got = <<>>
        BY <2>4, <3>7 DEF Fail
      <4>2. Steady(u) /\ Alike(q.s, u)
        BY <3>5, MarkedShows
      <4> HIDE DEF u
      <4> QED BY <3>4, <3>5, <3>7, <4>1, <4>2 DEF Alike
    <3> QED BY <3>6, <3>7
  <2> QED BY <2>1, <2>3, <2>4 DEF LineOutcome
<1> QED BY <1>5, <1>6

-----------------------------------------------------------------------------
(* Pushing back, and seeking *)

\* es_unreadn pushes the byte back, or has no room for it.
LEMMA UnreadnShows ==
  ASSUME NEW t, Steady(t), NEW c \in Byte
  PROVE  LET r == es_unreadn(t, c)
         IN /\ LogicalData(r.s) = LogicalData(t) /\ LogicalPos(r.s) = LogicalPos(t) /\ Steady(r.s)
            /\ \/ r.n = 1 /\ r.s.unread = t.unread \o <<c>>
               \/ r.n = 0 /\ r.s.unread = t.unread
            /\ r.err = "ok" /\ r.got = <<>>
<1> DEFINE r == es_unreadn(t, c)
           u == [t EXCEPT !.unread = Append(@, c), !.eof = FALSE]
<1>1. t \in StreamType /\ t.unread \in Bytes
  BY SteadyIs
<1>2. Harmless(t, r)
  BY UnreadnOk DEF Steady
<1>3. CASE Len(t.unread) < UnreadSize
  <2>1. r = Wrote(u, 1, "ok")
    BY <1>3 DEF es_unreadn
  <2>2. /\ u.file = t.file /\ u.fpos = t.fpos /\ u.buf = t.buf /\ u.data_len = t.data_len
        /\ u.data_offset = t.data_offset /\ u.data_flushed = t.data_flushed /\ (u.writing <=> t.writing)
        /\ u.unread = Append(t.unread, c)
    BY <1>1 DEF StreamType
  <2>3. Append(t.unread, c) = t.unread \o <<c>>
    BY <1>1 DEF Bytes
  <2>4. r.s = u /\ r.n = 1 /\ r.err = "ok" /\ r.got = <<>>
    BY <2>1 DEF Wrote
  <2> HIDE DEF r, u
  <2>5. LogicalData(u) = LogicalData(t) /\ LogicalPos(u) = LogicalPos(t)
    BY <2>2 DEF LogicalData, LogicalPos, Pending
  <2>6. Steady(u)
    BY <1>2, <2>2, <2>4 DEF Steady, Usable, Harmless, GoodOutcome, Same
  <2> QED BY <2>2, <2>3, <2>4, <2>5, <2>6 DEF r
<1>4. CASE ~(Len(t.unread) < UnreadSize)
  <2>1. r = Wrote(t, 0, "ok")
    BY <1>4 DEF es_unreadn
  <2>2. r.s = t /\ r.n = 0 /\ r.err = "ok" /\ r.got = <<>>
    BY <2>1 DEF Wrote
  <2> QED BY <2>2
<1> QED BY <1>3, <1>4

\* Where a seek is to bring the program.
Aim(t, whence, o) ==
  CASE whence = "SEEK_SET" -> o
    [] whence = "SEEK_CUR" -> LogicalPos(t) - Len(t.unread) + o
    [] whence = "SEEK_END" -> Len(LogicalData(t)) + o

\* The target that is computed from the cursors of the buffer is where the program wants to be.
LEMMA TargetIsAim ==
  ASSUME NEW t, Steady(t), Reader(t), NEW whence \in {"SEEK_SET", "SEEK_CUR", "SEEK_END"}, NEW o \in Int
  PROVE  Target(t, whence, o) = Aim(t, whence, o)
<1>1. /\ LogicalData(t) = t.file /\ LogicalPos(t) = t.fpos - t.data_len + t.data_offset
      /\ t.fpos \in Nat /\ t.data_len \in Nat /\ t.data_offset \in Nat
  BY ReaderShows
<1>2. Len(t.unread) \in Nat
  BY SteadyIs
<1>3. \A a, b, c, d \in Nat : a + o - b + c - d = (a - b + c) - d + o
  OBVIOUS
<1>4. t.fpos + o - t.data_len + t.data_offset - Len(t.unread) = LogicalPos(t) - Len(t.unread) + o
  BY <1>1, <1>2, <1>3, SMTT(60)
<1> QED BY <1>1, <1>4 DEF Target, Aim

\* func_seek goes where the program sees the place asked for, or nowhere.
LEMMA FuncSeekShows ==
  ASSUME NEW t, Steady(t), Reader(t), NEW whence \in {"SEEK_SET", "SEEK_CUR", "SEEK_END"}, NEW o \in Int
  PROVE  LET r == func_seek(t, whence, o)
         IN /\ Steady(r.s) /\ LogicalData(r.s) = LogicalData(t)
            /\ r.err = "ok" => /\ LogicalPos(r.s) = Aim(t, whence, o) /\ r.s.unread = <<>>
                               /\ Aim(t, whence, o) \in Nat
            /\ r.err # "ok" => Alike(t, r.s)
            /\ r.got = <<>>
<1> DEFINE p == Aim(t, whence, o)
           r == func_seek(t, whence, o)
<1>1. t \in StreamType /\ Good(t) /\ Bounded(t) /\ t.backend = "file" /\ Target(t, whence, o) = p
  BY SteadyIs, TargetIsAim, UsableIs DEF Steady
<1>2. p \in Int
  BY <1>1, TargetIs
<1>3. /\ Harmless(t, r) /\ (r.err = "ok" => Reader(r.s) /\ Clean(r.s))
  BY <1>1, FuncSeekOk
<1> HIDE DEF p
<1>4. CASE p < 0
  <2> DEFINE u == [t EXCEPT !.err = TRUE]
  <2>1. r = Fail(u, "EINVAL")
    BY <1>1, <1>4 DEF func_seek
  <2>2. Steady(u) /\ Alike(t, u)
    BY MarkedShows
  <2> HIDE DEF u
  <2>3. r.s = u /\ r.err = "EINVAL" /\ r.got = <<>>
    BY <2>1 DEF Fail
  <2> HIDE DEF r
  <2> QED BY <2>2, <2>3 DEF Alike, r
<1>5. CASE ~(p < 0)
  <2> DEFINE E == es_empty(t)
             u == [E EXCEPT !.fpos = p, !.offset = p, !.eof = FALSE, !.lost = 0, !.resent = 0]
  <2>1. r = Done(u)
    BY <1>1, <1>5 DEF func_seek
  <2>2. E \in StreamType /\ E.file = t.file /\ E.unread = <<>>
    BY <1>1, EmptyIs
  <2> HIDE DEF E
  <2>3. u.file = E.file /\ u.fpos = p /\ u.unread = E.unread
    BY <2>2 DEF StreamType
  <2> HIDE DEF u
  <2>4. r.s = u /\ r.err = "ok" /\ r.got = <<>>
    BY <2>1 DEF Done, Fail
  <2> HIDE DEF r
  <2>5. Reader(u) /\ Clean(u) /\ u.backend = "file" /\ p \in Nat
    BY <1>1, <1>2, <1>3, <1>5, <2>4 DEF Harmless, Same
  <2>6. LogicalData(u) = u.file /\ LogicalPos(u) = p /\ LogicalData(t) = t.file
    <3>1. LogicalPos(u) = u.fpos - u.data_len + u.data_offset
      BY <2>5, ReaderShows
    <3>2. LogicalPos(u) = p
      BY <2>3, <2>5, <3>1 DEF Clean
    <3> QED BY <2>5, <3>2, ReaderShows
  <2>7. Steady(u)
    BY <2>5 DEF Steady, Reader, Clean
  <2> QED BY <2>2, <2>3, <2>4, <2>5, <2>6, <2>7 DEF r, p
<1> QED BY <1>2, <1>4, <1>5

\* es_seek brings the program to where it wants to be and forgets what was pushed back,
\* or changes nothing.
LEMMA SeekShows ==
  ASSUME NEW t, Steady(t), NEW whence \in {"SEEK_SET", "SEEK_CUR", "SEEK_END"}, NEW o \in Int,
         NEW r \in es_seek(t, whence, o), r.err = "ok" \/ r.s.data_flushed = 0
  PROVE  /\ Steady(r.s) /\ LogicalData(r.s) = LogicalData(t)
         /\ r.err = "ok" => /\ LogicalPos(r.s) = Aim(t, whence, o) /\ r.s.unread = <<>>
                            /\ Aim(t, whence, o) \in Nat
         /\ r.err # "ok" => Alike(t, r.s)
         /\ r.got = <<>>
<1>1. es_seek(t, whence, o) =
        {IF f.err # "ok" THEN WithErr(f, TRUE) ELSE func_seek(f.s, whence, o) : f \in ToReading(t)}
  BY SeekIs DEF Steady
<1>2. PICK f \in ToReading(t) : r = IF f.err # "ok" THEN WithErr(f, TRUE) ELSE func_seek(f.s, whence, o)
  BY <1>1
<1>3. f \in OutcomeType
  BY ToReadingOk DEF Steady, Harmless, GoodOutcome
<1>4. CASE f.err # "ok"
  <2> DEFINE u == [f.s EXCEPT !.err = TRUE]
  <2>1. r.s = u /\ r.err = f.err /\ r.got = f.got
    BY <1>2, <1>3, <1>4 DEF OutcomeType, WithErr
  <2>2. u.data_flushed = f.s.data_flushed
    BY <1>3 DEF OutcomeType, StreamType
  <2>3. Alike(t, f.s) /\ Steady(f.s) /\ f.got = <<>>
    BY <1>4, <2>1, <2>2, ToReadingShows
  <2>4. Steady(u) /\ Alike(f.s, u)
    BY <2>3, MarkedShows
  <2> HIDE DEF u
  <2> QED BY <1>4, <2>1, <2>3, <2>4 DEF Alike
<1>5. CASE f.err = "ok"
  <2> DEFINE x == f.s
  <2>1. Alike(t, x) /\ Steady(x) /\ Reader(x) /\ r = func_seek(x, whence, o)
    BY <1>2, <1>5, ToReadingShows
  <2> HIDE DEF x
  <2>2. Aim(x, whence, o) = Aim(t, whence, o)
    BY <2>1 DEF Alike, Aim
  <2>3. /\ Steady(r.s) /\ LogicalData(r.s) = LogicalData(x)
        /\ r.err = "ok" => /\ LogicalPos(r.s) = Aim(x, whence, o) /\ r.s.unread = <<>>
                           /\ Aim(x, whence, o) \in Nat
        /\ r.err # "ok" => Alike(x, r.s)
        /\ r.got = <<>>
    BY <2>1, FuncSeekShows
  <2> QED BY <2>1, <2>2, <2>3 DEF Alike
<1> QED BY <1>4, <1>5

-----------------------------------------------------------------------------
(* Writing *)

\* A stream over a file that writes, with no flush left half done.
Pen(t) == Steady(t) /\ t.writing

\* The bytes v were written where the program is.
Puts(t, v, u) ==
  /\ LogicalData(u) = Overlay(LogicalData(t), LogicalPos(t), v)
  /\ LogicalPos(u) = LogicalPos(t) + Len(v)
  /\ u.unread = t.unread

\* What a write of w shows, if only that it has crashed.
Written(t, w, r) ==
  /\ r.n \in 0..Len(w) /\ (r.err = "ok" <=> r.n = Len(w))
  /\ Pen(r.s) \/ r.s.status # "open"
  /\ Puts(t, SubSeq(w, 1, r.n), r.s)

\* A stream that writes is one that flushes and delivers as Writer says.
LEMMA PenIs ==
  ASSUME NEW t, Pen(t)
  PROVE  /\ Writer(t) /\ ~t.turned /\ t.writing /\ t.data_len = 0 /\ t.data_offset <= Len(t.buf)
         /\ t \in StreamType /\ t.backend = "file" /\ t.data_flushed = 0 /\ Usable(t)
         /\ LogicalData(t) \in Bytes /\ LogicalPos(t) \in Nat
  BY SteadyIs DEF Pen, Steady

\* What is enough for a stream to be one.
LEMMA PenIf ==
  ASSUME NEW t, Writer(t), ~t.turned, t.backend = "file", t.data_flushed = 0
  PROVE  Pen(t)
  BY WriterIs DEF Pen, Steady, Usable

\* Nothing was written where nothing is seen to have changed.
LEMMA PutsNothing == ASSUME NEW t, Pen(t), NEW u, Alike(t, u) PROVE Puts(t, <<>>, u)
<1>1. LogicalPos(t) + 0 = LogicalPos(t)
  BY PenIs
<1> QED BY <1>1, NoBytes DEF Puts, Alike, Overlay

\* Two writes are one.
LEMMA PutsTrans ==
  ASSUME NEW t, Pen(t), NEW a \in Bytes, NEW u, Puts(t, a, u), NEW b \in Bytes, NEW v, Puts(u, b, v)
  PROVE  Puts(t, a \o b, v)
<1> DEFINE D == LogicalData(t)
           p == LogicalPos(t)
<1>1. D \in Bytes /\ p \in Nat
  BY PenIs
<1>2. Len(a) \in Nat /\ Len(b) \in Nat /\ Len(a \o b) = Len(a) + Len(b)
  BY Joined
<1>3. /\ LogicalData(u) = Overlay(D, p, a) /\ LogicalPos(u) = p + Len(a) /\ u.unread = t.unread
      /\ LogicalData(v) = Overlay(LogicalData(u), LogicalPos(u), b)
      /\ LogicalPos(v) = LogicalPos(u) + Len(b) /\ v.unread = u.unread
  BY DEF Puts
<1> HIDE DEF D, p
<1>4. LogicalData(v) = Overlay(D, p, a \o b)
  BY <1>1, <1>3, OverlayTwice
<1>5. LogicalPos(v) = p + Len(a \o b)
  <2>1. \A x, y, z \in Nat : (x + y) + z = x + (y + z)
    OBVIOUS
  <2> QED BY <1>1, <1>2, <1>3, <2>1
<1> QED BY <1>3, <1>4, <1>5 DEF Puts, D, p

\* The backend has taken the first d bytes of all.
LEMMA FlushedShows ==
  ASSUME NEW t \in StreamType, t.backend = "file", t.data_flushed = 0, NEW all \in Bytes, NEW d \in Nat,
         d <= Len(all), t.buffer_size # 0, d % t.buffer_size = 0
  PROVE  LET u == Flushed(t, all, d)
         IN u.file = Overlay(t.file, t.fpos, SubSeq(all, 1, d)) /\ u.data_flushed = 0
<1>1. CASE d = 0
  <2>1. Flushed(t, all, d) = t /\ SubSeq(all, 1, d) = <<>>
    BY <1>1 DEF Flushed, Bytes
  <2> QED BY <2>1 DEF Overlay
<1>2. CASE d # 0
  <2> DEFINE p == SubSeq(all, 1, d)
             D == Deliver(t, p)
             b == SubSeq(all, d - t.buffer_size + 1, d)
             u == [D EXCEPT !.offset = @ + d, !.data_flushed = 0, !.resent = @ + t.data_flushed, !.buf = b]
  <2>1. Flushed(t, all, d) = u
    BY <1>2 DEF Flushed
  <2>2. p \in Bytes
    BY Front
  <2> HIDE DEF p, b
  <2>3. D \in StreamType /\ D.file = Overlay(t.file, t.fpos, p)
    BY <2>2, DeliverIs
  <2> HIDE DEF D
  <2>4. u.file = D.file /\ u.data_flushed = 0
    BY <2>3 DEF StreamType
  <2> HIDE DEF u
  <2> QED BY <2>1, <2>3, <2>4 DEF p
<1> QED BY <1>1, <1>2

\* A stream that has sent the bytes up to d and keeps those from d to e shows all of them.
LEMMA PutShows ==
  ASSUME NEW t, Pen(t), NEW w \in Bytes, NEW d \in Nat, NEW e \in Nat, d <= e, e <= Len(All(t, w)),
         e - d <= t.buffer_size, t.data_offset <= e, t.buffer_size # 0, d % t.buffer_size = 0,
         t.buffer # "none" \/ w = <<>>
  PROVE  LET v == Put(t, w, d, e)
         IN Pen(v) /\ Same(t, v) /\ e - t.data_offset \in 0..Len(w) /\ Puts(t, SubSeq(w, 1, e - t.data_offset), v)
<1> DEFINE A == All(t, w)
           n == e - t.data_offset
           x == Flushed(t, A, d)
           b == SubSeq(A, d + 1, e)
           v == Buffered(x, b)
           f == SubSeq(A, 1, d)
           g == SubSeq(w, 1, n)
           p == SubSeq(t.buf, 1, t.data_offset)
<1>1. /\ Writer(t) /\ t \in StreamType /\ ~t.turned /\ t.writing /\ t.data_len = 0 /\ t.backend = "file"
      /\ t.data_flushed = 0 /\ t.data_offset <= Len(t.buf) /\ Formed(t)
  BY PenIs, WriterIs
<1>2. /\ A \in Bytes /\ Len(A) = t.data_offset + Len(w) /\ Len(w) \in Nat /\ t.data_offset \in Nat
      /\ Len(A) \in Nat
      /\ \A m \in 0..Len(w) : SubSeq(A, 1, t.data_offset + m) = p \o SubSeq(w, 1, m)
  BY <1>1, AllIs
<1>3. Put(t, w, d, e) = v /\ e <= Len(A)
  BY DEF Put
<1>4. /\ Writer(v) /\ Same(t, v) /\ (v.writing <=> t.writing) /\ n \in 0..Len(w)
  <2>1. e <= Len(All(t, w))
    OBVIOUS
  <2> HIDE DEF v
  <2> QED BY <1>1, <1>3, <2>1, PutIs
<1> HIDE DEF A
<1>5. d <= Len(A) /\ n \in Nat /\ n <= Len(w) /\ t.data_offset + n = e
  BY <1>2, <1>3, <1>4, SMTT(60)
<1> HIDE DEF n
<1>6. /\ x \in StreamType /\ x.file = Overlay(t.file, t.fpos, f) /\ x.data_flushed = 0
      /\ x.fpos = t.fpos + d /\ x.data_len = t.data_len /\ x.unread = t.unread
  <2>1. x.file = Overlay(t.file, t.fpos, f) /\ x.data_flushed = 0
    BY <1>1, <1>2, <1>5, FlushedShows
  <2>2. x \in StreamType /\ x.fpos = t.fpos + d /\ x.data_len = t.data_len /\ x.unread = t.unread
    <3>1. t \in StreamType /\ t.backend = "file" /\ A \in Bytes /\ d <= Len(A)
      BY <1>1, <1>2, <1>5
    <3>2. /\ Flushed(t, A, d) \in StreamType /\ Flushed(t, A, d).data_len = t.data_len
          /\ Flushed(t, A, d).fpos = IF t.backend = "file" THEN t.fpos + d ELSE t.fpos
          /\ Flushed(t, A, d).unread = t.unread
      <4> HIDE DEF b, v, f, g, p
      <4> QED BY <3>1, FlushedIs, ZenonT(60)
    <3> QED BY <3>1, <3>2
  <2> QED BY <2>1, <2>2
<1>7. b \in Bytes /\ Len(b) = e - d /\ f \in Bytes /\ Len(f) = d /\ f \o b = SubSeq(A, 1, e)
  <2>1. b \in Bytes /\ Len(b) = e - d
    BY <1>2, <1>3, PartAt
  <2>2. f \in Bytes /\ Len(f) = d
    BY <1>2, <1>5, Front
  <2>3. f \o b = SubSeq(A, 1, e)
    BY <1>2, <1>3, Split, SMTT(60)
  <2> QED BY <2>1, <2>2, <2>3
<1>8. f \o b = p \o g
  BY <1>2, <1>4, <1>5, <1>7
<1> HIDE DEF x, b, f
<1>9. /\ v \in StreamType /\ v.data_offset = Len(b) /\ v.buf = b /\ v.file = x.file /\ v.fpos = x.fpos
      /\ v.data_flushed = 0 /\ v.unread = t.unread
  BY <1>1, <1>6, <1>7, BufferedIs, SMTT(60)
<1> HIDE DEF v
<1>10. Pen(v)
  BY <1>1, <1>4, <1>9, PenIf DEF Same
<1>11. /\ LogicalData(t) = Overlay(t.file, t.fpos, p) /\ LogicalPos(t) = t.fpos + t.data_offset
       /\ p \in Bytes /\ Len(p) = t.data_offset /\ t.file \in Bytes /\ t.fpos \in Nat
  BY <1>1, WriterShows
<1>12. g \in Bytes /\ Len(g) = n
  BY <1>5, Front
<1>13. LogicalData(v) = Overlay(v.file, v.fpos, b) /\ LogicalPos(v) = v.fpos + Len(b)
  <2>1. SubSeq(b, 1, Len(b)) = b
    BY <1>7 DEF Bytes
  <2> QED BY <1>1, <1>4, <1>9, <2>1 DEF LogicalData, LogicalPos, Pending
<1> HIDE DEF p, g
<1>14. Overlay(v.file, v.fpos, b) = Overlay(t.file, t.fpos, f \o b)
  <2>1. v.file = Overlay(t.file, t.fpos, f) /\ v.fpos = t.fpos + Len(f)
    <3>1. v.file = x.file /\ v.fpos = x.fpos
      BY <1>9
    <3>2. x.file = Overlay(t.file, t.fpos, f) /\ x.fpos = t.fpos + d
      BY <1>6
    <3>3. Len(f) = d
      BY <1>7
    <3> QED BY <3>1, <3>2, <3>3
  <2>2. Overlay(Overlay(t.file, t.fpos, f), t.fpos + Len(f), b) = Overlay(t.file, t.fpos, f \o b)
    <3>1. f \in Bytes /\ b \in Bytes
      BY <1>7
    <3>2. t.file \in Bytes /\ t.fpos \in Nat
      BY <1>11
    <3> QED BY <3>1, <3>2, OverlayTwice, ZenonT(60)
  <2> QED BY <2>1, <2>2
<1>15. Overlay(LogicalData(t), LogicalPos(t), g) = Overlay(t.file, t.fpos, p \o g)
  <2>1. Overlay(Overlay(t.file, t.fpos, p), t.fpos + Len(p), g) = Overlay(t.file, t.fpos, p \o g)
    BY <1>11, <1>12, OverlayTwice, ZenonT(60)
  <2>2. LogicalPos(t) = t.fpos + Len(p)
    BY <1>11
  <2> QED BY <1>11, <2>1, <2>2
<1>16. LogicalPos(v) = LogicalPos(t) + Len(g)
  <2>1. LogicalPos(v) = (t.fpos + d) + (e - d) /\ LogicalPos(t) + Len(g) = (t.fpos + t.data_offset) + n
    BY <1>6, <1>7, <1>9, <1>11, <1>12, <1>13
  <2>2. \A X, Y, Z \in Nat : (X + d) + (e - d) = X + e /\ (X + Y) + Z = X + (Y + Z)
    OBVIOUS
  <2>3. (t.fpos + d) + (e - d) = t.fpos + e /\ (t.fpos + t.data_offset) + n = t.fpos + (t.data_offset + n)
    <3> HIDE DEF n
    <3> QED BY <1>2, <1>5, <1>11, <2>2, ZenonT(60)
  <2> QED BY <1>5, <2>1, <2>3
<1>17. Puts(t, g, v)
  BY <1>8, <1>9, <1>13, <1>14, <1>15, <1>16 DEF Puts
<1> QED BY <1>3, <1>4, <1>10, <1>17 DEF g, n

\* A flush that is not left half done.
LEMMA PenFlushed ==
  ASSUME NEW t, Pen(t), NEW r \in flush_stream(t), r.err = "ok" \/ r.s.data_flushed = 0
  PROVE  Pen(r.s) /\ Same(t, r.s) /\ Alike(t, r.s) /\ (r.err = "ok" => r.s.data_offset = 0)
<1>1. /\ Writer(t) /\ ~t.turned /\ t.writing /\ t.backend = "file" /\ t.data_flushed = 0 /\ Usable(t)
      /\ Good(t) /\ t.status = "open"
  BY PenIs, WriterIs
<1>2. Alike(t, r.s)
  BY <1>1, FlushShows
<1>3. /\ GoodOutcome(r) /\ Same(t, r.s) /\ r.s.writing
      /\ r.err = "ok" => r.s.data_offset = 0 /\ r.s.data_flushed = 0
  BY <1>1, FlushOk
<1>4. Good(r.s) /\ r.s.status = "open" /\ ~r.s.turned /\ r.s.backend = "file" /\ r.s.data_flushed = 0
  BY <1>1, <1>3 DEF GoodOutcome, Same
<1>5. Pen(r.s)
  BY <1>3, <1>4 DEF Pen, Steady, Usable
<1> QED BY <1>2, <1>3, <1>5

\* A write to a stream whose buffer is gone shows nothing but its end.
LEMMA CrashShows ==
  ASSUME NEW t, Pen(t), NEW w \in Bytes, w # <<>>
  PROVE  Written(t, w, Crash(t, "overrun"))
<1> DEFINE u == [t EXCEPT !.status = "overrun"]
<1>1. Crash(t, "overrun") = [s |-> u, err |-> "EFAULT", n |-> 0, got |-> <<>>]
  BY DEF Crash, Fail
<1>2. t \in StreamType
  BY PenIs
<1>3. /\ u.file = t.file /\ u.fpos = t.fpos /\ u.buf = t.buf /\ u.data_len = t.data_len
      /\ u.data_offset = t.data_offset /\ u.unread = t.unread /\ (u.writing <=> t.writing)
      /\ u.status = "overrun"
  BY <1>2 DEF StreamType
<1> HIDE DEF u
<1>4. Puts(t, <<>>, u)
  <2>1. Alike(t, u)
    BY <1>3, SameShown
  <2> QED BY <2>1, PutsNothing
<1>5. SubSeq(w, 1, 0) = <<>> /\ Len(w) # 0 /\ 0 \in 0..Len(w)
  BY DEF Bytes
<1>6. "EFAULT" # "ok" /\ "overrun" # "open"
  OBVIOUS
<1>7. ASSUME NEW r, r = [s |-> u, err |-> "EFAULT", n |-> 0, got |-> <<>>]
      PROVE  Written(t, w, r)
  <2>1. r.s = u /\ r.err = "EFAULT" /\ r.n = 0
    BY <1>7
  <2> QED BY <1>3, <1>4, <1>5, <1>6, <2>1 DEF Written
<1> QED BY <1>1, <1>7

\* es_write_fbf puts the bytes it accepts where the program is, in buffers and in
\* what remains of them.
LEMMA WriteBufferedShows ==
  ASSUME NEW t, Pen(t), t.buffer_size # 0, NEW w \in Bytes, NEW r \in es_write_fbf(t, w),
         r.err = "ok" \/ r.s.data_flushed = 0
  PROVE  Written(t, w, r)
<1> DEFINE L == Len(All(t, w))
           bs == t.buffer_size
           S1 == {Wrote(Put(t, w, d, L), Len(w), "ok") : d \in Last(t, w)}
           S2 == UNION {{Wrote(f.s, d + bs - t.data_offset, f.err) : f \in Failed(t, w, d)} : d \in Inner(t, w)}
<1>1. /\ Writer(t) /\ t \in StreamType /\ Formed(t) /\ t.data_offset <= bs /\ bs \in Nat \ {0} /\ t.writing
  BY PenIs, WriterIs, Fields
<1>2. L \in Nat /\ L = t.data_offset + Len(w) /\ Len(w) \in Nat /\ t.data_offset \in Nat /\ All(t, w) \in Bytes
  BY <1>1, AllIs
<1>3. es_write_fbf(t, w) = IF t.buffer = "none" /\ w # <<>> THEN {Crash(t, "overrun")}
                           ELSE IF ~t.writing /\ L > bs THEN {Crash(t, "aborted")} ELSE S1 \cup S2
  BY WriteBufferedIs
<1> HIDE DEF S1, S2
<1>6. CASE t.buffer = "none" /\ w # <<>>
  <2>1. r = Crash(t, "overrun")
    BY <1>3, <1>6
  <2> QED BY <1>6, <2>1, CrashShows
<1>7. (t.buffer = "none" /\ w # <<>>) \/ r \in S1 \cup S2
  BY <1>1, <1>3
<1>4. CASE ~(t.buffer = "none" /\ w # <<>>) /\ r \in S1
  <2>1. PICK d \in Last(t, w) : r = Wrote(Put(t, w, d, L), Len(w), "ok")
    BY <1>4 DEF S1
  <2>2. d \in Nat /\ d <= L /\ d % bs = 0 /\ L - d <= bs
    <3>1. d \in 0..L /\ d % bs = 0 /\ L - d <= bs
      BY DEF Last, Blocks
    <3> HIDE DEF L, bs
    <3> QED BY <3>1, <1>2
  <2>3. t.data_offset <= L /\ L - t.data_offset = Len(w) /\ L <= Len(All(t, w))
    <3>1. L <= Len(All(t, w))
      BY <1>2
    <3> HIDE DEF L
    <3> QED BY <3>1, <1>2
  <2> DEFINE v == Put(t, w, d, L)
  <2>4. Pen(v) /\ Puts(t, SubSeq(w, 1, L - t.data_offset), v)
    <3> HIDE DEF L
    <3> QED BY <1>1, <1>2, <1>4, <2>2, <2>3, PutShows
  <2> HIDE DEF v, L
  <2>5. r.s = v /\ r.n = Len(w) /\ r.err = "ok"
    BY <2>1 DEF v, Wrote
  <2>6. Len(w) \in 0..Len(w)
    BY <1>2
  <2> QED BY <2>3, <2>4, <2>5, <2>6 DEF Written
<1>5. CASE ~(t.buffer = "none" /\ w # <<>>) /\ r \in S2
  <2>1. PICK d \in Inner(t, w) : r \in {Wrote(f.s, d + bs - t.data_offset, f.err) : f \in Failed(t, w, d)}
    BY <1>5 DEF S2
  <2>2. PICK f \in Failed(t, w, d) : r = Wrote(f.s, d + bs - t.data_offset, f.err)
    BY <2>1
  <2>3. d \in Nat /\ d % bs = 0 /\ d + bs < L
    <3>1. d \in 0..L /\ d % bs = 0 /\ d + bs < L
      BY DEF Inner, Blocks
    <3> HIDE DEF L, bs
    <3> QED BY <3>1, <1>2
  <2> DEFINE e == d + bs
             v == Put(t, w, d, e)
             n == e - t.data_offset
  <2>4. e \in Nat /\ d <= e /\ e <= L /\ e - d <= bs /\ t.data_offset <= e /\ bs # 0 /\ L = Len(All(t, w)) /\ n < Len(w)
    <3>1. L = Len(All(t, w))
      OBVIOUS
    <3> HIDE DEF L, bs
    <3> QED BY <3>1, <1>1, <1>2, <2>3
  <2> HIDE DEF e
  <2>5. Pen(v) /\ Same(t, v) /\ n \in 0..Len(w) /\ Puts(t, SubSeq(w, 1, n), v)
    BY <1>5, <2>3, <2>4, PutShows
  <2>6. f \in flush_stream(v) /\ f.err # "ok"
    BY DEF Failed, e
  <2>7. r = Wrote(f.s, n, f.err)
    <3>1. d + (bs - t.data_offset) = n
      <4> HIDE DEF bs, L
      <4> QED BY <1>1, <1>2, <2>3 DEF e
    <3> QED BY <2>2, <3>1
  <2> HIDE DEF v
  <2>8. r.s = f.s /\ r.n = n /\ r.err = f.err
    BY <2>7 DEF Wrote
  <2> HIDE DEF n
  <2>9. Pen(f.s) /\ Alike(v, f.s)
    BY <2>5, <2>6, <2>8, PenFlushed
  <2>10. Puts(t, SubSeq(w, 1, n), f.s)
    BY <2>5, <2>9 DEF Puts, Alike
  <2>11. n # Len(w)
    BY <1>2, <2>4, <2>5
  <2> QED BY <2>5, <2>6, <2>8, <2>9, <2>10, <2>11 DEF Written
<1> QED BY <1>4, <1>5, <1>6, <1>7

\* es_write_nbf gives the bytes it accepts to the file.
LEMMA WriteUnbufferedShows ==
  ASSUME NEW t, Pen(t), t.data_offset = 0, NEW w \in Bytes, NEW r \in es_write_nbf(t, w)
  PROVE  Written(t, w, r) /\ Pen(r.s) /\ Same(t, r.s) /\ r.s.data_offset = 0
<1>1. /\ Writer(t) /\ t \in StreamType /\ ~t.turned /\ t.writing /\ t.backend = "file" /\ t.data_flushed = 0
      /\ t.data_offset <= Len(t.buf)
  BY PenIs
<1>2. LogicalData(t) = t.file /\ LogicalPos(t) = t.fpos
  BY <1>1, WriterShows
<1>3. ASSUME NEW k \in 0..Len(w)
      PROVE  LET u == Directly(t, w, k)
             IN Pen(u) /\ Same(t, u) /\ u.data_offset = 0 /\ Puts(t, SubSeq(w, 1, k), u)
  <2> DEFINE p == SubSeq(w, 1, k)
             D == Deliver(t, p)
             u == Directly(t, w, k)
  <2>1. Writer(u) /\ Same(t, u) /\ (u.writing <=> t.writing) /\ u.data_offset = 0
    BY <1>1, DirectlyIs
  <2>2. k \in Nat /\ k <= Len(w)
    BY DEF Bytes
  <2>3. p \in Bytes /\ Len(p) = k
    BY <2>2, Front
  <2>4. /\ D \in StreamType /\ D.fpos = t.fpos + Len(p) /\ D.file = Overlay(t.file, t.fpos, p)
        /\ D.data_flushed = t.data_flushed /\ D.unread = t.unread
    <3> HIDE DEF p
    <3> QED BY <1>1, <2>3, DeliverIs
  <2>5. u = [D EXCEPT !.offset = D.offset + k]
    BY DEF Directly
  <2> HIDE DEF D, u, p
  <2>6. u.fpos = D.fpos /\ u.file = D.file /\ u.data_flushed = D.data_flushed /\ u.unread = D.unread
    BY <2>4, <2>5 DEF StreamType
  <2>7. Pen(u)
    BY <1>1, <2>1, <2>4, <2>6, PenIf DEF Same
  <2>8. LogicalData(u) = u.file /\ LogicalPos(u) = u.fpos
    <3>1. u \in StreamType /\ u.writing /\ u.data_offset <= Len(u.buf)
      BY <2>7, PenIs
    <3> QED BY <2>1, <3>1, WriterShows
  <2>9. Puts(t, p, u)
    BY <1>2, <2>4, <2>6, <2>8 DEF Puts
  <2> QED BY <2>1, <2>7, <2>9 DEF u, p
<1>4. Len(w) \in Nat /\ Len(w) \in 0..Len(w)
  BY DEF Bytes
<1>5. ASSUME NEW k \in 0..Len(w), NEW e, r = Wrote(Directly(t, w, k), k, e), e = "ok" <=> k = Len(w)
      PROVE  Written(t, w, r) /\ Pen(r.s) /\ Same(t, r.s) /\ r.s.data_offset = 0
  <2> DEFINE u == Directly(t, w, k)
  <2>1. Pen(u) /\ Same(t, u) /\ u.data_offset = 0 /\ Puts(t, SubSeq(w, 1, k), u)
    BY <1>3
  <2>2. r.s = u /\ r.n = k /\ r.err = e
    BY <1>5 DEF Wrote
  <2> HIDE DEF u
  <2> QED BY <1>5, <2>1, <2>2 DEF Written
<1>6. r = Wrote(Directly(t, w, Len(w)), Len(w), "ok")
      \/ \E k \in 0..(Len(w) - 1), e \in Faults : r = Wrote(Directly(t, w, k), k, e)
  <2>1. es_write_nbf(t, w) = {Wrote(Directly(t, w, Len(w)), Len(w), "ok")}
                             \cup {Wrote(Directly(t, w, k), k, e) : k \in 0..(Len(w) - 1), e \in Faults}
    BY WriteUnbufferedIs
  <2> HIDE DEF Wrote, Directly
  <2> QED BY <2>1
<1>7. CASE r = Wrote(Directly(t, w, Len(w)), Len(w), "ok")
  BY <1>4, <1>5, <1>7
<1>8. CASE \E k \in 0..(Len(w) - 1), e \in Faults : r = Wrote(Directly(t, w, k), k, e)
  <2>1. PICK k \in 0..(Len(w) - 1), e \in Faults : r = Wrote(Directly(t, w, k), k, e)
    BY <1>8
  <2>2. k \in 0..Len(w) /\ k # Len(w) /\ e # "ok"
    BY <1>4, FaultsAre
  <2> QED BY <1>5, <2>1, <2>2
<1> QED BY <1>6, <1>7, <1>8

\* es_write_lbf puts the lines of w into the file and the rest into the buffer.
LEMMA WriteLinesShows ==
  ASSUME NEW t, Pen(t), t.buffer_size # 0, NEW w \in Bytes, NEW r \in es_write_lbf(t, w),
         r.err = "ok" \/ r.s.data_flushed = 0
  PROVE  Written(t, w, r)
<1> DEFINE p == LastNewline(w)
<1>1. t.writing /\ t \in StreamType /\ t.buffer_size \in Nat
  BY PenIs, Fields
<1>2. es_write_lbf(t, w) =
        IF \A i \in 1..Len(w) : w[i] # NL THEN es_write_fbf(t, w)
        ELSE IF ~t.writing THEN {Crash(t, "aborted")}
        ELSE UNION {IF f.err # "ok" THEN {f} ELSE Direct(f, w, p) : f \in flush_stream(t)}
  BY WriteLinesIs
<1> HIDE DEF p
<1>3. CASE \A i \in 1..Len(w) : w[i] # NL
  BY <1>2, <1>3, WriteBufferedShows
<1>4. CASE ~(\A i \in 1..Len(w) : w[i] # NL)
  <2>1. p \in 1..Len(w) /\ Len(w) \in Nat
    BY <1>4, LastNewlineIs DEF p, Bytes
  <2>2. p \in Nat /\ p <= Len(w) /\ p \in 0..Len(w) /\ 0 \in 0..Len(w) /\ p # 0
    BY <2>1
  <2> DEFINE E(f) == IF f.err # "ok" THEN {f} ELSE Direct(f, w, p)
             a == SubSeq(w, 1, p)
             b == SubSeq(w, p + 1, Len(w))
  <2>3. PICK f \in flush_stream(t) : r \in E(f)
    <3>1. es_write_lbf(t, w) = UNION {E(f) : f \in flush_stream(t)}
      BY <1>1, <1>2, <1>4
    <3> HIDE DEF E
    <3> QED BY <3>1
  <2>4. f.n = 0 /\ GoodOutcome(f)
    <3>1. Good(t) /\ t.status = "open"
      BY PenIs, WriterIs
    <3> QED BY <1>1, <3>1, FlushOk
  <2>5. CASE f.err # "ok"
    <3>1. r = f
      BY <2>3, <2>5
    <3>2. Pen(f.s) /\ Alike(t, f.s)
      BY <3>1, PenFlushed
    <3>3. Puts(t, <<>>, f.s) /\ SubSeq(w, 1, 0) = <<>>
      BY <3>2, PutsNothing DEF Bytes
    <3>4. 0 # Len(w)
      BY <2>1
    <3>5. SubSeq(w, 1, f.n) = <<>> /\ f.n \in 0..Len(w) /\ f.n # Len(w)
      BY <2>2, <2>4, <3>3, <3>4
    <3> QED BY <2>5, <3>1, <3>2, <3>3, <3>5 DEF Written
  <2>6. CASE f.err = "ok"
    <3>1. Pen(f.s) /\ Same(t, f.s) /\ Alike(t, f.s) /\ f.s.data_offset = 0
      BY <2>6, PenFlushed
    <3>2. PICK g \in es_write_nbf(f.s, a) : r \in (IF g.err # "ok" THEN {g} ELSE Later(g, w, p))
      <4>1. r \in Direct(f, w, p)
        BY <2>3, <2>6
      <4> DEFINE F(g) == IF g.err # "ok" THEN {g} ELSE Later(g, w, p)
      <4>2. Direct(f, w, p) = UNION {F(g) : g \in es_write_nbf(f.s, a)}
        BY DEF Direct
      <4>3. PICK g \in es_write_nbf(f.s, a) : r \in F(g)
        <5> HIDE DEF F, a
        <5> QED BY <4>1, <4>2
      <4> QED BY <4>3
    <3>3. a \in Bytes /\ Len(a) = p /\ b \in Bytes /\ Len(b) = Len(w) - p
      BY <2>1, <2>2, Front, PartAt
    <3> HIDE DEF a, b
    <3>4. Written(f.s, a, g) /\ Pen(g.s) /\ Same(f.s, g.s)
      BY <3>1, <3>2, <3>3, WriteUnbufferedShows
    <3>5. g.n \in 0..p /\ (g.err = "ok" <=> g.n = p) /\ Pen(g.s) /\ Puts(f.s, SubSeq(a, 1, g.n), g.s)
      BY <3>3, <3>4 DEF Written
    <3>6. Puts(t, SubSeq(a, 1, g.n), g.s)
      BY <3>1, <3>5 DEF Puts, Alike
    <3>7. CASE g.err # "ok"
      <4>1. r = g
        BY <3>2, <3>7
      <4>2. SubSeq(a, 1, g.n) = SubSeq(w, 1, g.n)
        <5>1. g.n \in Nat /\ 0 \in Nat /\ 0 <= p /\ g.n <= p - 0 /\ 0 + 1 = 1 /\ 0 + g.n = g.n
          BY <2>2, <3>5
        <5>2. SubSeq(SubSeq(w, 0 + 1, p), 1, g.n) = SubSeq(w, 0 + 1, 0 + g.n)
          BY <2>2, <5>1, PartOfPart
        <5> QED BY <5>1, <5>2 DEF a
      <4>3. g.n \in 0..Len(w) /\ g.n # Len(w)
        BY <2>1, <2>2, <3>5, <3>7
      <4> QED BY <3>5, <3>6, <3>7, <4>1, <4>2, <4>3 DEF Written
    <3>8. CASE g.err = "ok"
      <4>1. SubSeq(a, 1, g.n) = a
        BY <3>3, <3>5, <3>8 DEF Bytes
      <4>2. PICK h \in es_write_fbf(g.s, b) : r = [h EXCEPT !.n = @ + p]
        <5>1. r \in Later(g, w, p)
          BY <3>2, <3>8
        <5> QED BY <5>1 DEF Later, b
      <4>3. Writer(g.s) /\ g.s.buffer_size # 0
        BY <3>1, <3>4, <3>5, PenIs DEF Same
      <4>4. h \in OutcomeType
        BY <3>3, <4>2, <4>3, WriteBufferedOk DEF WriteOutcome, GoodOutcome
      <4>5. r.s = h.s /\ r.err = h.err /\ r.n = h.n + p
        BY <4>2, <4>4 DEF OutcomeType
      <4>6. Written(g.s, b, h)
        BY <3>3, <3>5, <4>2, <4>3, <4>5, WriteBufferedShows
      <4>7. h.n \in 0..(Len(w) - p) /\ (h.err = "ok" <=> h.n = Len(w) - p)
            /\ (Pen(h.s) \/ h.s.status # "open") /\ Puts(g.s, SubSeq(b, 1, h.n), h.s)
        BY <3>3, <4>6 DEF Written
      <4>8. h.n \in Nat /\ h.n <= Len(w) - p /\ p <= Len(w) /\ p <= p + h.n /\ p + h.n <= Len(w) /\ p + h.n \in Nat
            /\ h.n + p = p + h.n /\ p + h.n \in 0..Len(w) /\ (h.n = Len(w) - p <=> p + h.n = Len(w)) /\ Len(w) <= Len(w)
        BY <2>1, <2>2, <4>7
      <4> DEFINE c == SubSeq(b, 1, h.n)
      <4>9. c \in Bytes
        BY <3>3, <4>8, Front
      <4>10. a \o c = SubSeq(w, 1, p + h.n)
        <5>1. c = SubSeq(w, p + 1, p + h.n)
          BY <2>1, <2>2, <4>8, PartOfPart, ZenonT(60) DEF b
        <5>2. SubSeq(w, 1, p) \o SubSeq(w, p + 1, p + h.n) = SubSeq(w, 1, p + h.n)
          BY <2>2, <4>8, Split
        <5> HIDE DEF c
        <5> QED BY <5>1, <5>2 DEF a
      <4>11. Puts(t, a, g.s)
        BY <3>6, <4>1
      <4> HIDE DEF c
      <4>12. Puts(t, a \o c, h.s)
        BY <3>3, <4>7, <4>9, <4>11, PutsTrans DEF c
      <4> QED BY <4>5, <4>7, <4>8, <4>10, <4>12 DEF Written
    <3> QED BY <3>7, <3>8
  <2> QED BY <2>5, <2>6
<1> QED BY <1>3, <1>4

\* So does a write of any strategy.
LEMMA WriteShows ==
  ASSUME NEW t, Pen(t), NEW w \in Bytes, NEW r \in es_write_by_strategy(t, w),
         r.err = "ok" \/ r.s.data_flushed = 0
  PROVE  Written(t, w, r)
<1>1. /\ t \in StreamType /\ t.strategy \in Strategy /\ (t.strategy = "_IONBF" <=> t.buffer_size = 0)
      /\ t.data_offset <= t.buffer_size /\ t.data_offset \in Nat
  BY PenIs, WriterIs, Fields DEF Formed
<1>2. CASE t.strategy = "_IONBF"
  <2>1. t.data_offset = 0
    BY <1>1, <1>2
  <2> QED BY <1>2, <2>1, WriteUnbufferedShows DEF es_write_by_strategy
<1>3. CASE t.strategy = "_IOLBF"
  BY <1>1, <1>3, WriteLinesShows DEF es_write_by_strategy
<1>4. CASE t.strategy = "_IOFBF"
  BY <1>1, <1>4, WriteBufferedShows DEF es_write_by_strategy
<1> QED BY <1>1, <1>2, <1>3, <1>4 DEF Strategy

\* What a program sees of a write: the bytes accepted are put where it is, or, after
\* a read, where it was before the bytes it pushed back, which are forgotten.
Entered(t, w, r) ==
  /\ Steady(r.s) \/ r.s.status # "open"
  /\ r.n \in 0..Len(w) /\ (r.err = "ok" <=> r.n = Len(w))
  /\ \E start \in Nat :
       /\ \/ start = LogicalPos(t) /\ r.s.unread = t.unread
          \/ start = LogicalPos(t) - Len(t.unread) /\ r.s.unread = <<>>
       /\ LogicalData(r.s) = Overlay(LogicalData(t), start, SubSeq(w, 1, r.n))
       /\ LogicalPos(r.s) = start + r.n

\* es_writen, after a read by way of a seek that may fail.
LEMMA WritenShows ==
  ASSUME NEW t, Steady(t), NEW w \in Bytes, w # <<>>, NEW r \in es_writen(t, w),
         r.err = "ok" \/ r.s.data_flushed = 0
  PROVE  Entered(t, w, r)
<1>1. t \in StreamType /\ Usable(t) /\ t.backend = "file" /\ LogicalData(t) \in Bytes /\ LogicalPos(t) \in Nat
      /\ t.unread \in Bytes /\ Len(t.unread) \in Nat
  BY SteadyIs DEF Steady
<1>2. Len(w) \in Nat /\ Len(w) # 0 /\ SubSeq(w, 1, 0) = <<>>
  BY DEF Bytes
<1>3. CASE t.writing
  <2>1. Pen(t) /\ r \in es_write_by_strategy(t, w)
    BY <1>3 DEF Pen, es_writen
  <2>2. Written(t, w, r)
    BY <2>1, WriteShows
  <2>3. Len(SubSeq(w, 1, r.n)) = r.n
    <3>1. r.n \in Nat /\ r.n <= Len(w)
      BY <1>2, <2>2 DEF Written
    <3> QED BY <3>1, Front
  <2> QED BY <1>1, <2>2, <2>3 DEF Written, Puts, Entered, Pen
<1>4. CASE ~t.writing
  <2> DEFINE E(f) == IF f.err \notin {"ok", "ESPIPE"} THEN {f}
                     ELSE es_write_by_strategy([f.s EXCEPT !.writing = TRUE, !.turned = (f.err = "ESPIPE")], w)
  <2>1. PICK f \in es_seek(t, "SEEK_CUR", 0) : r \in E(f)
    <3>1. es_writen(t, w) = UNION {E(f) : f \in es_seek(t, "SEEK_CUR", 0)}
      BY <1>1, <1>4, TurnIs
    <3> HIDE DEF E
    <3> QED BY <3>1
  <2>2. /\ Harmless(t, f) /\ f.n = 0
        /\ f.err = "ok" => Reader(f.s) /\ Clean(f.s)
        /\ f.err # "ESPIPE"
    <3>1. "SEEK_CUR" \in {"SEEK_SET", "SEEK_CUR", "SEEK_END"} /\ 0 \in Int
      OBVIOUS
    <3> QED BY <1>1, <1>4, <3>1, SeekOk
  <2>3. f \in OutcomeType /\ f.s \in StreamType /\ Good(f.s) /\ Same(t, f.s)
    BY <2>2 DEF Harmless, GoodOutcome, OutcomeType
  <2>4. ASSUME f.err = "ok" \/ f.s.data_flushed = 0
        PROVE  /\ Steady(f.s) /\ LogicalData(f.s) = LogicalData(t)
               /\ f.err = "ok" => /\ LogicalPos(f.s) = Aim(t, "SEEK_CUR", 0) /\ f.s.unread = <<>>
                                  /\ Aim(t, "SEEK_CUR", 0) \in Nat
               /\ f.err # "ok" => Alike(t, f.s)
    <3>1. "SEEK_CUR" \in {"SEEK_SET", "SEEK_CUR", "SEEK_END"} /\ 0 \in Int
      OBVIOUS
    <3> QED BY <2>4, <3>1, SeekShows
  <2>5. Aim(t, "SEEK_CUR", 0) = LogicalPos(t) - Len(t.unread)
    <3>1. \A x, y \in Nat : x - y + 0 = x - y
      OBVIOUS
    <3> QED BY <1>1, <3>1 DEF Aim
  <2>6. CASE f.err # "ok"
    <3>1. r = f
      BY <2>1, <2>2, <2>6
    <3>2. Steady(f.s) /\ Alike(t, f.s)
      BY <2>4, <2>6, <3>1
    <3>3. 0 \in 0..Len(w) /\ 0 # Len(w) /\ LogicalPos(t) + 0 = LogicalPos(t)
      BY <1>1, <1>2
    <3>4. LogicalData(f.s) = Overlay(LogicalData(t), LogicalPos(t), <<>>)
      BY <3>2 DEF Alike, Overlay
    <3> QED BY <1>1, <1>2, <2>2, <2>6, <3>1, <3>2, <3>3, <3>4 DEF Entered, Alike
  <2>7. CASE f.err = "ok"
    <3> DEFINE c == f.err = "ESPIPE"
               u == [f.s EXCEPT !.writing = TRUE, !.turned = c]
               start == LogicalPos(t) - Len(t.unread)
    <3>1. r \in es_write_by_strategy(u, w) /\ c \in BOOLEAN /\ ~c
      BY <2>1, <2>7
    <3> HIDE DEF c
    <3>2. /\ u \in StreamType /\ (u.turned <=> c) /\ u.writing /\ u.status = f.s.status
          /\ u.backend = f.s.backend /\ u.accepted = f.s.accepted /\ u.data_offset = f.s.data_offset
          /\ u.buf = f.s.buf /\ u.buffer_size = f.s.buffer_size /\ u.strategy = f.s.strategy
          /\ u.data_len = f.s.data_len /\ u.unread = f.s.unread /\ u.fpos = f.s.fpos
          /\ u.offset = f.s.offset /\ u.data_flushed = f.s.data_flushed /\ u.lost = f.s.lost
          /\ u.resent = f.s.resent /\ u.file = f.s.file
      BY <2>3, <3>1 DEF StreamType
    <3> HIDE DEF u
    <3>3. /\ Formed(f.s) /\ Bounded(f.s) /\ Counted(f.s) /\ f.s.status = "open" /\ ~f.s.turned /\ Reader(f.s)
          /\ f.s.backend = "file" /\ f.s.data_len = 0 /\ f.s.data_offset = 0 /\ f.s.data_flushed = 0
          /\ f.s.buf = <<>> /\ f.s.buffer_size \in Nat
      BY <1>1, <2>2, <2>3, <2>7, UsableIs, Fields DEF Reader, Same, Clean
    <3>4. Formed(u) /\ Counted(u) /\ Bounded(u) /\ Mirrors(u)
      BY <3>1, <3>2, <3>3, NoBytes DEF Formed, Counted, Bounded, Mirrors
    <3>5. Pen(u)
      BY <3>1, <3>2, <3>3, <3>4 DEF Pen, Steady, Usable, Good
    <3>6. Written(u, w, r)
      BY <3>1, <3>5, WriteShows
    <3>7. LogicalData(u) = u.file /\ LogicalPos(u) = u.fpos
      BY <3>2, <3>3, <3>5, PenIs, WriterShows
    <3>8. LogicalData(f.s) = f.s.file /\ LogicalPos(f.s) = f.s.fpos
      BY <3>3, ReaderShows, Fields
    <3>9. LogicalData(u) = LogicalData(t) /\ LogicalPos(u) = start /\ start \in Nat /\ u.unread = <<>>
      BY <2>4, <2>5, <2>7, <3>2, <3>7, <3>8
    <3> HIDE DEF start
    <3>10. Len(SubSeq(w, 1, r.n)) = r.n
      <4>1. r.n \in Nat /\ r.n <= Len(w)
        BY <1>2, <3>6 DEF Written
      <4> QED BY <4>1, Front
    <3>11. /\ r.n \in 0..Len(w) /\ (r.err = "ok" <=> r.n = Len(w)) /\ (Steady(r.s) \/ r.s.status # "open")
           /\ LogicalData(r.s) = Overlay(LogicalData(t), start, SubSeq(w, 1, r.n))
           /\ LogicalPos(r.s) = start + r.n /\ r.s.unread = <<>>
      BY <3>6, <3>9, <3>10 DEF Written, Puts, Pen
    <3> QED BY <3>9, <3>11 DEF Entered, start
  <2> QED BY <2>6, <2>7
<1> QED BY <1>3, <1>4

-----------------------------------------------------------------------------
(* Flushing, buffering, closing *)

\* A reader that drops what it has read ahead stands where its backend does.
LEMMA DiscardShows ==
  ASSUME NEW t, Steady(t), Reader(t)
  PROVE  LET u == Discard(t)
         IN /\ u.file = t.file /\ u.fpos = t.fpos /\ u.unread = <<>> /\ u.data_len = 0
            /\ u.data_offset = 0 /\ (u.writing <=> t.writing)
            /\ LogicalData(u) = LogicalData(t)
            /\ LogicalPos(u) \in Nat /\ LogicalPos(t) <= LogicalPos(u)
            /\ LogicalPos(u) <= LogicalPos(t) + Ahead(t)
<1> DEFINE E == es_empty(t)
           u == Discard(t)
<1>1. t \in StreamType /\ Good(t) /\ ~t.writing
  BY SteadyIs DEF Reader
<1>2. /\ LogicalData(t) = t.file /\ LogicalPos(t) = t.fpos - t.data_len + t.data_offset
      /\ LogicalPos(t) \in Nat /\ t.data_offset <= t.data_len
      /\ t.data_len \in Nat /\ t.data_offset \in Nat /\ t.fpos \in Nat /\ t.data_len <= t.fpos
  BY ReaderShows
<1>3. u.fpos = t.fpos /\ u.data_len = 0 /\ u.data_offset = 0 /\ u.unread = <<>> /\ (u.writing <=> t.writing) /\ u \in StreamType
  BY <1>1, DiscardIs
<1>4. u.file = t.file
  <2>1. E \in StreamType /\ E.file = t.file
    BY <1>1, EmptyIs
  <2>2. u = [E EXCEPT !.lost = @ + t.data_len]
    BY DEF Discard
  <2> HIDE DEF E
  <2> QED BY <2>1, <2>2 DEF StreamType
<1> HIDE DEF u
<1>5. LogicalData(u) = u.file /\ LogicalPos(u) = t.fpos
  <2>1. LogicalData(u) = u.file
    BY <1>1, <1>3 DEF LogicalData, Pending, Overlay
  <2>2. LogicalPos(u) = u.fpos - u.data_len + u.data_offset
    BY <1>1, <1>3 DEF LogicalPos
  <2>3. t.fpos - 0 + 0 = t.fpos
    BY <1>2
  <2> QED BY <1>3, <2>1, <2>2, <2>3
<1>6. t.data_len - t.data_offset <= Ahead(t) /\ Ahead(t) \in Nat
  BY RestShows
<1>7. LogicalPos(t) <= t.fpos /\ t.fpos <= LogicalPos(t) + Ahead(t)
  <2> DEFINE a == Ahead(t)
             p == LogicalPos(t)
  <2>1. a \in Nat /\ t.data_len - t.data_offset <= a /\ p = t.fpos - t.data_len + t.data_offset
    BY <1>2, <1>6
  <2> HIDE DEF a, p
  <2>2. p <= t.fpos /\ t.fpos <= p + a
    BY <1>2, <2>1
  <2> QED BY <2>2 DEF a, p
<1> QED BY <1>2, <1>3, <1>4, <1>5, <1>7 DEF u

\* What a program sees of a flush: nothing if it was writing, and after a read that
\* it may stand further down.
Skipped(t, u) ==
  \/ Alike(t, u)
  \/ /\ LogicalData(u) = LogicalData(t) /\ u.unread = <<>>
     /\ LogicalPos(u) \in LogicalPos(t)..(LogicalPos(t) + Ahead(t))

\* do_fflush skips at most what was read ahead.
LEMMA FflushShows ==
  ASSUME NEW t, Steady(t), NEW r \in do_fflush(t), r.err = "ok" \/ r.s.data_flushed = 0
  PROVE  Skipped(t, r.s) /\ Steady(r.s) /\ (r.err = "ok" => Clean(r.s))
<1>1. t \in StreamType /\ Good(t) /\ t.status = "open" /\ ~t.turned /\ t.backend = "file" /\ Usable(t)
      /\ LogicalPos(t) \in Nat
  BY SteadyIs DEF Steady
<1>2. CASE t.writing
  <2>1. r \in flush_stream(t)
    BY <1>2 DEF do_fflush
  <2>2. Pen(r.s) /\ Alike(t, r.s)
    BY <1>2, <2>1, PenFlushed DEF Pen
  <2>3. r.err = "ok" => Clean(r.s)
    BY <1>1, <1>2, <2>1, FlushOk
  <2> QED BY <2>2, <2>3 DEF Skipped, Pen
<1>3. CASE ~t.writing
  <2> DEFINE u == Discard(t)
  <2>1. Reader(t)
    BY <1>1, <1>3 DEF Reader
  <2>2. /\ u.unread = <<>> /\ u.data_len = 0 /\ LogicalData(u) = LogicalData(t)
        /\ LogicalPos(u) \in Nat /\ LogicalPos(t) <= LogicalPos(u) /\ LogicalPos(u) <= LogicalPos(t) + Ahead(t)
    BY <2>1, DiscardShows
  <2>3. GoodOutcome(r) /\ Same(t, r.s) /\ (r.err = "ok" => Clean(r.s))
    BY <1>1, FflushOk
  <2>4. r.s = u /\ r.err = "ok"
    BY <1>3 DEF do_fflush, Done, Fail
  <2> HIDE DEF u
  <2>5. Skipped(t, u)
    <3> DEFINE q == LogicalPos(u)
               p == LogicalPos(t)
               a == Ahead(t)
    <3>1. a \in Nat /\ q \in Nat /\ p \in Nat /\ p <= q /\ q <= p + a
      BY <1>1, <2>2, AheadIs
    <3> HIDE DEF p, q, a
    <3>2. q \in p..(p + a)
      BY <3>1
    <3> QED BY <2>2, <3>2 DEF Skipped, p, q, a
  <2>6. Steady(u)
    BY <1>1, <2>2, <2>3, <2>4 DEF Steady, Usable, GoodOutcome, Same, Clean
  <2> QED BY <2>3, <2>4, <2>5, <2>6
<1> QED BY <1>2, <1>3

\* So does es_set_buffering.
LEMMA SetBufferingShows ==
  ASSUME NEW t, Steady(t), NEW strategy \in Strategy, NEW size \in Sizes,
         NEW r \in es_set_buffering(t, strategy, size), r.err = "ok" \/ r.s.data_flushed = 0
  PROVE  Skipped(t, r.s) /\ Steady(r.s)
<1>1. PICK f \in do_fflush(t) :
        (f.err # "ok" /\ r = f) \/ (f.err = "ok" /\ r \in NewBuffer(Cleared(f.s), strategy, size))
  BY SetBufferingIs
<1>2. CASE f.err # "ok"
  BY <1>1, <1>2, FflushShows
<1>3. CASE f.err = "ok"
  <2>1. Skipped(t, f.s) /\ Steady(f.s) /\ Clean(f.s)
    BY <1>3, FflushShows
  <2>2. Usable(f.s) /\ f.s.backend = "file" /\ f.s.status = "open" /\ ~f.s.turned
    BY <2>1, SteadyIs DEF Steady
  <2>3. Rebuffers(f.s, r.s) /\ Good(r.s)
    BY <1>1, <1>3, <2>1, <2>2, NewBufferOk
  <2>4. Steady(r.s)
    BY <2>1, <2>2, <2>3 DEF Steady, Usable, Rebuffers, Clean
  <2>5. Alike(f.s, r.s)
    BY <2>1, <2>3, SameShown DEF Clean, Rebuffers
  <2>6. Skipped(t, r.s)
    BY <2>1, <2>5 DEF Skipped, Alike
  <2> QED BY <2>4, <2>6
<1> QED BY <1>2, <1>3

\* fclose is not seen to change anything.
LEMMA CloseShows ==
  ASSUME NEW t, Steady(t), NEW r \in do_close(t, FALSE), r.s.data_flushed = 0
  PROVE  Alike(t, r.s) /\ r.s.status = "closed"
<1> DEFINE S(f) == {Closed(f, e) : e \in {"ok"} \cup (Faults \ {"EAGAIN"})}
           F == IF t.writing THEN flush_stream(t) ELSE {Done(t)}
<1>0. t \in StreamType /\ Good(t) /\ t.status = "open" /\ Usable(t)
  BY SteadyIs
<1>1. PICK f \in F : r \in S(f)
  <2>1. do_close(t, FALSE) = UNION {S(f) : f \in F}
    BY CloseIs
  <2> HIDE DEF S, F
  <2> QED BY <2>1
<1>2. PICK e \in {"ok"} \cup (Faults \ {"EAGAIN"}) : r = Closed(f, e)
  BY <1>1
<1>3. f \in OutcomeType
  <2>1. CASE t.writing
    BY <1>0, <1>1, <2>1, FlushOk DEF GoodOutcome
  <2>2. CASE ~t.writing
    BY <1>0, <1>1, <2>2, DoneIs
  <2> QED BY <2>1, <2>2
<1> DEFINE u == [f.s EXCEPT !.status = "closed"]
<1>4. r.s = u
  BY <1>2, <1>3 DEF Closed, OutcomeType
<1>5. f.s \in StreamType
  BY <1>3 DEF OutcomeType
<1>6. /\ u.file = f.s.file /\ u.fpos = f.s.fpos /\ u.buf = f.s.buf /\ u.data_len = f.s.data_len
      /\ u.data_offset = f.s.data_offset /\ u.unread = f.s.unread /\ (u.writing <=> f.s.writing)
      /\ u.status = "closed" /\ u.data_flushed = f.s.data_flushed
  BY <1>5 DEF StreamType
<1> HIDE DEF u, S
<1>7. Alike(f.s, u)
  BY <1>6, SameShown
<1>8. Alike(t, f.s)
  <2>1. CASE t.writing
    <3>1. f \in flush_stream(t) /\ f.s.data_flushed = 0
      BY <1>1, <1>4, <1>6, <2>1
    <3> QED BY <2>1, <3>1, PenFlushed DEF Pen
  <2>2. CASE ~t.writing
    <3>1. f = Done(t)
      BY <1>1, <2>2
    <3> QED BY <3>1 DEF Done, Fail, Alike
  <2> QED BY <2>1, <2>2
<1> QED BY <1>4, <1>6, <1>7, <1>8, AlikeTrans

\* A cancelled stream still shows a file.
LEMMA CancelShows ==
  ASSUME NEW t, Steady(t), NEW r \in do_close(t, TRUE)
  PROVE  LogicalData(r.s) \in Bytes /\ LogicalPos(r.s) \in Nat /\ r.s.unread = <<>> /\ r.s.status = "closed"
<1> DEFINE D == Discard(t)
           c == Abandoned(t)
           S(f) == {Closed(f, e) : e \in {"ok"} \cup (Faults \ {"EAGAIN"})}
<1>1. /\ D \in StreamType /\ D.data_len = 0 /\ D.data_offset = 0 /\ D.unread = <<>>
  <2>1. Good(t)
    BY SteadyIs
  <2> QED BY <2>1, DiscardIs
<1>2. c = [D EXCEPT !.writing = FALSE]
  BY DEF Abandoned
<1> HIDE DEF D
<1>3. c \in StreamType /\ ~c.writing /\ c.data_len = 0 /\ c.data_offset = 0 /\ c.unread = <<>>
  BY <1>1, <1>2, ZenonT(60) DEF StreamType
<1> HIDE DEF c
<1>4. r \in S(Done(c))
  <2>1. do_close(t, TRUE) = UNION {S(f) : f \in IF c.writing THEN flush_stream(c) ELSE {Done(c)}}
    BY CloseIs DEF c
  <2> HIDE DEF S
  <2> QED BY <1>3, <2>1
<1>5. PICK e \in {"ok"} \cup (Faults \ {"EAGAIN"}) : r = Closed(Done(c), e)
  BY <1>4
<1> DEFINE u == [c EXCEPT !.status = "closed"]
<1>6. r.s = u
  <2>1. Done(c) \in OutcomeType /\ Done(c) = [s |-> c, err |-> "ok", n |-> 0, got |-> <<>>]
    BY <1>3, DoneIs
  <2> QED BY <1>5, <2>1 DEF Closed
<1>7. /\ u.file = c.file /\ u.fpos = c.fpos /\ u.data_len = 0 /\ u.data_offset = 0 /\ u.unread = <<>>
      /\ ~u.writing /\ u.status = "closed" /\ c.file \in Bytes /\ c.fpos \in Nat
  BY <1>3, Fields DEF StreamType
<1> HIDE DEF u
<1>8. LogicalData(u) = u.file /\ LogicalPos(u) = u.fpos
  <2>1. u.fpos - 0 + 0 = u.fpos
    BY <1>7
  <2> QED BY <1>7, <2>1 DEF LogicalData, LogicalPos, Pending, Overlay
<1> QED BY <1>6, <1>7, <1>8

\* A rewind is a seek to the start.
LEMMA RewindShows ==
  ASSUME NEW t, Steady(t), NEW r \in es_seek(t, "SEEK_SET", 0), r.err = "ok" \/ r.s.data_flushed = 0
  PROVE  LET q == WithErr(r, FALSE)
         IN /\ Steady(q.s) /\ q.err = r.err /\ q.n = r.n /\ q.got = r.got /\ Alike(r.s, q.s)
<1> DEFINE u == [r.s EXCEPT !.err = FALSE]
<1>1. Steady(r.s)
  BY SeekShows
<1>2. Steady(u) /\ Alike(r.s, u)
  BY <1>1, MarkedShows
<1>3. r \in OutcomeType
  <2>1. Usable(t)
    BY SteadyIs
  <2> QED BY <2>1, SeekOk DEF Harmless, GoodOutcome
<1>4. LET q == WithErr(r, FALSE) IN q.s = u /\ q.err = r.err /\ q.n = r.n /\ q.got = r.got
  BY <1>3 DEF OutcomeType, WithErr
<1> HIDE DEF u
<1> QED BY <1>2, <1>4

\* What is recorded of a write is not seen, but for its result.
LEMMA RecordedShows ==
  ASSUME NEW t, Steady(t), NEW w \in Bytes, NEW r \in es_writen(t, w)
  PROVE  Recorded(t, w, r) = [s |-> r.s, err |-> r.err, n |-> r.n, got |-> SubSeq(w, 1, r.n)]
<1> DEFINE g == SubSeq(w, 1, r.n)
           a == IF t.backend = "file" THEN r.s.accepted ELSE r.s.accepted \o g
           v == [r.s EXCEPT !.accepted = a]
<1>1. r \in OutcomeType /\ r.s \in StreamType
  <2>1. Usable(t)
    BY SteadyIs
  <2> QED BY <2>1, WritenOk DEF TurnOutcome, GoodOutcome, OutcomeType
<1>2. a = r.s.accepted
  BY DEF Steady
<1>3. v = r.s
  BY <1>1, <1>2 DEF StreamType
<1>4. Recorded(t, w, r) = [s |-> v, err |-> r.err, n |-> r.n, got |-> g]
  <2>1. Recorded(t, w, r) = [r EXCEPT !.got = g, !.s.accepted = a]
    BY DEF Recorded
  <2> HIDE DEF g, a
  <2> QED BY <1>1, <2>1, TwoFields
<1> QED BY <1>3, <1>4

-----------------------------------------------------------------------------
(***************************************************************************)
(* Each call is an action of ByteStream.                                   *)
(***************************************************************************)

\* A stream over a file that no flush has left half done.
Whole == s.backend = "file" /\ s.data_flushed = 0

\* What a reader has in its buffer is still in the file: a file never becomes shorter.
Within == s.status = "open" /\ ~s.writing /\ s.data_len > 0 => s.fpos <= Len(s.file)

SInv == IInv /\ Within

\* The next state, when it is x.
LEMMA Primed ==
  ASSUME NEW x, s' = x
  PROVE  /\ LogicalData(s)' = LogicalData(x) /\ LogicalPos(s)' = LogicalPos(x) /\ (s.unread)' = x.unread
         /\ Whole' => x.data_flushed = 0
         /\ Steady(x) \/ x.status # "open" => Within'
  BY DEF LogicalData, LogicalPos, Pending, Overlay, Whole, Within, Steady

\* What a call does when no flush is left half done before it or after it.
LEMMA CallShows ==
  ASSUME SInv, Whole, Whole', NEW op, NEW arg, NEW outcomes, Call(op, arg, outcomes)
  PROVE  /\ Steady(s)
         /\ \E r \in outcomes :
              /\ r.s.data_flushed = 0
              /\ ret'.op = op /\ ret'.arg = arg /\ ret'.rc = ReturnCode(op, r)
              /\ ret'.errno = r.err /\ ret'.bytes = r.got
              /\ LogicalData(s)' = LogicalData(r.s) /\ LogicalPos(s)' = LogicalPos(r.s)
              /\ (s.unread)' = r.s.unread
              /\ Steady(r.s) \/ r.s.status # "open" => Within'
<1>1. PICK r \in outcomes :
        /\ s' = r.s
        /\ ret' = [op |-> op, arg |-> arg, rc |-> ReturnCode(op, r), errno |-> r.err, bytes |-> r.got]
  BY DEF Call
<1>2. /\ ret'.op = op /\ ret'.arg = arg /\ ret'.rc = ReturnCode(op, r)
      /\ ret'.errno = r.err /\ ret'.bytes = r.got
  BY <1>1
<1>3. /\ LogicalData(s)' = LogicalData(r.s) /\ LogicalPos(s)' = LogicalPos(r.s) /\ (s.unread)' = r.s.unread
      /\ r.s.data_flushed = 0
      /\ Steady(r.s) \/ r.s.status # "open" => Within'
  BY <1>1, Primed
<1>4. Good(s) /\ s.status = "open" /\ (s.turned \/ Usable(s))
  BY CalledIsUsable DEF SInv
<1>5. Steady(s)
  BY <1>4 DEF SInv, Whole, Within, Steady, Good, Formed
<1> QED BY <1>2, <1>3, <1>5

\* The operators of ByteStream are those of this module.
LEMMA Seen ==
  /\ Abstract!Left = Ahead(s)
  /\ \A m : Abstract!Slice(m) = Following(s, m) /\ Abstract!Pop(m) = Popped(s, m)
  /\ \A d, p, w : Abstract!Put(d, p, w) = Overlay(d, p, w)
<1>1. Abstract!Left = Ahead(s)
  BY DEF Abstract!Left, Ahead
<1>2. \A m : Abstract!Slice(m) = Following(s, m) /\ Abstract!Pop(m) = Popped(s, m)
  BY DEF Abstract!Slice, Abstract!Pop, Following, Popped
<1>3. \A d, p, w : Abstract!Put(d, p, w) = Overlay(d, p, w)
  BY DEF Abstract!Put, Overlay, Abstract!Bigger, Larger
<1> QED BY <1>1, <1>2, <1>3

\* gpgrt_fread and gpgrt_fgetc.
LEMMA ReadRefines ==
  ASSUME SInv, Whole, Whole', NEW n \in Nat, NEW op \in {"read", "getc"}, Call(op, <<n>>, es_readn(s, n))
  PROVE  Within' /\ Abstract!Read
<1>1. PICK r \in es_readn(s, n) :
        /\ r.s.data_flushed = 0
        /\ ret'.op = op /\ ret'.arg = <<n>> /\ ret'.errno = r.err /\ ret'.bytes = r.got
        /\ LogicalData(s)' = LogicalData(r.s) /\ LogicalPos(s)' = LogicalPos(r.s)
        /\ (s.unread)' = r.s.unread
        /\ Steady(r.s) \/ r.s.status # "open" => Within'
  BY CallShows
<1>2. Steady(s)
  BY CallShows
<1>3. Takes(s, n, r)
  BY <1>1, <1>2, ReadnShows
<1>4. PICK u \in 0..Len(s.unread), m \in 0..Ahead(s) :
        /\ u = Len(s.unread) \/ m = 0
        /\ u + m <= n /\ r.got = Popped(s, u) \o Following(s, m)
        /\ r.s.unread = SubSeq(s.unread, 1, Len(s.unread) - u)
        /\ LogicalPos(r.s) = LogicalPos(s) + m
        /\ r.err = "ok" /\ u + m < n => m = Ahead(s) /\ u = Len(s.unread)
  BY <1>3 DEF Takes
<1>5. u = Len(s.unread) => r.s.unread = <<>>
  <2>1. s.unread \in Bytes /\ Len(s.unread) \in Nat
    BY <1>2, SteadyIs
  <2> QED BY <1>4, <2>1 DEF Bytes
<1>6. Abstract!Take(u, m)
  BY <1>1, <1>3, <1>4, Seen DEF Abstract!Take, Takes
<1>7. ret'.arg[1] = n
  BY <1>1
<1>8. Abstract!Ok <=> r.err = "ok"
  BY <1>1 DEF Abstract!Ok
<1>9. Abstract!Read
  BY <1>1, <1>4, <1>5, <1>6, <1>7, <1>8, Seen DEF Abstract!Read
<1> QED BY <1>1, <1>3, <1>9 DEF Takes

\* gpgrt_read_line.
LEMMA ReadLineRefines ==
  ASSUME SInv, Whole, Whole', ReadLine
  PROVE  Within' /\ Abstract!ReadLine
<1>1. PICK r \in read_line(s) :
        /\ r.s.data_flushed = 0
        /\ ret'.op = "read_line" /\ ret'.errno = r.err /\ ret'.bytes = r.got
        /\ LogicalData(s)' = LogicalData(r.s) /\ LogicalPos(s)' = LogicalPos(r.s)
        /\ (s.unread)' = r.s.unread
        /\ Steady(r.s) \/ r.s.status # "open" => Within'
  BY CallShows DEF ReadLine
<1>2. Steady(s)
  BY CallShows DEF ReadLine
<1>3. /\ \E n \in Nat : Takes(s, n, r)
      /\ r.err = "ok" => IF r.got = <<>> THEN Ahead(s) = 0
                         ELSE Line(r.got, LogicalPos(r.s) >= Len(LogicalData(s)))
  BY <1>1, <1>2, ReadLineShows
<1>4. PICK n \in Nat : Takes(s, n, r)
  BY <1>3
<1>5. PICK u \in 0..Len(s.unread), m \in 0..Ahead(s) :
        /\ u = Len(s.unread) \/ m = 0
        /\ r.got = Popped(s, u) \o Following(s, m)
        /\ r.s.unread = SubSeq(s.unread, 1, Len(s.unread) - u)
        /\ LogicalPos(r.s) = LogicalPos(s) + m
  BY <1>4 DEF Takes
<1>6. Abstract!Take(u, m)
  BY <1>1, <1>4, <1>5, Seen DEF Abstract!Take, Takes
<1>7. Abstract!IsLine(r.got) <=> Line(r.got, LogicalPos(r.s) >= Len(LogicalData(s)))
  BY <1>1 DEF Abstract!IsLine, Line
<1>8. Abstract!ReadLine
  BY <1>1, <1>3, <1>5, <1>6, <1>7, Seen DEF Abstract!ReadLine, Abstract!Ok
<1> QED BY <1>1, <1>4, <1>8 DEF Takes

\* gpgrt_getline.
LEMMA GetLineRefines ==
  ASSUME SInv, Whole, Whole', GetLine
  PROVE  Within' /\ Abstract!GetLine
<1>1. PICK r \in doreadline(s) :
        /\ r.s.data_flushed = 0
        /\ ret'.op = "getline" /\ ret'.errno = r.err /\ ret'.bytes = r.got
        /\ LogicalData(s)' = LogicalData(r.s) /\ LogicalPos(s)' = LogicalPos(r.s)
        /\ (s.unread)' = r.s.unread
        /\ Steady(r.s) \/ r.s.status # "open" => Within'
  BY CallShows DEF GetLine
<1>2. Steady(s)
  BY CallShows DEF GetLine
<1>3. /\ Steady(r.s) /\ LogicalData(r.s) = LogicalData(s) /\ r.s.unread = s.unread
      /\ \E m \in 0..Ahead(s) : /\ LogicalPos(r.s) = LogicalPos(s) + m
                                /\ r.got = IF r.err = "ok" THEN Following(s, m) ELSE <<>>
      /\ r.err = "ok" /\ r.got # <<>> => Line(r.got, LogicalPos(r.s) >= Len(LogicalData(s)))
  BY <1>1, <1>2, GetLineShows
<1>4. Abstract!IsLine(r.got) <=> Line(r.got, LogicalPos(r.s) >= Len(LogicalData(s)))
  BY <1>1 DEF Abstract!IsLine, Line
<1>5. Abstract!GetLine
  BY <1>1, <1>3, <1>4, Seen DEF Abstract!GetLine, Abstract!Ok
<1> QED BY <1>1, <1>3, <1>5

\* gpgrt_ungetc.
LEMMA UngetcRefines ==
  ASSUME SInv, Whole, Whole', NEW c \in Byte, Ungetc(c)
  PROVE  Within' /\ Abstract!Ungetc
<1> DEFINE r == es_unreadn(s, c)
<1>1. /\ ret'.op = "ungetc" /\ ret'.arg = <<c>> /\ ret'.rc = ReturnCode("ungetc", r)
      /\ LogicalData(s)' = LogicalData(r.s) /\ LogicalPos(s)' = LogicalPos(r.s)
      /\ (s.unread)' = r.s.unread
      /\ Steady(r.s) \/ r.s.status # "open" => Within'
  BY CallShows DEF Ungetc
<1>2. Steady(s)
  BY CallShows DEF Ungetc
<1>3. /\ LogicalData(r.s) = LogicalData(s) /\ LogicalPos(r.s) = LogicalPos(s) /\ Steady(r.s)
      /\ \/ r.n = 1 /\ r.s.unread = s.unread \o <<c>>
         \/ r.n = 0 /\ r.s.unread = s.unread
      /\ r.err = "ok"
  BY <1>2, UnreadnShows
<1> HIDE DEF r
<1>4. ret'.rc = IF r.n = 1 THEN 1 ELSE -1
  <2>1. "ungetc" \notin {"read_line", "getc"} /\ "ungetc" \in {"read_line", "getc", "ungetc"}
    OBVIOUS
  <2>2. ReturnCode("ungetc", r) = IF r.n = 1 THEN 1 ELSE -1
    BY <2>1 DEF ReturnCode
  <2> QED BY <1>1, <2>2
<1>5. (s.unread)' = IF ret'.rc = -1 THEN s.unread ELSE s.unread \o ret'.arg
  <2>1. CASE r.n = 1
    <3>1. ret'.rc = 1 /\ (s.unread)' = s.unread \o <<c>> /\ 1 # -1 /\ 1 # 0
      BY <1>1, <1>3, <1>4, <2>1
    <3>2. ret'.rc # -1
      BY <3>1
    <3> QED BY <1>1, <3>1, <3>2
  <2>2. CASE r.n = 0
    <3>1. ret'.rc = -1 /\ (s.unread)' = s.unread
      BY <1>1, <1>3, <1>4, <2>2
    <3> QED BY <3>1
  <2> QED BY <1>3, <2>1, <2>2
<1>6. Abstract!Ungetc
  BY <1>1, <1>3, <1>5 DEF Abstract!Ungetc
<1> QED BY <1>1, <1>3, <1>6

\* The value that these calls return tells whether they succeeded.
LEMMA CodeIs ==
  ASSUME NEW op, op \notin {"read_line", "getc", "ungetc"}, NEW r
  PROVE  ReturnCode(op, r) = 0 <=> r.err = "ok"
<1>1. op # "read_line" /\ ~(op = "getc" /\ r.err = "ok" /\ r.n = 1) /\ ~(op = "ungetc" /\ r.n = 1)
  OBVIOUS
<1>2. ReturnCode(op, r) = IF r.err = "ok" THEN 0 ELSE -1
  BY <1>1 DEF ReturnCode
<1>3. -1 # 0
  OBVIOUS
<1> QED BY <1>2, <1>3

\* gpgrt_write.
LEMMA WriteRefines ==
  ASSUME SInv, Whole, Whole', NEW w \in Strings, Write(w)
  PROVE  Within' /\ Abstract!Write
<1> DEFINE O == {Recorded(s, w, r) : r \in es_writen(s, w)}
<1>1. Call("write", w, O)
  BY DEF Write, Recorded
<1>2. w \in Bytes /\ w # <<>>
  <2>1. PICK n \in 1..MaxIO : w \in [1..n -> Byte]
    BY DEF Strings
  <2>2. n \in Nat /\ n # 0
    BY <2>1, Constants
  <2>3. w \in Bytes /\ Len(w) = n
    BY <2>1, <2>2 DEF Bytes
  <2> QED BY <2>2, <2>3, NoBytes
<1>3. Steady(s) /\ \E q \in O :
        /\ q.s.data_flushed = 0
        /\ ret'.op = "write" /\ ret'.arg = w /\ ret'.rc = ReturnCode("write", q)
        /\ ret'.errno = q.err /\ ret'.bytes = q.got
        /\ LogicalData(s)' = LogicalData(q.s) /\ LogicalPos(s)' = LogicalPos(q.s)
        /\ (s.unread)' = q.s.unread
        /\ Steady(q.s) \/ q.s.status # "open" => Within'
  <2> HIDE DEF O
  <2> QED BY <1>1, CallShows
<1>4. PICK r \in es_writen(s, w) :
        LET q == Recorded(s, w, r) IN
        /\ q.s.data_flushed = 0
        /\ ret'.op = "write" /\ ret'.arg = w /\ ret'.rc = ReturnCode("write", q)
        /\ ret'.errno = q.err /\ ret'.bytes = q.got
        /\ LogicalData(s)' = LogicalData(q.s) /\ LogicalPos(s)' = LogicalPos(q.s)
        /\ (s.unread)' = q.s.unread
        /\ Steady(q.s) \/ q.s.status # "open" => Within'
  BY <1>3
<1> DEFINE q == Recorded(s, w, r)
           g == SubSeq(w, 1, r.n)
<1>5. q.s = r.s /\ q.err = r.err /\ q.n = r.n /\ q.got = g
  BY <1>2, <1>3, RecordedShows
<1>6. ReturnCode("write", q) = 0 <=> q.err = "ok"
  BY CodeIs
<1> HIDE DEF q
<1>7. /\ r.s.data_flushed = 0
      /\ ret'.op = "write" /\ ret'.arg = w /\ (ret'.rc = 0 <=> r.err = "ok")
      /\ ret'.bytes = g
      /\ LogicalData(s)' = LogicalData(r.s) /\ LogicalPos(s)' = LogicalPos(r.s)
      /\ (s.unread)' = r.s.unread
      /\ Steady(r.s) \/ r.s.status # "open" => Within'
  BY <1>4, <1>5, <1>6 DEF q
<1>8. Entered(s, w, r)
  BY <1>2, <1>3, <1>7, WritenShows
<1>9. r.n \in Nat /\ r.n <= Len(w) /\ Len(w) \in Nat
  BY <1>2, <1>8 DEF Entered, Bytes
<1>10. g \in Bytes /\ Len(g) = r.n
  BY <1>2, <1>9, Front
<1>11. g = w <=> r.n = Len(w)
  <2>1. r.n = Len(w) => g = w
    BY <1>2 DEF Bytes
  <2> QED BY <1>10, <2>1
<1>12. g = SubSeq(w, 1, Len(g))
  BY <1>10
<1>13. PICK start \in Nat :
        /\ \/ start = LogicalPos(s) /\ r.s.unread = s.unread
           \/ start = LogicalPos(s) - Len(s.unread) /\ r.s.unread = <<>>
        /\ LogicalData(r.s) = Overlay(LogicalData(s), start, g)
        /\ LogicalPos(r.s) = start + r.n
  BY <1>8 DEF Entered
<1> HIDE DEF g
<1>14. (s.unread)' = IF start = LogicalPos(s) THEN s.unread ELSE <<>>
  <2>1. s.unread \in Bytes /\ Len(s.unread) \in Nat /\ LogicalPos(s) \in Nat
    BY <1>3, SteadyIs
  <2>2. CASE start = LogicalPos(s) /\ r.s.unread = s.unread
    BY <1>7, <2>2
  <2>3. CASE start = LogicalPos(s) - Len(s.unread) /\ r.s.unread = <<>>
    <3>1. start = LogicalPos(s) => Len(s.unread) = 0
      <4> DEFINE p == LogicalPos(s)
                 l == Len(s.unread)
      <4>1. p \in Nat /\ l \in Nat /\ start = p - l
        BY <2>1, <2>3
      <4> HIDE DEF p, l
      <4>2. start = p => l = 0
        BY <4>1
      <4> QED BY <4>2 DEF p, l
    <3>2. Len(s.unread) = 0 => s.unread = <<>>
      BY <2>1 DEF Bytes
    <3> QED BY <1>7, <2>3, <3>1, <3>2
  <2> QED BY <1>13, <2>2, <2>3
<1>15. /\ start \in {LogicalPos(s), LogicalPos(s) - Len(s.unread)} /\ start >= 0
       /\ LogicalData(s)' = Overlay(LogicalData(s), start, ret'.bytes)
       /\ LogicalPos(s)' = start + Len(ret'.bytes)
  BY <1>7, <1>10, <1>13
<1>16. ret'.bytes = SubSeq(ret'.arg, 1, Len(ret'.bytes)) /\ (ret'.rc = 0 <=> ret'.bytes = ret'.arg)
  BY <1>7, <1>8, <1>11, <1>12 DEF Entered
<1>17. Abstract!Write
  BY <1>7, <1>14, <1>15, <1>16, Seen DEF Abstract!Write
<1> QED BY <1>7, <1>8, <1>17 DEF Entered

\* gpgrt_fseeko and gpgrt_rewind.
LEMMA SeekRefines ==
  ASSUME SInv, Whole, Whole', NEW op \in {"seek", "rewind"},
         NEW whence \in {"SEEK_SET", "SEEK_CUR", "SEEK_END"}, NEW o \in Int, NEW q, NEW r \in es_seek(s, whence, o),
         Steady(s), Steady(r.s) => Steady(q.s) /\ Alike(r.s, q.s),
         r.s.data_flushed = 0, q.err = r.err,
         ret'.op = op, ret'.arg = <<whence, o>>, ret'.rc = ReturnCode(op, q),
         LogicalData(s)' = LogicalData(q.s), LogicalPos(s)' = LogicalPos(q.s), (s.unread)' = q.s.unread,
         Steady(q.s) \/ q.s.status # "open" => Within'
  PROVE  Within' /\ Abstract!Seek
<1>1. /\ Steady(r.s) /\ LogicalData(r.s) = LogicalData(s)
      /\ r.err = "ok" => /\ LogicalPos(r.s) = Aim(s, whence, o) /\ r.s.unread = <<>>
      /\ r.err # "ok" => Alike(s, r.s)
  BY SeekShows
<1>2. Steady(q.s) /\ Alike(r.s, q.s)
  BY <1>1
<1>3. ret'.rc = 0 <=> r.err = "ok"
  BY CodeIs
<1>4. ret'.arg[1] = whence /\ ret'.arg[2] = o
  OBVIOUS
<1>5. Abstract!Goal = Aim(s, whence, o)
  BY <1>4 DEF Abstract!Goal, Aim
<1>6. LogicalData(s)' = LogicalData(s)
  BY <1>1, <1>2 DEF Alike
<1>7. ret'.rc = 0 => LogicalPos(s)' = Abstract!Goal /\ (s.unread)' = <<>>
  BY <1>1, <1>2, <1>3, <1>5 DEF Alike
<1>8. ret'.rc # 0 => LogicalPos(s)' = LogicalPos(s) /\ (s.unread)' = s.unread
  BY <1>1, <1>2, <1>3 DEF Alike
<1>9. Abstract!Seek
  BY <1>6, <1>7, <1>8 DEF Abstract!Seek
<1> QED BY <1>2, <1>9

\* gpgrt_fflush and gpgrt_setvbuf.
LEMMA FlushRefines ==
  ASSUME SInv, Whole, Whole', NEW op \in {"fflush", "setvbuf"}, NEW r, Steady(s), Skipped(s, r.s), Steady(r.s),
         ret'.op = op, LogicalData(s)' = LogicalData(r.s), LogicalPos(s)' = LogicalPos(r.s),
         (s.unread)' = r.s.unread, Steady(r.s) \/ r.s.status # "open" => Within'
  PROVE  Within' /\ Abstract!Flush
<1>1. LogicalData(s)' = LogicalData(s)
  BY DEF Skipped, Alike
<1>2. \/ LogicalPos(s)' = LogicalPos(s) /\ (s.unread)' = s.unread
      \/ (s.unread)' = <<>> /\ LogicalPos(s)' \in LogicalPos(s)..(LogicalPos(s) + Ahead(s))
  BY DEF Skipped, Alike
<1>3. Abstract!Flush
  BY <1>1, <1>2, Seen DEF Abstract!Flush
<1> QED BY <1>3

\* gpgrt_pending, gpgrt_clearerr and gpgrt_fclose.
LEMMA NeutralRefines ==
  ASSUME NEW op \in {"pending", "clearerr", "fclose"}, NEW r, Alike(s, r.s), ret'.op = op,
         LogicalData(s)' = LogicalData(r.s), LogicalPos(s)' = LogicalPos(r.s), (s.unread)' = r.s.unread
  PROVE  Abstract!Neutral
<1>1. LogicalData(s)' = LogicalData(s) /\ LogicalPos(s)' = LogicalPos(s) /\ (s.unread)' = s.unread
  BY DEF Alike
<1> QED BY <1>1 DEF Abstract!Neutral

\* Every step is one of ByteStream, or is not seen.
LEMMA StepRefines ==
  ASSUME SInv, Whole, Whole', [Next]_vars
  PROVE  Within' /\ [Abstract!Next]_(Abstract!vars)
<1>0. MaxIO \in Nat
  BY Constants
<1>1. CASE UNCHANGED vars
  <2>1. s' = s /\ ret' = ret
    BY <1>1 DEF vars
  <2>2. LogicalData(s)' = LogicalData(s) /\ LogicalPos(s)' = LogicalPos(s) /\ (s.unread)' = s.unread
    BY <2>1, Primed
  <2>3. Within'
    BY <2>1 DEF SInv, Within
  <2> QED BY <2>1, <2>2, <2>3 DEF Abstract!vars
<1>2. CASE \E n \in 1..MaxIO : Read(n)
  <2>1. PICK n \in 1..MaxIO : Call("read", <<n>>, es_readn(s, n))
    BY <1>2 DEF Read
  <2>2. n \in Nat
    BY <1>0
  <2>3. Within' /\ Abstract!Read
    BY <2>1, <2>2, ReadRefines
  <2> QED BY <2>3 DEF Abstract!Next
<1>3. CASE Getc
  <2>1. Call("getc", <<1>>, es_readn(s, 1))
    BY <1>3 DEF Getc
  <2>2. Within' /\ Abstract!Read
    BY <2>1, ReadRefines
  <2> QED BY <2>2 DEF Abstract!Next
<1>4. CASE GetLine
  <2>1. Within' /\ Abstract!GetLine
    BY <1>4, GetLineRefines
  <2> QED BY <2>1 DEF Abstract!Next
<1>5. CASE ReadLine
  <2>1. Within' /\ Abstract!ReadLine
    BY <1>5, ReadLineRefines
  <2> QED BY <2>1 DEF Abstract!Next
<1>6. CASE \E c \in Byte : Ungetc(c)
  <2>1. Within' /\ Abstract!Ungetc
    BY <1>6, UngetcRefines
  <2> QED BY <2>1 DEF Abstract!Next
<1>7. CASE \E w \in Strings : Write(w)
  <2>1. Within' /\ Abstract!Write
    BY <1>7, WriteRefines
  <2> QED BY <2>1 DEF Abstract!Next
<1>8. CASE \E whence \in {"SEEK_SET", "SEEK_CUR", "SEEK_END"}, o \in Offsets : Seek(whence, o)
  <2>1. PICK whence \in {"SEEK_SET", "SEEK_CUR", "SEEK_END"}, o \in Offsets :
          Call("seek", <<whence, o>>, es_seek(s, whence, o))
    BY <1>8 DEF Seek
  <2>2. o \in Int
    BY Constants
  <2>3. PICK r \in es_seek(s, whence, o) :
          /\ r.s.data_flushed = 0
          /\ ret'.op = "seek" /\ ret'.arg = <<whence, o>> /\ ret'.rc = ReturnCode("seek", r)
          /\ LogicalData(s)' = LogicalData(r.s) /\ LogicalPos(s)' = LogicalPos(r.s)
          /\ (s.unread)' = r.s.unread
          /\ Steady(r.s) \/ r.s.status # "open" => Within'
    BY <2>1, CallShows
  <2>4. Steady(s) /\ (Steady(r.s) => Steady(r.s) /\ Alike(r.s, r.s))
    BY <2>1, CallShows DEF Alike
  <2>5. Within' /\ Abstract!Seek
    BY <2>2, <2>3, <2>4, SeekRefines
  <2> QED BY <2>5 DEF Abstract!Next
<1>9. CASE Rewind
  <2> DEFINE O == {WithErr(r, FALSE) : r \in es_seek(s, "SEEK_SET", 0)}
  <2>1. Call("rewind", <<"SEEK_SET", 0>>, O)
    BY <1>9 DEF Rewind, WithErr
  <2>2. Steady(s) /\ \E q \in O :
          /\ q.s.data_flushed = 0
          /\ ret'.op = "rewind" /\ ret'.arg = <<"SEEK_SET", 0>> /\ ret'.rc = ReturnCode("rewind", q)
          /\ LogicalData(s)' = LogicalData(q.s) /\ LogicalPos(s)' = LogicalPos(q.s)
          /\ (s.unread)' = q.s.unread
          /\ Steady(q.s) \/ q.s.status # "open" => Within'
    <3> HIDE DEF O
    <3> QED BY <2>1, CallShows
  <2>3. PICK r \in es_seek(s, "SEEK_SET", 0) :
          LET q == WithErr(r, FALSE) IN
          /\ q.s.data_flushed = 0
          /\ ret'.op = "rewind" /\ ret'.arg = <<"SEEK_SET", 0>> /\ ret'.rc = ReturnCode("rewind", q)
          /\ LogicalData(s)' = LogicalData(q.s) /\ LogicalPos(s)' = LogicalPos(q.s)
          /\ (s.unread)' = q.s.unread
          /\ Steady(q.s) \/ q.s.status # "open" => Within'
    BY <2>2
  <2> DEFINE q == WithErr(r, FALSE)
  <2>4. r \in OutcomeType
    <3>1. Usable(s)
      BY <2>2, SteadyIs
    <3> QED BY <3>1, SeekOk DEF Harmless, GoodOutcome
  <2>5. q.s.data_flushed = r.s.data_flushed /\ q.err = r.err
    BY <2>4 DEF WithErr, OutcomeType, StreamType
  <2>6. Steady(r.s) => Steady(q.s) /\ Alike(r.s, q.s)
    BY <2>2, <2>3, <2>5, RewindShows
  <2> HIDE DEF q
  <2>7. /\ r.s.data_flushed = 0
        /\ ret'.op = "rewind" /\ ret'.arg = <<"SEEK_SET", 0>> /\ ret'.rc = ReturnCode("rewind", q)
        /\ LogicalData(s)' = LogicalData(q.s) /\ LogicalPos(s)' = LogicalPos(q.s)
        /\ (s.unread)' = q.s.unread
        /\ Steady(q.s) \/ q.s.status # "open" => Within'
    BY <2>3, <2>5 DEF q
  <2>8. Within' /\ Abstract!Seek
    BY <2>2, <2>5, <2>6, <2>7, SeekRefines
  <2> QED BY <2>8 DEF Abstract!Next
<1>10. CASE Fflush
  <2>1. PICK r \in do_fflush(s) :
          /\ r.s.data_flushed = 0 /\ ret'.op = "fflush"
          /\ LogicalData(s)' = LogicalData(r.s) /\ LogicalPos(s)' = LogicalPos(r.s)
          /\ (s.unread)' = r.s.unread
          /\ Steady(r.s) \/ r.s.status # "open" => Within'
    BY <1>10, CallShows DEF Fflush
  <2>2. Steady(s)
    BY <1>10, CallShows DEF Fflush
  <2>3. Skipped(s, r.s) /\ Steady(r.s)
    BY <2>1, <2>2, FflushShows
  <2>4. Within' /\ Abstract!Flush
    BY <2>1, <2>2, <2>3, FlushRefines
  <2> QED BY <2>4 DEF Abstract!Next
<1>11. CASE \E strategy \in Strategy, size \in Sizes : Setvbuf(strategy, size)
  <2>1. PICK strategy \in Strategy, size \in Sizes : Call("setvbuf", <<>>, es_set_buffering(s, strategy, size))
    BY <1>11 DEF Setvbuf
  <2>2. PICK r \in es_set_buffering(s, strategy, size) :
          /\ r.s.data_flushed = 0 /\ ret'.op = "setvbuf"
          /\ LogicalData(s)' = LogicalData(r.s) /\ LogicalPos(s)' = LogicalPos(r.s)
          /\ (s.unread)' = r.s.unread
          /\ Steady(r.s) \/ r.s.status # "open" => Within'
    BY <2>1, CallShows
  <2>3. Steady(s)
    BY <2>1, CallShows
  <2>4. Skipped(s, r.s) /\ Steady(r.s)
    BY <2>2, <2>3, SetBufferingShows
  <2>5. Within' /\ Abstract!Flush
    BY <2>2, <2>3, <2>4, FlushRefines
  <2> QED BY <2>5 DEF Abstract!Next
<1>12. CASE IsPending
  <2>1. PICK r \in check_pending(s) :
          /\ r.s.data_flushed = 0 /\ ret'.op = "pending"
          /\ LogicalData(s)' = LogicalData(r.s) /\ LogicalPos(s)' = LogicalPos(r.s)
          /\ (s.unread)' = r.s.unread
          /\ Steady(r.s) \/ r.s.status # "open" => Within'
    BY <1>12, CallShows DEF IsPending
  <2>2. Steady(s)
    BY <1>12, CallShows DEF IsPending
  <2>3. PICK f \in ToReading(s) : r = Wrote(f.s, 0, "ok")
    BY DEF check_pending
  <2>4. r.s = f.s
    BY <2>3 DEF Wrote
  <2>5. Alike(s, r.s) /\ Steady(r.s)
    BY <2>1, <2>2, <2>4, ToReadingShows
  <2>6. Abstract!Neutral
    BY <2>1, <2>5, NeutralRefines
  <2> QED BY <2>1, <2>5, <2>6 DEF Abstract!Next
<1>13. CASE Clearerr
  <2> DEFINE u == [s EXCEPT !.eof = FALSE, !.err = FALSE]
  <2>1. Steady(s) /\ \E r \in {Done(u)} :
          /\ ret'.op = "clearerr"
          /\ LogicalData(s)' = LogicalData(r.s) /\ LogicalPos(s)' = LogicalPos(r.s)
          /\ (s.unread)' = r.s.unread
          /\ Steady(r.s) \/ r.s.status # "open" => Within'
    <3>1. Call("clearerr", <<>>, {Done(u)})
      BY <1>13 DEF Clearerr
    <3> HIDE DEF u
    <3> QED BY <3>1, CallShows
  <2>2. Steady(u) /\ Alike(s, u)
    BY <2>1, MarkedShows
  <2> HIDE DEF u
  <2>3. Done(u).s = u
    BY DEF Done, Fail
  <2>4. Abstract!Neutral
    BY <2>1, <2>2, <2>3, NeutralRefines
  <2> QED BY <2>1, <2>2, <2>3, <2>4 DEF Abstract!Next
<1>14. CASE Fclose
  <2>1. PICK r \in do_close(s, FALSE) :
          /\ r.s.data_flushed = 0 /\ ret'.op = "fclose"
          /\ LogicalData(s)' = LogicalData(r.s) /\ LogicalPos(s)' = LogicalPos(r.s)
          /\ (s.unread)' = r.s.unread
          /\ Steady(r.s) \/ r.s.status # "open" => Within'
    BY <1>14, CallShows, ZenonT(60) DEF Fclose
  <2>2. Steady(s)
    BY <1>14, CallShows DEF Fclose
  <2>3. Alike(s, r.s) /\ r.s.status = "closed"
    BY <2>1, <2>2, CloseShows
  <2>4. Abstract!Neutral
    BY <2>1, <2>3, NeutralRefines
  <2> QED BY <2>1, <2>3, <2>4 DEF Abstract!Next
<1>15. CASE Fcancel
  <2>1. PICK r \in do_close(s, TRUE) :
          /\ ret'.op = "fcancel"
          /\ LogicalData(s)' = LogicalData(r.s) /\ LogicalPos(s)' = LogicalPos(r.s)
          /\ (s.unread)' = r.s.unread
          /\ Steady(r.s) \/ r.s.status # "open" => Within'
    BY <1>15, CallShows, ZenonT(60) DEF Fcancel
  <2>2. Steady(s)
    BY <1>15, CallShows DEF Fcancel
  <2>3. LogicalData(r.s) \in Bytes /\ LogicalPos(r.s) \in Nat /\ r.s.unread = <<>> /\ r.s.status = "closed"
    BY <2>2, CancelShows
  <2>4. Abstract!Cancel
    BY <2>1, <2>3 DEF Abstract!Cancel, Bytes
  <2> QED BY <2>1, <2>3, <2>4 DEF Abstract!Next
<1> QED BY <1>1, <1>2, <1>3, <1>4, <1>5, <1>6, <1>7, <1>8, <1>9, <1>10, <1>11, <1>12, <1>13, <1>14, <1>15
       DEF Next

\* A stream just opened shows the file it was opened on.
LEMMA OpenShows ==
  ASSUME Init
  PROVE  SInv /\ (Whole => Abstract!Init)
<1>1. IInv
  BY OpenedKeeps
<1>2. PICK b \in Backends, f \in Files, size \in Sizes : s = init_stream_obj(mode, b, f, size)
  BY DEF Init
<1>3. s.data_len = 0 /\ s.data_offset = 0 /\ s.unread = <<>> /\ s.buf = <<>> /\ s.fpos = 0 /\ s.file = f /\ f \in Bytes
  BY <1>2, Constants DEF init_stream_obj
<1>4. Within
  BY <1>3 DEF Within
<1>5. LogicalData(s) = f /\ LogicalPos(s) = 0
  <2>1. s \in StreamType
    BY <1>1 DEF IInv, Good, Formed
  <2>2. CASE s.writing
    BY <1>3, <2>1, <2>2, NoBytes, WriterShows
  <2>3. CASE ~s.writing
    BY <1>3, <2>3 DEF LogicalData, LogicalPos, Pending, Overlay
  <2> QED BY <2>2, <2>3
<1>6. Abstract!Init
  BY <1>3, <1>5 DEF Abstract!Init, Init, Bytes
<1> QED BY <1>1, <1>4, <1>6 DEF SInv

\* Over a file, and as long as no flush is left half done, the buffer, the read ahead, the
\* bytes pushed back and the changes of direction of es_readn, es_writen, es_seek,
\* flush_stream, es_set_buffering and do_close are invisible: every sequence of calls, and
\* of failures of the backend in them, is one of a file of bytes with a position.
THEOREM StreamShowsFile ==
  Spec /\ [](s.backend = "file" /\ s.data_flushed = 0) => ImplementsByteStream
<1>1. Init => SInv /\ (Whole => Abstract!Init)
  BY OpenShows
<1>2. SInv /\ Whole /\ Whole' /\ [Next]_vars => SInv' /\ [Abstract!Next]_(Abstract!vars)
  <2>1. SUFFICES ASSUME SInv, Whole, Whole', [Next]_vars
                 PROVE  SInv' /\ [Abstract!Next]_(Abstract!vars)
    OBVIOUS
  <2>2. IInv'
    BY <2>1, StepKeeps DEF SInv
  <2> QED BY <2>1, <2>2, StepRefines DEF SInv
<1>3. Spec /\ []Whole => ImplementsByteStream
  BY <1>1, <1>2, PTL DEF Spec, ImplementsByteStream, Abstract!Spec
<1> QED BY <1>3 DEF Whole
=============================================================================
