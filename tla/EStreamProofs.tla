---------------------------- MODULE EStreamProofs -----------------------------
(***************************************************************************)
(* For every file, buffer size, kind of backend and length of call, and    *)
(* whatever fails: the position of a stream is exact, a reader's buffer    *)
(* mirrors the backend, a backend that cannot seek gets each byte once or  *)
(* counted, a close that succeeds has delivered all, and a failed read     *)
(* tells why.                                                              *)
(*                                                                         *)
(* IInv is the inductive invariant.  Good is its part about one stream,    *)
(* Delivered its part about what was accepted and sent.  The operators of  *)
(* EStream go from a stream to its outcomes, so each has a lemma that says *)
(* what every outcome of it promises, and a call cites the lemma of its    *)
(* operator.  The recursive function Found is reached by a least           *)
(* counterexample (Induction).                                             *)
(***************************************************************************)
EXTENDS MCEStream, SequenceTheorems, WellFoundedInduction, TLAPS

Bytes == Seq(Byte)

\* What is assumed of the constants.
LEMMA Constants ==
  /\ NL \in Byte /\ Zero \in Byte /\ Files \subseteq Bytes /\ Sizes \subseteq Nat \ {0}
  /\ UnreadSize \in Nat /\ MaxResend \in Nat /\ Faults \subseteq {"EAGAIN", "EIO", "EPIPE"}
  /\ Modes \subseteq {"r", "w", "r+"} /\ Backends \subseteq {"file", "pipe", "noseek"}
  /\ Offsets \subseteq Int /\ MaxIO \in Nat
  BY ConstantsAssumption DEF Bytes

-----------------------------------------------------------------------------
(* Sequences of bytes. *)

\* A part of a string, and its length.
LEMMA Part ==
  ASSUME NEW q \in Bytes, NEW a \in Nat, NEW b \in Int, b <= Len(q)
  PROVE  /\ SubSeq(q, a + 1, b) \in Bytes
         /\ Len(SubSeq(q, a + 1, b)) = IF a < b THEN b - a ELSE 0
<1>1. \A i \in (a + 1)..b : q[i] \in Byte
  BY DEF Bytes
<1>2. a + 1 \in Int
  OBVIOUS
<1>3. /\ SubSeq(q, a + 1, b) \in Bytes
      /\ Len(SubSeq(q, a + 1, b)) = IF a + 1 <= b THEN b - (a + 1) + 1 ELSE 0
  BY <1>1, <1>2, SubSeqProperties DEF Bytes
<1> QED BY <1>3

\* The first n bytes of a string.
LEMMA Front ==
  ASSUME NEW q \in Bytes, NEW n \in Nat, n <= Len(q)
  PROVE  SubSeq(q, 1, n) \in Bytes /\ Len(SubSeq(q, 1, n)) = n
<1>1. 0 \in Nat /\ n \in Int /\ 0 + 1 = 1
  OBVIOUS
<1>2. SubSeq(q, 0 + 1, n) \in Bytes /\ Len(SubSeq(q, 0 + 1, n)) = IF 0 < n THEN n - 0 ELSE 0
  BY <1>1, Part
<1> QED BY <1>2

\* Two strings, one after the other.
LEMMA Joined ==
  ASSUME NEW p \in Bytes, NEW q \in Bytes
  PROVE  p \o q \in Bytes /\ Len(p \o q) = Len(p) + Len(q) /\ Len(p) \in Nat /\ Len(q) \in Nat
  BY DEF Bytes

\* The first n bytes, or all if there are fewer.
LEMMA UptoIs ==
  ASSUME NEW q \in Bytes, NEW n \in Nat
  PROVE  Upto(q, n) \in Bytes /\ Len(Upto(q, n)) = Lesser(n, Len(q)) /\ (n = 0 => Upto(q, n) = <<>>)
<1> DEFINE m == Lesser(n, Len(q))
<1>1. Len(q) \in Nat
  BY DEF Bytes
<1>2. m \in Nat /\ m <= Len(q) /\ (n = 0 => m = 0)
  BY <1>1 DEF Lesser
<1> HIDE DEF m
<1>3. SubSeq(q, 1, m) \in Bytes /\ Len(SubSeq(q, 1, m)) = m
  BY <1>2, Front
<1>4. Upto(q, n) = SubSeq(q, 1, m)
  BY DEF Upto, m
<1>5. n = 0 => Upto(q, n) = <<>>
  BY <1>2, <1>3, <1>4 DEF Bytes
<1> QED BY <1>3, <1>4, <1>5 DEF m

\* A string after some bytes of it were overwritten.
LEMMA OverlayIs ==
  ASSUME NEW q \in Bytes, NEW p \in Nat, NEW w \in Bytes
  PROVE  /\ Overlay(q, p, w) \in Bytes
         /\ Len(Overlay(q, p, w)) = IF w = <<>> THEN Len(q) ELSE Larger(Len(q), p + Len(w))
<1>1. CASE w = <<>>
  BY <1>1 DEF Overlay
<1>2. CASE w # <<>>
  <2> DEFINE n == Larger(Len(q), p + Len(w))
             at(i) == IF i > p /\ i <= p + Len(w) THEN w[i - p]
                      ELSE IF i <= Len(q) THEN q[i] ELSE Zero
  <2>1. n \in Nat /\ Len(q) \in Nat /\ Len(w) \in Nat
    BY DEF Larger, Bytes
  <2>2. ASSUME NEW i \in 1..n PROVE at(i) \in Byte
    <3>1. CASE i > p /\ i <= p + Len(w)
      <4>1. i - p \in 1..Len(w)
        BY <2>1, <3>1
      <4>2. w[i - p] \in Byte
        BY <4>1 DEF Bytes
      <4> QED BY <3>1, <4>2
    <3>2. CASE ~(i > p /\ i <= p + Len(w)) /\ i <= Len(q)
      <4>1. q[i] \in Byte
        BY <2>1, <3>2 DEF Bytes
      <4> QED BY <3>2, <4>1
    <3>3. CASE ~(i > p /\ i <= p + Len(w)) /\ ~(i <= Len(q))
      BY <3>3, Constants
    <3> QED BY <3>1, <3>2, <3>3
  <2>3. Overlay(q, p, w) = [i \in 1..n |-> at(i)]
    BY <1>2 DEF Overlay
  <2> HIDE DEF n, at
  <2>4. [i \in 1..n |-> at(i)] \in Bytes /\ Len([i \in 1..n |-> at(i)]) = n
    BY <2>1, <2>2 DEF Bytes
  <2> QED BY <1>2, <2>3, <2>4 DEF n
<1> QED BY <1>1, <1>2

-----------------------------------------------------------------------------
(***************************************************************************)
(* Induction over numbers, for a set instead of a predicate.               *)
(***************************************************************************)
LEMMA Least ==
  ASSUME NEW T, T \subseteq Nat, T # {}
  PROVE  \E x \in T : \A y \in T : x <= y
<1> DEFINE R == OpToRel(<, Nat)
<1>1. PICK x \in T : \A y \in T : ~(<<y, x>> \in R)
  <2>1. IsWellFoundedOn(R, Nat)
    BY NatLessThanWellFounded
  <2> HIDE DEF R
  <2> QED BY <2>1, WFMin
<1>2. ASSUME NEW y \in T PROVE x <= y
  <2>1. ~(<<y, x>> \in OpToRel(<, Nat))
    BY <1>1
  <2>2. ~(y < x)
    BY <2>1 DEF OpToRel
  <2> QED BY <2>2
<1> QED BY <1>2

\* Induction over the numbers up to N, by the least number that is not in the set.
LEMMA Induction ==
  ASSUME NEW T, 0 \in T, \A n \in Nat : n \in T => n + 1 \in T
  PROVE  \A n \in Nat : n \in T
<1> DEFINE Out == {n \in Nat : n \notin T}
<1>1. SUFFICES ASSUME Out # {} PROVE FALSE
  OBVIOUS
<1>2. PICK x \in Out : \A y \in Out : x <= y
  <2>1. Out \subseteq Nat
    OBVIOUS
  <2> HIDE DEF Out
  <2> QED BY <1>1, <2>1, Least
<1>3. x \in Nat /\ x # 0 /\ x \notin T
  BY <1>2
<1>4. x - 1 \in Nat /\ ~(x <= x - 1) /\ (x - 1) + 1 = x
  BY <1>3
<1>5. x - 1 \notin Out
  BY <1>2, <1>4
<1>6. x - 1 \in T
  BY <1>4, <1>5
<1> QED BY <1>3, <1>4, <1>6

-----------------------------------------------------------------------------
(***************************************************************************)
(* A sequence that another one contains, with further elements in between: *)
(* what Found looks for, and always finds.                                 *)
(***************************************************************************)
Embedding(a, b, e) ==
  /\ e \in [1..Len(a) -> 1..Len(b)]
  /\ \A i, j \in 1..Len(a) : i < j => e[i] < e[j]
  /\ \A i \in 1..Len(a) : a[i] = b[e[i]]
Embeds(a, b) == \E e \in [1..Len(a) -> 1..Len(b)] : Embedding(a, b, e)

\* A string is found in itself.
LEMMA EmbedsSelf == ASSUME NEW a \in Bytes PROVE Embeds(a, a)
<1> DEFINE e == [i \in 1..Len(a) |-> i]
<1>1. Len(a) \in Nat
  BY DEF Bytes
<1>2. Embedding(a, a, e)
  BY <1>1 DEF Embedding
<1> QED BY <1>2 DEF Embeds, Embedding

\* What is found in a string is found where that string is found.
LEMMA EmbedsTrans ==
  ASSUME NEW a \in Bytes, NEW b \in Bytes, NEW c \in Bytes, Embeds(a, b), Embeds(b, c)
  PROVE  Embeds(a, c)
<1>1. PICK e : Embedding(a, b, e)
  BY DEF Embeds
<1>2. PICK f : Embedding(b, c, f)
  BY DEF Embeds
<1> DEFINE g == [i \in 1..Len(a) |-> f[e[i]]]
<1>3. Len(a) \in Nat /\ Len(b) \in Nat /\ Len(c) \in Nat
  BY DEF Bytes
<1>4. \A i \in 1..Len(a) : e[i] \in 1..Len(b) /\ f[e[i]] \in 1..Len(c) /\ a[i] = c[f[e[i]]]
  BY <1>1, <1>2 DEF Embedding
<1>5. \A i, j \in 1..Len(a) : i < j => f[e[i]] < f[e[j]]
  BY <1>1, <1>2, <1>4 DEF Embedding
<1>6. Embedding(a, c, g)
  BY <1>4, <1>5 DEF Embedding
<1> QED BY <1>6 DEF Embeds, Embedding

\* The same bytes may be added to both.
LEMMA EmbedsJoined ==
  ASSUME NEW a \in Bytes, NEW b \in Bytes, NEW c \in Bytes, Embeds(a, b)
  PROVE  Embeds(a \o c, b \o c)
<1>1. PICK e : Embedding(a, b, e)
  BY DEF Embeds
<1> DEFINE A == a \o c
           B == b \o c
           la == Len(a)
           lb == Len(b)
           g == [i \in 1..Len(A) |-> IF i <= la THEN e[i] ELSE i - la + lb]
<1>2. la \in Nat /\ lb \in Nat /\ Len(c) \in Nat /\ Len(A) = la + Len(c) /\ Len(B) = lb + Len(c)
  BY DEF Bytes
<1>3. /\ \A i \in 1..Len(A) : A[i] = IF i <= la THEN a[i] ELSE c[i - la]
      /\ \A i \in 1..Len(B) : B[i] = IF i <= lb THEN b[i] ELSE c[i - lb]
  BY DEF Bytes
<1>4. \A i \in 1..la : e[i] \in 1..lb /\ a[i] = b[e[i]]
  BY <1>1 DEF Embedding
<1>5. \A i, j \in 1..la : i < j => e[i] < e[j]
  BY <1>1 DEF Embedding
<1> HIDE DEF A, B, la, lb
<1>6. g \in [1..Len(A) -> 1..Len(B)]
  BY <1>2, <1>4
<1>7. \A i, j \in 1..Len(A) : i < j => g[i] < g[j]
  <2> SUFFICES ASSUME NEW i \in 1..Len(A), NEW j \in 1..Len(A), i < j PROVE g[i] < g[j]
    OBVIOUS
  <2>1. CASE j <= la
    BY <2>1, <1>2, <1>5
  <2>2. CASE i <= la /\ ~(j <= la)
    <3>1. e[i] \in 1..lb /\ g[i] = e[i] /\ g[j] = j - la + lb
      BY <2>2, <1>2, <1>4
    <3> QED BY <2>2, <3>1, <1>2
  <2>3. CASE ~(i <= la)
    BY <2>3, <1>2
  <2> QED BY <2>1, <2>2, <2>3
<1>8. \A i \in 1..Len(A) : A[i] = B[g[i]]
  <2> SUFFICES ASSUME NEW i \in 1..Len(A) PROVE A[i] = B[g[i]]
    OBVIOUS
  <2>1. CASE i <= la
    <3>1. i \in 1..la
      BY <2>1, <1>2
    <3>2. g[i] = e[i] /\ e[i] \in 1..lb /\ e[i] \in 1..Len(B) /\ a[i] = b[e[i]]
      BY <2>1, <3>1, <1>2, <1>4
    <3>3. B[e[i]] = b[e[i]]
      BY <3>2, <1>2, <1>3
    <3> QED BY <2>1, <3>2, <3>3, <1>3
  <2>2. CASE ~(i <= la)
    <3>1. g[i] = i - la + lb /\ i - la + lb \in 1..Len(B) /\ ~(i - la + lb <= lb)
          /\ (i - la + lb) - lb = i - la
      BY <2>2, <1>2
    <3> QED BY <2>2, <3>1, <1>3
  <2> QED BY <2>1, <2>2
<1>9. Embedding(A, B, g)
  BY <1>6, <1>7, <1>8 DEF Embedding
<1>10. Embeds(A, B)
  BY <1>6, <1>9 DEF Embeds
<1> QED BY <1>10 DEF A, B

\* A string is found in any that begins with it.
LEMMA EmbedsLonger ==
  ASSUME NEW a \in Bytes, NEW b \in Bytes
  PROVE  Embeds(a, a \o b)
<1> DEFINE B == a \o b
           e == [i \in 1..Len(a) |-> i]
<1>1. Len(a) \in Nat /\ Len(b) \in Nat /\ Len(B) = Len(a) + Len(b)
  BY DEF Bytes
<1>2. \A i \in 1..Len(a) : B[i] = a[i]
  BY <1>1 DEF Bytes
<1> HIDE DEF B
<1>3. Embedding(a, B, e)
  BY <1>1, <1>2 DEF Embedding
<1> QED BY <1>3 DEF Embeds, Embedding, B

\* Found looks for each byte of a in turn, and takes the first one it meets.
LEMMA FoundIsFunction ==
  ASSUME NEW a \in Bytes, NEW b \in Bytes
  PROVE  \E f \in [0..Len(b) -> 0..Len(a)] :
           /\ Found(a, b) = f[Len(b)]
           /\ f[0] = 0
           /\ \A i \in 1..Len(b) :
                f[i] = IF f[i - 1] < Len(a) /\ a[f[i - 1] + 1] = b[i] THEN f[i - 1] + 1 ELSE f[i - 1]
<1> DEFINE N == Len(b)
           K == Len(a)
           Next1(x, i) == IF x < K /\ a[x + 1] = b[i] THEN x + 1 ELSE x
           Is(f, n) == /\ f \in [0..n -> 0..K] /\ f[0] = 0
                       /\ \A i \in 1..n : f[i] = Next1(f[i - 1], i)
           T == {n \in Nat : \E f \in [0..n -> 0..K] : Is(f, n)}
<1>1. N \in Nat /\ K \in Nat
  BY DEF Bytes
<1>2. 0 \in T
  <2>1. [i \in 0..0 |-> 0] \in [0..0 -> 0..K]
    BY <1>1
  <2>2. Is([i \in 0..0 |-> 0], 0)
    BY <2>1
  <2> QED BY <2>1, <2>2
<1>3. \A x \in 0..K, i \in Nat : Next1(x, i) \in 0..K
  BY <1>1
<1> HIDE DEF N, K, Next1
<1>4. ASSUME NEW n \in Nat, n \in T PROVE n + 1 \in T
  <2>1. PICK f \in [0..n -> 0..K] : Is(f, n)
    BY <1>4
  <2> DEFINE g == [i \in 0..(n + 1) |-> IF i <= n THEN f[i] ELSE Next1(f[n], n + 1)]
  <2>2. g \in [0..(n + 1) -> 0..K]
    <3>1. f[n] \in 0..K /\ n + 1 \in Nat
      BY <2>1
    <3>2. Next1(f[n], n + 1) \in 0..K
      BY <3>1, <1>3
    <3>3. \A i \in 0..(n + 1) : i <= n => i \in 0..n
      OBVIOUS
    <3>4. \A i \in 0..(n + 1) : i <= n => f[i] \in 0..K
      BY <3>3, <2>1
    <3> QED BY <3>2, <3>4
  <2>3. \A i \in 0..n : g[i] = f[i]
    OBVIOUS
  <2>4. g[n + 1] = Next1(f[n], n + 1)
    OBVIOUS
  <2> HIDE DEF g
  <2>5. ASSUME NEW i \in 1..(n + 1) PROVE g[i] = Next1(g[i - 1], i)
    <3>1. CASE i = n + 1
      <4>1. i - 1 = n /\ n \in 0..n
        BY <3>1
      <4> QED BY <3>1, <4>1, <2>3, <2>4
    <3>2. CASE i # n + 1
      <4>1. i \in 1..n /\ i \in 0..n /\ i - 1 \in 0..n
        BY <3>2
      <4> QED BY <2>1, <2>3, <4>1
    <3> QED BY <3>1, <3>2
  <2>6. g[0] = 0
    <3>1. 0 \in 0..n
      OBVIOUS
    <3> QED BY <2>1, <2>3, <3>1
  <2> QED BY <2>2, <2>5, <2>6, SMTT(60)
<1> HIDE DEF Is
<1>5. \A n \in Nat : n \in T
  <2> HIDE DEF T
  <2> QED BY <1>2, <1>4, Induction
<1>6. PICK h \in [0..N -> 0..K] : Is(h, N)
  BY <1>1, <1>5
<1> DEFINE body(f) == [i \in 0..N |-> IF i = 0 THEN 0
                                       ELSE IF f[i - 1] < K /\ a[f[i - 1] + 1] = b[i] THEN f[i - 1] + 1
                                       ELSE f[i - 1]]
           c == CHOOSE f : f = body(f)
<1>7. h = body(h)
  <2>1. \A i \in 0..N : h[i] = body(h)[i]
    <3> TAKE i \in 0..N
    <3>1. CASE i = 0
      BY <3>1, <1>6 DEF Is
    <3>2. CASE i # 0
      <4>1. i \in 1..N
        BY <1>1, <3>2
      <4> QED BY <3>2, <4>1, <1>6 DEF Is, Next1
    <3> QED BY <3>1, <3>2
  <2>2. h \in [0..N -> 0..K]
    OBVIOUS
  <2> QED BY <2>1, <2>2
<1>8. c = body(c)
  <2> HIDE DEF body
  <2> QED BY <1>7
<1>9. Found(a, b) = c[N]
  BY DEF Found, N, K
<1> HIDE DEF c
<1>10. c[0] = 0 /\ \A i \in 1..N : c[i] = Next1(c[i - 1], i)
  <2>1. 0 \in 0..N
    BY <1>1
  <2>2. c[0] = 0
    BY <1>8, <2>1
  <2>3. ASSUME NEW i \in 1..N PROVE c[i] = Next1(c[i - 1], i)
    <3>1. i \in 0..N /\ i # 0
      BY <1>1
    <3>2. c[i] = body(c)[i]
      BY <1>8
    <3> HIDE <1>8
    <3> QED BY <3>1, <3>2 DEF Next1
  <2> QED BY <2>2, <2>3
<1>11. c \in [0..N -> 0..K]
  <2> DEFINE R == {n \in Nat : n <= N => c[n] \in 0..K}
  <2>1. 0 \in R
    BY <1>1, <1>10
  <2>2. ASSUME NEW n \in Nat, n \in R PROVE n + 1 \in R
    <3>1. SUFFICES ASSUME n + 1 <= N PROVE c[n + 1] \in 0..K
      OBVIOUS
    <3>2. n <= N /\ n + 1 \in 1..N /\ (n + 1) - 1 = n
      BY <3>1, <1>1
    <3>3. c[n] \in 0..K
      BY <2>2, <3>2
    <3>4. c[n + 1] = Next1(c[n], n + 1)
      BY <3>2, <1>10
    <3>5. n + 1 \in Nat
      OBVIOUS
    <3>6. Next1(c[n], n + 1) \in 0..K
      BY <3>3, <3>5, <1>3
    <3> QED BY <3>4, <3>6
  <2>3. \A n \in Nat : n \in R
    <3> HIDE DEF R
    <3> QED BY <2>1, <2>2, Induction
  <2>4. \A n \in 0..N : c[n] \in 0..K
    BY <2>3, <1>1
  <2>5. c = [i \in 0..N |-> c[i]]
    BY <1>8
  <2> HIDE DEF body
  <2> QED BY <2>4, <2>5
<1> QED BY <1>9, <1>10, <1>11 DEF N, K, Next1

\* Looking for each byte in turn from the left finds a string wherever it is embedded:
\* the greedy search of Found is as good as any.
LEMMA FoundIsAll ==
  ASSUME NEW a \in Bytes, NEW b \in Bytes, Embeds(a, b)
  PROVE  Found(a, b) = Len(a)
<1> DEFINE N == Len(b)
           K == Len(a)
<1>1. N \in Nat /\ K \in Nat
  BY DEF Bytes
<1>2. PICK e : Embedding(a, b, e)
  BY DEF Embeds
<1>3. PICK f \in [0..N -> 0..K] :
        /\ Found(a, b) = f[N]
        /\ f[0] = 0
        /\ \A i \in 1..N :
             f[i] = IF f[i - 1] < K /\ a[f[i - 1] + 1] = b[i] THEN f[i - 1] + 1 ELSE f[i - 1]
  BY FoundIsFunction
<1>4. /\ \A i \in 1..K : e[i] \in 1..N /\ a[i] = b[e[i]]
      /\ \A i, j \in 1..K : i < j => e[i] < e[j]
  BY <1>2 DEF Embedding
<1> HIDE DEF N, K
\* After the first i bytes of b those of a that are embedded there were found.
<1> DEFINE T == {n \in Nat : n <= N => \A j \in 1..K : e[j] <= n => j <= f[n]}
<1>5. 0 \in T
  BY <1>1, <1>4
<1>6. ASSUME NEW n \in Nat, n \in T PROVE n + 1 \in T
  <2> SUFFICES ASSUME n + 1 <= N, NEW j \in 1..K, e[j] <= n + 1 PROVE j <= f[n + 1]
    OBVIOUS
  <2>1. n <= N /\ n \in 0..N /\ n + 1 \in 1..N /\ n + 1 \in 0..N /\ (n + 1) - 1 = n
    BY <1>1
  <2>2. f[n] \in 0..K /\ f[n + 1] \in 0..K
    BY <2>1
  <2>3. f[n + 1] = IF f[n] < K /\ a[f[n] + 1] = b[n + 1] THEN f[n] + 1 ELSE f[n]
    BY <2>1, <1>3
  <2>4. CASE e[j] <= n
    <3>1. j <= f[n]
      BY <2>1, <2>4, <1>6
    <3> QED BY <3>1, <2>2, <2>3
  <2>5. CASE e[j] = n + 1
    <3>1. j - 1 <= f[n]
      <4>1. CASE j = 1
        BY <4>1, <2>2
      <4>2. CASE j # 1
        <5>1. j - 1 \in 1..K /\ j - 1 < j
          BY <1>1, <4>2
        <5>2. e[j - 1] < e[j] /\ e[j - 1] \in 1..N
          BY <5>1, <1>4
        <5>3. e[j - 1] <= n
          BY <5>2, <2>5, <1>1
        <5> QED BY <5>1, <5>3, <2>1, <1>6
      <4> QED BY <4>1, <4>2
    <3>2. CASE j <= f[n]
      BY <3>2, <2>2, <2>3
    <3>3. CASE ~(j <= f[n])
      <4>1. f[n] + 1 = j /\ f[n] < K
        BY <3>1, <3>3, <2>2, <1>1
      <4>2. a[f[n] + 1] = b[n + 1]
        BY <4>1, <2>5, <1>4
      <4> QED BY <4>1, <4>2, <2>3
    <3> QED BY <3>2, <3>3
  <2>6. e[j] \in Nat
    BY <1>1, <1>4
  <2> QED BY <2>4, <2>5, <2>6
<1>7. N \in T
  <2> HIDE DEF T
  <2> QED BY <1>1, <1>5, <1>6, Induction
<1>8. f[N] \in 0..K
  BY <1>1
<1>9. K = f[N]
  <2>1. CASE K = 0
    BY <2>1, <1>8
  <2>2. CASE K # 0
    <3>1. K \in 1..K /\ e[K] <= N
      BY <2>2, <1>1, <1>4
    <3>2. K <= f[N]
      BY <3>1, <1>7, <1>1
    <3> QED BY <3>2, <1>8, <1>1
  <2> QED BY <2>1, <2>2
<1> QED BY <1>3, <1>9 DEF N, K

-----------------------------------------------------------------------------
(***************************************************************************)
(* The invariant, as predicates of a stream: the operators of EStream go    *)
(* from a stream to its outcomes.  Of a stream that has turned to writing   *)
(* on a backend it cannot seek only the first part is left.                 *)
(***************************************************************************)
Formed(t) ==
  /\ t \in StreamType
  /\ t.data_offset <= Len(t.buf)
  /\ t.strategy = "_IONBF" <=> t.buffer_size = 0
  /\ t.turned => t.backend # "file"

Bounded(t) ==
  /\ t.writing => /\ t.data_len = 0
                  /\ t.data_offset = Len(t.buf)
                  /\ t.data_offset <= t.buffer_size
  /\ ~t.writing => /\ t.data_len = Len(t.buf)
                   /\ t.data_offset <= t.data_len
                   /\ t.data_len <= t.buffer_size
                   /\ t.data_flushed = 0
  /\ Len(t.unread) <= UnreadSize
  /\ t.buffer = "none" => t.buf = <<>>

\* A reader's buffer is what the backend stands behind.
Mirrors(t) ==
  ~t.writing => /\ t.data_len <= t.fpos
                /\ t.data_len > 0 => t.buf = SubSeq(t.file, t.fpos - t.data_len + 1, t.fpos)

Counted(t) ==
  t.backend = "file" => t.fpos = t.offset + t.data_len + t.data_flushed + t.lost + t.resent

Good(t) ==
  /\ Formed(t)
  /\ t.status \in {"aborted", "overrun"} => t.turned \/ (t.status = "overrun" /\ t.buffer = "none")
  /\ t.status = "open" => Counted(t)
  /\ t.status = "open" /\ ~t.turned => Bounded(t)
  /\ ~t.turned => Mirrors(t)

\* A stream in the middle of its life.
Usable(t) == Good(t) /\ t.status = "open" /\ ~t.turned

OutcomeType == [s : StreamType, err : Errno, n : Int, got : Bytes]
GoodOutcome(r) == r \in OutcomeType /\ Good(r.s)

\* What no operation below changes but the setting of the buffering and the close.
Same(t, u) ==
  /\ u.backend = t.backend /\ u.buffer = t.buffer /\ u.buffer_size = t.buffer_size /\ u.strategy = t.strategy
  /\ u.status = t.status /\ u.accepted = t.accepted /\ (u.turned <=> t.turned)

\* Nothing is in the buffer.
Clean(t) == t.buf = <<>> /\ t.data_len = 0 /\ t.data_offset = 0 /\ t.data_flushed = 0

\* What a pipe was or will be sent, and how much of it was sent for the first time.
SentBy(t) == t.out \o Pending(t)
News(t) == Len(SentBy(t)) - (t.data_flushed + t.resent)

\* From t to u the backend was sent, or will be, the bytes w and nothing else that
\* is new, in this order.
Sends(t, w, u) ==
  t.backend # "file" =>
    /\ News(u) = News(t) + Len(w)
    /\ Embeds(SentBy(t) \o w, SentBy(u))
Keeps(t, u) == Sends(t, <<>>, u)

\* The empty string.
LEMMA NoBytes == <<>> \in Bytes /\ Len(<<>>) = 0 /\ \A q \in Bytes : q \o <<>> = q /\ <<>> \o q = q
  BY DEF Bytes

\* Joining three strings.
LEMMA Associative ==
  ASSUME NEW p \in Bytes, NEW q \in Bytes, NEW r \in Bytes
  PROVE  (p \o q) \o r = p \o (q \o r)
  BY SMTT(60) DEF Bytes

\* The types of the fields of a stream.
LEMMA Fields ==
  ASSUME NEW t \in StreamType
  PROVE  /\ t.file \in Bytes /\ t.fpos \in Nat /\ t.out \in Bytes /\ t.buf \in Bytes
         /\ t.buffer_size \in Nat /\ t.data_len \in Nat /\ t.data_offset \in Nat
         /\ t.data_flushed \in Nat /\ t.unread \in Bytes /\ t.offset \in Nat
         /\ t.lost \in Nat /\ t.resent \in Nat /\ t.accepted \in Bytes
         /\ Len(t.buf) \in Nat /\ Len(t.unread) \in Nat /\ Len(t.file) \in Nat /\ Len(t.out) \in Nat
         /\ t.writing \in BOOLEAN /\ t.turned \in BOOLEAN /\ t.err \in BOOLEAN /\ t.eof \in BOOLEAN
         /\ t.strategy \in Strategy /\ t.backend \in {"file", "pipe", "noseek"}
<1>1. t.backend \in Backends
  BY DEF StreamType
<1>2. t.backend \in {"file", "pipe", "noseek"}
  BY <1>1, Constants
<1> QED BY <1>2 DEF StreamType, Bytes

\* The types of what is pending and of what was or will be sent.
LEMMA PendingIs ==
  ASSUME NEW t \in StreamType, t.data_offset <= Len(t.buf)
  PROVE  /\ Pending(t) \in Bytes /\ SentBy(t) \in Bytes
         /\ Len(Pending(t)) = IF t.writing THEN t.data_offset ELSE 0
         /\ t.data_offset = 0 => Pending(t) = <<>>
         /\ Len(SentBy(t)) = Len(t.out) + Len(Pending(t))
         /\ News(t) \in Int
<1>1. Pending(t) \in Bytes /\ Len(Pending(t)) = IF t.writing THEN t.data_offset ELSE 0
  BY Fields, Front, NoBytes DEF Pending
<1>2. Len(Pending(t)) = 0 => Pending(t) = <<>>
  BY <1>1 DEF Bytes
<1>3. SentBy(t) \in Bytes /\ Len(SentBy(t)) = Len(t.out) + Len(Pending(t))
  BY <1>1, Fields, Joined DEF SentBy
<1>4. Len(SentBy(t)) \in Nat /\ t.data_flushed \in Nat /\ t.resent \in Nat
  BY <1>3, Fields DEF Bytes
<1> QED BY <1>1, <1>2, <1>3, <1>4, Fields DEF News

\* First a was sent, then b.
LEMMA SendsTrans ==
  ASSUME NEW t, NEW u, NEW v, Formed(t), Formed(u), Formed(v), u.backend = t.backend,
         NEW a \in Bytes, NEW b \in Bytes, Sends(t, a, u), Sends(u, b, v)
  PROVE  Sends(t, a \o b, v)
<1> SUFFICES ASSUME t.backend # "file"
             PROVE  News(v) = News(t) + Len(a \o b) /\ Embeds(SentBy(t) \o (a \o b), SentBy(v))
  BY DEF Sends
<1> DEFINE T == SentBy(t)
           U == SentBy(u)
           V == SentBy(v)
<1>1. /\ News(u) = News(t) + Len(a) /\ Embeds(T \o a, U)
      /\ News(v) = News(u) + Len(b) /\ Embeds(U \o b, V)
  BY DEF Sends
<1>2. T \in Bytes /\ U \in Bytes /\ V \in Bytes /\ News(t) \in Int /\ News(u) \in Int /\ News(v) \in Int
  BY PendingIs DEF Formed
<1> HIDE DEF T, U, V
<1>3. T \o a \in Bytes /\ U \o b \in Bytes /\ (T \o a) \o b \in Bytes /\ a \o b \in Bytes
      /\ Len(a \o b) = Len(a) + Len(b) /\ Len(a) \in Nat /\ Len(b) \in Nat
  BY <1>2, Joined
<1>4. Embeds((T \o a) \o b, U \o b)
  BY <1>1, <1>2, <1>3, EmbedsJoined
<1>5. Embeds((T \o a) \o b, V)
  BY <1>1, <1>2, <1>3, <1>4, EmbedsTrans
<1>6. (T \o a) \o b = T \o (a \o b)
  BY <1>2, SMTT(60) DEF Bytes
<1>7. News(v) = News(t) + Len(a \o b)
  BY <1>1, <1>2, <1>3
<1> QED BY <1>5, <1>6, <1>7 DEF T, V

\* A step that sends nothing, after one that sends a.
LEMMA KeepsAfter ==
  ASSUME NEW t, NEW u, NEW v, Formed(t), Formed(u), Formed(v), u.backend = t.backend,
         NEW a \in Bytes, Sends(t, a, u), Keeps(u, v)
  PROVE  Sends(t, a, v)
<1>1. Sends(t, a \o <<>>, v)
  BY NoBytes, SendsTrans DEF Keeps
<1> QED BY <1>1, NoBytes

\* A step that sends nothing, before one that sends a.
LEMMA KeepsBefore ==
  ASSUME NEW t, NEW u, NEW v, Formed(t), Formed(u), Formed(v), u.backend = t.backend,
         NEW a \in Bytes, Keeps(t, u), Sends(u, a, v)
  PROVE  Sends(t, a, v)
<1>1. Sends(t, <<>> \o a, v)
  BY NoBytes, SendsTrans DEF Keeps
<1> QED BY <1>1, NoBytes

\* The backend has got what it was to get, whatever is in which buffer.
LEMMA KeepsIf ==
  ASSUME NEW t, NEW u, Formed(t), Formed(u), SentBy(u) = SentBy(t),
         u.data_flushed + u.resent = t.data_flushed + t.resent
  PROVE  Keeps(t, u)
<1>1. SentBy(t) \in Bytes /\ Len(SentBy(t)) \in Nat /\ News(u) = News(t) /\ News(t) \in Int
  <2>1. SentBy(t) \in Bytes /\ News(t) \in Int /\ t \in StreamType /\ u \in StreamType
    BY PendingIs DEF Formed
  <2>2. Len(SentBy(t)) \in Nat
    BY <2>1 DEF Bytes
  <2>3. t.data_flushed \in Nat /\ t.resent \in Nat /\ u.data_flushed \in Nat /\ u.resent \in Nat
    BY <2>1, Fields
  <2> QED BY <2>1, <2>2, <2>3 DEF News
<1>2. Embeds(SentBy(t) \o <<>>, SentBy(u))
  BY <1>1, NoBytes, EmbedsSelf
<1> QED BY <1>1, <1>2, NoBytes DEF Keeps, Sends

\* Nothing happens.
LEMMA KeepsSelf == ASSUME NEW t, Formed(t) PROVE Keeps(t, t)
  BY KeepsIf

-----------------------------------------------------------------------------
(***************************************************************************)
(* The parts that operations share.                                        *)
(***************************************************************************)
LEMMA OutcomeIs ==
  ASSUME NEW t \in StreamType, NEW e \in Errno, NEW n \in Int, NEW g \in Bytes
  PROVE  /\ Fail(t, e) = [s |-> t, err |-> e, n |-> 0, got |-> <<>>]
         /\ Done(t) = [s |-> t, err |-> "ok", n |-> 0, got |-> <<>>]
         /\ Wrote(t, n, e) = [s |-> t, err |-> e, n |-> n, got |-> <<>>]
         /\ Gave(t, g, e) = [s |-> t, err |-> e, n |-> Len(g), got |-> g]
         /\ Fail(t, e) \in OutcomeType /\ Done(t) \in OutcomeType
         /\ Wrote(t, n, e) \in OutcomeType /\ Gave(t, g, e) \in OutcomeType
<1>1. "ok" \in Errno /\ 0 \in Int /\ <<>> \in Bytes /\ Len(g) \in Int
  BY DEF Errno, Bytes
<1> QED BY <1>1 DEF OutcomeType, Fail, Done, Wrote, Gave

\* The outcome of success.
LEMMA DoneIs ==
  ASSUME NEW t \in StreamType
  PROVE  Done(t) = [s |-> t, err |-> "ok", n |-> 0, got |-> <<>>] /\ Done(t) \in OutcomeType
<1>1. "ok" \in Errno /\ 0 \in Int /\ <<>> \in Bytes
  BY DEF Errno, Bytes
<1> QED BY <1>1, OutcomeIs

\* The outcome of a failure.
LEMMA FailIs ==
  ASSUME NEW t \in StreamType, NEW e \in Errno
  PROVE  Fail(t, e) = [s |-> t, err |-> e, n |-> 0, got |-> <<>>] /\ Fail(t, e) \in OutcomeType
<1>1. 0 \in Int /\ <<>> \in Bytes
  BY DEF Errno, Bytes
<1> QED BY <1>1, OutcomeIs

\* The errors a backend fails with are errno values, and not those of the code itself.
LEMMA FaultsAre == /\ Faults \subseteq Errno /\ "ok" \notin Faults /\ "ok" \in Errno
                   /\ "EINVAL" \notin Faults /\ "ESPIPE" \notin Faults
                   /\ "EINVAL" \in Errno /\ "ESPIPE" \in Errno /\ "EOPNOTSUPP" \in Errno
  BY Constants DEF Errno

\* A stream whose backend has taken w.
LEMMA DeliverIs ==
  ASSUME NEW t \in StreamType, NEW w \in Bytes
  PROVE  LET u == Deliver(t, w)
         IN /\ u \in StreamType /\ Same(t, u)
            /\ u.fpos = IF t.backend = "file" THEN t.fpos + Len(w) ELSE t.fpos
            /\ t.backend # "file" => u.out = t.out \o w
            /\ t.backend = "file" => u.file = Overlay(t.file, t.fpos, w)
            /\ u.buf = t.buf /\ u.data_len = t.data_len /\ u.data_offset = t.data_offset
            /\ u.data_flushed = t.data_flushed /\ u.unread = t.unread /\ u.offset = t.offset
            /\ u.lost = t.lost /\ u.resent = t.resent /\ (u.writing <=> t.writing)
<1>1. /\ t.file \in Bytes /\ t.fpos \in Nat /\ t.out \in Bytes /\ Len(w) \in Nat
      /\ t.fpos + Len(w) \in Nat
  BY SMTT(60) DEF StreamType, Bytes
<1>2. Overlay(t.file, t.fpos, w) \in Bytes /\ t.out \o w \in Bytes
  BY <1>1, OverlayIs, Joined
<1>3. CASE t.backend = "file"
  <2>1. Deliver(t, w) = [t EXCEPT !.file = Overlay(t.file, t.fpos, w), !.fpos = t.fpos + Len(w)]
    BY <1>3 DEF Deliver
  <2> QED BY <1>1, <1>2, <1>3, <2>1, ZenonT(60) DEF StreamType, Same, Bytes
<1>4. CASE t.backend # "file"
  <2>1. Deliver(t, w) = [t EXCEPT !.out = t.out \o w]
    BY <1>4 DEF Deliver
  <2> QED BY <1>1, <1>2, <1>4, <2>1, ZenonT(60) DEF StreamType, Same, Bytes
<1> QED BY <1>3, <1>4

\* What Indicate, and every operation on a buffer that does not move it, leaves alone.
Untouched(t, u) ==
  /\ Same(t, u) /\ u.file = t.file /\ u.fpos = t.fpos /\ u.out = t.out
  /\ u.data_len = t.data_len /\ u.data_flushed = t.data_flushed
  /\ u.offset = t.offset /\ u.lost = t.lost /\ u.resent = t.resent /\ (u.writing <=> t.writing)

\* The indicators are all that Indicate changes, and it sets one unless the call would
\* have to wait.
LEMMA IndicateIs ==
  ASSUME NEW t \in StreamType, NEW e \in Faults \cup {"EFAULT"}
  PROVE  LET u == Indicate(t, e)
         IN /\ u \in StreamType /\ Untouched(t, u) /\ u.buf = t.buf
            /\ u.unread = t.unread /\ u.data_offset = t.data_offset
            /\ e # "EAGAIN" => u.err
<1>1. CASE e = "EAGAIN"
  BY <1>1 DEF Indicate, Untouched, Same
<1>2. CASE e # "EAGAIN"
  BY <1>2 DEF Indicate, Untouched, Same, StreamType
<1> QED BY <1>1, <1>2

\* A change that leaves the buffer and the positions alone does no harm.
LEMMA UntouchedIsGood ==
  ASSUME NEW t, NEW u \in StreamType, Good(t), Untouched(t, u), u.buf = t.buf,
         u.data_offset = t.data_offset, Len(u.unread) <= UnreadSize \/ u.unread = t.unread
  PROVE  Good(u) /\ Keeps(t, u)
<1>1. t \in StreamType /\ Formed(t)
  BY DEF Good, Formed
<1>2. Formed(u) /\ Counted(t) = Counted(u) /\ (Mirrors(t) <=> Mirrors(u)) /\ SentBy(u) = SentBy(t)
  BY <1>1, ZenonT(60) DEF Formed, Counted, Mirrors, SentBy, Pending, Untouched, Same
<1>3. Good(u)
  BY <1>2 DEF Good, Bounded, Counted, Untouched, Same
<1>4. u.data_flushed + u.resent = t.data_flushed + t.resent
  BY DEF Untouched
<1> QED BY <1>1, <1>2, <1>3, <1>4, KeepsIf DEF Good

-----------------------------------------------------------------------------
(* Flushing *)

\* flush_stream leaves a good stream, whether the backend took all, or failed after some
\* bytes: nothing is lost, and what is sent twice is counted.
LEMMA FlushOk ==
  ASSUME NEW t, Good(t), t.status = "open", t.writing, NEW r \in flush_stream(t)
  PROVE  /\ GoodOutcome(r) /\ Same(t, r.s) /\ r.s.writing
         /\ r.n = 0 /\ r.got = <<>> /\ r.err \in {"ok"} \cup Faults
         /\ ~t.turned => Keeps(t, r.s)
         /\ r.err = "ok" => /\ r.s.data_offset = 0 /\ r.s.data_flushed = 0
                            /\ ~t.turned => Clean(r.s)
                            /\ t.backend = "file" => r.s.file = Overlay(t.file, t.fpos, Pending(t))
                            /\ t.backend # "file" => r.s.out = SentBy(t)
         /\ r.err \notin {"ok", "EAGAIN"} => r.s.err
<1> DEFINE p == SubSeq(t.buf, 1, t.data_offset)
           q(k) == SubSeq(p, 1, k)
           A == [Deliver(t, p) EXCEPT
                   !.offset = @ + t.data_offset, !.data_offset = 0,
                   !.data_flushed = 0, !.resent = @ + t.data_flushed,
                   !.buf = Upto(@, t.data_len)]
           B(k) == [Deliver(t, q(k)) EXCEPT !.data_flushed = @ + k]
<1>1. t \in StreamType /\ t.data_offset <= Len(t.buf) /\ Formed(t)
  BY DEF Good, Formed
<1>2. p \in Bytes /\ Len(p) = t.data_offset /\ Pending(t) = p
  BY <1>1, Fields, Front DEF Pending
<1>3. \A k \in Cut(t) : k \in Nat /\ k < t.data_offset /\ q(k) \in Bytes /\ Len(q(k)) = k
  <2> TAKE k \in Cut(t)
  <2>1. k \in Nat /\ k < t.data_offset /\ k <= Len(p)
    BY <1>1, <1>2, Fields DEF Cut
  <2> HIDE DEF p
  <2> QED BY <2>1, <1>2, Front
<1>4. r \in {Done(A)} \cup {Fail(Indicate(B(k), e), e) : k \in Cut(t), e \in Faults}
  BY DEF flush_stream
<1> HIDE DEF p, q
<1>5. CASE r = Done(A)
  <2> DEFINE D == Deliver(t, p)
             b == Upto(D.buf, t.data_len)
  <2>1. /\ D \in StreamType /\ Same(t, D)
        /\ D.fpos = IF t.backend = "file" THEN t.fpos + Len(p) ELSE t.fpos
        /\ t.backend # "file" => D.out = t.out \o p
        /\ t.backend = "file" => D.file = Overlay(t.file, t.fpos, p)
        /\ D.buf = t.buf /\ D.data_len = t.data_len /\ D.data_offset = t.data_offset
        /\ D.data_flushed = t.data_flushed /\ D.unread = t.unread /\ D.offset = t.offset
        /\ D.lost = t.lost /\ D.resent = t.resent /\ (D.writing <=> t.writing)
    BY <1>1, <1>2, DeliverIs
  <2>2. b \in Bytes /\ Len(b) \in Nat /\ (t.data_len = 0 => b = <<>>)
    <3>1. D.buf \in Bytes /\ t.data_len \in Nat
      BY <2>1, <1>1, Fields
    <3> HIDE DEF D
    <3>2. b \in Bytes /\ (t.data_len = 0 => b = <<>>)
      BY <3>1, UptoIs
    <3> HIDE DEF b
    <3> QED BY <3>2 DEF Bytes
  <2>3. A = [D EXCEPT !.offset = D.offset + t.data_offset, !.data_offset = 0,
                      !.data_flushed = 0, !.resent = D.resent + t.data_flushed, !.buf = b]
    OBVIOUS
  <2> HIDE DEF D, b, A
  <2>4. /\ A \in StreamType /\ Same(D, A) /\ A.fpos = D.fpos /\ A.out = D.out
        /\ A.buf = b /\ A.data_len = D.data_len /\ A.data_offset = 0 /\ A.data_flushed = 0
        /\ A.unread = D.unread /\ A.offset = D.offset + t.data_offset /\ A.lost = D.lost
        /\ A.resent = D.resent + t.data_flushed /\ (A.writing <=> D.writing)
    <3>1. D.offset + t.data_offset \in Nat /\ D.resent + t.data_flushed \in Nat
      <4>1. D.offset \in Nat /\ D.resent \in Nat /\ t.data_offset \in Nat /\ t.data_flushed \in Nat
        BY <2>1, <1>1, Fields
      <4> QED BY <4>1
    <3> QED BY <2>1, <2>2, <2>3, <3>1, ZenonT(60) DEF StreamType, Same, Bytes
  <2>5. Same(t, A)
    BY <2>1, <2>4 DEF Same
  <2>15. A.file = D.file
    BY <2>1, <2>3 DEF StreamType
  <2>6. Formed(A)
    BY <2>2, <2>4, <2>5, <1>1 DEF Formed, Same
  <2>7. Counted(A)
    <3> SUFFICES ASSUME t.backend = "file"
                 PROVE  A.fpos = A.offset + A.data_len + A.data_flushed + A.lost + A.resent
      BY <2>5 DEF Counted, Same
    <3>1. t.fpos = t.offset + t.data_len + t.data_flushed + t.lost + t.resent
      BY DEF Good, Counted
    <3>2. /\ t.fpos \in Nat /\ t.offset \in Nat /\ t.data_len \in Nat /\ t.data_flushed \in Nat
          /\ t.lost \in Nat /\ t.resent \in Nat /\ t.data_offset \in Nat
      BY <1>1, Fields
    <3>3. /\ A.fpos = t.fpos + t.data_offset /\ A.offset = t.offset + t.data_offset
          /\ A.data_len = t.data_len /\ A.data_flushed = 0 /\ A.lost = t.lost
          /\ A.resent = t.resent + t.data_flushed
      BY <2>1, <2>4, <1>2
    <3> QED BY <3>1, <3>2, <3>3
  <2>8. ~t.turned => Clean(A) /\ Bounded(A) /\ Mirrors(A)
    <3>1. /\ A.buf = b /\ A.data_len = t.data_len /\ A.data_offset = 0 /\ A.data_flushed = 0
          /\ A.unread = t.unread /\ (A.writing <=> t.writing) /\ A.buffer_size = t.buffer_size
      BY <2>1, <2>4, <2>5 DEF Same
    <3>2. t.buffer_size \in Nat /\ t.data_len \in Nat
      BY <1>1, Fields
    <3> QED BY <2>2, <3>1, <3>2, NoBytes DEF Good, Bounded, Mirrors, Clean
  <2>9. Good(A)
    BY <2>5, <2>6, <2>7, <2>8 DEF Good, Same
  <2>10. ~t.turned => Keeps(t, A)
    <3> SUFFICES ASSUME t.backend # "file" PROVE Keeps(t, A)
      BY DEF Keeps, Sends
    <3>1. Pending(A) = <<>>
      BY <2>4, <2>6, PendingIs DEF Formed
    <3>2. t.out \o p \in Bytes
      BY <1>1, <1>2, Fields, Joined
    <3>3. SentBy(A) = SentBy(t)
      BY <1>2, <2>1, <2>4, <3>1, <3>2, NoBytes DEF SentBy
    <3>4. A.data_flushed + A.resent = t.data_flushed + t.resent
      BY <2>1, <2>4, <1>1, Fields
    <3> QED BY <1>1, <2>6, <3>3, <3>4, KeepsIf
  <2>11. r = [s |-> A, err |-> "ok", n |-> 0, got |-> <<>>] /\ r \in OutcomeType
    BY <1>5, <2>4, DoneIs
  <2>12. /\ t.backend = "file" => A.file = Overlay(t.file, t.fpos, Pending(t))
         /\ t.backend # "file" => A.out = SentBy(t)
    BY <1>2, <2>1, <2>4, <2>15 DEF SentBy
  <2> QED BY <2>1, <2>4, <2>5, <2>8, <2>9, <2>10, <2>11, <2>12 DEF GoodOutcome
<1>6. ASSUME NEW k \in Cut(t), NEW e \in Faults, r = Fail(Indicate(B(k), e), e)
      PROVE  /\ GoodOutcome(r) /\ Same(t, r.s) /\ r.s.writing /\ r.n = 0 /\ r.got = <<>> /\ r.err = e
             /\ ~t.turned => Keeps(t, r.s)
             /\ e # "EAGAIN" => r.s.err
  <2> DEFINE D == Deliver(t, q(k))
             F == B(k)
             u == Indicate(F, e)
  <2>1. /\ D \in StreamType /\ Same(t, D)
        /\ D.fpos = IF t.backend = "file" THEN t.fpos + k ELSE t.fpos
        /\ t.backend # "file" => D.out = t.out \o q(k)
        /\ D.buf = t.buf /\ D.data_len = t.data_len /\ D.data_offset = t.data_offset
        /\ D.data_flushed = t.data_flushed /\ D.unread = t.unread /\ D.offset = t.offset
        /\ D.lost = t.lost /\ D.resent = t.resent /\ (D.writing <=> t.writing)
    BY <1>1, <1>3, DeliverIs
  <2>2. F = [D EXCEPT !.data_flushed = D.data_flushed + k]
    OBVIOUS
  <2>3. k \in Nat /\ D.data_flushed + k \in Nat
    BY <1>1, <1>3, <2>1, Fields, SMTT(60)
  <2> HIDE DEF D, F
  <2>4. /\ F \in StreamType /\ Same(D, F) /\ F.fpos = D.fpos /\ F.out = D.out
        /\ F.buf = D.buf /\ F.data_len = D.data_len /\ F.data_offset = D.data_offset
        /\ F.data_flushed = D.data_flushed + k
        /\ F.unread = D.unread /\ F.offset = D.offset /\ F.lost = D.lost
        /\ F.resent = D.resent /\ (F.writing <=> D.writing)
    BY <2>1, <2>2, <2>3 DEF StreamType, Same
  <2>5. Same(t, F)
    BY <2>1, <2>4 DEF Same
  <2>6. Formed(F)
    BY <2>1, <2>4, <2>5, <1>1 DEF Formed, Same
  <2>7. Counted(F)
    <3> SUFFICES ASSUME t.backend = "file"
                 PROVE  F.fpos = F.offset + F.data_len + F.data_flushed + F.lost + F.resent
      BY <2>5 DEF Counted, Same
    <3>1. t.fpos = t.offset + t.data_len + t.data_flushed + t.lost + t.resent
      BY DEF Good, Counted
    <3>2. /\ t.fpos \in Nat /\ t.offset \in Nat /\ t.data_len \in Nat /\ t.data_flushed \in Nat
          /\ t.lost \in Nat /\ t.resent \in Nat
      BY <1>1, Fields
    <3>3. /\ F.fpos = t.fpos + k /\ F.offset = t.offset /\ F.data_len = t.data_len
          /\ F.data_flushed = t.data_flushed + k /\ F.lost = t.lost /\ F.resent = t.resent
      BY <2>1, <2>4
    <3> QED BY <2>3, <3>1, <3>2, <3>3
  <2>8. ~t.turned => Bounded(F) /\ Mirrors(F)
    BY <2>1, <2>4, <2>5, <1>1 DEF Good, Bounded, Mirrors, Same
  <2>9. Good(F)
    BY <2>5, <2>6, <2>7, <2>8 DEF Good, Same
  <2>10. Keeps(t, F)
    <3> SUFFICES ASSUME t.backend # "file" PROVE Keeps(t, F)
      BY DEF Keeps, Sends
    <3>1. Pending(F) = p
      BY <2>1, <2>4, <1>2 DEF Pending
    <3>0. q(k) \in Bytes /\ Len(q(k)) = k /\ t.out \in Bytes /\ SentBy(t) = t.out \o p
      BY <1>1, <1>2, <1>3, Fields DEF SentBy
    <3>2. /\ t.out \o q(k) \in Bytes /\ Len(t.out \o q(k)) = Len(t.out) + k
          /\ SentBy(t) \in Bytes /\ Len(SentBy(t)) = Len(t.out) + Len(p)
          /\ Len(t.out) \in Nat /\ Len(p) \in Nat
      <4>1. t.out \o q(k) \in Bytes /\ Len(t.out \o q(k)) = Len(t.out) + Len(q(k))
        BY <3>0, Joined
      <4>2. t.out \o p \in Bytes /\ Len(t.out \o p) = Len(t.out) + Len(p)
        BY <3>0, <1>2, Joined
      <4>3. Len(t.out) \in Nat /\ Len(p) \in Nat
        BY <3>0, <1>2, Joined
      <4> QED BY <3>0, <4>1, <4>2, <4>3
    <3>3. SentBy(F) = (t.out \o q(k)) \o p
      BY <2>1, <2>4, <3>1 DEF SentBy
    <3>4. Embeds(t.out, t.out \o q(k))
      BY <3>0, EmbedsLonger
    <3>5. Embeds(t.out \o p, (t.out \o q(k)) \o p)
      BY <3>0, <3>2, <3>4, <1>2, EmbedsJoined
    <3>6. Len(SentBy(F)) = Len(t.out \o q(k)) + Len(p)
      <4> DEFINE o == t.out \o q(k)
      <4>1. o \in Bytes
        BY <3>2
      <4> HIDE DEF o
      <4>2. Len(o \o p) = Len(o) + Len(p)
        BY <4>1, <1>2, Joined
      <4> QED BY <3>3, <4>2 DEF o
    <3>7. News(F) = News(t)
      <4>1. F.data_flushed = t.data_flushed + k /\ F.resent = t.resent
            /\ t.data_flushed \in Nat /\ t.resent \in Nat
        BY <2>1, <2>4, <1>1, Fields
      <4>2. Len(SentBy(F)) = Len(SentBy(t)) + k
        BY <3>2, <3>6, <2>3
      <4>3. Len(SentBy(t)) \in Nat
        BY <3>2
      <4> QED BY <4>1, <4>2, <4>3, <2>3 DEF News
    <3>8. News(t) \in Int
      BY <1>1, PendingIs
    <3> QED BY <3>0, <3>2, <3>3, <3>5, <3>7, <3>8, NoBytes DEF Keeps, Sends
  <2>11. u \in StreamType /\ Untouched(F, u) /\ u.buf = F.buf
         /\ u.unread = F.unread /\ u.data_offset = F.data_offset
         /\ (e # "EAGAIN" => u.err)
    BY <2>4, IndicateIs
  <2> HIDE DEF u
  <2>12. Good(u) /\ Keeps(F, u)
    BY <2>9, <2>11, UntouchedIsGood
  <2>13. Same(t, u) /\ u.writing
    BY <2>1, <2>4, <2>5, <2>11 DEF Same, Untouched
  <2>14. Keeps(t, u)
    <3>1. Formed(u) /\ F.backend = t.backend
      BY <2>12, <2>5 DEF Good, Same
    <3> QED BY <3>1, <1>1, <2>6, <2>10, <2>12, NoBytes, KeepsAfter DEF Keeps
  <2>15. e \in Errno
    BY FaultsAre
  <2>16. r = [s |-> u, err |-> e, n |-> 0, got |-> <<>>] /\ r \in OutcomeType
    <3>1. r = Fail(u, e)
      BY <1>6 DEF u, F
    <3> QED BY <2>11, <2>15, <3>1, FailIs
  <2> QED BY <2>11, <2>12, <2>13, <2>14, <2>16 DEF GoodOutcome
<1>7. CASE r # Done(A)
  <2>1. PICK k \in Cut(t), e \in Faults : r = Fail(Indicate(B(k), e), e)
    BY <1>4, <1>7
  <2> QED BY <1>6, <2>1, FaultsAre
<1> QED BY <1>5, <1>7

-----------------------------------------------------------------------------
(* Reading *)

\* What an operation makes of a stream that is not writing any more.
Reader(t) == Usable(t) /\ ~t.writing

\* What every outcome of an operation but a write promises.
Harmless(t, r) == GoodOutcome(r) /\ Same(t, r.s) /\ Keeps(t, r.s)

\* What a stream is that may be read or written.
LEMMA UsableIs ==
  ASSUME NEW t, Usable(t)
  PROVE  /\ t \in StreamType /\ Formed(t) /\ Good(t) /\ Counted(t) /\ Bounded(t) /\ Mirrors(t)
         /\ t.status = "open" /\ ~t.turned
  BY DEF Usable, Good, Formed

\* A reader has nothing to send.
LEMMA ReaderKeeps ==
  ASSUME NEW t, NEW u, Reader(t), Formed(u), ~u.writing, u.out = t.out,
         u.data_flushed = t.data_flushed, u.resent = t.resent
  PROVE  Keeps(t, u)
<1>1. SentBy(u) = SentBy(t)
  BY DEF SentBy, Pending, Reader
<1> QED BY <1>1, KeepsIf, UsableIs DEF Reader

\* The change from writing to reading of es_readn, es_seek and doreadline.
LEMMA ToReadingOk ==
  ASSUME NEW t, Usable(t), NEW r \in ToReading(t)
  PROVE  /\ Harmless(t, r) /\ r.n = 0 /\ r.got = <<>> /\ r.err \in {"ok"} \cup Faults
         /\ r.err = "ok" => Reader(r.s)
         /\ r.err \notin {"ok", "EAGAIN"} => r.s.err
<1>1. CASE ~t.writing
  <2>1. r = Done(t)
    BY <1>1 DEF ToReading
  <2>2. r = [s |-> t, err |-> "ok", n |-> 0, got |-> <<>>] /\ r \in OutcomeType
    BY <2>1, UsableIs, DoneIs
  <2> QED BY <1>1, <2>2, UsableIs, KeepsSelf DEF Harmless, GoodOutcome, Same, Reader
<1>2. CASE t.writing
  <2>1. PICK f \in flush_stream(t) : r = [f EXCEPT !.s.writing = (f.err # "ok")]
    BY <1>2 DEF ToReading
  <2>2. /\ GoodOutcome(f) /\ Same(t, f.s) /\ f.s.writing /\ f.n = 0 /\ f.got = <<>>
        /\ f.err \in {"ok"} \cup Faults /\ Keeps(t, f.s)
        /\ f.err = "ok" => Clean(f.s)
        /\ f.err \notin {"ok", "EAGAIN"} => f.s.err
    BY <1>2, UsableIs, FlushOk
  <2> DEFINE u == [f.s EXCEPT !.writing = (f.err # "ok")]
  <2>3. f \in OutcomeType /\ f.s \in StreamType /\ Good(f.s)
    BY <2>2 DEF GoodOutcome, OutcomeType
  <2>4. r = [s |-> u, err |-> f.err, n |-> 0, got |-> <<>>]
    BY <2>1, <2>2, <2>3 DEF OutcomeType
  <2>5. CASE f.err # "ok"
    <3>1. u = f.s
      BY <2>2, <2>3, <2>5 DEF StreamType
    <3>2. r \in OutcomeType
      BY <2>2, <2>3, <2>4, <3>1 DEF OutcomeType
    <3> QED BY <2>2, <2>3, <2>4, <2>5, <3>1, <3>2 DEF Harmless, GoodOutcome
  <2>6. CASE f.err = "ok"
    <3>1. /\ u \in StreamType /\ Untouched([f.s EXCEPT !.writing = FALSE], u) /\ u.buf = f.s.buf
          /\ u.data_offset = f.s.data_offset /\ u.unread = f.s.unread /\ ~u.writing /\ Same(f.s, u)
          /\ u.fpos = f.s.fpos /\ u.offset = f.s.offset /\ u.data_len = f.s.data_len
          /\ u.data_flushed = f.s.data_flushed /\ u.lost = f.s.lost /\ u.resent = f.s.resent
          /\ u.out = f.s.out /\ u.file = f.s.file
      BY <2>3, <2>6 DEF StreamType, Untouched, Same
    <3> HIDE DEF u
    <3>2. Clean(u) /\ ~f.s.turned /\ f.s.status = "open" /\ Bounded(f.s) /\ Counted(f.s) /\ Formed(f.s)
      BY <2>2, <2>3, <2>6, <3>1, UsableIs DEF Clean, Good, Same
    <3>3. Formed(u) /\ Counted(u)
      BY <3>1, <3>2 DEF Formed, Counted, Same
    <3>4. u.fpos \in Nat /\ u.buffer_size \in Nat
      BY <3>1, Fields
    <3>5. Bounded(u) /\ Mirrors(u)
      BY <3>1, <3>2, <3>4, NoBytes DEF Bounded, Mirrors, Clean
    <3>6. Good(u) /\ Reader(u)
      BY <3>1, <3>2, <3>3, <3>5 DEF Good, Same, Reader, Usable
    <3>7. Same(t, u)
      BY <2>2, <3>1 DEF Same
    <3>8. SentBy(u) = SentBy(f.s)
      <4>1. Pending(f.s) = <<>> /\ Pending(u) = <<>>
        BY <2>2, <2>3, <2>6, <3>1, <3>2, PendingIs DEF Clean, Pending, Formed
      <4> QED BY <3>1, <4>1 DEF SentBy
    <3>9. Keeps(f.s, u)
      BY <3>1, <3>2, <3>3, <3>8, KeepsIf
    <3>10. Keeps(t, u)
      BY <2>2, <3>2, <3>3, <3>9, UsableIs, NoBytes, KeepsAfter DEF Keeps, Same
    <3>11. r \in OutcomeType
      BY <2>3, <2>4, <3>1, NoBytes DEF OutcomeType
    <3> QED BY <2>4, <2>6, <3>6, <3>7, <3>10, <3>11 DEF Harmless, GoodOutcome
  <2> QED BY <2>5, <2>6
<1> QED BY <1>1, <1>2, UsableIs, Fields

\* What a reader still has before it.
LEMMA RestIs ==
  ASSUME NEW t, Reader(t)
  PROVE  Rest(t) \in Bytes /\ Len(Rest(t)) \in Nat /\ t.data_len - t.data_offset <= Len(Rest(t))
<1>1. t \in StreamType /\ t.data_len = Len(t.buf) /\ t.data_offset <= t.data_len
  BY UsableIs DEF Reader, Bounded
<1>2. t.buf \in Bytes /\ t.file \in Bytes /\ t.data_offset \in Nat /\ t.fpos \in Nat /\ t.data_len \in Nat
      /\ Len(t.file) \in Int
  BY <1>1, Fields
<1>3. Lesser(t.data_len, Len(t.buf)) = t.data_len
  BY <1>1 DEF Lesser
<1> DEFINE a == SubSeq(t.buf, t.data_offset + 1, t.data_len)
           b == SubSeq(t.file, t.fpos + 1, Len(t.file))
<1>4. a \in Bytes /\ Len(a) = IF t.data_offset < t.data_len THEN t.data_len - t.data_offset ELSE 0
  BY <1>1, <1>2, Part, SMTT(60)
<1>5. b \in Bytes
  BY <1>2, Part
<1>6. Rest(t) = a \o b
  BY <1>3 DEF Rest
<1> HIDE DEF a, b
<1>7. a \o b \in Bytes /\ Len(a \o b) = Len(a) + Len(b) /\ Len(b) \in Nat /\ Len(a) \in Nat
  BY <1>4, <1>5, Joined
<1> QED BY <1>1, <1>2, <1>4, <1>6, <1>7

\* A reader whose buffer is filled with the l bytes that follow the next a.
Filled(t, a, l, u) ==
  /\ Same(t, u) /\ u.fpos = t.fpos + a + l /\ u.offset = t.offset + t.data_len + a
  /\ u.buf = SubSeq(t.file, t.fpos + a + 1, t.fpos + a + l) /\ u.data_len = l /\ u.data_offset <= l
  /\ u.data_flushed = t.data_flushed /\ u.lost = t.lost /\ u.resent = t.resent
  /\ u.unread = t.unread /\ u.out = t.out /\ u.file = t.file /\ (u.writing <=> t.writing)

\* The bytes that a fill takes from the backend.
LEMMA NextBytes ==
  ASSUME NEW t, t \in StreamType, NEW a \in Nat, NEW l \in Nat, l = 0 \/ t.fpos + a + l <= Len(t.file)
  PROVE  LET b == SubSeq(t.file, t.fpos + a + 1, t.fpos + a + l) IN b \in Bytes /\ Len(b) = l
<1>1. t.file \in Bytes /\ t.fpos \in Nat /\ Len(t.file) \in Nat
  BY Fields
<1> DEFINE m == t.fpos + a
           b == SubSeq(t.file, m + 1, m + l)
<1>2. m \in Nat /\ m + l \in Int /\ (l = 0 \/ m + l <= Len(t.file))
  BY <1>1
<1> HIDE DEF m
<1>3. CASE l = 0
  <2>1. b = <<>>
    BY <1>1, <1>2, <1>3
  <2> QED BY <1>3, <2>1, NoBytes DEF m
<1>4. CASE m + l <= Len(t.file)
  <2>1. b \in Bytes /\ Len(b) = IF m < m + l THEN (m + l) - m ELSE 0
    BY <1>1, <1>2, <1>4, Part
  <2>2. (IF m < m + l THEN (m + l) - m ELSE 0) = l
    <3>1. m \in Nat /\ l \in Nat
      BY <1>2
    <3>2. m < m + l <=> l # 0
      BY <3>1
    <3>3. (m + l) - m = l
      BY <3>1
    <3> QED BY <3>2, <3>3
  <2>3. b = SubSeq(t.file, t.fpos + a + 1, t.fpos + a + l)
    BY DEF m
  <2> HIDE DEF b
  <2> QED BY <2>1, <2>2, <2>3
<1> QED BY <1>2, <1>3, <1>4

\* A reader is good after a fill.
LEMMA FilledIs ==
  ASSUME NEW t, Reader(t), NEW a \in Nat, NEW l \in Nat, NEW u \in StreamType, Filled(t, a, l, u),
         l = 0 \/ t.fpos + a + l <= Len(t.file), l <= t.buffer_size, l = 0 \/ t.buffer # "none"
  PROVE  Reader(u) /\ Same(t, u) /\ Keeps(t, u)
<1>1. t \in StreamType /\ Formed(t) /\ Counted(t) /\ Bounded(t) /\ t.status = "open" /\ ~t.turned /\ ~t.writing
  BY UsableIs DEF Reader
<1>2. /\ t.file \in Bytes /\ t.fpos \in Nat /\ Len(t.file) \in Nat /\ t.offset \in Nat /\ t.data_len \in Nat
      /\ t.data_flushed \in Nat /\ t.lost \in Nat /\ t.resent \in Nat
  BY <1>1, Fields
<1>3. Len(u.buf) = l
  <2> DEFINE b == SubSeq(t.file, t.fpos + a + 1, t.fpos + a + l)
  <2>1. Len(b) = l
    BY <1>1, NextBytes
  <2>2. u.buf = b
    BY DEF Filled
  <2> HIDE DEF b
  <2> QED BY <2>1, <2>2
<1>4. Same(t, u)
  BY DEF Filled
<1>5. Formed(u) /\ Bounded(u)
  <2>1. l = 0 => u.buf = <<>>
    BY <1>2 DEF Filled
  <2> QED BY <1>1, <1>3, <2>1 DEF Formed, Bounded, Same, Filled
<1>6. Counted(u)
  <2> SUFFICES ASSUME t.backend = "file"
               PROVE  u.fpos = u.offset + u.data_len + u.data_flushed + u.lost + u.resent
    BY <1>4 DEF Counted, Same
  <2>1. t.fpos = t.offset + t.data_len + t.data_flushed + t.lost + t.resent
    BY <1>1 DEF Counted
  <2>2. \A x1, x2, x3, x4, x5 \in Nat :
          (x1 + x2 + x3 + x4 + x5) + a + l = (x1 + x2 + a) + l + x3 + x4 + x5
    OBVIOUS
  <2>3. /\ u.fpos = t.fpos + a + l /\ u.offset = t.offset + t.data_len + a /\ u.data_len = l
        /\ u.data_flushed = t.data_flushed /\ u.lost = t.lost /\ u.resent = t.resent
    BY DEF Filled
  <2>4. (t.offset + t.data_len + t.data_flushed + t.lost + t.resent) + a + l
          = (t.offset + t.data_len + a) + l + t.data_flushed + t.lost + t.resent
    BY <1>2, <2>2, SMTT(60)
  <2> QED BY <2>1, <2>3, <2>4
<1>7. Mirrors(u)
  <2>1. u.fpos - u.data_len = t.fpos + a /\ u.data_len <= u.fpos
    BY <1>2, SMTT(60) DEF Filled
  <2> QED BY <2>1 DEF Mirrors, Filled
<1>8. Reader(u)
  BY <1>1, <1>4, <1>5, <1>6, <1>7 DEF Reader, Usable, Good, Same, Filled
<1>9. Keeps(t, u)
  BY <1>1, <1>5, <1>8, ReaderKeeps DEF Filled
<1> QED BY <1>4, <1>8, <1>9

\* The three forms in which do_read_fbf uses fill_stream.
LEMMA FillIs ==
  ASSUME NEW t, Reader(t), NEW a \in Nat, NEW l \in Nat, NEW o \in Nat,
         l = 0 \/ t.fpos + a + l <= Len(t.file), o <= l, l <= t.buffer_size, l = 0 \/ t.buffer # "none",
         NEW u \in {fill_stream(t, a, l), [fill_stream(t, a, l) EXCEPT !.data_offset = o],
                    [fill_stream(t, a, l) EXCEPT !.eof = TRUE]}
  PROVE  Reader(u) /\ Same(t, u) /\ Keeps(t, u)
<1> DEFINE F == fill_stream(t, a, l)
           b == SubSeq(t.file, t.fpos + a + 1, t.fpos + a + l)
<1>1. t \in StreamType
  BY UsableIs DEF Reader
<1>2. b \in Bytes /\ Len(b) = l
  BY <1>1, NextBytes
<1>3. t.fpos + a + l \in Nat /\ t.offset + t.data_len + a \in Nat
  BY <1>1, Fields, SMTT(60)
<1>4. F = [t EXCEPT !.buf = b, !.data_len = l, !.data_offset = 0,
                    !.fpos = t.fpos + a + l, !.offset = t.offset + t.data_len + a]
  BY DEF fill_stream
<1> HIDE DEF F
<1>5. F \in StreamType /\ Filled(t, a, l, F)
  <2> HIDE DEF b
  <2>1. /\ F \in StreamType /\ Same(t, F) /\ F.fpos = t.fpos + a + l /\ F.offset = t.offset + t.data_len + a
        /\ F.buf = b /\ F.data_len = l /\ F.data_offset = 0
        /\ F.data_flushed = t.data_flushed /\ F.lost = t.lost /\ F.resent = t.resent
        /\ F.unread = t.unread /\ F.out = t.out /\ F.file = t.file /\ (F.writing <=> t.writing)
    BY <1>1, <1>2, <1>3, <1>4, ZenonT(60) DEF StreamType, Same, Bytes
  <2> QED BY <2>1 DEF Filled, b
<1>6. CASE u = F
  BY <1>5, <1>6, FilledIs
<1>7. CASE u = [F EXCEPT !.data_offset = o]
  <2>1. u \in StreamType /\ Filled(t, a, l, u)
    BY <1>5, <1>7 DEF StreamType, Filled, Same
  <2> QED BY <2>1, FilledIs
<1>8. CASE u = [F EXCEPT !.eof = TRUE]
  <2>1. u \in StreamType /\ Filled(t, a, l, u)
    BY <1>5, <1>8 DEF StreamType, Filled, Same
  <2> QED BY <2>1, FilledIs
<1> QED BY <1>6, <1>7, <1>8 DEF F

\* What a buffered or unbuffered read does to a reader, whatever it gets.
ReadOutcome(t, r) == Harmless(t, r) /\ Reader(r.s) /\ r.err \in {"ok", "EFAULT"} \cup Faults

\* An outcome of a read is good if the stream it leaves is.
LEMMA ReadOutcomeIs ==
  ASSUME NEW t, NEW u, NEW g \in Bytes, NEW e \in {"ok", "EFAULT"} \cup Faults,
         Reader(u), Same(t, u), Keeps(t, u)
  PROVE  ReadOutcome(t, Gave(u, g, e))
<1>1. u \in StreamType /\ Good(u) /\ e \in Errno
  BY UsableIs, FaultsAre DEF Reader, Errno
<1>2. Len(g) \in Int
  BY DEF Bytes
<1>3. Gave(u, g, e) = [s |-> u, err |-> e, n |-> Len(g), got |-> g]
  BY DEF Gave
<1>4. Gave(u, g, e) \in OutcomeType
  BY <1>1, <1>2, <1>3 DEF OutcomeType
<1> HIDE DEF Gave
<1> QED BY <1>1, <1>3, <1>4 DEF ReadOutcome, Harmless, GoodOutcome

\* A read that gives less than it was asked for tells why: at the end of the file
\* or by the error indicator, unless it would have to wait.
Told(r, n) ==
  /\ r.err = "ok" => r.n = n \/ r.s.eof
  /\ r.err \notin {"ok", "EAGAIN"} => r.s.err

\* What makes a read tell why it stopped.
LEMMA ToldIf ==
  ASSUME NEW u, NEW g \in Bytes, NEW e, NEW n,
         e = "ok" => Len(g) = n \/ u.eof,
         e \notin {"ok", "EAGAIN"} => u.err
  PROVE  Told(Gave(u, g, e), n)
  BY DEF Told, Gave

\* A read that has failed.
LEMMA IndicatedRead ==
  ASSUME NEW t, NEW u, NEW g \in Bytes, NEW e \in Faults \cup {"EFAULT"},
         Reader(t), Reader(u), Same(t, u), Keeps(t, u)
  PROVE  ReadOutcome(t, Gave(Indicate(u, e), g, e)) /\ \A n : Told(Gave(Indicate(u, e), g, e), n)
<1> DEFINE v == Indicate(u, e)
<1>1. u \in StreamType /\ Good(u) /\ Formed(u) /\ Formed(t)
  BY UsableIs DEF Reader
<1>2. v \in StreamType /\ Untouched(u, v) /\ v.buf = u.buf /\ v.unread = u.unread /\ v.data_offset = u.data_offset
      /\ (e # "EAGAIN" => v.err)
  BY <1>1, IndicateIs
<1> HIDE DEF v
<1>3. Good(v) /\ Keeps(u, v)
  BY <1>1, <1>2, UntouchedIsGood
<1>4. Reader(v) /\ Same(t, v) /\ Formed(v)
  BY <1>2, <1>3 DEF Reader, Usable, Untouched, Same, Good
<1>5. Keeps(t, v)
  BY <1>1, <1>3, <1>4, NoBytes, KeepsAfter DEF Keeps, Same
<1>6. ReadOutcome(t, Gave(v, g, e))
  BY <1>4, <1>5, ReadOutcomeIs
<1>7. \A n : Told(Gave(v, g, e), n)
  BY <1>2, FaultsAre, ToldIf
<1> QED BY <1>6, <1>7 DEF v

\* es_read_fbf: the bytes come from the buffer and from as many fills as it takes.
LEMMA ReadBufferedOk ==
  ASSUME NEW t, Reader(t), NEW n \in Nat, NEW r \in do_read_fbf(t, n)
  PROVE  ReadOutcome(t, r) /\ Told(r, n)
<1> DEFINE left == t.data_len - t.data_offset
           all == Rest(t)
<1>1. /\ t \in StreamType /\ Formed(t) /\ t.data_len = Len(t.buf) /\ t.data_offset <= t.data_len
      /\ t.data_len <= t.buffer_size /\ ~t.turned /\ (t.buffer = "none" => t.buf = <<>>)
  BY UsableIs DEF Reader, Bounded
<1>2. /\ t.data_len \in Nat /\ t.data_offset \in Nat /\ t.fpos \in Nat /\ t.buffer_size \in Nat
      /\ Len(t.file) \in Nat /\ left \in Nat /\ t.eof \in BOOLEAN
  <2>1. t.data_len \in Nat /\ t.data_offset \in Nat /\ t.eof \in BOOLEAN
    BY <1>1, Fields
  <2> QED BY <2>1, <1>1, Fields
<1>3. all \in Bytes /\ Len(all) \in Nat /\ left <= Len(all)
  BY RestIs
<1>4. Same(t, t) /\ Keeps(t, t) /\ Fail(t, "ok") = Gave(t, <<>>, "ok")
  BY <1>1, KeepsSelf, NoBytes DEF Same, Fail, Gave
<1>5. CASE n = 0
  <2>1. r = Gave(t, <<>>, "ok")
    BY <1>4, <1>5 DEF do_read_fbf, Done
  <2> QED BY <1>4, <1>5, <2>1, NoBytes, ReadOutcomeIs, ToldIf
<1>7. CASE n # 0 /\ t.buffer = "none"
  <2>1. ~(left < 0 \/ t.data_len > Len(t.buf))
    <3> HIDE DEF left
    <3> QED BY <1>1, <1>2
  <2>2. r \in NullRead(t)
    <3> DEFINE more == {Gave([t EXCEPT !.data_offset = @ + m], SubSeq(all, 1, n), "ok") : m \in {n} \cap 0..left}
    <3> HIDE DEF left
    <3> QED BY <1>7, <2>1 DEF do_read_fbf, left
  <2> DEFINE u == fill_stream(t, 0, 0)
             v == [u EXCEPT !.eof = TRUE]
  <2>3. r = Gave(v, <<>>, "ok") \/ \E e \in Faults \cup {"EFAULT"} : r = Gave(Indicate(u, e), <<>>, e)
    BY <2>2 DEF NullRead
  <2>4. 0 \in Nat /\ 0 <= 0 /\ 0 <= t.buffer_size
    BY <1>2
  <2>5. v.eof
    BY <1>1 DEF fill_stream, StreamType
  <2>6. Reader(u) /\ Same(t, u) /\ Keeps(t, u) /\ Reader(v) /\ Same(t, v) /\ Keeps(t, v)
    BY <2>4, FillIs
  <2> HIDE DEF u, v
  <2>7. CASE r = Gave(v, <<>>, "ok")
    BY <2>5, <2>6, <2>7, NoBytes, ReadOutcomeIs, ToldIf
  <2>8. ASSUME NEW e \in Faults \cup {"EFAULT"}, r = Gave(Indicate(u, e), <<>>, e)
        PROVE  ReadOutcome(t, r) /\ Told(r, n)
    BY <2>6, <2>8, NoBytes, IndicatedRead
  <2> QED BY <2>3, <2>7, <2>8
<1>6. CASE n # 0 /\ t.buffer # "none"
  <2>1. ~(left < 0 \/ t.data_len > Len(t.buf))
    <3> HIDE DEF left
    <3> QED BY <1>1, <1>2
  <2> DEFINE S1 == {Gave([t EXCEPT !.data_offset = @ + m], SubSeq(all, 1, n), "ok") : m \in {n} \cap 0..left}
             Full == {f \in (0..(n - left - 1)) \X (1..t.buffer_size) :
                        /\ n - left - f[1] <= f[2]
                        /\ t.fpos + f[1] + f[2] <= Len(t.file)}
             S2 == {Gave([fill_stream(t, f[1], f[2]) EXCEPT !.data_offset = n - left - f[1]],
                         SubSeq(all, 1, n), "ok") : f \in Full}
             S3 == {Gave([fill_stream(t, c - left, 0) EXCEPT !.eof = TRUE], all, "ok") :
                      c \in {Len(all)} \cap 0..(n - 1)}
             S4 == {Gave(Indicate(fill_stream(t, c - left, 0), e), SubSeq(all, 1, c), e) :
                      c \in left..Lesser(n - 1, Len(all)), e \in Faults}
  <2>2. r \in S1 \cup S2 \cup S3 \cup S4
    <3>1. do_read_fbf(t, n) = IF n = 0 THEN {Done(t)}
                              ELSE IF left < 0 \/ t.data_len > Len(t.buf) THEN {Crash(t, "overrun")}
                              ELSE IF t.buffer = "none" THEN NullRead(t)
                              ELSE S1 \cup S2 \cup S3 \cup S4
      BY DEF do_read_fbf
    <3> HIDE DEF S1, S2, S3, S4, left
    <3> QED BY <3>1, <1>6, <2>1
  <2> HIDE DEF left, all
  <2>3. ASSUME NEW m \in {n} \cap 0..left,
               r = Gave([t EXCEPT !.data_offset = @ + m], SubSeq(all, 1, n), "ok")
        PROVE  ReadOutcome(t, r) /\ Told(r, n)
    <3> DEFINE u == [t EXCEPT !.data_offset = @ + m]
    <3>1. t.data_offset + m \in Nat /\ t.data_offset + m <= t.data_len /\ n <= Len(all)
      BY <1>2, <1>3, SMTT(60) DEF left
    <3>2. /\ u \in StreamType /\ Same(t, u) /\ u.data_offset = t.data_offset + m /\ u.file = t.file
          /\ u.fpos = t.fpos /\ u.buf = t.buf /\ u.data_len = t.data_len /\ u.data_flushed = t.data_flushed
          /\ u.unread = t.unread /\ u.offset = t.offset /\ u.lost = t.lost /\ u.resent = t.resent
          /\ u.out = t.out /\ (u.writing <=> t.writing)
      BY <1>1, <3>1 DEF StreamType, Same
    <3> HIDE DEF u
    <3>3. Formed(u) /\ Bounded(u) /\ Counted(u) /\ Mirrors(u)
      BY <1>1, <3>1, <3>2, UsableIs DEF Formed, Bounded, Counted, Mirrors, Same, Reader
    <3>4. Reader(u)
      BY <3>2, <3>3, UsableIs DEF Reader, Usable, Good, Same
    <3>5. Keeps(t, u)
      BY <3>2, <3>3, <3>4, ReaderKeeps DEF Reader
    <3>6. SubSeq(all, 1, n) \in Bytes /\ Len(SubSeq(all, 1, n)) = n
      BY <1>3, <3>1, Front
    <3> QED BY <2>3, <3>2, <3>4, <3>5, <3>6, ReadOutcomeIs, ToldIf DEF u
  <2>4. ASSUME NEW f \in (0..(n - left - 1)) \X (1..t.buffer_size), n - left - f[1] <= f[2],
               t.fpos + f[1] + f[2] <= Len(t.file),
               r = Gave([fill_stream(t, f[1], f[2]) EXCEPT !.data_offset = n - left - f[1]], SubSeq(all, 1, n), "ok")
        PROVE  ReadOutcome(t, r) /\ Told(r, n)
    <3> DEFINE a == f[1]
               l == f[2]
               o == n - left - a
               u == [fill_stream(t, a, l) EXCEPT !.data_offset = o]
    <3>1. a \in 0..(n - left - 1) /\ l \in 1..t.buffer_size
      OBVIOUS
    <3>2. o <= l /\ t.fpos + a + l <= Len(t.file) /\ r = Gave(u, SubSeq(all, 1, n), "ok")
      BY <2>4
    <3> HIDE DEF a, l
    <3>3. a \in Nat /\ l \in Nat /\ o \in Nat /\ l <= t.buffer_size
      BY <1>2, <3>1
    <3>4. Reader(u) /\ Same(t, u) /\ Keeps(t, u)
      <4> HIDE DEF o
      <4> QED BY <1>2, <1>6, <3>2, <3>3, FillIs
    <3>5. SubSeq(all, 1, n) \in Bytes /\ Len(SubSeq(all, 1, n)) = n
      <4>1. n \in Int
        OBVIOUS
      <4>2. CASE n <= Len(all)
        BY <1>3, <4>2, Front
      <4>3. CASE ~(n <= Len(all))
        <5>1. n - left <= a + l /\ t.fpos + a + l <= Len(t.file)
          BY <1>2, <3>1, <3>2
        <5>2. Len(all) = left + (Len(t.file) - t.fpos)
          <6> DEFINE p == SubSeq(t.buf, t.data_offset + 1, t.data_len)
                     q == SubSeq(t.file, t.fpos + 1, Len(t.file))
          <6>1. t.buf \in Bytes /\ t.file \in Bytes
            BY <1>1, Fields
          <6>2. p \in Bytes /\ Len(p) = left
            <7>1. p \in Bytes /\ Len(p) = IF t.data_offset < t.data_len THEN t.data_len - t.data_offset ELSE 0
              <8>1. t.data_len \in Int /\ t.data_len <= Len(t.buf) /\ t.data_offset \in Nat
                BY <1>1, <1>2
              <8> QED BY <8>1, <6>1, Part
            <7> HIDE DEF p
            <7> QED BY <7>1, <1>1, <1>2, SMTT(60) DEF left
          <6>3. t.fpos < Len(t.file)
            <7>1. 1 <= l
              BY <3>1, <1>2
            <7> QED BY <5>1, <7>1, <1>2, <3>3, SMTT(60)
          <6>4. q \in Bytes /\ Len(q) = Len(t.file) - t.fpos
            <7>1. q \in Bytes /\ Len(q) = IF t.fpos < Len(t.file) THEN Len(t.file) - t.fpos ELSE 0
              BY <1>2, <6>1, Part, SMTT(60)
            <7> HIDE DEF q
            <7> QED BY <7>1, <6>3
          <6>5. all = p \o q
            BY <1>1, <1>2 DEF all, Rest, Lesser
          <6> HIDE DEF p, q
          <6> QED BY <6>2, <6>4, <6>5, Joined
        <5>3. n <= Len(all)
          BY <5>1, <5>2, <1>2, <3>3, SMTT(60)
        <5> QED BY <5>3, <4>3
      <4> QED BY <4>2, <4>3
    <3> HIDE DEF u
    <3> QED BY <3>2, <3>4, <3>5, ReadOutcomeIs, ToldIf
  <2>5. ASSUME NEW c \in {Len(all)} \cap 0..(n - 1),
               r = Gave([fill_stream(t, c - left, 0) EXCEPT !.eof = TRUE], all, "ok")
        PROVE  ReadOutcome(t, r) /\ Told(r, n)
    <3> DEFINE a == c - left
               u == [fill_stream(t, a, 0) EXCEPT !.eof = TRUE]
    <3>1. a \in Nat /\ 0 \in Nat /\ 0 <= 0 /\ 0 <= t.buffer_size
      BY <1>2, <1>3
    <3>2. r = Gave(u, all, "ok")
      BY <2>5
    <3> HIDE DEF a
    <3>3. u.eof
      BY <1>1 DEF fill_stream, StreamType
    <3>4. Reader(u) /\ Same(t, u) /\ Keeps(t, u)
      BY <3>1, FillIs
    <3> HIDE DEF u
    <3> QED BY <1>3, <3>2, <3>3, <3>4, ReadOutcomeIs, ToldIf
  <2>6. ASSUME NEW c \in left..Lesser(n - 1, Len(all)), NEW e \in Faults,
               r = Gave(Indicate(fill_stream(t, c - left, 0), e), SubSeq(all, 1, c), e)
        PROVE  ReadOutcome(t, r) /\ Told(r, n)
    <3> DEFINE a == c - left
               u == fill_stream(t, a, 0)
    <3>1. a \in Nat /\ 0 \in Nat /\ 0 <= 0 /\ 0 <= t.buffer_size /\ c \in Nat /\ c <= Len(all)
      BY <1>2, <1>3 DEF Lesser
    <3>2. r = Gave(Indicate(u, e), SubSeq(all, 1, c), e)
      BY <2>6
    <3>3. SubSeq(all, 1, c) \in Bytes
      BY <1>3, <3>1, Front
    <3> HIDE DEF a
    <3>5. Reader(u) /\ Same(t, u) /\ Keeps(t, u)
      BY <1>2, <3>1, FillIs
    <3> HIDE DEF u
    <3> QED BY <3>2, <3>3, <3>5, IndicatedRead
  <2>7. CASE r \in S1
    <3>1. PICK m \in {n} \cap 0..left : r = Gave([t EXCEPT !.data_offset = @ + m], SubSeq(all, 1, n), "ok")
      BY <2>7
    <3> QED BY <2>3, <3>1
  <2>8. CASE r \in S2
    <3>1. PICK f \in Full : r = Gave([fill_stream(t, f[1], f[2]) EXCEPT !.data_offset = n - left - f[1]],
                                    SubSeq(all, 1, n), "ok")
      BY <2>8
    <3> QED BY <2>4, <3>1
  <2>9. CASE r \in S3
    <3>1. PICK c \in {Len(all)} \cap 0..(n - 1) :
            r = Gave([fill_stream(t, c - left, 0) EXCEPT !.eof = TRUE], all, "ok")
      BY <2>9
    <3> QED BY <2>5, <3>1
  <2>10. CASE r \in S4
    <3>1. PICK c \in left..Lesser(n - 1, Len(all)), e \in Faults :
            r = Gave(Indicate(fill_stream(t, c - left, 0), e), SubSeq(all, 1, c), e)
      BY <2>10
    <3> QED BY <2>6, <3>1
  <2> HIDE DEF S1, S2, S3, S4
  <2> QED BY <2>2, <2>7, <2>8, <2>9, <2>10
<1> QED BY <1>5, <1>6, <1>7

\* The bytes the backend has left, and a stream that has taken k of them directly.
Left(t) == SubSeq(t.file, t.fpos + 1, Len(t.file))
Taken(t, k) == [t EXCEPT !.fpos = @ + k, !.offset = @ + k]

\* The outcomes of es_read_nbf, one by one.
LEMMA ReadUnbufferedIs ==
  ASSUME NEW t, NEW n
  PROVE  \A r \in do_read_nbf(t, n) :
           \/ r = Gave(Taken(t, Lesser(n, Len(Left(t)))), SubSeq(Left(t), 1, Lesser(n, Len(Left(t)))), "ok")
           \/ \E k \in 0..Lesser(n - 1, Len(Left(t))), e \in Faults :
                 r = Gave(Taken(t, k), SubSeq(Left(t), 1, k), e)
<1> DEFINE S == {Gave(Taken(t, k), SubSeq(Left(t), 1, k), "ok") : k \in {Lesser(n, Len(Left(t)))}}
                \cup {Gave(Taken(t, k), SubSeq(Left(t), 1, k), e) :
                        k \in 0..Lesser(n - 1, Len(Left(t))), e \in Faults}
<1>1. do_read_nbf(t, n) = S
  BY DEF do_read_nbf, Taken, Left
<1> QED BY <1>1

\* es_read_nbf: the bytes come from the backend.
LEMMA ReadUnbufferedOk ==
  ASSUME NEW t, Reader(t), t.strategy = "_IONBF", NEW n \in Nat, NEW r \in do_read_nbf(t, n)
  PROVE  ReadOutcome(t, r)
<1> DEFINE in == Left(t)
           Took(k) == Taken(t, k)
<1>1. /\ t \in StreamType /\ Formed(t) /\ Bounded(t) /\ Counted(t) /\ t.data_len = 0
  BY UsableIs, Fields DEF Reader, Bounded, Formed
<1>2. in \in Bytes /\ Len(in) \in Nat
  <2>1. t.file \in Bytes /\ t.fpos \in Nat /\ Len(t.file) \in Int
    BY <1>1, Fields
  <2>2. in \in Bytes
    BY <2>1, Part DEF Left
  <2> HIDE DEF in
  <2> QED BY <2>2 DEF Bytes
<1>3. ASSUME NEW k \in Nat, k <= Len(in), NEW e \in {"ok"} \cup Faults
      PROVE  ReadOutcome(t, Gave(Took(k), SubSeq(in, 1, k), e))
  <2> DEFINE u == Took(k)
  <2>1. t.fpos + k \in Nat /\ t.offset + k \in Nat
    BY <1>1, Fields
  <2>2. /\ u \in StreamType /\ Same(t, u) /\ u.data_offset = t.data_offset /\ u.file = t.file
        /\ u.fpos = t.fpos + k /\ u.buf = t.buf /\ u.data_len = t.data_len /\ u.data_flushed = t.data_flushed
        /\ u.unread = t.unread /\ u.offset = t.offset + k /\ u.lost = t.lost /\ u.resent = t.resent
        /\ u.out = t.out /\ (u.writing <=> t.writing)
    BY <1>1, <2>1 DEF StreamType, Same, Taken
  <2> HIDE DEF u
  <2>3. Formed(u) /\ Bounded(u) /\ Mirrors(u)
    BY <1>1, <2>1, <2>2 DEF Formed, Bounded, Mirrors, Same
  <2>4. Counted(u)
    <3>1. t.fpos \in Nat /\ t.offset \in Nat /\ t.data_flushed \in Nat /\ t.lost \in Nat /\ t.resent \in Nat
      BY <1>1, Fields
    <3>2. \A x0, x1, x3, x4, x5 \in Nat :
            x0 = x1 + 0 + x3 + x4 + x5 => x0 + k = (x1 + k) + 0 + x3 + x4 + x5
      OBVIOUS
    <3> QED BY <1>1, <2>2, <3>1, <3>2 DEF Counted, Same
  <2>5. Reader(u)
    BY <2>2, <2>3, <2>4, UsableIs DEF Reader, Usable, Good, Same
  <2>6. Keeps(t, u)
    BY <2>2, <2>3, <2>5, ReaderKeeps DEF Reader
  <2>7. SubSeq(in, 1, k) \in Bytes
    <3> HIDE DEF in
    <3> QED BY <1>2, <1>3, Front
  <2>8. ReadOutcome(t, Gave(u, SubSeq(in, 1, k), e))
    <3> HIDE DEF in
    <3> QED BY <2>2, <2>5, <2>6, <2>7, ReadOutcomeIs
  <2> QED BY <2>8 DEF u
<1>4. \/ r = Gave(Took(Lesser(n, Len(in))), SubSeq(in, 1, Lesser(n, Len(in))), "ok")
      \/ \E k \in 0..Lesser(n - 1, Len(in)), e \in Faults : r = Gave(Took(k), SubSeq(in, 1, k), e)
  BY ReadUnbufferedIs
<1> HIDE DEF in, Took
<1>5. Lesser(n, Len(in)) \in Nat /\ Lesser(n, Len(in)) <= Len(in)
  BY <1>2 DEF Lesser
<1>6. \A k \in 0..Lesser(n - 1, Len(in)) : k \in Nat /\ k <= Len(in)
  BY <1>2 DEF Lesser
<1>7. CASE r = Gave(Took(Lesser(n, Len(in))), SubSeq(in, 1, Lesser(n, Len(in))), "ok")
  BY <1>3, <1>5, <1>7
<1>8. CASE \E k \in 0..Lesser(n - 1, Len(in)), e \in Faults : r = Gave(Took(k), SubSeq(in, 1, k), e)
  <2>1. PICK k \in 0..Lesser(n - 1, Len(in)), e \in Faults : r = Gave(Took(k), SubSeq(in, 1, k), e)
    BY <1>8
  <2> QED BY <1>3, <1>6, <2>1
<1> QED BY <1>4, <1>7, <1>8

-----------------------------------------------------------------------------
(* The unread bytes, and the operations that read through them. *)

\* A harmless step after one that changed nothing for the worse.
LEMMA HarmlessAfter ==
  ASSUME NEW t, NEW u, NEW r, Good(t), Good(u), Same(t, u), Keeps(t, u), Harmless(u, r)
  PROVE  Harmless(t, r)
<1>1. Formed(t) /\ Formed(u) /\ Formed(r.s) /\ u.backend = t.backend /\ Same(t, r.s)
  BY DEF Good, Harmless, GoodOutcome, Same
<1>2. Keeps(t, r.s)
  BY <1>1, NoBytes, KeepsAfter DEF Keeps, Harmless
<1> QED BY <1>1, <1>2 DEF Harmless

\* The indicators that the operations set or clear.
LEMMA MarkedIs ==
  ASSUME NEW t, Good(t),
         NEW u \in {[t EXCEPT !.err = TRUE], [t EXCEPT !.err = FALSE], [t EXCEPT !.eof = TRUE],
                    [t EXCEPT !.eof = FALSE, !.err = FALSE]}
  PROVE  u \in StreamType /\ Good(u) /\ Same(t, u) /\ Keeps(t, u) /\ Untouched(t, u)
<1>1. t \in StreamType
  BY DEF Good, Formed
<1> DEFINE Fine == /\ u \in StreamType /\ Untouched(t, u) /\ u.buf = t.buf
                   /\ u.data_offset = t.data_offset /\ u.unread = t.unread
<1>2. ASSUME u = [t EXCEPT !.err = TRUE] PROVE Fine
  BY <1>1, <1>2 DEF StreamType, Untouched, Same
<1>3. ASSUME u = [t EXCEPT !.err = FALSE] PROVE Fine
  BY <1>1, <1>3 DEF StreamType, Untouched, Same
<1>4. ASSUME u = [t EXCEPT !.eof = TRUE] PROVE Fine
  BY <1>1, <1>4 DEF StreamType, Untouched, Same
<1>5. ASSUME u = [t EXCEPT !.eof = FALSE, !.err = FALSE] PROVE Fine
  BY <1>1, <1>5 DEF StreamType, Untouched, Same
<1>6. Fine
  <2> HIDE DEF Fine
  <2> QED BY <1>2, <1>3, <1>4, <1>5
<1> QED BY <1>6, UntouchedIsGood DEF Untouched

WithErr(f, b) == [f EXCEPT !.s.err = b]

\* An outcome with its error indicator set or cleared.
LEMMA MarkedOutcome ==
  ASSUME NEW t, NEW f, Harmless(t, f), Good(t), NEW b \in BOOLEAN
  PROVE  Harmless(t, WithErr(f, b))
<1>1. f \in OutcomeType /\ f.s \in StreamType /\ Good(f.s)
  BY DEF Harmless, GoodOutcome, OutcomeType
<1> DEFINE r == WithErr(f, b)
           u == [f.s EXCEPT !.err = b]
<1>3. r = [s |-> u, err |-> f.err, n |-> f.n, got |-> f.got]
  BY <1>1 DEF OutcomeType, WithErr
<1>4. u \in StreamType /\ Good(u) /\ Same(f.s, u) /\ Keeps(f.s, u)
  <2>1. u \in {[f.s EXCEPT !.err = TRUE], [f.s EXCEPT !.err = FALSE]}
    OBVIOUS
  <2> HIDE DEF u
  <2> QED BY <1>1, <2>1, MarkedIs
<1> HIDE DEF u, r
<1>5. r \in OutcomeType /\ r.s = u /\ r.err = f.err
  BY <1>1, <1>3, <1>4 DEF OutcomeType
<1>6. Harmless(f.s, r)
  BY <1>4, <1>5 DEF Harmless, GoodOutcome
<1>7. Same(t, f.s) /\ Keeps(t, f.s)
  BY DEF Harmless
<1> QED BY <1>1, <1>6, <1>7, HarmlessAfter DEF r

\* The unread bytes in the order in which they are read.
LEMMA ReversedIs ==
  ASSUME NEW q \in Bytes
  PROVE  Reversed(q) \in Bytes /\ Len(Reversed(q)) = Len(q)
<1>1. Len(q) \in Nat
  BY DEF Bytes
<1>2. \A i \in 1..Len(q) : Len(q) + 1 - i \in 1..Len(q)
  BY <1>1
<1>3. \A i \in 1..Len(q) : q[Len(q) + 1 - i] \in Byte
  BY <1>2 DEF Bytes
<1> QED BY <1>1, <1>3 DEF Reversed, Bytes

\* A read takes the bytes pushed back first.
LEMMA TakeUnreadOk ==
  ASSUME NEW t, Reader(t), NEW n \in Nat
  PROVE  /\ ReadOutcome(t, TakeUnread(t, n)) /\ TakeUnread(t, n).n \in Nat
         /\ n - TakeUnread(t, n).n \in Nat
<1> DEFINE L == Len(t.unread)
           u == Lesser(n, L)
           w == SubSeq(t.unread, 1, L - u)
           v == [t EXCEPT !.unread = w]
           h == SubSeq(t.unread, L - u + 1, L)
           g == Reversed(h)
<1>1. t \in StreamType /\ Good(t) /\ L <= UnreadSize /\ t.unread \in Bytes /\ L \in Nat
  BY UsableIs, Fields DEF Reader, Bounded
<1>2. u \in Nat /\ u <= L /\ u <= n /\ n - u \in Nat /\ L - u \in Nat /\ L - u <= L /\ L \in Int
  <2> HIDE DEF L
  <2> QED BY <1>1 DEF Lesser
<1>3. TakeUnread(t, n) = Gave(v, g, "ok")
  BY DEF TakeUnread
<1> HIDE DEF u
<1>4. w \in Bytes /\ Len(w) = L - u
  BY <1>1, <1>2, Front
<1>5. g \in Bytes /\ Len(g) = u
  <2> DEFINE d == L - u
  <2>1. h \in Bytes /\ Len(h) = IF d < L THEN L - d ELSE 0
    <3>1. d \in Nat /\ L \in Int /\ L <= Len(t.unread) /\ h = SubSeq(t.unread, d + 1, L)
      BY <1>1, <1>2
    <3> HIDE DEF d, L, h
    <3> QED BY <1>1, <3>1, Part
  <2> HIDE DEF h
  <2>2. Len(h) = u
    <3> HIDE DEF L
    <3> QED BY <1>1, <1>2, <2>1
  <2> QED BY <2>1, <2>2, ReversedIs
<1> HIDE DEF w
<1> HIDE DEF g
<1>6. v \in StreamType /\ Untouched(t, v) /\ v.buf = t.buf /\ v.data_offset = t.data_offset
      /\ Len(v.unread) <= UnreadSize
  <2>1. UnreadSize \in Nat
    BY Constants
  <2>2. Len(w) <= UnreadSize
    <3> HIDE DEF L
    <3> QED BY <1>1, <1>2, <1>4, <2>1
  <2> QED BY <1>1, <1>4, <2>2 DEF StreamType, Untouched, Same, Bytes
<1> HIDE DEF v
<1>7. Good(v) /\ Keeps(t, v) /\ Same(t, v)
  BY <1>1, <1>6, UntouchedIsGood DEF Untouched
<1>8. Reader(v)
  BY <1>6, <1>7 DEF Reader, Usable, Untouched, Same
<1>9. ReadOutcome(t, Gave(v, g, "ok"))
  BY <1>5, <1>7, <1>8, ReadOutcomeIs
<1>10. TakeUnread(t, n).n = u
  BY <1>3, <1>5 DEF Gave
<1> HIDE DEF L
<1> QED BY <1>2, <1>3, <1>9, <1>10

\* A read, whichever strategy the stream follows.
LEMMA ReadByStrategy ==
  ASSUME NEW t, Reader(t), NEW n \in Nat,
         NEW r \in IF t.strategy = "_IONBF" THEN do_read_nbf(t, n) ELSE do_read_fbf(t, n)
  PROVE  ReadOutcome(t, r) /\ (t.strategy # "_IONBF" => Told(r, n))
<1>1. CASE t.strategy = "_IONBF"
  BY <1>1, ReadUnbufferedOk
<1>2. CASE t.strategy # "_IONBF"
  BY <1>2, ReadBufferedOk
<1> QED BY <1>1, <1>2

\* Where a read goes on after the unread bytes u, and what it gets in all.
ReadOn(t, u, n) == IF t.strategy = "_IONBF" THEN do_read_nbf(u.s, n - u.n) ELSE do_read_fbf(u.s, n - u.n)
After(u, q) == [q EXCEPT !.got = u.got \o @, !.n = u.n + @]

\* The outcomes of es_readn: the flush has failed, or the read goes on.
LEMMA ReadIs ==
  ASSUME NEW t, NEW n
  PROVE  \A r \in es_readn(t, n) : \E f \in ToReading(t) :
           \/ f.err # "ok" /\ r = f
           \/ f.err = "ok" /\ \E q \in ReadOn(t, TakeUnread(f.s, n), n) : r = After(TakeUnread(f.s, n), q)
<1> DEFINE E(f) == IF f.err # "ok" THEN {f}
                   ELSE {After(TakeUnread(f.s, n), q) : q \in ReadOn(t, TakeUnread(f.s, n), n)}
<1>1. es_readn(t, n) = UNION {E(f) : f \in ToReading(t)}
  BY DEF es_readn, ReadOn, After
<1>2. \A r \in es_readn(t, n) : \E f \in ToReading(t) : r \in E(f)
  <2> HIDE DEF E
  <2> QED BY <1>1
<1>3. \A r, f : r \in E(f) =>
        \/ f.err # "ok" /\ r = f
        \/ f.err = "ok" /\ \E q \in ReadOn(t, TakeUnread(f.s, n), n) : r = After(TakeUnread(f.s, n), q)
  OBVIOUS
<1> HIDE DEF E
<1> QED BY <1>2, <1>3

\* es_readn leaves a good stream, sends nothing, and tells why it stopped unless the
\* stream is unbuffered.
LEMMA ReadnOk ==
  ASSUME NEW t, Usable(t), NEW n \in Nat, NEW r \in es_readn(t, n)
  PROVE  /\ Harmless(t, r) /\ r.err \in {"ok", "EFAULT"} \cup Faults
         /\ t.strategy # "_IONBF" => Told(r, n)
<1>1. PICK f \in ToReading(t) :
        \/ f.err # "ok" /\ r = f
        \/ f.err = "ok" /\ \E q \in ReadOn(t, TakeUnread(f.s, n), n) : r = After(TakeUnread(f.s, n), q)
  BY ReadIs
<1>2. Harmless(t, f) /\ f.err \in {"ok"} \cup Faults /\ (f.err = "ok" => Reader(f.s))
      /\ (f.err \notin {"ok", "EAGAIN"} => f.s.err)
  BY ToReadingOk
<1>3. CASE f.err # "ok"
  BY <1>1, <1>2, <1>3 DEF Told
<1>4. CASE f.err = "ok"
  <2> DEFINE u == TakeUnread(f.s, n)
  <2>1. /\ Reader(f.s) /\ Same(t, f.s) /\ Keeps(t, f.s) /\ Good(t)
    BY <1>2, <1>4, UsableIs DEF Harmless
  <2>2. ReadOutcome(f.s, u) /\ u.n \in Nat /\ n - u.n \in Nat
    BY <2>1, TakeUnreadOk
  <2>3. PICK q \in ReadOn(t, u, n) : r = After(u, q)
    BY <1>1, <1>4
  <2> HIDE DEF u
  <2>4. Reader(u.s) /\ Same(f.s, u.s) /\ Keeps(f.s, u.s) /\ u.got \in Bytes
    BY <2>2 DEF ReadOutcome, Harmless, GoodOutcome, OutcomeType
  <2>5. u.s.strategy = t.strategy
    BY <2>1, <2>4 DEF Same
  <2>6. ReadOutcome(u.s, q) /\ (t.strategy # "_IONBF" => Told(q, n - u.n))
    BY <2>2, <2>3, <2>4, <2>5, ReadByStrategy DEF ReadOn
  <2>7. q \in OutcomeType /\ q.got \in Bytes /\ q.n \in Int
    BY <2>6 DEF ReadOutcome, Harmless, GoodOutcome, OutcomeType
  <2>8. u.got \o q.got \in Bytes /\ u.n + q.n \in Int
    <3>1. u.got \o q.got \in Bytes
      BY <2>4, <2>7, Joined
    <3> QED BY <2>2, <2>7, <3>1
  <2>9. r = [s |-> q.s, err |-> q.err, n |-> u.n + q.n, got |-> u.got \o q.got]
    BY <2>3, <2>7 DEF OutcomeType, After
  <2>10. r \in OutcomeType /\ r.s = q.s /\ r.err = q.err /\ r.n = u.n + q.n
    BY <2>7, <2>8, <2>9 DEF OutcomeType
  <2>11. Harmless(u.s, r)
    BY <2>6, <2>10 DEF ReadOutcome, Harmless, GoodOutcome
  <2>12. Good(f.s) /\ Good(u.s)
    BY <2>1, <2>4, UsableIs DEF Reader
  <2>13. Harmless(f.s, r)
    BY <2>4, <2>11, <2>12, HarmlessAfter
  <2>14. Harmless(t, r)
    BY <2>1, <2>12, <2>13, HarmlessAfter
  <2>15. t.strategy # "_IONBF" => Told(r, n)
    <3> SUFFICES ASSUME t.strategy # "_IONBF" PROVE Told(r, n)
      OBVIOUS
    <3>1. q.n = n - u.n => r.n = n
      BY <2>2, <2>7, <2>10
    <3> QED BY <2>6, <2>10, <3>1 DEF Told
  <2> QED BY <2>6, <2>10, <2>14, <2>15 DEF ReadOutcome
<1> QED BY <1>3, <1>4

\* There is a first newline, or none.
LEMMA LineLengthIs ==
  ASSUME NEW q \in Bytes
  PROVE  /\ LineLength(q) \in Nat /\ LineLength(q) \in 1..(Len(q) + 1)
         /\ \A j \in 1..(LineLength(q) - 1) : q[j] # NL
         /\ LineLength(q) <= Len(q) => q[LineLength(q)] = NL
<1> DEFINE N == Len(q)
           T == {i \in 1..(N + 1) : i = N + 1 \/ q[i] = NL}
           P(i) == /\ \A j \in 1..(i - 1) : q[j] # NL
                   /\ i <= N => q[i] = NL
<1>1. N \in Nat
  BY DEF Bytes
<1> HIDE DEF N
<1>2. T \subseteq Nat /\ N + 1 \in T
  BY <1>1
<1>3. PICK x \in T : \A y \in T : x <= y
  <2> HIDE DEF T
  <2> QED BY <1>2, Least
<1>4. x \in 1..(N + 1) /\ P(x)
  <2>1. x \in 1..(N + 1) /\ (x <= N => q[x] = NL)
    BY <1>1
  <2>2. ASSUME NEW j \in 1..(x - 1), q[j] = NL PROVE FALSE
    <3>1. j \in T /\ ~(x <= j)
      BY <2>1, <2>2, <1>1
    <3> QED BY <3>1, <1>3
  <2> QED BY <2>1, <2>2
<1>5. LineLength(q) = CHOOSE i \in 1..(N + 1) : P(i)
  BY DEF LineLength, N
<1> HIDE DEF P
<1>6. LineLength(q) \in 1..(N + 1) /\ P(LineLength(q))
  BY <1>4, <1>5
<1>7. LineLength(q) \in Nat
  BY <1>1, <1>6
<1> QED BY <1>6, <1>7 DEF P, N

\* The outcomes of _gpgrt_read_line.
LEMMA ReadLineIs ==
  ASSUME NEW t
  PROVE  \A r \in read_line(t) : \E f \in ToReading(t) :
           \/ f.err # "ok" /\ r = f
           \/ f.err = "ok" /\ r \in es_readn(f.s, LineLength(Reversed(t.unread) \o Rest(f.s)))
<1> DEFINE E(f) == IF f.err # "ok" THEN {f} ELSE es_readn(f.s, LineLength(Reversed(t.unread) \o Rest(f.s)))
<1>1. read_line(t) = UNION {E(f) : f \in ToReading(t)}
  BY DEF read_line
<1>2. \A r \in read_line(t) : \E f \in ToReading(t) : r \in E(f)
  <2> HIDE DEF E
  <2> QED BY <1>1
<1>3. \A r, f : r \in E(f) =>
        \/ f.err # "ok" /\ r = f
        \/ f.err = "ok" /\ r \in es_readn(f.s, LineLength(Reversed(t.unread) \o Rest(f.s)))
  OBVIOUS
<1> HIDE DEF E
<1> QED BY <1>2, <1>3

\* _gpgrt_read_line leaves a good stream and sends nothing.
LEMMA ReadLineOk ==
  ASSUME NEW t, Usable(t), NEW r \in read_line(t)
  PROVE  Harmless(t, r)
<1>1. PICK f \in ToReading(t) :
        \/ f.err # "ok" /\ r = f
        \/ f.err = "ok" /\ r \in es_readn(f.s, LineLength(Reversed(t.unread) \o Rest(f.s)))
  BY ReadLineIs
<1>2. Harmless(t, f) /\ (f.err = "ok" => Reader(f.s))
  BY ToReadingOk
<1>3. CASE f.err # "ok"
  BY <1>1, <1>2, <1>3
<1>4. CASE f.err = "ok"
  <2> DEFINE a == Reversed(t.unread)
             b == Rest(f.s)
             n == LineLength(a \o b)
  <2>1. Reader(f.s) /\ Usable(f.s) /\ Good(f.s) /\ Good(t) /\ Same(t, f.s) /\ Keeps(t, f.s)
    BY <1>2, <1>4, UsableIs DEF Harmless, Reader
  <2>2. a \in Bytes /\ b \in Bytes
    BY <2>1, RestIs, ReversedIs, UsableIs, Fields
  <2> HIDE DEF a, b
  <2>3. n \in Nat
    BY <2>2, Joined, LineLengthIs
  <2>4. r \in es_readn(f.s, n)
    BY <1>1, <1>4 DEF a, b
  <2> HIDE DEF n
  <2>5. Harmless(f.s, r)
    BY <2>1, <2>3, <2>4, ReadnOk
  <2> QED BY <2>1, <2>5, HarmlessAfter
<1> QED BY <1>3, <1>4

\* getline on a stream that has its line, or is at its end, or fails.
LineOutcome(t, r) ==
  \/ t.buffer_size = 0 /\ r = Done([t EXCEPT !.eof = TRUE])
  \/ \E q \in do_read_fbf(t, LineLength(Rest(t))) :
       r = IF q.err = "ok" THEN q ELSE Fail([q.s EXCEPT !.err = TRUE], q.err)

\* The outcomes of doreadline.
LEMMA GetLineIs ==
  ASSUME NEW t
  PROVE  \A r \in doreadline(t) : \E f \in ToReading(t) :
           \/ f.err # "ok" /\ r = [f EXCEPT !.s.err = TRUE]
           \/ f.err = "ok" /\ LineOutcome(f.s, r)
<1> DEFINE G(q) == IF q.err = "ok" THEN q ELSE Fail([q.s EXCEPT !.err = TRUE], q.err)
           Q(f) == do_read_fbf(f.s, LineLength(Rest(f.s)))
           E(f) == IF f.err # "ok" THEN {[f EXCEPT !.s.err = TRUE]}
                   ELSE IF f.s.buffer_size = 0 THEN {Done([f.s EXCEPT !.eof = TRUE])}
                   ELSE {G(q) : q \in Q(f)}
<1>1. doreadline(t) = UNION {E(f) : f \in ToReading(t)}
  BY DEF doreadline
<1>2. \A r \in doreadline(t) : \E f \in ToReading(t) : r \in E(f)
  <2> HIDE DEF E
  <2> QED BY <1>1
<1>3. \A r, f : r \in E(f) =>
        \/ f.err # "ok" /\ r = [f EXCEPT !.s.err = TRUE]
        \/ f.err = "ok" /\ \/ f.s.buffer_size = 0 /\ r = Done([f.s EXCEPT !.eof = TRUE])
                           \/ \E q \in Q(f) : r = G(q)
  <2> HIDE DEF G, Q
  <2> QED OBVIOUS
<1>4. \A r, f : LineOutcome(f.s, r) <=>
        \/ f.s.buffer_size = 0 /\ r = Done([f.s EXCEPT !.eof = TRUE])
        \/ \E q \in Q(f) : r = G(q)
  BY DEF LineOutcome
<1> HIDE DEF E, G, Q
<1> QED BY <1>2, <1>3, <1>4

\* doreadline leaves a good stream and sends nothing.
LEMMA GetLineOk ==
  ASSUME NEW t, Usable(t), NEW r \in doreadline(t)
  PROVE  Harmless(t, r)
<1>1. PICK f \in ToReading(t) :
        \/ f.err # "ok" /\ r = [f EXCEPT !.s.err = TRUE]
        \/ f.err = "ok" /\ LineOutcome(f.s, r)
  BY GetLineIs
<1>2. Harmless(t, f) /\ (f.err = "ok" => Reader(f.s)) /\ Good(t)
  BY ToReadingOk, UsableIs
<1>3. CASE f.err # "ok"
  <2>1. r = WithErr(f, TRUE)
    BY <1>1, <1>3 DEF WithErr
  <2> QED BY <1>2, <2>1, MarkedOutcome
<1>4. CASE f.err = "ok"
  <2> DEFINE u == f.s
  <2>1. Reader(u) /\ Good(u) /\ Same(t, u) /\ Keeps(t, u) /\ LineOutcome(u, r)
    BY <1>1, <1>2, <1>4, UsableIs DEF Harmless, Reader
  <2> HIDE DEF u
  <2>2. CASE r = Done([u EXCEPT !.eof = TRUE])
    <3> DEFINE v == [u EXCEPT !.eof = TRUE]
    <3>1. v \in StreamType /\ Good(v) /\ Same(u, v) /\ Keeps(u, v)
      <4>1. v \in {[u EXCEPT !.err = TRUE], [u EXCEPT !.err = FALSE], [u EXCEPT !.eof = TRUE],
                    [u EXCEPT !.eof = FALSE, !.err = FALSE]}
        OBVIOUS
      <4> HIDE DEF v
      <4> QED BY <2>1, <4>1, MarkedIs
    <3> HIDE DEF v
    <3>2. r = [s |-> v, err |-> "ok", n |-> 0, got |-> <<>>] /\ r \in OutcomeType
      BY <2>2, <3>1, DoneIs DEF v
    <3>3. Harmless(u, r)
      BY <3>1, <3>2 DEF Harmless, GoodOutcome
    <3> QED BY <2>1, <3>3, <1>2, HarmlessAfter
  <2>3. ASSUME NEW q \in do_read_fbf(u, LineLength(Rest(u))),
               r = IF q.err = "ok" THEN q ELSE Fail([q.s EXCEPT !.err = TRUE], q.err)
        PROVE  Harmless(t, r)
    <3>1. ReadOutcome(u, q)
      BY <2>1, RestIs, LineLengthIs, ReadBufferedOk
    <3>2. Harmless(u, q) /\ q.err \in Errno /\ q.s \in StreamType /\ Good(q.s)
      BY <3>1 DEF ReadOutcome, Harmless, GoodOutcome, OutcomeType
    <3>3. CASE q.err = "ok"
      <4>1. r = q
        BY <2>3, <3>3
      <4> QED BY <2>1, <3>2, <4>1, <1>2, HarmlessAfter
    <3>4. CASE q.err # "ok"
      <4> DEFINE v == [q.s EXCEPT !.err = TRUE]
      <4>1. v \in StreamType /\ Good(v) /\ Same(q.s, v) /\ Keeps(q.s, v)
        <5>1. v \in {[q.s EXCEPT !.err = TRUE], [q.s EXCEPT !.err = FALSE], [q.s EXCEPT !.eof = TRUE],
                      [q.s EXCEPT !.eof = FALSE, !.err = FALSE]}
          OBVIOUS
        <5> HIDE DEF v
        <5> QED BY <3>2, <5>1, MarkedIs
      <4> HIDE DEF v
      <4>2. r = Fail(v, q.err)
        BY <2>3, <3>4 DEF v
      <4>3. r = [s |-> v, err |-> q.err, n |-> 0, got |-> <<>>] /\ r \in OutcomeType
        BY <3>2, <4>1, <4>2, FailIs
      <4>4. Harmless(q.s, r)
        BY <4>1, <4>3 DEF Harmless, GoodOutcome
      <4>5. Same(u, q.s) /\ Keeps(u, q.s)
        BY <3>2 DEF Harmless
      <4>6. Harmless(u, r)
        BY <2>1, <3>2, <4>4, <4>5, HarmlessAfter
      <4> QED BY <2>1, <4>6, <1>2, HarmlessAfter
    <3> QED BY <3>3, <3>4
  <2> QED BY <2>1, <2>2, <2>3 DEF LineOutcome
<1> QED BY <1>3, <1>4

\* check_pending leaves a good stream and sends nothing.
LEMMA PendingOk ==
  ASSUME NEW t, Usable(t), NEW r \in check_pending(t)
  PROVE  Harmless(t, r)
<1>1. PICK f \in ToReading(t) : r = Wrote(f.s, 0, "ok")
  BY DEF check_pending
<1>2. Harmless(t, f) /\ f.s \in StreamType
  BY ToReadingOk DEF Harmless, GoodOutcome, OutcomeType
<1>3. "ok" \in Errno /\ 0 \in Int /\ <<>> \in Bytes
  BY FaultsAre, NoBytes
<1>4. r = [s |-> f.s, err |-> "ok", n |-> 0, got |-> <<>>] /\ r \in OutcomeType
  BY <1>1, <1>2, <1>3, OutcomeIs
<1> QED BY <1>2, <1>4 DEF Harmless, GoodOutcome

\* es_unreadn leaves a good stream and sends nothing.
LEMMA UnreadnOk ==
  ASSUME NEW t, Usable(t), NEW c \in Byte
  PROVE  Harmless(t, es_unreadn(t, c))
<1>1. "ok" \in Errno /\ 0 \in Int /\ 1 \in Int /\ <<>> \in Bytes /\ UnreadSize \in Nat
  BY FaultsAre, NoBytes, Constants
<1>2. t \in StreamType /\ Good(t) /\ t.unread \in Bytes /\ Len(t.unread) \in Nat
  BY UsableIs, Fields
<1>3. CASE Len(t.unread) < UnreadSize
  <2> DEFINE q == Append(t.unread, c)
             u == [t EXCEPT !.unread = q, !.eof = FALSE]
  <2>1. q \in Bytes /\ Len(q) = Len(t.unread) + 1
    BY <1>2 DEF Bytes
  <2> HIDE DEF q
  <2>2. u \in StreamType /\ Untouched(t, u) /\ u.buf = t.buf /\ u.data_offset = t.data_offset
        /\ Len(u.unread) <= UnreadSize
    <3>1. u \in StreamType
      BY <1>2, <2>1 DEF StreamType, Bytes
    <3>2. u.unread = q /\ Untouched(t, u) /\ u.buf = t.buf /\ u.data_offset = t.data_offset
      BY <1>2 DEF StreamType, Untouched, Same
    <3>3. Len(q) <= UnreadSize
      BY <1>1, <1>2, <1>3, <2>1
    <3> HIDE DEF u
    <3> QED BY <3>1, <3>2, <3>3
  <2>3. es_unreadn(t, c) = Wrote(u, 1, "ok")
    BY <1>3 DEF es_unreadn, q
  <2> HIDE DEF u
  <2>4. Good(u) /\ Keeps(t, u) /\ Same(t, u)
    BY <1>2, <2>2, UntouchedIsGood DEF Untouched
  <2>5. es_unreadn(t, c) = [s |-> u, err |-> "ok", n |-> 1, got |-> <<>>] /\ es_unreadn(t, c) \in OutcomeType
    BY <1>1, <2>2, <2>3, OutcomeIs
  <2> HIDE DEF es_unreadn
  <2> QED BY <2>4, <2>5 DEF Harmless, GoodOutcome
<1>4. CASE ~(Len(t.unread) < UnreadSize)
  <2>1. es_unreadn(t, c) = Wrote(t, 0, "ok")
    BY <1>4 DEF es_unreadn
  <2>2. es_unreadn(t, c) = [s |-> t, err |-> "ok", n |-> 0, got |-> <<>>] /\ es_unreadn(t, c) \in OutcomeType
    BY <1>1, <1>2, <2>1, OutcomeIs
  <2> QED BY <1>2, <2>2, UsableIs, KeepsSelf DEF Harmless, GoodOutcome, Same
<1> QED BY <1>3, <1>4

-----------------------------------------------------------------------------
(* Seeking, and dropping what was read ahead. *)

\* A stream after es_empty.
LEMMA EmptyIs ==
  ASSUME NEW t \in StreamType
  PROVE  LET u == es_empty(t)
         IN /\ u \in StreamType /\ Same(t, u) /\ u.file = t.file /\ u.fpos = t.fpos /\ u.out = t.out
            /\ u.buf = <<>> /\ u.data_len = 0 /\ u.data_offset = 0 /\ u.unread = <<>>
            /\ u.data_flushed = t.data_flushed /\ u.offset = t.offset
            /\ u.lost = t.lost /\ u.resent = t.resent /\ (u.writing <=> t.writing)
  BY NoBytes DEF es_empty, StreamType, Same, Bytes

\* Where a seek goes is a number.
LEMMA TargetIs ==
  ASSUME NEW t \in StreamType, NEW whence \in {"SEEK_SET", "SEEK_CUR", "SEEK_END"}, NEW o \in Int
  PROVE  Target(t, whence, o) \in Int
<1>1. t.fpos \in Nat /\ t.data_len \in Nat /\ t.data_offset \in Nat /\ Len(t.unread) \in Nat /\ Len(t.file) \in Nat
  BY Fields
<1>2. t.fpos + o - t.data_len + t.data_offset - Len(t.unread) \in Int /\ Len(t.file) + o \in Int
  BY <1>1, SMTT(60)
<1> QED BY <1>2 DEF Target

\* The error of a seek that fails, and the indicator it leaves.
LEMMA SeekFails ==
  ASSUME NEW t, Good(t), NEW e \in Errno
  PROVE  /\ Harmless(t, Fail([t EXCEPT !.err = TRUE], e))
         /\ Fail([t EXCEPT !.err = TRUE], e).err = e /\ Fail([t EXCEPT !.err = TRUE], e).n = 0
         /\ Untouched(t, Fail([t EXCEPT !.err = TRUE], e).s)
<1> DEFINE v == [t EXCEPT !.err = TRUE]
<1>1. v \in StreamType /\ Good(v) /\ Same(t, v) /\ Keeps(t, v) /\ Untouched(t, v)
  <2>1. v \in {[t EXCEPT !.err = TRUE], [t EXCEPT !.err = FALSE], [t EXCEPT !.eof = TRUE],
               [t EXCEPT !.eof = FALSE, !.err = FALSE]}
    OBVIOUS
  <2> HIDE DEF v
  <2> QED BY <2>1, MarkedIs
<1> HIDE DEF v
<1>2. Fail(v, e) = [s |-> v, err |-> e, n |-> 0, got |-> <<>>] /\ Fail(v, e) \in OutcomeType
  BY <1>1, FailIs
<1>3. Harmless(t, Fail(v, e)) /\ Fail(v, e).err = e /\ Fail(v, e).n = 0 /\ Untouched(t, Fail(v, e).s)
  BY <1>1, <1>2 DEF Harmless, GoodOutcome
<1> QED BY <1>3 DEF v

\* A seek of a reader: the stream is empty afterwards, or stays where it was.
LEMMA FuncSeekOk ==
  ASSUME NEW t, Reader(t), NEW whence \in {"SEEK_SET", "SEEK_CUR", "SEEK_END"}, NEW o \in Int,
         t.backend # "noseek"
  PROVE  LET r == func_seek(t, whence, o)
         IN /\ Harmless(t, r) /\ r.err \in {"ok", "ESPIPE", "EINVAL"} /\ r.n = 0
            /\ r.err = "ok" => Reader(r.s) /\ Clean(r.s) /\ t.backend = "file"
            /\ r.err = "ESPIPE" => Reader(r.s) /\ t.backend = "pipe"
<1> DEFINE p == Target(t, whence, o)
<1>1. t \in StreamType /\ Good(t) /\ t.backend \in {"file", "pipe", "noseek"} /\ Formed(t) /\ Bounded(t)
      /\ t.status = "open" /\ ~t.turned /\ ~t.writing
  BY UsableIs, Fields DEF Reader
<1>2. p \in Int
  BY <1>1, TargetIs
<1> HIDE DEF p
<1>3. CASE t.backend = "pipe"
  <2> DEFINE r == Fail([t EXCEPT !.err = TRUE], "ESPIPE")
  <2>1. func_seek(t, whence, o) = r
    BY <1>3 DEF func_seek
  <2>2. Harmless(t, r) /\ r.err = "ESPIPE" /\ r.n = 0 /\ Untouched(t, r.s)
    BY <1>1, FaultsAre, SeekFails
  <2> HIDE DEF r
  <2>3. Reader(r.s)
    BY <1>1, <2>2 DEF Harmless, GoodOutcome, Reader, Usable, Same, Untouched
  <2> QED BY <1>3, <2>1, <2>2, <2>3
<1>4. CASE t.backend # "pipe" /\ p < 0
  <2> DEFINE r == Fail([t EXCEPT !.err = TRUE], "EINVAL")
  <2>1. func_seek(t, whence, o) = r
    BY <1>4 DEF func_seek, p
  <2>2. Harmless(t, r) /\ r.err = "EINVAL" /\ r.n = 0
    BY <1>1, FaultsAre, SeekFails
  <2> HIDE DEF r
  <2> QED BY <2>1, <2>2
<1>5. CASE t.backend # "pipe" /\ ~(p < 0)
  <2> DEFINE E == es_empty(t)
             u == [E EXCEPT !.fpos = p, !.offset = p, !.eof = FALSE, !.lost = 0, !.resent = 0]
             r == Done(u)
  <2>1. func_seek(t, whence, o) = r
    BY <1>5 DEF func_seek, p
  <2>2. t.backend = "file"
    BY <1>1, <1>5
  <2>3. /\ E \in StreamType /\ Same(t, E) /\ E.file = t.file /\ E.fpos = t.fpos /\ E.out = t.out
        /\ E.buf = <<>> /\ E.data_len = 0 /\ E.data_offset = 0 /\ E.unread = <<>>
        /\ E.data_flushed = t.data_flushed /\ E.offset = t.offset
        /\ E.lost = t.lost /\ E.resent = t.resent /\ (E.writing <=> t.writing)
    BY <1>1, EmptyIs
  <2> HIDE DEF E
  <2>4. p \in Nat
    BY <1>2, <1>5
  <2>5. /\ u \in StreamType /\ Same(E, u) /\ u.file = E.file /\ u.fpos = p /\ u.out = E.out
        /\ u.buf = E.buf /\ u.data_len = E.data_len /\ u.data_offset = E.data_offset /\ u.unread = E.unread
        /\ u.data_flushed = E.data_flushed /\ u.offset = p
        /\ u.lost = 0 /\ u.resent = 0 /\ (u.writing <=> E.writing)
    BY <2>3, <2>4 DEF StreamType, Same
  <2> HIDE DEF u
  <2>6. /\ Same(t, u) /\ u.buf = <<>> /\ u.data_len = 0 /\ u.data_offset = 0 /\ u.unread = <<>>
        /\ u.data_flushed = 0 /\ ~u.writing
    BY <2>3, <2>5, <1>1 DEF Same, Bounded
  <2>7. Formed(u) /\ Bounded(u) /\ Mirrors(u) /\ Clean(u)
    <3>1. t.buffer_size \in Nat /\ UnreadSize \in Nat
      BY <1>1, Fields, Constants
    <3> QED BY <1>1, <2>4, <2>5, <2>6, <3>1, NoBytes DEF Formed, Bounded, Mirrors, Clean, Same
  <2>8. Counted(u)
    BY <2>4, <2>5, <2>6 DEF Counted
  <2>9. Reader(u)
    BY <1>1, <2>6, <2>7, <2>8 DEF Reader, Usable, Good, Same
  <2>10. Keeps(t, u)
    BY <2>2 DEF Keeps, Sends
  <2>11. r = [s |-> u, err |-> "ok", n |-> 0, got |-> <<>>] /\ r \in OutcomeType
    BY <2>5, DoneIs
  <2> HIDE DEF r
  <2> QED BY <2>1, <2>2, <2>6, <2>7, <2>9, <2>10, <2>11, UsableIs DEF Harmless, GoodOutcome, Reader
<1> QED BY <1>3, <1>4, <1>5

\* The outcomes of es_seek.
LEMMA SeekIs ==
  ASSUME NEW t, NEW whence, NEW o
  PROVE  es_seek(t, whence, o) =
           IF t.backend = "noseek" THEN {Fail([t EXCEPT !.err = TRUE], "EOPNOTSUPP")}
           ELSE {IF f.err # "ok" THEN WithErr(f, TRUE) ELSE func_seek(f.s, whence, o) : f \in ToReading(t)}
  BY DEF es_seek, WithErr

\* es_seek leaves a good stream, empty if it succeeds, and sends nothing.
LEMMA SeekOk ==
  ASSUME NEW t, Usable(t), NEW whence \in {"SEEK_SET", "SEEK_CUR", "SEEK_END"}, NEW o \in Int,
         NEW r \in es_seek(t, whence, o)
  PROVE  /\ Harmless(t, r) /\ r.n = 0
         /\ t.backend # "noseek" /\ r.err = "ok" => Reader(r.s) /\ Clean(r.s) /\ t.backend = "file"
         /\ t.backend # "noseek" /\ r.err = "ESPIPE" => Reader(r.s) /\ t.backend = "pipe"
<1>0. Good(t)
  BY UsableIs
<1>1. CASE t.backend = "noseek"
  <2>1. r = Fail([t EXCEPT !.err = TRUE], "EOPNOTSUPP")
    BY <1>1 DEF es_seek
  <2> QED BY <1>0, <1>1, <2>1, FaultsAre, SeekFails
<1>2. CASE t.backend # "noseek"
  <2>0. es_seek(t, whence, o) =
          {IF f.err # "ok" THEN WithErr(f, TRUE) ELSE func_seek(f.s, whence, o) : f \in ToReading(t)}
    BY <1>2, SeekIs
  <2>1. PICK f \in ToReading(t) : r = IF f.err # "ok" THEN WithErr(f, TRUE) ELSE func_seek(f.s, whence, o)
    BY <2>0
  <2>2. Harmless(t, f) /\ f.n = 0 /\ f.err \in {"ok"} \cup Faults /\ (f.err = "ok" => Reader(f.s))
    BY ToReadingOk
  <2>3. CASE f.err # "ok"
    <3>1. f \in OutcomeType
      BY <2>2 DEF Harmless, GoodOutcome
    <3>2. r = WithErr(f, TRUE) /\ Harmless(t, r)
      BY <1>0, <2>1, <2>2, <2>3, MarkedOutcome
    <3>3. r.err = f.err /\ r.n = 0
      BY <2>2, <3>1, <3>2 DEF WithErr, OutcomeType
    <3>4. r.err # "ok" /\ r.err # "ESPIPE"
      BY <2>2, <2>3, <3>3, FaultsAre
    <3> QED BY <3>2, <3>3, <3>4
  <2>4. CASE f.err = "ok"
    <3> DEFINE u == f.s
    <3>1. Reader(u) /\ Good(u) /\ Same(t, u) /\ Keeps(t, u) /\ r = func_seek(u, whence, o)
      BY <2>1, <2>2, <2>4, UsableIs DEF Harmless, Reader
    <3> HIDE DEF u
    <3>2. u.backend = t.backend
      BY <3>1 DEF Same
    <3>3. /\ Harmless(u, r) /\ r.n = 0
          /\ r.err = "ok" => Reader(r.s) /\ Clean(r.s) /\ u.backend = "file"
          /\ r.err = "ESPIPE" => Reader(r.s) /\ u.backend = "pipe"
      BY <1>2, <3>1, <3>2, FuncSeekOk
    <3>4. Harmless(t, r)
      BY <1>0, <3>1, <3>3, HarmlessAfter
    <3> QED BY <3>2, <3>3, <3>4
  <2> QED BY <2>3, <2>4
<1> QED BY <1>1, <1>2

-----------------------------------------------------------------------------
(* Parts of sequences, put together and taken apart. *)

\* Strings with the same bytes are the same.
LEMMA SameBytes ==
  ASSUME NEW p \in Bytes, NEW q \in Bytes, Len(p) = Len(q), \A i \in 1..Len(p) : p[i] = q[i]
  PROVE  p = q
  BY SeqEqual DEF Bytes

\* The bytes of a part.
LEMMA PartAt ==
  ASSUME NEW q \in Bytes, NEW a \in Nat, NEW b \in Nat, a <= b, b <= Len(q)
  PROVE  /\ SubSeq(q, a + 1, b) \in Bytes /\ Len(SubSeq(q, a + 1, b)) = b - a
         /\ \A i \in 1..(b - a) : SubSeq(q, a + 1, b)[i] = q[a + i]
<1>1. SubSeq(q, a + 1, b) \in Bytes /\ Len(SubSeq(q, a + 1, b)) = IF a < b THEN b - a ELSE 0
  BY Part
<1>2. (IF a < b THEN b - a ELSE 0) = b - a
  OBVIOUS
<1>3. ASSUME NEW i \in 1..(b - a) PROVE SubSeq(q, a + 1, b)[i] = q[a + i]
  <2>1. (a + 1) + i - 1 = a + i /\ i \in 1..(b - (a + 1) + 1)
    OBVIOUS
  <2> QED BY <2>1 DEF Bytes
<1> QED BY <1>1, <1>2, <1>3

\* The bytes of the first n.
LEMMA FrontAt ==
  ASSUME NEW q \in Bytes, NEW n \in Nat, n <= Len(q)
  PROVE  /\ SubSeq(q, 1, n) \in Bytes /\ Len(SubSeq(q, 1, n)) = n
         /\ \A i \in 1..n : SubSeq(q, 1, n)[i] = q[i]
<1>1. 0 \in Nat /\ 0 <= n /\ 0 + 1 = 1 /\ n - 0 = n
  OBVIOUS
<1>2. /\ SubSeq(q, 0 + 1, n) \in Bytes /\ Len(SubSeq(q, 0 + 1, n)) = n - 0
      /\ \A i \in 1..(n - 0) : SubSeq(q, 0 + 1, n)[i] = q[0 + i]
  BY <1>1, PartAt
<1>3. \A i \in 1..n : 0 + i = i
  OBVIOUS
<1> QED BY <1>1, <1>2, <1>3

\* The bytes of two strings joined.
LEMMA JoinedAt ==
  ASSUME NEW p \in Bytes, NEW q \in Bytes
  PROVE  /\ p \o q \in Bytes /\ Len(p \o q) = Len(p) + Len(q) /\ Len(p) \in Nat /\ Len(q) \in Nat
         /\ \A i \in 1..Len(p) : (p \o q)[i] = p[i]
         /\ \A i \in 1..Len(q) : (p \o q)[Len(p) + i] = q[i]
<1>1. Len(p) \in Nat /\ Len(q) \in Nat
  BY DEF Bytes
<1>2. \A i \in 1..(Len(p) + Len(q)) : (p \o q)[i] = IF i <= Len(p) THEN p[i] ELSE q[i - Len(p)]
  BY DEF Bytes
<1>3. \A i \in 1..Len(p) : i \in 1..(Len(p) + Len(q)) /\ i <= Len(p)
  BY <1>1
<1>4. \A i \in 1..Len(q) : /\ Len(p) + i \in 1..(Len(p) + Len(q)) /\ ~(Len(p) + i <= Len(p))
                           /\ (Len(p) + i) - Len(p) = i
  BY <1>1
<1> QED BY <1>2, <1>3, <1>4, Joined

\* The first d elements and the following ones up to e.
LEMMA Split ==
  ASSUME NEW q \in Bytes, NEW d \in Nat, NEW e \in Nat, d <= e, e <= Len(q)
  PROVE  SubSeq(q, 1, d) \o SubSeq(q, d + 1, e) = SubSeq(q, 1, e)
<1> DEFINE a == SubSeq(q, 1, d)
           b == SubSeq(q, d + 1, e)
           c == SubSeq(q, 1, e)
<1>0. Len(q) \in Nat
  BY DEF Bytes
<1>1. a \in Bytes /\ Len(a) = d /\ \A i \in 1..d : a[i] = q[i]
  BY <1>0, FrontAt
<1>2. b \in Bytes /\ Len(b) = e - d /\ \A i \in 1..(e - d) : b[i] = q[d + i]
  BY <1>0, PartAt
<1>3. c \in Bytes /\ Len(c) = e /\ \A i \in 1..e : c[i] = q[i]
  BY <1>0, FrontAt
<1> HIDE DEF a, b, c
<1>4. /\ a \o b \in Bytes /\ Len(a \o b) = e
      /\ \A i \in 1..d : (a \o b)[i] = a[i]
      /\ \A j \in 1..(e - d) : (a \o b)[d + j] = b[j]
  <2>1. d + (e - d) = e
    OBVIOUS
  <2>2. /\ a \o b \in Bytes /\ Len(a \o b) = Len(a) + Len(b)
        /\ \A i \in 1..Len(a) : (a \o b)[i] = a[i]
        /\ \A i \in 1..Len(b) : (a \o b)[Len(a) + i] = b[i]
    BY <1>1, <1>2, JoinedAt
  <2> QED BY <1>1, <1>2, <2>1, <2>2
<1>5. ASSUME NEW i \in 1..e PROVE (a \o b)[i] = c[i]
  <2>1. CASE i <= d
    <3>1. i \in 1..d
      BY <2>1
    <3> QED BY <3>1, <1>1, <1>3, <1>4
  <2>2. CASE ~(i <= d)
    <3>1. i - d \in 1..(e - d) /\ d + (i - d) = i
      BY <2>2
    <3>2. (a \o b)[d + (i - d)] = b[i - d] /\ b[i - d] = q[d + (i - d)]
      BY <3>1, <1>2, <1>4
    <3> QED BY <3>1, <3>2, <1>3
  <2> QED BY <2>1, <2>2
<1>6. a \o b = c
  BY <1>3, <1>4, <1>5, SameBytes
<1> QED BY <1>6 DEF a, b, c

\* A part of a part.
LEMMA PartOfPart ==
  ASSUME NEW q \in Bytes, NEW a \in Nat, NEW b \in Nat, NEW k \in Nat, a <= b, b <= Len(q), k <= b - a
  PROVE  SubSeq(SubSeq(q, a + 1, b), 1, k) = SubSeq(q, a + 1, a + k)
<1> DEFINE p == SubSeq(q, a + 1, b)
           l == SubSeq(p, 1, k)
           r == SubSeq(q, a + 1, a + k)
<1>0. Len(q) \in Nat /\ a + k \in Nat /\ a <= a + k /\ a + k <= Len(q) /\ (a + k) - a = k
  BY DEF Bytes
<1>1. p \in Bytes /\ Len(p) = b - a /\ \A i \in 1..(b - a) : p[i] = q[a + i]
  BY PartAt
<1>2. r \in Bytes /\ Len(r) = k /\ \A i \in 1..k : r[i] = q[a + i]
  <2>1. r \in Bytes /\ Len(r) = (a + k) - a /\ \A i \in 1..((a + k) - a) : r[i] = q[a + i]
    BY <1>0, PartAt
  <2> HIDE DEF r
  <2> QED BY <2>1, <1>0
<1> HIDE DEF p
<1>3. l \in Bytes /\ Len(l) = k /\ \A i \in 1..k : l[i] = p[i]
  BY <1>1, FrontAt
<1>4. \A i \in 1..k : i \in 1..(b - a)
  OBVIOUS
<1>5. \A i \in 1..k : l[i] = r[i]
  <2> HIDE DEF l, r
  <2> QED BY <1>1, <1>2, <1>3, <1>4
<1>6. l = r
  <2> HIDE DEF l, r
  <2> QED BY <1>2, <1>3, <1>5, SameBytes
<1> QED BY <1>6 DEF p

\* The front of a sequence p and of what follows it.
LEMMA FrontOfJoined ==
  ASSUME NEW p \in Bytes, NEW w \in Bytes, NEW n \in Nat, n <= Len(w)
  PROVE  SubSeq(p \o w, 1, Len(p) + n) = p \o SubSeq(w, 1, n)
<1> DEFINE A == p \o w
           f == SubSeq(w, 1, n)
           B == p \o f
           m == Len(p) + n
           C == SubSeq(A, 1, m)
<1>1. /\ A \in Bytes /\ Len(A) = Len(p) + Len(w) /\ Len(p) \in Nat /\ Len(w) \in Nat
      /\ \A i \in 1..Len(p) : A[i] = p[i]
      /\ \A i \in 1..Len(w) : A[Len(p) + i] = w[i]
  BY JoinedAt
<1>2. f \in Bytes /\ Len(f) = n /\ \A i \in 1..n : f[i] = w[i]
  BY FrontAt
<1> HIDE DEF A, f
<1>3. /\ B \in Bytes /\ Len(B) = m
      /\ \A i \in 1..Len(p) : B[i] = p[i]
      /\ \A i \in 1..n : B[Len(p) + i] = f[i]
  BY <1>2, JoinedAt
<1>4. m \in Nat /\ m <= Len(A)
  BY <1>1
<1>5. C \in Bytes /\ Len(C) = m /\ \A i \in 1..m : C[i] = A[i]
  <2> HIDE DEF m
  <2> QED BY <1>1, <1>4, FrontAt
<1> HIDE DEF B, C
<1>6. ASSUME NEW i \in 1..m PROVE C[i] = B[i]
  <2>1. CASE i <= Len(p)
    <3>1. i \in 1..Len(p)
      BY <2>1, <1>4
    <3> QED BY <3>1, <1>1, <1>3, <1>5
  <2>2. CASE ~(i <= Len(p))
    <3>1. i - Len(p) \in 1..n /\ i - Len(p) \in 1..Len(w) /\ Len(p) + (i - Len(p)) = i
      BY <2>2, <1>1
    <3>2. A[Len(p) + (i - Len(p))] = w[i - Len(p)]
      BY <3>1, <1>1
    <3>3. B[Len(p) + (i - Len(p))] = f[i - Len(p)] /\ f[i - Len(p)] = w[i - Len(p)]
      BY <3>1, <1>2, <1>3
    <3> QED BY <3>1, <3>2, <3>3, <1>5
  <2> QED BY <2>1, <2>2
<1>7. C = B
  <2> HIDE DEF m
  <2> QED BY <1>3, <1>5, <1>6, SameBytes
<1> QED BY <1>7 DEF A, B, C, f

\* What the buffer holds after the writer has put b at its beginning.
LEMMA FrontOfOverlay ==
  ASSUME NEW q \in Bytes, NEW b \in Bytes
  PROVE  Upto(Overlay(q, 0, b), Len(b)) = b
<1> DEFINE O == Overlay(q, 0, b)
<1>1. Len(b) \in Nat /\ Len(q) \in Nat
  BY DEF Bytes
<1>2. CASE b = <<>>
  <2>1. Len(b) = 0 /\ O = q
    BY <1>2 DEF Overlay
  <2> QED BY <1>1, <1>2, <2>1, UptoIs
<1>3. CASE b # <<>>
  <2> DEFINE n == Larger(Len(q), 0 + Len(b))
  <2>1. n \in Nat /\ Len(b) <= n /\ 0 \in Nat
    BY <1>1 DEF Larger
  <2>2. O \in Bytes /\ Len(O) = n
    BY <1>3, <2>1, OverlayIs
  <2>3. O = [i \in 1..n |-> IF i > 0 /\ i <= 0 + Len(b) THEN b[i - 0]
                             ELSE IF i <= Len(q) THEN q[i] ELSE Zero]
    BY <1>3 DEF Overlay
  <2>4. \A i \in 1..Len(b) : i \in 1..n /\ i > 0 /\ i <= 0 + Len(b) /\ i - 0 = i
    <3> HIDE DEF n
    <3> QED BY <1>1, <2>1
  <2> HIDE DEF n
  <2>5. \A i \in 1..Len(b) : O[i] = b[i]
    BY <2>3, <2>4
  <2> HIDE DEF O
  <2>6. Lesser(Len(b), Len(O)) = Len(b)
    BY <1>1, <2>1, <2>2 DEF Lesser
  <2>7. Upto(O, Len(b)) = SubSeq(O, 1, Len(b))
    BY <2>6 DEF Upto
  <2>8. /\ SubSeq(O, 1, Len(b)) \in Bytes /\ Len(SubSeq(O, 1, Len(b))) = Len(b)
        /\ \A i \in 1..Len(b) : SubSeq(O, 1, Len(b))[i] = O[i]
    BY <1>1, <2>1, <2>2, FrontAt
  <2>9. SubSeq(O, 1, Len(b)) = b
    BY <2>5, <2>8, SameBytes
  <2> QED BY <2>7, <2>9 DEF O
<1> QED BY <1>2, <1>3

-----------------------------------------------------------------------------
(* Writing *)

\* A stream that writes, or that has turned to it.
Writer(t) ==
  /\ Good(t) /\ t.status = "open" /\ t.data_offset <= t.buffer_size
  /\ t.turned \/ t.writing

\* What a write of w promises: it has accepted the first r.n bytes, and the
\* backend has got or will get them after those accepted before.
WriteOutcome(t, w, r) ==
  /\ GoodOutcome(r) /\ r.n \in 0..Len(w)
  /\ r.s.backend = t.backend /\ r.s.accepted = t.accepted /\ (r.s.turned <=> t.turned)
  /\ ~t.turned => /\ r.s.writing
                  /\ Sends(t, SubSeq(w, 1, r.n), r.s)

\* What a stream is that is written.
LEMMA WriterIs ==
  ASSUME NEW t, Writer(t)
  PROVE  /\ t \in StreamType /\ Formed(t) /\ Counted(t) /\ Good(t) /\ t.status = "open"
         /\ t.data_offset <= t.buffer_size
         /\ ~t.turned => Bounded(t) /\ t.writing /\ t.data_len = 0
  BY DEF Writer, Good, Formed, Bounded

\* What was or will be sent has grown by a, and no byte was sent twice.
LEMMA SendsIf ==
  ASSUME NEW t, NEW u, NEW a \in Bytes, Formed(t), Formed(u), SentBy(u) = SentBy(t) \o a,
         u.data_flushed + u.resent = t.data_flushed + t.resent
  PROVE  Sends(t, a, u)
<1> DEFINE T == SentBy(t)
<1>1. T \in Bytes /\ t \in StreamType /\ u \in StreamType
  BY PendingIs DEF Formed
<1> HIDE DEF T
<1>2. T \o a \in Bytes /\ Len(T \o a) = Len(T) + Len(a) /\ Len(T) \in Nat /\ Len(a) \in Nat
  BY <1>1, Joined
<1>3. t.data_flushed \in Nat /\ t.resent \in Nat /\ u.data_flushed \in Nat /\ u.resent \in Nat
  BY <1>1, Fields
<1> DEFINE sum == t.data_flushed + t.resent
<1>4. News(t) = Len(T) - sum
  BY DEF News, T
<1>5. News(u) = Len(T \o a) - sum /\ sum \in Nat
  BY <1>3 DEF News, T
<1> HIDE DEF sum
<1>6. News(u) = News(t) + Len(a)
  <2> HIDE DEF News
  <2> QED BY <1>2, <1>4, <1>5
<1>7. Embeds(T \o a, SentBy(u))
  BY <1>2, EmbedsSelf DEF T
<1> QED BY <1>6, <1>7 DEF Sends, T

\* b is put into the buffer of x.
LEMMA BufferedIs ==
  ASSUME NEW x \in StreamType, NEW b \in Bytes
  PROVE  LET u == Buffered(x, b)
         IN /\ u \in StreamType /\ Same(x, u) /\ u.data_offset = Len(b) /\ Len(b) <= Len(u.buf)
            /\ x.data_len = 0 => u.buf = b
            /\ u.file = x.file /\ u.fpos = x.fpos /\ u.out = x.out /\ u.data_len = x.data_len
            /\ u.data_flushed = x.data_flushed /\ u.unread = x.unread /\ u.offset = x.offset
            /\ u.lost = x.lost /\ u.resent = x.resent /\ (u.writing <=> x.writing)
<1> DEFINE O == Overlay(x.buf, 0, b)
           m == Larger(Len(b), x.data_len)
           q == Upto(O, m)
<1>1. x.buf \in Bytes /\ x.data_len \in Nat /\ Len(b) \in Nat /\ Len(x.buf) \in Nat /\ 0 \in Nat
  BY Fields DEF Bytes
<1>2. m \in Nat /\ Len(b) <= m /\ (x.data_len = 0 => m = Len(b))
  BY <1>1 DEF Larger
<1>3. O \in Bytes /\ Len(O) = IF b = <<>> THEN Len(x.buf) ELSE Larger(Len(x.buf), 0 + Len(b))
  BY <1>1, OverlayIs
<1>4. Len(b) <= Len(O) /\ Len(O) \in Nat
  <2>1. b = <<>> => Len(b) = 0
    OBVIOUS
  <2> HIDE DEF O
  <2> QED BY <1>1, <1>3, <2>1 DEF Larger
<1>5. x.data_len = 0 => q = b
  BY <1>1, <1>2, FrontOfOverlay
<1> HIDE DEF O, m
<1>6. q \in Bytes /\ Len(q) = Lesser(m, Len(O))
  BY <1>2, <1>3, UptoIs
<1>7. Len(b) <= Len(q)
  <2> HIDE DEF q
  <2> QED BY <1>1, <1>2, <1>4, <1>6 DEF Lesser
<1>8. Buffered(x, b) = [x EXCEPT !.buf = q, !.data_offset = Len(b)]
  BY DEF Buffered, O, m
<1> HIDE DEF q
<1> QED BY <1>1, <1>5, <1>6, <1>7, <1>8, ZenonT(60) DEF StreamType, Same, Bytes

\* A positive multiple of a number is no less than the number.
LEMMA MultipleIs ==
  ASSUME NEW d \in Nat, NEW b \in Nat \ {0}, d % b = 0, d # 0
  PROVE  d - b \in Nat
<1>1. CASE d < b
  <2>1. d % b = d
    BY <1>1
  <2> QED BY <2>1
<1> QED BY <1>1

\* The backend has taken the first d bytes of all.
LEMMA FlushedIs ==
  ASSUME NEW t \in StreamType, NEW all \in Bytes, NEW d \in Nat, d <= Len(all),
         t.buffer_size # 0, d % t.buffer_size = 0
  PROVE  LET u == Flushed(t, all, d)
         IN /\ u \in StreamType /\ Same(t, u) /\ (u.writing <=> t.writing)
            /\ u.fpos = IF t.backend = "file" THEN t.fpos + d ELSE t.fpos
            /\ t.backend # "file" => u.out = t.out \o SubSeq(all, 1, d)
            /\ u.data_len = t.data_len /\ u.data_offset = t.data_offset /\ u.unread = t.unread
            /\ u.offset = t.offset + d /\ u.lost = t.lost
            /\ u.data_flushed + u.resent = t.data_flushed + t.resent
<1>1. /\ t.buffer_size \in Nat /\ t.fpos \in Nat /\ t.offset \in Nat /\ t.data_flushed \in Nat
      /\ t.resent \in Nat /\ t.out \in Bytes
  BY Fields
<1>2. CASE d = 0
  <2>1. Flushed(t, all, d) = t
    BY <1>2 DEF Flushed
  <2>2. SubSeq(all, 1, d) = <<>>
    BY <1>2 DEF Bytes
  <2>3. t.out \o SubSeq(all, 1, d) = t.out
    BY <1>1, <2>2, NoBytes
  <2>4. t.fpos + d = t.fpos /\ t.offset + d = t.offset
    BY <1>1, <1>2
  <2> QED BY <2>1, <2>3, <2>4 DEF Same
<1>3. CASE d # 0
  <2> DEFINE p == SubSeq(all, 1, d)
             D == Deliver(t, p)
             b == SubSeq(all, d - t.buffer_size + 1, d)
             u == [D EXCEPT !.offset = @ + d, !.data_flushed = 0, !.resent = @ + t.data_flushed, !.buf = b]
  <2>1. Flushed(t, all, d) = u
    BY <1>3 DEF Flushed
  <2>2. p \in Bytes /\ Len(p) = d
    BY Front
  <2>3. b \in Bytes
    <3>1. d - t.buffer_size \in Nat /\ d \in Int
      BY <1>1, <1>3, MultipleIs
    <3> QED BY <3>1, Part
  <2> HIDE DEF p, b
  <2>4. /\ D \in StreamType /\ Same(t, D)
        /\ D.fpos = IF t.backend = "file" THEN t.fpos + Len(p) ELSE t.fpos
        /\ t.backend # "file" => D.out = t.out \o p
        /\ D.buf = t.buf /\ D.data_len = t.data_len /\ D.data_offset = t.data_offset
        /\ D.data_flushed = t.data_flushed /\ D.unread = t.unread /\ D.offset = t.offset
        /\ D.lost = t.lost /\ D.resent = t.resent /\ (D.writing <=> t.writing)
    BY <2>2, DeliverIs
  <2>5. D.offset + d \in Nat /\ D.resent + t.data_flushed \in Nat
    BY <2>4, <1>1, SMTT(60)
  <2> HIDE DEF D
  <2>6. /\ u \in StreamType /\ Same(D, u) /\ u.fpos = D.fpos /\ u.out = D.out
        /\ u.data_len = D.data_len /\ u.data_offset = D.data_offset /\ u.unread = D.unread
        /\ u.offset = D.offset + d /\ u.lost = D.lost /\ u.data_flushed = 0
        /\ u.resent = D.resent + t.data_flushed /\ (u.writing <=> D.writing)
    BY <2>3, <2>4, <2>5, ZenonT(60) DEF StreamType, Same, Bytes
  <2> HIDE DEF u
  <2>7. u.data_flushed + u.resent = t.data_flushed + t.resent
    BY <1>1, <2>4, <2>6
  <2>8. Same(t, u)
    BY <2>4, <2>6 DEF Same
  <2> QED BY <2>1, <2>2, <2>4, <2>6, <2>7, <2>8 DEF p
<1> QED BY <1>2, <1>3

\* All there is to write, and the stream after complete buffers up to d of it
\* have gone out and the bytes from there to e are in the buffer.
All(t, w) == SubSeq(t.buf, 1, t.data_offset) \o w
Put(t, w, d, e) == Buffered(Flushed(t, All(t, w), d), SubSeq(All(t, w), d + 1, e))

\* What is in the buffer and what is to be written.
LEMMA AllIs ==
  ASSUME NEW t, Formed(t), NEW w \in Bytes
  PROVE  /\ All(t, w) \in Bytes /\ Len(All(t, w)) = t.data_offset + Len(w)
         /\ Len(w) \in Nat /\ t.data_offset \in Nat /\ Len(All(t, w)) \in Nat
         /\ \A n \in 0..Len(w) :
              SubSeq(All(t, w), 1, t.data_offset + n) = SubSeq(t.buf, 1, t.data_offset) \o SubSeq(w, 1, n)
<1> DEFINE p == SubSeq(t.buf, 1, t.data_offset)
<1>1. t.buf \in Bytes /\ t.data_offset \in Nat /\ t.data_offset <= Len(t.buf)
  BY Fields DEF Formed
<1>2. p \in Bytes /\ Len(p) = t.data_offset
  BY <1>1, Front
<1> HIDE DEF p
<1>3. p \o w \in Bytes /\ Len(p \o w) = Len(p) + Len(w) /\ Len(w) \in Nat
  BY <1>2, Joined
<1>4. ASSUME NEW n \in 0..Len(w)
      PROVE  SubSeq(p \o w, 1, Len(p) + n) = p \o SubSeq(w, 1, n)
  <2>1. n \in Nat /\ n <= Len(w)
    BY <1>3
  <2> QED BY <1>2, <2>1, FrontOfJoined
<1>5. All(t, w) = p \o w
  BY DEF All, p
<1>6. Len(p \o w) \in Nat
  BY <1>1, <1>2, <1>3
<1>7. \A n \in 0..Len(w) : SubSeq(All(t, w), 1, t.data_offset + n) = p \o SubSeq(w, 1, n)
  BY <1>2, <1>4, <1>5
<1> QED BY <1>1, <1>2, <1>3, <1>5, <1>6, <1>7 DEF p

\* A stream that has sent the bytes up to d and keeps those from d to e.
LEMMA PutIs ==
  ASSUME NEW t, Writer(t), NEW w \in Bytes, NEW d \in Nat, NEW e \in Nat, d <= e, e <= Len(All(t, w)),
         e - d <= t.buffer_size, t.data_offset <= e, t.buffer_size # 0, d % t.buffer_size = 0,
         t.buffer # "none" \/ w = <<>>
  PROVE  LET v == Put(t, w, d, e)
         IN /\ Writer(v) /\ Same(t, v) /\ (v.writing <=> t.writing)
            /\ e - t.data_offset \in 0..Len(w)
            /\ ~t.turned => Sends(t, SubSeq(w, 1, e - t.data_offset), v)
<1> DEFINE A == All(t, w)
           n == e - t.data_offset
           x == Flushed(t, A, d)
           b == SubSeq(A, d + 1, e)
           v == Buffered(x, b)
<1>1. /\ t \in StreamType /\ Formed(t) /\ Counted(t) /\ t.status = "open"
      /\ ~t.turned => Bounded(t) /\ t.writing /\ t.data_len = 0
  BY WriterIs
<1>2. /\ A \in Bytes /\ Len(A) = t.data_offset + Len(w) /\ Len(w) \in Nat /\ t.data_offset \in Nat
      /\ Len(A) \in Nat
      /\ \A m \in 0..Len(w) : SubSeq(A, 1, t.data_offset + m) = SubSeq(t.buf, 1, t.data_offset) \o SubSeq(w, 1, m)
  BY <1>1, AllIs, ZenonT(60)
<1>3. Put(t, w, d, e) = v /\ d <= Len(A) /\ e <= Len(A)
  <2>1. e <= Len(A)
    OBVIOUS
  <2>2. d <= Len(A)
    <3> HIDE DEF A
    <3> QED BY <1>2, <2>1
  <2> QED BY <2>1, <2>2 DEF Put
<1> HIDE DEF A
<1>4. n \in 0..Len(w) /\ n \in Nat /\ n <= Len(w) /\ t.data_offset + n = e
  BY <1>2, <1>3, SMTT(60)
<1> HIDE DEF n
<1>5. /\ x \in StreamType /\ Same(t, x) /\ (x.writing <=> t.writing)
      /\ x.fpos = IF t.backend = "file" THEN t.fpos + d ELSE t.fpos
      /\ t.backend # "file" => x.out = t.out \o SubSeq(A, 1, d)
      /\ x.data_len = t.data_len /\ x.data_offset = t.data_offset /\ x.unread = t.unread
      /\ x.offset = t.offset + d /\ x.lost = t.lost
      /\ x.data_flushed + x.resent = t.data_flushed + t.resent
  BY <1>1, <1>2, <1>3, FlushedIs, ZenonT(60)
<1>6. b \in Bytes /\ Len(b) = e - d
  BY <1>2, <1>3, PartAt
<1> HIDE DEF x, b
<1>7. /\ v \in StreamType /\ Same(x, v) /\ v.data_offset = Len(b) /\ Len(b) <= Len(v.buf)
      /\ x.data_len = 0 => v.buf = b
      /\ v.file = x.file /\ v.fpos = x.fpos /\ v.out = x.out /\ v.data_len = x.data_len
      /\ v.data_flushed = x.data_flushed /\ v.unread = x.unread /\ v.offset = x.offset
      /\ v.lost = x.lost /\ v.resent = x.resent /\ (v.writing <=> x.writing)
  BY <1>5, <1>6, BufferedIs
<1> HIDE DEF v
<1>8. Same(t, v) /\ (v.writing <=> t.writing) /\ v.data_offset = e - d
  BY <1>5, <1>6, <1>7 DEF Same
<1>9. Formed(v)
  BY <1>1, <1>7, <1>8 DEF Formed, Same
<1>10. Counted(v)
  <2> SUFFICES ASSUME t.backend = "file"
               PROVE  v.fpos = v.offset + v.data_len + v.data_flushed + v.lost + v.resent
    BY <1>8 DEF Counted, Same
  <2>1. t.fpos = t.offset + t.data_len + t.data_flushed + t.lost + t.resent
    BY <1>1 DEF Counted
  <2>2. /\ t.offset \in Nat /\ t.data_len \in Nat /\ t.data_flushed \in Nat /\ t.lost \in Nat /\ t.resent \in Nat
        /\ v.data_flushed \in Nat /\ v.resent \in Nat
    BY <1>1, <1>7, Fields
  <2>3. /\ v.fpos = t.fpos + d /\ v.offset = t.offset + d /\ v.data_len = t.data_len /\ v.lost = t.lost
        /\ v.data_flushed + v.resent = t.data_flushed + t.resent
    BY <1>5, <1>7
  <2> DEFINE O == t.offset
             L == t.data_len
             X == t.lost
             F == t.data_flushed
             R == t.resent
             G == v.data_flushed
             S == v.resent
  <2>4. O \in Nat /\ L \in Nat /\ X \in Nat /\ F \in Nat /\ R \in Nat /\ G \in Nat /\ S \in Nat
    BY <2>2
  <2>5. G + S = F + R
    BY <2>3
  <2>6. t.fpos = O + L + F + X + R
    BY <2>1
  <2>7. v.fpos = t.fpos + d /\ v.offset + v.data_len + G + v.lost + S = (O + d) + L + G + X + S
    BY <2>3
  <2>8. (O + L + F + X + R) + d = (O + d) + L + G + X + S
    <3> HIDE DEF O, L, X, F, R, G, S
    <3>1. (O + L + F + X + R) + d = (O + L + X + d) + (F + R)
      BY <2>4
    <3>2. (O + d) + L + G + X + S = (O + L + X + d) + (G + S)
      BY <2>4
    <3> QED BY <2>5, <3>1, <3>2
  <2> QED BY <2>6, <2>7, <2>8
<1>15. ~t.turned /\ t.buffer = "none" => b = <<>>
  <2> SUFFICES ASSUME ~t.turned, t.buffer = "none" PROVE b = <<>>
    OBVIOUS
  <2>1. t.data_offset = 0 /\ Len(w) = 0
    BY <1>1, NoBytes DEF Bounded
  <2>2. Len(b) = 0
    BY <1>2, <1>3, <1>6, <2>1
  <2> QED BY <1>6, <2>2 DEF Bytes
<1>11. ~t.turned => Bounded(v) /\ Mirrors(v) /\ v.buf = b
  BY <1>1, <1>5, <1>6, <1>7, <1>8, <1>15 DEF Bounded, Mirrors, Same
<1>12. Writer(v)
  BY <1>1, <1>8, <1>9, <1>10, <1>11 DEF Writer, Good, Same
<1>13. ASSUME ~t.turned, t.backend # "file" PROVE Sends(t, SubSeq(w, 1, n), v)
  <2> DEFINE p == SubSeq(t.buf, 1, t.data_offset)
             f == SubSeq(A, 1, d)
             g == SubSeq(w, 1, n)
             o == t.out
  <2>1. p \in Bytes /\ f \in Bytes /\ g \in Bytes /\ o \in Bytes
    BY <1>1, <1>2, <1>3, <1>4, Fields, Front DEF Formed
  <2>2. SentBy(t) = o \o p
    BY <1>1, <1>13 DEF SentBy, Pending
  <2>3. Pending(v) = b
    <3>1. SubSeq(b, 1, Len(b)) = b
      BY <1>6 DEF Bytes
    <3> QED BY <1>1, <1>7, <1>8, <1>11, <1>13, <3>1 DEF Pending
  <2>4. v.out = o \o f
    BY <1>5, <1>7, <1>13
  <2>5. f \o b = SubSeq(A, 1, e)
    BY <1>2, <1>3, Split, ZenonT(60) DEF b
  <2>6. SubSeq(A, 1, e) = p \o g
    BY <1>2, <1>4
  <2>7. SentBy(v) = (o \o f) \o b
    BY <2>3, <2>4 DEF SentBy
  <2> HIDE DEF p, f, g, o
  <2>8. (o \o f) \o b = o \o (f \o b) /\ (o \o p) \o g = o \o (p \o g)
    <3>1. (o \o f) \o b = o \o (f \o b)
      BY <2>1, <1>6, Associative, ZenonT(60)
    <3>2. (o \o p) \o g = o \o (p \o g)
      BY <2>1, Associative, ZenonT(60)
    <3> QED BY <3>1, <3>2
  <2>9. SentBy(v) = SentBy(t) \o g
    BY <2>2, <2>5, <2>6, <2>7, <2>8
  <2>10. v.data_flushed + v.resent = t.data_flushed + t.resent
    BY <1>5, <1>7
  <2> QED BY <1>1, <1>9, <2>1, <2>9, <2>10, SendsIf DEF g
<1>14. ~t.turned => Sends(t, SubSeq(w, 1, n), v)
  BY <1>13 DEF Sends
<1> QED BY <1>3, <1>4, <1>8, <1>12, <1>14 DEF n

\* An outcome of a write.
LEMMA WroteIs ==
  ASSUME NEW t, NEW w \in Bytes, NEW u, NEW n \in 0..Len(w), NEW e \in Errno, Writer(t), Writer(u),
         Same(t, u), u.writing <=> t.writing, ~t.turned => Sends(t, SubSeq(w, 1, n), u)
  PROVE  WriteOutcome(t, w, Wrote(u, n, e))
<1>1. u \in StreamType /\ Good(u) /\ u.status = "open" /\ (~t.turned => t.writing)
  BY WriterIs
<1>2. n \in Int
  BY DEF Bytes
<1>3. Wrote(u, n, e) = [s |-> u, err |-> e, n |-> n, got |-> <<>>] /\ Wrote(u, n, e) \in OutcomeType
  BY <1>1, <1>2, NoBytes, OutcomeIs
<1> HIDE DEF Wrote
<1> QED BY <1>1, <1>3 DEF WriteOutcome, GoodOutcome, Same

\* The outcome of a failed assertion, or of a write to a buffer that is not there.
LEMMA CrashIs ==
  ASSUME NEW t, NEW w \in Bytes, Writer(t), NEW how \in {"aborted", "overrun"},
         t.turned \/ (how = "overrun" /\ t.buffer = "none")
  PROVE  WriteOutcome(t, w, Crash(t, how))
<1> DEFINE u == [t EXCEPT !.status = how]
<1>1. t \in StreamType /\ Formed(t) /\ Good(t) /\ (~t.turned => t.writing /\ Mirrors(t))
  BY WriterIs DEF Good
<1>2. /\ u \in StreamType /\ u.status = how /\ (u.turned <=> t.turned) /\ u.backend = t.backend
      /\ u.accepted = t.accepted /\ u.data_offset = t.data_offset /\ u.buf = t.buf
      /\ u.strategy = t.strategy /\ u.buffer_size = t.buffer_size /\ u.buffer = t.buffer
      /\ (u.writing <=> t.writing) /\ u.out = t.out
      /\ u.data_flushed = t.data_flushed /\ u.resent = t.resent
  BY <1>1 DEF StreamType
<1> HIDE DEF u
<1>3. Formed(u)
  BY <1>1, <1>2 DEF Formed
<1>7. Good(u)
  BY <1>1, <1>2, <1>3 DEF Good, Mirrors
<1>8. SubSeq(w, 1, 0) = <<>>
  BY DEF Bytes
<1>9. Keeps(t, u)
  <2>1. SentBy(u) = SentBy(t)
    BY <1>2 DEF SentBy, Pending
  <2> QED BY <1>1, <1>2, <1>3, <2>1, KeepsIf
<1>4. "EFAULT" \in Errno /\ 0 \in 0..Len(w)
  BY DEF Bytes, Errno
<1>5. Crash(t, how) = Fail(u, "EFAULT")
  BY DEF Crash, u
<1>6. /\ Fail(u, "EFAULT") = [s |-> u, err |-> "EFAULT", n |-> 0, got |-> <<>>]
      /\ Fail(u, "EFAULT") \in OutcomeType
  BY <1>2, <1>4, FailIs
<1> HIDE DEF Fail
<1>10. ASSUME NEW r, r = [s |-> u, err |-> "EFAULT", n |-> 0, got |-> <<>>], r \in OutcomeType
       PROVE  WriteOutcome(t, w, r)
  <2>1. r.s = u /\ r.n = 0
    BY <1>10
  <2>2. Sends(t, SubSeq(w, 1, r.n), u)
    BY <1>8, <1>9, <2>1 DEF Keeps
  <2> QED BY <1>1, <1>2, <1>4, <1>7, <1>10, <2>1, <2>2 DEF WriteOutcome, GoodOutcome
<1> QED BY <1>5, <1>6, <1>10

\* The complete buffers of all there is to write, and how a write of them goes.
Blocks(t, w) == {d \in 0..Len(All(t, w)) : d % t.buffer_size = 0}
Last(t, w) == {d \in Blocks(t, w) : /\ Len(All(t, w)) - d <= t.buffer_size
                                    /\ d = 0 \/ d < Len(All(t, w))}
Inner(t, w) == {d \in Blocks(t, w) : d + t.buffer_size < Len(All(t, w))}
Failed(t, w, d) == {f \in flush_stream(Put(t, w, d, d + t.buffer_size)) : f.err # "ok"}

\* The outcomes of es_write_fbf, one by one.
LEMMA WriteBufferedIs ==
  ASSUME NEW t, NEW w
  PROVE  es_write_fbf(t, w) =
           IF t.buffer = "none" /\ w # <<>> THEN {Crash(t, "overrun")}
           ELSE IF ~t.writing /\ Len(All(t, w)) > t.buffer_size THEN {Crash(t, "aborted")}
           ELSE {Wrote(Put(t, w, d, Len(All(t, w))), Len(w), "ok") : d \in Last(t, w)}
                \cup UNION {{Wrote(f.s, d + t.buffer_size - t.data_offset, f.err) : f \in Failed(t, w, d)} :
                            d \in Inner(t, w)}
  BY DEF es_write_fbf, All, Put, Blocks, Last, Inner, Failed

\* es_write_fbf sends or keeps each byte it accepts, whenever a flush fails.
LEMMA WriteBufferedOk ==
  ASSUME NEW t, Writer(t), t.buffer_size # 0, NEW w \in Bytes, NEW r \in es_write_fbf(t, w)
  PROVE  WriteOutcome(t, w, r)
<1> DEFINE L == Len(All(t, w))
           bs == t.buffer_size
           S1 == {Wrote(Put(t, w, d, L), Len(w), "ok") : d \in Last(t, w)}
           S2 == UNION {{Wrote(f.s, d + bs - t.data_offset, f.err) : f \in Failed(t, w, d)} : d \in Inner(t, w)}
<1>0. es_write_fbf(t, w) = IF t.buffer = "none" /\ w # <<>> THEN {Crash(t, "overrun")}
                           ELSE IF ~t.writing /\ L > bs THEN {Crash(t, "aborted")} ELSE S1 \cup S2
  BY WriteBufferedIs
<1>1. t \in StreamType /\ Formed(t) /\ t.data_offset <= bs /\ bs \in Nat \ {0} /\ (~t.turned => t.writing)
  BY WriterIs, Fields
<1>2. L \in Nat /\ L = t.data_offset + Len(w) /\ Len(w) \in Nat /\ t.data_offset \in Nat
      /\ All(t, w) \in Bytes
  BY <1>1, AllIs
<1> HIDE DEF S1, S2
<1>5. CASE t.buffer = "none" /\ w # <<>>
  <2>1. r = Crash(t, "overrun")
    BY <1>0, <1>5
  <2> QED BY <1>5, <2>1, CrashIs
<1>3. CASE ~(t.buffer = "none" /\ w # <<>>) /\ ~t.writing /\ L > bs
  <2>1. r = Crash(t, "aborted") /\ t.turned
    BY <1>0, <1>1, <1>3
  <2> QED BY <2>1, CrashIs
<1>4. CASE ~(t.buffer = "none" /\ w # <<>>) /\ ~(~t.writing /\ L > bs)
  <2>1. r \in S1 \cup S2
    BY <1>0, <1>4
  <2>2. CASE r \in S1
    <3>1. PICK d \in Last(t, w) : r = Wrote(Put(t, w, d, L), Len(w), "ok")
      BY <2>2 DEF S1
    <3>2. d \in Nat /\ d <= L /\ d % bs = 0 /\ L - d <= bs
      <4>1. d \in 0..L /\ d % bs = 0 /\ L - d <= bs
        BY DEF Last, Blocks
      <4> HIDE DEF L, bs
      <4> QED BY <4>1, <1>2
    <3>3. t.data_offset <= L /\ L - t.data_offset = Len(w) /\ L <= Len(All(t, w))
      <4>1. L <= Len(All(t, w))
        BY <1>2
      <4> HIDE DEF L
      <4> QED BY <4>1, <1>2
    <3> DEFINE v == Put(t, w, d, L)
    <3>4. /\ Writer(v) /\ Same(t, v) /\ (v.writing <=> t.writing) /\ L - t.data_offset \in 0..Len(w)
          /\ ~t.turned => Sends(t, SubSeq(w, 1, L - t.data_offset), v)
      <4> HIDE DEF L
      <4> QED BY <1>1, <1>2, <1>4, <3>2, <3>3, PutIs
    <3> HIDE DEF v, L
    <3>5. Len(w) \in 0..Len(w) /\ "ok" \in Errno
      BY <1>2, FaultsAre
    <3>6. WriteOutcome(t, w, Wrote(v, Len(w), "ok"))
      BY <3>3, <3>4, <3>5, WroteIs
    <3> QED BY <3>1, <3>6 DEF v
  <2>3. CASE r \in S2
    <3>1. PICK d \in Inner(t, w) : r \in {Wrote(f.s, d + bs - t.data_offset, f.err) : f \in Failed(t, w, d)}
      BY <2>3 DEF S2
    <3>2. PICK f \in Failed(t, w, d) : r = Wrote(f.s, d + bs - t.data_offset, f.err)
      BY <3>1
    <3>3. d \in Nat /\ d % bs = 0 /\ d + bs < L
      <4>1. d \in 0..L /\ d % bs = 0 /\ d + bs < L
        BY DEF Inner, Blocks
      <4> HIDE DEF L, bs
      <4> QED BY <4>1, <1>2
    <3> DEFINE e == d + bs
               v == Put(t, w, d, e)
               n == e - t.data_offset
    <3>4. /\ e \in Nat /\ d <= e /\ e <= L /\ e - d <= bs /\ t.data_offset <= e /\ bs # 0 /\ L = Len(All(t, w))
      <4>1. L = Len(All(t, w))
        OBVIOUS
      <4> HIDE DEF L, bs
      <4> QED BY <4>1, <1>1, <1>2, <3>3
    <3> HIDE DEF e
    <3>5. /\ Writer(v) /\ Same(t, v) /\ (v.writing <=> t.writing) /\ n \in 0..Len(w)
          /\ ~t.turned => Sends(t, SubSeq(w, 1, n), v)
      BY <1>4, <3>3, <3>4, PutIs
    <3>6. f \in flush_stream(v) /\ f.err # "ok"
      BY DEF Failed, e
    <3>7. t.writing
      <4> HIDE DEF L, bs
      <4> QED BY <1>1, <1>2, <1>4, <3>3
    <3>16. r = Wrote(f.s, n, f.err)
      <4>1. d + (bs - t.data_offset) = n
        <5> HIDE DEF bs, L
        <5> QED BY <1>1, <1>2, <3>3 DEF e
      <4> QED BY <3>2, <4>1
    <3> HIDE DEF v, n
    <3>8. Good(v) /\ v.status = "open" /\ v.writing /\ Formed(v) /\ (v.turned <=> t.turned)
      BY <3>5, <3>7, WriterIs DEF Same
    <3>9. /\ GoodOutcome(f) /\ Same(v, f.s) /\ f.s.writing /\ f.err \in {"ok"} \cup Faults
          /\ ~v.turned => Keeps(v, f.s)
      BY <3>6, <3>8, FlushOk
    <3>10. f.s \in StreamType /\ Good(f.s) /\ Formed(f.s) /\ f.err \in Errno
      BY <3>9, FaultsAre DEF GoodOutcome, OutcomeType, Good
    <3>11. Same(t, f.s)
      BY <3>5, <3>9 DEF Same
    <3>12. ~t.turned => Sends(t, SubSeq(w, 1, n), f.s)
      <4> SUFFICES ASSUME ~t.turned PROVE Sends(t, SubSeq(w, 1, n), f.s)
        OBVIOUS
      <4>1. SubSeq(w, 1, n) \in Bytes
        <5>1. n \in Nat /\ n <= Len(w)
          BY <3>5, <1>2
        <5> QED BY <5>1, Front
      <4>2. v.backend = t.backend
        BY <3>5 DEF Same
      <4> QED BY <1>1, <3>5, <3>8, <3>9, <3>10, <4>1, <4>2, KeepsAfter
    <3>13. n \in Int
      BY <3>5, <1>2
    <3>14. r = [s |-> f.s, err |-> f.err, n |-> n, got |-> <<>>] /\ r \in OutcomeType
      BY <3>16, <3>10, <3>13, NoBytes, OutcomeIs
    <3>15. f.s.status = "open"
      BY <3>8, <3>9 DEF Same
    <3> QED BY <3>5, <3>9, <3>10, <3>11, <3>12, <3>14, <3>15 DEF WriteOutcome, GoodOutcome, Same
  <2> QED BY <2>1, <2>2, <2>3
<1> QED BY <1>3, <1>4, <1>5

\* The backend is given the first k bytes of w directly.
Directly(t, w, k) == [Deliver(t, SubSeq(w, 1, k)) EXCEPT !.offset = @ + k]

\* The outcomes of es_write_nbf, one by one.
LEMMA WriteUnbufferedIs ==
  ASSUME NEW t, NEW w
  PROVE  es_write_nbf(t, w) =
           {Wrote(Directly(t, w, Len(w)), Len(w), "ok")}
           \cup {Wrote(Directly(t, w, k), k, e) : k \in 0..(Len(w) - 1), e \in Faults}
  BY DEF es_write_nbf, Directly

\* A stream whose backend has taken bytes past the buffer.
LEMMA DirectlyIs ==
  ASSUME NEW t, Writer(t), t.data_offset = 0, NEW w \in Bytes, NEW k \in 0..Len(w)
  PROVE  LET u == Directly(t, w, k)
         IN /\ Writer(u) /\ Same(t, u) /\ (u.writing <=> t.writing) /\ u.data_offset = 0
            /\ ~t.turned => Sends(t, SubSeq(w, 1, k), u)
<1> DEFINE p == SubSeq(w, 1, k)
           D == Deliver(t, p)
           u == [D EXCEPT !.offset = D.offset + k]
<1>1. /\ t \in StreamType /\ Formed(t) /\ Counted(t) /\ t.status = "open"
      /\ ~t.turned => Bounded(t) /\ t.writing
  BY WriterIs
<1>2. k \in Nat /\ k <= Len(w)
  BY DEF Bytes
<1>3. p \in Bytes /\ Len(p) = k
  BY <1>2, Front
<1>4. Directly(t, w, k) = u
  BY DEF Directly
<1> HIDE DEF p
<1>5. /\ D \in StreamType /\ Same(t, D)
      /\ D.fpos = IF t.backend = "file" THEN t.fpos + Len(p) ELSE t.fpos
      /\ t.backend # "file" => D.out = t.out \o p
      /\ D.buf = t.buf /\ D.data_len = t.data_len /\ D.data_offset = t.data_offset
      /\ D.data_flushed = t.data_flushed /\ D.unread = t.unread /\ D.offset = t.offset
      /\ D.lost = t.lost /\ D.resent = t.resent /\ (D.writing <=> t.writing)
  BY <1>1, <1>3, DeliverIs
<1>6. D.offset + k \in Nat
  BY <1>2, <1>5, Fields, SMTT(60)
<1> HIDE DEF D
<1>7. /\ u \in StreamType /\ Same(D, u) /\ u.fpos = D.fpos /\ u.out = D.out /\ u.buf = D.buf
      /\ u.data_len = D.data_len /\ u.data_offset = D.data_offset /\ u.unread = D.unread
      /\ u.offset = D.offset + k /\ u.lost = D.lost /\ u.data_flushed = D.data_flushed
      /\ u.resent = D.resent /\ (u.writing <=> D.writing)
  BY <1>5, <1>6 DEF StreamType, Same
<1> HIDE DEF u
<1>8. /\ Same(t, u) /\ (u.writing <=> t.writing) /\ u.data_offset = 0
      /\ u.buf = t.buf /\ u.data_len = t.data_len /\ u.unread = t.unread
      /\ u.data_flushed = t.data_flushed /\ u.lost = t.lost /\ u.resent = t.resent
      /\ u.offset = t.offset + k
      /\ t.backend = "file" => u.fpos = t.fpos + k
      /\ t.backend # "file" => u.out = t.out \o p
  BY <1>3, <1>5, <1>7 DEF Same
<1>9. Formed(u)
  BY <1>1, <1>7, <1>8 DEF Formed, Same
<1>10. Counted(u)
  <2> SUFFICES ASSUME t.backend = "file"
               PROVE  u.fpos = u.offset + u.data_len + u.data_flushed + u.lost + u.resent
    BY <1>8 DEF Counted, Same
  <2> DEFINE O == t.offset
             L == t.data_len
             X == t.lost
             F == t.data_flushed
             R == t.resent
  <2>1. O \in Nat /\ L \in Nat /\ X \in Nat /\ F \in Nat /\ R \in Nat
    BY <1>1, Fields
  <2>2. t.fpos = O + L + F + X + R
    BY <1>1 DEF Counted
  <2>3. (O + L + F + X + R) + k = (O + k) + L + F + X + R
    <3> HIDE DEF O, L, F, X, R
    <3> QED BY <1>2, <2>1
  <2> QED BY <1>8, <2>2, <2>3
<1>11. ~t.turned => Bounded(u) /\ Mirrors(u)
  BY <1>1, <1>8 DEF Bounded, Mirrors, Same
<1>12. u.buffer_size \in Nat
  BY <1>7, Fields
<1>13. Writer(u)
  BY <1>1, <1>8, <1>9, <1>10, <1>11, <1>12 DEF Writer, Good, Same
<1>14. ~t.turned => Sends(t, p, u)
  <2> SUFFICES ASSUME t.backend # "file" PROVE Sends(t, p, u)
    BY DEF Sends
  <2>1. Pending(t) = <<>> /\ Pending(u) = <<>>
    BY <1>1, <1>8, <1>9, PendingIs DEF Formed
  <2>2. t.out \in Bytes /\ t.out \o p \in Bytes
    BY <1>1, <1>3, Fields, Joined
  <2>3. SentBy(u) = SentBy(t) \o p
    BY <1>8, <2>1, <2>2, NoBytes DEF SentBy
  <2>4. u.data_flushed + u.resent = t.data_flushed + t.resent
    BY <1>8
  <2> QED BY <1>1, <1>3, <1>9, <2>3, <2>4, SendsIf
<1> QED BY <1>4, <1>8, <1>13, <1>14 DEF p

\* es_write_nbf sends each byte it accepts.
LEMMA WriteUnbufferedOk ==
  ASSUME NEW t, Writer(t), t.data_offset = 0, NEW w \in Bytes, NEW r \in es_write_nbf(t, w)
  PROVE  /\ WriteOutcome(t, w, r) /\ Writer(r.s) /\ Same(t, r.s) /\ r.s.data_offset = 0
         /\ (r.s.writing <=> t.writing) /\ (r.err = "ok" => r.n = Len(w))
<1>0. es_write_nbf(t, w) = {Wrote(Directly(t, w, Len(w)), Len(w), "ok")}
                           \cup {Wrote(Directly(t, w, k), k, e) : k \in 0..(Len(w) - 1), e \in Faults}
  BY WriteUnbufferedIs
<1>1. ASSUME NEW k \in 0..Len(w), NEW e \in Errno, r = Wrote(Directly(t, w, k), k, e)
      PROVE  /\ WriteOutcome(t, w, r) /\ Writer(r.s) /\ Same(t, r.s) /\ r.s.data_offset = 0
             /\ (r.s.writing <=> t.writing) /\ r.n = k /\ r.err = e
  <2> DEFINE u == Directly(t, w, k)
  <2>1. /\ Writer(u) /\ Same(t, u) /\ (u.writing <=> t.writing) /\ u.data_offset = 0
        /\ ~t.turned => Sends(t, SubSeq(w, 1, k), u)
    BY DirectlyIs
  <2> HIDE DEF u
  <2>2. r = Wrote(u, k, e)
    BY <1>1 DEF u
  <2>3. WriteOutcome(t, w, r)
    BY <2>1, <2>2, WroteIs
  <2>4. r.s = u /\ r.n = k /\ r.err = e
    BY <2>2 DEF Wrote
  <2> QED BY <2>1, <2>3, <2>4
<1>2. Len(w) \in Nat /\ Len(w) \in 0..Len(w) /\ "ok" \in Errno
  BY FaultsAre DEF Bytes
<1>3. CASE r = Wrote(Directly(t, w, Len(w)), Len(w), "ok")
  BY <1>1, <1>2, <1>3
<1>4. CASE \E k \in 0..(Len(w) - 1), e \in Faults : r = Wrote(Directly(t, w, k), k, e)
  <2>1. PICK k \in 0..(Len(w) - 1), e \in Faults : r = Wrote(Directly(t, w, k), k, e)
    BY <1>4
  <2>2. k \in 0..Len(w) /\ e \in Errno /\ e # "ok"
    BY <1>2, FaultsAre
  <2> QED BY <1>1, <2>1, <2>2
<1>5. r = Wrote(Directly(t, w, Len(w)), Len(w), "ok")
      \/ \E k \in 0..(Len(w) - 1), e \in Faults : r = Wrote(Directly(t, w, k), k, e)
  <2> HIDE DEF Wrote, Directly
  <2> QED BY <1>0
<1> QED BY <1>3, <1>4, <1>5

\* The last newline of w.
LastNewline(w) == CHOOSE i \in 1..Len(w) : w[i] = NL /\ \A j \in (i + 1)..Len(w) : w[j] # NL

\* The last newline of a string that has one.
LEMMA LastNewlineIs ==
  ASSUME NEW w \in Bytes, NEW k \in 1..Len(w), w[k] = NL
  PROVE  LastNewline(w) \in 1..Len(w)
<1> DEFINE N == Len(w)
           T == {m \in 0..N : m # N /\ w[N - m] = NL}
           P(i) == w[i] = NL /\ \A j \in (i + 1)..N : w[j] # NL
<1>1. N \in Nat /\ k \in 1..N
  BY DEF Bytes
<1>2. T \subseteq Nat /\ N - k \in T
  <2> HIDE DEF N
  <2>1. N - k \in 0..N /\ N - k # N /\ N - (N - k) = k
    BY <1>1
  <2> QED BY <2>1
<1>3. PICK m \in T : \A y \in T : m <= y
  <2> HIDE DEF T
  <2> QED BY <1>2, Least
<1>4. N - m \in 1..N /\ P(N - m)
  <2> HIDE DEF N
  <2>1. N - m \in 1..N /\ w[N - m] = NL
    BY <1>1
  <2>2. ASSUME NEW j \in ((N - m) + 1)..N, w[j] = NL PROVE FALSE
    <3>1. N - j \in 0..N /\ N - j # N /\ N - (N - j) = j /\ ~(m <= N - j)
      BY <1>1
    <3>2. N - j \in T
      BY <2>2, <3>1
    <3> QED BY <1>3, <3>1, <3>2
  <2> QED BY <2>1, <2>2
<1>5. LastNewline(w) = CHOOSE i \in 1..N : P(i)
  BY DEF LastNewline
<1> HIDE DEF P, N
<1>6. LastNewline(w) \in 1..N
  BY <1>4, <1>5
<1> QED BY <1>6 DEF N

\* What a line buffered write does after its flush f, and after the lines g.
Later(g, w, p) == {[h EXCEPT !.n = @ + p] : h \in es_write_fbf(g.s, SubSeq(w, p + 1, Len(w)))}
Direct(f, w, p) == UNION {IF g.err # "ok" THEN {g} ELSE Later(g, w, p) : g \in es_write_nbf(f.s, SubSeq(w, 1, p))}

\* The outcomes of es_write_lbf.
LEMMA WriteLinesIs ==
  ASSUME NEW t, NEW w
  PROVE  es_write_lbf(t, w) =
           IF \A i \in 1..Len(w) : w[i] # NL THEN es_write_fbf(t, w)
           ELSE IF ~t.writing THEN {Crash(t, "aborted")}
           ELSE UNION {IF f.err # "ok" THEN {f} ELSE Direct(f, w, LastNewline(w)) : f \in flush_stream(t)}
  BY DEF es_write_lbf, Direct, Later, LastNewline

\* A write after a write.
LEMMA WriteOutcomeAfter ==
  ASSUME NEW t, NEW u, NEW r, NEW w \in Bytes, NEW p \in 0..Len(w),
         Formed(t), Formed(u), u.backend = t.backend, u.accepted = t.accepted, u.turned <=> t.turned,
         ~t.turned => Sends(t, SubSeq(w, 1, p), u),
         WriteOutcome(u, SubSeq(w, p + 1, Len(w)), r), r.n \in 0..(Len(w) - p)
  PROVE  WriteOutcome(t, w, [s |-> r.s, err |-> r.err, n |-> p + r.n, got |-> r.got])
<1> DEFINE n == r.n
           q == [s |-> r.s, err |-> r.err, n |-> p + n, got |-> r.got]
           a == SubSeq(w, 1, p)
           b == SubSeq(w, p + 1, Len(w))
           c == SubSeq(b, 1, n)
<1>1. Len(w) \in Nat /\ p \in Nat /\ n \in Nat /\ p + n \in Nat /\ p <= Len(w) /\ p + n <= Len(w)
      /\ p <= p + n /\ n <= Len(w) - p /\ Len(w) <= Len(w)
  BY DEF Bytes
<1> HIDE DEF n
<1>2. a \in Bytes /\ b \in Bytes /\ Len(b) = Len(w) - p
  BY <1>1, Front, PartAt
<1>3. c = SubSeq(w, p + 1, p + n) /\ c \in Bytes
  <2>1. c = SubSeq(w, p + 1, p + n)
    BY <1>1, PartOfPart
  <2>2. n <= Len(b)
    BY <1>1, <1>2
  <2> HIDE DEF b
  <2>3. c \in Bytes
    BY <1>1, <1>2, <2>2, Front
  <2> QED BY <2>1, <2>3
<1>4. a \o c = SubSeq(w, 1, p + n)
  <2>1. SubSeq(w, 1, p) \o SubSeq(w, p + 1, p + n) = SubSeq(w, 1, p + n)
    BY <1>1, Split
  <2> HIDE DEF b
  <2> QED BY <1>3, <2>1
<1>5. /\ r \in OutcomeType /\ Good(r.s) /\ r.s.backend = u.backend /\ r.s.accepted = u.accepted
      /\ (r.s.turned <=> u.turned)
      /\ ~u.turned => r.s.writing /\ Sends(u, c, r.s)
  BY DEF WriteOutcome, GoodOutcome, n
<1> HIDE DEF a, b, c
<1>6. q \in OutcomeType /\ q.s = r.s /\ q.n = p + n /\ p + n \in 0..Len(w)
  BY <1>1, <1>5 DEF OutcomeType
<1>7. ~t.turned => Sends(t, SubSeq(w, 1, p + n), r.s)
  <2> SUFFICES ASSUME ~t.turned PROVE Sends(t, SubSeq(w, 1, p + n), r.s)
    OBVIOUS
  <2>1. Sends(t, a, u) /\ Sends(u, c, r.s) /\ Formed(r.s)
    BY <1>5 DEF a, Good
  <2>2. Sends(t, a \o c, r.s)
    BY <1>2, <1>3, <2>1, SendsTrans
  <2> QED BY <1>4, <2>2
<1>8. WriteOutcome(t, w, q)
  <2> HIDE DEF q
  <2> QED BY <1>5, <1>6, <1>7 DEF WriteOutcome, GoodOutcome
<1> QED BY <1>8 DEF n

\* es_write_lbf sends or keeps each byte it accepts.
LEMMA WriteLinesOk ==
  ASSUME NEW t, Writer(t), t.buffer_size # 0, NEW w \in Bytes, NEW r \in es_write_lbf(t, w)
  PROVE  WriteOutcome(t, w, r)
<1> DEFINE p == LastNewline(w)
<1>0. es_write_lbf(t, w) =
        IF \A i \in 1..Len(w) : w[i] # NL THEN es_write_fbf(t, w)
        ELSE IF ~t.writing THEN {Crash(t, "aborted")}
        ELSE UNION {IF f.err # "ok" THEN {f} ELSE Direct(f, w, p) : f \in flush_stream(t)}
  BY WriteLinesIs
<1>1. /\ t \in StreamType /\ Formed(t) /\ Good(t) /\ t.status = "open"
      /\ ~t.turned => t.writing
  BY WriterIs
<1> HIDE DEF p
<1>2. CASE \A i \in 1..Len(w) : w[i] # NL
  BY <1>0, <1>2, WriteBufferedOk
<1>3. CASE ~(\A i \in 1..Len(w) : w[i] # NL) /\ ~t.writing
  <2>1. r = Crash(t, "aborted") /\ t.turned
    BY <1>0, <1>1, <1>3
  <2> QED BY <2>1, CrashIs
<1>4. CASE ~(\A i \in 1..Len(w) : w[i] # NL) /\ t.writing
  <2>1. p \in 1..Len(w)
    BY <1>4, LastNewlineIs DEF p
  <2>2. Len(w) \in Nat
    BY DEF Bytes
  <2>3. p \in Nat /\ p <= Len(w) /\ p \in 0..Len(w) /\ 0 \in 0..Len(w)
    BY <2>1, <2>2
  <2> DEFINE E(f) == IF f.err # "ok" THEN {f} ELSE Direct(f, w, p)
             a == SubSeq(w, 1, p)
             b == SubSeq(w, p + 1, Len(w))
  <2>4. PICK f \in flush_stream(t) : r \in E(f)
    <3>1. es_write_lbf(t, w) = UNION {E(f) : f \in flush_stream(t)}
      BY <1>0, <1>4
    <3> HIDE DEF E
    <3> QED BY <3>1
  <2>5. /\ GoodOutcome(f) /\ Same(t, f.s) /\ f.s.writing
        /\ f.n = 0 /\ f.got = <<>> /\ f.err \in {"ok"} \cup Faults
        /\ ~t.turned => Keeps(t, f.s)
        /\ f.err = "ok" => f.s.data_offset = 0 /\ f.s.data_flushed = 0
    BY <1>1, <1>4, FlushOk
  <2>6. f \in OutcomeType /\ f.s \in StreamType /\ Good(f.s) /\ Formed(f.s)
    BY <2>5 DEF GoodOutcome, OutcomeType, Good
  <2>7. SubSeq(w, 1, 0) = <<>>
    BY DEF Bytes
  <2>8. CASE f.err # "ok"
    <3>1. r = f
      BY <2>4, <2>8
    <3>2. ~t.turned => Sends(t, SubSeq(w, 1, r.n), r.s)
      BY <2>5, <2>7, <3>1 DEF Keeps
    <3> QED BY <1>1, <2>3, <2>5, <3>1, <3>2 DEF WriteOutcome, Same
  <2>9. CASE f.err = "ok"
    <3>1. PICK g \in es_write_nbf(f.s, a) : r \in (IF g.err # "ok" THEN {g} ELSE Later(g, w, p))
      <4>1. r \in Direct(f, w, p)
        BY <2>4, <2>9
      <4>2. Direct(f, w, p) = UNION {IF g.err # "ok" THEN {g} ELSE Later(g, w, p) : g \in es_write_nbf(f.s, a)}
        BY DEF Direct
      <4> DEFINE F(g) == IF g.err # "ok" THEN {g} ELSE Later(g, w, p)
      <4>3. PICK g \in es_write_nbf(f.s, a) : r \in F(g)
        <5>1. r \in UNION {F(g) : g \in es_write_nbf(f.s, a)}
          BY <4>1, <4>2
        <5> HIDE DEF F, a
        <5> QED BY <5>1
      <4> QED BY <4>3
    <3>2. Writer(f.s) /\ f.s.data_offset = 0 /\ f.s.buffer_size # 0 /\ f.s.buffer_size \in Nat
      <4>1. f.s.buffer_size \in Nat
        BY <2>6, Fields
      <4> QED BY <1>1, <2>5, <2>6, <2>9, <4>1 DEF Writer, Same
    <3>3. a \in Bytes /\ Len(a) = p
      BY <2>3, Front
    <3>4. b \in Bytes /\ Len(b) = Len(w) - p
      BY <2>2, <2>3, PartAt
    <3> HIDE DEF a, b
    <3>5. /\ WriteOutcome(f.s, a, g) /\ Writer(g.s) /\ Same(f.s, g.s) /\ g.s.data_offset = 0
          /\ (g.err = "ok" => g.n = Len(a))
      BY <3>1, <3>2, <3>3, WriteUnbufferedOk
    <3>6. /\ g \in OutcomeType /\ g.n \in 0..p /\ g.s \in StreamType /\ Good(g.s) /\ Formed(g.s)
          /\ g.s.status = "open" /\ g.s.buffer_size # 0 /\ f.s.backend = t.backend
          /\ g.s.backend = t.backend /\ g.s.accepted = t.accepted /\ (g.s.turned <=> t.turned)
          /\ ~t.turned => g.s.writing /\ Sends(f.s, SubSeq(a, 1, g.n), g.s)
      BY <2>5, <3>2, <3>3, <3>5, WriterIs DEF WriteOutcome, GoodOutcome, OutcomeType, Same
    <3>7. ~t.turned => Sends(t, SubSeq(a, 1, g.n), g.s)
      <4> SUFFICES ASSUME ~t.turned PROVE Sends(t, SubSeq(a, 1, g.n), g.s)
        OBVIOUS
      <4>1. g.n \in Nat /\ g.n <= Len(a)
        BY <2>3, <3>3, <3>6
      <4>2. SubSeq(a, 1, g.n) \in Bytes
        BY <3>3, <4>1, Front
      <4> QED BY <1>1, <2>5, <2>6, <3>6, <4>2, KeepsBefore
    <3>8. CASE g.err # "ok"
      <4>1. r = g
        BY <3>1, <3>8
      <4>2. SubSeq(a, 1, g.n) = SubSeq(w, 1, g.n)
        <5>1. g.n \in Nat /\ 0 \in Nat /\ 0 <= p /\ g.n <= p - 0 /\ 0 + 1 = 1 /\ 0 + g.n = g.n
          BY <2>3, <3>6
        <5>2. SubSeq(SubSeq(w, 0 + 1, p), 1, g.n) = SubSeq(w, 0 + 1, 0 + g.n)
          BY <2>3, <5>1, PartOfPart
        <5> QED BY <5>1, <5>2 DEF a
      <4>3. g.n \in 0..Len(w)
        BY <2>2, <2>3, <3>6
      <4> QED BY <3>6, <3>7, <4>1, <4>2, <4>3 DEF WriteOutcome, GoodOutcome
    <3>9. CASE g.err = "ok"
      <4>1. g.n = p /\ SubSeq(a, 1, g.n) = a
        <5>1. SubSeq(a, 1, Len(a)) = a
          BY <3>3 DEF Bytes
        <5> QED BY <3>3, <3>5, <3>9, <5>1
      <4>2. PICK h \in es_write_fbf(g.s, b) : r = [h EXCEPT !.n = @ + p]
        <5>1. r \in Later(g, w, p)
          BY <3>1, <3>9
        <5> QED BY <5>1 DEF Later, b
      <4>3. WriteOutcome(g.s, b, h)
        BY <3>4, <3>5, <3>6, <4>2, WriteBufferedOk
      <4>4. h \in OutcomeType /\ h.n \in 0..(Len(w) - p) /\ h.n \in Nat
        BY <2>2, <2>3, <3>4, <4>3 DEF WriteOutcome, GoodOutcome
      <4>5. r = [s |-> h.s, err |-> h.err, n |-> p + h.n, got |-> h.got]
        <5>1. h.n + p = p + h.n
          BY <2>3, <4>4
        <5> QED BY <4>2, <4>4, <5>1 DEF OutcomeType
      <4>6. ~t.turned => Sends(t, SubSeq(w, 1, p), g.s)
        BY <3>7, <4>1 DEF a
      <4>7. WriteOutcome(g.s, SubSeq(w, p + 1, Len(w)), h)
        BY <4>3 DEF b
      <4> QED BY <1>1, <2>3, <3>6, <4>4, <4>5, <4>6, <4>7, WriteOutcomeAfter
    <3> QED BY <3>8, <3>9
  <2> QED BY <2>8, <2>9
<1> QED BY <1>2, <1>3, <1>4

\* A write of any strategy.
LEMMA WriteOk ==
  ASSUME NEW t, Writer(t), NEW w \in Bytes, NEW r \in es_write_by_strategy(t, w)
  PROVE  WriteOutcome(t, w, r)
<1>1. /\ t \in StreamType /\ t.strategy \in Strategy /\ (t.strategy = "_IONBF" <=> t.buffer_size = 0)
      /\ t.data_offset <= t.buffer_size /\ t.data_offset \in Nat
  BY WriterIs, Fields DEF Formed
<1>2. CASE t.strategy = "_IONBF"
  <2>1. t.data_offset = 0
    BY <1>1, <1>2
  <2> QED BY <1>2, <2>1, WriteUnbufferedOk DEF es_write_by_strategy
<1>3. CASE t.strategy = "_IOLBF"
  BY <1>1, <1>3, WriteLinesOk DEF es_write_by_strategy
<1>4. CASE t.strategy = "_IOFBF"
  BY <1>1, <1>4, WriteBufferedOk DEF es_write_by_strategy
<1> QED BY <1>1, <1>2, <1>3, <1>4 DEF Strategy

\* What a write makes of any usable stream: it may have turned.
TurnOutcome(t, w, r) ==
  /\ GoodOutcome(r) /\ r.n \in 0..Len(w) /\ r.s.backend = t.backend /\ r.s.accepted = t.accepted
  /\ ~r.s.turned => Sends(t, SubSeq(w, 1, r.n), r.s)

\* The outcomes of es_writen on a stream that is not writing.
LEMMA TurnIs ==
  ASSUME NEW t, ~t.writing, t.backend # "noseek", NEW w
  PROVE  es_writen(t, w) =
           UNION {IF f.err \notin {"ok", "ESPIPE"} THEN {f}
                  ELSE es_write_by_strategy([f.s EXCEPT !.writing = TRUE, !.turned = (f.err = "ESPIPE")], w) :
                  f \in es_seek(t, "SEEK_CUR", 0)}
  BY DEF es_writen

\* es_writen leaves a good stream and sends or keeps each byte it accepts; only on a
\* backend that cannot seek may it turn the stream into one that has gone astray.
LEMMA WritenOk ==
  ASSUME NEW t, Usable(t), NEW w \in Bytes, NEW r \in es_writen(t, w)
  PROVE  TurnOutcome(t, w, r)
<1>1. /\ t \in StreamType /\ Formed(t) /\ Good(t) /\ Bounded(t) /\ t.status = "open" /\ ~t.turned
      /\ t.backend \in {"file", "pipe", "noseek"} /\ t.data_len \in Nat /\ t.data_offset \in Nat
      /\ t.buffer_size \in Nat
  BY UsableIs, Fields
<1>2. t.data_offset <= t.buffer_size
  BY <1>1 DEF Bounded
<1>3. CASE t.writing
  <2>1. Writer(t) /\ r \in es_write_by_strategy(t, w)
    BY <1>1, <1>2, <1>3 DEF Writer, es_writen
  <2>2. WriteOutcome(t, w, r)
    BY <2>1, WriteOk
  <2> QED BY <1>1, <2>2 DEF WriteOutcome, TurnOutcome
<1>4. CASE ~t.writing /\ t.backend = "noseek"
  <2> DEFINE u == [t EXCEPT !.turned = TRUE]
  <2>1. /\ u \in StreamType /\ u.turned /\ u.status = "open" /\ u.backend = t.backend
        /\ u.accepted = t.accepted /\ u.data_offset = t.data_offset /\ u.buf = t.buf
        /\ u.buffer_size = t.buffer_size /\ u.strategy = t.strategy
    BY <1>1 DEF StreamType
  <2>2. r \in es_write_by_strategy(u, w)
    BY <1>4 DEF es_writen
  <2> HIDE DEF u
  <2>3. Writer(u)
    BY <1>1, <1>2, <1>4, <2>1 DEF Writer, Good, Formed, Counted
  <2>4. WriteOutcome(u, w, r)
    BY <2>2, <2>3, WriteOk
  <2> QED BY <2>1, <2>4 DEF WriteOutcome, TurnOutcome
<1>5. CASE ~t.writing /\ t.backend # "noseek"
  <2> DEFINE E(f) == IF f.err \notin {"ok", "ESPIPE"} THEN {f}
                     ELSE es_write_by_strategy([f.s EXCEPT !.writing = TRUE, !.turned = (f.err = "ESPIPE")], w)
  <2>1. PICK f \in es_seek(t, "SEEK_CUR", 0) : r \in E(f)
    <3>1. es_writen(t, w) = UNION {E(f) : f \in es_seek(t, "SEEK_CUR", 0)}
      BY <1>5, TurnIs
    <3> HIDE DEF E
    <3> QED BY <3>1
  <2>2. /\ Harmless(t, f) /\ f.n = 0
        /\ f.err = "ok" => Reader(f.s) /\ Clean(f.s) /\ t.backend = "file"
        /\ f.err = "ESPIPE" => Reader(f.s) /\ t.backend = "pipe"
    <3>1. "SEEK_CUR" \in {"SEEK_SET", "SEEK_CUR", "SEEK_END"} /\ 0 \in Int
      OBVIOUS
    <3> QED BY <1>5, <3>1, SeekOk
  <2>3. f \in OutcomeType /\ f.s \in StreamType /\ Good(f.s) /\ Same(t, f.s) /\ Keeps(t, f.s)
    BY <2>2 DEF Harmless, GoodOutcome, OutcomeType
  <2>4. CASE f.err \notin {"ok", "ESPIPE"}
    <3>1. r = f
      BY <2>1, <2>4
    <3>2. Len(w) \in Nat /\ SubSeq(w, 1, 0) = <<>>
      BY DEF Bytes
    <3>3. Sends(t, SubSeq(w, 1, 0), f.s)
      BY <2>3, <3>2 DEF Keeps
    <3>4. 0 \in 0..Len(w) /\ f.s.backend = t.backend /\ f.s.accepted = t.accepted /\ f.s.status = "open"
      BY <1>1, <2>3, <3>2 DEF Same
    <3> QED BY <2>2, <2>3, <3>1, <3>3, <3>4 DEF TurnOutcome, GoodOutcome
  <2>5. CASE f.err \in {"ok", "ESPIPE"}
    <3> DEFINE b == f.err = "ESPIPE"
               u == [f.s EXCEPT !.writing = TRUE, !.turned = b]
    <3>1. r \in es_write_by_strategy(u, w)
      BY <2>1, <2>5
    <3>2. b \in BOOLEAN /\ (b <=> f.err = "ESPIPE")
      OBVIOUS
    <3> HIDE DEF b
    <3>3. /\ u \in StreamType /\ (u.turned <=> b) /\ u.writing /\ u.status = f.s.status
          /\ u.backend = f.s.backend /\ u.accepted = f.s.accepted /\ u.data_offset = f.s.data_offset
          /\ u.buf = f.s.buf /\ u.buffer_size = f.s.buffer_size /\ u.strategy = f.s.strategy
          /\ u.data_len = f.s.data_len /\ u.unread = f.s.unread /\ u.fpos = f.s.fpos
          /\ u.offset = f.s.offset /\ u.data_flushed = f.s.data_flushed /\ u.lost = f.s.lost
          /\ u.resent = f.s.resent
      BY <2>3, <3>2 DEF StreamType
    <3> HIDE DEF u
    <3>4. /\ Formed(f.s) /\ Bounded(f.s) /\ Counted(f.s) /\ f.s.status = "open" /\ Reader(f.s)
          /\ f.s.backend = t.backend /\ f.s.accepted = t.accepted
          /\ f.s.data_len \in Nat /\ f.s.data_offset \in Nat /\ f.s.buffer_size \in Nat
      BY <1>1, <2>2, <2>3, <2>5, UsableIs, Fields DEF Reader, Same
    <3>5. f.s.data_offset <= f.s.buffer_size
      BY <3>4 DEF Bounded, Reader
    <3>6. t.backend = "file" => ~b
      BY <2>2, <3>2
    <3>7. Formed(u)
      BY <3>3, <3>4, <3>6 DEF Formed
    <3>8. Counted(u)
      BY <3>3, <3>4 DEF Counted
    <3>9. ~b => Bounded(u) /\ Mirrors(u)
      BY <2>2, <2>5, <3>2, <3>3, <3>4, NoBytes DEF Bounded, Mirrors, Clean
    <3>10. Writer(u)
      BY <3>3, <3>4, <3>5, <3>7, <3>8, <3>9 DEF Writer, Good
    <3>11. WriteOutcome(u, w, r)
      BY <3>1, <3>10, WriteOk
    <3>12. ~b => Sends(t, SubSeq(w, 1, r.n), r.s)
      BY <2>2, <2>5, <3>2 DEF Sends
    <3> QED BY <3>3, <3>4, <3>11, <3>12 DEF WriteOutcome, TurnOutcome
  <2> QED BY <2>4, <2>5
<1> QED BY <1>3, <1>4, <1>5

-----------------------------------------------------------------------------
(* Flushing, buffering, closing *)

\* A stream whose buffer is dropped.
LEMMA DiscardIs ==
  ASSUME NEW t, Good(t)
  PROVE  LET u == Discard(t)
         IN /\ u \in StreamType /\ Same(t, u) /\ (u.writing <=> t.writing) /\ u.fpos = t.fpos
            /\ u.out = t.out /\ u.offset = t.offset /\ u.lost = t.lost + t.data_len
            /\ u.resent = t.resent /\ u.data_flushed = t.data_flushed
            /\ u.buf = <<>> /\ u.data_len = 0 /\ u.data_offset = 0 /\ u.unread = <<>>
            /\ Formed(u) /\ Mirrors(u)
<1> DEFINE E == es_empty(t)
           u == [E EXCEPT !.lost = @ + t.data_len]
<1>1. t \in StreamType /\ Formed(t)
  BY DEF Good, Formed
<1>2. /\ E \in StreamType /\ Same(t, E) /\ E.file = t.file /\ E.fpos = t.fpos /\ E.out = t.out
      /\ E.buf = <<>> /\ E.data_len = 0 /\ E.data_offset = 0 /\ E.unread = <<>>
      /\ E.data_flushed = t.data_flushed /\ E.offset = t.offset
      /\ E.lost = t.lost /\ E.resent = t.resent /\ (E.writing <=> t.writing)
  BY <1>1, EmptyIs
<1>3. E.lost + t.data_len \in Nat
  BY <1>1, <1>2, Fields
<1>4. Discard(t) = u
  BY DEF Discard
<1> HIDE DEF E
<1>5. /\ u \in StreamType /\ Same(E, u) /\ u.fpos = E.fpos /\ u.out = E.out
      /\ u.buf = E.buf /\ u.data_len = E.data_len /\ u.data_offset = E.data_offset /\ u.unread = E.unread
      /\ u.data_flushed = E.data_flushed /\ u.offset = E.offset /\ u.lost = E.lost + t.data_len
      /\ u.resent = E.resent /\ (u.writing <=> E.writing)
  BY <1>2, <1>3 DEF StreamType, Same
<1> HIDE DEF u
<1>6. Same(t, u)
  BY <1>2, <1>5 DEF Same
<1>7. Formed(u) /\ Mirrors(u)
  <2>1. u.fpos \in Nat
    BY <1>5, Fields
  <2> QED BY <1>1, <1>2, <1>5, <1>6, <2>1, NoBytes DEF Formed, Mirrors, Same
<1> QED BY <1>2, <1>4, <1>5, <1>6, <1>7

\* do_fflush leaves a good stream, empty if it succeeds.
LEMMA FflushOk ==
  ASSUME NEW t, Good(t), t.status = "open", NEW r \in do_fflush(t)
  PROVE  /\ GoodOutcome(r) /\ Same(t, r.s) /\ (~t.turned => Keeps(t, r.s))
         /\ ~t.turned /\ r.err = "ok" => Clean(r.s)
<1>1. CASE t.writing
  BY <1>1, FlushOk DEF do_fflush
<1>2. CASE ~t.writing
  <2> DEFINE u == Discard(t)
  <2>1. /\ u \in StreamType /\ Same(t, u) /\ (u.writing <=> t.writing) /\ u.fpos = t.fpos
        /\ u.out = t.out /\ u.offset = t.offset /\ u.lost = t.lost + t.data_len
        /\ u.resent = t.resent /\ u.data_flushed = t.data_flushed
        /\ u.buf = <<>> /\ u.data_len = 0 /\ u.data_offset = 0 /\ u.unread = <<>>
        /\ Formed(u) /\ Mirrors(u)
    BY DiscardIs
  <2>2. r = Done(u)
    BY <1>2 DEF do_fflush
  <2> HIDE DEF u
  <2>3. t \in StreamType /\ Formed(t) /\ Counted(t) /\ (~t.turned => Bounded(t))
    BY DEF Good, Formed
  <2>4. Counted(u)
    <3> SUFFICES ASSUME t.backend = "file"
                 PROVE  u.fpos = u.offset + u.data_len + u.data_flushed + u.lost + u.resent
      BY <2>1 DEF Counted, Same
    <3> DEFINE O == t.offset
               L == t.data_len
               X == t.lost
               F == t.data_flushed
               R == t.resent
    <3>1. O \in Nat /\ L \in Nat /\ X \in Nat /\ F \in Nat /\ R \in Nat
      BY <2>3, Fields
    <3>2. t.fpos = O + L + F + X + R
      BY <2>3 DEF Counted
    <3>3. O + L + F + X + R = O + 0 + F + (X + L) + R
      <4> HIDE DEF O, L, F, X, R
      <4> QED BY <3>1
    <3> QED BY <2>1, <3>2, <3>3
  <2>5. ~t.turned => Bounded(u) /\ u.data_flushed = 0 /\ t.data_flushed = 0
    <3>1. u.buffer_size \in Nat /\ UnreadSize \in Nat
      BY <2>1, Fields, Constants
    <3> QED BY <1>2, <2>1, <2>3, <3>1, NoBytes DEF Bounded
  <2>6. Good(u) /\ (~t.turned => Clean(u))
    BY <2>1, <2>4, <2>5 DEF Good, Same, Clean
  <2>7. Keeps(t, u)
    <3>1. SentBy(u) = SentBy(t)
      BY <1>2, <2>1 DEF SentBy, Pending
    <3>2. u.data_flushed + u.resent = t.data_flushed + t.resent
      BY <2>1
    <3> QED BY <2>1, <2>3, <3>1, <3>2, KeepsIf
  <2>8. r = [s |-> u, err |-> "ok", n |-> 0, got |-> <<>>] /\ r \in OutcomeType
    BY <2>1, <2>2, DoneIs
  <2> QED BY <2>1, <2>6, <2>7, <2>8 DEF GoodOutcome
<1> QED BY <1>1, <1>2

\* A clean stream that gets a buffer, another size and strategy, or loses its buffer.
Rebuffers(t, u) ==
  /\ u.buf = <<>> /\ (u.strategy = "_IONBF" <=> u.buffer_size = 0)
  /\ u.backend = t.backend /\ u.accepted = t.accepted /\ u.data_offset = t.data_offset
  /\ u.data_len = t.data_len /\ u.unread = t.unread /\ u.fpos = t.fpos
  /\ u.offset = t.offset /\ u.data_flushed = t.data_flushed /\ u.lost = t.lost
  /\ u.resent = t.resent /\ (u.turned <=> t.turned) /\ (u.writing <=> t.writing)
  /\ u.status = t.status /\ u.out = t.out /\ u.file = t.file

\* It stays good, and nothing is lost with an empty buffer.
LEMMA RebufferedIs ==
  ASSUME NEW t, Usable(t), Clean(t), NEW u \in StreamType, Rebuffers(t, u)
  PROVE  Good(u) /\ Keeps(t, u)
<1>1. t \in StreamType /\ Good(t) /\ Formed(t) /\ Counted(t) /\ Bounded(t) /\ t.status = "open" /\ ~t.turned
  BY UsableIs
<1>2. u.fpos \in Nat /\ u.buffer_size \in Nat
  BY Fields
<1>3. Formed(u)
  BY <1>1, NoBytes DEF Formed, Clean, Rebuffers
<1>4. Counted(u)
  BY <1>1 DEF Counted, Clean, Rebuffers
<1>5. Bounded(u) /\ Mirrors(u)
  BY <1>1, <1>2, NoBytes DEF Bounded, Mirrors, Clean, Rebuffers
<1>6. Good(u)
  BY <1>1, <1>3, <1>4, <1>5 DEF Good, Rebuffers
<1>7. Pending(u) = <<>> /\ Pending(t) = <<>>
  BY <1>1, <1>3, PendingIs DEF Formed, Clean, Rebuffers
<1>8. SentBy(u) = SentBy(t) /\ u.data_flushed + u.resent = t.data_flushed + t.resent
  BY <1>7 DEF SentBy, Rebuffers
<1> QED BY <1>1, <1>3, <1>6, <1>8, KeepsIf

\* The outcomes of es_set_buffering.
Cleared(t) == [t EXCEPT !.eof = FALSE, !.buf = <<>>]
LEMMA SetBufferingIs ==
  ASSUME NEW t, NEW strategy, NEW size, NEW r \in es_set_buffering(t, strategy, size)
  PROVE  \E f \in do_fflush(t) :
           (f.err # "ok" /\ r = f) \/ (f.err = "ok" /\ r \in NewBuffer(Cleared(f.s), strategy, size))
<1> DEFINE E(f) == IF f.err # "ok" THEN {f} ELSE NewBuffer(Cleared(f.s), strategy, size)
<1>1. es_set_buffering(t, strategy, size) = UNION {E(f) : f \in do_fflush(t)}
  BY DEF es_set_buffering, Cleared
<1>2. PICK f \in do_fflush(t) : r \in E(f)
  <2> HIDE DEF E
  <2> QED BY <1>1
<1> QED BY <1>2

\* A clean stream is good after NewBuffer, whether it gets a buffer or not.
LEMMA NewBufferOk ==
  ASSUME NEW t, Usable(t), Clean(t), NEW strategy \in Strategy, NEW size \in Sizes,
         NEW r \in NewBuffer(Cleared(t), strategy, size)
  PROVE  /\ r \in OutcomeType /\ r.n = 0 /\ r.got = <<>> /\ r.err \in {"ok", "ENOMEM"}
         /\ Rebuffers(t, r.s) /\ Good(r.s) /\ Keeps(t, r.s)
<1> DEFINE c == Cleared(t)
           z == IF strategy = "_IONBF" THEN 0 ELSE size
           own == IF c.buffer = "own" THEN "own" ELSE "none"
<1>1. t \in StreamType /\ Formed(t)
  BY UsableIs
<1>2. z \in Nat /\ (strategy = "_IONBF" <=> z = 0)
  BY Constants
<1>3. r \in {Done([c EXCEPT !.strategy = strategy, !.buffer = b, !.buffer_size = z]) :
                b \in IF strategy = "_IONBF" THEN {"own"} ELSE {"own", "allocated"}}
            \cup {Fail([c EXCEPT !.buffer = own], "ENOMEM") : allocating \in {strategy} \ {"_IONBF"}}
  BY DEF NewBuffer
<1>4. own \in {"own", "none"}
  OBVIOUS
<1> HIDE DEF z, own
<1>5. c \in StreamType /\ Rebuffers(t, c)
  BY <1>1, NoBytes, ZenonT(60) DEF StreamType, Bytes, Cleared, Rebuffers, Formed
<1> HIDE DEF c
<1>6. \/ \E b \in {"own", "allocated"} : r = Done([c EXCEPT !.strategy = strategy, !.buffer = b, !.buffer_size = z])
      \/ r = Fail([c EXCEPT !.buffer = own], "ENOMEM")
  BY <1>3
<1>7. ASSUME NEW b \in {"own", "allocated"},
             r = Done([c EXCEPT !.strategy = strategy, !.buffer = b, !.buffer_size = z])
      PROVE  \E u \in StreamType : Rebuffers(t, u) /\ r = Fail(u, "ok")
  <2> DEFINE u == [c EXCEPT !.strategy = strategy, !.buffer = b, !.buffer_size = z]
  <2>1. u \in StreamType
    BY <1>2, <1>5 DEF StreamType
  <2>2. Rebuffers(t, u)
    BY <1>2, <1>5 DEF StreamType, Rebuffers
  <2>3. r = Fail(u, "ok")
    BY <1>7 DEF Done
  <2> HIDE DEF u
  <2> QED BY <2>1, <2>2, <2>3
<1>8. ASSUME r = Fail([c EXCEPT !.buffer = own], "ENOMEM")
      PROVE  \E u \in StreamType : Rebuffers(t, u) /\ r = Fail(u, "ENOMEM")
  <2> DEFINE u == [c EXCEPT !.buffer = own]
  <2>1. u \in StreamType
    BY <1>4, <1>5 DEF StreamType
  <2>2. Rebuffers(t, u)
    BY <1>5 DEF StreamType, Rebuffers
  <2>3. r = Fail(u, "ENOMEM")
    BY <1>8
  <2> HIDE DEF u
  <2> QED BY <2>1, <2>2, <2>3
<1>9. PICK u \in StreamType, e \in {"ok", "ENOMEM"} : Rebuffers(t, u) /\ r = Fail(u, e)
  BY <1>6, <1>7, <1>8
<1>10. e \in Errno
  BY DEF Errno
<1>11. r = [s |-> u, err |-> e, n |-> 0, got |-> <<>>] /\ r \in OutcomeType
  BY <1>9, <1>10, FailIs
<1>12. Good(u) /\ Keeps(t, u)
  BY <1>9, RebufferedIs
<1> QED BY <1>9, <1>11, <1>12

\* es_set_buffering leaves a good stream and loses nothing that was accepted.
LEMMA SetBufferingOk ==
  ASSUME NEW t, Usable(t), NEW strategy \in Strategy, NEW size \in Sizes,
         NEW r \in es_set_buffering(t, strategy, size)
  PROVE  /\ GoodOutcome(r) /\ r.s.backend = t.backend /\ r.s.accepted = t.accepted
         /\ (r.s.turned <=> t.turned) /\ Keeps(t, r.s)
<1>1. PICK f \in do_fflush(t) :
        (f.err # "ok" /\ r = f) \/ (f.err = "ok" /\ r \in NewBuffer(Cleared(f.s), strategy, size))
  BY SetBufferingIs
<1>2. Good(t) /\ t.status = "open" /\ ~t.turned /\ Formed(t)
  BY UsableIs
<1>3. /\ GoodOutcome(f) /\ Same(t, f.s) /\ Keeps(t, f.s)
      /\ f.err = "ok" => Clean(f.s)
  BY <1>2, FflushOk
<1>4. CASE f.err # "ok"
  BY <1>1, <1>3, <1>4 DEF Same
<1>5. CASE f.err = "ok"
  <2>1. f.s \in StreamType /\ Good(f.s) /\ Formed(f.s) /\ Usable(f.s) /\ Clean(f.s)
    BY <1>2, <1>3, <1>5 DEF GoodOutcome, OutcomeType, Good, Same, Usable
  <2>2. r \in OutcomeType /\ Rebuffers(f.s, r.s) /\ Good(r.s) /\ Keeps(f.s, r.s)
    BY <1>1, <1>5, <2>1, NewBufferOk
  <2>3. r.s.backend = t.backend /\ r.s.accepted = t.accepted /\ (r.s.turned <=> t.turned)
    BY <1>3, <2>2 DEF Same, Rebuffers
  <2>4. Formed(r.s) /\ f.s.backend = t.backend
    BY <1>3, <2>2 DEF Good, Same
  <2>5. Keeps(t, r.s)
    BY <1>2, <1>3, <2>1, <2>2, <2>4, NoBytes, KeepsAfter DEF Keeps
  <2> QED BY <2>2, <2>3, <2>5 DEF GoodOutcome
<1> QED BY <1>4, <1>5

\* What a closed stream still is, whatever it was before.
LEMMA ClosedIs ==
  ASSUME NEW t \in StreamType, Formed(t), ~t.turned => Mirrors(t)
  PROVE  LET u == [t EXCEPT !.status = "closed"]
         IN /\ u \in StreamType /\ Good(u) /\ u.status = "closed" /\ u.backend = t.backend
            /\ u.accepted = t.accepted /\ u.file = t.file /\ u.out = t.out
<1> DEFINE u == [t EXCEPT !.status = "closed"]
<1>1. /\ u \in StreamType /\ u.status = "closed" /\ u.backend = t.backend /\ u.accepted = t.accepted
      /\ u.data_offset = t.data_offset /\ u.buf = t.buf /\ u.buffer_size = t.buffer_size
      /\ u.strategy = t.strategy /\ (u.turned <=> t.turned) /\ (u.writing <=> t.writing)
      /\ u.data_len = t.data_len /\ u.fpos = t.fpos /\ u.file = t.file /\ u.out = t.out
  BY DEF StreamType
<1> HIDE DEF u
<1>2. Good(u)
  BY <1>1 DEF Good, Formed, Mirrors
<1> QED BY <1>1, <1>2 DEF u

\* The backend has got all that t held.
HasAll(t, u) ==
  /\ t.backend = "file" => u.file = Overlay(t.file, t.fpos, Pending(t))
  /\ t.backend # "file" => u.out = SentBy(t)

\* The stream that do_close starts from, and what becomes of an outcome f.
Abandoned(t) == [Discard(t) EXCEPT !.writing = FALSE]
Closed(f, e) == [f EXCEPT !.s.status = "closed", !.err = IF f.err # "ok" THEN f.err ELSE e]

\* The outcomes of do_close.
LEMMA CloseIs ==
  ASSUME NEW t, NEW cancel
  PROVE  do_close(t, cancel) =
           LET t1 == IF cancel THEN Abandoned(t) ELSE t
           IN UNION {{Closed(f, e) : e \in {"ok"} \cup (Faults \ {"EAGAIN"})} :
                     f \in IF t1.writing THEN flush_stream(t1) ELSE {Done(t1)}}
  BY DEF do_close, Abandoned, Closed

\* do_close leaves a good stream; when it succeeds and was no cancel, the backend has all.
LEMMA CloseOk ==
  ASSUME NEW t, Good(t), t.status = "open", NEW cancel \in BOOLEAN, NEW r \in do_close(t, cancel)
  PROVE  /\ GoodOutcome(r) /\ r.s.status = "closed" /\ r.s.backend = t.backend /\ r.s.accepted = t.accepted
         /\ ~cancel /\ r.err = "ok" => HasAll(t, r.s)
<1> DEFINE t1 == IF cancel THEN Abandoned(t) ELSE t
           S(f) == {Closed(f, e) : e \in {"ok"} \cup (Faults \ {"EAGAIN"})}
           F == IF t1.writing THEN flush_stream(t1) ELSE {Done(t1)}
<1>1. PICK f \in F : r \in S(f)
  <2>1. do_close(t, cancel) = UNION {S(f) : f \in F}
    BY CloseIs
  <2> HIDE DEF S, F
  <2> QED BY <2>1
<1>2. PICK e \in {"ok"} \cup (Faults \ {"EAGAIN"}) : r = Closed(f, e)
  BY <1>1
<1>3. t \in StreamType /\ Formed(t) /\ (~t.turned => Mirrors(t))
  BY DEF Good, Formed
\* The outcome before the backend is closed.
<1>4. /\ f \in OutcomeType /\ Formed(f.s) /\ (~f.s.turned => Mirrors(f.s))
      /\ f.s.backend = t.backend /\ f.s.accepted = t.accepted
      /\ ~cancel /\ f.err = "ok" => HasAll(t, f.s)
  <2>1. CASE cancel
    <3> DEFINE D == Discard(t)
               u == Abandoned(t)
    <3>1. /\ D \in StreamType /\ Same(t, D) /\ D.buf = <<>> /\ D.data_len = 0 /\ D.data_offset = 0
          /\ Formed(D) /\ D.fpos \in Nat
      <4>1. D \in StreamType /\ Same(t, D) /\ D.buf = <<>> /\ D.data_len = 0 /\ D.data_offset = 0 /\ Formed(D)
        BY DiscardIs
      <4> HIDE DEF D
      <4> QED BY <4>1, Fields
    <3>2. u = [D EXCEPT !.writing = FALSE]
      BY DEF Abandoned
    <3> HIDE DEF D
    <3>3. /\ u \in StreamType /\ ~u.writing /\ u.backend = D.backend /\ u.accepted = D.accepted
          /\ u.data_offset = D.data_offset /\ u.buf = D.buf /\ u.buffer_size = D.buffer_size
          /\ u.strategy = D.strategy /\ (u.turned <=> D.turned) /\ u.data_len = D.data_len /\ u.fpos = D.fpos
      BY <3>1, <3>2, ZenonT(60) DEF StreamType
    <3>4. f = Done(u)
      BY <1>1, <2>1, <3>3
    <3> HIDE DEF u
    <3>5. Formed(u) /\ Mirrors(u)
      BY <3>1, <3>3 DEF Formed, Mirrors
    <3>6. f = [s |-> u, err |-> "ok", n |-> 0, got |-> <<>>] /\ f \in OutcomeType
      BY <3>3, <3>4, DoneIs
    <3> QED BY <2>1, <3>1, <3>3, <3>5, <3>6 DEF Same
  <2>2. CASE ~cancel /\ t.writing
    <3>1. f \in flush_stream(t)
      BY <1>1, <2>2
    <3>2. GoodOutcome(f) /\ Same(t, f.s) /\ (f.err = "ok" => HasAll(t, f.s))
      BY <2>2, <3>1, FlushOk DEF HasAll
    <3> QED BY <3>2 DEF GoodOutcome, Good, Same
  <2>3. CASE ~cancel /\ ~t.writing
    <3>1. f = Done(t)
      BY <1>1, <2>3
    <3>2. f = [s |-> t, err |-> "ok", n |-> 0, got |-> <<>>] /\ f \in OutcomeType
      BY <1>3, <3>1, DoneIs
    <3>3. Pending(t) = <<>>
      BY <2>3 DEF Pending
    <3>4. HasAll(t, t)
      <4>1. t.out \in Bytes
        BY <1>3, Fields
      <4> QED BY <3>3, <4>1, NoBytes DEF HasAll, SentBy, Overlay
    <3> QED BY <1>3, <3>1, <3>2, <3>4
  <2> QED BY <2>1, <2>2, <2>3
<1> HIDE DEF t1, S, F
<1> DEFINE u == [f.s EXCEPT !.status = "closed"]
           x == IF f.err # "ok" THEN f.err ELSE e
<1>5. f.s \in StreamType
  BY <1>4 DEF OutcomeType
<1>6. u \in StreamType /\ Good(u) /\ u.status = "closed" /\ u.backend = f.s.backend /\ u.accepted = f.s.accepted
      /\ u.file = f.s.file /\ u.out = f.s.out
  BY <1>4, <1>5, ClosedIs
<1>7. x \in Errno
  BY <1>4, FaultsAre DEF OutcomeType
<1>8. r = [s |-> u, err |-> x, n |-> f.n, got |-> f.got]
  BY <1>2, <1>4 DEF Closed, OutcomeType
<1>10. x = "ok" => f.err = "ok"
  OBVIOUS
<1> HIDE DEF u, x
<1>9. r \in OutcomeType
  BY <1>4, <1>6, <1>7, <1>8 DEF OutcomeType
<1> QED BY <1>4, <1>6, <1>8, <1>9, <1>10 DEF GoodOutcome, HasAll

-----------------------------------------------------------------------------
(***************************************************************************)
(* The invariant of the specification.                                     *)
(***************************************************************************)

\* The backend has or will get all that it was given, in this order, and no
\* more of it twice than failed flushes account for.
Delivered(t) ==
  /\ t.backend = "file" => t.accepted = <<>>
  /\ (t.backend # "file" /\ t.status = "open" /\ ~t.turned) =>
        News(t) = Len(t.accepted) /\ Embeds(t.accepted, SentBy(t))

IInv ==
  /\ mode \in Modes
  /\ Good(s) /\ Delivered(s)
  /\ ret.errno \in Errno /\ ret.bytes \in Bytes /\ ret.rc \in Int

\* A result that a call may have.
Result(r) == GoodOutcome(r) /\ Delivered(r.s)

\* What is sent and what is accepted grow by the same bytes.
LEMMA DeliveredAfter ==
  ASSUME NEW t, NEW u, NEW w \in Bytes, NEW v \in StreamType,
         Usable(t), Delivered(t), Formed(u), u.backend = t.backend, u.accepted = t.accepted,
         ~u.turned => Sends(t, w, u),
         v.backend = u.backend, v.turned <=> u.turned,
         v.accepted = IF t.backend = "file" THEN u.accepted ELSE u.accepted \o w,
         t.backend # "file" /\ ~u.turned => SentBy(v) = SentBy(u) /\ News(v) = News(u)
  PROVE  Delivered(v)
<1>1. t \in StreamType /\ Formed(t) /\ t.status = "open" /\ ~t.turned /\ t.accepted \in Bytes
  BY UsableIs, Fields
<1>2. t.backend = "file" => v.accepted = <<>>
  BY DEF Delivered
<1>3. ASSUME t.backend # "file", ~u.turned
      PROVE  News(v) = Len(v.accepted) /\ Embeds(v.accepted, SentBy(v))
  <2> DEFINE a == t.accepted
             T == SentBy(t)
             U == SentBy(u)
  <2>1. News(t) = Len(a) /\ Embeds(a, T)
    BY <1>1, <1>3 DEF Delivered
  <2>2. News(u) = News(t) + Len(w) /\ Embeds(T \o w, U)
    BY <1>3 DEF Sends
  <2>3. T \in Bytes /\ U \in Bytes
    BY <1>1, PendingIs DEF Formed
  <2>4. v.accepted = a \o w /\ SentBy(v) = U /\ News(v) = News(u)
    BY <1>3
  <2> HIDE DEF a, T, U
  <2>5. a \in Bytes
    BY <1>1 DEF a
  <2>6. a \o w \in Bytes /\ Len(a \o w) = Len(a) + Len(w) /\ T \o w \in Bytes
    BY <2>3, <2>5, Joined
  <2>7. Embeds(a \o w, T \o w)
    BY <2>1, <2>3, <2>5, EmbedsJoined
  <2>8. Embeds(a \o w, U)
    BY <2>2, <2>3, <2>6, <2>7, EmbedsTrans
  <2> QED BY <2>1, <2>2, <2>4, <2>6, <2>8
<1> QED BY <1>2, <1>3 DEF Delivered

\* An outcome that sends and accepts nothing.
LEMMA KeepsResult ==
  ASSUME NEW t, NEW r, Usable(t), Delivered(t), GoodOutcome(r), r.s.backend = t.backend,
         r.s.accepted = t.accepted, Keeps(t, r.s)
  PROVE  Result(r)
<1>1. r.s \in StreamType /\ Formed(r.s) /\ r.s.accepted \in Bytes
  <2>1. r.s \in StreamType /\ Formed(r.s)
    BY DEF GoodOutcome, OutcomeType, Good
  <2> QED BY <2>1, Fields
<1>2. r.s.accepted \o <<>> = r.s.accepted
  BY <1>1, NoBytes
<1>3. Delivered(r.s)
  BY <1>1, <1>2, NoBytes, DeliveredAfter DEF Keeps
<1> QED BY <1>3 DEF Result

\* A harmless outcome.
LEMMA HarmlessResult ==
  ASSUME NEW t, NEW r, Usable(t), Delivered(t), Harmless(t, r)
  PROVE  Result(r)
<1>1. GoodOutcome(r) /\ r.s.backend = t.backend /\ r.s.accepted = t.accepted /\ Keeps(t, r.s)
  BY DEF Harmless, Same
<1> QED BY <1>1, KeepsResult

\* The result of a write, which records what was accepted.
Recorded(t, w, r) ==
  [r EXCEPT !.got = SubSeq(w, 1, r.n),
            !.s.accepted = IF t.backend = "file" THEN @ ELSE @ \o SubSeq(w, 1, r.n)]

\* An outcome with two of its fields replaced.
LEMMA TwoFields ==
  ASSUME NEW r \in OutcomeType, NEW g, NEW a
  PROVE  [r EXCEPT !.got = g, !.s.accepted = a] =
           [s |-> [r.s EXCEPT !.accepted = a], err |-> r.err, n |-> r.n, got |-> g]
<1> DEFINE R == [r EXCEPT !.got = g]
<1>1. R = [s |-> r.s, err |-> r.err, n |-> r.n, got |-> g]
  BY DEF OutcomeType
<1>2. [r EXCEPT !.got = g, !.s.accepted = a] = [R EXCEPT !.s = [R.s EXCEPT !.accepted = a]]
  OBVIOUS
<1> HIDE DEF R
<1> QED BY <1>1, <1>2

\* The outcome of a write, with what it has accepted.
LEMMA RecordedResult ==
  ASSUME NEW t, Usable(t), Delivered(t), NEW w \in Bytes, NEW r, TurnOutcome(t, w, r)
  PROVE  Result(Recorded(t, w, r))
<1> DEFINE g == SubSeq(w, 1, r.n)
           u == r.s
           a == IF t.backend = "file" THEN u.accepted ELSE u.accepted \o g
           v == [u EXCEPT !.accepted = a]
           q == Recorded(t, w, r)
<1>1. /\ r \in OutcomeType /\ u \in StreamType /\ Good(u) /\ Formed(u) /\ r.n \in 0..Len(w)
      /\ u.backend = t.backend /\ u.accepted = t.accepted /\ u.accepted \in Bytes
      /\ ~u.turned => Sends(t, g, u)
  <2>1. r \in OutcomeType /\ u \in StreamType /\ Good(u) /\ Formed(u)
    BY DEF TurnOutcome, GoodOutcome, OutcomeType, Good
  <2> QED BY <2>1, Fields DEF TurnOutcome
<1>2. g \in Bytes
  <2>1. r.n \in Nat /\ r.n <= Len(w)
    BY <1>1 DEF Bytes
  <2> QED BY <2>1, Front
<1>3. q = [s |-> v, err |-> r.err, n |-> r.n, got |-> g]
  <2>1. q = [r EXCEPT !.got = g, !.s.accepted = a]
    BY DEF Recorded
  <2> HIDE DEF g, a, q
  <2> QED BY <1>1, <2>1, TwoFields
<1> HIDE DEF g
<1>4. a \in Bytes
  BY <1>1, <1>2, Joined
<1> HIDE DEF u, a
<1>5. /\ v \in StreamType /\ v.accepted = a /\ v.backend = u.backend /\ v.status = u.status /\ v.buffer = u.buffer
      /\ (v.turned <=> u.turned) /\ (v.writing <=> u.writing)
      /\ v.file = u.file /\ v.fpos = u.fpos /\ v.out = u.out /\ v.buf = u.buf
      /\ v.buffer_size = u.buffer_size /\ v.data_len = u.data_len /\ v.data_offset = u.data_offset
      /\ v.data_flushed = u.data_flushed /\ v.unread = u.unread /\ v.offset = u.offset
      /\ v.strategy = u.strategy /\ v.lost = u.lost /\ v.resent = u.resent
  BY <1>1, <1>4 DEF StreamType, Bytes
<1> HIDE DEF v
<1>6. Good(v)
  BY <1>1, <1>5 DEF Good, Formed, Counted, Bounded, Mirrors
<1>7. SentBy(v) = SentBy(u) /\ News(v) = News(u)
  BY <1>5 DEF SentBy, News, Pending
<1>8. Delivered(v)
  <2>1. v.accepted = IF t.backend = "file" THEN u.accepted ELSE u.accepted \o g
    BY <1>5 DEF a
  <2> QED BY <1>1, <1>2, <1>5, <1>7, <2>1, DeliveredAfter
<1>9. q \in OutcomeType /\ q.s = v
  <2> HIDE DEF q
  <2> QED BY <1>1, <1>2, <1>3, <1>5 DEF OutcomeType
<1> HIDE DEF q
<1>10. Result(q)
  BY <1>6, <1>8, <1>9 DEF Result, GoodOutcome
<1> QED BY <1>10 DEF q

-----------------------------------------------------------------------------
(* Every step keeps the invariant. *)

\* The value a call returns is a number.
LEMMA ReturnCodeIs ==
  ASSUME NEW op, NEW r, r.n \in Int
  PROVE  ReturnCode(op, r) \in Int
<1>1. -1 \in Int /\ 0 \in Int /\ 1 \in Int
  OBVIOUS
<1> QED BY <1>1 DEF ReturnCode

\* A call keeps the invariant when each outcome it may have is one that a
\* stream may be left in.
LEMMA CallKeeps ==
  ASSUME IInv, NEW op, NEW arg, NEW outcomes, Call(op, arg, outcomes),
         \A r \in outcomes : Result(r)
  PROVE  IInv'
<1>1. PICK r \in outcomes :
        /\ s' = r.s
        /\ ret' = [op |-> op, arg |-> arg, rc |-> ReturnCode(op, r), errno |-> r.err, bytes |-> r.got]
  BY DEF Call
<1>2. mode' = mode
  BY DEF Call
<1>3. r \in OutcomeType /\ Good(r.s) /\ Delivered(r.s)
  BY DEF Result, GoodOutcome
<1>4. r.n \in Int /\ r.err \in Errno /\ r.got \in Bytes
  BY <1>3 DEF OutcomeType
<1>5. ReturnCode(op, r) \in Int
  BY <1>4, ReturnCodeIs
<1>6. ret'.errno = r.err /\ ret'.bytes = r.got /\ ret'.rc = ReturnCode(op, r)
  BY <1>1
<1>7. Good(s)' /\ Delivered(s)'
  BY <1>1, <1>3 DEF Good, Formed, Counted, Bounded, Mirrors, Delivered, News, SentBy, Pending
<1> QED BY <1>2, <1>4, <1>5, <1>6, <1>7 DEF IInv

\* A stream that has not turned is in the middle of its life when it is called.
LEMMA CalledIsUsable ==
  ASSUME IInv, NEW op, NEW arg, NEW outcomes, Call(op, arg, outcomes)
  PROVE  /\ Good(s) /\ Delivered(s) /\ s.status = "open"
         /\ op \notin {"fflush", "fclose"} => Usable(s)
         /\ s.turned \/ Usable(s)
  BY DEF IInv, Call, Usable

\* A call whose outcomes are all harmless.
LEMMA HarmlessCall ==
  ASSUME IInv, NEW op, NEW arg, NEW outcomes, Call(op, arg, outcomes),
         op \notin {"fflush", "fclose"}, \A r \in outcomes : Harmless(s, r)
  PROVE  IInv'
<1>1. Usable(s) /\ Delivered(s)
  BY CalledIsUsable
<1>2. \A r \in outcomes : Result(r)
  BY <1>1, HarmlessResult
<1> QED BY <1>2, CallKeeps

\* gpgrt_write keeps the invariant.
LEMMA WriteKeeps ==
  ASSUME IInv, NEW w \in Strings, Write(w)
  PROVE  IInv'
<1> DEFINE O == {Recorded(s, w, r) : r \in es_writen(s, w)}
<1>1. Call("write", w, O)
  BY DEF Write, Recorded
<1>2. w \in Bytes
  <2>1. PICK n \in 1..MaxIO : w \in [1..n -> Byte]
    BY DEF Strings
  <2>2. n \in Nat
    BY <2>1, Constants
  <2> QED BY <2>1, <2>2 DEF Bytes
<1>3. Usable(s) /\ Delivered(s)
  BY <1>1, CalledIsUsable
<1>4. ASSUME NEW q \in O PROVE Result(q)
  <2>1. PICK r \in es_writen(s, w) : q = Recorded(s, w, r)
    OBVIOUS
  <2>2. TurnOutcome(s, w, r)
    BY <1>2, <1>3, WritenOk
  <2> QED BY <1>2, <1>3, <2>1, <2>2, RecordedResult
<1> HIDE DEF O
<1> QED BY <1>1, <1>4, CallKeeps

\* gpgrt_fseeko keeps the invariant.
LEMMA SeekKeeps ==
  ASSUME IInv, NEW whence \in {"SEEK_SET", "SEEK_CUR", "SEEK_END"}, NEW o \in Offsets, Seek(whence, o)
  PROVE  IInv'
<1>1. Call("seek", <<whence, o>>, es_seek(s, whence, o))
  BY DEF Seek
<1>2. o \in Int
  BY Constants
<1>3. Usable(s)
  BY <1>1, CalledIsUsable
<1>4. \A r \in es_seek(s, whence, o) : Harmless(s, r)
  BY <1>2, <1>3, SeekOk
<1> QED BY <1>1, <1>4, HarmlessCall

\* gpgrt_rewind keeps the invariant.
LEMMA RewindKeeps ==
  ASSUME IInv, Rewind
  PROVE  IInv'
<1> DEFINE O == {WithErr(r, FALSE) : r \in es_seek(s, "SEEK_SET", 0)}
<1>1. Call("rewind", <<"SEEK_SET", 0>>, O)
  BY DEF Rewind, WithErr
<1>2. Usable(s) /\ Good(s)
  BY <1>1, CalledIsUsable
<1>3. ASSUME NEW q \in O PROVE Harmless(s, q)
  <2>1. PICK r \in es_seek(s, "SEEK_SET", 0) : q = WithErr(r, FALSE)
    OBVIOUS
  <2>2. Harmless(s, r)
    BY <1>2, SeekOk
  <2> QED BY <1>2, <2>1, <2>2, MarkedOutcome
<1> HIDE DEF O
<1> QED BY <1>1, <1>3, HarmlessCall

\* gpgrt_fflush keeps the invariant.
LEMMA FflushKeeps ==
  ASSUME IInv, Fflush
  PROVE  IInv'
<1>1. Call("fflush", <<>>, do_fflush(s))
  BY DEF Fflush
<1>2. Good(s) /\ Delivered(s) /\ s.status = "open" /\ (s.turned \/ Usable(s)) /\ s.accepted \in Bytes
  <2>1. Good(s) /\ Delivered(s) /\ s.status = "open" /\ (s.turned \/ Usable(s))
    BY <1>1, CalledIsUsable
  <2> QED BY <2>1, Fields DEF Good, Formed
<1>3. ASSUME NEW r \in do_fflush(s) PROVE Result(r)
  <2>1. GoodOutcome(r) /\ Same(s, r.s) /\ (~s.turned => Keeps(s, r.s))
    BY <1>2, FflushOk
  <2>2. CASE s.turned
    BY <1>2, <2>1, <2>2 DEF Same, Delivered, Result
  <2>3. CASE ~s.turned
    BY <1>2, <2>1, <2>3, KeepsResult DEF Same
  <2> QED BY <2>2, <2>3
<1> QED BY <1>1, <1>3, CallKeeps

\* gpgrt_setvbuf keeps the invariant.
LEMMA SetvbufKeeps ==
  ASSUME IInv, NEW strategy \in Strategy, NEW size \in Sizes, Setvbuf(strategy, size)
  PROVE  IInv'
<1>1. Call("setvbuf", <<>>, es_set_buffering(s, strategy, size))
  BY DEF Setvbuf
<1>2. Usable(s) /\ Delivered(s)
  BY <1>1, CalledIsUsable
<1>3. \A r \in es_set_buffering(s, strategy, size) : Result(r)
  BY <1>2, SetBufferingOk, KeepsResult
<1> QED BY <1>1, <1>3, CallKeeps

\* gpgrt_clearerr keeps the invariant.
LEMMA ClearerrKeeps ==
  ASSUME IInv, Clearerr
  PROVE  IInv'
<1> DEFINE u == [s EXCEPT !.eof = FALSE, !.err = FALSE]
<1>1. Call("clearerr", <<>>, {Done(u)})
  BY DEF Clearerr
<1>2. Good(s)
  BY <1>1, CalledIsUsable
<1>3. u \in {[s EXCEPT !.err = TRUE], [s EXCEPT !.err = FALSE], [s EXCEPT !.eof = TRUE],
             [s EXCEPT !.eof = FALSE, !.err = FALSE]}
  OBVIOUS
<1> HIDE DEF u
<1>4. u \in StreamType /\ Good(u) /\ Same(s, u) /\ Keeps(s, u)
  BY <1>2, <1>3, MarkedIs
<1>5. Done(u) \in OutcomeType /\ Done(u).s = u
  BY <1>4, DoneIs
<1>6. Harmless(s, Done(u))
  BY <1>4, <1>5 DEF Harmless, GoodOutcome
<1> QED BY <1>1, <1>6, HarmlessCall

\* gpgrt_fclose and gpgrt_fcancel keep the invariant.
LEMMA CloseKeeps ==
  ASSUME IInv, Fclose \/ Fcancel
  PROVE  IInv'
<1>1. PICK cancel \in BOOLEAN, op \in {"fclose", "fcancel"} : Call(op, <<>>, do_close(s, cancel))
  BY DEF Fclose, Fcancel
<1>2. Good(s) /\ Delivered(s) /\ s.status = "open"
  BY <1>1, CalledIsUsable
<1>3. ASSUME NEW r \in do_close(s, cancel) PROVE Result(r)
  <2>1. GoodOutcome(r) /\ r.s.status = "closed" /\ r.s.backend = s.backend /\ r.s.accepted = s.accepted
    BY <1>2, CloseOk
  <2> QED BY <1>2, <2>1 DEF Delivered, Result
<1> QED BY <1>1, <1>3, CallKeeps

\* The calls that read keep the invariant.
LEMMA ReadKeeps ==
  ASSUME IInv, (\E n \in 1..MaxIO : Read(n)) \/ Getc \/ GetLine \/ ReadLine \/ IsPending
  PROVE  IInv'
<1>1. CASE \E n \in 1..MaxIO : Read(n)
  <2>1. PICK n \in 1..MaxIO : Call("read", <<n>>, es_readn(s, n))
    BY <1>1 DEF Read
  <2>2. n \in Nat
    BY <2>1, Constants
  <2>3. Usable(s)
    BY <2>1, CalledIsUsable
  <2>4. \A r \in es_readn(s, n) : Harmless(s, r)
    BY <2>2, <2>3, ReadnOk
  <2> QED BY <2>1, <2>4, HarmlessCall
<1>2. CASE Getc
  <2>1. Call("getc", <<1>>, es_readn(s, 1))
    BY <1>2 DEF Getc
  <2>3. Usable(s)
    BY <2>1, CalledIsUsable
  <2>4. \A r \in es_readn(s, 1) : Harmless(s, r)
    BY <2>3, ReadnOk
  <2> QED BY <2>1, <2>4, HarmlessCall
<1>3. CASE GetLine
  <2>1. Call("getline", <<>>, doreadline(s))
    BY <1>3 DEF GetLine
  <2>3. Usable(s)
    BY <2>1, CalledIsUsable
  <2>4. \A r \in doreadline(s) : Harmless(s, r)
    BY <2>3, GetLineOk
  <2> QED BY <2>1, <2>4, HarmlessCall
<1>4. CASE ReadLine
  <2>1. Call("read_line", <<>>, read_line(s))
    BY <1>4 DEF ReadLine
  <2>3. Usable(s)
    BY <2>1, CalledIsUsable
  <2>4. \A r \in read_line(s) : Harmless(s, r)
    BY <2>3, ReadLineOk
  <2> QED BY <2>1, <2>4, HarmlessCall
<1>5. CASE IsPending
  <2>1. Call("pending", <<>>, check_pending(s))
    BY <1>5 DEF IsPending
  <2>3. Usable(s)
    BY <2>1, CalledIsUsable
  <2>4. \A r \in check_pending(s) : Harmless(s, r)
    BY <2>3, PendingOk
  <2> QED BY <2>1, <2>4, HarmlessCall
<1> QED BY <1>1, <1>2, <1>3, <1>4, <1>5

\* gpgrt_ungetc keeps the invariant.
LEMMA UngetcKeeps ==
  ASSUME IInv, NEW c \in Byte, Ungetc(c)
  PROVE  IInv'
<1>1. Call("ungetc", <<c>>, {es_unreadn(s, c)})
  BY DEF Ungetc
<1>2. Usable(s)
  BY <1>1, CalledIsUsable
<1>3. \A r \in {es_unreadn(s, c)} : Harmless(s, r)
  BY <1>2, UnreadnOk
<1> QED BY <1>1, <1>3, HarmlessCall

\* No call that a program makes, and no outcome of it, breaks the invariant.
LEMMA StepKeeps ==
  ASSUME IInv, [Next]_vars
  PROVE  IInv'
<1>1. CASE UNCHANGED vars
  BY <1>1 DEF vars, IInv, Good, Formed, Counted, Bounded, Mirrors, Delivered, News, SentBy, Pending
<1>2. CASE (\E n \in 1..MaxIO : Read(n)) \/ Getc \/ GetLine \/ ReadLine \/ IsPending
  BY <1>2, ReadKeeps
<1>3. CASE \E c \in Byte : Ungetc(c)
  BY <1>3, UngetcKeeps
<1>4. CASE \E w \in Strings : Write(w)
  BY <1>4, WriteKeeps
<1>5. CASE \E whence \in {"SEEK_SET", "SEEK_CUR", "SEEK_END"}, o \in Offsets : Seek(whence, o)
  BY <1>5, SeekKeeps
<1>6. CASE Rewind
  BY <1>6, RewindKeeps
<1>7. CASE Fflush
  BY <1>7, FflushKeeps
<1>8. CASE \E strategy \in Strategy, size \in Sizes : Setvbuf(strategy, size)
  BY <1>8, SetvbufKeeps
<1>9. CASE Clearerr
  BY <1>9, ClearerrKeeps
<1>10. CASE Fclose \/ Fcancel
  BY <1>10, CloseKeeps
<1> QED BY <1>1, <1>2, <1>3, <1>4, <1>5, <1>6, <1>7, <1>8, <1>9, <1>10 DEF Next

\* A stream that was just opened.
LEMMA OpenedKeeps ==
  ASSUME Init
  PROVE  IInv
<1>1. PICK b \in Backends, f \in Files, size \in Sizes : s = init_stream_obj(mode, b, f, size)
  BY DEF Init
<1>2. f \in Bytes /\ size \in Nat /\ size # 0 /\ 0 \in Nat /\ <<>> \in Bytes /\ Len(<<>>) = 0
  BY Constants, NoBytes
<1>3. s \in StreamType
  BY <1>1, <1>2 DEF init_stream_obj, StreamType, Strategy, Bytes
<1>4. /\ s.file = f /\ s.fpos = 0 /\ s.out = <<>> /\ s.buf = <<>> /\ s.buffer_size = size
      /\ s.data_len = 0 /\ s.data_offset = 0 /\ s.data_flushed = 0 /\ s.unread = <<>> /\ s.offset = 0
      /\ s.strategy = "_IOFBF" /\ s.status = "open" /\ s.lost = 0 /\ s.resent = 0 /\ s.accepted = <<>>
      /\ ~s.turned
  BY <1>1 DEF init_stream_obj
<1>5. Formed(s)
  BY <1>2, <1>3, <1>4 DEF Formed
<1>6. Good(s)
  BY <1>2, <1>4, <1>5, Constants DEF Good, Counted, Bounded, Mirrors
<1>7. Pending(s) = <<>> /\ SentBy(s) = <<>>
  <2>1. Pending(s) = <<>>
    BY <1>3, <1>4, <1>5, PendingIs DEF Formed
  <2> QED BY <1>2, <1>4, <2>1, NoBytes DEF SentBy
<1>8. News(s) = 0 /\ Embeds(s.accepted, SentBy(s))
  BY <1>2, <1>4, <1>7, EmbedsSelf DEF News
<1>9. Delivered(s)
  BY <1>2, <1>4, <1>8 DEF Delivered
<1>10. mode \in Modes /\ ret.errno \in Errno /\ ret.bytes \in Bytes /\ ret.rc \in Int
  BY <1>2, FaultsAre DEF Init
<1> QED BY <1>6, <1>9, <1>10 DEF IInv

\* The invariant holds in every state of every run.
LEMMA Invariant == Spec => []IInv
<1>1. Init => IInv
  BY OpenedKeeps
<1>2. IInv /\ [Next]_vars => IInv'
  BY StepKeeps
<1> QED BY <1>1, <1>2, PTL DEF Spec

-----------------------------------------------------------------------------
(* What the invariant says to the user of a stream. *)

\* After any sequence of calls, and whatever fails in them, the values have their types,
\* the cursors are in the buffers that es_read_lbf, es_write_fbf and es_seek use them on,
\* the offset accounts for where the backend stands, and ftell tells the position of the
\* program.
THEOREM StreamPositionExact == Spec => []PositionExact
<1>1. ASSUME IInv PROVE PositionExact
  <2>0. s \in StreamType /\ Good(s) /\ Formed(s)
    BY <1>1 DEF IInv, Good, Formed
  <2>1. TypeOK
    BY <1>1, <2>0 DEF IInv, TypeOK, Bytes
  <2>2. CursorsInBounds
    BY <2>0 DEF CursorsInBounds, Astray, Good, Formed, Bounded
  <2>3. PositionAccounted
    BY <2>0 DEF PositionAccounted, Good, Counted
  <2>4. FtellExact
    <3> SUFFICES ASSUME s.backend = "file", s.status = "open",
                        s.lost = 0, s.resent = 0, s.data_flushed = 0
                 PROVE  ftell(s) = Larger(0, LogicalPos(s) - Len(s.unread))
      BY DEF FtellExact
    <3>1. Bounded(s) /\ Counted(s)
      BY <2>0 DEF Good, Formed
    <3>2. s.fpos = s.offset + s.data_len
      BY <2>0, <3>1, Fields DEF Counted
    <3>3. LogicalPos(s) = s.offset + s.data_offset
      BY <2>0, <3>1, <3>2, Fields DEF LogicalPos, Bounded
    <3>4. s.offset \in Nat /\ s.data_offset \in Nat /\ Len(s.unread) \in Nat
      BY <2>0, Fields
    <3> QED BY <3>3, <3>4 DEF ftell, Larger
  <2> QED BY <2>1, <2>2, <2>3, <2>4 DEF PositionExact
<1> QED BY <1>1, Invariant, PTL

\* The buffer of a reader is the part of the backend that it stands behind: es_seek,
\* es_fill and the changes of direction in es_readn and es_writen leave nothing stale.
THEOREM StreamBufferMirrorsBackend == Spec => []BufferMirrorsBackend
<1>1. IInv => BufferMirrorsBackend
  BY DEF IInv, Good, Mirrors, BufferMirrorsBackend, Astray
<1> QED BY <1>1, Invariant, PTL

\* A backend without a position loses no byte that es_writen accepted and gets twice only
\* what flush_stream gave it before it failed; an assertion of es_write_fbf fails only after
\* a change of direction on such a backend.
THEOREM StreamPipeExact == Spec => []PipeExact
<1>1. ASSUME IInv PROVE PipeExact
  <2>0. s \in StreamType /\ Good(s) /\ Formed(s) /\ Delivered(s) /\ Sent = SentBy(s)
    BY <1>1 DEF IInv, Good, Formed, Sent, SentBy
  <2>1. s.accepted \in Bytes /\ SentBy(s) \in Bytes /\ Len(SentBy(s)) \in Nat
        /\ s.data_flushed \in Nat /\ s.resent \in Nat /\ Len(s.accepted) \in Nat
    <3>1. s.accepted \in Bytes /\ SentBy(s) \in Bytes /\ s.data_flushed \in Nat /\ s.resent \in Nat
      BY <2>0, Fields, PendingIs DEF Formed
    <3> QED BY <3>1 DEF Bytes
  <2>2. NothingLostInPipe
    <3> SUFFICES ASSUME ~s.turned, s.status = "open"
                 PROVE  Found(s.accepted, SentBy(s)) = Len(s.accepted)
      BY <2>0 DEF NothingLostInPipe, Astray
    <3>1. CASE s.backend # "file"
      BY <2>0, <2>1, <3>1, FoundIsAll DEF Delivered
    <3>2. CASE s.backend = "file"
      <4>1. s.accepted = <<>>
        BY <2>0, <3>2 DEF Delivered
      <4>2. Embeds(<<>>, SentBy(s))
        BY <2>1, NoBytes, EmbedsLonger
      <4> QED BY <2>1, <4>1, <4>2, FoundIsAll
    <3> QED BY <3>1, <3>2
  <2>3. SentTwiceIsAccounted
    <3> SUFFICES ASSUME s.backend # "file", ~s.turned, s.status = "open"
                 PROVE  Len(SentBy(s)) = Len(s.accepted) + s.data_flushed + s.resent
      BY <2>0 DEF SentTwiceIsAccounted, Astray
    <3>1. Len(SentBy(s)) - (s.data_flushed + s.resent) = Len(s.accepted)
      BY <2>0 DEF Delivered, News
    <3> QED BY <2>1, <3>1
  <2>4. CrashOnlyAfterTurn
    BY <2>0 DEF Good, CrashOnlyAfterTurn
  <2> QED BY <2>2, <2>3, <2>4 DEF PipeExact
<1> QED BY <1>1, Invariant, PTL

\* Which calls the two promises below are about.
LEMMA CallIs ==
  ASSUME NEW op, NEW arg, NEW outcomes, Call(op, arg, outcomes)
  PROVE  /\ ret'.op = op
         /\ \E r \in outcomes : s' = r.s /\ ret'.rc = ReturnCode(op, r) /\ ret'.errno = r.err
<1>1. PICK r \in outcomes :
        /\ s' = r.s
        /\ ret' = [op |-> op, arg |-> arg, rc |-> ReturnCode(op, r), errno |-> r.err, bytes |-> r.got]
  BY DEF Call
<1>2. ret'.op = op /\ ret'.rc = ReturnCode(op, r) /\ ret'.errno = r.err
  BY <1>1
<1> QED BY <1>1, <1>2

\* Which action a call of that name is.
LEMMA WhoCalled ==
  ASSUME Next
  PROVE  (ret'.op = "fclose" => Fclose) /\ (ret'.op = "getc" => Getc)
<1>1. (\A n : Read(n) => ret'.op = "read")
  BY CallIs DEF Read
<1>2. Getc => ret'.op = "getc"
  BY CallIs DEF Getc
<1>3. GetLine => ret'.op = "getline"
  BY CallIs DEF GetLine
<1>4. ReadLine => ret'.op = "read_line"
  BY CallIs DEF ReadLine
<1>5. (\A c : Ungetc(c) => ret'.op = "ungetc")
  BY CallIs DEF Ungetc
<1>6. IsPending => ret'.op = "pending"
  BY CallIs DEF IsPending
<1>7. (\A w : Write(w) => ret'.op = "write")
  BY CallIs DEF Write
<1>8. (\A whence, o : Seek(whence, o) => ret'.op = "seek")
  BY CallIs DEF Seek
<1>9. Rewind => ret'.op = "rewind"
  BY CallIs DEF Rewind
<1>10. Fflush => ret'.op = "fflush"
  BY CallIs DEF Fflush
<1>11. (\A strategy, size : Setvbuf(strategy, size) => ret'.op = "setvbuf")
  BY CallIs DEF Setvbuf
<1>12. Clearerr => ret'.op = "clearerr"
  BY CallIs DEF Clearerr
<1>13. Fclose => ret'.op = "fclose"
  BY CallIs DEF Fclose
<1>14. Fcancel => ret'.op = "fcancel"
  BY CallIs DEF Fcancel
<1> QED BY <1>1, <1>2, <1>3, <1>4, <1>5, <1>6, <1>7, <1>8, <1>9, <1>10, <1>11, <1>12, <1>13, <1>14 DEF Next

\* A do_close that reports success has given the backend every byte that was accepted.
THEOREM StreamCloseDelivers == Spec => CloseDelivers
<1>1. ASSUME IInv, Next, ret'.op = "fclose", ret'.rc = 0
      PROVE  IF s.backend = "file" THEN s'.file = LogicalData(s)
             ELSE ~s.turned => Found(s.accepted, s'.out) = Len(s.accepted)
  <2>1. Call("fclose", <<>>, do_close(s, FALSE))
    BY <1>1, WhoCalled DEF Fclose
  <2>2. PICK r \in do_close(s, FALSE) : s' = r.s /\ ret'.rc = ReturnCode("fclose", r)
    BY <2>1, CallIs
  <2>3. r.err = "ok"
    BY <1>1, <2>2 DEF ReturnCode
  <2>4. Good(s) /\ Delivered(s) /\ s.status = "open"
    BY <1>1, <2>1, CalledIsUsable
  <2>5. HasAll(s, s')
    BY <2>2, <2>3, <2>4, CloseOk
  <2>6. CASE s.backend = "file"
    BY <2>5, <2>6 DEF HasAll, LogicalData
  <2>7. CASE s.backend # "file"
    <3> SUFFICES ASSUME ~s.turned PROVE Found(s.accepted, SentBy(s)) = Len(s.accepted)
      BY <2>5, <2>7 DEF HasAll
    <3>1. s.accepted \in Bytes /\ SentBy(s) \in Bytes
      BY <2>4, Fields, PendingIs DEF Good, Formed
    <3> QED BY <2>4, <2>7, <3>1, FoundIsAll DEF Delivered
  <2> QED BY <2>6, <2>7
<1>2. IInv /\ [Next]_vars =>
        [ret'.op = "fclose" /\ ret'.rc = 0 =>
           IF s.backend = "file" THEN s'.file = LogicalData(s)
           ELSE ~s.turned => Found(s.accepted, s'.out) = Len(s.accepted)]_vars
  BY <1>1
<1> QED BY <1>2, Invariant, PTL DEF Spec, CloseDelivers

\* When fgetc fails on a buffered stream and neither indicator is set, the backend would
\* have blocked (the comment of _gpgrt_set_nonblock).
THEOREM StreamFailureTold == Spec => BufferedFailureTold
<1>1. ASSUME IInv, Next, Untold, s.strategy # "_IONBF"
      PROVE  ret'.errno = "EAGAIN"
  <2>1. Call("getc", <<1>>, es_readn(s, 1))
    BY <1>1, WhoCalled DEF Untold, Getc
  <2>2. PICK r \in es_readn(s, 1) : s' = r.s /\ ret'.rc = ReturnCode("getc", r) /\ ret'.errno = r.err
    BY <2>1, CallIs
  <2>3. Usable(s)
    BY <1>1, <2>1, CalledIsUsable
  <2>4. Told(r, 1)
    BY <1>1, <2>3, ReadnOk
  <2>5. ~(r.err = "ok" /\ r.n = 1)
    BY <1>1, <2>2 DEF ReturnCode, Untold
  <2> QED BY <1>1, <2>2, <2>4, <2>5 DEF Told, Untold
<1>2. IInv /\ [Next]_vars =>
        [Untold /\ s.strategy # "_IONBF" => ret'.errno = "EAGAIN"]_vars
  BY <1>1
<1> QED BY <1>2, Invariant, PTL DEF Spec, BufferedFailureTold
=============================================================================
