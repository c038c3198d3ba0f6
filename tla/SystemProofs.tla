----------------------------- MODULE SystemProofs ---------------------------
(***************************************************************************)
(* Allocation and the emergency handlers, versions, string lists, mode        *)
(* strings, data made printable, what a child gets on Windows, and file       *)
(* names: each is a component without an interface to the others,    *)
(* and the sections below are one component each, its inductive invariant     *)
(* before its lemmas.  The first section has what several of them need: induction, and   *)
(* the greatest of a set of indices; a later one, the steps by which a fold   *)
(* over a sequence becomes a recursive function on sets of indices.           *)
(***************************************************************************)
EXTENDS Memory, Version, StrList,
        OpenMode, Sanitize, SpawnW32, FileNames, FiniteSetTheorems, WellFoundedInduction, TLAPS

\* A set of natural numbers that is not empty has a least one.
LEMMA Least ==
  ASSUME NEW T, T \subseteq Nat, T # {}
  PROVE  \E x \in T : \A y \in T : x <= y
<1> DEFINE R == OpToRel(<, Nat)
<1>1. PICK x \in T : \A y \in T : ~(<<y, x>> \in R)
  <2>1. IsWellFoundedOn(R, Nat)
    BY NatLessThanWellFounded
  <2> HIDE DEF R
  <2> QED BY <2>1, WFMin
<1>2. ASSUME NEW y \in T PROVE x <= y
  <2>1. ~(<<y, x>> \in OpToRel(<, Nat))
    BY <1>1
  <2>2. ~(y < x)
    BY <2>1 DEF OpToRel
  <2> QED BY <2>2
<1> QED BY <1>2

\* Induction for a set: by the least number that is not in it.
LEMMA Induction ==
  ASSUME NEW T, 0 \in T, \A n \in Nat : n \in T => n + 1 \in T
  PROVE  \A n \in Nat : n \in T
<1> DEFINE Out == {n \in Nat : n \notin T}
<1>1. SUFFICES ASSUME Out # {} PROVE FALSE
  OBVIOUS
<1>2. PICK x \in Out : \A y \in Out : x <= y
  <2>1. Out \subseteq Nat
    OBVIOUS
  <2> HIDE DEF Out
  <2> QED BY <1>1, <2>1, Least
<1>3. x \in Nat /\ x # 0 /\ x \notin T
  BY <1>2
<1>4. x - 1 \in Nat /\ ~(x <= x - 1) /\ (x - 1) + 1 = x
  BY <1>3
<1>5. x - 1 \notin Out
  BY <1>2, <1>4
<1>6. x - 1 \in T
  BY <1>4, <1>5
<1> QED BY <1>3, <1>4, <1>6

\* The element a fold takes next, with a name to be rewritten with.
Top(s) == CHOOSE x \in s : \A y \in s : x >= y

\* The greatest number of a set of 1..n+1 that has n+1.
LEMMA TopIs == ASSUME NEW n \in Nat, NEW s \in SUBSET (1..n + 1), n + 1 \in s PROVE Top(s) = n + 1
<1>1. \A y \in s : n + 1 >= y
  OBVIOUS
<1>2. Top(s) \in s /\ \A y \in s : Top(s) >= y
  BY <1>1 DEF Top
<1>3. Top(s) >= n + 1
  BY <1>2
<1>4. Top(s) \in 1..n + 1
  BY <1>2
<1> QED
  BY <1>3, <1>4

-----------------------------------------------------------------------------
(*****************************************************************************)
(* Allocation and the emergency handlers.                                    *)
(*****************************************************************************)
\* What the fold of a sum is below the library's definitions.
Summing(lens, D) ==
  CHOOSE g : g = [s \in SUBSET D |-> IF s = {} THEN 0 ELSE g[s \ {Top(s)}] + lens[Top(s)]]

\* The fold that adds up the lengths in strconcat is a recursive function over sets of indices.
LEMMA FoldIsSumming ==
  ASSUME NEW lens PROVE FoldLeft(LAMBDA a, b : a + b, 0, lens) = Summing(lens, DOMAIN lens)[DOMAIN lens]
BY DEF FoldLeft, MapThenFoldSet, Summing, Top, Max

\* The same fold, written with the operator itself.
LEMMA FoldPlus ==
  ASSUME NEW lens PROVE FoldLeft(+, 0, lens) = Summing(lens, DOMAIN lens)[DOMAIN lens]
BY DEF FoldLeft, MapThenFoldSet, Summing, Top, Max

SumStep(g, lens, s) == IF s = {} THEN 0 ELSE g[s \ {Top(s)}] + lens[Top(s)]

\* The recursive function over the subsets of an interval is what its definition says.
LEMMA SummingExists ==
  ASSUME NEW lens, NEW N \in Nat
  PROVE  \E g : g = [s \in SUBSET (1..N) |-> SumStep(g, lens, s)]
<1> DEFINE T == {n \in Nat : \E g : g = [s \in SUBSET (1..n) |-> SumStep(g, lens, s)]}
<1>1. 0 \in T
  <2> DEFINE g == [s \in SUBSET (1..0) |-> 0]
  <2>1. \A s \in SUBSET (1..0) : s = {}
    OBVIOUS
  <2>2. \A s \in SUBSET (1..0) : SumStep(g, lens, s) = 0
    BY <2>1 DEF SumStep
  <2>3. g = [s \in SUBSET (1..0) |-> SumStep(g, lens, s)]
    BY <2>2
  <2> HIDE DEF g
  <2> QED
    BY <2>3
<1>2. ASSUME NEW n \in Nat, n \in T PROVE n + 1 \in T
  <2>1. PICK g : g = [s \in SUBSET (1..n) |-> SumStep(g, lens, s)]
    BY <1>2
  <2> DEFINE h == [s \in SUBSET (1..n + 1) |-> IF n + 1 \in s THEN g[s \ {n + 1}] + lens[n + 1] ELSE g[s]]
  <2>2. ASSUME NEW s \in SUBSET (1..n + 1) PROVE h[s] = SumStep(h, lens, s)
    <3>1. CASE n + 1 \in s
      <4>1. Top(s) = n + 1 /\ s # {}
        BY <3>1, TopIs
      <4>2. s \ {n + 1} \in SUBSET (1..n + 1) /\ n + 1 \notin s \ {n + 1}
        OBVIOUS
      <4>3. h[s \ {n + 1}] = g[s \ {n + 1}]
        BY <4>2
      <4>4. h[s] = g[s \ {n + 1}] + lens[n + 1]
        BY <3>1
      <4> HIDE DEF h
      <4> QED
        BY <4>1, <4>3, <4>4 DEF SumStep
    <3>2. CASE n + 1 \notin s
      <4>1. s \in SUBSET (1..n)
        BY <3>2
      <4>2. s \ {Top(s)} \in SUBSET (1..n + 1) /\ n + 1 \notin s \ {Top(s)}
        BY <3>2
      <4>3. h[s \ {Top(s)}] = g[s \ {Top(s)}]
        BY <4>2
      <4>4. h[s] = g[s]
        BY <3>2
      <4>5. g[s] = SumStep(g, lens, s)
        BY <2>1, <4>1
      <4> HIDE DEF h
      <4> QED
        BY <4>3, <4>4, <4>5 DEF SumStep
    <3> QED
      BY <3>1, <3>2
  <2>3. h = [s \in SUBSET (1..n + 1) |-> h[s]]
    OBVIOUS
  <2> HIDE DEF h
  <2>4. h = [s \in SUBSET (1..n + 1) |-> SumStep(h, lens, s)]
    BY <2>2, <2>3
  <2> QED
    BY <2>4
<1> HIDE DEF T
<1>3. N \in T
  BY <1>1, <1>2, Induction
<1> QED
  BY <1>3 DEF T

Sum(lens) == FoldLeft(+, 0, lens)

\* The sum of a sequence of sizes is a size.
LEMMA SumIs == ASSUME NEW lens \in Seq(Nat) PROVE Sum(lens) \in Nat /\ (lens = <<>> => Sum(lens) = 0)
<1> DEFINE N == Len(lens)
           G == Summing(lens, 1..N)
<1>1. N \in Nat /\ DOMAIN lens = 1..N
  OBVIOUS
<1> HIDE DEF N
<1>2. G = [s \in SUBSET (1..N) |-> SumStep(G, lens, s)]
  BY <1>1, SummingExists DEF Summing, SumStep
<1> HIDE DEF G
<1>3. G[{}] = 0
  BY <1>2 DEF SumStep
<1> DEFINE T == {n \in Nat : n <= N => G[1..n] \in Nat}
<1>4. 0 \in T
  <2>1. 1..0 = {}
    OBVIOUS
  <2> QED
    BY <1>3, <2>1
<1>5. ASSUME NEW n \in Nat, n \in T PROVE n + 1 \in T
  <2>1. SUFFICES ASSUME n + 1 <= N PROVE G[1..n + 1] \in Nat
    OBVIOUS
  <2>2. Top(1..n + 1) = n + 1
    <3>1. 1..n + 1 \in SUBSET (1..n + 1) /\ n + 1 \in 1..n + 1
      OBVIOUS
    <3> QED
      BY <3>1, TopIs
  <2>3. (1..n + 1) \ {n + 1} = 1..n
    OBVIOUS
  <2>4. n + 1 \in 1..n + 1
    OBVIOUS
  <2>5. 1..n + 1 \in SUBSET (1..N)
    BY <1>1, <2>1
  <2>6. G[1..n + 1] = G[1..n] + lens[n + 1]
    BY <1>2, <2>2, <2>3, <2>4, <2>5 DEF SumStep
  <2>7. G[1..n] \in Nat /\ lens[n + 1] \in Nat
    BY <1>1, <1>5, <2>1
  <2> QED
    BY <2>6, <2>7
<1> HIDE DEF T
<1>6. N \in T
  BY <1>1, <1>4, <1>5, Induction
<1>7. Sum(lens) = G[1..N]
  BY <1>1, FoldPlus DEF Sum, G
<1>8. lens = <<>> => 1..N = {}
  BY DEF N
<1> QED
  BY <1>1, <1>3, <1>6, <1>7, <1>8 DEF T

\* The two ways to write the sum agree.
LEMMA SumsAgree == ASSUME NEW lens PROVE FoldLeft(LAMBDA a, b : a + b, 0, lens) = Sum(lens)
  BY FoldIsSumming, FoldPlus DEF Sum

ByteChars == {"old", "0", "?"}

\* A block with bytes is not the null pointer, and its bytes are itself.
LEMMA BlockIs ==
  ASSUME NEW p \in Seq(ByteChars)
  PROVE  p # NoBlock /\ BlockBytes(p) = p
  BY MemoryAssumption DEF BlockBytes, ByteChars

\* There are no bytes at the null pointer.
LEMMA NoBlockIsEmpty == BlockBytes(NoBlock) = <<>> /\ Len(BlockBytes(NoBlock)) = 0
  BY DEF BlockBytes

\* The bytes of a block that is filled.
LEMMA FillIs ==
  ASSUME NEW n \in Nat, NEW b \in ByteChars
  PROVE  /\ Fill(b, n) \in Seq(ByteChars) /\ Len(Fill(b, n)) = n
         /\ \A i \in 1..n : Fill(b, n)[i] = b
  BY DEF Fill

\* The product of two sizes is a number, it is 0 if one of them is, and grows with them.
LEMMA Products ==
  ASSUME NEW m \in Nat, NEW n \in Nat, NEW size \in Nat
  PROVE  m * size \in Nat /\ 0 * size = 0 /\ m * 0 = 0 /\ (m <= n => m * size <= n * size)
<1>1. m * size \in Nat /\ 0 * size = 0 /\ m * 0 = 0
  OBVIOUS
<1>2. ASSUME m <= n PROVE m * size <= n * size
  <2>1. n - m \in Nat /\ (n - m) * size \in Nat
    BY <1>2
  <2>2. n * size = m * size + (n - m) * size
    OBVIOUS
  <2> QED
    BY <2>1, <2>2, <1>1
<1> QED
  BY <1>1, <1>2

\* A product that passes the check does not wrap around.
LEMMA NoWrap ==
  ASSUME NEW n \in Nat, NEW size \in Nat, n < SizeMod, ~Overflows(n, size)
  PROVE  Wrap(n * size) = n * size
<1>1. SizeMod \in Nat \ {0}
  BY MemoryAssumption
<1> DEFINE p == n * size
           w == p % SizeMod
<1>2. p \in Nat
  BY Products
<1>3. CASE size = 0
  <2>1. p = 0
    BY <1>3
  <2> QED
    BY <1>1, <2>1 DEF Wrap
<1>4. CASE size # 0
  <2>1. w \in Nat /\ w <= p
    <3> HIDE DEF p
    <3> QED
      BY <1>1, <1>2
  <2>2. w \div size = n
    BY <1>4 DEF Overflows, Wrap
  <2>3. w >= size * (w \div size)
    <3> HIDE DEF w
    <3> QED
      BY <1>4, <2>1
  <2>4. w >= p
    <3>1. size * n = n * size
      OBVIOUS
    <3> HIDE DEF w
    <3> QED
      BY <2>2, <2>3, <3>1
  <2> HIDE DEF p
  <2>5. w = p
    BY <1>2, <2>1, <2>4
  <2> QED
    BY <2>5 DEF Wrap, p
<1> QED
  BY <1>3, <1>4

\* The converse: a product that fits is let through.
LEMMA SmallFits ==
  ASSUME NEW n \in Nat, NEW size \in Nat, n * size < SizeMod
  PROVE  ~Overflows(n, size) /\ Wrap(n * size) = n * size
<1>1. SizeMod \in Nat \ {0}
  BY MemoryAssumption
<1> DEFINE p == n * size
<1>2. p \in Nat
  BY Products
<1>3. p % SizeMod = p
  <2> HIDE DEF p
  <2>1. p < SizeMod
    BY DEF p
  <2> QED
    BY <1>1, <1>2, <2>1
<1>4. size # 0 => p \div size = n
  OBVIOUS
<1> QED
  BY <1>3, <1>4 DEF Overflows, Wrap

\* The outcomes of realloc for a block of known bytes.
LEMMA ReallocIs ==
  ASSUME NEW a, NEW n \in Nat, a = NoBlock \/ a \in Seq(ByteChars), NEW o \in realloc(a, n)
  PROVE  \/ o = Outcome(NoBlock, NoBlock, "same") /\ n = 0
         \/ o = NoMemory(a)
         \/ /\ o = Outcome(o.p, NoBlock, "same") /\ n > 0
            /\ o.p \in Seq(ByteChars) /\ Len(o.p) = n
            /\ \A i \in 1..n : i <= Len(BlockBytes(a)) => o.p[i] = BlockBytes(a)[i]
<1>1. CASE n = 0
  BY <1>1 DEF realloc
<1>2. CASE n # 0 /\ o # NoMemory(a)
  <2> DEFINE B == BlockBytes(a)
             p == ReallocBytes(a, n)
  <2>1. B \in Seq(ByteChars)
    BY DEF BlockBytes
  <2>2. o = Outcome(p, NoBlock, "same")
    BY <1>2 DEF realloc
  <2>3. p = [i \in 1..n |-> IF i <= Len(B) THEN B[i] ELSE "?"]
    BY DEF ReallocBytes
  <2> HIDE DEF B, p
  <2>4. \A i \in 1..n : p[i] \in ByteChars /\ (i <= Len(B) => p[i] = B[i])
    BY <2>1, <2>3 DEF ByteChars
  <2>5. p \in Seq(ByteChars) /\ Len(p) = n
    BY <2>3, <2>4
  <2> QED
    BY <1>2, <2>2, <2>4, <2>5 DEF Outcome, B
<1> QED
  BY <1>1, <1>2

\* The bytes of a block whose tail is zeroed.
LEMMA ZeroFromIs ==
  ASSUME NEW p \in Seq(ByteChars), NEW n \in Nat, Len(p) = n, NEW from \in Nat
  PROVE  /\ ZeroFrom(p, from, n) \in Seq(ByteChars) /\ Len(ZeroFrom(p, from, n)) = n
         /\ \A i \in 1..n : ZeroFrom(p, from, n)[i] = IF i > from THEN "0" ELSE p[i]
<1> DEFINE z == [i \in 1..n |-> IF i > from THEN "0" ELSE p[i]]
<1>1. \A i \in 1..n : z[i] \in ByteChars
  BY DEF ByteChars
<1>2. z \in Seq(ByteChars) /\ Len(z) = n
  BY <1>1
<1> QED
  BY <1>2 DEF ZeroFrom

\* What AllocExact says of one call with outcome o.
Exact(op, n, size, nold, a, o) ==
  LET p == o.p m == n * size kept == Len(BlockBytes(a))
  IN /\ op \in {"reallocarray", "calloc"} /\ p # NoBlock =>
          /\ Len(p) = m
          /\ \A i \in 1..m : i <= kept => p[i] = "old"
          /\ nold < n => \A i \in 1..m : i > kept => p[i] = "0"
     /\ op \in {"malloc", "strconcat"} /\ p # NoBlock =>
          Len(p) > 0 /\ Len(p) >= m /\ (op = "strconcat" => p = Fill("old", m) \o <<"0">>)
     /\ op = "reallocarray" /\ o.errno = "ENOMEM" => o.held = a

\* AllocExact follows from what is exact of the call just made.
LEMMA ExactCall ==
  ASSUME NEW op, NEW n, NEW size, NEW nold, NEW a, NEW o,
         alloc' = Called(op, n, size, nold, a, o), Exact(op, n, size, nold, a, o)
  PROVE  AllocExact'
  BY DEF Called, Exact, AllocExact

\* The array of an earlier call.
LEMMA MembersIs ==
  ASSUME NEW m \in Nat, NEW size \in Nat, NEW a, a = Members(m, size), a = NoBlock => m = 0
  PROVE  /\ a = NoBlock \/ a \in Seq(ByteChars)
         /\ Len(BlockBytes(a)) = m * size /\ m * size < SizeMod
         /\ \A i \in 1..Len(BlockBytes(a)) : BlockBytes(a)[i] = "old"
<1> DEFINE k == m * size
<1>1. k \in Nat /\ (m = 0 => k = 0) /\ SizeMod \in Nat \ {0}
  BY Products, MemoryAssumption
<1>2. a = IF k = 0 \/ k >= SizeMod THEN NoBlock ELSE Fill("old", k)
  BY DEF Members
<1> HIDE DEF k
<1>3. CASE k = 0 \/ k >= SizeMod
  <2>1. a = NoBlock /\ k = 0
    BY <1>1, <1>2, <1>3
  <2> QED
    BY <1>1, <2>1, NoBlockIsEmpty DEF k
<1>4. CASE k # 0 /\ k < SizeMod
  <2>1. a = Fill("old", k) /\ "old" \in ByteChars
    BY <1>2, <1>4, <1>1 DEF ByteChars
  <2>2. a \in Seq(ByteChars) /\ Len(a) = k /\ \A i \in 1..k : a[i] = "old"
    BY <1>1, <2>1, FillIs
  <2>3. BlockBytes(a) = a
    BY <2>2, BlockIs
  <2> QED
    BY <1>4, <2>2, <2>3 DEF k
<1> QED
  BY <1>1, <1>3, <1>4

\* The array that reallocarray grows keeps its members, has zeros behind them, and is left alone
\* when it fails.
LEMMA ReallocarrayExact ==
  ASSUME NEW n \in Nat, NEW m \in Nat, NEW size \in Nat, NEW a, NEW nold \in {m, n}, n < SizeMod, m < SizeMod,
         a = Members(m, size), a = NoBlock => m = 0, NEW o \in reallocarray(a, nold, n, size)
  PROVE  Exact("reallocarray", n, size, nold, a, o)
<1> DEFINE k == n * size
           kept == m * size
           B == BlockBytes(a)
<1>1. k \in Nat /\ kept \in Nat /\ (m <= n => kept <= k)
  BY Products
<1>2. /\ a = NoBlock \/ a \in Seq(ByteChars)
      /\ Len(B) = kept /\ kept < SizeMod /\ \A i \in 1..kept : B[i] = "old"
  BY MembersIs
<1>3. PICK o1 \in Checked(a, n, size) : o = IF o1.errno = "ENOMEM" THEN o1 ELSE Cleaned(o1, nold, n, size)
  BY DEF reallocarray
<1>4. NoMemory(a).errno = "ENOMEM" /\ NoMemory(a).held = a /\ NoMemory(a).p = NoBlock
  BY DEF NoMemory, Outcome
<1>5. CASE o1 = NoMemory(a)
  <2>1. o = NoMemory(a)
    BY <1>3, <1>4, <1>5
  <2> QED
    BY <1>4, <2>1 DEF Exact
<1>6. CASE o1 # NoMemory(a)
  <2>1. ~Overflows(n, size) /\ o1 \in realloc(a, Wrap(k))
    BY <1>6 DEF Checked
  <2>2. Wrap(k) = k
    BY <2>1, NoWrap
  <2> HIDE DEF k, kept, B
  <2>3. CASE o1 = Outcome(NoBlock, NoBlock, "same")
    <3>1. o1.p = NoBlock /\ o1.errno = "same"
      BY <2>3 DEF Outcome
    <3>2. o = o1
      BY <1>3, <3>1 DEF Cleaned
    <3> QED
      BY <3>1, <3>2 DEF Exact
  <2>4. CASE o1 # Outcome(NoBlock, NoBlock, "same")
    <3>1. /\ o1 = Outcome(o1.p, NoBlock, "same") /\ k > 0
          /\ o1.p \in Seq(ByteChars) /\ Len(o1.p) = k
          /\ \A i \in 1..k : i <= Len(B) => o1.p[i] = B[i]
      BY <1>1, <1>2, <1>6, <2>1, <2>2, <2>4, ReallocIs DEF B
    <3>2. o1.errno = "same" /\ o1.p # NoBlock /\ o1.held = NoBlock
      BY <3>1, BlockIs DEF Outcome
    <3>3. o = Cleaned(o1, nold, n, size)
      BY <1>3, <3>2
    <3>4. \A i \in 1..k : i <= kept => o1.p[i] = "old"
      <4>1. \A i \in 1..k : i <= kept => i \in 1..kept
        BY <1>1
      <4> QED
        BY <1>2, <3>1, <4>1
    <3>5. CASE ~(nold < n)
      <4>1. o = o1
        BY <3>3, <3>5 DEF Cleaned, ClearsNew
      <4> QED
        BY <1>2, <3>1, <3>2, <3>4, <3>5, <4>1 DEF Exact, k, B
    <3>6. CASE nold < n
      <4>1. nold = m /\ m <= n
        BY <3>6
      <4>2. ~Overflows(m, size) /\ Wrap(kept) = kept
        BY <1>2, SmallFits DEF kept
      <4> DEFINE z == ZeroFrom(o1.p, kept, k)
      <4>3. o = [o1 EXCEPT !.p = z]
        BY <2>2, <3>2, <3>3, <3>6, <4>1, <4>2 DEF Cleaned, ClearsNew, k, kept
      <4>4. Len(z) = k /\ \A i \in 1..k : z[i] = IF i > kept THEN "0" ELSE o1.p[i]
        BY <1>1, <3>1, ZeroFromIs, SMTT(60)
      <4> HIDE DEF z
      <4>5. o.p = z /\ o.errno = "same"
        <5>1. o1 = [p |-> o1.p, held |-> NoBlock, errno |-> "same"]
          BY <3>1 DEF Outcome
        <5> QED
          BY <4>3, <5>1
      <4>6. \A i \in 1..k : /\ i <= kept => z[i] = "old"
                            /\ i > kept => z[i] = "0"
        BY <1>1, <3>4, <4>4
      <4> QED
        BY <1>2, <4>4, <4>5, <4>6 DEF Exact, k, B
    <3> QED
      BY <3>5, <3>6
  <2> QED
    BY <2>3, <2>4
<1> QED
  BY <1>5, <1>6

\* calloc gives a block of the product of its arguments with zeros, or none.
LEMMA CallocExact ==
  ASSUME NEW n \in Nat, NEW size \in Nat, n < SizeMod, NEW o \in calloc(n, size)
  PROVE  Exact("calloc", n, size, 0, NoBlock, o)
<1> DEFINE k == n * size
<1>1. k \in Nat
  BY Products
<1>2. PICK o1 \in Checked(NoBlock, n, size) : o = IF o1.p = NoBlock THEN o1 ELSE [o1 EXCEPT !.p = ZeroFrom(o1.p, 0, Wrap(k))]
  BY DEF calloc
<1>3. CASE o1.p = NoBlock
  BY <1>2, <1>3 DEF Exact
<1>4. CASE o1.p # NoBlock
  <2>1. ~Overflows(n, size) /\ o1 \in realloc(NoBlock, Wrap(k))
    BY <1>4 DEF Checked, NoMemory, Outcome
  <2>2. Wrap(k) = k
    BY <2>1, NoWrap
  <2> HIDE DEF k
  <2>3. o1 = Outcome(o1.p, NoBlock, "same") /\ o1.p \in Seq(ByteChars) /\ Len(o1.p) = k
    <3>1. o1 # Outcome(NoBlock, NoBlock, "same") /\ o1 # NoMemory(NoBlock)
      BY <1>4 DEF Outcome, NoMemory
    <3> QED
      BY <1>1, <2>1, <2>2, <3>1, ReallocIs
  <2> DEFINE z == ZeroFrom(o1.p, 0, k)
  <2>4. o = [o1 EXCEPT !.p = z]
    BY <1>2, <1>4, <2>2
  <2>5. Len(z) = k /\ \A i \in 1..k : z[i] = IF i > 0 THEN "0" ELSE o1.p[i]
    <3>1. o1.p \in Seq(ByteChars) /\ Len(o1.p) = k /\ 0 \in 0..k
      BY <1>1, <2>3
    <3> HIDE DEF z
    <3>2. z = ZeroFrom(o1.p, 0, k)
      BY DEF z
    <3> QED
      BY <1>1, <3>1, <3>2, ZeroFromIs
  <2> HIDE DEF z
  <2>6. o.p = z
    <3>1. o1 = [p |-> o1.p, held |-> NoBlock, errno |-> "same"]
      BY <2>3 DEF Outcome
    <3> QED
      BY <2>4, <3>1
  <2>7. \A i \in 1..k : i > 0 /\ ~(i <= 0) /\ z[i] = "0"
    BY <1>1, <2>5
  <2> QED
    BY <2>5, <2>6, <2>7, NoBlockIsEmpty DEF Exact, k
<1> QED
  BY <1>3, <1>4

\* What malloc gives is as long as what was asked for.
LEMMA MallocIs ==
  ASSUME NEW n \in Nat, NEW o \in malloc(n), o.p # NoBlock
  PROVE  /\ o = Outcome(o.p, NoBlock, "same") /\ o.p \in Seq(ByteChars)
         /\ Len(o.p) > 0 /\ Len(o.p) >= n /\ (n > 0 => Len(o.p) = n)
<1> DEFINE k == IF n = 0 THEN 1 ELSE n
<1>1. k \in Nat /\ k > 0 /\ k >= n /\ o \in realloc(NoBlock, k)
  BY DEF malloc
<1>2. o # Outcome(NoBlock, NoBlock, "same") /\ o # NoMemory(NoBlock)
  BY DEF Outcome, NoMemory
<1> HIDE DEF k
<1>3. o = Outcome(o.p, NoBlock, "same") /\ o.p \in Seq(ByteChars) /\ Len(o.p) = k
  BY <1>1, <1>2, ReallocIs
<1> QED
  BY <1>1, <1>3 DEF k

\* malloc of nothing gives a block too.
LEMMA MallocExact ==
  ASSUME NEW n \in Nat, NEW o \in malloc(n) PROVE Exact("malloc", n, 1, 0, NoBlock, o)
<1>1. n * 1 = n
  OBVIOUS
<1> QED
  BY <1>1, MallocIs DEF Exact

\* strconcat makes a block of the bytes of all its strings and an end.
LEMMA StrconcatExact ==
  ASSUME NEW s \in Seq(Nat), NEW o \in strconcat(s)
  PROVE  Exact("strconcat", Sum(s), 1, 0, NoBlock, o)
<1> DEFINE k == Sum(s)
           text == Fill("old", k) \o <<"0">>
<1>1. k \in Nat /\ (s = <<>> => k = 0) /\ k * 1 = k
  <2>1. k \in Nat /\ (s = <<>> => k = 0)
    BY SumIs
  <2> QED
    BY <2>1
<1>2. "old" \in ByteChars /\ Len(<<"0">>) = 1
  BY DEF ByteChars
<1> HIDE DEF k
<1>3. text \in Seq(ByteChars) /\ Len(text) = k + 1
  <2>1. Fill("old", k) \in Seq(ByteChars) /\ Len(Fill("old", k)) = k
    BY <1>1, <1>2, FillIs
  <2>2. <<"0">> \in Seq(ByteChars)
    BY DEF ByteChars
  <2> HIDE DEF text
  <2> QED
    BY <1>2, <2>1, <2>2 DEF text
<1>4. o.p = NoBlock \/ o.p = text
  <2>1. CASE s = <<>>
    <3>1. PICK o1 \in realloc(NoBlock, 0 + 1) :
            o = IF o1.p = NoBlock THEN o1 ELSE [o1 EXCEPT !.p = Fill("old", 0) \o <<"0">>]
      BY <2>1 DEF strconcat, strdup
    <3>2. CASE o1.p # NoBlock
      <4>1. o1 = Outcome(ReallocBytes(NoBlock, 1), NoBlock, "same")
        BY <3>1, <3>2 DEF realloc, NoMemory, Outcome
      <4>2. o.p = Fill("old", 0) \o <<"0">>
        BY <3>1, <3>2, <4>1 DEF Outcome
      <4> QED
        BY <1>1, <2>1, <4>2
    <3> QED
      BY <3>1, <3>2
  <2>2. CASE s # <<>> /\ Len(s) >= ArgvLen
    <3>1. o = Outcome(NoBlock, NoBlock, "EINVAL")
      BY <2>2 DEF strconcat, strconcat_core
    <3> QED
      BY <3>1 DEF Outcome
  <2>3. CASE s # <<>> /\ ~(Len(s) >= ArgvLen)
    <3>1. o \in {IF o1.p = NoBlock THEN o1 ELSE [o1 EXCEPT !.p = Fill("old", (k + 1) - 1) \o <<"0">>] : o1 \in malloc(k + 1)}
      BY <2>3, SumsAgree DEF strconcat, strconcat_core, k
    <3>2. PICK o1 \in malloc(k + 1) :
            o = IF o1.p = NoBlock THEN o1 ELSE [o1 EXCEPT !.p = Fill("old", (k + 1) - 1) \o <<"0">>]
      BY <3>1
    <3>3. (k + 1) - 1 = k /\ k + 1 \in Nat
      BY <1>1
    <3>4. CASE o1.p # NoBlock
      <4>1. o1 = [p |-> o1.p, held |-> NoBlock, errno |-> "same"]
        BY <3>3, <3>4, MallocIs DEF Outcome
      <4> QED
        BY <3>2, <3>3, <3>4, <4>1
    <3> QED
      BY <3>2, <3>4
  <2> QED
    BY <2>1, <2>2, <2>3
<1>5. k + 1 > 0 /\ k + 1 >= k
  BY <1>1
<1> HIDE DEF text
<1>6. Exact("strconcat", k, 1, 0, NoBlock, o)
  BY <1>1, <1>3, <1>4, <1>5 DEF Exact, text
<1> QED
  BY <1>6 DEF k

\* A run is owed to the handlers on the list and to no other, and none is on it twice.
HandlersInv ==
  /\ cleanups \in Seq(Cleanup) /\ owes \in [Cleanup -> Int] /\ CleanupOnce
  /\ aborting = "done" => running = FALSE

MemoryInv == HandlersInv /\ AllocExact

\* MemoryInv holds at the start.
LEMMA MemoryInitial == MemoryInit => MemoryInv
<1> SUFFICES ASSUME MemoryInit PROVE MemoryInv
  OBVIOUS
<1>1. HandlersInv
  BY DEF MemoryInit, HandlersInv, CleanupOnce, Registered, ToSet, IsInjective
<1>2. alloc.op = "none"
  BY DEF MemoryInit, NoAlloc, Called
<1>3. AllocExact
  BY <1>2 DEF AllocExact
<1> QED
  BY <1>1, <1>3 DEF MemoryInv

\* Every call of an allocation function keeps AllocExact.
LEMMA AllocStepKeeps == AllocStep => AllocExact'
<1> SUFFICES ASSUME AllocStep PROVE AllocExact'
  OBVIOUS
<1>1. Amounts \subseteq Nat /\ (\A n \in Amounts : n < SizeMod) /\ StrArgs \subseteq Seq(Nat)
  BY MemoryAssumption
<1>2. ASSUME NEW n \in Amounts, NEW m \in Amounts, NEW size \in Amounts,
             NEW nold \in {m, n}, NEW o \in reallocarray(Members(m, size), nold, n, size),
             Members(m, size) = NoBlock => m = 0,
             alloc' = Called("reallocarray", n, size, nold, Members(m, size), o)
      PROVE  AllocExact'
  <2>1. PICK a : a = Members(m, size)
    OBVIOUS
  <2>2. Exact("reallocarray", n, size, nold, a, o)
    BY <1>1, <1>2, <2>1, ReallocarrayExact
  <2> QED
    BY <1>2, <2>1, <2>2, ExactCall
<1>3. ASSUME NEW n \in Amounts, NEW size \in Amounts, NEW o \in calloc(n, size),
             alloc' = Called("calloc", n, size, 0, NoBlock, o)
      PROVE  AllocExact'
  BY <1>1, <1>3, CallocExact, ExactCall
<1>4. ASSUME NEW n \in Amounts, NEW o \in malloc(n), alloc' = Called("malloc", n, 1, 0, NoBlock, o)
      PROVE  AllocExact'
  BY <1>1, <1>4, MallocExact, ExactCall
<1>5. ASSUME NEW s \in StrArgs, NEW o \in strconcat(s), alloc' = Called("strconcat", Sum(s), 1, 0, NoBlock, o)
      PROVE  AllocExact'
  BY <1>1, <1>5, StrconcatExact, ExactCall
<1>6. ASSUME NEW o, alloc' = Called("free", 0, 1, 0, Fill("old", 1), o)
      PROVE  AllocExact'
  BY <1>6, ExactCall DEF Exact
<1> QED
  BY <1>2, <1>3, <1>4, <1>5, <1>6 DEF AllocStep, Sum

\* Every step keeps HandlersInv: a handler that runs was taken off the list before.
LEMMA HandlersKept == HandlersInv /\ [MemoryNext]_memoryVars => HandlersInv'
<1> SUFFICES ASSUME HandlersInv, [MemoryNext]_memoryVars PROVE HandlersInv'
  OBVIOUS
<1>0. /\ cleanups \in Seq(Cleanup) /\ owes \in [Cleanup -> Int] /\ Len(cleanups) \in Nat
      /\ \A f \in Cleanup : Registered(f) <=> \E i \in 1..Len(cleanups) : cleanups[i] = f
      /\ \A f \in Cleanup : owes[f] = IF Registered(f) THEN 1 ELSE 0
      /\ \A i, j \in 1..Len(cleanups) : cleanups[i] = cleanups[j] => i = j
  BY DEF HandlersInv, CleanupOnce, Registered, ToSet, IsInjective
<1>9. ASSUME NEW list \in Seq(Cleanup), cleanups' = list, owes' \in [Cleanup -> Int],
             \A f \in Cleanup : owes'[f] = IF \E i \in 1..Len(list) : list[i] = f THEN 1 ELSE 0,
             \A i, j \in 1..Len(list) : list[i] = list[j] => i = j,
             aborting' = "done" => list = <<>> /\ running' = FALSE
      PROVE  HandlersInv'
  <2>1. cleanups' \in Seq(Cleanup) /\ IsInjective(cleanups)'
    BY <1>9 DEF IsInjective
  <2>2. \A f \in Cleanup : Registered(f)' <=> \E i \in 1..Len(list) : list[i] = f
    BY <1>9 DEF Registered, ToSet
  <2>3. CleanupOnce'
    BY <1>9, <2>1, <2>2 DEF CleanupOnce
  <2> QED
    BY <1>9, <2>1, <2>3 DEF HandlersInv
<1>1. ASSUME UNCHANGED <<cleanups, owes>>, aborting' = "done" => cleanups = <<>> /\ running' = FALSE
      PROVE  HandlersInv'
  BY <1>0, <1>1, <1>9, ZenonT(60)
<1>2. ASSUME NEW f \in Cleanup, add_emergency_cleanup(f) PROVE HandlersInv'
  <2>0. aborting' = aborting /\ running' = running /\ aborting # "done"
    BY <1>2 DEF add_emergency_cleanup, Active, HandlersInv
  <2>1. CASE Registered(f)
    <3>1. owes' = owes /\ cleanups' = cleanups
      BY <1>0, <1>2, <2>1 DEF add_emergency_cleanup
    <3> QED
      BY <1>1, <2>0, <3>1
  <2>2. CASE ~Registered(f)
    <3> DEFINE new == <<f>> \o cleanups
    <3>1. cleanups' = new /\ owes' = [owes EXCEPT ![f] = 1]
      BY <1>0, <1>2, <2>2 DEF add_emergency_cleanup
    <3>2. <<f>> \in Seq(Cleanup)
      OBVIOUS
    <3>3. new \in Seq(Cleanup) /\ Len(new) = Len(cleanups) + 1
      BY <1>0, <3>2
    <3>4. \A i \in 1..Len(new) : new[i] = IF i = 1 THEN f ELSE cleanups[i - 1]
      BY <1>0, <3>2
    <3> HIDE DEF new
    <3>5. \A i \in 1..Len(new) : i # 1 => i - 1 \in 1..Len(cleanups)
      BY <1>0, <3>3
    <3>6. \A g \in Cleanup : (\E i \in 1..Len(new) : new[i] = g) <=> g = f \/ Registered(g)
      <4>1. \A i \in 1..Len(cleanups) : i + 1 \in 1..Len(new) /\ new[i + 1] = cleanups[i]
        BY <1>0, <3>3, <3>4, SMTT(60)
      <4>2. 1 \in 1..Len(new) /\ new[1] = f
        BY <1>0, <3>3, <3>4
      <4>3. \A i \in 1..Len(new) : new[i] = f \/ \E j \in 1..Len(cleanups) : cleanups[j] = new[i]
        BY <3>4, <3>5
      <4>4. \A g \in Cleanup : Registered(g) => \E i \in 1..Len(new) : new[i] = g
        BY <1>0, <4>1, SMTT(60)
      <4>5. \A i \in 1..Len(new), g \in Cleanup : new[i] = g => g = f \/ Registered(g)
        BY <1>0, <4>3
      <4> QED
        BY <4>2, <4>4, <4>5
    <3>7. ASSUME NEW i \in 1..Len(new), NEW j \in 1..Len(new), new[i] = new[j] PROVE i = j
      <4>1. \A k \in 1..Len(new) : k # 1 => new[k] # f
        <5>1. \A k \in 1..Len(cleanups) : cleanups[k] # f
          BY <1>0, <2>2
        <5> QED
          BY <3>4, <3>5, <5>1
      <4>2. CASE i = 1 \/ j = 1
        BY <3>4, <3>7, <4>1, <4>2
      <4>3. CASE i # 1 /\ j # 1
        <5>2. /\ i - 1 \in 1..Len(cleanups) /\ j - 1 \in 1..Len(cleanups)
              /\ cleanups[i - 1] = cleanups[j - 1]
          BY <3>4, <3>5, <3>7, <4>3
        <5>3. \A a, b \in 1..Len(cleanups) : cleanups[a] = cleanups[b] => a = b
          BY <1>0
        <5>1. i - 1 = j - 1
          BY <5>2, <5>3
        <5> QED
          BY <1>0, <3>3, <5>1
      <4> QED
        BY <4>2, <4>3
    <3>8. owes' \in [Cleanup -> Int] /\ \A g \in Cleanup : owes'[g] = IF g = f THEN 1 ELSE owes[g]
      BY <1>0, <3>1
    <3> QED
      BY <1>0, <1>9, <2>0, <3>1, <3>3, <3>6, <3>7, <3>8
  <2> QED
    BY <2>1, <2>2
<1>3. CASE Abort
  BY <1>1, <1>3 DEF Abort
<1>4. CASE run_emergency_cleanup
  <2>1. CASE cleanups = <<>>
    BY <1>1, <1>4, <2>1 DEF run_emergency_cleanup
  <2>2. CASE cleanups # <<>>
    <3> DEFINE h == Head(cleanups)
               rest == Tail(cleanups)
    <3>1. cleanups' = rest /\ owes' = [owes EXCEPT ![h] = owes[h] - 1] /\ aborting' # "done"
      BY <1>4, <2>2 DEF run_emergency_cleanup, Unlinked
    <3>2. Len(cleanups) >= 1
      BY <1>0, <2>2
    <3>3. /\ rest \in Seq(Cleanup) /\ Len(rest) = Len(cleanups) - 1
          /\ \A i \in 1..Len(rest) : rest[i] = cleanups[i + 1] /\ i + 1 \in 1..Len(cleanups) /\ i + 1 # 1
      BY <1>0, <2>2
    <3>4. h \in Cleanup /\ h = cleanups[1] /\ 1 \in 1..Len(cleanups)
      BY <1>0, <2>2, <3>2
    <3> HIDE DEF rest, h
    <3>5. ASSUME NEW i \in 1..Len(rest), NEW j \in 1..Len(rest), rest[i] = rest[j] PROVE i = j
      <4>2. /\ i + 1 \in 1..Len(cleanups) /\ j + 1 \in 1..Len(cleanups)
            /\ cleanups[i + 1] = cleanups[j + 1]
        BY <3>3, <3>5
      <4>3. \A a, b \in 1..Len(cleanups) : cleanups[a] = cleanups[b] => a = b
        BY <1>0
      <4>1. i + 1 = j + 1
        BY <4>2, <4>3
      <4> QED
        BY <1>0, <3>3, <4>1
    <3>6. \A g \in Cleanup : (\E i \in 1..Len(rest) : rest[i] = g) <=> g # h /\ Registered(g)
      <4>1. ASSUME NEW i \in 1..Len(cleanups), i # 1 PROVE i - 1 \in 1..Len(rest) /\ rest[i - 1] = cleanups[i]
        <5>1. i - 1 \in 1..Len(rest) /\ (i - 1) + 1 = i
          BY <1>0, <3>3, <4>1
        <5>2. rest[i - 1] = cleanups[(i - 1) + 1]
          BY <3>3, <5>1
        <5> QED
          BY <5>1, <5>2
      <4>2. \A i \in 1..Len(rest) : rest[i] # h
        BY <1>0, <3>3, <3>4
      <4>3. \A g \in Cleanup, i \in 1..Len(rest) : rest[i] = g => Registered(g)
        BY <1>0, <3>3, ZenonT(60)
      <4>4. \A g \in Cleanup : g # h /\ Registered(g) => \E i \in 1..Len(rest) : rest[i] = g
        <5>1. \A i \in 1..Len(cleanups) : cleanups[i] # h => \E j \in 1..Len(rest) : rest[j] = cleanups[i]
          BY <3>4, <4>1
        <5> QED
          BY <1>0, <5>1
      <4> QED
        BY <4>2, <4>3, <4>4
    <3>7. owes' \in [Cleanup -> Int] /\ \A g \in Cleanup : owes'[g] = IF g = h THEN 0 ELSE owes[g]
      <4>1. owes[h] = 1
        BY <1>0, <3>4
      <4> QED
        BY <1>0, <3>1, <3>4, <4>1
    <3> QED
      BY <1>0, <1>9, <3>1, <3>3, <3>5, <3>6, <3>7, ZenonT(60)
  <2> QED
    BY <2>1, <2>2
<1>5. CASE AllocStep \/ UNCHANGED memoryVars
  BY <1>1, <1>5 DEF AllocStep, memoryVars, HandlersInv, CleanupOnce
<1> QED
  BY <1>2, <1>3, <1>4, <1>5 DEF MemoryNext

\* Every step keeps MemoryInv.
LEMMA MemoryInductive == MemoryInv /\ [MemoryNext]_memoryVars => MemoryInv'
<1> SUFFICES ASSUME MemoryInv, [MemoryNext]_memoryVars PROVE MemoryInv'
  OBVIOUS
<1>1. HandlersInv'
  BY HandlersKept DEF MemoryInv
<1>2. ASSUME alloc' = alloc PROVE AllocExact'
  BY <1>2 DEF MemoryInv, AllocExact
<1>3. AllocExact'
  BY <1>2, AllocStepKeeps DEF MemoryNext, add_emergency_cleanup, Abort, run_emergency_cleanup, memoryVars, AllocExact, MemoryInv
<1> QED
  BY <1>1, <1>3 DEF MemoryInv

\* The sizes of a block, the bytes it keeps and the zeros behind them are exact, and a failing
\* call leaves the old block with its owner (_gpgrt_reallocarray, _gpgrt_calloc, init.c).
THEOREM BlocksExact == MemorySpec => []AllocExact
<1>1. MemoryInv => AllocExact
  BY DEF MemoryInv
<1> QED
  BY <1>1, MemoryInitial, MemoryInductive, PTL DEF MemorySpec

\* An emergency handler runs once for each registration of one that is not waiting to run, although
\* handlers may abort again and register handlers, and the program ends with none left
\* (_gpgrt_abort, _gpgrt_add_emergency_cleanup, init.c).
THEOREM HandlersOnce == MemorySpec => []CleanupOnce
<1>1. MemoryInv => CleanupOnce
  BY DEF MemoryInv, HandlersInv
<1> QED
  BY <1>1, MemoryInitial, MemoryInductive, PTL DEF MemorySpec

-----------------------------------------------------------------------------
(***************************************************************************)
(* Versions.                                                               *)
(***************************************************************************)
DigitStep(g, digits, s) == IF s = {} THEN 0 ELSE AsInt(g[s \ {Top(s)}] * 10 + (digits[Top(s)] - Zero))

\* What the fold over the digits is below the library's definitions.
Digits(digits, D) == CHOOSE g : g = [s \in SUBSET D |-> DigitStep(g, digits, s)]

\* The fold over the digits of a number is a recursive function over sets of indices.
LEMMA FoldIsDigits ==
  ASSUME NEW digits PROVE Value10(digits) = Digits(digits, DOMAIN digits)[DOMAIN digits]
  BY DEF Value10, FoldLeft, MapThenFoldSet, Digits, DigitStep, Top, Max

\* An int is an integer.
LEMMA AsIntIs == ASSUME NEW n \in Int PROVE AsInt(n) \in Int
  BY VersionAssumption DEF AsInt

\* The recursive function over the subsets of an interval is what its definition says.
LEMMA DigitsExist ==
  ASSUME NEW digits, NEW N \in Nat
  PROVE  \E g : g = [s \in SUBSET (1..N) |-> DigitStep(g, digits, s)]
<1> DEFINE T == {n \in Nat : \E g : g = [s \in SUBSET (1..n) |-> DigitStep(g, digits, s)]}
           Next10(v, digit) == AsInt(v * 10 + (digit - Zero))
<1>1. 0 \in T
  <2> DEFINE g == [s \in SUBSET (1..0) |-> 0]
  <2>1. \A s \in SUBSET (1..0) : s = {}
    OBVIOUS
  <2>2. \A s \in SUBSET (1..0) : DigitStep(g, digits, s) = 0
    BY <2>1 DEF DigitStep
  <2>3. g = [s \in SUBSET (1..0) |-> DigitStep(g, digits, s)]
    BY <2>2
  <2> HIDE DEF g
  <2> QED
    BY <2>3
<1>2. ASSUME NEW n \in Nat, n \in T PROVE n + 1 \in T
  <2>1. PICK g : g = [s \in SUBSET (1..n) |-> DigitStep(g, digits, s)]
    BY <1>2
  <2> DEFINE h == [s \in SUBSET (1..n + 1) |-> IF n + 1 \in s THEN Next10(g[s \ {n + 1}], digits[n + 1]) ELSE g[s]]
  <2>2. ASSUME NEW s \in SUBSET (1..n + 1) PROVE h[s] = DigitStep(h, digits, s)
    <3>1. CASE n + 1 \in s
      <4>1. Top(s) = n + 1 /\ s # {}
        BY <3>1, TopIs
      <4>2. s \ {n + 1} \in SUBSET (1..n + 1) /\ n + 1 \notin s \ {n + 1}
        OBVIOUS
      <4>3. h[s \ {n + 1}] = g[s \ {n + 1}]
        BY <4>2
      <4>4. h[s] = Next10(g[s \ {n + 1}], digits[n + 1])
        BY <3>1
      <4> HIDE DEF h
      <4> QED
        BY <4>1, <4>3, <4>4 DEF DigitStep
    <3>2. CASE n + 1 \notin s
      <4>1. s \in SUBSET (1..n)
        BY <3>2
      <4>2. s \ {Top(s)} \in SUBSET (1..n + 1) /\ n + 1 \notin s \ {Top(s)}
        BY <3>2
      <4>3. h[s \ {Top(s)}] = g[s \ {Top(s)}]
        BY <4>2
      <4>4. h[s] = g[s]
        BY <3>2
      <4>5. g[s] = DigitStep(g, digits, s)
        BY <2>1, <4>1
      <4> HIDE DEF h
      <4> QED
        BY <4>3, <4>4, <4>5 DEF DigitStep
    <3> QED
      BY <3>1, <3>2
  <2>3. h = [s \in SUBSET (1..n + 1) |-> h[s]]
    OBVIOUS
  <2> HIDE DEF h
  <2>4. h = [s \in SUBSET (1..n + 1) |-> DigitStep(h, digits, s)]
    BY <2>2, <2>3
  <2> QED
    BY <2>4
<1> HIDE DEF T
<1>3. N \in T
  BY <1>1, <1>2, Induction
<1> QED
  BY <1>3 DEF T

\* A number of a version is an integer.
LEMMA ValueIs == ASSUME NEW digits \in Seq(Int) PROVE Value10(digits) \in Int
<1> DEFINE N == Len(digits)
           G == Digits(digits, 1..N)
<1>1. N \in Nat /\ DOMAIN digits = 1..N
  OBVIOUS
<1> HIDE DEF N
<1>2. G = [s \in SUBSET (1..N) |-> DigitStep(G, digits, s)]
  BY <1>1, DigitsExist DEF Digits
<1> HIDE DEF G
<1>3. G[{}] = 0
  BY <1>2 DEF DigitStep
<1> DEFINE T == {n \in Nat : n <= N => G[1..n] \in Int}
<1>4. 0 \in T
  <2>1. 1..0 = {}
    OBVIOUS
  <2> QED
    BY <1>3, <2>1
<1>5. ASSUME NEW n \in Nat, n \in T PROVE n + 1 \in T
  <2>1. SUFFICES ASSUME n + 1 <= N PROVE G[1..n + 1] \in Int
    OBVIOUS
  <2>2. Top(1..n + 1) = n + 1
    <3>1. 1..n + 1 \in SUBSET (1..n + 1) /\ n + 1 \in 1..n + 1
      OBVIOUS
    <3> QED
      BY <3>1, TopIs
  <2>3. (1..n + 1) \ {n + 1} = 1..n
    OBVIOUS
  <2>4. n + 1 \in 1..n + 1
    OBVIOUS
  <2>5. 1..n + 1 \in SUBSET (1..N)
    BY <1>1, <2>1
  <2>6. G[1..n + 1] = AsInt(G[1..n] * 10 + (digits[n + 1] - Zero))
    BY <1>2, <2>2, <2>3, <2>4, <2>5 DEF DigitStep
  <2>7. G[1..n] \in Int /\ digits[n + 1] \in Int
    BY <1>1, <1>5, <2>1
  <2>8. G[1..n] * 10 + (digits[n + 1] - Zero) \in Int
    BY <2>7, SMTT(60) DEF Zero
  <2> QED
    BY <2>6, <2>8, AsIntIs
<1> HIDE DEF T
<1>6. N \in T
  BY <1>1, <1>4, <1>5, Induction
<1>7. Value10(digits) = G[1..N]
  BY <1>1, FoldIsDigits DEF G
<1> QED
  BY <1>1, <1>6, <1>7 DEF T

VersionChar == 1..255
ByteString == Seq(VersionChar)

\* The characters of a string are numbers.
LEMMA CharsAre ==
  ASSUME NEW s \in ByteString
  PROVE  Len(s) \in Nat /\ \A k \in 1..Len(s) : s[k] \in Int /\ 0 < s[k] /\ s[k] < 256
<1>1. Len(s) \in Nat
  BY DEF ByteString
<1>2. ASSUME NEW k \in 1..Len(s) PROVE s[k] \in Int /\ 0 < s[k] /\ s[k] < 256
  <2>1. s[k] \in VersionChar
    BY <1>1, <1>2 DEF ByteString
  <2>2. \A c \in VersionChar : c \in Int /\ 0 < c /\ c < 256
    BY DEF VersionChar
  <2> QED BY <2>1, <2>2
<1> QED BY <1>1, <1>2

\* The characters of a string.
LEMMA CharAtIs ==
  ASSUME NEW s \in ByteString, NEW i \in Nat, i > 0
  PROVE  /\ CharAt(s, i) \in Nat
         /\ i <= Len(s) <=> CharAt(s, i) # 0
         /\ i <= Len(s) => CharAt(s, i) = s[i]
<1>1. Len(s) \in Nat /\ \A k \in 1..Len(s) : s[k] \in Int /\ 0 < s[k] /\ s[k] < 256
  BY CharsAre
<1>2. CASE i <= Len(s)
  <2>1. i \in 1..Len(s)
    BY <1>1, <1>2
  <2>2. CharAt(s, i) = s[i]
    BY <1>2 DEF CharAt
  <2>3. s[i] \in Int /\ 0 < s[i]
    BY <1>1, <2>1
  <2> HIDE <1>1
  <2> QED BY <1>2, <2>2, <2>3
<1>3. CASE ~(i <= Len(s))
  BY <1>3 DEF CharAt
<1> QED BY <1>2, <1>3

\* The digits of a number end in the string or with it.
LEMMA DigitsEndIs ==
  ASSUME NEW s \in ByteString, NEW i \in 1..(Len(s) + 1)
  PROVE  DigitsEnd(s, i) \in i..(Len(s) + 1)
<1> DEFINE T == {j \in i..(Len(s) + 1) : ~DigitP(s, j)}
<1>1. T \subseteq Nat /\ Len(s) + 1 \in T
  BY DEF DigitP, ByteString
<1>2. PICK j \in T : \A k \in T : j <= k
  BY <1>1, Least
<1>3. \A k \in i..(j - 1) : DigitP(s, k)
  <2> SUFFICES ASSUME NEW k \in i..(j - 1) PROVE DigitP(s, k)
    OBVIOUS
  <2>1. k \in i..(Len(s) + 1) /\ ~(j <= k)
    BY <1>2
  <2> QED BY <1>2, <2>1
<1>4. \E x \in i..(Len(s) + 1) : ~DigitP(s, x) /\ \A k \in i..(x - 1) : DigitP(s, k)
  BY <1>2, <1>3
<1> QED BY <1>4 DEF DigitsEnd

\* A number that is parsed.
LEMMA NumberIs ==
  ASSUME NEW s \in ByteString, NEW i \in 1..(Len(s) + 1), parse_version_number(s, i).ok
  PROVE  parse_version_number(s, i).val \in Int /\ parse_version_number(s, i).at \in i..(Len(s) + 1)
<1> DEFINE end == DigitsEnd(s, i)
           val == Value10(SubSeq(s, i, end - 1))
<1>1. end \in i..(Len(s) + 1) /\ Len(s) \in Nat
  BY DigitsEndIs DEF ByteString
<1> HIDE DEF end
<1>2. \A k \in i..(end - 1) : s[k] \in Int
  <2>1. \A k \in 1..Len(s) : s[k] \in Int
    BY CharsAre
  <2> QED BY <1>1, <2>1
<1>3. SubSeq(s, i, end - 1) \in Seq(Int)
  BY <1>1, <1>2
<1>4. val \in Int
  BY <1>3, ValueIs
<1> HIDE DEF val
<1>5. parse_version_number(s, i) = IF (CharAt(s, i) = Zero /\ DigitP(s, i + 1)) \/ val < 0 THEN Unparsed
                                   ELSE [ok |-> TRUE, val |-> val, at |-> end]
  BY DEF parse_version_number, end, val
<1> QED BY <1>1, <1>4, <1>5 DEF Unparsed

\* What a version is, where s is the string parsed: three numbers and the rest of s.
VersionOf(v, s) ==
  /\ v.nums[1] \in Int /\ v.nums[2] \in Int /\ v.nums[3] \in Int
  /\ \E j \in 1..(Len(s) + 2) : v.patch = SubSeq(s, j, Len(s))

LEMMA ParsedIs ==
  ASSUME NEW s \in ByteString, NEW x \in Int, NEW y \in Int, NEW z \in Int, NEW i \in 1..(Len(s) + 1)
  PROVE  VersionOf(Parsed(<<x, y, z>>, s, i), s) /\ VersionOf(ParsedAll(<<x, y, z>>, s, i), s)
<1>1. Len(s) \in Nat
  BY CharsAre
<1>2. VersionOf(ParsedAll(<<x, y, z>>, s, i), s)
  <2>1. i \in 1..(Len(s) + 2)
    BY <1>1
  <2> QED BY <2>1 DEF VersionOf, ParsedAll
<1>3. VersionOf(Parsed(<<x, y, z>>, s, i), s)
  <2> DEFINE j == IF CharAt(s, i) = Dot THEN i + 1 ELSE i
  <2>1. j \in 1..(Len(s) + 2)
    BY <1>1
  <2>2. Parsed(<<x, y, z>>, s, i) = [ok |-> TRUE, nums |-> <<x, y, z>>, patch |-> SubSeq(s, j, Len(s))]
    BY DEF Parsed
  <2> HIDE DEF j
  <2> QED BY <2>1, <2>2, SMTT(60) DEF VersionOf
<1> QED BY <1>2, <1>3

\* The place after a dot is a place of the string.
LEMMA AfterDot ==
  ASSUME NEW s \in ByteString, NEW i \in 1..(Len(s) + 1), CharAt(s, i) = Dot
  PROVE  i + 1 \in 1..(Len(s) + 1)
<1>1. Len(s) \in Nat
  BY CharsAre
<1>2. i <= Len(s)
  BY <1>1, CharAtIs DEF Dot
<1> QED BY <1>1, <1>2

\* A valid string is three numbers and a patch level, which is the end of the string.
LEMMA StringIs ==
  ASSUME NEW s \in ByteString, NEW level \in Int, parse_version_string(s, level).ok
  PROVE  VersionOf(parse_version_string(s, level), s)
<1> DEFINE major == parse_version_number(s, 1)
           minor == parse_version_number(s, major.at + 1)
           micro == parse_version_number(s, minor.at + 1)
<1>1. Len(s) \in Nat /\ 1 \in 1..(Len(s) + 1)
  BY CharsAre
<1>2. ~NoVersion.ok
  BY DEF NoVersion
<1>3. parse_version_string(s, level) = FromMajor(s, level, major)
  BY DEF parse_version_string
<1>4. major.ok
  BY <1>2, <1>3 DEF FromMajor
<1>5. major.val \in Int /\ major.at \in 1..(Len(s) + 1)
  BY <1>1, <1>4, NumberIs
<1>6. CASE level <= 1
  <2>1. parse_version_string(s, level) = Parsed(<<major.val, 0, 0>>, s, major.at)
    BY <1>3, <1>4, <1>6 DEF FromMajor
  <2> HIDE DEF major
  <2> QED BY <1>5, <2>1, ParsedIs
<1>7. CASE ~(level <= 1)
  <2>1. parse_version_string(s, level) = IF CharAt(s, major.at) # Dot THEN NoVersion ELSE FromMinor(s, level, major, minor)
    BY <1>3, <1>4, <1>7 DEF FromMajor
  <2> HIDE DEF major
  <2>2. CharAt(s, major.at) = Dot /\ parse_version_string(s, level) = FromMinor(s, level, major, minor)
    BY <1>2, <2>1
  <2>3. major.at + 1 \in 1..(Len(s) + 1)
    BY <1>5, <2>2, AfterDot
  <2>4. minor.ok
    BY <1>2, <2>2 DEF FromMinor
  <2>5. minor.val \in Int /\ minor.at \in 1..(Len(s) + 1)
    <3>1. minor.val \in Int /\ minor.at \in (major.at + 1)..(Len(s) + 1)
      BY <2>3, <2>4, NumberIs
    <3> HIDE DEF minor
    <3> QED BY <1>1, <1>5, <3>1
  <2>6. CASE level = 2
    <3>1. parse_version_string(s, level) = Parsed(<<major.val, minor.val, 0>>, s, minor.at)
      BY <2>2, <2>4, <2>6 DEF FromMinor
    <3> HIDE DEF minor
    <3> QED BY <1>5, <2>5, <3>1, ParsedIs
  <2>7. CASE level # 2
    <3>1. parse_version_string(s, level) = IF CharAt(s, minor.at) # Dot THEN NoVersion ELSE FromMicro(s, major, minor, micro)
      BY <2>2, <2>4, <2>7 DEF FromMinor
    <3> HIDE DEF minor
    <3>2. CharAt(s, minor.at) = Dot /\ parse_version_string(s, level) = FromMicro(s, major, minor, micro)
      BY <1>2, <3>1
    <3>3. minor.at + 1 \in 1..(Len(s) + 1)
      BY <2>5, <3>2, AfterDot
    <3>4. micro.ok /\ parse_version_string(s, level) = ParsedAll(<<major.val, minor.val, micro.val>>, s, micro.at)
      BY <1>2, <3>2 DEF FromMicro
    <3>5. micro.val \in Int /\ micro.at \in 1..(Len(s) + 1)
      <4>1. micro.val \in Int /\ micro.at \in (minor.at + 1)..(Len(s) + 1)
        BY <3>3, <3>4, NumberIs
      <4> HIDE DEF micro
      <4> QED BY <1>1, <2>5, <4>1
    <3> HIDE DEF micro
    <3> QED BY <1>5, <2>5, <3>4, <3>5, ParsedIs
  <2> QED BY <2>6, <2>7
<1> QED BY <1>6, <1>7

AsciiString == {s \in ByteString : \A i \in 1..Len(s) : s[i] < 128}
\* The first place where two strings differ.
FirstAt(a, b, i) ==
  i \in Nat \ {0} /\ CharAt(a, i) # CharAt(b, i) /\ \A k \in 1..(i - 1) : CharAt(a, k) = CharAt(b, k)
Same(a, b) == \A k \in Nat \ {0} : CharAt(a, k) = CharAt(b, k)
\* What a character of a patch level counts for: before the first dot, one more than its code, but
\* a dot less than all of them and the end of the string less than a dot; then its code.
Dotted(s, i) == \E k \in 1..(i - 1) : CharAt(s, k) = Dot
Plain(c) == IF c = 0 THEN 0 ELSE IF c = Dot THEN 1 ELSE c + 1
Rank(s, i) == IF Dotted(s, i) THEN CharAt(s, i) ELSE Plain(CharAt(s, i))

\* Two strings have the same characters or a first place where they differ.
LEMMA DifferSomewhere ==
  ASSUME NEW a, NEW b, ~Same(a, b) PROVE \E i : FirstAt(a, b, i)
<1> DEFINE T == {k \in Nat \ {0} : CharAt(a, k) # CharAt(b, k)}
<1>1. T # {} /\ T \subseteq Nat
  BY DEF Same
<1>2. PICK i \in T : \A k \in T : i <= k
  BY <1>1, Least
<1>3. \A k \in 1..(i - 1) : CharAt(a, k) = CharAt(b, k)
  <2> SUFFICES ASSUME NEW k \in 1..(i - 1), CharAt(a, k) # CharAt(b, k) PROVE FALSE
    OBVIOUS
  <2>1. k \in T /\ ~(i <= k)
    OBVIOUS
  <2> QED BY <1>2, <2>1
<1> QED BY <1>2, <1>3 DEF FirstAt

\* strcmp returns the sign of the difference of the first characters that differ.
LEMMA StrcmpIs ==
  ASSUME NEW a \in ByteString, NEW b \in ByteString
  PROVE  /\ Same(a, b) => Strcmp(a, b) = 0
         /\ \A i : FirstAt(a, b, i) => Strcmp(a, b) = SignOf(CharAt(a, i) - CharAt(b, i))
<1> DEFINE T == {k \in 1..(Len(a) + Len(b) + 1) : CharAt(a, k) # CharAt(b, k) \/ k > Len(a)}
           f == FirstDiff(a, b)
<1>1. Len(a) \in Nat /\ Len(b) \in Nat
  BY CharsAre
<1>2. T \subseteq Nat /\ Len(a) + 1 \in T
  BY <1>1
<1>3. PICK i \in T : \A k \in T : i <= k
  BY <1>2, Least
<1>4. \A k \in 1..(i - 1) : CharAt(a, k) = CharAt(b, k)
  <2> SUFFICES ASSUME NEW k \in 1..(i - 1), CharAt(a, k) # CharAt(b, k) PROVE FALSE
    OBVIOUS
  <2>1. k \in T /\ ~(i <= k)
    BY <1>1
  <2> QED BY <1>3, <2>1
<1>5. /\ f \in 1..(Len(a) + Len(b) + 1)
      /\ CharAt(a, f) # CharAt(b, f) \/ f > Len(a)
      /\ \A k \in 1..(f - 1) : CharAt(a, k) = CharAt(b, k)
  BY <1>3, <1>4 DEF FirstDiff
<1>6. Strcmp(a, b) = SignOf(CharAt(a, f) - CharAt(b, f))
  BY DEF Strcmp
<1> HIDE DEF f, T
<1>7. CASE CharAt(a, f) # CharAt(b, f)
  <2>1. ~Same(a, b)
    BY <1>1, <1>5, <1>7 DEF Same
  <2>2. ASSUME NEW k, FirstAt(a, b, k) PROVE k = f
    BY <1>1, <1>5, <1>7, <2>2 DEF FirstAt
  <2> QED BY <1>6, <2>1, <2>2
<1>8. CASE CharAt(a, f) = CharAt(b, f)
  <2>1. f \in Nat /\ f > 0 /\ f > Len(a)
    BY <1>1, <1>5, <1>8
  <2>2. CharAt(a, f) = 0 /\ CharAt(b, f) = 0
    BY <1>8, <2>1 DEF CharAt
  <2>3. f > Len(b)
    BY <1>1, <2>1, <2>2, CharAtIs
  <2>4. Strcmp(a, b) = 0
    BY <1>6, <2>2 DEF SignOf
  <2>5. ASSUME NEW k, FirstAt(a, b, k) PROVE FALSE
    <3>1. k \in Nat \ {0} /\ CharAt(a, k) # CharAt(b, k) /\ ~(k < f)
      BY <1>5, <2>1, <2>5 DEF FirstAt
    <3>2. k > Len(a) /\ k > Len(b)
      BY <1>1, <2>1, <2>3, <3>1
    <3> QED BY <3>1, <3>2 DEF CharAt
  <2> QED BY <2>4, <2>5
<1> QED BY <1>7, <1>8

\* The characters of the end of a string.
LEMMA EndIs ==
  ASSUME NEW s \in ByteString, NEW j \in 1..(Len(s) + 2)
  PROVE  /\ SubSeq(s, j, Len(s)) \in ByteString
         /\ \A k \in Nat \ {0} : CharAt(SubSeq(s, j, Len(s)), k) = CharAt(s, j + k - 1)
<1> DEFINE e == SubSeq(s, j, Len(s))
<1>1. Len(s) \in Nat /\ \A k \in 1..Len(s) : s[k] \in VersionChar
  BY CharsAre DEF ByteString
<1>2. \A k \in j..Len(s) : s[k] \in VersionChar
  BY <1>1
<1>3. e \in Seq(VersionChar) /\ Len(e) = IF j <= Len(s) THEN Len(s) - j + 1 ELSE 0
  BY <1>1, <1>2
<1>4. \A k \in 1..Len(e) : e[k] = s[j + k - 1]
  BY <1>1, <1>3
<1> HIDE DEF e
<1>5. ASSUME NEW k \in Nat \ {0} PROVE CharAt(e, k) = CharAt(s, j + k - 1)
  <2>1. CASE k <= Len(e)
    <3>1. k \in 1..Len(e) /\ j + k - 1 <= Len(s)
      BY <1>1, <1>3, <2>1
    <3> QED BY <1>4, <2>1, <3>1 DEF CharAt
  <2>2. CASE ~(k <= Len(e))
    <3>1. ~(j + k - 1 <= Len(s))
      BY <1>1, <1>3, <2>2
    <3> QED BY <2>2, <3>1 DEF CharAt
  <2> QED BY <2>1, <2>2
<1> QED BY <1>3, <1>5 DEF e, ByteString

\* Where the comparison of two patch levels stops.
StopAt(a, b, j) == j > Len(a) \/ j > Len(b) \/ a[j] = Dot \/ b[j] = Dot \/ a[j] # b[j]

LEMMA StopIs ==
  ASSUME NEW a \in ByteString, NEW b \in ByteString
  PROVE  /\ StopsAt(a, b) \in Nat \ {0}
         /\ StopAt(a, b, StopsAt(a, b))
         /\ \A j \in 1..(StopsAt(a, b) - 1) : ~StopAt(a, b, j)
<1> DEFINE T == {k \in 1..(Len(a) + Len(b) + 1) : StopAt(a, b, k)}
<1>1. Len(a) \in Nat /\ Len(b) \in Nat
  BY CharsAre
<1>2. T \subseteq Nat /\ Len(a) + 1 \in T
  BY <1>1 DEF StopAt
<1>3. PICK i \in T : \A k \in T : i <= k
  BY <1>2, Least
<1>4. \A j \in 1..(i - 1) : ~StopAt(a, b, j)
  <2> SUFFICES ASSUME NEW j \in 1..(i - 1), StopAt(a, b, j) PROVE FALSE
    OBVIOUS
  <2>1. j \in T /\ ~(i <= j)
    BY <1>1
  <2> QED BY <1>3, <2>1
<1>5. \E x \in 1..(Len(a) + Len(b) + 1) : StopAt(a, b, x) /\ \A j \in 1..(x - 1) : ~StopAt(a, b, j)
  BY <1>3, <1>4
<1>6. StopsAt(a, b) = CHOOSE x \in 1..(Len(a) + Len(b) + 1) : StopAt(a, b, x) /\ \A j \in 1..(x - 1) : ~StopAt(a, b, j)
  BY DEF StopsAt, StopAt
<1> HIDE DEF T
<1> QED BY <1>1, <1>5, <1>6

\* The comparison of two patch levels is the sign of the difference of what their first characters
\* that differ count for, and 0 if there are none.
LEMMA PatchIs ==
  ASSUME NEW a \in AsciiString, NEW b \in AsciiString
  PROVE  /\ Same(a, b) => ComparePatch(a, b) = 0
         /\ \A i : FirstAt(a, b, i) => ComparePatch(a, b) = SignOf(Rank(a, i) - Rank(b, i))
<1> DEFINE t == StopsAt(a, b)
           x == CharAt(a, t)
           y == CharAt(b, t)
<1>1. a \in ByteString /\ b \in ByteString /\ Len(a) \in Nat /\ Len(b) \in Nat
  BY CharsAre DEF AsciiString
<1>2. t \in Nat \ {0} /\ StopAt(a, b, t) /\ \A j \in 1..(t - 1) : ~StopAt(a, b, j)
  BY <1>1, StopIs
<1>3. ComparePatch(a, b) =
        CASE t <= Len(a) /\ t <= Len(b) /\ x = Dot /\ y = Dot -> Strcmp(SubSeq(a, t, Len(a)), SubSeq(b, t, Len(b)))
          [] t <= Len(a) /\ t <= Len(b) /\ x = Dot /\ y # Dot -> -1
          [] t <= Len(a) /\ t <= Len(b) /\ x # Dot /\ y = Dot -> 1
          [] OTHER -> SignOf(SignedChar(x) - SignedChar(y))
  BY DEF ComparePatch
<1> HIDE DEF t
<1>4. ASSUME NEW j \in 1..(t - 1)
      PROVE j <= Len(a) /\ j <= Len(b) /\ CharAt(a, j) = CharAt(b, j) /\ CharAt(a, j) # Dot
  BY <1>1, <1>2 DEF StopAt, CharAt
<1>5. ~Dotted(a, t) /\ ~Dotted(b, t)
  BY <1>4 DEF Dotted
<1>6. x \in 0..127 /\ y \in 0..127
  <2>1. ASSUME NEW s \in AsciiString PROVE CharAt(s, t) \in 0..127
    <3>1. s \in ByteString /\ \A i \in 1..Len(s) : s[i] < 128
      BY DEF AsciiString
    <3>2. Len(s) \in Nat /\ CharAt(s, t) \in Nat /\ (t <= Len(s) => CharAt(s, t) = s[t])
      BY <1>2, <3>1, CharsAre, CharAtIs
    <3>3. CASE t <= Len(s)
      <4>1. t \in 1..Len(s)
        BY <1>2, <3>2, <3>3
      <4>2. s[t] < 128
        BY <3>1, <4>1
      <4>3. CharAt(s, t) < 128
        BY <3>2, <3>3, <4>2
      <4>4. \A c \in Nat : c < 128 => c \in 0..127
        OBVIOUS
      <4> QED BY <3>2, <4>3, <4>4
    <3>4. CASE ~(t <= Len(s))
      BY <3>4 DEF CharAt
    <3> QED BY <3>3, <3>4
  <2> QED BY <2>1
<1>7. SignedChar(x) = x /\ SignedChar(y) = y
  BY <1>6 DEF SignedChar
<1>8. (t <= Len(a) <=> x # 0) /\ (t <= Len(b) <=> y # 0)
  BY <1>1, <1>2, CharAtIs
<1> HIDE DEF x, y
<1>9. CASE x # y
  <2>1. ~Same(a, b)
    BY <1>2, <1>9 DEF Same, x, y
  <2>2. ASSUME NEW i, FirstAt(a, b, i) PROVE i = t
    BY <1>2, <1>4, <1>9, <2>2 DEF FirstAt, x, y
  <2>3. Rank(a, t) = Plain(x) /\ Rank(b, t) = Plain(y)
    BY <1>5 DEF Rank, x, y
  <2>4. ComparePatch(a, b) = SignOf(Plain(x) - Plain(y))
    <3>1. CASE x = Dot /\ y # Dot /\ y # 0
      <4>1. ComparePatch(a, b) = -1
        BY <1>3, <1>8, <3>1 DEF Dot
      <4>2. Plain(x) = 1 /\ Plain(y) = y + 1
        BY <3>1 DEF Plain, Dot
      <4> QED BY <1>6, <3>1, <4>1, <4>2 DEF SignOf
    <3>2. CASE x # Dot /\ y = Dot /\ x # 0
      <4>1. ComparePatch(a, b) = 1
        BY <1>3, <1>8, <3>2 DEF Dot
      <4>2. Plain(x) = x + 1 /\ Plain(y) = 1
        BY <3>2 DEF Plain, Dot
      <4> QED BY <1>6, <3>2, <4>1, <4>2 DEF SignOf
    <3>3. CASE x = 0 \/ y = 0 \/ (x # Dot /\ y # Dot)
      <4>1. ComparePatch(a, b) = SignOf(x - y)
        BY <1>3, <1>7, <1>8, <1>9, <3>3
      <4> QED BY <4>1, <1>6, <1>9, <3>3 DEF SignOf, Plain, Dot
    <3> QED BY <1>9, <3>1, <3>2, <3>3
  <2> QED BY <2>1, <2>2, <2>3, <2>4
<1>10. CASE x = y /\ x = 0
  <2>1. ComparePatch(a, b) = 0
    <3>1. ComparePatch(a, b) = SignOf(SignedChar(x) - SignedChar(y))
      BY <1>3, <1>8, <1>10
    <3> QED BY <3>1, <1>7, <1>10 DEF SignOf
  <2>2. ASSUME NEW i, FirstAt(a, b, i) PROVE FALSE
    <3>1. i \in Nat \ {0} /\ CharAt(a, i) # CharAt(b, i) /\ ~(i < t)
      BY <1>2, <1>4, <2>2 DEF FirstAt
    <3>2. i > Len(a) /\ i > Len(b)
      BY <1>1, <1>2, <1>8, <1>10, <3>1
    <3> QED BY <3>1, <3>2 DEF CharAt
  <2> QED BY <2>1, <2>2
<1>11. CASE x = y /\ x # 0
  <2> DEFINE ea == SubSeq(a, t, Len(a))
             eb == SubSeq(b, t, Len(b))
  <2>1. t <= Len(a) /\ t <= Len(b) /\ x = Dot /\ y = Dot
    <3>1. t <= Len(a) /\ t <= Len(b)
      BY <1>8, <1>11
    <3>2. x = a[t] /\ y = b[t]
      BY <3>1 DEF x, y, CharAt
    <3>3. a[t] = Dot \/ b[t] = Dot
      <4>1. ~(t > Len(a)) /\ ~(t > Len(b))
        BY <1>1, <1>2, <3>1
      <4>2. a[t] = b[t]
        BY <1>11, <3>2
      <4> QED BY <1>2, <4>1, <4>2 DEF StopAt
    <3> QED BY <1>11, <3>1, <3>2, <3>3
  <2>2. ComparePatch(a, b) = Strcmp(ea, eb)
    BY <1>3, <2>1
  <2>3. t \in 1..(Len(a) + 2) /\ t \in 1..(Len(b) + 2)
    BY <1>1, <1>2, <2>1
  <2>4. ea \in ByteString /\ eb \in ByteString
    BY <1>1, <2>3, EndIs
  <2>5. \A k \in Nat \ {0} : CharAt(ea, k) = CharAt(a, t + k - 1) /\ CharAt(eb, k) = CharAt(b, t + k - 1)
    BY <1>1, <2>3, EndIs
  <2> HIDE DEF ea, eb
  <2>6. Same(a, b) => Same(ea, eb)
    <3> SUFFICES ASSUME Same(a, b), NEW k \in Nat \ {0} PROVE CharAt(ea, k) = CharAt(eb, k)
      BY DEF Same
    <3>1. t + k - 1 \in Nat \ {0}
      BY <1>2
    <3> QED BY <2>5, <3>1 DEF Same
  <2>7. ASSUME NEW i, FirstAt(a, b, i)
        PROVE ComparePatch(a, b) = SignOf(Rank(a, i) - Rank(b, i))
    <3>1. i \in Nat \ {0} /\ CharAt(a, i) # CharAt(b, i) /\ \A k \in 1..(i - 1) : CharAt(a, k) = CharAt(b, k)
      BY <2>7 DEF FirstAt
    <3>2. i > t
      BY <1>2, <1>4, <1>11, <3>1 DEF x, y
    <3>3. Rank(a, i) = CharAt(a, i) /\ Rank(b, i) = CharAt(b, i)
      <4>1. t \in 1..(i - 1)
        BY <1>2, <3>1, <3>2
      <4> QED BY <2>1, <4>1 DEF Rank, Dotted, x, y
    <3> DEFINE n == i - t + 1
    <3>4. n \in Nat \ {0} /\ t + n - 1 = i
      BY <1>2, <3>1, <3>2
    <3>5. CharAt(ea, n) = CharAt(a, i) /\ CharAt(eb, n) = CharAt(b, i)
      BY <2>5, <3>4
    <3>6. ASSUME NEW k \in 1..(n - 1) PROVE CharAt(ea, k) = CharAt(eb, k)
      <4>1. k \in Nat \ {0} /\ t + k - 1 \in 1..(i - 1)
        BY <1>2, <3>1, <3>4
      <4> QED BY <2>5, <3>1, <4>1
    <3> HIDE DEF n
    <3>7. FirstAt(ea, eb, n)
      BY <3>1, <3>4, <3>5, <3>6 DEF FirstAt
    <3> QED BY <2>2, <2>4, <3>3, <3>5, <3>7, StrcmpIs
  <2> QED BY <2>2, <2>4, <2>6, <2>7, StrcmpIs
<1> QED BY <1>9, <1>10, <1>11

\* What the characters count for tells them apart, and is an integer.
LEMMA RankIs ==
  ASSUME NEW a \in ByteString, NEW b \in ByteString, NEW i \in Nat \ {0}
  PROVE  /\ Rank(a, i) \in Int
         /\ (\A k \in 1..(i - 1) : CharAt(a, k) = CharAt(b, k)) =>
              (Rank(a, i) = Rank(b, i) <=> CharAt(a, i) = CharAt(b, i))
<1>1. CharAt(a, i) \in Nat /\ CharAt(b, i) \in Nat
  BY CharAtIs
<1>2. \A c, e \in Nat : Plain(c) \in Int /\ (Plain(c) = Plain(e) <=> c = e)
  BY DEF Plain, Dot
<1>3. ASSUME \A k \in 1..(i - 1) : CharAt(a, k) = CharAt(b, k)
      PROVE  Dotted(a, i) <=> Dotted(b, i)
  BY <1>3 DEF Dotted
<1>4. Rank(a, i) = (IF Dotted(a, i) THEN CharAt(a, i) ELSE Plain(CharAt(a, i)))
  BY DEF Rank
<1>5. Rank(b, i) = (IF Dotted(b, i) THEN CharAt(b, i) ELSE Plain(CharAt(b, i)))
  BY DEF Rank
<1>6. Rank(a, i) \in Int
  BY <1>1, <1>2, <1>4
<1>7. ASSUME \A k \in 1..(i - 1) : CharAt(a, k) = CharAt(b, k)
      PROVE  Rank(a, i) = Rank(b, i) <=> CharAt(a, i) = CharAt(b, i)
  <2>1. CASE Dotted(a, i)
    BY <1>3, <1>4, <1>5, <1>7, <2>1
  <2>2. CASE ~Dotted(a, i)
    <3>1. Rank(a, i) = Plain(CharAt(a, i)) /\ Rank(b, i) = Plain(CharAt(b, i))
      BY <1>3, <1>4, <1>5, <1>7, <2>2
    <3> QED BY <1>1, <1>2, <3>1
  <2> QED BY <2>1, <2>2
<1> QED BY <1>6, <1>7

\* a is not after b: nowhere is a place where they first differ and a counts for more.
NotAfter(a, b) == \A i : FirstAt(a, b, i) => Rank(a, i) < Rank(b, i)

\* The comparison of patch levels by what their characters count for.
LEMMA PatchOrder ==
  ASSUME NEW a \in AsciiString, NEW b \in AsciiString
  PROVE  /\ ComparePatch(a, b) \in {-1, 0, 1}
         /\ ComparePatch(b, a) = 0 - ComparePatch(a, b)
         /\ ComparePatch(a, b) <= 0 <=> NotAfter(a, b)
         /\ ComparePatch(a, b) = 0 <=> Same(a, b)
<1>1. a \in ByteString /\ b \in ByteString
  BY DEF AsciiString
<1>2. CASE Same(a, b)
  <2>1. Same(b, a) /\ \A i : ~FirstAt(a, b, i)
    BY <1>2 DEF Same, FirstAt
  <2>2. ComparePatch(a, b) = 0 /\ ComparePatch(b, a) = 0
    BY <1>2, <2>1, PatchIs
  <2> QED BY <1>2, <2>1, <2>2 DEF NotAfter
<1>3. CASE ~Same(a, b)
  <2>1. PICK i : FirstAt(a, b, i)
    BY <1>3, DifferSomewhere
  <2>2. FirstAt(b, a, i) /\ i \in Nat \ {0} /\ CharAt(a, i) # CharAt(b, i)
    BY <2>1 DEF FirstAt
  <2>3. ComparePatch(a, b) = SignOf(Rank(a, i) - Rank(b, i)) /\ ComparePatch(b, a) = SignOf(Rank(b, i) - Rank(a, i))
    BY <2>1, <2>2, PatchIs
  <2>4. Rank(a, i) \in Int /\ Rank(b, i) \in Int /\ Rank(a, i) # Rank(b, i)
    <3>1. \A k \in 1..(i - 1) : CharAt(a, k) = CharAt(b, k)
      BY <2>1 DEF FirstAt
    <3> QED BY <1>1, <2>2, <3>1, RankIs
  <2>5. \A j : FirstAt(a, b, j) => j = i
    BY <2>1 DEF FirstAt
  <2>6. NotAfter(a, b) <=> Rank(a, i) < Rank(b, i)
    BY <2>1, <2>5 DEF NotAfter
  <2>7. \A m, n \in Int : m # n => /\ SignOf(m - n) \in {-1, 1}
                                   /\ SignOf(n - m) = 0 - SignOf(m - n)
                                   /\ SignOf(m - n) <= 0 <=> m < n
    BY DEF SignOf
  <2> QED BY <1>3, <2>3, <2>4, <2>6, <2>7
<1> QED BY <1>2, <1>3

\* The order of patch levels is transitive.
LEMMA PatchTransitive ==
  ASSUME NEW a \in ByteString, NEW b \in ByteString, NEW c \in ByteString,
         NotAfter(a, b), NotAfter(b, c)
  PROVE  NotAfter(a, c)
<1> SUFFICES ASSUME NEW i, FirstAt(a, c, i) PROVE Rank(a, i) < Rank(c, i)
  BY DEF NotAfter
<1>1. i \in Nat \ {0} /\ CharAt(a, i) # CharAt(c, i) /\ \A k \in 1..(i - 1) : CharAt(a, k) = CharAt(c, k)
  BY DEF FirstAt
<1>2. \A k \in 1..(i - 1) : CharAt(a, k) = CharAt(b, k)
  <2> SUFFICES ASSUME ~\A k \in 1..(i - 1) : CharAt(a, k) = CharAt(b, k) PROVE FALSE
    OBVIOUS
  <2>1. ~Same(a, b)
    BY <1>1 DEF Same
  <2>2. PICK j : FirstAt(a, b, j)
    BY <2>1, DifferSomewhere
  <2>3. j \in Nat \ {0} /\ CharAt(a, j) # CharAt(b, j) /\ \A k \in 1..(j - 1) : CharAt(a, k) = CharAt(b, k)
    BY <2>2 DEF FirstAt
  <2>4. j \in 1..(i - 1)
    BY <1>1, <2>3
  <2>5. FirstAt(b, c, j)
    <3>1. \A k \in 1..j : CharAt(a, k) = CharAt(c, k)
      BY <1>1, <2>3, <2>4
    <3> QED BY <2>3, <3>1 DEF FirstAt
  <2>6. Rank(a, j) < Rank(b, j) /\ Rank(b, j) < Rank(c, j)
    BY <2>2, <2>5 DEF NotAfter
  <2>7. Rank(a, j) = Rank(c, j)
    <3>1. CharAt(a, j) = CharAt(c, j) /\ \A k \in 1..(j - 1) : CharAt(a, k) = CharAt(c, k)
      BY <1>1, <2>3, <2>4
    <3> QED BY <2>3, <3>1, RankIs
  <2>8. Rank(a, j) \in Int /\ Rank(b, j) \in Int
    BY <2>3, RankIs
  <2> QED BY <2>6, <2>7, <2>8
<1>3. \A k \in 1..(i - 1) : CharAt(b, k) = CharAt(c, k)
  BY <1>1, <1>2
<1>4. Rank(a, i) \in Int /\ Rank(b, i) \in Int /\ Rank(c, i) \in Int
  BY <1>1, RankIs
<1>5. CASE CharAt(a, i) = CharAt(b, i)
  <2>1. Rank(a, i) = Rank(b, i)
    BY <1>1, <1>2, <1>5, RankIs
  <2>2. FirstAt(b, c, i)
    BY <1>1, <1>3, <1>5 DEF FirstAt
  <2> QED BY <2>1, <2>2 DEF NotAfter
<1>6. CASE CharAt(a, i) # CharAt(b, i)
  <2>1. FirstAt(a, b, i)
    BY <1>1, <1>2, <1>6 DEF FirstAt
  <2>2. Rank(a, i) < Rank(b, i)
    BY <2>1 DEF NotAfter
  <2>3. CASE CharAt(b, i) = CharAt(c, i)
    <3>1. Rank(b, i) = Rank(c, i)
      BY <1>1, <1>3, <2>3, RankIs
    <3> QED BY <2>2, <3>1
  <2>4. CASE CharAt(b, i) # CharAt(c, i)
    <3>1. FirstAt(b, c, i)
      BY <1>1, <1>3, <2>4 DEF FirstAt
    <3>2. Rank(b, i) < Rank(c, i)
      BY <3>1 DEF NotAfter
    <3> QED BY <1>4, <2>2, <3>2
  <2> QED BY <2>3, <2>4
<1> QED BY <1>5, <1>6

\* A valid version, parsed.
Valued(v) ==
  v.ok = TRUE /\ v.nums[1] \in Int /\ v.nums[2] \in Int /\ v.nums[3] \in Int /\ v.patch \in AsciiString

LEMMA ValidIs ==
  ASSUME NEW s \in ByteString, NEW level \in Int, ValidVersion(s, level)
  PROVE  Valued(parse_version_string(s, PlainLevel(level) % 10))
<1> DEFINE lv == PlainLevel(level) % 10
           v == parse_version_string(s, lv)
<1>1. lv \in Int
  BY DEF PlainLevel
<1>2. v.ok /\ \A i \in 1..Len(s) : s[i] < 128
  BY DEF ValidVersion
<1> HIDE DEF lv
<1>3. VersionOf(v, s)
  BY <1>1, <1>2, StringIs
<1>4. v.ok = TRUE
  BY <1>1, <1>2 DEF parse_version_string, FromMajor, FromMinor, FromMicro, NoVersion, Parsed, ParsedAll
<1> HIDE DEF v
<1>5. PICK j \in 1..(Len(s) + 2) : v.patch = SubSeq(s, j, Len(s))
  BY <1>3 DEF VersionOf
<1> DEFINE e == SubSeq(s, j, Len(s))
<1>6. Len(s) \in Nat
  BY CharsAre
<1>7. e \in ByteString
  BY EndIs
<1>8. \A k \in 1..Len(e) : e[k] = s[j + k - 1] /\ j + k - 1 \in 1..Len(s)
  <2>1. Len(e) = IF j <= Len(s) THEN Len(s) - j + 1 ELSE 0
    BY <1>6
  <2>2. \A k \in 1..Len(e) : e[k] = s[j + k - 1]
    BY <1>6, <2>1
  <2>3. \A k \in 1..Len(e) : j + k - 1 \in 1..Len(s)
    BY <1>6, <2>1
  <2> QED BY <2>2, <2>3
<1> HIDE DEF e
<1>9. e \in AsciiString
  BY <1>2, <1>7, <1>8 DEF AsciiString
<1> QED BY <1>3, <1>4, <1>5, <1>9 DEF Valued, VersionOf, e, v, lv

\* The numbers are compared one after the other.
LEMMA NumsIs ==
  ASSUME NEW a, NEW b
  PROVE  CompareNums(a, b) = IF a[1] # b[1] THEN SignOf(a[1] - b[1])
                             ELSE IF a[2] # b[2] THEN SignOf(a[2] - b[2])
                             ELSE IF a[3] # b[3] THEN SignOf(a[3] - b[3]) ELSE 0
<1> DEFINE D == {i \in 1..3 : a[i] # b[i]}
           m == CHOOSE i \in D : \A j \in D : i <= j
<1>1. CompareNums(a, b) = IF D = {} THEN 0 ELSE SignOf(a[m] - b[m])
  BY DEF CompareNums
<1>2. ASSUME NEW i \in D, \A j \in D : i <= j PROVE m = i
  <2>1. m \in D /\ \A j \in D : m <= j
    BY <1>2
  <2>2. m \in 1..3 /\ i \in 1..3
    BY <1>2, <2>1
  <2> HIDE DEF m, D
  <2> QED BY <1>2, <2>1, <2>2
<1>3. CASE a[1] # b[1]
  <2>1. 1 \in D /\ \A j \in D : 1 <= j
    BY <1>3
  <2> HIDE DEF m, D
  <2> QED BY <1>1, <1>2, <1>3, <2>1
<1>4. CASE a[1] = b[1] /\ a[2] # b[2]
  <2>1. 2 \in D /\ \A j \in D : 2 <= j
    BY <1>4
  <2> HIDE DEF m, D
  <2> QED BY <1>1, <1>2, <1>4, <2>1
<1>5. CASE a[1] = b[1] /\ a[2] = b[2] /\ a[3] # b[3]
  <2>1. 3 \in D /\ \A j \in D : 3 <= j
    BY <1>5
  <2> HIDE DEF m, D
  <2> QED BY <1>1, <1>2, <1>5, <2>1
<1>6. CASE a[1] = b[1] /\ a[2] = b[2] /\ a[3] = b[3]
  <2>1. D = {}
    BY <1>6
  <2> HIDE DEF m, D
  <2> QED BY <1>1, <1>6, <2>1
<1> QED BY <1>3, <1>4, <1>5, <1>6

NumsUpTo(a, b) == a[1] < b[1] \/ (a[1] = b[1] /\ (a[2] < b[2] \/ (a[2] = b[2] /\ a[3] <= b[3])))

LEMMA NumsLex ==
  ASSUME NEW a, NEW b, \A k \in 1..3 : a[k] \in Int /\ b[k] \in Int
  PROVE  /\ CompareNums(a, b) \in {-1, 0, 1}
         /\ CompareNums(a, b) <= 0 <=> NumsUpTo(a, b)
         /\ CompareNums(a, b) = 0 <=> \A k \in 1..3 : a[k] = b[k]
<1> DEFINE n == CompareNums(a, b)
<1>1. n = IF a[1] # b[1] THEN SignOf(a[1] - b[1])
          ELSE IF a[2] # b[2] THEN SignOf(a[2] - b[2])
          ELSE IF a[3] # b[3] THEN SignOf(a[3] - b[3]) ELSE 0
  BY NumsIs
<1>2. /\ a[1] \in Int /\ a[2] \in Int /\ a[3] \in Int
      /\ b[1] \in Int /\ b[2] \in Int /\ b[3] \in Int
  OBVIOUS
<1>3. (\A k \in 1..3 : a[k] = b[k]) <=> a[1] = b[1] /\ a[2] = b[2] /\ a[3] = b[3]
  OBVIOUS
<1> HIDE DEF n
<1>4. CASE a[1] # b[1]
  BY <1>1, <1>2, <1>3, <1>4 DEF SignOf, NumsUpTo, n
<1>5. CASE a[1] = b[1] /\ a[2] # b[2]
  BY <1>1, <1>2, <1>3, <1>5 DEF SignOf, NumsUpTo, n
<1>6. CASE a[1] = b[1] /\ a[2] = b[2]
  BY <1>1, <1>2, <1>3, <1>6 DEF SignOf, NumsUpTo, n
<1> QED BY <1>4, <1>5, <1>6

\* The comparison of two valid versions at a level that is not reversed.
Compared(va, vb, ignore) ==
  LET n == CompareNums(va.nums, vb.nums) IN IF ignore \/ n # 0 THEN n ELSE ComparePatch(va.patch, vb.patch)

LEMMA ComparedOrder ==
  ASSUME NEW va, NEW vb, Valued(va), Valued(vb), NEW ignore \in BOOLEAN
  PROVE  /\ Compared(va, vb, ignore) \in {-1, 0, 1}
         /\ Compared(vb, va, ignore) = 0 - Compared(va, vb, ignore)
<1> DEFINE m == CompareNums(va.nums, vb.nums)
           n == CompareNums(vb.nums, va.nums)
           p == ComparePatch(va.patch, vb.patch)
           q == ComparePatch(vb.patch, va.patch)
<1>1. Compared(va, vb, ignore) = (IF ignore \/ m # 0 THEN m ELSE p)
  BY DEF Compared
<1>2. Compared(vb, va, ignore) = (IF ignore \/ n # 0 THEN n ELSE q)
  BY DEF Compared
<1>3. p \in {-1, 0, 1} /\ q = 0 - p
  BY PatchOrder DEF Valued
<1>4. \A x, y \in Int : SignOf(x - y) \in {-1, 0, 1} /\ SignOf(y - x) = 0 - SignOf(x - y)
  BY DEF SignOf
<1>5. m \in {-1, 0, 1} /\ n = 0 - m
  BY <1>4, NumsIs DEF Valued
<1> HIDE DEF m, n, p, q
<1> QED BY <1>1, <1>2, <1>3, <1>5

LEMMA ComparedTransitive ==
  ASSUME NEW va, NEW vb, NEW vc, Valued(va), Valued(vb), Valued(vc), NEW ignore \in BOOLEAN,
         Compared(va, vb, ignore) <= 0, Compared(vb, vc, ignore) <= 0
  PROVE  Compared(va, vc, ignore) <= 0
<1> DEFINE m == CompareNums(va.nums, vb.nums)
           n == CompareNums(vb.nums, vc.nums)
           o == CompareNums(va.nums, vc.nums)
           p == ComparePatch(va.patch, vb.patch)
           q == ComparePatch(vb.patch, vc.patch)
           r == ComparePatch(va.patch, vc.patch)
<1>1. /\ Compared(va, vb, ignore) = (IF ignore \/ m # 0 THEN m ELSE p)
      /\ Compared(vb, vc, ignore) = (IF ignore \/ n # 0 THEN n ELSE q)
      /\ Compared(va, vc, ignore) = (IF ignore \/ o # 0 THEN o ELSE r)
  BY DEF Compared
<1>2. p \in {-1, 0, 1} /\ q \in {-1, 0, 1} /\ r \in {-1, 0, 1} /\ (p <= 0 /\ q <= 0 => r <= 0)
  <2>1. va.patch \in AsciiString /\ vb.patch \in AsciiString /\ vc.patch \in AsciiString
    BY DEF Valued
  <2>2. va.patch \in ByteString /\ vb.patch \in ByteString /\ vc.patch \in ByteString
    BY <2>1 DEF AsciiString
  <2>3. p \in {-1, 0, 1} /\ q \in {-1, 0, 1} /\ r \in {-1, 0, 1}
    BY <2>1, PatchOrder
  <2>4. ASSUME p <= 0, q <= 0 PROVE r <= 0
    <3>1. NotAfter(va.patch, vb.patch) /\ NotAfter(vb.patch, vc.patch)
      BY <2>1, <2>4, PatchOrder
    <3> QED BY <2>1, <2>2, <3>1, PatchTransitive, PatchOrder
  <2> QED BY <2>3, <2>4
<1>3. /\ m \in {-1, 0, 1} /\ n \in {-1, 0, 1} /\ o \in {-1, 0, 1}
      /\ m <= 0 /\ n <= 0 => o <= 0
      /\ m <= 0 /\ n <= 0 /\ o = 0 => m = 0 /\ n = 0
      /\ m = 0 /\ n = 0 => o = 0
  <2>1. ASSUME NEW v, NEW w, Valued(v), Valued(w)
        PROVE  /\ CompareNums(v.nums, w.nums) \in {-1, 0, 1}
               /\ CompareNums(v.nums, w.nums) <= 0 <=> NumsUpTo(v.nums, w.nums)
               /\ CompareNums(v.nums, w.nums) = 0 <=> \A k \in 1..3 : v.nums[k] = w.nums[k]
    BY <2>1, NumsLex DEF Valued
  <2>2. NumsUpTo(va.nums, vb.nums) /\ NumsUpTo(vb.nums, vc.nums) => NumsUpTo(va.nums, vc.nums)
    BY DEF Valued, NumsUpTo
  <2>3. NumsUpTo(va.nums, vb.nums) /\ NumsUpTo(vb.nums, vc.nums) /\ (\A k \in 1..3 : va.nums[k] = vc.nums[k])
          => \A k \in 1..3 : va.nums[k] = vb.nums[k] /\ vb.nums[k] = vc.nums[k]
    BY DEF Valued, NumsUpTo
  <2>4. (\A k \in 1..3 : va.nums[k] = vb.nums[k]) /\ (\A k \in 1..3 : vb.nums[k] = vc.nums[k])
          => \A k \in 1..3 : va.nums[k] = vc.nums[k]
    OBVIOUS
  <2> QED BY <2>1, <2>2, <2>3, <2>4
<1> HIDE DEF m, n, o, p, q, r
<1> QED BY <1>1, <1>2, <1>3

\* cmp_version of valid versions.
LEMMA CmpIs ==
  ASSUME NEW a \in ByteString, NEW b \in ByteString, NEW level \in Int,
         ValidVersion(a, level), ValidVersion(b, level)
  PROVE  cmp_version(a, b, level) =
           SignOf(level) * Compared(parse_version_string(a, PlainLevel(level) % 10),
                                    parse_version_string(b, PlainLevel(level) % 10), PlainLevel(level) > 9)
<1> DEFINE va == parse_version_string(a, PlainLevel(level) % 10)
           vb == parse_version_string(b, PlainLevel(level) % 10)
           n == CompareNums(va.nums, vb.nums)
           ignore == PlainLevel(level) > 9
<1>1. va.ok /\ vb.ok
  BY DEF ValidVersion
<1>2. cmp_version(a, b, level) = CompareParsed(va, vb, n, SignOf(level), ignore)
  BY DEF cmp_version, do_cmp_version, CompareWhole
<1>3. Compared(va, vb, ignore) = IF ignore \/ n # 0 THEN n ELSE ComparePatch(va.patch, vb.patch)
  BY DEF Compared
<1> HIDE DEF va, vb, n, ignore
<1>4. SignOf(level) \in {-1, 0, 1}
  BY DEF SignOf
<1>5. CompareParsed(va, vb, n, SignOf(level), ignore) = SignOf(level) * Compared(va, vb, ignore)
  <2>1. CASE n # 0
    <3>1. CompareParsed(va, vb, n, SignOf(level), ignore) = SignOf(level) * n
      BY <1>1, <2>1 DEF CompareParsed
    <3> QED BY <1>3, <2>1, <3>1
  <2>2. CASE n = 0 /\ ignore
    <3>1. CompareParsed(va, vb, n, SignOf(level), ignore) = 0
      BY <1>1, <2>2 DEF CompareParsed
    <3>2. Compared(va, vb, ignore) = 0
      BY <1>3, <2>2
    <3> QED BY <1>4, <3>1, <3>2
  <2>3. CASE n = 0 /\ ~ignore
    <3>1. CompareParsed(va, vb, n, SignOf(level), ignore) = SignOf(level) * ComparePatch(va.patch, vb.patch)
      BY <1>1, <2>3 DEF CompareParsed
    <3> QED BY <1>3, <2>3, <3>1
  <2> QED BY <2>1, <2>2, <2>3
<1> QED BY <1>2, <1>5 DEF va, vb, ignore

\* The level of the other direction.
LEMMA LevelIs ==
  ASSUME NEW level \in Int, level # 0
  PROVE  /\ PlainLevel(0 - level) = PlainLevel(level) /\ SignOf(0 - level) = 0 - SignOf(level)
         /\ SignOf(level) \in {-1, 1}
  BY DEF PlainLevel, SignOf

VInv == compared.level # 0 => compared.a \in Versions /\ compared.b \in Versions /\ compared.level \in Levels

LEMMA VInvIs == VInv => VersionsOrdered
<1> SUFFICES ASSUME VInv, compared.level # 0,
                    ValidVersion(compared.a, compared.level), ValidVersion(compared.b, compared.level)
             PROVE  LET l == compared.level a == compared.a b == compared.b
                    IN \E ab \in {cmp_version(a, b, l)} :
                         /\ \A k \in {<<b, a, l>>, <<a, b, 0 - l>>} : cmp_version(k[1], k[2], k[3]) = 0 - ab
                         /\ ab <= 0 => \A c \in {v \in Versions : ValidVersion(v, l)} :
                              cmp_version(b, c, l) <= 0 => cmp_version(a, c, l) <= 0
  BY DEF VersionsOrdered
<1> DEFINE l == compared.level
           a == compared.a
           b == compared.b
           V(s) == parse_version_string(s, PlainLevel(l) % 10)
           ignore == PlainLevel(l) > 9
           C(s, t) == Compared(V(s), V(t), ignore)
<1>1. l \in Int /\ l # 0 /\ a \in Versions /\ b \in Versions /\ ValidVersion(a, l) /\ ValidVersion(b, l)
  <2>1. \A x \in Levels : x \in Int
    BY VersionAssumption, SMTT(60)
  <2> QED BY <2>1 DEF VInv
<1> HIDE DEF l, a, b
<1>2. \A s \in Versions : s \in ByteString
  BY VersionAssumption DEF ByteString, VersionChar
<1>3. SignOf(l) \in {-1, 1} /\ PlainLevel(0 - l) = PlainLevel(l) /\ SignOf(0 - l) = 0 - SignOf(l)
  BY <1>1, LevelIs
<1>4. ignore \in BOOLEAN
  OBVIOUS
<1>5. ASSUME NEW s \in Versions, ValidVersion(s, l) PROVE Valued(V(s))
  BY <1>1, <1>2, <1>5, ValidIs
<1>6. ASSUME NEW s \in Versions, NEW t \in Versions, ValidVersion(s, l), ValidVersion(t, l)
      PROVE  cmp_version(s, t, l) = SignOf(l) * C(s, t)
  BY <1>1, <1>2, <1>6, CmpIs
<1>7. cmp_version(a, b, 0 - l) = SignOf(0 - l) * C(a, b)
  <2>1. ValidVersion(a, 0 - l) /\ ValidVersion(b, 0 - l)
    BY <1>1, <1>3 DEF ValidVersion
  <2>2. 0 - l \in Int
    BY <1>1
  <2>3. cmp_version(a, b, 0 - l) = SignOf(0 - l) * Compared(parse_version_string(a, PlainLevel(0 - l) % 10),
                                     parse_version_string(b, PlainLevel(0 - l) % 10), PlainLevel(0 - l) > 9)
    BY <1>1, <1>2, <2>1, <2>2, CmpIs
  <2> QED BY <1>3, <2>3
<1> HIDE DEF V, ignore
<1>8. ASSUME NEW s \in Versions, NEW t \in Versions, ValidVersion(s, l), ValidVersion(t, l)
      PROVE  C(s, t) \in {-1, 0, 1} /\ C(t, s) = 0 - C(s, t)
  BY <1>4, <1>5, <1>8, ComparedOrder
<1>9. ASSUME NEW s \in Versions, NEW t \in Versions, NEW u \in Versions,
             ValidVersion(s, l), ValidVersion(t, l), ValidVersion(u, l), C(s, t) <= 0, C(t, u) <= 0
      PROVE  C(s, u) <= 0
  BY <1>4, <1>5, <1>9, ComparedTransitive
<1> HIDE DEF C
<1>10. cmp_version(b, a, l) = 0 - cmp_version(a, b, l) /\ cmp_version(a, b, 0 - l) = 0 - cmp_version(a, b, l)
  <2>1. cmp_version(a, b, l) = SignOf(l) * C(a, b) /\ cmp_version(b, a, l) = SignOf(l) * C(b, a)
    BY <1>1, <1>6
  <2>2. C(a, b) \in {-1, 0, 1} /\ C(b, a) = 0 - C(a, b)
    BY <1>1, <1>8
  <2>3. \A x \in {-1, 1}, y \in {-1, 0, 1} : x * (0 - y) = 0 - (x * y) /\ (0 - x) * y = 0 - (x * y)
    OBVIOUS
  <2> QED BY <1>3, <1>7, <2>1, <2>2, <2>3
<1>11. ASSUME cmp_version(a, b, l) <= 0, NEW c \in Versions, ValidVersion(c, l), cmp_version(b, c, l) <= 0
       PROVE  cmp_version(a, c, l) <= 0
  <2>1. /\ cmp_version(a, b, l) = SignOf(l) * C(a, b)
        /\ cmp_version(b, c, l) = SignOf(l) * C(b, c)
        /\ cmp_version(a, c, l) = SignOf(l) * C(a, c)
    BY <1>1, <1>6, <1>11
  <2>2. /\ C(a, b) \in {-1, 0, 1} /\ C(b, a) = 0 - C(a, b)
        /\ C(b, c) \in {-1, 0, 1} /\ C(c, b) = 0 - C(b, c)
        /\ C(a, c) \in {-1, 0, 1} /\ C(c, a) = 0 - C(a, c)
    BY <1>1, <1>8, <1>11
  <2>3. CASE SignOf(l) = 1
    <3>1. C(a, b) <= 0 /\ C(b, c) <= 0
      BY <1>11, <2>1, <2>2, <2>3
    <3>2. C(a, c) <= 0
      BY <1>1, <1>9, <1>11, <3>1
    <3> QED BY <2>1, <2>2, <2>3, <3>2
  <2>4. CASE SignOf(l) = -1
    <3>1. C(c, b) <= 0 /\ C(b, a) <= 0
      BY <1>11, <2>1, <2>2, <2>4
    <3>2. C(c, a) <= 0
      BY <1>1, <1>9, <1>11, <3>1
    <3> QED BY <2>1, <2>2, <2>4, <3>2
  <2> QED BY <1>3, <2>3, <2>4
<1> QED BY <1>10, <1>11 DEF l, a, b

\* For all strings without a 0, valid ones of ASCII characters are ordered by cmp_version of src/version.c.
THEOREM VersionsAreOrdered == VersionSpec => []VersionsOrdered
<1>1. VersionInit => VInv
  BY DEF VersionInit, VInv
<1>2. VInv /\ [VersionNext]_compared => VInv'
  BY DEF VInv, VersionNext
<1> QED BY <1>1, <1>2, VInvIs, PTL DEF VersionSpec

-----------------------------------------------------------------------------
(***************************************************************************)
(* String lists.                                                            *)
(***************************************************************************)
\* A memory of items, as the functions of the model make one.
IsMem(m) ==
  /\ m = [next |-> m.next, d |-> m.d, alive |-> m.alive]
  /\ m.next \in [Item -> Item \cup {NoItem}] /\ m.alive \subseteq Item

\* The list of head is the items of path, one after the other, all of them allocated.
IsPath(m, head, path) ==
  /\ path \in Seq(Item)
  /\ head = IF path = <<>> THEN NoItem ELSE path[1]
  /\ \A k \in 1..Len(path) : path[k] \in m.alive /\ m.next[path[k]] = IF k < Len(path) THEN path[k + 1] ELSE NoItem
  /\ \A j, k \in 1..Len(path) : path[j] = path[k] => j = k

\* What Items computes, below its recursive function.
ItemsStep(m, head, I, k) ==
  IF k = 0 THEN IF head = NoItem THEN <<>> ELSE <<head>>
  ELSE IF I[k - 1] = <<>> \/ m.next[Last(I[k - 1])] = NoItem THEN I[k - 1]
       ELSE Append(I[k - 1], m.next[Last(I[k - 1])])
ItemsFun(m, head) == CHOOSE I : I = [k \in 0..Cardinality(Item) |-> ItemsStep(m, head, I, k)]

LEMMA ItemsAre == ASSUME NEW m, NEW head PROVE Items(m, head) = ItemsFun(m, head)[Cardinality(Item)]
  BY DEF Items, ItemsFun, ItemsStep

\* No list has more items than there are.
LEMMA PathIsShort ==
  ASSUME NEW m, NEW head, NEW path, IsPath(m, head, path), IsMem(m)
  PROVE  /\ Len(path) \in Nat /\ Len(path) <= Cardinality(Item) /\ Cardinality(Item) \in Nat
         /\ Cardinality({path[k] : k \in DOMAIN path}) = Len(path)
<1> DEFINE S == {path[k] : k \in DOMAIN path}
<1>1. Len(path) \in Nat /\ DOMAIN path = 1..Len(path) /\ \A k \in 1..Len(path) : path[k] \in Item
  BY DEF IsPath
<1>2. IsFiniteSet(S) /\ Cardinality(S) = Len(path)
  <2> DEFINE f == [k \in 1..Len(path) |-> path[k]]
  <2>1. f \in Bijection(1..Len(path), S)
    <3>1. f \in [1..Len(path) -> S]
      BY <1>1
    <3>2. \A j, k \in 1..Len(path) : f[j] = f[k] => j = k
      BY DEF IsPath
    <3>3. \A t \in S : \E k \in 1..Len(path) : f[k] = t
      BY <1>1
    <3>4. DOMAIN f = 1..Len(path)
      OBVIOUS
    <3> HIDE DEF f, S
    <3> QED BY <3>1, <3>2, <3>3, <3>4 DEF Bijection, Injection, Surjection, IsInjective
  <2>2. IsFiniteSet(1..Len(path)) /\ Cardinality(1..Len(path)) = Len(path)
    BY <1>1, FS_Interval, SMTT(60)
  <2> HIDE DEF f, S
  <2> QED BY <2>1, <2>2, FS_Bijection DEF ExistsBijection
<1>3. S \subseteq Item
  BY <1>1
<1> HIDE DEF S
<1>4. Cardinality(S) <= Cardinality(Item) /\ Cardinality(Item) \in Nat
  BY <1>2, <1>3, StrListAssumption, FS_Subset, FS_CardinalityType
<1> QED BY <1>1, <1>2, <1>4 DEF S

\* The items of a list.
LEMMA ItemsIs ==
  ASSUME NEW m, NEW head, NEW path, IsPath(m, head, path), IsMem(m)
  PROVE  Items(m, head) = path
<1> DEFINE N == Cardinality(Item)
           L == Len(path)
           Pre(k) == SubSeq(path, 1, IF k < L THEN k + 1 ELSE L)
           I == ItemsFun(m, head)
<1>1. L \in Nat /\ N \in Nat /\ L <= N
  BY PathIsShort
<1>2. path \in Seq(Item) /\ \A k \in 1..L : path[k] # NoItem
  BY StrListAssumption DEF IsPath
<1> HIDE DEF N, L
<1>3. Pre(0) = IF head = NoItem THEN <<>> ELSE <<head>>
  <2>1. CASE L = 0
    BY <1>1, <1>2, <2>1 DEF IsPath, L
  <2>2. CASE L # 0
    <3>1. SubSeq(path, 1, 1) = <<path[1]>>
      <4> DEFINE s == SubSeq(path, 1, 1)
      <4>1. s \in Seq(Item) /\ Len(s) = 1 /\ s[1] = path[1]
        BY <1>1, <1>2, <2>2 DEF L
      <4>2. \A t \in Seq(Item) : Len(t) = 1 => t = <<t[1]>>
        OBVIOUS
      <4> HIDE DEF s
      <4>3. s = <<path[1]>>
        BY <4>1, <4>2
      <4> QED BY <4>3 DEF s
    <3>2. Pre(0) = SubSeq(path, 1, 1)
      BY <1>1, <2>2
    <3>3. head = path[1] /\ path[1] # NoItem
      BY <1>1, <1>2, <2>2 DEF IsPath, L
    <3> HIDE DEF Pre
    <3> QED BY <3>1, <3>2, <3>3
  <2> QED BY <2>1, <2>2
<1>4. ASSUME NEW k \in Nat, k > 0
      PROVE  Pre(k) = IF Pre(k - 1) = <<>> \/ m.next[Last(Pre(k - 1))] = NoItem THEN Pre(k - 1)
                      ELSE Append(Pre(k - 1), m.next[Last(Pre(k - 1))])
  <2>1. CASE L = 0
    BY <1>1, <1>2, <2>1 DEF L
  <2>2. CASE L > 0 /\ k < L
    <3>1. Pre(k - 1) = SubSeq(path, 1, k) /\ Pre(k) = SubSeq(path, 1, k + 1)
      BY <1>1, <1>4, <2>2
    <3>2. Len(SubSeq(path, 1, k)) = k /\ SubSeq(path, 1, k)[k] = path[k]
      BY <1>1, <1>2, <1>4, <2>2 DEF L
    <3>3. Last(SubSeq(path, 1, k)) = path[k] /\ SubSeq(path, 1, k) # <<>>
      <4> DEFINE s == SubSeq(path, 1, k)
      <4>1. Last(s) = s[Len(s)]
        BY DEF Last
      <4>2. Len(s) = k /\ s[k] = path[k]
        BY <3>2
      <4> HIDE DEF s
      <4>3. Last(s) = path[k]
        BY <4>1, <4>2
      <4>4. s # <<>>
        BY <1>4, <4>2
      <4> QED BY <4>3, <4>4 DEF s
    <3>4. m.next[path[k]] = path[k + 1] /\ path[k + 1] # NoItem
      BY <1>1, <1>2, <1>4, <2>2 DEF IsPath, L
    <3>5. SubSeq(path, 1, k + 1) = Append(SubSeq(path, 1, k), path[k + 1])
      BY <1>1, <1>2, <1>4, <2>2 DEF L
    <3> HIDE DEF Pre
    <3> QED BY <3>1, <3>3, <3>4, <3>5
  <2>3. CASE L > 0 /\ ~(k < L)
    <3>1. Pre(k - 1) = SubSeq(path, 1, L) /\ Pre(k) = SubSeq(path, 1, L)
      BY <1>1, <1>4, <2>3
    <3>2. Len(SubSeq(path, 1, L)) = L /\ SubSeq(path, 1, L)[L] = path[L]
      BY <1>1, <1>2, <2>3 DEF L
    <3>3. Last(SubSeq(path, 1, L)) = path[L]
      BY <1>1, <2>3, <3>2 DEF Last
    <3>4. m.next[path[L]] = NoItem
      BY <1>1, <1>2, <2>3 DEF IsPath, L
    <3> HIDE DEF Pre
    <3> QED BY <3>1, <3>3, <3>4
  <2> HIDE DEF Pre
  <2> QED BY <1>1, <2>1, <2>2, <2>3
<1>5. I = [k \in 0..N |-> ItemsStep(m, head, I, k)]
  <2> DEFINE W == [k \in 0..N |-> Pre(k)]
  <2>1. \A k \in 0..N : W[k] = Pre(k)
    OBVIOUS
  <2> HIDE DEF W, Pre
  <2>2. ASSUME NEW k \in 0..N PROVE W[k] = ItemsStep(m, head, W, k)
    <3>1. CASE k = 0
      BY <1>1, <1>3, <2>1, <3>1 DEF ItemsStep
    <3>2. CASE k # 0
      <4>1. k \in Nat /\ k > 0 /\ k - 1 \in 0..N
        BY <1>1, <3>2
      <4>2. W[k - 1] = Pre(k - 1) /\ W[k] = Pre(k)
        BY <2>1, <4>1
      <4> QED BY <1>4, <3>2, <4>1, <4>2 DEF ItemsStep
    <3> QED BY <3>1, <3>2
  <2>3. W = [k \in 0..N |-> W[k]]
    BY DEF W
  <2>4. W = [k \in 0..N |-> ItemsStep(m, head, W, k)]
    BY <2>2, <2>3
  <2> QED BY <2>4 DEF ItemsFun, N
<1> HIDE DEF I
<1> DEFINE T == {k \in Nat : k <= N => I[k] = Pre(k)}
<1>6. 0 \in T
  <2>1. I[0] = ItemsStep(m, head, I, 0)
    BY <1>1, <1>5
  <2> HIDE DEF Pre
  <2> QED BY <1>3, <2>1 DEF ItemsStep
<1>7. ASSUME NEW k \in Nat, k \in T PROVE k + 1 \in T
  <2> SUFFICES ASSUME k + 1 <= N PROVE I[k + 1] = Pre(k + 1)
    OBVIOUS
  <2>1. I[k] = Pre(k)
    BY <1>1, <1>7
  <2>2. I[k + 1] = ItemsStep(m, head, I, k + 1)
    BY <1>1, <1>5
  <2>3. (k + 1) - 1 = k /\ k + 1 # 0 /\ k + 1 > 0 /\ k + 1 \in Nat
    OBVIOUS
  <2> HIDE DEF Pre
  <2>4. Pre(k + 1) = IF Pre(k) = <<>> \/ m.next[Last(Pre(k))] = NoItem THEN Pre(k)
                     ELSE Append(Pre(k), m.next[Last(Pre(k))])
    BY <1>4, <2>3
  <2> QED BY <2>1, <2>2, <2>3, <2>4 DEF ItemsStep
<1> HIDE DEF T
<1>8. N \in T
  BY <1>1, <1>6, <1>7, Induction
<1>9. Pre(N) = path
  BY <1>1, <1>2 DEF L
<1> HIDE DEF Pre
<1> QED BY <1>1, <1>8, <1>9, ItemsAre DEF T, I, N

\* How much can still be allocated.
Left(m) == Cardinality(Item \ m.alive)
\* A memory in which the items that were allocated before are as they were.
Grown(m, old) == IsMem(m) /\ old.alive \subseteq m.alive /\ \A i \in old.alive : m.next[i] = old.next[i]

LEMMA LeftIs ==
  ASSUME NEW m, IsMem(m)
  PROVE  /\ IsFiniteSet(Item \ m.alive) /\ Left(m) \in Nat
         /\ Left(m) > 0 => \E x \in Item : x \notin m.alive
         /\ \A x \in Item \ m.alive : Cardinality(Item \ (m.alive \cup {x})) = Left(m) - 1
<1>1. IsFiniteSet(Item \ m.alive)
  BY StrListAssumption, FS_Subset
<1>2. Left(m) \in Nat
  BY <1>1, FS_CardinalityType DEF Left
<1>3. Left(m) > 0 => \E x \in Item : x \notin m.alive
  <2> SUFFICES ASSUME ~\E x \in Item : x \notin m.alive PROVE Left(m) = 0
    BY <1>2
  <2>1. Item \ m.alive = {}
    OBVIOUS
  <2> QED BY <2>1, FS_EmptySet DEF Left
<1>4. ASSUME NEW x \in Item \ m.alive PROVE Cardinality(Item \ (m.alive \cup {x})) = Left(m) - 1
  <2>1. Item \ (m.alive \cup {x}) = (Item \ m.alive) \ {x}
    OBVIOUS
  <2> QED BY <1>1, <2>1, FS_RemoveElement DEF Left
<1> QED BY <1>1, <1>2, <1>3, <1>4

\* What malloc gives for an item.
LEMMA AllocateIs ==
  ASSUME NEW m, NEW s, NEW n \in Item \cup {NoItem}, IsMem(m), Left(m) > 0
  PROVE  LET new == Allocate(m, s, n) IN
         /\ new.item \in Item \ m.alive /\ Grown(new.m, m)
         /\ new.m.alive = m.alive \cup {new.item} /\ new.m.next[new.item] = n
         /\ Left(new.m) = Left(m) - 1
<1> DEFINE x == CHOOSE i \in Item : i \notin m.alive
           mm == [next |-> [m.next EXCEPT ![x] = n], d |-> [m.d EXCEPT ![x] = s], alive |-> m.alive \cup {x}]
<1>1. x \in Item \ m.alive
  BY LeftIs
<1>2. Allocate(m, s, n) = [m |-> mm, item |-> x]
  BY DEF Allocate
<1> HIDE DEF x
<1>3. IsMem(mm)
  BY <1>1 DEF IsMem
<1>4. mm.alive = m.alive \cup {x} /\ mm.next[x] = n /\ \A i \in Item : i # x => mm.next[i] = m.next[i]
  BY <1>1 DEF IsMem
<1> HIDE DEF mm
<1>5. Left(mm) = Left(m) - 1
  BY <1>1, <1>4, LeftIs DEF Left
<1>6. Grown(mm, m)
  BY <1>1, <1>3, <1>4 DEF Grown, IsMem
<1> QED BY <1>1, <1>2, <1>4, <1>5, <1>6

\* A list whose items are not touched.
LEMMA PathStays ==
  ASSUME NEW m, NEW head, NEW path, IsPath(m, head, path), NEW mm,
         \A k \in 1..Len(path) : path[k] \in mm.alive /\ mm.next[path[k]] = m.next[path[k]]
  PROVE  IsPath(mm, head, path)
  BY DEF IsPath

\* Changing the link of one item, or what is allocated.
LEMMA LinkIs ==
  ASSUME NEW m, IsMem(m), NEW i \in Item, NEW n \in Item \cup {NoItem}
  PROVE  LET mm == [m EXCEPT !.next[i] = n] IN
         /\ IsMem(mm) /\ mm.alive = m.alive /\ mm.next[i] = n
         /\ \A j \in Item : j # i => mm.next[j] = m.next[j]
<1> DEFINE r == [next |-> m.next, d |-> m.d, alive |-> m.alive]
           mm == [r EXCEPT !.next[i] = n]
<1>1. m = r
  BY DEF IsMem
<1>2. mm = [next |-> [m.next EXCEPT ![i] = n], d |-> m.d, alive |-> m.alive]
  OBVIOUS
<1>3. mm.next = [m.next EXCEPT ![i] = n] /\ mm.alive = m.alive /\ mm.d = m.d
  BY <1>2
<1> HIDE DEF mm
<1>4. IsMem(mm)
  BY <1>2, <1>3 DEF IsMem
<1>5. mm.next[i] = n /\ \A j \in Item : j # i => mm.next[j] = m.next[j]
  BY <1>3 DEF IsMem
<1>6. mm = [m EXCEPT !.next[i] = n]
  BY <1>1 DEF mm
<1> QED BY <1>3, <1>4, <1>5, <1>6

LEMMA AliveIs ==
  ASSUME NEW m, IsMem(m), NEW S
  PROVE  LET mm == [m EXCEPT !.alive = @ \ S] IN IsMem(mm) /\ mm.alive = m.alive \ S /\ mm.next = m.next
<1> DEFINE r == [next |-> m.next, d |-> m.d, alive |-> m.alive]
           mm == [r EXCEPT !.alive = @ \ S]
<1>1. m = r
  BY DEF IsMem
<1>2. mm = [next |-> m.next, d |-> m.d, alive |-> m.alive \ S]
  OBVIOUS
<1>3. mm.next = m.next /\ mm.alive = m.alive \ S /\ mm.d = m.d
  BY <1>2
<1> HIDE DEF mm
<1>4. IsMem(mm)
  BY <1>2, <1>3 DEF IsMem
<1>6. mm = [m EXCEPT !.alive = @ \ S]
  BY <1>1 DEF mm
<1> QED BY <1>3, <1>4, <1>6

Ran(path) == {path[k] : k \in 1..Len(path)}

LEMMA ToItemsIs ==
  ASSUME NEW m, NEW head, NEW path, IsPath(m, head, path), IsMem(m) PROVE ToItems(m, head) = Ran(path)
<1>1. Items(m, head) = path
  BY ItemsIs
<1>2. DOMAIN path = 1..Len(path)
  BY DEF IsPath
<1> QED BY <1>1, <1>2 DEF ToItems, Ran

LEMMA FreeIs ==
  ASSUME NEW m, NEW head, NEW path, IsPath(m, head, path), IsMem(m)
  PROVE  LET mm == strlist_free(m, head) IN
         IsMem(mm) /\ mm.alive = m.alive \ Ran(path) /\ mm.next = m.next
<1>1. strlist_free(m, head) = [m EXCEPT !.alive = @ \ Ran(path)]
  BY ToItemsIs DEF strlist_free
<1> QED BY <1>1, AliveIs

LEMMA LastIs ==
  ASSUME NEW m, NEW head, NEW path, IsPath(m, head, path), IsMem(m), path # <<>>
  PROVE  /\ Len(path) \in Nat /\ Len(path) > 0 /\ path[Len(path)] \in Item /\ head \in Item /\ head # NoItem
         /\ strlist_last(m, head) = path[Len(path)]
         /\ strlist_prev(m, head, path[Len(path)]) = IF Len(path) = 1 THEN NoItem ELSE path[Len(path) - 1]
<1> DEFINE L == Len(path)
<1>1. path \in Seq(Item) /\ DOMAIN path = 1..L /\ L \in Nat /\ L > 0
  BY DEF IsPath
<1>2. path[L] \in Item /\ head = path[1] /\ head \in Item /\ head # NoItem
  BY <1>1, StrListAssumption DEF IsPath
<1>3. Items(m, head) = path
  BY ItemsIs
<1>4. strlist_last(m, head) = path[L]
  BY <1>2, <1>3 DEF strlist_last, Last
<1> DEFINE before == {k \in DOMAIN path : \A j \in 1..k : path[j] # path[L]}
<1>5. before = 1..L - 1
  <2>1. \A k \in 1..L - 1 : k \in before
    BY <1>1 DEF IsPath
  <2>2. \A k \in before : k \in 1..L - 1
    BY <1>1
  <2> QED BY <2>1, <2>2
<1>6. strlist_prev(m, head, path[L]) = IF before = {} THEN NoItem ELSE path[Max(before)]
  BY <1>3 DEF strlist_prev
<1> HIDE DEF L, before
<1>7. CASE L = 1
  BY <1>5, <1>6, <1>7, <1>1, <1>2, <1>4 DEF L
<1>8. CASE L # 1
  <2>1. L - 1 \in before /\ \A k \in before : L - 1 >= k
    BY <1>1, <1>5, <1>8
  <2>2. before \subseteq Int
    BY <1>5
  <2>3. Max(before) = L - 1
    <3>1. Max(before) \in before /\ \A k \in before : Max(before) >= k
      BY <2>1 DEF Max
    <3>2. Max(before) >= L - 1 /\ L - 1 >= Max(before)
      BY <2>1, <3>1
    <3>3. Max(before) \in Int
      BY <2>2, <3>1
    <3> QED BY <1>1, <3>2, <3>3
  <2> QED BY <1>1, <1>2, <1>4, <1>6, <1>8, <2>1, <2>3 DEF L
<1> QED BY <1>7, <1>8

\* A path with one more item at its end.
LEMMA LongerPath ==
  ASSUME NEW m, NEW head, NEW path, IsPath(m, head, path), NEW x \in Item, x \notin Ran(path), NEW mm,
         x \in mm.alive, mm.next[x] = NoItem, \A k \in 1..Len(path) : path[k] \in mm.alive,
         path # <<>> => mm.next[path[Len(path)]] = x,
         \A k \in 1..Len(path) : k # Len(path) => mm.next[path[k]] = m.next[path[k]]
  PROVE  IsPath(mm, IF path = <<>> THEN x ELSE head, Append(path, x))
<1> DEFINE q == Append(path, x)
           L == Len(path)
<1>1. path \in Seq(Item) /\ L \in Nat
  BY DEF IsPath
<1>2. q \in Seq(Item) /\ Len(q) = L + 1 /\ q[L + 1] = x /\ \A k \in 1..L : q[k] = path[k]
  BY <1>1
<1>3. (path = <<>>) <=> L = 0
  BY <1>1
<1> HIDE DEF q, L
<1>4. \A k \in 1..(L + 1) : k \in 1..L \/ k = L + 1
  BY <1>1
<1>5. ASSUME NEW k \in 1..(L + 1)
      PROVE  q[k] \in mm.alive /\ mm.next[q[k]] = IF k < L + 1 THEN q[k + 1] ELSE NoItem
  <2>1. CASE k = L + 1
    BY <1>1, <1>2, <2>1
  <2>2. CASE k \in 1..L /\ k # L
    <3>1. k < L /\ k < L + 1 /\ k + 1 \in 1..L
      BY <1>1, <2>2
    <3>2. q[k] = path[k] /\ q[k + 1] = path[k + 1]
      BY <1>2, <2>2, <3>1
    <3> QED BY <2>2, <3>1, <3>2 DEF IsPath, L
  <2>3. CASE k \in 1..L /\ k = L
    <3>1. k < L + 1 /\ q[k + 1] = x /\ q[k] = path[k] /\ path # <<>>
      BY <1>1, <1>2, <1>3, <2>3
    <3> QED BY <2>3, <3>1 DEF L
  <2> QED BY <1>4, <2>1, <2>2, <2>3
<1>6. ASSUME NEW j \in 1..(L + 1), NEW k \in 1..(L + 1), q[j] = q[k] PROVE j = k
  <2>1. \A n \in 1..L : q[n] # x
    BY <1>2 DEF Ran, L
  <2>2. \A a, b \in 1..L : q[a] = q[b] => a = b
    BY <1>2 DEF IsPath, L
  <2> QED BY <1>2, <1>4, <1>6, <2>1, <2>2
<1>7. (IF path = <<>> THEN x ELSE head) = IF q = <<>> THEN NoItem ELSE q[1]
  <2>1. q # <<>>
    BY <1>1, <1>2
  <2>2. CASE L = 0
    BY <1>2, <1>3, <2>1, <2>2
  <2>3. CASE L # 0
    <3>1. 1 \in 1..L
      BY <1>1, <2>3
    <3> QED BY <1>2, <1>3, <2>1, <2>3, <3>1 DEF IsPath
  <2> QED BY <2>2, <2>3
<1> QED BY <1>2, <1>5, <1>6, <1>7 DEF IsPath, q

\* An item appended to a list: the path is longer by it.
LEMMA AppendIs ==
  ASSUME NEW m, NEW head, NEW path, IsPath(m, head, path), IsMem(m), Left(m) > 0, NEW s,
         NEW r, r = do_strlist_append([m |-> m, head |-> head], s)
  PROVE  \E x \in Item \ m.alive :
           /\ IsMem(r.m) /\ IsPath(r.m, r.head, Append(path, x))
           /\ r.m.alive = m.alive \cup {x} /\ Left(r.m) = Left(m) - 1
           /\ \A i \in m.alive \ Ran(path) : r.m.next[i] = m.next[i]
<1> DEFINE new == Allocate(m, s, NoItem)
           x == new.item
           L == Len(path)
<1>1. /\ x \in Item \ m.alive /\ IsMem(new.m) /\ new.m.alive = m.alive \cup {x} /\ new.m.next[x] = NoItem
      /\ Left(new.m) = Left(m) - 1 /\ \A i \in m.alive : new.m.next[i] = m.next[i]
  BY AllocateIs DEF Grown
<1>2. x \notin Ran(path) /\ \A k \in 1..L : path[k] \in m.alive /\ path[k] \in Item
  BY <1>1 DEF IsPath, Ran
<1>3. r = IF head = NoItem THEN [m |-> new.m, head |-> x]
          ELSE [m |-> [new.m EXCEPT !.next[strlist_last(m, head)] = x], head |-> head]
  BY DEF do_strlist_append
<1> HIDE DEF new, x
<1>4. CASE path = <<>>
  <2>1. head = NoItem
    BY <1>4 DEF IsPath
  <2>2. r.m = new.m /\ r.head = x
    BY <1>3, <2>1
  <2>3. L = 0
    BY <1>4
  <2>4. IsPath(new.m, IF path = <<>> THEN x ELSE head, Append(path, x))
    BY <1>1, <1>2, <1>4, <2>3, LongerPath, ZenonT(60)
  <2> QED BY <1>1, <1>4, <2>2, <2>4
<1>5. CASE path # <<>>
  <2> DEFINE mm == [new.m EXCEPT !.next[path[L]] = x]
  <2>1. L \in Nat /\ L > 0 /\ path[L] \in Item /\ head # NoItem /\ strlist_last(m, head) = path[L]
    BY <1>5, LastIs
  <2>2. r.m = mm /\ r.head = head
    BY <1>3, <2>1
  <2>3. /\ IsMem(mm) /\ mm.alive = new.m.alive /\ mm.next[path[L]] = x
        /\ \A j \in Item : j # path[L] => mm.next[j] = new.m.next[j]
    BY <1>1, <2>1, LinkIs
  <2> HIDE DEF mm
  <2>4. L \in 1..L /\ path[L] # x
    BY <1>2, <2>1 DEF Ran
  <2>5. \A k \in 1..L : k # L => mm.next[path[k]] = m.next[path[k]]
    BY <1>1, <1>2, <2>3, <2>4 DEF IsPath
  <2>6. x \in mm.alive /\ mm.next[x] = NoItem /\ \A k \in 1..L : path[k] \in mm.alive
    BY <1>1, <1>2, <2>3, <2>4
  <2>7. IsPath(mm, IF path = <<>> THEN x ELSE head, Append(path, x))
    BY <1>1, <1>2, <2>3, <2>5, <2>6, LongerPath
  <2>8. \A i \in m.alive \ Ran(path) : mm.next[i] = m.next[i]
    <3> SUFFICES ASSUME NEW i \in m.alive \ Ran(path) PROVE mm.next[i] = m.next[i]
      OBVIOUS
    <3>1. i # path[L]
      BY <2>4 DEF Ran
    <3>2. i \in Item
      BY DEF IsMem
    <3> QED BY <1>1, <2>3, <3>1, <3>2
  <2>9. Left(mm) = Left(new.m)
    BY <2>3 DEF Left
  <2> QED BY <1>1, <1>5, <2>2, <2>3, <2>7, <2>8, <2>9
<1> QED BY <1>4, <1>5

\* The last item taken away: the path is shorter by it.
LEMMA RemoveIs ==
  ASSUME NEW m, NEW head, NEW path, IsPath(m, head, path), IsMem(m), path # <<>>
  PROVE  LET r == RemoveLast([m |-> m, head |-> head])
             q == SubSeq(path, 1, Len(path) - 1) IN
         /\ IsMem(r.m) /\ IsPath(r.m, r.head, q) /\ \A k \in 1..Len(q) : q[k] \in Ran(path)
         /\ r.m.alive = m.alive \ {path[Len(path)]}
         /\ \A i \in m.alive \ Ran(path) : r.m.next[i] = m.next[i]
<1> DEFINE L == Len(path)
           last == path[L]
           r == RemoveLast([m |-> m, head |-> head])
           q == SubSeq(path, 1, L - 1)
           prev == strlist_prev(m, head, strlist_last(m, head))
<1>1. /\ L \in Nat /\ L > 0 /\ last \in Item /\ strlist_last(m, head) = last
      /\ prev = IF L = 1 THEN NoItem ELSE path[L - 1]
  BY LastIs
<1>2. path \in Seq(Item) /\ \A k \in 1..L : path[k] \in Item
  BY DEF IsPath
<1>3. r = IF prev = NoItem THEN [m |-> strlist_free(m, head), head |-> NoItem]
          ELSE [m |-> [strlist_free(m, last) EXCEPT !.next[prev] = NoItem], head |-> head]
  BY <1>1 DEF RemoveLast
<1> HIDE DEF r, prev, L
<1>4. CASE L = 1
  <2>1. r.m = strlist_free(m, head) /\ r.head = NoItem
    BY <1>1, <1>3, <1>4
  <2>2. IsMem(r.m) /\ r.m.alive = m.alive \ Ran(path) /\ r.m.next = m.next
    BY <2>1, FreeIs
  <2>3. Ran(path) = {last}
    BY <1>4 DEF Ran, L
  <2>4. q = <<>>
    BY <1>2, <1>4
  <2> HIDE DEF q
  <2>5. IsPath(r.m, r.head, q)
    BY <2>1, <2>4 DEF IsPath
  <2>6. \A k \in 1..Len(q) : q[k] \in Ran(path)
    BY <2>4
  <2> QED BY <2>2, <2>3, <2>5, <2>6 DEF r, L, q
<1>5. CASE L # 1
  <2>1. L - 1 \in 1..L /\ L \in 1..L /\ L - 1 # L
    BY <1>1, <1>5
  <2>2. prev = path[L - 1] /\ prev \in Item /\ prev # NoItem /\ prev # last
    BY <1>1, <1>2, <1>5, <2>1, StrListAssumption DEF IsPath, L
  <2>3. IsPath(m, last, <<last>>)
    <3>1. m.next[last] = NoItem /\ last \in m.alive
      BY <2>1 DEF IsPath, L
    <3> QED BY <1>1, <3>1 DEF IsPath
  <2> DEFINE mf == strlist_free(m, last)
             mm == [mf EXCEPT !.next[prev] = NoItem]
  <2>4. IsMem(mf) /\ mf.alive = m.alive \ {last} /\ mf.next = m.next
    <3>1. Ran(<<last>>) = {last}
      BY DEF Ran
    <3> QED BY <2>3, <3>1, FreeIs
  <2> HIDE DEF mf
  <2>5. /\ IsMem(mm) /\ mm.alive = mf.alive /\ mm.next[prev] = NoItem
        /\ \A j \in Item : j # prev => mm.next[j] = mf.next[j]
    <3>1. NoItem \in Item \cup {NoItem}
      OBVIOUS
    <3>2. prev \in Item /\ IsMem(mf)
      BY <2>2, <2>4
    <3> HIDE DEF mm
    <3>3. ASSUME NEW n \in Item \cup {NoItem}, n = NoItem
          PROVE  /\ IsMem([mf EXCEPT !.next[prev] = n]) /\ [mf EXCEPT !.next[prev] = n].alive = mf.alive
                 /\ [mf EXCEPT !.next[prev] = n].next[prev] = n
                 /\ \A j \in Item : j # prev => [mf EXCEPT !.next[prev] = n].next[j] = mf.next[j]
      BY <3>2, LinkIs
    <3> QED BY <3>1, <3>3 DEF mm
  <2>6. r.m = mm /\ r.head = head
    BY <1>3, <2>2 DEF mf
  <2> HIDE DEF mm
  <2>7. q \in Seq(Item) /\ Len(q) = L - 1 /\ \A k \in 1..L - 1 : q[k] = path[k] /\ k \in 1..L
    <3>1. L - 1 \in Nat /\ L - 1 <= Len(path)
      BY <1>1 DEF L
    <3>2. \A k \in 1..L - 1 : k \in 1..L
      BY <1>1
    <3>3. \A n \in Nat : n <= Len(path) => /\ SubSeq(path, 1, n) \in Seq(Item) /\ Len(SubSeq(path, 1, n)) = n
                                         /\ \A k \in 1..n : SubSeq(path, 1, n)[k] = path[k]
      BY <1>2
    <3> QED BY <3>1, <3>2, <3>3
  <2> HIDE DEF q
  <2>8. \A k \in 1..L - 1 : q[k] \in mm.alive
    BY <1>1, <2>1, <2>4, <2>5, <2>7 DEF IsPath, L
  <2>9. ASSUME NEW k \in 1..L - 1 PROVE mm.next[q[k]] = IF k < L - 1 THEN q[k + 1] ELSE NoItem
    <3>1. CASE k = L - 1
      BY <2>2, <2>5, <2>7, <3>1
    <3>2. CASE k # L - 1
      <4>1. k < L - 1 /\ k + 1 \in 1..L - 1 /\ k \in 1..L /\ k < L
        BY <1>1, <3>2
      <4>2. q[k] = path[k] /\ q[k + 1] = path[k + 1] /\ path[k] # prev
        BY <2>1, <2>2, <2>7, <3>2, <4>1 DEF IsPath, L
      <4>3. m.next[path[k]] = path[k + 1] /\ path[k] \in Item
        BY <1>2, <4>1 DEF IsPath, L
      <4> QED BY <2>4, <2>5, <4>1, <4>2, <4>3
    <3> QED BY <3>1, <3>2
  <2>10. \A j, k \in 1..L - 1 : q[j] = q[k] => j = k
    BY <2>7 DEF IsPath, L
  <2>11. head = IF q = <<>> THEN NoItem ELSE q[1]
    <3>1. 1 \in 1..L - 1 /\ q # <<>>
      BY <1>1, <1>5, <2>7
    <3>2. path # <<>> /\ head = path[1]
      BY DEF IsPath
    <3> QED BY <2>7, <3>1, <3>2
  <2>12. IsPath(mm, head, q)
    BY <2>7, <2>8, <2>9, <2>10, <2>11 DEF IsPath
  <2>13. \A k \in 1..Len(q) : q[k] \in Ran(path)
    BY <2>7 DEF Ran, L
  <2>14. \A i \in m.alive \ Ran(path) : mm.next[i] = m.next[i]
    <3> SUFFICES ASSUME NEW i \in m.alive \ Ran(path) PROVE mm.next[i] = m.next[i]
      OBVIOUS
    <3>1. i # prev /\ i \in Item
      BY <2>1, <2>2 DEF Ran, IsMem, L
    <3> QED BY <2>4, <2>5, <3>1
  <2> QED BY <2>4, <2>5, <2>6, <2>12, <2>13, <2>14 DEF r, q, L
<1> QED BY <1>4, <1>5

\* A list built beside the memory that was there before, with room for n items more.
Built(l, old, path, n) ==
  /\ IsPath(l.m, l.head, path) /\ Grown(l.m, old) /\ Left(l.m) >= n
  /\ \A k \in 1..Len(path) : path[k] \notin old.alive
  /\ l = [m |-> l.m, head |-> l.head]

LEMMA TokenIs ==
  ASSUME NEW l, NEW old, NEW path, NEW n \in Nat, Built(l, old, path, n + 1), NEW t
  PROVE  \E q : Built(Token(l, t), old, q, n)
<1> DEFINE a == do_strlist_append(l, t)
<1>1. IsMem(l.m) /\ IsPath(l.m, l.head, path) /\ Left(l.m) \in Nat /\ Left(l.m) > 0 /\ Left(l.m) >= n + 1
  <2>1. IsMem(l.m) /\ IsPath(l.m, l.head, path) /\ Left(l.m) >= n + 1
    BY DEF Built, Grown
  <2>2. Left(l.m) \in Nat
    BY <2>1, LeftIs
  <2> QED BY <2>1, <2>2
<1>2. l = [m |-> l.m, head |-> l.head]
  BY DEF Built
<1>3. PICK x \in Item \ l.m.alive :
           /\ IsMem(a.m) /\ IsPath(a.m, a.head, Append(path, x))
           /\ a.m.alive = l.m.alive \cup {x} /\ Left(a.m) = Left(l.m) - 1
           /\ \A i \in l.m.alive \ Ran(path) : a.m.next[i] = l.m.next[i]
  <2>1. a = do_strlist_append([m |-> l.m, head |-> l.head], t)
    BY <1>2
  <2> HIDE DEF a
  <2> QED BY <1>1, <2>1, AppendIs
<1> DEFINE p == Append(path, x)
<1>4. path \in Seq(Item) /\ Len(path) \in Nat
  BY DEF Built, IsPath
<1>5. Len(p) = Len(path) + 1 /\ p[Len(path) + 1] = x /\ (\A k \in 1..Len(path) : p[k] = path[k]) /\ p # <<>>
  BY <1>4
<1>6. a = [m |-> a.m, head |-> a.head]
  BY <1>2 DEF do_strlist_append
<1> HIDE DEF a, p
<1>7. old.alive \subseteq l.m.alive /\ (\A i \in old.alive : l.m.next[i] = old.next[i])
      /\ \A i \in old.alive : i \notin Ran(path) /\ i # x
  BY <1>3 DEF Built, Grown, Ran
<1>8. \A k \in 1..Len(p) : p[k] \notin old.alive
  <2> SUFFICES ASSUME NEW k \in 1..Len(p) PROVE p[k] \notin old.alive
    OBVIOUS
  <2>1. k \in 1..Len(path) \/ k = Len(path) + 1
    BY <1>4, <1>5
  <2> QED BY <1>3, <1>5, <1>7, <2>1 DEF Ran
<1>9. Built(a, old, p, n)
  <2>1. Grown(a.m, old)
    BY <1>3, <1>7 DEF Grown
  <2>2. Left(a.m) >= n
    BY <1>1, <1>3
  <2> QED BY <1>3, <1>6, <1>8, <2>1, <2>2 DEF Built, p
<1>10. CASE t = Empty
  <2>1. Token(l, t) = l
    BY <1>10 DEF Token, BlankToken, Empty
  <2>2. Built(l, old, path, n)
    BY <1>1 DEF Built
  <2> QED BY <2>1, <2>2
<1>11. CASE t # Empty /\ t # BlankToken
  <2>1. Token(l, t) = a
    BY <1>11 DEF Token, a
  <2> QED BY <1>9, <2>1
<1>12. CASE t = BlankToken
  <2> DEFINE r == RemoveLast(a)
             q == SubSeq(p, 1, Len(p) - 1)
  <2>1. Token(l, t) = r
    BY <1>12 DEF Token, a, BlankToken, Empty
  <2>2. IsPath(a.m, a.head, p) /\ IsMem(a.m)
    BY <1>3 DEF p
  <2>3. /\ IsMem(r.m) /\ IsPath(r.m, r.head, q) /\ \A k \in 1..Len(q) : q[k] \in Ran(p)
        /\ r.m.alive = a.m.alive \ {p[Len(p)]}
        /\ \A i \in a.m.alive \ Ran(p) : r.m.next[i] = a.m.next[i]
    BY <1>5, <1>6, <2>2, RemoveIs
  <2>4. r = [m |-> r.m, head |-> r.head]
    BY DEF RemoveLast
  <2> HIDE DEF r, q
  <2>5. r.m.alive = l.m.alive
    BY <1>3, <1>5, <2>3
  <2>6. \A i \in old.alive : i \notin Ran(p)
    BY <1>8 DEF Ran
  <2>7. Grown(r.m, old)
    <3> SUFFICES ASSUME NEW i \in old.alive PROVE r.m.next[i] = old.next[i]
      BY <1>7, <2>3, <2>5 DEF Grown
    <3>1. i \in a.m.alive \ Ran(p) /\ i \in l.m.alive \ Ran(path)
      BY <1>3, <1>7, <2>6
    <3> QED BY <1>3, <1>7, <2>3, <3>1
  <2>8. Left(r.m) >= n
    BY <1>1, <2>5 DEF Left
  <2>9. \A k \in 1..Len(q) : q[k] \notin old.alive
    BY <2>3, <2>6
  <2> QED BY <2>1, <2>3, <2>4, <2>7, <2>8, <2>9 DEF Built
<1> QED BY <1>10, <1>11, <1>12

\* The fold over the tokens is a recursive function over sets of indices.
TokenStep(g, base, text, s) == IF s = {} THEN base ELSE Token(g[s \ {Top(s)}], text[Top(s)])
Tokens(base, text, D) == CHOOSE g : g = [s \in SUBSET D |-> TokenStep(g, base, text, s)]

LEMMA FoldIsTokens ==
  ASSUME NEW base, NEW text PROVE FoldLeft(Token, base, text) = Tokens(base, text, DOMAIN text)[DOMAIN text]
  BY DEF FoldLeft, MapThenFoldSet, Tokens, TokenStep, Top, Max

LEMMA TokensExist ==
  ASSUME NEW base, NEW text, NEW N \in Nat
  PROVE  \E g : g = [s \in SUBSET (1..N) |-> TokenStep(g, base, text, s)]
<1> DEFINE T == {n \in Nat : \E g : g = [s \in SUBSET (1..n) |-> TokenStep(g, base, text, s)]}
<1>1. 0 \in T
  <2> DEFINE g == [s \in SUBSET (1..0) |-> base]
  <2>1. \A s \in SUBSET (1..0) : s = {}
    OBVIOUS
  <2>2. \A s \in SUBSET (1..0) : TokenStep(g, base, text, s) = base
    BY <2>1 DEF TokenStep
  <2>3. g = [s \in SUBSET (1..0) |-> TokenStep(g, base, text, s)]
    BY <2>2
  <2> HIDE DEF g
  <2> QED BY <2>3
<1>2. ASSUME NEW n \in Nat, n \in T PROVE n + 1 \in T
  <2>1. PICK g : g = [s \in SUBSET (1..n) |-> TokenStep(g, base, text, s)]
    BY <1>2
  <2> DEFINE h == [s \in SUBSET (1..n + 1) |-> IF n + 1 \in s THEN Token(g[s \ {n + 1}], text[n + 1]) ELSE g[s]]
  <2>2. ASSUME NEW s \in SUBSET (1..n + 1) PROVE h[s] = TokenStep(h, base, text, s)
    <3>1. CASE n + 1 \in s
      <4>1. Top(s) = n + 1 /\ s # {}
        BY <3>1, TopIs
      <4>2. s \ {n + 1} \in SUBSET (1..n + 1) /\ n + 1 \notin s \ {n + 1}
        OBVIOUS
      <4>3. h[s \ {n + 1}] = g[s \ {n + 1}]
        BY <4>2
      <4>4. h[s] = Token(g[s \ {n + 1}], text[n + 1])
        BY <3>1
      <4> HIDE DEF h
      <4> QED BY <4>1, <4>3, <4>4 DEF TokenStep
    <3>2. CASE n + 1 \notin s
      <4>1. s \in SUBSET (1..n)
        BY <3>2
      <4>2. s \ {Top(s)} \in SUBSET (1..n + 1) /\ n + 1 \notin s \ {Top(s)}
        BY <3>2
      <4>3. h[s \ {Top(s)}] = g[s \ {Top(s)}]
        BY <4>2
      <4>4. h[s] = g[s]
        BY <3>2
      <4>5. g[s] = TokenStep(g, base, text, s)
        BY <2>1, <4>1
      <4> HIDE DEF h
      <4> QED BY <4>3, <4>4, <4>5 DEF TokenStep
    <3> QED BY <3>1, <3>2
  <2>3. h = [s \in SUBSET (1..n + 1) |-> h[s]]
    OBVIOUS
  <2> HIDE DEF h
  <2>4. h = [s \in SUBSET (1..n + 1) |-> TokenStep(h, base, text, s)]
    BY <2>2, <2>3
  <2> QED BY <2>4
<1> HIDE DEF T
<1>3. N \in T
  BY <1>1, <1>2, Induction
<1> QED BY <1>3 DEF T

\* The list of all tokens of a text.
LEMMA TokensBuilt ==
  ASSUME NEW base, NEW old, NEW N \in Nat, NEW text, DOMAIN text = 1..N, Built(base, old, <<>>, N)
  PROVE  \E path : Built(FoldLeft(Token, base, text), old, path, 0)
<1> DEFINE G == Tokens(base, text, 1..N)
<1>1. G = [s \in SUBSET (1..N) |-> TokenStep(G, base, text, s)]
  BY TokensExist DEF Tokens
<1> HIDE DEF G
<1> DEFINE T == {n \in Nat : n <= N => \E path : Built(G[1..n], old, path, N - n)}
<1>2. 0 \in T
  <2>1. 1..0 = {}
    OBVIOUS
  <2>2. G[1..0] = base
    BY <1>1, <2>1 DEF TokenStep
  <2> QED BY <2>2
<1>3. ASSUME NEW n \in Nat, n \in T PROVE n + 1 \in T
  <2> SUFFICES ASSUME n + 1 <= N PROVE \E path : Built(G[1..n + 1], old, path, N - (n + 1))
    OBVIOUS
  <2>1. PICK path : Built(G[1..n], old, path, N - n)
    BY <1>3
  <2>2. Top(1..n + 1) = n + 1
    <3>1. 1..n + 1 \in SUBSET (1..n + 1) /\ n + 1 \in 1..n + 1
      OBVIOUS
    <3> QED BY <3>1, TopIs
  <2>3. (1..n + 1) \ {n + 1} = 1..n /\ 1..n + 1 # {} /\ 1..n + 1 \in SUBSET (1..N)
    OBVIOUS
  <2>4. G[1..n + 1] = Token(G[1..n], text[n + 1])
    BY <1>1, <2>2, <2>3 DEF TokenStep
  <2>5. N - (n + 1) \in Nat /\ N - n = (N - (n + 1)) + 1
    OBVIOUS
  <2>6. Built(G[1..n], old, path, (N - (n + 1)) + 1)
    BY <2>1, <2>5
  <2> QED BY <2>4, <2>5, <2>6, TokenIs
<1> HIDE DEF T
<1>4. N \in T
  BY <1>2, <1>3, Induction
<1>5. \E path : Built(G[1..N], old, path, 0)
  BY <1>4 DEF T
<1>6. FoldLeft(Token, base, text) = G[1..N]
  BY FoldIsTokens DEF G
<1> QED BY <1>5, <1>6

\* The fold over the items to be copied is a recursive function over sets of indices.
CopiesFold(texts, base, rest) == FoldLeft(LAMBDA mm, i : Allocate(mm, texts[i], NoItem).m, base, rest)
CopyStep(g, texts, base, rest, s) == IF s = {} THEN base ELSE Allocate(g[s \ {Top(s)}], texts[rest[Top(s)]], NoItem).m
Copies(texts, base, rest, D) == CHOOSE g : g = [s \in SUBSET D |-> CopyStep(g, texts, base, rest, s)]

LEMMA FoldIsCopies ==
  ASSUME NEW base, NEW rest, NEW texts PROVE CopiesFold(texts, base, rest) = Copies(texts, base, rest, DOMAIN rest)[DOMAIN rest]
  BY DEF CopiesFold, FoldLeft, MapThenFoldSet, Copies, CopyStep, Top, Max

LEMMA CopiesExist ==
  ASSUME NEW base, NEW rest, NEW texts, NEW N \in Nat
  PROVE  \E g : g = [s \in SUBSET (1..N) |-> CopyStep(g, texts, base, rest, s)]
<1> DEFINE T == {n \in Nat : \E g : g = [s \in SUBSET (1..n) |-> CopyStep(g, texts, base, rest, s)]}
<1>1. 0 \in T
  <2> DEFINE g == [s \in SUBSET (1..0) |-> base]
  <2>1. \A s \in SUBSET (1..0) : s = {}
    OBVIOUS
  <2>2. \A s \in SUBSET (1..0) : CopyStep(g, texts, base, rest, s) = base
    BY <2>1 DEF CopyStep
  <2>3. g = [s \in SUBSET (1..0) |-> CopyStep(g, texts, base, rest, s)]
    BY <2>2
  <2> HIDE DEF g
  <2> QED BY <2>3
<1>2. ASSUME NEW n \in Nat, n \in T PROVE n + 1 \in T
  <2>1. PICK g : g = [s \in SUBSET (1..n) |-> CopyStep(g, texts, base, rest, s)]
    BY <1>2
  <2> DEFINE h == [s \in SUBSET (1..n + 1) |-> IF n + 1 \in s THEN Allocate(g[s \ {n + 1}], texts[rest[n + 1]], NoItem).m ELSE g[s]]
  <2>2. ASSUME NEW s \in SUBSET (1..n + 1) PROVE h[s] = CopyStep(h, texts, base, rest, s)
    <3>1. CASE n + 1 \in s
      <4>1. Top(s) = n + 1 /\ s # {}
        BY <3>1, TopIs
      <4>2. s \ {n + 1} \in SUBSET (1..n + 1) /\ n + 1 \notin s \ {n + 1}
        OBVIOUS
      <4>3. h[s \ {n + 1}] = g[s \ {n + 1}]
        BY <4>2
      <4>4. h[s] = Allocate(g[s \ {n + 1}], texts[rest[n + 1]], NoItem).m
        BY <3>1
      <4> HIDE DEF h
      <4> QED BY <4>1, <4>3, <4>4 DEF CopyStep
    <3>2. CASE n + 1 \notin s
      <4>1. s \in SUBSET (1..n)
        BY <3>2
      <4>2. s \ {Top(s)} \in SUBSET (1..n + 1) /\ n + 1 \notin s \ {Top(s)}
        BY <3>2
      <4>3. h[s \ {Top(s)}] = g[s \ {Top(s)}]
        BY <4>2
      <4>4. h[s] = g[s]
        BY <3>2
      <4>5. g[s] = CopyStep(g, texts, base, rest, s)
        BY <2>1, <4>1
      <4> HIDE DEF h
      <4> QED BY <4>3, <4>4, <4>5 DEF CopyStep
    <3> QED BY <3>1, <3>2
  <2>3. h = [s \in SUBSET (1..n + 1) |-> h[s]]
    OBVIOUS
  <2> HIDE DEF h
  <2>4. h = [s \in SUBSET (1..n + 1) |-> CopyStep(h, texts, base, rest, s)]
    BY <2>2, <2>3
  <2> QED BY <2>4
<1> HIDE DEF T
<1>3. N \in T
  BY <1>1, <1>2, Induction
<1> QED BY <1>3 DEF T


\* Memory after all items have been copied.
LEMMA CopiesGrow ==
  ASSUME NEW texts, NEW base, NEW N \in Nat, NEW rest, DOMAIN rest = 1..N, IsMem(base), Left(base) >= N
  PROVE  Grown(CopiesFold(texts, base, rest), base)
<1> DEFINE G == Copies(texts, base, rest, 1..N)
<1>1. G = [s \in SUBSET (1..N) |-> CopyStep(G, texts, base, rest, s)]
  BY CopiesExist DEF Copies
<1> HIDE DEF G
<1> DEFINE T == {n \in Nat : n <= N => Grown(G[1..n], base) /\ Left(G[1..n]) >= N - n}
<1>2. 0 \in T
  <2>1. 1..0 = {}
    OBVIOUS
  <2>2. G[1..0] = base
    BY <1>1, <2>1 DEF CopyStep
  <2>3. Grown(base, base)
    BY DEF Grown
  <2> QED BY <2>2, <2>3
<1>3. ASSUME NEW n \in Nat, n \in T PROVE n + 1 \in T
  <2> SUFFICES ASSUME n + 1 <= N PROVE Grown(G[1..n + 1], base) /\ Left(G[1..n + 1]) >= N - (n + 1)
    OBVIOUS
  <2> DEFINE M == G[1..n]
  <2>1. Grown(M, base) /\ Left(M) >= N - n
    BY <1>3
  <2>2. Top(1..n + 1) = n + 1
    <3>1. 1..n + 1 \in SUBSET (1..n + 1) /\ n + 1 \in 1..n + 1
      OBVIOUS
    <3> QED BY <3>1, TopIs
  <2>3. (1..n + 1) \ {n + 1} = 1..n /\ 1..n + 1 # {} /\ 1..n + 1 \in SUBSET (1..N)
    OBVIOUS
  <2>4. G[1..n + 1] = Allocate(M, texts[rest[n + 1]], NoItem).m
    BY <1>1, <2>2, <2>3 DEF CopyStep
  <2> HIDE DEF M
  <2>5. IsMem(M)
    BY <2>1 DEF Grown
  <2>6. Left(M) \in Nat
    BY <2>5, LeftIs
  <2>7. Left(M) > 0
    BY <2>1, <2>6
  <2>8. Grown(G[1..n + 1], M) /\ Left(G[1..n + 1]) = Left(M) - 1
    BY <2>4, <2>5, <2>7, AllocateIs
  <2>9. Grown(G[1..n + 1], base)
    BY <2>1, <2>8 DEF Grown
  <2> QED BY <2>1, <2>6, <2>8, <2>9
<1> HIDE DEF T
<1>4. N \in T
  BY <1>2, <1>3, Induction
<1>5. Grown(G[1..N], base)
  BY <1>4 DEF T
<1>6. CopiesFold(texts, base, rest) = G[1..N]
  BY FoldIsCopies DEF G
<1> QED BY <1>5, <1>6

\* A list hung on the end of another one.
LEMMA ConcatIs ==
  ASSUME NEW m, NEW head, NEW path, NEW more, NEW q, IsMem(m),
         IsPath(m, head, path), path # <<>>, IsPath(m, more, q), q # <<>>, Ran(path) \cap Ran(q) = {},
         NEW mm, IsMem(mm), mm.alive = m.alive, mm.next[path[Len(path)]] = more,
         \A j \in Item : j # path[Len(path)] => mm.next[j] = m.next[j]
  PROVE  /\ IsPath(mm, head, path \o q)
         /\ \A i \in m.alive \ Ran(path) : mm.next[i] = m.next[i]
<1> DEFINE L == Len(path)
           c == path \o q
<1>1. L \in Nat /\ L > 0 /\ path[L] \in Item /\ head # NoItem /\ Len(q) \in Nat /\ Len(q) > 0 /\ more \in Item
  BY LastIs
<1>3. /\ IsMem(mm) /\ mm.alive = m.alive /\ mm.next[path[L]] = more
      /\ \A j \in Item : j # path[L] => mm.next[j] = m.next[j]
  BY DEF L
<1>4. path \in Seq(Item) /\ q \in Seq(Item)
  BY DEF IsPath
<1>5. /\ c \in Seq(Item) /\ Len(c) = L + Len(q)
      /\ (\A k \in 1..L : c[k] = path[k]) /\ (\A k \in 1..Len(q) : c[L + k] = q[k])
  BY <1>4
<1> HIDE DEF c, L
<1>6. \A k \in 1..(L + Len(q)) : k \in 1..L \/ (k - L \in 1..Len(q) /\ L + (k - L) = k)
  BY <1>1
<1>7. /\ \A k \in 1..L : path[k] \in Item /\ path[k] \in m.alive /\ path[k] \in Ran(path)
      /\ \A k \in 1..Len(q) : q[k] \in Item /\ q[k] \in m.alive /\ q[k] \in Ran(q)
  BY <1>4 DEF IsPath, Ran, L
<1>8. L \in 1..L /\ 1 \in 1..L
  BY <1>1
<1>9. \A k \in 1..Len(q) : mm.next[q[k]] = IF k < Len(q) THEN q[k + 1] ELSE NoItem
  <2> SUFFICES ASSUME NEW k \in 1..Len(q) PROVE mm.next[q[k]] = IF k < Len(q) THEN q[k + 1] ELSE NoItem
    OBVIOUS
  <2>1. q[k] # path[L]
    BY <1>7, <1>8
  <2>2. mm.next[q[k]] = m.next[q[k]]
    BY <1>3, <1>7, <2>1
  <2> QED BY <2>2 DEF IsPath
<1>10. ASSUME NEW k \in 1..(L + Len(q))
       PROVE c[k] \in mm.alive /\ mm.next[c[k]] = IF k < L + Len(q) THEN c[k + 1] ELSE NoItem
  <2>1. CASE k \in 1..L /\ k # L
    <3>1. k < L /\ k + 1 \in 1..L /\ k < L + Len(q)
      BY <1>1, <2>1
    <3>2. c[k] = path[k] /\ c[k + 1] = path[k + 1]
      BY <1>5, <2>1, <3>1
    <3>3. path[k] # path[L]
      BY <1>8, <2>1 DEF IsPath, L
    <3>4. m.next[path[k]] = path[k + 1]
      BY <2>1, <3>1 DEF IsPath, L
    <3> QED BY <1>3, <1>7, <2>1, <3>1, <3>2, <3>3, <3>4
  <2>2. CASE k = L
    <3>1. k < L + Len(q) /\ 1 \in 1..Len(q) /\ c[k] = path[L] /\ c[k + 1] = q[1]
      BY <1>1, <1>5, <1>8, <2>2
    <3>2. more = q[1]
      BY DEF IsPath
    <3> QED BY <1>3, <1>7, <1>8, <3>1, <3>2
  <2>3. CASE k - L \in 1..Len(q) /\ L + (k - L) = k
    <3> DEFINE j == k - L
    <3>1. j \in 1..Len(q) /\ c[k] = q[j] /\ (k < L + Len(q) <=> j < Len(q))
      BY <1>1, <1>5, <2>3, SMTT(60)
    <3>2. ASSUME j < Len(q) PROVE c[k + 1] = q[j + 1]
      <4>1. j + 1 \in 1..Len(q) /\ L + (j + 1) = k + 1
        BY <1>1, <2>3, <3>2
      <4> QED BY <1>5, <4>1
    <3> HIDE DEF j
    <3> QED BY <1>3, <1>7, <1>9, <3>1, <3>2
  <2> QED BY <1>6, <2>1, <2>2, <2>3
<1>11. ASSUME NEW j \in 1..(L + Len(q)), NEW k \in 1..(L + Len(q)), c[j] = c[k] PROVE j = k
  <2>1. \A a, b \in 1..L : c[a] = c[b] => a = b
    BY <1>5 DEF IsPath, L
  <2>2. \A a, b \in 1..Len(q) : c[L + a] = c[L + b] => a = b
    BY <1>5 DEF IsPath
  <2>3. \A a \in 1..L, b \in 1..Len(q) : c[a] # c[L + b]
    BY <1>5, <1>7
  <2>4. CASE j \in 1..L /\ k \in 1..L
    BY <1>11, <2>1, <2>4
  <2>5. CASE j \notin 1..L /\ k \notin 1..L
    <3>1. j - L \in 1..Len(q) /\ L + (j - L) = j /\ k - L \in 1..Len(q) /\ L + (k - L) = k
      BY <1>6, <2>5
    <3>2. j - L = k - L
      BY <1>11, <2>2, <3>1
    <3> QED BY <1>1, <3>2
  <2>6. CASE ~(j \in 1..L <=> k \in 1..L)
    BY <1>6, <1>11, <2>3, <2>6
  <2> QED BY <2>4, <2>5, <2>6
<1>12. head = IF c = <<>> THEN NoItem ELSE c[1]
  <2>1. c # <<>>
    BY <1>1, <1>5
  <2> QED BY <1>5, <1>8, <2>1 DEF IsPath
<1>13. IsPath(mm, head, c)
  BY <1>5, <1>10, <1>11, <1>12 DEF IsPath
<1>14. \A i \in m.alive \ Ran(path) : mm.next[i] = m.next[i]
  <2> SUFFICES ASSUME NEW i \in m.alive \ Ran(path) PROVE mm.next[i] = m.next[i]
    OBVIOUS
  <2>1. i # path[L] /\ i \in Item
    BY <1>7, <1>8 DEF IsMem
  <2> QED BY <1>3, <2>1
<1> QED BY <1>13, <1>14 DEF c, L

\* An item put before a list.
LEMMA PrependIs ==
  ASSUME NEW m, NEW head, NEW path, IsPath(m, head, path), NEW x \in Item, x \notin Ran(path), NEW mm,
         x \in mm.alive, mm.next[x] = head,
         \A k \in 1..Len(path) : path[k] \in mm.alive /\ mm.next[path[k]] = m.next[path[k]]
  PROVE  \E q : IsPath(mm, x, q) /\ Ran(q) = Ran(path) \cup {x}
<1> DEFINE L == Len(path)
           q == [k \in 1..(L + 1) |-> IF k = 1 THEN x ELSE path[k - 1]]
<1>1. path \in Seq(Item) /\ L \in Nat /\ \A k \in 1..L : path[k] \in Item
  BY DEF IsPath
<1>2. q \in Seq(Item) /\ Len(q) = L + 1
  BY <1>1
<1>3. q[1] = x /\ \A k \in 1..L : q[k + 1] = path[k]
  BY <1>1
<1> HIDE DEF q, L
<1>4. \A k \in 1..(L + 1) : k = 1 \/ (k - 1 \in 1..L /\ (k - 1) + 1 = k)
  BY <1>1
<1>5. ASSUME NEW k \in 1..(L + 1)
      PROVE  q[k] \in mm.alive /\ mm.next[q[k]] = IF k < L + 1 THEN q[k + 1] ELSE NoItem
  <2>1. CASE k = 1
    <3>1. CASE L = 0
      <4>1. head = NoItem
        <5>1. path = <<>>
          BY <1>1, <3>1 DEF L
        <5> QED BY <5>1 DEF IsPath
      <4> QED BY <1>3, <2>1, <3>1, <4>1
    <3>2. CASE L # 0
      <4>1. 1 \in 1..L /\ k < L + 1 /\ path # <<>>
        BY <1>1, <2>1, <3>2 DEF L
      <4>2. head = path[1] /\ q[1 + 1] = path[1]
        BY <1>3, <4>1 DEF IsPath
      <4> QED BY <1>3, <2>1, <4>1, <4>2
    <3> QED BY <3>1, <3>2
  <2>2. CASE k - 1 \in 1..L /\ (k - 1) + 1 = k
    <3> DEFINE j == k - 1
    <3>1. j \in 1..L /\ q[k] = path[j] /\ (k < L + 1 <=> j < L)
      BY <1>1, <1>3, <2>2
    <3>2. ASSUME j < L PROVE q[k + 1] = path[j + 1]
      <4>1. k \in 1..L
        BY <1>1, <3>2
      <4> QED BY <1>3, <2>2, <4>1
    <3> HIDE DEF j
    <3>3. mm.next[path[j]] = IF j < L THEN path[j + 1] ELSE NoItem
      BY <3>1 DEF IsPath, L
    <3>4. path[j] \in mm.alive
      BY <3>1 DEF L
    <3> QED BY <3>1, <3>2, <3>3, <3>4
  <2> QED BY <1>4, <2>1, <2>2
<1>6. ASSUME NEW j \in 1..(L + 1), NEW k \in 1..(L + 1), q[j] = q[k] PROVE j = k
  <2>1. \A a \in 1..L : q[a + 1] # x
    BY <1>3 DEF Ran, L
  <2>2. \A a, b \in 1..L : q[a + 1] = q[b + 1] => a = b
    BY <1>3 DEF IsPath, L
  <2>3. CASE j = 1 \/ k = 1
    BY <1>3, <1>4, <1>6, <2>1, <2>3
  <2>4. CASE j # 1 /\ k # 1
    <3>1. j - 1 \in 1..L /\ (j - 1) + 1 = j /\ k - 1 \in 1..L /\ (k - 1) + 1 = k
      BY <1>4, <2>4
    <3>2. j - 1 = k - 1
      BY <1>6, <2>2, <3>1
    <3> QED BY <3>1, <3>2
  <2> QED BY <2>3, <2>4
<1>7. x = IF q = <<>> THEN NoItem ELSE q[1]
  <2>1. q # <<>>
    BY <1>1, <1>2
  <2> QED BY <1>3, <2>1
<1>8. IsPath(mm, x, q)
  BY <1>2, <1>5, <1>6, <1>7 DEF IsPath
<1>9. Ran(q) = Ran(path) \cup {x}
  <2>1. \A k \in 1..L : k + 1 \in 1..(L + 1)
    BY <1>1
  <2>2. 1 \in 1..(L + 1)
    BY <1>1
  <2>3. \A i \in Ran(path) \cup {x} : i \in Ran(q)
    BY <1>2, <1>3, <2>1, <2>2 DEF Ran, L
  <2>4. \A i \in Ran(q) : i \in Ran(path) \cup {x}
    <3> SUFFICES ASSUME NEW k \in 1..(L + 1) PROVE q[k] \in Ran(path) \cup {x}
      BY <1>2 DEF Ran
    <3>1. CASE k = 1
      BY <1>3, <3>1
    <3>2. CASE k - 1 \in 1..L /\ (k - 1) + 1 = k
      <4>1. q[k] = path[k - 1]
        BY <1>3, <3>2
      <4> QED BY <3>2, <4>1 DEF Ran, L
    <3> QED BY <1>4, <3>1, <3>2
  <2> QED BY <2>3, <2>4
<1> QED BY <1>8, <1>9

\* A list without its first item.
LEMMA TailIs ==
  ASSUME NEW m, NEW head, NEW path, IsPath(m, head, path), path # <<>>, NEW mm,
         mm.next = m.next, mm.alive = m.alive \ {head}
  PROVE  \E q : IsPath(mm, m.next[head], q) /\ Ran(q) \subseteq Ran(path)
<1> DEFINE L == Len(path)
           q == [k \in 1..(L - 1) |-> path[k + 1]]
<1>1. path \in Seq(Item) /\ L \in Nat /\ L > 0 /\ \A k \in 1..L : path[k] \in Item
  BY DEF IsPath
<1>2. q \in Seq(Item) /\ Len(q) = L - 1
  <2>1. L - 1 \in Nat /\ \A k \in 1..(L - 1) : k + 1 \in 1..L
    BY <1>1
  <2> QED BY <1>1, <2>1
<1>3. \A k \in 1..(L - 1) : q[k] = path[k + 1] /\ k + 1 \in 1..L /\ k + 1 # 1
  BY <1>1
<1> HIDE DEF q, L
<1>4. 1 \in 1..L /\ head = path[1]
  BY <1>1 DEF IsPath
<1>5. ASSUME NEW k \in 1..(L - 1)
      PROVE  q[k] \in mm.alive /\ mm.next[q[k]] = IF k < L - 1 THEN q[k + 1] ELSE NoItem
  <2>1. q[k] \in m.alive /\ q[k] # path[1] /\ m.next[q[k]] = IF k + 1 < L THEN path[k + 1 + 1] ELSE NoItem
    BY <1>3, <1>4 DEF IsPath, L
  <2>2. k < L - 1 <=> k + 1 < L
    BY <1>1
  <2>3. ASSUME k < L - 1 PROVE q[k + 1] = path[k + 1 + 1]
    <3>1. k + 1 \in 1..(L - 1)
      BY <1>1, <2>3
    <3> QED BY <1>3, <3>1
  <2> QED BY <1>4, <2>1, <2>2, <2>3
<1>6. ASSUME NEW j \in 1..(L - 1), NEW k \in 1..(L - 1), q[j] = q[k] PROVE j = k
  <2>1. j + 1 = k + 1
    BY <1>3, <1>6 DEF IsPath, L
  <2> QED BY <2>1
<1>7. m.next[head] = IF q = <<>> THEN NoItem ELSE q[1]
  <2>1. m.next[head] = IF 1 < L THEN path[1 + 1] ELSE NoItem
    BY <1>4 DEF IsPath, L
  <2>2. CASE L = 1
    <3>1. q = <<>>
      BY <1>2, <2>2
    <3> QED BY <2>1, <2>2, <3>1
  <2>3. CASE L # 1
    <3>1. 1 < L /\ 1 \in 1..(L - 1) /\ q # <<>>
      BY <1>1, <1>2, <2>3
    <3>2. q[1] = path[1 + 1]
      BY <1>3, <3>1
    <3> QED BY <2>1, <3>1, <3>2
  <2> QED BY <2>2, <2>3
<1>8. IsPath(mm, m.next[head], q)
  BY <1>2, <1>5, <1>6, <1>7 DEF IsPath
<1>9. Ran(q) \subseteq Ran(path)
  BY <1>2, <1>3 DEF Ran, L
<1> QED BY <1>8, <1>9

\* A list turned around.
LEMMA ReverseIs ==
  ASSUME NEW m, NEW head, NEW path, IsPath(m, head, path), IsMem(m)
  PROVE  LET r == Reversed(m, head) IN
         /\ IsMem(r.m) /\ r.m.alive = m.alive
         /\ \E q : IsPath(r.m, r.head, q) /\ Ran(q) = Ran(path)
         /\ \A i \in Item \ Ran(path) : r.m.next[i] = m.next[i]
<1> DEFINE L == Len(path)
           q == Reverse(path)
           At(i) == CHOOSE n \in DOMAIN q : q[n] = i
           Next(i) == IF At(i) = Len(q) THEN NoItem ELSE q[At(i) + 1]
           F == [i \in Item |-> IF i \in Ran(path) THEN Next(i) ELSE m.next[i]]
           r == Reversed(m, head)
<1>1. path \in Seq(Item) /\ L \in Nat /\ \A k \in 1..L : path[k] \in Item
  BY DEF IsPath
<1>2. q = [k \in 1..L |-> path[(L - k) + 1]]
  BY <1>1 DEF Reverse
<1>3. \A k \in 1..L : (L - k) + 1 \in 1..L /\ (L - ((L - k) + 1)) + 1 = k
  BY <1>1
<1>4. q \in Seq(Item) /\ Len(q) = L /\ DOMAIN q = 1..L
  BY <1>1, <1>2, <1>3
<1>5. \A k \in 1..L : q[k] = path[(L - k) + 1]
  BY <1>2
<1>6. r = [m |-> [m EXCEPT !.next = F], head |-> IF q = <<>> THEN NoItem ELSE q[1]]
  <2>1. Items(m, head) = path /\ ToItems(m, head) = Ran(path)
    BY ItemsIs, ToItemsIs
  <2>2. m.next \in [Item -> Item \cup {NoItem}]
    BY DEF IsMem
  <2> HIDE DEF q
  <2> QED BY <2>1 DEF Reversed, q
<1> HIDE DEF q, L
<1>7. ASSUME NEW j \in 1..L, NEW k \in 1..L, q[j] = q[k] PROVE j = k
  <2>1. (L - j) + 1 = (L - k) + 1
    BY <1>3, <1>5, <1>7, ZenonT(60) DEF IsPath, L
  <2> QED BY <1>1, <2>1
<1>8. Ran(q) = Ran(path)
  <2>1. \A i \in Ran(q) : i \in Ran(path)
    BY <1>3, <1>4, <1>5 DEF Ran, L
  <2>2. \A k \in 1..L : path[k] = q[(L - k) + 1]
    BY <1>3, <1>5
  <2>3. \A i \in Ran(path) : i \in Ran(q)
    BY <1>3, <1>4, <2>2 DEF Ran, L
  <2> QED BY <2>1, <2>3
<1>9. \A k \in 1..L : At(q[k]) = k
  <2> SUFFICES ASSUME NEW k \in 1..L PROVE At(q[k]) = k
    OBVIOUS
  <2>1. At(q[k]) \in 1..L /\ q[At(q[k])] = q[k]
    BY <1>4
  <2> HIDE DEF At
  <2> QED BY <1>7, <2>1
<1> HIDE DEF At
<1>10. \A k \in 1..L : F[q[k]] = IF k < L THEN q[k + 1] ELSE NoItem
  <2> SUFFICES ASSUME NEW k \in 1..L PROVE F[q[k]] = IF k < L THEN q[k + 1] ELSE NoItem
    OBVIOUS
  <2>1. q[k] \in Item /\ q[k] \in Ran(path)
    BY <1>1, <1>3, <1>4, <1>5, <1>8 DEF Ran
  <2>2. F[q[k]] = Next(q[k])
    BY <2>1
  <2>3. Next(q[k]) = IF k = L THEN NoItem ELSE q[k + 1]
    BY <1>4, <1>9
  <2> HIDE DEF F, Next
  <2> QED BY <1>1, <2>2, <2>3
<1>11. F \in [Item -> Item \cup {NoItem}]
  <2> SUFFICES ASSUME NEW i \in Item PROVE F[i] \in Item \cup {NoItem}
    OBVIOUS
  <2>1. CASE i \in Ran(path)
    <3>1. PICK k \in 1..L : i = q[k]
      BY <1>4, <1>8, <2>1 DEF Ran
    <3>2. F[i] = IF k < L THEN q[k + 1] ELSE NoItem
      BY <1>10, <3>1
    <3>3. k < L => k + 1 \in 1..L
      BY <1>1
    <3>4. \A n \in 1..L : q[n] \in Item
      BY <1>1, <1>3, <1>5
    <3> HIDE DEF F
    <3> QED BY <3>2, <3>3, <3>4
  <2>2. CASE i \notin Ran(path)
    BY <2>2 DEF IsMem
  <2> QED BY <2>1, <2>2
<1>12. \A i \in Item \ Ran(path) : F[i] = m.next[i]
  OBVIOUS
<1> HIDE DEF F
<1> DEFINE mm == [m EXCEPT !.next = F]
<1>13. mm = [next |-> F, d |-> m.d, alive |-> m.alive]
  <2> DEFINE s == [next |-> m.next, d |-> m.d, alive |-> m.alive]
  <2>1. [s EXCEPT !.next = F] = [next |-> F, d |-> m.d, alive |-> m.alive]
    OBVIOUS
  <2>2. m = s
    BY DEF IsMem
  <2> HIDE DEF s
  <2> QED BY <2>1, <2>2
<1>17. r.m = mm /\ r.head = IF q = <<>> THEN NoItem ELSE q[1]
  BY <1>6
<1> HIDE DEF mm, r
<1>14. IsMem(mm) /\ mm.alive = m.alive /\ mm.next = F
  BY <1>11, <1>13 DEF IsMem
<1>15. \A k \in 1..L : q[k] \in m.alive
  BY <1>3, <1>5 DEF IsPath, L
<1>16. IsPath(mm, IF q = <<>> THEN NoItem ELSE q[1], q)
  BY <1>4, <1>7, <1>10, <1>14, <1>15 DEF IsPath
<1> QED BY <1>8, <1>12, <1>14, <1>16, <1>17 DEF r

\* The lists of the program: a path of allocated items for each variable, none of two.
SlTypeOK == next \in [Item -> Item \cup {NoItem}] /\ alive \subseteq Item /\ var \in [ListVar -> Item \cup {NoItem}]
AllPaths(paths) ==
  /\ \A v \in ListVar : IsPath(Memory, var[v], paths[v])
  /\ \A v, w \in ListVar : v # w => Ran(paths[v]) \cap Ran(paths[w]) = {}
SlInv == SlTypeOK /\ \E paths \in [ListVar -> Seq(Item)] : AllPaths(paths)

LEMMA SlMem == ASSUME SlTypeOK PROVE IsMem(Memory) /\ Memory.next = next /\ Memory.alive = alive
  BY DEF SlTypeOK, IsMem, Memory

\* A call changes one list and leaves what is allocated and not in that list.
LEMMA BecomesKeeps ==
  ASSUME SlTypeOK, NEW paths \in [ListVar -> Seq(Item)], AllPaths(paths),
         NEW v \in ListVar, NEW l, NEW q, NEW strings, Becomes(l, v, strings),
         IsMem(l.m), IsPath(l.m, l.head, q),
         \A i \in alive \ Ran(paths[v]) : i \in l.m.alive /\ l.m.next[i] = next[i],
         \A i \in Ran(q) : i \in Ran(paths[v]) \/ i \notin alive
  PROVE  SlInv'
<1>1. /\ next' = [i \in Item |-> IF i \in l.m.alive THEN l.m.next[i] ELSE NoItem]
      /\ alive' = l.m.alive /\ var' = [var EXCEPT ![v] = l.head]
  BY DEF Becomes
<1>2. l.m.next \in [Item -> Item \cup {NoItem}] /\ l.m.alive \subseteq Item
  BY DEF IsMem
<1>3. l.head \in Item \cup {NoItem}
  BY DEF IsPath
<1>4. SlTypeOK'
  BY <1>1, <1>2, <1>3 DEF SlTypeOK
<1>5. Memory'.next = next' /\ Memory'.alive = alive'
  BY DEF Memory
<1>6. \A i \in l.m.alive : i \in Memory'.alive /\ Memory'.next[i] = l.m.next[i]
  BY <1>1, <1>2, <1>5
<1> DEFINE M == Memory'
<1> HIDE DEF M
<1>7. IsPath(M, l.head, q)
  <2>1. \A k \in 1..Len(q) : q[k] \in l.m.alive
    BY DEF IsPath
  <2> QED BY <1>6, <2>1, PathStays DEF M
<1>8. ASSUME NEW w \in ListVar, w # v PROVE IsPath(M, var[w], paths[w])
  <2>1. IsPath(Memory, var[w], paths[w]) /\ Memory.alive = alive /\ Memory.next = next
    BY SlMem DEF AllPaths
  <2>2. ASSUME NEW k \in 1..Len(paths[w]) PROVE paths[w][k] \in alive \ Ran(paths[v])
    <3>1. paths[w][k] \in Ran(paths[w])
      BY DEF Ran
    <3>2. paths[w][k] \in alive
      BY <2>1 DEF IsPath
    <3> QED BY <1>8, <3>1, <3>2 DEF AllPaths
  <2>3. \A k \in 1..Len(paths[w]) : paths[w][k] \in M.alive /\ M.next[paths[w][k]] = Memory.next[paths[w][k]]
    BY <1>6, <2>1, <2>2 DEF M
  <2> QED BY <2>1, <2>3, PathStays
<1> DEFINE pp == [paths EXCEPT ![v] = q]
<1>9. pp \in [ListVar -> Seq(Item)] /\ pp[v] = q /\ \A w \in ListVar : w # v => pp[w] = paths[w]
  <2>1. q \in Seq(Item)
    BY DEF IsPath
  <2> QED BY <2>1
<1>10. var'[v] = l.head /\ \A w \in ListVar : w # v => var'[w] = var[w]
  BY <1>1 DEF SlTypeOK
<1> HIDE DEF pp
<1>11. \A w \in ListVar : IsPath(M, var'[w], pp[w])
  BY <1>7, <1>8, <1>9, <1>10
<1>12. ASSUME NEW w \in ListVar, w # v PROVE Ran(q) \cap Ran(paths[w]) = {}
  <2> SUFFICES ASSUME NEW i \in Ran(q), i \in Ran(paths[w]) PROVE FALSE
    OBVIOUS
  <2>1. IsPath(Memory, var[w], paths[w]) /\ Memory.alive = alive
    BY SlMem DEF AllPaths
  <2>2. i \in alive
    BY <2>1 DEF IsPath, Ran
  <2>3. i \in Ran(paths[v])
    BY <2>2
  <2> QED BY <1>12, <2>3 DEF AllPaths
<1>13. \A u, w \in ListVar : u # w => Ran(pp[u]) \cap Ran(pp[w]) = {}
  <2> SUFFICES ASSUME NEW u \in ListVar, NEW w \in ListVar, u # w PROVE Ran(pp[u]) \cap Ran(pp[w]) = {}
    OBVIOUS
  <2>1. CASE u = v
    BY <1>9, <1>12, <2>1
  <2>2. CASE w = v
    BY <1>9, <1>12, <2>2
  <2>3. CASE u # v /\ w # v
    BY <1>9, <2>3 DEF AllPaths
  <2> QED BY <2>1, <2>2, <2>3
<1>14. AllPaths(pp)'
  BY <1>11, <1>13 DEF AllPaths, M
<1> QED BY <1>4, <1>9, <1>14 DEF SlInv

\* What a variable has, as a path.
LEMMA VarIs ==
  ASSUME SlTypeOK, NEW paths \in [ListVar -> Seq(Item)], AllPaths(paths), NEW v \in ListVar
  PROVE  /\ IsMem(Memory) /\ Memory.next = next /\ Memory.alive = alive
         /\ IsPath(Memory, var[v], paths[v])
         /\ Ran(paths[v]) \subseteq alive
         /\ var[v] = NoItem <=> paths[v] = <<>>
         /\ var[v] \in Item \cup {NoItem}
<1>1. IsMem(Memory) /\ Memory.next = next /\ Memory.alive = alive
  BY SlMem
<1>2. IsPath(Memory, var[v], paths[v])
  BY DEF AllPaths
<1>3. Ran(paths[v]) \subseteq alive
  BY <1>1, <1>2 DEF IsPath, Ran
<1>4. var[v] = NoItem <=> paths[v] = <<>>
  <2>1. CASE paths[v] = <<>>
    BY <1>2, <2>1 DEF IsPath
  <2>2. CASE paths[v] # <<>>
    BY <1>1, <1>2, <2>2, LastIs
  <2> QED BY <2>1, <2>2
<1> QED BY <1>1, <1>2, <1>3, <1>4 DEF SlTypeOK

LEMMA PrependKeeps == ASSUME SlInv, Prepend PROVE SlInv'
<1>1. PICK paths \in [ListVar -> Seq(Item)] : SlTypeOK /\ AllPaths(paths)
  BY DEF SlInv
<1>2. PICK v \in ListVar, w \in ListWord :
        /\ Room(Memory, 1)
        /\ LET new == Allocate(Memory, w, var[v])
           IN  Becomes([m |-> new.m, head |-> new.item], v, <<w>> \o holds[v])
  BY DEF Prepend
<1> DEFINE new == Allocate(Memory, w, var[v])
           l == [m |-> new.m, head |-> new.item]
<1>3. /\ IsMem(Memory) /\ Memory.next = next /\ Memory.alive = alive
      /\ IsPath(Memory, var[v], paths[v]) /\ Ran(paths[v]) \subseteq alive
      /\ var[v] \in Item \cup {NoItem}
  BY <1>1, VarIs
<1>4. Left(Memory) > 0
  <2>1. Left(Memory) \in Nat
    BY <1>3, LeftIs
  <2>2. Left(Memory) >= 1
    BY <1>2 DEF Room, Left
  <2> QED BY <2>1, <2>2
<1>5. /\ new.item \in Item \ Memory.alive /\ Grown(new.m, Memory) /\ new.m.next[new.item] = var[v]
      /\ new.m.alive = Memory.alive \cup {new.item}
  BY <1>3, <1>4, AllocateIs
<1>6. Becomes(l, v, <<w>> \o holds[v]) /\ l.m = new.m /\ l.head = new.item
  BY <1>2
<1> HIDE DEF new, l
<1>7. IsMem(l.m) /\ \A i \in alive : i \in l.m.alive /\ l.m.next[i] = next[i]
  BY <1>3, <1>5, <1>6 DEF Grown
<1>8. \A k \in 1..Len(paths[v]) : /\ paths[v][k] \in new.m.alive
                                  /\ new.m.next[paths[v][k]] = Memory.next[paths[v][k]]
  BY <1>3, <1>6, <1>7 DEF Ran
<1>9. new.item \notin Ran(paths[v]) /\ new.item \in new.m.alive
  BY <1>3, <1>5
<1>10. PICK q : IsPath(new.m, new.item, q) /\ Ran(q) = Ran(paths[v]) \cup {new.item}
  <2>1. new.item \in Item /\ new.m.next[new.item] = var[v] /\ IsPath(Memory, var[v], paths[v])
    BY <1>3, <1>5
  <2> QED BY <1>8, <1>9, <2>1, PrependIs
<1>11. \A i \in Ran(q) : i \in Ran(paths[v]) \/ i \notin alive
  BY <1>3, <1>5, <1>10
<1>12. /\ IsMem(l.m) /\ IsPath(l.m, l.head, q)
       /\ \A i \in alive \ Ran(paths[v]) : i \in l.m.alive /\ l.m.next[i] = next[i]
  BY <1>6, <1>7, <1>10
<1>13. Becomes(l, v, <<w>> \o holds[v])
  BY <1>6
<1> DEFINE strings == <<w>> \o holds[v]
<1>14. Becomes(l, v, strings)
  BY <1>13
<1> HIDE DEF strings
<1> QED BY <1>1, <1>11, <1>12, <1>14, BecomesKeeps

LEMMA AppendKeeps == ASSUME SlInv, AppendString PROVE SlInv'
<1>1. PICK paths \in [ListVar -> Seq(Item)] : SlTypeOK /\ AllPaths(paths)
  BY DEF SlInv
<1>2. PICK v \in ListVar, w \in ListWord :
        Room(Memory, 1) /\ Becomes(do_strlist_append([m |-> Memory, head |-> var[v]], w), v, Append(holds[v], w))
  BY DEF AppendString
<1> DEFINE l == do_strlist_append([m |-> Memory, head |-> var[v]], w)
<1>3. /\ IsMem(Memory) /\ Memory.next = next /\ Memory.alive = alive
      /\ IsPath(Memory, var[v], paths[v]) /\ Ran(paths[v]) \subseteq alive
  BY <1>1, VarIs
<1>4. Left(Memory) > 0
  <2>1. Left(Memory) \in Nat
    BY <1>3, LeftIs
  <2>2. Left(Memory) >= 1
    BY <1>2 DEF Room, Left
  <2> QED BY <2>1, <2>2
<1>5. PICK x \in Item \ Memory.alive :
        /\ IsMem(l.m) /\ IsPath(l.m, l.head, Append(paths[v], x))
        /\ l.m.alive = Memory.alive \cup {x} /\ Left(l.m) = Left(Memory) - 1
        /\ \A i \in Memory.alive \ Ran(paths[v]) : l.m.next[i] = Memory.next[i]
  <2>1. IsPath(Memory, var[v], paths[v]) /\ IsMem(Memory)
    BY <1>3
  <2>2. l = do_strlist_append([m |-> Memory, head |-> var[v]], w)
    OBVIOUS
  <2> HIDE DEF l
  <2> QED BY <1>4, <2>1, <2>2, AppendIs
<1> DEFINE q == Append(paths[v], x)
<1>6. \A i \in Ran(q) : i \in Ran(paths[v]) \/ i \notin alive
  <2>1. Len(q) = Len(paths[v]) + 1 /\ q[Len(paths[v]) + 1] = x /\ Len(paths[v]) \in Nat
    OBVIOUS
  <2>2. \A k \in 1..Len(paths[v]) : q[k] = paths[v][k]
    OBVIOUS
  <2> HIDE DEF q
  <2> SUFFICES ASSUME NEW k \in 1..Len(q) PROVE q[k] \in Ran(paths[v]) \/ q[k] \notin alive
    BY DEF Ran
  <2>3. k \in 1..Len(paths[v]) \/ k = Len(paths[v]) + 1
    BY <2>1
  <2> QED BY <1>3, <2>1, <2>2, <2>3 DEF Ran
<1> HIDE DEF l, q
<1>7. \A i \in alive \ Ran(paths[v]) : i \in l.m.alive /\ l.m.next[i] = next[i]
  BY <1>3, <1>5
<1>8. Becomes(l, v, Append(holds[v], w))
  BY <1>2 DEF l
<1>9. IsMem(l.m) /\ IsPath(l.m, l.head, q)
  BY <1>5 DEF q
<1> QED BY <1>1, <1>6, <1>7, <1>8, <1>9, BecomesKeeps, ZenonT(60)

\* The new list of some tokens: its items are new, and all others are as they were.
LEMMA NewListIs ==
  ASSUME IsMem(Memory), Memory.next = next, Memory.alive = alive,
         NEW N \in Nat, NEW t, DOMAIN t = 1..N, Room(Memory, N)
  PROVE  LET new == FoldLeft(Token, [m |-> Memory, head |-> NoItem], t)
         IN  \E q : /\ IsMem(new.m) /\ IsPath(new.m, new.head, q)
                    /\ \A i \in alive : i \in new.m.alive /\ new.m.next[i] = next[i]
                    /\ \A i \in Ran(q) : i \notin alive
<1> DEFINE base == [m |-> Memory, head |-> NoItem]
           new == FoldLeft(Token, base, t)
<1>6. PICK q : Built(new, Memory, q, 0)
  <2>1. Left(Memory) >= N
    BY DEF Room, Left
  <2>2. IsPath(Memory, NoItem, <<>>)
    BY DEF IsPath
  <2>3. Grown(Memory, Memory)
    BY DEF Grown
  <2>4. base.m = Memory /\ base.head = NoItem /\ base = [m |-> base.m, head |-> base.head]
    OBVIOUS
  <2> HIDE DEF base
  <2>5. Built(base, Memory, <<>>, N)
    BY <2>1, <2>2, <2>3, <2>4 DEF Built
  <2> QED BY <2>5, TokensBuilt
<1> HIDE DEF new
<1>7. /\ IsMem(new.m) /\ IsPath(new.m, new.head, q)
      /\ \A i \in alive : i \in new.m.alive /\ new.m.next[i] = next[i]
      /\ \A i \in Ran(q) : i \notin alive
  BY <1>6 DEF Built, Grown, Ran
<1> QED BY <1>7 DEF new

\* A call that fails and frees what was new leaves the lists as they were.
LEMMA FailureKeeps ==
  ASSUME SlInv, NEW v \in ListVar, NEW m, NEW head, NEW q, IsMem(m), IsPath(m, head, q),
         \A i \in alive : i \in m.alive /\ m.next[i] = next[i],
         \A i \in Ran(q) : i \notin alive,
         Becomes([m |-> strlist_free(m, head), head |-> var[v]], v, holds[v])
  PROVE  SlInv'
<1>1. PICK paths \in [ListVar -> Seq(Item)] : SlTypeOK /\ AllPaths(paths)
  BY DEF SlInv
<1> DEFINE mm == strlist_free(m, head)
           l == [m |-> mm, head |-> var[v]]
<1>2. IsMem(mm) /\ mm.alive = m.alive \ Ran(q) /\ mm.next = m.next
  BY FreeIs
<1>3. Becomes(l, v, holds[v]) /\ l.m = mm /\ l.head = var[v]
  OBVIOUS
<1> HIDE DEF mm, l
<1>4. \A i \in alive : i \in l.m.alive /\ l.m.next[i] = next[i]
  BY <1>2, <1>3
<1>5. IsPath(Memory, var[v], paths[v]) /\ Ran(paths[v]) \subseteq alive /\ Memory.next = next
  BY <1>1, VarIs
<1>6. IsPath(l.m, l.head, paths[v])
  <2>1. \A k \in 1..Len(paths[v]) : paths[v][k] \in l.m.alive /\ l.m.next[paths[v][k]] = Memory.next[paths[v][k]]
    BY <1>4, <1>5 DEF Ran
  <2> QED BY <1>3, <1>5, <2>1, PathStays, ZenonT(60)
<1>7. IsMem(l.m)
  BY <1>2, <1>3
<1> QED BY <1>1, <1>3, <1>4, <1>6, <1>7, BecomesKeeps

LEMMA TokenizeFailsKeeps == ASSUME SlInv, TokenizeFails PROVE SlInv'
<1>1. PICK v \in ListVar, t \in Texts : \E n \in 1..Len(t) :
        /\ t[n] # Empty /\ Room(Memory, n - 1)
        /\ LET new == FoldLeft(Token, [m |-> Memory, head |-> NoItem], SubSeq(t, 1, n - 1))
           IN  Becomes([m |-> strlist_free(new.m, new.head), head |-> var[v]], v, holds[v])
  BY DEF TokenizeFails
<1>2. PICK n \in 1..Len(t) :
        /\ Room(Memory, n - 1)
        /\ LET new == FoldLeft(Token, [m |-> Memory, head |-> NoItem], SubSeq(t, 1, n - 1))
           IN  Becomes([m |-> strlist_free(new.m, new.head), head |-> var[v]], v, holds[v])
  BY <1>1
<1> DEFINE part == SubSeq(t, 1, n - 1)
           new == FoldLeft(Token, [m |-> Memory, head |-> NoItem], part)
           N == n - 1
<1>3. IsMem(Memory) /\ Memory.next = next /\ Memory.alive = alive
  BY SlMem DEF SlInv
<1>4. N \in Nat /\ DOMAIN part = 1..N /\ Room(Memory, N)
  <2>1. t \in Seq(ListWord \cup {BlankToken, Empty})
    BY StrListAssumption
  <2> QED BY <1>2, <2>1
<1>5. Becomes([m |-> strlist_free(new.m, new.head), head |-> var[v]], v, holds[v])
  BY <1>2
<1> HIDE DEF part, N
<1>6. PICK q : /\ IsMem(new.m) /\ IsPath(new.m, new.head, q)
               /\ \A i \in alive : i \in new.m.alive /\ new.m.next[i] = next[i]
               /\ \A i \in Ran(q) : i \notin alive
  BY <1>3, <1>4, NewListIs
<1> HIDE DEF new
<1> QED BY <1>5, <1>6, FailureKeeps

LEMMA TokenizeKeeps == ASSUME SlInv, Tokenize PROVE SlInv'
<1>1. PICK paths \in [ListVar -> Seq(Item)] : SlTypeOK /\ AllPaths(paths)
  BY DEF SlInv
<1> DEFINE base == [m |-> Memory, head |-> NoItem]
<1>2. PICK v \in ListVar, t \in Texts :
        /\ Room(Memory, Len(t))
        /\ LET new == FoldLeft(Token, [m |-> Memory, head |-> NoItem], t)
               words == SelectSeq(t, LAMBDA w : w \notin {BlankToken, Empty})
               last == strlist_last(Memory, var[v])
           IN  Becomes([m |-> IF var[v] = NoItem \/ new.head = NoItem THEN new.m
                              ELSE [new.m EXCEPT !.next[last] = new.head],
                        head |-> IF var[v] = NoItem THEN new.head ELSE var[v]],
                       v, holds[v] \o words)
  BY DEF Tokenize
<1> DEFINE new == FoldLeft(Token, base, t)
           last == strlist_last(Memory, var[v])
           path == paths[v]
           mm == IF var[v] = NoItem \/ new.head = NoItem THEN new.m ELSE [new.m EXCEPT !.next[last] = new.head]
           hh == IF var[v] = NoItem THEN new.head ELSE var[v]
           l == [m |-> mm, head |-> hh]
<1>3. PICK strings : Becomes(l, v, strings)
  BY <1>2
<1>4. /\ IsMem(Memory) /\ Memory.next = next /\ Memory.alive = alive
      /\ IsPath(Memory, var[v], path) /\ Ran(path) \subseteq alive
      /\ var[v] = NoItem <=> path = <<>>
  BY <1>1, VarIs
<1>5. Len(t) \in Nat /\ DOMAIN t = 1..Len(t)
  BY StrListAssumption
<1>7. PICK q : /\ IsMem(new.m) /\ IsPath(new.m, new.head, q)
               /\ \A i \in alive : i \in new.m.alive /\ new.m.next[i] = next[i]
               /\ \A i \in Ran(q) : i \notin alive
  <2>1. Room(Memory, Len(t))
    BY <1>2
  <2> QED BY <1>4, <1>5, <2>1, NewListIs, ZenonT(60)
<1> HIDE DEF new, base
<1>8. IsPath(new.m, var[v], path)
  <2>1. \A k \in 1..Len(path) : path[k] \in new.m.alive /\ new.m.next[path[k]] = Memory.next[path[k]]
    BY <1>4, <1>7 DEF Ran
  <2> HIDE DEF path
  <2> QED BY <1>4, <2>1, PathStays
<1>9. q = <<>> <=> new.head = NoItem
  <2>1. CASE q = <<>>
    BY <1>7, <2>1 DEF IsPath
  <2>2. CASE q # <<>>
    BY <1>7, <2>2, LastIs
  <2> QED BY <2>1, <2>2
<1>10. l.m = mm /\ l.head = hh
  OBVIOUS
<1>11. CASE var[v] = NoItem
  <2>1. l.m = new.m /\ l.head = new.head
    BY <1>10, <1>11
  <2> HIDE DEF l, path
  <2>2. IsMem(l.m) /\ IsPath(l.m, l.head, q)
    BY <1>7, <2>1
  <2>3. \A i \in alive \ Ran(paths[v]) : i \in l.m.alive /\ l.m.next[i] = next[i]
    BY <1>7, <2>1
  <2>4. \A i \in Ran(q) : i \in Ran(paths[v]) \/ i \notin alive
    BY <1>7
  <2> QED BY <1>1, <1>3, <2>2, <2>3, <2>4, BecomesKeeps
<1>12. CASE var[v] # NoItem /\ new.head = NoItem
  <2>1. l.m = new.m /\ l.head = var[v]
    BY <1>10, <1>12
  <2> HIDE DEF l
  <2>2. IsMem(l.m) /\ IsPath(l.m, l.head, paths[v])
    BY <1>7, <1>8, <2>1
  <2>3. \A i \in alive \ Ran(paths[v]) : i \in l.m.alive /\ l.m.next[i] = next[i]
    BY <1>7, <2>1
  <2>4. \A i \in Ran(paths[v]) : i \in Ran(paths[v]) \/ i \notin alive
    OBVIOUS
  <2> HIDE DEF path
  <2> QED BY <1>1, <1>3, <2>2, <2>3, <2>4, BecomesKeeps
<1>13. CASE var[v] # NoItem /\ new.head # NoItem
  <2> DEFINE cm == [new.m EXCEPT !.next[path[Len(path)]] = new.head]
             c == path \o q
  <2>1. path # <<>> /\ q # <<>> /\ Ran(path) \cap Ran(q) = {}
    BY <1>4, <1>7, <1>9, <1>13
  <2>2. last = path[Len(path)]
    <3> HIDE DEF path
    <3> QED BY <1>4, <2>1, LastIs
  <2>3. l.m = cm /\ l.head = var[v]
    BY <1>10, <1>13, <2>2
  <2>4. path \in Seq(Item) /\ q \in Seq(Item)
    BY <1>7 DEF IsPath
  <2> HIDE DEF l, path
  <2>5. /\ IsMem(cm) /\ cm.alive = new.m.alive /\ IsPath(cm, var[v], path \o q)
        /\ \A i \in new.m.alive \ Ran(path) : cm.next[i] = new.m.next[i]
    <3>1. IsMem(new.m) /\ IsPath(new.m, new.head, q)
      BY <1>7
    <3>2. path[Len(path)] \in Item /\ new.head \in Item \cup {NoItem}
      BY <1>8, <2>1, <3>1, LastIs DEF IsPath
    <3>3. /\ IsMem(cm) /\ cm.alive = new.m.alive /\ cm.next[path[Len(path)]] = new.head
          /\ \A j \in Item : j # path[Len(path)] => cm.next[j] = new.m.next[j]
      BY <3>1, <3>2, LinkIs, ZenonT(60)
    <3> HIDE DEF cm
    <3>4. IsPath(new.m, var[v], path) /\ path # <<>> /\ q # <<>> /\ Ran(path) \cap Ran(q) = {}
      BY <1>8, <2>1
    <3>5. IsPath(cm, var[v], path \o q)
      BY <3>1, <3>3, <3>4, ConcatIs, SMTT(60)
    <3>6. \A i \in new.m.alive \ Ran(path) : cm.next[i] = new.m.next[i]
      BY <3>1, <3>3, <3>4, ConcatIs, SMTT(60)
    <3> QED BY <3>3, <3>5, <3>6
  <2>6. \A i \in Ran(c) : i \in Ran(path) \/ i \in Ran(q)
    <3>1. /\ Len(path) \in Nat /\ Len(q) \in Nat /\ Len(c) = Len(path) + Len(q)
          /\ \A k \in 1..Len(path) : c[k] = path[k]
          /\ \A k \in 1..Len(q) : c[Len(path) + k] = q[k]
      BY <2>4
    <3> HIDE DEF c
    <3> SUFFICES ASSUME NEW k \in 1..Len(c) PROVE c[k] \in Ran(path) \/ c[k] \in Ran(q)
      BY DEF Ran
    <3>2. CASE k \in 1..Len(path)
      BY <3>1, <3>2 DEF Ran
    <3>3. CASE k \notin 1..Len(path)
      <4>1. k - Len(path) \in 1..Len(q) /\ Len(path) + (k - Len(path)) = k
        BY <3>1, <3>3
      <4> QED BY <3>1, <4>1 DEF Ran
    <3> QED BY <3>2, <3>3
  <2> HIDE DEF cm
  <2>7. IsMem(l.m) /\ IsPath(l.m, l.head, c)
    BY <2>3, <2>5
  <2>8. \A i \in alive \ Ran(paths[v]) : i \in l.m.alive /\ l.m.next[i] = next[i]
    BY <1>7, <2>3, <2>5 DEF path
  <2>9. \A i \in Ran(c) : i \in Ran(paths[v]) \/ i \notin alive
    BY <1>7, <2>6 DEF path
  <2> HIDE DEF c
  <2> QED BY <1>1, <1>3, <2>7, <2>8, <2>9, BecomesKeeps
<1> QED BY <1>11, <1>12, <1>13

\* The copy of the first n items: one item that is linked, and all others as they were.
LEMMA CopiedIs ==
  ASSUME IsMem(Memory), Memory.next = next, Memory.alive = alive, NEW head, NEW path, IsPath(Memory, head, path),
         NEW n \in 1..Len(path), Room(Memory, n)
  PROVE  LET l == ListCopy(Memory, head, n)
         IN  /\ IsMem(l.m) /\ IsPath(l.m, l.head, <<l.head>>) /\ l.head \notin alive
             /\ \A i \in alive : i \in l.m.alive /\ l.m.next[i] = next[i]
<1> DEFINE first == Allocate(Memory, Memory.d[head], NoItem)
           rest == SubSeq(path, 2, n)
           m == CopiesFold(Memory.d, first.m, rest)
           l == ListCopy(Memory, head, n)
           q == <<first.item>>
<1>4. Items(Memory, head) = path
  BY ItemsIs
<1>5. path \in Seq(Item) /\ Len(path) \in Nat /\ n \in Nat /\ n > 0
  BY DEF IsPath
<1>6. Left(Memory) >= n /\ Left(Memory) \in Nat
  BY LeftIs DEF Room, Left
<1>7. /\ first.item \in Item \ Memory.alive /\ Grown(first.m, Memory) /\ first.m.next[first.item] = NoItem
      /\ first.m.alive = Memory.alive \cup {first.item} /\ Left(first.m) = Left(Memory) - 1
  <2>1. Left(Memory) > 0 /\ NoItem \in Item \cup {NoItem}
    BY <1>5, <1>6
  <2> QED BY <2>1, AllocateIs
<1>8. l = [m |-> m, head |-> first.item]
  BY <1>4 DEF ListCopy, CopiesFold
<1> HIDE DEF first, l
<1>9. DOMAIN rest = 1..(n - 1) /\ n - 1 \in Nat
  BY <1>5
<1>10. Grown(m, first.m)
  <2>1. IsMem(first.m) /\ Left(first.m) >= n - 1
    BY <1>5, <1>6, <1>7 DEF Grown
  <2> DEFINE N == n - 1
  <2>2. N \in Nat /\ DOMAIN rest = 1..N /\ Left(first.m) >= N
    BY <1>9, <2>1
  <2> HIDE DEF N, rest
  <2> QED BY <2>1, <2>2, CopiesGrow
<1> HIDE DEF m, rest
<1>11. l.m = m /\ l.head = first.item
  BY <1>8
<1>12. IsMem(l.m) /\ \A i \in alive : i \in l.m.alive /\ l.m.next[i] = next[i]
  BY <1>7, <1>10, <1>11 DEF Grown
<1>13. first.item \in l.m.alive /\ l.m.next[first.item] = NoItem
  BY <1>7, <1>10, <1>11 DEF Grown
<1>14. Len(q) = 1 /\ q[1] = first.item /\ q \in Seq(Item) /\ q # <<>>
  BY <1>7
<1>15. q = <<l.head>> /\ l.head \notin alive
  BY <1>7, <1>11
<1> HIDE DEF q
<1>16. IsPath(l.m, l.head, q)
  BY <1>11, <1>13, <1>14 DEF IsPath
<1> QED BY <1>12, <1>15, <1>16 DEF l

LEMMA CopyKeeps == ASSUME SlInv, Copy PROVE SlInv'
<1>1. PICK paths \in [ListVar -> Seq(Item)] : SlTypeOK /\ AllPaths(paths)
  BY DEF SlInv
<1>2. PICK v \in ListVar, w \in ListVar :
        /\ var[v] # NoItem /\ var[w] = NoItem
        /\ Room(Memory, Len(Items(Memory, var[v])))
        /\ Becomes(ListCopy(Memory, var[v], Len(Items(Memory, var[v]))), w, holds[v])
  BY DEF Copy
<1> DEFINE path == paths[v]
           n == Len(path)
           l == ListCopy(Memory, var[v], n)
           q == <<l.head>>
<1>3. /\ IsMem(Memory) /\ Memory.next = next /\ Memory.alive = alive
      /\ IsPath(Memory, var[v], path) /\ path # <<>>
  BY <1>1, <1>2, VarIs
<1>4. Items(Memory, var[v]) = path
  BY <1>3, ItemsIs
<1>5. n \in 1..Len(path)
  BY <1>3, LastIs DEF IsPath
<1>6. Room(Memory, n) /\ Becomes(l, w, holds[v])
  BY <1>2, <1>4
<1> HIDE DEF path, n
<1>7. /\ IsMem(l.m) /\ IsPath(l.m, l.head, q) /\ l.head \notin alive
      /\ \A i \in alive : i \in l.m.alive /\ l.m.next[i] = next[i]
  BY <1>3, <1>5, <1>6, CopiedIs
<1> HIDE DEF l
<1>8. \A i \in Ran(q) : i \in Ran(paths[w]) \/ i \notin alive
  BY <1>7 DEF Ran
<1>9. \A i \in alive \ Ran(paths[w]) : i \in l.m.alive /\ l.m.next[i] = next[i]
  BY <1>7
<1> HIDE DEF q
<1> QED BY <1>1, <1>6, <1>7, <1>8, <1>9, BecomesKeeps

LEMMA CopyFailsKeeps == ASSUME SlInv, CopyFails PROVE SlInv'
<1>1. PICK paths \in [ListVar -> Seq(Item)] : SlTypeOK /\ AllPaths(paths)
  BY DEF SlInv
<1>2. PICK v \in ListVar : \E n \in 1..(Len(Items(Memory, var[v])) - 1) :
        /\ Room(Memory, n)
        /\ LET new == ListCopy(Memory, var[v], n)
           IN  Becomes([m |-> strlist_free(new.m, new.head), head |-> var[v]], v, holds[v])
  BY DEF CopyFails
<1> DEFINE path == paths[v]
<1>3. /\ IsMem(Memory) /\ Memory.next = next /\ Memory.alive = alive /\ IsPath(Memory, var[v], path)
  BY <1>1, VarIs
<1>4. Items(Memory, var[v]) = path
  BY <1>3, ItemsIs
<1>5. PICK n \in 1..(Len(path) - 1) :
        /\ Room(Memory, n)
        /\ LET new == ListCopy(Memory, var[v], n)
           IN  Becomes([m |-> strlist_free(new.m, new.head), head |-> var[v]], v, holds[v])
  BY <1>2, <1>4
<1> DEFINE new == ListCopy(Memory, var[v], n)
           q == <<new.head>>
<1>6. n \in 1..Len(path)
  BY <1>3, <1>5 DEF IsPath
<1>7. Becomes([m |-> strlist_free(new.m, new.head), head |-> var[v]], v, holds[v])
  BY <1>5
<1> HIDE DEF path
<1>8. /\ IsMem(new.m) /\ IsPath(new.m, new.head, q) /\ new.head \notin alive
      /\ \A i \in alive : i \in new.m.alive /\ new.m.next[i] = next[i]
  BY <1>3, <1>5, <1>6, CopiedIs
<1> HIDE DEF new
<1>9. \A i \in Ran(q) : i \notin alive
  BY <1>8 DEF Ran
<1> HIDE DEF q
<1> QED BY <1>7, <1>8, <1>9, FailureKeeps

LEMMA ReverseKeeps == ASSUME SlInv, ReverseList PROVE SlInv'
<1>1. PICK paths \in [ListVar -> Seq(Item)] : SlTypeOK /\ AllPaths(paths)
  BY DEF SlInv
<1>2. PICK v \in ListVar : Becomes(Reversed(Memory, var[v]), v, Reverse(holds[v]))
  BY DEF ReverseList
<1> DEFINE l == Reversed(Memory, var[v])
<1>3. /\ IsMem(Memory) /\ Memory.next = next /\ Memory.alive = alive /\ IsPath(Memory, var[v], paths[v])
  BY <1>1, VarIs
<1>4. /\ IsMem(l.m) /\ l.m.alive = Memory.alive
      /\ \E q : IsPath(l.m, l.head, q) /\ Ran(q) = Ran(paths[v])
      /\ \A i \in Item \ Ran(paths[v]) : l.m.next[i] = Memory.next[i]
  BY <1>3, ReverseIs
<1> HIDE DEF l
<1>5. PICK q : IsPath(l.m, l.head, q) /\ Ran(q) = Ran(paths[v])
  BY <1>4
<1>6. \A i \in alive \ Ran(paths[v]) : i \in l.m.alive /\ l.m.next[i] = next[i]
  BY <1>1, <1>3, <1>4 DEF SlTypeOK
<1>7. \A i \in Ran(q) : i \in Ran(paths[v]) \/ i \notin alive
  BY <1>5
<1>8. Becomes(l, v, Reverse(holds[v]))
  BY <1>2 DEF l
<1> QED BY <1>1, <1>4, <1>5, <1>6, <1>7, <1>8, BecomesKeeps

LEMMA PopKeeps == ASSUME SlInv, Pop PROVE SlInv'
<1>1. PICK paths \in [ListVar -> Seq(Item)] : SlTypeOK /\ AllPaths(paths)
  BY DEF SlInv
<1>2. PICK v \in ListVar :
        /\ var[v] # NoItem
        /\ Becomes([m |-> [Memory EXCEPT !.alive = @ \ {var[v]}], head |-> next[var[v]]], v, Tail(holds[v]))
  BY DEF Pop
<1> DEFINE mm == [Memory EXCEPT !.alive = @ \ {var[v]}]
           l == [m |-> mm, head |-> next[var[v]]]
<1>3. /\ IsMem(Memory) /\ Memory.next = next /\ Memory.alive = alive
      /\ IsPath(Memory, var[v], paths[v]) /\ paths[v] # <<>>
  BY <1>1, <1>2, VarIs
<1>4. IsMem(mm) /\ mm.alive = Memory.alive \ {var[v]} /\ mm.next = Memory.next
  BY <1>3, AliveIs
<1>5. Becomes(l, v, Tail(holds[v])) /\ l.m = mm /\ l.head = next[var[v]]
  BY <1>2
<1> HIDE DEF mm, l
<1>6. PICK q : IsPath(mm, Memory.next[var[v]], q) /\ Ran(q) \subseteq Ran(paths[v])
  BY <1>3, <1>4, TailIs
<1>7. var[v] \in Ran(paths[v])
  <2>1. paths[v] \in Seq(Item) /\ var[v] = paths[v][1]
    BY <1>3 DEF IsPath
  <2>2. 1 \in 1..Len(paths[v])
    BY <1>3, <2>1
  <2> QED BY <2>1, <2>2 DEF Ran
<1>8. \A i \in alive \ Ran(paths[v]) : i \in l.m.alive /\ l.m.next[i] = next[i]
  BY <1>3, <1>4, <1>5, <1>7
<1>9. IsMem(l.m) /\ IsPath(l.m, l.head, q)
  BY <1>3, <1>4, <1>5, <1>6
<1>10. \A i \in Ran(q) : i \in Ran(paths[v]) \/ i \notin alive
  BY <1>6
<1> QED BY <1>1, <1>5, <1>8, <1>9, <1>10, BecomesKeeps

LEMMA FreeKeeps == ASSUME SlInv, FreeList PROVE SlInv'
<1>1. PICK paths \in [ListVar -> Seq(Item)] : SlTypeOK /\ AllPaths(paths)
  BY DEF SlInv
<1>2. PICK v \in ListVar : Becomes([m |-> strlist_free(Memory, var[v]), head |-> NoItem], v, <<>>)
  BY DEF FreeList
<1> DEFINE mm == strlist_free(Memory, var[v])
           l == [m |-> mm, head |-> NoItem]
<1>3. /\ IsMem(Memory) /\ Memory.next = next /\ Memory.alive = alive /\ IsPath(Memory, var[v], paths[v])
  BY <1>1, VarIs
<1>4. IsMem(mm) /\ mm.alive = Memory.alive \ Ran(paths[v]) /\ mm.next = Memory.next
  BY <1>3, FreeIs
<1>5. Becomes(l, v, <<>>) /\ l.m = mm /\ l.head = NoItem
  BY <1>2
<1> HIDE DEF mm, l
<1>6. IsPath(l.m, l.head, <<>>)
  BY <1>5 DEF IsPath
<1>7. \A i \in alive \ Ran(paths[v]) : i \in l.m.alive /\ l.m.next[i] = next[i]
  BY <1>3, <1>4, <1>5
<1>8. \A i \in Ran(<<>>) : i \in Ran(paths[v]) \/ i \notin alive
  BY DEF Ran
<1>9. IsMem(l.m)
  BY <1>4, <1>5
<1> QED BY <1>1, <1>5, <1>6, <1>7, <1>8, <1>9, BecomesKeeps

LEMMA SlInductive == SlInv /\ [SlNext]_slVars => SlInv'
<1> SUFFICES ASSUME SlInv, [SlNext]_slVars PROVE SlInv'
  OBVIOUS
<1>1. CASE UNCHANGED slVars
  BY <1>1 DEF slVars, SlInv, SlTypeOK, AllPaths, Memory
<1>2. CASE SlNext
  BY <1>2, PrependKeeps, AppendKeeps, TokenizeKeeps, TokenizeFailsKeeps, CopyKeeps, CopyFailsKeeps, ReverseKeeps, PopKeeps, FreeKeeps DEF SlNext
<1> QED BY <1>1, <1>2

LEMMA SlInitial == SlInit => SlInv
<1> SUFFICES ASSUME SlInit PROVE SlInv
  OBVIOUS
<1> DEFINE paths == [v \in ListVar |-> <<>>]
<1>1. paths \in [ListVar -> Seq(Item)] /\ \A v \in ListVar : paths[v] = <<>>
  OBVIOUS
<1>2. SlTypeOK /\ \A v \in ListVar : var[v] = NoItem
  BY DEF SlInit, SlTypeOK
<1> HIDE DEF paths
<1>3. AllPaths(paths)
  BY <1>1, <1>2 DEF AllPaths, IsPath, Ran
<1> QED BY <1>1, <1>2, <1>3 DEF SlInv

\* Whatever is put into the lists of a program, tokenized, copied, reversed, popped and freed, with
\* allocations that fail in between, every list can be walked over allocated items, and no item is in two of them (strlist.c).
THEOREM ListsStaySound == SlSpec => []ListsSound
<1>1. SlInv => ListsSound
  <2> SUFFICES ASSUME SlInv PROVE ListsSound
    OBVIOUS
  <2>1. PICK paths \in [ListVar -> Seq(Item)] : SlTypeOK /\ AllPaths(paths)
    BY DEF SlInv
  <2>2. ASSUME NEW v \in ListVar
        PROVE  /\ Items(Memory, var[v]) = paths[v] /\ ToItems(Memory, var[v]) = Ran(paths[v])
               /\ Ran(paths[v]) \subseteq alive /\ Cardinality(Ran(paths[v])) = Len(paths[v])
    <3>1. IsMem(Memory) /\ IsPath(Memory, var[v], paths[v]) /\ Ran(paths[v]) \subseteq alive
      BY <2>1, VarIs
    <3>2. Cardinality({paths[v][k] : k \in DOMAIN paths[v]}) = Len(paths[v])
      BY <3>1, PathIsShort
    <3>3. DOMAIN paths[v] = 1..Len(paths[v])
      OBVIOUS
    <3>4. Ran(paths[v]) = {paths[v][k] : k \in DOMAIN paths[v]}
      BY <3>3 DEF Ran
    <3> QED BY <3>1, <3>2, <3>4, ItemsIs, ToItemsIs
  <2> QED BY <2>1, <2>2 DEF ListsSound, AllPaths
<1> QED BY <1>1, SlInitial, SlInductive, PTL DEF SlSpec

-----------------------------------------------------------------------------
(***************************************************************************)
(* Folds.                                                                   *)
(***************************************************************************)
\* The steps of the folds of the last sections, each with what it takes from around it: over
\* the letters, the keywords and the share= letters of a mode string; over the escapes that a
\* reader takes back, their widths, and the room for them; over the characters of a string
\* that is trimmed; over sequences that are joined; over the characters and the strings that
\* a command line needs room for, and the characters that a child divides; and over the
\* changes to an environment.
FoldOver(what, items, w32, beyond) == [what |-> what, items |-> items, w32 |-> w32, beyond |-> beyond]
LetterFold == FoldOver("letters", <<>>, FALSE, FALSE)
ShareFold == FoldOver("share", <<>>, FALSE, FALSE)
ItemFold(items, w32, beyond) == FoldOver("items", items, w32, beyond)
ReadFold(letters) == FoldOver("read", letters, FALSE, FALSE)
WidthFold == FoldOver("width", <<>>, FALSE, FALSE)
RoomFold == FoldOver("room", <<>>, FALSE, FALSE)
MarkFold(s) == FoldOver("mark", s, FALSE, FALSE)
JoinFold == FoldOver("join", <<>>, FALSE, FALSE)
CharRoomFold == FoldOver("characters", <<>>, FALSE, FALSE)
StringRoomFold == FoldOver("strings", <<>>, FALSE, FALSE)
SplitFold(line) == FoldOver("split", line, FALSE, FALSE)
ChangeFold == FoldOver("changes", <<>>, FALSE, FALSE)
NameFold == FoldOver("name", <<>>, FALSE, FALSE)
PartRoomFold == FoldOver("parts", <<>>, FALSE, FALSE)
FoldStep(k, acc, x) ==
  CASE k.what = "letters" -> NextLetter(acc, x)
    [] k.what = "share" -> ShareLetter(acc, x)
    [] k.what = "items" -> ParseItem(acc, k.items, x, k.w32, k.beyond)
    [] k.what = "read" -> ReadStep(acc, x, k.items)
    [] k.what = "width" -> WidthStep(acc, x)
    [] k.what = "room" -> RoomStep(acc, x)
    [] k.what = "mark" -> MarkStep(acc, k.items, x)
    [] k.what = "join" -> acc \o x
    [] k.what = "characters" -> CharRoom(acc, x)
    [] k.what = "strings" -> StringRoom(acc, x)
    [] k.what = "split" -> SplitStep(acc, k.items, x)
    [] k.what = "changes" -> ChangeEntry(acc, x)
    [] k.what = "name" -> acc \o Slash \o x
    [] k.what = "parts" -> acc + Len(x) + 1

\* Each of them is a recursive function over sets of indices.
FoldFunStep(g, k, base, text, s) == IF s = {} THEN base ELSE FoldStep(k, g[s \ {Top(s)}], text[Top(s)])

IsFoldFun(g, k, base, text, N) == g = [s \in SUBSET (1..N) |-> FoldFunStep(g, k, base, text, s)]

LEMMA FoldFunExists ==
  ASSUME NEW k, NEW base, NEW text, NEW N \in Nat PROVE \E g : IsFoldFun(g, k, base, text, N)
<1> DEFINE T == {n \in Nat : \E g : g = [s \in SUBSET (1..n) |-> FoldFunStep(g, k, base, text, s)]}
<1>1. 0 \in T
  <2> DEFINE g == [s \in SUBSET (1..0) |-> base]
  <2>1. \A s \in SUBSET (1..0) : s = {}
    OBVIOUS
  <2>2. \A s \in SUBSET (1..0) : FoldFunStep(g, k, base, text, s) = base
    BY <2>1 DEF FoldFunStep
  <2>3. g = [s \in SUBSET (1..0) |-> FoldFunStep(g, k, base, text, s)]
    BY <2>2
  <2> HIDE DEF g
  <2> QED BY <2>3
<1>2. ASSUME NEW n \in Nat, n \in T PROVE n + 1 \in T
  <2>1. PICK g : g = [s \in SUBSET (1..n) |-> FoldFunStep(g, k, base, text, s)]
    BY <1>2
  <2> DEFINE h == [s \in SUBSET (1..n + 1) |-> IF n + 1 \in s THEN FoldStep(k, g[s \ {n + 1}], text[n + 1]) ELSE g[s]]
  <2>2. ASSUME NEW s \in SUBSET (1..n + 1) PROVE h[s] = FoldFunStep(h, k, base, text, s)
    <3>1. CASE n + 1 \in s
      <4>1. Top(s) = n + 1 /\ s # {}
        BY <3>1, TopIs
      <4>2. s \ {n + 1} \in SUBSET (1..n + 1) /\ n + 1 \notin s \ {n + 1}
        OBVIOUS
      <4>3. h[s \ {n + 1}] = g[s \ {n + 1}]
        BY <4>2
      <4>4. h[s] = FoldStep(k, g[s \ {n + 1}], text[n + 1])
        BY <3>1
      <4> HIDE DEF h
      <4> QED BY <4>1, <4>3, <4>4 DEF FoldFunStep
    <3>2. CASE n + 1 \notin s
      <4>1. s \in SUBSET (1..n)
        BY <3>2
      <4>2. s \ {Top(s)} \in SUBSET (1..n + 1) /\ n + 1 \notin s \ {Top(s)}
        BY <3>2
      <4>3. h[s \ {Top(s)}] = g[s \ {Top(s)}]
        BY <4>2
      <4>4. h[s] = g[s]
        BY <3>2
      <4>5. g[s] = FoldFunStep(g, k, base, text, s)
        BY <2>1, <4>1
      <4> HIDE DEF h
      <4> QED BY <4>3, <4>4, <4>5 DEF FoldFunStep
    <3> QED BY <3>1, <3>2
  <2>3. h = [s \in SUBSET (1..n + 1) |-> h[s]]
    OBVIOUS
  <2> HIDE DEF h
  <2>4. h = [s \in SUBSET (1..n + 1) |-> FoldFunStep(h, k, base, text, s)]
    BY <2>2, <2>3
  <2> QED BY <2>4
<1> HIDE DEF T
<1>3. N \in T
  BY <1>1, <1>2, Induction
<1> QED BY <1>3 DEF T, IsFoldFun

\* Such a function takes the steps one after the other.
Stepwise(k, base, text, N, r) ==
  \E h : /\ h[0] = base /\ h[N] = r
         /\ \A n \in 0..(N - 1) : h[n + 1] = FoldStep(k, h[n], text[n + 1])

LEMMA FunIsStepwise ==
  ASSUME NEW k, NEW base, NEW text, NEW N \in Nat, NEW G, IsFoldFun(G, k, base, text, N)
  PROVE  Stepwise(k, base, text, N, G[1..N])
<1> DEFINE h == [n \in 0..N |-> G[1..n]]
<1>1. h[0] = base
  <2>1. 1..0 = {} /\ 1..0 \in SUBSET (1..N)
    OBVIOUS
  <2> QED BY <2>1 DEF FoldFunStep, IsFoldFun
<1>2. h[N] = G[1..N]
  OBVIOUS
<1>3. ASSUME NEW n \in 0..(N - 1) PROVE h[n + 1] = FoldStep(k, h[n], text[n + 1])
  <2>1. Top(1..n + 1) = n + 1
    <3>1. n \in Nat /\ 1..n + 1 \in SUBSET (1..n + 1) /\ n + 1 \in 1..n + 1
      OBVIOUS
    <3> QED BY <3>1, TopIs
  <2>2. (1..n + 1) \ {n + 1} = 1..n /\ 1..n + 1 # {} /\ 1..n + 1 \in SUBSET (1..N)
    OBVIOUS
  <2>3. G[1..n + 1] = FoldStep(k, G[1..n], text[n + 1])
    BY <2>1, <2>2 DEF FoldFunStep, IsFoldFun
  <2>4. h[n + 1] = G[1..n + 1] /\ h[n] = G[1..n]
    OBVIOUS
  <2> QED BY <2>3, <2>4
<1> HIDE DEF h
<1> QED BY <1>1, <1>2, <1>3 DEF Stepwise

\* A step more on a text that is longer by one.
LEMMA OneStepMore ==
  ASSUME NEW k, NEW base, NEW N \in Nat, NEW t, NEW u, \A n \in 1..N : u[n] = t[n],
         NEW r, NEW q, Stepwise(k, base, t, N, r), Stepwise(k, base, u, N + 1, q)
  PROVE  q = FoldStep(k, r, u[N + 1])
<1>1. PICK h : /\ h[0] = base /\ h[N] = r
               /\ \A n \in 0..(N - 1) : h[n + 1] = FoldStep(k, h[n], t[n + 1])
  BY DEF Stepwise
<1>2. PICK g : /\ g[0] = base /\ g[N + 1] = q
               /\ \A n \in 0..(N + 1 - 1) : g[n + 1] = FoldStep(k, g[n], u[n + 1])
  BY DEF Stepwise
<1> DEFINE T == {n \in Nat : n <= N => h[n] = g[n]}
<1>3. 0 \in T
  BY <1>1, <1>2
<1>4. ASSUME NEW n \in Nat, n \in T PROVE n + 1 \in T
  <2> SUFFICES ASSUME n + 1 <= N PROVE h[n + 1] = g[n + 1]
    OBVIOUS
  <2>1. n \in 0..(N - 1) /\ n \in 0..(N + 1 - 1) /\ n <= N /\ n + 1 \in 1..N
    OBVIOUS
  <2> QED BY <1>1, <1>2, <1>4, <2>1
<1> HIDE DEF T
<1>5. N \in T
  BY <1>3, <1>4, Induction
<1>6. h[N] = g[N]
  BY <1>5 DEF T
<1>7. N \in 0..(N + 1 - 1)
  OBVIOUS
<1> QED BY <1>1, <1>2, <1>6, <1>7

LEMMA NoStep == ASSUME NEW k, NEW base, NEW t, NEW r, Stepwise(k, base, t, 0, r) PROVE r = base
  BY DEF Stepwise

-----------------------------------------------------------------------------
(***************************************************************************)
(* The mode string.                                                         *)
(***************************************************************************)
\* The functions the library's fold is, below its definitions.
LetterFunStep(g, base, text, s) == IF s = {} THEN base ELSE NextLetter(g[s \ {Top(s)}], text[Top(s)])
LetterFun(base, text, D) == CHOOSE g : g = [s \in SUBSET D |-> LetterFunStep(g, base, text, s)]
ShareFunStep(g, base, text, s) == IF s = {} THEN base ELSE ShareLetter(g[s \ {Top(s)}], text[Top(s)])
ShareFun(base, text, D) == CHOOSE g : g = [s \in SUBSET D |-> ShareFunStep(g, base, text, s)]
ItemFunStep(g, base, text, items, w32, beyond, s) ==
  IF s = {} THEN base ELSE ParseItem(g[s \ {Top(s)}], items, text[Top(s)], w32, beyond)
ItemFun(base, text, items, w32, beyond, D) ==
  CHOOSE g : g = [s \in SUBSET D |-> ItemFunStep(g, base, text, items, w32, beyond, s)]

LEMMA LettersStepwise ==
  ASSUME NEW base, NEW N \in Nat, NEW text, DOMAIN text = 1..N
  PROVE  Stepwise(LetterFold, base, text, N, FoldLeft(NextLetter, base, text))
<1> DEFINE G == LetterFun(base, text, 1..N)
<1>1. FoldLeft(NextLetter, base, text) = LetterFun(base, text, DOMAIN text)[DOMAIN text]
  BY DEF FoldLeft, MapThenFoldSet, LetterFun, LetterFunStep, Top, Max
<1>2. \A g, s : FoldFunStep(g, LetterFold, base, text, s) = LetterFunStep(g, base, text, s)
  BY DEF FoldFunStep, LetterFunStep, FoldStep, LetterFold, FoldOver
<1>3. \E g : g = [s \in SUBSET (1..N) |-> LetterFunStep(g, base, text, s)]
  <2>1. PICK g : IsFoldFun(g, LetterFold, base, text, N)
    BY FoldFunExists
  <2>2. g = [s \in SUBSET (1..N) |-> LetterFunStep(g, base, text, s)]
    BY <1>2, <2>1 DEF IsFoldFun
  <2> QED BY <2>2
<1>4. G = [s \in SUBSET (1..N) |-> LetterFunStep(G, base, text, s)]
  BY <1>3 DEF LetterFun
<1> HIDE DEF G
<1>5. IsFoldFun(G, LetterFold, base, text, N)
  BY <1>2, <1>4 DEF IsFoldFun
<1>6. Stepwise(LetterFold, base, text, N, G[1..N])
  BY <1>5, FunIsStepwise
<1> QED BY <1>1, <1>6 DEF G

LEMMA SharesStepwise ==
  ASSUME NEW base, NEW N \in Nat, NEW text, DOMAIN text = 1..N
  PROVE  Stepwise(ShareFold, base, text, N, FoldLeft(ShareLetter, base, text))
<1> DEFINE G == ShareFun(base, text, 1..N)
<1>1. FoldLeft(ShareLetter, base, text) = ShareFun(base, text, DOMAIN text)[DOMAIN text]
  BY DEF FoldLeft, MapThenFoldSet, ShareFun, ShareFunStep, Top, Max
<1>2. \A g, s : FoldFunStep(g, ShareFold, base, text, s) = ShareFunStep(g, base, text, s)
  BY DEF FoldFunStep, ShareFunStep, FoldStep, ShareFold, FoldOver
<1>3. \E g : g = [s \in SUBSET (1..N) |-> ShareFunStep(g, base, text, s)]
  <2>1. PICK g : IsFoldFun(g, ShareFold, base, text, N)
    BY FoldFunExists
  <2>2. g = [s \in SUBSET (1..N) |-> ShareFunStep(g, base, text, s)]
    BY <1>2, <2>1 DEF IsFoldFun
  <2> QED BY <2>2
<1>4. G = [s \in SUBSET (1..N) |-> ShareFunStep(G, base, text, s)]
  BY <1>3 DEF ShareFun
<1> HIDE DEF G
<1>5. IsFoldFun(G, ShareFold, base, text, N)
  BY <1>2, <1>4 DEF IsFoldFun
<1>6. Stepwise(ShareFold, base, text, N, G[1..N])
  BY <1>5, FunIsStepwise
<1> QED BY <1>1, <1>6 DEF G

ItemsFolded(base, text, items, w32, beyond) ==
  FoldLeft(LAMBDA acc, i : ParseItem(acc, items, i, w32, beyond), base, text)

LEMMA ItemsStepwise ==
  ASSUME NEW base, NEW N \in Nat, NEW text, DOMAIN text = 1..N, NEW items, NEW w32, NEW beyond
  PROVE  Stepwise(ItemFold(items, w32, beyond), base, text, N, ItemsFolded(base, text, items, w32, beyond))
<1> DEFINE G == ItemFun(base, text, items, w32, beyond, 1..N)
           k == ItemFold(items, w32, beyond)
<1>1. ItemsFolded(base, text, items, w32, beyond) = ItemFun(base, text, items, w32, beyond, DOMAIN text)[DOMAIN text]
  BY DEF ItemsFolded, FoldLeft, MapThenFoldSet, ItemFun, ItemFunStep, Top, Max
<1>2. \A g, s : FoldFunStep(g, k, base, text, s) = ItemFunStep(g, base, text, items, w32, beyond, s)
  BY DEF FoldFunStep, ItemFunStep, FoldStep, ItemFold, FoldOver
<1> HIDE DEF k
<1>3. \E g : g = [s \in SUBSET (1..N) |-> ItemFunStep(g, base, text, items, w32, beyond, s)]
  <2>1. PICK g : IsFoldFun(g, k, base, text, N)
    BY FoldFunExists
  <2>2. g = [s \in SUBSET (1..N) |-> ItemFunStep(g, base, text, items, w32, beyond, s)]
    BY <1>2, <2>1 DEF IsFoldFun
  <2> QED BY <2>2
<1>4. G = [s \in SUBSET (1..N) |-> ItemFunStep(G, base, text, items, w32, beyond, s)]
  BY <1>3 DEF ItemFun
<1> HIDE DEF G
<1>5. IsFoldFun(G, k, base, text, N)
  BY <1>2, <1>4 DEF IsFoldFun
<1>6. Stepwise(k, base, text, N, G[1..N])
  BY <1>5, FunIsStepwise
<1> QED BY <1>1, <1>6 DEF G, k

\* What the letters leave: a string that truncates creates, and one that starts with r does
\* neither.
KeywordItems == [key : STRING, arg : Seq(STRING), tail : STRING]
IsMode(p) == p = [ok |-> p.ok, access |-> p.access, flags |-> p.flags, xmode |-> p.xmode, cmode |-> p.cmode]
FlagsMeet(first, p) ==
  /\ IsMode(p)
  /\ "TRUNC" \in p.flags => "CREAT" \in p.flags
  /\ first = "r" => "CREAT" \notin p.flags /\ "TRUNC" \notin p.flags

LEMMA ErrorMeets == ASSUME NEW first PROVE FlagsMeet(first, ModeError) /\ ModeError.xmode = {} /\ ~ModeError.ok
  BY DEF FlagsMeet, IsMode, ModeError

LEMMA FirstMeets == ASSUME NEW first PROVE FlagsMeet(first, FirstLetter(first)) /\ FirstLetter(first).xmode = {}
<1>1. CASE first = "r"
  BY <1>1 DEF FirstLetter, FlagsMeet, IsMode, ModeError
<1>2. CASE first = "w"
  BY <1>2 DEF FirstLetter, FlagsMeet, IsMode, ModeError
<1>3. CASE first = "a"
  BY <1>3 DEF FirstLetter, FlagsMeet, IsMode, ModeError
<1>4. CASE first \notin {"r", "w", "a"}
  BY <1>4, ErrorMeets DEF FirstLetter
<1> QED BY <1>1, <1>2, <1>3, <1>4

LEMMA NextMeets ==
  ASSUME NEW first, NEW p, FlagsMeet(first, p), p.xmode = {}, NEW ch
  PROVE  FlagsMeet(first, NextLetter(p, ch)) /\ NextLetter(p, ch).xmode = {}
<1>1. CASE ch = "+"
  BY <1>1 DEF NextLetter, FlagsMeet, IsMode
<1>2. CASE ch = "b"
  BY <1>2 DEF NextLetter, FlagsMeet, IsMode
<1>3. CASE ch = "x"
  BY <1>3 DEF NextLetter, FlagsMeet, IsMode
<1>4. CASE ch \notin {"+", "b", "x"}
  BY <1>4 DEF NextLetter
<1> QED BY <1>1, <1>2, <1>3, <1>4

LEMMA LettersMeet ==
  ASSUME NEW first, NEW letters \in Seq(STRING), NEW start, start = FoldLeft(NextLetter, FirstLetter(first), letters)
  PROVE  FlagsMeet(first, start) /\ start.xmode = {}
<1> DEFINE N == Len(letters)
<1>1. N \in Nat /\ DOMAIN letters = 1..N
  OBVIOUS
<1>2. PICK h : /\ h[0] = FirstLetter(first) /\ h[N] = start
               /\ \A n \in 0..(N - 1) : h[n + 1] = FoldStep(LetterFold, h[n], letters[n + 1])
  <2>1. Stepwise(LetterFold, FirstLetter(first), letters, N, FoldLeft(NextLetter, FirstLetter(first), letters))
    BY <1>1, LettersStepwise
  <2> QED BY <2>1 DEF Stepwise
<1> HIDE DEF N
<1> DEFINE T == {n \in Nat : n <= N => FlagsMeet(first, h[n]) /\ h[n].xmode = {}}
<1>3. 0 \in T
  BY <1>2, FirstMeets
<1>4. ASSUME NEW n \in Nat, n \in T PROVE n + 1 \in T
  <2> SUFFICES ASSUME n + 1 <= N PROVE FlagsMeet(first, h[n + 1]) /\ h[n + 1].xmode = {}
    OBVIOUS
  <2>1. n \in 0..(N - 1) /\ n <= N
    BY <1>1
  <2>2. h[n + 1] = NextLetter(h[n], letters[n + 1])
    BY <1>2, <2>1 DEF FoldStep, LetterFold, FoldOver
  <2> QED BY <1>4, <2>1, <2>2, NextMeets
<1> HIDE DEF T
<1>5. N \in T
  BY <1>1, <1>3, <1>4, Induction
<1> QED BY <1>1, <1>2, <1>5 DEF T

\* The letters of share= set the bits that they name, and no others.
SharesNamed(xmode, arg, n) ==
  /\ "SHARE_READ" \in xmode => \E i \in 1..n : arg[i] = "r"
  /\ "SHARE_WRITE" \in xmode => \E i \in 1..n : arg[i] = "w"

LEMMA ShareLetterNamed ==
  ASSUME NEW arg, NEW n \in Nat, NEW x, SharesNamed(x, arg, n)
  PROVE  SharesNamed(ShareLetter(x, arg[n + 1]), arg, n + 1)
<1>1. \A i \in 1..n : i \in 1..n + 1
  OBVIOUS
<1>2. n + 1 \in 1..n + 1
  OBVIOUS
<1>3. CASE arg[n + 1] = "r"
  BY <1>1, <1>2, <1>3 DEF ShareLetter, SharesNamed
<1>4. CASE arg[n + 1] = "w"
  BY <1>1, <1>2, <1>4 DEF ShareLetter, SharesNamed
<1>5. CASE arg[n + 1] = "d"
  BY <1>1, <1>5 DEF ShareLetter, SharesNamed
<1>6. CASE arg[n + 1] = "0"
  BY <1>6 DEF ShareLetter, SharesNamed
<1>7. CASE arg[n + 1] \notin {"r", "w", "d", "0"}
  BY <1>1, <1>7 DEF ShareLetter, SharesNamed
<1> QED BY <1>3, <1>4, <1>5, <1>6, <1>7

LEMMA ShareBitsNamed ==
  ASSUME NEW arg \in Seq(STRING)
  PROVE  /\ "SHARE_READ" \in ShareBits(arg) => "r" \in ToSet(arg)
         /\ "SHARE_WRITE" \in ShareBits(arg) => "w" \in ToSet(arg)
<1> DEFINE N == Len(arg)
<1>1. N \in Nat /\ DOMAIN arg = 1..N
  OBVIOUS
<1>2. PICK h : /\ h[0] = {} /\ h[N] = ShareBits(arg)
               /\ \A n \in 0..(N - 1) : h[n + 1] = FoldStep(ShareFold, h[n], arg[n + 1])
  <2>1. Stepwise(ShareFold, {}, arg, N, FoldLeft(ShareLetter, {}, arg))
    BY <1>1, SharesStepwise
  <2> QED BY <2>1 DEF Stepwise, ShareBits
<1> HIDE DEF N
<1> DEFINE T == {n \in Nat : n <= N => SharesNamed(h[n], arg, n)}
<1>3. 0 \in T
  BY <1>2 DEF SharesNamed
<1>4. ASSUME NEW n \in Nat, n \in T PROVE n + 1 \in T
  <2> SUFFICES ASSUME n + 1 <= N PROVE SharesNamed(h[n + 1], arg, n + 1)
    OBVIOUS
  <2>1. n \in 0..(N - 1) /\ n <= N
    BY <1>1
  <2>2. h[n + 1] = ShareLetter(h[n], arg[n + 1])
    BY <1>2, <2>1 DEF FoldStep, ShareFold, FoldOver
  <2> QED BY <1>4, <2>1, <2>2, ShareLetterNamed
<1> HIDE DEF T
<1>5. N \in T
  BY <1>1, <1>3, <1>4, Induction
<1>6. SharesNamed(ShareBits(arg), arg, N)
  BY <1>1, <1>2, <1>5 DEF T
<1>7. \A i \in 1..N : arg[i] \in ToSet(arg)
  BY <1>1 DEF ToSet
<1> QED BY <1>6, <1>7 DEF SharesNamed

\* A keyword keeps what the letters left, and sets no share bits but those it names.
LEMMA KeywordKeeps ==
  ASSUME NEW first, NEW p, FlagsMeet(first, p), NEW it \in KeywordItems, NEW w32, NEW q, q = Keyword(p, it, w32)
  PROVE  /\ FlagsMeet(first, q) /\ q.ok = p.ok
         /\ "SHARE_READ" \in q.xmode => "SHARE_READ" \in p.xmode \/ (it.key = "share" /\ "r" \in ToSet(it.arg))
         /\ "SHARE_WRITE" \in q.xmode => "SHARE_WRITE" \in p.xmode \/ (it.key = "share" /\ "w" \in ToSet(it.arg))
         /\ "SHARE_CUSTOM" \in p.xmode \/ it.key = "share" => "SHARE_CUSTOM" \in q.xmode
<1>1. CASE it.key = "mode"
  <2>1. q = [p EXCEPT !.cmode = @ \cup Permissions(it.arg)]
    BY <1>1 DEF Keyword
  <2> QED BY <1>1, <2>1 DEF FlagsMeet, IsMode
<1>2. CASE it.key = "nonblock"
  <2>1. PICK more : /\ more \in SUBSET {"POLLABLE"}
                    /\ q = [p EXCEPT !.flags = @ \cup {"NONBLOCK"}, !.xmode = @ \cup more]
    BY <1>2 DEF Keyword
  <2>2. /\ IsMode(q) /\ q.ok = p.ok
        /\ q.flags = p.flags \cup {"NONBLOCK"} /\ q.xmode = p.xmode \cup more
    BY <2>1 DEF FlagsMeet, IsMode
  <2>3. FlagsMeet(first, q)
    BY <2>2 DEF FlagsMeet
  <2> QED BY <1>2, <2>1, <2>2, <2>3
<1>3. CASE it.key = "share"
  <2>1. it.arg \in Seq(STRING)
    BY DEF KeywordItems
  <2> DEFINE b == ShareBits(it.arg)
  <2>2. /\ "SHARE_READ" \in b => "r" \in ToSet(it.arg)
        /\ "SHARE_WRITE" \in b => "w" \in ToSet(it.arg)
    BY <2>1, ShareBitsNamed
  <2> HIDE DEF b
  <2>3. PICK old : old \subseteq p.xmode /\ Shared(p.xmode, it.arg) = old \cup b \cup {"SHARE_CUSTOM", "SYSOPEN"}
    BY DEF Shared, b
  <2>4. q = [p EXCEPT !.xmode = Shared(@, it.arg)]
    BY <1>3 DEF Keyword
  <2> QED BY <1>3, <2>2, <2>3, <2>4 DEF FlagsMeet, IsMode
<1>4. CASE it.key \notin {"mode", "nonblock", "share"}
  <2>1. q = [p EXCEPT !.xmode = @ \cup XFlag(it.key)]
    BY <1>4 DEF Keyword
  <2>2. XFlag(it.key) \subseteq {"SAMETHREAD", "SYSOPEN", "POLLABLE", "SEQUENTIAL", "WIPE"}
    BY DEF XFlag
  <2> QED BY <1>4, <2>1, <2>2 DEF FlagsMeet, IsMode
<1> QED BY <1>1, <1>2, <1>3, <1>4

\* After k keywords: what the letters left still holds, and, unless a wipe jumped over some,
\* whoever named share modes shares what was named and nothing else.
Wipes(items) == \E i \in 1..Len(items) : items[i].key = "wipe"
SharesWith(items, k, letter) == \E i \in 1..k : items[i].key = "share" /\ letter \in ToSet(items[i].arg)
NamesShare(items, k) == \E i \in 1..k : items[i].key = "share"
SharesMeet(items, k, p) ==
  /\ p.ok /\ NamesShare(items, k) => "SHARE_CUSTOM" \in p.xmode
  /\ "SHARE_READ" \in p.xmode => SharesWith(items, k, "r")
  /\ "SHARE_WRITE" \in p.xmode => SharesWith(items, k, "w")
ItemsKept(first, items, k, acc) ==
  /\ acc = [p |-> acc.p, skip |-> acc.skip]
  /\ FlagsMeet(first, acc.p)
  /\ ~Wipes(items) => acc.skip = 0 /\ SharesMeet(items, k, acc.p)

LEMMA SharesGrow ==
  ASSUME NEW items \in Seq(KeywordItems), NEW k \in Nat, k < Len(items), NEW p, NEW q, NEW it, it = items[k + 1],
         SharesMeet(items, k, p), q.ok = p.ok,
         "SHARE_READ" \in q.xmode => "SHARE_READ" \in p.xmode \/ (it.key = "share" /\ "r" \in ToSet(it.arg)),
         "SHARE_WRITE" \in q.xmode => "SHARE_WRITE" \in p.xmode \/ (it.key = "share" /\ "w" \in ToSet(it.arg)),
         "SHARE_CUSTOM" \in p.xmode \/ it.key = "share" => "SHARE_CUSTOM" \in q.xmode
  PROVE  SharesMeet(items, k + 1, q)
<1>1. k + 1 \in 1..k + 1 /\ \A i \in 1..k : i \in 1..k + 1
  OBVIOUS
<1>2. \A i \in 1..k + 1 : i \in 1..k \/ i = k + 1
  OBVIOUS
<1>3. q.ok /\ NamesShare(items, k + 1) => "SHARE_CUSTOM" \in q.xmode
  BY <1>2 DEF SharesMeet, NamesShare
<1>4. "SHARE_READ" \in q.xmode => SharesWith(items, k + 1, "r")
  BY <1>1 DEF SharesMeet, SharesWith
<1>5. "SHARE_WRITE" \in q.xmode => SharesWith(items, k + 1, "w")
  BY <1>1 DEF SharesMeet, SharesWith
<1> QED BY <1>3, <1>4, <1>5 DEF SharesMeet

LEMMA SharesAfterError ==
  ASSUME NEW items, NEW k \in Nat, NEW p, SharesMeet(items, k, p), ~p.ok PROVE SharesMeet(items, k + 1, p)
<1>1. \A i \in 1..k : i \in 1..k + 1
  OBVIOUS
<1> QED BY <1>1 DEF SharesMeet, SharesWith

LEMMA ItemKeeps ==
  ASSUME NEW first, NEW items \in Seq(KeywordItems), NEW k \in Nat, k < Len(items), NEW w32, NEW beyond,
         NEW acc, ItemsKept(first, items, k, acc)
  PROVE  ItemsKept(first, items, k + 1, ParseItem(acc, items, k + 1, w32, beyond))
<1> DEFINE it == items[k + 1]
           after == ParseItem(acc, items, k + 1, w32, beyond)
           q == Keyword(acc.p, it, w32)
<1> SUFFICES ItemsKept(first, items, k + 1, after)
  OBVIOUS
<1>1. it \in KeywordItems /\ k + 1 \in 1..Len(items)
  OBVIOUS
<1>2. /\ FlagsMeet(first, q) /\ q.ok = acc.p.ok
      /\ "SHARE_READ" \in q.xmode => "SHARE_READ" \in acc.p.xmode \/ (it.key = "share" /\ "r" \in ToSet(it.arg))
      /\ "SHARE_WRITE" \in q.xmode => "SHARE_WRITE" \in acc.p.xmode \/ (it.key = "share" /\ "w" \in ToSet(it.arg))
      /\ "SHARE_CUSTOM" \in acc.p.xmode \/ it.key = "share" => "SHARE_CUSTOM" \in q.xmode
  <2> HIDE DEF it
  <2> QED BY <1>1, KeywordKeeps DEF ItemsKept
<1>3. CASE ~acc.p.ok
  <2>1. after = acc
    BY <1>3 DEF ParseItem
  <2> HIDE DEF after
  <2>2. ~Wipes(items) => SharesMeet(items, k + 1, acc.p)
    BY <1>3, SharesAfterError DEF ItemsKept
  <2> QED BY <2>1, <2>2 DEF ItemsKept
<1>4. CASE acc.p.ok /\ acc.skip > 0
  <2>1. after = [acc EXCEPT !.skip = @ - 1]
    BY <1>4 DEF ParseItem
  <2>2. after.p = acc.p /\ after = [p |-> after.p, skip |-> after.skip]
    BY <2>1 DEF ItemsKept
  <2>3. Wipes(items)
    <3>1. ~(0 > 0)
      OBVIOUS
    <3> QED BY <1>4, <3>1 DEF ItemsKept
  <2> HIDE DEF after
  <2> QED BY <2>2, <2>3 DEF ItemsKept
<1>5. CASE acc.p.ok /\ ~(acc.skip > 0) /\ it.key = "wipe"
  <2>1. Wipes(items)
    BY <1>1, <1>5 DEF Wipes
  <2>2. PICK s : after = [acc EXCEPT !.p = ModeError] \/ after = [p |-> q, skip |-> s]
    BY <1>5 DEF ParseItem
  <2> HIDE DEF after, q, it
  <2>3. after = [p |-> after.p, skip |-> after.skip] /\ (after.p = ModeError \/ after.p = q)
    BY <2>2 DEF ItemsKept
  <2>4. FlagsMeet(first, after.p)
    BY <1>2, <2>3, ErrorMeets
  <2> QED BY <2>1, <2>3, <2>4 DEF ItemsKept
<1>6. CASE acc.p.ok /\ ~(acc.skip > 0) /\ it.key # "wipe"
  <2>1. after = [acc EXCEPT !.p = IF GoodTail(it) THEN q ELSE ModeError]
    BY <1>6 DEF ParseItem
  <2> HIDE DEF after, q
  <2>2. /\ after = [p |-> after.p, skip |-> after.skip] /\ after.skip = acc.skip
        /\ after.p = q \/ after.p = ModeError
    BY <2>1 DEF ItemsKept
  <2>3. ~Wipes(items) => SharesMeet(items, k + 1, q)
    <3> HIDE DEF it
    <3>1. it = items[k + 1]
      BY DEF it
    <3> SUFFICES ASSUME ~Wipes(items) PROVE SharesMeet(items, k + 1, q)
      OBVIOUS
    <3>2. SharesMeet(items, k, acc.p)
      BY DEF ItemsKept
    <3> QED BY <1>2, <3>1, <3>2, SharesGrow
  <2>4. SharesMeet(items, k + 1, ModeError)
    BY ErrorMeets DEF SharesMeet
  <2>5. FlagsMeet(first, after.p)
    BY <1>2, <2>2, ErrorMeets
  <2>6. ~Wipes(items) => after.skip = 0 /\ SharesMeet(items, k + 1, after.p)
    BY <2>2, <2>3, <2>4 DEF ItemsKept
  <2> QED BY <2>2, <2>5, <2>6 DEF ItemsKept
<1> QED BY <1>3, <1>4, <1>5, <1>6

LEMMA ItemsMeet ==
  ASSUME NEW first, NEW items \in Seq(KeywordItems), NEW w32, NEW beyond,
         NEW start, FlagsMeet(first, start), start.xmode = {}, NEW p, p = ParseItems(start, items, w32, beyond)
  PROVE  FlagsMeet(first, p) /\ (~Wipes(items) => SharesMeet(items, Len(items), p))
<1> DEFINE N == Len(items)
           text == [i \in 1..N |-> i]
           base == [p |-> start, skip |-> 0]
           all == ItemsFolded(base, text, items, w32, beyond)
<1>1. N \in Nat /\ DOMAIN text = 1..N /\ \A i \in 1..N : text[i] = i
  OBVIOUS
<1>2. p = all.p
  BY DEF ParseItems, ItemsFolded
<1>3. Stepwise(ItemFold(items, w32, beyond), base, text, N, all)
  <2> HIDE DEF N, text, base
  <2> QED BY <1>1, ItemsStepwise
<1> HIDE DEF text, all
<1>4. PICK h : /\ h[0] = base /\ h[N] = all
               /\ \A n \in 0..(N - 1) : h[n + 1] = FoldStep(ItemFold(items, w32, beyond), h[n], text[n + 1])
  BY <1>3 DEF Stepwise
<1> DEFINE T == {n \in Nat : n <= N => ItemsKept(first, items, n, h[n])}
<1>5. 0 \in T
  <2>1. base = [p |-> base.p, skip |-> base.skip] /\ base.p = start /\ base.skip = 0
    OBVIOUS
  <2>2. ~NamesShare(items, 0)
    BY DEF NamesShare
  <2>3. SharesMeet(items, 0, start)
    BY <2>2 DEF SharesMeet
  <2> HIDE DEF base
  <2>4. ItemsKept(first, items, 0, base)
    BY <2>1, <2>3 DEF ItemsKept
  <2> QED BY <1>4, <2>4
<1> HIDE DEF base
<1>6. ASSUME NEW n \in Nat, n \in T PROVE n + 1 \in T
  <2> SUFFICES ASSUME n + 1 <= N PROVE ItemsKept(first, items, n + 1, h[n + 1])
    OBVIOUS
  <2>1. n \in 0..(N - 1) /\ n <= N /\ n < Len(items) /\ n + 1 \in 1..N
    BY <1>1
  <2>2. h[n + 1] = ParseItem(h[n], items, n + 1, w32, beyond)
    BY <1>1, <1>4, <2>1 DEF FoldStep, ItemFold, FoldOver
  <2>3. ItemsKept(first, items, n, h[n])
    BY <1>6, <2>1
  <2> QED BY <2>1, <2>2, <2>3, ItemKeeps
<1> HIDE DEF T
<1>7. N \in T
  BY <1>1, <1>5, <1>6, Induction
<1>8. ItemsKept(first, items, N, all)
  <2> HIDE DEF N
  <2> QED BY <1>1, <1>4, <1>7 DEF T
<1> QED BY <1>2, <1>8 DEF ItemsKept

\* What parse_mode returns.
LEMMA ParseModeMeets ==
  ASSUME NEW first, NEW letters \in Seq(STRING), NEW items \in Seq(KeywordItems), NEW w32,
         NEW p \in parse_mode(first, letters, items, w32)
  PROVE  FlagsMeet(first, p) /\ (~Wipes(items) => SharesMeet(items, Len(items), p))
<1> DEFINE start == FoldLeft(NextLetter, FirstLetter(first), letters)
<1>1. FlagsMeet(first, start) /\ start.xmode = {}
  BY LettersMeet
<1>2. CASE ~start.ok
  <2>1. p = ModeError
    BY <1>2 DEF parse_mode
  <2>2. SharesMeet(items, Len(items), ModeError)
    BY ErrorMeets DEF SharesMeet
  <2> QED BY <2>1, <2>2, ErrorMeets
<1>3. CASE start.ok
  <2>1. PICK beyond \in BOOLEAN :
          LET q == ParseItems(start, items, w32, beyond)
          IN p = IF q.ok /\ ~GotMode(items) THEN [q EXCEPT !.cmode = DefaultMode] ELSE q
    BY <1>3 DEF parse_mode
  <2> DEFINE q == ParseItems(start, items, w32, beyond)
  <2> HIDE DEF start
  <2>2. FlagsMeet(first, q) /\ (~Wipes(items) => SharesMeet(items, Len(items), q))
    BY <1>1, ItemsMeet
  <2>3. p = q \/ p = [q EXCEPT !.cmode = DefaultMode]
    BY <2>1
  <2> HIDE DEF q
  <2>4. IsMode(p) /\ p.ok = q.ok /\ p.flags = q.flags /\ p.xmode = q.xmode
    BY <2>2, <2>3 DEF FlagsMeet, IsMode
  <2>5. FlagsMeet(first, p)
    BY <2>2, <2>4 DEF FlagsMeet
  <2>6. ~Wipes(items) => SharesMeet(items, Len(items), p)
    BY <2>2, <2>4 DEF SharesMeet
  <2> QED BY <2>5, <2>6
<1> QED BY <1>2, <1>3

\* A string that does not append: what CreateFile makes of its flags is what open(2) does.
LEMMA CreateIsOpen ==
  ASSUME NEW first, NEW p, FlagsMeet(first, p), "APPEND" \notin p.flags, NEW f \in {"absent", "empty", "full"}
  PROVE  CreateFile(f, Disposition(p)) = SystemOpen(f, p)
<1>1. CASE {"CREAT", "EXCL"} \subseteq p.flags
  <2>1. Disposition(p) = "CREATE_NEW"
    BY <1>1 DEF Disposition
  <2> QED BY <1>1, <2>1 DEF CreateFile, SystemOpen, Opens
<1>2. CASE ~({"CREAT", "EXCL"} \subseteq p.flags) /\ "TRUNC" \in p.flags
  <2>1. Disposition(p) = "CREATE_ALWAYS"
    BY <1>2 DEF Disposition
  <2>2. "CREAT" \in p.flags /\ "EXCL" \notin p.flags
    BY <1>2 DEF FlagsMeet
  <2> QED BY <1>2, <2>1, <2>2 DEF CreateFile, SystemOpen, Opens
<1>3. CASE ~({"CREAT", "EXCL"} \subseteq p.flags) /\ "TRUNC" \notin p.flags /\ "CREAT" \in p.flags
  <2>1. Disposition(p) = "OPEN_ALWAYS"
    BY <1>3 DEF Disposition
  <2> QED BY <1>3, <2>1 DEF CreateFile, SystemOpen, Opens
<1>4. CASE "TRUNC" \notin p.flags /\ "CREAT" \notin p.flags
  <2>1. Disposition(p) = "OPEN_EXISTING"
    BY <1>4 DEF Disposition
  <2> QED BY <1>4, <2>1 DEF CreateFile, SystemOpen, Opens
<1> QED BY <1>1, <1>2, <1>3, <1>4

\* A file that is only read is neither created nor emptied.
LEMMA ReadingChangesNothing ==
  ASSUME NEW p, FlagsMeet("r", p), NEW f \in {"absent", "empty", "full"}
  PROVE  /\ SystemOpen(f, p).file = f
         /\ CreateFile(f, Disposition(p)).file = f
<1>1. "TRUNC" \notin p.flags /\ "CREAT" \notin p.flags
  BY DEF FlagsMeet
<1>2. Disposition(p) = "OPEN_EXISTING"
  BY <1>1 DEF Disposition
<1>3. SystemOpen(f, p).file = f
  BY <1>1 DEF SystemOpen, Opens
<1>4. CreateFile(f, Disposition(p)).file = f
  BY <1>2 DEF CreateFile, Opens
<1> QED BY <1>3, <1>4

LEMMA ShareIs ==
  ASSUME NEW p, "SHARE_CUSTOM" \in p.xmode
  PROVE  /\ "read" \in ShareMode(p) => "SHARE_READ" \in p.xmode
         /\ "write" \in ShareMode(p) => "SHARE_WRITE" \in p.xmode
  BY DEF ShareMode

\* FileOpenedAlike of what one string opened.
OpenedAlike(o) ==
  /\ o.kind = "sysfile" /\ "APPEND" \notin o.p.flags =>
       CreateFile(o.before, Disposition(o.p)) = SystemOpen(o.before, o.p)
  /\ o.first = "r" => o.file = o.before
  /\ o.kind = "sysfile" /\ NamesShare(o.items, Len(o.items)) /\ ~Wipes(o.items) =>
       /\ "read" \in o.share => SharesWith(o.items, Len(o.items), "r")
       /\ "write" \in o.share => SharesWith(o.items, Len(o.items), "w")

LEMMA AlikeIs == ASSUME OpenedAlike(openedMode) PROVE FileOpenedAlike
<1> DEFINE o == openedMode
           Shares == {i \in 1..Len(o.items) : o.items[i].key = "share"}
           Named == UNION {ToSet(o.items[i].arg) : i \in Shares}
<1>1. Shares # {} => NamesShare(o.items, Len(o.items))
  BY DEF NamesShare
<1>2. "wipe" \notin {o.items[i].key : i \in 1..Len(o.items)} => ~Wipes(o.items)
  BY DEF Wipes
<1>3. /\ SharesWith(o.items, Len(o.items), "r") => "r" \in Named
      /\ SharesWith(o.items, Len(o.items), "w") => "w" \in Named
  BY DEF SharesWith
<1>4. o.kind = "sysfile" /\ Shares # {} /\ "wipe" \notin {o.items[i].key : i \in 1..Len(o.items)} =>
        /\ "read" \in o.share => "r" \in Named
        /\ "write" \in o.share => "w" \in Named
  <2> HIDE DEF Shares, Named
  <2> QED BY <1>1, <1>2, <1>3 DEF OpenedAlike
<1>5. /\ o.kind = "sysfile" /\ "APPEND" \notin o.p.flags =>
           CreateFile(o.before, Disposition(o.p)) = SystemOpen(o.before, o.p)
      /\ o.first = "r" => o.file = o.before
  BY DEF OpenedAlike
<1> QED BY <1>4, <1>5 DEF FileOpenedAlike

LEMMA OpeningAlike == ASSUME OpenModeNext PROVE OpenedAlike(openedMode')
<1>1. PICK first \in {"r", "w", "a", "q"}, letters \in ModeLetters, items \in ModeItems, w32 \in BOOLEAN :
      \E p \in parse_mode(first, letters, items, w32) :
        LET Done(kind, cookie, before, file) ==
              openedMode' = [first |-> first, items |-> items, p |-> p, kind |-> kind, cookie |-> cookie,
                             before |-> before, file |-> file, share |-> ShareMode(p)]
        IN \/ ~p.ok /\ Done("none", NoCookie, "absent", "absent")
           \/ p.ok /\ \E kind \in IF w32 THEN {"fd", "sock", "w32", "fp"} ELSE {"fd", "fp"}, nc \in BOOLEAN :
                      \E c \in Cookies(kind, p, nc) : Done(kind, c, "absent", "absent")
           \/ p.ok /\ \E f \in {"absent", "empty", "full"} :
                      IF w32 /\ "SYSOPEN" \in p.xmode
                      THEN \E r \in func_file_create_w32(f, p) : Done("sysfile", r.cookie, f, r.file)
                      ELSE \E r \in func_file_create(f, p) : Done("file", r.cookie, f, r.file)
  BY DEF OpenModeNext
<1>2. PICK p \in parse_mode(first, letters, items, w32) :
        LET Done(kind, cookie, before, file) ==
              openedMode' = [first |-> first, items |-> items, p |-> p, kind |-> kind, cookie |-> cookie,
                             before |-> before, file |-> file, share |-> ShareMode(p)]
        IN \/ ~p.ok /\ Done("none", NoCookie, "absent", "absent")
           \/ p.ok /\ \E kind \in IF w32 THEN {"fd", "sock", "w32", "fp"} ELSE {"fd", "fp"}, nc \in BOOLEAN :
                      \E c \in Cookies(kind, p, nc) : Done(kind, c, "absent", "absent")
           \/ p.ok /\ \E f \in {"absent", "empty", "full"} :
                      IF w32 /\ "SYSOPEN" \in p.xmode
                      THEN \E r \in func_file_create_w32(f, p) : Done("sysfile", r.cookie, f, r.file)
                      ELSE \E r \in func_file_create(f, p) : Done("file", r.cookie, f, r.file)
  BY <1>1
<1> DEFINE Done(kind, cookie, before, file) ==
      [first |-> first, items |-> items, p |-> p, kind |-> kind, cookie |-> cookie,
       before |-> before, file |-> file, share |-> ShareMode(p)]
<1>3. FlagsMeet(first, p) /\ (~Wipes(items) => SharesMeet(items, Len(items), p))
  <2>1. letters \in Seq(STRING) /\ items \in Seq(KeywordItems)
    BY OpenModeAssumption DEF KeywordItems
  <2> QED BY <2>1, ParseModeMeets
<1>4. CASE \E cookie, kind : kind # "sysfile" /\ openedMode' = Done(kind, cookie, "absent", "absent")
  BY <1>4 DEF OpenedAlike
<1>5. ASSUME NEW f \in {"absent", "empty", "full"}, NEW r \in func_file_create(f, p),
             openedMode' = Done("file", r.cookie, f, r.file)
      PROVE  OpenedAlike(openedMode')
  <2>1. first = "r" => r.file = f
    <3> SUFFICES ASSUME first = "r" PROVE r.file = f
      OBVIOUS
    <3>1. SystemOpen(f, p).file = f
      BY <1>3, ReadingChangesNothing
    <3>2. \E b : r = [cookie |-> b, file |-> f] \/ r = [cookie |-> b, file |-> SystemOpen(f, p).file]
      BY DEF func_file_create
    <3> QED BY <3>1, <3>2
  <2> QED BY <1>5, <2>1 DEF OpenedAlike
<1>6. ASSUME p.ok, NEW f \in {"absent", "empty", "full"}, NEW r \in func_file_create_w32(f, p),
             openedMode' = Done("sysfile", r.cookie, f, r.file)
      PROVE  OpenedAlike(openedMode')
  <2>1. first = "r" => r.file = f
    <3> SUFFICES ASSUME first = "r" PROVE r.file = f
      OBVIOUS
    <3>1. CreateFile(f, Disposition(p)).file = f
      BY <1>3, ReadingChangesNothing
    <3>2. \E b : r = [cookie |-> b, file |-> f] \/ r = [cookie |-> b, file |-> CreateFile(f, Disposition(p)).file]
      BY DEF func_file_create_w32
    <3> QED BY <3>1, <3>2
  <2>2. "APPEND" \notin p.flags => CreateFile(f, Disposition(p)) = SystemOpen(f, p)
    BY <1>3, CreateIsOpen
  <2>3. NamesShare(items, Len(items)) /\ ~Wipes(items) =>
          /\ "read" \in ShareMode(p) => SharesWith(items, Len(items), "r")
          /\ "write" \in ShareMode(p) => SharesWith(items, Len(items), "w")
    BY <1>3, <1>6, ShareIs DEF SharesMeet
  <2>4. /\ openedMode'.kind = "sysfile" /\ openedMode'.first = first /\ openedMode'.items = items /\ openedMode'.p = p
        /\ openedMode'.before = f /\ openedMode'.file = r.file /\ openedMode'.share = ShareMode(p)
    BY <1>6
  <2> QED BY <2>1, <2>2, <2>3, <2>4 DEF OpenedAlike
<1>7. \/ \E cookie, kind : kind # "sysfile" /\ openedMode' = Done(kind, cookie, "absent", "absent")
      \/ \E f \in {"absent", "empty", "full"} : \E r \in func_file_create(f, p) : openedMode' = Done("file", r.cookie, f, r.file)
      \/ p.ok /\ \E f \in {"absent", "empty", "full"} : \E r \in func_file_create_w32(f, p) :
                   openedMode' = Done("sysfile", r.cookie, f, r.file)
  BY <1>2
<1> QED BY <1>4, <1>5, <1>6, <1>7

\* CreateFile does to the file what open(2) does for the same mode string, a file that is only
\* read never changes, and a file is shared with nobody but those its share= words name
\* (parse_mode, func_file_create_w32, estream.c).
THEOREM FilesOpenedAlike == OpenModeSpec => []FileOpenedAlike
<1> DEFINE Alike == OpenedAlike(openedMode)
<1>1. OpenModeInit => Alike
  <2>1. NoMode.kind = "none" /\ NoMode.first = ""
    BY DEF NoMode
  <2> QED BY <2>1 DEF OpenModeInit, OpenedAlike
<1>2. Alike /\ [OpenModeNext]_openedMode => Alike'
  <2>1. CASE OpenModeNext
    BY <2>1, OpeningAlike
  <2>2. CASE UNCHANGED openedMode
    BY <2>2
  <2> QED BY <2>1, <2>2
<1>3. Alike => FileOpenedAlike
  BY AlikeIs
<1> HIDE DEF Alike
<1> QED BY <1>1, <1>2, <1>3, PTL DEF OpenModeSpec

-----------------------------------------------------------------------------
(***************************************************************************)
(* Data made printable.                                                     *)
(***************************************************************************)
ReadFunStep(g, base, text, letters, s) ==
  IF s = {} THEN base ELSE ReadStep(g[s \ {Top(s)}], text[Top(s)], letters)
ReadFun(base, text, letters, D) == CHOOSE g : g = [s \in SUBSET D |-> ReadFunStep(g, base, text, letters, s)]
WidthFunStep(g, base, text, s) == IF s = {} THEN base ELSE WidthStep(g[s \ {Top(s)}], text[Top(s)])
WidthFun(base, text, D) == CHOOSE g : g = [s \in SUBSET D |-> WidthFunStep(g, base, text, s)]
RoomFunStep(g, base, text, s) == IF s = {} THEN base ELSE RoomStep(g[s \ {Top(s)}], text[Top(s)])
RoomFun(base, text, D) == CHOOSE g : g = [s \in SUBSET D |-> RoomFunStep(g, base, text, s)]
MarkFunStep(g, base, text, str, s) == IF s = {} THEN base ELSE MarkStep(g[s \ {Top(s)}], str, text[Top(s)])
MarkFun(base, text, str, D) == CHOOSE g : g = [s \in SUBSET D |-> MarkFunStep(g, base, text, str, s)]

\* What a reader is in after a text: in the text or in an escape, and what it got.
ReaderStart == [at |-> "text", got |-> <<>>]
ReaderAfter(text, letters) == FoldLeft(LAMBDA acc, t : ReadStep(acc, t, letters), [at |-> "text", got |-> <<>>], text)

LEMMA ReadingStepwise ==
  ASSUME NEW N \in Nat, NEW text, DOMAIN text = 1..N, NEW letters
  PROVE  Stepwise(ReadFold(letters), ReaderStart, text, N, ReaderAfter(text, letters))
<1> DEFINE G == ReadFun(ReaderStart, text, letters, 1..N)
           k == ReadFold(letters)
<1>1. ReaderAfter(text, letters) = ReadFun(ReaderStart, text, letters, DOMAIN text)[DOMAIN text]
  BY DEF ReaderAfter, ReaderStart, FoldLeft, MapThenFoldSet, ReadFun, ReadFunStep, Top, Max
<1>2. \A g, s : FoldFunStep(g, k, ReaderStart, text, s) = ReadFunStep(g, ReaderStart, text, letters, s)
  BY DEF FoldFunStep, ReadFunStep, FoldStep, ReadFold, FoldOver
<1> HIDE DEF k
<1>3. \E g : g = [s \in SUBSET (1..N) |-> ReadFunStep(g, ReaderStart, text, letters, s)]
  <2>1. PICK g : IsFoldFun(g, k, ReaderStart, text, N)
    BY FoldFunExists
  <2>2. g = [s \in SUBSET (1..N) |-> ReadFunStep(g, ReaderStart, text, letters, s)]
    BY <1>2, <2>1 DEF IsFoldFun
  <2> QED BY <2>2
<1>4. G = [s \in SUBSET (1..N) |-> ReadFunStep(G, ReaderStart, text, letters, s)]
  BY <1>3 DEF ReadFun
<1> HIDE DEF G
<1>5. IsFoldFun(G, k, ReaderStart, text, N)
  BY <1>2, <1>4 DEF IsFoldFun
<1>6. Stepwise(k, ReaderStart, text, N, G[1..N])
  BY <1>5, FunIsStepwise
<1> QED BY <1>1, <1>6 DEF G, k

LEMMA WidthStepwise ==
  ASSUME NEW N \in Nat, NEW text, DOMAIN text = 1..N
  PROVE  Stepwise(WidthFold, 0, text, N, WidthOf(text))
<1> DEFINE G == WidthFun(0, text, 1..N)
<1>1. WidthOf(text) = WidthFun(0, text, DOMAIN text)[DOMAIN text]
  BY DEF WidthOf, FoldLeft, MapThenFoldSet, WidthFun, WidthFunStep, Top, Max
<1>2. \A g, s : FoldFunStep(g, WidthFold, 0, text, s) = WidthFunStep(g, 0, text, s)
  BY DEF FoldFunStep, WidthFunStep, FoldStep, WidthFold, FoldOver
<1>3. \E g : g = [s \in SUBSET (1..N) |-> WidthFunStep(g, 0, text, s)]
  <2>1. PICK g : IsFoldFun(g, WidthFold, 0, text, N)
    BY FoldFunExists
  <2>2. g = [s \in SUBSET (1..N) |-> WidthFunStep(g, 0, text, s)]
    BY <1>2, <2>1 DEF IsFoldFun
  <2> QED BY <2>2
<1>4. G = [s \in SUBSET (1..N) |-> WidthFunStep(G, 0, text, s)]
  BY <1>3 DEF WidthFun
<1> HIDE DEF G
<1>5. IsFoldFun(G, WidthFold, 0, text, N)
  BY <1>2, <1>4 DEF IsFoldFun
<1>6. Stepwise(WidthFold, 0, text, N, G[1..N])
  BY <1>5, FunIsStepwise
<1> QED BY <1>1, <1>6 DEF G

RoomSum(text) == FoldLeft(RoomStep, 0, text)
LEMMA RoomStepwise ==
  ASSUME NEW N \in Nat, NEW text, DOMAIN text = 1..N
  PROVE  Stepwise(RoomFold, 0, text, N, RoomSum(text))
<1> DEFINE G == RoomFun(0, text, 1..N)
<1>1. RoomSum(text) = RoomFun(0, text, DOMAIN text)[DOMAIN text]
  BY DEF RoomSum, FoldLeft, MapThenFoldSet, RoomFun, RoomFunStep, Top, Max
<1>2. \A g, s : FoldFunStep(g, RoomFold, 0, text, s) = RoomFunStep(g, 0, text, s)
  BY DEF FoldFunStep, RoomFunStep, FoldStep, RoomFold, FoldOver
<1>3. \E g : g = [s \in SUBSET (1..N) |-> RoomFunStep(g, 0, text, s)]
  <2>1. PICK g : IsFoldFun(g, RoomFold, 0, text, N)
    BY FoldFunExists
  <2>2. g = [s \in SUBSET (1..N) |-> RoomFunStep(g, 0, text, s)]
    BY <1>2, <2>1 DEF IsFoldFun
  <2> QED BY <2>2
<1>4. G = [s \in SUBSET (1..N) |-> RoomFunStep(G, 0, text, s)]
  BY <1>3 DEF RoomFun
<1> HIDE DEF G
<1>5. IsFoldFun(G, RoomFold, 0, text, N)
  BY <1>2, <1>4 DEF IsFoldFun
<1>6. Stepwise(RoomFold, 0, text, N, G[1..N])
  BY <1>5, FunIsStepwise
<1> QED BY <1>1, <1>6 DEF G

MarkFolded(str, text) == FoldLeft(LAMBDA mark, i : MarkStep(mark, str, i), 0, text)
LEMMA MarkStepwise ==
  ASSUME NEW N \in Nat, NEW text, DOMAIN text = 1..N, NEW str
  PROVE  Stepwise(MarkFold(str), 0, text, N, MarkFolded(str, text))
<1> DEFINE G == MarkFun(0, text, str, 1..N)
           k == MarkFold(str)
<1>1. MarkFolded(str, text) = MarkFun(0, text, str, DOMAIN text)[DOMAIN text]
  BY DEF MarkFolded, FoldLeft, MapThenFoldSet, MarkFun, MarkFunStep, Top, Max
<1>2. \A g, s : FoldFunStep(g, k, 0, text, s) = MarkFunStep(g, 0, text, str, s)
  BY DEF FoldFunStep, MarkFunStep, FoldStep, MarkFold, FoldOver
<1> HIDE DEF k
<1>3. \E g : g = [s \in SUBSET (1..N) |-> MarkFunStep(g, 0, text, str, s)]
  <2>1. PICK g : IsFoldFun(g, k, 0, text, N)
    BY FoldFunExists
  <2>2. g = [s \in SUBSET (1..N) |-> MarkFunStep(g, 0, text, str, s)]
    BY <1>2, <2>1 DEF IsFoldFun
  <2> QED BY <2>2
<1>4. G = [s \in SUBSET (1..N) |-> MarkFunStep(G, 0, text, str, s)]
  BY <1>3 DEF MarkFun
<1> HIDE DEF G
<1>5. IsFoldFun(G, k, 0, text, N)
  BY <1>2, <1>4 DEF IsFoldFun
<1>6. Stepwise(k, 0, text, N, G[1..N])
  BY <1>5, FunIsStepwise
<1> QED BY <1>1, <1>6 DEF G, k

\* A sequence of sequences is joined by a recursive function of the library's, which takes
\* the same steps.
JoinFun(ss) == CHOOSE f : f = [i \in 1..Len(ss) |-> IF i = 1 THEN ss[i] ELSE f[i - 1] \o ss[i]]
LEMMA JoiningStepwise ==
  ASSUME NEW S, NEW ss \in Seq(Seq(S)) PROVE Stepwise(JoinFold, <<>>, ss, Len(ss), FlattenSeq(ss))
<1> DEFINE N == Len(ss)
           f == JoinFun(ss)
<1>1. N \in Nat /\ \A i \in 1..N : ss[i] \in Seq(S)
  OBVIOUS
<1>2. \E g : IsFoldFun(g, JoinFold, <<>>, ss, N)
  BY <1>1, FoldFunExists
<1>3. PICK r : Stepwise(JoinFold, <<>>, ss, N, r)
  <2>1. PICK g : IsFoldFun(g, JoinFold, <<>>, ss, N)
    BY <1>2
  <2>2. Stepwise(JoinFold, <<>>, ss, N, g[1..N])
    BY <1>1, <2>1, FunIsStepwise
  <2> QED BY <2>2
<1>4. PICK h : /\ h[0] = <<>> /\ h[N] = r
               /\ \A n \in 0..(N - 1) : h[n + 1] = h[n] \o ss[n + 1]
  <2>1. \A acc, x : FoldStep(JoinFold, acc, x) = acc \o x
    BY DEF FoldStep, JoinFold, FoldOver
  <2>2. PICK h : /\ h[0] = <<>> /\ h[N] = r
                 /\ \A n \in 0..(N - 1) : h[n + 1] = FoldStep(JoinFold, h[n], ss[n + 1])
    BY <1>3 DEF Stepwise
  <2>3. \A n \in 0..(N - 1) : h[n + 1] = h[n] \o ss[n + 1]
    <3> HIDE DEF N
    <3> QED BY <2>1, <2>2
  <2> QED BY <2>2, <2>3
<1>5. CASE N = 0
  <2>1. FlattenSeq(ss) = <<>> /\ h[0] = r
    BY <1>4, <1>5 DEF FlattenSeq
  <2> QED BY <1>3, <1>4, <1>5, <2>1
<1>6. CASE N # 0
  <2>1. FlattenSeq(ss) = f[N]
    BY <1>6 DEF FlattenSeq, JoinFun
  <2>2. h[1] = ss[1]
    <3>1. 0 \in 0..(N - 1) /\ 1 \in 1..N /\ 0 + 1 = 1
      BY <1>1, <1>6
    <3>2. h[1] = <<>> \o ss[1] /\ ss[1] \in Seq(S)
      BY <1>1, <1>4, <3>1
    <3> QED BY <3>2
  <2> DEFINE e == [i \in 1..N |-> h[i]]
  <2>3. \A i \in 1..N : e[i] = IF i = 1 THEN ss[i] ELSE e[i - 1] \o ss[i]
    <3> SUFFICES ASSUME NEW i \in 1..N PROVE e[i] = IF i = 1 THEN ss[i] ELSE e[i - 1] \o ss[i]
      OBVIOUS
    <3>1. CASE i = 1
      BY <2>2, <3>1
    <3>2. CASE i # 1
      <4>1. i - 1 \in 0..(N - 1) /\ i - 1 \in 1..N /\ (i - 1) + 1 = i
        BY <1>1, <3>2
      <4>2. h[i] = h[i - 1] \o ss[i]
        <5> HIDE DEF N
        <5> QED BY <1>4, <4>1
      <4>3. e[i] = h[i] /\ e[i - 1] = h[i - 1]
        BY <4>1
      <4> HIDE DEF e
      <4> QED BY <3>2, <4>2, <4>3
    <3> QED BY <3>1, <3>2
  <2>4. e = [i \in 1..N |-> IF i = 1 THEN ss[i] ELSE e[i - 1] \o ss[i]]
    BY <2>3, SMTT(60)
  <2> HIDE DEF e
  <2>5. f = [i \in 1..N |-> IF i = 1 THEN ss[i] ELSE f[i - 1] \o ss[i]]
    BY <2>4, ZenonT(60) DEF JoinFun
  <2> HIDE DEF f
  <2> DEFINE T == {n \in Nat : n + 1 <= N => f[n + 1] = h[n + 1]}
  <2>6. 0 \in T
    BY <1>6, <2>2, <2>5
  <2>7. ASSUME NEW n \in Nat, n \in T PROVE n + 1 \in T
    <3> SUFFICES ASSUME (n + 1) + 1 <= N PROVE f[(n + 1) + 1] = h[(n + 1) + 1]
      OBVIOUS
    <3>1. (n + 1) + 1 \in 1..N /\ (n + 1) + 1 # 1 /\ ((n + 1) + 1) - 1 = n + 1 /\ n + 1 <= N /\ n + 1 \in 0..(N - 1)
      BY <1>1
    <3>2. f[(n + 1) + 1] = f[n + 1] \o ss[(n + 1) + 1]
      BY <2>5, <3>1
    <3> QED BY <1>4, <2>7, <3>1, <3>2
  <2> HIDE DEF T
  <2>8. N - 1 \in T
    <3>1. N - 1 \in Nat
      BY <1>1, <1>6
    <3>2. \A n \in Nat : n \in T
      BY <2>6, <2>7, Induction
    <3> QED BY <3>1, <3>2
  <2>9. f[N] = h[N]
    BY <1>1, <1>6, <2>8 DEF T
  <2> QED BY <1>3, <1>4, <2>1, <2>9
<1> QED BY <1>5, <1>6

\* The first n of the sequences P, joined.
FirstOnes(P, n) == FlattenSeq([i \in 1..n |-> P[i]])

AllIn(P, n, S) == \A i \in 1..n : P[i] \in Seq(S)

LEMMA JoinGrows ==
  ASSUME NEW S, NEW n \in Nat, NEW P, AllIn(P, n + 1, S)
  PROVE  FirstOnes(P, n + 1) = FirstOnes(P, n) \o P[n + 1]
<1> DEFINE t == [i \in 1..n |-> P[i]]
           u == [i \in 1..n + 1 |-> P[i]]
<1>1. t \in Seq(Seq(S)) /\ Len(t) = n
  BY DEF AllIn
<1>2. u \in Seq(Seq(S)) /\ Len(u) = n + 1
  BY DEF AllIn
<1>3. (\A i \in 1..n : u[i] = t[i]) /\ u[n + 1] = P[n + 1]
  OBVIOUS
<1> HIDE DEF t, u
<1>4. Stepwise(JoinFold, <<>>, t, n, FlattenSeq(t))
  BY <1>1, JoiningStepwise
<1>5. Stepwise(JoinFold, <<>>, u, n + 1, FlattenSeq(u))
  BY <1>2, JoiningStepwise
<1>6. FlattenSeq(u) = FoldStep(JoinFold, FlattenSeq(t), u[n + 1])
  BY <1>3, <1>4, <1>5, OneStepMore
<1>7. FlattenSeq(u) = FlattenSeq(t) \o P[n + 1]
  BY <1>3, <1>6 DEF FoldStep, JoinFold, FoldOver
<1> QED BY <1>7 DEF t, u, FirstOnes

LEMMA JoinStarts == ASSUME NEW P PROVE FirstOnes(P, 0) = <<>>
<1>1. [i \in 1..0 |-> P[i]] = <<>>
  OBVIOUS
<1> QED BY <1>1 DEF FirstOnes, FlattenSeq

\* What is joined has the elements of what it is joined from.
HasOnly(text, P, n, S) ==
  /\ text \in Seq(S)
  /\ \A k \in 1..Len(text) : \E i \in 1..n : \E j \in 1..Len(P[i]) : text[k] = P[i][j]

LEMMA JoinHas ==
  ASSUME NEW S, NEW N \in Nat, NEW P, AllIn(P, N, S)
  PROVE  \A n \in 0..N : HasOnly(FirstOnes(P, n), P, n, S)
<1> DEFINE T == {n \in Nat : n <= N => HasOnly(FirstOnes(P, n), P, n, S)}
<1> HIDE DEF T
<1>1. 0 \in T
  <2>1. FirstOnes(P, 0) = <<>>
    BY JoinStarts
  <2>2. <<>> \in Seq(S) /\ ~\E k \in 1..Len(<<>>) : TRUE
    OBVIOUS
  <2>3. HasOnly(FirstOnes(P, 0), P, 0, S)
    BY <2>1, <2>2 DEF HasOnly
  <2> QED BY <2>3 DEF T
<1>2. ASSUME NEW n \in Nat, n \in T PROVE n + 1 \in T
  <2> SUFFICES ASSUME n + 1 <= N PROVE HasOnly(FirstOnes(P, n + 1), P, n + 1, S)
    BY DEF T
  <2> DEFINE a == FirstOnes(P, n)
             b == P[n + 1]
             c == FirstOnes(P, n + 1)
  <2>1. /\ a \in Seq(S)
        /\ \A k \in 1..Len(a) : \E i \in 1..n : \E j \in 1..Len(P[i]) : a[k] = P[i][j]
    BY <1>2 DEF T, HasOnly
  <2>2. b \in Seq(S)
    BY DEF AllIn
  <2>3. c = a \o b
    <3>1. AllIn(P, n + 1, S)
      BY DEF AllIn
    <3> QED BY <3>1, JoinGrows
  <2>4. \A i \in 1..n : i \in 1..n + 1
    OBVIOUS
  <2>5. n + 1 \in 1..n + 1
    OBVIOUS
  <2> HIDE DEF a, c
  <2>6. /\ c \in Seq(S) /\ Len(c) = Len(a) + Len(b) /\ Len(a) \in Nat /\ Len(b) \in Nat
        /\ \A k \in 1..Len(a) : c[k] = a[k]
        /\ \A k \in 1..Len(b) : c[Len(a) + k] = b[k]
    BY <2>1, <2>2, <2>3
  <2> HIDE DEF b
  <2>7. ASSUME NEW k \in 1..Len(c) PROVE \E i \in 1..n + 1 : \E j \in 1..Len(P[i]) : c[k] = P[i][j]
    <3>1. CASE k \in 1..Len(a)
      BY <2>1, <2>4, <2>6, <3>1, ZenonT(60)
    <3>2. CASE k \notin 1..Len(a)
      <4>1. k - Len(a) \in 1..Len(b) /\ Len(a) + (k - Len(a)) = k
        BY <2>6, <3>2
      <4>2. c[k] = b[k - Len(a)]
        BY <2>6, <4>1
      <4> QED BY <2>5, <4>1, <4>2 DEF b
    <3> QED BY <3>1, <3>2
  <2> QED BY <2>6, <2>7 DEF c, HasOnly
<1>3. \A n \in Nat : n \in T
  BY <1>1, <1>2, Induction
<1> QED BY <1>3 DEF T

\* One character more for the reader, and for the width.
LEMMA ReadMore ==
  ASSUME NEW S, NEW text \in Seq(S), NEW x \in S, NEW letters
  PROVE  ReaderAfter(Append(text, x), letters) = ReadStep(ReaderAfter(text, letters), x, letters)
<1> DEFINE u == Append(text, x)
           N == Len(text)
<1>1. /\ N \in Nat /\ DOMAIN text = 1..N /\ DOMAIN u = 1..N + 1 /\ N + 1 \in Nat
      /\ (\A i \in 1..N : u[i] = text[i]) /\ u[N + 1] = x
  OBVIOUS
<1> HIDE DEF u, N
<1>2. Stepwise(ReadFold(letters), ReaderStart, text, N, ReaderAfter(text, letters))
  BY <1>1, ReadingStepwise
<1>3. Stepwise(ReadFold(letters), ReaderStart, u, N + 1, ReaderAfter(u, letters))
  BY <1>1, ReadingStepwise
<1>4. ReaderAfter(u, letters) = FoldStep(ReadFold(letters), ReaderAfter(text, letters), u[N + 1])
  BY <1>1, <1>2, <1>3, OneStepMore
<1> QED BY <1>1, <1>4 DEF FoldStep, ReadFold, FoldOver, u

LEMMA ReadNothing == ASSUME NEW letters PROVE ReaderAfter(<<>>, letters) = ReaderStart
<1>1. DOMAIN <<>> = 1..0 /\ 0 \in Nat
  OBVIOUS
<1> QED BY <1>1, ReadingStepwise, NoStep

LEMMA WidthMore ==
  ASSUME NEW S, NEW text \in Seq(S), NEW x \in S
  PROVE  WidthOf(Append(text, x)) = WidthStep(WidthOf(text), x)
<1> DEFINE u == Append(text, x)
           N == Len(text)
<1>1. /\ N \in Nat /\ DOMAIN text = 1..N /\ DOMAIN u = 1..N + 1 /\ N + 1 \in Nat
      /\ (\A i \in 1..N : u[i] = text[i]) /\ u[N + 1] = x
  OBVIOUS
<1> HIDE DEF u, N
<1>2. Stepwise(WidthFold, 0, text, N, WidthOf(text))
  BY <1>1, WidthStepwise
<1>3. Stepwise(WidthFold, 0, u, N + 1, WidthOf(u))
  BY <1>1, WidthStepwise
<1>4. WidthOf(u) = FoldStep(WidthFold, WidthOf(text), u[N + 1])
  BY <1>1, <1>2, <1>3, OneStepMore
<1> QED BY <1>1, <1>4 DEF FoldStep, WidthFold, FoldOver, u

LEMMA WidthOfNothing == WidthOf(<<>>) = 0
<1>1. DOMAIN <<>> = 1..0 /\ 0 \in Nat
  OBVIOUS
<1> QED BY <1>1, WidthStepwise, NoStep

\* A text that is longer by one, two or three.
LEMMA LongerText ==
  ASSUME NEW S, NEW a \in Seq(S), NEW x \in S, NEW y \in S, NEW z \in S
  PROVE  /\ a \o <<x>> = Append(a, x) /\ Append(a, x) \in Seq(S)
         /\ a \o <<x, y>> = Append(Append(a, x), y) /\ Append(Append(a, x), y) \in Seq(S)
         /\ a \o <<x, y, z>> = Append(Append(Append(a, x), y), z)
<1>1. a \o <<x>> = Append(a, x) /\ Append(a, x) \in Seq(S)
  OBVIOUS
<1>2. Append(Append(a, x), y) \in Seq(S)
  OBVIOUS
<1>3. a \o <<x, y>> = Append(Append(a, x), y)
  OBVIOUS
<1>4. a \o <<x, y, z>> = Append(Append(Append(a, x), y), z)
  OBVIOUS
<1> QED BY <1>1, <1>2, <1>3, <1>4

\* What the two functions make of a character: itself, an escape with a letter, or one in
\* hexadecimal.
Chars == Controls \cup Printable \cup {Letters[ch] : ch \in DOMAIN Letters} \cup {LogLetters[ch] : ch \in DOMAIN LogLetters}
EscToken == {"char", "hex"} \X Chars
IsPlain(p, ch) == p = <<Char(ch)>> /\ ch \notin Controls
IsLetter(p, ch, letters) == ch \in DOMAIN letters /\ p = <<Backslash, Char(letters[ch])>>
IsHex(p, ch) == p = <<Backslash, Char("x"), Hex(ch)>>
IsPiece(p, ch, letters) == IsPlain(p, ch) \/ IsLetter(p, ch, letters) \/ IsHex(p, ch)
LetterTables == {Letters, LogLetters}

LEMMA TableIs ==
  ASSUME NEW letters \in LetterTables
  PROVE  /\ GoodLetters(letters) /\ DOMAIN letters \subseteq Chars
         /\ \A ch \in DOMAIN letters : letters[ch] \in Chars
  BY SanitizeAssumption DEF LetterTables, Chars

LEMMA TokensAre ==
  ASSUME NEW ch \in Chars
  PROVE  /\ Char(ch) \in EscToken /\ Hex(ch) \in EscToken /\ Backslash \in EscToken /\ Char("x") \in EscToken
         /\ Char(ch)[1] = "char" /\ Char(ch)[2] = ch /\ Hex(ch)[1] = "hex" /\ Hex(ch)[2] = ch
         /\ Hex(ch) # Backslash /\ (ch # "backslash" => Char(ch) # Backslash) /\ (ch # "x" => Char(ch) # Char("x"))
         /\ Backslash[1] = "char" /\ Backslash[2] = "backslash" /\ Char("x") # Backslash
  BY SanitizeAssumption DEF EscToken, Char, Hex, Backslash, Chars

LEMMA PieceTokens ==
  ASSUME NEW letters \in LetterTables, NEW ch \in Chars, NEW p, IsPiece(p, ch, letters)
  PROVE  p \in Seq(EscToken)
<1>1. CASE IsPlain(p, ch)
  BY <1>1, TokensAre DEF IsPlain
<1>2. CASE IsLetter(p, ch, letters)
  <2>1. Char(letters[ch]) \in EscToken /\ Backslash \in EscToken
    BY <1>2, TableIs, TokensAre DEF IsLetter
  <2> QED BY <1>2, <2>1 DEF IsLetter
<1>3. CASE IsHex(p, ch)
  BY <1>3, TokensAre DEF IsHex
<1> QED BY <1>1, <1>2, <1>3 DEF IsPiece

\* The reader of a piece that is not a bare backslash is in the text again, with its character.
LEMMA PieceRead ==
  ASSUME NEW letters \in LetterTables, NEW ch \in Chars, NEW p, IsPiece(p, ch, letters), p # <<Backslash>>,
         NEW text \in Seq(EscToken), NEW sofar, ReaderAfter(text, letters) = [at |-> "text", got |-> sofar]
  PROVE  ReaderAfter(text \o p, letters) = [at |-> "text", got |-> Append(sofar, ch)]
<1>1. CASE IsPlain(p, ch)
  <2>1. Char(ch) \in EscToken /\ Char(ch)[2] = ch /\ Char(ch) # Backslash
    BY <1>1, TokensAre DEF IsPlain
  <2>2. text \o p = Append(text, Char(ch))
    BY <1>1, <2>1, LongerText DEF IsPlain
  <2>3. ReaderAfter(text \o p, letters) = ReadStep([at |-> "text", got |-> sofar], Char(ch), letters)
    BY <2>1, <2>2, ReadMore
  <2> QED BY <2>1, <2>3 DEF ReadStep
<1>2. CASE IsLetter(p, ch, letters)
  <2> DEFINE l == letters[ch]
  <2>1. /\ Backslash \in EscToken /\ Char(l) \in EscToken /\ Char(l) # Char("x")
        /\ \A other \in DOMAIN letters : Char(letters[other]) = Char(l) => other = ch
    <3>1. l \in Chars /\ l # "x" /\ \A other \in DOMAIN letters : letters[other] = l => other = ch
      BY <1>2, TableIs DEF IsLetter, GoodLetters
    <3>2. \A other \in DOMAIN letters : Char(letters[other])[2] = letters[other]
      BY DEF Char
    <3>3. Char(l)[2] = l
      BY DEF Char
    <3> HIDE DEF l
    <3> QED BY <3>1, <3>2, <3>3, TokensAre
  <2>2. ch \in DOMAIN letters /\ p = <<Backslash, Char(l)>>
    BY <1>2 DEF IsLetter
  <2> HIDE DEF l
  <2> DEFINE a == Append(text, Backslash)
  <2>3. a \in Seq(EscToken) /\ text \o p = Append(a, Char(l))
    BY <2>1, <2>2, LongerText
  <2>4. ReaderAfter(a, letters) = ReadStep([at |-> "text", got |-> sofar], Backslash, letters)
    BY <2>1, ReadMore
  <2>5. ReaderAfter(a, letters) = [at |-> "escape", got |-> sofar]
    BY <2>4 DEF ReadStep
  <2> HIDE DEF a
  <2>6. ReaderAfter(text \o p, letters) = ReadStep([at |-> "escape", got |-> sofar], Char(l), letters)
    BY <2>1, <2>3, <2>5, ReadMore
  <2>7. Char(letters[ch]) = Char(l)
    BY DEF l
  <2>8. (CHOOSE other \in DOMAIN letters : Char(letters[other]) = Char(l)) = ch
    BY <2>1, <2>2, <2>7
  <2>9. \E other \in DOMAIN letters : Char(letters[other]) = Char(l)
    BY <2>2, <2>7
  <2>10. ReadStep([at |-> "escape", got |-> sofar], Char(l), letters)
           = [at |-> "text", got |-> Append(sofar, CHOOSE other \in DOMAIN letters : Char(letters[other]) = Char(l))]
    BY <2>1, <2>9 DEF ReadStep
  <2> QED BY <2>6, <2>8, <2>10
<1>3. CASE IsHex(p, ch)
  <2>1. Backslash \in EscToken /\ Char("x") \in EscToken /\ Hex(ch) \in EscToken /\ Hex(ch)[2] = ch
    BY TokensAre
  <2> DEFINE a == Append(text, Backslash)
             b == Append(a, Char("x"))
  <2>2. a \in Seq(EscToken) /\ b \in Seq(EscToken) /\ text \o p = Append(b, Hex(ch))
    BY <1>3, <2>1, LongerText DEF IsHex
  <2>3. ReaderAfter(a, letters) = ReadStep([at |-> "text", got |-> sofar], Backslash, letters)
    BY <2>1, ReadMore
  <2>4. ReaderAfter(a, letters) = [at |-> "escape", got |-> sofar]
    BY <2>3 DEF ReadStep
  <2>5. ReaderAfter(b, letters) = ReadStep([at |-> "escape", got |-> sofar], Char("x"), letters)
    <3> HIDE DEF a
    <3> QED BY <2>1, <2>2, <2>4, ReadMore
  <2>6. ReaderAfter(b, letters) = [at |-> "hex", got |-> sofar]
    <3> HIDE DEF b
    <3> QED BY <2>5 DEF ReadStep
  <2> HIDE DEF b
  <2>7. ReaderAfter(text \o p, letters) = ReadStep([at |-> "hex", got |-> sofar], Hex(ch), letters)
    BY <2>1, <2>2, <2>6, ReadMore
  <2>8. ReadStep([at |-> "hex", got |-> sofar], Hex(ch), letters) = [at |-> "text", got |-> Append(sofar, ch)]
    BY <2>1 DEF ReadStep
  <2> QED BY <2>7, <2>8
<1> QED BY <1>1, <1>2, <1>3 DEF IsPiece

\* A reader of all pieces gets all characters back.
LEMMA PiecesRead ==
  ASSUME NEW letters \in LetterTables, NEW N \in Nat, NEW buf \in Seq(Chars), Len(buf) = N,
         NEW P, \A i \in 1..N : IsPiece(P[i], buf[i], letters) /\ P[i] # <<Backslash>>
  PROVE  ReaderAfter(FirstOnes(P, N), letters) = [at |-> "text", got |-> buf]
<1>1. \A i \in 1..N : buf[i] \in Chars /\ P[i] \in Seq(EscToken)
  BY PieceTokens
<1> DEFINE first(n) == [i \in 1..n |-> buf[i]]
           T == {n \in Nat : n <= N => ReaderAfter(FirstOnes(P, n), letters) = [at |-> "text", got |-> first(n)]}
<1>2. 0 \in T
  <2>1. FirstOnes(P, 0) = <<>> /\ first(0) = <<>>
    BY JoinStarts
  <2>2. ReaderAfter(<<>>, letters) = [at |-> "text", got |-> <<>>]
    BY ReadNothing DEF ReaderStart
  <2> QED BY <2>1, <2>2
<1>3. ASSUME NEW n \in Nat, n \in T PROVE n + 1 \in T
  <2> SUFFICES ASSUME n + 1 <= N
               PROVE ReaderAfter(FirstOnes(P, n + 1), letters) = [at |-> "text", got |-> first(n + 1)]
    OBVIOUS
  <2>1. n <= N /\ n + 1 \in 1..N /\ \A i \in 1..n + 1 : i \in 1..N
    OBVIOUS
  <2>2. ReaderAfter(FirstOnes(P, n), letters) = [at |-> "text", got |-> first(n)]
    BY <1>3, <2>1
  <2>3. FirstOnes(P, n + 1) = FirstOnes(P, n) \o P[n + 1]
    <3>1. AllIn(P, n + 1, EscToken)
      BY <1>1, <2>1 DEF AllIn
    <3> QED BY <3>1, JoinGrows
  <2>4. FirstOnes(P, n) \in Seq(EscToken)
    <3>1. AllIn(P, N, EscToken) /\ n \in 0..N
      BY <1>1, <2>1 DEF AllIn
    <3> QED BY <3>1, JoinHas DEF HasOnly
  <2>5. first(n + 1) = Append(first(n), buf[n + 1])
    OBVIOUS
  <2> DEFINE f == first(n)
             p == P[n + 1]
             ch == buf[n + 1]
             text == FirstOnes(P, n)
  <2>6. ch \in Chars /\ IsPiece(p, ch, letters) /\ p # <<Backslash>>
    BY <1>1, <2>1
  <2> HIDE DEF f, p, ch, text
  <2>7. ReaderAfter(text \o p, letters) = [at |-> "text", got |-> Append(f, ch)]
    BY <2>2, <2>4, <2>6, PieceRead DEF f, text
  <2> QED BY <2>3, <2>5, <2>7 DEF f, p, ch, text
<1> HIDE DEF T
<1>4. \A n \in Nat : n \in T
  BY <1>2, <1>3, Induction
<1>5. first(N) = buf
  OBVIOUS
<1> QED BY <1>4, <1>5 DEF T

\* No control character is printed, and no other but the plain ones and those of escapes.
LEMMA PiecesPrint ==
  ASSUME NEW letters \in LetterTables, NEW N \in Nat, NEW buf \in Seq(Chars), Len(buf) = N,
         NEW P, \A i \in 1..N : IsPiece(P[i], buf[i], letters), NEW text, text = FirstOnes(P, N)
  PROVE  /\ text \in Seq(EscToken)
         /\ \A k \in 1..Len(text) : text[k][1] = "char" =>
              /\ text[k][2] \notin Controls
              /\ \/ text[k][2] \in {"backslash", "x"} \cup {letters[ch] : ch \in DOMAIN letters}
                 \/ \E i \in 1..N : text[k] = Char(buf[i]) /\ IsPlain(P[i], buf[i])
<1>1. \A i \in 1..N : buf[i] \in Chars /\ P[i] \in Seq(EscToken)
  BY PieceTokens
<1>2. /\ text \in Seq(EscToken)
      /\ \A k \in 1..Len(text) : \E i \in 1..N : \E j \in 1..Len(P[i]) : text[k] = P[i][j]
  <2>1. AllIn(P, N, EscToken) /\ N \in 0..N
    BY <1>1 DEF AllIn
  <2> QED BY <2>1, JoinHas, SMTT(60) DEF HasOnly
<1>3. ASSUME NEW k \in 1..Len(text), text[k][1] = "char"
      PROVE  /\ text[k][2] \notin Controls
             /\ \/ text[k][2] \in {"backslash", "x"} \cup {letters[ch] : ch \in DOMAIN letters}
                \/ \E i \in 1..N : text[k] = Char(buf[i]) /\ IsPlain(P[i], buf[i])
  <2>1. PICK i \in 1..N : \E j \in 1..Len(P[i]) : text[k] = P[i][j]
    BY <1>2
  <2>2. PICK j \in 1..Len(P[i]) : text[k] = P[i][j]
    BY <2>1
  <2>3. "x" \notin Controls /\ "backslash" \notin Controls
    BY SanitizeAssumption
  <2>4. \A ch : Char(ch)[2] = ch /\ Hex(ch)[1] = "hex"
    BY DEF Char, Hex
  <2>5. CASE IsPlain(P[i], buf[i])
    <3>1. Len(P[i]) = 1 /\ P[i][1] = Char(buf[i])
      BY <2>5 DEF IsPlain
    <3>2. text[k] = Char(buf[i]) /\ buf[i] \notin Controls
      BY <2>2, <2>5, <3>1 DEF IsPlain
    <3> QED BY <2>4, <2>5, <3>2
  <2>6. CASE IsLetter(P[i], buf[i], letters)
    <3>1. Len(P[i]) = 2 /\ P[i][1] = Char("backslash") /\ P[i][2] = Char(letters[buf[i]]) /\ buf[i] \in DOMAIN letters
      BY <2>6 DEF IsLetter, Backslash
    <3>2. text[k] = Char("backslash") \/ text[k] = Char(letters[buf[i]])
      BY <2>2, <3>1
    <3>3. letters[buf[i]] \notin Controls
      BY <3>1, TableIs DEF GoodLetters
    <3> QED BY <2>3, <2>4, <3>1, <3>2, <3>3
  <2>7. CASE IsHex(P[i], buf[i])
    <3>1. Len(P[i]) = 3 /\ P[i][1] = Char("backslash") /\ P[i][2] = Char("x") /\ P[i][3] = Hex(buf[i])
      BY <2>7 DEF IsHex, Backslash
    <3>2. text[k] = Char("backslash") \/ text[k] = Char("x") \/ text[k] = Hex(buf[i])
      BY <2>2, <3>1
    <3>3. text[k] # Hex(buf[i])
      BY <1>3, <2>4
    <3> QED BY <2>3, <2>4, <3>2, <3>3
  <2> QED BY <2>5, <2>6, <2>7 DEF IsPiece
<1> QED BY <1>2, <1>3

\* How much wider a text becomes by a piece.
LEMMA PieceWidth ==
  ASSUME NEW letters \in LetterTables, NEW ch \in Chars, NEW p, NEW text \in Seq(EscToken), WidthOf(text) \in Nat
  PROVE  /\ IsPlain(p, ch) => WidthOf(text \o p) = WidthOf(text) + 1
         /\ IsLetter(p, ch, letters) => WidthOf(text \o p) = WidthOf(text) + 2
         /\ IsHex(p, ch) => WidthOf(text \o p) = WidthOf(text) + 4
<1>1. /\ \A x \in Chars : Char(x) \in EscToken /\ Char(x)[1] = "char"
      /\ Hex(ch) \in EscToken /\ Hex(ch)[1] = "hex" /\ Backslash \in EscToken /\ Backslash[1] = "char" /\ "x" \in Chars
  BY TokensAre, SanitizeAssumption DEF Chars
<1>2. \A t \in EscToken : t[1] = "char" => \A n \in Nat : WidthStep(n, t) = n + 1
  BY DEF WidthStep
<1>3. \A n \in Nat : WidthStep(n, Hex(ch)) = n + 2
  BY <1>1 DEF WidthStep
<1> DEFINE a == Append(text, Backslash)
<1>4. a \in Seq(EscToken) /\ WidthOf(a) = WidthOf(text) + 1
  BY <1>1, <1>2, WidthMore, SMTT(60)
<1>5. ASSUME IsPlain(p, ch) PROVE WidthOf(text \o p) = WidthOf(text) + 1
  <2>1. Char(ch) \in EscToken /\ p = <<Char(ch)>>
    BY <1>1, <1>5 DEF IsPlain
  <2>2. text \o p = Append(text, Char(ch))
    BY <2>1, LongerText
  <2>3. WidthOf(text \o p) = WidthStep(WidthOf(text), Char(ch))
    BY <2>1, <2>2, WidthMore
  <2> QED BY <1>1, <1>2, <2>1, <2>3
<1>6. ASSUME IsLetter(p, ch, letters) PROVE WidthOf(text \o p) = WidthOf(text) + 2
  <2> DEFINE t == Char(letters[ch])
  <2>1. t \in EscToken /\ t[1] = "char" /\ p = <<Backslash, t>>
    BY <1>1, <1>6, TableIs DEF IsLetter
  <2> HIDE DEF t, a
  <2>2. text \o p = Append(a, t)
    BY <1>1, <2>1, LongerText DEF a
  <2>3. WidthOf(text \o p) = WidthStep(WidthOf(a), t)
    BY <1>4, <2>1, <2>2, WidthMore
  <2> QED BY <1>2, <1>4, <2>1, <2>3
<1>7. ASSUME IsHex(p, ch) PROVE WidthOf(text \o p) = WidthOf(text) + 4
  <2> DEFINE b == Append(a, Char("x"))
  <2>1. p = <<Backslash, Char("x"), Hex(ch)>> /\ Char("x") \in EscToken /\ Char("x")[1] = "char"
    BY <1>1, <1>7 DEF IsHex
  <2>2. b \in Seq(EscToken) /\ text \o p = Append(b, Hex(ch))
    BY <1>1, <2>1, LongerText
  <2> HIDE DEF a
  <2>3. WidthOf(b) = WidthOf(text) + 2
    <3>1. WidthOf(b) = WidthStep(WidthOf(a), Char("x"))
      BY <1>4, <2>1, WidthMore
    <3> QED BY <1>2, <1>4, <2>1, <3>1
  <2> HIDE DEF b
  <2>4. WidthOf(text \o p) = WidthStep(WidthOf(b), Hex(ch))
    BY <1>1, <2>2, WidthMore
  <2> QED BY <1>3, <2>3, <2>4
<1> QED BY <1>5, <1>6, <1>7

\* What the log filter makes of a character, and the room that is counted for it.
LEMMA FilterPiece ==
  ASSUME NEW ch \in Chars
  PROVE  /\ IsPiece(FilterText(ch), ch, LogLetters) /\ FilterText(ch) # <<Backslash>>
         /\ ch \in DOMAIN LogLetters => IsLetter(FilterText(ch), ch, LogLetters) /\ RoomOf(ch) = 2
         /\ ch \in Controls \ DOMAIN LogLetters => IsHex(FilterText(ch), ch) /\ RoomOf(ch) = 5
         /\ ch \notin Controls \cup DOMAIN LogLetters => IsPlain(FilterText(ch), ch) /\ RoomOf(ch) = 1
<1>1. CASE ch \in DOMAIN LogLetters
  <2>1. FilterText(ch) = <<Backslash, Char(LogLetters[ch])>> /\ RoomOf(ch) = 2
    BY <1>1 DEF FilterText, RoomOf
  <2> QED BY <1>1, <2>1 DEF IsPiece, IsLetter
<1>2. CASE ch \in Controls \ DOMAIN LogLetters
  <2>1. FilterText(ch) = <<Backslash, Char("x"), Hex(ch)>> /\ RoomOf(ch) = 5
    BY <1>2 DEF FilterText, RoomOf
  <2> QED BY <1>2, <2>1 DEF IsPiece, IsHex
<1>3. CASE ch \notin Controls \cup DOMAIN LogLetters
  <2>1. FilterText(ch) = <<Char(ch)>> /\ RoomOf(ch) = 1
    BY <1>3 DEF FilterText, RoomOf
  <2>2. Char(ch) # Backslash
    BY <1>3, TokensAre, SanitizeAssumption
  <2> QED BY <1>3, <2>1, <2>2 DEF IsPiece, IsPlain
<1> QED BY <1>1, <1>2, <1>3

\* After n characters what is written is within the room h that was counted for them.
FitsSoFar(s, P, h, n) ==
  /\ WidthOf(FirstOnes(P, n)) \in Nat /\ h[n] \in Nat /\ WidthOf(FirstOnes(P, n)) <= h[n]
  /\ \A i \in 1..n : FilterEnd(s, i) \in Nat /\ FilterEnd(s, i) <= h[n]

\* The text of the filter, with the NUL of snprintf, is within its room at every character.
LEMMA FilterFits ==
  ASSUME NEW s \in Seq(Chars)
  PROVE  /\ \A i \in 1..Len(s) : FilterEnd(s, i) <= FilterRoom(s)
         /\ WidthOf(FlattenSeq([i \in 1..Len(s) |-> FilterText(s[i])])) < FilterRoom(s)
         /\ FilterRoom(s) \in Nat /\ FilterRoom(s) > 0
<1> DEFINE N == Len(s)
           P == [i \in 1..N |-> FilterText(s[i])]
           W(n) == WidthOf(FirstOnes(P, n))
<1>1. N \in Nat /\ DOMAIN s = 1..N /\ \A i \in 1..N : s[i] \in Chars /\ P[i] = FilterText(s[i])
  OBVIOUS
<1>2. AllIn(P, N, EscToken)
  <2>1. LogLetters \in LetterTables
    BY DEF LetterTables
  <2> QED BY <1>1, <2>1, FilterPiece, PieceTokens DEF AllIn
<1>3. \A i \in 1..N : FilterEnd(s, i) = W(i) + (IF s[i] \in Controls \ DOMAIN LogLetters THEN 1 ELSE 0)
  <2> SUFFICES ASSUME NEW i \in 1..N PROVE FilterEnd(s, i) = W(i) + (IF s[i] \in Controls \ DOMAIN LogLetters THEN 1 ELSE 0)
    OBVIOUS
  <2>1. [j \in 1..i |-> P[j]] = [j \in 1..i |-> FilterText(s[j])]
    <3>1. \A j \in 1..i : j \in 1..N
      BY <1>1
    <3> HIDE DEF P, N
    <3> QED BY <1>1, <3>1
  <2> HIDE DEF P
  <2> QED BY <2>1 DEF FilterEnd, FirstOnes
<1>4. [i \in 1..Len(s) |-> FilterText(s[i])] = [i \in 1..N |-> P[i]]
  OBVIOUS
<1>5. WidthOf(FlattenSeq([i \in 1..Len(s) |-> FilterText(s[i])])) = W(N)
  BY <1>4 DEF FirstOnes
<1> HIDE DEF P, N
<1>6. PICK h : /\ h[0] = 0 /\ h[N] = RoomSum(s)
               /\ \A n \in 0..(N - 1) : h[n + 1] = FoldStep(RoomFold, h[n], s[n + 1])
  <2>1. Stepwise(RoomFold, 0, s, N, RoomSum(s))
    BY <1>1, RoomStepwise
  <2> QED BY <2>1 DEF Stepwise
<1>7. \A n \in 0..(N - 1) : h[n + 1] = h[n] + RoomOf(s[n + 1])
  <2>1. \A acc, x : FoldStep(RoomFold, acc, x) = acc + RoomOf(x)
    BY DEF FoldStep, RoomFold, FoldOver, RoomStep
  <2> QED BY <1>6, <2>1
<1> DEFINE T == {n \in Nat : n <= N => FitsSoFar(s, P, h, n)}
<1>8. FitsSoFar(s, P, h, 0)
  <2>1. WidthOf(FirstOnes(P, 0)) = 0
    BY JoinStarts, WidthOfNothing
  <2> QED BY <1>6, <2>1 DEF FitsSoFar
<1>9. ASSUME NEW n \in Nat, n + 1 <= N, FitsSoFar(s, P, h, n) PROVE FitsSoFar(s, P, h, n + 1)
  <2> DEFINE ch == s[n + 1]
             p == P[n + 1]
             text == FirstOnes(P, n)
             longer == FirstOnes(P, n + 1)
             nul == IF ch \in Controls \ DOMAIN LogLetters THEN 1 ELSE 0
  <2>1. n + 1 \in 1..N /\ n \in 0..(N - 1) /\ n \in 0..N
    BY <1>1, <1>9
  <2>2. ch \in Chars /\ p = FilterText(ch)
    BY <1>1, <2>1
  <2>3. longer = text \o p
    <3>1. AllIn(P, n + 1, EscToken)
      BY <1>1, <1>2, <1>9 DEF AllIn
    <3> QED BY <3>1, JoinGrows
  <2>4. text \in Seq(EscToken)
    <3>1. HasOnly(FirstOnes(P, n), P, n, EscToken)
      BY <1>1, <1>2, <2>1, JoinHas
    <3> QED BY <3>1 DEF HasOnly
  <2>5. /\ WidthOf(text) \in Nat /\ h[n] \in Nat /\ WidthOf(text) <= h[n]
        /\ \A i \in 1..n : FilterEnd(s, i) \in Nat /\ FilterEnd(s, i) <= h[n]
    BY <1>9 DEF FitsSoFar
  <2>6. h[n + 1] = h[n] + RoomOf(ch)
    BY <1>7, <2>1
  <2>7. FilterEnd(s, n + 1) = WidthOf(longer) + nul
    BY <1>3, <2>1
  <2>8. LogLetters \in LetterTables
    BY DEF LetterTables
  <2> HIDE DEF ch, p, text, longer
  <2>9. /\ WidthOf(longer) \in Nat /\ RoomOf(ch) \in Nat
        /\ WidthOf(longer) + nul <= WidthOf(text) + RoomOf(ch)
    <3>1. CASE ch \in DOMAIN LogLetters
      <4>1. IsLetter(p, ch, LogLetters) /\ RoomOf(ch) = 2
        BY <2>2, <3>1, FilterPiece
      <4>2. WidthOf(longer) = WidthOf(text) + 2
        BY <2>2, <2>3, <2>4, <2>5, <2>8, <4>1, PieceWidth
      <4> QED BY <2>5, <3>1, <4>1, <4>2
    <3>2. CASE ch \in Controls \ DOMAIN LogLetters
      <4>1. IsHex(p, ch) /\ RoomOf(ch) = 5
        BY <2>2, <3>2, FilterPiece
      <4>2. WidthOf(longer) = WidthOf(text) + 4
        BY <2>2, <2>3, <2>4, <2>5, <2>8, <4>1, PieceWidth
      <4> QED BY <2>5, <3>2, <4>1, <4>2
    <3>3. CASE ch \notin Controls \cup DOMAIN LogLetters
      <4>1. IsPlain(p, ch) /\ RoomOf(ch) = 1
        BY <2>2, <3>3, FilterPiece
      <4>2. WidthOf(longer) = WidthOf(text) + 1
        BY <2>2, <2>3, <2>4, <2>5, <2>8, <4>1, PieceWidth
      <4> QED BY <2>5, <3>3, <4>1, <4>2
    <3> QED BY <3>1, <3>2, <3>3
  <2>10. nul \in Nat
    OBVIOUS
  <2> HIDE DEF nul
  <2>11. /\ WidthOf(longer) \in Nat /\ h[n + 1] \in Nat /\ WidthOf(longer) <= h[n + 1] /\ h[n] <= h[n + 1]
         /\ FilterEnd(s, n + 1) \in Nat /\ FilterEnd(s, n + 1) <= h[n + 1]
    BY <2>5, <2>6, <2>7, <2>9, <2>10, SMTT(60)
  <2>12. ASSUME NEW i \in 1..n + 1 PROVE FilterEnd(s, i) \in Nat /\ FilterEnd(s, i) <= h[n + 1]
    <3>1. CASE i = n + 1
      BY <2>11, <3>1
    <3>2. CASE i # n + 1
      <4>1. i \in 1..n
        BY <3>2
      <4> QED BY <2>5, <2>11, <4>1
    <3> QED BY <3>1, <3>2
  <2> QED BY <2>11, <2>12 DEF FitsSoFar, longer
<1>10. FitsSoFar(s, P, h, N)
  <2>1. 0 \in T
    BY <1>8
  <2>2. ASSUME NEW n \in Nat, n \in T PROVE n + 1 \in T
    <3> SUFFICES ASSUME n + 1 <= N PROVE FitsSoFar(s, P, h, n + 1)
      BY DEF T
    <3>1. FitsSoFar(s, P, h, n)
      BY <1>1, <2>2
    <3> QED BY <1>9, <3>1
  <2> HIDE DEF T
  <2>3. \A n \in Nat : n \in T
    BY <2>1, <2>2, Induction
  <2> QED BY <1>1, <2>3 DEF T
<1>11. FilterRoom(s) = 1 + h[N]
  BY <1>6 DEF FilterRoom, RoomSum
<1>12. N = Len(s)
  BY DEF N
<1>13. FilterRoom(s) \in Nat /\ FilterRoom(s) > 0 /\ W(N) < FilterRoom(s)
  BY <1>10, <1>11 DEF FitsSoFar
<1>14. \A i \in 1..N : FilterEnd(s, i) <= FilterRoom(s)
  <2> SUFFICES ASSUME NEW i \in 1..N PROVE FilterEnd(s, i) <= FilterRoom(s)
    OBVIOUS
  <2>1. FilterEnd(s, i) \in Nat /\ FilterEnd(s, i) <= h[N] /\ h[N] \in Nat
    BY <1>10 DEF FitsSoFar
  <2> QED BY <1>11, <2>1
<1> QED BY <1>5, <1>12, <1>13, <1>14

\* What is left of a trimmed string are characters of it.
LEMMA TrimmedIs == ASSUME NEW s \in Seq(Chars) PROVE trim_spaces(s) \in Seq(Chars)
<1> DEFINE first == FirstNonSpace(s)
           moved == SubSeq(s, first, Len(s))
<1>1. Len(s) \in Nat
  OBVIOUS
<1>2. first \in 1..(Len(s) + 1)
  <2> DEFINE TextEnds == {i \in 1..(Len(s) + 1) : i = Len(s) + 1 \/ ~IsSpace(s[i])}
  <2>1. TextEnds \subseteq Nat /\ Len(s) + 1 \in TextEnds
    BY <1>1
  <2> HIDE DEF TextEnds
  <2>2. PICK i \in TextEnds : \A j \in TextEnds : i <= j
    BY <2>1, Least
  <2>3. /\ i \in 1..(Len(s) + 1)
        /\ i = Len(s) + 1 \/ ~IsSpace(s[i])
        /\ \A j \in 1..(i - 1) : IsSpace(s[j])
    BY <1>1, <2>2 DEF TextEnds
  <2> QED BY <2>3 DEF FirstNonSpace
<1> HIDE DEF first
<1>3. moved \in Seq(Chars)
  BY <1>1, <1>2
<1> HIDE DEF moved
<1> DEFINE N == Len(moved)
           text == [i \in 1..N |-> i]
<1>4. N \in Nat /\ DOMAIN text = 1..N /\ \A i \in 1..N : text[i] = i
  BY <1>3
<1>5. MarkOf(moved) \in 0..N
  <2>1. Stepwise(MarkFold(moved), 0, text, N, MarkFolded(moved, text))
    <3> HIDE DEF N, text
    <3> QED BY <1>4, MarkStepwise
  <2>2. MarkOf(moved) = MarkFolded(moved, text)
    BY DEF MarkOf, MarkFolded
  <2> HIDE DEF N, text
  <2>3. PICK h : /\ h[0] = 0 /\ h[N] = MarkOf(moved)
                 /\ \A n \in 0..(N - 1) : h[n + 1] = FoldStep(MarkFold(moved), h[n], text[n + 1])
    BY <2>1, <2>2 DEF Stepwise
  <2> DEFINE T == {n \in Nat : n <= N => h[n] \in 0..n}
  <2>4. 0 \in T
    BY <2>3
  <2>5. ASSUME NEW n \in Nat, n \in T PROVE n + 1 \in T
    <3> SUFFICES ASSUME n + 1 <= N PROVE h[n + 1] \in 0..n + 1
      OBVIOUS
    <3>1. n \in 0..(N - 1) /\ n + 1 \in 1..N /\ n <= N
      BY <1>4
    <3>2. h[n + 1] = MarkStep(h[n], moved, n + 1)
      BY <1>4, <2>3, <3>1 DEF FoldStep, MarkFold, FoldOver
    <3>3. h[n] \in 0..n
      BY <2>5, <3>1
    <3>4. h[n + 1] \in {h[n], n + 1, 0}
      BY <3>2 DEF MarkStep
    <3> QED BY <3>3, <3>4
  <2> HIDE DEF T
  <2>6. \A n \in Nat : n \in T
    BY <2>4, <2>5, Induction
  <2> QED BY <1>4, <2>3, <2>6 DEF T
<1>6. CASE MarkOf(moved) = 0
  BY <1>3, <1>6 DEF trim_spaces, moved, first
<1>7. CASE MarkOf(moved) # 0
  <2>1. trim_spaces(s) = SubSeq(moved, 1, MarkOf(moved) - 1)
    BY <1>7 DEF trim_spaces, moved, first
  <2>2. MarkOf(moved) - 1 \in 0..Len(moved)
    BY <1>4, <1>5, <1>7
  <2> QED BY <1>3, <2>1, <2>2
<1> QED BY <1>6, <1>7

\* EscapesReadBack of one call.
ReadsBack(w) ==
  /\ w.op \in {"sanitized", "filter"} =>
       \A i \in 1..Len(w.text) : w.text[i][1] = "char" => w.text[i][2] \notin Controls
  /\ w.op = "sanitized" /\ w.delimiters # NoDelimiters =>
       /\ ReadOf(w.text, Letters) = w.buf
       /\ \A ch \in w.delimiters \ EscapeChars : Char(ch) \notin ToSet(w.text)
  /\ w.op = "filter" =>
       /\ \A i \in 1..Len(w.buf) : FilterEnd(w.buf, i) <= w.count
       /\ WidthOf(w.text) < w.count
       /\ w.code = 0 => ReadOf(w.text, LogLetters) = w.buf
  /\ w.op = "hex" => ReadOf(w.text, Letters) = w.buf

LEMMA BufIs == ASSUME NEW buf \in SanitizeBufs PROVE buf \in Seq(Chars)
<1>1. Controls \cup Printable \subseteq Chars
  BY DEF Chars
<1>2. buf \in Seq(Controls \cup Printable)
  BY SanitizeAssumption
<1> QED BY <1>1, <1>2

LEMMA ReadIs == ASSUME NEW text, NEW letters, NEW sofar, ReaderAfter(text, letters) = [at |-> "text", got |-> sofar]
                PROVE  ReadOf(text, letters) = sofar
<1>1. ReadOf(text, letters) = ReaderAfter(text, letters).got
  BY DEF ReadOf, ReaderAfter
<1> QED BY <1>1

\* write_sanitized.
LEMMA SanitizedReadsBack ==
  ASSUME NEW buf \in Seq(Chars), NEW dl, NEW w \in write_sanitized(buf, dl) PROVE ReadsBack(w)
<1> DEFINE N == Len(buf)
           P == [i \in 1..N |-> IF Escapes(buf[i], dl) THEN Escaped(buf[i]) ELSE <<Char(buf[i])>>]
           text == Sanitized(buf, dl)
<1>1. w.op = "sanitized" /\ w.buf = buf /\ w.delimiters = dl /\ w.text = text
  BY DEF write_sanitized, Result
<1>2. N \in Nat /\ Letters \in LetterTables /\ \A i \in 1..N : buf[i] \in Chars
  BY DEF LetterTables
<1>3. text = FirstOnes(P, N)
  BY DEF Sanitized, FirstOnes
<1>4. \A i \in 1..N : P[i] = IF Escapes(buf[i], dl) THEN Escaped(buf[i]) ELSE <<Char(buf[i])>>
  OBVIOUS
<1> HIDE DEF P, N
<1>5. ASSUME NEW i \in 1..N
      PROVE  /\ IsPiece(P[i], buf[i], Letters)
             /\ dl # NoDelimiters => P[i] # <<Backslash>>
             /\ Escapes(buf[i], dl) => Len(P[i]) > 1
  <2> DEFINE ch == buf[i]
             p == P[i]
  <2>1. ch \in Chars /\ p = IF Escapes(ch, dl) THEN Escaped(ch) ELSE <<Char(ch)>>
    BY <1>2, <1>4
  <2> HIDE DEF ch, p
  <2>2. CASE Escapes(ch, dl)
    <3>1. IsLetter(p, ch, Letters) \/ IsHex(p, ch)
      BY <2>1, <2>2 DEF Escaped, IsLetter, IsHex
    <3>2. Len(p) \in {2, 3}
      BY <3>1 DEF IsLetter, IsHex
    <3>3. Len(<<Backslash>>) = 1
      OBVIOUS
    <3>4. Len(p) > 1
      <4>1. CASE Len(p) = 2
        BY <4>1
      <4>2. CASE Len(p) = 3
        BY <4>2
      <4> QED BY <3>2, <4>1, <4>2
    <3>5. p # <<Backslash>>
      <4>1. SUFFICES ASSUME p = <<Backslash>> PROVE FALSE
        OBVIOUS
      <4>2. Len(p) = 1
        BY <3>3, <4>1
      <4> QED BY <3>4, <4>2
    <3> QED BY <3>1, <3>4, <3>5 DEF IsPiece, ch, p
  <2>3. CASE ~Escapes(ch, dl)
    <3>1. p = <<Char(ch)>> /\ ch \notin Controls /\ (dl # NoDelimiters => ch # "backslash")
      BY <2>1, <2>3 DEF Escapes
    <3>2. dl # NoDelimiters => Char(ch) # Backslash
      BY <2>1, <3>1, TokensAre
    <3>3. dl # NoDelimiters => p # <<Backslash>>
      BY <3>1, <3>2
    <3> QED BY <2>3, <3>1, <3>3 DEF IsPiece, IsPlain, ch, p
  <2> QED BY <2>2, <2>3
<1>6. N = Len(buf)
  BY DEF N
<1> HIDE DEF text
<1>7. /\ text \in Seq(EscToken)
      /\ \A k \in 1..Len(text) : text[k][1] = "char" =>
           /\ text[k][2] \notin Controls
           /\ \/ text[k][2] \in {"backslash", "x"} \cup {Letters[ch] : ch \in DOMAIN Letters}
              \/ \E i \in 1..N : text[k] = Char(buf[i]) /\ IsPlain(P[i], buf[i])
  <2>1. \A i \in 1..N : IsPiece(P[i], buf[i], Letters)
    BY <1>5
  <2> QED BY <1>2, <1>3, <1>6, <2>1, PiecesPrint
<1>8. ASSUME dl # NoDelimiters PROVE ReadOf(text, Letters) = buf
  <2>1. \A i \in 1..N : IsPiece(P[i], buf[i], Letters) /\ P[i] # <<Backslash>>
    BY <1>5, <1>8
  <2>2. ReaderAfter(FirstOnes(P, N), Letters) = [at |-> "text", got |-> buf]
    BY <1>2, <1>6, <2>1, PiecesRead
  <2> QED BY <1>3, <2>2, ReadIs
<1>9. ASSUME dl # NoDelimiters, NEW ch \in dl \ EscapeChars PROVE Char(ch) \notin ToSet(text)
  <2> SUFFICES ASSUME Char(ch) \in ToSet(text) PROVE FALSE
    OBVIOUS
  <2>1. PICK k \in 1..Len(text) : text[k] = Char(ch)
    BY <1>7 DEF ToSet
  <2>2. \A x : Char(x)[1] = "char" /\ Char(x)[2] = x
    BY DEF Char
  <2>3. ch \notin {"backslash", "x"} \cup {Letters[x] : x \in DOMAIN Letters}
    BY <1>9 DEF EscapeChars
  <2>4. PICK i \in 1..N : text[k] = Char(buf[i]) /\ IsPlain(P[i], buf[i])
    BY <1>7, <2>1, <2>2, <2>3
  <2>5. buf[i] = ch
    BY <2>1, <2>2, <2>4
  <2>6. Escapes(buf[i], dl)
    BY <1>9, <2>5 DEF Escapes
  <2>7. Len(P[i]) = 1
    BY <2>4 DEF IsPlain
  <2>8. Len(P[i]) > 1
    BY <1>5, <2>6
  <2> QED BY <2>7, <2>8
<1> QED BY <1>1, <1>7, <1>8, <1>9 DEF ReadsBack

\* write_hexstring.
LEMMA HexReadsBack ==
  ASSUME NEW buf \in Seq(Chars), NEW w \in write_hexstring(buf) PROVE ReadsBack(w)
<1> DEFINE N == Len(buf)
           text == [i \in 1..N |-> Hex(buf[i])]
<1>1. w.op = "hex" /\ w.buf = buf /\ w.text = text
  BY DEF write_hexstring, Result
<1>2. /\ N \in Nat /\ DOMAIN text = 1..N
      /\ \A i \in 1..N : buf[i] \in Chars /\ text[i] = Hex(buf[i])
  OBVIOUS
<1>3. [i \in 1..N |-> buf[i]] = buf
  OBVIOUS
<1> HIDE DEF N, text
<1>4. PICK h : /\ h[0] = ReaderStart /\ h[N] = ReaderAfter(text, Letters)
               /\ \A n \in 0..(N - 1) : h[n + 1] = FoldStep(ReadFold(Letters), h[n], text[n + 1])
  <2>1. Stepwise(ReadFold(Letters), ReaderStart, text, N, ReaderAfter(text, Letters))
    BY <1>2, ReadingStepwise
  <2> QED BY <2>1 DEF Stepwise
<1> DEFINE first(n) == [i \in 1..n |-> buf[i]]
           T == {n \in Nat : n <= N => h[n] = [at |-> "text", got |-> first(n)]}
<1>5. 0 \in T
  <2>1. first(0) = <<>>
    OBVIOUS
  <2> QED BY <1>4, <2>1 DEF ReaderStart
<1>6. ASSUME NEW n \in Nat, n \in T PROVE n + 1 \in T
  <2> SUFFICES ASSUME n + 1 <= N PROVE h[n + 1] = [at |-> "text", got |-> first(n + 1)]
    OBVIOUS
  <2>1. n \in 0..(N - 1) /\ n <= N /\ n + 1 \in 1..N
    BY <1>2
  <2>2. h[n + 1] = ReadStep([at |-> "text", got |-> first(n)], Hex(buf[n + 1]), Letters)
    <3>1. \A acc, x : FoldStep(ReadFold(Letters), acc, x) = ReadStep(acc, x, Letters)
      BY DEF FoldStep, ReadFold, FoldOver
    <3>2. h[n] = [at |-> "text", got |-> first(n)]
      BY <1>6, <2>1
    <3> HIDE DEF first
    <3> QED BY <1>2, <1>4, <2>1, <3>1, <3>2
  <2>3. first(n + 1) = Append(first(n), buf[n + 1])
    OBVIOUS
  <2>4. Hex(buf[n + 1]) # Backslash /\ Hex(buf[n + 1])[2] = buf[n + 1]
    BY <1>2, <2>1, TokensAre
  <2> DEFINE f == first(n)
             t == Hex(buf[n + 1])
             ch == buf[n + 1]
  <2> HIDE DEF f, t, ch
  <2>5. ReadStep([at |-> "text", got |-> f], t, Letters) = [at |-> "text", got |-> Append(f, ch)]
    BY <2>4 DEF ReadStep, t, ch
  <2> QED BY <2>2, <2>3, <2>5 DEF f, t, ch
<1> HIDE DEF T
<1>7. \A n \in Nat : n \in T
  BY <1>5, <1>6, Induction
<1>8. ReaderAfter(text, Letters) = [at |-> "text", got |-> buf]
  <2>1. first(N) = buf
    BY <1>3
  <2> HIDE DEF first
  <2>2. h[N] = [at |-> "text", got |-> first(N)]
    BY <1>2, <1>7 DEF T
  <2> QED BY <1>4, <2>1, <2>2
<1>9. ReadOf(text, Letters) = buf
  BY <1>8, ReadIs
<1> QED BY <1>1, <1>9 DEF ReadsBack

\* fmt_string_filter.
LEMMA FilterReadsBack ==
  ASSUME NEW s \in Seq(Chars), NEW w \in fmt_string_filter(s) PROVE ReadsBack(w)
<1> DEFINE N == Len(s)
           P == [i \in 1..N |-> FilterText(s[i])]
           text == FlattenSeq([i \in 1..Len(s) |-> FilterText(s[i])])
<1>1. /\ w.op = "filter" /\ w.buf = s /\ w.count = FilterRoom(s)
      /\ w.text = text \/ (w.text = <<>> /\ w.code = -1)
  BY DEF fmt_string_filter, Result
<1>2. /\ \A i \in 1..N : FilterEnd(s, i) <= FilterRoom(s)
      /\ WidthOf(text) < FilterRoom(s) /\ WidthOf(<<>>) < FilterRoom(s)
  BY FilterFits, WidthOfNothing
<1>3. N \in Nat /\ LogLetters \in LetterTables /\ \A i \in 1..N : s[i] \in Chars
  BY DEF LetterTables
<1>4. text = FirstOnes(P, N)
  BY DEF FirstOnes
<1>5. \A i \in 1..N : P[i] = FilterText(s[i])
  OBVIOUS
<1>6. N = Len(s)
  OBVIOUS
<1> HIDE DEF P, N, text
<1>7. \A i \in 1..N : IsPiece(P[i], s[i], LogLetters) /\ P[i] # <<Backslash>>
  BY <1>3, <1>5, FilterPiece
<1>8. \A k \in 1..Len(text) : text[k][1] = "char" => text[k][2] \notin Controls
  <2>1. \A i \in 1..N : IsPiece(P[i], s[i], LogLetters)
    BY <1>7
  <2> QED BY <1>3, <1>4, <1>6, <2>1, PiecesPrint
<1>9. ReadOf(text, LogLetters) = s
  <2>1. ReaderAfter(FirstOnes(P, N), LogLetters) = [at |-> "text", got |-> s]
    BY <1>3, <1>6, <1>7, PiecesRead
  <2> QED BY <1>4, <2>1, ReadIs
<1>10. ~\E k \in 1..Len(<<>>) : TRUE
  OBVIOUS
<1>11. \A i \in 1..Len(w.text) : w.text[i][1] = "char" => w.text[i][2] \notin Controls
  BY <1>1, <1>8, <1>10
<1>12. WidthOf(w.text) < w.count /\ (w.code = 0 => ReadOf(w.text, LogLetters) = w.buf)
  BY <1>1, <1>2, <1>9
<1>13. \A i \in 1..Len(w.buf) : FilterEnd(w.buf, i) <= w.count
  BY <1>1, <1>2, <1>6
<1> QED BY <1>1, <1>11, <1>12, <1>13 DEF ReadsBack

\* What is written with escapes has no control character and no delimiter in it and is read
\* back as it was; the log filter's text fits into its room at every character
\* (_gpgrt_write_sanitized, _gpgrt_write_hexstring, fmt_string_filter).
THEOREM EscapesAreReadBack == SanitizeSpec => []EscapesReadBack
<1> DEFINE Back == ReadsBack(written)
<1>1. SanitizeInit => Back
  <2>1. Result("none", <<>>, {}, <<>>, 0, 0).op = "none"
    BY DEF Result
  <2> QED BY <2>1 DEF SanitizeInit, ReadsBack
<1>2. Back /\ [SanitizeNext]_written => Back'
  <2>1. CASE SanitizeNext
    <3>1. PICK buf \in SanitizeBufs :
            \/ \E dl \in Delimiters : written' \in write_sanitized(buf, dl)
            \/ written' \in write_hexstring(buf)
            \/ "nul" \notin ToSet(buf) /\ written' \in fmt_string_filter(trim_spaces(buf))
      BY <2>1 DEF SanitizeNext
    <3>2. buf \in Seq(Chars) /\ trim_spaces(buf) \in Seq(Chars)
      BY BufIs, TrimmedIs
    <3>3. ReadsBack(written')
      BY <3>1, <3>2, SanitizedReadsBack, HexReadsBack, FilterReadsBack
    <3> QED BY <3>3 DEF ReadsBack
  <2>2. CASE UNCHANGED written
    BY <2>2 DEF ReadsBack
  <2> QED BY <2>1, <2>2
<1>3. Back => EscapesReadBack
  BY DEF ReadsBack, EscapesReadBack
<1> HIDE DEF Back
<1> QED BY <1>1, <1>2, <1>3, PTL DEF SanitizeSpec

-----------------------------------------------------------------------------
(***************************************************************************)
(* What a child gets.                                                       *)
(***************************************************************************)
CharRoomFunStep(g, base, text, s) == IF s = {} THEN base ELSE CharRoom(g[s \ {Top(s)}], text[Top(s)])
CharRoomFun(base, text, D) == CHOOSE g : g = [s \in SUBSET D |-> CharRoomFunStep(g, base, text, s)]
StringRoomFunStep(g, base, text, s) == IF s = {} THEN base ELSE StringRoom(g[s \ {Top(s)}], text[Top(s)])
StringRoomFun(base, text, D) == CHOOSE g : g = [s \in SUBSET D |-> StringRoomFunStep(g, base, text, s)]
SplitFunStep(g, base, text, line, s) == IF s = {} THEN base ELSE SplitStep(g[s \ {Top(s)}], line, text[Top(s)])
SplitFun(base, text, line, D) == CHOOSE g : g = [s \in SUBSET D |-> SplitFunStep(g, base, text, line, s)]
ChangeFunStep(g, base, text, s) == IF s = {} THEN base ELSE ChangeEntry(g[s \ {Top(s)}], text[Top(s)])
ChangeFun(base, text, D) == CHOOSE g : g = [s \in SUBSET D |-> ChangeFunStep(g, base, text, s)]

CharsRoom(base, text) == FoldLeft(CharRoom, base, text)
LEMMA CharRoomStepwise ==
  ASSUME NEW N \in Nat, NEW text, DOMAIN text = 1..N, NEW base
  PROVE  Stepwise(CharRoomFold, base, text, N, CharsRoom(base, text))
<1> DEFINE G == CharRoomFun(base, text, 1..N)
<1>1. CharsRoom(base, text) = CharRoomFun(base, text, DOMAIN text)[DOMAIN text]
  BY DEF CharsRoom, FoldLeft, MapThenFoldSet, CharRoomFun, CharRoomFunStep, Top, Max
<1>2. \A g, s : FoldFunStep(g, CharRoomFold, base, text, s) = CharRoomFunStep(g, base, text, s)
  BY DEF FoldFunStep, CharRoomFunStep, FoldStep, CharRoomFold, FoldOver
<1>3. \E g : g = [s \in SUBSET (1..N) |-> CharRoomFunStep(g, base, text, s)]
  <2>1. PICK g : IsFoldFun(g, CharRoomFold, base, text, N)
    BY FoldFunExists
  <2>2. g = [s \in SUBSET (1..N) |-> CharRoomFunStep(g, base, text, s)]
    BY <1>2, <2>1 DEF IsFoldFun
  <2> QED BY <2>2
<1>4. G = [s \in SUBSET (1..N) |-> CharRoomFunStep(G, base, text, s)]
  BY <1>3 DEF CharRoomFun
<1> HIDE DEF G
<1>5. IsFoldFun(G, CharRoomFold, base, text, N)
  BY <1>2, <1>4 DEF IsFoldFun
<1>6. Stepwise(CharRoomFold, base, text, N, G[1..N])
  BY <1>5, FunIsStepwise
<1> QED BY <1>1, <1>6 DEF G

StringsRoom(text) == FoldLeft(StringRoom, 0, text)
LEMMA StringRoomStepwise ==
  ASSUME NEW N \in Nat, NEW text, DOMAIN text = 1..N
  PROVE  Stepwise(StringRoomFold, 0, text, N, StringsRoom(text))
<1> DEFINE G == StringRoomFun(0, text, 1..N)
<1>1. StringsRoom(text) = StringRoomFun(0, text, DOMAIN text)[DOMAIN text]
  BY DEF StringsRoom, FoldLeft, MapThenFoldSet, StringRoomFun, StringRoomFunStep, Top, Max
<1>2. \A g, s : FoldFunStep(g, StringRoomFold, 0, text, s) = StringRoomFunStep(g, 0, text, s)
  BY DEF FoldFunStep, StringRoomFunStep, FoldStep, StringRoomFold, FoldOver
<1>3. \E g : g = [s \in SUBSET (1..N) |-> StringRoomFunStep(g, 0, text, s)]
  <2>1. PICK g : IsFoldFun(g, StringRoomFold, 0, text, N)
    BY FoldFunExists
  <2>2. g = [s \in SUBSET (1..N) |-> StringRoomFunStep(g, 0, text, s)]
    BY <1>2, <2>1 DEF IsFoldFun
  <2> QED BY <2>2
<1>4. G = [s \in SUBSET (1..N) |-> StringRoomFunStep(G, 0, text, s)]
  BY <1>3 DEF StringRoomFun
<1> HIDE DEF G
<1>5. IsFoldFun(G, StringRoomFold, 0, text, N)
  BY <1>2, <1>4 DEF IsFoldFun
<1>6. Stepwise(StringRoomFold, 0, text, N, G[1..N])
  BY <1>5, FunIsStepwise
<1> QED BY <1>1, <1>6 DEF G

SplitOver(line, text) == FoldLeft(LAMBDA acc, i : SplitStep(acc, line, i), SplitStart, text)
LEMMA SplitStepwise ==
  ASSUME NEW N \in Nat, NEW text, DOMAIN text = 1..N, NEW line
  PROVE  Stepwise(SplitFold(line), SplitStart, text, N, SplitOver(line, text))
<1> DEFINE G == SplitFun(SplitStart, text, line, 1..N)
           k == SplitFold(line)
<1>1. SplitOver(line, text) = SplitFun(SplitStart, text, line, DOMAIN text)[DOMAIN text]
  BY DEF SplitOver, FoldLeft, MapThenFoldSet, SplitFun, SplitFunStep, Top, Max
<1>2. \A g, s : FoldFunStep(g, k, SplitStart, text, s) = SplitFunStep(g, SplitStart, text, line, s)
  BY DEF FoldFunStep, SplitFunStep, FoldStep, SplitFold, FoldOver
<1> HIDE DEF k
<1>3. \E g : g = [s \in SUBSET (1..N) |-> SplitFunStep(g, SplitStart, text, line, s)]
  <2>1. PICK g : IsFoldFun(g, k, SplitStart, text, N)
    BY FoldFunExists
  <2>2. g = [s \in SUBSET (1..N) |-> SplitFunStep(g, SplitStart, text, line, s)]
    BY <1>2, <2>1 DEF IsFoldFun
  <2> QED BY <2>2
<1>4. G = [s \in SUBSET (1..N) |-> SplitFunStep(G, SplitStart, text, line, s)]
  BY <1>3 DEF SplitFun
<1> HIDE DEF G
<1>5. IsFoldFun(G, k, SplitStart, text, N)
  BY <1>2, <1>4 DEF IsFoldFun
<1>6. Stepwise(k, SplitStart, text, N, G[1..N])
  BY <1>5, FunIsStepwise
<1> QED BY <1>1, <1>6 DEF G, k

Changed(es, text) == FoldLeft(ChangeEntry, es, text)
LEMMA ChangeStepwise ==
  ASSUME NEW N \in Nat, NEW text, DOMAIN text = 1..N, NEW base
  PROVE  Stepwise(ChangeFold, base, text, N, Changed(base, text))
<1> DEFINE G == ChangeFun(base, text, 1..N)
<1>1. Changed(base, text) = ChangeFun(base, text, DOMAIN text)[DOMAIN text]
  BY DEF Changed, FoldLeft, MapThenFoldSet, ChangeFun, ChangeFunStep, Top, Max
<1>2. \A g, s : FoldFunStep(g, ChangeFold, base, text, s) = ChangeFunStep(g, base, text, s)
  BY DEF FoldFunStep, ChangeFunStep, FoldStep, ChangeFold, FoldOver
<1>3. \E g : g = [s \in SUBSET (1..N) |-> ChangeFunStep(g, base, text, s)]
  <2>1. PICK g : IsFoldFun(g, ChangeFold, base, text, N)
    BY FoldFunExists
  <2>2. g = [s \in SUBSET (1..N) |-> ChangeFunStep(g, base, text, s)]
    BY <1>2, <2>1 DEF IsFoldFun
  <2> QED BY <2>2
<1>4. G = [s \in SUBSET (1..N) |-> ChangeFunStep(G, base, text, s)]
  BY <1>3 DEF ChangeFun
<1> HIDE DEF G
<1>5. IsFoldFun(G, ChangeFold, base, text, N)
  BY <1>2, <1>4 DEF IsFoldFun
<1>6. Stepwise(ChangeFold, base, text, N, G[1..N])
  BY <1>5, FunIsStepwise
<1> QED BY <1>1, <1>6 DEF G

\* A sequence that is joined of N has what it is joined of, one after the other.
PieceIn(c, P, n) ==
  LET a == FirstOnes(P, n)
      b == P[n + 1]
  IN /\ Len(a) \in Nat /\ Len(b) \in Nat
     /\ Len(FirstOnes(P, n + 1)) = Len(a) + Len(b) /\ Len(a) + Len(b) <= Len(c)
     /\ \A j \in 1..Len(b) : c[Len(a) + j] = b[j]

LEMMA JoinAt ==
  ASSUME NEW S, NEW N \in Nat, NEW P, AllIn(P, N, S)
  PROVE  \A n \in 0..(N - 1) : PieceIn(FirstOnes(P, N), P, n)
<1> DEFINE T == {m \in Nat : m <= N => /\ FirstOnes(P, m) \in Seq(S)
                                      /\ \A n \in 0..(m - 1) : PieceIn(FirstOnes(P, m), P, n)}
<1> HIDE DEF T
<1>1. 0 \in T
  <2>1. FirstOnes(P, 0) = <<>> /\ <<>> \in Seq(S) /\ \A n \in 0..(0 - 1) : FALSE
    BY JoinStarts
  <2> QED BY <2>1 DEF T
<1>2. ASSUME NEW m \in Nat, m \in T PROVE m + 1 \in T
  <2> SUFFICES ASSUME m + 1 <= N
               PROVE  /\ FirstOnes(P, m + 1) \in Seq(S)
                      /\ \A n \in 0..((m + 1) - 1) : PieceIn(FirstOnes(P, m + 1), P, n)
    BY DEF T
  <2> DEFINE a == FirstOnes(P, m)
             b == P[m + 1]
             c == FirstOnes(P, m + 1)
  <2>1. a \in Seq(S) /\ \A n \in 0..(m - 1) : PieceIn(a, P, n)
    BY <1>2 DEF T
  <2>2. b \in Seq(S)
    BY DEF AllIn
  <2>3. c = a \o b
    <3>1. AllIn(P, m + 1, S)
      BY DEF AllIn
    <3> QED BY <3>1, JoinGrows
  <2> HIDE DEF a, b, c
  <2>4. /\ c \in Seq(S) /\ Len(c) = Len(a) + Len(b) /\ Len(a) \in Nat /\ Len(b) \in Nat
        /\ \A k \in 1..Len(a) : c[k] = a[k]
        /\ \A k \in 1..Len(b) : c[Len(a) + k] = b[k]
    BY <2>1, <2>2, <2>3
  <2>5. PieceIn(c, P, m)
    BY <2>4 DEF PieceIn, a, b, c
  <2>6. ASSUME NEW n \in 0..(m - 1) PROVE PieceIn(c, P, n)
    <3> DEFINE part == FirstOnes(P, n)
               e == P[n + 1]
    <3>1. /\ Len(part) \in Nat /\ Len(e) \in Nat /\ Len(FirstOnes(P, n + 1)) = Len(part) + Len(e)
          /\ Len(part) + Len(e) <= Len(a) /\ \A j \in 1..Len(e) : a[Len(part) + j] = e[j]
      BY <2>1 DEF PieceIn
    <3> HIDE DEF part, e
    <3>2. \A j \in 1..Len(e) : Len(part) + j \in 1..Len(a)
      BY <2>4, <3>1
    <3>3. \A j \in 1..Len(e) : c[Len(part) + j] = e[j]
      BY <2>4, <3>1, <3>2
    <3>4. Len(part) + Len(e) <= Len(c)
      BY <2>4, <3>1
    <3> QED BY <3>1, <3>3, <3>4 DEF PieceIn, part, e
  <2>7. \A n \in 0..((m + 1) - 1) : n = m \/ n \in 0..(m - 1)
    OBVIOUS
  <2> QED BY <2>4, <2>5, <2>6, <2>7 DEF c
<1>3. N \in T
  BY <1>1, <1>2, Induction
<1> QED BY <1>3 DEF T

LEMMA JoinIn ==
  ASSUME NEW S, NEW N \in Nat, NEW P, AllIn(P, N, S)
  PROVE  \A n \in 0..N : FirstOnes(P, n) \in Seq(S)
  BY JoinHas DEF HasOnly

\* What the line is made of: the quotes of an argument doubled, the arguments with blanks between.
LineChars == ArgChars \cup {"quote", "blank"}
QuotePiece(ch) == IF ch = "quote" THEN <<"quote", "quote">> ELSE <<ch>>
QuotePieces(arg) == [i \in 1..Len(arg) |-> QuotePiece(arg[i])]
LinePiece(argv, i) == (IF i = 1 THEN <<>> ELSE <<"blank">>) \o build_w32_commandline_copy(argv[i])
LinePieces(argv) == [i \in 1..Len(argv) |-> LinePiece(argv, i)]

LEMMA DoubledIs ==
  ASSUME NEW arg \in Seq(LineChars)
  PROVE  /\ Doubled(arg) = FirstOnes(QuotePieces(arg), Len(arg))
         /\ AllIn(QuotePieces(arg), Len(arg), LineChars)
         /\ Doubled(arg) \in Seq(LineChars)
<1> DEFINE N == Len(arg)
           Q == QuotePieces(arg)
<1>1. N \in Nat /\ \A i \in 1..N : arg[i] \in LineChars
  OBVIOUS
<1>2. \A i \in 1..N : Q[i] = QuotePiece(arg[i])
  BY DEF QuotePieces
<1>3. ASSUME NEW ch \in LineChars PROVE QuotePiece(ch) \in Seq(LineChars)
  <2>1. "quote" \in LineChars
    BY DEF LineChars
  <2>2. <<"quote", "quote">> \in Seq(LineChars) /\ <<ch>> \in Seq(LineChars)
    BY <2>1
  <2> QED BY <2>2 DEF QuotePiece
<1> HIDE DEF Q
<1>4. AllIn(Q, N, LineChars)
  BY <1>1, <1>2, <1>3 DEF AllIn
<1>5. [i \in 1..N |-> IF arg[i] = "quote" THEN <<"quote", "quote">> ELSE <<arg[i]>>] = [i \in 1..N |-> Q[i]]
  BY <1>2 DEF QuotePiece
<1>6. Doubled(arg) = FirstOnes(Q, N)
  BY <1>5 DEF Doubled, FirstOnes
<1>7. FirstOnes(Q, N) \in Seq(LineChars)
  <2>1. N \in 0..N
    BY <1>1
  <2> QED BY <1>1, <1>4, <2>1, JoinIn
<1> QED BY <1>4, <1>6, <1>7 DEF Q

\* How long an argument with its quotes doubled is after n of its characters.
LEMMA DoublingGrows ==
  ASSUME NEW arg \in Seq(LineChars), NEW n \in 0..(Len(arg) - 1)
  PROVE  LET D(m) == Len(FirstOnes(QuotePieces(arg), m))
         IN D(n) \in Nat /\ D(n + 1) = D(n) + (IF arg[n + 1] = "quote" THEN 2 ELSE 1)
<1> DEFINE N == Len(arg)
           Q == QuotePieces(arg)
<1>1. N \in Nat /\ n \in 0..(N - 1) /\ n + 1 \in 1..N
  OBVIOUS
<1>2. AllIn(Q, N, LineChars)
  BY DoubledIs
<1>3. PieceIn(FirstOnes(Q, N), Q, n)
  BY <1>1, <1>2, JoinAt
<1>4. Q[n + 1] = QuotePiece(arg[n + 1])
  BY <1>1 DEF QuotePieces
<1>5. Len(Q[n + 1]) = IF arg[n + 1] = "quote" THEN 2 ELSE 1
  BY <1>4 DEF QuotePiece
<1> HIDE DEF Q
<1>6. Len(FirstOnes(Q, n)) \in Nat /\ Len(FirstOnes(Q, n + 1)) = Len(FirstOnes(Q, n)) + Len(Q[n + 1])
  BY <1>3 DEF PieceIn
<1> QED BY <1>5, <1>6 DEF Q

LEMMA CharsRoomIs ==
  ASSUME NEW arg \in Seq(LineChars), NEW base \in Nat
  PROVE  /\ CharsRoom(base, arg) = base + (Len(Doubled(arg)) - Len(arg))
         /\ Len(Doubled(arg)) \in Nat /\ Len(Doubled(arg)) >= Len(arg)
<1> DEFINE N == Len(arg)
           D(m) == Len(FirstOnes(QuotePieces(arg), m))
<1>1. N \in Nat /\ DOMAIN arg = 1..N
  OBVIOUS
<1>2. PICK h : /\ h[0] = base /\ h[N] = CharsRoom(base, arg)
               /\ \A n \in 0..(N - 1) : h[n + 1] = FoldStep(CharRoomFold, h[n], arg[n + 1])
  <2>1. Stepwise(CharRoomFold, base, arg, N, CharsRoom(base, arg))
    BY <1>1, CharRoomStepwise
  <2> HIDE DEF N
  <2> QED BY <2>1 DEF Stepwise
<1>3. \A acc, x : FoldStep(CharRoomFold, acc, x) = IF x = "quote" THEN acc + 1 ELSE acc
  BY DEF FoldStep, CharRoomFold, FoldOver, CharRoom
<1>4. \A n \in 0..(N - 1) : D(n) \in Nat /\ D(n + 1) = D(n) + (IF arg[n + 1] = "quote" THEN 2 ELSE 1)
  BY DoublingGrows
<1>5. D(0) = 0
  <2>1. FirstOnes(QuotePieces(arg), 0) = <<>>
    BY JoinStarts
  <2> QED BY <2>1
<1> HIDE DEF D, N
<1> DEFINE T == {n \in Nat : n <= N => D(n) \in Nat /\ D(n) >= n /\ h[n] = base + (D(n) - n)}
<1>6. 0 \in T
  BY <1>2, <1>5
<1>7. ASSUME NEW n \in Nat, n \in T PROVE n + 1 \in T
  <2> SUFFICES ASSUME n + 1 <= N
               PROVE D(n + 1) \in Nat /\ D(n + 1) >= n + 1 /\ h[n + 1] = base + (D(n + 1) - (n + 1))
    OBVIOUS
  <2>1. n \in 0..(N - 1) /\ n <= N
    BY <1>1
  <2>2. D(n) \in Nat /\ D(n) >= n /\ h[n] = base + (D(n) - n)
    BY <1>7, <2>1
  <2>3. h[n + 1] = IF arg[n + 1] = "quote" THEN h[n] + 1 ELSE h[n]
    BY <1>2, <1>3, <2>1
  <2>4. D(n + 1) = D(n) + (IF arg[n + 1] = "quote" THEN 2 ELSE 1)
    BY <1>4, <2>1
  <2> QED BY <2>2, <2>3, <2>4
<1> HIDE DEF T
<1>8. N \in T
  BY <1>1, <1>6, <1>7, Induction
<1>9. D(N) \in Nat /\ D(N) >= N /\ h[N] = base + (D(N) - N)
  BY <1>1, <1>8 DEF T
<1>10. D(N) = Len(Doubled(arg))
  BY DoubledIs DEF D, N
<1> QED BY <1>2, <1>9, <1>10 DEF N

\* An argument takes the room that is counted for it, less the blank before it at least.
LEMMA CopyFits ==
  ASSUME NEW arg \in Seq(LineChars), NEW n \in Nat
  PROVE  LET c == build_w32_commandline_copy(arg)
         IN /\ c \in Seq(LineChars) /\ Len(c) \in Nat
            /\ StringRoom(n, arg) \in Nat /\ n + 1 + Len(c) <= StringRoom(n, arg)
<1> DEFINE c == build_w32_commandline_copy(arg)
           twice == Doubled(arg)
<1>1. twice \in Seq(LineChars) /\ Len(twice) \in Nat /\ Len(twice) >= Len(arg) /\ Len(arg) \in Nat
  <2>1. Len(twice) \in Nat /\ Len(twice) >= Len(arg)
    BY CharsRoomIs
  <2> QED BY <2>1, DoubledIs
<1>2. StringRoom(n, arg) = n + 3 + Len(twice)
  <2>1. StringRoom(n, arg) = CharsRoom(n + Len(arg) + 3, arg)
    BY DEF StringRoom, CharsRoom
  <2>2. n + Len(arg) + 3 \in Nat
    BY <1>1
  <2>3. CharsRoom(n + Len(arg) + 3, arg) = n + Len(arg) + 3 + (Len(twice) - Len(arg))
    BY <2>2, CharsRoomIs
  <2> QED BY <1>1, <2>1, <2>3
<1>3. c = <<"quote", "quote">> \/ c = <<"quote">> \o twice \o <<"quote">> \/ c = arg
  BY DEF build_w32_commandline_copy
<1>4. <<"quote", "quote">> \in Seq(LineChars) /\ <<"quote">> \in Seq(LineChars)
  BY DEF LineChars
<1> HIDE DEF c, twice
<1>5. <<"quote">> \o twice \o <<"quote">> \in Seq(LineChars) /\ Len(<<"quote">> \o twice \o <<"quote">>) = Len(twice) + 2
  BY <1>1, <1>4
<1>6. Len(<<"quote", "quote">>) = 2
  OBVIOUS
<1>7. c \in Seq(LineChars) /\ Len(c) \in Nat /\ Len(c) <= Len(twice) + 2
  <2>1. CASE c = <<"quote", "quote">>
    BY <1>1, <1>4, <1>6, <2>1
  <2>2. CASE c = <<"quote">> \o twice \o <<"quote">>
    BY <1>1, <1>5, <2>2
  <2>3. CASE c = arg
    BY <1>1, <2>3
  <2> QED BY <1>3, <2>1, <2>2, <2>3
<1> QED BY <1>1, <1>2, <1>7 DEF c

\* The pieces of a line, and how much longer it becomes by each.
LEMMA LineIs ==
  ASSUME NEW argv \in Seq(Seq(LineChars))
  PROVE  /\ build_w32_commandline(argv) = FirstOnes(LinePieces(argv), Len(argv))
         /\ AllIn(LinePieces(argv), Len(argv), LineChars)
         /\ build_w32_commandline(argv) \in Seq(LineChars)
<1> DEFINE N == Len(argv)
           P == LinePieces(argv)
<1>1. N \in Nat /\ \A i \in 1..N : argv[i] \in Seq(LineChars)
  OBVIOUS
<1>2. \A i \in 1..N : P[i] = LinePiece(argv, i)
  BY DEF LinePieces
<1>3. ASSUME NEW i \in 1..N PROVE LinePiece(argv, i) \in Seq(LineChars)
  <2>1. build_w32_commandline_copy(argv[i]) \in Seq(LineChars)
    BY <1>1, CopyFits
  <2>2. <<"blank">> \in Seq(LineChars) /\ <<>> \in Seq(LineChars)
    BY DEF LineChars
  <2> QED BY <2>1, <2>2 DEF LinePiece
<1> HIDE DEF P
<1>4. AllIn(P, N, LineChars)
  BY <1>2, <1>3 DEF AllIn
<1>5. [i \in 1..N |-> (IF i = 1 THEN <<>> ELSE <<"blank">>) \o build_w32_commandline_copy(argv[i])] = [i \in 1..N |-> P[i]]
  BY <1>2 DEF LinePiece
<1>6. build_w32_commandline(argv) = FirstOnes(P, N)
  BY <1>5 DEF build_w32_commandline, FirstOnes
<1>7. FirstOnes(P, N) \in Seq(LineChars)
  <2>1. N \in 0..N
    BY <1>1
  <2> QED BY <1>1, <1>4, <2>1, JoinIn
<1> QED BY <1>4, <1>6, <1>7 DEF P

\* The line and its NUL fit into the room.
LEMMA LineFits ==
  ASSUME NEW argv \in Seq(Seq(LineChars))
  PROVE  Len(build_w32_commandline(argv)) < LineRoom(argv)
<1> DEFINE N == Len(argv)
           P == LinePieces(argv)
           D(m) == Len(FirstOnes(P, m))
<1>1. N \in Nat /\ DOMAIN argv = 1..N /\ \A i \in 1..N : argv[i] \in Seq(LineChars)
  OBVIOUS
<1>2. PICK h : /\ h[0] = 0 /\ h[N] = StringsRoom(argv)
               /\ \A n \in 0..(N - 1) : h[n + 1] = FoldStep(StringRoomFold, h[n], argv[n + 1])
  <2>1. Stepwise(StringRoomFold, 0, argv, N, StringsRoom(argv))
    BY <1>1, StringRoomStepwise
  <2> HIDE DEF N
  <2> QED BY <2>1 DEF Stepwise
<1>3. \A acc, x : FoldStep(StringRoomFold, acc, x) = StringRoom(acc, x)
  BY DEF FoldStep, StringRoomFold, FoldOver
<1>4. ASSUME NEW n \in 0..(N - 1)
      PROVE  D(n) \in Nat /\ D(n + 1) <= D(n) + 1 + Len(build_w32_commandline_copy(argv[n + 1])) /\ D(n + 1) \in Nat
  <2> DEFINE c == build_w32_commandline_copy(argv[n + 1])
  <2>1. n + 1 \in 1..N
    BY <1>1
  <2>2. P[n + 1] = LinePiece(argv, n + 1)
    BY <2>1 DEF LinePieces
  <2>3. c \in Seq(LineChars) /\ Len(c) \in Nat
    BY <1>1, <2>1, CopyFits
  <2>4. PieceIn(FirstOnes(P, N), P, n)
    BY <1>1, LineIs, JoinAt
  <2> HIDE DEF P, c
  <2>5. Len(<<>> \o c) = Len(c) /\ Len(<<"blank">> \o c) = Len(c) + 1
    BY <2>3
  <2>6. Len(P[n + 1]) <= Len(c) + 1
    <3>1. P[n + 1] = <<>> \o c \/ P[n + 1] = <<"blank">> \o c
      BY <2>2 DEF LinePiece, c
    <3> QED BY <2>3, <2>5, <3>1
  <2>7. D(n) \in Nat /\ Len(P[n + 1]) \in Nat /\ D(n + 1) = D(n) + Len(P[n + 1])
    BY <2>4 DEF PieceIn
  <2> HIDE DEF D
  <2> QED BY <2>3, <2>6, <2>7, SMTT(60) DEF c
<1>5. D(0) = 0
  <2>1. FirstOnes(P, 0) = <<>>
    BY JoinStarts
  <2> QED BY <2>1
<1> HIDE DEF D, N, P
<1> DEFINE T == {n \in Nat : n <= N => D(n) \in Nat /\ h[n] \in Nat /\ D(n) <= h[n]}
<1>6. 0 \in T
  BY <1>2, <1>5
<1>7. ASSUME NEW n \in Nat, n \in T PROVE n + 1 \in T
  <2> SUFFICES ASSUME n + 1 <= N PROVE D(n + 1) \in Nat /\ h[n + 1] \in Nat /\ D(n + 1) <= h[n + 1]
    OBVIOUS
  <2> DEFINE c == build_w32_commandline_copy(argv[n + 1])
  <2>1. n \in 0..(N - 1) /\ n <= N /\ n + 1 \in 1..N
    BY <1>1
  <2>2. D(n) \in Nat /\ h[n] \in Nat /\ D(n) <= h[n]
    BY <1>7, <2>1
  <2>3. h[n + 1] = StringRoom(h[n], argv[n + 1])
    BY <1>2, <1>3, <2>1
  <2>4. Len(c) \in Nat /\ StringRoom(h[n], argv[n + 1]) \in Nat /\ h[n] + 1 + Len(c) <= StringRoom(h[n], argv[n + 1])
    BY <1>1, <2>1, <2>2, CopyFits
  <2>5. D(n + 1) \in Nat /\ D(n + 1) <= D(n) + 1 + Len(c)
    BY <1>4, <2>1
  <2> HIDE DEF c
  <2> QED BY <2>2, <2>3, <2>4, <2>5
<1> HIDE DEF T
<1>8. N \in T
  BY <1>1, <1>6, <1>7, Induction
<1>9. D(N) \in Nat /\ h[N] \in Nat /\ D(N) <= h[N]
  BY <1>1, <1>8 DEF T
<1>10. Len(build_w32_commandline(argv)) = D(N)
  BY LineIs DEF D, N, P
<1>11. LineRoom(argv) = 1 + h[N]
  BY <1>2 DEF LineRoom, StringsRoom
<1> QED BY <1>9, <1>10, <1>11

\* How far the child is with its command line: before an argument, in one, in quotes in one,
\* or at the second of two quotes; the arguments before it and what it has of this one.
At(args, arg, any, quoted, skip) == [args |-> args, arg |-> arg, any |-> any, quoted |-> quoted, skip |-> skip]
Before(done) == At(done, <<>>, FALSE, FALSE, FALSE)
Within(done, a) == At(done, a, TRUE, FALSE, FALSE)
Quoted(done, a) == At(done, a, TRUE, TRUE, FALSE)
Second(done, a) == At(done, a, TRUE, TRUE, TRUE)
\* Another quote follows.
Another(line, i) == i < Len(line) /\ line[i + 1] = "quote"

LEMMA CharStarts ==
  ASSUME NEW line, NEW i, NEW done, line[i] # "quote", line[i] # "blank"
  PROVE  SplitStep(Before(done), line, i) = Within(done, Append(<<>>, line[i]))
  BY DEF SplitStep, At, Before, Within

LEMMA CharTaken ==
  ASSUME NEW line, NEW i, NEW done, NEW a, line[i] # "quote", line[i] # "blank"
  PROVE  SplitStep(Within(done, a), line, i) = Within(done, Append(a, line[i]))
  BY DEF SplitStep, At, Within

LEMMA CharQuoted ==
  ASSUME NEW line, NEW i, NEW done, NEW a, line[i] # "quote"
  PROVE  SplitStep(Quoted(done, a), line, i) = Quoted(done, Append(a, line[i]))
  BY DEF SplitStep, At, Quoted

LEMMA QuotesOpen ==
  ASSUME NEW line, NEW i, NEW done, line[i] = "quote"
  PROVE  SplitStep(Before(done), line, i) = Quoted(done, <<>>)
  BY DEF SplitStep, At, Before, Quoted

LEMMA QuoteTaken ==
  ASSUME NEW line, NEW i, NEW done, NEW a, line[i] = "quote", Another(line, i)
  PROVE  SplitStep(Quoted(done, a), line, i) = Second(done, Append(a, "quote"))
  BY DEF SplitStep, At, Quoted, Second, Another

LEMMA SecondSkipped ==
  ASSUME NEW line, NEW i, NEW done, NEW a PROVE SplitStep(Second(done, a), line, i) = Quoted(done, a)
  BY DEF SplitStep, At, Quoted, Second

LEMMA QuotesClose ==
  ASSUME NEW line, NEW i, NEW done, NEW a, line[i] = "quote", ~Another(line, i)
  PROVE  SplitStep(Quoted(done, a), line, i) = Within(done, a)
  BY DEF SplitStep, At, Quoted, Within, Another

LEMMA ArgumentEnds ==
  ASSUME NEW line, NEW i, NEW done, NEW a, line[i] = "blank"
  PROVE  SplitStep(Within(done, a), line, i) = Before(Append(done, a))
  BY DEF SplitStep, At, Before, Within

\* The child's steps over the line.
Walks(h, line) == \A k \in 0..(Len(line) - 1) : h[k + 1] = SplitStep(h[k], line, k + 1)

FirstOf(s, n) == [i \in 1..n |-> s[i]]

LEMMA FirstGrows ==
  ASSUME NEW S, NEW s \in Seq(S), NEW n \in Nat, n + 1 <= Len(s)
  PROVE  FirstOf(s, n + 1) = Append(FirstOf(s, n), s[n + 1]) /\ FirstOf(s, n) \in Seq(S)
  BY DEF FirstOf

LEMMA FirstEnds == ASSUME NEW S, NEW s \in Seq(S) PROVE FirstOf(s, 0) = <<>> /\ FirstOf(s, Len(s)) = s
  BY DEF FirstOf

\* A copy of an argument lies in the line behind the first k characters, and no quote follows.
CopyAt(line, k, arg) ==
  LET c == build_w32_commandline_copy(arg)
  IN /\ Len(line) \in Nat /\ k + Len(c) <= Len(line)
     /\ \A j \in 1..Len(c) : line[k + j] = c[j]
     /\ ~(k + Len(c) < Len(line) /\ line[k + Len(c) + 1] = "quote")

\* An argument without quotes around it.
LEMMA PlainRead ==
  ASSUME NEW arg \in Seq(LineChars), NEW line, NEW k \in Nat, NEW h, NEW done,
         CopyAt(line, k, arg), Walks(h, line), h[k] = Before(done),
         arg # <<>>, ~Has(arg, "blank"), ~Has(arg, "quote")
  PROVE  h[k + Len(arg)] = Within(done, arg)
<1> DEFINE N == Len(arg)
           T == {n \in Nat : n <= N => h[k + n] = IF n = 0 THEN Before(done) ELSE Within(done, FirstOf(arg, n))}
<1> HIDE DEF T
<1>1. N \in Nat /\ N > 0 /\ \A j \in 1..N : arg[j] # "quote" /\ arg[j] # "blank"
  BY DEF Has, Contains
<1>2. build_w32_commandline_copy(arg) = arg
  BY DEF build_w32_commandline_copy
<1>3. Len(line) \in Nat /\ k + N <= Len(line) /\ \A j \in 1..N : line[k + j] = arg[j]
  BY <1>2 DEF CopyAt
<1>4. 0 \in T
  <2>1. k + 0 = k
    OBVIOUS
  <2> QED BY <2>1 DEF T
<1>5. ASSUME NEW n \in Nat, n \in T PROVE n + 1 \in T
  <2> DEFINE i == k + n
             f == FirstOf(arg, n)
  <2>1. ASSUME n + 1 <= N PROVE h[k + (n + 1)] = Within(done, FirstOf(arg, n + 1))
    <3>1. n <= N /\ n + 1 \in 1..N /\ i \in 0..(Len(line) - 1) /\ i + 1 = k + (n + 1)
      BY <1>1, <1>3, <2>1
    <3>2. line[i + 1] = arg[n + 1] /\ arg[n + 1] # "quote" /\ arg[n + 1] # "blank"
      BY <1>1, <1>3, <3>1
    <3>3. h[i] = IF n = 0 THEN Before(done) ELSE Within(done, f)
      BY <1>5, <3>1 DEF T
    <3>4. FirstOf(arg, n + 1) = Append(f, arg[n + 1]) /\ (n = 0 => f = <<>>)
      BY <2>1, FirstGrows, FirstEnds
    <3> HIDE DEF f, i
    <3>5. h[i + 1] = SplitStep(h[i], line, i + 1)
      BY <3>1 DEF Walks
    <3>6. SplitStep(h[i], line, i + 1) = Within(done, Append(f, line[i + 1]))
      <4>1. CASE n = 0
        BY <3>2, <3>3, <3>4, <4>1, CharStarts
      <4>2. CASE n # 0
        BY <3>2, <3>3, <4>2, CharTaken
      <4> QED BY <4>1, <4>2
    <3> QED BY <3>1, <3>2, <3>4, <3>5, <3>6
  <2>2. n + 1 \in Nat /\ n + 1 # 0
    OBVIOUS
  <2> QED BY <2>1, <2>2 DEF T
<1>6. N \in T
  BY <1>1, <1>4, <1>5, Induction
<1>7. h[k + N] = Within(done, FirstOf(arg, N))
  <2> HIDE DEF N
  <2>1. N <= N /\ N # 0
    BY <1>1
  <2> QED BY <1>6, <2>1 DEF T
<1>8. FirstOf(arg, N) = arg
  BY FirstEnds
<1> QED BY <1>7, <1>8

\* An empty argument.
LEMMA EmptyRead ==
  ASSUME NEW line, NEW k \in Nat, NEW h, NEW done,
         CopyAt(line, k, <<>>), Walks(h, line), h[k] = Before(done)
  PROVE  h[k + 2] = Within(done, <<>>)
<1> DEFINE c == <<"quote", "quote">>
<1>1. build_w32_commandline_copy(<<>>) = c
  BY DEF build_w32_commandline_copy
<1>2. Len(c) = 2 /\ c[1] = "quote" /\ c[2] = "quote"
  OBVIOUS
<1>3. /\ Len(line) \in Nat /\ k + 2 <= Len(line) /\ line[k + 1] = "quote" /\ line[k + 2] = "quote"
      /\ ~(k + 2 < Len(line) /\ line[(k + 2) + 1] = "quote")
  <2> HIDE DEF c
  <2>1. 1 \in 1..Len(c) /\ 2 \in 1..Len(c)
    BY <1>2
  <2> QED BY <1>1, <1>2, <2>1 DEF CopyAt
<1>4. k \in 0..(Len(line) - 1) /\ k + 1 \in 0..(Len(line) - 1) /\ (k + 1) + 1 = k + 2
  BY <1>3
<1>5. h[k + 1] = Quoted(done, <<>>)
  <2>1. h[k + 1] = SplitStep(h[k], line, k + 1)
    BY <1>4 DEF Walks
  <2> QED BY <1>3, <2>1, QuotesOpen
<1>6. h[k + 2] = SplitStep(h[k + 1], line, k + 2)
  <2>1. h[(k + 1) + 1] = SplitStep(h[k + 1], line, (k + 1) + 1)
    BY <1>4 DEF Walks
  <2> QED BY <1>4, <2>1
<1> DEFINE i == k + 2
<1>7. line[i] = "quote" /\ ~Another(line, i) /\ h[i] = SplitStep(Quoted(done, <<>>), line, i)
  BY <1>3, <1>5, <1>6 DEF Another
<1> HIDE DEF i
<1>8. h[i] = Within(done, <<>>)
  BY <1>7, QuotesClose, Z3
<1> QED BY <1>8 DEF i

\* An argument in quotes, with its own doubled.
LEMMA QuotedRead ==
  ASSUME NEW arg \in Seq(LineChars), NEW line, NEW k \in Nat, NEW h, NEW done,
         CopyAt(line, k, arg), Walks(h, line), h[k] = Before(done),
         arg # <<>>, Has(arg, "blank") \/ Has(arg, "quote")
  PROVE  h[k + Len(build_w32_commandline_copy(arg))] = Within(done, arg)
<1> DEFINE N == Len(arg)
           Q == QuotePieces(arg)
           D(m) == Len(FirstOnes(Q, m))
           twice == Doubled(arg)
           c == <<"quote">> \o twice \o <<"quote">>
<1>1. N \in Nat /\ DOMAIN arg = 1..N /\ twice \in Seq(LineChars) /\ twice = FirstOnes(Q, N)
  BY DoubledIs
<1>2. build_w32_commandline_copy(arg) = c
  BY DEF build_w32_commandline_copy
<1> HIDE DEF twice
<1>3. /\ Len(twice) \in Nat /\ Len(c) = Len(twice) + 2 /\ c[1] = "quote" /\ c[Len(twice) + 2] = "quote"
      /\ \A j \in 1..Len(twice) : c[j + 1] = twice[j]
  <2>1. <<"quote">> \in Seq(LineChars)
    BY DEF LineChars
  <2> QED BY <1>1, <2>1
<1> HIDE DEF c
<1>4. /\ Len(line) \in Nat /\ k + (Len(twice) + 2) <= Len(line)
      /\ \A j \in 1..(Len(twice) + 2) : line[k + j] = c[j]
      /\ ~(k + (Len(twice) + 2) < Len(line) /\ line[(k + (Len(twice) + 2)) + 1] = "quote")
  BY <1>2, <1>3 DEF CopyAt
<1>5. \A j \in 1..Len(twice) : line[(k + 1) + j] = twice[j]
  <2> SUFFICES ASSUME NEW j \in 1..Len(twice) PROVE line[(k + 1) + j] = twice[j]
    OBVIOUS
  <2>1. j + 1 \in 1..(Len(twice) + 2) /\ k + (j + 1) = (k + 1) + j
    BY <1>3
  <2> QED BY <1>3, <1>4, <2>1
<1>6. h[k + 1] = Quoted(done, <<>>)
  <2>1. 1 \in 1..(Len(twice) + 2) /\ k \in 0..(Len(line) - 1)
    BY <1>3, <1>4
  <2>2. line[k + 1] = "quote"
    BY <1>3, <1>4, <2>1
  <2>3. h[k + 1] = SplitStep(h[k], line, k + 1)
    BY <2>1 DEF Walks
  <2> QED BY <2>2, <2>3, QuotesOpen
<1>7. \A n \in 0..(N - 1) : PieceIn(twice, Q, n)
  BY <1>1, DoubledIs, JoinAt
<1>8. D(0) = 0 /\ D(N) = Len(twice)
  <2>1. FirstOnes(Q, 0) = <<>>
    BY JoinStarts
  <2> QED BY <1>1, <2>1
<1>9. \A n \in 1..N : Q[n] = QuotePiece(arg[n])
  BY DEF QuotePieces
<1> HIDE DEF Q, N, D
<1> DEFINE T == {n \in Nat : n <= N => h[(k + 1) + D(n)] = Quoted(done, FirstOf(arg, n))}
<1> HIDE DEF T
<1>10. 0 \in T
  <2>1. FirstOf(arg, 0) = <<>>
    BY FirstEnds
  <2>2. (k + 1) + 0 = k + 1
    OBVIOUS
  <2> QED BY <1>6, <1>8, <2>1, <2>2 DEF T
<1>11. ASSUME NEW n \in Nat, n \in T PROVE n + 1 \in T
  <2>1. ASSUME n + 1 <= N PROVE h[(k + 1) + D(n + 1)] = Quoted(done, FirstOf(arg, n + 1))
    <3> DEFINE i == (k + 1) + D(n)
               f == FirstOf(arg, n)
               p == Q[n + 1]
               ch == arg[n + 1]
    <3>1. n \in 0..(N - 1) /\ n <= N /\ n + 1 \in 1..N
      BY <1>1, <2>1
    <3>2. /\ D(n) \in Nat /\ Len(p) \in Nat /\ D(n + 1) = D(n) + Len(p) /\ D(n) + Len(p) <= Len(twice)
          /\ \A j \in 1..Len(p) : twice[D(n) + j] = p[j]
      BY <1>7, <3>1 DEF PieceIn, D
    <3>3. h[i] = Quoted(done, f)
      BY <1>11, <3>1 DEF T
    <3>4. FirstOf(arg, n + 1) = Append(f, ch)
      BY <2>1, FirstGrows DEF N
    <3>5. p = QuotePiece(ch)
      BY <1>9, <3>1
    <3> HIDE DEF f, p, ch
    <3>6. \A j \in 1..Len(p) : line[i + j] = p[j]
      <4> SUFFICES ASSUME NEW j \in 1..Len(p) PROVE line[i + j] = p[j]
        OBVIOUS
      <4>1. D(n) + j \in 1..Len(twice) /\ (k + 1) + (D(n) + j) = i + j
        BY <1>3, <3>2
      <4> QED BY <1>5, <3>2, <4>1
    <3>7. i \in Nat /\ i + Len(p) < Len(line) /\ (k + 1) + D(n + 1) = i + Len(p)
      BY <1>3, <1>4, <3>2, SMTT(60)
    <3> HIDE DEF i
    <3>8. CASE ch = "quote"
      <4>1. Len(p) = 2 /\ p[1] = "quote" /\ p[2] = "quote"
        BY <3>5, <3>8 DEF QuotePiece
      <4>2. line[i + 1] = "quote" /\ line[(i + 1) + 1] = "quote" /\ i + 1 < Len(line)
        <5>1. 1 \in 1..Len(p) /\ 2 \in 1..Len(p) /\ (i + 1) + 1 = i + 2 /\ i + 1 < Len(line)
          BY <1>4, <3>7, <4>1
        <5> QED BY <3>6, <4>1, <5>1
      <4>3. i \in 0..(Len(line) - 1) /\ i + 1 \in 0..(Len(line) - 1) /\ (i + 1) + 1 = i + 2
        BY <1>4, <3>7, <4>1
      <4>4. h[i + 1] = Second(done, Append(f, "quote"))
        <5> DEFINE j == i + 1
        <5>1. h[j] = SplitStep(Quoted(done, f), line, j) /\ line[j] = "quote" /\ Another(line, j)
          BY <3>3, <4>2, <4>3 DEF Walks, Another
        <5> HIDE DEF j
        <5>2. h[j] = Second(done, Append(f, "quote"))
          BY <5>1, QuoteTaken, Z3
        <5> QED BY <5>2 DEF j
      <4>5. h[i + 2] = Quoted(done, Append(f, "quote"))
        <5>1. h[(i + 1) + 1] = SplitStep(h[i + 1], line, (i + 1) + 1)
          BY <4>3 DEF Walks
        <5> DEFINE j == i + 2
                   g == Append(f, "quote")
        <5>2. h[j] = SplitStep(Second(done, g), line, j)
          BY <4>3, <4>4, <5>1
        <5> HIDE DEF j, g
        <5>3. h[j] = Quoted(done, g)
          BY <5>2, SecondSkipped, Z3
        <5> QED BY <5>3 DEF j, g
      <4> QED BY <3>4, <3>7, <3>8, <4>1, <4>5
    <3>9. CASE ch # "quote"
      <4>1. Len(p) = 1 /\ p[1] = ch
        BY <3>5, <3>9 DEF QuotePiece
      <4>2. line[i + 1] = ch
        <5>1. 1 \in 1..Len(p)
          BY <4>1
        <5> QED BY <3>6, <4>1, <5>1
      <4>3. i \in 0..(Len(line) - 1)
        BY <1>4, <3>7, <4>1
      <4>4. h[i + 1] = Quoted(done, Append(f, ch))
        <5>1. h[i + 1] = SplitStep(h[i], line, i + 1)
          BY <4>3 DEF Walks
        <5>2. SplitStep(Quoted(done, f), line, i + 1) = Quoted(done, Append(f, line[i + 1]))
          BY <3>9, <4>2, CharQuoted, Z3
        <5> QED BY <3>3, <4>2, <5>1, <5>2
      <4> QED BY <3>4, <3>7, <4>1, <4>4
    <3> QED BY <3>8, <3>9
  <2>2. n + 1 \in Nat
    OBVIOUS
  <2> QED BY <2>1, <2>2 DEF T
<1>12. N \in T
  BY <1>1, <1>10, <1>11, Induction
<1>13. h[(k + 1) + Len(twice)] = Quoted(done, arg)
  <2>1. h[(k + 1) + D(N)] = Quoted(done, FirstOf(arg, N))
    <3>1. N <= N
      BY <1>1
    <3> QED BY <1>12, <3>1 DEF T
  <2>2. FirstOf(arg, N) = arg
    BY FirstEnds DEF N
  <2> QED BY <1>8, <2>1, <2>2
<1>14. /\ (k + 1) + Len(twice) \in 0..(Len(line) - 1) /\ ((k + 1) + Len(twice)) + 1 = k + (Len(twice) + 2)
       /\ Len(twice) + 2 \in 1..(Len(twice) + 2)
  BY <1>3, <1>4
<1>15. h[k + (Len(twice) + 2)] = SplitStep(h[(k + 1) + Len(twice)], line, k + (Len(twice) + 2))
  <2>1. h[((k + 1) + Len(twice)) + 1] = SplitStep(h[(k + 1) + Len(twice)], line, ((k + 1) + Len(twice)) + 1)
    BY <1>14 DEF Walks
  <2> QED BY <1>14, <2>1
<1>16. line[k + (Len(twice) + 2)] = "quote"
  BY <1>3, <1>4, <1>14
<1>17. h[k + (Len(twice) + 2)] = Within(done, arg)
  <2> DEFINE j == k + (Len(twice) + 2)
  <2>1. line[j] = "quote" /\ ~Another(line, j) /\ h[j] = SplitStep(Quoted(done, arg), line, j)
    BY <1>4, <1>13, <1>15, <1>16 DEF Another
  <2> HIDE DEF j
  <2>2. h[j] = Within(done, arg)
    BY <2>1, QuotesClose, Z3
  <2> QED BY <2>2 DEF j
<1> QED BY <1>2, <1>3, <1>17

\* An argument is read as it was given.
LEMMA ArgumentRead ==
  ASSUME NEW arg \in Seq(LineChars), NEW line, NEW k \in Nat, NEW h, NEW done,
         CopyAt(line, k, arg), Walks(h, line), h[k] = Before(done)
  PROVE  h[k + Len(build_w32_commandline_copy(arg))] = Within(done, arg)
<1>1. CASE arg = <<>>
  <2>1. Len(build_w32_commandline_copy(arg)) = 2
    BY <1>1 DEF build_w32_commandline_copy
  <2>2. h[k + 2] = Within(done, <<>>)
    BY <1>1, EmptyRead
  <2> QED BY <1>1, <2>1, <2>2
<1>2. CASE arg # <<>> /\ ~Has(arg, "blank") /\ ~Has(arg, "quote")
  <2>1. build_w32_commandline_copy(arg) = arg
    BY <1>2 DEF build_w32_commandline_copy
  <2> QED BY <1>2, <2>1, PlainRead
<1>3. CASE arg # <<>> /\ (Has(arg, "blank") \/ Has(arg, "quote"))
  BY <1>3, QuotedRead
<1> QED BY <1>1, <1>2, <1>3

\* The copy of an argument in the line, with the blank in front of it, but for the first.
LEMMA CopyIn ==
  ASSUME NEW argv \in Seq(Seq(LineChars)), NEW n \in 0..(Len(argv) - 1)
  PROVE  LET D(m) == Len(FirstOnes(LinePieces(argv), m))
             line == build_w32_commandline(argv)
             k == D(n) + (IF n = 0 THEN 0 ELSE 1)
         IN /\ D(n) \in Nat /\ k \in Nat /\ (n # 0 => D(n) < Len(line) /\ line[D(n) + 1] = "blank")
            /\ CopyAt(line, k, argv[n + 1]) /\ D(n + 1) = k + Len(build_w32_commandline_copy(argv[n + 1]))
<1> DEFINE N == Len(argv)
           P == LinePieces(argv)
           D(m) == Len(FirstOnes(P, m))
           line == build_w32_commandline(argv)
           c == build_w32_commandline_copy(argv[n + 1])
           s == IF n = 0 THEN 0 ELSE 1
           k == D(n) + s
<1>1. N \in Nat /\ n \in Nat /\ n + 1 \in 1..N /\ argv[n + 1] \in Seq(LineChars)
  OBVIOUS
<1>2. line = FirstOnes(P, N) /\ AllIn(P, N, LineChars) /\ line \in Seq(LineChars)
  BY LineIs
<1>3. \A m \in 0..(N - 1) : PieceIn(line, P, m)
  BY <1>1, <1>2, JoinAt
<1>4. \A m \in 1..N : P[m] = LinePiece(argv, m)
  BY DEF LinePieces
<1>5. c \in Seq(LineChars) /\ Len(c) \in Nat
  BY <1>1, CopyFits
<1> HIDE DEF P, line, c
<1>6. D(N) = Len(line)
  BY <1>2
<1> HIDE DEF D, N
<1>7. ASSUME NEW m \in 0..(N - 1)
      PROVE  /\ D(m) \in Nat /\ Len(P[m + 1]) \in Nat /\ D(m + 1) = D(m) + Len(P[m + 1])
             /\ D(m) + Len(P[m + 1]) <= Len(line) /\ \A j \in 1..Len(P[m + 1]) : line[D(m) + j] = P[m + 1][j]
  BY <1>3 DEF PieceIn, D
<1>8. \A m \in 1..(N - 1) : line[D(m) + 1] = "blank" /\ D(m) < Len(line)
  <2> SUFFICES ASSUME NEW m \in 1..(N - 1) PROVE line[D(m) + 1] = "blank" /\ D(m) < Len(line)
    OBVIOUS
  <2> DEFINE e == build_w32_commandline_copy(argv[m + 1])
             p == P[m + 1]
  <2>1. m + 1 \in 1..N /\ m \in 0..(N - 1) /\ m + 1 # 1
    BY <1>1
  <2>2. p = <<"blank">> \o e
    BY <1>4, <2>1 DEF LinePiece
  <2>3. e \in Seq(LineChars)
    <3>1. argv[m + 1] \in Seq(LineChars)
      BY <2>1 DEF N
    <3> QED BY <3>1, CopyFits
  <2>4. <<"blank">> \in Seq(LineChars)
    BY DEF LineChars
  <2> HIDE DEF e
  <2>5. Len(p) >= 1 /\ p[1] = "blank" /\ Len(p) \in Nat
    BY <2>2, <2>3, <2>4
  <2>6. /\ D(m) \in Nat /\ D(m) + Len(p) <= Len(line) /\ \A j \in 1..Len(p) : line[D(m) + j] = p[j]
    BY <1>7, <2>1
  <2> HIDE DEF p
  <2>7. 1 \in 1..Len(p) /\ D(m) + 1 <= D(m) + Len(p) /\ Len(line) \in Nat
    BY <1>2, <2>5, <2>6
  <2> QED BY <2>5, <2>6, <2>7
<1>9. n \in 0..(N - 1)
  BY DEF N
<1>10. /\ D(n) \in Nat /\ Len(P[n + 1]) \in Nat /\ D(n + 1) = D(n) + Len(P[n + 1])
       /\ D(n) + Len(P[n + 1]) <= Len(line) /\ \A j \in 1..Len(P[n + 1]) : line[D(n) + j] = P[n + 1][j]
  BY <1>7, <1>9
<1>11. Len(P[n + 1]) = s + Len(c) /\ \A j \in 1..Len(c) : P[n + 1][s + j] = c[j]
  <2>1. P[n + 1] = (IF n + 1 = 1 THEN <<>> ELSE <<"blank">>) \o c
    BY <1>1, <1>4 DEF LinePiece, c
  <2>2. CASE n = 0
    <3>1. P[n + 1] = c /\ s = 0
      BY <1>5, <2>1, <2>2
    <3> QED BY <1>5, <3>1
  <2>3. CASE n # 0
    <3>1. P[n + 1] = <<"blank">> \o c /\ s = 1
      BY <1>1, <2>1, <2>3
    <3>2. <<"blank">> \in Seq(LineChars)
      BY DEF LineChars
    <3> QED BY <1>5, <3>1, <3>2
  <2> QED BY <2>2, <2>3
<1>12. k \in Nat /\ D(n + 1) = k + Len(c) /\ k + Len(c) <= Len(line) /\ s \in Nat
  <2>1. s \in Nat
    BY <1>1
  <2> HIDE DEF s
  <2> QED BY <1>5, <1>10, <1>11, <2>1
<1>13. \A j \in 1..Len(c) : line[k + j] = c[j]
  <2> SUFFICES ASSUME NEW j \in 1..Len(c) PROVE line[k + j] = c[j]
    OBVIOUS
  <2> HIDE DEF s
  <2>1. s + j \in 1..Len(P[n + 1]) /\ D(n) + (s + j) = k + j
    BY <1>5, <1>10, <1>11, <1>12
  <2>2. line[D(n) + (s + j)] = P[n + 1][s + j]
    BY <1>10, <2>1
  <2> QED BY <1>11, <2>1, <2>2
<1> HIDE DEF s, k
<1>14. ~(k + Len(c) < Len(line) /\ line[k + Len(c) + 1] = "quote")
  <2>1. CASE n + 1 = N
    <3>1. k + Len(c) = Len(line)
      BY <1>6, <1>12, <2>1
    <3> QED BY <1>2, <3>1
  <2>2. CASE n + 1 # N
    <3>1. n + 1 \in 1..(N - 1)
      BY <1>1, <1>9, <2>2
    <3>2. line[D(n + 1) + 1] = "blank"
      BY <1>8, <3>1
    <3> QED BY <1>12, <3>2
  <2> QED BY <2>1, <2>2
<1>15. CopyAt(line, k, argv[n + 1])
  <2>1. Len(line) \in Nat
    BY <1>2
  <2> QED BY <1>12, <1>13, <1>14, <2>1 DEF CopyAt, c
<1>16. n # 0 => D(n) < Len(line) /\ line[D(n) + 1] = "blank"
  <2>1. n # 0 => n \in 1..(N - 1)
    BY <1>1, <1>9
  <2> QED BY <1>8, <2>1
<1> QED BY <1>10, <1>12, <1>15, <1>16 DEF D, P, line, c, s, k

\* The child divides the line into the arguments.
LEMMA LineSplits ==
  ASSUME NEW argv \in Seq(Seq(LineChars)) PROVE Split(build_w32_commandline(argv)) = argv
<1> DEFINE N == Len(argv)
           P == LinePieces(argv)
           D(m) == Len(FirstOnes(P, m))
           line == build_w32_commandline(argv)
           text == [i \in 1..Len(line) |-> i]
<1>1. /\ N \in Nat /\ line = FirstOnes(P, N) /\ line \in Seq(LineChars)
      /\ \A n \in 1..N : argv[n] \in Seq(LineChars)
  BY LineIs
<1> HIDE DEF line
<1>2. /\ Len(line) \in Nat /\ DOMAIN text = 1..Len(line) /\ \A k \in 0..(Len(line) - 1) : text[k + 1] = k + 1
  BY <1>1
<1>3. SplitEnd(line) = SplitOver(line, text)
  BY DEF SplitEnd, SplitOver
<1> HIDE DEF text
<1>4. PICK h : /\ h[0] = SplitStart /\ h[Len(line)] = SplitEnd(line)
               /\ \A n \in 0..(Len(line) - 1) : h[n + 1] = FoldStep(SplitFold(line), h[n], text[n + 1])
  <2>1. Stepwise(SplitFold(line), SplitStart, text, Len(line), SplitOver(line, text))
    BY <1>2, SplitStepwise
  <2> QED BY <1>3, <2>1 DEF Stepwise
<1>5. \A acc, x : FoldStep(SplitFold(line), acc, x) = SplitStep(acc, line, x)
  BY DEF FoldStep, SplitFold, FoldOver
<1>6. Walks(h, line)
  BY <1>2, <1>4, <1>5 DEF Walks
<1>7. SplitStart = Before(<<>>)
  BY DEF SplitStart, Before, At
<1>8. CASE N = 0
  <2>1. argv = <<>>
    BY <1>8
  <2>2. line = <<>>
    BY <1>1, <1>8, JoinStarts
  <2>3. SplitEnd(line) = SplitStart
    <3>1. Len(line) = 0
      BY <2>2
    <3> QED BY <1>4, <3>1
  <2>4. SplitEnd(line).any = FALSE /\ SplitEnd(line).args = <<>>
    BY <2>3 DEF SplitStart
  <2> QED BY <2>1, <2>4 DEF Split, line
<1>9. CASE N # 0
  <2> DEFINE Done(n) == FirstOf(argv, n)
  <2> HIDE DEF D
  <2>1. ASSUME NEW n \in 0..(N - 1), h[D(n) + (IF n = 0 THEN 0 ELSE 1)] = Before(Done(n))
        PROVE  h[D(n + 1)] = Within(Done(n), argv[n + 1])
    <3> DEFINE k == D(n) + (IF n = 0 THEN 0 ELSE 1)
    <3>1. argv[n + 1] \in Seq(LineChars)
      BY <1>1
    <3>2. k \in Nat /\ CopyAt(line, k, argv[n + 1]) /\ D(n + 1) = k + Len(build_w32_commandline_copy(argv[n + 1]))
      BY CopyIn DEF line, D
    <3>3. h[k] = Before(Done(n))
      BY <2>1
    <3> HIDE DEF k, Done
    <3>4. h[k + Len(build_w32_commandline_copy(argv[n + 1]))] = Within(Done(n), argv[n + 1])
      BY <1>6, <3>1, <3>2, <3>3, ArgumentRead
    <3> QED BY <3>2, <3>4
  <2>2. ASSUME NEW n \in 1..(N - 1), h[D(n)] = Within(Done(n - 1), argv[n])
        PROVE  h[D(n) + 1] = Before(Done(n))
    <3> DEFINE k == D(n)
               a == argv[n]
               b == Done(n - 1)
    <3>1. n \in 0..(N - 1) /\ n # 0 /\ n - 1 \in Nat /\ (n - 1) + 1 = n /\ n <= Len(argv)
      BY <1>1
    <3>2. k \in Nat /\ k < Len(line) /\ line[k + 1] = "blank"
      <4>1. n \in 0..(Len(argv) - 1) /\ n # 0
        BY <3>1
      <4> QED BY <4>1, CopyIn DEF line, D
    <3>3. Done(n) = Append(b, a)
      <4>1. (n - 1) + 1 <= Len(argv)
        BY <3>1
      <4>2. FirstOf(argv, (n - 1) + 1) = Append(FirstOf(argv, n - 1), argv[(n - 1) + 1])
        BY <3>1, <4>1, FirstGrows
      <4> QED BY <3>1, <4>2
    <3>4. h[k] = Within(b, a)
      BY <2>2
    <3>5. k \in 0..(Len(line) - 1)
      BY <1>2, <3>2
    <3> HIDE DEF k, a, b, Done
    <3>6. h[k + 1] = SplitStep(Within(b, a), line, k + 1)
      BY <1>6, <3>4, <3>5 DEF Walks
    <3> DEFINE j == k + 1
    <3>7. line[j] = "blank" /\ h[j] = SplitStep(Within(b, a), line, j)
      BY <3>2, <3>6
    <3> HIDE DEF j
    <3>8. h[j] = Before(Append(b, a))
      BY <3>7, ArgumentEnds, Z3
    <3> QED BY <3>3, <3>8 DEF j, k
  <2> HIDE DEF Done
  <2> DEFINE T == {n \in Nat : n + 1 <= N => h[D(n + 1)] = Within(Done(n), argv[n + 1])}
  <2> HIDE DEF T
  <2>3. 0 \in T
    <3>1. D(0) = 0
      <4>1. FirstOnes(P, 0) = <<>>
        BY JoinStarts
      <4> QED BY <4>1 DEF D
    <3>2. Done(0) = <<>>
      BY FirstEnds DEF Done
    <3>3. 0 \in 0..(N - 1) /\ D(0) + (IF 0 = 0 THEN 0 ELSE 1) = 0
      BY <1>1, <1>9, <3>1
    <3>4. h[D(0) + (IF 0 = 0 THEN 0 ELSE 1)] = Before(Done(0))
      BY <1>4, <1>7, <3>2, <3>3
    <3>5. h[D(0 + 1)] = Within(Done(0), argv[0 + 1])
      BY <2>1, <3>3, <3>4
    <3> QED BY <3>5 DEF T
  <2>4. ASSUME NEW m \in Nat, m \in T PROVE m + 1 \in T
    <3> DEFINE n == m + 1
    <3>1. ASSUME n + 1 <= N PROVE h[D(n + 1)] = Within(Done(n), argv[n + 1])
      <4>1. n \in 1..(N - 1) /\ n \in 0..(N - 1) /\ n # 0 /\ n - 1 = m /\ m + 1 <= N
        BY <1>1, <3>1
      <4>2. h[D(m + 1)] = Within(Done(m), argv[m + 1])
        BY <2>4, <4>1 DEF T
      <4>3. h[D(n)] = Within(Done(n - 1), argv[n])
        BY <4>1, <4>2
      <4> HIDE DEF n
      <4>4. h[D(n) + 1] = Before(Done(n))
        BY <2>2, <4>1, <4>3
      <4>5. (IF n = 0 THEN 0 ELSE 1) = 1
        BY <4>1
      <4> QED BY <2>1, <4>1, <4>4, <4>5
    <3>2. n \in Nat
      OBVIOUS
    <3> QED BY <3>1, <3>2 DEF T
  <2>5. N - 1 \in T
    <3>1. N - 1 \in Nat
      BY <1>1, <1>9
    <3> QED BY <2>3, <2>4, <3>1, Induction
  <2>6. h[D(N)] = Within(Done(N - 1), argv[N])
    <3>1. (N - 1) + 1 = N /\ N <= N
      BY <1>1
    <3> HIDE DEF N
    <3> QED BY <2>5, <3>1 DEF T
  <2>7. SplitEnd(line) = Within(Done(N - 1), argv[N])
    <3>1. D(N) = Len(line)
      BY <1>1 DEF D
    <3> QED BY <1>4, <2>6, <3>1
  <2>8. SplitEnd(line).any = TRUE /\ SplitEnd(line).args = Done(N - 1) /\ SplitEnd(line).arg = argv[N]
    BY <2>7 DEF Within, At
  <2>9. Append(Done(N - 1), argv[N]) = argv
    <3>1. N - 1 \in Nat /\ (N - 1) + 1 = N /\ (N - 1) + 1 <= Len(argv)
      BY <1>1, <1>9
    <3>2. FirstOf(argv, (N - 1) + 1) = Append(FirstOf(argv, N - 1), argv[(N - 1) + 1])
      BY <3>1, FirstGrows
    <3>3. FirstOf(argv, N) = argv
      BY FirstEnds
    <3> HIDE DEF N
    <3> QED BY <3>1, <3>2, <3>3 DEF Done
  <2> QED BY <2>8, <2>9 DEF Split, line
<1> QED BY <1>8, <1>9

\* A block with a variable of that name and value, and a block with each name once.
InBlock(es, n, v) == \E i \in 1..Len(es) : es[i] = <<n, v>>
OnceEach(es) == \A i, j \in 1..Len(es) : es[i][1] = es[j][1] => i = j

\* What the first m changes and the block before say of a variable.
ToldBy(es, ch, m, n, v) ==
  \/ \E i \in 1..m : ch[i] = <<n, v>> /\ \A j \in 1..m : j > i => ch[j][1] # n
  \/ (\A j \in 1..m : ch[j][1] # n) /\ InBlock(es, n, v)

\* A block says what it was told, but for the variables that were removed.
SaysAll(es, ch, m, b) ==
  /\ b \in Seq(EnvEntries) /\ OnceEach(b)
  /\ \A n, v : InBlock(b, n, v) <=> v # NoValue /\ ToldBy(es, ch, m, n, v)

LEMMA EntryIs == \A e \in EnvEntries : e = <<e[1], e[2]>>
  BY W32ChildAssumption

\* The names of the entries are those in the block.
LEMMA NamesIn ==
  ASSUME NEW b \in Seq(EnvEntries), NEW i \in 1..Len(b)
  PROVE  InBlock(b, b[i][1], b[i][2])
  BY EntryIs DEF InBlock

LEMMA EntryRemoved ==
  ASSUME NEW b \in Seq(EnvEntries), OnceEach(b), NEW n
  PROVE  /\ RemoveEntry(b, n) \in Seq(EnvEntries) /\ OnceEach(RemoveEntry(b, n))
         /\ \A x, v : InBlock(RemoveEntry(b, n), x, v) <=> InBlock(b, x, v) /\ x # n
<1> DEFINE r == RemoveEntry(b, n)
<1>1. CASE EntriesOf(b, n) = {}
  <2>1. r = b
    BY <1>1 DEF RemoveEntry
  <2>2. ASSUME NEW x, NEW v, InBlock(b, x, v) PROVE x # n
    <3>1. PICK i \in 1..Len(b) : b[i] = <<x, v>>
      BY <2>2 DEF InBlock
    <3>2. b[i][1] = x
      BY <3>1
    <3> QED BY <1>1, <3>2 DEF EntriesOf
  <2> QED BY <2>1, <2>2
<1>2. CASE EntriesOf(b, n) # {}
  <2> DEFINE E == EntriesOf(b, n)
             k == CHOOSE i \in E : \A j \in E : i <= j
  <2>1. k \in E
    <3>1. E \subseteq Nat /\ E # {}
      BY <1>2 DEF EntriesOf
    <3> HIDE DEF E
    <3>2. PICK i \in E : \A j \in E : i <= j
      BY <3>1, Least
    <3> QED BY <3>2
  <2>2. r = RemoveAt(b, k)
    BY <1>2 DEF RemoveEntry
  <2>3. k \in 1..Len(b) /\ b[k][1] = n /\ Len(b) \in Nat
    <3> HIDE DEF k
    <3> QED BY <2>1 DEF EntriesOf
  <2> HIDE DEF k, E, r
  <2>4. /\ r \in Seq(EnvEntries) /\ Len(r) = Len(b) - 1
        /\ \A i \in 1..Len(r) : r[i] = IF i < k THEN b[i] ELSE b[i + 1]
    <3> DEFINE p == SubSeq(b, 1, k - 1)
               q == SubSeq(b, k + 1, Len(b))
    <3>1. r = p \o q
      BY <2>2 DEF RemoveAt
    <3>2. p \in Seq(EnvEntries) /\ Len(p) = k - 1 /\ \A i \in 1..(k - 1) : p[i] = b[i]
      BY <2>3
    <3>3. q \in Seq(EnvEntries) /\ Len(q) = Len(b) - k /\ \A i \in 1..(Len(b) - k) : q[i] = b[k + i]
      BY <2>3
    <3> HIDE DEF p, q
    <3>4. r \in Seq(EnvEntries) /\ Len(r) = Len(b) - 1
      BY <2>3, <3>1, <3>2, <3>3
    <3>5. ASSUME NEW i \in 1..Len(r) PROVE r[i] = IF i < k THEN b[i] ELSE b[i + 1]
      <4>1. CASE i < k
        <5>1. i \in 1..(k - 1) /\ r[i] = p[i]
          BY <2>3, <3>1, <3>2, <3>3, <3>4, <4>1
        <5> QED BY <3>2, <4>1, <5>1
      <4>2. CASE ~(i < k)
        <5>1. i - (k - 1) \in 1..(Len(b) - k) /\ k + (i - (k - 1)) = i + 1
          BY <2>3, <3>4, <4>2
        <5>2. r[i] = q[i - (k - 1)]
          BY <2>3, <3>1, <3>2, <3>3, <3>4, <4>2
        <5> QED BY <3>3, <4>2, <5>1, <5>2
      <4> QED BY <4>1, <4>2
    <3> QED BY <3>4, <3>5
  <2>5. \A i \in 1..Len(r) : \E j \in 1..Len(b) : j # k /\ r[i] = b[j] /\ j = IF i < k THEN i ELSE i + 1
    BY <2>3, <2>4
  <2>6. \A j \in 1..Len(b) : j # k => \E i \in 1..Len(r) : r[i] = b[j]
    <3> SUFFICES ASSUME NEW j \in 1..Len(b), j # k PROVE \E i \in 1..Len(r) : r[i] = b[j]
      OBVIOUS
    <3>1. CASE j < k
      <4>1. j \in 1..Len(r) /\ r[j] = b[j]
        BY <2>3, <2>4, <3>1
      <4> QED BY <4>1
    <3>2. CASE ~(j < k)
      <4>1. j - 1 \in 1..Len(r) /\ ~(j - 1 < k) /\ (j - 1) + 1 = j
        BY <2>3, <2>4, <3>2
      <4>2. r[j - 1] = b[j]
        BY <2>4, <4>1
      <4> QED BY <4>1, <4>2
    <3> QED BY <3>1, <3>2
  <2>7. OnceEach(r)
    <3> SUFFICES ASSUME NEW i \in 1..Len(r), NEW j \in 1..Len(r), r[i][1] = r[j][1] PROVE i = j
      BY DEF OnceEach
    <3>1. PICK x \in 1..Len(b) : r[i] = b[x] /\ x = IF i < k THEN i ELSE i + 1
      BY <2>5
    <3>2. PICK y \in 1..Len(b) : r[j] = b[y] /\ y = IF j < k THEN j ELSE j + 1
      BY <2>5
    <3>3. x = y
      BY <3>1, <3>2 DEF OnceEach
    <3> QED BY <2>3, <2>4, <3>1, <3>2, <3>3
  <2>8. ASSUME NEW x, NEW v PROVE InBlock(r, x, v) <=> InBlock(b, x, v) /\ x # n
    <3>1. ASSUME InBlock(r, x, v) PROVE InBlock(b, x, v) /\ x # n
      <4>1. PICK i \in 1..Len(r) : r[i] = <<x, v>>
        BY <3>1 DEF InBlock
      <4>2. PICK j \in 1..Len(b) : j # k /\ r[i] = b[j]
        BY <2>5
      <4>3. b[j] = <<x, v>> /\ b[j][1] = x
        BY <4>1, <4>2
      <4>4. x # n
        BY <2>3, <4>2, <4>3 DEF OnceEach
      <4> QED BY <4>3, <4>4 DEF InBlock
    <3>2. ASSUME InBlock(b, x, v), x # n PROVE InBlock(r, x, v)
      <4>1. PICK j \in 1..Len(b) : b[j] = <<x, v>>
        BY <3>2 DEF InBlock
      <4>2. b[j][1] = x
        BY <4>1
      <4>3. j # k
        BY <2>3, <3>2, <4>2
      <4>4. PICK i \in 1..Len(r) : r[i] = b[j]
        BY <2>6, <4>3
      <4>5. r[i] = <<x, v>>
        BY <4>1, <4>4
      <4> QED BY <4>5 DEF InBlock
    <3> QED BY <3>1, <3>2
  <2> QED BY <2>4, <2>7, <2>8 DEF r
<1> QED BY <1>1, <1>2

\* A variable that is not in the block is added at its end.
LEMMA EntryAdded ==
  ASSUME NEW b \in Seq(EnvEntries), OnceEach(b), NEW e \in EnvEntries, \A v : ~InBlock(b, e[1], v)
  PROVE  LET r == AddEntry(b, e)
         IN r = TooLarge \/ (/\ r \in Seq(EnvEntries) /\ OnceEach(r)
                             /\ \A x, v : InBlock(r, x, v) <=> InBlock(b, x, v) \/ <<x, v>> = e)
<1> DEFINE r == Append(b, e)
           N == Len(b)
<1>1. AddEntry(b, e) = TooLarge \/ AddEntry(b, e) = r
  BY DEF AddEntry
<1>2. N \in Nat /\ r \in Seq(EnvEntries) /\ Len(r) = N + 1 /\ r[N + 1] = e /\ \A i \in 1..N : r[i] = b[i]
  OBVIOUS
<1>3. \A i \in 1..N : b[i][1] # e[1]
  BY NamesIn
<1> HIDE DEF r, N
<1>4. \A i \in 1..(N + 1) : i = N + 1 \/ i \in 1..N
  BY <1>2
<1>5. OnceEach(r)
  <2> SUFFICES ASSUME NEW i \in 1..(N + 1), NEW j \in 1..(N + 1), r[i][1] = r[j][1] PROVE i = j
    BY <1>2 DEF OnceEach
  <2>1. CASE i \in 1..N /\ j \in 1..N
    BY <1>2, <2>1 DEF OnceEach, N
  <2>2. CASE i = N + 1 /\ j \in 1..N
    BY <1>2, <1>3, <2>2
  <2>3. CASE i \in 1..N /\ j = N + 1
    BY <1>2, <1>3, <2>3
  <2> QED BY <1>4, <2>1, <2>2, <2>3
<1>6. ASSUME NEW x, NEW v PROVE InBlock(r, x, v) <=> InBlock(b, x, v) \/ <<x, v>> = e
  <2>1. InBlock(r, x, v) => InBlock(b, x, v) \/ <<x, v>> = e
    BY <1>2, <1>4 DEF InBlock, N
  <2>2. InBlock(b, x, v) => InBlock(r, x, v)
    <3>1. \A i \in 1..N : i \in 1..(N + 1)
      BY <1>2
    <3> QED BY <1>2, <3>1 DEF InBlock, N
  <2>3. <<x, v>> = e => InBlock(r, x, v)
    <3>1. N + 1 \in 1..(N + 1)
      BY <1>2
    <3> QED BY <1>2, <3>1 DEF InBlock
  <2> QED BY <2>1, <2>2, <2>3
<1> QED BY <1>1, <1>2, <1>5, <1>6 DEF r

\* What is told by one change more.
LEMMA ToldMore ==
  ASSUME NEW es, NEW ch \in Seq(EnvEntries), NEW m \in Nat, m + 1 <= Len(ch), NEW n, NEW v
  PROVE  ToldBy(es, ch, m + 1, n, v) <=>
           IF ch[m + 1][1] = n THEN v = ch[m + 1][2] ELSE ToldBy(es, ch, m, n, v)
<1> DEFINE c == ch[m + 1]
<1>1. m + 1 \in 1..Len(ch) /\ c \in EnvEntries /\ m + 1 \in 1..(m + 1)
  OBVIOUS
<1>2. c = <<c[1], c[2]>>
  BY <1>1, EntryIs
<1>3. \A j \in 1..(m + 1) : j = m + 1 \/ j \in 1..m
  OBVIOUS
<1>4. \A j \in 1..m : j \in 1..(m + 1) /\ m + 1 > j /\ ~(j > m + 1)
  OBVIOUS
<1>5. ~(m + 1 > m + 1)
  OBVIOUS
<1> HIDE DEF c
<1>6. CASE c[1] = n
  <2>1. ASSUME ToldBy(es, ch, m + 1, n, v) PROVE v = c[2]
    <3>1. PICK i \in 1..(m + 1) : ch[i] = <<n, v>> /\ \A j \in 1..(m + 1) : j > i => ch[j][1] # n
      BY <1>1, <1>6, <2>1 DEF ToldBy, c
    <3>2. i = m + 1
      BY <1>1, <1>3, <1>4, <1>6, <3>1 DEF c
    <3> QED BY <1>2, <3>1, <3>2 DEF c
  <2>2. ASSUME v = c[2] PROVE ToldBy(es, ch, m + 1, n, v)
    <3>1. ch[m + 1] = <<n, v>>
      BY <1>2, <1>6, <2>2 DEF c
    <3>2. \A j \in 1..(m + 1) : ~(j > m + 1)
      BY <1>3, <1>4, <1>5
    <3> QED BY <1>1, <3>1, <3>2 DEF ToldBy
  <2> QED BY <1>6, <2>1, <2>2 DEF c
<1>7. CASE c[1] # n
  <2>1. ASSUME ToldBy(es, ch, m + 1, n, v) PROVE ToldBy(es, ch, m, n, v)
    <3>1. CASE \E i \in 1..(m + 1) : ch[i] = <<n, v>> /\ \A j \in 1..(m + 1) : j > i => ch[j][1] # n
      <4>1. PICK i \in 1..(m + 1) : ch[i] = <<n, v>> /\ \A j \in 1..(m + 1) : j > i => ch[j][1] # n
        BY <3>1
      <4>2. ch[i][1] = n
        BY <4>1
      <4>3. i \in 1..m
        BY <1>3, <1>7, <4>2 DEF c
      <4> QED BY <1>4, <4>1, <4>3 DEF ToldBy
    <3>2. CASE (\A j \in 1..(m + 1) : ch[j][1] # n) /\ InBlock(es, n, v)
      BY <1>4, <3>2 DEF ToldBy
    <3> QED BY <2>1, <3>1, <3>2 DEF ToldBy
  <2>2. ASSUME ToldBy(es, ch, m, n, v) PROVE ToldBy(es, ch, m + 1, n, v)
    <3>1. CASE \E i \in 1..m : ch[i] = <<n, v>> /\ \A j \in 1..m : j > i => ch[j][1] # n
      <4>1. PICK i \in 1..m : ch[i] = <<n, v>> /\ \A j \in 1..m : j > i => ch[j][1] # n
        BY <3>1
      <4>2. \A j \in 1..(m + 1) : j > i => ch[j][1] # n
        BY <1>3, <1>7, <4>1 DEF c
      <4>3. i \in 1..(m + 1)
        BY <1>4
      <4> QED BY <4>1, <4>2, <4>3 DEF ToldBy
    <3>2. CASE (\A j \in 1..m : ch[j][1] # n) /\ InBlock(es, n, v)
      BY <1>3, <1>7, <3>2 DEF ToldBy, c
    <3> QED BY <2>2, <3>1, <3>2 DEF ToldBy
  <2> QED BY <1>7, <2>1, <2>2 DEF c
<1> QED BY <1>6, <1>7

\* A change is told to the block, or there is no room for it.
LEMMA ChangeIs ==
  ASSUME NEW es, NEW ch \in Seq(EnvEntries), NEW m \in Nat, m + 1 <= Len(ch), NEW b,
         b = TooLarge \/ SaysAll(es, ch, m, b)
  PROVE  LET r == ChangeEntry(b, ch[m + 1]) IN r = TooLarge \/ SaysAll(es, ch, m + 1, r)
<1> DEFINE e == ch[m + 1]
           r == ChangeEntry(b, e)
           k == RemoveEntry(b, e[1])
<1>1. m + 1 \in 1..Len(ch) /\ e \in EnvEntries
  OBVIOUS
<1>2. e = <<e[1], e[2]>>
  BY <1>1, EntryIs
<1>3. \A n, v : ToldBy(es, ch, m + 1, n, v) <=> IF e[1] = n THEN v = e[2] ELSE ToldBy(es, ch, m, n, v)
  BY ToldMore
<1> HIDE DEF e, r, k
<1>4. CASE b = TooLarge
  BY <1>4 DEF ChangeEntry, r, e
<1>5. CASE b # TooLarge
  <2>1. /\ b \in Seq(EnvEntries) /\ OnceEach(b)
        /\ \A n, v : InBlock(b, n, v) <=> v # NoValue /\ ToldBy(es, ch, m, n, v)
    BY <1>5 DEF SaysAll
  <2>2. /\ k \in Seq(EnvEntries) /\ OnceEach(k)
        /\ \A x, v : InBlock(k, x, v) <=> InBlock(b, x, v) /\ x # e[1]
    BY <2>1, EntryRemoved DEF k
  <2>3. CASE e[2] = NoValue
    <3>1. r = k
      BY <1>5, <2>3 DEF ChangeEntry, r, k
    <3>2. \A n, v : InBlock(k, n, v) <=> v # NoValue /\ ToldBy(es, ch, m + 1, n, v)
      BY <1>3, <2>1, <2>2, <2>3
    <3>3. SaysAll(es, ch, m + 1, k)
      BY <2>2, <3>2 DEF SaysAll
    <3> QED BY <3>1, <3>3 DEF r, e
  <2>4. CASE e[2] # NoValue
    <3>1. r = AddEntry(k, e)
      BY <1>5, <2>4 DEF ChangeEntry, r, k
    <3>2. r = TooLarge \/ (/\ r \in Seq(EnvEntries) /\ OnceEach(r)
                           /\ \A x, v : InBlock(r, x, v) <=> InBlock(k, x, v) \/ <<x, v>> = e)
      BY <1>1, <2>2, <3>1, EntryAdded
    <3>3. ASSUME r # TooLarge PROVE SaysAll(es, ch, m + 1, r)
      <4>1. ASSUME NEW n, NEW v PROVE InBlock(r, n, v) <=> v # NoValue /\ ToldBy(es, ch, m + 1, n, v)
        <5>1. <<n, v>> = e <=> n = e[1] /\ v = e[2]
          BY <1>2
        <5>2. InBlock(r, n, v) <=> (InBlock(b, n, v) /\ n # e[1]) \/ (n = e[1] /\ v = e[2])
          BY <2>2, <3>2, <3>3, <5>1
        <5>3. ToldBy(es, ch, m + 1, n, v) <=> IF e[1] = n THEN v = e[2] ELSE ToldBy(es, ch, m, n, v)
          BY <1>3
        <5>4. InBlock(b, n, v) <=> v # NoValue /\ ToldBy(es, ch, m, n, v)
          BY <2>1
        <5> QED BY <2>4, <5>2, <5>3, <5>4
      <4> QED BY <3>2, <3>3, <4>1 DEF SaysAll
    <3> QED BY <3>3 DEF r, e
  <2> QED BY <2>3, <2>4
<1> QED BY <1>4, <1>5

\* The whole block is told all the changes.
LEMMA BlockTold ==
  ASSUME NEW es \in EnvBlocks, NEW ch \in EnvChanges
  PROVE  LET b == prepare_env_block(es, ch) IN b = TooLarge \/ SaysAll(es, ch, Len(ch), b)
<1> DEFINE N == Len(ch)
           b == prepare_env_block(es, ch)
<1>1. es \in Seq(EnvEntries) /\ ch \in Seq(EnvEntries)
  BY W32ChildAssumption
<1>2. N \in Nat /\ DOMAIN ch = 1..N
  BY <1>1
<1>3. OnceEach(es) /\ \A i \in 1..Len(es) : es[i][2] # NoValue
  BY W32ChildAssumption DEF OnceEach
<1>4. SaysAll(es, ch, 0, es)
  <2>1. ASSUME NEW n, NEW v PROVE InBlock(es, n, v) <=> v # NoValue /\ ToldBy(es, ch, 0, n, v)
    <3>1. ToldBy(es, ch, 0, n, v) <=> InBlock(es, n, v)
      BY DEF ToldBy
    <3>2. InBlock(es, n, v) => v # NoValue
      BY <1>3 DEF InBlock
    <3> QED BY <3>1, <3>2
  <2> QED BY <1>1, <1>3, <2>1 DEF SaysAll
<1>5. b = TooLarge \/ b = Changed(es, ch)
  BY DEF prepare_env_block, Changed
<1> HIDE DEF N, b
<1>6. Stepwise(ChangeFold, es, ch, N, Changed(es, ch))
  BY <1>2, ChangeStepwise
<1>7. PICK h : /\ h[0] = es /\ h[N] = Changed(es, ch)
               /\ \A n \in 0..(N - 1) : h[n + 1] = FoldStep(ChangeFold, h[n], ch[n + 1])
  BY <1>6 DEF Stepwise
<1>8. \A acc, x : FoldStep(ChangeFold, acc, x) = ChangeEntry(acc, x)
  BY DEF FoldStep, ChangeFold, FoldOver
<1> DEFINE T == {n \in Nat : n <= N => h[n] = TooLarge \/ SaysAll(es, ch, n, h[n])}
<1>9. 0 \in T
  BY <1>4, <1>7
<1>10. ASSUME NEW n \in Nat, n \in T PROVE n + 1 \in T
  <2>1. ASSUME n + 1 <= N PROVE h[n + 1] = TooLarge \/ SaysAll(es, ch, n + 1, h[n + 1])
    <3>1. n \in 0..(N - 1) /\ n <= N /\ n + 1 <= Len(ch)
      BY <1>2, <2>1 DEF N
    <3>2. h[n] = TooLarge \/ SaysAll(es, ch, n, h[n])
      BY <1>10, <3>1
    <3>3. h[n + 1] = ChangeEntry(h[n], ch[n + 1])
      BY <1>7, <1>8, <3>1
    <3> QED BY <1>1, <3>1, <3>2, <3>3, ChangeIs
  <2>2. n + 1 \in Nat
    OBVIOUS
  <2> QED BY <2>1, <2>2 DEF T
<1> HIDE DEF T
<1>11. N \in T
  BY <1>2, <1>9, <1>10, Induction
<1>12. Changed(es, ch) = TooLarge \/ SaysAll(es, ch, N, Changed(es, ch))
  BY <1>2, <1>7, <1>11 DEF T
<1> QED BY <1>5, <1>12 DEF b, N

\* A value is what was told, if the last that was told is one.
LEMMA LastTold ==
  ASSUME NEW es \in EnvBlocks, NEW ch \in EnvChanges, NEW n, NEW w, w # NoValue
  PROVE  ToldBy(es, ch, Len(ch), n, w) <=> w = LastValue(es, ch, n)
<1> DEFINE N == Len(ch)
           c == EntriesOf(ch, n)
           e == EntriesOf(es, n)
           v == LastValue(es, ch, n)
<1>1. es \in Seq(EnvEntries) /\ ch \in Seq(EnvEntries) /\ N \in Nat
  BY W32ChildAssumption
<1>2. \A i, j \in 1..Len(es) : es[i][1] = es[j][1] => i = j
  BY W32ChildAssumption
<1>3. CASE c # {}
  <2> DEFINE k == CHOOSE i \in c : \A j \in c : i >= j
  <2>1. k \in c /\ \A j \in c : k >= j
    <3> DEFINE S == {N - i : i \in c}
    <3>1. S \subseteq Nat /\ S # {} /\ \A i \in c : i \in 1..N
      BY <1>1, <1>3 DEF EntriesOf
    <3>2. PICK x \in S : \A y \in S : x <= y
      <4> HIDE DEF S
      <4> QED BY <3>1, Least
    <3>3. PICK i \in c : x = N - i
      BY <3>2
    <3>4. ASSUME NEW j \in c PROVE i >= j
      <4>1. N - j \in S
        OBVIOUS
      <4>2. N - i <= N - j
        <5> HIDE DEF S, c
        <5> QED BY <3>2, <3>3, <4>1
      <4>3. i \in 1..N /\ j \in 1..N
        <5> HIDE DEF S, c
        <5> QED BY <3>1, <3>3
      <4> HIDE DEF S, c, N
      <4> QED BY <1>1, <4>2, <4>3
    <3> QED BY <3>3, <3>4
  <2>2. v = ch[k][2]
    BY <1>3 DEF LastValue
  <2> HIDE DEF k, v
  <2>3. k \in 1..N /\ ch[k][1] = n
    BY <2>1 DEF EntriesOf
  <2>4. ch[k] = <<n, v>>
    <3>1. ch[k] \in EnvEntries
      BY <1>1, <2>3
    <3> QED BY <2>2, <2>3, <3>1, EntryIs
  <2>5. \A j \in 1..N : j > k => ch[j][1] # n
    <3>1. \A j \in 1..N : ch[j][1] = n => k >= j
      BY <2>1 DEF EntriesOf
    <3> QED BY <2>3, <3>1
  <2> HIDE DEF N
  <2>6. ASSUME ToldBy(es, ch, N, n, w) PROVE w = v
    <3>1. PICK i \in 1..N : ch[i] = <<n, w>> /\ \A j \in 1..N : j > i => ch[j][1] # n
      BY <2>3, <2>6 DEF ToldBy
    <3>2. ch[i][1] = n
      BY <3>1
    <3>3. i = k
      BY <1>1, <2>3, <2>5, <3>1, <3>2
    <3> QED BY <2>4, <3>1, <3>3
  <2>7. w = v => ToldBy(es, ch, N, n, w)
    BY <2>3, <2>4, <2>5 DEF ToldBy
  <2> QED BY <2>6, <2>7 DEF v, N
<1>4. CASE c = {}
  <2>1. \A j \in 1..N : ch[j][1] # n
    BY <1>4 DEF EntriesOf
  <2>2. \A i \in 1..N : ch[i] # <<n, w>>
    BY <2>1
  <2>3. ToldBy(es, ch, N, n, w) <=> InBlock(es, n, w)
    <3> HIDE DEF N
    <3> QED BY <2>1, <2>2 DEF ToldBy
  <2>4. CASE e # {}
    <3> DEFINE k == CHOOSE i \in e : TRUE
    <3>1. k \in e
      BY <2>4
    <3>2. v = es[k][2]
      BY <1>4, <2>4 DEF LastValue
    <3> HIDE DEF k, v
    <3>3. k \in 1..Len(es) /\ es[k][1] = n
      BY <3>1 DEF EntriesOf
    <3>4. es[k] = <<n, v>>
      <4>1. es[k] \in EnvEntries
        BY <1>1, <3>3
      <4> QED BY <3>2, <3>3, <4>1, EntryIs
    <3>5. InBlock(es, n, w) => w = v
      <4>1. ASSUME NEW i \in 1..Len(es), es[i] = <<n, w>> PROVE w = v
        <5>1. es[i][1] = n
          BY <4>1
        <5>2. i = k
          BY <1>2, <3>3, <5>1
        <5> QED BY <3>4, <4>1, <5>2
      <4> QED BY <4>1 DEF InBlock
    <3>6. w = v => InBlock(es, n, w)
      BY <3>3, <3>4 DEF InBlock
    <3> QED BY <2>3, <3>5, <3>6 DEF v, N
  <2>5. CASE e = {}
    <3>1. v = NoValue
      BY <1>4, <2>5 DEF LastValue
    <3>2. \A i \in 1..Len(es) : es[i][1] # n
      BY <2>5 DEF EntriesOf
    <3>3. \A i \in 1..Len(es) : es[i] # <<n, w>>
      BY <3>2
    <3> HIDE DEF v
    <3> QED BY <2>3, <3>1, <3>3 DEF InBlock, v, N
  <2> QED BY <2>4, <2>5
<1> QED BY <1>3, <1>4

\* What the block has of a variable.
LEMMA BlockSays ==
  ASSUME NEW es \in EnvBlocks, NEW ch \in EnvChanges, NEW b, b # TooLarge, NEW n,
         SaysAll(es, ch, Len(ch), b)
  PROVE  LET v == LastValue(es, ch, n)
         IN IF v = NoValue THEN EntriesOf(b, n) = {}
            ELSE \E i \in 1..Len(b) : b[i] = <<n, v>> /\ EntriesOf(b, n) = {i}
<1> DEFINE v == LastValue(es, ch, n)
<1> HIDE DEF v
<1>1. b \in Seq(EnvEntries) /\ OnceEach(b)
  BY DEF SaysAll
<1>2. \A w : InBlock(b, n, w) <=> w # NoValue /\ w = v
  <2>1. \A w : w # NoValue => (ToldBy(es, ch, Len(ch), n, w) <=> w = v)
    BY LastTold DEF v
  <2> QED BY <2>1 DEF SaysAll
<1>3. CASE v = NoValue
  <2>1. ASSUME NEW i \in 1..Len(b), b[i][1] = n PROVE FALSE
    <3>1. InBlock(b, n, b[i][2])
      BY <1>1, <2>1, NamesIn
    <3> QED BY <1>2, <1>3, <3>1
  <2>2. EntriesOf(b, n) = {}
    BY <2>1 DEF EntriesOf
  <2> QED BY <1>3, <2>2 DEF v
<1>4. CASE v # NoValue
  <2>1. InBlock(b, n, v)
    BY <1>2, <1>4
  <2>2. PICK i \in 1..Len(b) : b[i] = <<n, v>>
    BY <2>1 DEF InBlock
  <2>3. b[i][1] = n
    BY <2>2
  <2>4. \A j \in 1..Len(b) : b[j][1] = n => j = i
    BY <1>1, <2>3 DEF OnceEach
  <2>5. EntriesOf(b, n) = {i}
    BY <2>3, <2>4 DEF EntriesOf
  <2> QED BY <1>4, <2>2, <2>5 DEF v
<1> QED BY <1>3, <1>4

LEMMA NothingSplits == Split(<<>>) = <<>>
<1>1. <<>> \in Seq(Seq(LineChars)) /\ Len(<<>>) = 0
  OBVIOUS
<1>2. build_w32_commandline(<<>>) = FirstOnes(LinePieces(<<>>), 0)
  BY <1>1, LineIs
<1>3. build_w32_commandline(<<>>) = <<>>
  BY <1>2, JoinStarts
<1> QED BY <1>1, <1>3, LineSplits

LEMMA ArgvsAreLines == \A argv \in Argvs : argv \in Seq(Seq(LineChars))
<1>1. Argvs \subseteq Seq(Seq(ArgChars))
  BY W32ChildAssumption
<1> DEFINE A == ArgChars
<1>2. A \subseteq LineChars
  BY DEF LineChars
<1> HIDE DEF A
<1>3. Seq(Seq(A)) \subseteq Seq(Seq(LineChars))
  BY <1>2
<1> QED BY <1>1, <1>3 DEF A

-----------------------------------------------------------------------------
\* What a call has built: the line of an argument vector with its room, and the block that
\* the changes make of an environment.
LineBuilt ==
  \/ cmdline = [argv |-> <<>>, room |-> 0, line |-> <<>>]
  \/ \E argv \in Argvs :
       cmdline = [argv |-> argv, room |-> LineRoom(argv), line |-> build_w32_commandline(argv)]
BlockBuilt ==
  \/ envblock = [before |-> <<>>, changes |-> <<>>, after |-> <<>>]
  \/ \E es \in EnvBlocks, ch \in EnvChanges :
       envblock = [before |-> es, changes |-> ch, after |-> prepare_env_block(es, ch)]

\* The command line of every argument vector fits into the room that was counted for it, and
\* a child divides it into those arguments if no backslash stands before a quote; and the
\* block made of any environment and any changes has each variable once, with the last value
\* given, and none that was removed (build_w32_commandline, prepare_env_block).
THEOREM ChildrenGetAll == ChildSpec => []ChildGetsAll
<1>1. ChildInit => LineBuilt /\ BlockBuilt
  BY DEF ChildInit, LineBuilt, BlockBuilt
<1>2. LineBuilt /\ BlockBuilt /\ [ChildNext]_childVars => LineBuilt' /\ BlockBuilt'
  <2> SUFFICES ASSUME LineBuilt, BlockBuilt, [ChildNext]_childVars PROVE LineBuilt' /\ BlockBuilt'
    OBVIOUS
  <2>1. CASE UNCHANGED childVars
    BY <2>1 DEF childVars, LineBuilt, BlockBuilt
  <2>2. ASSUME NEW argv \in Argvs, BuildCommandLine(argv) PROVE LineBuilt' /\ BlockBuilt'
    BY <2>2 DEF BuildCommandLine, LineBuilt, BlockBuilt
  <2>3. ASSUME NEW es \in EnvBlocks, NEW ch \in EnvChanges, PrepareBlock(es, ch)
        PROVE  LineBuilt' /\ BlockBuilt'
    BY <2>3 DEF PrepareBlock, LineBuilt, BlockBuilt
  <2> QED BY <2>1, <2>2, <2>3 DEF ChildNext
<1>3. LineBuilt /\ BlockBuilt => ChildGetsAll
  <2> SUFFICES ASSUME LineBuilt, BlockBuilt PROVE ChildGetsAll
    OBVIOUS
  <2> DEFINE argv == cmdline.argv
             Undoes(arg) ==
               (Has(arg, "blank") \/ Has(arg, "quote")) /\
               \E i \in 1..Len(arg) : arg[i] = "backslash" /\ (i = Len(arg) \/ arg[i + 1] = "quote")
             b == envblock
  <2>1. /\ Len(cmdline.line) < cmdline.room \/ argv = <<>>
        /\ Split(cmdline.line) = argv
    <3>1. CASE cmdline = [argv |-> <<>>, room |-> 0, line |-> <<>>]
      <4>1. argv = <<>> /\ cmdline.line = <<>>
        BY <3>1
      <4>2. Split(<<>>) = <<>>
        BY NothingSplits
      <4> HIDE DEF argv
      <4> QED BY <4>1, <4>2
    <3>2. ASSUME NEW a \in Argvs,
                 cmdline = [argv |-> a, room |-> LineRoom(a), line |-> build_w32_commandline(a)]
          PROVE  /\ Len(cmdline.line) < cmdline.room
                 /\ Split(cmdline.line) = argv
      <4>1. a \in Seq(Seq(LineChars))
        BY ArgvsAreLines
      <4>2. Len(build_w32_commandline(a)) < LineRoom(a) /\ Split(build_w32_commandline(a)) = a
        BY <4>1, LineFits, LineSplits
      <4>3. cmdline.line = build_w32_commandline(a) /\ cmdline.room = LineRoom(a) /\ argv = a
        BY <3>2
      <4> HIDE DEF argv
      <4> QED BY <4>2, <4>3
    <3> QED BY <3>1, <3>2 DEF LineBuilt
  <2>2. ASSUME b.changes # <<>>, b.after # TooLarge, NEW n
        PROVE  LET value == LastValue(b.before, b.changes, n)
               IN IF value = NoValue THEN EntriesOf(b.after, n) = {}
                  ELSE \E i \in 1..Len(b.after) : b.after[i] = <<n, value>> /\ EntriesOf(b.after, n) = {i}
    <3>1. PICK es \in EnvBlocks, ch \in EnvChanges :
            b = [before |-> es, changes |-> ch, after |-> prepare_env_block(es, ch)]
      BY <2>2 DEF BlockBuilt
    <3>2. b.before = es /\ b.changes = ch /\ b.after = prepare_env_block(es, ch)
      BY <3>1
    <3>3. SaysAll(es, ch, Len(ch), b.after)
      BY <2>2, <3>2, BlockTold
    <3> HIDE DEF b
    <3> QED BY <2>2, <3>2, <3>3, BlockSays
  <2> HIDE DEF argv, Undoes, b
  <2>3. (\A i \in 1..Len(argv) : ~Undoes(argv[i])) => Split(cmdline.line) = argv
    BY <2>1
  <2>4. b.changes # <<>> /\ b.after # TooLarge =>
          \A n \in {c[1] : c \in ToSet(b.changes \o b.before)} :
            LET value == LastValue(b.before, b.changes, n)
            IN IF value = NoValue THEN EntriesOf(b.after, n) = {}
               ELSE \E i \in 1..Len(b.after) : b.after[i] = <<n, value>> /\ EntriesOf(b.after, n) = {i}
    BY <2>2
  <2> QED BY <2>1, <2>3, <2>4 DEF ChildGetsAll, argv, Undoes, b
<1> QED BY <1>1, <1>2, <1>3, PTL DEF ChildSpec

-----------------------------------------------------------------------------
(***************************************************************************)
(* File names.                                                              *)
(***************************************************************************)
Name == Seq(NameChar)

\* The functions the library's folds over the parts of a name are.
NameFunStep(g, base, text, s) == IF s = {} THEN base ELSE g[s \ {Top(s)}] \o Slash \o text[Top(s)]
NameFun(base, text, D) == CHOOSE g : g = [s \in SUBSET D |-> NameFunStep(g, base, text, s)]
PartFunStep(g, base, text, s) == IF s = {} THEN base ELSE g[s \ {Top(s)}] + Len(text[Top(s)]) + 1
PartFun(base, text, D) == CHOOSE g : g = [s \in SUBSET D |-> PartFunStep(g, base, text, s)]
PartsOver(text) == FoldLeft(LAMBDA n, x : n + Len(x) + 1, 0, text)

LEMMA NameStepwise ==
  ASSUME NEW base, NEW N \in Nat, NEW text, DOMAIN text = 1..N
  PROVE  Stepwise(NameFold, base, text, N, JoinedAlways(base, text))
<1> DEFINE G == NameFun(base, text, 1..N)
<1>1. JoinedAlways(base, text) = NameFun(base, text, DOMAIN text)[DOMAIN text]
  BY DEF JoinedAlways, FoldLeft, MapThenFoldSet, NameFun, NameFunStep, Top, Max
<1>2. \A g, s : FoldFunStep(g, NameFold, base, text, s) = NameFunStep(g, base, text, s)
  BY DEF FoldFunStep, NameFunStep, FoldStep, NameFold, FoldOver
<1>3. \E g : g = [s \in SUBSET (1..N) |-> NameFunStep(g, base, text, s)]
  <2>1. PICK g : IsFoldFun(g, NameFold, base, text, N)
    BY FoldFunExists
  <2>2. g = [s \in SUBSET (1..N) |-> NameFunStep(g, base, text, s)]
    BY <1>2, <2>1 DEF IsFoldFun
  <2> QED BY <2>2
<1>4. G = [s \in SUBSET (1..N) |-> NameFunStep(G, base, text, s)]
  BY <1>3 DEF NameFun
<1> HIDE DEF G
<1>5. IsFoldFun(G, NameFold, base, text, N)
  BY <1>2, <1>4 DEF IsFoldFun
<1>6. Stepwise(NameFold, base, text, N, G[1..N])
  BY <1>5, FunIsStepwise
<1> QED BY <1>1, <1>6 DEF G

LEMMA PartsStepwise ==
  ASSUME NEW N \in Nat, NEW text, DOMAIN text = 1..N
  PROVE  Stepwise(PartRoomFold, 0, text, N, PartsOver(text))
<1> DEFINE G == PartFun(0, text, 1..N)
<1>1. PartsOver(text) = PartFun(0, text, DOMAIN text)[DOMAIN text]
  BY DEF PartsOver, FoldLeft, MapThenFoldSet, PartFun, PartFunStep, Top, Max
<1>2. \A g, s : FoldFunStep(g, PartRoomFold, 0, text, s) = PartFunStep(g, 0, text, s)
  BY DEF FoldFunStep, PartFunStep, FoldStep, PartRoomFold, FoldOver
<1>3. \E g : g = [s \in SUBSET (1..N) |-> PartFunStep(g, 0, text, s)]
  <2>1. PICK g : IsFoldFun(g, PartRoomFold, 0, text, N)
    BY FoldFunExists
  <2>2. g = [s \in SUBSET (1..N) |-> PartFunStep(g, 0, text, s)]
    BY <1>2, <2>1 DEF IsFoldFun
  <2> QED BY <2>2
<1>4. G = [s \in SUBSET (1..N) |-> PartFunStep(G, 0, text, s)]
  BY <1>3 DEF PartFun
<1> HIDE DEF G
<1>5. IsFoldFun(G, PartRoomFold, 0, text, N)
  BY <1>2, <1>4 DEF IsFoldFun
<1>6. Stepwise(PartRoomFold, 0, text, N, G[1..N])
  BY <1>5, FunIsStepwise
<1> QED BY <1>1, <1>6 DEF G

\* What counts as a slash, and what a name with slashes for backslashes then has.
Slashy(os, ch) == ch = "slash" \/ (os = "w32" /\ ch = "bslash")
Meets(os, s) == {i \in 1..(Len(s) - 1) : Slashy(os, s[i]) /\ Slashy(os, s[i + 1])}
Neat(os, s) == Meets(os, s) = {} /\ (s # <<>> => ~Slashy(os, s[Len(s)]))
NeatPart(os, s) == Neat(os, s) /\ s # <<>> /\ ~Slashy(os, s[1])

LEMMA SlashesIs ==
  ASSUME NEW os, NEW s \in Name
  PROVE  /\ Slashes(os, s) \in Name /\ Len(Slashes(os, s)) = Len(s)
         /\ \A i \in 1..Len(s) : /\ Slashes(os, s)[i] = IF os = "w32" /\ s[i] = "bslash" THEN "slash" ELSE s[i]
                                 /\ Slashes(os, s)[i] = "slash" <=> Slashy(os, s[i])
<1> DEFINE r == Slashes(os, s)
<1>1. \A i \in 1..Len(s) : s[i] \in NameChar
  BY DEF Name
<1>2. \A i \in 1..Len(s) : r[i] = IF os = "w32" /\ s[i] = "bslash" THEN "slash" ELSE s[i]
  BY DEF Slashes
<1>3. r \in [1..Len(s) -> NameChar] /\ Len(s) \in Nat
  <2>1. Len(s) \in Nat /\ "slash" \in NameChar
    BY FileNamesAssumption DEF Name
  <2>2. \A i \in 1..Len(s) : (IF os = "w32" /\ s[i] = "bslash" THEN "slash" ELSE s[i]) \in NameChar
    BY <1>1, <2>1
  <2> QED BY <2>1, <2>2 DEF Slashes
<1> HIDE DEF r
<1>4. r \in Name /\ Len(r) = Len(s)
  BY <1>3 DEF Name
<1>5. \A i \in 1..Len(s) : r[i] = "slash" <=> Slashy(os, s[i])
  BY <1>2 DEF Slashy
<1> QED BY <1>2, <1>4, <1>5 DEF r

LEMMA DoublesAre == ASSUME NEW os, NEW s \in Name PROVE Doubles(Slashes(os, s)) = Meets(os, s)
  <1>1. Len(s) \in Nat /\ \A i \in 1..(Len(s) - 1) : i \in 1..Len(s) /\ i + 1 \in 1..Len(s)
    BY DEF Name
  <1> QED BY <1>1, SlashesIs DEF Doubles, Meets

LEMMA CleanIs ==
  ASSUME NEW os, NEW s \in Name
  PROVE  /\ Clean(Slashes(os, s)) <=> Neat(os, s)
         /\ BarePart(Slashes(os, s)) <=> NeatPart(os, s)
<1> DEFINE r == Slashes(os, s)
<1>1. Len(r) = Len(s) /\ Len(s) \in Nat /\ Doubles(r) = Meets(os, s) /\ r \in Name /\ s \in Name
  BY SlashesIs, DoublesAre DEF Name
<1>2. \A i \in 1..Len(s) : r[i] = "slash" <=> Slashy(os, s[i])
  BY SlashesIs
<1> HIDE DEF r
<1>3. (r # <<>> <=> Len(s) # 0) /\ (s # <<>> <=> Len(s) # 0)
  BY <1>1 DEF Name
<1>4. s # <<>> => 1 \in 1..Len(s) /\ Len(s) \in 1..Len(s)
  BY <1>1, <1>3
<1> QED BY <1>1, <1>2, <1>3, <1>4 DEF Clean, BarePart, Neat, NeatPart, Last, r

\* Where slashes meet in two names put together.
LEMMA MeetsOfBoth ==
  ASSUME NEW os, NEW s \in Name, NEW t \in Name, NEW k \in Meets(os, s \o t)
  PROVE  \/ k \in Meets(os, s)
         \/ k - Len(s) \in Meets(os, t)
         \/ k = Len(s) /\ s # <<>> /\ t # <<>> /\ Slashy(os, s[Len(s)]) /\ Slashy(os, t[1])
<1> DEFINE n == Len(s) r == s \o t
<1>1. n \in Nat /\ Len(t) \in Nat /\ Len(r) = n + Len(t)
  BY DEF Name
<1>2. \A i \in 1..(n + Len(t)) : r[i] = IF i <= n THEN s[i] ELSE t[i - n]
  BY DEF Name
<1>3. k \in 1..(n + Len(t) - 1) /\ Slashy(os, r[k]) /\ Slashy(os, r[k + 1])
  BY <1>1 DEF Meets
<1>4. k \in 1..(n + Len(t)) /\ k + 1 \in 1..(n + Len(t))
  BY <1>1, <1>3
<1>5. (s = <<>> <=> n = 0) /\ (t = <<>> <=> Len(t) = 0)
  BY DEF Name
<1> HIDE DEF n, r
<1>6. CASE k + 1 <= n
  <2>1. r[k] = s[k] /\ r[k + 1] = s[k + 1] /\ k \in 1..(n - 1)
    BY <1>1, <1>2, <1>4, <1>6
  <2> QED BY <1>3, <2>1 DEF Meets, n
<1>7. CASE k = n
  <2>1. r[k] = s[n] /\ r[k + 1] = t[1] /\ Len(t) # 0 /\ n # 0
    BY <1>1, <1>2, <1>3, <1>4, <1>7
  <2> QED BY <1>3, <1>5, <1>7, <2>1 DEF n
<1>8. CASE k > n
  <2>1. r[k] = t[k - n] /\ r[k + 1] = t[k + 1 - n] /\ k - n \in 1..(Len(t) - 1) /\ k + 1 - n = k - n + 1
    BY <1>1, <1>2, <1>3, <1>4, <1>8
  <2>2. k - n \in Meets(os, t)
    BY <1>3, <2>1 DEF Meets
  <2> QED BY <2>2 DEF n
<1> QED BY <1>1, <1>3, <1>6, <1>7, <1>8

LEMMA SuffixIs ==
  ASSUME NEW s \in Name, NEW t \in Name
  PROVE  IsSuffix(s, t) <=> Len(s) <= Len(t) /\ \A i \in 1..Len(s) : s[i] = t[Len(t) - Len(s) + i]
<1> DEFINE m == Len(s) n == Len(t) rs == Reverse(s) rt == Reverse(t)
<1>1. m \in Nat /\ n \in Nat /\ s \in [1..m -> NameChar] /\ t \in [1..n -> NameChar]
  BY DEF Name
<1>2. rs = [i \in 1..m |-> s[m - i + 1]] /\ rt = [i \in 1..n |-> t[n - i + 1]]
  BY DEF Reverse
<1>3. (\A i \in 1..m : m - i + 1 \in 1..m) /\ (\A i \in 1..n : n - i + 1 \in 1..n)
  BY <1>1
<1> HIDE DEF m, n, rs, rt
<1>4. rs \in [1..m -> NameChar] /\ rt \in [1..n -> NameChar]
  BY <1>1, <1>2, <1>3
<1>5. rs \in Name /\ rt \in Name /\ Len(rs) = m /\ Len(rt) = n
  BY <1>1, <1>4 DEF Name
<1>6. IsSuffix(s, t) <=> m <= n /\ SubSeq(rs, 1, m) = SubSeq(rt, 1, m)
  BY <1>5 DEF IsSuffix, IsPrefix, rs, rt, m, n
<1>7. ASSUME m <= n PROVE SubSeq(rs, 1, m) = SubSeq(rt, 1, m) <=> \A i \in 1..m : rs[i] = rt[i]
  <2>1. SubSeq(rs, 1, m) = [i \in 1..m |-> rs[i]]
    BY <1>1, <1>5 DEF Name
  <2>2. SubSeq(rt, 1, m) = [i \in 1..m |-> rt[i]]
    BY <1>1, <1>5, <1>7 DEF Name
  <2> DEFINE a == [i \in 1..m |-> rs[i]] b == [i \in 1..m |-> rt[i]]
  <2>3. ASSUME a = b, NEW i \in 1..m PROVE rs[i] = rt[i]
    <3>1. a[i] = b[i]
      BY <2>3
    <3> QED BY <3>1
  <2>4. ASSUME \A i \in 1..m : rs[i] = rt[i] PROVE a = b
    BY <2>4
  <2> QED BY <2>1, <2>2, <2>3, <2>4
<1>8. ASSUME m <= n
      PROVE  (\A i \in 1..m : rs[i] = rt[i]) <=> (\A i \in 1..m : s[i] = t[n - m + i])
  <2>1. ASSUME \A i \in 1..m : rs[i] = rt[i], NEW i \in 1..m PROVE s[i] = t[n - m + i]
    <3>1. m - i + 1 \in 1..m /\ m - i + 1 \in 1..n /\ m - (m - i + 1) + 1 = i /\ n - (m - i + 1) + 1 = n - m + i
      BY <1>1, <1>8
    <3>2. rs[m - i + 1] = s[m - (m - i + 1) + 1] /\ rt[m - i + 1] = t[n - (m - i + 1) + 1]
      BY <1>2, <3>1
    <3> QED BY <2>1, <3>1, <3>2
  <2>2. ASSUME \A i \in 1..m : s[i] = t[n - m + i], NEW i \in 1..m PROVE rs[i] = rt[i]
    <3>1. m - i + 1 \in 1..m /\ i \in 1..n /\ n - m + (m - i + 1) = n - i + 1
      BY <1>1, <1>8
    <3>2. rs[i] = s[m - i + 1] /\ rt[i] = t[n - i + 1]
      BY <1>2, <3>1
    <3> QED BY <2>2, <3>1, <3>2
  <2> QED BY <2>1, <2>2
<1> QED BY <1>6, <1>7, <1>8 DEF m, n

LEMMA SlashIsName == Slash \in Name /\ Len(Slash) = 1 /\ Slash[1] = "slash"
  BY FileNamesAssumption DEF Slash, Name

LEMMA BothAre ==
  ASSUME NEW s \in Name, NEW t \in Name
  PROVE  /\ s \o t \in Name /\ Len(s) \in Nat /\ Len(t) \in Nat /\ Len(s \o t) = Len(s) + Len(t)
         /\ \A i \in 1..Len(s) : (s \o t)[i] = s[i]
         /\ \A i \in 1..Len(t) : (s \o t)[Len(s) + i] = t[i]
  BY DEF Name

LEMMA SuffixOfBoth == ASSUME NEW s \in Name, NEW t \in Name PROVE IsSuffix(t, s \o t)
<1>1. s \o t \in Name /\ Len(s \o t) = Len(s) + Len(t) /\ Len(s) \in Nat /\ Len(t) \in Nat
  BY DEF Name
<1>2. \A i \in 1..Len(t) : (s \o t)[Len(s) + i] = t[i]
  BY DEF Name
<1>3. Len(s \o t) - Len(t) = Len(s) /\ Len(t) <= Len(s \o t)
  BY <1>1
<1> QED BY <1>1, <1>2, <1>3, SuffixIs

LEMMA NeatBoth ==
  ASSUME NEW os, NEW s \in Name, Meets(os, s) = {}, NEW t \in Name, NeatPart(os, t)
  PROVE  Neat(os, s \o t)
<1>1. Meets(os, s \o t) = {}
  <2>1. ASSUME NEW k \in Meets(os, s \o t) PROVE FALSE
    BY <2>1, MeetsOfBoth DEF NeatPart, Neat
  <2> QED BY <2>1
<1>2. (s \o t)[Len(s \o t)] = t[Len(t)]
  <2>1. Len(t) \in 1..Len(t) /\ Len(s \o t) = Len(s) + Len(t) /\ Len(s) \in Nat
    BY DEF NeatPart, Name
  <2> QED BY <2>1 DEF Name
<1> QED BY <1>1, <1>2 DEF NeatPart, Neat

\* A name with a slash behind it.
LEMMA Slashed ==
  ASSUME NEW os, NEW s \in Name
  PROVE  /\ s \o Slash \in Name /\ Len(s \o Slash) = Len(s) + 1 /\ (s \o Slash)[Len(s) + 1] = "slash"
         /\ \A i \in 1..Len(s) : (s \o Slash)[i] = s[i]
         /\ Neat(os, s) => Meets(os, s \o Slash) = {}
         /\ Meets(os, Slash) = {}
<1>1. s \o Slash \in Name /\ Len(s \o Slash) = Len(s) + 1 /\ (s \o Slash)[Len(s) + 1] = "slash"
      /\ \A i \in 1..Len(s) : (s \o Slash)[i] = s[i]
  <2>1. 1 \in 1..Len(Slash)
    BY SlashIsName
  <2>2. s \o Slash \in Name /\ Len(s \o Slash) = Len(s) + Len(Slash) /\ (s \o Slash)[Len(s) + 1] = Slash[1]
    BY <2>1, SlashIsName, BothAre
  <2>3. \A i \in 1..Len(s) : (s \o Slash)[i] = s[i]
    BY SlashIsName, BothAre
  <2> QED BY <2>2, <2>3, SlashIsName
<1>2. Meets(os, Slash) = {}
  BY SlashIsName DEF Meets
<1>3. ASSUME Neat(os, s), NEW k \in Meets(os, s \o Slash) PROVE FALSE
  BY <1>2, <1>3, SlashIsName, MeetsOfBoth DEF Neat
<1> QED BY <1>1, <1>2, <1>3

LEMMA PartAdded ==
  ASSUME NEW os, NEW s \in Name, NEW x \in Name
  PROVE  LET r == s \o Slash \o x
         IN /\ r \in Name /\ Len(r) = Len(s) + 1 + Len(x) /\ IsSuffix(Slash \o x, r)
            /\ Neat(os, s) /\ NeatPart(os, x) => Neat(os, r)
<1> DEFINE r == s \o Slash \o x
<1>1. s \o Slash \in Name /\ Len(s \o Slash) = Len(s) + 1 /\ Slash \o x \in Name
  BY SlashIsName, Slashed, SMTT(60) DEF Name
<1>2. r \in Name /\ Len(r) = Len(s) + 1 + Len(x)
  BY <1>1 DEF Name
<1>3. r = s \o (Slash \o x)
  BY SlashIsName DEF Name
<1>4. IsSuffix(Slash \o x, r)
  BY <1>1, <1>3, SuffixOfBoth
<1>5. Neat(os, s) /\ NeatPart(os, x) => Neat(os, r)
  BY <1>1, Slashed, NeatBoth
<1> QED BY <1>2, <1>4, <1>5

\* What a name is made of.
Parts(os, start, more) ==
  (start = Slash \/ Neat(os, start)) /\ \A i \in 1..Len(more) : NeatPart(os, more[i])
LEMMA FirstAdded ==
  ASSUME NEW os, NEW start \in Name, NEW x \in Name
  PROVE  LET r == (IF start = Slash THEN start ELSE start \o Slash) \o x
         IN /\ r \in Name /\ Len(r) <= Len(start) + 1 + Len(x) /\ IsSuffix(Slash \o x, r)
            /\ (start = Slash \/ Neat(os, start)) /\ NeatPart(os, x) => Neat(os, r)
<1>1. CASE start = Slash
  <2>1. start \o x \in Name /\ Len(start \o x) = 1 + Len(x) /\ Len(start) = 1
    <3>1. Len(start) = 1
      BY <1>1, SlashIsName
    <3>2. start \o x \in Name /\ Len(start \o x) = Len(start) + Len(x)
      BY BothAre
    <3> QED BY <3>1, <3>2
  <2>2. IsSuffix(Slash \o x, start \o x)
    <3>1. <<>> \in Name /\ <<>> \o (Slash \o x) = Slash \o x /\ Slash \o x \in Name
      BY SlashIsName DEF Name
    <3> QED BY <1>1, <3>1, SuffixOfBoth
  <2>3. NeatPart(os, x) => Neat(os, start \o x)
    BY <1>1, Slashed, NeatBoth
  <2> QED BY <1>1, <2>1, <2>2, <2>3 DEF Name
<1>2. CASE start # Slash
  <2> DEFINE r == start \o Slash \o x
  <2>1. /\ r \in Name /\ Len(r) = Len(start) + 1 + Len(x) /\ IsSuffix(Slash \o x, r)
        /\ Neat(os, start) /\ NeatPart(os, x) => Neat(os, r)
    BY PartAdded
  <2>2. (IF start = Slash THEN start ELSE start \o Slash) \o x = r
    BY <1>2
  <2> HIDE DEF r
  <2>3. Len(r) <= Len(start) + 1 + Len(x)
    BY <2>1 DEF Name
  <2> QED BY <1>2, <2>1, <2>2, <2>3
<1> QED BY <1>1, <1>2

LEMMA JoinedIs ==
  ASSUME NEW os, NEW start \in Name, NEW more \in Seq(Name), more # <<>>
  PROVE  LET r == Joined(start, more)
         IN /\ r \in Name /\ PartsOver(more) \in Nat /\ Len(r) <= Len(start) + PartsOver(more)
            /\ IsSuffix(Slash \o more[Len(more)], r)
            /\ Parts(os, start, more) => Neat(os, r)
<1> DEFINE base == (IF start = Slash THEN start ELSE start \o Slash) \o more[1]
           text == Tail(more) N == Len(text) r == Joined(start, more)
<1>1. /\ N \in Nat /\ Len(more) = N + 1 /\ DOMAIN text = 1..N /\ DOMAIN more = 1..(N + 1)
      /\ \A i \in 1..(N + 1) : more[i] \in Name
      /\ \A i \in 1..N : text[i] = more[i + 1]
  OBVIOUS
<1>2. r = JoinedAlways(base, text)
  BY DEF Joined, JoinedAlways
<1> HIDE DEF text, base, N
<1>3. Stepwise(NameFold, base, text, N, r)
  BY <1>1, <1>2, NameStepwise
<1>4. PICK h : h[0] = base /\ h[N] = r /\ \A n \in 0..(N - 1) : h[n + 1] = h[n] \o Slash \o text[n + 1]
  <2>1. \A acc, x : FoldStep(NameFold, acc, x) = acc \o Slash \o x
    BY DEF FoldStep, NameFold, FoldOver
  <2>2. PICK h : h[0] = base /\ h[N] = r /\ \A n \in 0..(N - 1) : h[n + 1] = FoldStep(NameFold, h[n], text[n + 1])
    BY <1>3 DEF Stepwise
  <2>3. \A n \in 0..(N - 1) : h[n + 1] = h[n] \o Slash \o text[n + 1]
    BY <2>1, <2>2
  <2> QED BY <2>2, <2>3
<1>5. Stepwise(PartRoomFold, 0, more, N + 1, PartsOver(more))
  BY <1>1, PartsStepwise
<1>6. PICK g : g[0] = 0 /\ g[N + 1] = PartsOver(more) /\ \A n \in 0..N : g[n + 1] = g[n] + Len(more[n + 1]) + 1
  <2>1. \A acc, x : FoldStep(PartRoomFold, acc, x) = acc + Len(x) + 1
    BY DEF FoldStep, PartRoomFold, FoldOver
  <2> DEFINE M == N + 1
  <2> HIDE DEF M
  <2>2. PICK g : g[0] = 0 /\ g[M] = PartsOver(more)
                 /\ \A n \in 0..(M - 1) : g[n + 1] = FoldStep(PartRoomFold, g[n], more[n + 1])
    <3>1. Stepwise(PartRoomFold, 0, more, M, PartsOver(more))
      BY <1>5 DEF M
    <3> QED BY <3>1 DEF Stepwise
  <2>3. \A n \in 0..N : g[n + 1] = g[n] + Len(more[n + 1]) + 1
    <3> SUFFICES ASSUME NEW n \in 0..N PROVE g[n + 1] = g[n] + Len(more[n + 1]) + 1
      OBVIOUS
    <3>1. n \in 0..(M - 1)
      BY <1>1 DEF M
    <3> QED BY <2>1, <2>2, <3>1
  <2> QED BY <2>2, <2>3 DEF M
<1> DEFINE good == Parts(os, start, more)
           Fine(n) == /\ h[n] \in Name /\ g[n + 1] \in Nat /\ Len(h[n]) <= Len(start) + g[n + 1]
                      /\ IsSuffix(Slash \o more[n + 1], h[n])
                      /\ Parts(os, start, more) => Neat(os, h[n])
           T == {n \in Nat : n <= N => Fine(n)}
<1>7. 0 \in T
  <2>1. more[1] \in Name /\ 0 \in 0..N /\ 1 \in 1..(N + 1) /\ 0 + 1 = 1
    BY <1>1
  <2>2. /\ base \in Name /\ Len(base) <= Len(start) + 1 + Len(more[1]) /\ IsSuffix(Slash \o more[1], base)
        /\ (start = Slash \/ Neat(os, start)) /\ NeatPart(os, more[1]) => Neat(os, base)
    BY <2>1, FirstAdded DEF base
  <2>3. g[1] = 0 + Len(more[1]) + 1
    BY <1>6, <2>1
  <2>4. g[1] \in Nat /\ Len(start) + 1 + Len(more[1]) = Len(start) + g[1]
    <3>1. Len(more[1]) \in Nat /\ Len(start) \in Nat
      BY <2>1 DEF Name
    <3> DEFINE a == Len(more[1]) b == Len(start) k == g[1]
    <3>2. a \in Nat /\ b \in Nat /\ k = 0 + a + 1
      BY <2>3, <3>1
    <3> HIDE DEF a, b, k
    <3>3. k \in Nat /\ b + 1 + a = b + k
      BY <3>2
    <3> QED BY <3>3 DEF a, b, k
  <2>5. Parts(os, start, more) => Neat(os, base)
    BY <1>1, <2>1, <2>2 DEF Parts
  <2>6. Fine(0)
    BY <1>4, <2>1, <2>2, <2>4, <2>5
  <2> HIDE DEF Fine
  <2> QED BY <2>6
<1>8. ASSUME NEW n \in Nat, n \in T PROVE n + 1 \in T
  <2> SUFFICES ASSUME n + 1 <= N PROVE Fine(n + 1)
    OBVIOUS
  <2>1. n \in 0..(N - 1) /\ n + 1 \in 0..N /\ n + 1 \in 1..N /\ n + 1 + 1 \in 1..(N + 1) /\ Fine(n)
    BY <1>1, <1>8
  <2> DEFINE x == more[n + 1 + 1]
  <2>2. x \in Name /\ h[n + 1] = h[n] \o Slash \o x /\ g[n + 1 + 1] = g[n + 1] + Len(x) + 1
    BY <1>1, <1>4, <1>6, <2>1
  <2>3. Len(x) \in Nat /\ Len(h[n]) \in Nat /\ Len(start) \in Nat /\ Len(h[n]) <= Len(start) + g[n + 1] /\ g[n + 1] \in Nat
        /\ h[n] \in Name /\ (Parts(os, start, more) => Neat(os, h[n]))
    BY <2>1, <2>2, SMTT(60) DEF Name
  <2>4. Parts(os, start, more) => NeatPart(os, x)
    BY <1>1, <2>1 DEF Parts
  <2> HIDE DEF x
  <2>5. /\ h[n + 1] \in Name /\ Len(h[n + 1]) = Len(h[n]) + 1 + Len(x) /\ IsSuffix(Slash \o x, h[n + 1])
        /\ Neat(os, h[n]) /\ NeatPart(os, x) => Neat(os, h[n + 1])
    <3> DEFINE s == h[n]
    <3>1. s \in Name /\ h[n + 1] = s \o Slash \o x
      BY <2>2, <2>3
    <3> HIDE DEF s
    <3>2. LET r1 == s \o Slash \o x
          IN /\ r1 \in Name /\ Len(r1) = Len(s) + 1 + Len(x) /\ IsSuffix(Slash \o x, r1)
             /\ Neat(os, s) /\ NeatPart(os, x) => Neat(os, r1)
      BY <2>2, <3>1, PartAdded
    <3> QED BY <3>1, <3>2 DEF s
  <2>6. g[n + 1 + 1] \in Nat /\ Len(h[n + 1]) <= Len(start) + g[n + 1 + 1]
    BY <2>2, <2>3, <2>5, SMTT(60)
  <2> QED BY <2>3, <2>4, <2>5, <2>6 DEF x
<1> HIDE DEF T, Fine
<1>9. Fine(N)
  <2>1. N \in T
    BY <1>1, <1>7, <1>8, Induction
  <2> QED BY <1>1, <2>1 DEF T
<1> QED BY <1>1, <1>4, <1>6, <1>9 DEF Fine

LEMMA PosIs ==
  ASSUME NEW s \in Name, NEW ch
  PROVE  IF Contains(s, ch) THEN PosOf(s, ch) \in 1..Len(s) /\ s[PosOf(s, ch)] = ch ELSE PosOf(s, ch) = 0
<1> DEFINE I == {i \in 1..Len(s) : s[i] = ch}
<1>1. CASE Contains(s, ch)
  <2>1. I # {} /\ I \subseteq Nat
    BY <1>1 DEF Contains
  <2>2. \E i \in I : \A k \in I : i <= k
    <3> HIDE DEF I
    <3> QED BY <2>1, Least
  <2>3. PosOf(s, ch) = CHOOSE i \in I : \A k \in I : i <= k
    BY <1>1, <2>1 DEF PosOf, SelectInSeq, Min
  <2>4. PosOf(s, ch) \in I
    <3> HIDE DEF I
    <3> QED BY <2>2, <2>3
  <2> QED BY <1>1, <2>4
<1>2. CASE ~Contains(s, ch)
  BY <1>2 DEF PosOf
<1> QED BY <1>1, <1>2

\* The rest of a name behind its first k characters.
LEMMA RestIs ==
  ASSUME NEW os, NEW s \in Name, NEW k \in 0..Len(s)
  PROVE  /\ From(s, k + 1) \in Name /\ Len(From(s, k + 1)) = Len(s) - k
         /\ \A i \in 1..(Len(s) - k) : From(s, k + 1)[i] = s[k + i]
         /\ Neat(os, s) => Neat(os, From(s, k + 1))
<1> DEFINE n == Len(s) r == From(s, k + 1)
<1>1. n \in Nat /\ k \in 0..n /\ \A i \in 1..n : s[i] \in NameChar
  BY DEF Name
<1>2. r = [i \in 1..(n - k) |-> s[k + i]] /\ n - k \in Nat
  BY <1>1 DEF From, Name
<1> HIDE DEF n, r
<1>3. \A i \in 1..(n - k) : r[i] = s[k + i] /\ k + i \in 1..n
  BY <1>1, <1>2
<1>4. r \in [1..(n - k) -> NameChar]
  BY <1>1, <1>2, <1>3
<1>5. r \in Name /\ Len(r) = n - k
  <2> DEFINE m == n - k
  <2>1. m \in Nat /\ r \in [1..m -> NameChar]
    BY <1>2, <1>4
  <2> HIDE DEF m
  <2>2. r \in Name /\ Len(r) = m
    BY <2>1 DEF Name
  <2> QED BY <2>2 DEF m
<1>6. ASSUME Neat(os, s) PROVE Neat(os, r)
  <2>1. ASSUME NEW i \in Meets(os, r) PROVE FALSE
    <3>1. i \in 1..(n - k - 1) /\ Slashy(os, r[i]) /\ Slashy(os, r[i + 1])
      BY <1>5, <2>1 DEF Meets
    <3>2. i \in 1..(n - k) /\ i + 1 \in 1..(n - k) /\ k + i \in 1..(n - 1) /\ k + (i + 1) = k + i + 1
      BY <1>1, <3>1
    <3>3. k + i \in Meets(os, s)
      BY <1>3, <3>1, <3>2 DEF Meets, n
    <3> QED BY <1>6, <3>3 DEF Neat
  <2>2. ASSUME r # <<>> PROVE ~Slashy(os, r[Len(r)])
    <3>1. n - k # 0
      BY <1>5, <2>2 DEF Name
    <3>2. n - k \in 1..(n - k) /\ k + (n - k) = n /\ n # 0
      BY <1>1, <3>1
    <3>3. r[Len(r)] = s[n]
      BY <1>3, <1>5, <3>2
    <3>4. s # <<>>
      BY <3>2 DEF n
    <3> QED BY <1>6, <3>3, <3>4 DEF Neat, n
  <2> QED BY <2>1, <2>2 DEF Neat
<1> QED BY <1>3, <1>5, <1>6 DEF n, r

LEMMA NeatJoin ==
  ASSUME NEW os, NEW s \in Name, Neat(os, s), NEW t \in Name, Neat(os, t) PROVE Neat(os, s \o t)
<1>1. ASSUME NEW k \in Meets(os, s \o t) PROVE FALSE
  BY <1>1, MeetsOfBoth DEF Neat
<1>2. CASE t = <<>>
  <2>1. s \o t = s
    BY <1>2 DEF Name
  <2> QED BY <2>1
<1>3. CASE t # <<>>
  <2>1. Len(t) \in 1..Len(t) /\ Len(s \o t) = Len(s) + Len(t)
    BY <1>3 DEF Name
  <2>2. (s \o t)[Len(s \o t)] = t[Len(t)]
    BY <2>1, BothAre
  <2> QED BY <1>1, <1>3, <2>2 DEF Neat
<1> QED BY <1>2, <1>3

\* What is neat in what a name starts with.
NeatStart(os, flags, first, home, sysdir) ==
  /\ IF first = Slash THEN "SYSCONF" \notin flags ELSE Neat(os, first)
  /\ home # NoHome => Neat(os, home)
  /\ "SYSCONF" \in flags =>
       /\ first # <<>> /\ Neat(os, sysdir)
       /\ Slashy(os, first[1]) => first[1] = "slash"

\* The room that is counted in front of the first part.
FrontRoom(prefix) == IF prefix.dir = NoHome THEN 0 ELSE Len(prefix.dir) + Len(prefix.delim)

LEMMA StartIs ==
  ASSUME NEW os, NEW flags, NEW first \in Name, NEW home \in Name \cup {NoHome}, NEW sysdir \in Name
  PROVE  LET prefix == PrefixOf(flags, first, home, sysdir)
             start == StartOf(prefix, first)
         IN /\ start \in Name /\ FrontRoom(prefix) \in Nat /\ Len(start) <= Len(first) + FrontRoom(prefix)
            /\ NeatStart(os, flags, first, home, sysdir) => start = Slash \/ Neat(os, start)
<1> DEFINE prefix == PrefixOf(flags, first, home, sysdir)
           start == StartOf(prefix, first)
<1>1. Len(first) \in Nat /\ Len(sysdir) \in Nat
  BY DEF Name
<1>2. CASE "SYSCONF" \in flags
  <2> DEFINE delim == IF sysdir # <<>> /\ Last(sysdir) # "slash" /\ NthOf(first, 1) # "slash" THEN Slash ELSE <<>>
  <2>1. prefix.dir = sysdir /\ prefix.delim = delim /\ prefix.skip = 0
    BY <1>2 DEF PrefixOf, Prefix
  <2>2. sysdir # NoHome
    BY FileNamesAssumption DEF Name
  <2>3. From(first, 0 + 1) = first
    BY DEF From, Name
  <2>4. start = sysdir \o delim \o first
    BY <2>1, <2>2, <2>3 DEF StartOf
  <2>5. FrontRoom(prefix) = Len(sysdir) + Len(delim)
    BY <2>1, <2>2 DEF FrontRoom
  <2>6. delim = Slash \/ delim = <<>>
    OBVIOUS
  <2>7. delim = Slash <=> sysdir # <<>> /\ Last(sysdir) # "slash" /\ NthOf(first, 1) # "slash"
    BY SlashIsName
  <2> HIDE DEF delim, start, prefix
  <2>8. delim \in Name /\ Len(delim) \in Nat
    <3>1. <<>> \in Name
      BY DEF Name
    <3>2. delim \in Name
      BY <2>6, <3>1, SlashIsName
    <3> QED BY <3>2 DEF Name
  <2>9. sysdir \o delim \in Name /\ Len(sysdir \o delim) = Len(sysdir) + Len(delim)
    BY <2>8, BothAre
  <2>10. start \in Name /\ Len(start) = Len(sysdir) + Len(delim) + Len(first)
    BY <2>4, <2>9, BothAre
  <2>11. ASSUME NeatStart(os, flags, first, home, sysdir) PROVE Neat(os, start)
    <3>1. Neat(os, first) /\ Neat(os, sysdir) /\ first # <<>> /\ (Slashy(os, first[1]) => first[1] = "slash")
      BY <1>2, <2>11 DEF NeatStart
    <3>2. NthOf(first, 1) = first[1]
      BY <1>1, <3>1 DEF NthOf, Name
    <3>3. CASE delim = Slash
      <4>1. NeatPart(os, first)
        BY <2>7, <3>1, <3>2, <3>3 DEF NeatPart
      <4>2. Meets(os, sysdir \o Slash) = {}
        BY <3>1, Slashed
      <4> QED BY <2>4, <2>9, <3>3, <4>1, <4>2, NeatBoth
    <3>4. CASE delim = <<>>
      <4>1. start = sysdir \o first
        BY <2>4, <3>4 DEF Name
      <4> QED BY <3>1, <4>1, NeatJoin
    <3> QED BY <2>6, <3>3, <3>4
  <2> QED BY <1>1, <2>5, <2>8, <2>10, <2>11 DEF prefix, start
<1>3. CASE "SYSCONF" \notin flags /\ "TILDE" \in flags /\ NthOf(first, 1) = "tilde" /\ home # NoHome
  <2> DEFINE skip == IF NthOf(first, 2) \in {"slash", "nul"} THEN 1 ELSE UserLength(first)
             rest == From(first, skip + 1)
  <2>1. prefix.dir = home /\ prefix.delim = <<>> /\ prefix.skip = skip /\ home \in Name
    BY <1>3 DEF PrefixOf, Prefix
  <2>2. first # <<>> /\ first # Slash
    <3>1. first # <<>>
      BY <1>3 DEF NthOf
    <3> QED BY <1>3, <3>1, SlashIsName DEF NthOf
  <2>3. skip \in 0..Len(first)
    <3>1. 1 \in 0..Len(first)
      BY <1>1, <2>2 DEF Name
    <3>2. UserLength(first) \in 0..Len(first)
      <4>1. PosOf(first, "slash") = 0 \/ PosOf(first, "slash") \in 1..Len(first)
        BY PosIs
      <4> QED BY <1>1, <4>1 DEF UserLength
    <3> QED BY <3>1, <3>2
  <2> HIDE DEF skip
  <2>4. rest \in Name /\ Len(rest) = Len(first) - skip /\ (Neat(os, first) => Neat(os, rest))
    BY <2>3, RestIs
  <2>5. start = home \o rest
    <3>1. home \o <<>> = home
      BY <2>1 DEF Name
    <3> QED BY <1>3, <2>1, <3>1 DEF StartOf
  <2>6. FrontRoom(prefix) = Len(home)
    <3>1. Len(home) + Len(<<>>) = Len(home)
      BY <2>1 DEF Name
    <3> QED BY <1>3, <2>1, <3>1 DEF FrontRoom
  <2> HIDE DEF start, prefix, rest
  <2>7. start \in Name /\ Len(start) = Len(home) + Len(rest) /\ Len(home) \in Nat
    BY <2>1, <2>4, <2>5, BothAre
  <2>8. Len(start) <= Len(first) + FrontRoom(prefix) /\ FrontRoom(prefix) \in Nat
    BY <1>1, <2>3, <2>4, <2>6, <2>7
  <2>9. NeatStart(os, flags, first, home, sysdir) => Neat(os, start)
    BY <1>3, <2>1, <2>2, <2>4, <2>5, NeatJoin DEF NeatStart
  <2> QED BY <2>7, <2>8, <2>9 DEF prefix, start
<1>4. CASE "SYSCONF" \notin flags /\ ~("TILDE" \in flags /\ NthOf(first, 1) = "tilde" /\ home # NoHome)
  <2>1. prefix = NoPrefix
    BY <1>4 DEF PrefixOf
  <2>2. prefix.dir = NoHome
    BY <2>1 DEF NoPrefix, Prefix
  <2>3. start = first /\ FrontRoom(prefix) = 0
    BY <2>2 DEF StartOf, FrontRoom
  <2> HIDE DEF start, prefix
  <2>4. NeatStart(os, flags, first, home, sysdir) => first = Slash \/ Neat(os, first)
    BY DEF NeatStart
  <2> QED BY <1>1, <2>3, <2>4 DEF prefix, start
<1> QED BY <1>2, <1>3, <1>4

NameTypes(first, more, home, sysdir) ==
  first \in Name /\ more \in Seq(Name) /\ home \in Name \cup {NoHome} /\ sysdir \in Name
NeatParts(os, flags, first, more, home, sysdir) ==
  NeatStart(os, flags, first, home, sysdir) /\ \A i \in 1..Len(more) : NeatPart(os, more[i])

\* The whole name fits, its parts meet in one slash each, and it ends with the last of them.
LEMMA WholeIs ==
  ASSUME NEW os, NEW flags, NEW first, NEW more, NEW home, NEW sysdir, NameTypes(first, more, home, sysdir)
  PROVE  LET whole == Whole(flags, first, more, home, sysdir)
         IN /\ whole \in Name
            /\ Len(whole) < NameRoom(PrefixOf(flags, first, home, sysdir), first, more)
            /\ NeatParts(os, flags, first, more, home, sysdir) => Meets(os, whole) = {}
            /\ more # <<>> => IsSuffix(Slash \o more[Len(more)], whole)
<1> DEFINE prefix == PrefixOf(flags, first, home, sysdir)
           start == StartOf(prefix, first)
           whole == Joined(start, more)
           neat == NeatStart(os, flags, first, home, sysdir)
<1>1. /\ start \in Name /\ FrontRoom(prefix) \in Nat /\ Len(start) <= Len(first) + FrontRoom(prefix)
      /\ neat => start = Slash \/ Neat(os, start)
  BY StartIs DEF NameTypes
<1>2. Whole(flags, first, more, home, sysdir) = whole
  BY DEF Whole
<1>3. NameRoom(prefix, first, more) = Len(first) + 2 + PartsOver(more) + FrontRoom(prefix)
  BY DEF NameRoom, PartsRoom, PartsOver, FrontRoom
<1>4. first \in Name /\ more \in Seq(Name) /\ Len(first) \in Nat /\ Len(start) \in Nat
  BY <1>1 DEF NameTypes, Name
<1> HIDE DEF prefix, start, whole, neat
<1>5. CASE more = <<>>
  <2>1. whole = start
    BY <1>5 DEF Joined, whole
  <2>2. PartsOver(more) = 0
    <3>1. DOMAIN more = 1..0
      BY <1>5
    <3> QED BY <3>1, PartsStepwise, NoStep
  <2>3. neat => Meets(os, whole) = {}
    BY <1>1, <2>1, Slashed DEF Neat
  <2>4. Len(whole) < NameRoom(prefix, first, more)
    BY <1>1, <1>3, <1>4, <2>1, <2>2
  <2> QED BY <1>1, <1>2, <1>5, <2>1, <2>3, <2>4 DEF NeatParts, neat, prefix
<1>6. CASE more # <<>>
  <2>1. /\ whole \in Name /\ PartsOver(more) \in Nat /\ Len(whole) <= Len(start) + PartsOver(more)
        /\ IsSuffix(Slash \o more[Len(more)], whole)
        /\ Parts(os, start, more) => Neat(os, whole)
    BY <1>1, <1>4, <1>6, JoinedIs DEF whole
  <2>2. NeatParts(os, flags, first, more, home, sysdir) => Meets(os, whole) = {}
    BY <1>1, <2>1 DEF NeatParts, Parts, Neat, neat
  <2>3. Len(whole) \in Nat
    BY <2>1 DEF Name
  <2>4. Len(whole) < NameRoom(prefix, first, more)
    BY <1>1, <1>3, <1>4, <2>1, <2>3
  <2> QED BY <1>2, <2>1, <2>2, <2>4 DEF prefix
<1> QED BY <1>5, <1>6

LEMMA NameOf == ASSUME NEW m \in Nat, NEW f \in [1..m -> NameChar] PROVE f \in Name /\ Len(f) = m
  BY DEF Name

-----------------------------------------------------------------------------
\* The name that is absolute has the first three characters of the one it is made from.
SameFront(a, b) == \A i \in 1..3 : i <= Len(a) => i <= Len(b) /\ b[i] = a[i]

LEMMA OneSlashIs ==
  ASSUME NEW os, NEW a \in Name
  PROVE  LET b == OneSlash(os, a)
         IN /\ b \in Name /\ SameFront(a, b)
            /\ \/ b = a /\ ~(os = "w32" /\ Len(a) >= 4 /\ a[2] = "colon" /\ a[3] = "slash" /\ a[4] = "slash")
               \/ /\ os = "w32" /\ Len(a) >= 4 /\ a[2] = "colon" /\ a[3] = "slash" /\ a[4] = "slash"
                  /\ Len(b) = Len(a) - 1 /\ \A i \in 4..Len(b) : b[i] = a[i + 1]
<1> DEFINE n == Len(a) b == OneSlash(os, a) odd == os = "w32" /\ n >= 4 /\ a[2] = "colon" /\ a[3] = "slash" /\ a[4] = "slash"
<1>1. n \in Nat /\ \A i \in 1..n : a[i] \in NameChar
  BY DEF Name
<1>2. b = IF odd THEN RemoveAt(a, 4) ELSE a
  <2>1. NthOf(a, 4) = "slash" <=> 4 <= n /\ a[4] = "slash"
    BY <1>1 DEF NthOf
  <2>2. 4 <= n => NthOf(a, 2) = a[2] /\ NthOf(a, 3) = a[3]
    BY <1>1 DEF NthOf
  <2> QED BY <1>1, <2>1, <2>2 DEF OneSlash
<1>3. CASE ~odd
  BY <1>1, <1>2, <1>3 DEF SameFront
<1>4. CASE odd
  <2> DEFINE s == SubSeq(a, 1, 3) t == SubSeq(a, 5, n)
  <2>1. b = s \o t
    BY <1>2, <1>4 DEF RemoveAt
  <2>2. s = [i \in 1..3 |-> a[i]] /\ t = [i \in 1..(n - 4) |-> a[4 + i]]
    BY <1>1, <1>4 DEF Name
  <2> DEFINE m == n - 4
  <2>3. m \in Nat /\ n = 4 + m /\ t = [i \in 1..m |-> a[4 + i]]
    BY <1>1, <1>4, <2>2
  <2> HIDE DEF s, t, b, n, m
  <2>11. (\A i \in 1..3 : i \in 1..n) /\ (\A i \in 1..m : 4 + i \in 1..n)
    BY <1>1, <1>4, <2>3 DEF odd
  <2>12. s \in [1..3 -> NameChar]
    BY <1>1, <2>2, <2>11
  <2>13. t \in [1..m -> NameChar]
    BY <1>1, <2>3, <2>11
  <2>4. s \in [1..3 -> NameChar] /\ t \in [1..m -> NameChar] /\ t = [i \in 1..m |-> a[4 + i]]
    BY <2>3, <2>12, <2>13
  <2>14. s \in Name /\ Len(s) = 3
    BY <2>12, NameOf
  <2>5. s \in Name /\ t \in Name /\ Len(s) = 3 /\ Len(t) = m
    BY <2>3, <2>13, <2>14, NameOf
  <2>15. /\ s \o t \in Name /\ Len(s \o t) = Len(s) + Len(t)
         /\ \A i \in 1..Len(s) : (s \o t)[i] = s[i]
         /\ \A i \in 1..Len(t) : (s \o t)[Len(s) + i] = t[i]
    BY <2>5, BothAre
  <2>6. b \in Name /\ Len(b) = 3 + m
    BY <2>1, <2>5, <2>15
  <2>7. \A i \in 1..3 : b[i] = a[i]
    BY <2>1, <2>2, <2>5, <2>15
  <2>8. \A i \in 1..m : b[3 + i] = a[4 + i]
    BY <2>1, <2>4, <2>5, <2>15
  <2>9. ASSUME NEW i \in 4..Len(b) PROVE b[i] = a[i + 1]
    <3>1. i - 3 \in 1..m /\ 3 + (i - 3) = i /\ 4 + (i - 3) = i + 1
      BY <2>3, <2>6
    <3>2. b[3 + (i - 3)] = a[4 + (i - 3)]
      BY <2>8, <3>1
    <3> QED BY <3>1, <3>2
  <2>10. Len(b) = n - 1 /\ SameFront(a, b)
    BY <2>3, <2>6, <2>7 DEF SameFront
  <2> QED BY <1>4, <2>6, <2>9, <2>10 DEF n, b
<1> QED BY <1>3, <1>4

\* A name, or its beginning when "/." is taken from its end.
LEMMA CompressedIs ==
  ASSUME NEW os, NEW w \in Name
  PROVE  LET a == Compressed(w)
         IN /\ a \in Name /\ Len(a) <= Len(w) /\ \A i \in 1..Len(a) : a[i] = w[i]
            /\ Meets(os, a) \subseteq Meets(os, w)
            /\ \/ a = w
               \/ Len(w) > 2 /\ Len(a) = Len(w) - 2 /\ w[Len(w)] = "dot" /\ IsSuffix(<<"slash", "dot">>, w)
<1> DEFINE n == Len(w) a == Compressed(w)
<1>1. n \in Nat /\ \A i \in 1..n : w[i] \in NameChar
  BY DEF Name
<1>2. CASE ~(n > 2 /\ IsSuffix(<<"slash", "dot">>, w))
  <2>1. a = w
    BY <1>2 DEF Compressed
  <2> QED BY <1>1, <2>1
<1>3. CASE n > 2 /\ IsSuffix(<<"slash", "dot">>, w)
  <2> DEFINE m == n - 2
  <2>1. m \in Nat /\ m <= n /\ a = SubSeq(w, 1, n - 2)
    BY <1>1, <1>3 DEF Compressed
  <2>2. a = [i \in 1..m |-> w[i]]
    BY <1>1, <2>1 DEF Name
  <2> HIDE DEF a, m, n
  <2>8. \A i \in 1..m : i \in 1..n
    BY <1>1, <2>1
  <2>3. a \in [1..m -> NameChar]
    BY <1>1, <2>2, <2>8
  <2>4. a \in Name /\ Len(a) = m /\ \A i \in 1..m : a[i] = w[i]
    BY <2>1, <2>2, <2>3, NameOf
  <2>5. ASSUME NEW i \in Meets(os, a) PROVE i \in Meets(os, w)
    <3>1. i \in 1..(m - 1) /\ Slashy(os, a[i]) /\ Slashy(os, a[i + 1])
      BY <2>4, <2>5 DEF Meets
    <3>2. i \in 1..m /\ i + 1 \in 1..m /\ i \in 1..(n - 1)
      BY <1>1, <2>1, <3>1
    <3> QED BY <2>4, <3>1, <3>2 DEF Meets, n
  <2>6. w[n] = "dot"
    <3> DEFINE tip == <<"slash", "dot">>
    <3>1. Reverse(tip)[1] = "dot" /\ Len(tip) = 2 /\ Len(Reverse(tip)) = 2
      BY DEF Reverse
    <3>2. Len(Reverse(w)) = n /\ Reverse(w) \in Seq(NameChar) /\ Reverse(w)[1] = w[n]
      <4>1. Reverse(w) = [i \in 1..n |-> w[n - i + 1]] /\ \A i \in 1..n : n - i + 1 \in 1..n
        BY <1>1 DEF Reverse, n
      <4>2. Reverse(w) \in [1..n -> NameChar]
        BY <1>1, <4>1
      <4>3. 1 \in 1..n /\ n - 1 + 1 = n
        BY <1>1, <1>3
      <4> QED BY <1>1, <4>1, <4>2, <4>3
    <3>3. SubSeq(Reverse(tip), 1, 2) = SubSeq(Reverse(w), 1, 2)
      BY <1>3, <3>1 DEF IsSuffix, IsPrefix
    <3>4. SubSeq(Reverse(w), 1, 2)[1] = Reverse(w)[1]
      BY <1>1, <1>3, <3>2
    <3>5. SubSeq(Reverse(tip), 1, 2)[1] = Reverse(tip)[1]
      BY DEF Reverse
    <3> QED BY <3>1, <3>2, <3>3, <3>4, <3>5
  <2>7. Len(a) = n - 2 /\ Len(a) <= n
    BY <2>1, <2>4 DEF m
  <2> QED BY <1>3, <2>4, <2>5, <2>6, <2>7 DEF a, n
<1> QED BY <1>2, <1>3

Systems == {"posix", "w32"}

\* A working directory: a root, a drive's root, or a directory with no slash at its end.
OnDrive(cwd) == Len(cwd) > 2 /\ cwd[2] = "colon" /\ cwd[3] = "slash"
CwdShape(os, cwd) ==
  /\ cwd \in Name /\ Meets(os, cwd) = Doubles(cwd)
  /\ \/ os = "posix" /\ cwd = Slash
     \/ os = "w32" /\ Len(cwd) = 3 /\ OnDrive(cwd) /\ Meets(os, cwd) = {}
     \/ /\ cwd # <<>> /\ ~Slashy(os, cwd[Len(cwd)]) /\ Meets(os, cwd) \subseteq {1}
        /\ (os = "posix" /\ cwd[1] = "slash") \/ (os = "w32" /\ Len(cwd) > 2 /\ (cwd[1] = "slash" \/ OnDrive(cwd)))

LEMMA CwdIs ==
  ASSUME NEW os \in Systems, NEW dir \in Cwds[os] PROVE CwdShape(os, Getcwd(os, dir))
<1> DEFINE cwd == Slashes(os, dir)
<1>1. dir \in Name /\ IsCwd(os, cwd)
  BY FileNamesAssumption DEF Systems, Name
<1>2. cwd \in Name /\ Len(cwd) = Len(dir) /\ Len(dir) \in Nat
      /\ \A i \in 1..Len(dir) : cwd[i] = IF os = "w32" /\ dir[i] = "bslash" THEN "slash" ELSE dir[i]
  BY <1>1, SlashesIs DEF Name
<1> HIDE DEF cwd
<1>3. \A i \in 1..Len(cwd) : Slashy(os, cwd[i]) <=> cwd[i] = "slash"
  BY <1>2 DEF Slashy
<1>4. Meets(os, cwd) = Doubles(cwd)
  <2>1. \A i \in 1..(Len(cwd) - 1) : i \in 1..Len(cwd) /\ i + 1 \in 1..Len(cwd)
    BY <1>2
  <2> QED BY <1>3, <2>1 DEF Meets, Doubles
<1>5. cwd # <<>> /\ Len(cwd) \in 1..Len(cwd) /\ 1 \in 1..Len(cwd) /\ Last(cwd) = cwd[Len(cwd)]
  BY <1>1, <1>2 DEF IsCwd, Name, Last
<1>6. CASE os = "posix"
  BY <1>1, <1>2, <1>3, <1>4, <1>5, <1>6 DEF IsCwd, CwdShape, Getcwd, cwd
<1>7. CASE os = "w32"
  <2>1. CASE Len(cwd) = 3 /\ OnDrive(cwd)
    <3>1. ASSUME NEW i \in Doubles(cwd) PROVE FALSE
      <4>1. i \in 1..2 /\ cwd[i] = "slash" /\ cwd[i + 1] = "slash"
        BY <2>1, <3>1 DEF Doubles
      <4>2. cwd[2] = "slash"
        <5>1. i = 1 \/ i = 2
          BY <4>1
        <5>2. 1 + 1 = 2
          OBVIOUS
        <5> QED BY <4>1, <5>1, <5>2
      <4> QED BY <2>1, <4>2 DEF OnDrive
    <3> QED BY <1>2, <1>4, <1>7, <2>1, <3>1 DEF CwdShape, Getcwd, cwd
  <2>2. CASE ~(Len(cwd) = 3 /\ OnDrive(cwd))
    <3>1. Len(cwd) > 2 /\ (cwd[1] = "slash" \/ OnDrive(cwd)) /\ Last(cwd) # "slash" /\ Doubles(cwd) \subseteq {1}
      BY <1>1, <1>7, <2>2 DEF IsCwd, OnDrive
    <3> QED BY <1>2, <1>3, <1>4, <1>5, <1>7, <3>1 DEF CwdShape, Getcwd, cwd
  <2> QED BY <2>1, <2>2
<1> QED BY <1>6, <1>7 DEF Systems

\* Without an odd drive, a name behind a drive is not relative; others are looked at from
\* their first character on.
LEMMA DriveIs ==
  ASSUME NEW os \in Systems, NEW s \in Name, ~OddDrive(os, s)
  PROVE  /\ Relative(os, s) => AfterDrive(os, s) = 1 /\ (s # <<>> => ~Slashy(os, s[1]))
         /\ ~Relative(os, s) =>
              /\ s # <<>>
              /\ Slashy(os, s[1]) \/ (os = "w32" /\ Len(s) > 2 /\ s[2] = "colon" /\ Slashy(os, s[3]))
              /\ os = "w32" /\ NthOf(s, 2) # "colon" => Slashy(os, s[1])
<1>1. Len(s) \in Nat /\ (s # <<>> <=> 1 <= Len(s))
  BY DEF Name
<1>2. CASE os = "w32" /\ Contains(s, "colon")
  <2> DEFINE i == PosOf(s, "colon")
  <2>1. i \in 1..Len(s) /\ s[i] = "colon"
    BY <1>2, PosIs
  <2> HIDE DEF i
  <2>2. i = 2 /\ NthOf(s, 3) \in {"slash", "bslash"}
    BY <1>2, <2>1 DEF OddDrive
  <2>3. AfterDrive(os, s) = 3
    BY <1>2, <2>2 DEF AfterDrive, i
  <2>4. ~Relative(os, s)
    BY <1>2, <2>2, <2>3 DEF Relative
  <2>5. Len(s) > 2 /\ s[3] \in {"slash", "bslash"} /\ s[2] = "colon" /\ NthOf(s, 2) = s[2]
    <3>1. Len(s) > 2 /\ s[3] \in {"slash", "bslash"}
      BY <1>1, <2>2 DEF NthOf
    <3> QED BY <1>1, <2>1, <2>2, <3>1 DEF NthOf
  <2> QED BY <1>1, <1>2, <2>4, <2>5 DEF Slashy
<1>3. CASE ~(os = "w32" /\ Contains(s, "colon"))
  <2>1. AfterDrive(os, s) = 1
    BY <1>3 DEF AfterDrive
  <2>2. Relative(os, s) <=> ~Slashy(os, NthOf(s, 1))
    BY <2>1 DEF Relative, Slashy, Systems
  <2>3. s # <<>> => NthOf(s, 1) = s[1]
    BY <1>1 DEF NthOf
  <2>4. s = <<>> => ~Slashy(os, NthOf(s, 1))
    BY <1>1 DEF NthOf, Slashy
  <2> QED BY <1>1, <2>1, <2>2, <2>3, <2>4
<1> QED BY <1>2, <1>3

\* What OneSlash does to places where slashes meet.
LEMMA OneSlashMeets ==
  ASSUME NEW os, NEW a \in Name
  PROVE  LET b == OneSlash(os, a)
         IN /\ 3 \notin Meets(os, a) => b = a
            /\ Meets(os, a) \subseteq {3} /\ b # a => Meets(os, b) = {}
<1> DEFINE n == Len(a) b == OneSlash(os, a) odd == os = "w32" /\ n >= 4 /\ a[2] = "colon" /\ a[3] = "slash" /\ a[4] = "slash"
<1>1. /\ b \in Name /\ \A i \in 1..3 : i <= n => i <= Len(b) /\ b[i] = a[i]
      /\ \/ b = a /\ ~odd
         \/ odd /\ Len(b) = n - 1 /\ \A i \in 4..Len(b) : b[i] = a[i + 1]
  BY OneSlashIs DEF SameFront
<1>2. n \in Nat
  BY DEF Name
<1> HIDE DEF b
<1>3. odd => 3 \in Meets(os, a)
  <2>1. odd => 3 \in 1..(n - 1) /\ 3 + 1 = 4
    BY <1>2
  <2> QED BY <2>1 DEF Meets, Slashy
<1>4. ASSUME Meets(os, a) \subseteq {3}, odd, Len(b) = n - 1, \A i \in 4..Len(b) : b[i] = a[i + 1], NEW k \in Meets(os, b)
      PROVE  FALSE
  <2>1. k \in 1..(n - 2) /\ Slashy(os, b[k]) /\ Slashy(os, b[k + 1])
    BY <1>2, <1>4 DEF Meets
  <2>2. CASE k <= 2
    <3>1. b[k] = a[k] /\ b[k + 1] = a[k + 1] /\ k \in 1..(n - 1)
      BY <1>1, <1>2, <1>4, <2>1, <2>2
    <3>2. k \in Meets(os, a)
      BY <2>1, <3>1 DEF Meets
    <3> QED BY <1>4, <2>1, <2>2, <3>2
  <2>3. CASE k > 2
    <3>1. k + 1 \in 4..Len(b) /\ k + 1 \in 1..(n - 1)
      BY <1>2, <1>4, <2>1, <2>3
    <3>2. b[k + 1] = a[k + 1 + 1]
      BY <1>4, <3>1
    <3>3. Slashy(os, a[k + 1])
      <4>1. CASE k = 3
        <5>1. k + 1 = 4
          BY <4>1
        <5> QED BY <1>4, <5>1 DEF Slashy
      <4>2. CASE k # 3
        <5>1. k \in 4..Len(b)
          BY <1>2, <1>4, <2>1, <2>3, <4>2
        <5>2. b[k] = a[k + 1]
          BY <1>4, <5>1
        <5> QED BY <2>1, <5>2
      <4> QED BY <4>1, <4>2
    <3>4. k + 1 \in Meets(os, a)
      BY <2>1, <3>1, <3>2, <3>3 DEF Meets
    <3> QED BY <1>4, <2>1, <2>3, <3>4
  <2> QED BY <2>1, <2>2, <2>3
<1>5. Meets(os, a) \subseteq {3} /\ b # a => Meets(os, b) = {}
  BY <1>1, <1>4
<1>6. 3 \notin Meets(os, a) => b = a
  BY <1>1, <1>3
<1> QED BY <1>5, <1>6 DEF b

LEMMA SuffixBehind ==
  ASSUME NEW s \in Name, NEW x \in Name, IsSuffix(Slash \o x, s) PROVE IsSuffix(x, s) /\ Len(x) + 1 <= Len(s)
<1> DEFINE t == Slash \o x k == Len(x) n == Len(s)
<1>1. t \in Name /\ Len(t) = 1 + k /\ k \in Nat /\ n \in Nat /\ \A i \in 1..k : t[1 + i] = x[i]
  <2>1. Slash \in Name /\ Len(Slash) = 1
    BY SlashIsName
  <2>2. t \in Name /\ Len(t) = Len(Slash) + k /\ k \in Nat /\ \A i \in 1..k : t[Len(Slash) + i] = x[i]
    BY <2>1, BothAre
  <2>3. n \in Nat
    BY DEF Name
  <2> QED BY <2>1, <2>2, <2>3
<1>2. Len(t) <= n /\ \A i \in 1..Len(t) : t[i] = s[n - Len(t) + i]
  BY <1>1, SuffixIs
<1> HIDE DEF t, k, n
<1>3. ASSUME NEW i \in 1..k PROVE x[i] = s[n - k + i]
  <2>1. 1 + i \in 1..Len(t) /\ n - Len(t) + (1 + i) = n - k + i
    BY <1>1
  <2>2. t[1 + i] = s[n - Len(t) + (1 + i)]
    BY <1>2, <2>1
  <2> QED BY <1>1, <2>1, <2>2
<1>4. k <= n /\ k + 1 <= n
  BY <1>1, <1>2
<1> QED BY <1>3, <1>4, SuffixIs DEF k, n

LEMMA SuffixMore ==
  ASSUME NEW s \in Name, NEW t \in Name, NEW x \in Name, IsSuffix(x, t) PROVE IsSuffix(x, s \o t)
<1> DEFINE r == s \o t k == Len(x) m == Len(s) n == Len(t)
<1>1. r \in Name /\ Len(r) = m + n /\ m \in Nat /\ n \in Nat /\ k \in Nat /\ \A i \in 1..n : r[m + i] = t[i]
  BY BothAre DEF Name
<1>2. k <= n /\ \A i \in 1..k : x[i] = t[n - k + i]
  BY SuffixIs
<1> HIDE DEF r, k, m, n
<1>3. ASSUME NEW i \in 1..k PROVE x[i] = r[Len(r) - k + i]
  <2>1. n - k + i \in 1..n /\ m + (n - k + i) = Len(r) - k + i
    BY <1>1, <1>2
  <2> QED BY <1>1, <1>2, <2>1
<1>4. k <= Len(r)
  BY <1>1, <1>2
<1>5. IsSuffix(x, r)
  BY <1>1, <1>3, <1>4, SuffixIs DEF k
<1> QED BY <1>5 DEF r

LEMMA SuffixOfSuffix ==
  ASSUME NEW s \in Name, NEW tip \in Name, NEW t \in Name, IsSuffix(tip, s), IsSuffix(t, s), Len(tip) <= Len(t)
  PROVE  IsSuffix(tip, t)
<1> DEFINE k == Len(tip) m == Len(t) n == Len(s)
<1>1. k \in Nat /\ m \in Nat /\ n \in Nat
  BY DEF Name
<1>2. k <= n /\ \A i \in 1..k : tip[i] = s[n - k + i]
  BY SuffixIs
<1>3. m <= n /\ \A i \in 1..m : t[i] = s[n - m + i]
  BY SuffixIs
<1>4. k <= m
  OBVIOUS
<1> HIDE DEF k, m, n
<1>5. ASSUME NEW i \in 1..k PROVE tip[i] = t[m - k + i]
  <2>1. m - k + i \in 1..m /\ n - m + (m - k + i) = n - k + i
    BY <1>1, <1>4
  <2> QED BY <1>2, <1>3, <2>1
<1> QED BY <1>4, <1>5, SuffixIs DEF k, m

\* What stands in front of a relative name.
InFrontOf(cwd) == IF cwd = Slash THEN Slash ELSE cwd \o Slash
OnRoot(os, front, cwd) ==
  os = "w32" /\ Len(front) = 4 /\ front[4] = "slash" /\ OnDrive(front) /\ Meets(os, front) \subseteq {3} /\ Meets(os, cwd) = {}

LEMMA FrontIs ==
  ASSUME NEW os \in Systems, NEW cwd, CwdShape(os, cwd)
  PROVE  /\ InFrontOf(cwd) \in Name /\ Len(InFrontOf(cwd)) \in Nat /\ Len(InFrontOf(cwd)) <= Len(cwd) + 1 /\ Len(cwd) \in Nat
         /\ InFrontOf(cwd) # <<>> /\ InFrontOf(cwd)[Len(InFrontOf(cwd))] = "slash"
         /\ \/ os = "posix" /\ InFrontOf(cwd)[1] = "slash"
            \/ os = "w32" /\ Len(InFrontOf(cwd)) >= 4 /\ (InFrontOf(cwd)[1] = "slash" \/ OnDrive(InFrontOf(cwd)))
         /\ \/ OnRoot(os, InFrontOf(cwd), cwd)
            \/ Meets(os, InFrontOf(cwd)) \subseteq Meets(os, cwd) /\ 3 \notin Meets(os, cwd)
<1> DEFINE front == InFrontOf(cwd) n == Len(cwd)
<1>1. cwd \in Name /\ n \in Nat /\ (cwd # <<>> <=> n >= 1)
  BY DEF CwdShape, Name
<1>2. CASE cwd = Slash
  <2>1. front = Slash
    BY <1>2 DEF InFrontOf
  <2>2. os = "posix"
    BY <1>2, SlashIsName DEF CwdShape
  <2>3. Meets(os, Slash) = {} /\ Slash \in Name /\ Len(Slash) = 1 /\ Slash[1] = "slash" /\ Slash # <<>>
    BY SlashIsName, Slashed DEF Slash
  <2> QED BY <1>2, <2>1, <2>2, <2>3
<1>3. CASE cwd # Slash
  <2>1. front = cwd \o Slash
    BY <1>3 DEF InFrontOf
  <2> HIDE DEF front
  <2>2. front \in Name /\ Len(front) = n + 1 /\ front[n + 1] = "slash" /\ (\A i \in 1..n : front[i] = cwd[i])
        /\ (Neat(os, cwd) => Meets(os, front) = {}) /\ front # <<>>
    <3>1. front \in Name /\ Len(front) = n + 1 /\ front[n + 1] = "slash" /\ (\A i \in 1..n : front[i] = cwd[i])
          /\ (Neat(os, cwd) => Meets(os, front) = {})
      BY <1>1, <2>1, Slashed
    <3> QED BY <1>1, <3>1 DEF Name
  <2>3. \A k \in Meets(os, front) : k \in Meets(os, cwd) \/ (k = n /\ Slashy(os, cwd[n]))
    <3>1. Meets(os, Slash) = {}
      BY <1>1, Slashed
    <3> QED BY <1>1, <2>1, <3>1, SlashIsName, MeetsOfBoth
  <2>4. CASE os = "w32" /\ n = 3 /\ OnDrive(cwd) /\ Meets(os, cwd) = {}
    <3>1. OnDrive(front) /\ Len(front) = 4 /\ front[4] = "slash"
      <4>1. 2 \in 1..n /\ 3 \in 1..n /\ n + 1 = 4
        BY <2>4
      <4> QED BY <2>2, <2>4, <4>1 DEF OnDrive
    <3>2. Meets(os, front) \subseteq {3}
      BY <2>3, <2>4
    <3> QED BY <1>1, <2>2, <2>4, <3>1, <3>2 DEF OnRoot, front
  <2>5. CASE cwd # <<>> /\ ~Slashy(os, cwd[n]) /\ Meets(os, cwd) \subseteq {1}
             /\ ((os = "posix" /\ cwd[1] = "slash") \/ (os = "w32" /\ n > 2 /\ (cwd[1] = "slash" \/ OnDrive(cwd))))
    <3>1. Meets(os, front) \subseteq Meets(os, cwd) /\ 3 \notin Meets(os, cwd)
      BY <2>3, <2>5
    <3>2. \/ os = "posix" /\ front[1] = "slash"
          \/ os = "w32" /\ Len(front) >= 4 /\ (front[1] = "slash" \/ OnDrive(front))
      <4>1. 1 \in 1..n
        BY <1>1, <2>5
      <4>2. n > 2 => 2 \in 1..n /\ 3 \in 1..n /\ n + 1 >= 4
        BY <1>1
      <4> QED BY <1>1, <2>2, <2>5, <4>1, <4>2 DEF OnDrive
    <3> QED BY <1>1, <2>2, <3>1, <3>2 DEF front
  <2> QED BY <1>3, <2>4, <2>5 DEF CwdShape
<1> QED BY <1>2, <1>3

AbsRooted(os, b) ==
  b # <<>> /\ (Slashy(os, b[1]) \/ (os = "w32" /\ Len(b) > 2 /\ b[2] = "colon" /\ Slashy(os, b[3])))
DotEnd == <<"slash", "dot">>
\* The end of a name that stays when "/." and a second slash behind a drive are taken away.
KeepsEnd(os, s, b) ==
  Meets(os, s) = {} =>
    \A x \in Name : x # <<>> /\ IsSuffix(Slash \o x, s) /\ ~IsSuffix(DotEnd, Slash \o x) => IsSuffix(x, b)

LEMMA RelativeAbs ==
  ASSUME NEW os \in Systems, NEW cwd, CwdShape(os, cwd), NEW s \in Name, s # <<>> => ~Slashy(os, s[1])
  PROVE  LET w == WithCwd(cwd, s) b == OneSlash(os, Compressed(w))
         IN /\ w \in Name /\ Len(w) < AbsRoom(cwd, s)
            /\ b \in Name /\ AbsRooted(os, b)
            /\ Meets(os, s) = {} => Meets(os, b) \subseteq Meets(os, cwd)
            /\ KeepsEnd(os, s, b)
<1> DEFINE front == InFrontOf(cwd) w == front \o s a == Compressed(w) b == OneSlash(os, a)
           f == Len(front) n == Len(s)
<1>1. WithCwd(cwd, s) = w
  BY DEF WithCwd, InFrontOf
<1>2. /\ front \in Name /\ f \in Nat /\ f <= Len(cwd) + 1 /\ Len(cwd) \in Nat
      /\ front # <<>> /\ front[f] = "slash"
      /\ \/ os = "posix" /\ front[1] = "slash"
         \/ os = "w32" /\ f >= 4 /\ (front[1] = "slash" \/ OnDrive(front))
      /\ \/ OnRoot(os, front, cwd)
         \/ Meets(os, front) \subseteq Meets(os, cwd) /\ 3 \notin Meets(os, cwd)
  BY FrontIs
<1> HIDE DEF front
<1>3. /\ w \in Name /\ Len(w) = f + n /\ n \in Nat /\ f >= 1
      /\ \A i \in 1..f : w[i] = front[i]
      /\ \A i \in 1..n : w[f + i] = s[i]
  <2>1. f >= 1
    BY <1>2 DEF Name
  <2> QED BY <1>2, <2>1, BothAre
<1>4. Len(w) < AbsRoom(cwd, s)
  BY <1>2, <1>3 DEF AbsRoom
<1>5. ASSUME Meets(os, s) = {} PROVE Meets(os, w) \subseteq Meets(os, front)
  BY <1>2, <1>5, MeetsOfBoth
<1> HIDE DEF w
<1>6. /\ a \in Name /\ Len(a) <= Len(w) /\ \A i \in 1..Len(a) : a[i] = w[i]
      /\ Meets(os, a) \subseteq Meets(os, w)
      /\ \/ a = w
         \/ Len(w) > 2 /\ Len(a) = Len(w) - 2 /\ w[Len(w)] = "dot" /\ IsSuffix(DotEnd, w)
  BY <1>3, CompressedIs DEF DotEnd
<1>7. a = w \/ n >= 1
  <2>1. n = 0 => w[Len(w)] = "slash"
    <3>1. n = 0 => f \in 1..f /\ Len(w) = f
      BY <1>3
    <3> QED BY <1>2, <1>3, <3>1
  <2> QED BY <1>3, <1>6, <2>1
<1> HIDE DEF a
<1>8. Len(a) \in Nat /\ Len(a) >= 1 /\ (os = "w32" => Len(a) >= 3)
  <2>1. Len(a) \in Nat
    BY <1>6 DEF Name
  <2>2. CASE a = w
    BY <1>2, <1>3, <2>1, <2>2 DEF Systems
  <2>3. CASE Len(w) > 2 /\ Len(a) = Len(w) - 2 /\ n >= 1
    BY <1>2, <1>3, <2>1, <2>3 DEF Systems
  <2> QED BY <1>6, <1>7, <2>2, <2>3
<1>9. /\ b \in Name /\ \A i \in 1..3 : i <= Len(a) => i <= Len(b) /\ b[i] = a[i]
      /\ \/ b = a
         \/ Len(a) >= 4 /\ Len(b) = Len(a) - 1 /\ \A i \in 4..Len(b) : b[i] = a[i + 1]
  BY <1>6, OneSlashIs DEF SameFront
<1>10. (3 \notin Meets(os, a) => b = a) /\ (Meets(os, a) \subseteq {3} /\ b # a => Meets(os, b) = {})
  BY <1>6, OneSlashMeets
<1> HIDE DEF b
<1>11. \A i \in 1..3 : i <= Len(a) /\ i <= f => i <= Len(b) /\ b[i] = front[i]
  <2> SUFFICES ASSUME NEW i \in 1..3, i <= Len(a), i <= f PROVE i <= Len(b) /\ b[i] = front[i]
    OBVIOUS
  <2>1. i \in 1..Len(a) /\ i \in 1..f
    BY <1>2, <1>8
  <2> QED BY <1>3, <1>6, <1>9, <2>1
<1>12. AbsRooted(os, b)
  <2>1. CASE front[1] = "slash"
    <3>1. Len(b) >= 1 /\ b[1] = "slash"
      <4>1. 1 \in 1..3 /\ 1 <= Len(a) /\ 1 <= f
        BY <1>3, <1>8
      <4> QED BY <1>11, <2>1, <4>1
    <3>2. b # <<>>
      BY <3>1
    <3> QED BY <3>1, <3>2 DEF AbsRooted, Slashy
  <2>2. CASE os = "w32" /\ f >= 4 /\ OnDrive(front)
    <3>1. 2 \in 1..3 /\ 3 \in 1..3 /\ 2 <= Len(a) /\ 3 <= Len(a) /\ 2 <= f /\ 3 <= f
      BY <1>2, <1>8, <2>2
    <3>2. 3 <= Len(b) /\ b[2] = "colon" /\ b[3] = "slash"
      BY <1>11, <2>2, <3>1 DEF OnDrive
    <3>3. Len(b) > 2 /\ b # <<>>
      BY <1>9, <3>2 DEF Name
    <3> QED BY <2>2, <3>2, <3>3 DEF AbsRooted, Slashy
  <2> QED BY <1>2, <2>1, <2>2
<1>13. ASSUME Meets(os, s) = {} PROVE Meets(os, b) \subseteq Meets(os, cwd)
  <2>1. Meets(os, a) \subseteq Meets(os, front)
    BY <1>5, <1>6, <1>13
  <2>2. CASE Meets(os, front) \subseteq Meets(os, cwd) /\ 3 \notin Meets(os, cwd)
    BY <1>10, <2>1, <2>2
  <2>3. CASE OnRoot(os, front, cwd)
    <3>1. Meets(os, a) \subseteq {3}
      BY <2>1, <2>3 DEF OnRoot
    <3>2. CASE b # a
      BY <1>10, <3>1, <3>2
    <3>3. CASE b = a
      <4>1. ASSUME 3 \in Meets(os, a) PROVE FALSE
        <5>1. 3 \in 1..(Len(a) - 1)
          BY <4>1 DEF Meets
        <5>2. Len(a) >= 4
          BY <1>8, <5>1
        <5>3. 2 \in 1..Len(a) /\ 3 \in 1..Len(a) /\ 4 \in 1..Len(a) /\ 2 \in 1..f /\ 3 \in 1..f /\ 4 \in 1..f
          BY <1>8, <5>2, <2>3 DEF OnRoot
        <5>4. a[2] = "colon" /\ a[3] = "slash" /\ a[4] = "slash"
          BY <1>3, <1>6, <2>3, <5>3 DEF OnRoot, OnDrive
        <5>5. ~(os = "w32" /\ Len(a) >= 4 /\ a[2] = "colon" /\ a[3] = "slash" /\ a[4] = "slash")
          <6>1. Len(b) = Len(a)
            BY <3>3
          <6> QED BY <1>6, <1>8, <6>1, OneSlashIs DEF b
        <5> QED BY <2>3, <5>2, <5>4, <5>5 DEF OnRoot
      <4> QED BY <3>1, <3>3, <4>1
    <3> QED BY <3>2, <3>3
  <2> QED BY <1>2, <2>2, <2>3
<1>14. ASSUME Meets(os, s) = {}, NEW x \in Name, x # <<>>, IsSuffix(Slash \o x, s), ~IsSuffix(DotEnd, Slash \o x)
       PROVE  IsSuffix(x, b)
  <2>1. Slash \o x \in Name /\ Len(Slash \o x) = 1 + Len(x) /\ Len(x) \in Nat /\ Len(x) >= 1
    <3>1. Slash \o x \in Name /\ Len(Slash \o x) = Len(Slash) + Len(x) /\ Len(x) \in Nat
      BY SlashIsName, BothAre
    <3> QED BY <1>14, <3>1, SlashIsName DEF Name
  <2>2. IsSuffix(Slash \o x, w)
    BY <1>2, <1>14, <2>1, SuffixMore DEF w
  <2>3. a = w
    <3> SUFFICES ASSUME a # w PROVE FALSE
      OBVIOUS
    <3>1. IsSuffix(DotEnd, w) /\ w[Len(w)] = "dot" /\ Len(w) \in 1..Len(w)
      BY <1>3, <1>6
    <3>2. "dot" \in NameChar
      <4>1. w[Len(w)] \in NameChar
        BY <1>3, <3>1 DEF Name
      <4> QED BY <3>1, <4>1
    <3>3. DotEnd \in Name /\ Len(DotEnd) = 2
      BY <3>2, FileNamesAssumption DEF DotEnd, Name
    <3>4. Len(DotEnd) <= Len(Slash \o x)
      BY <2>1, <3>3
    <3>5. IsSuffix(DotEnd, Slash \o x)
      BY <1>3, <2>1, <2>2, <3>1, <3>3, <3>4, SuffixOfSuffix
    <3> QED BY <1>14, <3>5
  <2>4. IsSuffix(x, a) /\ Len(x) + 1 <= n
    BY <1>3, <1>6, <1>14, <2>2, <2>3, SuffixBehind
  <2>5. CASE b = a
    BY <2>4, <2>5
  <2>6. CASE b # a
    <3>1. Len(a) >= 4 /\ Len(b) = Len(a) - 1 /\ \A i \in 4..Len(b) : b[i] = a[i + 1]
      BY <1>9, <2>6
    <3>2. f = 4
      <4>1. 3 \in Meets(os, a)
        BY <1>10, <2>6
      <4>2. 3 \in Meets(os, front)
        BY <1>5, <1>6, <1>14, <4>1
      <4> QED BY <1>2, <4>2 DEF OnRoot
    <3>3. Len(x) <= Len(a) /\ \A i \in 1..Len(x) : x[i] = a[Len(a) - Len(x) + i]
      BY <1>6, <2>4, SuffixIs
    <3>4. Len(a) = 4 + n
      BY <1>3, <2>3, <3>2
    <3>5. ASSUME NEW i \in 1..Len(x) PROVE x[i] = b[Len(b) - Len(x) + i]
      <4> DEFINE k == Len(b) - Len(x) + i
      <4>1. k \in 4..Len(b) /\ k + 1 = Len(a) - Len(x) + i
        BY <1>3, <1>8, <2>1, <2>4, <3>1, <3>4
      <4>2. b[k] = a[k + 1]
        <5> HIDE DEF k
        <5> QED BY <3>1, <4>1
      <4> QED BY <3>3, <4>1, <4>2
    <3>6. Len(x) <= Len(b)
      BY <1>3, <2>1, <2>4, <3>1, <3>4
    <3> QED BY <1>9, <3>5, <3>6, SuffixIs
  <2> QED BY <2>5, <2>6
<1>15. KeepsEnd(os, s, b)
  BY <1>14 DEF KeepsEnd
<1> QED BY <1>1, <1>3, <1>4, <1>9, <1>12, <1>13, <1>15 DEF a, b

LEMMA DriveAdded ==
  ASSUME NEW cwd, CwdShape("w32", cwd), NEW s \in Name, s # <<>>, Slashy("w32", s[1]),
         <<NthOf(s, 1), NthOf(s, 2)>> # <<"slash", "slash">>, NthOf(cwd, 2) = "colon"
  PROVE  LET a == SubSeq(cwd, 1, 2) \o s
         IN /\ a \in Name /\ OneSlash("w32", a) = a /\ AbsRooted("w32", a)
            /\ Meets("w32", s) = {} => Meets("w32", a) = {}
            /\ KeepsEnd("w32", s, a)
<1> DEFINE tip == SubSeq(cwd, 1, 2) a == tip \o s n == Len(s)
<1>1. cwd \in Name /\ Len(cwd) \in Nat /\ Len(cwd) > 2 /\ cwd[2] = "colon"
  <2>1. cwd \in Name /\ Len(cwd) > 2
    BY DEF CwdShape
  <2> QED BY <2>1 DEF NthOf, Name
<1>2. tip = [i \in 1..2 |-> cwd[i]]
  BY <1>1 DEF Name
<1>3. cwd[1] \in NameChar /\ cwd[2] \in NameChar
  BY <1>1 DEF Name
<1> HIDE DEF tip
<1>4. tip \in [1..2 -> NameChar] /\ tip[2] = "colon"
  <2>1. \A i \in 1..2 : cwd[i] \in NameChar
    <3>1. \A i \in 1..2 : i = 1 \/ i = 2
      OBVIOUS
    <3> QED BY <1>3, <3>1
  <2> QED BY <1>1, <1>2, <2>1
<1>5. tip \in Name /\ Len(tip) = 2
  BY <1>4, NameOf
<1>6. /\ a \in Name /\ Len(a) = 2 + n /\ n \in Nat /\ n >= 1
      /\ \A i \in 1..2 : a[i] = tip[i]
      /\ \A i \in 1..n : a[2 + i] = s[i]
  <2>1. n >= 1 /\ n \in Nat
    BY DEF Name
  <2>2. /\ a \in Name /\ Len(a) = Len(tip) + n
        /\ \A i \in 1..Len(tip) : a[i] = tip[i]
        /\ \A i \in 1..n : a[Len(tip) + i] = s[i]
    BY <1>5, BothAre
  <2> QED BY <1>5, <2>1, <2>2
<1>7. a[2] = "colon" /\ a[3] = s[1] /\ (n >= 2 => a[4] = s[2])
  <2>1. 1 \in 1..n /\ 2 + 1 = 3 /\ 2 + 2 = 4 /\ 2 \in 1..2 /\ (n >= 2 => 2 \in 1..n)
    BY <1>6
  <2> QED BY <1>4, <1>6, <2>1
<1>8. Meets("w32", tip) = {}
  <2>1. ASSUME NEW k \in Meets("w32", tip) PROVE FALSE
    <3>1. k = 1 /\ Slashy("w32", tip[k + 1]) /\ 1 + 1 = 2
      BY <1>5, <2>1 DEF Meets
    <3>2. Slashy("w32", tip[2])
      BY <3>1
    <3> QED BY <1>4, <3>2 DEF Slashy
  <2> QED BY <2>1
<1>9. Meets("w32", s) = {} => Meets("w32", a) = {}
  <2>1. ~Slashy("w32", tip[Len(tip)])
    BY <1>4, <1>5 DEF Slashy
  <2> QED BY <1>5, <1>8, <2>1, MeetsOfBoth
<1>10. KeepsEnd("w32", s, a)
  <2> SUFFICES ASSUME NEW x \in Name, IsSuffix(Slash \o x, s) PROVE IsSuffix(x, a)
    BY DEF KeepsEnd
  <2>1. IsSuffix(x, s)
    BY SuffixBehind
  <2> QED BY <1>5, <2>1, SuffixMore
<1> HIDE DEF a
<1>11. OneSlash("w32", a) = a
  <2>1. ~(Len(a) >= 4 /\ a[3] = "slash" /\ a[4] = "slash")
    <3>1. ASSUME Len(a) >= 4, a[3] = "slash", a[4] = "slash" PROVE FALSE
      <4>1. n >= 2
        BY <1>6, <3>1
      <4>2. NthOf(s, 1) = "slash" /\ NthOf(s, 2) = "slash"
        BY <1>6, <1>7, <3>1, <4>1 DEF NthOf
      <4> QED BY <4>2
    <3> QED BY <3>1
  <2> QED BY <1>6, <2>1, OneSlashIs
<1>12. AbsRooted("w32", a)
  <2>1. Len(a) > 2 /\ a # <<>> /\ Slashy("w32", a[3])
    BY <1>6, <1>7 DEF Name
  <2> QED BY <1>7, <2>1 DEF AbsRooted
<1> QED BY <1>6, <1>9, <1>10, <1>11, <1>12 DEF a, tip

LEMMA AbsoluteIs ==
  ASSUME NEW os \in Systems, NEW cwd, CwdShape(os, cwd), NEW s \in Name, ~OddDrive(os, s)
  PROVE  LET b == OneSlash(os, Absolute(os, s, cwd))
         IN /\ b \in Name /\ AbsRooted(os, b)
            /\ Meets(os, s) = {} => Meets(os, b) \subseteq Meets(os, cwd)
            /\ KeepsEnd(os, s, b)
            /\ Relative(os, s) => Len(InCwd(os, s, cwd)) < AbsRoom(cwd, s)
<1> DEFINE a == Absolute(os, s, cwd)
           added == /\ os = "w32" /\ s # <<>> /\ NthOf(s, 2) # "colon"
                    /\ <<NthOf(s, 1), NthOf(s, 2)>> \notin {<<"slash", "slash">>, <<"bslash", "bslash">>}
                    /\ NthOf(cwd, 2) = "colon"
<1>1. CASE Relative(os, s)
  <2>1. AfterDrive(os, s) = 1 /\ (s # <<>> => ~Slashy(os, s[1]))
    BY <1>1, DriveIs
  <2>2. InCwd(os, s, cwd) = WithCwd(cwd, s)
    BY <2>1 DEF InCwd
  <2>3. a = Compressed(WithCwd(cwd, s))
    BY <1>1, <2>2 DEF Absolute
  <2> HIDE DEF a
  <2> DEFINE b == OneSlash(os, a)
  <2>4. /\ Len(WithCwd(cwd, s)) < AbsRoom(cwd, s)
        /\ b \in Name /\ AbsRooted(os, b)
        /\ Meets(os, s) = {} => Meets(os, b) \subseteq Meets(os, cwd)
        /\ KeepsEnd(os, s, b)
    BY <2>1, <2>3, RelativeAbs
  <2> QED BY <2>2, <2>4 DEF a
<1>2. CASE ~Relative(os, s)
  <2>1. /\ s # <<>>
        /\ Slashy(os, s[1]) \/ (os = "w32" /\ Len(s) > 2 /\ s[2] = "colon" /\ Slashy(os, s[3]))
        /\ os = "w32" /\ NthOf(s, 2) # "colon" => Slashy(os, s[1])
    BY <1>2, DriveIs
  <2>2. CASE added
    <3>1. a = SubSeq(cwd, 1, 2) \o s
      BY <1>2, <2>2 DEF Absolute
    <3>2. os = "w32" /\ Slashy("w32", s[1]) /\ <<NthOf(s, 1), NthOf(s, 2)>> # <<"slash", "slash">>
          /\ NthOf(cwd, 2) = "colon" /\ CwdShape("w32", cwd)
      BY <2>1, <2>2
    <3>3. /\ a \in Name /\ OneSlash("w32", a) = a /\ AbsRooted("w32", a)
          /\ Meets("w32", s) = {} => Meets("w32", a) = {}
          /\ KeepsEnd("w32", s, a)
      BY <2>1, <3>1, <3>2, DriveAdded
    <3> HIDE DEF a
    <3>4. OneSlash(os, a) = a
      BY <3>2, <3>3
    <3> QED BY <1>2, <3>2, <3>3, <3>4 DEF a
  <2>3. CASE ~added
    <3>1. a = s
      <4>1. ~(os = "w32" /\ s # <<>> /\ NthOf(s, 2) # "colon"
              /\ <<NthOf(s, 1), NthOf(s, 2)>> \notin {<<"slash", "slash">>, <<"bslash", "bslash">>})
            \/ NthOf(cwd, 2) # "colon"
        BY <2>3
      <4> QED BY <1>2, <4>1 DEF Absolute
    <3> DEFINE b == OneSlash(os, s)
    <3>2. b \in Name /\ SameFront(s, b) /\ (3 \notin Meets(os, s) => b = s)
      BY OneSlashIs, OneSlashMeets
    <3> HIDE DEF b
    <3>3. AbsRooted(os, b)
      <4>1. Len(s) >= 1 /\ Len(s) \in Nat /\ Len(b) \in Nat
        BY <2>1, <3>2 DEF Name
      <4>2. 1 <= Len(b) /\ b[1] = s[1]
        <5>1. 1 \in 1..3 /\ 1 <= Len(s)
          BY <4>1
        <5> QED BY <3>2, <5>1 DEF SameFront
      <4>3. Len(s) > 2 => Len(b) > 2 /\ b[2] = s[2] /\ b[3] = s[3]
        <5>1. Len(s) > 2 => 2 \in 1..3 /\ 3 \in 1..3 /\ 2 <= Len(s) /\ 3 <= Len(s)
          BY <4>1
        <5>2. Len(s) > 2 => 3 <= Len(b) /\ b[2] = s[2] /\ b[3] = s[3]
          BY <3>2, <5>1 DEF SameFront
        <5> QED BY <4>1, <5>2
      <4>4. b # <<>>
        BY <4>2 DEF Name
      <4> QED BY <2>1, <4>2, <4>3, <4>4 DEF AbsRooted
    <3>4. Meets(os, s) = {} => b = s
      BY <3>2
    <3>5. KeepsEnd(os, s, b)
      <4> SUFFICES ASSUME Meets(os, s) = {}, NEW x \in Name, IsSuffix(Slash \o x, s) PROVE IsSuffix(x, b)
        BY DEF KeepsEnd
      <4>1. b = s
        BY <3>4
      <4>2. IsSuffix(x, s)
        BY SuffixBehind
      <4> QED BY <4>1, <4>2
    <3>6. Meets(os, s) = {} => Meets(os, b) \subseteq Meets(os, cwd)
      BY <3>4
    <3>7. OneSlash(os, a) = b
      BY <3>1 DEF b
    <3> HIDE DEF a
    <3> QED BY <1>2, <3>2, <3>3, <3>5, <3>6, <3>7 DEF a
  <2> QED BY <2>2, <2>3
<1> QED BY <1>1, <1>2

LEMMA RootedIs ==
  ASSUME NEW os \in Systems, NEW b \in Name, AbsRooted(os, b) PROVE Rooted(os, Slashes(os, b))
<1> DEFINE r == Slashes(os, b)
<1>1. /\ Len(r) = Len(b) /\ Len(b) \in Nat /\ Len(b) >= 1
      /\ \A i \in 1..Len(b) : /\ r[i] = IF os = "w32" /\ b[i] = "bslash" THEN "slash" ELSE b[i]
                              /\ r[i] = "slash" <=> Slashy(os, b[i])
  <2>1. Len(b) \in Nat /\ Len(b) >= 1
    BY DEF AbsRooted, Name
  <2> QED BY <2>1, SlashesIs
<1> HIDE DEF r
<1>2. 1 \in 1..Len(b) /\ (Len(b) > 2 => 2 \in 1..Len(b) /\ 3 \in 1..Len(b))
  BY <1>1
<1>3. NthOf(r, 1) = r[1] /\ (Len(b) > 2 => NthOf(r, 2) = r[2] /\ NthOf(r, 3) = r[3])
  BY <1>1 DEF NthOf
<1> QED BY <1>1, <1>2, <1>3 DEF AbsRooted, Rooted, r

LEMMA SlashedSuffix ==
  ASSUME NEW os, NEW s \in Name, NEW x \in Name, IsSuffix(x, s) PROVE IsSuffix(Slashes(os, x), Slashes(os, s))
<1> DEFINE u == Slashes(os, x) r == Slashes(os, s) k == Len(x) n == Len(s)
<1>1. k \in Nat /\ n \in Nat
  BY DEF Name
<1>2. k <= n /\ \A i \in 1..k : x[i] = s[n - k + i]
  BY SuffixIs
<1>3. u \in Name /\ Len(u) = k /\ \A i \in 1..k : u[i] = IF os = "w32" /\ x[i] = "bslash" THEN "slash" ELSE x[i]
  BY SlashesIs
<1>4. r \in Name /\ Len(r) = n /\ \A i \in 1..n : r[i] = IF os = "w32" /\ s[i] = "bslash" THEN "slash" ELSE s[i]
  BY SlashesIs
<1> HIDE DEF u, r, k, n
<1>5. ASSUME NEW i \in 1..k PROVE u[i] = r[n - k + i]
  <2>1. n - k + i \in 1..n
    BY <1>1, <1>2
  <2> QED BY <1>2, <1>3, <1>4, <2>1
<1>6. IsSuffix(u, r)
  BY <1>2, <1>3, <1>4, <1>5, SuffixIs
<1> QED BY <1>6 DEF u, r

\* What vfnameconcat returns.
ConcatSound(os, flags, first, more, home, sysdir, dir) ==
  LET whole == Whole(flags, first, more, home, sysdir)
      cwd == Getcwd(os, dir)
      name == Slashes(os, IF "ABS" \in flags THEN OneSlash(os, Absolute(os, whole, cwd)) ELSE whole)
      last == more[Len(more)]
  IN /\ Len(whole) < NameRoom(PrefixOf(flags, first, home, sysdir), first, more)
     /\ "ABS" \in flags /\ Relative(os, whole) => Len(InCwd(os, whole, cwd)) < AbsRoom(cwd, whole)
     /\ "ABS" \in flags => Rooted(os, name)
     /\ NeatParts(os, flags, first, more, home, sysdir) =>
          /\ Doubles(name) \subseteq (IF "ABS" \in flags THEN Doubles(cwd) ELSE {})
          /\ more # <<>> /\ ~IsSuffix(DotEnd, Slash \o last) => IsSuffix(Slashes(os, last), name)
LEMMA FullNameIs ==
  ASSUME NEW os \in Systems, NEW flags, NEW first, NEW more, NEW home, NEW sysdir, NEW dir \in Cwds[os],
         NameTypes(first, more, home, sysdir), "ABS" \in flags => ~OddDrive(os, Whole(flags, first, more, home, sysdir))
  PROVE  ConcatSound(os, flags, first, more, home, sysdir, dir)
<1> DEFINE whole == Whole(flags, first, more, home, sysdir)
           cwd == Getcwd(os, dir)
           b == IF "ABS" \in flags THEN OneSlash(os, Absolute(os, whole, cwd)) ELSE whole
           name == Slashes(os, b)
           last == more[Len(more)]
           neat == NeatParts(os, flags, first, more, home, sysdir)
           room == NameRoom(PrefixOf(flags, first, home, sysdir), first, more)
<1>1. /\ whole \in Name /\ Len(whole) < room
      /\ neat => Meets(os, whole) = {}
      /\ more # <<>> => IsSuffix(Slash \o last, whole)
  BY WholeIs
<1>2. CwdShape(os, cwd)
  BY CwdIs
<1> HIDE DEF whole, cwd, neat, room
<1> DEFINE good == /\ Len(whole) < room
                   /\ "ABS" \in flags /\ Relative(os, whole) => Len(InCwd(os, whole, cwd)) < AbsRoom(cwd, whole)
                   /\ "ABS" \in flags => Rooted(os, name)
                   /\ neat => /\ Doubles(name) \subseteq (IF "ABS" \in flags THEN Doubles(cwd) ELSE {})
                              /\ more # <<>> /\ ~IsSuffix(DotEnd, Slash \o last) => IsSuffix(Slashes(os, last), name)
<1>3. ASSUME "ABS" \in flags PROVE good
  <2>1. ~OddDrive(os, whole) /\ b = OneSlash(os, Absolute(os, whole, cwd))
    BY <1>3 DEF whole
  <2>2. /\ b \in Name /\ AbsRooted(os, b)
        /\ Meets(os, whole) = {} => Meets(os, b) \subseteq Meets(os, cwd)
        /\ KeepsEnd(os, whole, b)
        /\ Relative(os, whole) => Len(InCwd(os, whole, cwd)) < AbsRoom(cwd, whole)
    BY <1>1, <1>2, <2>1, AbsoluteIs
  <2>3. Meets(os, cwd) = Doubles(cwd)
    BY <1>2 DEF CwdShape
  <2> HIDE DEF b
  <2>4. Rooted(os, name)
    BY <2>2, RootedIs
  <2>5. neat => Doubles(name) \subseteq Doubles(cwd)
    BY <1>1, <2>2, <2>3, DoublesAre
  <2>6. ASSUME neat, more # <<>>, ~IsSuffix(DotEnd, Slash \o last) PROVE IsSuffix(Slashes(os, last), name)
    <3>1. last \in Name /\ last # <<>>
      <4>1. Len(more) \in 1..Len(more) /\ more \in Seq(Name)
        BY <2>6 DEF NameTypes
      <4> QED BY <2>6, <4>1 DEF neat, NeatParts, NeatPart
    <3> HIDE DEF last
    <3>2. IsSuffix(last, b)
      BY <1>1, <2>2, <2>6, <3>1 DEF KeepsEnd
    <3> QED BY <2>2, <3>1, <3>2, SlashedSuffix
  <2> HIDE DEF last, name
  <2> QED BY <1>1, <1>3, <2>2, <2>4, <2>5, <2>6
<1>4. ASSUME "ABS" \notin flags PROVE good
  <2>1. b = whole
    BY <1>4
  <2> HIDE DEF b
  <2>2. neat => Doubles(name) = {}
    BY <1>1, <2>1, DoublesAre
  <2>3. ASSUME neat, more # <<>> PROVE IsSuffix(Slashes(os, last), name)
    <3>1. last \in Name
      <4>1. Len(more) \in 1..Len(more) /\ more \in Seq(Name)
        BY <2>3 DEF NameTypes
      <4> QED BY <4>1
    <3> HIDE DEF last
    <3>2. IsSuffix(last, whole)
      BY <1>1, <2>3, <3>1, SuffixBehind
    <3> QED BY <1>1, <2>1, <3>1, <3>2, SlashedSuffix
  <2> HIDE DEF last, name
  <2> QED BY <1>1, <1>4, <2>2, <2>3
<1>5. good
  <2> HIDE DEF good
  <2> QED BY <1>3, <1>4
<1> HIDE DEF b, name, last
<1> QED BY <1>5, Zenon DEF ConcatSound, whole, cwd, b, name, neat, room, last

\* A name without the slashes at its end, down to one character.
LEMMA KeptIs ==
  ASSUME NEW s \in Name, s # <<>>
  PROVE  LET r == SubSeq(s, 1, LastKept(s)) IN Len(r) <= 1 \/ Last(r) # "slash"
<1> DEFINE n == Len(s) K == {k \in 1..n : \A i \in (k + 1)..n : s[i] = "slash"}
<1>1. n \in Nat /\ n >= 1 /\ \A i \in 1..n : s[i] \in NameChar
  BY DEF Name
<1> HIDE DEF n
<1>2. n \in K /\ K \subseteq Nat
  BY <1>1
<1>3. PICK k \in K : \A m \in K : k <= m
  <2> HIDE DEF K
  <2> QED BY <1>2, Least
<1>4. k = 1 \/ s[k] # "slash"
  <2> SUFFICES ASSUME k # 1, s[k] = "slash" PROVE FALSE
    OBVIOUS
  <2>1. k - 1 \in 1..n /\ k \in 1..n
    BY <1>1
  <2>2. ASSUME NEW i \in (k - 1 + 1)..n PROVE s[i] = "slash"
    <3>1. i = k \/ i \in (k + 1)..n
      BY <1>1, <2>1
    <3> QED BY <3>1
  <2>3. k - 1 \in K
    BY <2>1, <2>2
  <2> HIDE DEF K
  <2> QED BY <1>1, <1>3, <2>1, <2>3
<1> DEFINE CutsAt(m) == (m = 1 \/ s[m] # "slash") /\ \A i \in (m + 1)..n : s[i] = "slash"
           l == CHOOSE m \in 1..n : CutsAt(m)
<1>5. \E m \in 1..n : CutsAt(m)
  BY <1>4
<1>6. LastKept(s) = l
  BY DEF LastKept, n
<1>7. l \in 1..n /\ CutsAt(l)
  <2> HIDE DEF CutsAt
  <2> QED BY <1>5
<1> HIDE DEF l
<1>8. SubSeq(s, 1, l) = [i \in 1..l |-> s[i]]
  BY <1>1, <1>7 DEF Name
<1>9. Len(SubSeq(s, 1, l)) = l /\ Last(SubSeq(s, 1, l)) = s[l]
  <2> DEFINE r == SubSeq(s, 1, l)
  <2>1. \A i \in 1..l : i \in 1..n
    BY <1>1, <1>7
  <2>2. r \in [1..l -> NameChar] /\ l \in Nat /\ l \in 1..l
    <3>1. [i \in 1..l |-> s[i]] \in [1..l -> NameChar]
      BY <1>1, <2>1
    <3>2. l \in Nat /\ l \in 1..l
      BY <1>1, <1>7
    <3> QED BY <1>8, <3>1, <3>2
  <2>3. r[l] = s[l]
    BY <1>8, <2>2
  <2> HIDE DEF r
  <2>4. Len(r) = l
    BY <2>2, NameOf
  <2> QED BY <2>3, <2>4 DEF Last, r
<1> QED BY <1>6, <1>7, <1>9

LEMMA AlwaysIs == ASSUME NEW start \in Name, NEW more \in Seq(Name) PROVE JoinedAlways(start, more) \in Name
<1> DEFINE N == Len(more) r == JoinedAlways(start, more)
<1>1. N \in Nat /\ DOMAIN more = 1..N /\ \A i \in 1..N : more[i] \in Name
  OBVIOUS
<1> HIDE DEF N, r
<1>2. Stepwise(NameFold, start, more, N, r)
  BY <1>1, NameStepwise DEF r
<1>3. PICK h : h[0] = start /\ h[N] = r /\ \A n \in 0..(N - 1) : h[n + 1] = FoldStep(NameFold, h[n], more[n + 1])
  BY <1>2 DEF Stepwise
<1> DEFINE T == {n \in Nat : n <= N => h[n] \in Name}
<1>4. 0 \in T
  BY <1>3
<1>5. ASSUME NEW n \in Nat, n \in T PROVE n + 1 \in T
  <2> SUFFICES ASSUME n + 1 <= N PROVE h[n + 1] \in Name
    OBVIOUS
  <2> DEFINE x == more[n + 1] s == h[n]
  <2>1. n \in 0..(N - 1) /\ n + 1 \in 1..N /\ s \in Name
    BY <1>1, <1>5
  <2>2. x \in Name /\ h[n + 1] = FoldStep(NameFold, s, x)
    BY <1>1, <1>3, <2>1
  <2> HIDE DEF x, s
  <2>3. FoldStep(NameFold, s, x) = s \o Slash \o x
    BY DEF FoldStep, NameFold, FoldOver
  <2>4. s \o Slash \o x \in Name
    BY <2>1, <2>2, PartAdded
  <2> QED BY <2>2, <2>3, <2>4
<1> HIDE DEF T
<1>6. N \in T
  BY <1>1, <1>4, <1>5, Induction
<1> QED BY <1>1, <1>3, <1>6 DEF T, r

\* What a call has built.
FromConcat(j) ==
  \E os \in Systems, flags \in SUBSET {"TILDE", "ABS", "SYSCONF"}, first \in FirstParts,
     more \in MoreParts, home \in Homes :
  \E sysdir \in SysDirs[os], cwd \in Cwds[os] :
    \E told0 \in {vfnameconcat(os, flags, first, more, home, sysdir, cwd), NoName("ENOMEM")} :
      j = [op |-> "concat", os |-> os, flags |-> flags, first |-> first, more |-> more,
           home |-> home, sysdir |-> sysdir, cwd |-> cwd, got |-> told0]
FromConfdir(j) ==
  \E os \in Systems, first \in FirstParts, more \in MoreParts :
    j = [NoJoin EXCEPT !.op = "confdir", !.os = os, !.first = JoinedAlways(first, more),
           !.got = [errno |-> "none", name |-> set_confdir(os, JoinedAlways(first, more)), fits |-> TRUE]]
BuiltBy(j) == j = NoJoin \/ FromConcat(j) \/ FromConfdir(j)
NameBuilt == BuiltBy(joined)
WideType ==
  wide \in [at : {"none", "full", "done"}, disabled : BOOLEAN, translated : BOOLEAN, separator : BOOLEAN,
            len : Nat, unc : BOOLEAN, full : Nat, room : Nat,
            wname : {"name", "full", "ext", "ext_unc"} \X Nat \cup {<<>>},
            result : {"none", "ok", "error", "ENAMETOOLONG"}]
WideInv == WideType /\ (wide.at = "full" => wide.result = "none") /\ WideExact

LEMMA WideStays == ASSUME WideInv, FileNamesNext PROVE WideInv'
<1>1. CASE Concat \/ SetConfdir
  BY <1>1 DEF Concat, SetConfdir, WideInv, WideType, WideExact
<1>2. CASE WideStarts
  <2>1. PICK disabled \in BOOLEAN, translated \in BOOLEAN, separator \in BOOLEAN, unc \in BOOLEAN,
             len \in PathLens, full \in PathLens :
          /\ len <= full /\ (unc \/ translated => separator)
          /\ wide' = [at |-> IF ~disabled /\ ~translated /\ (separator \/ len > ShortName) THEN "full" ELSE "done",
                   disabled |-> disabled, translated |-> translated, separator |-> separator, len |-> len,
                   unc |-> unc, full |-> full, room |-> FirstLen, wname |-> <<"name", len>>,
                   result |-> IF ~disabled /\ ~translated /\ (separator \/ len > ShortName) THEN "none" ELSE "ok"]
    BY <1>2 DEF WideStarts
  <2>2. len \in Nat /\ full \in Nat /\ FirstLen \in Nat
    BY FileNamesAssumption
  <2>3. <<"name", len>> \in {"name", "full", "ext", "ext_unc"} \X Nat
    BY <2>2
  <2>4. WideType'
    BY <2>1, <2>2, <2>3 DEF WideType
  <2>5. wide'.wname = <<"name", len>> /\ (wide'.at = "full" => wide'.result = "none")
    BY <2>1
  <2>6. WideExact'
    BY <2>5 DEF WideExact
  <2> QED BY <2>4, <2>5, <2>6 DEF WideInv
<1>3. CASE Chdir
  <2>1. PICK full \in PathLens : wide.at = "full" /\ wide' = [wide EXCEPT !.full = full]
    BY <1>3 DEF Chdir
  <2>2. full \in Nat
    BY FileNamesAssumption
  <2>3. WideType'
    BY <2>1, <2>2 DEF WideInv, WideType
  <2>4. wide'.result = "none"
    BY <2>1 DEF WideInv, WideType
  <2> QED BY <2>3, <2>4 DEF WideInv, WideExact
<1>4. CASE GetFullPathName
  <2>0. wide.at = "full" /\ wide.result = "none" /\ WideType
    BY <1>4 DEF GetFullPathName, WideInv
  <2>1. CASE wide' = [wide EXCEPT !.at = "done", !.result = "error"] \/ wide' = [wide EXCEPT !.at = "done", !.result = "ENAMETOOLONG"]
    BY <2>0, <2>1 DEF WideInv, WideType, WideExact
  <2>2. CASE ~NeedsMore(wide) /\ wide' = [wide EXCEPT !.at = "done", !.result = "ok", !.wname = Extended(wide)]
    <3> DEFINE e == Extended(wide)
    <3>1. wide.full \in Nat /\ wide.room \in Nat /\ wide.full < wide.room /\ ExtLimit \in Nat
      BY <2>0, <2>2, FileNamesAssumption DEF WideType, NeedsMore
    <3>2. /\ e \in {"name", "full", "ext", "ext_unc"} \X Nat /\ (e[1] = "full" <=> wide.full < ExtLimit)
          /\ e[2] < wide.room + 8
      <4>1. CASE wide.full < ExtLimit
        BY <3>1, <4>1 DEF Extended
      <4>2. CASE ~(wide.full < ExtLimit) /\ wide.unc
        BY <3>1, <4>2 DEF Extended
      <4>3. CASE ~(wide.full < ExtLimit) /\ ~wide.unc
        BY <3>1, <4>3 DEF Extended
      <4> QED BY <4>1, <4>2, <4>3
    <3> HIDE DEF e
    <3>3. wide' = [wide EXCEPT !.at = "done", !.result = "ok", !.wname = e]
      BY <2>2 DEF e
    <3>4. wide'.wname = e /\ wide'.full = wide.full /\ wide'.room = wide.room /\ wide'.at = "done"
      BY <2>0, <3>3 DEF WideType
    <3>5. WideType'
      BY <2>0, <3>2, <3>3 DEF WideType
    <3>6. WideExact'
      BY <3>2, <3>4 DEF WideExact
    <3> QED BY <3>4, <3>5, <3>6 DEF WideInv
  <2>3. CASE wide' = [wide EXCEPT !.room = wide.full + 1]
    BY <2>0, <2>3 DEF WideInv, WideType, WideExact
  <2> QED BY <1>4, <2>1, <2>2, <2>3 DEF GetFullPathName
<1> QED BY <1>1, <1>2, <1>3, <1>4 DEF FileNamesNext

\* The clean parts of a call are neat.
LEMMA PartsNeat ==
  ASSUME NEW os, NEW flags, NEW first, NEW more, NEW home, NEW sysdir, NEW dir, NEW told0,
         NameTypes(first, more, home, sysdir),
         PartsClean([op |-> "concat", os |-> os, flags |-> flags, first |-> first, more |-> more,
                     home |-> home, sysdir |-> sysdir, cwd |-> dir, got |-> told0])
  PROVE  NeatParts(os, flags, first, more, home, sysdir)
<1>1. first \in Name /\ more \in Seq(Name) /\ home \in Name \cup {NoHome} /\ sysdir \in Name
  BY DEF NameTypes
<1>2. /\ \A x \in ToSet(more) : BarePart(Slashes(os, x))
      /\ IF first = Slash THEN "SYSCONF" \notin flags ELSE Clean(Slashes(os, first))
      /\ home # NoHome => Clean(Slashes(os, home))
      /\ "SYSCONF" \in flags =>
           /\ first # <<>> /\ Clean(Slashes(os, sysdir))
           /\ NthOf(Slashes(os, first), 1) = "slash" => NthOf(first, 1) = "slash"
  BY DEF PartsClean
<1>3. ASSUME NEW i \in 1..Len(more) PROVE NeatPart(os, more[i])
  <2>1. more[i] \in Name /\ more[i] \in ToSet(more)
    BY <1>1 DEF ToSet
  <2> QED BY <1>2, <2>1, CleanIs
<1>4. IF first = Slash THEN "SYSCONF" \notin flags ELSE Neat(os, first)
  BY <1>1, <1>2, CleanIs
<1>5. home # NoHome => Neat(os, home)
  <2>1. home # NoHome => home \in Name
    BY <1>1
  <2> QED BY <1>2, <2>1, CleanIs
<1>6. "SYSCONF" \in flags => Neat(os, sysdir)
  BY <1>1, <1>2, CleanIs
<1>7. ASSUME "SYSCONF" \in flags, Slashy(os, first[1]) PROVE first[1] = "slash"
  <2>1. 1 \in 1..Len(first) /\ Len(first) \in Nat /\ 1 <= Len(first)
    BY <1>1, <1>2, <1>7 DEF Name
  <2>2. Len(Slashes(os, first)) = Len(first) /\ Slashes(os, first)[1] = "slash"
    BY <1>1, <1>7, <2>1, SlashesIs
  <2>3. NthOf(Slashes(os, first), 1) = "slash"
    BY <2>1, <2>2 DEF NthOf
  <2>4. NthOf(first, 1) = first[1]
    BY <2>1 DEF NthOf
  <2> QED BY <1>2, <1>7, <2>3, <2>4
<1> QED BY <1>2, <1>3, <1>4, <1>5, <1>6, <1>7 DEF NeatParts, NeatStart

LEMMA BuiltExact == NameBuilt => JoinExact
<1> SUFFICES ASSUME NameBuilt PROVE JoinExact
  OBVIOUS
<1>1. CASE joined = NoJoin
  <2>1. joined.op = "none"
    BY <1>1 DEF NoJoin
  <2> QED BY <2>1 DEF JoinExact
<1>2. ASSUME NEW os \in Systems, NEW flags \in SUBSET {"TILDE", "ABS", "SYSCONF"}, NEW first \in FirstParts,
             NEW more \in MoreParts, NEW home \in Homes, NEW sysdir \in SysDirs[os], NEW cwd \in Cwds[os],
             NEW told0 \in {vfnameconcat(os, flags, first, more, home, sysdir, cwd), NoName("ENOMEM")},
             joined = [op |-> "concat", os |-> os, flags |-> flags, first |-> first, more |-> more,
                       home |-> home, sysdir |-> sysdir, cwd |-> cwd, got |-> told0]
      PROVE  JoinExact
  <2> DEFINE whole == Whole(flags, first, more, home, sysdir)
             name == Slashes(os, IF "ABS" \in flags THEN OneSlash(os, Absolute(os, whole, Getcwd(os, cwd))) ELSE whole)
             fits == /\ Len(whole) < NameRoom(PrefixOf(flags, first, home, sysdir), first, more)
                     /\ "ABS" \in flags /\ Relative(os, whole) =>
                          Len(InCwd(os, whole, Getcwd(os, cwd))) < AbsRoom(Getcwd(os, cwd), whole)
  <2>1. /\ joined.op = "concat" /\ joined.os = os /\ joined.flags = flags /\ joined.first = first
        /\ joined.more = more /\ joined.home = home /\ joined.sysdir = sysdir /\ joined.cwd = cwd
        /\ joined.got = told0
    BY <1>2
  <2>2. NameTypes(first, more, home, sysdir)
    <3>1. sysdir \in Name
      BY FileNamesAssumption DEF Systems, Name
    <3> QED BY <3>1, FileNamesAssumption DEF NameTypes, Name
  <2> SUFFICES ASSUME told0.errno = "none", "ABS" \in flags => ~OddDrive(os, whole)
               PROVE  /\ told0.fits
                      /\ "ABS" \in flags => Rooted(os, told0.name)
                      /\ PartsClean(joined) =>
                           /\ Doubles(told0.name) \subseteq IF "ABS" \in flags THEN Doubles(Getcwd(os, cwd)) ELSE {}
                           /\ more # <<>> /\ ~IsSuffix(<<"slash", "dot">>, Slash \o Last(more)) =>
                                IsSuffix(Slashes(os, Last(more)), told0.name)
    <3> HIDE DEF name, fits
    <3> QED BY <2>1 DEF JoinExact
  <2>3. told0 = [errno |-> "none", name |-> name, fits |-> fits]
    <3>1. NoName("ENOMEM").errno = "ENOMEM" /\ NoName("EINVAL").errno = "EINVAL"
      BY DEF NoName
    <3>2. vfnameconcat(os, flags, first, more, home, sysdir, cwd) =
            IF Len(more) >= NamesDim THEN NoName("EINVAL") ELSE [errno |-> "none", name |-> name, fits |-> fits]
      BY DEF vfnameconcat
    <3> HIDE DEF name, fits
    <3> QED BY <3>1, <3>2
  <2>4. ConcatSound(os, flags, first, more, home, sysdir, cwd)
    BY <2>2, FullNameIs
  <2>5. /\ fits
        /\ "ABS" \in flags => Rooted(os, name)
        /\ NeatParts(os, flags, first, more, home, sysdir) =>
             /\ Doubles(name) \subseteq (IF "ABS" \in flags THEN Doubles(Getcwd(os, cwd)) ELSE {})
             /\ more # <<>> /\ ~IsSuffix(DotEnd, Slash \o more[Len(more)]) => IsSuffix(Slashes(os, more[Len(more)]), name)
    BY <2>4 DEF ConcatSound
  <2>6. told0.name = name /\ told0.fits
    <3> HIDE DEF name, fits
    <3> QED BY <2>3, <2>5
  <2>7. PartsClean(joined) => NeatParts(os, flags, first, more, home, sysdir)
    BY <1>2, <2>2, PartsNeat
  <2>8. Last(more) = more[Len(more)] /\ DotEnd = <<"slash", "dot">>
    BY DEF Last, DotEnd
  <2> HIDE DEF name, fits, whole
  <2> QED BY <2>5, <2>6, <2>7, <2>8
<1>3. ASSUME NEW os \in Systems, NEW first \in FirstParts, NEW more \in MoreParts,
             joined = [NoJoin EXCEPT !.op = "confdir", !.os = os, !.first = JoinedAlways(first, more),
                         !.got = [errno |-> "none", name |-> set_confdir(os, JoinedAlways(first, more)), fits |-> TRUE]]
      PROVE  JoinExact
  <2> DEFINE name == JoinedAlways(first, more) s == Slashes(os, name) r == set_confdir(os, name)
  <2>1. joined.op = "confdir" /\ joined.got.name = r
    BY <1>3 DEF NoJoin
  <2>2. first \in Name /\ more \in Seq(Name)
    BY FileNamesAssumption DEF Name
  <2>3. s \in Name
    BY <2>2, AlwaysIs, SlashesIs
  <2>4. r = IF s = <<>> THEN s ELSE SubSeq(s, 1, LastKept(s))
    BY DEF set_confdir
  <2> HIDE DEF r, s, name
  <2>5. Len(r) <= 1 \/ Last(r) # "slash"
    <3>1. CASE s = <<>>
      <4>1. Len(<<>>) <= 1
        OBVIOUS
      <4> QED BY <2>4, <3>1, <4>1
    <3>2. CASE s # <<>>
      BY <2>3, <2>4, <3>2, KeptIs
    <3> QED BY <3>1, <3>2
  <2> QED BY <2>1, <2>5 DEF JoinExact
<1>4. CASE FromConcat(joined)
  <2>1. PICK os \in Systems, flags \in SUBSET {"TILDE", "ABS", "SYSCONF"}, first \in FirstParts,
             more \in MoreParts, home \in Homes :
          \E sysdir \in SysDirs[os], cwd \in Cwds[os] :
            \E told0 \in {vfnameconcat(os, flags, first, more, home, sysdir, cwd), NoName("ENOMEM")} :
              joined = [op |-> "concat", os |-> os, flags |-> flags, first |-> first, more |-> more,
                        home |-> home, sysdir |-> sysdir, cwd |-> cwd, got |-> told0]
    BY <1>4 DEF FromConcat
  <2>2. PICK sysdir \in SysDirs[os], cwd \in Cwds[os] :
          \E told0 \in {vfnameconcat(os, flags, first, more, home, sysdir, cwd), NoName("ENOMEM")} :
            joined = [op |-> "concat", os |-> os, flags |-> flags, first |-> first, more |-> more,
                      home |-> home, sysdir |-> sysdir, cwd |-> cwd, got |-> told0]
    BY <2>1
  <2>3. PICK told0 \in {vfnameconcat(os, flags, first, more, home, sysdir, cwd), NoName("ENOMEM")} :
          joined = [op |-> "concat", os |-> os, flags |-> flags, first |-> first, more |-> more,
                    home |-> home, sysdir |-> sysdir, cwd |-> cwd, got |-> told0]
    BY <2>2
  <2> QED BY <1>2, <2>3
<1>5. CASE FromConfdir(joined)
  BY <1>3, <1>5 DEF FromConfdir
<1> QED BY <1>1, <1>4, <1>5 DEF NameBuilt, BuiltBy

\* For all parts of names, homes, system and working directories of a system: what
\* vfnameconcat builds fits into the room that was counted, is absolute if that was asked for,
\* has no double slash where clean parts meet and ends with the last of them; a configuration
\* directory has no slash at its end; and a wide name has its prefix and fits with it, whatever
\* chdir does between the calls (_gpgrt_vfnameconcat, _gpgrt_set_confdir, _gpgrt_fname_to_wchar).
THEOREM NamesAreExact == FileNamesSpec => []NamesExact
<1>1. FileNamesInit => NameBuilt /\ WideInv
  <2> SUFFICES ASSUME FileNamesInit PROVE NameBuilt /\ WideInv
    OBVIOUS
  <2>1. NameBuilt /\ wide = NoWide
    BY DEF FileNamesInit, NameBuilt, BuiltBy
  <2>2. WideInv
    BY <2>1 DEF NoWide, WideInv, WideType, WideExact
  <2> QED BY <2>1, <2>2
<1>2. NameBuilt /\ WideInv /\ [FileNamesNext]_nameVars => NameBuilt' /\ WideInv'
  <2> SUFFICES ASSUME NameBuilt, WideInv, [FileNamesNext]_nameVars PROVE NameBuilt' /\ WideInv'
    OBVIOUS
  <2>1. CASE UNCHANGED nameVars
    <3>1. joined' = joined /\ wide' = wide
      BY <2>1 DEF nameVars
    <3>2. NameBuilt'
      BY <3>1 DEF NameBuilt
    <3>3. WideInv'
      BY <3>1 DEF WideInv, WideType, WideExact
    <3> QED BY <3>2, <3>3
  <2>2. CASE FileNamesNext
    <3>1. WideInv'
      BY <2>2, WideStays
    <3>2. CASE Concat
      <4>1. FromConcat(joined')
        BY <3>2 DEF Concat, FromConcat, Systems
      <4> QED BY <3>1, <4>1 DEF NameBuilt, BuiltBy
    <3>3. CASE SetConfdir
      <4>1. FromConfdir(joined')
        BY <3>3 DEF SetConfdir, FromConfdir, Systems
      <4> QED BY <3>1, <4>1 DEF NameBuilt, BuiltBy
    <3>4. CASE WideStarts \/ Chdir \/ GetFullPathName
      <4>1. joined' = joined
        BY <3>4 DEF WideStarts, Chdir, GetFullPathName
      <4> QED BY <3>1, <4>1 DEF NameBuilt
    <3> QED BY <2>2, <3>2, <3>3, <3>4 DEF FileNamesNext
  <2> QED BY <2>1, <2>2
<1>3. NameBuilt /\ WideInv => NamesExact
  BY BuiltExact DEF WideInv, NamesExact
<1> QED BY <1>1, <1>2, <1>3, PTL DEF FileNamesSpec
=============================================================================
