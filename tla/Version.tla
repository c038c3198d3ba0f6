------------------------------- MODULE Version -------------------------------
(***************************************************************************)
(* The comparison of version strings (src/version.c), which [if] of a configuration *)
(* file uses.  A string is the sequence of its characters' codes.                 *)
(***************************************************************************)
EXTENDS Integers, Sequences, SequencesExt

CONSTANTS
  Versions,  \* the strings compared
  Levels,    \* how many numbers they have: 1, 2 or 3, 10 more without patch level
  IntMod     \* int is an integer modulo IntMod

ASSUME VersionAssumption ==
  /\ IntMod \in Nat \ {0} /\ \A l \in Levels : l \in -13..13 /\ l # 0
  /\ Versions \subseteq Seq(1..255)   \* a string ends at its first 0

VARIABLE compared  \* the strings and the level of the last comparison

Dot == 46
Zero == 48
DigitP(s, i) == i <= Len(s) /\ s[i] \in Zero..(Zero + 9)
CharAt(s, i) == IF i <= Len(s) THEN s[i] ELSE 0
\* A signed char and an int.
SignedChar(n) == IF n >= 128 THEN n - 256 ELSE n
AsInt(n) == LET m == n % IntMod IN IF m >= IntMod \div 2 THEN m - IntMod ELSE m

\* A number of s and the place after it; leading zeros, and a number whose int is
\* negative, are refused.
Unparsed == [ok |-> FALSE, val |-> 0, at |-> 0]
DigitsEnd(s, i) == CHOOSE j \in i..(Len(s) + 1) : ~DigitP(s, j) /\ \A k \in i..(j - 1) : DigitP(s, k)
Value10(digits) == FoldLeft(LAMBDA v, d : AsInt(v * 10 + (d - Zero)), 0, digits)
parse_version_number(s, i) ==
  LET end == DigitsEnd(s, i) val == Value10(SubSeq(s, i, end - 1))
  IN IF (CharAt(s, i) = Zero /\ DigitP(s, i + 1)) \/ val < 0 THEN Unparsed
     ELSE [ok |-> TRUE, val |-> val, at |-> end]

\* The numbers are divided by dots; a dot after the last one is skipped if there are fewer
\* than three.  nums has the numbers, 0 where there is none, and patch what is left.
NoVersion == [ok |-> FALSE, nums |-> <<0, 0, 0>>, patch |-> <<>>]
Parsed(nums, s, i) ==
  [ok |-> TRUE, nums |-> nums,
   patch |-> LET j == IF CharAt(s, i) = Dot THEN i + 1 ELSE i IN SubSeq(s, j, Len(s))]
ParsedAll(nums, s, i) == [ok |-> TRUE, nums |-> nums, patch |-> SubSeq(s, i, Len(s))]
FromMicro(s, major, minor, micro) ==
  IF micro.ok THEN ParsedAll(<<major.val, minor.val, micro.val>>, s, micro.at) ELSE NoVersion
FromMinor(s, level, major, minor) ==
  CASE ~minor.ok -> NoVersion
    [] minor.ok /\ level = 2 -> Parsed(<<major.val, minor.val, 0>>, s, minor.at)
    [] OTHER -> IF CharAt(s, minor.at) # Dot THEN NoVersion
                ELSE FromMicro(s, major, minor, parse_version_number(s, minor.at + 1))
FromMajor(s, level, major) ==
  CASE ~major.ok -> NoVersion
    [] major.ok /\ level <= 1 -> Parsed(<<major.val, 0, 0>>, s, major.at)
    [] OTHER -> IF CharAt(s, major.at) # Dot THEN NoVersion
                ELSE FromMinor(s, level, major, parse_version_number(s, major.at + 1))
parse_version_string(s, level) == FromMajor(s, level, parse_version_number(s, 1))

SignOf(n) == IF n > 0 THEN 1 ELSE IF n < 0 THEN -1 ELSE 0
FirstDiff(a, b) ==
  CHOOSE i \in 1..(Len(a) + Len(b) + 1) :
    /\ CharAt(a, i) # CharAt(b, i) \/ i > Len(a)
    /\ \A j \in 1..(i - 1) : CharAt(a, j) = CharAt(b, j)
Strcmp(a, b) == LET i == FirstDiff(a, b) IN SignOf(CharAt(a, i) - CharAt(b, i))
\* Patch levels: a dot is less than any other character; after a dot of both the rest is
\* compared by strcmp.
StopsAt(a, b) ==
  CHOOSE i \in 1..(Len(a) + Len(b) + 1) :
    LET Stop(j) == \/ j > Len(a) \/ j > Len(b)
                   \/ a[j] = Dot \/ b[j] = Dot \/ a[j] # b[j]
    IN Stop(i) /\ \A j \in 1..(i - 1) : ~Stop(j)
\* (A wrong version, for a check of the property: a dot of the second string is not looked for.)
ComparePatchOneDot(a, b) ==
  LET i == StopsAt(a, b) x == CharAt(a, i) y == CharAt(b, i)
  IN IF i <= Len(a) /\ i <= Len(b) /\ x = Dot /\ y # Dot THEN -1 ELSE SignOf(SignedChar(x) - SignedChar(y))
ComparePatch(a, b) ==
  LET i == StopsAt(a, b) x == CharAt(a, i) y == CharAt(b, i)
  IN CASE i <= Len(a) /\ i <= Len(b) /\ x = Dot /\ y = Dot ->
            Strcmp(SubSeq(a, i, Len(a)), SubSeq(b, i, Len(b)))
       [] i <= Len(a) /\ i <= Len(b) /\ x = Dot /\ y # Dot -> -1
       [] i <= Len(a) /\ i <= Len(b) /\ x # Dot /\ y = Dot -> 1
       [] OTHER -> SignOf(SignedChar(x) - SignedChar(y))

CompareNums(a, b) ==
  LET Differs == {i \in 1..3 : a[i] # b[i]}
  IN IF Differs = {} THEN 0
     ELSE LET i == CHOOSE i \in Differs : \A j \in Differs : i <= j IN SignOf(a[i] - b[i])
PlainLevel(level) == IF level < 0 THEN 0 - level ELSE level
\* The invalid ones come last; two of them do so each before the other.
CompareParsed(va, vb, nums, sense, ignore_plvl) ==
  CASE ~ignore_plvl /\ ~(va.ok /\ vb.ok) -> IF va.ok THEN sense ELSE 0 - sense
    [] nums # 0 /\ (ignore_plvl \/ (va.ok /\ vb.ok)) -> sense * nums
    [] OTHER -> IF ignore_plvl THEN 0 ELSE sense * ComparePatch(va.patch, vb.patch)
CompareWhole(va, vb, level) ==
  CompareParsed(va, vb, CompareNums(va.nums, vb.nums), SignOf(level), PlainLevel(level) > 9)
do_cmp_version(a, b, level) ==
  CompareWhole(parse_version_string(a, PlainLevel(level) % 10), parse_version_string(b, PlainLevel(level) % 10), level)
cmp_version(a, b, level) == do_cmp_version(a, b, level)

\* One comparison: it leaves nothing behind.  The level 0 is reserved.
VersionInit == compared = [a |-> <<>>, b |-> <<>>, level |-> 0]
VersionNext == compared.level = 0 /\ \E a, b \in Versions : \E l \in Levels : compared' = [a |-> a, b |-> b, level |-> l]
VersionSpec == VersionInit /\ [][VersionNext]_compared

-----------------------------------------------------------------------------
\* Valid strings of ASCII characters (a byte above them is less than the end of a string but
\* greater than a dot, which is greater than the end) are ordered: what is greater one way is less the other way, a reversed
\* level reverses it, and what is not greater than a second is not greater than anything the
\* second is not greater than.
ValidVersion(s, l) == (\A i \in 1..Len(s) : s[i] < 128) /\ parse_version_string(s, PlainLevel(l) % 10).ok
VersionsOrdered ==
  LET l == compared.level a == compared.a b == compared.b
  IN l # 0 /\ ValidVersion(a, l) /\ ValidVersion(b, l) =>
       \E ab \in {cmp_version(a, b, l)} :
         /\ \A k \in {<<b, a, l>>, <<a, b, 0 - l>>} : cmp_version(k[1], k[2], k[3]) = 0 - ab
         /\ ab <= 0 => \A c \in {v \in Versions : ValidVersion(v, l)} :
              cmp_version(b, c, l) <= 0 => cmp_version(a, c, l) <= 0
=============================================================================
