------------------------------- MODULE Printf --------------------------------
(***************************************************************************)
(* The printf of src/estream-printf.c.  A format is parsed into a table of     *)
(* conversions, their arguments are given positions, the arguments are read in   *)
(* that order, and then the format is walked again with the table.  A format is  *)
(* a sequence of tokens: "%", positions <<"pos", n>>, numbers <<"num", n>>, flags,  *)
(* "*", ".", length modifiers, conversion letters and literal text.             *)
(***************************************************************************)
EXTENDS Integers, FiniteSets, Sequences, SequencesExt

CONSTANTS Piece,        \* the conversions and texts that formats are put together from
          MaxPieces     \* bound: the number of pieces of a format

NO_FIELD == -1
STAR == -2

IsPos(t) == t[1] = "pos"
IsNum(t) == t[1] = "num"
\* The characters that a token has in the format.
CharCount(t) == IF IsPos(t) \/ t \in {<<"mod", "hh">>, <<"mod", "ll">>} THEN 2 ELSE 1
strlen(format) == FoldLeft(LAMBDA n, t : n + CharCount(t), 0, format)

-----------------------------------------------------------------------------
(***************************************************************************)
(* parse_format.                                                            *)
(***************************************************************************)
TokenAt(format, s) == IF s <= Len(format) THEN format[s] ELSE <<"end">>
Is(format, s, x) == TokenAt(format, s) = <<"sym", x>>
AfterFlags(format, s) == CHOOSE k \in s..Len(format) + 1 :
  /\ TokenAt(format, k)[1] # "flag"
  /\ \A j \in s..k - 1 : TokenAt(format, j)[1] = "flag"

FieldAbsent(s) == [value |-> NO_FIELD, pos |-> 0, next |-> s, bad |-> FALSE]
\* A width or a precision: its value, the position of a star's value, and what follows.
\* A star may have a position if the conversion has one; then digits must be one.
Field(format, s, arg_pos) ==
  CASE Is(format, s, "*") /\ arg_pos > 0 /\ IsPos(TokenAt(format, s + 1)) ->
         [value |-> STAR, pos |-> TokenAt(format, s + 1)[2], next |-> s + 2, bad |-> FALSE]
    [] Is(format, s, "*") /\ ~(arg_pos > 0 /\ IsPos(TokenAt(format, s + 1))) ->
         [value |-> STAR, pos |-> 0, next |-> s + 1, bad |-> arg_pos > 0 /\ IsNum(TokenAt(format, s + 1))]
    [] IsNum(TokenAt(format, s)) ->
         [value |-> TokenAt(format, s)[2], pos |-> 0, next |-> s + 1, bad |-> FALSE]
    [] OTHER -> FieldAbsent(s)

\* The conversion whose percent sign is at index p, read field by field; next is where the
\* next field begins.
ReadPos(p, t) ==
  [arg_pos |-> IF IsPos(t) THEN t[2] ELSE 0, next |-> IF IsPos(t) /\ t[2] > 0 THEN p + 2 ELSE p + 1]
ReadFlags(format, a, w) ==
  a @@ [flags |-> {format[i][2] : i \in a.next..w - 1}, width_at |-> w]
ReadWidth(a, field) ==
  [arg_pos |-> a.arg_pos, flags |-> a.flags, width |-> field.value, width_pos |-> field.pos,
   bad |-> field.bad, next |-> field.next]
\* A point without digits is a precision of 0.
ReadPrecision(a, dot, field) ==
  [a EXCEPT !.bad = @ \/ field.bad, !.next = field.next]
  @@ [precision |-> IF dot /\ field.value = NO_FIELD THEN 0 ELSE field.value, precision_pos |-> field.pos]
ReadModifier(a, t) ==
  [a EXCEPT !.next = IF t[1] = "mod" THEN @ + 1 ELSE @] @@ [lenmod |-> IF t[1] = "mod" THEN t[2] ELSE "none"]
\* An unknown letter is kept as unknown; %m takes no argument.
ReadLetter(format, p, a, t) ==
  [a EXCEPT !.arg_pos = IF t = <<"conv", "m">> THEN -1 ELSE @]
  @@ [conspec |-> IF t[1] = "conv" THEN t[2] ELSE "unknown",
      length |-> a.next - p + 1, overrun |-> a.next > Len(format)]
FromModifier(format, p, a) == ReadLetter(format, p, a, TokenAt(format, a.next))
FromPrecision(format, p, a) == FromModifier(format, p, ReadModifier(a, TokenAt(format, a.next)))
FromWidth(format, p, a) ==
  FromPrecision(format, p,
    IF Is(format, a.next, ".") THEN ReadPrecision(a, TRUE, Field(format, a.next + 1, a.arg_pos))
    ELSE ReadPrecision(a, FALSE, FieldAbsent(a.next)))
FromFlags(format, p, a) == FromWidth(format, p, ReadWidth(a, Field(format, a.width_at, a.arg_pos)))
FromPos(format, p, a) == FromFlags(format, p, ReadFlags(format, a, AfterFlags(format, a.next)))
Conversion(format, p) == FromPos(format, p, ReadPos(p, TokenAt(format, p + 1)))

\* compute_type.
Signed == {"d", "i"}
Unsigned == {"o", "u", "x", "X", "b"}
Floats == {"f", "e", "g", "a"}
vt(a) ==
  CASE a.conspec = "unknown" -> <<"unsupported">>
    [] a.conspec \in Signed -> <<"signed", IF a.lenmod = "L" THEN "none" ELSE a.lenmod>>
    [] a.conspec \in Unsigned -> <<"unsigned", IF a.lenmod = "L" THEN "none" ELSE a.lenmod>>
    [] a.conspec \in Floats -> <<"double", IF a.lenmod = "L" THEN "L" ELSE "none">>
    [] a.conspec = "c" -> <<"signed", "none">>
    [] a.conspec \in {"s", "m"} -> <<"string">>
    [] a.conspec = "p" -> <<"pointer">>
    [] a.conspec = "n" -> <<"pointer to", a.lenmod>>

\* The table of conversions.  A format that ends in the middle of one is read on behind
\* its end: the loop steps over the terminating Nul.
parse_format(format) ==
  LET P[i \in 1..Len(format) + 1] ==
        IF i > Len(format) THEN [args |-> <<>>, status |-> "ok"]
        ELSE IF ~Is(format, i, "%") THEN P[i + 1]
        ELSE IF i = Len(format) THEN [args |-> <<>>, status |-> "EINVAL"]
        ELSE IF Is(format, i + 1, "%") THEN P[i + 2]
        ELSE LET Kept(a) ==
                   CASE a.bad -> [args |-> <<>>, status |-> "EINVAL"]
                     [] ~a.bad /\ a.overrun -> [args |-> <<>>, status |-> "overrun"]
                     [] OTHER -> [P[i + a.length] EXCEPT !.args = <<a>> \o @]
             IN  Kept(Conversion(format, i))
  IN  P[1]

-----------------------------------------------------------------------------
(***************************************************************************)
(* _gpgrt_estream_format: positions, the table of values, and the output.       *)
(***************************************************************************)
MaxOf(S) == IF S = {} THEN 0 ELSE CHOOSE x \in S : \A y \in S : y <= x
Positions(a) == {a.arg_pos, a.width_pos, a.precision_pos} \ {-1}
MaxPos(args) == MaxOf(UNION {Positions(args[i]) : i \in DOMAIN args})

\* Without any position the arguments are numbered as they come: width, precision, value.
Needs(a) == <<a.width = STAR, a.precision = STAR, a.arg_pos # -1>>
CountNoStar(flags) == IF flags[3] THEN 1 ELSE 0
Count(flags) == Cardinality({i \in 1..3 : flags[i]})
Numbered(args) ==
  LET before(i) == FoldLeft(LAMBDA n, a : n + Count(Needs(a)), 0, SubSeq(args, 1, i - 1))
  IN  [i \in DOMAIN args |->
         LET a == args[i]
             n == before(i)
         IN  [a EXCEPT !.width_pos = IF a.width = STAR THEN n + 1 ELSE 0,
                       !.precision_pos = IF a.precision = STAR
                                         THEN n + Count(<<a.width = STAR, TRUE, FALSE>>) ELSE 0,
                       !.arg_pos = IF @ = -1 THEN -1 ELSE n + Count(Needs(a))]]

Unfilled(a) == \/ a.arg_pos = 0
               \/ a.width = STAR /\ a.width_pos = 0
               \/ a.precision = STAR /\ a.precision_pos = 0

\* The places of the table that each conversion fills, in order, with the type it puts there.
INT == <<"signed", "none">>
Fills(a) == SelectSeq(<<<<a.arg_pos, vt(a)>>,
                        <<IF a.width = STAR THEN a.width_pos ELSE -1, INT>>,
                        <<IF a.precision = STAR THEN a.precision_pos ELSE -1, INT>>>>,
                      LAMBDA p : p[1] # -1)
AllFills(args) == FoldLeft(LAMBDA fs, a : fs \o Fills(a), <<>>, args)
\* A place is taken if it has a type, so one that an unknown conversion took is free.
FilledTwice(fills) == \E i, j \in DOMAIN fills :
                         i < j /\ fills[i][1] = fills[j][1] /\ fills[i][2] # <<"unsupported">>
TypeAt(fills, n) == LET last == MaxOf({i \in DOMAIN fills : fills[i][1] = n})
                    IN  IF last = 0 THEN <<"unsupported">> ELSE fills[last][2]

\* read_values takes 1..max_pos; a gap and an unknown conversion have no type.
Readable(fills, max_pos) == \A n \in 1..max_pos : TypeAt(fills, n) # <<"unsupported">>

\* pr_integer knows no type for "hh", pr_bytes_so_far does.
NoTypeFor(a) == vt(a) \in {<<"signed", "hh">>, <<"unsigned", "hh">>}

\* The second walk, with the lengths of the first; the type of each conversion is asserted
\* to be that of its place.  The output: literal text, and each conversion with
\* the positions of its width, precision and value.
Shown(a) == <<a.conspec, a.flags,
              IF a.width = STAR THEN <<"arg", a.width_pos>> ELSE <<"num", a.width>>,
              IF a.precision = STAR THEN <<"arg", a.precision_pos>> ELSE <<"num", a.precision>>,
              a.arg_pos>>
do_format(format, args, fills) ==
  LET D[s \in 1..Len(format) + 1, n \in 1..Len(args) + 1] ==
        IF s > Len(format) THEN [rc |-> 0, out |-> <<>>]
        ELSE IF ~Is(format, s, "%")
             THEN LET rest == D[s + 1, n] IN [rest EXCEPT !.out = <<format[s]>> \o @]
        ELSE IF Is(format, s + 1, "%")
             THEN LET rest == D[s + 2, n] IN [rest EXCEPT !.out = <<format[s]>> \o @]
        ELSE IF args[n].arg_pos # -1 /\ vt(args[n]) # TypeAt(fills, args[n].arg_pos)
             THEN [rc |-> -2, out |-> <<>>]
        ELSE IF NoTypeFor(args[n]) THEN [rc |-> -1, out |-> <<>>]
        ELSE LET rest == D[s + args[n].length, n + 1]
             IN  [rest EXCEPT !.out = <<Shown(args[n])>> \o @]
  IN  D[1, 1]

Failure == [rc |-> -1, out |-> <<>>]
Placed(args) == IF MaxPos(args) = 0 THEN Numbered(args) ELSE args
\* rc: 0, -1 for EINVAL, -2 for a failed assertion.
FormatPlaced(format, args, fills, max_pos) ==
  IF \/ \E i \in DOMAIN args : Unfilled(args[i])
     \/ max_pos >= strlen(format)
     \/ FilledTwice(fills) \/ ~Readable(fills, max_pos)
  THEN Failure
  ELSE do_format(format, args, fills)
FormatArgs(format, args) == FormatPlaced(format, args, AllFills(args), MaxPos(args))
FormatParsed(format, parsed) ==
  IF parsed.status # "ok" THEN Failure ELSE FormatArgs(format, Placed(parsed.args))
estream_format(format) == FormatParsed(format, parse_format(format))

-----------------------------------------------------------------------------
(***************************************************************************)
(* Formats are written one piece at a time, and formatted.  A piece is literal   *)
(* text, a double percent sign, or a conversion as its writer means it.         *)
(***************************************************************************)
VARIABLES pieces, formatted
printfVars == <<pieces, formatted>>

Sym(x) == <<<<"sym", x>>>>
Place(n) == IF n = 0 THEN <<>> ELSE <<<<"pos", n>>>>
FieldText(v, pos) == CASE v = NO_FIELD -> <<>> [] v = STAR -> Sym("*") \o Place(pos) [] OTHER -> <<<<"num", v>>>>
PieceText(p) ==
  CASE p.kind = "lit" -> <<<<"lit">>>>
    [] p.kind = "pct" -> Sym("%") \o Sym("%")
    [] OTHER -> Sym("%") \o Place(p.pos) \o (IF p.flag = "" THEN <<>> ELSE <<<<"flag", p.flag>>>>)
                \o FieldText(p.width, p.wpos)
                \o (IF p.prec = NO_FIELD THEN <<>> ELSE Sym(".") \o FieldText(p.prec, p.ppos))
                \o (IF p.mod = "" THEN <<>> ELSE <<<<"mod", p.mod>>>>)
                \o (IF p.conv = "y" THEN <<<<"lit">>>> ELSE <<<<"conv", p.conv>>>>)
Format(ps) == FoldLeft(LAMBDA f, p : f \o PieceText(p), <<>>, ps)

PrintfInit == pieces = <<>> /\ formatted = [rc |-> 0, out |-> <<>>]
WritePiece == \E p \in Piece :
  /\ Len(pieces) < MaxPieces
  /\ pieces' = Append(pieces, p)
  /\ formatted' = estream_format(Format(pieces'))
PrintfNext == WritePiece

-----------------------------------------------------------------------------
(***************************************************************************)
(* Properties.                                                              *)
(***************************************************************************)
\* What printf promises: with no position in it a format takes its arguments in the order
\* width, precision, value; with positions, every argument is named once and there is no gap.
IsConv(p) == p.kind = "conv"
Conv(ps) == SelectSeq(ps, IsConv)
Takes(p) == (IF p.width = STAR THEN <<"w">> ELSE <<>>) \o (IF p.prec = STAR THEN <<"p">> ELSE <<>>)
            \o (IF p.conv = "m" THEN <<>> ELSE <<"v">>)
PlaceOf(p, x) == CASE x = "w" -> p.wpos [] x = "p" -> p.ppos [] OTHER -> p.pos
AllTakes(ps) == FoldLeft(LAMBDA ts, i : ts \o [k \in 1..Len(Takes(ps[i])) |-> <<i, Takes(ps[i])[k]>>],
                         <<>>, [i \in DOMAIN ps |-> i])
Sequential(ps) == \A i \in DOMAIN ps : ps[i].wpos = 0 /\ ps[i].ppos = 0 /\ (ps[i].pos = 0 \/ ps[i].conv = "m")
Assigned(ps) ==
  LET takes == AllTakes(ps)
  IN  [k \in DOMAIN takes |-> IF Sequential(ps) THEN k ELSE PlaceOf(ps[takes[k][1]], takes[k][2])]
GoodPlaces(ps) == LET places == Assigned(ps)
                  IN  {places[k] : k \in DOMAIN places} = DOMAIN places
Means(ps, i, x) == LET takes == AllTakes(ps)
                   IN  Assigned(ps)[CHOOSE k \in DOMAIN takes : takes[k] = <<i, x>>]
Wanted(ps, i) ==
  LET p == ps[i]
  IN  <<p.conv, IF p.flag = "" THEN {} ELSE {p.flag},
        IF p.width = STAR THEN <<"arg", Means(ps, i, "w")>> ELSE <<"num", p.width>>,
        IF p.prec = STAR THEN <<"arg", Means(ps, i, "p")>> ELSE <<"num", p.prec>>,
        IF p.conv = "m" THEN -1 ELSE Means(ps, i, "v")>>
WantedOut(ps) ==
  LET n(i) == Len(Conv(SubSeq(ps, 1, i)))
  IN  [i \in DOMAIN ps |-> CASE ps[i].kind = "lit" -> <<"lit">>
                             [] ps[i].kind = "pct" -> <<"sym", "%">>
                             [] OTHER -> Wanted(Conv(ps), n(i))]
Unknown(ps) == \E i \in DOMAIN ps : ps[i].conv = "y"
ByteSized(ps) == \E i \in DOMAIN ps : ps[i].conv = "d" /\ ps[i].mod = "hh"
\* A format is printed as it is meant, each conversion with its own width, precision and
\* value, however far the two walks over the format agree; and a format with a gap, a place
\* named twice or an unknown conversion is refused before anything is read
\* (parse_format, _gpgrt_estream_format, do_format).
FormatExact ==
  /\ (GoodPlaces(Conv(pieces)) /\ ~Unknown(pieces) /\ ~ByteSized(pieces)) =>
       formatted = [rc |-> 0, out |-> WantedOut(pieces)]
  /\ (Unknown(pieces) /\ Sequential(Conv(pieces))) => formatted = Failure
  /\ (~GoodPlaces(Conv(pieces)) /\ ~Unknown(pieces)) => formatted = Failure
=============================================================================
