------------------------------ MODULE MCBase64 -------------------------------
(***************************************************************************)
(* What base 64 has to compute, stated over whole byte strings and whole   *)
(* texts, and the instance that TLC checks.                                *)
(***************************************************************************)
EXTENDS Base64

------------------------------------------------------------------------------
(* Regrouping of bits, as RFC 4648 puts it.                                 *)

Pow2 == [n \in 0..8 |-> 2 ^ n]

\* Bit k, counted from 0, of a string of numbers of w bits, and 0 after it.
BitOf(s, w, k) ==
  IF k \div w < Len(s)
  THEN (s[k \div w + 1] \div Pow2[w - 1 - (k % w)]) % 2 ELSE 0

Regroup(s, w, to, n) ==
  [i \in 1..n |->
     FoldLeft(+, 0, [k \in 1..to |-> Pow2[to - k] * BitOf(s, w, (i - 1) * to + k - 1)])]

Up(n, d) == (n + d - 1) \div d

\* The checksum as OpenPGP defines it, bit by bit.
Crc24(data) ==
  LET shift(c, i) == IF c >= 8388608 THEN (2 * c) ^^ 25578747 ELSE 2 * c
      octet(c, b) == FoldLeft(shift, c ^^ (b * 65536), [i \in 1..8 |-> i])
  IN  FoldLeft(octet, CRCINIT, data)

Encoded(data) ==
  LET digits == Regroup(data, 8, 6, Up(8 * Len(data), 6))
  IN  [i \in 1..4 * Up(Len(data), 3) |->
         IF i <= Len(digits) THEN bintoasc[digits[i]] ELSE Pad]

InLines(s) ==
  LET w == 4 * LineQuads
  IN  FlattenSeq([i \in 1..Up(Len(s), w) |->
        SubSeq(s, (i - 1) * w + 1, IF i * w < Len(s) THEN i * w ELSE Len(s)) \o <<LF>>])

Armor(data, title) ==
  LET pgp == IsPrefix(PgpMark, title)
  IN  BeginMark \o title \o Dashes \o <<LF>> \o (IF pgp THEN <<LF>> ELSE <<>>)
      \o InLines(Encoded(data))
      \o (IF pgp
          THEN LET crc == Crc24(data)
               IN  <<Pad>> \o Encoded(<<crc \div 65536, (crc \div 256) % 256, crc % 256>>)
                   \o <<LF>>
          ELSE <<>>)
      \o EndMark \o title \o Dashes \o <<LF>>

------------------------------------------------------------------------------
(* The parts of an armored text.                                            *)

MinOf(S) == CHOOSE x \in S : \A y \in S : x <= y
MarkAt(t, i, mark) ==
  i + Len(mark) - 1 <= Len(t) /\ SubSeq(t, i, i + Len(mark) - 1) = mark
LineEnds(t, from) == {j \in from..Len(t) : t[j] = LF}

\* Where the digits start: at once, or after the first line that begins an
\* armor, in an OpenPGP armor after the first blank line that follows it.
BodyStart(t, title) ==
  LET begins == {i \in 1..Len(t) : MarkAt(t, i, BeginMark) /\ (i = 1 \/ t[i - 1] = LF)}
      after  == MinOf(begins) + Len(BeginMark)
      lines  == LineEnds(t, after)
      blank  == {j \in lines : \E k \in lines :
                   k < j /\ \A i \in (k + 1)..(j - 1) : t[i] \in Blanks}
      ends   == IF MarkAt(t, after, PgpMark) THEN blank ELSE lines
  IN  IF ~title THEN 1
      ELSE IF begins = {} \/ ends = {} THEN Len(t) + 1
      ELSE MinOf(ends) + 1

\* What decoding t gives: the octets, whether there was a character that is
\* no digit, and whether the end was seen.  A pad after a single digit counts
\* as the rest of an octet.
DecodedText(t, title) ==
  LET start  == BodyStart(t, title)
      stops  == {j \in start..Len(t) : t[j] = Pad \/ (title /\ t[j] = Dash)}
      stop   == IF stops = {} THEN Len(t) + 1 ELSE MinOf(stops)
      body   == SubSeq(t, start, stop - 1)
      digits == SelectSeq(body, LAMBDA c : c \in DOMAIN asctobin)
      lone   == stops # {} /\ t[stop] = Pad /\ Len(digits) % 4 = 1
      dashes == {j \in stop..Len(t) : t[j] = Dash}
  IN  [out |-> Regroup([i \in DOMAIN digits |-> asctobin[digits[i]]], 6, 8,
                       (6 * Len(digits)) \div 8 + (IF lone THEN 1 ELSE 0)),
       invalid |-> \E i \in DOMAIN body :
                     body[i] \notin DOMAIN asctobin \cup Blanks \cup {LF},
       stop |-> /\ stops # {}
                /\ IF title THEN dashes # {} /\ LineEnds(t, MinOf(dashes)) # {}
                   ELSE LineEnds(t, stop) # {}]

------------------------------------------------------------------------------
(* Properties.                                                              *)

Bytes == SubSeq(source, 1, enc.given)

HasTrailer ==
  /\ IsSuffix(Dashes \o <<LF>>, text)
  /\ \E i \in DOMAIN text : MarkAt(text, i, EndMark)

\* However the bytes came in pieces and whichever writes failed: an encoder
\* all of whose calls succeeded wrote the text of all the bytes (none for no
\* bytes), with its line ends, padding and checksum; and a text that ends with
\* a trailer is such a text, an error is never followed by one.
EncodedWhole ==
  /\ encRet = {"ended"} =>
       text = IF Bytes = <<>> THEN <<>>
              ELSE IF enc.title # NoTitle THEN Armor(Bytes, enc.title)
              ELSE IF enc.lines THEN InLines(Encoded(Bytes)) ELSE Encoded(Bytes)
  /\ HasTrailer => encRet = {"ended"}

\* What a decoder returned, whether it met a character that is no digit and
\* whether it saw the end depend on the text it was given, and not on how that
\* text was cut into calls.
DecodedWhole ==
  decRet # "none" =>
    [out |-> out, invalid |-> dec.invalid, stop |-> dec.stop]
      = DecodedText(given, session.title)

\* What the encoder wrote is decoded to what was encoded, also behind other
\* text, and no call says that it was bad; an armor is read to its end.
RoundTrip ==
  session.kind = "encoded" /\ left = <<>> =>
    /\ out = Bytes
    /\ decRet # "ended_bad"
    /\ session.title /\ Bytes # <<>> => dec.stop

------------------------------------------------------------------------------
(* The instance: titles NULL, "", "D" and "PGP D"; two quanta on a line.    *)

TitleD == <<68>>
TitlePgp == PgpMark \o TitleD
MCTitles == {NoTitle, <<>>, TitleD, TitlePgp}
MCSources == {<<>>, <<0, 255, 97, 170, 85, 62, 191>>}
Bad == {1, 7, 16}
MCBadWrites == {{}} \cup {{k} : k \in Bad} \cup {k..40 : k \in Bad}

Ended(s) == s \o <<LF>>
Begin(title) == Ended(BeginMark \o title \o Dashes)
End(title) == Ended(EndMark \o title \o Dashes)

MCPreambles == {<<>>, Ended(<<120>> \o BeginMark) \o Ended(Dashes)}
Headers == {<<>>, Begin(TitleD), Begin(<<80, 71>>),
            Begin(TitlePgp) \o Ended(<<32>>),
            Begin(TitlePgp) \o Ended(<<32, 86, 58>>) \o Ended(<<>>)}
Bodies == {Ended(<<81>>), Ended(<<81, 33, 85, 9>>) \o <<73>>,
           Ended(<<200, 47, 43, 122>>) \o Ended(<<57, 48, 13>>)}
Ends == {<<>>, Ended(<<Pad>>), Ended(<<Pad, Pad>>) \o End(TitleD),
         Ended(<<Pad, 65, 65>>) \o End(<<>>) \o <<65>>}
MCOtherTexts ==
  {p \o h \o b \o e : p \in MCPreambles \ {<<>>}, h \in Headers, b \in Bodies, e \in Ends}
==============================================================================
