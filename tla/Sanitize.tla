------------------------------ MODULE Sanitize -------------------------------
(***************************************************************************)
(* Data made printable: write_sanitized and write_hexstring of src/estream.c, the    *)
(* filter of the %s arguments of src/logging.c, and trim_spaces of src/stringutils.c. *)
(***************************************************************************)
EXTENDS Integers, Sequences, SequencesExt

CONSTANTS
  Letters,    \* [control character with an escape letter -> its letter]
  LogLetters, \* the same of the log filter, which has a backslash's, too
  Controls,   \* the control characters
  Printable,     \* other characters
  SanitizeBufs,    \* what is written
  Delimiters  \* the sets of characters that callers want escaped, and NoDelimiters

\* An escape letter stands for one character, and none is the x of an escape in hexadecimal.
GoodLetters(letters) ==
  /\ \A ch, other \in DOMAIN letters : letters[ch] = letters[other] => ch = other
  /\ \A ch \in DOMAIN letters : letters[ch] # "x" /\ letters[ch] \notin Controls
ASSUME SanitizeAssumption ==
  /\ GoodLetters(Letters) /\ GoodLetters(LogLetters)
  /\ DOMAIN Letters \subseteq Controls
  /\ DOMAIN LogLetters \subseteq Controls \cup {"backslash"} /\ "backslash" \in DOMAIN LogLetters
  /\ Controls \cap Printable = {} /\ {"backslash", "x"} \subseteq Printable
  /\ SanitizeBufs \subseteq Seq(Controls \cup Printable)

VARIABLE written  \* the last call, what came out and what it reported

NoDelimiters == {"none"}
\* A byte in hexadecimal takes two characters.
Hex(ch) == <<"hex", ch>>
Char(ch) == <<"char", ch>>
WidthStep(n, t) == n + (IF t[1] = "hex" THEN 2 ELSE 1)
WidthOf(text) == FoldLeft(WidthStep, 0, text)
Backslash == Char("backslash")

-----------------------------------------------------------------------------
(***************************************************************************)
(* write_sanitized: what it writes of a byte, and what it adds to its count.         *)
(***************************************************************************)
EscapesNoBackslash(ch, delimiters) == ch \in Controls \/ (delimiters # NoDelimiters /\ ch \in delimiters)
Escapes(ch, delimiters) ==
  \/ ch \in Controls
  \/ delimiters # NoDelimiters /\ (ch \in delimiters \/ ch = "backslash")
Escaped(ch) ==
  IF ch \in DOMAIN Letters THEN <<Backslash, Char(Letters[ch])>> ELSE <<Backslash, Char("x"), Hex(ch)>>
Sanitized(buf, delimiters) ==
  FlattenSeq([i \in 1..Len(buf) |->
    IF Escapes(buf[i], delimiters) THEN Escaped(buf[i]) ELSE <<Char(buf[i])>>])
\* Each round of the loop adds one more than it writes.
CountOf(buf, delimiters) == WidthOf(Sanitized(buf, delimiters)) + Len(buf)
Result(op, buf, delimiters, text, count, code) ==
  [op |-> op, buf |-> buf, delimiters |-> delimiters, text |-> text, count |-> count, code |-> code]
NoCount == -1
\* A stream whose error flag is set, now or before, makes it fail; the count is complete.
write_sanitized(buf, delimiters) ==
  {Result("sanitized", buf, delimiters, Sanitized(buf, delimiters), CountOf(buf, delimiters), code) :
     code \in {0, -1}}
\* Two digits for each byte; with nothing to write the count is left as it is.
write_hexstring(buf) ==
  LET text == [i \in 1..Len(buf) |-> Hex(buf[i])]
  IN IF buf = <<>> THEN {Result("hex", buf, {}, text, NoCount, 0)}
     ELSE {Result("hex", buf, {}, text, 2 * Len(buf), code) : code \in {0, -1}}

-----------------------------------------------------------------------------
(***************************************************************************)
(* fmt_string_filter: first the room, then the text, which goes into it; snprintf    *)
(* writes a NUL, which the next character takes the place of.                      *)
(***************************************************************************)
RoomOfText(ch) == IF ch \in DOMAIN LogLetters THEN 2 ELSE IF ch \in Controls THEN 3 ELSE 1
RoomOf(ch) == IF ch \in DOMAIN LogLetters THEN 2 ELSE IF ch \in Controls THEN 5 ELSE 1
RoomStep(n, ch) == n + RoomOf(ch)
FilterRoom(s) == 1 + FoldLeft(RoomStep, 0, s)
FilterText(ch) ==
  IF ch \in DOMAIN LogLetters THEN <<Backslash, Char(LogLetters[ch])>>
  ELSE IF ch \in Controls THEN <<Backslash, Char("x"), Hex(ch)>> ELSE <<Char(ch)>>
NeedsFilter(s) == \E i \in 1..Len(s) : s[i] \in Controls \cup DOMAIN LogLetters
\* Where the text of the i-th character ends, with the NUL of snprintf.
FilterEnd(s, i) ==
  WidthOf(FlattenSeq([j \in 1..i |-> FilterText(s[j])]))
    + (IF s[i] \in Controls \ DOMAIN LogLetters THEN 1 ELSE 0)
\* Unchanged, out of memory, or the text.
fmt_string_filter(s) ==
  LET text == FlattenSeq([i \in 1..Len(s) |-> FilterText(s[i])])
  IN IF ~NeedsFilter(s) THEN {Result("filter", s, {}, text, FilterRoom(s), 0)}
     ELSE {Result("filter", s, {}, text, FilterRoom(s), 0), Result("filter", s, {}, <<>>, FilterRoom(s), -1)}

\* trim_spaces: the characters from the first that is no space move to the front; the last
\* run of spaces is cut off if nothing comes after it.
IsSpace(ch) == ch \in {"nl", "cr", "ht", "ff", "vt", "space"}
FirstNonSpace(s) ==
  CHOOSE i \in 1..(Len(s) + 1) : /\ i = Len(s) + 1 \/ ~IsSpace(s[i])
                                 /\ \A j \in 1..(i - 1) : IsSpace(s[j])
MarkStep(mark, s, i) == IF IsSpace(s[i]) THEN (IF mark = 0 THEN i ELSE mark) ELSE 0
MarkOf(s) == FoldLeft(LAMBDA mark, i : MarkStep(mark, s, i), 0, [i \in 1..Len(s) |-> i])
trim_spaces(s) ==
  LET moved == SubSeq(s, FirstNonSpace(s), Len(s))
  IN IF MarkOf(moved) = 0 THEN moved ELSE SubSeq(moved, 1, MarkOf(moved) - 1)

SanitizeInit == written = Result("none", <<>>, {}, <<>>, 0, 0)
SanitizeNext ==
  /\ written.op = "none"
  /\ \E buf \in SanitizeBufs :
       \/ \E d \in Delimiters : written' \in write_sanitized(buf, d)
       \/ written' \in write_hexstring(buf)
       \/ "nul" \notin ToSet(buf) /\ written' \in fmt_string_filter(trim_spaces(buf))

SanitizeSpec == SanitizeInit /\ [][SanitizeNext]_written

-----------------------------------------------------------------------------
\* How a reader takes the escapes back.
ReadStep(acc, t, letters) ==
  CASE acc.at = "text" /\ t = Backslash -> [acc EXCEPT !.at = "escape"]
    [] acc.at = "text" /\ t # Backslash -> [acc EXCEPT !.got = Append(@, t[2])]
    [] acc.at = "escape" /\ t = Char("x") -> [acc EXCEPT !.at = "hex"]
    [] acc.at = "escape" /\ t # Char("x") ->
         [at |-> "text",
          got |-> Append(acc.got, IF \E ch \in DOMAIN letters : Char(letters[ch]) = t
                                  THEN CHOOSE ch \in DOMAIN letters : Char(letters[ch]) = t ELSE "unknown")]
    [] acc.at = "hex" -> [at |-> "text", got |-> Append(acc.got, t[2])]
ReadOf(text, letters) ==
  FoldLeft(LAMBDA acc, t : ReadStep(acc, t, letters), [at |-> "text", got |-> <<>>], text).got
\* The characters that an escape consists of, but for the digits.
EscapeChars == {"backslash", "x"} \cup {Letters[ch] : ch \in DOMAIN Letters}
\* What is escaped has no control character and, if the caller names delimiters (without
\* them a backslash is not escaped), no delimiter in it and can be read back; the filter's
\* text fits into its room at every step, and its reader gets the argument back, trimmed.
EscapesReadBack ==
  LET w == written
  IN /\ w.op \in {"sanitized", "filter"} =>
          \A i \in 1..Len(w.text) : w.text[i][1] = "char" => w.text[i][2] \notin Controls
     /\ w.op = "sanitized" /\ w.delimiters # NoDelimiters =>
          /\ ReadOf(w.text, Letters) = w.buf
          /\ \A ch \in w.delimiters \ EscapeChars : Char(ch) \notin ToSet(w.text)
     /\ w.op = "filter" =>
          /\ \A i \in 1..Len(w.buf) : FilterEnd(w.buf, i) <= w.count
          /\ WidthOf(w.text) < w.count
          /\ w.code = 0 => ReadOf(w.text, LogLetters) = w.buf
     /\ w.op = "hex" => ReadOf(w.text, Letters) = w.buf
=============================================================================
