------------------------------ MODULE NameValue ------------------------------
(***************************************************************************)
(* Name-value containers (src/name-value.c): a list of entries that is parsed    *)
(* from a file and written back, in particular private key files.  Texts are     *)
(* sequences of characters; a name without its colon is one character here.      *)
(***************************************************************************)
EXTENDS Integers, FiniteSets, Sequences, SequencesExt

CONSTANTS Names,       \* the names that are used, "Key" among them
          GivenNames,  \* the names that the functions are called with
          Values,      \* the values that are given to add and set
          Files,       \* the files that are parsed: sequences of lines
          LINELEN,     \* room of a line for a value (70)
          Window,      \* how far from the end of a line a space is looked for (30)
          MaxEntries   \* bound: a container holds no more entries

\* No name is so long that the search for a space would leave the value.
ASSUME LineHoldsWindow == Window \in Nat \ {0} /\ LINELEN \in Nat /\ LINELEN - 2 >= Window

Absent == <<"absent">>
NoRaw == <<Absent>>
NoKnown == <<<<Absent, Absent>>>>
Space == {" ", "nl"}
ISpace(c) == c \in Space

VARIABLES nvc,    \* the container: its entries and flags
          file,   \* what nvc_write has just written
          wrote,  \* the entries that it wrote
          known   \* the entries when the modified flag was cleared or the container made
nvVars == <<nvc, file, wrote, known>>

\* valid_name and same_name_p, outside and inside of section mode.
Bare(name) == IF name # <<>> /\ Last(name) = ":" THEN Front(name) ELSE name
valid_name(name, section) ==
  LET b == Bare(name)
  IN  \/ Len(b) = 1 /\ b[1] \in Names
      \/ section /\ Len(b) = 3 /\ b[2] = ":" /\ b[3] \in Names
same_name_p(a, b) == a # Absent /\ Bare(a) = Bare(b)
NameEntry(e) == e.name # Absent

-----------------------------------------------------------------------------
(***************************************************************************)
(* Raw and decoded values.                                                  *)
(***************************************************************************)
AmountWithSpace(value, linelen) ==
  LET spaces == {i \in linelen - Window..linelen - 1 : ISpace(value[i + 1])}
  IN  CASE Len(value) <= linelen -> Len(value)
        [] Len(value) > linelen /\ spaces = {} -> linelen
        [] OTHER -> 1 + CHOOSE i \in spaces : \A j \in spaces : j <= i
\* Where the first line of a value ends: at a space near the end of the line, or hard.
Amount(value, linelen) ==
  LET spaces == {i \in linelen - Window..linelen - 1 : ISpace(value[i + 1])}
  IN  CASE Len(value) <= linelen -> Len(value)
        [] Len(value) > linelen /\ spaces = {} -> linelen
        [] OTHER -> CHOOSE i \in spaces : \A j \in spaces : j <= i

RECURSIVE RawLines(_, _)
RawLines(value, linelen) ==
  IF value = <<>> THEN <<>>
  ELSE LET n == Amount(value, linelen)
       IN  <<<<" ">> \o SubSeq(value, 1, n) \o <<"nl">>>> \o RawLines(SubSeq(value, n + 1, Len(value)), LINELEN)
FirstRoom(name) == IF Len(name) < LINELEN THEN LINELEN - Len(name) ELSE LINELEN
assert_raw_value(e) == IF e.raw # NoRaw THEN e ELSE [e EXCEPT !.raw = RawLines(e.value, FirstRoom(e.name))]

TrimEnd(s) == LET last == {i \in DOMAIN s : ~ISpace(s[i])}
              IN  IF last = {} THEN <<>> ELSE SubSeq(s, 1, CHOOSE i \in last : \A j \in last : j <= i)
TrimStart(s) == Reverse(TrimEnd(Reverse(s)))
\* One more line; a blank one is a newline, and the spaces that start the next one go.
continuation(d, line) ==
  LET s == IF d.swallow THEN TrimStart(line) ELSE IF line # <<>> /\ ISpace(line[1]) THEN Tail(line) ELSE line
      text == TrimEnd(s)
  IN  [value |-> d.value \o (IF text = <<>> THEN <<"nl">> ELSE text), swallow |-> text = <<>>]
DecodedValue(raw) == FoldLeft(continuation, [value |-> <<>>, swallow |-> FALSE], raw).value
assert_value(e) == IF e.value # Absent THEN e ELSE [e EXCEPT !.value = DecodedValue(e.raw)]

-----------------------------------------------------------------------------
(***************************************************************************)
(* Adding and looking up.                                                   *)
(***************************************************************************)
NewContainer(mode) == [entries |-> <<>>, modified |-> TRUE, mode |-> mode]
Lookup(c, name) == LET at == {i \in DOMAIN c.entries : same_name_p(c.entries[i].name, name)}
                   IN  IF at = {} THEN 0 ELSE CHOOSE i \in at : \A j \in at : i <= j

\* The last entry of the block that entry i starts.
BlockEnd(c, i, name) == CHOOSE k \in i..Len(c.entries) :
  /\ \A j \in i..k : same_name_p(c.entries[j].name, name)
  /\ k < Len(c.entries) => ~same_name_p(c.entries[k + 1].name, name)

RefusedEntry(c, e) ==
  /\ e.name # Absent
  /\ \/ ~valid_name(e.name, c.mode = "section")
     \/ c.mode = "privkey" /\ same_name_p(e.name, <<"Key">>) /\ Lookup(c, <<"Key">>) # 0
do_nvc_addQuietly(c, e, preserve) ==
  IF RefusedEntry(c, e) THEN c ELSE [c EXCEPT !.entries = Append(@, e)]
do_nvc_add(c, e, preserve) ==
  LET i == IF e.name = Absent THEN 0 ELSE Lookup(c, e.name)
      k == IF preserve \/ e.name = Absent \/ i = 0 THEN Len(c.entries) ELSE BlockEnd(c, i, e.name)
  IN  IF RefusedEntry(c, e) THEN c
      ELSE [c EXCEPT !.entries = InsertAt(@, k + 1, e), !.modified = TRUE]
Entry(name, value, raw) == [name |-> name, value |-> value, raw |-> raw]

-----------------------------------------------------------------------------
(***************************************************************************)
(* Parsing and writing.                                                     *)
(***************************************************************************)
BlankLine(line) == TrimStart(line) = <<>>
ParseStart(mode) == [c |-> NewContainer(mode), name |-> Absent, raw |-> <<>>, section |-> <<>>, err |-> FALSE]
Flushed(st) ==
  IF st.raw = <<>> THEN [st EXCEPT !.name = Absent]
  ELSE LET e == Entry(st.name, Absent, st.raw)
       IN  [st EXCEPT !.c = do_nvc_add(@, e, TRUE), !.err = RefusedEntry(st.c, e), !.name = Absent, !.raw = <<>>]
IsSection(st, p) == st.c.mode = "section" /\ Len(p) >= 3 /\ p[1] = "[" /\ p[3] = "]"
ParseLine(st, line) ==
  LET p == TrimStart(line)
      colons == {i \in DOMAIN p : p[i] = ":"}
      colon == CHOOSE i \in colons : \A j \in colons : i <= j
      f == Flushed(st)
  IN  IF st.err THEN st
      ELSE IF st.name # Absent /\ (Head(line) = " " \/ BlankLine(line)) THEN [st EXCEPT !.raw = Append(@, line)]
      ELSE IF f.err THEN f
      ELSE IF IsSection(f, p) THEN [f EXCEPT !.section = <<p[2], ":">>]
      ELSE IF p = <<>> \/ p[1] = "#" THEN [f EXCEPT !.raw = <<line>>]
      ELSE IF colons = {} THEN [f EXCEPT !.err = TRUE]
      ELSE [f EXCEPT !.name = f.section \o SubSeq(p, 1, colon), !.raw = <<SubSeq(p, colon + 1, Len(p))>>]
do_nvc_parse(lines, mode) == Flushed(FoldLeft(ParseLine, ParseStart(mode), lines))

\* The text of an entry, and the lines of a text.
write_one_entry(e) == (IF NameEntry(e) THEN e.name ELSE <<>>) \o FlattenSeq(assert_raw_value(e).raw)
IsKey(c, e) == c.mode = "privkey" /\ NameEntry(e) /\ same_name_p(e.name, <<"Key">>)
Ordered(c) == SelectSeq(c.entries, LAMBDA e : ~IsKey(c, e))
              \o SelectSeq(c.entries, LAMBDA e : IsKey(c, e))
nvc_write(c) == FoldLeft(LAMBDA t, e : t \o write_one_entry(e), <<>>, Ordered(c))
RECURSIVE LinesOf(_)
LinesOf(t) == IF t = <<>> THEN <<>>
              ELSE LET ends == {i \in DOMAIN t : t[i] = "nl"}
                       n == IF ends = {} THEN Len(t) ELSE CHOOSE i \in ends : \A j \in ends : i <= j
                   IN  <<SubSeq(t, 1, n)>> \o LinesOf(SubSeq(t, n + 1, Len(t)))

-----------------------------------------------------------------------------
(***************************************************************************)
(* The functions.                                                           *)
(***************************************************************************)
Named(c) == [i \in DOMAIN SelectSeq(c.entries, NameEntry) |->
               LET e == SelectSeq(c.entries, NameEntry)[i] IN <<Bare(e.name), assert_value(e).value>>]
\* The file that was written is looked at once.
Forget == file' = <<>> /\ wrote' = <<>>
NvInit == \E mode \in {"plain", "privkey", "section"} :
  /\ nvc = NewContainer(mode)
  /\ file = <<>> /\ wrote = <<>> /\ known = NoKnown

\* The container is only replaced when it has been parsed without an error.
Parse == \E f \in Files :
  LET st == do_nvc_parse(f, nvc.mode)
  IN  /\ nvc.entries = <<>> /\ nvc.modified /\ known = NoKnown
      /\ ~st.err
      /\ nvc' = st.c
      /\ Forget /\ UNCHANGED known
Add == \E name \in GivenNames, v \in Values :
  /\ Len(nvc.entries) < MaxEntries
  /\ nvc' = do_nvc_add(nvc, Entry(name, v, NoRaw), FALSE)
  /\ Forget /\ UNCHANGED known
SetAt(c, i, v) ==
  IF c.entries[i].value = v THEN c
  ELSE [c EXCEPT !.entries[i] = Entry(@.name, v, NoRaw), !.modified = TRUE]
nvc_set == \E name \in GivenNames, v \in Values :
  /\ valid_name(name, nvc.mode = "section")
  /\ Lookup(nvc, name) = 0 => Len(nvc.entries) < MaxEntries
  /\ nvc' = IF Lookup(nvc, name) # 0 THEN SetAt(nvc, Lookup(nvc, name), v)
            ELSE do_nvc_add(nvc, Entry(name, v, NoRaw), FALSE)
  /\ Forget /\ UNCHANGED known
\* Without its container an entry changes behind the back of the flag.
nve_set == \E i \in DOMAIN nvc.entries, v \in Values :
  /\ NameEntry(nvc.entries[i])
  /\ nvc' = [SetAt(nvc, i, v) EXCEPT !.modified = nvc.modified]
  /\ known' = IF nvc.modified THEN known ELSE Named(nvc')
  /\ Forget
Delete == \E name \in GivenNames :
  /\ nvc' = IF Lookup(nvc, name) = 0 \/ ~valid_name(name, nvc.mode = "section") THEN nvc
            ELSE [nvc EXCEPT !.entries = SelectSeq(@, LAMBDA e : ~same_name_p(e.name, name)),
                             !.modified = TRUE]
  /\ Forget /\ UNCHANGED known
DeleteEntry == \E i \in DOMAIN nvc.entries :
  /\ NameEntry(nvc.entries[i])
  /\ nvc' = [nvc EXCEPT !.entries = RemoveAt(@, i), !.modified = TRUE]
  /\ Forget /\ UNCHANGED known
Value == \E i \in DOMAIN nvc.entries :
  /\ NameEntry(nvc.entries[i])
  /\ nvc' = [nvc EXCEPT !.entries[i] = assert_value(@)]
  /\ Forget /\ UNCHANGED known
ClearModified == /\ nvc' = [nvc EXCEPT !.modified = FALSE]
                 /\ known' = IF nvc.modified THEN Named(nvc) ELSE known
                 /\ Forget
WriteFile ==
  /\ nvc.mode # "section" /\ nvc.entries # <<>>
  /\ nvc' = [nvc EXCEPT !.entries = [i \in DOMAIN @ |-> assert_raw_value(@[i])]]
  /\ file' = nvc_write(nvc)
  /\ wrote' = Ordered(nvc)
  /\ UNCHANGED known
NvNext == Parse \/ Add \/ nvc_set \/ nve_set \/ Delete \/ DeleteEntry \/ Value \/ ClearModified \/ WriteFile

-----------------------------------------------------------------------------
(***************************************************************************)
(* Properties.                                                              *)
(***************************************************************************)
\* What the format can express: a name with its colon, and a value that is not empty and has
\* no newline, no two spaces in a row and none at its ends, or that came from a file.
PlainValue(v) == /\ v # <<>>
                 /\ \A i \in DOMAIN v : v[i] # "nl"
                 /\ \A i \in DOMAIN v : v[i] = " " => i > 1 /\ i < Len(v) /\ v[i - 1] # " "
FromFile(e) == /\ e.raw \notin {NoRaw, <<>>} /\ DecodedValue(e.raw) = assert_value(e).value
               /\ \A i \in DOMAIN e.raw : SelectInSeq(e.raw[i], LAMBDA c : c = "nl") = Len(e.raw[i])
Expressible(e) == NameEntry(e) => Last(e.name) = ":" /\ (FromFile(e) \/ PlainValue(assert_value(e).value))
\* What is written is read back as the same names and values in the same order, but with
\* the Key last in a private key file, however the lines were folded (assert_raw_value,
\* continuation_length, nvc_write, do_nvc_parse).
ReadBack ==
  (wrote # <<>> /\ \A i \in DOMAIN wrote : Expressible(wrote[i])) =>
    LET mode == IF nvc.mode = "section" THEN "plain" ELSE nvc.mode
        st == do_nvc_parse(LinesOf(file), mode)
    IN  ~st.err /\ Named(st.c) = Named([nvc EXCEPT !.entries = wrote])
\* As long as the modified flag is clear the container has the names and values that it had
\* when the flag was cleared (do_nvc_add, nve_set, do_nvc_delete, nvc_get_flag).
UnmodifiedIsSame == ~nvc.modified => Named(nvc) = known
=============================================================================
