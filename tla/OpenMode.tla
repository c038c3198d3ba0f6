------------------------------ MODULE OpenMode -------------------------------
(***************************************************************************)
(* The mode string of fopen and its relatives (parse_mode of src/estream.c), the    *)
(* cookies the backends are created with, and what open(2) and CreateFile make of    *)
(* the file.                                                                      *)
(***************************************************************************)
EXTENDS Integers, Sequences, SequencesExt, FiniteSets

CONSTANTS
  ModeLetters, \* the letters after the first one: sequences
  ModeItems,   \* the lists of keywords: sequences of KeywordItem
  NoCookie     \* mem_alloc failed

ASSUME OpenModeAssumption ==
  /\ ModeLetters \subseteq Seq(STRING)
  /\ ModeItems \subseteq Seq([key : STRING, arg : Seq(STRING), tail : STRING])

VARIABLE openedMode  \* the last mode string, what parse_mode made of it, the cookies, the files

\* A keyword with its argument, and what comes after it before the next comma: nothing, a
\* blank, or another character.  The argument of mode= is the sequence of its letters'
\* permissions or dashes, of share= its letters.
KeywordItem(key, arg, tail) == [key |-> key, arg |-> arg, tail |-> tail]
KeyLength(key) ==
  CASE key = "mode" -> 5 [] key = "samethread" -> 10 [] key = "nonblock" -> 8 [] key = "sysopen" -> 7
    [] key = "pollable" -> 8 [] key = "sequential" -> 10 [] key = "share" -> 6 [] key = "wipe" -> 4
    [] OTHER -> 3
CharsOf(n) == [i \in 1..n |-> "char"]
TailText(it) == IF it.tail = "" THEN <<>> ELSE <<it.tail>>
ItemText(it) == <<"comma">> \o CharsOf(KeyLength(it.key) + Len(it.arg)) \o TailText(it)

-----------------------------------------------------------------------------
(***************************************************************************)
(* parse_mode.                                                              *)
(***************************************************************************)
ModeError == [ok |-> FALSE, access |-> "RDONLY", flags |-> {}, xmode |-> {}, cmode |-> {}]
FirstLetter(ch) ==
  CASE ch = "r" -> [ModeError EXCEPT !.ok = TRUE]
    [] ch = "w" -> [ModeError EXCEPT !.ok = TRUE, !.access = "WRONLY", !.flags = {"TRUNC", "CREAT"}]
    [] ch = "a" -> [ModeError EXCEPT !.ok = TRUE, !.access = "WRONLY", !.flags = {"APPEND", "CREAT"}]
    [] OTHER -> ModeError
NextLetter(p, ch) ==
  CASE ch = "+" -> [p EXCEPT !.access = "RDWR"]
    [] ch = "b" -> [p EXCEPT !.flags = @ \cup {"BINARY"}]
    [] ch = "x" -> [p EXCEPT !.flags = @ \cup {"EXCL"}]
    [] OTHER -> p

Blanked(it) == it.tail # "char"
Permissions(arg) == ToSet(arg) \ {"-"}
\* The letters of share= set their bits, and a 0 takes all of them away.
ShareLetter(x, ch) ==
  CASE ch = "r" -> x \cup {"SHARE_READ"} [] ch = "w" -> x \cup {"SHARE_WRITE"}
    [] ch = "d" -> x \cup {"SHARE_DEL"} [] ch = "0" -> {} [] OTHER -> x
ShareBits(arg) == FoldLeft(ShareLetter, {}, arg)
Shared(xmode, arg) ==
  (IF Contains(arg, "0") THEN xmode \ {"SHARE_READ", "SHARE_WRITE", "SHARE_DEL"} ELSE xmode)
    \cup ShareBits(arg) \cup {"SHARE_CUSTOM", "SYSOPEN"}
XFlag(key) ==
  CASE key = "samethread" -> {"SAMETHREAD"} [] key = "sysopen" -> {"SYSOPEN"}
    [] key = "pollable" -> {"POLLABLE"} [] key = "sequential" -> {"SEQUENTIAL"}
    [] key = "wipe" -> {"WIPE"} [] OTHER -> {}
\* Under Windows nonblock implies pollable.
Keyword(p, it, w32) ==
  CASE it.key = "mode" -> [p EXCEPT !.cmode = @ \cup Permissions(it.arg)]
    [] it.key = "nonblock" -> [p EXCEPT !.flags = @ \cup {"NONBLOCK"},
                                        !.xmode = @ \cup (IF w32 THEN {"POLLABLE"} ELSE {})]
    [] it.key = "share" -> [p EXCEPT !.xmode = Shared(@, it.arg)]
    [] OTHER -> [p EXCEPT !.xmode = @ \cup XFlag(it.key)]
\* An argument of share= and an unknown keyword end anywhere; the others at a blank or comma.
GoodTail(it) == it.key \in {"share", "other"} \/ Blanked(it)

\* After wipe the parser goes on ten characters after the keyword's start, six too far: in
\* what follows, or beyond the end of the string, where it may find anything.
WipeSkips == 6
After(items, i) ==
  TailText(items[i]) \o FlattenSeq([j \in 1..(Len(items) - i) |-> ItemText(items[i + j])])
WipeLands(items, i) ==
  LET rest == After(items, i)
  IN IF Len(rest) < WipeSkips THEN "beyond" ELSE IF Len(rest) = WipeSkips THEN "end" ELSE rest[WipeSkips + 1]
WipeDrops(items, i) ==
  Cardinality({j \in 1..WipeSkips : j <= Len(After(items, i)) /\ After(items, i)[j] = "comma"})

\* The items in their order; skip is how many of the next ones a wipe has jumped over.
ParseItem(acc, items, i, w32, beyond) ==
  LET it == items[i]
      lands == WipeLands(items, i)
  IN IF ~acc.p.ok THEN acc
     ELSE IF acc.skip > 0 THEN [acc EXCEPT !.skip = @ - 1]
     ELSE IF it.key = "wipe"
     THEN IF lands = "char" \/ (lands = "beyond" /\ ~beyond) THEN [acc EXCEPT !.p = ModeError]
          ELSE [p |-> Keyword(acc.p, it, w32), skip |-> WipeDrops(items, i)]
     ELSE [acc EXCEPT !.p = IF GoodTail(it) THEN Keyword(@, it, w32) ELSE ModeError]
ParseItems(first, items, w32, beyond) ==
  FoldLeft(LAMBDA acc, i : ParseItem(acc, items, i, w32, beyond),
           [p |-> first, skip |-> 0], [i \in 1..Len(items) |-> i]).p
DefaultMode == {"ur", "uw", "gr", "gw", "or"}
GotMode(items) == \E i \in 1..Len(items) : items[i].key = "mode"
parse_mode(first, letters, items, w32) ==
  LET start == FoldLeft(NextLetter, FirstLetter(first), letters)
      Done(p) == IF p.ok /\ ~GotMode(items) THEN [p EXCEPT !.cmode = DefaultMode] ELSE p
  IN IF ~start.ok THEN {ModeError} ELSE {Done(ParseItems(start, items, w32, b)) : b \in BOOLEAN}

-----------------------------------------------------------------------------
(***************************************************************************)
(* The cookies: func_fd_create, func_sock_create, func_w32_create, func_fp_create,   *)
(* and those of the functions that open a file.                                    *)
(***************************************************************************)
Cookie(no_close, nonblock) == [no_close |-> no_close, nonblock |-> nonblock]
func_fd_create(p, no_close) == {NoCookie, Cookie(no_close, "NONBLOCK" \in p.flags)}
func_sock_create(p, no_close) == {NoCookie, Cookie(no_close, "NONBLOCK" \in p.flags)}
func_w32_create(p, no_close) == {NoCookie, Cookie(no_close, FALSE)}
func_fp_create(p, no_close) == {NoCookie, Cookie(no_close, FALSE)}
Cookies(kind, p, no_close) ==
  CASE kind = "fd" -> func_fd_create(p, no_close) [] kind = "sock" -> func_sock_create(p, no_close)
    [] kind = "w32" -> func_w32_create(p, no_close) [] kind = "fp" -> func_fp_create(p, no_close)

\* The file is "absent", "empty" or "full"; opened or refused, it may be another one after.
\* open(2) gives O_EXCL a meaning with O_CREAT only.
Opens(f, works, after) == [works |-> works, file |-> IF works THEN after ELSE f]
SystemOpen(f, p) ==
  LET Creates == "CREAT" \in p.flags
      Truncates == "TRUNC" \in p.flags
  IN Opens(f, IF f = "absent" THEN Creates ELSE ~(Creates /\ "EXCL" \in p.flags),
           IF f = "absent" \/ Truncates THEN "empty" ELSE f)
\* func_file_create: nobody sets its nonblock.
func_file_create(f, p) ==
  {[cookie |-> NoCookie, file |-> f]}
    \cup (IF SystemOpen(f, p).works
          THEN {[cookie |-> Cookie(FALSE, nb), file |-> SystemOpen(f, p).file] : nb \in BOOLEAN} ELSE {})

DesiredAccess(p) ==
  CASE p.access = "WRONLY" -> {"write"} [] p.access = "RDWR" -> {"read", "write"} [] OTHER -> {"read"}
ShareMode(p) ==
  IF "SHARE_CUSTOM" \in p.xmode
  THEN {s \in {"read", "write", "delete"} :
         <<s, TRUE>> \in {<<"read", "SHARE_READ" \in p.xmode>>, <<"write", "SHARE_WRITE" \in p.xmode>>,
                          <<"delete", "SHARE_DEL" \in p.xmode>>}}
  ELSE DesiredAccess(p)
DispositionTruncFirst(p) ==
  IF "TRUNC" \in p.flags THEN "CREATE_ALWAYS"
  ELSE IF "CREAT" \in p.flags /\ "APPEND" \notin p.flags THEN "OPEN_ALWAYS" ELSE "OPEN_EXISTING"
Disposition(p) ==
  CASE {"CREAT", "EXCL"} \subseteq p.flags -> "CREATE_NEW"
    [] ~({"CREAT", "EXCL"} \subseteq p.flags) /\ "TRUNC" \in p.flags -> "CREATE_ALWAYS"
    [] ~({"CREAT", "EXCL"} \subseteq p.flags) /\ "TRUNC" \notin p.flags /\ "APPEND" \in p.flags -> "OPEN_EXISTING"
    [] OTHER -> IF "CREAT" \in p.flags THEN "OPEN_ALWAYS" ELSE "OPEN_EXISTING"
CreateFile(f, disposition) ==
  CASE disposition = "CREATE_NEW" -> Opens(f, f = "absent", "empty")
    [] disposition = "CREATE_ALWAYS" -> Opens(f, TRUE, "empty")
    [] disposition = "OPEN_ALWAYS" -> Opens(f, TRUE, IF f = "absent" THEN "empty" ELSE f)
    [] disposition = "OPEN_EXISTING" -> Opens(f, f # "absent", f)
func_file_create_w32(f, p) ==
  {[cookie |-> NoCookie, file |-> f]}
    \cup (IF CreateFile(f, Disposition(p)).works
          THEN {[cookie |-> Cookie(FALSE, FALSE), file |-> CreateFile(f, Disposition(p)).file]} ELSE {})

\* One string, for a new file or for what the caller has open already.
NoMode == [first |-> "", items |-> <<>>, p |-> ModeError, kind |-> "none", cookie |-> NoCookie,
           before |-> "absent", file |-> "absent", share |-> {}]
OpenModeInit == openedMode = NoMode
OpenModeNext ==
  /\ openedMode = NoMode
  /\ \E first \in {"r", "w", "a", "q"}, letters \in ModeLetters, items \in ModeItems, w32 \in BOOLEAN :
     \E p \in parse_mode(first, letters, items, w32) :
       LET Done(kind, cookie, before, file) ==
             openedMode' = [first |-> first, items |-> items, p |-> p, kind |-> kind, cookie |-> cookie,
                            before |-> before, file |-> file, share |-> ShareMode(p)]
       IN \/ ~p.ok /\ Done("none", NoCookie, "absent", "absent")
          \/ p.ok /\ \E kind \in IF w32 THEN {"fd", "sock", "w32", "fp"} ELSE {"fd", "fp"}, nc \in BOOLEAN :
                     \E c \in Cookies(kind, p, nc) : Done(kind, c, "absent", "absent")
          \/ p.ok /\ \E f \in {"absent", "empty", "full"} :
                     IF w32 /\ "SYSOPEN" \in p.xmode
                     THEN \E r \in func_file_create_w32(f, p) : Done("sysfile", r.cookie, f, r.file)
                     ELSE \E r \in func_file_create(f, p) : Done("file", r.cookie, f, r.file)

OpenModeSpec == OpenModeInit /\ [][OpenModeNext]_openedMode

-----------------------------------------------------------------------------
\* CreateFile does to the file what open(2) does for the same mode string, but for a string
\* that appends; a file that is only read never changes; and whoever names share modes shares
\* the file with nobody else, though another share= came before.
FileOpenedAlike ==
  LET o == openedMode
      Shares == {i \in 1..Len(o.items) : o.items[i].key = "share"}
      Named == UNION {ToSet(o.items[i].arg) : i \in Shares}
  IN /\ o.kind = "sysfile" /\ "APPEND" \notin o.p.flags =>
          CreateFile(o.before, Disposition(o.p)) = SystemOpen(o.before, o.p)
     /\ o.first = "r" => o.file = o.before
     /\ o.kind = "sysfile" /\ Shares # {} /\ "wipe" \notin {o.items[i].key : i \in 1..Len(o.items)} =>
          /\ "read" \in o.share => "r" \in Named
          /\ "write" \in o.share => "w" \in Named
=============================================================================
