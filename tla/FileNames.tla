------------------------------ MODULE FileNames -------------------------------
(***************************************************************************)
(* File names: _gpgrt_vfnameconcat of src/stringutils.c, which joins the parts of  *)
(* a name; _gpgrt_set_confdir of src/argparse.c; and _gpgrt_fname_to_wchar of        *)
(* src/sysutils.c, which makes a name that the Windows API takes however long it is. *)
(* Characters are "slash", "bslash", "colon", "tilde", "dot" and others.           *)
(***************************************************************************)
EXTENDS Integers, Sequences, SequencesExt

CONSTANTS
  NameChar,   \* the characters of names
  FirstParts, \* the first parts of names
  MoreParts,  \* what comes after them: sequences of parts
  Homes,      \* home directories, or NoHome
  SysDirs,    \* [{"posix", "w32"} -> directories of the system's configuration files]
  Cwds,       \* [{"posix", "w32"} -> the working directories, as the system gives them]
  NamesDim,   \* DIM (argv) of vfnameconcat
  NoHome,
  ShortName,  \* 60: so long a name without separator may be
  FirstLen,   \* 1024: the room for the full path at first
  ExtLimit,   \* 250: a longer full path gets the prefix \\?\
  PathLens    \* the lengths of full paths

Slash == <<"slash">>
NthOf(s, i) == IF i <= Len(s) THEN s[i] ELSE "nul"
Slashes(os, name) ==
  [i \in 1..Len(name) |-> IF os = "w32" /\ name[i] = "bslash" THEN "slash" ELSE name[i]]
\* Two slashes that meet, by the place of the first.
Doubles(s) == {i \in 1..(Len(s) - 1) : s[i] = "slash" /\ s[i + 1] = "slash"}
\* A working directory is absolute, and ends with a slash only if it is a root; one on a
\* server starts with two slashes.
IsCwd(os, cwd) ==
  /\ cwd # <<>> /\ Doubles(cwd) \subseteq (IF os = "w32" THEN {1} ELSE {})
  /\ IF os = "posix" THEN cwd = Slash \/ (cwd[1] = "slash" /\ Last(cwd) # "slash")
     ELSE \/ Len(cwd) > 2 /\ cwd[2] = "colon" /\ cwd[3] = "slash" /\ (Len(cwd) = 3 \/ Last(cwd) # "slash")
          \/ Len(cwd) > 2 /\ cwd[1] = "slash" /\ Last(cwd) # "slash"
ASSUME FileNamesAssumption ==
  /\ "slash" \in NameChar /\ NoHome \notin Seq(NameChar)
  /\ NamesDim \in Nat \ {0} /\ FirstLen \in Nat \ {0} /\ ShortName \in Nat /\ ExtLimit \in Nat
  /\ PathLens \subseteq Nat \ {0}
  /\ FirstParts \cup (Homes \ {NoHome}) \subseteq Seq(NameChar) /\ MoreParts \subseteq Seq(Seq(NameChar))
  /\ \A os \in {"posix", "w32"} :
       /\ SysDirs[os] \subseteq Seq(NameChar)
       /\ \A dir \in Cwds[os] : dir \in Seq(NameChar) /\ IsCwd(os, Slashes(os, dir))

VARIABLES
  joined,  \* the last call of vfnameconcat or set_confdir, and what it returned
  wide     \* a call of fname_to_wchar

nameVars == <<joined, wide>>

From(s, i) == SubSeq(s, i, Len(s))
PosOf(s, ch) == IF Contains(s, ch) THEN SelectInSeq(s, LAMBDA x : x = ch) ELSE 0

-----------------------------------------------------------------------------
(***************************************************************************)
(* _gpgrt_vfnameconcat: the room that is counted, and the name that is written.     *)
(***************************************************************************)
\* The directory in front of the first part, and how much of that is skipped for it.
Prefix(dir, skip, delim) == [dir |-> dir, skip |-> skip, delim |-> delim]
NoPrefix == Prefix(NoHome, 1, <<>>)
UserLength(first) == IF PosOf(first, "slash") = 0 THEN Len(first) ELSE PosOf(first, "slash") - 1
PrefixOf(flags, first, home, sysdir) ==
  CASE "SYSCONF" \in flags ->
         Prefix(sysdir, 0, IF sysdir # <<>> /\ Last(sysdir) # "slash" /\ NthOf(first, 1) # "slash"
                           THEN Slash ELSE <<>>)
    [] "SYSCONF" \notin flags /\ "TILDE" \in flags /\ NthOf(first, 1) = "tilde" ->
         IF home = NoHome THEN NoPrefix
         ELSE Prefix(home, IF NthOf(first, 2) \in {"slash", "nul"} THEN 1 ELSE UserLength(first), <<>>)
    [] OTHER -> NoPrefix
\* Each part with a slash, the first part with its NUL, and another NUL.
PartsRoom(first, more) == Len(first) + 2 + FoldLeft(LAMBDA n, x : n + Len(x) + 1, 0, more)
NameRoom(prefix, first, more) ==
  PartsRoom(first, more) + (IF prefix.dir = NoHome THEN 0 ELSE Len(prefix.dir) + Len(prefix.delim))

StartOf(prefix, first) ==
  IF prefix.dir = NoHome THEN first ELSE prefix.dir \o prefix.delim \o From(first, prefix.skip + 1)
JoinedAlways(start, more) == FoldLeft(LAMBDA s, x : s \o Slash \o x, start, more)
\* No second slash after a start that is one slash.
Joined(start, more) ==
  IF more = <<>> THEN start
  ELSE FoldLeft(LAMBDA s, x : s \o Slash \o x,
                (IF start = Slash THEN start ELSE start \o Slash) \o more[1], Tail(more))

\* A name that does not start with a slash, after a drive, gets the working directory; the
\* bytes of a drive are copied from behind the colon, and no room is counted for them.
AfterDrive(os, name) == IF os = "w32" /\ Contains(name, "colon") THEN PosOf(name, "colon") + 1 ELSE 1
Relative(os, name) ==
  NthOf(name, AfterDrive(os, name)) \notin (IF os = "w32" THEN {"slash", "bslash"} ELSE {"slash"})
WithCwd(cwd, name) == (IF cwd = Slash THEN Slash ELSE cwd \o Slash) \o name
BehindColon(os, name, cwd) ==
  LET at == AfterDrive(os, name) rest == From(name, at)
  IN IF Len(rest) < at THEN rest ELSE SubSeq(rest, 1, at) \o WithCwd(cwd, name)
InCwd(os, name, cwd) ==
  IF AfterDrive(os, name) = 1 THEN WithCwd(cwd, name) ELSE BehindColon(os, name, cwd)
AbsRoom(cwd, name) == Len(cwd) + 1 + Len(name) + 1
Compressed(name) ==
  IF Len(name) > 2 /\ IsSuffix(<<"slash", "dot">>, name) THEN SubSeq(name, 1, Len(name) - 2) ELSE name
Absolute(os, name, cwd) ==
  CASE Relative(os, name) -> Compressed(InCwd(os, name, cwd))
    [] ~Relative(os, name) /\ os = "w32" /\ name # <<>> /\ NthOf(name, 2) # "colon"
         /\ <<NthOf(name, 1), NthOf(name, 2)>> \notin {<<"slash", "slash">>, <<"bslash", "bslash">>} ->
         IF NthOf(cwd, 2) = "colon" THEN SubSeq(cwd, 1, 2) \o name ELSE name
    [] OTHER -> name
\* "c://foo" becomes "c:/foo".
OneSlash(os, name) ==
  IF os = "w32" /\ NthOf(name, 2) = "colon" /\ NthOf(name, 3) = "slash" /\ NthOf(name, 4) = "slash"
  THEN RemoveAt(name, 4) ELSE name

NoName(errno) == [errno |-> errno, name |-> <<>>, fits |-> TRUE]
Whole(flags, first, more, home, sysdir) ==
  Joined(StartOf(PrefixOf(flags, first, home, sysdir), first), more)
\* _gpgrt_getcwd.
Getcwd(os, dir) == Slashes(os, dir)
vfnameconcat(os, flags, first, more, home, sysdir, dir) ==
  LET name == Whole(flags, first, more, home, sysdir)
      cwd == Getcwd(os, dir)
  IN IF Len(more) >= NamesDim THEN NoName("EINVAL")
     ELSE [errno |-> "none",
           name |-> Slashes(os, IF "ABS" \in flags THEN OneSlash(os, Absolute(os, name, cwd)) ELSE name),
           fits |-> /\ Len(name) < NameRoom(PrefixOf(flags, first, home, sysdir), first, more)
                    /\ "ABS" \in flags /\ Relative(os, name) => Len(InCwd(os, name, cwd)) < AbsRoom(cwd, name)]

NoJoin == [op |-> "none", os |-> "posix", flags |-> {}, first |-> <<>>, more |-> <<>>, home |-> NoHome,
           sysdir |-> <<>>, cwd |-> <<>>, got |-> NoName("none")]
OneCall == joined = NoJoin /\ wide.at = "none"
Concat ==
  /\ OneCall
  /\ \E os \in {"posix", "w32"}, flags \in SUBSET {"TILDE", "ABS", "SYSCONF"}, first \in FirstParts,
        more \in MoreParts, home \in Homes :
     \E sysdir \in SysDirs[os], cwd \in Cwds[os] :
       \* Without memory, or without a working directory, there is no name.
       \E got \in {vfnameconcat(os, flags, first, more, home, sysdir, cwd), NoName("ENOMEM")} :
         joined' = [op |-> "concat", os |-> os, flags |-> flags, first |-> first, more |-> more,
                    home |-> home, sysdir |-> sysdir, cwd |-> cwd, got |-> got]
  /\ UNCHANGED wide

\* _gpgrt_set_confdir: trailing slashes are taken off, down to one character.
LastKept(name) ==
  CHOOSE n \in 1..Len(name) :
    /\ n = 1 \/ name[n] # "slash"
    /\ \A i \in (n + 1)..Len(name) : name[i] = "slash"
set_confdir(os, name) ==
  LET s == Slashes(os, name) IN IF s = <<>> THEN s ELSE SubSeq(s, 1, LastKept(s))
SetConfdir ==
  /\ OneCall
  /\ \E os \in {"posix", "w32"}, first \in FirstParts, more \in MoreParts :
       LET name == JoinedAlways(first, more)
       IN joined' = [NoJoin EXCEPT !.op = "confdir", !.os = os, !.first = name,
                                   !.got = [errno |-> "none", name |-> set_confdir(os, name), fits |-> TRUE]]
  /\ UNCHANGED wide

-----------------------------------------------------------------------------
(***************************************************************************)
(* _gpgrt_fname_to_wchar.  full is the length of the full path, which another         *)
(* thread's chdir changes between the two calls of GetFullPathNameW.                *)
(***************************************************************************)
NoWide == [at |-> "none", disabled |-> FALSE, translated |-> FALSE, separator |-> FALSE, len |-> 0,
           unc |-> FALSE, full |-> 0, room |-> 0, wname |-> <<>>, result |-> "none"]
WideStarts ==
  /\ OneCall
  /\ \E disabled, translated, separator, unc \in BOOLEAN, len, full \in PathLens :
       /\ len <= full /\ (unc \/ translated => separator)
       /\ wide' = [at |-> IF ~disabled /\ ~translated /\ (separator \/ len > ShortName) THEN "full" ELSE "done",
                   disabled |-> disabled, translated |-> translated, separator |-> separator, len |-> len,
                   unc |-> unc, full |-> full, room |-> FirstLen, wname |-> <<"name", len>>,
                   result |-> IF ~disabled /\ ~translated /\ (separator \/ len > ShortName) THEN "none" ELSE "ok"]
  /\ UNCHANGED joined
Chdir ==
  /\ wide.at = "full"
  /\ \E full \in PathLens : full >= wide.len /\ wide' = [wide EXCEPT !.full = full]
  /\ UNCHANGED joined
\* The prefix, of which "UNC" takes the place of one of the two backslashes.
Extended(w) ==
  IF w.full < ExtLimit THEN <<"full", w.full>>
  ELSE IF w.unc THEN <<"ext_unc", w.full + 6>> ELSE <<"ext", w.full + 4>>
NeedsMore(w) == w.full >= w.room
GetFullPathName ==
  /\ wide.at = "full"
  /\ wide' \in {[wide EXCEPT !.at = "done", !.result = "error"]}
       \cup (IF ~NeedsMore(wide)
             THEN {[wide EXCEPT !.at = "done", !.result = "ok", !.wname = Extended(wide)]}
             ELSE IF wide.room > FirstLen
             THEN {[wide EXCEPT !.at = "done", !.result = "ENAMETOOLONG"]}
             ELSE {[wide EXCEPT !.room = wide.full + 1]})
  /\ UNCHANGED joined

FileNamesInit == joined = NoJoin /\ wide = NoWide
FileNamesNext == Concat \/ SetConfdir \/ WideStarts \/ Chdir \/ GetFullPathName
FileNamesSpec == FileNamesInit /\ [][FileNamesNext]_nameVars

-----------------------------------------------------------------------------
Clean(s) == Doubles(s) = {} /\ (s # <<>> => Last(s) # "slash")
BarePart(s) == Clean(s) /\ s # <<>> /\ s[1] # "slash"
\* A drive without a slash behind it, or a colon that is not behind a drive.
OddDrive(os, name) ==
  os = "w32" /\ \E i \in 1..Len(name) :
                   name[i] = "colon" /\ (i # 2 \/ NthOf(name, 3) \notin {"slash", "bslash"})
Rooted(os, name) ==
  NthOf(name, 1) = "slash" \/ (os = "w32" /\ NthOf(name, 2) = "colon" /\ NthOf(name, 3) = "slash")
\* Nothing that is put together has a slash where the next one starts or a double one.
PartsClean(j) ==
  /\ \A x \in ToSet(j.more) : BarePart(Slashes(j.os, x))
  /\ IF j.first = Slash THEN "SYSCONF" \notin j.flags ELSE Clean(Slashes(j.os, j.first))
  /\ j.home # NoHome => Clean(Slashes(j.os, j.home))
  /\ "SYSCONF" \in j.flags =>
       /\ j.first # <<>> /\ Clean(Slashes(j.os, j.sysdir))
       /\ NthOf(Slashes(j.os, j.first), 1) = "slash" => NthOf(j.first, 1) = "slash"
JoinExact ==
  LET j == joined name == joined.got.name
      whole == Whole(j.flags, j.first, j.more, j.home, j.sysdir)
  IN /\ j.op = "concat" /\ j.got.errno = "none" /\ ("ABS" \in j.flags => ~OddDrive(j.os, whole)) =>
          /\ j.got.fits
          /\ "ABS" \in j.flags => Rooted(j.os, name)
          /\ PartsClean(j) =>
               /\ Doubles(name) \subseteq IF "ABS" \in j.flags THEN Doubles(Getcwd(j.os, j.cwd)) ELSE {}
               /\ j.more # <<>> /\ ~IsSuffix(<<"slash", "dot">>, Slash \o Last(j.more)) =>
                    IsSuffix(Slashes(j.os, Last(j.more)), name)
     /\ j.op = "confdir" => Len(name) <= 1 \/ Last(name) # "slash"
WideExact ==
  wide.result = "ok" /\ wide.wname[1] # "name" =>
    /\ wide.wname[1] = "full" <=> wide.full < ExtLimit
    /\ wide.wname[2] < wide.room + 8
\* A name fits into the room that was counted for it, is absolute if that was asked for, has
\* no double slash where its parts meet (one that the working directory starts with stays)
\* and ends with the last of them, a drive without a slash left aside; a configuration
\* directory has no slash at its end; and a long name for the Windows API has its prefix and
\* fits with it, though the directory may change meanwhile.
NamesExact == JoinExact /\ WideExact
=============================================================================
