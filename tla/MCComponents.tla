---------------------------- MODULE MCComponents -----------------------------
(***************************************************************************)
(* Small instances of the components that share nothing with each other: each     *)
(* behaviour is one of one of them, "part", while the others stay as they start.   *)
(* The instances of base 64 and of memory objects are those of their own modules.  *)
(***************************************************************************)
EXTENDS SpawnPosix, SpawnW32, Logging, Locks, Poll, OpenStreams, SyscallClamp,
        Printf, PrintfOut, NameValue, StrList, Memory, Version, Environment,
        ProcCalls, OpenMode, Sanitize, FileNames, MCMemBackend, MCBase64

VARIABLE part

Parts == {"posix", "w32", "log", "lock", "poll", "open", "std", "clamp", "printf", "out", "nv",
          "list", "mem", "base64", "memory", "version", "env", "child", "calls", "mode",
          "sanitize", "names"}

\* A part that does not run starts in one state only.
CompInit ==
  /\ part \in Parts
  /\ PosixInit /\ W32Init /\ LogInit /\ StdInit /\ PrintfInit /\ OutInit /\ SlInit
  /\ MemoryInit /\ VersionInit /\ EnvInit /\ ChildInit /\ OpenModeInit /\ SanitizeInit
  /\ FileNamesInit
  /\ ProcCallInit /\ (part # "calls" => pcObj.os = "posix")
  /\ LockInit /\ (part # "lock" => lockPlatform = "w32")
  /\ PollInit /\ (part # "poll" => interface = "poll" /\ \A i \in PollItems : item[i].ignore)
  /\ OpenInit /\ (part # "open" => platform = "posix")
  /\ ClampInit /\ (part # "clamp" => npth = CHOOSE t \in ClampThread : TRUE)
  /\ NvInit /\ (part # "nv" => nvc.mode = "plain")
  /\ MemInit /\ (part # "mem" => c = func_mem_create(FALSE, TRUE, 0, <<>>, 0))
  /\ Init /\ (part # "base64" => enc = EncStart(NoTitle) /\ source = <<>>)

Rest(p) ==
  /\ IF p = "posix" THEN TRUE ELSE UNCHANGED posixVars
  /\ IF p = "w32" THEN TRUE ELSE UNCHANGED w32Vars
  /\ IF p = "log" THEN TRUE ELSE UNCHANGED logVars
  /\ IF p = "lock" THEN TRUE ELSE UNCHANGED lockVars
  /\ IF p = "poll" THEN TRUE ELSE UNCHANGED pollVars
  /\ IF p = "open" THEN TRUE ELSE UNCHANGED openVars
  /\ IF p = "std" THEN TRUE ELSE UNCHANGED std
  /\ IF p = "clamp" THEN TRUE ELSE UNCHANGED clampVars
  /\ IF p = "printf" THEN TRUE ELSE UNCHANGED printfVars
  /\ IF p = "out" THEN TRUE ELSE UNCHANGED outVars
  /\ IF p = "nv" THEN TRUE ELSE UNCHANGED nvVars
  /\ IF p = "list" THEN TRUE ELSE UNCHANGED slVars
  /\ IF p = "mem" THEN TRUE ELSE UNCHANGED memVars
  /\ IF p = "base64" THEN TRUE ELSE UNCHANGED vars
  /\ IF p = "memory" THEN TRUE ELSE UNCHANGED memoryVars
  /\ IF p = "version" THEN TRUE ELSE UNCHANGED compared
  /\ IF p = "env" THEN TRUE ELSE UNCHANGED envVars
  /\ IF p = "child" THEN TRUE ELSE UNCHANGED childVars
  /\ IF p = "calls" THEN TRUE ELSE UNCHANGED procCallVars
  /\ IF p = "mode" THEN TRUE ELSE UNCHANGED openedMode
  /\ IF p = "sanitize" THEN TRUE ELSE UNCHANGED written
  /\ IF p = "names" THEN TRUE ELSE UNCHANGED nameVars
  /\ UNCHANGED part

CompNext ==
  \/ part = "posix" /\ PosixNext /\ Rest("posix")
  \/ part = "w32" /\ W32Next /\ Rest("w32")
  \/ part = "log" /\ LogNext /\ Rest("log")
  \/ part = "lock" /\ LockNext /\ Rest("lock")
  \/ part = "poll" /\ PollNext /\ Rest("poll")
  \/ part = "open" /\ OpenNext /\ Rest("open")
  \/ part = "std" /\ StdNext /\ Rest("std")
  \/ part = "clamp" /\ ClampNext /\ Rest("clamp")
  \/ part = "printf" /\ PrintfNext /\ Rest("printf")
  \/ part = "out" /\ OutNext /\ Rest("out")
  \/ part = "nv" /\ NvNext /\ Rest("nv")
  \/ part = "list" /\ SlNext /\ Rest("list")
  \/ part = "mem" /\ MemNext /\ Rest("mem")
  \/ part = "base64" /\ Next /\ Rest("base64")
  \/ part = "memory" /\ MemoryNext /\ Rest("memory")
  \/ part = "version" /\ VersionNext /\ Rest("version")
  \/ part = "env" /\ EnvNext /\ Rest("env")
  \/ part = "child" /\ ChildNext /\ Rest("child")
  \/ part = "calls" /\ ProcCallNext /\ Rest("calls")
  \/ part = "mode" /\ OpenModeNext /\ Rest("mode")
  \/ part = "sanitize" /\ SanitizeNext /\ Rest("sanitize")
  \/ part = "names" /\ FileNamesNext /\ Rest("names")

compVars == <<part, posixVars, w32Vars, logVars, lockVars, pollVars, openVars, std, clampVars, printfVars,
              outVars, nvVars, slVars, memVars, vars, memoryVars, compared, envVars, childVars, procCallVars, openedMode,
              written, nameVars>>
CompSpec == CompInit /\ [][CompNext]_compVars
\* The others stay as they started; no action of a memory object looks at the result of
\* the last call; and what a child was to get is compared only while its program runs.
PosixView ==
  <<tab, child, app, orphan, stray,
    [p \in Pid |-> IF proc[p].life \in {"running", "detached"} THEN proc[p]
                   ELSE [proc[p] EXCEPT !.request = <<>>, !.inherit = {}]]>>
CompView ==
  <<part,
    CASE part = "posix" -> PosixView [] part = "w32" -> w32Vars [] part = "log" -> logVars
      [] part = "lock" -> lockVars [] part = "poll" -> pollVars [] part = "open" -> openVars
      [] part = "std" -> std [] part = "clamp" -> clampVars [] part = "printf" -> printfVars
      [] part = "out" -> outVars [] part = "nv" -> nvVars [] part = "list" -> slVars
      [] part = "mem" -> c [] part = "base64" -> vars
      [] part = "memory" -> memoryVars [] part = "version" -> compared [] part = "env" -> envVars
      [] part = "child" -> childVars [] part = "calls" -> procCallVars
      [] part = "mode" -> openedMode [] part = "sanitize" -> written
      [] part = "names" -> nameVars>>

-----------------------------------------------------------------------------
(***************************************************************************)
(* What is stated in several parts.                                         *)
(***************************************************************************)
\* printf: each conversion takes its own argument, an integer is laid out within its field as
\* the C standard says, and a buffer is terminated and never overrun.
PrintfExact == FormatExact /\ IntegerExact /\ BufferExact

\* A name-value container that is written can be read back, and one that is not said to be
\* modified is written as it was read.
ContainersExact == ReadBack /\ UnmodifiedIsSame

\* The base 64 coders compute what the RFC says, in whatever pieces they are called.
Base64Exact == EncodedWhole /\ DecodedWhole /\ RoundTrip

\* Blocks have the room and the bytes they were asked for, emergency handlers run once, and a
\* memory object, whose sizes are words, keeps its data within its buffer and its limit.
MemorySound == AllocExact /\ CleanupOnce /\ TypeOK /\ InBuffer /\ LimitKept

-----------------------------------------------------------------------------
(***************************************************************************)
(* Processes.                                                               *)
(***************************************************************************)
Three(i, o, e) == [n \in 0..2 |-> <<i, o, e>>[n + 1]]
Flagged(i, o, e) == [std |-> Three(i, o, e), sock |-> FALSE, detached |-> FALSE]
MCFlagSets ==
  {Flagged("pipe", "pipe", "pipe"), [Flagged("keep", "null", "pipe") EXCEPT !.sock = TRUE],
   [Flagged("null", "null", "null") EXCEPT !.detached = TRUE]}
MCActs ==
  {[fd |-> Three(-1, -1, -1), except |-> {}], [fd |-> Three(-1, ExtraFd, 2), except |-> {ExtraFd, 7}],
   [fd |-> Three(1, 0, -1), except |-> {0}], [fd |-> Three(-1, -1, 9), except |-> {}]}
MCWFlagSets ==
  {[std |-> Three("pipe", "pipe", "pipe"), nul |-> FALSE, detached |-> FALSE],
   [std |-> Three("keep", "pipe", "none"), nul |-> TRUE, detached |-> FALSE],
   [std |-> Three("none", "none", "none"), nul |-> FALSE, detached |-> TRUE]}
CONSTANTS g1, g2
MCGiven == {g1, g2}
MCWActs ==
  {[hd |-> Three(Invalid, Invalid, Invalid), inherit |-> <<>>],
   [hd |-> Three(Invalid, g1, Invalid), inherit |-> <<g1, g2>>]}

-----------------------------------------------------------------------------
(***************************************************************************)
(* Logging, polling.                                                        *)
(***************************************************************************)
MCHexDumps == {<< <<"debug", "part">>, <<"cont", "line">> >>}
PolledItem(ign, want, fd, pend, hup) ==
  [ignore |-> ign, want |-> want, fd |-> fd, pending |-> pend, hup |-> hup]
IdleItem == PolledItem(TRUE, {"read"}, "f1", TRUE, FALSE)
MCPollItem ==
  {IdleItem, PolledItem(FALSE, {"read"}, "f1", FALSE, FALSE), PolledItem(FALSE, {"write"}, "f2", FALSE, TRUE),
   PolledItem(FALSE, {}, "f2", FALSE, FALSE), PolledItem(FALSE, {"read", "oob"}, "f2", TRUE, FALSE),
   PolledItem(FALSE, {"write", "oob"}, NoPollFd, FALSE, FALSE),
   PolledItem(FALSE, {"read", "write"}, "f2", FALSE, FALSE)}
MCReadiness == {{}, {"in"}, {"out", "hup"}, {"nval"}, {"pri", "in"}}

-----------------------------------------------------------------------------
(***************************************************************************)
(* Formats and integers, containers, lists.                                 *)
(***************************************************************************)
Cv(conv, pos, w, wp, pr, pp, mod, flag) ==
  [kind |-> "conv", conv |-> conv, pos |-> pos, width |-> w, wpos |-> wp, prec |-> pr, ppos |-> pp,
   mod |-> mod, flag |-> flag]
Plain(conv) == Cv(conv, 0, -1, 0, -1, 0, "", "")
MCPiece ==
  {[Plain("") EXCEPT !.kind = "lit"], [Plain("") EXCEPT !.kind = "pct"], Plain("d"), Plain("m"), Plain("y"),
   Cv("d", 0, -2, 0, -2, 0, "ll", ""), Cv("x", 0, 12, 0, 0, 0, "l", "#"), Cv("s", 0, -1, 0, -2, 0, "", ""),
   Cv("m", 0, -2, 0, -1, 0, "", ""), Cv("d", 0, -1, 0, -1, 0, "hh", ""), Cv("d", 1, -1, 0, -1, 0, "", ""),
   Cv("s", 2, -1, 0, -1, 0, "", ""), Cv("s", 1, -2, 2, -1, 0, "", "-"), Cv("d", 3, -2, 2, -2, 1, "", ""),
   Cv("y", 1, -1, 0, -1, 0, "", ""), Cv("d", 1, -2, 0, -1, 0, "", "")}
MCMagnitudes == {-7, 0, 1234}

KeyLine(s) == <<"Key", ":", " ">> \o s \o <<"nl">>
MCFiles ==
  {<< <<"#", "x", "nl">>, <<"nl">>, KeyLine(<<"x">>), <<" ", "x", "x", "nl">>, <<" ", "nl">>,
      <<" ", " ", "x", "nl">>, <<"Foo", ":", "x", "nl">> >>,
   << <<"[", "s", "]", "nl">>, <<"Foo", ":", " ", "x", "nl">>, <<"#", "nl">> >>,
   << KeyLine(<<"x">>), <<"Foo", ":", "nl">>, <<"nl">>, <<" ", "x", "nl">>, KeyLine(<<"x", "x">>) >>,
   << <<"Foo", "nl">> >>}
MCValues == {<<"x", "x", " ", "x", "x", " ", "x", "x", "x", "x", "x", "x", "x", "x", " ", "x", "x">>,
             <<"x", " ", " ", " ", "x", "nl", "x">>}
MCGivenNames == {<<"Key", ":">>, <<"Foo", ":">>, <<"s", ":", "Foo">>, <<"Foo">>}
MCTexts == {<<"a", "blank", "b">>, <<"blank", "a", "empty">>, <<"blank">>}

-----------------------------------------------------------------------------
(***************************************************************************)
(* Strings: sizes, versions, children's arguments and environments, modes, escapes. *)
(***************************************************************************)
MCStrArgs == {<<>>, <<0>>, <<1, 2>>, <<1, 1, 1>>, <<1, 1, 1, 1>>}
Version3(x, y, z) == <<48 + x, Dot, 48 + y, Dot, 48 + z>>
MCVersions ==
  {Version3(1, 2, 3) \o p : p \in {<<>>, <<97>>, <<97, 98>>, <<97, Dot, 98>>, <<97, Dot, 200>>, <<97, 200>>,
                                   <<97, 45, 98>>, <<Dot>>, <<Dot, 97>>, <<45, 97>>}}
    \cup {<<49, Dot, 49, 48, Dot, 51>>, <<49, Dot, 48, 50, Dot, 51>>, <<49, Dot, 50>>, <<49, 50, Dot>>,
          <<49, 50>>, <<51, 50, 55, 54, 56, Dot, 49, Dot, 49>>, <<>>}

MCArguments ==
  {<<>>, <<"x">>, <<"x", "blank", "x">>, <<"quote">>, <<"x", "quote", "quote", "x">>, <<"blank", "quote">>,
   <<"x", "backslash">>, <<"blank", "backslash">>}
MCArgvs == {<<a, b>> : a, b \in MCArguments} \cup {<<a, b, x>> : a, b, x \in MCArguments}
MCEnvBlocks ==
  {SubSeq(<< <<"B", 1>>, <<"A", 2>>, <<"C", 1>>, <<"D", 1>>, <<"E", 1>>, <<"F", 1>> >>, 1, n) : n \in {0, 1, 3, 4, 5, 6}}
MCEnvChanges ==
  LET Change == {<<n, v>> : n \in {"A", "B", "D"}, v \in {1, 2, NoValue}}
  IN {<<a>> : a \in Change} \cup {<<a, b>> : a, b \in Change}

MCModeLetters == {<<>>, <<"+">>, <<"b", "x">>, <<"x", "+">>}
MCModeItem ==
  {KeywordItem("mode", <<"ur", "-", "gr">>, ""), KeywordItem("mode", <<"uw">>, "char"), KeywordItem("samethread", <<>>, "blank"),
   KeywordItem("nonblock", <<>>, ""), KeywordItem("sysopen", <<>>, ""), KeywordItem("sequential", <<>>, ""),
   KeywordItem("share", <<"w", "0", "r">>, ""), KeywordItem("share", <<"d", "z">>, "blank"), KeywordItem("wipe", <<>>, ""),
   KeywordItem("wipe", <<>>, "blank"), KeywordItem("other", <<>>, "char")}
MCModeItems == {<<>>} \cup {<<a>> : a \in MCModeItem} \cup {<<a, b>> : a, b \in MCModeItem}

MCLetters == [nl |-> "n", cr |-> "r", nul |-> "0"]
MCLogLetters == [nl |-> "n", cr |-> "r", ht |-> "t", backslash |-> "backslash"]
MCControls == {"nl", "cr", "nul", "ht", "del"}
MCPrintable == {"a", "n", "x", "colon", "backslash", "space"}
MCBuffers == UNION {[1..k -> MCControls \cup MCPrintable] : k \in 0..2}
MCDelimiters == {NoDelimiters, {}, {"colon"}, {"colon", "backslash"}, {"n", "x"}}

MCNameChar == {"slash", "bslash", "colon", "tilde", "dot", "a", "b", "c", "d", "h", "p", "s"}
MCFirstParts ==
  {<<>>, Slash, <<"tilde">>, <<"tilde", "slash", "a">>, <<"tilde", "a">>, <<"tilde", "a", "slash", "b">>,
   <<"a", "slash", "b">>, <<"dot">>, <<"a", "colon", "b">>, <<"a", "colon", "slash", "slash", "b">>,
   <<"bslash", "a">>, <<"slash", "slash", "a">>, <<"a", "slash", "slash">>}
MCMoreParts ==
  {<<>>, << <<"a">> >>, << <<"dot">> >>, << <<"a">>, <<"b", "bslash">> >>, <<Slash>>,
   << <<"a">>, <<"a">>, <<"a">> >>}
MCHomes == {NoHome, <<>>, <<"slash", "b">>, <<"c", "colon", "slash">>, <<"c", "colon", "bslash", "h">>}
MCSysDirs == [posix |-> {<<"slash", "c">>}, w32 |-> {<<"c", "colon", "bslash", "p">>}]
MCCwds == [posix |-> {Slash, <<"slash", "d">>}, w32 |-> {<<"c", "colon", "bslash">>, <<"c", "colon", "bslash", "d">>, <<"bslash", "bslash", "s", "bslash", "d">>}]
=============================================================================
