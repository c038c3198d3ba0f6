----------------------------- MODULE MCArgParse -----------------------------
(***************************************************************************)
(* A bounded instance of ArgParse, and what the parser promises, said of the *)
(* text of the files rather than of the parser's flags.                      *)
(***************************************************************************)
EXTENDS ArgParse, FiniteSetsExt

Entry(type, conffile, command) ==
  [type |-> type, optional |-> FALSE, command |-> command, conffile |-> conffile,
   ignore |-> FALSE]
MCTable ==
  [flag |-> Entry("none", FALSE, FALSE), quiet |-> Entry("none", FALSE, FALSE),
   str |-> Entry("string", FALSE, FALSE), num |-> Entry("long", FALSE, FALSE),
   opt |-> [Entry("string", FALSE, FALSE) EXCEPT !.optional = TRUE],
   old |-> [Entry("none", FALSE, FALSE) EXCEPT !.ignore = TRUE],
   list |-> Entry("none", FALSE, TRUE),
   options |-> Entry("string", TRUE, FALSE), nooptions |-> Entry("none", TRUE, FALSE),
   help |-> Entry("none", FALSE, TRUE), version |-> Entry("none", FALSE, TRUE)]
MCOpt == DOMAIN MCTable
MCAbbrev == [o \in MCOpt |-> IF o \in {"options", "opt"} THEN {"op", "o"}
                             ELSE IF o = "flag" THEN {"fl"} ELSE {}]
MCVar == {"$v"}
MCEnv == [v \in {"HOME"} |-> "yes"]

O(key) == [kind |-> "opt", key |-> key, val |-> None]
V(key, val) == [kind |-> "opt", key |-> key, val |-> val]
M(cmd, a) == [kind |-> "meta", end |-> "ok", c |-> [cmd |-> cmd, arg |-> a]]
Bad(end) == [kind |-> "meta", end |-> end, c |-> [cmd |-> "force", arg |-> NoTerm]]
If(s) == M("if", [str1 |-> s, op |-> "-n", str2 |-> NoTerm])
Named(v, x) == [name |-> v, value |-> x]

Sections == {O("flag"), O("quiet"), V("str", "x"), M("force", NoTerm), M("ignore", NoTerm),
             M("-ignore", NoTerm), M("user", "joe"), M("user", "wk"), M("user", "*")}
Blocks == {O("flag"), If("yes"), If(""), If("$v"), M("else", NoTerm), M("fi", NoTerm),
           M("let", Named("$v", "yes")), M("ignore", NoTerm)}
Odd == {O("flag"), V("flag", "x"), V("str", ""), V("num", "huge"), O("old"), O("opt"), O("?"),
        V("?", "x"), [kind |-> "iio", names |-> {"?"}], [kind |-> "toolong"],
        [kind |-> "alias", val |-> "long"], [kind |-> "alias", val |-> "short"],
        Bad("junk"), M("what", NoTerm), M("user", NoTerm), M("fi", "x"),
        M("force", NoTerm), M("-force", NoTerm), M("ignore-all", NoTerm),
        M("command-mode", NoTerm), M("expand", NoTerm), M("-expand", NoTerm),
        M("verbose", NoTerm), M("echo", "x"), M("-let", Named("$v", NoTerm)),
        M("getenv", Named("$v", "HOME")), M("getreg", Named("$v", "HOME")),
        M("if", [str1 |-> "yes", op |-> "=", str2 |-> "yes"]),
        M("if", [str1 |-> "$v", op |-> "<>", str2 |-> "yes"]),
        M("if", [str1 |-> "$v", op |-> "-z", str2 |-> NoTerm]),
        M("if", [str1 |-> "yes", op |-> "-z", str2 |-> "yes"])}
MCSysLines == [sections |-> Sections, blocks |-> Blocks, odd |-> Odd, args |-> {M("force", NoTerm),
  M("ignore", NoTerm), O("flag"), O("num")}]
MCUserLines == [sections |-> {O("flag"), O("quiet")}, blocks |-> {O("flag"), M("fi", NoTerm)},
  odd |-> {O("flag"), O("?"), M("force", NoTerm), M("command-mode", NoTerm)}, args |-> {O("flag")}]

L(key) == [kind |-> "long", key |-> key, val |-> None]
LV(key, val) == [kind |-> "long", key |-> key, val |-> val]
S(opts, val) == [kind |-> "short", opts |-> opts, val |-> val]
W(key) == [kind |-> "word", key |-> key]
Stop == [kind |-> "stop"]
ArgTokens == {L("flag"), L("op"), L("fl"), LV("flag", "x"), LV("num", "huge"), L("str"), L("opt"),
              L("nooptions"), LV("options", "f"), L("options"), S(<<"flag", "num">>, "1"),
              S(<<"opt">>, None), S(<<"flag", "?">>, None), W("list"), W("f"), Stop}
Argvs == UNION {[1..n -> ArgTokens] : n \in 0..2}
         \cup {<<L("flag"), a, b>> : a \in {L("nooptions"), LV("options", "f"), Stop, W("f")},
                                     b \in {LV("options", "f"), L("nooptions"), L("flag")}}
         \cup {<<L("help")>>, <<L("version")>>, <<S(<<"h">>, None)>>, <<L("list"), W("list")>>,
               <<LV("str", "")>>, <<S(<<"str">>, None)>>, <<S(<<"str">>, None), W("f")>>}

Call(topic, flags, argv, sys, user) ==
  [topic |-> topic, flags |-> flags, conf |-> "foo.conf", args |-> TRUE, argv |-> argv,
   readable |-> {"sys", "user", "explicit"}, errors |-> {FALSE}, sys |-> sys, user |-> user]
Both == {"SYS", "USER"}
MCCalls ==
  {Call("sections", f, <<L("flag"), L("quiet")>>, 4, 1) : f \in {Both, Both \cup {"WITHATTR"}}}
  \cup {Call("blocks", Both, <<L("flag")>>, 5, 1)}
  \cup {[Call("odd", f, <<L("flag"), L("str")>>, 2, 1) EXCEPT !.errors = BOOLEAN]
          : f \in {Both, Both \cup {"COMMAND", "WITHATTR"}}}
  \cup {Call("args", Both \cup f, argv, 0, 0)
          : f \in {{}, {"MIXED", "COMMAND"}, {"ALL", "NOSTOP"}}, argv \in Argvs}
  \cup {Call("args", Both \cup f, argv, 2, 1)
          : f \in {{}, {"WITHATTR"}},
            argv \in {<<L("flag"), S(<<"flag", "num">>, "1")>>, <<LV("options", "f"), LV("num", "1")>>}}
  \cup {[Call("args", f, <<LV("options", "f")>>, 1, 1) EXCEPT !.readable = r, !.args = a]
          : f \in {{"SYS"}, {"USER"}, {"USER", "USERVERS"}}, a \in BOOLEAN,
            r \in {{}, {"user", "explicit"}, {"user", "user-1"}, {"user-1.2", "user-1", "sys"}}}
  \cup {[Call("args", {"USER", "USERVERS"}, <<L("flag")>>, 0, 1) EXCEPT !.readable = r, !.conf = c]
          : r \in SUBSET {"user", "user-1", "user-1.2"}, c \in {"foo.conf", None}}

-----------------------------------------------------------------------------
(***************************************************************************)
(* What a file says.  In the files of this instance sections and blocks are *)
(* not mixed.                                                               *)
(***************************************************************************)
IsMeta(t, k, cmd) == t[k].kind = "meta" /\ t[k].end = "ok" /\ t[k].c.cmd = cmd
Before(t, i, cmd) == {k \in 1..(i - 1) : IsMeta(t, k, cmd)}

\* The section that line i is in is one for this user: the last [user] line
\* names the user and no [user *] comes before it, or it is a [user *] and no
\* section was for the user.
Specific(t, k) == t[k].c.arg = Me /\ \A j \in Before(t, k, "user") : t[j].c.arg # "*"
InSection(t, i) ==
  LET users == {k \in Before(t, i, "user") : t[k].c.arg # NoTerm}
      k == Max(users)
  IN  \/ users = {}
      \/ Specific(t, k)
      \/ t[k].c.arg = "*" /\ \A j \in {u \in users : u < k} : ~Specific(t, j)

\* The [if] at k is still open at line i, and an [else] of it precedes i.
Nested(t, k, i) ==
  Cardinality(Before(t, i, "if") \ 1..k) - Cardinality(Before(t, i, "fi") \ 1..k)
Open(t, k, i) == \A j \in (k + 1)..i : Nested(t, k, j) >= 0
HasElse(t, k, i) == \E j \in Before(t, i, "else") : j > k /\ Nested(t, k, j) = 0

\* Line i is outside of every block that is to be skipped.  The first [if] that
\* would nest deeper than IfMax is refused and opens nothing; a variable has a
\* value once a [let] that is not skipped has given it one.
InBlocks(t, elseWorks) ==
  LET live[i \in 1..(Len(t) + 1)] ==
        \A k \in Before(t, i, "if") :
          (Open(t, k, i) /\ Cardinality({j \in Before(t, k, "if") : Open(t, j, k)}) < IfMax)
          => LET s == t[k].c.arg.str1
                 true == IF s \in Var THEN \E j \in Before(t, k, "let") : live[j] ELSE s # ""
             IN  IF elseWorks THEN true # HasElse(t, k, i) ELSE true /\ ~HasElse(t, k, i)
  IN  live

\* An [if] beyond IfMax would upset the count of the blocks.
TooDeep(t) == \E i \in 1..Len(t) :
  Cardinality({k \in Before(t, i + 1, "if") : Open(t, k, i + 1)}) > IfMax

Live(t, elseWorks) ==
  LET blocks == InBlocks(t, elseWorks) IN {i \in 1..Len(t) : blocks[i] /\ InSection(t, i)}

\* The last live command of the set says what the option lines after it get, in other
\* sections too: handle_meta_user leaves mark_forced and mark_ignore as they are
\* (argparse.c 929-961).  The example tests/etc/t-argparse.conf, 28-33, says otherwise of
\* [force]: "Valid until the next [user] statement".
Says(t, live, i, cmd, cmds) ==
  LET ks == {k \in live : k < i /\ \E c \in cmds : IsMeta(t, k, c)}
  IN  ks # {} /\ IsMeta(t, Max(ks), cmd)
Lines(t, live, o) == {i \in live : t[i] = O(o)}
Forced(t, live, o, i) ==
  \E j \in Lines(t, live, o) : j <= i /\ Says(t, live, j, "force", {"force", "-force"})
Ignored(t, live, o, i) ==
  \E j \in Lines(t, live, o) : j <= i /\ Says(t, live, j, "ignore", {"ignore", "-ignore"})

Flags == {"flag", "quiet"}
Plain == call.topic \in {"sections", "blocks"} /\ ~TooDeep(text.sys)
Bare(state) == SelectSeq(out, LAMBDA r : r.state = state /\ r.opt \in Flags /\ "OPT_IGNORE" \notin r.a)
Opts(rs) == [k \in DOMAIN rs |-> rs[k].opt]
Keys(t, is) == [k \in 1..Cardinality(is) |-> t[SetToSortSeq(is, <)[k]].key]

SysWanted(live) ==
  {i \in live : \E o \in Flags : /\ text.sys[i] = O(o)
                                 /\ Ignored(text.sys, live, o, i) => Forced(text.sys, live, o, i)}

\* Of the options without a value in the system file, exactly those are returned,
\* in their order, that are in a section for the user and in no skipped block,
\* and not ignored unless forced (handle_meta_user, handle_meta_if,
\* _gpgrt_argparse).
SysReturned ==
  Plain => Opts(Bare("read_sys")) = Keys(text.sys, SysWanted(Live(text.sys, FALSE)))

\* What the text of the system file forces, or says is to be ignored, is not returned from the
\* user's file or from the command line.
LockedHeld ==
  LET live == Live(text.sys, FALSE)
      end == Len(text.sys)
  IN  Plain => \A o \in Flags :
        Forced(text.sys, live, o, end) \/ Ignored(text.sys, live, o, end)
        => \A r \in Range(Bare("read_user") \o Bare("read_cmdline")) : r.opt # o

\* What is not locked is returned from both, once for each time it is given;
\* a block the system file leaves open goes on in the user's file.
FreeReturned ==
  LET both == text.sys \o text.user
      live == Live(text.sys, FALSE)
      blocks == InBlocks(both, FALSE)
      n == Len(text.sys)
      free(o) == ~Forced(text.sys, live, o, n) /\ ~Ignored(text.sys, live, o, n)
      lines == {i \in 1..Len(text.user) : blocks[n + i] /\ text.user[i].kind = "opt"}
  IN  Plain /\ ~TooDeep(both)
      => /\ Opts(Bare("read_user")) = Keys(text.user, {i \in lines : free(text.user[i].key)})
         /\ arg.state = "finished"
            => Opts(Bare("read_cmdline")) =
                 LET given == SelectSeq(call.argv, LAMBDA tok : free(tok.key))
                 IN  [k \in DOMAIN given |-> given[k].key]

\* The arguments that precede the first one that ends the options.
Ends(k) == \/ call.argv[k].kind = "stop"
           \/ call.argv[k].kind = "word" /\ ~(k > 1 /\ \E o \in MCOpt : call.argv[k - 1] = L(o) /\ Takes(o))
           \/ \E e \in {"help"} : call.argv[k] = L(e)
Leading == {k \in DOMAIN call.argv : \A j \in 1..k : ~Ends(j)}
Gives(key) == \E k \in Leading : call.argv[k] \in {L(key), LV(key, "f")}
Consumed == \E k \in DOMAIN call.argv : call.argv[k].kind = "long"
  /\ call.argv[k].val = None /\ call.argv[k].key \in {"str", "options", "opt"}

\* The user's file is the one that the command line names, none at all if it
\* says so, else the longest version that can be read, although the command
\* line is only processed after that file (STATE_init, STATE_open_user).
UserFileChosen ==
  \A i \in DOMAIN out : out[i].opt = "CONFFILE" /\ out[i].state = "read_user" /\ ~Consumed =>
    /\ call.args => ~Gives("nooptions") /\ ((out[i].val = "explicit") <=> Gives("options"))
    /\ out[i].val \in call.readable
    /\ out[i].val = "user" => ~("USERVERS" \in call.flags /\ call.readable \intersect {"user-1", "user-1.2"} # {})

\* The options that come back from a system file, a user's file and the command
\* line are those that the text of the three says, in its order (the state
\* machine of _gpgrt_argparse and the meta commands of handle_metacmd).  One case is not
\* as the repository has it: [force] and [ignore] go on beyond the next [user], in the
\* reference here (Says) as in the code, where tests/etc/t-argparse.conf, 28-33, has
\* a [force] end at it.
FilesExact == SysReturned /\ LockedHeld /\ FreeReturned /\ UserFileChosen

\* A line in the branch that [else] opens is returned, if the condition is false.
ElseTaken ==
  Plain => Opts(Bare("read_sys")) = Keys(text.sys, SysWanted(Live(text.sys, TRUE)))
=============================================================================
