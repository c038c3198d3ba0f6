------------------------------ MODULE ArgParse ------------------------------
(***************************************************************************)
(* The argument parser gpgrt_argparser (src/argparse.c): options come from  *)
(* a system file, a user file and the command line, and the system file may *)
(* force options or have them ignored in the places that follow.            *)
(*                                                                         *)
(* A line of a file and an argument of the command line are records; they   *)
(* are the unit of a step.  A call of gpgrt_argparser takes steps until one *)
(* of them returns something, which is appended to "out".                   *)
(***************************************************************************)
EXTENDS ArgMeta, FiniteSets

CONSTANTS
  Opt,         \* the options of the table, with "help" and "version" in it
  Table,       \* [Opt -> [type, optional, command, conffile, ignore]]
  Abbrev,      \* [Opt -> set of its abbreviations]
  SysLines,    \* [topic -> the lines the system file may have]
  UserLines,   \* [topic -> the lines the user's file may have]
  Calls,       \* the ways to call: [topic, flags, conf, args, argv, readable,
               \* errors, sys, user]; args says that there is an argument vector
  None         \* no value

VARIABLES
  arg,    \* the parser: struct gpgrt_argparse_t and its internal part
  attr,   \* [Opt -> SUBSET {"forced", "ignore", "explicit_ignore"}]
  call,   \* the way it is called; sys and user bound the lines of a file
  text,   \* [sys, user]: the lines that were read so far
  out     \* what was returned so far

vars == <<arg, attr, call, text, out>>

Errors == {"INVALID_OPTION", "MISSING_ARG", "KEYWORD_TOO_LONG", "READ_ERROR",
           "UNEXPECTED_ARG", "AMBIGUOUS_OPTION", "INVALID_ARG", "NO_CONFFILE",
           "INVALID_META", "UNKNOWN_META", "UNEXPECTED_META", "INVALID_ALIAS"}
Nothing == "nothing"   \* the step returns nothing: the loop goes on
Eof == "eof"           \* the step returns 0

ASSUME TableIsTable ==
  Table \in [Opt -> [type : {"none", "string", "long"}, optional : BOOLEAN,
                     command : BOOLEAN, conffile : BOOLEAN, ignore : BOOLEAN]]
\* The short_opt of an option is a number above 0; what else r_opt holds is not.
ASSUME OptionsDiffer == Opt \cap (Errors \cup {Nothing, Eof, "CONFFILE", "IS_ARG"}) = {}
ASSUME LinesAssumption ==
  \A c \in Calls : \A l \in SysLines[c.topic] \cup UserLines[c.topic] :
    l.kind \in {"meta", "opt", "iio", "alias", "toolong"}

(***************************************************************************)
(* r is r_opt, rt is r_type as its type t and attribute bits a, val is the  *)
(* union r.  opt_conffile is the ARGPARSE_OPT_CONFFILE bit of opt_flags.    *)
(***************************************************************************)
Fresh == [state |-> "init", r |-> Nothing, rt |-> [t |-> "none", a |-> {}],
          val |-> None, argv |-> <<>>, idx |-> 0, inarg |-> 0, stopped |-> FALSE,
          forceeof |-> FALSE, command_seen |-> FALSE, opt_conffile |-> FALSE,
          explicit_confopt |-> FALSE, explicit_conffile |-> FALSE,
          no_conffile |-> FALSE, iio |-> {}, conf |-> None, meta |-> NoMeta]

NoAttr == [o \in Opt |-> {}]
Flag(f) == f \in call.flags
Takes(o) == Table[o].type # "none"

Init ==
  /\ call \in Calls
  /\ arg = [Fresh EXCEPT !.argv = call.argv]
  /\ attr = NoAttr
  /\ text = [sys |-> <<>>, user |-> <<>>]
  /\ out = <<>>

Returns(p, r) == [p EXCEPT !.r = r]
\* What the caller finds in r_opt, r_type and r.
Result(p) == [state |-> p.state, opt |-> p.r, t |-> p.rt.t, a |-> p.rt.a, val |-> p.val]

\* Attribute bits for a caller that asked for them (ARGPARSE_FLAG_WITHATTR).
AttrBits(at, o, set_ignore) ==
  (at[o] \intersect {"ignore", "forced"}) \cup (IF set_ignore THEN {"OPT_IGNORE"} ELSE {})
AddAttr(p, at, o, set_ignore, flags) ==
  IF "WITHATTR" \in flags
  THEN [p EXCEPT !.rt.a = @ \cup AttrBits(at, o, set_ignore)]
  ELSE p

set_opt_arg(p, o, v) ==
  LET q == [p EXCEPT !.rt = [t |-> Table[o].type, a |-> {}],
                     !.opt_conffile = Table[o].conffile]
  IN  IF Table[o].type = "long" /\ v = "huge" THEN Returns(q, "INVALID_ARG")
      ELSE [q EXCEPT !.val = v]

-----------------------------------------------------------------------------
(***************************************************************************)
(* Lines of a file (_gpgrt_argparse).  A line is one of                      *)
(*   [kind |-> "opt", key, val]   a keyword; val is None at the end of the   *)
(*                                line, "" if only spaces follow             *)
(*   [kind |-> "meta", c, end]    a meta command; end is "ok", "junk" after  *)
(*                                the bracket, or "open" without the bracket *)
(*   [kind |-> "iio", names]      ignore-invalid-option                      *)
(*   [kind |-> "alias", val]      val is "short", or "long" (over 99 bytes)  *)
(*   [kind |-> "toolong"]         a keyword over 99 bytes                    *)
(***************************************************************************)
prepare_arg_return(p, at, o, set_ignore) ==
  LET unwanted == "ignore" \in at[o] /\ "forced" \notin at[o]
      q == IF ~Takes(o) \/ Table[o].optional THEN [p EXCEPT !.rt = [t |-> "none", a |-> {}]]
           ELSE IF unwanted \/ set_ignore THEN p
           ELSE Returns(p, "MISSING_ARG")
  IN  AddAttr(q, at, o, set_ignore, call.flags)

\* In the system file an option takes the attributes that are being set.
Mark(m, at, o) ==
  IF ~m.in_sysconf THEN at
  ELSE [at EXCEPT ![o] = @ \cup (IF m.mark_forced THEN {"forced"} ELSE {})
                           \cup (IF m.mark_ignore THEN {"ignore"} ELSE {})
                           \cup (IF m.explicit_ignore THEN {"explicit_ignore"} ELSE {})]

Suppressed(m, at, o) ==
  IF m.in_sysconf THEN "ignore" \in at[o] /\ "forced" \notin at[o]
  ELSE at[o] \intersect {"ignore", "forced"} # {}

\* The argument of an option, when it is not to be ignored.
TakeArg(p, at, o, val) ==
  IF val = "" THEN prepare_arg_return(p, at, o, FALSE)
  ELSE IF ~Takes(o) THEN Returns(p, "UNEXPECTED_ARG")
  ELSE LET v == IF p.meta.expand THEN Subst(p.meta, val) ELSE val
       IN  AddAttr(set_opt_arg(p, o, v), at, o, FALSE, call.flags)

\* A keyword of the table; at is attr after Mark.
KnownOption(p, at, o, val) ==
  LET q == Returns(p, o)
      set_ignore == Suppressed(p.meta, at, o)
  IN  IF set_ignore /\ ~Flag("WITHATTR") THEN p
      ELSE IF val = None \/ set_ignore \/ ("ignore" \in at[o] /\ "forced" \notin at[o])
      THEN prepare_arg_return(q, at, o, set_ignore)
      ELSE TakeArg(q, at, o, val)

\* The names of the ignore-invalid-option lines, until the end of the file.
ignore_invalid_option_p(p, key) == key \in p.iio
ignore_invalid_option_add(p, names) == [p EXCEPT !.iio = @ \cup names]
ignore_invalid_option_clear(p) == [p EXCEPT !.iio = {}]

\* Only an option at the end of its line is skipped for being in another
\* user's section, or for its ARGPARSE_OPT_IGNORE.
SkippedOption(p, o, val) ==
  val = None /\ (~SectionActive(p.meta) \/ Table[o].ignore)

OptionLine(p, l) ==
  IF l.key \notin Opt
  THEN [p |-> IF ignore_invalid_option_p(p, l.key) THEN p ELSE Returns(p, "INVALID_OPTION"), at |-> attr]
  ELSE IF SkippedOption(p, l.key, l.val) THEN [p |-> p, at |-> attr]
  ELSE LET at == Mark(p.meta, attr, l.key)
       IN  [p |-> KnownOption(p, at, l.key, l.val), at |-> at]

\* Garbage after the bracket returns before the command is looked at.
MetaLine(p, l) ==
  IF l.end # "ok" THEN Returns(p, "INVALID_META")
  ELSE LET res == handle_metacmd(p.meta, l.c)
       IN  IF res.r = OK THEN [p EXCEPT !.meta = res.m] ELSE Returns(p, res.r)

\* No alias can be stored: a short one is refused, and a long one returns the
\* short_opt of the end of the table, which is 0 as at the end of the file.
AliasLine(p, l) == Returns(p, IF l.val = "long" THEN Eof ELSE "UNEXPECTED_ARG")

LineStep(p, l) ==
  IF l.kind = "meta" THEN [p |-> MetaLine(p, l), at |-> attr]
  ELSE IF ~IfActive(p.meta) THEN [p |-> p, at |-> attr]   \* as a comment
  ELSE CASE l.kind = "opt" -> OptionLine(p, l)
         [] l.kind = "iio" -> [p |-> ignore_invalid_option_add(p, l.names), at |-> attr]
         [] l.kind = "alias" -> [p |-> AliasLine(p, l), at |-> attr]
         [] l.kind = "toolong" -> [p |-> Returns(p, "KEYWORD_TOO_LONG"), at |-> attr]

\* The end of the file; a read error is reported before.
EofStep(p, error) ==
  LET q == ignore_invalid_option_clear(p)
  IN  IF error /\ ~p.forceeof THEN Returns([q EXCEPT !.forceeof = TRUE], "READ_ERROR")
      ELSE Returns([q EXCEPT !.forceeof = FALSE], Eof)

-----------------------------------------------------------------------------
(***************************************************************************)
(* Arguments of the command line (arg_parse), one per step.  An argument is *)
(*   [kind |-> "long", key, val]   --key, --key= (val "") or --key=val       *)
(*   [kind |-> "short", opts, val] -abc: the options its letters name, then  *)
(*                                 the text that follows, or None            *)
(*   [kind |-> "stop"]             --                                        *)
(*   [kind |-> "word", key]        anything without a dash                   *)
(***************************************************************************)
Text(tok) == IF tok.kind = "word" THEN tok.key ELSE "--"
Next1(p) == [p EXCEPT !.argv = Tail(@), !.idx = @ + 1]

find_long_option(key) ==
  LET like == {o \in Opt : key \in Abbrev[o]}
  IN  IF key \in Opt THEN {key} ELSE like

\* help and version end the program; the pre-scan (NOVERSION) lets version pass.
handle_special_commands(o, flags) ==
  o = "help" \/ (o = "version" /\ "NOVERSION" \notin flags)
Exit(p) == [p EXCEPT !.state = "exited"]

LongArg(p, o, val) ==
  LET follows == Len(p.argv) > 1
      given == val \notin {None, ""} \/ (val = None /\ follows)
      none == [p EXCEPT !.rt = [t |-> "none", a |-> {}]]
  IN  IF ~Takes(o)
      THEN IF val # None THEN [p EXCEPT !.rt = [t |-> "unexpected_arg", a |-> {}]]
           ELSE [none EXCEPT !.opt_conffile = Table[o].conffile]
      ELSE IF ~given
      THEN IF Table[o].optional THEN none ELSE Returns(p, "MISSING_ARG")
      ELSE IF val # None THEN set_opt_arg(p, o, val)
      ELSE IF Table[o].optional /\ p.argv[2].kind # "word" THEN none
      ELSE Next1(set_opt_arg(p, o, Text(p.argv[2])))

Long(p, tok, flags) ==
  LET found == find_long_option(tok.key)
      o == CHOOSE x \in found : TRUE
      seen(q) == IF Table[o].command THEN [q EXCEPT !.command_seen = TRUE] ELSE q
  IN  IF found = {} THEN Next1(Returns(p, "INVALID_OPTION"))
      ELSE IF Cardinality(found) > 1 THEN Next1(Returns(p, "AMBIGUOUS_OPTION"))
      ELSE IF handle_special_commands(o, flags) THEN Exit(p)
      ELSE Next1(LongArg(seen(Returns(p, o)), o, tok.val))

\* inarg counts the letters of the argument that are done.
Short(p, tok) ==
  LET at == IF p.inarg = 0 THEN 1 ELSE p.inarg
      o == tok.opts[at]
      last == at = Len(tok.opts) /\ tok.val = None
      end(q) == Next1([q EXCEPT !.inarg = 0])
      none == [Returns(p, o) EXCEPT !.rt = [t |-> "none", a |-> {}],
                                    !.opt_conffile = Table[o].conffile]
      more(q) == IF last THEN end(q) ELSE [q EXCEPT !.inarg = at + 1]
  IN  IF o = "h" /\ o \notin Opt THEN Exit(p)   \* shows the help
      ELSE IF o \notin Opt THEN more(Returns(p, "INVALID_OPTION"))
      ELSE IF ~Takes(o) THEN more(none)
      ELSE IF ~last
      THEN end(set_opt_arg(Returns(p, o), o, IF tok.val = None THEN "letters" ELSE tok.val))
      ELSE IF Len(p.argv) = 1
      THEN end(IF Table[o].optional THEN none ELSE Returns(p, "MISSING_ARG"))
      ELSE IF Table[o].optional /\ p.argv[2].kind # "word" THEN end(none)
      ELSE end(Next1(set_opt_arg(Returns(p, o), o, Text(p.argv[2]))))

CommandMode(m, flags) == IF m.explicit_cmd_mode THEN m.cmd_mode ELSE "COMMAND" \in flags
IsCommand(key) == key \in Opt /\ Table[key] =
  [type |-> "none", optional |-> FALSE, command |-> TRUE, conffile |-> FALSE, ignore |-> FALSE]

IsArg(p, tok) ==
  [Next1(Returns(p, "IS_ARG")) EXCEPT !.rt = [t |-> "string", a |-> {}], !.val = Text(tok)]

Word(p, tok, flags) ==
  IF ~p.command_seen /\ CommandMode(p.meta, flags) /\ IsCommand(tok.key)
  THEN IF handle_special_commands(tok.key, flags) THEN Exit(p)
       ELSE Next1([Returns(p, tok.key) EXCEPT !.command_seen = TRUE,
                     !.rt = [t |-> "none", a |-> {}]])
  ELSE IF "MIXED" \in flags THEN IsArg(p, tok)
  ELSE [p EXCEPT !.stopped = TRUE]   \* then again, as an argument

\* Mutant: only the ignored options are dropped.
BarredIgnored(at, o) == {"ignore", "explicit_ignore"} \subseteq at[o]

\* An option that the system file forced or explicitly ignores is dropped.
Barred(at, o) == "forced" \in at[o] \/ {"ignore", "explicit_ignore"} \subseteq at[o]
Screen(p, flags) ==
  IF p.r \notin Opt \/ ~Barred(attr, p.r) THEN p
  ELSE IF "WITHATTR" \in flags THEN AddAttr(p, attr, p.r, TRUE, flags)
  ELSE Returns(p, Nothing)

\* One round of arg_parse.
ArgStep(old, flags) ==
  LET p == [old EXCEPT !.r = Nothing, !.val = None, !.opt_conffile = FALSE]
      tok == Head(p.argv)
  IN  IF p.argv = <<>> THEN Returns(p, Eof)
      ELSE IF p.stopped THEN IF "ALL" \in flags THEN IsArg(p, tok) ELSE Returns(p, Eof)
      ELSE CASE tok.kind = "stop" /\ "NOSTOP" \notin flags ->
                  Next1([p EXCEPT !.stopped = TRUE, !.inarg = 0])
             [] tok.kind = "stop" /\ "NOSTOP" \in flags ->   \* an empty keyword
                  Next1(Returns([p EXCEPT !.inarg = 0], "INVALID_OPTION"))
             [] tok.kind = "long" ->
                  Screen(Long([p EXCEPT !.inarg = 0], tok, flags), flags)
             [] tok.kind = "short" -> Screen(Short(p, tok), flags)
             [] OTHER -> Screen(Word(p, tok, flags), flags)

-----------------------------------------------------------------------------
(***************************************************************************)
(* The state machine of gpgrt_argparser.                                    *)
(***************************************************************************)
\* What a step returned goes to the caller, unless it is nothing, or the end of
\* a file, or an option that names a configuration file and was dealt with.
Deliver(p) ==
  /\ arg' = p
  /\ out' = IF p.r \in {Nothing, Eof} \/ p.opt_conffile THEN out ELSE Append(out, Result(p))

\* The caller is told that a file, or the command line, is about to be read.
Announce(p, name) ==
  Deliver([p EXCEPT !.r = "CONFFILE", !.val = name, !.opt_conffile = FALSE,
             !.rt = [t |-> IF name = None THEN "none" ELSE "string", a |-> {}]])

Rewound(p) == [p EXCEPT !.idx = 0, !.stopped = FALSE, !.forceeof = FALSE, !.inarg = 0,
                        !.meta.verbose = FALSE, !.meta.expand = FALSE]
Goto(p, state) == [p EXCEPT !.state = state, !.r = Nothing]

\* STATE_init.  With a conffile option in the table the command line is read
\* ahead of time; its first string names the user's file, and an option
\* without a value says that none is to be read.
any_opt_conffile == \E o \in Opt : Table[o].conffile
ScanFlags == {"KEEP", "NOVERSION"}
FirstState ==
  IF call.conf = None THEN "open_cmdline"
  ELSE IF Flag("SYS") THEN "open_sys"
  ELSE IF Flag("USER") THEN "open_user"
  ELSE "init"

StartScan ==
  /\ arg.state = "init"
  /\ arg' = IF call.args /\ any_opt_conffile
            THEN Goto(arg, "scan") ELSE Goto(arg, "scanned")
  /\ UNCHANGED <<attr, call, text, out>>

Scan ==
  /\ arg.state = "scan"
  /\ LET p == ArgStep(arg, ScanFlags)
     IN  arg' = IF p.r = Eof THEN Goto(p, "scanned")
                ELSE IF ~p.opt_conffile \/ p.r = Nothing THEN p
                ELSE [p EXCEPT !.explicit_confopt = TRUE,
                               !.explicit_conffile = @ \/ p.rt.t = "string",
                               !.no_conffile = @ \/ p.rt.t = "none"]
  /\ UNCHANGED <<attr, call, text, out>>

\* Mutants: the arguments that were scanned stay consumed; an option not to
\* read a file does not override one that names it.
RestoredNot(p) == [p EXCEPT !.explicit_conffile = @ /\ ~p.no_conffile]
RestoredBoth(p) == [p EXCEPT !.argv = call.argv, !.idx = 0]

\* "Restore parser": the arguments are there again, command_seen is not reset.
Restored(p) == [p EXCEPT !.argv = call.argv, !.idx = 0,
                         !.explicit_conffile = @ /\ ~p.no_conffile]

EndScan ==
  /\ arg.state = "scanned"
  /\ LET p == Restored(arg)
     IN  IF FirstState = "init" THEN Deliver(Returns([p EXCEPT !.state = "init"], "INVALID_ARG"))
         ELSE arg' = Goto(p, FirstState) /\ UNCHANGED out
  /\ UNCHANGED <<attr, call, text>>

OpenSys ==
  /\ arg.state = "open_sys"
  /\ LET p == [Rewound(arg) EXCEPT !.conf = "sys"]
     IN  IF "sys" \in call.readable
         THEN Announce([Goto(p, "read_sys") EXCEPT !.meta.in_sysconf = TRUE], "sys")
         ELSE arg' = Goto(p, IF Flag("USER") THEN "open_user" ELSE "open_cmdline")
              /\ UNCHANGED out
  /\ UNCHANGED <<attr, call, text>>

\* The first of foo.conf-1.2, foo.conf-1 that is readable, else foo.conf.
try_versioned_conffile(readable) ==
  IF "user-1.2" \in readable THEN "user-1.2"
  ELSE IF "user-1" \in readable THEN "user-1" ELSE "user"

UserConf ==
  IF arg.explicit_conffile THEN "explicit"
  ELSE IF Flag("USERVERS") THEN try_versioned_conffile(call.readable) ELSE "user"

OpenUser ==
  /\ arg.state = "open_user"
  /\ IF arg.explicit_confopt /\ ~arg.explicit_conffile
     THEN arg' = Goto(arg, "open_cmdline") /\ UNCHANGED out
     ELSE LET p == [Rewound(arg) EXCEPT !.conf = UserConf, !.meta.in_sysconf = FALSE]
          IN  IF UserConf \in call.readable
              THEN Announce(Goto(p, "read_user"), UserConf)
              ELSE IF arg.explicit_confopt
              THEN Deliver([Returns(p, "NO_CONFFILE") EXCEPT !.state = "open_cmdline",
                                                            !.opt_conffile = FALSE])
              ELSE arg' = Goto(p, "open_cmdline") /\ UNCHANGED out
  /\ UNCHANGED <<attr, call, text>>

OpenCmdline ==
  /\ arg.state = "open_cmdline"
  /\ LET p == [Rewound(arg) EXCEPT !.conf = None, !.meta.in_sysconf = FALSE]
     IN  IF ~call.args THEN arg' = Goto(p, "finished") /\ UNCHANGED out
         ELSE Announce(Goto(p, "read_cmdline"), None)
  /\ UNCHANGED <<attr, call, text>>

\* After the system file: [ignore-all], and the flags of that file are reset.
\* The conditions that are still open are not.
finish_read_sys(p) ==
  [p EXCEPT !.meta.in_sysconf = FALSE, !.meta.user_active = FALSE,
            !.meta.mark_forced = FALSE, !.meta.mark_ignore = FALSE,
            !.meta.explicit_ignore = FALSE, !.meta.ignore_all_seen = FALSE]
IgnoreAll(p) ==
  IF ~p.meta.ignore_all_seen THEN attr
  ELSE [o \in Opt |-> IF "explicit_ignore" \in attr[o] THEN attr[o] ELSE attr[o] \cup {"ignore"}]

Begin(p) == [p EXCEPT !.r = Nothing, !.val = None, !.opt_conffile = FALSE]

ReadSys ==
  /\ arg.state = "read_sys"
  /\ \/ \E l \in SysLines[call.topic] :
          /\ Len(text.sys) < call.sys /\ ~arg.forceeof
          /\ text' = [text EXCEPT !.sys = Append(@, l)]
          /\ LET res == LineStep(Begin(arg), l)
             IN  IF res.p.r = Eof
                 THEN /\ Deliver(Goto(finish_read_sys(res.p), "open_user"))
                      /\ attr' = IgnoreAll(res.p)
                 ELSE Deliver(res.p) /\ attr' = res.at
     \/ \E error \in call.errors :
          LET p == EofStep(Begin(arg), error)
          IN  /\ IF p.r = Eof
                 THEN /\ Deliver(Goto(finish_read_sys(p), "open_user"))
                      /\ attr' = IgnoreAll(p)
                 ELSE Deliver(p) /\ UNCHANGED attr
              /\ UNCHANGED text
  /\ UNCHANGED call

ReadUser ==
  /\ arg.state = "read_user"
  /\ \/ \E l \in UserLines[call.topic] :
          /\ Len(text.user) < call.user /\ ~arg.forceeof
          /\ text' = [text EXCEPT !.user = Append(@, l)]
          /\ LET res == LineStep(Begin(arg), l)
             IN  /\ Deliver(IF res.p.r = Eof THEN Goto(res.p, "open_cmdline") ELSE res.p)
                 /\ attr' = res.at
     \/ \E error \in call.errors :
          LET p == EofStep(Begin(arg), error)
          IN  /\ Deliver(IF p.r = Eof THEN Goto(p, "open_cmdline") ELSE p)
              /\ UNCHANGED <<attr, text>>
  /\ UNCHANGED call

ReadCmdline ==
  /\ arg.state = "read_cmdline"
  /\ LET p == ArgStep(arg, call.flags)
     IN  Deliver(IF p.r = Eof THEN Goto(p, "finished") ELSE p)
  /\ UNCHANGED <<attr, call, text>>

\* The caller sets "err" after an error: the next call prints it and exits.
ExitOnError ==
  /\ arg.r \in Errors /\ ~arg.opt_conffile /\ arg.state \notin {"scan", "exited"}
  /\ arg' = [Exit(arg) EXCEPT !.r = Nothing]
  /\ UNCHANGED <<attr, call, text, out>>

\* The caller releases the parser (a call without an option table).
Release ==
  /\ arg.state = "finished"
  /\ arg' = [Fresh EXCEPT !.state = "released"]
  /\ attr' = NoAttr
  /\ UNCHANGED <<call, text, out>>

Next == \/ StartScan \/ Scan \/ EndScan \/ OpenSys \/ OpenUser \/ OpenCmdline
        \/ ReadSys \/ ReadUser \/ ReadCmdline \/ ExitOnError \/ Release

Spec == Init /\ [][Next]_vars

-----------------------------------------------------------------------------
\* The places options come from, in the order in which they are to be read.
Stage(state) ==
  CASE state \in {"init", "scan", "scanned"} -> 0
    [] state \in {"open_sys", "read_sys"} -> 1
    [] state \in {"open_user", "read_user"} -> 2
    [] state \in {"open_cmdline", "read_cmdline"} -> 3
    [] OTHER -> 4
SourcesInOrder == \A i, j \in 1..Len(out) : i <= j => Stage(out[i].state) <= Stage(out[j].state)
\* The scan ahead and the files leave the arguments for the end.
CommandLineWhole == arg.state \notin {"scan", "scanned"} /\ Stage(arg.state) <= 2 => arg.argv = call.argv
\* What the system file forced or ignored comes from a later place only marked.
Marked(at, flags, r) ==
  /\ r.opt \in Opt
  /\ \/ r.state = "read_user" /\ at[r.opt] \intersect {"ignore", "forced"} # {}
     \/ /\ r.state = "read_cmdline"
        /\ "forced" \in at[r.opt] \/ {"ignore", "explicit_ignore"} \subseteq at[r.opt]
  => "WITHATTR" \in flags /\ "OPT_IGNORE" \in r.a
LockedMarked == \A i \in 1..Len(out) : Marked(attr, call.flags, out[i])
\* An option that the system file forced, or said is to be ignored, is not given by the
\* user's file or by the command line, however the parser got there: a caller that did not
\* ask for attributes never sees it, and another sees that it is to be ignored.  The
\* sources follow one another, and the command line is read from its first argument
\* (_gpgrt_argparse, finish_read_sys, prepare_arg_return, arg_parse).
LockedStays == SourcesInOrder /\ CommandLineWhole /\ LockedMarked
=============================================================================
