------------------------------- MODULE ArgMeta -------------------------------
(***************************************************************************)
(* The meta commands of option files (src/argparse.c): the lines in         *)
(* brackets that open a section for a user, skip a block, set a variable or *)
(* mark the options that follow as forced or as to be ignored.              *)
(*                                                                         *)
(* A parser is a record; every handler is an operator that maps the parser  *)
(* to its successor, with the ARGPARSE_ error it returns in field "r".      *)
(***************************************************************************)
EXTENDS Naturals, Sequences, SequencesExt

CONSTANTS
  Var,       \* the names of variables
  Env,       \* [name -> value]: what getenv finds, or Unset
  Registry,  \* [name -> value]: what the registry holds, or Unset
  Unset,     \* a variable without a value
  Me,        \* the name of the current user
  NoTerm,    \* the second string of a condition, or argument, that is absent
  IfMax      \* how deep the conditions nest: the length of if_active

OK == "ok"            \* a handler returns 0

ASSUME IfMaxIsNat == IfMax \in Nat

(***************************************************************************)
(* The fields of struct _gpgrt_argparse_internal_s that the commands use.   *)
(* if_active is a sequence: if_cond is its length.                          *)
(***************************************************************************)
NoMeta == [in_sysconf |-> FALSE, mark_forced |-> FALSE, mark_ignore |-> FALSE,
           explicit_ignore |-> FALSE, ignore_all_seen |-> FALSE,
           user_seen |-> FALSE, user_wildcard |-> FALSE,
           user_any_active |-> FALSE, user_active |-> FALSE,
           expand |-> FALSE, verbose |-> FALSE,
           explicit_cmd_mode |-> FALSE, cmd_mode |-> FALSE,
           if_active |-> <<>>, vartbl |-> [v \in Var |-> Unset]]

\* The text a term stands for: variables are substituted, an unset one is empty.
get_var(m, v) == IF m.vartbl[v] = Unset THEN "" ELSE m.vartbl[v]
Subst(m, term) == IF term \in Var THEN get_var(m, term) ELSE term

IfActive(m) == m.if_active = <<>> \/ Last(m.if_active)
SectionActive(m) == ~m.in_sysconf \/ ~m.user_seen \/ m.user_active

-----------------------------------------------------------------------------
(***************************************************************************)
(* The handlers.  Each returns [m |-> the new state, r |-> OK or an error]. *)
(***************************************************************************)
Done(m) == [m |-> m, r |-> OK]
Fail(m, error) == [m |-> m, r |-> error]

\* Mutant: a section for the user is not remembered.
handle_meta_user_forgets(m, name) ==
  Done([m EXCEPT !.user_seen = TRUE, !.user_wildcard = @ \/ name = "*",
                 !.user_active = name = "*" \/ (~m.user_wildcard /\ name = Me)])

handle_meta_user(m, name) ==
  LET seen == [m EXCEPT !.user_seen = TRUE]
  IN  Done(IF name = "*"
           THEN [seen EXCEPT !.user_wildcard = TRUE,
                             !.user_active = ~m.user_any_active]
           ELSE IF m.user_wildcard \/ name # Me
           THEN [seen EXCEPT !.user_active = FALSE]
           ELSE [seen EXCEPT !.user_any_active = TRUE, !.user_active = TRUE])

\* A condition is [str1, op, str2].  Operators that compare in other ways
\* behave as "=" and "<>" do.
Evaluate(m, cond) ==
  LET s1 == Subst(m, cond.str1)
      s2 == Subst(m, cond.str2)
  IN  CASE cond.op = "-n" -> s1 # ""
        [] cond.op = "-z" -> s1 = ""
        [] cond.op = "="  -> s1 = s2
        [] cond.op = "<>" -> s1 # s2

WellFormed(cond) == cond.op \in {"-n", "-z"} <=> cond.str2 = NoTerm

handle_meta_if(m, cond) ==
  IF Len(m.if_active) = IfMax THEN Fail(m, "UNEXPECTED_META")
  ELSE IF ~IfActive(m) THEN Done([m EXCEPT !.if_active = Append(@, FALSE)])
  ELSE IF ~WellFormed(cond) THEN Fail(m, "INVALID_META")
  ELSE Done([m EXCEPT !.if_active = Append(@, Evaluate(m, cond))])

\* Alternate 1 and 2 of handle_meta_if.  Outside of a block there is only a note.
\* An [else] clears the flag of the block whatever it was: an active branch
\* is negated, an inactive one stays inactive.
handle_meta_fi(m) ==
  Done(IF m.if_active = <<>> THEN m ELSE [m EXCEPT !.if_active = Front(@)])

handle_meta_else(m) ==
  Done(IF m.if_active = <<>> THEN m
       ELSE [m EXCEPT !.if_active[Len(m.if_active)] =
               IF ~IfActive(m) THEN FALSE ELSE ~@])

set_variable(m, v, value) == [m EXCEPT !.vartbl[v] = value]

\* [let v term] substitutes at once; [-let v] clears.  The name "*", which
\* should clear every variable, is refused with the invalid names.
handle_meta_let(m, v, term) ==
  Done(IF v \notin Var THEN m ELSE set_variable(m, v, Subst(m, term)))
handle_meta_unlet(m, v) ==
  Done(IF v \notin Var THEN m ELSE set_variable(m, v, Unset))

emulated_registry_lookup(m, name) ==
  IF m.in_sysconf THEN Registry[name] ELSE Unset
handle_meta_getenv(m, v, name) == Done(set_variable(m, v, Env[name]))
handle_meta_getreg(m, v, name) ==
  Done(set_variable(m, v, emulated_registry_lookup(m, name)))

handle_meta_force(m, on) == Done([m EXCEPT !.mark_forced = on])

handle_meta_ignore(m, on) ==
  Done([m EXCEPT !.mark_ignore = on, !.explicit_ignore = TRUE])
handle_meta_ignore_all(m) == Done([m EXCEPT !.ignore_all_seen = TRUE])

handle_meta_expand(m, on) == Done([m EXCEPT !.expand = on])
handle_meta_verbose(m, on) == Done([m EXCEPT !.verbose = on])
handle_meta_command(m, on) ==
  Done([m EXCEPT !.explicit_cmd_mode = TRUE, !.cmd_mode = on])

-----------------------------------------------------------------------------
(***************************************************************************)
(* The table of commands and the dispatcher.                               *)
(***************************************************************************)
Commands == {"user", "if", "fi", "else", "let", "-let", "getenv", "getreg",
             "force", "-force", "ignore", "-ignore", "ignore-all", "expand",
             "-expand", "verbose", "-verbose", "command-mode",
             "-command-mode", "echo"}
NeedArg == {"user", "if", "let", "-let", "getenv", "getreg", "echo"}
SysOnly == {"user", "force", "-force", "ignore", "-ignore", "ignore-all"}
NoSkip  == {"user", "verbose", "-verbose", "echo"}

Handler(m, c) ==
  CASE c.cmd = "user" -> handle_meta_user(m, c.arg)
    [] c.cmd = "if"   -> handle_meta_if(m, c.arg)
    [] c.cmd = "fi"   -> handle_meta_fi(m)
    [] c.cmd = "else" -> handle_meta_else(m)
    [] c.cmd = "let"  -> handle_meta_let(m, c.arg.name, c.arg.value)
    [] c.cmd = "-let" -> handle_meta_unlet(m, c.arg.name)
    [] c.cmd = "getenv" -> handle_meta_getenv(m, c.arg.name, c.arg.value)
    [] c.cmd = "getreg" -> handle_meta_getreg(m, c.arg.name, c.arg.value)
    [] c.cmd \in {"force", "-force"} -> handle_meta_force(m, c.cmd = "force")
    [] c.cmd \in {"ignore", "-ignore"} -> handle_meta_ignore(m, c.cmd = "ignore")
    [] c.cmd = "ignore-all" -> handle_meta_ignore_all(m)
    [] c.cmd \in {"expand", "-expand"} -> handle_meta_expand(m, c.cmd = "expand")
    [] c.cmd \in {"verbose", "-verbose"} -> handle_meta_verbose(m, c.cmd = "verbose")
    [] c.cmd \in {"command-mode", "-command-mode"} ->
         handle_meta_command(m, c.cmd = "command-mode")
    [] c.cmd = "echo" -> Done(m)   \* logs a line

\* c is [cmd, arg]; arg is NoTerm if nothing follows the command.
handle_metacmd(m, c) ==
  IF c.cmd \notin Commands THEN Fail(m, "UNKNOWN_META")
  ELSE IF c.cmd \in NeedArg /\ c.arg = NoTerm THEN Fail(m, "MISSING_ARG")
  ELSE IF c.cmd \notin NeedArg /\ c.arg # NoTerm THEN Fail(m, "UNEXPECTED_ARG")
  ELSE IF c.cmd \in SysOnly /\ ~m.in_sysconf THEN Fail(m, "UNEXPECTED_META")
  ELSE IF c.cmd \notin NoSkip /\ ~SectionActive(m) THEN Done(m)
  ELSE IF c.cmd \notin {"if", "fi", "else"} /\ ~IfActive(m) THEN Done(m)
  ELSE Handler(m, c)
=============================================================================
