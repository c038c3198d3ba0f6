--------------------------- MODULE ArgParseProofs ---------------------------
(***************************************************************************)
(* Theorems about the option parser (ArgParse), for every table of options,  *)
(* every set of lines the files may consist of and every command line: what  *)
(* the system file locked stays locked, and nothing behind it changes that.   *)
(***************************************************************************)
EXTENDS ArgParse, TLAPS

\* The parser is the record of its fields, whatever they hold.
ParserFields == {"state", "r", "rt", "val", "argv", "idx", "inarg", "stopped", "forceeof", "command_seen",
                 "opt_conffile", "explicit_confopt", "explicit_conffile", "no_conffile", "iio", "conf", "meta"}
MetaFields == {"in_sysconf", "mark_forced", "mark_ignore", "explicit_ignore", "ignore_all_seen",
               "user_seen", "user_wildcard", "user_any_active", "user_active", "expand", "verbose",
               "explicit_cmd_mode", "cmd_mode", "if_active", "vartbl"}
IsMetaPart(m) == DOMAIN m = MetaFields /\ m = [f \in MetaFields |-> m[f]]
IsParser(p) ==
  /\ DOMAIN p = ParserFields /\ p = [f \in ParserFields |-> p[f]]
  /\ p.rt = [t |-> p.rt.t, a |-> p.rt.a]
  /\ IsMetaPart(p.meta)

\* A parser that differs from another one in what it returns, but not in where it is.
Near(p, q) ==
  /\ IsParser(q) /\ q.state = p.state /\ q.argv = p.argv /\ q.meta.in_sysconf = p.meta.in_sysconf

LEMMA NearReturns == ASSUME NEW p, IsParser(p), NEW r PROVE Near(p, Returns(p, r)) /\ Returns(p, r).r = r
  BY DEF Near, Returns, IsParser, ParserFields

LEMMA NearTrans == ASSUME NEW p, NEW q, NEW u, Near(p, q), Near(q, u) PROVE Near(p, u)
  BY DEF Near

LEMMA NearAddAttr ==
  ASSUME NEW p, IsParser(p), NEW at, NEW o, NEW ign \in BOOLEAN, NEW flags
  PROVE  LET q == AddAttr(p, at, o, ign, flags)
         IN /\ Near(p, q) /\ q.r = p.r
            /\ "WITHATTR" \in flags /\ ign => "OPT_IGNORE" \in q.rt.a
  BY DEF AddAttr, AttrBits, Near, IsParser, ParserFields

LEMMA NearSetArg ==
  ASSUME NEW p, IsParser(p), NEW o, NEW v
  PROVE  LET q == set_opt_arg(p, o, v) IN Near(p, q) /\ q.r \in {p.r, "INVALID_ARG"}
  BY DEF set_opt_arg, Returns, Near, IsParser, ParserFields

LEMMA NearPrepare ==
  ASSUME NEW p, IsParser(p), NEW at, NEW o, NEW ign \in BOOLEAN
  PROVE  LET q == prepare_arg_return(p, at, o, ign)
         IN /\ Near(p, q) /\ q.r \in {p.r, "MISSING_ARG"}
            /\ "WITHATTR" \in call.flags /\ ign => "OPT_IGNORE" \in q.rt.a
<1> DEFINE u == IF ~Takes(o) \/ Table[o].optional THEN [p EXCEPT !.rt = [t |-> "none", a |-> {}]]
                ELSE IF ("ignore" \in at[o] /\ "forced" \notin at[o]) \/ ign THEN p
                ELSE Returns(p, "MISSING_ARG")
<1>1. Near(p, u) /\ u.r \in {p.r, "MISSING_ARG"}
  <2>1. Near(p, p)
    BY DEF Near
  <2>2. Near(p, Returns(p, "MISSING_ARG")) /\ Returns(p, "MISSING_ARG").r = "MISSING_ARG"
    BY NearReturns
  <2>3. /\ Near(p, [p EXCEPT !.rt = [t |-> "none", a |-> {}]])
        /\ [p EXCEPT !.rt = [t |-> "none", a |-> {}]].r = p.r
    BY DEF Near, IsParser, ParserFields
  <2> QED BY <2>1, <2>2, <2>3
<1>2. prepare_arg_return(p, at, o, ign) = AddAttr(u, at, o, ign, call.flags)
  BY DEF prepare_arg_return
<1> HIDE DEF u
<1>3. IsParser(u)
  BY <1>1 DEF Near
<1> QED BY <1>1, <1>2, <1>3, NearAddAttr, NearTrans

LEMMA NearTake ==
  ASSUME NEW p, IsParser(p), NEW at, NEW o, NEW val
  PROVE  LET q == TakeArg(p, at, o, val) IN Near(p, q) /\ q.r \in {p.r} \cup Errors
<1>1. {"MISSING_ARG", "INVALID_ARG", "UNEXPECTED_ARG"} \subseteq Errors
  BY DEF Errors
<1>2. CASE val = ""
  <2>1. TakeArg(p, at, o, val) = prepare_arg_return(p, at, o, FALSE)
    BY <1>2 DEF TakeArg
  <2> QED BY <1>1, <2>1, NearPrepare, ZenonT(60)
<1>3. CASE val # "" /\ ~Takes(o)
  <2>1. TakeArg(p, at, o, val) = Returns(p, "UNEXPECTED_ARG")
    BY <1>3 DEF TakeArg
  <2> QED BY <1>1, <2>1, NearReturns
<1>4. CASE val # "" /\ Takes(o)
  <2> DEFINE v == IF p.meta.expand THEN Subst(p.meta, val) ELSE val
             u == set_opt_arg(p, o, v)
  <2>1. TakeArg(p, at, o, val) = AddAttr(u, at, o, FALSE, call.flags)
    BY <1>4 DEF TakeArg
  <2>2. Near(p, u) /\ u.r \in {p.r, "INVALID_ARG"}
    BY NearSetArg
  <2> HIDE DEF u
  <2>3. IsParser(u)
    BY <2>2 DEF Near
  <2>4. Near(u, TakeArg(p, at, o, val)) /\ TakeArg(p, at, o, val).r = u.r
    BY <2>1, <2>3 DEF AddAttr, Near, IsParser, ParserFields
  <2> QED BY <1>1, <2>2, <2>4, NearTrans
<1> QED BY <1>2, <1>3, <1>4

\* An option of a file that is suppressed comes marked, or not at all.
LEMMA KnownNear ==
  ASSUME NEW p, IsParser(p), p.r = Nothing, NEW at, NEW o, NEW val
  PROVE  LET q == KnownOption(p, at, o, val)
         IN /\ Near(p, q) /\ q.r \in {o, Nothing} \cup Errors
            /\ Suppressed(p.meta, at, o) /\ q.r \notin {Nothing} \cup Errors =>
                 "WITHATTR" \in call.flags /\ "OPT_IGNORE" \in q.rt.a
<1> DEFINE u == Returns(p, o)
           ign == Suppressed(p.meta, at, o)
           k == KnownOption(p, at, o, val)
<1>1. Near(p, u) /\ u.r = o /\ u.meta = p.meta
  <2>1. Near(p, u) /\ u.r = o
    BY NearReturns
  <2>2. u.meta = p.meta
    BY DEF Returns, IsParser, ParserFields
  <2> QED BY <2>1, <2>2
<1>2. ign \in BOOLEAN /\ "MISSING_ARG" \in Errors
  BY DEF Suppressed, Errors
<1>3. Near(p, p)
  BY DEF Near
<1>4. \/ k = p /\ "WITHATTR" \notin call.flags /\ ign
      \/ k = prepare_arg_return(u, at, o, ign) /\ (ign => "WITHATTR" \in call.flags)
      \/ k = TakeArg(u, at, o, val) /\ ~ign
  BY DEF KnownOption, Flag
<1> HIDE DEF u, ign, k
<1>5. IsParser(u)
  BY <1>1 DEF Near
<1>6. CASE k = p
  BY <1>3, <1>6 DEF k
<1>7. CASE k = prepare_arg_return(u, at, o, ign) /\ (ign => "WITHATTR" \in call.flags)
  <2>1. /\ Near(u, k) /\ k.r \in {u.r, "MISSING_ARG"}
        /\ "WITHATTR" \in call.flags /\ ign => "OPT_IGNORE" \in k.rt.a
    BY <1>2, <1>5, <1>7, NearPrepare
  <2> QED BY <1>1, <1>2, <1>7, <2>1, NearTrans DEF k, ign
<1>8. CASE k = TakeArg(u, at, o, val) /\ ~ign
  <2>1. Near(u, k) /\ k.r \in {u.r} \cup Errors
    BY <1>5, <1>8, NearTake
  <2> QED BY <1>1, <1>8, <2>1, NearTrans DEF k, ign
<1> QED BY <1>4, <1>6, <1>7, <1>8

\* No meta command says that another file is read.
LEMMA MetaNear ==
  ASSUME NEW m, IsMetaPart(m), NEW c
  PROVE  LET res == handle_metacmd(m, c)
         IN IsMetaPart(res.m) /\ res.m.in_sysconf = m.in_sysconf /\ res.r \in {OK} \cup Errors
<1>1. /\ IsMetaPart(Done(m).m) /\ Done(m).m.in_sysconf = m.in_sysconf /\ Done(m).r = OK
  BY DEF Done
<1>2. ASSUME NEW e \in Errors
      PROVE  IsMetaPart(Fail(m, e).m) /\ Fail(m, e).m.in_sysconf = m.in_sysconf /\ Fail(m, e).r \in Errors
  BY DEF Fail
<1>3. {"UNKNOWN_META", "MISSING_ARG", "UNEXPECTED_ARG", "UNEXPECTED_META", "INVALID_META"} \subseteq Errors
  BY DEF Errors
<1> DEFINE Good(res) ==
      IsMetaPart(res.m) /\ res.m.in_sysconf = m.in_sysconf /\ res.r \in {OK} \cup Errors
<1>4. Good(handle_meta_user(m, c.arg))
  BY DEF handle_meta_user, Done, IsMetaPart, MetaFields
<1>5. Good(handle_meta_if(m, c.arg))
  BY <1>3 DEF handle_meta_if, Done, Fail, IsMetaPart, MetaFields
<1>6. Good(handle_meta_fi(m))
  BY DEF handle_meta_fi, Done, IsMetaPart, MetaFields
<1>7. Good(handle_meta_else(m))
  BY DEF handle_meta_else, Done, IsMetaPart, MetaFields
<1>8. Good(handle_meta_let(m, c.arg.name, c.arg.value))
  BY DEF handle_meta_let, set_variable, Done, IsMetaPart, MetaFields
<1>9. Good(handle_meta_unlet(m, c.arg.name))
  BY DEF handle_meta_unlet, set_variable, Done, IsMetaPart, MetaFields
<1>10. Good(handle_meta_getenv(m, c.arg.name, c.arg.value))
  BY DEF handle_meta_getenv, set_variable, Done, IsMetaPart, MetaFields
<1>11. Good(handle_meta_getreg(m, c.arg.name, c.arg.value))
  BY DEF handle_meta_getreg, set_variable, Done, IsMetaPart, MetaFields
<1>12. Good(handle_meta_force(m, c.cmd = "force"))
  BY DEF handle_meta_force, Done, IsMetaPart, MetaFields
<1>13. Good(handle_meta_ignore(m, c.cmd = "ignore"))
  BY DEF handle_meta_ignore, Done, IsMetaPart, MetaFields
<1>14. Good(handle_meta_ignore_all(m))
  BY DEF handle_meta_ignore_all, Done, IsMetaPart, MetaFields
<1>15. Good(handle_meta_expand(m, c.cmd = "expand"))
  BY DEF handle_meta_expand, Done, IsMetaPart, MetaFields
<1>16. Good(handle_meta_verbose(m, c.cmd = "verbose"))
  BY DEF handle_meta_verbose, Done, IsMetaPart, MetaFields
<1>17. Good(handle_meta_command(m, c.cmd = "command-mode"))
  BY DEF handle_meta_command, Done, IsMetaPart, MetaFields
<1>18. Good(Done(m))
  BY <1>1
<1>19. c.cmd \in Commands => Good(Handler(m, c))
  <2> HIDE DEF Good
  <2> QED BY <1>4, <1>5, <1>6, <1>7, <1>8, <1>9, <1>10, <1>11, <1>12, <1>13, <1>14, <1>15, <1>16, <1>17, <1>18
      DEF Handler, Commands
<1>20. \/ handle_metacmd(m, c) = Done(m)
       \/ c.cmd \in Commands /\ handle_metacmd(m, c) = Handler(m, c)
       \/ \E e \in Errors : handle_metacmd(m, c) = Fail(m, e)
  BY <1>3 DEF handle_metacmd
<1> QED BY <1>2, <1>18, <1>19, <1>20

\* What a line of a file makes of the parser, and of the attributes unless it is the
\* system file's.
LEMMA LineNear ==
  ASSUME NEW p, IsParser(p), p.r = Nothing, NEW l, l.kind \in {"meta", "opt", "iio", "alias", "toolong"}
  PROVE  LET res == LineStep(p, l)
         IN /\ Near(p, res.p) /\ res.p.r \in Opt \cup {Nothing, Eof} \cup Errors
            /\ ~p.meta.in_sysconf =>
                 /\ res.at = attr
                 /\ res.p.r \in Opt /\ attr[res.p.r] \intersect {"ignore", "forced"} # {} =>
                      "WITHATTR" \in call.flags /\ "OPT_IGNORE" \in res.p.rt.a
<1> DEFINE Fine(q) == Near(p, q) /\ q.r \in {Nothing, Eof} \cup Errors
           res == LineStep(p, l)
<1>1. Fine(p)
  BY DEF Near
<1>2. \A e \in Errors \cup {Eof} : Fine(Returns(p, e))
  BY NearReturns
<1>3. Opt \cap ({Nothing, Eof} \cup Errors) = {}
  BY OptionsDiffer
<1>4. {"UNEXPECTED_ARG", "KEYWORD_TOO_LONG", "INVALID_META", "INVALID_OPTION"} \subseteq Errors /\ OK \notin Errors
  BY DEF Errors, OK
<1>5. Fine(MetaLine(p, l))
  <2> DEFINE h == handle_metacmd(p.meta, l.c)
  <2>1. IsMetaPart(h.m) /\ h.m.in_sysconf = p.meta.in_sysconf /\ h.r \in {OK} \cup Errors
    <3>1. IsMetaPart(p.meta)
      BY DEF IsParser
    <3> QED BY <3>1, MetaNear
  <2>2. \/ MetaLine(p, l) = Returns(p, "INVALID_META")
        \/ MetaLine(p, l) = [p EXCEPT !.meta = h.m]
        \/ h.r # OK /\ MetaLine(p, l) = Returns(p, h.r)
    BY DEF MetaLine
  <2> HIDE DEF h
  <2>3. Near(p, [p EXCEPT !.meta = h.m]) /\ [p EXCEPT !.meta = h.m].r = p.r
    BY <2>1 DEF Near, IsParser, ParserFields
  <2>4. Fine([p EXCEPT !.meta = h.m])
    BY <2>3
  <2>5. h.r # OK => Fine(Returns(p, h.r))
    BY <1>2, <2>1
  <2> HIDE DEF Fine
  <2> QED BY <1>2, <1>4, <2>2, <2>4, <2>5
<1>6. Fine(ignore_invalid_option_add(p, l.names))
  BY DEF ignore_invalid_option_add, Near, IsParser, ParserFields
<1>7. Fine(AliasLine(p, l))
  BY <1>2, <1>4 DEF AliasLine
<1>8. CASE Fine(res.p) /\ res.at = attr
  <2> HIDE DEF res
  <2> QED BY <1>3, <1>8 DEF res
<1>9. CASE /\ l.key \in Opt
           /\ res = [p |-> KnownOption(p, Mark(p.meta, attr, l.key), l.key, l.val), at |-> Mark(p.meta, attr, l.key)]
  <2> DEFINE at == Mark(p.meta, attr, l.key)
             q == KnownOption(p, at, l.key, l.val)
  <2>1. /\ Near(p, q) /\ q.r \in {l.key, Nothing} \cup Errors
        /\ Suppressed(p.meta, at, l.key) /\ q.r \notin {Nothing} \cup Errors =>
             "WITHATTR" \in call.flags /\ "OPT_IGNORE" \in q.rt.a
    BY KnownNear
  <2>2. ~p.meta.in_sysconf => at = attr
    BY DEF Mark
  <2>3. ~p.meta.in_sysconf => (Suppressed(p.meta, at, l.key) <=> at[l.key] \intersect {"ignore", "forced"} # {})
    BY DEF Suppressed
  <2>4. res.p = q /\ res.at = at
    BY <1>9
  <2> HIDE DEF at, q, res
  <2>5. q.r \in Opt => q.r = l.key /\ q.r \notin {Nothing} \cup Errors
    BY <1>3, <2>1
  <2>6. res.p.r \in Opt \cup {Nothing, Eof} \cup Errors
    BY <1>9, <2>1, <2>4
  <2> QED BY <2>1, <2>2, <2>3, <2>4, <2>5, <2>6 DEF res
<1>10. \/ Fine(res.p) /\ res.at = attr
       \/ /\ l.key \in Opt
          /\ res = [p |-> KnownOption(p, Mark(p.meta, attr, l.key), l.key, l.val), at |-> Mark(p.meta, attr, l.key)]
  <2> HIDE DEF Fine
  <2>1. CASE l.kind = "meta"
    BY <1>5, <2>1 DEF LineStep
  <2>2. CASE l.kind # "meta" /\ ~IfActive(p.meta)
    BY <1>1, <2>2 DEF LineStep
  <2>3. CASE l.kind = "opt" /\ IfActive(p.meta)
    <3>1. res = OptionLine(p, l)
      BY <2>3 DEF LineStep
    <3>2. CASE l.key \notin Opt
      BY <1>1, <1>2, <1>4, <3>1, <3>2 DEF OptionLine
    <3>3. CASE l.key \in Opt /\ SkippedOption(p, l.key, l.val)
      BY <1>1, <3>1, <3>3 DEF OptionLine
    <3>4. CASE l.key \in Opt /\ ~SkippedOption(p, l.key, l.val)
      BY <3>1, <3>4 DEF OptionLine
    <3> QED BY <3>2, <3>3, <3>4
  <2>4. CASE l.kind = "iio" /\ IfActive(p.meta)
    BY <1>6, <2>4 DEF LineStep
  <2>5. CASE l.kind = "alias" /\ IfActive(p.meta)
    BY <1>7, <2>5 DEF LineStep
  <2>6. CASE l.kind = "toolong" /\ IfActive(p.meta)
    BY <1>2, <1>4, <2>6 DEF LineStep
  <2> QED BY <2>1, <2>2, <2>3, <2>4, <2>5, <2>6
<1> HIDE DEF Fine, res
<1> QED BY <1>8, <1>9, <1>10 DEF res

LEMMA EndNear ==
  ASSUME NEW p, IsParser(p), NEW error
  PROVE  Near(p, EofStep(p, error)) /\ EofStep(p, error).r \in {Eof} \cup Errors
<1>1. "READ_ERROR" \in Errors
  BY DEF Errors
<1> QED BY <1>1 DEF EofStep, ignore_invalid_option_clear, Returns, Near, IsParser, ParserFields

-----------------------------------------------------------------------------
(***************************************************************************)
(* Arguments.                                                               *)
(***************************************************************************)
\* A parser that has taken arguments, or has exited.
Later(p, q) == IsParser(q) /\ q.state \in {p.state, "exited"}

LEMMA LaterTrans == ASSUME NEW p, NEW q, NEW u, Later(p, q), Later(q, u) PROVE Later(p, u)
  BY DEF Later

LEMMA NearLater == ASSUME NEW p, NEW q, Near(p, q) PROVE Later(p, q)
  BY DEF Near, Later

LEMMA LaterSteps ==
  ASSUME NEW p, IsParser(p)
  PROVE  /\ Later(p, p) /\ Later(p, Next1(p)) /\ Later(p, Exit(p)) /\ \A r : Later(p, Returns(p, r))
         /\ \A o, v : Later(p, set_opt_arg(p, o, v))
         /\ Later(p, [p EXCEPT !.command_seen = TRUE]) /\ Later(p, [p EXCEPT !.stopped = TRUE])
         /\ \A n : Later(p, [p EXCEPT !.inarg = n]) /\ \A b : Later(p, [p EXCEPT !.opt_conffile = b])
         /\ \A v : Later(p, [p EXCEPT !.val = v])
         /\ \A t : Later(p, [p EXCEPT !.rt = [t |-> t, a |-> {}]])
<1>1. Later(p, p)
  BY DEF Later
<1>2. Later(p, Next1(p)) /\ Later(p, Exit(p))
  BY DEF Later, Next1, Exit, IsParser, ParserFields
<1>3. \A r : Later(p, Returns(p, r))
  BY NearReturns, NearLater
<1>4. \A o, v : Later(p, set_opt_arg(p, o, v))
  BY NearSetArg, NearLater
<1>5. Later(p, [p EXCEPT !.command_seen = TRUE]) /\ Later(p, [p EXCEPT !.stopped = TRUE])
  BY DEF Later, IsParser, ParserFields
<1>6. \A n : Later(p, [p EXCEPT !.inarg = n])
  BY DEF Later, IsParser, ParserFields
<1>7. \A b : Later(p, [p EXCEPT !.opt_conffile = b])
  BY DEF Later, IsParser, ParserFields
<1>8. \A v : Later(p, [p EXCEPT !.val = v])
  BY DEF Later, IsParser, ParserFields
<1>9. \A t : Later(p, [p EXCEPT !.rt = [t |-> t, a |-> {}]])
  BY DEF Later, IsParser, ParserFields
<1> QED BY <1>1, <1>2, <1>3, <1>4, <1>5, <1>6, <1>7, <1>8, <1>9

\* One step more.
LEMMA LaterOn ==
  ASSUME NEW p, NEW q, Later(p, q)
  PROVE  /\ Later(p, Next1(q)) /\ Later(p, Exit(q)) /\ \A r : Later(p, Returns(q, r))
         /\ \A o, v : Later(p, set_opt_arg(q, o, v))
         /\ Later(p, [q EXCEPT !.command_seen = TRUE]) /\ Later(p, [q EXCEPT !.stopped = TRUE])
         /\ \A n : Later(p, [q EXCEPT !.inarg = n]) /\ \A b : Later(p, [q EXCEPT !.opt_conffile = b])
         /\ \A v : Later(p, [q EXCEPT !.val = v])
         /\ \A t : Later(p, [q EXCEPT !.rt = [t |-> t, a |-> {}]])
<1>1. IsParser(q)
  BY DEF Later
<1> QED BY <1>1, LaterSteps, LaterTrans

LEMMA LongArgLater ==
  ASSUME NEW p, IsParser(p), NEW o, NEW val PROVE Later(p, LongArg(p, o, val))
<1> DEFINE none == [p EXCEPT !.rt = [t |-> "none", a |-> {}]]
           q == LongArg(p, o, val)
<1>1. Later(p, none)
  BY LaterSteps
<1>2. \/ q = [p EXCEPT !.rt = [t |-> "unexpected_arg", a |-> {}]]
      \/ q = [none EXCEPT !.opt_conffile = Table[o].conffile]
      \/ q = none
      \/ q = Returns(p, "MISSING_ARG")
      \/ q = set_opt_arg(p, o, val)
      \/ q = Next1(set_opt_arg(p, o, Text(p.argv[2])))
  BY DEF LongArg
<1>3. Later(p, set_opt_arg(p, o, Text(p.argv[2])))
  BY LaterSteps
<1>4. Later(p, Next1(set_opt_arg(p, o, Text(p.argv[2]))))
  BY <1>3, LaterOn
<1>5. Later(p, [none EXCEPT !.opt_conffile = Table[o].conffile])
  <2> HIDE DEF none
  <2> QED BY <1>1, LaterOn
<1>6. Later(p, [p EXCEPT !.rt = [t |-> "unexpected_arg", a |-> {}]])
  BY LaterSteps
<1>7. Later(p, Returns(p, "MISSING_ARG")) /\ Later(p, set_opt_arg(p, o, val))
  BY LaterSteps
<1> HIDE DEF none, q
<1> QED BY <1>1, <1>2, <1>4, <1>5, <1>6, <1>7 DEF q

LEMMA LongLater ==
  ASSUME NEW p, IsParser(p), NEW tok, NEW flags PROVE Later(p, Long(p, tok, flags))
<1> DEFINE found == find_long_option(tok.key)
           o == CHOOSE x \in found : TRUE
           r == Returns(p, o)
           seen == IF Table[o].command THEN [r EXCEPT !.command_seen = TRUE] ELSE r
           q == Long(p, tok, flags)
<1>1. Later(p, r)
  BY LaterSteps
<1>2. Later(p, seen)
  <2>1. Later(p, [r EXCEPT !.command_seen = TRUE])
    <3> HIDE DEF r
    <3> QED BY <1>1, LaterOn
  <2> QED BY <1>1, <2>1
<1>3. \/ q = Next1(Returns(p, "INVALID_OPTION"))
      \/ q = Next1(Returns(p, "AMBIGUOUS_OPTION"))
      \/ q = Exit(p)
      \/ q = Next1(LongArg(seen, o, tok.val))
  BY DEF Long
<1> HIDE DEF seen, q, r, o, found
<1>4. Later(p, LongArg(seen, o, tok.val))
  <2>1. IsParser(seen)
    BY <1>2 DEF Later
  <2> QED BY <1>2, <2>1, LongArgLater, LaterTrans
<1>5. Later(p, Next1(LongArg(seen, o, tok.val)))
  BY <1>4, LaterOn
<1>6. Later(p, Next1(Returns(p, "INVALID_OPTION"))) /\ Later(p, Next1(Returns(p, "AMBIGUOUS_OPTION")))
  BY LaterSteps, LaterOn
<1>7. Later(p, Exit(p))
  BY LaterSteps
<1> QED BY <1>3, <1>5, <1>6, <1>7 DEF q

LEMMA ShortLater ==
  ASSUME NEW p, IsParser(p), NEW tok PROVE Later(p, Short(p, tok))
<1> DEFINE at == IF p.inarg = 0 THEN 1 ELSE p.inarg
           o == tok.opts[at]
           last == at = Len(tok.opts) /\ tok.val = None
           end(q) == Next1([q EXCEPT !.inarg = 0])
           none == [Returns(p, o) EXCEPT !.rt = [t |-> "none", a |-> {}],
                                         !.opt_conffile = Table[o].conffile]
           more(q) == IF last THEN end(q) ELSE [q EXCEPT !.inarg = at + 1]
<1>1. ASSUME NEW q, Later(p, q) PROVE Later(p, end(q)) /\ Later(p, more(q))
  <2>1. Later(p, [q EXCEPT !.inarg = 0]) /\ Later(p, [q EXCEPT !.inarg = at + 1])
    BY <1>1, LaterOn
  <2>2. Later(p, end(q))
    BY <2>1, LaterOn
  <2> QED BY <2>1, <2>2
<1>2. \A x : Later(p, Returns(p, x))
  BY LaterSteps
<1>3. Later(p, none)
  <2> DEFINE r == Returns(p, o)
             s == [r EXCEPT !.rt = [t |-> "none", a |-> {}]]
  <2>1. Later(p, r)
    BY <1>2
  <2>2. Later(p, s)
    <3> HIDE DEF r
    <3> QED BY <2>1, LaterOn
  <2>3. none = [s EXCEPT !.opt_conffile = Table[o].conffile]
    OBVIOUS
  <2> HIDE DEF s, none
  <2> QED BY <2>2, <2>3, LaterOn
<1>4. \A v : Later(p, set_opt_arg(Returns(p, o), o, v))
  BY <1>2, LaterOn
<1>5. Later(p, Next1(set_opt_arg(Returns(p, o), o, Text(p.argv[2]))))
  BY <1>4, LaterOn
<1>6. Later(p, Exit(p))
  BY LaterSteps
<1>7. \/ Short(p, tok) = Exit(p)
      \/ Short(p, tok) = more(Returns(p, "INVALID_OPTION"))
      \/ Short(p, tok) = more(none)
      \/ Short(p, tok) = end(set_opt_arg(Returns(p, o), o, IF tok.val = None THEN "letters" ELSE tok.val))
      \/ Short(p, tok) = end(none)
      \/ Short(p, tok) = end(Returns(p, "MISSING_ARG"))
      \/ Short(p, tok) = end(Next1(set_opt_arg(Returns(p, o), o, Text(p.argv[2]))))
  BY ZenonT(60) DEF Short
<1> HIDE DEF end, more, none, o, at, last
<1> QED BY <1>1, <1>2, <1>3, <1>4, <1>5, <1>6, <1>7

LEMMA IsArgLater ==
  ASSUME NEW p, IsParser(p), NEW tok PROVE Later(p, IsArg(p, tok)) /\ IsArg(p, tok).r = "IS_ARG"
<1>1. Later(p, Next1(Returns(p, "IS_ARG"))) /\ Next1(Returns(p, "IS_ARG")).r = "IS_ARG"
  <2>1. Later(p, Next1(Returns(p, "IS_ARG")))
    BY LaterSteps, LaterOn
  <2> QED BY <2>1 DEF Next1, Returns, IsParser, ParserFields
<1> DEFINE n == Next1(Returns(p, "IS_ARG"))
<1>2. IsArg(p, tok) = [n EXCEPT !.rt = [t |-> "string", a |-> {}], !.val = Text(tok)]
  BY DEF IsArg
<1> HIDE DEF n
<1> QED BY <1>1, <1>2, ZenonT(60) DEF Later, IsParser, ParserFields, n

LEMMA WordLater ==
  ASSUME NEW p, IsParser(p), NEW tok, NEW flags PROVE Later(p, Word(p, tok, flags))
<1> DEFINE c == [Returns(p, tok.key) EXCEPT !.command_seen = TRUE, !.rt = [t |-> "none", a |-> {}]]
<1>1. Later(p, c)
  <2> DEFINE r == Returns(p, tok.key)
             s == [r EXCEPT !.command_seen = TRUE]
  <2>1. Later(p, r)
    BY LaterSteps
  <2>2. Later(p, s)
    <3> HIDE DEF r
    <3> QED BY <2>1, LaterOn
  <2>3. c = [s EXCEPT !.rt = [t |-> "none", a |-> {}]]
    OBVIOUS
  <2> HIDE DEF s, c
  <2> QED BY <2>2, <2>3, LaterOn
<1>2. \/ Word(p, tok, flags) \in {Exit(p), Next1(c), IsArg(p, tok)}
      \/ Word(p, tok, flags) = [p EXCEPT !.stopped = TRUE]
  BY DEF Word
<1> HIDE DEF c
<1>3. Later(p, Next1(c))
  BY <1>1, LaterOn
<1> QED BY <1>2, <1>3, IsArgLater, LaterSteps, ZenonT(60)

\* An option of the command line that is locked comes marked, or not at all.
LEMMA Screened ==
  ASSUME NEW p, IsParser(p), NEW flags
  PROVE  LET q == Screen(p, flags)
         IN /\ Later(p, q)
            /\ q.r \in Opt /\ Barred(attr, q.r) => "WITHATTR" \in flags /\ "OPT_IGNORE" \in q.rt.a
<1>1. Later(p, p) /\ Later(p, Returns(p, Nothing)) /\ Returns(p, Nothing).r = Nothing
  BY NearReturns, LaterSteps
<1>2. Nothing \notin Opt
  BY OptionsDiffer
<1> DEFINE q == Screen(p, flags)
           t == AddAttr(p, attr, p.r, TRUE, flags)
<1>3. Near(p, t) /\ t.r = p.r /\ ("WITHATTR" \in flags => "OPT_IGNORE" \in t.rt.a)
  BY DEF AddAttr, AttrBits, Near, IsParser, ParserFields
<1>4. \/ q = p /\ (p.r \notin Opt \/ ~Barred(attr, p.r))
      \/ q = t /\ "WITHATTR" \in flags
      \/ q = Returns(p, Nothing)
  BY DEF Screen
<1> HIDE DEF q, t
<1>5. Later(p, t)
  BY <1>3, NearLater
<1>6. CASE q = p /\ (p.r \notin Opt \/ ~Barred(attr, p.r))
  BY <1>1, <1>6 DEF q
<1>7. CASE q = t /\ "WITHATTR" \in flags
  BY <1>3, <1>5, <1>7 DEF q
<1>8. CASE q = Returns(p, Nothing)
  BY <1>1, <1>2, <1>8 DEF q
<1> QED BY <1>4, <1>6, <1>7, <1>8

LEMMA ArgLater ==
  ASSUME NEW p, IsParser(p), NEW flags
  PROVE  LET q == ArgStep(p, flags)
         IN /\ Later(p, q)
            /\ q.r \in Opt /\ Barred(attr, q.r) => "WITHATTR" \in flags /\ "OPT_IGNORE" \in q.rt.a
<1> DEFINE b == [p EXCEPT !.r = Nothing, !.val = None, !.opt_conffile = FALSE]
           z == [b EXCEPT !.inarg = 0]
           tok == Head(b.argv)
           q == ArgStep(p, flags)
           Good(x) == /\ Later(p, x)
                      /\ x.r \in Opt /\ Barred(attr, x.r) => "WITHATTR" \in flags /\ "OPT_IGNORE" \in x.rt.a
<1>1. Later(p, b) /\ b.argv = p.argv /\ b.r = Nothing
  BY DEF Later, IsParser, ParserFields
<1>2. Later(p, z) /\ z.r = Nothing
  <2> HIDE DEF b
  <2>1. Later(p, z)
    BY <1>1, LaterOn
  <2> QED BY <1>1, <2>1 DEF Later, IsParser, ParserFields
<1>3. Opt \cap {Nothing, Eof, "IS_ARG", "INVALID_OPTION"} = {}
  BY OptionsDiffer DEF Errors
<1> DEFINE s == [z EXCEPT !.stopped = TRUE]
           y == [b EXCEPT !.stopped = TRUE, !.inarg = 0]
<1>4. \/ q = Returns(b, Eof)
      \/ q = IsArg(b, tok)
      \/ q = Next1(y)
      \/ q = Next1(Returns(z, "INVALID_OPTION"))
      \/ q = Screen(Long(z, tok, flags), flags)
      \/ q = Screen(Short(b, tok), flags)
      \/ q = Screen(Word(b, tok, flags), flags)
  BY DEF ArgStep
<1> HIDE DEF b, z, tok, q
<1>5. IsParser(b) /\ IsParser(z)
  BY <1>1, <1>2 DEF Later
<1>6. Good(Returns(b, Eof))
  BY <1>1, <1>3, <1>5, LaterOn, NearReturns
<1>7. Good(IsArg(b, tok))
  BY <1>1, <1>3, <1>5, IsArgLater, LaterTrans
<1>8. Good(Next1(y))
  <2>1. Later(p, y) /\ y.r = Nothing
    BY <1>1 DEF Later, IsParser, ParserFields
  <2> HIDE DEF y
  <2>2. Later(p, Next1(y))
    BY <2>1, LaterOn
  <2>3. Next1(y).r = Nothing
    BY <2>1 DEF Next1, Later, IsParser, ParserFields
  <2> QED BY <1>3, <2>2, <2>3
<1>9. Good(Next1(Returns(z, "INVALID_OPTION")))
  <2>1. Later(p, Next1(Returns(z, "INVALID_OPTION")))
    BY <1>2, LaterOn
  <2>2. Next1(Returns(z, "INVALID_OPTION")).r = "INVALID_OPTION"
    BY <1>5 DEF Next1, Returns, IsParser, ParserFields
  <2> QED BY <1>3, <2>1, <2>2
<1>10. ASSUME NEW x, Later(p, x) PROVE Good(Screen(x, flags))
  <2>1. IsParser(x)
    BY <1>10 DEF Later
  <2> QED BY <1>10, <2>1, Screened, LaterTrans
<1>11. Later(p, Long(z, tok, flags)) /\ Later(p, Short(b, tok)) /\ Later(p, Word(b, tok, flags))
  BY <1>1, <1>2, <1>5, LongLater, ShortLater, WordLater, LaterTrans
<1> HIDE DEF Good, y
<1>12. Good(q)
  BY <1>4, <1>6, <1>7, <1>8, <1>9, <1>10, <1>11
<1> QED BY <1>12 DEF Good, q

-----------------------------------------------------------------------------
(***************************************************************************)
(* The state machine.                                                       *)
(***************************************************************************)
LEMMA StageIs ==
  /\ \A s : Stage(s) \in 0..4
  /\ Stage("init") = 0 /\ Stage("scan") = 0 /\ Stage("scanned") = 0
  /\ Stage("open_sys") = 1 /\ Stage("read_sys") = 1
  /\ Stage("open_user") = 2 /\ Stage("read_user") = 2
  /\ Stage("open_cmdline") = 3 /\ Stage("read_cmdline") = 3
  /\ Stage("finished") = 4 /\ Stage("exited") = 4 /\ Stage("released") = 4
  BY DEF Stage

\* The user's file is never read with the rights of the system's; and whatever was returned
\* was returned from where the parser is or has been.
OutBefore == \A i \in 1..Len(out) : Stage(out[i].state) <= Stage(arg.state)
ArgInv ==
  /\ IsParser(arg) /\ call \in Calls /\ out \in Seq(ToSet(out))
  /\ arg.state = "read_user" => ~arg.meta.in_sysconf
  /\ OutBefore /\ LockedStays

\* A step that keeps all this: the parser does not go back, what it returns is from where
\* it then is, and is marked if it is locked.
GoesOn ==
  /\ IsParser(arg') /\ call' = call
  /\ Stage(arg.state) <= Stage(arg'.state)
  /\ arg'.state = "read_user" => ~arg'.meta.in_sysconf
  /\ arg'.state \notin {"scan", "scanned"} /\ Stage(arg'.state) <= 2 => arg'.argv = call.argv
Tells == out' = out \/ (out' = Append(out, Result(arg')) /\ Marked(attr', call.flags, Result(arg')))
\* The attributes change while nothing has come from behind the system file, or at the end.
Settled == attr' = attr \/ Stage(arg.state) <= 1 \/ attr' = NoAttr

LEMMA KeepsOn ==
  ASSUME ArgInv, GoesOn, Tells, Settled PROVE ArgInv'
<1>1. out' = out => Len(out') = Len(out)
  OBVIOUS
<1> DEFINE x == Result(arg')
<1>2. x.state = arg'.state
  BY DEF Result
<1>3. Len(out) \in Nat /\ out \in Seq(ToSet(out))
  BY DEF ArgInv
<1>4. \/ out' = out
      \/ /\ out' \in Seq(ToSet(out')) /\ Len(out') = Len(out) + 1
         /\ out'[Len(out) + 1] = x /\ \A i \in 1..Len(out) : out'[i] = out[i]
         /\ Marked(attr', call.flags, x)
  <2>1. CASE out' = Append(out, x) /\ Marked(attr', call.flags, x)
    <3> DEFINE S == ToSet(out) \cup {x}
    <3> HIDE DEF x
    <3>1. out \in Seq(S) /\ x \in S
      <4>1. ToSet(out) \subseteq S
        OBVIOUS
      <4> HIDE DEF S
      <4> QED BY <1>3, <4>1 DEF S
    <3> HIDE DEF S
    <3>2. /\ out' \in Seq(S) /\ Len(out') = Len(out) + 1 /\ DOMAIN out' = 1..Len(out) + 1
          /\ out'[Len(out) + 1] = x /\ \A i \in 1..Len(out) : out'[i] = out[i]
      BY <2>1, <3>1
    <3>3. out' \in Seq(ToSet(out'))
      BY <3>2 DEF ToSet
    <3> QED BY <2>1, <3>2, <3>3
  <2> QED BY <2>1 DEF Tells
<1> HIDE DEF x
<1>5. \A i \in 1..Len(out) : Stage(out[i].state) <= Stage(arg.state)
  BY DEF ArgInv, OutBefore
<1>6. Stage(arg.state) <= Stage(arg'.state) /\ \A s : Stage(s) \in 0..4
  BY StageIs DEF GoesOn
<1>7. OutBefore'
  <2>1. \A i \in 1..Len(out) : Stage(out[i].state) <= Stage(arg'.state)
    BY <1>5, <1>6
  <2>2. CASE out' = out
    BY <2>1, <2>2 DEF OutBefore
  <2>3. CASE out' # out
    <3>1. \A i \in 1..Len(out') : i \in 1..Len(out) \/ i = Len(out) + 1
      BY <1>3, <1>4, <2>3
    <3> QED BY <1>2, <1>4, <1>6, <2>1, <2>3, <3>1 DEF OutBefore
  <2> QED BY <2>2, <2>3
<1>8. SourcesInOrder'
  <2>1. \A i, j \in 1..Len(out) : i <= j => Stage(out[i].state) <= Stage(out[j].state)
    BY DEF ArgInv, LockedStays, SourcesInOrder
  <2>2. CASE out' = out
    BY <2>1, <2>2 DEF SourcesInOrder
  <2>3. CASE out' # out
    <3>1. \A i \in 1..Len(out') : i \in 1..Len(out) \/ i = Len(out) + 1
      BY <1>3, <1>4, <2>3
    <3>2. \A i \in 1..Len(out) : Stage(out[i].state) <= Stage(arg'.state)
      BY <1>5, <1>6
    <3>3. ASSUME NEW i \in 1..Len(out'), NEW j \in 1..Len(out'), i <= j
          PROVE  Stage(out'[i].state) <= Stage(out'[j].state)
      <4>1. CASE j = Len(out) + 1
        BY <1>2, <1>4, <1>6, <2>3, <3>1, <3>2, <4>1
      <4>2. CASE j \in 1..Len(out)
        BY <1>3, <1>4, <2>1, <2>3, <3>1, <3>3, <4>2
      <4> QED BY <3>1, <4>1, <4>2
    <3> QED BY <3>3 DEF SourcesInOrder
  <2> QED BY <2>2, <2>3
<1>9. CommandLineWhole'
  BY DEF GoesOn, CommandLineWhole
<1>10. LockedMarked'
  <2>1. \A i \in 1..Len(out) : Marked(attr, call.flags, out[i])
    BY DEF ArgInv, LockedStays, LockedMarked
  <2>2. ASSUME NEW i \in 1..Len(out) PROVE Marked(attr', call.flags, out[i])
    <3>1. CASE Stage(arg.state) <= 1
      <4>1. Stage(out[i].state) <= 1
        BY <1>5, <1>6, <3>1
      <4>2. out[i].state # "read_user" /\ out[i].state # "read_cmdline"
        BY <4>1, StageIs
      <4> QED BY <4>2 DEF Marked
    <3>2. CASE attr' = attr
      BY <2>1, <3>2
    <3>3. CASE attr' = NoAttr
      <4>1. \A o \in Opt : NoAttr[o] = {}
        BY DEF NoAttr
      <4> QED BY <3>3, <4>1 DEF Marked
    <3> QED BY <3>1, <3>2, <3>3 DEF Settled
  <2>3. \A i \in 1..Len(out') : Marked(attr', call.flags, out'[i])
    <3>1. CASE out' = out
      BY <2>2, <3>1
    <3>2. CASE out' # out
      <4>1. \A i \in 1..Len(out') : i \in 1..Len(out) \/ i = Len(out) + 1
        BY <1>3, <1>4, <3>2
      <4> QED BY <1>4, <2>2, <3>2, <4>1
    <3> QED BY <3>1, <3>2
  <2>4. call' = call
    BY DEF GoesOn
  <2> QED BY <2>3, <2>4 DEF LockedMarked
<1>11. arg'.state = "read_user" => ~arg'.meta.in_sysconf
  BY DEF GoesOn
<1> QED BY <1>3, <1>4, <1>7, <1>8, <1>9, <1>10, <1>11 DEF ArgInv, GoesOn, LockedStays

LEMMA NoOption == ASSUME NEW at, NEW flags, NEW p, p.r \notin Opt PROVE Marked(at, flags, Result(p))
  BY DEF Marked, Result

LEMMA Delivered ==
  ASSUME NEW p, Deliver(p), p.r \in {Nothing, Eof} \/ Marked(attr', call.flags, Result(p))
  PROVE  arg' = p /\ Tells
  BY DEF Deliver, Tells

LEMMA Moved ==
  ASSUME NEW p, IsParser(p), NEW state
  PROVE  LET q == Goto(p, state)
         IN IsParser(q) /\ q.state = state /\ q.r = Nothing /\ q.argv = p.argv /\ q.meta = p.meta
  BY DEF Goto, IsParser, ParserFields

LEMMA RewoundIs ==
  ASSUME NEW p, IsParser(p)
  PROVE  IsParser(Rewound(p)) /\ Rewound(p).argv = p.argv /\ Rewound(p).meta.in_sysconf = p.meta.in_sysconf
  BY ZenonT(60) DEF Rewound, IsParser, IsMetaPart, ParserFields, MetaFields

LEMMA InFile ==
  ASSUME NEW p, IsParser(p), NEW conf, NEW b
  PROVE  LET q == [p EXCEPT !.conf = conf] u == [p EXCEPT !.meta.in_sysconf = b]
         IN /\ IsParser(q) /\ q.argv = p.argv /\ q.meta = p.meta
            /\ IsParser(u) /\ u.argv = p.argv /\ u.meta.in_sysconf = b /\ u.state = p.state
  BY DEF IsParser, IsMetaPart, ParserFields, MetaFields

LEMMA Announced ==
  ASSUME NEW p, IsParser(p), NEW name, Announce(p, name)
  PROVE  IsParser(arg') /\ arg'.state = p.state /\ arg'.argv = p.argv /\ arg'.meta = p.meta /\ Tells
<1> DEFINE q == [p EXCEPT !.r = "CONFFILE", !.val = name, !.opt_conffile = FALSE,
                          !.rt = [t |-> IF name = None THEN "none" ELSE "string", a |-> {}]]
<1>1. Deliver(q)
  BY DEF Announce
<1>2. IsParser(q) /\ q.state = p.state /\ q.argv = p.argv /\ q.meta = p.meta /\ q.r = "CONFFILE"
  BY DEF IsParser, ParserFields
<1> HIDE DEF q
<1>3. q.r \notin Opt
  BY <1>2, OptionsDiffer
<1> QED BY <1>1, <1>2, <1>3, NoOption, Delivered

LEMMA StartScanKeeps == ASSUME ArgInv, StartScan PROVE ArgInv'
<1>1. IsParser(arg) /\ arg.state = "init"
  BY DEF ArgInv, StartScan
<1>2. arg' = Goto(arg, "scan") \/ arg' = Goto(arg, "scanned")
  BY DEF StartScan
<1>3. IsParser(arg') /\ arg'.state \in {"scan", "scanned"}
  BY <1>1, <1>2, Moved
<1>4. GoesOn /\ Tells /\ Settled
  BY <1>1, <1>3, StageIs DEF StartScan, GoesOn, Tells, Settled
<1> QED BY <1>4, KeepsOn

LEMMA ScanKeeps == ASSUME ArgInv, Scan PROVE ArgInv'
<1> DEFINE p == ArgStep(arg, ScanFlags)
<1>1. IsParser(arg) /\ arg.state = "scan"
  BY DEF ArgInv, Scan
<1>2. IsParser(p) /\ p.state \in {"scan", "exited"}
  BY <1>1, ArgLater DEF Later
<1> DEFINE t == [p EXCEPT !.explicit_confopt = TRUE,
                          !.explicit_conffile = @ \/ p.rt.t = "string",
                          !.no_conffile = @ \/ p.rt.t = "none"]
<1>3. arg' = Goto(p, "scanned") \/ arg' = p \/ arg' = t
  BY DEF Scan
<1> HIDE DEF p
<1>4. IsParser(t) /\ t.state = p.state
  BY <1>2 DEF IsParser, ParserFields
<1> HIDE DEF t
<1>5. IsParser(arg') /\ arg'.state \in {"scan", "scanned", "exited"}
  BY <1>2, <1>3, <1>4, Moved
<1>6. Stage(arg.state) <= Stage(arg'.state) /\ (arg'.state = "exited" => Stage(arg'.state) = 4)
  BY <1>1, <1>5, StageIs
<1>7. GoesOn /\ Tells /\ Settled
  BY <1>5, <1>6 DEF Scan, GoesOn, Tells, Settled
<1> QED BY <1>7, KeepsOn

LEMMA EndScanKeeps == ASSUME ArgInv, EndScan PROVE ArgInv'
<1> DEFINE p == Restored(arg)
<1>1. IsParser(arg) /\ arg.state = "scanned" /\ attr' = attr /\ call' = call
  BY DEF ArgInv, EndScan
<1>2. IsParser(p) /\ p.argv = call.argv
  BY <1>1 DEF Restored, IsParser, ParserFields
<1>3. CASE FirstState = "init"
  <2> DEFINE i == [p EXCEPT !.state = "init"]
             q == Returns(i, "INVALID_ARG")
  <2>1. Deliver(q)
    BY <1>3 DEF EndScan
  <2> HIDE DEF p
  <2>2. IsParser(i) /\ i.state = "init" /\ i.argv = call.argv
    BY <1>2 DEF IsParser, ParserFields
  <2> HIDE DEF i
  <2>3. IsParser(q) /\ q.state = "init" /\ q.argv = call.argv /\ q.r = "INVALID_ARG"
    BY <2>2, NearReturns DEF Near
  <2>4. q.r \notin Opt
    BY <2>3, OptionsDiffer DEF Errors
  <2> HIDE DEF q
  <2>5. arg' = q /\ Tells
    BY <2>1, <2>4, NoOption, Delivered
  <2>6. GoesOn /\ Settled
    BY <1>1, <2>3, <2>5, StageIs DEF GoesOn, Settled
  <2> QED BY <2>5, <2>6, KeepsOn
<1>4. CASE FirstState # "init"
  <2>1. arg' = Goto(p, FirstState) /\ out' = out
    BY <1>4 DEF EndScan
  <2>2. FirstState \in {"open_cmdline", "open_sys", "open_user"}
    BY <1>4 DEF FirstState
  <2> HIDE DEF p
  <2>3. IsParser(arg') /\ arg'.state = FirstState /\ arg'.argv = call.argv
    BY <1>2, <2>1, Moved
  <2>4. Stage(arg.state) <= Stage(arg'.state) /\ arg'.state # "read_user"
    BY <1>1, <2>2, <2>3, StageIs
  <2>5. GoesOn /\ Settled /\ Tells
    BY <1>1, <2>1, <2>3, <2>4 DEF GoesOn, Settled, Tells
  <2> QED BY <2>5, KeepsOn
<1> QED BY <1>3, <1>4

LEMMA OpenSysKeeps == ASSUME ArgInv, OpenSys PROVE ArgInv'
<1> DEFINE p == [Rewound(arg) EXCEPT !.conf = "sys"]
           g == Goto(p, "read_sys")
           u == [g EXCEPT !.meta.in_sysconf = TRUE]
<1>1. IsParser(arg) /\ arg.state = "open_sys" /\ attr' = attr /\ call' = call /\ arg.argv = call.argv
  BY StageIs DEF ArgInv, OpenSys, LockedStays, CommandLineWhole
<1>2. IsParser(p) /\ p.argv = call.argv
  <2>1. IsParser(Rewound(arg)) /\ Rewound(arg).argv = call.argv
    BY <1>1, RewoundIs
  <2> QED BY <2>1, InFile
<1>3. \/ Announce(u, "sys")
      \/ /\ out' = out
         /\ arg' = Goto(p, "open_user") \/ arg' = Goto(p, "open_cmdline")
  BY DEF OpenSys
<1> HIDE DEF p
<1>4. IsParser(g) /\ g.state = "read_sys" /\ g.argv = call.argv
  BY <1>2, Moved
<1> HIDE DEF g
<1>5. IsParser(u) /\ u.state = "read_sys" /\ u.argv = call.argv
  BY <1>4, InFile
<1> HIDE DEF u
<1>6. /\ IsParser(arg') /\ arg'.state \in {"read_sys", "open_user", "open_cmdline"}
      /\ arg'.argv = call.argv /\ Tells
  <2>1. CASE Announce(u, "sys")
    BY <1>5, <2>1, Announced
  <2>2. CASE out' = out /\ (arg' = Goto(p, "open_user") \/ arg' = Goto(p, "open_cmdline"))
    BY <1>2, <2>2, Moved DEF Tells
  <2> QED BY <1>3, <2>1, <2>2
<1>7. Stage(arg.state) <= Stage(arg'.state) /\ arg'.state # "read_user"
  BY <1>1, <1>6, StageIs
<1>8. GoesOn /\ Settled
  BY <1>1, <1>6, <1>7 DEF GoesOn, Settled
<1> QED BY <1>6, <1>8, KeepsOn

LEMMA OpenUserKeeps == ASSUME ArgInv, OpenUser PROVE ArgInv'
<1> DEFINE r == [Rewound(arg) EXCEPT !.conf = UserConf]
           p == [r EXCEPT !.meta.in_sysconf = FALSE]
           n == Returns(p, "NO_CONFFILE")
           q == [n EXCEPT !.state = "open_cmdline", !.opt_conffile = FALSE]
<1>1. IsParser(arg) /\ arg.state = "open_user" /\ attr' = attr /\ call' = call /\ arg.argv = call.argv
  BY StageIs DEF ArgInv, OpenUser, LockedStays, CommandLineWhole
<1>2. IsParser(p) /\ p.argv = call.argv /\ p.meta.in_sysconf = FALSE
  <2>1. IsParser(Rewound(arg)) /\ Rewound(arg).argv = call.argv
    BY <1>1, RewoundIs
  <2>2. IsParser(r) /\ r.argv = call.argv
    BY <2>1, InFile
  <2> HIDE DEF r
  <2> QED BY <2>2, InFile, ZenonT(60)
<1>3. p = [Rewound(arg) EXCEPT !.conf = UserConf, !.meta.in_sysconf = FALSE]
  OBVIOUS
<1> HIDE DEF p
<1>4. \/ Announce(Goto(p, "read_user"), UserConf)
      \/ Deliver(q)
      \/ out' = out /\ (arg' = Goto(p, "open_cmdline") \/ arg' = Goto(arg, "open_cmdline"))
  BY <1>3 DEF OpenUser
<1>5. /\ IsParser(arg') /\ arg'.state \in {"read_user", "open_cmdline"} /\ arg'.argv = call.argv /\ Tells
      /\ arg'.state = "read_user" => ~arg'.meta.in_sysconf
  <2>1. CASE Announce(Goto(p, "read_user"), UserConf)
    <3> DEFINE g == Goto(p, "read_user")
    <3>1. IsParser(g) /\ g.state = "read_user" /\ g.argv = call.argv /\ g.meta.in_sysconf = FALSE
      BY <1>2, Moved
    <3> HIDE DEF g
    <3>2. IsParser(arg') /\ arg'.state = g.state /\ arg'.argv = g.argv /\ arg'.meta = g.meta /\ Tells
      BY <2>1, <3>1, Announced DEF g
    <3> QED BY <3>1, <3>2
  <2>2. CASE Deliver(q)
    <3>1. IsParser(n) /\ n.argv = call.argv /\ n.r = "NO_CONFFILE"
      BY <1>2, NearReturns DEF Near
    <3> HIDE DEF n
    <3>2. IsParser(q) /\ q.state = "open_cmdline" /\ q.argv = call.argv /\ q.r = "NO_CONFFILE"
      BY <3>1 DEF IsParser, ParserFields
    <3> HIDE DEF q
    <3>3. q.r \notin Opt
      BY <3>2, OptionsDiffer DEF Errors
    <3>4. arg' = q /\ Tells
      BY <2>2, <3>3, NoOption, Delivered
    <3> QED BY <3>2, <3>4
  <2>3. CASE out' = out /\ (arg' = Goto(p, "open_cmdline") \/ arg' = Goto(arg, "open_cmdline"))
    BY <1>1, <1>2, <2>3, Moved DEF Tells
  <2> QED BY <1>4, <2>1, <2>2, <2>3
<1>6. Stage(arg.state) <= Stage(arg'.state)
  BY <1>1, <1>5, StageIs
<1>7. GoesOn /\ Settled
  BY <1>1, <1>5, <1>6 DEF GoesOn, Settled
<1> QED BY <1>5, <1>7, KeepsOn

LEMMA OpenCmdlineKeeps == ASSUME ArgInv, OpenCmdline PROVE ArgInv'
<1> DEFINE r == [Rewound(arg) EXCEPT !.conf = None]
           p == [r EXCEPT !.meta.in_sysconf = FALSE]
<1>1. IsParser(arg) /\ arg.state = "open_cmdline" /\ attr' = attr /\ call' = call
  BY DEF ArgInv, OpenCmdline
<1>2. IsParser(p)
  <2>1. IsParser(Rewound(arg))
    BY <1>1, RewoundIs
  <2>2. IsParser(r)
    BY <2>1, InFile
  <2> HIDE DEF r
  <2> QED BY <2>2, InFile
<1>3. p = [Rewound(arg) EXCEPT !.conf = None, !.meta.in_sysconf = FALSE]
  OBVIOUS
<1> HIDE DEF p
<1>4. \/ arg' = Goto(p, "finished") /\ out' = out
      \/ Announce(Goto(p, "read_cmdline"), None)
  BY <1>3 DEF OpenCmdline
<1>5. IsParser(arg') /\ arg'.state \in {"finished", "read_cmdline"} /\ Tells
  <2>1. CASE arg' = Goto(p, "finished") /\ out' = out
    BY <1>2, <2>1, Moved DEF Tells
  <2>2. CASE Announce(Goto(p, "read_cmdline"), None)
    <3> DEFINE g == Goto(p, "read_cmdline")
    <3>1. IsParser(g) /\ g.state = "read_cmdline"
      BY <1>2, Moved
    <3> HIDE DEF g
    <3>2. IsParser(arg') /\ arg'.state = g.state /\ Tells
      BY <2>2, <3>1, Announced DEF g
    <3> QED BY <3>1, <3>2
  <2> QED BY <1>4, <2>1, <2>2
<1>6. /\ Stage(arg.state) <= Stage(arg'.state) /\ arg'.state # "read_user" /\ ~(Stage(arg'.state) <= 2)
  BY <1>1, <1>5, StageIs
<1>7. GoesOn /\ Settled
  BY <1>1, <1>5, <1>6 DEF GoesOn, Settled
<1> QED BY <1>5, <1>7, KeepsOn

\* The parser before a line is read.
LEMMA Begun ==
  ASSUME NEW p, IsParser(p)
  PROVE  IsParser(Begin(p)) /\ Begin(p).r = Nothing /\ Begin(p).state = p.state
         /\ Begin(p).argv = p.argv /\ Begin(p).meta = p.meta
  BY DEF Begin, IsParser, ParserFields

LEMMA Finished ==
  ASSUME NEW p, IsParser(p)
  PROVE  IsParser(finish_read_sys(p)) /\ finish_read_sys(p).argv = p.argv
  BY ZenonT(60) DEF finish_read_sys, IsParser, IsMetaPart, ParserFields, MetaFields

LEMMA ReadSysKeeps == ASSUME ArgInv, ReadSys PROVE ArgInv'
<1> DEFINE b == Begin(arg)
<1>1. IsParser(arg) /\ arg.state = "read_sys" /\ call' = call /\ call \in Calls /\ arg.argv = call.argv
  BY StageIs DEF ArgInv, ReadSys, LockedStays, CommandLineWhole
<1>2. IsParser(b) /\ b.r = Nothing /\ b.state = "read_sys" /\ b.argv = call.argv
  BY <1>1, Begun
<1>3. \E q : Near(b, q) /\ \/ q.r = Eof /\ Deliver(Goto(finish_read_sys(q), "open_user"))
                           \/ Deliver(q)
  <2>1. ASSUME NEW l \in SysLines[call.topic],
               LET res == LineStep(b, l)
               IN IF res.p.r = Eof
                  THEN /\ Deliver(Goto(finish_read_sys(res.p), "open_user"))
                       /\ attr' = IgnoreAll(res.p)
                  ELSE Deliver(res.p) /\ attr' = res.at
        PROVE  \E q : Near(b, q) /\ \/ q.r = Eof /\ Deliver(Goto(finish_read_sys(q), "open_user"))
                                    \/ Deliver(q)
    <3> DEFINE q == LineStep(b, l).p
    <3>1. l.kind \in {"meta", "opt", "iio", "alias", "toolong"}
      BY <1>1, LinesAssumption
    <3> HIDE DEF b
    <3>2. Near(b, q)
      BY <1>2, <3>1, LineNear
    <3>3. (q.r = Eof /\ Deliver(Goto(finish_read_sys(q), "open_user"))) \/ Deliver(q)
      BY <2>1
    <3> HIDE DEF q
    <3> QED BY <3>2, <3>3
  <2>2. ASSUME NEW error \in call.errors,
               LET p == EofStep(b, error)
               IN IF p.r = Eof
                  THEN /\ Deliver(Goto(finish_read_sys(p), "open_user"))
                       /\ attr' = IgnoreAll(p)
                  ELSE Deliver(p) /\ UNCHANGED attr
        PROVE  \E q : Near(b, q) /\ \/ q.r = Eof /\ Deliver(Goto(finish_read_sys(q), "open_user"))
                                    \/ Deliver(q)
    <3> DEFINE q == EofStep(b, error)
    <3> HIDE DEF b
    <3>2. Near(b, q)
      BY <1>2, EndNear
    <3>3. (q.r = Eof /\ Deliver(Goto(finish_read_sys(q), "open_user"))) \/ Deliver(q)
      BY <2>2
    <3> HIDE DEF q
    <3> QED BY <3>2, <3>3
  <2> HIDE DEF b
  <2> QED BY <2>1, <2>2 DEF ReadSys, b
<1> HIDE DEF b
<1>4. PICK q : Near(b, q) /\ \/ q.r = Eof /\ Deliver(Goto(finish_read_sys(q), "open_user"))
                             \/ Deliver(q)
  BY <1>3
<1>5. IsParser(q) /\ q.state = "read_sys" /\ q.argv = call.argv
  BY <1>2, <1>4 DEF Near
<1>6. IsParser(arg') /\ arg'.state \in {"read_sys", "open_user"} /\ arg'.argv = call.argv /\ Tells
  <2>1. CASE Deliver(Goto(finish_read_sys(q), "open_user"))
    <3> DEFINE g == Goto(finish_read_sys(q), "open_user")
    <3>1. IsParser(g) /\ g.state = "open_user" /\ g.r = Nothing /\ g.argv = call.argv
      <4>1. IsParser(finish_read_sys(q)) /\ finish_read_sys(q).argv = call.argv
        BY <1>5, Finished
      <4> QED BY <4>1, Moved
    <3> HIDE DEF g
    <3>2. arg' = g /\ Tells
      BY <2>1, <3>1, Delivered DEF g
    <3> QED BY <3>1, <3>2
  <2>2. CASE Deliver(q)
    <3>1. Marked(attr', call.flags, Result(q))
      BY <1>5 DEF Marked, Result
    <3> QED BY <1>5, <2>2, <3>1, Delivered
  <2> QED BY <1>4, <2>1, <2>2
<1>7. Stage(arg.state) = 1 /\ Stage(arg.state) <= Stage(arg'.state) /\ arg'.state # "read_user"
  BY <1>1, <1>6, StageIs
<1>8. GoesOn /\ Settled
  BY <1>1, <1>6, <1>7 DEF GoesOn, Settled
<1> QED BY <1>6, <1>8, KeepsOn

LEMMA ReadUserKeeps == ASSUME ArgInv, ReadUser PROVE ArgInv'
<1> DEFINE b == Begin(arg)
           Told(q) == q.r \in Opt /\ attr[q.r] \intersect {"ignore", "forced"} # {} =>
                        "WITHATTR" \in call.flags /\ "OPT_IGNORE" \in q.rt.a
           Read(q) == Near(b, q) /\ Told(q) /\ attr' = attr
                      /\ Deliver(IF q.r = Eof THEN Goto(q, "open_cmdline") ELSE q)
<1>1. /\ IsParser(arg) /\ arg.state = "read_user" /\ call' = call /\ call \in Calls /\ arg.argv = call.argv
      /\ ~arg.meta.in_sysconf
  BY StageIs DEF ArgInv, ReadUser, LockedStays, CommandLineWhole
<1>2. IsParser(b) /\ b.r = Nothing /\ b.state = "read_user" /\ b.argv = call.argv /\ ~b.meta.in_sysconf
  BY <1>1, Begun
<1>3. \E q : Read(q)
  <2>1. ASSUME NEW l \in UserLines[call.topic],
               LET res == LineStep(b, l)
               IN /\ Deliver(IF res.p.r = Eof THEN Goto(res.p, "open_cmdline") ELSE res.p)
                  /\ attr' = res.at
        PROVE  \E q : Read(q)
    <3> DEFINE q == LineStep(b, l).p
    <3>1. l.kind \in {"meta", "opt", "iio", "alias", "toolong"}
      BY <1>1, LinesAssumption
    <3> HIDE DEF b
    <3>2. Near(b, q) /\ LineStep(b, l).at = attr /\ Told(q)
      BY <1>2, <3>1, LineNear
    <3>3. Deliver(IF q.r = Eof THEN Goto(q, "open_cmdline") ELSE q) /\ attr' = LineStep(b, l).at
      BY <2>1
    <3> HIDE DEF q, Told
    <3> QED BY <3>2, <3>3
  <2>2. ASSUME NEW error \in call.errors,
               LET p == EofStep(b, error)
               IN /\ Deliver(IF p.r = Eof THEN Goto(p, "open_cmdline") ELSE p)
                  /\ UNCHANGED <<attr, text>>
        PROVE  \E q : Read(q)
    <3> DEFINE q == EofStep(b, error)
    <3> HIDE DEF b
    <3>2. Near(b, q) /\ q.r \notin Opt
      BY <1>2, EndNear, OptionsDiffer
    <3>3. Deliver(IF q.r = Eof THEN Goto(q, "open_cmdline") ELSE q) /\ attr' = attr
      BY <2>2
    <3>4. Told(q)
      BY <3>2
    <3> HIDE DEF q, Told
    <3> QED BY <3>2, <3>3, <3>4
  <2> HIDE DEF b, Read
  <2> QED BY <2>1, <2>2 DEF ReadUser, b
<1> HIDE DEF b
<1>4. PICK q : Read(q)
  BY <1>3
<1>5. IsParser(q) /\ q.state = "read_user" /\ q.argv = call.argv /\ ~q.meta.in_sysconf
  BY <1>2, <1>4 DEF Near
<1>6. /\ IsParser(arg') /\ arg'.state \in {"read_user", "open_cmdline"} /\ arg'.argv = call.argv /\ Tells
      /\ arg'.state = "read_user" => ~arg'.meta.in_sysconf
  <2>1. CASE q.r = Eof
    <3> DEFINE g == Goto(q, "open_cmdline")
    <3>1. IsParser(g) /\ g.state = "open_cmdline" /\ g.r = Nothing /\ g.argv = call.argv
      BY <1>5, Moved
    <3>2. Deliver(g)
      BY <1>4, <2>1
    <3> HIDE DEF g, Read
    <3>3. arg' = g /\ Tells
      BY <3>1, <3>2, Delivered
    <3> QED BY <3>1, <3>3
  <2>2. CASE q.r # Eof
    <3>1. Deliver(q) /\ attr' = attr
      BY <1>4, <2>2
    <3>2. Marked(attr', call.flags, Result(q))
      BY <1>4, <1>5, <3>1 DEF Marked, Result
    <3> HIDE DEF Read
    <3> QED BY <1>5, <3>1, <3>2, Delivered
  <2> QED BY <2>1, <2>2
<1>7. Stage(arg.state) <= Stage(arg'.state)
  BY <1>1, <1>6, StageIs
<1>8. GoesOn /\ Settled
  BY <1>1, <1>4, <1>6, <1>7 DEF GoesOn, Settled
<1> QED BY <1>6, <1>8, KeepsOn

LEMMA ReadCmdlineKeeps == ASSUME ArgInv, ReadCmdline PROVE ArgInv'
<1> DEFINE p == ArgStep(arg, call.flags)
<1>1. IsParser(arg) /\ arg.state = "read_cmdline" /\ call' = call /\ attr' = attr
  BY DEF ArgInv, ReadCmdline
<1>2. /\ IsParser(p) /\ p.state \in {"read_cmdline", "exited"}
      /\ p.r \in Opt /\ Barred(attr, p.r) => "WITHATTR" \in call.flags /\ "OPT_IGNORE" \in p.rt.a
  BY <1>1, ArgLater DEF Later
<1>3. Deliver(IF p.r = Eof THEN Goto(p, "finished") ELSE p)
  BY DEF ReadCmdline
<1> HIDE DEF p
<1>4. IsParser(arg') /\ arg'.state \in {"read_cmdline", "finished", "exited"} /\ Tells
  <2>1. CASE p.r = Eof
    <3> DEFINE g == Goto(p, "finished")
    <3>1. IsParser(g) /\ g.state = "finished" /\ g.r = Nothing
      BY <1>2, Moved
    <3>2. Deliver(g)
      BY <1>3, <2>1
    <3> HIDE DEF g
    <3>3. arg' = g /\ Tells
      BY <3>1, <3>2, Delivered
    <3> QED BY <3>1, <3>3
  <2>2. CASE p.r # Eof
    <3>1. Deliver(p)
      BY <1>3, <2>2
    <3>2. Marked(attr', call.flags, Result(p))
      BY <1>1, <1>2 DEF Marked, Result, Barred
    <3> QED BY <1>2, <3>1, <3>2, Delivered
  <2> QED BY <2>1, <2>2
<1>5. Stage(arg.state) <= Stage(arg'.state) /\ arg'.state # "read_user" /\ ~(Stage(arg'.state) <= 2)
  BY <1>1, <1>4, StageIs
<1>6. GoesOn /\ Settled
  BY <1>1, <1>4, <1>5 DEF GoesOn, Settled
<1> QED BY <1>4, <1>6, KeepsOn

LEMMA ExitKeeps == ASSUME ArgInv, ExitOnError PROVE ArgInv'
<1> DEFINE e == Exit(arg)
<1>1. IsParser(arg)
  BY DEF ArgInv
<1>2. IsParser(e) /\ e.state = "exited"
  BY <1>1 DEF Exit, IsParser, ParserFields
<1>3. arg' = [e EXCEPT !.r = Nothing]
  BY DEF ExitOnError
<1> HIDE DEF e
<1>4. IsParser(arg') /\ arg'.state = "exited"
  BY <1>2, <1>3 DEF IsParser, ParserFields
<1>5. Stage(arg.state) <= Stage(arg'.state) /\ ~(Stage(arg'.state) <= 2)
  <2>1. Stage(arg.state) \in 0..4 /\ Stage(arg'.state) = 4
    BY <1>4, StageIs
  <2> QED BY <2>1
<1>6. GoesOn /\ Tells /\ Settled
  BY <1>4, <1>5 DEF ExitOnError, GoesOn, Tells, Settled
<1> QED BY <1>6, KeepsOn

LEMMA FreshIs == IsParser(Fresh) /\ Fresh.state = "init"
  BY DEF Fresh, NoMeta, IsParser, IsMetaPart, ParserFields, MetaFields

LEMMA ReleaseKeeps == ASSUME ArgInv, Release PROVE ArgInv'
<1>1. arg' = [Fresh EXCEPT !.state = "released"] /\ attr' = NoAttr /\ call' = call /\ out' = out
  BY DEF Release
<1>2. IsParser(arg') /\ arg'.state = "released"
  <2> DEFINE f == Fresh
  <2>1. IsParser(f)
    BY FreshIs
  <2>2. arg' = [f EXCEPT !.state = "released"]
    BY <1>1
  <2> HIDE DEF f
  <2> QED BY <2>1, <2>2 DEF IsParser, ParserFields
<1>3. Stage(arg.state) <= Stage(arg'.state) /\ ~(Stage(arg'.state) <= 2)
  <2>1. Stage(arg.state) \in 0..4 /\ Stage(arg'.state) = 4
    BY <1>2, StageIs
  <2> QED BY <2>1
<1>4. GoesOn /\ Tells /\ Settled
  BY <1>1, <1>2, <1>3 DEF GoesOn, Tells, Settled
<1> QED BY <1>4, KeepsOn

LEMMA ArgInitial == Init => ArgInv
<1> SUFFICES ASSUME Init PROVE ArgInv
  OBVIOUS
<1>1. IsParser(arg) /\ arg.state = "init" /\ arg.argv = call.argv
  <2> DEFINE f == Fresh
  <2>1. IsParser(f) /\ f.state = "init"
    BY FreshIs
  <2>2. arg = [f EXCEPT !.argv = call.argv]
    BY DEF Init
  <2> HIDE DEF f
  <2> QED BY <2>1, <2>2 DEF IsParser, ParserFields
<1>2. out = <<>> /\ call \in Calls
  BY DEF Init
<1>3. Len(out) = 0 /\ out \in Seq(ToSet(out))
  BY <1>2
<1>4. OutBefore /\ SourcesInOrder /\ LockedMarked
  BY <1>3 DEF OutBefore, SourcesInOrder, LockedMarked
<1> QED BY <1>1, <1>2, <1>3, <1>4 DEF ArgInv, LockedStays, CommandLineWhole

LEMMA ArgInductive == ArgInv /\ [Next]_vars => ArgInv'
<1> SUFFICES ASSUME ArgInv, [Next]_vars PROVE ArgInv'
  OBVIOUS
<1>1. CASE UNCHANGED vars
  BY <1>1 DEF vars, ArgInv, OutBefore, LockedStays, SourcesInOrder, CommandLineWhole, LockedMarked
<1>2. CASE Next
  BY <1>2, StartScanKeeps, ScanKeeps, EndScanKeeps, OpenSysKeeps, OpenUserKeeps, OpenCmdlineKeeps,
     ReadSysKeeps, ReadUserKeeps, ReadCmdlineKeeps, ExitKeeps, ReleaseKeeps DEF Next
<1> QED BY <1>1, <1>2

\* For every table of options, every file and every command line: what the system file
\* forced, or said is to be ignored, is returned from no later place, unless the caller
\* asked for attributes and is told to ignore it; the places follow one another, and the
\* command line is read from its first argument, whatever the scan ahead took
\* (_gpgrt_argparse, finish_read_sys, prepare_arg_return, arg_parse).
THEOREM OptionsStayLocked == Spec => []LockedStays
<1>1. ArgInv => LockedStays
  BY DEF ArgInv
<1> QED BY <1>1, ArgInitial, ArgInductive, PTL DEF Spec

\* The attributes of the options are what the system file made them until the parser is
\* released: neither the user's file nor the command line changes one (prepare_arg_return).
AttributesSettled == [][attr' # attr => arg.state \in {"read_sys", "finished"}]_vars

LEMMA ReadUserSettles == ASSUME ArgInv, ReadUser PROVE attr' = attr
<1> DEFINE b == Begin(arg)
<1>1. IsParser(arg) /\ call \in Calls /\ ~arg.meta.in_sysconf
  BY DEF ArgInv, ReadUser
<1>2. IsParser(b) /\ b.r = Nothing /\ ~b.meta.in_sysconf
  BY <1>1, Begun
<1>3. ASSUME NEW l \in UserLines[call.topic], attr' = LineStep(b, l).at PROVE attr' = attr
  <2>1. l.kind \in {"meta", "opt", "iio", "alias", "toolong"}
    BY <1>1, LinesAssumption
  <2> HIDE DEF b
  <2> QED BY <1>2, <1>3, <2>1, LineNear
<1> HIDE DEF b
<1> QED BY <1>3 DEF ReadUser, b

\* The attributes change in the steps that read the system file, and at the end only.
THEOREM AttributesStaySettled == Spec => AttributesSettled
<1>1. ASSUME ArgInv, [Next]_vars, attr' # attr PROVE arg.state \in {"read_sys", "finished"}
  <2>1. ~ReadUser
    BY <1>1, ReadUserSettles
  <2>2. CASE ReadSys \/ Release
    BY <2>2 DEF ReadSys, Release
  <2>3. StartScan \/ Scan \/ EndScan \/ OpenSys \/ OpenUser \/ OpenCmdline \/ ReadCmdline \/ ExitOnError
        => attr' = attr
    BY DEF StartScan, Scan, EndScan, OpenSys, OpenUser, OpenCmdline, ReadCmdline, ExitOnError
  <2> QED BY <1>1, <2>1, <2>2, <2>3 DEF Next, vars
<1>2. ArgInv /\ [Next]_vars => [attr' # attr => arg.state \in {"read_sys", "finished"}]_vars
  BY <1>1 DEF vars
<1> QED BY <1>2, ArgInitial, ArgInductive, PTL DEF Spec, AttributesSettled
=============================================================================
