------------------------------ MODULE SpawnW32 ------------------------------
(***************************************************************************)
(* Processes on Windows (src/spawn-w32.c): the handles of the program and     *)
(* those that its children inherit.  A handle is named for what it is, since  *)
(* Windows never gives out a number that is in use.  At the end: what a child  *)
(* gets as its command line and its environment.                             *)
(***************************************************************************)
EXTENDS Integers, FiniteSets, Sequences, SequencesExt

CONSTANTS
  WPid,        \* the processes that can be started
  WFlagSets,  \* flags of a call: [std : WStd -> {"pipe", "keep", "none"}, nul, detached]
  WActs,      \* what it is given as actions: [hd : WStd -> handle or Invalid, inherit : sequence]
  Given,      \* handles that the program has open besides the standard ones
  MaxInherit, \* room for handles to inherit: the array hd of 32
  Invalid     \* INVALID_HANDLE_VALUE

WStd == 0..2
StdHandle(i) == <<"std", i>>
PipeEnd(p, i, end) == <<"pipe", p, i, end>>
Nul(p, i) == <<"nul", p, i>>
ProcHandle(p) == <<"process", p>>

\* The handles that only a spawn of p makes.
Made(p) == {PipeEnd(p, i, end) : i \in WStd, end \in {"r", "w"}} \cup {Nul(p, i) : i \in WStd}
           \cup {ProcHandle(p)}

ASSUME RoomForStd == MaxInherit \in Nat /\ MaxInherit >= 3
ASSUME WFlagsAssumption ==
  \A flags \in WFlagSets : /\ flags.std \in [WStd -> {"pipe", "keep", "none"}]
                           /\ flags.detached \in BOOLEAN
ASSUME HandlesDiffer ==
  /\ Invalid \notin Given
  /\ \A i \in WStd : StdHandle(i) \notin Given \cup {Invalid}
  /\ \A p \in WPid : Made(p) \cap (Given \cup {Invalid}) = {}

VARIABLES
  handles, \* the handles that the program has open
  wproc,   \* [WPid -> gpgrt_process_t, with the life of the child]
  wchild,  \* [WPid -> the standard handles and the other ones it starts with]
  wapp,    \* handles that the program took from a process object
  wlost    \* handles that nothing refers to any longer

w32Vars == <<handles, wproc, wchild, wapp, wlost>>

NoW32Proc == [life |-> "none", call |-> FALSE, terminated |-> FALSE, detached |-> FALSE,
              hProcess |-> FALSE, hd |-> [i \in WStd |-> Invalid]]

W32Init ==
  /\ handles = {StdHandle(i) : i \in WStd} \cup Given
  /\ wproc = [p \in WPid |-> NoW32Proc]
  /\ wchild = [p \in WPid |-> [std |-> [i \in WStd |-> Invalid], rest |-> {}]]
  /\ wapp = {} /\ wlost = {}

-----------------------------------------------------------------------------
(***************************************************************************)
(* gpgrt_process_spawn.                                                     *)
(***************************************************************************)
\* The ends of a pipe: the child reads its input and writes the other two.
ChildEnd(p, i) == PipeEnd(p, i, IF i = 0 THEN "r" ELSE "w")
OwnEnd(p, i) == PipeEnd(p, i, IF i = 0 THEN "w" ELSE "r")
Pipes(flags, below) == {i \in WStd : i < below /\ flags.std[i] = "pipe"}

\* The call under way: the handles that are open, and for each standard file the
\* child's and the program's: hd_in[0] and hd_in[1], hd_out[1] and hd_out[0]...
Start(p, flags, below) ==
  [open  |-> handles \cup {ChildEnd(p, i) : i \in Pipes(flags, below)}
                     \cup {OwnEnd(p, i) : i \in Pipes(flags, below)},
   child |-> [i \in WStd |-> CASE flags.std[i] = "pipe" -> ChildEnd(p, i)
                              [] flags.std[i] = "keep" -> StdHandle(i)
                              [] flags.std[i] = "none" -> Invalid],
   own   |-> [i \in WStd |-> IF flags.std[i] = "pipe" THEN OwnEnd(p, i) ELSE Invalid]]

\* What the actions give replaces a pipe, whose ends are closed; where there is
\* nothing yet "nul" is opened, if the flags say so.
Redirected(s, p, flags, act) ==
  LET replaced == {i \in WStd : act.hd[i] # Invalid}
      null == {i \in WStd \ replaced : s.child[i] = Invalid /\ flags.nul}
  IN  [open  |-> (s.open \ UNION {{ChildEnd(p, i), OwnEnd(p, i)} : i \in replaced})
                   \cup {Nul(p, i) : i \in null},
       child |-> [i \in WStd |-> IF i \in replaced THEN act.hd[i]
                                ELSE IF i \in null THEN Nul(p, i) ELSE s.child[i]],
       own   |-> [i \in WStd |-> IF i \in replaced THEN Invalid ELSE s.own[i]]]

\* What the call closes of the child's handles: not those of its caller.
Closable(s, flags, act) ==
  {s.child[i] : i \in {j \in WStd : s.child[j] # act.hd[j] /\ flags.std[j] # "keep"}}

\* The handles to inherit: the standard ones, then those of the actions, as far
\* as there is room.
Inherited(s, act) ==
  LET used == Cardinality({i \in WStd : s.child[i] # Invalid})
      room == IF Len(act.inherit) <= MaxInherit - used THEN Len(act.inherit) ELSE MaxInherit - used
  IN  [std |-> s.child, rest |-> {act.inherit[k] : k \in 1..room}]

\* Pipes that cannot be made: those before it are closed.
SpawnNoPipe(p, flags, i) ==
  /\ wproc[p].life = "none" /\ flags.std[i] = "pipe"
  /\ LET s == Start(p, flags, i)
     IN  handles' = s.open \ UNION {{s.child[j], s.own[j]} : j \in Pipes(flags, i)}
  /\ UNCHANGED <<wproc, wchild, wapp, wlost>>

\* No memory for the list of attributes, or CreateProcess fails.
SpawnFails(p, flags, act) ==
  /\ wproc[p].life = "none"
  /\ LET s == Redirected(Start(p, flags, 3), p, flags, act)
     IN  handles' = s.open \ (Closable(s, flags, act) \cup {s.own[i] : i \in Pipes(flags, 3)})
  /\ UNCHANGED <<wproc, wchild, wapp, wlost>>

\* Both kinds of environment are given, or it cannot be made: nothing is closed.
SpawnNoEnvironment(p, flags, act) ==
  /\ wproc[p].life = "none"
  /\ handles' = Redirected(Start(p, flags, 3), p, flags, act).open
  /\ wlost' = wlost \cup (handles' \ handles)
  /\ wproc' = [wproc EXCEPT ![p].life = "released"]
  /\ UNCHANGED <<wchild, wapp>>

\* Without a place for the object a detached process is released, and another
\* one waited for and released.
Spawn(p, flags, act, object) ==
  /\ wproc[p].life = "none"
  /\ LET s == Redirected(Start(p, flags, 3), p, flags, act)
         mine == {s.own[i] : i \in WStd} \ {Invalid}
     IN  /\ wchild' = [wchild EXCEPT ![p] = Inherited(s, act)]
         /\ IF flags.detached /\ ~object
            THEN /\ handles' = s.open \ (Closable(s, flags, act) \cup mine)
                 /\ wproc' = [wproc EXCEPT ![p].life = "released"]
            ELSE /\ handles' = (s.open \ Closable(s, flags, act)) \cup {ProcHandle(p)}
                 /\ wproc' = [wproc EXCEPT ![p] =
                      [NoW32Proc EXCEPT !.life = "running", !.call = ~object,
                         !.detached = flags.detached, !.hProcess = TRUE, !.hd = s.own]]
  /\ UNCHANGED <<wapp, wlost>>

-----------------------------------------------------------------------------
(***************************************************************************)
(* The process object.                                                      *)
(***************************************************************************)
IsW32Object(p) == wproc[p].life \in {"running", "ended"} /\ ~wproc[p].call
Held(p) == {wproc[p].hd[i] : i \in WStd} \ {Invalid}
ProcHeld(p) == IF wproc[p].hProcess THEN {ProcHandle(p)} ELSE {}

W32ChildExits(p) ==
  /\ wproc[p].life = "running"
  /\ wproc' = [wproc EXCEPT ![p].life = "ended"]
  /\ UNCHANGED <<handles, wchild, wapp, wlost>>

\* gpgrt_process_wait: an object whose process handle was taken knows of no end.
W32Wait(p) ==
  /\ IsW32Object(p) /\ wproc[p].hProcess /\ wproc[p].life = "ended"
  /\ wproc' = [wproc EXCEPT ![p].terminated = TRUE]
  /\ UNCHANGED <<handles, wchild, wapp, wlost>>

\* gpgrt_process_wait_list passes over detached processes and ends with the
\* first one that still runs.
W32WaitList(list) ==
  /\ \A k \in DOMAIN list : IsW32Object(list[k])
  /\ LET blocks(p) == ~wproc[p].terminated /\ ~wproc[p].detached /\ wproc[p].hProcess /\ wproc[p].life = "running"
         seen == {list[k] : k \in {j \in DOMAIN list : \A i \in 1..j : ~blocks(list[i])}}
     IN  wproc' = [p \in WPid |-> IF p \in seen /\ ~wproc[p].detached /\ wproc[p].hProcess
                                 THEN [wproc[p] EXCEPT !.terminated = TRUE] ELSE wproc[p]]
  /\ UNCHANGED <<handles, wchild, wapp, wlost>>

\* gpgrt_process_get_fds, get_streams and GPGRT_PROCESS_GET_HANDLES: the program
\* takes the handles.
W32TakeHandles(p) ==
  /\ IsW32Object(p) /\ Held(p) # {}
  /\ wapp' = wapp \cup Held(p)
  /\ wproc' = [wproc EXCEPT ![p].hd = [i \in WStd |-> Invalid]]
  /\ UNCHANGED <<handles, wchild, wlost>>

\* GPGRT_PROCESS_GET_P_HANDLE.
W32TakeProcess(p) ==
  /\ IsW32Object(p) /\ wproc[p].hProcess
  /\ wapp' = wapp \cup {ProcHandle(p)}
  /\ wproc' = [wproc EXCEPT ![p].hProcess = FALSE]
  /\ UNCHANGED <<handles, wchild, wlost>>

\* Mutant: the handles that the program did not take stay open.
W32FreedKeeps(p) ==
  /\ handles' = handles \ ProcHeld(p)
  /\ wproc' = [wproc EXCEPT ![p] = [NoW32Proc EXCEPT !.life = "released"]]
  /\ UNCHANGED <<wchild, wapp, wlost>>

\* The object is freed with all it still has.
W32Freed(p) ==
  /\ handles' = handles \ (Held(p) \cup ProcHeld(p))
  /\ wproc' = [wproc EXCEPT ![p] = [NoW32Proc EXCEPT !.life = "released"]]
  /\ UNCHANGED <<wchild, wapp, wlost>>

\* A child that is not detached and not known to have ended is terminated and
\* waited for, if its process handle is there.
W32Release(p) ==
  /\ IsW32Object(p)
  /\ IF wproc[p].terminated \/ wproc[p].detached \/ ~wproc[p].hProcess THEN W32Freed(p)
     ELSE /\ wproc' = [wproc EXCEPT ![p].call = TRUE]
          /\ UNCHANGED <<handles, wchild, wapp, wlost>>

\* The wait of a call ends with the child.
W32CallReturns(p) == wproc[p].call /\ wproc[p].life = "ended" /\ W32Freed(p)

W32AppClose(h) ==
  /\ h \in wapp
  /\ handles' = handles \ {h} /\ wapp' = wapp \ {h}
  /\ UNCHANGED <<wproc, wchild, wlost>>

W32Next ==
  \/ \E p \in WPid, flags \in WFlagSets, act \in WActs :
       \/ \E i \in WStd : SpawnNoPipe(p, flags, i)
       \/ SpawnFails(p, flags, act) \/ SpawnNoEnvironment(p, flags, act)
       \/ \E object \in BOOLEAN : Spawn(p, flags, act, object)
  \/ \E p \in WPid : \/ W32ChildExits(p) \/ W32Wait(p) \/ W32TakeHandles(p)
                    \/ W32TakeProcess(p) \/ W32Release(p) \/ W32CallReturns(p)
  \/ \E p, q \in WPid : W32WaitList(<<p, q>>)
  \/ \E h \in wapp : W32AppClose(h)

W32Spec == W32Init /\ [][W32Next]_w32Vars

-----------------------------------------------------------------------------
\* Every handle that is open is a standard one, or one of the program, of a
\* process object, or among those that a spawn with a bad environment leaves
\* behind; and whatever is still referred to is open (gpgrt_process_spawn,
\* gpgrt_process_release).
HandlesAccounted ==
  handles = {StdHandle(i) : i \in WStd} \cup Given \cup wapp \cup wlost
              \cup UNION {Held(p) \cup ProcHeld(p) : p \in WPid}

-----------------------------------------------------------------------------
(***************************************************************************)
(* What a child gets: the command line, one string that it divides again into  *)
(* arguments, and the block of its environment.                              *)
(***************************************************************************)
CONSTANTS
  Argvs,      \* the argument vectors, of arguments that are sequences of characters
  EnvBlocks,  \* environments, in the order of the system: sequences of <<name, value>>
  EnvChanges, \* what callers give with gpgrt_spawn_actions_set_environ, a value or NoValue
  EnvDim,     \* DIM (envlen) of prepare_env_block
  NoValue,    \* a name without an equals sign
  TooLarge    \* GPG_ERR_TOO_LARGE

ArgChars == UNION {UNION {ToSet(argv[i]) : i \in DOMAIN argv} : argv \in Argvs}
EnvEntries == UNION {ToSet(es) : es \in EnvBlocks \cup EnvChanges}
\* The system has a variable once, and with a value.
ASSUME W32ChildAssumption ==
  /\ EnvDim \in Nat \ {0}
  /\ Argvs \subseteq Seq(Seq(ArgChars))
  /\ EnvBlocks \cup EnvChanges \subseteq Seq(EnvEntries)
  /\ \A e \in EnvEntries : e = <<e[1], e[2]>>
  /\ \A es \in EnvBlocks : \A i, j \in 1..Len(es) :
       (es[i][1] = es[j][1] => i = j) /\ es[i][2] # NoValue

VARIABLES
  cmdline,  \* an argument vector, the room allocated for its command line, and the line
  envblock  \* an environment, the changes, and the block

childVars == <<cmdline, envblock>>

\* One call of either in a behaviour: they leave nothing behind.
Untouched == cmdline.argv = <<>> /\ envblock.changes = <<>>

-----------------------------------------------------------------------------
(***************************************************************************)
(* build_w32_commandline.  Characters are "blank", "quote", "backslash", others.     *)
(***************************************************************************)
Has(arg, ch) == Contains(arg, ch)
DoubledNot(arg) == arg
Doubled(arg) ==
  FlattenSeq([i \in 1..Len(arg) |-> IF arg[i] = "quote" THEN <<"quote", "quote">> ELSE <<arg[i]>>])
build_w32_commandline_copy(arg) ==
  IF arg = <<>> THEN <<"quote", "quote">>
  ELSE IF Has(arg, "blank") \/ Has(arg, "quote")
       THEN <<"quote">> \o Doubled(arg) \o <<"quote">>
       ELSE arg
\* A space and two quotes for each string, quotes twice, and the NUL.
CharRoom(n, ch) == IF ch = "quote" THEN n + 1 ELSE n
StringRoom(n, arg) == FoldLeft(CharRoom, n + Len(arg) + 3, arg)
LineRoom(argv) == 1 + FoldLeft(StringRoom, 0, argv)
build_w32_commandline(argv) ==
  FlattenSeq([i \in 1..Len(argv) |->
    (IF i = 1 THEN <<>> ELSE <<"blank">>) \o build_w32_commandline_copy(argv[i])])
BuildCommandLine(argv) ==
  /\ Untouched
  /\ cmdline' = [argv |-> argv, room |-> LineRoom(argv), line |-> build_w32_commandline(argv)]
  /\ UNCHANGED envblock

\* How a child's C library divides its command line: blanks outside quotes end an argument,
\* and two quotes inside quotes are one.  Of a quote after backslashes see ChildGetsAll.
SplitStart == [args |-> <<>>, arg |-> <<>>, any |-> FALSE, quoted |-> FALSE, skip |-> FALSE]
SplitStep(acc, line, i) ==
  LET doubled == acc.quoted /\ i < Len(line) /\ line[i + 1] = "quote"
  IN IF acc.skip THEN [acc EXCEPT !.skip = FALSE]
     ELSE CASE line[i] = "quote" /\ doubled -> [acc EXCEPT !.arg = Append(@, "quote"), !.skip = TRUE]
            [] line[i] = "quote" /\ ~doubled -> [acc EXCEPT !.quoted = ~@, !.any = TRUE]
            [] line[i] = "blank" /\ ~acc.quoted ->
                 IF acc.any THEN [acc EXCEPT !.args = Append(@, acc.arg), !.arg = <<>>, !.any = FALSE] ELSE acc
            [] OTHER -> [acc EXCEPT !.arg = Append(@, line[i]), !.any = TRUE]
SplitEnd(line) == FoldLeft(LAMBDA acc, i : SplitStep(acc, line, i), SplitStart, [i \in 1..Len(line) |-> i])
Split(line) == LET end == SplitEnd(line) IN IF end.any THEN Append(end.args, end.arg) ELSE end.args

-----------------------------------------------------------------------------
(***************************************************************************)
(* prepare_env_block: the block's entries, one after the other, with the table of     *)
(* their lengths, which is as long as EnvDim.                                      *)
(***************************************************************************)
EntriesOf(es, n) == {i \in 1..Len(es) : es[i][1] = n}
RemoveEntryNot(es, n) == es
\* The first entry of that name is taken out and the later ones move up.
RemoveEntry(es, n) ==
  IF EntriesOf(es, n) = {} THEN es
  ELSE RemoveAt(es, CHOOSE i \in EntriesOf(es, n) : \A j \in EntriesOf(es, n) : i <= j)
\* A new entry goes to the end.
AddEntry(es, change) == IF Len(es) >= EnvDim - 1 THEN TooLarge ELSE Append(es, change)
ChangeEntry(es, change) ==
  IF es = TooLarge THEN TooLarge
  ELSE IF change[2] = NoValue THEN RemoveEntry(es, change[1])
  ELSE AddEntry(RemoveEntry(es, change[1]), change)
prepare_env_block(es, envchange) ==
  IF Len(es) > EnvDim THEN TooLarge ELSE FoldLeft(ChangeEntry, es, envchange)
PrepareBlock(es, envchange) ==
  /\ Untouched
  /\ envblock' = [before |-> es, changes |-> envchange, after |-> prepare_env_block(es, envchange)]
  /\ UNCHANGED cmdline

ChildInit ==
  /\ cmdline = [argv |-> <<>>, room |-> 0, line |-> <<>>]
  /\ envblock = [before |-> <<>>, changes |-> <<>>, after |-> <<>>]
ChildNext ==
  \/ \E argv \in Argvs : BuildCommandLine(argv)
  \/ \E es \in EnvBlocks, ch \in EnvChanges : PrepareBlock(es, ch)

ChildSpec == ChildInit /\ [][ChildNext]_childVars

-----------------------------------------------------------------------------
\* The value that was given last, or the one that was there.
LastValue(before, changes, n) ==
  LET c == EntriesOf(changes, n)
      e == EntriesOf(before, n)
  IN IF c # {} THEN changes[CHOOSE i \in c : \A j \in c : i >= j][2]
     ELSE IF e # {} THEN before[CHOOSE i \in e : TRUE][2] ELSE NoValue
\* The command line fits into its room, and the child divides it into the arguments that the
\* caller gave, unless a backslash comes before a quote that the line adds or doubles; and
\* the block has each variable once, with the last value given, and none that was removed.
ChildGetsAll ==
  LET argv == cmdline.argv
      Escapes(arg) ==
        (Has(arg, "blank") \/ Has(arg, "quote")) /\
        \E i \in 1..Len(arg) : arg[i] = "backslash" /\ (i = Len(arg) \/ arg[i + 1] = "quote")
      b == envblock
  IN /\ Len(cmdline.line) < cmdline.room \/ argv = <<>>
     /\ (\A i \in 1..Len(argv) : ~Escapes(argv[i])) => Split(cmdline.line) = argv
     /\ b.changes # <<>> /\ b.after # TooLarge =>
          \A n \in {c[1] : c \in ToSet(b.changes \o b.before)} :
            LET value == LastValue(b.before, b.changes, n)
            IN IF value = NoValue THEN EntriesOf(b.after, n) = {}
               ELSE \E i \in 1..Len(b.after) : b.after[i] = <<n, value>> /\ EntriesOf(b.after, n) = {i}
=============================================================================
