----------------------------- MODULE SpawnPosix -----------------------------
(***************************************************************************)
(* Processes on POSIX systems (src/spawn-posix.c): descriptors of the        *)
(* program and of its children, and the life of a child from fork to         *)
(* waitpid.                                                                  *)
(*                                                                         *)
(* After fork a child has a table of descriptors of its own, so what it does *)
(* until exec does not interleave with anything: a call is one step.         *)
(***************************************************************************)
EXTENDS Integers, FiniteSets, Functions

CONSTANTS
  MaxFd,     \* descriptors are numbered 0 .. MaxFd-1: RLIMIT_NOFILE
  Pid,       \* the processes that can be started
  FlagSets,  \* the flags of a call of gpgrt_process_spawn: [std, sock, detached]
  Acts,      \* what it is given as actions: [fd : 0..2 -> Fd \cup {-1}, except]
  ExtraFile,  \* a file the program has open besides the standard ones, and
  ExtraFd,   \* its descriptor
  Free,      \* an unused descriptor
  HaveClosefrom  \* the system has closefrom

Fd == 0..(MaxFd - 1)
Std == 0..2

ASSUME ExtraIsOpen == MaxFd \in Nat /\ ExtraFd \in Fd \ Std
ASSUME FlagsAreFlags ==
  \A flags \in FlagSets : /\ flags.std \in [Std -> {"pipe", "keep", "null"}]
                         /\ flags.sock \in BOOLEAN /\ flags.detached \in BOOLEAN
ASSUME ClosefromOrNot == HaveClosefrom \in BOOLEAN
ASSUME ActsAreActs == \A act \in Acts : act.fd \in [Std -> Fd \cup {-1}] /\ act.except \subseteq Fd
ASSUME FreeIsNoFile ==
  /\ Free # ExtraFile
  /\ \A i \in Std : Free # <<"std", i>>
  /\ \A w \in BOOLEAN : Free # <<"null", w>>
  /\ \A p \in Pid, stream \in {"in", "out", "err", "sock"}, end \in {"r", "w", "a", "b"} :
       Free # <<"pipe", p, stream, end>> /\ ExtraFile # <<"pipe", p, stream, end>>

VARIABLES
  tab,    \* the program's descriptors: [Fd -> file or Free]
  proc,   \* [Pid -> gpgrt_process_t, with the life of the child]
  child,  \* [Pid -> the descriptors of the child when its program starts]
  app,    \* the descriptors that the program got from gpgrt_process_get_fds
  orphan, \* descriptors that are open and that nothing refers to any longer
  stray   \* the calls that sent a signal to a process that had been waited for

posixVars == <<tab, proc, child, app, orphan, stray>>

NoTable == [f \in Fd |-> Free]
\* Histories: "waited" counts the waits for the child, "request" and "inherit"
\* are what its spawn asked for.
NoProc == [life |-> "none", terminated |-> FALSE, waited |-> 0, call |-> "none",
           fd |-> [i \in Std |-> -1], request |-> [i \in Std |-> Free], inherit |-> {}]

PosixInit ==
  /\ tab = [f \in Fd |-> CASE f \in Std -> <<"std", f>>
                           [] f = ExtraFd -> ExtraFile
                           [] OTHER -> Free]
  /\ proc = [p \in Pid |-> NoProc]
  /\ child = [p \in Pid |-> NoTable]
  /\ app = {} /\ orphan = {} /\ stray = {}

-----------------------------------------------------------------------------
(***************************************************************************)
(* System calls.  The lowest free descriptor is taken.                      *)
(***************************************************************************)
FreeFds(t) == {f \in Fd : t[f] = Free}
Lowest(s) == CHOOSE f \in s : \A g \in s : f <= g
CloseFds(t, fd) == IF fd \in Fd THEN [t EXCEPT ![fd] = Free] ELSE t
OpenFds(t, file) == [t EXCEPT ![Lowest(FreeFds(t))] = file]

\* pipe and socketpair: two descriptors, or none.
CanPipe(t) == Cardinality(FreeFds(t)) >= 2
Pair(t) == LET a == Lowest(FreeFds(t)) IN <<a, Lowest(FreeFds(t) \ {a})>>
MakePipe(t, r, w) == LET p == Pair(t) IN [t EXCEPT ![p[1]] = r, ![p[2]] = w]

OpenFile(p, stream, end) == <<"pipe", p, stream, end>>
Null(i) == <<"null", i # 0>>

-----------------------------------------------------------------------------
(***************************************************************************)
(* my_exec: what the child does with its descriptors.                       *)
(***************************************************************************)
\* /dev/null for a standard descriptor that was not given: w is [t, fd, ok].
\* Without it, and if there is nothing to connect, the child ends.
Assign(w, i, fails) ==
  IF w.fd[i] # -1 THEN w
  ELSE IF fails \/ FreeFds(w.t) = {} THEN [w EXCEPT !.ok = FALSE]
  ELSE [w EXCEPT !.t = OpenFds(w.t, Null(i)), !.fd[i] = Lowest(FreeFds(w.t))]
Connect(w, i) ==
  IF w.fd[i] = i THEN w
  ELSE IF w.fd[i] = -1 \/ w.t[w.fd[i]] = Free THEN [w EXCEPT !.ok = FALSE]
  ELSE [w EXCEPT !.t[i] = w.t[w.fd[i]]]

\* Mutant: every descriptor below those of the list stays open.
close_all_fds_above(t, first, except) ==
  [f \in Fd |-> IF \A e \in except \cup {first} : f > e THEN Free ELSE t[f]]

\* closefrom closes what is above the list, close_except the rest from "first".
\* A list that ends below "first" makes closefrom start there.
Above(except, f) == \A e \in except : f > e
Closefrom(except, f) == HaveClosefrom /\ except # {} /\ Above(except, f)
close_all_fds(t, first, except) ==
  [f \in Fd |-> IF f \notin except /\ (f >= first \/ Closefrom(except, f)) THEN Free ELSE t[f]]

my_exec(t, fd, except, fails) ==
  LET w0 == Assign(Assign(Assign([t |-> t, fd |-> fd, ok |-> TRUE], 0, fails), 1, fails), 2, fails)
      w1 == Connect(Connect(Connect(w0, 0), 1), 2)
  IN  [t |-> IF w1.ok THEN close_all_fds(w1.t, 3, except) ELSE NoTable, ok |-> w1.ok]

-----------------------------------------------------------------------------
(***************************************************************************)
(* gpgrt_process_spawn.  s is [t, in, out, err, ok]; "in", "out" and "err"   *)
(* are the pairs fd_in, fd_out and fd_err.  flags is [std, sock, detached]:  *)
(* what each standard file is to be, and the two flags of that name.         *)
(***************************************************************************)
NoPair == <<-1, -1>>
Fails == {"nothing", "in", "out", "err", "fork", "dup", "null"}

\* Descriptors that the error paths, and the parent after fork, close.
CloseUnless(t, fd, std) == IF fd = std THEN t ELSE CloseFds(t, fd)
CloseIn(s)  == [s EXCEPT !.t = CloseFds(CloseUnless(s.t, s.in[1], 0), s.in[2])]
CloseOut(s) == [s EXCEPT !.t = CloseUnless(CloseFds(s.t, s.out[1]), s.out[2], 1)]
CloseErr(s) == [s EXCEPT !.t = CloseUnless(CloseFds(s.t, s.err[1]), s.err[2], 2)]
SpawnFailed(s) == [s EXCEPT !.ok = FALSE]

\* A duplicate that cannot be made is -1, and this is not looked at.
Dup(s, i, fd, fails) ==
  IF fails \/ FreeFds(s.t) = {} THEN s
  ELSE [s EXCEPT !.out[i] = Lowest(FreeFds(s.t)), !.t = OpenFds(s.t, s.t[fd])]

PrepareSockets(s, p, fail) ==
  IF fail = "in" \/ ~CanPipe(s.t) THEN SpawnFailed(s)
  ELSE LET q == [s EXCEPT !.in = Pair(s.t),
                          !.t = MakePipe(s.t, OpenFile(p, "sock", "a"), OpenFile(p, "sock", "b"))]
       IN  Dup(Dup(q, 1, q.in[1], fail = "dup"), 2, q.in[2], fail = "dup")

PrepareIn(s, p, flags, fail) ==
  IF flags.std[0] # "pipe" THEN [s EXCEPT !.in = IF flags.std[0] = "keep" THEN <<0, -1>> ELSE NoPair]
  ELSE IF fail = "in" \/ ~CanPipe(s.t) THEN SpawnFailed(s)
  ELSE [s EXCEPT !.in = Pair(s.t), !.t = MakePipe(s.t, OpenFile(p, "in", "r"), OpenFile(p, "in", "w"))]

\* Mutant: if its pipe cannot be made, the one for the input stays open.
PrepareOutLeaks(s, p, flags, fail) ==
  IF flags.std[1] # "pipe" THEN [s EXCEPT !.out = IF flags.std[1] = "keep" THEN <<-1, 1>> ELSE NoPair]
  ELSE IF fail = "out" \/ ~CanPipe(s.t) THEN SpawnFailed(s)
  ELSE [s EXCEPT !.out = Pair(s.t), !.t = MakePipe(s.t, OpenFile(p, "out", "r"), OpenFile(p, "out", "w"))]

PrepareOut(s, p, flags, fail) ==
  IF flags.std[1] # "pipe" THEN [s EXCEPT !.out = IF flags.std[1] = "keep" THEN <<-1, 1>> ELSE NoPair]
  ELSE IF fail = "out" \/ ~CanPipe(s.t) THEN SpawnFailed(CloseIn(s))
  ELSE [s EXCEPT !.out = Pair(s.t), !.t = MakePipe(s.t, OpenFile(p, "out", "r"), OpenFile(p, "out", "w"))]

PrepareErr(s, p, flags, fail) ==
  IF flags.std[2] # "pipe" THEN [s EXCEPT !.err = IF flags.std[2] = "keep" THEN <<-1, 2>> ELSE NoPair]
  ELSE IF fail = "err" \/ ~CanPipe(s.t) THEN SpawnFailed(CloseOut(CloseIn(s)))
  ELSE [s EXCEPT !.err = Pair(s.t), !.t = MakePipe(s.t, OpenFile(p, "err", "r"), OpenFile(p, "err", "w"))]

Prepare(p, flags, fail) ==
  LET s0 == [t |-> tab, in |-> NoPair, out |-> NoPair, err |-> NoPair, ok |-> TRUE]
      s1 == IF flags.sock THEN PrepareSockets(s0, p, fail) ELSE PrepareIn(s0, p, flags, fail)
      s2 == IF flags.sock \/ ~s1.ok THEN s1 ELSE PrepareOut(s1, p, flags, fail)
      s3 == IF s2.ok THEN PrepareErr(s2, p, flags, fail) ELSE s2
  IN  IF s3.ok /\ fail = "fork" THEN SpawnFailed(CloseErr(CloseOut(CloseIn(s3)))) ELSE s3

\* The child closes the ends of the parent; its own are its standard files
\* where the actions give nothing else.
GivenFds(s, act) == [i \in Std |-> IF act.fd[i] >= 0 THEN act.fd[i]
                                ELSE <<s.in[1], s.out[2], s.err[2]>>[i + 1]]
OwnFds(s) == CloseFds(CloseFds(CloseFds(s.t, s.in[2]), s.out[1]), s.err[1])
ChildTable(s, act, fail) == my_exec(OwnFds(s), GivenFds(s, act), act.except, fail = "null")

\* The parent closes the ends of the child.
ParentTable(s) ==
  CloseUnless(CloseUnless(CloseUnless(s.t, s.in[1], 0), s.out[2], 1), s.err[2], 2)

\* dup2 has put another file there before.
Overwritten(act, i) == act.fd[i] \in Std /\ act.fd[i] < i /\ act.fd[act.fd[i]] # act.fd[i]

\* What the flags and the actions ask for (history); out is the child's end of
\* the output.  Nothing is promised of a file that is exchanged or not open.
DefaultFile(p, flags, i, out) ==
  IF flags.sock /\ i < 2
  THEN IF i = 1 /\ out = -1 THEN Free ELSE OpenFile(p, "sock", IF i = 0 THEN "a" ELSE "b")
  ELSE CASE flags.std[i] = "pipe" -> <<OpenFile(p, "in", "r"), OpenFile(p, "out", "w"), OpenFile(p, "err", "w")>>[i + 1]
         [] flags.std[i] = "keep" -> <<"std", i>>
         [] flags.std[i] = "null" -> Null(i)
Request(p, flags, act, out) ==
  [f \in Std \cup act.except |->
    IF f \notin Std THEN tab[f]
    ELSE IF act.fd[f] = -1 THEN DefaultFile(p, flags, f, out)
    ELSE IF Overwritten(act, f) THEN Free ELSE tab[act.fd[f]]]

\* Without a place for the object (object is FALSE) the call also waits for the
\* child and releases it.
process_spawn(p, flags, act, fail, object) ==
  /\ proc[p].life = "none" /\ ~flags.detached
  /\ LET s == Prepare(p, flags, fail)
         x == ChildTable(s, act, fail)
     IN  /\ tab' = IF s.ok THEN ParentTable(s) ELSE s.t
         /\ IF s.ok
            THEN /\ proc' = [proc EXCEPT ![p] =
                      [NoProc EXCEPT !.life = IF x.ok THEN "running" ELSE "zombie", !.call = IF object THEN "none" ELSE "wait",
                                     !.fd = [i \in Std |-> <<s.in[2], s.out[1], s.err[1]>>[i + 1]],
                                     !.request = Request(p, flags, act, s.out[2]), !.inherit = act.except]]
                 /\ child' = [child EXCEPT ![p] = x.t]
            ELSE UNCHANGED <<proc, child>>
  /\ UNCHANGED <<app, orphan, stray>>

\* A child of init: only the process in between is waited for, at once.  The
\* flags for the standard files are refused.
spawn_detached(p, flags, act, fail) ==
  /\ proc[p].life = "none" /\ flags.detached /\ fail # "fork"
  /\ ~flags.sock /\ \A i \in Std : flags.std[i] = "null"
  /\ LET x == my_exec(tab, act.fd, act.except, fail = "null")
     IN  /\ proc' = [proc EXCEPT ![p] = [NoProc EXCEPT !.life = IF x.ok THEN "detached" ELSE "gone",
                                                       !.request = Request(p, flags, act, -1), !.inherit = act.except]]
         /\ child' = [child EXCEPT ![p] = x.t]
  /\ UNCHANGED <<tab, app, orphan, stray>>

-----------------------------------------------------------------------------
(***************************************************************************)
(* The process object.  "call" is the call that waits for the child.         *)
(***************************************************************************)
IsObject(p) == proc[p].life \in {"running", "zombie", "reaped"} /\ proc[p].call = "none"
Fds(p) == {proc[p].fd[i] : i \in Std} \ {-1}

ChildExits(p) ==
  /\ proc[p].life \in {"running", "detached"}
  /\ proc' = [proc EXCEPT ![p].life = IF @ = "running" THEN "zombie" ELSE "gone"]
  /\ child' = [child EXCEPT ![p] = NoTable]
  /\ UNCHANGED <<tab, app, orphan, stray>>

\* waitpid: the child is gone, its status is kept.
Reap(r) == [r EXCEPT !.life = "reaped", !.terminated = TRUE, !.waited = @ + 1]

\* gpgrt_process_wait on a child that has ended.  If it runs, the call returns
\* TIMEOUT, or with "hang" comes back here later.
process_wait(p) ==
  /\ IsObject(p) /\ ~proc[p].terminated /\ proc[p].life = "zombie"
  /\ proc' = [proc EXCEPT ![p] = Reap(@)]
  /\ UNCHANGED <<tab, child, app, orphan, stray>>

\* Without "hang": the first of the list that still runs ends the call.
process_wait_list(list) ==
  /\ \A i \in DOMAIN list : IsObject(list[i])
  /\ LET done == {list[i] : i \in {k \in DOMAIN list : \A j \in 1..k : proc[list[j]].life # "running"}}
     IN  proc' = [p \in Pid |-> IF p \in done /\ ~proc[p].terminated THEN Reap(proc[p]) ELSE proc[p]]
  /\ UNCHANGED <<tab, child, app, orphan, stray>>

\* A signal: the number of a reaped child may be another process by now.
Stray(p, by) == IF proc[p].life = "reaped" THEN stray \cup {by} ELSE stray

\* gpgrt_process_terminate, and GPGRT_PROCESS_KILL of gpgrt_process_ctl: the
\* state of the child is not looked at.
process_terminate(p) ==
  /\ IsObject(p)
  /\ stray' = Stray(p, "terminate")
  /\ UNCHANGED <<tab, proc, child, app, orphan>>

process_get_fds(p) ==
  /\ IsObject(p)
  /\ app' = app \cup Fds(p)
  /\ proc' = [proc EXCEPT ![p].fd = [i \in Std |-> -1]]
  /\ UNCHANGED <<tab, child, orphan, stray>>

\* The stream for the standard output cannot be made: nothing has its descriptor.
process_get_streams(p) ==
  /\ IsObject(p) /\ proc[p].fd[1] # -1
  /\ app' = app \cup ({proc[p].fd[0], proc[p].fd[2]} \ {-1})
  /\ orphan' = orphan \cup {proc[p].fd[1]}
  /\ proc' = [proc EXCEPT ![p].fd = [i \in Std |-> -1]]
  /\ UNCHANGED <<tab, child, stray>>

\* The object, r, is freed; the descriptors it still has stay open.
Freed(p, r) ==
  /\ proc' = [proc EXCEPT ![p] = [NoProc EXCEPT !.life = "released", !.waited = r.waited]]
  /\ orphan' = orphan \cup Fds(p)
  /\ UNCHANGED <<tab, child, app>>

\* Mutant: a child that has been waited for is terminated too.
process_release_kills(p) ==
  /\ IsObject(p) /\ proc[p].life = "reaped"
  /\ stray' = Stray(p, "release") /\ Freed(p, proc[p])

\* A child that is not known to have ended is terminated and waited for.
process_release(p) ==
  /\ IsObject(p)
  /\ IF proc[p].terminated THEN Freed(p, proc[p]) /\ UNCHANGED stray
     ELSE /\ proc' = [proc EXCEPT ![p].call = "release"]
          /\ stray' = Stray(p, "release")
          /\ UNCHANGED <<tab, child, app, orphan>>

\* The child has ended: the call that waits for it frees the object.
CallReturns(p) ==
  /\ proc[p].call # "none" /\ proc[p].life = "zombie"
  /\ Freed(p, Reap(proc[p])) /\ UNCHANGED stray

\* The program closes a descriptor it was given.
CloseOwn(fd) ==
  /\ fd \in app
  /\ tab' = CloseFds(tab, fd)
  /\ app' = app \ {fd}
  /\ UNCHANGED <<proc, child, orphan, stray>>

PosixNext ==
  \/ \E p \in Pid, flags \in FlagSets, act \in Acts, fail \in Fails :
       (\E object \in BOOLEAN : process_spawn(p, flags, act, fail, object))
       \/ spawn_detached(p, flags, act, fail)
  \/ \E p \in Pid : \/ ChildExits(p) \/ process_wait(p) \/ process_terminate(p)
                    \/ process_get_fds(p) \/ process_get_streams(p)
                    \/ process_release(p) \/ CallReturns(p)
  \/ \E p, q \in Pid : process_wait_list(<<p, q>>)
  \/ \E fd \in app : CloseOwn(fd)

PosixSpec == PosixInit /\ [][PosixNext]_posixVars

-----------------------------------------------------------------------------
(***************************************************************************)
(* Properties, for a program whose standard descriptors are open.            *)
(***************************************************************************)
\* Whatever step of a spawn fails, and however many processes there are, every
\* descriptor that is open belongs to the program, to a process object or is
\* one of those that a release or a failed stream has left over; none of these
\* was closed behind its owner's back (error paths of gpgrt_process_spawn).
FdsAccounted ==
  {f \in Fd : tab[f] # Free} =
    Std \cup {ExtraFd} \cup app \cup orphan \cup UNION {Fds(p) : p \in Pid}

\* The program of a child finds as its standard files what the flags and actions
\* ask for, the descriptors it is to inherit, and nothing else (my_exec,
\* close_all_fds).  Where there is closefrom a list of descriptors to inherit that
\* ends below 2 costs it the standard files above the list (spawn-posix.c:250).
Unlisted(except) == {f \in Std : Closefrom(except, f)}
ChildConnected ==
  \A p \in Pid : proc[p].life \in {"running", "detached"} =>
    /\ \A f \in DOMAIN proc[p].request \ Unlisted(proc[p].inherit) :
         proc[p].request[f] # Free => child[p][f] = proc[p].request[f]
    /\ \A f \in Unlisted(proc[p].inherit) : child[p][f] = Free
    /\ \A f \in Fd \ DOMAIN proc[p].request : child[p][f] = Free

\* When a child ends, who reads its output sees the end of it: no other process
\* has a descriptor of the child's end, neither the program nor a child that
\* was started while the pipe existed; the same holds for its input.
EofArrives ==
  \A p \in Pid : \A file \in {OpenFile(p, "in", "r"), OpenFile(p, "out", "w"), OpenFile(p, "err", "w")} :
    /\ file \notin Range(tab)
    /\ \A q \in Pid \ {p} : file \notin Range(child[q])

\* Both: a child of gpgrt_process_spawn has the files it was to get, and a reader of its
\* pipe sees the end of the file when the writers are gone.
ChildPipesExact == ChildConnected /\ EofArrives

\* A child is waited for once: an object knows of its end if and only if it was,
\* and is freed only then, so no zombie is left and nobody else's child is waited
\* for (gpgrt_process_wait_list, gpgrt_process_release).  The library itself sends no
\* signal to a child that was waited for; a gpgrt_process_terminate of the
\* program's may hit whoever has its number by then (spawn-posix.c:834).
ReapedOnce ==
  /\ stray \subseteq {"terminate"}
  /\ \A p \in Pid :
       /\ proc[p].waited = IF proc[p].life \in {"reaped", "released"} THEN 1 ELSE 0
       /\ proc[p].terminated <=> proc[p].life = "reaped"
=============================================================================
