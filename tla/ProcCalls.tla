----------------------------- MODULE ProcCalls -------------------------------
(***************************************************************************)
(* What the calls on a process tell their caller (src/spawn-posix.c and             *)
(* src/spawn-w32.c): gpgrt_process_ctl with each of its requests, wait, terminate;     *)
(* and gpgrt_make_pipe, whose ends must not be lost when a step of it fails.         *)
(***************************************************************************)
EXTENDS Integers, FiniteSets

CONSTANTS
  ExitStatus, \* exit codes
  Signal      \* signals

ASSUME ProcAssumption == ExitStatus \subseteq Nat /\ Signal \subseteq Nat

VARIABLES
  pcObj,  \* the process and its object
  pcTold, \* the last call, and what it told
  pcPipe  \* the last pipe: its ends that are open, those given out, and the stream's

procCallVars == <<pcObj, pcTold, pcPipe>>

EndedWith(signaled, val) == [signaled |-> signaled, val |-> val]
NotEnded == EndedWith(FALSE, -2)
Unsaid == -3  \* a variable of the caller that was not written
Told(op, code, val) == pcTold' = [op |-> op, code |-> code, val |-> val]

ProcCallInit ==
  /\ \E os \in {"posix", "w32"} :
       pcObj = [os |-> os, life |-> "runs", end |-> NotEnded, terminated |-> FALSE,
                wstatus |-> NotEnded, taken |-> FALSE]
  /\ pcTold = [op |-> "none", code |-> "none", val |-> Unsaid]
  /\ pcPipe = [os |-> "none", open |-> {}, given |-> {}, stream |-> "none", ok |-> FALSE]

OnPosix == pcObj.os = "posix" /\ UNCHANGED pcPipe
OnW32 == pcObj.os = "w32" /\ UNCHANGED pcPipe
Life(l, end) == pcObj' = [pcObj EXCEPT !.life = l, !.end = end]

-----------------------------------------------------------------------------
(***************************************************************************)
(* The child, and a handler of the program that waits for any child of it.          *)
(***************************************************************************)
ChildEnds(end) ==
  /\ pcObj.life = "runs" /\ (pcObj.os = "w32" => ~end.signaled)
  /\ Life("zombie", end) /\ UNCHANGED <<pcTold, pcPipe>>
OtherReaps ==
  /\ OnPosix /\ pcObj.life = "zombie" /\ ~pcObj.terminated
  /\ Life("gone", pcObj.end) /\ UNCHANGED pcTold

\* kill, of a child that may long be gone; TerminateProcess, whose success is told as an
\* error and whose error as success.
process_kill(sig) ==
  /\ OnPosix
  /\ IF pcObj.life \in {"runs", "zombie"}
     THEN Told("kill", "ok", Unsaid) ELSE \E code \in {"ok", "error"} : Told("kill", code, Unsaid)
  /\ UNCHANGED pcObj
w32_process_kill(ec) ==
  /\ IF pcObj.life = "runs"
     THEN \/ Life("zombie", EndedWith(FALSE, ec)) /\ Told("kill", "error", Unsaid)
          \/ UNCHANGED pcObj /\ Told("kill", "ok", Unsaid)
     ELSE UNCHANGED pcObj /\ Told("kill", "ok", Unsaid)

\* A call that hangs returns when the child has ended.
process_wait_posix(hang) ==
  /\ OnPosix
  /\ \/ pcObj.terminated /\ Told("wait", "ok", Unsaid) /\ UNCHANGED pcObj
     \/ /\ ~pcObj.terminated /\ pcObj.life = "runs" /\ ~hang
        /\ Told("wait", "TIMEOUT", Unsaid) /\ UNCHANGED pcObj
     \/ /\ ~pcObj.terminated /\ pcObj.life = "zombie"
        /\ pcObj' = [pcObj EXCEPT !.life = "gone", !.terminated = TRUE, !.wstatus = pcObj.end]
        /\ Told("wait", "ok", Unsaid)
     \/ /\ ~pcObj.terminated /\ pcObj.life = "gone"
        /\ Told("wait", "error", Unsaid) /\ UNCHANGED pcObj
process_wait_w32(hang) ==
  /\ OnW32
  /\ \/ pcObj.taken /\ Told("wait", "ok", Unsaid) /\ UNCHANGED pcObj
     \/ ~pcObj.taken /\ pcObj.life = "runs" /\ ~hang /\ Told("wait", "TIMEOUT", Unsaid) /\ UNCHANGED pcObj
     \/ /\ ~pcObj.taken /\ pcObj.life = "zombie"
        /\ pcObj' = [pcObj EXCEPT !.terminated = TRUE] /\ Told("wait", "ok", Unsaid)
     \/ ~pcObj.taken /\ Told("wait", "GENERAL", Unsaid) /\ UNCHANGED pcObj

-----------------------------------------------------------------------------
(***************************************************************************)
(* _gpgrt_process_vctl.                                                     *)
(***************************************************************************)
TellsExitEnded(o) == TRUE
\* The exit of a child that was not waited for is not told.
TellsExit(o) == o.terminated
StatusOf(end) == IF end.signaled THEN -1 ELSE end.val
process_vctl_posix(request) ==
  /\ OnPosix /\ UNCHANGED pcObj
  /\ CASE request = "GET_EXIT_ID" ->
            IF ~TellsExit(pcObj) THEN Told("exit", "UNFINISHED", Unsaid)
            ELSE Told("exit", "ok", StatusOf(pcObj.wstatus))
       [] request = "GET_WSTATUS" ->
            IF ~TellsExit(pcObj) THEN Told("wstatus", "UNFINISHED", Unsaid)
            ELSE IF pcObj.wstatus.signaled THEN Told("signal", "ok", pcObj.wstatus.val)
            ELSE Told("exit", "ok", pcObj.wstatus.val)
       [] request \in {"NOP", "GET_PROC_ID", "GET_PID"} ->
            \E code \in IF request = "NOP" THEN {"ok"} ELSE {"ok", "INV_VALUE"} : Told(request, code, Unsaid)
       [] OTHER -> Told(request, "UNKNOWN_COMMAND", Unsaid)

\* The exit code of a process whose handle was taken is -1.
w32_exit == IF pcObj.taken THEN -1 ELSE pcObj.end.val
process_vctl_w32(request) ==
  /\ OnW32
  /\ CASE request = "GET_EXIT_ID" ->
            /\ IF ~TellsExit(pcObj) THEN Told("exit", "UNFINISHED", -1)
               ELSE Told("exit", "ok", w32_exit) \/ (~pcObj.taken /\ Told("exit", "error", -1))
            /\ UNCHANGED pcObj
       [] request = "GET_EXIT_CODE" ->
            /\ IF ~TellsExit(pcObj) THEN Told("exit", "UNFINISHED", Unsaid)
               ELSE Told("exit", "ok", w32_exit) \/ (~pcObj.taken /\ Told("exit", "error", Unsaid))
            /\ UNCHANGED pcObj
       [] request = "GET_P_HANDLE" -> pcObj' = [pcObj EXCEPT !.taken = TRUE] /\ Told(request, "ok", Unsaid)
       [] request = "KILL_WITH_EC" ->
            IF pcObj.terminated \/ pcObj.taken THEN Told("kill", "ok", Unsaid) /\ UNCHANGED pcObj
            ELSE \E ec \in ExitStatus : w32_process_kill(ec)
       [] request \in {"NOP", "GET_PROC_ID"} ->
            /\ \E code \in IF request = "NOP" THEN {"ok"} ELSE {"ok", "INV_VALUE"} : Told(request, code, Unsaid)
            /\ UNCHANGED pcObj
       [] OTHER -> Told(request, "UNKNOWN_COMMAND", Unsaid) /\ UNCHANGED pcObj
Requests == {"NOP", "GET_PROC_ID", "GET_PID", "GET_EXIT_ID", "GET_WSTATUS", "GET_P_HANDLE", "GET_EXIT_CODE",
             "KILL_WITH_EC", "OTHER"}
process_terminate_w32 ==
  /\ OnW32
  /\ IF pcObj.taken THEN Told("kill", "ok", Unsaid) /\ UNCHANGED pcObj ELSE w32_process_kill(1)

-----------------------------------------------------------------------------
(***************************************************************************)
(* _gpgrt_make_pipe; fail is the step that fails.                                   *)
(***************************************************************************)
PipeMade(os, open, given, stream, ok) ==
  /\ pcPipe.os = "none" /\ pcObj.life = "runs" /\ pcTold.op = "none"
  /\ pcPipe' = [os |-> os, open |-> open, given |-> given, stream |-> stream, ok |-> ok]
  /\ UNCHANGED <<pcObj, pcTold>>
StreamEnd(direction) == IF direction > 0 THEN "w" ELSE "r"
NoneOpenBut == {"r"}
NoneOpen == {}
do_create_pipe_and_estream_posix(direction, fail) ==
  /\ pcObj.os = "posix"
  /\ CASE fail = "pipe" -> PipeMade("posix", {}, {}, "none", FALSE)
       [] fail = "stream" -> PipeMade("posix", NoneOpen, {}, "none", FALSE)
       [] OTHER -> PipeMade("posix", {"r", "w"}, {"r", "w"},
                            IF direction = 0 THEN "none" ELSE StreamEnd(direction), TRUE)
\* The first descriptor cannot be made: only the other end is closed.
do_create_pipe_and_estream_w32(direction, fail) ==
  /\ pcObj.os = "w32"
  /\ CASE fail = "pipe" -> PipeMade("w32", {}, {}, "none", FALSE)
       [] fail = "first" -> PipeMade("w32", {"r"}, {}, "none", FALSE)
       [] fail = "second" -> PipeMade("w32", {}, {}, "none", FALSE)
       [] fail = "stream" -> PipeMade("w32", NoneOpen, {}, "none", FALSE)
       [] OTHER -> PipeMade("w32", {"r", "w"}, {"r", "w"},
                            IF direction = 0 THEN "none" ELSE StreamEnd(direction), TRUE)
make_pipe(direction) ==
  \E fail \in {"none", "pipe", "first", "second"} \cup (IF direction = 0 THEN {} ELSE {"stream"}) :
    do_create_pipe_and_estream_posix(direction, fail) \/ do_create_pipe_and_estream_w32(direction, fail)

ProcCallNext ==
  \/ \E v \in ExitStatus : ChildEnds(EndedWith(FALSE, v))
  \/ \E v \in Signal : ChildEnds(EndedWith(TRUE, v)) \/ process_kill(v)
  \/ OtherReaps \/ process_terminate_w32
  \/ \E hang \in BOOLEAN : process_wait_posix(hang) \/ process_wait_w32(hang)
  \/ \E r \in Requests : process_vctl_posix(r) \/ process_vctl_w32(r)
  \/ \E d \in {-1, 0, 1} : make_pipe(d)

ProcCallSpec == ProcCallInit /\ [][ProcCallNext]_procCallVars

-----------------------------------------------------------------------------
\* An exit code or a signal is told only of a child that has ended and was waited for, and it
\* is the child's, though another part of the program may have waited for it or killed it,
\* but for -1, which stands for a signal and for a handle given away; and a pipe that cannot
\* be made leaves no end open, but for the first descriptor of Windows.
CallsTellTrue ==
  /\ pcTold.code = "ok" /\ pcTold.op \in {"exit", "signal"} =>
       /\ pcObj.life \in {"zombie", "gone"}
       /\ pcTold.op = "signal" => pcObj.end = EndedWith(TRUE, pcTold.val)
       /\ pcTold.op = "exit" => \/ pcObj.end = EndedWith(FALSE, pcTold.val)
                                \/ pcTold.val = -1 /\ (pcObj.end.signaled \/ pcObj.taken)
  /\ pcPipe.os # "none" => pcPipe.given = pcPipe.open \/ (pcPipe.os = "w32" /\ ~pcPipe.ok /\ pcPipe.open = {"r"})
  /\ pcPipe.stream # "none" => pcPipe.stream \in pcPipe.open
=============================================================================
