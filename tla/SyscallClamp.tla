---------------------------- MODULE SyscallClamp -----------------------------
(***************************************************************************)
(* The system calls that a stream's backend makes (src/estream.c) inside the   *)
(* clamp of src/syscall-clamp.c, which nPth programs set to npth_unprotect and  *)
(* npth_protect: one thread runs at a time, and one that may block in the       *)
(* system lets the others run meanwhile.                                       *)
(***************************************************************************)
EXTENDS Integers, FiniteSets

CONSTANTS
  ClampThread, \* the threads of the program
  NoThread     \* nobody has the lock of nPth

ASSUME ClampAssumption == NoThread \notin ClampThread

VARIABLES
  npth,     \* who has the lock of nPth
  clamp,    \* whether pre_syscall_func and post_syscall_func are set
  clampAt,       \* [ClampThread -> "ready", "runs", "calls" (in the system) or "back" (out of it)]
  doing,    \* [ClampThread -> the call of the backend under way]
  answer    \* [ClampThread -> what the backend answered]

clampVars == <<npth, clamp, clampAt, doing, answer>>

Kinds == {"fd", "sock", "w32", "fp"}
Ops == {"read", "write", "seek", "destroy"}
\* A call on a valid descriptor, handle or FILE or on none; nothing is the size 0 or the NULL
\* buffer, a pipe (or a terminal) cannot be sought by Windows, and keeps is no_close.
Call ==
  {c \in [kind : Kinds, op : Ops, valid : BOOLEAN, nothing : BOOLEAN, pipe : BOOLEAN, keeps : BOOLEAN] :
     /\ c.nothing => c.op \in {"read", "write"}
     /\ c.pipe => c.kind = "w32" /\ c.op = "seek"
     /\ c.keeps => c.op = "destroy"}
NoCall == [kind |-> "fd", op |-> "read", valid |-> FALSE, nothing |-> TRUE, pipe |-> FALSE, keeps |-> FALSE]

\* One thread runs; the others wait for the lock.
ClampInit ==
  /\ \E t \in ClampThread :
       /\ npth = t
       /\ clampAt = [u \in ClampThread |-> IF u = t THEN "runs" ELSE "back"]
  /\ clamp = TRUE
  /\ doing = [t \in ClampThread |-> NoCall]
  /\ answer = [t \in ClampThread |-> "none"]

-----------------------------------------------------------------------------
(***************************************************************************)
(* The backends: whether a function calls the system inside the clamp, whether it   *)
(* calls again after EINTR, and what it may answer.  A yield is a call too.          *)
(***************************************************************************)
AtOnce(answers) == [clamped |-> FALSE, retries |-> FALSE, answers |-> answers]
Clamped(answers) == [clamped |-> TRUE, retries |-> FALSE, answers |-> answers]
Retried(answers) == [clamped |-> TRUE, retries |-> TRUE, answers |-> answers]
Destroyed(c) == IF c.valid /\ ~c.keeps THEN {"all", "error"} ELSE {"all"}

\* With size 0 nobody knows whether anything is pending; without a descriptor a read is at
\* its end and a write goes to the bit bucket; a write without a buffer is a flush.
func_fd_read(c) ==
  IF c.nothing THEN AtOnce({"error"})
  ELSE IF ~c.valid THEN Clamped({"eof"}) ELSE Retried({"some", "eof", "error"})
func_fd_write(c) ==
  IF ~c.valid THEN Clamped({"all"})
  ELSE IF c.nothing THEN AtOnce({"all"}) ELSE Retried({"some", "all", "error"})
func_fd_seek(c) == IF c.valid THEN Clamped({"all", "error"}) ELSE AtOnce({"error"})
func_fd_destroy(c) == AtOnce(Destroyed(c))

func_sock_read(c) ==
  IF c.nothing THEN AtOnce({"error"})
  ELSE IF ~c.valid THEN Clamped({"eof"}) ELSE Retried({"some", "eof", "error"})
func_sock_write(c) ==
  IF ~c.valid THEN Clamped({"all"})
  ELSE IF c.nothing THEN AtOnce({"all"}) ELSE Retried({"some", "all", "error"})
func_sock_seek(c) == AtOnce({"error"})
func_sock_destroy(c) == AtOnce(Destroyed(c))

\* A handle of a thread of the program, whose no_syscall_clamp is 0.  Windows tells a broken
\* pipe as an error, which is the end of the file here.
func_w32_read(c) ==
  IF c.nothing THEN AtOnce({"error"})
  ELSE IF ~c.valid THEN Clamped({"eof"}) ELSE Retried({"some", "eof", "error"})
func_w32_write(c) ==
  IF ~c.valid THEN Clamped({"all"})
  ELSE IF c.nothing THEN AtOnce({"all"}) ELSE Retried({"some", "all", "error"})
func_w32_seek(c) == IF c.valid /\ ~c.pipe THEN Clamped({"all", "error"}) ELSE AtOnce({"error"})
func_w32_destroy(c) == AtOnce(Destroyed(c))

\* A FILE is not tried again, writes all or fails, flushes with each write, and does not
\* yield; fflush is inside the clamp and fclose is not.
func_fp_read(c) ==
  IF c.nothing THEN AtOnce({"error"})
  ELSE IF ~c.valid THEN AtOnce({"eof"}) ELSE Clamped({"some", "eof", "error"})
func_fp_write(c) ==
  IF ~c.valid THEN AtOnce({"all"}) ELSE Clamped(IF c.nothing THEN {"all"} ELSE {"all", "error"})
func_fp_seek(c) == IF c.valid THEN Clamped({"all", "error"}) ELSE AtOnce({"error"})
func_fp_destroy(c) == IF c.valid THEN Clamped(Destroyed(c)) ELSE AtOnce({"all"})

Backend(c) ==
  CASE c.kind = "fd" ->
         (CASE c.op = "read" -> func_fd_read(c) [] c.op = "write" -> func_fd_write(c)
            [] c.op = "seek" -> func_fd_seek(c) [] c.op = "destroy" -> func_fd_destroy(c))
    [] c.kind = "sock" ->
         (CASE c.op = "read" -> func_sock_read(c) [] c.op = "write" -> func_sock_write(c)
            [] c.op = "seek" -> func_sock_seek(c) [] c.op = "destroy" -> func_sock_destroy(c))
    [] c.kind = "w32" ->
         (CASE c.op = "read" -> func_w32_read(c) [] c.op = "write" -> func_w32_write(c)
            [] c.op = "seek" -> func_w32_seek(c) [] c.op = "destroy" -> func_w32_destroy(c))
    [] c.kind = "fp" ->
         (CASE c.op = "read" -> func_fp_read(c) [] c.op = "write" -> func_fp_write(c)
            [] c.op = "seek" -> func_fp_seek(c) [] c.op = "destroy" -> func_fp_destroy(c))

\* _gpgrt_pre_syscall: npth_unprotect.
StartCall(t, c) ==
  /\ clampAt[t] = "runs"
  /\ Backend(c).clamped
  /\ doing' = [doing EXCEPT ![t] = c]
  /\ clampAt' = [clampAt EXCEPT ![t] = "calls"]
  /\ npth' = IF clamp THEN NoThread ELSE npth
  /\ answer' = [answer EXCEPT ![t] = "none"]
  /\ UNCHANGED clamp
Answer(t, c, outcome) ==
  /\ clampAt[t] = "runs"
  /\ ~Backend(c).clamped /\ outcome \in Backend(c).answers
  /\ answer' = [answer EXCEPT ![t] = outcome]
  /\ UNCHANGED <<clampAt, npth, doing, clamp>>

\* The system call returns, or is made again.
Interrupted(t) ==
  /\ clampAt[t] = "calls" /\ Backend(doing[t]).retries
  /\ UNCHANGED clampVars
Returns(t, outcome) ==
  /\ clampAt[t] = "calls" /\ outcome \in Backend(doing[t]).answers
  /\ clampAt' = [clampAt EXCEPT ![t] = "back"]
  /\ answer' = [answer EXCEPT ![t] = outcome]
  /\ UNCHANGED <<npth, clamp, doing>>

\* _gpgrt_post_syscall, whatever the outcome: npth_protect waits for the lock.
PostsUnlessError(t) == answer[t] # "error"
Posts(t) == TRUE
PostSyscall(t) ==
  /\ clampAt[t] = "back"
  /\ IF clamp /\ Posts(t) THEN npth = NoThread /\ npth' = t ELSE npth' = npth
  /\ clampAt' = [clampAt EXCEPT ![t] = "runs"]
  /\ doing' = [doing EXCEPT ![t] = NoCall]
  /\ UNCHANGED <<clamp, answer>>

\* do_deinit, at exit: _gpgrt_set_syscall_clamp (NULL, NULL), whoever is in the system.
Deinit(t) ==
  /\ clampAt[t] = "runs" /\ clamp
  /\ clamp' = FALSE
  /\ UNCHANGED <<npth, clampAt, doing, answer>>

ClampNext == \E t \in ClampThread :
  \/ /\ clampAt[t] = "runs"
     /\ \E c \in Call : StartCall(t, c) \/ \E o \in Backend(c).answers : Answer(t, c, o)
  \/ Interrupted(t) \/ PostSyscall(t) \/ Deinit(t)
  \/ \E o \in {"some", "all", "eof", "error"} : Returns(t, o)
ClampSpec == ClampInit /\ [][ClampNext]_clampVars

-----------------------------------------------------------------------------
\* Until the exit one thread at a time runs, whatever its system calls answer, and it is
\* never one that may be blocked in the system: then somebody else may run.
OneThreadRuns ==
  clamp => /\ \A t \in ClampThread : clampAt[t] = "runs" <=> npth = t
           /\ \A t \in ClampThread : clampAt[t] = "calls" => npth # t
=============================================================================
