------------------------------ MODULE StreamList ------------------------------
(***************************************************************************)
(* The streams of a process and their locks, src/src/estream.c: the list   *)
(* of all open streams, the lock of that list, the lock of each stream,    *)
(* and the threads of the program that open, use, flush and close streams. *)
(* What a stream holds is reduced to whether it has data to flush.         *)
(*                                                                         *)
(* The list is a set: the order in which fflush(NULL) meets the streams    *)
(* depends on the order in which they were opened, which is left open.     *)
(* Whoever finds the list's lock free and needs it for a moment only takes *)
(* and releases it in one step.                                            *)
(*                                                                         *)
(* As in C, a program does not use a stream in one thread while it closes  *)
(* or reopens it in another, and uses a "samethread" stream in the thread  *)
(* that opened it only.  fflush(NULL) is not a use of a stream.            *)
(***************************************************************************)
EXTENDS Naturals, FiniteSets, TLC

CONSTANTS
  Thread,   \* the threads of the program
  Stream,   \* the addresses streams are allocated at
  Nobody,   \* the holder of a free lock
  None,     \* no stream
  Fds       \* the standard streams the program asks for; None is not one

ASSUME NobodyAssumption == Nobody \notin Thread
ASSUME NoneAssumption == None \notin Stream /\ None \notin Fds

VARIABLES
  phase,       \* "free", "live", or "closing" from its removal on
  samethread,  \* whether the stream has no lock
  owner,       \* the thread that opened the stream
  std,         \* which standard stream it is, or None
  made,        \* which one it was created as (recorded for the properties)
  pending,     \* whether data was written and not flushed
  list,        \* the streams in estream_list
  listLock,    \* who holds estream_list_lock
  lock,        \* who holds the stream's lock
  pc,          \* where a thread is in its call
  op,          \* which call that is, once a stream is involved
  cur,         \* the stream of the call
  line,        \* getline: the memory stream the line is collected in
  visit,       \* fflush(NULL): the stream it is at
  todo,        \* fflush(NULL): the streams it has yet to visit
  due          \* those that had pending data when it was called, and have not
               \* been flushed or closed since (recorded for the properties)

streamVars == <<phase, samethread, owner, std, made>>
callVars   == <<op, cur, line>>
walkVars   == <<visit, todo>>
vars == <<streamVars, pending, list, listLock, lock, pc, callVars, walkVars, due>>

Calls == {"write", "flush", "getline", "freopen", "reopen_null", "fclose", "fcancel"}
Op == Calls \cup {"none"}
Pc == {"idle", "lock", "in", "line", "freeline", "out", "close", "destroy",
       "all", "walk", "wait", "flushing"}

Init ==
  /\ phase = [s \in Stream |-> "free"]
  /\ samethread = [s \in Stream |-> FALSE]
  /\ owner = [s \in Stream |-> Nobody]
  /\ std = [s \in Stream |-> None] /\ made = [s \in Stream |-> None]
  /\ pending = [s \in Stream |-> FALSE]
  /\ list = {} /\ listLock = Nobody
  /\ lock = [s \in Stream |-> Nobody]
  /\ pc = [t \in Thread |-> "idle"]
  /\ op = [t \in Thread |-> "none"]
  /\ cur = [t \in Thread |-> None] /\ line = [t \in Thread |-> None]
  /\ visit = [t \in Thread |-> None]
  /\ todo = [t \in Thread |-> {}] /\ due = [t \in Thread |-> {}]

Goto(t, where) == pc' = [pc EXCEPT ![t] = where]
ListFree == listLock = Nobody

-----------------------------------------------------------------------------
(* What several calls share *)

\* lock_stream and unlock_stream do nothing for a samethread stream.
CanLock(s) == samethread[s] \/ lock[s] = Nobody
Locked(t, s) == IF samethread[s] THEN lock ELSE [lock EXCEPT ![s] = t]
Unlocked(s)  == IF samethread[s] THEN lock ELSE [lock EXCEPT ![s] = Nobody]

\* create_stream: a new stream, listed by do_list_add.
Create(t, s, same, fd) ==
  /\ phase[s] = "free"
  /\ phase' = [phase EXCEPT ![s] = "live"]
  /\ samethread' = [samethread EXCEPT ![s] = same]
  /\ owner' = [owner EXCEPT ![s] = t]
  /\ std' = [std EXCEPT ![s] = fd] /\ made' = [made EXCEPT ![s] = fd]
  /\ pending' = [pending EXCEPT ![s] = FALSE]
  /\ lock' = [lock EXCEPT ![s] = Nobody]
  /\ list' = list \cup {s}

\* s is flushed, or its data is given up on purpose.
Settle(s) ==
  /\ pending' = [pending EXCEPT ![s] = FALSE]
  /\ due' = [t \in Thread |-> due[t] \ {s}]

\* Mutant: the stream is not taken off the list.
do_list_remove_forgets(s) == phase' = [phase EXCEPT ![s] = "closing"] /\ UNCHANGED list

\* The first thing do_close does, with the list's lock.
do_list_remove(s) ==
  /\ phase' = [phase EXCEPT ![s] = "closing"]
  /\ list' = list \ {s}

\* The rest of it: deinit_stream_obj, and the memory is freed.
Free(s) ==
  /\ phase' = [phase EXCEPT ![s] = "free"]
  /\ samethread' = [samethread EXCEPT ![s] = FALSE]
  /\ owner' = [owner EXCEPT ![s] = Nobody]
  /\ std' = [std EXCEPT ![s] = None] /\ made' = [made EXCEPT ![s] = None]
  /\ Settle(s)

\* The program of t may use s: nobody closes it, it is nobody's line stream.
Usable(t, s) ==
  /\ s \in list
  /\ samethread[s] => owner[s] = t
  /\ \A u \in Thread :
       /\ line[u] # s
       /\ cur[u] = s => op[u] \in {"write", "flush", "getline"}

-----------------------------------------------------------------------------
(* Opening *)

Open(t, s, same) ==
  /\ pc[t] = "idle" /\ ListFree
  /\ Create(t, s, same, None)
  /\ UNCHANGED <<listLock, pc, callVars, walkVars, due>>

\* Mutant: the search and the creation are not under the same lock.
MissingForAll(fd) == TRUE

\* The standard stream fd is not there yet.
Missing(fd) == ~ \E s \in list : std[s] = fd

\* _gpgrt__get_std_stream; finding the stream changes nothing.
GetStdStream(t, s, fd) ==
  /\ pc[t] = "idle" /\ ListFree
  /\ Missing(fd)
  /\ Create(t, s, FALSE, fd)
  /\ UNCHANGED <<listLock, pc, callVars, walkVars, due>>

-----------------------------------------------------------------------------
(* Calls on one stream *)

Call(t, s, what) ==
  /\ pc[t] = "idle" /\ Usable(t, s)
  /\ what \in {"write", "flush", "getline"} \/ \A u \in Thread : cur[u] # s
  /\ op' = [op EXCEPT ![t] = what]
  /\ cur' = [cur EXCEPT ![t] = s]
  /\ Goto(t, IF what \in {"fclose", "fcancel"} THEN "close"
             ELSE IF what = "reopen_null" THEN "in" ELSE "lock")
  /\ UNCHANGED <<streamVars, pending, list, listLock, lock, line, walkVars, due>>

\* Mutant: the stream's lock is only looked at.
LockPeeks(t) ==
  /\ pc[t] = "lock" /\ CanLock(cur[t])
  /\ Goto(t, "in")
  /\ UNCHANGED <<streamVars, pending, list, listLock, lock, callVars, walkVars, due>>

Lock(t) ==
  /\ pc[t] = "lock" /\ CanLock(cur[t])
  /\ lock' = Locked(t, cur[t])
  /\ Goto(t, "in")
  /\ UNCHANGED <<streamVars, pending, list, listLock, callVars, walkVars, due>>

Write(t) ==
  /\ pc[t] = "in" /\ op[t] = "write"
  /\ pending' = [pending EXCEPT ![cur[t]] = TRUE]
  /\ Goto(t, "out")
  /\ UNCHANGED <<streamVars, list, listLock, lock, callVars, walkVars, due>>

Flush(t) ==
  /\ pc[t] = "in" /\ op[t] = "flush"
  /\ Settle(cur[t])
  /\ Goto(t, "out")
  /\ UNCHANGED <<streamVars, list, listLock, lock, callVars, walkVars>>

\* doreadline creates a samethread memory stream for the line, or fails to.
GetLine(t, s) ==
  /\ pc[t] = "in" /\ op[t] = "getline" /\ ListFree
  /\ Create(t, s, TRUE, None)
  /\ line' = [line EXCEPT ![t] = s]
  /\ Goto(t, "line")
  /\ UNCHANGED <<listLock, op, cur, walkVars, due>>

GetLineFails(t) ==
  /\ pc[t] = "in" /\ op[t] = "getline"
  /\ Goto(t, "out")
  /\ UNCHANGED <<streamVars, pending, list, listLock, lock, callVars, walkVars, due>>

\* The bytes are copied to it and back from it, and it is closed.
CloseLine(t) ==
  /\ pc[t] = "line" /\ ListFree
  /\ do_list_remove(line[t])
  /\ Goto(t, "freeline")
  /\ UNCHANGED <<samethread, owner, std, made, pending, listLock, lock, callVars, walkVars, due>>

FreeLine(t) ==
  /\ pc[t] = "freeline"
  /\ Free(line[t])
  /\ line' = [line EXCEPT ![t] = None]
  /\ Goto(t, "out")
  /\ UNCHANGED <<list, listLock, lock, op, cur, walkVars>>

\* freopen flushes and closes the backend, and opens another one.  The new
\* init_stream_obj forgets that it was a standard stream.
Reopen(t) ==
  /\ pc[t] = "in" /\ op[t] = "freopen"
  /\ Settle(cur[t])
  /\ std' = [std EXCEPT ![cur[t]] = None]
  /\ Goto(t, "out")
  /\ UNCHANGED <<phase, samethread, owner, made, list, listLock, lock, callVars, walkVars>>

\* It may fail to; then it goes on to do_close, still with the stream's lock.
\* Without a path it always does so, and has no lock.
ReopenFails(t) ==
  /\ pc[t] = "in" /\ op[t] \in {"freopen", "reopen_null"}
  /\ Settle(cur[t])
  /\ Goto(t, "close")
  /\ UNCHANGED <<streamVars, list, listLock, lock, callVars, walkVars>>

\* Mutant: a call that has returned still counts as one on its stream.
UnlockStays(t) ==
  /\ pc[t] = "out"
  /\ lock' = Unlocked(cur[t])
  /\ op' = [op EXCEPT ![t] = "none"]
  /\ Goto(t, "idle")
  /\ UNCHANGED <<streamVars, pending, list, listLock, cur, line, walkVars, due>>

Unlock(t) ==
  /\ pc[t] = "out"
  /\ lock' = Unlocked(cur[t])
  /\ op' = [op EXCEPT ![t] = "none"]
  /\ cur' = [cur EXCEPT ![t] = None]
  /\ Goto(t, "idle")
  /\ UNCHANGED <<streamVars, pending, list, listLock, line, walkVars, due>>

\* do_close takes no lock but the list's.
Close(t) ==
  /\ pc[t] = "close" /\ ListFree
  /\ do_list_remove(cur[t])
  /\ Goto(t, "destroy")
  /\ UNCHANGED <<samethread, owner, std, made, pending, listLock, lock, callVars, walkVars, due>>

Destroy(t) ==
  /\ pc[t] = "destroy"
  /\ Free(cur[t])
  /\ lock' = [lock EXCEPT ![cur[t]] = Nobody]
  /\ op' = [op EXCEPT ![t] = "none"]
  /\ cur' = [cur EXCEPT ![t] = None]
  /\ Goto(t, "idle")
  /\ UNCHANGED <<list, listLock, line, walkVars>>

-----------------------------------------------------------------------------
(* fflush(NULL), which is also what the exit handler does *)

FlushAll(t) ==
  /\ pc[t] = "idle"
  /\ due' = [due EXCEPT ![t] = {s \in list : pending[s]}]
  /\ Goto(t, "all")
  /\ UNCHANGED <<streamVars, pending, list, listLock, lock, callVars, walkVars>>

\* Mutant: streams another thread works on are left out.
AllListTry(t) ==
  /\ pc[t] = "all" /\ ListFree
  /\ listLock' = t
  /\ todo' = [todo EXCEPT ![t] = {s \in list : CanLock(s)}]
  /\ Goto(t, "walk")
  /\ UNCHANGED <<streamVars, pending, list, lock, callVars, visit, due>>

AllList(t) ==
  /\ pc[t] = "all" /\ ListFree
  /\ listLock' = t
  /\ todo' = [todo EXCEPT ![t] = list]
  /\ Goto(t, "walk")
  /\ UNCHANGED <<streamVars, pending, list, lock, callVars, visit, due>>

AllNext(t, s) ==
  /\ pc[t] = "walk" /\ s \in todo[t]
  /\ visit' = [visit EXCEPT ![t] = s]
  /\ Goto(t, "wait")
  /\ UNCHANGED <<streamVars, pending, list, listLock, lock, callVars, todo, due>>

AllLock(t) ==
  /\ pc[t] = "wait" /\ CanLock(visit[t])
  /\ lock' = Locked(t, visit[t])
  /\ Goto(t, "flushing")
  /\ UNCHANGED <<streamVars, pending, list, listLock, callVars, walkVars, due>>

AllFlush(t) ==
  /\ pc[t] = "flushing"
  /\ Settle(visit[t])
  /\ lock' = Unlocked(visit[t])
  /\ todo' = [todo EXCEPT ![t] = @ \ {visit[t]}]
  /\ visit' = [visit EXCEPT ![t] = None]
  /\ Goto(t, "walk")
  /\ UNCHANGED <<streamVars, list, listLock, callVars>>

\* Mutant: the list stays locked.
AllDoneKeeps(t) ==
  /\ pc[t] = "walk" /\ todo[t] = {}
  /\ Goto(t, "idle")
  /\ UNCHANGED <<streamVars, pending, list, listLock, lock, callVars, walkVars, due>>

AllDone(t) ==
  /\ pc[t] = "walk" /\ todo[t] = {}
  /\ listLock' = Nobody
  /\ Goto(t, "idle")
  /\ UNCHANGED <<streamVars, pending, list, lock, callVars, walkVars, due>>

-----------------------------------------------------------------------------
Next ==
  \E t \in Thread :
    \/ \E s \in Stream, same \in BOOLEAN : Open(t, s, same)
    \/ \E s \in Stream, fd \in Fds : GetStdStream(t, s, fd)
    \/ \E s \in Stream, what \in Calls : Call(t, s, what)
    \/ Lock(t) \/ Write(t) \/ Flush(t) \/ Unlock(t)
    \/ \E s \in Stream : GetLine(t, s)
    \/ GetLineFails(t) \/ CloseLine(t) \/ FreeLine(t)
    \/ Reopen(t) \/ ReopenFails(t)
    \/ Close(t) \/ Destroy(t)
    \/ FlushAll(t) \/ AllList(t)
    \/ \E s \in Stream : AllNext(t, s)
    \/ AllLock(t) \/ AllFlush(t) \/ AllDone(t)

Spec == Init /\ [][Next]_vars

-----------------------------------------------------------------------------
(* Properties *)

\* The stream variables of thread t are set exactly while a call needs them.
CallShape(t) ==
  /\ cur[t] # None <=> pc[t] \in {"lock", "in", "line", "freeline", "out", "close", "destroy"}
  /\ op[t] # "none" <=> cur[t] # None
  /\ line[t] # None <=> pc[t] \in {"line", "freeline"}
  /\ visit[t] # None <=> pc[t] \in {"wait", "flushing"}

TypeOK ==
  /\ phase \in [Stream -> {"free", "live", "closing"}]
  /\ samethread \in [Stream -> BOOLEAN]
  /\ owner \in [Stream -> Thread \cup {Nobody}]
  /\ std \in [Stream -> Fds \cup {None}]
  /\ made \in [Stream -> Fds \cup {None}]
  /\ pending \in [Stream -> BOOLEAN]
  /\ list \subseteq Stream
  /\ listLock \in Thread \cup {Nobody}
  /\ lock \in [Stream -> Thread \cup {Nobody}]
  /\ pc \in [Thread -> Pc]
  /\ op \in [Thread -> Op]
  /\ cur \in [Thread -> Stream \cup {None}]
  /\ line \in [Thread -> Stream \cup {None}]
  /\ visit \in [Thread -> Stream \cup {None}]
  /\ todo \in [Thread -> SUBSET Stream]
  /\ due \in [Thread -> SUBSET Stream]
  /\ \A t \in Thread : CallShape(t)

\* The streams whose fields thread t reads and writes.
Inside(t) ==
  {s \in Stream :
     \/ s = cur[t] /\ pc[t] \in {"in", "line", "freeline", "out", "destroy"}
     \/ s = line[t] /\ pc[t] \in {"line", "freeline"}
     \/ s = visit[t] /\ pc[t] = "flushing"}

\* The streams whose lock it waits for.
Waits(t) ==
  {s \in Stream : (s = cur[t] /\ pc[t] = "lock") \/ (s = visit[t] /\ pc[t] = "wait")}

\* Nobody works on a stream, or waits for its lock, after it was freed: neither
\* the calls on it nor fflush(NULL), which finds it in the list.
NoUseAfterFree ==
  \A t \in Thread : \A s \in Inside(t) \cup Waits(t) : phase[s] # "free"

\* Two threads never work on the same stream at the same time.  Not so for a
\* samethread stream, whose owner fflush(NULL) does not wait for (the streams
\* of getline are such), and for a freopen without a path.
OneAtATime ==
  \A t, u \in Thread : \A s \in Inside(t) \cap Inside(u) :
    t = u \/ samethread[s] \/ "reopen_null" \in {op[t], op[u]}

\* fflush(NULL) does not return before everything written before it was called
\* is flushed, whatever the other threads open and close in the meantime; but a
\* stream another thread is closing is left to that thread.
FlushAllFlushes ==
  \A t \in Thread : pc[t] = "walk" /\ todo[t] = {} => due[t] \cap list = {}

\* There is one stdin, one stdout and one stderr, whoever asks first.  But a
\* standard stream that is given to freopen counts as none from then on, and the
\* next request creates a second one beside it.
StdUnique ==
  \A a, b \in list :
    made[a] = made[b] /\ made[a] # None =>
      a = b \/ \E reopened \in {a, b} : std[reopened] # made[reopened]

\* t waits for something u holds.
WaitsFor(t, u) ==
  \/ \E s \in Waits(t) : ~samethread[s] /\ lock[s] = u
  \/ listLock = u /\ \/ pc[t] \in {"line", "close", "all"}
                     \/ pc[t] = "in" /\ op[t] = "getline"

\* A thread waits for another one that waits for the first.
Circle(t, u) == WaitsFor(t, u) /\ WaitsFor(u, t)

\* Threads wait for each other only if one of them reads a line, or fails to
\* reopen a stream: these need the list's lock while they hold a stream's.
CircleIsGetline ==
  \A t, u \in Thread : Circle(t, u) =>
    \E v \in {t, u} : op[v] \in {"getline", "freopen"}

\* The library is fully thread-safe: no two threads wait for each other.
NoCircle == \A t, u \in Thread : ~Circle(t, u)

\* For the runs: threads are interchangeable, and so are the addresses of streams.
Symmetry == Permutations(Thread) \cup Permutations(Stream)
=============================================================================
