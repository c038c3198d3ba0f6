------------------------------- MODULE Locks -------------------------------
(***************************************************************************)
(* A gpgrt_lock_t on Windows (src/w32-lock.c): a critical section that the    *)
(* first thread to need it initializes, while others may be after it too.     *)
(* On POSIX (src/posix-lock.c) each call is one of a mutex; estream.c puts     *)
(* lock_stream, trylock_stream and unlock_stream on top.                      *)
(***************************************************************************)
EXTENDS Integers, FiniteSets

CONSTANTS
  LockThread, \* threads
  NoOwner,    \* nobody
  MaxDepth,   \* how often a thread enters a critical section it is in
  MaxLives    \* how often the lock is destroyed and used again

ASSUME LockAssumption == NoOwner \notin LockThread

VARIABLES
  lockPlatform, \* the system: "w32" or "posix"
  initdone, \* the fields of _gpgrt_lock_t of these names
  started,
  csec,     \* the critical section: [owner, depth, life], life 0 when there is none
  lockAt,       \* where a thread is in its call
  inside,   \* [LockThread -> the life of the critical section it is in, or 0]
  mutex,    \* the owner of the same lock on POSIX
  told      \* [LockThread -> what gpgrt_ftrylockfile returned, or 1]

lockVars == <<lockPlatform, initdone, started, csec, lockAt, inside, mutex, told>>
posixLockVars == <<mutex, told>>
w32LockVars == <<initdone, started, csec, lockAt, inside>>

OutCode == <<"none", "out">>

LockInit ==
  /\ lockPlatform \in {"w32", "posix"}
  /\ initdone = FALSE /\ started = -1
  /\ csec = [owner |-> NoOwner, depth |-> 0, life |-> 0]
  /\ lockAt = [t \in LockThread |-> OutCode]
  /\ inside = [t \in LockThread |-> 0]
  /\ mutex = NoOwner /\ told = [t \in LockThread |-> 1]

-----------------------------------------------------------------------------
(***************************************************************************)
(* _gpgrt_lock_lock and _gpgrt_lock_trylock: at[t] goes from "lock" or "try"   *)
(* to "init" or "spin" and to "enter"; the pair keeps the call's kind.         *)
(***************************************************************************)
Goes(t, where) == lockAt' = [lockAt EXCEPT ![t] = where]

Calls(t, kind) ==
  /\ lockAt[t] = OutCode /\ (inside[t] = 0 \/ csec.depth < MaxDepth)
  /\ Goes(t, <<kind, "look">>)
  /\ UNCHANGED <<initdone, started, csec, inside, posixLockVars>>

Looks(t, kind) ==
  /\ lockAt[t] = <<kind, "look">>
  /\ Goes(t, <<kind, IF initdone THEN "enter" ELSE "count">>)
  /\ UNCHANGED <<initdone, started, csec, inside, posixLockVars>>

\* Mutant: whoever found the lock not initialized initializes it.
CountsNot(t, kind) ==
  /\ lockAt[t] = <<kind, "count">>
  /\ Goes(t, <<kind, "init">>)
  /\ UNCHANGED <<initdone, started, csec, inside, posixLockVars>>

\* InterlockedIncrement: only the first one gets 0.
Counts(t, kind) ==
  /\ lockAt[t] = <<kind, "count">>
  /\ started' = started + 1
  /\ Goes(t, <<kind, IF started' = 0 THEN "init" ELSE "spin">>)
  /\ UNCHANGED <<initdone, csec, inside, posixLockVars>>

\* _gpgrt_lock_init.
Initializes(t, kind) ==
  /\ lockAt[t] = <<kind, "init">>
  /\ csec' = [owner |-> NoOwner, depth |-> 0, life |-> csec.life + 1]
  /\ Goes(t, <<kind, "done">>)
  /\ UNCHANGED <<initdone, started, inside, posixLockVars>>
InitDone(t, kind) ==
  /\ lockAt[t] = <<kind, "done">>
  /\ initdone' = TRUE
  /\ Goes(t, <<kind, "enter">>)
  /\ UNCHANGED <<started, csec, inside, posixLockVars>>

Spins(t, kind) ==
  /\ lockAt[t] = <<kind, "spin">> /\ initdone
  /\ Goes(t, <<kind, "enter">>)
  /\ UNCHANGED <<initdone, started, csec, inside, posixLockVars>>

\* A critical section lets its owner in again.
CanEnter(t) == csec.owner \in {NoOwner, t}
Enters(t, kind) ==
  /\ lockAt[t] = <<kind, "enter">> /\ CanEnter(t)
  /\ csec' = [owner |-> t, depth |-> csec.depth + 1, life |-> csec.life]
  /\ inside' = [inside EXCEPT ![t] = csec.life]
  /\ Goes(t, OutCode)
  /\ UNCHANGED <<initdone, started, posixLockVars>>
TryFails(t) ==
  /\ lockAt[t] = <<"try", "enter">> /\ ~CanEnter(t)
  /\ Goes(t, OutCode)
  /\ UNCHANGED <<initdone, started, csec, inside, posixLockVars>>

\* _gpgrt_lock_unlock by the owner.
Leaves(t) ==
  /\ lockAt[t] = OutCode /\ inside[t] # 0 /\ initdone
  /\ csec' = [owner |-> IF csec.depth = 1 THEN NoOwner ELSE csec.owner, depth |-> csec.depth - 1,
               life |-> csec.life]
  /\ inside' = [inside EXCEPT ![t] = IF csec.depth = 1 THEN 0 ELSE @]
  /\ UNCHANGED <<initdone, started, lockAt, posixLockVars>>

\* _gpgrt_lock_destroy, when nobody holds or waits for the lock.
Destroys ==
  /\ initdone /\ csec.life < MaxLives
  /\ \A t \in LockThread : lockAt[t] = OutCode /\ inside[t] = 0
  /\ initdone' = FALSE /\ started' = -1
  /\ UNCHANGED <<csec, lockAt, inside, posixLockVars>>

-----------------------------------------------------------------------------
\* The POSIX mutex, and gpgrt_ftrylockfile, which answers 0 when the lock is
\* held by another and -1 when the caller has got it.
lock_stream(t) == mutex = NoOwner /\ mutex' = t /\ UNCHANGED <<told, w32LockVars>>
ftrylockfile(t) ==
  /\ mutex' = IF mutex = NoOwner THEN t ELSE mutex
  /\ told' = [told EXCEPT ![t] = IF mutex = NoOwner THEN -1 ELSE 0]
  /\ UNCHANGED w32LockVars
unlock_stream(t) ==
  /\ mutex = t /\ mutex' = NoOwner
  /\ told' = [told EXCEPT ![t] = 1]
  /\ UNCHANGED w32LockVars

W32LockNext ==
  \/ \E t \in LockThread, kind \in {"lock", "try"} :
       \/ Calls(t, kind) \/ Looks(t, kind) \/ Counts(t, kind) \/ Initializes(t, kind)
       \/ InitDone(t, kind) \/ Spins(t, kind) \/ Enters(t, kind)
  \/ \E t \in LockThread : TryFails(t) \/ Leaves(t)
  \/ Destroys

PosixLockNext ==
  \E t \in LockThread : lock_stream(t) \/ ftrylockfile(t) \/ unlock_stream(t)

LockNext ==
  /\ \/ lockPlatform = "w32" /\ W32LockNext
     \/ lockPlatform = "posix" /\ PosixLockNext
  /\ UNCHANGED lockPlatform
LockSpec == LockInit /\ [][LockNext]_lockVars

-----------------------------------------------------------------------------
\* However many threads use a lock for the first time, or after it was
\* destroyed, it is initialized once: nobody is in a critical section that was
\* replaced under it, and never are two in it (InterlockedIncrement of started).
LockInitializedOnce ==
  /\ \A t \in LockThread : inside[t] # 0 => inside[t] = csec.life /\ csec.owner = t
  /\ Cardinality({t \in LockThread : lockAt[t] \in {"lock", "try"} \X {"init", "done"}}) <= 1
=============================================================================
