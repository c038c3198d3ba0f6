------------------------------- MODULE Memory --------------------------------
(***************************************************************************)
(* The allocation functions and the emergency handlers of src/init.c: realloc in   *)
(* front of the C library's or the application's, arrays whose size is checked     *)
(* against an overflow of size_t, and the functions run before an abort.           *)
(***************************************************************************)
EXTENDS Integers, Sequences, SequencesExt

CONSTANTS
  SizeMod,      \* size_t is an integer modulo SizeMod
  Amounts,      \* the numbers of members and the sizes that callers ask for
  StrArgs,      \* the strings of strconcat, by their lengths
  ArgvLen,      \* DIM (argv) of strconcat
  Cleanup,      \* the functions callers register
  NoBlock       \* no block

ASSUME MemoryAssumption ==
  /\ SizeMod \in Nat \ {0} /\ ArgvLen \in Nat \ {0}
  /\ Amounts \subseteq 0..(SizeMod - 1) /\ StrArgs \subseteq Seq(Nat)
  /\ NoBlock \notin Seq({"old", "0", "?"})

VARIABLES
  alloc,    \* the last call: what it was given, what it left and returned
  cleanups, \* emergency_cleanup_list, the latest registered first
  aborting, \* gpgrt_abort: "no", "runs", "done"
  running,  \* a handler runs, which may do what a program may
  owes      \* [Cleanup -> the runs that registrations ask for and that are to come] (history)

memoryVars == <<alloc, cleanups, aborting, running, owes>>

-----------------------------------------------------------------------------
(***************************************************************************)
(* Allocation.  A block is the sequence of its bytes: "old" ones of the caller, "0"  *)
(* ones, and "?".  An outcome is the block returned and the one still held.         *)
(***************************************************************************)
Fill(byte, n) == [i \in 1..n |-> byte]
BlockBytes(block) == IF block = NoBlock THEN <<>> ELSE block
Wrap(n) == n % SizeMod
\* bytes / size # n finds the overflow of the product.
Overflows(n, size) == size # 0 /\ Wrap(n * size) \div size # n

Outcome(p, held, errno) == [p |-> p, held |-> held, errno |-> errno]
NoMemory(a) == Outcome(NoBlock, a, "ENOMEM")
ReallocBytes(a, n) ==
  [i \in 1..n |-> IF i <= Len(BlockBytes(a)) THEN BlockBytes(a)[i] ELSE "?"]

\* _gpgrt_realloc: size 0 is free, and NULL is malloc.
realloc(a, n) ==
  IF n = 0 THEN {Outcome(NoBlock, NoBlock, "same")} ELSE {NoMemory(a), Outcome(ReallocBytes(a, n), NoBlock, "same")}
malloc(n) == realloc(NoBlock, IF n = 0 THEN 1 ELSE n)

ZeroFrom(p, from, n) == [i \in 1..n |-> IF i > from THEN "0" ELSE p[i]]
\* A member count that grows means that the new members are cleared.
ClearsNew(nold, n) == nold < n
Cleaned(o, nold, n, size) ==
  IF o.p = NoBlock \/ ~ClearsNew(nold, n) THEN o
  ELSE IF Overflows(nold, size) THEN NoMemory(NoBlock)
  ELSE [o EXCEPT !.p = ZeroFrom(o.p, Wrap(nold * size), Wrap(n * size))]
CheckedNot(a, n, size) == realloc(a, Wrap(n * size))
Checked(a, n, size) == IF Overflows(n, size) THEN {NoMemory(a)} ELSE realloc(a, Wrap(n * size))

reallocarray(a, nold, n, size) ==
  {IF o.errno = "ENOMEM" THEN o ELSE Cleaned(o, nold, n, size) : o \in Checked(a, n, size)}
calloc(n, m) ==
  {IF o.p = NoBlock THEN o ELSE [o EXCEPT !.p = ZeroFrom(o.p, 0, Wrap(n * m))] : o \in Checked(NoBlock, n, m)}

\* The strings are copied, with their NUL; a NULL first string is the empty string, and
\* more strings than argv has room for, with the NULL at its end, are refused.
strdup(len) == {IF o.p = NoBlock THEN o ELSE [o EXCEPT !.p = Fill("old", len) \o <<"0">>] : o \in realloc(NoBlock, len + 1)}
strconcat_core(lens) ==
  IF Len(lens) >= ArgvLen THEN {Outcome(NoBlock, NoBlock, "EINVAL")}
  ELSE LET needed == FoldLeft(LAMBDA a, b : a + b, 0, lens) + 1
       IN {IF o.p = NoBlock THEN o ELSE [o EXCEPT !.p = Fill("old", needed - 1) \o <<"0">>] : o \in malloc(needed)}
strconcat(lens) == IF lens = <<>> THEN strdup(0) ELSE strconcat_core(lens)

\* An errno that is set survives a free function that changes it.
free(a, errno) ==
  IF a = NoBlock THEN {Outcome(NoBlock, NoBlock, errno)}
  ELSE {Outcome(NoBlock, NoBlock, IF errno # "0" THEN errno ELSE e) : e \in {"0", "changed"}}

Called(op, n, size, nold, a, o) ==
  [op |-> op, n |-> n, size |-> size, nold |-> nold, a |-> a, o |-> o]
NoAlloc == Called("none", 0, 0, 0, NoBlock, Outcome(NoBlock, NoBlock, "0"))

Members(n, size) == IF n * size = 0 \/ n * size >= SizeMod THEN NoBlock ELSE Fill("old", n * size)
\* One call: the functions keep nothing from one to the next.
AllocStep ==
  /\ alloc = NoAlloc /\ cleanups = <<>> /\ aborting = "no"
  /\ \/ \E n, m, size \in Amounts :
          LET a == Members(m, size)
          IN \E nold \in {m, n} : \E o \in reallocarray(a, nold, n, size) :
               (a = NoBlock => m = 0)
               /\ alloc' = Called("reallocarray", n, size, nold, a, o)
     \/ \E n, size \in Amounts : \E o \in calloc(n, size) : alloc' = Called("calloc", n, size, 0, NoBlock, o)
     \/ \E n \in Amounts : \E o \in malloc(n) : alloc' = Called("malloc", n, 1, 0, NoBlock, o)
     \/ \E s \in StrArgs : \E o \in strconcat(s) : alloc' = Called("strconcat", FoldLeft(+, 0, s), 1, 0, NoBlock, o)
     \/ \E e \in {"0", "set"} : \E o \in free(Fill("old", 1), e) : alloc' = Called("free", 0, 1, 0, Fill("old", 1), o)
  /\ UNCHANGED <<cleanups, aborting, running, owes>>

-----------------------------------------------------------------------------
(***************************************************************************)
(* Emergency handlers.  A handler may return, register handlers, or abort itself.   *)
(***************************************************************************)
Active == aborting = "no" \/ running

\* Mutant: with any handler on the list a new one is taken for registered.
RegisteredAny(f) == cleanups # <<>>
Registered(f) == f \in ToSet(cleanups)
add_emergency_cleanup(f) ==
  /\ Active
  /\ cleanups' = IF Registered(f) THEN cleanups ELSE <<f>> \o cleanups
  /\ owes' = [owes EXCEPT ![f] = IF @ = 0 THEN 1 ELSE @]
  /\ UNCHANGED <<alloc, aborting, running>>

\* _gpgrt_abort; it does not return to a handler that calls it.
Abort ==
  /\ Active
  /\ aborting' = "runs" /\ running' = FALSE
  /\ UNCHANGED <<alloc, cleanups, owes>>

\* Mutant: the handler leaves the list only when it returns.
UnlinkedAfter(list) == list
\* The handler leaves the list before it runs.
Unlinked(list) == Tail(list)
run_emergency_cleanup ==
  /\ aborting = "runs"
  /\ IF cleanups = <<>>
     THEN aborting' = "done" /\ running' = FALSE /\ UNCHANGED <<cleanups, owes>>
     ELSE /\ running' = TRUE
          /\ owes' = [owes EXCEPT ![Head(cleanups)] = @ - 1]
          /\ cleanups' = Unlinked(cleanups)
          /\ UNCHANGED aborting
  /\ UNCHANGED alloc

MemoryInit ==
  /\ alloc = NoAlloc /\ cleanups = <<>> /\ aborting = "no" /\ running = FALSE
  /\ owes = [f \in Cleanup |-> 0]
MemoryNext == AllocStep \/ (\E f \in Cleanup : add_emergency_cleanup(f)) \/ Abort \/ run_emergency_cleanup

MemorySpec == MemoryInit /\ [][MemoryNext]_memoryVars

-----------------------------------------------------------------------------
\* A block that is returned has room for what was asked for, however the product of its
\* sizes wraps around; an array keeps the members it had, and those it gains are zero; and
\* a call that fails for want of memory leaves the array to its caller.
AllocExact ==
  LET p == alloc.o.p n == alloc.n * alloc.size kept == Len(BlockBytes(alloc.a))
  IN /\ alloc.op \in {"reallocarray", "calloc"} /\ p # NoBlock =>
          /\ Len(p) = n
          /\ \A i \in 1..n : i <= kept => p[i] = "old"
          /\ alloc.nold < alloc.n => \A i \in 1..n : i > kept => p[i] = "0"
     /\ alloc.op \in {"malloc", "strconcat"} /\ p # NoBlock =>
          Len(p) > 0 /\ Len(p) >= n /\ (alloc.op = "strconcat" => p = Fill("old", n) \o <<"0">>)
     /\ alloc.op = "reallocarray" /\ alloc.o.errno = "ENOMEM" => alloc.o.held = alloc.a

\* A handler runs once for each registration of one that is not waiting to run: none is
\* dropped, none runs again although a handler may abort itself, and one that a handler
\* registers runs too; the program ends when nothing is owed (_gpgrt_abort,
\* _gpgrt_add_emergency_cleanup).
CleanupOnce ==
  /\ \A f \in Cleanup : owes[f] = IF Registered(f) THEN 1 ELSE 0
  /\ IsInjective(cleanups)
  /\ aborting = "done" => cleanups = <<>>
=============================================================================
