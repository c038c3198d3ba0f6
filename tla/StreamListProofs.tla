--------------------------- MODULE StreamListProofs ---------------------------
(***************************************************************************)
(* The safety properties of StreamList, proved for any number of threads   *)
(* and streams.  IInv is the inductive invariant they follow from.         *)
(* The second part is about the log stream: LogSound is its inductive      *)
(* invariant.                                                              *)
(***************************************************************************)
EXTENDS StreamList, Logging, FiniteSetTheorems, WellFoundedInduction, TLAPS

ListIsLive == list = {s \in Stream : phase[s] = "live"}

\* fflush(NULL) has the list's lock all the way, and nobody else keeps it.
Walking(t) == pc[t] \in {"walk", "wait", "flushing"}
WalkerHasList == \A t \in Thread : Walking(t) <=> listLock = t
TodoListed ==
  \A t \in Thread : Walking(t) =>
    /\ todo[t] \subseteq list
    /\ pc[t] # "walk" => visit[t] \in todo[t]

\* Calls on a stream that other threads may use at the same time.
Shared == {"write", "flush", "getline"}

\* The stream of a call is alive until the call itself removes it, and so is
\* the line stream; some places are reached by some calls only.
CallSane ==
  \A t \in Thread :
    /\ cur[t] # None => phase[cur[t]] = IF pc[t] = "destroy" THEN "closing" ELSE "live"
    /\ line[t] # None => /\ phase[line[t]] = IF pc[t] = "line" THEN "live" ELSE "closing"
                         /\ samethread[line[t]]
    /\ pc[t] \in {"line", "freeline"} => op[t] = "getline"
    /\ pc[t] \in {"close", "destroy"} => op[t] \notin Shared
    /\ pc[t] \in {"lock", "out"} => op[t] \in Shared \cup {"freopen"}
    /\ pc[t] = "in" => op[t] \in Shared \cup {"freopen", "reopen_null"}

\* Threads share a stream for shared calls only, and a line stream never.
Alone ==
  \A t, u \in Thread :
    /\ t # u /\ cur[t] # None /\ cur[t] = cur[u] => op[t] \in Shared
    /\ line[t] # None => cur[u] # line[t] /\ (t # u => line[t] # line[u])

\* t is between lock_stream and unlock_stream.
Holds(t, s) ==
  \/ pc[t] = "flushing" /\ visit[t] = s
  \/ cur[t] = s /\ op[t] # "reopen_null" /\ pc[t] \in {"in", "line", "freeline", "out"}

LockHeld == \A t \in Thread, s \in Stream : Holds(t, s) /\ ~samethread[s] => lock[s] = t

\* A freopen that fails keeps the lock until the stream is destroyed.
LockOwned ==
  \A t \in Thread, s \in Stream : lock[s] = t =>
    /\ ~samethread[s]
    /\ \/ Holds(t, s)
       \/ cur[t] = s /\ op[t] = "freopen" /\ pc[t] \in {"close", "destroy"}

DueSane ==
  \A t \in Thread :
    /\ \A s \in due[t] : phase[s] # "free"
    /\ Walking(t) => due[t] \cap list \subseteq todo[t]

\* The mark of a standard stream is lost in one way only, by freopen.
StdMarked == \A s \in Stream : std[s] \in {made[s], None}

IInv ==
  /\ TypeOK
  /\ ListIsLive /\ WalkerHasList /\ TodoListed
  /\ CallSane /\ Alone
  /\ LockHeld /\ LockOwned
  /\ DueSane
  /\ StdMarked /\ StdUnique

-----------------------------------------------------------------------------
(* The actions, one lemma each, and one step per part of the invariant *)

\* A new stream is nobody's: no call and no walk refers to a free address.
LEMMA OpenStep ==
  ASSUME IInv, NEW t \in Thread, NEW s \in Stream, NEW same \in BOOLEAN, Open(t, s, same)
  PROVE  IInv'
<1> USE NobodyAssumption, NoneAssumption DEF IInv, TypeOK, CallShape, Open,
      Create, ListFree,
      streamVars, callVars, walkVars
<1>1. TypeOK'
  BY DEF Pc, Op, Calls
<1>2. ListIsLive'
  BY DEF ListIsLive, CallSane
<1>3. WalkerHasList'
  BY DEF WalkerHasList, Walking
<1>4. TodoListed'
  BY DEF TodoListed, Walking, WalkerHasList, ListIsLive
<1>5. CallSane'
  BY DEF CallSane, Shared, ListIsLive, Alone
<1>6. Alone'
  BY DEF Alone, Shared, CallSane, ListIsLive
<1>7. LockHeld'
  BY DEF LockHeld, Holds, CallSane, Shared, LockOwned, Alone, TodoListed, Walking, ListIsLive
<1>8. LockOwned'
  BY DEF LockOwned, Holds, CallSane, Shared, LockHeld
<1>9. DueSane'
  BY DEF DueSane, Walking, ListIsLive, WalkerHasList
<1>10. StdMarked' /\ StdUnique'
  BY DEF StdMarked, StdUnique, ListIsLive
<1> QED BY <1>1, <1>2, <1>3, <1>4, <1>5, <1>6, <1>7, <1>8, <1>9, <1>10

\* A standard stream is created only while none is listed.
LEMMA GetStdStreamStep ==
  ASSUME IInv, NEW t \in Thread, NEW s \in Stream, NEW fd \in Fds, GetStdStream(t, s, fd)
  PROVE  IInv'
<1> USE NobodyAssumption, NoneAssumption DEF IInv, TypeOK, CallShape,
      GetStdStream, Create, ListFree, Missing,
      streamVars, callVars, walkVars
<1>1. TypeOK'
  BY DEF Pc, Op, Calls
<1>2. ListIsLive'
  BY DEF ListIsLive, CallSane
<1>3. WalkerHasList'
  BY DEF WalkerHasList, Walking
<1>4. TodoListed'
  BY DEF TodoListed, Walking, WalkerHasList, ListIsLive
<1>5. CallSane'
  BY DEF CallSane, Shared, ListIsLive, Alone
<1>6. Alone'
  BY DEF Alone, Shared, CallSane, ListIsLive
<1>7. LockHeld'
  BY DEF LockHeld, Holds, CallSane, Shared, LockOwned, Alone, TodoListed, Walking, ListIsLive
<1>8. LockOwned'
  BY DEF LockOwned, Holds, CallSane, Shared, LockHeld
<1>9. DueSane'
  BY DEF DueSane, Walking, ListIsLive, WalkerHasList
<1>10. StdMarked' /\ StdUnique'
  BY DEF StdMarked, StdUnique, ListIsLive
<1> QED BY <1>1, <1>2, <1>3, <1>4, <1>5, <1>6, <1>7, <1>8, <1>9, <1>10

\* A call begins on a listed stream; it is alone on it unless all calls are shared.
LEMMA CallStep ==
  ASSUME IInv, NEW t \in Thread, NEW s \in Stream, NEW what \in Calls, Call(t, s, what)
  PROVE  IInv'
<1> USE NobodyAssumption, NoneAssumption DEF IInv, TypeOK, CallShape, Call,
      Usable, Goto,
      streamVars, callVars, walkVars
<1>1. TypeOK'
  BY DEF Pc, Op, Calls
<1>2. ListIsLive'
  BY DEF ListIsLive, CallSane
<1>3. WalkerHasList'
  BY DEF WalkerHasList, Walking
<1>4. TodoListed'
  BY DEF TodoListed, Walking, WalkerHasList, ListIsLive
<1>5. CallSane'
  BY DEF CallSane, Shared, ListIsLive, Alone, Calls
<1>6. Alone'
  BY DEF Alone, Shared, CallSane, ListIsLive
<1>7. LockHeld'
  BY DEF LockHeld, Holds, CallSane, Shared, LockOwned, Alone, TodoListed, Walking, ListIsLive
<1>8. LockOwned'
  BY DEF LockOwned, Holds, CallSane, Shared, LockHeld
<1>9. DueSane'
  BY DEF DueSane, Walking, ListIsLive, WalkerHasList
<1>10. StdMarked' /\ StdUnique'
  BY DEF StdMarked, StdUnique, ListIsLive
<1> QED BY <1>1, <1>2, <1>3, <1>4, <1>5, <1>6, <1>7, <1>8, <1>9, <1>10

\* lock_stream: the lock was free, so that nobody else was inside.
LEMMA LockStep ==
  ASSUME IInv, NEW t \in Thread, Lock(t)
  PROVE  IInv'
<1> USE NobodyAssumption, NoneAssumption DEF IInv, TypeOK, CallShape, Lock,
      CanLock, Locked, Goto,
      streamVars, callVars, walkVars
<1>1. TypeOK'
  BY DEF Pc, Op, Calls
<1>2. ListIsLive'
  BY DEF ListIsLive, CallSane
<1>3. WalkerHasList'
  BY DEF WalkerHasList, Walking
<1>4. TodoListed'
  BY DEF TodoListed, Walking, WalkerHasList, ListIsLive
<1>5. CallSane'
  BY DEF CallSane, Shared, ListIsLive, Alone
<1>6. Alone'
  BY DEF Alone, Shared, CallSane, ListIsLive
<1>7. LockHeld'
  BY DEF LockHeld, Holds, CallSane, Shared, LockOwned, Alone, TodoListed, Walking, ListIsLive
<1>8. LockOwned'
  BY DEF LockOwned, Holds, CallSane, Shared, LockHeld
<1>9. DueSane'
  BY DEF DueSane, Walking, ListIsLive, WalkerHasList
<1>10. StdMarked' /\ StdUnique'
  BY DEF StdMarked, StdUnique, ListIsLive
<1> QED BY <1>1, <1>2, <1>3, <1>4, <1>5, <1>6, <1>7, <1>8, <1>9, <1>10

\* A write is over; the stream has pending data, due to no earlier fflush(NULL).
LEMMA WriteStep ==
  ASSUME IInv, NEW t \in Thread, Write(t)
  PROVE  IInv'
<1> USE NobodyAssumption, NoneAssumption DEF IInv, TypeOK, CallShape, Write, Goto,
      streamVars, callVars, walkVars
<1>1. TypeOK'
  BY DEF Pc, Op, Calls
<1>2. ListIsLive'
  BY DEF ListIsLive, CallSane
<1>3. WalkerHasList'
  BY DEF WalkerHasList, Walking
<1>4. TodoListed'
  BY DEF TodoListed, Walking, WalkerHasList, ListIsLive
<1>5. CallSane'
  BY DEF CallSane, Shared, ListIsLive, Alone
<1>6. Alone'
  BY DEF Alone, Shared, CallSane, ListIsLive
<1>7. LockHeld'
  BY DEF LockHeld, Holds, CallSane, Shared, LockOwned, Alone, TodoListed, Walking, ListIsLive
<1>8. LockOwned'
  BY DEF LockOwned, Holds, CallSane, Shared, LockHeld
<1>9. DueSane'
  BY DEF DueSane, Walking, ListIsLive, WalkerHasList
<1>10. StdMarked' /\ StdUnique'
  BY DEF StdMarked, StdUnique, ListIsLive
<1> QED BY <1>1, <1>2, <1>3, <1>4, <1>5, <1>6, <1>7, <1>8, <1>9, <1>10

\* A flush is over; the stream is due to nobody any more.
LEMMA FlushStep ==
  ASSUME IInv, NEW t \in Thread, Flush(t)
  PROVE  IInv'
<1> USE NobodyAssumption, NoneAssumption DEF IInv, TypeOK, CallShape, Flush,
      Settle, Goto,
      streamVars, callVars, walkVars
<1>1. TypeOK'
  BY DEF Pc, Op, Calls
<1>2. ListIsLive'
  BY DEF ListIsLive, CallSane
<1>3. WalkerHasList'
  BY DEF WalkerHasList, Walking
<1>4. TodoListed'
  BY DEF TodoListed, Walking, WalkerHasList, ListIsLive
<1>5. CallSane'
  BY DEF CallSane, Shared, ListIsLive, Alone
<1>6. Alone'
  BY DEF Alone, Shared, CallSane, ListIsLive
<1>7. LockHeld'
  BY DEF LockHeld, Holds, CallSane, Shared, LockOwned, Alone, TodoListed, Walking, ListIsLive
<1>8. LockOwned'
  BY DEF LockOwned, Holds, CallSane, Shared, LockHeld
<1>9. DueSane'
  BY DEF DueSane, Walking, ListIsLive, WalkerHasList
<1>10. StdMarked' /\ StdUnique'
  BY DEF StdMarked, StdUnique, ListIsLive
<1> QED BY <1>1, <1>2, <1>3, <1>4, <1>5, <1>6, <1>7, <1>8, <1>9, <1>10

\* getline lists its line stream, at an address nobody refers to.
LEMMA GetLineStep ==
  ASSUME IInv, NEW t \in Thread, NEW s \in Stream, GetLine(t, s)
  PROVE  IInv'
<1> USE NobodyAssumption, NoneAssumption DEF IInv, TypeOK, CallShape, GetLine,
      Create, ListFree, Goto,
      streamVars, callVars, walkVars
<1>1. TypeOK'
  BY DEF Pc, Op, Calls
<1>2. ListIsLive'
  BY DEF ListIsLive, CallSane
<1>3. WalkerHasList'
  BY DEF WalkerHasList, Walking
<1>4. TodoListed'
  BY DEF TodoListed, Walking, WalkerHasList, ListIsLive
<1>5. CallSane'
  BY DEF CallSane, Shared, ListIsLive, Alone
<1>6. Alone'
  BY DEF Alone, Shared, CallSane, ListIsLive
<1>7. LockHeld'
  BY DEF LockHeld, Holds, CallSane, Shared, LockOwned, Alone, TodoListed, Walking, ListIsLive
<1>8. LockOwned'
  BY DEF LockOwned, Holds, CallSane, Shared, LockHeld
<1>9. DueSane'
  BY DEF DueSane, Walking, ListIsLive, WalkerHasList
<1>10. StdMarked' /\ StdUnique'
  BY DEF StdMarked, StdUnique, ListIsLive
<1> QED BY <1>1, <1>2, <1>3, <1>4, <1>5, <1>6, <1>7, <1>8, <1>9, <1>10

\* getline without a line stream goes straight to the unlocking.
LEMMA GetLineFailsStep ==
  ASSUME IInv, NEW t \in Thread, GetLineFails(t)
  PROVE  IInv'
<1> USE NobodyAssumption, NoneAssumption DEF IInv, TypeOK, CallShape,
      GetLineFails, Goto,
      streamVars, callVars, walkVars
<1>1. TypeOK'
  BY DEF Pc, Op, Calls
<1>2. ListIsLive'
  BY DEF ListIsLive, CallSane
<1>3. WalkerHasList'
  BY DEF WalkerHasList, Walking
<1>4. TodoListed'
  BY DEF TodoListed, Walking, WalkerHasList, ListIsLive
<1>5. CallSane'
  BY DEF CallSane, Shared, ListIsLive, Alone
<1>6. Alone'
  BY DEF Alone, Shared, CallSane, ListIsLive
<1>7. LockHeld'
  BY DEF LockHeld, Holds, CallSane, Shared, LockOwned, Alone, TodoListed, Walking, ListIsLive
<1>8. LockOwned'
  BY DEF LockOwned, Holds, CallSane, Shared, LockHeld
<1>9. DueSane'
  BY DEF DueSane, Walking, ListIsLive, WalkerHasList
<1>10. StdMarked' /\ StdUnique'
  BY DEF StdMarked, StdUnique, ListIsLive
<1> QED BY <1>1, <1>2, <1>3, <1>4, <1>5, <1>6, <1>7, <1>8, <1>9, <1>10

\* The line stream leaves the list; no walk is going on, the list being unlocked.
LEMMA CloseLineStep ==
  ASSUME IInv, NEW t \in Thread, CloseLine(t)
  PROVE  IInv'
<1> USE NobodyAssumption, NoneAssumption DEF IInv, TypeOK, CallShape, CloseLine,
      do_list_remove, ListFree, Goto,
      streamVars, callVars, walkVars
<1>1. TypeOK'
  BY DEF Pc, Op, Calls
<1>2. ListIsLive'
  BY DEF ListIsLive, CallSane
<1>3. WalkerHasList'
  BY DEF WalkerHasList, Walking
<1>4. TodoListed'
  BY DEF TodoListed, Walking, WalkerHasList, ListIsLive
<1>5. CallSane'
  BY DEF CallSane, Shared, ListIsLive, Alone
<1>6. Alone'
  BY DEF Alone, Shared, CallSane, ListIsLive
<1>7. LockHeld'
  BY DEF LockHeld, Holds, CallSane, Shared, LockOwned, Alone, TodoListed, Walking, ListIsLive
<1>8. LockOwned'
  BY DEF LockOwned, Holds, CallSane, Shared, LockHeld
<1>9. DueSane'
  BY DEF DueSane, Walking, ListIsLive, WalkerHasList
<1>10. StdMarked' /\ StdUnique'
  BY DEF StdMarked, StdUnique, ListIsLive
<1> QED BY <1>1, <1>2, <1>3, <1>4, <1>5, <1>6, <1>7, <1>8, <1>9, <1>10

\* The line stream is freed; it was its own thread's only.
LEMMA FreeLineStep ==
  ASSUME IInv, NEW t \in Thread, FreeLine(t)
  PROVE  IInv'
<1> USE NobodyAssumption, NoneAssumption DEF IInv, TypeOK, CallShape, FreeLine,
      Free, Settle, Goto,
      streamVars, callVars, walkVars
<1>1. TypeOK'
  BY DEF Pc, Op, Calls
<1>2. ListIsLive'
  BY DEF ListIsLive, CallSane
<1>3. WalkerHasList'
  BY DEF WalkerHasList, Walking
<1>4. TodoListed'
  BY DEF TodoListed, Walking, WalkerHasList, ListIsLive
<1>5. CallSane'
  BY DEF CallSane, Shared, ListIsLive, Alone
<1>6. Alone'
  BY DEF Alone, Shared, CallSane, ListIsLive
<1>7. LockHeld'
  BY SMTT(60) DEF LockHeld, Holds, CallSane, Shared, LockOwned, Alone, TodoListed, Walking, ListIsLive
<1>8. LockOwned'
  BY DEF LockOwned, Holds, CallSane, Shared, LockHeld
<1>9. DueSane'
  BY DEF DueSane, Walking, ListIsLive, WalkerHasList
<1>10. StdMarked' /\ StdUnique'
  BY DEF StdMarked, StdUnique, ListIsLive
<1> QED BY <1>1, <1>2, <1>3, <1>4, <1>5, <1>6, <1>7, <1>8, <1>9, <1>10

\* freopen has a new backend and keeps the stream listed and locked.
LEMMA ReopenStep ==
  ASSUME IInv, NEW t \in Thread, Reopen(t)
  PROVE  IInv'
<1> USE NobodyAssumption, NoneAssumption DEF IInv, TypeOK, CallShape, Reopen,
      Settle, Goto,
      streamVars, callVars, walkVars
<1>1. TypeOK'
  BY DEF Pc, Op, Calls
<1>2. ListIsLive'
  BY DEF ListIsLive, CallSane
<1>3. WalkerHasList'
  BY DEF WalkerHasList, Walking
<1>4. TodoListed'
  BY DEF TodoListed, Walking, WalkerHasList, ListIsLive
<1>5. CallSane'
  BY DEF CallSane, Shared, ListIsLive, Alone
<1>6. Alone'
  BY DEF Alone, Shared, CallSane, ListIsLive
<1>7. LockHeld'
  BY DEF LockHeld, Holds, CallSane, Shared, LockOwned, Alone, TodoListed, Walking, ListIsLive
<1>8. LockOwned'
  BY DEF LockOwned, Holds, CallSane, Shared, LockHeld
<1>9. DueSane'
  BY DEF DueSane, Walking, ListIsLive, WalkerHasList
<1>10. StdMarked' /\ StdUnique'
  BY DEF StdMarked, StdUnique, ListIsLive
<1> QED BY <1>1, <1>2, <1>3, <1>4, <1>5, <1>6, <1>7, <1>8, <1>9, <1>10

\* A freopen that fails goes on to close a stream it is alone on.
LEMMA ReopenFailsStep ==
  ASSUME IInv, NEW t \in Thread, ReopenFails(t)
  PROVE  IInv'
<1> USE NobodyAssumption, NoneAssumption DEF IInv, TypeOK, CallShape,
      ReopenFails, Settle, Goto,
      streamVars, callVars, walkVars
<1>1. TypeOK'
  BY DEF Pc, Op, Calls
<1>2. ListIsLive'
  BY DEF ListIsLive, CallSane
<1>3. WalkerHasList'
  BY DEF WalkerHasList, Walking
<1>4. TodoListed'
  BY DEF TodoListed, Walking, WalkerHasList, ListIsLive
<1>5. CallSane'
  BY DEF CallSane, Shared, ListIsLive, Alone
<1>6. Alone'
  BY DEF Alone, Shared, CallSane, ListIsLive
<1>7. LockHeld'
  BY DEF LockHeld, Holds, CallSane, Shared, LockOwned, Alone, TodoListed, Walking, ListIsLive
<1>8. LockOwned'
  BY DEF LockOwned, Holds, CallSane, Shared, LockHeld
<1>9. DueSane'
  BY DEF DueSane, Walking, ListIsLive, WalkerHasList
<1>10. StdMarked' /\ StdUnique'
  BY DEF StdMarked, StdUnique, ListIsLive
<1> QED BY <1>1, <1>2, <1>3, <1>4, <1>5, <1>6, <1>7, <1>8, <1>9, <1>10

\* unlock_stream: the thread had the lock, so nobody else loses it.
LEMMA UnlockStep ==
  ASSUME IInv, NEW t \in Thread, Unlock(t)
  PROVE  IInv'
<1> USE NobodyAssumption, NoneAssumption DEF IInv, TypeOK, CallShape, Unlock,
      Unlocked, Goto,
      streamVars, callVars, walkVars
<1>1. TypeOK'
  BY DEF Pc, Op, Calls
<1>2. ListIsLive'
  BY DEF ListIsLive, CallSane
<1>3. WalkerHasList'
  BY DEF WalkerHasList, Walking
<1>4. TodoListed'
  BY DEF TodoListed, Walking, WalkerHasList, ListIsLive
<1>5. CallSane'
  BY DEF CallSane, Shared, ListIsLive, Alone
<1>6. Alone'
  BY DEF Alone, Shared, CallSane, ListIsLive
<1>7. LockHeld'
  BY SMTT(60) DEF LockHeld, Holds, CallSane, Shared, LockOwned, Alone, TodoListed, Walking, ListIsLive
<1>8. LockOwned'
  BY DEF LockOwned, Holds, CallSane, Shared, LockHeld
<1>9. DueSane'
  BY DEF DueSane, Walking, ListIsLive, WalkerHasList
<1>10. StdMarked' /\ StdUnique'
  BY DEF StdMarked, StdUnique, ListIsLive
<1> QED BY <1>1, <1>2, <1>3, <1>4, <1>5, <1>6, <1>7, <1>8, <1>9, <1>10

\* do_close takes a stream off the list while no walk is going on.
LEMMA CloseStep ==
  ASSUME IInv, NEW t \in Thread, Close(t)
  PROVE  IInv'
<1> USE NobodyAssumption, NoneAssumption DEF IInv, TypeOK, CallShape, Close,
      do_list_remove, ListFree, Goto,
      streamVars, callVars, walkVars
<1>1. TypeOK'
  BY DEF Pc, Op, Calls
<1>2. ListIsLive'
  BY DEF ListIsLive, CallSane
<1>3. WalkerHasList'
  BY DEF WalkerHasList, Walking
<1>4. TodoListed'
  BY DEF TodoListed, Walking, WalkerHasList, ListIsLive
<1>5. CallSane'
  BY DEF CallSane, Shared, ListIsLive, Alone
<1>6. Alone'
  BY DEF Alone, Shared, CallSane, ListIsLive
<1>7. LockHeld'
  BY DEF LockHeld, Holds, CallSane, Shared, LockOwned, Alone, TodoListed, Walking, ListIsLive
<1>8. LockOwned'
  BY DEF LockOwned, Holds, CallSane, Shared, LockHeld
<1>9. DueSane'
  BY DEF DueSane, Walking, ListIsLive, WalkerHasList
<1>10. StdMarked' /\ StdUnique'
  BY DEF StdMarked, StdUnique, ListIsLive
<1> QED BY <1>1, <1>2, <1>3, <1>4, <1>5, <1>6, <1>7, <1>8, <1>9, <1>10

\* do_close frees a stream that nobody else refers to.
LEMMA DestroyStep ==
  ASSUME IInv, NEW t \in Thread, Destroy(t)
  PROVE  IInv'
<1> USE NobodyAssumption, NoneAssumption DEF IInv, TypeOK, CallShape, Destroy,
      Free, Settle, Goto,
      streamVars, callVars, walkVars
<1>1. TypeOK'
  BY DEF Pc, Op, Calls
<1>2. ListIsLive'
  BY DEF ListIsLive, CallSane
<1>3. WalkerHasList'
  BY DEF WalkerHasList, Walking
<1>4. TodoListed'
  BY DEF TodoListed, Walking, WalkerHasList, ListIsLive
<1>5. CallSane'
  BY DEF CallSane, Shared, ListIsLive, Alone
<1>6. Alone'
  BY DEF Alone, Shared, CallSane, ListIsLive
<1>7. LockHeld'
  BY DEF LockHeld, Holds, CallSane, Shared, LockOwned, Alone, TodoListed, Walking, ListIsLive
<1>8. LockOwned'
  BY DEF LockOwned, Holds, CallSane, Shared, LockHeld
<1>9. DueSane'
  BY DEF DueSane, Walking, ListIsLive, WalkerHasList
<1>10. StdMarked' /\ StdUnique'
  BY DEF StdMarked, StdUnique, ListIsLive
<1> QED BY <1>1, <1>2, <1>3, <1>4, <1>5, <1>6, <1>7, <1>8, <1>9, <1>10

\* A call of fflush(NULL) records what it has to flush.
LEMMA FlushAllStep ==
  ASSUME IInv, NEW t \in Thread, FlushAll(t)
  PROVE  IInv'
<1> USE NobodyAssumption, NoneAssumption DEF IInv, TypeOK, CallShape, FlushAll, Goto,
      streamVars, callVars, walkVars
<1>1. TypeOK'
  BY DEF Pc, Op, Calls
<1>2. ListIsLive'
  BY DEF ListIsLive, CallSane
<1>3. WalkerHasList'
  BY DEF WalkerHasList, Walking
<1>4. TodoListed'
  BY DEF TodoListed, Walking, WalkerHasList, ListIsLive
<1>5. CallSane'
  BY DEF CallSane, Shared, ListIsLive, Alone
<1>6. Alone'
  BY DEF Alone, Shared, CallSane, ListIsLive
<1>7. LockHeld'
  BY DEF LockHeld, Holds, CallSane, Shared, LockOwned, Alone, TodoListed, Walking, ListIsLive
<1>8. LockOwned'
  BY DEF LockOwned, Holds, CallSane, Shared, LockHeld
<1>9. DueSane'
  BY DEF DueSane, Walking, ListIsLive, WalkerHasList
<1>10. StdMarked' /\ StdUnique'
  BY DEF StdMarked, StdUnique, ListIsLive
<1> QED BY <1>1, <1>2, <1>3, <1>4, <1>5, <1>6, <1>7, <1>8, <1>9, <1>10

\* The walk begins with all of the list, whose lock was free.
LEMMA AllListStep ==
  ASSUME IInv, NEW t \in Thread, AllList(t)
  PROVE  IInv'
<1> USE NobodyAssumption, NoneAssumption DEF IInv, TypeOK, CallShape, AllList,
      ListFree, Goto,
      streamVars, callVars, walkVars
<1>1. TypeOK'
  BY DEF Pc, Op, Calls
<1>2. ListIsLive'
  BY DEF ListIsLive, CallSane
<1>3. WalkerHasList'
  BY DEF WalkerHasList, Walking
<1>4. TodoListed'
  BY DEF TodoListed, Walking, WalkerHasList, ListIsLive
<1>5. CallSane'
  BY DEF CallSane, Shared, ListIsLive, Alone
<1>6. Alone'
  BY DEF Alone, Shared, CallSane, ListIsLive
<1>7. LockHeld'
  BY DEF LockHeld, Holds, CallSane, Shared, LockOwned, Alone, TodoListed, Walking, ListIsLive
<1>8. LockOwned'
  BY DEF LockOwned, Holds, CallSane, Shared, LockHeld
<1>9. DueSane'
  BY DEF DueSane, Walking, ListIsLive, WalkerHasList
<1>10. StdMarked' /\ StdUnique'
  BY DEF StdMarked, StdUnique, ListIsLive
<1> QED BY <1>1, <1>2, <1>3, <1>4, <1>5, <1>6, <1>7, <1>8, <1>9, <1>10

\* The walk goes to one of the streams it has left.
LEMMA AllNextStep ==
  ASSUME IInv, NEW t \in Thread, NEW s \in Stream, AllNext(t, s)
  PROVE  IInv'
<1> USE NobodyAssumption, NoneAssumption DEF IInv, TypeOK, CallShape, AllNext, Goto,
      streamVars, callVars, walkVars
<1>1. TypeOK'
  BY DEF Pc, Op, Calls
<1>2. ListIsLive'
  BY DEF ListIsLive, CallSane
<1>3. WalkerHasList'
  BY DEF WalkerHasList, Walking
<1>4. TodoListed'
  BY DEF TodoListed, Walking, WalkerHasList, ListIsLive
<1>5. CallSane'
  BY DEF CallSane, Shared, ListIsLive, Alone
<1>6. Alone'
  BY DEF Alone, Shared, CallSane, ListIsLive
<1>7. LockHeld'
  BY DEF LockHeld, Holds, CallSane, Shared, LockOwned, Alone, TodoListed, Walking, ListIsLive
<1>8. LockOwned'
  BY DEF LockOwned, Holds, CallSane, Shared, LockHeld
<1>9. DueSane'
  BY DEF DueSane, Walking, ListIsLive, WalkerHasList
<1>10. StdMarked' /\ StdUnique'
  BY DEF StdMarked, StdUnique, ListIsLive
<1> QED BY <1>1, <1>2, <1>3, <1>4, <1>5, <1>6, <1>7, <1>8, <1>9, <1>10

\* The walk has the lock of its stream, which was free.
LEMMA AllLockStep ==
  ASSUME IInv, NEW t \in Thread, AllLock(t)
  PROVE  IInv'
<1> USE NobodyAssumption, NoneAssumption DEF IInv, TypeOK, CallShape, AllLock,
      CanLock, Locked, Goto,
      streamVars, callVars, walkVars
<1>1. TypeOK'
  BY DEF Pc, Op, Calls
<1>2. ListIsLive'
  BY DEF ListIsLive, CallSane
<1>3. WalkerHasList'
  BY DEF WalkerHasList, Walking
<1>4. TodoListed'
  BY DEF TodoListed, Walking, WalkerHasList, ListIsLive
<1>5. CallSane'
  BY DEF CallSane, Shared, ListIsLive, Alone
<1>6. Alone'
  BY DEF Alone, Shared, CallSane, ListIsLive
<1>7. LockHeld'
  BY DEF LockHeld, Holds, CallSane, Shared, LockOwned, Alone, TodoListed, Walking, ListIsLive
<1>8. LockOwned'
  BY DEF LockOwned, Holds, CallSane, Shared, LockHeld
<1>9. DueSane'
  BY DEF DueSane, Walking, ListIsLive, WalkerHasList
<1>10. StdMarked' /\ StdUnique'
  BY DEF StdMarked, StdUnique, ListIsLive
<1> QED BY <1>1, <1>2, <1>3, <1>4, <1>5, <1>6, <1>7, <1>8, <1>9, <1>10

\* The walk is done with its stream: it is flushed and unlocked.
LEMMA AllFlushStep ==
  ASSUME IInv, NEW t \in Thread, AllFlush(t)
  PROVE  IInv'
<1> USE NobodyAssumption, NoneAssumption DEF IInv, TypeOK, CallShape, AllFlush,
      Unlocked, Settle, Goto,
      streamVars, callVars, walkVars
<1>1. TypeOK'
  BY DEF Pc, Op, Calls
<1>2. ListIsLive'
  BY DEF ListIsLive, CallSane
<1>3. WalkerHasList'
  BY DEF WalkerHasList, Walking
<1>4. TodoListed'
  BY DEF TodoListed, Walking, WalkerHasList, ListIsLive
<1>5. CallSane'
  BY DEF CallSane, Shared, ListIsLive, Alone
<1>6. Alone'
  BY DEF Alone, Shared, CallSane, ListIsLive
<1>7. LockHeld'
  BY DEF LockHeld, Holds, CallSane, Shared, LockOwned, Alone, TodoListed, Walking, ListIsLive
<1>8. LockOwned'
  BY DEF LockOwned, Holds, CallSane, Shared, LockHeld
<1>9. DueSane'
  BY DEF DueSane, Walking, ListIsLive, WalkerHasList
<1>10. StdMarked' /\ StdUnique'
  BY DEF StdMarked, StdUnique, ListIsLive
<1> QED BY <1>1, <1>2, <1>3, <1>4, <1>5, <1>6, <1>7, <1>8, <1>9, <1>10

\* The walk is over and gives the list's lock back.
LEMMA AllDoneStep ==
  ASSUME IInv, NEW t \in Thread, AllDone(t)
  PROVE  IInv'
<1> USE NobodyAssumption, NoneAssumption DEF IInv, TypeOK, CallShape, AllDone, Goto,
      streamVars, callVars, walkVars
<1>1. TypeOK'
  BY DEF Pc, Op, Calls
<1>2. ListIsLive'
  BY DEF ListIsLive, CallSane
<1>3. WalkerHasList'
  BY DEF WalkerHasList, Walking
<1>4. TodoListed'
  BY DEF TodoListed, Walking, WalkerHasList, ListIsLive
<1>5. CallSane'
  BY DEF CallSane, Shared, ListIsLive, Alone
<1>6. Alone'
  BY DEF Alone, Shared, CallSane, ListIsLive
<1>7. LockHeld'
  BY DEF LockHeld, Holds, CallSane, Shared, LockOwned, Alone, TodoListed, Walking, ListIsLive
<1>8. LockOwned'
  BY DEF LockOwned, Holds, CallSane, Shared, LockHeld
<1>9. DueSane'
  BY DEF DueSane, Walking, ListIsLive, WalkerHasList
<1>10. StdMarked' /\ StdUnique'
  BY DEF StdMarked, StdUnique, ListIsLive
<1> QED BY <1>1, <1>2, <1>3, <1>4, <1>5, <1>6, <1>7, <1>8, <1>9, <1>10

-----------------------------------------------------------------------------
(* The invariant *)

\* A process starts without streams.
LEMMA InitOK == Init => IInv
<1> SUFFICES ASSUME Init PROVE IInv
    OBVIOUS
<1> USE NobodyAssumption, NoneAssumption DEF Init
<1>1. TypeOK
  BY DEF TypeOK, CallShape, Pc, Op, Calls
<1>2. ListIsLive /\ StdMarked /\ StdUnique
  BY DEF ListIsLive, StdMarked, StdUnique
<1>3. WalkerHasList /\ TodoListed
  BY DEF WalkerHasList, TodoListed, Walking
<1>4. CallSane /\ Alone
  BY DEF CallSane, Alone
<1>5. LockHeld /\ LockOwned
  BY DEF LockHeld, LockOwned, Holds
<1>6. DueSane
  BY DEF DueSane, Walking
<1> QED BY <1>1, <1>2, <1>3, <1>4, <1>5, <1>6 DEF IInv

\* A step that changes nothing keeps the invariant.
LEMMA StutterStep == ASSUME IInv, UNCHANGED vars PROVE IInv'
<1> USE DEF IInv, vars, streamVars, callVars, walkVars
<1>1. TypeOK' /\ ListIsLive' /\ StdMarked' /\ StdUnique'
  BY DEF TypeOK, CallShape, ListIsLive, StdMarked, StdUnique
<1>2. WalkerHasList' /\ TodoListed' /\ DueSane'
  BY DEF WalkerHasList, TodoListed, DueSane, Walking
<1>3. CallSane' /\ Alone'
  BY DEF CallSane, Alone
<1>4. LockHeld' /\ LockOwned'
  BY DEF LockHeld, LockOwned, Holds
<1> QED BY <1>1, <1>2, <1>3, <1>4

\* No action breaks the invariant.
LEMMA NextStep == IInv /\ [Next]_vars => IInv'
<1> SUFFICES ASSUME IInv, [Next]_vars PROVE IInv'
    OBVIOUS
<1>1. CASE UNCHANGED vars
  BY <1>1, StutterStep
<1>2. CASE Next
  <2> PICK t \in Thread :
        \/ \E s \in Stream, same \in BOOLEAN : Open(t, s, same)
        \/ \E s \in Stream, fd \in Fds : GetStdStream(t, s, fd)
        \/ \E s \in Stream, what \in Calls : Call(t, s, what)
        \/ Lock(t) \/ Write(t) \/ Flush(t) \/ Unlock(t)
        \/ \E s \in Stream : GetLine(t, s)
        \/ GetLineFails(t) \/ CloseLine(t) \/ FreeLine(t)
        \/ Reopen(t) \/ ReopenFails(t)
        \/ Close(t) \/ Destroy(t)
        \/ FlushAll(t) \/ AllList(t)
        \/ \E s \in Stream : AllNext(t, s)
        \/ AllLock(t) \/ AllFlush(t) \/ AllDone(t)
    BY <1>2 DEF Next
  <2>1. CASE \E s \in Stream, same \in BOOLEAN : Open(t, s, same)
    BY <2>1, OpenStep
  <2>2. CASE \E s \in Stream, fd \in Fds : GetStdStream(t, s, fd)
    BY <2>2, GetStdStreamStep
  <2>3. CASE \E s \in Stream, what \in Calls : Call(t, s, what)
    BY <2>3, CallStep
  <2>4. CASE Lock(t) \/ Write(t) \/ Flush(t) \/ Unlock(t)
    BY <2>4, LockStep, WriteStep, FlushStep, UnlockStep
  <2>5. CASE \E s \in Stream : GetLine(t, s)
    BY <2>5, GetLineStep
  <2>6. CASE GetLineFails(t) \/ CloseLine(t) \/ FreeLine(t)
    BY <2>6, GetLineFailsStep, CloseLineStep, FreeLineStep
  <2>7. CASE Reopen(t) \/ ReopenFails(t) \/ Close(t) \/ Destroy(t)
    BY <2>7, ReopenStep, ReopenFailsStep, CloseStep, DestroyStep
  <2>8. CASE FlushAll(t) \/ AllList(t) \/ \E s \in Stream : AllNext(t, s)
    BY <2>8, FlushAllStep, AllListStep, AllNextStep
  <2>9. CASE AllLock(t) \/ AllFlush(t) \/ AllDone(t)
    BY <2>9, AllLockStep, AllFlushStep, AllDoneStep
  <2> QED BY <2>1, <2>2, <2>3, <2>4, <2>5, <2>6, <2>7, <2>8, <2>9
<1> QED BY <1>1, <1>2

\* IInv holds in every reachable state.
THEOREM Invariance == Spec => []IInv
<1>1. IInv /\ [Next]_vars => IInv'
  BY NextStep
<1> QED BY InitOK, <1>1, PTL DEF Spec

-----------------------------------------------------------------------------
(* The properties *)

\* The variables of estream.c's streams and of the calls on them keep their
\* types, and a call's variables are set exactly while it needs them.
THEOREM TypeCorrect == Spec => []TypeOK
<1>1. IInv => TypeOK
  BY DEF IInv
<1> QED BY Invariance, <1>1, PTL

\* There is one stdin, stdout and stderr, since _gpgrt__get_std_stream looks for the
\* stream and creates it under the same lock; a second one comes only after freopen
\* was called on the first.
THEOREM StdStreamsUnique == Spec => []StdUnique
<1>1. IInv => StdUnique
  BY DEF IInv
<1> QED BY Invariance, <1>1, PTL

\* No call and no fflush(NULL) works on a stream that do_close has freed, or
\* waits for its lock.
THEOREM StreamsUsedAreAllocated == Spec => []NoUseAfterFree
<1>1. ASSUME IInv PROVE NoUseAfterFree
  <2> SUFFICES ASSUME NEW t \in Thread, NEW s \in Inside(t) \cup Waits(t)
               PROVE  phase[s] # "free"
    BY DEF NoUseAfterFree
  <2> USE <1>1 DEF IInv
  <2>1. s \in {cur[t], line[t]} => phase[s] # "free"
    BY NoneAssumption DEF CallSane, Inside, Waits
  <2>2. s = visit[t] /\ pc[t] \in {"wait", "flushing"} => phase[s] # "free"
    BY DEF TodoListed, Walking, ListIsLive
  <2> QED BY <2>1, <2>2 DEF Inside, Waits
<1> QED BY Invariance, <1>1, PTL

\* The lock of a stream is enough for its calls, fflush(NULL) and do_close not
\* to work on it at the same time, the exceptions of OneAtATime aside.
THEOREM MutualExclusion == Spec => []OneAtATime
<1>1. ASSUME IInv PROVE OneAtATime
  <2> SUFFICES ASSUME NEW t \in Thread, NEW u \in Thread, t # u,
                      NEW s \in Inside(t) \cap Inside(u), ~samethread[s],
                      op[t] # "reopen_null", op[u] # "reopen_null"
               PROVE  FALSE
    BY DEF OneAtATime
  <2> USE <1>1 DEF IInv, TypeOK, CallShape
  <2>1. ASSUME NEW v \in Thread, s \in Inside(v), op[v] # "reopen_null"
        PROVE  Holds(v, s) \/ (pc[v] = "destroy" /\ s = cur[v])
    BY <2>1 DEF Inside, Holds, CallSane
  <2>2. ASSUME NEW v \in Thread, NEW x \in Thread, v # x,
               pc[v] = "destroy", s = cur[v], s \in Inside(x)
        PROVE  FALSE
    <3>1. phase[s] = "closing" /\ op[v] \notin Shared /\ s # None
      BY <2>2, NoneAssumption DEF CallSane, Inside
    <3>2. cur[x] # s
      BY <2>2, <3>1 DEF Alone
    <3>3. pc[x] # "flushing" \/ visit[x] # s
      BY <3>1 DEF TodoListed, Walking, ListIsLive
    <3>4. line[x] # s
      BY <2>2, <3>1 DEF Alone
    <3> QED BY <2>2, <3>2, <3>3, <3>4 DEF Inside
  <2>3. Holds(t, s) /\ Holds(u, s)
    BY <2>1, <2>2
  <2> QED BY <2>3 DEF LockHeld, Inside
<1> QED BY Invariance, <1>1, PTL

\* fflush(NULL) has flushed what was written before it was called when it
\* returns, even though streams are opened and closed while it waits.
THEOREM FlushAllIsComplete == Spec => []FlushAllFlushes
<1>1. IInv => FlushAllFlushes
  BY DEF IInv, FlushAllFlushes, DueSane, Walking
<1> QED BY Invariance, <1>1, PTL

\* Two threads wait for each other only when getline or a failing freopen
\* takes the list's lock with a stream locked; all other calls are safe.
THEOREM OnlyGetlineDeadlocks == Spec => []CircleIsGetline
<1>1. ASSUME IInv PROVE CircleIsGetline
  <2> SUFFICES ASSUME NEW t \in Thread, NEW u \in Thread, Circle(t, u)
               PROVE  \E v \in {t, u} : op[v] \in {"getline", "freopen"}
    BY DEF CircleIsGetline
  <2> USE <1>1 DEF IInv, TypeOK, CallShape
  \* One that waits for a stream's lock waits for a holder of it, which either
  \* visits the stream, and waits for nothing, or is in a call on it.
  <2>1. ASSUME NEW v \in Thread, NEW x \in Thread, NEW s \in Waits(v),
               ~samethread[s], lock[s] = x, WaitsFor(x, v)
        PROVE  op[x] \in {"getline", "freopen"}
    <3>1. s \in Stream
      BY DEF Waits
    <3>2. \/ Holds(x, s)
          \/ op[x] = "freopen"
      BY <2>1, <3>1 DEF LockOwned
    <3>3. ASSUME Holds(x, s), op[x] \notin {"getline", "freopen"} PROVE FALSE
      BY <2>1, <3>3 DEF Holds, WaitsFor, Waits, CallSane
    <3> QED BY <3>2, <3>3
  \* Two that wait for the list's lock cannot both hold it.
  <2>2. ASSUME NEW v \in Thread, NEW x \in Thread, WaitsFor(v, x),
               ~ \E s \in Waits(v) : ~samethread[s] /\ lock[s] = x
        PROVE  Walking(x) /\ ~Walking(v)
    BY <2>2 DEF WaitsFor, WalkerHasList, Walking
  <2> QED BY <2>1, <2>2 DEF Circle, WaitsFor
<1> QED BY Invariance, <1>1, PTL

-----------------------------------------------------------------------------
(*****************************************************************************)
(* The log stream.                                                           *)
(*****************************************************************************)
\* A set of natural numbers that is not empty has a least one.
LEMMA Least ==
  ASSUME NEW T, T \subseteq Nat, T # {}
  PROVE  \E x \in T : \A y \in T : x <= y
<1> DEFINE R == OpToRel(<, Nat)
<1>1. PICK x \in T : \A y \in T : ~(<<y, x>> \in R)
  <2>1. IsWellFoundedOn(R, Nat)
    BY NatLessThanWellFounded
  <2> HIDE DEF R
  <2> QED BY <2>1, WFMin
<1>2. ASSUME NEW y \in T PROVE x <= y
  <2>1. ~(<<y, x>> \in OpToRel(<, Nat))
    BY <1>1
  <2>2. ~(y < x)
    BY <2>1 DEF OpToRel
  <2> QED BY <2>2
<1> QED BY <1>2

\* Induction for a set: by the least number that is not in it.
LEMMA Induction ==
  ASSUME NEW T, 0 \in T, \A n \in Nat : n \in T => n + 1 \in T
  PROVE  \A n \in Nat : n \in T
<1> DEFINE Out == {n \in Nat : n \notin T}
<1>1. SUFFICES ASSUME Out # {} PROVE FALSE
  OBVIOUS
<1>2. PICK x \in Out : \A y \in Out : x <= y
  <2>1. Out \subseteq Nat
    OBVIOUS
  <2> HIDE DEF Out
  <2> QED BY <1>1, <2>1, Least
<1>3. x \in Nat /\ x # 0 /\ x \notin T
  BY <1>2
<1>4. x - 1 \in Nat /\ ~(x <= x - 1) /\ (x - 1) + 1 = x
  BY <1>3
<1>5. x - 1 \notin Out
  BY <1>2, <1>4
<1>6. x - 1 \in T
  BY <1>4, <1>5
<1> QED BY <1>3, <1>4, <1>6

\* The element a fold takes next, with a name to be rewritten with.
Top(s) == CHOOSE x \in s : \A y \in s : x >= y

\* The greatest number of a set of 1..n+1 that has n+1.
LEMMA TopIs == ASSUME NEW n \in Nat, NEW s \in SUBSET (1..n + 1), n + 1 \in s PROVE Top(s) = n + 1
<1>1. \A y \in s : n + 1 >= y
  OBVIOUS
<1>2. Top(s) \in s /\ \A y \in s : Top(s) >= y
  BY <1>1 DEF Top
<1>3. Top(s) >= n + 1
  BY <1>2
<1>4. Top(s) \in 1..n + 1
  BY <1>2
<1> QED
  BY <1>3, <1>4

Silences == {"none", "flush", "empty", "sink"}
LogFds == LogFd \cup {NoFd}
Tails == SUBSET {"stderr", "file"}
LogRec == [sink : {"none", "stderr", "file", "fd", "socket"}, fd : LogFds, is_socket : BOOLEAN, quiet : BOOLEAN,
           log_socket : LogFds, running_detached : BOOLEAN, missing_lf : BOOLEAN, errorcount : Int,
           ended : BOOLEAN, pending : BOOLEAN, open : BOOLEAN, broken : BOOLEAN, lost : Int,
           silent : Silences, tails : Tails, glued : BOOLEAN]

\* The descriptor is announced as the sink's, and a second line is not lost on a connection
\* that was found to be gone.
Sound(l) ==
  /\ l \in LogRec
  /\ l.sink \in {"none", "stderr"} => l.fd = NoFd
  /\ IF l.sink = "socket" THEN l.log_socket = l.fd ELSE l.log_socket = NoFd
  /\ l.lost \in {0, 1}
  /\ l.sink = "socket" /\ l.lost = 1 => l.fd = NoFd \/ ~l.broken
  /\ ~l.glued
\* A line that is open, and that nobody is to end, was left open by a call without text.
Explained(l) == l.open /\ ~l.missing_lf => l.silent # "none"

LogSound == /\ Sound(log) /\ Explained(log) /\ appFds \subseteq LogFd
            /\ hex \in [LogThread -> Seq(STRING \X Formats)]

\* The variables of a line that a writer leaves alone.
SameLine(l, m) == /\ m.sink = l.sink /\ m.open = l.open /\ m.missing_lf = l.missing_lf
                  /\ m.silent = l.silent /\ m.glued = l.glued

\* A descriptor that open or socket returns is one that was not used.
LEMMA LowestIs ==
  ASSUME NEW l, Unused(l) # {} PROVE LowestOf(Unused(l)) \in LogFd /\ LowestOf(Unused(l)) \in Unused(l)
<1>1. Unused(l) \subseteq LogFd /\ LogFd \subseteq Nat
  BY LogFdAssumption DEF Unused
<1>2. PICK f \in Unused(l) : \A g \in Unused(l) : f <= g
  BY <1>1, Least
<1>3. LowestOf(Unused(l)) \in Unused(l)
  BY <1>2 DEF LowestOf
<1> QED
  BY <1>1, <1>3

\* A write of the log stream keeps Sound, whether it connects, reconnects or gives up.
LEMMA WriterSound ==
  ASSUME NEW l, Sound(l) PROVE Sound(FunWriter(l)) /\ SameLine(l, FunWriter(l))
<1> DEFINE k == Connected(l)
           m == FunWriter(l)
<1>1. l \in LogRec
  BY DEF Sound
<1>2. CASE l.sink # "socket"
  BY <1>2 DEF FunWriter, SameLine
<1>3. CASE l.sink = "socket"
  <2>1. /\ k \in LogRec /\ k.sink = "socket" /\ SameLine(l, k) /\ k.lost = l.lost
        /\ l.fd # NoFd => k = l
        /\ l.fd = NoFd => k.fd = NoFd \/ ~k.broken
        /\ l.fd = NoFd /\ k.fd = NoFd => ~(Unused(l) # {} /\ peer)
    <3>1. CASE l.fd # NoFd
      BY <1>1, <1>3, <3>1 DEF Connected, SameLine
    <3>2. CASE l.fd = NoFd /\ Unused(l) # {} /\ peer
      <4>1. PICK f : f = LowestOf(Unused(l)) /\ f \in LogFd
        BY <3>2, LowestIs
      <4>2. k = [l EXCEPT !.fd = f, !.is_socket = TRUE, !.quiet = FALSE, !.broken = FALSE]
        BY <3>2, <4>1 DEF Connected
      <4>3. f # NoFd /\ f \in LogFds
        BY <4>1, LogFdAssumption DEF LogFds
      <4> HIDE DEF k
      <4> QED
        BY <1>1, <1>3, <3>2, <4>2, <4>3 DEF LogRec, SameLine
    <3>3. CASE l.fd = NoFd /\ ~(Unused(l) # {} /\ peer)
      <4>1. k = [l EXCEPT !.is_socket = FALSE, !.quiet = l.quiet \/ ~l.running_detached]
        BY <3>3 DEF Connected
      <4> HIDE DEF k
      <4> QED
        BY <1>1, <1>3, <3>3, <4>1 DEF LogRec, SameLine
    <3> QED
      BY <3>1, <3>2, <3>3
  <2>2. CASE k.fd # NoFd /\ ~k.broken
    <3>1. m = [k EXCEPT !.log_socket = k.fd]
      BY <1>3, <2>2 DEF FunWriter
    <3> HIDE DEF k, m
    <3>2. m.log_socket = k.fd /\ m.fd = k.fd /\ ~m.broken /\ m.lost = k.lost /\ m \in LogRec /\ SameLine(k, m)
      BY <2>1, <2>2, <3>1 DEF LogRec, SameLine
    <3>3. Sound(m) /\ SameLine(l, m)
      BY <1>3, <2>1, <3>2 DEF Sound, SameLine
    <3> QED
      BY <3>3 DEF m
  <2>3. CASE ~(k.fd # NoFd /\ ~k.broken)
    <3>1. m = [Lost(k) EXCEPT !.fd = NoFd, !.log_socket = NoFd]
      BY <1>3, <2>3 DEF FunWriter
    <3>2. Lost(k) = [k EXCEPT !.lost = IF peer /\ Unused(k) # {} THEN k.lost + 1 ELSE k.lost]
      BY DEF Lost
    <3>3. peer /\ Unused(k) # {} => k.lost = 0
      <4>1. SUFFICES ASSUME peer, Unused(k) # {}, k.lost # 0 PROVE FALSE
        OBVIOUS
      <4>2. CASE l.fd = NoFd
        <5>1. k.fd = NoFd
          BY <2>1, <2>3, <4>2
        <5>2. Unused(k) = Unused(l)
          BY <4>2, <5>1 DEF Unused
        <5> QED
          BY <2>1, <4>1, <4>2, <5>1, <5>2
      <4>3. CASE l.fd # NoFd
        <5>1. k = l
          BY <2>1, <4>3
        <5>2. l.broken /\ l.lost # 0
          BY <2>3, <4>1, <4>3, <5>1
        <5> QED
          BY <1>3, <4>3, <5>2 DEF Sound
      <4> QED
        BY <4>2, <4>3
    <3>4. k.lost \in {0, 1}
      BY <2>1 DEF Sound
    <3>5. PICK n \in {0, 1} : Lost(k) = [k EXCEPT !.lost = n]
      BY <3>2, <3>3, <3>4
    <3> HIDE DEF k, m
    <3>6. m = [k EXCEPT !.lost = n, !.fd = NoFd, !.log_socket = NoFd]
      BY <2>1, <3>1, <3>5 DEF LogRec
    <3>7. NoFd \in LogFds /\ n \in Int
      BY DEF LogFds
    <3>8. m.log_socket = NoFd /\ m.fd = NoFd /\ m.lost = n /\ m \in LogRec /\ SameLine(k, m)
      BY <2>1, <3>6, <3>7 DEF LogRec, SameLine
    <3>9. Sound(m) /\ SameLine(l, m)
      BY <1>3, <2>1, <3>8 DEF Sound, SameLine
    <3> QED
      BY <3>9 DEF m
  <2> QED
    BY <2>2, <2>3
<1> QED
  BY <1>2, <1>3

\* Text begins or continues a line.
LEMMA TextSound ==
  ASSUME NEW l, Sound(l)
  PROVE  Sound(LogText(l)) /\ LogText(l).open /\ LogText(l).silent = l.silent
         /\ LogText(l).missing_lf = l.missing_lf /\ LogText(l).glued = l.glued
  BY DEF LogText, Sound, LogRec

\* A line feed ends it.
LEMMA LfSound ==
  ASSUME NEW l, Sound(l)
  PROVE  Sound(Lf(l)) /\ ~Lf(l).open /\ Lf(l).missing_lf = l.missing_lf
<1> DEFINE f == FunWriter(l)
<1>1. Sound(f) /\ f.missing_lf = l.missing_lf
  BY WriterSound DEF SameLine
<1>2. Lf(l) = [f EXCEPT !.pending = FALSE, !.open = FALSE, !.silent = "none"]
  BY DEF Lf
<1> HIDE DEF f
<1> QED
  BY <1>1, <1>2, ZenonT(60) DEF Sound, LogRec, Silences

\* Closing the log stream loses no more than its descriptor.
LEMMA ClosedSound ==
  ASSUME NEW l, Sound(l)
  PROVE  /\ Sound(Closed(l)) /\ ~Closed(l).open /\ Closed(l).sink = "none"
         /\ Closed(l).fd = NoFd /\ Closed(l).log_socket = NoFd
<1> DEFINE f == IF l.pending /\ l.sink # "stderr" THEN FunWriter(l) ELSE l
<1>1. Sound(f) /\ f.sink = l.sink
  BY WriterSound DEF SameLine
<1>2. Closed(l) = [f EXCEPT !.sink = "none", !.fd = NoFd, !.pending = FALSE, !.open = FALSE,
                            !.tails = IF l.open /\ l.sink \in {"stderr", "file"} THEN f.tails \cup {l.sink} ELSE f.tails,
                            !.silent = "none", !.log_socket = IF l.sink = "socket" THEN NoFd ELSE f.log_socket]
  BY DEF Closed
<1> DEFINE t == IF l.open /\ l.sink \in {"stderr", "file"} THEN f.tails \cup {l.sink} ELSE f.tails
<1> HIDE DEF f
<1>3. NoFd \in LogFds
  BY DEF LogFds
<1>4. t \in Tails
  BY <1>1 DEF Sound, LogRec, Tails
<1>5. Closed(l) = [f EXCEPT !.sink = "none", !.fd = NoFd, !.pending = FALSE, !.open = FALSE, !.tails = t,
                            !.silent = "none", !.log_socket = IF l.sink = "socket" THEN NoFd ELSE f.log_socket]
  BY <1>2
<1> HIDE DEF t
<1> DEFINE ls == IF l.sink = "socket" THEN NoFd ELSE f.log_socket
<1>7. f \in LogRec /\ ls \in LogFds /\ "none" \in Silences
  BY <1>1, <1>3 DEF Sound, LogRec, Silences
<1>8. Closed(l) = [f EXCEPT !.sink = "none", !.fd = NoFd, !.pending = FALSE, !.open = FALSE, !.tails = t,
                            !.silent = "none", !.log_socket = ls]
  BY <1>5
<1> HIDE DEF ls
<1>6. Closed(l) \in LogRec
  BY <1>3, <1>4, <1>7, <1>8, ZenonT(60) DEF LogRec
<1> QED
  BY <1>1, <1>3, <1>5, <1>6 DEF Sound, LogRec, Silences

\* The new stream is announced when it has a descriptor; a line that it goes on with was left open
\* by the change of the sink.
LEMMA SinkSound ==
  ASSUME NEW l, Sound(l), l.sink = "none", l.log_socket = NoFd, NEW fd \in LogFds,
         NEW sink \in {"stderr", "file", "fd", "socket"},
         sink \in {"stderr", "socket"} => fd = NoFd
  PROVE  Sound(Sink(l, sink, fd)) /\ Explained(Sink(l, sink, fd))
<1>1. PICK open \in BOOLEAN, silent \in Silences, tails \in Tails :
        /\ Sink(l, sink, fd) = [l EXCEPT !.sink = sink, !.fd = fd, !.missing_lf = FALSE, !.open = open,
                                         !.silent = silent, !.tails = tails]
        /\ open => silent # "none"
  <2> DEFINE o == sink \in l.tails
             q == IF o THEN "sink" ELSE "none"
             r == l.tails \ {sink}
  <2>1. Sink(l, sink, fd) = [l EXCEPT !.sink = sink, !.fd = fd, !.missing_lf = FALSE, !.open = o,
                                      !.silent = q, !.tails = r]
    BY DEF Sink
  <2>2. o \in BOOLEAN /\ q \in Silences /\ (o => q # "none")
    BY DEF Silences
  <2>3. r \in Tails
    BY DEF Sound, LogRec, Tails
  <2> HIDE DEF o, q, r
  <2> QED
    BY <2>1, <2>2, <2>3
<1> DEFINE m == Sink(l, sink, fd)
<1> HIDE DEF m
<1>4. l \in LogRec
  BY DEF Sound
<1>2. m \in LogRec
  BY <1>1, <1>4, ZenonT(60) DEF LogRec, m
<1>5. /\ m.sink = sink /\ m.fd = fd /\ m.log_socket = NoFd /\ m.lost = l.lost /\ m.glued = l.glued
      /\ (m.open => m.silent # "none")
  BY <1>1, <1>4 DEF LogRec, m
<1>3. Sound(m)
  BY <1>2, <1>5 DEF Sound
<1> QED
  BY <1>3, <1>5 DEF Explained, m

\* The stream that log_internal opens when there is none.
LEMMA DefaultSound ==
  ASSUME NEW l, Sound(l) PROVE Sound(Default(l)) /\ Explained(Default(l))
<1>1. NoFd \in LogFds
  BY DEF LogFds
<1> QED
  BY <1>1, ClosedSound, SinkSound DEF Default

\* The prefix of a message.
LEMMA PrefixSound ==
  ASSUME NEW l, NEW level, Sound(l), level = "cont" \/ (l.open => l.silent # "none")
  PROVE  /\ Sound(print_prefix(l, level)) /\ print_prefix(l, level).missing_lf = l.missing_lf
<1>1. CASE level = "cont"
  BY <1>1 DEF print_prefix
<1>2. CASE level # "cont"
  <2> DEFINE k == LogText(l)
             g == k.glued \/ (l.open /\ l.silent = "none")
  <2>1. Sound(k) /\ k.missing_lf = l.missing_lf
    BY TextSound
  <2>2. print_prefix(l, level) = [k EXCEPT !.glued = g]
    BY <1>2 DEF print_prefix
  <2>3. g = FALSE
    BY <1>2, <2>1 DEF Sound, LogRec
  <2> HIDE DEF k, g
  <2> QED
    BY <2>1, <2>2, <2>3, ZenonT(60) DEF Sound, LogRec
<1> QED
  BY <1>1, <1>2

\* What is done to a missing line feed before a message begins.
LEMMA BeginsSound ==
  ASSUME NEW l, NEW level, Sound(l), Explained(l)
  PROVE  LET b == Begins(l, level)
         IN  Sound(b) /\ ~b.missing_lf /\ (level = "cont" \/ (b.open => b.silent # "none"))
<1> DEFINE k == IF l.missing_lf /\ level # "cont" THEN Lf(l) ELSE l
<1>1. Sound(k) /\ (level = "cont" \/ (k.open => k.silent # "none"))
  BY LfSound DEF Explained
<1>2. Begins(l, level) = [k EXCEPT !.missing_lf = FALSE]
  BY DEF Begins
<1> HIDE DEF k
<1> QED
  BY <1>1, <1>2 DEF Sound, LogRec

\* The text of a message.
LEMMA FormattedSound ==
  ASSUME NEW l, NEW fmt \in Formats, Sound(l)
  PROVE  Sound(Formatted(l, fmt)) /\ Explained(Formatted(l, fmt))
<1>1. CASE fmt \in {"null", "empty"}
  <2>1. Formatted(l, fmt) = [l EXCEPT !.silent = IF l.open THEN "empty" ELSE l.silent]
    BY <1>1 DEF Formatted
  <2> QED
    BY <2>1 DEF Sound, LogRec, Silences, Explained
<1>2. CASE fmt = "part"
  <2> DEFINE k == LogText(l)
  <2>1. Sound(k)
    BY TextSound
  <2>2. Formatted(l, fmt) = [k EXCEPT !.missing_lf = TRUE, !.silent = "none"]
    BY <1>2 DEF Formatted
  <2> HIDE DEF k
  <2> QED
    BY <2>1, <2>2, ZenonT(60) DEF Sound, LogRec, Silences, Explained
<1>3. CASE fmt = "line"
  BY <1>3, TextSound, LfSound DEF Formatted, Explained
<1>4. CASE fmt = "lf"
  BY <1>4, LfSound DEF Formatted, Explained
<1> QED
  BY <1>1, <1>2, <1>3, <1>4 DEF Formats

OneExtra(l, level) == Lf(LogText(print_prefix(l, level)))

\* An extra line is a prefix, text and a line feed.
LEMMA OneExtraSound ==
  ASSUME NEW l, NEW level, Sound(l), l.open => l.silent # "none"
  PROVE  Sound(OneExtra(l, level)) /\ ~OneExtra(l, level).open
  BY PrefixSound, TextSound, LfSound DEF OneExtra

ExtraStep(g, base, level, s) == IF s = {} THEN base ELSE OneExtra(g[s \ {Top(s)}], level)

\* What the fold over the extra lines is below the library's definitions.
Extras(base, level, D) ==
  CHOOSE g : g = [s \in SUBSET D |-> ExtraStep(g, base, level, s)]

\* The fold over the extra lines is a recursive function over sets of their numbers.
LEMMA FoldIsExtras ==
  ASSUME NEW base, NEW level, NEW seq
  PROVE  FoldLeft(LAMBDA a, i : Lf(LogText(print_prefix(a, level))), base, seq) = Extras(base, level, DOMAIN seq)[DOMAIN seq]
  BY DEF FoldLeft, MapThenFoldSet, Extras, ExtraStep, OneExtra, Top, Max

\* The recursive function over the subsets of an interval is what its definition says.
LEMMA ExtrasExist ==
  ASSUME NEW base, NEW level, NEW N \in Nat
  PROVE  \E g : g = [s \in SUBSET (1..N) |-> ExtraStep(g, base, level, s)]
<1> DEFINE T == {n \in Nat : \E g : g = [s \in SUBSET (1..n) |-> ExtraStep(g, base, level, s)]}
<1>1. 0 \in T
  <2> DEFINE g == [s \in SUBSET (1..0) |-> base]
  <2>1. \A s \in SUBSET (1..0) : s = {}
    OBVIOUS
  <2>2. \A s \in SUBSET (1..0) : ExtraStep(g, base, level, s) = base
    BY <2>1 DEF ExtraStep
  <2>3. g = [s \in SUBSET (1..0) |-> ExtraStep(g, base, level, s)]
    BY <2>2
  <2> HIDE DEF g
  <2> QED
    BY <2>3
<1>2. ASSUME NEW n \in Nat, n \in T PROVE n + 1 \in T
  <2>1. PICK g : g = [s \in SUBSET (1..n) |-> ExtraStep(g, base, level, s)]
    BY <1>2
  <2> DEFINE h == [s \in SUBSET (1..n + 1) |-> IF n + 1 \in s THEN OneExtra(g[s \ {n + 1}], level) ELSE g[s]]
  <2>2. ASSUME NEW s \in SUBSET (1..n + 1) PROVE h[s] = ExtraStep(h, base, level, s)
    <3>1. CASE n + 1 \in s
      <4>1. Top(s) = n + 1 /\ s # {}
        BY <3>1, TopIs
      <4>2. s \ {n + 1} \in SUBSET (1..n + 1) /\ n + 1 \notin s \ {n + 1}
        OBVIOUS
      <4>3. h[s \ {n + 1}] = g[s \ {n + 1}]
        BY <4>2
      <4>4. h[s] = OneExtra(g[s \ {n + 1}], level)
        BY <3>1
      <4> HIDE DEF h
      <4> QED
        BY <4>1, <4>3, <4>4 DEF ExtraStep
    <3>2. CASE n + 1 \notin s
      <4>1. s \in SUBSET (1..n)
        BY <3>2
      <4>2. s \ {Top(s)} \in SUBSET (1..n + 1) /\ n + 1 \notin s \ {Top(s)}
        BY <3>2
      <4>3. h[s \ {Top(s)}] = g[s \ {Top(s)}]
        BY <4>2
      <4>4. h[s] = g[s]
        BY <3>2
      <4>5. g[s] = ExtraStep(g, base, level, s)
        BY <2>1, <4>1
      <4> HIDE DEF h
      <4> QED
        BY <4>3, <4>4, <4>5 DEF ExtraStep
    <3> QED
      BY <3>1, <3>2
  <2>3. h = [s \in SUBSET (1..n + 1) |-> h[s]]
    OBVIOUS
  <2> HIDE DEF h
  <2>4. h = [s \in SUBSET (1..n + 1) |-> ExtraStep(h, base, level, s)]
    BY <2>2, <2>3
  <2> QED
    BY <2>4
<1> HIDE DEF T
<1>3. N \in T
  BY <1>1, <1>2, Induction
<1> QED
  BY <1>3 DEF T

\* Any number of extra lines keeps Sound.
LEMMA ExtrasSound ==
  ASSUME NEW base, NEW level, NEW N \in Nat, Sound(base), base.open => base.silent # "none"
  PROVE  LET l == Extras(base, level, 1..N)[1..N] IN Sound(l) /\ (l.open => l.silent # "none")
<1> DEFINE G == Extras(base, level, 1..N)
           Good(l) == Sound(l) /\ (l.open => l.silent # "none")
           T == {n \in Nat : n <= N => Good(G[1..n])}
<1>1. G = [s \in SUBSET (1..N) |-> ExtraStep(G, base, level, s)]
  BY ExtrasExist DEF Extras
<1> HIDE DEF G
<1>2. 0 \in T
  <2>1. 1..0 = {}
    OBVIOUS
  <2>2. G[{}] = base
    BY <1>1 DEF ExtraStep
  <2> QED
    BY <2>1, <2>2
<1>3. ASSUME NEW n \in Nat, n \in T PROVE n + 1 \in T
  <2>1. SUFFICES ASSUME n + 1 <= N PROVE Good(G[1..n + 1])
    OBVIOUS
  <2>2. 1..n + 1 \in SUBSET (1..n + 1) /\ n + 1 \in 1..n + 1
    OBVIOUS
  <2>3. Top(1..n + 1) = n + 1
    BY <2>2, TopIs
  <2>4. (1..n + 1) \ {n + 1} = 1..n
    OBVIOUS
  <2>5. 1..n + 1 \in SUBSET (1..N)
    BY <2>1
  <2>6. G[1..n + 1] = OneExtra(G[1..n], level)
    BY <1>1, <2>2, <2>3, <2>4, <2>5 DEF ExtraStep
  <2>7. Good(G[1..n])
    BY <1>3, <2>1
  <2> QED
    BY <2>6, <2>7, OneExtraSound
<1> HIDE DEF T
<1>4. N \in T
  BY <1>2, <1>3, Induction
<1> QED
  BY <1>4 DEF T, G

\* Messages with extra lines end their last line.
LEMMA ExtraSound ==
  ASSUME NEW l, NEW level, NEW lines \in Nat, Sound(l), Explained(l)
  PROVE  Sound(LogExtra(l, level, lines)) /\ Explained(LogExtra(l, level, lines))
<1> DEFINE k == IF l.missing_lf THEN [Lf(l) EXCEPT !.missing_lf = FALSE] ELSE l
           seq == [i \in 1..lines |-> i]
<1>1. Sound(k) /\ (k.open => k.silent # "none")
  <2>1. CASE l.missing_lf
    <3>1. Sound(Lf(l)) /\ ~Lf(l).open
      BY LfSound
    <3>2. k = [Lf(l) EXCEPT !.missing_lf = FALSE]
      BY <2>1
    <3> HIDE DEF k
    <3> QED
      BY <3>1, <3>2 DEF Sound, LogRec
  <2>2. CASE ~l.missing_lf
    BY <2>2 DEF Explained
  <2> QED
    BY <2>1, <2>2
<1>2. DOMAIN seq = 1..lines
  OBVIOUS
<1>3. LogExtra(l, level, lines) = Extras(k, level, 1..lines)[1..lines]
  <2>1. LogExtra(l, level, lines) = FoldLeft(LAMBDA a, i : Lf(LogText(print_prefix(a, level))), k, seq)
    BY DEF LogExtra
  <2> HIDE DEF k, seq
  <2>2. LogExtra(l, level, lines) = Extras(k, level, DOMAIN seq)[DOMAIN seq]
    BY <2>1, FoldIsExtras
  <2> QED
    BY <1>2, <2>2
<1> HIDE DEF k
<1> QED
  BY <1>1, <1>3, ExtrasSound DEF Explained

\* The end of a message.
LEMMA FinishedSound ==
  ASSUME NEW l, NEW level, Sound(l), Explained(l)
  PROVE  Sound(Finished(l, level)) /\ Explained(Finished(l, level))
<1>1. CASE level \in {"fatal", "bug"}
  <2> DEFINE k == IF l.missing_lf THEN Lf(l) ELSE l
  <2>1. Sound(k) /\ Explained(k)
    BY LfSound DEF Explained
  <2>2. Finished(l, level) = [k EXCEPT !.ended = TRUE]
    BY <1>1 DEF Finished
  <2> HIDE DEF k
  <2> QED
    BY <2>1, <2>2, ZenonT(60) DEF Sound, LogRec, Explained
<1>2. CASE level = "error"
  <2>1. PICK n \in Int : Finished(l, level) = [l EXCEPT !.errorcount = n]
    <3>1. Finished(l, level) = [l EXCEPT !.errorcount = IF l.errorcount < ErrorLimit THEN l.errorcount + 1 ELSE l.errorcount]
      BY <1>2 DEF Finished
    <3>2. l.errorcount \in Int /\ l.errorcount + 1 \in Int
      BY DEF Sound, LogRec
    <3> QED
      BY <3>1, <3>2
  <2> QED
    BY <2>1 DEF Sound, LogRec, Explained
<1>3. CASE level \notin {"fatal", "bug", "error"}
  BY <1>3 DEF Finished
<1> QED
  BY <1>1, <1>2, <1>3

\* A whole message keeps Sound, whatever its level, text and extra lines.
LEMMA MessageSound ==
  ASSUME Sound(log), Explained(log), NEW level, NEW fmt \in Formats, NEW lines \in Nat
  PROVE  Sound(logv_internal(level, fmt, lines)) /\ Explained(logv_internal(level, fmt, lines))
<1> DEFINE l0 == IF log.sink = "none" THEN Default(log) ELSE log
           b == Begins(l0, level)
           p == print_prefix(b, level)
           l1 == Formatted(p, fmt)
           l2 == IF lines = 0 THEN l1 ELSE LogExtra(l1, level, lines)
<1>1. Sound(l0) /\ Explained(l0)
  BY DefaultSound
<1>2. logv_internal(level, fmt, lines) = Finished(l2, level)
  BY DEF logv_internal
<1> HIDE DEF l0
<1>3. Sound(b) /\ (level = "cont" \/ (b.open => b.silent # "none"))
  BY <1>1, BeginsSound
<1> HIDE DEF b
<1>4. Sound(p)
  BY <1>3, PrefixSound
<1> HIDE DEF p
<1>5. Sound(l1) /\ Explained(l1)
  BY <1>4, FormattedSound
<1> HIDE DEF l1
<1>6. Sound(l2) /\ Explained(l2)
  BY <1>5, ExtraSound
<1> HIDE DEF l2
<1> QED
  BY <1>2, <1>6, FinishedSound

\* The peer of a socket may go away and come back.
LEMMA BrokenSound ==
  ASSUME NEW l, Sound(l), Explained(l), NEW x, {x} \subseteq BOOLEAN
  PROVE  Sound([l EXCEPT !.broken = x, !.lost = 0]) /\ Explained([l EXCEPT !.broken = x, !.lost = 0])
<1> DEFINE m == [l EXCEPT !.broken = x, !.lost = 0]
<1>1. l \in LogRec /\ x \in BOOLEAN
  BY DEF Sound
<1>2. m \in LogRec
  <2> DEFINE k == [l EXCEPT !.lost = 0]
  <2>1. k \in LogRec
    BY <1>1 DEF LogRec
  <2>2. m = [k EXCEPT !.broken = x]
    BY <1>1 DEF LogRec
  <2> HIDE DEF k, m
  <2> QED
    BY <1>1, <2>1, <2>2 DEF LogRec
<1>3. /\ m.sink = l.sink /\ m.fd = l.fd /\ m.log_socket = l.log_socket /\ m.lost = 0 /\ m.glued = l.glued
      /\ m.open = l.open /\ m.missing_lf = l.missing_lf /\ m.silent = l.silent
  BY <1>1 DEF LogRec
<1> HIDE DEF m
<1>4. Sound(m) /\ Explained(m)
  BY <1>2, <1>3 DEF Sound, Explained
<1> QED
  BY <1>4 DEF m

\* LogSound holds before the first message.
LEMMA LogInitial == LogInit => LogSound
<1> SUFFICES ASSUME LogInit PROVE LogSound
  OBVIOUS
<1>1. NoFd \in LogFds
  BY DEF LogFds
<1>2. Sound(log) /\ Explained(log)
  BY <1>1 DEF LogInit, Sound, LogRec, Silences, Tails, Explained
<1> QED
  BY <1>2 DEF LogInit, LogSound

\* Every step keeps LogSound.
LEMMA LogInductive == LogSound /\ [LogNext]_logVars => LogSound'
<1> SUFFICES ASSUME LogSound, [LogNext]_logVars PROVE LogSound'
  OBVIOUS
<1>0. Sound(log) /\ Explained(log) /\ appFds \subseteq LogFd /\ hex \in [LogThread -> Seq(STRING \X Formats)]
  BY DEF LogSound
<1>1. ASSUME NEW l, log' = l, Sound(l), Explained(l), appFds' \subseteq LogFd, hex' \in [LogThread -> Seq(STRING \X Formats)]
      PROVE  LogSound'
  BY <1>1 DEF LogSound, Sound, Explained
<1>2. ASSUME log_set_sink PROVE LogSound'
  <2> DEFINE k == Closed(log)
  <2>1. /\ Sound(k) /\ ~k.open /\ k.sink = "none" /\ k.fd = NoFd /\ k.log_socket = NoFd
        /\ Sound(Default(log)) /\ Explained(Default(log))
    BY <1>0, ClosedSound, DefaultSound
  <2>2. NoFd \in LogFds /\ LogFd \subseteq LogFds
    BY DEF LogFds
  <2>3. CASE log' \in {k, Default(log)} /\ UNCHANGED <<appFds, peer, hex>>
    BY <1>0, <1>1, <2>1, <2>3 DEF Explained
  <2>4. CASE set_file_fd_file
    <3>1. UNCHANGED <<appFds, peer, hex>>
      BY <2>4 DEF set_file_fd_file
    <3>2. CASE Unused(k) = {}
      <4>1. log' = Default(log)
        BY <2>4, <3>2 DEF set_file_fd_file
      <4> QED
        BY <2>3, <3>1, <4>1
    <3>3. CASE Unused(k) # {}
      <4>1. PICK f \in LogFd : f = LowestOf(Unused(k))
        BY <3>3, LowestIs
      <4> DEFINE m == Sink(k, "file", f)
      <4>2. log' = m
        BY <2>4, <3>3, <4>1 DEF set_file_fd_file
      <4> HIDE DEF k
      <4>3. Sound(m) /\ Explained(m)
        BY <2>1, <2>2, SinkSound
      <4> HIDE DEF m
      <4> QED
        BY <1>0, <1>1, <3>1, <4>2, <4>3
    <3> QED
      BY <3>2, <3>3
  <2>5. CASE set_file_fd_socket
    <3> DEFINE j == Sink(k, "socket", NoFd)
               m == [j EXCEPT !.quiet = FALSE, !.is_socket = FALSE, !.log_socket = NoFd]
    <3>1. UNCHANGED <<appFds, peer, hex>> /\ log' = m
      BY <2>5 DEF set_file_fd_socket
    <3>3. Sound(j) /\ Explained(j) /\ j.sink = "socket" /\ j.fd = NoFd
      <4> HIDE DEF k
      <4>1. Sound(j) /\ Explained(j)
        BY <2>1, <2>2, SinkSound
      <4> QED
        BY <2>1, <4>1 DEF Sink, Sound, LogRec
    <3> HIDE DEF j
    <3>2. Sound(m) /\ Explained(m)
      BY <2>2, <3>3 DEF Sound, LogRec, Explained
    <3> HIDE DEF m
    <3> QED
      BY <1>0, <1>1, <3>1, <3>2
  <2>6. CASE set_file_fd_fails
    BY <2>3, <2>6 DEF set_file_fd_fails
  <2>7. ASSUME NEW fd \in appFds, set_file_fd_given(fd) PROVE LogSound'
    <3> DEFINE m == Sink(k, "fd", fd)
    <3>1. hex' = hex /\ appFds' = appFds \ {fd} /\ log' = m /\ fd \in LogFd
      BY <1>0, <2>7 DEF set_file_fd_given
    <3> HIDE DEF k
    <3>2. Sound(m) /\ Explained(m)
      BY <2>1, <2>2, <3>1, SinkSound
    <3> HIDE DEF m
    <3> QED
      BY <1>0, <1>1, <3>1, <3>2
  <2>8. CASE log' = Default(log) /\ UNCHANGED <<appFds, peer, hex>>
    BY <2>3, <2>8
  <2> QED
    BY <1>2, <2>4, <2>5, <2>6, <2>7, <2>8 DEF log_set_sink
<1>3. ASSUME NEW level, NEW fmt \in Formats, NEW lines \in Nat,
             log' = logv_internal(level, fmt, lines), appFds' = appFds, hex' \in [LogThread -> Seq(STRING \X Formats)]
      PROVE  LogSound'
  <2>1. PICK l : l = logv_internal(level, fmt, lines)
    OBVIOUS
  <2> QED
    BY <1>0, <1>1, <1>3, <2>1, MessageSound
<1>4. ASSUME NEW level, NEW fmt \in Formats, Log(level, fmt) PROVE LogSound'
  BY <1>0, <1>3, <1>4 DEF Log
<1>5. ASSUME log_flush PROVE LogSound'
  <2>1. PICK l : l = logv_internal("cont", "null", 0)
    OBVIOUS
  <2>2. Sound(l) /\ Explained(l)
    BY <1>0, <2>1, MessageSound DEF Formats
  <2>3. log' = [l EXCEPT !.silent = IF log.missing_lf THEN "flush" ELSE l.silent]
    BY <1>5, <2>1 DEF log_flush
  <2>4. PICK q \in Silences : log' = [l EXCEPT !.silent = q] /\ (l.silent # "none" => q # "none")
    <3>1. l.silent \in Silences
      BY <2>2 DEF Sound, LogRec
    <3> QED
      BY <2>3, <3>1 DEF Silences
  <2>5. Sound([l EXCEPT !.silent = q]) /\ Explained([l EXCEPT !.silent = q])
    BY <2>2, <2>4 DEF Sound, LogRec, Explained
  <2> QED
    BY <1>0, <1>1, <1>5, <2>4, <2>5 DEF log_flush
<1>6. ASSUME NEW b \in BOOLEAN, log_set_prefix(b) \/ get_errorcount(b) PROVE LogSound'
  <2>1. CASE log_set_prefix(b)
    <3>1. log' = [log EXCEPT !.running_detached = b]
      BY <2>1 DEF log_set_prefix
    <3>2. Sound([log EXCEPT !.running_detached = b]) /\ Explained([log EXCEPT !.running_detached = b])
      BY <1>0 DEF Sound, LogRec, Explained
    <3> QED
      BY <1>0, <1>1, <2>1, <3>1, <3>2 DEF log_set_prefix
  <2>2. CASE get_errorcount(b)
    <3>1. PICK n \in Int : log' = [log EXCEPT !.errorcount = n]
      <4>1. log.errorcount \in Int
        BY <1>0 DEF Sound, LogRec
      <4> QED
        BY <2>2, <4>1 DEF get_errorcount
    <3>2. Sound([log EXCEPT !.errorcount = n]) /\ Explained([log EXCEPT !.errorcount = n])
      BY <1>0 DEF Sound, LogRec, Explained
    <3> QED
      BY <1>0, <1>1, <2>2, <3>1, <3>2 DEF get_errorcount
  <2> QED
    BY <1>6, <2>1, <2>2
<1>7. ASSUME PeerChanges PROVE LogSound'
  <2> DEFINE x == log.broken \/ (log.is_socket /\ log.fd # NoFd)
             m == [log EXCEPT !.broken = x, !.lost = 0]
  <2>1. log' = m
    BY <1>7 DEF PeerChanges
  <2>2. {x} \subseteq BOOLEAN
    OBVIOUS
  <2> HIDE DEF x
  <2>3. Sound(m) /\ Explained(m)
    BY <1>0, <2>2, BrokenSound
  <2> HIDE DEF m
  <2> QED
    BY <1>0, <1>1, <1>7, <2>1, <2>3 DEF PeerChanges
<1>8. CASE AppOpenFd
  BY <1>0, <1>1, <1>8, LowestIs DEF AppOpenFd
<1>9. CASE \E fd \in appFds : AppCloseFd(fd)
  BY <1>0, <1>1, <1>9 DEF AppCloseFd
<1>10. ASSUME NEW t \in LogThread, NEW calls \in HexDumps, log_printhex(t, calls) PROVE LogSound'
  <2>1. hex' \in [LogThread -> Seq(STRING \X Formats)]
    BY <1>0, <1>10, HexDumpsAssumption DEF log_printhex
  <2> QED
    BY <1>0, <1>1, <1>10, <2>1 DEF log_printhex
<1>11. ASSUME NEW t \in LogThread, log_printhex_step(t) PROVE LogSound'
  <2>1. hex[t] \in Seq(STRING \X Formats) /\ hex[t] # <<>>
    BY <1>0, <1>11 DEF log_printhex_step
  <2>2. Tail(hex[t]) \in Seq(STRING \X Formats) /\ Head(hex[t]) \in STRING \X Formats
    BY <2>1
  <2>3. PICK fmt \in Formats : fmt = Head(hex[t])[2]
    BY <2>2
  <2>6. PICK level : level = Head(hex[t])[1]
    OBVIOUS
  <2>4. log' = logv_internal(level, fmt, 0) /\ appFds' = appFds /\ hex' = [hex EXCEPT ![t] = Tail(hex[t])]
    BY <1>11, <2>3, <2>6 DEF log_printhex_step
  <2>5. hex' \in [LogThread -> Seq(STRING \X Formats)]
    BY <1>0, <2>2, <2>4
  <2> QED
    BY <1>3, <2>4, <2>5
<1>12. ASSUME NEW fmt \in Formats, log_printf(fmt) PROVE LogSound'
  <2>1. PICK level : Log(level, fmt)
    BY <1>12 DEF log_printf
  <2> QED
    BY <1>4, <2>1
<1>13. ASSUME NEW fmt \in Formats, NEW lines \in Nat, log_debug_string(fmt, lines) PROVE LogSound'
  <2>1. PICK level : level = "debug"
    OBVIOUS
  <2> QED
    BY <1>0, <1>3, <1>13, <2>1 DEF log_debug_string
<1>14. CASE UNCHANGED logVars
  BY <1>14 DEF logVars, LogSound, Sound, Explained
<1>15. {"empty", "part", "line"} \subseteq Formats /\ {"null", "empty", "part", "line", "lf"} \subseteq Formats /\ 1..2 \subseteq Nat
  BY DEF Formats
<1>16. CASE LogNext
  BY <1>2, <1>4, <1>5, <1>6, <1>7, <1>8, <1>9, <1>10, <1>11, <1>12, <1>13, <1>15, <1>16 DEF LogNext
<1> QED
  BY <1>14, <1>16

\* The log stream connects again after an error or a new name, the descriptor that
\* gpgrt_log_test_fd announces is the one it writes to, and messages begin lines unless a call without
\* text or a change of the sink left one open (logging.c).
THEOREM LogStreamPromises == LogSpec => []LogStreamExact
<1>1. LogSound => LogStreamExact
  <2> SUFFICES ASSUME LogSound PROVE LogReconnects /\ LogFdAnnounced /\ MessagesBeginLines
    BY DEF LogStreamExact
  <2>1. Sound(log) /\ NoFd \notin LogFd
    BY LogFdAssumption DEF LogSound
  <2>2. LogFdAnnounced
    BY <2>1 DEF Sound, LogRec, LogFdAnnounced, log_test_fd
  <2> QED
    BY <2>1, <2>2 DEF Sound, LogReconnects, MessagesBeginLines
<1> QED
  BY <1>1, LogInitial, LogInductive, PTL DEF LogSpec

=============================================================================
