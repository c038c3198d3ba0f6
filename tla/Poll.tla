-------------------------------- MODULE Poll --------------------------------
(***************************************************************************)
(* gpgrt_poll on POSIX (src/estream.c): the array of items is walked twice,   *)
(* once to fill the smaller array that poll(2) wants, and once more to find   *)
(* the answer of each item in it.  The variant with select(2) has sets of     *)
(* descriptors instead of the smaller array.                                  *)
(***************************************************************************)
EXTENDS Integers, FiniteSets, Sequences

CONSTANTS
  PollLength, \* number of items in a call
  PollItem,   \* items: [ignore, want : subset of Wants, fd, pending, hup]
  PollFd,     \* file descriptors that streams stand for
  NoPollFd,   \* -1: the stream supports no polling
  Readiness   \* what a descriptor may be ready for: some subsets of Events

Wants == {"read", "write", "oob"}
Events == {"in", "out", "pri", "err", "hup", "nval"}

ASSUME PollAssumption == /\ PollLength \in Nat /\ NoPollFd \notin PollFd
                         /\ Readiness \subseteq SUBSET Events

VARIABLES
  interface, \* "poll" (HAVE_POLL_H) or "select"
  item,      \* the array FDS of the caller
  got,       \* its response fields
  kernel,    \* [PollFd -> what poll or select found], at the moment it answered
  call       \* [pc, count]

pollVars == <<interface, item, got, kernel, call>>

PollItems == 1..PollLength
Nothing == [i \in PollItems |-> {}]

PollInit ==
  /\ interface \in {"poll", "select"}
  /\ item \in [PollItems -> PollItem]
  /\ got = Nothing
  /\ kernel = [d \in PollFd |-> {}]
  /\ call = [pc |-> "idle", count |-> 0]

-----------------------------------------------------------------------------
\* The items that the first walk looks at, and those that it gives to poll(2).
Pollable(i) == ~item[i].ignore /\ item[i].fd # NoPollFd
Asked(i) == Pollable(i) /\ item[i].want # {}
Pending(i) == ~item[i].ignore /\ "read" \in item[i].want /\ item[i].pending

\* poll_nfds counted on for items that were never put in the array.
ReadSlotEvery(i) == 1 + Cardinality({j \in PollItems : j < i /\ Pollable(j)})
\* poll_nfds when the first walk comes to item i, and when the second one does.
FillSlot(i) == 1 + Cardinality({j \in PollItems : j < i /\ Asked(j)})
ReadSlot(i) == 1 + Cardinality({j \in PollItems : j < i /\ Asked(j)})

\* poll_fds after poll(2): errors are reported whether asked for or not.
EventsOf(want) == {e \in {"in", "out", "pri"} :
                     \/ e = "in" /\ "read" \in want
                     \/ e = "out" /\ "write" \in want
                     \/ e = "pri" /\ "oob" \in want}
PollFds(k) == [s \in {FillSlot(i) : i \in {j \in PollItems : Asked(j)}} |->
                 LET i == CHOOSE j \in PollItems : Asked(j) /\ FillSlot(j) = s
                 IN  k[item[i].fd] \cap (EventsOf(item[i].want) \cup {"err", "hup", "nval"})]

\* The second walk with poll(2).  An item that wants nothing has no entry: revents
\* is that of the next item that has one, or what malloc left there.
Unwritten == {{}, {"nval"}}
GotOfPoll(i, revents) ==
  (IF item[i].hup THEN {"hup"} ELSE {})
  \cup (IF "nval" \in revents THEN {"nval"} ELSE {})
  \cup {w \in item[i].want : \/ w = "read" /\ revents \cap {"in", "hup"} # {}
                             \/ w = "write" /\ "out" \in revents
                             \/ w = "oob" /\ revents \ {"in", "out"} # {}}
\* The second walk with select(2).
GotOfSelect(i, k) ==
  (IF item[i].hup THEN {"hup"} ELSE {})
  \cup {w \in item[i].want : \/ w = "read" /\ k[item[i].fd] \cap {"in", "hup", "err"} # {}
                             \/ w = "write" /\ k[item[i].fd] \cap {"out", "err"} # {}
                             \/ w = "oob" /\ "pri" \in k[item[i].fd]}

Answers(k, garbage) ==
  [i \in PollItems |->
     CASE item[i].ignore -> {}
       [] ~item[i].ignore /\ item[i].fd = NoPollFd -> {"err"}
       [] Pollable(i) /\ interface = "poll" ->
            GotOfPoll(i, IF ReadSlot(i) \in DOMAIN PollFds(k) THEN PollFds(k)[ReadSlot(i)]
                         ELSE garbage)
       [] Pollable(i) /\ interface = "select" -> GotOfSelect(i, k)]

With(g) == Cardinality({i \in PollItems : g[i] # {}})

-----------------------------------------------------------------------------
\* All response fields, those of ignored items too, are cleared.  If some item has
\* data in its stream's buffer the call returns without asking the system.
Cleared == Nothing
PollStart ==
  /\ call.pc = "idle"
  /\ LET first == [i \in PollItems |-> IF Pending(i) THEN Cleared[i] \cup {"read"} ELSE Cleared[i]]
         pending == Cardinality({i \in PollItems : Pending(i)})
     IN  /\ got' = first
         /\ call' = [pc |-> IF pending > 0 THEN "done" ELSE "wait", count |-> pending]
  /\ UNCHANGED <<interface, item, kernel>>

\* poll or select with an answer: some descriptor it was asked about is ready.  (Both
\* are called again after EINTR, which changes nothing.)  select fails on a bad one.
SomeReady(k) == \E i \in PollItems :
  /\ Asked(i)
  /\ IF interface = "poll" THEN PollFds(k)[FillSlot(i)] # {}
     ELSE GotOfSelect(i, k) \ {"hup"} # {}
BadDescriptor(k) == interface = "select" /\ \E i \in PollItems : Asked(i) /\ "nval" \in k[item[i].fd]

PollAnswers(k) ==
  /\ call.pc = "wait" /\ SomeReady(k) /\ ~BadDescriptor(k)
  /\ \E garbage \in Unwritten :
       /\ got' = Answers(k, garbage)
       /\ call' = [pc |-> "done", count |-> With(Answers(k, garbage))]
  /\ kernel' = k
  /\ UNCHANGED <<interface, item>>

\* A timeout (0), and a system call or an allocation that failed (-1).
PollNoAnswer ==
  /\ call.pc = "wait"
  /\ \E count \in {0, -1} : call' = [pc |-> "done", count |-> count]
  /\ UNCHANGED <<interface, item, got, kernel>>

\* The caller changes an item for its next call; the answers are still there.
PollReturn ==
  /\ call.pc = "done"
  /\ call' = [pc |-> "idle", count |-> 0]
  /\ \E i \in PollItems : \E it \in PollItem : item' = [item EXCEPT ![i] = it]
  /\ kernel' = [d \in PollFd |-> {}]
  /\ UNCHANGED <<interface, got>>

PollNext == \/ PollStart \/ PollNoAnswer \/ PollReturn
            \/ \E k \in [PollFd -> Readiness] : PollAnswers(k)

PollSpec == PollInit /\ [][PollNext]_pollVars

-----------------------------------------------------------------------------
(***************************************************************************)
(* Properties.                                                              *)
(***************************************************************************)
\* What an item that asks for something is told of its own descriptor, said without
\* the array in between.
Ready(w, events) ==
  CASE w = "read" -> events \cap (IF interface = "poll" THEN {"in", "hup"}
                                  ELSE {"in", "hup", "err"}) # {}
    [] w = "write" -> events \cap (IF interface = "poll" THEN {"out"} ELSE {"out", "err"}) # {}
    [] w = "oob" -> events \cap (IF interface = "poll" THEN {"pri", "err", "hup", "nval"}
                                 ELSE {"pri"}) # {}

\* Each item that wants something is told of the events of its own descriptor, and no
\* other item's, whatever items stand before it in the array: ignored ones, streams
\* without a descriptor, items that want nothing.  The count that gpgrt_poll returns is
\* the number of items with news; after a timeout or a failure, and for an ignored
\* item, there are none, whatever an earlier call had left there.
PollItemsExact ==
  call.pc = "done" =>
    /\ call.count >= 0 => call.count = With(got)
    /\ call.count = -1 => got = Nothing
    /\ \A i \in PollItems : item[i].ignore => got[i] = {}
    /\ IF \E i \in PollItems : Pending(i)
       THEN \A i \in PollItems : got[i] = IF Pending(i) THEN {"read"} ELSE {}
       ELSE call.count > 0 =>
              \A i \in PollItems : Asked(i) =>
                /\ \A w \in Wants : w \in got[i] <=> w \in item[i].want
                                                     /\ Ready(w, kernel[item[i].fd])
                /\ "hup" \in got[i] <=> item[i].hup
                /\ "nval" \in got[i] <=> interface = "poll" /\ "nval" \in kernel[item[i].fd]

=============================================================================
