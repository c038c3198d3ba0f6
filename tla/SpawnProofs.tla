----------------------------- MODULE SpawnProofs ------------------------------
(***************************************************************************)
(* Processes: for every number of processes, every table of descriptors or *)
(* handles, all flags and redirections and every failure, what is open is  *)
(* exactly what somebody still has, no child is waited for twice, and a    *)
(* child has the files it was to get while nobody else has its ends.       *)
(*                                                                         *)
(* WInv and PInv are the inductive invariants: to the accounts they add    *)
(* that nothing has two owners, and that a process which was not started   *)
(* yet owns nothing.  Without the first a close by one owner could take a  *)
(* handle from another; without the second a spawn could overwrite a       *)
(* record that still has some.  Stepped and PosixStepped are the common    *)
(* part of the proofs: a step that concerns one process keeps the accounts *)
(* of all others.                                                          *)
(*                                                                         *)
(* CInv adds what is behind the descriptors of the program and of each     *)
(* child.  Filled says where the ends of a child are while a spawn runs,   *)
(* and Gives that behind a descriptor is the file which the child is to    *)
(* get there; ChildStepped is the common part of the steps.                *)
(*                                                                         *)
(* The last sections are about the calls on a process that has a status,   *)
(* and about the environment.                                              *)
(***************************************************************************)
EXTENDS ProcCalls, Environment, SpawnPosix, SpawnW32, FiniteSetTheorems, WellFoundedInduction, TLAPS

-----------------------------------------------------------------------------
(***************************************************************************)
(* Processes on Windows.                                                    *)
(***************************************************************************)

\* Handles that are made for different ends are different.
LEMMA NamesDiffer ==
  /\ \A p, i, end : PipeEnd(p, i, end)[1] = "pipe" /\ PipeEnd(p, i, end)[2] = p
                    /\ PipeEnd(p, i, end)[3] = i /\ PipeEnd(p, i, end)[4] = end
  /\ \A p, i : Nul(p, i)[1] = "nul" /\ Nul(p, i)[2] = p /\ Nul(p, i)[3] = i
  /\ \A p : ProcHandle(p)[1] = "process" /\ ProcHandle(p)[2] = p
  /\ \A i : StdHandle(i)[1] = "std"
  BY DEF PipeEnd, Nul, ProcHandle, StdHandle

\* The ends of a pipe, the files for "nul" and process handles are all different.
LEMMA EndsDiffer ==
  /\ \A p, i, q, j : ChildEnd(p, i) # OwnEnd(q, j)
  /\ \A p, i, q, j : ChildEnd(p, i) # Nul(q, j) /\ OwnEnd(p, i) # Nul(q, j)
  /\ \A p, i, q : ChildEnd(p, i) # ProcHandle(q) /\ OwnEnd(p, i) # ProcHandle(q) /\ Nul(p, i) # ProcHandle(q)
<1>1. \A p, i : ChildEnd(p, i)[1] = "pipe" /\ ChildEnd(p, i)[3] = i /\ ChildEnd(p, i)[4] = IF i = 0 THEN "r" ELSE "w"
  BY NamesDiffer DEF ChildEnd
<1>2. \A p, i : OwnEnd(p, i)[1] = "pipe" /\ OwnEnd(p, i)[3] = i /\ OwnEnd(p, i)[4] = IF i = 0 THEN "w" ELSE "r"
  BY NamesDiffer DEF OwnEnd
<1>3. \A p, i, q, j : ChildEnd(p, i) # OwnEnd(q, j)
  <2> SUFFICES ASSUME NEW p, NEW i, NEW q, NEW j, ChildEnd(p, i) = OwnEnd(q, j) PROVE FALSE
    OBVIOUS
  <2>1. i = j
    BY <1>1, <1>2
  <2> QED BY <2>1, <1>1, <1>2
<1> QED BY <1>1, <1>2, <1>3, NamesDiffer

\* What a spawn makes is its own.
LEMMA MadeIs ==
  ASSUME NEW p \in WPid
  PROVE  /\ \A i \in WStd : ChildEnd(p, i) \in Made(p) /\ OwnEnd(p, i) \in Made(p) /\ Nul(p, i) \in Made(p)
         /\ ProcHandle(p) \in Made(p)
         /\ Made(p) \cap (Given \cup {Invalid}) = {}
         /\ \A i \in WStd : StdHandle(i) \notin Made(p)
         /\ \A q \in WPid \ {p} : Made(p) \cap Made(q) = {}
<1>1. \A i \in WStd : ChildEnd(p, i) \in Made(p) /\ OwnEnd(p, i) \in Made(p) /\ Nul(p, i) \in Made(p)
  BY DEF Made, ChildEnd, OwnEnd
<1>2. ProcHandle(p) \in Made(p)
  BY DEF Made
<1>3. \A q : \A h \in Made(q) : h[1] \in {"pipe", "nul", "process"} /\ h[2] = q
  BY NamesDiffer DEF Made
<1>4. \A i \in WStd : StdHandle(i) \notin Made(p)
  BY <1>3, NamesDiffer
<1>5. \A q \in WPid \ {p} : Made(p) \cap Made(q) = {}
  BY <1>3
<1> QED BY <1>1, <1>2, <1>4, <1>5, HandlesDiffer

StdHandles == {StdHandle(i) : i \in WStd}

\* The records of processes.
Handed == (UNION {Made(p) : p \in WPid}) \cup {Invalid}
W32Proc == [life : {"none", "running", "ended", "released"}, call : BOOLEAN, terminated : BOOLEAN,
            detached : BOOLEAN, hProcess : BOOLEAN, hd : [WStd -> Handed]]

\* What an object has.
Kept(p) == Held(p) \cup ProcHeld(p)

\* A process that was not started yet has made nothing.
Unmade(p) == Kept(p) = {} /\ Made(p) \cap (wapp \cup wlost) = {}

\* Each handle has one owner: a process object, the program, or nobody any more.
OneOwner(p) ==
  /\ \A i \in WStd : wproc[p].hd[i] \in {Invalid, OwnEnd(p, i)}
  /\ Kept(p) \cap (wapp \cup wlost) = {}
  /\ wproc[p].life = "none" => Unmade(p)

WInv ==
  /\ wproc \in [WPid -> W32Proc]
  /\ wapp \cup wlost \subseteq UNION {Made(p) : p \in WPid}
  /\ wapp \cap wlost = {}
  /\ \A p \in WPid : OneOwner(p)
  /\ HandlesAccounted

\* What an object holds was made for it.
LEMMA KeptIs ==
  ASSUME NEW p \in WPid, OneOwner(p)
  PROVE  Kept(p) \subseteq Made(p)
  BY MadeIs DEF Kept, Held, ProcHeld, OneOwner

\* Nothing that a spawn makes is there before.
LEMMA Fresh ==
  ASSUME WInv, NEW p \in WPid, wproc[p].life = "none"
  PROVE  handles \cap (Made(p) \cup {Invalid}) = {}
<1> SUFFICES ASSUME NEW h \in handles, h \in Made(p) \cup {Invalid} PROVE FALSE
  OBVIOUS
<1>1. h \in StdHandles \cup Given \cup wapp \cup wlost \/ \E q \in WPid : h \in Kept(q)
  BY DEF WInv, HandlesAccounted, Kept, StdHandles
<1>2. CASE h \in StdHandles \cup Given
  BY <1>2, MadeIs, HandlesDiffer DEF StdHandles
<1>3. CASE h \in wapp \cup wlost
  <2>1. PICK q \in WPid : h \in Made(q)
    BY <1>3 DEF WInv
  <2>2. h \notin Made(p)
    BY <1>3 DEF WInv, OneOwner, Unmade
  <2> QED BY <2>1, <2>2, MadeIs
<1>4. CASE \E q \in WPid : h \in Kept(q)
  <2>1. PICK q \in WPid : h \in Kept(q)
    BY <1>4
  <2>2. h \in Made(q) /\ q # p
    BY <2>1, KeptIs DEF WInv, OneOwner, Unmade
  <2> QED BY <2>2, MadeIs
<1> QED BY <1>1, <1>2, <1>3, <1>4

-----------------------------------------------------------------------------
\* The pipes that a call keeps, and the files it opens as "nul".
Piped(flags, act) == {i \in WStd : flags.std[i] = "pipe" /\ act.hd[i] = Invalid}
Nulled(flags, act) == {i \in WStd : act.hd[i] = Invalid /\ flags.std[i] = "none" /\ flags.nul}
EndsOfChild(p, K) == {ChildEnd(p, i) : i \in K}
OwnEnds(p, K) == {OwnEnd(p, i) : i \in K}
Nuls(p, K) == {Nul(p, i) : i \in K}

\* What a call starts with for each standard file.
LEMMA StartIs ==
  ASSUME NEW p \in WPid, NEW flags \in WFlagSets, NEW i \in WStd
  PROVE  /\ flags.std[i] \in {"pipe", "keep", "none"}
         /\ flags.std[i] = "pipe" => /\ Start(p, flags, 3).child[i] = ChildEnd(p, i)
                                     /\ Start(p, flags, 3).own[i] = OwnEnd(p, i)
         /\ flags.std[i] # "pipe" => Start(p, flags, 3).own[i] = Invalid
         /\ flags.std[i] = "keep" => Start(p, flags, 3).child[i] = StdHandle(i)
         /\ flags.std[i] = "none" => Start(p, flags, 3).child[i] = Invalid
  BY WFlagsAssumption DEF Start

\* The standard files that are to be pipes.
LEMMA PipesIs ==
  ASSUME NEW flags
  PROVE  \A i : i \in Pipes(flags, 3) <=> i \in WStd /\ flags.std[i] = "pipe"
  BY DEF Pipes, WStd

\* What a call has once the actions are taken into account.
LEMMA RedirectedIs ==
  ASSUME NEW p \in WPid, NEW flags \in WFlagSets, NEW act \in WActs,
         handles \cap (Made(p) \cup {Invalid}) = {}
  PROVE  LET s == Redirected(Start(p, flags, 3), p, flags, act)
             K == Piped(flags, act)
             Z == Nulled(flags, act)
         IN  /\ s.open = handles \cup EndsOfChild(p, K) \cup OwnEnds(p, K) \cup Nuls(p, Z)
             /\ s.own \in [WStd -> {OwnEnd(p, i) : i \in WStd} \cup {Invalid}]
             /\ \A i \in WStd : s.own[i] = IF i \in K THEN OwnEnd(p, i) ELSE Invalid
             /\ Closable(s, flags, act) = EndsOfChild(p, K) \cup Nuls(p, Z)
<1> DEFINE s0 == Start(p, flags, 3)
           s == Redirected(s0, p, flags, act)
           K == Piped(flags, act)
           Z == Nulled(flags, act)
           replaced == {i \in WStd : act.hd[i] # Invalid}
           null == {i \in WStd \ replaced : s0.child[i] = Invalid /\ flags.nul}
<1>0. Invalid \notin Made(p)
  BY MadeIs
<1>1. \A i \in WStd : ChildEnd(p, i) # Invalid /\ OwnEnd(p, i) # Invalid /\ Nul(p, i) # Invalid
  BY <1>0, MadeIs
<1>2. \A i \in WStd : StdHandle(i) # Invalid
  BY HandlesDiffer
<1>3. \A i \in WStd : s0.child[i] = Invalid <=> flags.std[i] = "none"
  <2> SUFFICES ASSUME NEW i \in WStd PROVE s0.child[i] = Invalid <=> flags.std[i] = "none"
    OBVIOUS
  <2> QED BY <1>1, <1>2, StartIs DEF s0
<1>4. null = Z
  BY <1>3 DEF null, Z, Nulled, replaced
<1>5. s0.open = handles \cup EndsOfChild(p, Pipes(flags, 3)) \cup OwnEnds(p, Pipes(flags, 3))
  BY DEF s0, Start, EndsOfChild, OwnEnds
<1>6. s = [open |-> (s0.open \ UNION {{ChildEnd(p, i), OwnEnd(p, i)} : i \in replaced}) \cup Nuls(p, null),
           child |-> [i \in WStd |-> IF i \in replaced THEN act.hd[i]
                                     ELSE IF i \in null THEN Nul(p, i) ELSE s0.child[i]],
           own |-> [i \in WStd |-> IF i \in replaced THEN Invalid ELSE s0.own[i]]]
  BY DEF s, Redirected, replaced, null, Nuls
<1>7. s.open = (s0.open \ UNION {{ChildEnd(p, i), OwnEnd(p, i)} : i \in replaced}) \cup Nuls(p, Z)
  BY <1>6, <1>4
<1>8. \A i \in WStd : s.own[i] = IF i \in replaced THEN Invalid ELSE s0.own[i]
  BY <1>6
<1>9. \A i \in WStd : s.child[i] = IF i \in replaced THEN act.hd[i]
                                   ELSE IF i \in Z THEN Nul(p, i) ELSE s0.child[i]
  BY <1>6, <1>4
<1>10. DOMAIN s.own = WStd /\ s.own = [i \in WStd |-> s.own[i]]
  BY <1>6
<1> HIDE DEF s
<1>11. \A i \in WStd : s.own[i] = IF i \in K THEN OwnEnd(p, i) ELSE Invalid
  <2> SUFFICES ASSUME NEW i \in WStd PROVE s.own[i] = IF i \in K THEN OwnEnd(p, i) ELSE Invalid
    OBVIOUS
  <2> QED BY <1>8, StartIs DEF K, Piped, replaced, s0
<1>12. s.own \in [WStd -> {OwnEnd(p, i) : i \in WStd} \cup {Invalid}]
  BY <1>10, <1>11
<1>13. Closable(s, flags, act) = EndsOfChild(p, K) \cup Nuls(p, Z)
  <2>1. \A i \in WStd : (s.child[i] # act.hd[i] /\ flags.std[i] # "keep") <=> (i \in K \/ i \in Z)
    <3> SUFFICES ASSUME NEW i \in WStd
                 PROVE (s.child[i] # act.hd[i] /\ flags.std[i] # "keep") <=> (i \in K \/ i \in Z)
      OBVIOUS
    <3> QED BY <1>9, <1>1, StartIs DEF K, Piped, Z, Nulled, replaced, s0
  <2>2. \A i \in K : s.child[i] = ChildEnd(p, i)
    <3> SUFFICES ASSUME NEW i \in K PROVE s.child[i] = ChildEnd(p, i)
      OBVIOUS
    <3> QED BY <1>9, StartIs DEF K, Piped, Z, Nulled, replaced, s0
  <2>3. \A i \in Z : s.child[i] = Nul(p, i)
    BY <1>9 DEF Z, Nulled, replaced
  <2>4. K \subseteq WStd /\ Z \subseteq WStd
    BY DEF K, Z, Piped, Nulled
  <2>5. {j \in WStd : s.child[j] # act.hd[j] /\ flags.std[j] # "keep"} = K \cup Z
    BY <2>1, <2>4
  <2>6. Closable(s, flags, act) = {s.child[i] : i \in K \cup Z}
    BY <2>5 DEF Closable
  <2> QED BY <2>2, <2>3, <2>6 DEF EndsOfChild, Nuls
<1>14. s.open = handles \cup EndsOfChild(p, K) \cup OwnEnds(p, K) \cup Nuls(p, Z)
  <2> DEFINE gone == UNION {{ChildEnd(p, i), OwnEnd(p, i)} : i \in replaced}
  <2>1. \A h : h \in gone => h \in Made(p)
    BY MadeIs DEF gone, replaced
  <2>2. handles \ gone = handles
    BY <2>1
  <2>3. \A i \in WStd : ChildEnd(p, i) \in gone <=> i \in replaced
    <3>1. \A i, j \in WStd : ChildEnd(p, i) = ChildEnd(p, j) => i = j
      BY DEF ChildEnd, PipeEnd
    <3> QED BY <3>1, EndsDiffer DEF gone, replaced
  <2>4. \A i \in WStd : OwnEnd(p, i) \in gone <=> i \in replaced
    <3>1. \A i, j \in WStd : OwnEnd(p, i) = OwnEnd(p, j) => i = j
      BY DEF OwnEnd, PipeEnd
    <3> QED BY <3>1, EndsDiffer DEF gone, replaced
  <2>5. \A i \in WStd : i \in K <=> i \in Pipes(flags, 3) /\ i \notin replaced
    BY PipesIs DEF K, Piped, replaced
  <2>7. K \subseteq WStd /\ Pipes(flags, 3) \subseteq WStd
    BY DEF K, Piped, Pipes
  <2> HIDE DEF gone, K, replaced
  <2>6. EndsOfChild(p, Pipes(flags, 3)) \ gone = EndsOfChild(p, K)
    BY <2>3, <2>5, <2>7 DEF EndsOfChild
  <2>8. OwnEnds(p, Pipes(flags, 3)) \ gone = OwnEnds(p, K)
    BY <2>4, <2>5, <2>7 DEF OwnEnds
  <2>9. s.open = (s0.open \ gone) \cup Nuls(p, Z)
    BY <1>7 DEF gone
  <2> HIDE DEF s0, Z
  <2> QED BY <1>5, <2>2, <2>6, <2>8, <2>9
<1> QED BY <1>11, <1>12, <1>13, <1>14 DEF s

-----------------------------------------------------------------------------
\* What is open without p, and without what the program took or nobody has.
Elsewhere(p) == StdHandles \cup Given \cup UNION {Kept(q) : q \in WPid \ {p}}

\* The handles that are open, with those of p set apart.
LEMMA AccountedFor ==
  ASSUME NEW p \in WPid
  PROVE  HandlesAccounted <=> handles = Elsewhere(p) \cup wapp \cup wlost \cup Kept(p)
<1>1. UNION {Kept(q) : q \in WPid} = Kept(p) \cup UNION {Kept(q) : q \in WPid \ {p}}
  OBVIOUS
<1>2. UNION {Held(q) \cup ProcHeld(q) : q \in WPid} = UNION {Kept(q) : q \in WPid}
  BY DEF Kept
<1> QED BY <1>1, <1>2 DEF HandlesAccounted, Elsewhere, StdHandles

\* Nothing that p, the program or nobody has is open elsewhere.
LEMMA ElsewhereIs ==
  ASSUME WInv, NEW p \in WPid
  PROVE  Elsewhere(p) \cap (Made(p) \cup wapp \cup wlost) = {}
<1> SUFFICES ASSUME NEW h \in Elsewhere(p), h \in Made(p) \cup wapp \cup wlost PROVE FALSE
  OBVIOUS
<1>1. PICK q \in WPid : h \in Made(q)
  BY DEF WInv
<1>2. CASE h \in StdHandles \cup Given
  BY <1>1, <1>2, MadeIs DEF StdHandles
<1>3. CASE h \in UNION {Kept(r) : r \in WPid \ {p}}
  <2>1. PICK r \in WPid \ {p} : h \in Kept(r)
    BY <1>3
  <2>2. h \in Made(r) /\ h \notin wapp \cup wlost
    BY <2>1, KeptIs DEF WInv, OneOwner
  <2> QED BY <2>2, MadeIs
<1> QED BY <1>2, <1>3 DEF Elsewhere

\* A step that only concerns p.
LEMMA Stepped ==
  ASSUME WInv, NEW p \in WPid,
         wproc' \in [WPid -> W32Proc], \A q \in WPid \ {p} : wproc'[q] = wproc[q],
         wapp' \cup wlost' \subseteq wapp \cup wlost \cup Made(p), wapp' \cap wlost' = {},
         OneOwner(p)', handles' = Elsewhere(p) \cup wapp' \cup wlost' \cup Kept(p)'
  PROVE  WInv'
<1>1. \A q \in WPid \ {p} : Kept(q)' = Kept(q)
  BY DEF Kept, Held, ProcHeld
<1>2. Elsewhere(p)' = Elsewhere(p)
  <2>1. UNION {Kept(q)' : q \in WPid \ {p}} = UNION {Kept(q) : q \in WPid \ {p}}
    BY <1>1
  <2> QED BY <2>1 DEF Elsewhere, StdHandles
<1>3. HandlesAccounted'
  <2>1. UNION {Held(q)' \cup ProcHeld(q)' : q \in WPid}
        = Kept(p)' \cup UNION {Kept(q)' : q \in WPid \ {p}}
    BY DEF Kept
  <2>2. Elsewhere(p)' = {StdHandle(i) : i \in WStd} \cup Given \cup UNION {Kept(q)' : q \in WPid \ {p}}
    BY DEF Elsewhere, StdHandles
  <2> QED BY <1>2, <2>1, <2>2 DEF HandlesAccounted
<1>4. wapp' \cup wlost' \subseteq UNION {Made(q) : q \in WPid}
  BY DEF WInv
<1>5. ASSUME NEW q \in WPid \ {p} PROVE OneOwner(q)'
  <2>1. OneOwner(q) /\ wproc'[q] = wproc[q] /\ Kept(q)' = Kept(q) /\ Kept(q) \subseteq Made(q)
    BY <1>1, KeptIs DEF WInv
  <2>2. Made(q) \cap Made(p) = {}
    BY MadeIs
  <2>3. Made(q) \cap (wapp' \cup wlost') \subseteq Made(q) \cap (wapp \cup wlost)
    BY <2>2
  <2>4. Kept(q)' \cap (wapp' \cup wlost') = {}
    BY <2>1, <2>3 DEF OneOwner
  <2>5. (wproc[q].life = "none" => Unmade(q))'
    BY <2>1, <2>3 DEF OneOwner, Unmade
  <2> QED BY <2>1, <2>4, <2>5 DEF OneOwner
<1> QED BY <1>3, <1>4, <1>5 DEF WInv

\* A step that changes no owner.
LEMMA SameOwners ==
  ASSUME WInv, wproc' \in [WPid -> W32Proc], handles' = handles, wapp' = wapp, wlost' = wlost,
         \A q \in WPid : /\ wproc'[q].hd = wproc[q].hd /\ wproc'[q].hProcess = wproc[q].hProcess
                         /\ wproc'[q].life = "none" => wproc[q].life = "none"
  PROVE  WInv'
<1>1. \A q \in WPid : Held(q)' = Held(q) /\ ProcHeld(q)' = ProcHeld(q) /\ Kept(q)' = Kept(q)
  BY DEF Kept, Held, ProcHeld
<1>2. HandlesAccounted'
  <2>1. UNION {Held(q)' \cup ProcHeld(q)' : q \in WPid} = UNION {Held(q) \cup ProcHeld(q) : q \in WPid}
    BY <1>1
  <2> QED BY <2>1 DEF WInv, HandlesAccounted
<1>3. ASSUME NEW q \in WPid PROVE OneOwner(q)'
  BY <1>1 DEF WInv, OneOwner, Unmade
<1> QED BY <1>2, <1>3 DEF WInv

\* What is open, with the handles of p set apart.
LEMMA OpenNow ==
  ASSUME WInv, NEW p \in WPid
  PROVE  handles = Elsewhere(p) \cup wapp \cup wlost \cup Kept(p)
  BY AccountedFor DEF WInv

-----------------------------------------------------------------------------
\* A pipe that cannot be made leaves none behind.
LEMMA NoPipeAccounted ==
  ASSUME WInv, NEW p \in WPid, NEW flags \in WFlagSets, NEW i \in WStd, SpawnNoPipe(p, flags, i)
  PROVE  WInv'
<1> DEFINE s == Start(p, flags, i)
<1>1. s.open = handles \cup EndsOfChild(p, Pipes(flags, i)) \cup OwnEnds(p, Pipes(flags, i))
  BY DEF Start, EndsOfChild, OwnEnds
<1>2. \A j \in Pipes(flags, i) : s.child[j] = ChildEnd(p, j) /\ s.own[j] = OwnEnd(p, j)
  BY DEF Start, Pipes
<1> HIDE DEF s
<1>3. UNION {{s.child[j], s.own[j]} : j \in Pipes(flags, i)}
      = EndsOfChild(p, Pipes(flags, i)) \cup OwnEnds(p, Pipes(flags, i))
  BY <1>2 DEF EndsOfChild, OwnEnds
<1>4. EndsOfChild(p, Pipes(flags, i)) \cup OwnEnds(p, Pipes(flags, i)) \subseteq Made(p)
  BY MadeIs DEF EndsOfChild, OwnEnds, Pipes
<1>5. handles \cap Made(p) = {}
  BY Fresh DEF SpawnNoPipe
<1>6. handles' = s.open \ UNION {{s.child[j], s.own[j]} : j \in Pipes(flags, i)}
  BY DEF SpawnNoPipe, s
<1>7. handles' = handles
  BY <1>1, <1>3, <1>4, <1>5, <1>6
<1> QED BY <1>7, SameOwners DEF SpawnNoPipe, WInv

\* A spawn that fails closes what it has opened, and its caller's handles stay open.
LEMMA FailsAccounted ==
  ASSUME WInv, NEW p \in WPid, NEW flags \in WFlagSets, NEW act \in WActs, SpawnFails(p, flags, act)
  PROVE  WInv'
<1> DEFINE s == Redirected(Start(p, flags, 3), p, flags, act)
           K == Piped(flags, act)
           Z == Nulled(flags, act)
<1>1. handles \cap (Made(p) \cup {Invalid}) = {}
  BY Fresh DEF SpawnFails
<1>2. /\ s.open = handles \cup EndsOfChild(p, K) \cup OwnEnds(p, K) \cup Nuls(p, Z)
      /\ \A i \in WStd : s.own[i] = IF i \in K THEN OwnEnd(p, i) ELSE Invalid
      /\ Closable(s, flags, act) = EndsOfChild(p, K) \cup Nuls(p, Z)
  BY <1>1, RedirectedIs
<1>3. handles' = s.open \ (Closable(s, flags, act) \cup {s.own[i] : i \in Pipes(flags, 3)})
  BY DEF SpawnFails
<1>4. /\ K \subseteq Pipes(flags, 3) /\ K \subseteq WStd /\ Z \subseteq WStd
      /\ \A i : i \in Pipes(flags, 3) => i \in WStd
  BY PipesIs DEF Piped, Nulled
<1> HIDE DEF s, K, Z
<1>5. {s.own[i] : i \in Pipes(flags, 3)} \cup {Invalid} = OwnEnds(p, K) \cup {Invalid}
  BY <1>2, <1>4 DEF OwnEnds
<1>6. EndsOfChild(p, K) \cup OwnEnds(p, K) \cup Nuls(p, Z) \subseteq Made(p)
  BY <1>4, MadeIs DEF EndsOfChild, OwnEnds, Nuls
<1>7. Invalid \notin Made(p)
  BY MadeIs
<1>8. handles' = handles
  BY <1>1, <1>2, <1>3, <1>5, <1>6, <1>7
<1> QED BY <1>8, SameOwners DEF SpawnFails, WInv

\* A bad environment leaves what was opened to nobody.
LEMMA NoEnvironmentAccounted ==
  ASSUME WInv, NEW p \in WPid, NEW flags \in WFlagSets, NEW act \in WActs,
         SpawnNoEnvironment(p, flags, act)
  PROVE  WInv'
<1> DEFINE K == Piped(flags, act)
           Z == Nulled(flags, act)
           new == EndsOfChild(p, K) \cup OwnEnds(p, K) \cup Nuls(p, Z)
<1>1. handles \cap (Made(p) \cup {Invalid}) = {} /\ wproc[p].life = "none"
  BY Fresh DEF SpawnNoEnvironment
<1>2. handles' = handles \cup new
  BY <1>1, RedirectedIs DEF SpawnNoEnvironment
<1>3. K \subseteq WStd /\ Z \subseteq WStd
  BY DEF Piped, Nulled
<1>4. new \subseteq Made(p)
  BY <1>3, MadeIs DEF EndsOfChild, OwnEnds, Nuls
<1> HIDE DEF new
<1>5. wlost' = wlost \cup new /\ wapp' = wapp
  BY <1>1, <1>2, <1>4 DEF SpawnNoEnvironment
<1>6. wproc' = [wproc EXCEPT ![p].life = "released"]
  BY DEF SpawnNoEnvironment
<1>7. wproc' \in [WPid -> W32Proc] /\ \A q \in WPid \ {p} : wproc'[q] = wproc[q]
  BY <1>6 DEF WInv, W32Proc
<1>8. /\ wproc'[p].hd = wproc[p].hd /\ wproc'[p].hProcess = wproc[p].hProcess
      /\ wproc'[p].life = "released"
  BY <1>6 DEF WInv, W32Proc
<1>9. Kept(p)' = {} /\ Kept(p) = {} /\ Made(p) \cap (wapp \cup wlost) = {}
  <2>1. Kept(p) = {} /\ Made(p) \cap (wapp \cup wlost) = {}
    BY <1>1 DEF WInv, OneOwner, Unmade
  <2>2. Kept(p)' = Kept(p)
    BY <1>8 DEF Kept, Held, ProcHeld
  <2> QED BY <2>1, <2>2
<1>10. OneOwner(p)'
  BY <1>8, <1>9 DEF OneOwner, WInv
<1>11. wapp' \cap wlost' = {}
  BY <1>4, <1>5, <1>9 DEF WInv
<1>12. handles' = Elsewhere(p) \cup wapp' \cup wlost' \cup Kept(p)'
  BY <1>2, <1>5, <1>9, OpenNow
<1> QED BY <1>4, <1>5, <1>7, <1>10, <1>11, <1>12, Stepped

\* A spawn keeps the program's ends of the pipes and the process handle, or nothing.
LEMMA SpawnAccounted ==
  ASSUME WInv, NEW p \in WPid, NEW flags \in WFlagSets, NEW act \in WActs, NEW object \in BOOLEAN,
         Spawn(p, flags, act, object)
  PROVE  WInv'
<1> DEFINE s == Redirected(Start(p, flags, 3), p, flags, act)
           mine == {s.own[i] : i \in WStd} \ {Invalid}
           K == Piped(flags, act)
           Z == Nulled(flags, act)
           ends == EndsOfChild(p, K) \cup Nuls(p, Z)
           own == OwnEnds(p, K)
           made == [NoW32Proc EXCEPT !.life = "running", !.call = ~object,
                      !.detached = flags.detached, !.hProcess = TRUE, !.hd = s.own]
<1>1. handles \cap (Made(p) \cup {Invalid}) = {} /\ wproc[p].life = "none"
  BY Fresh DEF Spawn
<1>2. /\ s.open = handles \cup EndsOfChild(p, K) \cup OwnEnds(p, K) \cup Nuls(p, Z)
      /\ s.own \in [WStd -> {OwnEnd(p, i) : i \in WStd} \cup {Invalid}]
      /\ \A i \in WStd : s.own[i] = IF i \in K THEN OwnEnd(p, i) ELSE Invalid
      /\ Closable(s, flags, act) = EndsOfChild(p, K) \cup Nuls(p, Z)
  BY <1>1, RedirectedIs
<1>3. K \subseteq WStd /\ Z \subseteq WStd
  BY DEF Piped, Nulled
<1>4. wapp' = wapp /\ wlost' = wlost
  BY DEF Spawn
<1>5. \/ /\ handles' = s.open \ (Closable(s, flags, act) \cup mine)
         /\ wproc' = [wproc EXCEPT ![p].life = "released"]
      \/ /\ handles' = (s.open \ Closable(s, flags, act)) \cup {ProcHandle(p)}
         /\ wproc' = [wproc EXCEPT ![p] = made]
  BY DEF Spawn
<1> HIDE DEF s, K, Z
<1>6. ends \cup own \subseteq Made(p)
  BY <1>3, MadeIs DEF EndsOfChild, OwnEnds, Nuls
<1>7. Invalid \notin Made(p) /\ ProcHandle(p) \in Made(p)
  BY MadeIs
<1>8. mine = own
  <2>1. \A i \in K : OwnEnd(p, i) # Invalid
    BY <1>3, MadeIs
  <2> QED BY <1>2, <1>3, <2>1 DEF OwnEnds
<1>9. ends \cap own = {}
  BY EndsDiffer DEF EndsOfChild, OwnEnds, Nuls
<1>10. Kept(p) = {} /\ Made(p) \cap (wapp \cup wlost) = {}
  BY <1>1 DEF WInv, OneOwner, Unmade
<1>11. handles = Elsewhere(p) \cup wapp \cup wlost
  BY <1>10, OpenNow
<1>12. CASE /\ handles' = s.open \ (Closable(s, flags, act) \cup mine)
            /\ wproc' = [wproc EXCEPT ![p].life = "released"]
  <2>1. handles' = handles
    BY <1>1, <1>2, <1>6, <1>8, <1>12
  <2>2. wproc' \in [WPid -> W32Proc] /\ \A q \in WPid \ {p} : wproc'[q] = wproc[q]
    BY <1>12 DEF WInv, W32Proc
  <2>3. /\ wproc'[p].hd = wproc[p].hd /\ wproc'[p].hProcess = wproc[p].hProcess
        /\ wproc'[p].life = "released"
    BY <1>12 DEF WInv, W32Proc
  <2> QED BY <2>1, <2>2, <2>3, <1>4, SameOwners
<1>13. CASE /\ handles' = (s.open \ Closable(s, flags, act)) \cup {ProcHandle(p)}
            /\ wproc' = [wproc EXCEPT ![p] = made]
  <2>1. handles' = handles \cup own \cup {ProcHandle(p)}
    <3>1. handles \cap ends = {}
      BY <1>1, <1>6
    <3> HIDE DEF own
    <3> QED BY <1>2, <1>9, <1>13, <3>1 DEF own
  <2>3. flags.detached \in BOOLEAN
    BY WFlagsAssumption
  <2>4. s.own \in [WStd -> Handed]
    <3>1. \A i \in WStd : OwnEnd(p, i) \in Handed
      BY MadeIs DEF Handed
    <3>2. Invalid \in Handed
      BY DEF Handed
    <3> QED BY <1>2, <3>1, <3>2
  <2>5. made \in W32Proc
    BY <2>3, <2>4 DEF W32Proc, NoW32Proc
  <2>6. /\ made.life = "running" /\ made.hProcess = TRUE /\ made.hd = s.own
    BY DEF NoW32Proc
  <2> HIDE DEF made
  <2>7. wproc' \in [WPid -> W32Proc] /\ \A q \in WPid \ {p} : wproc'[q] = wproc[q]
    BY <2>5, <1>13 DEF WInv
  <2>8. wproc'[p] = made
    BY <1>13 DEF WInv
  <2>9. Held(p)' = own
    BY <2>6, <2>8, <1>8 DEF Held
  <2>10. Kept(p)' = own \cup {ProcHandle(p)}
    BY <2>6, <2>8, <2>9 DEF Kept, ProcHeld
  <2>11. Kept(p)' \cap (wapp' \cup wlost') = {}
    BY <2>10, <1>4, <1>6, <1>7, <1>10
  <2>12. OneOwner(p)'
    <3>1. \A i \in WStd : s.own[i] \in {Invalid, OwnEnd(p, i)}
      BY <1>2
    <3> QED BY <3>1, <2>6, <2>8, <2>11 DEF OneOwner
  <2>13. handles' = Elsewhere(p) \cup wapp' \cup wlost' \cup Kept(p)'
    BY <2>1, <2>10, <1>4, <1>11
  <2>14. wapp' \cap wlost' = {} /\ wapp' \cup wlost' \subseteq wapp \cup wlost \cup Made(p)
    BY <1>4 DEF WInv
  <2> QED BY <2>7, <2>12, <2>13, <2>14, Stepped
<1> QED BY <1>5, <1>12, <1>13

-----------------------------------------------------------------------------
\* What the type of a process gives a step.
LEMMA ProcSet ==
  ASSUME WInv, NEW p \in WPid, NEW r \in W32Proc, wproc' = [wproc EXCEPT ![p] = r]
  PROVE  /\ wproc' \in [WPid -> W32Proc] /\ wproc'[p] = r
         /\ \A q \in WPid \ {p} : wproc'[q] = wproc[q]
  BY DEF WInv

\* The process handle is none of the ends of pipes.
LEMMA HeldsDiffer ==
  ASSUME WInv, NEW p \in WPid
  PROVE  Held(p) \cap ProcHeld(p) = {}
<1>1. \A h \in Held(p) : h # Invalid /\ \E i \in WStd : h = wproc[p].hd[i]
  BY DEF Held
<1>2. \A i \in WStd : wproc[p].hd[i] \in {Invalid, OwnEnd(p, i)}
  BY DEF WInv, OneOwner
<1>3. \A h \in Held(p) : h # ProcHandle(p)
  BY <1>1, <1>2, EndsDiffer
<1>4. ProcHeld(p) \subseteq {ProcHandle(p)}
  BY DEF ProcHeld
<1> QED BY <1>3, <1>4

\* The end of a child moves no handle.
LEMMA ChildExitsAccounted ==
  ASSUME WInv, NEW p \in WPid, W32ChildExits(p)
  PROVE  WInv'
<1>1. wproc' = [wproc EXCEPT ![p].life = "ended"] /\ wproc[p].life = "running"
  BY DEF W32ChildExits
<1>2. wproc' \in [WPid -> W32Proc]
  BY <1>1 DEF WInv, W32Proc
<1>3. \A q \in WPid : /\ wproc'[q].hd = wproc[q].hd /\ wproc'[q].hProcess = wproc[q].hProcess
                      /\ wproc'[q].life = "none" => wproc[q].life = "none"
  BY <1>1 DEF WInv, W32Proc
<1> QED BY <1>2, <1>3, SameOwners DEF W32ChildExits

\* Nor does waiting for one,
LEMMA WaitAccounted ==
  ASSUME WInv, NEW p \in WPid, W32Wait(p)
  PROVE  WInv'
<1>1. wproc' = [wproc EXCEPT ![p].terminated = TRUE]
  BY DEF W32Wait
<1>2. wproc' \in [WPid -> W32Proc]
  BY <1>1, ZenonT(60) DEF WInv, W32Proc
<1>3. \A q \in WPid : /\ wproc'[q].hd = wproc[q].hd /\ wproc'[q].hProcess = wproc[q].hProcess
                      /\ wproc'[q].life = "none" => wproc[q].life = "none"
  BY <1>1 DEF WInv, W32Proc
<1> QED BY <1>2, <1>3, SameOwners DEF W32Wait

\* or for several.
LEMMA WaitListAccounted ==
  ASSUME WInv, NEW list, W32WaitList(list)
  PROVE  WInv'
<1>1. /\ wproc' = [q \in WPid |-> wproc'[q]]
      /\ \A q \in WPid : wproc'[q] \in {wproc[q], [wproc[q] EXCEPT !.terminated = TRUE]}
  BY DEF W32WaitList
<1>2. \A q \in WPid : [wproc[q] EXCEPT !.terminated = TRUE] \in W32Proc
  BY DEF WInv, W32Proc
<1>3. wproc' \in [WPid -> W32Proc]
  BY <1>1, <1>2 DEF WInv
<1>4. \A q \in WPid : LET r == [wproc[q] EXCEPT !.terminated = TRUE]
                      IN r.hd = wproc[q].hd /\ r.hProcess = wproc[q].hProcess /\ r.life = wproc[q].life
  BY DEF WInv, W32Proc
<1>5. \A q \in WPid : /\ wproc'[q].hd = wproc[q].hd /\ wproc'[q].hProcess = wproc[q].hProcess
                      /\ wproc'[q].life = "none" => wproc[q].life = "none"
  BY <1>1, <1>4
<1> QED BY <1>3, <1>5, SameOwners DEF W32WaitList

\* The handles that the program takes are the program's from then on,
LEMMA TakeHandlesAccounted ==
  ASSUME WInv, NEW p \in WPid, W32TakeHandles(p)
  PROVE  WInv'
<1>1. /\ wproc' = [wproc EXCEPT ![p].hd = [i \in WStd |-> Invalid]]
      /\ wapp' = wapp \cup Held(p) /\ handles' = handles /\ wlost' = wlost
      /\ wproc[p].life # "none"
  BY DEF W32TakeHandles, IsW32Object
<1>2. wproc' \in [WPid -> W32Proc] /\ \A q \in WPid \ {p} : wproc'[q] = wproc[q]
  <2>1. Invalid \in Handed
    BY DEF Handed
  <2> QED BY <1>1, <2>1 DEF WInv, W32Proc
<1>3. /\ wproc'[p].hd = [i \in WStd |-> Invalid] /\ wproc'[p].hProcess = wproc[p].hProcess
      /\ wproc'[p].life = wproc[p].life
  BY <1>1 DEF WInv, W32Proc
<1>4. Kept(p) \subseteq Made(p) /\ Kept(p) \cap (wapp \cup wlost) = {}
  BY KeptIs DEF WInv, OneOwner
<1>5. Kept(p)' = ProcHeld(p)
  BY <1>3 DEF Kept, Held, ProcHeld
<1>6. Held(p) \cap ProcHeld(p) = {}
  BY HeldsDiffer
<1>7. OneOwner(p)'
  <2>1. \A i \in WStd : wproc'[p].hd[i] = Invalid
    BY <1>3
  <2>2. Kept(p)' \cap (wapp' \cup wlost') = {}
    BY <1>1, <1>4, <1>5, <1>6 DEF Kept
  <2> QED BY <1>1, <1>3, <2>1, <2>2 DEF OneOwner
<1>8. handles' = Elsewhere(p) \cup wapp' \cup wlost' \cup Kept(p)'
  BY <1>1, <1>5, OpenNow DEF Kept
<1>9. wapp' \cap wlost' = {} /\ wapp' \cup wlost' \subseteq wapp \cup wlost \cup Made(p)
  BY <1>1, <1>4 DEF WInv, Kept
<1> QED BY <1>2, <1>7, <1>8, <1>9, Stepped

\* and so is the process handle.
LEMMA TakeProcessAccounted ==
  ASSUME WInv, NEW p \in WPid, W32TakeProcess(p)
  PROVE  WInv'
<1>1. /\ wproc' = [wproc EXCEPT ![p].hProcess = FALSE]
      /\ wapp' = wapp \cup {ProcHandle(p)} /\ handles' = handles /\ wlost' = wlost
      /\ wproc[p].life # "none" /\ wproc[p].hProcess
  BY DEF W32TakeProcess, IsW32Object
<1>2. wproc' \in [WPid -> W32Proc] /\ \A q \in WPid \ {p} : wproc'[q] = wproc[q]
  BY <1>1, ZenonT(60) DEF WInv, W32Proc
<1>3. /\ wproc'[p].hd = wproc[p].hd /\ wproc'[p].hProcess = FALSE
      /\ wproc'[p].life = wproc[p].life
  BY <1>1 DEF WInv, W32Proc
<1>4. Kept(p) \subseteq Made(p) /\ Kept(p) \cap (wapp \cup wlost) = {}
  BY KeptIs DEF WInv, OneOwner
<1>5. Kept(p)' = Held(p) /\ ProcHeld(p) = {ProcHandle(p)}
  BY <1>1, <1>3 DEF Kept, Held, ProcHeld
<1>6. Held(p) \cap ProcHeld(p) = {}
  BY HeldsDiffer
<1>7. OneOwner(p)'
  <2>1. Kept(p)' \cap (wapp' \cup wlost') = {}
    BY <1>1, <1>4, <1>5, <1>6 DEF Kept
  <2> QED BY <1>1, <1>3, <2>1 DEF OneOwner, WInv
<1>8. handles' = Elsewhere(p) \cup wapp' \cup wlost' \cup Kept(p)'
  BY <1>1, <1>5, OpenNow DEF Kept
<1>9. wapp' \cap wlost' = {} /\ wapp' \cup wlost' \subseteq wapp \cup wlost \cup Made(p)
  BY <1>1, <1>4, <1>5 DEF WInv, Kept
<1> QED BY <1>2, <1>7, <1>8, <1>9, Stepped

\* An object that is freed closes all that it still has.
LEMMA FreedAccounted ==
  ASSUME WInv, NEW p \in WPid, wproc[p].life # "none", W32Freed(p)
  PROVE  WInv'
<1> DEFINE r == [NoW32Proc EXCEPT !.life = "released"]
<1>1. wproc' = [wproc EXCEPT ![p] = r] /\ handles' = handles \ Kept(p) /\ wapp' = wapp /\ wlost' = wlost
  BY DEF W32Freed, Kept
<1>2. r \in W32Proc /\ r.life = "released" /\ r.hProcess = FALSE /\ r.hd = [i \in WStd |-> Invalid]
  <2>1. Invalid \in Handed
    BY DEF Handed
  <2> QED BY <2>1 DEF W32Proc, NoW32Proc
<1> HIDE DEF r
<1>3. /\ wproc' \in [WPid -> W32Proc] /\ wproc'[p] = r
      /\ \A q \in WPid \ {p} : wproc'[q] = wproc[q]
  BY <1>1, <1>2, ProcSet
<1>4. Kept(p)' = {}
  BY <1>2, <1>3 DEF Kept, Held, ProcHeld
<1>5. OneOwner(p)'
  <2>1. \A i \in WStd : wproc'[p].hd[i] = Invalid
    BY <1>2, <1>3
  <2> QED BY <1>2, <1>3, <1>4, <2>1 DEF OneOwner
<1>6. handles' = Elsewhere(p) \cup wapp' \cup wlost' \cup Kept(p)'
  <2>1. Kept(p) \subseteq Made(p) /\ Kept(p) \cap (wapp \cup wlost) = {}
    BY KeptIs DEF WInv, OneOwner
  <2>2. Elsewhere(p) \cap Made(p) = {}
    BY ElsewhereIs
  <2> QED BY <1>1, <1>4, <2>1, <2>2, OpenNow
<1> QED BY <1>1, <1>3, <1>5, <1>6, Stepped DEF WInv

\* A release frees the object, or waits for its child.
LEMMA ReleaseAccounted ==
  ASSUME WInv, NEW p \in WPid, W32Release(p)
  PROVE  WInv'
<1>1. wproc[p].life # "none"
  BY DEF W32Release, IsW32Object
<1>2. CASE W32Freed(p)
  BY <1>1, <1>2, FreedAccounted
<1>3. CASE wproc' = [wproc EXCEPT ![p].call = TRUE] /\ UNCHANGED <<handles, wchild, wapp, wlost>>
  <2>1. wproc' \in [WPid -> W32Proc]
    BY <1>3, ZenonT(60) DEF WInv, W32Proc
  <2>2. \A q \in WPid : /\ wproc'[q].hd = wproc[q].hd /\ wproc'[q].hProcess = wproc[q].hProcess
                        /\ wproc'[q].life = "none" => wproc[q].life = "none"
    BY <1>3 DEF WInv, W32Proc
  <2> QED BY <1>3, <2>1, <2>2, SameOwners
<1> QED BY <1>2, <1>3 DEF W32Release

\* The program closes what it took, and nothing that anybody else has.
LEMMA AppCloseAccounted ==
  ASSUME WInv, NEW h \in wapp, W32AppClose(h)
  PROVE  WInv'
<1>1. handles' = handles \ {h} /\ wapp' = wapp \ {h} /\ wproc' = wproc /\ wlost' = wlost
  BY DEF W32AppClose
<1>2. PICK p \in WPid : h \in Made(p)
  BY DEF WInv
<1>3. Kept(p)' = Kept(p)
  BY <1>1 DEF Kept, Held, ProcHeld
<1>4. OneOwner(p)'
  BY <1>1, <1>3 DEF WInv, OneOwner, Unmade
<1>5. handles' = Elsewhere(p) \cup wapp' \cup wlost' \cup Kept(p)'
  BY <1>1, <1>3, OpenNow, ElsewhereIs DEF WInv, OneOwner
<1> QED BY <1>1, <1>4, <1>5, Stepped DEF WInv

\* Every step keeps the accounts.
LEMMA W32NextAccounted == WInv /\ [W32Next]_w32Vars => WInv'
<1> SUFFICES ASSUME WInv, [W32Next]_w32Vars PROVE WInv'
  OBVIOUS
<1>1. CASE \E p \in WPid, flags \in WFlagSets, act \in WActs :
             \/ \E i \in WStd : SpawnNoPipe(p, flags, i)
             \/ SpawnFails(p, flags, act) \/ SpawnNoEnvironment(p, flags, act)
             \/ \E object \in BOOLEAN : Spawn(p, flags, act, object)
  BY <1>1, NoPipeAccounted, FailsAccounted, NoEnvironmentAccounted, SpawnAccounted
<1>2. CASE \E p \in WPid : \/ W32ChildExits(p) \/ W32Wait(p) \/ W32TakeHandles(p)
                           \/ W32TakeProcess(p) \/ W32Release(p) \/ W32CallReturns(p)
  <2>1. \A p \in WPid : W32CallReturns(p) => wproc[p].life # "none" /\ W32Freed(p)
    BY DEF W32CallReturns
  <2> QED BY <1>2, <2>1, ChildExitsAccounted, WaitAccounted, TakeHandlesAccounted,
             TakeProcessAccounted, ReleaseAccounted, FreedAccounted
<1>3. CASE \E p, q \in WPid : W32WaitList(<<p, q>>)
  BY <1>3, WaitListAccounted
<1>4. CASE \E h \in wapp : W32AppClose(h)
  BY <1>4, AppCloseAccounted
<1>5. CASE UNCHANGED w32Vars
  BY <1>5, SameOwners DEF w32Vars, WInv
<1> QED BY <1>1, <1>2, <1>3, <1>4, <1>5 DEF W32Next

\* At the start the standard handles and those of the program are open.
LEMMA W32InitAccounted == W32Init => WInv
<1> SUFFICES ASSUME W32Init PROVE WInv
  OBVIOUS
<1>1. wproc = [p \in WPid |-> NoW32Proc] /\ wapp = {} /\ wlost = {}
      /\ handles = {StdHandle(i) : i \in WStd} \cup Given
  BY DEF W32Init
<1>2. NoW32Proc \in W32Proc
  <2>1. Invalid \in Handed
    BY DEF Handed
  <2> QED BY <2>1 DEF NoW32Proc, W32Proc
<1>3. \A p \in WPid : wproc[p].hd = [i \in WStd |-> Invalid] /\ wproc[p].hProcess = FALSE
  BY <1>1 DEF NoW32Proc
<1>4. \A p \in WPid : Held(p) = {} /\ ProcHeld(p) = {}
  BY <1>3 DEF Held, ProcHeld
<1>5. \A p \in WPid : OneOwner(p)
  BY <1>1, <1>3, <1>4 DEF OneOwner, Unmade, Kept
<1>6. HandlesAccounted
  <2>1. UNION {Held(p) \cup ProcHeld(p) : p \in WPid} = {}
    BY <1>4
  <2> QED BY <1>1, <2>1 DEF HandlesAccounted
<1> QED BY <1>1, <1>2, <1>5, <1>6 DEF WInv

\* Whatever spawns, waits and releases there were, in any order: a handle is open
\* on Windows if and only if somebody still has it, or a spawn with a bad
\* environment left it behind (gpgrt_process_spawn, gpgrt_process_release).
THEOREM W32HandlesAccounted == W32Spec => []HandlesAccounted
<1>1. WInv => HandlesAccounted
  BY DEF WInv
<1> QED BY W32InitAccounted, W32NextAccounted, <1>1, PTL DEF W32Spec

-----------------------------------------------------------------------------
(***************************************************************************)
(* Processes on POSIX systems: the descriptors.                             *)
(***************************************************************************)
\* A set of numbers has a least one.
LEMMA Least ==
  ASSUME NEW T, T \subseteq Nat, T # {}
  PROVE  \E x \in T : \A y \in T : x <= y
<1> DEFINE R == OpToRel(<, Nat)
<1>1. PICK x \in T : \A y \in T : ~(<<y, x>> \in R)
  <2>1. IsWellFoundedOn(R, Nat)
    BY NatLessThanWellFounded
  <2> HIDE DEF R
  <2> QED BY <2>1, WFMin
<1>2. ASSUME NEW y \in T PROVE x <= y
  <2>1. ~(<<y, x>> \in OpToRel(<, Nat))
    BY <1>1
  <2>2. ~(y < x)
    BY <2>1 DEF OpToRel
  <2> QED BY <2>2
<1> QED BY <1>2

\* A table of descriptors, and the ones that are open.
Table(t) == t = [f \in Fd |-> t[f]]
OpenSet(t) == {f \in Fd : t[f] # Free}

\* The lowest of some descriptors is one of them.
LEMMA LowestIs ==
  ASSUME NEW S, S \subseteq Fd, S # {}
  PROVE  Lowest(S) \in S
<1>1. S \subseteq Nat
  BY ExtraIsOpen DEF Fd
<1>2. \E x \in S : \A y \in S : x <= y
  BY <1>1, Least
<1> QED BY <1>2 DEF Lowest

\* What numbers descriptors are.
LEMMA StdOpen == Std \subseteq Fd /\ ExtraFd \in Fd /\ -1 \notin Fd /\ Fd \subseteq Int
  BY ExtraIsOpen DEF Fd, Std

\* The two descriptors of a pipe were free, and are different.
LEMMA PairIs ==
  ASSUME NEW t, CanPipe(t)
  PROVE  /\ DOMAIN Pair(t) = {1, 2}
         /\ Pair(t)[1] \in Fd \ OpenSet(t) /\ Pair(t)[2] \in Fd \ OpenSet(t)
         /\ Pair(t)[1] # Pair(t)[2]
<1> DEFINE F == FreeFds(t)
           a == Lowest(F)
           b == Lowest(F \ {a})
<1>1. F \subseteq Fd /\ F = Fd \ OpenSet(t)
  BY DEF FreeFds, OpenSet
<1>2. IsFiniteSet(F) /\ Cardinality(F) \in Nat
  <2>1. IsFiniteSet(0..(MaxFd - 1))
    BY FS_Interval, ExtraIsOpen
  <2>2. F \in SUBSET (0..(MaxFd - 1))
    BY <1>1 DEF Fd
  <2>3. IsFiniteSet(F)
    BY <2>1, <2>2, FS_Subset
  <2> QED BY <2>3, FS_CardinalityType
<1>3. Cardinality(F) >= 2
  BY DEF CanPipe
<1> HIDE DEF F
<1>4. F # {}
  BY <1>2, <1>3, FS_EmptySet
<1>5. a \in F
  BY <1>1, <1>4, LowestIs
<1> HIDE DEF a
<1>6. F \ {a} # {}
  <2>1. IsFiniteSet(F \ {a}) /\ Cardinality(F \ {a}) = Cardinality(F) - 1
    BY <1>2, <1>5, FS_RemoveElement
  <2> QED BY <2>1, <1>2, <1>3, FS_EmptySet
<1>7. b \in F \ {a}
  BY <1>1, <1>6, LowestIs
<1>8. Pair(t) = <<a, b>>
  BY DEF Pair, F, a
<1> HIDE DEF b
<1> QED BY <1>1, <1>5, <1>7, <1>8

\* A pipe opens two descriptors.
LEMMA MakePipeIs ==
  ASSUME NEW t, Table(t), CanPipe(t), NEW r, NEW w, r # Free, w # Free
  PROVE  /\ Table(MakePipe(t, r, w))
         /\ OpenSet(MakePipe(t, r, w)) = OpenSet(t) \cup {Pair(t)[1], Pair(t)[2]}
         /\ MakePipe(t, r, w)[Pair(t)[1]] # Free /\ MakePipe(t, r, w)[Pair(t)[2]] # Free
<1> DEFINE a == Pair(t)[1]
           b == Pair(t)[2]
<1>1. a \in Fd /\ b \in Fd /\ a # b
  BY PairIs
<1> HIDE DEF a, b
<1>2. MakePipe(t, r, w) = [t EXCEPT ![a] = r, ![b] = w]
  BY DEF MakePipe, a, b
<1> QED BY <1>1, <1>2 DEF Table, OpenSet, a, b

\* A close closes one descriptor,
LEMMA CloseFdsIs ==
  ASSUME NEW t, Table(t), NEW fd
  PROVE  Table(CloseFds(t, fd)) /\ OpenSet(CloseFds(t, fd)) = OpenSet(t) \ {fd}
  BY DEF Table, OpenSet, CloseFds

\* or none, if it is a standard one.
LEMMA CloseUnlessIs ==
  ASSUME NEW t, Table(t), NEW fd, NEW std
  PROVE  Table(CloseUnless(t, fd, std)) /\ OpenSet(CloseUnless(t, fd, std)) = OpenSet(t) \ ({fd} \ {std})
  BY CloseFdsIs DEF CloseUnless

\* A file that is opened gets a free descriptor.
LEMMA OpenFdsIs ==
  ASSUME NEW t, Table(t), FreeFds(t) # {}, NEW file, file # Free
  PROVE  /\ Lowest(FreeFds(t)) \in Fd \ OpenSet(t)
         /\ Table(OpenFds(t, file)) /\ OpenSet(OpenFds(t, file)) = OpenSet(t) \cup {Lowest(FreeFds(t))}
<1> DEFINE a == Lowest(FreeFds(t))
<1>1. a \in FreeFds(t)
  BY LowestIs DEF FreeFds
<1>2. a \in Fd \ OpenSet(t)
  BY <1>1 DEF FreeFds, OpenSet
<1>3. OpenFds(t, file) = [t EXCEPT ![a] = file]
  BY DEF OpenFds
<1> HIDE DEF a
<1> QED BY <1>2, <1>3 DEF Table, OpenSet, a

-----------------------------------------------------------------------------
(***************************************************************************)
(* gpgrt_process_spawn in the parent: the descriptors that it opens are     *)
(* those of its three pairs, and an error closes them all.                  *)
(***************************************************************************)
New == Fd \ OpenSet(tab)

SpawnRec(s) ==
  DOMAIN s = {"t", "in", "out", "err", "ok"} /\ DOMAIN s.out = {1, 2}

\* The table t has the program's descriptors and those of the pairs.
Holds(t, a, b, c, d, e, f) ==
  /\ Table(t)
  /\ a \in New \cup {-1, 0} /\ b \in New \cup {-1}
  /\ c \in New \cup {-1} /\ d \in New \cup {-1, 1}
  /\ e \in New \cup {-1} /\ f \in New \cup {-1, 2}
  /\ a \in New => a \notin {b, c, d, e, f}
  /\ b \in New => b \notin {c, d, e, f}
  /\ c \in New => c \notin {d, e, f}
  /\ d \in New => d \notin {e, f}
  /\ e \in New => e # f
  /\ OpenSet(t) = OpenSet(tab) \cup ({a, b, c, d, e, f} \cap New)

HoldsFds(s) == SpawnRec(s) /\ Holds(s.t, s.in[1], s.in[2], s.out[1], s.out[2], s.err[1], s.err[2])
Ready(s) == s.ok = TRUE /\ HoldsFds(s)
Undone(s) == s.ok = FALSE /\ Table(s.t) /\ OpenSet(s.t) = OpenSet(tab)

\* The descriptors that were not open before are none of the standard ones.
LEMMA NewIs ==
  ASSUME Std \subseteq OpenSet(tab)
  PROVE  -1 \notin New /\ 0 \notin New /\ 1 \notin New /\ 2 \notin New /\ New \subseteq Fd
         /\ New \cap OpenSet(tab) = {} /\ -1 \notin OpenSet(tab)
  BY StdOpen DEF New, Std, OpenSet

\* The first of the pairs is closed,
LEMMA CloseInIs ==
  ASSUME NEW s, SpawnRec(s), Table(s.t), Std \subseteq OpenSet(tab),
         s.in[1] \in New \cup {-1, 0}, s.in[2] \in New \cup {-1}
  PROVE  /\ SpawnRec(CloseIn(s)) /\ Table(CloseIn(s).t) /\ CloseIn(s).ok = s.ok
         /\ CloseIn(s).in = s.in /\ CloseIn(s).out = s.out /\ CloseIn(s).err = s.err
         /\ OpenSet(CloseIn(s).t) = OpenSet(s.t) \ ({s.in[1], s.in[2]} \cap New)
<1> DEFINE t1 == CloseUnless(s.t, s.in[1], 0)
           t2 == CloseFds(t1, s.in[2])
<1>1. Table(t1) /\ OpenSet(t1) = OpenSet(s.t) \ ({s.in[1]} \ {0})
  BY CloseUnlessIs
<1> HIDE DEF t1
<1>2. Table(t2) /\ OpenSet(t2) = OpenSet(t1) \ {s.in[2]}
  BY <1>1, CloseFdsIs
<1>3. CloseIn(s) = [s EXCEPT !.t = t2]
  BY DEF CloseIn, t1, t2
<1> HIDE DEF t2
<1>4. OpenSet(t2) = OpenSet(s.t) \ ({s.in[1], s.in[2]} \cap New)
  <2>1. -1 \notin OpenSet(s.t)
    BY StdOpen DEF OpenSet
  <2> QED BY <1>1, <1>2, <2>1, NewIs
<1> QED BY <1>2, <1>3, <1>4 DEF SpawnRec

\* the second,
LEMMA CloseOutIs ==
  ASSUME NEW s, SpawnRec(s), Table(s.t), Std \subseteq OpenSet(tab),
         s.out[1] \in New \cup {-1}, s.out[2] \in New \cup {-1, 1}
  PROVE  /\ SpawnRec(CloseOut(s)) /\ Table(CloseOut(s).t) /\ CloseOut(s).ok = s.ok
         /\ CloseOut(s).in = s.in /\ CloseOut(s).out = s.out /\ CloseOut(s).err = s.err
         /\ OpenSet(CloseOut(s).t) = OpenSet(s.t) \ ({s.out[1], s.out[2]} \cap New)
<1> DEFINE t1 == CloseFds(s.t, s.out[1])
           t2 == CloseUnless(t1, s.out[2], 1)
<1>1. Table(t1) /\ OpenSet(t1) = OpenSet(s.t) \ {s.out[1]}
  BY CloseFdsIs
<1> HIDE DEF t1
<1>2. Table(t2) /\ OpenSet(t2) = OpenSet(t1) \ ({s.out[2]} \ {1})
  BY <1>1, CloseUnlessIs
<1>3. CloseOut(s) = [s EXCEPT !.t = t2]
  BY DEF CloseOut, t1, t2
<1> HIDE DEF t2
<1>4. OpenSet(t2) = OpenSet(s.t) \ ({s.out[1], s.out[2]} \cap New)
  <2>1. -1 \notin OpenSet(s.t)
    BY StdOpen DEF OpenSet
  <2> QED BY <1>1, <1>2, <2>1, NewIs
<1> QED BY <1>2, <1>3, <1>4 DEF SpawnRec

\* the third.
LEMMA CloseErrIs ==
  ASSUME NEW s, SpawnRec(s), Table(s.t), Std \subseteq OpenSet(tab),
         s.err[1] \in New \cup {-1}, s.err[2] \in New \cup {-1, 2}
  PROVE  /\ SpawnRec(CloseErr(s)) /\ Table(CloseErr(s).t) /\ CloseErr(s).ok = s.ok
         /\ CloseErr(s).in = s.in /\ CloseErr(s).out = s.out /\ CloseErr(s).err = s.err
         /\ OpenSet(CloseErr(s).t) = OpenSet(s.t) \ ({s.err[1], s.err[2]} \cap New)
<1> DEFINE t1 == CloseFds(s.t, s.err[1])
           t2 == CloseUnless(t1, s.err[2], 2)
<1>1. Table(t1) /\ OpenSet(t1) = OpenSet(s.t) \ {s.err[1]}
  BY CloseFdsIs
<1> HIDE DEF t1
<1>2. Table(t2) /\ OpenSet(t2) = OpenSet(t1) \ ({s.err[2]} \ {2})
  BY <1>1, CloseUnlessIs
<1>3. CloseErr(s) = [s EXCEPT !.t = t2]
  BY DEF CloseErr, t1, t2
<1> HIDE DEF t2
<1>4. OpenSet(t2) = OpenSet(s.t) \ ({s.err[1], s.err[2]} \cap New)
  <2>1. -1 \notin OpenSet(s.t)
    BY StdOpen DEF OpenSet
  <2> QED BY <1>1, <1>2, <2>1, NewIs
<1> QED BY <1>2, <1>3, <1>4 DEF SpawnRec

\* A pair for the first, the second or the third of the files.
LEMMA HoldsMore ==
  ASSUME Std \subseteq OpenSet(tab), NEW t, NEW a, NEW b, NEW c, NEW d, NEW e, NEW f,
         Holds(t, a, b, c, d, e, f), NEW t2, Table(t2),
         NEW x \in Fd \ OpenSet(t), NEW y \in Fd \ OpenSet(t), x # y,
         OpenSet(t2) = OpenSet(t) \cup {x, y}
  PROVE  /\ a = -1 /\ b = -1 => Holds(t2, x, y, c, d, e, f)
         /\ c = -1 /\ d = -1 => Holds(t2, a, b, x, y, e, f)
         /\ e = -1 /\ f = -1 => Holds(t2, a, b, c, d, x, y)
<1>1. x \in New /\ y \in New /\ x \notin {a, b, c, d, e, f} /\ y \notin {a, b, c, d, e, f}
  <2>1. OpenSet(tab) \subseteq OpenSet(t) /\ \A z \in {a, b, c, d, e, f} : z \in New => z \in OpenSet(t)
    BY DEF Holds
  <2>2. x \in New /\ y \in New
    BY <2>1 DEF New
  <2> QED BY <2>1, <2>2
<1>2. -1 \notin New
  BY NewIs
<1> QED BY <1>1, <1>2 DEF Holds

\* One descriptor more for the second file.
LEMMA HoldsOne ==
  ASSUME Std \subseteq OpenSet(tab), NEW t, NEW a, NEW b, NEW c, NEW d, NEW e, NEW f,
         Holds(t, a, b, c, d, e, f), NEW t2, Table(t2),
         NEW x \in Fd \ OpenSet(t), OpenSet(t2) = OpenSet(t) \cup {x}
  PROVE  /\ c = -1 => Holds(t2, a, b, x, d, e, f)
         /\ d = -1 => Holds(t2, a, b, c, x, e, f)
<1>1. x \in New /\ x \notin {a, b, c, d, e, f}
  <2>1. OpenSet(tab) \subseteq OpenSet(t) /\ \A z \in {a, b, c, d, e, f} : z \in New => z \in OpenSet(t)
    BY DEF Holds
  <2>2. x \in New
    BY <2>1 DEF New
  <2> QED BY <2>1, <2>2
<1>2. -1 \notin New
  BY NewIs
<1> QED BY <1>1, <1>2 DEF Holds

-----------------------------------------------------------------------------
\* A file is not the mark of a descriptor that is free.
LEMMA FilesAreFiles ==
  ASSUME NEW p \in Pid
  PROVE  \A stream \in {"in", "out", "err", "sock"}, end \in {"r", "w", "a", "b"} :
           OpenFile(p, stream, end) # Free
  BY FreeIsNoFile DEF OpenFile

\* A duplicate is one descriptor more, or none.
LEMMA DupIs ==
  ASSUME Std \subseteq OpenSet(tab), NEW s, Ready(s), NEW i \in {1, 2}, s.out[i] = -1,
         NEW fd \in OpenSet(s.t), NEW fails \in BOOLEAN
  PROVE  /\ Ready(Dup(s, i, fd, fails)) /\ Dup(s, i, fd, fails).err = s.err
         /\ Dup(s, i, fd, fails).in = s.in
         /\ i = 1 => Dup(s, i, fd, fails).out[2] = s.out[2]
         /\ OpenSet(s.t) \subseteq OpenSet(Dup(s, i, fd, fails).t)
<1>1. CASE fails \/ FreeFds(s.t) = {}
  BY <1>1 DEF Dup
<1>2. CASE ~(fails \/ FreeFds(s.t) = {})
  <2> DEFINE x == Lowest(FreeFds(s.t))
             t2 == OpenFds(s.t, s.t[fd])
             d == [s EXCEPT !.out[i] = x, !.t = t2]
  <2>1. s.t[fd] # Free /\ Table(s.t)
    BY DEF OpenSet, Ready, HoldsFds, Holds
  <2>2. x \in Fd \ OpenSet(s.t) /\ Table(t2) /\ OpenSet(t2) = OpenSet(s.t) \cup {x}
    BY <1>2, <2>1, OpenFdsIs
  <2>3. Dup(s, i, fd, fails) = d
    BY <1>2 DEF Dup
  <2> HIDE DEF x, t2
  <2>4. Holds(s.t, s.in[1], s.in[2], s.out[1], s.out[2], s.err[1], s.err[2])
    BY DEF Ready, HoldsFds
  <2>5. /\ i = 1 => Holds(t2, s.in[1], s.in[2], x, s.out[2], s.err[1], s.err[2])
        /\ i = 2 => Holds(t2, s.in[1], s.in[2], s.out[1], x, s.err[1], s.err[2])
    BY <2>2, <2>4, HoldsOne
  <2>6. /\ SpawnRec(d) /\ d.ok = s.ok /\ d.in = s.in /\ d.err = s.err /\ d.t = t2
        /\ d.out[i] = x /\ d.out[3 - i] = s.out[3 - i]
    BY DEF Ready, HoldsFds, SpawnRec
  <2> HIDE DEF d
  <2>7. HoldsFds(d)
    <3>1. CASE i = 1
      <4>1. d.out[1] = x /\ d.out[2] = s.out[2]
        BY <2>6, <3>1
      <4> QED BY <4>1, <2>5, <2>6, <3>1 DEF HoldsFds
    <3>2. CASE i = 2
      <4>1. d.out[1] = s.out[1] /\ d.out[2] = x
        BY <2>6, <3>2
      <4> QED BY <4>1, <2>5, <2>6, <3>2 DEF HoldsFds
    <3> QED BY <3>1, <3>2
  <2> QED BY <2>2, <2>3, <2>6, <2>7 DEF Ready
<1> QED BY <1>1, <1>2

\* The pair of sockets and the duplicates of its descriptors.
LEMMA PrepareSocketsIs ==
  ASSUME Std \subseteq OpenSet(tab), NEW s, Ready(s), s.in = NoPair, s.out = NoPair,
         s.err = NoPair, NEW p \in Pid, NEW fail
  PROVE  LET q == PrepareSockets(s, p, fail)
         IN  q.err = NoPair /\ (Ready(q) \/ (HoldsFds(s) /\ q = SpawnFailed(s)))
<1>1. CASE fail = "in" \/ ~CanPipe(s.t)
  BY <1>1 DEF PrepareSockets, SpawnFailed, Ready, HoldsFds, SpawnRec
<1>2. CASE ~(fail = "in" \/ ~CanPipe(s.t))
  <2> DEFINE t2 == MakePipe(s.t, OpenFile(p, "sock", "a"), OpenFile(p, "sock", "b"))
             q == [s EXCEPT !.in = Pair(s.t), !.t = t2]
             d == Dup(q, 1, q.in[1], fail = "dup")
             e == Dup(d, 2, q.in[2], fail = "dup")
  <2>1. Holds(s.t, -1, -1, -1, -1, -1, -1) /\ Table(s.t) /\ SpawnRec(s) /\ s.ok = TRUE
    BY DEF Ready, HoldsFds, NoPair, Holds
  <2>2. /\ Table(t2) /\ OpenSet(t2) = OpenSet(s.t) \cup {Pair(s.t)[1], Pair(s.t)[2]}
        /\ DOMAIN Pair(s.t) = {1, 2}
        /\ Pair(s.t)[1] \in Fd \ OpenSet(s.t) /\ Pair(s.t)[2] \in Fd \ OpenSet(s.t)
        /\ Pair(s.t)[1] # Pair(s.t)[2]
    <3>1. CanPipe(s.t)
      BY <1>2 DEF CanPipe
    <3>2. OpenFile(p, "sock", "a") # Free /\ OpenFile(p, "sock", "b") # Free
      BY FilesAreFiles
    <3>3. Table(s.t)
      BY <2>1
    <3> QED BY <3>1, <3>2, <3>3, PairIs, MakePipeIs
  <2> HIDE DEF t2
  <2>3. Holds(t2, Pair(s.t)[1], Pair(s.t)[2], -1, -1, -1, -1)
    BY <2>1, <2>2, HoldsMore
  <2>4. /\ SpawnRec(q) /\ q.ok = TRUE /\ q.in = Pair(s.t) /\ q.out = s.out /\ q.err = s.err /\ q.t = t2
    BY <2>1, <2>2 DEF SpawnRec
  <2>5. PrepareSockets(s, p, fail) = e
    BY <1>2 DEF PrepareSockets, t2
  <2> HIDE DEF q
  <2>6. q.out[1] = -1 /\ q.out[2] = -1 /\ q.err[1] = -1 /\ q.err[2] = -1
    BY <2>4 DEF NoPair
  <2>8. Holds(q.t, q.in[1], q.in[2], q.out[1], q.out[2], q.err[1], q.err[2])
    BY <2>3, <2>4, <2>6, Zenon
  <2>7. Ready(q)
    BY <2>4, <2>8 DEF Ready, HoldsFds
  <2>11. q.in[1] \in OpenSet(q.t) /\ q.in[2] \in OpenSet(q.t)
    BY <2>2, <2>4
  <2>9. Ready(d) /\ d.err = q.err /\ d.out[2] = -1 /\ q.in[2] \in OpenSet(d.t)
    BY <2>6, <2>7, <2>11, DupIs
  <2> HIDE DEF d
  <2>10. Ready(e) /\ e.err = d.err
    <3>1. (fail = "dup") \in BOOLEAN /\ 2 \in {1, 2}
      OBVIOUS
    <3> DEFINE k == q.in[2]
               m == fail = "dup"
    <3>2. k \in OpenSet(d.t) /\ m \in BOOLEAN
      BY <2>9
    <3> HIDE DEF k, m
    <3>3. Ready(Dup(d, 2, k, m)) /\ Dup(d, 2, k, m).err = d.err
      BY <2>9, <3>2, DupIs
    <3> QED BY <3>3, Zenon DEF k, m
  <2> QED BY <2>4, <2>5, <2>9, <2>10
<1> QED BY <1>1, <1>2

\* An error after everything was closed leaves all as it was.
LEMMA FailedUndone ==
  ASSUME NEW s, SpawnRec(s), Table(s.t), OpenSet(s.t) = OpenSet(tab)
  PROVE  Undone(SpawnFailed(s))
<1>1. SpawnFailed(s).ok = FALSE /\ SpawnFailed(s).t = s.t
  BY DEF SpawnFailed, SpawnRec
<1> QED BY <1>1 DEF Undone

\* The pipe for the input.
LEMMA PrepareInIs ==
  ASSUME Std \subseteq OpenSet(tab), NEW s, Ready(s), s.in = NoPair, s.out = NoPair,
         s.err = NoPair, NEW p \in Pid, NEW flags, NEW fail
  PROVE  LET q == PrepareIn(s, p, flags, fail)
         IN  q.out = NoPair /\ q.err = NoPair /\ (Ready(q) \/ (HoldsFds(s) /\ q = SpawnFailed(s)))
<1>0. Holds(s.t, -1, -1, -1, -1, -1, -1) /\ Table(s.t) /\ SpawnRec(s) /\ s.ok = TRUE /\ HoldsFds(s)
  BY DEF Ready, HoldsFds, NoPair, Holds
<1>1. CASE flags.std[0] # "pipe"
  <2> DEFINE k == flags.std[0] = "keep"
             q == [s EXCEPT !.in = IF k THEN <<0, -1>> ELSE NoPair]
  <2>1. PrepareIn(s, p, flags, fail) = q
    BY <1>1 DEF PrepareIn
  <2>2. SpawnRec(q) /\ q.ok = TRUE /\ q.t = s.t /\ q.out = s.out /\ q.err = s.err
        /\ q.in[1] \in {0, -1} /\ q.in[2] = -1
    BY <1>0 DEF SpawnRec, NoPair
  <2> HIDE DEF q
  <2>3. Holds(q.t, q.in[1], q.in[2], -1, -1, -1, -1)
    BY <1>0, <2>2, NewIs DEF Holds
  <2>5. q.out[1] = -1 /\ q.out[2] = -1 /\ q.err[1] = -1 /\ q.err[2] = -1
    BY <2>2 DEF NoPair
  <2>6. Holds(q.t, q.in[1], q.in[2], q.out[1], q.out[2], q.err[1], q.err[2])
    BY <2>3, <2>5, Zenon
  <2>4. Ready(q)
    BY <2>2, <2>6 DEF Ready, HoldsFds
  <2> QED BY <2>1, <2>2, <2>4
<1>2. CASE flags.std[0] = "pipe" /\ (fail = "in" \/ ~CanPipe(s.t))
  <2>1. PrepareIn(s, p, flags, fail) = SpawnFailed(s)
    BY <1>2 DEF PrepareIn
  <2> QED BY <1>0, <2>1 DEF SpawnFailed, SpawnRec
<1>3. CASE flags.std[0] = "pipe" /\ ~(fail = "in" \/ ~CanPipe(s.t))
  <2> DEFINE t2 == MakePipe(s.t, OpenFile(p, "in", "r"), OpenFile(p, "in", "w"))
             q == [s EXCEPT !.in = Pair(s.t), !.t = t2]
  <2>2. /\ Table(t2) /\ OpenSet(t2) = OpenSet(s.t) \cup {Pair(s.t)[1], Pair(s.t)[2]}
        /\ DOMAIN Pair(s.t) = {1, 2}
        /\ Pair(s.t)[1] \in Fd \ OpenSet(s.t) /\ Pair(s.t)[2] \in Fd \ OpenSet(s.t)
        /\ Pair(s.t)[1] # Pair(s.t)[2]
    <3>1. CanPipe(s.t)
      BY <1>3 DEF CanPipe
    <3>2. OpenFile(p, "in", "r") # Free /\ OpenFile(p, "in", "w") # Free
      BY FilesAreFiles
    <3>3. Table(s.t)
      BY <1>0
    <3> QED BY <3>1, <3>2, <3>3, PairIs, MakePipeIs
  <2>5. PrepareIn(s, p, flags, fail) = q
    BY <1>3 DEF PrepareIn, t2
  <2> HIDE DEF t2
  <2>3. Holds(t2, Pair(s.t)[1], Pair(s.t)[2], -1, -1, -1, -1)
    BY <1>0, <2>2, HoldsMore
  <2>4. /\ SpawnRec(q) /\ q.ok = TRUE /\ q.in = Pair(s.t) /\ q.out = s.out /\ q.err = s.err /\ q.t = t2
    BY <1>0, <2>2 DEF SpawnRec
  <2> HIDE DEF q
  <2>6. q.out[1] = -1 /\ q.out[2] = -1 /\ q.err[1] = -1 /\ q.err[2] = -1
    BY <2>4 DEF NoPair
  <2>8. Holds(q.t, q.in[1], q.in[2], q.out[1], q.out[2], q.err[1], q.err[2])
    BY <2>3, <2>4, <2>6, Zenon
  <2>7. Ready(q)
    BY <2>4, <2>8 DEF Ready, HoldsFds
  <2> QED BY <2>4, <2>5, <2>7
<1> QED BY <1>1, <1>2, <1>3

\* The pipe for the output; an error closes that for the input.
LEMMA PrepareOutIs ==
  ASSUME Std \subseteq OpenSet(tab), NEW s, Ready(s), s.out = NoPair,
         s.err = NoPair, NEW p \in Pid, NEW flags, NEW fail
  PROVE  LET q == PrepareOut(s, p, flags, fail)
         IN  (q.err = NoPair /\ Ready(q)) \/ Undone(q)
<1>0. /\ Holds(s.t, s.in[1], s.in[2], -1, -1, -1, -1) /\ Table(s.t) /\ SpawnRec(s) /\ s.ok = TRUE
      /\ s.in[1] \in New \cup {-1, 0} /\ s.in[2] \in New \cup {-1}
  BY DEF Ready, HoldsFds, NoPair, Holds
<1>1. CASE flags.std[1] # "pipe"
  <2> DEFINE k == flags.std[1] = "keep"
             q == [s EXCEPT !.out = IF k THEN <<-1, 1>> ELSE NoPair]
  <2>1. PrepareOut(s, p, flags, fail) = q
    BY <1>1 DEF PrepareOut
  <2>2. SpawnRec(q) /\ q.ok = TRUE /\ q.t = s.t /\ q.in = s.in /\ q.err = s.err
        /\ q.out[2] \in {1, -1} /\ q.out[1] = -1
    BY <1>0 DEF SpawnRec, NoPair
  <2> HIDE DEF q
  <2>3. Holds(q.t, q.in[1], q.in[2], q.out[1], q.out[2], -1, -1)
    BY <1>0, <2>2, NewIs DEF Holds
  <2>4. Ready(q)
    BY <2>2, <2>3 DEF Ready, HoldsFds, NoPair
  <2> QED BY <2>1, <2>2, <2>4
<1>2. CASE flags.std[1] = "pipe" /\ (fail = "out" \/ ~CanPipe(s.t))
  <2> DEFINE c == CloseIn(s)
  <2>1. PrepareOut(s, p, flags, fail) = SpawnFailed(c)
    BY <1>2 DEF PrepareOut
  <2>2. SpawnRec(c) /\ Table(c.t) /\ OpenSet(c.t) = OpenSet(s.t) \ ({s.in[1], s.in[2]} \cap New)
    BY <1>0, CloseInIs
  <2> HIDE DEF c
  <2>3. OpenSet(c.t) = OpenSet(tab)
    BY <1>0, <2>2, NewIs DEF Holds
  <2> QED BY <2>1, <2>2, <2>3, FailedUndone
<1>3. CASE flags.std[1] = "pipe" /\ ~(fail = "out" \/ ~CanPipe(s.t))
  <2> DEFINE t2 == MakePipe(s.t, OpenFile(p, "out", "r"), OpenFile(p, "out", "w"))
             q == [s EXCEPT !.out = Pair(s.t), !.t = t2]
  <2>2. /\ Table(t2) /\ OpenSet(t2) = OpenSet(s.t) \cup {Pair(s.t)[1], Pair(s.t)[2]}
        /\ DOMAIN Pair(s.t) = {1, 2}
        /\ Pair(s.t)[1] \in Fd \ OpenSet(s.t) /\ Pair(s.t)[2] \in Fd \ OpenSet(s.t)
        /\ Pair(s.t)[1] # Pair(s.t)[2]
    <3>1. CanPipe(s.t)
      BY <1>3 DEF CanPipe
    <3>2. OpenFile(p, "out", "r") # Free /\ OpenFile(p, "out", "w") # Free
      BY FilesAreFiles
    <3>3. Table(s.t)
      BY <1>0
    <3> QED BY <3>1, <3>2, <3>3, PairIs, MakePipeIs
  <2>5. PrepareOut(s, p, flags, fail) = q
    BY <1>3 DEF PrepareOut, t2
  <2> HIDE DEF t2
  <2>3. Holds(t2, s.in[1], s.in[2], Pair(s.t)[1], Pair(s.t)[2], -1, -1)
    BY <1>0, <2>2, HoldsMore
  <2>4. /\ SpawnRec(q) /\ q.ok = TRUE /\ q.out = Pair(s.t) /\ q.in = s.in /\ q.err = s.err /\ q.t = t2
    BY <1>0, <2>2 DEF SpawnRec
  <2> HIDE DEF q
  <2>7. Ready(q)
    BY <2>3, <2>4 DEF Ready, HoldsFds, NoPair
  <2> QED BY <2>4, <2>5, <2>7
<1> QED BY <1>1, <1>2, <1>3

\* All three pairs are closed.
LEMMA AllClosed ==
  ASSUME Std \subseteq OpenSet(tab), NEW s, HoldsFds(s)
  PROVE  /\ s.err = NoPair => Undone(SpawnFailed(CloseOut(CloseIn(s))))
         /\ Undone(SpawnFailed(CloseErr(CloseOut(CloseIn(s)))))
<1> DEFINE c == CloseIn(s)
           d == CloseOut(c)
           e == CloseErr(d)
<1>1. /\ Holds(s.t, s.in[1], s.in[2], s.out[1], s.out[2], s.err[1], s.err[2]) /\ Table(s.t) /\ SpawnRec(s)
      /\ s.in[1] \in New \cup {-1, 0} /\ s.in[2] \in New \cup {-1}
      /\ s.out[1] \in New \cup {-1} /\ s.out[2] \in New \cup {-1, 1}
      /\ s.err[1] \in New \cup {-1} /\ s.err[2] \in New \cup {-1, 2}
  BY DEF HoldsFds, Holds
<1>2. /\ SpawnRec(c) /\ Table(c.t) /\ c.out = s.out /\ c.err = s.err
      /\ OpenSet(c.t) = OpenSet(s.t) \ ({s.in[1], s.in[2]} \cap New)
  BY <1>1, CloseInIs
<1> HIDE DEF c
<1>3. /\ SpawnRec(d) /\ Table(d.t) /\ d.err = s.err
      /\ OpenSet(d.t) = OpenSet(c.t) \ ({s.out[1], s.out[2]} \cap New)
  BY <1>1, <1>2, CloseOutIs
<1> HIDE DEF d
<1>4. /\ SpawnRec(e) /\ Table(e.t)
      /\ OpenSet(e.t) = OpenSet(d.t) \ ({s.err[1], s.err[2]} \cap New)
  BY <1>1, <1>3, CloseErrIs
<1> HIDE DEF e
<1>5. OpenSet(s.t) = OpenSet(tab) \cup ({s.in[1], s.in[2], s.out[1], s.out[2], s.err[1], s.err[2]} \cap New)
  BY <1>1 DEF Holds
<1>6. OpenSet(e.t) = OpenSet(tab)
  BY <1>2, <1>3, <1>4, <1>5, NewIs
<1>7. s.err = NoPair => OpenSet(d.t) = OpenSet(tab)
  <2>1. s.err = NoPair => s.err[1] \notin New /\ s.err[2] \notin New
    BY NewIs DEF NoPair
  <2> QED BY <1>2, <1>3, <1>5, <2>1, NewIs
<1>8. Undone(SpawnFailed(e))
  BY <1>4, <1>6, FailedUndone
<1>9. s.err = NoPair => Undone(SpawnFailed(d))
  BY <1>3, <1>7, FailedUndone
<1> QED BY <1>8, <1>9 DEF c, d, e

\* The pipe for the errors; an error closes the other two.
LEMMA PrepareErrIs ==
  ASSUME Std \subseteq OpenSet(tab), NEW s, Ready(s),
         s.err = NoPair, NEW p \in Pid, NEW flags, NEW fail
  PROVE  LET q == PrepareErr(s, p, flags, fail)
         IN  Ready(q) \/ Undone(q)
<1>0. /\ Holds(s.t, s.in[1], s.in[2], s.out[1], s.out[2], -1, -1) /\ Table(s.t) /\ SpawnRec(s)
      /\ s.ok = TRUE /\ HoldsFds(s)
  BY DEF Ready, HoldsFds, NoPair, Holds
<1>1. CASE flags.std[2] # "pipe"
  <2> DEFINE k == flags.std[2] = "keep"
             q == [s EXCEPT !.err = IF k THEN <<-1, 2>> ELSE NoPair]
  <2>1. PrepareErr(s, p, flags, fail) = q
    BY <1>1 DEF PrepareErr
  <2>2. SpawnRec(q) /\ q.ok = TRUE /\ q.t = s.t /\ q.in = s.in /\ q.out = s.out
        /\ q.err[2] \in {2, -1} /\ q.err[1] = -1
    BY <1>0 DEF SpawnRec, NoPair
  <2> HIDE DEF q
  <2>3. Holds(q.t, q.in[1], q.in[2], q.out[1], q.out[2], q.err[1], q.err[2])
    BY <1>0, <2>2, NewIs DEF Holds
  <2>4. Ready(q)
    BY <2>2, <2>3 DEF Ready, HoldsFds
  <2> QED BY <2>1, <2>4
<1>2. CASE flags.std[2] = "pipe" /\ (fail = "err" \/ ~CanPipe(s.t))
  <2>1. PrepareErr(s, p, flags, fail) = SpawnFailed(CloseOut(CloseIn(s)))
    BY <1>2 DEF PrepareErr
  <2> QED BY <1>0, <2>1, AllClosed
<1>3. CASE flags.std[2] = "pipe" /\ ~(fail = "err" \/ ~CanPipe(s.t))
  <2> DEFINE t2 == MakePipe(s.t, OpenFile(p, "err", "r"), OpenFile(p, "err", "w"))
             q == [s EXCEPT !.err = Pair(s.t), !.t = t2]
  <2>2. /\ Table(t2) /\ OpenSet(t2) = OpenSet(s.t) \cup {Pair(s.t)[1], Pair(s.t)[2]}
        /\ DOMAIN Pair(s.t) = {1, 2}
        /\ Pair(s.t)[1] \in Fd \ OpenSet(s.t) /\ Pair(s.t)[2] \in Fd \ OpenSet(s.t)
        /\ Pair(s.t)[1] # Pair(s.t)[2]
    <3>1. CanPipe(s.t)
      BY <1>3 DEF CanPipe
    <3>2. OpenFile(p, "err", "r") # Free /\ OpenFile(p, "err", "w") # Free
      BY FilesAreFiles
    <3>3. Table(s.t)
      BY <1>0
    <3> QED BY <3>1, <3>2, <3>3, PairIs, MakePipeIs
  <2>5. PrepareErr(s, p, flags, fail) = q
    BY <1>3 DEF PrepareErr, t2
  <2> HIDE DEF t2
  <2>3. Holds(t2, s.in[1], s.in[2], s.out[1], s.out[2], Pair(s.t)[1], Pair(s.t)[2])
    BY <1>0, <2>2, HoldsMore
  <2>4. /\ SpawnRec(q) /\ q.ok = TRUE /\ q.err = Pair(s.t) /\ q.in = s.in /\ q.out = s.out /\ q.t = t2
    BY <1>0, <2>2 DEF SpawnRec
  <2> HIDE DEF q
  <2>7. Ready(q)
    BY <2>3, <2>4 DEF Ready, HoldsFds
  <2> QED BY <2>5, <2>7
<1> QED BY <1>1, <1>2, <1>3

\* Before fork a call has its pairs, or all is as it was.
LEMMA PrepareIs ==
  ASSUME Std \subseteq OpenSet(tab), Table(tab), NEW p \in Pid, NEW flags, NEW fail
  PROVE  LET s == Prepare(p, flags, fail)
         IN  Ready(s) \/ Undone(s)
<1> DEFINE s0 == [t |-> tab, in |-> NoPair, out |-> NoPair, err |-> NoPair, ok |-> TRUE]
           s1 == IF flags.sock THEN PrepareSockets(s0, p, fail) ELSE PrepareIn(s0, p, flags, fail)
           s2 == IF flags.sock \/ ~s1.ok THEN s1 ELSE PrepareOut(s1, p, flags, fail)
           s3 == IF s2.ok THEN PrepareErr(s2, p, flags, fail) ELSE s2
<1>1. Ready(s0) /\ s0.in = NoPair /\ s0.out = NoPair /\ s0.err = NoPair
      /\ SpawnRec(s0) /\ Table(s0.t) /\ OpenSet(s0.t) = OpenSet(tab)
  BY NewIs DEF Ready, HoldsFds, SpawnRec, NoPair, Holds
<1>2. Prepare(p, flags, fail)
      = IF s3.ok /\ fail = "fork" THEN SpawnFailed(CloseErr(CloseOut(CloseIn(s3)))) ELSE s3
  BY DEF Prepare
<1> HIDE DEF s0
<1>3. Undone(SpawnFailed(s0))
  BY <1>1, FailedUndone
<1>4. (Ready(s1) \/ Undone(s1)) /\ (Ready(s1) => s1.err = NoPair /\ (~flags.sock => s1.out = NoPair))
  <2>1. CASE flags.sock
    BY <1>1, <1>3, <2>1, PrepareSocketsIs
  <2>2. CASE ~flags.sock
    BY <1>1, <1>3, <2>2, PrepareInIs
  <2> QED BY <2>1, <2>2
<1> HIDE DEF s1
<1>5. (Ready(s2) /\ s2.err = NoPair) \/ Undone(s2)
  <2>1. CASE flags.sock \/ ~s1.ok
    BY <1>4, <2>1 DEF Ready
  <2>2. CASE ~(flags.sock \/ ~s1.ok)
    BY <1>4, <2>2, PrepareOutIs DEF Undone
  <2> QED BY <2>1, <2>2
<1> HIDE DEF s2
<1>6. Ready(s3) \/ Undone(s3)
  BY <1>5, PrepareErrIs DEF Ready, Undone
<1> HIDE DEF s3
<1>7. Ready(s3) => Undone(SpawnFailed(CloseErr(CloseOut(CloseIn(s3)))))
  BY AllClosed DEF Ready
<1> QED BY <1>2, <1>6, <1>7 DEF Undone

-----------------------------------------------------------------------------
\* The descriptors a program starts with are none of those of its processes.
Base == Std \cup {ExtraFd}

ProcRec(r) ==
  /\ DOMAIN r = {"life", "terminated", "waited", "call", "fd", "request", "inherit"}
  /\ r.fd \in [Std -> Fd \cup {-1}]
  /\ r.terminated \in BOOLEAN

DistinctFds(r) == \A i, j \in Std : r.fd[i] = r.fd[j] /\ r.fd[i] # -1 => i = j
ReapedIs(r) ==
  /\ r.terminated <=> r.life = "reaped"
  /\ r.waited = IF r.life \in {"reaped", "released"} THEN 1 ELSE 0

\* Each descriptor has one owner: the program, a process object, or nobody.
OwnedOnce(p) ==
  /\ DistinctFds(proc[p])
  /\ Fds(p) \cap (Base \cup app \cup orphan) = {}
  /\ \A q \in Pid \ {p} : Fds(p) \cap Fds(q) = {}
  /\ proc[p].life = "none" => Fds(p) = {}

PInv ==
  /\ Table(tab)
  /\ DOMAIN proc = Pid /\ \A p \in Pid : ProcRec(proc[p]) /\ ReapedIs(proc[p]) /\ OwnedOnce(p)
  /\ app \subseteq Fd /\ orphan \subseteq Fd
  /\ app \cap (Base \cup orphan) = {} /\ orphan \cap Base = {}
  /\ OpenSet(tab) = Base \cup app \cup orphan \cup UNION {Fds(p) : p \in Pid}
  /\ stray \subseteq {"terminate"}

\* What is open besides the descriptors of p.
Others(p) == Base \cup UNION {Fds(q) : q \in Pid \ {p}}

\* The descriptors that are open, with those of p set apart.
LEMMA OpenFdsOf ==
  ASSUME PInv, NEW p \in Pid
  PROVE  /\ OpenSet(tab) = Others(p) \cup app \cup orphan \cup Fds(p)
         /\ Others(p) \cap (app \cup orphan \cup Fds(p)) = {}
         /\ Fds(p) \cap (app \cup orphan) = {} /\ app \cap orphan = {}
         /\ Std \subseteq OpenSet(tab)
<1>1. UNION {Fds(q) : q \in Pid} = Fds(p) \cup UNION {Fds(q) : q \in Pid \ {p}}
  OBVIOUS
<1>2. OpenSet(tab) = Others(p) \cup app \cup orphan \cup Fds(p)
  BY <1>1 DEF PInv, Others
<1>3. \A h \in Others(p) : h \in Base \/ \E q \in Pid \ {p} : h \in Fds(q)
  BY DEF Others
<1>4. Others(p) \cap (app \cup orphan \cup Fds(p)) = {}
  BY <1>3 DEF PInv, OwnedOnce
<1> QED BY <1>2, <1>4 DEF PInv, OwnedOnce, Others, Base

\* A step that only concerns p.
LEMMA PosixStepped ==
  ASSUME PInv, NEW p \in Pid, Table(tab'), DOMAIN proc' = Pid,
         \A q \in Pid \ {p} : proc'[q] = proc[q],
         ProcRec(proc'[p]), DistinctFds(proc'[p]), ReapedIs(proc'[p]),
         proc'[p].life = "none" => Fds(p)' = {},
         app' \cup orphan' \cup Fds(p)' \subseteq app \cup orphan \cup Fds(p) \cup New,
         app' \cap orphan' = {}, Fds(p)' \cap (app' \cup orphan') = {},
         OpenSet(tab') = Others(p) \cup app' \cup orphan' \cup Fds(p)',
         stray' \subseteq {"terminate"}
  PROVE  PInv'
<1>1. \A q \in Pid \ {p} : Fds(q)' = Fds(q)
  BY DEF Fds
<1>2. New \cap OpenSet(tab) = {} /\ New \subseteq Fd
  BY DEF New
<1>3. Others(p) \cap (app' \cup orphan' \cup Fds(p)') = {}
  BY <1>2, OpenFdsOf
<1>4. app' \subseteq Fd /\ orphan' \subseteq Fd
  <2>1. Fds(p) \subseteq Fd
    BY DEF PInv, ProcRec, Fds
  <2> QED BY <1>2, <2>1 DEF PInv
<1>5. Base \subseteq Others(p) /\ \A q \in Pid \ {p} : Fds(q) \subseteq Others(p)
  BY DEF Others
<1>6. app' \cap (Base \cup orphan') = {} /\ orphan' \cap Base = {}
  BY <1>3, <1>5
<1>7. Others(p) \cup Fds(p)' = Base \cup UNION {Fds(q)' : q \in Pid}
  <2>1. UNION {Fds(q)' : q \in Pid} = Fds(p)' \cup UNION {Fds(q) : q \in Pid \ {p}}
    BY <1>1
  <2> QED BY <2>1 DEF Others
<1>8. OpenSet(tab') = Base \cup app' \cup orphan' \cup UNION {Fds(q)' : q \in Pid}
  BY <1>7
<1>9. OwnedOnce(p)'
  <2>1. \A q \in Pid \ {p} : Fds(p)' \cap Fds(q)' = {}
    BY <1>1, <1>3, <1>5
  <2>2. Fds(p)' \cap (Base \cup app' \cup orphan') = {}
    BY <1>3, <1>5
  <2> QED BY <2>1, <2>2 DEF OwnedOnce, Base
<1>10. ASSUME NEW q \in Pid \ {p} PROVE ProcRec(proc'[q]) /\ ReapedIs(proc'[q]) /\ OwnedOnce(q)'
  <2>1. proc'[q] = proc[q] /\ Fds(q)' = Fds(q) /\ OwnedOnce(q) /\ ProcRec(proc[q]) /\ ReapedIs(proc[q])
    BY <1>1 DEF PInv
  <2>2. Fds(q)' \cap (Base \cup app' \cup orphan') = {}
    BY <1>3, <1>5, <2>1 DEF OwnedOnce
  <2>3. \A r \in Pid \ {q} : Fds(q)' \cap Fds(r)' = {}
    <3> SUFFICES ASSUME NEW r \in Pid \ {q} PROVE Fds(q)' \cap Fds(r)' = {}
      OBVIOUS
    <3>1. CASE r = p
      BY <3>1, <1>3, <1>5, <2>1
    <3>2. CASE r # p
      BY <3>2, <1>1, <2>1 DEF OwnedOnce
    <3> QED BY <3>1, <3>2
  <2> QED BY <2>1, <2>2, <2>3 DEF OwnedOnce, Base
<1>11. \A q \in Pid : ProcRec(proc'[q]) /\ ReapedIs(proc'[q]) /\ OwnedOnce(q)'
  BY <1>9, <1>10
<1> QED BY <1>4, <1>6, <1>8, <1>11 DEF PInv, Base

\* A step that moves no descriptor.
LEMMA SameFds ==
  ASSUME PInv, DOMAIN proc' = Pid, tab' = tab, app' = app, orphan' = orphan, stray' \subseteq {"terminate"},
         \A q \in Pid : /\ ProcRec(proc'[q]) /\ ReapedIs(proc'[q]) /\ proc'[q].fd = proc[q].fd
                        /\ proc'[q].life = "none" => proc[q].life = "none"
  PROVE  PInv'
<1>1. \A q \in Pid : Fds(q)' = Fds(q)
  BY DEF Fds
<1>2. UNION {Fds(q)' : q \in Pid} = UNION {Fds(q) : q \in Pid}
  BY <1>1
<1>3. ASSUME NEW q \in Pid PROVE OwnedOnce(q)'
  <2>1. OwnedOnce(q) /\ Fds(q)' = Fds(q) /\ proc'[q].fd = proc[q].fd
    BY <1>1 DEF PInv
  <2>2. DistinctFds(proc'[q])
    BY <2>1 DEF OwnedOnce, DistinctFds
  <2>3. \A r \in Pid \ {q} : Fds(q)' \cap Fds(r)' = {}
    BY <2>1, <1>1 DEF OwnedOnce
  <2> QED BY <2>1, <2>2, <2>3 DEF OwnedOnce, Base
<1> QED BY <1>2, <1>3 DEF PInv, Base

\* After fork the parent keeps its own end of each pipe.
LEMMA ParentIs ==
  ASSUME Std \subseteq OpenSet(tab), NEW s, Ready(s)
  PROVE  /\ Table(ParentTable(s))
         /\ OpenSet(ParentTable(s)) = OpenSet(tab) \cup ({s.in[2], s.out[1], s.err[1]} \cap New)
         /\ \A h \in {s.in[2], s.out[1], s.err[1]} : h \in New \cup {-1}
         /\ s.in[2] \in New => s.in[2] \notin {s.out[1], s.err[1]}
         /\ s.out[1] \in New => s.out[1] # s.err[1]
<1> DEFINE t1 == CloseUnless(s.t, s.in[1], 0)
           t2 == CloseUnless(t1, s.out[2], 1)
           t3 == CloseUnless(t2, s.err[2], 2)
<1>0. Holds(s.t, s.in[1], s.in[2], s.out[1], s.out[2], s.err[1], s.err[2]) /\ Table(s.t)
  BY DEF Ready, HoldsFds, Holds
<1>1. Table(t1) /\ OpenSet(t1) = OpenSet(s.t) \ ({s.in[1]} \ {0})
  BY <1>0, CloseUnlessIs
<1> HIDE DEF t1
<1>2. Table(t2) /\ OpenSet(t2) = OpenSet(t1) \ ({s.out[2]} \ {1})
  BY <1>1, CloseUnlessIs
<1> HIDE DEF t2
<1>3. Table(t3) /\ OpenSet(t3) = OpenSet(t2) \ ({s.err[2]} \ {2})
  BY <1>2, CloseUnlessIs
<1>4. ParentTable(s) = t3
  BY DEF ParentTable, t1, t2
<1> HIDE DEF t3
<1>5. OpenSet(s.t) = OpenSet(tab) \cup ({s.in[1], s.in[2], s.out[1], s.out[2], s.err[1], s.err[2]} \cap New)
  BY <1>0 DEF Holds
<1>6. OpenSet(t3) = (OpenSet(s.t) \ ({s.in[1], s.out[2], s.err[2]} \cap New))
  <2>1. -1 \notin OpenSet(s.t)
    BY StdOpen DEF OpenSet
  <2>2. /\ s.in[1] \in New \cup {-1, 0} /\ s.out[2] \in New \cup {-1, 1} /\ s.err[2] \in New \cup {-1, 2}
    BY <1>0 DEF Holds
  <2>3. ({s.in[1]} \ {0}) \cap OpenSet(s.t) = ({s.in[1]} \cap New) \cap OpenSet(s.t)
    BY <2>1, <2>2, NewIs
  <2>4. ({s.out[2]} \ {1}) \cap OpenSet(s.t) = ({s.out[2]} \cap New) \cap OpenSet(s.t)
    BY <2>1, <2>2, NewIs
  <2>5. ({s.err[2]} \ {2}) \cap OpenSet(s.t) = ({s.err[2]} \cap New) \cap OpenSet(s.t)
    BY <2>1, <2>2, NewIs
  <2> QED BY <1>1, <1>2, <1>3, <2>3, <2>4, <2>5
<1>7. /\ {s.in[2], s.out[1], s.err[1]} \cap {s.in[1], s.out[2], s.err[2]} \cap New = {}
      /\ \A h \in {s.in[2], s.out[1], s.err[1]} : h \in New \cup {-1}
      /\ s.in[2] \in New => s.in[2] \notin {s.out[1], s.err[1]}
      /\ s.out[1] \in New => s.out[1] # s.err[1]
  BY <1>0 DEF Holds
<1>8. New \cap OpenSet(tab) = {}
  BY DEF New
<1>9. OpenSet(t3) = OpenSet(tab) \cup ({s.in[2], s.out[1], s.err[1]} \cap New)
  BY <1>5, <1>6, <1>7, <1>8
<1> QED BY <1>3, <1>4, <1>7, <1>9

-----------------------------------------------------------------------------
\* A spawn keeps the descriptors that its object is given, or none.
LEMMA SpawnFds ==
  ASSUME PInv, NEW p \in Pid, NEW flags, NEW act, NEW fail, NEW object \in BOOLEAN,
         process_spawn(p, flags, act, fail, object)
  PROVE  PInv'
<1> DEFINE s == Prepare(p, flags, fail)
           x == ChildTable(s, act, fail)
           pair == <<s.in[2], s.out[1], s.err[1]>>
           now == IF x.ok THEN "running" ELSE "zombie"
           made == [NoProc EXCEPT !.life = now, !.call = IF object THEN "none" ELSE "wait",
                                  !.fd = [i \in Std |-> pair[i + 1]],
                                  !.request = Request(p, flags, act, s.out[2]), !.inherit = act.except]
<1>1. /\ tab' = IF s.ok THEN ParentTable(s) ELSE s.t
      /\ s.ok => proc' = [proc EXCEPT ![p] = made]
      /\ ~s.ok => proc' = proc
      /\ app' = app /\ orphan' = orphan /\ stray' = stray /\ proc[p].life = "none"
  BY DEF process_spawn
<1>2. Table(tab) /\ Std \subseteq OpenSet(tab)
  BY OpenFdsOf DEF PInv
<1>3. Ready(s) \/ Undone(s)
  BY <1>2, PrepareIs
<1> HIDE DEF s
<1>4. CASE Undone(s)
  <2>1. tab' = s.t /\ proc' = proc /\ Table(s.t) /\ OpenSet(s.t) = OpenSet(tab)
    BY <1>1, <1>4 DEF Undone
  <2>2. Fds(p)' = Fds(p)
    BY <2>1 DEF Fds
  <2>3. /\ proc[p].life = "none" => Fds(p)' = {}
        /\ DOMAIN proc' = Pid /\ ProcRec(proc'[p]) /\ DistinctFds(proc'[p]) /\ ReapedIs(proc'[p])
    BY <2>1, <2>2 DEF PInv, OwnedOnce
  <2>4. /\ app' \cap orphan' = {} /\ Fds(p)' \cap (app' \cup orphan') = {}
        /\ OpenSet(tab') = Others(p) \cup app' \cup orphan' \cup Fds(p)'
    BY <1>1, <2>1, <2>2, OpenFdsOf
  <2>5. stray' \subseteq {"terminate"}
    BY <1>1 DEF PInv
  <2> QED BY <1>1, <2>1, <2>2, <2>3, <2>4, <2>5, PosixStepped
<1>5. CASE Ready(s)
  <2> DEFINE a == s.in[2]
             b == s.out[1]
             c == s.err[1]
  <2>1. tab' = ParentTable(s) /\ proc' = [proc EXCEPT ![p] = made]
    BY <1>1, <1>5 DEF Ready
  <2>2. /\ Table(tab') /\ OpenSet(tab') = OpenSet(tab) \cup ({a, b, c} \cap New)
        /\ a \in New \cup {-1} /\ b \in New \cup {-1} /\ c \in New \cup {-1}
        /\ a \in New => a \notin {b, c}
        /\ b \in New => b # c
    BY <1>2, <1>5, <2>1, ParentIs
  <2>3. /\ made.fd = [i \in Std |-> pair[i + 1]] /\ made.life \in {"running", "zombie"} /\ made.terminated = FALSE /\ made.waited = 0
        /\ DOMAIN made = {"life", "terminated", "waited", "call", "fd", "request", "inherit"}
    BY DEF NoProc
  <2>4. pair[1] = a /\ pair[2] = b /\ pair[3] = c
    OBVIOUS
  <2> HIDE DEF made, pair, a, b, c
  <2>5. made.fd[0] = a /\ made.fd[1] = b /\ made.fd[2] = c
    BY <2>3, <2>4 DEF Std
  <2>6. made.fd \in [Std -> Fd \cup {-1}]
    <3>1. \A i \in Std : made.fd[i] \in New \cup {-1}
      BY <2>2, <2>5 DEF Std
    <3>2. New \subseteq Fd
      BY DEF New
    <3> QED BY <2>3, <3>1, <3>2
  <2>7. proc'[p] = made /\ DOMAIN proc' = Pid /\ \A q \in Pid \ {p} : proc'[q] = proc[q]
    BY <2>1 DEF PInv
  <2>8. -1 \notin New
    BY <1>2, NewIs
  <2>9. DistinctFds(made)
    <3> SUFFICES ASSUME NEW i \in Std, NEW j \in Std, made.fd[i] = made.fd[j], made.fd[i] # -1
                 PROVE  i = j
      BY DEF DistinctFds
    <3>1. i \in {0, 1, 2} /\ j \in {0, 1, 2}
      BY DEF Std
    <3> QED BY <3>1, <2>2, <2>5
  <2>10. Fds(p)' = {a, b, c} \cap New
    <3>1. Fds(p)' = {made.fd[0], made.fd[1], made.fd[2]} \ {-1}
      BY <2>7 DEF Fds, Std
    <3> QED BY <3>1, <2>2, <2>5, <2>8
  <2>11. ProcRec(proc'[p]) /\ ReapedIs(proc'[p]) /\ proc'[p].life # "none"
    BY <2>3, <2>6, <2>7 DEF ProcRec, ReapedIs
  <2>12. Fds(p) = {}
    BY <1>1 DEF PInv, OwnedOnce
  <2>13. New \cap (app \cup orphan) = {}
    BY OpenFdsOf DEF New
  <2>14. OpenSet(tab') = Others(p) \cup app' \cup orphan' \cup Fds(p)'
    BY <1>1, <2>2, <2>10, <2>12, OpenFdsOf
  <2>15. /\ app' \cup orphan' \cup Fds(p)' \subseteq app \cup orphan \cup Fds(p) \cup New
         /\ Fds(p)' \cap (app' \cup orphan') = {}
    BY <1>1, <2>10, <2>13
  <2> QED BY <1>1, <2>2, <2>7, <2>9, <2>11, <2>14, <2>15, PosixStepped DEF PInv
<1> QED BY <1>3, <1>4, <1>5

\* The record of a process that has ended or was never started has no descriptors.
LEMMA NoFds ==
  ASSUME NEW p, proc'[p].fd = [i \in Std |-> -1]
  PROVE  Fds(p)' = {} /\ DistinctFds(proc'[p]) /\ proc'[p].fd \in [Std -> Fd \cup {-1}]
  BY DEF Fds, DistinctFds

\* A detached process gets no pipe.
LEMMA DetachedFds ==
  ASSUME PInv, NEW p \in Pid, NEW flags, NEW act, NEW fail, spawn_detached(p, flags, act, fail)
  PROVE  PInv'
<1> DEFINE x == my_exec(tab, act.fd, act.except, fail = "null")
           now == IF x.ok THEN "detached" ELSE "gone"
           made == [NoProc EXCEPT !.life = now, !.request = Request(p, flags, act, -1), !.inherit = act.except]
<1>1. /\ proc' = [proc EXCEPT ![p] = made] /\ proc[p].life = "none"
      /\ tab' = tab /\ app' = app /\ orphan' = orphan /\ stray' = stray
  BY DEF spawn_detached
<1>2. /\ made.fd = [i \in Std |-> -1] /\ made.life \in {"detached", "gone"} /\ made.terminated = FALSE /\ made.waited = 0
      /\ DOMAIN made = {"life", "terminated", "waited", "call", "fd", "request", "inherit"}
  BY DEF NoProc
<1> HIDE DEF made
<1>3. proc'[p] = made /\ DOMAIN proc' = Pid /\ \A q \in Pid \ {p} : proc'[q] = proc[q]
  BY <1>1 DEF PInv
<1>4. /\ Fds(p)' = {} /\ Fds(p) = {} /\ DistinctFds(proc'[p]) /\ ProcRec(proc'[p])
      /\ ReapedIs(proc'[p])
  <2>1. Fds(p)' = {} /\ DistinctFds(proc'[p]) /\ proc'[p].fd \in [Std -> Fd \cup {-1}]
    BY <1>2, <1>3, NoFds
  <2>2. Fds(p) = {}
    BY <1>1 DEF PInv, OwnedOnce
  <2> QED BY <1>2, <1>3, <2>1, <2>2 DEF ProcRec, ReapedIs
<1>5. Table(tab') /\ stray' \subseteq {"terminate"} /\ OpenSet(tab') = OpenSet(tab)
  BY <1>1 DEF PInv
<1> QED BY <1>1, <1>3, <1>4, <1>5, OpenFdsOf, PosixStepped

\* The end of a child moves no descriptor of the program.
LEMMA ChildExitsFds ==
  ASSUME PInv, NEW p \in Pid, ChildExits(p)
  PROVE  PInv'
<1> DEFINE now == IF proc[p].life = "running" THEN "zombie" ELSE "gone"
<1>1. /\ proc' = [proc EXCEPT ![p].life = now]
      /\ proc[p].life \in {"running", "detached"}
      /\ tab' = tab /\ app' = app /\ orphan' = orphan /\ stray' = stray
  BY DEF ChildExits
<1>2. now \in {"zombie", "gone"}
  OBVIOUS
<1> HIDE DEF now
<1>3. DOMAIN proc' = Pid /\ \A q \in Pid \ {p} : proc'[q] = proc[q]
  BY <1>1 DEF PInv
<1>4. /\ proc'[p].life = now /\ proc'[p].fd = proc[p].fd
      /\ proc'[p].terminated = proc[p].terminated /\ proc'[p].waited = proc[p].waited
      /\ DOMAIN proc'[p] = DOMAIN proc[p]
  BY <1>1 DEF PInv, ProcRec
<1>5. ProcRec(proc'[p]) /\ ReapedIs(proc'[p])
  BY <1>1, <1>2, <1>4 DEF PInv, ProcRec, ReapedIs
<1> QED BY <1>1, <1>2, <1>3, <1>4, <1>5, SameFds DEF PInv

\* A child that was waited for.
LEMMA ReapIs ==
  ASSUME NEW r, ProcRec(r), ReapedIs(r), r.life \notin {"reaped", "released"}
  PROVE  ProcRec(Reap(r)) /\ ReapedIs(Reap(r)) /\ Reap(r).fd = r.fd /\ Reap(r).life # "none"
  BY DEF ProcRec, Reap, ReapedIs

\* Waiting for one child,
LEMMA WaitFds ==
  ASSUME PInv, NEW p \in Pid, process_wait(p)
  PROVE  PInv'
<1>1. /\ proc' = [proc EXCEPT ![p] = Reap(proc[p])]
      /\ tab' = tab /\ app' = app /\ orphan' = orphan /\ stray' = stray
  BY DEF process_wait
<1>2. DOMAIN proc' = Pid /\ proc'[p] = Reap(proc[p]) /\ \A q \in Pid \ {p} : proc'[q] = proc[q]
  BY <1>1 DEF PInv
<1>3. ProcRec(proc[p]) /\ ReapedIs(proc[p]) /\ proc[p].life = "zombie"
  BY DEF PInv, process_wait
<1> QED BY <1>1, <1>2, <1>3, ReapIs, SameFds DEF PInv

\* or for several.
LEMMA WaitListFds ==
  ASSUME PInv, NEW list, process_wait_list(list)
  PROVE  PInv'
<1>1. /\ DOMAIN proc' = Pid
      /\ \A q \in Pid : \/ proc'[q] = proc[q]
                        \/ proc'[q] = Reap(proc[q]) /\ ~proc[q].terminated /\ IsObject(q)
      /\ tab' = tab /\ app' = app /\ orphan' = orphan /\ stray' = stray
  BY DEF process_wait_list
<1>2. ASSUME NEW q \in Pid
      PROVE  /\ ProcRec(proc'[q]) /\ ReapedIs(proc'[q]) /\ proc'[q].fd = proc[q].fd
             /\ proc'[q].life = "none" => proc[q].life = "none"
  <2>1. ProcRec(proc[q]) /\ ReapedIs(proc[q])
    BY DEF PInv
  <2>2. ~proc[q].terminated /\ IsObject(q) => proc[q].life \notin {"reaped", "released"}
    BY <2>1 DEF IsObject, ReapedIs
  <2> QED BY <1>1, <2>1, <2>2, ReapIs
<1> QED BY <1>1, <1>2, SameFds DEF PInv

\* The library sends no signal to a child that was waited for; the program may.
LEMMA StrayIs ==
  ASSUME PInv, NEW p \in Pid, NEW by, by = "terminate" \/ ~proc[p].terminated
  PROVE  Stray(p, by) \subseteq {"terminate"}
  BY DEF PInv, Stray, ReapedIs

\* A signal of the program's.
LEMMA TerminateFds ==
  ASSUME PInv, NEW p \in Pid, process_terminate(p)
  PROVE  PInv'
<1>1. /\ proc' = proc /\ tab' = tab /\ app' = app /\ orphan' = orphan /\ stray' \subseteq {"terminate"}
  BY StrayIs DEF process_terminate
<1> QED BY <1>1, SameFds DEF PInv

\* The descriptors that the program takes are the program's from then on.
LEMMA GetFdsFds ==
  ASSUME PInv, NEW p \in Pid, process_get_fds(p)
  PROVE  PInv'
<1>1. /\ proc' = [proc EXCEPT ![p].fd = [i \in Std |-> -1]]
      /\ app' = app \cup Fds(p) /\ tab' = tab /\ orphan' = orphan /\ stray' \subseteq {"terminate"}
      /\ proc[p].life # "none"
  BY DEF process_get_fds, IsObject, PInv
<1>2. DOMAIN proc' = Pid /\ \A q \in Pid \ {p} : proc'[q] = proc[q]
  BY <1>1 DEF PInv
<1>3. /\ proc'[p].fd = [i \in Std |-> -1] /\ proc'[p].life = proc[p].life
      /\ proc'[p].terminated = proc[p].terminated /\ proc'[p].waited = proc[p].waited
      /\ DOMAIN proc'[p] = DOMAIN proc[p]
  BY <1>1 DEF PInv, ProcRec
<1>4. /\ Fds(p)' = {} /\ DistinctFds(proc'[p]) /\ ProcRec(proc'[p]) /\ ReapedIs(proc'[p])
  BY <1>3, NoFds DEF PInv, ProcRec, ReapedIs
<1>5. Table(tab') /\ OpenSet(tab') = OpenSet(tab)
  BY <1>1 DEF PInv
<1>6. app' \cap orphan' = {} /\ OpenSet(tab') = Others(p) \cup app' \cup orphan' \cup Fds(p)'
  BY <1>1, <1>4, <1>5, OpenFdsOf
<1> QED BY <1>1, <1>2, <1>3, <1>4, <1>5, <1>6, PosixStepped

\* If a stream cannot be made nobody has its descriptor; the program has the others.
LEMMA GetStreamsFds ==
  ASSUME PInv, NEW p \in Pid, process_get_streams(p)
  PROVE  PInv'
<1> DEFINE gone == {proc[p].fd[0], proc[p].fd[2]} \ {-1}
           left == {proc[p].fd[1]}
<1>1. /\ proc' = [proc EXCEPT ![p].fd = [i \in Std |-> -1]]
      /\ app' = app \cup gone /\ orphan' = orphan \cup left /\ tab' = tab /\ stray' \subseteq {"terminate"}
      /\ proc[p].life # "none" /\ proc[p].fd[1] # -1
  BY DEF process_get_streams, IsObject, PInv
<1>0. gone \cup left = Fds(p) /\ gone \cap left = {}
  <2>1. Fds(p) = {proc[p].fd[0], proc[p].fd[1], proc[p].fd[2]} \ {-1}
    BY DEF Fds, Std
  <2>2. proc[p].fd[1] \notin gone
    <3>1. DistinctFds(proc[p]) /\ 0 \in Std /\ 1 \in Std /\ 2 \in Std
      BY DEF PInv, OwnedOnce, Std
    <3>2. proc[p].fd[1] # proc[p].fd[0] /\ proc[p].fd[1] # proc[p].fd[2]
      BY <1>1, <3>1 DEF DistinctFds
    <3> QED BY <3>2
  <2> QED BY <1>1, <2>1, <2>2
<1> HIDE DEF gone, left
<1>2. DOMAIN proc' = Pid /\ \A q \in Pid \ {p} : proc'[q] = proc[q]
  BY <1>1 DEF PInv
<1>3. /\ proc'[p].fd = [i \in Std |-> -1] /\ proc'[p].life = proc[p].life
      /\ proc'[p].terminated = proc[p].terminated /\ proc'[p].waited = proc[p].waited
      /\ DOMAIN proc'[p] = DOMAIN proc[p]
  BY <1>1 DEF PInv, ProcRec
<1>4. /\ Fds(p)' = {} /\ DistinctFds(proc'[p]) /\ ProcRec(proc'[p]) /\ ReapedIs(proc'[p])
  BY <1>3, NoFds DEF PInv, ProcRec, ReapedIs
<1>5. Table(tab') /\ OpenSet(tab') = OpenSet(tab)
  BY <1>1 DEF PInv
<1>6. app' \cap orphan' = {} /\ OpenSet(tab') = Others(p) \cup app' \cup orphan' \cup Fds(p)'
  BY <1>0, <1>1, <1>4, <1>5, OpenFdsOf
<1>7. app' \cup orphan' \cup Fds(p)' \subseteq app \cup orphan \cup Fds(p) \cup New
  BY <1>0, <1>1, <1>4
<1> QED BY <1>1, <1>2, <1>3, <1>4, <1>5, <1>6, <1>7, PosixStepped

\* The descriptors of an object that is freed stay open, and are nobody's.
LEMMA FreedFds ==
  ASSUME PInv, NEW p \in Pid, NEW o, Freed(p, o), o.waited = 1, stray' = stray
  PROVE  PInv'
<1> DEFINE r == [NoProc EXCEPT !.life = "released", !.waited = o.waited]
<1>1. /\ proc' = [proc EXCEPT ![p] = r]
      /\ orphan' = orphan \cup Fds(p) /\ tab' = tab /\ app' = app /\ stray' \subseteq {"terminate"}
  BY DEF Freed, PInv
<1>0. /\ r.fd = [i \in Std |-> -1] /\ r.life = "released" /\ r.terminated = FALSE /\ r.waited = 1
      /\ DOMAIN r = {"life", "terminated", "waited", "call", "fd", "request", "inherit"}
  BY DEF NoProc
<1> HIDE DEF r
<1>2. DOMAIN proc' = Pid /\ proc'[p] = r /\ \A q \in Pid \ {p} : proc'[q] = proc[q]
  BY <1>1 DEF PInv
<1>4. /\ Fds(p)' = {} /\ DistinctFds(proc'[p]) /\ ProcRec(proc'[p]) /\ ReapedIs(proc'[p])
  BY <1>0, <1>2, NoFds DEF ProcRec, ReapedIs
<1>5. Table(tab') /\ OpenSet(tab') = OpenSet(tab)
  BY <1>1 DEF PInv
<1>6. app' \cap orphan' = {} /\ OpenSet(tab') = Others(p) \cup app' \cup orphan' \cup Fds(p)'
  BY <1>1, <1>4, <1>5, OpenFdsOf
<1> QED BY <1>1, <1>2, <1>4, <1>5, <1>6, PosixStepped

\* A release frees the object, or signals a child and waits for it.
LEMMA ReleaseFds ==
  ASSUME PInv, NEW p \in Pid, process_release(p)
  PROVE  PInv'
<1>1. CASE proc[p].terminated
  <2>1. proc[p].waited = 1
    BY <1>1 DEF PInv, ReapedIs
  <2> QED BY <1>1, <2>1, FreedFds DEF process_release
<1>2. CASE ~proc[p].terminated
  <2>1. /\ proc' = [proc EXCEPT ![p].call = "release"] /\ stray' \subseteq {"terminate"}
        /\ tab' = tab /\ app' = app /\ orphan' = orphan
    BY <1>2, StrayIs DEF process_release
  <2>2. DOMAIN proc' = Pid /\ \A q \in Pid \ {p} : proc'[q] = proc[q]
    BY <2>1 DEF PInv
  <2>3. /\ proc'[p].fd = proc[p].fd /\ proc'[p].life = proc[p].life
        /\ proc'[p].terminated = proc[p].terminated /\ proc'[p].waited = proc[p].waited
      /\ DOMAIN proc'[p] = DOMAIN proc[p]
    BY <2>1 DEF PInv, ProcRec
  <2>4. ProcRec(proc'[p]) /\ ReapedIs(proc'[p])
    BY <2>3 DEF PInv, ProcRec, ReapedIs
  <2> QED BY <2>1, <2>2, <2>3, <2>4, SameFds DEF PInv
<1>3. proc[p].terminated \in BOOLEAN
  BY DEF PInv, ProcRec
<1> QED BY <1>1, <1>2, <1>3

\* The program closes what it took, and nothing that anybody else has.
LEMMA CloseOwnFds ==
  ASSUME PInv, NEW fd \in app, CloseOwn(fd)
  PROVE  PInv'
<1>1. /\ tab' = CloseFds(tab, fd) /\ app' = app \ {fd} /\ proc' = proc /\ orphan' = orphan /\ stray' = stray
  BY DEF CloseOwn
<1>2. Table(tab') /\ OpenSet(tab') = OpenSet(tab) \ {fd}
  BY <1>1, CloseFdsIs DEF PInv
<1>3. \A p \in Pid : Fds(p)' = Fds(p)
  BY <1>1 DEF Fds
<1>4. UNION {Fds(p)' : p \in Pid} = UNION {Fds(p) : p \in Pid}
  BY <1>3
<1>5. fd \notin Base /\ fd \notin orphan /\ \A p \in Pid : fd \notin Fds(p)
  BY DEF PInv, OwnedOnce
<1>6. OpenSet(tab') = Base \cup app' \cup orphan' \cup UNION {Fds(p)' : p \in Pid}
  <2>1. fd \notin UNION {Fds(p) : p \in Pid}
    BY <1>5
  <2>2. OpenSet(tab) = Base \cup app \cup orphan \cup UNION {Fds(p) : p \in Pid}
    BY DEF PInv
  <2> QED BY <1>1, <1>2, <1>4, <1>5, <2>1, <2>2
<1>7. \A p \in Pid : OwnedOnce(p)'
  BY <1>1, <1>3 DEF PInv, OwnedOnce, Base
<1> QED BY <1>1, <1>2, <1>6, <1>7 DEF PInv, Base

\* Every step keeps the accounts.
LEMMA PosixNextFds == PInv /\ [PosixNext]_posixVars => PInv'
<1> SUFFICES ASSUME PInv, [PosixNext]_posixVars PROVE PInv'
  OBVIOUS
<1>1. CASE \E p \in Pid, flags \in FlagSets, act \in Acts, fail \in Fails :
             (\E object \in BOOLEAN : process_spawn(p, flags, act, fail, object))
             \/ spawn_detached(p, flags, act, fail)
  BY <1>1, SpawnFds, DetachedFds
<1>2. CASE \E p \in Pid : \/ ChildExits(p) \/ process_wait(p) \/ process_terminate(p)
                          \/ process_get_fds(p) \/ process_get_streams(p)
                          \/ process_release(p) \/ CallReturns(p)
  <2>1. \A p \in Pid : CallReturns(p) => Freed(p, Reap(proc[p])) /\ Reap(proc[p]).waited = 1 /\ stray' = stray
    BY DEF CallReturns, Reap, PInv, ProcRec, ReapedIs
  <2> QED BY <1>2, <2>1, ChildExitsFds, WaitFds, TerminateFds, GetFdsFds, GetStreamsFds, ReleaseFds, FreedFds
<1>3. CASE \E p, q \in Pid : process_wait_list(<<p, q>>)
  BY <1>3, WaitListFds
<1>4. CASE \E fd \in app : CloseOwn(fd)
  BY <1>4, CloseOwnFds
<1>5. CASE UNCHANGED posixVars
  BY <1>5, SameFds DEF posixVars, PInv
<1> QED BY <1>1, <1>2, <1>3, <1>4, <1>5 DEF PosixNext

\* At the start the standard descriptors and one of the program are open.
LEMMA PosixInitFds == PosixInit => PInv
<1> SUFFICES ASSUME PosixInit PROVE PInv
  OBVIOUS
<1>1. /\ proc = [p \in Pid |-> NoProc] /\ app = {} /\ orphan = {} /\ stray = {}
      /\ tab = [f \in Fd |-> CASE f \in Std -> <<"std", f>>
                               [] f = ExtraFd -> ExtraFile
                               [] OTHER -> Free]
  BY DEF PosixInit
<1>2. NoProc.fd = [i \in Std |-> -1] /\ ProcRec(NoProc) /\ ReapedIs(NoProc) /\ DistinctFds(NoProc)
  BY DEF NoProc, ProcRec, ReapedIs, DistinctFds
<1>3. \A p \in Pid : Fds(p) = {}
  BY <1>1, <1>2 DEF Fds
<1>4. \A p \in Pid : OwnedOnce(p)
  BY <1>1, <1>2, <1>3 DEF OwnedOnce
<1>5. Table(tab) /\ OpenSet(tab) = Base
  <2>1. ExtraFd \notin Std
    BY ExtraIsOpen
  <2>2. \A f \in Fd : /\ f \in Std => tab[f] = <<"std", f>>
                      /\ f \notin Std /\ f = ExtraFd => tab[f] = ExtraFile
                      /\ f \notin Std /\ f # ExtraFd => tab[f] = Free
    <3> SUFFICES ASSUME NEW f \in Fd
                 PROVE  /\ f \in Std => tab[f] = <<"std", f>>
                        /\ f \notin Std /\ f = ExtraFd => tab[f] = ExtraFile
                        /\ f \notin Std /\ f # ExtraFd => tab[f] = Free
      OBVIOUS
    <3>1. tab[f] = CASE f \in Std -> <<"std", f>>
                     [] f = ExtraFd -> ExtraFile
                     [] OTHER -> Free
      BY <1>1
    <3> QED BY <2>1, <3>1
  <2>3. Table(tab)
    BY <1>1 DEF Table
  <2>4. \A f \in Fd : tab[f] # Free <=> f \in Base
    BY <2>1, <2>2, FreeIsNoFile DEF Base
  <2> QED BY <2>3, <2>4, StdOpen DEF OpenSet, Base
<1>6. UNION {Fds(p) : p \in Pid} = {}
  BY <1>3
<1> QED BY <1>1, <1>2, <1>4, <1>5, <1>6 DEF PInv

\* The invariant of processes on POSIX systems.
LEMMA PosixSpecFds == PosixSpec => []PInv
  BY PosixInitFds, PosixNextFds, PTL DEF PosixSpec

\* Whatever step of a spawn fails, and however many processes there are, a
\* descriptor is open if and only if the program, a process object or the remains
\* of a release has it; it has one owner (gpgrt_process_spawn).
THEOREM PosixFdsAccounted == PosixSpec => []FdsAccounted
<1>1. PInv => FdsAccounted
  BY DEF PInv, FdsAccounted, OpenSet, Base
<1> QED BY <1>1, PosixSpecFds, PTL

\* A child is waited for once: an object knows of its end if and only if it was,
\* and is freed only then; the library sends no signal to a child that was waited
\* for, only a gpgrt_process_terminate of the program's can (gpgrt_process_release,
\* gpgrt_process_wait_list).
THEOREM PosixReapedOnce == PosixSpec => []ReapedOnce
<1>1. PInv => ReapedOnce
  BY DEF PInv, ReapedOnce, ReapedIs
<1> QED BY <1>1, PosixSpecFds, PTL

-----------------------------------------------------------------------------
(***************************************************************************)
(* The child: what my_exec makes of its descriptors.                        *)
(***************************************************************************)
Nulls == {<<"null", w>> : w \in BOOLEAN}

\* /dev/null is a file.
LEMMA NullIs == \A i : Null(i) \in Nulls /\ Null(i) # Free
  BY FreeIsNoFile DEF Nulls, Null

\* A child on the way to its program, with its standard descriptors open.
ExecRec(w) ==
  /\ DOMAIN w = {"t", "fd", "ok"} /\ Table(w.t) /\ w.fd \in [Std -> Fd \cup {-1}]
  /\ w.ok \in BOOLEAN /\ \A i \in Std : w.t[i] # Free

\* v has what w has, and /dev/null besides.
Assigned(w, v) ==
  /\ ExecRec(v)
  /\ \A f \in Fd : w.t[f] # Free => v.t[f] = w.t[f]
  /\ \A f \in Fd : v.t[f] = w.t[f] \/ v.t[f] \in Nulls
  /\ \A j \in Std : w.fd[j] # -1 => v.fd[j] = w.fd[j]
  /\ \A j \in Std : w.fd[j] = -1 /\ v.fd[j] # -1 => v.fd[j] \in Fd \ Std /\ v.t[v.fd[j]] = Null(j)

\* /dev/null for one standard file.
LEMMA AssignIs ==
  ASSUME NEW w, ExecRec(w), NEW i \in Std, NEW fails \in BOOLEAN
  PROVE  LET v == Assign(w, i, fails)
         IN  Assigned(w, v) /\ (v.ok = TRUE => w.ok = TRUE /\ v.fd[i] # -1)
<1>1. CASE w.fd[i] # -1
  BY <1>1 DEF Assign, Assigned
<1>2. CASE w.fd[i] = -1 /\ (fails \/ FreeFds(w.t) = {})
  <2> DEFINE v == [w EXCEPT !.ok = FALSE]
  <2>1. Assign(w, i, fails) = v
    BY <1>2 DEF Assign
  <2>2. v.t = w.t /\ v.fd = w.fd /\ v.ok = FALSE /\ DOMAIN v = {"t", "fd", "ok"}
    BY DEF ExecRec
  <2> HIDE DEF v
  <2>3. Assigned(w, v)
    BY <2>2 DEF Assigned, ExecRec
  <2> QED BY <2>1, <2>2, <2>3
<1>3. CASE w.fd[i] = -1 /\ ~fails /\ FreeFds(w.t) # {}
  <2> DEFINE a == Lowest(FreeFds(w.t))
             t2 == OpenFds(w.t, Null(i))
             v == [w EXCEPT !.t = t2, !.fd[i] = a]
  <2>1. Assign(w, i, fails) = v
    BY <1>3 DEF Assign
  <2>2. a \in Fd \ OpenSet(w.t) /\ Table(t2)
    BY <1>3, NullIs, OpenFdsIs DEF ExecRec
  <2>3. t2[a] = Null(i) /\ \A f \in Fd : f # a => t2[f] = w.t[f]
    <3>1. t2 = [w.t EXCEPT ![a] = Null(i)]
      BY DEF OpenFds
    <3> HIDE DEF a, t2
    <3> QED BY <2>2, <3>1 DEF ExecRec, Table
  <2> HIDE DEF a, t2
  <2>4. /\ v.t = t2 /\ v.fd = [w.fd EXCEPT ![i] = a] /\ v.ok = w.ok /\ DOMAIN v = {"t", "fd", "ok"}
    BY DEF ExecRec
  <2> HIDE DEF v
  <2>5. w.t[a] = Free /\ a \in Fd \ Std /\ a # -1
    BY <2>2, StdOpen DEF OpenSet, ExecRec
  <2>6. v.fd \in [Std -> Fd \cup {-1}] /\ v.fd[i] = a /\ \A j \in Std : j # i => v.fd[j] = w.fd[j]
    BY <2>4, <2>5 DEF ExecRec
  <2>7. \A f \in Fd : (w.t[f] # Free => v.t[f] = w.t[f]) /\ (v.t[f] = w.t[f] \/ v.t[f] \in Nulls)
    BY <2>3, <2>4, <2>5, NullIs
  <2>8. ExecRec(v)
    BY <2>2, <2>4, <2>6, <2>7, StdOpen DEF ExecRec
  <2>9. Assigned(w, v)
    BY <1>3, <2>3, <2>4, <2>5, <2>6, <2>7, <2>8 DEF Assigned
  <2> QED BY <2>1, <2>4, <2>5, <2>6, <2>9
<1> QED BY <1>1, <1>2, <1>3

\* One after the other.
LEMMA AssignedTwice ==
  ASSUME NEW u, NEW w, NEW v, ExecRec(u), Assigned(u, w), Assigned(w, v)
  PROVE  Assigned(u, v) /\ \A j \in Std : w.fd[j] # -1 => v.fd[j] # -1
<1>1. \A f \in Fd : (u.t[f] # Free => v.t[f] = u.t[f]) /\ (v.t[f] = u.t[f] \/ v.t[f] \in Nulls)
  BY DEF Assigned
<1>2. \A j \in Std : u.fd[j] # -1 => v.fd[j] = u.fd[j]
  BY DEF Assigned
<1>3. ASSUME NEW j \in Std, u.fd[j] = -1, v.fd[j] # -1
      PROVE  v.fd[j] \in Fd \ Std /\ v.t[v.fd[j]] = Null(j)
  <2>1. CASE w.fd[j] = -1
    BY <1>3, <2>1 DEF Assigned
  <2>2. CASE w.fd[j] # -1
    <3>1. v.fd[j] = w.fd[j] /\ w.fd[j] \in Fd \ Std /\ w.t[w.fd[j]] = Null(j)
      BY <1>3, <2>2 DEF Assigned
    <3> QED BY <3>1, NullIs DEF Assigned
  <2> QED BY <2>1, <2>2
<1>4. ExecRec(v) /\ \A j \in Std : w.fd[j] # -1 => v.fd[j] # -1
  BY DEF Assigned
<1> QED BY <1>1, <1>2, <1>3, <1>4 DEF Assigned

\* dup2 for one standard file.
LEMMA ConnectIs ==
  ASSUME NEW w, ExecRec(w), NEW i \in Std
  PROVE  LET v == Connect(w, i)
         IN  /\ ExecRec(v) /\ v.fd = w.fd
             /\ v.ok = TRUE => w.ok = TRUE /\ w.fd[i] # -1 /\ v.t[i] = w.t[w.fd[i]]
             /\ \A f \in Fd : f # i => v.t[f] = w.t[f]
<1>0. i \in Fd /\ w.fd[i] \in Fd \cup {-1} /\ i # -1
  BY StdOpen DEF ExecRec
<1>1. CASE w.fd[i] = i
  BY <1>0, <1>1 DEF Connect
<1>2. CASE w.fd[i] # i /\ (w.fd[i] = -1 \/ w.t[w.fd[i]] = Free)
  <2> DEFINE v == [w EXCEPT !.ok = FALSE]
  <2>1. Connect(w, i) = v
    BY <1>2 DEF Connect
  <2>2. v.t = w.t /\ v.fd = w.fd /\ v.ok = FALSE /\ DOMAIN v = {"t", "fd", "ok"}
    BY DEF ExecRec
  <2> HIDE DEF v
  <2> QED BY <2>1, <2>2 DEF ExecRec
<1>3. CASE w.fd[i] # i /\ ~(w.fd[i] = -1 \/ w.t[w.fd[i]] = Free)
  <2> DEFINE x == w.t[w.fd[i]]
             v == [w EXCEPT !.t[i] = x]
  <2>1. Connect(w, i) = v
    BY <1>3 DEF Connect
  <2>2. /\ v.t = [w.t EXCEPT ![i] = x] /\ v.fd = w.fd /\ v.ok = w.ok /\ DOMAIN v = {"t", "fd", "ok"}
    BY DEF ExecRec
  <2> HIDE DEF v
  <2>3. v.t[i] = x /\ Table(v.t) /\ \A f \in Fd : f # i => v.t[f] = w.t[f]
    BY <1>0, <2>2 DEF ExecRec, Table
  <2>4. \A j \in Std : v.t[j] # Free
    BY <1>3, <2>3, StdOpen DEF ExecRec
  <2> QED BY <1>3, <2>1, <2>2, <2>3, <2>4 DEF ExecRec
<1> QED BY <1>1, <1>2, <1>3

-----------------------------------------------------------------------------
\* What the program of a child finds, if there is one.
Assigns(x, t, fd, except) ==
  /\ \A i \in Std : fd[i] = -1 => x[i] = Null(i)
  /\ \A i \in Std : /\ fd[i] # -1 /\ t[fd[i]] # Free
                    /\ ~(fd[i] \in Std /\ fd[i] < i /\ fd[fd[i]] # fd[i])
                    => x[i] = t[fd[i]]
  /\ \A f \in Fd \ Std : IF f \in except THEN t[f] # Free => x[f] = t[f] ELSE x[f] = Free

\* closefrom may take standard files.
Execs(x, t, fd, except) ==
  \E y : /\ Assigns(y, t, fd, except)
         /\ \A f \in Fd : x[f] = IF f \in Unlisted(except) THEN Free ELSE y[f]

LEMMA ExecIs ==
  ASSUME NEW t, Table(t), \A i \in Std : t[i] # Free, NEW fd \in [Std -> Fd \cup {-1}],
         NEW except, NEW fails \in BOOLEAN
  PROVE  LET x == my_exec(t, fd, except, fails)
         IN  /\ Table(x.t)
             /\ x.ok => Execs(x.t, t, fd, except)
             /\ ~x.ok => x.t = NoTable
             /\ \A f \in Fd : x.t[f] \in {t[g] : g \in Fd} \cup Nulls \cup {Free}
<1> DEFINE u == [t |-> t, fd |-> fd, ok |-> TRUE]
           u0 == Assign(u, 0, fails)
           u1 == Assign(u0, 1, fails)
           u2 == Assign(u1, 2, fails)
           v0 == Connect(u2, 0)
           v1 == Connect(v0, 1)
           v2 == Connect(v1, 2)
           x == my_exec(t, fd, except, fails)
<1>0. 0 \in Std /\ 1 \in Std /\ 2 \in Std
  BY DEF Std
<1>1. ExecRec(u) /\ u.t = t /\ u.fd = fd
  BY DEF ExecRec
<1>2. x = [t |-> IF v2.ok THEN close_all_fds(v2.t, 3, except) ELSE NoTable, ok |-> v2.ok]
  BY DEF my_exec
<1> HIDE DEF u, x
<1>3. Assigned(u, u0) /\ (u0.ok = TRUE => u0.fd[0] # -1)
  BY <1>0, <1>1, AssignIs
<1> HIDE DEF u0
<1>4. ExecRec(u0)
  BY <1>3 DEF Assigned
<1>5. Assigned(u0, u1) /\ (u1.ok = TRUE => u0.ok = TRUE /\ u1.fd[1] # -1)
  BY <1>0, <1>4, AssignIs
<1> HIDE DEF u1
<1>6. ExecRec(u1)
  BY <1>5 DEF Assigned
<1>7. Assigned(u1, u2) /\ (u2.ok = TRUE => u1.ok = TRUE /\ u2.fd[2] # -1)
  BY <1>0, <1>6, AssignIs
<1> HIDE DEF u2
<1>8. Assigned(u, u2) /\ ExecRec(u2)
  BY <1>1, <1>3, <1>4, <1>5, <1>6, <1>7, AssignedTwice DEF Assigned
<1>9. ExecRec(v0) /\ v0.fd = u2.fd /\ (v0.ok = TRUE => v0.t[0] = u2.t[u2.fd[0]] /\ u2.fd[0] # -1 /\ u2.ok = TRUE)
      /\ \A f \in Fd : f # 0 => v0.t[f] = u2.t[f]
  BY <1>0, <1>8, ConnectIs, ZenonT(60)
<1> HIDE DEF v0
<1>12. ExecRec(v1) /\ v1.fd = u2.fd /\ (v1.ok = TRUE => v1.t[1] = v0.t[u2.fd[1]] /\ u2.fd[1] # -1 /\ v0.ok = TRUE)
      /\ \A f \in Fd : f # 1 => v1.t[f] = v0.t[f]
  <2>1. ExecRec(v0)
    BY <1>9
  <2> DEFINE v == Connect(v0, 1)
  <2>3. ExecRec(v) /\ v.fd = v0.fd
    BY <1>0, <2>1, ConnectIs
  <2>4. v.ok = TRUE => v.t[1] = v0.t[v0.fd[1]] /\ v0.fd[1] # -1 /\ v0.ok = TRUE
    <3>1. \A i \in Std : Connect(v0, i).ok = TRUE => Connect(v0, i).t[i] = v0.t[v0.fd[i]] /\ v0.fd[i] # -1 /\ v0.ok = TRUE
      BY <2>1, ConnectIs, ZenonT(60)
    <3> QED BY <1>0, <3>1
  <2>5. \A f \in Fd : f # 1 => v.t[f] = v0.t[f]
    BY <1>0, <2>1, ConnectIs, ZenonT(60)
  <2>2. ExecRec(v1) /\ v1.fd = v0.fd /\ (v1.ok = TRUE => v1.t[1] = v0.t[v0.fd[1]] /\ v0.fd[1] # -1 /\ v0.ok = TRUE)
        /\ \A f \in Fd : f # 1 => v1.t[f] = v0.t[f]
    BY <2>3, <2>4, <2>5
  <2> QED BY <1>9, <2>2
<1> HIDE DEF v1
<1>13. ExecRec(v2) /\ v2.fd = u2.fd /\ (v2.ok = TRUE => v2.t[2] = v1.t[u2.fd[2]] /\ u2.fd[2] # -1 /\ v1.ok = TRUE)
      /\ \A f \in Fd : f # 2 => v2.t[f] = v1.t[f]
  <2>1. ExecRec(v1)
    BY <1>12
  <2> DEFINE v == Connect(v1, 2)
  <2>3. ExecRec(v) /\ v.fd = v1.fd
    BY <1>0, <2>1, ConnectIs
  <2>4. v.ok = TRUE => v.t[2] = v1.t[v1.fd[2]] /\ v1.fd[2] # -1 /\ v1.ok = TRUE
    <3>1. \A i \in Std : Connect(v1, i).ok = TRUE => Connect(v1, i).t[i] = v1.t[v1.fd[i]] /\ v1.fd[i] # -1 /\ v1.ok = TRUE
      BY <2>1, ConnectIs
    <3> QED BY <1>0, <3>1
  <2>5. \A f \in Fd : f # 2 => v.t[f] = v1.t[f]
    BY <1>0, <2>1, ConnectIs, ZenonT(60)
  <2>2. ExecRec(v2) /\ v2.fd = v1.fd /\ (v2.ok = TRUE => v2.t[2] = v1.t[v1.fd[2]] /\ v1.fd[2] # -1 /\ v1.ok = TRUE)
        /\ \A f \in Fd : f # 2 => v2.t[f] = v1.t[f]
    BY <2>3, <2>4, <2>5
  <2> QED BY <1>12, <2>2
<1> HIDE DEF v2
<1>10. CASE v2.ok = FALSE
  <2>1. x.t = NoTable /\ x.ok = FALSE
    BY <1>2, <1>10
  <2> QED BY <2>1 DEF NoTable, Table, x
<1>11. CASE v2.ok = TRUE
  <2> DEFINE q == close_all_fds(v2.t, 3, except)
             r == [f \in Fd |-> IF f >= 3 /\ f \notin except THEN Free ELSE v2.t[f]]
  <2>1. x.t = q /\ x.ok = TRUE
    BY <1>2, <1>11
  <2>2. r = [f \in Fd |-> IF f >= 3 /\ f \notin except THEN Free ELSE v2.t[f]]
    OBVIOUS
  <2>15. q = [f \in Fd |-> IF f \notin except /\ (f >= 3 \/ Closefrom(except, f)) THEN Free ELSE v2.t[f]]
    BY DEF close_all_fds
  <2> HIDE DEF r, q
  <2>3. Table(q)
    BY <2>15 DEF Table
  <2>4. 0 \in Fd /\ 1 \in Fd /\ 2 \in Fd /\ \A f \in Fd : f \in Std <=> ~(f >= 3)
    BY ExtraIsOpen, StdOpen DEF Fd, Std
  <2>16. \A f \in Fd : q[f] = IF f \in Unlisted(except) THEN Free ELSE r[f]
    <3> SUFFICES ASSUME NEW f \in Fd PROVE q[f] = IF f \in Unlisted(except) THEN Free ELSE r[f]
      OBVIOUS
    <3>1. f \in Int /\ ~(f > f)
      BY ExtraIsOpen DEF Fd
    <3>2. Closefrom(except, f) => f \notin except
      BY <3>1 DEF Closefrom, Above
    <3>3. f \in Unlisted(except) <=> f \in Std /\ Closefrom(except, f)
      BY DEF Unlisted
    <3>4. q[f] = IF f \notin except /\ (f >= 3 \/ Closefrom(except, f)) THEN Free ELSE v2.t[f]
      BY <2>15
    <3>5. r[f] = IF f >= 3 /\ f \notin except THEN Free ELSE v2.t[f]
      BY <2>2
    <3> QED BY <2>4, <3>2, <3>3, <3>4, <3>5
  <2>5. /\ r[0] = v2.t[0] /\ r[1] = v2.t[1] /\ r[2] = v2.t[2]
        /\ \A f \in Fd \ Std : r[f] = IF f \in except THEN v2.t[f] ELSE Free
    BY <2>2, <2>4
  <2>6. \A f \in Fd \ Std : v2.t[f] = u2.t[f]
    BY <1>9, <1>12, <1>13 DEF Std
  <2>7. /\ r[0] = v0.t[0] /\ r[1] = v1.t[1] /\ r[2] = v2.t[2]
    BY <1>12, <1>13, <2>4, <2>5
  <2>8. /\ r[0] = u2.t[u2.fd[0]] /\ u2.fd[0] # -1
        /\ r[1] = v0.t[u2.fd[1]] /\ u2.fd[1] # -1
        /\ r[2] = v1.t[u2.fd[2]] /\ u2.fd[2] # -1
    BY <1>9, <1>12, <1>13, <1>11, <2>7
  <2>9. u2.fd \in [Std -> Fd \cup {-1}]
    BY <1>8 DEF Assigned, ExecRec
  <2>10. \A i \in Std : u2.fd[i] \in Fd
    BY <2>8, <2>9 DEF Std
  <2>11. \A i \in Std : \E g \in Fd : r[i] = u2.t[g]
    <3>1. \A g \in Fd : \E h \in Fd : v0.t[g] = u2.t[h]
      BY <1>0, <1>9, <1>12, <1>13, <1>11, <2>10
    <3>2. \A g \in Fd : \E h \in Fd : v1.t[g] = u2.t[h]
      BY <1>0, <1>12, <1>13, <1>11, <2>10, <3>1
    <3> QED BY <2>8, <2>10, <3>1, <3>2, SMTT(60) DEF Std
  <2>12. \A f \in Fd : x.t[f] \in {t[g] : g \in Fd} \cup Nulls \cup {Free}
    <3>1. \A g \in Fd : u2.t[g] \in {t[h] : h \in Fd} \cup Nulls
      BY <1>1, <1>8 DEF Assigned
    <3>2. \A f \in Fd : r[f] = Free \/ \E g \in Fd : r[f] = u2.t[g]
      BY <2>5, <2>6, <2>11
    <3> QED BY <2>1, <2>16, <3>1, <3>2
  <2>13. Assigns(r, t, fd, except)
    <3>1. ASSUME NEW i \in Std, fd[i] = -1 PROVE r[i] = Null(i)
      <4>1. u2.fd[i] \in Fd \ Std /\ u2.t[u2.fd[i]] = Null(i)
        BY <1>1, <1>8, <2>10, <3>1, StdOpen DEF Assigned
      <4>2. v0.t[u2.fd[i]] = Null(i) /\ v1.t[u2.fd[i]] = Null(i)
        BY <1>0, <1>9, <1>12, <4>1
      <4> QED BY <2>8, <4>1, <4>2 DEF Std
    <3>2. ASSUME NEW i \in Std, fd[i] # -1, t[fd[i]] # Free,
                 ~(fd[i] \in Std /\ fd[i] < i /\ fd[fd[i]] # fd[i])
          PROVE  r[i] = t[fd[i]]
      <4> DEFINE g == fd[i]
      <4>1. g \in Fd /\ u2.fd[i] = g /\ u2.t[g] = t[g]
        BY <1>1, <1>8, <3>2 DEF Assigned
      <4>2. \A j \in Std : g = j /\ g < i => u2.fd[j] = g /\ fd[j] = g
        BY <1>1, <1>8, <3>2, StdOpen DEF Assigned
      <4> HIDE DEF g
      <4>3. v0.ok = TRUE /\ v1.ok = TRUE
        BY <1>11, <1>12, <1>13
      <4>4. CASE i = 0
        BY <2>8, <4>1, <4>4 DEF g
      <4>5. CASE i = 1
        <5>1. r[1] = v0.t[g]
          BY <2>8, <4>1, <4>5
        <5>2. v0.t[g] = u2.t[g]
          BY <1>0, <1>9, <4>1, <4>2, <4>3, <4>5
        <5> QED BY <4>1, <4>5, <5>1, <5>2 DEF g
      <4>6. CASE i = 2
        <5>1. r[2] = v1.t[g]
          BY <2>8, <4>1, <4>6
        <5>2. g # 0 => v0.t[g] = u2.t[g]
          BY <1>9, <4>1
        <5>3. g = 0 => v0.t[g] = u2.t[g]
          BY <1>0, <1>9, <4>2, <4>3, <4>6
        <5>4. g # 1 => v1.t[g] = v0.t[g]
          BY <1>12, <4>1
        <5>5. g = 1 => v1.t[g] = v0.t[g]
          BY <1>0, <1>12, <4>2, <4>3, <4>6
        <5> QED BY <4>1, <4>6, <5>1, <5>2, <5>3, <5>4, <5>5 DEF g
      <4> QED BY <4>4, <4>5, <4>6 DEF Std
    <3>3. ASSUME NEW f \in Fd \ Std
          PROVE  IF f \in except THEN t[f] # Free => r[f] = t[f] ELSE r[f] = Free
      BY <1>1, <1>8, <2>5, <2>6, <3>3 DEF Assigned
    <3> QED BY <3>1, <3>2, <3>3 DEF Assigns
  <2>17. Execs(q, t, fd, except)
    BY <2>13, <2>16 DEF Execs
  <2> QED BY <2>1, <2>3, <2>12, <2>17 DEF x
<1> QED BY <1>13, <1>10, <1>11 DEF ExecRec, x
-----------------------------------------------------------------------------
(***************************************************************************)
(* What is behind the descriptors of a spawn.                               *)
(***************************************************************************)
InEnd(p) == OpenFile(p, "in", "r")
OutEnd(p) == OpenFile(p, "out", "w")
ErrEnd(p) == OpenFile(p, "err", "w")
PipeFiles(p) == {OpenFile(p, stream, end) : stream \in {"in", "out", "err", "sock"}, end \in {"r", "w", "a", "b"}}

\* Pipes of different processes are different, and so are their ends.
LEMMA PipeFilesAre ==
  ASSUME NEW p \in Pid
  PROVE  /\ Free \notin PipeFiles(p) /\ ExtraFile \notin PipeFiles(p)
         /\ \A q \in Pid \ {p} : PipeFiles(p) \cap PipeFiles(q) = {}
         /\ PipeFiles(p) \cap Nulls = {} /\ \A i : <<"std", i>> \notin PipeFiles(p)
         /\ {InEnd(p), OutEnd(p), ErrEnd(p)} \subseteq PipeFiles(p)
         /\ \A stream, end : /\ stream \in {"in", "out", "err", "sock"} /\ end \in {"r", "w", "a", "b"}
                             => /\ OpenFile(p, stream, end) \in PipeFiles(p)
                                /\ OpenFile(p, stream, end) = InEnd(p) => stream = "in" /\ end = "r"
                                /\ OpenFile(p, stream, end) = OutEnd(p) => stream = "out" /\ end = "w"
                                /\ OpenFile(p, stream, end) = ErrEnd(p) => stream = "err" /\ end = "w"
<1>1. \A f \in PipeFiles(p) : DOMAIN f = 1..4 /\ f[1] = "pipe" /\ f[2] = p
  BY DEF PipeFiles, OpenFile
<1>2. \A q \in Pid : \A f \in PipeFiles(q) : f[2] = q
  BY DEF PipeFiles, OpenFile
<1>3. Free \notin PipeFiles(p) /\ ExtraFile \notin PipeFiles(p)
  BY FreeIsNoFile DEF PipeFiles, OpenFile
<1>4. PipeFiles(p) \cap Nulls = {}
  <2>1. \A f \in Nulls : f[1] = "null"
    BY DEF Nulls
  <2> QED BY <1>1, <2>1
<1>5. \A i : <<"std", i>> \notin PipeFiles(p)
  <2>1. \A i : <<"std", i>>[1] = "std"
    OBVIOUS
  <2> QED BY <1>1, <2>1
<1>6. \A stream, end : /\ stream \in {"in", "out", "err", "sock"} /\ end \in {"r", "w", "a", "b"}
                       => OpenFile(p, stream, end) \in PipeFiles(p)
  BY DEF PipeFiles
<1>7. \A stream, end : /\ OpenFile(p, stream, end) = InEnd(p) => stream = "in" /\ end = "r"
                       /\ OpenFile(p, stream, end) = OutEnd(p) => stream = "out" /\ end = "w"
                       /\ OpenFile(p, stream, end) = ErrEnd(p) => stream = "err" /\ end = "w"
  BY DEF OpenFile, InEnd, OutEnd, ErrEnd
<1>8. {InEnd(p), OutEnd(p), ErrEnd(p)} \subseteq PipeFiles(p)
  BY <1>6 DEF InEnd, OutEnd, ErrEnd
<1>9. \A q \in Pid \ {p} : PipeFiles(p) \cap PipeFiles(q) = {}
  BY <1>2
<1> QED BY <1>3, <1>4, <1>5, <1>6, <1>7, <1>8, <1>9

\* Nothing that was open has changed; what is new are the pipes, and each end of
\* the child is only behind its own descriptor.
SameFiles(t) == \A f \in OpenSet(tab) : t[f] = tab[f]
Filled(t, p, a, b, c) ==
  /\ SameFiles(t)
  /\ \A f \in New : t[f] \in PipeFiles(p) \cup {Free}
  /\ \A f \in New : t[f] = InEnd(p) => f = a
  /\ \A f \in New : t[f] = OutEnd(p) => f = b
  /\ \A f \in New : t[f] = ErrEnd(p) => f = c

\* Behind a descriptor that a child is to have is the file; -1 becomes /dev/null.
Gives(t, fd, i, file) ==
  \/ fd = i /\ file = <<"std", i>>
  \/ fd = -1 /\ file \in {Null(i), Free}
  \/ fd \in New /\ t[fd] = file /\ file # Free

\* t2 is t with x and y filled.
Opened(t, t2, x, y, r, w) ==
  /\ x \in Fd \ OpenSet(t) /\ y \in Fd \ OpenSet(t) /\ x # y
  /\ t2[x] = r /\ t2[y] = w /\ \A f \in Fd \ {x, y} : t2[f] = t[f]

\* A pipe fills two descriptors.
LEMMA MakePipeOpens ==
  ASSUME NEW t, Table(t), CanPipe(t), NEW r, NEW w
  PROVE  Opened(t, MakePipe(t, r, w), Pair(t)[1], Pair(t)[2], r, w)
<1> DEFINE a == Pair(t)[1]
           b == Pair(t)[2]
<1>1. a \in Fd \ OpenSet(t) /\ b \in Fd \ OpenSet(t) /\ a # b
  BY PairIs
<1> HIDE DEF a, b
<1>2. MakePipe(t, r, w) = [t EXCEPT ![a] = r, ![b] = w]
  BY DEF MakePipe, a, b
<1>3. Opened(t, MakePipe(t, r, w), a, b, r, w)
  BY <1>1, <1>2 DEF Table, Opened
<1> QED BY <1>3 DEF a, b

\* What a pipe leaves alone.
LEMMA FilledMore ==
  ASSUME Std \subseteq OpenSet(tab), NEW p \in Pid, NEW t, NEW a, NEW b, NEW c, Filled(t, p, a, b, c),
         OpenSet(tab) \subseteq OpenSet(t), NEW t2, NEW x, NEW y, NEW r, NEW w, Opened(t, t2, x, y, r, w),
         r \in PipeFiles(p), w \in PipeFiles(p), NEW a2, NEW b2, NEW c2,
         a2 = a \/ a = -1, b2 = b \/ b = -1, c2 = c \/ c = -1,
         r = InEnd(p) => a2 = x, r = OutEnd(p) => b2 = x, r = ErrEnd(p) => c2 = x,
         w = InEnd(p) => a2 = y, w = OutEnd(p) => b2 = y, w = ErrEnd(p) => c2 = y
  PROVE  Filled(t2, p, a2, b2, c2) /\ \A fd, i, file : Gives(t, fd, i, file) => Gives(t2, fd, i, file)
<1>1. x \in New /\ y \in New /\ x # y /\ t2[x] = r /\ t2[y] = w /\ \A f \in New \ {x, y} : t2[f] = t[f]
  BY DEF New, Opened
<1>2. SameFiles(t2)
  BY DEF SameFiles, Filled, Opened, OpenSet
<1>3. -1 \notin New
  BY NewIs
<1>4. \A fd, i, file : Gives(t, fd, i, file) => Gives(t2, fd, i, file)
  <2>1. \A f \in New : t[f] # Free => t2[f] = t[f]
    BY DEF Opened, OpenSet, New
  <2> QED BY <2>1 DEF Gives
<1>5. \A f \in New : t2[f] \in PipeFiles(p) \cup {Free}
  BY <1>1 DEF Filled
<1>6. \A f \in New : t2[f] = InEnd(p) => f = a2
  BY <1>1, <1>3 DEF Filled
<1>7. \A f \in New : t2[f] = OutEnd(p) => f = b2
  BY <1>1, <1>3 DEF Filled
<1>8. \A f \in New : t2[f] = ErrEnd(p) => f = c2
  BY <1>1, <1>3 DEF Filled
<1> QED BY <1>2, <1>4, <1>5, <1>6, <1>7, <1>8 DEF Filled

\* The same for one descriptor.
LEMMA FilledOne ==
  ASSUME Std \subseteq OpenSet(tab), NEW p \in Pid, NEW t, NEW a, NEW b, NEW c, Filled(t, p, a, b, c),
         OpenSet(tab) \subseteq OpenSet(t), NEW t2, NEW x \in Fd \ OpenSet(t),
         t2[x] \in PipeFiles(p) \ {InEnd(p), OutEnd(p), ErrEnd(p)}, \A f \in Fd \ {x} : t2[f] = t[f],
         NEW b2, b2 = b \/ b = -1
  PROVE  Filled(t2, p, a, b2, c) /\ \A fd, i, file : Gives(t, fd, i, file) => Gives(t2, fd, i, file)
<1>1. x \in New /\ \A f \in New \ {x} : t2[f] = t[f]
  BY DEF New
<1>2. SameFiles(t2)
  BY DEF SameFiles, Filled, OpenSet
<1>3. -1 \notin New
  BY NewIs
<1>4. \A fd, i, file : Gives(t, fd, i, file) => Gives(t2, fd, i, file)
  <2>1. \A f \in New : t[f] # Free => t2[f] = t[f]
    BY DEF OpenSet, New
  <2> QED BY <2>1 DEF Gives
<1>5. \A f \in New : t2[f] \in PipeFiles(p) \cup {Free}
  BY <1>1 DEF Filled
<1>6. \A f \in New : (t2[f] = InEnd(p) => f = a) /\ (t2[f] = ErrEnd(p) => f = c)
  BY <1>1 DEF Filled
<1>7. \A f \in New : t2[f] = OutEnd(p) => f = b2
  BY <1>1, <1>3 DEF Filled
<1> QED BY <1>2, <1>4, <1>5, <1>6, <1>7 DEF Filled

\* A duplicate is another descriptor for the file.
LEMMA DupOpens ==
  ASSUME NEW s, SpawnRec(s), Table(s.t), NEW i \in {1, 2}, NEW fd \in OpenSet(s.t), NEW fails \in BOOLEAN
  PROVE  LET d == Dup(s, i, fd, fails)
         IN  \/ d = s
             \/ /\ d.out[i] \in Fd \ OpenSet(s.t) /\ d.t[d.out[i]] = s.t[fd]
                /\ \A f \in Fd \ {d.out[i]} : d.t[f] = s.t[f]
                /\ d.out[3 - i] = s.out[3 - i] /\ d.in = s.in /\ d.err = s.err /\ d.ok = s.ok
<1>1. CASE fails \/ FreeFds(s.t) = {}
  BY <1>1 DEF Dup
<1>2. CASE ~(fails \/ FreeFds(s.t) = {})
  <2> DEFINE x == Lowest(FreeFds(s.t))
             t2 == OpenFds(s.t, s.t[fd])
             d == [s EXCEPT !.out[i] = x, !.t = t2]
  <2>1. s.t[fd] # Free
    BY DEF OpenSet
  <2>2. x \in Fd \ OpenSet(s.t)
    BY <1>2, <2>1, OpenFdsIs
  <2>3. Dup(s, i, fd, fails) = d
    BY <1>2 DEF Dup
  <2>4. t2 = [s.t EXCEPT ![x] = s.t[fd]]
    BY DEF OpenFds
  <2> HIDE DEF x, t2
  <2>5. t2[x] = s.t[fd] /\ \A f \in Fd \ {x} : t2[f] = s.t[f]
    BY <2>2, <2>4 DEF Table
  <2>6. /\ d.ok = s.ok /\ d.in = s.in /\ d.err = s.err /\ d.t = t2
        /\ d.out[i] = x /\ d.out[3 - i] = s.out[3 - i]
    BY DEF SpawnRec
  <2> HIDE DEF d
  <2> QED BY <2>2, <2>3, <2>5, <2>6
<1> QED BY <1>1, <1>2

\* What a spawn has prepared so far, of its first, second and third file.
InGiven(s, p, flags) == Gives(s.t, s.in[1], 0, DefaultFile(p, flags, 0, s.out[2]))
OutGiven(s, p, flags) == Gives(s.t, s.out[2], 1, DefaultFile(p, flags, 1, s.out[2]))
ErrGiven(s, p, flags) == Gives(s.t, s.err[2], 2, DefaultFile(p, flags, 2, s.out[2]))
FilledFds(s, p) == Filled(s.t, p, s.in[1], s.out[2], s.err[2])

\* The sockets: the child reads one and writes the other.
LEMMA PrepareSocketsFiles ==
  ASSUME Std \subseteq OpenSet(tab), NEW s, Ready(s), s.in = NoPair, s.out = NoPair,
         s.err = NoPair, NEW p \in Pid, FilledFds(s, p), NEW flags \in FlagSets, flags.sock, NEW fail
  PROVE  LET q == PrepareSockets(s, p, fail)
         IN  SameFiles(q.t) /\ (q.ok = TRUE => FilledFds(q, p) /\ InGiven(q, p, flags) /\ OutGiven(q, p, flags))
<1>1. CASE fail = "in" \/ ~CanPipe(s.t)
  BY <1>1 DEF PrepareSockets, SpawnFailed, Ready, HoldsFds, SpawnRec, FilledFds, Filled
<1>2. CASE ~(fail = "in" \/ ~CanPipe(s.t))
  <2> DEFINE sa == OpenFile(p, "sock", "a")
             sb == OpenFile(p, "sock", "b")
             x == Pair(s.t)[1]
             y == Pair(s.t)[2]
             t2 == MakePipe(s.t, sa, sb)
             q == [s EXCEPT !.in = Pair(s.t), !.t = t2]
             m == fail = "dup"
             d == Dup(q, 1, q.in[1], m)
             e == Dup(d, 2, q.in[2], m)
  <2>1. /\ Holds(s.t, -1, -1, -1, -1, -1, -1) /\ Table(s.t) /\ SpawnRec(s) /\ s.ok = TRUE
        /\ Filled(s.t, p, -1, -1, -1)
    BY DEF Ready, HoldsFds, NoPair, Holds, FilledFds
  <2>2. PrepareSockets(s, p, fail) = e
    BY <1>2 DEF PrepareSockets
  <2>3. /\ sa \in PipeFiles(p) \ {InEnd(p), OutEnd(p), ErrEnd(p)} /\ sa # Free
        /\ sb \in PipeFiles(p) \ {InEnd(p), OutEnd(p), ErrEnd(p)} /\ sb # Free
    BY PipeFilesAre, FilesAreFiles
  <2>4. /\ Table(t2) /\ OpenSet(t2) = OpenSet(s.t) \cup {x, y} /\ Opened(s.t, t2, x, y, sa, sb)
    <3>1. CanPipe(s.t)
      BY <1>2 DEF CanPipe
    <3> HIDE DEF sa, sb
    <3> QED BY <2>1, <2>3, <3>1, MakePipeIs, MakePipeOpens
  <2>5. /\ q.in = Pair(s.t) /\ q.out = s.out /\ q.err = s.err /\ q.t = t2 /\ q.ok = TRUE /\ SpawnRec(q)
    BY <2>1 DEF SpawnRec
  <2> HIDE DEF t2, sa, sb, q, x, y, m
  <2>6. Filled(t2, p, x, -1, -1) /\ t2[x] = sa /\ t2[y] = sb /\ x \in OpenSet(t2) /\ y \in OpenSet(t2)
        /\ OpenSet(tab) \subseteq OpenSet(t2) /\ x \in New
    BY <2>1, <2>3, <2>4, FilledMore DEF Opened, Holds, OpenSet, New
  <2>7. q.in[1] = x /\ q.in[2] = y /\ q.out[1] = -1 /\ q.out[2] = -1 /\ q.err[1] = -1 /\ q.err[2] = -1
    BY <2>5 DEF NoPair, x, y
  <2>8. m \in BOOLEAN
    BY DEF m
  <2>9. Ready(q)
    <3>1. Holds(t2, x, y, -1, -1, -1, -1)
      BY <2>1, <2>4, HoldsMore DEF Opened
    <3> QED BY <2>5, <2>7, <3>1, Zenon DEF Ready, HoldsFds
  <2>10. q.in[1] \in OpenSet(q.t) /\ q.in[2] \in OpenSet(q.t) /\ Table(q.t)
    BY <2>4, <2>5, <2>6, <2>7
  <2>11. Ready(d) /\ d.err = q.err /\ d.in = q.in /\ d.out[2] = -1 /\ OpenSet(q.t) \subseteq OpenSet(d.t)
    <3> DEFINE k == q.in[1]
               g == Dup(q, 1, k, m)
    <3>1. k \in OpenSet(q.t) /\ 1 \in {1, 2}
      BY <2>10
    <3> HIDE DEF k
    <3>2. Ready(g) /\ g.err = q.err /\ g.in = q.in /\ g.out[2] = q.out[2] /\ OpenSet(q.t) \subseteq OpenSet(g.t)
      BY <2>7, <2>8, <2>9, <3>1, DupIs
    <3> QED BY <2>7, <3>2 DEF k
  <2>12. /\ Filled(d.t, p, x, -1, -1) /\ Gives(d.t, x, 0, sa) /\ d.t[y] = sb
    <3>1. d = q \/ (/\ d.out[1] \in Fd \ OpenSet(q.t) /\ d.t[d.out[1]] = sa
                    /\ \A f \in Fd \ {d.out[1]} : d.t[f] = q.t[f])
      BY <2>5, <2>6, <2>7, <2>8, <2>10, DupOpens
    <3>2. Gives(t2, x, 0, sa)
      BY <2>3, <2>6 DEF Gives
    <3>3. CASE d = q
      BY <2>5, <2>6, <3>2, <3>3
    <3>4. CASE d # q
      <4>1. Filled(d.t, p, x, -1, -1) /\ Gives(d.t, x, 0, sa)
        BY <2>3, <2>5, <2>6, <3>1, <3>2, <3>4, FilledOne
      <4>2. y \in Fd \ {d.out[1]}
        BY <2>5, <2>6, <3>1, <3>4 DEF OpenSet
      <4> QED BY <2>5, <2>6, <3>1, <3>4, <4>1, <4>2
    <3> QED BY <3>3, <3>4
  <2> HIDE DEF d
  <2>13. SpawnRec(d) /\ Table(d.t) /\ d.ok = TRUE /\ y \in OpenSet(d.t) /\ d.in[1] = x /\ d.in[2] = y
         /\ OpenSet(tab) \subseteq OpenSet(d.t) /\ d.err[2] = -1
    BY <2>5, <2>6, <2>7, <2>11 DEF Ready, HoldsFds, Holds
  <2>14. e = Dup(d, 2, y, m)
    BY <2>7
  <2>15. e = d \/ (/\ e.out[2] \in Fd \ OpenSet(d.t) /\ e.t[e.out[2]] = sb
                   /\ \A f \in Fd \ {e.out[2]} : e.t[f] = d.t[f]
                   /\ e.in = d.in /\ e.err = d.err)
    BY <2>8, <2>12, <2>13, <2>14, DupOpens
  <2> HIDE DEF e
  <2>16. DefaultFile(p, flags, 0, e.out[2]) = sa
         /\ DefaultFile(p, flags, 1, e.out[2]) = IF e.out[2] = -1 THEN Free ELSE sb
    BY DEF DefaultFile, sa, sb
  <2>17. CASE e = d
    <3>1. e.out[2] = -1 /\ e.in[1] = x /\ e.err[2] = -1
      BY <2>11, <2>13, <2>17
    <3>2. FilledFds(e, p)
      BY <2>12, <2>17, <3>1 DEF FilledFds
    <3>3. InGiven(e, p, flags) /\ OutGiven(e, p, flags)
      BY <2>12, <2>16, <2>17, <3>1 DEF InGiven, OutGiven, Gives
    <3> QED BY <2>2, <3>2, <3>3 DEF FilledFds, Filled
  <2>18. CASE e # d
    <3>1. e.out[2] \in New /\ e.out[2] # -1 /\ e.in[1] = x /\ e.err[2] = -1
      BY <2>13, <2>15, <2>18, NewIs DEF New
    <3>2. Filled(e.t, p, x, e.out[2], -1) /\ Gives(e.t, x, 0, sa)
      BY <2>3, <2>12, <2>13, <2>15, <2>18, FilledOne
    <3>3. FilledFds(e, p)
      BY <3>1, <3>2 DEF FilledFds
    <3>4. InGiven(e, p, flags)
      BY <2>16, <3>1, <3>2 DEF InGiven
    <3>5. OutGiven(e, p, flags)
      BY <2>3, <2>15, <2>16, <2>18, <3>1 DEF OutGiven, Gives
    <3> QED BY <2>2, <3>3, <3>4, <3>5 DEF FilledFds, Filled
  <2> QED BY <2>17, <2>18
<1> QED BY <1>1, <1>2

\* A close on an error path touches nothing that was open before.
LEMMA CloseKeeps ==
  ASSUME Std \subseteq OpenSet(tab), NEW t, SameFiles(t), Table(t), NEW fd, NEW std
  PROVE  /\ fd \in New \cup {-1} => SameFiles(CloseFds(t, fd)) /\ Table(CloseFds(t, fd))
         /\ fd \in New \cup {-1, std} => SameFiles(CloseUnless(t, fd, std)) /\ Table(CloseUnless(t, fd, std))
<1>1. fd \in New \cup {-1} => SameFiles(CloseFds(t, fd)) /\ Table(CloseFds(t, fd))
  <2>1. CASE fd \notin Fd
    BY <2>1 DEF CloseFds
  <2>2. CASE fd \in Fd
    <3>1. CloseFds(t, fd) = [t EXCEPT ![fd] = Free]
      BY <2>2 DEF CloseFds
    <3>2. \A f \in Fd : f # fd => CloseFds(t, fd)[f] = t[f]
      BY <2>2, <3>1 DEF Table
    <3>3. fd \in New \cup {-1} => fd \notin OpenSet(tab)
      BY NewIs
    <3>4. OpenSet(tab) \subseteq Fd /\ Table(CloseFds(t, fd))
      BY CloseFdsIs DEF OpenSet
    <3> QED BY <3>2, <3>3, <3>4 DEF SameFiles
  <2> QED BY <2>1, <2>2
<1>2. fd # std => CloseUnless(t, fd, std) = CloseFds(t, fd)
  BY DEF CloseUnless
<1>3. fd = std => CloseUnless(t, fd, std) = t
  BY DEF CloseUnless
<1> QED BY <1>1, <1>2, <1>3

LEMMA ClosedSame ==
  ASSUME Std \subseteq OpenSet(tab), NEW s, HoldsFds(s), SameFiles(s.t)
  PROVE  /\ SameFiles(CloseIn(s).t) /\ SameFiles(CloseOut(CloseIn(s)).t)
         /\ SameFiles(CloseErr(CloseOut(CloseIn(s))).t)
<1> DEFINE c == CloseIn(s)
           d == CloseOut(c)
           e == CloseErr(d)
<1>1. /\ SpawnRec(s) /\ Table(s.t)
      /\ s.in[1] \in New \cup {-1, 0} /\ s.in[2] \in New \cup {-1}
      /\ s.out[1] \in New \cup {-1} /\ s.out[2] \in New \cup {-1, 1}
      /\ s.err[1] \in New \cup {-1} /\ s.err[2] \in New \cup {-1, 2}
  BY DEF HoldsFds, Holds
<1>2. c = [s EXCEPT !.t = CloseFds(CloseUnless(s.t, s.in[1], 0), s.in[2])]
  BY DEF CloseIn
<1>3. SpawnRec(c) /\ c.out = s.out /\ c.err = s.err /\ c.t = CloseFds(CloseUnless(s.t, s.in[1], 0), s.in[2])
  BY <1>1, <1>2 DEF SpawnRec
<1>4. SameFiles(c.t) /\ Table(c.t)
  BY <1>1, <1>3, CloseKeeps
<1>5. d = [c EXCEPT !.t = CloseUnless(CloseFds(c.t, c.out[1]), c.out[2], 1)]
  BY DEF CloseOut
<1> HIDE DEF c
<1>6. SpawnRec(d) /\ d.err = s.err /\ d.t = CloseUnless(CloseFds(c.t, s.out[1]), s.out[2], 1)
  BY <1>3, <1>5 DEF SpawnRec
<1>7. SameFiles(d.t) /\ Table(d.t)
  BY <1>1, <1>4, <1>6, CloseKeeps
<1>8. e = [d EXCEPT !.t = CloseUnless(CloseFds(d.t, d.err[1]), d.err[2], 2)]
  BY DEF CloseErr
<1> HIDE DEF d
<1>9. e.t = CloseUnless(CloseFds(d.t, s.err[1]), s.err[2], 2)
  BY <1>6, <1>8 DEF SpawnRec
<1>10. SameFiles(e.t)
  BY <1>1, <1>7, <1>9, CloseKeeps
<1> QED BY <1>4, <1>7, <1>10 DEF c, d

\* The input,
LEMMA PrepareInFiles ==
  ASSUME Std \subseteq OpenSet(tab), NEW s, Ready(s), s.in = NoPair, s.out = NoPair,
         s.err = NoPair, NEW p \in Pid, FilledFds(s, p), NEW flags \in FlagSets, ~flags.sock, NEW fail
  PROVE  LET q == PrepareIn(s, p, flags, fail)
         IN  SameFiles(q.t) /\ (q.ok = TRUE => FilledFds(q, p) /\ InGiven(q, p, flags))
<1>0. /\ Holds(s.t, -1, -1, -1, -1, -1, -1) /\ Table(s.t) /\ SpawnRec(s) /\ s.ok = TRUE
      /\ Filled(s.t, p, -1, -1, -1) /\ SameFiles(s.t)
  BY DEF Ready, HoldsFds, NoPair, Holds, FilledFds, Filled
<1>1. CASE flags.std[0] # "pipe"
  <2> DEFINE k == flags.std[0] = "keep"
             q == [s EXCEPT !.in = IF k THEN <<0, -1>> ELSE NoPair]
  <2>1. PrepareIn(s, p, flags, fail) = q
    BY <1>1 DEF PrepareIn
  <2>2. q.t = s.t /\ q.out[2] = -1 /\ q.err[2] = -1 /\ q.in[1] = IF k THEN 0 ELSE -1
    BY <1>0 DEF SpawnRec, NoPair
  <2> HIDE DEF q
  <2>3. flags.std[0] \in {"keep", "null"} /\ 0 \in Std
    BY <1>1, FlagsAreFlags DEF Std
  <2>4. DefaultFile(p, flags, 0, q.out[2]) = IF k THEN <<"std", 0>> ELSE Null(0)
    BY <2>3 DEF DefaultFile
  <2>5. InGiven(q, p, flags)
    BY <2>2, <2>4 DEF InGiven, Gives
  <2>6. FilledFds(q, p)
    BY <1>0, <2>2, NewIs DEF FilledFds, Filled
  <2> QED BY <1>0, <2>1, <2>2, <2>5, <2>6
<1>2. CASE flags.std[0] = "pipe" /\ (fail = "in" \/ ~CanPipe(s.t))
  BY <1>0, <1>2 DEF PrepareIn, SpawnFailed, SpawnRec
<1>3. CASE flags.std[0] = "pipe" /\ ~(fail = "in" \/ ~CanPipe(s.t))
  <2> DEFINE r == OpenFile(p, "in", "r")
             w == OpenFile(p, "in", "w")
             x == Pair(s.t)[1]
             y == Pair(s.t)[2]
             t2 == MakePipe(s.t, r, w)
             q == [s EXCEPT !.in = Pair(s.t), !.t = t2]
  <2>1. PrepareIn(s, p, flags, fail) = q
    BY <1>3 DEF PrepareIn
  <2>2. r \in PipeFiles(p) /\ w \in PipeFiles(p) \ {InEnd(p), OutEnd(p), ErrEnd(p)} /\ r # Free
        /\ r = InEnd(p) /\ r \notin {OutEnd(p), ErrEnd(p)}
    BY PipeFilesAre, FilesAreFiles DEF InEnd
  <2>3. Opened(s.t, t2, x, y, r, w)
    BY <1>0, <1>3, MakePipeOpens DEF CanPipe
  <2>4. q.t = t2 /\ q.in[1] = x /\ q.out[2] = -1 /\ q.err[2] = -1
    BY <1>0 DEF SpawnRec, NoPair
  <2>5. DefaultFile(p, flags, 0, q.out[2]) = r
    BY <1>3 DEF DefaultFile
  <2> HIDE DEF t2, x, y, r, w, q
  <2>6. OpenSet(tab) \subseteq OpenSet(s.t)
    BY <1>0 DEF Holds
  <2>7. Filled(t2, p, x, -1, -1) /\ t2[x] = r /\ x \in New
    BY <1>0, <2>2, <2>3, <2>6, FilledMore DEF Opened, New
  <2> QED BY <2>1, <2>2, <2>4, <2>5, <2>7 DEF FilledFds, InGiven, Gives, Filled
<1> QED BY <1>1, <1>2, <1>3

\* the output,
LEMMA PrepareOutFiles ==
  ASSUME Std \subseteq OpenSet(tab), NEW s, Ready(s), s.out = NoPair,
         s.err = NoPair, NEW p \in Pid, NEW flags \in FlagSets, ~flags.sock,
         FilledFds(s, p), InGiven(s, p, flags), NEW fail
  PROVE  LET q == PrepareOut(s, p, flags, fail)
         IN  SameFiles(q.t) /\ (q.ok = TRUE => FilledFds(q, p) /\ InGiven(q, p, flags) /\ OutGiven(q, p, flags))
<1>0. /\ HoldsFds(s) /\ Table(s.t) /\ SpawnRec(s) /\ s.ok = TRUE
      /\ Filled(s.t, p, s.in[1], -1, -1) /\ SameFiles(s.t)
  BY DEF Ready, HoldsFds, NoPair, Holds, FilledFds, Filled
<1>a. 0 \in Std /\ 1 \in Std
  BY DEF Std
<1>b. \A out : DefaultFile(p, flags, 0, out) = DefaultFile(p, flags, 0, s.out[2])
  BY DEF DefaultFile
<1>1. CASE flags.std[1] # "pipe"
  <2> DEFINE k == flags.std[1] = "keep"
             q == [s EXCEPT !.out = IF k THEN <<-1, 1>> ELSE NoPair]
  <2>1. PrepareOut(s, p, flags, fail) = q
    BY <1>1 DEF PrepareOut
  <2>2. q.t = s.t /\ q.in = s.in /\ q.err[2] = -1 /\ q.out[2] = IF k THEN 1 ELSE -1
    BY <1>0 DEF SpawnRec, NoPair
  <2> HIDE DEF q
  <2>3. flags.std[1] \in {"keep", "null"}
    BY <1>1, <1>a, FlagsAreFlags
  <2>4. DefaultFile(p, flags, 1, q.out[2]) = IF k THEN <<"std", 1>> ELSE Null(1)
    BY <2>3 DEF DefaultFile
  <2>5. OutGiven(q, p, flags)
    BY <2>2, <2>4 DEF OutGiven, Gives
  <2>6. FilledFds(q, p)
    BY <1>0, <2>2, NewIs DEF FilledFds, Filled
  <2>7. InGiven(q, p, flags)
    BY <1>b, <2>2 DEF InGiven
  <2> QED BY <1>0, <2>1, <2>2, <2>5, <2>6, <2>7
<1>2. CASE flags.std[1] = "pipe" /\ (fail = "out" \/ ~CanPipe(s.t))
  <2> DEFINE c == CloseIn(s)
  <2>1. PrepareOut(s, p, flags, fail) = SpawnFailed(c)
    BY <1>2 DEF PrepareOut
  <2>2. SameFiles(c.t) /\ SpawnRec(c)
    BY <1>0, ClosedSame, CloseInIs DEF HoldsFds, Holds
  <2> HIDE DEF c
  <2> QED BY <2>1, <2>2 DEF SpawnFailed, SpawnRec
<1>3. CASE flags.std[1] = "pipe" /\ ~(fail = "out" \/ ~CanPipe(s.t))
  <2> DEFINE r == OpenFile(p, "out", "r")
             w == OpenFile(p, "out", "w")
             x == Pair(s.t)[1]
             y == Pair(s.t)[2]
             t2 == MakePipe(s.t, r, w)
             q == [s EXCEPT !.out = Pair(s.t), !.t = t2]
  <2>1. PrepareOut(s, p, flags, fail) = q
    BY <1>3 DEF PrepareOut
  <2>2. w \in PipeFiles(p) /\ r \in PipeFiles(p) \ {InEnd(p), OutEnd(p), ErrEnd(p)} /\ w # Free
        /\ w = OutEnd(p) /\ w \notin {InEnd(p), ErrEnd(p)}
    BY PipeFilesAre, FilesAreFiles DEF OutEnd
  <2>3. Opened(s.t, t2, x, y, r, w)
    BY <1>0, <1>3, MakePipeOpens DEF CanPipe
  <2>4. q.t = t2 /\ q.in = s.in /\ q.out[2] = y /\ q.err[2] = -1
    BY <1>0 DEF SpawnRec, NoPair
  <2>5. DefaultFile(p, flags, 1, q.out[2]) = w
    BY <1>3 DEF DefaultFile
  <2> HIDE DEF t2, x, y, r, w, q
  <2>6. OpenSet(tab) \subseteq OpenSet(s.t)
    BY <1>0 DEF HoldsFds, Holds
  <2>7. Filled(t2, p, s.in[1], y, -1) /\ t2[y] = w /\ y \in New
        /\ \A fd, i, file : Gives(s.t, fd, i, file) => Gives(t2, fd, i, file)
    BY <1>0, <2>2, <2>3, <2>6, FilledMore DEF Opened, New
  <2>8. FilledFds(q, p) /\ SameFiles(q.t)
    BY <2>4, <2>7 DEF FilledFds, Filled
  <2>9. OutGiven(q, p, flags)
    BY <2>2, <2>4, <2>5, <2>7 DEF OutGiven, Gives
  <2>10. InGiven(q, p, flags)
    BY <1>b, <2>4, <2>7 DEF InGiven
  <2> QED BY <2>1, <2>8, <2>9, <2>10
<1> QED BY <1>1, <1>2, <1>3

\* and the errors.
LEMMA PrepareErrFiles ==
  ASSUME Std \subseteq OpenSet(tab), NEW s, Ready(s),
         s.err = NoPair, NEW p \in Pid, NEW flags \in FlagSets,
         FilledFds(s, p), InGiven(s, p, flags), OutGiven(s, p, flags), NEW fail
  PROVE  LET q == PrepareErr(s, p, flags, fail)
         IN  SameFiles(q.t) /\ (q.ok = TRUE => /\ FilledFds(q, p) /\ InGiven(q, p, flags)
                                               /\ OutGiven(q, p, flags) /\ ErrGiven(q, p, flags))
<1>0. /\ HoldsFds(s) /\ Table(s.t) /\ SpawnRec(s) /\ s.ok = TRUE
      /\ Filled(s.t, p, s.in[1], s.out[2], -1) /\ SameFiles(s.t)
  BY DEF Ready, HoldsFds, NoPair, Holds, FilledFds, Filled
<1>a. 2 \in Std /\ ~(2 < 2)
  BY DEF Std
<1>1. CASE flags.std[2] # "pipe"
  <2> DEFINE k == flags.std[2] = "keep"
             q == [s EXCEPT !.err = IF k THEN <<-1, 2>> ELSE NoPair]
  <2>1. PrepareErr(s, p, flags, fail) = q
    BY <1>1 DEF PrepareErr
  <2>2. q.t = s.t /\ q.in = s.in /\ q.out = s.out /\ q.err[2] = IF k THEN 2 ELSE -1
    BY <1>0 DEF SpawnRec, NoPair
  <2> HIDE DEF q
  <2>3. flags.std[2] \in {"keep", "null"}
    BY <1>1, <1>a, FlagsAreFlags
  <2>4. DefaultFile(p, flags, 2, q.out[2]) = IF k THEN <<"std", 2>> ELSE Null(2)
    BY <1>a, <2>3 DEF DefaultFile
  <2>5. ErrGiven(q, p, flags)
    BY <2>2, <2>4 DEF ErrGiven, Gives
  <2>6. FilledFds(q, p)
    BY <1>0, <2>2, NewIs DEF FilledFds, Filled
  <2>7. InGiven(q, p, flags) /\ OutGiven(q, p, flags)
    BY <2>2 DEF InGiven, OutGiven
  <2> QED BY <1>0, <2>1, <2>2, <2>5, <2>6, <2>7
<1>2. CASE flags.std[2] = "pipe" /\ (fail = "err" \/ ~CanPipe(s.t))
  <2> DEFINE c == CloseOut(CloseIn(s))
  <2>1. PrepareErr(s, p, flags, fail) = SpawnFailed(c)
    BY <1>2 DEF PrepareErr
  <2>2. SameFiles(c.t)
    BY <1>0, ClosedSame
  <2>3. SpawnRec(c)
    BY <1>0 DEF SpawnRec, CloseOut, CloseIn
  <2> HIDE DEF c
  <2> QED BY <2>1, <2>2, <2>3 DEF SpawnFailed, SpawnRec
<1>3. CASE flags.std[2] = "pipe" /\ ~(fail = "err" \/ ~CanPipe(s.t))
  <2> DEFINE r == OpenFile(p, "err", "r")
             w == OpenFile(p, "err", "w")
             x == Pair(s.t)[1]
             y == Pair(s.t)[2]
             t2 == MakePipe(s.t, r, w)
             q == [s EXCEPT !.err = Pair(s.t), !.t = t2]
  <2>1. PrepareErr(s, p, flags, fail) = q
    BY <1>3 DEF PrepareErr
  <2>2. w \in PipeFiles(p) /\ r \in PipeFiles(p) \ {InEnd(p), OutEnd(p), ErrEnd(p)} /\ w # Free
        /\ w = ErrEnd(p) /\ w \notin {InEnd(p), OutEnd(p)}
    BY PipeFilesAre, FilesAreFiles DEF ErrEnd
  <2>3. Opened(s.t, t2, x, y, r, w)
    BY <1>0, <1>3, MakePipeOpens DEF CanPipe
  <2>4. q.t = t2 /\ q.in = s.in /\ q.out = s.out /\ q.err[2] = y
    BY <1>0 DEF SpawnRec, NoPair
  <2>5. DefaultFile(p, flags, 2, q.out[2]) = w
    BY <1>3, <1>a DEF DefaultFile
  <2> HIDE DEF t2, x, y, r, w, q
  <2>6. OpenSet(tab) \subseteq OpenSet(s.t)
    BY <1>0 DEF HoldsFds, Holds
  <2>7. Filled(t2, p, s.in[1], s.out[2], y) /\ t2[y] = w /\ y \in New
        /\ \A fd, i, file : Gives(s.t, fd, i, file) => Gives(t2, fd, i, file)
    BY <1>0, <2>2, <2>3, <2>6, FilledMore DEF Opened, New
  <2>8. FilledFds(q, p) /\ SameFiles(q.t)
    BY <2>4, <2>7 DEF FilledFds, Filled
  <2>9. ErrGiven(q, p, flags)
    BY <2>2, <2>4, <2>5, <2>7 DEF ErrGiven, Gives
  <2>10. InGiven(q, p, flags) /\ OutGiven(q, p, flags)
    BY <2>4, <2>7 DEF InGiven, OutGiven
  <2> QED BY <2>1, <2>8, <2>9, <2>10
<1> QED BY <1>1, <1>2, <1>3

\* All together: a spawn that fails before fork has changed no descriptor.
LEMMA PrepareFiles ==
  ASSUME Std \subseteq OpenSet(tab), Table(tab), NEW p \in Pid, NEW flags \in FlagSets, NEW fail
  PROVE  LET s == Prepare(p, flags, fail)
         IN  /\ s.ok = FALSE => s.t = tab
             /\ s.ok = TRUE => /\ Ready(s) /\ FilledFds(s, p)
                               /\ InGiven(s, p, flags) /\ OutGiven(s, p, flags) /\ ErrGiven(s, p, flags)
             /\ s.ok \in BOOLEAN
<1> DEFINE s0 == [t |-> tab, in |-> NoPair, out |-> NoPair, err |-> NoPair, ok |-> TRUE]
           s1 == IF flags.sock THEN PrepareSockets(s0, p, fail) ELSE PrepareIn(s0, p, flags, fail)
           s2 == IF flags.sock \/ ~s1.ok THEN s1 ELSE PrepareOut(s1, p, flags, fail)
           s3 == IF s2.ok THEN PrepareErr(s2, p, flags, fail) ELSE s2
           s == Prepare(p, flags, fail)
<1>1. /\ Ready(s0) /\ s0.in = NoPair /\ s0.out = NoPair /\ s0.err = NoPair
      /\ s0.t = tab
  BY NewIs DEF Ready, HoldsFds, SpawnRec, NoPair, Holds
<1>2. FilledFds(s0, p)
  <2>1. \A f \in New : tab[f] = Free
    BY DEF New, OpenSet
  <2>2. s0.in[1] = -1 /\ s0.out[2] = -1 /\ s0.err[2] = -1
    BY DEF NoPair
  <2>3. Free # InEnd(p) /\ Free # OutEnd(p) /\ Free # ErrEnd(p)
    BY PipeFilesAre
  <2> QED BY <1>1, <2>1, <2>2, <2>3 DEF FilledFds, Filled, SameFiles
<1>3. s = IF s3.ok /\ fail = "fork" THEN SpawnFailed(CloseErr(CloseOut(CloseIn(s3)))) ELSE s3
  BY DEF Prepare
<1> HIDE DEF s0, s
<1>4. Ready(s) \/ Undone(s)
  BY PrepareIs DEF s
<1>5. /\ SameFiles(s1.t) /\ (s1.ok = TRUE => FilledFds(s1, p) /\ InGiven(s1, p, flags))
      /\ flags.sock => (s1.ok = TRUE => OutGiven(s1, p, flags))
      /\ (Ready(s1) \/ s1.ok = FALSE) /\ (Ready(s1) => s1.err = NoPair /\ (~flags.sock => s1.out = NoPair))
  <2>0. SpawnFailed(s0).ok = FALSE
    BY <1>1 DEF SpawnFailed, Ready, HoldsFds, SpawnRec
  <2>1. CASE flags.sock
    <3> DEFINE q == PrepareSockets(s0, p, fail)
    <3>1. q.err = NoPair /\ (Ready(q) \/ q = SpawnFailed(s0))
      BY <1>1, PrepareSocketsIs
    <3>2. SameFiles(q.t) /\ (q.ok = TRUE => FilledFds(q, p) /\ InGiven(q, p, flags) /\ OutGiven(q, p, flags))
      BY <1>1, <1>2, <2>1, PrepareSocketsFiles
    <3>3. s1 = q
      BY <2>1
    <3> HIDE DEF q, s1
    <3> QED BY <2>0, <2>1, <3>1, <3>2, <3>3
  <2>2. CASE ~flags.sock
    <3> DEFINE q == PrepareIn(s0, p, flags, fail)
    <3>1. q.err = NoPair /\ q.out = NoPair /\ (Ready(q) \/ q = SpawnFailed(s0))
      BY <1>1, PrepareInIs
    <3>2. SameFiles(q.t) /\ (q.ok = TRUE => FilledFds(q, p) /\ InGiven(q, p, flags))
      BY <1>1, <1>2, <2>2, PrepareInFiles
    <3>3. s1 = q
      BY <2>2
    <3> HIDE DEF q, s1
    <3> QED BY <2>0, <2>2, <3>1, <3>2, <3>3
  <2> QED BY <2>1, <2>2
<1> HIDE DEF s1
<1>6. /\ SameFiles(s2.t) /\ (s2.ok = TRUE => /\ FilledFds(s2, p) /\ InGiven(s2, p, flags)
                                             /\ OutGiven(s2, p, flags))
      /\ (Ready(s2) /\ s2.err = NoPair) \/ s2.ok = FALSE
  <2>1. CASE flags.sock \/ ~s1.ok
    <3>1. s2 = s1
      BY <2>1
    <3>2. s1.ok = TRUE => flags.sock
      BY <2>1
    <3> HIDE DEF s2
    <3> QED BY <1>5, <3>1, <3>2 DEF Ready
  <2>2. CASE ~(flags.sock \/ ~s1.ok)
    <3> DEFINE q == PrepareOut(s1, p, flags, fail)
    <3>0. s1.ok = TRUE /\ ~flags.sock /\ Ready(s1) /\ s1.err = NoPair /\ s1.out = NoPair
      BY <1>5, <2>2
    <3>1. (q.err = NoPair /\ Ready(q)) \/ Undone(q)
      BY <3>0, PrepareOutIs
    <3>2. SameFiles(q.t) /\ (q.ok = TRUE => FilledFds(q, p) /\ InGiven(q, p, flags) /\ OutGiven(q, p, flags))
      BY <1>5, <3>0, PrepareOutFiles
    <3>3. s2 = q
      BY <2>2
    <3> HIDE DEF q, s2
    <3> QED BY <3>1, <3>2, <3>3 DEF Undone
  <2> QED BY <2>1, <2>2
<1> HIDE DEF s2
<1>7. /\ SameFiles(s3.t) /\ (s3.ok = TRUE => /\ FilledFds(s3, p) /\ InGiven(s3, p, flags)
                                             /\ OutGiven(s3, p, flags) /\ ErrGiven(s3, p, flags))
      /\ Ready(s3) \/ s3.ok = FALSE
  <2>1. CASE s2.ok = FALSE
    BY <1>6, <2>1
  <2>2. CASE s2.ok # FALSE
    <3> DEFINE q == PrepareErr(s2, p, flags, fail)
    <3>0. s2.ok = TRUE /\ Ready(s2) /\ s2.err = NoPair
      BY <1>6, <2>2 DEF Ready
    <3>1. Ready(q) \/ Undone(q)
      BY <3>0, PrepareErrIs
    <3>2. SameFiles(q.t) /\ (q.ok = TRUE => /\ FilledFds(q, p) /\ InGiven(q, p, flags)
                                            /\ OutGiven(q, p, flags) /\ ErrGiven(q, p, flags))
      BY <1>6, <3>0, PrepareErrFiles
    <3>3. s3 = q
      BY <3>0
    <3> HIDE DEF q, s3
    <3> QED BY <3>1, <3>2, <3>3 DEF Undone
  <2> QED BY <2>1, <2>2
<1> HIDE DEF s3
<1>8. SameFiles(s.t)
  <2> DEFINE c == CloseErr(CloseOut(CloseIn(s3)))
  <2>1. CASE s3.ok /\ fail = "fork"
    <3>1. HoldsFds(s3)
      BY <1>7, <2>1 DEF Ready
    <3>2. SameFiles(c.t) /\ SpawnRec(c)
      BY <1>7, <3>1, ClosedSame DEF HoldsFds, SpawnRec, CloseErr, CloseOut, CloseIn
    <3>3. s = SpawnFailed(c)
      BY <1>3, <2>1
    <3> HIDE DEF c
    <3> QED BY <3>2, <3>3 DEF SpawnFailed, SpawnRec
  <2>2. CASE ~(s3.ok /\ fail = "fork")
    BY <1>3, <1>7, <2>2
  <2> QED BY <2>1, <2>2
<1>9. s.ok = FALSE => s.t = tab
  <2> SUFFICES ASSUME s.ok = FALSE PROVE s.t = tab
    OBVIOUS
  <2>1. Table(s.t) /\ OpenSet(s.t) = OpenSet(tab)
    BY <1>4 DEF Undone, Ready
  <2>2. \A f \in Fd : s.t[f] = tab[f]
    BY <1>8, <2>1 DEF SameFiles, OpenSet
  <2> QED BY <2>1, <2>2 DEF Table
<1>10. s.ok = TRUE => s = s3
  <2>1. CASE s3.ok /\ fail = "fork"
    <3> DEFINE c == CloseErr(CloseOut(CloseIn(s3)))
    <3>1. SpawnRec(c)
      BY <1>7, <2>1 DEF Ready, HoldsFds, SpawnRec, CloseErr, CloseOut, CloseIn
    <3>2. s = SpawnFailed(c)
      BY <1>3, <2>1
    <3> HIDE DEF c
    <3> QED BY <3>1, <3>2 DEF SpawnFailed, SpawnRec
  <2>2. CASE ~(s3.ok /\ fail = "fork")
    BY <1>3, <2>2
  <2> QED BY <2>1, <2>2
<1>11. s.ok \in BOOLEAN /\ (s.ok = TRUE => Ready(s))
  BY <1>4 DEF Undone, Ready
<1> QED BY <1>7, <1>9, <1>10, <1>11 DEF s

\* The program keeps no end of a child.
LEMMA ParentFiles ==
  ASSUME Std \subseteq OpenSet(tab), NEW p \in Pid, NEW s, Ready(s), FilledFds(s, p)
  PROVE  /\ SameFiles(ParentTable(s))
         /\ \A f \in New : /\ ParentTable(s)[f] \in PipeFiles(p) \cup {Free}
                           /\ ParentTable(s)[f] \notin {InEnd(p), OutEnd(p), ErrEnd(p)}
<1> DEFINE t1 == CloseUnless(s.t, s.in[1], 0)
           t2 == CloseUnless(t1, s.out[2], 1)
           t3 == CloseUnless(t2, s.err[2], 2)
<1>1. /\ Table(s.t) /\ SameFiles(s.t) /\ s.in[1] \in New \cup {-1, 0}
      /\ s.out[2] \in New \cup {-1, 1} /\ s.err[2] \in New \cup {-1, 2}
  BY DEF Ready, HoldsFds, Holds, FilledFds, Filled
<1>2. ParentTable(s) = t3
  BY DEF ParentTable
<1>3. SameFiles(t1) /\ Table(t1)
  BY <1>1, CloseKeeps
<1>4. \A f \in New : t1[f] = IF f = s.in[1] THEN Free ELSE s.t[f]
  BY <1>1, NewIs DEF CloseUnless, CloseFds, Table
<1> HIDE DEF t1
<1>5. SameFiles(t2) /\ Table(t2)
  BY <1>1, <1>3, CloseKeeps
<1>6. \A f \in New : t2[f] = IF f = s.out[2] THEN Free ELSE t1[f]
  BY <1>1, <1>3, NewIs DEF CloseUnless, CloseFds, Table
<1> HIDE DEF t2
<1>7. SameFiles(t3)
  BY <1>1, <1>5, CloseKeeps
<1>8. \A f \in New : t3[f] = IF f = s.err[2] THEN Free ELSE t2[f]
  BY <1>1, <1>5, NewIs DEF CloseUnless, CloseFds, Table
<1> HIDE DEF t3
<1>9. \A f \in New : t3[f] = IF f \in {s.in[1], s.out[2], s.err[2]} THEN Free ELSE s.t[f]
  BY <1>4, <1>6, <1>8
<1>10. Free \notin {InEnd(p), OutEnd(p), ErrEnd(p)}
  BY PipeFilesAre
<1> QED BY <1>2, <1>7, <1>9, <1>10 DEF FilledFds, Filled

\* The program that is started has what was asked for and nothing else.
Connected(c, request, inherit) ==
  /\ \A f \in DOMAIN request \ Unlisted(inherit) : request[f] # Free => c[f] = request[f]
  /\ \A f \in Unlisted(inherit) : c[f] = Free
  /\ \A f \in Fd \ DOMAIN request : c[f] = Free

\* my_exec connects what the flags and the actions give.
LEMMA ExecConnects ==
  ASSUME \A i \in Std : tab[i] = <<"std", i>>, NEW p \in Pid, NEW flags, NEW act \in Acts, NEW out,
         NEW t, Table(t), SameFiles(t), NEW fd \in [Std -> Fd \cup {-1}],
         \A i \in Std : IF act.fd[i] = -1 THEN Gives(t, fd[i], i, DefaultFile(p, flags, i, out))
                        ELSE fd[i] = act.fd[i],
         NEW fails \in BOOLEAN
  PROVE  LET x == my_exec(t, fd, act.except, fails)
         IN  /\ Table(x.t)
             /\ x.ok => Connected(x.t, Request(p, flags, act, out), act.except)
             /\ ~x.ok => x.t = NoTable
             /\ \A f \in Fd : x.t[f] \in {t[g] : g \in Fd} \cup Nulls \cup {Free}
<1> DEFINE x == my_exec(t, fd, act.except, fails)
           R == Request(p, flags, act, out)
<1>1. \A i \in Std : i \in OpenSet(tab) /\ i \in Fd /\ i \in Int /\ i # -1
  BY FreeIsNoFile, StdOpen DEF OpenSet, Std
<1>2. \A i \in Std : t[i] = <<"std", i>> /\ t[i] # Free
  BY <1>1, FreeIsNoFile DEF SameFiles
<1>3. /\ Table(x.t) /\ (x.ok => Execs(x.t, t, fd, act.except)) /\ (~x.ok => x.t = NoTable)
      /\ \A f \in Fd : x.t[f] \in {t[g] : g \in Fd} \cup Nulls \cup {Free}
  BY <1>2, ExecIs
<1> HIDE DEF x
<1>4. act.fd \in [Std -> Fd \cup {-1}] /\ act.except \subseteq Fd
  BY ActsAreActs
<1>5. /\ DOMAIN R = Std \cup act.except
      /\ \A f \in act.except \ Std : R[f] = tab[f]
      /\ \A i \in Std : R[i] = IF act.fd[i] = -1 THEN DefaultFile(p, flags, i, out)
                               ELSE IF Overwritten(act, i) THEN Free ELSE tab[act.fd[i]]
  BY DEF Request
<1> HIDE DEF R
<1>6. ASSUME x.ok PROVE Connected(x.t, R, act.except)
  <2>0. PICK y : /\ Assigns(y, t, fd, act.except)
                /\ \A f \in Fd : x.t[f] = IF f \in Unlisted(act.except) THEN Free ELSE y[f]
    BY <1>3, <1>6 DEF Execs
  <2>1. Assigns(y, t, fd, act.except)
    BY <2>0
  <2>7. Unlisted(act.except) \subseteq Std /\ Std \subseteq Fd
    BY <1>1 DEF Unlisted
  <2>2. \A f \in Fd \ DOMAIN R : y[f] = Free
    BY <1>5, <2>1 DEF Assigns
  <2>3. ASSUME NEW f \in act.except \ Std, R[f] # Free PROVE y[f] = R[f]
    <3>1. f \in OpenSet(tab) /\ R[f] = tab[f] /\ f \in Fd \ Std
      BY <1>4, <1>5, <2>3 DEF OpenSet
    <3>2. t[f] = R[f]
      BY <3>1 DEF SameFiles
    <3> QED BY <2>1, <2>3, <3>1, <3>2 DEF Assigns
  <2>4. ASSUME NEW i \in Std, act.fd[i] = -1, R[i] # Free PROVE y[i] = R[i]
    <3>1. Gives(t, fd[i], i, R[i])
      BY <1>5, <2>4
    <3>2. CASE fd[i] = i /\ R[i] = <<"std", i>>
      <4>1. y[i] = t[fd[i]]
        BY <1>1, <1>2, <2>1, <3>2 DEF Assigns
      <4> QED BY <1>2, <3>2, <4>1
    <3>3. CASE fd[i] = -1 /\ R[i] \in {Null(i), Free}
      BY <2>1, <2>4, <3>3 DEF Assigns
    <3>4. CASE fd[i] \in New /\ t[fd[i]] = R[i]
      <4>1. fd[i] \notin Std /\ fd[i] # -1
        BY <1>1, <3>4, StdOpen DEF New
      <4> QED BY <2>1, <2>4, <3>4, <4>1 DEF Assigns
    <3> QED BY <3>1, <3>2, <3>3, <3>4 DEF Gives
  <2>5. ASSUME NEW i \in Std, act.fd[i] # -1, R[i] # Free PROVE y[i] = R[i]
    <3> DEFINE g == act.fd[i]
    <3>1. ~Overwritten(act, i) /\ R[i] = tab[g] /\ fd[i] = g /\ g \in Fd
      BY <1>4, <1>5, <2>5
    <3>2. g \in OpenSet(tab)
      BY <2>5, <3>1 DEF OpenSet
    <3>3. t[g] = R[i] /\ g # -1
      BY <3>1, <3>2, StdOpen DEF SameFiles
    <3>4. ~(g \in Std /\ g < i /\ fd[g] # g)
      <4>1. g \in Std /\ g < i => act.fd[g] = g
        BY <3>1 DEF Overwritten
      <4>2. g \in Std /\ g < i => fd[g] = act.fd[g]
        BY <3>3, <4>1
      <4> QED BY <4>1, <4>2
    <3> HIDE DEF g
    <3> QED BY <2>1, <2>5, <3>1, <3>3, <3>4 DEF Assigns
  <2>6. \A f \in DOMAIN R : R[f] # Free => y[f] = R[f]
    BY <1>5, <2>3, <2>4, <2>5
  <2>8. \A f \in DOMAIN R : f \in Fd
    BY <1>4, <1>5, <2>7
  <2> HIDE DEF R
  <2>9. \A f \in DOMAIN R \ Unlisted(act.except) : R[f] # Free => x.t[f] = R[f]
    BY <2>0, <2>6, <2>8
  <2>10. \A f \in Unlisted(act.except) : x.t[f] = Free
    BY <2>0, <2>7
  <2>11. \A f \in Fd \ DOMAIN R : x.t[f] = Free
    BY <2>0, <2>2
  <2> QED BY <2>9, <2>10, <2>11 DEF Connected
<1> QED BY <1>3, <1>6 DEF x, R

\* After fork: the child of gpgrt_process_spawn.
LEMMA ChildTableIs ==
  ASSUME \A i \in Std : tab[i] = <<"std", i>>, Table(tab), NEW p \in Pid, NEW s, Ready(s), FilledFds(s, p),
         NEW flags \in FlagSets, NEW act \in Acts, NEW fail,
         InGiven(s, p, flags), OutGiven(s, p, flags), ErrGiven(s, p, flags)
  PROVE  LET x == ChildTable(s, act, fail)
         IN  /\ Table(x.t)
             /\ x.ok => Connected(x.t, Request(p, flags, act, s.out[2]), act.except)
             /\ ~x.ok => x.t = NoTable
             /\ \A f \in Fd : x.t[f] \in {tab[g] : g \in Fd} \cup PipeFiles(p) \cup Nulls \cup {Free}
<1> DEFINE t1 == CloseFds(s.t, s.in[2])
           t2 == CloseFds(t1, s.out[1])
           t3 == CloseFds(t2, s.err[1])
           own == <<s.in[1], s.out[2], s.err[2]>>
           fd == GivenFds(s, act)
           m == fail = "null"
           x == ChildTable(s, act, fail)
<1>0. Std \subseteq OpenSet(tab)
  BY FreeIsNoFile, StdOpen DEF OpenSet
<1>1. /\ Holds(s.t, s.in[1], s.in[2], s.out[1], s.out[2], s.err[1], s.err[2])
      /\ Table(s.t) /\ SameFiles(s.t)
      /\ s.in[2] \in New \cup {-1} /\ s.out[1] \in New \cup {-1} /\ s.err[1] \in New \cup {-1}
      /\ s.in[1] \in New \cup {-1, 0} /\ s.out[2] \in New \cup {-1, 1} /\ s.err[2] \in New \cup {-1, 2}
  BY DEF Ready, HoldsFds, Holds, FilledFds, Filled
<1>2. x = my_exec(t3, fd, act.except, m)
  BY DEF ChildTable, OwnFds
<1> HIDE DEF x
<1>3. SameFiles(t1) /\ Table(t1) /\ \A f \in New : t1[f] = IF f = s.in[2] THEN Free ELSE s.t[f]
  BY <1>0, <1>1, NewIs, CloseKeeps, SMTT(60) DEF CloseFds, Table
<1> HIDE DEF t1
<1>4. SameFiles(t2) /\ Table(t2) /\ \A f \in New : t2[f] = IF f = s.out[1] THEN Free ELSE t1[f]
  BY <1>0, <1>1, <1>3, NewIs, CloseKeeps, ZenonT(60) DEF CloseFds, Table
<1> HIDE DEF t2
<1>5. SameFiles(t3) /\ Table(t3) /\ \A f \in New : t3[f] = IF f = s.err[1] THEN Free ELSE t2[f]
  BY <1>0, <1>1, <1>4, NewIs, CloseKeeps, ZenonT(60) DEF CloseFds, Table
<1> HIDE DEF t3
<1>6. \A f \in New : t3[f] = IF f \in {s.in[2], s.out[1], s.err[1]} THEN Free ELSE s.t[f]
  BY <1>3, <1>4, <1>5
<1>7. {s.in[1], s.out[2], s.err[2]} \cap {s.in[2], s.out[1], s.err[1]} \cap New = {}
  BY <1>1 DEF Holds
<1>8. \A g \in {s.in[1], s.out[2], s.err[2]} : \A i, file : Gives(s.t, g, i, file) => Gives(t3, g, i, file)
  BY <1>6, <1>7 DEF Gives
<1>9. fd = [i \in Std |-> IF act.fd[i] >= 0 THEN act.fd[i] ELSE own[i + 1]]
  BY DEF GivenFds
<1>10. own[1] = s.in[1] /\ own[2] = s.out[2] /\ own[3] = s.err[2]
  OBVIOUS
<1>11. 0 \in Std /\ 1 \in Std /\ 2 \in Std /\ \A i \in Std : i = 0 \/ i = 1 \/ i = 2
  BY DEF Std
<1> HIDE DEF own, fd, m
<1>12. act.fd \in [Std -> Fd \cup {-1}] /\ \A f \in Fd : f \in Int /\ f >= 0
  BY ActsAreActs, ExtraIsOpen DEF Fd
<1>13. \A i \in Std : IF act.fd[i] = -1 THEN fd[i] = own[i + 1] ELSE fd[i] = act.fd[i]
  BY <1>9, <1>12
<1>14. \A i \in Std : own[i + 1] \in Fd \cup {-1}
  BY <1>0, <1>1, <1>10, <1>11, NewIs, StdOpen
<1>15. fd \in [Std -> Fd \cup {-1}]
  BY <1>9, <1>12, <1>13, <1>14
<1>16. \A i \in Std : Gives(t3, own[i + 1], i, DefaultFile(p, flags, i, s.out[2]))
  <2>1. Gives(t3, own[1], 0, DefaultFile(p, flags, 0, s.out[2]))
    BY <1>8, <1>10 DEF InGiven
  <2>2. Gives(t3, own[2], 1, DefaultFile(p, flags, 1, s.out[2]))
    BY <1>8, <1>10 DEF OutGiven
  <2>3. Gives(t3, own[3], 2, DefaultFile(p, flags, 2, s.out[2]))
    BY <1>8, <1>10 DEF ErrGiven
  <2> QED BY <1>11, <2>1, <2>2, <2>3
<1>17. \A i \in Std : IF act.fd[i] = -1 THEN Gives(t3, fd[i], i, DefaultFile(p, flags, i, s.out[2]))
                      ELSE fd[i] = act.fd[i]
  BY <1>13, <1>16
<1>18. m \in BOOLEAN
  BY DEF m
<1>19. /\ Table(x.t)
       /\ x.ok => Connected(x.t, Request(p, flags, act, s.out[2]), act.except)
       /\ ~x.ok => x.t = NoTable
       /\ \A f \in Fd : x.t[f] \in {t3[g] : g \in Fd} \cup Nulls \cup {Free}
  <2> DEFINE D(i) == DefaultFile(p, flags, i, s.out[2])
  <2>1. \A i \in Std : IF act.fd[i] = -1 THEN Gives(t3, fd[i], i, D(i)) ELSE fd[i] = act.fd[i]
    BY <1>17
  <2>2. \A u : u = my_exec(t3, fd, act.except, m) =>
          /\ Table(u.t)
          /\ u.ok => Connected(u.t, Request(p, flags, act, s.out[2]), act.except)
          /\ ~u.ok => u.t = NoTable
          /\ \A f \in Fd : u.t[f] \in {t3[g] : g \in Fd} \cup Nulls \cup {Free}
    BY <1>5, <1>15, <2>1, <1>18, ExecConnects
  <2> QED BY <1>2, <2>2
<1>20. \A g \in Fd : t3[g] \in {tab[h] : h \in Fd} \cup PipeFiles(p) \cup {Free}
  <2> SUFFICES ASSUME NEW g \in Fd PROVE t3[g] \in {tab[h] : h \in Fd} \cup PipeFiles(p) \cup {Free}
    OBVIOUS
  <2>1. CASE g \in OpenSet(tab)
    BY <1>5, <2>1 DEF SameFiles
  <2>2. CASE g \in New
    BY <1>6, <2>2 DEF FilledFds, Filled
  <2> QED BY <2>1, <2>2 DEF New
<1> QED BY <1>19, <1>20 DEF x

-----------------------------------------------------------------------------
\* The standard files stay what they are, and a child has what it was to get.
ChildIs(p) == Connected(child[p], proc[p].request, proc[p].inherit)
CInv ==
  /\ PInv
  /\ \A i \in Std : tab[i] = <<"std", i>>
  /\ DOMAIN child = Pid /\ \A p \in Pid : Table(child[p])
  /\ ChildPipesExact

Ends(p) == {InEnd(p), OutEnd(p), ErrEnd(p)}
NoEnds(t, p) == \A f \in Fd : t[f] \notin Ends(p)

\* What is in no descriptor.
LEMMA NotInTable ==
  ASSUME NEW t, Table(t), NEW p
  PROVE  NoEnds(t, p) <=> \A file \in Ends(p) : file \notin Range(t)
<1>1. Range(t) = {t[f] : f \in Fd}
  BY DEF Range, Table
<1> QED BY <1>1 DEF NoEnds

\* The end of each pipe of a child is in that child only.
LEMMA EndsAre ==
  ASSUME CInv, NEW p \in Pid
  PROVE  NoEnds(tab, p) /\ \A q \in Pid \ {p} : NoEnds(child[q], p)
<1>1. \A file \in Ends(p) : file \notin Range(tab) /\ \A q \in Pid \ {p} : file \notin Range(child[q])
  BY DEF CInv, ChildPipesExact, EofArrives, Ends, InEnd, OutEnd, ErrEnd
<1>2. Table(tab) /\ \A q \in Pid : Table(child[q])
  BY DEF CInv, PInv
<1> QED BY <1>1, <1>2, NotInTable

\* What a step has to show.
LEMMA ChildrenAre ==
  ASSUME PInv', \A i \in Std : tab'[i] = <<"std", i>>, DOMAIN child' = Pid,
         \A p \in Pid : /\ Table(child'[p]) /\ NoEnds(tab', p)
                        /\ \A q \in Pid \ {p} : NoEnds(child'[q], p)
                        /\ proc'[p].life \in {"running", "detached"} => Connected(child'[p], proc'[p].request, proc'[p].inherit)
  PROVE  CInv'
<1>1. Table(tab')
  BY DEF PInv
<1>2. EofArrives'
  <2> SUFFICES ASSUME NEW p \in Pid, NEW file \in Ends(p)
               PROVE  file \notin Range(tab') /\ \A q \in Pid \ {p} : file \notin Range(child'[q])
    BY DEF EofArrives, Ends, InEnd, OutEnd, ErrEnd
  <2> QED BY <1>1, NotInTable
<1>3. ChildConnected'
  BY DEF ChildConnected, Connected
<1> QED BY <1>2, <1>3 DEF CInv, ChildPipesExact

\* A step that neither starts a child nor moves a descriptor.
LEMMA SameChildren ==
  ASSUME CInv, PInv', tab' = tab, child' = child,
         \A p \in Pid : proc'[p].life \in {"running", "detached"}
                        => /\ proc[p].life \in {"running", "detached"}
                           /\ proc'[p].request = proc[p].request /\ proc'[p].inherit = proc[p].inherit
  PROVE  CInv'
<1>1. \A p \in Pid : Table(child[p]) /\ NoEnds(tab, p) /\ \A q \in Pid \ {p} : NoEnds(child[q], p)
  BY EndsAre DEF CInv
<1>2. \A p \in Pid : proc[p].life \in {"running", "detached"} => Connected(child[p], proc[p].request, proc[p].inherit)
  BY DEF CInv, ChildPipesExact, ChildConnected, Connected
<1>3. DOMAIN child = Pid /\ \A i \in Std : tab[i] = <<"std", i>>
  BY DEF CInv
<1> QED BY <1>1, <1>2, <1>3, ChildrenAre

\* Nothing is in the table of a child that is gone.
LEMMA NoTableIs == Table(NoTable) /\ \A p \in Pid : NoEnds(NoTable, p)
  BY PipeFilesAre DEF NoTable, Table, NoEnds, Ends

\* A step that gives p another table, and the program its own ends of its pipes.
LEMMA ChildStepped ==
  ASSUME CInv, PInv', NEW p \in Pid,
         SameFiles(tab'),
         \A f \in New : tab'[f] \in PipeFiles(p) \cup {Free} /\ tab'[f] \notin Ends(p),
         NEW c, child' = [child EXCEPT ![p] = c], Table(c),
         \A f \in Fd : c[f] \in {tab[g] : g \in Fd} \cup PipeFiles(p) \cup Nulls \cup {Free},
         proc'[p].life \in {"running", "detached"} => Connected(c, proc'[p].request, proc'[p].inherit),
         \A q \in Pid \ {p} : proc'[q] = proc[q]
  PROVE  CInv'
<1>1. \A q \in Pid : Table(child[q]) /\ NoEnds(tab, q) /\ \A r \in Pid \ {q} : NoEnds(child[r], q)
  BY EndsAre DEF CInv
<1>2. \A q \in Pid : proc[q].life \in {"running", "detached"} => Connected(child[q], proc[q].request, proc[q].inherit)
  BY DEF CInv, ChildPipesExact, ChildConnected, Connected
<1>3. DOMAIN child = Pid /\ \A i \in Std : tab[i] = <<"std", i>>
  BY DEF CInv
<1>4. \A i \in Std : tab'[i] = <<"std", i>>
  <2>1. Std \subseteq OpenSet(tab)
    BY OpenFdsOf DEF CInv
  <2> QED BY <1>3, <2>1 DEF SameFiles
<1>5. child'[p] = c /\ DOMAIN child' = Pid /\ \A q \in Pid \ {p} : child'[q] = child[q]
  BY <1>3
<1>6. ASSUME NEW q \in Pid PROVE NoEnds(tab', q)
  <2> SUFFICES ASSUME NEW f \in Fd PROVE tab'[f] \notin Ends(q)
    BY DEF NoEnds
  <2>1. CASE f \in OpenSet(tab)
    BY <1>1, <2>1 DEF SameFiles, NoEnds
  <2>2. CASE f \in New /\ q = p
    BY <2>2
  <2>3. CASE f \in New /\ q # p
    BY <2>3, PipeFilesAre DEF Ends
  <2> QED BY <2>1, <2>2, <2>3 DEF New
<1>7. ASSUME NEW q \in Pid, NEW r \in Pid \ {q} PROVE NoEnds(child'[r], q)
  <2>1. CASE r # p
    BY <1>1, <1>5, <2>1
  <2>2. CASE r = p
    <3> SUFFICES ASSUME NEW f \in Fd PROVE c[f] \notin Ends(q)
      BY <1>5, <2>2 DEF NoEnds
    <3>1. \A g \in Fd : tab[g] \notin Ends(q)
      BY <1>1 DEF NoEnds
    <3>2. Ends(q) \subseteq PipeFiles(q) /\ PipeFiles(q) \cap (PipeFiles(p) \cup Nulls \cup {Free}) = {}
      BY <2>2, PipeFilesAre DEF Ends
    <3> QED BY <3>1, <3>2
  <2> QED BY <2>1, <2>2
<1>8. \A q \in Pid : Table(child'[q])
  BY <1>1, <1>5
<1>9. \A q \in Pid : proc'[q].life \in {"running", "detached"} => Connected(child'[q], proc'[q].request, proc'[q].inherit)
  BY <1>2, <1>5
<1> QED BY <1>4, <1>5, <1>6, <1>7, <1>8, <1>9, ChildrenAre

\* gpgrt_process_spawn.
LEMMA SpawnedChildren ==
  ASSUME CInv, PInv', NEW p \in Pid, NEW flags \in FlagSets, NEW act \in Acts, NEW fail,
         NEW object \in BOOLEAN, process_spawn(p, flags, act, fail, object)
  PROVE  CInv'
<1> DEFINE s == Prepare(p, flags, fail)
           x == ChildTable(s, act, fail)
           pair == <<s.in[2], s.out[1], s.err[1]>>
           now == IF x.ok THEN "running" ELSE "zombie"
           request == Request(p, flags, act, s.out[2])
           made == [NoProc EXCEPT !.life = now, !.call = IF object THEN "none" ELSE "wait",
                                  !.fd = [i \in Std |-> pair[i + 1]],
                                  !.request = request, !.inherit = act.except]
<1>1. /\ tab' = IF s.ok THEN ParentTable(s) ELSE s.t
      /\ s.ok => proc' = [proc EXCEPT ![p] = made] /\ child' = [child EXCEPT ![p] = x.t]
      /\ ~s.ok => proc' = proc /\ child' = child
  BY DEF process_spawn
<1>2. /\ Table(tab) /\ Std \subseteq OpenSet(tab) /\ \A i \in Std : tab[i] = <<"std", i>>
      /\ DOMAIN proc = Pid
  BY OpenFdsOf DEF CInv, PInv
<1>3. /\ s.ok = FALSE => s.t = tab
      /\ s.ok = TRUE => /\ Ready(s) /\ FilledFds(s, p)
                        /\ InGiven(s, p, flags) /\ OutGiven(s, p, flags) /\ ErrGiven(s, p, flags)
      /\ s.ok \in BOOLEAN
  BY <1>2, PrepareFiles
<1>4. made.life = now /\ made.request = request /\ made.inherit = act.except
  BY DEF NoProc
<1> HIDE DEF s, made
<1>5. CASE s.ok = FALSE
  <2>1. tab' = tab /\ proc' = proc /\ child' = child
    BY <1>1, <1>3, <1>5
  <2> QED BY <2>1, SameChildren
<1>6. CASE s.ok = TRUE
  <2>1. /\ Table(x.t) /\ x.ok => Connected(x.t, request, act.except)
        /\ ~x.ok => x.t = NoTable
        /\ \A f \in Fd : x.t[f] \in {tab[g] : g \in Fd} \cup PipeFiles(p) \cup Nulls \cup {Free}
    BY <1>2, <1>3, <1>6, ChildTableIs
  <2>2. Table(x.t)
    BY <1>2, <1>3, <1>6, ChildTableIs
  <2>3. x.ok => Connected(x.t, request, act.except)
    BY <1>2, <1>3, <1>6, ChildTableIs
  <2>4. now = "running" => x.ok
    OBVIOUS
  <2>5. now # "detached"
    OBVIOUS
  <2> HIDE DEF x, now, request
  <2>6. proc'[p] = made /\ \A q \in Pid \ {p} : proc'[q] = proc[q]
    BY <1>1, <1>2, <1>6
  <2>7. proc'[p].life \in {"running", "detached"} => Connected(x.t, proc'[p].request, proc'[p].inherit)
    BY <1>4, <2>3, <2>4, <2>5, <2>6
  <2>8. SameFiles(ParentTable(s))
        /\ \A f \in New : ParentTable(s)[f] \in PipeFiles(p) \cup {Free} /\ ParentTable(s)[f] \notin Ends(p)
    BY <1>2, <1>3, <1>6, ParentFiles DEF Ends
  <2>9. tab' = ParentTable(s) /\ child' = [child EXCEPT ![p] = x.t]
    BY <1>1, <1>6
  <2> QED BY <2>1, <2>2, <2>6, <2>7, <2>8, <2>9, ChildStepped
<1> QED BY <1>3, <1>5, <1>6

\* A detached process.
LEMMA DetachedChildren ==
  ASSUME CInv, PInv', NEW p \in Pid, NEW flags \in FlagSets, NEW act \in Acts, NEW fail,
         spawn_detached(p, flags, act, fail)
  PROVE  CInv'
<1> DEFINE m == fail = "null"
           x == my_exec(tab, act.fd, act.except, m)
           now == IF x.ok THEN "detached" ELSE "gone"
           request == Request(p, flags, act, -1)
           made == [NoProc EXCEPT !.life = now, !.request = request, !.inherit = act.except]
<1>1. /\ proc' = [proc EXCEPT ![p] = made] /\ child' = [child EXCEPT ![p] = x.t] /\ tab' = tab
      /\ ~flags.sock /\ \A i \in Std : flags.std[i] = "null"
  BY DEF spawn_detached
<1>2. /\ Table(tab) /\ Std \subseteq OpenSet(tab) /\ \A i \in Std : tab[i] = <<"std", i>>
      /\ DOMAIN proc = Pid /\ SameFiles(tab)
  BY OpenFdsOf DEF CInv, PInv, SameFiles
<1>3. made.life = now /\ made.request = request /\ made.inherit = act.except
  BY DEF NoProc
<1>4. m \in BOOLEAN /\ act.fd \in [Std -> Fd \cup {-1}]
  BY ActsAreActs
<1>5. \A i \in Std : IF act.fd[i] = -1 THEN Gives(tab, act.fd[i], i, DefaultFile(p, flags, i, -1))
                     ELSE act.fd[i] = act.fd[i]
  <2> SUFFICES ASSUME NEW i \in Std PROVE Gives(tab, -1, i, DefaultFile(p, flags, i, -1))
    OBVIOUS
  <2>1. DefaultFile(p, flags, i, -1) = Null(i)
    BY <1>1 DEF DefaultFile
  <2> QED BY <2>1 DEF Gives
<1>15. x = my_exec(tab, act.fd, act.except, m)
  OBVIOUS
<1>9. now = "detached" => x.ok
  OBVIOUS
<1>10. now # "running"
  OBVIOUS
<1> HIDE DEF made, m, x, now, request
<1>6. Table(x.t)
  BY <1>2, <1>4, <1>5, <1>15, ExecConnects, ZenonT(60)
<1>7. x.ok => Connected(x.t, request, act.except)
  BY <1>2, <1>4, <1>5, <1>15, ExecConnects DEF request
<1>8. \A f \in Fd : x.t[f] \in {tab[g] : g \in Fd} \cup Nulls \cup {Free}
  BY <1>2, <1>4, <1>5, <1>15, ExecConnects, ZenonT(60)
<1>11. proc'[p] = made /\ \A q \in Pid \ {p} : proc'[q] = proc[q]
  BY <1>1, <1>2
<1>12. proc'[p].life \in {"running", "detached"} => Connected(x.t, proc'[p].request, proc'[p].inherit)
  BY <1>3, <1>7, <1>9, <1>10, <1>11
<1>13. \A f \in New : tab[f] = Free
  BY DEF New, OpenSet
<1>14. Free \notin Ends(p)
  BY PipeFilesAre DEF Ends
<1> QED BY <1>1, <1>2, <1>6, <1>8, <1>11, <1>12, <1>13, <1>14, ChildStepped

\* The end of a child closes its files.
LEMMA ExitsChildren ==
  ASSUME CInv, PInv', NEW p \in Pid, ChildExits(p)
  PROVE  CInv'
<1>1. /\ child' = [child EXCEPT ![p] = NoTable] /\ tab' = tab
      /\ proc' = [proc EXCEPT ![p].life = IF proc[p].life = "running" THEN "zombie" ELSE "gone"]
  BY DEF ChildExits
<1>2. DOMAIN proc = Pid /\ DOMAIN proc[p] = {"life", "terminated", "waited", "call", "fd", "request", "inherit"} /\ SameFiles(tab)
  BY DEF CInv, PInv, ProcRec, SameFiles
<1>3. proc'[p].life \notin {"running", "detached"} /\ \A q \in Pid \ {p} : proc'[q] = proc[q]
  BY <1>1, <1>2
<1>4. \A f \in New : tab[f] = Free
  BY DEF New, OpenSet
<1>5. Free \notin Ends(p)
  BY PipeFilesAre DEF Ends
<1>6. Table(NoTable) /\ \A f \in Fd : NoTable[f] = Free
  BY DEF NoTable, Table
<1> QED BY <1>1, <1>2, <1>3, <1>4, <1>5, <1>6, ChildStepped

\* A descriptor that the program closes is not a standard one.
LEMMA CloseOwnChildren ==
  ASSUME CInv, PInv', NEW fd \in app, CloseOwn(fd)
  PROVE  CInv'
<1>1. tab' = CloseFds(tab, fd) /\ proc' = proc /\ child' = child
  BY DEF CloseOwn
<1>2. fd \in Fd \ Std
  BY DEF CInv, PInv, Base
<1>3. \A p \in Pid : Table(child[p]) /\ NoEnds(tab, p) /\ \A q \in Pid \ {p} : NoEnds(child[q], p)
  BY EndsAre DEF CInv
<1>4. \A p \in Pid : proc[p].life \in {"running", "detached"} => Connected(child[p], proc[p].request, proc[p].inherit)
  BY DEF CInv, ChildPipesExact, ChildConnected, Connected
<1>5. DOMAIN child = Pid /\ Table(tab) /\ \A i \in Std : tab[i] = <<"std", i>>
  BY DEF CInv, PInv
<1>6. \A f \in Fd : tab'[f] = IF f = fd THEN Free ELSE tab[f]
  BY <1>1, <1>2, <1>5 DEF CloseFds, Table
<1>7. \A p \in Pid : Free \notin Ends(p)
  BY PipeFilesAre DEF Ends
<1>8. \A p \in Pid : NoEnds(tab', p)
  BY <1>3, <1>6, <1>7 DEF NoEnds
<1>9. \A i \in Std : tab'[i] = <<"std", i>>
  BY <1>2, <1>5, <1>6, StdOpen
<1> QED BY <1>1, <1>3, <1>4, <1>5, <1>8, <1>9, ChildrenAre

\* What waits for a child, or takes or frees its object.
LEMMA ObjectChildren ==
  ASSUME CInv, PInv', NEW p \in Pid,
         \/ process_wait(p) \/ process_terminate(p) \/ process_get_fds(p)
         \/ process_get_streams(p) \/ process_release(p) \/ CallReturns(p)
  PROVE  CInv'
<1> DEFINE alike(r) == r.life \in {"running", "detached"}
                       => /\ proc[p].life \in {"running", "detached"}
                          /\ r.request = proc[p].request /\ r.inherit = proc[p].inherit
           none == [i \in Std |-> -1]
<1>1. DOMAIN proc = Pid /\ DOMAIN proc[p] = {"life", "terminated", "waited", "call", "fd", "request", "inherit"}
  BY DEF CInv, PInv, ProcRec
<1>2. tab' = tab /\ child' = child
  BY DEF process_wait, process_terminate, process_get_fds, process_get_streams, process_release, CallReturns, Freed
<1>3. \/ proc' = proc \/ proc' = [proc EXCEPT ![p] = Reap(proc[p])]
      \/ proc' = [proc EXCEPT ![p].fd = none] \/ proc' = [proc EXCEPT ![p].call = "release"]
      \/ \E n : proc' = [proc EXCEPT ![p] = [NoProc EXCEPT !.life = "released", !.waited = n]]
  BY DEF process_wait, process_terminate, process_get_fds, process_get_streams, process_release, CallReturns, Freed
<1>4. Reap(proc[p]).life = "reaped" /\ \A n : [NoProc EXCEPT !.life = "released", !.waited = n].life = "released"
  BY <1>1 DEF Reap, NoProc
<1> HIDE DEF none
<1>5. alike(proc'[p]) /\ \A q \in Pid \ {p} : proc'[q] = proc[q]
  BY <1>1, <1>3, <1>4, ZenonT(60)
<1> QED BY <1>2, <1>5, SameChildren

\* The same for several.
LEMMA ListChildren ==
  ASSUME CInv, PInv', NEW list, process_wait_list(list)
  PROVE  CInv'
<1>1. tab' = tab /\ child' = child /\ \A p \in Pid : proc'[p] \in {proc[p], Reap(proc[p])}
  BY DEF process_wait_list
<1>2. \A p \in Pid : Reap(proc[p]).life = "reaped"
  BY DEF CInv, PInv, ProcRec, Reap
<1> QED BY <1>1, <1>2, SameChildren

\* Every step keeps the files of the children.
LEMMA PosixNextChildren == CInv /\ [PosixNext]_posixVars => CInv'
<1> SUFFICES ASSUME CInv, [PosixNext]_posixVars PROVE CInv'
  OBVIOUS
<1>0. PInv'
  BY PosixNextFds DEF CInv
<1>1. CASE \E p \in Pid, flags \in FlagSets, act \in Acts, fail \in Fails :
             (\E object \in BOOLEAN : process_spawn(p, flags, act, fail, object))
             \/ spawn_detached(p, flags, act, fail)
  BY <1>0, <1>1, SpawnedChildren, DetachedChildren
<1>2. CASE \E p \in Pid : \/ ChildExits(p) \/ process_wait(p) \/ process_terminate(p)
                          \/ process_get_fds(p) \/ process_get_streams(p)
                          \/ process_release(p) \/ CallReturns(p)
  BY <1>0, <1>2, ExitsChildren, ObjectChildren
<1>3. CASE \E p, q \in Pid : process_wait_list(<<p, q>>)
  BY <1>0, <1>3, ListChildren
<1>4. CASE \E fd \in app : CloseOwn(fd)
  BY <1>0, <1>4, CloseOwnChildren
<1>5. CASE UNCHANGED posixVars
  BY <1>0, <1>5, SameChildren DEF posixVars
<1> QED BY <1>1, <1>2, <1>3, <1>4, <1>5 DEF PosixNext

\* At the start no process has a pipe.
LEMMA PosixInitChildren == PosixInit => CInv
<1> SUFFICES ASSUME PosixInit PROVE CInv
  OBVIOUS
<1>1. /\ proc = [p \in Pid |-> NoProc] /\ child = [p \in Pid |-> NoTable]
      /\ tab = [f \in Fd |-> CASE f \in Std -> <<"std", f>>
                               [] f = ExtraFd -> ExtraFile
                               [] OTHER -> Free]
  BY DEF PosixInit
<1>2. PInv
  BY PosixInitFds
<1>3. \A i \in Std : tab[i] = <<"std", i>>
  <2> SUFFICES ASSUME NEW f \in Std PROVE tab[f] = <<"std", f>>
    OBVIOUS
  <2>1. f \in Fd /\ f # ExtraFd
    BY StdOpen, ExtraIsOpen
  <2>2. tab[f] = CASE f \in Std -> <<"std", f>> [] f = ExtraFd -> ExtraFile [] OTHER -> Free
    BY <1>1, <2>1
  <2> QED BY <2>1, <2>2
<1>4. \A f \in Fd : tab[f] \in {<<"std", i>> : i \in Std} \cup {ExtraFile, Free}
  <2> SUFFICES ASSUME NEW f \in Fd PROVE tab[f] \in {<<"std", i>> : i \in Std} \cup {ExtraFile, Free}
    OBVIOUS
  <2>1. tab[f] = CASE f \in Std -> <<"std", f>> [] f = ExtraFd -> ExtraFile [] OTHER -> Free
    BY <1>1
  <2>2. CASE f \in Std
    BY <1>3, <2>2
  <2>3. CASE f \notin Std
    BY <2>1, <2>3
  <2> QED BY <2>2, <2>3
<1>5. \A p \in Pid : NoEnds(tab, p)
  BY <1>4, PipeFilesAre DEF NoEnds, Ends
<1>6. EofArrives
  <2> SUFFICES ASSUME NEW p \in Pid, NEW file \in Ends(p)
               PROVE  file \notin Range(tab) /\ \A q \in Pid \ {p} : file \notin Range(child[q])
    BY DEF EofArrives, Ends, InEnd, OutEnd, ErrEnd
  <2>1. Table(tab)
    BY <1>2 DEF PInv
  <2> QED BY <1>1, <1>5, <2>1, NoTableIs, NotInTable
<1>7. ChildConnected
  BY <1>1 DEF ChildConnected, NoProc
<1> QED BY <1>1, <1>2, <1>3, <1>6, <1>7, NoTableIs DEF CInv, ChildPipesExact

\* A child has as its standard files what the flags and the actions ask for,
\* the descriptors it is to inherit and nothing else, and no other process has
\* its ends of its pipes: who reads them sees the end of the file
\* (gpgrt_process_spawn, my_exec).
THEOREM PosixChildPipesExact == PosixSpec => []ChildPipesExact
<1>1. CInv => ChildPipesExact
  BY DEF CInv
<1> QED BY <1>1, PosixInitChildren, PosixNextChildren, PTL DEF PosixSpec

-----------------------------------------------------------------------------
(*****************************************************************************)
(* The calls on a process that has a status.                                 *)
(*****************************************************************************)
EndRecords == [signaled : BOOLEAN, val : Int]
ObjType == pcObj \in [os : {"posix", "w32"}, life : {"runs", "zombie", "gone"}, end : EndRecords,
                      terminated : BOOLEAN, wstatus : EndRecords, taken : BOOLEAN]

\* What a process object keeps of the end of the child is its end: a child's status is kept as
\* soon as it was waited for, and an exit code nobody sets on Windows is 259 or taken.
EndKept ==
  /\ pcObj.terminated => pcObj.life \in {"zombie", "gone"}
  /\ pcObj.terminated /\ pcObj.os = "posix" => pcObj.wstatus = pcObj.end
  /\ pcObj.os = "posix" => ~pcObj.taken
  /\ pcObj.os = "w32" => ~pcObj.end.signaled

\* What the last call told.
ToldTrue ==
  pcTold.code = "ok" /\ pcTold.op \in {"exit", "signal"} =>
    /\ pcObj.life \in {"zombie", "gone"}
    /\ pcTold.op = "signal" => pcObj.end = EndedWith(TRUE, pcTold.val)
    /\ pcTold.op = "exit" => \/ pcObj.end = EndedWith(FALSE, pcTold.val)
                             \/ pcTold.val = -1 /\ (pcObj.end.signaled \/ pcObj.taken)

\* The pipes that were made, and the ends that are left open.
PipeKept ==
  /\ pcPipe.os # "none" => pcPipe.given = pcPipe.open \/ (pcPipe.os = "w32" /\ ~pcPipe.ok /\ pcPipe.open = {"r"})
  /\ pcPipe.stream # "none" => pcPipe.stream \in pcPipe.open
CallsInv == ObjType /\ EndKept /\ ToldTrue /\ PipeKept

\* CallsInv holds before the first call.
LEMMA CallsInitial == ProcCallInit => CallsInv
<1> SUFFICES ASSUME ProcCallInit PROVE CallsInv
  OBVIOUS
<1>1. NotEnded \in EndRecords
  BY DEF NotEnded, EndedWith, EndRecords
<1>2. ~NotEnded.signaled
  BY DEF NotEnded, EndedWith
<1> QED
  BY <1>1, <1>2 DEF ProcCallInit, CallsInv, ObjType, EndKept, ToldTrue, PipeKept

\* A call that tells neither an exit nor a signal, of a process that stays what it was.
LEMMA SaysNothing ==
  ASSUME CallsInv, NEW op, NEW code, NEW val, Told(op, code, val),
         code = "ok" => op \notin {"exit", "signal"},
         ObjType', EndKept', UNCHANGED pcPipe
  PROVE  CallsInv'
  BY DEF CallsInv, Told, ToldTrue, PipeKept

\* A call that tells how a process ended keeps CallsInv.
LEMMA TellsEnd ==
  ASSUME CallsInv, NEW end \in EndRecords, pcObj.end = end, pcObj.life \in {"zombie", "gone"}, NEW val,
         Told("exit", "ok", val), UNCHANGED <<pcObj, pcPipe>>,
         \/ ~end.signaled /\ val = end.val
         \/ val = -1 /\ (end.signaled \/ pcObj.taken)
  PROVE  CallsInv'
<1>1. ~end.signaled => end = EndedWith(FALSE, end.val)
  BY DEF EndRecords, EndedWith
<1> QED
  BY <1>1 DEF CallsInv, ObjType, EndKept, PipeKept, ToldTrue, Told

\* TerminateProcess keeps CallsInv: a process that ended keeps its exit code.
LEMMA KillsOnW32 ==
  ASSUME CallsInv, OnW32, NEW ec \in Int, w32_process_kill(ec) PROVE CallsInv'
<1>1. EndedWith(FALSE, ec) \in EndRecords /\ ~EndedWith(FALSE, ec).signaled
  BY DEF EndRecords, EndedWith
<1>2. pcPipe' = pcPipe /\ pcObj.os = "w32"
  BY DEF OnW32
<1>3. CASE UNCHANGED pcObj
  <2>1. PICK code \in {"ok", "error"} : Told("kill", code, Unsaid)
    BY <1>3 DEF w32_process_kill
  <2> QED
    BY <1>2, <1>3, <2>1, SaysNothing DEF CallsInv, ObjType, EndKept
<1>4. CASE pcObj.life = "runs" /\ Life("zombie", EndedWith(FALSE, ec)) /\ Told("kill", "error", Unsaid)
  <2>1. pcObj' = [pcObj EXCEPT !.life = "zombie", !.end = EndedWith(FALSE, ec)]
    BY <1>4 DEF Life
  <2>2. ObjType' /\ EndKept'
    BY <1>1, <1>2, <1>4, <2>1 DEF CallsInv, ObjType, EndKept
  <2> QED
    BY <1>2, <1>4, <2>2, SaysNothing
<1> QED
  BY <1>3, <1>4 DEF w32_process_kill

\* Every step keeps CallsInv, the end of the child between two calls included.
LEMMA CallsInductive == CallsInv /\ [ProcCallNext]_procCallVars => CallsInv'
<1> SUFFICES ASSUME CallsInv, [ProcCallNext]_procCallVars PROVE CallsInv'
  OBVIOUS
<1>0. ExitStatus \subseteq Int /\ Signal \subseteq Int
  BY ProcAssumption
<1>1. ASSUME NEW end \in EndRecords, ChildEnds(end) PROVE CallsInv'
  <2>1. pcObj' = [pcObj EXCEPT !.life = "zombie", !.end = end]
    BY <1>1 DEF ChildEnds, Life
  <2>2. ObjType' /\ EndKept'
    BY <1>1, <2>1 DEF ChildEnds, CallsInv, ObjType, EndKept
  <2>3. pcObj.life = "runs" /\ pcTold' = pcTold /\ pcPipe' = pcPipe
    BY <1>1 DEF ChildEnds
  <2>4. ToldTrue'
    BY <2>3 DEF CallsInv, ToldTrue
  <2> QED
    BY <2>2, <2>3, <2>4 DEF CallsInv, PipeKept
<1>2. ASSUME NEW v \in Signal, process_kill(v) PROVE CallsInv'
  <2>1. PICK code \in {"ok", "error"} : Told("kill", code, Unsaid)
    BY <1>2 DEF process_kill
  <2> QED
    BY <1>2, <2>1, SaysNothing DEF process_kill, OnPosix, CallsInv, ObjType, EndKept
<1>3. ASSUME OtherReaps PROVE CallsInv'
  <2>1. pcObj' = [pcObj EXCEPT !.life = "gone", !.end = pcObj.end]
    BY <1>3 DEF OtherReaps, Life
  <2>2. pcTold' = pcTold /\ pcPipe' = pcPipe /\ pcObj.life = "zombie" /\ ~pcObj.terminated
    BY <1>3 DEF OtherReaps, OnPosix
  <2> QED
    BY <2>1, <2>2 DEF CallsInv, ObjType, EndKept, ToldTrue, PipeKept
<1>4. ASSUME process_terminate_w32 PROVE CallsInv'
  <2>1. CASE Told("kill", "ok", Unsaid) /\ UNCHANGED pcObj
    BY <1>4, <2>1, SaysNothing DEF process_terminate_w32, OnW32, CallsInv, ObjType, EndKept
  <2>2. CASE w32_process_kill(1)
    BY <1>4, <2>2, KillsOnW32 DEF process_terminate_w32
  <2> QED
    BY <1>4, <2>1, <2>2 DEF process_terminate_w32
<1>5. ASSUME NEW hang, process_wait_posix(hang) PROVE CallsInv'
  <2>1. PICK code \in {"ok", "TIMEOUT", "error"} : Told("wait", code, Unsaid)
    BY <1>5 DEF process_wait_posix
  <2>2. pcPipe' = pcPipe /\ pcObj.os = "posix"
    BY <1>5 DEF process_wait_posix, OnPosix
  <2>3. CASE UNCHANGED pcObj
    BY <2>1, <2>2, <2>3, SaysNothing DEF CallsInv, ObjType, EndKept
  <2>4. CASE pcObj' = [pcObj EXCEPT !.life = "gone", !.terminated = TRUE, !.wstatus = pcObj.end]
    <3>1. ObjType' /\ EndKept'
      BY <2>4 DEF CallsInv, ObjType, EndKept
    <3> QED
      BY <2>1, <2>2, <3>1, SaysNothing
  <2> QED
    BY <1>5, <2>3, <2>4 DEF process_wait_posix
<1>6. ASSUME NEW hang, process_wait_w32(hang) PROVE CallsInv'
  <2>1. PICK code \in {"ok", "TIMEOUT", "GENERAL"} : Told("wait", code, Unsaid)
    BY <1>6 DEF process_wait_w32
  <2>2. pcPipe' = pcPipe /\ pcObj.os = "w32"
    BY <1>6 DEF process_wait_w32, OnW32
  <2>3. CASE UNCHANGED pcObj
    BY <2>1, <2>2, <2>3, SaysNothing DEF CallsInv, ObjType, EndKept
  <2>4. CASE pcObj.life = "zombie" /\ pcObj' = [pcObj EXCEPT !.terminated = TRUE]
    <3>1. ObjType' /\ EndKept'
      BY <2>2, <2>4 DEF CallsInv, ObjType, EndKept
    <3> QED
      BY <2>1, <2>2, <3>1, SaysNothing
  <2> QED
    BY <1>6, <2>3, <2>4 DEF process_wait_w32
<1>7. ASSUME NEW r \in Requests, process_vctl_posix(r) PROVE CallsInv'
  <2>1. UNCHANGED <<pcObj, pcPipe>> /\ pcObj.os = "posix"
    BY <1>7 DEF process_vctl_posix, OnPosix
  <2>2. ObjType' /\ EndKept'
    BY <2>1 DEF CallsInv, ObjType, EndKept
  <2>3. pcObj.end \in EndRecords /\ pcObj.wstatus \in EndRecords
    BY DEF CallsInv, ObjType
  <2>4. TellsExit(pcObj) => pcObj.wstatus = pcObj.end /\ pcObj.life \in {"zombie", "gone"}
    BY <2>1 DEF TellsExit, CallsInv, EndKept
  <2>5. CASE r = "GET_EXIT_ID"
    <3>1. CASE ~TellsExit(pcObj)
      <4>1. Told("exit", "UNFINISHED", Unsaid)
        BY <1>7, <2>5, <3>1 DEF process_vctl_posix
      <4> QED
        BY <2>1, <2>2, <4>1, SaysNothing
    <3>2. CASE TellsExit(pcObj)
      <4>1. Told("exit", "ok", StatusOf(pcObj.end))
        BY <1>7, <2>4, <2>5, <3>2 DEF process_vctl_posix
      <4> QED
        BY <2>1, <2>3, <2>4, <3>2, <4>1, TellsEnd DEF StatusOf
    <3> QED
      BY <3>1, <3>2
  <2>6. CASE r = "GET_WSTATUS"
    <3>1. CASE ~TellsExit(pcObj)
      <4>1. Told("wstatus", "UNFINISHED", Unsaid)
        BY <1>7, <2>6, <3>1 DEF process_vctl_posix
      <4> QED
        BY <2>1, <2>2, <4>1, SaysNothing
    <3>2. CASE TellsExit(pcObj) /\ ~pcObj.wstatus.signaled
      <4>1. Told("exit", "ok", pcObj.end.val)
        BY <1>7, <2>4, <2>6, <3>2 DEF process_vctl_posix
      <4> QED
        BY <2>1, <2>3, <2>4, <3>2, <4>1, TellsEnd
    <3>3. CASE TellsExit(pcObj) /\ pcObj.wstatus.signaled
      <4>1. Told("signal", "ok", pcObj.end.val)
        BY <1>7, <2>4, <2>6, <3>3 DEF process_vctl_posix
      <4>2. pcObj.end = EndedWith(TRUE, pcObj.end.val)
        BY <2>3, <2>4, <3>3 DEF EndRecords, EndedWith
      <4> QED
        BY <2>1, <2>2, <2>4, <3>3, <4>1, <4>2 DEF CallsInv, ToldTrue, PipeKept, Told
    <3> QED
      BY <3>1, <3>2, <3>3 DEF CallsInv, ObjType, EndRecords
  <2>7. CASE r \notin {"GET_EXIT_ID", "GET_WSTATUS"}
    <3>1. PICK code : Told(r, code, Unsaid)
      BY <1>7, <2>7 DEF process_vctl_posix
    <3>2. r \notin {"exit", "signal"}
      BY <1>7 DEF Requests
    <3> QED
      BY <2>1, <2>2, <3>1, <3>2, SaysNothing
  <2> QED
    BY <2>5, <2>6, <2>7
<1>8. ASSUME NEW r \in Requests, process_vctl_w32(r) PROVE CallsInv'
  <2>1. pcPipe' = pcPipe /\ pcObj.os = "w32" /\ OnW32
    BY <1>8 DEF process_vctl_w32, OnW32
  <2>2. pcObj.end \in EndRecords /\ ~pcObj.end.signaled
    BY <2>1 DEF CallsInv, ObjType, EndKept
  <2>3. TellsExit(pcObj) => pcObj.life \in {"zombie", "gone"}
    BY DEF TellsExit, CallsInv, EndKept
  <2>4. pcObj' = pcObj => ObjType' /\ EndKept'
    BY DEF CallsInv, ObjType, EndKept
  <2>5. CASE r \in {"GET_EXIT_ID", "GET_EXIT_CODE"}
    <3>1. pcObj' = pcObj
      BY <1>8, <2>5 DEF process_vctl_w32
    <3>2. CASE TellsExit(pcObj) /\ Told("exit", "ok", w32_exit)
      BY <2>1, <2>2, <2>3, <3>1, <3>2, TellsEnd DEF w32_exit
    <3>3. CASE \E code \in {"UNFINISHED", "error"} : \E val : Told("exit", code, val)
      BY <2>1, <2>4, <3>1, <3>3, SaysNothing
    <3> QED
      BY <1>8, <2>5, <3>2, <3>3 DEF process_vctl_w32
  <2>6. CASE r = "GET_P_HANDLE"
    <3>1. pcObj' = [pcObj EXCEPT !.taken = TRUE] /\ Told(r, "ok", Unsaid)
      BY <1>8, <2>6 DEF process_vctl_w32
    <3>2. ObjType' /\ EndKept'
      BY <2>1, <3>1 DEF CallsInv, ObjType, EndKept
    <3> QED
      BY <2>1, <2>6, <3>1, <3>2, SaysNothing
  <2>7. CASE r = "KILL_WITH_EC"
    <3>1. CASE Told("kill", "ok", Unsaid) /\ UNCHANGED pcObj
      BY <2>1, <2>4, <3>1, SaysNothing
    <3>2. CASE \E ec \in ExitStatus : w32_process_kill(ec)
      BY <1>0, <2>1, <3>2, KillsOnW32
    <3> QED
      BY <1>8, <2>7, <3>1, <3>2 DEF process_vctl_w32
  <2>8. CASE r \notin {"GET_EXIT_ID", "GET_EXIT_CODE", "GET_P_HANDLE", "KILL_WITH_EC"}
    <3>1. pcObj' = pcObj /\ \E code : Told(r, code, Unsaid)
      BY <1>8, <2>8 DEF process_vctl_w32
    <3>2. r \notin {"exit", "signal"}
      BY <1>8 DEF Requests
    <3> QED
      BY <2>1, <2>4, <3>1, <3>2, SaysNothing
  <2> QED
    BY <2>5, <2>6, <2>7, <2>8
<1>9. ASSUME NEW dir \in {-1, 0, 1}, make_pipe(dir) PROVE CallsInv'
  <2>1. PICK fail \in {"none", "pipe", "first", "second", "stream"} :
          do_create_pipe_and_estream_posix(dir, fail) \/ do_create_pipe_and_estream_w32(dir, fail)
    BY <1>9 DEF make_pipe
  <2>2. CASE do_create_pipe_and_estream_posix(dir, fail)
    <3>1. UNCHANGED <<pcObj, pcTold>>
      BY <2>2 DEF do_create_pipe_and_estream_posix, PipeMade
    <3>2. CASE fail \in {"pipe", "stream"}
      <4>1. /\ pcPipe'.stream = "none"
            /\ pcPipe'.given = pcPipe'.open \/ (pcPipe'.os = "w32" /\ pcPipe'.ok = FALSE /\ pcPipe'.open = {"r"})
        BY <2>2, <3>2 DEF do_create_pipe_and_estream_posix, PipeMade, NoneOpen
      <4> QED
        BY <3>1, <4>1 DEF CallsInv, ObjType, EndKept, ToldTrue, PipeKept
    <3>3. CASE fail \in {"none", "first", "second"}
      <4>1. dir = 0 \/ StreamEnd(dir) \in {"r", "w"}
        BY DEF StreamEnd
      <4>2. pcPipe'.given = pcPipe'.open /\ pcPipe'.open = {"r", "w"}
        BY <2>2, <3>3 DEF do_create_pipe_and_estream_posix, PipeMade
      <4>3. pcPipe'.stream = IF dir = 0 THEN "none" ELSE StreamEnd(dir)
        BY <2>2, <3>3 DEF do_create_pipe_and_estream_posix, PipeMade
      <4> QED
        BY <3>1, <4>1, <4>2, <4>3 DEF CallsInv, ObjType, EndKept, ToldTrue, PipeKept
    <3> QED
      BY <2>1, <3>2, <3>3
  <2>3. CASE do_create_pipe_and_estream_w32(dir, fail)
    <3>1. UNCHANGED <<pcObj, pcTold>>
      BY <2>3 DEF do_create_pipe_and_estream_w32, PipeMade
    <3>2. CASE fail \in {"pipe", "first", "second", "stream"}
      <4>1. /\ pcPipe'.stream = "none"
            /\ pcPipe'.given = pcPipe'.open \/ (pcPipe'.os = "w32" /\ pcPipe'.ok = FALSE /\ pcPipe'.open = {"r"})
        BY <2>3, <3>2 DEF do_create_pipe_and_estream_w32, PipeMade, NoneOpen
      <4> QED
        BY <3>1, <4>1 DEF CallsInv, ObjType, EndKept, ToldTrue, PipeKept
    <3>3. CASE fail \in {"none"}
      <4>1. dir = 0 \/ StreamEnd(dir) \in {"r", "w"}
        BY DEF StreamEnd
      <4>2. pcPipe'.given = pcPipe'.open /\ pcPipe'.open = {"r", "w"}
        BY <2>3, <3>3 DEF do_create_pipe_and_estream_w32, PipeMade
      <4>3. pcPipe'.stream = IF dir = 0 THEN "none" ELSE StreamEnd(dir)
        BY <2>3, <3>3 DEF do_create_pipe_and_estream_w32, PipeMade
      <4> QED
        BY <3>1, <4>1, <4>2, <4>3 DEF CallsInv, ObjType, EndKept, ToldTrue, PipeKept
    <3> QED
      BY <2>1, <3>2, <3>3
  <2> QED
    BY <2>1, <2>2, <2>3
<1>10. ASSUME UNCHANGED procCallVars PROVE CallsInv'
  BY <1>10 DEF procCallVars, CallsInv, ObjType, EndKept, ToldTrue, PipeKept
<1>11. \A b \in BOOLEAN, v \in Int : EndedWith(b, v) \in EndRecords
  BY DEF EndRecords, EndedWith
<1> QED
  BY <1>0, <1>1, <1>2, <1>3, <1>4, <1>5, <1>6, <1>7, <1>8, <1>9, <1>10, <1>11 DEF ProcCallNext

\* What gpgrt_process_wait and gpgrt_process_ctl tell of the end of a process is how it ended,
\* or -1 for a signal or an exit code that was taken, and a pipe's stream is one of its open ends (spawn-posix.c, spawn-w32.c).
THEOREM ProcessCallsTellTrue == ProcCallSpec => []CallsTellTrue
<1>1. CallsInv => CallsTellTrue
  BY DEF CallsInv, ToldTrue, PipeKept, CallsTellTrue
<1> QED
  BY <1>1, CallsInitial, CallsInductive, PTL DEF ProcCallSpec

-----------------------------------------------------------------------------
(*****************************************************************************)
(* The environment.                                                          *)
(*****************************************************************************)
EnvVal == EnvValue \cup {Unset}
GetCode == {"none", "EINVAL", "unset", "ENOMEM", "EIO", "ok"}
SetCode == {"none", "EINVAL", "overwrite", "keep", "set", "kept", "failed"}
GetCall == [at : {"ready", "again"}, name : EnvName, size : Nat, seen : SUBSET EnvVal,
            code : GetCode, value : EnvVal]
SetCall == [at : {"ready", "libc"}, name : EnvName, value : EnvVal, code : SetCode, alone : BOOLEAN]

\* The variables keep their types, and a call that reads the value has measured it.
EnvTypes ==
  /\ sysenv \in [EnvVar -> EnvVal] /\ crtenv \in [EnvVar -> EnvVal]
  /\ getting \in GetCall /\ setting \in SetCall
  /\ getting.at = "again" => getting.name \in EnvVar /\ getting.code = "none"
  /\ setting.at = "libc" \/ setting.code = "set" => setting.name \in EnvVar
  /\ setting.at = "libc" => setting.code \in {"overwrite", "keep"}
\* While a call of getenv runs it has seen the value that the variable has.
SeenNow == getting.at = "again" => sysenv[getting.name] \in getting.seen
GetTrue == /\ getting.code = "ok" => getting.value \in getting.seen
           /\ getting.code = "unset" => Unset \in getting.seen
\* Between its two environments an overwriting setenv has set the first.
SysSet == setting.at = "libc" /\ setting.code = "overwrite" /\ setting.alone =>
            sysenv[setting.name] = setting.value
BothSet == setting.code = "set" /\ setting.alone /\ setting.value # 0 =>
             sysenv[setting.name] = setting.value /\ crtenv[setting.name] = setting.value
EnvInv == EnvTypes /\ SeenNow /\ GetTrue /\ SysSet /\ BothSet

\* EnvInv holds at the start.
LEMMA EnvInitial == EnvInit => EnvInv
  BY DEF EnvInit, EnvInv, EnvTypes, GetCall, SetCall, GetCode, SetCode, EnvVal, EnvName, NoGet, NoSet, SeenNow, GetTrue, SysSet, BothSet

\* What a call of getenv sees of a variable that is set.
LEMMA SeesIs ==
  ASSUME EnvInv, NEW name \in EnvVar, NEW v \in EnvVal, SetSystem(name, v)
  PROVE  /\ sysenv' \in [EnvVar -> EnvVal] /\ sysenv'[name] = v
         /\ \A m \in EnvVar : m # name => sysenv'[m] = sysenv[m]
         /\ getting' \in GetCall
         /\ getting'.at = "again" => getting'.name \in EnvVar /\ getting'.code = "none"
         /\ SeenNow' /\ GetTrue'
<1>1. sysenv' = [sysenv EXCEPT ![name] = v] /\ getting' = Sees(name, v)
  BY DEF SetSystem
<1>2. CASE getting.at = "again" /\ getting.name = name
  <2>1. getting' = [getting EXCEPT !.seen = getting.seen \cup {v}]
    BY <1>1, <1>2 DEF Sees
  <2> QED
    BY <1>1, <1>2, <2>1 DEF EnvInv, EnvTypes, GetCall, SetCall, GetCode, SetCode, SeenNow, GetTrue
<1>3. CASE ~(getting.at = "again" /\ getting.name = name)
  <2>1. getting' = getting
    BY <1>1, <1>3 DEF Sees
  <2> QED
    BY <1>1, <1>3, <2>1 DEF EnvInv, EnvTypes, GetCall, SetCall, GetCode, SetCode, SeenNow, GetTrue
<1> QED
  BY <1>2, <1>3

\* Every step keeps EnvInv, whichever thread's.
LEMMA EnvInductive == EnvInv /\ [EnvNext]_envVars => EnvInv'
<1> SUFFICES ASSUME EnvInv, [EnvNext]_envVars PROVE EnvInv'
  OBVIOUS
<1>0. EnvValue \subseteq Nat /\ Unset \notin EnvValue
  BY EnvAssumption
<1>1. ASSUME NEW name \in EnvName, GetStart(name) PROVE EnvInv'
  <2>1. UNCHANGED <<sysenv, crtenv, setting>>
    BY <1>1 DEF GetStart
  <2>2. CASE name = "bad"
    BY <1>1, <2>1, <2>2 DEF GetStart, NoGet, EnvInv, EnvTypes, GetCall, SetCall, GetCode, SetCode, EnvVal, EnvName, SeenNow, GetTrue, SysSet, BothSet
  <2>3. CASE name # "bad"
    <3>1. name \in EnvVar /\ sysenv[name] \in EnvVal
      BY <2>3 DEF EnvName, EnvInv, EnvTypes, GetCall, SetCall, GetCode, SetCode
    <3>2. CASE sysenv[name] = Unset
      <4>1. getting' = [NoGet EXCEPT !.name = name, !.seen = {Unset}, !.code = "unset"]
        BY <1>1, <2>3, <3>2 DEF GetStart
      <4> QED
        BY <2>1, <3>1, <4>1, ZenonT(60) DEF NoGet, EnvInv, EnvTypes, GetCall, SetCall, GetCode, SetCode, EnvVal, EnvName, SeenNow, GetTrue, SysSet, BothSet
    <3>3. CASE sysenv[name] # Unset
      <4>1. getting' = [NoGet EXCEPT !.at = "again", !.name = name, !.seen = {sysenv[name]},
                                     !.size = Needed(sysenv[name])]
        BY <1>1, <2>3, <3>3 DEF GetStart
      <4>2. Needed(sysenv[name]) \in Nat
        <5>1. sysenv[name] \in Nat
          BY <1>0, <3>1, <3>3 DEF EnvVal
        <5> QED
          BY <5>1 DEF Needed
      <4> QED
        BY <2>1, <3>1, <4>1, <4>2, ZenonT(60) DEF NoGet, EnvInv, EnvTypes, GetCall, SetCall, GetCode, SetCode, EnvVal, EnvName, SeenNow, GetTrue, SysSet, BothSet
    <3> QED
      BY <3>2, <3>3
  <2> QED
    BY <2>2, <2>3
<1>2. ASSUME GetAgain PROVE EnvInv'
  <2> DEFINE v == sysenv[getting.name]
  <2>1. UNCHANGED <<sysenv, crtenv, setting>> /\ getting.at = "again"
    BY <1>2 DEF GetAgain
  <2>2. getting.name \in EnvVar /\ v \in EnvVal /\ v \in getting.seen
    BY <2>1 DEF EnvInv, EnvTypes, GetCall, SetCall, GetCode, SetCode, SeenNow
  <2>3. ASSUME NEW code \in GetCode, NEW w \in EnvVal, Gets(code, w),
               code = "ok" => w = v, code = "unset" => v = Unset
        PROVE  EnvInv'
    <3>1. getting' = [getting EXCEPT !.at = "ready", !.code = code, !.value = w]
      BY <2>3 DEF Gets
    <3> QED
      BY <2>1, <2>2, <2>3, <3>1 DEF EnvInv, EnvTypes, GetCall, SetCall, GetCode, SetCode, SeenNow, GetTrue, SysSet, BothSet
  <2>4. CASE Gets("ENOMEM", Unset) \/ (v = Unset /\ Gets("unset", Unset)) \/ Gets("EIO", Unset)
    BY <2>3, <2>4 DEF EnvVal, GetCode
  <2>5. CASE v # Unset /\ TooLong(v, getting.size) /\ getting' = [getting EXCEPT !.size = Needed(v)]
    <3>1. Needed(v) \in Nat
      BY <1>0, <2>2, <2>5 DEF Needed, EnvVal
    <3> QED
      BY <2>1, <2>5, <3>1 DEF EnvInv, EnvTypes, GetCall, SetCall, GetCode, SetCode, SeenNow, GetTrue, SysSet, BothSet
  <2>6. CASE v # Unset /\ ~TooLong(v, getting.size) /\ Gets("ok", Written(v, getting.size))
    <3>1. Written(v, getting.size) = v
      BY <2>6 DEF TooLong, Written
    <3> QED
      BY <2>2, <2>3, <2>6, <3>1 DEF GetCode
  <2> QED
    BY <1>2, <2>4, <2>5, <2>6 DEF GetAgain
<1>3. ASSUME NEW name \in EnvName, NEW value \in EnvVal, NEW overwrite \in BOOLEAN,
             SetStart(name, value, overwrite)
      PROVE  EnvInv'
  <2>1. crtenv' = crtenv /\ setting.at = "ready"
    BY <1>3 DEF SetStart
  <2>2. CASE UNCHANGED <<sysenv, getting>> /\ \E n \in EnvName, x \in EnvVal :
               setting' = [at |-> "ready", name |-> n, value |-> x, code |-> "EINVAL", alone |-> TRUE]
    BY <2>1, <2>2 DEF NoSet, EnvInv, EnvTypes, GetCall, SetCall, GetCode, SetCode, EnvVal, SeenNow, GetTrue, SysSet, BothSet
  <2>3. CASE name = "bad"
    <3>1. setting' = [NoSet EXCEPT !.code = "EINVAL"] /\ UNCHANGED <<sysenv, getting>>
      BY <1>3, <2>3 DEF SetStart
    <3>2. setting' = [at |-> "ready", name |-> "bad", value |-> Unset, code |-> "EINVAL", alone |-> TRUE]
      BY <3>1 DEF NoSet
    <3>3. "bad" \in EnvName /\ Unset \in EnvVal
      BY DEF EnvName, EnvVal
    <3> QED
      BY <2>2, <3>1, <3>2, <3>3
  <2>4. CASE name # "bad" /\ setting' # [NoSet EXCEPT !.name = name, !.value = value, !.code = "EINVAL"]
    <3>1. name \in EnvVar
      BY <2>4 DEF EnvName
    <3>2. setting' = [at |-> "libc", name |-> name, value |-> value,
                      code |-> IF overwrite THEN "overwrite" ELSE "keep", alone |-> TRUE]
      BY <1>3, <2>4 DEF SetStart
    <3>3. CASE SetSystem(name, value)
      BY <2>1, <3>1, <3>2, <3>3, SeesIs DEF EnvInv, EnvTypes, GetCall, SetCall, GetCode, SetCode, EnvName, SysSet, BothSet
    <3>4. CASE UNCHANGED <<sysenv, getting>> /\ ~overwrite
      BY <2>1, <3>1, <3>2, <3>4 DEF EnvInv, EnvTypes, GetCall, SetCall, GetCode, SetCode, EnvName, SeenNow, GetTrue, SysSet, BothSet
    <3> QED
      BY <1>3, <2>4, <3>3, <3>4 DEF SetStart
  <2>5. CASE name # "bad" /\ setting' = [NoSet EXCEPT !.name = name, !.value = value, !.code = "EINVAL"]
    <3>1. UNCHANGED <<sysenv, getting>>
      BY <1>3, <2>5 DEF SetStart, NoSet
    <3>2. setting' = [at |-> "ready", name |-> name, value |-> value, code |-> "EINVAL", alone |-> TRUE]
      BY <2>5 DEF NoSet
    <3> QED
      BY <2>2, <3>1, <3>2
  <2> QED
    BY <2>3, <2>4, <2>5
<1>4. ASSUME SetLibc PROVE EnvInv'
  <2> DEFINE old == crtenv[setting.name]
             changes == ~KeepsLibc(setting.code, old) /\ (setting.value # Unset \/ old # Unset)
  <2>1. UNCHANGED <<sysenv, getting>> /\ setting.at = "libc" /\ setting.name \in EnvVar
        /\ setting.code \in {"overwrite", "keep"} /\ setting.value \in EnvVal
    BY <1>4 DEF SetLibc, EnvInv, EnvTypes, GetCall, SetCall, GetCode, SetCode
  <2>2. CASE SetReturns("failed") /\ UNCHANGED crtenv
    <3>1. setting' = [setting EXCEPT !.at = "ready", !.code = "failed"]
      BY <2>2 DEF SetReturns
    <3> QED
      BY <2>1, <2>2, <3>1 DEF EnvInv, EnvTypes, GetCall, SetCall, GetCode, SetCode, SeenNow, GetTrue, SysSet, BothSet
  <2>3. CASE /\ setting' = [setting EXCEPT !.at = "ready", !.code = IF @ = "overwrite" THEN "set" ELSE "kept"]
             /\ IF ~changes THEN UNCHANGED crtenv
                ELSE \E v \in {setting.value, IF setting.value = 0 THEN Unset ELSE setting.value} :
                       crtenv' = [crtenv EXCEPT ![setting.name] = v]
    <3>1. crtenv' \in [EnvVar -> EnvVal]
      BY <2>1, <2>3 DEF EnvInv, EnvTypes, GetCall, SetCall, GetCode, SetCode, EnvVal
    <3>2. setting.code = "overwrite" /\ setting.value # 0 => crtenv'[setting.name] = setting.value
      <4>1. CASE ~changes
        BY <2>1, <2>3, <4>1 DEF KeepsLibc
      <4>2. CASE changes
        BY <2>1, <2>3, <4>2 DEF EnvInv, EnvTypes, GetCall, SetCall, GetCode, SetCode
      <4> QED
        BY <4>1, <4>2
    <3> HIDE DEF changes
    <3>3. setting'.name = setting.name /\ setting'.value = setting.value /\ setting'.alone = setting.alone
          /\ setting'.at = "ready" /\ setting'.code = IF setting.code = "overwrite" THEN "set" ELSE "kept"
      BY <2>3 DEF EnvInv, EnvTypes, GetCall, SetCall, GetCode, SetCode
    <3>4. EnvTypes'
      BY <2>1, <2>3, <3>1, <3>3 DEF EnvInv, EnvTypes, GetCall, SetCall, GetCode, SetCode
    <3> QED
      BY <2>1, <3>2, <3>3, <3>4 DEF EnvInv, SeenNow, GetTrue, SysSet, BothSet
  <2> QED
    BY <1>4, <2>2, <2>3 DEF SetLibc
<1>5. ASSUME NEW name \in EnvVar, NEW v \in EnvVal, OtherSets(name, v) PROVE EnvInv'
  <2>1. SetSystem(name, v) /\ crtenv' = crtenv /\ setting' = [setting EXCEPT !.alone = setting.alone /\ name # setting.name]
    BY <1>5 DEF OtherSets
  <2>2. EnvTypes'
    BY <2>1, SeesIs DEF EnvInv, EnvTypes, GetCall, SetCall, GetCode, SetCode
  <2>3. /\ setting'.at = setting.at /\ setting'.name = setting.name /\ setting'.code = setting.code
        /\ setting'.value = setting.value /\ (setting'.alone <=> setting.alone /\ name # setting.name)
    BY <2>1 DEF EnvInv, EnvTypes, GetCall, SetCall, GetCode, SetCode
  <2>4. SysSet' /\ BothSet'
    BY <2>1, <2>3, SeesIs DEF EnvInv, EnvTypes, GetCall, SetCall, GetCode, SetCode, SysSet, BothSet
  <2> QED
    BY <2>1, <2>2, <2>4, SeesIs DEF EnvInv
<1>6. CASE UNCHANGED envVars
  BY <1>6 DEF envVars, EnvInv, EnvTypes, GetCall, SetCall, GetCode, SetCode, SeenNow, GetTrue, SysSet, BothSet
<1> QED
  BY <1>1, <1>2, <1>3, <1>4, <1>5, <1>6 DEF EnvNext, EnvVal

\* gpgrt_getenv returns a value that the variable had during the call, and after gpgrt_setenv it
\* has the new one in the system and in the C library (_gpgrt_getenv, _gpgrt_setenv, sysutils.c).
THEOREM EnvironmentStays == EnvSpec => []EnvironmentKept
<1>1. EnvInv => EnvironmentKept
  BY DEF EnvInv, GetTrue, BothSet, EnvironmentKept
<1> QED
  BY <1>1, EnvInitial, EnvInductive, PTL DEF EnvSpec
=============================================================================
