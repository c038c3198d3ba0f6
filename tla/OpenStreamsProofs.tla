-------------------------- MODULE OpenStreamsProofs ---------------------------
(***************************************************************************)
(* Streams over descriptors: for every number of streams and descriptors and  *)
(* every order of opens, reopens and closes with their failures, whoever has  *)
(* to close a descriptor closes it; the non-blocking mode and the name        *)
(* are what was promised; a standard stream goes where it was told; and a     *)
(* close makes the notifications that were asked for, the last first.        *)
(*                                                                         *)
(* OInv is the inductive invariant.  The accounts alone are not inductive: a  *)
(* close is only right if no other stream refers to the same descriptor       *)
(* (OneReference), a name stays only if it is marked when it is given out     *)
(* (NameKept), and both hold only until the behaviour is undefined (dead).   *)
(* Stepped is the common part of the proofs: a step of one stream.            *)
(* NotifyInv adds what a close needs for the notifications: no function is      *)
(* listed twice, and the one that runs is on the list.                        *)
(* PastInv adds the history: a cookie is freed under a stream only by a failed  *)
(* ioctl, so that what ends the defined behaviour can be named, and a handler   *)
(* is forgotten only by freopen or while another one runs.                    *)
(*                                                                         *)
(* The last sections are about what streams and threads rest on: the locks,   *)
(* the clamp around the calls of the system, and poll.                        *)
(***************************************************************************)
EXTENDS Locks, SyscallClamp, Poll, OpenStreams, FiniteSetTheorems, WellFoundedInduction, TLAPS

\* The fields of a stream, and the types that the steps need of it and of a descriptor.
\* Nothing is said of the notifications (see NotifyKept): no descriptor depends on them.
Fields == {"life", "way", "fd", "no_close", "cookie", "modeflag", "onclose", "running", "name",
           "inuse", "told", "held", "reopened", "asked"}

StreamShape(r) ==
  /\ DOMAIN r = Fields
  /\ r.fd \in Desc \cup {NoDesc} /\ r.no_close \in BOOLEAN
  /\ r.modeflag \in BOOLEAN /\ r.name \in BOOLEAN
FdShape(f) == DOMAIN f = {"open", "nonblock"} /\ f.open \in BOOLEAN /\ f.nonblock \in BOOLEAN
Shape(l) ==
  /\ DOMAIN l = {"fd", "str", "dead"} /\ l.dead \in BOOLEAN
  /\ DOMAIN l.fd = Desc /\ \A d \in Desc : FdShape(l.fd[d])
  /\ DOMAIN l.str = Stream /\ \A s \in Stream : StreamShape(l.str[s])

\* A stream that is not there has no cookie, no name and nothing promised.
LEMMA NoStreamIs ==
  /\ StreamShape(NoStream)
  /\ NoStream.life = "none" /\ NoStream.cookie = "none" /\ NoStream.fd = NoDesc
  /\ NoStream.held = "no" /\ NoStream.told = "unset" /\ ~NoStream.no_close
  /\ NoStream.onclose = <<>> /\ NoStream.running = NoHandler /\ NoStream.asked = <<>>
  BY DEF NoStream, StreamShape, Fields

\* A close of one descriptor leaves all others and the streams alone.
LEMMA ClosedFdIs ==
  ASSUME NEW l, Shape(l), NEW d \in Desc
  PROVE  LET m == ClosedFd(l, d)
         IN  /\ Shape(m) /\ m.str = l.str /\ m.dead = l.dead
             /\ ~m.fd[d].open
             /\ \A e \in Desc : e # d => m.fd[e] = l.fd[e]
<1> DEFINE m == ClosedFd(l, d)
<1>1. m = [l EXCEPT !.fd = [l.fd EXCEPT ![d] = [open |-> FALSE, nonblock |-> FALSE]]]
  BY DEF ClosedFd
<1>2. DOMAIN m = {"fd", "str", "dead"} /\ m.str = l.str /\ m.dead = l.dead
       /\ m.fd = [l.fd EXCEPT ![d] = [open |-> FALSE, nonblock |-> FALSE]]
  BY <1>1 DEF Shape
<1>3. DOMAIN m.fd = Desc /\ (\A e \in Desc : e # d => m.fd[e] = l.fd[e])
       /\ m.fd[d] = [open |-> FALSE, nonblock |-> FALSE]
  BY <1>2 DEF Shape
<1>4. FdShape(m.fd[d]) /\ ~m.fd[d].open
  BY <1>3 DEF FdShape
<1> QED BY <1>2, <1>3, <1>4 DEF Shape

\* A change of one field of one stream.
SetField(l, s, f, v) == [l EXCEPT !.str = [l.str EXCEPT ![s] = [l.str[s] EXCEPT ![f] = v]]]

\* What one such change leaves alone.
LEMMA SetFieldIs ==
  ASSUME NEW l, NEW s \in Stream, DOMAIN l = {"fd", "str", "dead"}, DOMAIN l.str = Stream, DOMAIN l.str[s] = Fields,
         NEW f \in Fields, NEW v
  PROVE  LET m == SetField(l, s, f, v)
         IN  /\ DOMAIN m = {"fd", "str", "dead"} /\ m.fd = l.fd /\ m.dead = l.dead
             /\ DOMAIN m.str = Stream /\ \A t \in Stream : t # s => m.str[t] = l.str[t]
             /\ DOMAIN m.str[s] = Fields /\ m.str[s][f] = v
             /\ \A g \in Fields : g # f => m.str[s][g] = l.str[s][g]
<1> DEFINE m == SetField(l, s, f, v)
<1>1. /\ DOMAIN m = {"fd", "str", "dead"} /\ m.fd = l.fd /\ m.dead = l.dead
      /\ m.str = [l.str EXCEPT ![s] = [l.str[s] EXCEPT ![f] = v]]
  BY DEF SetField
<1>2. /\ DOMAIN m.str = Stream /\ \A t \in Stream : t # s => m.str[t] = l.str[t]
      /\ m.str[s] = [l.str[s] EXCEPT ![f] = v]
  BY <1>1
<1> QED BY <1>1, <1>2

\* The same for two fields.
LEMMA TwoFieldsAre ==
  ASSUME NEW l, NEW s \in Stream, DOMAIN l = {"fd", "str", "dead"}, DOMAIN l.str = Stream, DOMAIN l.str[s] = Fields,
         NEW f \in Fields, NEW v, NEW g \in Fields, NEW w
  PROVE  LET m == SetField(SetField(l, s, f, v), s, g, w)
         IN  /\ DOMAIN m = {"fd", "str", "dead"} /\ m.fd = l.fd /\ m.dead = l.dead
             /\ DOMAIN m.str = Stream /\ \A t \in Stream : t # s => m.str[t] = l.str[t]
             /\ DOMAIN m.str[s] = Fields /\ m.str[s][g] = w /\ (f # g => m.str[s][f] = v)
             /\ \A h \in Fields : h \notin {f, g} => m.str[s][h] = l.str[s][h]
<1> DEFINE k == SetField(l, s, f, v)
           m == SetField(k, s, g, w)
<1>1. /\ DOMAIN k = {"fd", "str", "dead"} /\ k.fd = l.fd /\ k.dead = l.dead
      /\ DOMAIN k.str = Stream /\ \A t \in Stream : t # s => k.str[t] = l.str[t]
      /\ DOMAIN k.str[s] = Fields /\ k.str[s][f] = v
      /\ \A h \in Fields : h # f => k.str[s][h] = l.str[s][h]
  BY SetFieldIs
<1> HIDE DEF k
<1>2. /\ DOMAIN m = {"fd", "str", "dead"} /\ m.fd = k.fd /\ m.dead = k.dead
      /\ DOMAIN m.str = Stream /\ \A t \in Stream : t # s => m.str[t] = k.str[t]
      /\ DOMAIN m.str[s] = Fields /\ m.str[s][g] = w
      /\ \A h \in Fields : h # g => m.str[s][h] = k.str[s][h]
  BY <1>1, SetFieldIs
<1> HIDE DEF m
<1> QED BY <1>1, <1>2 DEF m, k

\* The close function closes the descriptor, unless it has to be left open; called
\* twice it is undefined.
LEMMA CloseIs ==
  ASSUME NEW l, Shape(l), NEW s \in Stream
  PROVE  LET m == func_close(l, s)
         IN  /\ Shape(m)
             /\ l.str[s].cookie # "live" => m.dead /\ m.str = l.str /\ m.fd = l.fd
             /\ l.str[s].cookie = "live" =>
                  /\ m.dead = l.dead /\ \A t \in Stream : t # s => m.str[t] = l.str[t]
                  /\ m.str[s].cookie = "freed"
                  /\ \A g \in Fields : g # "cookie" => m.str[s][g] = l.str[s][g]
                  /\ LeavesOpen(l.str[s]) => m.fd = l.fd
                  /\ ~LeavesOpen(l.str[s]) =>
                       /\ ~m.fd[l.str[s].fd].open
                       /\ \A e \in Desc : e # l.str[s].fd => m.fd[e] = l.fd[e]
<1> DEFINE m == func_close(l, s)
           q == SetField(l, s, "cookie", "freed")
<1>1. CASE l.str[s].cookie # "live"
  <2>1. m = [l EXCEPT !.dead = TRUE]
    BY <1>1 DEF func_close
  <2>2. DOMAIN m = {"fd", "str", "dead"} /\ m.str = l.str /\ m.fd = l.fd /\ m.dead = TRUE
    BY <2>1 DEF Shape
  <2> QED BY <1>1, <2>2 DEF Shape
<1>2. CASE l.str[s].cookie = "live"
  <2>1. m = IF LeavesOpen(l.str[s]) THEN q ELSE ClosedFd(q, l.str[s].fd)
    BY <1>2 DEF func_close, SetField
  <2>2. "cookie" \in Fields /\ Fields \ {"cookie"} \subseteq Fields /\ \A g \in {"fd", "no_close", "modeflag", "name"} : g \in Fields /\ g # "cookie"
    BY DEF Fields
  <2>9. DOMAIN l = {"fd", "str", "dead"} /\ DOMAIN l.str = Stream /\ DOMAIN l.str[s] = Fields
    BY DEF Shape, StreamShape
  <2>3. /\ DOMAIN q = {"fd", "str", "dead"} /\ q.fd = l.fd /\ q.dead = l.dead
        /\ DOMAIN q.str = Stream /\ \A t \in Stream : t # s => q.str[t] = l.str[t]
        /\ DOMAIN q.str[s] = Fields /\ q.str[s]["cookie"] = "freed"
        /\ \A g \in Fields : g # "cookie" => q.str[s][g] = l.str[s][g]
    BY <2>2, <2>9, SetFieldIs
  <2> HIDE DEF q
  <2>4. StreamShape(q.str[s])
    BY <2>2, <2>3 DEF Shape, StreamShape
  <2>5. Shape(q)
    BY <2>3, <2>4 DEF Shape
  <2>6. CASE LeavesOpen(l.str[s])
    BY <1>2, <2>1, <2>3, <2>5, <2>6
  <2>7. CASE ~LeavesOpen(l.str[s])
    <3>1. l.str[s].fd \in Desc
      BY <2>7 DEF LeavesOpen, Shape, StreamShape
    <3> QED BY <1>2, <2>1, <2>3, <2>5, <2>7, <3>1, ClosedFdIs
  <2> QED BY <2>6, <2>7
<1> QED BY <1>1, <1>2

\* The same with the notifications and the name, which are gone.
LEMMA DeinitIs ==
  ASSUME NEW l, Shape(l), NEW s \in Stream
  PROVE  LET m == deinit_stream_obj(l, s)
         IN  /\ Shape(m)
             /\ \A t \in Stream : t # s => m.str[t] = l.str[t]
             /\ \A g \in Fields \ {"cookie", "name", "inuse", "onclose", "held"} : m.str[s][g] = l.str[s][g]
             /\ l.str[s].cookie # "live" => m.dead /\ m.fd = l.fd /\ m.str[s].cookie = l.str[s].cookie
             /\ l.str[s].cookie = "live" =>
                  /\ m.dead = l.dead /\ m.str[s].cookie = "freed"
                  /\ LeavesOpen(l.str[s]) => m.fd = l.fd
                  /\ ~LeavesOpen(l.str[s]) =>
                       /\ ~m.fd[l.str[s].fd].open
                       /\ \A e \in Desc : e # l.str[s].fd => m.fd[e] = l.fd[e]
             /\ m.str[s].held # "yes" /\ ~m.str[s].inuse /\ m.str[s].onclose = <<>>
             /\ m.str[s].held = "dangling" => l.str[s].held \in {"yes", "dangling"}
<1> DEFINE m == deinit_stream_obj(l, s)
           k == func_close(l, s)
<1>1. /\ Shape(k)
      /\ k.dead \in BOOLEAN /\ \A t \in Stream : t # s => k.str[t] = l.str[t]
      /\ \A g \in Fields : g # "cookie" => k.str[s][g] = l.str[s][g]
      /\ l.str[s].cookie # "live" => k.dead /\ k.fd = l.fd /\ k.str[s].cookie = l.str[s].cookie
      /\ l.str[s].cookie = "live" =>
           /\ k.dead = l.dead /\ k.str[s].cookie = "freed"
           /\ LeavesOpen(l.str[s]) => k.fd = l.fd
           /\ ~LeavesOpen(l.str[s]) =>
                /\ ~k.fd[l.str[s].fd].open
                /\ \A e \in Desc : e # l.str[s].fd => k.fd[e] = l.fd[e]
  BY CloseIs DEF Shape
<1>2. m = [k EXCEPT !.str[s].name = FALSE, !.str[s].inuse = FALSE, !.str[s].onclose = <<>>,
                    !.str[s].held = IF @ = "yes" THEN "dangling" ELSE @]
  BY DEF deinit_stream_obj
<1> HIDE DEF k
<1>3. DOMAIN k = {"fd", "str", "dead"} /\ DOMAIN k.str = Stream /\ DOMAIN k.str[s] = Fields
  BY <1>1 DEF Shape, StreamShape
<1>4. DOMAIN m = {"fd", "str", "dead"} /\ m.fd = k.fd /\ m.dead = k.dead /\ DOMAIN m.str = Stream
       /\ \A t \in Stream : t # s => m.str[t] = k.str[t]
  BY <1>2, <1>3
<1>5. DOMAIN m.str[s] = Fields
       /\ m.str[s].name = FALSE /\ m.str[s].inuse = FALSE /\ m.str[s].onclose = <<>>
       /\ m.str[s].held = IF k.str[s].held = "yes" THEN "dangling" ELSE k.str[s].held
  BY <1>2, <1>3 DEF Fields
<1>6. \A g \in Fields \ {"name", "inuse", "onclose", "held"} : m.str[s][g] = k.str[s][g]
  <2>1. /\ m.str[s].life = k.str[s].life
       /\ m.str[s].way = k.str[s].way
       /\ m.str[s].fd = k.str[s].fd
       /\ m.str[s].no_close = k.str[s].no_close
       /\ m.str[s].cookie = k.str[s].cookie
       /\ m.str[s].modeflag = k.str[s].modeflag
       /\ m.str[s].running = k.str[s].running
       /\ m.str[s].told = k.str[s].told
       /\ m.str[s].reopened = k.str[s].reopened
       /\ m.str[s].asked = k.str[s].asked
    BY <1>2, <1>3 DEF Fields
  <2> QED BY <2>1 DEF Fields
<1> HIDE DEF m
<1>7. StreamShape(m.str[s])
  BY <1>1, <1>5, <1>6 DEF Shape, StreamShape, Fields
<1>8. Shape(m)
  BY <1>1, <1>4, <1>7 DEF Shape
<1>9. m.str[s].cookie = k.str[s].cookie /\ k.str[s].held = l.str[s].held
  BY <1>1, <1>6 DEF Fields
<1>10. \A g \in Fields \ {"cookie", "name", "inuse", "onclose", "held"} : m.str[s][g] = l.str[s][g]
  BY <1>1, <1>6
<1>11. /\ Shape(m) /\ \A t \in Stream : t # s => m.str[t] = l.str[t]
       /\ m.str[s].held # "yes" /\ ~m.str[s].inuse /\ m.str[s].onclose = <<>>
       /\ m.str[s].held = "dangling" => l.str[s].held \in {"yes", "dangling"}
  BY <1>1, <1>4, <1>5, <1>8, <1>9
<1>12. l.str[s].cookie # "live" => m.dead /\ m.fd = l.fd /\ m.str[s].cookie = l.str[s].cookie
  BY <1>1, <1>4, <1>9
<1>13. l.str[s].cookie = "live" =>
         /\ m.dead = l.dead /\ m.str[s].cookie = "freed"
         /\ LeavesOpen(l.str[s]) => m.fd = l.fd
         /\ ~LeavesOpen(l.str[s]) =>
              /\ ~m.fd[l.str[s].fd].open
              /\ \A e \in Desc : e # l.str[s].fd => m.fd[e] = l.fd[e]
  BY <1>1, <1>4, <1>9
<1> QED BY <1>10, <1>11, <1>12, <1>13 DEF m

-----------------------------------------------------------------------------
\* A stream has a cookie, live or already freed, as long as it is there.
CookieKept(s) ==
  /\ lib.str[s].life = "none" => lib.str[s].cookie = "none"
  /\ lib.str[s].life # "none" => lib.str[s].cookie \in {"live", "freed"}

\* The cookie is freed and the stream still there.
Cookieless(s) == lib.str[s].life # "none" /\ lib.str[s].cookie = "freed"

\* What a stream refers to is open, and its own or the program's.
ReferenceKept(s) ==
  \A d \in Desc : Refers(s, d) =>
    lib.fd[d].open /\ own[d] = IF lib.str[s].no_close THEN "app" ELSE "lib"

\* No two streams refer to one descriptor.
OneReference == \A s, t \in Stream, d \in Desc : Refers(s, d) /\ Refers(t, d) => s = t

\* The account of one descriptor.
OwnerKept(d) ==
  /\ own[d] = "app" => lib.fd[d].open
  /\ own[d] = "none" => ~lib.fd[d].open
  /\ own[d] = "lib" => \E s \in Stream : Refers(s, d) \/ (Cookieless(s) /\ lib.str[s].fd = d)

\* A name that was given out is marked, so that it is not freed.
NameKept(s) ==
  /\ lib.str[s].held = "yes" => lib.str[s].inuse
  /\ lib.str[s].held = "dangling" => lib.str[s].reopened

\* The bit and the descriptor agree.
BitKept(s) ==
  Usable(s) /\ lib.str[s].told # "unset" =>
    /\ lib.str[s].fd \in Desc
    /\ get_nonblock(s) = (lib.str[s].told = "on")
    /\ lib.fd[lib.str[s].fd].nonblock = get_nonblock(s)

\* What holds as long as the behaviour is defined.
Alive ==
  /\ \A s \in Stream : CookieKept(s) /\ ReferenceKept(s) /\ NameKept(s)
  /\ OneReference
  /\ \A d \in Desc : OwnerKept(d)
OInv ==
  /\ Shape(lib) /\ own \in [Desc -> {"none", "app", "lib"}]
  /\ ~lib.dead => Alive
  /\ \A s \in Stream : BitKept(s)

\* The common part of all steps: one that changes stream s and the descriptors in D,
\* which no other stream refers to, keeps everything if it keeps it for s and D.
LEMMA Stepped ==
  ASSUME OInv, ~lib.dead, NEW s \in Stream, NEW D \in SUBSET Desc,
         Shape(lib'), own' \in [Desc -> {"none", "app", "lib"}],
         \A t \in Stream : t # s => lib'.str[t] = lib.str[t],
         \A e \in Desc : e \notin D => lib'.fd[e] = lib.fd[e],
         \A t \in Stream, e \in D : t # s => ~Refers(t, e),
         BitKept(s)',
         ~lib'.dead =>
           /\ CookieKept(s)' /\ ReferenceKept(s)' /\ NameKept(s)'
           /\ \A e \in Desc : e \notin D =>
                /\ own'[e] = own[e]
                /\ Refers(s, e)' => Refers(s, e)
                /\ Refers(s, e) => Refers(s, e)'
                /\ Cookieless(s) /\ lib.str[s].fd = e => (Cookieless(s) /\ lib.str[s].fd = e)'
           /\ \A e \in D : OwnerKept(e)'
  PROVE  OInv'
<1> USE DEF OInv
<1>1. ASSUME NEW t \in Stream, t # s
      PROVE  BitKept(t)'
  <2>1. lib'.str[t] = lib.str[t] /\ BitKept(t)
    BY <1>1
  <2> SUFFICES ASSUME Usable(t)', lib'.str[t].told # "unset"
               PROVE  /\ lib'.str[t].fd \in Desc
                      /\ get_nonblock(t)' = (lib'.str[t].told = "on")
                      /\ lib'.fd[lib'.str[t].fd].nonblock = get_nonblock(t)'
    BY DEF BitKept
  <2>2. Usable(t) /\ lib.str[t].told # "unset"
    BY <2>1 DEF Usable
  <2>3. /\ lib.str[t].fd \in Desc
        /\ get_nonblock(t) = (lib.str[t].told = "on")
        /\ lib.fd[lib.str[t].fd].nonblock = get_nonblock(t)
    BY <2>1, <2>2 DEF BitKept
  <2>4. Refers(t, lib.str[t].fd)
    BY <2>2 DEF Usable, Refers
  <2>5. lib'.fd[lib.str[t].fd] = lib.fd[lib.str[t].fd]
    BY <1>1, <2>3, <2>4
  <2> QED BY <2>1, <2>3, <2>5 DEF get_nonblock
<1>2. \A t \in Stream : BitKept(t)'
  BY <1>1
<1>3. ASSUME ~lib'.dead
      PROVE  Alive'
  <2>1. Alive
    OBVIOUS
  <2>2. ASSUME NEW t \in Stream, t # s
        PROVE  /\ CookieKept(t)' /\ NameKept(t)'
               /\ \A d \in Desc : (Refers(t, d)' <=> Refers(t, d)) /\ (Refers(t, d) => d \notin D)
               /\ Cookieless(t) => Cookieless(t)'
    BY <2>1, <2>2 DEF Alive, CookieKept, NameKept, Refers, Cookieless
  <2>3. ASSUME NEW t \in Stream PROVE ReferenceKept(t)'
    <3>1. CASE t = s
      BY <1>3, <3>1
    <3>2. CASE t # s
      <4> SUFFICES ASSUME NEW d \in Desc, Refers(t, d)'
                   PROVE  lib'.fd[d].open /\ own'[d] = IF lib'.str[t].no_close THEN "app" ELSE "lib"
        BY DEF ReferenceKept
      <4>1. Refers(t, d) /\ d \notin D
        BY <2>2, <3>2
      <4>2. lib.fd[d].open /\ own[d] = IF lib.str[t].no_close THEN "app" ELSE "lib"
        BY <2>1, <4>1 DEF Alive, ReferenceKept
      <4> QED BY <1>3, <3>2, <4>1, <4>2
    <3> QED BY <3>1, <3>2
  <2>4. OneReference'
    <3> SUFFICES ASSUME NEW t \in Stream, NEW u \in Stream, NEW d \in Desc, Refers(t, d)', Refers(u, d)'
                 PROVE  t = u
      BY DEF OneReference
    <3>1. CASE d \in D
      BY <2>2, <3>1
    <3>2. CASE d \notin D
      <4>1. Refers(t, d) /\ Refers(u, d)
        BY <1>3, <2>2, <3>2
      <4> QED BY <2>1, <4>1 DEF Alive, OneReference
    <3> QED BY <3>1, <3>2
  <2>5. ASSUME NEW d \in Desc PROVE OwnerKept(d)'
    <3>1. CASE d \in D
      BY <1>3, <3>1
    <3>2. CASE d \notin D
      <4>1. OwnerKept(d) /\ own'[d] = own[d] /\ lib'.fd[d] = lib.fd[d]
        BY <1>3, <2>1, <3>2 DEF Alive
      <4>2. ASSUME own[d] = "lib"
            PROVE  \E t \in Stream : Refers(t, d)' \/ (Cookieless(t) /\ lib.str[t].fd = d)'
        <5>1. PICK t \in Stream : Refers(t, d) \/ (Cookieless(t) /\ lib.str[t].fd = d)
          BY <4>1, <4>2 DEF OwnerKept
        <5>2. CASE t = s
          BY <1>3, <3>2, <5>1, <5>2
        <5>3. CASE t # s
          <6>1. lib'.str[t] = lib.str[t]
            BY <5>3
          <6> QED BY <2>2, <5>1, <5>3, <6>1
        <5> QED BY <5>2, <5>3
      <4> QED BY <4>1, <4>2 DEF OwnerKept
    <3> QED BY <3>1, <3>2
  <2>6. \A t \in Stream : CookieKept(t)' /\ NameKept(t)'
    BY <1>3, <2>2
  <2> QED BY <2>3, <2>4, <2>5, <2>6 DEF Alive
<1> QED BY <1>2, <1>3

\* A step that changes nothing that a descriptor depends on.
LEMMA Quiet ==
  ASSUME OInv, ~lib.dead, NEW s \in Stream, Shape(lib'), own' = own, lib'.fd = lib.fd,
         \A t \in Stream : t # s => lib'.str[t] = lib.str[t],
         lib'.str[s].life = "none" <=> lib.str[s].life = "none",
         lib'.str[s].life = "open" => lib.str[s].life = "open",
         \A g \in {"fd", "no_close", "cookie", "modeflag", "told"} : lib'.str[s][g] = lib.str[s][g],
         NameKept(s)'
  PROVE  OInv'
<1>0. /\ lib'.str[s].fd = lib.str[s].fd /\ lib'.str[s].no_close = lib.str[s].no_close
      /\ lib'.str[s].cookie = lib.str[s].cookie /\ lib'.str[s].modeflag = lib.str[s].modeflag
      /\ lib'.str[s].told = lib.str[s].told
  OBVIOUS
<1>1. Alive /\ BitKept(s) /\ own' \in [Desc -> {"none", "app", "lib"}]
  BY DEF OInv
<1>2. BitKept(s)'
  BY <1>0, <1>1 DEF BitKept, Usable, get_nonblock
<1>3. \A e \in Desc : /\ Refers(s, e)' <=> Refers(s, e)
                      /\ Cookieless(s) /\ lib.str[s].fd = e => (Cookieless(s) /\ lib.str[s].fd = e)'
  BY <1>0 DEF Refers, Cookieless
<1>4. CookieKept(s)' /\ ReferenceKept(s)'
  BY <1>0, <1>1, <1>3 DEF Alive, CookieKept, ReferenceKept
<1> QED
  <2> DEFINE D == {}
  <2>1. D \in SUBSET Desc /\ (\A e \in Desc : e \notin D) /\ \A e \in Desc : own'[e] = own[e]
    OBVIOUS
  <2> HIDE DEF D
  <2> QED BY <1>1, <1>2, <1>3, <1>4, <2>1, Stepped

-----------------------------------------------------------------------------
\* At the start there is no stream, and no descriptor is open.
LEMMA OpenInitial == OpenInit => OInv
<1> SUFFICES ASSUME OpenInit PROVE OInv
  OBVIOUS
<1> DEFINE fd0 == [d \in Desc |-> [open |-> FALSE, nonblock |-> FALSE]]
           str0 == [s \in Stream |-> NoStream]
<1>1. lib = [fd |-> fd0, str |-> str0, dead |-> FALSE] /\ own = [d \in Desc |-> "none"]
  BY DEF OpenInit
<1>2. DOMAIN lib = {"fd", "str", "dead"} /\ lib.fd = fd0 /\ lib.str = str0 /\ lib.dead = FALSE
  BY <1>1
<1>3. \A d \in Desc : FdShape(lib.fd[d]) /\ ~lib.fd[d].open /\ own[d] = "none"
  BY <1>1, <1>2 DEF FdShape
<1>4. \A s \in Stream : lib.str[s] = NoStream
  BY <1>2
<1>5. Shape(lib) /\ own \in [Desc -> {"none", "app", "lib"}]
  BY <1>1, <1>2, <1>3, <1>4, NoStreamIs DEF Shape
<1>6. \A s \in Stream : BitKept(s) /\ CookieKept(s) /\ NameKept(s) /\ \A d \in Desc : ~Refers(s, d)
  BY <1>4, NoStreamIs DEF BitKept, CookieKept, NameKept, Usable, Refers
<1>7. \A d \in Desc : OwnerKept(d)
  BY <1>3 DEF OwnerKept
<1> QED BY <1>5, <1>6, <1>7 DEF OInv, Alive, ReferenceKept, OneReference

\* A change of fields of one stream that leaves it its shape.
OneStream(s, Fs) ==
  /\ DOMAIN lib' = {"fd", "str", "dead"} /\ lib'.fd = lib.fd /\ lib'.dead = lib.dead
  /\ DOMAIN lib'.str = Stream /\ \A t \in Stream : t # s => lib'.str[t] = lib.str[t]
  /\ DOMAIN lib'.str[s] = Fields
  /\ \A g \in Fields \ Fs : lib'.str[s][g] = lib.str[s][g]

\* Such a change keeps the types.
LEMMA OneStreamShape ==
  ASSUME Shape(lib), NEW s \in Stream, NEW Fs, OneStream(s, Fs),
         "fd" \notin Fs, "no_close" \notin Fs,
         "modeflag" \in Fs => lib'.str[s].modeflag \in BOOLEAN,
         "name" \in Fs => lib'.str[s].name \in BOOLEAN
  PROVE  Shape(lib')
<1>1. StreamShape(lib.str[s])
  BY DEF Shape
<1>2. /\ DOMAIN lib'.str[s] = Fields
      /\ lib'.str[s].fd = lib.str[s].fd /\ lib'.str[s].no_close = lib.str[s].no_close
      /\ "modeflag" \notin Fs => lib'.str[s].modeflag = lib.str[s].modeflag
      /\ "name" \notin Fs => lib'.str[s].name = lib.str[s].name
  BY DEF OneStream, Fields
<1>3. StreamShape(lib'.str[s])
  BY <1>1, <1>2 DEF StreamShape
<1> QED BY <1>3 DEF Shape, OneStream

\* One that touches neither the cookie nor the name keeps everything.
LEMMA QuietFields ==
  ASSUME OInv, ~lib.dead, NEW s \in Stream, OneStream(s, {"life", "onclose", "asked", "running"}), own' = own,
         lib'.str[s].life = "none" <=> lib.str[s].life = "none",
         lib'.str[s].life = "open" => lib.str[s].life = "open"
  PROVE  OInv'
<1> DEFINE Fs == {"life", "onclose", "asked", "running"}
<1>1. Shape(lib')
  BY OneStreamShape DEF OInv
<1>2. \A g \in {"fd", "no_close", "cookie", "modeflag", "told", "held", "inuse", "reopened"} : g \in Fields \ Fs
  BY DEF Fields
<1>3. \A g \in {"fd", "no_close", "cookie", "modeflag", "told", "held", "inuse", "reopened"} : lib'.str[s][g] = lib.str[s][g]
  BY <1>2 DEF OneStream
<1>4. NameKept(s)'
  BY <1>3 DEF OInv, Alive, NameKept
<1> QED BY <1>1, <1>3, <1>4, Quiet DEF OneStream

\* Registering, unregistering and making notifications move no descriptor (gpgrt_onclose,
\* the loop of do_close).
LEMMA NotifyKeeps ==
  ASSUME OInv, ~lib.dead, NEW s \in Stream,
         \/ Close(s) \/ NotifyStart(s) \/ NotifyEnd(s)
         \/ \E h \in Handler : Onclose(s, h) \/ Unregister(s, h)
  PROVE  OInv'
<1>0. Shape(lib) /\ StreamShape(lib.str[s])
  BY DEF OInv, Shape
<1>1. CASE Close(s)
  <2>1. lib' = [lib EXCEPT !.str[s].life = "closing"] /\ lib.str[s].life = "open" /\ own' = own
    BY <1>1 DEF Close
  <2>2. OneStream(s, {"life", "onclose", "asked", "running"}) /\ lib'.str[s].life = "closing"
    BY <1>0, <2>1 DEF OneStream, Shape, StreamShape, Fields
  <2> QED BY <2>1, <2>2, QuietFields
<1>2. ASSUME NEW f \in {"onclose", "running", "asked"}, NEW g \in {"onclose", "running", "asked"}, NEW v, NEW w,
             lib' = SetField(SetField(lib, s, f, v), s, g, w), own' = own
      PROVE  OInv'
  <2>1. /\ DOMAIN lib = {"fd", "str", "dead"} /\ DOMAIN lib.str = Stream /\ DOMAIN lib.str[s] = Fields
        /\ f \in Fields /\ g \in Fields
    BY <1>0 DEF Shape, StreamShape, Fields
  <2>2. /\ DOMAIN lib' = {"fd", "str", "dead"} /\ lib'.fd = lib.fd /\ lib'.dead = lib.dead
        /\ DOMAIN lib'.str = Stream /\ \A t \in Stream : t # s => lib'.str[t] = lib.str[t]
        /\ DOMAIN lib'.str[s] = Fields
        /\ \A h \in Fields : h \notin {f, g} => lib'.str[s][h] = lib.str[s][h]
    BY <1>2, <2>1, TwoFieldsAre
  <2>3. OneStream(s, {"life", "onclose", "asked", "running"})
    BY <2>2 DEF OneStream
  <2>4. lib'.str[s].life = lib.str[s].life
    BY <2>2 DEF Fields
  <2> QED BY <1>2, <2>3, <2>4, QuietFields
<1>3. CASE NotifyStart(s)
  <2> DEFINE h == Head(lib.str[s].onclose)
             w == Without(lib.str[s].asked, h)
             v == Tail(lib.str[s].onclose)
  <2>1. /\ own' = own
        /\ \/ lib' = [lib EXCEPT !.str[s].onclose = v]
           \/ lib' = [lib EXCEPT !.str[s].running = h, !.str[s].asked = w]
    BY <1>3 DEF NotifyStart
  <2> HIDE DEF h, w, v
  <2>2. CASE lib' = [lib EXCEPT !.str[s].onclose = v]
    <3>1. lib' = SetField(SetField(lib, s, "onclose", v), s, "onclose", v)
      BY <1>0, <2>2 DEF SetField, Shape, StreamShape, Fields
    <3> QED BY <1>2, <2>1, <3>1
  <2>3. CASE lib' = [lib EXCEPT !.str[s].running = h, !.str[s].asked = w]
    <3>1. lib' = SetField(SetField(lib, s, "running", h), s, "asked", w)
      BY <1>0, <2>3 DEF SetField, Shape, StreamShape, Fields
    <3> QED BY <1>2, <2>1, <3>1
  <2> QED BY <2>1, <2>2, <2>3
<1>4. CASE NotifyEnd(s)
  <2> DEFINE v == AfterRunning(s)
  <2>1. own' = own /\ lib' = [lib EXCEPT !.str[s].running = NoHandler, !.str[s].onclose = v]
    BY <1>4 DEF NotifyEnd
  <2> HIDE DEF v
  <2>2. lib' = SetField(SetField(lib, s, "running", NoHandler), s, "onclose", v)
    BY <1>0, <2>1 DEF SetField, Shape, StreamShape, Fields
  <2> QED BY <1>2, <2>1, <2>2
<1>5. ASSUME NEW h \in Handler, Onclose(s, h)
      PROVE  OInv'
  <2> DEFINE v == Pushed(lib.str[s].onclose, h)
             w == IF Running(s) THEN lib.str[s].asked ELSE Append(lib.str[s].asked, h)
  <2>1. own' = own /\ lib' = [lib EXCEPT !.str[s].onclose = v, !.str[s].asked = w]
    BY <1>0, <1>5 DEF Onclose, Shape, StreamShape, Fields
  <2> HIDE DEF v, w
  <2>2. lib' = SetField(SetField(lib, s, "onclose", v), s, "asked", w)
    BY <1>0, <2>1 DEF SetField, Shape, StreamShape, Fields
  <2> QED BY <1>2, <2>1, <2>2
<1>6. ASSUME NEW h \in Handler, Unregister(s, h)
      PROVE  OInv'
  <2> DEFINE v == Disabled(lib.str[s].onclose, h)
             w == Without(lib.str[s].asked, h)
  <2>1. own' = own /\ lib' = [lib EXCEPT !.str[s].onclose = v, !.str[s].asked = w]
    BY <1>0, <1>6 DEF Unregister, Shape, StreamShape, Fields
  <2> HIDE DEF v, w
  <2>2. lib' = SetField(SetField(lib, s, "onclose", v), s, "asked", w)
    BY <1>0, <2>1 DEF SetField, Shape, StreamShape, Fields
  <2> QED BY <1>2, <2>1, <2>2
<1> QED BY <1>1, <1>3, <1>4, <1>5, <1>6

\* A name that was given out is not freed by another one (fname_set_internal).
LEMMA NamingKeeps ==
  ASSUME OInv, ~lib.dead, NEW s \in Stream, fname_set(s) \/ fname_get(s)
  PROVE  OInv'
<1>0. Shape(lib) /\ StreamShape(lib.str[s]) /\ NameKept(s) /\ own' = own
  BY DEF OInv, Shape, Alive, fname_set, fname_get
<1> DEFINE v == IF lib.str[s].held = "yes" /\ ~lib.str[s].inuse THEN "dangling" ELSE lib.str[s].held
<1>1. v = lib.str[s].held
  BY <1>0 DEF NameKept
<1>2. \/ lib' = SetField(SetField(lib, s, "name", TRUE), s, "held", v)
      \/ lib' = SetField(SetField(lib, s, "inuse", lib.str[s].name), s, "held", "yes") /\ lib.str[s].name
  <2>1. CASE fname_set(s)
    <3>1. lib' = [lib EXCEPT !.str[s].name = TRUE, !.str[s].held = v]
      BY <1>0, <2>1 DEF fname_set, Shape, StreamShape, Fields
    <3> HIDE DEF v
    <3> QED BY <1>0, <3>1 DEF SetField, Shape, StreamShape, Fields
  <2>2. CASE fname_get(s)
    <3>1. lib' = [lib EXCEPT !.str[s].inuse = lib.str[s].name, !.str[s].held = "yes"] /\ lib.str[s].name
      BY <1>0, <2>2 DEF fname_get, InUse, Shape, StreamShape, Fields
    <3> QED BY <1>0, <3>1 DEF SetField, Shape, StreamShape, Fields
  <2> QED BY <2>1, <2>2
<1> HIDE DEF v
<1>3. DOMAIN lib = {"fd", "str", "dead"} /\ DOMAIN lib.str = Stream /\ DOMAIN lib.str[s] = Fields
      /\ "name" \in Fields /\ "held" \in Fields /\ "inuse" \in Fields
  BY <1>0 DEF Shape, StreamShape, Fields
<1>9. ASSUME NEW f \in Fields, NEW g \in Fields, NEW a, NEW b, f # g, lib' = SetField(SetField(lib, s, f, a), s, g, b)
      PROVE  /\ DOMAIN lib' = {"fd", "str", "dead"} /\ lib'.fd = lib.fd /\ lib'.dead = lib.dead
             /\ DOMAIN lib'.str = Stream /\ \A t \in Stream : t # s => lib'.str[t] = lib.str[t]
             /\ DOMAIN lib'.str[s] = Fields
             /\ lib'.str[s][f] = a /\ lib'.str[s][g] = b
             /\ \A h \in Fields : h \notin {f, g} => lib'.str[s][h] = lib.str[s][h]
  BY <1>3, <1>9, TwoFieldsAre
<1>10. ASSUME lib' = SetField(SetField(lib, s, "name", TRUE), s, "held", v)
      PROVE  /\ DOMAIN lib' = {"fd", "str", "dead"} /\ lib'.fd = lib.fd /\ lib'.dead = lib.dead
             /\ DOMAIN lib'.str = Stream /\ \A t \in Stream : t # s => lib'.str[t] = lib.str[t]
             /\ DOMAIN lib'.str[s] = Fields
             /\ \A h \in Fields : h \notin {"name", "inuse", "held"} => lib'.str[s][h] = lib.str[s][h]
             /\ \/ lib'.str[s].name = TRUE /\ lib'.str[s].held = v /\ lib'.str[s].inuse = lib.str[s].inuse
                \/ lib'.str[s].name = lib.str[s].name /\ lib'.str[s].inuse = lib.str[s].name /\ lib.str[s].name /\ lib'.str[s].held = "yes"
  <2> DEFINE f == "name" g == "held" a == TRUE b == v
  <2>2. f \in Fields /\ g \in Fields /\ f # g /\ lib' = SetField(SetField(lib, s, f, a), s, g, b)
    BY <1>3, <1>10
  <2> HIDE DEF f, g, a, b
  <2>1. /\ DOMAIN lib' = {"fd", "str", "dead"} /\ lib'.fd = lib.fd /\ lib'.dead = lib.dead
        /\ DOMAIN lib'.str = Stream /\ \A t \in Stream : t # s => lib'.str[t] = lib.str[t]
        /\ DOMAIN lib'.str[s] = Fields
        /\ lib'.str[s][f] = a /\ lib'.str[s][g] = b
        /\ \A h \in Fields : h \notin {f, g} => lib'.str[s][h] = lib.str[s][h]
    BY <1>9, <2>2
  <2> QED BY <2>1 DEF f, g, a, b, Fields
<1>11. ASSUME lib' = SetField(SetField(lib, s, "inuse", lib.str[s].name), s, "held", "yes"), lib.str[s].name
      PROVE  /\ DOMAIN lib' = {"fd", "str", "dead"} /\ lib'.fd = lib.fd /\ lib'.dead = lib.dead
             /\ DOMAIN lib'.str = Stream /\ \A t \in Stream : t # s => lib'.str[t] = lib.str[t]
             /\ DOMAIN lib'.str[s] = Fields
             /\ \A h \in Fields : h \notin {"name", "inuse", "held"} => lib'.str[s][h] = lib.str[s][h]
             /\ \/ lib'.str[s].name = TRUE /\ lib'.str[s].held = v /\ lib'.str[s].inuse = lib.str[s].inuse
                \/ lib'.str[s].name = lib.str[s].name /\ lib'.str[s].inuse = lib.str[s].name /\ lib.str[s].name /\ lib'.str[s].held = "yes"
  <2> DEFINE f == "inuse" g == "held" a == lib.str[s].name b == "yes"
  <2>2. f \in Fields /\ g \in Fields /\ f # g /\ lib' = SetField(SetField(lib, s, f, a), s, g, b)
    BY <1>3, <1>11
  <2> HIDE DEF f, g, a, b
  <2>1. /\ DOMAIN lib' = {"fd", "str", "dead"} /\ lib'.fd = lib.fd /\ lib'.dead = lib.dead
        /\ DOMAIN lib'.str = Stream /\ \A t \in Stream : t # s => lib'.str[t] = lib.str[t]
        /\ DOMAIN lib'.str[s] = Fields
        /\ lib'.str[s][f] = a /\ lib'.str[s][g] = b
        /\ \A h \in Fields : h \notin {f, g} => lib'.str[s][h] = lib.str[s][h]
    BY <1>9, <2>2
  <2> QED BY <1>11, <2>1, ZenonT(60) DEF f, g, a, b, Fields
<1>4. /\ DOMAIN lib' = {"fd", "str", "dead"} /\ lib'.fd = lib.fd /\ lib'.dead = lib.dead
      /\ DOMAIN lib'.str = Stream /\ \A t \in Stream : t # s => lib'.str[t] = lib.str[t]
      /\ DOMAIN lib'.str[s] = Fields
      /\ \A h \in Fields : h \notin {"name", "inuse", "held"} => lib'.str[s][h] = lib.str[s][h]
      /\ \/ lib'.str[s].name = TRUE /\ lib'.str[s].held = v /\ lib'.str[s].inuse = lib.str[s].inuse
         \/ lib'.str[s].name = lib.str[s].name /\ lib'.str[s].inuse = lib.str[s].name /\ lib.str[s].name /\ lib'.str[s].held = "yes"
  BY <1>2, <1>10, <1>11
<1>6. /\ lib'.str[s].life = lib.str[s].life
      /\ lib'.str[s].fd = lib.str[s].fd /\ lib'.str[s].no_close = lib.str[s].no_close
      /\ lib'.str[s].cookie = lib.str[s].cookie /\ lib'.str[s].modeflag = lib.str[s].modeflag
      /\ lib'.str[s].told = lib.str[s].told
      /\ lib'.str[s].reopened = lib.str[s].reopened
  BY <1>4 DEF Fields
<1>7. StreamShape(lib'.str[s])
  BY <1>0, <1>4, <1>6 DEF StreamShape
<1>8. Shape(lib') /\ NameKept(s)'
  BY <1>0, <1>1, <1>4, <1>6, <1>7 DEF Shape, NameKept
<1> QED BY <1>0, <1>4, <1>6, <1>8, Quiet

\* gpgrt_set_nonblock changes the bit and the descriptor together, or neither.
LEMMA NonblockKeeps ==
  ASSUME OInv, ~lib.dead, NEW s \in Stream, NEW onoff \in BOOLEAN, NEW failed \in BOOLEAN,
         set_nonblock(s, onoff, failed)
  PROVE  OInv'
<1>0. /\ Shape(lib) /\ StreamShape(lib.str[s]) /\ Alive /\ BitKept(s) /\ own' = own /\ own' \in [Desc -> {"none", "app", "lib"}]
      /\ CookieKept(s) /\ ReferenceKept(s) /\ NameKept(s) /\ Usable(s)
  BY DEF OInv, Shape, Alive, set_nonblock
<1>1. DOMAIN lib = {"fd", "str", "dead"} /\ DOMAIN lib.str = Stream /\ DOMAIN lib.str[s] = Fields
      /\ "modeflag" \in Fields /\ "told" \in Fields
  BY <1>0 DEF Shape, StreamShape, Fields
<1>2. CASE failed
  <2> DEFINE v == lib.str[s].modeflag
  <2>1. lib' = SetField(lib, s, "modeflag", v)
    BY <1>1, <1>2 DEF set_nonblock, SetField, Restored
  <2> HIDE DEF v
  <2>2. /\ DOMAIN lib' = {"fd", "str", "dead"} /\ lib'.fd = lib.fd /\ lib'.dead = lib.dead
        /\ DOMAIN lib'.str = Stream /\ \A t \in Stream : t # s => lib'.str[t] = lib.str[t]
        /\ DOMAIN lib'.str[s] = Fields /\ lib'.str[s].modeflag = v
        /\ \A h \in Fields : h # "modeflag" => lib'.str[s][h] = lib.str[s][h]
    BY <1>1, <2>1, SetFieldIs
  <2>3. \A h \in Fields : lib'.str[s][h] = lib.str[s][h]
    BY <2>2 DEF v
  <2>4. OneStream(s, {"life", "onclose", "asked", "running"})
    BY <2>2, <2>3 DEF OneStream
  <2>5. lib'.str[s].life = lib.str[s].life
    BY <2>3 DEF Fields
  <2> QED BY <1>0, <2>4, <2>5, QuietFields
<1>3. CASE ~failed
  <2>0. PICK d \in Desc : d = lib.str[s].fd
    BY <1>0, <1>3 DEF set_nonblock, CanNonblock, StreamShape
  <2> DEFINE f == "modeflag" g == "told"
             b == IF onoff THEN "on" ELSE "off"
             k == SetField(SetField(lib, s, f, onoff), s, g, b)
  <2>1. lib' = [k EXCEPT !.fd = [k.fd EXCEPT ![d] = [k.fd[d] EXCEPT !.nonblock = onoff]]]
    <3>1. lib' = [lib EXCEPT !.str[s].modeflag = onoff, !.str[s].told = b, !.fd[d].nonblock = onoff]
      BY <1>3, <2>0 DEF set_nonblock
    <3> HIDE DEF b
    <3> QED BY <1>1, <3>1 DEF SetField
  <2>2. d \in Desc
    OBVIOUS
  <2>3. f \in Fields /\ g \in Fields /\ f # g
    BY <1>1
  <2> HIDE DEF f, g, b
  <2>4. /\ DOMAIN k = {"fd", "str", "dead"} /\ k.fd = lib.fd /\ k.dead = lib.dead
        /\ DOMAIN k.str = Stream /\ \A t \in Stream : t # s => k.str[t] = lib.str[t]
        /\ DOMAIN k.str[s] = Fields /\ k.str[s][f] = onoff /\ k.str[s][g] = b
        /\ \A h \in Fields : h \notin {f, g} => k.str[s][h] = lib.str[s][h]
    BY <1>1, <2>3, TwoFieldsAre
  <2> HIDE DEF k
  <2>5. /\ DOMAIN lib' = {"fd", "str", "dead"} /\ lib'.str = k.str /\ lib'.dead = lib.dead
        /\ DOMAIN lib'.fd = Desc /\ \A e \in Desc : e # d => lib'.fd[e] = lib.fd[e]
        /\ lib'.fd[d] = [lib.fd[d] EXCEPT !.nonblock = onoff]
    BY <1>0, <2>1, <2>2, <2>4 DEF Shape
  <2>6. FdShape(lib'.fd[d]) /\ lib'.fd[d].open = lib.fd[d].open /\ lib'.fd[d].nonblock = onoff
    BY <1>0, <2>2, <2>5 DEF Shape, FdShape
  <2>7. /\ \A h \in Fields : h \notin {"modeflag", "told"} => lib'.str[s][h] = lib.str[s][h]
        /\ lib'.str[s].modeflag = onoff /\ lib'.str[s].told = b /\ DOMAIN lib'.str[s] = Fields
    BY <2>4, <2>5 DEF f, g
  <2>8. /\ lib'.str[s].life = lib.str[s].life /\ lib'.str[s].fd = lib.str[s].fd
        /\ lib'.str[s].no_close = lib.str[s].no_close /\ lib'.str[s].cookie = lib.str[s].cookie
        /\ lib'.str[s].name = lib.str[s].name /\ lib'.str[s].held = lib.str[s].held
        /\ lib'.str[s].inuse = lib.str[s].inuse /\ lib'.str[s].reopened = lib.str[s].reopened
    BY <2>7 DEF Fields
  <2>9. StreamShape(lib'.str[s])
    BY <1>0, <2>7, <2>8 DEF StreamShape
  <2>10. Shape(lib')
    BY <1>0, <2>4, <2>5, <2>6, <2>9 DEF Shape
  <2>11. BitKept(s)'
    BY <2>0, <2>6, <2>7, <2>8 DEF BitKept, get_nonblock, b
  <2>12. \A e \in Desc : /\ Refers(s, e)' <=> Refers(s, e)
                         /\ Cookieless(s) /\ lib.str[s].fd = e => (Cookieless(s) /\ lib.str[s].fd = e)'
    BY <2>8 DEF Refers, Cookieless
  <2>13. Refers(s, d)
    BY <1>0, <2>0 DEF Refers, Usable
  <2>14. \A e \in {d} : \A t \in Stream : t # s => ~Refers(t, e)
    BY <1>0, <2>2, <2>13 DEF Alive, OneReference, Refers
  <2>15. lib.fd[d].open /\ own'[d] # "none" /\ (own'[d] = "lib" => Refers(s, d)')
    BY <1>0, <2>2, <2>12, <2>13 DEF ReferenceKept, Refers
  <2>16. \A e \in {d} : OwnerKept(e)'
    BY <2>6, <2>15 DEF OwnerKept
  <2>17. \A e \in Desc : lib'.fd[e].open = lib.fd[e].open
    BY <2>5, <2>6
  <2>18. CookieKept(s)' /\ ReferenceKept(s)' /\ NameKept(s)'
    BY <1>0, <2>8, <2>12, <2>17 DEF CookieKept, ReferenceKept, NameKept
  <2>19. {d} \in SUBSET Desc /\ \A e \in Desc : e \notin {d} => lib'.fd[e] = lib.fd[e]
    BY <2>2, <2>5
  <2> DEFINE D == {d}
  <2>20. /\ D \in SUBSET Desc /\ \A e \in Desc : e \notin D => lib'.fd[e] = lib.fd[e]
         /\ \A e \in D : OwnerKept(e)'
         /\ \A t \in Stream, e \in D : t # s => ~Refers(t, e)
    BY <2>14, <2>16, <2>19
  <2> HIDE DEF D
  <2> QED BY <1>0, <2>4, <2>5, <2>10, <2>11, <2>12, <2>18, <2>20, Stepped
<1> QED BY <1>2, <1>3

-----------------------------------------------------------------------------
\* The program opens and closes descriptors that no stream refers to.
LEMMA AppKeeps ==
  ASSUME OInv, ~lib.dead, NEW d \in Desc, AppStep(d)
  PROVE  OInv'
<1>0. Shape(lib) /\ Alive /\ own \in [Desc -> {"none", "app", "lib"}] /\ FdShape(lib.fd[d])
  BY DEF OInv, Shape
<1>1. /\ Shape(lib') /\ lib'.str = lib.str /\ lib'.dead = lib.dead
      /\ \A e \in Desc : e # d => lib'.fd[e] = lib.fd[e]
      /\ own' \in [Desc -> {"none", "app", "lib"}] /\ \A e \in Desc : e # d => own'[e] = own[e]
      /\ \A s \in Stream : ~Refers(s, d)
      /\ OwnerKept(d)'
  <2>1. ASSUME NEW nonblock \in BOOLEAN, AppOpen(d, nonblock)
        PROVE  /\ Shape(lib') /\ lib'.str = lib.str /\ lib'.dead = lib.dead
               /\ \A e \in Desc : e # d => lib'.fd[e] = lib.fd[e]
               /\ own' \in [Desc -> {"none", "app", "lib"}] /\ \A e \in Desc : e # d => own'[e] = own[e]
               /\ \A s \in Stream : ~Refers(s, d)
               /\ OwnerKept(d)'
    <3>1. lib' = [lib EXCEPT !.fd = [lib.fd EXCEPT ![d] = [open |-> TRUE, nonblock |-> nonblock]]] /\ own' = [own EXCEPT ![d] = "app"]
      BY <2>1 DEF AppOpen
    <3>2. DOMAIN lib' = {"fd", "str", "dead"} /\ lib'.str = lib.str /\ lib'.dead = lib.dead
          /\ DOMAIN lib'.fd = Desc /\ lib'.fd[d] = [open |-> TRUE, nonblock |-> nonblock]
          /\ \A e \in Desc : e # d => lib'.fd[e] = lib.fd[e]
      BY <1>0, <3>1 DEF Shape
    <3>3. FdShape(lib'.fd[d]) /\ lib'.fd[d].open
      BY <3>2 DEF FdShape
    <3>4. Shape(lib')
      BY <1>0, <3>2, <3>3 DEF Shape
    <3>5. \A s \in Stream : ~Refers(s, d)
      BY <1>0, <2>1 DEF AppOpen, Alive, ReferenceKept
    <3>6. own' \in [Desc -> {"none", "app", "lib"}] /\ own'[d] = "app" /\ \A e \in Desc : e # d => own'[e] = own[e]
      BY <1>0, <3>1
    <3>7. OwnerKept(d)'
      BY <3>3, <3>6 DEF OwnerKept
    <3> QED BY <3>2, <3>4, <3>5, <3>6, <3>7
  <2>2. CASE AppClose(d)
    <3>1. lib' = ClosedFd(lib, d) /\ own' = [own EXCEPT ![d] = "none"] /\ \A s \in Stream : ~Refers(s, d)
      BY <2>2 DEF AppClose
    <3>2. Shape(lib') /\ lib'.str = lib.str /\ lib'.dead = lib.dead /\ ~lib'.fd[d].open
          /\ \A e \in Desc : e # d => lib'.fd[e] = lib.fd[e]
      BY <1>0, <3>1, ClosedFdIs
    <3>3. own' \in [Desc -> {"none", "app", "lib"}] /\ own'[d] = "none" /\ \A e \in Desc : e # d => own'[e] = own[e]
      BY <1>0, <3>1
    <3>4. OwnerKept(d)'
      BY <3>2, <3>3 DEF OwnerKept
    <3> QED BY <3>1, <3>2, <3>3, <3>4
  <2> QED BY <2>1, <2>2 DEF AppStep
<1>2. ASSUME NEW s \in Stream
      PROVE  /\ BitKept(s)' /\ CookieKept(s)' /\ NameKept(s)' /\ ReferenceKept(s)'
             /\ \A e \in Desc : (Refers(s, e)' <=> Refers(s, e)) /\ (Refers(s, e) => e # d)
             /\ Cookieless(s)' <=> Cookieless(s)
  <2>1. \A e \in Desc : (Refers(s, e)' <=> Refers(s, e)) /\ (Refers(s, e) => e # d)
    BY <1>1 DEF Refers
  <2>2. BitKept(s)'
    <3>1. BitKept(s) /\ (Usable(s)' <=> Usable(s)) /\ (Usable(s) => Refers(s, lib.str[s].fd))
      BY <1>1 DEF OInv, Usable, Refers
    <3> QED BY <1>1, <2>1, <3>1 DEF BitKept, get_nonblock
  <2> QED BY <1>0, <1>1, <2>1, <2>2 DEF Alive, CookieKept, NameKept, ReferenceKept, Cookieless
<1>3. OneReference'
  BY <1>0, <1>2 DEF OneReference, Alive
<1>4. ASSUME NEW e \in Desc, e # d
      PROVE  OwnerKept(e)'
  BY <1>0, <1>1, <1>2, <1>4 DEF Alive, OwnerKept
<1> QED BY <1>1, <1>2, <1>3, <1>4 DEF OInv, Alive

-----------------------------------------------------------------------------
\* A new stream s over d, and what its fields are.
FreshStream(r, d, no_close) ==
  /\ StreamShape(r) /\ r.life = "open" /\ r.fd = d /\ r.no_close = no_close
  /\ r.held = "no" /\ r.told = "unset"
  /\ r.onclose = <<>> /\ r.running = NoHandler /\ r.asked = <<>>

\* l is lib with a new stream s.
NewStream(l, s, d, no_close, cookie) ==
  /\ Shape(l) /\ l.dead = lib.dead /\ \A t \in Stream : t # s => l.str[t] = lib.str[t]
  /\ FreshStream(l.str[s], d, no_close) /\ l.str[s].cookie = cookie
  /\ \A e \in Desc : e # d => l.fd[e] = lib.fd[e]

\* What a successful open leaves.
LEMMA OpenedIs ==
  ASSUME Shape(lib), NEW s \in Stream, NEW way, NEW d \in Desc \cup {NoDesc}, NEW no_close, NEW nonblock, NEW garbage,
         {no_close, nonblock, garbage} \subseteq BOOLEAN
  PROVE  LET o == Opened(s, way, d, no_close, nonblock, garbage)
         IN  NewStream(o, s, d, no_close, "live") /\ (d \in Desc => o.fd[d].open)
<1> DEFINE o == Opened(s, way, d, no_close, nonblock, garbage)
           r == [NoStream EXCEPT !.life = "open", !.way = way, !.fd = d, !.no_close = no_close,
                                 !.cookie = "live", !.modeflag = garbage, !.name = (way = "fopen")]
           f == OpenedFd(lib.fd[d], way, nonblock)
           fds == [e \in Desc |-> IF e = d THEN OpenedFd(lib.fd[e], way, nonblock) ELSE lib.fd[e]]
<1>1. o = [lib EXCEPT !.str = [lib.str EXCEPT ![s] = r], !.fd = fds]
  <2>1. o = [lib EXCEPT !.str[s] = r, !.fd = fds]
    BY DEF Opened
  <2> HIDE DEF o, r, fds
  <2> QED BY <2>1 DEF Shape
<1>2. FreshStream(r, d, no_close) /\ r.cookie = "live"
  <2>1. (way = "fopen") \in BOOLEAN
    OBVIOUS
  <2>2. DOMAIN r = Fields
    BY DEF NoStream, Fields
  <2>3. /\ r.life = "open" /\ r.fd = d /\ r.no_close = no_close /\ r.cookie = "live"
        /\ r.held = "no" /\ r.told = "unset" /\ r.modeflag = garbage
        /\ r.onclose = <<>> /\ r.running = NoHandler /\ r.asked = <<>>
    BY DEF NoStream
  <2>4. r.name \in BOOLEAN
    BY <2>1 DEF NoStream
  <2> HIDE DEF r
  <2> QED BY <2>2, <2>3, <2>4 DEF FreshStream, StreamShape
<1>3. FdShape(f) /\ f.open
  BY DEF FdShape, OpenedFd
<1> HIDE DEF r, f
<1>4. DOMAIN fds = Desc /\ (\A e \in Desc : e # d => fds[e] = lib.fd[e]) /\ (d \in Desc => fds[d] = f)
  BY DEF f
<1>5. \A e \in Desc : FdShape(fds[e])
  BY <1>3, <1>4 DEF Shape
<1> HIDE DEF fds
<1>6. DOMAIN o = {"fd", "str", "dead"} /\ o.dead = lib.dead /\ o.fd = fds /\ o.str = [lib.str EXCEPT ![s] = r]
  BY <1>1 DEF Shape
<1> HIDE DEF o
<1>7. DOMAIN o.str = Stream /\ o.str[s] = r /\ \A t \in Stream : t # s => o.str[t] = lib.str[t]
  BY <1>6 DEF Shape
<1>8. Shape(o)
  BY <1>2, <1>4, <1>5, <1>6, <1>7 DEF Shape, FreshStream
<1>9. NewStream(o, s, d, no_close, "live") /\ (d \in Desc => o.fd[d].open)
  BY <1>2, <1>3, <1>4, <1>6, <1>7, <1>8 DEF NewStream
<1> QED BY <1>9 DEF o

\* The same after its cookie was closed again.
LEMMA OpenedClosedIs ==
  ASSUME Shape(lib), NEW s \in Stream, NEW way, NEW d \in Desc \cup {NoDesc}, NEW no_close,
         NEW garbage, {no_close, garbage} \subseteq BOOLEAN
  PROVE  LET k == func_close(Opened(s, way, d, no_close, FALSE, garbage), s)
         IN  NewStream(k, s, d, no_close, "freed") /\ (d \in Desc => (k.fd[d].open <=> no_close))
<1>0. PICK b : b = FALSE /\ {no_close, b, garbage} \subseteq BOOLEAN
  OBVIOUS
<1> DEFINE o == Opened(s, way, d, no_close, b, garbage)
           k == func_close(o, s)
<1>9. NewStream(o, s, d, no_close, "live") /\ (d \in Desc => o.fd[d].open)
  BY <1>0, OpenedIs
<1> HIDE DEF o
<1>1. /\ Shape(o) /\ o.dead = lib.dead /\ \A t \in Stream : t # s => o.str[t] = lib.str[t]
      /\ FreshStream(o.str[s], d, no_close) /\ o.str[s].cookie = "live"
      /\ \A e \in Desc : e # d => o.fd[e] = lib.fd[e]
      /\ d \in Desc => o.fd[d].open
  BY <1>9 DEF NewStream
<1>2. /\ Shape(k) /\ k.dead = o.dead /\ \A t \in Stream : t # s => k.str[t] = o.str[t]
      /\ k.str[s].cookie = "freed"
      /\ \A g \in Fields : g # "cookie" => k.str[s][g] = o.str[s][g]
      /\ LeavesOpen(o.str[s]) => k.fd = o.fd
      /\ ~LeavesOpen(o.str[s]) =>
           /\ ~k.fd[o.str[s].fd].open
           /\ \A e \in Desc : e # o.str[s].fd => k.fd[e] = o.fd[e]
  BY <1>1, CloseIs
<1> HIDE DEF k
<1>3. /\ k.str[s].life = o.str[s].life /\ k.str[s].fd = o.str[s].fd /\ k.str[s].no_close = o.str[s].no_close
      /\ k.str[s].held = o.str[s].held /\ k.str[s].told = o.str[s].told
      /\ k.str[s].onclose = o.str[s].onclose /\ k.str[s].running = o.str[s].running
      /\ k.str[s].asked = o.str[s].asked
  BY <1>2 DEF Fields
<1>4. FreshStream(k.str[s], d, no_close)
  BY <1>1, <1>2, <1>3 DEF FreshStream, Shape
<1>5. LeavesOpen(o.str[s]) <=> no_close \/ d = NoDesc
  BY <1>1 DEF LeavesOpen, FreshStream
<1>6. (\A e \in Desc : e # d => k.fd[e] = lib.fd[e]) /\ (d \in Desc => (k.fd[d].open <=> no_close))
  <2>1. o.str[s].fd = d
    BY <1>1 DEF FreshStream
  <2>2. CASE no_close \/ d = NoDesc
    BY <1>1, <1>2, <1>5, <2>2, OpenAssumption DEF OpenAssumption
  <2>3. CASE ~no_close /\ d # NoDesc
    BY <1>1, <1>2, <1>5, <2>1, <2>3
  <2> QED BY <2>2, <2>3
<1>7. NewStream(k, s, d, no_close, "freed") /\ (d \in Desc => (k.fd[d].open <=> no_close))
  BY <1>1, <1>2, <1>4, <1>6 DEF NewStream
<1>8. k = func_close(Opened(s, way, d, no_close, FALSE, garbage), s)
  BY <1>0 DEF k, o
<1> QED BY <1>7, <1>8

\* A stream object that is freed.
LEMMA GoneIs ==
  ASSUME NEW l, Shape(l), NEW s \in Stream
  PROVE  LET m == [l EXCEPT !.str[s] = NoStream]
         IN  Shape(m) /\ m.dead = l.dead /\ m.fd = l.fd /\ m.str[s] = NoStream /\ \A t \in Stream : t # s => m.str[t] = l.str[t]
<1> DEFINE m == [l EXCEPT !.str[s] = NoStream]
<1>1. DOMAIN m = {"fd", "str", "dead"} /\ m.dead = l.dead /\ m.fd = l.fd /\ m.str = [l.str EXCEPT ![s] = NoStream]
  BY DEF Shape
<1> HIDE DEF m
<1>2. DOMAIN m.str = Stream /\ m.str[s] = NoStream /\ \A t \in Stream : t # s => m.str[t] = l.str[t]
  BY <1>1 DEF Shape
<1>3. Shape(m)
  BY <1>1, <1>2, NoStreamIs DEF Shape
<1> QED BY <1>1, <1>2, <1>3 DEF m

\* An open that fails for good, or succeeds.
LEMMA OpenSteps ==
  ASSUME OInv, ~lib.dead, NEW s \in Stream, lib.str[s].life = "none",
         NEW d \in Desc \cup {NoDesc}, NEW no_close, {no_close} \subseteq BOOLEAN,
         d \in Desc => \A t \in Stream : ~Refers(t, d),
         d \in Desc /\ no_close => own[d] = "app",
         Shape(lib'), own' \in [Desc -> {"none", "app", "lib"}],
         \A t \in Stream : t # s => lib'.str[t] = lib.str[t],
         \A e \in Desc : e # d => lib'.fd[e] = lib.fd[e] /\ own'[e] = own[e],
         \/ lib'.str[s] = NoStream
         \/ FreshStream(lib'.str[s], d, no_close) /\ lib'.str[s].cookie \in {"live", "freed"},
         d \in Desc /\ ~lib'.dead =>
           /\ no_close => lib'.fd[d].open /\ own'[d] = own[d]
           /\ ~no_close => IF lib'.str[s] = NoStream THEN own'[d] = "none" /\ ~lib'.fd[d].open
                           ELSE own'[d] = "lib" /\ (lib'.str[s].cookie = "live" => lib'.fd[d].open)
  PROVE  OInv'
<1> DEFINE D == IF d = NoDesc THEN {} ELSE {d}
<1>1. D \in SUBSET Desc /\ (\A e \in Desc : e \notin D => e # d) /\ (\A e \in D : e = d /\ d \in Desc)
  BY OpenAssumption DEF OpenAssumption
<1> HIDE DEF D
<1>2. \A t \in Stream, e \in D : t # s => ~Refers(t, e)
  BY <1>1
<1>3. BitKept(s)'
  BY NoStreamIs DEF BitKept, Usable, FreshStream
<1>4. CookieKept(s)' /\ NameKept(s)'
  BY NoStreamIs DEF CookieKept, NameKept, FreshStream
<1>5. \A e \in Desc : Refers(s, e)' => e = d /\ lib'.str[s] # NoStream /\ lib'.str[s].cookie = "live"
  BY NoStreamIs DEF Refers, FreshStream
<1>6. \A e \in Desc : ~Refers(s, e) /\ ~Cookieless(s)
  BY DEF Refers, Cookieless
<1>7. ASSUME ~lib'.dead
      PROVE  ReferenceKept(s)'
  <2> SUFFICES ASSUME NEW e \in Desc, Refers(s, e)'
               PROVE  lib'.fd[e].open /\ own'[e] = IF lib'.str[s].no_close THEN "app" ELSE "lib"
    BY DEF ReferenceKept
  <2>1. e = d /\ d \in Desc /\ FreshStream(lib'.str[s], d, no_close) /\ lib'.str[s] # NoStream /\ lib'.str[s].cookie = "live"
    BY <1>5
  <2>2. lib'.str[s].no_close = no_close
    BY <2>1 DEF FreshStream
  <2> QED BY <1>7, <2>1, <2>2
<1>8. ASSUME ~lib'.dead, d \in Desc
      PROVE  OwnerKept(d)'
  <2>1. CASE no_close
    BY <1>8, <2>1 DEF OwnerKept
  <2>2. CASE ~no_close /\ lib'.str[s] = NoStream
    BY <1>8, <2>2 DEF OwnerKept
  <2>3. CASE ~no_close /\ lib'.str[s] # NoStream
    <3>1. own'[d] = "lib" /\ lib'.str[s].life = "open" /\ lib'.str[s].fd = d /\ lib'.str[s].cookie \in {"live", "freed"}
      BY <1>8, <2>3 DEF FreshStream
    <3>2. Refers(s, d)' \/ (Cookieless(s) /\ lib.str[s].fd = d)'
      BY <3>1 DEF Refers, Cookieless
    <3> QED BY <3>1, <3>2 DEF OwnerKept
  <2> QED BY <2>1, <2>2, <2>3
<1>9. ~lib'.dead => \A e \in D : OwnerKept(e)'
  BY <1>1, <1>8
<1>10. ASSUME ~lib'.dead, NEW e \in Desc, e \notin D
       PROVE  /\ own'[e] = own[e]
              /\ Refers(s, e)' => Refers(s, e)
              /\ Refers(s, e) => Refers(s, e)'
              /\ Cookieless(s) /\ lib.str[s].fd = e => (Cookieless(s) /\ lib.str[s].fd = e)'
  BY <1>1, <1>5, <1>6, <1>10
<1>11. \A e \in Desc : e \notin D => lib'.fd[e] = lib.fd[e]
  BY <1>1
<1> QED BY <1>1, <1>2, <1>3, <1>4, <1>7, <1>9, <1>10, <1>11, Stepped

\* A descriptor that is given to an open function is referred to by no stream, and one
\* that is given to an _nc function is the program's.
LEMMA MayOpenGives ==
  ASSUME OInv, ~lib.dead, NEW way, NEW d \in Desc \cup {NoDesc}, NEW no_close, NEW nonblock,
         {no_close, nonblock} \subseteq BOOLEAN, MayOpen(way, d, no_close, nonblock)
  PROVE  /\ d \in Desc => \A t \in Stream : ~Refers(t, d)
         /\ d \in Desc /\ no_close => own[d] = "app"
         /\ way = "fopencookie" => d = NoDesc
<1>1. Alive /\ NoDesc \notin Desc
  BY OpenAssumption DEF OInv, OpenAssumption
<1>2. CASE way \in OpensItself
  <2>1. way \in {"fopen", "tmpfile"} /\ d # NoDesc /\ ~lib.fd[d].open /\ ~no_close
    BY <1>2 DEF MayOpen, OpensItself
  <2>2. \A t \in Stream : ~Refers(t, d)
    BY <1>1, <2>1 DEF Alive, ReferenceKept
  <2> QED BY <2>1, <2>2
<1>3. CASE way = "fopencookie"
  BY <1>1, <1>3 DEF MayOpen, OpensItself
<1>4. CASE way \notin OpensItself /\ way # "fopencookie"
  <2>1. d \in {NoDesc} \cup {e \in Desc : own[e] = "app" /\ ~\E r \in Stream : Refers(r, e)}
    BY <1>4 DEF MayOpen
  <2> QED BY <1>1, <1>4, <2>1
<1> QED BY <1>2, <1>3, <1>4

\* Who has to close the descriptor d afterwards.
OwnMoves(d, no_close, failure) ==
  /\ own' \in [Desc -> {"none", "app", "lib"}] /\ \A e \in Desc : e # d => own'[e] = own[e]
  /\ d = NoDesc \/ no_close \/ failure \in {"mode", "cookie", "intern"} => own' = own
  /\ d \in Desc /\ ~no_close /\ failure \in {"none", "ioctl"} => own'[d] = "lib"
  /\ d \in Desc /\ ~no_close /\ failure \in {"stream", "list"} => own'[d] = "none"

\* Who has to close the descriptor after an open.
LEMMA OwnAfterOpen ==
  ASSUME NEW s \in Stream, NEW way, NEW d \in Desc \cup {NoDesc}, NEW no_close, NEW nonblock, NEW failure \in Failures,
         NEW garbage, {no_close, nonblock, garbage} \subseteq BOOLEAN,
         own \in [Desc -> {"none", "app", "lib"}],
         Open(s, way, d, no_close, nonblock, failure, garbage)
  PROVE  OwnMoves(d, no_close, failure)
<1>1. own' = IF d = NoDesc \/ no_close \/ failure \in {"mode", "cookie", "intern"} THEN own
            ELSE [own EXCEPT ![d] = IF failure \in {"none", "ioctl"} THEN "lib" ELSE "none"]
  BY DEF Open
<1> USE DEF OwnMoves
<1>2. CASE d = NoDesc \/ no_close \/ failure \in {"mode", "cookie", "intern"}
  <2>1. own' = own
    BY <1>1, <1>2
  <2> QED BY <1>2, <2>1, OpenAssumption DEF OpenAssumption
<1>3. CASE ~(d = NoDesc \/ no_close \/ failure \in {"mode", "cookie", "intern"})
  BY <1>1, <1>3
<1> QED BY <1>2, <1>3

\* Every open function keeps the accounts, with each failure of create_stream.
LEMMA OpenKeeps ==
  ASSUME OInv, ~lib.dead, NEW s \in Stream, NEW way, NEW d \in Desc \cup {NoDesc}, NEW no_close, NEW nonblock,
         NEW failure \in Failures, NEW garbage, {no_close, nonblock, garbage} \subseteq BOOLEAN,
         Open(s, way, d, no_close, nonblock, failure, garbage)
  PROVE  OInv'
<1>1. /\ d \in Desc => \A t \in Stream : ~Refers(t, d)
      /\ d \in Desc /\ no_close => own[d] = "app"
      /\ way = "fopencookie" => d = NoDesc
  BY MayOpenGives DEF Open
<1>2. /\ own' \in [Desc -> {"none", "app", "lib"}] /\ \A e \in Desc : e # d => own'[e] = own[e]
      /\ d = NoDesc \/ no_close \/ failure \in {"mode", "cookie", "intern"} => own' = own
      /\ d \in Desc /\ ~no_close /\ failure \in {"none", "ioctl"} => own'[d] = "lib"
      /\ d \in Desc /\ ~no_close /\ failure \in {"stream", "list"} => own'[d] = "none"
  <2>1. OwnMoves(d, no_close, failure)
    BY OwnAfterOpen DEF OInv
  <2> QED BY <2>1 DEF OwnMoves
<1>3. Shape(lib) /\ lib.str[s].life = "none" /\ Alive
  BY DEF OInv, Open
<1>4. /\ lib' = IF failure = "none" THEN Opened(s, way, d, no_close, nonblock, garbage)
                ELSE Failed(s, way, d, no_close, failure, garbage)
  BY DEF Open
<1>5. ASSUME lib' = lib, own' = own
      PROVE  OInv'
  BY <1>5 DEF OInv, Shape, Alive, BitKept, CookieKept, ReferenceKept, NameKept, OneReference, OwnerKept,
              Refers, Cookieless, Usable, get_nonblock
<1>6. CASE failure = "none"
  <2>1. NewStream(lib', s, d, no_close, "live") /\ (d \in Desc => lib'.fd[d].open)
    BY <1>3, <1>4, <1>6, OpenedIs
  <2>2. lib'.str[s] # NoStream
    BY <2>1, NoStreamIs DEF NewStream, FreshStream
  <2> QED BY <1>1, <1>2, <1>3, <1>6, <2>1, <2>2, OpenSteps DEF NewStream
<1>7. CASE failure \in {"mode", "cookie"}
  <2>1. lib' = lib
    BY <1>4, <1>7 DEF Failed
  <2> QED BY <1>2, <1>5, <1>7, <2>1
<1> DEFINE k == func_close(Opened(s, way, d, no_close, FALSE, garbage), s)
<1>8. NewStream(k, s, d, no_close, "freed") /\ (d \in Desc => (k.fd[d].open <=> no_close))
  BY <1>3, OpenedClosedIs, ZenonT(60)
<1>9. CASE failure = "stream"
  <2>1. CASE way = "fopencookie"
    <3>1. lib' = lib
      BY <1>4, <1>9, <2>1 DEF Failed
    <3> QED BY <1>1, <1>2, <1>5, <2>1, <3>1
  <2>2. CASE way # "fopencookie"
    <3>1. lib' = [k EXCEPT !.str[s] = NoStream]
      BY <1>4, <1>9, <2>2 DEF Failed
    <3> HIDE DEF k
    <3>2. Shape(lib') /\ lib'.dead = lib.dead /\ lib'.fd = k.fd /\ lib'.str[s] = NoStream /\ \A t \in Stream : t # s => lib'.str[t] = lib.str[t]
      BY <1>8, <3>1, GoneIs DEF NewStream
    <3>3. \A e \in Desc : e # d => lib'.fd[e] = lib.fd[e]
      BY <1>8, <3>2 DEF NewStream
    <3>4. own'[d] = own[d] \/ d \notin Desc \/ ~no_close
      BY <1>2
    <3> QED BY <1>1, <1>2, <1>3, <1>8, <1>9, <3>2, <3>3, <3>4, OpenSteps
  <2> QED BY <2>1, <2>2
<1>10. CASE failure = "intern"
  <2>1. lib' = [lib EXCEPT !.dead = TRUE]
    BY <1>4, <1>10 DEF Failed
  <2>2. DOMAIN lib' = {"fd", "str", "dead"} /\ lib'.dead = TRUE /\ lib'.fd = lib.fd /\ lib'.str = lib.str
    BY <1>3, <2>1 DEF Shape
  <2>3. Shape(lib') /\ \A t \in Stream : BitKept(t)'
    BY <1>3, <2>2, ZenonT(60) DEF Shape, OInv, BitKept, Usable, get_nonblock
  <2> QED BY <1>2, <2>2, <2>3 DEF OInv
<1>11. CASE failure = "list"
  <2>1. CASE way = "fopencookie"
    <3>1. lib' = lib
      BY <1>4, <1>11, <2>1 DEF Failed
    <3> QED BY <1>1, <1>2, <1>5, <2>1, <3>1
  <2>2. CASE way # "fopencookie"
    <3> DEFINE kk == func_close(k, s)
    <3>1. lib' = [kk EXCEPT !.str[s] = NoStream]
      BY <1>4, <1>11, <2>2 DEF Failed
    <3> HIDE DEF k
    <3>2. Shape(kk) /\ kk.dead /\ kk.str = k.str /\ kk.fd = k.fd
      <4>1. Shape(k) /\ k.str[s].cookie # "live"
        BY <1>8 DEF NewStream
      <4> QED BY <4>1, CloseIs
    <3> HIDE DEF kk
    <3>3. Shape(lib') /\ lib'.dead /\ lib'.fd = k.fd /\ lib'.str[s] = NoStream /\ \A t \in Stream : t # s => lib'.str[t] = k.str[t]
      BY <3>1, <3>2, GoneIs
    <3>4. (\A e \in Desc : e # d => lib'.fd[e] = lib.fd[e]) /\ \A t \in Stream : t # s => lib'.str[t] = lib.str[t]
      BY <1>8, <3>3 DEF NewStream
    <3> QED BY <1>1, <1>2, <1>3, <3>3, <3>4, OpenSteps
  <2> QED BY <2>1, <2>2
<1>12. CASE failure = "ioctl"
  <2>1. lib' = k
    BY <1>4, <1>12 DEF Failed
  <2> HIDE DEF k
  <2>2. NewStream(lib', s, d, no_close, "freed") /\ (d \in Desc => (lib'.fd[d].open <=> no_close))
    BY <1>8, <2>1
  <2>3. lib'.str[s] # NoStream
    BY <2>2, NoStreamIs DEF NewStream, FreshStream
  <2> QED BY <1>1, <1>2, <1>3, <1>12, <2>2, <2>3, OpenSteps DEF NewStream
<1> QED BY <1>6, <1>7, <1>9, <1>10, <1>11, <1>12 DEF Failures

-----------------------------------------------------------------------------
\* m is l with stream s opened again over d.
ReopenedAs(m, l, s, d) ==
  /\ Shape(m) /\ m.dead = l.dead /\ \A t \in Stream : t # s => m.str[t] = l.str[t]
  /\ \A e \in Desc : e # d => m.fd[e] = l.fd[e]
  /\ m.fd[d].open
  /\ m.str[s].life = l.str[s].life /\ m.str[s].held = l.str[s].held
  /\ m.str[s].fd = d /\ ~m.str[s].no_close /\ m.str[s].cookie = "live"
  /\ m.str[s].told = "unset" /\ m.str[s].reopened = TRUE
  /\ m.str[s].onclose = l.str[s].onclose /\ m.str[s].running = l.str[s].running /\ m.str[s].asked = <<>>

\* What a successful freopen leaves.
LEMMA ReopenedIs ==
  ASSUME NEW l, Shape(l), NEW s \in Stream, NEW d \in Desc, NEW nonblock, {nonblock} \subseteq BOOLEAN
  PROVE  ReopenedAs(ReopenedObj(s, d, nonblock, l), l, s, d)
<1> DEFINE m == ReopenedObj(s, d, nonblock, l)
           q == l.str[s]
           r == [q EXCEPT !.way = "fopen", !.fd = d, !.no_close = FALSE, !.cookie = "live",
                          !.name = TRUE, !.told = "unset", !.reopened = TRUE, !.asked = <<>>]
           f == [open |-> TRUE, nonblock |-> nonblock]
<1>1. m = [l EXCEPT !.str[s] = r, !.fd[d] = f]
  BY DEF ReopenedObj, Shape
<1>2. FdShape(f) /\ f.open
  BY DEF FdShape
<1>3. /\ DOMAIN r = Fields /\ r.life = q.life /\ r.held = q.held /\ r.fd = d /\ r.no_close = FALSE
      /\ r.cookie = "live" /\ r.told = "unset" /\ r.reopened = TRUE /\ r.modeflag = q.modeflag /\ r.name = TRUE
      /\ r.onclose = q.onclose /\ r.running = q.running /\ r.asked = <<>>
  <2>1. DOMAIN q = Fields
    BY DEF Shape, StreamShape
  <2> HIDE DEF q
  <2> QED BY <2>1 DEF Fields
<1> HIDE DEF r, f
<1>4. StreamShape(r)
  BY <1>3 DEF Shape, StreamShape
<1> HIDE DEF m
<1>5. /\ DOMAIN m = {"fd", "str", "dead"} /\ m.dead = l.dead
      /\ m.str = [l.str EXCEPT ![s] = r] /\ m.fd = [l.fd EXCEPT ![d] = f]
  BY <1>1 DEF Shape
<1>6. /\ DOMAIN m.str = Stream /\ m.str[s] = r /\ \A t \in Stream : t # s => m.str[t] = l.str[t]
      /\ DOMAIN m.fd = Desc /\ m.fd[d] = f /\ \A e \in Desc : e # d => m.fd[e] = l.fd[e]
  BY <1>5 DEF Shape
<1>7. Shape(m)
  BY <1>2, <1>4, <1>5, <1>6 DEF Shape
<1>8. ReopenedAs(m, l, s, d)
  BY <1>2, <1>3, <1>5, <1>6, <1>7 DEF ReopenedAs
<1> QED BY <1>8 DEF m

\* What a stream that is open or being closed refers to is nobody else's.
LEMMA Exclusive ==
  ASSUME OInv, ~lib.dead, NEW s \in Stream, lib.str[s].life # "none"
  PROVE  /\ lib.str[s].cookie \in {"live", "freed"} /\ NameKept(s)
         /\ lib.str[s].cookie = "live" /\ lib.str[s].fd \in Desc =>
              /\ Refers(s, lib.str[s].fd) /\ lib.fd[lib.str[s].fd].open
              /\ own[lib.str[s].fd] = IF lib.str[s].no_close THEN "app" ELSE "lib"
              /\ \A t \in Stream : t # s => ~Refers(t, lib.str[s].fd)
<1>1. Alive
  BY DEF OInv
<1>2. lib.str[s].cookie \in {"live", "freed"} /\ NameKept(s)
  BY <1>1 DEF Alive, CookieKept
<1>3. ASSUME lib.str[s].cookie = "live", lib.str[s].fd \in Desc
      PROVE  /\ Refers(s, lib.str[s].fd) /\ lib.fd[lib.str[s].fd].open
             /\ own[lib.str[s].fd] = IF lib.str[s].no_close THEN "app" ELSE "lib"
             /\ \A t \in Stream : t # s => ~Refers(t, lib.str[s].fd)
  <2>1. Refers(s, lib.str[s].fd)
    BY <1>3 DEF Refers
  <2>2. \A t \in Stream : Refers(t, lib.str[s].fd) => t = s
    BY <1>1, <1>3, <2>1 DEF Alive, OneReference
  <2>3. ReferenceKept(s)
    BY <1>1 DEF Alive
  <2>4. lib.fd[lib.str[s].fd].open /\ own[lib.str[s].fd] = IF lib.str[s].no_close THEN "app" ELSE "lib"
    BY <1>3, <2>1, <2>3 DEF ReferenceKept
  <2> QED BY <2>1, <2>2, <2>4 DEF Refers
<1> QED BY <1>2, <1>3

\* freopen gives up the old descriptor, and takes the new one or dies.
LEMMA FreopenKeeps ==
  ASSUME OInv, ~lib.dead, NEW s \in Stream, NEW d \in Desc, NEW nonblock, NEW failed,
         {nonblock, failed} \subseteq BOOLEAN, Freopen(s, d, nonblock, failed)
  PROVE  OInv'
<1> DEFINE gone == deinit_stream_obj(lib, s)
<1>1. /\ lib.str[s].life = "open" /\ ~gone.fd[d].open
      /\ lib' = IF failed THEN func_close(gone, s) ELSE ReopenedObj(s, d, nonblock, gone)
      /\ own' = [e \in Desc |-> CASE e = d -> IF failed THEN "none" ELSE "lib"
                                  [] e # d /\ e = lib.str[s].fd /\ ~lib.str[s].no_close -> "none"
                                  [] OTHER -> own[e]]
  BY DEF Freopen
<1>2. Shape(lib) /\ own \in [Desc -> {"none", "app", "lib"}] /\ NoDesc \notin Desc
      /\ lib.str[s].fd \in Desc \cup {NoDesc} /\ lib.str[s].no_close \in BOOLEAN
  BY OpenAssumption DEF OInv, OpenAssumption, Shape, StreamShape
<1>3. /\ lib.str[s].cookie \in {"live", "freed"} /\ NameKept(s)
      /\ lib.str[s].cookie = "live" /\ lib.str[s].fd \in Desc =>
           /\ Refers(s, lib.str[s].fd) /\ lib.fd[lib.str[s].fd].open
           /\ own[lib.str[s].fd] = IF lib.str[s].no_close THEN "app" ELSE "lib"
           /\ \A t \in Stream : t # s => ~Refers(t, lib.str[s].fd)
  BY <1>1, Exclusive
<1>4. /\ Shape(gone)
      /\ \A t \in Stream : t # s => gone.str[t] = lib.str[t]
      /\ \A g \in Fields \ {"cookie", "name", "inuse", "onclose", "held"} : gone.str[s][g] = lib.str[s][g]
      /\ lib.str[s].cookie # "live" => gone.dead /\ gone.fd = lib.fd /\ gone.str[s].cookie = lib.str[s].cookie
      /\ lib.str[s].cookie = "live" =>
           /\ gone.dead = lib.dead /\ gone.str[s].cookie = "freed"
           /\ LeavesOpen(lib.str[s]) => gone.fd = lib.fd
           /\ ~LeavesOpen(lib.str[s]) =>
                /\ ~gone.fd[lib.str[s].fd].open
                /\ \A e \in Desc : e # lib.str[s].fd => gone.fd[e] = lib.fd[e]
      /\ gone.str[s].held # "yes"
  BY <1>2, DeinitIs
<1>5. gone.str[s].cookie = "freed"
  BY <1>3, <1>4
<1> HIDE DEF gone
\* Only the old descriptor and d change hands.
<1> DEFINE D == {d} \cup ({lib.str[s].fd} \cap Desc)
<1>6. D \in SUBSET Desc
  OBVIOUS
<1>7. /\ own' \in [Desc -> {"none", "app", "lib"}]
      /\ own'[d] = IF failed THEN "none" ELSE "lib"
      /\ \A e \in Desc : e # d => own'[e] = IF e = lib.str[s].fd /\ ~lib.str[s].no_close THEN "none" ELSE own[e]
  <2>1. \A e \in Desc : own'[e] = IF e = d THEN IF failed THEN "none" ELSE "lib"
                                  ELSE IF e = lib.str[s].fd /\ ~lib.str[s].no_close THEN "none" ELSE own[e]
    BY <1>1
  <2>2. DOMAIN own' = Desc /\ own' = [e \in Desc |-> own'[e]]
    BY <1>1
  <2>3. \A e \in Desc : own'[e] \in {"none", "app", "lib"}
    BY <1>2, <2>1
  <2> QED BY <2>1, <2>2, <2>3
<1>8. \A t \in Stream, e \in D : t # s /\ (lib.str[s].cookie = "live" \/ e = d) => ~Refers(t, e)
  <2> SUFFICES ASSUME NEW t \in Stream, NEW e \in D, t # s, lib.str[s].cookie = "live" \/ e = d, Refers(t, e)
               PROVE  FALSE
    BY DEF Refers
  <2>1. Alive
    BY DEF OInv
  <2>2. lib.fd[e].open
    BY <1>6, <2>1 DEF Alive, ReferenceKept
  <2>3. CASE e = lib.str[s].fd /\ lib.str[s].cookie = "live"
    BY <1>3, <1>6, <2>3
  <2>4. CASE e = d /\ ~(e = lib.str[s].fd /\ lib.str[s].cookie = "live")
    <3>1. gone.fd[d] = lib.fd[d]
      BY <1>3, <1>4, <2>4
    <3> QED BY <1>1, <2>2, <2>4, <3>1
  <2> QED BY <2>3, <2>4
<1>9. CASE failed
  <2>1. Shape(lib') /\ lib'.dead /\ lib'.str = gone.str /\ lib'.fd = gone.fd
    BY <1>1, <1>4, <1>5, <1>9, CloseIs
  <2>2. \A e \in Desc : e # lib.str[s].fd \/ lib.str[s].cookie # "live" => lib'.fd[e] = lib.fd[e]
    BY <1>4, <2>1
  <2>3. BitKept(s)'
    BY <1>5, <2>1 DEF BitKept, Usable
  <2> DEFINE E == IF lib.str[s].cookie = "live" THEN {lib.str[s].fd} \cap Desc ELSE {}
  <2>4. /\ E \in SUBSET Desc /\ \A e \in Desc : e \notin E => lib'.fd[e] = lib.fd[e]
        /\ \A t \in Stream, e \in E : t # s => ~Refers(t, e)
    BY <1>8, <2>2
  <2> HIDE DEF E
  <2> QED BY <1>4, <1>7, <2>1, <2>3, <2>4, Stepped
<1>10. CASE ~failed
  <2>1. /\ Shape(lib') /\ lib'.dead = gone.dead /\ \A t \in Stream : t # s => lib'.str[t] = gone.str[t]
        /\ \A e \in Desc : e # d => lib'.fd[e] = gone.fd[e]
        /\ lib'.fd[d].open
        /\ lib'.str[s].life = gone.str[s].life /\ lib'.str[s].held = gone.str[s].held
        /\ lib'.str[s].fd = d /\ ~lib'.str[s].no_close /\ lib'.str[s].cookie = "live"
        /\ lib'.str[s].told = "unset" /\ lib'.str[s].reopened = TRUE
    <3>1. ReopenedAs(lib', gone, s, d)
      BY <1>1, <1>4, <1>10, ReopenedIs
    <3> QED BY <3>1 DEF ReopenedAs
  <2>2. BitKept(s)' /\ NameKept(s)'
    BY <1>4, <2>1 DEF BitKept, NameKept
  <2>3. gone.str[s].life = "open"
    BY <1>1, <1>4 DEF Fields
  <2>4. CASE lib.str[s].cookie = "freed"
    <3> DEFINE E == {d}
    <3>1. lib'.dead /\ \A e \in Desc : e # d => lib'.fd[e] = lib.fd[e]
      BY <1>4, <2>1, <2>4
    <3>2. /\ E \in SUBSET Desc /\ \A e \in Desc : e \notin E => lib'.fd[e] = lib.fd[e]
          /\ \A t \in Stream, e \in E : t # s => ~Refers(t, e)
      BY <1>8, <3>1
    <3> HIDE DEF E
    <3> QED BY <1>4, <1>7, <2>1, <2>2, <3>1, <3>2, Stepped
  <2>5. CASE lib.str[s].cookie = "live"
    <3>1. /\ \A e \in Desc : e \notin D => lib'.fd[e] = lib.fd[e] /\ own'[e] = own[e]
          /\ \A t \in Stream, e \in D : t # s => ~Refers(t, e)
          /\ \A t \in Stream : t # s => lib'.str[t] = lib.str[t]
      BY <1>4, <1>7, <1>8, <2>1, <2>5
    <3>2. CookieKept(s)'
      BY <2>1, <2>3 DEF CookieKept
    <3>3. \A e \in Desc : Refers(s, e)' <=> e = d
      BY <2>1, <2>3 DEF Refers
    <3>4. ReferenceKept(s)'
      BY <1>7, <1>10, <2>1, <3>3 DEF ReferenceKept
    <3>5. \A e \in Desc : e \notin D => ~Refers(s, e)' /\ ~Refers(s, e) /\ ~(Cookieless(s) /\ lib.str[s].fd = e)
      BY <2>5, <3>3 DEF Refers, Cookieless
    <3>6. ASSUME NEW e \in D
          PROVE  OwnerKept(e)'
      <4>1. CASE e = d
        BY <1>7, <1>10, <2>1, <3>3, <4>1 DEF OwnerKept
      <4>2. CASE e # d
        <5>1. e = lib.str[s].fd /\ e \in Desc
          BY <4>2
        <5>2. CASE lib.str[s].no_close
          <6>1. own'[e] = "app" /\ lib.fd[e].open
            BY <1>3, <1>7, <2>5, <4>2, <5>1, <5>2
          <6>2. lib'.fd[e] = lib.fd[e]
            BY <1>4, <2>1, <2>5, <4>2, <5>1, <5>2 DEF LeavesOpen
          <6> QED BY <6>1, <6>2 DEF OwnerKept
        <5>3. CASE ~lib.str[s].no_close
          <6>1. own'[e] = "none"
            BY <1>7, <4>2, <5>1, <5>3
          <6>2. ~lib'.fd[e].open
            BY <1>2, <1>4, <2>1, <2>5, <4>2, <5>1, <5>3 DEF LeavesOpen
          <6> QED BY <6>1, <6>2 DEF OwnerKept
        <5> QED BY <5>2, <5>3
      <4> QED BY <4>1, <4>2
    <3> HIDE DEF D
    <3> QED BY <1>6, <1>7, <2>1, <2>2, <3>1, <3>2, <3>4, <3>5, <3>6, Stepped
  <2> QED BY <1>3, <2>4, <2>5
<1> QED BY <1>9, <1>10

\* The end of a close closes the descriptor once, or leaves it to the program.
LEMMA CloseEndKeeps ==
  ASSUME OInv, ~lib.dead, NEW s \in Stream, CloseEnd(s)
  PROVE  OInv'
<1> DEFINE gone == deinit_stream_obj(lib, s)
<1>1. /\ lib.str[s].life = "closing"
      /\ lib' = IF gone.dead THEN gone ELSE [gone EXCEPT !.str[s] = NoStream]
      /\ own' = IF lib.str[s].fd = NoDesc \/ lib.str[s].no_close THEN own
                ELSE [own EXCEPT ![lib.str[s].fd] = "none"]
  BY DEF CloseEnd
<1>2. Shape(lib) /\ own \in [Desc -> {"none", "app", "lib"}] /\ NoDesc \notin Desc
      /\ lib.str[s].fd \in Desc \cup {NoDesc} /\ lib.str[s].no_close \in BOOLEAN
  BY OpenAssumption DEF OInv, OpenAssumption, Shape, StreamShape
<1>3. /\ lib.str[s].cookie \in {"live", "freed"}
      /\ lib.str[s].cookie = "live" /\ lib.str[s].fd \in Desc =>
           /\ Refers(s, lib.str[s].fd) /\ lib.fd[lib.str[s].fd].open
           /\ own[lib.str[s].fd] = IF lib.str[s].no_close THEN "app" ELSE "lib"
           /\ \A t \in Stream : t # s => ~Refers(t, lib.str[s].fd)
  BY <1>1, Exclusive
<1>4. /\ Shape(gone)
      /\ \A t \in Stream : t # s => gone.str[t] = lib.str[t]
      /\ \A g \in Fields \ {"cookie", "name", "inuse", "onclose", "held"} : gone.str[s][g] = lib.str[s][g]
      /\ lib.str[s].cookie # "live" => gone.dead /\ gone.fd = lib.fd /\ gone.str[s].cookie = lib.str[s].cookie
      /\ lib.str[s].cookie = "live" =>
           /\ gone.dead = lib.dead /\ gone.str[s].cookie = "freed"
           /\ LeavesOpen(lib.str[s]) => gone.fd = lib.fd
           /\ ~LeavesOpen(lib.str[s]) =>
                /\ ~gone.fd[lib.str[s].fd].open
                /\ \A e \in Desc : e # lib.str[s].fd => gone.fd[e] = lib.fd[e]
  BY <1>2, DeinitIs
<1> HIDE DEF gone
<1>5. own' \in [Desc -> {"none", "app", "lib"}]
  BY <1>1, <1>2
<1>6. CASE lib.str[s].cookie = "freed"
  <2>1. lib' = gone /\ gone.dead
    BY <1>1, <1>4, <1>6
  <2>2. lib'.str[s].life = "closing"
    BY <1>1, <1>4, <2>1 DEF Fields
  <2>3. BitKept(s)'
    BY <2>2 DEF BitKept, Usable
  <2> DEFINE E == {}
  <2>4. /\ E \in SUBSET Desc /\ \A e \in Desc : e \notin E => lib'.fd[e] = lib.fd[e]
        /\ \A t \in Stream, e \in E : t # s => ~Refers(t, e)
    BY <1>4, <1>6, <2>1
  <2> HIDE DEF E
  <2> QED BY <1>4, <1>5, <2>1, <2>3, <2>4, Stepped
<1>7. CASE lib.str[s].cookie = "live"
  <2>1. lib' = [gone EXCEPT !.str[s] = NoStream]
    BY <1>1, <1>4, <1>7
  <2>2. /\ Shape(lib') /\ lib'.dead = lib.dead /\ lib'.fd = gone.fd /\ lib'.str[s] = NoStream
        /\ \A t \in Stream : t # s => lib'.str[t] = lib.str[t]
    BY <1>4, <1>7, <2>1, GoneIs
  <2>3. BitKept(s)' /\ CookieKept(s)' /\ NameKept(s)' /\ ReferenceKept(s)' /\ \A e \in Desc : ~Refers(s, e)'
    BY <2>2, NoStreamIs DEF BitKept, CookieKept, NameKept, ReferenceKept, Refers, Usable
  <2> DEFINE D == {lib.str[s].fd} \cap Desc
  <2>4. D \in SUBSET Desc /\ \A t \in Stream, e \in D : t # s => ~Refers(t, e)
    BY <1>3, <1>7
  <2>5. \A e \in Desc : e \notin D => lib'.fd[e] = lib.fd[e] /\ own'[e] = own[e]
    BY <1>1, <1>2, <1>4, <1>7, <2>2
  <2>6. \A e \in Desc : e \notin D => ~Refers(s, e) /\ ~(Cookieless(s) /\ lib.str[s].fd = e)
    BY <1>7 DEF Refers, Cookieless
  <2>7. ASSUME NEW e \in D
        PROVE  OwnerKept(e)'
    <3>1. e = lib.str[s].fd /\ e \in Desc
      OBVIOUS
    <3>2. CASE lib.str[s].no_close
      BY <1>1, <1>3, <1>4, <1>7, <2>2, <3>1, <3>2 DEF OwnerKept, LeavesOpen
    <3>3. CASE ~lib.str[s].no_close
      BY <1>1, <1>2, <1>4, <1>7, <2>2, <3>1, <3>3 DEF OwnerKept, LeavesOpen
    <3> QED BY <3>2, <3>3
  <2> HIDE DEF D
  <2> QED BY <1>5, <2>2, <2>3, <2>4, <2>5, <2>6, <2>7, Stepped
<1> QED BY <1>3, <1>6, <1>7

-----------------------------------------------------------------------------
\* OInv is inductive.
LEMMA OpenInductive == OInv /\ [OpenNext]_openVars => OInv'
<1> SUFFICES ASSUME OInv, [OpenNext]_openVars PROVE OInv'
  OBVIOUS
<1>1. CASE UNCHANGED openVars
  <2>1. lib' = lib /\ own' = own
    BY <1>1 DEF openVars
  <2> QED BY <2>1 DEF OInv, Shape, Alive, BitKept, CookieKept, ReferenceKept, NameKept, OneReference, OwnerKept,
              Refers, Cookieless, Usable, get_nonblock
<1>2. ASSUME ~lib.dead, NEW s \in Stream, NEW way, NEW d \in Desc \cup {NoDesc}, NEW no_close,
             {no_close} \subseteq BOOLEAN, OpenAny(s, way, d, no_close)
      PROVE  OInv'
  <2>1. PICK nonblock \in BOOLEAN, garbage \in BOOLEAN, failure \in Failures :
          Open(s, way, d, no_close, nonblock, failure, garbage)
    BY <1>2 DEF OpenAny
  <2>2. {no_close, nonblock, garbage} \subseteq BOOLEAN
    BY <1>2
  <2> QED BY <1>2, <2>1, <2>2, OpenKeeps
<1>3. ASSUME ~lib.dead, NEW s \in Stream, OpenStep(s)
      PROVE  OInv'
  <2>1. PICK no : no = FALSE /\ {no} \subseteq BOOLEAN
    OBVIOUS
  <2>2. CASE fopen(s)
    <3>1. PICK d \in Desc : OpenAny(s, "fopen", d, no)
      BY <2>1, <2>2 DEF fopen
    <3> QED BY <1>2, <1>3, <2>1, <3>1
  <2>3. CASE tmpfile(s)
    <3>1. PICK d \in Desc : OpenAny(s, "tmpfile", d, no)
      BY <2>1, <2>3 DEF tmpfile
    <3> QED BY <1>2, <1>3, <2>1, <3>1
  <2>4. CASE fopencookie(s)
    <3>1. OpenAny(s, "fopencookie", NoDesc, no)
      BY <2>1, <2>4 DEF fopencookie
    <3> QED BY <1>2, <1>3, <2>1, <3>1
  <2>5. CASE do_fpopen(s) \/ do_sysopen(s)
    <3>1. PICK way \in {"fpopen", "fdopen", "sockopen", "w32open"}, d \in Desc \cup {NoDesc}, no_close \in BOOLEAN :
            OpenAny(s, way, d, no_close)
      BY <2>5 DEF do_fpopen, do_sysopen, do_fdopen, do_sockopen, do_w32open
    <3>2. {no_close} \subseteq BOOLEAN
      OBVIOUS
    <3> QED BY <1>2, <1>3, <3>1, <3>2
  <2>6. ASSUME NEW d \in Desc, NEW nonblock \in BOOLEAN, NEW failed \in BOOLEAN, Freopen(s, d, nonblock, failed)
        PROVE  OInv'
    <3>1. {nonblock, failed} \subseteq BOOLEAN
      OBVIOUS
    <3> QED BY <1>3, <2>6, <3>1, FreopenKeeps
  <2> QED BY <1>3, <2>2, <2>3, <2>4, <2>5, <2>6 DEF OpenStep
<1>4. ASSUME ~lib.dead, NEW s \in Stream, CloseStep(s)
      PROVE  OInv'
  BY <1>4, CloseEndKeeps, NotifyKeeps DEF CloseStep
<1>5. ASSUME ~lib.dead, NEW s \in Stream, UseStep(s)
      PROVE  OInv'
  BY <1>5, NonblockKeeps, NamingKeeps DEF UseStep
<1>6. ASSUME ~lib.dead, NEW d \in Desc, AppStep(d)
      PROVE  OInv'
  BY <1>6, AppKeeps
<1> QED BY <1>1, <1>3, <1>4, <1>5, <1>6 DEF OpenNext

\* It implies what is promised of descriptors, modes and names.
AccountsKept ==
  ~lib.dead => \A d \in Desc :
    /\ own[d] = "app" => lib.fd[d].open
    /\ own[d] = "none" => ~lib.fd[d].open
    /\ own[d] = "lib" =>
         \/ \E s \in Stream : Cookieless(s) /\ lib.str[s].fd = d
         \/ lib.fd[d].open /\ \E s \in Stream : Refers(s, d) /\ ~lib.str[s].no_close
LEMMA OInvMeans == OInv => AccountsKept /\ NonblockAgrees /\ NameLasts
<1> SUFFICES ASSUME OInv PROVE AccountsKept /\ NonblockAgrees /\ NameLasts
  OBVIOUS
<1>1. NonblockAgrees
  BY DEF OInv, NonblockAgrees, BitKept
<1>2. NameLasts
  BY DEF OInv, Alive, NameLasts, NameKept
<1>3. AccountsKept
  <2> SUFFICES ASSUME ~lib.dead, NEW d \in Desc
               PROVE  /\ own[d] = "app" => lib.fd[d].open
                      /\ own[d] = "none" => ~lib.fd[d].open
                      /\ own[d] = "lib" =>
                           \/ \E s \in Stream : Cookieless(s) /\ lib.str[s].fd = d
                           \/ lib.fd[d].open /\ \E s \in Stream : Refers(s, d) /\ ~lib.str[s].no_close
    BY DEF AccountsKept
  <2>1. OwnerKept(d)
    BY DEF OInv, Alive
  <2>2. ASSUME own[d] = "lib", NEW s \in Stream, Refers(s, d)
        PROVE  lib.fd[d].open /\ ~lib.str[s].no_close
    <3>1. lib.fd[d].open /\ own[d] = IF lib.str[s].no_close THEN "app" ELSE "lib"
      BY <2>2 DEF OInv, Alive, ReferenceKept
    <3> QED BY <2>2, <3>1
  <2> QED BY <2>1, <2>2 DEF OwnerKept
<1> QED BY <1>1, <1>2, <1>3

\* gpgrt_get_nonblock and the descriptor agree from the first gpgrt_set_nonblock that
\* succeeds on, whatever other streams and later failing calls do.
THEOREM OpenNonblockAgrees == OpenSpec => []NonblockAgrees
BY OpenInitial, OpenInductive, OInvMeans, PTL DEF OpenSpec

\* A name that gpgrt_fname_get returned stays until the stream is closed or opened again.
THEOREM OpenNameLasts == OpenSpec => []NameLasts
BY OpenInitial, OpenInductive, OInvMeans, PTL DEF OpenSpec

-----------------------------------------------------------------------------
\* Of one standard stream.
StdKept(r, n) == r.made[2] # n => r.made = <<"custom", 2>> /\ (r.custom => r.late)
StdInv ==
  /\ DOMAIN std = 0..2
  /\ \A n \in 0..2 : /\ DOMAIN std[n] = {"custom", "late", "made"}
                     /\ std[n].custom \in BOOLEAN /\ std[n].late \in BOOLEAN
                     /\ StdKept(std[n], n)

\* A standard stream goes to another descriptor than its own only if it has none, or it
\* was registered too late, and then to standard error's (_gpgrt__get_std_stream).
THEOREM StdStreamsGoRight == StdSpec => []StdStreamsKept
<1>1. StdInit => StdInv
  <2> SUFFICES ASSUME StdInit PROVE StdInv
    OBVIOUS
  <2>1. DOMAIN std = 0..2 /\ \A n \in 0..2 : std[n] = [custom |-> FALSE, late |-> FALSE, made |-> <<"no", n>>]
    BY DEF StdInit
  <2>2. ASSUME NEW n \in 0..2
        PROVE  /\ DOMAIN std[n] = {"custom", "late", "made"} /\ std[n].custom = FALSE /\ std[n].late = FALSE
               /\ std[n].made[2] = n
    BY <2>1
  <2> QED BY <2>1, <2>2 DEF StdInv, StdKept
<1>2. ASSUME StdInv, NEW n \in 0..2, set_std_fd(n)
      PROVE  StdInv'
  <2>1. /\ DOMAIN std' = 0..2 /\ \A m \in 0..2 : m # n => std'[m] = std[m]
        /\ std'[n] = [std[n] EXCEPT !.custom = TRUE, !.late = @ \/ std[n].made[1] # "no"]
    BY <1>2 DEF StdInv, set_std_fd
  <2>2. /\ DOMAIN std'[n] = {"custom", "late", "made"} /\ std'[n].custom = TRUE /\ std'[n].made = std[n].made
        /\ std'[n].late \in BOOLEAN /\ (std[n].made[1] # "no" => std'[n].late)
    BY <1>2, <2>1 DEF StdInv
  <2>3. StdKept(std'[n], n)
    BY <1>2, <2>2 DEF StdInv, StdKept
  <2> QED BY <1>2, <2>1, <2>2, <2>3, ZenonT(60) DEF StdInv
<1>3. ASSUME StdInv, NEW n \in 0..2, NEW f, get_std_stream(n, f)
      PROVE  StdInv'
  <2> DEFINE made == IF Custom(n) # -1 /\ "fdopen" \notin f THEN <<"custom", Custom(n)>>
                     ELSE IF "fpopen" \notin f THEN <<"libc", n>> ELSE <<"null", n>>
  <2>1. std' = [std EXCEPT ![n].made = made]
    BY <1>3 DEF get_std_stream
  <2>2. made[2] # n => made = <<"custom", 2>> /\ ~std[n].custom
    BY DEF Custom
  <2> HIDE DEF made
  <2>3. /\ DOMAIN std' = 0..2 /\ \A m \in 0..2 : m # n => std'[m] = std[m]
        /\ std'[n] = [std[n] EXCEPT !.made = made]
    BY <1>3, <2>1 DEF StdInv
  <2>4. /\ DOMAIN std'[n] = {"custom", "late", "made"} /\ std'[n].custom = std[n].custom
        /\ std'[n].made = made /\ std'[n].late = std[n].late
    BY <1>3, <2>3 DEF StdInv
  <2>5. StdKept(std'[n], n)
    BY <2>2, <2>4 DEF StdKept
  <2> QED BY <1>3, <2>3, <2>4, <2>5 DEF StdInv
<1>4. StdInv /\ UNCHANGED std => StdInv'
  BY DEF StdInv
<1>5. StdInv /\ [StdNext]_std => StdInv'
  BY <1>2, <1>3, <1>4 DEF StdNext
<1>6. StdInv => StdStreamsKept
  BY DEF StdInv, StdKept, StdStreamsKept
<1> QED BY <1>1, <1>5, <1>6, PTL DEF StdSpec
-----------------------------------------------------------------------------
(* Notifications. *)

\* A set of natural numbers that is not empty has a least one.
LEMMA Least ==
  ASSUME NEW T, T \subseteq Nat, T # {}
  PROVE  \E x \in T : \A y \in T : x <= y
<1> DEFINE R == OpToRel(<, Nat)
<1>1. PICK x \in T : \A y \in T : ~(<<y, x>> \in R)
  <2>1. IsWellFoundedOn(R, Nat)
    BY NatLessThanWellFounded
  <2> HIDE DEF R
  <2> QED BY <2>1, WFMin
<1>2. ASSUME NEW y \in T PROVE x <= y
  <2>1. ~(<<y, x>> \in OpToRel(<, Nat))
    BY <1>1
  <2>2. ~(y < x)
    BY <2>1 DEF OpToRel
  <2> QED BY <2>2
<1> QED BY <1>2

\* Induction for a set: by the least number that is not in it.
LEMMA Induction ==
  ASSUME NEW T, 0 \in T, \A n \in Nat : n \in T => n + 1 \in T
  PROVE  \A n \in Nat : n \in T
<1> DEFINE Out == {n \in Nat : n \notin T}
<1>1. SUFFICES ASSUME Out # {} PROVE FALSE
  OBVIOUS
<1>2. PICK x \in Out : \A y \in Out : x <= y
  <2>1. Out \subseteq Nat
    OBVIOUS
  <2> HIDE DEF Out
  <2> QED BY <1>1, <2>1, Least
<1>3. x \in Nat /\ x # 0 /\ x \notin T
  BY <1>2
<1>4. x - 1 \in Nat /\ ~(x <= x - 1) /\ (x - 1) + 1 = x
  BY <1>3
<1>5. x - 1 \notin Out
  BY <1>2, <1>4
<1>6. x - 1 \in T
  BY <1>4, <1>5
<1> QED BY <1>3, <1>4, <1>6


\* Induction for a set of sequences.
LEMMA SeqInduction ==
  ASSUME NEW X, NEW P, <<>> \in P, \A q \in Seq(X), x \in X : q \in P => Append(q, x) \in P
  PROVE  \A q \in Seq(X) : q \in P
<1> DEFINE T == {n \in Nat : \A q \in Seq(X) : Len(q) = n => q \in P}
<1>1. 0 \in T
  <2>1. \A q \in Seq(X) : Len(q) = 0 => q = <<>>
    OBVIOUS
  <2> QED BY <2>1
<1>2. ASSUME NEW n \in Nat, n \in T PROVE n + 1 \in T
  <2> SUFFICES ASSUME NEW q \in Seq(X), Len(q) = n + 1 PROVE q \in P
    OBVIOUS
  <2> DEFINE f == SubSeq(q, 1, n)
  <2>1. f \in Seq(X) /\ Len(f) = n /\ q[n + 1] \in X /\ \A i \in 1..n : f[i] = q[i]
    OBVIOUS
  <2>2. q = Append(f, q[n + 1])
    BY <2>1
  <2>3. f \in P
    BY <1>2, <2>1
  <2> HIDE DEF f
  <2> QED BY <2>1, <2>2, <2>3
<1> HIDE DEF T
<1>3. \A n \in Nat : n \in T
  BY <1>1, <1>2, Induction
<1> QED BY <1>3 DEF T

-----------------------------------------------------------------------------
(* The items of a sequence that are in a set. *)

\* The recursive function in Those, and what it says of itself.
ThoseStep(T, items, hs, n) ==
  IF n = 0 THEN <<>>
  ELSE IF items[n] \in hs THEN Append(T[n - 1], items[n]) ELSE T[n - 1]
Solves(T, items, hs) == T = [n \in 0..Len(items) |-> ThoseStep(T, items, hs, n)]
ThoseFcn(items, hs) == CHOOSE T : Solves(T, items, hs)
LEMMA ThoseIsFcn == ASSUME NEW items, NEW hs PROVE Those(items, hs) = ThoseFcn(items, hs)[Len(items)]
  BY DEF Those, ThoseFcn, Solves, ThoseStep

\* There is such a function.
LEMMA ThoseExists ==
  ASSUME NEW X, NEW hs, NEW q \in Seq(X)
  PROVE  Solves(ThoseFcn(q, hs), q, hs)
<1> DEFINE P == {r \in Seq(X) : \E f : Solves(f, r, hs)}
<1>1. <<>> \in P
  <2> DEFINE f == [n \in 0..0 |-> <<>>]
  <2>1. Solves(f, <<>>, hs)
    BY DEF Solves, ThoseStep
  <2> QED BY <2>1
<1>2. ASSUME NEW r \in Seq(X), NEW x \in X, r \in P PROVE Append(r, x) \in P
  <2>1. PICK f : Solves(f, r, hs)
    BY <1>2
  <2> DEFINE s == Append(r, x)
             k == Len(r)
             g == [n \in 0..(k + 1) |-> IF n <= k THEN f[n] ELSE ThoseStep(f, s, hs, n)]
  <2>2. k \in Nat /\ s \in Seq(X) /\ Len(s) = k + 1 /\ \A i \in 1..k : s[i] = r[i]
    OBVIOUS
  <2>3. ASSUME NEW n \in 0..(k + 1) PROVE g[n] = ThoseStep(g, s, hs, n)
    <3>1. CASE n = 0
      <4>1. g[n] = f[n] /\ f[n] = <<>>
        BY <2>1, <2>2, <3>1 DEF Solves, ThoseStep
      <4> QED BY <3>1, <4>1 DEF ThoseStep
    <3>2. CASE n # 0
      <4>1. n - 1 \in 0..(k + 1) /\ n - 1 <= k /\ n \in Nat
        BY <2>2, <3>2
      <4>2. g[n - 1] = f[n - 1]
        BY <4>1
      <4>3. ThoseStep(g, s, hs, n) = ThoseStep(f, s, hs, n)
        BY <3>2, <4>2 DEF ThoseStep
      <4>4. CASE n <= k
        <5>1. n \in 0..k /\ n \in 1..k
          BY <2>2, <3>2, <4>1, <4>4
        <5>2. f[n] = ThoseStep(f, r, hs, n)
          BY <2>1, <5>1 DEF Solves
        <5>3. ThoseStep(f, s, hs, n) = ThoseStep(f, r, hs, n)
          BY <2>2, <5>1 DEF ThoseStep
        <5>4. g[n] = f[n]
          BY <4>4
        <5> HIDE DEF g, s
        <5> QED BY <4>3, <5>2, <5>3, <5>4
      <4>5. CASE ~(n <= k)
        <5>1. g[n] = ThoseStep(f, s, hs, n)
          BY <4>5
        <5> HIDE DEF g, s
        <5> QED BY <4>3, <5>1
      <4> QED BY <4>4, <4>5
    <3> QED BY <3>1, <3>2
  <2>4. g = [n \in 0..(k + 1) |-> g[n]]
    OBVIOUS
  <2> HIDE DEF g
  <2>5. Solves(g, s, hs)
    BY <2>2, <2>3, <2>4 DEF Solves
  <2> HIDE DEF s
  <2> QED BY <2>2, <2>5 DEF s
<1> HIDE DEF P
<1>3. q \in P
  BY <1>1, <1>2, SeqInduction
<1> QED BY <1>3 DEF P, ThoseFcn

\* What Those makes of no items, and of one more.
LEMMA ThoseAppend ==
  ASSUME NEW X, NEW hs
  PROVE  /\ Those(<<>>, hs) = <<>>
         /\ \A q \in Seq(X), x \in X :
              Those(Append(q, x), hs) = IF x \in hs THEN Append(Those(q, hs), x) ELSE Those(q, hs)
<1>1. Those(<<>>, hs) = <<>>
  <2>1. <<>> \in Seq(X) /\ Len(<<>>) = 0 /\ 0 \in 0..0
    OBVIOUS
  <2>2. Solves(ThoseFcn(<<>>, hs), <<>>, hs)
    BY <2>1, ThoseExists
  <2>3. ThoseFcn(<<>>, hs)[0] = ThoseStep(ThoseFcn(<<>>, hs), <<>>, hs, 0)
    BY <2>1, <2>2 DEF Solves
  <2> QED BY <2>1, <2>3, ThoseIsFcn DEF ThoseStep
<1>2. ASSUME NEW q \in Seq(X), NEW x \in X
      PROVE  Those(Append(q, x), hs) = IF x \in hs THEN Append(Those(q, hs), x) ELSE Those(q, hs)
  <2> DEFINE s == Append(q, x)
             k == Len(q)
             f == ThoseFcn(q, hs)
             g == ThoseFcn(s, hs)
             T == {n \in Nat : n <= k => g[n] = f[n]}
  <2>1. k \in Nat /\ s \in Seq(X) /\ Len(s) = k + 1 /\ s[k + 1] = x /\ \A i \in 1..k : s[i] = q[i]
    OBVIOUS
  <2>2. \A n \in 0..k : f[n] = ThoseStep(f, q, hs, n)
    <3>1. Solves(f, q, hs)
      BY ThoseExists
    <3> HIDE DEF f
    <3> QED BY <3>1 DEF Solves
  <2>3. \A n \in 0..(k + 1) : g[n] = ThoseStep(g, s, hs, n)
    <3>1. Solves(g, s, hs)
      BY <2>1, ThoseExists
    <3> HIDE DEF g, s
    <3> QED BY <2>1, <3>1 DEF Solves
  <2> HIDE DEF f, g, s, k
  <2>4. 0 \in T
    BY <2>1, <2>2, <2>3 DEF ThoseStep
  <2>5. ASSUME NEW n \in Nat, n \in T PROVE n + 1 \in T
    <3> SUFFICES ASSUME n + 1 <= k PROVE g[n + 1] = f[n + 1]
      OBVIOUS
    <3>1. n + 1 \in 0..k /\ n + 1 \in 0..(k + 1) /\ n + 1 \in 1..k /\ n + 1 # 0 /\ (n + 1) - 1 = n /\ n <= k
      BY <2>1
    <3>2. g[n] = f[n] /\ s[n + 1] = q[n + 1]
      BY <2>1, <2>5, <3>1
    <3>3. f[n + 1] = ThoseStep(f, q, hs, n + 1) /\ g[n + 1] = ThoseStep(g, s, hs, n + 1)
      BY <2>2, <2>3, <3>1
    <3> QED BY <3>1, <3>2, <3>3 DEF ThoseStep
  <2> HIDE DEF T
  <2>6. k \in T
    BY <2>1, <2>4, <2>5, Induction
  <2>7. g[k] = f[k]
    BY <2>1, <2>6 DEF T
  <2>8. g[k + 1] = ThoseStep(g, s, hs, k + 1) /\ k + 1 # 0 /\ (k + 1) - 1 = k
    BY <2>1, <2>3
  <2>9. g[k + 1] = IF x \in hs THEN Append(f[k], x) ELSE f[k]
    BY <2>1, <2>7, <2>8 DEF ThoseStep
  <2>10. Those(q, hs) = f[k] /\ Those(s, hs) = g[k + 1]
    BY <2>1, ThoseIsFcn DEF f, g, k
  <2> QED BY <2>9, <2>10 DEF s
<1> QED BY <1>1, <1>2

\* They are items of the sequence, all in the set.
LEMMA ThoseType ==
  ASSUME NEW X, NEW hs
  PROVE  \A q \in Seq(X) : Those(q, hs) \in Seq(X \cap hs)
<1>0. /\ Those(<<>>, hs) = <<>>
      /\ \A q \in Seq(X), x \in X :
           Those(Append(q, x), hs) = IF x \in hs THEN Append(Those(q, hs), x) ELSE Those(q, hs)
  BY ThoseAppend
<1> DEFINE P == {q \in Seq(X) : Those(q, hs) \in Seq(X \cap hs)}
<1>1. <<>> \in P
  <2>1. <<>> \in Seq(X) /\ <<>> \in Seq(X \cap hs)
    OBVIOUS
  <2>2. Those(<<>>, hs) \in Seq(X \cap hs)
    BY <1>0, <2>1
  <2> QED BY <2>1, <2>2
<1>2. ASSUME NEW q \in Seq(X), NEW x \in X, q \in P PROVE Append(q, x) \in P
  <2>1. Those(Append(q, x), hs) = IF x \in hs THEN Append(Those(q, hs), x) ELSE Those(q, hs)
    BY <1>0
  <2>2. x \in hs => x \in X \cap hs
    OBVIOUS
  <2>3. Append(q, x) \in Seq(X) /\ Those(q, hs) \in Seq(X \cap hs)
    BY <1>2
  <2>4. Those(Append(q, x), hs) \in Seq(X \cap hs)
    BY <2>1, <2>2, <2>3
  <2> QED BY <2>3, <2>4
<1> HIDE DEF P
<1>3. \A q \in Seq(X) : q \in P
  BY <1>1, <1>2, SeqInduction
<1> QED BY <1>3 DEF P

\* One more item in front.
InFront(x, q) == <<x>> \o q
LEMMA ThoseFirst ==
  ASSUME NEW X, NEW hs
  PROVE  \A x \in X, q \in Seq(X) :
           Those(InFront(x, q), hs) = IF x \in hs THEN InFront(x, Those(q, hs)) ELSE Those(q, hs)
<1> TAKE x \in X
<1>0. /\ Those(<<>>, hs) = <<>>
      /\ \A q \in Seq(X), y \in X :
           Those(Append(q, y), hs) = IF y \in hs THEN Append(Those(q, hs), y) ELSE Those(q, hs)
      /\ \A q \in Seq(X) : Those(q, hs) \in Seq(X \cap hs)
  BY ThoseAppend, ThoseType
<1> DEFINE Q(q) == Those(InFront(x, q), hs) = IF x \in hs THEN InFront(x, Those(q, hs)) ELSE Those(q, hs)
           P == {q \in Seq(X) : Q(q)}
<1>1. Q(<<>>)
  <2>1. <<x>> \o <<>> = Append(<<>>, x) /\ <<>> \in Seq(X) /\ Append(<<>>, x) = <<x>>
    OBVIOUS
  <2>2. Those(Append(<<>>, x), hs) = IF x \in hs THEN Append(Those(<<>>, hs), x) ELSE Those(<<>>, hs)
    BY <1>0, <2>1
  <2> QED BY <1>0, <2>1, <2>2 DEF InFront
<1>2. ASSUME NEW q \in Seq(X), NEW y \in X, Q(q) PROVE Q(Append(q, y))
  <2>1. <<x>> \o Append(q, y) = Append(<<x>> \o q, y) /\ <<x>> \o q \in Seq(X)
    OBVIOUS
  <2>2. Those(Append(<<x>> \o q, y), hs)
          = IF y \in hs THEN Append(Those(<<x>> \o q, hs), y) ELSE Those(<<x>> \o q, hs)
    BY <1>0, <2>1
  <2>3. Those(Append(q, y), hs) = IF y \in hs THEN Append(Those(q, hs), y) ELSE Those(q, hs)
    BY <1>0
  <2> DEFINE u == Those(q, hs)
  <2>4. u \in Seq(X \cap hs)
    BY <1>0
  <2>5. Q(q)
    BY <1>2
  <2> HIDE DEF u
  <2>6. Append(<<x>> \o u, y) = <<x>> \o Append(u, y)
    BY <2>4
  <2> QED BY <2>1, <2>2, <2>3, <2>5, <2>6 DEF u, InFront
<1>3. <<>> \in P
  <2>1. <<>> \in Seq(X)
    OBVIOUS
  <2> HIDE DEF Q
  <2> QED BY <1>1, <2>1
<1>4. \A q \in Seq(X), y \in X : q \in P => Append(q, y) \in P
  <2> HIDE DEF Q
  <2> QED BY <1>2
<1> HIDE DEF P
<1>5. \A q \in Seq(X) : q \in P
  BY <1>3, <1>4, SeqInduction
<1> QED BY <1>5 DEF P

\* A sequence backwards.
LEMMA Backwards ==
  ASSUME NEW X
  PROVE  /\ Reverse(<<>>) = <<>>
         /\ \A q \in Seq(X) : Reverse(q) \in Seq(X) /\ Reverse(Reverse(q)) = q
         /\ \A q \in Seq(X), x \in X : Reverse(Append(q, x)) = InFront(x, Reverse(q))
<1>1. Reverse(<<>>) = <<>>
  BY DEF Reverse
<1>2. ASSUME NEW q \in Seq(X) PROVE Reverse(q) \in Seq(X) /\ Reverse(Reverse(q)) = q
  <2> DEFINE n == Len(q)
             r == Reverse(q)
  <2>1. n \in Nat /\ q = [i \in 1..n |-> q[i]] /\ \A i \in 1..n : q[i] \in X
    OBVIOUS
  <2>2. r = [i \in 1..n |-> q[(n - i) + 1]]
    BY DEF Reverse
  <2>3. \A i \in 1..n : (n - i) + 1 \in 1..n
    BY <2>1
  <2>4. r \in Seq(X) /\ Len(r) = n
    <3> DEFINE e(i) == q[(n - i) + 1]
    <3>1. \A i \in 1..n : e(i) \in X
      <4> HIDE DEF n, r
      <4> QED BY <2>1, <2>3
    <3>2. r = [i \in 1..n |-> e(i)]
      BY <2>2
    <3> HIDE DEF n, r, e
    <3>3. [i \in 1..n |-> e(i)] \in Seq(X) /\ Len([i \in 1..n |-> e(i)]) = n
      BY <2>1, <3>1
    <3> QED BY <3>2, <3>3
  <2>5. Reverse(r) = [i \in 1..n |-> r[(n - i) + 1]]
    <3> HIDE DEF r, n
    <3> QED BY <2>4 DEF Reverse
  <2>6. \A i \in 1..n : r[(n - i) + 1] = q[i]
    <3> SUFFICES ASSUME NEW i \in 1..n PROVE r[(n - i) + 1] = q[i]
      OBVIOUS
    <3>1. (n - i) + 1 \in 1..n /\ (n - ((n - i) + 1)) + 1 = i
      BY <2>1
    <3> HIDE DEF r, n
    <3> QED BY <2>2, <3>1
  <2>7. Reverse(r) = [i \in 1..n |-> q[i]]
    <3> HIDE DEF r, n
    <3> QED BY <2>5, <2>6
  <2> QED BY <2>1, <2>4, <2>7
<1>3. ASSUME NEW q \in Seq(X), NEW x \in X PROVE Reverse(Append(q, x)) = InFront(x, Reverse(q))
  <2> DEFINE n == Len(q)
             s == Append(q, x)
             r == Reverse(q)
  <2>1. n \in Nat /\ Len(s) = n + 1 /\ s[n + 1] = x /\ \A i \in 1..n : s[i] = q[i]
    OBVIOUS
  <2>2. r = [i \in 1..n |-> q[(n - i) + 1]] /\ r \in Seq(X)
    BY <1>2 DEF Reverse
  <2> HIDE DEF s, r, n
  <2>3. Reverse(s) = [i \in 1..(n + 1) |-> s[((n + 1) - i) + 1]]
    BY <2>1 DEF Reverse
  <2>4. Len(r) = n
    BY <2>1, <2>2
  <2>5. /\ Len(<<x>> \o r) = n + 1
        /\ <<x>> \o r = [i \in 1..(n + 1) |-> IF i = 1 THEN x ELSE r[i - 1]]
    BY <2>1, <2>2, <2>4
  <2>6. \A i \in 1..(n + 1) : s[((n + 1) - i) + 1] = IF i = 1 THEN x ELSE r[i - 1]
    <3> SUFFICES ASSUME NEW i \in 1..(n + 1) PROVE s[((n + 1) - i) + 1] = IF i = 1 THEN x ELSE r[i - 1]
      OBVIOUS
    <3>1. CASE i = 1
      <4>1. ((n + 1) - i) + 1 = n + 1
        BY <2>1, <3>1
      <4> QED BY <2>1, <3>1, <4>1
    <3>2. CASE i # 1
      <4>1. i - 1 \in 1..n /\ ((n + 1) - i) + 1 = (n - (i - 1)) + 1 /\ (n - (i - 1)) + 1 \in 1..n
        BY <2>1, <3>2
      <4>2. r[i - 1] = q[(n - (i - 1)) + 1]
        BY <2>2, <4>1
      <4> QED BY <2>1, <3>2, <4>1, <4>2
    <3> QED BY <3>1, <3>2
  <2> QED BY <2>3, <2>5, <2>6 DEF s, r, InFront
<1> QED BY <1>1, <1>2, <1>3

\* The items of a set, backwards.
LEMMA ThoseReversed ==
  ASSUME NEW X, NEW hs
  PROVE  \A q \in Seq(X) : Those(Reverse(q), hs) = Reverse(Those(q, hs))
<1>0. /\ Those(<<>>, hs) = <<>>
      /\ \A q \in Seq(X), y \in X :
           Those(Append(q, y), hs) = IF y \in hs THEN Append(Those(q, hs), y) ELSE Those(q, hs)
      /\ \A q \in Seq(X) : Those(q, hs) \in Seq(X \cap hs)
  BY ThoseAppend, ThoseType
<1>10. \A x \in X, q \in Seq(X) :
         Those(InFront(x, q), hs) = IF x \in hs THEN InFront(x, Those(q, hs)) ELSE Those(q, hs)
  BY ThoseFirst
<1> DEFINE Q(q) == Those(Reverse(q), hs) = Reverse(Those(q, hs))
           P == {q \in Seq(X) : Q(q)}
<1>1. Q(<<>>)
  BY <1>0, Backwards
<1>2. ASSUME NEW q \in Seq(X), NEW y \in X, Q(q) PROVE Q(Append(q, y))
  <2>1. Reverse(Append(q, y)) = InFront(y, Reverse(q)) /\ Reverse(q) \in Seq(X)
    BY Backwards
  <2>2. Those(InFront(y, Reverse(q)), hs)
          = IF y \in hs THEN InFront(y, Those(Reverse(q), hs)) ELSE Those(Reverse(q), hs)
    BY <2>1, <1>10
  <2>3. Those(Append(q, y), hs) = IF y \in hs THEN Append(Those(q, hs), y) ELSE Those(q, hs)
    BY <1>0
  <2>4. Those(q, hs) \in Seq(X \cap hs)
    BY <1>0
  <2>5. y \in hs => Reverse(Append(Those(q, hs), y)) = InFront(y, Reverse(Those(q, hs)))
    <3>1. y \in hs => y \in X \cap hs
      OBVIOUS
    <3> QED BY <2>4, <3>1, Backwards
  <2>6. Q(q)
    BY <1>2
  <2> QED BY <2>1, <2>2, <2>3, <2>5, <2>6
<1>3. <<>> \in P
  <2>1. <<>> \in Seq(X)
    OBVIOUS
  <2> HIDE DEF Q
  <2> QED BY <1>1, <2>1
<1>4. \A q \in Seq(X), y \in X : q \in P => Append(q, y) \in P
  <2> HIDE DEF Q
  <2> QED BY <1>2
<1> HIDE DEF P
<1>5. \A q \in Seq(X) : q \in P
  BY <1>3, <1>4, SeqInduction
<1> QED BY <1>5 DEF P

\* Taking the items of two sets, one after the other.
LEMMA ThoseTwice ==
  ASSUME NEW X, NEW A, NEW B
  PROVE  \A q \in Seq(X) : Those(Those(q, A), B) = Those(q, A \cap B)
<1>0. /\ Those(<<>>, A) = <<>> /\ Those(<<>>, B) = <<>> /\ Those(<<>>, A \cap B) = <<>>
      /\ \A q \in Seq(X) : Those(q, A) \in Seq(X)
  <2>1. \A q \in Seq(X) : Those(q, A) \in Seq(X \cap A)
    BY ThoseType
  <2>2. Seq(X \cap A) \subseteq Seq(X)
    OBVIOUS
  <2> QED BY <2>1, <2>2, ThoseAppend
<1>10. \A q \in Seq(X), x \in X :
         Those(Append(q, x), A) = IF x \in A THEN Append(Those(q, A), x) ELSE Those(q, A)
  BY ThoseAppend
<1>11. \A q \in Seq(X), x \in X :
         Those(Append(q, x), B) = IF x \in B THEN Append(Those(q, B), x) ELSE Those(q, B)
  BY ThoseAppend
<1>12. \A q \in Seq(X), x \in X :
         Those(Append(q, x), (A \cap B)) = IF x \in (A \cap B) THEN Append(Those(q, (A \cap B)), x) ELSE Those(q, (A \cap B))
  BY ThoseAppend
<1> DEFINE Q(q) == Those(Those(q, A), B) = Those(q, A \cap B)
           P == {q \in Seq(X) : Q(q)}
<1>1. Q(<<>>)
  BY <1>0
<1>2. ASSUME NEW q \in Seq(X), NEW y \in X, Q(q) PROVE Q(Append(q, y))
  <2>1. Those(Append(q, y), A) = IF y \in A THEN Append(Those(q, A), y) ELSE Those(q, A)
    BY <1>10
  <2>2. Those(Append(q, y), A \cap B) = IF y \in A \cap B THEN Append(Those(q, A \cap B), y) ELSE Those(q, A \cap B)
    BY <1>12
  <2>3. Those(Append(Those(q, A), y), B) = IF y \in B THEN Append(Those(Those(q, A), B), y) ELSE Those(Those(q, A), B)
    BY <1>0, <1>11
  <2>4. Q(q)
    BY <1>2
  <2>5. CASE y \in A
    <3>1. Those(Those(Append(q, y), A), B) = IF y \in B THEN Append(Those(Those(q, A), B), y) ELSE Those(Those(q, A), B)
      BY <2>1, <2>3, <2>5
    <3>2. y \in A \cap B <=> y \in B
      BY <2>5
    <3> QED BY <2>2, <2>4, <3>1, <3>2
  <2>6. CASE y \notin A
    BY <2>1, <2>2, <2>4, <2>6
  <2> QED BY <2>5, <2>6
<1>3. <<>> \in P
  <2>1. <<>> \in Seq(X)
    OBVIOUS
  <2> HIDE DEF Q
  <2> QED BY <1>1, <2>1
<1>4. \A q \in Seq(X), y \in X : q \in P => Append(q, y) \in P
  <2> HIDE DEF Q
  <2> QED BY <1>2
<1> HIDE DEF P
<1>5. \A q \in Seq(X) : q \in P
  BY <1>3, <1>4, SeqInduction
<1> QED BY <1>5 DEF P

\* Two sets that have the same items of a sequence take the same of it.
LEMMA ThoseSame ==
  ASSUME NEW X, NEW A, NEW B
  PROVE  \A q \in Seq(X) : (\A i \in 1..Len(q) : q[i] \in A <=> q[i] \in B) => Those(q, A) = Those(q, B)
<1>10. \A q \in Seq(X), x \in X :
         Those(Append(q, x), A) = IF x \in A THEN Append(Those(q, A), x) ELSE Those(q, A)
  BY ThoseAppend
<1>11. \A q \in Seq(X), x \in X :
         Those(Append(q, x), B) = IF x \in B THEN Append(Those(q, B), x) ELSE Those(q, B)
  BY ThoseAppend
<1> DEFINE Q(q) == (\A i \in 1..Len(q) : q[i] \in A <=> q[i] \in B) => Those(q, A) = Those(q, B)
           P == {q \in Seq(X) : Q(q)}
<1>1. Q(<<>>)
  BY ThoseAppend
<1>2. ASSUME NEW q \in Seq(X), NEW y \in X, Q(q) PROVE Q(Append(q, y))
  <2> SUFFICES ASSUME \A i \in 1..Len(Append(q, y)) : Append(q, y)[i] \in A <=> Append(q, y)[i] \in B
               PROVE  Those(Append(q, y), A) = Those(Append(q, y), B)
    OBVIOUS
  <2>1. /\ Len(Append(q, y)) = Len(q) + 1 /\ Append(q, y)[Len(q) + 1] = y /\ Len(q) \in Nat
        /\ \A i \in 1..Len(q) : Append(q, y)[i] = q[i] /\ i \in 1..(Len(q) + 1)
    OBVIOUS
  <2>2. y \in A <=> y \in B
    <3>1. Len(q) + 1 \in 1..Len(Append(q, y))
      BY <2>1
    <3> QED BY <2>1, <3>1
  <2>3. \A i \in 1..Len(q) : q[i] \in A <=> q[i] \in B
    BY <2>1
  <2>4. Those(q, A) = Those(q, B)
    BY <1>2, <2>3
  <2>5. Those(Append(q, y), A) = IF y \in A THEN Append(Those(q, A), y) ELSE Those(q, A)
    BY <1>10
  <2>6. Those(Append(q, y), B) = IF y \in B THEN Append(Those(q, B), y) ELSE Those(q, B)
    BY <1>11
  <2> QED BY <2>2, <2>4, <2>5, <2>6
<1>3. <<>> \in P
  <2>1. <<>> \in Seq(X)
    OBVIOUS
  <2> HIDE DEF Q
  <2> QED BY <1>1, <2>1
<1>4. \A q \in Seq(X), y \in X : q \in P => Append(q, y) \in P
  <2> HIDE DEF Q
  <2> QED BY <1>2
<1> HIDE DEF P
<1>5. \A q \in Seq(X) : q \in P
  BY <1>3, <1>4, SeqInduction
<1> QED BY <1>5 DEF P

-----------------------------------------------------------------------------
(* The list of notifications of one stream. *)

Item == Handler \cup {NoHandler}

\* No function is listed twice, once it is disabled it does not count.
Distinct(q) == \A i, j \in 1..Len(q) : q[i] = q[j] /\ q[i] # NoHandler => i = j

\* The items after the one at i.
After(q, i) == SubSeq(q, 1 + i, Len(q))

\* Two sequences with the same items are equal.
LEMMA SameItems ==
  ASSUME NEW X, NEW q \in Seq(X), NEW r \in Seq(X), NEW n, Len(q) = n, Len(r) = n, \A j \in 1..n : q[j] = r[j]
  PROVE  q = r
  OBVIOUS

\* They are items of the list.
LEMMA AfterIs ==
  ASSUME NEW X, NEW q \in Seq(X), NEW i \in 1..Len(q)
  PROVE  /\ After(q, i) \in Seq(X) /\ Len(After(q, i)) = Len(q) - i
         /\ \A j \in 1..(Len(q) - i) : After(q, i)[j] = q[i + j] /\ i + j \in 1..Len(q)
<1>1. Len(q) \in Nat /\ \A j \in 1..(Len(q) - i) : i + j \in 1..Len(q)
  OBVIOUS
<1> QED BY <1>1 DEF After

\* Disabling a function takes it out of those that are still to be called.
LEMMA DisabledThose ==
  ASSUME NEW h \in Handler
  PROVE  \A q \in Seq(Item) : /\ Disabled(q, h) \in Seq(Item) /\ Len(Disabled(q, h)) = Len(q)
                              /\ Those(Disabled(q, h), Handler) = Those(q, Handler \ {h})
<1>1. \A q \in Seq(Item) : /\ Disabled(q, h) \in Seq(Item) /\ Len(Disabled(q, h)) = Len(q)
                           /\ \A i \in 1..Len(q) : Disabled(q, h)[i] = IF q[i] = h THEN NoHandler ELSE q[i]
  <2> TAKE q \in Seq(Item)
  <2>1. DOMAIN q = 1..Len(q) /\ Len(q) \in Nat /\ NoHandler \in Item /\ \A i \in 1..Len(q) : q[i] \in Item
    BY DEF Item
  <2> DEFINE e(i) == IF q[i] = h THEN NoHandler ELSE q[i]
             n == Len(q)
  <2>2. Disabled(q, h) = [i \in 1..n |-> e(i)]
    BY <2>1 DEF Disabled
  <2>3. \A i \in 1..n : e(i) \in Item
    BY <2>1
  <2>4. n \in Nat
    BY <2>1
  <2> HIDE DEF e, n
  <2>5. [i \in 1..n |-> e(i)] \in Seq(Item) /\ Len([i \in 1..n |-> e(i)]) = n
    BY <2>3, <2>4
  <2>6. \A i \in 1..n : [j \in 1..n |-> e(j)][i] = e(i)
    OBVIOUS
  <2> QED BY <2>2, <2>5, <2>6 DEF e, n
<1>2. \A q \in Seq(Item), x \in Item :
        Those(Append(q, x), Handler) = IF x \in Handler THEN Append(Those(q, Handler), x) ELSE Those(q, Handler)
  BY ThoseAppend, ZenonT(60)
<1>3. \A q \in Seq(Item), x \in Item :
        Those(Append(q, x), Handler \ {h})
          = IF x \in Handler \ {h} THEN Append(Those(q, Handler \ {h}), x) ELSE Those(q, Handler \ {h})
  BY ThoseAppend, ZenonT(60)
<1> DEFINE Q(q) == Those(Disabled(q, h), Handler) = Those(q, Handler \ {h})
           P == {q \in Seq(Item) : Q(q)}
<1>4. Q(<<>>)
  <2>1. <<>> \in Seq(Item)
    OBVIOUS
  <2>2. Disabled(<<>>, h) = <<>>
    <3>1. \A q \in Seq(Item) : Len(q) = 0 => q = <<>>
      OBVIOUS
    <3>2. Disabled(<<>>, h) \in Seq(Item) /\ Len(Disabled(<<>>, h)) = Len(<<>>)
      BY <1>1, <2>1
    <3> QED BY <3>1, <3>2
  <2> QED BY <2>2, ThoseAppend
<1>5. ASSUME NEW q \in Seq(Item), NEW y \in Item, Q(q) PROVE Q(Append(q, y))
  <2> DEFINE z == IF y = h THEN NoHandler ELSE y
             d == Disabled(q, h)
             s == Append(q, y)
  <2>1. z \in Item /\ (z \in Handler <=> y \in Handler \ {h}) /\ (y \in Handler \ {h} => z = y)
    BY OpenAssumption DEF OpenAssumption, Item
  <2>2. d \in Seq(Item) /\ Len(d) = Len(q) /\ \A i \in 1..Len(q) : d[i] = IF q[i] = h THEN NoHandler ELSE q[i]
    BY <1>1
  <2>3. s \in Seq(Item) /\ Len(s) = Len(q) + 1 /\ s[Len(q) + 1] = y /\ Len(q) \in Nat /\ \A i \in 1..Len(q) : s[i] = q[i]
    OBVIOUS
  <2> HIDE DEF s
  <2>4. /\ Disabled(s, h) \in Seq(Item) /\ Len(Disabled(s, h)) = Len(q) + 1
        /\ \A i \in 1..(Len(q) + 1) : Disabled(s, h)[i] = IF s[i] = h THEN NoHandler ELSE s[i]
    BY <1>1, <2>3
  <2>5. Disabled(s, h)[Len(q) + 1] = z /\ \A i \in 1..Len(q) : Disabled(s, h)[i] = d[i]
    BY <2>2, <2>3, <2>4
  <2> HIDE DEF d, z
  <2>6. Append(d, z) \in Seq(Item) /\ Len(Append(d, z)) = Len(q) + 1
        /\ Append(d, z)[Len(q) + 1] = z /\ \A i \in 1..Len(q) : Append(d, z)[i] = d[i]
    BY <2>1, <2>2
  <2>7. Disabled(s, h) = Append(d, z)
    BY <2>3, <2>4, <2>5, <2>6
  <2>8. Those(Append(d, z), Handler) = IF z \in Handler THEN Append(Those(d, Handler), z) ELSE Those(d, Handler)
    BY <1>2, <2>1, <2>2
  <2>9. Those(s, Handler \ {h}) = IF y \in Handler \ {h} THEN Append(Those(q, Handler \ {h}), y) ELSE Those(q, Handler \ {h})
    BY <1>3 DEF s
  <2>10. Those(d, Handler) = Those(q, Handler \ {h})
    BY <1>5 DEF d
  <2> QED BY <2>1, <2>7, <2>8, <2>9, <2>10 DEF s
<1>6. <<>> \in P
  <2>1. <<>> \in Seq(Item)
    OBVIOUS
  <2> HIDE DEF Q
  <2> QED BY <1>4, <2>1
<1>7. \A q \in Seq(Item), y \in Item : q \in P => Append(q, y) \in P
  <2> HIDE DEF Q
  <2> QED BY <1>5
<1> HIDE DEF P
<1>8. \A q \in Seq(Item) : q \in P
  BY <1>6, <1>7, SeqInduction
<1> QED BY <1>1, <1>8 DEF P

\* What is still to be called is what was asked for, the last first.
InOrder(q, a) == Handlers(q) = Reverse(a)

\* A function that was not listed is registered in front.
LEMMA PushedKeeps ==
  ASSUME NEW q \in Seq(Item), NEW a \in Seq(Handler), NEW h \in Handler, h \notin Range(q), Distinct(q)
  PROVE  /\ Pushed(q, h) \in Seq(Item) /\ Distinct(Pushed(q, h))
         /\ InOrder(q, a) => InOrder(Pushed(q, h), Append(a, h))
         /\ \A i \in 1..Len(q) : /\ i + 1 \in 1..Len(Pushed(q, h)) /\ Pushed(q, h)[i + 1] = q[i]
                                 /\ After(Pushed(q, h), i + 1) = After(q, i)
<1> DEFINE p == InFront(h, q)
<1>1. h \in Item /\ Len(q) \in Nat /\ \A i \in 1..Len(q) : q[i] \in Item /\ q[i] # h
  BY DEF Item, Range
<1>2. /\ p \in Seq(Item) /\ Len(p) = Len(q) + 1 /\ p[1] = h
      /\ \A i \in 2..(Len(q) + 1) : p[i] = q[i - 1] /\ i - 1 \in 1..Len(q)
      /\ \A i \in 1..Len(q) : p[i + 1] = q[i] /\ i + 1 \in 1..Len(p)
  BY <1>1 DEF InFront
<1>3. p = Pushed(q, h)
  BY DEF Pushed, InFront
<1> HIDE DEF p
<1>4. Distinct(p)
  <2> SUFFICES ASSUME NEW i \in 1..Len(p), NEW j \in 1..Len(p), p[i] = p[j], p[i] # NoHandler PROVE i = j
    BY DEF Distinct
  <2>1. CASE i = 1 /\ j # 1
    <3>1. j \in 2..(Len(q) + 1)
      BY <1>1, <1>2, <2>1
    <3> QED BY <1>1, <1>2, <2>1, <3>1
  <2>2. CASE i # 1 /\ j = 1
    <3>1. i \in 2..(Len(q) + 1)
      BY <1>1, <1>2, <2>2
    <3> QED BY <1>1, <1>2, <2>2, <3>1
  <2>3. CASE i # 1 /\ j # 1
    <3>1. i \in 2..(Len(q) + 1) /\ j \in 2..(Len(q) + 1)
      BY <1>1, <1>2, <2>3
    <3>2. q[i - 1] = q[j - 1] /\ q[i - 1] # NoHandler /\ i - 1 \in 1..Len(q) /\ j - 1 \in 1..Len(q)
      BY <1>2, <3>1
    <3>3. i - 1 = j - 1
      BY <3>2 DEF Distinct
    <3> QED BY <1>1, <3>1, <3>3
  <2> QED BY <2>1, <2>2, <2>3
<1>5. ASSUME InOrder(q, a) PROVE InOrder(p, Append(a, h))
  <2>1. \A x \in Item, r \in Seq(Item) :
          Those(InFront(x, r), Handler) = IF x \in Handler THEN InFront(x, Those(r, Handler)) ELSE Those(r, Handler)
    BY ThoseFirst
  <2>2. Those(p, Handler) = InFront(h, Those(q, Handler))
    BY <1>1, <2>1 DEF p
  <2>3. Reverse(Append(a, h)) = InFront(h, Reverse(a))
    BY Backwards
  <2> QED BY <1>5, <2>2, <2>3 DEF InOrder, Handlers
<1>6. ASSUME NEW i \in 1..Len(q) PROVE After(p, i + 1) = After(q, i)
  <2>1. /\ After(p, i + 1) \in Seq(Item) /\ Len(After(p, i + 1)) = Len(p) - (i + 1)
        /\ \A j \in 1..(Len(p) - (i + 1)) : After(p, i + 1)[j] = p[(i + 1) + j] /\ (i + 1) + j \in 1..Len(p)
    BY <1>2, AfterIs
  <2>2. /\ After(q, i) \in Seq(Item) /\ Len(After(q, i)) = Len(q) - i
        /\ \A j \in 1..(Len(q) - i) : After(q, i)[j] = q[i + j] /\ i + j \in 1..Len(q)
    BY AfterIs
  <2>3. Len(p) - (i + 1) = Len(q) - i
    BY <1>1, <1>2
  <2>4. \A j \in 1..(Len(q) - i) : p[(i + 1) + j] = q[i + j]
    <3> TAKE j \in 1..(Len(q) - i)
    <3>1. (i + 1) + j = (i + j) + 1 /\ i + j \in 1..Len(q)
      BY <1>1
    <3> QED BY <1>2, <3>1
  <2> DEFINE u == After(p, i + 1)
             v == After(q, i)
             n == Len(q) - i
  <2>5. u \in Seq(Item) /\ v \in Seq(Item) /\ Len(u) = n /\ Len(v) = n /\ \A j \in 1..n : u[j] = v[j]
    BY <2>1, <2>2, <2>3, <2>4
  <2> HIDE DEF u, v, n
  <2>6. u = v
    BY <2>5, SameItems
  <2> QED BY <2>6 DEF u, v
<1> QED BY <1>2, <1>3, <1>4, <1>5, <1>6

\* A function is disabled, and asked for no more.
LEMMA DisabledKeeps ==
  ASSUME NEW q \in Seq(Item), NEW a \in Seq(Handler), NEW h \in Handler, Distinct(q)
  PROVE  /\ Disabled(q, h) \in Seq(Item) /\ Without(a, h) \in Seq(Handler)
         /\ Distinct(Disabled(q, h))
         /\ InOrder(q, a) => InOrder(Disabled(q, h), Without(a, h))
         /\ \A i \in 1..Len(q) : /\ i \in 1..Len(Disabled(q, h))
                                 /\ q[i] # h => Disabled(q, h)[i] = q[i]
                                 /\ After(Disabled(q, h), i) = Disabled(After(q, i), h)
<1> DEFINE d == Disabled(q, h)
<1>1. \A r \in Seq(Item) : \A i \in 1..Len(r) : Disabled(r, h)[i] = IF r[i] = h THEN NoHandler ELSE r[i]
  <2> TAKE r \in Seq(Item)
  <2>1. DOMAIN r = 1..Len(r)
    OBVIOUS
  <2> QED BY <2>1 DEF Disabled
<1>2. d \in Seq(Item) /\ Len(d) = Len(q) /\ Those(d, Handler) = Those(q, Handler \ {h})
  BY DisabledThose
<1>3. Without(a, h) \in Seq(Handler)
  <2>1. Those(a, Handler \ {h}) \in Seq(Handler \cap (Handler \ {h}))
    BY ThoseType
  <2>2. Seq(Handler \cap (Handler \ {h})) \subseteq Seq(Handler)
    OBVIOUS
  <2> QED BY <2>1, <2>2 DEF Without
<1>4. Distinct(d)
  <2> SUFFICES ASSUME NEW i \in 1..Len(q), NEW j \in 1..Len(q), d[i] = d[j], d[i] # NoHandler PROVE i = j
    BY <1>2 DEF Distinct
  <2>1. d[i] = q[i] /\ d[j] = q[j]
    BY <1>1
  <2> QED BY <2>1 DEF Distinct
<1>5. ASSUME InOrder(q, a) PROVE InOrder(d, Without(a, h))
  <2> DEFINE hs == Handler \ {h}
  <2>1. Those(q, Handler) = Reverse(a) /\ Handler \cap hs = hs
    BY <1>5 DEF InOrder, Handlers
  <2>2. Those(Reverse(a), hs) = Reverse(Those(a, hs))
    BY ThoseReversed
  <2>3. \A r \in Seq(Item) : Those(Those(r, Handler), hs) = Those(r, Handler \cap hs)
    BY ThoseTwice
  <2>4. Those(Those(q, Handler), hs) = Those(q, hs)
    BY <2>1, <2>3
  <2>5. Those(d, Handler) = Reverse(Those(a, hs))
    BY <1>2, <2>1, <2>2, <2>4
  <2> QED BY <2>5 DEF InOrder, Handlers, Without
<1>6. ASSUME NEW i \in 1..Len(q)
      PROVE  /\ i \in 1..Len(d) /\ (q[i] # h => d[i] = q[i])
             /\ After(d, i) = Disabled(After(q, i), h)
  <2>1. /\ After(d, i) \in Seq(Item) /\ Len(After(d, i)) = Len(d) - i
        /\ \A j \in 1..(Len(d) - i) : After(d, i)[j] = d[i + j] /\ i + j \in 1..Len(d)
    BY <1>2, AfterIs
  <2> DEFINE u == After(q, i)
  <2>2. /\ u \in Seq(Item) /\ Len(u) = Len(q) - i
        /\ \A j \in 1..(Len(q) - i) : u[j] = q[i + j] /\ i + j \in 1..Len(q)
    BY AfterIs
  <2> HIDE DEF u
  <2>3. Disabled(u, h) \in Seq(Item) /\ Len(Disabled(u, h)) = Len(u)
    BY <2>2, DisabledThose
  <2>4. \A j \in 1..(Len(q) - i) : Disabled(u, h)[j] = d[i + j]
    BY <1>1, <2>2
  <2> DEFINE v == After(d, i)
             w == Disabled(u, h)
             n == Len(q) - i
  <2>5. v \in Seq(Item) /\ w \in Seq(Item) /\ Len(v) = n /\ Len(w) = n /\ \A j \in 1..n : v[j] = w[j]
    BY <1>2, <2>1, <2>2, <2>3, <2>4
  <2> HIDE DEF v, w, n
  <2>6. v = w
    BY <2>5, SameItems
  <2> QED BY <1>1, <1>2, <2>6 DEF u, v, w
<1> QED BY <1>2, <1>3, <1>4, <1>5, <1>6

\* The first item is taken: if it is disabled it is forgotten, else it is called, and is
\* then not one that is still to be called.
LEMMA TakenKeeps ==
  ASSUME NEW q \in Seq(Item), q # <<>>, NEW a \in Seq(Handler), Distinct(q), InOrder(q, a)
  PROVE  /\ Head(q) \in Item /\ 1 \in 1..Len(q) /\ q[1] = Head(q)
         /\ Tail(q) \in Seq(Item) /\ Distinct(Tail(q)) /\ After(q, 1) = Tail(q)
         /\ Head(q) = NoHandler => InOrder(Tail(q), a)
         /\ Head(q) # NoHandler => InOrder(Tail(q), Without(a, Head(q))) /\ Without(a, Head(q)) \in Seq(Handler)
<1> DEFINE h == Head(q)
           t == Tail(q)
<1>1. /\ Len(q) \in Nat \ {0} /\ h \in Item /\ 1 \in 1..Len(q) /\ q[1] = h
      /\ t \in Seq(Item) /\ Len(t) = Len(q) - 1
      /\ \A i \in 1..Len(t) : t[i] = q[i + 1] /\ i + 1 \in 1..Len(q)
  OBVIOUS
<1>2. q = InFront(h, t)
  BY DEF InFront
<1>3. After(q, 1) = t
  BY DEF After
<1> HIDE DEF h, t
<1>4. Distinct(t)
  <2> SUFFICES ASSUME NEW i \in 1..Len(t), NEW j \in 1..Len(t), t[i] = t[j], t[i] # NoHandler PROVE i = j
    BY DEF Distinct
  <2>1. i + 1 = j + 1
    BY <1>1 DEF Distinct
  <2> QED BY <1>1, <2>1
<1>5. \A x \in Item, r \in Seq(Item) :
        Those(InFront(x, r), Handler) = IF x \in Handler THEN InFront(x, Those(r, Handler)) ELSE Those(r, Handler)
  BY ThoseFirst
<1>6. Those(q, Handler) = IF h \in Handler THEN InFront(h, Those(t, Handler)) ELSE Those(t, Handler)
  BY <1>1, <1>2, <1>5
<1>7. ASSUME h = NoHandler PROVE InOrder(t, a)
  BY <1>6, <1>7, OpenAssumption DEF InOrder, Handlers, OpenAssumption
<1>8. ASSUME h # NoHandler PROVE InOrder(t, Without(a, h)) /\ Without(a, h) \in Seq(Handler)
  <2> DEFINE hs == Handler \ {h}
  <2>1. h \in Handler /\ Handler \cap hs = hs
    BY <1>1, <1>8 DEF Item
  <2>2. InFront(h, Those(t, Handler)) = Reverse(a)
    BY <1>6, <2>1 DEF InOrder, Handlers
  <2>3. Those(Reverse(a), hs) = Reverse(Those(a, hs))
    BY ThoseReversed
  <2>4. Those(t, Handler) \in Seq(Handler)
    <3>1. Those(t, Handler) \in Seq(Item \cap Handler)
      BY <1>1, ThoseType
    <3>2. Seq(Item \cap Handler) \subseteq Seq(Handler)
      OBVIOUS
    <3> QED BY <3>1, <3>2
  <2>5. \A x \in Handler, r \in Seq(Handler) :
          Those(InFront(x, r), hs) = IF x \in hs THEN InFront(x, Those(r, hs)) ELSE Those(r, hs)
    BY ThoseFirst, ZenonT(60)
  <2>6. Those(InFront(h, Those(t, Handler)), hs) = Those(Those(t, Handler), hs)
    BY <2>1, <2>4, <2>5
  <2>7. \A r \in Seq(Item) : Those(Those(r, Handler), hs) = Those(r, Handler \cap hs)
    BY ThoseTwice
  <2>8. Those(Those(t, Handler), hs) = Those(t, hs)
    BY <1>1, <2>1, <2>7
  <2>9. Those(t, hs) = Those(t, Handler)
    <3>1. \A r \in Seq(Item) : (\A i \in 1..Len(r) : r[i] \in hs <=> r[i] \in Handler) => Those(r, hs) = Those(r, Handler)
      BY ThoseSame
    <3>2. \A i \in 1..Len(t) : t[i] # h
      <4> SUFFICES ASSUME NEW i \in 1..Len(t), t[i] = h PROVE FALSE
        OBVIOUS
      <4>1. i + 1 = 1
        BY <1>1, <1>8 DEF Distinct
      <4> QED BY <4>1
    <3>3. \A i \in 1..Len(t) : t[i] \in hs <=> t[i] \in Handler
      BY <3>2
    <3> QED BY <1>1, <3>1, <3>3
  <2>10. Those(t, Handler) = Reverse(Those(a, hs))
    BY <2>2, <2>3, <2>6, <2>8, <2>9
  <2>11. Those(a, hs) \in Seq(Handler)
    <3>1. Those(a, hs) \in Seq(Handler \cap hs)
      BY ThoseType
    <3>2. Seq(Handler \cap hs) \subseteq Seq(Handler)
      OBVIOUS
    <3> QED BY <3>1, <3>2
  <2> QED BY <2>10, <2>11 DEF InOrder, Handlers, Without
<1> QED BY <1>1, <1>3, <1>4, <1>7, <1>8 DEF h, t

-----------------------------------------------------------------------------
(* The notifications of all streams. *)

\* What a stream has still to call is what it was asked for, the last first; while a
\* function runs, which is only in a close, its item is listed, and counts no more.
NotifyKept(r) ==
  /\ r.onclose \in Seq(Item) /\ r.running \in Item /\ r.asked \in Seq(Handler)
  /\ Distinct(r.onclose)
  /\ r.running = NoHandler => InOrder(r.onclose, r.asked)
  /\ r.running # NoHandler =>
       /\ r.life = "closing"
       /\ \E i \in 1..Len(r.onclose) :
            r.onclose[i] = r.running /\ InOrder(After(r.onclose, i), r.asked)

\* The notifications are not touched.
LEMMA NotifySame ==
  ASSUME NEW r, NEW q, NotifyKept(r), q.onclose = r.onclose, q.running = r.running, q.asked = r.asked,
         r.life = "closing" => q.life = "closing"
  PROVE  NotifyKept(q)
  BY DEF NotifyKept

\* There are none.
LEMMA NoneNotified ==
  ASSUME NEW r, r.onclose = <<>>, r.running = NoHandler, r.asked = <<>>
  PROVE  NotifyKept(r)
<1>1. <<>> \in Seq(Item) /\ <<>> \in Seq(Handler) /\ NoHandler \in Item /\ Distinct(<<>>)
  BY DEF Distinct, Item
<1>2. InOrder(<<>>, <<>>)
  <2>1. Those(<<>>, Handler) = <<>>
    BY ThoseAppend
  <2> QED BY <2>1, Backwards DEF InOrder, Handlers
<1> QED BY <1>1, <1>2 DEF NotifyKept

\* A step that changes one stream.
NotifyStep(s) ==
  /\ \A t \in Stream : t # s => lib'.str[t] = lib.str[t]
  /\ ~lib'.dead => NotifyKept(lib'.str[s])

\* Closing, registering and unregistering at any time, and each notification (do_close,
\* gpgrt_onclose).
LEMMA NotifyActs ==
  ASSUME Shape(lib), NEW s \in Stream, NotifyKept(lib.str[s]),
         \/ Close(s) \/ NotifyStart(s) \/ NotifyEnd(s)
         \/ \E h \in Handler : Onclose(s, h) \/ Unregister(s, h)
  PROVE  NotifyStep(s)
<1>0. /\ DOMAIN lib = {"fd", "str", "dead"} /\ DOMAIN lib.str = Stream /\ DOMAIN lib.str[s] = Fields
      /\ {"life", "onclose", "running", "asked"} \subseteq Fields
  BY DEF Shape, StreamShape, Fields
<1> DEFINE q == lib.str[s].onclose
           a == lib.str[s].asked
<1>9. /\ q \in Seq(Item) /\ lib.str[s].running \in Item /\ a \in Seq(Handler) /\ Distinct(q)
      /\ ~Running(s) => InOrder(q, a)
      /\ Running(s) => /\ lib.str[s].life = "closing"
                       /\ \E i \in 1..Len(q) : q[i] = lib.str[s].running /\ InOrder(After(q, i), a)
  BY DEF NotifyKept, Running
<1>2. ASSUME NEW f \in Fields, NEW g \in Fields, NEW v, NEW w, lib' = SetField(SetField(lib, s, f, v), s, g, w)
      PROVE  /\ \A t \in Stream : t # s => lib'.str[t] = lib.str[t]
             /\ lib'.str[s][g] = w /\ (f # g => lib'.str[s][f] = v)
             /\ \A h \in Fields : h \notin {f, g} => lib'.str[s][h] = lib.str[s][h]
  BY <1>0, <1>2, TwoFieldsAre
<1> HIDE DEF q, a
<1>1. CASE Close(s)
  <2>1. lib' = [lib EXCEPT !.str[s].life = "closing"]
    BY <1>1 DEF Close
  <2>2. /\ \A t \in Stream : t # s => lib'.str[t] = lib.str[t]
        /\ lib'.str[s].life = "closing" /\ lib'.str[s].onclose = lib.str[s].onclose
        /\ lib'.str[s].running = lib.str[s].running /\ lib'.str[s].asked = lib.str[s].asked
    BY <1>0, <2>1
  <2> QED BY <2>2, NotifySame DEF NotifyStep
<1>3. CASE NotifyStart(s)
  <2> DEFINE h == Head(q)
             w == Without(a, h)
             t == Tail(q)
  <2>1. /\ ~Running(s) /\ q # <<>> /\ lib.str[s].life = "closing"
        /\ lib' = IF h = NoHandler THEN [lib EXCEPT !.str[s].onclose = t]
                  ELSE [lib EXCEPT !.str[s].running = h, !.str[s].asked = w]
    BY <1>0, <1>3 DEF NotifyStart, q, a
  <2>2. /\ h \in Item /\ 1 \in 1..Len(q) /\ q[1] = h
        /\ t \in Seq(Item) /\ Distinct(t) /\ After(q, 1) = t
        /\ h = NoHandler => InOrder(t, a)
        /\ h # NoHandler => InOrder(t, w) /\ w \in Seq(Handler)
    BY <1>9, <2>1, TakenKeeps
  <2> HIDE DEF h, w, t
  <2>3. CASE h = NoHandler
    <3>1. lib' = SetField(SetField(lib, s, "onclose", t), s, "onclose", t)
      BY <1>0, <2>1, <2>3 DEF SetField
    <3>2. /\ \A u \in Stream : u # s => lib'.str[u] = lib.str[u]
          /\ lib'.str[s]["onclose"] = t
          /\ \A g \in Fields : g \notin {"onclose", "onclose"} => lib'.str[s][g] = lib.str[s][g]
      BY <1>0, <1>2, <3>1
    <3>3. lib'.str[s].onclose = t /\ lib'.str[s].running = NoHandler /\ lib'.str[s].asked = a
      BY <1>0, <2>1, <3>2 DEF Running, a
    <3>4. NotifyKept(lib'.str[s])
      BY <1>9, <2>2, <2>3, <3>3 DEF NotifyKept
    <3> QED BY <3>2, <3>4 DEF NotifyStep
  <2>4. CASE h # NoHandler
    <3>1. lib' = SetField(SetField(lib, s, "running", h), s, "asked", w)
      BY <1>0, <2>1, <2>4 DEF SetField
    <3>2. /\ \A u \in Stream : u # s => lib'.str[u] = lib.str[u]
          /\ lib'.str[s]["asked"] = w /\ lib'.str[s]["running"] = h
          /\ \A g \in Fields : g \notin {"running", "asked"} => lib'.str[s][g] = lib.str[s][g]
      BY <1>0, <1>2, <3>1
    <3>3. /\ lib'.str[s].onclose = q /\ lib'.str[s].running = h /\ lib'.str[s].asked = w
          /\ lib'.str[s].life = "closing"
      BY <1>0, <2>1, <3>2 DEF q
    <3>4. NotifyKept(lib'.str[s])
      BY <1>9, <2>2, <2>4, <3>3 DEF NotifyKept
    <3> QED BY <3>2, <3>4 DEF NotifyStep
  <2> QED BY <2>3, <2>4
<1>4. CASE NotifyEnd(s)
  <2> DEFINE c == CHOOSE i \in DOMAIN q : q[i] = lib.str[s].running
             v == After(q, c)
  <2>1. Running(s) /\ lib' = [lib EXCEPT !.str[s].running = NoHandler, !.str[s].onclose = v]
    BY <1>4 DEF NotifyEnd, AfterRunning, After, q
  <2>2. PICK i \in 1..Len(q) : q[i] = lib.str[s].running /\ InOrder(After(q, i), a)
    BY <1>9, <2>1
  <2>3. DOMAIN q = 1..Len(q)
    BY <1>9
  <2>4. c \in 1..Len(q) /\ q[c] = lib.str[s].running
    BY <2>2, <2>3
  <2>5. c = i
    BY <1>9, <2>1, <2>2, <2>4 DEF Distinct, Running
  <2> HIDE DEF c
  <2>6. /\ v \in Seq(Item) /\ Len(v) = Len(q) - c
        /\ \A j \in 1..(Len(q) - c) : v[j] = q[c + j] /\ c + j \in 1..Len(q)
    BY <1>9, <2>4, AfterIs
  <2>7. InOrder(v, a)
    BY <2>2, <2>5
  <2> HIDE DEF v
  <2>8. Distinct(v)
    <3> SUFFICES ASSUME NEW j \in 1..Len(v), NEW k \in 1..Len(v), v[j] = v[k], v[j] # NoHandler PROVE j = k
      BY DEF Distinct
    <3>1. c + j = c + k
      BY <1>9, <2>6 DEF Distinct
    <3> QED BY <2>4, <3>1
  <2>9. lib' = SetField(SetField(lib, s, "running", NoHandler), s, "onclose", v)
    BY <1>0, <2>1 DEF SetField
  <2>10. /\ \A u \in Stream : u # s => lib'.str[u] = lib.str[u]
         /\ lib'.str[s]["onclose"] = v /\ lib'.str[s]["running"] = NoHandler
         /\ \A g \in Fields : g \notin {"running", "onclose"} => lib'.str[s][g] = lib.str[s][g]
    BY <1>0, <1>2, <2>9
  <2>11. lib'.str[s].onclose = v /\ lib'.str[s].running = NoHandler /\ lib'.str[s].asked = a
    BY <1>0, <2>10 DEF a
  <2>12. NotifyKept(lib'.str[s])
    BY <1>9, <2>6, <2>7, <2>8, <2>11 DEF NotifyKept, Item
  <2> QED BY <2>10, <2>12 DEF NotifyStep
<1>5. ASSUME NEW h \in Handler, Onclose(s, h)
      PROVE  NotifyStep(s)
  <2> DEFINE v == Pushed(q, h)
             w == IF Running(s) THEN a ELSE Append(a, h)
  <2>1. /\ h \notin Range(q) /\ lib' = [lib EXCEPT !.str[s].onclose = v, !.str[s].asked = w]
    BY <1>0, <1>5 DEF Onclose, q, a
  <2>2. /\ v \in Seq(Item) /\ Distinct(v)
        /\ InOrder(q, a) => InOrder(v, Append(a, h))
        /\ \A i \in 1..Len(q) : i + 1 \in 1..Len(v) /\ v[i + 1] = q[i] /\ After(v, i + 1) = After(q, i)
    BY <1>9, <2>1, PushedKeeps
  <2>3. w \in Seq(Handler)
    BY <1>9
  <2>4. ~Running(s) => InOrder(v, w)
    BY <1>9, <2>2
  <2>5. Running(s) => \E i \in 1..Len(v) : v[i] = lib.str[s].running /\ InOrder(After(v, i), w)
    <3> SUFFICES ASSUME Running(s) PROVE \E i \in 1..Len(v) : v[i] = lib.str[s].running /\ InOrder(After(v, i), w)
      OBVIOUS
    <3>1. PICK i \in 1..Len(q) : q[i] = lib.str[s].running /\ InOrder(After(q, i), a)
      BY <1>9
    <3>2. w = a
      OBVIOUS
    <3> HIDE DEF v, w
    <3> QED BY <2>2, <3>1, <3>2
  <2> HIDE DEF v, w
  <2>6. lib' = SetField(SetField(lib, s, "onclose", v), s, "asked", w)
    BY <1>0, <2>1 DEF SetField
  <2>7. /\ \A u \in Stream : u # s => lib'.str[u] = lib.str[u]
        /\ lib'.str[s]["asked"] = w /\ lib'.str[s]["onclose"] = v
        /\ \A g \in Fields : g \notin {"onclose", "asked"} => lib'.str[s][g] = lib.str[s][g]
    BY <1>0, <1>2, <2>6
  <2>8. /\ lib'.str[s].onclose = v /\ lib'.str[s].asked = w
        /\ lib'.str[s].running = lib.str[s].running /\ lib'.str[s].life = lib.str[s].life
    BY <1>0, <2>7
  <2>9. NotifyKept(lib'.str[s])
    BY <1>9, <2>2, <2>3, <2>4, <2>5, <2>8 DEF NotifyKept, Running
  <2> QED BY <2>7, <2>9 DEF NotifyStep
<1>6. ASSUME NEW h \in Handler, Unregister(s, h)
      PROVE  NotifyStep(s)
  <2> DEFINE v == Disabled(q, h)
             w == Without(a, h)
  <2>1. lib.str[s].running # h /\ lib' = [lib EXCEPT !.str[s].onclose = v, !.str[s].asked = w]
    BY <1>0, <1>6 DEF Unregister, q, a
  <2>2. /\ v \in Seq(Item) /\ w \in Seq(Handler) /\ Distinct(v)
        /\ InOrder(q, a) => InOrder(v, w)
        /\ \A i \in 1..Len(q) : i \in 1..Len(v) /\ (q[i] # h => v[i] = q[i]) /\ After(v, i) = Disabled(After(q, i), h)
    BY <1>9, DisabledKeeps
  <2>3. ~Running(s) => InOrder(v, w)
    BY <1>9, <2>2
  <2>4. Running(s) => \E i \in 1..Len(v) : v[i] = lib.str[s].running /\ InOrder(After(v, i), w)
    <3> SUFFICES ASSUME Running(s) PROVE \E i \in 1..Len(v) : v[i] = lib.str[s].running /\ InOrder(After(v, i), w)
      OBVIOUS
    <3>1. PICK i \in 1..Len(q) : q[i] = lib.str[s].running /\ InOrder(After(q, i), a)
      BY <1>9
    <3> DEFINE u == After(q, i)
    <3>2. /\ u \in Seq(Item) /\ Len(u) = Len(q) - i
          /\ \A j \in 1..(Len(q) - i) : u[j] = q[i + j] /\ i + j \in 1..Len(q)
      BY <1>9, AfterIs
    <3> HIDE DEF u
    <3>3. Distinct(u)
      <4> SUFFICES ASSUME NEW j \in 1..Len(u), NEW k \in 1..Len(u), u[j] = u[k], u[j] # NoHandler PROVE j = k
        BY DEF Distinct
      <4>1. i + j = i + k
        BY <1>9, <3>2 DEF Distinct
      <4> QED BY <4>1
    <3>4. InOrder(u, a)
      BY <3>1 DEF u
    <3>5. InOrder(Disabled(u, h), w)
      BY <1>9, <3>2, <3>3, <3>4, DisabledKeeps
    <3>6. i \in 1..Len(v) /\ v[i] = q[i] /\ After(v, i) = Disabled(u, h)
      BY <2>1, <2>2, <3>1 DEF u
    <3> HIDE DEF v, w
    <3> QED BY <3>1, <3>5, <3>6
  <2> HIDE DEF v, w
  <2>6. lib' = SetField(SetField(lib, s, "onclose", v), s, "asked", w)
    BY <1>0, <2>1 DEF SetField
  <2>7. /\ \A u \in Stream : u # s => lib'.str[u] = lib.str[u]
        /\ lib'.str[s]["asked"] = w /\ lib'.str[s]["onclose"] = v
        /\ \A g \in Fields : g \notin {"onclose", "asked"} => lib'.str[s][g] = lib.str[s][g]
    BY <1>0, <1>2, <2>6
  <2>8. /\ lib'.str[s].onclose = v /\ lib'.str[s].asked = w
        /\ lib'.str[s].running = lib.str[s].running /\ lib'.str[s].life = lib.str[s].life
    BY <1>0, <2>7
  <2>9. NotifyKept(lib'.str[s])
    BY <1>9, <2>2, <2>3, <2>4, <2>8 DEF NotifyKept, Running
  <2> QED BY <2>7, <2>9 DEF NotifyStep
<1> QED BY <1>1, <1>3, <1>4, <1>5, <1>6

\* Modes and names are nothing to the notifications.
LEMMA NotifyUses ==
  ASSUME Shape(lib), NEW s \in Stream, NotifyKept(lib.str[s]), UseStep(s)
  PROVE  NotifyStep(s)
<1>0. /\ DOMAIN lib = {"fd", "str", "dead"} /\ DOMAIN lib.str = Stream /\ DOMAIN lib.str[s] = Fields
      /\ {"life", "onclose", "running", "asked", "modeflag", "told", "name", "held", "inuse"} \subseteq Fields
  BY DEF Shape, StreamShape, Fields
<1>1. SUFFICES /\ \A t \in Stream : t # s => lib'.str[t] = lib.str[t]
               /\ lib'.str[s].onclose = lib.str[s].onclose /\ lib'.str[s].running = lib.str[s].running
               /\ lib'.str[s].asked = lib.str[s].asked /\ lib'.str[s].life = lib.str[s].life
  BY NotifySame DEF NotifyStep
<1>2. ASSUME NEW onoff \in BOOLEAN, NEW failed \in BOOLEAN, set_nonblock(s, onoff, failed)
      PROVE  /\ \A t \in Stream : t # s => lib'.str[t] = lib.str[t]
             /\ lib'.str[s].onclose = lib.str[s].onclose /\ lib'.str[s].running = lib.str[s].running
             /\ lib'.str[s].asked = lib.str[s].asked /\ lib'.str[s].life = lib.str[s].life
  <2> DEFINE d == lib.str[s].fd
             b == IF onoff THEN "on" ELSE "off"
             m == Restored(lib.str[s].modeflag, onoff)
  <2>1. lib' = IF failed THEN [lib EXCEPT !.str[s].modeflag = m]
               ELSE [lib EXCEPT !.str[s].modeflag = onoff, !.str[s].told = b, !.fd[d].nonblock = onoff]
    BY <1>0, <1>2 DEF set_nonblock
  <2> HIDE DEF d, b, m
  <2> QED BY <1>0, <2>1
<1>3. ASSUME fname_set(s)
      PROVE  /\ \A t \in Stream : t # s => lib'.str[t] = lib.str[t]
             /\ lib'.str[s].onclose = lib.str[s].onclose /\ lib'.str[s].running = lib.str[s].running
             /\ lib'.str[s].asked = lib.str[s].asked /\ lib'.str[s].life = lib.str[s].life
  <2> DEFINE b == IF lib.str[s].held = "yes" /\ ~lib.str[s].inuse THEN "dangling" ELSE lib.str[s].held
  <2>1. lib' = [lib EXCEPT !.str[s].name = TRUE, !.str[s].held = b]
    BY <1>0, <1>3 DEF fname_set
  <2> HIDE DEF b
  <2> QED BY <1>0, <2>1
<1>4. ASSUME fname_get(s)
      PROVE  /\ \A t \in Stream : t # s => lib'.str[t] = lib.str[t]
             /\ lib'.str[s].onclose = lib.str[s].onclose /\ lib'.str[s].running = lib.str[s].running
             /\ lib'.str[s].asked = lib.str[s].asked /\ lib'.str[s].life = lib.str[s].life
  <2> DEFINE b == InUse(lib.str[s].name)
  <2>1. lib' = [lib EXCEPT !.str[s].inuse = b, !.str[s].held = "yes"]
    BY <1>0, <1>4 DEF fname_get
  <2> HIDE DEF b
  <2> QED BY <1>0, <2>1
<1> QED BY <1>2, <1>3, <1>4 DEF UseStep

\* A stream that is opened has none, and one that could not be is not there.
LEMMA NotifyOpens ==
  ASSUME Shape(lib), NEW s \in Stream, NotifyKept(lib.str[s]), NEW way, NEW d \in Desc \cup {NoDesc}, NEW no_close,
         NEW nonblock, NEW failure \in Failures, NEW garbage, {no_close, nonblock, garbage} \subseteq BOOLEAN,
         Open(s, way, d, no_close, nonblock, failure, garbage)
  PROVE  NotifyStep(s)
<1>1. lib' = IF failure = "none" THEN Opened(s, way, d, no_close, nonblock, garbage)
             ELSE Failed(s, way, d, no_close, failure, garbage)
  BY DEF Open
<1>2. ASSUME NEW cookie, NewStream(lib', s, d, no_close, cookie)
      PROVE  NotifyStep(s)
  BY <1>2, NoneNotified DEF NewStream, FreshStream, NotifyStep
<1>3. ASSUME lib'.str = lib.str
      PROVE  NotifyStep(s)
  BY <1>3 DEF NotifyStep
<1>4. CASE failure = "none"
  BY <1>1, <1>2, <1>4, OpenedIs
<1> DEFINE k == func_close(Opened(s, way, d, no_close, FALSE, garbage), s)
<1>5. NewStream(k, s, d, no_close, "freed")
  BY OpenedClosedIs
<1>6. CASE failure = "ioctl"
  <2>1. lib' = k
    BY <1>1, <1>6 DEF Failed
  <2> HIDE DEF k
  <2> QED BY <1>2, <1>5, <2>1
<1>7. CASE failure \in {"mode", "cookie"} \/ (failure \in {"stream", "list"} /\ way = "fopencookie")
  <2>1. lib' = lib
    BY <1>1, <1>7 DEF Failed
  <2> QED BY <1>3, <2>1
<1>8. CASE failure = "intern"
  <2>1. lib' = [lib EXCEPT !.dead = TRUE]
    BY <1>1, <1>8 DEF Failed
  <2>2. lib'.str = lib.str
    BY <2>1 DEF Shape
  <2> QED BY <1>3, <2>2
<1>9. CASE failure \in {"stream", "list"} /\ way # "fopencookie"
  <2> DEFINE kk == func_close(k, s)
  <2>1. lib' = [k EXCEPT !.str[s] = NoStream] \/ lib' = [kk EXCEPT !.str[s] = NoStream]
    BY <1>1, <1>9 DEF Failed
  <2> HIDE DEF k
  <2>2. Shape(k) /\ k.str[s].cookie # "live" /\ \A t \in Stream : t # s => k.str[t] = lib.str[t]
    BY <1>5 DEF NewStream
  <2>3. Shape(kk) /\ kk.str = k.str
    BY <2>2, CloseIs
  <2> HIDE DEF kk
  <2>4. lib'.str[s] = NoStream /\ \A t \in Stream : t # s => lib'.str[t] = lib.str[t]
    <3>1. CASE lib' = [k EXCEPT !.str[s] = NoStream]
      BY <2>2, <3>1, GoneIs
    <3>2. CASE lib' = [kk EXCEPT !.str[s] = NoStream]
      <4>1. lib'.str[s] = NoStream /\ \A t \in Stream : t # s => lib'.str[t] = kk.str[t]
        BY <2>3, <3>2, GoneIs
      <4> QED BY <2>2, <2>3, <4>1
    <3> QED BY <2>1, <3>1, <3>2
  <2> QED BY <2>4, NoStreamIs, NoneNotified DEF NotifyStep
<1> QED BY <1>4, <1>6, <1>7, <1>8, <1>9 DEF Failures

\* freopen forgets them without a call, and so does the end of a close, when they are all made.
LEMMA NotifyLeaves ==
  ASSUME Shape(lib), NEW s \in Stream, NotifyKept(lib.str[s]),
         \/ CloseEnd(s)
         \/ \E d \in Desc, nonblock, failed \in BOOLEAN : Freopen(s, d, nonblock, failed)
  PROVE  NotifyStep(s)
<1> DEFINE gone == deinit_stream_obj(lib, s)
<1>1. /\ Shape(gone)
      /\ \A t \in Stream : t # s => gone.str[t] = lib.str[t]
      /\ \A g \in Fields \ {"cookie", "name", "inuse", "onclose", "held"} : gone.str[s][g] = lib.str[s][g]
      /\ gone.str[s].onclose = <<>>
      /\ lib.str[s].cookie # "live" => gone.dead /\ gone.str[s].cookie # "live"
      /\ lib.str[s].cookie = "live" => gone.str[s].cookie = "freed"
  BY DeinitIs
<1>2. CASE CloseEnd(s)
  <2>1. lib' = IF gone.dead THEN gone ELSE [gone EXCEPT !.str[s] = NoStream]
    BY <1>2 DEF CloseEnd
  <2> HIDE DEF gone
  <2>2. CASE gone.dead
    BY <1>1, <2>1, <2>2 DEF NotifyStep
  <2>3. CASE ~gone.dead
    <3>1. lib'.str[s] = NoStream /\ \A t \in Stream : t # s => lib'.str[t] = gone.str[t]
      BY <1>1, <2>1, <2>3, GoneIs
    <3> QED BY <1>1, <3>1, NoStreamIs, NoneNotified DEF NotifyStep
  <2> QED BY <2>2, <2>3
<1>3. ASSUME NEW d \in Desc, NEW nonblock \in BOOLEAN, NEW failed \in BOOLEAN, Freopen(s, d, nonblock, failed)
      PROVE  NotifyStep(s)
  <2>1. /\ lib.str[s].life = "open"
        /\ lib' = IF failed THEN func_close(gone, s) ELSE ReopenedObj(s, d, nonblock, gone)
    BY <1>3 DEF Freopen
  <2> HIDE DEF gone
  <2>2. CASE failed
    <3>1. gone.str[s].cookie # "live" /\ lib' = func_close(gone, s)
      BY <1>1, <2>1, <2>2
    <3>2. lib'.dead /\ lib'.str = gone.str
      BY <1>1, <3>1, CloseIs
    <3> QED BY <1>1, <3>2 DEF NotifyStep
  <2>3. CASE ~failed
    <3>1. {nonblock} \subseteq BOOLEAN
      OBVIOUS
    <3>2. ReopenedAs(lib', gone, s, d)
      BY <1>1, <2>1, <2>3, <3>1, ReopenedIs
    <3>3. gone.str[s].running = lib.str[s].running
      BY <1>1 DEF Fields
    <3>4. lib.str[s].running = NoHandler
      BY <2>1 DEF NotifyKept
    <3>5. /\ lib'.str[s].onclose = <<>> /\ lib'.str[s].running = NoHandler /\ lib'.str[s].asked = <<>>
          /\ \A t \in Stream : t # s => lib'.str[t] = lib.str[t]
      BY <1>1, <3>2, <3>3, <3>4 DEF ReopenedAs
    <3> QED BY <3>5, NoneNotified DEF NotifyStep
  <2> QED BY <2>2, <2>3
<1> QED BY <1>2, <1>3

\* The invariant, with the types.
NotifyInv == OInv /\ (~lib.dead => \A s \in Stream : NotifyKept(lib.str[s]))

\* It holds at the start.
LEMMA NotifyInitial == OpenInit => NotifyInv
<1> SUFFICES ASSUME OpenInit PROVE NotifyInv
  OBVIOUS
<1>1. \A s \in Stream : lib.str[s] = NoStream
  BY DEF OpenInit
<1> QED BY <1>1, OpenInitial, NoStreamIs, NoneNotified DEF NotifyInv

\* NotifyInv is inductive.
LEMMA NotifyInductive == NotifyInv /\ [OpenNext]_openVars => NotifyInv'
<1> SUFFICES ASSUME NotifyInv, [OpenNext]_openVars PROVE NotifyInv'
  OBVIOUS
<1>0. OInv /\ OInv' /\ Shape(lib)
  BY OpenInductive DEF NotifyInv, OInv
<1>1. CASE UNCHANGED openVars
  BY <1>0, <1>1 DEF openVars, NotifyInv
<1>2. ASSUME ~lib.dead, NEW s \in Stream, NotifyStep(s)
      PROVE  NotifyInv'
  BY <1>0, <1>2 DEF NotifyInv, NotifyStep
<1>3. ASSUME ~lib.dead, NEW s \in Stream, NEW way, NEW d \in Desc \cup {NoDesc}, NEW no_close,
             {no_close} \subseteq BOOLEAN, OpenAny(s, way, d, no_close)
      PROVE  NotifyInv'
  <2>1. PICK nonblock \in BOOLEAN, garbage \in BOOLEAN, failure \in Failures :
          Open(s, way, d, no_close, nonblock, failure, garbage)
    BY <1>3 DEF OpenAny
  <2>2. {no_close, nonblock, garbage} \subseteq BOOLEAN /\ NotifyKept(lib.str[s])
    BY <1>3 DEF NotifyInv
  <2> QED BY <1>0, <1>2, <1>3, <2>1, <2>2, NotifyOpens
<1>4. ASSUME ~lib.dead, NEW s \in Stream, OpenStep(s)
      PROVE  NotifyInv'
  <2>1. PICK no : no = FALSE /\ {no} \subseteq BOOLEAN
    OBVIOUS
  <2>2. CASE fopen(s)
    <3>1. PICK d \in Desc : OpenAny(s, "fopen", d, no)
      BY <2>1, <2>2 DEF fopen
    <3> QED BY <1>3, <1>4, <2>1, <3>1
  <2>5. CASE tmpfile(s)
    <3>1. PICK d \in Desc : OpenAny(s, "tmpfile", d, no)
      BY <2>1, <2>5 DEF tmpfile
    <3> QED BY <1>3, <1>4, <2>1, <3>1
  <2>6. CASE fopencookie(s)
    <3>1. OpenAny(s, "fopencookie", NoDesc, no)
      BY <2>1, <2>6 DEF fopencookie
    <3> QED BY <1>3, <1>4, <2>1, <3>1
  <2>7. CASE do_fpopen(s) \/ do_sysopen(s)
    <3>1. PICK way \in {"fpopen", "fdopen", "sockopen", "w32open"}, d \in Desc \cup {NoDesc}, no_close \in BOOLEAN :
            OpenAny(s, way, d, no_close)
      BY <2>7 DEF do_fpopen, do_sysopen, do_fdopen, do_sockopen, do_w32open
    <3>2. {no_close} \subseteq BOOLEAN
      OBVIOUS
    <3> QED BY <1>3, <1>4, <3>1, <3>2
  <2>3. CASE \E d \in Desc, nonblock, failed \in BOOLEAN : Freopen(s, d, nonblock, failed)
    <3>1. NotifyKept(lib.str[s])
      BY <1>4 DEF NotifyInv
    <3>2. NotifyStep(s)
      BY <1>0, <2>3, <3>1, NotifyLeaves
    <3> QED BY <1>2, <1>4, <3>2
  <2> QED BY <1>4, <2>2, <2>3, <2>5, <2>6, <2>7 DEF OpenStep
<1>5. ASSUME ~lib.dead, NEW s \in Stream, CloseStep(s) \/ UseStep(s)
      PROVE  NotifyInv'
  <2>1. NotifyKept(lib.str[s])
    BY <1>5 DEF NotifyInv
  <2>2. NotifyStep(s)
    BY <1>0, <1>5, <2>1, NotifyActs, NotifyLeaves, NotifyUses DEF CloseStep
  <2> QED BY <1>2, <1>5, <2>2
<1>6. ASSUME ~lib.dead, NEW d \in Desc, AppStep(d)
      PROVE  NotifyInv'
  <2>1. lib'.str = lib.str
    <3>1. ASSUME NEW nonblock \in BOOLEAN, AppOpen(d, nonblock) PROVE lib'.str = lib.str
      BY <1>0, <3>1 DEF AppOpen, Shape
    <3>2. CASE AppClose(d)
      BY <1>0, <3>2 DEF AppClose, ClosedFd, Shape
    <3> QED BY <1>6, <3>1, <3>2 DEF AppStep
  <2> QED BY <1>0, <1>6, <2>1 DEF NotifyInv
<1> QED BY <1>1, <1>4, <1>5, <1>6 DEF OpenNext

\* It implies that all is told that was asked for.
LEMMA NotifyMeans ==
  ASSUME NotifyInv, ~lib.dead, NEW s \in Stream
  PROVE  Handlers(IF Running(s) THEN AfterRunning(s) ELSE lib.str[s].onclose) = Reverse(lib.str[s].asked)
<1> DEFINE q == lib.str[s].onclose
           a == lib.str[s].asked
<1>1. /\ q \in Seq(Item) /\ Distinct(q)
      /\ ~Running(s) => InOrder(q, a)
      /\ Running(s) => \E i \in 1..Len(q) : q[i] = lib.str[s].running /\ InOrder(After(q, i), a)
  BY DEF NotifyInv, NotifyKept, Running
<1> HIDE DEF q, a
<1>2. CASE Running(s)
  <2> DEFINE c == CHOOSE i \in DOMAIN q : q[i] = lib.str[s].running
  <2>1. PICK i \in 1..Len(q) : q[i] = lib.str[s].running /\ InOrder(After(q, i), a)
    BY <1>1, <1>2
  <2>2. DOMAIN q = 1..Len(q)
    BY <1>1
  <2>3. c \in 1..Len(q) /\ q[c] = lib.str[s].running
    BY <2>1, <2>2
  <2>4. c = i
    BY <1>1, <1>2, <2>1, <2>3 DEF Distinct, Running
  <2>5. AfterRunning(s) = After(q, c)
    BY DEF AfterRunning, After, q
  <2> QED BY <1>2, <2>1, <2>4, <2>5 DEF InOrder, a
<1>3. CASE ~Running(s)
  BY <1>1, <1>3 DEF InOrder, q, a
<1> QED BY <1>2, <1>3

-----------------------------------------------------------------------------
(* What is lost: how the behaviour may come to be undefined, and the handlers  *)
(* that no close will call.                                                    *)

\* Only a failure of create_stream, a freopen that failed, and a second close of the
\* cookie that a failed ioctl has freed end the defined behaviour.
EndedKept == lib.dead => ended \in {"list", "intern", "failed freopen", "hollow"}

\* A stream has lost its cookie to a failed ioctl only; and the handlers registered for
\* it are those a close is to call, unless it was opened again or is being closed.
RegisteredKept(r, hs) ==
  /\ r.life = "none" => hs = {} /\ r.asked = <<>>
  /\ ~r.reopened /\ r.life # "closing" => hs = Range(r.asked)
PastKept(s) == (s \in hollow <=> Cookieless(s)) /\ RegisteredKept(lib.str[s], registered[s])
PastInv ==
  /\ NotifyInv /\ EndedKept /\ hollow \subseteq Stream /\ DOMAIN registered = Stream
  /\ ~lib.dead => \A s \in Stream : PastKept(s)

\* A step that changes one stream.
PastStep(s) ==
  /\ \A t \in Stream : t # s => /\ lib'.str[t] = lib.str[t] /\ registered'[t] = registered[t]
                                /\ t \in hollow' <=> t \in hollow
  /\ hollow' \subseteq Stream /\ DOMAIN registered' = Stream
  /\ EndedKept' /\ (~lib'.dead => PastKept(s)')

\* The range of one item more, and of those that are not h.
LEMMA RangeAppend ==
  ASSUME NEW X, NEW q \in Seq(X), NEW x \in X
  PROVE  Range(Append(q, x)) = Range(q) \cup {x}
<1>1. /\ DOMAIN Append(q, x) = 1..(Len(q) + 1) /\ DOMAIN q = 1..Len(q) /\ Len(q) \in Nat
      /\ Append(q, x)[Len(q) + 1] = x /\ \A i \in 1..Len(q) : Append(q, x)[i] = q[i]
  OBVIOUS
<1>2. ASSUME NEW y \in Range(Append(q, x)) PROVE y \in Range(q) \cup {x}
  BY <1>1, <1>2 DEF Range
<1>3. ASSUME NEW y \in Range(q) PROVE y \in Range(Append(q, x))
  <2>1. PICK i \in 1..Len(q) : q[i] = y
    BY <1>1, <1>3 DEF Range
  <2>2. Append(q, x)[i] = y /\ i \in DOMAIN Append(q, x)
    BY <1>1, <2>1
  <2> QED BY <2>2 DEF Range
<1>4. x \in Range(Append(q, x))
  BY <1>1 DEF Range
<1> QED BY <1>2, <1>3, <1>4

LEMMA RangeWithout ==
  ASSUME NEW h
  PROVE  \A a \in Seq(Handler) : Range(Without(a, h)) = Range(a) \ {h}
<1> DEFINE hs == Handler \ {h}
           P == {q \in Seq(Handler) : Range(Those(q, hs)) = Range(q) \ {h}}
<1>0. /\ Those(<<>>, hs) = <<>>
      /\ \A q \in Seq(Handler), x \in Handler :
           Those(Append(q, x), hs) = IF x \in hs THEN Append(Those(q, hs), x) ELSE Those(q, hs)
  BY ThoseAppend
<1>9. \A q \in Seq(Handler) : Those(q, hs) \in Seq(Handler)
  <2>1. \A q \in Seq(Handler) : Those(q, hs) \in Seq(Handler \cap hs)
    BY ThoseType
  <2>2. Seq(Handler \cap hs) \subseteq Seq(Handler)
    OBVIOUS
  <2> QED BY <2>1, <2>2
<1>1. <<>> \in P
  <2>1. Range(<<>>) = {} /\ <<>> \in Seq(Handler)
    BY DEF Range
  <2> QED BY <1>0, <2>1
<1>2. ASSUME NEW q \in Seq(Handler), NEW x \in Handler, q \in P PROVE Append(q, x) \in P
  <2>5. Range(Append(q, x)) = Range(q) \cup {x}
    BY RangeAppend
  <2>6. Range(Those(q, hs)) = Range(q) \ {h}
    BY <1>2
  <2>1. Range(Append(q, x)) = Range(q) \cup {x} /\ Range(Those(q, hs)) = Range(q) \ {h}
    BY <2>5, <2>6
  <2>7. Append(q, x) \in Seq(Handler)
    OBVIOUS
  <2>2. Append(q, x) \in Seq(Handler) /\ Those(q, hs) \in Seq(Handler)
    BY <1>9, <2>7
  <2>3. CASE x = h
    <3>1. Those(Append(q, x), hs) = Those(q, hs)
      BY <1>0, <2>3
    <3> QED BY <2>1, <2>2, <2>3, <3>1
  <2>4. CASE x # h
    <3>1. Those(Append(q, x), hs) = Append(Those(q, hs), x)
      BY <1>0, <2>4
    <3>2. Range(Append(Those(q, hs), x)) = Range(Those(q, hs)) \cup {x}
      BY <2>2, RangeAppend
    <3> QED BY <2>1, <2>2, <2>4, <3>1, <3>2
  <2> QED BY <2>3, <2>4
<1> HIDE DEF P
<1>3. \A q \in Seq(Handler) : q \in P
  BY <1>1, <1>2, SeqInduction
<1> QED BY <1>3 DEF P, Without

LEMMA NothingInRange == Range(<<>>) = {}
  BY DEF Range

\* What every step starts from.
LEMMA PastGives ==
  ASSUME PastInv, ~lib.dead, NEW s \in Stream
  PROVE  /\ Shape(lib) /\ NotifyKept(lib.str[s]) /\ EndedKept /\ hollow \subseteq Stream /\ DOMAIN registered = Stream
         /\ s \in hollow <=> Cookieless(s)
         /\ RegisteredKept(lib.str[s], registered[s])
         /\ lib.str[s].life = "none" => s \notin hollow
         /\ lib.str[s].life # "none" /\ s \notin hollow => lib.str[s].cookie = "live"
<1>1. Shape(lib) /\ NotifyKept(lib.str[s]) /\ EndedKept /\ hollow \subseteq Stream /\ DOMAIN registered = Stream
  BY DEF PastInv, NotifyInv, OInv
<1>2. PastKept(s) /\ CookieKept(s)
  BY DEF PastInv, NotifyInv, OInv, Alive
<1> QED BY <1>1, <1>2 DEF PastKept, Cookieless, CookieKept

\* An open adds a stream, with or without its cookie, or none (create_stream).
LEMMA PastOpens ==
  ASSUME PastInv, ~lib.dead, NEW s \in Stream, NEW way, NEW d \in Desc \cup {NoDesc}, NEW no_close,
         NEW nonblock, NEW failure \in Failures, NEW garbage, {no_close, nonblock, garbage} \subseteq BOOLEAN,
         Open(s, way, d, no_close, nonblock, failure, garbage)
  PROVE  PastStep(s)
<1>0. /\ Shape(lib) /\ lib.str[s].life = "none" /\ s \notin hollow /\ registered[s] = {} /\ lib.str[s].asked = <<>>
      /\ hollow \subseteq Stream /\ DOMAIN registered = Stream /\ EndedKept /\ ~Cookieless(s)
  BY PastGives DEF Open, RegisteredKept
<1>1. /\ lib' = IF failure = "none" THEN Opened(s, way, d, no_close, nonblock, garbage)
                ELSE Failed(s, way, d, no_close, failure, garbage)
      /\ ended' = IF lib'.dead THEN failure ELSE ended
      /\ hollow' = IF failure = "ioctl" THEN hollow \cup {s} ELSE hollow
      /\ registered' = registered
  BY DEF Open, EndsBy
<1>2. ASSUME \A t \in Stream : t # s => lib'.str[t] = lib.str[t],
             lib'.dead => failure \in {"list", "intern"},
             ~lib'.dead => PastKept(s)'
      PROVE  PastStep(s)
  BY <1>0, <1>1, <1>2 DEF PastStep, EndedKept
<1>3. ASSUME NEW cookie, NewStream(lib', s, d, no_close, cookie), cookie = "freed" <=> failure = "ioctl"
      PROVE  PastStep(s)
  <2>1. /\ \A t \in Stream : t # s => lib'.str[t] = lib.str[t]
        /\ ~lib'.dead /\ lib'.str[s].life = "open" /\ lib'.str[s].asked = <<>> /\ lib'.str[s].cookie = cookie
    BY <1>3 DEF NewStream, FreshStream
  <2>2. s \in hollow' <=> Cookieless(s)'
    BY <1>0, <1>1, <1>3, <2>1 DEF Cookieless
  <2>3. RegisteredKept(lib'.str[s], registered'[s])
    BY <1>0, <1>1, <2>1, NothingInRange DEF RegisteredKept
  <2> QED BY <1>2, <2>1, <2>2, <2>3 DEF PastKept
<1>4. ASSUME lib' = lib, failure # "ioctl"
      PROVE  PastStep(s)
  <2>1. PastKept(s)
    BY DEF PastInv
  <2>2. PastKept(s)' 
    BY <1>1, <1>4, <2>1 DEF PastKept, Cookieless
  <2> QED BY <1>2, <1>4, <2>2
<1>5. CASE failure = "none"
  <2>1. NewStream(lib', s, d, no_close, "live")
    BY <1>0, <1>1, <1>5, OpenedIs
  <2> QED BY <1>3, <1>5, <2>1
<1> DEFINE k == func_close(Opened(s, way, d, no_close, FALSE, garbage), s)
<1>6. NewStream(k, s, d, no_close, "freed")
  BY <1>0, OpenedClosedIs, ZenonT(60)
<1>7. CASE failure = "ioctl"
  <2>1. lib' = k
    BY <1>1, <1>7 DEF Failed
  <2> HIDE DEF k
  <2>2. NewStream(lib', s, d, no_close, "freed")
    BY <1>6, <2>1
  <2> QED BY <1>3, <1>7, <2>2
<1>8. CASE failure \in {"mode", "cookie"} \/ (failure \in {"stream", "list"} /\ way = "fopencookie")
  <2>1. lib' = lib
    BY <1>1, <1>8 DEF Failed
  <2> QED BY <1>4, <1>8, <2>1
<1>9. CASE failure = "intern"
  <2>1. lib' = [lib EXCEPT !.dead = TRUE]
    BY <1>1, <1>9 DEF Failed
  <2>2. lib'.str = lib.str /\ lib'.dead
    BY <1>0, <2>1 DEF Shape
  <2> QED BY <1>2, <1>9, <2>2
<1>10. CASE failure \in {"stream", "list"} /\ way # "fopencookie"
  <2> DEFINE kk == func_close(k, s)
  <2>1. IF failure = "stream" THEN lib' = [k EXCEPT !.str[s] = NoStream] ELSE lib' = [kk EXCEPT !.str[s] = NoStream]
    BY <1>1, <1>10 DEF Failed
  <2> HIDE DEF k
  <2>2. Shape(k) /\ ~k.dead /\ k.str[s].cookie # "live" /\ \A t \in Stream : t # s => k.str[t] = lib.str[t]
    BY <1>6 DEF NewStream
  <2>3. Shape(kk) /\ kk.str = k.str
    BY <2>2, CloseIs
  <2> HIDE DEF kk
  <2>4. /\ lib'.str[s] = NoStream /\ \A t \in Stream : t # s => lib'.str[t] = lib.str[t]
        /\ failure = "stream" => ~lib'.dead
    <3>1. CASE failure = "stream"
      <4>1. lib' = [k EXCEPT !.str[s] = NoStream]
        BY <2>1, <3>1
      <4> QED BY <2>2, <4>1, GoneIs
    <3>2. CASE failure # "stream"
      <4>2. lib' = [kk EXCEPT !.str[s] = NoStream]
        BY <2>1, <3>2
      <4>1. lib'.str[s] = NoStream /\ \A t \in Stream : t # s => lib'.str[t] = kk.str[t]
        BY <2>3, <4>2, GoneIs
      <4> QED BY <2>2, <2>3, <3>2, <4>1
    <3> QED BY <3>1, <3>2
  <2>5. s \notin hollow' /\ ~Cookieless(s)' /\ registered'[s] = {}
    BY <1>0, <1>1, <1>10, <2>4, NoStreamIs DEF Cookieless
  <2>6. RegisteredKept(lib'.str[s], registered'[s])
    BY <2>4, <2>5, NoStreamIs, NothingInRange DEF RegisteredKept
  <2>7. PastKept(s)'
    BY <2>5, <2>6 DEF PastKept
  <2> QED BY <1>2, <1>10, <2>4, <2>7
<1> QED BY <1>5, <1>7, <1>8, <1>9, <1>10 DEF Failures

\* The end of a close and a freopen free the cookie; only where it was freed before, or
\* the freopen fails, it is the second time.
LEMMA PastLeaves ==
  ASSUME PastInv, ~lib.dead, NEW s \in Stream,
         \/ CloseEnd(s)
         \/ \E d \in Desc, nonblock, failed \in BOOLEAN : Freopen(s, d, nonblock, failed)
  PROVE  PastStep(s)
<1> DEFINE gone == deinit_stream_obj(lib, s)
<1>0. /\ Shape(lib) /\ hollow \subseteq Stream /\ DOMAIN registered = Stream /\ EndedKept
      /\ lib.str[s].life # "none" /\ s \notin hollow => lib.str[s].cookie = "live"
      /\ lib.str[s].life # "none" /\ s \in hollow => lib.str[s].cookie # "live"
  BY PastGives DEF Cookieless
<1>1. /\ Shape(gone)
      /\ \A t \in Stream : t # s => gone.str[t] = lib.str[t]
      /\ lib.str[s].cookie # "live" => gone.dead /\ gone.str[s].cookie # "live"
      /\ lib.str[s].cookie = "live" => ~gone.dead /\ gone.str[s].cookie = "freed"
      /\ gone.str[s].life = lib.str[s].life
  <2>1. /\ Shape(gone)
        /\ \A t \in Stream : t # s => gone.str[t] = lib.str[t]
        /\ \A g \in Fields \ {"cookie", "name", "inuse", "onclose", "held"} : gone.str[s][g] = lib.str[s][g]
        /\ lib.str[s].cookie # "live" => gone.dead /\ gone.str[s].cookie # "live"
        /\ lib.str[s].cookie = "live" => gone.dead = lib.dead /\ gone.str[s].cookie = "freed"
    BY <1>0, DeinitIs
  <2> HIDE DEF gone
  <2>2. gone.str[s]["life"] = lib.str[s]["life"]
    BY <2>1 DEF Fields
  <2> QED BY <2>1, <2>2
<1>2. CASE CloseEnd(s)
  <2>1. /\ lib' = IF gone.dead THEN gone ELSE [gone EXCEPT !.str[s] = NoStream]
        /\ ended' = IF lib'.dead THEN IF s \in hollow THEN "hollow" ELSE "close" ELSE ended
        /\ hollow' = hollow \ {s} /\ registered' = [registered EXCEPT ![s] = {}]
        /\ lib.str[s].life = "closing"
    BY <1>2 DEF CloseEnd, EndsBy
  <2> HIDE DEF gone
  <2>2. /\ hollow' \subseteq Stream /\ DOMAIN registered' = Stream /\ registered'[s] = {} /\ s \notin hollow'
        /\ \A t \in Stream : t # s => registered'[t] = registered[t] /\ (t \in hollow' <=> t \in hollow)
    BY <1>0, <2>1
  <2>3. CASE gone.dead
    <3>1. lib' = gone /\ s \in hollow
      BY <1>0, <1>1, <2>1, <2>3
    <3>2. EndedKept'
      BY <2>1, <2>3, <3>1 DEF EndedKept
    <3> QED BY <1>1, <2>2, <2>3, <3>1, <3>2 DEF PastStep
  <2>4. CASE ~gone.dead
    <3>1. lib'.str[s] = NoStream /\ (\A t \in Stream : t # s => lib'.str[t] = gone.str[t]) /\ ~lib'.dead
      BY <1>1, <2>1, <2>4, GoneIs
    <3>2. ~Cookieless(s)' /\ RegisteredKept(lib'.str[s], registered'[s])
      BY <2>2, <3>1, NoStreamIs, NothingInRange DEF Cookieless, RegisteredKept
    <3> QED BY <1>1, <2>2, <3>1, <3>2 DEF PastStep, PastKept, EndedKept
  <2> QED BY <2>3, <2>4
<1>3. ASSUME NEW d \in Desc, NEW nonblock \in BOOLEAN, NEW failed \in BOOLEAN, Freopen(s, d, nonblock, failed)
      PROVE  PastStep(s)
  <2>1. /\ lib.str[s].life = "open"
        /\ lib' = IF failed THEN func_close(gone, s) ELSE ReopenedObj(s, d, nonblock, gone)
        /\ ended' = IF lib'.dead THEN IF s \in hollow THEN "hollow" ELSE IF failed THEN "failed freopen" ELSE "freopen"
                    ELSE ended
        /\ hollow' = hollow /\ registered' = registered
    BY <1>3 DEF Freopen, EndsBy
  <2> HIDE DEF gone
  <2>2. CASE failed
    <3> DEFINE twice == func_close(gone, s)
    <3>1. gone.str[s].cookie # "live" => twice.dead /\ twice.str = gone.str
      BY <1>1, CloseIs
    <3>2. lib' = twice
      BY <2>1, <2>2
    <3> HIDE DEF twice
    <3>3. gone.str[s].cookie # "live"
      BY <1>0, <1>1, <2>1
    <3> QED BY <1>0, <1>1, <2>1, <2>2, <3>1, <3>2, <3>3 DEF PastStep, EndedKept
  <2>3. CASE ~failed
    <3>1. {nonblock} \subseteq BOOLEAN
      OBVIOUS
    <3>2. ReopenedAs(lib', gone, s, d)
      BY <1>1, <2>1, <2>3, <3>1, ReopenedIs
    <3>3. /\ \A t \in Stream : t # s => lib'.str[t] = lib.str[t]
          /\ lib'.dead = gone.dead /\ lib'.str[s].cookie = "live"
          /\ lib'.str[s].reopened /\ lib'.str[s].life = "open"
      BY <1>1, <2>1, <3>2, ZenonT(60) DEF ReopenedAs
    <3>4. EndedKept'
      BY <1>0, <1>1, <2>1, <2>3, <3>3 DEF EndedKept
    <3>5. ~lib'.dead => PastKept(s)'
      BY <1>0, <1>1, <2>1, <3>3 DEF PastKept, Cookieless, RegisteredKept
    <3> QED BY <1>0, <2>1, <3>3, <3>4, <3>5 DEF PastStep
  <2> QED BY <2>2, <2>3
<1> QED BY <1>2, <1>3

\* Steps that leave the cookie, the life and the record of a stream's reopening alone.
LEMMA PastFields ==
  ASSUME PastInv, ~lib.dead, NEW s \in Stream, ended' = ended, hollow' = hollow, lib'.dead = lib.dead,
         \A t \in Stream : t # s => lib'.str[t] = lib.str[t],
         DOMAIN registered' = Stream, \A t \in Stream : t # s => registered'[t] = registered[t],
         lib'.str[s].cookie = lib.str[s].cookie, lib'.str[s].life # "none" <=> lib.str[s].life # "none",
         RegisteredKept(lib'.str[s], registered'[s])
  PROVE  PastStep(s)
<1>1. s \in hollow <=> Cookieless(s)
  BY PastGives
<1>2. PastKept(s)'
  BY <1>1 DEF PastKept, Cookieless
<1> QED BY <1>2, PastGives DEF PastStep, EndedKept

\* Registering and taking back, and what a close does with the items.
LEMMA PastNotifies ==
  ASSUME PastInv, ~lib.dead, NEW s \in Stream,
         \/ Close(s) \/ NotifyStart(s) \/ NotifyEnd(s)
         \/ \E h \in Handler : Onclose(s, h) \/ Unregister(s, h)
  PROVE  PastStep(s)
<1>0. /\ DOMAIN lib = {"fd", "str", "dead"} /\ DOMAIN lib.str = Stream /\ DOMAIN lib.str[s] = Fields
      /\ {"life", "onclose", "running", "asked", "cookie", "reopened"} \subseteq Fields
      /\ DOMAIN registered = Stream /\ RegisteredKept(lib.str[s], registered[s])
      /\ lib.str[s].asked \in Seq(Handler) /\ (Running(s) => lib.str[s].life = "closing")
  BY PastGives DEF Shape, StreamShape, Fields, NotifyKept, Running
<1>1. CASE Close(s)
  <2>1. lib' = [lib EXCEPT !.str[s].life = "closing"] /\ lib.str[s].life = "open"
        /\ ended' = ended /\ hollow' = hollow /\ registered' = registered
    BY <1>1 DEF Close, history
  <2>2. /\ \A t \in Stream : t # s => lib'.str[t] = lib.str[t]
        /\ lib'.str[s].life = "closing" /\ lib'.str[s].cookie = lib.str[s].cookie /\ lib'.dead = lib.dead
    BY <1>0, <2>1
  <2>3. RegisteredKept(lib'.str[s], registered'[s])
    BY <2>2 DEF RegisteredKept
  <2> QED BY <1>0, <2>1, <2>2, <2>3, PastFields
<1>2. CASE NotifyStart(s)
  <2> DEFINE h == Head(lib.str[s].onclose)
             w == Without(lib.str[s].asked, h)
             t == Tail(lib.str[s].onclose)
  <2>1. /\ lib.str[s].life = "closing" /\ ended' = ended /\ hollow' = hollow
        /\ lib' = IF h = NoHandler THEN [lib EXCEPT !.str[s].onclose = t]
                  ELSE [lib EXCEPT !.str[s].running = h, !.str[s].asked = w]
        /\ registered' = [registered EXCEPT ![s] = registered[s] \ {h}]
    BY <1>0, <1>2 DEF NotifyStart
  <2> HIDE DEF h, w, t
  <2>2. /\ \A u \in Stream : u # s => lib'.str[u] = lib.str[u]
        /\ lib'.str[s].life = "closing" /\ lib'.str[s].cookie = lib.str[s].cookie /\ lib'.dead = lib.dead
    BY <1>0, <2>1
  <2>3. RegisteredKept(lib'.str[s], registered'[s])
    BY <2>2 DEF RegisteredKept
  <2> QED BY <1>0, <2>1, <2>2, <2>3, PastFields
<1>3. CASE NotifyEnd(s)
  <2> DEFINE v == AfterRunning(s)
  <2>1. /\ lib.str[s].life = "closing" /\ ended' = ended /\ hollow' = hollow /\ registered' = registered
        /\ lib' = [lib EXCEPT !.str[s].running = NoHandler, !.str[s].onclose = v]
    BY <1>0, <1>3 DEF NotifyEnd, history
  <2> HIDE DEF v
  <2>2. /\ \A u \in Stream : u # s => lib'.str[u] = lib.str[u]
        /\ lib'.str[s].life = "closing" /\ lib'.str[s].cookie = lib.str[s].cookie /\ lib'.dead = lib.dead
    BY <1>0, <2>1
  <2>3. RegisteredKept(lib'.str[s], registered'[s])
    BY <2>2 DEF RegisteredKept
  <2> QED BY <1>0, <2>1, <2>2, <2>3, PastFields
<1>4. ASSUME NEW h \in Handler, Onclose(s, h)
      PROVE  PastStep(s)
  <2> DEFINE v == Pushed(lib.str[s].onclose, h)
             w == IF Running(s) THEN lib.str[s].asked ELSE Append(lib.str[s].asked, h)
  <2>1. /\ lib.str[s].life # "none" /\ ended' = ended /\ hollow' = hollow
        /\ lib' = [lib EXCEPT !.str[s].onclose = v, !.str[s].asked = w]
        /\ registered' = [registered EXCEPT ![s] = registered[s] \cup {h}]
    BY <1>0, <1>4 DEF Onclose
  <2>2. ~Running(s) => Range(w) = Range(lib.str[s].asked) \cup {h}
    BY <1>0, RangeAppend
  <2> HIDE DEF v, w
  <2>3. /\ \A u \in Stream : u # s => lib'.str[u] = lib.str[u]
        /\ lib'.str[s].life = lib.str[s].life /\ lib'.str[s].cookie = lib.str[s].cookie
        /\ lib'.str[s].reopened = lib.str[s].reopened /\ lib'.str[s].asked = w /\ lib'.dead = lib.dead
    BY <1>0, <2>1
  <2>4. RegisteredKept(lib'.str[s], registered'[s])
    BY <1>0, <2>1, <2>2, <2>3 DEF RegisteredKept
  <2> QED BY <1>0, <2>1, <2>3, <2>4, PastFields
<1>5. ASSUME NEW h \in Handler, Unregister(s, h)
      PROVE  PastStep(s)
  <2> DEFINE v == Disabled(lib.str[s].onclose, h)
             w == Without(lib.str[s].asked, h)
  <2>1. /\ lib.str[s].life # "none" /\ ended' = ended /\ hollow' = hollow
        /\ lib' = [lib EXCEPT !.str[s].onclose = v, !.str[s].asked = w]
        /\ registered' = [registered EXCEPT ![s] = registered[s] \ {h}]
    BY <1>0, <1>5 DEF Unregister
  <2>2. Range(w) = Range(lib.str[s].asked) \ {h}
    BY <1>0, RangeWithout
  <2> HIDE DEF v, w
  <2>3. /\ \A u \in Stream : u # s => lib'.str[u] = lib.str[u]
        /\ lib'.str[s].life = lib.str[s].life /\ lib'.str[s].cookie = lib.str[s].cookie
        /\ lib'.str[s].reopened = lib.str[s].reopened /\ lib'.str[s].asked = w /\ lib'.dead = lib.dead
    BY <1>0, <2>1
  <2>4. RegisteredKept(lib'.str[s], registered'[s])
    BY <1>0, <2>1, <2>2, <2>3 DEF RegisteredKept
  <2> QED BY <1>0, <2>1, <2>3, <2>4, PastFields
<1> QED BY <1>1, <1>2, <1>3, <1>4, <1>5

\* Modes and names are nothing to it.
LEMMA PastUses ==
  ASSUME PastInv, ~lib.dead, NEW s \in Stream, UseStep(s)
  PROVE  PastStep(s)
<1>0. /\ DOMAIN lib = {"fd", "str", "dead"} /\ DOMAIN lib.str = Stream /\ DOMAIN lib.str[s] = Fields
      /\ {"life", "asked", "cookie", "reopened", "modeflag", "told", "name", "held", "inuse"} \subseteq Fields
      /\ DOMAIN registered = Stream /\ RegisteredKept(lib.str[s], registered[s])
  BY PastGives DEF Shape, StreamShape, Fields
<1>1. SUFFICES /\ \A t \in Stream : t # s => lib'.str[t] = lib.str[t]
               /\ lib'.str[s].life = lib.str[s].life /\ lib'.str[s].cookie = lib.str[s].cookie
               /\ lib'.str[s].reopened = lib.str[s].reopened /\ lib'.str[s].asked = lib.str[s].asked
               /\ lib'.dead = lib.dead
  <2>1. ended' = ended /\ hollow' = hollow /\ registered' = registered
    BY DEF UseStep, set_nonblock, fname_set, fname_get, history
  <2>2. RegisteredKept(lib'.str[s], registered'[s])
    BY <1>0, <1>1, <2>1 DEF RegisteredKept
  <2> QED BY <1>0, <1>1, <2>1, <2>2, PastFields, SMTT(60)
<1>2. ASSUME NEW onoff \in BOOLEAN, NEW failed \in BOOLEAN, set_nonblock(s, onoff, failed)
      PROVE  /\ \A t \in Stream : t # s => lib'.str[t] = lib.str[t]
             /\ lib'.str[s].life = lib.str[s].life /\ lib'.str[s].cookie = lib.str[s].cookie
             /\ lib'.str[s].reopened = lib.str[s].reopened /\ lib'.str[s].asked = lib.str[s].asked
             /\ lib'.dead = lib.dead
  <2> DEFINE d == lib.str[s].fd
             b == IF onoff THEN "on" ELSE "off"
             m == Restored(lib.str[s].modeflag, onoff)
  <2>1. lib' = IF failed THEN [lib EXCEPT !.str[s].modeflag = m]
               ELSE [lib EXCEPT !.str[s].modeflag = onoff, !.str[s].told = b, !.fd[d].nonblock = onoff]
    BY <1>0, <1>2 DEF set_nonblock
  <2> HIDE DEF d, b, m
  <2> QED BY <1>0, <2>1
<1>3. ASSUME fname_set(s)
      PROVE  /\ \A t \in Stream : t # s => lib'.str[t] = lib.str[t]
             /\ lib'.str[s].life = lib.str[s].life /\ lib'.str[s].cookie = lib.str[s].cookie
             /\ lib'.str[s].reopened = lib.str[s].reopened /\ lib'.str[s].asked = lib.str[s].asked
             /\ lib'.dead = lib.dead
  <2> DEFINE b == IF lib.str[s].held = "yes" /\ ~lib.str[s].inuse THEN "dangling" ELSE lib.str[s].held
  <2>1. lib' = [lib EXCEPT !.str[s].name = TRUE, !.str[s].held = b]
    BY <1>0, <1>3 DEF fname_set
  <2> HIDE DEF b
  <2> QED BY <1>0, <2>1
<1>4. ASSUME fname_get(s)
      PROVE  /\ \A t \in Stream : t # s => lib'.str[t] = lib.str[t]
             /\ lib'.str[s].life = lib.str[s].life /\ lib'.str[s].cookie = lib.str[s].cookie
             /\ lib'.str[s].reopened = lib.str[s].reopened /\ lib'.str[s].asked = lib.str[s].asked
             /\ lib'.dead = lib.dead
  <2> DEFINE b == InUse(lib.str[s].name)
  <2>1. lib' = [lib EXCEPT !.str[s].inuse = b, !.str[s].held = "yes"]
    BY <1>0, <1>4 DEF fname_get
  <2> HIDE DEF b
  <2> QED BY <1>0, <2>1
<1> QED BY <1>2, <1>3, <1>4 DEF UseStep

\* PastInv holds at the start.
LEMMA PastInitial == OpenInit => PastInv
<1> SUFFICES ASSUME OpenInit PROVE PastInv
  OBVIOUS
<1>1. /\ lib.str = [s \in Stream |-> NoStream] /\ lib.dead = FALSE
      /\ hollow = {} /\ registered = [s \in Stream |-> {}] /\ NotifyInv
  BY NotifyInitial DEF OpenInit
<1>2. ASSUME NEW s \in Stream PROVE PastKept(s)
  <2>1. lib.str[s] = NoStream /\ registered[s] = {} /\ s \notin hollow
    BY <1>1
  <2> QED BY <2>1, NoStreamIs, NothingInRange DEF PastKept, Cookieless, RegisteredKept
<1> QED BY <1>1, <1>2 DEF PastInv, EndedKept

\* It is inductive.
LEMMA PastInductive == PastInv /\ [OpenNext]_openVars => PastInv'
<1> SUFFICES ASSUME PastInv, [OpenNext]_openVars PROVE PastInv'
  OBVIOUS
<1>0. NotifyInv /\ NotifyInv' /\ Shape(lib)
  BY NotifyInductive DEF PastInv, NotifyInv, OInv
<1>1. CASE UNCHANGED openVars
  BY <1>0, <1>1 DEF openVars, PastInv, PastKept, EndedKept, Cookieless
<1>2. ASSUME ~lib.dead, NEW s \in Stream, PastStep(s)
      PROVE  PastInv'
  <2>1. ASSUME ~lib'.dead, NEW t \in Stream PROVE PastKept(t)'
    <3>1. CASE t = s
      BY <1>2, <2>1, <3>1 DEF PastStep
    <3>2. CASE t # s
      <4>1. PastKept(t)
        BY <1>2 DEF PastInv
      <4> QED BY <1>2, <3>2, <4>1 DEF PastStep, PastKept, Cookieless
    <3> QED BY <3>1, <3>2
  <2> QED BY <1>0, <1>2, <2>1 DEF PastInv, PastStep
<1>3. ASSUME ~lib.dead, NEW s \in Stream, NEW way, NEW d \in Desc \cup {NoDesc}, NEW no_close,
             {no_close} \subseteq BOOLEAN, OpenAny(s, way, d, no_close)
      PROVE  PastInv'
  <2>1. PICK nonblock \in BOOLEAN, garbage \in BOOLEAN, failure \in Failures :
          Open(s, way, d, no_close, nonblock, failure, garbage)
    BY <1>3 DEF OpenAny
  <2>2. {no_close, nonblock, garbage} \subseteq BOOLEAN
    BY <1>3
  <2> QED BY <1>2, <1>3, <2>1, <2>2, PastOpens
<1>4. ASSUME ~lib.dead, NEW s \in Stream, OpenStep(s)
      PROVE  PastInv'
  <2>1. PICK no : no = FALSE /\ {no} \subseteq BOOLEAN
    OBVIOUS
  <2>2. CASE fopen(s)
    <3>1. PICK d \in Desc : OpenAny(s, "fopen", d, no)
      BY <2>1, <2>2 DEF fopen
    <3> QED BY <1>3, <1>4, <2>1, <3>1
  <2>3. CASE tmpfile(s)
    <3>1. PICK d \in Desc : OpenAny(s, "tmpfile", d, no)
      BY <2>1, <2>3 DEF tmpfile
    <3> QED BY <1>3, <1>4, <2>1, <3>1
  <2>4. CASE fopencookie(s)
    <3>1. OpenAny(s, "fopencookie", NoDesc, no)
      BY <2>1, <2>4 DEF fopencookie
    <3> QED BY <1>3, <1>4, <2>1, <3>1
  <2>5. CASE do_fpopen(s) \/ do_sysopen(s)
    <3>1. PICK way \in {"fpopen", "fdopen", "sockopen", "w32open"}, d \in Desc \cup {NoDesc}, no_close \in BOOLEAN :
            OpenAny(s, way, d, no_close)
      BY <2>5 DEF do_fpopen, do_sysopen, do_fdopen, do_sockopen, do_w32open
    <3>2. {no_close} \subseteq BOOLEAN
      OBVIOUS
    <3> QED BY <1>3, <1>4, <3>1, <3>2
  <2>6. CASE \E d \in Desc, nonblock, failed \in BOOLEAN : Freopen(s, d, nonblock, failed)
    <3>1. PastStep(s)
      BY <1>4, <2>6, PastLeaves
    <3> QED BY <1>2, <1>4, <3>1
  <2> QED BY <1>4, <2>2, <2>3, <2>4, <2>5, <2>6 DEF OpenStep
<1>5. ASSUME ~lib.dead, NEW s \in Stream, CloseStep(s) \/ UseStep(s)
      PROVE  PastInv'
  <2>1. PastStep(s)
    BY <1>5, PastNotifies, PastLeaves, PastUses DEF CloseStep
  <2> QED BY <1>2, <1>5, <2>1
<1>6. ASSUME ~lib.dead, NEW d \in Desc, AppStep(d)
      PROVE  PastInv'
  <2>1. lib'.str = lib.str /\ lib'.dead = lib.dead /\ ended' = ended /\ hollow' = hollow /\ registered' = registered
    <3>1. ASSUME NEW nonblock \in BOOLEAN, AppOpen(d, nonblock)
          PROVE  lib'.str = lib.str /\ lib'.dead = lib.dead /\ ended' = ended /\ hollow' = hollow /\ registered' = registered
      BY <1>0, <3>1 DEF AppOpen, Shape, history
    <3>2. CASE AppClose(d)
      BY <1>0, <3>2 DEF AppClose, ClosedFd, Shape, history
    <3> QED BY <1>6, <3>1, <3>2 DEF AppStep
  <2> QED BY <1>0, <1>6, <2>1 DEF PastInv, PastKept, EndedKept, Cookieless
<1> QED BY <1>1, <1>4, <1>5, <1>6 DEF OpenNext

\* It implies the accounts and the notifications.
LEMMA PastMeans == PastInv => DescriptorsAccounted /\ NotificationsKept
<1> SUFFICES ASSUME PastInv PROVE DescriptorsAccounted /\ NotificationsKept
  OBVIOUS
<1>1. DescriptorsAccounted
  <2>1. CASE lib.dead
    BY <2>1 DEF PastInv, EndedKept, DescriptorsAccounted
  <2>2. CASE ~lib.dead
    <3> SUFFICES ASSUME NEW d \in Desc
                 PROVE  /\ own[d] = "app" => lib.fd[d].open
                        /\ own[d] = "none" => ~lib.fd[d].open
                        /\ own[d] = "lib" =>
                             \/ \E s \in hollow : lib.str[s].fd = d
                             \/ lib.fd[d].open /\ \E s \in Stream : Refers(s, d) /\ ~lib.str[s].no_close
      BY <2>2 DEF DescriptorsAccounted
    <3>1. AccountsKept /\ \A s \in Stream : s \in hollow <=> Cookieless(s)
      BY <2>2, OInvMeans DEF PastInv, NotifyInv, PastKept
    <3> QED BY <2>2, <3>1 DEF AccountsKept
  <2> QED BY <2>1, <2>2
<1>2. NotificationsKept
  <2> SUFFICES ASSUME ~lib.dead, NEW s \in Stream
               PROVE  /\ Handlers(IF Running(s) THEN AfterRunning(s) ELSE lib.str[s].onclose)
                           = Reverse(lib.str[s].asked)
                      /\ registered[s] # Range(lib.str[s].asked) =>
                           lib.str[s].reopened \/ lib.str[s].life = "closing"
    BY DEF NotificationsKept
  <2>1. NotifyInv /\ RegisteredKept(lib.str[s], registered[s])
    BY DEF PastInv, PastKept
  <2> QED BY <2>1, NotifyMeans DEF RegisteredKept
<1> QED BY <1>1, <1>2

\* Whatever is opened, reopened and closed, over whatever descriptors and with whichever
\* failures, each descriptor is closed by whoever has to (create_stream, do_close and the
\* destroy functions of the backends); what frees a cookie a second time is no close but
\* one of the four that DescriptorsAccounted names.
THEOREM OpenDescriptorsAccounted == OpenSpec => []DescriptorsAccounted
BY PastInitial, PastInductive, PastMeans, PTL DEF OpenSpec

\* Whatever is registered or unregistered before a close, between two notifications or while
\* one runs, the close has still to make those that were asked for and not taken back, the
\* last one first, each once (gpgrt_onclose, do_close); of those registered it makes all but
\* what comes while one runs or was there before a freopen.
THEOREM OpenNotificationsKept == OpenSpec => []NotificationsKept
BY PastInitial, PastInductive, PastMeans, PTL DEF OpenSpec

\* What a stream promises its program holds for every number of streams, descriptors and
\* handlers: notifications, the nonblock flag, the name, and where the standard streams go.
THEOREM StreamPromises == OpenSpec /\ StdSpec => []StreamPromisesKept
<1>1. NotificationsKept /\ NonblockAgrees /\ NameLasts /\ StdStreamsKept => StreamPromisesKept
  BY DEF StreamPromisesKept
<1> QED BY <1>1, OpenNotificationsKept, OpenNonblockAgrees, OpenNameLasts, StdStreamsGoRight, PTL

-----------------------------------------------------------------------------
(*****************************************************************************)
(* Locks.                                                                    *)
(*****************************************************************************)
Kind == {"lock", "try"}
Place == {"look", "count", "init", "done", "spin", "enter"}
AtPlace(t, place) == \E kind \in Kind : lockAt[t] = <<kind, place>>
Initing(t) == AtPlace(t, "init") \/ AtPlace(t, "done")

Positions == {OutCode} \cup {<<kind, place>> : kind \in Kind, place \in Place}
CsecType == csec \in [owner : LockThread \cup {NoOwner}, depth : Int, life : Int]
LockTypes ==
  /\ started \in Int /\ CsecType
  /\ lockAt \in [LockThread -> Positions] /\ inside \in [LockThread -> Int]

\* Who initializes the lock is alone, has counted, and finds it not initialized.
OneInits ==
  /\ \A t, u \in LockThread : Initing(t) /\ Initing(u) => t = u
  /\ \A t \in LockThread : Initing(t) => ~initdone /\ started >= 0
Counted == started >= -1 /\ (initdone => started >= 0)
\* Nobody is in a lock, or about to enter it, before it is initialized.
InsideInitialized ==
  \A t \in LockThread : inside[t] # 0 \/ AtPlace(t, "enter") => initdone
InsideOwns == \A t \in LockThread : inside[t] # 0 => inside[t] = csec.life /\ csec.owner = t

LockInv == LockTypes /\ OneInits /\ Counted /\ InsideInitialized /\ InsideOwns

\* LockInv holds before the first use of the lock.
LEMMA LockInitial == LockInit => LockInv
<1> SUFFICES ASSUME LockInit PROVE LockInv
  OBVIOUS
<1>1. LockTypes
  BY DEF LockInit, LockTypes, CsecType, Positions
<1>2. \A t \in LockThread, place \in Place : ~AtPlace(t, place)
  BY DEF LockInit, AtPlace, Place, OutCode
<1> QED
  BY <1>1, <1>2 DEF LockInit, LockInv, OneInits, Counted, InsideInitialized, InsideOwns, Initing, Place

\* Every step keeps LockInv: who counts first initializes, and all others wait for it.
LEMMA LockInductive == LockInv /\ [LockNext]_lockVars => LockInv'
<1> SUFFICES ASSUME LockInv, [LockNext]_lockVars PROVE LockInv'
  OBVIOUS
<1> USE LockAssumption DEF LockInv, LockTypes, OneInits, Counted, InsideInitialized, InsideOwns, Initing,
        AtPlace, Place, Kind, OutCode, Goes, Positions, CsecType
<1>1. ASSUME NEW t \in LockThread, NEW kind \in Kind, Calls(t, kind) PROVE LockInv'
  BY <1>1 DEF Calls
<1>2. ASSUME NEW t \in LockThread, NEW kind \in Kind, Looks(t, kind) PROVE LockInv'
  <2>1. LockTypes'
    BY <1>2 DEF Looks
  <2>2. OneInits'
    BY <1>2 DEF Looks
  <2>3. Counted' /\ InsideInitialized' /\ InsideOwns'
    BY <1>2 DEF Looks
  <2> QED BY <2>1, <2>2, <2>3
<1>3. ASSUME NEW t \in LockThread, NEW kind \in Kind, Counts(t, kind) PROVE LockInv'
  <2>1. LockTypes'
    BY <1>3 DEF Counts
  <2>2. OneInits'
    BY <1>3 DEF Counts
  <2>3. Counted' /\ InsideInitialized' /\ InsideOwns'
    BY <1>3 DEF Counts
  <2> QED BY <2>1, <2>2, <2>3
<1>4. ASSUME NEW t \in LockThread, NEW kind \in Kind, Initializes(t, kind) PROVE LockInv'
  <2>1. LockTypes'
    BY <1>4 DEF Initializes
  <2>2. OneInits'
    BY <1>4 DEF Initializes
  <2>3. Counted' /\ InsideInitialized' /\ InsideOwns'
    BY <1>4 DEF Initializes
  <2> QED BY <2>1, <2>2, <2>3
<1>5. ASSUME NEW t \in LockThread, NEW kind \in Kind, InitDone(t, kind) PROVE LockInv'
  <2>1. LockTypes'
    BY <1>5 DEF InitDone
  <2>2. OneInits'
    BY <1>5, SMTT(60) DEF InitDone
  <2>3. Counted' /\ InsideInitialized' /\ InsideOwns'
    BY <1>5 DEF InitDone
  <2> QED BY <2>1, <2>2, <2>3
<1>6. ASSUME NEW t \in LockThread, NEW kind \in Kind, Spins(t, kind) PROVE LockInv'
  BY <1>6 DEF Spins
<1>7. ASSUME NEW t \in LockThread, NEW kind \in Kind, Enters(t, kind) PROVE LockInv'
  <2>1. /\ csec'.owner = t /\ csec'.life = csec.life
        /\ CsecType'
    BY <1>7 DEF Enters
  <2>2. initdone
    BY <1>7 DEF Enters
  <2>3. LockTypes'
    BY <1>7, <2>1 DEF Enters
  <2>4. OneInits'
    BY <1>7, SMTT(60) DEF Enters
  <2>5. \A u \in LockThread : u # t /\ inside[u] # 0 => FALSE
    BY <1>7 DEF Enters, CanEnter
  <2>6. Counted' /\ InsideInitialized'
    BY <1>7, <2>2 DEF Enters
  <2>7. InsideOwns'
    BY <1>7, <2>1, <2>5 DEF Enters
  <2> QED BY <2>3, <2>4, <2>6, <2>7
<1>8. ASSUME NEW t \in LockThread, TryFails(t) PROVE LockInv'
  BY <1>8 DEF TryFails
<1>9. ASSUME NEW t \in LockThread, Leaves(t) PROVE LockInv'
  <2>1. /\ csec'.life = csec.life /\ CsecType'
        /\ csec'.owner = IF csec.depth = 1 THEN NoOwner ELSE csec.owner
    BY <1>9 DEF Leaves
  <2>2. LockTypes'
    BY <1>9, <2>1 DEF Leaves
  <2>3. OneInits' /\ Counted' /\ InsideInitialized'
    BY <1>9 DEF Leaves
  <2>4. InsideOwns'
    BY <1>9, <2>1 DEF Leaves
  <2> QED BY <2>2, <2>3, <2>4
<1>10. ASSUME Destroys PROVE LockInv'
  BY <1>10 DEF Destroys
<1>11. ASSUME UNCHANGED w32LockVars PROVE LockInv'
  BY <1>11 DEF w32LockVars
<1>12. PosixLockNext => UNCHANGED w32LockVars
  BY DEF PosixLockNext, lock_stream, ftrylockfile, unlock_stream
<1>13. UNCHANGED lockVars => UNCHANGED w32LockVars
  BY DEF lockVars, w32LockVars
<1>14. W32LockNext => LockInv'
  <2> HIDE DEF LockInv
  <2> SUFFICES ASSUME W32LockNext PROVE LockInv'
    OBVIOUS
  <2>1. CASE \E t \in LockThread, kind \in Kind :
               \/ Calls(t, kind) \/ Looks(t, kind) \/ Counts(t, kind) \/ Initializes(t, kind)
               \/ InitDone(t, kind) \/ Spins(t, kind) \/ Enters(t, kind)
    BY <2>1, <1>1, <1>2, <1>3, <1>4, <1>5, <1>6, <1>7
  <2>2. CASE \E t \in LockThread : TryFails(t) \/ Leaves(t)
    BY <2>2, <1>8, <1>9
  <2>3. CASE Destroys
    BY <2>3, <1>10
  <2> QED BY <2>1, <2>2, <2>3 DEF W32LockNext
<1> QED
  BY <1>11, <1>12, <1>13, <1>14 DEF LockNext

\* A Windows lock that several threads need for the first time at once, or again after it
\* was destroyed, is initialized by one of them, and is never replaced under one that is
\* in it (_gpgrt_lock_lock of w32-lock.c).
THEOREM InitializedOnce == LockSpec => []LockInitializedOnce
<1>1. LockInv => LockInitializedOnce
  <2> SUFFICES ASSUME LockInv PROVE LockInitializedOnce
    OBVIOUS
  <2> DEFINE S == {t \in LockThread : lockAt[t] \in {"lock", "try"} \X {"init", "done"}}
  <2>1. \A t \in S : Initing(t)
    BY DEF Initing, AtPlace, Kind
  <2>1a. S = {} \/ \E t \in S : S = {t}
    BY <2>1 DEF LockInv, OneInits
  <2>2. Cardinality(S) <= 1
    <3>1. CASE S = {}
      BY <3>1, FS_EmptySet
    <3>2. ASSUME NEW t \in S, S = {t} PROVE Cardinality(S) <= 1
      <4>1. Cardinality({t}) = 1
        BY FS_Singleton
      <4> HIDE DEF S
      <4> QED BY <4>1, <3>2
    <3> QED BY <2>1a, <3>1, <3>2
  <2> QED
    BY <2>2 DEF LockInv, InsideOwns, LockInitializedOnce
<1> QED
  BY LockInitial, LockInductive, <1>1, PTL DEF LockSpec

-----------------------------------------------------------------------------
(*****************************************************************************)
(* The clamp around system calls.                                            *)
(*****************************************************************************)
\* While the clamp is set, the lock of nPth is with the one thread that runs.
RunnerHasLock == clamp => \A t \in ClampThread : clampAt[t] = "runs" <=> npth = t

ClampInv ==
  /\ clampAt \in [ClampThread -> {"runs", "calls", "back"}]
  /\ RunnerHasLock

\* ClampInv holds at the start.
LEMMA ClampInitial == ClampInit => ClampInv
  BY ClampAssumption DEF ClampInit, ClampInv, RunnerHasLock

\* Every step keeps ClampInv: a thread that comes back from the system waits for nPth's lock.
LEMMA ClampInductive == ClampInv /\ [ClampNext]_clampVars => ClampInv'
<1> SUFFICES ASSUME ClampInv, [ClampNext]_clampVars PROVE ClampInv'
  OBVIOUS
<1> USE ClampAssumption DEF ClampInv, RunnerHasLock
<1>1. ASSUME NEW t \in ClampThread, NEW c \in Call, StartCall(t, c) PROVE ClampInv'
  \* The caller gives the lock up and nobody runs.
  BY <1>1 DEF StartCall
<1>2. ASSUME NEW t \in ClampThread, Interrupted(t) PROVE ClampInv'
  BY <1>2 DEF Interrupted, clampVars
<1>3. ASSUME NEW t \in ClampThread, PostSyscall(t) PROVE ClampInv'
  <2>1. CASE clamp
    \* The lock was free, so that no other thread runs.
    BY <1>3, <2>1 DEF PostSyscall, Posts
  <2>2. CASE ~clamp
    BY <1>3, <2>2 DEF PostSyscall
  <2> QED BY <2>1, <2>2
<1>4. ASSUME NEW t \in ClampThread, Deinit(t) PROVE ClampInv'
  BY <1>4 DEF Deinit
<1>5. ASSUME NEW t \in ClampThread, NEW o, Returns(t, o) PROVE ClampInv'
  BY <1>5 DEF Returns
<1>6. ASSUME NEW t \in ClampThread, NEW o, NEW c \in Call, Answer(t, c, o) PROVE ClampInv'
  BY <1>6 DEF Answer
<1>7. CASE UNCHANGED clampVars
  BY <1>7 DEF clampVars
<1> QED
  BY <1>1, <1>2, <1>3, <1>4, <1>5, <1>6, <1>7 DEF ClampNext

\* One thread at a time runs in a program that uses nPth, and none that waits in the system
\* keeps the lock (_gpgrt_pre_syscall and _gpgrt_post_syscall around each call of estream.c).
THEOREM OneThread == ClampSpec => []OneThreadRuns
<1>1. ClampInv => OneThreadRuns
  BY DEF ClampInv, RunnerHasLock, OneThreadRuns
<1> QED
  BY ClampInitial, ClampInductive, <1>1, PTL DEF ClampSpec

-----------------------------------------------------------------------------
(*****************************************************************************)
(* Poll.                                                                     *)
(*****************************************************************************)
\* While a call waits nothing was pending when it began, and the array holds nothing yet.
PollInv ==
  /\ interface \in {"poll", "select"}
  /\ call \in [pc : {"idle", "wait", "done"}, count : Int]
  /\ call.pc = "wait" => got = Nothing /\ \A i \in PollItems : ~Pending(i)
  /\ PollItemsExact

\* Sets of items are finite and can be counted.
LEMMA ItemsFinite == \A S \in SUBSET PollItems : IsFiniteSet(S) /\ Cardinality(S) \in Nat
<1> TAKE S \in SUBSET PollItems
<1>1. PollLength \in Nat
  BY PollAssumption
<1>2. IsFiniteSet(PollItems)
  BY <1>1, FS_Interval DEF PollItems
<1> QED
  BY <1>2, FS_Subset, FS_CardinalityType

\* No item has news when the array holds nothing.
LEMMA NoNews == With(Nothing) = 0
<1>1. {i \in PollItems : Nothing[i] # {}} = {}
  BY DEF Nothing
<1> QED
  BY <1>1, FS_EmptySet DEF With

\* Two items that are asked about get different slots of the array for poll(2).
LEMMA SlotsDiffer ==
  ASSUME NEW i \in PollItems, NEW j \in PollItems, Asked(i), i < j
  PROVE  FillSlot(i) < FillSlot(j)
<1> DEFINE L == {m \in PollItems : m < i /\ Asked(m)}
           M == {m \in PollItems : m < j /\ Asked(m)}
<1>1. PollItems \subseteq Int
  BY DEF PollItems
<1>2. L \subseteq M /\ i \in M /\ i \notin L
  <2>1. \A m \in PollItems : m < i => m < j
    BY <1>1
  <2>2. ~(i < i)
    BY <1>1
  <2> QED
    BY <2>1, <2>2
<1>3. IsFiniteSet(M) /\ IsFiniteSet(L) /\ Cardinality(L) \in Nat /\ Cardinality(M) \in Nat
  BY ItemsFinite
<1>4. Cardinality(L) < Cardinality(M)
  <2>1. L # M
    BY <1>2
  <2> HIDE DEF L, M
  <2> QED
    BY <2>1, <1>2, <1>3, FS_Subset
<1> QED
  BY <1>3, <1>4 DEF FillSlot

\* The slot in which _gpgrt_poll reads the answer of an item is the one it filled for it.
LEMMA OwnSlot ==
  ASSUME NEW k, NEW i \in PollItems, Asked(i)
  PROVE  /\ ReadSlot(i) \in DOMAIN PollFds(k)
         /\ PollFds(k)[ReadSlot(i)] = k[item[i].fd] \cap (EventsOf(item[i].want) \cup {"err", "hup", "nval"})
<1>1. ReadSlot(i) = FillSlot(i)
  BY DEF ReadSlot, FillSlot
<1>2. PollItems \subseteq Int
  BY DEF PollItems
<1>3. \A j \in PollItems : FillSlot(j) \in Int
  BY ItemsFinite DEF FillSlot
<1>4. ASSUME NEW j \in PollItems, Asked(j), FillSlot(j) = FillSlot(i) PROVE j = i
  BY <1>2, <1>3, <1>4, SlotsDiffer
<1> DEFINE C == CHOOSE j \in PollItems : Asked(j) /\ FillSlot(j) = FillSlot(i)
<1>5. C \in PollItems /\ Asked(C) /\ FillSlot(C) = FillSlot(i)
  OBVIOUS
<1>6. C = i
  BY <1>4, <1>5
<1>7. FillSlot(i) \in {FillSlot(m) : m \in {j \in PollItems : Asked(j)}}
  OBVIOUS
<1>8. PollFds(k)[FillSlot(i)] = k[item[C].fd] \cap (EventsOf(item[C].want) \cup {"err", "hup", "nval"})
  BY <1>7 DEF PollFds
<1>9. FillSlot(i) \in DOMAIN PollFds(k)
  BY <1>7 DEF PollFds
<1> QED
  BY <1>1, <1>6, <1>8, <1>9

\* What _gpgrt_poll makes of the events poll(2) returns for a slot.
LEMMA AnswerOfPoll ==
  ASSUME NEW events, NEW want, NEW i, want = item[i].want, interface = "poll",
         NEW revents, revents = events \cap (EventsOf(want) \cup {"err", "hup", "nval"})
  PROVE  /\ \A w \in Wants : w \in GotOfPoll(i, revents) <=> w \in item[i].want /\ Ready(w, events)
         /\ "hup" \in GotOfPoll(i, revents) <=> item[i].hup
         /\ "nval" \in GotOfPoll(i, revents) <=> "nval" \in events
<1> DEFINE G == GotOfPoll(i, revents)
<1>1. ("hup" \in G <=> item[i].hup) /\ ("nval" \in G <=> "nval" \in events)
  BY DEF GotOfPoll, EventsOf
<1>2. "read" \in G <=> "read" \in want /\ Ready("read", events)
  <2>1. "read" \in G <=> "read" \in want /\ revents \cap {"in", "hup"} # {}
    BY DEF GotOfPoll
  <2>2. "read" \in want => revents \cap {"in", "hup"} = events \cap {"in", "hup"}
    BY DEF EventsOf
  <2> QED
    BY <2>1, <2>2 DEF Ready
<1>3. "write" \in G <=> "write" \in want /\ Ready("write", events)
  <2>1. "write" \in G <=> "write" \in want /\ "out" \in revents
    BY DEF GotOfPoll
  <2>2. "write" \in want => ("out" \in revents <=> "out" \in events)
    BY DEF EventsOf
  <2> QED
    BY <2>1, <2>2 DEF Ready
<1>4. "oob" \in G <=> "oob" \in want /\ Ready("oob", events)
  <2>1. "oob" \in G <=> "oob" \in want /\ revents \ {"in", "out"} # {}
    BY DEF GotOfPoll
  <2>2. "oob" \in want => revents \ {"in", "out"} = events \cap {"pri", "err", "hup", "nval"}
    BY DEF EventsOf
  <2> QED
    BY <2>1, <2>2 DEF Ready
<1> QED
  BY <1>1, <1>2, <1>3, <1>4 DEF Wants

\* What _gpgrt_poll makes of the sets that select returns.
LEMMA AnswerOfSelect ==
  ASSUME NEW k, NEW i, interface = "select"
  PROVE  /\ \A w \in Wants : w \in GotOfSelect(i, k) <=> w \in item[i].want /\ Ready(w, k[item[i].fd])
         /\ "hup" \in GotOfSelect(i, k) <=> item[i].hup
         /\ "nval" \notin GotOfSelect(i, k)
<1> DEFINE G == GotOfSelect(i, k)
           events == k[item[i].fd]
<1>1. ("hup" \in G <=> item[i].hup) /\ "nval" \notin G
  BY DEF GotOfSelect
<1>2. "read" \in G <=> "read" \in item[i].want /\ Ready("read", events)
  BY DEF GotOfSelect, Ready
<1>3. "write" \in G <=> "write" \in item[i].want /\ Ready("write", events)
  BY DEF GotOfSelect, Ready
<1>4. "oob" \in G <=> "oob" \in item[i].want /\ Ready("oob", events)
  BY DEF GotOfSelect, Ready
<1> QED
  BY <1>1, <1>2, <1>3, <1>4 DEF Wants

\* PollInv holds before the first call.
LEMMA PollInitial == PollInit => PollInv
  BY DEF PollInit, PollInv, PollItemsExact

\* Every step of a call keeps PollInv: a wait begins only if nothing was pending.
LEMMA PollInductive == PollInv /\ [PollNext]_pollVars => PollInv'
<1> SUFFICES ASSUME PollInv, [PollNext]_pollVars PROVE PollInv'
  OBVIOUS
<1>1. ASSUME PollStart PROVE PollInv'
  <2> DEFINE P == {i \in PollItems : Pending(i)}
             first == [i \in PollItems |-> IF Pending(i) THEN {"read"} ELSE {}]
  <2>1. Cardinality(P) \in Nat /\ (Cardinality(P) = 0 <=> P = {})
    BY ItemsFinite, FS_EmptySet
  <2>2. got' = first
    BY <1>1 DEF PollStart, Cleared, Nothing
  <2>3. call' = [pc |-> IF Cardinality(P) > 0 THEN "done" ELSE "wait", count |-> Cardinality(P)]
    BY <1>1 DEF PollStart
  <2>4. item' = item /\ interface' = interface
    BY <1>1 DEF PollStart
  <2>5. \A i : Pending(i)' = Pending(i)
    BY <2>4 DEF Pending
  <2>6. {i \in PollItems : first[i] # {}} = P
    OBVIOUS
  <2>7. With(first) = Cardinality(P)
    BY <2>6 DEF With
  <2>8. P = {} => got' = Nothing
    BY <2>2 DEF Nothing
  <2>9. (call.pc = "wait" => got = Nothing /\ \A i \in PollItems : ~Pending(i))'
    BY <2>1, <2>3, <2>5, <2>8
  <2>10. PollItemsExact'
    <3> SUFFICES ASSUME call'.pc = "done" PROVE PollItemsExact'
      BY DEF PollItemsExact
    <3>1. P # {} /\ call'.count = Cardinality(P) /\ call'.count # -1
      BY <2>1, <2>3
    <3>2. \A i \in PollItems : item[i].ignore => got'[i] = {}
      BY <2>2 DEF Pending
    <3>3. \E i \in PollItems : Pending(i)'
      BY <3>1, <2>5
    <3>4. \A i \in PollItems : got'[i] = IF Pending(i)' THEN {"read"} ELSE {}
      BY <2>2, <2>5
    <3> QED
      BY <3>1, <3>2, <3>3, <3>4, <2>2, <2>4, <2>7 DEF PollItemsExact
  <2> QED
    BY <2>1, <2>3, <2>4, <2>9, <2>10 DEF PollInv
<1>2. ASSUME NEW k, PollAnswers(k) PROVE PollInv'
  <2>1. PICK garbage \in Unwritten : /\ got' = Answers(k, garbage)
                                     /\ call' = [pc |-> "done", count |-> With(Answers(k, garbage))]
    BY <1>2 DEF PollAnswers
  <2>2. item' = item /\ interface' = interface /\ kernel' = k /\ call.pc = "wait"
    BY <1>2 DEF PollAnswers
  <2>3. \A i \in PollItems : ~Pending(i) /\ ~Pending(i)'
    BY <2>2 DEF Pending, PollInv
  <2>4. With(got') \in Nat /\ call'.count = With(got')
    BY <2>1, ItemsFinite DEF With
  <2>5. \A i \in PollItems : item[i].ignore => got'[i] = {}
    BY <2>1 DEF Answers, Pollable
  <2>6. ASSUME NEW i \in PollItems, Asked(i)
        PROVE  /\ \A w \in Wants : w \in got'[i] <=> w \in item[i].want /\ Ready(w, k[item[i].fd])
               /\ "hup" \in got'[i] <=> item[i].hup
               /\ "nval" \in got'[i] <=> interface = "poll" /\ "nval" \in k[item[i].fd]
    <3>1. Pollable(i) /\ ~item[i].ignore /\ item[i].fd # NoPollFd
      BY <2>6 DEF Asked, Pollable
    <3>2. CASE interface = "poll"
      <4>1. got'[i] = GotOfPoll(i, PollFds(k)[ReadSlot(i)])
        BY <2>1, <2>6, <3>1, <3>2, OwnSlot DEF Answers
      <4> QED
        BY <4>1, <2>6, <3>2, OwnSlot, AnswerOfPoll
    <3>3. CASE interface = "select"
      <4>1. got'[i] = GotOfSelect(i, k)
        BY <2>1, <3>1, <3>3 DEF Answers
      <4> QED
        BY <4>1, <3>3, AnswerOfSelect
    <3> QED
      BY <3>2, <3>3 DEF PollInv
  <2>7. ASSUME NEW i \in PollItems PROVE \A w : Ready(w, kernel[item[i].fd])' = Ready(w, k[item[i].fd])
    BY <2>2 DEF Ready
  <2>8. \A i : Asked(i)' = Asked(i)
    BY <2>2 DEF Asked, Pollable
  <2>9. PollItemsExact'
    <3>1. \A i \in PollItems : Asked(i)' =>
             /\ \A w \in Wants : w \in got'[i] <=> w \in item'[i].want /\ Ready(w, kernel[item[i].fd])'
             /\ "hup" \in got'[i] <=> item'[i].hup
             /\ "nval" \in got'[i] <=> interface' = "poll" /\ "nval" \in kernel'[item'[i].fd]
      BY <2>2, <2>6, <2>7, <2>8
    <3>2. ~\E i \in PollItems : Pending(i)'
      BY <2>3
    <3>3. (call.count >= 0 => call.count = With(got))' /\ (call.count = -1 => got = Nothing)'
      BY <2>4
    <3>4. \A i \in PollItems : item'[i].ignore => got'[i] = {}
      BY <2>2, <2>5
    <3> QED
      BY <3>1, <3>2, <3>3, <3>4 DEF PollItemsExact
  <2> QED
    BY <2>1, <2>2, <2>4, <2>9 DEF PollInv
<1>3. ASSUME PollNoAnswer PROVE PollInv'
  <2>1. PICK count \in {0, -1} : call' = [pc |-> "done", count |-> count]
    BY <1>3 DEF PollNoAnswer
  <2>2. UNCHANGED <<interface, item, got, kernel>> /\ got = Nothing /\ \A i \in PollItems : ~Pending(i)
    BY <1>3 DEF PollNoAnswer, PollInv
  <2>3. \A i \in PollItems : ~Pending(i)'
    BY <2>2 DEF Pending
  <2>4. PollItemsExact'
    BY <2>1, <2>2, <2>3, NoNews DEF PollItemsExact, Nothing
  <2> QED
    BY <2>1, <2>2, <2>4 DEF PollInv
<1>4. ASSUME PollReturn PROVE PollInv'
  BY <1>4 DEF PollReturn, PollInv, PollItemsExact
<1>5. ASSUME UNCHANGED pollVars PROVE PollInv'
  BY <1>5, ZenonT(60) DEF pollVars, PollInv, PollItemsExact, Pending, Asked, Pollable, Ready
<1> QED
  BY <1>1, <1>2, <1>3, <1>4, <1>5 DEF PollNext

\* gpgrt_poll counts exactly the items with news, and tells of an item what is true of its
\* stream, whichever of poll(2) and select it was built with (_gpgrt_poll, estream.c).
THEOREM PollTellsTheTruth == PollSpec => []PollItemsExact
<1>1. PollInv => PollItemsExact
  BY DEF PollInv
<1> QED
  BY <1>1, PollInitial, PollInductive, PTL DEF PollSpec
=============================================================================
