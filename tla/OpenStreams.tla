----------------------------- MODULE OpenStreams -----------------------------
(***************************************************************************)
(* How streams come and go over the descriptors of the program               *)
(* (src/estream.c): gpgrt_fopen, fdopen, fpopen, sockopen, sysopen, tmpfile,   *)
(* fopencookie and freopen with the cookies they make, the steps of            *)
(* create_stream that can fail, the close with its notifications, the name,     *)
(* the non-blocking mode.  What flows through the streams is the matter of      *)
(* EStream; who locks them, of StreamList.                                    *)
(***************************************************************************)
EXTENDS Integers, FiniteSets, Sequences, SequencesExt

CONSTANTS
  Stream,     \* stream objects
  Desc,       \* descriptors (on Windows also sockets and handles)
  NoDesc,     \* no descriptor: -1, a NULL FILE, a cookie of the program's own
  Handler,    \* functions with their values that gpgrt_onclose is given
  NoHandler,  \* a disabled notification
  MaxOnclose  \* bound on the notifications of a stream

ASSUME OpenAssumption ==
  NoDesc \notin Desc /\ NoHandler \notin Handler /\ MaxOnclose \in Nat

VARIABLES
  platform, \* "posix" or "w32"
  lib,      \* [fd: Desc -> [open, nonblock], str: Stream -> object, dead: undefined behaviour]
  own,      \* [Desc -> who has to close it: "none", "app" or "lib"]
  \* History:
  ended,      \* what made lib.dead: a failure of create_stream or a call, "no" before
  hollow,     \* streams that were returned although the ioctl for "nonblock" had failed
  registered  \* [Stream -> the handlers registered and neither called nor taken back]

history == <<ended, hollow, registered>>
openVars == <<platform, lib, own, ended, hollow, registered>>

\* modeflag is the bit O_NONBLOCK of intern->modeflags.  told, held, reopened and asked
\* are history: what gpgrt_set_nonblock made of it, whether the program has the name,
\* whether freopen was called, and the notifications that a close is to make, the oldest
\* first; not those that freopen forgets or that come while another one runs.
NoStream ==
  [life |-> "none", way |-> "fdopen", fd |-> NoDesc, no_close |-> FALSE, cookie |-> "none",
   modeflag |-> FALSE, onclose |-> <<>>, running |-> NoHandler, name |-> FALSE, inuse |-> FALSE,
   told |-> "unset", held |-> "no", reopened |-> FALSE, asked |-> <<>>]

OpenInit ==
  /\ platform \in {"posix", "w32"}
  /\ lib = [fd |-> [d \in Desc |-> [open |-> FALSE, nonblock |-> FALSE]],
            str |-> [s \in Stream |-> NoStream], dead |-> FALSE]
  /\ own = [d \in Desc |-> "none"]
  /\ ended = "no" /\ hollow = {} /\ registered = [s \in Stream |-> {}]

\* The behaviour may be undefined from this call on.
EndsBy(how) == ended' = IF lib'.dead THEN how ELSE ended

-----------------------------------------------------------------------------
(***************************************************************************)
(* Cookies.                                                                 *)
(***************************************************************************)
ClosedFd(l, d) == [l EXCEPT !.fd[d] = [open |-> FALSE, nonblock |-> FALSE]]

\* A cookie that leaves its descriptor alone.
LeavesOpenNever(c) == c.fd = NoDesc
LeavesOpen(c) == c.no_close \/ c.fd = NoDesc

\* func_fd_destroy, func_sock_destroy, func_w32_destroy and func_fp_destroy on the
\* cookie of stream s.  A second call frees it twice.
func_close(l, s) ==
  IF l.str[s].cookie # "live" THEN [l EXCEPT !.dead = TRUE]
  ELSE LET freed == [l EXCEPT !.str[s].cookie = "freed"]
       IN  IF LeavesOpen(l.str[s]) THEN freed
           ELSE ClosedFd(freed, l.str[s].fd)

\* deinit_stream_obj: notifications that were not made are forgotten.
deinit_stream_obj(l, s) ==
  LET c == func_close(l, s)
  IN  [c EXCEPT !.str[s].name = FALSE, !.str[s].inuse = FALSE, !.str[s].onclose = <<>>,
                !.str[s].held = IF @ = "yes" THEN "dangling" ELSE @]

\* The ioctl of a backend for the non-blocking mode: descriptors have it on POSIX,
\* sockets on Windows; FILEs and bare handles have none.
func_fd_ioctl(way) == platform = "posix" /\ way \in {"fopen", "tmpfile", "fdopen"}
func_sock_ioctl(way) == way = "sockopen"
CanNonblock(way, d) == d # NoDesc /\ (func_fd_ioctl(way) \/ func_sock_ioctl(way))

-----------------------------------------------------------------------------
(***************************************************************************)
(* Opening.                                                                 *)
(***************************************************************************)
OpensItself == {"fopen", "tmpfile"}      \* they make a new descriptor
Failures == {"none", "mode", "cookie", "stream", "intern", "list", "ioctl"}

Refers(s, d) == lib.str[s].life # "none" /\ lib.str[s].cookie = "live" /\ lib.str[s].fd = d

\* What the caller of way has to have (a descriptor no other stream has), and how it can fail: parse_mode or the open
\* itself; the allocation of the cookie, of the stream, of its internal part, or of an
\* item of the list; and the ioctl that fdopen and sockopen make for "nonblock".
MayOpen(way, d, no_close, nonblock) ==
  /\ way \in {"sockopen", "w32open"} => platform = "w32"
  /\ way = "w32open" => ~nonblock           \* these are the streams of W32Pollable
  /\ way \in OpensItself \cup {"fopencookie"} => ~no_close
  /\ way = "tmpfile" => ~nonblock
  /\ CASE way \in OpensItself -> d # NoDesc /\ ~lib.fd[d].open
       [] way = "fopencookie" -> d = NoDesc
       [] OTHER -> d \in {NoDesc} \cup {e \in Desc : own[e] = "app" /\ ~\E r \in Stream : Refers(r, e)}

MayFail(way, d, nonblock, failure) ==
  /\ failure = "ioctl" => way \in {"fdopen", "sockopen"} /\ nonblock
  /\ failure = "mode" => way # "tmpfile"
  /\ failure = "cookie" => way # "fopencookie"
  \* fopen with "nonblock" means pollable on Windows, which only bare handles can be.
  /\ (platform = "w32" /\ nonblock /\ way # "w32open") => failure \in {"mode", "cookie", "stream"}
  /\ (nonblock /\ ~CanNonblock(way, d)) => failure # "none" \/ way \in {"fopen", "fpopen", "fopencookie"}

\* A descriptor that was open keeps its mode unless "nonblock" is asked for.
OpenedFd(f, way, nonblock) ==
  [open |-> TRUE, nonblock |-> \/ f.open /\ f.nonblock
                               \/ nonblock /\ way \in {"fopen", "fdopen", "sockopen"}]

\* The bit of intern->modeflags is what malloc left there: init_stream_obj sets it not.
Opened(s, way, d, no_close, nonblock, garbage) ==
  [lib EXCEPT
     !.str[s] = [NoStream EXCEPT !.life = "open", !.way = way, !.fd = d, !.no_close = no_close,
                                 !.cookie = "live", !.modeflag = garbage,
                                 !.name = (way = "fopen")],
     !.fd = [e \in Desc |-> IF e = d THEN OpenedFd(@[e], way, nonblock) ELSE @[e]]]

\* What the open functions leave after each failure.  create_stream itself calls the
\* close function when the list has no memory, and its caller calls it once more; when
\* the internal part has no memory it looks for the function in a part that is not there.
\* After an ioctl that failed the stream is returned, without its cookie.
Failed(s, way, d, no_close, failure, garbage) ==
  LET opened == Opened(s, way, d, no_close, FALSE, garbage)
      closed == func_close(opened, s)
      Gone(l) == [l EXCEPT !.str[s] = NoStream]
      \* The program's own cookie is closed by create_stream if at all.
      own_cookie == way = "fopencookie"
  IN  CASE failure \in {"mode", "cookie"} -> lib
        [] failure = "stream" -> IF own_cookie THEN lib ELSE Gone(closed)
        [] failure = "intern" -> [lib EXCEPT !.dead = TRUE]
        [] failure = "list" -> IF own_cookie THEN lib ELSE Gone(func_close(closed, s))
        [] failure = "ioctl" -> closed

Open(s, way, d, no_close, nonblock, failure, garbage) ==
  /\ lib.str[s].life = "none"
  /\ MayOpen(way, d, no_close, nonblock) /\ MayFail(way, d, nonblock, failure)
  /\ lib' = IF failure = "none" THEN Opened(s, way, d, no_close, nonblock, garbage)
            ELSE Failed(s, way, d, no_close, failure, garbage)
  \* A call that came as far as a cookie has taken the descriptor, even if it failed.
  /\ own' = IF d = NoDesc \/ no_close \/ failure \in {"mode", "cookie", "intern"} THEN own
            ELSE [own EXCEPT ![d] = IF failure \in {"none", "ioctl"} THEN "lib" ELSE "none"]
  /\ EndsBy(failure)
  /\ hollow' = IF failure = "ioctl" THEN hollow \cup {s} ELSE hollow
  /\ UNCHANGED <<platform, registered>>

\* freopen: the old cookie goes first, and do_close frees it again after a failure,
\* or at once if there is no path.  modeflags keep what they were.  The notifications
\* go with the old cookie (deinit_stream_obj), no close will make them.
ReopenedObj(s, d, nonblock, l) ==
  [l EXCEPT !.str[s] = [@ EXCEPT !.way = "fopen", !.fd = d, !.no_close = FALSE, !.cookie = "live",
                                 !.name = TRUE, !.told = "unset", !.reopened = TRUE, !.asked = <<>>],
            !.fd[d] = [open |-> TRUE, nonblock |-> nonblock]]

Freopen(s, d, nonblock, failed) ==
  /\ lib.str[s].life = "open"
  /\ LET gone == deinit_stream_obj(lib, s)
     IN  /\ ~gone.fd[d].open
         /\ lib' = IF failed THEN func_close(gone, s) ELSE ReopenedObj(s, d, nonblock, gone)
         /\ own' = [e \in Desc |-> CASE e = d -> IF failed THEN "none" ELSE "lib"
                                     [] e # d /\ e = lib.str[s].fd /\ ~lib.str[s].no_close -> "none"
                                     [] OTHER -> own[e]]
  /\ EndsBy(IF s \in hollow THEN "hollow" ELSE IF failed THEN "failed freopen" ELSE "freopen")
  /\ UNCHANGED <<platform, hollow, registered>>

-----------------------------------------------------------------------------
(***************************************************************************)
(* Closing, with the notifications.                                         *)
(***************************************************************************)
\* The items that are among hs, in their order (SelectSeq is recursive).
Those(items, hs) ==
  LET T[n \in 0..Len(items)] ==
        IF n = 0 THEN <<>>
        ELSE IF items[n] \in hs THEN Append(T[n - 1], items[n]) ELSE T[n - 1]
  IN  T[Len(items)]
Handlers(items) == Those(items, Handler)
Without(items, h) == Those(items, Handler \ {h})
Running(s) == lib.str[s].running # NoHandler
\* The items after the one whose function is running, which close has remembered.
AfterRunning(s) ==
  LET items == lib.str[s].onclose
  IN  SubSeq(items, 1 + CHOOSE i \in DOMAIN items : items[i] = lib.str[s].running, Len(items))

\* gpgrt_onclose, by any thread that has the stream, the one that is just being closed
\* included: do_close does not lock it.
PushedLast(items, h) == items \o <<h>>
Pushed(items, h) == <<h>> \o items
Onclose(s, h) ==
  /\ lib.str[s].life # "none" /\ Len(lib.str[s].onclose) < MaxOnclose
  /\ h \notin Range(lib.str[s].onclose)
  /\ lib' = [lib EXCEPT !.str[s].onclose = Pushed(@, h),
                        !.str[s].asked = IF Running(s) THEN @ ELSE Append(@, h)]
  /\ registered' = [registered EXCEPT ![s] = @ \cup {h}]
  /\ UNCHANGED <<platform, own, ended, hollow>>

\* Unregistering disables the items; the close finds them disabled.
Disabled(items, h) == [i \in DOMAIN items |-> IF items[i] = h THEN NoHandler ELSE items[i]]
Unregister(s, h) ==
  /\ lib.str[s].life # "none" /\ lib.str[s].running # h
  /\ lib' = [lib EXCEPT !.str[s].onclose = Disabled(@, h),
                        !.str[s].asked = Without(@, h)]
  /\ registered' = [registered EXCEPT ![s] = @ \ {h}]
  /\ UNCHANGED <<platform, own, ended, hollow>>

\* fclose and fcancel: off the list, then the notifications, then the rest.
Close(s) ==
  /\ lib.str[s].life = "open"
  /\ lib' = [lib EXCEPT !.str[s].life = "closing"]
  /\ UNCHANGED <<platform, own, history>>

NotifyStart(s) ==
  /\ lib.str[s].life = "closing" /\ ~Running(s) /\ lib.str[s].onclose # <<>>
  /\ LET h == Head(lib.str[s].onclose)
     IN  /\ lib' = IF h = NoHandler THEN [lib EXCEPT !.str[s].onclose = Tail(@)]
                   ELSE [lib EXCEPT !.str[s].running = h,
                                    !.str[s].asked = Without(@, h)]
         /\ registered' = [registered EXCEPT ![s] = @ \ {h}]
  /\ UNCHANGED <<platform, own, ended, hollow>>

\* The item that heads the list now is freed, and the list goes on after the item whose
\* function was called: one that was registered meanwhile is lost.
NotifyEnd(s) ==
  /\ Running(s)
  /\ lib' = [lib EXCEPT !.str[s].running = NoHandler, !.str[s].onclose = AfterRunning(s)]
  /\ UNCHANGED <<platform, own, history>>

CloseEnd(s) ==
  /\ lib.str[s].life = "closing" /\ ~Running(s) /\ lib.str[s].onclose = <<>>
  /\ LET gone == deinit_stream_obj(lib, s)
     IN  lib' = IF gone.dead THEN gone ELSE [gone EXCEPT !.str[s] = NoStream]
  /\ own' = IF lib.str[s].fd = NoDesc \/ lib.str[s].no_close THEN own
            ELSE [own EXCEPT ![lib.str[s].fd] = "none"]
  /\ EndsBy(IF s \in hollow THEN "hollow" ELSE "close")
  /\ hollow' = hollow \ {s}
  /\ registered' = [registered EXCEPT ![s] = {}]
  /\ UNCHANGED platform

-----------------------------------------------------------------------------
(***************************************************************************)
(* Modes and names.                                                         *)
(***************************************************************************)
Usable(s) == lib.str[s].life = "open" /\ lib.str[s].cookie = "live"

\* gpgrt_set_nonblock: the bit is put back if the backend has no ioctl or it fails.
RestoredNot(before, onoff) == onoff
Restored(before, onoff) == before
set_nonblock(s, onoff, failed) ==
  /\ Usable(s)
  /\ ~CanNonblock(lib.str[s].way, lib.str[s].fd) => failed
  /\ lib' = IF failed THEN [lib EXCEPT !.str[s].modeflag = Restored(@, onoff)]
            ELSE [lib EXCEPT !.str[s].modeflag = onoff, !.str[s].told = IF onoff THEN "on" ELSE "off",
                             !.fd[lib.str[s].fd].nonblock = onoff]
  /\ UNCHANGED <<platform, own, history>>
get_nonblock(s) == lib.str[s].modeflag

\* fname_set_internal frees the old name unless it was given out, and then keeps that.
fname_set(s) ==
  /\ Usable(s)
  /\ lib' = [lib EXCEPT !.str[s].name = TRUE,
                        !.str[s].held = IF @ = "yes" /\ ~lib.str[s].inuse THEN "dangling" ELSE @]
  /\ UNCHANGED <<platform, own, history>>

InUse(name) == name
fname_get(s) ==
  /\ Usable(s) /\ lib.str[s].name
  /\ lib' = [lib EXCEPT !.str[s].inuse = InUse(lib.str[s].name), !.str[s].held = "yes"]
  /\ UNCHANGED <<platform, own, history>>

\* The program opens and closes descriptors of its own, none that a stream refers to.
AppOpen(d, nonblock) ==
  /\ ~lib.fd[d].open /\ own[d] = "none"
  /\ lib' = [lib EXCEPT !.fd[d] = [open |-> TRUE, nonblock |-> nonblock]]
  /\ own' = [own EXCEPT ![d] = "app"]
  /\ UNCHANGED <<platform, history>>

AppClose(d) ==
  /\ own[d] = "app" /\ ~\E s \in Stream : Refers(s, d)
  /\ lib' = ClosedFd(lib, d)
  /\ own' = [own EXCEPT ![d] = "none"]
  /\ UNCHANGED <<platform, history>>

-----------------------------------------------------------------------------
\* The open functions: a name, a temporary file, a descriptor, a FILE, a socket, a
\* handle, and a cookie of the program's own; the _nc variants leave what they are given open.
OpenAny(s, way, d, no_close) ==
  /\ lib.str[s].life = "none"
  /\ \E nonblock, garbage \in BOOLEAN, failure \in Failures :
       Open(s, way, d, no_close, nonblock, failure, garbage)
fopen(s) == \E d \in Desc : OpenAny(s, "fopen", d, FALSE)
tmpfile(s) == \E d \in Desc : OpenAny(s, "tmpfile", d, FALSE)
do_fdopen(s) == \E d \in Desc \cup {NoDesc}, no_close \in BOOLEAN : OpenAny(s, "fdopen", d, no_close)
do_fpopen(s) == \E d \in Desc \cup {NoDesc}, no_close \in BOOLEAN : OpenAny(s, "fpopen", d, no_close)
do_sockopen(s) == \E d \in Desc \cup {NoDesc}, no_close \in BOOLEAN : OpenAny(s, "sockopen", d, no_close)
do_w32open(s) == \E d \in Desc \cup {NoDesc}, no_close \in BOOLEAN : OpenAny(s, "w32open", d, no_close)
fopencookie(s) == OpenAny(s, "fopencookie", NoDesc, FALSE)
\* By the type of the system handle.
do_sysopen(s) == do_fdopen(s) \/ do_sockopen(s) \/ do_w32open(s)

OpenStep(s) ==
  \/ fopen(s) \/ tmpfile(s) \/ do_fpopen(s) \/ fopencookie(s) \/ do_sysopen(s)
  \/ \E d \in Desc, nonblock, failed \in BOOLEAN : Freopen(s, d, nonblock, failed)
CloseStep(s) ==
  \/ Close(s) \/ NotifyStart(s) \/ NotifyEnd(s) \/ CloseEnd(s)
  \/ \E h \in Handler : Onclose(s, h) \/ Unregister(s, h)
UseStep(s) ==
  \/ \E onoff, failed \in BOOLEAN : set_nonblock(s, onoff, failed)
  \/ fname_set(s) \/ fname_get(s)
AppStep(d) == AppClose(d) \/ \E nonblock \in BOOLEAN : AppOpen(d, nonblock)

OpenNext ==
  /\ ~lib.dead
  /\ \/ \E s \in Stream : OpenStep(s) \/ CloseStep(s) \/ UseStep(s)
     \/ \E d \in Desc : AppStep(d)

OpenSpec == OpenInit /\ [][OpenNext]_openVars

-----------------------------------------------------------------------------
(***************************************************************************)
(* Properties.                                                              *)
(***************************************************************************)
\* Every descriptor is closed by whoever has to: those of the program, and those of the
\* _nc functions, are never closed by a stream, whatever fails; those a stream was given
\* or made itself are open as long as the stream is, and closed with it.  Nothing is
\* closed twice but where the code does it, and then the behaviour is undefined: when
\* create_stream finds no memory for the list item, it closes the cookie and its caller
\* closes it again; a freopen that fails closes it after deinit_stream_obj did; do_fdopen
\* and do_sockopen return a stream whose cookie the failed ioctl has freed, and the close
\* or freopen of that one frees it once more.  (Without memory for the internal part
\* create_stream reads one that is not there.)
DescriptorsAccounted ==
  IF lib.dead THEN ended \in {"list", "intern", "failed freopen", "hollow"}
  ELSE \A d \in Desc :
    /\ own[d] = "app" => lib.fd[d].open
    /\ own[d] = "none" => ~lib.fd[d].open
    /\ own[d] = "lib" =>
         \/ \E s \in hollow : lib.str[s].fd = d
         \/ lib.fd[d].open /\ \E s \in Stream : Refers(s, d) /\ ~lib.str[s].no_close

\* The notifications that a close has still to make are those that were registered and
\* not taken back, the last one first, whatever is registered or unregistered before
\* it, between two of them or while one runs.  Two kinds are lost: one that is registered
\* while another runs (do_close has no lock), and those of before a freopen, which
\* deinit_stream_obj frees (estream.c 2566-2571).
NotificationsKept ==
  ~lib.dead => \A s \in Stream :
    /\ Handlers(IF Running(s) THEN AfterRunning(s) ELSE lib.str[s].onclose)
         = Reverse(lib.str[s].asked)
    /\ registered[s] # Range(lib.str[s].asked) =>
         lib.str[s].reopened \/ lib.str[s].life = "closing"

\* Once gpgrt_set_nonblock has succeeded, gpgrt_get_nonblock and the descriptor agree,
\* also after later calls of it have failed.
NonblockAgrees ==
  \A s \in Stream : Usable(s) /\ lib.str[s].told # "unset" =>
    /\ get_nonblock(s) = (lib.str[s].told = "on")
    /\ lib.fd[lib.str[s].fd].nonblock = get_nonblock(s)

\* The name that gpgrt_fname_get returned lasts as long as the stream, unless the
\* stream is opened again.
NameLasts ==
  ~lib.dead => \A s \in Stream : lib.str[s].held = "dangling" => lib.str[s].reopened

-----------------------------------------------------------------------------
(***************************************************************************)
(* The standard streams: where es_stdin, es_stdout and es_stderr go, with      *)
(* gpgrt_set_std_fd called before or after their first use.                    *)
(***************************************************************************)
VARIABLE
  std  \* [0..2 -> [custom, late : BOOLEAN, made : where the standard stream goes]]

StdInit == std = [n \in 0..2 |-> [custom |-> FALSE, late |-> FALSE, made |-> <<"no", n>>]]

\* gpgrt_set_std_fd: the first descriptor that is registered stays.  Registered after the
\* stream was made (history late) it has no effect.
set_std_fd(n) ==
  std' = [std EXCEPT ![n].custom = TRUE, ![n].late = @ \/ std[n].made[1] # "no"]

\* Mutant: the descriptor for standard error is looked at first.
CustomErrFirst(n) == IF std[2].custom THEN 2 ELSE IF std[n].custom THEN n ELSE -1

\* The descriptor that _gpgrt__get_std_stream takes from those registered: the last
\* branch of its three asks only whether there is one for standard error.
Custom(n) == IF n \in {0, 1} /\ std[n].custom THEN n
             ELSE IF std[2].custom THEN 2 ELSE -1

\* The stream of number n, which is not there: from a registered descriptor, else from
\* the stream of the C library, else a bit bucket.  Each try may fail.
get_std_stream(n, failures) ==
  /\ std[n].made[1] = "no"
  /\ std' = [std EXCEPT ![n].made =
               IF Custom(n) # -1 /\ "fdopen" \notin failures THEN <<"custom", Custom(n)>>
               ELSE IF "fpopen" \notin failures THEN <<"libc", n>> ELSE <<"null", n>>]

StdNext == \E n \in 0..2 : \/ set_std_fd(n)
                           \/ \E f \in SUBSET {"fdopen", "fpopen"} : get_std_stream(n, f)
StdSpec == StdInit /\ [][StdNext]_std

\* "Set custom standard descriptors to be used for stdin, stdout and stderr"
\* (estream.c 4074): whatever is registered when, and fails, a standard stream whose own
\* descriptor was registered in time goes to no other's, and none goes to that of standard
\* input or output but theirs.  (Without one of their own these two go to standard error's.)
StdStreamsKept ==
  \A n \in 0..2 : std[n].made[2] # n =>
    std[n].made = <<"custom", 2>> /\ (std[n].custom => std[n].late)

\* A stream's onclose handlers each run once, its nonblock flag agrees with its descriptor,
\* a name that was given out stays readable, and a standard stream goes where it was told.
StreamPromisesKept == NotificationsKept /\ NonblockAgrees /\ NameLasts /\ StdStreamsKept
=============================================================================
