------------------------------- MODULE EStream -------------------------------
(***************************************************************************)
(* One estream object of src/src/estream.c over one backend: the stream    *)
(* buffer, the unread buffer, the read/write mode flag, the position the   *)
(* stream believes it is at, and the error indicators.                     *)
(*                                                                         *)
(* Every public operation runs with the stream's lock held, so one action  *)
(* is one call.  Each C function below is an operator from a stream record *)
(* to the set of its outcomes: a short transfer, an end of file or a       *)
(* failure of the backend is a member of that set.  The fill and flush     *)
(* loops are given by what they leave behind, in closed form.              *)
(***************************************************************************)
EXTENDS Integers, Sequences

CONSTANTS
  Byte,         \* the bytes a program writes
  NL,           \* the newline, one of them
  Zero,         \* the byte that fills a hole of the file
  Backends,     \* the kinds of backend: a subset of {"file" (it can seek),
                \* "pipe" (it answers ESPIPE), "noseek" (a cookie registered
                \* without a seek function)}
  Modes,        \* how the stream is opened: a subset of {"r", "w", "r+"}
  Files,        \* what the backend may hold (for a pipe: the input) at first
  Sizes,        \* buffer sizes
  UnreadSize,   \* BUFFER_UNREAD_SIZE
  Faults,       \* errno values the backend may fail with
  MaxResend,    \* bound: bytes of unfinished flushes the backend has taken
  MaxLen,       \* bound: length of the file, or of what a pipe is sent
  MaxIO,        \* bound: bytes asked of one read or given to one write
  Offsets       \* offsets given to a seek

ASSUME ConstantsAssumption ==
  /\ NL \in Byte /\ Zero \in Byte
  /\ Backends \subseteq {"file", "pipe", "noseek"}
  /\ Modes \subseteq {"r", "w", "r+"}
  /\ Files \subseteq Seq(Byte)
  /\ Sizes \subseteq Nat \ {0}
  /\ UnreadSize \in Nat /\ MaxResend \in Nat /\ MaxLen \in Nat /\ MaxIO \in Nat
  /\ Faults \subseteq {"EAGAIN", "EIO", "EPIPE"}
  /\ Offsets \subseteq Int

VARIABLES
  mode,   \* the mode the stream was opened with
  s,      \* the stream, its backend, and what is recorded of its history
  ret     \* the result of the last call

vars == <<mode, s, ret>>

Errno == {"ok", "EAGAIN", "EIO", "EPIPE", "EINVAL", "ESPIPE", "EOPNOTSUPP", "ENOMEM", "EFAULT"}
Strategy == {"_IOFBF", "_IOLBF", "_IONBF"}

-----------------------------------------------------------------------------
Lesser(a, b) == IF a < b THEN a ELSE b
Larger(a, b) == IF a > b THEN a ELSE b

Upto(q, n) == SubSeq(q, 1, Lesser(n, Len(q)))

\* q after the bytes w have been put at position p; a gap is filled with Zero
Overlay(q, p, w) ==
  IF w = <<>> THEN q
  ELSE [i \in 1..Larger(Len(q), p + Len(w)) |->
          IF i > p /\ i <= p + Len(w) THEN w[i - p]
          ELSE IF i <= Len(q) THEN q[i] ELSE Zero]

\* The bytes the stream has accepted and not yet given to the backend, and
\* those it has taken from the backend and not yet given to its reader.
Pending(t) == IF t.writing THEN SubSeq(t.buf, 1, t.data_offset) ELSE <<>>

\* Where the program is in the file, were nothing pushed back.
LogicalPos(t) == IF t.writing THEN t.fpos + t.data_offset
                 ELSE t.fpos - t.data_len + t.data_offset

-----------------------------------------------------------------------------
\* Mutant: a failure that cannot be retried leaves no trace either.
IndicateNothing(t, e) == t

\* The indicators after a failed backend call of flush_stream or fill_stream.
Indicate(t, e) ==
  IF e = "EAGAIN" THEN t
  ELSE [t EXCEPT !.err = TRUE, !.hup = @ \/ e = "EPIPE"]

\* The backend takes the bytes w.
Deliver(t, w) ==
  IF t.backend = "file"
  THEN [t EXCEPT !.file = Overlay(t.file, t.fpos, w), !.fpos = @ + Len(w)]
  ELSE [t EXCEPT !.out = @ \o w]

Fail(t, e)  == [s |-> t, err |-> e, n |-> 0, got |-> <<>>]
Done(t)     == Fail(t, "ok")
Wrote(t, n, e) == [s |-> t, err |-> e, n |-> n, got |-> <<>>]
Gave(t, g, e)  == [s |-> t, err |-> e, n |-> Len(g), got |-> g]

\* gpgrt_assert fails, or memory that is not the buffer's data is used; the call does not
\* return.
Crash(t, how) == Fail([t EXCEPT !.status = how], "EFAULT")

\* The part of a flush that a backend may take before it fails.
Cut(t) == {k \in 0..(t.data_offset - 1) :
             k = 0 \/ t.resent + t.data_flushed + k <= MaxResend}

\* Mutant: the buffer is emptied even if the backend did not take all of it.
flush_stream_drops(t) ==
  LET p == SubSeq(t.buf, 1, t.data_offset)
      Empty(u) == [u EXCEPT !.data_offset = 0, !.buf = <<>>]
  IN {Done(Empty([Deliver(t, p) EXCEPT !.offset = @ + t.data_offset]))}
     \cup {Fail(Empty(Indicate(Deliver(t, SubSeq(p, 1, k)), e)), e) : k \in Cut(t), e \in Faults}

\* Mutant: data_offset is not reset after everything was written.
flush_stream_keeps(t) ==
  {Done(Deliver(t, SubSeq(t.buf, 1, t.data_offset)))}
  \cup {Fail(Indicate(t, e), e) : e \in Faults}

\* The loop of flush_stream gives the backend all of the buffer, or fails
\* after k bytes.  A later flush starts again at the first byte: data_flushed
\* counts what was taken but nothing reads it.
flush_stream(t) ==
  LET p == SubSeq(t.buf, 1, t.data_offset) IN
    {Done([Deliver(t, p) EXCEPT
             !.offset = @ + t.data_offset, !.data_offset = 0,
             !.data_flushed = 0, !.resent = @ + t.data_flushed,
             !.buf = Upto(@, t.data_len)])}
    \cup
    {Fail(Indicate([Deliver(t, SubSeq(p, 1, k)) EXCEPT !.data_flushed = @ + k], e), e) :
       k \in Cut(t), e \in Faults}

es_empty(t) ==
  [t EXCEPT !.buf = <<>>, !.data_len = 0, !.data_offset = 0, !.unread = <<>>]

\* es_empty without a seek: the backend stays where reading ahead has left it.
Discard(t) == [es_empty(t) EXCEPT !.lost = @ + t.data_len]

-----------------------------------------------------------------------------
(* Reading *)

\* What a reader gets after the unread bytes: the rest of the buffer and the
\* rest of the backend.
Rest(t) == SubSeq(t.buf, t.data_offset + 1, Lesser(t.data_len, Len(t.buf)))
           \o SubSeq(t.file, t.fpos + 1, Len(t.file))

\* Mutant: the offset does not move by what the buffer held.
fill_stream_no_offset(t, a, l) ==
  [t EXCEPT !.buf = SubSeq(t.file, t.fpos + a + 1, t.fpos + a + l),
            !.data_len = l, !.data_offset = 0, !.fpos = @ + a + l]

\* fill_stream, after a further bytes have gone through the buffer, has put
\* the next l bytes of the backend into it.
fill_stream(t, a, l) ==
  [t EXCEPT !.buf = SubSeq(t.file, t.fpos + a + 1, t.fpos + a + l),
            !.data_len = l, !.data_offset = 0,
            !.fpos = @ + a + l, !.offset = @ + t.data_len + a]

\* fill_stream of a stream whose buffer is NULL: there is no room for what read (2) has to give.
\* A function of the application that writes through the pointer ends the program.
NullRead(t) ==
  {Gave([fill_stream(t, 0, 0) EXCEPT !.eof = TRUE], <<>>, "ok") : end \in {0} \cap {Len(Rest(t))}}
  \cup {Gave(Indicate(fill_stream(t, 0, 0), e), <<>>, e) : e \in Faults \cup {"EFAULT"}}

do_read_fbf(t, n) ==
  LET r   == t.data_len - t.data_offset
      all == Rest(t)
  IN IF n = 0 THEN {Done(t)}
     ELSE IF r < 0 \/ t.data_len > Len(t.buf) THEN {Crash(t, "overrun")}
     ELSE IF t.buffer = "none" THEN NullRead(t)
     ELSE
       {Gave([t EXCEPT !.data_offset = @ + m], SubSeq(all, 1, n), "ok") :
          m \in {n} \cap 0..r}
       \cup
       {Gave([fill_stream(t, f[1], f[2]) EXCEPT !.data_offset = n - r - f[1]],
             SubSeq(all, 1, n), "ok") :
          f \in {f \in (0..(n - r - 1)) \X (1..t.buffer_size) :
                   /\ n - r - f[1] <= f[2]
                   /\ t.fpos + f[1] + f[2] <= Len(t.file)}}
       \cup
       {Gave([fill_stream(t, c - r, 0) EXCEPT !.eof = TRUE], all, "ok") :
          c \in {Len(all)} \cap 0..(n - 1)}
       \cup
       {Gave(Indicate(fill_stream(t, c - r, 0), e), SubSeq(all, 1, c), e) :
          c \in r..Lesser(n - 1, Len(all)), e \in Faults}

\* Neither an end of file nor a failure is noted in the indicators.
do_read_nbf(t, n) ==
  LET in == SubSeq(t.file, t.fpos + 1, Len(t.file))
      Took(k) == [t EXCEPT !.fpos = @ + k, !.offset = @ + k]
  IN {Gave(Took(k), SubSeq(in, 1, k), "ok") : k \in {Lesser(n, Len(in))}}
     \cup
     {Gave(Took(k), SubSeq(in, 1, k), e) : k \in 0..Lesser(n - 1, Len(in)), e \in Faults}

\* The beginning that reading operations share: switch to reading mode.
ToReading(t) ==
  IF t.writing
  THEN {[f EXCEPT !.s.writing = (f.err # "ok")] : f \in flush_stream(t)}
  ELSE {Done(t)}

Reversed(q) == [i \in 1..Len(q) |-> q[Len(q) + 1 - i]]

\* The unread bytes first, the last one pushed back leading.
TakeUnread(t, n) ==
  LET u == Lesser(n, Len(t.unread))
  IN Gave([t EXCEPT !.unread = SubSeq(@, 1, Len(@) - u)],
          Reversed(SubSeq(t.unread, Len(t.unread) - u + 1, Len(t.unread))), "ok")

es_readn(t, n) ==
  UNION {IF f.err # "ok" THEN {f}
         ELSE LET u == TakeUnread(f.s, n)
              IN {[r EXCEPT !.got = u.got \o @, !.n = u.n + @] :
                    r \in IF t.strategy = "_IONBF"
                          THEN do_read_nbf(u.s, n - u.n)
                          ELSE do_read_fbf(u.s, n - u.n)} :
         f \in ToReading(t)}

\* The length of the first line of q, one more than all of q if there is none.
LineLength(q) ==
  CHOOSE i \in 1..(Len(q) + 1) :
    /\ \A j \in 1..(i - 1) : q[j] # NL
    /\ i <= Len(q) => q[i] = NL

\* doreadline as getline calls it, on top of peek_stream and skip_stream: it
\* looks at the buffer only, not at the unread bytes; an unbuffered stream has
\* nothing to look at and is taken to be at its end.  After a failure the part
\* of the line already consumed is not returned.
doreadline(t) ==
  UNION {IF f.err # "ok" THEN {[f EXCEPT !.s.err = TRUE]}
         ELSE IF f.s.buffer_size = 0
         THEN {Done([f.s EXCEPT !.eof = TRUE])}
         ELSE {IF r.err = "ok" THEN r
               ELSE Fail([r.s EXCEPT !.err = TRUE], r.err) :
                 r \in do_read_fbf(f.s, LineLength(Rest(f.s)))} :
         f \in ToReading(t)}

\* _gpgrt_read_line: a loop over getc, which reads through the unread bytes.
\* It ends at a newline, at the end of file and on an error alike.
read_line(t) ==
  UNION {IF f.err # "ok" THEN {f}
         ELSE es_readn(f.s, LineLength(Reversed(t.unread) \o Rest(f.s))) :
         f \in ToReading(t)}

\* check_pending: only the switch to reading mode changes the stream.
check_pending(t) == {Wrote(f.s, 0, "ok") : f \in ToReading(t)}

es_unreadn(t, c) ==
  IF Len(t.unread) < UnreadSize
  THEN Wrote([t EXCEPT !.unread = Append(@, c), !.eof = FALSE], 1, "ok")
  ELSE Wrote(t, 0, "ok")
-----------------------------------------------------------------------------
(* Seeking *)

\* Mutant: a relative seek does not count the unread bytes.
TargetForgetsUnread(t, whence, o) ==
  CASE whence = "SEEK_SET" -> o
    [] whence = "SEEK_CUR" -> t.fpos + o - t.data_len + t.data_offset
    [] whence = "SEEK_END" -> Len(t.file) + o

\* Where the backend is asked to go.
Target(t, whence, o) ==
  CASE whence = "SEEK_SET" -> o
    [] whence = "SEEK_CUR" ->
         t.fpos + o - t.data_len + t.data_offset - Len(t.unread)
    [] whence = "SEEK_END" -> Len(t.file) + o

\* Mutant: the buffers survive the seek.
func_seek_keeps(t, whence, o) ==
  LET p == Target(t, whence, o) IN
    IF t.backend = "pipe" THEN Fail([t EXCEPT !.err = TRUE], "ESPIPE")
    ELSE IF p < 0 THEN Fail([t EXCEPT !.err = TRUE], "EINVAL")
    ELSE Done([t EXCEPT !.fpos = p, !.offset = p, !.eof = FALSE])

\* Mutant: nobody looks at where the backend is asked to go.
func_seek_anywhere(t, whence, o) ==
  LET p == Target(t, whence, o)
  IN Done([es_empty(t) EXCEPT !.fpos = p, !.offset = p, !.eof = FALSE])

func_seek(t, whence, o) ==
  LET p == Target(t, whence, o) IN
    IF t.backend = "pipe" THEN Fail([t EXCEPT !.err = TRUE], "ESPIPE")
    ELSE IF p < 0 THEN Fail([t EXCEPT !.err = TRUE], "EINVAL")
    ELSE Done([es_empty(t) EXCEPT !.fpos = p, !.offset = p, !.eof = FALSE,
                                  !.lost = 0, !.resent = 0])

es_seek(t, whence, o) ==
  IF t.backend = "noseek" THEN {Fail([t EXCEPT !.err = TRUE], "EOPNOTSUPP")}
  ELSE {IF f.err # "ok" THEN [f EXCEPT !.s.err = TRUE]
        ELSE func_seek(f.s, whence, o) : f \in ToReading(t)}

-----------------------------------------------------------------------------
(* Writing *)

\* The backend has taken the first d bytes in complete buffers.
Flushed(t, all, d) ==
  IF d = 0 THEN t
  ELSE [Deliver(t, SubSeq(all, 1, d)) EXCEPT
          !.offset = @ + d, !.data_flushed = 0, !.resent = @ + t.data_flushed,
          !.buf = SubSeq(all, d - t.buffer_size + 1, d)]

\* b is what the buffer holds for the writer.
Buffered(t, b) ==
  [t EXCEPT !.buf = Upto(Overlay(@, 0, b), Larger(Len(b), t.data_len)),
            !.data_offset = Len(b)]

es_write_fbf(t, w) ==
  LET all    == SubSeq(t.buf, 1, t.data_offset) \o w
      blocks == {d \in 0..Len(all) : d % t.buffer_size = 0}
      Stuck(d) == Buffered(Flushed(t, all, d), SubSeq(all, d + 1, d + t.buffer_size))
  IN IF t.buffer = "none" /\ w # <<>> THEN {Crash(t, "overrun")}
     ELSE IF ~t.writing /\ Len(all) > t.buffer_size THEN {Crash(t, "aborted")}
     ELSE
       {Wrote(Buffered(Flushed(t, all, d), SubSeq(all, d + 1, Len(all))), Len(w), "ok") :
          d \in {d \in blocks : /\ Len(all) - d <= t.buffer_size
                                /\ d = 0 \/ d < Len(all)}}
       \cup
       UNION {{Wrote(f.s, d + t.buffer_size - t.data_offset, f.err) :
                 f \in {f \in flush_stream(Stuck(d)) : f.err # "ok"}} :
              d \in {d \in blocks : d + t.buffer_size < Len(all)}}

es_write_nbf(t, w) ==
  LET Took(k) == [Deliver(t, SubSeq(w, 1, k)) EXCEPT !.offset = @ + k]
  IN {Wrote(Took(Len(w)), Len(w), "ok")}
     \cup {Wrote(Took(k), k, e) : k \in 0..(Len(w) - 1), e \in Faults}

\* Everything up to the last newline goes out directly.
es_write_lbf(t, w) ==
  IF \A i \in 1..Len(w) : w[i] # NL THEN es_write_fbf(t, w)
  ELSE IF ~t.writing THEN {Crash(t, "aborted")}
  ELSE LET p == CHOOSE i \in 1..Len(w) :
                  w[i] = NL /\ \A j \in (i + 1)..Len(w) : w[j] # NL
       IN UNION {IF f.err # "ok" THEN {f}
                 ELSE UNION {IF g.err # "ok" THEN {g}
                             ELSE {[h EXCEPT !.n = @ + p] :
                                     h \in es_write_fbf(g.s, SubSeq(w, p + 1, Len(w)))} :
                             g \in es_write_nbf(f.s, SubSeq(w, 1, p))} :
                 f \in flush_stream(t)}

es_write_by_strategy(t, w) ==
  CASE t.strategy = "_IONBF" -> es_write_nbf(t, w)
    [] t.strategy = "_IOLBF" -> es_write_lbf(t, w)
    [] t.strategy = "_IOFBF" -> es_write_fbf(t, w)

\* Mutant: the stream seeks but stays in reading mode.
es_writen_stays(t, w) ==
  IF t.writing THEN es_write_by_strategy(t, w)
  ELSE UNION {IF f.err # "ok" THEN {f} ELSE es_write_by_strategy(f.s, w) :
              f \in es_seek(t, "SEEK_CUR", 0)}

\* Without a seek function the stream never turns to writing mode; with one
\* that answers ESPIPE it does, and keeps what it had read ahead.
es_writen(t, w) ==
  IF t.writing THEN es_write_by_strategy(t, w)
  ELSE IF t.backend = "noseek"
  THEN es_write_by_strategy([t EXCEPT !.turned = TRUE], w)
  ELSE UNION {IF f.err \notin {"ok", "ESPIPE"} THEN {f}
              ELSE es_write_by_strategy([f.s EXCEPT !.writing = TRUE,
                                                    !.turned = (f.err = "ESPIPE")], w) :
              f \in es_seek(t, "SEEK_CUR", 0)}

-----------------------------------------------------------------------------
(* Flushing, buffering, closing *)

do_fflush(t) == IF t.writing THEN flush_stream(t) ELSE {Done(Discard(t))}

\* The stream gets the program's buffer, or none for _IONBF, or one that is allocated.  That may
\* fail, when the buffer that an earlier call had allocated is freed already: the stream keeps its
\* size and strategy without it.
NewBuffer(t, strategy, size) ==
  {Done([t EXCEPT !.strategy = strategy, !.buffer = b,
                  !.buffer_size = IF strategy = "_IONBF" THEN 0 ELSE size]) :
     b \in IF strategy = "_IONBF" THEN {"own"} ELSE {"own", "allocated"}}
  \cup {Fail([t EXCEPT !.buffer = IF @ = "own" THEN "own" ELSE "none"], "ENOMEM") :
          allocating \in {strategy} \ {"_IONBF"}}

\* Mutant: only a writer's buffer is cleared before it is replaced.
es_set_buffering_no_empty(t, strategy, size) ==
  UNION {IF f.err # "ok" THEN {f} ELSE NewBuffer([f.s EXCEPT !.buf = <<>>], strategy, size) :
         f \in IF t.writing THEN flush_stream(t) ELSE {Done(t)}}

es_set_buffering(t, strategy, size) ==
  UNION {IF f.err # "ok" THEN {f}
         ELSE NewBuffer([f.s EXCEPT !.eof = FALSE, !.buf = <<>>], strategy, size) : f \in do_fflush(t)}

\* Mutant: the stream is closed without a flush.
do_close_no_flush(t, cancel) == {Done([t EXCEPT !.status = "closed"])}

\* do_close: the bytes still pending are flushed, then the backend is closed,
\* which may fail too; the stream is gone in every case.
do_close(t, cancel) ==
  LET t1 == IF cancel THEN [Discard(t) EXCEPT !.writing = FALSE] ELSE t
  IN UNION {{[f EXCEPT !.s.status = "closed",
                       !.err = IF f.err # "ok" THEN f.err ELSE e] :
               e \in {"ok"} \cup (Faults \ {"EAGAIN"})} :
            f \in IF t1.writing THEN flush_stream(t1) ELSE {Done(t1)}}

\* Mutant: the unread bytes are not counted.
ftell_forgets_unread(t) == t.offset + t.data_offset

\* es_offset_calculate
ftell(t) ==
  LET p == t.offset + t.data_offset - Len(t.unread)
  IN IF p < 0 THEN 0 ELSE p

-----------------------------------------------------------------------------
(* The calls a program makes *)

init_stream_obj(m, b, f, size) ==
  [backend |-> b, file |-> f, fpos |-> 0, out |-> <<>>,
   buffer |-> "own", buf |-> <<>>, buffer_size |-> size, data_len |-> 0, data_offset |-> 0,
   data_flushed |-> 0, unread |-> <<>>, writing |-> (m # "r"),
   offset |-> 0, strategy |-> "_IOFBF",
   err |-> FALSE, eof |-> FALSE, hup |-> FALSE, status |-> "open",
   \* history: bytes read ahead and dropped, bytes the backend got twice,
   \* bytes a program gave a pipe, and whether it wrote after reading there
   lost |-> 0, resent |-> 0, accepted |-> <<>>, turned |-> FALSE]

Init ==
  /\ mode \in Modes
  /\ \E b \in Backends, f \in Files, size \in Sizes :
       s = init_stream_obj(mode, b, f, size)
  /\ ret = [op |-> "open", arg |-> <<>>, rc |-> 0, errno |-> "ok", bytes |-> <<>>]

\* The value a call returns: fgetc answers EOF (-1) both at the end of file
\* and on an error, read_line the length of the line, the others 0 or -1.
ReturnCode(op, r) ==
  CASE op = "read_line" -> r.n
    [] op = "getc" /\ r.err = "ok" /\ r.n = 1 -> 1
    [] op = "ungetc" /\ r.n = 1 -> 1
    [] op \notin {"read_line", "getc", "ungetc"} /\ r.err = "ok" -> 0
    [] OTHER -> -1

\* A call ends in one of the outcomes of the operator that implements it.  A
\* bound: a stream that has gone astray is followed to its end only.
Call(op, arg, outcomes) ==
  /\ s.status = "open"
  /\ s.turned => op \in {"fflush", "fclose"}
  /\ \E r \in outcomes :
       /\ s' = r.s
       /\ ret' = [op |-> op, arg |-> arg, rc |-> ReturnCode(op, r),
                  errno |-> r.err, bytes |-> r.got]
  /\ UNCHANGED mode

Readable == mode # "w"
Writable == mode # "r"

Strings == UNION {[1..n -> Byte] : n \in 1..MaxIO}

Room(w) == IF s.backend = "file"
           THEN LogicalPos(s) + Len(w) <= MaxLen
           ELSE Len(s.out) + s.data_offset + Len(w) <= MaxLen

Read(n)   == Readable /\ Call("read", <<n>>, es_readn(s, n))
Getc      == Readable /\ Call("getc", <<1>>, es_readn(s, 1))
GetLine   == Readable /\ Call("getline", <<>>, doreadline(s))
ReadLine  == Readable /\ Call("read_line", <<>>, read_line(s))
Ungetc(c) == Call("ungetc", <<c>>, {es_unreadn(s, c)})
IsPending == Readable /\ Call("pending", <<>>, check_pending(s))

Write(w) ==
  /\ Writable
  /\ Room(w)
  /\ Call("write", w,
          {[r EXCEPT !.got = SubSeq(w, 1, r.n),
                     !.s.accepted = IF s.backend = "file" THEN @
                                    ELSE @ \o SubSeq(w, 1, r.n)] :
             r \in es_writen(s, w)})

Seek(whence, o) ==
  /\ Target(s, whence, o) <= MaxLen
  /\ s.writing => Target(s, whence, o) + s.data_offset <= MaxLen
  /\ Call("seek", <<whence, o>>, es_seek(s, whence, o))

\* rewind is a seek to 0 that also clears the error indicator.
Rewind ==
  Call("rewind", <<"SEEK_SET", 0>>, {[r EXCEPT !.s.err = FALSE] : r \in es_seek(s, "SEEK_SET", 0)})

Fflush == Call("fflush", <<>>, do_fflush(s))
Setvbuf(strategy, size) ==
  Call("setvbuf", <<>>, es_set_buffering(s, strategy, size))
Clearerr == Call("clearerr", <<>>, {Done([s EXCEPT !.eof = FALSE, !.err = FALSE])})
Fclose  == Call("fclose", <<>>, do_close(s, FALSE))
Fcancel == Call("fcancel", <<>>, do_close(s, TRUE))

Next ==
  \/ \E n \in 1..MaxIO : Read(n)
  \/ Getc
  \/ GetLine
  \/ ReadLine
  \/ \E c \in Byte : Ungetc(c)
  \/ IsPending
  \/ \E w \in Strings : Write(w)
  \/ \E whence \in {"SEEK_SET", "SEEK_CUR", "SEEK_END"}, o \in Offsets : Seek(whence, o)
  \/ Rewind
  \/ Fflush
  \/ \E strategy \in Strategy, size \in Sizes : Setvbuf(strategy, size)
  \/ Clearerr
  \/ Fclose
  \/ Fcancel

Spec == Init /\ [][Next]_vars

-----------------------------------------------------------------------------
(* Properties *)

StreamType ==
  [backend : Backends, file : Seq(Byte), fpos : Nat, out : Seq(Byte),
   buffer : {"own", "allocated", "none"}, buf : Seq(Byte), buffer_size : Nat, data_len : Nat, data_offset : Nat,
   data_flushed : Nat, unread : Seq(Byte), writing : BOOLEAN,
   offset : Nat, strategy : Strategy,
   err : BOOLEAN, eof : BOOLEAN, hup : BOOLEAN,
   status : {"open", "closed", "aborted", "overrun"},
   lost : Nat, resent : Nat, accepted : Seq(Byte), turned : BOOLEAN]

\* The type invariant of the stream and of the result of a call.
TypeOK ==
  /\ mode \in Modes
  /\ s \in StreamType
  /\ ret.errno \in Errno /\ ret.bytes \in Seq(Byte) /\ ret.rc \in Int

\* The stream got into a state its code does not provide for: it has turned
\* from reading to writing on a backend that it cannot seek.
Astray == s.turned \/ s.status \in {"aborted", "overrun"}

\* The cursors stay within what the buffer holds, in both modes, and neither
\* buffer is ever asked to hold more than its size.  Every memcpy of estream.c
\* relies on it, and on a buffer being there, which is not so after es_set_buffering
\* has failed to allocate one in place of its last: then the size stays, but nothing
\* is left in the buffer.
CursorsInBounds ==
  (s.status = "open" /\ ~Astray) =>
    /\ s.writing => /\ s.data_len = 0
                    /\ s.data_offset = Len(s.buf)
                    /\ s.data_offset <= s.buffer_size
    /\ ~s.writing => /\ s.data_len = Len(s.buf)
                     /\ s.data_offset <= s.data_len
                     /\ s.data_len <= s.buffer_size
                     /\ s.data_flushed = 0
    /\ Len(s.unread) <= UnreadSize
    /\ s.strategy = "_IONBF" <=> s.buffer_size = 0
    /\ s.buffer = "none" => s.buf = <<>>

\* The stream's own idea of its position accounts for the position of the
\* backend exactly.  It lags behind only by the bytes that were read ahead and
\* then dropped by a flush or by setvbuf, and by those of an unfinished flush
\* that the backend got twice.
PositionAccounted ==
  (s.backend = "file" /\ s.status = "open") =>
    s.fpos = s.offset + s.data_len + s.data_flushed + s.lost + s.resent

\* What ftell answers is where the program is in the file, as long as no read
\* ahead was dropped and no flush has failed half way.
FtellExact ==
  (s.backend = "file" /\ s.status = "open"
     /\ s.lost = 0 /\ s.resent = 0 /\ s.data_flushed = 0) =>
    ftell(s) = Larger(0, LogicalPos(s) - Len(s.unread))

\* A reader's buffer is a copy of the bytes the backend stands behind: seeks,
\* refills, and changes of direction never leave stale bytes in it.
BufferMirrorsBackend ==
  (~s.writing /\ ~Astray) =>
    /\ s.data_len <= s.fpos
    /\ s.data_len > 0 => s.buf = SubSeq(s.file, s.fpos - s.data_len + 1, s.fpos)
=============================================================================
