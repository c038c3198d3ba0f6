------------------------------ MODULE MemBackend ------------------------------
(***************************************************************************)
(* The memory objects of estream.c (es_mopen, es_fopenmem): the cookie and *)
(* its read, write, seek and ioctl functions.  A stream calls them with    *)
(* its lock held, one at a time.                                           *)
(*                                                                         *)
(* size_t and gpgrt_off_t are words of the same width: a size is a number  *)
(* modulo Word, an offset the same number taken as signed.  func_realloc   *)
(* may fail, and always does beyond MaxAlloc.                              *)
(***************************************************************************)
EXTENDS Integers, Sequences

CONSTANTS
  Word,         \* 2^64, the number of values of a size_t
  BLOCK_SIZE,   \* BUFFER_BLOCK_SIZE
  MaxAlloc,     \* the largest buffer func_realloc ever returns
  Byte,         \* the bytes a program writes; 0 is not one of them
  Limits,       \* memory limits given to es_fopenmem
  Offsets,      \* offsets given to a seek
  MaxIO         \* bound: bytes of one read or write

ASSUME MemAssumption ==
  /\ Word \in Nat /\ Word > 7   \* Buffers has buffers of three bytes
  /\ BLOCK_SIZE \in 1..Word
  /\ MaxAlloc \in Nat /\ 2 * MaxAlloc < Word   \* a buffer has less than half of the memory
  /\ Byte \subseteq Nat \ {0}
  /\ Limits \subseteq 0..(Word - 1)
  /\ Offsets \subseteq {off \in Int : -Word <= 2 * off /\ 2 * off < Word}
  /\ MaxIO \in Nat /\ MaxIO + BLOCK_SIZE <= Word   \* no program has a buffer of nearly 2^64 bytes

VARIABLES
  c,      \* the cookie
  ret     \* the result of the last call

memVars == <<c, ret>>

Uninit == -1   \* a byte of the buffer nobody has written

U(i) == i % Word
Lesser(a, b) == IF a < b THEN a ELSE b

RoundUp(n) == (U(n + BLOCK_SIZE - 1) \div BLOCK_SIZE) * BLOCK_SIZE

Ret(op, whence, arg, rc, bytes) ==
  [op |-> op, whence |-> whence, arg |-> arg, rc |-> rc, bytes |-> bytes]

\* The n bytes of the buffer at p.
BytesAt(d, p, n) == [i \in 1..n |-> d.memory[p + i - 1]]

func_mem_create(append, grow, limit, memory, data_len) ==
  [append |-> append, grow |-> grow,
   memory_limit |-> IF limit = 0 THEN 0 ELSE RoundUp(limit),
   memory |-> memory, memory_size |-> Len(memory), data_len |-> data_len, offset |-> 0,
   status |-> "open",
   strayed |-> FALSE]   \* a relative seek has failed (recorded for the properties)

\* es_mopen takes a buffer of the program's, es_fopenmem starts without one.
Buffers == {<<>>} \cup {[i \in 1..3 |-> b] : b \in Byte}

MemInit ==
  /\ \E append \in BOOLEAN :
       \/ \E grow \in BOOLEAN, m \in Buffers : \E n \in 0..Len(m) :
            c = [func_mem_create(append, grow, 0, m, n) EXCEPT
                   !.memory = [i \in 0..(Len(m) - 1) |-> IF i < n THEN m[i + 1] ELSE Uninit]]
       \/ \E limit \in Limits :
            c = [func_mem_create(append, TRUE, limit, <<>>, 0) EXCEPT
                   !.memory = [i \in {} |-> Uninit]]
  /\ ret = Ret("open", "", 0, 0, <<>>)

-----------------------------------------------------------------------------
\* The buffer after func_realloc.
Resized(d, n) ==
  [d EXCEPT !.memory_size = n,
            !.memory = [i \in 0..(n - 1) |-> IF i < d.memory_size THEN d.memory[i] ELSE Uninit]]

\* Outcomes of growing the buffer to newsize: <<cookie, success>>.
Grown(d, newsize) ==
  {<<d, FALSE>>} \cup (IF newsize <= MaxAlloc THEN {<<Resized(d, newsize), TRUE>>} ELSE {})

OverLimit(d, newsize) == d.memory_limit # 0 /\ newsize > d.memory_limit

\* func_mem_read; the empty read asks whether there is something to read.
Read(size) ==
  /\ c.status = "open"
  /\ LET left == U(c.data_len - c.offset)
         n    == Lesser(size, left)
     IN IF size = 0
        THEN ret' = Ret("pending", "", 0, IF left # 0 THEN 0 ELSE -1, <<>>) /\ UNCHANGED c
        ELSE IF n > 0 /\ c.offset + n > c.memory_size
        THEN c' = [c EXCEPT !.status = "wild"] /\ UNCHANGED ret
        ELSE /\ ret' = Ret("read", "", size, n, BytesAt(c, c.offset, n))
             /\ c' = [c EXCEPT !.offset = U(@ + n)]

\* The bytes w overwrite the buffer of d from its offset on.
CopiedBytes(d, w) ==
  LET end == d.offset + Len(w) IN
  [d EXCEPT !.memory = [i \in DOMAIN @ |->
                          IF i >= d.offset /\ i < end THEN w[i - d.offset + 1] ELSE @[i]],
            !.data_len = IF end > @ THEN end ELSE @,
            !.offset = end]

\* The size a buffer needs for a write of size bytes, or -1 if it may not have it.
LargerSize(d, size) ==
  LET nleft == d.memory_size - d.offset
      n     == IF d.memory_size = 0 THEN size ELSE U(d.memory_size + size - nleft)
  IN IF n < d.offset \/ U(n + BLOCK_SIZE - 1) < d.offset \/ OverLimit(d, RoundUp(n))
     THEN -1 ELSE RoundUp(n)

AtEnd(d) == IF d.append THEN [d EXCEPT !.offset = d.data_len] ELSE d

\* func_mem_write of a run of size bytes b
MemWrite(size, b) ==
  /\ c.status = "open"
  /\ LET w == [i \in 1..size |-> b]
         d == AtEnd(c)
         nleft == d.memory_size - d.offset
         n == IF d.grow THEN size ELSE Lesser(size, nleft)
         Said(rc) == ret' = Ret("write", "", size, rc, w)
     IN IF size = 0 THEN Said(0) /\ UNCHANGED c
        ELSE IF nleft < 0 THEN c' = [d EXCEPT !.status = "abort"] /\ UNCHANGED ret
        ELSE IF n <= nleft THEN c' = CopiedBytes(d, SubSeq(w, 1, n)) /\ Said(n)
        ELSE LET newsize == LargerSize(d, n) IN
          IF newsize = -1 THEN c' = d /\ Said(-1)
          ELSE \E g \in Grown(d, newsize) :
                 IF g[2] THEN c' = CopiedBytes(g[1], w) /\ Said(n)
                 ELSE c' = d /\ Said(-1)

\* Mutant: the space a seek skips is left as it is.
NoZeroFill(d, pos) == IF pos > d.data_len THEN [d EXCEPT !.data_len = pos] ELSE d

\* Mutant: the data does not get longer.
ZeroFillOnly(d, pos) ==
  [d EXCEPT !.memory = [i \in DOMAIN @ |-> IF i >= d.data_len /\ i < pos THEN 0 ELSE @[i]]]

\* Seeking beyond the data fills with zeroes up to pos.
ZeroFill(d, pos) ==
  IF pos > d.data_len
  THEN [d EXCEPT !.memory = [i \in DOMAIN @ |->
                               IF i >= d.data_len /\ i < pos THEN 0 ELSE @[i]],
                 !.data_len = pos]
  ELSE d

\* Mutant: the new position is compared as a signed number.
MovedSigned(d, off, whence) ==
  CASE whence = "set" -> <<off, d>>
    [] whence = "cur" -> <<d.offset + off, [d EXCEPT !.offset = @ + off]>>
    [] whence = "end" -> <<d.data_len + off, [d EXCEPT !.data_len = @ + off]>>

\* What func_mem_seek has already changed when it looks at the new position:
\* the offset or, for "end", the length of the data.
Moved(d, off, whence) ==
  CASE whence = "set" -> <<U(off), d>>
    [] whence = "cur" -> <<U(d.offset + off), [d EXCEPT !.offset = U(@ + off)]>>
    [] whence = "end" -> <<U(d.data_len + off), [d EXCEPT !.data_len = U(@ + off)]>>

\* Mutant: the limit holds for writes only.
SeekableUnlimited(d, pos) == d.grow /\ U(pos + BLOCK_SIZE - 1) >= pos

\* A buffer may become large enough to hold pos.
Seekable(d, pos) ==
  d.grow /\ U(pos + BLOCK_SIZE - 1) >= pos /\ ~OverLimit(d, RoundUp(pos))

\* Outcomes of func_mem_seek: the cookie, and the new position or -1.
func_mem_seek(off, whence) ==
  LET pos == Moved(c, off, whence)[1]
      d   == Moved(c, off, whence)[2]
      Failed == <<[d EXCEPT !.strayed = @ \/ whence # "set"], -1>>
      Set(e) == <<[ZeroFill(e, pos) EXCEPT !.offset = pos], pos>>
  IN IF pos <= d.memory_size THEN {Set(d)}
     ELSE IF ~Seekable(d, pos) THEN {Failed}
     ELSE {IF g[2] THEN Set(g[1]) ELSE Failed : g \in Grown(d, RoundUp(pos))}

Seek(off, whence) ==
  /\ c.status = "open"
  /\ \E o \in func_mem_seek(off, whence) :
       c' = o[1] /\ ret' = Ret("seek", whence, off, o[2], <<>>)

\* func_mem_ioctl, COOKIE_IOCTL_TRUNCATE
Truncate(length) ==
  /\ c.status = "open"
  /\ \E o \in func_mem_seek(length, "set") :
       /\ c' = IF o[2] = -1 THEN o[1] ELSE [o[1] EXCEPT !.data_len = o[1].offset]
       /\ ret' = Ret("truncate", "", length, o[2], <<>>)

\* func_mem_ioctl, COOKIE_IOCTL_SNATCH_BUFFER, which es_fclose_snatch calls right
\* before it closes the stream.
Snatch ==
  /\ c.status = "open"
  /\ IF c.data_len > c.memory_size
     THEN c' = [c EXCEPT !.status = "wild"] /\ UNCHANGED ret
     ELSE /\ ret' = Ret("snatch", "", 0, 0, BytesAt(c, 0, c.data_len))
          /\ c' = [c EXCEPT !.status = "closed", !.memory = [i \in {} |-> Uninit],
                            !.memory_size = 0, !.offset = 0]

MemNext ==
  \/ \E size \in 0..MaxIO : Read(size)
  \/ \E size \in 0..MaxIO, b \in Byte : MemWrite(size, b)
  \/ \E off \in Offsets, whence \in {"set", "cur", "end"} : Seek(off, whence)
  \/ \E length \in Offsets : Truncate(length)
  \/ Snatch

MemSpec == MemInit /\ [][MemNext]_memVars

-----------------------------------------------------------------------------
(* Properties *)

TypeOK ==
  /\ {c.memory_size, c.data_len, c.offset, c.memory_limit} \subseteq 0..(Word - 1)
  /\ c.memory \in [0..(c.memory_size - 1) -> Byte \cup {0, Uninit}]
  /\ c.status \in {"open", "closed", "abort", "wild"}
  /\ {c.append, c.grow, c.strayed} \subseteq BOOLEAN

\* As long as no relative seek has failed the offset stays in the data and the
\* data in the buffer; so no assertion of func_mem_write fails, and nothing
\* outside the buffer is read, whatever the order of the calls.
InBuffer ==
  ~c.strayed /\ c.status # "closed" =>
    c.offset <= c.data_len /\ c.data_len <= c.memory_size /\ c.status = "open"

\* A buffer the object has allocated never gets larger than the limit, which is
\* rounded up to a block, by whichever operation it grows.
LimitKept == c.memory_limit # 0 => c.memory_size <= c.memory_limit

\* gpgrt_assert in func_mem_write: the offset is in the buffer.
AssertHolds == c.status # "abort"
=============================================================================
