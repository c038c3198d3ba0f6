----------------------------- MODULE BackendProofs -----------------------------
(***************************************************************************)
(* Two backends of a stream: memory objects, and the pipes of Windows.       *)
(*                                                                         *)
(* The data of a memory object stays in its buffer and the buffer within    *)
(* its limit, for every width of a word, block size and limit.              *)
(* A memory object (MemBackend) does what a file does (MemFile), as long as *)
(* no relative seek fails or moves the end of the data: every step of the   *)
(* object maps to a step of the file.                                       *)
(*                                                                         *)
(* The two halves of a pollable stream (W32Pollable) keep their bytes, for   *)
(* every size of the ring and the buffer and however the three threads       *)
(* interleave.                                                              *)
(***************************************************************************)
EXTENDS MCMemBackend, MCW32Pollable, SequenceTheorems, TLAPS

Size == 0..(Word - 1)
ByteVal == Byte \cup {0, Uninit}

-----------------------------------------------------------------------------
(***************************************************************************)
(* Word arithmetic.                                                         *)
(***************************************************************************)
LEMMA USmall == ASSUME NEW i \in Size PROVE U(i) = i
  BY MemAssumption DEF U, Size

LEMMA UType == ASSUME NEW i \in Int PROVE U(i) \in Size
  BY MemAssumption DEF U, Size

\* A sum of two words that wraps around is less than either by the rest of the word.
LEMMA UWraps == ASSUME NEW i \in Int, Word <= i, i < Word + Word PROVE U(i) = i - Word
  BY MemAssumption DEF U

\* The multiple of BLOCK_SIZE below x.
LEMMA BlockBelow ==
  ASSUME NEW x \in Size
  PROVE  /\ (x \div BLOCK_SIZE) * BLOCK_SIZE \in Int
         /\ (x \div BLOCK_SIZE) * BLOCK_SIZE \in 0..x
         /\ x - (BLOCK_SIZE - 1) <= (x \div BLOCK_SIZE) * BLOCK_SIZE
<1> DEFINE q == x \div BLOCK_SIZE
<1>1. q \in Int /\ q >= 0
  BY MemAssumption DEF Size
<1>2. x = q * BLOCK_SIZE + (x % BLOCK_SIZE)
  BY MemAssumption DEF Size
<1>3. x % BLOCK_SIZE \in 0..(BLOCK_SIZE - 1)
  BY MemAssumption DEF Size
<1> QED
  BY <1>1, <1>2, <1>3, MemAssumption DEF Size

\* A size is rounded down by at most what was added to it.
LEMMA RoundUpBounds ==
  ASSUME NEW n \in Size
  PROVE  /\ RoundUp(n) \in Size
         /\ U(n + BLOCK_SIZE - 1) >= n => n <= RoundUp(n)
<1>1. PICK x \in Size : x = U(n + BLOCK_SIZE - 1)
  BY UType, MemAssumption DEF Size
<1>2. /\ RoundUp(n) \in 0..x
      /\ x - (BLOCK_SIZE - 1) <= RoundUp(n)
  BY <1>1, BlockBelow DEF RoundUp
<1>3. x >= n => x = n + BLOCK_SIZE - 1
  <2>1. CASE n + BLOCK_SIZE - 1 < Word
    BY <1>1, <2>1, USmall, MemAssumption DEF Size
  <2>2. CASE Word <= n + BLOCK_SIZE - 1
    BY <1>1, <2>2, UWraps, MemAssumption DEF Size
  <2> QED BY <2>1, <2>2, MemAssumption DEF Size
<1> QED
  BY <1>1, <1>2, <1>3, MemAssumption DEF Size

-----------------------------------------------------------------------------
(***************************************************************************)
(* The invariant.  The properties say nothing of what makes them last: that     *)
(* sizes, the limit and the position are words, and that the buffer is as long   *)
(* as the cookie says.                                                        *)
(***************************************************************************)
Cookie(d) ==
  /\ d = [append |-> d.append, grow |-> d.grow, memory_limit |-> d.memory_limit,
          memory |-> d.memory, memory_size |-> d.memory_size, data_len |-> d.data_len,
          offset |-> d.offset, status |-> d.status, strayed |-> d.strayed]
  /\ d.append \in BOOLEAN /\ d.grow \in BOOLEAN /\ d.strayed \in BOOLEAN
  /\ d.memory_limit \in Size /\ d.memory_size \in Size
  /\ d.data_len \in Size /\ d.offset \in Size
  /\ d.memory \in [0..(d.memory_size - 1) -> ByteVal]
  /\ d.memory_limit # 0 => d.memory_size <= d.memory_limit
Inside(d) == d.offset <= d.data_len /\ d.data_len <= d.memory_size

MemInv ==
  /\ Cookie(c)
  /\ c.status \in {"open", "closed", "abort", "wild"}
  /\ ~c.strayed /\ c.status # "closed" => c.status = "open" /\ Inside(c)

LEMMA MemInitial == MemInit => MemInv
<1> SUFFICES ASSUME MemInit PROVE MemInv
  OBVIOUS
<1>1. 0 \in Size /\ 3 \in Size
  BY MemAssumption DEF Size
<1>2. ASSUME NEW append \in BOOLEAN, NEW grow \in BOOLEAN, NEW m \in Buffers, NEW n \in 0..Len(m),
             c = [func_mem_create(append, grow, 0, m, n) EXCEPT
                    !.memory = [i \in 0..(Len(m) - 1) |-> IF i < n THEN m[i + 1] ELSE Uninit]]
      PROVE  MemInv
  <2>1. Len(m) \in {0, 3}
    <3>1. CASE m = <<>>
      BY <3>1
    <3>2. ASSUME NEW b \in Byte, m = [i \in 1..3 |-> b] PROVE Len(m) = 3
      <4>1. m \in Seq(Byte) /\ DOMAIN m = 1..3
        BY <3>2
      <4> QED BY <4>1
    <3> QED BY <3>1, <3>2 DEF Buffers
  <2>2. \A i \in 1..Len(m) : m[i] \in Byte
    BY DEF Buffers
  <2>3. [i \in 0..(Len(m) - 1) |-> IF i < n THEN m[i + 1] ELSE Uninit] \in [0..(Len(m) - 1) -> ByteVal]
    BY <2>1, <2>2 DEF ByteVal
  <2>4. PICK memory \in [0..(Len(m) - 1) -> ByteVal] :
          c = [func_mem_create(append, grow, 0, m, n) EXCEPT !.memory = memory]
    BY <1>2, <2>3
  <2>5. c = [append |-> append, grow |-> grow, memory_limit |-> 0, memory |-> memory,
             memory_size |-> Len(m), data_len |-> n, offset |-> 0, status |-> "open", strayed |-> FALSE]
    BY <2>4 DEF func_mem_create
  <2> QED
    BY <1>1, <2>1, <2>5, MemAssumption DEF MemInv, Cookie, Inside, Size
<1>3. ASSUME NEW append \in BOOLEAN, NEW limit \in Limits,
             c = [func_mem_create(append, TRUE, limit, <<>>, 0) EXCEPT !.memory = [i \in {} |-> Uninit]]
      PROVE  MemInv
  <2>1. RoundUp(limit) \in Size
    BY RoundUpBounds, MemAssumption DEF Size
  <2>2. PICK memory \in [0..(0 - 1) -> ByteVal] :
          c = [func_mem_create(append, TRUE, limit, <<>>, 0) EXCEPT !.memory = memory]
    <3>1. 0..(0 - 1) = {}
      OBVIOUS
    <3>2. [i \in {} |-> Uninit] \in [0..(0 - 1) -> ByteVal]
      BY <3>1
    <3> QED BY <1>3, <3>2
  <2>3. c = [append |-> append, grow |-> TRUE,
             memory_limit |-> IF limit = 0 THEN 0 ELSE RoundUp(limit), memory |-> memory,
             memory_size |-> 0, data_len |-> 0, offset |-> 0, status |-> "open", strayed |-> FALSE]
    BY <2>2 DEF func_mem_create
  <2> QED
    BY <1>1, <2>1, <2>3 DEF MemInv, Cookie, Inside, Size
<1> QED
  BY <1>2, <1>3 DEF MemInit

\* A buffer that grows keeps its bytes and may have its new size.
LEMMA ResizedCookie ==
  ASSUME NEW d, Cookie(d), NEW n \in Size, ~OverLimit(d, n)
  PROVE  /\ Cookie(Resized(d, n))
         /\ Resized(d, n).memory_size = n
         /\ Resized(d, n).offset = d.offset /\ Resized(d, n).data_len = d.data_len
         /\ Resized(d, n).strayed = d.strayed /\ Resized(d, n).status = d.status
<1>1. PICK memory \in [0..(n - 1) -> ByteVal] :
        Resized(d, n) = [d EXCEPT !.memory_size = n, !.memory = memory]
  <2>1. [i \in 0..(n - 1) |-> IF i < d.memory_size THEN d.memory[i] ELSE Uninit] \in [0..(n - 1) -> ByteVal]
    BY DEF Cookie, ByteVal, Size
  <2> QED BY <2>1 DEF Resized
<1>2. Resized(d, n) =
        [append |-> d.append, grow |-> d.grow, memory_limit |-> d.memory_limit, memory |-> memory,
         memory_size |-> n, data_len |-> d.data_len, offset |-> d.offset, status |-> d.status,
         strayed |-> d.strayed]
  BY <1>1 DEF Cookie
<1> QED
  BY <1>2 DEF Cookie, OverLimit, Size

\* Bytes that fit are written in the buffer.
LEMMA CopiedCookie ==
  ASSUME NEW d, Cookie(d), NEW u \in Seq(Byte), d.offset + Len(u) <= d.memory_size
  PROVE  /\ Cookie(CopiedBytes(d, u))
         /\ Inside(d) => Inside(CopiedBytes(d, u))
         /\ CopiedBytes(d, u).strayed = d.strayed /\ CopiedBytes(d, u).status = d.status
<1>1. /\ Len(u) \in Nat /\ \A i \in 1..Len(u) : u[i] \in Byte
      /\ d.offset + Len(u) \in Size
  BY MemAssumption, SMTT(60) DEF Cookie, Size
<1> DEFINE end == d.offset + Len(u)
           len == IF end > d.data_len THEN end ELSE d.data_len
<1>2. PICK memory \in [0..(d.memory_size - 1) -> ByteVal] :
        CopiedBytes(d, u) = [d EXCEPT !.memory = memory, !.data_len = len, !.offset = end]
  <2>1. [i \in DOMAIN d.memory |->
           IF i >= d.offset /\ i < d.offset + Len(u) THEN u[i - d.offset + 1] ELSE d.memory[i]]
          \in [0..(d.memory_size - 1) -> ByteVal]
    BY <1>1 DEF Cookie, ByteVal, Size
  <2> QED BY <2>1 DEF CopiedBytes
<1>3. CopiedBytes(d, u) =
        [append |-> d.append, grow |-> d.grow, memory_limit |-> d.memory_limit, memory |-> memory,
         memory_size |-> d.memory_size, data_len |-> len, offset |-> end, status |-> d.status,
         strayed |-> d.strayed]
  BY <1>2 DEF Cookie
<1>4. /\ Cookie(CopiedBytes(d, u))
      /\ CopiedBytes(d, u).strayed = d.strayed /\ CopiedBytes(d, u).status = d.status
  BY <1>1, <1>3 DEF Cookie, Size
<1>5. ASSUME Inside(d) PROVE Inside(CopiedBytes(d, u))
  BY <1>1, <1>3, <1>5 DEF Cookie, Inside, Size
<1> QED
  BY <1>4, <1>5

-----------------------------------------------------------------------------
(***************************************************************************)
(* One lemma per operation.                                                 *)
(***************************************************************************)
LEMMA ReadKeeps == ASSUME MemInv, NEW size \in 0..MaxIO, Read(size) PROVE MemInv'
<1> DEFINE left == U(c.data_len - c.offset)
           n == Lesser(size, left)
<1>1. left \in Size
  BY UType DEF MemInv, Cookie, Size
<1>2. n \in Size /\ n <= size /\ n <= left
  BY <1>1, MemAssumption DEF Lesser, Size
<1>0. c.status = "open"
  BY DEF Read
<1>3. ASSUME ~c.strayed PROVE Inside(c) /\ left = c.data_len - c.offset
  <2>1. Inside(c) /\ c.data_len - c.offset \in Size
    BY <1>0, <1>3, MemAssumption, SMTT(60) DEF MemInv, Cookie, Inside, Size
  <2> QED BY <2>1, USmall
<1>4. CASE UNCHANGED c
  BY <1>4 DEF MemInv
<1>5. CASE n > 0 /\ c.offset + n > c.memory_size /\ c' = [c EXCEPT !.status = "wild"]
  \* What is read is the data, and the data is in the buffer.
  <2>1. c.strayed
    BY <1>2, <1>3, <1>5 DEF MemInv, Cookie, Inside, Size
  <2> QED BY <1>5, <2>1 DEF MemInv, Cookie, Inside
<1>6. CASE c' = [c EXCEPT !.offset = U(@ + n)]
  <2>1. U(c.offset + n) \in Size
    BY UType, <1>2 DEF MemInv, Cookie, Size
  <2>2. ASSUME ~c.strayed PROVE U(c.offset + n) = c.offset + n /\ c.offset + n <= c.data_len
    <3>0. c.offset \in Nat /\ c.data_len \in Nat /\ c.data_len < Word /\ n \in Nat /\ Word \in Nat
      BY <1>2, MemAssumption DEF MemInv, Cookie, Size
    <3>1. c.offset + n <= c.data_len /\ c.offset + n \in Size
      BY <1>2, <1>3, <2>2, <3>0 DEF Size
    <3> QED BY <3>1, USmall
  <2>3. Cookie(c')
    BY <1>6, <2>1 DEF MemInv, Cookie
  <2>4. c'.status = c.status /\ c'.strayed = c.strayed /\ c'.data_len = c.data_len
        /\ c'.memory_size = c.memory_size /\ c'.offset = U(c.offset + n)
    BY <1>6 DEF MemInv, Cookie
  <2> QED BY <1>3, <2>2, <2>3, <2>4 DEF MemInv, Inside
<1> QED
  BY <1>4, <1>5, <1>6 DEF Read

LEMMA LargerFits ==
  ASSUME NEW d, Cookie(d), NEW size \in 1..MaxIO, d.offset <= d.memory_size,
         LargerSize(d, size) # -1
  PROVE  /\ LargerSize(d, size) \in Size
         /\ d.offset + size <= LargerSize(d, size)
         /\ ~OverLimit(d, LargerSize(d, size))
<1> DEFINE n == IF d.memory_size = 0 THEN size
                ELSE U(d.memory_size + size - (d.memory_size - d.offset))
<1>1. size \in Size /\ size + BLOCK_SIZE <= Word
  BY MemAssumption DEF Size
<1>0. /\ d.offset \in Nat /\ d.offset < Word /\ d.memory_size \in Nat /\ d.memory_size < Word
      /\ size \in Nat /\ size < Word /\ Word \in Nat
  BY <1>1, MemAssumption, SMTT(60) DEF Cookie, Size
<1>2. ~(n < d.offset \/ U(n + BLOCK_SIZE - 1) < d.offset \/ OverLimit(d, RoundUp(n)))
      /\ LargerSize(d, size) = RoundUp(n)
  BY DEF LargerSize
\* A sum that wraps around is less than the offset.
<1>3. n = d.offset + size /\ n \in Size
  <2>1. CASE d.memory_size = 0
    BY <1>0, <1>1, <2>1
  <2>2. CASE d.memory_size # 0
    <3>1. n = U(d.offset + size)
      BY <1>0, <2>2
    <3>2. CASE d.offset + size < Word
      <4>1. d.offset + size \in Size
        BY <1>0, <3>2 DEF Size
      <4> QED BY <3>1, <4>1, USmall
    <3>3. CASE Word <= d.offset + size
      <4>1. PICK sum \in Int : sum = d.offset + size
        BY <1>0
      <4>2. U(sum) = sum - Word
        BY <1>0, <3>3, <4>1, UWraps
      <4>3. n < d.offset
        BY <1>0, <3>1, <4>1, <4>2
      <4> QED BY <1>2, <4>3
    <3>4. d.offset + size < Word \/ Word <= d.offset + size
      BY <1>0
    <3> QED BY <3>2, <3>3, <3>4
  <2> QED BY <2>1, <2>2
<1>4. U(n + BLOCK_SIZE - 1) >= n
  <2>1. CASE n + BLOCK_SIZE - 1 < Word
    BY <1>3, <2>1, USmall, MemAssumption DEF Size
  <2>2. CASE Word <= n + BLOCK_SIZE - 1
    <3>1. U(n + BLOCK_SIZE - 1) = n + BLOCK_SIZE - 1 - Word
      BY <1>3, <2>2, UWraps, MemAssumption DEF Size
    <3>2. n + BLOCK_SIZE - 1 - Word < d.offset
      BY <1>0, <1>1, <1>3, MemAssumption
    <3> QED BY <1>2, <3>1, <3>2
  <2> QED BY <1>3, <2>1, <2>2, MemAssumption DEF Size
<1> HIDE DEF n
<1> QED
  BY <1>2, <1>3, <1>4, RoundUpBounds

LEMMA AtEndCookie ==
  ASSUME NEW d, Cookie(d)
  PROVE  /\ Cookie(AtEnd(d))
         /\ AtEnd(d).strayed = d.strayed /\ AtEnd(d).status = d.status
         /\ Inside(d) => Inside(AtEnd(d))
  BY DEF AtEnd, Cookie, Inside, Size

\* A buffer that has grown has its new size.
LEMMA GrownResized ==
  ASSUME NEW d, NEW n, NEW g \in Grown(d, n), g[2]
  PROVE  g[1] = Resized(d, n) /\ n <= MaxAlloc
<1>1. g = <<d, FALSE>> \/ (g = <<Resized(d, n), TRUE>> /\ n <= MaxAlloc)
  BY DEF Grown
<1>2. <<d, FALSE>>[2] = FALSE /\ <<Resized(d, n), TRUE>>[1] = Resized(d, n)
  OBVIOUS
<1>3. CASE g = <<d, FALSE>>
  BY <1>2, <1>3
<1>4. CASE g = <<Resized(d, n), TRUE>> /\ n <= MaxAlloc
  BY <1>2, <1>4
<1> QED
  BY <1>1, <1>3, <1>4

\* The ways a write can end.
LEMMA MemWriteOutcome ==
  ASSUME NEW size, NEW b, MemWrite(size, b)
  PROVE  LET u == [i \in 1..size |-> b]
             d == AtEnd(c)
             nleft == d.memory_size - d.offset
             n == IF d.grow THEN size ELSE Lesser(size, nleft)
         IN /\ c.status = "open"
            /\ \/ size = 0 /\ c' = c /\ ret' = Ret("write", "", size, 0, u)
               \/ size # 0 /\ nleft < 0 /\ c' = [d EXCEPT !.status = "abort"]
               \/ /\ size # 0 /\ ~(nleft < 0) /\ n <= nleft
                  /\ c' = CopiedBytes(d, SubSeq(u, 1, n)) /\ ret' = Ret("write", "", size, n, u)
               \/ size # 0 /\ ~(nleft < 0) /\ c' = d /\ ret' = Ret("write", "", size, -1, u)
               \/ /\ size # 0 /\ ~(nleft < 0) /\ ~(n <= nleft)
                  /\ LargerSize(d, n) # -1 /\ LargerSize(d, n) <= MaxAlloc
                  /\ c' = CopiedBytes(Resized(d, LargerSize(d, n)), u) /\ ret' = Ret("write", "", size, n, u)
<1> DEFINE d == AtEnd(c)
           n == IF d.grow THEN size ELSE Lesser(size, d.memory_size - d.offset)
<1>1. ASSUME NEW g \in Grown(d, LargerSize(d, n)), g[2]
      PROVE  g[1] = Resized(d, LargerSize(d, n)) /\ LargerSize(d, n) <= MaxAlloc
  BY <1>1, GrownResized
<1> QED
  BY <1>1 DEF MemWrite

LEMMA MemWriteKeeps ==
  ASSUME MemInv, NEW size \in 0..MaxIO, NEW b \in Byte, MemWrite(size, b) PROVE MemInv'
<1> DEFINE u == [i \in 1..size |-> b]
           d == AtEnd(c)
           nleft == d.memory_size - d.offset
           n == IF d.grow THEN size ELSE Lesser(size, nleft)
<1>1. /\ c.status = "open"
      /\ \/ c' = c
         \/ size # 0 /\ nleft < 0 /\ c' = [d EXCEPT !.status = "abort"]
         \/ size # 0 /\ ~(nleft < 0) /\ n <= nleft /\ c' = CopiedBytes(d, SubSeq(u, 1, n))
         \/ size # 0 /\ ~(nleft < 0) /\ c' = d
         \/ /\ size # 0 /\ ~(nleft < 0) /\ ~(n <= nleft) /\ LargerSize(d, n) # -1
            /\ c' = CopiedBytes(Resized(d, LargerSize(d, n)), u)
  BY MemWriteOutcome
<1>2. /\ Cookie(d) /\ d.status = "open" /\ d.strayed = c.strayed
      /\ ~c.strayed => Inside(d)
  BY <1>1, AtEndCookie DEF MemInv
<1>3. u \in Seq(Byte) /\ Len(u) = size
  <2>1. u \in Seq(Byte) /\ DOMAIN u = 1..size
    BY MemAssumption
  <2> QED BY <2>1, MemAssumption
<1>4. nleft \in Int /\ size \in Nat
  BY <1>2, MemAssumption DEF Cookie, Size
<1> HIDE DEF d, u
<1>5. CASE c' = c
  BY <1>5 DEF MemInv, Cookie, Inside
<1>6. CASE nleft < 0 /\ c' = [d EXCEPT !.status = "abort"]
  \* The assertion fails only after a relative seek has.
  <2>1. d.offset \in Nat /\ d.data_len \in Nat /\ d.memory_size \in Nat /\ nleft < 0
    BY <1>2, <1>6, MemAssumption DEF Cookie, Size
  <2>2. ~Inside(d)
    BY <2>1 DEF Inside
  <2>3. c.strayed
    BY <1>2, <2>2
  <2> QED BY <1>2, <1>6, <2>3 DEF MemInv, Cookie
<1>7. CASE ~(nleft < 0) /\ n <= nleft /\ c' = CopiedBytes(d, SubSeq(u, 1, n))
  <2>1. n \in 0..size
    BY <1>4, <1>7 DEF Lesser
  <2> HIDE DEF n
  <2>2. SubSeq(u, 1, n) \in Seq(Byte) /\ Len(SubSeq(u, 1, n)) = n
    BY <1>3, <1>4, <2>1
  <2>3. d.offset + Len(SubSeq(u, 1, n)) <= d.memory_size
    BY <1>2, <1>4, <1>7, <2>1, <2>2, MemAssumption, SMTT(60) DEF Cookie, Size
  <2> QED BY <1>2, <1>7, <2>2, <2>3, CopiedCookie DEF MemInv
<1>8. CASE c' = d
  BY <1>2, <1>8 DEF MemInv
<1>9. CASE /\ size # 0 /\ ~(nleft < 0) /\ ~(n <= nleft) /\ LargerSize(d, n) # -1
           /\ c' = CopiedBytes(Resized(d, LargerSize(d, n)), u)
  <2>1. n = size /\ size \in 1..MaxIO
    BY <1>4, <1>9 DEF Lesser
  <2>2. d.offset <= d.memory_size
    BY <1>2, <1>9, MemAssumption DEF Cookie, Size
  <2> DEFINE newsize == LargerSize(d, size)
             e == Resized(d, newsize)
  <2>3. newsize \in Size /\ d.offset + size <= newsize /\ ~OverLimit(d, newsize)
    BY <1>2, <1>9, <2>1, <2>2, LargerFits
  <2> HIDE DEF newsize
  <2>4. /\ Cookie(e) /\ e.memory_size = newsize /\ e.offset = d.offset /\ e.data_len = d.data_len
        /\ e.strayed = d.strayed /\ e.status = d.status
    BY <1>2, <2>3, ResizedCookie
  \* The room for size bytes was missing, so the buffer gets larger.
  <2>5. ASSUME ~c.strayed PROVE Inside(e)
    <3>1. d.offset <= d.data_len /\ d.data_len <= d.memory_size
      BY <1>2, <2>5 DEF Inside
    <3>2. d.offset \in Int /\ d.data_len \in Int /\ d.memory_size \in Int /\ newsize \in Int
      BY <1>2, <2>3, MemAssumption DEF Cookie, Size
    <3>3. d.memory_size <= newsize
      BY <1>4, <1>9, <2>1, <2>3, <3>2
    <3> QED BY <2>4, <3>1, <3>2, <3>3 DEF Inside
  <2>6. e.offset + Len(u) <= e.memory_size
    BY <1>3, <2>3, <2>4
  <2>7. c' = CopiedBytes(e, u)
    BY <1>9, <2>1 DEF newsize
  <2> HIDE DEF e
  <2> QED BY <1>2, <1>3, <2>4, <2>5, <2>6, <2>7, CopiedCookie DEF MemInv
<1> QED
  BY <1>1, <1>5, <1>6, <1>7, <1>8, <1>9

-----------------------------------------------------------------------------
LEMMA ZeroFillCookie ==
  ASSUME NEW d, Cookie(d), NEW pos \in Size, pos <= d.memory_size
  PROVE  LET e == [ZeroFill(d, pos) EXCEPT !.offset = pos]
         IN /\ Cookie(e) /\ e.offset = pos /\ pos <= e.data_len
            /\ e.memory_size = d.memory_size
            /\ e.data_len = IF pos > d.data_len THEN pos ELSE d.data_len
            /\ e.strayed = d.strayed /\ e.status = d.status
<1> DEFINE e == [ZeroFill(d, pos) EXCEPT !.offset = pos]
           len == IF pos > d.data_len THEN pos ELSE d.data_len
<1>1. PICK memory \in [0..(d.memory_size - 1) -> ByteVal] :
        ZeroFill(d, pos) = [d EXCEPT !.memory = memory, !.data_len = len]
  <2>1. [i \in DOMAIN d.memory |-> IF i >= d.data_len /\ i < pos THEN 0 ELSE d.memory[i]]
          \in [0..(d.memory_size - 1) -> ByteVal]
    BY DEF Cookie, ByteVal
  <2>2. CASE pos > d.data_len
    BY <2>1, <2>2 DEF ZeroFill
  <2>3. CASE ~(pos > d.data_len)
    <3>1. d = [d EXCEPT !.memory = d.memory, !.data_len = d.data_len]
      BY DEF Cookie
    <3> QED BY <2>3, <3>1 DEF ZeroFill, Cookie
  <2> QED BY <2>2, <2>3
<1>2. ZeroFill(d, pos) =
        [append |-> d.append, grow |-> d.grow, memory_limit |-> d.memory_limit, memory |-> memory,
         memory_size |-> d.memory_size, data_len |-> len, offset |-> d.offset, status |-> d.status,
         strayed |-> d.strayed]
  BY <1>1 DEF Cookie
<1>3. e = [append |-> d.append, grow |-> d.grow, memory_limit |-> d.memory_limit, memory |-> memory,
           memory_size |-> d.memory_size, data_len |-> len, offset |-> pos, status |-> d.status,
           strayed |-> d.strayed]
  BY <1>2
<1> HIDE DEF e
<1>4. Cookie(e)
  BY <1>3, MemAssumption DEF Cookie, Size
<1>5. /\ e.offset = pos /\ pos <= e.data_len /\ e.memory_size = d.memory_size /\ e.data_len = len
      /\ e.strayed = d.strayed /\ e.status = d.status
  BY <1>3, MemAssumption, SMTT(60) DEF Cookie, Size
<1> QED
  BY <1>4, <1>5 DEF e

\* What a seek changes before it looks at the new position.
LEMMA MovedCookie ==
  ASSUME MemInv, NEW off \in Int, NEW whence \in {"set", "cur", "end"}
  PROVE  LET pos == Moved(c, off, whence)[1]
             d   == Moved(c, off, whence)[2]
         IN /\ pos \in Size /\ Cookie(d) /\ d.memory_size = c.memory_size
            /\ d.strayed = c.strayed /\ d.status = c.status
            /\ whence = "set" => d = c
            /\ d.data_len = c.data_len \/ d.data_len = pos
<1>1. U(off) \in Size /\ U(c.offset + off) \in Size /\ U(c.data_len + off) \in Size
  BY UType DEF MemInv, Cookie, Size
<1>2. CASE whence = "set"
  BY <1>1, <1>2 DEF Moved, MemInv
<1>3. CASE whence = "cur"
  <2>1. Moved(c, off, whence) = <<U(c.offset + off), [c EXCEPT !.offset = U(@ + off)]>>
    BY <1>3 DEF Moved
  <2> QED BY <1>1, <1>3, <2>1 DEF MemInv, Cookie
<1>4. CASE whence = "end"
  <2>1. Moved(c, off, whence) = <<U(c.data_len + off), [c EXCEPT !.data_len = U(@ + off)]>>
    BY <1>4 DEF Moved
  <2> QED BY <1>1, <1>4, <2>1 DEF MemInv, Cookie
<1> QED
  BY <1>2, <1>3, <1>4

LEMMA SeekOutcome ==
  ASSUME MemInv, c.status = "open", NEW off \in Int, NEW whence \in {"set", "cur", "end"},
         NEW o \in func_mem_seek(off, whence)
  PROVE  /\ Cookie(o[1]) /\ o[1].status = "open"
         /\ ~o[1].strayed => Inside(o[1])
         /\ o[2] # -1 => o[1].offset <= o[1].memory_size
<1> DEFINE pos == Moved(c, off, whence)[1]
           d == Moved(c, off, whence)[2]
           Failed == <<[d EXCEPT !.strayed = @ \/ whence # "set"], -1>>
           Set(e) == <<[ZeroFill(e, pos) EXCEPT !.offset = pos], pos>>
<1>1. /\ pos \in Size /\ Cookie(d) /\ d.memory_size = c.memory_size
      /\ d.strayed = c.strayed /\ d.status = c.status
      /\ whence = "set" => d = c
      /\ d.data_len = c.data_len \/ d.data_len = pos
  BY MovedCookie
<1>2. \/ o = Failed
      \/ pos <= d.memory_size /\ o = Set(d)
      \/ /\ ~(pos <= d.memory_size) /\ Seekable(d, pos)
         /\ o = Set(Resized(d, RoundUp(pos)))
  <2>1. ASSUME NEW g \in Grown(d, RoundUp(pos)), g[2]
        PROVE  g[1] = Resized(d, RoundUp(pos))
    BY <2>1, GrownResized
  <2> QED BY <2>1 DEF func_mem_seek
<1> HIDE DEF pos, d
<1>3. CASE o = Failed
  <2>1. o[1] = [d EXCEPT !.strayed = @ \/ whence # "set"] /\ o[2] = -1
    BY <1>3
  <2>2. Cookie(o[1]) /\ o[1].status = "open" /\ (~o[1].strayed => ~c.strayed /\ whence = "set")
    BY <1>1, <2>1 DEF Cookie
  <2>3. ASSUME ~o[1].strayed PROVE Inside(o[1])
    BY <1>1, <2>1, <2>2, <2>3 DEF MemInv, Inside, Cookie
  <2> QED BY <2>1, <2>2, <2>3
\* Of a buffer e that has the position, whether it had to grow or not.
<1>4. ASSUME NEW e, Cookie(e), e.status = "open", e.strayed = c.strayed, e.data_len = d.data_len,
             pos <= e.memory_size, c.memory_size <= e.memory_size, o = Set(e)
      PROVE  /\ Cookie(o[1]) /\ o[1].status = "open"
             /\ ~o[1].strayed => Inside(o[1])
             /\ o[2] # -1 => o[1].offset <= o[1].memory_size
  <2>1. o[1] = [ZeroFill(e, pos) EXCEPT !.offset = pos]
    BY <1>4
  <2>2. /\ Cookie(o[1]) /\ o[1].offset = pos /\ pos <= o[1].data_len
        /\ o[1].memory_size = e.memory_size
        /\ o[1].data_len = IF pos > e.data_len THEN pos ELSE e.data_len
        /\ o[1].strayed = e.strayed /\ o[1].status = e.status
    BY <1>1, <1>4, <2>1, ZeroFillCookie
  <2>3. ASSUME ~o[1].strayed PROVE e.data_len <= e.memory_size
    <3>1. c.data_len <= c.memory_size
      BY <1>4, <2>2, <2>3 DEF MemInv, Inside
    <3>2. c.data_len \in Int /\ c.memory_size \in Int /\ e.memory_size \in Int
      BY <1>4, MemAssumption DEF MemInv, Cookie, Size
    <3> QED BY <1>1, <1>4, <3>1, <3>2
  <2> QED BY <1>1, <1>4, <2>2, <2>3 DEF Inside
<1>5. CASE pos <= d.memory_size /\ o = Set(d)
  <2>1. c.memory_size <= d.memory_size
    BY <1>1, MemAssumption DEF Cookie, Size
  <2> QED BY <1>1, <1>4, <1>5, <2>1
<1>6. CASE ~(pos <= d.memory_size) /\ Seekable(d, pos) /\ o = Set(Resized(d, RoundUp(pos)))
  <2>1. RoundUp(pos) \in Size /\ pos <= RoundUp(pos) /\ ~OverLimit(d, RoundUp(pos))
    BY <1>1, <1>6, RoundUpBounds DEF Seekable
  <2> DEFINE e == Resized(d, RoundUp(pos))
  <2>2. /\ Cookie(e) /\ e.memory_size = RoundUp(pos) /\ e.data_len = d.data_len
        /\ e.strayed = d.strayed /\ e.status = d.status
    BY <1>1, <2>1, ResizedCookie
  <2>3. c.memory_size <= e.memory_size
    <3>1. c.memory_size \in Nat /\ pos \in Nat /\ RoundUp(pos) \in Nat
      BY <1>1, <2>1, MemAssumption DEF Cookie, Size
    <3>2. d.memory_size = c.memory_size /\ ~(pos <= d.memory_size) /\ pos <= RoundUp(pos)
      BY <1>1, <1>6, <2>1
    <3> QED BY <2>2, <3>1, <3>2
  <2> QED BY <1>1, <1>4, <1>6, <2>1, <2>2, <2>3
<1> QED
  BY <1>2, <1>3, <1>5, <1>6

LEMMA SeekKeeps ==
  ASSUME MemInv, NEW off \in Offsets, NEW whence \in {"set", "cur", "end"}, Seek(off, whence)
  PROVE  MemInv'
<1>1. off \in Int
  BY MemAssumption
<1>2. c.status = "open" /\ \E o \in func_mem_seek(off, whence) : c' = o[1]
  BY DEF Seek
<1>3. Cookie(c') /\ c'.status = "open" /\ (~c'.strayed => Inside(c'))
  BY <1>1, <1>2, SeekOutcome
<1> QED
  BY <1>3 DEF MemInv, Cookie, Inside

LEMMA TruncateKeeps == ASSUME MemInv, NEW length \in Offsets, Truncate(length) PROVE MemInv'
<1>1. length \in Int
  BY MemAssumption
<1>2. c.status = "open"
  BY DEF Truncate
<1>3. PICK o \in func_mem_seek(length, "set") :
        c' = IF o[2] = -1 THEN o[1] ELSE [o[1] EXCEPT !.data_len = o[1].offset]
  BY DEF Truncate
<1>4. /\ Cookie(o[1]) /\ o[1].status = "open"
      /\ ~o[1].strayed => Inside(o[1])
      /\ o[2] # -1 => o[1].offset <= o[1].memory_size
  BY <1>1, <1>2, SeekOutcome
<1>5. CASE o[2] = -1
  <2>1. c' = o[1]
    BY <1>3, <1>5
  <2> QED BY <1>4, <2>1 DEF MemInv, Cookie, Inside
<1>6. CASE o[2] # -1
  <2> DEFINE d == o[1]
  <2>1. c' = [d EXCEPT !.data_len = d.offset]
    BY <1>3, <1>6
  <2>2. Cookie(d) /\ d.status = "open" /\ d.offset <= d.memory_size
    BY <1>4, <1>6
  <2> HIDE DEF d
  <2>3. c' = [append |-> d.append, grow |-> d.grow, memory_limit |-> d.memory_limit,
              memory |-> d.memory, memory_size |-> d.memory_size, data_len |-> d.offset,
              offset |-> d.offset, status |-> d.status, strayed |-> d.strayed]
    BY <2>1, <2>2 DEF Cookie
  <2>4. Cookie(c') /\ c'.status = "open"
    BY <2>2, <2>3 DEF Cookie
  <2>5. Inside(c')
    BY <2>2, <2>3, MemAssumption DEF Inside, Cookie, Size
  <2> QED BY <2>4, <2>5 DEF MemInv, Cookie, Inside
<1> QED
  BY <1>5, <1>6

LEMMA SnatchKeeps == ASSUME MemInv, Snatch PROVE MemInv'
<1>1. c.status = "open"
  BY DEF Snatch
<1>2. CASE c.data_len > c.memory_size /\ c' = [c EXCEPT !.status = "wild"]
  <2>1. c.strayed
    BY <1>1, <1>2, MemAssumption DEF MemInv, Cookie, Inside, Size
  <2> QED BY <1>2, <2>1 DEF MemInv, Cookie
<1>3. CASE c' = [c EXCEPT !.status = "closed", !.memory = [i \in {} |-> Uninit],
                          !.memory_size = 0, !.offset = 0]
  <2>1. PICK memory \in [0..(0 - 1) -> ByteVal] :
          c' = [c EXCEPT !.status = "closed", !.memory = memory, !.memory_size = 0, !.offset = 0]
    <3>1. 0..(0 - 1) = {}
      OBVIOUS
    <3>2. [i \in {} |-> Uninit] \in [0..(0 - 1) -> ByteVal]
      BY <3>1
    <3> QED BY <1>3, <3>2
  <2>2. c' = [append |-> c.append, grow |-> c.grow, memory_limit |-> c.memory_limit,
              memory |-> memory, memory_size |-> 0, data_len |-> c.data_len,
              offset |-> 0, status |-> "closed", strayed |-> c.strayed]
    BY <2>1 DEF MemInv, Cookie
  <2> QED BY <2>2, MemAssumption DEF MemInv, Cookie, Size
<1> QED
  BY <1>2, <1>3 DEF Snatch

LEMMA MemInductive == MemInv /\ [MemNext]_memVars => MemInv'
<1> SUFFICES ASSUME MemInv, [MemNext]_memVars PROVE MemInv'
  OBVIOUS
<1>1. CASE UNCHANGED memVars
  BY <1>1 DEF memVars, MemInv, Cookie, Inside
<1>2. CASE MemNext
  BY <1>2, ReadKeeps, MemWriteKeeps, SeekKeeps, TruncateKeeps, SnatchKeeps DEF MemNext
<1> QED
  BY <1>1, <1>2

-----------------------------------------------------------------------------
LEMMA MemInvariant == MemSpec => []MemInv
  BY MemInitial, MemInductive, PTL DEF MemSpec

\* Sizes, offsets and lengths stay words and the buffer has the size the cookie says, whatever
\* the calls (the memory object of src/estream.c).
THEOREM MemTypeCorrect == MemSpec => []TypeOK
<1>1. MemInv => TypeOK
  BY DEF MemInv, Cookie, TypeOK, Size, ByteVal
<1> QED BY MemInvariant, <1>1, PTL

\* Until a relative seek fails the data stays in the buffer and the position in the data, so
\* no assertion of func_mem_write fails and nothing outside the buffer is read.
THEOREM DataInBuffer == MemSpec => []InBuffer
<1>1. MemInv => InBuffer
  BY DEF MemInv, Inside, InBuffer
<1> QED BY MemInvariant, <1>1, PTL

\* Neither a write nor a seek nor a truncation makes the buffer larger than its limit.
THEOREM BufferWithinLimit == MemSpec => []LimitKept
<1>1. MemInv => LimitKept
  BY DEF MemInv, Cookie, LimitKept
<1> QED BY MemInvariant, <1>1, PTL

-----------------------------------------------------------------------------
(***************************************************************************)
(* The data as a sequence.                                                  *)
(***************************************************************************)
Data(d) == BytesAt(d, 0, d.data_len)
Holds(d) == Cookie(d) /\ Inside(d)
Within(d) == Cookie(d) /\ d.data_len <= d.memory_size

LEMMA HoldsWithin == ASSUME NEW d, Holds(d) PROVE Within(d)
  BY DEF Holds, Inside, Within

LEMMA Numbers ==
  ASSUME NEW d, Cookie(d)
  PROVE  d.offset \in Nat /\ d.data_len \in Nat /\ d.memory_size \in Nat
  BY MemAssumption DEF Cookie, Size

LEMMA DataSeq ==
  ASSUME NEW d, Within(d)
  PROVE  /\ Data(d) \in Seq(ByteVal) /\ Len(Data(d)) = d.data_len
         /\ \A i \in 1..d.data_len : Data(d)[i] = d.memory[i - 1]
<1>1. Data(d) = [i \in 1..d.data_len |-> d.memory[0 + i - 1]]
  BY DEF Data, BytesAt
<1>2. \A i \in 1..d.data_len : i - 1 \in 0..(d.memory_size - 1) /\ 0 + i - 1 = i - 1
  BY Numbers DEF Within
<1>3. Data(d) = [i \in 1..d.data_len |-> d.memory[i - 1]]
  BY <1>1, <1>2
<1>4. Data(d) \in [1..d.data_len -> ByteVal]
  BY <1>2, <1>3 DEF Within, Cookie
<1>5. d.data_len \in Nat
  BY Numbers DEF Within
<1>6. Data(d) \in Seq(ByteVal)
  BY <1>4, <1>5, SeqDef
<1>7. Len(Data(d)) = d.data_len
  BY <1>4, <1>5, <1>6, LenProperties
<1> QED
  BY <1>3, <1>6, <1>7

LEMMA MemDataIs == Holds(c) => MemData = Data(c)
  BY DEF Holds, Inside, MemData, Data

\* Two cookies with the same data.
LEMMA SameData ==
  ASSUME NEW d, NEW e, Within(d), Within(e), d.data_len = e.data_len,
         \A i \in 0..(d.data_len - 1) : d.memory[i] = e.memory[i]
  PROVE  Data(d) = Data(e)
<1>1. \A i \in 1..d.data_len : i - 1 \in 0..(d.data_len - 1)
  BY Numbers DEF Within
<1>2. \A i \in 1..Len(Data(d)) : Data(d)[i] = Data(e)[i]
  BY <1>1, DataSeq
<1> QED
  BY <1>2, DataSeq, SeqEqual

LEMMA ResizedWithin ==
  ASSUME NEW d, Within(d), NEW n \in Size, ~OverLimit(d, n), d.memory_size <= n
  PROVE  Within(Resized(d, n)) /\ Data(Resized(d, n)) = Data(d)
<1> DEFINE e == Resized(d, n)
<1>1. /\ Cookie(e) /\ e.memory_size = n /\ e.offset = d.offset /\ e.data_len = d.data_len
  BY ResizedCookie DEF Within
<1>2. d.data_len \in Nat /\ d.memory_size \in Nat /\ n \in Nat
  BY Numbers, MemAssumption DEF Within, Size
<1>3. Within(e)
  BY <1>1, <1>2 DEF Within
<1>4. ASSUME NEW i \in 0..(d.data_len - 1) PROVE e.memory[i] = d.memory[i]
  <2>1. i \in 0..(n - 1) /\ i < d.memory_size
    BY <1>2 DEF Within
  <2>2. e.memory = [j \in 0..(n - 1) |-> IF j < d.memory_size THEN d.memory[j] ELSE Uninit]
    BY DEF Within, Cookie, Resized
  <2> QED BY <2>1, <2>2
<1> HIDE DEF e
<1>5. Data(d) = Data(e)
  BY <1>1, <1>3, <1>4, SameData
<1> QED
  BY <1>3, <1>5 DEF e

LEMMA ResizedData ==
  ASSUME NEW d, Holds(d), NEW n \in Size, ~OverLimit(d, n), d.memory_size <= n
  PROVE  Holds(Resized(d, n)) /\ Data(Resized(d, n)) = Data(d)
<1>1. Within(Resized(d, n)) /\ Data(Resized(d, n)) = Data(d)
  BY HoldsWithin, ResizedWithin
<1>2. Resized(d, n).offset = d.offset /\ Resized(d, n).data_len = d.data_len
  BY ResizedCookie DEF Holds
<1> QED
  BY <1>1, <1>2 DEF Holds, Inside, Within

LEMMA AtEndData ==
  ASSUME NEW d, Holds(d)
  PROVE  /\ Holds(AtEnd(d)) /\ Data(AtEnd(d)) = Data(d)
         /\ AtEnd(d).offset = IF d.append THEN d.data_len ELSE d.offset
<1> DEFINE e == AtEnd(d)
<1>1. /\ e.memory = d.memory /\ e.data_len = d.data_len
      /\ e.offset = IF d.append THEN d.data_len ELSE d.offset
  BY DEF AtEnd, Holds, Cookie
<1>2. Holds(e)
  BY AtEndCookie DEF Holds
<1> HIDE DEF e
<1>3. Data(d) = Data(e)
  BY <1>1, <1>2, SameData, HoldsWithin
<1> QED
  BY <1>1, <1>2, <1>3 DEF e

\* What a write leaves: the data before it, its bytes, and the data behind it.
LEMMA CopiedData ==
  ASSUME NEW d, Holds(d), NEW u \in Seq(Byte), d.offset + Len(u) <= d.memory_size
  PROVE  /\ Holds(CopiedBytes(d, u))
         /\ CopiedBytes(d, u).offset = d.offset + Len(u)
         /\ Data(CopiedBytes(d, u)) =
              SubSeq(Data(d), 1, d.offset) \o u \o SubSeq(Data(d), d.offset + Len(u) + 1, d.data_len)
<1> DEFINE e == CopiedBytes(d, u)
           n == Len(u)
           p == d.offset
           end == p + n
           len == IF end > d.data_len THEN end ELSE d.data_len
           head == SubSeq(Data(d), 1, p)
           rest == SubSeq(Data(d), end + 1, d.data_len)
<1>1. /\ n \in Nat /\ p \in Nat /\ d.data_len \in Nat /\ d.memory_size \in Nat
      /\ p <= d.data_len /\ d.data_len <= d.memory_size
  BY Numbers, LenProperties DEF Holds, Inside
<1>2. Holds(e)
  BY CopiedCookie DEF Holds
<1>3. /\ e.offset = end /\ e.data_len = len
      /\ e.memory = [i \in DOMAIN d.memory |-> IF i >= p /\ i < end THEN u[i - p + 1] ELSE d.memory[i]]
  BY DEF Holds, Cookie, CopiedBytes
<1>4. DOMAIN d.memory = 0..(d.memory_size - 1)
  BY DEF Holds, Cookie
<1> HIDE DEF e
<1>5. /\ Data(d) \in Seq(ByteVal) /\ Len(Data(d)) = d.data_len
      /\ \A i \in 1..d.data_len : Data(d)[i] = d.memory[i - 1]
      /\ \A i \in 1..d.data_len : Data(d)[i] \in ByteVal
  BY DataSeq, HoldsWithin, ElementOfSeq
<1>6. /\ head \in Seq(ByteVal) /\ Len(head) = p
      /\ \A i \in 1..p : head[i] = Data(d)[i]
  <2>1. \A i \in 1..p : Data(d)[i] \in ByteVal
    BY <1>1, <1>5
  <2>2. 1 \in Int /\ p \in Int /\ \A i \in 1..p : 1 + i - 1 = i
    BY <1>1
  <2>3. /\ head \in Seq(ByteVal) /\ Len(head) = IF 1 <= p THEN p - 1 + 1 ELSE 0
        /\ \A i \in 1..(p - 1 + 1) : head[i] = Data(d)[1 + i - 1]
    BY <2>1, <2>2, SubSeqProperties
  <2> QED BY <1>1, <2>2, <2>3
<1>7. /\ rest \in Seq(ByteVal) /\ Len(rest) = len - end
      /\ \A i \in 1..(len - end) : rest[i] = Data(d)[end + i]
  <2>1. \A i \in (end + 1)..d.data_len : Data(d)[i] \in ByteVal
    BY <1>1, <1>5
  <2>2. end + 1 \in Int /\ d.data_len \in Int
    BY <1>1
  <2>3. /\ rest \in Seq(ByteVal)
        /\ Len(rest) = IF end + 1 <= d.data_len THEN d.data_len - (end + 1) + 1 ELSE 0
        /\ \A i \in 1..(d.data_len - (end + 1) + 1) : rest[i] = Data(d)[end + 1 + i - 1]
    BY <2>1, <2>2, SubSeqProperties
  <2>4. \A i \in Int : end + 1 + i - 1 = end + i
    BY <1>1, SMTT(60)
  <2>5. len - end = IF end + 1 <= d.data_len THEN d.data_len - (end + 1) + 1 ELSE 0
    BY <1>1
  <2>6. ASSUME NEW i \in 1..(len - end) PROVE rest[i] = Data(d)[end + i]
    <3>1. i \in Int /\ i \in 1..(d.data_len - (end + 1) + 1)
      BY <1>1
    <3> QED BY <2>3, <2>4, <3>1
  <2> QED BY <2>3, <2>5, <2>6
<1>8. u \in Seq(ByteVal) /\ \A i \in 1..n : u[i] \in ByteVal
  BY SeqMonotonic, ElementOfSeq DEF ByteVal
<1> HIDE DEF head, rest
<1>9. /\ head \o u \in Seq(ByteVal) /\ Len(head \o u) = end
      /\ \A i \in 1..end : (head \o u)[i] = IF i <= p THEN head[i] ELSE u[i - p]
  BY <1>6, <1>8, ConcatProperties, SMTT(60)
<1> DEFINE whole == head \o u \o rest
<1>10. /\ whole \in Seq(ByteVal) /\ Len(whole) = len
       /\ \A i \in 1..len : whole[i] = IF i <= end THEN (head \o u)[i] ELSE rest[i - end]
  <2>1. /\ whole \in Seq(ByteVal) /\ Len(whole) = end + (len - end)
        /\ \A i \in 1..(end + (len - end)) :
             whole[i] = IF i <= end THEN (head \o u)[i] ELSE rest[i - end]
    BY <1>7, <1>9, ConcatProperties
  <2>2. end + (len - end) = len
    BY <1>1
  <2> QED BY <2>1, <2>2
<1> HIDE DEF whole
<1>11. ASSUME NEW i \in 1..len PROVE Data(e)[i] = whole[i]
  <2>0. Within(e) /\ len <= d.memory_size
    BY <1>1, <1>2, <1>3, HoldsWithin
  <2>1. Data(e)[i] = e.memory[i - 1] /\ i - 1 \in 0..(d.memory_size - 1)
    <3>1. \A k \in 1..e.data_len : Data(e)[k] = e.memory[k - 1]
      BY <2>0, DataSeq
    <3>2. i - 1 \in 0..(d.memory_size - 1)
      BY <1>1, <2>0
    <3> QED BY <1>3, <3>1, <3>2
  <2>2. Data(e)[i] = IF i - 1 >= p /\ i - 1 < end THEN u[i - 1 - p + 1] ELSE d.memory[i - 1]
    BY <1>3, <1>4, <2>1
  <2>3. CASE i <= p
    <3>1. i \in 1..p /\ i \in 1..end /\ i \in 1..d.data_len /\ ~(i - 1 >= p) /\ i <= end
      BY <1>1, <2>3
    <3>2. Data(e)[i] = d.memory[i - 1]
      BY <2>2, <3>1
    <3>3. whole[i] = (head \o u)[i] /\ (head \o u)[i] = head[i]
      BY <1>9, <1>10, <2>3, <3>1
    <3> QED BY <1>5, <1>6, <3>1, <3>2, <3>3
  <2>4. CASE p < i /\ i <= end
    <3>1. i - 1 - p + 1 = i - p
      BY <1>1
    <3>2. i \in 1..end /\ i - 1 >= p /\ i - 1 < end /\ ~(i <= p)
      BY <1>1, <2>4
    <3>3. Data(e)[i] = u[i - p]
      BY <2>2, <3>1, <3>2
    <3>4. whole[i] = (head \o u)[i] /\ (head \o u)[i] = u[i - p]
      BY <1>9, <1>10, <2>4, <3>2
    <3> QED BY <3>3, <3>4
  <2>5. CASE end < i
    <3>1. /\ i - end \in 1..(len - end) /\ end + (i - end) = i /\ i \in 1..d.data_len
          /\ ~(i <= end) /\ ~(i - 1 < end)
      BY <1>1, <2>5
    <3>2. Data(e)[i] = d.memory[i - 1]
      BY <2>2, <3>1
    <3>3. whole[i] = rest[i - end] /\ rest[i - end] = Data(d)[end + (i - end)]
      BY <1>7, <1>10, <3>1
    <3> QED BY <1>5, <3>1, <3>2, <3>3
  <2> QED BY <1>1, <2>3, <2>4, <2>5
<1>12. Data(e) = whole
  BY <1>2, <1>3, <1>10, <1>11, DataSeq, HoldsWithin, SeqEqual
<1> QED
  BY <1>2, <1>3, <1>12 DEF whole, head, rest, e

LEMMA ZeroesSeq ==
  ASSUME NEW n \in Int
  PROVE  /\ File!Zeroes(n) \in Seq(ByteVal) /\ Len(File!Zeroes(n)) = IF n > 0 THEN n ELSE 0
         /\ \A i \in 1..n : File!Zeroes(n)[i] = 0
         /\ n <= 0 => File!Zeroes(n) = <<>>
<1>1. File!Zeroes(n) = [i \in 1..n |-> 0]
  BY DEF File!Zeroes
<1>2. CASE n > 0
  <2>1. n \in Nat /\ File!Zeroes(n) \in [1..n -> ByteVal]
    BY <1>1, <1>2 DEF ByteVal
  <2>2. File!Zeroes(n) \in Seq(ByteVal)
    BY <2>1, SeqDef
  <2> QED BY <1>1, <1>2, <2>1, <2>2, LenProperties
<1>3. CASE n <= 0
  <2>1. 1..n = {}
    BY <1>3
  <2>2. File!Zeroes(n) = <<>>
    BY <1>1, <2>1
  <2> QED BY <1>3, <2>1, <2>2, EmptySeq
<1> QED
  BY <1>2, <1>3

\* A position behind the data is reached over zeroes.
LEMMA ZeroFilledData ==
  ASSUME NEW d, Within(d), NEW pos \in Size, pos <= d.memory_size
  PROVE  LET e == [ZeroFill(d, pos) EXCEPT !.offset = pos]
         IN /\ Holds(e) /\ e.offset = pos
            /\ Data(e) = Data(d) \o File!Zeroes(pos - d.data_len)
<1> DEFINE e == [ZeroFill(d, pos) EXCEPT !.offset = pos]
           n == pos - d.data_len
           len == IF pos > d.data_len THEN pos ELSE d.data_len
<1>1. /\ d.data_len \in Nat /\ d.memory_size \in Nat /\ pos \in Nat /\ n \in Int
      /\ d.data_len <= d.memory_size
  BY Numbers, MemAssumption DEF Within, Size
<1>2. /\ Cookie(e) /\ e.offset = pos /\ e.memory_size = d.memory_size /\ e.data_len = len
  BY ZeroFillCookie DEF Within
<1>3. Holds(e)
  BY <1>1, <1>2 DEF Holds, Inside
<1>4. e.memory = IF pos > d.data_len
                 THEN [i \in DOMAIN d.memory |-> IF i >= d.data_len /\ i < pos THEN 0 ELSE d.memory[i]]
                 ELSE d.memory
  BY DEF ZeroFill, Within, Cookie
<1>5. DOMAIN d.memory = 0..(d.memory_size - 1)
  BY DEF Within, Cookie
<1> HIDE DEF e
<1>6. /\ Data(d) \in Seq(ByteVal) /\ Len(Data(d)) = d.data_len
      /\ \A i \in 1..d.data_len : Data(d)[i] = d.memory[i - 1]
  BY DataSeq
<1>7. CASE n <= 0
  <2>1. File!Zeroes(n) = <<>> /\ len = d.data_len
    BY <1>1, <1>7, ZeroesSeq, SMTT(60)
  <2>2. e.memory = d.memory
    BY <1>1, <1>4, <1>7
  <2>3. Data(d) = Data(e)
    BY <1>2, <1>3, <2>1, <2>2, SameData, HoldsWithin
  <2>4. Data(d) \o <<>> = Data(d)
    BY <1>6, ConcatEmptySeq
  <2> QED BY <1>2, <1>3, <2>1, <2>3, <2>4 DEF e
<1>8. CASE n > 0
  <2> DEFINE whole == Data(d) \o File!Zeroes(n)
  <2>1. /\ File!Zeroes(n) \in Seq(ByteVal) /\ Len(File!Zeroes(n)) = n
        /\ \A i \in 1..n : File!Zeroes(n)[i] = 0
    BY <1>1, <1>8, ZeroesSeq
  <2>2. d.data_len + n = pos /\ len = pos
    BY <1>1, <1>8
  <2> DEFINE z == File!Zeroes(n)
  <2>6. z \in Seq(ByteVal) /\ Len(z) = n
    BY <2>1
  <2>3. /\ whole \in Seq(ByteVal) /\ Len(whole) = d.data_len + n
        /\ \A i \in 1..(d.data_len + n) :
             whole[i] = IF i <= d.data_len THEN Data(d)[i] ELSE z[i - d.data_len]
    <3> HIDE DEF z
    <3>1. /\ Data(d) \o z \in Seq(ByteVal) /\ Len(Data(d) \o z) = Len(Data(d)) + Len(z)
          /\ \A i \in 1..(Len(Data(d)) + Len(z)) :
               (Data(d) \o z)[i] = IF i <= Len(Data(d)) THEN Data(d)[i] ELSE z[i - Len(Data(d))]
      BY <1>6, <2>6, ConcatProperties
    <3> QED BY <1>6, <2>6, <3>1 DEF z
  <2> HIDE DEF whole
  <2>4. ASSUME NEW i \in 1..pos PROVE Data(e)[i] = whole[i]
    <3>1. i - 1 \in 0..(d.memory_size - 1) /\ i \in 1..(d.data_len + n) /\ i \in 1..len
      BY <1>1, <2>2
    <3>2. Data(e)[i] = e.memory[i - 1]
      <4>1. \A k \in 1..e.data_len : Data(e)[k] = e.memory[k - 1]
        BY <1>3, DataSeq, HoldsWithin
      <4> QED BY <1>2, <3>1, <4>1
    <3>3. e.memory[i - 1] = IF i - 1 >= d.data_len /\ i - 1 < pos THEN 0 ELSE d.memory[i - 1]
      BY <1>1, <1>4, <1>5, <1>8, <3>1
    <3>4. CASE i <= d.data_len
      <4>1. ~(i - 1 >= d.data_len) /\ i \in 1..d.data_len
        BY <1>1, <3>4
      <4> QED BY <1>6, <2>3, <3>1, <3>2, <3>3, <3>4, <4>1
    <3>5. CASE d.data_len < i
      <4>1. i - 1 >= d.data_len /\ i - 1 < pos /\ i - d.data_len \in 1..n /\ ~(i <= d.data_len)
        BY <1>1, <2>2, <3>5
      <4> QED BY <2>1, <2>3, <3>1, <3>2, <3>3, <4>1
    <3> QED BY <1>1, <3>4, <3>5
  <2>5. Data(e) = whole
    BY <1>2, <1>3, <2>2, <2>3, <2>4, DataSeq, HoldsWithin, SeqEqual
  <2> QED BY <1>2, <1>3, <2>5 DEF whole, e
<1>9. n <= 0 \/ n > 0
  BY <1>1
<1> HIDE DEF n
<1> QED
  BY <1>7, <1>8, <1>9 DEF e

-----------------------------------------------------------------------------
(***************************************************************************)
(* Buffers are smaller than half of a word, so an offset below zero is never   *)
(* taken for a position.                                                    *)
(***************************************************************************)
Half(n) == n + n < Word

LEMMA UHalf ==
  ASSUME NEW i \in Int, -Word <= 2 * i, i < Word, Half(U(i))
  PROVE  U(i) = i /\ i \in Nat
<1>1. CASE i >= 0
  BY <1>1, MemAssumption, USmall DEF Size
<1>2. CASE i < 0
  <2>1. U(i) = i + Word
    BY <1>2, MemAssumption DEF U
  <2> QED BY <1>2, <2>1, MemAssumption DEF Half
<1> QED
  BY <1>1, <1>2

LEMMA HalfInitial == MemInit => Half(c.memory_size)
<1>1. ASSUME NEW m \in Buffers PROVE Len(m) \in {0, 3}
  <2>1. CASE m = <<>>
    BY <2>1
  <2>2. ASSUME NEW b \in Byte, m = [i \in 1..3 |-> b] PROVE Len(m) = 3
    <3>1. m \in Seq(Byte) /\ DOMAIN m = 1..3
      BY <2>2
    <3> QED BY <3>1
  <2> QED BY <2>1, <2>2 DEF Buffers
<1>2. ASSUME NEW m \in Buffers, c.memory_size = Len(m) PROVE Half(c.memory_size)
  <2>2. c.memory_size \in {0, 3}
    BY <1>1, <1>2
  <2>3. \A k \in {0, 3} : k + k < Word
    BY MemAssumption
  <2> QED BY <2>2, <2>3 DEF Half
<1>3. <<>> \in Buffers
  BY DEF Buffers
<1>4. SUFFICES ASSUME MemInit PROVE Half(c.memory_size)
  OBVIOUS
<1>5. CASE \E append, grow \in BOOLEAN, m \in Buffers : \E n \in 0..Len(m) :
             c = [func_mem_create(append, grow, 0, m, n) EXCEPT
                    !.memory = [i \in 0..(Len(m) - 1) |-> IF i < n THEN m[i + 1] ELSE Uninit]]
  <2>0. PICK append \in BOOLEAN, grow \in BOOLEAN, m \in Buffers : \E n \in 0..Len(m) :
          c = [func_mem_create(append, grow, 0, m, n) EXCEPT
                 !.memory = [i \in 0..(Len(m) - 1) |-> IF i < n THEN m[i + 1] ELSE Uninit]]
    BY <1>5
  <2>1. PICK n \in 0..Len(m) :
          c = [func_mem_create(append, grow, 0, m, n) EXCEPT
                 !.memory = [i \in 0..(Len(m) - 1) |-> IF i < n THEN m[i + 1] ELSE Uninit]]
    BY <2>0
  <2>2. c.memory_size = Len(m)
    BY <2>1 DEF func_mem_create
  <2> QED BY <1>2, <2>2
<1>6. CASE \E append \in BOOLEAN, limit \in Limits :
             c = [func_mem_create(append, TRUE, limit, <<>>, 0) EXCEPT !.memory = [i \in {} |-> Uninit]]
  <2>1. PICK append \in BOOLEAN, limit \in Limits :
          c = [func_mem_create(append, TRUE, limit, <<>>, 0) EXCEPT !.memory = [i \in {} |-> Uninit]]
    BY <1>6
  <2>2. c.memory_size = Len(<<>>)
    BY <2>1 DEF func_mem_create
  <2> QED BY <1>2, <1>3, <2>2
<1> QED
  BY <1>4, <1>5, <1>6 DEF MemInit

LEMMA SeekHalf ==
  ASSUME MemInv, Half(c.memory_size), NEW off \in Int, NEW whence \in {"set", "cur", "end"},
         NEW o \in func_mem_seek(off, whence)
  PROVE  /\ Half(o[1].memory_size) /\ o[1].append = c.append
         /\ o[1].strayed = c.strayed \/ (o[1].strayed /\ o[2] = -1)
<1> DEFINE pos == Moved(c, off, whence)[1]
           d == Moved(c, off, whence)[2]
<1>1. pos \in Size /\ Cookie(d) /\ d.memory_size = c.memory_size /\ d.strayed = c.strayed
  BY MovedCookie
<1>2. d.append = c.append
  BY DEF Moved, MemInv, Cookie
<1> HIDE DEF pos, d
<1>3. ASSUME NEW e, Cookie(e)
      PROVE  LET z == [ZeroFill(e, pos) EXCEPT !.offset = pos]
             IN z.memory_size = e.memory_size /\ z.append = e.append /\ z.strayed = e.strayed
  BY <1>3 DEF ZeroFill, Cookie
<1>4. CASE o = <<[d EXCEPT !.strayed = @ \/ whence # "set"], -1>>
  BY <1>1, <1>2, <1>4 DEF Cookie
<1>5. CASE o = <<[ZeroFill(d, pos) EXCEPT !.offset = pos], pos>>
  BY <1>1, <1>2, <1>3, <1>5
<1>6. CASE /\ o = <<[ZeroFill(Resized(d, RoundUp(pos)), pos) EXCEPT !.offset = pos], pos>>
           /\ Seekable(d, pos) /\ RoundUp(pos) <= MaxAlloc
  <2>1. RoundUp(pos) \in Size /\ ~OverLimit(d, RoundUp(pos))
    BY <1>1, <1>6, RoundUpBounds DEF Seekable
  <2> DEFINE e == Resized(d, RoundUp(pos))
  <2>2. Cookie(e) /\ e.memory_size = RoundUp(pos) /\ e.strayed = d.strayed
    BY <1>1, <2>1, ResizedCookie
  <2>3. e.append = d.append
    BY <1>1 DEF Resized, Cookie
  <2>4. Half(RoundUp(pos))
    BY <1>6, <2>1, MemAssumption DEF Half, Size
  <2> HIDE DEF e
  <2> QED BY <1>1, <1>2, <1>3, <1>6, <2>2, <2>3, <2>4 DEF e
<1>7. \/ o = <<[d EXCEPT !.strayed = @ \/ whence # "set"], -1>>
      \/ o = <<[ZeroFill(d, pos) EXCEPT !.offset = pos], pos>>
      \/ /\ o = <<[ZeroFill(Resized(d, RoundUp(pos)), pos) EXCEPT !.offset = pos], pos>>
         /\ Seekable(d, pos) /\ RoundUp(pos) <= MaxAlloc
  <2>1. ASSUME NEW g \in Grown(d, RoundUp(pos)), g[2]
        PROVE  g[1] = Resized(d, RoundUp(pos)) /\ RoundUp(pos) <= MaxAlloc
    BY <2>1, GrownResized
  <2> QED BY <2>1 DEF func_mem_seek, pos, d
<1> QED
  BY <1>4, <1>5, <1>6, <1>7

LEMMA CopiedFields ==
  ASSUME NEW d, Cookie(d), NEW u
  PROVE  /\ CopiedBytes(d, u).memory_size = d.memory_size /\ CopiedBytes(d, u).append = d.append
         /\ CopiedBytes(d, u).strayed = d.strayed
  BY DEF Cookie, CopiedBytes

LEMMA HalfKept == MemInv /\ Half(c.memory_size) /\ [MemNext]_memVars => Half(c'.memory_size)
<1> SUFFICES ASSUME MemInv, Half(c.memory_size), [MemNext]_memVars PROVE Half(c'.memory_size)
  OBVIOUS
<1>1. ASSUME NEW size, Read(size) PROVE Half(c'.memory_size)
  <2>1. c'.memory_size = c.memory_size
    BY <1>1 DEF Read, MemInv, Cookie
  <2> QED BY <2>1
<1>2. ASSUME NEW size \in 0..MaxIO, NEW b \in Byte, MemWrite(size, b) PROVE Half(c'.memory_size)
  <2> DEFINE d == AtEnd(c)
             n == IF d.grow THEN size ELSE Lesser(size, d.memory_size - d.offset)
  <2>1. Cookie(d) /\ d.memory_size = c.memory_size
    BY AtEndCookie DEF AtEnd, MemInv, Cookie
  <2>2. \/ c'.memory_size = c.memory_size
        \/ c' = [d EXCEPT !.status = "abort"]
        \/ \E u : c' = CopiedBytes(d, u)
        \/ /\ size # 0 /\ ~(d.memory_size - d.offset < 0) /\ ~(n <= d.memory_size - d.offset)
           /\ LargerSize(d, n) # -1 /\ LargerSize(d, n) <= MaxAlloc
           /\ \E u : c' = CopiedBytes(Resized(d, LargerSize(d, n)), u)
        \/ c' = d
    BY <1>2, MemWriteOutcome
  <2>3. CASE c' = [d EXCEPT !.status = "abort"]
    BY <2>1, <2>3 DEF Cookie
  <2>4. CASE \E u : c' = CopiedBytes(d, u)
    BY <2>1, <2>4, CopiedFields
  <2>5. CASE /\ size # 0 /\ ~(d.memory_size - d.offset < 0) /\ ~(n <= d.memory_size - d.offset)
             /\ LargerSize(d, n) # -1 /\ LargerSize(d, n) <= MaxAlloc
             /\ \E u : c' = CopiedBytes(Resized(d, LargerSize(d, n)), u)
    <3>1. d.memory_size \in Int /\ d.offset \in Int /\ size \in Int /\ size \in 0..MaxIO
      BY <2>1, Numbers, MemAssumption
    <3>2. n = size /\ size \in 1..MaxIO /\ d.offset <= d.memory_size
      BY <2>5, <3>1 DEF Lesser
    <3>3. LargerSize(d, n) \in Size /\ ~OverLimit(d, LargerSize(d, n))
      BY <2>1, <2>5, <3>2, LargerFits
    <3>4. Cookie(Resized(d, LargerSize(d, n)))
          /\ Resized(d, LargerSize(d, n)).memory_size = LargerSize(d, n)
      BY <2>1, <3>3, ResizedCookie
    <3>5. Half(LargerSize(d, n))
      BY <2>5, <3>3, MemAssumption DEF Half, Size
    <3> QED BY <2>5, <3>4, <3>5, CopiedFields
  <2> QED BY <2>1, <2>2, <2>3, <2>4, <2>5
<1>3. ASSUME NEW off \in Offsets, NEW whence \in {"set", "cur", "end"}, Seek(off, whence)
      PROVE  Half(c'.memory_size)
  BY <1>3, SeekHalf, MemAssumption DEF Seek
<1>4. ASSUME NEW length \in Offsets, Truncate(length) PROVE Half(c'.memory_size)
  <2>1. PICK o \in func_mem_seek(length, "set") :
          c' = IF o[2] = -1 THEN o[1] ELSE [o[1] EXCEPT !.data_len = o[1].offset]
    BY <1>4 DEF Truncate
  <2>2. Half(o[1].memory_size) /\ Cookie(o[1])
    BY <1>4, SeekHalf, SeekOutcome, MemAssumption DEF Truncate
  <2>3. c'.memory_size = o[1].memory_size
    BY <2>1, <2>2 DEF Cookie
  <2> QED BY <2>2, <2>3
<1>5. ASSUME Snatch PROVE Half(c'.memory_size)
  <2>1. c'.memory_size = c.memory_size \/ c'.memory_size = 0
    BY <1>5 DEF Snatch, MemInv, Cookie
  <2> QED BY <2>1, MemAssumption DEF Half
<1>6. CASE UNCHANGED memVars
  BY <1>6 DEF memVars
<1> QED
  BY <1>1, <1>2, <1>3, <1>4, <1>5, <1>6 DEF MemNext

-----------------------------------------------------------------------------
(***************************************************************************)
(* Each step of the object, while its position is in the data and the data in  *)
(* the buffer, is a step of the file.                                        *)
(***************************************************************************)
LEMMA MemDataNext == Holds(c') => MemData' = Data(c')
  BY DEF Holds, Inside, MemData, Data

LEMMA PartSeq ==
  ASSUME NEW q \in Seq(ByteVal), NEW lo \in Nat, NEW n \in Nat, lo + n <= Len(q)
  PROVE  /\ SubSeq(q, lo + 1, lo + n) \in Seq(ByteVal) /\ Len(SubSeq(q, lo + 1, lo + n)) = n
         /\ \A i \in 1..n : SubSeq(q, lo + 1, lo + n)[i] = q[lo + i]
<1>1. PICK a \in Int, b \in Int : a = lo + 1 /\ b = lo + n
  OBVIOUS
<1>2. Len(q) \in Nat /\ \A i \in 1..Len(q) : q[i] \in ByteVal
  BY LenProperties, ElementOfSeq
<1>3. \A i \in a..b : q[i] \in ByteVal
  BY <1>1, <1>2
<1>4. /\ SubSeq(q, a, b) \in Seq(ByteVal)
      /\ Len(SubSeq(q, a, b)) = IF a <= b THEN b - a + 1 ELSE 0
      /\ \A i \in 1..(b - a + 1) : SubSeq(q, a, b)[i] = q[a + i - 1]
  BY <1>3, SubSeqProperties
<1>5. Len(SubSeq(q, a, b)) = n /\ b - a + 1 = n
  BY <1>1, <1>4
<1>6. \A i \in 1..n : a + i - 1 = lo + i
  BY <1>1
<1> QED
  BY <1>1, <1>4, <1>5, <1>6

\* A part of the data is a part of the buffer.
LEMMA PartOfData ==
  ASSUME NEW d, Holds(d), NEW n \in Nat, d.offset + n <= d.data_len
  PROVE  BytesAt(d, d.offset, n) = SubSeq(Data(d), d.offset + 1, d.offset + n)
<1> DEFINE p == d.offset
           part == BytesAt(d, p, n)
           sub == SubSeq(Data(d), p + 1, p + n)
<1>1. p \in Nat /\ d.data_len \in Nat /\ d.memory_size \in Nat /\ d.data_len <= d.memory_size
  BY Numbers DEF Holds, Inside
<1>2. /\ Data(d) \in Seq(ByteVal) /\ Len(Data(d)) = d.data_len
      /\ \A i \in 1..d.data_len : Data(d)[i] = d.memory[i - 1] /\ Data(d)[i] \in ByteVal
  BY DataSeq, HoldsWithin, ElementOfSeq
<1>3. \A i \in 1..n : p + i \in 1..d.data_len /\ p + i - 1 \in 0..(d.memory_size - 1)
  BY <1>1
<1>4. part = [i \in 1..n |-> d.memory[p + i - 1]]
  BY DEF BytesAt
<1>5. part \in [1..n -> ByteVal]
  BY <1>3, <1>4 DEF Holds, Cookie
<1>7. part \in Seq(ByteVal)
  BY <1>5, SeqDef
<1>6. part \in Seq(ByteVal) /\ Len(part) = n
  <2>1. DOMAIN part = 1..n
    BY <1>5
  <2> QED BY <1>7, <2>1
<1>8. sub \in Seq(ByteVal) /\ Len(sub) = n /\ \A i \in 1..n : sub[i] = Data(d)[p + i]
  <2>1. p + n <= Len(Data(d)) /\ Data(d) \in Seq(ByteVal)
    BY <1>2
  <2> HIDE DEF p
  <2> QED BY <1>1, <2>1, PartSeq
<1> HIDE DEF part, sub
<1>10. ASSUME NEW i \in 1..n PROVE part[i] = sub[i]
  <2>1. sub[i] = Data(d)[p + i]
    BY <1>8
  <2>2. PICK j \in 1..d.data_len : j = p + i
    BY <1>3
  <2>3. Data(d)[j] = d.memory[j - 1]
    BY <1>2
  <2>4. part[i] = d.memory[p + i - 1]
    BY <1>4
  <2>5. j - 1 = p + i - 1
    BY <1>1, <2>2
  <2> QED BY <2>1, <2>2, <2>3, <2>4, <2>5
<1>11. part = sub
  BY <1>6, <1>8, <1>10, SeqEqual
<1> QED
  BY <1>11 DEF part, sub

LEMMA ReadRefines ==
  ASSUME Holds(c), NEW size \in 0..MaxIO, Read(size) PROVE File!Next
<1> DEFINE left == c.data_len - c.offset
           n == Lesser(size, left)
<1>1. /\ c.offset \in Nat /\ c.data_len \in Nat /\ c.memory_size \in Nat /\ size \in Nat
      /\ c.offset <= c.data_len /\ c.data_len <= c.memory_size /\ c.data_len \in Size
  BY Numbers, MemAssumption DEF Holds, Inside, Cookie
<1>2. U(left) = left /\ left \in Nat
  <2>1. left \in Size /\ left \in Nat
    BY <1>1, MemAssumption DEF Size
  <2> QED BY <2>1, USmall
<1>3. MemData = Data(c) /\ Len(MemData) = c.data_len
  BY MemDataIs, DataSeq, HoldsWithin
<1>4. n \in Nat /\ n <= size /\ n <= left /\ (n < size => n = left) /\ c.offset + n <= c.data_len
  BY <1>1, <1>2 DEF Lesser
<1>5. CASE size = 0
  <2>1. ret' = Ret("pending", "", 0, IF left # 0 THEN 0 ELSE -1, <<>>) /\ UNCHANGED c
    BY <1>2, <1>5 DEF Read
  <2>2. UNCHANGED MemData
    BY <2>1 DEF MemData, BytesAt
  <2>3. File!Pending
    <3>1. ret'.op = "pending" /\ ret'.rc = IF left # 0 THEN 0 ELSE -1
      BY <2>1 DEF Ret
    <3>2. ret'.rc = 0 <=> c.offset < Len(MemData)
      BY <1>1, <1>3, <3>1
    <3> QED BY <2>1, <2>2, <3>1, <3>2 DEF File!Pending
  <2> QED BY <2>1, <2>3 DEF File!Next
<1>6. CASE size # 0
  <2>1. /\ ret' = Ret("read", "", size, n, BytesAt(c, c.offset, n))
        /\ c' = [c EXCEPT !.offset = U(c.offset + n)]
    <3> DEFINE m == Lesser(size, U(c.data_len - c.offset))
    <3>1. m = n
      BY <1>2
    <3>2. ~(m > 0 /\ c.offset + m > c.memory_size)
      BY <1>1, <1>4, <3>1
    <3>3. ret' = Ret("read", "", size, m, BytesAt(c, c.offset, m)) /\ c' = [c EXCEPT !.offset = U(@ + m)]
      BY <1>6, <3>2 DEF Read
    <3> QED BY <3>1, <3>3
  <2>2. U(c.offset + n) = c.offset + n
    <3>1. c.offset + n \in Size
      BY <1>1, <1>4, MemAssumption DEF Size
    <3> QED BY <3>1, USmall
  <2>3. /\ c'.offset = c.offset + n /\ c'.data_len = c.data_len /\ c'.append = c.append
        /\ c'.memory = c.memory /\ c'.memory_size = c.memory_size
    BY <2>1, <2>2 DEF Holds, Cookie
  <2>4. UNCHANGED MemData
    BY <2>3 DEF MemData, BytesAt
  <2>5. BytesAt(c, c.offset, n) = SubSeq(MemData, c.offset + 1, c.offset + n)
    BY <1>3, <1>4, PartOfData
  <2>6. File!Read
    <3> HIDE DEF n
    <3>1. ret'.op = "read" /\ ret'.rc = n /\ ret'.arg = size /\ ret'.bytes = BytesAt(c, c.offset, n)
      BY <2>1 DEF Ret
    <3> QED BY <1>1, <1>3, <1>4, <2>3, <2>4, <2>5, <3>1 DEF File!Read
  <2> QED BY <2>3, <2>6 DEF File!Next
<1> QED
  BY <1>5, <1>6
\* A write of the first n bytes of u to the file, in the buffer e the object then has.
LEMMA WriteStep ==
  ASSUME Holds(c), NEW e, Holds(e), Data(e) = Data(c), e.append = c.append,
         NEW size \in Nat, NEW u \in Seq(Byte), NEW n \in 0..size,
         e.offset = IF c.append /\ size > 0 THEN c.data_len ELSE c.offset,
         e.offset + n <= e.memory_size,
         \A i \in 1..size : i \in DOMAIN u,
         c' = CopiedBytes(e, SubSeq(u, 1, n)),
         ret'.op = "write", ret'.rc = n, ret'.arg = size, ret'.bytes = u
  PROVE  File!Next
<1> DEFINE v == SubSeq(u, 1, n)
           p == e.offset
<1>1. v \in Seq(Byte) /\ Len(v) = n
  <2>1. \A i \in 1..n : u[i] \in Byte
    <3>1. \A i \in DOMAIN u : u[i] \in Byte
      BY ElementOfSeq, LenProperties
    <3> QED BY <3>1
  <2>2. n \in Int /\ 1 \in Int /\ (IF 1 <= n THEN n - 1 + 1 ELSE 0) = n
    OBVIOUS
  <2> QED BY <2>1, <2>2, SubSeqProperties
<1>2. p \in Nat /\ n \in Nat /\ e.data_len = c.data_len
  <2>1. p \in Nat
    BY Numbers DEF Holds
  <2>2. Within(e) /\ Within(c)
    BY HoldsWithin
  <2>3. Len(Data(e)) = e.data_len /\ Len(Data(c)) = c.data_len
    BY <2>2, DataSeq
  <2> QED BY <2>1, <2>3
<1> HIDE DEF v
<1>3. c' = CopiedBytes(e, v)
  BY DEF v
<1>4. /\ Holds(c') /\ c'.offset = p + n
      /\ Data(c') = SubSeq(Data(e), 1, p) \o v \o SubSeq(Data(e), p + n + 1, e.data_len)
  BY <1>1, <1>3, CopiedData
<1>5. c'.append = c.append
  BY <1>3, CopiedFields DEF Holds
<1>6. MemData = Data(c) /\ MemData' = Data(c') /\ Len(MemData) = c.data_len
  BY <1>4, MemDataIs, MemDataNext, DataSeq, HoldsWithin
<1>7. MemData' = SubSeq(MemData, 1, p) \o SubSeq(u, 1, n) \o SubSeq(MemData, p + n + 1, Len(MemData))
  BY <1>2, <1>4, <1>6 DEF v
<1>9. File!Write
  <2>1. (IF c.append /\ ret'.arg > 0 THEN Len(MemData) ELSE c.offset) = p
    BY <1>6
  <2>2. ret'.rc >= 0 /\ ret'.rc <= ret'.arg
    BY <1>2
  <2> HIDE DEF p
  <2> QED BY <1>4, <1>7, <2>1, <2>2 DEF File!Write
<1> QED
  BY <1>5, <1>9 DEF File!Next

LEMMA NothingCopied ==
  ASSUME Holds(c) PROVE CopiedBytes(c, <<>>) = c
<1>1. Len(<<>>) = 0
  OBVIOUS
<1>2. c.offset + 0 = c.offset /\ c.offset \in Nat /\ c.data_len \in Nat /\ ~(c.offset > c.data_len)
  BY Numbers DEF Holds, Inside
<1>3. ASSUME NEW i \in DOMAIN c.memory PROVE ~(i >= c.offset /\ i < c.offset)
  BY <1>2, <1>3, MemAssumption DEF Holds, Cookie, Size
<1>4. c.memory = [i \in DOMAIN c.memory |-> c.memory[i]]
  BY DEF Holds, Cookie
<1> DEFINE end == c.offset + Len(<<>>)
<1>6. end = c.offset
  BY <1>1, <1>2
<1>7. [i \in DOMAIN c.memory |-> IF i >= c.offset /\ i < end
                               THEN <<>>[i - c.offset + 1] ELSE c.memory[i]] = c.memory
  BY <1>3, <1>4, <1>6
<1>8. (IF end > c.data_len THEN end ELSE c.data_len) = c.data_len
  BY <1>2, <1>6
<1>5. CopiedBytes(c, <<>>) = [c EXCEPT !.memory = c.memory, !.data_len = c.data_len, !.offset = c.offset]
  BY <1>6, <1>7, <1>8 DEF CopiedBytes
<1> QED
  BY <1>5 DEF Holds, Cookie

LEMMA WriteRefines ==
  ASSUME Holds(c), NEW size \in 0..MaxIO, NEW b \in Byte, MemWrite(size, b) PROVE File!Next
<1> DEFINE u == [i \in 1..size |-> b]
           d == AtEnd(c)
           nleft == d.memory_size - d.offset
           n == IF d.grow THEN size ELSE Lesser(size, nleft)
<1>1. \/ size = 0 /\ c' = c /\ ret' = Ret("write", "", size, 0, u)
      \/ size # 0 /\ nleft < 0 /\ c' = [d EXCEPT !.status = "abort"]
      \/ /\ size # 0 /\ ~(nleft < 0) /\ n <= nleft
         /\ c' = CopiedBytes(d, SubSeq(u, 1, n)) /\ ret' = Ret("write", "", size, n, u)
      \/ size # 0 /\ ~(nleft < 0) /\ c' = d /\ ret' = Ret("write", "", size, -1, u)
      \/ /\ size # 0 /\ ~(nleft < 0) /\ ~(n <= nleft)
         /\ LargerSize(d, n) # -1 /\ LargerSize(d, n) <= MaxAlloc
         /\ c' = CopiedBytes(Resized(d, LargerSize(d, n)), u) /\ ret' = Ret("write", "", size, n, u)
  BY MemWriteOutcome
<1>2. u \in Seq(Byte) /\ DOMAIN u = 1..size
  BY MemAssumption
<1>11. size \in Nat /\ size <= MaxIO /\ \A i \in 1..size : i \in DOMAIN u
  BY <1>2, MemAssumption
<1>3. /\ Holds(d) /\ Data(d) = Data(c)
      /\ d.offset = IF c.append THEN c.data_len ELSE c.offset
      /\ d.append = c.append /\ Cookie(d)
  BY AtEndData DEF AtEnd, Holds, Cookie
<1>12. Len(u) = size
  BY <1>2, <1>11
<1> HIDE DEF d, u
<1>4. d.offset \in Nat /\ d.memory_size \in Nat /\ nleft \in Nat /\ d.data_len \in Nat
  BY <1>3, Numbers DEF Holds, Inside
<1>10. /\ n \in Nat /\ n <= size
       /\ n <= nleft => d.offset + n <= d.memory_size
       /\ ~(n <= nleft) => n = size
  BY <1>11, <1>4 DEF Lesser
<1>5. CASE size = 0 /\ c' = c /\ ret' = Ret("write", "", size, 0, u)
  <2>1. SubSeq(u, 1, 0) = <<>>
    BY SubSeqEmpty
  <2>2. c' = CopiedBytes(c, SubSeq(u, 1, 0))
    BY <1>5, <2>1, NothingCopied
  <2>3. c.offset + 0 <= c.memory_size /\ ~(size > 0) /\ 0 \in 0..size
    <3>1. c.offset \in Nat /\ c.offset <= c.data_len /\ c.data_len <= c.memory_size
          /\ c.data_len \in Nat /\ c.memory_size \in Nat
      BY Numbers DEF Holds, Inside
    <3>2. size = 0
      BY <1>5
    <3> QED BY <3>1, <3>2
  <2>4. ret'.op = "write" /\ ret'.rc = 0 /\ ret'.arg = size /\ ret'.bytes = u
    BY <1>5 DEF Ret
  <2> QED BY <1>2, <1>11, <2>2, <2>3, <2>4, WriteStep
<1>6. CASE nleft < 0
  BY <1>4, <1>6
<1>7. CASE /\ size # 0 /\ n <= nleft
           /\ c' = CopiedBytes(d, SubSeq(u, 1, n)) /\ ret' = Ret("write", "", size, n, u)
  <2>1. n \in 0..size /\ d.offset + n <= d.memory_size /\ size > 0
    <3>1. size # 0 /\ n <= nleft
      BY <1>7
    <3> QED BY <1>10, <1>11, <3>1
  <2> HIDE DEF n
  <2>2. d.offset = IF c.append /\ size > 0 THEN c.data_len ELSE c.offset
    BY <1>3, <2>1
  <2>3. c' = CopiedBytes(d, SubSeq(u, 1, n))
    BY <1>7
  <2>4. ret'.op = "write" /\ ret'.rc = n /\ ret'.arg = size /\ ret'.bytes = u
    BY <1>7 DEF Ret
  <2> QED BY <1>2, <1>3, <1>11, <2>1, <2>2, <2>3, <2>4, WriteStep
<1>8. CASE size # 0 /\ c' = d /\ ret' = Ret("write", "", size, -1, u)
  <2>1. ret'.op = "write" /\ ret'.rc = -1
    BY <1>8 DEF Ret
  <2>2. Holds(c') /\ Data(c') = Data(c) /\ c'.append = c.append
        /\ c'.offset = IF c.append THEN c.data_len ELSE c.offset
    BY <1>3, <1>8
  <2>3. MemData = Data(c) /\ MemData' = MemData /\ Len(MemData) = c.data_len
    BY <2>2, MemDataIs, MemDataNext, DataSeq, HoldsWithin
  <2>4. File!Fail
    BY <2>1, <2>2, <2>3 DEF File!Fail
  <2> QED BY <2>2, <2>4 DEF File!Next
<1>9. CASE /\ size # 0 /\ ~(n <= nleft) /\ LargerSize(d, n) # -1
           /\ c' = CopiedBytes(Resized(d, LargerSize(d, n)), u) /\ ret' = Ret("write", "", size, n, u)
  <2>1. n = size /\ size \in 1..MaxIO /\ d.offset <= d.memory_size /\ size > 0
    <3>1. size # 0 /\ ~(n <= nleft)
      BY <1>9
    <3> QED BY <1>4, <1>10, <1>11, <3>1
  <2> HIDE DEF n
  <2> DEFINE e == Resized(d, LargerSize(d, size))
  <2>2. /\ LargerSize(d, size) \in Size /\ d.offset + size <= LargerSize(d, size)
        /\ ~OverLimit(d, LargerSize(d, size))
    BY <1>3, <1>9, <2>1, LargerFits
  <2>3. d.memory_size <= LargerSize(d, size)
    <3>1. LargerSize(d, size) \in Int /\ ~(size <= nleft)
      <4>1. ~(n <= nleft)
        BY <1>9
      <4> QED BY <2>1, <2>2, <4>1, MemAssumption DEF Size
    <3> HIDE DEF d
    <3> QED BY <1>11, <1>4, <2>2, <3>1
  <2>4. Holds(e) /\ Data(e) = Data(c) /\ e.memory_size = LargerSize(d, size)
        /\ e.offset = d.offset /\ e.append = c.append
    <3>1. Holds(e) /\ Data(e) = Data(d)
      BY <1>3, <2>2, <2>3, ResizedData
    <3>2. e.memory_size = LargerSize(d, size) /\ e.offset = d.offset /\ e.append = d.append
      BY <1>3, <2>2, ResizedCookie DEF Resized, Cookie
    <3> QED BY <1>3, <3>1, <3>2
  <2>5. SubSeq(u, 1, size) = u
    BY <1>2, <1>12, SubSeqFull
  <2>6. c' = CopiedBytes(e, SubSeq(u, 1, size))
    BY <1>9, <2>1, <2>5
  <2>8. ret'.op = "write" /\ ret'.rc = size /\ ret'.arg = size /\ ret'.bytes = u
    BY <1>9, <2>1 DEF Ret
  <2> HIDE DEF e
  <2>7. /\ e.offset = IF c.append /\ size > 0 THEN c.data_len ELSE c.offset
        /\ size \in 0..size /\ e.offset + size <= e.memory_size
    BY <1>11, <1>3, <2>1, <2>2, <2>4
  <2> QED BY <1>11, <2>4, <2>6, <2>7, <2>8, <1>2, WriteStep
<1> QED
  BY <1>1, <1>5, <1>6, <1>7, <1>8, <1>9
-----------------------------------------------------------------------------
\* Where a seek goes.
Target(off, whence) ==
  CASE whence = "set" -> off
    [] whence = "cur" -> c.offset + off
    [] whence = "end" -> c.data_len + off

\* A seek from the end by 0 leaves the length of the data as it is, all others do anyway.
LEMMA MovedData ==
  ASSUME Holds(c), NEW off \in Int, NEW whence \in {"set", "cur", "end"}, whence = "end" => off = 0
  PROVE  LET pos == Moved(c, off, whence)[1]
             d   == Moved(c, off, whence)[2]
         IN /\ pos = U(Target(off, whence)) /\ Target(off, whence) \in Int
            /\ Within(d) /\ Data(d) = Data(c) /\ d.data_len = c.data_len
            /\ d.append = c.append /\ d.memory_size = c.memory_size
<1>1. c.offset \in Nat /\ c.data_len \in Nat /\ c.memory_size \in Nat
  BY Numbers DEF Holds
<1>2. Within(c)
  BY HoldsWithin
<1>3. CASE whence = "set"
  BY <1>2, <1>3 DEF Moved, Target
<1>4. CASE whence = "cur"
  <2> DEFINE d == [c EXCEPT !.offset = U(@ + off)]
  <2>1. Moved(c, off, whence)[1] = U(c.offset + off) /\ Moved(c, off, whence)[2] = d
    BY <1>4 DEF Moved
  <2>2. /\ d.data_len = c.data_len /\ d.memory = c.memory /\ d.append = c.append
        /\ d.memory_size = c.memory_size
    BY DEF Holds, Cookie
  <2>3. U(c.offset + off) \in Size
    BY <1>1, UType
  <2>4. Within(d)
    BY <1>2, <2>3 DEF Within, Cookie
  <2> HIDE DEF d
  <2>5. Data(d) = Data(c)
    BY <1>2, <2>2, <2>4, SameData
  <2>6. Target(off, whence) = c.offset + off /\ c.offset + off \in Int
    BY <1>1, <1>4 DEF Target
  <2> QED BY <2>1, <2>2, <2>4, <2>5, <2>6
<1>5. CASE whence = "end"
  <2>1. off = 0 /\ c.data_len + off = c.data_len /\ U(c.data_len) = c.data_len
    BY <1>1, <1>5, USmall DEF Holds, Cookie
  <2>2. Moved(c, off, whence) = <<U(c.data_len + off), [c EXCEPT !.data_len = U(@ + off)]>>
    BY <1>5 DEF Moved
  <2>3. [c EXCEPT !.data_len = U(@ + off)] = c
    BY <2>1 DEF Holds, Cookie
  <2>4. Target(off, whence) = c.data_len + off /\ c.data_len + off \in Int
    BY <1>1, <1>5 DEF Target
  <2> QED BY <1>2, <2>2, <2>3, <2>4
<1> QED
  BY <1>3, <1>4, <1>5

\* A seek that leaves the object in order either changes nothing or goes to its target, over
\* zeroes if that is behind the data.
LEMMA SeekData ==
  ASSUME Holds(c), ~c.strayed, Half(c.memory_size),
         NEW off \in Offsets, NEW whence \in {"set", "cur", "end"}, whence = "end" => off = 0,
         NEW o \in func_mem_seek(off, whence), ~o[1].strayed
  PROVE  \/ o[1] = c /\ o[2] = -1
         \/ /\ Holds(o[1]) /\ o[1].append = c.append
            /\ o[1].offset = o[2] /\ o[2] = Target(off, whence) /\ o[2] \in Nat
            /\ Data(o[1]) = Data(c) \o File!Zeroes(o[2] - c.data_len)
<1> DEFINE pos == Moved(c, off, whence)[1]
           d == Moved(c, off, whence)[2]
           Set(e) == <<[ZeroFill(e, pos) EXCEPT !.offset = pos], pos>>
           i == Target(off, whence)
<1>1. /\ off \in Int /\ -Word <= 2 * off /\ 2 * off < Word
  BY MemAssumption
<1>2. /\ pos = U(i) /\ i \in Int
      /\ Within(d) /\ Data(d) = Data(c) /\ d.data_len = c.data_len
      /\ d.append = c.append /\ d.memory_size = c.memory_size
  BY <1>1, MovedData
<1>3. c.offset \in Nat /\ c.data_len \in Nat /\ c.memory_size \in Nat
      /\ c.offset <= c.memory_size /\ c.data_len <= c.memory_size
  BY Numbers DEF Holds, Inside
<1>4. -Word <= 2 * i /\ i < Word
  BY <1>1, <1>3, MemAssumption DEF Target, Half
<1>5. pos \in Size
  BY <1>2, UType
<1>6. \/ o = <<[d EXCEPT !.strayed = @ \/ whence # "set"], -1>>
      \/ pos <= d.memory_size /\ o = Set(d)
      \/ /\ ~(pos <= d.memory_size) /\ Seekable(d, pos) /\ RoundUp(pos) <= MaxAlloc
         /\ o = Set(Resized(d, RoundUp(pos)))
  <2>1. ASSUME NEW g \in Grown(d, RoundUp(pos)), g[2]
        PROVE  g[1] = Resized(d, RoundUp(pos)) /\ RoundUp(pos) <= MaxAlloc
    BY <2>1, GrownResized
  <2> QED BY <2>1 DEF func_mem_seek
<1>7. whence = "set" => d = c
  BY DEF Moved
<1> HIDE DEF pos, d, i
<1>8. CASE o = <<[d EXCEPT !.strayed = @ \/ whence # "set"], -1>>
  <2>1. o[1] = [d EXCEPT !.strayed = @ \/ whence # "set"] /\ o[2] = -1
    BY <1>8
  <2>2. o[1].strayed = (d.strayed \/ whence # "set")
    BY <1>2, <2>1 DEF Within, Cookie
  <2>3. d = c
    BY <1>7, <2>2
  <2>4. [c EXCEPT !.strayed = @ \/ whence # "set"] = c
    BY <2>2, <2>3 DEF Holds, Cookie
  <2> QED BY <2>1, <2>3, <2>4
\* In a buffer e that has the position, whether it had to grow or not.
<1>9. ASSUME NEW e, Within(e), Data(e) = Data(c), e.data_len = c.data_len, e.append = c.append,
             pos <= e.memory_size, Half(pos), o = Set(e)
      PROVE  /\ Holds(o[1]) /\ o[1].append = c.append
             /\ o[1].offset = o[2] /\ o[2] = i /\ o[2] \in Nat
             /\ Data(o[1]) = Data(c) \o File!Zeroes(o[2] - c.data_len)
  <2>1. o[1] = [ZeroFill(e, pos) EXCEPT !.offset = pos] /\ o[2] = pos
    BY <1>9
  <2>2. pos = i /\ i \in Nat
    BY <1>2, <1>4, <1>9, UHalf
  <2>3. /\ Holds(o[1]) /\ o[1].offset = pos
        /\ Data(o[1]) = Data(e) \o File!Zeroes(pos - e.data_len)
    BY <1>5, <1>9, <2>1, ZeroFilledData
  <2>4. o[1].append = c.append
    BY <1>9, <2>1 DEF ZeroFill, Within, Cookie
  <2> QED BY <1>9, <2>1, <2>2, <2>3, <2>4
<1>10. CASE pos <= d.memory_size /\ o = Set(d)
  <2>1. Half(pos)
    BY <1>2, <1>3, <1>5, <1>10, MemAssumption DEF Half, Size
  <2> QED BY <1>2, <1>9, <1>10, <2>1 DEF i
<1>11. CASE /\ ~(pos <= d.memory_size) /\ Seekable(d, pos) /\ RoundUp(pos) <= MaxAlloc
            /\ o = Set(Resized(d, RoundUp(pos)))
  <2> DEFINE e == Resized(d, RoundUp(pos))
  <2>1. RoundUp(pos) \in Size /\ pos <= RoundUp(pos) /\ ~OverLimit(d, RoundUp(pos))
    BY <1>5, <1>11, RoundUpBounds DEF Seekable
  <2>2. d.memory_size <= RoundUp(pos)
    BY <1>2, <1>3, <1>5, <1>11, <2>1, MemAssumption DEF Size
  <2>3. Half(pos)
    BY <1>5, <1>11, <2>1, MemAssumption DEF Half, Size
  <2>4. Within(e) /\ Data(e) = Data(d)
    BY <1>2, <2>1, <2>2, ResizedWithin
  <2>5. e.memory_size = RoundUp(pos) /\ e.data_len = d.data_len /\ e.append = d.append
    BY <1>2, <2>1, ResizedCookie DEF Resized, Within, Cookie
  <2> HIDE DEF e
  <2>6. o = Set(e)
    BY <1>11 DEF e
  <2> QED BY <1>2, <1>9, <2>1, <2>3, <2>4, <2>5, <2>6 DEF i
<1> QED
  BY <1>6, <1>8, <1>10, <1>11 DEF i
LEMMA FailStep ==
  ASSUME Holds(c), c' = c, ret'.rc = -1 PROVE File!Next
<1>1. UNCHANGED MemData /\ c'.offset = c.offset /\ c'.append = c.append
  BY DEF MemData, BytesAt
<1>2. File!Fail
  BY <1>1 DEF File!Fail
<1> QED
  BY <1>1, <1>2 DEF File!Next

LEMMA SeekRefines ==
  ASSUME Holds(c), ~c.strayed, Half(c.memory_size),
         NEW off \in Offsets, NEW whence \in {"set", "cur", "end"}, Seek(off, whence), ~Breaks
  PROVE  File!Next
<1>1. PICK o \in func_mem_seek(off, whence) :
        c' = o[1] /\ ret' = Ret("seek", whence, off, o[2], <<>>)
  BY DEF Seek
<1>2. ret'.op = "seek" /\ ret'.whence = whence /\ ret'.arg = off /\ ret'.rc = o[2]
  BY <1>1 DEF Ret
<1>3. ~o[1].strayed /\ (whence = "end" => off = 0)
  BY <1>1, <1>2 DEF Breaks
<1>4. CASE o[1] = c /\ o[2] = -1
  BY <1>1, <1>2, <1>4, FailStep
<1>5. CASE /\ Holds(o[1]) /\ o[1].append = c.append
           /\ o[1].offset = o[2] /\ o[2] = Target(off, whence) /\ o[2] \in Nat
           /\ Data(o[1]) = Data(c) \o File!Zeroes(o[2] - c.data_len)
  <2>1. MemData = Data(c) /\ MemData' = Data(c') /\ Len(MemData) = c.data_len
    BY <1>1, <1>5, MemDataIs, MemDataNext, DataSeq, HoldsWithin
  <2>2. MemData' = MemData \o File!Zeroes(c'.offset - Len(MemData))
    BY <1>1, <1>5, <2>1
  <2>3. c'.offset = CASE ret'.whence = "set" -> ret'.arg
                      [] ret'.whence = "cur" -> c.offset + ret'.arg
                      [] ret'.whence = "end" -> Len(MemData) + ret'.arg
    BY <1>1, <1>2, <1>5, <2>1 DEF Target
  <2>4. ret'.rc = c'.offset /\ ret'.rc >= 0 /\ c'.append = c.append
    BY <1>1, <1>2, <1>5
  <2>5. File!Seek
    BY <1>2, <2>2, <2>3, <2>4 DEF File!Seek
  <2> QED BY <2>4, <2>5 DEF File!Next
<1> QED
  BY <1>3, <1>4, <1>5, SeekData

LEMMA TruncateRefines ==
  ASSUME MemInv, Holds(c), ~c.strayed, Half(c.memory_size),
         NEW length \in Offsets, Truncate(length), ~Breaks
  PROVE  File!Next
<1>1. PICK o \in func_mem_seek(length, "set") :
        /\ c' = IF o[2] = -1 THEN o[1] ELSE [o[1] EXCEPT !.data_len = o[1].offset]
        /\ ret' = Ret("truncate", "", length, o[2], <<>>)
  BY DEF Truncate
<1>2. ret'.op = "truncate" /\ ret'.arg = length /\ ret'.rc = o[2]
  BY <1>1 DEF Ret
<1>3. Cookie(o[1])
  BY SeekOutcome, MemAssumption DEF Truncate
<1>4. ~o[1].strayed
  <2>1. c'.strayed = o[1].strayed
    BY <1>1, <1>3 DEF Cookie
  <2> QED BY <2>1 DEF Breaks
<1>5. CASE o[1] = c /\ o[2] = -1
  BY <1>1, <1>2, <1>5, FailStep
<1>6. CASE /\ Holds(o[1]) /\ o[1].append = c.append
           /\ o[1].offset = o[2] /\ o[2] = Target(length, "set") /\ o[2] \in Nat
           /\ Data(o[1]) = Data(c) \o File!Zeroes(o[2] - c.data_len)
  <2> DEFINE d == o[1]
             pos == o[2]
  <2>1. c' = [d EXCEPT !.data_len = d.offset] /\ pos \in Nat /\ d.offset = pos
    <3>1. pos \in Nat
      BY <1>6
    <3>2. pos # -1
      BY <3>1
    <3> QED BY <1>1, <1>6, <3>1, <3>2
  <2>2. pos = length /\ Holds(d) /\ Cookie(d) /\ d.offset <= d.data_len
        /\ d.data_len <= d.memory_size /\ d.data_len \in Nat /\ d.memory_size \in Nat
    BY <1>6, Numbers DEF Target, Holds, Inside
  <2>3. Data(d) = Data(c) \o File!Zeroes(pos - c.data_len) /\ d.append = c.append
    BY <1>6
  <2> HIDE DEF d, pos
  <2>4. /\ c'.offset = pos /\ c'.data_len = pos /\ c'.memory = d.memory
        /\ c'.memory_size = d.memory_size /\ c'.append = d.append
    BY <2>1, <2>2 DEF Cookie
  <2>5. Holds(c')
    <3>1. Cookie(c')
      BY TruncateKeeps DEF MemInv
    <3> QED BY <2>1, <2>2, <2>4, <3>1 DEF Holds, Inside
  <2>6. /\ Data(d) \in Seq(ByteVal) /\ Len(Data(d)) = d.data_len
        /\ \A i \in 1..d.data_len : Data(d)[i] = d.memory[i - 1]
    BY <2>2, DataSeq, HoldsWithin
  <2>7. /\ Data(c') \in Seq(ByteVal) /\ Len(Data(c')) = pos
        /\ \A i \in 1..pos : Data(c')[i] = d.memory[i - 1]
    <3>1. /\ Data(c') \in Seq(ByteVal) /\ Len(Data(c')) = c'.data_len
          /\ \A i \in 1..c'.data_len : Data(c')[i] = c'.memory[i - 1]
      BY <2>5, DataSeq, HoldsWithin
    <3> QED BY <2>4, <3>1
  <2>8. Data(c') = SubSeq(Data(d), 1, pos)
    <3> DEFINE sub == SubSeq(Data(d), 1, pos)
    <3>1. 0 + 1 = 1 /\ 0 + pos = pos /\ \A i \in 1..pos : 0 + i = i
      BY <2>1
    <3>2. 0 \in Nat /\ pos <= Len(Data(d)) /\ 0 + pos <= Len(Data(d))
      BY <2>1, <2>2, <2>6
    <3>3. sub \in Seq(ByteVal) /\ Len(sub) = pos /\ \A i \in 1..pos : sub[i] = Data(d)[i]
      <4>1. /\ SubSeq(Data(d), 0 + 1, 0 + pos) \in Seq(ByteVal)
            /\ Len(SubSeq(Data(d), 0 + 1, 0 + pos)) = pos
            /\ \A i \in 1..pos : SubSeq(Data(d), 0 + 1, 0 + pos)[i] = Data(d)[0 + i]
        BY <2>1, <2>6, <3>2, PartSeq
      <4> QED BY <3>1, <4>1
    <3> HIDE DEF sub
    <3>4. ASSUME NEW i \in 1..pos PROVE Data(c')[i] = sub[i]
      <4>1. i \in 1..d.data_len
        BY <2>1, <2>2
      <4> QED BY <2>6, <2>7, <3>3, <4>1
    <3>5. Data(c') = sub
      BY <2>7, <3>3, <3>4, SeqEqual
    <3> QED BY <3>5 DEF sub
  <2>9. /\ Data(c) \in Seq(ByteVal) /\ Len(Data(c)) = c.data_len /\ c.data_len \in Nat
        /\ MemData = Data(c) /\ MemData' = Data(c')
    BY <2>5, MemDataIs, MemDataNext, DataSeq, HoldsWithin, Numbers DEF Holds
  <2>10. MemData' = File!Cut(MemData, pos) \o File!Zeroes(pos - Len(MemData))
    <3>1. CASE pos < c.data_len
      <4>1. pos - c.data_len \in Int /\ pos - c.data_len <= 0
        BY <2>1, <2>9, <3>1
      <4>2. File!Zeroes(pos - c.data_len) = <<>>
        BY <4>1, ZeroesSeq
      <4>3. Data(d) = Data(c)
        BY <2>3, <2>9, <4>2, ConcatEmptySeq
      <4>4. File!Cut(MemData, pos) = Data(c')
        BY <2>8, <2>9, <3>1, <4>3 DEF File!Cut
      <4>5. Data(c') \o <<>> = Data(c')
        BY <2>7, ConcatEmptySeq
      <4> QED BY <2>9, <4>2, <4>4, <4>5
    <3>2. CASE c.data_len <= pos
      <4> DEFINE z == File!Zeroes(pos - c.data_len)
      <4>1. pos - c.data_len \in Int /\ pos - c.data_len >= 0
        BY <2>1, <2>9, <3>2
      <4>2. z \in Seq(ByteVal) /\ Len(z) = pos - c.data_len
        BY <4>1, ZeroesSeq
      <4> HIDE DEF z
      <4>3. Len(Data(c) \o z) = pos
        <5>1. Len(Data(c) \o z) = Len(Data(c)) + Len(z)
          BY <2>9, <4>2, ConcatProperties
        <5>2. c.data_len + (pos - c.data_len) = pos
          BY <2>1, <2>9
        <5> QED BY <2>9, <4>2, <5>1, <5>2
      <4>4. Data(d) = Data(c) \o z
        BY <2>3 DEF z
      <4>5. SubSeq(Data(d), 1, pos) = Data(d)
        BY <2>6, <4>3, <4>4, SubSeqFull
      <4>6. File!Cut(MemData, pos) = Data(c)
        BY <2>1, <2>9, <3>2 DEF File!Cut
      <4> QED BY <2>8, <2>9, <4>4, <4>5, <4>6 DEF z
    <3>3. pos < c.data_len \/ c.data_len <= pos
      <4>1. pos \in Nat /\ c.data_len \in Nat
        BY <2>1, <2>9
      <4> QED BY <4>1
    <3> QED BY <3>1, <3>2, <3>3
  <2>11. ret'.rc = pos /\ ret'.arg = pos
    BY <1>2, <2>2 DEF pos
  <2>12. File!Truncate
    <3>1. ret'.rc >= 0
      BY <2>1, <2>11
    <3> QED BY <1>2, <2>4, <2>10, <2>11, <3>1 DEF File!Truncate
  <2> QED BY <2>3, <2>4, <2>12 DEF File!Next
<1> QED
  BY <1>4, <1>5, <1>6, SeekData

LEMMA SnatchRefines == ASSUME Holds(c), Snatch PROVE File!Next
<1>1. c.data_len \in Nat /\ c.memory_size \in Nat /\ c.data_len <= c.memory_size
  BY Numbers DEF Holds, Inside
<1>2. /\ ret' = Ret("snatch", "", 0, 0, BytesAt(c, 0, c.data_len))
      /\ c' = [c EXCEPT !.status = "closed", !.memory = [i \in {} |-> Uninit],
                        !.memory_size = 0, !.offset = 0]
  <2>1. ~(c.data_len > c.memory_size)
    BY <1>1
  <2> QED BY <2>1 DEF Snatch
<1>3. ret'.op = "snatch" /\ ret'.bytes = MemData
  BY <1>1, <1>2 DEF Ret, MemData
<1>4. c'.offset = 0 /\ c'.memory_size = 0 /\ c'.data_len = c.data_len /\ c'.append = c.append
  BY <1>2 DEF Holds, Cookie
<1>5. MemData' = <<>>
  <2>1. CASE c.data_len = 0
    <3>1. BytesAt(c', 0, 0) = <<>>
      BY DEF BytesAt
    <3> QED BY <1>4, <2>1, <3>1 DEF MemData
  <2>2. CASE c.data_len # 0
    BY <1>1, <1>4, <2>2 DEF MemData
  <2> QED BY <2>1, <2>2
<1>6. File!Snatch
  BY <1>3, <1>4, <1>5 DEF File!Snatch
<1> QED
  BY <1>4, <1>6 DEF File!Next

-----------------------------------------------------------------------------
\* Once a relative seek has failed it stays so.
LEMMA StaysStrayed == MemInv /\ Half(c.memory_size) /\ c.strayed /\ [MemNext]_memVars => c'.strayed
<1> SUFFICES ASSUME MemInv, Half(c.memory_size), c.strayed, [MemNext]_memVars PROVE c'.strayed
  OBVIOUS
<1>1. ASSUME NEW size, Read(size) PROVE c'.strayed
  BY <1>1 DEF Read, MemInv, Cookie
<1>2. ASSUME NEW size \in 0..MaxIO, NEW b \in Byte, MemWrite(size, b) PROVE c'.strayed
  <2> DEFINE d == AtEnd(c)
  <2>1. Cookie(d) /\ d.strayed
    BY AtEndCookie DEF MemInv
  <2> HIDE DEF d
  <2>2. \/ c' = c \/ c' = d \/ c' = [d EXCEPT !.status = "abort"]
        \/ \E u : c' = CopiedBytes(d, u)
        \/ \E n, u : c' = CopiedBytes(Resized(d, n), u)
    BY <1>2, MemWriteOutcome, ZenonT(30) DEF d
  <2>3. ASSUME NEW e, e.strayed, NEW u, c' = CopiedBytes(e, u), DOMAIN e = DOMAIN c PROVE c'.strayed
    BY <2>3 DEF CopiedBytes, MemInv, Cookie
  <2>4. DOMAIN d = DOMAIN c
    BY <2>1 DEF MemInv, Cookie
  <2>5. ASSUME NEW n PROVE Resized(d, n).strayed /\ DOMAIN Resized(d, n) = DOMAIN c
    BY <2>1, <2>4 DEF Resized, Cookie
  <2> QED BY <2>1, <2>2, <2>3, <2>4, <2>5 DEF Cookie
<1>3. ASSUME NEW off \in Offsets, NEW whence \in {"set", "cur", "end"}, Seek(off, whence)
      PROVE  c'.strayed
  BY <1>3, SeekHalf, MemAssumption DEF Seek
<1>4. ASSUME NEW length \in Offsets, Truncate(length) PROVE c'.strayed
  <2>1. PICK o \in func_mem_seek(length, "set") :
          c' = IF o[2] = -1 THEN o[1] ELSE [o[1] EXCEPT !.data_len = o[1].offset]
    BY <1>4 DEF Truncate
  <2>2. o[1].strayed /\ Cookie(o[1])
    BY <1>4, SeekHalf, SeekOutcome, MemAssumption DEF Truncate
  <2> QED BY <2>1, <2>2 DEF Cookie
<1>5. ASSUME Snatch PROVE c'.strayed
  BY <1>5 DEF Snatch, MemInv, Cookie
<1>6. CASE UNCHANGED memVars
  BY <1>6 DEF memVars
<1> QED
  BY <1>1, <1>2, <1>3, <1>4, <1>5, <1>6 DEF MemNext

LEMMA StepRefines ==
  MemInv /\ Half(c.memory_size) /\ [MemNext]_memVars => [Breaks \/ File!Next]_memVars
<1> SUFFICES ASSUME MemInv, Half(c.memory_size), MemNext, ~Breaks PROVE File!Next
  OBVIOUS
<1>1. ~c.strayed
  BY StaysStrayed DEF Breaks
<1>2. c.status = "open"
  BY DEF MemNext, Read, MemWrite, Seek, Truncate, Snatch
<1>3. Holds(c)
  BY <1>1, <1>2 DEF MemInv, Holds
<1> QED
  BY <1>1, <1>3, ReadRefines, WriteRefines, SeekRefines, TruncateRefines, SnatchRefines DEF MemNext

\* A memory object does what a file does: it implements MemFile, with its data, its position
\* and its results, except for the relative seeks that fail or cut the data from the end
\* (func_mem_read, _write, _seek and _ioctl of src/estream.c).
THEOREM MemoryIsAFile == MemSpec => ImplementsMemFile
<1>1. MemInit => MemInv /\ Half(c.memory_size)
  BY MemInitial, HalfInitial
<1>2. MemInv /\ Half(c.memory_size) /\ [MemNext]_memVars => (MemInv /\ Half(c.memory_size))'
  BY MemInductive, HalfKept
<1> QED
  BY <1>1, <1>2, StepRefines, PTL DEF MemSpec, ImplementsMemFile
-----------------------------------------------------------------------------
\* The pollable streams of Windows.

B == READBUF_SIZE
Closing == {"d_reader", "d_writer", "d_wait", "closed"}
Ended == {"end", "close", "gone"}

-----------------------------------------------------------------------------
(***************************************************************************)
(* The invariant of the reader.  The property says what the ring holds; what   *)
(* keeps it so is that the space the thread fills outside the critical section  *)
(* was free when it looked and can only have become larger since.              *)
(***************************************************************************)
ReaderSet ==
  [at : {"none", "top", "space", "call", "reading", "got", "end", "close", "gone", "wild"},
   room : 0..(B - 1), nread : 0..(B - 1), buffer : [0..(B - 1) -> 0..MaxIn],
   readpos : 0..(B - 1), writepos : 0..(B - 1),
   stop_me : BOOLEAN, eof : BOOLEAN, error : BOOLEAN, eof_shortcut : BOOLEAN,
   have_data : BOOLEAN, have_space : BOOLEAN, close_ev : BOOLEAN]

\* The bytes in the ring of cp, and the place of the i-th byte from p on.
Fill(cp) == IF cp.readpos <= cp.writepos THEN cp.writepos - cp.readpos
           ELSE cp.writepos + B - cp.readpos
Slot(p, i) == IF p + i < B THEN p + i ELSE p + i - B

\* n bytes fit behind those of the ring without wrapping around.
Fits(cp, n) == n + Fill(cp) < B /\ cp.writepos + n <= B

ReaderTypes ==
  /\ r \in ReaderSet /\ input \in 0..MaxIn /\ got \in Seq(1..MaxIn)
  /\ result \in {"none", "data", "eof", "error", "EAGAIN"}

SpaceKept ==
  /\ r.at \in {"call", "reading"} => Fits(r, r.room)
  /\ r.at = "got" =>
       /\ Fits(r, r.nread) /\ r.nread <= input
       /\ \A i \in 0..(r.nread - 1) : r.buffer[r.writepos + i] = input - r.nread + 1 + i

BytesKept ==
  ~r.stop_me =>
    /\ Len(got) + Fill(r) = input - Arriving
    /\ \A i \in 1..Len(got) : got[i] = i
    /\ \A i \in 0..(Fill(r) - 1) : r.buffer[Slot(r.readpos, i)] = Len(got) + 1 + i

ReaderFlags ==
  /\ r.at = "none" => r = R!NoReader /\ prog \notin {"r_wait", "r_reset"}
  /\ r.stop_me => prog \in Closing
  /\ r.eof \/ r.error => r.at \in Ended
  /\ ~(r.eof /\ r.error)
  /\ r.at \in Ended => r.eof \/ r.error \/ r.stop_me
  /\ r.readpos # r.writepos => r.have_data
  /\ prog = "r_reset" => r.readpos = r.writepos
  /\ r.have_data /\ prog \notin Closing \cup {"r_reset"} =>
       r.readpos # r.writepos \/ r.eof \/ r.error

RInv == ReaderTypes /\ SpaceKept /\ BytesKept /\ ReaderFlags

-----------------------------------------------------------------------------
(***************************************************************************)
(* The invariant of the writer: how much of what was written is in the buffer,  *)
(* and that the thread has work whenever it looks for some.                    *)
(***************************************************************************)
WriterSet ==
  [at : {"none", "top", "idle", "call", "wrote", "end", "close", "gone"},
   nwritten : 0..WRITEBUF_SIZE, buffer : Seq(1..MaxOut), nbytes : 0..WRITEBUF_SIZE,
   stop_me : BOOLEAN, error : BOOLEAN, have_data : BOOLEAN, is_empty : BOOLEAN,
   close_ev : BOOLEAN]

WriterTypes ==
  /\ w \in WriterSet /\ written \in 0..MaxOut /\ output \in Seq(1..MaxOut)
  /\ outcome \in {"none", "data", "error", "EAGAIN"}

\* Of the bytes in the buffer, those the backend has not got.
Pending == IF w.at = "wrote" THEN w.nbytes - w.nwritten ELSE w.nbytes

OutKept ==
  /\ w.nbytes <= Len(w.buffer)
  /\ Len(output) + Pending = written
  /\ ~ShortWrites =>
       /\ \A i \in 1..Len(output) : output[i] = i
       /\ w.at # "wrote" => \A i \in 1..w.nbytes : w.buffer[i] = written - w.nbytes + i
       /\ w.at = "wrote" => w.nwritten = w.nbytes

WriterFlags ==
  /\ w.at = "none" => w = W!NoWriter /\ prog \notin {"w_wait", "w_reset"}
  /\ w.stop_me => prog \in {"d_wait", "closed"}
  /\ w.at \in {"call", "wrote"} => w.nbytes > 0
  /\ w.at = "wrote" => w.nwritten \in 1..w.nbytes
  /\ w.at = "idle" /\ w.have_data => w.nbytes > 0 \/ w.stop_me
  /\ w.at \in Ended => w.error \/ (w.stop_me /\ w.nbytes = 0)
  /\ w.is_empty => w.nbytes = 0 \/ w.error
  /\ prog = "closed" => w.nbytes = 0 \/ w.error

WInv == WriterTypes /\ OutKept /\ WriterFlags

-----------------------------------------------------------------------------
(* The ring: positions modulo its size, without the remainders. *)

LEMMA SizeOk == B \in Nat \ {0, 1} /\ MaxIn \in Nat
  BY ReaderAssumption DEF B

Wrap(a) == a % B

LEMMA WrapOnce == \A a \in 0..(2 * B - 1) : Wrap(a) = IF a < B THEN a ELSE a - B
  BY SizeOk DEF Wrap

LEMMA SlotMod == ASSUME NEW p \in 0..(B - 1), NEW n \in 0..(B - 1)
                 PROVE  Wrap(p + n) = Slot(p, n) /\ Slot(p, n) \in 0..(B - 1)
  BY SizeOk, WrapOnce DEF Slot

LEMMA FillMod == ASSUME NEW cp \in ReaderSet
                 PROVE  /\ Fill(cp) \in 0..(B - 1)
                        /\ Wrap(cp.writepos + B - cp.readpos) = Fill(cp)
                        /\ R!Empty(cp) <=> Fill(cp) = 0
                        /\ R!Full(cp) <=> Fill(cp) = B - 1
<1>1. cp.readpos \in 0..(B - 1) /\ cp.writepos \in 0..(B - 1)
  BY DEF ReaderSet
<1>2. Wrap(cp.writepos + B - cp.readpos) = Fill(cp)
  BY <1>1, SizeOk, WrapOnce DEF Fill
<1>3. R!Full(cp) <=> Slot(cp.writepos, 1) = cp.readpos
  <2>1. R!Full(cp) <=> Wrap(cp.writepos + 1) = cp.readpos
    BY DEF R!Full, Wrap, B
  <2> QED BY <1>1, <2>1, SizeOk, SlotMod
<1> QED
  BY <1>1, <1>2, <1>3, SizeOk DEF Fill, Slot, R!Empty

LEMMA RoomFits == ASSUME r \in ReaderSet, ~R!Full(r)
                  PROVE  R!Room \in 1..(B - 1) /\ Fits(r, R!Room)
<1> DEFINE n == Wrap(r.readpos + B - r.writepos - 1)
<1>1. r.readpos \in 0..(B - 1) /\ r.writepos \in 0..(B - 1)
  BY DEF ReaderSet
<1>2. n = (IF r.readpos > r.writepos THEN r.readpos - r.writepos - 1
           ELSE r.readpos + B - r.writepos - 1)
  BY <1>1, SizeOk, WrapOnce
<1>3. Fill(r) # B - 1 /\ Fill(r) \in 0..(B - 1)
  BY FillMod
<1>4. R!Room = IF n > B - r.writepos THEN B - r.writepos ELSE n
  BY DEF R!Room, B, Wrap
<1> HIDE DEF n
<1> QED
  BY <1>1, <1>2, <1>3, <1>4, SizeOk DEF Fill, Fits

-----------------------------------------------------------------------------
(* The steps of the reader's thread. *)

\* A step that leaves the ring alone.
SameRing ==
  /\ r'.readpos = r.readpos /\ r'.writepos = r.writepos /\ r'.buffer = r.buffer
  /\ r'.stop_me = r.stop_me /\ UNCHANGED <<got, input>> /\ Arriving' = Arriving

LEMMA BytesSame == ASSUME BytesKept, SameRing PROVE BytesKept'
<1>1. Fill(r') = Fill(r)
  BY DEF SameRing, Fill
<1>2. \A i : Slot(r'.readpos, i) = Slot(r.readpos, i)
  BY DEF SameRing
<1> QED
  BY <1>1, <1>2 DEF BytesKept, SameRing, Slot

LEMMA TopStep == ASSUME RInv, R!ReaderTop PROVE RInv'
<1> USE DEF RInv, R!ReaderTop, R!ThreadStep
<1>1. ReaderTypes'
  <2>1. CASE R!Full(r)
    BY <2>1 DEF ReaderTypes, ReaderSet
  <2>2. CASE ~R!Full(r)
    <3>1. R!Room \in 0..(B - 1)
      BY <2>2, RoomFits, SizeOk DEF ReaderTypes
    <3> QED BY <2>2, <3>1 DEF ReaderTypes, ReaderSet
  <2> QED BY <2>1, <2>2
<1>2. SpaceKept'
  <2>1. CASE r'.at = "call"
    <3>1. ~R!Full(r) /\ r' = [r EXCEPT !.room = R!Room, !.at = "call"]
      BY <2>1 DEF ReaderTypes, ReaderSet
    <3>2. Fits(r, R!Room)
      BY <3>1, RoomFits DEF ReaderTypes
    <3>3. r'.room = R!Room /\ r'.readpos = r.readpos /\ r'.writepos = r.writepos
      BY <3>1 DEF ReaderTypes, ReaderSet
    <3> HIDE DEF R!ReaderTop
    <3> QED BY <2>1, <3>2, <3>3 DEF SpaceKept, Fits, Fill
  <2>2. CASE r'.at # "call"
    <3>1. r'.at \in {"space", "end"}
      BY <2>2 DEF ReaderTypes, ReaderSet
    <3> QED BY <3>1 DEF SpaceKept
  <2> QED BY <2>1, <2>2
<1>3. BytesKept'
  BY BytesSame DEF SameRing, Arriving, ReaderTypes, ReaderSet
<1>4. ReaderFlags'
  BY DEF ReaderFlags, ReaderTypes, ReaderSet, Closing, Ended
<1> QED BY <1>1, <1>2, <1>3, <1>4

LEMMA SpaceStep == ASSUME RInv, R!ReaderSpace PROVE RInv'
<1> USE DEF RInv, R!ReaderSpace, R!ThreadStep
<1>1. ReaderTypes'
  BY DEF ReaderTypes, ReaderSet
<1>2. SpaceKept'
  BY DEF SpaceKept, ReaderTypes, ReaderSet
<1>3. BytesKept'
  BY BytesSame DEF SameRing, Arriving, ReaderTypes, ReaderSet
<1>4. ReaderFlags'
  BY DEF ReaderFlags, ReaderTypes, ReaderSet, Closing, Ended
<1> QED BY <1>1, <1>2, <1>3, <1>4

LEMMA CallStep == ASSUME RInv, R!ReaderCall PROVE RInv'
<1> USE DEF RInv, R!ReaderCall, R!ThreadStep
<1>1. ReaderTypes'
  BY DEF ReaderTypes, ReaderSet
<1>2. SpaceKept'
  BY DEF SpaceKept, ReaderTypes, ReaderSet, Fits, Fill
<1>3. BytesKept'
  BY BytesSame DEF SameRing, Arriving, ReaderTypes, ReaderSet
<1>4. ReaderFlags'
  BY DEF ReaderFlags, ReaderTypes, ReaderSet, Closing, Ended
<1> QED BY <1>1, <1>2, <1>3, <1>4

LEMMA FailsStep == ASSUME RInv, NEW how \in ReadFaults, R!ReaderFails(how) PROVE RInv'
<1> USE DEF RInv, R!ReaderFails, R!ThreadStep
<1>0. how \in {"error", "broken"}
  BY ReaderAssumption
<1>1. ReaderTypes'
  BY DEF ReaderTypes, ReaderSet
<1>2. SpaceKept'
  BY DEF SpaceKept, ReaderTypes, ReaderSet
<1>3. BytesKept'
  BY BytesSame DEF SameRing, Arriving, ReaderTypes, ReaderSet
<1>4. ReaderFlags'
  BY <1>0 DEF ReaderFlags, ReaderTypes, ReaderSet, Closing, Ended
<1> QED BY <1>1, <1>2, <1>3, <1>4

LEMMA EndStep == ASSUME RInv, R!ReaderEnd PROVE RInv'
<1> USE DEF RInv, R!ReaderEnd, R!ThreadStep
<1>1. ReaderTypes'
  BY DEF ReaderTypes, ReaderSet
<1>2. SpaceKept'
  BY DEF SpaceKept, ReaderTypes, ReaderSet
<1>3. BytesKept'
  BY BytesSame DEF SameRing, Arriving, ReaderTypes, ReaderSet
<1>4. ReaderFlags'
  BY DEF ReaderFlags, ReaderTypes, ReaderSet, Closing, Ended
<1> QED BY <1>1, <1>2, <1>3, <1>4

LEMMA CloseStep == ASSUME RInv, R!ReaderClose PROVE RInv'
<1> USE DEF RInv, R!ReaderClose, R!ThreadStep
<1>1. ReaderTypes'
  BY DEF ReaderTypes, ReaderSet
<1>2. SpaceKept'
  BY DEF SpaceKept, ReaderTypes, ReaderSet
<1>3. BytesKept'
  BY BytesSame DEF SameRing, Arriving, ReaderTypes, ReaderSet
<1>4. ReaderFlags'
  BY DEF ReaderFlags, ReaderTypes, ReaderSet, Closing, Ended
<1> QED BY <1>1, <1>2, <1>3, <1>4

\* Where the thread writes there is nothing to read.
LEMMA OutOfTheWay ==
  ASSUME r \in ReaderSet, NEW n \in Nat, Fits(r, n), NEW i \in 0..(Fill(r) - 1)
  PROVE  /\ Slot(r.readpos, i) \in 0..(B - 1)
         /\ ~(Slot(r.readpos, i) >= r.writepos /\ Slot(r.readpos, i) < r.writepos + n)
<1>1. r.readpos \in 0..(B - 1) /\ r.writepos \in 0..(B - 1)
  BY DEF ReaderSet
<1> QED BY <1>1, SizeOk DEF Fits, Fill, Slot

\* The places behind the bytes of the ring are those the thread writes to.
LEMMA BehindTheRing ==
  ASSUME r \in ReaderSet, NEW n \in Nat, Fits(r, n), NEW i \in Fill(r)..(Fill(r) + n - 1)
  PROVE  Slot(r.readpos, i) = r.writepos + (i - Fill(r))
<1>1. r.readpos \in 0..(B - 1) /\ r.writepos \in 0..(B - 1)
  BY DEF ReaderSet
<1> QED BY <1>1, SizeOk DEF Fits, Fill, Slot

LEMMA ReturnsStep == ASSUME RInv, NEW n \in 0..MaxIn, R!ReaderReturns(n) PROVE RInv'
<1> USE DEF RInv
<1> DEFINE b == [i \in 0..(B - 1) |-> IF i >= r.writepos /\ i < r.writepos + n
                                      THEN input + 1 + i - r.writepos ELSE r.buffer[i]]
<1>1. /\ r.at = "reading" /\ n <= r.room /\ input + n <= MaxIn /\ input' = input + n
      /\ UNCHANGED <<prog, nonblock, got, result>>
  BY DEF R!ReaderReturns, R!ThreadStep
<1>2. r' = [r EXCEPT !.at = "got", !.nread = n, !.buffer = b]
  BY DEF R!ReaderReturns, ReaderTypes, ReaderSet
<1>3. /\ r.room \in 0..(B - 1) /\ r.writepos \in 0..(B - 1) /\ input \in 0..MaxIn
      /\ r.buffer \in [0..(B - 1) -> 0..MaxIn] /\ n \in Nat /\ r \in ReaderSet
      /\ r.readpos \in 0..(B - 1)
  BY SizeOk, SMTT(60) DEF ReaderTypes, ReaderSet
<1>4. b \in [0..(B - 1) -> 0..MaxIn]
  <2>1. ASSUME NEW i \in 0..(B - 1), i >= r.writepos, i < r.writepos + n
        PROVE  input + 1 + i - r.writepos \in 0..MaxIn
    BY <1>1, <1>3, <2>1, SizeOk, SMTT(60)
  <2>2. \A i \in 0..(B - 1) : r.buffer[i] \in 0..MaxIn
    BY <1>3
  <2> QED BY <2>1, <2>2
<1>5. /\ r'.at = "got" /\ r'.nread = n /\ r'.buffer = b /\ r'.readpos = r.readpos
      /\ r'.writepos = r.writepos /\ r'.stop_me = r.stop_me /\ Fill(r') = Fill(r)
  BY <1>2, <1>3 DEF ReaderSet, Fill
<1>6. Fits(r, n) /\ Fits(r', n)
  <2>1. Fits(r, r.room)
    BY <1>1 DEF SpaceKept
  <2>2. Fill(r) \in 0..(B - 1)
    BY <1>3, FillMod
  <2> QED BY <1>1, <1>3, <1>5, <2>1, <2>2, SizeOk, SMTT(60) DEF Fits
<1>7. ReaderTypes'
  <2>1. n \in 0..(B - 1)
    BY <1>1, <1>3, SizeOk
  <2>2. r' \in ReaderSet
    <3> HIDE DEF b
    <3> QED BY <1>2, <1>3, <1>4, <2>1 DEF ReaderSet
  <2> QED BY <1>1, <1>3, <2>2, SizeOk DEF ReaderTypes
<1>8. SpaceKept'
  <2>1. ASSUME NEW i \in 0..(n - 1) PROVE b[r.writepos + i] = input' - n + 1 + i
    <3>1. r.writepos + i \in 0..(B - 1)
      <4>1. r.writepos + n <= B
        BY <1>6 DEF Fits
      <4> HIDE DEF b
      <4> QED BY <1>3, <4>1, SizeOk, SMTT(60)
    <3> QED BY <1>1, <1>3, <3>1, SizeOk, SMTT(60)
  <2>2. n <= input'
    BY <1>1, <1>3, SizeOk
  <2> HIDE DEF b
  <2> QED BY <1>5, <1>6, <2>1, <2>2 DEF SpaceKept
<1>9. BytesKept'
  <2> SUFFICES ASSUME ~r'.stop_me PROVE BytesKept'
    BY DEF BytesKept
  <2>1. /\ Len(got) + Fill(r) = input
        /\ \A i \in 1..Len(got) : got[i] = i
        /\ \A i \in 0..(Fill(r) - 1) : r.buffer[Slot(r.readpos, i)] = Len(got) + 1 + i
    BY <1>1, <1>3, <1>5 DEF BytesKept, Arriving
  <2>2. (input - Arriving)' = input
    BY <1>1, <1>3, <1>5 DEF Arriving
  <2>3. ASSUME NEW i \in 0..(Fill(r) - 1)
        PROVE  b[Slot(r.readpos, i)] = r.buffer[Slot(r.readpos, i)]
    <3> DEFINE s == Slot(r.readpos, i)
    <3>1. s \in 0..(B - 1) /\ ~(s >= r.writepos /\ s < r.writepos + n)
      BY <1>3, <1>6, OutOfTheWay
    <3> HIDE DEF s
    <3>2. b[s] = r.buffer[s]
      BY <3>1
    <3> QED BY <3>2 DEF s
  <2> HIDE DEF b
  <2>4. \A i \in 0..(Fill(r') - 1) : r'.buffer[Slot(r'.readpos, i)] = Len(got') + 1 + i
    BY <1>1, <1>5, <2>1, <2>3
  <2>5. Len(got') + Fill(r') = (input - Arriving)'
    BY <1>1, <1>5, <2>1, <2>2
  <2> QED BY <1>1, <2>1, <2>4, <2>5 DEF BytesKept
<1>10. ReaderFlags'
  <2> HIDE DEF b
  <2> QED BY <1>1, <1>2, <1>3 DEF ReaderFlags, ReaderSet, Closing, Ended
<1> QED BY <1>7, <1>8, <1>9, <1>10

LEMMA FillGrows ==
  ASSUME NEW cp \in ReaderSet, NEW d, NEW n \in 1..(B - 1), Fits(cp, n),
         d.readpos = cp.readpos, d.writepos = Slot(cp.writepos, n)
  PROVE  Fill(d) = Fill(cp) + n
<1>1. cp.readpos \in 0..(B - 1) /\ cp.writepos \in 0..(B - 1)
  BY DEF ReaderSet
<1> QED BY <1>1, SizeOk DEF Fill, Slot, Fits

LEMMA GotStep == ASSUME RInv, R!ReaderGot PROVE RInv'
<1> USE DEF RInv
<1>1. /\ r.at = "got" /\ prog # "r_reset" /\ UNCHANGED <<prog, nonblock, got, result, input>>
  BY DEF R!ReaderGot, R!ThreadStep, R!Free
<1>2. /\ r.writepos \in 0..(B - 1) /\ r.readpos \in 0..(B - 1) /\ r.nread \in 0..(B - 1)
      /\ r \in ReaderSet /\ input \in 0..MaxIn /\ Fill(r) \in 0..(B - 1)
  BY FillMod DEF ReaderTypes, ReaderSet
<1>3. CASE r.stop_me
  <2>1. r' = [r EXCEPT !.at = "end"]
    BY <1>3 DEF R!ReaderGot
  <2>2. ReaderTypes'
    BY <1>1, <2>1 DEF ReaderTypes, ReaderSet
  <2> QED
    BY <1>1, <1>2, <1>3, <2>1, <2>2
    DEF SpaceKept, BytesKept, ReaderFlags, ReaderSet, Closing, Ended
<1>4. CASE ~r.stop_me /\ r.nread = 0
  <2>1. r' = [r EXCEPT !.eof = TRUE, !.at = "end"]
    BY <1>4 DEF R!ReaderGot
  <2>2. ReaderTypes'
    BY <1>1, <2>1 DEF ReaderTypes, ReaderSet
  <2>3. SpaceKept'
    BY <1>2, <2>1 DEF SpaceKept, ReaderSet
  <2>4. BytesKept'
    BY <1>1, <1>2, <1>4, <2>1, BytesSame DEF SameRing, Arriving, ReaderSet
  <2>5. ReaderFlags'
    BY <1>1, <1>2, <1>4, <2>1 DEF ReaderFlags, ReaderSet, Closing, Ended
  <2> QED BY <2>2, <2>3, <2>4, <2>5
<1>5. CASE ~r.stop_me /\ r.nread # 0
  <2> DEFINE n == r.nread
             q == Wrap(r.writepos + n)
  <2> HIDE DEF q, n
  <2>1. r' = [r EXCEPT !.writepos = q, !.have_data = TRUE, !.at = "top"]
    BY <1>5 DEF R!ReaderGot, Wrap, B, n, q
  <2>2. /\ Fits(r, n) /\ n <= input
        /\ \A i \in 0..(n - 1) : r.buffer[r.writepos + i] = input - n + 1 + i
    BY <1>1 DEF SpaceKept, n
  <2>3. q = Slot(r.writepos, n) /\ q \in 0..(B - 1)
    BY <1>2, SlotMod DEF n, q
  <2>4. /\ r'.writepos = q /\ r'.readpos = r.readpos /\ r'.buffer = r.buffer
        /\ r'.at = "top" /\ r'.have_data /\ ~r'.stop_me
    BY <1>2, <1>5, <2>1 DEF ReaderSet
  <2>0. n \in 1..(B - 1)
    BY <1>2, <1>5 DEF n
  <2>5. Fill(r') = Fill(r) + n
    BY <1>2, <2>0, <2>2, <2>3, <2>4, FillGrows
  <2>6. ReaderTypes'
    BY <1>1, <1>2, <2>1, <2>3 DEF ReaderTypes, ReaderSet
  <2>7. SpaceKept'
    BY <2>4 DEF SpaceKept
  <2>8. BytesKept'
    <3>1. /\ Len(got) + Fill(r) = input - n
          /\ \A i \in 1..Len(got) : got[i] = i
          /\ \A i \in 0..(Fill(r) - 1) : r.buffer[Slot(r.readpos, i)] = Len(got) + 1 + i
      BY <1>1, <1>5 DEF BytesKept, Arriving, n
    <3> DEFINE f == Fill(r)
               g == Len(got)
    <3>2. /\ f \in 0..(B - 1) /\ g \in Nat /\ input \in Nat /\ n \in Nat /\ g + f = input - n
          /\ Fill(r') = f + n
      BY <1>2, <2>0, <2>5, <3>1, SizeOk DEF ReaderTypes
    <3> HIDE DEF f, g
    <3>3. ASSUME NEW i \in 0..(f + n - 1)
          PROVE  r.buffer[Slot(r.readpos, i)] = g + 1 + i
      <4>1. CASE i < f
        <5>1. i \in 0..(f - 1)
          BY <3>2, <4>1
        <5> QED BY <3>1, <5>1 DEF f, g
      <4>2. CASE i >= f
        <5>1. Slot(r.readpos, i) = r.writepos + (i - f)
          BY <1>2, <2>2, <3>2, <4>2, BehindTheRing DEF f
        <5>2. i - f \in 0..(n - 1)
          BY <3>2, <4>2
        <5>3. r.buffer[r.writepos + (i - f)] = input - n + 1 + (i - f)
          BY <2>2, <5>2
        <5>4. input - n + 1 + (i - f) = g + 1 + i
          BY <3>2
        <5> QED BY <5>1, <5>3, <5>4
      <4> QED BY <3>2, <4>1, <4>2
    <3>4. Len(got') + Fill(r') = (input - Arriving)'
      <4>1. (input - Arriving)' = input
        BY <1>1, <2>4, <3>2 DEF Arriving
      <4>2. Len(got') = g
        BY <1>1 DEF g
      <4>3. g + (f + n) = input
        BY <3>2
      <4> QED BY <3>2, <4>1, <4>2, <4>3
    <3>5. \A i \in 0..(Fill(r') - 1) : r'.buffer[Slot(r'.readpos, i)] = Len(got') + 1 + i
      <4>1. Len(got') = g /\ r'.buffer = r.buffer /\ r'.readpos = r.readpos /\ Fill(r') = f + n
        BY <1>1, <2>4, <3>2 DEF g
      <4>2. ASSUME NEW i \in 0..(Fill(r') - 1)
            PROVE  r'.buffer[Slot(r'.readpos, i)] = Len(got') + 1 + i
        <5>1. i \in 0..(f + n - 1)
          BY <3>2, <4>1
        <5>2. r.buffer[Slot(r.readpos, i)] = g + 1 + i
          BY <3>3, <5>1
        <5>3. Slot(r'.readpos, i) = Slot(r.readpos, i)
          BY <4>1
        <5> QED BY <4>1, <5>2, <5>3
      <4> QED BY <4>2
    <3> QED BY <1>1, <3>1, <3>4, <3>5 DEF BytesKept
  <2>9. ReaderFlags'
    <3>1. Fill(r') # 0
      BY <1>2, <2>0, <2>5
    <3>2. r' \in ReaderSet
      BY <2>6 DEF ReaderTypes
    <3>3. r'.readpos # r'.writepos
      BY <3>1, <3>2, FillMod DEF R!Empty
    <3> QED BY <1>1, <1>2, <1>5, <2>1, <2>4, <3>3 DEF ReaderFlags, ReaderSet, Closing, Ended
  <2> QED BY <2>6, <2>7, <2>8, <2>9
<1> QED BY <1>2, <1>3, <1>4, <1>5 DEF ReaderSet

-----------------------------------------------------------------------------
(* The calls of the program, and the reader while something else goes on. *)

\* A step of somebody else, or of the program outside the reader.
Elsewhere ==
  /\ UNCHANGED readerVars
  /\ \/ prog' = prog
     \/ /\ prog # "r_reset" /\ prog' \notin {"r_wait", "r_reset"}
        /\ prog \in Closing => prog' \in Closing

LEMMA ElsewhereStep == ASSUME RInv, Elsewhere PROVE RInv'
<1> USE DEF RInv, Elsewhere, readerVars
<1>1. ReaderTypes'
  BY DEF ReaderTypes
<1>2. SpaceKept'
  BY DEF SpaceKept, Fits, Fill
<1>3. BytesKept'
  BY BytesSame DEF SameRing, Arriving
<1>4. ReaderFlags'
  BY DEF ReaderFlags
<1> QED BY <1>1, <1>2, <1>3, <1>4

LEMMA ReadyStep ==
  ASSUME RInv, prog = "idle", r' = R!Ready(r), prog' \in {"idle", "r_wait", "poll"},
         UNCHANGED <<input, got>>, result' \in {"none", "data", "eof", "error", "EAGAIN"}
  PROVE  RInv'
<1> USE DEF RInv
<1>1. CASE r.at = "none"
  <2>1. r = R!NoReader /\ r' = [R!NoReader EXCEPT !.at = "top"]
    BY <1>1 DEF ReaderFlags, R!Ready, R!create_reader
  <2>2. r' \in ReaderSet
    <3>1. 0 \in 0..(B - 1) /\ [i \in 0..(B - 1) |-> 0] \in [0..(B - 1) -> 0..MaxIn]
      BY SizeOk
    <3> QED BY <2>1, <3>1 DEF R!NoReader, ReaderSet, B
  <2>3. SpaceKept'
    BY <2>1 DEF SpaceKept, R!NoReader
  <2>4. BytesKept'
    BY <2>1, BytesSame DEF SameRing, Arriving, R!NoReader
  <2>5. ReaderFlags'
    BY <2>1 DEF ReaderFlags, R!NoReader, Closing, Ended
  <2> QED BY <2>2, <2>3, <2>4, <2>5 DEF ReaderTypes
<1>2. CASE r.at # "none"
  <2>1. r' = r
    BY <1>2 DEF R!Ready
  <2>2. ReaderTypes'
    BY <2>1 DEF ReaderTypes
  <2>3. SpaceKept'
    BY <2>1 DEF SpaceKept, Fits, Fill
  <2>4. BytesKept'
    BY <2>1, BytesSame DEF SameRing, Arriving
  <2>5. ReaderFlags'
    BY <1>2, <2>1 DEF ReaderFlags, Closing
  <2> QED BY <2>2, <2>3, <2>4, <2>5
<1> QED BY <1>1, <1>2

\* What a read takes is at the front of the ring, in one piece.
LEMMA InOnePiece ==
  ASSUME NEW cp \in ReaderSet, Fill(cp) > 0, NEW n \in Nat \ {0},
         n <= IF cp.readpos < cp.writepos THEN cp.writepos - cp.readpos ELSE B - cp.readpos,
         NEW d, d.writepos = cp.writepos, d.readpos = Slot(cp.readpos, n)
  PROVE  /\ n \in 1..(B - 1) /\ n <= Fill(cp) /\ Fill(d) = Fill(cp) - n
         /\ \A i \in 0..(n - 1) : Slot(cp.readpos, i) = cp.readpos + i
         /\ \A i \in 0..(Fill(cp) - n - 1) : Slot(d.readpos, i) = Slot(cp.readpos, n + i)
<1>1. cp.readpos \in 0..(B - 1) /\ cp.writepos \in 0..(B - 1)
  BY DEF ReaderSet
<1>2. n <= Fill(cp) /\ n <= B - cp.readpos /\ n \in 1..(B - 1)
  BY <1>1, SizeOk DEF Fill
<1>3. d.readpos = IF cp.readpos + n < B THEN cp.readpos + n ELSE 0
  BY <1>1, <1>2, SizeOk DEF Slot
<1>4. Fill(d) = Fill(cp) - n
  BY <1>1, <1>2, <1>3, SizeOk DEF Fill
<1>5. \A i \in 0..(n - 1) : Slot(cp.readpos, i) = cp.readpos + i
  BY <1>1, <1>2, SizeOk DEF Slot
<1>6. \A i \in 0..(Fill(cp) - n - 1) : Slot(d.readpos, i) = Slot(cp.readpos, n + i)
  BY <1>1, <1>2, <1>3, SizeOk DEF Slot, Fill
<1> QED BY <1>2, <1>4, <1>5, <1>6

LEMMA TakeStep ==
  ASSUME RInv, prog \in {"idle", "r_wait"}, r.at # "none", NEW count \in 1..B,
         R!Take(r, count), UNCHANGED input
  PROVE  RInv'
<1> USE DEF RInv
<1>1. /\ r \in ReaderSet /\ input \in 0..MaxIn /\ got \in Seq(1..MaxIn)
      /\ r.readpos \in 0..(B - 1) /\ r.writepos \in 0..(B - 1) /\ ~r.stop_me
  BY DEF ReaderTypes, ReaderSet, ReaderFlags, Closing
<1>2. CASE R!Empty(r) \/ r.error
  <2>1. /\ r' = [r EXCEPT !.eof_shortcut = TRUE] /\ result' \in {"error", "eof"}
        /\ prog' = "idle" /\ got' = got
    BY <1>2 DEF R!Take
  <2>2. ReaderTypes'
    BY <1>1, <2>1 DEF ReaderTypes, ReaderSet
  <2>3. SpaceKept'
    BY <1>1, <2>1 DEF SpaceKept, ReaderSet, Fits, Fill
  <2>4. BytesKept'
    BY <1>1, <2>1, BytesSame DEF SameRing, Arriving, ReaderSet
  <2>5. ReaderFlags'
    BY <1>1, <2>1 DEF ReaderFlags, ReaderSet, Closing, Ended
  <2> QED BY <2>2, <2>3, <2>4, <2>5
<1>3. CASE ~(R!Empty(r) \/ r.error)
  <2> DEFINE have == IF r.readpos < r.writepos THEN r.writepos - r.readpos ELSE B - r.readpos
             n == IF have > count THEN count ELSE have
             p == Wrap(r.readpos + n)
             c1 == [r EXCEPT !.readpos = p]
             piece == [i \in 1..n |-> r.buffer[r.readpos + i - 1]]
  <2>1. /\ got' = got \o piece /\ result' = "data"
        /\ \/ R!Empty(c1) /\ ~r.eof /\ r' = c1 /\ prog' = "r_reset"
           \/ ~(R!Empty(c1) /\ ~r.eof) /\ r' = [c1 EXCEPT !.have_space = TRUE] /\ prog' = "idle"
    <3>1. c1.eof = r.eof
      BY <1>1 DEF ReaderSet
    <3>2. c1 = [r EXCEPT !.readpos = (r.readpos + n) % READBUF_SIZE]
      BY DEF Wrap, B
    <3> QED BY <1>3, <3>1, <3>2 DEF R!Take, B
  <2>2. n \in Nat \ {0} /\ n <= have
    BY <1>1, <1>3, SizeOk DEF R!Empty
  <2>3. Fill(r) > 0 /\ Fill(r) \in 0..(B - 1)
    BY <1>1, <1>3, FillMod
  <2>4. n \in 1..(B - 1)
    BY <1>1, <1>3, <2>2, SizeOk DEF R!Empty
  <2>5. p = Slot(r.readpos, n) /\ p \in 0..(B - 1)
    <3> HIDE DEF n
    <3>1. n \in 0..(B - 1)
      BY <2>4
    <3> QED BY <1>1, <3>1, SlotMod
  <2> HIDE DEF have, n, p
  <2>6. /\ r'.readpos = p /\ r'.writepos = r.writepos /\ r'.buffer = r.buffer /\ r'.at = r.at
        /\ r'.room = r.room /\ r'.nread = r.nread
    BY <1>1, <2>1 DEF ReaderSet
  <2>6a. /\ r'.stop_me = r.stop_me /\ r'.eof = r.eof /\ r'.error = r.error
         /\ r'.have_data = r.have_data
    BY <1>1, <2>1 DEF ReaderSet
  <2>7. /\ n <= Fill(r) /\ Fill(r') = Fill(r) - n
        /\ \A i \in 0..(n - 1) : Slot(r.readpos, i) = r.readpos + i
        /\ \A i \in 0..(Fill(r) - n - 1) : Slot(r'.readpos, i) = Slot(r.readpos, n + i)
    <3>1. n <= IF r.readpos < r.writepos THEN r.writepos - r.readpos ELSE B - r.readpos
      BY <2>2 DEF have
    <3> QED BY <1>1, <2>2, <2>3, <2>5, <2>6, <3>1, InOnePiece
  <2> DEFINE f == Fill(r)
             g == Len(got)
  <2>8. /\ f \in 0..(B - 1) /\ g \in Nat /\ n \in 1..f /\ f - n \in Nat
        /\ g + f = input - Arriving
        /\ \A i \in 1..g : got[i] = i
        /\ \A i \in 0..(f - 1) : r.buffer[Slot(r.readpos, i)] = g + 1 + i
    BY <1>1, <2>3, <2>4, <2>7 DEF BytesKept
  <2>9. g + f \in 0..MaxIn
    <3>1. Arriving \in Nat
      BY <1>1, SizeOk DEF Arriving, ReaderSet
    <3> HIDE DEF f, g
    <3>2. g + f \in Nat /\ input \in 0..MaxIn /\ MaxIn \in Nat
      BY <1>1, <2>8, SizeOk
    <3> QED BY <2>8, <3>1, <3>2
  <2>10. \A i \in 1..n : piece[i] = g + i
    <3> HIDE DEF f, g
    <3>1. ASSUME NEW i \in 1..n PROVE piece[i] = g + i
      <4>1. i - 1 \in 0..(n - 1) /\ i - 1 \in 0..(f - 1) /\ r.readpos + (i - 1) = r.readpos + i - 1
        BY <1>1, <2>8
      <4>2. r.buffer[Slot(r.readpos, i - 1)] = g + 1 + (i - 1)
        BY <2>8, <4>1
      <4>3. Slot(r.readpos, i - 1) = r.readpos + i - 1
        BY <2>7, <4>1
      <4>4. g + 1 + (i - 1) = g + i
        BY <2>8
      <4> QED BY <4>2, <4>3, <4>4
    <3> QED BY <3>1
  <2>11. piece \in Seq(1..MaxIn) /\ Len(piece) = n
    <3>1. ASSUME NEW i \in 1..n PROVE piece[i] \in 1..MaxIn
      <4> HIDE DEF f, g, piece
      <4>1. g + i \in 1..MaxIn
        BY <2>8, <2>9, SizeOk
      <4> QED BY <2>10, <4>1
    <3>2. n \in Nat
      BY <2>2
    <3> QED BY <3>1, <3>2
  <2> HIDE DEF piece
  <2>12. got' \in Seq(1..MaxIn) /\ Len(got') = g + n
    <3>1. got' = got \o piece /\ got \in Seq(1..MaxIn)
      BY <1>1, <2>1
    <3>2. got' \in Seq(1..MaxIn) /\ Len(got') = Len(got) + Len(piece)
      BY <2>11, <3>1, ConcatProperties, Zenon
    <3> QED BY <2>11, <3>2
  <2>13. \A i \in 1..(g + n) : got'[i] = i
    <3>1. \A i \in 1..(g + n) : got'[i] = IF i <= g THEN got[i] ELSE piece[i - g]
      BY <1>1, <2>1, <2>11
    <3> HIDE DEF f, g
    <3>2. ASSUME NEW i \in 1..(g + n), i <= g PROVE got'[i] = i
      BY <2>8, <3>1, <3>2
    <3>3. ASSUME NEW i \in 1..(g + n), ~(i <= g) PROVE got'[i] = i
      <4>1. i - g \in 1..n /\ g + (i - g) = i
        BY <2>8, <3>3
      <4>2. got'[i] = piece[i - g]
        BY <3>1, <3>3
      <4> QED BY <2>10, <4>1, <4>2
    <3> QED BY <3>2, <3>3
  <2>14. ReaderTypes'
    <3>1. \/ r' = [r EXCEPT !.readpos = p]
          \/ r' = [r EXCEPT !.readpos = p, !.have_space = TRUE]
      BY <2>1
    <3>2. r' \in ReaderSet
      <4> HIDE DEF c1, f, g
      <4>1. [r EXCEPT !.readpos = p] \in ReaderSet
        BY <1>1, <2>5 DEF ReaderSet
      <4>2. [r EXCEPT !.readpos = p, !.have_space = TRUE] \in ReaderSet
        BY <1>1, <2>5 DEF ReaderSet
      <4> QED BY <3>1, <4>1, <4>2
    <3> QED BY <1>1, <2>1, <2>12, <3>2 DEF ReaderTypes
  <2>15. SpaceKept'
    <3>1. \A m \in Nat : Fits(r, m) => Fits(r', m)
      <4> HIDE DEF f
      <4>1. Fill(r) \in Nat /\ Fill(r') \in Nat /\ Fill(r') <= Fill(r)
        BY <2>3, <2>7, <2>8 DEF f
      <4> QED BY <1>1, <2>6, <4>1, SizeOk DEF Fits
    <3>2. r.room \in Nat /\ r.nread \in Nat
      BY <1>1, SizeOk DEF ReaderSet
    <3> QED BY <1>1, <2>6, <3>1, <3>2 DEF SpaceKept
  <2>16. BytesKept'
    <3>1. Arriving' = Arriving /\ input' = input
      BY <2>6 DEF Arriving
    <3>2. Len(got') + Fill(r') = input' - Arriving'
      <4>1. Len(got') = g + n /\ Fill(r') = f - n
        BY <2>7, <2>12
      <4> HIDE DEF f, g
      <4>2. (g + n) + (f - n) = g + f
        BY <2>8
      <4> QED BY <2>8, <3>1, <4>1, <4>2
    <3>3. ASSUME NEW i \in 0..(Fill(r') - 1)
          PROVE  r'.buffer[Slot(r'.readpos, i)] = Len(got') + 1 + i
      <4>1. i \in 0..(f - n - 1)
        BY <2>7
      <4>2. Slot(r'.readpos, i) = Slot(r.readpos, n + i)
        BY <2>7, <4>1
      <4>3. Len(got') = g + n
        BY <2>12
      <4> HIDE DEF f, g
      <4>4. n + i \in 0..(f - 1) /\ g + 1 + (n + i) = g + n + 1 + i
        BY <2>8, <4>1
      <4>5. r.buffer[Slot(r.readpos, n + i)] = g + 1 + (n + i)
        BY <2>8, <4>4
      <4> QED BY <2>6, <4>2, <4>3, <4>4, <4>5
    <3>4. \A i \in 1..Len(got') : got'[i] = i
      BY <2>12, <2>13
    <3> QED BY <3>2, <3>3, <3>4 DEF BytesKept
  <2>17. ReaderFlags'
    <3>1. /\ prog' = "r_reset" => r'.readpos = r'.writepos
          /\ prog' = "idle" => r'.readpos # r'.writepos \/ r.eof
          /\ prog' \in {"idle", "r_reset"}
      <4>1. R!Empty(c1) <=> p = r.writepos
        BY <1>1 DEF ReaderSet, R!Empty
      <4> QED BY <2>1, <2>6, <4>1
    <3>2. r.readpos # r.writepos
      BY <1>3 DEF R!Empty
    <3> QED BY <1>1, <2>6, <2>6a, <3>1, <3>2 DEF ReaderFlags, Closing, Ended
  <2> QED BY <2>14, <2>15, <2>16, <2>17
<1> QED BY <1>2, <1>3

LEMMA ReadStep == ASSUME RInv, NEW count \in 1..B, R!Read(count) PROVE RInv'
<1> DEFINE cp == R!Ready(r)
<1>1. prog = "idle" /\ UNCHANGED input
  BY DEF R!Read
<1>2. cp = IF r.at = "none" THEN R!create_reader ELSE r
  BY DEF R!Ready
<1>3. R!create_reader.eof_shortcut = FALSE /\ R!create_reader.error = FALSE /\ R!Empty(R!create_reader)
  BY DEF R!create_reader, R!NoReader, R!Empty
<1> HIDE DEF cp
<1>4. CASE cp.eof_shortcut
  <2>1. r.at # "none" /\ UNCHANGED <<prog, r, got>> /\ result' = "eof"
    BY <1>2, <1>3, <1>4 DEF R!Read, cp
  <2>2. r' = R!Ready(r)
    BY <2>1 DEF R!Ready
  <2> QED BY <1>1, <2>1, <2>2, ReadyStep
<1>5. CASE ~cp.eof_shortcut /\ R!Empty(cp) /\ ~cp.error
  <2>1. /\ r' = cp /\ UNCHANGED got /\ prog' \in {"idle", "r_wait"}
        /\ result' = "EAGAIN" \/ result' = result
    BY <1>1, <1>5 DEF R!Read, cp
  <2>2. result' \in {"none", "data", "eof", "error", "EAGAIN"}
    BY <2>1 DEF RInv, ReaderTypes
  <2> QED BY <1>1, <2>1, <2>2, ReadyStep DEF cp
<1>6. CASE ~cp.eof_shortcut /\ ~(R!Empty(cp) /\ ~cp.error)
  <2>1. R!Take(cp, count)
    BY <1>6 DEF R!Read, cp
  <2>2. r.at # "none" /\ cp = r
    BY <1>2, <1>3, <1>6
  <2>3. R!Take(r, count)
    BY <2>1, <2>2
  <2> QED BY <1>1, <2>2, <2>3, TakeStep
<1> QED BY <1>4, <1>5, <1>6

LEMMA ReadWakeStep == ASSUME RInv, NEW count \in 1..B, R!ReadWake(count) PROVE RInv'
<1>1. prog = "r_wait" /\ R!Take(r, count) /\ UNCHANGED input
  BY DEF R!ReadWake
<1>2. r.at # "none"
  BY <1>1 DEF RInv, ReaderFlags
<1> QED BY <1>1, <1>2, TakeStep

LEMMA ReadResetStep == ASSUME RInv, R!ReadReset PROVE RInv'
<1> USE DEF RInv, R!ReadReset
<1>1. ReaderTypes'
  BY DEF ReaderTypes, ReaderSet
<1>2. SpaceKept'
  BY DEF SpaceKept, ReaderTypes, ReaderSet, Fits, Fill
<1>3. BytesKept'
  BY BytesSame DEF SameRing, Arriving, ReaderTypes, ReaderSet
<1>4. ReaderFlags'
  BY DEF ReaderFlags, ReaderTypes, ReaderSet, Closing, Ended
<1> QED BY <1>1, <1>2, <1>3, <1>4

LEMMA DestroyStep == ASSUME RInv, DestroyReader \/ DestroyReaderClose PROVE RInv'
<1> USE DEF RInv
<1>1. CASE r.at = "none"
  <2>1. r' = r /\ UNCHANGED <<input, got, result>> /\ prog' \in Closing /\ prog # "r_reset"
    BY <1>1 DEF DestroyReader, DestroyReaderClose, R!StopReader, R!CloseReader, Closing
  <2> QED BY <2>1, ElsewhereStep DEF Elsewhere, readerVars, Closing
<1>2. CASE r.at # "none"
  <2>1. /\ r' = [r EXCEPT !.stop_me = TRUE, !.have_space = TRUE] \/ r' = [r EXCEPT !.close_ev = TRUE]
        /\ UNCHANGED <<input, got, result>> /\ prog' \in {"d_reader", "d_writer"}
    BY <1>2 DEF DestroyReader, DestroyReaderClose, R!StopReader, R!CloseReader
  <2>2. r \in ReaderSet
    BY DEF ReaderTypes
  <2>3. ReaderTypes'
    BY <2>1, <2>2, ZenonT(60) DEF ReaderTypes, ReaderSet
  <2>4. /\ r'.readpos = r.readpos /\ r'.writepos = r.writepos /\ r'.buffer = r.buffer
        /\ r'.at = r.at /\ r'.room = r.room /\ r'.nread = r.nread
        /\ r'.eof = r.eof /\ r'.error = r.error /\ r'.have_data = r.have_data
        /\ r'.stop_me = r.stop_me \/ r'.stop_me = TRUE
    BY <2>1, <2>2 DEF ReaderSet
  <2>5. SpaceKept'
    BY <2>1, <2>4 DEF SpaceKept, Fits, Fill
  <2>6. BytesKept'
    BY <2>1, <2>4, BytesSame DEF SameRing, Arriving, BytesKept
  <2>7. ReaderFlags'
    BY <1>2, <2>1, <2>4 DEF ReaderFlags, Closing, Ended
  <2> QED BY <2>3, <2>5, <2>6, <2>7
<1> QED BY <1>1, <1>2

LEMMA ReaderInitial == Init => RInv
<1> SUFFICES ASSUME Init PROVE RInv
  OBVIOUS
<1>1. r = R!NoReader /\ input = 0 /\ got = <<>> /\ result = "none" /\ prog = "idle"
  BY DEF Init
<1>2. r \in ReaderSet
  <2>1. 0 \in 0..(B - 1) /\ [i \in 0..(B - 1) |-> 0] \in [0..(B - 1) -> 0..MaxIn]
    BY SizeOk
  <2> QED BY <1>1, <2>1 DEF R!NoReader, ReaderSet, B
<1>3. ReaderTypes
  BY <1>1, <1>2, SizeOk DEF ReaderTypes
<1>4. SpaceKept
  BY <1>1 DEF SpaceKept, R!NoReader
<1>5. BytesKept
  <2>1. Fill(r) = 0 /\ Arriving = 0 /\ Len(got) = 0
    BY <1>1 DEF Fill, Arriving, R!NoReader
  <2> QED BY <1>1, <2>1 DEF BytesKept
<1>6. ReaderFlags
  BY <1>1 DEF ReaderFlags, R!NoReader, Closing, Ended
<1> QED BY <1>3, <1>4, <1>5, <1>6 DEF RInv

LEMMA ReaderInductive == RInv /\ [Next]_vars => RInv'
<1> SUFFICES ASSUME RInv, [Next]_vars PROVE RInv'
  OBVIOUS
<1>1. CASE R!ReaderThread
  BY <1>1, TopStep, SpaceStep, CallStep, ReturnsStep, GotStep, FailsStep, EndStep, CloseStep
  DEF R!ReaderThread
<1>2. CASE R!ReadCall
  BY <1>2, ReadStep, ReadWakeStep, ReadResetStep DEF R!ReadCall, B
<1>3. CASE W!WriterThread /\ UNCHANGED readerVars
  <2>1. UNCHANGED prog
    BY <1>3 DEF W!WriterThread, W!WriterTop, W!WriterWoken, W!WriterWrites, W!WriterWrote,
                W!WriterFails, W!WriterEnd, W!WriterClose, W!ThreadStep
  <2> QED BY <1>3, <2>1, ElsewhereStep DEF Elsewhere
<1>4. CASE W!WriteCall /\ UNCHANGED readerVars
  <2>1. prog' = prog \/ (prog \in {"idle", "w_reset", "w_wait"} /\ prog' \in {"idle", "w_reset", "w_wait"})
    BY <1>4 DEF W!WriteCall, W!Write, W!WriteReset, W!WriteWake
  <2> QED BY <1>4, <2>1, ElsewhereStep DEF Elsewhere, Closing
<1>5. CASE PollRead
  <2>1. prog = "idle" /\ r' = R!Ready(r) /\ prog' \in {"idle", "poll"} /\ UNCHANGED <<input, got, result>>
    BY <1>5 DEF PollRead
  <2> QED BY <2>1, ReadyStep DEF RInv, ReaderTypes
<1>6. CASE SetNonblock \/ PollReadWake \/ PollTimeout \/ PollWrite
  BY <1>6, ElsewhereStep
  DEF SetNonblock, PollReadWake, PollTimeout, PollWrite, Elsewhere, Closing, readerVars
<1>7. CASE DestroyReader \/ DestroyReaderClose
  BY <1>7, DestroyStep
<1>8. CASE DestroyWriter \/ DestroyWriterClose
  BY <1>8, ElsewhereStep DEF DestroyWriter, DestroyWriterClose, Elsewhere, Closing
<1>9. CASE UNCHANGED vars
  BY <1>9, ElsewhereStep DEF vars, Elsewhere, readerVars
<1> QED
  BY <1>1, <1>2, <1>3, <1>4, <1>5, <1>6, <1>7, <1>8, <1>9 DEF Next, Close

-----------------------------------------------------------------------------
(* The steps of the writer's thread. *)

LEMMA SizesOk == WRITEBUF_SIZE \in Nat \ {0} /\ MaxOut \in Nat /\ ShortWrites \in BOOLEAN
  BY WriterAssumption

\* A step that leaves the buffer and what is still to be written alone.
SameBuffer ==
  /\ w'.buffer = w.buffer /\ w'.nbytes = w.nbytes /\ w'.nwritten = w.nwritten
  /\ (w'.at = "wrote") = (w.at = "wrote") /\ UNCHANGED <<output, written>>

LEMMA OutSame == ASSUME OutKept, SameBuffer PROVE OutKept'
<1>1. Pending' = Pending
  BY DEF SameBuffer, Pending
<1> QED BY <1>1 DEF OutKept, SameBuffer

LEMMA WriterTopStep == ASSUME WInv, W!WriterTop PROVE WInv'
<1> USE DEF WInv, W!WriterTop, W!ThreadStep
<1>1. WriterTypes'
  BY DEF WriterTypes, WriterSet
<1>2. OutKept'
  BY OutSame DEF SameBuffer, WriterTypes, WriterSet
<1>3. w.nbytes \in Nat
  BY SizesOk DEF WriterTypes, WriterSet
<1>4. WriterFlags'
  BY <1>3 DEF WriterFlags, WriterTypes, WriterSet, Ended
<1> QED BY <1>1, <1>2, <1>4

LEMMA WokenStep == ASSUME WInv, W!WriterWoken PROVE WInv'
<1> USE DEF WInv, W!WriterWoken, W!ThreadStep
<1>1. WriterTypes'
  BY DEF WriterTypes, WriterSet
<1>2. OutKept'
  BY OutSame DEF SameBuffer, WriterTypes, WriterSet
<1>3. w.nbytes \in Nat
  BY SizesOk DEF WriterTypes, WriterSet
<1>4. WriterFlags'
  BY <1>3 DEF WriterFlags, WriterTypes, WriterSet, Ended
<1> QED BY <1>1, <1>2, <1>4

LEMMA FrontPart ==
  ASSUME NEW S, NEW s \in Seq(S), NEW n \in 1..Len(s)
  PROVE  /\ SubSeq(s, 1, n) \in Seq(S) /\ Len(SubSeq(s, 1, n)) = n
         /\ \A i \in 1..n : SubSeq(s, 1, n)[i] = s[i]
  OBVIOUS

LEMMA WritesStep == ASSUME WInv, NEW n \in 0..WRITEBUF_SIZE, W!WriterWrites(n) PROVE WInv'
<1> USE DEF WInv
<1> DEFINE piece == SubSeq(w.buffer, 1, n)
<1>1. /\ w.at = "call" /\ output' = output \o piece
      /\ w' = [w EXCEPT !.nwritten = n, !.at = "wrote"] /\ UNCHANGED <<prog, written, outcome>>
      /\ ~ShortWrites => n = w.nbytes
  BY DEF W!WriterWrites, W!ThreadStep
<1>2. /\ w \in WriterSet /\ w.buffer \in Seq(1..MaxOut) /\ output \in Seq(1..MaxOut)
      /\ w.nbytes \in 0..WRITEBUF_SIZE /\ w.nbytes > 0 /\ w.nbytes <= Len(w.buffer)
  BY <1>1 DEF WriterTypes, WriterSet, OutKept, WriterFlags
<1>3. n \in 1..w.nbytes
  BY <1>2 DEF W!WriterWrites
<1>4. /\ piece \in Seq(1..MaxOut) /\ Len(piece) = n
      /\ \A i \in 1..n : piece[i] = w.buffer[i]
  <2>1. n \in 1..Len(w.buffer)
    BY <1>2, <1>3, SizesOk
  <2> QED BY <1>2, <2>1, FrontPart
<1> HIDE DEF piece
<1>5. /\ output' \in Seq(1..MaxOut) /\ Len(output') = Len(output) + n
      /\ \A i \in 1..(Len(output) + n) :
           output'[i] = IF i <= Len(output) THEN output[i] ELSE piece[i - Len(output)]
  <2> DEFINE all == output \o piece
  <2>1. /\ all \in Seq(1..MaxOut) /\ Len(all) = Len(output) + Len(piece)
        /\ \A i \in 1..(Len(output) + Len(piece)) :
             all[i] = IF i <= Len(output) THEN output[i] ELSE piece[i - Len(output)]
    BY <1>2, <1>4, ConcatProperties, ZenonT(60)
  <2>2. output' = all /\ Len(piece) = n
    BY <1>1, <1>4
  <2> HIDE DEF all
  <2> QED BY <2>1, <2>2
<1>6. /\ w'.at = "wrote" /\ w'.nwritten = n /\ w'.nbytes = w.nbytes /\ w'.buffer = w.buffer
  BY <1>1, <1>2 DEF WriterSet
<1>7. WriterTypes'
  <2>1. w' \in WriterSet
    BY <1>1, <1>2 DEF WriterSet
  <2> QED BY <1>1, <1>5, <2>1 DEF WriterTypes
<1> DEFINE g == Len(output)
           m == w.nbytes
<1>8. g \in Nat /\ m \in Nat /\ n \in Nat /\ g + m = written /\ Pending' = m - n
  BY <1>1, <1>2, <1>3, <1>6, SizesOk DEF OutKept, Pending
<1>9. OutKept'
  <2>1. (Len(output) + Pending = written)'
    <3>1. (g + n) + (m - n) = written /\ Len(output') = g + n /\ written' = written
      BY <1>1, <1>5, <1>8
    <3> HIDE DEF g, m
    <3> QED BY <1>8, <3>1
  <2>2. ASSUME ~ShortWrites, NEW i \in 1..(g + n) PROVE output'[i] = i
    <3>1. /\ n = m /\ \A j \in 1..g : output[j] = j
          /\ \A j \in 1..m : w.buffer[j] = written - m + j
      BY <1>1, <2>2 DEF OutKept
    <3>2. output'[i] = IF i <= g THEN output[i] ELSE piece[i - g]
      BY <1>5
    <3> HIDE DEF g, m
    <3>3. CASE i <= g
      BY <1>8, <3>1, <3>2, <3>3
    <3>4. CASE ~(i <= g)
      <4>1. i - g \in 1..n /\ i - g \in 1..m
        BY <1>8, <3>1, <3>4
      <4>2. piece[i - g] = written - m + (i - g)
        BY <1>4, <3>1, <4>1
      <4>3. written - m + (i - g) = i
        BY <1>8, <4>1
      <4> QED BY <3>2, <3>4, <4>2, <4>3
    <3> QED BY <3>3, <3>4
  <2>3. ~ShortWrites => \A i \in 1..Len(output') : output'[i] = i
    BY <1>5, <2>2
  <2> QED BY <1>1, <1>2, <1>6, <2>1, <2>3 DEF OutKept
<1>10. WriterFlags'
  BY <1>1, <1>2, <1>3, <1>6 DEF WriterFlags, WriterSet, Ended
<1> QED BY <1>7, <1>9, <1>10

LEMMA WroteStep == ASSUME WInv, W!WriterWrote PROVE WInv'
<1> USE DEF WInv
<1>1. /\ w.at = "wrote" /\ w' = [w EXCEPT !.nbytes = w.nbytes - w.nwritten, !.at = "top"]
      /\ UNCHANGED <<prog, written, outcome, output>>
  BY DEF W!WriterWrote, W!ThreadStep
<1>2. /\ w \in WriterSet /\ w.nbytes \in Nat /\ w.nwritten \in 1..w.nbytes
      /\ w.nbytes \in 0..WRITEBUF_SIZE
  BY <1>1, SizesOk DEF WriterTypes, WriterSet, WriterFlags
<1>3. /\ w'.at = "top" /\ w'.nbytes = w.nbytes - w.nwritten /\ w'.buffer = w.buffer
      /\ w'.stop_me = w.stop_me /\ w'.error = w.error /\ w'.is_empty = w.is_empty
  BY <1>1, <1>2 DEF WriterSet
<1>4. w.nbytes - w.nwritten \in 0..WRITEBUF_SIZE /\ w.nbytes - w.nwritten < w.nbytes
  BY <1>2, SizesOk
<1>5. WriterTypes'
  <2>1. w' \in WriterSet
    BY <1>1, <1>2, <1>4 DEF WriterSet
  <2> QED BY <1>1, <2>1 DEF WriterTypes
<1>6. OutKept'
  <2>1. Pending' = Pending
    BY <1>1, <1>3 DEF Pending
  <2>2. w'.nbytes <= Len(w'.buffer)
    <3>1. w.nbytes <= Len(w.buffer) /\ Len(w.buffer) \in Nat
      BY <1>2 DEF OutKept, WriterSet
    <3> QED BY <1>2, <1>3, <1>4, <3>1
  <2>3. ~ShortWrites => w'.nbytes = 0
    BY <1>1, <1>2, <1>3 DEF OutKept
  <2>4. ~ShortWrites => \A i \in 1..w'.nbytes : w'.buffer[i] = written' - w'.nbytes + i
    BY <2>3
  <2> QED BY <1>1, <1>3, <2>1, <2>2, <2>4 DEF OutKept
<1>7. WriterFlags'
  BY <1>1, <1>2, <1>3, <1>4 DEF WriterFlags, Ended
<1> QED BY <1>5, <1>6, <1>7

LEMMA WriteFailsStep == ASSUME WInv, NEW how \in WriteFaults, W!WriterFails(how) PROVE WInv'
<1> USE DEF WInv, W!WriterFails, W!ThreadStep
<1>1. WriterTypes'
  BY DEF WriterTypes, WriterSet
<1>2. OutKept'
  BY OutSame DEF SameBuffer, WriterTypes, WriterSet
<1>3. w.nbytes \in Nat
  BY SizesOk DEF WriterTypes, WriterSet
<1>4. WriterFlags'
  BY <1>3 DEF WriterFlags, WriterTypes, WriterSet, Ended
<1> QED BY <1>1, <1>2, <1>4

LEMMA WriterEndStep == ASSUME WInv, W!WriterEnd \/ W!WriterClose PROVE WInv'
<1> USE DEF WInv, W!WriterEnd, W!WriterClose, W!ThreadStep
<1>1. WriterTypes'
  BY DEF WriterTypes, WriterSet
<1>2. OutKept'
  BY OutSame DEF SameBuffer, WriterTypes, WriterSet
<1>3. w.nbytes \in Nat
  BY SizesOk DEF WriterTypes, WriterSet
<1>4. WriterFlags'
  BY <1>3, ZenonT(60) DEF WriterFlags, WriterTypes, WriterSet, Ended
<1> QED BY <1>1, <1>2, <1>4

-----------------------------------------------------------------------------
(* The calls of the program, and the writer while something else goes on. *)

WriterElsewhere ==
  /\ UNCHANGED writerVars
  /\ \/ prog' = prog
     \/ prog \notin {"d_wait", "closed"} /\ prog' \notin {"w_wait", "w_reset", "closed"}

LEMMA WriterElsewhereStep == ASSUME WInv, WriterElsewhere PROVE WInv'
<1> USE DEF WInv, WriterElsewhere, writerVars
<1>1. WriterTypes'
  BY DEF WriterTypes
<1>2. OutKept'
  BY OutSame DEF SameBuffer
<1>3. WriterFlags'
  BY DEF WriterFlags
<1> QED BY <1>1, <1>2, <1>3

LEMMA NoWriterOk ==
  /\ W!NoWriter \in WriterSet /\ W!NoWriter.nbytes = 0 /\ W!NoWriter.at = "none"
  /\ ~W!NoWriter.error /\ ~W!NoWriter.stop_me
<1>1. <<>> \in Seq(1..MaxOut) /\ 0 \in 0..WRITEBUF_SIZE
  BY SizesOk
<1> QED BY <1>1 DEF W!NoWriter, WriterSet

LEMMA NewWriterOk ==
  /\ W!create_writer \in WriterSet /\ W!create_writer.nbytes = 0 /\ W!create_writer.at = "top"
  /\ ~W!create_writer.error /\ ~W!create_writer.stop_me
<1>1. W!create_writer = [W!NoWriter EXCEPT !.at = "top"]
  BY DEF W!create_writer
<1> QED BY <1>1, NoWriterOk DEF WriterSet

LEMMA PutStep ==
  ASSUME WInv, prog \in {"idle", "w_wait"}, prog' = "idle",
         NEW cp, cp = W!Ready(w), cp.error \/ cp.nbytes = 0,
         NEW count \in 1..(WRITEBUF_SIZE + 1), written + W!Lesser(count, WRITEBUF_SIZE) <= MaxOut,
         W!Put(cp, count), UNCHANGED output
  PROVE  WInv'
<1> USE DEF WInv
<1> DEFINE n == W!Lesser(count, WRITEBUF_SIZE)
<1>1. n \in 1..WRITEBUF_SIZE /\ n \in Nat
  BY SizesOk DEF W!Lesser
<1>2. /\ w \in WriterSet /\ written \in 0..MaxOut /\ output \in Seq(1..MaxOut) /\ ~w.stop_me
  BY DEF WriterTypes, WriterFlags
<1>3. /\ cp \in WriterSet /\ ~cp.stop_me /\ cp.at # "none" /\ cp.nbytes = w.nbytes /\ (cp.error <=> w.error)
      /\ cp.at = "wrote" <=> w.at = "wrote"
      /\ cp.nbytes = 0 => cp.at \notin {"call", "wrote"}
      /\ cp.at \in Ended => cp.error
  <2>1. CASE w.at = "none"
    <3>1. cp = W!create_writer /\ w.nbytes = 0 /\ ~w.error
      BY <1>2, <2>1, NoWriterOk DEF W!Ready, WriterFlags
    <3>2. /\ cp \in WriterSet /\ cp.nbytes = 0 /\ cp.at = "top" /\ ~cp.error /\ ~cp.stop_me
      BY <3>1, NewWriterOk
    <3> QED BY <2>1, <3>1, <3>2 DEF Ended
  <2>2. CASE w.at # "none"
    <3>1. cp = w
      BY <2>2 DEF W!Ready
    <3>2. w.nbytes = 0 => w.at \notin {"call", "wrote"}
      BY DEF WriterFlags
    <3> QED BY <1>2, <2>2, <3>1, <3>2 DEF WriterFlags
  <2> QED BY <2>1, <2>2
<1>4. CASE cp.error
  <2>1. w' = cp /\ outcome' = "error" /\ written' = written
    BY <1>4 DEF W!Put
  <2>2. w' = w
    <3>1. w.at # "none"
      BY <1>3, <1>4, NoWriterOk DEF WriterFlags
    <3> QED BY <2>1, <3>1 DEF W!Ready
  <2>3. WriterTypes'
    BY <2>1, <2>2 DEF WriterTypes
  <2>4. OutKept'
    BY <2>1, <2>2, OutSame DEF SameBuffer
  <2>5. WriterFlags'
    BY <2>2 DEF WriterFlags
  <2> QED BY <2>3, <2>4, <2>5
<1>5. CASE ~cp.error
  <2> DEFINE piece == [i \in 1..n |-> written + i]
  <2>1. /\ w' = [cp EXCEPT !.buffer = piece, !.nbytes = n, !.is_empty = FALSE, !.have_data = TRUE]
        /\ outcome' = "data" /\ written' = written + n /\ cp.nbytes = 0
    BY <1>5 DEF W!Put
  <2> HIDE DEF n
  <2>2. piece \in Seq(1..MaxOut) /\ Len(piece) = n /\ \A i \in 1..n : piece[i] = written + i
    <3>1. \A i \in 1..n : written + i \in 1..MaxOut
      BY <1>1, <1>2, SizesOk DEF n
    <3> QED BY <1>1, <3>1
  <2> HIDE DEF piece
  <2>3. /\ w'.at = cp.at /\ w'.buffer = piece /\ w'.nbytes = n /\ w'.error = cp.error
        /\ w'.stop_me = cp.stop_me /\ ~w'.is_empty
    BY <1>3, <2>1 DEF WriterSet
  <2>4. WriterTypes'
    <3>1. w' \in WriterSet
      <4>1. n \in 0..WRITEBUF_SIZE
        BY <1>1
      <4> QED BY <1>3, <2>1, <2>2, <4>1 DEF WriterSet
    <3>2. written' \in 0..MaxOut
      BY <1>1, <1>2, <2>1, SizesOk DEF n
    <3> QED BY <1>2, <2>1, <3>1, <3>2 DEF WriterTypes
  <2>5. OutKept'
    <3>1. w'.at # "wrote" /\ w.at # "wrote" /\ w.nbytes = 0
      BY <1>3, <2>1, <2>3
    <3>2. Pending' = n /\ Pending = 0
      BY <2>3, <3>1 DEF Pending
    <3>3. Len(output) = written
      <4>1. Len(output) + 0 = written /\ Len(output) \in Nat
        BY <1>2, <3>2 DEF OutKept
      <4> QED BY <4>1
    <3>4. Len(output') + Pending' = written'
      BY <2>1, <3>2, <3>3
    <3>5. \A i \in 1..n : written + i = written' - n + i
      BY <1>1, <1>2, <2>1, SizesOk
    <3>6. \A i \in 1..w'.nbytes : w'.buffer[i] = written' - w'.nbytes + i
      BY <2>2, <2>3, <3>5
    <3>7. w'.nbytes <= Len(w'.buffer)
      BY <1>1, <2>2, <2>3
    <3> QED BY <3>1, <3>4, <3>6, <3>7 DEF OutKept
  <2>6. WriterFlags'
    BY <1>1, <1>3, <1>5, <2>1, <2>3 DEF WriterFlags
  <2> QED BY <2>4, <2>5, <2>6
<1> QED BY <1>4, <1>5

LEMMA ProgWriteStep == ASSUME WInv, NEW count \in 1..(WRITEBUF_SIZE + 1), W!Write(count) PROVE WInv'
<1> DEFINE cp == W!Ready(w)
<1>1. /\ prog = "idle" /\ written + W!Lesser(count, WRITEBUF_SIZE) <= MaxOut /\ UNCHANGED output
  BY DEF W!Write
<1>2. CASE ~cp.error /\ cp.nbytes # 0
  <2>1. prog' = "w_reset" /\ UNCHANGED <<w, written, outcome>>
    BY <1>2 DEF W!Write
  <2>2. w.at # "none"
    BY <1>2, NewWriterOk DEF W!Ready
  <2>3. WriterTypes'
    BY <1>1, <2>1 DEF WInv, WriterTypes
  <2>4. OutKept'
    BY <1>1, <2>1, OutSame DEF WInv, SameBuffer
  <2>5. WriterFlags'
    BY <1>1, <2>1, <2>2 DEF WInv, WriterFlags
  <2> QED BY <2>3, <2>4, <2>5 DEF WInv
<1>3. CASE ~(~cp.error /\ cp.nbytes # 0)
  <2>1. W!Put(cp, count) /\ prog' = prog
    BY <1>3 DEF W!Write
  <2> HIDE DEF cp
  <2>2. cp = W!Ready(w)
    BY DEF cp
  <2> QED BY <1>1, <1>3, <2>1, <2>2, PutStep
<1> QED BY <1>2, <1>3

LEMMA WriteWakeStep ==
  ASSUME WInv, NEW count \in 1..(WRITEBUF_SIZE + 1), W!WriteWake(count) PROVE WInv'
<1>1. /\ prog = "w_wait" /\ w.is_empty /\ prog' = "idle" /\ UNCHANGED output
      /\ written + W!Lesser(count, WRITEBUF_SIZE) <= MaxOut /\ W!Put(w, count)
  BY DEF W!WriteWake
<1>2. w = W!Ready(w) /\ (w.error \/ w.nbytes = 0)
  BY <1>1 DEF WInv, WriterFlags, W!Ready
<1> QED BY <1>1, <1>2, PutStep

LEMMA WriteResetStep == ASSUME WInv, W!WriteReset PROVE WInv'
<1> USE DEF WInv, W!WriteReset
<1>1. WriterTypes'
  BY DEF WriterTypes, WriterSet
<1>2. OutKept'
  BY OutSame DEF SameBuffer, WriterTypes, WriterSet
<1>3. WriterFlags'
  BY DEF WriterFlags, WriterTypes, WriterSet, Ended
<1> QED BY <1>1, <1>2, <1>3

LEMMA PollWriteStep == ASSUME WInv, PollWrite PROVE WInv'
<1> USE DEF WInv
<1>1. /\ w' = W!create_writer /\ prog' = "idle" /\ UNCHANGED <<written, output, outcome>>
      /\ w.nbytes = 0 /\ w.at = "none"
  BY NoWriterOk DEF PollWrite, WriterFlags
<1>2. w' \in WriterSet /\ w'.nbytes = 0 /\ ~w'.error /\ ~w'.stop_me /\ w'.at = "top"
  BY <1>1, NewWriterOk
<1>3. WriterTypes'
  BY <1>1, <1>2 DEF WriterTypes
<1>4. OutKept'
  <2>1. Pending' = Pending
    BY <1>1, <1>2 DEF Pending
  <2>2. 0 <= Len(w'.buffer) /\ \A i \in 1..0 : w'.buffer[i] = written' - 0 + i
    BY <1>2 DEF WriterSet
  <2> QED BY <1>1, <1>2, <2>1, <2>2 DEF OutKept
<1>5. WriterFlags'
  BY <1>1, <1>2 DEF WriterFlags, Ended
<1> QED BY <1>3, <1>4, <1>5

LEMMA WriterDestroyStep == ASSUME WInv, DestroyWriter \/ DestroyWriterClose PROVE WInv'
<1> USE DEF WInv, DestroyWriter, DestroyWriterClose, W!StopWriter, W!CloseWriter, W!WriterFlushed
<1>1. WriterTypes'
  BY ZenonT(60) DEF WriterTypes, WriterSet
<1>2. OutKept'
  BY OutSame DEF SameBuffer, WriterTypes, WriterSet
<1>3. WriterFlags'
  <2>1. CASE w.at = "none"
    BY <2>1, NoWriterOk DEF WriterFlags
  <2>2. CASE w.at # "none" /\ DestroyWriter
    BY <2>2 DEF WriterFlags, WriterTypes, WriterSet, Ended
  <2>3. CASE w.at # "none" /\ DestroyWriterClose
    BY <2>3 DEF WriterFlags, WriterTypes, WriterSet, Ended
  <2> QED BY <2>1, <2>2, <2>3
<1> QED BY <1>1, <1>2, <1>3

LEMMA WriterInitial == Init => WInv
<1> SUFFICES ASSUME Init PROVE WInv
  OBVIOUS
<1>1. w = W!NoWriter /\ written = 0 /\ output = <<>> /\ outcome = "none" /\ prog = "idle"
  BY DEF Init
<1>3. w \in WriterSet /\ w.nbytes = 0 /\ ~w.error /\ ~w.stop_me /\ w.at = "none"
  BY <1>1, NoWriterOk
<1>4. WriterTypes
  BY <1>1, <1>3, SizesOk DEF WriterTypes
<1>5. OutKept
  <2>1. Pending = 0 /\ Len(output) = 0 /\ 0 <= Len(w.buffer)
    BY <1>1, <1>3 DEF Pending, WriterSet
  <2> QED BY <1>1, <1>3, <2>1 DEF OutKept
<1>6. WriterFlags
  BY <1>1, <1>3 DEF WriterFlags, Ended
<1> QED BY <1>4, <1>5, <1>6 DEF WInv

LEMMA WriterInductive == WInv /\ [Next]_vars => WInv'
<1> SUFFICES ASSUME WInv, [Next]_vars PROVE WInv'
  OBVIOUS
<1>1. CASE W!WriterThread
  BY <1>1, WriterTopStep, WokenStep, WritesStep, WroteStep, WriteFailsStep, WriterEndStep
  DEF W!WriterThread
<1>2. CASE W!WriteCall
  BY <1>2, ProgWriteStep, WriteWakeStep, WriteResetStep DEF W!WriteCall
<1>3. CASE R!ReaderThread /\ UNCHANGED writerVars
  <2>1. UNCHANGED prog
    BY <1>3 DEF R!ReaderThread, R!ReaderTop, R!ReaderSpace, R!ReaderCall, R!ReaderReturns,
                R!ReaderGot, R!ReaderFails, R!ReaderEnd, R!ReaderClose, R!ThreadStep
  <2> QED BY <1>3, <2>1, WriterElsewhereStep DEF WriterElsewhere
<1>4. CASE R!ReadCall /\ UNCHANGED writerVars
  <2>1. /\ prog \in {"idle", "r_wait", "r_reset"}
        /\ prog' = prog \/ prog' \in {"idle", "r_wait", "r_reset"}
    BY <1>4, ZenonT(60) DEF R!ReadCall, R!Read, R!ReadWake, R!ReadReset, R!Take
  <2> QED BY <1>4, <2>1, WriterElsewhereStep, SMTT(60) DEF WriterElsewhere
<1>5. CASE PollWrite
  BY <1>5, PollWriteStep
<1>6. CASE SetNonblock \/ PollRead \/ PollReadWake \/ PollTimeout
  BY <1>6, WriterElsewhereStep
  DEF SetNonblock, PollRead, PollReadWake, PollTimeout, WriterElsewhere, writerVars
<1>7. CASE DestroyReader \/ DestroyReaderClose
  BY <1>7, WriterElsewhereStep DEF DestroyReader, DestroyReaderClose, WriterElsewhere
<1>8. CASE DestroyWriter \/ DestroyWriterClose
  BY <1>8, WriterDestroyStep
<1>9. CASE UNCHANGED vars
  BY <1>9, WriterElsewhereStep DEF vars, WriterElsewhere, writerVars
<1> QED
  BY <1>1, <1>2, <1>3, <1>4, <1>5, <1>6, <1>7, <1>8, <1>9 DEF Next, Close

-----------------------------------------------------------------------------
(* What the two invariants say of the program. *)

LEMMA NumbersInARow ==
  ASSUME NEW S, NEW s \in Seq(S), NEW t \in Seq(S), NEW n \in Nat, Len(s) + Len(t) = n,
         \A i \in 1..Len(s) : s[i] = i, \A i \in 1..Len(t) : t[i] = Len(s) + i
  PROVE  s \o t = [i \in 1..n |-> i]
<1> DEFINE u == s \o t
<1>1. /\ u \in Seq(S) /\ Len(u) = n
      /\ \A i \in 1..n : u[i] = IF i <= Len(s) THEN s[i] ELSE t[i - Len(s)]
  BY ConcatProperties
<1>2. ASSUME NEW i \in 1..n PROVE u[i] = i
  <2>1. CASE i <= Len(s)
    BY <1>1, <2>1
  <2>2. CASE ~(i <= Len(s))
    <3>1. i - Len(s) \in 1..Len(t) /\ Len(s) + (i - Len(s)) = i
      BY <2>2
    <3> QED BY <1>1, <2>2, <3>1
  <2> QED BY <2>1, <2>2
<1> HIDE DEF u
<1>3. u = [i \in 1..n |-> u[i]]
  BY <1>1
<1>4. u = [i \in 1..n |-> i]
  BY <1>2, <1>3
<1> QED BY <1>4 DEF u

LEMMA RingInOrder == RInv => RingKeepsBytes
<1> SUFFICES ASSUME RInv, ~r.stop_me PROVE got \o InRing = [i \in 1..(input - Arriving) |-> i]
  BY DEF RingKeepsBytes
<1> DEFINE f == Fill(r)
           g == Len(got)
<1>1. /\ r \in ReaderSet /\ r.readpos \in 0..(B - 1) /\ got \in Seq(1..MaxIn)
      /\ r.buffer \in [0..(B - 1) -> 0..MaxIn]
  BY DEF RInv, ReaderTypes, ReaderSet
<1>2. /\ g + f = input - Arriving /\ \A i \in 1..g : got[i] = i
      /\ \A i \in 0..(f - 1) : r.buffer[Slot(r.readpos, i)] = g + 1 + i
  BY DEF RInv, BytesKept
<1>3. f \in 0..(B - 1) /\ Wrap(r.writepos + B - r.readpos) = f /\ g \in Nat /\ f \in Nat
  BY <1>1, FillMod
<1> HIDE DEF f, g
<1>4. InRing = [i \in 1..f |-> r.buffer[Wrap(r.readpos + i - 1)]]
  BY <1>3 DEF InRing, Wrap, B
<1>5. ASSUME NEW i \in 1..f PROVE InRing[i] = g + i
  <2>1. i - 1 \in 0..(B - 1) /\ i - 1 \in 0..(f - 1) /\ r.readpos + (i - 1) = r.readpos + i - 1
    BY <1>1, <1>3, SizeOk
  <2>2. Wrap(r.readpos + (i - 1)) = Slot(r.readpos, i - 1)
    BY <1>1, <2>1, SlotMod
  <2>3. r.buffer[Slot(r.readpos, i - 1)] = g + 1 + (i - 1)
    BY <1>2, <2>1
  <2>4. g + 1 + (i - 1) = g + i
    BY <1>3
  <2> QED BY <1>4, <2>1, <2>2, <2>3, <2>4
<1>6. input - Arriving \in 0..MaxIn
  <2>1. Arriving \in Nat /\ input \in 0..MaxIn
    BY SizeOk DEF Arriving, RInv, ReaderTypes, ReaderSet
  <2> QED BY <1>2, <1>3, <2>1, SizeOk
<1>7. InRing \in Seq(1..MaxIn) /\ Len(InRing) = f
  <2>1. \A i \in 1..f : g + i \in 1..MaxIn
    BY <1>2, <1>3, <1>6, SizeOk
  <2>2. \A i \in 1..f : r.buffer[Wrap(r.readpos + i - 1)] \in 1..MaxIn
    BY <1>4, <1>5, <2>1
  <2> QED BY <1>3, <1>4, <2>2
<1> HIDE DEF InRing
<1>8. /\ Len(got) = g /\ Len(got) + Len(InRing) = input - Arriving /\ input - Arriving \in Nat
      /\ \A i \in 1..Len(got) : got[i] = i
      /\ \A i \in 1..Len(InRing) : InRing[i] = Len(got) + i
  BY <1>2, <1>5, <1>6, <1>7 DEF g
<1> DEFINE n == input - Arriving
           S == 1..MaxIn
<1>9. got \in Seq(S) /\ InRing \in Seq(S) /\ n \in Nat /\ Len(got) + Len(InRing) = n
  BY <1>1, <1>7, <1>8
<1> HIDE DEF n, S
<1>10. /\ \A i \in 1..Len(got) : got[i] = i
       /\ \A i \in 1..Len(InRing) : InRing[i] = Len(got) + i
  BY <1>8
<1>11. got \o InRing = [i \in 1..n |-> i]
  BY <1>9, <1>10, NumbersInARow
<1> QED BY <1>11 DEF n

LEMMA WriterInOrder == WInv => WriterKeepsBytes
<1> SUFFICES ASSUME WInv, ~ShortWrites
             PROVE  \/ w.at = "wrote" /\ output = [i \in 1..written |-> i]
                    \/ w.at # "wrote" /\ output = [i \in 1..(written - w.nbytes) |-> i]
  BY DEF WriterKeepsBytes
<1>1. /\ output \in Seq(1..MaxOut) /\ written \in Nat /\ w.nbytes \in Nat
      /\ \A i \in 1..Len(output) : output[i] = i
  BY SizesOk DEF WInv, WriterTypes, WriterSet, OutKept
<1>2. Len(output) + Pending = written /\ (w.at = "wrote" => w.nwritten = w.nbytes)
  BY DEF WInv, OutKept
<1>3. output = [i \in 1..Len(output) |-> i]
  <2>1. output = [i \in 1..Len(output) |-> output[i]]
    BY <1>1
  <2> QED BY <1>1, <2>1
<1>4. Len(output) \in Nat
  BY <1>1
<1>5. CASE w.at = "wrote"
  <2>1. Pending = 0
    BY <1>1, <1>2, <1>5 DEF Pending
  <2>2. Len(output) = written
    BY <1>1, <1>2, <1>4, <2>1
  <2> QED BY <1>3, <1>5, <2>2
<1>6. CASE w.at # "wrote"
  <2>1. Pending = w.nbytes
    BY <1>6 DEF Pending
  <2>2. Len(output) = written - w.nbytes
    BY <1>1, <1>2, <1>4, <2>1
  <2> QED BY <1>3, <1>6, <2>2
<1> QED BY <1>5, <1>6

LEMMA CloseOk == WInv => CloseFlushes
<1> SUFFICES ASSUME WInv, prog = "closed", ~w.error PROVE Len(output) = written
  BY DEF CloseFlushes
<1>1. w.nbytes = 0 /\ w.at # "wrote"
  BY SizesOk DEF WInv, WriterFlags, WriterTypes, WriterSet
<1>2. Len(output) \in Nat /\ Len(output) + 0 = written
  BY <1>1, SMTT(60) DEF WInv, OutKept, Pending, WriterTypes
<1> QED BY <1>2

ProgTypes ==
  /\ prog \in {"idle", "r_wait", "r_reset", "w_reset", "w_wait", "poll",
               "d_reader", "d_writer", "d_wait", "closed"}
  /\ nonblock \in BOOLEAN

LEMMA ProgInductive == ProgTypes /\ [Next]_vars => ProgTypes'
  BY ZenonT(60) DEF ProgTypes, Next, vars, readerVars, writerVars, SetNonblock, PollRead, PollReadWake,
         PollTimeout, PollWrite, Close, DestroyReader, DestroyReaderClose, DestroyWriter,
         DestroyWriterClose,
         R!ReaderThread, R!ReaderTop, R!ReaderSpace, R!ReaderCall, R!ReaderReturns,
         R!ReaderGot, R!ReaderFails, R!ReaderEnd, R!ReaderClose, R!ThreadStep,
         R!ReadCall, R!Read, R!ReadWake, R!ReadReset, R!Take,
         W!WriterThread, W!WriterTop, W!WriterWoken, W!WriterWrites, W!WriterWrote,
         W!WriterFails, W!WriterEnd, W!WriterClose, W!ThreadStep,
         W!WriteCall, W!Write, W!WriteReset, W!WriteWake

PipesInv == RInv /\ WInv /\ ProgTypes

LEMMA InvKeepsBytes == PipesInv => PipesKeepBytes
<1> SUFFICES ASSUME PipesInv PROVE PipesKeepBytes
  OBVIOUS
<1>1. PipeTypes
  BY DEF PipesInv, RInv, WInv, ProgTypes, ReaderTypes, ReaderSet, WriterTypes, WriterSet, PipeTypes, B
<1>2. HaveDataExact
  BY DEF PipesInv, RInv, ReaderFlags, Closing, HaveDataExact, R!Empty
<1>3. IsEmptyTrue
  BY DEF PipesInv, WInv, WriterFlags, IsEmptyTrue
<1> QED
  BY <1>1, <1>2, <1>3, RingInOrder, WriterInOrder, CloseOk DEF PipesInv, PipesKeepBytes

\* Both halves of a pollable stream keep the bytes and tell the truth with their events, for every
\* size of the ring and the buffer, and whatever way reader, writer and the program's calls
\* (func_w32_pollable_read, func_w32_pollable_write, the poll, the close) interleave.
THEOREM PipesKeep == Spec => []PipesKeepBytes
<1>1. Init => PipesInv
  BY ReaderInitial, WriterInitial DEF PipesInv, Init, ProgTypes
<1>2. PipesInv /\ [Next]_vars => PipesInv'
  BY ReaderInductive, WriterInductive, ProgInductive DEF PipesInv
<1> QED
  BY <1>1, <1>2, InvKeepsBytes, PTL DEF Spec

LEMMA TakeEndsTruly ==
  ASSUME RInv, prog \in {"idle", "r_wait"}, NEW count \in 1..B, R!Take(r, count),
         result' = "eof", R!Empty(r) => r.error \/ r.eof
  PROVE  r.eof /\ Len(got) = input
<1>1. (R!Empty(r) \/ r.error) /\ ~(r.error /\ ~r.eof)
  BY DEF R!Take
<1>2. r.eof /\ ~r.error /\ ~r.stop_me /\ r.at \in Ended
  BY <1>1 DEF RInv, ReaderFlags, Closing
<1>3. R!Empty(r) /\ r \in ReaderSet
  BY <1>1, <1>2 DEF RInv, ReaderTypes
<1>4. Fill(r) = 0 /\ Arriving = 0
  BY <1>2, <1>3, FillMod DEF Arriving, Ended
<1>5. Len(got) \in Nat /\ Len(got) + 0 = input - 0 /\ input \in Int
  BY <1>2, <1>4 DEF RInv, BytesKept, ReaderTypes
<1> QED BY <1>2, <1>5

LEMMA EofIsTrue ==
  PipesInv /\ [Next]_vars /\ result' = "eof" /\ result' # result /\ ~r.eof_shortcut
    => r.eof /\ Len(got) = input
<1> SUFFICES ASSUME RInv, [Next]_vars, result' = "eof", result' # result, ~r.eof_shortcut
             PROVE  r.eof /\ Len(got) = input
  BY DEF PipesInv
<1>1. PICK count \in 1..B : R!Read(count) \/ R!ReadWake(count)
  BY DEF Next, vars, readerVars, SetNonblock, PollRead, PollReadWake, PollTimeout, PollWrite,
         Close, DestroyReader, DestroyReaderClose, DestroyWriter, DestroyWriterClose,
         R!ReaderThread, R!ReaderTop, R!ReaderSpace, R!ReaderCall, R!ReaderReturns,
         R!ReaderGot, R!ReaderFails, R!ReaderEnd, R!ReaderClose, R!ThreadStep,
         R!ReadCall, R!ReadReset, B
<1>2. CASE R!Read(count)
  <2> DEFINE cp == R!Ready(r)
  <2>1. R!create_reader.eof_shortcut = FALSE /\ R!create_reader.error = FALSE
        /\ R!Empty(R!create_reader)
    BY DEF R!create_reader, R!NoReader, R!Empty
  <2>2. ~cp.eof_shortcut
    BY <2>1 DEF R!Ready
  <2>3. R!Take(cp, count) /\ ~(R!Empty(cp) /\ ~cp.error) /\ prog = "idle"
    BY <1>2, <2>2 DEF R!Read
  <2>4. cp = r
    BY <2>1, <2>3 DEF R!Ready
  <2> HIDE DEF cp
  <2> QED BY <2>3, <2>4, TakeEndsTruly
<1>3. CASE R!ReadWake(count)
  <2>1. R!Take(r, count) /\ prog = "r_wait" /\ r.have_data
    BY <1>3 DEF R!ReadWake
  <2>2. R!Empty(r) => r.error \/ r.eof
    BY <2>1 DEF RInv, ReaderFlags, Closing, R!Empty
  <2> QED BY <2>1, <2>2, TakeEndsTruly
<1> QED BY <1>1, <1>2, <1>3

\* A read tells the program of the end of the input only there, after every byte, however the
\* wake-ups of func_w32_pollable_read and the flags the thread sets outside the lock fall.
THEOREM EofOnlyAtTheEnd == Spec => NoFalseEof
<1>1. Init => PipesInv
  BY ReaderInitial, WriterInitial DEF PipesInv, Init, ProgTypes
<1>2. PipesInv /\ [Next]_vars => PipesInv'
  BY ReaderInductive, WriterInductive, ProgInductive DEF PipesInv
<1>3. PipesInv /\ [Next]_vars
        => [result' = "eof" /\ result' # result /\ ~r.eof_shortcut
              => r.eof /\ Len(got) = input]_vars
  BY EofIsTrue
<1> QED
  BY <1>1, <1>2, <1>3, PTL DEF Spec, NoFalseEof
=============================================================================
