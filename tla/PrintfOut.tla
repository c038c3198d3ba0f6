------------------------------ MODULE PrintfOut ------------------------------
(***************************************************************************)
(* The output side of src/estream-printf.c: the layout of an integer and of a    *)
(* string within a field, computed as the code does in int and size_t, and the     *)
(* output functions of snprintf (a caller's buffer) and asprintf (a growing one).   *)
(***************************************************************************)
EXTENDS Integers, FiniteSets, Sequences

CONSTANTS Widths,        \* the field widths that are tried, without NO_FIELD
          Precisions,    \* the precisions that are tried, without NO_FIELD
          Magnitudes,    \* the values that are printed
          BufSizes,      \* the buffer sizes given to snprintf
          Grow,          \* what asprintf adds to its buffer over what it needs (512 in the code)
          MaxOut         \* bound: the number of characters one call prints

NoField == -1
W == 2 ^ 12              \* size_t
WI == 2 ^ 8              \* int
size(x) == x % W
int(x) == LET r == x % WI IN IF r >= WI \div 2 THEN r - WI ELSE r
\* pad_out prints nothing for a count that is not positive.
pad_out(count) == IF int(count) > 0 THEN int(count) ELSE 0

-----------------------------------------------------------------------------
(***************************************************************************)
(* pr_integer.  arg = [conv, flags, width, precision], value an integer.        *)
(***************************************************************************)
Base(conv) == CASE conv = "o" -> 8 [] conv \in {"x", "X"} -> 16 [] conv = "b" -> 2 [] OTHER -> 10
NDigits(v, base) == IF v = 0 THEN 1 ELSE CHOOSE k \in 1..12 : base ^ (k - 1) <= v /\ v < base ^ k
Abs(v) == IF v < 0 THEN -v ELSE v
Sign(arg, v) ==
  CASE arg.conv = "d" /\ v < 0 -> "-"
    [] ~(arg.conv = "d" /\ v < 0) /\ "+" \in arg.flags -> "+"
    [] ~(arg.conv = "d" /\ v < 0) /\ "+" \notin arg.flags /\ " " \in arg.flags -> " "
    [] OTHER -> ""
Prefixed(arg) == "#" \in arg.flags /\ arg.conv \in {"x", "X", "b"}

\* The characters at p: none for a zero with precision zero; an octal may get its zero here.
BuiltDigits(arg, v) ==
  LET k == NDigits(Abs(v), Base(arg.conv))
  IN  CASE v = 0 /\ arg.precision = 0 -> 0
        [] ~(v = 0 /\ arg.precision = 0) /\ Base(arg.conv) = 10 ->
             IF "'" \in arg.flags THEN k + (k - 1) \div 3 ELSE k
        [] ~(v = 0 /\ arg.precision = 0) /\ arg.conv = "o" -> IF "#" \in arg.flags /\ v # 0 THEN k + 1 ELSE k
        [] OTHER -> k
\* Characters of sign and prefix; the prefix is only counted if there are digits.
n_extra(arg, v) == (IF Sign(arg, v) # "" THEN 1 ELSE 0)
                   + (IF Prefixed(arg) /\ ~(v = 0 /\ arg.precision = 0) THEN 2 ELSE 0)
\* (A wrong version, for a check of the property: the precision does not switch the flag off.)
n_precOfField(arg, v, n, extra) ==
  IF "0" \in arg.flags /\ "-" \notin arg.flags /\ size(arg.width - extra) > n
  THEN int(size(arg.width - extra) - n)
  ELSE IF arg.precision > 0 /\ arg.precision > n THEN arg.precision - n ELSE 0
\* Zeros in front of the digits.  int minus size_t is computed in size_t and cut to an int.
n_prec(arg, v, n, extra) ==
  IF /\ "0" \in arg.flags /\ arg.precision = NoField /\ "-" \notin arg.flags
     /\ n # 0 /\ size(arg.width - extra) > n
  THEN int(size(arg.width - extra) - n)
  ELSE IF arg.precision > 0 /\ arg.precision > n THEN arg.precision - n ELSE 0
LeftPad(arg, n, extra, prec) ==
  IF /\ "-" \notin arg.flags /\ arg.width >= 0 /\ size(arg.width - extra) > n
     /\ size(size(arg.width - extra) - n) >= size(prec)
  THEN pad_out(size(arg.width - extra - n - prec)) ELSE 0
RightPad(arg, n, extra, prec) ==
  IF "-" \in arg.flags /\ arg.width >= 0 /\ size(arg.width - extra - prec) > n
  THEN pad_out(size(arg.width - extra - prec - n)) ELSE 0

pr_integer(arg, v) ==
  LET n == BuiltDigits(arg, v)
      extra == n_extra(arg, v)
      prec == n_prec(arg, v, n, extra)
  IN  [left |-> LeftPad(arg, n, extra, prec), sign |-> Sign(arg, v),
       prefix |-> Prefixed(arg), zeros |-> pad_out(prec), digits |-> n,
       right |-> RightPad(arg, n, extra, prec)]

\* pr_string of a string of len characters.
pr_string(arg, len) ==
  LET n == IF arg.precision >= 0 /\ len >= arg.precision THEN arg.precision ELSE len
      room == arg.width >= 0 /\ arg.width > n
  IN  [left |-> IF "-" \notin arg.flags /\ room THEN pad_out(arg.width - n) ELSE 0, text |-> n,
       right |-> IF "-" \in arg.flags /\ room THEN pad_out(arg.width - n) ELSE 0]

Flags == {"-", "0", "+", " ", "#", "'"}
Args == [conv : {"d", "u", "o", "x", "b"}, flags : SUBSET Flags,
         width : Widths \cup {NoField}, precision : Precisions \cup {NoField}]

-----------------------------------------------------------------------------
(***************************************************************************)
(* One call: an integer is laid out, or characters are put out one chunk at a     *)
(* time.                                                                     *)
(***************************************************************************)
VARIABLES laid,      \* the integer's argument, value and layout
          parm,      \* the buffer of the output function
          printed    \* the characters that were put out, and the answer
outVars == <<laid, parm, printed>>

NothingLaid == [arg |-> [conv |-> "", flags |-> {}, width |-> NoField, precision |-> NoField],
                value |-> 0, layout |-> [left |-> 0, sign |-> "", prefix |-> FALSE, zeros |-> 0,
                                         digits |-> 0, right |-> 0]]
NoParm == [kind |-> "none", size |-> 0, count |-> 0, used |-> 0, buffer |-> <<>>, freed |-> FALSE,
           error |-> FALSE]
NothingPrinted == [bytes |-> 0, rc |-> "none"]
OutInit == laid = NothingLaid /\ parm = NoParm /\ printed = NothingPrinted

LayOut ==
  /\ parm.kind = "none" /\ laid = NothingLaid
  /\ \E arg \in Args, v \in Magnitudes :
       /\ arg.conv = "d" \/ v >= 0
       /\ laid' = [arg |-> arg, value |-> v, layout |-> pr_integer(arg, v)]
  /\ UNCHANGED <<parm, printed>>

\* _gpgrt_estream_vsnprintf with a buffer of n bytes, with and without a buffer.
Snprintf == \E n \in BufSizes, given \in BOOLEAN :
  /\ parm.kind = "none" /\ laid = NothingLaid
  /\ parm' = [NoParm EXCEPT !.kind = IF given /\ n > 0 THEN "fixed" ELSE "count", !.size = n]
  /\ UNCHANGED <<laid, printed>>
\* _gpgrt_estream_vasprintf; the first buffer may already be refused.
Asprintf == \E got \in BOOLEAN :
  /\ parm.kind = "none" /\ laid = NothingLaid
  /\ parm' = [NoParm EXCEPT !.kind = "dynamic", !.size = Grow, !.freed = ~got]
  /\ printed' = [NothingPrinted EXCEPT !.rc = IF got THEN "none" ELSE "error"]
  /\ UNCHANGED laid

fixed_buffer_out(p, n) ==
  LET c == [p EXCEPT !.count = @ + n]
      fits == IF p.kind = "count" THEN 0
              ELSE IF p.used + n < p.size THEN n
              ELSE IF p.size - p.used < n THEN p.size - p.used ELSE n
  IN  [c EXCEPT !.used = @ + fits, !.buffer = @ \o [i \in 1..fits |-> p.count + i]]
Fits(p, n) == p.used + n < p.size
dynamic_buffer_out(p, n, got) ==
  IF p.error THEN p
  ELSE IF Fits(p, n) \/ got
       THEN [p EXCEPT !.size = IF Fits(p, n) THEN @ ELSE @ + n + Grow, !.used = @ + n, !.count = @ + n,
                      !.buffer = @ \o [i \in 1..n |-> p.count + i]]
       ELSE [p EXCEPT !.error = TRUE, !.size = @ + n + Grow, !.buffer = [i \in DOMAIN @ |-> 0]]
Out(p, n, got) == IF p.kind = "dynamic" THEN dynamic_buffer_out(p, n, got) ELSE fixed_buffer_out(p, n)

\* The formatting calls the output function.
PutOut == \E n \in 0..MaxOut, got \in BOOLEAN :
  /\ parm.kind # "none" /\ printed.rc = "none" /\ ~parm.error /\ printed.bytes + n <= MaxOut
  /\ parm' = Out(parm, n, got)
  /\ printed' = [printed EXCEPT !.bytes = @ + n]
  /\ UNCHANGED laid

\* The end of the call: rc of the formatting, the terminating Nul, and the answer.
TerminatedNot(p) == p
Terminated(p) == IF p.kind = "fixed" /\ p.count >= p.size
                 THEN [p EXCEPT !.buffer = [@ EXCEPT ![p.size] = 0]] ELSE p
NulOut(p, got) == LET out == Out(p, 1, got)
                  IN  IF out.used = p.used \/ out.error THEN out
                      ELSE [out EXCEPT !.buffer = [@ EXCEPT ![out.used] = 0]]
Wiped(p) == [p EXCEPT !.buffer = <<>>, !.freed = TRUE]
EndCall == \E formatted, got \in BOOLEAN :
  /\ parm.kind # "none" /\ printed.rc = "none"
  /\ parm.error => ~formatted
  /\ LET p == IF formatted THEN NulOut(parm, got) ELSE parm
         failed == ~formatted \/ p.error
     IN  /\ parm' = IF p.kind = "dynamic" /\ failed THEN Wiped(p)
                    ELSE IF failed THEN p ELSE Terminated(p)
         /\ printed' = [printed EXCEPT !.rc = IF failed THEN "error" ELSE "ok"]
  /\ UNCHANGED laid

OutNext == LayOut \/ Snprintf \/ Asprintf \/ PutOut \/ EndCall

-----------------------------------------------------------------------------
(***************************************************************************)
(* Properties.                                                              *)
(***************************************************************************)
MaxI(a, b) == IF a >= b THEN a ELSE b
\* What C says of an integer conversion, in whole numbers: digits, raised to the precision
\* with zeros, then to the field with zeros or spaces, on the left or on the right.  The
\* code gives signs to unsigned conversions and prefixes to zero, which C does not.
CLayout(arg, v) ==
  LET none == v = 0 /\ arg.precision = 0
      k == IF none THEN 0 ELSE NDigits(Abs(v), Base(arg.conv))
      separators == IF "'" \in arg.flags /\ Base(arg.conv) = 10 /\ k > 0 THEN (k - 1) \div 3 ELSE 0
      octal == IF arg.conv = "o" /\ "#" \in arg.flags /\ v # 0 THEN 1 ELSE 0
      head == (IF Sign(arg, v) # "" THEN 1 ELSE 0) + (IF Prefixed(arg) THEN 2 ELSE 0)
      body == k + separators + octal
      more == MaxI(arg.precision - body, 0)
      field == MaxI(arg.width - head - body - more, 0)
      zeroed == "0" \in arg.flags /\ arg.precision = NoField /\ "-" \notin arg.flags
  IN  [left |-> IF "-" \in arg.flags \/ zeroed THEN 0 ELSE field, sign |-> Sign(arg, v),
       prefix |-> Prefixed(arg), zeros |-> IF zeroed THEN field ELSE more,
       digits |-> body, right |-> IF "-" \in arg.flags THEN field ELSE 0]
\* The layout computed in int and size_t is the one computed in whole numbers, although
\* width - n_extra goes below zero for narrow fields (pr_integer).  Left out: "%#.0x" of
\* zero, whose prefix is printed without being counted.
IntegerExact == (laid # NothingLaid /\ ~(Prefixed(laid.arg) /\ laid.value = 0 /\ laid.arg.precision = 0)) =>
                   laid.layout = CLayout(laid.arg, laid.value)

\* snprintf answers the length that the whole text has, and leaves as much of it as fits in
\* front of a Nul; asprintf leaves all of it, in a buffer that is large enough, or nothing
\* (fixed_buffer_out, dynamic_buffer_out and their callers).
BufferExact ==
  /\ printed.rc = "ok" =>
       /\ parm.count = printed.bytes + 1
       /\ parm.kind = "dynamic" => /\ parm.buffer = [i \in 1..parm.count |-> IF i = parm.count THEN 0 ELSE i]
                                   /\ parm.used <= parm.size
       /\ parm.kind = "fixed" =>
            LET keep == IF parm.count > parm.size THEN parm.size ELSE parm.count
            IN  parm.buffer = [i \in 1..keep |-> IF i = keep THEN 0 ELSE i]
  /\ (printed.rc = "error" /\ parm.kind = "dynamic") => parm.freed /\ parm.buffer = <<>>
=============================================================================
