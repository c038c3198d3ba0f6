---------------------------- MODULE Base64Decoder ----------------------------
(***************************************************************************)
(* The base 64 decoder of src/src/b64dec.c: an object that is given a text *)
(* in pieces of any length and decodes each in place.  Started with a      *)
(* title it skips everything up to an armor header.  The state of the      *)
(* machine, the bits of the octet at hand and the place in the text that   *)
(* is compared wait in the object for the next call.                       *)
(***************************************************************************)
EXTENDS Base64Text

VARIABLES dec,      \* the object: gpgrt_b64state_t
          given,    \* the text the decoder was given so far
          left,     \* the text the caller still has
          out,      \* what the decoder returned so far
          decRet    \* "none", or what the last call returned

decVars == <<dec, given, left, out, decRet>>

B64States == {"s_b64_0", "s_b64_1", "s_b64_2", "s_b64_3"}

------------------------------------------------------------------------------
(* One character.  m is what the loop works on: ds, val and pos, which are  *)
(* variables of the call, what it stored, and two flags of the object.      *)

Goto(m, ds) == [m EXCEPT !.ds = ds]
Idle(m, c) == IF c = LF THEN [m EXCEPT !.ds = "s_lfseen", !.pos = 0] ELSE m

\* Mutant: the character that ends the comparison is not looked at again.
StepLfseenOnce(m, c) ==
  IF c # BeginMark[m.pos + 1] THEN Goto(m, "s_idle")
  ELSE IF m.pos = Len(BeginMark) - 1
       THEN [m EXCEPT !.ds = "s_beginseen", !.pos = 0]
       ELSE [m EXCEPT !.ds = "s_lfseen", !.pos = @ + 1]

StepLfseen(m, c) ==
  IF c # BeginMark[m.pos + 1] THEN Idle(Goto(m, "s_idle"), c)
  ELSE IF m.pos = Len(BeginMark) - 1
       THEN [m EXCEPT !.ds = "s_beginseen", !.pos = 0]
       ELSE [m EXCEPT !.ds = "s_lfseen", !.pos = @ + 1]

StepBeginseen(m, c) ==
  IF c # PgpMark[m.pos + 1] THEN Goto(m, "s_begin")
  ELSE IF m.pos = Len(PgpMark) - 1 THEN Goto(m, "s_waitheader")
  ELSE [m EXCEPT !.pos = @ + 1]

\* A character of the alphabet: six bits of the octet at hand.
Sextet(m, n) ==
  CASE m.ds = "s_b64_0" -> [m EXCEPT !.ds = "s_b64_1", !.val = n * 4]
    [] m.ds = "s_b64_1" -> [m EXCEPT !.ds = "s_b64_2", !.val = (n % 16) * 16,
                                     !.out = Append(@, m.val + n \div 16)]
    [] m.ds = "s_b64_2" -> [m EXCEPT !.ds = "s_b64_3", !.val = (n % 4) * 64,
                                     !.out = Append(@, m.val + n \div 4)]
    [] m.ds = "s_b64_3" -> [m EXCEPT !.ds = "s_b64_0", !.val = @ + n,
                                     !.out = Append(@, m.val + n)]

\* Mutant: a pad delivers what there is of an octet.
StepBodyPads(m, c) ==
  IF c = Dash /\ dec.title THEN Goto(m, "s_waitend")
  ELSE IF c = Pad
  THEN [m EXCEPT !.ds  = IF dec.title THEN "s_waitendtitle" ELSE "s_waitend",
                 !.out = IF m.ds # "s_b64_0" THEN Append(@, m.val) ELSE @]
  ELSE IF c \in Blanks \cup {LF} THEN m
  ELSE IF c \notin DOMAIN asctobin THEN [m EXCEPT !.invalid = TRUE]
  ELSE Sextet(m, asctobin[c])

StepBody(m, c) ==
  IF c = Dash /\ dec.title THEN Goto(m, "s_waitend")
  ELSE IF c = Pad
  THEN [m EXCEPT !.ds  = IF dec.title THEN "s_waitendtitle" ELSE "s_waitend",
                 !.out = IF m.ds = "s_b64_1" THEN Append(@, m.val) ELSE @]
  ELSE IF c \in Blanks \cup {LF} THEN m
  ELSE IF c \notin DOMAIN asctobin THEN [m EXCEPT !.invalid = TRUE]
  ELSE Sextet(m, asctobin[c])

Step(m, c) ==
  IF m.stop THEN m
  ELSE CASE m.ds = "s_idle"          -> Idle(m, c)
         [] m.ds \in {"s_init", "s_lfseen"} -> StepLfseen(m, c)
         [] m.ds = "s_beginseen"     -> StepBeginseen(m, c)
         [] m.ds = "s_waitheader"    -> IF c = LF THEN Goto(m, "s_waitblank") ELSE m
         [] m.ds = "s_waitblank"     -> IF c = LF THEN Goto(m, "s_b64_0")
                                        ELSE IF c \in Blanks THEN m
                                        ELSE Goto(m, "s_waitheader")
         [] m.ds = "s_begin"         -> IF c = LF THEN Goto(m, "s_b64_0") ELSE m
         [] m.ds \in B64States       -> StepBody(m, c)
         [] m.ds = "s_waitendtitle"  -> IF c = Dash THEN Goto(m, "s_waitend") ELSE m
         [] m.ds = "s_waitend"       -> [m EXCEPT !.stop = (c = LF)]

------------------------------------------------------------------------------
(* The calls.                                                               *)

\* The object of _gpgrt_b64dec_start.
DecObject(title) ==
  [idx |-> IF title THEN "s_init" ELSE "s_b64_0", title |-> title,
   radbuf |-> 0, quads |-> 0, lasterr |-> FALSE, stop |-> FALSE, invalid |-> FALSE]

\* _gpgrt_b64dec_proc on the next n characters.
DecProc(n) ==
  /\ decRet \in {"ok", "eof"}
  /\ n \in 0..Len(left)
  /\ given' = given \o SubSeq(left, 1, n)
  /\ left' = SubSeq(left, n + 1, Len(left))
  /\ IF dec.lasterr THEN decRet' = "eof" /\ UNCHANGED <<dec, out>>
     ELSE IF dec.stop
     THEN /\ dec' = [dec EXCEPT !.lasterr = TRUE, !.title = FALSE]
          /\ decRet' = "eof"
          /\ UNCHANGED out
     ELSE LET start == [ds |-> dec.idx, val |-> dec.radbuf, pos |-> dec.quads,
                        out |-> <<>>, stop |-> FALSE, invalid |-> dec.invalid]
              after[i \in 0..n] == IF i = 0 THEN start ELSE Step(after[i - 1], left[i])
              m == after[n]
          IN  /\ dec' = [dec EXCEPT !.idx = m.ds, !.radbuf = m.val, !.quads = m.pos,
                                    !.stop = m.stop, !.invalid = m.invalid]
              /\ out' = out \o m.out
              /\ decRet' = "ok"

\* _gpgrt_b64dec_finish: an end of file that was told before goes first.
DecFinish ==
  /\ decRet \in {"ok", "eof"}
  /\ decRet' = IF dec.lasterr THEN "ended_eof"
               ELSE IF dec.invalid THEN "ended_bad" ELSE "ended"
  /\ UNCHANGED <<dec, given, left, out>>

DecNext ==
  \/ \E n \in 0..Len(left) : DecProc(n)
  \/ DecFinish
==============================================================================
