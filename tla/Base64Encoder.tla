---------------------------- MODULE Base64Encoder ----------------------------
(***************************************************************************)
(* The base 64 encoder of src/src/b64enc.c: an object that is given bytes  *)
(* in pieces of any length and writes them, as text, to a stream.  What is *)
(* left of a piece (one or two bytes of an unfinished quantum), the        *)
(* quanta on the line and the checksum wait in the object for the next     *)
(* call.                                                                   *)
(***************************************************************************)
EXTENDS Base64Text, SequencesExt, Bitwise

CONSTANTS Titles,      \* the titles an encoder is started with
          NoTitle,     \* the title NULL
          Sources,     \* the byte strings that callers encode
          LineQuads,   \* quanta on a line: 64/4 in the code
          BadWrites    \* which writes of a call fail: sets of their numbers

ASSUME LineQuadsAssumption == LineQuads \in Nat \ {0}
ASSUME SourcesAssumption == \A s \in Sources : s \in Seq(0..255)

VARIABLES enc,      \* the object: gpgrt_b64state_t
          source,   \* the bytes the caller has to encode
          text,     \* the text the stream took
          encRet    \* the results of the calls that were not 0, then "ended"

encVars == <<enc, source, text, encRet>>

------------------------------------------------------------------------------
(* The checksum of OpenPGP, 24 bits; what the table has above them is cut    *)
(* off at the end of each call and left out.                                *)

CRCINIT == 11994318                                    \* 0xB704CE
CRCPOLY == 8801531                                     \* 0x864CFB

\* As the comment at the table computes it: entry j gives 2*j and 2*j + 1.
crc_table ==
  LET t[i \in 0..255] ==
        IF i = 0 THEN 0
        ELSE LET up  == (2 * t[i \div 2]) % 16777216
                 top == t[i \div 2] >= 8388608
             IN  IF top = (i % 2 = 0) THEN up ^^ CRCPOLY ELSE up
  IN  t

CrcStep(crc, byte) ==
  ((crc % 65536) * 256) ^^ crc_table[(crc \div 65536) ^^ byte]

------------------------------------------------------------------------------
(* Writing.  A call makes its writes in groups; the writes of a group are   *)
(* all tried, then the code looks whether the stream has an error.          *)

Quantum(b) ==
  LET at(i) == IF i <= Len(b) THEN b[i] ELSE 0
      six   == << at(1) \div 4,
                  (at(1) % 4) * 16 + at(2) \div 16,
                  (at(2) % 16) * 4 + at(3) \div 64,
                  at(3) % 64 >>
  IN  [i \in 1..4 |-> IF i <= Len(b) + 1 THEN bintoasc[six[i]] ELSE Pad]

Chars(s) == [i \in 1..Len(s) |-> <<s[i]>>]             \* one fputc each

Newline == IF enc.lines THEN << << <<LF>> >> >> ELSE <<>>

\* Mutant: the quanta of earlier calls do not count.
QuantaForgetsLine(bytes, n, quads) ==
  FlattenSeq([i \in 1..n |->
    << Chars(Quantum(SubSeq(bytes, 3 * i - 2, 3 * i))) >>
    \o IF i % LineQuads = 0 THEN Newline ELSE <<>>])

\* The groups of the first n quanta of BYTES, after QUADS on the line.
QuantaOf(bytes, n, quads) ==
  FlattenSeq([i \in 1..n |->
    << Chars(Quantum(SubSeq(bytes, 3 * i - 2, 3 * i))) >>
    \o IF (quads + i) % LineQuads = 0 THEN Newline ELSE <<>>])

Header ==
  IF enc.header \/ enc.title = NoTitle THEN <<>>
  ELSE << <<BeginMark>>, <<enc.title>>, <<Dashes \o <<LF>> >> >>
       \o IF enc.usecrc THEN << << <<LF>> >> >> ELSE <<>>

Trailer ==
  IF enc.title = NoTitle THEN <<>>
  ELSE << <<EndMark>>, <<enc.title>>, <<Dashes \o <<LF>> >> >>

\* The writes of a call on the stream; a write that fails loses the end of
\* what it had to write.
RECURSIVE Output(_, _, _)
Output(groups, done, bad) ==
  IF groups = <<>> THEN [text |-> <<>>, ok |-> TRUE]
  ELSE LET group == Head(groups)
           fails == {i \in DOMAIN group : done + i \in bad}
           took  == FlattenSeq([i \in DOMAIN group |->
                      IF i \in fails THEN Front(group[i]) ELSE group[i]])
           rest  == Output(Tail(groups), done + Len(group), bad)
       IN  IF fails # {} THEN [text |-> took, ok |-> FALSE]
           ELSE [text |-> took \o rest.text, ok |-> rest.ok]

------------------------------------------------------------------------------
(* The calls.                                                               *)

\* _gpgrt_b64enc_start.
EncStart(title) ==
  [title  |-> IF title = <<>> THEN NoTitle ELSE title,
   lines  |-> title # <<>>,
   usecrc |-> title # NoTitle /\ IsPrefix(PgpMark, title),
   crc    |-> CRCINIT, header |-> FALSE, lasterr |-> FALSE,
   radbuf |-> <<>>, quads |-> 0, given |-> 0]

EncInit ==
  /\ \E title \in Titles : enc = EncStart(title)
  /\ source \in Sources
  /\ text = <<>>
  /\ encRet = {}

Live == "ended" \notin encRet

\* _gpgrt_b64enc_write of N bytes.
EncWrite(n, bad) ==
  /\ Live
  /\ n \in 1..(Len(source) - enc.given)
  /\ IF enc.lasterr
     THEN encRet' = encRet \cup {"error"} /\ UNCHANGED <<enc, text>>
     ELSE LET piece == SubSeq(source, enc.given + 1, enc.given + n)
              bytes == enc.radbuf \o piece
              quanta == Len(bytes) \div 3
              w == Output(Header \o QuantaOf(bytes, quanta, enc.quads), 0, bad)
          IN  /\ text' = text \o w.text
              /\ IF w.ok
                 THEN /\ enc' = [enc EXCEPT
                           !.header = TRUE,
                           !.crc    = IF enc.usecrc
                                      THEN FoldLeft(CrcStep, @, piece) ELSE @,
                           !.radbuf = SubSeq(bytes, 3 * quanta + 1, Len(bytes)),
                           !.quads  = (@ + quanta) % LineQuads,
                           !.given  = @ + n]
                      /\ encRet' = encRet
                 ELSE /\ enc' = [enc EXCEPT !.lasterr = TRUE, !.title = NoTitle,
                                            !.given = @ + n]
                      /\ encRet' = encRet \cup {"error"}
  /\ UNCHANGED source

\* _gpgrt_b64enc_write of no bytes: with a buffer it flushes the stream.
EncFlush(fails) ==
  /\ Live
  /\ IF enc.lasterr \/ fails
     THEN /\ enc' = [enc EXCEPT !.lasterr = TRUE, !.title = NoTitle]
          /\ encRet' = encRet \cup {"error"}
     ELSE UNCHANGED <<enc, encRet>>
  /\ UNCHANGED <<source, text>>

\* _gpgrt_b64enc_finish.
EncFinish(bad) ==
  /\ Live
  /\ LET left  == IF enc.radbuf = <<>> THEN 0 ELSE 1
         quads == (enc.quads + left) % LineQuads
         crc   == Quantum(<<enc.crc \div 65536, (enc.crc \div 256) % 256,
                            enc.crc % 256>>)
         groups ==
           (IF left = 1
            THEN << Chars(Quantum(enc.radbuf)) >>
                 \o (IF quads = 0 THEN Newline ELSE <<>>)
            ELSE <<>>)
           \o (IF quads # 0 THEN Newline ELSE <<>>)
           \o (IF enc.usecrc THEN << Chars(<<Pad>> \o crc) >> \o Newline ELSE <<>>)
           \o Trailer
         w == IF enc.lasterr \/ ~enc.header THEN [text |-> <<>>, ok |-> ~enc.lasterr]
              ELSE Output(groups, 0, bad)
     IN  /\ text' = text \o w.text
         /\ encRet' = encRet \cup {"ended"} \cup (IF w.ok THEN {} ELSE {"error"})
  /\ UNCHANGED <<enc, source>>

\* _gpgrt_b64dec_finish on an encoder: GPG_ERR_CONFLICT, and the object is gone.
EncFinishAsDecoder ==
  /\ Live
  /\ encRet' = encRet \cup {"ended", "error"}
  /\ UNCHANGED <<enc, source, text>>

EncNext ==
  \/ \E n \in 1..Len(source), bad \in BadWrites : EncWrite(n, bad)
  \/ \E fails \in BOOLEAN : EncFlush(fails)
  \/ \E bad \in BadWrites : EncFinish(bad)
  \/ EncFinishAsDecoder
==============================================================================
