------------------------------- MODULE Base64 --------------------------------
(***************************************************************************)
(* Base 64 end to end: an encoder writes a text, and when it has ended     *)
(* without an error a decoder reads that text, after other text if it      *)
(* looks for an armor; or a decoder reads a text of another origin.        *)
(***************************************************************************)
EXTENDS Base64Encoder, Base64Decoder

CONSTANTS Preambles,   \* what stands before an armored text
          OtherTexts   \* texts that no encoder wrote

VARIABLE session   \* what the decoder reads: the kind of text, what stands
                   \* before it, and whether it looks for an armor

vars == <<encVars, decVars, session>>

Init ==
  /\ EncInit
  /\ dec = DecObject(FALSE) /\ given = <<>> /\ left = <<>> /\ out = <<>>
  /\ decRet = "none"
  /\ session = [kind |-> "none", title |-> FALSE]

\* _gpgrt_b64dec_start, for the text T.
DecStart(kind, title, t) ==
  /\ decRet = "none"
  /\ dec' = DecObject(title)
  /\ left' = t
  /\ session' = [kind |-> kind, title |-> title]
  /\ decRet' = "ok"
  /\ UNCHANGED <<given, out, encVars>>

DecodeText ==
  /\ encRet = {"ended"}
  /\ IF enc.title = NoTitle THEN DecStart("encoded", FALSE, text)
     ELSE \E p \in Preambles : DecStart("encoded", TRUE, p \o text)

\* A caller that has nothing to encode decodes a text of another origin.
DecodeOther ==
  /\ source = <<>> /\ encRet = {} /\ enc = EncStart(NoTitle)
  /\ \E t \in OtherTexts, title \in BOOLEAN : DecStart("other", title, t)

Encoding == decRet = "none" /\ EncNext /\ UNCHANGED <<decVars, session>>
Decoding == DecNext /\ UNCHANGED <<encVars, session>>

Next == Encoding \/ DecodeText \/ DecodeOther \/ Decoding

Spec == Init /\ [][Next]_vars
==============================================================================
