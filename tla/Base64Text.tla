----------------------------- MODULE Base64Text ------------------------------
(***************************************************************************)
(* What the encoder and the decoder of base 64 share: characters, as their *)
(* codes, the marks of the armor and the alphabet.                         *)
(***************************************************************************)
EXTENDS Integers, Sequences

LF == 10
Blanks == {32, 13, 9}
Dash == 45
Pad == 61
Dashes == <<Dash, Dash, Dash, Dash, Dash>>
BeginMark == Dashes \o <<66, 69, 71, 73, 78, 32>>      \* "-----BEGIN "
EndMark == Dashes \o <<69, 78, 68, 32>>                \* "-----END "
PgpMark == <<80, 71, 80, 32>>                          \* "PGP "

\* The character of six bits, and the bits of a character: a function whose
\* domain are the characters of the alphabet.
bintoasc == [n \in 0..63 |-> IF n < 26 THEN 65 + n
                             ELSE IF n < 52 THEN 71 + n
                             ELSE IF n < 62 THEN n - 4
                             ELSE IF n = 62 THEN 43 ELSE 47]
asctobin == [ch \in 65..90 \cup 97..122 \cup 48..57 \cup {43, 47} |->
               CASE ch \in 65..90  -> ch - 65
                 [] ch \in 97..122 -> ch - 71
                 [] ch \in 48..57  -> ch + 4
                 [] ch = 43        -> 62
                 [] ch = 47        -> 63]
==============================================================================
