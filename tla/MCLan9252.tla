----------------------------- MODULE MCLan9252 -----------------------------
(***************************************************************************)
(* A chip of 33 addresses: registers below 16, of which the master changes *)
(* AL Status and AL Event; above, an input image at 17 .. 24 and an output *)
(* image at 25 .. 32.  Each is the end of a word, a whole word and the     *)
(* first byte of a third; a FIFO is one word shorter.                      *)
(***************************************************************************)
EXTENDS Lan9252Slave

Span(ado, len) == [ado |-> ado, len |-> len]

(* A register span of chunks 1, 2, 4 and 1, and process RAM in one word.   *)
Reads  == {Span(5, 8), Span(26, 1)}
Writes == {Span(1, 3), Span(12, 3), Span(25, 8)}

ASSUME MCApart == RegistersApart
=============================================================================
