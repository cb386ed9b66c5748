---------------------------- MODULE MCAlRequest ----------------------------
(***************************************************************************)
(* Rings, requests and cyclic datagrams for model-checking AlRequest.      *)
(***************************************************************************)
EXTENDS AlRequest

CONSTANTS a1, a2

Own    == [a \in Apps |-> IF a = a1 THEN 1 ELSE 2]
Shared == [a \in Apps |-> 1]

Ladder == {AL_INIT, AL_PREOP, AL_SAFEOP, AL_BOOT}
Climb  == {AL_INIT, AL_PREOP}

Quiet == {}

(* The application reads its own slave's AL Status in the cycle.           *)
ReadStatus == [cmd |-> "FPRD", adp |-> 1, ado |-> ALSTAT, data |-> <<0>>]
ReadOwn    == {ReadStatus}

=============================================================================
