----------------------------- MODULE AlMachine -----------------------------
(***************************************************************************)
(* What a slave promises about its application-layer state: it climbs the  *)
(* ladder INIT, PREOP, SAFEOP, OP one rung at a time, comes down one rung  *)
(* or all the way to INIT, and a request it refuses leaves it where it is  *)
(* with an error that says why.  BOOT is not on the ladder.                *)
(***************************************************************************)
EXTENDS Integers

VARIABLES al,      \* the state reported in AL Status
          flag,    \* the error indication reported in AL Status
          code     \* the AL Status Code

vars == <<al, flag, code>>

INIT == 1   PREOP == 2   SAFEOP == 4   OP == 8
States == {INIT, PREOP, SAFEOP, OP}
Rung   == [s \in States |-> CASE s = INIT -> 0 [] s = PREOP -> 1
                              [] s = SAFEOP -> 2 [] s = OP -> 3]

NoError        == 0
BadTransition  == 17
NoBootstrap    == 19
BadMailbox     == 22

Init == al = INIT /\ flag = FALSE /\ code = NoError

Enter(s) ==
  /\ s = INIT \/ Rung[s] - Rung[al] \in {-1, 1}
  /\ al' = s /\ flag' = FALSE /\ code' = NoError

(* Only the first rung can be refused for the mailbox configuration.       *)
Refuse(e) ==
  /\ e = BadMailbox => al = INIT
  /\ al' = al /\ flag' = TRUE /\ code' = e

Acknowledge == al' = al /\ flag' = FALSE /\ code' = NoError

Next == \/ \E s \in States : Enter(s)
        \/ \E e \in {BadTransition, NoBootstrap, BadMailbox} : Refuse(e)
        \/ Acknowledge

Spec == Init /\ [][Next]_vars

=============================================================================
