---------------------------- MODULE SdoTransfer ----------------------------
(***************************************************************************)
(* What an SDO upload promises the client that asked for an object: the    *)
(* bytes come in order from the first to the last, none twice and none     *)
(* left out, and the transfer is done only with the whole object.  A byte  *)
(* stands for its position.  The transfer may fail at any time.            *)
(***************************************************************************)
EXTENDS Integers, Sequences

CONSTANTS Objects,       \* what a client may ask for
          Lengths        \* per object, the set of lengths it may have

VARIABLES object, size, got, status

vars == <<object, size, got, status>>

FirstBytes(n) == [i \in 1 .. n |-> i]

Init == object \in Objects /\ size = 0 /\ got = <<>> /\ status = "idle"

Ask(o) ==
  /\ status # "running"
  /\ object' = o
  /\ size' = 0 /\ got' = <<>> /\ status' = "running"

(* The server tells the length of an object it will send in segments.      *)
Announce(n) ==
  /\ status = "running" /\ size = 0
  /\ n \in Lengths[object] /\ n > 0
  /\ size' = n
  /\ UNCHANGED <<object, got, status>>

Receive(n) ==
  /\ status = "running"
  /\ Len(got) < n
  /\ got' = FirstBytes(n)
  /\ UNCHANGED <<object, size, status>>

Finish(n) ==
  /\ status = "running"
  /\ n \in IF size = 0 THEN Lengths[object] ELSE {size}
  /\ size' = n /\ got' = FirstBytes(n) /\ status' = "done"
  /\ UNCHANGED object

Fail ==
  /\ status = "running"
  /\ status' = "failed"
  /\ UNCHANGED <<object, size, got>>

Leave ==
  /\ status # "running"
  /\ size' = 0 /\ got' = <<>> /\ status' = "idle"
  /\ object' \in Objects

Next ==
  \/ \E o \in Objects : Ask(o)
  \/ \E n \in UNION {Lengths[o] : o \in Objects} :
       Announce(n) \/ Finish(n)
  \/ \E n \in 1 .. size - 1 : Receive(n)
  \/ Fail \/ Leave

Spec == Init /\ [][Next]_vars
=============================================================================
