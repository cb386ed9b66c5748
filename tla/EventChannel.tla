---------------------------- MODULE EventChannel ----------------------------
(***************************************************************************)
(* What the master's event queue promises: a bounded first-in first-out    *)
(* channel.  An event put into a full channel is the one that is lost; an  *)
(* event that got in is handed over once, in order, one at a time.         *)
(***************************************************************************)
EXTENDS Naturals, Sequences

CONSTANTS Events,        \* what can be posted
          Capacity,      \* events the channel holds
          None           \* no event is being handed over

VARIABLES chan,          \* the events in the channel, oldest first
          taken          \* the event being handed over

vars == <<chan, taken>>

Init == chan = <<>> /\ taken = None

Put(e) ==
  /\ chan' = IF Len(chan) < Capacity THEN Append(chan, e) ELSE chan
  /\ UNCHANGED taken

Get ==
  /\ chan # <<>>
  /\ taken = None
  /\ chan' = Tail(chan)
  /\ taken' = Head(chan)

Done == taken # None /\ taken' = None /\ UNCHANGED chan

Next == (\E e \in Events : Put(e)) \/ Get \/ Done

Spec == Init /\ [][Next]_vars

=============================================================================
