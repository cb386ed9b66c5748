-------------------------- MODULE EventLoopProofs --------------------------
(***************************************************************************)
(* The event loop loses no wake-up, and is a bounded first-in first-out    *)
(* channel, for every size of the queue and every set of events.           *)
(***************************************************************************)
EXTENDS EventLoop, SequenceTheorems, TLAPS

(* What the array holds below its count are events; the loop has a copy of *)
(* one exactly while a callback runs.  Both are needed to see a step of    *)
(* the loop as a step of the channel.                                      *)
QueueHoldsEvents == \A i \in 0 .. count - 1 : queue[i] \in Events
HandWhileCalling == hand # None <=> loop = "call"

IInv == TypeOK /\ NoLostWakeup /\ QueueHoldsEvents /\ HandWhileCalling

LEMMA InitInv == Init => IInv
<1> SUFFICES ASSUME Init PROVE IInv
  OBVIOUS
<1>1. TypeOK
  <2>1. queue \in [Slots -> Events \cup {None}]
    BY DEF Init
  <2>2. count \in 0 .. MAX_EVENTS
    BY EventLoopAssumption DEF Init
  <2> QED BY <2>1, <2>2 DEF Init, TypeOK
<1>2. QueueHoldsEvents
  <2>1. 0 .. count - 1 = {}
    BY DEF Init
  <2> QED BY <2>1 DEF QueueHoldsEvents
<1>3. NoLostWakeup /\ HandWhileCalling
  BY DEF Init, NoLostWakeup, HandWhileCalling
<1> QED BY <1>1, <1>2, <1>3 DEF IInv

LEMMA NextInv == IInv /\ [Next]_vars => IInv'
<1> SUFFICES ASSUME IInv, [Next]_vars PROVE IInv'
  OBVIOUS
<1> USE EventLoopAssumption
        DEF IInv, TypeOK, NoLostWakeup, QueueHoldsEvents, HandWhileCalling, Slots
<1>1. ASSUME NEW e \in Events, Post(e) PROVE IInv'
  <2>1. CASE count < MAX_EVENTS
    <3>1. queue' = [queue EXCEPT ![count] = e] /\ count' = count + 1
      BY <1>1, <2>1 DEF Post
    <3>2. TypeOK'
      BY <1>1, <2>1, <3>1 DEF Post, Signal
    <3>3. QueueHoldsEvents'
      BY <1>1, <2>1, <3>1
    <3>4. NoLostWakeup' /\ HandWhileCalling'
      BY <1>1, <2>1, <3>1 DEF Post, Signal
    <3> QED BY <3>2, <3>3, <3>4
  <2>2. CASE ~(count < MAX_EVENTS)
    BY <1>1, <2>2 DEF Post
  <2> QED BY <2>1, <2>2
<1>2. CASE Stop
  BY <1>2 DEF Stop, Signal
<1>3. CASE Run
  BY <1>3 DEF Run
<1>4. CASE Wait \/ Wake \/ Leave
  BY <1>4 DEF Wait, Wake, Leave
<1>5. CASE TakeEvent
  <2>1. queue' = Shifted /\ count' = count - 1 /\ count \in 1 .. MAX_EVENTS
    BY <1>5 DEF TakeEvent
  <2>2. queue[0] \in Events
    BY <2>1
  <2>3. TypeOK'
    BY <1>5, <2>1, <2>2 DEF TakeEvent, Shifted
  <2>4. QueueHoldsEvents'
    BY <2>1 DEF Shifted
  <2>5. NoLostWakeup' /\ HandWhileCalling'
    BY <1>5, <2>2 DEF TakeEvent
  <2> QED BY <2>3, <2>4, <2>5
<1>6. CASE Callback
  BY <1>6 DEF Callback
<1>7. CASE UNCHANGED vars
  BY <1>7 DEF vars
<1> QED BY <1>1, <1>2, <1>3, <1>4, <1>5, <1>6, <1>7 DEF Next

LEMMA Invariance == Spec => []IInv
  BY InitInv, NextInv, PTL DEF Spec

(* The count of the event array stays within the array, however posts and  *)
(* the shift of ul_ecat_eventloop_run interleave (post_evt).               *)
THEOREM EventLoopTypes == Spec => []TypeOK
  BY Invariance, PTL DEF IInv

(* The loop never sleeps on an event or on a stop (post_evt,               *)
(* ul_ecat_eventloop_stop and the wait in ul_ecat_eventloop_run).          *)
THEOREM EventLoopAwake == Spec => []NoLostWakeup
  BY Invariance, PTL DEF IInv

-----------------------------------------------------------------------------
(* The sequence the array stands for, and what the three steps that touch  *)
(* it do to that sequence.                                                 *)
Stored == [i \in 1 .. count |-> queue[i - 1]]

LEMMA StoredSeq ==
  ASSUME IInv
  PROVE  Stored \in Seq(Events) /\ Len(Stored) = count
<1>1. Stored \in [1 .. count -> Events] /\ count \in Nat
  BY EventLoopAssumption DEF IInv, TypeOK, QueueHoldsEvents, Stored, Slots
<1> QED BY <1>1

LEMMA PostAppends ==
  ASSUME IInv, NEW e \in Events, Post(e)
  PROVE  Stored' = IF Len(Stored) < MAX_EVENTS THEN Append(Stored, e) ELSE Stored
<1>1. Stored \in Seq(Events) /\ Len(Stored) = count
  BY StoredSeq
<1>2. CASE count < MAX_EVENTS
  <2>1. queue' = [queue EXCEPT ![count] = e] /\ count' = count + 1
    BY <1>2 DEF Post
  <2>2. Stored' = [i \in 1 .. count + 1 |-> IF i = count + 1 THEN e ELSE Stored[i]]
    BY <1>2, <2>1, EventLoopAssumption DEF IInv, TypeOK, Slots, Stored
  <2>3. /\ Append(Stored, e) \in Seq(Events)
        /\ Len(Append(Stored, e)) = count + 1
        /\ \A i \in 1 .. count : Append(Stored, e)[i] = Stored[i]
        /\ Append(Stored, e)[count + 1] = e
    BY <1>1, AppendProperties
  <2>4. Stored' \in Seq(Events) /\ Len(Stored') = count + 1
    <3>1. Stored' \in [1 .. count + 1 -> Events] /\ count + 1 \in Nat
      BY <1>1, <2>2, EventLoopAssumption DEF IInv, TypeOK
    <3> QED BY <3>1
  <2>5. \A i \in 1 .. count + 1 : Stored'[i] = Append(Stored, e)[i]
    BY <2>2, <2>3, EventLoopAssumption DEF IInv, TypeOK
  <2>6. Stored' = Append(Stored, e)
    BY <2>3, <2>4, <2>5, SeqEqual
  <2> QED BY <1>1, <1>2, <2>6
<1>3. CASE ~(count < MAX_EVENTS)
  <2>1. queue' = queue /\ count' = count
    BY <1>3 DEF Post
  <2> QED BY <1>1, <1>3, <2>1 DEF Stored
<1> QED BY <1>2, <1>3

LEMMA TakeRemoves ==
  ASSUME IInv, TakeEvent
  PROVE  /\ Stored # <<>>
         /\ Stored' = Tail(Stored)
         /\ hand' = Head(Stored)
<1>1. Stored \in Seq(Events) /\ Len(Stored) = count
  BY StoredSeq
<1>2. count \in 1 .. MAX_EVENTS /\ count' = count - 1 /\ queue' = Shifted
  BY EventLoopAssumption DEF IInv, TypeOK, TakeEvent
<1>3. Stored' = [i \in 1 .. count - 1 |-> Stored[i + 1]]
  BY <1>2, EventLoopAssumption DEF IInv, TypeOK, Slots, Stored, Shifted
<1>4. /\ Stored # <<>>
      /\ Tail(Stored) \in Seq(Events)
      /\ Len(Tail(Stored)) = count - 1
      /\ \A i \in 1 .. count - 1 : Tail(Stored)[i] = Stored[i + 1]
  BY <1>1, <1>2, HeadTailProperties
<1>5. Stored' \in Seq(Events) /\ Len(Stored') = count - 1
  <2>1. Stored' \in [1 .. count - 1 -> Events] /\ count - 1 \in Nat
    BY <1>1, <1>2, <1>3
  <2> QED BY <2>1
<1>6. Stored' = Tail(Stored)
  BY <1>3, <1>4, <1>5, SeqEqual
<1>7. hand' = Head(Stored)
  BY <1>1, <1>2, <1>4 DEF TakeEvent, Stored
<1> QED BY <1>4, <1>6, <1>7

(* The array that is shifted down under the mutex, its count and the copy  *)
(* handed to the callback behave as the bounded channel: events come out   *)
(* in the order in which they got in, once each, and the only one lost is  *)
(* the one posted when the array is full.                                  *)
THEOREM EventLoopIsChannel == Spec => ChannelRefinement
<1>1. Init => Channel!Init
  BY DEF Init, Channel!Init
<1>2. ASSUME IInv, [Next]_vars PROVE [Channel!Next]_(Channel!vars)
  <2> USE <1>2 DEF Channel!Next, Channel!vars
  <2>1. ASSUME NEW e \in Events, Post(e) PROVE Channel!Put(e)
    <3>1. Stored' = IF Len(Stored) < MAX_EVENTS THEN Append(Stored, e) ELSE Stored
      BY <2>1, PostAppends
    <3>2. hand' = hand
      BY <2>1 DEF Post
    <3> QED BY <3>1, <3>2 DEF Channel!Put, Stored
  <2>2. ASSUME TakeEvent PROVE Channel!Get
    <3>1. Stored # <<>> /\ Stored' = Tail(Stored) /\ hand' = Head(Stored)
      BY <2>2, TakeRemoves
    <3>2. hand = None
      BY <2>2 DEF TakeEvent, IInv, HandWhileCalling
    <3> QED BY <3>1, <3>2 DEF Channel!Get, Stored
  <2>3. ASSUME Callback PROVE Channel!Done
    BY <2>3 DEF Callback, Channel!Done, IInv, HandWhileCalling
  <2>4. ASSUME UNCHANGED <<queue, count, hand>> PROVE UNCHANGED Channel!vars
    BY <2>4
  <2>5. Stop \/ Run \/ Wait \/ Wake \/ Leave => UNCHANGED <<queue, count, hand>>
    BY DEF Stop, Run, Wait, Wake, Leave
  <2> QED BY <2>1, <2>2, <2>3, <2>4, <2>5 DEF Next, vars
<1>3. Spec => Channel!Spec
  BY <1>1, <1>2, Invariance, PTL DEF Spec, Channel!Spec
<1> QED BY <1>3 DEF ChannelRefinement

=============================================================================
