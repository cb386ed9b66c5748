----------------------------- MODULE EventLoop -----------------------------
(***************************************************************************)
(* The master's event queue and loop (post_evt, ul_ecat_eventloop_run and  *)
(* ul_ecat_eventloop_stop in src/master/ul_ecat_master.c): an array under  *)
(* the event mutex, filled by the worker thread, shifted down by the       *)
(* application thread that runs the loop, and a condition variable between *)
(* them.  Every action but Callback is one critical section.  Callbacks    *)
(* are registered before the loop runs.                                    *)
(***************************************************************************)
EXTENDS Naturals, Sequences

CONSTANTS MAX_EVENTS,    \* 64 in the code
          Events,        \* DC and frame events
          None           \* no event

ASSUME EventLoopAssumption ==
  MAX_EVENTS \in Nat \ {0} /\ None \notin Events

VARIABLES
  queue,     \* g_evt_queue
  count,     \* g_evt_count
  stop,      \* g_evt_stop
  loop,      \* where the thread in ul_ecat_eventloop_run is
  hand       \* the loop's copy of the event whose callback runs

vars == <<queue, count, stop, loop, hand>>

Slots == 0 .. MAX_EVENTS - 1

Init ==
  /\ queue = [i \in Slots |-> None]
  /\ count = 0
  /\ stop = FALSE
  /\ loop = "out"
  /\ hand = None

(* The condition variable wakes the loop if it waits.                      *)
Signal == loop' = IF loop = "wait" THEN "test" ELSE loop

(* Seeded fault: one event more than the queue holds.                      *)
PostOverfull(e) ==
  /\ IF count <= MAX_EVENTS
     THEN /\ queue' = [queue EXCEPT ![count] = e]
          /\ count' = count + 1
          /\ Signal
     ELSE UNCHANGED <<queue, count, loop>>
  /\ UNCHANGED <<stop, hand>>

(* Seeded fault: posting does not signal.                                  *)
PostSilent(e) ==
  /\ IF count < MAX_EVENTS
     THEN /\ queue' = [queue EXCEPT ![count] = e]
          /\ count' = count + 1
     ELSE UNCHANGED <<queue, count>>
  /\ UNCHANGED <<stop, loop, hand>>

(* post_evt.                                                               *)
Post(e) ==
  /\ IF count < MAX_EVENTS
     THEN /\ queue' = [queue EXCEPT ![count] = e]
          /\ count' = count + 1
          /\ Signal
     ELSE UNCHANGED <<queue, count, loop>>
  /\ UNCHANGED <<stop, hand>>

(* Seeded fault: the flag is raised and nobody is told.                    *)
StopSilent == stop' = TRUE /\ UNCHANGED <<queue, count, loop, hand>>

Stop == stop' = TRUE /\ Signal /\ UNCHANGED <<queue, count, hand>>

-----------------------------------------------------------------------------
(* ul_ecat_eventloop_run.  It forgets a stop that came before it.          *)

Run ==
  /\ loop = "out"
  /\ loop' = "test"
  /\ stop' = FALSE
  /\ UNCHANGED <<queue, count, hand>>

Wait ==
  /\ loop = "test" /\ count = 0 /\ ~stop
  /\ loop' = "wait"
  /\ UNCHANGED <<queue, count, stop, hand>>

(* pthread_cond_wait may return without a signal.                          *)
Wake ==
  /\ loop = "wait"
  /\ loop' = "test"
  /\ UNCHANGED <<queue, count, stop, hand>>

Leave ==
  /\ loop = "test" /\ stop
  /\ loop' = "out"
  /\ UNCHANGED <<queue, count, stop, hand>>

(* Seeded fault: the last event of the array is not moved.                 *)
ShiftedShort == [i \in Slots |-> IF i + 2 < count THEN queue[i + 1] ELSE queue[i]]

Shifted == [i \in Slots |-> IF i + 1 < count THEN queue[i + 1] ELSE queue[i]]

TakeEvent ==
  /\ loop = "test" /\ count > 0 /\ ~stop
  /\ hand' = queue[0]
  /\ queue' = Shifted
  /\ count' = count - 1
  /\ loop' = "call"
  /\ UNCHANGED stop

Callback ==
  /\ loop = "call"
  /\ loop' = "test"
  /\ hand' = None
  /\ UNCHANGED <<queue, count, stop>>

Next ==
  \/ \E e \in Events : Post(e)
  \/ Stop
  \/ Run \/ Wait \/ Wake \/ Leave \/ TakeEvent \/ Callback

Spec == Init /\ [][Next]_vars

(* The loop's thread runs, and callbacks return.  Nothing is asked of the  *)
(* threads that post, stop or enter the loop, nor of spurious wake-ups.    *)
FairSpec == Spec /\ WF_vars(Wait \/ Leave \/ TakeEvent \/ Callback)

-----------------------------------------------------------------------------
TypeOK ==
  /\ queue \in [Slots -> Events \cup {None}]
  /\ count \in 0 .. MAX_EVENTS
  /\ stop \in BOOLEAN
  /\ loop \in {"out", "test", "wait", "call"}
  /\ hand \in Events \cup {None}

(* No wake-up is lost ("Block ul_ecat_eventloop_run until an event is      *)
(* posted", doc/architecture.md): the loop sleeps only while there is no   *)
(* event to deliver and nobody has asked it to stop, whatever the order of *)
(* posts, stops and tests of the two conditions.                           *)
NoLostWakeup == loop = "wait" => count = 0 /\ ~stop

(* The array, its count and the copy in the loop's hand are a bounded      *)
(* first-in first-out channel that loses only what is posted when full.    *)
Channel == INSTANCE EventChannel
             WITH Capacity <- MAX_EVENTS,
                  chan     <- [i \in 1 .. count |-> queue[i - 1]],
                  taken    <- hand
ChannelRefinement == Channel!Spec

(* A stop that finds the loop running ends it, however fast events come.   *)
StopEndsRun == stop /\ loop # "out" ~> loop = "out"

=============================================================================
