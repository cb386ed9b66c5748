------------------------- MODULE MasterCycleProofs -------------------------
(***************************************************************************)
(* The worker of the master's cycle always has a socket under it, and the  *)
(* queues and the count of the clock's silence keep within their limits,   *)
(* for every size of the queues and every clock limit.                     *)
(***************************************************************************)
EXTENDS MasterCycle, TLAPS

WorkerStages == {"start", "cycle", "send", "receive", "drain", "parse", "ended"}

(* A session is the time in which the socket is open, and the time in      *)
(* which there is a worker: shutdown joins it before it closes.            *)
InSession ==
  /\ main \in {"down", "up", "joining"}
  /\ open \in BOOLEAN
  /\ worker \in WorkerStages \cup {"none"}
  /\ open <=> main # "down"
  /\ worker # "none" <=> main # "down"

(* Who drains the socket, and nobody else of the worker, holds trx.        *)
TrxWhileDraining ==
  /\ trx \in {NoOne, "worker", "app"}
  /\ trx = "worker" <=> worker \in {"drain", "parse"}

IInv == InSession /\ TrxWhileDraining

LEMMA InitInv == Init => IInv
  BY MasterCycleAssumption
  DEF Init, IInv, InSession, TrxWhileDraining, WorkerStages

LEMMA NextInv == IInv /\ [Next]_vars => IInv'
<1> SUFFICES ASSUME IInv, [Next]_vars PROVE IInv'
  OBVIOUS
<1> USE MasterCycleAssumption
        DEF IInv, InSession, TrxWhileDraining, WorkerStages, lifecycle
<1>1. CASE MasterInit
  <2>1. trx' = trx
    BY <1>1 DEF MasterInit
  <2>2. CASE main' = "up" /\ open' = TRUE /\ worker' = "start"
    <3>1. trx # "worker"
      BY <1>1 DEF MasterInit
    <3> QED BY <2>1, <2>2, <3>1
  <2>3. CASE UNCHANGED <<main, open, worker>>
    BY <2>1, <2>3
  <2> QED BY <1>1, <2>2, <2>3 DEF MasterInit
<1>2. CASE Shutdown
  BY <1>2 DEF Shutdown
<1>3. CASE Close
  BY <1>3 DEF Close
<1>4. CASE DcInit \/ DcCycle \/ End
  BY <1>4 DEF DcInit, DcCycle, End
<1>5. CASE SendBatched
  BY <1>5 DEF SendBatched
<1>6. CASE ReceiveLock
  BY <1>6 DEF ReceiveLock
<1>7. CASE ReceiveFrame \/ ReceiveUnlock
  BY <1>7 DEF ReceiveFrame, ReceiveUnlock
<1>8. CASE ProcessRx \/ PostFrame
  BY <1>8 DEF ProcessRx, PostFrame
<1>9. CASE QueueApp \/ TakeEvent \/ Callback \/ Ring
  BY <1>9 DEF QueueApp, TakeEvent, Callback, Ring
<1>10. CASE Exchange
  BY <1>10 DEF Exchange
<1>11. CASE Exchanged
  BY <1>11 DEF Exchanged
<1>12. CASE UNCHANGED vars
  BY <1>12 DEF vars
<1> QED
  BY <1>1, <1>2, <1>3, <1>4, <1>5, <1>6, <1>7, <1>8, <1>9, <1>10, <1>11, <1>12
  DEF Next, Worker

(* The worker never uses a socket that was closed, and no worker survives  *)
(* its session (ul_ecat_master_shutdown joins the worker before it closes  *)
(* the socket, without the trx mutex).                                     *)
THEOREM MasterWorkerHasSocket == Spec => []WorkerHasSocket
<1>1. IInv => WorkerHasSocket
  BY DEF IInv, InSession, TrxWhileDraining, WorkerHasSocket
<1> QED BY InitInv, NextInv, <1>1, PTL DEF Spec

-----------------------------------------------------------------------------
(* The types.  The count of reads without an answer is carried from one    *)
(* session to the next, at its limit too: it cannot pass the limit only    *)
(* because a clock that is on when the worker starts is in its first       *)
(* state, in which the worker sets the count back before it reads.         *)
SilenceBounded ==
  /\ worker = "start" => dc \in {0, 1}
  /\ dc \in {1, 2} /\ worker \notin {"none", "start"} => silent <= DC_TIMEOUT

TInv == IInv /\ TypeOK /\ SilenceBounded

Datagrams == {"read", "other"}
QueueOK(datagrams) == datagrams \in Seq(Datagrams) /\ Len(datagrams) <= Q_MAX
EventsOK ==
  /\ chan \in Seq(Events) /\ Len(chan) <= Capacity
  /\ taken \in Events \cup {None}

(* q_push_encoded keeps the queue within Q_MAX.                            *)
LEMMA QueuedFits ==
  ASSUME NEW datagrams, QueueOK(datagrams), NEW d \in Datagrams
  PROVE  QueueOK(Queued(datagrams, d))
<1>1. Q_MAX \in Nat
  BY MasterCycleAssumption
<1>2. CASE Len(datagrams) < Q_MAX
  <2>1. Queued(datagrams, d) = Append(datagrams, d)
    BY <1>2 DEF Queued
  <2>2. /\ Append(datagrams, d) \in Seq(Datagrams)
        /\ Len(Append(datagrams, d)) = Len(datagrams) + 1
        /\ Len(datagrams) \in Nat
    BY DEF QueueOK
  <2> QED BY <1>1, <1>2, <2>1, <2>2 DEF QueueOK
<1>3. CASE ~(Len(datagrams) < Q_MAX)
  BY <1>3 DEF Queued
<1> QED BY <1>2, <1>3

(* post_evt keeps the event queue within its capacity.                     *)
LEMMA PutFits ==
  ASSUME EventsOK, NEW e \in Events, Channel!Put(e)
  PROVE  EventsOK'
<1>1. Capacity \in Nat /\ Len(chan) \in Nat
  BY MasterCycleAssumption DEF EventsOK
<1>2. CASE Len(chan) < Capacity
  <2>1. chan' = Append(chan, e)
    BY <1>2 DEF Channel!Put
  <2>2. Append(chan, e) \in Seq(Events) /\ Len(Append(chan, e)) = Len(chan) + 1
    BY DEF EventsOK
  <2> QED BY <1>1, <1>2, <2>1, <2>2 DEF EventsOK, Channel!Put
<1>3. CASE ~(Len(chan) < Capacity)
  BY <1>3 DEF EventsOK, Channel!Put
<1> QED BY <1>2, <1>3

LEMMA TypeInit == Init => TInv
<1>1. <<>> \in Seq(Datagrams) /\ <<>> \in Seq(Events) /\ Len(<<>>) = 0
  OBVIOUS
<1>2. Q_MAX \in Nat /\ DC_TIMEOUT \in Nat /\ Capacity \in Nat
  BY MasterCycleAssumption
<1> SUFFICES ASSUME Init PROVE TypeOK /\ SilenceBounded
  BY InitInv DEF TInv
<1>3. q \in Seq(Datagrams) /\ Len(q) <= Q_MAX
  BY <1>1, <1>2 DEF Init
<1>4. /\ chan \in Seq(Events) /\ Len(chan) <= Capacity
      /\ taken \in Events \cup {None}
  BY <1>1, <1>2 DEF Init, Channel!Init
<1>5. silent \in 0 .. DC_TIMEOUT + 1 /\ dc \in 0 .. 3
  BY <1>2 DEF Init
<1> QED
  BY <1>3, <1>4, <1>5 DEF Init, TypeOK, SilenceBounded, Datagrams

LEMMA TypeStep == TInv /\ [Next]_vars => TInv'
<1> SUFFICES ASSUME TInv, [Next]_vars PROVE TInv'
  OBVIOUS
<1>1. QueueOK(q) /\ EventsOK
  BY DEF TInv, TypeOK, QueueOK, EventsOK, Datagrams
<1>2. DC_TIMEOUT \in Nat
  BY MasterCycleAssumption
<1>3. IInv'
  BY NextInv DEF TInv
<1>4. ASSUME QueueOK(q'), EventsOK',
             main' \in {"down", "up", "joining"},
             open' \in BOOLEAN, running' \in BOOLEAN,
             worker' \in WorkerStages \cup {"none"},
             trx' \in {NoOne, "worker", "app"},
             dc' \in 0 .. 3, silent' \in 0 .. DC_TIMEOUT + 1,
             SilenceBounded'
      PROVE  TInv'
  BY <1>3, <1>4 DEF TInv, TypeOK, QueueOK, EventsOK, Datagrams, WorkerStages
<1> USE <1>1, <1>2 DEF TInv, TypeOK, SilenceBounded, WorkerStages,
                      lifecycle, clock, events
<1>5. CASE MasterInit
  <2>1. q' = q /\ UNCHANGED events
    BY <1>5 DEF MasterInit
  <2>2. QueueOK(q') /\ EventsOK'
    BY <2>1 DEF EventsOK
  <2>3. worker = "none"
    BY <1>5 DEF MasterInit, IInv, InSession
  <2>4. dc' \in {0, 1} /\ silent' = silent /\ trx' = trx /\ running' = TRUE
    BY <1>5 DEF MasterInit
  <2>5. /\ main' \in {"down", "up", "joining"} /\ open' \in BOOLEAN
        /\ worker' \in {"none", "start"}
    BY <1>5, <2>3 DEF MasterInit
  <2>6. SilenceBounded'
    BY <2>4, <2>5
  <2> QED BY <1>4, <2>2, <2>4, <2>5, <2>6
<1>6. CASE Shutdown \/ Close \/ End \/ ReceiveLock \/ ReceiveFrame \/ ReceiveUnlock
           \/ Exchange \/ Exchanged \/ Ring
  <2>1. QueueOK(q') /\ EventsOK'
    BY <1>6 DEF Shutdown, Close, End, ReceiveLock, ReceiveFrame, ReceiveUnlock,
                Exchange, Exchanged, Ring, EventsOK
  <2> QED
    BY <1>4, <1>6, <2>1
    DEF Shutdown, Close, End, ReceiveLock, ReceiveFrame, ReceiveUnlock,
        Exchange, Exchanged, Ring
<1>7. CASE DcInit
  <2>1. QueueOK(q')
    BY <1>7 DEF DcInit
  <2>2. EventsOK'
    BY <1>7, PutFits DEF DcInit, EventsOK, Events
  <2> QED BY <1>4, <1>7, <2>1, <2>2 DEF DcInit
<1>8. CASE DcCycle
  <2>1. QueueOK(q')
    BY <1>8, QueuedFits DEF DcCycle, Datagrams
  <2>2. EventsOK'
    BY <1>8, PutFits DEF DcCycle, EventsOK, Events
  <2> QED BY <1>4, <1>8, <2>1, <2>2 DEF DcCycle
<1>9. CASE SendBatched
  <2>1. QueueOK(<<>>)
    BY MasterCycleAssumption DEF QueueOK
  <2>2. QueueOK(q') /\ EventsOK'
    BY <1>9, <2>1 DEF SendBatched, EventsOK
  <2> QED BY <1>4, <1>9, <2>2 DEF SendBatched
<1>10. CASE ProcessRx
  <2>1. QueueOK(q')
    BY <1>10, QueuedFits DEF ProcessRx, HandleDcResponse, Datagrams
  <2>2. EventsOK'
    BY <1>10, PutFits DEF ProcessRx, HandleDcResponse, EventsOK, Events
  <2> QED BY <1>4, <1>10, <2>1, <2>2 DEF ProcessRx, HandleDcResponse
<1>11. CASE PostFrame
  <2>1. QueueOK(q')
    BY <1>11 DEF PostFrame
  <2>2. EventsOK'
    BY <1>11, PutFits DEF PostFrame, Events
  <2> QED BY <1>4, <1>11, <2>1, <2>2 DEF PostFrame
<1>12. CASE QueueApp
  <2>1. QueueOK(q')
    BY <1>12, QueuedFits DEF QueueApp, Datagrams
  <2>2. EventsOK'
    BY <1>12 DEF QueueApp, EventsOK
  <2> QED BY <1>4, <1>12, <2>1, <2>2 DEF QueueApp
<1>13. CASE TakeEvent
  <2>1. QueueOK(q')
    BY <1>13 DEF TakeEvent
  <2>2. chan # <<>> /\ chan' = Tail(chan) /\ taken' = Head(chan)
    BY <1>13 DEF TakeEvent, Channel!Get
  <2>3. EventsOK'
    BY <2>2, MasterCycleAssumption DEF EventsOK
  <2> QED BY <1>4, <1>13, <2>1, <2>3 DEF TakeEvent
<1>14. CASE Callback
  <2>1. QueueOK(q') /\ EventsOK'
    BY <1>14 DEF Callback, Channel!Done, EventsOK
  <2> QED BY <1>4, <1>14, <2>1 DEF Callback
<1>15. CASE UNCHANGED vars
  <2>1. QueueOK(q') /\ EventsOK'
    BY <1>15 DEF vars, EventsOK
  <2> QED BY <1>4, <1>15, <2>1 DEF vars
<1> QED
  BY <1>5, <1>6, <1>7, <1>8, <1>9, <1>10, <1>11, <1>12, <1>13, <1>14, <1>15
  DEF Next, Worker

(* The datagram queue, the event queue and the count of unanswered reads   *)
(* (g_q, g_evt_count, g_dc_timeout) keep within their limits over every    *)
(* number of sessions, also when a session begins with what the one before *)
(* it left (ul_ecat_master_init, dc_init, dc_cycle).                       *)
THEOREM MasterTypes == Spec => []TypeOK
<1>1. TInv => TypeOK
  BY DEF TInv
<1> QED BY TypeInit, TypeStep, <1>1, PTL DEF Spec

=============================================================================
