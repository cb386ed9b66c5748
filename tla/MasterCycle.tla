---------------------------- MODULE MasterCycle ----------------------------
(***************************************************************************)
(* The master's cycle (src/master/ul_ecat_master.c): a thread that calls   *)
(* ul_ecat_master_init and ul_ecat_master_shutdown, the worker thread in   *)
(* between, which reads the reference clock, sends the queued datagrams    *)
(* and drains the socket once per cycle, application threads that queue    *)
(* datagrams or make a blocking exchange, and the event loop.              *)
(*                                                                         *)
(* A datagram is "read" (FPRD of DC System Time) or "other" (FPWR of the   *)
(* System Time Offset, and anything else the application sends); an        *)
(* answered "read" is "near" or "far" by its offset from the master's      *)
(* clock.  What is sent is received by the same socket, if at all.  The    *)
(* event queue is the channel EventLoop implements.                        *)
(***************************************************************************)
EXTENDS Naturals, Sequences

CONSTANTS Q_MAX,         \* 32 in the code
          PER_FRAME,     \* datagrams that fit one frame
          DC_TIMEOUT,    \* 50 in the code
          Capacity,      \* MAX_EVENTS, 64 in the code
          NoOne,         \* the trx mutex is free
          None,          \* no event
          MaxOnWire,     \* bound on frames sent and not yet received
          Answering,     \* does a slave answer reads of the clock
          Exchanges      \* do applications make blocking exchanges

ASSUME MasterCycleAssumption ==
  /\ {Q_MAX, PER_FRAME, DC_TIMEOUT, Capacity} \subseteq Nat \ {0}
  /\ NoOne \notin {"worker", "app"}
  /\ None \notin {"init", "sync", "error", "frame"}
  /\ MaxOnWire \in Nat
  /\ Answering \in BOOLEAN /\ Exchanges \in BOOLEAN

Events == {"init", "sync", "error", "frame"}

VARIABLES
  main,      \* the thread that starts and stops the master
  open,      \* is g_sockfd a socket
  running,   \* g_running
  worker,    \* where the worker thread is
  trx,       \* the holder of the trx mutex
  dc,        \* g_dc_state: 0 off, 1 init, 2 running, 3 error
  silent,    \* g_dc_timeout
  q,         \* g_q
  wire,      \* frames sent and on the ring
  rx,        \* frames in the socket's receive buffer
  frame,     \* datagrams of the received frame still to be looked at
  chan,      \* the event queue
  taken      \* the event whose callback runs

lifecycle == <<main, open, running>>
clock     == <<dc, silent>>
net       == <<wire, rx>>
events    == <<chan, taken>>
vars == <<lifecycle, worker, trx, clock, q, net, frame, events>>

Channel == INSTANCE EventChannel

Init ==
  /\ main = "down" /\ open = FALSE /\ running = TRUE
  /\ worker = "none" /\ trx = NoOne
  /\ dc = 0 /\ silent = 0
  /\ q = <<>>
  /\ wire = <<>> /\ rx = <<>> /\ frame = <<>>
  /\ Channel!Init

(* Seeded fault: one datagram more than the queue holds.                   *)
QueuedOverfull(datagrams, d) ==
  IF Len(datagrams) <= Q_MAX THEN Append(datagrams, d) ELSE datagrams

(* q_push_encoded: what is queued when the queue is full is lost.          *)
Queued(datagrams, d) ==
  IF Len(datagrams) < Q_MAX THEN Append(datagrams, d) ELSE datagrams

-----------------------------------------------------------------------------
(* ul_ecat_master_init.  The datagram queue, the event queue and the DC    *)
(* counters are left as the session before left them.                      *)
MasterInit ==
  /\ main = "down"
  /\ \E enable \in BOOLEAN : dc' = IF enable THEN 1 ELSE 0
  /\ running' = TRUE
  /\ \/ main' = "up" /\ open' = TRUE /\ worker' = "start"
     \/ UNCHANGED <<main, open, worker>>       \* the worker did not start
  /\ UNCHANGED <<trx, silent, q, net, frame, events>>

Shutdown ==
  /\ main = "up"
  /\ main' = "joining"
  /\ running' = FALSE
  /\ UNCHANGED <<open, worker, trx, clock, q, net, frame, events>>

(* Seeded fault: the worker is not waited for.                             *)
CloseUnjoined ==
  /\ main = "joining"
  /\ main' = "down"
  /\ open' = FALSE /\ rx' = <<>>
  /\ worker' = "none"
  /\ UNCHANGED <<running, trx, clock, q, wire, frame, events>>

(* The worker has ended; the socket is closed, without the trx mutex.      *)
Close ==
  /\ main = "joining" /\ worker = "ended"
  /\ main' = "down"
  /\ open' = FALSE /\ rx' = <<>>
  /\ worker' = "none"
  /\ UNCHANGED <<running, trx, clock, q, wire, frame, events>>

-----------------------------------------------------------------------------
(* The worker thread: periodic_thread_func.                                *)

DcInit ==
  /\ worker = "start"
  /\ worker' = "cycle"
  /\ IF dc = 1 THEN silent' = 0 /\ Channel!Put("init")
     ELSE UNCHANGED <<silent, events>>
  /\ UNCHANGED <<lifecycle, trx, dc, q, net, frame>>

(* Seeded fault: only a read that could not be queued counts.              *)
DcCycleForgets ==
  /\ worker = "cycle" /\ running
  /\ worker' = "send"
  /\ IF dc \in {1, 2}
     THEN /\ q' = Queued(q, "read")
          /\ silent' = IF Len(q) < Q_MAX THEN 0 ELSE silent + 1
          /\ IF silent' > DC_TIMEOUT
             THEN dc' = 3 /\ Channel!Put("error")
             ELSE dc' = 2 /\ UNCHANGED events
     ELSE UNCHANGED <<q, clock, events>>
  /\ UNCHANGED <<lifecycle, trx, net, frame>>

(* The loop's test of g_running, then dc_cycle: the clock is asked again,  *)
(* and declared silent after DC_TIMEOUT reads without an answer.           *)
DcCycle ==
  /\ worker = "cycle" /\ running
  /\ worker' = "send"
  /\ IF dc \in {1, 2}
     THEN /\ q' = Queued(q, "read")
          /\ silent' = silent + 1
          /\ IF silent' > DC_TIMEOUT
             THEN dc' = 3 /\ Channel!Put("error")
             ELSE dc' = 2 /\ UNCHANGED events
     ELSE UNCHANGED <<q, clock, events>>
  /\ UNCHANGED <<lifecycle, trx, net, frame>>

End ==
  /\ worker = "cycle" /\ ~running
  /\ worker' = "ended"
  /\ UNCHANGED <<lifecycle, trx, clock, q, net, frame, events>>

(* The frames a batch of datagrams is packed into.                         *)
Batch(datagrams) ==
  [f \in 1 .. (Len(datagrams) + PER_FRAME - 1) \div PER_FRAME |->
     SubSeq(datagrams, (f - 1) * PER_FRAME + 1,
            IF f * PER_FRAME < Len(datagrams) THEN f * PER_FRAME
                                              ELSE Len(datagrams))]

(* ul_ecat_send_batched_frames: under both mutexes, and the queue is empty *)
(* afterwards whether or not the transport took the frames.                *)
SendBatched ==
  /\ worker = "send" /\ trx = NoOne
  /\ worker' = "receive"
  /\ IF open
     THEN /\ q' = <<>>
          /\ \/ /\ Len(wire) + Len(rx) + Len(Batch(q)) <= MaxOnWire
                /\ wire' = wire \o Batch(q)
             \/ UNCHANGED wire
     ELSE UNCHANGED <<q, wire>>
  /\ UNCHANGED <<lifecycle, trx, clock, rx, frame, events>>

(* ul_ecat_receive_frames_nonblock takes the trx mutex, and holds it until *)
(* the socket is empty.                                                    *)
ReceiveLock ==
  /\ worker = "receive" /\ trx = NoOne
  /\ IF open /\ rx # <<>> THEN trx' = "worker" /\ worker' = "drain"
     ELSE worker' = "cycle" /\ UNCHANGED trx
  /\ UNCHANGED <<lifecycle, clock, q, net, frame, events>>

ReceiveFrame ==
  /\ worker = "drain" /\ rx # <<>>
  /\ rx' = Tail(rx)
  /\ frame' = Head(rx)
  /\ worker' = "parse"
  /\ UNCHANGED <<lifecycle, trx, clock, q, wire, events>>

ReceiveUnlock ==
  /\ worker = "drain" /\ rx = <<>>
  /\ trx' = NoOne
  /\ worker' = "cycle"
  /\ UNCHANGED <<lifecycle, clock, q, net, frame, events>>

(* handle_dc_response, whatever state the clock is in.                     *)
HandleDcResponse(answer) ==
  /\ silent' = 0
  /\ \/ /\ answer = "near"
        /\ q' = Queued(q, "other")
        /\ Channel!Put("sync")
        /\ UNCHANGED dc
     \/ answer = "far" /\ dc' = 3 /\ Channel!Put("error") /\ UNCHANGED q

(* process_rx_datagrams looks at the next datagram.                        *)
ProcessRx ==
  /\ worker = "parse" /\ frame # <<>>
  /\ frame' = Tail(frame)
  /\ IF Head(frame) \in {"near", "far"} THEN HandleDcResponse(Head(frame))
     ELSE UNCHANGED <<clock, q, events>>
  /\ UNCHANGED <<lifecycle, worker, trx, net>>

(* Seeded fault: the worker waits for room in the event queue.             *)
PostFrameWaits ==
  /\ worker = "parse" /\ frame = <<>>
  /\ Len(chan) < Capacity
  /\ worker' = "drain"
  /\ Channel!Put("frame")
  /\ UNCHANGED <<lifecycle, trx, clock, q, net, frame>>

PostFrame ==
  /\ worker = "parse" /\ frame = <<>>
  /\ worker' = "drain"
  /\ Channel!Put("frame")
  /\ UNCHANGED <<lifecycle, trx, clock, q, net, frame>>

-----------------------------------------------------------------------------
(* Application threads.                                                    *)

(* ul_ecat_queue_fprd and ul_ecat_queue_fpwr, in a session or not.         *)
QueueApp ==
  /\ q' = Queued(q, "other")
  /\ UNCHANGED <<lifecycle, worker, trx, clock, net, frame, events>>

(* A blocking exchange takes the mutex and sends, as long as there is a    *)
(* socket: while a shutdown waits for the worker, too.                     *)
Exchange ==
  /\ Exchanges /\ open /\ trx = NoOne
  /\ Len(wire) + Len(rx) < MaxOnWire
  /\ trx' = "app"
  /\ wire' = Append(wire, <<"other">>)
  /\ UNCHANGED <<lifecycle, worker, clock, q, rx, frame, events>>

(* It takes the next frame there is, or gives up.                          *)
Exchanged ==
  /\ trx = "app"
  /\ trx' = NoOne
  /\ rx' = IF rx # <<>> THEN Tail(rx) ELSE rx
  /\ UNCHANGED <<lifecycle, worker, clock, q, wire, frame, events>>

(* ul_ecat_eventloop_run, and the callback it runs.                        *)
TakeEvent ==
  /\ Channel!Get
  /\ UNCHANGED <<lifecycle, worker, trx, clock, q, net, frame>>

Callback ==
  /\ Channel!Done
  /\ UNCHANGED <<lifecycle, worker, trx, clock, q, net, frame>>

-----------------------------------------------------------------------------
(* The ring answers the reads of a frame if a slave has the clock, and may *)
(* lose the frame.  What is no answer of the clock nobody looks at.        *)
Answers(d) == IF d = "read" /\ Answering THEN {"near", "far", "other"}
                                         ELSE {"other"}

Ring ==
  /\ wire # <<>>
  /\ wire' = Tail(wire)
  /\ \/ UNCHANGED rx
     \/ \E answer \in [1 .. Len(Head(wire)) -> {"near", "far", "other"}] :
          /\ \A i \in DOMAIN answer : answer[i] \in Answers(Head(wire)[i])
          /\ rx' = IF open THEN Append(rx, answer) ELSE rx
  /\ UNCHANGED <<lifecycle, worker, trx, clock, q, frame, events>>

Worker ==
  \/ DcInit \/ DcCycle \/ End \/ SendBatched
  \/ ReceiveLock \/ ReceiveFrame \/ ReceiveUnlock \/ ProcessRx \/ PostFrame

Next ==
  \/ MasterInit \/ Shutdown \/ Close
  \/ Worker
  \/ QueueApp \/ Exchange \/ Exchanged
  \/ TakeEvent \/ Callback
  \/ Ring

Spec == Init /\ [][Next]_vars

(* The worker gets the mutex in the end, an exchange ends, and a shutdown  *)
(* that was begun goes on.  Nothing is asked of the event loop, the ring   *)
(* or the application.                                                     *)
FairSpec == Spec /\ SF_vars(Worker) /\ WF_vars(Exchanged) /\ WF_vars(Close)

-----------------------------------------------------------------------------
TypeOK ==
  /\ main \in {"down", "up", "joining"}
  /\ open \in BOOLEAN /\ running \in BOOLEAN
  /\ worker \in {"none", "start", "cycle", "send", "receive", "drain", "parse",
                 "ended"}
  /\ trx \in {NoOne, "worker", "app"}
  /\ dc \in 0 .. 3
  /\ silent \in 0 .. DC_TIMEOUT + 1
  /\ q \in Seq({"read", "other"}) /\ Len(q) <= Q_MAX
  /\ chan \in Seq(Events) /\ Len(chan) <= Capacity
  /\ taken \in Events \cup {None}

(* The worker never touches a socket that ul_ecat_master_shutdown closed,  *)
(* and no worker outlives its session: there is at most one.               *)
WorkerHasSocket ==
  /\ worker # "none" => open
  /\ trx = "worker" <=> worker \in {"drain", "parse"}

(* A shutdown comes back, whatever the ring, the event queue and the       *)
(* blocking exchanges do.                                                  *)
ShutdownReturns == main = "joining" ~> main = "down"

(* A clock that stays silent is noticed: synchronisation goes on only if   *)
(* an answer within the threshold is handled again and again, however full *)
(* the queue is and whoever else takes frames from the socket.             *)
Answered == worker = "parse" /\ frame # <<>> /\ Head(frame) = "near"
SilenceNoticed == <>[](dc = 2 /\ main = "up") => []<>Answered

(* "Serialize access to the socket path" (doc/architecture.md): the socket *)
(* is closed when nobody uses it under the trx mutex.                      *)
ClosedUnderLock == [][open /\ ~open' => trx = NoOne]_vars

=============================================================================
