------------------------------- MODULE Slave -------------------------------
(***************************************************************************)
(* A slave behind the software Ethernet controller.                        *)
(*                                                                         *)
(* ul_ecat_slave_controller_process_ethernet walks the datagrams of a      *)
(* frame in order and, if the whole frame was processed, hands a pending   *)
(* mailbox request to the application's handler.  A datagram the walk      *)
(* cannot parse (longer than DG_DATA_MAX) makes it return without a reply, *)
(* and without undoing the datagrams before it.  Between frames the        *)
(* application polls, posts mailbox frames of its own, and may reset the   *)
(* slave.  The datagrams of a frame are chosen one at a time.              *)
(***************************************************************************)
EXTENDS SlaveEsc

CONSTANTS Datagrams,     \* the datagrams the bus may carry
          Replies        \* the mailbox frames the application may post

ASSUME SlaveAssumption == Datagrams \subseteq Datagram
                       /\ Replies \subseteq Seq(Nat)

(* What the bus writes when it is used as the master and the tests of this *)
(* repository use it: AL Status and its code are left to the slave, a      *)
(* write that makes SM1 a mailbox also places its buffer above the         *)
(* registers, and nobody but the slave raises SM0's MBX_FULL.              *)
Writes(dg, a) == /\ dg.cmd \in {"FPWR", "APWR"}
                 /\ a \in dg.ado .. dg.ado + Len(dg.data) - 1
ValueAt(dg, a) == dg.data[a - dg.ado + 1]

BusDiscipline ==
  \A dg \in Datagrams :
    /\ ~Writes(dg, ALSTAT) /\ ~Writes(dg, ALSTACODE)
    /\ Writes(dg, SmBase(1)) => ValueAt(dg, SmBase(1)) >= MBX_BASE
    /\ Writes(dg, SmBase(1) + 2) => Writes(dg, SmBase(1))
    /\ Writes(dg, SmStatus(0)) => ValueAt(dg, SmStatus(0)) # MBX_FULL

(* SM1 is given its place together with its status, which that clears, and *)
(* no datagram writes where a reply may lie.                               *)
Fits(dg) == dg.ado + Len(dg.data) <= ESC_SIZE
Untouched(start, length) ==
  \A dg \in Datagrams : Fits(dg) =>
    \A i \in 1 .. length : ~Writes(dg, start + i - 1)

Sm1Discipline ==
  \A dg \in Datagrams : Fits(dg) =>
    /\ Writes(dg, SmStatus(1)) => ValueAt(dg, SmStatus(1)) # MBX_FULL
    /\ Writes(dg, SmBase(1)) \/ Writes(dg, SmBase(1) + 1) =>
         /\ Writes(dg, SmBase(1)) /\ Writes(dg, SmStatus(1))
         /\ Untouched(ValueAt(dg, SmBase(1)), ValueAt(dg, SmBase(1) + 1))

VARIABLES
  esc,       \* ul_ecat_slave_t.esc
  phase,     \* "idle" between frames, "walk" inside process_pdu
  lastAl,    \* ul_ecat_slave_controller_t.last_al_status
  landed,    \* history: SM0 was completed since the handler last ran
  reply      \* history: SM1's content after the last accepted reply

vars == <<esc, phase, lastAl, landed, reply>>

-----------------------------------------------------------------------------
(* ul_ecat_slave_controller_init.                                          *)
Init ==
  /\ esc = EscReset
  /\ phase = "idle"
  /\ lastAl = AL_INIT
  /\ landed = FALSE
  /\ reply = <<>>

(* A frame whose datagrams can be counted reaches the walk.                *)
StartFrame ==
  /\ phase = "idle"
  /\ phase' = "walk"
  /\ UNCHANGED <<esc, lastAl, landed, reply>>

ProcessDatagram(dg) ==
  /\ phase = "walk"
  /\ esc' = ProcessOne(esc, dg).esc
  /\ landed' = (landed \/ /\ Served(esc, dg)
                          /\ dg.cmd = "FPWR"
                          /\ CompletesMailbox(esc', 0, dg.ado, Len(dg.data)))
  /\ UNCHANGED <<phase, lastAl, reply>>

(* A datagram of the frame cannot be parsed: no reply and no dispatch.     *)
AbortFrame ==
  /\ phase = "walk"
  /\ phase' = "idle"
  /\ UNCHANGED <<esc, lastAl, landed, reply>>

Padded(sm, frame) ==
  [i \in 1 .. sm.length |-> IF i <= Len(frame) THEN frame[i] ELSE 0]

(* ul_ecat_slave_controller_mailbox_reply.                                 *)
PostReply(e, frame) ==
  reply' = IF Sm1Accepts(e, frame) THEN Padded(SmRead(e, 1), frame) ELSE reply

RequestReady(e) ==
  LET sm == SmRead(e, 0)
  IN  IsMailbox(sm) /\ sm.status = MBX_FULL /\ sm.start + sm.length <= ESC_SIZE

(* Seeded fault: the handler runs and SM0 stays full.                      *)
FinishFrameKeepsFull ==
  /\ phase = "walk"
  /\ phase' = "idle"
  /\ IF RequestReady(esc)
     THEN /\ landed' = FALSE
          /\ \/ UNCHANGED <<esc, reply>>
             \/ \E frame \in Replies :
                  esc' = MailboxWriteSm1(esc, frame) /\ PostReply(esc, frame)
     ELSE UNCHANGED <<esc, landed, reply>>
  /\ UNCHANGED lastAl

(* The frame is done; dispatch_mailbox_if_ready runs the handler, which    *)
(* posts at most one reply, and only then clears SM0's MBX_FULL.           *)
FinishFrame ==
  /\ phase = "walk"
  /\ phase' = "idle"
  /\ IF RequestReady(esc)
     THEN /\ landed' = FALSE
          /\ \/ esc' = [esc EXCEPT ![SmStatus(0)] = 0] /\ UNCHANGED reply
             \/ \E frame \in Replies :
                  /\ esc' = [MailboxWriteSm1(esc, frame)
                               EXCEPT ![SmStatus(0)] = 0]
                  /\ PostReply(esc, frame)
     ELSE UNCHANGED <<esc, landed, reply>>
  /\ UNCHANGED lastAl

(* The application posts a mailbox frame outside the handler.              *)
AppReply(frame) ==
  /\ phase = "idle"
  /\ esc' = MailboxWriteSm1(esc, frame)
  /\ PostReply(esc, frame)
  /\ UNCHANGED <<phase, lastAl, landed>>

(* Seeded fault: a change of the error bit alone is not seen.              *)
PollStateOnly ==
  /\ phase = "idle"
  /\ lastAl' = IF StateOf(lastAl) = StateOf(esc[ALSTAT]) THEN lastAl
               ELSE esc[ALSTAT]
  /\ UNCHANGED <<esc, phase, landed, reply>>

(* ul_ecat_slave_controller_poll: the callback is told of an AL Status     *)
(* that differs from the one of the last poll.                             *)
Poll ==
  /\ phase = "idle"
  /\ lastAl' = esc[ALSTAT]
  /\ UNCHANGED <<esc, phase, landed, reply>>

(* ul_ecat_slave_reset leaves the controller's own fields alone.           *)
Reset ==
  /\ phase = "idle"
  /\ esc' = EscReset
  /\ landed' = FALSE
  /\ UNCHANGED <<phase, lastAl, reply>>

Next ==
  \/ StartFrame
  \/ \E dg \in Datagrams : ProcessDatagram(dg)
  \/ AbortFrame
  \/ FinishFrame
  \/ \E frame \in Replies : AppReply(frame)
  \/ Poll
  \/ Reset

Spec == Init /\ [][Next]_vars

(* The main loop finishes the frame it walks (frames are finite), and      *)
(* polls after each one (doc/slave-architecture.md, software path).        *)
FairSpec == Spec /\ WF_vars(FinishFrame \/ AbortFrame) /\ SF_vars(Poll)

-----------------------------------------------------------------------------
(* The mirror keeps its shape, whatever the bus writes.                    *)
TypeOK ==
  /\ esc \in Mirror
  /\ phase \in {"idle", "walk"}
  /\ lastAl \in Nat
  /\ landed \in BOOLEAN
  /\ reply \in Seq(Nat)

(* A pending request in SM0 was put there by a write that completed the    *)
(* buffer after the handler last ran: the handler never runs for the same  *)
(* request twice, for a buffer nobody finished, or for one from before a   *)
(* reset.  It relates on_sm0_write, the dispatch and the reset.            *)
FullMeansLanded == esc[SmStatus(0)] = MBX_FULL => landed

(* While SM1 reports a reply, its buffer holds exactly the last reply the  *)
(* application posted, padded with zeros: no tail of an older, longer      *)
(* reply, no bytes changed by AL control or SM0 traffic.                   *)
Sm1HoldsReply ==
  LET sm == SmRead(esc, 1)
  IN  esc[SmStatus(1)] = MBX_FULL /\ IsMailbox(sm)
        => EscRead(esc, sm.start, sm.length) = reply

(* The AL registers, through every sequence of control writes,             *)
(* acknowledgements, SyncManager configurations and resets, behave as the  *)
(* abstract AL state machine.                                              *)
Al == INSTANCE AlMachine WITH al   <- StateOf(esc[ALSTAT]),
                              flag <- Bit4Of(esc[ALSTAT]),
                              code <- esc[ALSTACODE]
AlRefinement == Al!Spec

(* An AL Status that stays is eventually the one the application was last  *)
(* told (on_al_status), also when it changed and changed back, or was set  *)
(* by a reset, between two polls.                                          *)
AlStatusReported ==
  \A s \in AlStates \cup {t + BIT4 : t \in AlStates} :
    <>[](esc[ALSTAT] = s) => <>[](lastAl = s)

=============================================================================
