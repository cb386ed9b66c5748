------------------------------ MODULE SlaveEsc ------------------------------
(***************************************************************************)
(* The slave's ESC register mirror and everything the slave library does   *)
(* to it while it walks one datagram: the EtherCAT commands FPRD, FPWR and *)
(* APWR (src/slave/ul_ecat_slave_pdu.c), the AL state machine behind AL    *)
(* Control (src/slave/ul_ecat_slave_al.c) and the mailbox SyncManagers     *)
(* (src/slave/ul_ecat_slave_sm.h, src/slave/ul_ecat_slave_mailbox.c).      *)
(*                                                                         *)
(* The 4096-byte array esc[] is scaled down to one cell per register and   *)
(* one cell per mailbox byte; the order of the registers is kept, so that  *)
(* ranges, overlaps and ends mean what they mean in the code.  The module  *)
(* has no variables: an operator takes a mirror and returns a mirror.      *)
(***************************************************************************)
EXTENDS Integers, Sequences

CONSTANT ESC_SIZE        \* UL_ECAT_SLAVE_ESC_SIZE, in cells

(* Register cells, in the order of include/ul_ecat_esc_regs.h.  STADR is   *)
(* not 0 in the code either; address 0 stands for the registers below it.  *)
STADR     == 1
ALCTL     == 2
ALSTAT    == 3
ALSTACODE == 4
SM0       == 5
SM_SIZE   == 5           \* start, length, control, status, activate
MBX_BASE  == SM0 + 2 * SM_SIZE   \* first cell above the registers

(* At least one cell for each of the two mailboxes.                        *)
ASSUME EscSizeAssumption == ESC_SIZE \in Nat /\ ESC_SIZE >= MBX_BASE + 2

Addr   == 0 .. ESC_SIZE - 1
Mirror == [Addr -> Nat]

-----------------------------------------------------------------------------
(* The accessors of src/slave/ul_ecat_esc.c.  EscWrite is the memcpy: past *)
(* the end of the mirror it would write cells that do not exist.           *)

(* Seeded fault: the last cell a transfer touches is not counted.          *)
InMirrorOffByOne(ado, len) == len > 0 /\ ado + len - 1 <= ESC_SIZE

InMirror(ado, len) == len > 0 /\ ado + len <= ESC_SIZE

EscRead(esc, ado, len) == [i \in 1 .. len |-> esc[ado + i - 1]]

EscWrite(esc, ado, data) ==
  [a \in DOMAIN esc \cup (ado .. ado + Len(data) - 1) |->
     IF a \in ado .. ado + Len(data) - 1 THEN data[a - ado + 1] ELSE esc[a]]

-----------------------------------------------------------------------------
(* AL Control and AL Status words (include/ul_ecat_al.h): the state in the *)
(* low four bits; bit 4 acknowledges in AL Control and reports an error in *)
(* AL Status.                                                              *)
AL_INIT   == 1
AL_PREOP  == 2
AL_BOOT   == 3
AL_SAFEOP == 4
AL_OP     == 8
AlStates  == {AL_INIT, AL_PREOP, AL_SAFEOP, AL_OP}

BIT4 == 16               \* UL_ECAT_AL_CTRL_ACK, UL_ECAT_AL_STAT_ERR
StateOf(word) == word % BIT4
Bit4Of(word)  == (word \div BIT4) % 2 = 1

ERR_NONE         == 0
ERR_STATE_CHANGE == 17   \* 0x0011
ERR_BOOTSTRAP    == 19   \* 0x0013
ERR_MAILBOX_CFG  == 22   \* 0x0016
AlErrors == {ERR_STATE_CHANGE, ERR_BOOTSTRAP, ERR_MAILBOX_CFG}

(* Seeded fault: every way down is legal, not only the next rung.          *)
AnyWayDown(from, to) ==
  \/ to \in AlStates /\ to < from
  \/ <<from, to>> \in { <<AL_INIT, AL_PREOP>>, <<AL_PREOP, AL_SAFEOP>>,
                        <<AL_SAFEOP, AL_OP>> }

ValidTransition(from, to) ==
  \/ to = AL_INIT
  \/ <<from, to>> \in { <<AL_INIT, AL_PREOP>>,   <<AL_PREOP, AL_SAFEOP>>,
                        <<AL_SAFEOP, AL_OP>>,    <<AL_SAFEOP, AL_PREOP>>,
                        <<AL_OP, AL_SAFEOP>> }

-----------------------------------------------------------------------------
(* A SyncManager block.  Of its status byte only MBX_FULL is kept, of its  *)
(* control byte only the mode, of its activate byte only the enable bit.   *)
MODE_BUF == 0
MODE_MBX == 2
MBX_FULL == 8

SmBase(k)   == SM0 + k * SM_SIZE
SmStatus(k) == SmBase(k) + 3

SmRead(esc, k) ==
  LET base == SmBase(k)
  IN  [start    |-> esc[base],     length |-> esc[base + 1],
       control  |-> esc[base + 2], status |-> esc[base + 3],
       activate |-> esc[base + 4]]

(* ul_ecat_sm_is_active, ul_ecat_sm_is_mailbox and the non-zero length     *)
(* that every user of a mailbox SyncManager tests together.                *)
IsMailbox(sm) == sm.activate = 1 /\ sm.control = MODE_MBX /\ sm.length # 0

MailboxPairValid(esc) == \A k \in {0, 1} : IsMailbox(SmRead(esc, k))

-----------------------------------------------------------------------------
(* The AL state machine: ul_ecat_slave_al_on_control_write, run when a     *)
(* bus write covers AL Control.                                            *)

WriteAlStatus(esc, status, code) ==
  [esc EXCEPT ![ALSTAT] = status, ![ALSTACODE] = code]

(* The error a request for state req is refused with in state cur, or      *)
(* ERR_NONE.  BOOT is refused before the table of transitions is read.     *)
AlRefusal(esc, cur, req) ==
  IF req = AL_BOOT THEN ERR_BOOTSTRAP
  ELSE IF ~ValidTransition(cur, req) THEN ERR_STATE_CHANGE
  ELSE IF cur = AL_INIT /\ req = AL_PREOP /\ ~MailboxPairValid(esc)
       THEN ERR_MAILBOX_CFG
  ELSE ERR_NONE

AlOnControlWrite(esc) ==
  LET cur  == StateOf(esc[ALSTAT])
      req  == StateOf(esc[ALCTL])
      ack  == Bit4Of(esc[ALCTL])
      code == AlRefusal(esc, cur, req)
  IN  IF req = cur
        THEN IF ack THEN WriteAlStatus(esc, cur, ERR_NONE) ELSE esc
      ELSE IF ack THEN esc
      ELSE IF code # ERR_NONE THEN WriteAlStatus(esc, cur + BIT4, code)
      ELSE WriteAlStatus(esc, req, ERR_NONE)

-----------------------------------------------------------------------------
(* The mailbox handshake.  An access completes mailbox k when it starts    *)
(* inside the buffer and ends exactly at its end; it need not cover it.    *)

CompletesMailbox(esc, k, ado, len) ==
  LET sm == SmRead(esc, k)
  IN  IsMailbox(sm) /\ ado >= sm.start /\ ado + len = sm.start + sm.length

MailboxOnSm0Write(esc, ado, len) ==
  IF CompletesMailbox(esc, 0, ado, len)
  THEN [esc EXCEPT ![SmStatus(0)] = MBX_FULL] ELSE esc

MailboxOnSm1Read(esc, ado, len) ==
  IF CompletesMailbox(esc, 1, ado, len)
  THEN [esc EXCEPT ![SmStatus(1)] = 0] ELSE esc

(* ul_ecat_slave_mailbox_write_sm1 accepts a frame that fits an active     *)
(* mailbox inside the mirror, pads it with zeros, and raises MBX_FULL      *)
(* without looking at it first.                                            *)
Sm1Accepts(esc, frame) ==
  LET sm == SmRead(esc, 1)
  IN  /\ IsMailbox(sm)
      /\ Len(frame) \in 1 .. sm.length
      /\ sm.start + sm.length <= ESC_SIZE

(* Seeded fault: the rest of the buffer keeps the previous reply's bytes.  *)
MailboxWriteSm1Unpadded(esc, frame) ==
  IF Sm1Accepts(esc, frame)
  THEN [EscWrite(esc, SmRead(esc, 1).start, frame)
          EXCEPT ![SmStatus(1)] = MBX_FULL]
  ELSE esc

MailboxWriteSm1(esc, frame) ==
  LET sm     == SmRead(esc, 1)
      padded == [i \in 1 .. sm.length |->
                   IF i <= Len(frame) THEN frame[i] ELSE 0]
  IN  IF Sm1Accepts(esc, frame)
      THEN [EscWrite(esc, sm.start, padded) EXCEPT ![SmStatus(1)] = MBX_FULL]
      ELSE esc

-----------------------------------------------------------------------------
(* One datagram: process_one.  A datagram is [cmd, adp, ado, data]; an     *)
(* FPRD carries a data field of the length it asks for, echoed when the    *)
(* slave does not answer.                                                  *)
Commands == {"FPRD", "FPWR", "APWR", "other"}
Datagram == [cmd : Commands, adp : Nat, ado : Nat, data : Seq(Nat)]
LOGICAL_POSITION == 0    \* never changed after ul_ecat_slave_init

Addressed(esc, dg) ==
  \/ dg.cmd \in {"FPRD", "FPWR"} /\ esc[STADR] # 0 /\ dg.adp = esc[STADR]
  \/ dg.cmd = "APWR" /\ dg.adp = LOGICAL_POSITION

(* The working counter of the reply: 1 iff the slave served the datagram.  *)
Served(esc, dg) == Addressed(esc, dg) /\ InMirror(dg.ado, Len(dg.data))

OverlapsAlCtl(dg) == ALCTL \in dg.ado .. dg.ado + Len(dg.data) - 1

(* Only FPWR runs the SM0 hook; a datagram written to AL Control is seen   *)
(* by the AL state machine before the mailbox hook.                        *)
ServeWrite(esc, dg) ==
  LET written == EscWrite(esc, dg.ado, dg.data)
      after   == IF OverlapsAlCtl(dg) THEN AlOnControlWrite(written)
                                      ELSE written
  IN  IF dg.cmd = "FPWR"
      THEN MailboxOnSm0Write(after, dg.ado, Len(dg.data)) ELSE after

ServeRead(esc, dg) == MailboxOnSm1Read(esc, dg.ado, Len(dg.data))

ProcessOne(esc, dg) ==
  IF ~Served(esc, dg) THEN [esc |-> esc, data |-> dg.data, wkc |-> 0]
  ELSE IF dg.cmd = "FPRD"
       THEN [esc  |-> ServeRead(esc, dg),
             data |-> EscRead(esc, dg.ado, Len(dg.data)), wkc |-> 1]
  ELSE [esc |-> ServeWrite(esc, dg), data |-> dg.data, wkc |-> 1]

(* ul_ecat_slave_init and ul_ecat_slave_reset: everything 0, AL Status in  *)
(* INIT without error (the identity registers are not modelled).           *)
EscReset == [a \in Addr |-> IF a = ALSTAT THEN AL_INIT ELSE 0]

=============================================================================
