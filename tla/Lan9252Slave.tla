---------------------------- MODULE Lan9252Slave ----------------------------
(***************************************************************************)
(* The slave controller on a LAN9252                                       *)
(* (src/slave/ul_ecat_slave_controller_lan9252.c): one poll copies three   *)
(* registers of the chip to the ESC mirror, the input image to in_buf and  *)
(* out_buf to the output image, then reports changes to the application.   *)
(* Between polls the application calls the driver itself.                  *)
(***************************************************************************)
EXTENDS Lan9252

CONSTANTS STADR, ALSTAT, ALEVENT,   \* registers, 2, 2 and 4 bytes long
          IN_OFFSET, IN_LEN,        \* pdram.in_offset, pdram.in_len
          OUT_OFFSET, OUT_LEN,      \* pdram.out_offset, pdram.out_len
          DirectReads,              \* spans the application reads
          DirectWrites,             \* spans the application writes
          MaxVersions,              \* bound on the changes of data
          MaxDirect                 \* bound on direct calls

ASSUME SlaveAssumption ==
  /\ {STADR, ALSTAT, ALEVENT, IN_OFFSET, OUT_OFFSET} \subseteq Cell
  /\ IN_LEN \in Nat \ {0} /\ OUT_LEN \in Nat \ {0}
  /\ STADR + 2 <= PDRAM_BASE /\ ALSTAT + 2 <= PDRAM_BASE
  /\ ALEVENT + 4 <= PDRAM_BASE
  /\ IN_OFFSET + IN_LEN <= MEM_SIZE /\ OUT_OFFSET + OUT_LEN <= MEM_SIZE
  /\ \A s \in DirectReads \cup DirectWrites :
       s.ado \in Nat /\ s.len \in Nat \ {0} /\ s.ado + s.len <= MEM_SIZE
  /\ MaxVersions \in Nat /\ MaxDirect \in Nat

VARIABLES
  version,  \* the version the next change of data gets
  out_buf,  \* version of out_buf's bytes
  in_buf,   \* bytes of in_buf
  mirror,   \* s->esc at the three registers
  stage,    \* stage of the poll, 0 between polls
  since,    \* AL Status in the chip when the poll began
  last,     \* last_al_status and last_al_event
  expect,   \* per address, versions the application can have there
  direct    \* direct calls so far

controller == <<in_buf, mirror, stage, since, last, direct>>
application == <<version, out_buf, expect>>
vars == <<chip, driver, controller, application>>

-----------------------------------------------------------------------------
Idle == ~Running /\ stage = 0
Bytes(ado, len, ver) == [i \in 1 .. len |-> Byte(ado + i - 1, ver)]

(* The driver calls of a poll in their order.                              *)
Stages == <<ReadCall(STADR, 2), ReadCall(ALSTAT, 2), ReadCall(ALEVENT, 4),
            ReadCall(IN_OFFSET, IN_LEN),
            WriteCall(OUT_OFFSET, Bytes(OUT_OFFSET, OUT_LEN, out_buf))>>
Registers == <<"status_adr", "al_status", "al_event">>

(* What a write or a reset that has begun may leave behind.                *)
Covers(c, a) == IF c.kind = "write"
                THEN a \in c.ado .. c.ado + Len(c.data) - 1
                ELSE c.kind = "reset"
Ver(c) == IF c.kind = "write" THEN c.data[1].ver ELSE c.ado
Issue(c) == /\ Begin(c)
            /\ expect' = [a \in Cell |-> IF Covers(c, a)
                                         THEN expect[a] \cup {Ver(c)}
                                         ELSE expect[a]]

(* A successful write or reset leaves exactly its own.                     *)
Target == IF call.kind = "write"
          THEN [call EXCEPT !.ado = @ - (Len(call.data) - call.rest)]
          ELSE call
Landed == expect' = [a \in Cell |-> IF Covers(Target, a) THEN {Ver(call)}
                                    ELSE expect[a]]

(* ul_ecat_slave_controller_poll_lan9252 is called.                        *)
PollBegin == /\ Idle /\ Settled /\ call = NoCall
             /\ Issue(Stages[1])
             /\ stage' = 1 /\ since' = mem[ALSTAT].ver
             /\ UNCHANGED <<chip, faults, in_buf, mirror, last, direct,
                            version, out_buf>>

(* Seeded fault: a failed read is taken for a register that did not change.*)
StageDoneAnyway ==
  /\ ~Running /\ stage \in 1 .. 4
  /\ mirror' = IF stage \in DOMAIN Registers /\ pc = "ok"
               THEN [mirror EXCEPT ![Registers[stage]] = call.data] ELSE mirror
  /\ in_buf' = IF stage = 4 /\ pc = "ok" THEN call.data ELSE in_buf
  /\ Issue(Stages[stage + 1])
  /\ stage' = stage + 1
  /\ UNCHANGED <<chip, faults, since, last, direct, version, out_buf>>

(* A call of the poll succeeded: its data goes to the mirror or was put in *)
(* in_buf, and the next call begins.                                       *)
StageDone ==
  /\ pc = "ok" /\ stage \in 1 .. 4
  /\ mirror' = IF stage \in DOMAIN Registers
               THEN [mirror EXCEPT ![Registers[stage]] = call.data] ELSE mirror
  /\ in_buf' = IF stage = 4 THEN call.data ELSE in_buf
  /\ Issue(Stages[stage + 1])
  /\ stage' = stage + 1
  /\ UNCHANGED <<chip, faults, since, last, direct, version, out_buf>>

(* Seeded fault: the event is looked at only when the status changed.      *)
ReportStatusFirst ==
  /\ pc = "ok" /\ stage = 5
  /\ last' = IF mirror["al_status"] = last.status THEN last
             ELSE [status |-> mirror["al_status"], event |-> mirror["al_event"]]
  /\ Landed
  /\ stage' = 0 /\ call' = NoCall
  /\ UNCHANGED <<chip, pc, faults, in_buf, mirror, since, direct, version, out_buf>>

(* The last call succeeded: the changes are reported.                      *)
Report ==
  /\ pc = "ok" /\ stage = 5
  /\ last' = [status |-> mirror["al_status"], event |-> mirror["al_event"]]
  /\ Landed
  /\ stage' = 0 /\ call' = NoCall
  /\ UNCHANGED <<chip, pc, faults, in_buf, mirror, since, direct, version, out_buf>>

(* A call failed: the poll returns, and keeps what it copied: the first    *)
(* bytes of in_buf may be of this poll and the others of an earlier one.   *)
PollFails ==
  /\ pc = "error" /\ stage # 0
  /\ stage' = 0 /\ call' = NoCall
  /\ in_buf' = IF stage = 4
               THEN call.data \o SubSeq(in_buf, Len(call.data) + 1, IN_LEN)
               ELSE in_buf
  /\ UNCHANGED <<chip, pc, faults, mirror, since, last, direct, application>>

-----------------------------------------------------------------------------
(* The application calls lan9252_esc_read, _esc_write, _pdram_read,        *)
(* _pdram_write or _soft_reset between two polls.                          *)
Fresh == version <= MaxVersions /\ version' = version + 1
CallBegin(c) == /\ Idle /\ Settled /\ call = NoCall /\ direct < MaxDirect
                /\ Issue(c)
                /\ direct' = direct + 1
                /\ UNCHANGED <<chip, faults, in_buf, mirror, stage, since, last,
                               out_buf>>
DirectRead == \E s \in DirectReads :
                CallBegin(ReadCall(s.ado, s.len)) /\ UNCHANGED version
DirectWrite == \E s \in DirectWrites :
                 Fresh /\ CallBegin(WriteCall(s.ado, Bytes(s.ado, s.len, version)))
DirectReset == Fresh /\ CallBegin(ResetCall(version))

DirectReturns ==
  /\ ~Running /\ stage = 0 /\ call # NoCall
  /\ IF pc = "ok" THEN Landed ELSE UNCHANGED expect
  /\ call' = NoCall
  /\ UNCHANGED <<chip, pc, faults, controller, version, out_buf>>

(* The application fills out_buf; the master changes AL Status with AL     *)
(* Event, AL Event alone, or the input image.                              *)
Outputs == /\ Fresh /\ stage = 0
           /\ out_buf' = version
           /\ UNCHANGED <<chip, driver, controller, expect>>

BusOwned == [al |-> (ALSTAT .. ALSTAT + 1) \cup (ALEVENT .. ALEVENT + 3),
             event |-> ALEVENT .. ALEVENT + 3,
             image |-> IN_OFFSET .. IN_OFFSET + IN_LEN - 1]
Bus == /\ Fresh
       /\ \E part \in DOMAIN BusOwned :
            mem' = [c \in Cell |-> IF c \in BusOwned[part] THEN Byte(c, version)
                                   ELSE mem[c]]
       /\ UNCHANGED <<csr, engine, resetting, driver, controller, out_buf, expect>>

-----------------------------------------------------------------------------
Init ==
  /\ ChipInit /\ DriverInit
  /\ version = 1 /\ out_buf = 0
  /\ in_buf = Bytes(IN_OFFSET, IN_LEN, 0)
  /\ mirror = [status_adr |-> Bytes(STADR, 2, 0), al_status |-> Bytes(ALSTAT, 2, 0),
               al_event |-> Bytes(ALEVENT, 4, 0)]
  /\ stage = 0 /\ since = 0 /\ direct = 0
  /\ last = [status |-> Bytes(ALSTAT, 2, 0), event |-> Bytes(ALEVENT, 4, 0)]
  /\ expect = [a \in Cell |-> {0}]

Access == (Transact \/ Fail) /\ UNCHANGED <<controller, application>>
Chip == ChipStep /\ UNCHANGED <<controller, application>>
Poll == PollBegin \/ StageDone \/ Report \/ PollFails
Direct == DirectRead \/ DirectWrite \/ DirectReset \/ DirectReturns

Next == Access \/ Chip \/ Poll \/ Direct \/ Outputs \/ Bus
Spec == Init /\ [][Next]_vars

(* The loop that polls goes on, a driver call runs to its end, and the     *)
(* chip does what it was asked.                                            *)
FairSpec == /\ Spec
            /\ WF_vars(Transact /\ UNCHANGED <<controller, application>>)
            /\ WF_vars(Chip) /\ WF_vars(Poll) /\ WF_vars(DirectReturns)

-----------------------------------------------------------------------------
Versions == 0 .. MaxVersions
ByteOf(v) == [at : Cell \cup {-1}, ver : v]

(* Every variable keeps its type; of a word, at most four bytes are taken. *)
TypeOK ==
  /\ DOMAIN mem = Cell /\ \A a \in Cell : mem[a] \in ByteOf(Versions)
  /\ csr.busy \in BOOLEAN /\ csr.size \in 1 .. 4
  /\ \A k \in {"read", "write"} :
       /\ engine[k].status \in {"idle", "abort", "run"}
       /\ engine[k].left \in Nat /\ Len(engine[k].fifo) <= FIFO_DEPTH
  /\ resetting \in Versions
  /\ pc \in Outcomes \cup InCsr \cup InPram \cup {"rst", "rst_wait"}
  /\ call.rest \in Nat /\ faults \in 0 .. MaxFaults
  /\ version \in 1 .. MaxVersions + 1 /\ out_buf \in Versions
  /\ Len(in_buf) = IN_LEN /\ stage \in 0 .. 5 /\ direct \in 0 .. MaxDirect
  /\ \A a \in Cell : expect[a] \subseteq Versions

(* Every CSR command names 1, 2 or 4 bytes at an address of that           *)
(* alignment, the widths lan9252.h promises of the indirect mechanism,     *)
(* however long and odd the span a caller asks for (esc_next_chunk_size).  *)
AccessWidth == csr.size \in {1, 2, 4} /\ csr.ado % csr.size = 0

(* A read returns, for each byte asked for, what that very address held at *)
(* some moment of the call: chunks of 1, 2 and 4 bytes and the odd first   *)
(* and last words of the FIFO are put together with no byte skipped,       *)
(* doubled or displaced (lan9252_esc_read, lan9252_pdram_read).            *)
ReadExact ==
  call.kind = "read" =>
    \A i \in DOMAIN call.data :
      LET a == call.ado - Len(call.data) + i - 1
      IN  /\ call.data[i].at = a
          /\ call.data[i].ver \in call.held[i].ver .. mem[a].ver

(* Once the chip is settled and no call runs, an address the master does   *)
(* not own holds what the last successful write or reset put there, or     *)
(* something a call that failed since had begun to write; never a byte     *)
(* meant for another address (lan9252_esc_write, lan9252_pdram_write).     *)
WriteLands ==
  (Settled /\ ~Running /\ call = NoCall) =>
    \A a \in Cell \ (BusOwned["al"] \cup BusOwned["image"]) :
      mem[a].at = a /\ mem[a].ver \in expect[a]

(* AL Status and AL Event are registers of their own at their alignments,  *)
(* and neither the images nor the application's writes touch them.         *)
Apart(ado, len) == BusOwned["al"] \cap (ado .. ado + len - 1) = {}
RegistersApart ==
  /\ ALSTAT % 2 = 0 /\ ALEVENT % 4 = 0
  /\ (ALSTAT .. ALSTAT + 1) \cap (ALEVENT .. ALEVENT + 3) = {}
  /\ Apart(IN_OFFSET, IN_LEN) /\ Apart(OUT_OFFSET, OUT_LEN)
  /\ \A s \in DirectWrites : Apart(s.ado, s.len)

Whole(s) == \A i \in DOMAIN s : s[i].ver = s[1].ver

(* A reported AL Status or AL Event is one the chip showed during this     *)
(* very poll, its bytes all of one moment, and the event is never older    *)
(* than the status: no half register, nothing left in the mirror by a poll *)
(* that failed.                                                            *)
ReportFresh ==
  [][last' # last => /\ Whole(last'.status) /\ Whole(last'.event)
                     /\ since <= last'.status[1].ver
                     /\ last'.status[1].ver <= last'.event[1].ver]_vars

(* When the register changes no more and faults stop, the application is   *)
(* told the AL Status and AL Event the chip shows, whatever failed before. *)
AlReported ==
  <>[](/\ last.status = Fetch(ALSTAT, 2)
       /\ last.event = Fetch(ALEVENT, 4))
=============================================================================
