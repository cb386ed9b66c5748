------------------------------ MODULE Lan9252 ------------------------------
(***************************************************************************)
(* The LAN9252 driver (controllers/lan9252/src/lan9252.c): access to the   *)
(* ESC's registers and process RAM over an SPI bus that may fail.          *)
(*                                                                         *)
(* An SPI transaction is one step of the driver.  Registers below          *)
(* PDRAM_BASE are reached through one CSR command at a time (write the     *)
(* command, wait while busy, take the data), the process RAM through a     *)
(* read and a write engine, each with a FIFO of 32-bit words.  The chip    *)
(* executes a command between two transactions, and the EtherCAT master    *)
(* changes the registers at any time.  The chip is outside the repository: *)
(* it does what the driver and controllers/lan9252/include/lan9252_regs.h  *)
(* say of it.                                                              *)
(***************************************************************************)
EXTENDS Integers, Sequences

CONSTANTS PDRAM_BASE,    \* LAN9252_PDRAM_BASE
          MEM_SIZE,      \* end of the process RAM
          FIFO_DEPTH,    \* words in a FIFO of the chip
          MaxFaults      \* bound on failed transactions and timeouts

ASSUME LanAssumption ==
  /\ PDRAM_BASE \in Nat /\ PDRAM_BASE % 4 = 0
  /\ MEM_SIZE \in Nat /\ MEM_SIZE > PDRAM_BASE
  /\ FIFO_DEPTH \in Nat \ {0} /\ MaxFaults \in Nat

Cell == 0 .. MEM_SIZE - 1

VARIABLES
  mem,       \* chip: registers and process RAM, by address
  csr,       \* chip: the CSR command and data registers
  engine,    \* chip: per direction, the engine of the process RAM
  resetting, \* chip: RESET_CTRL_RST, as the version of what a reset leaves
  call,      \* driver: the call in progress, what is left of it, its data
  pc,        \* driver: its next transaction, or what the call returned
  faults     \* faults so far

chip == <<mem, csr, engine, resetting>>

-----------------------------------------------------------------------------
(* Words of the FIFOs and of the CSR data register have four places.  A    *)
(* byte of data names the address it belongs to and its version.           *)
Place == 0 .. 3
Byte(a, v) == [at |-> a, ver |-> v]
Blank == Byte(-1, 0)

(* The bytes s, put in a word from a place on.                             *)
InWord(s, place) ==
  [i \in Place |-> IF i - place + 1 \in DOMAIN s THEN s[i - place + 1]
                                               ELSE Blank]
(* n bytes of a word from a place on.                                      *)
FromWord(w, place, n) == [i \in 1 .. n |-> w[place + i - 1]]

(* n bytes of memory, and memory with the bytes s from address a on.       *)
Fetch(a, n) == [i \in 1 .. n |-> mem[a + i - 1]]
Stored(a, s) == [c \in Cell |-> IF c - a + 1 \in DOMAIN s THEN s[c - a + 1]
                                                         ELSE mem[c]]

-----------------------------------------------------------------------------
(* A call: what is left of it and its data (of a read, what came so far,   *)
(* with the bytes the memory held at the start).  Of a reset, ado is the   *)
(* version the memory will have.                                           *)
NoCall == [kind |-> "none", ado |-> 0, rest |-> 0, data |-> <<>>, held |-> <<>>]
ReadCall(ado, len) ==
  [kind |-> "read", ado |-> ado, rest |-> len, data |-> <<>>, held |-> <<>>]
WriteCall(ado, data) ==
  [kind |-> "write", ado |-> ado, rest |-> Len(data), data |-> data, held |-> <<>>]
ResetCall(ver) ==
  [kind |-> "reset", ado |-> ver, rest |-> 0, data |-> <<>>, held |-> <<>>]

Outcomes == {"ok", "error"}
InCsr    == {"put", "cmd", "wait", "data"}
InPram   == {"abort", "quiet", "span", "go", "avail", "count", "first",
             "header", "burst"}
Running  == pc \notin Outcomes

(* Seeded fault: three bytes are read in one command.                      *)
ChunkOfThree(ado, len) ==
  LET n == IF len > 4 THEN 4 ELSE len
  IN  IF ado % 2 = 1 THEN 1
      ELSE IF ado % 4 = 2 THEN (IF n % 2 = 1 THEN 1 ELSE 2) ELSE n

(* esc_next_chunk_size: 4 bytes at most, 2 at an odd word, 1 at an odd     *)
(* address, and never 3.                                                   *)
Chunk(ado, len) ==
  LET n == IF len > 4 THEN 4 ELSE len
  IN  IF ado % 2 = 1 THEN 1
      ELSE IF ado % 4 = 2 THEN (IF n % 2 = 1 THEN 1 ELSE 2)
      ELSE IF n = 3 THEN 1 ELSE n

(* The first transaction of a call: lan9252_esc_read, _write and           *)
(* _soft_reset.  Addresses from PDRAM_BASE on go to the PRAM functions.    *)
Entry(c) ==
  IF c.kind = "reset" THEN "rst"
  ELSE IF c.ado >= PDRAM_BASE THEN "abort"
  ELSE IF c.kind = "read" THEN "cmd" ELSE "put"

Begin(c) ==
  /\ call' = [c EXCEPT !.held = IF c.kind = "read" THEN Fetch(c.ado, c.rest)
                               ELSE <<>>]
  /\ pc' = Entry(c)

(* Seeded fault: p is not advanced.                                        *)
PendingFromStart(n) == SubSeq(call.data, 1, n)

(* The bytes of a write that are still to go.                              *)
Pending(n) == LET done == Len(call.data) - call.rest
              IN  SubSeq(call.data, done + 1, done + n)

(* A chunk of n bytes went through; got is what came, for a read.          *)
Advance(n, got) ==
  call' = [call EXCEPT !.ado = @ + n, !.rest = @ - n,
                       !.data = IF call.kind = "read" THEN @ \o got ELSE @]

-----------------------------------------------------------------------------
(* Seeded fault: the first word is taken from its first place.             *)
FirstPlaceZero(ado) == 0

(* first_byte_position.                                                    *)
FirstPlace(ado) == ado % 4

(* The place of the first byte, in the first word and in those of the burst.*)
Lane == IF pc = "first" THEN FirstPlace(call.ado) ELSE 0

(* Seeded fault: the last word is taken whole.                             *)
ShareUncapped == 4 - Lane

(* How many bytes of the word are of the call.                             *)
Share == IF 4 - Lane > call.rest THEN call.rest ELSE 4 - Lane

(* What a transaction does in the chip.                                    *)
TouchCsr ==
  \/ /\ pc = "put"
     /\ csr' = [csr EXCEPT !.data =
                  InWord(Pending(Chunk(call.ado, call.rest)), 0)]
  \/ /\ pc = "cmd"
     /\ csr' = [csr EXCEPT !.busy = TRUE, !.kind = call.kind, !.ado = call.ado,
                           !.size = Chunk(call.ado, call.rest)]

TouchEngine ==
  LET k == call.kind
  IN  \/ /\ pc = "abort"
         /\ engine' = [engine EXCEPT ![k].status = "abort", ![k].fifo = <<>>]
      \/ /\ pc = "span"
         /\ engine' = [engine EXCEPT ![k].ado = call.ado, ![k].left = call.rest]
      \/ /\ pc = "go"
         /\ engine' = [engine EXCEPT ![k].status = "run"]
      \/ /\ pc \in {"first", "burst"}
         /\ engine' = [engine EXCEPT ![k].fifo =
                         IF k = "read" THEN Tail(@)
                         ELSE Append(@, InWord(Pending(Share), Lane))]

Looking == {"wait", "data", "quiet", "avail", "count", "header", "rst_wait"}
Touch ==
  \/ TouchCsr /\ UNCHANGED <<mem, engine, resetting>>
  \/ TouchEngine /\ UNCHANGED <<mem, csr, resetting>>
  \/ pc = "rst" /\ resetting' = call.ado /\ UNCHANGED <<mem, csr, engine>>
  \/ pc \in Looking /\ UNCHANGED chip

(* What the driver does after it: the loops that wait for the chip go on   *)
(* while it is busy (Ready), each chunk leads to the next or to success.   *)
After(done, next) == pc' = IF call.rest = done THEN "ok" ELSE next
Goto(next) == pc' = next /\ UNCHANGED call

MoveCsr ==
  LET n == Chunk(call.ado, call.rest)
  IN  \/ pc = "put" /\ Goto("cmd")
      \/ pc = "cmd" /\ Goto("wait")
      \/ pc = "wait" /\ call.kind = "read" /\ Goto("data")
      \/ pc = "wait" /\ call.kind = "write" /\ Advance(n, <<>>) /\ After(n, "put")
      \/ pc = "data" /\ Advance(n, FromWord(csr.data, 0, n)) /\ After(n, "cmd")

MovePram ==
  \/ pc = "abort" /\ Goto("quiet")
  \/ pc = "quiet" /\ Goto("span")
  \/ pc = "span" /\ Goto("go")
  \/ pc = "go" /\ Goto("avail")
  \/ pc = "avail" /\ Goto("count")
  \/ pc = "count" /\ Goto("first")
  \/ pc = "header" /\ Goto("burst")
  \/ /\ pc \in {"first", "burst"}
     /\ Advance(Share, IF call.kind = "read"
                       THEN FromWord(Head(engine["read"].fifo), Lane, Share)
                       ELSE <<>>)
     /\ After(Share, IF pc = "first" THEN "header" ELSE "burst")

MoveReset == \/ pc = "rst" /\ Goto("rst_wait")
             \/ pc = "rst_wait" /\ Goto("ok")

Move == MoveCsr \/ MovePram \/ MoveReset

Space == IF call.kind = "read" THEN engine["read"].fifo # <<>>
         ELSE Len(engine["write"].fifo) < FIFO_DEPTH

(* csr_cmd_wait_not_busy, pram_wait_*_not_busy, pram_*_wait_avail and the  *)
(* loop of lan9252_soft_reset.                                             *)
Ready == /\ pc = "wait" => ~csr.busy
         /\ pc = "quiet" => engine[call.kind].status # "abort"
         /\ pc = "avail" => Space
         /\ pc = "rst_wait" => resetting = 0

(* The driver looks at AVAIL once, before the first word: that the chip    *)
(* keeps its FIFO ahead of a burst is assumed, not checked.                *)
ChipKeepsUp == pc \in {"first", "burst"} => Space

Transact == /\ Running /\ Ready /\ ChipKeepsUp
            /\ Touch /\ Move
            /\ UNCHANGED faults

(* A transaction fails, before the chip saw it or after, or a loop gives   *)
(* up after LAN9252_BUSY_MAX turns.  The call fails at once.               *)
Fail == /\ Running /\ ChipKeepsUp /\ faults < MaxFaults
        /\ Touch \/ UNCHANGED chip
        /\ pc' = "error"
        /\ faults' = faults + 1
        /\ UNCHANGED call

-----------------------------------------------------------------------------
(* The chip, between two transactions.                                     *)
driver == <<call, pc, faults>>
IdleEngine == [status |-> "idle", ado |-> 0, left |-> 0, fifo |-> <<>>]
IdleCsr    == [busy |-> FALSE, kind |-> "read", ado |-> 0, size |-> 1,
               data |-> InWord(<<>>, 0)]
Wiped(ver) == [c \in Cell |-> Byte(c, ver)]

(* The pending CSR command is executed.                                    *)
ChipCsr ==
  /\ csr.busy
  /\ IF csr.kind = "read"
     THEN /\ csr' = [csr EXCEPT !.busy = FALSE,
                                !.data = InWord(Fetch(csr.ado, csr.size), 0)]
          /\ UNCHANGED mem
     ELSE /\ csr' = [csr EXCEPT !.busy = FALSE]
          /\ mem' = Stored(csr.ado, FromWord(csr.data, 0, csr.size))
  /\ UNCHANGED <<engine, resetting, driver>>

ChipAbort ==
  \E k \in {"read", "write"} :
    /\ engine[k].status = "abort"
    /\ engine' = [engine EXCEPT ![k] = IdleEngine]
    /\ UNCHANGED <<mem, csr, resetting, driver>>

(* A word goes from the memory to the FIFO, or from the FIFO to the memory.*)
Handled(e) == LET lane == e.ado % 4
              IN  IF 4 - lane > e.left THEN e.left ELSE 4 - lane
Ran(e, fifo) == [e EXCEPT !.ado = @ + Handled(e), !.left = @ - Handled(e),
                          !.fifo = fifo,
                          !.status = IF e.left = Handled(e) THEN "idle" ELSE @]
ChipFill ==
  LET e == engine["read"]
  IN  /\ e.status = "run" /\ Len(e.fifo) < FIFO_DEPTH
      /\ engine' = [engine EXCEPT !["read"] =
           Ran(e, Append(e.fifo, InWord(Fetch(e.ado, Handled(e)), e.ado % 4)))]
      /\ UNCHANGED <<mem, csr, resetting, driver>>

ChipDrain ==
  LET e == engine["write"]
  IN  /\ e.status = "run" /\ e.fifo # <<>>
      /\ mem' = Stored(e.ado, FromWord(Head(e.fifo), e.ado % 4, Handled(e)))
      /\ engine' = [engine EXCEPT !["write"] = Ran(e, Tail(e.fifo))]
      /\ UNCHANGED <<csr, resetting, driver>>

ChipReset ==
  /\ resetting # 0
  /\ resetting' = 0
  /\ mem' = Wiped(resetting) /\ csr' = IdleCsr
  /\ engine' = [k \in {"read", "write"} |-> IdleEngine]
  /\ UNCHANGED driver

ChipStep == ChipCsr \/ ChipAbort \/ ChipFill \/ ChipDrain \/ ChipReset

(* The chip has nothing left to do of what was asked of it.                *)
Settled == /\ ~csr.busy /\ resetting = 0
           /\ engine["write"].fifo = <<>>
           /\ \A k \in {"read", "write"} : engine[k].status # "abort"

ChipInit == /\ mem = Wiped(0) /\ csr = IdleCsr /\ resetting = 0
            /\ engine = [k \in {"read", "write"} |-> IdleEngine]
DriverInit == call = NoCall /\ pc = "ok" /\ faults = 0
=============================================================================
