# A verification development of ul_ecat

ul_ecat is a small EtherCAT stack in C: a master with a worker thread, and a
slave library behind a software Ethernet controller or a LAN9252 chip. This
directory holds TLA+ models of its core, the TLC runs that check them and the
TLAPS proofs about them. `PROJECT.json` maps every definition to the lines it
models, lists the hazards of the code and which property covers each, and gives
for every checked property a seeded fault the run detects (the operators with a
comment "Seeded fault" in the modules).

## The system

| Component | State | Operations | Talks to |
|---|---|---|---|
| Slave mirror and datagrams (`src/slave/ul_ecat_slave_pdu.c`, `ul_ecat_esc.c`) | `esc[4096]`, station address in it | FPRD, FPWR, APWR on a range, reset | AL machine and mailbox hooks, called inside a datagram |
| AL state machine (`ul_ecat_slave_al.c`) | AL Control, AL Status, AL Status Code, all in `esc` | control write: transition, refusal, acknowledgement | reads SM0/SM1 on INIT to PREOP |
| Mailbox (`ul_ecat_slave_sm.h`, `ul_ecat_slave_mailbox.c`) | SM blocks and two buffers in `esc` | SM0 write hook, SM1 read hook, post a reply | controller |
| Controller (`ul_ecat_slave_controller.c`) | last AL Status and AL Event, callbacks | process a frame, dispatch a request, poll | application callbacks, CoE |
| CoE server, object dictionary (`ul_ecat_slave_coe.c`, `_od.c`) | one upload session, the table | SDO upload, download, information | mailbox handler |
| LAN9252 driver (`controllers/lan9252`) | the chip's CSRs and FIFOs | ESC and PRAM access, poll | SPI HAL |
| Master exchanges (`src/master/ul_ecat_master.c`) | the socket, trx mutex | send a frame, take the next one; AL requests, sync reads and writes | slaves through the ring |
| Master cycle | `g_q`, `g_dc_*`, `g_running`, worker thread | init, shutdown, DC, batch send, drain, queue | the same socket; event queue |
| Event loop | `g_evt_queue`, count, stop flag, condition variable | post, run, stop, callbacks | worker posts, application runs |
| Scan, slave database, ESI, CLI | `g_slaves_db`, `g_esi_lib` | scan, merge, sync read and write, commands | exchanges |
| Frame codec (`src/common`) | none | encode, parse, count, Ethernet framing | everything |
| OSAL, transport | mutexes, condition variable, socket | platform calls | the kernel |

What is hard here: three mutexes and three kinds of threads on one socket;
answers that are lost, late or somebody else's, in an exchange that matches
nothing; a supervision by counting; a start and a shutdown around a running
thread; in the slave, registers whose meaning changes with every write, a
handshake completed by partial accesses, and frames that stop half way.

What makes each part correct:

* slave: the mirror is never left; the AL registers behave as the AL machine
  through every sequence of writes; the handler runs for completed requests
  only; a reported reply is intact; a settled AL Status reaches the application.
* exchanges: nobody sends behind a waiting exchange or drains its answer; success and
  failure have a reason; the caller gets its thread back.
* cycle: queues keep their bounds; the worker never uses a closed socket;
  shutdown returns; a silent clock is noticed.
* event loop: first in, first out; no lost wake-up; a stop ends it.
* CoE server: the session stays in its object; an upload delivers the object or
  fails; a confirmed download was written; nothing but a disturbance makes a legal
  operation fail.
* LAN9252 driver: a byte read or written belongs to the address asked for, whatever
  the alignment; a reported register is one the chip showed, and a lasting one is
  reported.
* scan: it ends; on a quiet ring it reads every slave whose position it assigned and
  stops where nobody counts; an entry has the identity of the slave in its position or
  zeros.

## Modules

| Module | What it models | Proofs |
|---|---|---|
| `SlaveEsc` | operators on one mirror: accessors, AL machine, SyncManagers, mailbox, `process_one` | `SlaveEscProofs` (lemmas) |
| `AlMachine` | abstract: the AL state machine a slave promises | |
| `Slave` | a slave behind the software controller, datagram by datagram | `SlaveProofs` |
| `AlRequest` | master threads asking slaves of `SlaveEsc` for states, with the worker on the same socket | `AlRequestProofs` |
| `EventChannel` | abstract: a bounded first-in first-out channel that loses what is put when full | |
| `EventLoop` | the event queue, its condition variable and the loop | `EventLoopProofs` |
| `MasterCycle` | start, worker, DC, datagram queue, shutdown; posts into an `EventChannel` | `MasterCycleProofs` |
| `SdoTransfer` | abstract: an upload that brings an object's bytes in order, each once, or fails | |
| `Coe` | the CoE server over its dictionary, and one client behind a mailbox that loses | `CoeProofs` |
| `Lan9252` | the LAN9252 driver, SPI transaction by SPI transaction, and the chip | |
| `Lan9252Slave` | the poll of the slave controller and direct calls, on `Lan9252` | `Lan9252Proofs` |
| `Scan` | the scan, the ESI merge, sync reads and writes, on a ring of slaves | `ScanProofs` |
| `MCSlave`, `MCAlRequest`, `MCCoe`, `MCLan9252`, `MCScan` | datagrams, rings, dictionaries, layouts and files for TLC | |

### Correspondence with the code

**`SlaveEsc`.** The 4096 bytes are scaled to one cell per register and per
mailbox byte (`ESC_SIZE` cells), in the order of
`include/ul_ecat_esc_regs.h`, so ranges, overlaps and the end of the array mean
what they mean in the code. A register of several bytes is one cell, so a write
that tears a register is not modelled. Of the SyncManager's control, status and
activate bytes only the fields the code tests are kept. `EscWrite` is the
`memcpy` itself: were the bounds check of `InMirror` wrong, the mirror would grow
and `TypeOK` fail.

**`Slave`.** `StartFrame`, `ProcessDatagram`, then `AbortFrame` or `FinishFrame`
are one call of `ul_ecat_slave_controller_process_ethernet`; it is cut into
datagrams so that a frame can be any sequence of them. Nothing interleaves with
the walk (`AppReply`, `Poll` and `Reset` need `phase = "idle"`): the library has no
locks and is called from one loop. `FinishFrame` holds the dispatch: the handler
(no reply or one) and only then the reset of `MBX_FULL`. `landed` and `reply` are
history variables. A frame that cannot be parsed at all does nothing and has no
action.

**`AlRequest`.** `stage` is the position inside
`ul_ecat_request_slave_state_mailbox`; `Transmit` is `exchange_ec_payload` up to
the send, `Take` and `Timeout` its two ends, with what the callers do with the
result (`Written`, `Polled`, `Unanswered`). `left` counts polls: 3000 ms in steps
of 20. A frame is its first datagram, the one a blocking exchange reads.
`ReceiveNonblock` discards everything it finds, as the code does for anything that
is not a clock read. `by` marks the sender of a frame and `seen` what a slave showed;
the code has neither and no action tests them. `OwnAnswer` is what
`doc/architecture.md:126` says and holds only without late and cyclic answers;
`AnswerKept` is what the trx mutex gives with both.
The threads of the run `request_own` ask one slave each; several threads on one slave are
covered by the proof of `NoFakeSuccess` (`SuccessIsReal`), which has any number of them.

**`EventLoop`.** Each action but `Callback` is one critical section of the event
mutex. `Wake` is the spurious return `pthread_cond_wait` allows. `Run` resets the
stop flag, as the code does.

**`MasterCycle`.** `worker` is the position in `periodic_thread_func`; the drain is
cut into frames and datagrams because events and application threads interleave
with it. `SendBatched` is one action: it holds both mutexes and never waits.
`Close` is the part of `ul_ecat_master_shutdown` after the join. `MasterInit` leaves
`q`, the event queue and `silent` as they are. Clock offsets are `"near"` or
`"far"` by the threshold; a datagram is a `"read"` of the clock or `"other"`, which is
all the worker tells apart. `Exchange` and `Exchanged` are a blocking exchange (of
`AlRequest`) seen from the worker: it needs a socket and nothing else, so exchanges go
on while `ul_ecat_master_shutdown` joins the worker, and it takes the first frame of the
socket, the answer of a clock read too.

**`Coe`.** `Process` is `ul_ecat_slave_coe_process` with one operator per handler;
what it leaves (session, storage, reply) is one record, as a request is served to its
end inside `dispatch_mailbox_if_ready` (`Serve`). A session names its entry, as
`g_upload` points to it, and not a row of the table that happens to be installed.
The handshake of `Slave` is taken as proved there: a request in SM0 is served once, a
reply in SM1 is whole, and a newer one replaces an older one. A reply that does not
fit SM1 is dropped; `ServeRefused` is the case of an SM1 that is switched off. Bytes
are told apart by object, position and version. The client is not in the library: it
asks for one object at a time, repeats, gives up, and compares the mailbox counter,
which the server echoes. `SetTable` happens between operations ("the application sets
it once"), but with a session open in the server all the same.

**`Lan9252`.** `pc` is the next SPI transaction of the call in progress, `Touch` what it
does in the chip and `Move` where the driver goes from there; `Fail` is a transaction
that fails, with or without effect, or a loop that gives up after `LAN9252_BUSY_MAX`
turns. `lan9252_esc_read` and `_write` above `PDRAM_BASE` are the process RAM
calls. A turn of a waiting loop that finds the chip busy changes nothing and is no
step. `pc = "first"` is the first word of the FIFO, `"header"` and `"burst"` the rest.
The chip is external and does what `lan9252_regs.h` and the driver say. Two things the
driver relies on without testing are assumptions: the FIFO stays ahead of a burst
(`ChipKeepsUp`), and a call finds the chip done with the one before (`Settled`), also
after a failure. `lan9252_read_csr_u32` and `_write_csr_u32` are one transaction and
have no action of their own.

**`Lan9252Slave`.** `stage` is the driver call a poll is at. `StageDone` is the code
between two calls, `PollFails` each of the early returns, `Report` the end with the
two callbacks. A failed read leaves the first bytes of `in_buf` new and the rest old.
`since`, `expect` and `held` are history.

**`Scan`.** An exchange is one step (`AlRequest` takes it apart): it loses either
direction, or its answer comes late and is found by the next one. `Copied` is the
part of a shorter late answer in the buffer of a longer read. `NewProcess` is one run
of `ul_ecat_app_execute`: an empty database and one of the calls. Two kinds of slaves
stand on a ring. A slave of this library (`Library`) compares the position of an APWR
with its `logical_position` (`Position`), passes it on as it is, and puts its own 0 or 1
in the place of the working counter, as `process_one` and `ul_ecat_slave_process_pdu`
do. Any other slave is an EtherCAT slave controller, such as the LAN9252 the library
drives: it serves the position where it arrives as 0, increments it, and adds to the
working counter; that is what "auto-increment" (`README.md:13`, `doc/mental-model.md:19`)
and "each slave that processes the datagram increments WKC" (`doc/mental-model.md:24`)
say. `PlacesAt` computes from both who serves a position, `Counted` whose increments
arrive. The master counts 0, 1, 2, so it finds a second slave only where one of the
library with `logical_position` 1 stands in front of a controller: the passing run has
such a ring among others, and a ring of two controllers, where the scan finds the first only
("Disagreements" below).

## Runs

| Run | Property | Bounds |
|---|---|---|
| `slave` | `TypeOK`, `AlRefinement` (the registers implement `AlMachine`), `AlStatusReported`, `FullMeansLanded`, `Sm1HoldsReply` | every AL control word over the five states and an undefined one, with and without acknowledgement; SM0 and SM1 good and bad; datagrams for others and beyond the mirror; mailboxes of two cells accessed whole and from their tail; three replies, one too long; any sequence |
| `request_own` | `TypeOK`, `NoFakeSuccess`, `NoFakeFailure` | two threads and two slaves, two polls, one loss or restart |
| `request_returns` | `AnswerKept`, `RequestReturns` | one thread, late answers, cyclic reads, two frames under way, one fault |
| `event_loop` | `TypeOK`, `NoLostWakeup`, `ChannelRefinement`, `StopEndsRun` | queue of three, three events |
| `master_cycle` | `TypeOK`, `WorkerHasSocket`, `ShutdownReturns`, `SilenceNoticed` | datagram queue of two, event queue of one, clock limit two, two frames of two datagrams under way, any number of sessions |
| `coe` | `TypeOK`, `SessionInObject`, `UploadRefinement` (implements `SdoTransfer`), `ConfirmedMeansWritten`, `CleanSucceeds` | objects of 2, 4, 5 and 21 bytes (expedited, one segment, three full ones), two dictionaries with one index in common, nine operations, legal and not, seven stray requests, one fault, three counters |
| `lan9252` | `TypeOK`, `AccessWidth`, `ReadExact`, `WriteLands`, `ReportFresh`, `AlReported` | 33 addresses, spans of registers that need chunks of 1, 2 and 4 bytes, images of eight bytes over three words from an odd address, FIFOs of two words, two changes of data, one direct call, one failure |
| `scan` | `TypeOK`, `ReadsWritten`, `NamesMatch`, `IdentityOwn`, `ScanReadsAll`, `ScanEnds` | a database of two; three rings, wired one after the other: a library slave of position 1 in front of a controller (positions 0 and 1 answer), two controllers and one (position 0 answers); a table of two devices; two faults, four calls |

Why the bounds are enough. No rule of the slave looks at more than one datagram
and the mirror, so sequences matter and are unbounded; two cells give a buffer a
head and a tail. Two polls are the least with one that is not the last. With two
threads and the worker every order of three users of the mutex occurs. A queue of
two or three can be empty, partly filled and full, and a shift moves more than one
element. In `coe` an upload has a first, a middle and a last segment, and the fault may
fall on each; the counter of a client needs only to differ from the counters that may
still be in SM1, one per fault. In `lan9252` the span of a call has a partial first, a
full and a partial last word, and a chip ahead of and behind the driver. In `scan` the
scan ends at a full database and at a position nobody has, stations of earlier wirings
are left behind, and a late answer meets every kind of exchange. In `master_cycle` two
frames let an exchange find the answer of a clock read in front of its own. `CHECK_DEADLOCK FALSE` in the scan's runs: the
calls are bounded, and the application may stop calling. Names of bounds: `MaxPolls`, `MaxFaults`, `MaxInFlight`, `MaxOnWire`,
`Q_MAX`, `PER_FRAME`, `DC_TIMEOUT`, `Capacity`, `MAX_EVENTS`, `COUNTERS`,
`MaxVersions`, `MaxDirect`, `FIFO_DEPTH`, `MaxCalls`.

### Disagreements between documents and code

Four runs are expected to fail; each checks what a document says.

| Run | The document | The code |
|---|---|---|
| `request_late_answer` | `README.md:14`, "no fake success" | an answer later than its exchange is taken for the next one's; the echo of an AL Control write reads as the state asked for |
| `master_close` | `doc/architecture.md:82`, locks serialize access to the socket path | shutdown closes the socket without the trx mutex |
| `coe_init_cancels` | `ul_ecat_slave_coe.c:18`, a new init request cancels the transfer in progress | a download request leaves the upload session open |
| `scan_rewired` | `README.md:13`, the scan assigns a station address, then reads the identity | station addresses of an earlier scan are not cleared: after rewiring two slaves answer one read |

Others were met on the way and have no run of their own.

* `doc/architecture.md:126`: the trx mutex keeps scan and command line from racing the
  cyclic path. It covers a send and its wait, but the answer to a frame the worker sent
  before is the first in the socket, and an exchange takes it as its own. `OwnAnswer`
  fails in `AlRequest` as soon as `Cyclic` is not empty; no run checks it, and it is proved
  where `Cyclic` is empty. `request_returns`, which has cyclic answers, checks
  what the mutex does give, `AnswerKept`.
* `README.md:13`, auto-increment, and `include/ul_ecat_master.h:66`, discovers the slaves
  on the network: positions are counted up from 0. Controllers, which increment them,
  serve 0 only, so of a ring of controllers the first is found and no other.
  `ScanReadsAll` therefore speaks of the slaves whose position was assigned, not of all
  slaves of the ring.
* `doc/mental-model.md:24`, each slave that processes the datagram increments the working
  counter: a library slave replaces the counter by its own 0 or 1
  (`ul_ecat_slave_pdu.c:104`), so what a slave in front of another one of the library counts is
  lost: with positions 0 and 1 in ring order the first slave takes its address, and the
  scan ends there with nobody in the database.

Three smaller ones. A read of the tail of SM1 takes the
reply (`ul_ecat_slave_mailbox.h:69`: "if the full SM1 range was read"), and a write of the
tail of SM0 completes a request (`:60`: "the full SM0 range"): both hooks compare the end
of the access only, and `FullMeansLanded` and `Sm1HoldsReply` mean an access that ends
there. A second reply replaces an unread one. And a datagram queue filled by the
application drops the read of the clock, which counts as a missing answer all the same;
the model does both, but no document says what the supervision promises then.

## Fairness

* `Slave`: the main loop (`tools/ul_ecat_slave_harness.c`, the servo samples,
  `doc/slave-architecture.md`) ends each frame and polls after it: weak fairness of
  the end of a frame, strong fairness of `Poll`, which frames keep disabling.
* `AlRequest`: a wait in an exchange ends by the timeout of
  `ul_ecat_transport_wait_readable` (weak fairness of `Take \/ Timeout`), frames
  leave the ring (weak, with losses), and a thread that keeps finding the mutex free
  gets it in the end (strong fairness of `Transmit`).
* `EventLoop`: the loop's thread runs and callbacks return. Posts, stops and
  spurious wake-ups need not happen.
* `Lan9252Slave`: the loop polls again after a poll, a driver call goes on to its end or
  its failure, and the chip does what it was asked (weak fairness of each). Failures
  are bounded, so `AlReported` is about what comes after the last of them.
* `Scan`: a scan that has begun runs on (weak): its exchanges end by their timeouts.
* `Coe` needs none: its properties are safety properties.
* `MasterCycle`: the worker runs and gets the mutex in the end (strong), exchanges
  end (weak), a begun shutdown goes on. The ring may answer nothing and the
  event loop may never run.

Strong fairness for a mutex is the one assumption beyond what POSIX promises; the
critical sections of the worker and of polls are separated by sleeps (1 ms per cycle,
20 ms per poll), which is what makes it hold on the platforms the OSAL supports. The
exchanges of a scan follow each other without a sleep, but a scan has at most five per
entry of the database.

## Proofs

All proofs hold for every value of the constants allowed by the named assumptions.

* **`SlaveProofs`.** `SlaveTypes` (`TypeOK`) needs no assumption on the bus: it is
  the bounds check of the mirror and of SM1. `SlaveFullMeansLanded` and
  `SlaveImplementsAl` assume `BusDiscipline`: the bus leaves AL Status and its code
  alone, places SM1's buffer above the registers when it makes SM1 a mailbox, and
  never raises SM0's `MBX_FULL` itself. The master and the tests keep to it; without
  it a reply could be written over the AL registers. The invariant is
  `IInv == TypeOK /\ AlStatusIsWord /\ Sm1AboveRegisters /\ FullMeansLanded`:
  `AlStatusIsWord` (AL Status is a legal state, with or without the error bit, and
  the code agrees with the bit) makes a control write a step of the machine, and
  `Sm1AboveRegisters` keeps replies away from the registers. Each step of the slave
  is then `Enter`, `Refuse`, `Acknowledge` or a stutter of `AlMachine`.
  `Sm1KeepsReply` (`Sm1HoldsReply`) also assumes `Sm1Discipline`: SM1 is given its
  place together with its status byte, no datagram raises its `MBX_FULL`, and none
  writes where SM1 lies. Its invariant adds that a full SM1 holds the last reply,
  padded, in a buffer that no datagram touches. `MCSlave` checks as an `ASSUME` that
  the datagrams of its run keep both disciplines.
* **`AlRequestProofs`.** `ExchangesIsolated` (`OwnAnswer`) and `SuccessIsReal`
  (`NoFakeSuccess`) assume `Timely`: no late answers, which break both
  (`request_late_answer`), and no cyclic datagrams, which break the first. The invariant says that
  at most one frame is under way, that it belongs to the holder of the mutex and is
  its question or the slave's answer to it, and that what the answer to a poll shows
  is in `seen`. `FailureIsReal` (`NoFakeFailure`) adds `OneThread`, one thread to a slave,
  as the property says. What holds while nothing was lost (`FaultFree`): an exchange in
  progress has its question or a counted answer on the ring, and a request that polls
  finds its slave settled, in the state asked for or with the error bit, so the first
  poll decides. `AnswersKept` (`AnswerKept`) assumes nothing: with late answers and cyclic
  traffic too, the last frame under way is that of the holder of the mutex, or nothing is
  left to be answered and something was lost (`KeptStep`; the drain needs the mutex, and
  a frame leaves the ring in front). `RequestTypes` (`TypeOK`) needs none of these assumptions.
* **`EventLoopProofs`.** `EventLoopTypes` (`TypeOK`), `EventLoopAwake` (`NoLostWakeup`) and `EventLoopIsChannel`
  (`ChannelRefinement`). The slots below the count hold events, and the loop has one
  in hand exactly while its callback runs; `PostAppends` and `TakeRemoves` say that
  the assignments to the array are `Append` and `Tail` of the sequence it stands for.
* **`MasterCycleProofs`.** `MasterWorkerHasSocket` (`WorkerHasSocket`). The invariant
  says when there is a session: the socket is open and a worker exists exactly while
  `main` is not `"down"`, and the worker holds trx exactly while it drains. `MasterTypes`
  (`TypeOK`) adds the limits: of the datagram queue, of a batch, of the event channel
  and of the clock's silence.
* **`CoeProofs`.** `SessionSafe` (`SessionInObject`): an upload opens a session
  only on an entry with more than four bytes, a segment that is not the last leaves
  bytes to send, and every other handler leaves the session or closes it. `CoeTypes`
  (`TypeOK`), `DownloadsAreWritten` (`ConfirmedMeansWritten`),
  `CleanOperationsSucceed` (`CleanSucceeds`) and `UploadsAreTransfers`
  (`UploadRefinement`: every step of `Coe` is a step of `SdoTransfer` or a stutter) rest on
  `OInv`. Its parts: a reply in SM1 is never so old that its counter has come round
  (`Sm1OK`; counters advance only when a reply is taken or an operation begins, and
  what is left in SM1 or SM0 is counted by the faults); so a reply with the client's
  number answers the client's request (`AnswerOK`); during an upload the server's
  session is on the client's object, at the client's segment or one ahead of it with
  that segment in SM1 (`StageOK`); with nothing disturbed the session agrees with the
  client's toggle and offset (`CleanOK`); and bytes of storage know their object and
  place (`StorageOK`).
* **`ScanProofs`.** `ScanTypes` (`TypeOK`) and `NamesAreTheirs` (`NamesMatch`) hold for all
  rings, files and faults. `ReadsAreWritten` (`ReadsWritten`), `IdentitiesAreOwn`
  (`IdentityOwn`) and `ScansReadAll` (`ScanReadsAll`) assume `KeepsPlace`: no two slaves have
  one position, in one wiring or in two, and a slave that has a position after rewiring
  has the one it had; `scan_rewired` shows why. It holds of the rings of the passing run.
  The invariant is `PlacesKept`: a slave has no station, or that of a position of its own
  (`Owns`), so one slave at most answers to a station (`OneOwner`, `StationPlaces`). For
  what was written, the register of a slave holds a value its station may have
  (`CellsKnown`); for the identities, a scan reads on only where some slave took the
  address (`SomeoneThere`), so whoever answers is that slave; for a scan without faults,
  that slave has no slave of the library behind it (`Counts` in `SlotExact`), so what
  made its assignment count makes its reads count. Nothing is assumed of which slaves are
  the library's.
* **`Lan9252Proofs`.** Invariants that each include the ones before. `TInv`: the
  types, with the fact that a call in progress lies in the memory and that a byte, wherever
  it is, carries a version already given out; from it `Lan9252Types` (`TypeOK`) and
  `WidthSafe` (`AccessWidth`; `ChunkFits` says of `esc_next_chunk_size` that a chunk is
  1, 2 or 4 bytes, aligned, and not longer than what is left). `CInv`: who asked the chip
  for what. A busy command, a running or aborting engine and a reset belong to the call
  in progress or to one that gave up; the command register names the chunk the call is
  at; the span of the engine and that of the call end at the same address. `WInv`: where
  the bytes of a write are. A byte in the CSR data register, or in the word of the FIFO
  that `At` computes from the address, is meant for the address it will go to
  (`CommandMeant`, `QueueMeant`), and an address already passed has the byte or has it on
  its way (`Sent`); the number of words in the FIFO is the distance of the driver from
  the engine in words (`QueueRuns`). From it `WritesLand` (`WriteLands`). `RInv`: the
  same for a read. A byte in the data register, in the FIFO or in the call's data is one
  its address held since the call began (`Taken`, `Fetched`, `Came`), and while the
  engine has bytes left the FIFO has exactly the whole words between the driver and it
  (`SourceRuns`). From it `ReadsAreExact` (`ReadExact`). These four hold for every layout,
  span, FIFO depth and number of faults allowed by `LanAssumption` and
  `SlaveAssumption`; in particular the first and last word of a span may be partial in
  any way. `ReportsAreFresh` (`ReportFresh`) also assumes `RegistersApart`: AL Status lies
  at an even address and AL Event at a multiple of four (0x0130 and 0x0220 in
  `ul_ecat_esc_regs.h:19` and `:23`), they do not overlap, and neither the images, which
  are in process RAM, nor what the application writes itself touches them. Then each of
  the two is read by one command (`RegisterChunk`), no write is ever on its way to them
  and the memory always holds each as of one moment, the event not older than the status
  (`AInv`); `PInv` adds, stage by stage, what the poll knows of the two it has copied. A
  read of either in two commands, or a write across them, would break it. `MCLan9252`
  checks `RegistersApart` of its layout as an `ASSUME`. TLC checked the parts of `WInv`,
  `RInv`, `AInv` and `PInv` on a smaller instance before they were proved.

Only model-checked: all liveness properties (`AlStatusReported`, `RequestReturns`,
`StopEndsRun`, `ShutdownReturns`, `SilenceNoticed`, `AlReported`, `ScanEnds`), which are
beyond the prover. Every safety property that a passing run checks is stated by a theorem. Only proved:
`OwnAnswer`, which no run checks.

## Not modelled

Real time (durations of waits, the 1 ms cycle, the length of a poll), identity
registers of the slave, torn registers of the mirror, registration of callbacks, the
AL Event register of the software controller, text output, platform calls, the search
for tags in ESI files, generated tables, scripts and samples.

The frame codec (`src/common/ul_ecat_frame.c`) is a set of pure functions between
bytes and fields. The models use datagrams as records; what the codec refuses is a
choice where it matters (`AbortFrame`, `Usable`). Its byte layout is covered by the unit
tests, and a model of it would restate the layout byte by byte.

Of the CoE server: the bytes of the SDO command specifiers and of the headers. Of the
LAN9252: what the chip does with a command while it is busy, and with an empty or full
FIFO; the HAL. `PROJECT.json` gives the reason for each component.

## Plan

Done: 1 `SlaveEsc`, `AlMachine`, `Slave`; 2 `AlRequest` on them; 3 `EventChannel`,
`EventLoop`; 4 `MasterCycle` on the channel; 5 `Coe` against `SdoTransfer`; 6 `Lan9252`,
`Lan9252Slave`; 7 `Scan`; 8 the proofs above, of every safety property. Of the code that
has state, what is left is named above and by the hazards of `PROJECT.json` that no
property covers: the registration of callbacks, a second initialisation without a
shutdown, and the AL Event register of the software controller.
