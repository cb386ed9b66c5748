----------------------------- MODULE AlRequest -----------------------------
(***************************************************************************)
(* AL state requests of the master (ul_ecat_request_slave_state in         *)
(* src/master/ul_ecat_master.c): application threads ask a slave for a     *)
(* state with an FPWR of AL Control, poll AL Status with FPRDs, and write  *)
(* the acknowledgement.  Each of the three is a blocking exchange: under   *)
(* the trx mutex, send a frame and take the next frame the socket has.     *)
(* The worker thread sends queued datagrams and drains the socket under    *)
(* the same mutex.  Nothing in an exchange matches the frame it takes with *)
(* the frame it sent.                                                      *)
(*                                                                         *)
(* The slaves on the other end are those of SlaveEsc.  A frame stands for  *)
(* its first datagram, the only one a blocking exchange reads.             *)
(***************************************************************************)
EXTENDS SlaveEsc

CONSTANTS Apps,          \* application threads
          NoOne,         \* the trx mutex is free
          Worker,        \* the sender of queued datagrams
          Stations,      \* station addresses of the slaves on the ring
          SlaveOf,       \* the slave an application thread controls
          Requests,      \* the states asked for
          Cyclic,        \* datagrams the worker may find queued
          LateAnswers,   \* may an answer come after the exchange timed out
          MaxPolls,      \* 3000 ms / 20 ms in the code
          MaxFaults,     \* bound on lost frames and slave restarts
          MaxInFlight    \* bound on frames that are late or not drained

ASSUME AlRequestAssumption ==
  /\ NoOne \notin Apps /\ Worker \notin Apps /\ NoOne # Worker
  /\ Stations \subseteq Nat \ {0}
  /\ SlaveOf \in [Apps -> Stations]
  /\ Requests \subseteq 0 .. BIT4 - 1
  /\ Cyclic \subseteq Datagram /\ LateAnswers \in BOOLEAN
  /\ MaxPolls \in Nat \ {0} /\ MaxFaults \in Nat /\ MaxInFlight \in Nat

VARIABLES
  esc,       \* per station, the slave's register mirror
  trx,       \* the holder of the trx mutex
  out,       \* frames sent and not yet through the ring
  in,        \* frames in the socket's receive buffer
  stage,     \* per app, the exchange ul_ecat_request_slave_state is at
  target,    \* per app, the state asked for
  left,      \* per app, polls left
  known,     \* per station, ul_ecat_slave_t.state in the slave database
  worker,    \* the worker's next call: send_batched_frames or receive
  seen,      \* history: AL Status words of the app's slave since it asked
  faults     \* faults so far

vars == <<esc, trx, out, in, stage, target, left, known, worker, seen, faults>>

Asking == {"write", "poll", "ack"}

-----------------------------------------------------------------------------
(* A slave as ul_ecat_scan_network leaves it, with or without the mailbox  *)
(* SyncManagers its configuration needs.                                   *)
Online(station, configured) ==
  LET named == [EscReset EXCEPT ![STADR] = station]
  IN  IF configured
      THEN EscWrite(named, SM0, <<MBX_BASE,     1, MODE_MBX, 0, 1,
                                  MBX_BASE + 1, 1, MODE_MBX, 0, 1>>)
      ELSE named

Init ==
  /\ \E configured \in SUBSET Stations :
       esc = [s \in Stations |-> Online(s, s \in configured)]
  /\ trx = NoOne
  /\ out = <<>> /\ in = <<>>
  /\ stage = [a \in Apps |-> "idle"]
  /\ target = [a \in Apps |-> AL_INIT]
  /\ left = [a \in Apps |-> 0]
  /\ known = [s \in Stations |-> AL_INIT]
  /\ worker = "send"
  /\ seen = [a \in Apps |-> {}]
  /\ faults = 0

-----------------------------------------------------------------------------
(* The application threads.                                                *)

Start(a, state) ==
  /\ stage[a] \notin Asking
  /\ stage'  = [stage EXCEPT ![a] = "write"]
  /\ target' = [target EXCEPT ![a] = state]
  /\ seen'   = [seen EXCEPT ![a] = {esc[SlaveOf[a]][ALSTAT]}]
  /\ left'   = [left EXCEPT ![a] = MaxPolls]
  /\ UNCHANGED <<esc, trx, out, in, known, worker, faults>>

(* write_al_control_blocking and read_al_status_blocking.                  *)
Question(a) ==
  LET fp(cmd, ado, word) == [cmd |-> cmd, adp |-> SlaveOf[a], ado |-> ado,
                             data |-> <<word>>]
  IN  CASE stage[a] = "write" -> fp("FPWR", ALCTL, target[a])
        [] stage[a] = "poll"  -> fp("FPRD", ALSTAT, 0)
        [] stage[a] = "ack"   -> fp("FPWR", ALCTL, target[a] + BIT4)

(* exchange_ec_payload takes the mutex and sends.                          *)
Transmit(a) ==
  /\ stage[a] \in Asking
  /\ trx = NoOne
  /\ trx' = a
  /\ out' = Append(out, [dg |-> Question(a), wkc |-> 0, by |-> a])
  /\ UNCHANGED <<esc, in, stage, target, left, known, worker, seen, faults>>

(* What the parser accepts: any datagram with a working counter, for a     *)
(* poll one whose data fits the two bytes of AL Status.                    *)
Usable(a, f) == f.wkc >= 1 /\ (stage[a] = "poll" => Len(f.dg.data) <= 1)

(* Seeded fault: the budget of polls does not end the loop.                *)
PollForever(a) == left' = [left EXCEPT ![a] = @ - 1] /\ UNCHANGED <<stage, known>>

(* Seeded fault: a budget that has run out passes for success.            *)
PollSettles(a) ==
  /\ left' = [left EXCEPT ![a] = @ - 1]
  /\ stage' = IF left[a] = 1 THEN [stage EXCEPT ![a] = "ok"] ELSE stage
  /\ UNCHANGED known

(* A poll that shows neither an error nor the state asked for, or fails,   *)
(* costs one of the polls left.                                            *)
PollAgain(a) ==
  /\ left' = [left EXCEPT ![a] = @ - 1]
  /\ stage' = IF left[a] = 1 THEN [stage EXCEPT ![a] = "failed"] ELSE stage
  /\ UNCHANGED known

Polled(a, word) ==
  IF Bit4Of(word)
  THEN stage' = [stage EXCEPT ![a] = "failed"] /\ UNCHANGED <<left, known>>
  ELSE IF StateOf(word) = target[a]
  THEN /\ stage' = [stage EXCEPT ![a] = "ack"]
       /\ known' = [known EXCEPT ![SlaveOf[a]] = target[a]]
       /\ UNCHANGED left
  ELSE PollAgain(a)

Written(a) ==
  /\ stage' = [stage EXCEPT ![a] = IF stage[a] = "write" THEN "poll" ELSE "ok"]
  /\ UNCHANGED <<left, known>>

(* Seeded fault: a poll that fails does not count.                         *)
UnansweredFree(a) ==
  IF stage[a] = "poll" THEN UNCHANGED <<stage, left, known>>
  ELSE stage' = [stage EXCEPT ![a] = "failed"] /\ UNCHANGED <<left, known>>

Unanswered(a) ==
  IF stage[a] = "poll" THEN PollAgain(a)
  ELSE stage' = [stage EXCEPT ![a] = "failed"] /\ UNCHANGED <<left, known>>

(* exchange_ec_payload takes the next frame, whosever it is.               *)
Take(a) ==
  /\ trx = a
  /\ in # <<>>
  /\ in' = Tail(in)
  /\ trx' = NoOne
  /\ IF ~Usable(a, Head(in)) THEN Unanswered(a)
     ELSE IF stage[a] = "poll" THEN Polled(a, Head(in).dg.data[1])
     ELSE Written(a)
  /\ UNCHANGED <<esc, out, target, worker, seen, faults>>

(* Nothing became readable in time.  Without late answers, only a loss can *)
(* be the reason.                                                          *)
Timeout(a) ==
  /\ trx = a
  /\ in = <<>>
  /\ out = <<>> \/ (LateAnswers /\ Len(out) <= MaxInFlight)
  /\ trx' = NoOne
  /\ Unanswered(a)
  /\ UNCHANGED <<esc, out, in, target, worker, seen, faults>>

-----------------------------------------------------------------------------
(* The worker thread: its two critical sections never wait inside.         *)

SendBatch ==
  /\ worker = "send"
  /\ trx = NoOne
  /\ \/ UNCHANGED out
     \/ /\ Len(out) + Len(in) < MaxInFlight
        /\ \E dg \in Cyclic :
             out' = Append(out, [dg |-> dg, wkc |-> 0, by |-> Worker])
  /\ worker' = "drain"
  /\ UNCHANGED <<esc, trx, in, stage, target, left, known, seen, faults>>

(* Seeded fault: the drain does not take the mutex.                        *)
ReceiveUnlocked ==
  /\ worker = "drain"
  /\ in' = <<>>
  /\ worker' = "send"
  /\ UNCHANGED <<esc, trx, out, stage, target, left, known, seen, faults>>

ReceiveNonblock ==
  /\ worker = "drain"
  /\ trx = NoOne
  /\ in' = <<>>
  /\ worker' = "send"
  /\ UNCHANGED <<esc, trx, out, stage, target, left, known, seen, faults>>

-----------------------------------------------------------------------------
(* The ring.                                                               *)

(* A frame through the ring: only the slave it addresses can serve it.     *)
RingEsc(dg) == [s \in Stations |-> ProcessOne(esc[s], dg).esc]

RingAnswer(f) ==
  IF \E s \in Stations : Served(esc[s], f.dg)
  THEN LET s == CHOOSE s \in Stations : Served(esc[s], f.dg)
           p == ProcessOne(esc[s], f.dg)
       IN  [f EXCEPT !.dg.data = p.data, !.wkc = p.wkc]
  ELSE f

(* What the slaves show, to those who asked.                               *)
Show(e) ==
  seen' = [a \in Apps |-> IF stage[a] \in Asking
                          THEN seen[a] \cup {e[SlaveOf[a]][ALSTAT]}
                          ELSE seen[a]]

Ring ==
  /\ out # <<>>
  /\ out' = Tail(out)
  /\ esc' = RingEsc(Head(out).dg)
  /\ Show(RingEsc(Head(out).dg))
  /\ \/ in' = Append(in, RingAnswer(Head(out))) /\ UNCHANGED faults
     \/ faults < MaxFaults /\ faults' = faults + 1 /\ UNCHANGED in
  /\ UNCHANGED <<trx, stage, target, left, known, worker>>

LoseRequest ==
  /\ out # <<>> /\ faults < MaxFaults
  /\ out' = Tail(out)
  /\ faults' = faults + 1
  /\ UNCHANGED <<esc, trx, in, stage, target, left, known, worker, seen>>

(* A slave restarts without its station address (ul_ecat_slave_reset).     *)
Restart(s) ==
  /\ faults < MaxFaults
  /\ faults' = faults + 1
  /\ esc' = [esc EXCEPT ![s] = EscReset]
  /\ Show([esc EXCEPT ![s] = EscReset])
  /\ UNCHANGED <<trx, out, in, stage, target, left, known, worker>>

Next ==
  \/ \E a \in Apps, r \in Requests : Start(a, r)
  \/ \E a \in Apps : Transmit(a) \/ Take(a) \/ Timeout(a)
  \/ SendBatch \/ ReceiveNonblock
  \/ Ring \/ LoseRequest
  \/ \E s \in Stations : Restart(s)

Spec == Init /\ [][Next]_vars

(* The wait in an exchange ends, frames come through the ring or are lost, *)
(* and a thread that keeps finding the mutex free gets it in the end.      *)
FairSpec ==
  /\ Spec
  /\ WF_vars(Ring)
  /\ \A a \in Apps : SF_vars(Transmit(a)) /\ WF_vars(Take(a) \/ Timeout(a))

-----------------------------------------------------------------------------
TypeOK ==
  /\ esc \in [Stations -> Mirror]
  /\ trx \in Apps \cup {NoOne}
  /\ stage \in [Apps -> Asking \cup {"idle", "ok", "failed"}]
  /\ target \in [Apps -> 0 .. BIT4 - 1]
  /\ left \in [Apps -> 0 .. MaxPolls]
  /\ known \in [Stations -> 0 .. BIT4 - 1]
  /\ worker \in {"send", "drain"}
  /\ seen \in [Apps -> SUBSET Nat]
  /\ faults \in 0 .. MaxFaults

(* "so scan/CLI does not race the cyclic path" (doc/architecture.md): the  *)
(* frame a blocking exchange finds is the answer to the one it sent.       *)
OwnAnswer == trx # NoOne /\ in # <<>> => Head(in).by = trx

(* "serializes raw socket use" (doc/architecture.md): while an exchange    *)
(* waits under the trx mutex nobody sends behind its frame, and nobody     *)
(* drains the answer to it; only a loss can take it away.                  *)
AnswerKept ==
  trx # NoOne =>
    LET underway == in \o out
    IN  \/ underway # <<>> /\ underway[Len(underway)].by = trx
        \/ out = <<>> /\ faults > 0

(* "real polling (no fake success)" (README.md): a request succeeds only   *)
(* if its slave reported the state, without error, after it was asked.     *)
NoFakeSuccess ==
  \A a \in Apps : stage[a] = "ok" => target[a] \in seen[a]

(* And fails, on a ring without faults, only if its slave reported an      *)
(* error after it was asked: no poll budget runs out, no working counter   *)
(* is lost.  For slaves controlled by one thread each.                     *)
NoFakeFailure ==
  \A a \in Apps : stage[a] = "failed" /\ faults = 0
    => \E w \in seen[a] : Bit4Of(w)

(* Every request comes back to its caller, whatever is lost.               *)
RequestReturns ==
  \A a \in Apps : stage[a] = "write" ~> stage[a] \in {"ok", "failed"}

=============================================================================
