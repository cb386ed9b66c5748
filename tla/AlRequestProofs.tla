-------------------------- MODULE AlRequestProofs --------------------------
(***************************************************************************)
(* On a ring where no answer comes after its exchange gave up, and with    *)
(* nothing queued for the worker, a blocking exchange takes its own answer *)
(* and a request that succeeds was answered by its slave: for any number   *)
(* of threads and slaves, any requests, any polls, losses and restarts.    *)
(* With one thread to a slave, a request fails only for a reason.  A late  *)
(* answer breaks the first two (the run MCAlRequestLate), an answer of the *)
(* worker's the first; that nobody sends or drains while an exchange waits *)
(* holds with both.                                                        *)
(***************************************************************************)
EXTENDS AlRequest, SlaveEscProofs, TLAPS

Timely == LateAnswers = FALSE /\ Cyclic = {}

-----------------------------------------------------------------------------
(* The inductive invariant.                                                *)

(* The slaves: AL Status holds one of the words the AL machine writes, and *)
(* a slave that answers at all answers to its own station address.         *)
SlaveOK(s, e) ==
  e \in Mirror /\ e[ALSTAT] \in AlWords /\ e[STADR] \in {0, s}

SlavesOK == /\ DOMAIN esc = Stations
            /\ \A s \in Stations : SlaveOK(s, esc[s])

ThreadsOK ==
  /\ stage \in [Apps -> Asking \cup {"idle", "ok", "failed"}]
  /\ target \in [Apps -> 0 .. BIT4 - 1]
  /\ seen \in [Apps -> SUBSET AlWords]

Sent(a) == [dg |-> Question(a), wkc |-> 0, by |-> a]

Truthful(a, f) ==
  /\ f.by = a
  /\ stage[a] = "poll" /\ f.wkc >= 1 => f.dg.data[1] \in seen[a]

(* At most one frame is under way, and only for the thread that holds the  *)
(* mutex: its question, or the true answer to it.                          *)
Flight ==
  \/ trx = NoOne /\ out = <<>> /\ in = <<>>
  \/ /\ trx \in Apps /\ stage[trx] \in Asking
     /\ \/ out = <<>> /\ in = <<>>
        \/ out = <<Sent(trx)>> /\ in = <<>>
        \/ out = <<>> /\ Len(in) = 1 /\ in = <<Head(in)>> /\ Truthful(trx, Head(in))

Polled1 == \A a \in Apps : stage[a] \in {"ack", "ok"} => target[a] \in seen[a]

IInv == SlavesOK /\ ThreadsOK /\ Flight /\ Polled1

-----------------------------------------------------------------------------
(* One exchange with a slave.                                              *)

(* A question is a datagram that touches AL Control, or reads AL Status.   *)
LEMMA QuestionFacts ==
  ASSUME NEW a \in Apps, stage[a] \in Asking, target[a] \in 0 .. BIT4 - 1
  PROVE  /\ Question(a) \in Datagram
         /\ Question(a).adp = SlaveOf[a] /\ Len(Question(a).data) = 1
         /\ Question(a).ado = IF stage[a] = "poll" THEN ALSTAT ELSE ALCTL
         /\ Question(a).cmd = IF stage[a] = "poll" THEN "FPRD" ELSE "FPWR"
<1>1. SlaveOf[a] \in Nat
  BY AlRequestAssumption
<1>2. ALCTL \in Nat /\ ALSTAT \in Nat /\ BIT4 = 16
  BY Registers DEF BIT4
<1>3. target[a] \in Nat /\ target[a] + BIT4 \in Nat /\ 0 \in Nat
  BY <1>2
<1>4. CASE stage[a] = "write"
  BY <1>1, <1>2, <1>3, <1>4 DEF Question, Datagram, Commands
<1>5. CASE stage[a] = "poll"
  BY <1>1, <1>2, <1>3, <1>5 DEF Question, Datagram, Commands
<1>6. CASE stage[a] = "ack"
  BY <1>1, <1>2, <1>3, <1>6 DEF Question, Datagram, Commands
<1>7. QED
  BY <1>4, <1>5, <1>6 DEF Asking

(* What it does to a slave.                                                *)
LEMMA QuestionServed ==
  ASSUME NEW s \in Stations, NEW e, SlaveOK(s, e), NEW dg \in Datagram,
         Len(dg.data) = 1,
         \/ dg.cmd = "FPRD" /\ dg.ado = ALSTAT
         \/ dg.cmd = "FPWR" /\ dg.ado = ALCTL
  PROVE  /\ SlaveOK(s, ProcessOne(e, dg).esc)
         /\ dg.cmd = "FPRD" =>
              /\ ProcessOne(e, dg).esc[ALSTAT] = e[ALSTAT]
              /\ Served(e, dg) => /\ ProcessOne(e, dg).data = <<e[ALSTAT]>>
                                  /\ dg.adp = s
<1> USE DEF SlaveOK
<1>1. /\ ALSTAT \in Addr \ {SmStatus(1)} /\ STADR \in Addr \ {SmStatus(1)}
      /\ STADR \in Addr \ Owned
  BY Registers DEF Addr, Owned
<1>2. CASE dg.cmd = "FPRD" /\ dg.ado = ALSTAT
  <2>1. \/ ProcessOne(e, dg).esc = e
        \/ ProcessOne(e, dg).esc = ServeRead(e, dg)
    BY <1>2, ProcessOneCases
  <2>2. ProcessOne(e, dg).esc \in Mirror
    BY <2>1, ServeReadFacts
  <2>3. \A a \in {ALSTAT, STADR} : ProcessOne(e, dg).esc[a] = e[a]
    BY <1>1, <2>1, ServeReadFacts
  <2>4. ASSUME Served(e, dg)
        PROVE  ProcessOne(e, dg).data = <<e[ALSTAT]>> /\ dg.adp = s
    <3>1. ProcessOne(e, dg).data = EscRead(e, ALSTAT, 1)
      BY <1>2, <2>4 DEF ProcessOne
    <3>2. EscRead(e, ALSTAT, 1) = <<e[ALSTAT]>>
      BY Registers DEF EscRead
    <3>3. dg.adp = s
      BY <1>2, <2>4 DEF Served, Addressed
    <3>4. QED
      BY <3>1, <3>2, <3>3
  <2>5. QED
    BY <2>2, <2>3, <2>4
<1>3. CASE dg.cmd = "FPWR" /\ dg.ado = ALCTL
  <2>1. CASE ProcessOne(e, dg).esc = e
    BY <1>3, <2>1
  <2>2. CASE ProcessOne(e, dg).esc = ServeWrite(e, dg) /\ Served(e, dg)
    <3>1. /\ ALSTAT \notin dg.ado .. dg.ado + Len(dg.data) - 1
          /\ ALSTACODE \notin dg.ado .. dg.ado + Len(dg.data) - 1
          /\ STADR \notin dg.ado .. dg.ado + Len(dg.data) - 1
      BY <1>3, Registers
    <3>2. ServeWrite(e, dg)[ALSTAT] \in AlWords
      BY <2>2, <3>1, ServeWriteMoves
    <3>3. ServeWrite(e, dg) \in Mirror /\ ServeWrite(e, dg)[STADR] = e[STADR]
      BY <1>1, <2>2, <3>1, ServeWriteFacts
    <3>4. QED
      BY <1>3, <2>2, <3>2, <3>3
  <2>3. QED
    BY <1>3, <2>1, <2>2, ProcessOneCases
<1>4. QED
  BY <1>2, <1>3

(* An error-free AL Status word is the state it shows.                     *)
LEMMA CleanWord ==
  \A w \in AlWords : ~Bit4Of(w) => StateOf(w) = w
BY AlWordFields DEF AlWords

-----------------------------------------------------------------------------
(* The initial states.                                                     *)

LEMMA ResetOK == \A s \in Stations : SlaveOK(s, EscReset)
<1>1. EscReset \in Mirror
  BY DEF EscReset, Mirror, AL_INIT
<1>2. EscReset[ALSTAT] = AL_INIT /\ EscReset[STADR] = 0
  BY Registers DEF EscReset, Addr
<1>3. QED
  BY <1>1, <1>2 DEF SlaveOK, AlWords, AlStates

LEMMA OnlineOK ==
  ASSUME NEW s \in Stations, NEW configured
  PROVE  SlaveOK(s, Online(s, configured)) /\ Online(s, configured)[STADR] = s
<1> DEFINE named == [EscReset EXCEPT ![STADR] = s]
           sms == <<MBX_BASE,     1, MODE_MBX, 0, 1,
                    MBX_BASE + 1, 1, MODE_MBX, 0, 1>>
<1>1. s \in Nat /\ EscReset \in Mirror /\ EscReset[ALSTAT] = AL_INIT
  BY AlRequestAssumption, Registers DEF EscReset, Mirror, AL_INIT, Addr
<1>2. /\ STADR \in Addr /\ ALSTAT \in Addr /\ STADR # ALSTAT
      /\ SM0 = 5 /\ SM0 + 10 <= ESC_SIZE
  BY Registers DEF Addr, SM0
<1>3. named \in Mirror /\ named[STADR] = s /\ named[ALSTAT] = AL_INIT
  BY <1>1, <1>2 DEF Mirror
<1>4. AL_INIT \in AlWords
  BY DEF AlWords, AlStates
<1>5. CASE ~configured
  BY <1>3, <1>4, <1>5 DEF Online, SlaveOK
<1>6. CASE configured
  <2>1. sms \in Seq(Nat) /\ Len(sms) = 10
    BY Registers DEF MODE_MBX
  <2>2. Online(s, configured) = EscWrite(named, SM0, sms)
    BY <1>6 DEF Online
  <2> HIDE DEF named, sms
  <2>3. SM0 \in Nat /\ SM0 + Len(sms) <= ESC_SIZE
    BY <1>2, <2>1
  <2>4. /\ EscWrite(named, SM0, sms) \in Mirror
        /\ \A a \in Addr : EscWrite(named, SM0, sms)[a] =
             IF a \in SM0 .. SM0 + Len(sms) - 1
             THEN sms[a - SM0 + 1] ELSE named[a]
    BY <1>3, <2>1, <2>3, EscWriteFacts
  <2>5. /\ STADR \notin SM0 .. SM0 + Len(sms) - 1
        /\ ALSTAT \notin SM0 .. SM0 + Len(sms) - 1
    BY <1>2, <2>1, Registers
  <2>6. QED
    BY <1>2, <1>3, <1>4, <2>2, <2>4, <2>5 DEF SlaveOK
<1>7. QED
  BY <1>5, <1>6

LEMMA InvInit == Init => IInv
<1> SUFFICES ASSUME Init
             PROVE  IInv
  OBVIOUS
<1>1. SlavesOK
  <2>1. PICK configured \in SUBSET Stations :
          esc = [s \in Stations |-> Online(s, s \in configured)]
    BY DEF Init
  <2>2. \A s \in Stations : SlaveOK(s, Online(s, s \in configured))
    BY OnlineOK
  <2>3. QED
    BY <2>1, <2>2 DEF SlavesOK
<1>2. ThreadsOK
  BY DEF Init, ThreadsOK, AL_INIT, BIT4
<1>3. Flight /\ Polled1
  BY DEF Init, Flight, Polled1
<1>4. QED
  BY <1>1, <1>2, <1>3 DEF IInv

-----------------------------------------------------------------------------
(* The steps of the threads.                                               *)

LEMMA StartStep ==
  ASSUME IInv, NEW a \in Apps, NEW r \in Requests, Start(a, r)
  PROVE  IInv'
<1> USE DEF IInv, ThreadsOK
<1>1. r \in 0 .. BIT4 - 1 /\ esc[SlaveOf[a]][ALSTAT] \in AlWords
  BY AlRequestAssumption DEF SlavesOK, SlaveOK
<1>2. ThreadsOK' /\ SlavesOK'
  BY <1>1 DEF Start, Asking, SlavesOK
<1>3. trx # a /\ a # NoOne
  BY AlRequestAssumption DEF Start, Flight
<1>4. ASSUME NEW b \in Apps, b # a
      PROVE  /\ stage'[b] = stage[b] /\ target'[b] = target[b]
             /\ seen'[b] = seen[b] /\ Question(b)' = Question(b)
  BY <1>4 DEF Start, Question
<1>5. Flight'
  <2>1. trx' = trx /\ out' = out /\ in' = in
    BY DEF Start
  <2>2. CASE trx = NoOne
    BY <2>1, <2>2, <1>3, AlRequestAssumption DEF Flight
  <2>3. CASE trx \in Apps
    <3>1. /\ stage'[trx] = stage[trx] /\ seen'[trx] = seen[trx]
          /\ Sent(trx)' = Sent(trx)
      BY <1>3, <1>4, <2>1, <2>3 DEF Sent
    <3>2. \A f : Truthful(trx, f) => Truthful(trx, f)'
      BY <2>1, <3>1 DEF Truthful
    <3>3. trx # NoOne
      BY <2>3, AlRequestAssumption
    <3>4. QED
      BY <2>1, <2>3, <3>1, <3>2, <3>3 DEF Flight
  <2>4. QED
    BY <2>2, <2>3 DEF Flight
<1>6. Polled1'
  <2>1. stage'[a] = "write"
    BY DEF Start
  <2>2. QED
    BY <1>4, <2>1 DEF Polled1
<1>7. QED
  BY <1>2, <1>5, <1>6

LEMMA TransmitStep ==
  ASSUME IInv, NEW a \in Apps, Transmit(a)
  PROVE  IInv'
<1> USE DEF IInv
<1>1. SlavesOK' /\ ThreadsOK' /\ Polled1'
  BY DEF Transmit, SlavesOK, ThreadsOK, Polled1
<1>2. /\ trx' = a /\ out' = <<Sent(a)>> /\ in' = <<>>
      /\ stage' = stage /\ target' = target
  <2>1. out = <<>> /\ in = <<>>
    BY AlRequestAssumption DEF Transmit, Flight
  <2>2. out' = Append(out, Sent(a))
    BY DEF Transmit, Sent
  <2>3. Append(<<>>, Sent(a)) = <<Sent(a)>>
    OBVIOUS
  <2>4. QED
    BY <2>1, <2>2, <2>3 DEF Transmit
<1>3. Sent(a)' = Sent(a)
  BY <1>2 DEF Sent, Question
<1>4. Flight'
  BY <1>2, <1>3 DEF Flight, Transmit
<1>5. QED
  BY <1>1, <1>4

(* An exchange that ends without a usable answer.                          *)
LEMMA UnansweredStep ==
  ASSUME IInv, NEW a \in Apps, stage[a] \in Asking, Unanswered(a),
         UNCHANGED <<esc, target, seen>>, trx' = NoOne, out' = <<>>, in' = <<>>
  PROVE  IInv'
<1> USE DEF IInv
<1>1. SlavesOK'
  BY DEF SlavesOK
<1>2. stage' = stage \/ stage' = [stage EXCEPT ![a] = "failed"]
  BY DEF Unanswered, PollAgain
<1>3. ThreadsOK' /\ Polled1'
  BY <1>2 DEF ThreadsOK, Polled1
<1>4. Flight'
  BY DEF Flight
<1>5. QED
  BY <1>1, <1>3, <1>4

LEMMA TakeStep ==
  ASSUME IInv, NEW a \in Apps, Take(a)
  PROVE  IInv'
<1> USE DEF IInv
<1> DEFINE f == Head(in)
<1>1. /\ stage[a] \in Asking /\ out = <<>> /\ in = <<f>> /\ Truthful(a, f)
      /\ trx' = NoOne /\ out' = <<>> /\ in' = <<>>
      /\ UNCHANGED <<esc, target, seen>>
  <2>1. trx = a /\ in # <<>> /\ a # NoOne
    BY AlRequestAssumption DEF Take
  <2>2. out = <<>> /\ in = <<f>> /\ Truthful(a, f) /\ stage[a] \in Asking
    BY <2>1 DEF Flight
  <2> HIDE DEF f
  <2>3. Tail(in) = <<>>
    BY <2>2
  <2>4. QED
    BY <2>2, <2>3 DEF Take
<1> HIDE DEF f
<1>2. SlavesOK' /\ Flight'
  BY <1>1 DEF SlavesOK, Flight
<1>3. CASE Unanswered(a)
  BY <1>1, <1>3, UnansweredStep
<1>4. CASE stage[a] = "poll" /\ f.wkc >= 1 /\ Polled(a, f.dg.data[1])
  <2> DEFINE w == f.dg.data[1]
  <2>1. w \in seen[a] /\ w \in AlWords
    BY <1>1, <1>4 DEF Truthful, ThreadsOK
  <2>2. CASE stage' = stage \/ stage' = [stage EXCEPT ![a] = "failed"]
    BY <1>1, <1>2, <2>2 DEF ThreadsOK, Polled1
  <2>3. CASE /\ stage' = [stage EXCEPT ![a] = "ack"]
             /\ ~Bit4Of(w) /\ StateOf(w) = target[a]
    <3>1. target[a] \in seen[a]
      BY <2>1, <2>3, CleanWord
    <3>2. QED
      BY <1>1, <1>2, <2>3, <3>1 DEF ThreadsOK, Polled1, Asking
  <2>4. QED
    BY <1>4, <2>2, <2>3 DEF Polled, PollAgain
<1>5. CASE stage[a] # "poll" /\ Written(a)
  <2>1. ThreadsOK'
    BY <1>1, <1>5 DEF Written, ThreadsOK, Asking
  <2>2. stage[a] = "write" => stage'[a] = "poll"
    BY <1>5 DEF Written, ThreadsOK
  <2>3. stage[a] = "ack" => target[a] \in seen[a]
    BY DEF Polled1
  <2>4. \A b \in Apps : b # a => stage'[b] = stage[b]
    BY <1>5 DEF Written, ThreadsOK
  <2>5. Polled1'
    BY <1>1, <1>5, <2>2, <2>3, <2>4 DEF Polled1, Asking
  <2>6. QED
    BY <1>2, <2>1, <2>5
<1>6. QED
  BY <1>3, <1>4, <1>5 DEF Take, Usable, f

LEMMA TimeoutStep ==
  ASSUME IInv, Timely, NEW a \in Apps, Timeout(a)
  PROVE  IInv'
<1>1. /\ stage[a] \in Asking /\ Unanswered(a) /\ trx' = NoOne
      /\ out' = <<>> /\ in' = <<>> /\ UNCHANGED <<esc, target, seen>>
  BY AlRequestAssumption DEF Timeout, Timely, IInv, Flight
<1>2. QED
  BY <1>1, UnansweredStep

-----------------------------------------------------------------------------
(* The steps of the worker and of the ring.                                *)

LEMMA WorkerStep ==
  ASSUME IInv, Timely, SendBatch \/ ReceiveNonblock
  PROVE  IInv'
<1>1. UNCHANGED <<esc, trx, out, in, stage, target, seen>>
  BY AlRequestAssumption
     DEF Timely, IInv, Flight, SendBatch, ReceiveNonblock
<1>2. \A a : Sent(a)' = Sent(a) /\ (\A f : Truthful(a, f)' = Truthful(a, f))
  BY <1>1 DEF Sent, Question, Truthful
<1>3. QED
  BY <1>1, <1>2 DEF IInv, SlavesOK, ThreadsOK, Flight, Polled1

(* What a thread has seen of its slave only grows while it asks.           *)
LEMMA ShowFacts ==
  ASSUME ThreadsOK, NEW e, \A s \in Stations : SlaveOK(s, e[s]), Show(e)
  PROVE  /\ seen' \in [Apps -> SUBSET AlWords]
         /\ \A a \in Apps : seen[a] \subseteq seen'[a]
         /\ \A a \in Apps : stage[a] \in Asking => e[SlaveOf[a]][ALSTAT] \in seen'[a]
<1>1. \A a \in Apps : e[SlaveOf[a]][ALSTAT] \in AlWords
  BY AlRequestAssumption DEF SlaveOK
<1>2. QED
  BY <1>1 DEF Show, ThreadsOK

(* The threads through a step of the ring that shows them mirrors e.       *)
LEMMA ShownStep ==
  ASSUME IInv, NEW e, DOMAIN e = Stations,
         \A s \in Stations : SlaveOK(s, e[s]), Show(e),
         esc' = e, UNCHANGED <<stage, target>>
  PROVE  SlavesOK' /\ ThreadsOK' /\ Polled1'
<1>1. /\ seen' \in [Apps -> SUBSET AlWords]
      /\ \A a \in Apps : seen[a] \subseteq seen'[a]
  BY ShowFacts DEF IInv
<1>2. QED
  BY <1>1 DEF IInv, SlavesOK, ThreadsOK, Polled1

LEMMA RestartStep ==
  ASSUME IInv, NEW s \in Stations, Restart(s)
  PROVE  IInv'
<1> DEFINE e == [esc EXCEPT ![s] = EscReset]
<1>1. DOMAIN e = Stations /\ \A t \in Stations : SlaveOK(t, e[t])
  BY ResetOK DEF IInv, SlavesOK
<1>2. Show(e) /\ esc' = e /\ UNCHANGED <<trx, out, in, stage, target>>
  BY DEF Restart
<1> HIDE DEF e
<1>3. SlavesOK' /\ ThreadsOK' /\ Polled1'
  BY <1>1, <1>2, ShownStep
<1>4. \A a \in Apps : seen[a] \subseteq seen'[a]
  BY <1>1, <1>2, ShowFacts DEF IInv
<1>5. \A a \in Apps : /\ Sent(a)' = Sent(a)
                      /\ \A f : Truthful(a, f) => Truthful(a, f)'
  BY <1>2, <1>4 DEF Sent, Question, Truthful
<1>6. Flight'
  BY <1>2, <1>5 DEF IInv, Flight
<1>7. QED
  BY <1>3, <1>6 DEF IInv

LEMMA LoseStep ==
  ASSUME IInv, LoseRequest
  PROVE  IInv'
<1>1. /\ UNCHANGED <<esc, trx, in, stage, target, seen>>
      /\ out # <<>> /\ out' = Tail(out)
  BY DEF LoseRequest
<1>2. trx \in Apps /\ stage[trx] \in Asking /\ out = <<Sent(trx)>> /\ in = <<>>
  BY <1>1 DEF IInv, Flight
<1>3. Tail(<<Sent(trx)>>) = <<>>
  OBVIOUS
<1>4. Flight'
  BY <1>1, <1>2, <1>3 DEF Flight
<1>5. QED
  BY <1>1, <1>4 DEF IInv, SlavesOK, ThreadsOK, Polled1

(* The question reaches its slave and the answer comes back: a poll that   *)
(* was served carries the AL Status word the thread was shown.             *)
LEMMA RingStep ==
  ASSUME IInv, Ring
  PROVE  IInv'
<1> DEFINE a == trx
           f == Head(out)
           e == RingEsc(f.dg)
<1>1. /\ a \in Apps /\ stage[a] \in Asking /\ out = <<Sent(a)>> /\ in = <<>>
  BY DEF IInv, Flight, Ring
<1>2. f = Sent(a) /\ Tail(out) = <<>>
  BY <1>1
<1>3. /\ f.dg \in Datagram /\ f.dg.adp = SlaveOf[a] /\ Len(f.dg.data) = 1
      /\ f.dg.ado = IF stage[a] = "poll" THEN ALSTAT ELSE ALCTL
      /\ f.dg.cmd = IF stage[a] = "poll" THEN "FPRD" ELSE "FPWR"
      /\ f.by = a /\ f.wkc = 0
  BY <1>1, <1>2, QuestionFacts DEF Sent, IInv, ThreadsOK
<1>4. /\ Show(e) /\ esc' = e /\ out' = <<>> /\ UNCHANGED <<trx, stage, target>>
      /\ in' = Append(in, RingAnswer(f)) \/ in' = in
  BY <1>2 DEF Ring
<1>5. DOMAIN e = Stations /\ \A s \in Stations : SlaveOK(s, e[s])
  <2>1. \A s \in Stations : SlaveOK(s, ProcessOne(esc[s], f.dg).esc)
    BY <1>3, QuestionServed DEF IInv, SlavesOK
  <2>2. QED
    BY <2>1 DEF RingEsc
<1> HIDE DEF e, f
<1>6. SlavesOK' /\ ThreadsOK' /\ Polled1'
  BY <1>4, <1>5, ShownStep
<1>7. /\ RingAnswer(f).by = a
      /\ stage[a] = "poll" /\ RingAnswer(f).wkc >= 1
           => RingAnswer(f).dg.data[1] \in seen'[a]
  <2>1. CASE \E s \in Stations : Served(esc[s], f.dg)
    <3> DEFINE s == CHOOSE s \in Stations : Served(esc[s], f.dg)
               p == ProcessOne(esc[s], f.dg)
    <3>1. s \in Stations /\ Served(esc[s], f.dg)
      BY <2>1
    <3> HIDE DEF s
    <3>2. RingAnswer(f) = [f EXCEPT !.dg.data = p.data, !.wkc = p.wkc]
      BY <2>1 DEF RingAnswer, s
    <3>3. f \in [dg : Datagram, wkc : Nat, by : Apps]
      BY <1>1, <1>2, <1>3 DEF Sent
    <3>4. RingAnswer(f).by = a /\ RingAnswer(f).dg.data = p.data
      BY <1>3, <3>2, <3>3 DEF Datagram
    <3>5. ASSUME stage[a] = "poll"
          PROVE  p.data[1] \in seen'[a]
      <4>1. p.data = <<esc[s][ALSTAT]>> /\ s = SlaveOf[a]
            /\ p.esc[ALSTAT] = esc[s][ALSTAT]
        BY <1>3, <3>1, <3>5, QuestionServed DEF IInv, SlavesOK
      <4>2. e[SlaveOf[a]] = p.esc
        BY <3>1, <4>1 DEF e, RingEsc
      <4>3. e[SlaveOf[a]][ALSTAT] \in seen'[a]
        BY <1>1, <1>4, <1>5, ShowFacts DEF IInv
      <4>4. QED
        BY <4>1, <4>2, <4>3
    <3>6. QED
      BY <3>4, <3>5
  <2>2. CASE ~\E s \in Stations : Served(esc[s], f.dg)
    BY <1>3, <2>2 DEF RingAnswer
  <2>3. QED
    BY <2>1, <2>2
<1>8. Flight'
  <2>1. CASE in' = in
    BY <1>1, <1>4, <2>1 DEF Flight
  <2>2. CASE in' = Append(in, RingAnswer(f))
    <3>1. in' = <<RingAnswer(f)>>
      BY <1>1, <2>2
    <3>2. Len(in') = 1 /\ Head(in') = RingAnswer(f)
      BY <3>1
    <3>3. QED
      BY <1>1, <1>4, <1>7, <3>1, <3>2 DEF Flight, Truthful
  <2>3. QED
    BY <1>4, <2>1, <2>2
<1>9. QED
  BY <1>6, <1>8 DEF IInv

-----------------------------------------------------------------------------
LEMMA InvStep ==
  ASSUME Timely
  PROVE  IInv /\ [Next]_vars => IInv'
<1> SUFFICES ASSUME IInv, [Next]_vars
             PROVE  IInv'
  OBVIOUS
<1>1. ASSUME NEW a \in Apps, NEW r \in Requests, Start(a, r)
      PROVE  IInv'
  BY <1>1, StartStep
<1>2. ASSUME NEW a \in Apps, Transmit(a)
      PROVE  IInv'
  BY <1>2, TransmitStep
<1>3. ASSUME NEW a \in Apps, Take(a)
      PROVE  IInv'
  BY <1>3, TakeStep
<1>4. ASSUME NEW a \in Apps, Timeout(a)
      PROVE  IInv'
  BY <1>4, TimeoutStep
<1>5. CASE SendBatch \/ ReceiveNonblock
  BY <1>5, WorkerStep
<1>6. CASE Ring
  BY <1>6, RingStep
<1>7. CASE LoseRequest
  BY <1>7, LoseStep
<1>8. ASSUME NEW s \in Stations, Restart(s)
      PROVE  IInv'
  BY <1>8, RestartStep
<1>9. CASE UNCHANGED vars
  <2>1. UNCHANGED <<esc, trx, out, in, stage, target, seen>>
    BY <1>9 DEF vars
  <2>2. \A a : Sent(a)' = Sent(a) /\ (\A f : Truthful(a, f)' = Truthful(a, f))
    BY <2>1 DEF Sent, Question, Truthful
  <2>3. QED
    BY <2>1, <2>2 DEF IInv, SlavesOK, ThreadsOK, Flight, Polled1
<1>10. QED
  BY <1>1, <1>2, <1>3, <1>4, <1>5, <1>6, <1>7, <1>8, <1>9 DEF Next

(* exchange_ec_payload: under the trx mutex, with no late answer and no    *)
(* cyclic traffic, the frame a thread takes from the socket answers the    *)
(* one it sent.                                                            *)
THEOREM ExchangesIsolated ==
  ASSUME Timely
  PROVE  Spec => []OwnAnswer
<1>1. IInv /\ [Next]_vars => IInv'
  BY InvStep
<1>2. IInv => OwnAnswer
  BY AlRequestAssumption DEF IInv, Flight, Truthful, OwnAnswer
<1>3. QED
  BY InvInit, <1>1, <1>2, PTL DEF Spec

(* ul_ecat_request_slave_state: under the same conditions a request that   *)
(* returns success had its slave report the state, without error, after    *)
(* the request began, whatever the other threads ask of the slave, and     *)
(* whatever frames and slaves are lost.                                    *)
THEOREM SuccessIsReal ==
  ASSUME Timely
  PROVE  Spec => []NoFakeSuccess
<1>1. IInv /\ [Next]_vars => IInv'
  BY InvStep
<1>2. IInv => NoFakeSuccess
  BY DEF IInv, Polled1, NoFakeSuccess
<1>3. QED
  BY InvInit, <1>1, <1>2, PTL DEF Spec

-----------------------------------------------------------------------------
(* The types, on any ring: late answers and cyclic datagrams included.     *)
Frame == [dg : Datagram, wkc : Nat, by : Apps \cup {Worker}]

(* Only a thread with a request in progress holds the mutex, and it has a  *)
(* poll left.                                                              *)
FramesOK == out \in Seq(Frame) /\ in \in Seq(Frame)
Budget ==
  /\ trx \in Apps => stage[trx] \in Asking
  /\ \A a \in Apps : stage[a] \in Asking => left[a] >= 1

TInv == TypeOK /\ FramesOK /\ Budget

LEMMA FrameSeq ==
  ASSUME NEW fs \in Seq(Frame)
  PROVE  /\ \A f \in Frame : Append(fs, f) \in Seq(Frame)
         /\ fs # <<>> => Head(fs) \in Frame /\ Tail(fs) \in Seq(Frame)
OBVIOUS

LEMMA AnswerType ==
  ASSUME esc \in [Stations -> Mirror], NEW f \in Frame
  PROVE  RingAnswer(f) \in Frame
<1>1. CASE \E s \in Stations : Served(esc[s], f.dg)
  <2> DEFINE s == CHOOSE s \in Stations : Served(esc[s], f.dg)
             p == ProcessOne(esc[s], f.dg)
  <2>1. s \in Stations /\ Served(esc[s], f.dg)
    BY <1>1
  <2>2. esc[s] \in Mirror /\ f.dg \in Datagram
    BY <2>1 DEF Frame
  <2> HIDE DEF s
  <2>3. p.wkc \in Nat
    BY DEF ProcessOne
  <2>4. p.data \in Seq(Nat)
    <3>1. CASE p.data = f.dg.data
      BY <2>2, <3>1 DEF Datagram
    <3>2. CASE p.data = EscRead(esc[s], f.dg.ado, Len(f.dg.data))
      <4>1. /\ f.dg.ado \in Nat /\ Len(f.dg.data) \in Nat
            /\ f.dg.ado + Len(f.dg.data) <= ESC_SIZE /\ ESC_SIZE \in Nat
        BY <2>1, <2>2, EscSizeAssumption DEF Served, InMirror, Datagram
      <4>2. \A i \in 1 .. Len(f.dg.data) : esc[s][f.dg.ado + i - 1] \in Nat
        BY <2>2, <4>1 DEF Mirror, Addr
      <4> QED
        BY <3>2, <4>1, <4>2 DEF EscRead
    <3> QED
      BY <3>1, <3>2 DEF ProcessOne
  <2> HIDE DEF p
  <2>5. RingAnswer(f) = [f EXCEPT !.dg.data = p.data, !.wkc = p.wkc]
    BY <1>1 DEF RingAnswer, s, p
  <2>6. [f.dg EXCEPT !.data = p.data] \in Datagram
    BY <2>2, <2>4 DEF Datagram
  <2>7. RingAnswer(f) = [f EXCEPT !.dg = [f.dg EXCEPT !.data = p.data],
                                  !.wkc = p.wkc]
    BY <2>5 DEF Frame
  <2> QED
    BY <2>3, <2>6, <2>7 DEF Frame
<1>2. CASE ~\E s \in Stations : Served(esc[s], f.dg)
  BY <1>2 DEF RingAnswer
<1> QED
  BY <1>1, <1>2

(* An exchange that ends, whatever came, keeps to the budget of polls.     *)
LEMMA OutcomeTypes ==
  ASSUME TInv, NEW a \in Apps, stage[a] \in Asking,
         \/ Unanswered(a) \/ Written(a)
         \/ stage[a] = "poll" /\ \E w : Polled(a, w)
  PROVE  /\ stage' \in [Apps -> Asking \cup {"idle", "ok", "failed"}]
         /\ left' \in [Apps -> 0 .. MaxPolls]
         /\ known' \in [Stations -> 0 .. BIT4 - 1]
         /\ \A b \in Apps : stage'[b] \in Asking => left'[b] >= 1
<1> USE DEF TInv, TypeOK, Budget, Asking
<1>1. left[a] \in 1 .. MaxPolls /\ MaxPolls \in Nat
  BY AlRequestAssumption
<1>2. CASE PollAgain(a)
  <2>1. CASE left[a] = 1
    BY <1>1, <1>2, <2>1 DEF PollAgain
  <2>2. CASE left[a] # 1
    <3>1. left[a] - 1 \in 1 .. MaxPolls
      BY <1>1, <2>2
    <3> QED
      BY <1>2, <2>2, <3>1 DEF PollAgain
  <2> QED
    BY <2>1, <2>2
<1>3. CASE stage' = [stage EXCEPT ![a] = "failed"] /\ UNCHANGED <<left, known>>
  BY <1>3
<1>4. CASE Written(a)
  BY <1>1, <1>4 DEF Written
<1>5. CASE /\ stage' = [stage EXCEPT ![a] = "ack"]
           /\ known' = [known EXCEPT ![SlaveOf[a]] = target[a]]
           /\ UNCHANGED left
  BY <1>1, <1>5, AlRequestAssumption
<1> QED
  BY <1>2, <1>3, <1>4, <1>5 DEF Unanswered, Polled

(* The AL Status word a thread reads off its slave's mirror.               *)
LEMMA ShownWord ==
  \A e \in [Stations -> Mirror], a \in Apps : e[SlaveOf[a]][ALSTAT] \in Nat
<1> SUFFICES ASSUME NEW e \in [Stations -> Mirror], NEW a \in Apps
             PROVE  e[SlaveOf[a]][ALSTAT] \in Nat
  OBVIOUS
<1>1. e[SlaveOf[a]] \in Mirror
  BY AlRequestAssumption
<1>2. ALSTAT \in Addr
  BY Registers DEF Addr
<1> QED
  BY <1>1, <1>2 DEF Mirror

LEMMA TypeInit == Init => TInv
<1> SUFFICES ASSUME Init PROVE TInv
  OBVIOUS
<1>1. esc \in [Stations -> Mirror]
  <2>1. PICK configured \in SUBSET Stations :
          esc = [s \in Stations |-> Online(s, s \in configured)]
    BY DEF Init
  <2> QED
    BY <2>1, OnlineOK DEF SlaveOK
<1>2. FramesOK /\ Budget
  BY AlRequestAssumption DEF Init, FramesOK, Budget, Asking
<1>3. MaxPolls \in Nat /\ MaxFaults \in Nat /\ BIT4 = 16 /\ AL_INIT = 1
  BY AlRequestAssumption DEF BIT4, AL_INIT
<1> QED
  BY <1>1, <1>2, <1>3 DEF Init, TInv, TypeOK

LEMMA TypeStep == TInv /\ [Next]_vars => TInv'
<1> SUFFICES ASSUME TInv, [Next]_vars PROVE TInv'
  OBVIOUS
<1> USE DEF TInv, TypeOK, FramesOK, Budget
<1>1. ASSUME NEW a \in Apps, NEW r \in Requests, Start(a, r) PROVE TInv'
  <2>1. MaxPolls \in Nat \ {0} /\ r \in 0 .. BIT4 - 1
    BY AlRequestAssumption
  <2>2. esc[SlaveOf[a]][ALSTAT] \in Nat
    BY ShownWord
  <2>3. trx # a
    BY <1>1 DEF Start
  <2> QED
    BY <1>1, <2>1, <2>2, <2>3 DEF Start, Asking
<1>2. ASSUME NEW a \in Apps, Transmit(a) PROVE TInv'
  <2>1. Question(a) \in Datagram
    BY <1>2, QuestionFacts DEF Transmit
  <2>2. [dg |-> Question(a), wkc |-> 0, by |-> a] \in Frame
    BY <2>1 DEF Frame
  <2>3. out' \in Seq(Frame)
    BY <1>2, <2>2 DEF Transmit
  <2> QED
    BY <1>2, <2>3 DEF Transmit
<1>3. ASSUME NEW a \in Apps, Take(a) \/ Timeout(a) PROVE TInv'
  <2>1. stage[a] \in Asking
    BY <1>3 DEF Take, Timeout
  <2>2. /\ stage' \in [Apps -> Asking \cup {"idle", "ok", "failed"}]
        /\ left' \in [Apps -> 0 .. MaxPolls]
        /\ known' \in [Stations -> 0 .. BIT4 - 1]
        /\ \A b \in Apps : stage'[b] \in Asking => left'[b] >= 1
    BY <1>3, <2>1, OutcomeTypes DEF Take, Timeout
  <2>3. out' = out /\ (in' = in \/ (in # <<>> /\ in' = Tail(in)))
    BY <1>3 DEF Take, Timeout
  <2>4. in' \in Seq(Frame)
    BY <2>3, FrameSeq
  <2> QED
    BY <1>3, <2>2, <2>3, <2>4, AlRequestAssumption DEF Take, Timeout
<1>4. CASE SendBatch
  <2>1. ASSUME NEW dg \in Cyclic
        PROVE  [dg |-> dg, wkc |-> 0, by |-> Worker] \in Frame
    BY AlRequestAssumption DEF Frame
  <2>2. \/ out' = out
        \/ \E dg \in Cyclic :
             out' = Append(out, [dg |-> dg, wkc |-> 0, by |-> Worker])
    BY <1>4 DEF SendBatch
  <2>3. out' \in Seq(Frame)
    BY <2>1, <2>2, FrameSeq
  <2> QED
    BY <1>4, <2>3 DEF SendBatch
<1>5. CASE ReceiveNonblock
  BY <1>5 DEF ReceiveNonblock
<1>6. ASSUME NEW e \in [Stations -> Mirror], Show(e)
      PROVE  seen' \in [Apps -> SUBSET Nat]
  <2>1. \A a \in Apps : e[SlaveOf[a]][ALSTAT] \in Nat
    BY ShownWord
  <2> QED
    BY <1>6, <2>1 DEF Show
<1>7. CASE Ring
  <2> DEFINE f == Head(out)
  <2>1. f \in Frame /\ Tail(out) \in Seq(Frame)
    BY <1>7 DEF Ring
  <2>2. RingAnswer(f) \in Frame
    BY <2>1, AnswerType
  <2>3. RingEsc(f.dg) \in [Stations -> Mirror]
    <3>1. f.dg \in Datagram
      BY <2>1 DEF Frame
    <3>2. ASSUME NEW s \in Stations
          PROVE  ProcessOne(esc[s], f.dg).esc \in Mirror
      <4>1. esc[s] \in Mirror
        OBVIOUS
      <4>2. ServeRead(esc[s], f.dg) \in Mirror
        BY <3>1, <4>1, ServeReadFacts
      <4>3. Served(esc[s], f.dg) => ServeWrite(esc[s], f.dg) \in Mirror
        BY <3>1, <4>1, ServeWriteFacts
      <4> QED
        BY <3>1, <4>1, <4>2, <4>3, ProcessOneCases
    <3> QED
      BY <3>2 DEF RingEsc
  <2>4. seen' \in [Apps -> SUBSET Nat]
    BY <1>6, <1>7, <2>3 DEF Ring
  <2> HIDE DEF f
  <2>5. \/ in' = Append(in, RingAnswer(f)) /\ faults' = faults
        \/ in' = in /\ faults < MaxFaults /\ faults' = faults + 1
    BY <1>7 DEF Ring, f
  <2>6. in' \in Seq(Frame)
    BY <2>2, <2>5, FrameSeq
  <2>7. faults' \in 0 .. MaxFaults
    BY <2>5, AlRequestAssumption
  <2> QED
    BY <1>7, <2>1, <2>3, <2>4, <2>6, <2>7 DEF Ring, f
<1>8. CASE LoseRequest
  BY <1>8, AlRequestAssumption DEF LoseRequest
<1>9. ASSUME NEW s \in Stations, Restart(s) PROVE TInv'
  <2>1. [esc EXCEPT ![s] = EscReset] \in [Stations -> Mirror]
    BY ResetOK DEF SlaveOK
  <2>2. seen' \in [Apps -> SUBSET Nat]
    BY <1>6, <1>9, <2>1 DEF Restart
  <2> QED
    BY <1>9, <2>1, <2>2, AlRequestAssumption DEF Restart
<1>10. CASE UNCHANGED vars
  BY <1>10 DEF vars
<1> QED
  BY <1>1, <1>2, <1>3, <1>4, <1>5, <1>7, <1>8, <1>9, <1>10 DEF Next

(* Mirrors, frames and the budget of polls keep their types through every  *)
(* loss, late answer, restart and cyclic datagram; a request never polls   *)
(* on a budget that has run out (ul_ecat_request_slave_state).             *)
THEOREM RequestTypes == Spec => []TypeOK
<1>1. TInv => TypeOK
  BY DEF TInv
<1> QED
  BY TypeInit, TypeStep, <1>1, PTL DEF Spec

-----------------------------------------------------------------------------
(* The mutex and the frames under way, on any ring and with any traffic of *)
(* the worker on the same socket.                                          *)

Kept(sent, received) ==
  \/ sent # <<>> /\ sent[Len(sent)].by = trx
  \/ sent = <<>> /\ received # <<>> /\ received[Len(received)].by = trx
  \/ sent = <<>> /\ faults > 0

KInv == TInv /\ (trx # NoOne => Kept(out, in))

LEMMA KeptMeans ==
  ASSUME FramesOK
  PROVE  AnswerKept <=> (trx # NoOne => Kept(out, in))
<1>1. out \in Seq(Frame) /\ in \in Seq(Frame)
  BY DEF FramesOK
<1>2. CASE out = <<>>
  <2>1. in \o out = in
    BY <1>1, <1>2
  <2> QED
    BY <1>2, <2>1 DEF AnswerKept, Kept
<1>3. CASE out # <<>>
  <2>1. /\ Len(in \o out) = Len(in) + Len(out)
        /\ in \o out # <<>>
        /\ (in \o out)[Len(in) + Len(out)] = out[Len(out)]
    BY <1>1, <1>3
  <2> QED
    BY <1>3, <2>1 DEF AnswerKept, Kept
<1> QED
  BY <1>2, <1>3

LEMMA TailKeepsLast ==
  ASSUME NEW fs \in Seq(Frame), fs # <<>>
  PROVE  \/ Len(fs) = 1 /\ Tail(fs) = <<>>
         \/ Tail(fs) # <<>> /\ Tail(fs)[Len(Tail(fs))] = fs[Len(fs)]
<1>1. /\ Len(fs) \in Nat \ {0} /\ Tail(fs) \in Seq(Frame)
      /\ Len(Tail(fs)) = Len(fs) - 1
  OBVIOUS
<1>2. \A i \in 1 .. Len(Tail(fs)) : Tail(fs)[i] = fs[i + 1]
  OBVIOUS
<1>3. CASE Len(fs) = 1
  <2>1. Tail(fs) \in Seq(Frame) /\ Len(Tail(fs)) = 0
    BY <1>1, <1>3
  <2>2. \A ss \in Seq(Frame) : Len(ss) = 0 => ss = <<>>
    OBVIOUS
  <2> QED
    BY <1>3, <2>1, <2>2
<1>4. CASE Len(fs) # 1
  <2>1. Len(Tail(fs)) \in 1 .. Len(Tail(fs)) /\ Len(Tail(fs)) + 1 = Len(fs)
    BY <1>1, <1>4
  <2>2. Tail(fs)[Len(Tail(fs))] = fs[Len(fs)]
    BY <1>2, <2>1
  <2>3. Tail(fs) # <<>>
    BY <1>1, <1>4
  <2> QED
    BY <2>2, <2>3
<1> QED
  BY <1>3, <1>4

(* An answer goes to the thread whose frame it was.                        *)
LEMMA AnswerOwner ==
  ASSUME NEW f \in Frame
  PROVE  RingAnswer(f).by = f.by
<1>1. CASE \E s \in Stations : Served(esc[s], f.dg)
  <2> DEFINE s == CHOOSE s \in Stations : Served(esc[s], f.dg)
             p == ProcessOne(esc[s], f.dg)
  <2>1. RingAnswer(f) = [f EXCEPT !.dg.data = p.data, !.wkc = p.wkc]
    BY <1>1 DEF RingAnswer
  <2> HIDE DEF p
  <2> QED
    BY <2>1 DEF Frame
<1>2. CASE ~\E s \in Stations : Served(esc[s], f.dg)
  BY <1>2 DEF RingAnswer
<1> QED
  BY <1>1, <1>2

LEMMA KeptStep == KInv /\ [Next]_vars => KInv'
<1> SUFFICES ASSUME KInv, [Next]_vars PROVE KInv'
  OBVIOUS
<1> USE DEF KInv
<1>1. TInv'
  BY TypeStep
<1>2. out \in Seq(Frame) /\ in \in Seq(Frame) /\ faults \in Nat
  BY AlRequestAssumption DEF TInv, FramesOK, TypeOK
<1>3. SUFFICES ASSUME trx' # NoOne PROVE Kept(out, in)'
  BY <1>1
<1>4. ASSUME NEW a \in Apps, Transmit(a) PROVE Kept(out, in)'
  <2> DEFINE f == [dg |-> Question(a), wkc |-> 0, by |-> a]
  <2>1. out' = Append(out, f) /\ trx' = a /\ f.by = a
    BY <1>4 DEF Transmit
  <2> HIDE DEF f
  <2>2. out' # <<>> /\ out'[Len(out')] = f
    BY <1>2, <2>1
  <2> QED
    BY <2>1, <2>2 DEF Kept
<1>5. CASE Ring
  <2> DEFINE f == Head(out)
  <2>1. /\ out # <<>> /\ out' = Tail(out) /\ trx' = trx
        /\ \/ in' = Append(in, RingAnswer(f)) /\ faults' = faults
           \/ in' = in /\ faults' = faults + 1
    BY <1>5 DEF Ring
  <2>2. out[Len(out)].by = trx
    BY <1>3, <2>1 DEF Kept
  <2>3. f \in Frame /\ f = out[1]
    BY <1>2, <2>1
  <2>4. RingAnswer(f).by = f.by
    BY <2>3, AnswerOwner
  <2> HIDE DEF f
  <2>5. CASE Len(out) = 1
    <3>1. out' = <<>> /\ f.by = trx
      BY <1>2, <2>1, <2>2, <2>3, <2>5
    <3>2. CASE in' = Append(in, RingAnswer(f))
      <4>1. in' # <<>> /\ in'[Len(in')] = RingAnswer(f)
        BY <1>2, <3>2
      <4> QED
        BY <2>1, <2>4, <3>1, <4>1 DEF Kept
    <3>3. CASE faults' = faults + 1
      BY <1>2, <3>1, <3>3 DEF Kept
    <3> QED
      BY <2>1, <3>2, <3>3
  <2>6. CASE Len(out) # 1
    <3>1. out' # <<>> /\ out'[Len(out')] = out[Len(out)]
      BY <1>2, <2>1, <2>6, TailKeepsLast
    <3> QED
      BY <2>1, <2>2, <3>1 DEF Kept
  <2> QED
    BY <2>5, <2>6
<1>6. CASE LoseRequest
  <2>1. /\ out # <<>> /\ out' = Tail(out) /\ trx' = trx
        /\ in' = in /\ faults' = faults + 1
    BY <1>6 DEF LoseRequest
  <2>2. \/ out' = <<>>
        \/ out' # <<>> /\ out'[Len(out')] = out[Len(out)]
    BY <1>2, <2>1, TailKeepsLast
  <2>3. out[Len(out)].by = trx
    BY <1>3, <2>1 DEF Kept
  <2> QED
    BY <1>2, <2>1, <2>2, <2>3 DEF Kept
<1>7. ASSUME NEW s \in Stations, Restart(s) PROVE Kept(out, in)'
  BY <1>2, <1>3, <1>7 DEF Restart, Kept
<1>8. CASE \/ UNCHANGED vars
           \/ \E a \in Apps, r \in Requests : Start(a, r)
  BY <1>3, <1>8 DEF vars, Start, Kept
<1>9. CASE \/ SendBatch \/ ReceiveNonblock
           \/ \E a \in Apps : Take(a) \/ Timeout(a)
  BY <1>3, <1>9 DEF SendBatch, ReceiveNonblock, Take, Timeout
<1> QED
  BY <1>4, <1>5, <1>6, <1>7, <1>8, <1>9 DEF Next

(* exchange_ec_payload and ul_ecat_receive_frames_nonblock: whatever is    *)
(* late, lost or queued for the worker, no thread sends or drains between  *)
(* the send and the receive of a blocking exchange.  What is in front of   *)
(* its answer it takes all the same.                                       *)
THEOREM AnswersKept == Spec => []AnswerKept
<1>1. Init => KInv
  BY TypeInit DEF KInv, Init
<1>2. KInv => AnswerKept
  BY KeptMeans DEF KInv, TInv
<1> QED
  BY <1>1, <1>2, KeptStep, PTL DEF Spec

-----------------------------------------------------------------------------
(* Failure.  What holds as long as nothing was lost and no slave has       *)
(* restarted, and every slave is controlled by one thread: a request that  *)
(* polls finds its slave settled, in the state asked for or with an error, *)
(* and an exchange in progress has an answer, or its question on the way.  *)
OneThread == \A a, b \in Apps : SlaveOf[a] = SlaveOf[b] => a = b

Word(a) == esc[SlaveOf[a]][ALSTAT]
Settled(a) ==
  Word(a) \in seen[a] /\ (Bit4Of(Word(a)) \/ StateOf(Word(a)) = target[a])

AllOnline == \A s \in Stations : esc[s][STADR] = s
PollersSettled == \A a \in Apps : stage[a] = "poll" => Settled(a)
FailedTold ==
  \A a \in Apps : stage[a] = "failed" => \E w \in seen[a] : Bit4Of(w)

Answered(a, f) ==
  /\ Usable(a, f)
  /\ stage[a] = "write" => Settled(a)
  /\ stage[a] = "poll" => f.dg.data[1] = Word(a)

NothingMissing ==
  trx \in Apps =>
    \/ out # <<>>
    \/ in # <<>> /\ Answered(trx, Head(in))

FaultFree == AllOnline /\ PollersSettled /\ FailedTold /\ NothingMissing

FInv == IInv /\ faults \in Nat /\ (faults = 0 => FaultFree)

(* A control write without acknowledgement leaves the slave in the state   *)
(* it names, or with an error.                                             *)
LEMMA ControlSettles ==
  ASSUME NEW e \in Mirror, e[ALSTAT] \in AlWords, e[ALCTL] \in 0 .. BIT4 - 1
  PROVE  LET w == AlOnControlWrite(e)[ALSTAT]
         IN  Bit4Of(w) \/ StateOf(w) = e[ALCTL]
<1> DEFINE cur  == StateOf(e[ALSTAT])
           req  == e[ALCTL]
           code == AlRefusal(e, cur, req)
           n    == AlOnControlWrite(e)
<1>1. StateOf(req) = req /\ ~Bit4Of(req)
  BY DEF StateOf, Bit4Of, BIT4
<1>2. cur \in AlStates
  BY AlWordFields
<1>3. \/ n = e /\ req = cur
      \/ n = WriteAlStatus(e, cur + BIT4, code)
      \/ n = WriteAlStatus(e, req, ERR_NONE)
  BY <1>1 DEF AlOnControlWrite
<1>4. \A st, cd : WriteAlStatus(e, st, cd)[ALSTAT] = st
  BY Registers DEF WriteAlStatus, Mirror, Addr
<1>5. Bit4Of(cur + BIT4)
  BY <1>2, AlWordFields
<1> QED
  BY <1>1, <1>3, <1>4, <1>5

(* A question served by the slave it names: a write takes effect, a read   *)
(* brings AL Status, and any other slave stands still.                     *)
LEMMA QuestionEffect ==
  ASSUME NEW s \in Stations, NEW e, SlaveOK(s, e), e[STADR] = s,
         NEW dg \in Datagram, Len(dg.data) = 1,
         \/ dg.cmd = "FPRD" /\ dg.ado = ALSTAT
         \/ dg.cmd = "FPWR" /\ dg.ado = ALCTL
  PROVE  LET p == ProcessOne(e, dg)
         IN  /\ Served(e, dg) <=> dg.adp = s
             /\ dg.adp # s => p.esc = e
             /\ p.esc[STADR] = s
             /\ dg.adp = s => p.wkc = 1 /\ Len(p.data) = 1
             /\ dg.adp = s /\ dg.cmd = "FPRD" => p.data[1] = p.esc[ALSTAT]
             /\ dg.cmd = "FPRD" => p.esc[ALSTAT] = e[ALSTAT]
             /\ dg.adp = s /\ dg.cmd = "FPWR" /\ dg.data[1] \in 0 .. BIT4 - 1 =>
                  \/ Bit4Of(p.esc[ALSTAT])
                  \/ StateOf(p.esc[ALSTAT]) = dg.data[1]
<1> DEFINE p == ProcessOne(e, dg)
<1> USE DEF SlaveOK
<1>1. s \in Nat \ {0}
  BY AlRequestAssumption
<1>2. InMirror(dg.ado, Len(dg.data))
  BY Registers DEF InMirror
<1>3. Served(e, dg) <=> dg.adp = s
  BY <1>1, <1>2 DEF Served, Addressed
<1>4. CASE dg.adp # s
  <2>1. p.esc = e
    BY <1>3, <1>4 DEF ProcessOne
  <2> QED
    BY <1>3, <1>4, <2>1
<1>5. CASE dg.adp = s /\ dg.cmd = "FPRD"
  <2>1. p.wkc = 1 /\ p.data = EscRead(e, ALSTAT, 1) /\ p.esc = ServeRead(e, dg)
    BY <1>3, <1>5 DEF ProcessOne
  <2>2. EscRead(e, ALSTAT, 1) = <<e[ALSTAT]>>
    BY Registers DEF EscRead
  <2>3. ALSTAT \in Addr \ {SmStatus(1)} /\ STADR \in Addr \ {SmStatus(1)}
    BY Registers DEF Addr
  <2>4. p.esc[ALSTAT] = e[ALSTAT] /\ p.esc[STADR] = s
    BY <2>1, <2>3, ServeReadFacts
  <2> QED
    BY <1>3, <1>5, <2>1, <2>2, <2>4
<1>6. CASE dg.adp = s /\ dg.cmd = "FPWR"
  <2>1. Served(e, dg) /\ dg.ado = ALCTL
    BY <1>3, <1>6
  <2>2. p.wkc = 1 /\ p.data = dg.data /\ p.esc = ServeWrite(e, dg)
    BY <1>6, <2>1 DEF ProcessOne
  <2>3. STADR \in Addr \ Owned /\ STADR \notin dg.ado .. dg.ado + Len(dg.data) - 1
    BY <2>1, Registers DEF Addr, Owned
  <2>4. p.esc[STADR] = s
    BY <2>1, <2>2, <2>3, ServeWriteFacts
  <2> DEFINE written == EscWrite(e, dg.ado, dg.data)
             after   == AlOnControlWrite(written)
  <2>5. ALCTL \in Nat /\ ALCTL + 1 <= ESC_SIZE /\ dg.data \in Seq(Nat)
    BY Registers DEF Datagram
  <2>6. /\ written \in Mirror
        /\ written[ALCTL] = dg.data[1] /\ written[ALSTAT] = e[ALSTAT]
    <3>1. dg.ado = 2 /\ ESC_SIZE \in Nat /\ ESC_SIZE >= 17
      BY <2>1, Registers
    <3>2. /\ EscWrite(e, 2, dg.data) \in Mirror
          /\ \A a \in Addr : EscWrite(e, 2, dg.data)[a] =
               IF a \in 2 .. 2 + Len(dg.data) - 1
               THEN dg.data[a - 2 + 1] ELSE e[a]
      <4>1. 2 \in Nat /\ 2 + Len(dg.data) <= ESC_SIZE /\ e \in Mirror
        BY <3>1
      <4> QED
        BY <2>5, <4>1, EscWriteFacts
    <3>3. 2 \in Addr /\ 3 \in Addr
      BY <3>1 DEF Addr
    <3> QED
      BY <3>1, <3>2, <3>3, Registers
  <2>7. after \in Mirror
    BY <2>6, AlOnControlWriteFacts
  <2>8. p.esc = MailboxOnSm0Write(after, dg.ado, Len(dg.data))
    BY <1>6, <2>1, <2>2, Registers DEF ServeWrite, OverlapsAlCtl
  <2>9. p.esc[ALSTAT] = after[ALSTAT]
    <3>1. ALSTAT \in Addr \ {SmStatus(0)} /\ dg.ado \in Nat /\ Len(dg.data) \in Nat
      BY <2>1, Registers DEF Addr
    <3>2. \A m \in Mirror, ado \in Nat, len \in Nat :
            MailboxOnSm0Write(m, ado, len)[ALSTAT] = m[ALSTAT]
      BY <3>1, MailboxHookFacts
    <3> HIDE DEF after
    <3> QED
      BY <2>7, <2>8, <3>1, <3>2
  <2>10. dg.data[1] \in 0 .. BIT4 - 1 =>
           Bit4Of(after[ALSTAT]) \/ StateOf(after[ALSTAT]) = dg.data[1]
    BY <2>6, ControlSettles
  <2> QED
    BY <1>3, <1>6, <2>2, <2>4, <2>9, <2>10
<1> QED
  BY <1>4, <1>5, <1>6

LEMMA FaultFreeInit == Init => FInv
<1> SUFFICES ASSUME Init PROVE IInv /\ faults = 0 /\ FaultFree
  BY DEF FInv
<1>1. AllOnline
  <2>1. PICK configured \in SUBSET Stations :
          esc = [s \in Stations |-> Online(s, s \in configured)]
    BY DEF Init
  <2> QED
    BY <2>1, OnlineOK DEF AllOnline
<1>2. trx \notin Apps
  BY AlRequestAssumption DEF Init
<1> QED
  BY <1>1, <1>2, InvInit
  DEF Init, FaultFree, PollersSettled, FailedTold, NothingMissing

(* A step that leaves the slaves alone leaves the other threads as they    *)
(* are.                                                                    *)
LEMMA OthersStay ==
  ASSUME FaultFree, NEW a, UNCHANGED <<esc, target>>,
         \A b \in Apps : b # a => stage'[b] = stage[b] /\ seen'[b] = seen[b],
         a \in Apps => /\ stage'[a] = "poll" => Settled(a)'
                       /\ stage'[a] = "failed" => \E w \in seen'[a] : Bit4Of(w)
  PROVE  AllOnline' /\ PollersSettled' /\ FailedTold'
<1>1. \A b \in Apps : b # a => (Settled(b)' <=> Settled(b))
  BY DEF Settled, Word
<1>2. AllOnline'
  BY DEF FaultFree, AllOnline
<1>3. PollersSettled'
  BY <1>1 DEF FaultFree, PollersSettled
<1>4. FailedTold'
  BY DEF FaultFree, FailedTold
<1> QED
  BY <1>2, <1>3, <1>4

LEMMA StartFaultFree ==
  ASSUME IInv, FaultFree, NEW a \in Apps, NEW r \in Requests, Start(a, r)
  PROVE  FaultFree'
<1>1. /\ UNCHANGED <<esc, trx, out, in>> /\ stage'[a] = "write"
      /\ \A b \in Apps : b # a => /\ stage'[b] = stage[b] /\ seen'[b] = seen[b]
                                  /\ target'[b] = target[b]
  BY DEF Start, IInv, ThreadsOK
<1>2. AllOnline' /\ FailedTold'
  BY <1>1 DEF FaultFree, AllOnline, FailedTold
<1>3. \A b \in Apps : b # a => Settled(b)' = Settled(b)
  BY <1>1 DEF Settled, Word
<1>4. PollersSettled'
  BY <1>1, <1>3 DEF FaultFree, PollersSettled
<1>5. NothingMissing'
  <2>1. trx # a
    BY AlRequestAssumption DEF Start, IInv, Flight
  <2>2. \A f : trx \in Apps /\ Answered(trx, f) => Answered(trx, f)'
    BY <1>1, <1>3, <2>1 DEF Answered, Usable, Word
  <2> QED
    BY <1>1, <2>2 DEF FaultFree, NothingMissing
<1> QED
  BY <1>2, <1>4, <1>5 DEF FaultFree

LEMMA TransmitFaultFree ==
  ASSUME FaultFree, NEW a \in Apps, Transmit(a), IInv'
  PROVE  FaultFree'
<1>1. UNCHANGED <<esc, stage, target, seen>> /\ trx' = a
  BY DEF Transmit
<1>2. AllOnline' /\ PollersSettled' /\ FailedTold'
  BY <1>1 DEF FaultFree, AllOnline, PollersSettled, FailedTold, Settled, Word
<1>3. out' # <<>>
  BY DEF Transmit
<1>4. NothingMissing'
  BY <1>3 DEF NothingMissing
<1> QED
  BY <1>2, <1>4 DEF FaultFree

(* What an exchange takes settles it.                                      *)
LEMMA TakeFaultFree ==
  ASSUME IInv, FaultFree, NEW a \in Apps, Take(a)
  PROVE  FaultFree'
<1> DEFINE f == Head(in)
           w == f.dg.data[1]
<1>1. /\ trx = a /\ in # <<>> /\ UNCHANGED <<esc, target, seen>>
      /\ stage[a] \in Asking /\ out = <<>> /\ Truthful(a, f) /\ Answered(a, f)
  BY AlRequestAssumption DEF Take, IInv, Flight, FaultFree, NothingMissing
<1>2. trx' \notin Apps
  BY AlRequestAssumption DEF Take
<1>3. NothingMissing'
  BY <1>2 DEF NothingMissing
<1>4. CASE stage[a] = "poll"
  <2>1. w = Word(a) /\ Settled(a) /\ Polled(a, w)
    BY <1>1, <1>4 DEF Answered, FaultFree, PollersSettled, Take
  <2> HIDE DEF w
  <2>2. \/ stage' = [stage EXCEPT ![a] = "failed"] /\ Bit4Of(Word(a))
        \/ stage' = [stage EXCEPT ![a] = "ack"]
    BY <2>1 DEF Polled, Settled
  <2>3. /\ \A b \in Apps : b # a => stage'[b] = stage[b] /\ seen'[b] = seen[b]
        /\ stage'[a] # "poll"
        /\ stage'[a] = "failed" => \E x \in seen'[a] : Bit4Of(x)
    BY <1>1, <2>1, <2>2 DEF IInv, ThreadsOK, Settled
  <2> QED
    BY <1>1, <1>3, <2>3, OthersStay DEF FaultFree
<1>5. CASE stage[a] # "poll"
  <2>1. Written(a)
    BY <1>1, <1>5 DEF Answered, Take
  <2>2. /\ \A b \in Apps : b # a => stage'[b] = stage[b] /\ seen'[b] = seen[b]
        /\ stage'[a] = IF stage[a] = "write" THEN "poll" ELSE "ok"
    BY <1>1, <2>1 DEF Written, IInv, ThreadsOK
  <2>3. stage[a] = "write" => Settled(a)'
    BY <1>1 DEF Answered, Settled, Word
  <2> QED
    BY <1>1, <1>3, <2>2, <2>3, OthersStay DEF FaultFree
<1> QED
  BY <1>4, <1>5

LEMMA RingFaultFree ==
  ASSUME IInv, FaultFree, OneThread, Ring, faults' = faults, faults = 0
  PROVE  FaultFree'
<1> DEFINE a == trx
           f == Head(out)
           e == RingEsc(f.dg)
<1>1. a \in Apps /\ stage[a] \in Asking /\ out = <<Sent(a)>> /\ in = <<>>
  BY DEF IInv, Flight, Ring
<1>2. f = Sent(a) /\ f.dg = Question(a)
  BY <1>1 DEF Sent
<1>3. /\ f.dg \in Datagram /\ f.dg.adp = SlaveOf[a] /\ Len(f.dg.data) = 1
      /\ f.dg.ado = IF stage[a] = "poll" THEN ALSTAT ELSE ALCTL
      /\ f.dg.cmd = IF stage[a] = "poll" THEN "FPRD" ELSE "FPWR"
      /\ stage[a] = "write" => f.dg.data[1] = target[a]
      /\ target[a] \in 0 .. BIT4 - 1
  <2>1. target[a] \in 0 .. BIT4 - 1
    BY <1>1 DEF IInv, ThreadsOK
  <2>2. stage[a] = "write" => f.dg.data = <<target[a]>>
    BY <1>2 DEF Question
  <2> QED
    BY <1>1, <1>2, <2>1, <2>2, QuestionFacts
<1>4. /\ Show(e) /\ esc' = e /\ UNCHANGED <<trx, stage, target>>
      /\ in' = Append(in, RingAnswer(f))
  BY DEF Ring
<1> HIDE DEF f
<1>5. ASSUME NEW s \in Stations
      PROVE  LET p == ProcessOne(esc[s], f.dg)
             IN  /\ Served(esc[s], f.dg) <=> s = SlaveOf[a]
                 /\ e[s] = p.esc
                 /\ s # SlaveOf[a] => e[s] = esc[s]
                 /\ e[s][STADR] = s
                 /\ s = SlaveOf[a] => p.wkc = 1 /\ Len(p.data) = 1
                 /\ s = SlaveOf[a] /\ stage[a] = "poll" =>
                      p.data[1] = e[s][ALSTAT] /\ e[s][ALSTAT] = esc[s][ALSTAT]
                 /\ s = SlaveOf[a] /\ stage[a] = "write" =>
                      Bit4Of(e[s][ALSTAT]) \/ StateOf(e[s][ALSTAT]) = target[a]
  <2>1. SlaveOK(s, esc[s]) /\ esc[s][STADR] = s
    BY DEF IInv, SlavesOK, FaultFree, AllOnline
  <2>2. e[s] = ProcessOne(esc[s], f.dg).esc
    BY DEF RingEsc
  <2> HIDE DEF e
  <2> QED
    BY <1>3, <2>1, <2>2, QuestionEffect
<1>6. SlaveOf \in [Apps -> Stations] /\ DOMAIN e = Stations
  BY AlRequestAssumption DEF RingEsc
<1>7. \A s \in Stations : SlaveOK(s, e[s])
  <2>1. \A s \in Stations : SlaveOK(s, ProcessOne(esc[s], f.dg).esc)
    BY <1>3, QuestionServed DEF IInv, SlavesOK
  <2> QED
    BY <2>1 DEF RingEsc
<1> HIDE DEF e
<1>8. /\ \A b \in Apps : seen[b] \subseteq seen'[b]
      /\ \A b \in Apps : stage[b] \in Asking => e[SlaveOf[b]][ALSTAT] \in seen'[b]
  BY <1>4, <1>7, ShowFacts DEF IInv
<1>9. AllOnline'
  BY <1>4, <1>5 DEF AllOnline
<1>10. FailedTold'
  BY <1>4, <1>8 DEF FaultFree, FailedTold
<1>11. PollersSettled'
  <2> SUFFICES ASSUME NEW b \in Apps, stage[b] = "poll"
               PROVE  Settled(b)'
    BY <1>4 DEF PollersSettled
  <2>1. Settled(b)
    BY DEF FaultFree, PollersSettled
  <2>2. e[SlaveOf[b]][ALSTAT] = esc[SlaveOf[b]][ALSTAT]
    BY <1>1, <1>5, <1>6 DEF OneThread
  <2> QED
    BY <1>4, <1>8, <2>1, <2>2 DEF Settled, Word
<1>12. NothingMissing'
  <2> DEFINE s == SlaveOf[a]
             p == ProcessOne(esc[s], f.dg)
             g == RingAnswer(f)
  <2>1. s \in Stations /\ Served(esc[s], f.dg)
    BY <1>1, <1>5, <1>6
  <2>2. (CHOOSE t \in Stations : Served(esc[t], f.dg)) = s
    BY <1>5, <2>1
  <2> HIDE DEF s
  <2>3. g = [f EXCEPT !.dg.data = p.data, !.wkc = p.wkc]
    BY <2>1, <2>2 DEF RingAnswer
  <2>4. f \in [dg : Datagram, wkc : Nat, by : Apps]
    BY <1>1, <1>2, <1>3 DEF Sent
  <2>5. g.wkc = 1 /\ g.dg.data = p.data /\ Len(p.data) = 1
    <3>1. p.wkc = 1 /\ Len(p.data) = 1
      BY <1>5, <2>1 DEF s
    <3> QED
      BY <2>3, <2>4, <3>1 DEF Datagram
  <2>6. stage[a] = "poll" => p.data[1] = e[s][ALSTAT]
    BY <1>5, <2>1 DEF s
  <2>7. stage[a] = "write" => Settled(a)'
    <3>1. stage[a] = "write" =>
            Bit4Of(e[s][ALSTAT]) \/ StateOf(e[s][ALSTAT]) = target[a]
      BY <1>5, <2>1 DEF s
    <3> QED
      BY <1>1, <1>4, <1>8, <3>1 DEF Settled, Word, s
  <2> HIDE DEF p
  <2>8. PICK b, h : b = a /\ h = g
    OBVIOUS
  <2>9. Answered(b, h)'
    <3>1. b \in Apps /\ h.wkc = 1 /\ Len(h.dg.data) = 1 /\ s = SlaveOf[b]
      BY <1>1, <2>5, <2>8 DEF s
    <3>2. stage'[b] = "poll" => h.dg.data[1] = e[s][ALSTAT]
      BY <1>4, <2>5, <2>6, <2>8
    <3>3. stage[a] = "write" => Settled(b)'
      BY <2>7, <2>8, <1>4 DEF Settled, Word
    <3>4. stage'[b] = stage[a] /\ esc' = e
      BY <1>4, <2>8
    <3> QED
      BY <3>1, <3>2, <3>3, <3>4 DEF Answered, Usable, Word
  <2>10. in' # <<>> /\ Head(in') = h /\ trx' = b
    BY <1>1, <1>4, <2>8 DEF g
  <2> QED
    BY <2>9, <2>10 DEF NothingMissing
<1> QED
  BY <1>9, <1>10, <1>11, <1>12 DEF FaultFree

LEMMA FaultFreeStep ==
  ASSUME Timely, OneThread
  PROVE  FInv /\ [Next]_vars => FInv'
<1> SUFFICES ASSUME FInv, [Next]_vars PROVE FInv'
  OBVIOUS
<1>1. IInv /\ IInv'
  BY InvStep DEF FInv
<1>2. \/ faults' = faults
      \/ faults' = faults + 1
  BY DEF Next, Start, Transmit, Take, Timeout, SendBatch, ReceiveNonblock, Ring,
         LoseRequest, Restart, vars
<1>3. faults' \in Nat /\ (faults' = 0 => faults = 0 /\ faults' = faults)
  BY <1>2 DEF FInv
<1>4. SUFFICES ASSUME faults' = 0 PROVE FaultFree'
  BY <1>1, <1>3 DEF FInv
<1>5. FaultFree /\ faults = 0 /\ faults' = faults
  BY <1>3, <1>4 DEF FInv
<1>6. ASSUME NEW a \in Apps, NEW r \in Requests, Start(a, r) PROVE FaultFree'
  BY <1>1, <1>5, <1>6, StartFaultFree
<1>7. ASSUME NEW a \in Apps, Transmit(a) PROVE FaultFree'
  BY <1>1, <1>5, <1>7, TransmitFaultFree
<1>8. ASSUME NEW a \in Apps, Take(a) PROVE FaultFree'
  BY <1>1, <1>5, <1>8, TakeFaultFree
<1>9. ASSUME NEW a \in Apps, Timeout(a) PROVE FaultFree'
  <2>1. trx = a /\ in = <<>> /\ out = <<>>
    BY <1>9 DEF Timeout, Timely
  <2> QED
    BY <1>5, <2>1 DEF FaultFree, NothingMissing
<1>10. CASE SendBatch \/ ReceiveNonblock \/ UNCHANGED vars
  <2>1. UNCHANGED <<esc, stage, target, seen, trx>>
    BY <1>10 DEF SendBatch, ReceiveNonblock, vars
  <2>2. trx \in Apps => UNCHANGED <<out, in>>
    BY <1>10, AlRequestAssumption DEF SendBatch, ReceiveNonblock, vars
  <2>3. NothingMissing'
    <3>1. \A b, f : Answered(b, f)' = Answered(b, f)
      BY <2>1 DEF Answered, Usable, Settled, Word
    <3> QED
      BY <1>5, <2>1, <2>2, <3>1 DEF FaultFree, NothingMissing
  <2> QED
    BY <1>5, <2>1, <2>3
    DEF FaultFree, AllOnline, PollersSettled, FailedTold, Settled, Word
<1>11. CASE Ring
  BY <1>1, <1>5, <1>11, RingFaultFree
<1>12. CASE LoseRequest \/ \E s \in Stations : Restart(s)
  BY <1>5, <1>12 DEF LoseRequest, Restart
<1> QED
  BY <1>6, <1>7, <1>8, <1>9, <1>10, <1>11, <1>12 DEF Next

(* ul_ecat_request_slave_state: as long as nothing was lost and no slave   *)
(* restarted, a request to a slave nobody else controls fails only if the  *)
(* slave reported an error after the request began: for any number of      *)
(* polls, from one on, because the slave is settled before the first.      *)
THEOREM FailureIsReal ==
  ASSUME Timely, OneThread
  PROVE  Spec => []NoFakeFailure
<1>1. FInv /\ [Next]_vars => FInv'
  BY FaultFreeStep
<1>2. FInv => NoFakeFailure
  BY DEF FInv, FaultFree, FailedTold, NoFakeFailure
<1> QED
  BY FaultFreeInit, <1>1, <1>2, PTL DEF Spec

=============================================================================
