---------------------------- MODULE SlaveProofs ----------------------------
(***************************************************************************)
(* Theorems about Slave, for every size of the mirror, every set of        *)
(* datagrams and every set of replies.  AlRefinement and FullMeansLanded   *)
(* assume BusDiscipline, and Sm1HoldsReply also Sm1Discipline; TypeOK      *)
(* assumes nothing of the bus.                                             *)
(***************************************************************************)
EXTENDS Slave, SlaveEscProofs, TLAPS

-----------------------------------------------------------------------------
(* Types.                                                                  *)

LEMMA PaddedType ==
  ASSUME NEW e \in Mirror, NEW frame \in Seq(Nat)
  PROVE  Padded(SmRead(e, 1), frame) \in Seq(Nat)
<1>1. SmRead(e, 1).length \in Nat
  BY Registers DEF SmRead, Mirror, Addr
<1>2. QED
  BY <1>1 DEF Padded

(* Every step keeps the types, whatever the bus carries.                   *)
LEMMA TypeStep == TypeOK /\ [Next]_vars => TypeOK'
<1> SUFFICES ASSUME TypeOK, [Next]_vars
             PROVE  TypeOK'
  OBVIOUS
<1> USE DEF TypeOK
<1>1. ASSUME NEW e \in Mirror
      PROVE  [e EXCEPT ![SmStatus(0)] = 0] \in Mirror
  BY DEF Mirror
<1>2. CASE StartFrame \/ AbortFrame
  BY <1>2 DEF StartFrame, AbortFrame
<1>3. ASSUME NEW dg \in Datagrams, ProcessDatagram(dg)
      PROVE  TypeOK'
  <2>1. dg \in Datagram
    BY SlaveAssumption
  <2>2. esc' \in Mirror
    BY <1>3, <2>1, ProcessOneCases, ServeReadFacts, ServeWriteFacts
       DEF ProcessDatagram
  <2>3. QED
    BY <1>3, <2>2 DEF ProcessDatagram
<1>4. CASE FinishFrame
  <2>1. CASE UNCHANGED <<esc, landed, reply>>
    BY <1>4, <2>1 DEF FinishFrame
  <2>2. CASE /\ landed' = FALSE /\ UNCHANGED reply
             /\ esc' = [esc EXCEPT ![SmStatus(0)] = 0]
    BY <1>1, <1>4, <2>2 DEF FinishFrame
  <2>3. ASSUME NEW frame \in Replies, landed' = FALSE, PostReply(esc, frame),
               esc' = [MailboxWriteSm1(esc, frame) EXCEPT ![SmStatus(0)] = 0]
        PROVE  TypeOK'
    <3>1. frame \in Seq(Nat)
      BY SlaveAssumption
    <3>2. reply' \in Seq(Nat)
      BY <2>3, <3>1, PaddedType DEF PostReply
    <3>3. MailboxWriteSm1(esc, frame) \in Mirror
      BY <3>1, MailboxWriteFacts
    <3>4. QED
      BY <1>1, <1>4, <2>3, <3>2, <3>3 DEF FinishFrame
  <2>4. QED
    BY <1>4, <2>1, <2>2, <2>3 DEF FinishFrame
<1>5. ASSUME NEW frame \in Replies, AppReply(frame)
      PROVE  TypeOK'
  <2>1. frame \in Seq(Nat)
    BY SlaveAssumption
  <2>2. QED
    BY <1>5, <2>1, MailboxWriteFacts, PaddedType DEF AppReply, PostReply
<1>6. CASE Poll
  BY <1>6, Registers DEF Poll, Mirror, Addr
<1>7. CASE Reset
  BY <1>7 DEF Reset, EscReset, Mirror, AL_INIT
<1>8. CASE UNCHANGED vars
  BY <1>8 DEF vars
<1>9. QED
  BY <1>2, <1>3, <1>4, <1>5, <1>6, <1>7, <1>8 DEF Next

LEMMA TypeInit == Init => TypeOK
<1>1. EscReset \in Mirror
  BY DEF EscReset, Mirror, AL_INIT
<1>2. <<>> \in Seq(Nat) /\ AL_INIT \in Nat
  BY DEF AL_INIT
<1>3. QED
  BY <1>1, <1>2, Zenon DEF Init, TypeOK

(* The mirror and the controller's fields keep their types through every   *)
(* frame, reply, poll and reset, for every content of the bus.             *)
THEOREM SlaveTypes == Spec => []TypeOK
BY TypeInit, TypeStep, PTL DEF Spec

-----------------------------------------------------------------------------
(* The invariant that carries the safety theorems.  SM1's buffer must stay *)
(* above the registers, or posting a reply would write over AL Status and  *)
(* over SM0's status byte.                                                 *)
AlStatusIsWord == esc[ALSTAT] \in AlWords
Sm1AboveRegisters ==
  esc[SmBase(1) + 2] = MODE_MBX => esc[SmBase(1)] >= MBX_BASE

IInv ==
  /\ TypeOK
  /\ AlStatusIsWord
  /\ Sm1AboveRegisters
  /\ FullMeansLanded

(* The AL registers and SM1's place through a step of the bus.             *)
LEMMA DatagramStep ==
  ASSUME BusDiscipline, IInv, NEW dg \in Datagrams, ProcessDatagram(dg)
  PROVE  /\ AlStatusIsWord' /\ Sm1AboveRegisters' /\ FullMeansLanded'
         /\ AlMove(esc, esc')
<1> USE DEF IInv, TypeOK
<1>1. dg \in Datagram /\ dg.ado \in Nat
  BY SlaveAssumption DEF Datagram
<1>2. esc' = ProcessOne(esc, dg).esc
  BY DEF ProcessDatagram
<1>3. /\ ALSTAT \in Addr \ {SmStatus(1)} /\ ALSTACODE \in Addr \ {SmStatus(1)}
      /\ SmStatus(0) \in Addr \ {SmStatus(1)}
      /\ SmBase(1) \in Addr \ Owned /\ SmBase(1) + 2 \in Addr \ Owned
      /\ SmBase(1) \in Addr \ {SmStatus(1)} /\ SmBase(1) + 2 \in Addr \ {SmStatus(1)}
  BY Registers DEF Addr, Owned
<1>4. CASE esc' = esc
  BY <1>4 DEF ProcessDatagram, AlStatusIsWord, Sm1AboveRegisters,
              FullMeansLanded, AlMove
<1>5. CASE esc' = ServeRead(esc, dg)
  <2>1. \A a \in Addr \ {SmStatus(1)} : esc'[a] = esc[a]
    BY <1>1, <1>5, ServeReadFacts
  <2>2. QED
    BY <1>3, <2>1 DEF ProcessDatagram, AlStatusIsWord, Sm1AboveRegisters,
                      FullMeansLanded, AlMove
<1>6. CASE /\ dg.cmd \in {"FPWR", "APWR"} /\ Served(esc, dg)
           /\ esc' = ServeWrite(esc, dg)
  <2>1. /\ ~Writes(dg, ALSTAT) /\ ~Writes(dg, ALSTACODE)
        /\ Writes(dg, SmBase(1)) => ValueAt(dg, SmBase(1)) >= MBX_BASE
        /\ Writes(dg, SmBase(1) + 2) => Writes(dg, SmBase(1))
        /\ Writes(dg, SmStatus(0)) => ValueAt(dg, SmStatus(0)) # MBX_FULL
    BY DEF BusDiscipline
  <2>2. \A a : Writes(dg, a) <=> a \in dg.ado .. dg.ado + Len(dg.data) - 1
    BY <1>6 DEF Writes
  <2>3. AlStatusIsWord' /\ AlMove(esc, esc')
    <3>1. /\ ALSTAT \notin dg.ado .. dg.ado + Len(dg.data) - 1
          /\ ALSTACODE \notin dg.ado .. dg.ado + Len(dg.data) - 1
      BY <2>1, <2>2
    <3>2. QED
      BY <1>1, <1>6, <3>1, ServeWriteMoves DEF AlStatusIsWord
  <2>4. Sm1AboveRegisters'
    <3>1. \A a \in Addr \ Owned :
            esc'[a] = IF Writes(dg, a) THEN ValueAt(dg, a) ELSE esc[a]
      BY <1>1, <1>6, <2>2, ServeWriteFacts DEF ValueAt
    <3>2. QED
      BY <1>3, <2>1, <3>1 DEF Sm1AboveRegisters
  <2>5. FullMeansLanded'
    <3>1. CASE dg.cmd = "FPWR" /\ CompletesMailbox(esc', 0, dg.ado, Len(dg.data))
      BY <1>6, <3>1 DEF ProcessDatagram, FullMeansLanded
    <3>2. CASE ~(dg.cmd = "FPWR" /\ CompletesMailbox(esc', 0, dg.ado, Len(dg.data)))
      <4>1. esc'[SmStatus(0)] = IF Writes(dg, SmStatus(0))
                                THEN ValueAt(dg, SmStatus(0)) ELSE esc[SmStatus(0)]
        BY <1>1, <1>6, <2>2, <3>2, ServeWriteFacts DEF ValueAt
      <4>2. QED
        BY <2>1, <4>1 DEF ProcessDatagram, FullMeansLanded
    <3>3. QED
      BY <3>1, <3>2
  <2>6. QED
    BY <2>3, <2>4, <2>5
<1>7. QED
  BY <1>1, <1>2, <1>4, <1>5, <1>6, ProcessOneCases

(* A reply goes above the registers.                                       *)
LEMMA ReplyStep ==
  ASSUME IInv, NEW frame \in Replies, NEW a \in Addr,
         a < MBX_BASE, a # SmStatus(1)
  PROVE  MailboxWriteSm1(esc, frame)[a] = esc[a]
<1> USE DEF IInv, TypeOK
<1>1. frame \in Seq(Nat)
  BY SlaveAssumption
<1>2. IsMailbox(SmRead(esc, 1)) => SmRead(esc, 1).start >= MBX_BASE
  BY DEF Sm1AboveRegisters, IsMailbox, SmRead
<1>3. SmRead(esc, 1).start \in Nat /\ a \in Nat /\ MBX_BASE \in Nat
  BY Registers DEF SmRead, Mirror, Addr
<1>4. QED
  BY <1>1, <1>2, <1>3, MailboxWriteFacts

(* The application empties SM0 after it has handled a request.             *)
LEMMA ClearSm0Facts ==
  ASSUME NEW e \in Mirror
  PROVE  /\ \A a \in Addr : a # SmStatus(0) =>
              [e EXCEPT ![SmStatus(0)] = 0][a] = e[a]
         /\ [e EXCEPT ![SmStatus(0)] = 0][SmStatus(0)] = 0
BY Registers DEF Mirror, Addr

(* Every step keeps the invariant, and moves the AL registers as the       *)
(* abstract machine does.                                                  *)
LEMMA InvStep ==
  ASSUME BusDiscipline, IInv, [Next]_vars
  PROVE  IInv' /\ (AlMove(esc, esc') \/ esc' = EscReset)
<1> DEFINE Kept == AlStatusIsWord' /\ Sm1AboveRegisters' /\ FullMeansLanded'
           Moves == AlMove(esc, esc') \/ esc' = EscReset
           Low == {ALSTAT, ALSTACODE, SmBase(1), SmBase(1) + 2}
<1>1. TypeOK'
  BY TypeStep DEF IInv
<1> SUFFICES Kept /\ Moves
  BY <1>1 DEF IInv
<1>2. esc \in Mirror
  BY DEF IInv, TypeOK
<1>3. /\ Low \subseteq Addr \ {SmStatus(0), SmStatus(1)}
      /\ \A a \in Low : a < MBX_BASE
      /\ SmStatus(0) \in Addr \ {SmStatus(1)} /\ SmStatus(0) < MBX_BASE
  BY Registers DEF Addr
<1>4. ASSUME \A a \in Low : esc'[a] = esc[a],
             esc'[SmStatus(0)] \in {esc[SmStatus(0)], 0},
             esc'[SmStatus(0)] = 0 \/ landed' = landed
      PROVE  Kept /\ Moves
  BY <1>4 DEF IInv, AlStatusIsWord, Sm1AboveRegisters, FullMeansLanded,
              AlMove, MBX_FULL
<1>5. CASE UNCHANGED <<esc, landed>>
  BY <1>4, <1>5
<1>6. ASSUME NEW dg \in Datagrams, ProcessDatagram(dg)
      PROVE  Kept /\ Moves
  BY <1>6, DatagramStep
<1>7. CASE FinishFrame
  <2>1. CASE UNCHANGED <<esc, landed, reply>>
    BY <1>5, <2>1
  <2>2. CASE esc' = [esc EXCEPT ![SmStatus(0)] = 0]
    <3>1. \A a \in Addr : a # SmStatus(0) => esc'[a] = esc[a]
      BY <1>2, <2>2, ClearSm0Facts
    <3>2. esc'[SmStatus(0)] = 0
      BY <1>2, <2>2, ClearSm0Facts
    <3>3. QED
      BY <1>3, <1>4, <3>1, <3>2
  <2>3. ASSUME NEW frame \in Replies,
               esc' = [MailboxWriteSm1(esc, frame) EXCEPT ![SmStatus(0)] = 0]
        PROVE  Kept /\ Moves
    <3>1. MailboxWriteSm1(esc, frame) \in Mirror
      BY <1>2, MailboxWriteFacts, SlaveAssumption
    <3>2. \A a \in Low : MailboxWriteSm1(esc, frame)[a] = esc[a]
      BY <1>3, ReplyStep
    <3>3. \A a \in Addr : a # SmStatus(0) =>
            esc'[a] = MailboxWriteSm1(esc, frame)[a]
      BY <2>3, <3>1, ClearSm0Facts
    <3>4. esc'[SmStatus(0)] = 0
      BY <2>3, <3>1, ClearSm0Facts
    <3>5. \A a \in Low : esc'[a] = esc[a]
      BY <1>3, <3>2, <3>3
    <3>6. QED
      BY <1>4, <3>4, <3>5
  <2>4. QED
    BY <1>7, <2>1, <2>2, <2>3 DEF FinishFrame
<1>8. ASSUME NEW frame \in Replies, AppReply(frame)
      PROVE  Kept /\ Moves
  <2>1. esc' = MailboxWriteSm1(esc, frame) /\ landed' = landed
    BY <1>8 DEF AppReply
  <2>2. \A a \in Low \cup {SmStatus(0)} : MailboxWriteSm1(esc, frame)[a] = esc[a]
    BY <1>3, ReplyStep
  <2>3. QED
    BY <1>4, <2>1, <2>2
<1>9. CASE Reset
  <2>1. esc' = EscReset
    BY <1>9 DEF Reset
  <2>2. /\ EscReset[ALSTAT] = AL_INIT /\ EscReset[SmBase(1) + 2] = 0
        /\ EscReset[SmStatus(0)] = 0
    BY <1>3, Registers DEF EscReset
  <2>3. AL_INIT \in AlWords /\ 0 # MODE_MBX /\ 0 # MBX_FULL
    BY DEF AlWords, AlStates, MODE_MBX, MBX_FULL
  <2>4. QED
    BY <2>1, <2>2, <2>3 DEF AlStatusIsWord, Sm1AboveRegisters, FullMeansLanded
<1>10. StartFrame \/ AbortFrame \/ Poll \/ UNCHANGED vars
         => UNCHANGED <<esc, landed>>
  BY DEF StartFrame, AbortFrame, Poll, vars
<1>11. QED
  BY <1>5, <1>6, <1>7, <1>8, <1>9, <1>10 DEF Next

LEMMA InvInit == Init => IInv
<1> SUFFICES ASSUME Init
             PROVE  IInv
  OBVIOUS
<1>1. TypeOK
  BY TypeInit
<1>2. /\ ALSTAT \in Addr /\ SmBase(1) + 2 \in Addr /\ SmStatus(0) \in Addr
      /\ SmBase(1) + 2 # ALSTAT /\ SmStatus(0) # ALSTAT
  BY Registers DEF Addr
<1>3. /\ esc[ALSTAT] = AL_INIT /\ esc[SmBase(1) + 2] = 0
      /\ esc[SmStatus(0)] = 0
  BY <1>2 DEF Init, EscReset
<1>4. AL_INIT \in AlWords /\ 0 # MODE_MBX /\ 0 # MBX_FULL
  BY DEF AlWords, AlStates, MODE_MBX, MBX_FULL
<1>5. QED
  BY <1>1, <1>3, <1>4 DEF IInv, AlStatusIsWord, Sm1AboveRegisters, FullMeansLanded

(* On a disciplined bus a request is pending in SM0 only if its last byte  *)
(* was written after the handler last ran and after the last reset.        *)
THEOREM SlaveFullMeansLanded ==
  ASSUME BusDiscipline
  PROVE  Spec => []FullMeansLanded
<1>1. IInv /\ [Next]_vars => IInv'
  BY InvStep
<1>2. IInv => FullMeansLanded
  BY DEF IInv
<1>3. QED
  BY InvInit, <1>1, <1>2, PTL DEF Spec

-----------------------------------------------------------------------------
(* What SM1 holds.  The content is kept whether or not SM1 is still on,    *)
(* and stays where it is: inside the mirror, above the registers, and      *)
(* where no datagram writes.                                               *)
Sm1Start  == esc[SmBase(1)]
Sm1Length == esc[SmBase(1) + 1]

Sm1Inv ==
  /\ Untouched(Sm1Start, Sm1Length)
  /\ esc[SmStatus(1)] = MBX_FULL =>
       /\ Sm1Start >= MBX_BASE /\ Sm1Start + Sm1Length <= ESC_SIZE
       /\ EscRead(esc, Sm1Start, Sm1Length) = reply

(* SM1's cells apart from the status.                                      *)
LEMMA Sm1Cells ==
  /\ SmBase(1) \in Addr \ Owned /\ SmBase(1) + 1 \in Addr \ Owned
  /\ SmStatus(1) \in Addr /\ SmStatus(1) # SmStatus(0)
  /\ SmBase(1) < MBX_BASE /\ SmBase(1) + 1 < MBX_BASE /\ SmStatus(1) < MBX_BASE
  /\ \A e : SmRead(e, 1).start = e[SmBase(1)] /\ SmRead(e, 1).length = e[SmBase(1) + 1]
BY Registers DEF Addr, Owned, SmRead

(* A step that leaves SM1's place and the cells above the registers alone, *)
(* and raises no status, keeps what SM1 holds.                             *)
LEMMA Sm1Frame ==
  ASSUME TypeOK, Sm1Inv, reply' = reply,
         esc'[SmBase(1)] = Sm1Start, esc'[SmBase(1) + 1] = Sm1Length,
         esc'[SmStatus(1)] = MBX_FULL => esc[SmStatus(1)] = MBX_FULL,
         \A i \in 1 .. Sm1Length :
           Sm1Start + i - 1 \in Addr /\ Sm1Start >= MBX_BASE =>
             esc'[Sm1Start + i - 1] = esc[Sm1Start + i - 1]
  PROVE  Sm1Inv'
<1>1. Sm1Start \in Nat /\ Sm1Length \in Nat /\ ESC_SIZE \in Nat
  BY Sm1Cells, Registers DEF TypeOK, Mirror, Sm1Start, Sm1Length
<1>2. Sm1Start' = Sm1Start /\ Sm1Length' = Sm1Length
  BY DEF Sm1Start, Sm1Length
<1>3. Untouched(Sm1Start, Sm1Length)'
  BY <1>2 DEF Sm1Inv, Untouched
<1>4. ASSUME esc'[SmStatus(1)] = MBX_FULL
      PROVE  /\ Sm1Start >= MBX_BASE /\ Sm1Start + Sm1Length <= ESC_SIZE
             /\ EscRead(esc', Sm1Start, Sm1Length) = reply
  <2>1. /\ Sm1Start >= MBX_BASE /\ Sm1Start + Sm1Length <= ESC_SIZE
        /\ EscRead(esc, Sm1Start, Sm1Length) = reply
    BY <1>4 DEF Sm1Inv
  <2>2. \A i \in 1 .. Sm1Length : Sm1Start + i - 1 \in Addr
    BY <1>1, <2>1 DEF Addr
  <2>3. EscRead(esc', Sm1Start, Sm1Length) = EscRead(esc, Sm1Start, Sm1Length)
    BY <2>1, <2>2 DEF EscRead
  <2>4. QED
    BY <2>1, <2>3
<1>5. QED
  BY <1>2, <1>3, <1>4 DEF Sm1Inv

(* A datagram on the bus.                                                  *)
LEMMA Sm1Datagram ==
  ASSUME Sm1Discipline, TypeOK, Sm1Inv, NEW dg \in Datagrams, ProcessDatagram(dg)
  PROVE  Sm1Inv'
<1>1. dg \in Datagram /\ esc \in Mirror /\ esc' = ProcessOne(esc, dg).esc /\ reply' = reply
  BY SlaveAssumption DEF ProcessDatagram, TypeOK
<1>2. CASE esc' = esc
  BY <1>1, <1>2, Sm1Frame DEF Sm1Start, Sm1Length
<1>3. CASE esc' = ServeRead(esc, dg)
  <2>1. /\ \A a \in Addr \ {SmStatus(1)} : esc'[a] = esc[a]
        /\ esc' = esc \/ esc'[SmStatus(1)] = 0
    BY <1>1, <1>3, ServeReadFacts, Sm1Cells
       DEF ServeRead, MailboxOnSm1Read, Mirror
  <2>2. \A i \in 1 .. Sm1Length :
          Sm1Start + i - 1 \in Addr /\ Sm1Start >= MBX_BASE =>
            esc'[Sm1Start + i - 1] = esc[Sm1Start + i - 1]
    <3>1. Sm1Start \in Nat /\ Sm1Length \in Nat
      BY <1>1, Sm1Cells DEF Mirror, Sm1Start, Sm1Length
    <3>2. \A i \in 1 .. Sm1Length : Sm1Start >= MBX_BASE => Sm1Start + i - 1 # SmStatus(1)
      BY <3>1, Registers
    <3>3. QED
      BY <2>1, <3>2
  <2>3. /\ esc'[SmBase(1)] = Sm1Start /\ esc'[SmBase(1) + 1] = Sm1Length
        /\ esc'[SmStatus(1)] = MBX_FULL => esc[SmStatus(1)] = MBX_FULL
    BY <2>1, Sm1Cells DEF Owned, Sm1Start, Sm1Length, MBX_FULL
  <2>4. QED
    BY <1>1, <2>2, <2>3, Sm1Frame
<1>4. CASE /\ dg.cmd \in {"FPWR", "APWR"} /\ Served(esc, dg)
           /\ esc' = ServeWrite(esc, dg)
  <2>1. \A a : Writes(dg, a) <=> a \in dg.ado .. dg.ado + Len(dg.data) - 1
    BY <1>4 DEF Writes
  <2>2. /\ \A a \in Addr \ Owned :
             esc'[a] = IF Writes(dg, a) THEN ValueAt(dg, a) ELSE esc[a]
        /\ esc'[SmStatus(1)] = IF Writes(dg, SmStatus(1))
                               THEN ValueAt(dg, SmStatus(1)) ELSE esc[SmStatus(1)]
    BY <1>1, <1>4, <2>1, ServeWriteFacts, Sm1Cells DEF ValueAt
  <2>3. Fits(dg)
    BY <1>4 DEF Served, Fits, InMirror
  <2>4. /\ Writes(dg, SmStatus(1)) => ValueAt(dg, SmStatus(1)) # MBX_FULL
        /\ Writes(dg, SmBase(1)) \/ Writes(dg, SmBase(1) + 1) =>
             /\ Writes(dg, SmBase(1)) /\ Writes(dg, SmStatus(1))
             /\ Untouched(ValueAt(dg, SmBase(1)), ValueAt(dg, SmBase(1) + 1))
    BY <2>3 DEF Sm1Discipline
  <2>5. CASE Writes(dg, SmBase(1)) \/ Writes(dg, SmBase(1) + 1)
    <3>1. Writes(dg, SmBase(1)) /\ Writes(dg, SmStatus(1))
      BY <2>4, <2>5
    <3>2. Writes(dg, SmBase(1) + 1)
      <4>1. dg.ado \in Nat /\ Len(dg.data) \in Nat
        BY <1>1 DEF Datagram
      <4>2. /\ 10 \in dg.ado .. dg.ado + Len(dg.data) - 1
            /\ 13 \in dg.ado .. dg.ado + Len(dg.data) - 1
        BY <2>1, <3>1, Registers
      <4>3. 11 \in dg.ado .. dg.ado + Len(dg.data) - 1
        BY <4>1, <4>2
      <4>4. SmBase(1) + 1 = 11
        BY Registers
      <4>5. QED
        BY <2>1, <4>3, <4>4
    <3>3. /\ esc'[SmBase(1)] = ValueAt(dg, SmBase(1))
          /\ esc'[SmBase(1) + 1] = ValueAt(dg, SmBase(1) + 1)
          /\ esc'[SmStatus(1)] # MBX_FULL
      BY <2>2, <2>4, <3>1, <3>2, Sm1Cells
    <3>4. QED
      BY <2>4, <3>1, <3>3 DEF Sm1Inv, Sm1Start, Sm1Length, Untouched
  <2>6. CASE ~(Writes(dg, SmBase(1)) \/ Writes(dg, SmBase(1) + 1))
    <3>1. /\ esc'[SmBase(1)] = Sm1Start /\ esc'[SmBase(1) + 1] = Sm1Length
          /\ esc'[SmStatus(1)] = MBX_FULL => esc[SmStatus(1)] = MBX_FULL
      BY <2>2, <2>4, <2>6, Sm1Cells DEF Sm1Start, Sm1Length
    <3>2. \A i \in 1 .. Sm1Length : ~Writes(dg, Sm1Start + i - 1)
      BY <2>3 DEF Sm1Inv, Untouched
    <3>3. ASSUME NEW i \in 1 .. Sm1Length,
                 Sm1Start + i - 1 \in Addr, Sm1Start >= MBX_BASE
          PROVE  esc'[Sm1Start + i - 1] = esc[Sm1Start + i - 1]
      <4>1. Sm1Start \in Nat /\ Sm1Length \in Nat
        BY <1>1, Sm1Cells DEF Mirror, Sm1Start, Sm1Length
      <4>2. Sm1Start + i - 1 \notin Owned
        BY <3>3, <4>1, Registers DEF Owned
      <4>3. QED
        BY <2>2, <3>2, <3>3, <4>2
    <3>4. QED
      BY <1>1, <3>1, <3>3, Sm1Frame
  <2>7. QED
    BY <2>5, <2>6
<1>5. QED
  BY <1>1, <1>2, <1>3, <1>4, ProcessOneCases

(* A reply the slave posts, and SM0 emptied or not after it.               *)
LEMMA Sm1Post ==
  ASSUME TypeOK, Sm1AboveRegisters, Sm1Inv,
         NEW frame \in Replies, PostReply(esc, frame),
         \A a \in Addr \ {SmStatus(0)} : esc'[a] = MailboxWriteSm1(esc, frame)[a]
  PROVE  Sm1Inv'
<1> DEFINE n == MailboxWriteSm1(esc, frame)
<1>1. /\ esc \in Mirror /\ frame \in Seq(Nat)
      /\ Sm1Start \in Nat /\ Sm1Length \in Nat
  BY SlaveAssumption, Sm1Cells DEF TypeOK, Mirror, Sm1Start, Sm1Length
<1>2. CASE ~Sm1Accepts(esc, frame)
  <2>1. n = esc /\ reply' = reply
    BY <1>2 DEF MailboxWriteSm1, PostReply
  <2>2. \A i \in 1 .. Sm1Length : Sm1Start >= MBX_BASE => Sm1Start + i - 1 # SmStatus(0)
    BY <1>1, Registers
  <2>3. QED
    BY <2>1, <2>2, Sm1Cells, Sm1Frame DEF Owned, Sm1Start, Sm1Length
<1>3. CASE Sm1Accepts(esc, frame)
  <2>1. /\ Sm1Start >= MBX_BASE /\ Sm1Start + Sm1Length <= ESC_SIZE
        /\ IsMailbox(SmRead(esc, 1))
        /\ reply' = Padded(SmRead(esc, 1), frame)
    BY <1>3, Sm1Cells DEF Sm1Accepts, Sm1AboveRegisters, IsMailbox, SmRead,
                          Sm1Start, Sm1Length, PostReply
  <2>2. SmRead(esc, 1).start = Sm1Start /\ SmRead(esc, 1).length = Sm1Length
    BY Sm1Cells DEF Sm1Start, Sm1Length
  <2>3. /\ n[SmStatus(1)] = MBX_FULL
        /\ \A i \in 1 .. Sm1Length :
             n[Sm1Start + i - 1] = IF i <= Len(frame) THEN frame[i] ELSE 0
        /\ \A a \in Addr \ {SmStatus(1)} : a < Sm1Start => n[a] = esc[a]
    BY <1>1, <1>3, <2>1, <2>2, MailboxWriteBuffer, MailboxWriteFacts
  <2> HIDE DEF n
  <2>4. Sm1Start' = Sm1Start /\ Sm1Length' = Sm1Length
    <3>1. /\ SmBase(1) < Sm1Start /\ SmBase(1) + 1 < Sm1Start
          /\ SmBase(1) # SmStatus(0) /\ SmBase(1) + 1 # SmStatus(0)
          /\ SmBase(1) # SmStatus(1) /\ SmBase(1) + 1 # SmStatus(1)
      BY <1>1, <2>1, Registers
    <3>2. QED
      BY <2>3, <3>1, Sm1Cells DEF n, Sm1Start, Sm1Length
  <2>5. ASSUME NEW i \in 1 .. Sm1Length
        PROVE  esc'[Sm1Start + i - 1] = IF i <= Len(frame) THEN frame[i] ELSE 0
    <3>1. Sm1Start + i - 1 \in Addr \ {SmStatus(0)}
      BY <1>1, <2>1, Registers DEF Addr
    <3>2. QED
      BY <2>3, <3>1 DEF n
  <2>6. EscRead(esc', Sm1Start, Sm1Length) = reply'
    BY <2>1, <2>2, <2>5 DEF EscRead, Padded
  <2>7. Untouched(Sm1Start, Sm1Length)'
    BY <2>4 DEF Sm1Inv, Untouched
  <2>8. QED
    BY <2>1, <2>4, <2>6, <2>7 DEF Sm1Inv
<1>4. QED
  BY <1>2, <1>3

LEMMA Sm1Step ==
  ASSUME Sm1Discipline, IInv, Sm1Inv, [Next]_vars
  PROVE  Sm1Inv'
<1>1. TypeOK /\ Sm1AboveRegisters /\ esc \in Mirror
  BY DEF IInv, TypeOK
<1>2. CASE UNCHANGED <<esc, reply>>
  BY <1>1, <1>2, Sm1Frame DEF Sm1Start, Sm1Length
<1>3. ASSUME NEW dg \in Datagrams, ProcessDatagram(dg)
      PROVE  Sm1Inv'
  BY <1>1, <1>3, Sm1Datagram
<1>4. CASE FinishFrame
  <2>1. CASE esc' = [esc EXCEPT ![SmStatus(0)] = 0] /\ UNCHANGED reply
    <3>1. \A a \in Addr : a # SmStatus(0) => esc'[a] = esc[a]
      BY <1>1, <2>1, ClearSm0Facts
    <3>2. Sm1Start \in Nat /\ Sm1Length \in Nat
      BY <1>1, Sm1Cells DEF Mirror, Sm1Start, Sm1Length
    <3>3. \A i \in 1 .. Sm1Length : Sm1Start >= MBX_BASE => Sm1Start + i - 1 # SmStatus(0)
      BY <3>2, Registers
    <3>4. QED
      BY <1>1, <2>1, <3>1, <3>3, Sm1Cells, Sm1Frame DEF Owned, Sm1Start, Sm1Length
  <2>2. ASSUME NEW frame \in Replies, PostReply(esc, frame),
               esc' = [MailboxWriteSm1(esc, frame) EXCEPT ![SmStatus(0)] = 0]
        PROVE  Sm1Inv'
    <3>1. MailboxWriteSm1(esc, frame) \in Mirror
      BY <1>1, MailboxWriteFacts, SlaveAssumption
    <3>2. \A a \in Addr \ {SmStatus(0)} : esc'[a] = MailboxWriteSm1(esc, frame)[a]
      BY <2>2, <3>1, ClearSm0Facts
    <3>3. QED
      BY <1>1, <2>2, <3>2, Sm1Post
  <2>3. QED
    BY <1>2, <1>4, <2>1, <2>2 DEF FinishFrame
<1>5. ASSUME NEW frame \in Replies, AppReply(frame)
      PROVE  Sm1Inv'
  BY <1>1, <1>5, Sm1Post DEF AppReply
<1>6. CASE Reset
  <2>1. /\ EscReset[SmBase(1) + 1] = 0 /\ EscReset[SmStatus(1)] = 0
    BY Registers DEF EscReset, Addr
  <2>2. QED
    BY <1>6, <2>1 DEF Reset, Sm1Inv, Sm1Length, Untouched, MBX_FULL
<1>7. StartFrame \/ AbortFrame \/ Poll \/ UNCHANGED vars
        => UNCHANGED <<esc, reply>>
  BY DEF StartFrame, AbortFrame, Poll, vars
<1>8. QED
  BY <1>2, <1>3, <1>4, <1>5, <1>6, <1>7 DEF Next

(* While SM1 reports a reply its buffer holds exactly the last one posted: *)
(* mailbox_write_sm1 pads it, and nothing the slave does writes over it.   *)
THEOREM Sm1KeepsReply ==
  ASSUME BusDiscipline, Sm1Discipline
  PROVE  Spec => []Sm1HoldsReply
<1>1. Init => IInv /\ Sm1Inv
  <2>1. EscReset[SmBase(1) + 1] = 0 /\ EscReset[SmStatus(1)] = 0
    BY Registers DEF EscReset, Addr
  <2>2. Init => Sm1Inv
    BY <2>1 DEF Init, Sm1Inv, Sm1Length, Untouched, MBX_FULL
  <2>3. QED
    BY <2>2, InvInit
<1>2. IInv /\ Sm1Inv /\ [Next]_vars => IInv' /\ Sm1Inv'
  BY InvStep, Sm1Step
<1>3. Sm1Inv => Sm1HoldsReply
  BY Sm1Cells DEF Sm1Inv, Sm1HoldsReply, Sm1Start, Sm1Length
<1>4. QED
  BY <1>1, <1>2, <1>3, PTL DEF Spec

-----------------------------------------------------------------------------
(* The AL registers implement the abstract machine.                        *)

LEMMA RungFacts ==
  /\ Al!Rung[1] = 0 /\ Al!Rung[2] = 1 /\ Al!Rung[4] = 2 /\ Al!Rung[8] = 3
  /\ Al!States = {1, 2, 4, 8}
BY DEF Al!Rung, Al!States, Al!INIT, Al!PREOP, Al!SAFEOP, Al!OP

LEMMA AlMoveImplements ==
  ASSUME esc[ALSTAT] \in AlWords, AlMove(esc, esc')
  PROVE  [Al!Next]_Al!vars
<1> DEFINE cur == StateOf(esc[ALSTAT])
           now == StateOf(esc'[ALSTAT])
<1>1. cur \in AlStates
  BY AlWordFields
<1>2. CASE esc'[ALSTAT] = esc[ALSTAT] /\ esc'[ALSTACODE] = esc[ALSTACODE]
  BY <1>2 DEF Al!vars
<1>3. CASE esc'[ALSTAT] = cur /\ esc'[ALSTACODE] = ERR_NONE
  <2>1. now = cur /\ ~Bit4Of(esc'[ALSTAT])
    BY <1>1, <1>3, AlWordFields
  <2>2. Bit4Of(esc'[ALSTAT]) = FALSE
    BY <2>1, Zenon DEF Bit4Of
  <2>3. Al!Acknowledge
    BY <1>3, <2>1, <2>2, Zenon DEF Al!Acknowledge, Al!NoError, ERR_NONE
  <2>4. QED
    BY <2>3 DEF Al!Next
<1>4. CASE /\ esc'[ALSTAT] = cur + BIT4 /\ esc'[ALSTACODE] \in AlErrors
           /\ esc'[ALSTACODE] = ERR_MAILBOX_CFG => cur = AL_INIT
  <2>1. now = cur /\ Bit4Of(esc'[ALSTAT])
    BY <1>1, <1>4, AlWordFields
  <2>2. Bit4Of(esc'[ALSTAT]) = TRUE
    BY <2>1, Zenon DEF Bit4Of
  <2>3. /\ esc'[ALSTACODE] \in {Al!BadTransition, Al!NoBootstrap, Al!BadMailbox}
        /\ esc'[ALSTACODE] = Al!BadMailbox => cur = Al!INIT
    BY <1>4 DEF AlErrors, ERR_STATE_CHANGE, ERR_BOOTSTRAP, ERR_MAILBOX_CFG,
                Al!BadTransition, Al!NoBootstrap, Al!BadMailbox, AL_INIT, Al!INIT
  <2>4. Al!Refuse(esc'[ALSTACODE])
    BY <2>1, <2>2, <2>3, Zenon DEF Al!Refuse
  <2>5. QED
    BY <2>3, <2>4 DEF Al!Next
<1>5. CASE /\ esc'[ALSTAT] \in AlStates /\ esc'[ALSTACODE] = ERR_NONE
           /\ ValidTransition(cur, esc'[ALSTAT])
  <2>1. now = esc'[ALSTAT] /\ ~Bit4Of(esc'[ALSTAT])
    BY <1>5, AlWordFields
  <2>2. Bit4Of(esc'[ALSTAT]) = FALSE
    BY <2>1, Zenon DEF Bit4Of
  <2>3. now \in Al!States /\ (now = Al!INIT \/ Al!Rung[now] - Al!Rung[cur] \in {-1, 1})
    BY <1>1, <1>5, <2>1, RungFacts
       DEF ValidTransition, AlStates, AL_INIT, AL_PREOP, AL_SAFEOP, AL_OP, Al!INIT
  <2>4. Al!Enter(now)
    BY <1>5, <2>2, <2>3, Zenon DEF Al!Enter, Al!NoError, ERR_NONE
  <2>5. QED
    BY <2>3, <2>4 DEF Al!Next
<1>6. QED
  BY <1>2, <1>3, <1>4, <1>5 DEF AlMove

LEMMA ResetImplements ==
  /\ esc = EscReset => Al!Init
  /\ esc' = EscReset => Al!Next
<1>1. EscReset[ALSTAT] = 1 /\ EscReset[ALSTACODE] = 0
  BY Registers DEF EscReset, AL_INIT, Addr
<1>2. StateOf(1) = 1 /\ Bit4Of(1) = FALSE
  BY DEF StateOf, Bit4Of, BIT4
<1>3. esc = EscReset => Al!Init
  BY <1>1, <1>2, Zenon DEF Al!Init, Al!INIT, Al!NoError
<1>4. esc' = EscReset => Al!Enter(1)
  BY <1>1, <1>2, Zenon DEF Al!Enter, Al!INIT, Al!NoError
<1>5. QED
  BY <1>3, <1>4, RungFacts DEF Al!Next

(* Whatever requests, acknowledgements, SyncManager writes, replies and    *)
(* resets a disciplined bus brings, the AL registers go through a          *)
(* behaviour of AlMachine: no rung skipped, no refused request that moves  *)
(* the state, no error without its code.                                   *)
THEOREM SlaveImplementsAl ==
  ASSUME BusDiscipline
  PROVE  Spec => AlRefinement
<1>1. IInv /\ [Next]_vars => IInv'
  BY InvStep
<1>2. Init => Al!Init
  BY ResetImplements DEF Init
<1>3. IInv /\ [Next]_vars => [Al!Next]_Al!vars
  <2> SUFFICES ASSUME IInv, [Next]_vars
               PROVE  [Al!Next]_Al!vars
    OBVIOUS
  <2>1. CASE AlMove(esc, esc')
    BY <2>1, AlMoveImplements DEF IInv, AlStatusIsWord
  <2>2. CASE esc' = EscReset
    BY <2>2, ResetImplements
  <2>3. QED
    BY <2>1, <2>2, InvStep
<1>4. QED
  BY InvInit, <1>1, <1>2, <1>3, PTL DEF Spec, AlRefinement, Al!Spec

=============================================================================
