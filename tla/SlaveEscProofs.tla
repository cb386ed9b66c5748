--------------------------- MODULE SlaveEscProofs ---------------------------
(***************************************************************************)
(* Lemmas about the operators of SlaveEsc: which cells of the mirror each  *)
(* of them may change, that none leaves the mirror, and how AL Status      *)
(* moves.                                                                  *)
(***************************************************************************)
EXTENDS SlaveEsc, TLAPS

(* The register cells lie in the mirror, in this order.                    *)
LEMMA Registers ==
  /\ STADR = 1 /\ ALCTL = 2 /\ ALSTAT = 3 /\ ALSTACODE = 4
  /\ SmBase(0) = 5 /\ SmStatus(0) = 8 /\ SmBase(1) = 10 /\ SmStatus(1) = 13
  /\ MBX_BASE = 15 /\ ESC_SIZE \in Nat /\ ESC_SIZE >= 17
BY EscSizeAssumption
   DEF STADR, ALCTL, ALSTAT, ALSTACODE, SmBase, SmStatus, SM0, SM_SIZE, MBX_BASE

(* The cells of the two SyncManager blocks.                                *)
LEMMA SmCells ==
  ASSUME NEW e
  PROVE  /\ SmRead(e, 0) = [start |-> e[5], length |-> e[6], control |-> e[7],
                            status |-> e[8], activate |-> e[9]]
         /\ SmRead(e, 1) = [start |-> e[10], length |-> e[11], control |-> e[12],
                            status |-> e[13], activate |-> e[14]]
<1>1. /\ SmBase(0) + 1 = 6 /\ SmBase(0) + 2 = 7 /\ SmBase(0) + 3 = 8
      /\ SmBase(0) + 4 = 9 /\ SmBase(0) = 5
      /\ SmBase(1) + 1 = 11 /\ SmBase(1) + 2 = 12 /\ SmBase(1) + 3 = 13
      /\ SmBase(1) + 4 = 14 /\ SmBase(1) = 10
  BY Registers
<1>2. QED
  BY <1>1 DEF SmRead

LEMMA CompletesCells ==
  ASSUME NEW e \in Mirror, NEW ado \in Nat, NEW len \in Nat
  PROVE  CompletesMailbox(e, 0, ado, len) <=>
           /\ e[9] = 1 /\ e[7] = MODE_MBX /\ e[6] # 0
           /\ ado >= e[5] /\ ado + len = e[5] + e[6]
<1>1. SmRead(e, 0) = [start |-> e[5], length |-> e[6], control |-> e[7],
                      status |-> e[8], activate |-> e[9]]
  BY SmCells
<1> DEFINE sm == [start |-> e[5], length |-> e[6], control |-> e[7],
                  status |-> e[8], activate |-> e[9]]
<1>2. CompletesMailbox(e, 0, ado, len) <=>
        IsMailbox(sm) /\ ado >= sm.start /\ ado + len = sm.start + sm.length
  BY <1>1, Zenon DEF CompletesMailbox
<1>3. QED
  BY <1>2 DEF IsMailbox

(* A write keeps the mirror's shape and leaves the cells outside its range *)
(* alone.                                                                  *)
LEMMA EscWriteFacts ==
  ASSUME NEW e \in Mirror, NEW ado \in Nat, NEW data \in Seq(Nat),
         ado + Len(data) <= ESC_SIZE
  PROVE  /\ EscWrite(e, ado, data) \in Mirror
         /\ \A a \in Addr : EscWrite(e, ado, data)[a] =
              IF a \in ado .. ado + Len(data) - 1
              THEN data[a - ado + 1] ELSE e[a]
<1>1. DOMAIN e \cup (ado .. ado + Len(data) - 1) = Addr
  BY EscSizeAssumption DEF Mirror, Addr
<1>2. ASSUME NEW a \in Addr, a \in ado .. ado + Len(data) - 1
      PROVE  data[a - ado + 1] \in Nat
  BY <1>2, EscSizeAssumption DEF Addr
<1>3. QED
  BY <1>1, <1>2 DEF EscWrite, Mirror

(* The fields of an AL word.                                               *)
LEMMA AlWord ==
  \A w \in Nat : StateOf(w) \in 0 .. 15 /\ Bit4Of(w) \in BOOLEAN
BY DEF StateOf, Bit4Of, BIT4

(* AL control writes touch the two AL status cells only.                   *)
LEMMA AlOnControlWriteFacts ==
  ASSUME NEW e \in Mirror
  PROVE  /\ AlOnControlWrite(e) \in Mirror
         /\ \A a \in Addr \ {ALSTAT, ALSTACODE} : AlOnControlWrite(e)[a] = e[a]
<1>1. /\ StateOf(e[ALSTAT]) \in Nat
      /\ StateOf(e[ALCTL]) \in Nat
  <2>1. e[ALSTAT] \in Nat /\ e[ALCTL] \in Nat
    BY Registers DEF Mirror, Addr
  <2>2. QED
    BY <2>1, AlWord
<1>2. AlRefusal(e, StateOf(e[ALSTAT]), StateOf(e[ALCTL])) \in Nat
  BY DEF AlRefusal, ERR_NONE, ERR_BOOTSTRAP, ERR_STATE_CHANGE, ERR_MAILBOX_CFG
<1>3. ASSUME NEW st \in Nat, NEW code \in Nat
      PROVE  /\ WriteAlStatus(e, st, code) \in Mirror
             /\ \A a \in Addr \ {ALSTAT, ALSTACODE} :
                  WriteAlStatus(e, st, code)[a] = e[a]
  BY DEF WriteAlStatus, Mirror
<1>4. ERR_NONE \in Nat /\ BIT4 \in Nat
  BY DEF ERR_NONE, BIT4
<1>5. QED
  BY <1>1, <1>2, <1>3, <1>4 DEF AlOnControlWrite

(* The mailbox hooks touch one status cell each.                           *)
LEMMA MailboxHookFacts ==
  ASSUME NEW e \in Mirror, NEW ado \in Nat, NEW len \in Nat
  PROVE  /\ MailboxOnSm0Write(e, ado, len) \in Mirror
         /\ MailboxOnSm1Read(e, ado, len) \in Mirror
         /\ \A a \in Addr \ {SmStatus(0)} : MailboxOnSm0Write(e, ado, len)[a] = e[a]
         /\ \A a \in Addr \ {SmStatus(1)} : MailboxOnSm1Read(e, ado, len)[a] = e[a]
BY DEF MailboxOnSm0Write, MailboxOnSm1Read, Mirror, MBX_FULL

(* A reply goes into SM1's buffer and raises its status.                   *)
LEMMA MailboxWriteFacts ==
  ASSUME NEW e \in Mirror, NEW frame \in Seq(Nat)
  PROVE  /\ MailboxWriteSm1(e, frame) \in Mirror
         /\ IsMailbox(SmRead(e, 1)) =>
              \A a \in Addr \ {SmStatus(1)} :
                a < SmRead(e, 1).start => MailboxWriteSm1(e, frame)[a] = e[a]
         /\ ~IsMailbox(SmRead(e, 1)) => MailboxWriteSm1(e, frame) = e
<1> DEFINE sm == SmRead(e, 1)
           padded == [i \in 1 .. sm.length |->
                        IF i <= Len(frame) THEN frame[i] ELSE 0]
<1>1. sm.start \in Nat /\ sm.length \in Nat
  BY Registers DEF SmRead, Mirror, Addr
<1>2. padded \in Seq(Nat) /\ Len(padded) = sm.length
  BY <1>1
<1>3. ASSUME Sm1Accepts(e, frame)
      PROVE  /\ EscWrite(e, sm.start, padded) \in Mirror
             /\ \A a \in Addr :
                  a < sm.start => EscWrite(e, sm.start, padded)[a] = e[a]
  <2>0. sm.start + Len(padded) <= ESC_SIZE
    BY <1>2, <1>3 DEF Sm1Accepts
  <2>1. /\ EscWrite(e, sm.start, padded) \in Mirror
        /\ \A a \in Addr : EscWrite(e, sm.start, padded)[a] =
             IF a \in sm.start .. sm.start + Len(padded) - 1
             THEN padded[a - sm.start + 1] ELSE e[a]
    BY <1>1, <1>2, <2>0, EscWriteFacts
  <2>2. \A a \in Addr : a < sm.start => a \notin sm.start .. sm.start + Len(padded) - 1
    BY <1>1, EscSizeAssumption DEF Addr
  <2>3. QED
    BY <2>1, <2>2
<1>4. CASE Sm1Accepts(e, frame)
  <2>1. MailboxWriteSm1(e, frame) =
          [EscWrite(e, sm.start, padded) EXCEPT ![SmStatus(1)] = MBX_FULL]
    BY <1>4 DEF MailboxWriteSm1
  <2>2. IsMailbox(sm)
    BY <1>4 DEF Sm1Accepts
  <2>3. MBX_FULL \in Nat
    BY DEF MBX_FULL
  <2> DEFINE written == EscWrite(e, sm.start, padded)
  <2> HIDE DEF sm, padded, written
  <2>4. /\ MailboxWriteSm1(e, frame) \in Mirror
        /\ \A a \in Addr : a # SmStatus(1) => MailboxWriteSm1(e, frame)[a] = written[a]
    <3>1. written \in Mirror
      BY <1>3, <1>4 DEF written
    <3>2. MailboxWriteSm1(e, frame) = [written EXCEPT ![SmStatus(1)] = MBX_FULL]
      BY <2>1 DEF written
    <3>3. QED
      BY <2>3, <3>1, <3>2 DEF Mirror
  <2>5. QED
    BY <1>3, <1>4, <2>2, <2>4 DEF sm, written
<1>5. CASE ~Sm1Accepts(e, frame)
  BY <1>5 DEF MailboxWriteSm1
<1>6. QED
  BY <1>4, <1>5

(* ... from its first cell, when the buffer is above the registers.        *)
LEMMA MailboxWriteBuffer ==
  ASSUME NEW e \in Mirror, NEW frame \in Seq(Nat), Sm1Accepts(e, frame),
         SmRead(e, 1).start >= MBX_BASE
  PROVE  /\ MailboxWriteSm1(e, frame)[SmStatus(1)] = MBX_FULL
         /\ \A i \in 1 .. SmRead(e, 1).length :
              MailboxWriteSm1(e, frame)[SmRead(e, 1).start + i - 1] =
                IF i <= Len(frame) THEN frame[i] ELSE 0
<1> DEFINE sm == SmRead(e, 1)
           padded == [i \in 1 .. sm.length |->
                        IF i <= Len(frame) THEN frame[i] ELSE 0]
           written == EscWrite(e, sm.start, padded)
<1>1. sm.start \in Nat /\ sm.length \in Nat
  BY Registers DEF SmRead, Mirror, Addr
<1>2. padded \in Seq(Nat) /\ Len(padded) = sm.length
  BY <1>1
<1>3. sm.start + sm.length <= ESC_SIZE /\ sm.start >= 15
  BY Registers DEF Sm1Accepts
<1>4. MailboxWriteSm1(e, frame) = [written EXCEPT ![SmStatus(1)] = MBX_FULL]
  BY DEF MailboxWriteSm1
<1>5. \A i \in 1 .. sm.length : padded[i] = IF i <= Len(frame) THEN frame[i] ELSE 0
  OBVIOUS
<1> HIDE DEF sm, padded
<1>6. /\ written \in Mirror
      /\ \A a \in Addr : written[a] =
           IF a \in sm.start .. sm.start + sm.length - 1
           THEN padded[a - sm.start + 1] ELSE e[a]
  <2>1. sm.start + Len(padded) <= ESC_SIZE
    BY <1>2, <1>3
  <2>2. /\ written \in Mirror
        /\ \A a \in Addr : written[a] =
             IF a \in sm.start .. sm.start + Len(padded) - 1
             THEN padded[a - sm.start + 1] ELSE e[a]
    BY <1>1, <1>2, <2>1, EscWriteFacts
  <2>3. QED
    BY <1>2, <2>2
<1> HIDE DEF written
<1>7. \A i \in 1 .. sm.length :
        /\ sm.start + i - 1 \in Addr \ {SmStatus(1)}
        /\ sm.start + i - 1 \in sm.start .. sm.start + sm.length - 1
        /\ (sm.start + i - 1) - sm.start + 1 = i
  BY <1>1, <1>3, Registers DEF Addr
<1>8. SmStatus(1) \in Addr
  BY Registers DEF Addr
<1>9. QED
  BY <1>4, <1>5, <1>6, <1>7, <1>8 DEF Mirror, sm

(* One datagram: the mirror keeps its shape, and a register cell outside   *)
(* the range written changes only if it is one of those the slave owns.    *)
Owned == {ALSTAT, ALSTACODE, SmStatus(0), SmStatus(1)}

LEMMA ServeWriteFacts ==
  ASSUME NEW e \in Mirror, NEW dg \in Datagram, Served(e, dg)
  PROVE  /\ ServeWrite(e, dg) \in Mirror
         /\ \A a \in Addr \ Owned : ServeWrite(e, dg)[a] =
              IF a \in dg.ado .. dg.ado + Len(dg.data) - 1
              THEN dg.data[a - dg.ado + 1] ELSE e[a]
         /\ \A a \in {SmStatus(0), SmStatus(1)} :
              ~ /\ a = SmStatus(0) /\ dg.cmd = "FPWR"
                /\ CompletesMailbox(ServeWrite(e, dg), 0, dg.ado, Len(dg.data))
                => ServeWrite(e, dg)[a] =
                     IF a \in dg.ado .. dg.ado + Len(dg.data) - 1
                     THEN dg.data[a - dg.ado + 1] ELSE e[a]
<1> DEFINE written == EscWrite(e, dg.ado, dg.data)
           after == IF OverlapsAlCtl(dg) THEN AlOnControlWrite(written)
                                         ELSE written
           hooked == MailboxOnSm0Write(after, dg.ado, Len(dg.data))
<1>0. /\ dg.ado \in Nat /\ dg.data \in Seq(Nat) /\ Len(dg.data) \in Nat
      /\ dg.ado + Len(dg.data) <= ESC_SIZE
  BY DEF Datagram, Served, InMirror
<1>1. /\ written \in Mirror
      /\ \A a \in Addr : written[a] =
           IF a \in dg.ado .. dg.ado + Len(dg.data) - 1
           THEN dg.data[a - dg.ado + 1] ELSE e[a]
  BY <1>0, EscWriteFacts
<1>2. /\ after \in Mirror
      /\ \A a \in Addr \ {ALSTAT, ALSTACODE} : after[a] = written[a]
  <2> HIDE DEF written
  <2>1. QED
    BY <1>1, AlOnControlWriteFacts
<1> HIDE DEF written, after
<1>3. /\ hooked \in Mirror
      /\ \A a \in Addr \ {SmStatus(0)} : hooked[a] = after[a]
  BY <1>0, <1>2, MailboxHookFacts
<1>4. ServeWrite(e, dg) = IF dg.cmd = "FPWR" THEN hooked ELSE after
  BY DEF ServeWrite, written, after
<1>5. CompletesMailbox(hooked, 0, dg.ado, Len(dg.data)) \/ hooked = after
  <2>1. CASE CompletesMailbox(after, 0, dg.ado, Len(dg.data))
    <3>1. /\ hooked[5] = after[5] /\ hooked[6] = after[6]
          /\ hooked[7] = after[7] /\ hooked[9] = after[9]
      BY <1>3, Registers DEF Addr
    <3>2. QED
      <4> HIDE DEF hooked
      <4>1. QED
        BY <1>0, <1>2, <1>3, <2>1, <3>1, CompletesCells
  <2>2. CASE ~CompletesMailbox(after, 0, dg.ado, Len(dg.data))
    BY <2>2 DEF MailboxOnSm0Write
  <2>3. QED
    BY <2>1, <2>2
<1> HIDE DEF hooked
<1>6. /\ SmStatus(0) \in Addr \ {ALSTAT, ALSTACODE}
      /\ SmStatus(1) \in Addr \ {ALSTAT, ALSTACODE, SmStatus(0)}
  BY Registers DEF Addr
<1>7. QED
  BY <1>1, <1>2, <1>3, <1>4, <1>5, <1>6 DEF Owned

-----------------------------------------------------------------------------
(* The AL state machine.                                                   *)

AlWords == AlStates \cup {s + BIT4 : s \in AlStates}

LEMMA AlWordFields ==
  /\ \A s \in AlStates : /\ StateOf(s) = s /\ ~Bit4Of(s)
                         /\ StateOf(s + BIT4) = s /\ Bit4Of(s + BIT4)
  /\ \A w \in AlWords : w \in Nat /\ StateOf(w) \in AlStates
BY DEF AlWords, AlStates, StateOf, Bit4Of, BIT4, AL_INIT, AL_PREOP, AL_SAFEOP, AL_OP

(* From mirror e to mirror n the AL registers stand still, or make a step  *)
(* of the abstract machine.                                                *)
AlMove(e, n) ==
  LET cur == StateOf(e[ALSTAT])
  IN  \/ n[ALSTAT] = e[ALSTAT] /\ n[ALSTACODE] = e[ALSTACODE]
      \/ n[ALSTAT] = cur /\ n[ALSTACODE] = ERR_NONE
      \/ /\ n[ALSTAT] = cur + BIT4 /\ n[ALSTACODE] \in AlErrors
         /\ n[ALSTACODE] = ERR_MAILBOX_CFG => cur = AL_INIT
      \/ /\ n[ALSTAT] \in AlStates /\ n[ALSTACODE] = ERR_NONE
         /\ ValidTransition(cur, n[ALSTAT])

LEMMA AlControlMoves ==
  ASSUME NEW e \in Mirror, e[ALSTAT] \in AlWords
  PROVE  /\ AlOnControlWrite(e)[ALSTAT] \in AlWords
         /\ AlMove(e, AlOnControlWrite(e))
<1> DEFINE cur  == StateOf(e[ALSTAT])
           req  == StateOf(e[ALCTL])
           code == AlRefusal(e, cur, req)
           n    == AlOnControlWrite(e)
<1>1. cur \in AlStates
  BY AlWordFields
<1>2. ASSUME NEW st \in Nat, NEW cd \in Nat, n = WriteAlStatus(e, st, cd)
      PROVE  n[ALSTAT] = st /\ n[ALSTACODE] = cd
  BY <1>2, Registers DEF WriteAlStatus, Mirror, Addr
<1>3. /\ cur \in Nat /\ cur + BIT4 \in Nat /\ ERR_NONE \in Nat
      /\ cur \in AlWords /\ cur + BIT4 \in AlWords
  BY <1>1, AlWordFields DEF AlWords, BIT4, ERR_NONE, AlStates, AL_INIT,
     AL_PREOP, AL_SAFEOP, AL_OP
<1>4. CASE n = e
  BY <1>4 DEF AlMove
<1>5. CASE n = WriteAlStatus(e, cur, ERR_NONE)
  BY <1>2, <1>3, <1>5 DEF AlMove
<1>6. CASE n = WriteAlStatus(e, cur + BIT4, code) /\ code # ERR_NONE
  <2>1. code \in AlErrors /\ (code = ERR_MAILBOX_CFG => cur = AL_INIT)
    BY <1>6 DEF AlRefusal, AlErrors, ERR_NONE, ERR_BOOTSTRAP, ERR_STATE_CHANGE,
       ERR_MAILBOX_CFG
  <2>2. code \in Nat
    BY <2>1 DEF AlErrors, ERR_BOOTSTRAP, ERR_STATE_CHANGE, ERR_MAILBOX_CFG
  <2>3. QED
    BY <1>2, <1>3, <1>6, <2>1, <2>2 DEF AlMove
<1>7. CASE n = WriteAlStatus(e, req, ERR_NONE) /\ code = ERR_NONE
  <2>1. ValidTransition(cur, req)
    BY <1>7 DEF AlRefusal, ERR_NONE, ERR_BOOTSTRAP, ERR_STATE_CHANGE
  <2>2. req \in AlStates
    BY <2>1 DEF ValidTransition, AlStates
  <2>3. req \in Nat /\ req \in AlWords
    BY <2>2 DEF AlWords, AlStates, AL_INIT, AL_PREOP, AL_SAFEOP, AL_OP
  <2>4. QED
    BY <1>2, <1>3, <1>7, <2>1, <2>2, <2>3 DEF AlMove
<1>8. \/ n = e \/ n = WriteAlStatus(e, cur, ERR_NONE)
      \/ n = WriteAlStatus(e, cur + BIT4, code) /\ code # ERR_NONE
      \/ n = WriteAlStatus(e, req, ERR_NONE) /\ code = ERR_NONE
  BY DEF AlOnControlWrite
<1>9. QED
  BY <1>4, <1>5, <1>6, <1>7, <1>8

-----------------------------------------------------------------------------
(* What one datagram does to the mirror.                                   *)
LEMMA ProcessOneCases ==
  ASSUME NEW e \in Mirror, NEW dg \in Datagram
  PROVE  \/ ProcessOne(e, dg).esc = e
         \/ dg.cmd = "FPRD" /\ ProcessOne(e, dg).esc = ServeRead(e, dg)
         \/ /\ dg.cmd \in {"FPWR", "APWR"} /\ Served(e, dg)
            /\ ProcessOne(e, dg).esc = ServeWrite(e, dg)
<1>1. Served(e, dg) => dg.cmd \in {"FPRD", "FPWR", "APWR"}
  BY DEF Served, Addressed
<1>2. QED
  BY <1>1 DEF ProcessOne

LEMMA ServeReadFacts ==
  ASSUME NEW e \in Mirror, NEW dg \in Datagram
  PROVE  /\ ServeRead(e, dg) \in Mirror
         /\ \A a \in Addr \ {SmStatus(1)} : ServeRead(e, dg)[a] = e[a]
<1>1. dg.ado \in Nat /\ Len(dg.data) \in Nat
  BY DEF Datagram
<1>2. QED
  BY <1>1, MailboxHookFacts DEF ServeRead

(* A datagram that leaves AL Status alone moves it as the abstract machine *)
(* does, or not at all.                                                    *)
LEMMA ServeWriteMoves ==
  ASSUME NEW e \in Mirror, e[ALSTAT] \in AlWords,
         NEW dg \in Datagram, Served(e, dg),
         ALSTAT \notin dg.ado .. dg.ado + Len(dg.data) - 1,
         ALSTACODE \notin dg.ado .. dg.ado + Len(dg.data) - 1
  PROVE  /\ ServeWrite(e, dg)[ALSTAT] \in AlWords
         /\ AlMove(e, ServeWrite(e, dg))
<1> DEFINE written == EscWrite(e, dg.ado, dg.data)
           after == IF OverlapsAlCtl(dg) THEN AlOnControlWrite(written)
                                         ELSE written
           n == ServeWrite(e, dg)
<1>0. /\ dg.ado \in Nat /\ dg.data \in Seq(Nat) /\ Len(dg.data) \in Nat
      /\ dg.ado + Len(dg.data) <= ESC_SIZE
  BY DEF Datagram, Served, InMirror
<1>1. /\ written \in Mirror
      /\ written[ALSTAT] = e[ALSTAT] /\ written[ALSTACODE] = e[ALSTACODE]
  <2>1. ALSTAT \in Addr /\ ALSTACODE \in Addr
    BY Registers DEF Addr
  <2>2. /\ written \in Mirror
        /\ \A a \in Addr : written[a] =
             IF a \in dg.ado .. dg.ado + Len(dg.data) - 1
             THEN dg.data[a - dg.ado + 1] ELSE e[a]
    BY <1>0, EscWriteFacts
  <2> HIDE DEF written
  <2>3. QED
    BY <2>1, <2>2
<1>2. n = IF dg.cmd = "FPWR" THEN MailboxOnSm0Write(after, dg.ado, Len(dg.data))
                             ELSE after
  BY DEF ServeWrite
<1> HIDE DEF written, n
<1>3. AlOnControlWrite(written)[ALSTAT] \in AlWords
      /\ AlMove(written, AlOnControlWrite(written))
  BY <1>1, AlControlMoves
<1>4. after[ALSTAT] \in AlWords /\ AlMove(e, after)
  BY <1>1, <1>3 DEF AlMove
<1>5. after \in Mirror
  BY <1>1, AlOnControlWriteFacts
<1> HIDE DEF after
<1>6. n[ALSTAT] = after[ALSTAT] /\ n[ALSTACODE] = after[ALSTACODE]
  <2>1. ALSTAT \in Addr \ {SmStatus(0)} /\ ALSTACODE \in Addr \ {SmStatus(0)}
    BY Registers DEF Addr
  <2>2. QED
    BY <1>0, <1>2, <1>5, <2>1, MailboxHookFacts
<1>7. n[ALSTAT] \in AlWords /\ AlMove(e, n)
  BY <1>4, <1>6 DEF AlMove
<1>8. QED
  BY <1>7 DEF n

=============================================================================
