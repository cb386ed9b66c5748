--------------------------- MODULE Lan9252Proofs ---------------------------
(***************************************************************************)
(* The LAN9252 driver and the controller that polls through it, proved for *)
(* every map of registers, every span the application asks for, every      *)
(* depth of the FIFOs and any faults.                                      *)
(*                                                                         *)
(* The invariants, each with the ones before it:                           *)
(*   TInv  what every variable holds;                                      *)
(*   CInv  who asked the chip for what: a command, an engine and a reset   *)
(*         belong to the call in progress or to one that gave up;          *)
(*   WInv  where each byte of a write is: still in the call, in the CSR    *)
(*         data register, in the FIFO, or at its address;                  *)
(*   RInv  where each byte of a read is, and what the memory held there    *)
(*         since the call began;                                           *)
(*   AInv  AL Status and AL Event in the chip: each of one moment, and no  *)
(*         write on its way to them;                                       *)
(*   PInv  what the poll has seen of the two so far.                       *)
(* The last two take the registers to be apart (RegistersApart).           *)
(***************************************************************************)
EXTENDS Lan9252Slave, SequenceTheorems, TLAPS

LEMMA ChunkFits ==
  ASSUME NEW ado \in Nat, NEW len \in Nat \ {0}
  PROVE  /\ Chunk(ado, len) \in {1, 2, 4}
         /\ Chunk(ado, len) <= len
         /\ ado % Chunk(ado, len) = 0
<1>1. CASE ado % 2 = 1
  BY <1>1 DEF Chunk
<1>2. CASE ado % 2 # 1 /\ ado % 4 = 2
  <2>1. ado % 2 = 0
    BY <1>2
  <2> QED
    BY <1>2, <2>1 DEF Chunk
<1>3. CASE ado % 2 # 1 /\ ado % 4 # 2
  <2>1. ado % 2 = 0 /\ ado % 4 = 0
    BY <1>3
  <2>2. CASE len > 4
    BY <1>3, <2>1, <2>2 DEF Chunk
  <2>3. CASE len <= 4
    <3>1. len \in {1, 2, 3, 4}
      BY <2>3
    <3> QED
      BY <1>3, <2>1, <3>1 DEF Chunk
  <2> QED
    BY <2>2, <2>3
<1> QED
  BY <1>1, <1>2, <1>3

-----------------------------------------------------------------------------
(* The invariant of the types.  A byte that is anywhere carries a version  *)
(* already given out.                                                      *)
Kinds == {"read", "write"}
Old   == 0 .. version - 1
Bt    == ByteOf(Old)
Word  == [Place -> Bt]

CsrType    == [busy : BOOLEAN, kind : Kinds, ado : Nat, size : {1, 2, 4},
               data : Word]
EngineType == [status : {"idle", "abort", "run"}, ado : Nat, left : Nat,
               fifo : Seq(Word)]
CallType   == [kind : Kinds \cup {"none", "reset"}, ado : Nat, rest : Nat,
               data : Seq(Bt), held : Seq(Bt)]

ChipOK ==
  /\ mem \in [Cell -> Bt]
  /\ csr \in CsrType
  /\ csr.ado + csr.size <= MEM_SIZE /\ csr.ado % csr.size = 0
  /\ engine \in [Kinds -> EngineType]
  /\ \A k \in Kinds : /\ engine[k].ado + engine[k].left <= MEM_SIZE
                      /\ Len(engine[k].fifo) <= FIFO_DEPTH
  /\ resetting \in Old

Steps == InCsr \cup InPram
CallOK ==
  /\ call \in CallType
  /\ call.kind \in Kinds => call.ado + call.rest <= MEM_SIZE
  /\ call.kind = "read" => /\ Len(call.data) <= call.ado
                           /\ Len(call.held) = Len(call.data) + call.rest
  /\ call.kind = "write" => /\ call.rest <= Len(call.data)
                            /\ Len(call.data) - call.rest <= call.ado
                            /\ Len(call.data) # 0
  /\ call.kind = "reset" => call.ado \in Old
PcOK ==
  /\ pc \in Outcomes \cup Steps \cup {"rst", "rst_wait"}
  /\ pc \in Steps => call.kind \in Kinds /\ call.rest # 0
  /\ pc = "put" => call.kind = "write"
  /\ pc = "data" => call.kind = "read"
  /\ pc \in {"rst", "rst_wait"} => call.kind = "reset"
  /\ pc = "ok" /\ call.kind \in Kinds => call.rest = 0

StartOf == <<STADR, ALSTAT, ALEVENT, IN_OFFSET>>
SizeOf  == <<2, 2, 4, IN_LEN>>
StageOK ==
  /\ stage \in 1 .. 4 => /\ call.kind = "read"
                         /\ call.ado = StartOf[stage] + Len(call.data)
                         /\ SizeOf[stage] = Len(call.data) + call.rest
  /\ stage = 5 => call.kind = "write"

AppOK ==
  /\ faults \in 0 .. MaxFaults /\ version \in 1 .. MaxVersions + 1
  /\ out_buf \in Old
  /\ in_buf \in Seq(Bt) /\ Len(in_buf) = IN_LEN
  /\ mirror \in [{"status_adr", "al_status", "al_event"} -> Seq(Bt)]
  /\ stage \in 0 .. 5 /\ direct \in 0 .. MaxDirect
  /\ expect \in [Cell -> SUBSET Old]

TInv == ChipOK /\ CallOK /\ PcOK /\ StageOK /\ AppOK

LEMMA Sizes ==
  /\ PDRAM_BASE \in Nat /\ MEM_SIZE \in Nat /\ MEM_SIZE # 0
  /\ FIFO_DEPTH \in Nat /\ MaxFaults \in Nat /\ MaxVersions \in Nat
  /\ MaxDirect \in Nat /\ Cell \subseteq Nat
  /\ STADR \in Nat /\ ALSTAT \in Nat /\ ALEVENT \in Nat
  /\ IN_OFFSET \in Nat /\ OUT_OFFSET \in Nat
  /\ IN_LEN \in Nat /\ OUT_LEN \in Nat /\ IN_LEN # 0 /\ OUT_LEN # 0
  /\ STADR + 2 <= MEM_SIZE /\ ALSTAT + 2 <= MEM_SIZE /\ ALEVENT + 4 <= MEM_SIZE
  /\ IN_OFFSET + IN_LEN <= MEM_SIZE /\ OUT_OFFSET + OUT_LEN <= MEM_SIZE
<1>1. /\ PDRAM_BASE \in Nat /\ MEM_SIZE \in Nat /\ MEM_SIZE > PDRAM_BASE
      /\ FIFO_DEPTH \in Nat /\ MaxFaults \in Nat
  BY LanAssumption
<1>2. Cell \subseteq Nat
  BY <1>1 DEF Cell
<1>3. /\ STADR \in Nat /\ ALSTAT \in Nat /\ ALEVENT \in Nat
      /\ IN_OFFSET \in Nat /\ OUT_OFFSET \in Nat
  BY <1>2, SlaveAssumption
<1> QED
  BY <1>1, <1>2, <1>3, SlaveAssumption

(* Words and sequences of bytes.                                           *)
LEMMA InWordFacts ==
  ASSUME version \in Nat \ {0}, NEW s \in Seq(Bt), NEW place \in Place
  PROVE  /\ InWord(s, place) \in Word
         /\ \A i \in Place : i - place + 1 \in 1 .. Len(s) =>
              InWord(s, place)[i] = s[i - place + 1]
<1>1. Blank \in Bt
  BY DEF Blank, Byte, Bt, ByteOf, Old
<1> QED
  BY <1>1 DEF InWord, Word

LEMMA FromWordFacts ==
  ASSUME NEW w \in Word, NEW place \in Place, NEW n \in Nat, place + n <= 4
  PROVE  /\ FromWord(w, place, n) \in Seq(Bt)
         /\ Len(FromWord(w, place, n)) = n
         /\ \A i \in 1 .. n : FromWord(w, place, n)[i] = w[place + i - 1]
<1>1. \A i \in 1 .. n : place + i - 1 \in Place
  BY DEF Place
<1> QED
  BY <1>1 DEF FromWord, Word

LEMMA FetchFacts ==
  ASSUME mem \in [Cell -> Bt], NEW a \in Nat, NEW n \in Nat, a + n <= MEM_SIZE
  PROVE  /\ Fetch(a, n) \in Seq(Bt)
         /\ Len(Fetch(a, n)) = n
         /\ \A i \in 1 .. n : Fetch(a, n)[i] = mem[a + i - 1]
<1>1. \A i \in 1 .. n : a + i - 1 \in Cell
  BY Sizes DEF Cell
<1> QED
  BY <1>1 DEF Fetch

LEMMA StoredFacts ==
  ASSUME mem \in [Cell -> Bt], NEW s \in Seq(Bt), NEW a \in Nat
  PROVE  /\ Stored(a, s) \in [Cell -> Bt]
         /\ \A c \in Cell : Stored(a, s)[c] =
              IF c \in a .. a + Len(s) - 1 THEN s[c - a + 1] ELSE mem[c]
<1>1. \A c \in Cell : c - a + 1 \in DOMAIN s <=> c \in a .. a + Len(s) - 1
  BY Sizes
<1> QED
  BY <1>1 DEF Stored

LEMMA PendingFacts ==
  ASSUME call \in CallType, call.rest <= Len(call.data),
         NEW n \in Nat, n <= call.rest
  PROVE  /\ Pending(n) \in Seq(Bt)
         /\ Len(Pending(n)) = n
         /\ \A i \in 1 .. n :
              Pending(n)[i] = call.data[Len(call.data) - call.rest + i]
<1> DEFINE d == call.data
           k == Len(call.data) - call.rest
<1>1. d \in Seq(Bt) /\ Len(d) \in Nat /\ call.rest \in Nat
  BY DEF CallType
<1>2. k \in Nat /\ k + n <= Len(d)
  BY <1>1
<1>3. Pending(n) = SubSeq(d, k + 1, k + n)
  BY DEF Pending
<1> HIDE DEF d, k
<1>4. /\ SubSeq(d, k + 1, k + n) \in Seq(Bt)
      /\ Len(SubSeq(d, k + 1, k + n)) = n
      /\ \A i \in 1 .. n : SubSeq(d, k + 1, k + n)[i] = d[k + i]
  BY <1>1, <1>2
<1> QED
  BY <1>3, <1>4 DEF d, k

-----------------------------------------------------------------------------
LEMMA SameTypes ==
  ASSUME UNCHANGED version
  PROVE  /\ Old' = Old /\ Bt' = Bt /\ Word' = Word /\ CsrType' = CsrType
         /\ EngineType' = EngineType /\ CallType' = CallType
<1>1. Old' = Old
  BY DEF Old
<1>2. Bt' = Bt
  BY <1>1 DEF Bt
<1>3. Word' = Word
  BY <1>2 DEF Word
<1> QED
  BY <1>1, <1>2, <1>3 DEF CsrType, EngineType, CallType

(* How many bytes a word brings, and to which place.                       *)
LEMMA ShareFacts ==
  ASSUME CallOK, PcOK, pc \in Steps
  PROVE  /\ Lane \in Place /\ Share \in Nat /\ Share # 0
         /\ Share <= call.rest /\ Lane + Share <= 4
         /\ pc = "first" => Lane = call.ado % 4
         /\ pc # "first" => Lane = 0
         /\ Share = call.rest \/ Share = 4 - Lane
<1>1. call.rest \in Nat /\ call.rest # 0 /\ call.ado \in Nat
  BY DEF CallOK, PcOK, CallType
<1>2. call.ado % 4 \in Place
  BY <1>1 DEF Place
<1>3. /\ Lane \in Place
      /\ pc = "first" => Lane = call.ado % 4
      /\ pc # "first" => Lane = 0
  BY <1>2 DEF Lane, FirstPlace, Place
<1> QED
  BY <1>1, <1>3 DEF Share, Place

LEMMA ChunkNow ==
  ASSUME CallOK, PcOK, pc \in Steps
  PROVE  /\ Chunk(call.ado, call.rest) \in {1, 2, 4}
         /\ Chunk(call.ado, call.rest) \in Nat
         /\ Chunk(call.ado, call.rest) <= call.rest
         /\ call.ado % Chunk(call.ado, call.rest) = 0
<1>1. call.rest \in Nat \ {0} /\ call.ado \in Nat
  BY DEF CallOK, PcOK, CallType
<1> QED
  BY <1>1, ChunkFits

LEMMA TouchTypes ==
  ASSUME TInv, Touch \/ UNCHANGED chip, ChipKeepsUp, UNCHANGED version
  PROVE  ChipOK'
<1> DEFINE n == Chunk(call.ado, call.rest)
           k == call.kind
<1>0. /\ CsrType' = CsrType /\ EngineType' = EngineType /\ Bt' = Bt /\ Old' = Old
      /\ Word' = Word
  BY SameTypes
<1>1. /\ csr \in CsrType /\ call \in CallType
      /\ mem \in [Cell -> Bt] /\ resetting \in Old
      /\ csr.ado + csr.size <= MEM_SIZE /\ csr.ado % csr.size = 0
      /\ engine \in [Kinds -> EngineType]
      /\ \A q \in Kinds : /\ engine[q].ado + engine[q].left <= MEM_SIZE
                          /\ Len(engine[q].fifo) <= FIFO_DEPTH
  BY DEF TInv, ChipOK, CallOK
<1>2. version \in Nat \ {0}
  BY Sizes DEF TInv, AppOK
<1>3. CASE UNCHANGED chip
  BY <1>0, <1>1, <1>3 DEF ChipOK, chip
<1>4. CASE TouchCsr /\ UNCHANGED <<mem, engine, resetting>>
  <2>1. csr' \in CsrType /\ csr'.ado + csr'.size <= MEM_SIZE /\ csr'.ado % csr'.size = 0
    <3>1. CASE pc = "put"
      <4> DEFINE d == InWord(Pending(n), 0)
      <4>1. n \in Nat /\ n <= call.rest
        BY <3>1, ChunkNow DEF Steps, InCsr, TInv
      <4>2. call.rest <= Len(call.data)
        BY <3>1 DEF TInv, PcOK, CallOK
      <4>3. Pending(n) \in Seq(Bt)
        BY <1>1, <4>1, <4>2, PendingFacts
      <4>4. d \in Word
        BY <1>2, <4>3, InWordFacts DEF Place
      <4>5. csr' = [csr EXCEPT !.data = d]
        BY <1>4, <3>1 DEF TouchCsr
      <4> HIDE DEF d
      <4> QED
        BY <1>1, <4>4, <4>5 DEF CsrType
    <3>2. CASE pc = "cmd"
      <4>1. /\ n \in {1, 2, 4} /\ n <= call.rest /\ call.ado % n = 0
            /\ k \in Kinds /\ call.ado + call.rest <= MEM_SIZE
            /\ call.ado \in Nat /\ call.rest \in Nat
        BY <3>2, ChunkNow DEF Steps, InCsr, TInv, PcOK, CallOK, CallType
      <4>2. csr' = [csr EXCEPT !.busy = TRUE, !.kind = k, !.ado = call.ado,
                               !.size = n]
        BY <1>4, <3>2 DEF TouchCsr
      <4> HIDE DEF n, k
      <4>3. call.ado + n <= MEM_SIZE
        BY <4>1, Sizes
      <4> QED
        BY <1>1, <4>1, <4>2, <4>3 DEF CsrType
    <3> QED
      BY <1>4, <3>1, <3>2 DEF TouchCsr
  <2> QED
    BY <1>0, <1>1, <1>4, <2>1 DEF ChipOK
<1>5. CASE TouchEngine /\ UNCHANGED <<mem, csr, resetting>>
  <2>0. /\ pc \in InPram /\ k \in Kinds /\ call.ado + call.rest <= MEM_SIZE
        /\ call.ado \in Nat /\ call.rest \in Nat
    BY <1>5 DEF TouchEngine, InPram, TInv, PcOK, CallOK, CallType, Steps
  <2> DEFINE Fit(e) == /\ e \in EngineType /\ e.ado + e.left <= MEM_SIZE
                       /\ Len(e.fifo) <= FIFO_DEPTH
  <2>1. Fit(engine[k])
    BY <1>1, <2>0
  <2>2. \E e : Fit(e) /\ engine' = [engine EXCEPT ![k] = e]
    <3>1. CASE pc = "abort"
      <4> DEFINE e == [engine[k] EXCEPT !.status = "abort", !.fifo = <<>>]
      <4>1. engine' = [engine EXCEPT ![k] = e]
        BY <1>1, <1>5, <2>0, <3>1 DEF TouchEngine, EngineType
      <4> DEFINE f == <<>>
      <4>2. f \in Seq(Word) /\ Len(f) <= FIFO_DEPTH
        BY Sizes
      <4> HIDE DEF f
      <4>3. Fit([engine[k] EXCEPT !.status = "abort", !.fifo = f])
        BY <2>1, <4>2 DEF EngineType
      <4>4. Fit(e)
        BY <4>3 DEF f
      <4> QED
        BY <4>1, <4>4
    <3>2. CASE pc = "span"
      <4> DEFINE e == [engine[k] EXCEPT !.ado = call.ado, !.left = call.rest]
      <4>1. engine' = [engine EXCEPT ![k] = e]
        BY <1>1, <1>5, <2>0, <3>2 DEF TouchEngine, EngineType
      <4>2. Fit(e)
        BY <2>0, <2>1, Sizes DEF EngineType
      <4> QED
        BY <4>1, <4>2
    <3>3. CASE pc = "go"
      <4> DEFINE e == [engine[k] EXCEPT !.status = "run"]
      <4>1. engine' = [engine EXCEPT ![k] = e]
        BY <1>1, <1>5, <2>0, <3>3 DEF TouchEngine, EngineType
      <4>2. Fit(e)
        BY <2>1 DEF EngineType
      <4> QED
        BY <4>1, <4>2
    <3>4. CASE pc \in {"first", "burst"} /\ k = "read"
      <4> DEFINE f == Tail(engine[k].fifo)
                 e == [engine[k] EXCEPT !.fifo = f]
      <4>1. engine' = [engine EXCEPT ![k] = e]
        BY <1>1, <1>5, <2>0, <3>4 DEF TouchEngine, EngineType
      <4>2. engine[k].fifo # <<>>
        BY <3>4 DEF ChipKeepsUp, Space
      <4>3. engine[k].fifo \in Seq(Word) /\ Len(engine[k].fifo) <= FIFO_DEPTH
        BY <2>1 DEF EngineType
      <4>4. f \in Seq(Word) /\ Len(f) <= FIFO_DEPTH
        BY <4>2, <4>3, Sizes
      <4> HIDE DEF f
      <4>5. Fit(e)
        BY <2>1, <4>4 DEF EngineType
      <4> QED
        BY <4>1, <4>5
    <3>5. CASE pc \in {"first", "burst"} /\ k = "write"
      <4> DEFINE w == InWord(Pending(Share), Lane)
                 f == Append(engine[k].fifo, w)
                 e == [engine[k] EXCEPT !.fifo = f]
      <4>1. engine' = [engine EXCEPT ![k] = e]
        BY <1>1, <1>5, <2>0, <3>5 DEF TouchEngine, EngineType
      <4>2. Len(engine["write"].fifo) < FIFO_DEPTH
        BY <3>5 DEF ChipKeepsUp, Space
      <4>3. Lane \in Place /\ Share \in Nat /\ Share <= call.rest
        BY <2>0, ShareFacts DEF TInv, Steps
      <4>4. call.rest <= Len(call.data)
        BY <3>5 DEF TInv, CallOK
      <4>5. Pending(Share) \in Seq(Bt)
        BY <1>1, <4>3, <4>4, PendingFacts
      <4>6. w \in Word
        BY <1>2, <4>3, <4>5, InWordFacts
      <4> HIDE DEF w
      <4>7. engine[k].fifo \in Seq(Word) /\ Len(engine[k].fifo) < FIFO_DEPTH
        BY <2>1, <3>5, <4>2 DEF EngineType
      <4>8. f \in Seq(Word) /\ Len(f) <= FIFO_DEPTH
        BY <4>6, <4>7, Sizes
      <4> HIDE DEF f
      <4>9. Fit(e)
        BY <2>1, <4>8 DEF EngineType
      <4> QED
        BY <4>1, <4>9
    <3> QED
      BY <1>5, <2>0, <3>1, <3>2, <3>3, <3>4, <3>5 DEF TouchEngine, Kinds
  <2>3. PICK e : Fit(e) /\ engine' = [engine EXCEPT ![k] = e]
    BY <2>2
  <2>4. /\ engine' \in [Kinds -> EngineType]
        /\ \A q \in Kinds : /\ engine'[q].ado + engine'[q].left <= MEM_SIZE
                            /\ Len(engine'[q].fifo) <= FIFO_DEPTH
    BY <1>1, <2>0, <2>3
  <2> QED
    BY <1>0, <1>1, <1>5, <2>4 DEF ChipOK
<1>6. CASE pc = "rst" /\ resetting' = call.ado /\ UNCHANGED <<mem, csr, engine>>
  <2>1. call.ado \in Old
    BY <1>6 DEF TInv, PcOK, CallOK
  <2> QED
    BY <1>0, <1>1, <1>6, <2>1 DEF ChipOK
<1> QED
  BY <1>3, <1>4, <1>5, <1>6 DEF Touch

(* A chunk or a share that went through.                                   *)
LEMMA AdvanceFacts ==
  ASSUME CallOK, call.kind \in Kinds, UNCHANGED version,
         NEW n \in Nat, n <= call.rest, NEW got, Advance(n, got),
         call.kind = "read" => got \in Seq(Bt) /\ Len(got) = n
  PROVE  /\ CallOK'
         /\ call'.kind = call.kind /\ call'.held = call.held
         /\ call'.ado = call.ado + n /\ call'.rest = call.rest - n
         /\ call.kind = "read" => /\ call'.data = call.data \o got
                                  /\ Len(call'.data) = Len(call.data) + n
         /\ call.kind = "write" => call'.data = call.data
<1> DEFINE d == IF call.kind = "read" THEN call.data \o got ELSE call.data
<1>1. /\ call \in CallType /\ call.ado \in Nat /\ call.rest \in Nat
      /\ call.data \in Seq(Bt) /\ Len(call.data) \in Nat
      /\ CallType' = CallType
  <2>1. call \in CallType
    BY DEF CallOK
  <2>2. CallType' = CallType
    BY SameTypes
  <2>3. call.data \in Seq(Bt) /\ call.ado \in Nat /\ call.rest \in Nat
    BY <2>1 DEF CallType
  <2> QED
    BY <2>1, <2>2, <2>3
<1>2. /\ d \in Seq(Bt)
      /\ call.kind = "read" => Len(d) = Len(call.data) + n
      /\ call.kind = "write" => d = call.data
  BY <1>1, ConcatProperties DEF Kinds
<1>3. call' = [call EXCEPT !.ado = @ + n, !.rest = @ - n, !.data = d]
  BY DEF Advance
<1>4. /\ call' \in CallType
      /\ call'.kind = call.kind /\ call'.held = call.held
      /\ call'.ado = call.ado + n /\ call'.rest = call.rest - n
      /\ call'.data = d
  <2> HIDE DEF d
  <2>1. call.ado + n \in Nat /\ call.rest - n \in Nat
    BY <1>1
  <2> QED
    BY <1>1, <1>2, <1>3, <2>1 DEF CallType
<1>5. CallOK'
  <2> HIDE DEF d
  <2>1. /\ call.ado + call.rest <= MEM_SIZE
        /\ call.kind = "read" => /\ Len(call.data) <= call.ado
                                 /\ Len(call.held) = Len(call.data) + call.rest
        /\ call.kind = "write" => /\ call.rest <= Len(call.data)
                                  /\ Len(call.data) - call.rest <= call.ado
                                  /\ Len(call.data) # 0
    BY DEF CallOK
  <2>2. (call.ado + n) + (call.rest - n) = call.ado + call.rest
    BY <1>1
  <2>3. call.kind = "read" => /\ Len(d) <= call.ado + n
                              /\ Len(call.held) = Len(d) + (call.rest - n)
    <3> SUFFICES ASSUME call.kind = "read"
                 PROVE  /\ Len(d) <= call.ado + n
                        /\ Len(call.held) = Len(d) + (call.rest - n)
      OBVIOUS
    <3>1. Len(d) = Len(call.data) + n
      BY <1>2
    <3>2. /\ Len(call.data) <= call.ado
          /\ Len(call.held) = Len(call.data) + call.rest
      BY <2>1
    <3> QED
      BY <1>1, <3>1, <3>2
  <2>4. call.kind = "write" => /\ call.rest - n <= Len(d)
                               /\ Len(d) - (call.rest - n) <= call.ado + n
                               /\ Len(d) # 0
    <3> SUFFICES ASSUME call.kind = "write"
                 PROVE  /\ call.rest - n <= Len(d)
                        /\ Len(d) - (call.rest - n) <= call.ado + n
                        /\ Len(d) # 0
      OBVIOUS
    <3>1. /\ d = call.data /\ call.rest <= Len(call.data)
          /\ Len(call.data) - call.rest <= call.ado /\ Len(call.data) # 0
      <4>1. d = call.data
        BY <1>2
      <4> QED
        BY <2>1, <4>1
    <3>2. /\ call.rest - n <= Len(call.data)
          /\ Len(call.data) - (call.rest - n) <= call.ado + n
      BY <1>1, <3>1
    <3> QED
      BY <3>1, <3>2
  <2> QED
    BY <1>1, <1>4, <2>1, <2>2, <2>3, <2>4 DEF CallOK, Kinds
<1> QED
  BY <1>2, <1>4, <1>5

LEMMA MoveTypes ==
  ASSUME TInv, Move, ChipKeepsUp, UNCHANGED <<version, stage>>
  PROVE  CallOK' /\ PcOK' /\ StageOK'
<1> DEFINE n == Chunk(call.ado, call.rest)
<1>0. CallOK /\ PcOK /\ StageOK /\ UNCHANGED version /\ call \in CallType
  BY DEF TInv, CallOK
<1>1. ASSUME NEW next, Goto(next),
             next \in Outcomes \cup Steps \cup {"rst", "rst_wait"},
             next \in Steps => pc \in Steps,
             next # "put", next = "data" => call.kind = "read",
             next = "rst_wait" => pc = "rst", next # "rst",
             next = "ok" => pc \in {"rst", "rst_wait"}
      PROVE  CallOK' /\ PcOK' /\ StageOK'
  <2>1. CallOK'
    BY <1>0, <1>1, SameTypes DEF Goto, CallOK, Old
  <2>2. StageOK'
    BY <1>0, <1>1 DEF Goto, StageOK
  <2>3. PcOK'
    BY <1>0, <1>1 DEF Goto, PcOK, Kinds, Outcomes, Steps, InCsr, InPram
  <2> QED
    BY <2>1, <2>2, <2>3
<1>2. ASSUME NEW m \in Nat, m <= call.rest, NEW got, Advance(m, got),
             pc \in Steps, NEW next, After(m, next),
             next = "put" => call.kind = "write",
             next \in {"put", "cmd", "header", "burst"},
             call.kind = "read" => got \in Seq(Bt) /\ Len(got) = m
      PROVE  CallOK' /\ PcOK' /\ StageOK'
  <2>1. call.kind \in Kinds /\ call.rest \in Nat /\ call.ado \in Nat
    BY <1>0, <1>2 DEF PcOK, CallType
  <2>2. /\ CallOK'
        /\ call'.kind = call.kind /\ call'.ado = call.ado + m
        /\ call'.rest = call.rest - m
        /\ call.kind = "read" => Len(call'.data) = Len(call.data) + m
    BY <1>0, <1>2, <2>1, AdvanceFacts
  <2>3. /\ call.rest = m => call'.rest = 0
        /\ call.rest # m => call'.rest # 0
    BY <2>1, <2>2
  <2>4. PcOK'
    BY <1>2, <2>1, <2>2, <2>3
       DEF PcOK, After, Outcomes, Steps, InCsr, InPram, Kinds
  <2>5. StageOK'
    <3>1. CASE stage \in 1 .. 4
      <4>1. /\ call.kind = "read" /\ call.ado = StartOf[stage] + Len(call.data)
            /\ SizeOf[stage] = Len(call.data) + call.rest
        BY <1>0, <3>1 DEF StageOK
      <4>2. StartOf[stage] \in Nat /\ Len(call.data) \in Nat
        BY <1>0, <3>1, Sizes DEF StartOf, CallType
      <4>3. /\ call'.ado = StartOf[stage] + Len(call'.data)
            /\ SizeOf[stage] = Len(call'.data) + call'.rest
        <5>1. /\ call'.ado = call.ado + m /\ call'.rest = call.rest - m
              /\ Len(call'.data) = Len(call.data) + m
          BY <2>2, <4>1
        <5> QED
          BY <1>2, <2>1, <4>1, <4>2, <5>1
      <4> QED
        BY <2>2, <3>1, <4>1, <4>3 DEF StageOK
    <3>2. CASE stage \notin 1 .. 4
      BY <1>0, <2>2, <3>2 DEF StageOK
    <3> QED
      BY <3>1, <3>2
  <2> QED
    BY <2>2, <2>4, <2>5
<1>3. CASE MoveCsr
  <2>1. pc \in Steps /\ call.kind \in Kinds
    BY <1>0, <1>3 DEF MoveCsr, PcOK, Steps, InCsr
  <2>2. n \in Nat /\ n <= call.rest /\ n <= 4
    BY <1>0, <2>1, ChunkNow
  <2> HIDE DEF n
  <2>3. CASE pc = "put" /\ Goto("cmd")
    BY <1>1, <2>1, <2>3 DEF Steps, InCsr, InPram, Outcomes
  <2>4. CASE pc = "cmd" /\ Goto("wait")
    BY <1>1, <2>1, <2>4 DEF Steps, InCsr, InPram, Outcomes
  <2>5. CASE pc = "wait" /\ call.kind = "read" /\ Goto("data")
    BY <1>1, <2>1, <2>5 DEF Steps, InCsr, InPram, Outcomes
  <2>6. CASE pc = "wait" /\ call.kind = "write" /\ Advance(n, <<>>) /\ After(n, "put")
    BY <1>2, <2>1, <2>2, <2>6
  <2>7. CASE pc = "data" /\ Advance(n, FromWord(csr.data, 0, n)) /\ After(n, "cmd")
    <3>1. csr.data \in Word
      BY DEF TInv, ChipOK, CsrType
    <3>2. FromWord(csr.data, 0, n) \in Seq(Bt) /\ Len(FromWord(csr.data, 0, n)) = n
      <4>1. 0 \in Place /\ 0 + n <= 4
        BY <2>2 DEF Place
      <4> QED
        BY <2>2, <3>1, <4>1, FromWordFacts
    <3> QED
      BY <1>2, <2>1, <2>2, <2>7, <3>2
  <2> QED
    BY <1>3, <2>3, <2>4, <2>5, <2>6, <2>7 DEF MoveCsr, n
<1>4. CASE MovePram
  <2>1. pc \in Steps /\ call.kind \in Kinds
    BY <1>0, <1>4 DEF MovePram, PcOK, Steps, InPram
  <2>2. CASE pc \in {"first", "burst"}
    <3>1. /\ Lane \in Place /\ Share \in Nat /\ Share <= call.rest
          /\ Lane + Share <= 4
      BY <1>0, <2>1, ShareFacts
    <3> DEFINE f == engine["read"].fifo
               got == IF call.kind = "read" THEN FromWord(Head(f), Lane, Share)
                                            ELSE <<>>
    <3>2. call.kind = "read" => got \in Seq(Bt) /\ Len(got) = Share
      <4> SUFFICES ASSUME call.kind = "read"
                   PROVE  got \in Seq(Bt) /\ Len(got) = Share
        OBVIOUS
      <4>1. f \in Seq(Word) /\ f # <<>>
        BY <2>2 DEF TInv, ChipOK, EngineType, ChipKeepsUp, Space, Kinds
      <4>2. Head(f) \in Word
        BY <4>1
      <4> HIDE DEF f
      <4> QED
        BY <3>1, <4>2, FromWordFacts
    <3>3. Advance(Share, got)
      BY <1>4, <2>2 DEF MovePram
    <3>4. After(Share, IF pc = "first" THEN "header" ELSE "burst")
      BY <1>4, <2>2 DEF MovePram
    <3> HIDE DEF got
    <3>5. After(Share, "header") \/ After(Share, "burst")
      BY <3>4
    <3> QED
      BY <1>2, <2>1, <3>1, <3>2, <3>3, <3>5
  <2>3. CASE pc \notin {"first", "burst"}
    <3>1. \E next \in InPram : Goto(next)
      BY <1>4, <2>3 DEF MovePram, InPram
    <3> QED
      BY <1>1, <2>1, <3>1 DEF Steps, InPram, Outcomes
  <2> QED
    BY <2>2, <2>3
<1>5. CASE MoveReset
  BY <1>1, <1>5 DEF MoveReset, Steps, InCsr, InPram, Outcomes
<1> QED
  BY <1>3, <1>4, <1>5 DEF Move

LEMMA AccessTypes == ASSUME TInv, Access PROVE TInv'
<1>1. /\ Touch \/ UNCHANGED chip
      /\ ChipKeepsUp /\ UNCHANGED <<controller, application>>
  BY DEF Access, Transact, Fail
<1>2. /\ UNCHANGED <<version, stage, out_buf, in_buf, mirror, direct, expect>>
  BY <1>1 DEF controller, application
<1>3. ChipOK'
  BY <1>1, <1>2, TouchTypes
<1>4. /\ Old' = Old /\ Bt' = Bt /\ CallType' = CallType
  BY <1>2, SameTypes
<1>5. faults' \in 0 .. MaxFaults
  BY Sizes DEF Access, Transact, Fail, TInv, AppOK
<1>6. AppOK'
  BY <1>2, <1>4, <1>5 DEF AppOK, TInv
<1>7. CASE Transact
  BY <1>1, <1>2, <1>3, <1>6, <1>7, MoveTypes DEF Transact, TInv
<1>8. CASE Fail
  <2>1. CallOK' /\ StageOK'
    BY <1>2, <1>4, <1>8 DEF Fail, TInv, CallOK, StageOK
  <2>2. PcOK'
    BY <1>8 DEF Fail, PcOK, Outcomes, Steps, InCsr, InPram
  <2> QED
    BY <1>3, <1>6, <2>1, <2>2 DEF TInv
<1> QED
  BY <1>7, <1>8 DEF Access

LEMMA HandledFacts ==
  ASSUME NEW e \in EngineType
  PROVE  /\ e.ado % 4 \in Place /\ Handled(e) \in Nat
         /\ Handled(e) <= e.left /\ (e.ado % 4) + Handled(e) <= 4
         /\ Handled(e) = e.left \/ Handled(e) = 4 - (e.ado % 4)
<1>1. e.ado \in Nat /\ e.left \in Nat
  BY DEF EngineType
<1>2. e.ado % 4 \in Place
  BY <1>1 DEF Place
<1> DEFINE l == e.ado % 4
<1>3. l \in 0 .. 3
  BY <1>2 DEF Place
<1>4. Handled(e) = IF 4 - l > e.left THEN e.left ELSE 4 - l
  BY DEF Handled
<1> HIDE DEF l
<1>5. /\ Handled(e) \in Nat
      /\ Handled(e) <= e.left /\ l + Handled(e) <= 4
      /\ Handled(e) = e.left \/ Handled(e) = 4 - l
  BY <1>1, <1>3, <1>4
<1>6. e.ado % 4 = l
  BY DEF l
<1> QED
  BY <1>2, <1>5, <1>6

LEMMA RanType ==
  ASSUME NEW e \in EngineType, e.ado + e.left <= MEM_SIZE, NEW f \in Seq(Word)
  PROVE  /\ Ran(e, f) \in EngineType
         /\ Ran(e, f).ado = e.ado + Handled(e)
         /\ Ran(e, f).left = e.left - Handled(e)
         /\ Ran(e, f).ado + Ran(e, f).left = e.ado + e.left
         /\ Ran(e, f).fifo = f
         /\ Ran(e, f).status \in {"idle", e.status}
<1> DEFINE h == Handled(e)
           st == IF e.left = h THEN "idle" ELSE e.status
<1>1. h \in Nat /\ h <= e.left /\ e.ado \in Nat /\ e.left \in Nat
  BY HandledFacts DEF EngineType
<1>2. Ran(e, f) = [e EXCEPT !.ado = @ + h, !.left = @ - h, !.fifo = f, !.status = st]
  BY DEF Ran, EngineType
<1>3. st \in {"idle", e.status} /\ e.status \in {"idle", "abort", "run"}
  BY DEF EngineType
<1> HIDE DEF h, st
<1>4. e.ado + h \in Nat /\ e.left - h \in Nat
      /\ (e.ado + h) + (e.left - h) = e.ado + e.left
  BY <1>1
<1>5. /\ Ran(e, f) \in EngineType /\ Ran(e, f).ado = e.ado + h
      /\ Ran(e, f).left = e.left - h /\ Ran(e, f).fifo = f
      /\ Ran(e, f).status = st
  BY <1>2, <1>3, <1>4 DEF EngineType
<1> QED
  BY <1>3, <1>4, <1>5 DEF h

LEMMA IdleTypes ==
  ASSUME version \in Nat \ {0}
  PROVE  IdleEngine \in EngineType /\ IdleCsr \in CsrType
<1>1. InWord(<<>>, 0) \in Word
  <2>1. <<>> \in Seq(Bt) /\ 0 \in Place
    BY DEF Place
  <2> QED
    BY <2>1, InWordFacts
<1> QED
  BY <1>1 DEF IdleEngine, IdleCsr, EngineType, CsrType, Kinds

LEMMA WipedType ==
  ASSUME NEW v \in Old
  PROVE  Wiped(v) \in [Cell -> Bt]
BY DEF Wiped, Byte, Bt, ByteOf

LEMMA ChipTypes == ASSUME TInv, Chip PROVE TInv'
<1>0. /\ UNCHANGED <<driver, controller, application>>
  BY DEF Chip, ChipStep, ChipCsr, ChipAbort, ChipFill, ChipDrain, ChipReset
<1>1. /\ CsrType' = CsrType /\ EngineType' = EngineType /\ Bt' = Bt /\ Old' = Old
      /\ CallType' = CallType
  BY <1>0, SameTypes DEF application
<1>2. CallOK' /\ PcOK' /\ StageOK' /\ AppOK'
  <2>1. UNCHANGED <<call, pc, faults, in_buf, mirror, stage, since, last, direct,
                    version, out_buf, expect>>
    BY <1>0 DEF driver, controller, application
  <2>2. CallOK' /\ PcOK' /\ StageOK'
    BY <1>1, <2>1 DEF TInv, CallOK, PcOK, StageOK
  <2>3. AppOK'
    BY <1>1, <2>1 DEF TInv, AppOK
  <2> QED
    BY <2>2, <2>3
<1>3. /\ csr \in CsrType
      /\ mem \in [Cell -> Bt] /\ resetting \in Old
      /\ csr.ado + csr.size <= MEM_SIZE /\ csr.ado % csr.size = 0
      /\ engine \in [Kinds -> EngineType]
      /\ \A q \in Kinds : /\ engine[q].ado + engine[q].left <= MEM_SIZE
                          /\ Len(engine[q].fifo) <= FIFO_DEPTH
  BY DEF TInv, ChipOK
<1>4. version \in Nat \ {0}
  BY Sizes DEF TInv, AppOK
<1>5. CASE ChipCsr
  <2>0. /\ csr.ado \in Nat /\ csr.size \in Nat /\ csr.size <= 4
        /\ csr.data \in Word
    BY <1>3 DEF CsrType
  <2>1. CASE csr.kind = "read"
    <3> DEFINE d == InWord(Fetch(csr.ado, csr.size), 0)
    <3>1. Fetch(csr.ado, csr.size) \in Seq(Bt)
      BY <1>3, <2>0, FetchFacts
    <3>2. d \in Word
      BY <1>4, <3>1, InWordFacts DEF Place
    <3>3. csr' = [csr EXCEPT !.busy = FALSE, !.data = d] /\ UNCHANGED mem
      BY <1>5, <2>1 DEF ChipCsr
    <3> HIDE DEF d
    <3>4. csr' \in CsrType /\ csr'.ado = csr.ado /\ csr'.size = csr.size
      BY <1>3, <3>2, <3>3 DEF CsrType
    <3> QED
      BY <1>1, <1>2, <1>3, <1>5, <3>3, <3>4 DEF ChipCsr, TInv, ChipOK
  <2>2. CASE csr.kind # "read"
    <3> DEFINE s == FromWord(csr.data, 0, csr.size)
    <3>1. 0 \in Place /\ 0 + csr.size <= 4
      BY <2>0 DEF Place
    <3>2. s \in Seq(Bt)
      BY <2>0, <3>1, FromWordFacts
    <3> HIDE DEF s
    <3>3. Stored(csr.ado, s) \in [Cell -> Bt]
      BY <1>3, <2>0, <3>2, StoredFacts
    <3>4. mem' \in [Cell -> Bt]
      BY <1>5, <2>2, <3>3 DEF ChipCsr, s
    <3>5. csr' = [csr EXCEPT !.busy = FALSE]
      BY <1>5, <2>2 DEF ChipCsr
    <3>6. csr' \in CsrType /\ csr'.ado = csr.ado /\ csr'.size = csr.size
      BY <1>3, <3>5 DEF CsrType
    <3> QED
      BY <1>1, <1>2, <1>3, <1>5, <3>4, <3>6 DEF ChipCsr, TInv, ChipOK
  <2> QED
    BY <2>1, <2>2
<1>6. ASSUME NEW k \in Kinds, NEW e \in EngineType, e.ado + e.left <= MEM_SIZE,
             Len(e.fifo) <= FIFO_DEPTH, engine' = [engine EXCEPT ![k] = e],
             mem' \in [Cell -> Bt], UNCHANGED <<csr, resetting>>
      PROVE  TInv'
  <2>1. /\ engine' \in [Kinds -> EngineType]
        /\ \A q \in Kinds : /\ engine'[q].ado + engine'[q].left <= MEM_SIZE
                            /\ Len(engine'[q].fifo) <= FIFO_DEPTH
    BY <1>3, <1>6
  <2> QED
    BY <1>1, <1>2, <1>3, <1>6, <2>1 DEF TInv, ChipOK
<1>7. CASE ChipAbort
  <2>1. PICK k \in Kinds : engine' = [engine EXCEPT ![k] = IdleEngine]
    BY <1>7 DEF ChipAbort, Kinds
  <2>2. /\ IdleEngine \in EngineType /\ Len(IdleEngine.fifo) <= FIFO_DEPTH
        /\ IdleEngine.ado + IdleEngine.left <= MEM_SIZE
    BY <1>4, IdleTypes, Sizes DEF IdleEngine
  <2> QED
    BY <1>3, <1>6, <1>7, <2>1, <2>2 DEF ChipAbort
<1>8. CASE ChipFill
  <2> DEFINE e == engine["read"]
             w == InWord(Fetch(e.ado, Handled(e)), e.ado % 4)
             f == Append(e.fifo, w)
  <2>1. e \in EngineType /\ e.ado + e.left <= MEM_SIZE
    BY <1>3 DEF Kinds
  <2>2. /\ Handled(e) \in Nat /\ Handled(e) <= e.left /\ e.ado % 4 \in Place
        /\ e.ado \in Nat /\ e.left \in Nat
    BY <2>1, HandledFacts DEF EngineType
  <2>3. e.ado + Handled(e) <= MEM_SIZE
    BY <2>1, <2>2, Sizes
  <2>4. Fetch(e.ado, Handled(e)) \in Seq(Bt)
    BY <1>3, <2>2, <2>3, FetchFacts
  <2>5. w \in Word
    BY <1>4, <2>2, <2>4, InWordFacts
  <2>6. Len(e.fifo) < FIFO_DEPTH /\ engine' = [engine EXCEPT !["read"] = Ran(e, f)]
    BY <1>8 DEF ChipFill
  <2> HIDE DEF w
  <2>7. f \in Seq(Word) /\ Len(f) <= FIFO_DEPTH
    BY <2>1, <2>5, <2>6, Sizes DEF EngineType
  <2> HIDE DEF f, e
  <2>8. /\ Ran(e, f) \in EngineType /\ Ran(e, f).fifo = f
        /\ Ran(e, f).ado + Ran(e, f).left <= MEM_SIZE
    BY <2>1, <2>7, RanType
  <2> QED
    BY <1>3, <1>6, <1>8, <2>6, <2>7, <2>8 DEF ChipFill, Kinds
<1>9. CASE ChipDrain
  <2> DEFINE e == engine["write"]
             s == FromWord(Head(e.fifo), e.ado % 4, Handled(e))
             f == Tail(e.fifo)
  <2>1. e \in EngineType /\ e.ado + e.left <= MEM_SIZE /\ Len(e.fifo) <= FIFO_DEPTH
    BY <1>3 DEF Kinds
  <2>2. /\ Handled(e) \in Nat /\ e.ado % 4 \in Place /\ (e.ado % 4) + Handled(e) <= 4
        /\ e.ado \in Nat /\ e.fifo \in Seq(Word)
    BY <2>1, HandledFacts DEF EngineType
  <2>3. /\ e.fifo # <<>> /\ engine' = [engine EXCEPT !["write"] = Ran(e, f)]
        /\ mem' = Stored(e.ado, s) /\ UNCHANGED <<csr, resetting>>
    BY <1>9 DEF ChipDrain
  <2>4. Head(e.fifo) \in Word /\ f \in Seq(Word) /\ Len(f) <= FIFO_DEPTH
    BY <2>1, <2>2, <2>3, Sizes
  <2>5. s \in Seq(Bt)
    BY <2>2, <2>4, FromWordFacts
  <2> HIDE DEF s, f, e
  <2>6. mem' \in [Cell -> Bt]
    BY <1>3, <2>2, <2>3, <2>5, StoredFacts
  <2>7. /\ Ran(e, f) \in EngineType /\ Ran(e, f).fifo = f
        /\ Ran(e, f).ado + Ran(e, f).left <= MEM_SIZE
    BY <2>1, <2>4, RanType
  <2> QED
    BY <1>6, <2>3, <2>4, <2>6, <2>7 DEF Kinds
<1>10. CASE ChipReset
  <2>1. /\ mem' = Wiped(resetting) /\ csr' = IdleCsr /\ resetting' = 0
        /\ engine' = [k \in Kinds |-> IdleEngine]
    BY <1>10 DEF ChipReset, Kinds
  <2>2. /\ IdleEngine \in EngineType /\ Len(IdleEngine.fifo) <= FIFO_DEPTH
        /\ IdleEngine.ado + IdleEngine.left <= MEM_SIZE
        /\ IdleCsr \in CsrType /\ IdleCsr.ado + IdleCsr.size <= MEM_SIZE
        /\ IdleCsr.ado % IdleCsr.size = 0
    <3>1. /\ IdleEngine.fifo = <<>> /\ IdleEngine.ado = 0 /\ IdleEngine.left = 0
          /\ IdleCsr.ado = 0 /\ IdleCsr.size = 1
      BY DEF IdleEngine, IdleCsr
    <3> QED
      BY <1>4, <3>1, IdleTypes, Sizes
  <2>3. mem' \in [Cell -> Bt]
    BY <1>3, <2>1, WipedType
  <2>4. 0 \in Old
    BY <1>4 DEF Old
  <2> HIDE DEF Kinds
  <2> QED
    BY <1>1, <1>2, <2>1, <2>2, <2>3, <2>4 DEF TInv, ChipOK
<1> QED
  BY <1>5, <1>7, <1>8, <1>9, <1>10 DEF Chip, ChipStep

LEMMA GrowTypes ==
  ASSUME version \in Nat, version' \in {version, version + 1}
  PROVE  /\ Old \subseteq Old' /\ Bt \subseteq Bt' /\ Seq(Bt) \subseteq Seq(Bt')
         /\ Word \subseteq Word'
         /\ CsrType \subseteq CsrType' /\ EngineType \subseteq EngineType'
         /\ CallType \subseteq CallType'
         /\ [Cell -> Bt] \subseteq [Cell -> Bt']
<1>1. Old \subseteq Old'
  <2>1. CASE version' = version
    BY <2>1 DEF Old
  <2>2. CASE version' = version + 1
    BY <2>2 DEF Old
  <2> QED
    BY <2>1, <2>2
<1>2. Bt \subseteq Bt'
  BY <1>1 DEF Bt, ByteOf
<1>3. Word \subseteq Word'
  BY <1>2 DEF Word
<1>4. Seq(Bt) \subseteq Seq(Bt') /\ Seq(Word) \subseteq Seq(Word')
  BY <1>2, <1>3
<1>5. CsrType \subseteq CsrType'
  BY <1>3 DEF CsrType
<1>6. EngineType \subseteq EngineType'
  BY <1>4 DEF EngineType
<1>7. CallType \subseteq CallType'
  BY <1>4 DEF CallType
<1>8. [Cell -> Bt] \subseteq [Cell -> Bt']
  BY <1>2
<1> QED
  BY <1>1, <1>2, <1>3, <1>4, <1>5, <1>6, <1>7, <1>8

(* What a call may be given, with data of the versions V.                  *)
Fits(c, V) ==
  /\ c \in [kind : Kinds \cup {"reset"}, ado : Nat, rest : Nat,
            data : Seq(ByteOf(V)), held : Seq(ByteOf(V))]
  /\ c.kind \in Kinds => c.ado + c.rest <= MEM_SIZE /\ c.rest # 0
  /\ c.kind = "read" => c.data = <<>>
  /\ c.kind = "write" => c.rest = Len(c.data) /\ c.data[1].ver \in V
  /\ c.kind = "reset" => c.ado \in V

LEMMA BytesFacts ==
  ASSUME NEW V, NEW ado \in Nat, NEW len \in Nat, ado + len <= MEM_SIZE, NEW v \in V
  PROVE  /\ Bytes(ado, len, v) \in Seq(ByteOf(V))
         /\ Len(Bytes(ado, len, v)) = len
         /\ \A i \in 1 .. len : Bytes(ado, len, v)[i] = Byte(ado + i - 1, v)
<1>1. \A i \in 1 .. len : Byte(ado + i - 1, v) \in ByteOf(V)
  BY Sizes DEF Byte, ByteOf, Cell
<1> QED
  BY <1>1 DEF Bytes

LEMMA ReadFits ==
  ASSUME NEW V, NEW ado \in Nat, NEW len \in Nat \ {0}, ado + len <= MEM_SIZE
  PROVE  Fits(ReadCall(ado, len), V)
BY DEF Fits, ReadCall, Kinds

LEMMA WriteFits ==
  ASSUME NEW V, NEW ado \in Nat, NEW len \in Nat \ {0}, ado + len <= MEM_SIZE,
         NEW v \in V
  PROVE  Fits(WriteCall(ado, Bytes(ado, len, v)), V)
<1> DEFINE b == Bytes(ado, len, v)
<1>1. b \in Seq(ByteOf(V)) /\ Len(b) = len /\ b[1].ver = v
  <2>1. /\ b \in Seq(ByteOf(V)) /\ Len(b) = len
        /\ \A i \in 1 .. len : b[i] = Byte(ado + i - 1, v)
    BY BytesFacts
  <2> HIDE DEF b
  <2>2. 1 \in 1 .. len
    OBVIOUS
  <2>3. b[1] = Byte(ado + 1 - 1, v)
    BY <2>1, <2>2
  <2> QED
    BY <2>1, <2>3 DEF Byte
<1> HIDE DEF b
<1>2. WriteCall(ado, b) = [kind |-> "write", ado |-> ado, rest |-> len,
                           data |-> b, held |-> <<>>]
  BY <1>1 DEF WriteCall
<1>3. Fits(WriteCall(ado, b), V)
  BY <1>1, <1>2 DEF Fits, Kinds
<1> QED
  BY <1>3 DEF b

LEMMA ResetFits ==
  ASSUME NEW V, NEW v \in V, V \subseteq Nat
  PROVE  Fits(ResetCall(v), V)
BY DEF Fits, ResetCall, Kinds

LEMMA StageFits ==
  ASSUME TInv, NEW i \in 1 .. 5
  PROVE  /\ Fits(Stages[i], Old)
         /\ i # 5 => Stages[i] = ReadCall(StartOf[i], SizeOf[i])
         /\ i = 5 => Stages[i] = WriteCall(OUT_OFFSET, Bytes(OUT_OFFSET, OUT_LEN, out_buf))
<1>1. out_buf \in Old
  BY DEF TInv, AppOK
<1>2. CASE i = 5
  BY <1>1, <1>2, WriteFits, Sizes DEF Stages
<1>3. CASE i # 5
  <2>1. i \in {1, 2, 3, 4}
    BY <1>3
  <2>2. Stages[i] = ReadCall(StartOf[i], SizeOf[i])
    BY <2>1 DEF Stages, StartOf, SizeOf
  <2>3. /\ StartOf[i] \in Nat /\ SizeOf[i] \in Nat \ {0}
        /\ StartOf[i] + SizeOf[i] <= MEM_SIZE
    BY <2>1, Sizes DEF StartOf, SizeOf
  <2> QED
    BY <1>3, <2>2, <2>3, ReadFits
<1> QED
  BY <1>2, <1>3

(* A call begins.                                                          *)
LEMMA IssueTypes ==
  ASSUME TInv, version' \in {version, version + 1},
         NEW CONSTANT c, Fits(c, Old'), Issue(c)
  PROVE  /\ CallOK' /\ PcOK'
         /\ expect' \in [Cell -> SUBSET Old']
         /\ call'.kind = c.kind /\ call'.ado = c.ado /\ call'.rest = c.rest
         /\ call'.data = c.data
         /\ c.kind = "read" => call'.held = Fetch(c.ado, c.rest)
         /\ pc' = Entry(c)
<1> DEFINE h == IF c.kind = "read" THEN Fetch(c.ado, c.rest) ELSE <<>>
<1>0. version \in Nat
  BY Sizes DEF TInv, AppOK
<1>1. Seq(Bt) \subseteq Seq(Bt') /\ Old \subseteq Old'
  BY <1>0, GrowTypes
<1>2. /\ c = [kind |-> c.kind, ado |-> c.ado, rest |-> c.rest, data |-> c.data,
              held |-> c.held]
      /\ c.kind \in Kinds \cup {"reset"} /\ c.ado \in Nat /\ c.rest \in Nat
      /\ c.data \in Seq(ByteOf(Old'))
  BY DEF Fits
<1>3. call' = [c EXCEPT !.held = h] /\ pc' = Entry(c)
  BY DEF Issue, Begin
<1>4. h \in Seq(Bt') /\ (c.kind = "read" => Len(h) = c.rest)
  <2>1. CASE c.kind = "read"
    <3>1. mem \in [Cell -> Bt] /\ c.ado + c.rest <= MEM_SIZE
      BY <2>1 DEF TInv, ChipOK, Fits, Kinds
    <3>2. Fetch(c.ado, c.rest) \in Seq(Bt) /\ Len(Fetch(c.ado, c.rest)) = c.rest
      BY <1>2, <3>1, FetchFacts
    <3> QED
      BY <1>1, <2>1, <3>2
  <2>2. CASE c.kind # "read"
    BY <2>2
  <2> QED
    BY <2>1, <2>2
<1>5. /\ call' \in CallType'
      /\ call'.kind = c.kind /\ call'.ado = c.ado /\ call'.rest = c.rest
      /\ call'.data = c.data /\ call'.held = h
  <2> HIDE DEF h
  <2> QED
    BY <1>2, <1>3, <1>4 DEF CallType, Bt
<1>6. c.kind = "read" => call'.held = Fetch(c.ado, c.rest)
  BY <1>5
<1> HIDE DEF h
<1>7. CallOK'
  <2>1. c.kind = "read" => Len(c.data) = 0
    BY DEF Fits
  <2>2. c.kind = "read" => /\ Len(c.data) <= c.ado
                           /\ Len(h) = Len(c.data) + c.rest
    BY <1>2, <1>4, <2>1
  <2>3. c.kind = "write" => /\ c.rest <= Len(c.data)
                            /\ Len(c.data) - c.rest <= c.ado
                            /\ Len(c.data) # 0
    BY <1>2 DEF Fits, Kinds
  <2> QED
    BY <1>5, <2>2, <2>3 DEF CallOK, Fits
<1>8. PcOK'
  <2>1. CASE c.kind = "reset"
    BY <1>3, <1>5, <2>1 DEF Entry, PcOK, Steps, InCsr, InPram, Outcomes, Kinds
  <2>2. CASE c.kind \in Kinds
    <3>1. pc' \in {"abort", "cmd", "put"} /\ (pc' = "put" => c.kind = "write")
      BY <1>3, <2>2 DEF Entry, Kinds
    <3> QED
      BY <1>5, <2>2, <3>1 DEF PcOK, Steps, InCsr, InPram, Outcomes, Kinds, Fits
  <2> QED
    BY <1>2, <2>1, <2>2
<1>9. expect' \in [Cell -> SUBSET Old']
  <2>1. expect \in [Cell -> SUBSET Old]
    BY DEF TInv, AppOK
  <2>2. \A a \in Cell : Covers(c, a) => Ver(c) \in Old'
    BY <1>2 DEF Covers, Ver, Fits, Kinds
  <2> QED
    BY <1>1, <2>1, <2>2 DEF Issue
<1> QED
  BY <1>3, <1>5, <1>6, <1>7, <1>8, <1>9

LEMMA GrownChip ==
  ASSUME ChipOK, version \in Nat, version' \in {version, version + 1},
         UNCHANGED <<csr, engine, resetting>>, mem' \in [Cell -> Bt']
  PROVE  ChipOK'
<1>1. /\ Old \subseteq Old' /\ CsrType \subseteq CsrType'
      /\ EngineType \subseteq EngineType'
  BY GrowTypes
<1>2. engine' \in [Kinds -> EngineType']
  BY <1>1 DEF ChipOK
<1> QED
  BY <1>1, <1>2 DEF ChipOK

LEMMA LandedTypes ==
  ASSUME TInv, Landed
  PROVE  expect' \in [Cell -> SUBSET Old]
<1>1. expect \in [Cell -> SUBSET Old]
  BY DEF TInv, AppOK
<1>2. \A a \in Cell : Covers(Target, a) => Ver(call) \in Old
  <2>1. Target.kind = call.kind
    <3>1. call \in CallType
      BY DEF TInv, CallOK
    <3> QED
      BY <3>1 DEF Target, CallType
  <2>2. call.kind = "write" => call.data[1].ver \in Old
    <3>1. call.kind = "write" => Len(call.data) # 0 /\ call.data \in Seq(Bt)
      BY DEF TInv, CallOK, CallType
    <3>2. call.kind = "write" => call.data[1] \in Bt
      BY <3>1
    <3> QED
      BY <3>2 DEF Bt, ByteOf
  <2>3. call.kind = "reset" => call.ado \in Old
    BY DEF TInv, CallOK
  <2> QED
    BY <2>1, <2>2, <2>3 DEF Covers, Ver
<1> QED
  BY <1>1, <1>2 DEF Landed

(* No call is in progress any more.                                        *)
LEMMA NoCallTypes ==
  ASSUME TInv, call' = NoCall, pc' = pc, pc \in Outcomes, stage' = 0
  PROVE  CallOK' /\ PcOK' /\ StageOK'
<1>1. <<>> \in Seq(Bt')
  OBVIOUS
<1>2. NoCall \in CallType'
  BY <1>1 DEF NoCall, CallType
<1>3. call'.kind = "none"
  BY DEF NoCall
<1> QED
  BY <1>2, <1>3 DEF CallOK, PcOK, StageOK, Outcomes, Steps, InCsr, InPram, Kinds

LEMMA PollTypes == ASSUME TInv, Poll PROVE TInv'
<1>0. /\ UNCHANGED <<mem, csr, engine, resetting, faults, direct, version, out_buf>>
  BY DEF Poll, PollBegin, StageDone, Report, PollFails, chip, application
<1>1. /\ Old' = Old /\ Bt' = Bt /\ CallType' = CallType /\ version \in Nat
  BY <1>0, SameTypes, Sizes DEF TInv, AppOK
<1>2. ChipOK'
  BY <1>0, <1>1, GrownChip DEF TInv, ChipOK
<1>3. call \in CallType /\ call.data \in Seq(Bt) /\ Len(call.data) \in Nat
  BY DEF TInv, CallOK, CallType
<1>4. ASSUME expect' \in [Cell -> SUBSET Old], UNCHANGED <<in_buf, mirror>>,
             stage' \in 0 .. 5
      PROVE  AppOK'
  BY <1>0, <1>1, <1>4 DEF TInv, AppOK
<1>5. ASSUME NEW i \in 1 .. 5, Issue(Stages[i]), stage' = i
      PROVE  CallOK' /\ PcOK' /\ StageOK' /\ expect' \in [Cell -> SUBSET Old]
  <2>1. PICK c : c = Stages[i]
    OBVIOUS
  <2>2. /\ Fits(c, Old) /\ Issue(c)
        /\ i # 5 => c = ReadCall(StartOf[i], SizeOf[i])
        /\ i = 5 => c.kind = "write"
    BY <1>5, <2>1, StageFits DEF WriteCall
  <2>3. /\ CallOK' /\ PcOK' /\ expect' \in [Cell -> SUBSET Old']
        /\ call'.kind = c.kind /\ call'.ado = c.ado /\ call'.rest = c.rest
        /\ call'.data = c.data
    BY <1>0, <1>1, <2>2, IssueTypes
  <2>4. StageOK'
    <3>1. CASE i # 5
      <4>1. /\ c.kind = "read" /\ c.ado = StartOf[i] /\ c.rest = SizeOf[i]
            /\ c.data = <<>>
        BY <2>2, <3>1 DEF ReadCall
      <4>2. StartOf[i] \in Nat /\ SizeOf[i] \in Nat
        BY <3>1, Sizes DEF StartOf, SizeOf
      <4>3. /\ call'.ado = StartOf[i] + Len(call'.data)
            /\ SizeOf[i] = Len(call'.data) + call'.rest
        BY <2>3, <4>1, <4>2
      <4> QED
        BY <1>5, <2>3, <3>1, <4>1, <4>3 DEF StageOK
    <3>2. CASE i = 5
      BY <1>5, <2>2, <2>3, <3>2 DEF StageOK
    <3> QED
      BY <3>1, <3>2
  <2> QED
    BY <1>1, <2>3, <2>4
<1>6. CASE PollBegin
  <2>1. /\ Issue(Stages[1]) /\ stage' = 1 /\ 1 \in 1 .. 5
        /\ UNCHANGED <<in_buf, mirror>>
    BY <1>6 DEF PollBegin
  <2>2. CallOK' /\ PcOK' /\ StageOK' /\ expect' \in [Cell -> SUBSET Old]
    BY <1>5, <2>1
  <2> QED
    BY <1>2, <1>4, <2>1, <2>2 DEF TInv
<1>7. CASE StageDone
  <2>1. /\ Issue(Stages[stage + 1]) /\ stage' = stage + 1 /\ stage + 1 \in 1 .. 5
        /\ pc = "ok" /\ stage \in 1 .. 4
    BY <1>7 DEF StageDone
  <2>2. CallOK' /\ PcOK' /\ StageOK' /\ expect' \in [Cell -> SUBSET Old]
    BY <1>5, <2>1
  <2>3. mirror' \in [{"status_adr", "al_status", "al_event"} -> Seq(Bt)]
    <3>1. mirror \in [{"status_adr", "al_status", "al_event"} -> Seq(Bt)]
      BY DEF TInv, AppOK
    <3>2. stage \in DOMAIN Registers => stage \in {1, 2, 3}
      BY DEF Registers
    <3>3. stage \in DOMAIN Registers =>
            Registers[stage] \in {"status_adr", "al_status", "al_event"}
      BY <3>2 DEF Registers
    <3> QED
      BY <1>3, <1>7, <3>1, <3>3 DEF StageDone
  <2>4. in_buf' \in Seq(Bt) /\ Len(in_buf') = IN_LEN
    <3>1. stage = 4 => Len(call.data) = IN_LEN
      <4>1. call.rest = 0 /\ SizeOf[stage] = Len(call.data) + call.rest
        BY <2>1 DEF TInv, PcOK, StageOK, Kinds
      <4> QED
        BY <1>3, <4>1 DEF SizeOf
    <3> QED
      BY <1>3, <1>7, <3>1 DEF StageDone, TInv, AppOK
  <2>5. AppOK'
    BY <1>0, <1>1, <2>1, <2>2, <2>3, <2>4 DEF TInv, AppOK
  <2> QED
    BY <1>2, <2>2, <2>5 DEF TInv
<1>8. CASE Report
  <2>1. /\ Landed /\ stage' = 0 /\ call' = NoCall /\ pc' = pc /\ pc = "ok"
        /\ UNCHANGED <<in_buf, mirror>>
    BY <1>8 DEF Report
  <2>2. expect' \in [Cell -> SUBSET Old]
    BY <2>1, LandedTypes
  <2>3. CallOK' /\ PcOK' /\ StageOK'
    BY <2>1, NoCallTypes DEF Outcomes
  <2> QED
    BY <1>2, <1>4, <2>1, <2>2, <2>3 DEF TInv
<1>9. CASE PollFails
  <2>1. /\ stage' = 0 /\ call' = NoCall /\ pc' = pc /\ pc = "error"
        /\ UNCHANGED <<expect, mirror>>
    BY <1>9 DEF PollFails, application
  <2>2. CallOK' /\ PcOK' /\ StageOK'
    BY <2>1, NoCallTypes DEF Outcomes
  <2>3. in_buf' \in Seq(Bt) /\ Len(in_buf') = IN_LEN
    <3>0. in_buf \in Seq(Bt) /\ Len(in_buf) = IN_LEN /\ IN_LEN \in Nat
      BY Sizes DEF TInv, AppOK
    <3>1. CASE stage = 4
      <4> DEFINE s == SubSeq(in_buf, Len(call.data) + 1, IN_LEN)
      <4>1. call.rest \in Nat /\ IN_LEN = Len(call.data) + call.rest
        BY <1>3, <3>1 DEF TInv, StageOK, SizeOf, CallType
      <4>2. s \in Seq(Bt) /\ Len(s) = IN_LEN - Len(call.data)
        BY <1>3, <3>0, <4>1
      <4>3. in_buf' = call.data \o s
        BY <1>9, <3>1 DEF PollFails
      <4> HIDE DEF s
      <4>4. in_buf' \in Seq(Bt) /\ Len(in_buf') = Len(call.data) + Len(s)
        BY <1>3, <4>2, <4>3, ConcatProperties
      <4> QED
        BY <1>3, <3>0, <4>2, <4>4
    <3>2. CASE stage # 4
      BY <1>9, <3>0, <3>2 DEF PollFails
    <3> QED
      BY <3>1, <3>2
  <2>4. AppOK'
    BY <1>0, <1>1, <2>1, <2>3 DEF TInv, AppOK
  <2> QED
    BY <1>2, <2>2, <2>4 DEF TInv
<1> QED
  BY <1>6, <1>7, <1>8, <1>9 DEF Poll

LEMMA FreshFacts ==
  ASSUME TInv, Fresh
  PROVE  /\ version' = version + 1 /\ version' \in 1 .. MaxVersions + 1
         /\ version \in Old' /\ version \in Nat /\ Old \subseteq Old'
         /\ Seq(Bt) \subseteq Seq(Bt') /\ CallType \subseteq CallType'
<1>1. version \in 1 .. MaxVersions + 1 /\ MaxVersions \in Nat
  BY Sizes DEF TInv, AppOK
<1>2. /\ version' = version + 1 /\ version' \in 1 .. MaxVersions + 1
      /\ version \in Nat
  BY <1>1 DEF Fresh
<1>3. version \in Old'
  BY <1>2 DEF Old
<1> QED
  BY <1>2, <1>3, GrowTypes

(* The application's variables, when some have changed.                    *)
LEMMA GrownApp ==
  ASSUME TInv, Old \subseteq Old', Seq(Bt) \subseteq Seq(Bt'),
         version' \in 1 .. MaxVersions + 1, out_buf' \in Old',
         expect' \in [Cell -> SUBSET Old'], direct' \in 0 .. MaxDirect,
         UNCHANGED <<faults, in_buf, mirror, stage>>
  PROVE  AppOK'
<1>1. mirror' \in [{"status_adr", "al_status", "al_event"} -> Seq(Bt')]
  BY DEF TInv, AppOK
<1> QED
  BY <1>1 DEF TInv, AppOK

LEMMA DirectTypes == ASSUME TInv, Direct PROVE TInv'
<1>0. /\ version \in 1 .. MaxVersions + 1 /\ version \in Nat
      /\ out_buf \in Old /\ direct \in 0 .. MaxDirect
  BY Sizes DEF TInv, AppOK
<1>1. ASSUME NEW c, CallBegin(c), Fits(c, Old'), Old \subseteq Old',
             Seq(Bt) \subseteq Seq(Bt'),
             version' \in {version, version + 1}, version' \in 1 .. MaxVersions + 1
      PROVE  TInv'
  <2>1. /\ Issue(c) /\ stage = 0 /\ direct < MaxDirect /\ direct' = direct + 1
        /\ UNCHANGED <<mem, csr, engine, resetting, faults, in_buf, mirror, stage,
                       since, last, out_buf>>
    BY <1>1 DEF CallBegin, Idle, chip
  <2>2. mem' \in [Cell -> Bt']
    BY <1>0, <1>1, <2>1, GrowTypes DEF TInv, ChipOK
  <2>3. ChipOK'
    BY <1>0, <1>1, <2>1, <2>2, GrownChip DEF TInv
  <2>4. CallOK' /\ PcOK' /\ expect' \in [Cell -> SUBSET Old']
    BY <1>1, <2>1, IssueTypes
  <2>5. StageOK'
    BY <2>1 DEF StageOK
  <2>6. direct' \in 0 .. MaxDirect /\ out_buf' \in Old'
    BY <1>0, <1>1, <2>1, Sizes
  <2>7. AppOK'
    BY <1>1, <2>1, <2>4, <2>6, GrownApp
  <2> QED
    BY <2>3, <2>4, <2>5, <2>7 DEF TInv
<1>2. CASE DirectRead
  <2>1. PICK s \in DirectReads : CallBegin(ReadCall(s.ado, s.len))
    BY <1>2 DEF DirectRead
  <2>2. version' = version
    BY <1>2 DEF DirectRead
  <2>3. s.ado \in Nat /\ s.len \in Nat \ {0} /\ s.ado + s.len <= MEM_SIZE
    BY SlaveAssumption
  <2>4. Fits(ReadCall(s.ado, s.len), Old')
    BY <2>3, ReadFits
  <2> QED
    BY <1>0, <1>1, <2>1, <2>2, <2>4, GrowTypes
<1>3. CASE DirectWrite
  <2>1. PICK s \in DirectWrites :
          Fresh /\ CallBegin(WriteCall(s.ado, Bytes(s.ado, s.len, version)))
    BY <1>3 DEF DirectWrite
  <2>2. /\ version' = version + 1 /\ version' \in 1 .. MaxVersions + 1
        /\ version \in Old' /\ Old \subseteq Old' /\ Seq(Bt) \subseteq Seq(Bt')
    BY <2>1, FreshFacts
  <2>3. s.ado \in Nat /\ s.len \in Nat \ {0} /\ s.ado + s.len <= MEM_SIZE
    BY SlaveAssumption
  <2>4. PICK c : c = WriteCall(s.ado, Bytes(s.ado, s.len, version))
    OBVIOUS
  <2>5. Fits(c, Old')
    BY <2>2, <2>3, <2>4, WriteFits
  <2> QED
    BY <1>1, <2>1, <2>2, <2>4, <2>5
<1>4. CASE DirectReset
  <2>1. Fresh /\ CallBegin(ResetCall(version))
    BY <1>4 DEF DirectReset
  <2>2. /\ version' = version + 1 /\ version' \in 1 .. MaxVersions + 1
        /\ version \in Old' /\ Old \subseteq Old' /\ Seq(Bt) \subseteq Seq(Bt')
    BY <2>1, FreshFacts
  <2>3. PICK c : c = ResetCall(version)
    OBVIOUS
  <2>4. Fits(c, Old')
    BY <2>2, <2>3, ResetFits DEF Old
  <2> QED
    BY <1>1, <2>1, <2>2, <2>3, <2>4
<1>5. CASE DirectReturns
  <2>1. /\ pc \in Outcomes /\ stage = 0 /\ call' = NoCall
        /\ Landed \/ UNCHANGED expect
        /\ UNCHANGED <<mem, csr, engine, resetting, pc, faults, in_buf, mirror,
                       stage, direct, version, out_buf>>
    BY <1>5 DEF DirectReturns, Running, chip, controller
  <2>2. Old' = Old /\ Bt' = Bt
    BY <2>1, SameTypes
  <2>3. expect' \in [Cell -> SUBSET Old]
    BY <2>1, LandedTypes DEF TInv, AppOK
  <2>4. CallOK' /\ PcOK' /\ StageOK'
    BY <2>1, NoCallTypes
  <2>5. ChipOK'
    BY <1>0, <2>1, <2>2, GrownChip DEF TInv, ChipOK
  <2>6. AppOK'
    BY <2>1, <2>2, <2>3 DEF TInv, AppOK
  <2> QED
    BY <2>4, <2>5, <2>6 DEF TInv
<1> QED
  BY <1>2, <1>3, <1>4, <1>5 DEF Direct

LEMMA OutsideTypes == ASSUME TInv, Outputs \/ Bus PROVE TInv'
<1>0. /\ Fresh /\ UNCHANGED <<csr, engine, resetting, call, pc, faults, in_buf, mirror,
                              stage, since, last, direct, expect>>
  BY DEF Outputs, Bus, chip, driver, controller
<1>1. /\ version' = version + 1 /\ version' \in 1 .. MaxVersions + 1
      /\ version \in Old' /\ version \in Nat /\ Old \subseteq Old'
      /\ Seq(Bt) \subseteq Seq(Bt') /\ CallType \subseteq CallType'
  BY <1>0, FreshFacts
<1>2. mem' \in [Cell -> Bt']
  <2>1. mem \in [Cell -> Bt']
    BY <1>1, GrowTypes DEF TInv, ChipOK
  <2>2. \A c \in Cell : Byte(c, version) \in Bt'
    BY <1>1 DEF Byte, Bt, ByteOf
  <2>3. \/ mem' = mem
        \/ \E s : mem' = [c \in Cell |-> IF c \in s THEN Byte(c, version) ELSE mem[c]]
    BY DEF Outputs, Bus, chip
  <2> QED
    BY <2>1, <2>2, <2>3
<1>3. ChipOK'
  BY <1>0, <1>1, <1>2, GrownChip DEF TInv
<1>4. CallOK' /\ PcOK' /\ StageOK'
  BY <1>0, <1>1 DEF TInv, CallOK, PcOK, StageOK
<1>5. out_buf' \in Old'
  BY <1>1 DEF Outputs, Bus, TInv, AppOK
<1>6. expect' \in [Cell -> SUBSET Old'] /\ direct' \in 0 .. MaxDirect
  BY <1>0, <1>1 DEF TInv, AppOK
<1>7. AppOK'
  BY <1>0, <1>1, <1>5, <1>6, GrownApp
<1> QED
  BY <1>3, <1>4, <1>7 DEF TInv

LEMMA InitTypes == Init => TInv
<1> SUFFICES ASSUME Init PROVE TInv
  OBVIOUS
<1>1. /\ version = 1 /\ Old = {0}
  BY DEF Init, Old
<1>2. mem \in [Cell -> Bt]
  BY <1>1, WipedType DEF Init, ChipInit
<1>3. ChipOK
  <2>1. /\ csr = IdleCsr /\ resetting = 0
        /\ engine = [k \in Kinds |-> IdleEngine]
    BY DEF Init, ChipInit, Kinds
  <2>2. /\ IdleEngine \in EngineType /\ IdleCsr \in CsrType
    BY <1>1, IdleTypes
  <2>3. /\ IdleEngine.fifo = <<>> /\ IdleEngine.ado = 0 /\ IdleEngine.left = 0
        /\ IdleCsr.ado = 0 /\ IdleCsr.size = 1
    BY DEF IdleEngine, IdleCsr
  <2>4. Len(IdleEngine.fifo) <= FIFO_DEPTH /\ 0 + 0 <= MEM_SIZE /\ 0 + 1 <= MEM_SIZE
        /\ 0 % 1 = 0
    BY <2>3, Sizes
  <2> HIDE DEF Kinds
  <2> QED
    BY <1>1, <1>2, <2>1, <2>2, <2>3, <2>4 DEF ChipOK
<1>4. /\ call = NoCall /\ pc = "ok" /\ faults = 0 /\ stage = 0
  BY DEF Init, DriverInit
<1>5. CallOK /\ PcOK /\ StageOK
  <2>1. <<>> \in Seq(Bt)
    OBVIOUS
  <2>2. call \in CallType /\ call.kind = "none"
    BY <1>4, <2>1 DEF NoCall, CallType
  <2> QED
    BY <1>4, <2>2 DEF CallOK, PcOK, StageOK, Outcomes, Steps, InCsr, InPram, Kinds
<1>6. AppOK
  <2>1. \A n \in Nat, a \in Nat : a + n <= MEM_SIZE => 
          Bytes(a, n, 0) \in Seq(Bt) /\ Len(Bytes(a, n, 0)) = n
    BY <1>1, BytesFacts DEF Bt
  <2>2. /\ Bytes(IN_OFFSET, IN_LEN, 0) \in Seq(Bt)
        /\ Len(Bytes(IN_OFFSET, IN_LEN, 0)) = IN_LEN
        /\ Bytes(STADR, 2, 0) \in Seq(Bt) /\ Bytes(ALSTAT, 2, 0) \in Seq(Bt)
        /\ Bytes(ALEVENT, 4, 0) \in Seq(Bt)
    BY <2>1, Sizes
  <2>3. mirror \in [{"status_adr", "al_status", "al_event"} -> Seq(Bt)]
    BY <2>2 DEF Init
  <2>4. expect \in [Cell -> SUBSET Old]
    BY <1>1 DEF Init
  <2>5. version \in 1 .. MaxVersions + 1 /\ out_buf \in Old /\ direct \in 0 .. MaxDirect
        /\ faults \in 0 .. MaxFaults /\ stage \in 0 .. 5
    BY <1>1, <1>4, Sizes DEF Init
  <2> QED
    BY <2>2, <2>3, <2>4, <2>5 DEF AppOK, Init
<1> QED
  BY <1>3, <1>5, <1>6 DEF TInv

LEMMA StepTypes == TInv /\ [Next]_vars => TInv'
<1> SUFFICES ASSUME TInv, [Next]_vars PROVE TInv'
  OBVIOUS
<1>1. CASE UNCHANGED vars
  <2>1. UNCHANGED <<mem, csr, engine, resetting, call, pc, faults, in_buf, mirror,
                    stage, since, last, direct, version, out_buf, expect>>
    BY <1>1 DEF vars, chip, driver, controller, application
  <2>2. Bt' = Bt /\ Old' = Old /\ CsrType' = CsrType /\ EngineType' = EngineType
        /\ CallType' = CallType
    BY <2>1, SameTypes
  <2>3. ChipOK' /\ AppOK'
    BY <2>1, <2>2 DEF TInv, ChipOK, AppOK
  <2>4. CallOK' /\ PcOK' /\ StageOK'
    BY <2>1, <2>2 DEF TInv, CallOK, PcOK, StageOK
  <2> QED
    BY <2>3, <2>4 DEF TInv
<1> QED
  BY <1>1, AccessTypes, ChipTypes, PollTypes, DirectTypes, OutsideTypes DEF Next

LEMMA TypeInvariant == Spec => []TInv
BY InitTypes, StepTypes, PTL DEF Spec

(* Every variable of the driver, the chip and the controller keeps its     *)
(* type: no chunk or word takes more than is left of a call, no FIFO holds *)
(* more than it can, and in_buf keeps its length (lan9252_esc_read and     *)
(* _write, pram_read and pram_write, the poll).                            *)
THEOREM Lan9252Types == Spec => []TypeOK
<1>1. TInv => TypeOK
  <2> SUFFICES ASSUME TInv PROVE TypeOK
    OBVIOUS
  <2>1. Old \subseteq Versions
    BY Sizes DEF TInv, AppOK, Old, Versions
  <2>2. /\ DOMAIN mem = Cell /\ \A a \in Cell : mem[a] \in ByteOf(Versions)
    BY <2>1 DEF TInv, ChipOK, Bt, ByteOf
  <2>3. /\ csr.busy \in BOOLEAN /\ csr.size \in 1 .. 4
    BY DEF TInv, ChipOK, CsrType
  <2>4. \A k \in Kinds :
          /\ engine[k].status \in {"idle", "abort", "run"}
          /\ engine[k].left \in Nat /\ Len(engine[k].fifo) <= FIFO_DEPTH
    BY DEF TInv, ChipOK, EngineType
  <2>5. /\ resetting \in Versions /\ out_buf \in Versions
        /\ \A a \in Cell : expect[a] \subseteq Versions
    BY <2>1 DEF TInv, ChipOK, AppOK
  <2>6. /\ pc \in Outcomes \cup InCsr \cup InPram \cup {"rst", "rst_wait"}
        /\ call.rest \in Nat
    BY DEF TInv, PcOK, CallOK, CallType, Steps
  <2> QED
    BY <2>2, <2>3, <2>4, <2>5, <2>6 DEF TypeOK, TInv, AppOK, Kinds
<1> QED
  BY <1>1, TypeInvariant, PTL

(* Every CSR command has 1, 2 or 4 bytes and an address of that alignment, *)
(* however long and odd the span (esc_next_chunk_size, AccessWidth).       *)
THEOREM WidthSafe == Spec => []AccessWidth
<1>1. TInv => AccessWidth
  BY DEF TInv, ChipOK, CsrType, AccessWidth
<1> QED
  BY <1>1, TypeInvariant, PTL

-----------------------------------------------------------------------------
(* What a transaction leaves in the chip, one by one.                      *)
Now == Chunk(call.ado, call.rest)
Stays == UNCHANGED <<mem, csr, engine, resetting>>
DataPut ==
  /\ pc = "put" /\ UNCHANGED <<mem, engine, resetting>>
  /\ csr' = [csr EXCEPT !.data = InWord(Pending(Now), 0)]
CommandGiven ==
  /\ pc = "cmd" /\ UNCHANGED <<mem, engine, resetting>>
  /\ csr' = [csr EXCEPT !.busy = TRUE, !.kind = call.kind, !.ado = call.ado,
                        !.size = Now]
AbortAsked ==
  /\ pc = "abort" /\ UNCHANGED <<mem, csr, resetting>>
  /\ engine' = [engine EXCEPT ![call.kind].status = "abort",
                              ![call.kind].fifo = <<>>]
SpanGiven ==
  /\ pc = "span" /\ UNCHANGED <<mem, csr, resetting>>
  /\ engine' = [engine EXCEPT ![call.kind].ado = call.ado,
                              ![call.kind].left = call.rest]
EngineStarted ==
  /\ pc = "go" /\ UNCHANGED <<mem, csr, resetting>>
  /\ engine' = [engine EXCEPT ![call.kind].status = "run"]
WordPopped ==
  /\ pc \in {"first", "burst"} /\ UNCHANGED <<mem, csr, resetting>>
  /\ call.kind = "read" /\ engine["read"].fifo # <<>>
  /\ engine' = [engine EXCEPT !["read"].fifo = Tail(@)]
WordPushed ==
  /\ pc \in {"first", "burst"} /\ UNCHANGED <<mem, csr, resetting>>
  /\ call.kind = "write"
  /\ engine' = [engine EXCEPT !["write"].fifo =
                                Append(@, InWord(Pending(Share), Lane))]
ResetAsked ==
  /\ pc = "rst" /\ resetting' = call.ado /\ UNCHANGED <<mem, csr, engine>>

(* The transactions one by one.                                            *)
PutData     == DataPut /\ pc' = "cmd" /\ UNCHANGED call
GiveCommand == CommandGiven /\ pc' = "wait" /\ UNCHANGED call
ReadDone ==
  /\ pc = "wait" /\ pc' = "data" /\ call.kind = "read" /\ ~csr.busy
  /\ Stays /\ UNCHANGED call
WriteDone ==
  /\ pc = "wait" /\ call.kind = "write" /\ ~csr.busy /\ Stays
  /\ Advance(Now, <<>>) /\ After(Now, "put")
TakeData ==
  /\ pc = "data" /\ Stays
  /\ Advance(Now, FromWord(csr.data, 0, Now)) /\ After(Now, "cmd")
AskAbort    == AbortAsked /\ pc' = "quiet" /\ UNCHANGED call
IsQuiet ==
  /\ pc = "quiet" /\ pc' = "span" /\ engine[call.kind].status # "abort"
  /\ Stays /\ UNCHANGED call
GiveSpan    == SpanGiven /\ pc' = "go" /\ UNCHANGED call
StartEngine == EngineStarted /\ pc' = "avail" /\ UNCHANGED call
LookOn ==
  /\ pc \in {"avail", "count", "header"} /\ Stays /\ UNCHANGED call
  /\ pc = "avail" => pc' = "count"
  /\ pc = "count" => pc' = "first"
  /\ pc = "header" => pc' = "burst"
PopWord ==
  /\ WordPopped
  /\ Advance(Share, FromWord(Head(engine["read"].fifo), Lane, Share))
  /\ After(Share, IF pc = "first" THEN "header" ELSE "burst")
PushWord ==
  /\ WordPushed /\ Advance(Share, <<>>)
  /\ After(Share, IF pc = "first" THEN "header" ELSE "burst")
AskReset    == ResetAsked /\ pc' = "rst_wait" /\ UNCHANGED call
ResetDone ==
  /\ pc = "rst_wait" /\ pc' = "ok" /\ resetting = 0 /\ Stays /\ UNCHANGED call

Touched == \/ Stays \/ DataPut \/ CommandGiven \/ AbortAsked \/ SpanGiven
           \/ EngineStarted \/ WordPopped \/ WordPushed \/ ResetAsked

LEMMA TouchCases ==
  ASSUME PcOK, Running, ChipKeepsUp, Touch \/ UNCHANGED chip
  PROVE  Touched
<1>1. CASE TouchCsr /\ UNCHANGED <<mem, engine, resetting>>
  BY <1>1 DEF TouchCsr, Touched, DataPut, CommandGiven, Now
<1>2. CASE TouchEngine /\ UNCHANGED <<mem, csr, resetting>>
  <2>1. CASE pc \in {"first", "burst"}
    <3>1. call.kind \in Kinds
      BY <2>1 DEF PcOK, Steps, InPram
    <3>2. CASE call.kind = "read"
      BY <1>2, <2>1, <3>2 DEF TouchEngine, Touched, WordPopped, ChipKeepsUp, Space
    <3>3. CASE call.kind = "write"
      BY <1>2, <2>1, <3>3 DEF TouchEngine, Touched, WordPushed
    <3> QED
      BY <3>1, <3>2, <3>3 DEF Kinds
  <2>2. CASE pc \notin {"first", "burst"}
    BY <1>2, <2>2 DEF TouchEngine, Touched, AbortAsked, SpanGiven, EngineStarted
  <2> QED
    BY <2>1, <2>2
<1>3. CASE pc = "rst" /\ resetting' = call.ado /\ UNCHANGED <<mem, csr, engine>>
  BY <1>3 DEF Touched, ResetAsked
<1>4. CASE UNCHANGED chip
  BY <1>4 DEF Touched, Stays, chip
<1> QED
  BY <1>1, <1>2, <1>3, <1>4 DEF Touch

LEMMA TransactCases ==
  ASSUME PcOK, Transact
  PROVE  \/ PutData \/ GiveCommand \/ ReadDone \/ WriteDone \/ TakeData
         \/ AskAbort \/ IsQuiet \/ GiveSpan \/ StartEngine \/ LookOn
         \/ PopWord \/ PushWord \/ AskReset \/ ResetDone
<1>0. Touch /\ Move /\ Ready /\ ChipKeepsUp
  BY DEF Transact
<1>1. CASE pc \in Looking
  <2>1. Stays
    BY <1>0, <1>1 DEF Touch, TouchCsr, TouchEngine, Looking, Stays, chip
  <2>2. CASE pc = "wait"
    BY <1>0, <2>1, <2>2 DEF Move, MoveCsr, MovePram, MoveReset, Goto, Ready,
                            ReadDone, WriteDone, Now
  <2>3. CASE pc = "data"
    BY <1>0, <2>1, <2>3 DEF Move, MoveCsr, MovePram, MoveReset, TakeData, Now
  <2>4. CASE pc \in {"quiet", "avail", "count", "header"}
    BY <1>0, <2>1, <2>4 DEF Move, MoveCsr, MovePram, MoveReset, Goto, Ready,
                            IsQuiet, LookOn
  <2>5. CASE pc = "rst_wait"
    BY <1>0, <2>1, <2>5 DEF Move, MoveCsr, MovePram, MoveReset, Goto, Ready,
                            ResetDone
  <2> QED
    BY <1>1, <2>2, <2>3, <2>4, <2>5 DEF Looking
<1>2. CASE pc \in {"put", "cmd"}
  <2>1. TouchCsr /\ UNCHANGED <<mem, engine, resetting>>
    BY <1>0, <1>2 DEF Touch, TouchEngine, Looking
  <2> QED
    BY <1>0, <1>2, <2>1 DEF TouchCsr, Move, MoveCsr, MovePram, MoveReset, Goto,
                            PutData, GiveCommand, DataPut, CommandGiven, Now
<1>3. CASE pc \in {"abort", "span", "go"}
  <2>1. TouchEngine /\ UNCHANGED <<mem, csr, resetting>>
    BY <1>0, <1>3 DEF Touch, TouchCsr, Looking
  <2> QED
    BY <1>0, <1>3, <2>1 DEF TouchEngine, Move, MoveCsr, MovePram, MoveReset, Goto,
                            AskAbort, GiveSpan, StartEngine,
                            AbortAsked, SpanGiven, EngineStarted
<1>4. CASE pc \in {"first", "burst"}
  <2>1. TouchEngine /\ UNCHANGED <<mem, csr, resetting>>
    BY <1>0, <1>4 DEF Touch, TouchCsr, Looking
  <2>2. MovePram
    BY <1>0, <1>4 DEF Move, MoveCsr, MoveReset
  <2>3. call.kind \in Kinds
    BY <1>4 DEF PcOK, Steps, InPram
  <2>4. CASE call.kind = "read"
    BY <1>0, <1>4, <2>1, <2>2, <2>4
       DEF TouchEngine, MovePram, PopWord, WordPopped, ChipKeepsUp, Space
  <2>5. CASE call.kind = "write"
    BY <1>4, <2>1, <2>2, <2>5 DEF TouchEngine, MovePram, PushWord, WordPushed
  <2> QED
    BY <2>3, <2>4, <2>5 DEF Kinds
<1>5. CASE pc = "rst"
  BY <1>0, <1>5 DEF Touch, TouchCsr, TouchEngine, Looking, Move, MoveCsr, MovePram,
                    MoveReset, Goto, AskReset, ResetAsked
<1>6. pc \in Looking \cup {"put", "cmd", "abort", "span", "go", "first", "burst", "rst"}
  BY DEF PcOK, Transact, Running, Outcomes, Steps, InCsr, InPram, Looking
<1> QED
  BY <1>1, <1>2, <1>3, <1>4, <1>5, <1>6

-----------------------------------------------------------------------------
(* Who does what: what the chip was asked belongs to the call in progress. *)
Streaming == {"avail", "count", "first", "header", "burst"}
CsrControl ==
  /\ csr.busy /\ call.kind \in Kinds => /\ pc \in {"wait", "error"}
                                        /\ csr.kind = call.kind
  /\ pc \in {"wait", "data"} => /\ csr.kind = call.kind /\ csr.ado = call.ado
                                /\ csr.size = Now
  /\ call.kind = "reset" => ~csr.busy
EngineControl ==
  /\ call.kind \in {"read", "reset"} => engine["write"].fifo = <<>>
  /\ \A k \in Kinds : engine[k].status = "abort" =>
       /\ engine[k].fifo = <<>>
       /\ call.kind \in Kinds => k = call.kind /\ pc \in {"quiet", "error"}
  /\ pc \in {"quiet", "span", "go"} => engine[call.kind].fifo = <<>>
  /\ pc = "abort" /\ call.kind = "write" => engine["write"].fifo = <<>>
  /\ pc = "quiet" => engine[call.kind].status \in {"abort", "idle"}
  /\ pc \in {"span", "go"} => engine[call.kind].status = "idle"
  /\ pc = "go" => /\ engine[call.kind].ado = call.ado
                  /\ engine[call.kind].left = call.rest
  /\ pc \in Streaming =>
       engine[call.kind].ado + engine[call.kind].left = call.ado + call.rest
Control ==
  /\ CsrControl /\ EngineControl
  /\ call.kind \in Kinds => resetting = 0
  /\ pc \in {"header", "burst"} => call.ado % 4 = 0
CInv == TInv /\ Control

LEMMA NextWord ==
  ASSUME NEW a \in Nat, NEW n \in Nat, n = 4 - (a % 4)
  PROVE  (a + n) % 4 = 0 /\ (a + n) \div 4 = (a \div 4) + 1
OBVIOUS

LEMMA SameWord ==
  ASSUME NEW a \in Nat, NEW n \in Nat, n <= 4 - (a % 4), NEW b \in a .. a + n - 1
  PROVE  b \div 4 = a \div 4 /\ b % 4 = (a % 4) + (b - a) /\ b % 4 \in Place
BY DEF Place

LEMMA WordFacts ==
  ASSUME CInv, pc \in {"first", "burst"}
  PROVE  /\ Lane = call.ado % 4 /\ Lane \in Place /\ Share \in Nat /\ Share # 0
         /\ Share <= call.rest /\ Lane + Share <= 4
         /\ Share = call.rest \/ Share = 4 - Lane
         /\ call.ado \in Nat /\ call.rest \in Nat /\ call.kind \in Kinds
<1>1. pc \in Steps /\ CallOK /\ PcOK
  BY DEF Steps, InPram, CInv, TInv
<1>2. call.ado \in Nat /\ call.rest \in Nat /\ call.kind \in Kinds
  BY <1>1 DEF CallOK, CallType, PcOK
<1>3. pc = "burst" => call.ado % 4 = 0
  BY DEF CInv, Control
<1> QED
  BY <1>1, <1>2, <1>3, ShareFacts

(* Nothing the chip does takes a call anywhere else.                       *)
LEMMA ChipControl == ASSUME CInv, Chip PROVE Control'
<1>0. /\ UNCHANGED <<call, pc>> /\ Now' = Now
  BY DEF Chip, ChipStep, ChipCsr, ChipAbort, ChipFill, ChipDrain, ChipReset, driver, Now
<1>1. /\ csr \in CsrType /\ engine \in [Kinds -> EngineType]
  BY DEF CInv, TInv, ChipOK
<1>2. CASE ChipCsr
  <2>1. /\ csr'.kind = csr.kind /\ csr'.ado = csr.ado /\ csr'.size = csr.size
        /\ csr'.busy = FALSE
    <3> DEFINE d == InWord(Fetch(csr.ado, csr.size), 0)
    <3>1. csr' = [csr EXCEPT !.busy = FALSE, !.data = d]
          \/ csr' = [csr EXCEPT !.busy = FALSE]
      BY <1>2 DEF ChipCsr
    <3> HIDE DEF d
    <3> QED
      BY <1>1, <3>1 DEF CsrType
  <2>2. UNCHANGED <<engine, resetting>>
    BY <1>2 DEF ChipCsr
  <2>3. CsrControl'
    BY <1>0, <2>1 DEF CInv, Control, CsrControl
  <2>4. EngineControl'
    BY <1>0, <2>2 DEF CInv, Control, EngineControl
  <2> QED
    BY <1>0, <2>2, <2>3, <2>4 DEF CInv, Control
<1>3. CASE UNCHANGED <<csr, resetting>> /\ EngineControl'
  BY <1>0, <1>3 DEF CInv, Control, CsrControl
<1>4. CASE ChipAbort
  <2>1. PICK k \in Kinds : engine[k].status = "abort"
                           /\ engine' = [engine EXCEPT ![k] = IdleEngine]
    BY <1>4 DEF ChipAbort, Kinds
  <2>2. /\ engine'[k].status = "idle" /\ engine'[k].fifo = <<>>
        /\ \A q \in Kinds \ {k} : engine'[q] = engine[q]
    BY <1>1, <2>1 DEF IdleEngine
  <2>3. call.kind = k => pc \notin Streaming \cup {"span", "go"}
    BY <2>1 DEF CInv, Control, EngineControl, Streaming, Kinds
  <2>4. pc \in Steps => call.kind \in Kinds
    BY DEF CInv, TInv, PcOK
  <2>5. "write" \in Kinds
    BY DEF Kinds
  <2>6. EngineControl'
    BY <1>0, <2>1, <2>2, <2>3, <2>4, <2>5
       DEF CInv, Control, EngineControl, Steps, InPram, Streaming
  <2> QED
    BY <1>3, <1>4, <2>6 DEF ChipAbort
<1>5. ASSUME NEW k \in Kinds, NEW f \in Seq(Word),
             engine' = [engine EXCEPT ![k] = Ran(engine[k], f)],
             engine[k].status = "run", k = "write" => engine[k].fifo # <<>>
      PROVE  EngineControl'
  <2>1. engine[k] \in EngineType /\ engine[k].ado + engine[k].left <= MEM_SIZE
    BY DEF CInv, TInv, ChipOK
  <2>2. /\ engine'[k].status \in {"idle", "run"}
        /\ engine'[k].ado + engine'[k].left = engine[k].ado + engine[k].left
        /\ \A q \in Kinds \ {k} : engine'[q] = engine[q]
    BY <1>1, <1>5, <2>1, RanType
  <2>3. call.kind = k => pc \notin {"quiet", "span", "go"}
    BY <1>5 DEF CInv, Control, EngineControl
  <2>4. pc \in Steps => call.kind \in Kinds
    BY DEF CInv, TInv, PcOK
  <2>5. k = "write" => /\ call.kind \notin {"read", "reset"}
                       /\ ~(pc = "abort" /\ call.kind = "write")
    BY <1>5 DEF CInv, Control, EngineControl
  <2>6. "write" \in Kinds
    BY DEF Kinds
  <2> QED
    BY <1>0, <2>2, <2>3, <2>4, <2>5, <2>6
       DEF CInv, Control, EngineControl, Steps, InPram, Streaming
<1>6. CASE ChipFill
  <2> DEFINE e == engine["read"]
             w == InWord(Fetch(e.ado, Handled(e)), e.ado % 4)
             f == Append(e.fifo, w)
  <2>1. /\ engine' = [engine EXCEPT !["read"] = Ran(e, f)] /\ e.status = "run"
        /\ UNCHANGED <<csr, resetting>>
    BY <1>6 DEF ChipFill
  <2>2. engine'["read"] = Ran(e, f)
    BY <1>1, <2>1 DEF Kinds
  <2>3. /\ e \in EngineType /\ e.ado + e.left <= MEM_SIZE
        /\ e.ado \in Nat /\ e.left \in Nat /\ e.fifo \in Seq(Word)
    BY DEF CInv, TInv, ChipOK, Kinds, EngineType
  <2>4. /\ Handled(e) \in Nat /\ Handled(e) <= e.left /\ e.ado % 4 \in Place
    BY <2>3, HandledFacts
  <2>5. e.ado + Handled(e) <= MEM_SIZE
    BY <2>3, <2>4, Sizes
  <2>6. mem \in [Cell -> Bt] /\ version \in Nat \ {0}
    BY Sizes DEF CInv, TInv, ChipOK, AppOK
  <2>7. Fetch(e.ado, Handled(e)) \in Seq(Bt)
    BY <2>3, <2>4, <2>5, <2>6, FetchFacts
  <2>8. w \in Word
    BY <2>4, <2>6, <2>7, InWordFacts
  <2> HIDE DEF w
  <2>9. f \in Seq(Word)
    BY <2>3, <2>8
  <2> HIDE DEF f
  <2> QED
    BY <1>3, <1>5, <2>1, <2>9 DEF Kinds
<1>7. CASE ChipDrain
  <2> DEFINE f == Tail(engine["write"].fifo)
  <2>1. /\ engine' = [engine EXCEPT !["write"] = Ran(engine["write"], f)]
        /\ engine["write"].status = "run" /\ engine["write"].fifo # <<>>
        /\ UNCHANGED <<csr, resetting>>
    BY <1>7 DEF ChipDrain
  <2>2. f \in Seq(Word)
    BY <1>1, <2>1 DEF EngineType, Kinds
  <2> HIDE DEF f
  <2> QED
    BY <1>3, <1>5, <2>1, <2>2 DEF Kinds
<1>8. CASE ChipReset
  <2>1. call.kind \notin Kinds
    BY <1>8 DEF ChipReset, CInv, Control
  <2>2. pc \notin Steps
    BY <2>1 DEF CInv, TInv, PcOK
  <2>3. csr'.busy = FALSE /\ \A k \in Kinds : engine'[k] = IdleEngine
    BY <1>8 DEF ChipReset, IdleCsr, Kinds
  <2>4. IdleEngine.status = "idle" /\ IdleEngine.fifo = <<>>
    BY DEF IdleEngine
  <2> QED
    BY <1>0, <2>1, <2>2, <2>3, <2>4
       DEF Control, CsrControl, EngineControl, Steps, InCsr, InPram, Streaming, Kinds
<1> QED
  BY <1>2, <1>4, <1>6, <1>7, <1>8 DEF Chip, ChipStep

LEMMA AdvanceNow ==
  ASSUME CInv, pc \in {"wait", "data"}, UNCHANGED version, NEW got, Advance(Now, got),
         call.kind = "read" => got \in Seq(Bt) /\ Len(got) = Now
  PROVE  /\ call'.kind = call.kind /\ call'.held = call.held
         /\ call'.ado = call.ado + Now /\ call'.rest = call.rest - Now
         /\ call.kind = "read" => /\ call'.data = call.data \o got
                                  /\ Len(call'.data) = Len(call.data) + Now
         /\ call.kind = "write" => call'.data = call.data
<1>1. pc \in Steps /\ CallOK /\ PcOK
  BY DEF Steps, InCsr, CInv, TInv
<1>2. Now \in Nat /\ Now <= call.rest /\ call.kind \in Kinds
  BY <1>1, ChunkNow DEF Now, PcOK
<1> QED
  BY <1>1, <1>2, AdvanceFacts

LEMMA AdvanceShare ==
  ASSUME CInv, pc \in {"first", "burst"}, UNCHANGED version, NEW got,
         Advance(Share, got), call.kind = "read" => got \in Seq(Bt) /\ Len(got) = Share
  PROVE  /\ call'.kind = call.kind /\ call'.held = call.held
         /\ call'.ado = call.ado + Share /\ call'.rest = call.rest - Share
         /\ call.kind = "read" => /\ call'.data = call.data \o got
                                  /\ Len(call'.data) = Len(call.data) + Share
         /\ call.kind = "write" => call'.data = call.data
         /\ call'.ado + call'.rest = call.ado + call.rest
         /\ Share # call.rest => call'.ado % 4 = 0
<1>1. /\ Share \in Nat /\ Share <= call.rest /\ call.kind \in Kinds /\ CallOK
      /\ Lane = call.ado % 4 /\ call.ado \in Nat /\ call.rest \in Nat
      /\ Share = call.rest \/ Share = 4 - Lane
  BY WordFacts DEF CInv, TInv
<1>2. /\ call'.kind = call.kind /\ call'.held = call.held
      /\ call'.ado = call.ado + Share /\ call'.rest = call.rest - Share
      /\ call.kind = "read" => /\ call'.data = call.data \o got
                               /\ Len(call'.data) = Len(call.data) + Share
      /\ call.kind = "write" => call'.data = call.data
  BY <1>1, AdvanceFacts
<1>3. Share = 4 - Lane => (call.ado + Share) % 4 = 0
  BY <1>1, NextWord
<1>4. (call.ado + Share) + (call.rest - Share) = call.ado + call.rest
  BY <1>1
<1> QED
  BY <1>1, <1>2, <1>3, <1>4

(* What a transaction takes from the chip is as long as it should be.      *)
LEMMA TakenFacts ==
  ASSUME CInv
  PROVE  /\ pc = "data" => /\ FromWord(csr.data, 0, Now) \in Seq(Bt)
                           /\ Len(FromWord(csr.data, 0, Now)) = Now
                           /\ \A i \in 1 .. Now :
                                FromWord(csr.data, 0, Now)[i] = csr.data[0 + i - 1]
         /\ pc \in {"first", "burst"} /\ engine["read"].fifo # <<>> =>
              LET got == FromWord(Head(engine["read"].fifo), Lane, Share)
              IN  /\ got \in Seq(Bt) /\ Len(got) = Share
                  /\ \A i \in 1 .. Share :
                       got[i] = Head(engine["read"].fifo)[Lane + i - 1]
<1>1. ASSUME pc = "data"
      PROVE  /\ FromWord(csr.data, 0, Now) \in Seq(Bt)
             /\ Len(FromWord(csr.data, 0, Now)) = Now
             /\ \A i \in 1 .. Now : FromWord(csr.data, 0, Now)[i] = csr.data[0 + i - 1]
  <2>1. pc \in Steps /\ CallOK /\ PcOK
    BY <1>1 DEF Steps, InCsr, CInv, TInv
  <2>2. Now \in Nat /\ 0 \in Place /\ 0 + Now <= 4
    BY <2>1, ChunkNow DEF Now, Place
  <2>3. csr.data \in Word
    BY DEF CInv, TInv, ChipOK, CsrType
  <2> QED
    BY <2>2, <2>3, FromWordFacts
<1>2. ASSUME pc \in {"first", "burst"}, engine["read"].fifo # <<>>
      PROVE  LET got == FromWord(Head(engine["read"].fifo), Lane, Share)
             IN  /\ got \in Seq(Bt) /\ Len(got) = Share
                 /\ \A i \in 1 .. Share :
                      got[i] = Head(engine["read"].fifo)[Lane + i - 1]
  <2>1. engine["read"].fifo \in Seq(Word)
    BY DEF CInv, TInv, ChipOK, EngineType, Kinds
  <2>2. Head(engine["read"].fifo) \in Word
    BY <1>2, <2>1
  <2>3. Lane \in Place /\ Share \in Nat /\ Lane + Share <= 4
    BY <1>2, WordFacts
  <2> QED
    BY <2>2, <2>3, FromWordFacts
<1> QED
  BY <1>1, <1>2

(* Where the engine of the call is changed and nothing else of the chip.   *)
LEMMA EngineFacts ==
  ASSUME CInv, call.kind \in Kinds, NEW e, engine' = [engine EXCEPT ![call.kind] = e]
  PROVE  engine'[call.kind] = e /\ \A q \in Kinds \ {call.kind} : engine'[q] = engine[q]
BY DEF CInv, TInv, ChipOK

LEMMA CsrSteps ==
  ASSUME CInv, UNCHANGED version,
         PutData \/ GiveCommand \/ ReadDone \/ WriteDone \/ TakeData
  PROVE  Control'
<1>0. /\ pc \in InCsr /\ call.kind \in Kinds /\ resetting = 0
      /\ UNCHANGED <<engine, resetting>> /\ csr \in CsrType
  <2>1. pc \in InCsr /\ UNCHANGED <<engine, resetting>>
    BY DEF PutData, GiveCommand, DataPut, CommandGiven, ReadDone, WriteDone, TakeData,
           Stays, InCsr
  <2> QED
    BY <2>1 DEF CInv, Control, TInv, PcOK, Steps, ChipOK
<1>1. /\ call'.kind = call.kind
      /\ pc' \in {"cmd", "wait", "data", "put", "ok"}
  <2>1. CASE PutData \/ GiveCommand \/ ReadDone
    BY <2>1 DEF PutData, GiveCommand, ReadDone
  <2>2. CASE WriteDone
    BY <2>2, AdvanceNow DEF WriteDone, After
  <2>3. CASE TakeData
    BY <2>3, AdvanceNow, TakenFacts DEF TakeData, After
  <2> QED
    BY <2>1, <2>2, <2>3
<1>2. EngineControl'
  <2>1. pc \notin {"quiet", "error"}
    BY <1>0 DEF InCsr
  <2>2. \A k \in Kinds : engine[k].status # "abort"
    BY <1>0, <2>1 DEF CInv, Control, EngineControl
  <2> QED
    BY <1>0, <1>1, <2>2 DEF CInv, Control, EngineControl, Streaming
<1>3. CsrControl'
  <2>1. CASE PutData
    <3> DEFINE d == InWord(Pending(Now), 0)
    <3>1. csr' = [csr EXCEPT !.data = d] /\ pc = "put" /\ pc' = "cmd"
      BY <2>1 DEF PutData, DataPut
    <3> HIDE DEF d
    <3>2. csr'.busy = csr.busy
      BY <1>0, <3>1 DEF CsrType
    <3> QED
      BY <1>0, <1>1, <3>1, <3>2 DEF CInv, Control, CsrControl, Kinds
  <2>2. CASE GiveCommand
    <3> DEFINE n == Now
    <3>1. /\ csr' = [csr EXCEPT !.busy = TRUE, !.kind = call.kind, !.ado = call.ado,
                                !.size = n]
          /\ pc' = "wait" /\ UNCHANGED call
      BY <2>2 DEF GiveCommand, CommandGiven
    <3>2. Now' = n
      BY <3>1 DEF Now
    <3> HIDE DEF n
    <3>3. csr'.kind = call.kind /\ csr'.ado = call.ado /\ csr'.size = n
      BY <1>0, <3>1 DEF CsrType
    <3> QED
      BY <1>0, <3>1, <3>2, <3>3 DEF CsrControl, Kinds
  <2>3. CASE ReadDone
    <3>1. /\ UNCHANGED <<csr, call>> /\ ~csr.busy /\ pc = "wait"
      BY <2>3 DEF ReadDone, Stays
    <3>2. Now' = Now
      BY <3>1 DEF Now
    <3> QED
      BY <1>0, <3>1, <3>2 DEF CInv, Control, CsrControl, Kinds
  <2>4. CASE WriteDone \/ TakeData
    <3>1. csr' = csr /\ pc' \in {"put", "cmd", "ok"}
      BY <2>4 DEF WriteDone, TakeData, Stays, After
    <3>2. csr.busy => pc = "wait"
      BY <1>0 DEF CInv, Control, CsrControl, InCsr
    <3>3. ~csr.busy
      BY <2>4, <3>2 DEF WriteDone, TakeData
    <3> QED
      BY <3>1, <3>3 DEF CsrControl
  <2> QED
    BY <2>1, <2>2, <2>3, <2>4
<1> QED
  BY <1>0, <1>1, <1>2, <1>3 DEF Control

LEMMA PramIdle ==
  ASSUME CInv, pc \in InPram
  PROVE  /\ call.kind \in Kinds /\ resetting = 0 /\ ~csr.busy /\ csr \in CsrType
         /\ engine[call.kind] \in EngineType /\ engine \in [Kinds -> EngineType]
         /\ \A q \in Kinds : engine[q].status = "abort" =>
              engine[q].fifo = <<>> /\ q = call.kind /\ pc = "quiet"
<1>1. call.kind \in Kinds
  BY DEF CInv, TInv, PcOK, Steps
<1>2. resetting = 0 /\ ~csr.busy /\ csr \in CsrType
  BY <1>1 DEF CInv, Control, CsrControl, TInv, ChipOK, InPram
<1>3. engine[call.kind] \in EngineType /\ engine \in [Kinds -> EngineType]
  BY <1>1 DEF CInv, TInv, ChipOK
<1> QED
  BY <1>1, <1>2, <1>3 DEF CInv, Control, EngineControl, InPram

LEMMA WordControl ==
  ASSUME CInv, UNCHANGED <<csr, resetting>>, pc \in {"first", "burst"},
         engine'[call.kind].status = engine[call.kind].status,
         engine'[call.kind].ado = engine[call.kind].ado,
         engine'[call.kind].left = engine[call.kind].left,
         \A q \in Kinds \ {call.kind} : engine'[q] = engine[q],
         call'.kind = call.kind, call'.ado + call'.rest = call.ado + call.rest,
         Share # call.rest => call'.ado % 4 = 0,
         After(Share, IF pc = "first" THEN "header" ELSE "burst")
  PROVE  Control'
<1>1. pc \in InPram /\ pc \in Streaming
  BY DEF InPram, Streaming
<1>2. /\ call.kind \in Kinds /\ resetting = 0 /\ ~csr.busy /\ csr \in CsrType
      /\ engine[call.kind] \in EngineType /\ engine \in [Kinds -> EngineType]
      /\ \A q \in Kinds : engine[q].status = "abort" =>
           engine[q].fifo = <<>> /\ q = call.kind /\ pc = "quiet"
  BY <1>1, PramIdle
<1>5. pc' \in {"header", "burst", "ok"} /\ (pc' # "ok" => Share # call.rest)
  BY DEF After
<1>6. EngineControl'
  BY <1>1, <1>2, <1>5 DEF CInv, Control, EngineControl, Streaming, Kinds
<1> QED
  BY <1>2, <1>5, <1>6 DEF Control, CsrControl, InPram, Kinds

LEMMA PramSteps ==
  ASSUME CInv, UNCHANGED version,
         AskAbort \/ IsQuiet \/ GiveSpan \/ StartEngine \/ LookOn \/ PopWord \/ PushWord
  PROVE  Control'
<1> DEFINE k == call.kind
<1>0. /\ pc \in InPram /\ UNCHANGED <<csr, resetting>>
  BY DEF AskAbort, AbortAsked, IsQuiet, GiveSpan, SpanGiven, StartEngine, EngineStarted,
         LookOn, PopWord, WordPopped, PushWord, WordPushed, Stays, InPram
<1>1. k \in Kinds /\ resetting = 0 /\ ~csr.busy /\ csr \in CsrType
  <2>1. k \in Kinds
    BY <1>0 DEF CInv, TInv, PcOK, Steps
  <2> QED
    BY <1>0, <2>1 DEF CInv, Control, CsrControl, TInv, ChipOK, InPram
<1>2. engine[k] \in EngineType /\ engine \in [Kinds -> EngineType]
  BY <1>1 DEF CInv, TInv, ChipOK
<1>3. \A q \in Kinds : engine[q].status = "abort" =>
        engine[q].fifo = <<>> /\ q = k /\ pc = "quiet"
  BY <1>0, <1>1 DEF CInv, Control, EngineControl, InPram
<1>4. ASSUME call'.kind = k, pc' \in InPram \cup {"ok"}, EngineControl',
             pc' \in {"header", "burst"} => call'.ado % 4 = 0
      PROVE  Control'
  BY <1>0, <1>1, <1>4 DEF Control, CsrControl, InPram, Kinds
<1>5. CASE AskAbort
  <2> DEFINE e == [engine[k] EXCEPT !.status = "abort", !.fifo = <<>>]
  <2>1. /\ engine' = [engine EXCEPT ![k] = e]
        /\ call' = call /\ pc = "abort" /\ pc' = "quiet"
    BY <1>1, <1>2, <1>5 DEF AskAbort, AbortAsked, EngineType
  <2>2. e.status = "abort" /\ e.fifo = <<>>
    BY <1>2 DEF EngineType
  <2> HIDE DEF e
  <2>3. engine'[k] = e /\ \A q \in Kinds \ {k} : engine'[q] = engine[q]
    BY <1>1, <2>1, EngineFacts
  <2>4. EngineControl'
    BY <1>1, <1>3, <2>1, <2>2, <2>3 DEF CInv, Control, EngineControl, Streaming, Kinds
  <2> QED
    BY <1>4, <2>1, <2>4 DEF InPram
<1>6. CASE IsQuiet
  <2>1. /\ engine' = engine /\ call' = call /\ pc = "quiet" /\ pc' = "span"
        /\ engine[k].status # "abort"
    BY <1>6 DEF IsQuiet, Stays
  <2>2. EngineControl'
    BY <1>1, <1>3, <2>1 DEF CInv, Control, EngineControl, Streaming, Kinds
  <2> QED
    BY <1>4, <2>1, <2>2 DEF InPram
<1>7. CASE GiveSpan
  <2> DEFINE e == [engine[k] EXCEPT !.ado = call.ado, !.left = call.rest]
  <2>1. /\ engine' = [engine EXCEPT ![k] = e]
        /\ call' = call /\ pc = "span" /\ pc' = "go"
    BY <1>1, <1>2, <1>7 DEF GiveSpan, SpanGiven, EngineType
  <2>2. /\ e.status = engine[k].status /\ e.fifo = engine[k].fifo
        /\ e.ado = call.ado /\ e.left = call.rest
    BY <1>2 DEF EngineType
  <2> HIDE DEF e
  <2>3. engine'[k] = e /\ \A q \in Kinds \ {k} : engine'[q] = engine[q]
    BY <1>1, <2>1, EngineFacts
  <2>4. EngineControl'
    BY <1>1, <1>3, <2>1, <2>2, <2>3 DEF CInv, Control, EngineControl, Streaming, Kinds
  <2> QED
    BY <1>4, <2>1, <2>4 DEF InPram
<1>8. CASE StartEngine
  <2> DEFINE e == [engine[k] EXCEPT !.status = "run"]
  <2>1. /\ engine' = [engine EXCEPT ![k] = e]
        /\ call' = call /\ pc = "go" /\ pc' = "avail"
    BY <1>1, <1>2, <1>8 DEF StartEngine, EngineStarted, EngineType
  <2>2. /\ e.status = "run" /\ e.fifo = engine[k].fifo
        /\ e.ado = engine[k].ado /\ e.left = engine[k].left
    BY <1>2 DEF EngineType
  <2> HIDE DEF e
  <2>3. engine'[k] = e /\ \A q \in Kinds \ {k} : engine'[q] = engine[q]
    BY <1>1, <2>1, EngineFacts
  <2>4. EngineControl'
    BY <1>1, <1>3, <2>1, <2>2, <2>3 DEF CInv, Control, EngineControl, Streaming, Kinds
  <2> QED
    BY <1>4, <2>1, <2>4 DEF InPram
<1>9. CASE LookOn
  <2>1. /\ engine' = engine /\ call' = call /\ pc \in Streaming
        /\ pc' \in {"count", "first", "burst"}
        /\ pc' = "burst" => pc = "header"
    BY <1>9 DEF LookOn, Stays, Streaming
  <2>2. EngineControl'
    BY <1>1, <1>3, <2>1 DEF CInv, Control, EngineControl, Streaming, Kinds
  <2>3. pc' = "burst" => call'.ado % 4 = 0
    BY <2>1 DEF CInv, Control
  <2> QED
    BY <1>4, <2>1, <2>2, <2>3 DEF InPram
<1>11. CASE PopWord
  <2> DEFINE f == Tail(engine["read"].fifo)
             got == FromWord(Head(engine["read"].fifo), Lane, Share)
             e == [engine[k] EXCEPT !.fifo = f]
  <2>1. /\ k = "read" /\ pc \in {"first", "burst"} /\ engine["read"].fifo # <<>>
        /\ engine' = [engine EXCEPT ![k] = e]
        /\ Advance(Share, got)
        /\ After(Share, IF pc = "first" THEN "header" ELSE "burst")
    BY <1>1, <1>2, <1>11 DEF PopWord, WordPopped, EngineType
  <2>2. got \in Seq(Bt) /\ Len(got) = Share
    BY <2>1, TakenFacts
  <2> HIDE DEF f, got
  <2>3. e.status = engine[k].status /\ e.ado = engine[k].ado /\ e.left = engine[k].left
    BY <1>2 DEF EngineType
  <2> HIDE DEF e
  <2>4. engine'[k] = e /\ \A q \in Kinds \ {k} : engine'[q] = engine[q]
    BY <1>1, <2>1, EngineFacts
  <2>5. /\ call'.kind = call.kind /\ call'.ado + call'.rest = call.ado + call.rest
        /\ Share # call.rest => call'.ado % 4 = 0
    BY <2>1, <2>2, AdvanceShare
  <2> QED
    BY <1>0, <2>1, <2>3, <2>4, <2>5, WordControl
<1>12. CASE PushWord
  <2> DEFINE w == InWord(Pending(Share), Lane)
             f == Append(engine["write"].fifo, w)
             e == [engine[k] EXCEPT !.fifo = f]
  <2>1. /\ k = "write" /\ pc \in {"first", "burst"}
        /\ engine' = [engine EXCEPT ![k] = e]
        /\ Advance(Share, <<>>)
        /\ After(Share, IF pc = "first" THEN "header" ELSE "burst")
    BY <1>1, <1>2, <1>12 DEF PushWord, WordPushed, EngineType
  <2> HIDE DEF w, f
  <2>3. e.status = engine[k].status /\ e.ado = engine[k].ado /\ e.left = engine[k].left
    BY <1>2 DEF EngineType
  <2> HIDE DEF e
  <2>4. engine'[k] = e /\ \A q \in Kinds \ {k} : engine'[q] = engine[q]
    BY <1>1, <2>1, EngineFacts
  <2>5. /\ call'.kind = call.kind /\ call'.ado + call'.rest = call.ado + call.rest
        /\ Share # call.rest => call'.ado % 4 = 0
    BY <2>1, AdvanceShare
  <2> QED
    BY <1>0, <2>1, <2>3, <2>4, <2>5, WordControl
<1> QED
  BY <1>5, <1>6, <1>7, <1>8, <1>9, <1>11, <1>12

LEMMA ResetSteps ==
  ASSUME CInv, AskReset \/ ResetDone
  PROVE  Control'
<1>1. /\ call.kind = "reset" /\ UNCHANGED <<csr, engine, call>>
      /\ pc' \in {"rst_wait", "ok"}
  BY DEF AskReset, ResetAsked, ResetDone, Stays, CInv, TInv, PcOK
<1> QED
  BY <1>1 DEF CInv, Control, CsrControl, EngineControl, Streaming, Kinds

(* A call that fails leaves what it asked for behind.                      *)
LEMMA FailControl == ASSUME CInv, Fail PROVE Control'
<1>1. Touched
  BY TouchCases DEF Fail, CInv, TInv
<1>2. call' = call /\ pc' = "error" /\ pc # "error"
  BY DEF Fail, Running, Outcomes
<1>3. /\ csr \in CsrType /\ engine \in [Kinds -> EngineType] /\ PcOK
  BY DEF CInv, TInv, ChipOK
<1>4. ASSUME call'.kind \in Kinds, resetting' = 0, csr' = csr \/ csr'.kind = call.kind,
             \A q \in Kinds \ {call.kind} : engine'[q] = engine[q],
             engine'[call.kind].status = "abort" => engine'[call.kind].fifo = <<>>,
             call.kind = "read" => engine'["write"] = engine["write"]
      PROVE  Control'
  BY <1>2, <1>4 DEF CInv, Control, CsrControl, EngineControl, Streaming, Kinds
<1>5. CASE Stays
  BY <1>2, <1>5 DEF Stays, CInv, Control, CsrControl, EngineControl, Streaming, Kinds
<1>6. CASE DataPut \/ CommandGiven
  <2>1. /\ UNCHANGED <<engine, resetting>> /\ call.kind \in Kinds
        /\ resetting = 0
    BY <1>3, <1>6 DEF DataPut, CommandGiven, PcOK, Steps, InCsr, CInv, Control
  <2>2. csr.busy => csr.kind = call.kind
    BY <2>1 DEF CInv, Control, CsrControl
  <2>3. csr'.busy => csr'.kind = call.kind
    <3>1. CASE DataPut
      <4> DEFINE d == InWord(Pending(Now), 0)
      <4>1. csr' = [csr EXCEPT !.data = d]
        BY <3>1 DEF DataPut
      <4> HIDE DEF d
      <4>2. csr'.busy = csr.busy /\ csr'.kind = csr.kind
        BY <1>3, <4>1 DEF CsrType
      <4> QED
        BY <2>2, <4>2
    <3>2. CASE CommandGiven
      <4> DEFINE n == Now
      <4>1. csr' = [csr EXCEPT !.busy = TRUE, !.kind = call.kind, !.ado = call.ado,
                               !.size = n]
        BY <3>2 DEF CommandGiven
      <4> HIDE DEF n
      <4> QED
        BY <1>3, <4>1 DEF CsrType
    <3> QED
      BY <1>6, <3>1, <3>2
  <2> QED
    BY <1>2, <2>1, <2>3 DEF CInv, Control, CsrControl, EngineControl, Streaming, Kinds
<1>7. CASE AbortAsked \/ SpanGiven \/ EngineStarted \/ WordPopped \/ WordPushed
  <2>1. pc \in InPram /\ UNCHANGED <<csr, resetting>>
    BY <1>7 DEF AbortAsked, SpanGiven, EngineStarted, WordPopped, WordPushed, InPram
  <2>2. /\ call.kind \in Kinds /\ resetting = 0 /\ ~csr.busy
        /\ engine[call.kind] \in EngineType
        /\ \A q \in Kinds : engine[q].status = "abort" =>
             engine[q].fifo = <<>> /\ q = call.kind /\ pc = "quiet"
    BY <2>1, PramIdle
  <2>3. \A q \in Kinds \ {call.kind} : engine'[q] = engine[q]
    BY <1>3, <1>7, <2>2
       DEF AbortAsked, SpanGiven, EngineStarted, WordPopped, WordPushed, Kinds
  <2>4. engine'[call.kind].status = "abort" => engine'[call.kind].fifo = <<>>
    <3>1. CASE AbortAsked
      BY <1>3, <2>2, <3>1 DEF AbortAsked, EngineType
    <3>2. CASE SpanGiven
      BY <1>3, <2>2, <3>2 DEF SpanGiven, EngineType
    <3>3. CASE EngineStarted
      BY <1>3, <2>2, <3>3 DEF EngineStarted, EngineType
    <3>4. CASE WordPopped \/ WordPushed
      <4>1. engine[call.kind].status # "abort"
        BY <2>2, <3>4 DEF WordPopped, WordPushed
      <4>2. PICK f : engine' = [engine EXCEPT ![call.kind].fifo = f]
        BY <3>4 DEF WordPopped, WordPushed
      <4>3. engine'[call.kind].status = engine[call.kind].status
        BY <1>3, <2>2, <4>2 DEF EngineType
      <4> QED
        BY <4>1, <4>3
    <3> QED
      BY <1>7, <3>1, <3>2, <3>3, <3>4
  <2> QED
    BY <1>2, <1>4, <2>1, <2>2, <2>3, <2>4 DEF Kinds
<1>8. CASE ResetAsked
  <2>1. call.kind = "reset" /\ UNCHANGED <<csr, engine>>
    BY <1>3, <1>8 DEF ResetAsked, PcOK
  <2> QED
    BY <1>2, <2>1 DEF CInv, Control, CsrControl, EngineControl, Streaming, Kinds
<1> QED
  BY <1>1, <1>5, <1>6, <1>7, <1>8 DEF Touched

LEMMA AccessControl == ASSUME CInv, Access PROVE Control'
<1>1. UNCHANGED version /\ PcOK
  BY DEF Access, application, CInv, TInv
<1> QED
  BY <1>1, TransactCases, CsrSteps, PramSteps, ResetSteps, FailControl DEF Access

(* A call that begins finds the chip with nothing left to do.              *)
LEMMA OkSettled ==
  ASSUME CInv, pc = "ok", call.kind \in Kinds, call.kind = "read"
  PROVE  Settled
BY DEF CInv, Control, CsrControl, EngineControl, Settled, Kinds

(* What a step is for the driver and the chip: one of theirs, the begin or *)
(* the end of a call, or something that concerns neither.                  *)
WriteSpan(c) == \/ c.ado = OUT_OFFSET /\ c.rest = OUT_LEN
                \/ \E s \in DirectWrites : c.ado = s.ado /\ c.rest = s.len
Begins(c) ==
  /\ Settled /\ Issue(c) /\ Fits(c, Old') /\ version' \in {version, version + 1}
  /\ UNCHANGED <<mem, csr, engine, resetting>>
  /\ c.kind = "write" => /\ \E v \in Nat : c.data = Bytes(c.ado, c.rest, v)
                         /\ WriteSpan(c)
  /\ c.kind = "reset" => c.ado # 0
Ends ==
  /\ call' = NoCall /\ pc \in Outcomes
  /\ IF pc = "ok" THEN Landed ELSE UNCHANGED expect
  /\ UNCHANGED <<mem, csr, engine, resetting, pc, version>>
Elsewhere ==
  /\ (Bus \/ UNCHANGED mem) /\ version' \in {version, version + 1}
  /\ UNCHANGED <<csr, engine, resetting, call, pc, expect>>

LEMMA WriteBegins ==
  ASSUME NEW ado, NEW len \in Nat, NEW v \in Nat
  PROVE  LET c == WriteCall(ado, Bytes(ado, len, v))
         IN  c.data = Bytes(c.ado, c.rest, v) /\ c.ado = ado /\ c.rest = len
<1> DEFINE b == Bytes(ado, len, v)
<1>1. Len(b) = len
  BY DEF Bytes
<1> HIDE DEF b
<1>2. LET c == WriteCall(ado, b) IN c.data = b /\ c.ado = ado /\ c.rest = len
  BY <1>1 DEF WriteCall
<1> QED
  BY <1>2 DEF b

LEMMA PollCases == ASSUME CInv, Poll PROVE (\E c : Begins(c)) \/ Ends
<1>0. UNCHANGED <<mem, csr, engine, resetting, version>>
  BY DEF Poll, PollBegin, StageDone, Report, PollFails, chip, application
<1>n. out_buf \in Nat /\ OUT_LEN \in Nat
  BY Sizes DEF CInv, TInv, AppOK, Old
<1>1. ASSUME NEW i \in 1 .. 5, Settled, Issue(Stages[i])
      PROVE  \E c : Begins(c)
  <2>1. PICK c : c = Stages[i]
    OBVIOUS
  <2>2. Fits(c, Old') /\ Old' = Old
    BY <1>0, <2>1, StageFits, SameTypes DEF CInv
  <2>3. c.kind = "write" => /\ \E v \in Nat : c.data = Bytes(c.ado, c.rest, v)
                            /\ WriteSpan(c)
    <3>1. CASE i = 5
      <4>1. c = WriteCall(OUT_OFFSET, Bytes(OUT_OFFSET, OUT_LEN, out_buf))
        BY <2>1, <3>1, StageFits DEF CInv
      <4>2. c.data = Bytes(c.ado, c.rest, out_buf) /\ c.ado = OUT_OFFSET /\ c.rest = OUT_LEN
        BY <1>n, <4>1, WriteBegins
      <4> QED
        BY <1>n, <4>2 DEF WriteSpan
    <3>2. CASE i # 5
      BY <2>1, <3>2, StageFits DEF CInv, ReadCall
    <3> QED
      BY <3>1, <3>2
  <2>4. c.kind # "reset"
    BY <2>1, StageFits DEF CInv, ReadCall, WriteCall
  <2> QED
    BY <1>0, <1>1, <2>1, <2>2, <2>3, <2>4 DEF Begins
<1>2. CASE PollBegin
  BY <1>1, <1>2 DEF PollBegin
<1>3. CASE StageDone
  <2>1. call.kind = "read" /\ pc = "ok" /\ stage + 1 \in 1 .. 5
    BY <1>3 DEF StageDone, CInv, TInv, StageOK
  <2>2. Settled
    BY <2>1, OkSettled DEF Kinds
  <2> QED
    BY <1>1, <1>3, <2>1, <2>2 DEF StageDone
<1>4. CASE Report
  BY <1>0, <1>4 DEF Report, Ends, Outcomes
<1>5. CASE PollFails
  BY <1>0, <1>5 DEF PollFails, Ends, Outcomes, application
<1> QED
  BY <1>2, <1>3, <1>4, <1>5 DEF Poll

LEMMA DirectCases == ASSUME CInv, Direct PROVE (\E c : Begins(c)) \/ Ends
<1>1. ASSUME NEW c, CallBegin(c), Fits(c, Old'), version' \in {version, version + 1},
             c.kind = "write" => /\ \E v \in Nat : c.data = Bytes(c.ado, c.rest, v)
                                 /\ WriteSpan(c),
             c.kind = "reset" => c.ado # 0
      PROVE  Begins(c)
  BY <1>1 DEF CallBegin, Begins, chip
<1>2. CASE DirectRead
  <2>1. PICK s \in DirectReads : CallBegin(ReadCall(s.ado, s.len))
    BY <1>2 DEF DirectRead
  <2>2. version' = version
    BY <1>2 DEF DirectRead
  <2>3. s.ado \in Nat /\ s.len \in Nat \ {0} /\ s.ado + s.len <= MEM_SIZE
    BY SlaveAssumption
  <2>4. Fits(ReadCall(s.ado, s.len), Old')
    BY <2>3, ReadFits
  <2>5. ReadCall(s.ado, s.len).kind \notin {"write", "reset"}
    BY DEF ReadCall
  <2> QED
    BY <1>1, <2>1, <2>2, <2>4, <2>5
<1>3. CASE DirectWrite
  <2>1. PICK s \in DirectWrites :
          Fresh /\ CallBegin(WriteCall(s.ado, Bytes(s.ado, s.len, version)))
    BY <1>3 DEF DirectWrite
  <2>2. version' = version + 1 /\ version \in Old' /\ version \in Nat
    BY <2>1, FreshFacts DEF CInv
  <2>3. s.ado \in Nat /\ s.len \in Nat \ {0} /\ s.ado + s.len <= MEM_SIZE
    BY SlaveAssumption
  <2>4. PICK c : c = WriteCall(s.ado, Bytes(s.ado, s.len, version))
    OBVIOUS
  <2>5. Fits(c, Old')
    BY <2>2, <2>3, <2>4, WriteFits
  <2>6. c.data = Bytes(c.ado, c.rest, version) /\ c.kind # "reset" /\ WriteSpan(c)
    BY <2>2, <2>3, <2>4, WriteBegins DEF WriteCall, WriteSpan
  <2> QED
    BY <1>1, <2>1, <2>2, <2>4, <2>5, <2>6
<1>4. CASE DirectReset
  <2>1. Fresh /\ CallBegin(ResetCall(version))
    BY <1>4 DEF DirectReset
  <2>2. version' = version + 1 /\ version \in Old' /\ version \in Nat
    BY <2>1, FreshFacts DEF CInv
  <2>3. PICK c : c = ResetCall(version)
    OBVIOUS
  <2>4. Fits(c, Old') /\ c.kind # "write" /\ c.ado # 0
    <3>1. version # 0
      BY DEF CInv, TInv, AppOK
    <3> QED
      BY <2>2, <2>3, <3>1, ResetFits DEF Old, ResetCall
  <2> QED
    BY <1>1, <2>1, <2>2, <2>3, <2>4
<1>5. CASE DirectReturns
  BY <1>5 DEF DirectReturns, Ends, Running, chip
<1> QED
  BY <1>2, <1>3, <1>4, <1>5 DEF Direct

LEMMA NextCases ==
  ASSUME CInv, [Next]_vars
  PROVE  \/ Access \/ Chip \/ (\E c : Begins(c)) \/ Ends \/ Elsewhere
<1>1. CASE Outputs
  BY <1>1 DEF Outputs, Elsewhere, Fresh, chip, driver
<1>2. CASE Bus
  BY <1>2 DEF Bus, Fresh, Elsewhere, driver
<1>3. CASE UNCHANGED vars
  BY <1>3 DEF vars, Elsewhere, chip, driver, application
<1> QED
  BY <1>1, <1>2, <1>3, PollCases, DirectCases DEF Next

LEMMA IssueControl ==
  ASSUME CInv, NEW c, Begins(c)
  PROVE  Control'
<1>0. /\ call'.kind = c.kind /\ pc' = Entry(c) /\ c.kind \in Kinds \cup {"reset"}
  BY IssueTypes DEF Begins, CInv, Fits
<1>1. /\ pc' \in {"rst", "abort", "cmd", "put"}
      /\ pc' = "rst" => c.kind = "reset"
  BY <1>0 DEF Entry
<1>2. /\ ~csr'.busy /\ resetting' = 0 /\ engine'["write"].fifo = <<>>
      /\ \A k \in Kinds : engine'[k].status # "abort"
  BY DEF Settled, Kinds, Begins
<1> QED
  BY <1>0, <1>1, <1>2 DEF Control, CsrControl, EngineControl, Streaming, Kinds

(* A call ends and leaves the chip as it is.                               *)
LEMMA EndControl == ASSUME CInv, Ends PROVE Control'
<1>1. call'.kind = "none" /\ pc' \in Outcomes
  BY DEF NoCall, Ends
<1> QED
  BY <1>1 DEF CInv, Control, CsrControl, EngineControl, Streaming, Kinds, Outcomes, Ends

LEMMA ElsewhereControl == ASSUME CInv, Elsewhere PROVE Control'
<1>1. Now' = Now
  BY DEF Now, Elsewhere
<1> QED
  BY <1>1 DEF CInv, Control, CsrControl, EngineControl, Elsewhere

LEMMA InitControl == Init => Control
BY DEF Init, ChipInit, DriverInit, IdleCsr, IdleEngine, NoCall, Control, CsrControl,
       EngineControl, Streaming, Kinds

LEMMA StepControl == CInv /\ [Next]_vars => CInv'
<1> SUFFICES ASSUME CInv, [Next]_vars PROVE CInv'
  OBVIOUS
<1>1. TInv'
  BY StepTypes DEF CInv
<1>2. Control'
  BY NextCases, AccessControl, ChipControl, IssueControl, EndControl, ElsewhereControl
<1> QED
  BY <1>1, <1>2 DEF CInv

LEMMA ControlInvariant == Spec => []CInv
<1>1. Init => CInv
  BY InitTypes, InitControl DEF CInv
<1> QED
  BY <1>1, StepControl, PTL DEF Spec

-----------------------------------------------------------------------------
(* What a write has on its way: in the CSR data register, in the FIFO, or  *)
(* a reset not yet done.  Byte by byte it is meant for the address it goes *)
(* to, and has a version the application can have there.                   *)
At(a, base) == (a \div 4) - (base \div 4) + 1
Queue == engine["write"]
Free  == Cell \ (BusOwned["al"] \cup BusOwned["image"])

Commanded(a) == csr.busy /\ csr.kind = "write" /\ a \in csr.ado .. csr.ado + csr.size - 1
Queued(a) == /\ a \in Queue.ado .. Queue.ado + Queue.left - 1
             /\ At(a, Queue.ado) <= Len(Queue.fifo)
Flying(a) == Commanded(a) \/ Queued(a) \/ resetting # 0

Mine(a) == IF call.kind = "write" THEN expect[a] \cap {Ver(call)} ELSE expect[a]
MeantAt(a) == [at : {a}, ver : Mine(a)]
WriteStart == call.ado - (Len(call.data) - call.rest)

Placed(a) == /\ mem[a].at = a
             /\ a \in Free => mem[a].ver \in expect[a] \/ Flying(a)
CommandMeant(a) == Commanded(a) => csr.data[a - csr.ado] \in MeantAt(a)
QueueMeant(a) == Queued(a) => Queue.fifo[At(a, Queue.ado)][a % 4] \in MeantAt(a)
ResetMeant(a) == resetting # 0 => /\ resetting \in expect[a]
                                  /\ call.kind = "reset" => resetting = call.ado
InChip(a) == Placed(a) /\ CommandMeant(a) /\ QueueMeant(a) /\ ResetMeant(a)

Asked(a) ==
  call.kind = "write" /\ a \in WriteStart .. WriteStart + Len(call.data) - 1 =>
    /\ Ver(call) \in expect[a]
    /\ call.data[a - WriteStart + 1] = Byte(a, Ver(call))
Sent(a) ==
  call.kind = "write" /\ a \in Free /\ a \in WriteStart .. call.ado - 1 =>
    mem[a].ver = Ver(call) \/ Flying(a)
PutReady(a) ==
  call.kind = "write" /\ pc = "cmd" /\ a \in call.ado .. call.ado + Now - 1 =>
    csr.data[a - call.ado] = Byte(a, Ver(call))
CommandDone(a) ==
  /\ call.kind = "write" /\ pc = "wait" /\ ~csr.busy
  /\ a \in Free /\ a \in csr.ado .. csr.ado + csr.size - 1
  => mem[a].ver = Ver(call)
InWrite(a) == Asked(a) /\ Sent(a) /\ PutReady(a) /\ CommandDone(a)

InReset(a) ==
  call.kind = "reset" =>
    /\ call.ado # 0 /\ call.ado \in expect[a]
    /\ a \in Free /\ ((pc = "rst_wait" /\ resetting = 0) \/ pc = "ok") =>
         mem[a].ver = call.ado
QueueRuns ==
  call.kind = "write" /\ pc \in Streaming =>
    /\ Queue.ado <= call.ado
    /\ call.ado \div 4 = (Queue.ado \div 4) + Len(Queue.fifo)
    /\ pc \in {"avail", "count", "first"} => Queue.ado = call.ado
WInv == CInv /\ QueueRuns /\ \A a \in Cell : InChip(a) /\ InWrite(a) /\ InReset(a)

LEMMA AtFacts ==
  ASSUME NEW a \in Nat, NEW base \in Nat, base <= a
  PROVE  /\ At(a, base) \in Nat /\ At(a, base) # 0
         /\ \A n \in Nat : At(a, base) <= n <=> a \div 4 < (base \div 4) + n
BY DEF At

LEMMA ChipKinds ==
  ASSUME CInv
  PROVE  /\ engine \in [Kinds -> EngineType]
         /\ Queue \in EngineType /\ Queue.ado \in Nat /\ Queue.left \in Nat
         /\ Queue.fifo \in Seq(Word) /\ Len(Queue.fifo) \in Nat
         /\ csr \in CsrType /\ csr.ado \in Nat /\ csr.size \in Nat
         /\ csr.size \in {1, 2, 4} /\ csr.data \in Word
         /\ csr.ado + csr.size <= MEM_SIZE
         /\ Queue.ado + Queue.left <= MEM_SIZE
         /\ resetting \in Nat /\ mem \in [Cell -> Bt]
         /\ Cell \subseteq Nat /\ MEM_SIZE \in Nat
<1>1. engine \in [Kinds -> EngineType]
  BY DEF CInv, TInv, ChipOK
<1>2. Queue \in EngineType /\ Queue.ado + Queue.left <= MEM_SIZE
  BY <1>1 DEF Queue, Kinds, CInv, TInv, ChipOK
<1>3. /\ Queue.ado \in Nat /\ Queue.left \in Nat
      /\ Queue.fifo \in Seq(Word)
  BY <1>2 DEF EngineType
<1>4. csr \in CsrType /\ csr.ado + csr.size <= MEM_SIZE
  BY DEF CInv, TInv, ChipOK
<1>5. resetting \in Nat /\ mem \in [Cell -> Bt]
  BY DEF CInv, TInv, ChipOK, Old
<1> QED
  BY <1>1, <1>2, <1>3, <1>4, <1>5, Sizes DEF CsrType

LEMMA NothingQueued ==
  ASSUME CInv, Queue.fifo = <<>> \/ Queue.left = 0, NEW a \in Cell
  PROVE  ~Queued(a)
<1>1. a \in Nat /\ Queue.ado \in Nat /\ Queue.left \in Nat
  BY ChipKinds
<1>2. CASE Queue.left = 0
  BY <1>1, <1>2 DEF Queued
<1>3. CASE Queue.fifo = <<>>
  <2>1. Len(Queue.fifo) = 0
    BY <1>3
  <2> SUFFICES ASSUME Queue.ado <= a, At(a, Queue.ado) <= 0 PROVE FALSE
    BY <1>1, <2>1 DEF Queued
  <2>2. At(a, Queue.ado) \in Nat /\ At(a, Queue.ado) # 0
    BY <1>1, AtFacts
  <2> QED
    BY <2>2
<1> QED
  BY <1>2, <1>3

LEMMA SettledFree ==
  ASSUME CInv, Settled, NEW a \in Cell
  PROVE  ~Flying(a) /\ ~Commanded(a) /\ ~Queued(a) /\ resetting = 0 /\ ~csr.busy
<1>1. Queue.fifo = <<>> /\ ~csr.busy /\ resetting = 0
  BY DEF Settled, Queue
<1> QED
  BY <1>1, NothingQueued DEF Flying, Commanded

(* The version of the bytes of a call does not change while it runs.       *)
LEMMA SameMeant ==
  ASSUME UNCHANGED expect, call'.kind = call.kind,
         call.kind = "write" => call'.data = call.data, NEW a
  PROVE  MeantAt(a)' = MeantAt(a) /\ (call.kind = "write" => Ver(call)' = Ver(call))
<1>1. call.kind = "write" => Ver(call)' = Ver(call)
  BY DEF Ver
<1> QED
  BY <1>1 DEF MeantAt, Mine

LEMMA MeantFacts ==
  ASSUME NEW a, NEW b \in MeantAt(a)
  PROVE  /\ b.at = a /\ b.ver \in expect[a]
         /\ call.kind = "write" => b.ver = Ver(call)
BY DEF MeantAt, Mine

LEMMA ByteMeant ==
  ASSUME NEW a, call.kind = "write", Ver(call) \in expect[a]
  PROVE  Byte(a, Ver(call)) \in MeantAt(a)
BY DEF MeantAt, Mine, Byte

-----------------------------------------------------------------------------
(* A step of the chip: at each address what was on its way has come, or    *)
(* the memory and what is on its way are as before.                        *)
LEMMA ChipCells ==
  ASSUME WInv, NEW a \in Cell, UNCHANGED <<call, pc, expect>>,
         \/ mem'[a] \in MeantAt(a)
         \/ mem'[a] = mem[a] /\ (Flying(a) => Flying(a)')
  PROVE  Placed(a)' /\ Asked(a)' /\ Sent(a)'
<1>1. InChip(a) /\ InWrite(a)
  BY DEF WInv
<1>2. WriteStart' = WriteStart /\ Ver(call)' = Ver(call)
  BY DEF WriteStart, Ver
<1>3. \/ /\ mem'[a].at = a /\ mem'[a].ver \in expect[a]
         /\ call.kind = "write" => mem'[a].ver = Ver(call)
      \/ mem'[a] = mem[a] /\ (Flying(a) => Flying(a)')
  BY MeantFacts
<1>4. Placed(a)'
  BY <1>1, <1>3 DEF Placed, InChip, Free
<1>5. Asked(a)'
  BY <1>1, <1>2 DEF Asked, InWrite
<1>6. Sent(a)'
  BY <1>1, <1>2, <1>3 DEF Sent, InWrite, Free
<1> QED
  BY <1>4, <1>5, <1>6

LEMMA ChipCsrCells ==
  ASSUME WInv, ChipCsr, UNCHANGED <<expect, version>>, NEW a \in Cell
  PROVE  InChip(a)' /\ InWrite(a)' /\ InReset(a)'
<1>0. /\ InChip(a) /\ InWrite(a) /\ InReset(a) /\ CInv
      /\ UNCHANGED <<call, pc, expect, engine, resetting>> /\ csr.busy
      /\ ~csr'.busy /\ csr'.kind = csr.kind /\ csr'.ado = csr.ado
      /\ csr'.size = csr.size
  <2>1. /\ csr \in CsrType /\ UNCHANGED <<call, pc, engine, resetting>> /\ csr.busy
    BY ChipKinds DEF WInv, ChipCsr, driver
  <2> DEFINE d == InWord(Fetch(csr.ado, csr.size), 0)
  <2>2. csr' = [csr EXCEPT !.busy = FALSE, !.data = d]
        \/ csr' = [csr EXCEPT !.busy = FALSE]
    BY DEF ChipCsr
  <2> HIDE DEF d
  <2> QED
    BY <2>1, <2>2 DEF WInv, CsrType
<1>1. /\ MeantAt(a)' = MeantAt(a) /\ Queued(a)' = Queued(a) /\ Now' = Now
      /\ (call.kind = "write" => Ver(call)' = Ver(call)) /\ ~Commanded(a)'
  BY <1>0, SameMeant DEF Queued, Queue, Commanded, Now
<1>2. /\ call.kind \in Kinds => pc \in {"wait", "error"} /\ csr.kind = call.kind
      /\ call.kind # "reset"
  BY <1>0 DEF CInv, Control, CsrControl
<1>3. CASE csr.kind = "read"
  <2>1. mem' = mem
    BY <1>3 DEF ChipCsr
  <2>2. ~Commanded(a)
    BY <1>3 DEF Commanded
  <2>3. Flying(a) => Flying(a)'
    BY <1>0, <1>1, <2>2 DEF Flying
  <2>4. Placed(a)' /\ Asked(a)' /\ Sent(a)'
    BY <1>0, <2>1, <2>3, ChipCells
  <2>5. call.kind # "write"
    BY <1>2, <1>3 DEF Kinds
  <2> QED
    BY <1>0, <1>1, <1>2, <2>1, <2>4, <2>5
       DEF InChip, CommandMeant, QueueMeant, Queue, ResetMeant, InWrite, PutReady,
           CommandDone, InReset
<1>4. CASE csr.kind # "read"
  <2>1. csr.kind = "write" /\ csr.data \in Word /\ csr.ado \in Nat /\ csr.size \in Nat
        /\ csr.size <= 4 /\ mem \in [Cell -> Bt] /\ a \in Nat
    <3>1. csr.size <= 4
      BY <1>0, ChipKinds
    <3> QED
      BY <1>0, <1>4, <3>1, ChipKinds DEF CsrType, Kinds
  <2> DEFINE d == FromWord(csr.data, 0, csr.size)
  <2>2. /\ d \in Seq(Bt) /\ Len(d) = csr.size
        /\ \A i \in 1 .. csr.size : d[i] = csr.data[0 + i - 1]
    <3>1. 0 \in Place /\ 0 + csr.size <= 4
      BY <2>1 DEF Place
    <3> QED
      BY <2>1, <3>1, FromWordFacts
  <2>3. mem' = Stored(csr.ado, d)
    BY <1>4 DEF ChipCsr
  <2> HIDE DEF d
  <2>4. mem'[a] = IF a \in csr.ado .. csr.ado + csr.size - 1
                  THEN d[a - csr.ado + 1] ELSE mem[a]
    BY <2>1, <2>2, <2>3, StoredFacts
  <2>5. Commanded(a) <=> a \in csr.ado .. csr.ado + csr.size - 1
    BY <1>0, <2>1 DEF Commanded
  <2>6. Commanded(a) => mem'[a] \in MeantAt(a)
    <3> SUFFICES ASSUME Commanded(a) PROVE mem'[a] \in MeantAt(a)
      OBVIOUS
    <3>1. a - csr.ado + 1 \in 1 .. csr.size /\ 0 + (a - csr.ado + 1) - 1 = a - csr.ado
      BY <2>1, <2>5
    <3>2. mem'[a] = csr.data[a - csr.ado]
      BY <2>2, <2>4, <2>5, <3>1
    <3> QED
      BY <1>0, <3>2 DEF InChip, CommandMeant
  <2>7. ~Commanded(a) => mem'[a] = mem[a]
    BY <2>4, <2>5
  <2>8. ~Commanded(a) => (Flying(a) => Flying(a)')
    BY <1>0, <1>1 DEF Flying
  <2>9. Placed(a)' /\ Asked(a)' /\ Sent(a)'
    BY <1>0, <2>6, <2>7, <2>8, ChipCells
  <2>10. CommandDone(a)'
    <3> SUFFICES ASSUME call.kind = "write", Commanded(a) PROVE mem'[a].ver = Ver(call)
      BY <1>0, <1>1, <2>5 DEF CommandDone
    <3> QED
      BY <2>6, MeantFacts
  <2> QED
    BY <1>0, <1>1, <1>2, <2>9, <2>10
       DEF InChip, CommandMeant, QueueMeant, Queue, ResetMeant, InWrite, PutReady,
           InReset, Kinds
<1> QED
  BY <1>3, <1>4

(* Where the queue of a write is not touched, or is empty before and after.*)
LEMMA QuietCells ==
  ASSUME WInv, NEW a \in Cell, UNCHANGED <<mem, csr, resetting, call, pc, expect>>,
         Queue' = Queue \/ (~Queued(a) /\ ~Queued(a)')
  PROVE  InChip(a)' /\ InWrite(a)' /\ InReset(a)'
<1>1. InChip(a) /\ InWrite(a) /\ InReset(a)
  BY DEF WInv
<1>2. /\ MeantAt(a)' = MeantAt(a) /\ Now' = Now /\ Commanded(a)' = Commanded(a)
      /\ (call.kind = "write" => Ver(call)' = Ver(call))
  BY SameMeant DEF Commanded, Now
<1>3. Queued(a)' = Queued(a) /\ Flying(a)' = Flying(a)
  BY <1>2 DEF Queued, Flying
<1>4. Placed(a)' /\ Asked(a)' /\ Sent(a)'
  BY <1>3, ChipCells
<1>5. CommandMeant(a)' /\ ResetMeant(a)' /\ PutReady(a)' /\ CommandDone(a)' /\ InReset(a)'
  BY <1>1, <1>2 DEF InChip, InWrite, CommandMeant, ResetMeant, PutReady, CommandDone,
                    InReset, Free
<1>6. QueueMeant(a)'
  BY <1>1, <1>2, <1>3 DEF InChip, QueueMeant
<1> QED
  BY <1>4, <1>5, <1>6 DEF InChip, InWrite

LEMMA ChipAbortCells ==
  ASSUME WInv, ChipAbort \/ ChipFill, UNCHANGED <<expect, version>>, NEW a \in Cell
  PROVE  InChip(a)' /\ InWrite(a)' /\ InReset(a)'
<1>0. CInv /\ UNCHANGED <<mem, csr, resetting, call, pc, expect>>
  BY DEF WInv, ChipAbort, ChipFill, driver
<1>1. engine \in [Kinds -> EngineType]
  BY <1>0, ChipKinds
<1>2. CASE ChipFill
  <2>1. Queue' = Queue
    BY <1>1, <1>2 DEF ChipFill, Queue, Kinds
  <2> QED
    BY <1>0, <2>1, QuietCells
<1>3. CASE ChipAbort
  <2>1. PICK k \in Kinds : /\ engine[k].status = "abort"
                           /\ engine' = [engine EXCEPT ![k] = IdleEngine]
    BY <1>3 DEF ChipAbort, Kinds
  <2>2. CASE k = "read"
    <3>1. Queue' = Queue
      BY <1>1, <2>1, <2>2 DEF Queue, Kinds
    <3> QED
      BY <1>0, <3>1, QuietCells
  <2>3. CASE k = "write"
    <3>1. Queue.fifo = <<>>
      BY <1>0, <2>1, <2>3 DEF CInv, Control, EngineControl, Queue
    <3>2. Queue' = IdleEngine
      BY <1>1, <2>1, <2>3 DEF Queue, Kinds
    <3>3. ~Queued(a)'
      BY <3>2 DEF Queued, IdleEngine
    <3>4. ~Queued(a)
      BY <1>0, <3>1, NothingQueued
    <3> QED
      BY <1>0, <3>3, <3>4, QuietCells
  <2> QED
    BY <2>2, <2>3 DEF Kinds
<1> QED
  BY <1>2, <1>3

LEMMA ChipResetCells ==
  ASSUME WInv, ChipReset, UNCHANGED <<expect, version>>, NEW a \in Cell
  PROVE  InChip(a)' /\ InWrite(a)' /\ InReset(a)'
<1>1. /\ mem'[a] = Byte(a, resetting) /\ resetting # 0 /\ resetting' = 0
      /\ csr'.busy = FALSE /\ Queue' = IdleEngine /\ UNCHANGED <<call, pc, expect>>
  BY DEF ChipReset, Wiped, IdleCsr, driver, Queue
<1>2. InReset(a) /\ ResetMeant(a) /\ call.kind # "write"
  BY <1>1 DEF WInv, InChip, CInv, Control, Kinds
<1>3. mem'[a].at = a /\ mem'[a].ver = resetting /\ resetting \in expect[a]
      /\ (call.kind = "reset" => resetting = call.ado)
  BY <1>1, <1>2 DEF Byte, ResetMeant
<1>4. ~Queued(a)' /\ ~Commanded(a)'
  BY <1>1 DEF Queued, IdleEngine, Commanded
<1>5. InChip(a)'
  BY <1>1, <1>3, <1>4 DEF InChip, Placed, CommandMeant, QueueMeant, ResetMeant
<1>6. InWrite(a)'
  BY <1>1, <1>2 DEF InWrite, Asked, Sent, PutReady, CommandDone
<1>7. InReset(a)'
  BY <1>1, <1>2, <1>3 DEF InReset
<1> QED
  BY <1>5, <1>6, <1>7

LEMMA DrainRuns ==
  ASSUME NEW ado \in Nat, NEW left \in Nat, NEW h \in Nat, NEW n \in Nat,
         NEW c \in Nat, NEW r \in Nat, r # 0, n # 0,
         h <= left, (ado % 4) + h <= 4, h = left \/ h = 4 - (ado % 4),
         ado <= c, c \div 4 = (ado \div 4) + n, ado + left = c + r
  PROVE  ado + h <= c /\ c \div 4 = ((ado + h) \div 4) + (n - 1)
<1>1. c >= ado + (4 - (ado % 4))
  OBVIOUS
<1>2. ado + h <= c
  BY <1>1
<1>3. h = 4 - (ado % 4)
  BY <1>1
<1>4. (ado + h) \div 4 = (ado \div 4) + 1
  BY <1>3, NextWord
<1> QED
  BY <1>2, <1>4

LEMMA DrainFacts ==
  ASSUME CInv, ChipDrain, UNCHANGED version
  PROVE  /\ Queue.fifo # <<>> /\ Queue.status = "run"
         /\ UNCHANGED <<csr, resetting, call, pc>>
         /\ Handled(Queue) \in Nat /\ Handled(Queue) <= Queue.left
         /\ (Queue.ado % 4) + Handled(Queue) <= 4
         /\ Handled(Queue) = Queue.left \/ Handled(Queue) = 4 - (Queue.ado % 4)
         /\ Queue'.ado = Queue.ado + Handled(Queue)
         /\ Queue'.left = Queue.left - Handled(Queue)
         /\ Queue'.fifo = Tail(Queue.fifo)
         /\ Len(Queue'.fifo) = Len(Queue.fifo) - 1 /\ Len(Queue.fifo) # 0
         /\ \A i \in 1 .. Len(Queue.fifo) - 1 : Queue'.fifo[i] = Queue.fifo[i + 1]
         /\ \A a \in Cell :
              mem'[a] = IF a \in Queue.ado .. Queue.ado + Handled(Queue) - 1
                        THEN Queue.fifo[1][(Queue.ado % 4) + (a - Queue.ado)]
                        ELSE mem[a]
<1> DEFINE h == Handled(Queue)
           l == Queue.ado % 4
           f == Tail(Queue.fifo)
           d == FromWord(Head(Queue.fifo), l, h)
<1>1. /\ engine' = [engine EXCEPT !["write"] = Ran(Queue, f)]
      /\ mem' = Stored(Queue.ado, d) /\ Queue.fifo # <<>> /\ Queue.status = "run"
      /\ UNCHANGED <<csr, resetting, call, pc>>
  BY DEF ChipDrain, Queue, driver
<1>2. /\ Queue \in EngineType /\ Queue.ado + Queue.left <= MEM_SIZE
      /\ Queue.fifo \in Seq(Word) /\ engine \in [Kinds -> EngineType]
      /\ mem \in [Cell -> Bt] /\ Queue.ado \in Nat
  BY ChipKinds
<1>3. /\ f \in Seq(Word) /\ Len(f) = Len(Queue.fifo) - 1 /\ Len(Queue.fifo) # 0
      /\ \A i \in 1 .. Len(Queue.fifo) - 1 : f[i] = Queue.fifo[i + 1]
      /\ Head(Queue.fifo) = Queue.fifo[1] /\ Head(Queue.fifo) \in Word
  BY <1>1, <1>2
<1>4. /\ l \in Place /\ h \in Nat /\ h <= Queue.left /\ l + h <= 4
      /\ h = Queue.left \/ h = 4 - l
  BY <1>2, HandledFacts
<1>5. /\ d \in Seq(Bt) /\ Len(d) = h
      /\ \A i \in 1 .. h : d[i] = Queue.fifo[1][l + i - 1]
  BY <1>3, <1>4, FromWordFacts
<1> HIDE DEF f, d
<1>6. /\ Ran(Queue, f).ado = Queue.ado + h /\ Ran(Queue, f).left = Queue.left - h
      /\ Ran(Queue, f).fifo = f
  BY <1>2, <1>3, RanType
<1>7. Queue' = Ran(Queue, f)
  BY <1>1, <1>2 DEF Queue, Kinds
<1> HIDE DEF h, l
<1>8. \A a \in Cell : mem'[a] = IF a \in Queue.ado .. Queue.ado + h - 1
                                THEN Queue.fifo[1][l + (a - Queue.ado)] ELSE mem[a]
  <2> TAKE a \in Cell
  <2>1. mem'[a] = IF a \in Queue.ado .. Queue.ado + Len(d) - 1
                  THEN d[a - Queue.ado + 1] ELSE mem[a]
    BY <1>1, <1>2, <1>5, StoredFacts
  <2>2. a \in Nat
    BY ChipKinds
  <2>3. ASSUME a \in Queue.ado .. Queue.ado + h - 1
        PROVE  d[a - Queue.ado + 1] = Queue.fifo[1][l + (a - Queue.ado)]
    <3>1. /\ a - Queue.ado + 1 \in 1 .. h
          /\ l + (a - Queue.ado + 1) - 1 = l + (a - Queue.ado)
      BY <1>2, <1>4, <2>2, <2>3 DEF Place
    <3> QED
      BY <1>5, <3>1
  <2> QED
    BY <1>5, <2>1, <2>3
<1> QED
  BY <1>1, <1>3, <1>4, <1>6, <1>7, <1>8 DEF h, l, f

LEMMA ChipDrainCells ==
  ASSUME WInv, ChipDrain, UNCHANGED <<expect, version>>, NEW a \in Cell
  PROVE  InChip(a)' /\ InWrite(a)' /\ InReset(a)'
<1> DEFINE h == Handled(Queue)
           ado == Queue.ado
           left == Queue.left
           n == Len(Queue.fifo)
<1>0. /\ CInv /\ InChip(a) /\ InWrite(a) /\ UNCHANGED <<csr, resetting, call, pc, expect>>
      /\ call.kind \notin {"read", "reset"}
  <2>1. CInv /\ UNCHANGED <<csr, resetting, call, pc>> /\ Queue.fifo # <<>>
    BY DrainFacts DEF WInv
  <2> QED
    BY <2>1 DEF WInv, CInv, Control, EngineControl, Queue
<1>1. /\ h \in Nat /\ h <= left /\ (ado % 4) + h <= 4
      /\ h = left \/ h = 4 - (ado % 4)
      /\ Queue'.ado = ado + h /\ Queue'.left = left - h
      /\ Len(Queue'.fifo) = n - 1 /\ n # 0
      /\ \A i \in 1 .. n - 1 : Queue'.fifo[i] = Queue.fifo[i + 1]
      /\ mem'[a] = IF a \in ado .. ado + h - 1
                   THEN Queue.fifo[1][(ado % 4) + (a - ado)] ELSE mem[a]
  BY <1>0, DrainFacts
<1>2. ado \in Nat /\ left \in Nat /\ n \in Nat /\ a \in Nat
  BY <1>0, ChipKinds
<1>3. /\ MeantAt(a)' = MeantAt(a) /\ Now' = Now /\ Commanded(a)' = Commanded(a)
      /\ (call.kind = "write" => Ver(call)' = Ver(call))
  BY <1>0, SameMeant DEF Commanded, Now
<1>4. Queued(a) <=> ado <= a /\ a <= ado + left - 1 /\ At(a, ado) <= n
  BY <1>2 DEF Queued
<1>5. Queued(a)' <=> ado + h <= a /\ a <= ado + left - 1 /\ At(a, ado + h) <= n - 1
  <2>1. Queued(a)' <=> a \in ado + h .. (ado + h) + (left - h) - 1 /\ At(a, ado + h) <= n - 1
    BY <1>1 DEF Queued
  <2> QED
    BY <1>1, <1>2, <2>1
<1>6. ado <= a /\ a <= ado + left - 1 =>
        /\ a < ado + h => At(a, ado) = 1 /\ a % 4 = (ado % 4) + (a - ado)
        /\ a >= ado + h => At(a, ado) = At(a, ado + h) + 1
  <2> HIDE DEF h, ado, left
  <2> SUFFICES ASSUME ado <= a, a <= ado + left - 1
               PROVE  /\ a < ado + h => At(a, ado) = 1 /\ a % 4 = (ado % 4) + (a - ado)
                      /\ a >= ado + h => At(a, ado) = At(a, ado + h) + 1
    OBVIOUS
  <2>1. h \in Nat /\ h <= left /\ (ado % 4) + h <= 4 /\ (h = left \/ h = 4 - (ado % 4))
    BY <1>1
  <2>2. ASSUME a < ado + h PROVE At(a, ado) = 1 /\ a % 4 = (ado % 4) + (a - ado)
    <3>1. a \div 4 = ado \div 4 /\ a % 4 = (ado % 4) + (a - ado)
      BY <1>2, <2>1, <2>2
    <3> QED
      BY <1>2, <3>1 DEF At
  <2>3. ASSUME a >= ado + h PROVE At(a, ado) = At(a, ado + h) + 1
    <3>1. h = 4 - (ado % 4)
      BY <1>2, <2>1, <2>3
    <3>2. (ado + h) \div 4 = (ado \div 4) + 1
      BY <1>2, <2>1, <3>1, NextWord
    <3> QED
      BY <1>2, <3>2 DEF At
  <2> QED
    BY <2>2, <2>3
<1>7. ado + h <= a => At(a, ado + h) \in Nat /\ At(a, ado + h) # 0
  <2> HIDE DEF h, ado
  <2>1. ado + h \in Nat
    BY <1>1, <1>2
  <2> QED
    BY <1>2, <2>1, AtFacts
<1> HIDE DEF h, ado, left, n
<1>8. CASE a \in ado .. ado + h - 1
  <2>1. Queued(a) /\ At(a, ado) = 1 /\ a % 4 = (ado % 4) + (a - ado) /\ ~Queued(a)'
    <3>1. h \in Nat /\ h <= left /\ n # 0
      BY <1>1
    <3>2. ado <= a /\ a <= ado + left - 1 /\ a < ado + h /\ ~(ado + h <= a)
      BY <1>2, <1>8, <3>1
    <3>3. At(a, ado) = 1 /\ a % 4 = (ado % 4) + (a - ado)
      BY <1>6, <3>2
    <3>4. 1 <= n
      BY <1>2, <3>1
    <3> QED
      BY <1>4, <1>5, <3>2, <3>3, <3>4
  <2>2. mem'[a] \in MeantAt(a)
    BY <1>0, <1>1, <1>8, <2>1 DEF InChip, QueueMeant, ado
  <2>3. Placed(a)' /\ Asked(a)' /\ Sent(a)'
    BY <1>0, <2>2, ChipCells
  <2>4. CommandDone(a)'
    BY <1>0, <1>3, <2>2, MeantFacts DEF CommandDone
  <2> QED
    BY <1>0, <1>3, <2>1, <2>3, <2>4
       DEF InChip, InWrite, CommandMeant, QueueMeant, ResetMeant, PutReady, InReset
<1>9. CASE a \notin ado .. ado + h - 1
  <2>1. mem'[a] = mem[a]
    BY <1>1, <1>9
  <2>2. Queued(a)' <=> Queued(a)
    <3>1. h \in Nat /\ h <= left
      BY <1>1
    <3>2. ado <= a <=> ado + h <= a
      BY <1>2, <1>9, <3>1
    <3>3. CASE ado <= a /\ a <= ado + left - 1
      <4>1. At(a, ado) = At(a, ado + h) + 1 /\ At(a, ado + h) \in Nat
        BY <1>2, <1>6, <1>7, <3>1, <3>2, <3>3
      <4>2. At(a, ado) <= n <=> At(a, ado + h) <= n - 1
        BY <1>2, <4>1
      <4> QED
        BY <1>4, <1>5, <3>2, <3>3, <4>2
    <3>4. CASE ~(ado <= a /\ a <= ado + left - 1)
      BY <1>4, <1>5, <3>2, <3>4
    <3> QED
      BY <3>3, <3>4
  <2>3. Flying(a) => Flying(a)'
    BY <1>0, <1>3, <2>2 DEF Flying
  <2>4. Placed(a)' /\ Asked(a)' /\ Sent(a)'
    BY <1>0, <2>1, <2>3, ChipCells
  <2>5. QueueMeant(a)'
    <3> SUFFICES ASSUME Queued(a)'
                 PROVE  Queue'.fifo[At(a, ado + h)][a % 4] \in MeantAt(a)
      BY <1>1, <1>3 DEF QueueMeant
    <3>1. At(a, ado) = At(a, ado + h) + 1 /\ At(a, ado + h) \in 1 .. n - 1
      <4>1. ado + h <= a /\ a <= ado + left - 1 /\ At(a, ado + h) <= n - 1 /\ h \in Nat
        BY <1>1, <1>5
      <4>2. At(a, ado + h) \in Nat /\ At(a, ado + h) # 0
        BY <1>7, <4>1
      <4>3. ado <= a /\ a >= ado + h
        BY <1>2, <4>1
      <4>4. At(a, ado) = At(a, ado + h) + 1
        BY <1>6, <4>1, <4>3
      <4> QED
        BY <1>2, <4>1, <4>2, <4>4
    <3>2. Queue'.fifo[At(a, ado + h)] = Queue.fifo[At(a, ado)]
      BY <1>1, <3>1
    <3> QED
      BY <1>0, <2>2, <3>2 DEF InChip, QueueMeant, ado
  <2> QED
    BY <1>0, <1>3, <2>1, <2>4, <2>5
       DEF InChip, InWrite, CommandMeant, CommandDone, ResetMeant, PutReady, InReset, Free
<1> QED
  BY <1>8, <1>9

LEMMA ChipRuns ==
  ASSUME WInv, Chip
  PROVE  QueueRuns'
<1>0. CInv /\ UNCHANGED <<call, pc, version>>
  BY DEF WInv, Chip, ChipStep, ChipCsr, ChipAbort, ChipFill, ChipDrain, ChipReset,
         driver, application
<1>1. SUFFICES ASSUME call.kind = "write", pc \in Streaming
      PROVE  QueueRuns'
  BY <1>0 DEF QueueRuns
<1>2. /\ Queue.ado <= call.ado
      /\ call.ado \div 4 = (Queue.ado \div 4) + Len(Queue.fifo)
      /\ pc \in {"avail", "count", "first"} => Queue.ado = call.ado
      /\ Queue.ado + Queue.left = call.ado + call.rest
      /\ Queue.status # "abort" /\ resetting = 0
  <2>1. Queue.status # "abort"
    BY <1>0, <1>1 DEF Queue, CInv, Control, EngineControl, Streaming, Kinds
  <2> QED
    BY <1>0, <1>1, <2>1
       DEF WInv, QueueRuns, Queue, CInv, Control, EngineControl, Kinds
<1>3. call.ado \in Nat /\ call.rest \in Nat /\ call.rest # 0
  BY <1>1 DEF WInv, CInv, TInv, CallOK, CallType, PcOK, Steps, InPram, Streaming
<1>4. CASE ChipDrain
  <2> DEFINE h == Handled(Queue)
             ado == Queue.ado
             left == Queue.left
             n == Len(Queue.fifo)
  <2>1. /\ h \in Nat /\ h <= left /\ (ado % 4) + h <= 4
        /\ h = left \/ h = 4 - (ado % 4)
        /\ Queue'.ado = ado + h /\ Len(Queue'.fifo) = n - 1 /\ n # 0
    BY <1>0, <1>4, DrainFacts
  <2>2. ado \in Nat /\ left \in Nat /\ n \in Nat
    BY <1>0, ChipKinds
  <2>3. pc \notin {"avail", "count", "first"}
    BY <1>2, <1>3, <2>1, <2>2
  <2>4. /\ ado <= call.ado /\ call.ado \div 4 = (ado \div 4) + n
        /\ ado + left = call.ado + call.rest
    BY <1>2
  <2> HIDE DEF h, ado, left, n
  <2>5. ado + h <= call.ado /\ call.ado \div 4 = ((ado + h) \div 4) + (n - 1)
    BY <1>3, <2>1, <2>2, <2>4, DrainRuns
  <2> QED
    BY <1>0, <2>1, <2>3, <2>5 DEF QueueRuns
<1>5. CASE ~ChipDrain
  <2>1. Queue' = Queue
    <3>1. engine \in [Kinds -> EngineType]
      BY <1>0, ChipKinds
    <3>2. CASE ChipAbort
      <4>1. PICK k \in Kinds : /\ engine[k].status = "abort"
                               /\ engine' = [engine EXCEPT ![k] = IdleEngine]
        BY <3>2 DEF ChipAbort, Kinds
      <4> QED
        BY <1>2, <3>1, <4>1 DEF Queue, Kinds
    <3>3. CASE ChipFill
      BY <3>1, <3>3 DEF ChipFill, Queue, Kinds
    <3>4. CASE ChipCsr \/ ChipReset
      BY <1>2, <3>4 DEF ChipCsr, ChipReset, Queue
    <3> QED
      BY <1>5, <3>2, <3>3, <3>4 DEF Chip, ChipStep
  <2> QED
    BY <1>0, <1>1, <1>2, <2>1 DEF QueueRuns
<1> QED
  BY <1>4, <1>5

LEMMA ChipWrites ==
  ASSUME WInv, Chip
  PROVE  QueueRuns' /\ \A a \in Cell : InChip(a)' /\ InWrite(a)' /\ InReset(a)'
<1>1. UNCHANGED <<expect, version>>
  BY DEF Chip, application
<1> QED
  BY <1>1, ChipRuns, ChipCsrCells, ChipAbortCells, ChipDrainCells, ChipResetCells
     DEF Chip, ChipStep

LEMMA WriteFacts ==
  ASSUME CInv, call.kind = "write"
  PROVE  /\ call.ado \in Nat /\ call.rest \in Nat /\ call.data \in Seq(Bt)
         /\ Len(call.data) \in Nat /\ call.rest <= Len(call.data)
         /\ Len(call.data) - call.rest <= call.ado
         /\ call.ado + call.rest <= MEM_SIZE /\ call \in CallType
         /\ WriteStart \in Nat
         /\ WriteStart + Len(call.data) = call.ado + call.rest
<1>1. /\ call \in CallType /\ call.rest <= Len(call.data)
      /\ Len(call.data) - call.rest <= call.ado
      /\ call.ado + call.rest <= MEM_SIZE
  BY DEF CInv, TInv, CallOK, Kinds
<1>2. /\ call.ado \in Nat /\ call.rest \in Nat /\ call.data \in Seq(Bt)
      /\ Len(call.data) \in Nat
  BY <1>1 DEF CallType
<1> QED
  BY <1>1, <1>2 DEF WriteStart

(* The bytes that are still to go are those of the addresses they go to.   *)
LEMMA PendingBytes ==
  ASSUME WInv, call.kind = "write", NEW n \in Nat, n <= call.rest,
         NEW i \in 1 .. n
  PROVE  /\ Pending(n)[i] = Byte(call.ado + i - 1, Ver(call))
         /\ Ver(call) \in expect[call.ado + i - 1]
         /\ call.ado + i - 1 \in Cell
<1> DEFINE a == call.ado + i - 1
           k == Len(call.data) - call.rest
<1>1. /\ call.ado \in Nat /\ call.rest \in Nat /\ Len(call.data) \in Nat
      /\ call.rest <= Len(call.data) /\ call \in CallType /\ MEM_SIZE \in Nat
      /\ call.ado + call.rest <= MEM_SIZE /\ k <= call.ado
  BY WriteFacts, ChipKinds DEF WInv
<1>2. a \in Cell
  <2>1. i \in Nat /\ 1 <= i /\ i <= call.rest
    BY <1>1
  <2>2. a \in Nat /\ a < call.ado + call.rest
    BY <1>1, <2>1
  <2> HIDE DEF a
  <2>3. a < MEM_SIZE
    BY <1>1, <2>2
  <2> QED
    BY <1>1, <2>2, <2>3 DEF Cell
<1>3. WriteStart = call.ado - k
  BY DEF WriteStart
<1>4. a \in WriteStart .. WriteStart + Len(call.data) - 1 /\ a - WriteStart + 1 = k + i
  <2>1. k \in Nat /\ k + call.rest = Len(call.data)
    BY <1>1
  <2> HIDE DEF k
  <2>2. WriteStart \in Nat /\ WriteStart + k = call.ado
    BY <1>1, <1>3, <2>1
  <2>3. WriteStart + Len(call.data) = call.ado + call.rest
    BY WriteFacts DEF WInv
  <2>4. a - WriteStart + 1 = k + i
    <3>1. i \in Nat /\ k \in Nat /\ WriteStart \in Nat /\ WriteStart + k = call.ado
      BY <2>1, <2>2
    <3>2. a = (WriteStart + k) + (i - 1)
      BY <3>1
    <3> HIDE DEF a
    <3> QED
      BY <3>1, <3>2
  <2>5. WriteStart <= a /\ a <= WriteStart + Len(call.data) - 1
    <3>1. i \in Nat /\ 1 <= i /\ i <= call.rest
      BY <1>1
    <3>2. WriteStart <= a
      BY <1>1, <2>1, <2>2, <3>1
    <3>3. a <= call.ado + call.rest - 1
      BY <1>1, <3>1
    <3> QED
      BY <1>1, <2>2, <2>3, <3>2, <3>3
  <2> QED
    BY <1>1, <2>2, <2>4, <2>5
<1>5. call.data[k + i] = Byte(a, Ver(call)) /\ Ver(call) \in expect[a]
  BY <1>2, <1>4 DEF WInv, InWrite, Asked
<1>6. Pending(n)[i] = call.data[k + i]
  BY <1>1, PendingFacts
<1> QED
  BY <1>2, <1>5, <1>6

LEMMA PendingWord ==
  ASSUME WInv, call.kind = "write", NEW n \in Nat, n <= call.rest, NEW place \in Place,
         NEW i \in 1 .. n, place + i - 1 \in Place
  PROVE  InWord(Pending(n), place)[place + i - 1] = Byte(call.ado + i - 1, Ver(call))
<1>1. call.rest <= Len(call.data) /\ call \in CallType
  BY WriteFacts DEF WInv
<1>2. Pending(n) \in Seq(Bt) /\ Len(Pending(n)) = n
  BY <1>1, PendingFacts
<1>3. version \in Nat \ {0}
  BY Sizes DEF WInv, CInv, TInv, AppOK
<1> DEFINE p == Pending(n)
           q == place + i - 1
<1>4. q - place + 1 = i
  BY DEF Place
<1>5. \A j \in Place : j - place + 1 \in 1 .. Len(p) => InWord(p, place)[j] = p[j - place + 1]
  BY <1>2, <1>3, InWordFacts
<1>6. InWord(p, place)[q] = p[i]
  <2> HIDE DEF p, q
  <2>1. q \in Place /\ q - place + 1 \in 1 .. Len(p)
    BY <1>2, <1>4 DEF q, p
  <2> QED
    BY <1>4, <1>5, <2>1
<1>7. p[i] = Byte(call.ado + i - 1, Ver(call))
  BY PendingBytes
<1> QED
  BY <1>6, <1>7

LEMMA PushPlace ==
  ASSUME WInv, pc \in {"first", "burst"}, call.kind = "write", NEW a \in Nat
  PROVE  /\ a \in call.ado .. call.ado + Share - 1 =>
              /\ Queue.ado <= a /\ a <= Queue.ado + Queue.left - 1
              /\ At(a, Queue.ado) = Len(Queue.fifo) + 1
         /\ (/\ Queue.ado <= a /\ a <= Queue.ado + Queue.left - 1
             /\ At(a, Queue.ado) = Len(Queue.fifo) + 1) =>
              /\ a \in call.ado .. call.ado + Share - 1
              /\ a % 4 = Lane + (a - call.ado)
<1> DEFINE c == call.ado
           r == call.rest
           s == Share
           l == Lane
           ado == Queue.ado
           left == Queue.left
           n == Len(Queue.fifo)
<1>1. /\ l = c % 4 /\ s \in Nat /\ s # 0 /\ s <= r /\ l + s <= 4
      /\ s = r \/ s = 4 - l
      /\ c \in Nat /\ r \in Nat
  BY WordFacts DEF WInv
<1>2. /\ ado <= c /\ c \div 4 = (ado \div 4) + n
      /\ pc = "first" => ado = c
      /\ ado + left = c + r
      /\ pc = "burst" => c % 4 = 0
  BY DEF WInv, QueueRuns, Streaming, CInv, Control, EngineControl, Queue
<1>3. ado \in Nat /\ left \in Nat /\ n \in Nat
  BY ChipKinds DEF WInv
<1> HIDE DEF c, r, s, l, ado, left, n
<1>n. /\ s \in Nat /\ s <= r /\ c \in Nat /\ r \in Nat /\ ado \in Nat /\ left \in Nat
      /\ ado <= c /\ ado + left = c + r
  BY <1>1, <1>2, <1>3
<1>4. ASSUME a \in c .. c + s - 1
      PROVE  ado <= a /\ a <= ado + left - 1 /\ At(a, ado) = n + 1
  <2>1. a \div 4 = c \div 4
    BY <1>1, <1>4
  <2>2. ado <= a /\ a <= ado + left - 1
    BY <1>n, <1>4
  <2> QED
    BY <1>2, <1>3, <2>1, <2>2 DEF At
<1>5. ASSUME ado <= a, a <= ado + left - 1, At(a, ado) = n + 1
      PROVE  a \in c .. c + s - 1 /\ a % 4 = l + (a - c)
  <2>1. a \div 4 = c \div 4
    BY <1>2, <1>3, <1>5 DEF At
  <2>2. a >= c
    <3>1. CASE pc = "first"
      BY <1>2, <1>5, <3>1
    <3>2. CASE pc = "burst"
      <4>1. c % 4 = 0
        BY <1>2, <3>2
      <4> QED
        BY <1>n, <2>1, <4>1
    <3> QED
      BY <3>1, <3>2
  <2>3. a % 4 = l + (a - c)
    BY <1>1, <2>1, <2>2
  <2>4. a <= c + s - 1
    <3>1. CASE s = r
      BY <1>n, <1>5, <3>1
    <3>2. CASE s = 4 - l
      BY <1>1, <2>3, <3>2
    <3> QED
      BY <1>1, <3>1, <3>2
  <2> QED
    BY <1>1, <2>2, <2>3, <2>4
<1>6. /\ a \in c .. c + s - 1 => ado <= a /\ a <= ado + left - 1 /\ At(a, ado) = n + 1
      /\ (ado <= a /\ a <= ado + left - 1 /\ At(a, ado) = n + 1) =>
           a \in c .. c + s - 1 /\ a % 4 = l + (a - c)
  BY <1>4, <1>5
<1> QED
  BY <1>6 DEF c, s, l, ado, left, n

LEMMA PushCells ==
  ASSUME WInv, WordPushed, UNCHANGED expect, call'.kind = call.kind,
         call'.data = call.data, NEW a \in Cell
  PROVE  /\ QueueMeant(a)' /\ (Queued(a) => Queued(a)')
         /\ a \in call.ado .. call.ado + Share - 1 => Queued(a)'
         /\ Queue'.ado = Queue.ado /\ Len(Queue'.fifo) = Len(Queue.fifo) + 1
<1> DEFINE w == InWord(Pending(Share), Lane)
           n == Len(Queue.fifo)
<1>0. CInv /\ pc \in {"first", "burst"} /\ call.kind = "write" /\ InChip(a)
  BY DEF WInv, WordPushed
<1>1. /\ engine \in [Kinds -> EngineType] /\ Queue \in EngineType
      /\ Queue.fifo \in Seq(Word) /\ n \in Nat /\ a \in Nat
      /\ Queue.ado \in Nat /\ Queue.left \in Nat
  BY <1>0, ChipKinds
<1>2. /\ Lane \in Place /\ Share \in Nat /\ Share <= call.rest
      /\ Lane + Share <= 4 /\ Lane = call.ado % 4 /\ call.ado \in Nat
  BY <1>0, WordFacts
<1>3. engine' = [engine EXCEPT !["write"].fifo = Append(@, w)]
  BY DEF WordPushed
<1> HIDE DEF w
<1>4. Queue' = [Queue EXCEPT !.fifo = Append(Queue.fifo, w)]
  BY <1>1, <1>3 DEF Queue, Kinds
<1>5. /\ Queue'.ado = Queue.ado /\ Queue'.left = Queue.left
      /\ Queue'.fifo = Append(Queue.fifo, w)
  BY <1>1, <1>4 DEF EngineType
<1>6. /\ Len(Queue'.fifo) = n + 1 /\ Queue'.fifo[n + 1] = w
      /\ \A i \in 1 .. n : Queue'.fifo[i] = Queue.fifo[i]
  BY <1>1, <1>5
<1>7. MeantAt(a)' = MeantAt(a)
  BY SameMeant
<1> HIDE DEF n
<1>8. Queued(a)' <=> /\ Queue.ado <= a /\ a <= Queue.ado + Queue.left - 1
                     /\ At(a, Queue.ado) <= n + 1
  BY <1>1, <1>5, <1>6 DEF Queued
<1>9. Queued(a) <=> /\ Queue.ado <= a /\ a <= Queue.ado + Queue.left - 1
                    /\ At(a, Queue.ado) <= n
  BY <1>1 DEF Queued, n
<1>10. Queue.ado <= a => At(a, Queue.ado) \in Nat /\ At(a, Queue.ado) # 0
  BY <1>1, AtFacts
<1>11. Queued(a) => Queued(a)'
  BY <1>1, <1>8, <1>9, <1>10
<1>12. a \in call.ado .. call.ado + Share - 1 => Queued(a)'
  <2> SUFFICES ASSUME a \in call.ado .. call.ado + Share - 1 PROVE Queued(a)'
    OBVIOUS
  <2>1. /\ Queue.ado <= a /\ a <= Queue.ado + Queue.left - 1
        /\ At(a, Queue.ado) = n + 1
    BY <1>0, <1>1, PushPlace DEF n
  <2> QED
    BY <1>1, <1>8, <2>1
<1>13. QueueMeant(a)'
  <2> SUFFICES ASSUME Queued(a)'
               PROVE  Queue'.fifo[At(a, Queue.ado)][a % 4] \in MeantAt(a)
    BY <1>5, <1>7 DEF QueueMeant
  <2>1. CASE At(a, Queue.ado) <= n
    <3>1. Queued(a)
      BY <1>8, <1>9, <2>1
    <3>2. At(a, Queue.ado) \in 1 .. n
      BY <1>1, <1>8, <1>10, <2>1
    <3>3. Queue'.fifo[At(a, Queue.ado)] = Queue.fifo[At(a, Queue.ado)]
      BY <1>6, <3>2
    <3> QED
      BY <1>0, <3>1, <3>3 DEF InChip, QueueMeant
  <2>2. CASE ~(At(a, Queue.ado) <= n)
    <3>1. At(a, Queue.ado) = n + 1
      BY <1>1, <1>8, <1>10, <2>2
    <3>2. a \in call.ado .. call.ado + Share - 1 /\ a % 4 = Lane + (a - call.ado)
      BY <1>0, <1>1, <1>8, <3>1, PushPlace DEF n
    <3> DEFINE i == a - call.ado + 1
    <3>3. i \in 1 .. Share /\ Lane + i - 1 = a % 4 /\ call.ado + i - 1 = a
          /\ a % 4 \in Place
      <4>1. a % 4 \in Place
        BY <1>1 DEF Place
      <4>2. Lane \in Nat
        BY <1>2 DEF Place
      <4>3. i \in 1 .. Share /\ call.ado + i - 1 = a
        <5>1. /\ a \in Nat /\ call.ado \in Nat /\ Share \in Nat
              /\ a \in call.ado .. call.ado + Share - 1
          BY <1>1, <1>2, <3>2
        <5> QED
          BY <5>1
      <4>4. Lane + i - 1 = Lane + (a - call.ado)
        BY <1>1, <1>2, <4>2
      <4> QED
        BY <3>2, <4>1, <4>3, <4>4
    <3> HIDE DEF i
    <3>4. w[a % 4] = Byte(a, Ver(call))
      BY <1>0, <1>2, <3>3, PendingWord DEF w
    <3>5. Ver(call) \in expect[a]
      BY <1>0, <1>2, <3>3, PendingBytes
    <3> QED
      BY <1>0, <1>6, <3>1, <3>4, <3>5, ByteMeant
  <2> QED
    BY <2>1, <2>2
<1> QED
  BY <1>5, <1>6, <1>11, <1>12, <1>13 DEF n

LEMMA NowFacts ==
  ASSUME CInv, pc \in InCsr
  PROVE  Now \in {1, 2, 4} /\ Now \in Nat /\ Now <= call.rest
<1>1. pc \in Steps /\ CallOK /\ PcOK
  BY DEF Steps, CInv, TInv
<1> QED
  BY <1>1, ChunkNow DEF Now

(* The command takes the bytes the data register was given for it.         *)
LEMMA CommandCells ==
  ASSUME WInv, DataPut \/ CommandGiven, UNCHANGED expect, call'.kind = call.kind,
         call.kind = "write" => call'.data = call.data, NEW a \in Cell
  PROVE  CommandMeant(a)' /\ ~Commanded(a)
<1>0. /\ CInv /\ pc \in InCsr /\ call.kind \in Kinds /\ pc \notin {"wait", "error"}
      /\ csr \in CsrType /\ InWrite(a)
  <2>1. pc \in {"put", "cmd"} /\ CInv
    BY DEF WInv, DataPut, CommandGiven
  <2> QED
    BY <2>1 DEF WInv, InCsr, CInv, TInv, PcOK, Steps, ChipOK
<1>1. ~csr.busy
  BY <1>0 DEF CInv, Control, CsrControl
<1>2. CASE DataPut
  <2> DEFINE d == InWord(Pending(Now), 0)
  <2>1. csr' = [csr EXCEPT !.data = d]
    BY <1>2 DEF DataPut
  <2> HIDE DEF d
  <2>2. csr'.busy = csr.busy
    BY <1>0, <2>1 DEF CsrType
  <2> QED
    BY <1>1, <2>2 DEF CommandMeant, Commanded
<1>3. CASE CommandGiven
  <2> DEFINE n == Now
  <2>1. csr' = [csr EXCEPT !.busy = TRUE, !.kind = call.kind, !.ado = call.ado, !.size = n]
        /\ pc = "cmd"
    BY <1>3 DEF CommandGiven
  <2>2. n \in Nat /\ n <= call.rest
    BY <1>0, NowFacts
  <2> HIDE DEF n
  <2>3. /\ csr'.kind = call.kind /\ csr'.ado = call.ado /\ csr'.size = n
        /\ csr'.data = csr.data
    BY <1>0, <2>1 DEF CsrType
  <2>4. SUFFICES ASSUME call.kind = "write", a \in call.ado .. call.ado + n - 1
                 PROVE  csr.data[a - call.ado] \in MeantAt(a)
    <3>1. MeantAt(a)' = MeantAt(a)
      BY SameMeant
    <3> QED
      BY <1>1, <2>3, <3>1 DEF CommandMeant, Commanded
  <2>5. csr.data[a - call.ado] = Byte(a, Ver(call))
    BY <1>0, <2>1, <2>4 DEF InWrite, PutReady, n
  <2>6. a \in WriteStart .. WriteStart + Len(call.data) - 1
    <3>1. /\ WriteStart \in Nat /\ WriteStart + Len(call.data) = call.ado + call.rest
          /\ call.ado \in Nat /\ call.rest \in Nat /\ Len(call.data) \in Nat
          /\ call.rest <= Len(call.data)
      BY <1>0, <2>4, WriteFacts
    <3>2. WriteStart <= a /\ a <= call.ado + call.rest - 1 /\ a \in Nat
      BY <2>2, <2>4, <3>1
    <3> QED
      BY <3>1, <3>2
  <2>7. Ver(call) \in expect[a]
    BY <1>0, <2>4, <2>6 DEF InWrite, Asked
  <2> QED
    BY <2>4, <2>5, <2>7, ByteMeant
<1> QED
  BY <1>1, <1>2, <1>3 DEF Commanded

LEMMA TouchedCells ==
  ASSUME WInv, Touched, UNCHANGED <<expect, version>>, call'.kind = call.kind,
         call.kind = "write" => call'.data = call.data,
         call.kind = "reset" => call' = call, NEW a \in Cell
  PROVE  InChip(a)' /\ (Flying(a) => Flying(a)') /\ UNCHANGED mem
<1>0. InChip(a) /\ CInv /\ InReset(a) /\ engine \in [Kinds -> EngineType]
  BY ChipKinds DEF WInv
<1>1. MeantAt(a)' = MeantAt(a) /\ (call.kind = "write" => Ver(call)' = Ver(call))
  BY SameMeant
<1>2. ASSUME mem' = mem, CommandMeant(a)', QueueMeant(a)', ResetMeant(a)',
             Commanded(a) => Commanded(a)', Queued(a) => Queued(a)',
             resetting # 0 => resetting' # 0
      PROVE  InChip(a)' /\ (Flying(a) => Flying(a)') /\ UNCHANGED mem
  <2>1. Flying(a) => Flying(a)'
    BY <1>2 DEF Flying
  <2>2. Placed(a)'
    BY <1>0, <1>2, <2>1 DEF InChip, Placed, Free
  <2> QED
    BY <1>2, <2>1, <2>2 DEF InChip
<1>3. ASSUME csr' = csr
      PROVE  CommandMeant(a)' /\ (Commanded(a) => Commanded(a)')
  BY <1>0, <1>1, <1>3 DEF InChip, CommandMeant, Commanded
<1>4. ASSUME engine' = engine \/ (call.kind = "read" /\ Queue' = Queue)
      PROVE  QueueMeant(a)' /\ (Queued(a) => Queued(a)')
  <2>1. Queue' = Queue
    BY <1>4 DEF Queue
  <2> QED
    BY <1>0, <1>1, <2>1 DEF InChip, QueueMeant, Queued
<1>5. ASSUME resetting' = resetting
      PROVE  ResetMeant(a)' /\ (resetting # 0 => resetting' # 0)
  BY <1>0, <1>5 DEF InChip, ResetMeant
<1>6. CASE Stays
  BY <1>2, <1>3, <1>4, <1>5, <1>6 DEF Stays
<1>7. CASE DataPut \/ CommandGiven
  BY <1>2, <1>4, <1>5, <1>7, CommandCells DEF DataPut, CommandGiven
<1>8. CASE AbortAsked \/ SpanGiven \/ EngineStarted
  <2>1. /\ UNCHANGED <<mem, csr, resetting>> /\ pc \in {"abort", "span", "go"}
        /\ call.kind \in Kinds
    BY <1>0, <1>8 DEF AbortAsked, SpanGiven, EngineStarted, CInv, TInv, PcOK, Steps, InPram
  <2>2. QueueMeant(a)' /\ (Queued(a) => Queued(a)')
    <3>1. CASE call.kind = "read"
      <4>1. Queue' = Queue
        BY <1>0, <1>8, <3>1 DEF AbortAsked, SpanGiven, EngineStarted, Queue, Kinds
      <4> QED
        BY <1>4, <3>1, <4>1
    <3>2. CASE call.kind = "write"
      <4>1. Queue.fifo = <<>>
        BY <1>0, <2>1, <3>2 DEF CInv, Control, EngineControl, Queue
      <4>2. Queue'.fifo = <<>> /\ Queue'.ado \in Nat
        <5>0. Queue \in EngineType /\ call.ado \in Nat
          BY <1>0, <3>2, ChipKinds, WriteFacts
        <5>1. CASE AbortAsked
          BY <1>0, <3>2, <5>0, <5>1 DEF AbortAsked, Queue, Kinds, EngineType
        <5>2. CASE SpanGiven
          BY <1>0, <3>2, <4>1, <5>0, <5>2 DEF SpanGiven, Queue, Kinds, EngineType
        <5>3. CASE EngineStarted
          BY <1>0, <3>2, <4>1, <5>0, <5>3 DEF EngineStarted, Queue, Kinds, EngineType
        <5> QED
          BY <1>8, <5>1, <5>2, <5>3
      <4>3. ~Queued(a)
        BY <1>0, <4>1, NothingQueued
      <4>4. ~Queued(a)'
        <5>1. a \in Nat
          BY <1>0, ChipKinds
        <5>2. Queue'.ado <= a => ~(At(a, Queue'.ado) <= 0)
          <6>1. PICK b : b = Queue'.ado
            OBVIOUS
          <6>2. b <= a => At(a, b) \in Nat /\ At(a, b) # 0
            BY <4>2, <5>1, <6>1, AtFacts
          <6>3. b <= a => ~(At(a, b) <= 0)
            BY <6>2
          <6> QED
            BY <6>1, <6>3
        <5>3. Len(Queue'.fifo) = 0
          BY <4>2
        <5>4. Queued(a)' => Queue'.ado <= a /\ At(a, Queue'.ado) <= 0
          BY <5>3 DEF Queued
        <5> QED
          BY <5>2, <5>4
      <4> QED
        BY <4>3, <4>4 DEF QueueMeant
    <3> QED
      BY <2>1, <3>1, <3>2 DEF Kinds
  <2> QED
    BY <1>2, <1>3, <1>5, <2>1, <2>2
<1>9. CASE WordPopped
  <2>1. UNCHANGED <<mem, csr, resetting>> /\ call.kind = "read" /\ Queue' = Queue
    BY <1>0, <1>9 DEF WordPopped, Queue, Kinds
  <2> QED
    BY <1>2, <1>3, <1>4, <1>5, <2>1
<1>10. CASE WordPushed
  <2>1. UNCHANGED <<mem, csr, resetting>> /\ call.kind = "write"
    BY <1>10 DEF WordPushed
  <2>2. QueueMeant(a)' /\ (Queued(a) => Queued(a)')
    BY <1>10, <2>1, PushCells
  <2> QED
    BY <1>2, <1>3, <1>5, <2>1, <2>2
<1>11. CASE ResetAsked
  <2>1. /\ UNCHANGED <<mem, csr, engine>> /\ resetting' = call.ado
        /\ call.kind = "reset"
    BY <1>0, <1>11 DEF ResetAsked, CInv, TInv, PcOK
  <2>2. resetting' # 0 /\ ResetMeant(a)'
    BY <1>0, <2>1 DEF InReset, ResetMeant
  <2> QED
    BY <1>2, <1>3, <1>4, <2>1, <2>2
<1> QED
  BY <1>6, <1>7, <1>8, <1>9, <1>10, <1>11 DEF Touched

(* What a call is does not change while it runs, nor where a write began.  *)
Going == \/ PutData \/ GiveCommand \/ ReadDone \/ WriteDone \/ TakeData
         \/ AskAbort \/ IsQuiet \/ GiveSpan \/ StartEngine \/ LookOn
         \/ PopWord \/ PushWord \/ AskReset \/ ResetDone

LEMMA KeptCall ==
  ASSUME CInv, UNCHANGED version, Going
  PROVE  /\ call'.kind = call.kind /\ call'.held = call.held
         /\ call.kind = "write" => call'.data = call.data /\ WriteStart' = WriteStart
         /\ call.kind = "reset" => call' = call
<1>1. CASE call' = call
  BY <1>1 DEF WriteStart
<1>2. ASSUME NEW n \in Nat, call.kind \in Kinds, call'.kind = call.kind,
             call.kind = "write" => call'.data = call.data,
             call'.ado = call.ado + n, call'.rest = call.rest - n
      PROVE  call.kind = "write" => WriteStart' = WriteStart
  <2> SUFFICES ASSUME call.kind = "write" PROVE WriteStart' = WriteStart
    OBVIOUS
  <2>1. call.ado \in Nat /\ call.rest \in Nat /\ Len(call.data) \in Nat
    BY WriteFacts
  <2>2. (call.ado + n) - (Len(call.data) - (call.rest - n))
          = call.ado - (Len(call.data) - call.rest)
    BY <2>1
  <2> QED
    BY <1>2, <2>2 DEF WriteStart
<1>3. CASE WriteDone
  <2>1. pc \in {"wait", "data"} /\ call.kind = "write" /\ Advance(Now, <<>>)
    BY <1>3 DEF WriteDone
  <2>2. /\ call'.kind = call.kind /\ call'.held = call.held
        /\ call'.ado = call.ado + Now /\ call'.rest = call.rest - Now
        /\ call'.data = call.data
    BY <2>1, AdvanceNow
  <2>3. Now \in Nat
    BY <2>1, NowFacts DEF InCsr
  <2> QED
    BY <1>2, <2>1, <2>2, <2>3 DEF Kinds
<1>4. CASE TakeData
  <2>1. call.kind = "read"
    BY <1>4 DEF TakeData, CInv, TInv, PcOK
  <2>2. call'.kind = call.kind /\ call'.held = call.held
    BY <1>4, AdvanceNow, TakenFacts DEF TakeData
  <2> QED
    BY <2>1, <2>2
<1>5. CASE PopWord
  <2>1. call.kind = "read"
    BY <1>5 DEF PopWord, WordPopped
  <2>2. call'.kind = call.kind /\ call'.held = call.held
    BY <1>5, AdvanceShare, TakenFacts DEF PopWord, WordPopped
  <2> QED
    BY <2>1, <2>2
<1>6. CASE PushWord
  <2>1. pc \in {"first", "burst"} /\ call.kind = "write" /\ Advance(Share, <<>>)
    BY <1>6 DEF PushWord, WordPushed
  <2>2. /\ call'.kind = call.kind /\ call'.held = call.held
        /\ call'.ado = call.ado + Share /\ call'.rest = call.rest - Share
        /\ call'.data = call.data
    BY <2>1, AdvanceShare
  <2>3. Share \in Nat
    BY <2>1, WordFacts
  <2> QED
    BY <1>2, <2>1, <2>2, <2>3 DEF Kinds
<1> QED
  BY <1>1, <1>3, <1>4, <1>5, <1>6
     DEF Going, PutData, GiveCommand, ReadDone, AskAbort, IsQuiet, GiveSpan,
         StartEngine, LookOn, AskReset, ResetDone

LEMMA GoingWrite ==
  ASSUME WInv, Going, UNCHANGED <<expect, version>>, call.kind = "write",
         NEW a \in Cell, UNCHANGED mem, Flying(a) => Flying(a)'
  PROVE  InWrite(a)'
<1>0. CInv /\ InWrite(a) /\ Running
  BY DEF WInv, Going, PutData, GiveCommand, ReadDone, WriteDone, TakeData, AskAbort,
         IsQuiet, GiveSpan, StartEngine, LookOn, PopWord, PushWord, AskReset, ResetDone,
         DataPut, CommandGiven, AbortAsked, SpanGiven, EngineStarted, WordPopped,
         WordPushed, ResetAsked, Running, Outcomes
<1>1. /\ call'.kind = "write" /\ call'.data = call.data /\ WriteStart' = WriteStart
      /\ Ver(call)' = Ver(call)
  BY <1>0, KeptCall DEF Ver
<1>2. Asked(a)'
  BY <1>0, <1>1 DEF InWrite, Asked
<1>3. ASSUME call'.ado = call.ado PROVE Sent(a)'
  BY <1>0, <1>1, <1>3 DEF InWrite, Sent, Free
<1>4. ASSUME pc' # "cmd", pc' # "wait" PROVE PutReady(a)' /\ CommandDone(a)'
  BY <1>4 DEF PutReady, CommandDone
<1>5. /\ call.ado \in Nat /\ a \in Nat /\ WriteStart \in Nat
  BY <1>0, WriteFacts, ChipKinds
<1>6. CASE PutData
  <2>1. pc' = "cmd" /\ call' = call /\ pc = "put" /\ Now' = Now
    BY <1>6 DEF PutData, DataPut, Now
  <2>2. PutReady(a)'
    <3> SUFFICES ASSUME a \in call.ado .. call.ado + Now - 1
                 PROVE  csr'.data[a - call.ado] = Byte(a, Ver(call))
      BY <1>1, <2>1 DEF PutReady
    <3> DEFINE d == InWord(Pending(Now), 0)
               i == a - call.ado + 1
    <3>1. Now \in Nat /\ Now <= call.rest /\ Now <= 4
      <4>1. pc \in InCsr
        BY <2>1 DEF InCsr
      <4>2. Now \in {1, 2, 4} /\ Now \in Nat /\ Now <= call.rest
        BY <1>0, <4>1, NowFacts
      <4> QED
        BY <4>2
    <3>2. i \in 1 .. Now /\ 0 + i - 1 = a - call.ado /\ call.ado + i - 1 = a
      BY <1>5, <3>1
    <3>3. 0 + i - 1 \in Place /\ 0 \in Place
      BY <3>1, <3>2 DEF Place
    <3>4. d[0 + i - 1] = Byte(call.ado + i - 1, Ver(call))
      <4> HIDE DEF i
      <4> QED
        BY <3>1, <3>2, <3>3, PendingWord
    <3>5. csr' = [csr EXCEPT !.data = d] /\ csr \in CsrType
      BY <1>0, <1>6, ChipKinds DEF PutData, DataPut
    <3> HIDE DEF d
    <3>6. csr'.data = d
      BY <3>5 DEF CsrType
    <3> QED
      BY <3>2, <3>4, <3>6
  <2>3. CommandDone(a)'
    BY <2>1 DEF CommandDone
  <2> QED
    BY <1>2, <1>3, <2>1, <2>2, <2>3 DEF InWrite
<1>7. CASE GiveCommand
  <2>1. pc' = "wait" /\ call' = call
    BY <1>7 DEF GiveCommand
  <2>2. csr'.busy
    <3> DEFINE n == Now
    <3>1. csr' = [csr EXCEPT !.busy = TRUE, !.kind = call.kind, !.ado = call.ado, !.size = n]
          /\ csr \in CsrType
      BY <1>0, <1>7, ChipKinds DEF GiveCommand, CommandGiven
    <3> HIDE DEF n
    <3> QED
      BY <3>1 DEF CsrType
  <2> QED
    BY <1>2, <1>3, <2>1, <2>2 DEF InWrite, PutReady, CommandDone
<1>8. CASE WriteDone
  <2>1. /\ pc = "wait" /\ ~csr.busy /\ Advance(Now, <<>>)
        /\ pc' \in {"ok", "put"}
    BY <1>8 DEF WriteDone, After
  <2>2. call'.ado = call.ado + Now
    BY <1>0, <2>1, AdvanceNow
  <2>3. csr.ado = call.ado /\ csr.size = Now
    BY <1>0, <2>1 DEF CInv, Control, CsrControl
  <2>n. Now \in Nat
    BY <1>0, <2>1, NowFacts DEF InCsr
  <2>5. Sent(a)'
    <3>0. WriteStart' .. call'.ado - 1 = WriteStart .. call.ado + Now - 1
      <4>1. WriteStart' = WriteStart
        BY <1>1
      <4>2. PICK x \in Nat : x = call'.ado
        BY <1>5, <2>2, <2>n
      <4> QED
        BY <1>5, <2>2, <2>n, <4>1, <4>2
    <3>n. Free' = Free
      BY DEF Free
    <3> SUFFICES ASSUME a \in Free, a \in WriteStart .. call.ado + Now - 1
                 PROVE  mem[a].ver = Ver(call) \/ Flying(a)'
      BY <1>1, <3>0, <3>n DEF Sent
    <3>1. CASE a \in WriteStart .. call.ado - 1
      BY <1>0, <3>1 DEF InWrite, Sent
    <3>2. CASE a \in call.ado .. call.ado + Now - 1
      BY <1>0, <2>1, <2>3, <3>2 DEF InWrite, CommandDone
    <3> QED
      BY <1>5, <2>n, <3>1, <3>2
  <2> QED
    BY <1>2, <1>4, <2>1, <2>5 DEF InWrite
<1>9. CASE PushWord
  <2>1. /\ pc \in {"first", "burst"} /\ Advance(Share, <<>>) /\ WordPushed
        /\ pc' \in {"ok", "header", "burst"}
    BY <1>9 DEF PushWord, WordPushed, After
  <2>2. call'.ado = call.ado + Share /\ Share \in Nat
    BY <1>0, <2>1, AdvanceShare, WordFacts
  <2>n. Share \in Nat
    BY <2>2
  <2>3. a \in call.ado .. call.ado + Share - 1 => Queued(a)'
    BY <1>1, <2>1, PushCells
  <2>4. Sent(a)'
    <3>0. WriteStart' .. call'.ado - 1 = WriteStart .. call.ado + Share - 1
      <4>1. WriteStart' = WriteStart
        BY <1>1
      <4>2. PICK x \in Nat : x = call'.ado
        BY <1>5, <2>2, <2>n
      <4> QED
        BY <1>5, <2>2, <2>n, <4>1, <4>2
    <3>n. Free' = Free
      BY DEF Free
    <3> SUFFICES ASSUME a \in Free, a \in WriteStart .. call.ado + Share - 1
                 PROVE  mem[a].ver = Ver(call) \/ Flying(a)'
      BY <1>1, <3>0, <3>n DEF Sent
    <3>1. CASE a \in WriteStart .. call.ado - 1
      BY <1>0, <3>1 DEF InWrite, Sent
    <3>2. CASE a \in call.ado .. call.ado + Share - 1
      BY <2>3, <3>2 DEF Flying
    <3> QED
      BY <1>5, <2>2, <3>1, <3>2
  <2> QED
    BY <1>2, <1>4, <2>1, <2>4 DEF InWrite
<1>10. CASE AskAbort \/ IsQuiet \/ GiveSpan \/ StartEngine \/ LookOn
  <2>1. call' = call /\ pc' \notin {"cmd", "wait"}
    BY <1>10 DEF AskAbort, IsQuiet, GiveSpan, StartEngine, LookOn
  <2> QED
    BY <1>2, <1>3, <1>4, <2>1 DEF InWrite
<1> QED
  BY <1>0, <1>6, <1>7, <1>8, <1>9, <1>10
     DEF Going, ReadDone, TakeData, PopWord, WordPopped, AskReset, ResetAsked, ResetDone,
         CInv, TInv, PcOK

LEMMA GoingReset ==
  ASSUME WInv, Going, UNCHANGED <<expect, version>>, call.kind = "reset",
         NEW a \in Cell, UNCHANGED mem
  PROVE  InReset(a)'
<1>0. CInv /\ InReset(a)
  BY DEF WInv
<1>1. AskReset \/ ResetDone
  BY <1>0 DEF Going, PutData, GiveCommand, ReadDone, WriteDone, TakeData, AskAbort,
         IsQuiet, GiveSpan, StartEngine, LookOn, PopWord, PushWord,
         DataPut, CommandGiven, AbortAsked, SpanGiven, EngineStarted, WordPopped,
         WordPushed, CInv, TInv, PcOK, Steps, InCsr, InPram, Kinds
<1>2. call' = call
  BY <1>1 DEF AskReset, ResetDone
<1>3. CASE AskReset
  BY <1>0, <1>2, <1>3 DEF AskReset, ResetAsked, InReset
<1>4. CASE ResetDone
  BY <1>0, <1>2, <1>4 DEF ResetDone, InReset, Free
<1> QED
  BY <1>1, <1>3, <1>4

LEMMA GoingRuns ==
  ASSUME WInv, Going, UNCHANGED <<expect, version>>
  PROVE  QueueRuns'
<1>0. CInv
  BY DEF WInv
<1>1. SUFFICES ASSUME call.kind = "write", pc' \in Streaming PROVE QueueRuns'
  BY <1>0, KeptCall DEF QueueRuns
<1>2. /\ engine \in [Kinds -> EngineType] /\ Queue \in EngineType
      /\ Queue.ado \in Nat /\ Queue.fifo \in Seq(Word) /\ Len(Queue.fifo) \in Nat
      /\ call.ado \in Nat
  BY <1>0, <1>1, ChipKinds, WriteFacts
<1>3. StartEngine \/ LookOn \/ PushWord
  BY <1>0, <1>1
     DEF Going, PutData, GiveCommand, ReadDone, WriteDone, TakeData, After, AskAbort,
         IsQuiet, GiveSpan, PopWord, WordPopped, AskReset, ResetDone, Streaming
<1>4. CASE StartEngine
  <2>1. pc = "go" /\ call' = call /\ pc' = "avail"
        /\ engine' = [engine EXCEPT ![call.kind].status = "run"]
    BY <1>4 DEF StartEngine, EngineStarted
  <2>2. Queue.ado = call.ado /\ Queue.fifo = <<>>
    BY <1>0, <1>1, <2>1 DEF CInv, Control, EngineControl, Queue
  <2>3. Queue'.ado = Queue.ado /\ Queue'.fifo = Queue.fifo
    BY <1>1, <1>2, <2>1 DEF Queue, EngineType, Kinds
  <2>4. Len(Queue'.fifo) = 0
    BY <2>2, <2>3
  <2>5. Queue'.ado = call'.ado /\ call'.ado \in Nat
    BY <1>2, <2>1, <2>2, <2>3
  <2> QED
    BY <2>4, <2>5 DEF QueueRuns
<1>5. CASE LookOn
  <2>1. call' = call /\ Queue' = Queue /\ pc \in Streaming
        /\ (pc' \in {"avail", "count", "first"} => pc \in {"avail", "count", "first"})
    BY <1>5 DEF LookOn, Stays, Queue, Streaming
  <2> QED
    BY <1>1, <2>1 DEF WInv, QueueRuns
<1>6. CASE PushWord
  <2>1. /\ pc \in {"first", "burst"} /\ Advance(Share, <<>>) /\ WordPushed
        /\ pc' \in {"ok", "header", "burst"} /\ Share # call.rest
    BY <1>1, <1>6 DEF PushWord, WordPushed, After, Streaming
  <2>2. /\ call'.kind = call.kind /\ call'.data = call.data
        /\ call'.ado = call.ado + Share
    BY <1>0, <1>1, <2>1, AdvanceShare
  <2>3. /\ Lane = call.ado % 4 /\ Share = 4 - Lane /\ Share \in Nat
    BY <1>0, <2>1, WordFacts
  <2>4. (call.ado + Share) \div 4 = (call.ado \div 4) + 1
    BY <1>2, <2>3, NextWord
  <2>5. PICK a \in Cell : TRUE
    BY Sizes DEF Cell
  <2>6. Queue'.ado = Queue.ado /\ Len(Queue'.fifo) = Len(Queue.fifo) + 1
    BY <2>1, <2>2, <2>5, PushCells
  <2>7. Queue.ado <= call.ado /\ call.ado \div 4 = (Queue.ado \div 4) + Len(Queue.fifo)
    BY <1>1, <2>1 DEF WInv, QueueRuns, Streaming
  <2>8. /\ Queue.ado <= call.ado + Share
        /\ (call.ado + Share) \div 4 = (Queue.ado \div 4) + (Len(Queue.fifo) + 1)
    <3>1. Queue.ado <= call.ado + Share
      BY <1>2, <2>3, <2>7
    <3> DEFINE q == Queue.ado \div 4
               c == call.ado \div 4
    <3>2. q \in Nat /\ c \in Nat /\ c = q + Len(Queue.fifo)
      BY <1>2, <2>7
    <3>3. (call.ado + Share) \div 4 = c + 1
      BY <2>4
    <3> HIDE DEF q, c
    <3>4. c + 1 = q + (Len(Queue.fifo) + 1)
      BY <1>2, <3>2
    <3> QED
      BY <3>1, <3>3, <3>4 DEF q
  <2> QED
    BY <2>1, <2>2, <2>6, <2>8 DEF QueueRuns, Streaming
<1> QED
  BY <1>3, <1>4, <1>5, <1>6

LEMMA AccessWrites ==
  ASSUME WInv, Access
  PROVE  QueueRuns' /\ \A a \in Cell : InChip(a)' /\ InWrite(a)' /\ InReset(a)'
<1>1. /\ UNCHANGED <<expect, version>> /\ CInv /\ PcOK
  BY DEF Access, application, WInv, CInv, TInv
<1>2. CASE Transact
  <2>1. Going /\ Touched
    BY <1>1, <1>2, TransactCases, TouchCases DEF Transact, Going
  <2>2. /\ call'.kind = call.kind
        /\ call.kind = "write" => call'.data = call.data
        /\ call.kind = "reset" => call' = call
    BY <1>1, <2>1, KeptCall
  <2>3. QueueRuns'
    BY <1>1, <2>1, GoingRuns
  <2>4. ASSUME NEW a \in Cell PROVE InChip(a)' /\ InWrite(a)' /\ InReset(a)'
    <3>1. InChip(a)' /\ (Flying(a) => Flying(a)') /\ UNCHANGED mem
      BY <1>1, <2>1, <2>2, TouchedCells
    <3>2. InWrite(a)'
      <4>1. CASE call.kind = "write"
        BY <1>1, <2>1, <3>1, <4>1, GoingWrite
      <4>2. CASE call.kind # "write"
        BY <2>2, <4>2 DEF InWrite, Asked, Sent, PutReady, CommandDone
      <4> QED
        BY <4>1, <4>2
    <3>3. InReset(a)'
      <4>1. CASE call.kind = "reset"
        BY <1>1, <2>1, <3>1, <4>1, GoingReset
      <4>2. CASE call.kind # "reset"
        BY <2>2, <4>2 DEF InReset
      <4> QED
        BY <4>1, <4>2
    <3> QED
      BY <3>1, <3>2, <3>3
  <2> QED
    BY <2>3, <2>4
<1>3. CASE Fail
  <2>1. Touched /\ call' = call /\ pc' = "error"
    BY <1>1, <1>3, TouchCases DEF Fail
  <2>2. QueueRuns'
    BY <2>1 DEF QueueRuns, Streaming
  <2>3. ASSUME NEW a \in Cell PROVE InChip(a)' /\ InWrite(a)' /\ InReset(a)'
    <3>1. InChip(a)' /\ (Flying(a) => Flying(a)') /\ UNCHANGED mem
      BY <1>1, <2>1, TouchedCells
    <3>2. InWrite(a) /\ InReset(a)
      BY DEF WInv
    <3>3. WriteStart' = WriteStart /\ Ver(call)' = Ver(call)
      BY <2>1 DEF WriteStart, Ver
    <3>4. InWrite(a)'
      BY <1>1, <2>1, <3>1, <3>2, <3>3
         DEF InWrite, Asked, Sent, PutReady, CommandDone, Free
    <3>5. InReset(a)'
      BY <1>1, <2>1, <3>2 DEF InReset
    <3> QED
      BY <3>1, <3>4, <3>5
  <2> QED
    BY <2>2, <2>3
<1> QED
  BY <1>2, <1>3 DEF Access

LEMMA BeginWrites ==
  ASSUME WInv, NEW c, Begins(c)
  PROVE  QueueRuns' /\ \A a \in Cell : InChip(a)' /\ InWrite(a)' /\ InReset(a)'
<1>1. /\ call'.kind = c.kind /\ call'.ado = c.ado /\ call'.rest = c.rest
      /\ call'.data = c.data /\ pc' = Entry(c) /\ CInv
  BY IssueTypes DEF Begins, WInv, CInv
<1>2. pc' \in {"rst", "abort", "cmd", "put"} /\ (pc' = "cmd" => c.kind # "write")
  BY <1>1 DEF Entry
<1>3. UNCHANGED <<mem, csr, engine, resetting>> /\ Settled
  BY DEF Begins
<1>4. QueueRuns'
  BY <1>2 DEF QueueRuns, Streaming
<1>5. ASSUME NEW a \in Cell PROVE InChip(a)' /\ InWrite(a)' /\ InReset(a)'
  <2>1. InChip(a) /\ InWrite(a) /\ InReset(a) /\ resetting = 0
        /\ ~Flying(a) /\ ~Commanded(a) /\ ~Queued(a)
    BY <1>1, <1>3, SettledFree DEF WInv
  <2>2. Commanded(a)' = Commanded(a) /\ Queued(a)' = Queued(a) /\ Flying(a)' = Flying(a)
    BY <1>3 DEF Commanded, Queued, Queue, Flying
  <2>3. expect'[a] = IF Covers(c, a) THEN expect[a] \cup {Ver(c)} ELSE expect[a]
    BY DEF Begins, Issue
  <2>4. InChip(a)'
    BY <1>3, <2>1, <2>2, <2>3
       DEF InChip, Placed, CommandMeant, QueueMeant, ResetMeant, Free
  <2>5. InWrite(a)'
    <3>1. SUFFICES ASSUME c.kind = "write" PROVE Asked(a)' /\ Sent(a)'
      BY <1>1, <1>2 DEF InWrite, Asked, Sent, PutReady, CommandDone
    <3>2. PICK v \in Nat : c.data = Bytes(c.ado, c.rest, v)
      BY <3>1 DEF Begins
    <3>3. /\ c.ado \in Nat /\ c.rest \in Nat /\ c.rest # 0 /\ c.rest = Len(c.data)
      BY <3>1 DEF Begins, Fits, Kinds
    <3>4. \A i \in 1 .. c.rest : c.data[i] = Byte(c.ado + i - 1, v)
      BY <3>2 DEF Bytes
    <3>5. Ver(c) = v
      <4>1. c.data[1] = Byte(c.ado + 1 - 1, v)
        BY <3>3, <3>4
      <4> QED
        BY <3>1, <4>1 DEF Ver, Byte
    <3>6. Ver(call)' = v
      BY <1>1, <3>1, <3>5 DEF Ver
    <3>7. WriteStart' = c.ado
      <4>1. c.ado - (c.rest - c.rest) = c.ado
        BY <3>3
      <4> QED
        BY <1>1, <3>3, <4>1 DEF WriteStart
    <3>8. Asked(a)'
      <4> SUFFICES ASSUME a \in c.ado .. c.ado + c.rest - 1
                   PROVE  v \in expect'[a] /\ c.data[a - c.ado + 1] = Byte(a, v)
        BY <1>1, <3>3, <3>6, <3>7 DEF Asked
      <4>1. Covers(c, a)
        BY <3>1, <3>3 DEF Covers
      <4>2. a \in Nat
        BY <1>1, ChipKinds
      <4> DEFINE i == a - c.ado + 1
      <4>3. i \in 1 .. c.rest /\ c.ado + i - 1 = a
        BY <3>3, <4>2
      <4>4. c.data[i] = Byte(a, v)
        <5> HIDE DEF i
        <5>1. c.data[i] = Byte(c.ado + i - 1, v)
          BY <3>4, <4>3
        <5> QED
          BY <4>3, <5>1
      <4> QED
        BY <2>3, <3>5, <4>1, <4>4
    <3>9. Sent(a)'
      <4>1. ~(a \in WriteStart' .. call'.ado - 1)
        BY <1>1, <3>3, <3>7
      <4> QED
        BY <4>1 DEF Sent
    <3> QED
      BY <3>8, <3>9
  <2>6. InReset(a)'
    <3> SUFFICES ASSUME c.kind = "reset" PROVE c.ado # 0 /\ c.ado \in expect'[a]
      BY <1>1, <1>2 DEF InReset
    <3>1. Covers(c, a) /\ Ver(c) = c.ado
      BY DEF Covers, Ver
    <3> QED
      BY <2>3, <3>1 DEF Begins
  <2> QED
    BY <2>4, <2>5, <2>6
<1> QED
  BY <1>4, <1>5

LEMMA EndWrites ==
  ASSUME WInv, Ends
  PROVE  QueueRuns' /\ \A a \in Cell : InChip(a)' /\ InWrite(a)' /\ InReset(a)'
<1>1. call'.kind = "none" /\ UNCHANGED <<mem, csr, engine, resetting>> /\ CInv
  BY DEF Ends, NoCall, WInv
<1>2. QueueRuns'
  BY <1>1 DEF QueueRuns
<1>3. ASSUME NEW a \in Cell PROVE InChip(a)' /\ InWrite(a)' /\ InReset(a)'
  <2>1. InChip(a) /\ InWrite(a) /\ InReset(a)
    BY DEF WInv
  <2>2. Commanded(a)' = Commanded(a) /\ Queued(a)' = Queued(a) /\ Flying(a)' = Flying(a)
    BY <1>1 DEF Commanded, Queued, Queue, Flying
  <2>3. InWrite(a)' /\ InReset(a)'
    BY <1>1 DEF InWrite, Asked, Sent, PutReady, CommandDone, InReset
  <2>4. CASE expect' = expect
    <3>1. MeantAt(a) \subseteq MeantAt(a)'
      BY <1>1, <2>4 DEF MeantAt, Mine
    <3>2. InChip(a)'
      BY <1>1, <2>1, <2>2, <2>4, <3>1
         DEF InChip, Placed, CommandMeant, QueueMeant, ResetMeant, Queue, Free
    <3> QED
      BY <2>3, <3>2
  <2>5. CASE pc = "ok" /\ Landed
    <3>1. expect'[a] = IF Covers(Target, a) THEN {Ver(call)} ELSE expect[a]
      BY <2>5 DEF Landed
    <3>2. Target.kind = call.kind
      <4>1. call \in CallType
        BY <1>1 DEF CInv, TInv, CallOK
      <4> QED
        BY <4>1 DEF Target, CallType
    <3>3. CASE ~Covers(Target, a)
      <4>1. MeantAt(a) \subseteq MeantAt(a)'
        BY <1>1, <3>1, <3>3 DEF MeantAt, Mine
      <4>2. InChip(a)'
        BY <1>1, <2>1, <2>2, <3>1, <3>3, <4>1
           DEF InChip, Placed, CommandMeant, QueueMeant, ResetMeant, Queue, Free
      <4> QED
        BY <2>3, <4>2
    <3>4. CASE Covers(Target, a) /\ call.kind = "write"
      <4>1. /\ call.ado \in Nat /\ call.rest \in Nat /\ Len(call.data) \in Nat
            /\ call \in CallType /\ WriteStart \in Nat
            /\ WriteStart + Len(call.data) = call.ado + call.rest
        BY <1>1, <3>4, WriteFacts
      <4>2. call.rest = 0 /\ resetting = 0
        BY <1>1, <2>5, <3>4 DEF CInv, TInv, PcOK, Control, Kinds
      <4>3. Target.ado = WriteStart /\ Target.data = call.data
        BY <3>4, <4>1 DEF Target, WriteStart, CallType
      <4>4. a \in WriteStart .. call.ado - 1
        <5>1. a \in WriteStart .. WriteStart + Len(call.data) - 1
          BY <3>2, <3>4, <4>3 DEF Covers
        <5> QED
          BY <4>1, <4>2, <5>1
      <4>5. a \in Free => mem[a].ver = Ver(call) \/ Flying(a)
        BY <2>1, <3>4, <4>4 DEF InWrite, Sent
      <4>6. expect'[a] = {Ver(call)}
        BY <3>1, <3>4
      <4>7. MeantAt(a) \subseteq MeantAt(a)'
        BY <1>1, <3>4, <4>6 DEF MeantAt, Mine
      <4>8. InChip(a)'
        BY <1>1, <2>1, <2>2, <4>2, <4>5, <4>6, <4>7
           DEF InChip, Placed, CommandMeant, QueueMeant, ResetMeant, Queue, Free
      <4> QED
        BY <2>3, <4>8
    <3>5. CASE Covers(Target, a) /\ call.kind # "write"
      <4>1. call.kind = "reset" /\ Ver(call) = call.ado
        BY <3>2, <3>5 DEF Covers, Ver
      <4>2. ~Commanded(a) /\ ~Queued(a)
        <5>1. ~csr.busy /\ Queue.fifo = <<>>
          BY <1>1, <4>1 DEF CInv, Control, CsrControl, EngineControl, Queue
        <5> QED
          BY <1>1, <5>1, NothingQueued DEF Commanded
      <4>3. a \in Free => mem[a].ver = call.ado
        BY <2>1, <2>5, <4>1 DEF InReset
      <4>4. resetting # 0 => resetting = call.ado
        BY <2>1, <4>1 DEF InChip, ResetMeant
      <4>5. expect'[a] = {call.ado}
        BY <3>1, <3>5, <4>1
      <4>6. InChip(a)'
        BY <1>1, <2>1, <2>2, <4>2, <4>3, <4>4, <4>5
           DEF InChip, Placed, CommandMeant, QueueMeant, ResetMeant, Free
      <4> QED
        BY <2>3, <4>6
    <3> QED
      BY <3>3, <3>4, <3>5
  <2> QED
    BY <2>4, <2>5 DEF Ends
<1> QED
  BY <1>2, <1>3

(* The master writes only what it owns.                                    *)
LEMMA BusFacts ==
  ASSUME CInv, Bus, NEW a \in Cell
  PROVE  \/ mem'[a] = mem[a]
         \/ mem'[a] = Byte(a, version) /\ a \notin Free
<1>1. PICK part \in DOMAIN BusOwned :
        mem' = [x \in Cell |-> IF x \in BusOwned[part] THEN Byte(x, version) ELSE mem[x]]
  BY DEF Bus
<1>2. BusOwned[part] \subseteq BusOwned["al"] \cup BusOwned["image"]
  <2>1. part \in {"al", "event", "image"} /\ BusOwned["event"] \subseteq BusOwned["al"]
    BY DEF BusOwned
  <2> QED
    BY <2>1
<1> QED
  BY <1>1, <1>2 DEF Free

LEMMA ElsewhereWrites ==
  ASSUME WInv, Elsewhere
  PROVE  QueueRuns' /\ \A a \in Cell : InChip(a)' /\ InWrite(a)' /\ InReset(a)'
<1>1. /\ UNCHANGED <<csr, engine, resetting, call, pc, expect>> /\ CInv
  BY DEF Elsewhere, WInv
<1>2. QueueRuns'
  BY <1>1 DEF WInv, QueueRuns, Queue
<1>3. ASSUME NEW a \in Cell PROVE InChip(a)' /\ InWrite(a)' /\ InReset(a)'
  <2>1. InChip(a) /\ InWrite(a) /\ InReset(a)
    BY DEF WInv
  <2>2. /\ Commanded(a)' = Commanded(a) /\ Queued(a)' = Queued(a)
        /\ Flying(a)' = Flying(a) /\ WriteStart' = WriteStart /\ Now' = Now
        /\ MeantAt(a)' = MeantAt(a) /\ Ver(call)' = Ver(call) /\ Free' = Free
    BY <1>1 DEF Commanded, Queued, Queue, Flying, WriteStart, Now, MeantAt, Mine, Ver, Free
  <2>3. mem'[a].at = a /\ (a \in Free => mem'[a] = mem[a])
    <3>1. mem'[a] = mem[a] \/ (mem'[a] = Byte(a, version) /\ a \notin Free)
      BY <1>1, BusFacts DEF Elsewhere
    <3> QED
      BY <2>1, <3>1 DEF InChip, Placed, Byte
  <2>4. InChip(a)'
    BY <1>1, <2>1, <2>2, <2>3
       DEF InChip, Placed, CommandMeant, QueueMeant, ResetMeant, Queue
  <2>5. InWrite(a)'
    BY <1>1, <2>1, <2>2, <2>3 DEF InWrite, Asked, Sent, PutReady, CommandDone
  <2>6. InReset(a)'
    BY <1>1, <2>1, <2>2, <2>3 DEF InReset
  <2> QED
    BY <2>4, <2>5, <2>6
<1> QED
  BY <1>2, <1>3

LEMMA InitWrites == Init => WInv
<1> SUFFICES ASSUME Init PROVE WInv
  OBVIOUS
<1>1. CInv
  BY InitTypes, InitControl DEF CInv
<1>2. QueueRuns
  BY DEF Init, DriverInit, NoCall, QueueRuns
<1>3. ASSUME NEW a \in Cell PROVE InChip(a) /\ InWrite(a) /\ InReset(a)
  <2>1. mem[a].at = a /\ mem[a].ver = 0 /\ expect[a] = {0}
    BY DEF Init, ChipInit, Wiped, Byte
  <2>2. call.kind = "none"
    BY DEF Init, DriverInit, NoCall
  <2>3. ~csr.busy /\ resetting = 0 /\ Queue.left = 0
    BY DEF Init, ChipInit, IdleCsr, IdleEngine, Queue
  <2>4. ~Commanded(a) /\ ~Queued(a)
    BY <1>1, <2>3, NothingQueued DEF Commanded
  <2> QED
    BY <2>1, <2>2, <2>3, <2>4
       DEF InChip, Placed, CommandMeant, QueueMeant, ResetMeant, InWrite, Asked, Sent,
           PutReady, CommandDone, InReset
<1> QED
  BY <1>1, <1>2, <1>3 DEF WInv

LEMMA StepWrites == WInv /\ [Next]_vars => WInv'
<1> SUFFICES ASSUME WInv, [Next]_vars PROVE WInv'
  OBVIOUS
<1>1. CInv /\ CInv'
  BY StepControl DEF WInv
<1>2. QueueRuns' /\ \A a \in Cell : InChip(a)' /\ InWrite(a)' /\ InReset(a)'
  BY <1>1, NextCases, AccessWrites, ChipWrites, BeginWrites, EndWrites, ElsewhereWrites
<1> QED
  BY <1>1, <1>2 DEF WInv

LEMMA WriteInvariant == Spec => []WInv
BY InitWrites, StepWrites, PTL DEF Spec

(* Once the chip is settled and no call runs, every address the master     *)
(* does not own holds a byte meant for it, of the last write or reset that *)
(* succeeded or of one that failed since (lan9252_esc_write,               *)
(* lan9252_pdram_write, lan9252_soft_reset; WriteLands).                   *)
THEOREM WritesLand == Spec => []WriteLands
<1>1. WInv => WriteLands
  <2> SUFFICES ASSUME WInv, Settled, NEW a \in Free
               PROVE  mem[a].at = a /\ mem[a].ver \in expect[a]
    BY DEF WriteLands, Free
  <2>1. a \in Cell
    BY DEF Free
  <2>2. InChip(a) /\ ~Flying(a)
    BY <2>1, SettledFree DEF WInv
  <2> QED
    BY <2>1, <2>2 DEF InChip, Placed
<1> QED
  BY <1>1, WriteInvariant, PTL

-----------------------------------------------------------------------------
(* What a read has seen: a byte of an address that is not older than what  *)
(* the memory held there at the start, nor newer than what it holds now.   *)
Source == engine["read"]
ReadStart == call.ado - Len(call.data)
SeenAt(a) == [at : {a}, ver : call.held[a - ReadStart + 1].ver .. mem[a].ver]

Kept(a) ==
  a \in ReadStart .. call.ado + call.rest - 1 =>
    call.held[a - ReadStart + 1].ver <= mem[a].ver
Came(a) ==
  a \in ReadStart .. call.ado - 1 => call.data[a - ReadStart + 1] \in SeenAt(a)
Taken(a) ==
  pc \in {"wait", "data"} /\ ~csr.busy /\ a \in call.ado .. call.ado + Now - 1 =>
    csr.data[a - call.ado] \in SeenAt(a)
Fetched(a) ==
  pc \in Streaming /\ a \in call.ado .. Source.ado - 1 =>
    /\ At(a, call.ado) <= Len(Source.fifo)
    /\ Source.fifo[At(a, call.ado)][a % 4] \in SeenAt(a)
InRead(a) == Kept(a) /\ Came(a) /\ Taken(a) /\ Fetched(a)
SourceRuns ==
  pc \in Streaming =>
    /\ call.ado <= Source.ado
    /\ Source.left # 0 =>
         Source.ado \div 4 = (call.ado \div 4) + Len(Source.fifo)
Reading == SourceRuns /\ \A a \in Cell : InRead(a)
RInv == WInv /\ (call.kind = "read" => Reading)

LEMMA ReadFacts ==
  ASSUME CInv, call.kind = "read"
  PROVE  /\ call.ado \in Nat /\ call.rest \in Nat /\ call.data \in Seq(Bt)
         /\ call.held \in Seq(Bt) /\ Len(call.data) \in Nat /\ call \in CallType
         /\ Len(call.held) = Len(call.data) + call.rest
         /\ ReadStart \in Nat /\ ReadStart + Len(call.data) = call.ado
         /\ ReadStart <= call.ado
         /\ call.ado + call.rest <= MEM_SIZE
<1>1. /\ call \in CallType /\ Len(call.data) <= call.ado
      /\ Len(call.held) = Len(call.data) + call.rest
      /\ call.ado + call.rest <= MEM_SIZE
  BY DEF CInv, TInv, CallOK, Kinds
<1>2. /\ call.ado \in Nat /\ call.rest \in Nat /\ call.data \in Seq(Bt)
      /\ call.held \in Seq(Bt) /\ Len(call.data) \in Nat
  BY <1>1 DEF CallType
<1> QED
  BY <1>1, <1>2 DEF ReadStart

LEMMA SourceKinds ==
  ASSUME CInv
  PROVE  /\ Source \in EngineType /\ Source.ado \in Nat /\ Source.left \in Nat
         /\ Source.fifo \in Seq(Word) /\ Len(Source.fifo) \in Nat
         /\ Source.ado + Source.left <= MEM_SIZE
<1>1. Source \in EngineType /\ Source.ado + Source.left <= MEM_SIZE
  BY ChipKinds DEF CInv, TInv, ChipOK, Source, Kinds
<1>2. Source.ado \in Nat /\ Source.left \in Nat /\ Source.fifo \in Seq(Word)
  BY <1>1 DEF EngineType
<1> QED
  BY <1>1, <1>2

(* What the memory holds now is something a read may see.                  *)
LEMMA MemSeen ==
  ASSUME RInv, call.kind = "read", NEW a \in Cell,
         a \in ReadStart .. call.ado + call.rest - 1
  PROVE  mem[a] \in SeenAt(a)
<1> DEFINE i == a - ReadStart + 1
<1>1. /\ call.held \in Seq(Bt) /\ Len(call.held) = Len(call.data) + call.rest
      /\ ReadStart \in Nat /\ ReadStart + Len(call.data) = call.ado
      /\ call.rest \in Nat /\ Len(call.data) \in Nat
  BY ReadFacts DEF RInv, WInv
<1>2. mem[a] \in Bt /\ a \in Nat
  BY ChipKinds DEF RInv, WInv
<1>3. i \in 1 .. Len(call.held)
  BY <1>1, <1>2
<1>4. call.held[i] \in Bt
  BY <1>1, <1>3
<1>5. call.held[i].ver <= mem[a].ver /\ mem[a].at = a
  BY DEF RInv, Reading, InRead, Kept, WInv, InChip, Placed
<1> HIDE DEF i
<1>6. mem[a].ver \in Nat /\ call.held[i].ver \in Nat
  BY <1>2, <1>4 DEF Bt, ByteOf, Old
<1>7. mem[a].ver \in call.held[i].ver .. mem[a].ver
  BY <1>5, <1>6
<1>8. mem[a] = [at |-> mem[a].at, ver |-> mem[a].ver]
  BY <1>2 DEF Bt, ByteOf
<1> QED
  BY <1>5, <1>7, <1>8 DEF SeenAt, i

(* While the call goes on and the memory stays, so does what was seen.     *)
LEMMA SameSeen ==
  ASSUME UNCHANGED mem, call'.held = call.held, ReadStart' = ReadStart, NEW a
  PROVE  SeenAt(a)' = SeenAt(a)
BY DEF SeenAt

LEMMA SameRead ==
  ASSUME RInv, call.kind = "read", UNCHANGED <<mem, call>>
  PROVE  /\ ReadStart' = ReadStart /\ Now' = Now
         /\ \A a \in Cell : SeenAt(a)' = SeenAt(a) /\ Kept(a)' /\ Came(a)'
<1>1. ReadStart' = ReadStart /\ Now' = Now
  BY DEF ReadStart, Now
<1>2. \A a \in Cell : SeenAt(a)' = SeenAt(a)
  BY <1>1, SameSeen
<1> QED
  BY <1>1, <1>2 DEF RInv, Reading, InRead, Kept, Came

LEMMA ChipReads ==
  ASSUME RInv, Chip, call.kind = "read"
  PROVE  Reading'
<1>0. CInv /\ UNCHANGED <<call, pc, version>>
  BY DEF RInv, WInv, Chip, ChipStep, ChipCsr, ChipAbort, ChipFill, ChipDrain, ChipReset,
         driver, application
<1>1. /\ resetting = 0 /\ engine["write"].fifo = <<>>
      /\ csr.busy => pc \in {"wait", "error"} /\ csr.kind = "read"
      /\ engine \in [Kinds -> EngineType]
  BY <1>0, ChipKinds DEF CInv, Control, CsrControl, EngineControl, Kinds
<1>2. mem' = mem
  BY <1>1 DEF Chip, ChipStep, ChipCsr, ChipAbort, ChipFill, ChipDrain, ChipReset
<1>3. /\ ReadStart' = ReadStart /\ Now' = Now
      /\ \A a \in Cell : SeenAt(a)' = SeenAt(a) /\ Kept(a)' /\ Came(a)'
  BY <1>0, <1>2, SameRead
<1>4. CASE ChipCsr
  <2>1. UNCHANGED engine /\ csr.busy /\ csr.kind = "read" /\ pc \notin Streaming
    BY <1>1, <1>4 DEF ChipCsr, Streaming
  <2>2. ASSUME NEW a \in Cell PROVE Taken(a)'
    <3> SUFFICES ASSUME pc = "wait", a \in call.ado .. call.ado + Now - 1
                 PROVE  csr'.data[a - call.ado] \in SeenAt(a)
      BY <1>0, <1>1, <1>3, <2>1 DEF Taken
    <3>1. csr.ado = call.ado /\ csr.size = Now /\ Now \in Nat /\ Now <= call.rest
          /\ Now <= 4
      <4>1. Now \in {1, 2, 4} /\ Now \in Nat /\ Now <= call.rest
        BY <1>0, NowFacts DEF InCsr
      <4> QED
        BY <1>0, <4>1 DEF CInv, Control, CsrControl
    <3>2. /\ csr \in CsrType /\ mem \in [Cell -> Bt] /\ version \in Nat \ {0}
          /\ a \in Nat /\ call.ado \in Nat /\ call.rest \in Nat
          /\ call.ado + call.rest <= MEM_SIZE /\ MEM_SIZE \in Nat
          /\ ReadStart \in Nat /\ ReadStart <= call.ado
      <4>1. csr \in CsrType /\ mem \in [Cell -> Bt] /\ a \in Nat
        BY <1>0, ChipKinds
      <4>2. /\ call.ado \in Nat /\ call.rest \in Nat /\ ReadStart \in Nat
            /\ ReadStart <= call.ado /\ call.ado + call.rest <= MEM_SIZE
        BY <1>0, ReadFacts
      <4>3. version \in Nat \ {0}
        BY <1>0 DEF CInv, TInv, AppOK
      <4>4. MEM_SIZE \in Nat
        BY Sizes
      <4> QED
        BY <4>1, <4>2, <4>3, <4>4
    <3> DEFINE s == Fetch(csr.ado, csr.size)
               d == InWord(s, 0)
               p == a - call.ado
    <3>3. csr' = [csr EXCEPT !.busy = FALSE, !.data = d]
      BY <1>4, <2>1 DEF ChipCsr
    <3>4. csr'.data = d
      <4> HIDE DEF d
      <4> QED
        BY <3>2, <3>3 DEF CsrType
    <3>5. call.ado + Now <= MEM_SIZE
      BY <3>1, <3>2
    <3>6. s \in Seq(Bt) /\ Len(s) = Now /\ \A i \in 1 .. Now : s[i] = mem[call.ado + i - 1]
      <4>1. s = Fetch(call.ado, Now)
        BY <3>1
      <4>2. Now \in Nat /\ call.ado \in Nat /\ mem \in [Cell -> Bt]
        BY <3>1, <3>2
      <4> HIDE DEF s
      <4> QED
        BY <3>5, <4>1, <4>2, FetchFacts
    <3>7. \A i \in Place : i - 0 + 1 \in 1 .. Len(s) => d[i] = s[i - 0 + 1]
      <4>1. 0 \in Place
        BY DEF Place
      <4> HIDE DEF s
      <4> QED
        BY <3>2, <3>6, <4>1, InWordFacts
    <3> HIDE DEF s, d
    <3>8. p \in Place /\ p - 0 + 1 \in 1 .. Now /\ call.ado + (p - 0 + 1) - 1 = a
      BY <3>1, <3>2 DEF Place
    <3> HIDE DEF p
    <3>9. d[p] = mem[a]
      BY <3>6, <3>7, <3>8
    <3>10. a \in ReadStart .. call.ado + call.rest - 1
      BY <3>1, <3>2
    <3> QED
      BY <3>4, <3>9, <3>10, MemSeen DEF p
  <2> QED
    BY <1>0, <1>3, <2>1, <2>2 DEF Reading, SourceRuns, InRead, Fetched
<1>5. ASSUME csr' = csr, pc \in Streaming => Source' = Source
      PROVE  Reading'
  BY <1>0, <1>3, <1>5 DEF RInv, Reading, SourceRuns, InRead, Taken, Fetched
<1>6. CASE ChipAbort
  <2>1. PICK k \in Kinds : /\ engine[k].status = "abort"
                           /\ engine' = [engine EXCEPT ![k] = IdleEngine]
    BY <1>6 DEF ChipAbort, Kinds
  <2>2. pc \notin Streaming
    BY <1>0, <2>1 DEF CInv, Control, EngineControl, Streaming, Kinds
  <2>3. csr' = csr
    BY <1>6 DEF ChipAbort
  <2> QED
    BY <1>5, <2>2, <2>3
<1>7. CASE ChipDrain \/ ChipReset
  BY <1>1, <1>7 DEF ChipDrain, ChipReset
<1>8. CASE ChipFill
  <2> DEFINE h == Handled(Source)
             l == Source.ado % 4
             w == InWord(Fetch(Source.ado, h), l)
             n == Len(Source.fifo)
             ado == Source.ado
             left == Source.left
             c == call.ado
  <2>0. CASE pc \notin Streaming
    BY <1>5, <1>8, <2>0 DEF ChipFill
  <2>1. CASE pc \in Streaming
    <3>1. /\ engine' = [engine EXCEPT !["read"] = Ran(Source, Append(Source.fifo, w))]
          /\ csr' = csr
      BY <1>8 DEF ChipFill, Source
    <3>2. /\ Source \in EngineType /\ ado \in Nat /\ left \in Nat
          /\ Source.fifo \in Seq(Word) /\ n \in Nat
          /\ ado + left <= MEM_SIZE /\ MEM_SIZE \in Nat
          /\ mem \in [Cell -> Bt] /\ version \in Nat \ {0}
      BY <1>0, SourceKinds, ChipKinds, Sizes DEF CInv, TInv, AppOK
    <3>3. /\ l \in Place /\ h \in Nat /\ h <= left /\ l + h <= 4
          /\ h = left \/ h = 4 - l
      BY <3>2, HandledFacts
    <3>4. ado + h <= MEM_SIZE
      <4> HIDE DEF h, ado, left
      <4> QED
        BY <3>2, <3>3
    <3>5. /\ Fetch(ado, h) \in Seq(Bt) /\ Len(Fetch(ado, h)) = h
          /\ \A i \in 1 .. h : Fetch(ado, h)[i] = mem[ado + i - 1]
      <4> HIDE DEF h, ado, left
      <4> QED
        BY <3>2, <3>3, <3>4, FetchFacts
    <3>6. /\ w \in Word
          /\ \A i \in Place : i - l + 1 \in 1 .. h => w[i] = Fetch(ado, h)[i - l + 1]
      <4> DEFINE s == Fetch(ado, h)
      <4>1. s \in Seq(Bt) /\ Len(s) = h /\ w = InWord(s, l)
        BY <3>5
      <4> HIDE DEF s, h, l, w
      <4> QED
        BY <3>2, <3>3, <4>1, InWordFacts DEF s
    <3> HIDE DEF w
    <3> DEFINE f == Append(Source.fifo, w)
    <3>7. /\ f \in Seq(Word) /\ Len(f) = n + 1 /\ f[n + 1] = w
          /\ \A i \in 1 .. n : f[i] = Source.fifo[i]
      BY <3>2, <3>6
    <3> HIDE DEF f
    <3>8. /\ Ran(Source, f).ado = ado + h /\ Ran(Source, f).left = left - h
          /\ Ran(Source, f).fifo = f
      BY <3>2, <3>7, RanType
    <3>9. Source' = Ran(Source, f)
      BY <1>1, <3>1 DEF Source, Kinds, f
    <3>10. Source'.ado = ado + h /\ Source'.left = left - h /\ Source'.fifo = f
      BY <3>8, <3>9
    <3>11. /\ c <= ado /\ (left # 0 => ado \div 4 = (c \div 4) + n)
           /\ ado + left = c + call.rest
           /\ c \in Nat /\ call.rest \in Nat /\ ReadStart \in Nat /\ ReadStart <= c
      <4>1. ado + left = c + call.rest
        BY <1>0, <2>1 DEF CInv, Control, EngineControl, Source
      <4> QED
        BY <1>0, <2>1, <4>1, ReadFacts DEF RInv, Reading, SourceRuns
    <3>12. l = ado % 4
      OBVIOUS
    <3> HIDE DEF h, l, ado, left, n, c
    <3>13. SourceRuns'
      <4>1. c <= ado + h
        BY <3>2, <3>3, <3>11
      <4>2. ASSUME left - h # 0 PROVE (ado + h) \div 4 = (c \div 4) + (n + 1)
        <5>1. h = 4 - (ado % 4) /\ left # 0
          BY <3>2, <3>3, <3>12, <4>2
        <5>2. (ado + h) \div 4 = (ado \div 4) + 1 /\ ado \div 4 = (c \div 4) + n
          BY <3>2, <3>3, <3>11, <5>1, NextWord
        <5>3. ado \div 4 \in Int /\ c \div 4 \in Int
          BY <3>2, <3>11
        <5> QED
          BY <3>2, <5>2, <5>3
      <4> QED
        BY <1>0, <3>7, <3>10, <4>1, <4>2 DEF SourceRuns, c
    <3>14. ASSUME NEW a \in Cell PROVE Fetched(a)'
      <4>1. a \in Nat
        BY <1>0, ChipKinds
      <4> SUFFICES ASSUME c <= a, a <= ado + h - 1
                   PROVE  /\ At(a, c) <= n + 1
                          /\ f[At(a, c)][a % 4] \in SeenAt(a)
        <5>1. ASSUME a \in c .. ado + h - 1 => /\ At(a, c) <= n + 1
                                              /\ f[At(a, c)][a % 4] \in SeenAt(a)
              PROVE  Fetched(a)'
          <6>1. call' = call /\ pc' = pc /\ SeenAt(a)' = SeenAt(a)
            BY <1>0, <1>3
          <6>2. Source'.ado = ado + h /\ Source'.fifo = f /\ Len(Source'.fifo) = n + 1
            BY <3>7, <3>10
          <6>3. At(a, call.ado)' = At(a, c) /\ call'.ado = c
            BY <6>1 DEF At, c
          <6>4. SUFFICES ASSUME a \in call'.ado .. Source'.ado - 1
                         PROVE  /\ At(a, call.ado)' <= Len(Source'.fifo)
                                /\ Source'.fifo[At(a, call.ado)'][a % 4] \in SeenAt(a)'
            BY DEF Fetched
          <6>5. a \in c .. ado + h - 1
            BY <3>2, <3>3, <3>11, <6>2, <6>3, <6>4
          <6>6. At(a, c) <= n + 1 /\ f[At(a, c)][a % 4] \in SeenAt(a)
            BY <5>1, <6>5
          <6> QED
            BY <6>1, <6>2, <6>3, <6>6
        <5> QED
          BY <3>2, <3>3, <3>11, <5>1
      <4>2. At(a, c) \in Nat /\ At(a, c) # 0
        BY <3>11, <4>1, AtFacts
      <4>3. CASE a <= ado - 1
        <5>1. At(a, c) <= n /\ Source.fifo[At(a, c)][a % 4] \in SeenAt(a)
          <6>1. a \in c .. ado - 1
            BY <3>2, <3>11, <4>1, <4>3
          <6> QED
            BY <2>1, <6>1 DEF RInv, Reading, InRead, Fetched, ado, c, n
        <5>2. At(a, c) \in 1 .. n
          BY <3>2, <4>2, <5>1
        <5>3. f[At(a, c)] = Source.fifo[At(a, c)]
          BY <3>7, <5>2
        <5> QED
          BY <3>2, <5>1, <5>2, <5>3
      <4>4. CASE ado <= a
        <5>1. left # 0
          BY <3>2, <3>3, <4>1, <4>4
        <5>2. a \div 4 = ado \div 4 /\ a % 4 = (ado % 4) + (a - ado) /\ a % 4 \in Place
          <6>1. h <= 4 - (ado % 4)
            BY <3>2, <3>3, <3>12
          <6>2. a \in ado .. ado + h - 1
            BY <3>2, <3>3, <4>1, <4>4
          <6> QED
            BY <3>2, <3>3, <6>1, <6>2, SameWord
        <5>3. At(a, c) = n + 1
          BY <3>2, <3>11, <5>1, <5>2 DEF At
        <5> DEFINE i == a - ado + 1
        <5>4. i \in 1 .. h /\ ado + i - 1 = a
          BY <3>2, <3>3, <4>1, <4>4
        <5>5. (a % 4) - l + 1 = i
          BY <3>2, <3>12, <4>1, <5>2
        <5> HIDE DEF i
        <5>6. w[a % 4] = mem[a]
          BY <3>5, <3>6, <5>2, <5>4, <5>5
        <5>7. a \in ReadStart .. call.ado + call.rest - 1
          BY <3>2, <3>3, <3>11, <4>1 DEF c
        <5> QED
          BY <3>2, <3>7, <5>3, <5>6, <5>7, MemSeen
      <4> QED
        BY <3>2, <4>1, <4>3, <4>4
    <3>15. ASSUME NEW a \in Cell PROVE Taken(a)'
      BY <1>0, <2>1 DEF Taken, Streaming
    <3> QED
      BY <1>3, <3>13, <3>14, <3>15 DEF Reading, InRead
  <2> QED
    BY <2>0, <2>1
<1> QED
  BY <1>4, <1>6, <1>7, <1>8 DEF Chip, ChipStep

(* A word is in the FIFO only when the engine is past its last byte.       *)
LEMMA PopBound ==
  ASSUME NEW c \in Nat, NEW s \in Nat, NEW left \in Nat, NEW rest \in Nat,
         NEW n \in Nat, NEW share \in Nat,
         n # 0, share <= 4 - (c % 4), share <= rest, s + left = c + rest,
         left # 0 => s \div 4 = (c \div 4) + n
  PROVE  c + share <= s
<1>1. CASE left = 0
  BY <1>1
<1>2. CASE left # 0
  <2>1. s \div 4 >= (c \div 4) + 1
    <3> DEFINE q == c \div 4
               r == s \div 4
    <3>1. q \in Nat /\ r \in Nat /\ r = q + n
      BY <1>2
    <3> HIDE DEF q, r
    <3>2. r >= q + 1
      BY <3>1
    <3> QED
      BY <3>2 DEF q, r
  <2>2. c + (4 - (c % 4)) <= s
    BY <2>1
  <2> QED
    BY <2>2
<1> QED
  BY <1>1, <1>2

(* The bytes that come go to the end of the data, and no other moves.      *)
LEMMA TookBytes ==
  ASSUME RInv, call.kind = "read", UNCHANGED mem, NEW n \in Nat, n <= call.rest,
         NEW got \in Seq(Bt), Len(got) = n,
         call'.held = call.held, call'.data = call.data \o got,
         call'.ado = call.ado + n, call'.rest = call.rest - n,
         \A a \in Cell : a \in call.ado .. call.ado + n - 1 =>
                           got[a - call.ado + 1] \in SeenAt(a)
  PROVE  \A a \in Cell : SeenAt(a)' = SeenAt(a) /\ Kept(a)' /\ Came(a)'
<1>0. CInv
  BY DEF RInv, WInv
<1>1. /\ call.ado \in Nat /\ call.rest \in Nat /\ call.data \in Seq(Bt)
      /\ Len(call.data) \in Nat /\ ReadStart \in Nat
      /\ ReadStart + Len(call.data) = call.ado
  BY <1>0, ReadFacts
<1> DEFINE d == call.data \o got
           l == Len(call.data)
<1>2. /\ d \in Seq(Bt) /\ Len(d) = l + n
      /\ \A i \in 1 .. l + n : d[i] = IF i <= l THEN call.data[i] ELSE got[i - l]
  <2>1. /\ d \in Seq(Bt) /\ Len(d) = Len(call.data) + Len(got)
        /\ \A i \in 1 .. Len(call.data) + Len(got) :
             d[i] = IF i <= Len(call.data) THEN call.data[i] ELSE got[i - Len(call.data)]
    BY <1>1, ConcatProperties
  <2> HIDE DEF d
  <2>2. Len(got) = n
    OBVIOUS
  <2> QED
    BY <2>1, <2>2
<1>3. l \in Nat /\ ReadStart + l = call.ado
  BY <1>1
<1>4. call'.data = d
  OBVIOUS
<1> HIDE DEF d
<1>5. ReadStart' = ReadStart
  <2>1. ReadStart' = (call.ado + n) - (l + n)
    BY <1>2, <1>4 DEF ReadStart
  <2> HIDE DEF l
  <2> QED
    BY <1>1, <1>3, <2>1
<1>6. \A a \in Cell : SeenAt(a)' = SeenAt(a)
  BY <1>5, SameSeen
<1>7. ASSUME NEW a \in Cell PROVE Kept(a)'
  <2>1. Kept(a)
    BY DEF RInv, Reading, InRead
  <2>2. (call.ado + n) + (call.rest - n) = call.ado + call.rest
    BY <1>1
  <2>3. call'.ado + call'.rest = call.ado + call.rest
    BY <2>2
  <2>4. ReadStart' .. call'.ado + call'.rest - 1 = ReadStart .. call.ado + call.rest - 1
    <3>1. call'.ado \in Nat /\ call'.rest \in Int
      BY <1>1
    <3>2. call'.ado + call'.rest - 1 = call.ado + call.rest - 1
      <4>1. PICK p \in Nat, q \in Int : p = call'.ado /\ q = call'.rest
        BY <3>1
      <4>2. PICK u \in Nat, v \in Nat : u = call.ado /\ v = call.rest
        BY <1>1
      <4>3. p + q = u + v
        BY <2>3, <4>1, <4>2
      <4>4. p + (q - 1) = u + (v - 1)
        BY <4>3
      <4> QED
        BY <4>1, <4>2, <4>4
    <3> QED
      BY <1>5, <3>2
  <2> QED
    BY <1>5, <2>1, <2>4 DEF Kept
<1>8. ASSUME NEW a \in Cell PROVE Came(a)'
  <2> DEFINE i == a - ReadStart + 1
  <2>1. SUFFICES ASSUME a \in ReadStart .. call.ado + n - 1 PROVE d[i] \in SeenAt(a)
    <3>1. ReadStart' .. call'.ado - 1 = ReadStart .. call.ado + n - 1
      <4>1. PICK x \in Nat : x = call'.ado /\ x = call.ado + n
        BY <1>1
      <4> QED
        BY <1>1, <1>5, <4>1
    <3> QED
      BY <1>4, <1>5, <1>6, <3>1 DEF Came
  <2>2. a \in Nat
    BY <1>0, ChipKinds
  <2> HIDE DEF l
  <2>3. i \in 1 .. l + n
    BY <1>1, <1>3, <2>1, <2>2
  <2>4. CASE a <= call.ado - 1
    <3>1. i <= l /\ a \in ReadStart .. call.ado - 1
      BY <1>1, <1>3, <2>1, <2>2, <2>4
    <3>2. call.data[i] \in SeenAt(a)
      BY <3>1 DEF RInv, Reading, InRead, Came
    <3> QED
      BY <1>2, <2>3, <3>1, <3>2
  <2>5. CASE call.ado <= a
    <3>0. a <= call.ado + n - 1
      BY <2>1, <2>2
    <3>1. ~(i <= l) /\ i - l = a - call.ado + 1 /\ a \in call.ado .. call.ado + n - 1
      <4>1. i - l = a - call.ado + 1
        BY <1>1, <1>3, <2>2
      <4>2. ~(i <= l)
        BY <1>1, <1>3, <2>2, <2>5
      <4>3. a \in call.ado .. call.ado + n - 1
        BY <1>1, <2>2, <2>5, <3>0
      <4> QED
        BY <4>1, <4>2, <4>3
    <3>2. got[i - l] \in SeenAt(a)
      BY <3>1
    <3> QED
      BY <1>2, <2>3, <3>1, <3>2
  <2> QED
    BY <1>1, <2>2, <2>4, <2>5
<1> QED
  BY <1>6, <1>7, <1>8

LEMMA TakeReads ==
  ASSUME RInv, TakeData, UNCHANGED version
  PROVE  Reading'
<1>0. CInv
  BY DEF RInv, WInv
<1>1. /\ pc = "data" /\ UNCHANGED mem /\ pc' \in {"ok", "cmd"}
      /\ call.kind = "read" /\ csr.kind = "read" /\ csr.ado = call.ado
      /\ ~csr.busy
  BY <1>0 DEF TakeData, Stays, After, CInv, TInv, PcOK, Control, CsrControl, Kinds
<1> DEFINE got == FromWord(csr.data, 0, Now)
<1>2. /\ got \in Seq(Bt) /\ Len(got) = Now
      /\ \A i \in 1 .. Now : got[i] = csr.data[0 + i - 1]
  BY <1>0, <1>1, TakenFacts
<1>3. Advance(Now, got)
  BY DEF TakeData
<1> HIDE DEF got
<1>4. /\ call'.kind = "read" /\ call'.held = call.held
      /\ call'.ado = call.ado + Now /\ call'.rest = call.rest - Now
      /\ call'.data = call.data \o got
  BY <1>0, <1>1, <1>2, <1>3, AdvanceNow
<1>5. Now \in Nat /\ Now <= call.rest /\ call.ado \in Nat
  BY <1>0, <1>1, NowFacts, ReadFacts DEF InCsr
<1>6. ASSUME NEW a \in Cell, a \in call.ado .. call.ado + Now - 1
      PROVE  got[a - call.ado + 1] \in SeenAt(a)
  <2> DEFINE i == a - call.ado + 1
  <2>1. a \in Nat
    BY <1>0, ChipKinds
  <2>2. i \in 1 .. Now /\ 0 + i - 1 = a - call.ado
    BY <1>5, <1>6, <2>1
  <2> HIDE DEF i
  <2>3. got[i] = csr.data[a - call.ado]
    BY <1>2, <2>2
  <2>4. csr.data[a - call.ado] \in SeenAt(a)
    BY <1>1, <1>6 DEF RInv, Reading, InRead, Taken
  <2> QED
    BY <2>3, <2>4 DEF i
<1>7. \A a \in Cell : SeenAt(a)' = SeenAt(a) /\ Kept(a)' /\ Came(a)'
  BY <1>1, <1>2, <1>4, <1>5, <1>6, TookBytes
<1> QED
  BY <1>1, <1>7 DEF Reading, SourceRuns, InRead, Taken, Fetched, Streaming

(* The word at the head of the FIFO is the next one of the call.           *)
LEMMA PopFacts ==
  ASSUME RInv, PopWord, UNCHANGED version
  PROVE  /\ call.ado + Share <= Source.ado
         /\ \A a \in Cell : a \in call.ado .. call.ado + Share - 1 =>
              Head(Source.fifo)[Lane + (a - call.ado)] \in SeenAt(a)
<1>0. CInv
  BY DEF RInv, WInv
<1>1. /\ pc \in {"first", "burst"} /\ pc \in Streaming
      /\ call.kind = "read" /\ Source.fifo # <<>>
  BY DEF PopWord, WordPopped, Source, Streaming
<1>2. /\ Source.ado \in Nat /\ Source.left \in Nat /\ Source.fifo \in Seq(Word)
      /\ Len(Source.fifo) \in Nat
  BY <1>0, SourceKinds
<1>3. /\ Lane = call.ado % 4 /\ Share \in Nat /\ Share <= call.rest
      /\ Lane + Share <= 4 /\ call.ado \in Nat /\ call.rest \in Nat /\ Lane \in Place
  BY <1>0, <1>1, WordFacts
<1>4. Len(Source.fifo) # 0 /\ Head(Source.fifo) = Source.fifo[1]
  BY <1>1, <1>2
<1>5. Share <= 4 - (call.ado % 4)
  BY <1>3 DEF Place
<1>6. Source.ado + Source.left = call.ado + call.rest
  BY <1>0, <1>1 DEF CInv, Control, EngineControl, Source
<1>7. Source.left # 0 => Source.ado \div 4 = (call.ado \div 4) + Len(Source.fifo)
  BY <1>1 DEF RInv, Reading, SourceRuns
<1>8. call.ado + Share <= Source.ado
  BY <1>2, <1>3, <1>4, <1>5, <1>6, <1>7, PopBound
<1>9. ASSUME NEW a \in Cell, a \in call.ado .. call.ado + Share - 1
      PROVE  Head(Source.fifo)[Lane + (a - call.ado)] \in SeenAt(a)
  <2>1. a \in Nat /\ a <= call.ado + Share - 1 /\ call.ado <= a
    <3>1. a \in Nat
      BY <1>0, ChipKinds
    <3> QED
      BY <1>3, <1>9, <3>1
  <2>2. a \div 4 = call.ado \div 4 /\ a % 4 = (call.ado % 4) + (a - call.ado)
    BY <1>3, <1>5, <1>9, SameWord
  <2>3. a \in call.ado .. Source.ado - 1
    BY <1>2, <1>3, <1>8, <2>1
  <2>4. At(a, call.ado) = 1
    <3>1. call.ado \div 4 \in Nat
      BY <1>3
    <3> QED
      BY <2>2, <3>1 DEF At
  <2>5. Source.fifo[At(a, call.ado)][a % 4] \in SeenAt(a)
    BY <1>1, <2>3 DEF RInv, Reading, InRead, Fetched
  <2> QED
    BY <1>3, <1>4, <2>2, <2>4, <2>5
<1> QED
  BY <1>8, <1>9

LEMMA PopReads ==
  ASSUME RInv, PopWord, UNCHANGED version
  PROVE  Reading'
<1>0. CInv
  BY DEF RInv, WInv
<1>1. /\ pc \in {"first", "burst"} /\ pc \in Streaming /\ UNCHANGED <<mem, csr>>
      /\ call.kind = "read" /\ Source.fifo # <<>>
      /\ pc' \in {"ok", "header", "burst"} /\ (pc' # "ok" => Share # call.rest)
  BY DEF PopWord, WordPopped, Source, Streaming, After
<1>2. /\ Source.ado \in Nat /\ Source.left \in Nat /\ Source.fifo \in Seq(Word)
      /\ Len(Source.fifo) \in Nat /\ Source \in EngineType
  BY <1>0, SourceKinds
<1>3. /\ Lane = call.ado % 4 /\ Share \in Nat /\ Share <= call.rest
      /\ call.ado \in Nat /\ call.rest \in Nat /\ Lane \in Place
      /\ Share = call.rest \/ Share = 4 - Lane
  BY <1>0, <1>1, WordFacts
<1> DEFINE got == FromWord(Head(engine["read"].fifo), Lane, Share)
<1>4. /\ got \in Seq(Bt) /\ Len(got) = Share
      /\ \A i \in 1 .. Share : got[i] = Head(Source.fifo)[Lane + i - 1]
  <2>1. engine["read"].fifo # <<>>
    BY <1>1 DEF Source
  <2> QED
    BY <1>0, <1>1, <2>1, TakenFacts DEF Source
<1>5. Advance(Share, got)
  BY DEF PopWord
<1> HIDE DEF got
<1>6. /\ call'.kind = "read" /\ call'.held = call.held
      /\ call'.ado = call.ado + Share /\ call'.rest = call.rest - Share
      /\ call'.data = call.data \o got
  BY <1>0, <1>1, <1>4, <1>5, AdvanceShare
<1>7. /\ call.ado + Share <= Source.ado
      /\ \A a \in Cell : a \in call.ado .. call.ado + Share - 1 =>
           Head(Source.fifo)[Lane + (a - call.ado)] \in SeenAt(a)
  BY PopFacts
<1>8. ASSUME NEW a \in Cell, a \in call.ado .. call.ado + Share - 1
      PROVE  got[a - call.ado + 1] \in SeenAt(a)
  <2> DEFINE i == a - call.ado + 1
  <2>1. a \in Nat
    BY <1>0, ChipKinds
  <2>n. Lane \in Nat
    BY <1>3 DEF Place
  <2>2. i \in 1 .. Share /\ Lane + i - 1 = Lane + (a - call.ado)
    <3> HIDE DEF i
    <3>1. i \in Nat /\ i <= Share /\ i # 0 /\ i - 1 = a - call.ado
      BY <1>3, <1>8, <2>1 DEF i
    <3> QED
      BY <1>3, <2>n, <3>1
  <2> HIDE DEF i
  <2>3. got[i] = Head(Source.fifo)[Lane + (a - call.ado)]
    BY <1>4, <2>2
  <2> QED
    BY <1>7, <1>8, <2>3 DEF i
<1>9. \A a \in Cell : SeenAt(a)' = SeenAt(a) /\ Kept(a)' /\ Came(a)'
  BY <1>1, <1>3, <1>4, <1>6, <1>8, TookBytes
<1>10. /\ Source'.ado = Source.ado /\ Source'.left = Source.left
       /\ Source'.fifo = Tail(Source.fifo)
  <2>1. engine' = [engine EXCEPT !["read"].fifo = Tail(@)]
    BY DEF PopWord, WordPopped
  <2>2. engine \in [Kinds -> EngineType] /\ "read" \in Kinds
    BY <1>0, ChipKinds DEF Kinds
  <2>3. Source' = [Source EXCEPT !.fifo = Tail(@)]
    BY <2>1, <2>2 DEF Source
  <2> QED
    BY <1>2, <2>3 DEF EngineType
<1>11. /\ Tail(Source.fifo) \in Seq(Word) /\ Len(Tail(Source.fifo)) = Len(Source.fifo) - 1
       /\ \A i \in 1 .. Len(Source.fifo) - 1 : Tail(Source.fifo)[i] = Source.fifo[i + 1]
       /\ Len(Source.fifo) # 0
  <2>1. Len(Source.fifo) # 0
    BY <1>1, <1>2
  <2> QED
    BY <1>1, <1>2, <2>1, HeadTailProperties
<1>12. ASSUME pc' \in Streaming
       PROVE  (call.ado + Share) \div 4 = (call.ado \div 4) + 1
  <2>1. Share = 4 - (call.ado % 4)
    BY <1>1, <1>3, <1>12 DEF Streaming
  <2> QED
    BY <1>3, <2>1, NextWord
<1>13. SourceRuns'
  <2> SUFFICES ASSUME pc' \in Streaming, Source.left # 0
               PROVE  Source.ado \div 4 = ((call.ado + Share) \div 4) + (Len(Source.fifo) - 1)
    <3>1. Len(Source'.fifo) = Len(Source.fifo) - 1
      BY <1>10, <1>11
    <3>2. (call'.ado) \div 4 = (call.ado + Share) \div 4
      BY <1>6
    <3> QED
      BY <1>6, <1>7, <1>10, <3>1, <3>2 DEF SourceRuns
  <2>1. Source.ado \div 4 = (call.ado \div 4) + Len(Source.fifo)
    BY <1>1 DEF RInv, Reading, SourceRuns
  <2>2. call.ado \div 4 \in Nat
    BY <1>3
  <2> QED
    BY <1>2, <1>12, <2>1, <2>2
<1>14. ASSUME NEW a \in Cell PROVE Fetched(a)'
  <2> SUFFICES ASSUME pc' \in Streaming, a \in call'.ado .. Source'.ado - 1
               PROVE  /\ At(a, call.ado)' <= Len(Source'.fifo)
                      /\ Source'.fifo[At(a, call.ado)'][a % 4] \in SeenAt(a)'
    BY DEF Fetched
  <2>1. a \in Nat /\ call.ado + Share <= a /\ call.ado <= a /\ a <= Source.ado - 1
    <3>1. a \in Nat
      BY <1>0, ChipKinds
    <3>2. PICK x \in Nat : x = call'.ado /\ x = call.ado + Share
      BY <1>3, <1>6
    <3>3. x <= a /\ a <= Source.ado - 1
      BY <1>2, <1>10, <3>1, <3>2
    <3> QED
      BY <1>3, <3>1, <3>2, <3>3
  <2>2. a \in call.ado .. Source.ado - 1
    BY <1>2, <1>3, <2>1
  <2>3. At(a, call.ado) <= Len(Source.fifo) /\ Source.fifo[At(a, call.ado)][a % 4] \in SeenAt(a)
    BY <1>1, <2>2 DEF RInv, Reading, InRead, Fetched
  <2>4. At(a, call.ado)' = At(a, call.ado + Share)
    BY <1>6 DEF At
  <2> DEFINE p == At(a, call.ado)
             q == At(a, call.ado + Share)
  <2>5. p = q + 1
    <3>1. call.ado \div 4 \in Nat /\ a \div 4 \in Nat
      BY <1>3, <2>1
    <3> QED
      BY <1>12, <3>1 DEF At
  <2>6. q \in Nat /\ q # 0
    <3>1. PICK x \in Nat : x = call.ado + Share
      BY <1>3
    <3>2. x <= a
      BY <2>1, <3>1
    <3> QED
      BY <2>1, <3>1, <3>2, AtFacts
  <2> HIDE DEF p, q
  <2>7. q \in 1 .. Len(Source.fifo) - 1
    BY <1>2, <2>3, <2>5, <2>6 DEF p
  <2>8. Tail(Source.fifo)[q] = Source.fifo[p]
    BY <1>11, <2>5, <2>7
  <2>9. q <= Len(Source'.fifo)
    BY <1>2, <1>10, <1>11, <2>6, <2>7
  <2>10. Source'.fifo[q][a % 4] \in SeenAt(a)'
    BY <1>9, <1>10, <2>3, <2>8 DEF p
  <2> QED
    BY <2>4, <2>9, <2>10 DEF q
<1>15. \A a \in Cell : Taken(a)'
  BY <1>1 DEF Taken
<1> QED
  BY <1>9, <1>13, <1>14, <1>15 DEF Reading, InRead

LEMMA AccessReads ==
  ASSUME RInv, Access, call.kind = "read"
  PROVE  Reading'
<1>0. /\ UNCHANGED version /\ CInv /\ PcOK /\ WInv /\ UNCHANGED expect
  BY DEF Access, application, RInv, WInv, CInv, TInv
<1>1. Source \in EngineType /\ engine \in [Kinds -> EngineType]
  BY <1>0, SourceKinds, ChipKinds
<1>2. ASSUME UNCHANGED <<mem, call>>, SourceRuns',
             \A a \in Cell : Taken(a)' /\ Fetched(a)'
      PROVE  Reading'
  BY <1>2, SameRead DEF Reading, InRead
<1>3. ASSUME pc' \notin Streaming
      PROVE  SourceRuns' /\ \A a \in Cell : Fetched(a)'
  BY <1>3 DEF SourceRuns, Fetched
<1>4. ASSUME pc' \notin {"wait", "data"}
      PROVE  \A a \in Cell : Taken(a)'
  BY <1>4 DEF Taken
<1>5. CASE Transact
  <2>1. Going
    BY <1>0, <1>5, TransactCases DEF Going
  <2>2. CASE GiveCommand
    <3>1. UNCHANGED <<mem, call>> /\ pc' = "wait"
      BY <2>2 DEF GiveCommand, CommandGiven
    <3>2. csr'.busy
      <4> DEFINE n == Now
      <4>1. csr' = [csr EXCEPT !.busy = TRUE, !.kind = call.kind, !.ado = call.ado, !.size = n]
            /\ csr \in CsrType
        BY <1>0, <2>2, ChipKinds DEF GiveCommand, CommandGiven
      <4> HIDE DEF n
      <4> QED
        BY <4>1 DEF CsrType
    <3>3. \A a \in Cell : Taken(a)'
      BY <3>2 DEF Taken
    <3> QED
      BY <1>2, <1>3, <3>1, <3>3 DEF Streaming
  <2>3. CASE ReadDone
    <3>1. UNCHANGED <<mem, call, csr>> /\ pc' = "data" /\ pc = "wait" /\ Now' = Now
      BY <2>3 DEF ReadDone, Stays, Now
    <3>2. \A a \in Cell : Taken(a)'
      BY <3>1, SameRead DEF RInv, Reading, InRead, Taken
    <3> QED
      BY <1>2, <1>3, <3>1, <3>2 DEF Streaming
  <2>4. CASE TakeData
    BY <1>0, <2>4, TakeReads
  <2>5. CASE AskAbort \/ IsQuiet \/ GiveSpan
    <3>1. UNCHANGED <<mem, call>> /\ pc' \in {"quiet", "span", "go"}
      BY <2>5 DEF AskAbort, AbortAsked, IsQuiet, Stays, GiveSpan, SpanGiven
    <3> QED
      BY <1>2, <1>3, <1>4, <3>1 DEF Streaming
  <2>6. CASE StartEngine
    <3>1. /\ UNCHANGED <<mem, call>> /\ pc' = "avail" /\ pc = "go"
          /\ engine' = [engine EXCEPT !["read"].status = "run"]
      BY <2>6 DEF StartEngine, EngineStarted
    <3>2. Source.ado = call.ado /\ Source.fifo = <<>>
      BY <1>0, <3>1 DEF CInv, Control, EngineControl, Source
    <3>3. Source'.ado = call.ado /\ Source'.fifo = <<>>
      BY <1>1, <3>1, <3>2 DEF Source, EngineType, Kinds
    <3>4. Len(Source'.fifo) = 0
      BY <3>3
    <3>5. call.ado \in Nat
      BY <1>0, ReadFacts
    <3>6. SourceRuns'
      BY <3>1, <3>3, <3>4, <3>5 DEF SourceRuns
    <3>7. ASSUME NEW a \in Cell PROVE Fetched(a)'
      <4>1. call'.ado = Source'.ado /\ call'.ado \in Nat
        BY <3>1, <3>3, <3>5
      <4>2. a \notin call'.ado .. Source'.ado - 1
        <5>1. PICK x \in Nat : x = call'.ado /\ x = Source'.ado
          BY <4>1
        <5> QED
          BY <5>1
      <4> QED
        BY <4>2 DEF Fetched
    <3> QED
      BY <1>2, <1>4, <3>1, <3>6, <3>7
  <2>7. CASE LookOn
    <3>1. UNCHANGED <<mem, call>> /\ Source' = Source /\ pc \in Streaming
          /\ pc' \notin {"wait", "data"}
      BY <2>7 DEF LookOn, Stays, Source, Streaming
    <3>2. SourceRuns'
      BY <3>1 DEF RInv, Reading, SourceRuns
    <3>3. \A a \in Cell : Fetched(a)'
      <4>1. \A a \in Cell : SeenAt(a)' = SeenAt(a)
        BY <3>1, SameRead
      <4>2. ASSUME NEW a \in Cell PROVE Fetched(a) /\ At(a, call.ado)' = At(a, call.ado)
        BY <3>1 DEF RInv, Reading, InRead, At
      <4> QED
        BY <3>1, <4>1, <4>2 DEF Fetched
    <3> QED
      BY <1>2, <1>4, <3>1, <3>2, <3>3
  <2>8. CASE PopWord
    BY <1>0, <2>8, PopReads
  <2> QED
    BY <1>0, <2>1, <2>2, <2>3, <2>4, <2>5, <2>6, <2>7, <2>8
       DEF Going, PutData, DataPut, WriteDone, PushWord, WordPushed, AskReset, ResetAsked,
           ResetDone, PcOK
<1>6. CASE Fail
  <2>1. Touched /\ call' = call /\ pc' = "error"
    BY <1>0, <1>6, TouchCases DEF Fail
  <2>2. mem' = mem
    BY <2>1 DEF Touched, Stays, DataPut, CommandGiven, AbortAsked, SpanGiven, EngineStarted,
                WordPopped, WordPushed, ResetAsked
  <2> QED
    BY <1>2, <1>3, <1>4, <2>1, <2>2 DEF Streaming
<1> QED
  BY <1>5, <1>6 DEF Access

LEMMA BeginReads ==
  ASSUME RInv, NEW c, Begins(c), c.kind = "read"
  PROVE  Reading'
<1>0. CInv
  BY DEF RInv, WInv
<1>1. /\ call'.kind = "read" /\ call'.ado = c.ado /\ call'.rest = c.rest
      /\ call'.data = <<>> /\ call'.held = Fetch(c.ado, c.rest) /\ pc' = Entry(c)
      /\ mem' = mem
  <2>1. TInv /\ c.data = <<>>
    BY <1>0 DEF CInv, Begins, Fits
  <2> QED
    BY <2>1, IssueTypes DEF Begins
<1>2. pc' \in {"abort", "cmd"}
  BY <1>1 DEF Entry
<1>3. c.ado \in Nat /\ c.rest \in Nat /\ c.ado + c.rest <= MEM_SIZE
  BY DEF Begins, Fits, Kinds
<1>4. \A i \in 1 .. c.rest : call'.held[i] = mem[c.ado + i - 1]
  <2>1. mem \in [Cell -> Bt]
    BY <1>0, ChipKinds
  <2>2. PICK x \in Nat, y \in Nat : x = c.ado /\ y = c.rest
    BY <1>3
  <2>3. \A i \in 1 .. y : Fetch(x, y)[i] = mem[x + i - 1]
    BY <1>3, <2>1, <2>2, FetchFacts
  <2> QED
    BY <1>1, <2>2, <2>3
<1>5. ReadStart' = c.ado
  <2>1. Len(call'.data) = 0
    BY <1>1
  <2>2. c.ado - 0 = c.ado
    BY <1>3
  <2> QED
    BY <1>1, <2>1, <2>2 DEF ReadStart
<1>6. ASSUME NEW a \in Cell PROVE Kept(a)'
  <2> SUFFICES ASSUME a \in c.ado .. c.ado + c.rest - 1
               PROVE  call'.held[a - c.ado + 1].ver <= mem[a].ver
    BY <1>1, <1>5 DEF Kept
  <2> DEFINE i == a - c.ado + 1
  <2>1. a \in Nat /\ mem[a] \in Bt
    BY <1>0, ChipKinds
  <2>2. i \in 1 .. c.rest /\ c.ado + i - 1 = a
    BY <1>3, <2>1
  <2> HIDE DEF i
  <2>3. call'.held[i] = mem[a]
    BY <1>4, <2>2
  <2>4. mem[a].ver \in Nat
    BY <2>1 DEF Bt, ByteOf, Old
  <2> QED
    BY <2>3, <2>4 DEF i
<1>7. ASSUME NEW a \in Cell PROVE Came(a)'
  <2>1. a \notin ReadStart' .. call'.ado - 1
    <3>1. PICK x \in Nat : x = ReadStart' /\ x = call'.ado
      BY <1>1, <1>3, <1>5
    <3> QED
      BY <3>1
  <2> QED
    BY <2>1 DEF Came
<1> QED
  BY <1>2, <1>6, <1>7 DEF Reading, SourceRuns, InRead, Taken, Fetched, Streaming

(* What a read saw stays seen when the bus changes the memory.             *)
LEMMA ElsewhereReads ==
  ASSUME RInv, Elsewhere, call.kind = "read"
  PROVE  Reading'
<1>0. CInv
  BY DEF RInv, WInv
<1>1. UNCHANGED <<csr, engine, call, pc>>
  BY DEF Elsewhere
<1>2. ReadStart' = ReadStart /\ Now' = Now /\ Source' = Source
  BY <1>1 DEF ReadStart, Now, Source
<1>3. ASSUME NEW a \in Cell
      PROVE  /\ SeenAt(a) \subseteq SeenAt(a)'
             /\ Kept(a)' /\ Came(a)' /\ Taken(a)' /\ Fetched(a)'
  <2>1. Kept(a) /\ Came(a) /\ Taken(a) /\ Fetched(a)
    BY DEF RInv, Reading, InRead
  <2>2. mem[a].ver \in Nat /\ mem'[a].ver \in Nat /\ mem[a].ver <= mem'[a].ver
    <3>1. mem[a].ver \in 0 .. version - 1
      BY <1>0, ChipKinds DEF Bt, ByteOf, Old
    <3>2. version \in Nat
      BY <1>0, Sizes DEF CInv, TInv, AppOK
    <3>3. mem'[a] = mem[a] \/ mem'[a] = Byte(a, version)
      BY <1>0, BusFacts DEF Elsewhere
    <3>4. mem'[a].ver = mem[a].ver \/ mem'[a].ver = version
      BY <3>3 DEF Byte
    <3> QED
      BY <3>1, <3>2, <3>4
  <2>3. ASSUME a \in ReadStart .. call.ado + call.rest - 1
        PROVE  call.held[a - ReadStart + 1].ver \in Nat
    <3> DEFINE i == a - ReadStart + 1
    <3>1. /\ call.held \in Seq(Bt) /\ Len(call.held) = Len(call.data) + call.rest
          /\ ReadStart \in Nat /\ ReadStart + Len(call.data) = call.ado
          /\ call.rest \in Nat /\ Len(call.data) \in Nat /\ a \in Nat
      BY <1>0, ReadFacts, ChipKinds
    <3>2. i \in 1 .. Len(call.held)
      BY <2>3, <3>1
    <3>3. call.held[i] \in Bt
      BY <3>1, <3>2
    <3> QED
      BY <3>3 DEF Bt, ByteOf, Old
  <2>4. SeenAt(a) \subseteq SeenAt(a)'
    BY <1>1, <1>2, <2>2 DEF SeenAt
  <2>5. Kept(a)'
    BY <1>1, <1>2, <2>1, <2>2, <2>3 DEF Kept
  <2>6. Came(a)' /\ Taken(a)' /\ Fetched(a)'
    <3>1. At(a, call.ado)' = At(a, call.ado)
      BY <1>1 DEF At
    <3> QED
      BY <1>1, <1>2, <2>1, <2>4, <3>1 DEF Came, Taken, Fetched
  <2> QED
    BY <2>4, <2>5, <2>6
<1>4. SourceRuns'
  BY <1>1, <1>2 DEF RInv, Reading, SourceRuns
<1> QED
  BY <1>3, <1>4 DEF Reading, InRead

LEMMA StepRead == RInv /\ [Next]_vars => RInv'
<1> SUFFICES ASSUME RInv, [Next]_vars, call'.kind = "read" PROVE Reading'
  BY StepWrites DEF RInv
<1>1. WInv /\ CInv
  BY DEF RInv, WInv
<1>2. CASE Access
  <2>1. call'.kind = call.kind
    <3>1. CASE Transact
      <4>1. UNCHANGED version /\ Going
        BY <1>1, <1>2, <3>1, TransactCases DEF Access, application, Going, CInv, TInv
      <4> QED
        BY <1>1, <4>1, KeptCall
    <3>2. CASE Fail
      BY <3>2 DEF Fail
    <3> QED
      BY <1>2, <3>1, <3>2 DEF Access
  <2> QED
    BY <1>2, <2>1, AccessReads
<1>3. CASE Chip
  <2>1. call' = call
    BY <1>3 DEF Chip, ChipStep, ChipCsr, ChipAbort, ChipFill, ChipDrain, ChipReset, driver
  <2> QED
    BY <1>3, <2>1, ChipReads
<1>4. ASSUME NEW c, Begins(c) PROVE Reading'
  <2>1. call'.kind = c.kind
    BY <1>1, <1>4, IssueTypes DEF Begins, CInv
  <2> QED
    BY <1>4, <2>1, BeginReads
<1>5. CASE Ends
  BY <1>5 DEF Ends, NoCall
<1>6. CASE Elsewhere
  <2>1. call' = call
    BY <1>6 DEF Elsewhere
  <2> QED
    BY <1>6, <2>1, ElsewhereReads
<1> QED
  BY <1>1, <1>2, <1>3, <1>4, <1>5, <1>6, NextCases

LEMMA ReadInvariant == Spec => []RInv
<1>1. Init => RInv
  <2>1. Init => call.kind = "none"
    BY DEF Init, DriverInit, NoCall
  <2> QED
    BY <2>1, InitWrites DEF RInv
<1> QED
  BY <1>1, StepRead, PTL DEF Spec

(* Each byte a read returns is what its own address held at some moment of *)
(* the call: no chunk or word of the FIFO is skipped, doubled or displaced *)
(* (lan9252_esc_read, lan9252_pdram_read; ReadExact).                      *)
THEOREM ReadsAreExact == Spec => []ReadExact
<1>1. RInv => ReadExact
  <2> SUFFICES ASSUME RInv, call.kind = "read", NEW i \in DOMAIN call.data
               PROVE  LET a == call.ado - Len(call.data) + i - 1
                      IN  /\ call.data[i].at = a
                          /\ call.data[i].ver \in call.held[i].ver .. mem[a].ver
    BY DEF ReadExact
  <2>1. /\ call.ado \in Nat /\ call.rest \in Nat /\ call.data \in Seq(Bt)
        /\ Len(call.data) \in Nat /\ ReadStart \in Nat
        /\ ReadStart + Len(call.data) = call.ado /\ call.ado + call.rest <= MEM_SIZE
    BY ReadFacts DEF RInv, WInv
  <2>2. i \in 1 .. Len(call.data)
    BY <2>1
  <2> DEFINE a == ReadStart + i - 1
  <2>3. call.ado - Len(call.data) + i - 1 = a
    BY DEF ReadStart
  <2>4. a \in ReadStart .. call.ado - 1 /\ a - ReadStart + 1 = i /\ a \in Cell
    <3>1. MEM_SIZE \in Nat
      BY Sizes
    <3>2. a \in Nat /\ ReadStart <= a /\ a - ReadStart + 1 = i
      BY <2>1, <2>2
    <3>3. a <= call.ado - 1
      BY <2>1, <2>2
    <3> HIDE DEF a
    <3>4. a \in ReadStart .. call.ado - 1 /\ a < MEM_SIZE
      BY <2>1, <3>1, <3>2, <3>3
    <3> QED
      BY <3>1, <3>2, <3>4 DEF Cell
  <2> HIDE DEF a
  <2>5. call.data[i] \in SeenAt(a)
    BY <2>4 DEF RInv, Reading, InRead, Came
  <2> QED
    BY <2>3, <2>4, <2>5 DEF SeenAt
<1> QED
  BY <1>1, ReadInvariant, PTL

-----------------------------------------------------------------------------
(* AL Status and AL Event in the chip: each is of one moment, the event is *)
(* never older than the status, and no write is on its way to them.        *)
Status == ALSTAT .. ALSTAT + 1
Event  == ALEVENT .. ALEVENT + 3
MemFresh ==
  /\ \A a \in Status : mem[a].ver = mem[ALSTAT].ver
  /\ \A a \in Event : mem[a].ver = mem[ALEVENT].ver
  /\ mem[ALSTAT].ver <= mem[ALEVENT].ver
WritesApart ==
  /\ call.kind = "write" => Apart(call.ado, call.rest)
  /\ csr.busy /\ csr.kind = "write" => Apart(csr.ado, csr.size)
  /\ Apart(Queue.ado, Queue.left)
AInv == MemFresh /\ WritesApart

LEMMA AlCells ==
  /\ Status \subseteq Cell /\ Event \subseteq Cell
  /\ ALSTAT \in Status /\ ALEVENT \in Event
  /\ BusOwned["al"] = Status \cup Event /\ BusOwned["event"] = Event
<1>1. /\ ALSTAT \in Nat /\ ALEVENT \in Nat /\ MEM_SIZE \in Nat
      /\ ALSTAT + 2 <= MEM_SIZE /\ ALEVENT + 4 <= MEM_SIZE
  BY Sizes
<1>2. Status \subseteq Cell
  BY <1>1 DEF Status, Cell
<1>3. Event \subseteq Cell
  BY <1>1 DEF Event, Cell
<1>4. ALSTAT \in Status /\ ALEVENT \in Event
  BY <1>1 DEF Status, Event
<1> QED
  BY <1>2, <1>3, <1>4 DEF BusOwned, Status, Event

(* A part of a span that is apart is apart.                                *)
LEMMA PartApart ==
  ASSUME NEW ado \in Nat, NEW len \in Nat, Apart(ado, len),
         NEW n \in Nat, NEW m \in Nat, n + m <= len
  PROVE  Apart(ado + n, m)
<1> SUFFICES ASSUME NEW a \in BusOwned["al"], a \in ado + n .. ado + n + m - 1
             PROVE  FALSE
  BY DEF Apart
<1>1. a \in Nat
  BY AlCells, Sizes
<1>2. a \in ado .. ado + len - 1
  BY <1>1
<1> QED
  BY <1>2 DEF Apart

LEMMA FreshKept ==
  ASSUME MemFresh, \A a \in BusOwned["al"] : mem'[a] = mem[a]
  PROVE  MemFresh'
BY AlCells DEF MemFresh

LEMMA ChipApart ==
  ASSUME WInv, AInv, Chip
  PROVE  AInv'
<1>0. CInv /\ UNCHANGED <<call, pc, version, expect>>
  BY DEF WInv, Chip, ChipStep, ChipCsr, ChipAbort, ChipFill, ChipDrain, ChipReset,
         driver, application
<1>1. /\ Queue \in EngineType /\ Queue.ado \in Nat /\ Queue.left \in Nat
      /\ csr \in CsrType /\ csr.ado \in Nat /\ csr.size \in Nat /\ csr.data \in Word
      /\ engine \in [Kinds -> EngineType] /\ mem \in [Cell -> Bt]
  BY <1>0, ChipKinds
<1>2. WritesApart
  BY DEF AInv
<1>3. ASSUME csr'.busy => csr' = csr, Queue' = Queue PROVE WritesApart'
  BY <1>0, <1>2, <1>3 DEF WritesApart
<1>4. ASSUME \A a \in BusOwned["al"] : mem'[a] = mem[a] PROVE MemFresh'
  BY <1>4, FreshKept DEF AInv
<1>5. CASE ChipCsr
  <2>1. ~csr'.busy /\ Queue' = Queue
    <3>1. csr' = [csr EXCEPT !.busy = FALSE]
          \/ csr' = [csr EXCEPT !.busy = FALSE, !.data = InWord(Fetch(csr.ado, csr.size), 0)]
      BY <1>5 DEF ChipCsr
    <3> DEFINE d == InWord(Fetch(csr.ado, csr.size), 0)
    <3>2. csr' = [csr EXCEPT !.busy = FALSE] \/ csr' = [csr EXCEPT !.busy = FALSE, !.data = d]
      BY <3>1
    <3> HIDE DEF d
    <3> QED
      BY <1>1, <1>5, <3>2 DEF ChipCsr, CsrType, Queue
  <2>2. \A a \in BusOwned["al"] : mem'[a] = mem[a]
    <3>1. CASE csr.kind = "read"
      BY <1>5, <3>1 DEF ChipCsr
    <3>2. CASE csr.kind = "write"
      <4> DEFINE s == FromWord(csr.data, 0, csr.size)
      <4>1. Len(s) = csr.size /\ s \in Seq(Bt)
        <5>1. 0 \in Place /\ 0 + csr.size <= 4
          BY <1>1 DEF Place, CsrType
        <5> QED
          BY <1>1, <5>1, FromWordFacts
      <4>2. mem' = Stored(csr.ado, s)
        BY <1>5, <3>2 DEF ChipCsr
      <4> HIDE DEF s
      <4>3. ASSUME NEW a \in BusOwned["al"] PROVE mem'[a] = mem[a]
        <5>1. a \in Cell /\ a \in Nat
          BY AlCells, Sizes
        <5>2. a \notin csr.ado .. csr.ado + csr.size - 1
          BY <1>2, <1>5, <3>2 DEF WritesApart, Apart, ChipCsr
        <5>3. a - csr.ado + 1 \notin DOMAIN s
          <6>1. DOMAIN s = 1 .. csr.size
            BY <4>1
          <6> QED
            BY <1>1, <5>1, <5>2, <6>1
        <5> QED
          BY <4>2, <5>1, <5>3 DEF Stored
      <4> QED
        BY <4>3
    <3> QED
      BY <1>1, <3>1, <3>2 DEF CsrType, Kinds
  <2> QED
    BY <1>3, <1>4, <2>1, <2>2 DEF AInv
<1>6. CASE ChipAbort
  <2>1. mem' = mem /\ csr' = csr
    BY <1>6 DEF ChipAbort
  <2>2. PICK k \in Kinds : engine' = [engine EXCEPT ![k] = IdleEngine]
    BY <1>6 DEF ChipAbort, Kinds
  <2>3. Queue' = Queue \/ (Queue'.ado = 0 /\ Queue'.left = 0)
    BY <1>1, <2>2 DEF Queue, Kinds, IdleEngine
  <2>4. ASSUME Queue'.ado = 0, Queue'.left = 0 PROVE WritesApart'
    <3>1. Apart(0, 0)
      BY DEF Apart
    <3> QED
      BY <1>0, <1>2, <2>1, <2>4, <3>1 DEF WritesApart
  <2> QED
    BY <1>3, <1>4, <2>1, <2>3, <2>4 DEF AInv
<1>7. CASE ChipFill
  <2>1. mem' = mem /\ csr' = csr
    BY <1>7 DEF ChipFill
  <2>2. Queue' = Queue
    BY <1>1, <1>7 DEF ChipFill, Queue, Kinds
  <2> QED
    BY <1>3, <1>4, <2>1, <2>2 DEF AInv
<1>8. CASE ChipDrain
  <2> DEFINE h == Handled(Queue)
  <2>0. PICK cell \in Cell : TRUE
    BY Sizes DEF Cell
  <2>1. /\ h \in Nat /\ h <= Queue.left /\ UNCHANGED <<csr, call, pc>>
        /\ Queue'.ado = Queue.ado + h /\ Queue'.left = Queue.left - h
    BY <1>0, <1>8, <2>0, DrainFacts
  <2>2. ASSUME NEW a \in BusOwned["al"] PROVE mem'[a] = mem[a]
    <3>1. a \in Cell /\ a \in Nat
      BY AlCells, Sizes
    <3>2. mem'[a] = IF a \in Queue.ado .. Queue.ado + h - 1
                    THEN Queue.fifo[1][(Queue.ado % 4) + (a - Queue.ado)] ELSE mem[a]
      BY <1>0, <1>8, <3>1, DrainFacts
    <3> HIDE DEF h
    <3>3. a \notin Queue.ado .. Queue.ado + Queue.left - 1
      BY <1>2 DEF WritesApart, Apart
    <3>4. a \notin Queue.ado .. Queue.ado + h - 1
      BY <1>1, <2>1, <3>1, <3>3
    <3> QED
      BY <3>2, <3>4
  <2>3. Apart(Queue.ado + h, Queue.left - h)
    <3> HIDE DEF h
    <3>1. Queue.left - h \in Nat /\ h + (Queue.left - h) <= Queue.left
      BY <1>1, <2>1
    <3> QED
      BY <1>1, <1>2, <2>1, <3>1, PartApart DEF WritesApart
  <2> QED
    BY <1>0, <1>2, <1>4, <2>1, <2>2, <2>3 DEF AInv, WritesApart
<1>9. CASE ChipReset
  <2>1. mem' = Wiped(resetting) /\ csr' = IdleCsr
        /\ engine' = [k \in Kinds |-> IdleEngine]
    BY <1>9 DEF ChipReset, Kinds
  <2>2. \A a \in Cell : mem'[a].ver = resetting
    BY <2>1 DEF Wiped, Byte
  <2>3. resetting \in Nat
    BY <1>0, ChipKinds
  <2>4. MemFresh'
    <3>1. \A a \in Status \cup Event : mem'[a].ver = resetting
      BY <2>2, AlCells
    <3> QED
      BY <2>3, <3>1, AlCells DEF MemFresh
  <2>5. WritesApart'
    <3>1. ~csr'.busy /\ Queue'.ado = 0 /\ Queue'.left = 0
      BY <2>1 DEF IdleCsr, IdleEngine, Queue, Kinds
    <3>2. Apart(0, 0)
      BY DEF Apart
    <3> QED
      BY <1>0, <1>2, <3>1, <3>2 DEF WritesApart
  <2> QED
    BY <2>4, <2>5 DEF AInv
<1> QED
  BY <1>5, <1>6, <1>7, <1>8, <1>9 DEF Chip, ChipStep

LEMMA TouchedApart ==
  ASSUME CInv, WritesApart, Touched
  PROVE  /\ csr'.busy /\ csr'.kind = "write" => Apart(csr'.ado, csr'.size)
         /\ Apart(Queue'.ado, Queue'.left)
         /\ mem' = mem
<1>1. /\ csr \in CsrType /\ engine \in [Kinds -> EngineType] /\ Queue \in EngineType
  BY ChipKinds
<1>2. mem' = mem
  BY DEF Touched, Stays, DataPut, CommandGiven, AbortAsked, SpanGiven, EngineStarted,
         WordPopped, WordPushed, ResetAsked
<1>3. ASSUME csr' = csr
      PROVE  csr'.busy /\ csr'.kind = "write" => Apart(csr'.ado, csr'.size)
  BY <1>3 DEF WritesApart
<1>4. ASSUME Queue'.ado = Queue.ado, Queue'.left = Queue.left
      PROVE  Apart(Queue'.ado, Queue'.left)
  BY <1>4 DEF WritesApart
<1>5. CASE Stays \/ ResetAsked
  <2>1. csr' = csr /\ Queue' = Queue
    BY <1>5 DEF Stays, ResetAsked, Queue
  <2> QED
    BY <1>2, <1>3, <1>4, <2>1
<1>6. CASE DataPut
  <2> DEFINE d == InWord(Pending(Now), 0)
  <2>1. csr' = [csr EXCEPT !.data = d] /\ Queue' = Queue
    BY <1>6 DEF DataPut, Queue
  <2> HIDE DEF d
  <2>2. csr'.busy = csr.busy /\ csr'.kind = csr.kind /\ csr'.ado = csr.ado
        /\ csr'.size = csr.size
    BY <1>1, <2>1 DEF CsrType
  <2> QED
    BY <1>2, <1>4, <2>1, <2>2 DEF WritesApart
<1>7. CASE CommandGiven
  <2> DEFINE n == Now
  <2>1. csr' = [csr EXCEPT !.busy = TRUE, !.kind = call.kind, !.ado = call.ado, !.size = n]
        /\ Queue' = Queue /\ pc \in InCsr
    BY <1>7 DEF CommandGiven, Queue, InCsr
  <2>2. n \in Nat /\ n <= call.rest
    BY <2>1, NowFacts
  <2> HIDE DEF n
  <2>3. csr'.kind = call.kind /\ csr'.ado = call.ado /\ csr'.size = n
    BY <1>1, <2>1 DEF CsrType
  <2>4. ASSUME call.kind = "write" PROVE Apart(call.ado, n)
    <3>1. call.ado \in Nat /\ call.rest \in Nat
      BY <2>4, WriteFacts
    <3>2. Apart(call.ado, call.rest) /\ call.ado + 0 = call.ado /\ 0 + n <= call.rest
      BY <2>2, <2>4, <3>1 DEF WritesApart
    <3>3. Apart(call.ado + 0, n)
      BY <2>2, <3>1, <3>2, PartApart
    <3> QED
      BY <3>2, <3>3
  <2> QED
    BY <1>2, <1>4, <2>1, <2>3, <2>4
<1>8. CASE AbortAsked \/ SpanGiven \/ EngineStarted
  <2>1. csr' = csr /\ pc \in {"abort", "span", "go"} /\ call.kind \in Kinds
    BY <1>8 DEF AbortAsked, SpanGiven, EngineStarted, CInv, TInv, PcOK, Steps, InPram
  <2>2. CASE call.kind = "read"
    <3>1. Queue' = Queue
      BY <1>1, <1>8, <2>2 DEF AbortAsked, SpanGiven, EngineStarted, Queue, Kinds
    <3> QED
      BY <1>2, <1>3, <1>4, <2>1, <3>1
  <2>3. CASE call.kind = "write"
    <3>1. CASE AbortAsked \/ EngineStarted
      <4>1. Queue'.ado = Queue.ado /\ Queue'.left = Queue.left
        BY <1>1, <2>3, <3>1 DEF AbortAsked, EngineStarted, Queue, Kinds, EngineType
      <4> QED
        BY <1>2, <1>3, <1>4, <2>1, <4>1
    <3>2. CASE SpanGiven
      <4>1. Queue'.ado = call.ado /\ Queue'.left = call.rest
        BY <1>1, <2>3, <3>2 DEF SpanGiven, Queue, Kinds, EngineType
      <4> QED
        BY <1>2, <1>3, <2>1, <2>3, <4>1 DEF WritesApart
    <3> QED
      BY <1>8, <3>1, <3>2
  <2> QED
    BY <2>1, <2>2, <2>3 DEF Kinds
<1>9. CASE WordPopped
  <2>1. csr' = csr /\ Queue' = Queue
    BY <1>1, <1>9 DEF WordPopped, Queue, Kinds
  <2> QED
    BY <1>2, <1>3, <1>4, <2>1
<1>10. CASE WordPushed
  <2> DEFINE w == InWord(Pending(Share), Lane)
  <2>1. csr' = csr /\ engine' = [engine EXCEPT !["write"].fifo = Append(@, w)]
    BY <1>10 DEF WordPushed
  <2> HIDE DEF w
  <2>2. Queue'.ado = Queue.ado /\ Queue'.left = Queue.left
    BY <1>1, <2>1 DEF Queue, Kinds, EngineType
  <2> QED
    BY <1>2, <1>3, <1>4, <2>1, <2>2
<1> QED
  BY <1>5, <1>6, <1>7, <1>8, <1>9, <1>10 DEF Touched

LEMMA CallApart ==
  ASSUME CInv, WritesApart, Going, UNCHANGED version, call'.kind = "write"
  PROVE  Apart(call'.ado, call'.rest)
<1>1. call.kind = "write" /\ Apart(call.ado, call.rest)
  BY KeptCall DEF WritesApart
<1>2. call.ado \in Nat /\ call.rest \in Nat
  BY <1>1, WriteFacts
<1>3. ASSUME NEW n \in Nat, n <= call.rest, call'.ado = call.ado + n,
             call'.rest = call.rest - n
      PROVE  Apart(call'.ado, call'.rest)
  <2>1. call.rest - n \in Nat /\ n + (call.rest - n) <= call.rest
    BY <1>2, <1>3
  <2> QED
    BY <1>1, <1>2, <1>3, <2>1, PartApart
<1>4. CASE call' = call
  BY <1>1, <1>4
<1>5. CASE WriteDone
  <2>1. pc = "wait" /\ Advance(Now, <<>>)
    BY <1>5 DEF WriteDone
  <2>2. call'.ado = call.ado + Now /\ call'.rest = call.rest - Now
    BY <1>1, <2>1, AdvanceNow
  <2>3. Now \in Nat /\ Now <= call.rest
    BY <2>1, NowFacts DEF InCsr
  <2> QED
    BY <1>3, <2>2, <2>3
<1>6. CASE PushWord
  <2>1. pc \in {"first", "burst"} /\ Advance(Share, <<>>)
    BY <1>6 DEF PushWord, WordPushed
  <2>2. call'.ado = call.ado + Share /\ call'.rest = call.rest - Share
    BY <1>1, <2>1, AdvanceShare
  <2>3. Share \in Nat /\ Share <= call.rest
    BY <2>1, WordFacts
  <2> QED
    BY <1>3, <2>2, <2>3
<1> QED
  BY <1>1, <1>4, <1>5, <1>6
     DEF Going, PutData, GiveCommand, ReadDone, TakeData, AskAbort, IsQuiet, GiveSpan,
         StartEngine, LookOn, PopWord, WordPopped, AskReset, ResetDone, CInv, TInv, PcOK

LEMMA AccessApart ==
  ASSUME WInv, AInv, Access
  PROVE  AInv'
<1>1. UNCHANGED version /\ CInv /\ PcOK /\ WritesApart /\ MemFresh
  BY DEF Access, application, WInv, CInv, TInv, AInv
<1>2. CASE Transact
  <2>1. Going /\ Touched
    BY <1>1, <1>2, TransactCases, TouchCases DEF Transact, Going
  <2> QED
    BY <1>1, <2>1, TouchedApart, CallApart, FreshKept DEF AInv, WritesApart
<1>3. CASE Fail
  <2>1. Touched /\ call' = call
    BY <1>1, <1>3, TouchCases DEF Fail
  <2> QED
    BY <1>1, <2>1, TouchedApart, FreshKept DEF AInv, WritesApart
<1> QED
  BY <1>2, <1>3 DEF Access

LEMMA BeginApart ==
  ASSUME RegistersApart, CInv, AInv, NEW c, Begins(c)
  PROVE  AInv'
<1>1. call'.kind = c.kind /\ call'.ado = c.ado /\ call'.rest = c.rest
  BY IssueTypes DEF Begins, CInv
<1>2. UNCHANGED <<mem, csr, engine>> /\ Queue' = Queue
  BY DEF Begins, Queue
<1>3. MemFresh'
  BY <1>2, FreshKept DEF AInv
<1>4. ASSUME c.kind = "write" PROVE Apart(c.ado, c.rest)
  BY <1>4 DEF Begins, WriteSpan, RegistersApart
<1> QED
  BY <1>1, <1>2, <1>3, <1>4 DEF AInv, WritesApart

LEMMA EndApart ==
  ASSUME AInv, Ends
  PROVE  AInv'
<1>1. UNCHANGED <<mem, csr, engine>> /\ Queue' = Queue /\ call'.kind = "none"
  BY DEF Ends, Queue, NoCall
<1>2. MemFresh'
  BY <1>1, FreshKept DEF AInv
<1> QED
  BY <1>1, <1>2 DEF AInv, WritesApart

LEMMA ElsewhereApart ==
  ASSUME RegistersApart, CInv, AInv, Elsewhere
  PROVE  AInv'
<1>1. UNCHANGED <<csr, engine, call>> /\ Queue' = Queue
  BY DEF Elsewhere, Queue
<1>2. WritesApart'
  BY <1>1 DEF AInv, WritesApart
<1>3. CASE UNCHANGED mem
  BY <1>2, <1>3, FreshKept DEF AInv
<1>4. CASE Bus
  <2>1. PICK part \in DOMAIN BusOwned :
          mem' = [x \in Cell |-> IF x \in BusOwned[part] THEN Byte(x, version) ELSE mem[x]]
    BY <1>4 DEF Bus
  <2>2. part \in {"al", "event", "image"}
    BY DEF BusOwned
  <2>3. Status \cap Event = {} /\ BusOwned["al"] \cap BusOwned["image"] = {}
    BY DEF RegistersApart, Apart, Status, Event, BusOwned
  <2>4. \A x \in Cell : mem'[x].ver = IF x \in BusOwned[part] THEN version ELSE mem[x].ver
    BY <2>1 DEF Byte
  <2>5. version \in Nat /\ mem[ALSTAT].ver \in 0 .. version - 1
    <3>1. version \in Nat
      BY Sizes DEF CInv, TInv, AppOK
    <3>2. mem[ALSTAT] \in Bt
      BY AlCells, ChipKinds
    <3> QED
      BY <3>1, <3>2 DEF Bt, ByteOf, Old
  <2>6. CASE part = "al"
    <3>1. \A x \in Status \cup Event : mem'[x].ver = version
      BY <2>4, <2>6, AlCells
    <3> QED
      BY <1>2, <2>5, <3>1, AlCells DEF AInv, MemFresh
  <2>7. CASE part = "event"
    <3>1. \A x \in Event : mem'[x].ver = version
      BY <2>4, <2>7, AlCells
    <3>2. \A x \in Status : mem'[x].ver = mem[x].ver
      BY <2>3, <2>4, <2>7, AlCells
    <3>3. mem[ALSTAT].ver <= version
      BY <2>5
    <3> QED
      BY <1>2, <3>1, <3>2, <3>3, AlCells DEF AInv, MemFresh
  <2>8. CASE part = "image"
    <3>1. \A x \in Status \cup Event : mem'[x].ver = mem[x].ver
      BY <2>3, <2>4, <2>8, AlCells
    <3> QED
      BY <1>2, <3>1, AlCells DEF AInv, MemFresh
  <2> QED
    BY <2>2, <2>6, <2>7, <2>8
<1> QED
  BY <1>3, <1>4 DEF Elsewhere

LEMMA InitApart == Init => AInv
<1> SUFFICES ASSUME Init PROVE AInv
  OBVIOUS
<1>1. \A a \in Cell : mem[a].ver = 0
  BY DEF Init, ChipInit, Wiped, Byte
<1>2. MemFresh
  BY <1>1, AlCells DEF MemFresh
<1>3. call.kind = "none" /\ ~csr.busy /\ Queue.ado = 0 /\ Queue.left = 0
  BY DEF Init, DriverInit, NoCall, ChipInit, IdleCsr, IdleEngine, Queue
<1>4. Apart(0, 0)
  BY DEF Apart
<1> QED
  BY <1>2, <1>3, <1>4 DEF AInv, WritesApart

LEMMA StepApart ==
  ASSUME RegistersApart, WInv, AInv, [Next]_vars
  PROVE  AInv'
BY NextCases, AccessApart, ChipApart, BeginApart, EndApart, ElsewhereApart DEF WInv

-----------------------------------------------------------------------------
(* The poll: a register is read by one command, so what came of it is of   *)
(* one moment, and the registers are seen one after the other.             *)
ReadWhole ==
  stage \in {2, 3} =>
    /\ pc \in {"cmd", "wait", "data"} \cup Outcomes
    /\ Whole(call.data) /\ (call.data # <<>> => call.rest = 0)
    /\ pc \in {"wait", "data"} /\ ~csr.busy =>
         \A i, j \in 0 .. Now - 1 : csr.data[i].ver = csr.data[j].ver
SinceSeen ==
  /\ since \in Nat
  /\ stage \in {1, 2} => since <= mem[ALSTAT].ver
  /\ stage = 2 => since <= call.held[1].ver
StatusSeen ==
  /\ stage \in {3, 4, 5} => /\ Whole(mirror["al_status"])
                            /\ mirror["al_status"][1].ver \in Nat
                            /\ since <= mirror["al_status"][1].ver
  /\ stage = 3 => mirror["al_status"][1].ver <= call.held[1].ver
EventSeen ==
  stage \in {4, 5} => /\ Whole(mirror["al_event"])
                      /\ mirror["al_status"][1].ver <= mirror["al_event"][1].ver
Seen == SinceSeen /\ StatusSeen /\ EventSeen
PInv == RInv /\ AInv /\ ReadWhole /\ Seen

(* AL Status and AL Event are read by one command each.                    *)
LEMMA RegisterChunk ==
  ASSUME RegistersApart
  PROVE  Chunk(ALSTAT, 2) = 2 /\ Chunk(ALEVENT, 4) = 4
<1>1. ALSTAT \in Nat /\ ALEVENT \in Nat /\ ALSTAT % 2 = 0 /\ ALEVENT % 4 = 0
  BY Sizes DEF RegistersApart
<1>2. ALEVENT % 2 # 1
  BY <1>1
<1>3. ALSTAT % 2 # 1 /\ ALEVENT % 4 # 2
  BY <1>1
<1>4. Chunk(ALSTAT, 2) = 2
  BY <1>3 DEF Chunk
<1>5. Chunk(ALEVENT, 4) = 4
  BY <1>2, <1>3 DEF Chunk
<1> QED
  BY <1>4, <1>5

LEMMA PollCall ==
  ASSUME RegistersApart, CInv, ReadWhole, stage \in {2, 3},
         pc \in {"cmd", "wait", "data"}
  PROVE  /\ call.kind = "read" /\ call.data = <<>>
         /\ Now = call.rest /\ Now = SizeOf[stage] /\ call.ado = StartOf[stage]
         /\ Now \in {2, 4}
<1>1. TInv /\ call.rest # 0 /\ call.kind = "read"
  BY DEF CInv, TInv, PcOK, StageOK, Steps, InCsr
<1>2. call.data = <<>>
  BY <1>1 DEF ReadWhole
<1>3. Len(call.data) = 0
  BY <1>2
<1>4. call.ado = StartOf[stage] + 0 /\ SizeOf[stage] = 0 + call.rest
  BY <1>1, <1>3 DEF TInv, StageOK
<1>5. call.rest \in Nat /\ StartOf[stage] \in Nat
  <2>1. call.rest \in Nat
    BY <1>1, ReadFacts
  <2> QED
    BY <2>1, Sizes DEF StartOf
<1>6. call.ado = StartOf[stage] /\ call.rest = SizeOf[stage]
  BY <1>4, <1>5
<1>7. Now = SizeOf[stage] /\ SizeOf[stage] \in {2, 4}
  BY <1>6, RegisterChunk DEF Now, StartOf, SizeOf
<1> QED
  BY <1>1, <1>2, <1>6, <1>7

(* What the memory holds of the register that is read is of one moment.    *)
LEMMA RegisterWhole ==
  ASSUME RegistersApart, MemFresh, stage \in {2, 3},
         NEW i \in 0 .. SizeOf[stage] - 1
  PROVE  /\ StartOf[stage] + i \in Cell
         /\ mem[StartOf[stage] + i].ver = mem[StartOf[stage]].ver
<1>1. CASE stage = 2
  <2>1. StartOf[stage] = ALSTAT /\ SizeOf[stage] = 2
    BY <1>1 DEF StartOf, SizeOf
  <2>2. ALSTAT + i \in Status
    BY <2>1, Sizes DEF Status
  <2> QED
    BY <2>1, <2>2, AlCells DEF MemFresh
<1>2. CASE stage = 3
  <2>1. StartOf[stage] = ALEVENT /\ SizeOf[stage] = 4
    BY <1>2 DEF StartOf, SizeOf
  <2>2. ALEVENT + i \in Event
    BY <2>1, Sizes DEF Event
  <2> QED
    BY <2>1, <2>2, AlCells DEF MemFresh
<1> QED
  BY <1>1, <1>2

LEMMA SeenKept ==
  ASSUME Seen, UNCHANGED <<stage, since, mirror>>,
         stage \in {1, 2} => since <= mem'[ALSTAT].ver,
         stage \in {2, 3} => call'.held = call.held
  PROVE  Seen'
BY DEF Seen, SinceSeen, StatusSeen, EventSeen

LEMMA AccessWhole ==
  ASSUME RegistersApart, CInv, ReadWhole, Access
  PROVE  ReadWhole'
<1> SUFFICES ASSUME stage \in {2, 3}, stage' = stage
             PROVE  /\ pc' \in {"cmd", "wait", "data"} \cup Outcomes
                    /\ Whole(call'.data) /\ (call'.data # <<>> => call'.rest = 0)
                    /\ pc' \in {"wait", "data"} /\ ~csr'.busy =>
                         \A i, j \in 0 .. Now' - 1 :
                           csr'.data[i].ver = csr'.data[j].ver
  BY DEF ReadWhole, Access, controller
<1>1. UNCHANGED version /\ PcOK
  BY DEF Access, application, CInv, TInv
<1>2. pc \in {"cmd", "wait", "data"}
  BY DEF Access, Transact, Fail, Running, ReadWhole
<1>3. /\ call.kind = "read" /\ call.data = <<>> /\ Now = call.rest
      /\ Now \in {2, 4}
  BY <1>2, PollCall
<1>4. Whole(call.data)
  BY DEF ReadWhole
<1>5. CASE Fail
  BY <1>3, <1>4, <1>5 DEF Fail, Outcomes
<1>6. CASE GiveCommand
  <2>1. call' = call /\ pc' = "wait"
    BY <1>6 DEF GiveCommand
  <2>2. csr'.busy
    <3> DEFINE n == Now
    <3>1. csr' = [csr EXCEPT !.busy = TRUE, !.kind = call.kind, !.ado = call.ado, !.size = n]
          /\ csr \in CsrType
      BY <1>6, ChipKinds DEF GiveCommand, CommandGiven
    <3> HIDE DEF n
    <3> QED
      BY <3>1 DEF CsrType
  <2> QED
    BY <1>3, <1>4, <2>1, <2>2
<1>7. CASE ReadDone
  <2>1. UNCHANGED <<call, csr>> /\ pc' = "data" /\ pc = "wait" /\ Now' = Now
    BY <1>7 DEF ReadDone, Stays, Now
  <2> QED
    BY <1>3, <1>4, <2>1 DEF ReadWhole
<1>8. CASE TakeData
  <2> DEFINE got == FromWord(csr.data, 0, Now)
  <2>1. pc = "data" /\ Advance(Now, got) /\ After(Now, "cmd")
    BY <1>8 DEF TakeData
  <2>2. /\ got \in Seq(Bt) /\ Len(got) = Now
        /\ \A i \in 1 .. Now : got[i] = csr.data[0 + i - 1]
    BY <2>1, TakenFacts
  <2> HIDE DEF got
  <2>3. call'.rest = call.rest - Now /\ call'.data = call.data \o got
    BY <1>1, <1>3, <2>1, <2>2, AdvanceNow
  <2>4. call'.data = got /\ call'.rest = 0
    BY <1>3, <2>2, <2>3
  <2>5. pc' = "ok"
    BY <1>3, <2>1 DEF After
  <2>6. ~csr.busy
    BY <1>3, <2>1 DEF CInv, Control, CsrControl, Kinds
  <2>7. \A i, j \in 0 .. Now - 1 : csr.data[i].ver = csr.data[j].ver
    BY <2>1, <2>6 DEF ReadWhole
  <2>8. ASSUME NEW i \in DOMAIN got PROVE got[i].ver = got[1].ver
    <3>1. i \in 1 .. Now /\ 1 \in 1 .. Now
      BY <1>3, <2>2, <2>8
    <3>2. 0 + i - 1 \in 0 .. Now - 1 /\ 0 + 1 - 1 \in 0 .. Now - 1
      BY <1>3, <3>1
    <3> QED
      BY <2>2, <2>7, <3>1, <3>2
  <2> QED
    BY <2>4, <2>5, <2>8 DEF Whole, Outcomes
<1>9. CASE Transact
  BY <1>1, <1>2, <1>3, <1>6, <1>7, <1>8, <1>9, TransactCases
     DEF PutData, DataPut, WriteDone, AskAbort, AbortAsked, IsQuiet, GiveSpan, SpanGiven,
         StartEngine, EngineStarted, LookOn, PopWord, WordPopped, PushWord, WordPushed,
         AskReset, ResetAsked, ResetDone
<1> QED
  BY <1>5, <1>9 DEF Access

LEMMA AccessSeen ==
  ASSUME CInv, AInv, Seen, Access
  PROVE  Seen'
<1>1. UNCHANGED <<version, stage, since, mirror>> /\ PcOK /\ WritesApart
  BY DEF Access, application, controller, CInv, TInv, AInv
<1>2. CASE Transact
  <2>1. Going /\ Touched
    BY <1>1, <1>2, TransactCases, TouchCases DEF Transact, Going
  <2>2. mem' = mem /\ call'.held = call.held
    BY <1>1, <2>1, TouchedApart, KeptCall
  <2> QED
    BY <1>1, <2>2, SeenKept DEF Seen, SinceSeen
<1>3. CASE Fail
  <2>1. Touched /\ call' = call
    BY <1>1, <1>3, TouchCases DEF Fail
  <2>2. mem' = mem
    BY <1>1, <2>1, TouchedApart
  <2> QED
    BY <1>1, <2>1, <2>2, SeenKept DEF Seen, SinceSeen
<1> QED
  BY <1>2, <1>3 DEF Access

(* The command of the poll is executed: its bytes are those of the register.*)
LEMMA ChipWhole ==
  ASSUME RegistersApart, CInv, AInv, ReadWhole, Chip
  PROVE  ReadWhole'
<1>0. UNCHANGED <<call, pc, version, stage>> /\ Now' = Now
  BY DEF Chip, ChipStep, ChipCsr, ChipAbort, ChipFill, ChipDrain, ChipReset, driver,
         application, controller, Now
<1> SUFFICES ASSUME stage \in {2, 3}, pc \in {"wait", "data"}, ~csr'.busy,
                    NEW i \in 0 .. Now - 1, NEW j \in 0 .. Now - 1
             PROVE  csr'.data[i].ver = csr'.data[j].ver
  BY <1>0 DEF ReadWhole
<1>1. /\ call.kind = "read" /\ Now = SizeOf[stage] /\ call.ado = StartOf[stage]
      /\ Now \in {2, 4}
  BY PollCall
<1>2. /\ csr.kind = "read" /\ csr.ado = call.ado /\ csr.size = Now /\ resetting = 0
  BY <1>1 DEF CInv, Control, CsrControl, Kinds
<1>3. CASE ~ChipCsr
  <2>1. csr' = csr
    BY <1>2, <1>3 DEF Chip, ChipStep, ChipAbort, ChipFill, ChipDrain, ChipReset
  <2> QED
    BY <2>1 DEF ReadWhole
<1>4. CASE ChipCsr
  <2> DEFINE s == Fetch(csr.ado, csr.size)
             d == InWord(s, 0)
  <2>1. csr \in CsrType /\ mem \in [Cell -> Bt] /\ csr.ado \in Nat /\ Now \in Nat
        /\ csr.ado + csr.size <= MEM_SIZE /\ version \in Nat \ {0}
    <3>1. version \in Nat \ {0}
      BY DEF CInv, TInv, AppOK
    <3> QED
      BY <1>1, <3>1, ChipKinds
  <2>2. csr'.data = d
    <3>1. csr' = [csr EXCEPT !.busy = FALSE, !.data = d]
      BY <1>2, <1>4 DEF ChipCsr
    <3> HIDE DEF d
    <3> QED
      BY <2>1, <3>1 DEF CsrType
  <2>3. s \in Seq(Bt) /\ Len(s) = Now /\ \A k \in 1 .. Now : s[k] = mem[csr.ado + k - 1]
    <3>1. s = Fetch(csr.ado, Now) /\ csr.ado + Now <= MEM_SIZE
      BY <1>2, <2>1
    <3> HIDE DEF s
    <3> QED
      BY <2>1, <3>1, FetchFacts
  <2>4. \A k \in Place : k - 0 + 1 \in 1 .. Len(s) => d[k] = s[k - 0 + 1]
    <3>1. 0 \in Place
      BY DEF Place
    <3> HIDE DEF s
    <3> QED
      BY <2>1, <2>3, <3>1, InWordFacts
  <2> HIDE DEF s, d
  <2>5. ASSUME NEW k \in 0 .. Now - 1 PROVE d[k].ver = mem[StartOf[stage]].ver
    <3>1. /\ k \in Place /\ k - 0 + 1 \in 1 .. Now
          /\ csr.ado + (k - 0 + 1) - 1 = csr.ado + k
      BY <1>1, <2>1 DEF Place
    <3>2. d[k] = mem[csr.ado + k]
      BY <2>3, <2>4, <3>1
    <3> QED
      BY <1>1, <1>2, <3>2, RegisterWhole DEF AInv
  <2> QED
    BY <2>2, <2>5
<1> QED
  BY <1>3, <1>4

LEMMA ChipSeen ==
  ASSUME CInv, Seen, Chip
  PROVE  Seen'
<1>1. UNCHANGED <<call, stage, since, mirror>>
  BY DEF Chip, ChipStep, ChipCsr, ChipAbort, ChipFill, ChipDrain, ChipReset, driver,
         controller
<1>2. ASSUME stage \in {1, 2} PROVE mem' = mem
  <2>1. call.kind = "read"
    BY <1>2 DEF CInv, TInv, StageOK
  <2>2. resetting = 0 /\ engine["write"].fifo = <<>> /\ (csr.busy => csr.kind = "read")
    BY <2>1 DEF CInv, Control, CsrControl, EngineControl, Kinds
  <2> QED
    BY <2>2 DEF Chip, ChipStep, ChipCsr, ChipAbort, ChipFill, ChipDrain, ChipReset
<1> QED
  BY <1>1, <1>2, SeenKept DEF Seen, SinceSeen

(* What a finished register read brought: at least as new as what the call *)
(* had found, and no newer than the memory is.                             *)
LEMMA RegisterCame ==
  ASSUME RInv, stage \in {2, 3}, pc = "ok"
  PROVE  /\ call.held[1].ver \in Nat /\ call.data[1].ver \in Nat
         /\ call.held[1].ver <= call.data[1].ver
         /\ call.data[1].ver <= mem[StartOf[stage]].ver
<1>1. /\ CInv /\ call.kind = "read" /\ call.rest = 0
      /\ call.ado = StartOf[stage] + Len(call.data)
      /\ SizeOf[stage] = Len(call.data) + call.rest
  BY DEF RInv, WInv, CInv, TInv, PcOK, StageOK, Kinds
<1>2. /\ call.data \in Seq(Bt) /\ call.held \in Seq(Bt) /\ Len(call.data) \in Nat
      /\ Len(call.held) = Len(call.data) + call.rest /\ ReadStart \in Nat
      /\ ReadStart + Len(call.data) = call.ado
  BY <1>1, ReadFacts
<1>3. /\ StartOf[stage] \in Nat /\ SizeOf[stage] \in {2, 4} /\ StartOf[stage] \in Cell
  <2>1. CASE stage = 2
    BY <2>1, Sizes, AlCells DEF StartOf, SizeOf
  <2>2. CASE stage = 3
    BY <2>2, Sizes, AlCells DEF StartOf, SizeOf
  <2> QED
    BY <2>1, <2>2
<1>4. Len(call.data) # 0 /\ Len(call.held) # 0 /\ ReadStart = StartOf[stage]
  <2>1. SizeOf[stage] # 0
    BY <1>3
  <2> QED
    BY <1>1, <1>2, <1>3, <2>1
<1>5. call.data[1] \in Bt /\ call.held[1] \in Bt
  BY <1>2, <1>4
<1>6. StartOf[stage] \in ReadStart .. call.ado - 1 /\ StartOf[stage] - ReadStart + 1 = 1
  <2>1. PICK x \in Nat, n \in Nat : x = StartOf[stage] /\ n = Len(call.data)
    BY <1>2, <1>3
  <2>2. ReadStart = x
    BY <1>4, <2>1
  <2>3. call.ado = x + n
    BY <1>1, <2>1
  <2>4. n # 0
    BY <1>4, <2>1
  <2>5. x <= call.ado - 1 /\ call.ado - 1 \in Int /\ x - x + 1 = 1
    BY <2>3, <2>4
  <2> QED
    BY <2>1, <2>2, <2>5
<1>7. call.data[1] \in SeenAt(StartOf[stage])
  <2>1. Came(StartOf[stage])
    BY <1>1, <1>3 DEF RInv, Reading, InRead
  <2> QED
    BY <1>6, <2>1 DEF Came
<1>8. call.data[1].ver \in call.held[1].ver .. mem[StartOf[stage]].ver
  BY <1>6, <1>7 DEF SeenAt
<1>9. /\ call.held[1].ver \in Nat /\ call.data[1].ver \in Nat
      /\ mem[StartOf[stage]].ver \in Nat
  <2>1. mem[StartOf[stage]] \in Bt
    BY <1>1, <1>3, ChipKinds
  <2> QED
    BY <1>5, <2>1 DEF Bt, ByteOf, Old
<1> QED
  BY <1>8, <1>9

(* A register read of the poll begins.                                     *)
LEMMA RegisterBegins ==
  ASSUME CInv, NEW i \in {2, 3}, Issue(Stages[i]), stage' = i, UNCHANGED version
  PROVE  ReadWhole' /\ call'.held[1] = mem[StartOf[i]]
<1>1. TInv /\ mem \in [Cell -> Bt]
  BY ChipKinds DEF CInv
<1> DEFINE n == SizeOf[i]
<1>2. /\ StartOf[i] \in Nat /\ n \in Nat /\ n # 0
      /\ StartOf[i] + n <= MEM_SIZE /\ ~(StartOf[i] >= PDRAM_BASE)
  <2>1. ALSTAT < PDRAM_BASE /\ ALEVENT < PDRAM_BASE
    BY Sizes, SlaveAssumption
  <2>2. ALSTAT \in Nat /\ ALEVENT \in Nat /\ PDRAM_BASE \in Nat
    BY Sizes
  <2> QED
    BY <2>1, <2>2, Sizes DEF StartOf, SizeOf
<1>3. PICK c : c = Stages[i]
  OBVIOUS
<1>4. c = ReadCall(StartOf[i], SizeOf[i]) /\ Fits(c, Old') /\ Old' = Old
  BY <1>1, <1>3, StageFits, SameTypes
<1>5. c.kind = "read" /\ c.ado = StartOf[i] /\ c.rest = n /\ c.data = <<>>
  BY <1>4 DEF ReadCall
<1>6. call'.data = <<>> /\ call'.held = Fetch(StartOf[i], n) /\ pc' = Entry(c)
  BY <1>1, <1>3, <1>4, <1>5, IssueTypes
<1>7. pc' = "cmd"
  BY <1>2, <1>5, <1>6 DEF Entry
<1>8. call'.held[1] = mem[StartOf[i]]
  <2> HIDE DEF n
  <2>1. \A k \in 1 .. n : Fetch(StartOf[i], n)[k] = mem[StartOf[i] + k - 1]
    BY <1>1, <1>2, FetchFacts
  <2>2. 1 \in 1 .. n /\ StartOf[i] + 1 - 1 = StartOf[i]
    BY <1>2
  <2> QED
    BY <1>6, <2>1, <2>2
<1>9. Whole(call'.data)
  BY <1>6 DEF Whole
<1> QED
  BY <1>6, <1>7, <1>8, <1>9 DEF ReadWhole

LEMMA MemVersions ==
  ASSUME CInv
  PROVE  mem[ALSTAT].ver \in Nat /\ mem[ALEVENT].ver \in Nat
<1>1. mem[ALSTAT] \in Bt /\ mem[ALEVENT] \in Bt
  BY AlCells, ChipKinds
<1> QED
  BY <1>1 DEF Bt, ByteOf, Old

LEMMA StageSeen ==
  ASSUME PInv, StageDone
  PROVE  ReadWhole' /\ Seen'
<1>1. CInv /\ pc = "ok" /\ stage \in {1, 2, 3, 4} /\ stage' = stage + 1
      /\ UNCHANGED <<mem, version, since>> /\ Issue(Stages[stage + 1])
  BY DEF PInv, RInv, WInv, StageDone, chip
<1>2. mem[ALSTAT].ver \in Nat /\ mem[ALEVENT].ver \in Nat /\ since \in Nat
  BY <1>1, MemVersions DEF PInv, Seen, SinceSeen
<1>3. mirror' = IF stage \in DOMAIN Registers
                THEN [mirror EXCEPT ![Registers[stage]] = call.data] ELSE mirror
  BY DEF StageDone
<1>4. DOMAIN Registers = 1 .. 3 /\ Registers[2] = "al_status"
      /\ Registers[3] = "al_event"
  BY DEF Registers
<1>5. DOMAIN mirror = {"status_adr", "al_status", "al_event"}
  BY <1>1 DEF CInv, TInv, AppOK
<1>6. CASE stage = 1
  <2>1. 2 \in {2, 3} /\ stage' = 2 /\ Issue(Stages[2]) /\ StartOf[2] = ALSTAT
    BY <1>1, <1>6 DEF StartOf
  <2>2. ReadWhole' /\ call'.held[1] = mem[ALSTAT]
    BY <1>1, <2>1, RegisterBegins
  <2>3. since <= mem[ALSTAT].ver
    BY <1>6 DEF PInv, Seen, SinceSeen
  <2> QED
    BY <1>1, <1>2, <2>1, <2>2, <2>3 DEF Seen, SinceSeen, StatusSeen, EventSeen
<1>7. CASE stage = 2
  <2>1. 3 \in {2, 3} /\ stage' = 3 /\ Issue(Stages[3]) /\ StartOf[3] = ALEVENT
        /\ StartOf[2] = ALSTAT
    BY <1>1, <1>7 DEF StartOf
  <2>2. ReadWhole' /\ call'.held[1] = mem[ALEVENT]
    BY <1>1, <2>1, RegisterBegins
  <2>3. /\ call.held[1].ver \in Nat /\ call.data[1].ver \in Nat
        /\ call.held[1].ver <= call.data[1].ver /\ call.data[1].ver <= mem[ALSTAT].ver
    BY <1>1, <1>7, <2>1, RegisterCame DEF PInv
  <2>4. since <= call.held[1].ver /\ mem[ALSTAT].ver <= mem[ALEVENT].ver
    BY <1>7 DEF PInv, Seen, SinceSeen, AInv, MemFresh
  <2>5. since <= call.data[1].ver /\ call.data[1].ver <= mem[ALEVENT].ver
    BY <1>2, <2>3, <2>4
  <2>6. mirror'["al_status"] = call.data /\ Whole(call.data)
    BY <1>3, <1>4, <1>5, <1>7 DEF PInv, ReadWhole
  <2> QED
    BY <1>1, <1>2, <2>1, <2>2, <2>3, <2>5, <2>6
       DEF Seen, SinceSeen, StatusSeen, EventSeen, Whole
<1>8. CASE stage = 3
  <2>1. stage' = 4
    BY <1>1, <1>8
  <2>2. mirror'["al_status"] = mirror["al_status"] /\ mirror'["al_event"] = call.data
        /\ Whole(call.data)
    BY <1>3, <1>4, <1>5, <1>8 DEF PInv, ReadWhole
  <2>3. /\ Whole(mirror["al_status"]) /\ mirror["al_status"][1].ver \in Nat
        /\ since <= mirror["al_status"][1].ver
        /\ mirror["al_status"][1].ver <= call.held[1].ver
    BY <1>8 DEF PInv, Seen, StatusSeen
  <2>4. /\ call.held[1].ver \in Nat /\ call.data[1].ver \in Nat
        /\ call.held[1].ver <= call.data[1].ver
    BY <1>1, <1>8, RegisterCame DEF PInv
  <2>5. mirror["al_status"][1].ver <= call.data[1].ver
    BY <2>3, <2>4
  <2> QED
    BY <1>1, <1>2, <2>1, <2>2, <2>3, <2>5
       DEF ReadWhole, Seen, SinceSeen, StatusSeen, EventSeen, Whole
<1>9. CASE stage = 4
  <2>1. stage' = 5 /\ mirror' = mirror
    BY <1>1, <1>3, <1>4, <1>9
  <2> QED
    BY <1>1, <1>9, <2>1 DEF PInv, ReadWhole, Seen, SinceSeen, StatusSeen, EventSeen
<1> QED
  BY <1>1, <1>6, <1>7, <1>8, <1>9

LEMMA BusSeen ==
  ASSUME CInv, ReadWhole, Seen, Bus
  PROVE  ReadWhole' /\ Seen'
<1>1. UNCHANGED <<stage, since, mirror, call, pc, csr>> /\ Now' = Now
  BY DEF Bus, driver, controller, Now
<1>2. ReadWhole'
  BY <1>1 DEF ReadWhole
<1>3. mem[ALSTAT].ver <= mem'[ALSTAT].ver
      /\ mem[ALSTAT].ver \in Nat /\ mem'[ALSTAT].ver \in Nat
  <2>1. mem[ALSTAT].ver \in 0 .. version - 1 /\ version \in Nat
    <3>1. mem[ALSTAT] \in Bt
      BY AlCells, ChipKinds
    <3>2. version \in Nat
      BY Sizes DEF CInv, TInv, AppOK
    <3> QED
      BY <3>1, <3>2 DEF Bt, ByteOf, Old
  <2>2. ALSTAT \in Cell
    BY AlCells
  <2>3. mem'[ALSTAT] = mem[ALSTAT] \/ mem'[ALSTAT] = Byte(ALSTAT, version)
    BY <2>2, BusFacts
  <2>4. mem'[ALSTAT].ver = mem[ALSTAT].ver \/ mem'[ALSTAT].ver = version
    BY <2>3 DEF Byte
  <2> QED
    BY <2>1, <2>4
<1>4. stage \in {1, 2} => since <= mem'[ALSTAT].ver
  <2>1. stage \in {1, 2} => since \in Nat /\ since <= mem[ALSTAT].ver
    BY DEF Seen, SinceSeen
  <2> QED
    BY <1>3, <2>1
<1> QED
  BY <1>1, <1>2, <1>4, SeenKept

LEMMA StepSeen ==
  ASSUME RegistersApart, PInv, [Next]_vars
  PROVE  ReadWhole' /\ Seen'
<1>1. CInv /\ AInv /\ ReadWhole /\ Seen
  BY DEF PInv, RInv, WInv
<1>2. ASSUME stage' = 0, since' = since PROVE ReadWhole' /\ Seen'
  BY <1>1, <1>2 DEF ReadWhole, Seen, SinceSeen, StatusSeen, EventSeen
<1>3. CASE PollBegin
  <2>1. stage' = 1 /\ since' = mem[ALSTAT].ver /\ mem' = mem
    BY <1>3 DEF PollBegin, chip
  <2> QED
    BY <1>1, <2>1, MemVersions DEF ReadWhole, Seen, SinceSeen, StatusSeen, EventSeen
<1>4. CASE Report \/ PollFails
  BY <1>2, <1>4 DEF Report, PollFails
<1>5. CASE Direct
  <2>1. ASSUME NEW c, CallBegin(c) PROVE stage' = 0 /\ since' = since
    BY <2>1 DEF CallBegin, Idle
  <2>2. stage' = 0 /\ since' = since
    BY <1>5, <2>1 DEF Direct, DirectRead, DirectWrite, DirectReset, DirectReturns, controller
  <2> QED
    BY <1>2, <2>2
<1>6. CASE Outputs
  BY <1>2, <1>6 DEF Outputs, controller
<1>7. CASE UNCHANGED vars
  <2>1. UNCHANGED <<stage, since, mirror, call, pc, csr, mem>> /\ Now' = Now
    BY <1>7 DEF vars, chip, driver, controller, Now
  <2> QED
    BY <1>1, <2>1 DEF ReadWhole, Seen, SinceSeen, StatusSeen, EventSeen
<1> QED
  BY <1>1, <1>3, <1>4, <1>5, <1>6, <1>7, StageSeen, BusSeen, AccessWhole, AccessSeen,
     ChipWhole, ChipSeen DEF Next, Poll

(* Where AL Status and AL Event are registers of their own, what the poll  *)
(* reports is what the chip showed during it: each of one moment, and the  *)
(* event not older than the status, whatever calls and polls failed before *)
(* (ul_ecat_slave_controller_poll_lan9252, ReportFresh).                   *)
THEOREM ReportsAreFresh == ASSUME RegistersApart PROVE Spec => ReportFresh
<1>1. Init => PInv
  <2>1. Init => /\ stage = 0 /\ since = 0 /\ call.kind = "none"
    BY DEF Init, DriverInit, NoCall
  <2> QED
    BY <2>1, InitWrites, InitApart
       DEF PInv, RInv, ReadWhole, Seen, SinceSeen, StatusSeen, EventSeen
<1>2. PInv /\ [Next]_vars => PInv'
  <2> SUFFICES ASSUME PInv, [Next]_vars PROVE PInv'
    OBVIOUS
  <2>1. RInv' /\ AInv'
    BY StepRead, StepApart DEF PInv, RInv
  <2> QED
    BY <2>1, StepSeen DEF PInv
<1> DEFINE Fresher ==
      last' # last => /\ Whole(last'.status) /\ Whole(last'.event)
                      /\ since <= last'.status[1].ver
                      /\ last'.status[1].ver <= last'.event[1].ver
<1>3. PInv /\ [Next]_vars => [Fresher]_vars
  <2> SUFFICES ASSUME PInv, [Next]_vars, last' # last PROVE Fresher
    BY DEF vars, controller
  <2>1. Report
    BY DEF Next, Access, Chip, Poll, Direct, Outputs, Bus, controller, PollBegin, StageDone,
           PollFails, DirectRead, DirectWrite, DirectReset, CallBegin, DirectReturns, vars
  <2>2. last' = [status |-> mirror["al_status"], event |-> mirror["al_event"]] /\ stage = 5
    BY <2>1 DEF Report
  <2>3. last'.status = mirror["al_status"] /\ last'.event = mirror["al_event"]
    BY <2>2
  <2> QED
    BY <2>2, <2>3 DEF PInv, Seen, StatusSeen, EventSeen
<1> QED
  BY <1>1, <1>2, <1>3, PTL DEF Spec, ReportFresh
=============================================================================
