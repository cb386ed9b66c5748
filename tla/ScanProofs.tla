----------------------------- MODULE ScanProofs -----------------------------
(***************************************************************************)
(* The scan and the slave database, for any rings, identities, files,      *)
(* faults and sizes: their types; a name belongs to a device of that       *)
(* vendor and product; and, on rings whose slaves keep their positions,    *)
(* what a read by hand returns, whose identity an entry holds, and that a  *)
(* scan without faults reads the slave in every position up to the one     *)
(* where it stops.  The run MCScanRewired shows that slaves that change    *)
(* positions break what needs them kept.                                   *)
(***************************************************************************)
EXTENDS Scan, FiniteSetTheorems, WellFoundedInduction, TLAPS

(* No two slaves have one position, in one wiring or in two; and wired     *)
(* anew, a slave that has a position again has the one it had.             *)
KeepsPlace ==
  \A q, r \in Rings : (Rewired \/ q = r) =>
    \A p, m \in Nat : \A s \in SlavesAt(q, p), t \in SlavesAt(r, m) :
      s = t <=> p = m

Kinds == {"lost", "late", "restart"}

-----------------------------------------------------------------------------
LEMMA Sizes ==
  /\ MAX_SLAVES \in Nat /\ MAX_SLAVES > 0 /\ STATION \in Nat /\ STATION # 0
  BY ScanAssumption DEF STATION

(* Sequences whose elements are of no concern.                             *)
IsSeq(s) == s \in Seq({s[i] : i \in DOMAIN s})

LEMMA EmptyIsSeq == IsSeq(<<>>) /\ Len(<<>>) = 0 /\ DOMAIN <<>> = {}
  BY DEF IsSeq

LEMMA SeqIsSeq ==
  ASSUME NEW S, NEW s \in Seq(S)
  PROVE  IsSeq(s)
<1> DEFINE T == {s[i] : i \in DOMAIN s}
<1>1. s \in [1 .. Len(s) -> S] /\ Len(s) \in Nat /\ DOMAIN s = 1 .. Len(s)
  OBVIOUS
<1>2. s \in [1 .. Len(s) -> T]
  BY <1>1
<1> HIDE DEF T
<1>3. s \in Seq(T)
  BY <1>1, <1>2
<1> QED
  BY <1>3 DEF IsSeq, T

LEMMA SeqLen ==
  ASSUME NEW s, IsSeq(s)
  PROVE  /\ Len(s) \in Nat /\ DOMAIN s = 1 .. Len(s)
         /\ s = <<>> <=> Len(s) = 0
  BY DEF IsSeq

LEMMA AppendSeq ==
  ASSUME NEW s, IsSeq(s), NEW e
  PROVE  /\ IsSeq(Append(s, e)) /\ Len(Append(s, e)) = Len(s) + 1
         /\ \A i \in DOMAIN s : Append(s, e)[i] = s[i]
         /\ Append(s, e)[Len(s) + 1] = e
         /\ DOMAIN Append(s, e) = DOMAIN s \cup {Len(s) + 1}
         /\ s = <<>> => Head(Append(s, e)) = e /\ Tail(Append(s, e)) = <<>>
<1> DEFINE S == {s[i] : i \in DOMAIN s} \cup {e}
<1>1. s \in Seq(S)
  <2>1. s \in [1 .. Len(s) -> S] /\ Len(s) \in Nat
    BY DEF IsSeq
  <2> QED
    BY <2>1
<1> HIDE DEF S
<1>2. e \in S
  BY DEF S
<1>3. Append(s, e) \in Seq(S)
  BY <1>1, <1>2
<1>4. IsSeq(Append(s, e))
  BY <1>3, SeqIsSeq
<1>5. s = <<>> => Head(Append(s, e)) = e /\ Tail(Append(s, e)) = <<>>
  BY <1>2
<1> QED
  BY <1>1, <1>2, <1>4, <1>5

LEMMA TailSeq ==
  ASSUME NEW s, IsSeq(s), s # <<>>
  PROVE  IsSeq(Tail(s)) /\ Len(Tail(s)) = Len(s) - 1
<1> DEFINE S == {s[i] : i \in DOMAIN s}
<1>1. s \in Seq(S)
  BY DEF IsSeq
<1> HIDE DEF S
<1>2. Tail(s) \in Seq(S) /\ Len(Tail(s)) = Len(s) - 1
  BY <1>1
<1> QED
  BY <1>2, SeqIsSeq
-----------------------------------------------------------------------------
(* Types.                                                                  *)
Total(f) == f["lost"] + f["late"] + f["restart"]
FaultsOK == faults \in [Kinds -> Nat] /\ Total(faults) <= MaxFaults
SocketOK == IsSeq(socket) /\ Len(socket) <= faults["late"]

SlavesOK ==
  /\ ring \in Rings /\ station \in [Slaves -> {0} \cup Stations]
  /\ cell \in [Slaves -> Values] /\ may \in [Stations -> SUBSET Values]

IsEntry(e) ==
  LET fields == Identity \cup {"station", "name"}
  IN  e \in [fields -> {e[f] : f \in fields}]

DbOK ==
  /\ IsSeq(db) /\ Len(db) <= MAX_SLAVES
  /\ \A i \in DOMAIN db : IsEntry(db[i]) /\ db[i].station = STATION + i - 1

SlotOK ==
  /\ IsEntry(slot) /\ slot.name = ""
  /\ ~Idle => Len(db) < MAX_SLAVES /\ slot.station = STATION + Len(db)

TInv ==
  /\ FaultsOK /\ SocketOK /\ SlavesOK /\ DbOK /\ SlotOK
  /\ pc \in {"idle", "assign"} \cup Identity /\ calls \in 0 .. MaxCalls

LEMMA TypesFollow == TInv => TypeOK
<1> SUFFICES ASSUME TInv PROVE TypeOK
  OBVIOUS
<1>1. Len(socket) <= MaxFaults
  BY SeqLen, ScanAssumption DEF TInv, FaultsOK, SocketOK, Total, Kinds
<1> QED
  BY <1>1 DEF TInv, SlavesOK, DbOK, TypeOK

(* What an entry holds after one of its fields is written.                 *)
LEMMA EntryWritten ==
  ASSUME NEW e, IsEntry(e), NEW f \in Identity \cup {"station", "name"}, NEW v
  PROVE  LET w == [e EXCEPT ![f] = v]
         IN  /\ IsEntry(w) /\ w[f] = v
             /\ \A g \in Identity \cup {"station", "name"} : g # f => w[g] = e[g]
<1> DEFINE w == [e EXCEPT ![f] = v]
           D == Identity \cup {"station", "name"}
<1>1. DOMAIN e = D
  BY DEF IsEntry
<1>2. w = [g \in D |-> IF g = f THEN v ELSE e[g]]
  BY <1>1
<1>3. \A g \in D : w[g] = IF g = f THEN v ELSE e[g]
  BY <1>2
<1>4. w \in [D -> {w[g] : g \in D}]
  BY <1>2
<1> HIDE DEF w
<1>5. IsEntry(w)
  BY <1>4 DEF IsEntry
<1> QED
  BY <1>3, <1>5 DEF w

LEMMA NewEntry ==
  ASSUME NEW addr
  PROVE  /\ IsEntry(Entry(addr)) /\ Entry(addr).station = addr
         /\ Entry(addr).name = "" /\ \A f \in Identity : Entry(addr)[f] = 0
  BY DEF IsEntry, Entry, Identity

(* An exchange of any datagram leaves an answer of the ring, or none; only *)
(* late answers stay behind.                                               *)
LEMMA ExchangeFacts ==
  ASSUME FaultsOK, SocketOK, NEW dg, NEW ans, Exchange(dg, ans)
  PROVE  /\ FaultsOK' /\ SocketOK' /\ (UNCHANGED slaves \/ Effect(dg))
         /\ faults'["late"] = 0 =>
              /\ faults["late"] = 0
              /\ \/ ans = NoAnswer
                 \/ ans = Answer(dg) /\ Effect(dg)
         /\ Total(faults') = 0 =>
              Total(faults) = 0 /\ ans = Answer(dg) /\ Effect(dg)
<1> DEFINE more == Append(socket, Answer(dg))
           rest == IF socket = <<>> THEN <<>> ELSE Tail(socket)
<1>1. faults["late"] = 0 => socket = <<>>
  BY SeqLen DEF SocketOK
<1>2. IsSeq(rest) /\ Len(rest) <= faults["late"]
  BY EmptyIsSeq, SeqLen, TailSeq DEF SocketOK, FaultsOK, Kinds
<1>3. IsSeq(more) /\ more # <<>> /\ IsSeq(Tail(more)) /\ Len(Tail(more)) = Len(socket)
  <2>1. IsSeq(more) /\ Len(more) = Len(socket) + 1 /\ Len(socket) \in Nat
    BY AppendSeq, SeqLen DEF SocketOK
  <2> HIDE DEF more
  <2>2. more # <<>>
    BY <2>1, SeqLen
  <2> QED
    BY <2>1, <2>2, TailSeq
<1>4. \A k \in Kinds : Fault(k) =>
        FaultsOK' /\ faults'[k] = faults[k] + 1
        /\ \A j \in Kinds : j # k => faults'[j] = faults[j]
  <2> SUFFICES ASSUME NEW k \in Kinds, Fault(k)
               PROVE  /\ FaultsOK' /\ faults'[k] = faults[k] + 1
                      /\ \A j \in Kinds : j # k => faults'[j] = faults[j]
    OBVIOUS
  <2> USE DEF FaultsOK, Kinds
  <2>1. /\ faults' \in [Kinds -> Nat] /\ faults'[k] = faults[k] + 1
        /\ \A j \in Kinds : j # k => faults'[j] = faults[j]
    BY DEF Fault
  <2>2. Total(faults) < MaxFaults
    BY DEF Fault, Total
  <2>3. Total(faults') = Total(faults) + 1
    BY <2>1 DEF Total
  <2> QED
    BY <2>1, <2>2, <2>3, ScanAssumption DEF Total
<1>5. CASE UNCHANGED faults
  <2>1. Effect(dg) /\ ans = Head(more) /\ socket' = Tail(more)
    BY <1>4, <1>5 DEF Exchange, Kinds, FaultsOK
  <2>2. faults["late"] = 0 => ans = Answer(dg)
    BY <1>1, <2>1, AppendSeq DEF SocketOK
  <2>3. FaultsOK' /\ SocketOK'
    BY <1>3, <1>5, <2>1 DEF FaultsOK, SocketOK
  <2>4. Total(faults) = 0 => faults["late"] = 0
    BY DEF FaultsOK, Total, Kinds
  <2> QED
    BY <1>5, <2>1, <2>2, <2>3, <2>4
<1>6. CASE Fault("lost") /\ socket' = rest
  <2>1. (UNCHANGED slaves \/ Effect(dg)) /\ (faults["late"] = 0 => ans = NoAnswer)
    BY <1>1, <1>4, <1>6 DEF Exchange, Kinds, FaultsOK
  <2>2. Total(faults') # 0 /\ faults'["late"] = faults["late"] /\ FaultsOK'
    BY <1>4, <1>6 DEF FaultsOK, Total, Kinds
  <2>3. SocketOK'
    BY <1>2, <1>6, <2>2 DEF SocketOK
  <2> QED
    BY <2>1, <2>2, <2>3
<1>7. CASE Effect(dg) /\ Fault("late") /\ socket' = Append(rest, Answer(dg))
  <2>1. faults'["late"] = faults["late"] + 1 /\ FaultsOK' /\ Total(faults') # 0
        /\ faults'["late"] # 0
    BY <1>4, <1>7 DEF FaultsOK, Total, Kinds
  <2>2. SocketOK'
    BY <1>2, <1>7, <2>1, AppendSeq, SeqLen DEF SocketOK, FaultsOK, Kinds
  <2> QED
    BY <1>7, <2>1, <2>2
<1> QED
  BY <1>5, <1>6, <1>7 DEF Exchange
LEMMA EffectTypes ==
  ASSUME SlavesOK, NEW dg, UNCHANGED slaves \/ Effect(dg),
         dg.ado = "station" => dg.data \in Stations,
         dg.ado = "cell" /\ dg.cmd = "FPWR" => dg.data \in Values
  PROVE  /\ ring' = ring /\ station' \in [Slaves -> {0} \cup Stations]
         /\ cell' \in [Slaves -> Values]
  BY DEF SlavesOK, slaves, Effect

LEMMA TypeInit == Init => TInv
<1> SUFFICES ASSUME Init PROVE TInv
  OBVIOUS
<1> USE ScanAssumption
<1>1. FaultsOK /\ SocketOK
  BY EmptyIsSeq DEF Init, FaultsOK, SocketOK, Total, Kinds
<1>2. SlavesOK
  BY DEF Init, SlavesOK
<1>3. DbOK
  <2>1. db = <<>>
    BY DEF Init
  <2> QED
    BY <2>1, EmptyIsSeq, Sizes DEF DbOK
<1>4. SlotOK
  BY NewEntry DEF Init, SlotOK, Idle
<1> QED
  BY <1>1, <1>2, <1>3, <1>4 DEF Init, TInv

(* The end of a read of the scan.                                          *)
LEMMA FieldWritten ==
  ASSUME SlotOK, pc \in Identity, NEW ans
  PROVE  LET w == WithField(ans)
         IN  /\ IsEntry(w) /\ w.name = "" /\ w.station = slot.station
             /\ w[pc] = IF ans.wkc >= 1 THEN Copied(ans) ELSE 0
             /\ \A f \in Identity : f # pc => w[f] = slot[f]
<1> DEFINE w == WithField(ans)
           v == IF ans.wkc >= 1 THEN Copied(ans) ELSE 0
<1>1. w = [slot EXCEPT ![pc] = v]
  BY DEF WithField
<1>2. pc # "station" /\ pc # "name"
  BY DEF Identity
<1>3. pc \in Identity \cup {"station", "name"} /\ IsEntry(slot)
  BY DEF SlotOK
<1> HIDE DEF v, w
<1>4. LET u == [slot EXCEPT ![pc] = v]
      IN  /\ IsEntry(u) /\ u[pc] = v
          /\ \A g \in Identity \cup {"station", "name"} : g # pc => u[g] = slot[g]
  BY <1>3, EntryWritten
<1>5. w.name = slot.name /\ w.station = slot.station
  BY <1>1, <1>2, <1>4
<1> QED
  BY <1>1, <1>4, <1>5 DEF SlotOK, w, v

LEMMA IdentifiedTypes ==
  ASSUME DbOK, SlotOK, pc \in Identity, NEW ans, Identified(ans)
  PROVE  /\ DbOK' /\ SlotOK' /\ pc' \in {"idle", "assign"} \cup Identity
         /\ pc = "serial" => /\ Len(db') = Len(db) + 1
                             /\ \A i \in DOMAIN db : db'[i] = db[i]
                             /\ db'[Len(db) + 1] = WithField(ans)
                             /\ DOMAIN db' = DOMAIN db \cup {Len(db) + 1}
<1> DEFINE w == WithField(ans)
<1>1. /\ IsEntry(w) /\ w.name = "" /\ w.station = STATION + Len(db)
      /\ Len(db) < MAX_SLAVES
  <2>1. slot.station = STATION + Len(db) /\ Len(db) < MAX_SLAVES
    BY DEF SlotOK, Idle, Identity
  <2> QED
    BY <2>1, FieldWritten
<1> HIDE DEF w
<1>2. CASE pc # "serial"
  <2>1. db' = db /\ slot' = w /\ pc' = FieldAfter[pc]
    BY <1>2 DEF Identified, w
  <2>2. pc' \in Identity
    BY <1>2, <2>1 DEF FieldAfter, Identity
  <2> QED
    <3>1. slot'.station = STATION + Len(db')
      BY <1>1, <2>1
    <3>2. DbOK' /\ SlotOK'
      BY <1>1, <2>1, <3>1 DEF DbOK, SlotOK
    <3> QED
      BY <1>2, <2>2, <3>2
<1>3. CASE pc = "serial"
  <2>1. /\ db' = Append(db, w) /\ slot' = Entry(slot.station + 1)
        /\ pc' = IF Len(db') = MAX_SLAVES THEN "idle" ELSE "assign"
    BY <1>3 DEF Identified, w
  <2>2. /\ IsSeq(db') /\ Len(db') = Len(db) + 1 /\ Len(db) \in Nat
        /\ \A i \in DOMAIN db : db'[i] = db[i]
        /\ db'[Len(db) + 1] = w /\ DOMAIN db' = DOMAIN db \cup {Len(db) + 1}
    BY <2>1, AppendSeq, SeqLen DEF DbOK
  <2>3. /\ Len(db) \in Nat /\ Len(db') = Len(db) + 1
        /\ Len(db) < MAX_SLAVES /\ MAX_SLAVES \in Nat
    BY <1>1, <2>2, ScanAssumption
  <2>4. DbOK'
    <3>1. Len(db') <= MAX_SLAVES
      BY <2>3
    <3>2. IsEntry(db'[Len(db) + 1])
          /\ db'[Len(db) + 1].station = STATION + (Len(db) + 1) - 1
      <4>1. STATION + Len(db) = STATION + (Len(db) + 1) - 1
        BY <2>3 DEF STATION
      <4> QED
        BY <1>1, <2>2, <4>1
    <3>3. \A i \in DOMAIN db : IsEntry(db'[i]) /\ db'[i].station = STATION + i - 1
      BY <2>2 DEF DbOK
    <3> QED
      BY <2>2, <3>1, <3>2, <3>3 DEF DbOK
  <2>5. slot.station = STATION + Len(db)
    BY <1>3 DEF SlotOK, Idle
  <2>6. SlotOK'
    <3>1. IsEntry(slot') /\ slot'.name = "" /\ slot'.station = slot.station + 1
      BY <2>1, NewEntry
    <3>2. pc' # "idle" => Len(db') < MAX_SLAVES
      BY <2>1, <2>3
    <3> QED
      <4>1. STATION + Len(db) + 1 = STATION + Len(db')
        BY <2>3 DEF STATION
      <4> QED
        BY <2>5, <3>1, <3>2, <4>1 DEF SlotOK, Idle
  <2> QED
    BY <1>3, <2>1, <2>2, <2>4, <2>6 DEF w
<1> QED
  BY <1>2, <1>3

LEMMA NamedFacts ==
  ASSUME NEW e, IsEntry(e), NEW lib
  PROVE  LET n == Named(e, lib)
         IN  /\ IsEntry(n) /\ n.station = e.station
             /\ n.vendor = e.vendor /\ n.product = e.product
             /\ n.name # e.name =>
                  \E j \in DOMAIN lib : /\ n.name = lib[j].name
                                        /\ Matches(lib[j], e)
<1> DEFINE hits == {j \in 1 .. ESI_MAX : j \in DOMAIN lib /\ Matches(lib[j], e)}
           dev == lib[CHOOSE j \in hits : \A k \in hits : j <= k]
           e1 == [e EXCEPT !.revision = dev.revision]
           e2 == [e1 EXCEPT !.serial = dev.serial]
           name == IF dev.name = "" THEN e.name ELSE dev.name
           e3 == [e2 EXCEPT !.name = name]
<1>1. CASE hits = {}
  BY <1>1 DEF Named
<1>2. CASE hits # {}
  <2>1. PICK j \in hits : \A k \in hits : j <= k
    <3>1. hits \subseteq Nat
      BY ScanAssumption
    <3> HIDE DEF hits
    <3>2. PICK x \in hits : \A y \in hits : <<y, x>> \notin OpToRel(<, Nat)
      BY <1>2, <3>1, NatLessThanWellFounded, WFMin
    <3>3. \A y \in hits : ~(y < x)
      BY <3>1, <3>2 DEF OpToRel
    <3>4. \A y \in hits : x <= y
      BY <3>1, <3>3
    <3> QED
      BY <3>4
  <2>2. PICK d : d = dev
    OBVIOUS
  <2>3. \E k \in DOMAIN lib : d = lib[k] /\ Matches(d, e)
    BY <2>1, <2>2
  <2> HIDE DEF hits, dev
  <2>4. Named(e, lib) = e3
    BY <1>2 DEF Named, hits, dev
  <2> DEFINE Fields == Identity \cup {"station", "name"}
  <2>5. IsEntry(e1) /\ \A g \in Fields : g # "revision" => e1[g] = e[g]
    BY EntryWritten DEF Identity
  <2> HIDE DEF e1
  <2>6. IsEntry(e2) /\ \A g \in Fields : g # "serial" => e2[g] = e1[g]
    BY <2>5, EntryWritten DEF Identity
  <2> HIDE DEF e2
  <2>7. /\ IsEntry(e3) /\ \A g \in Fields : g # "name" => e3[g] = e2[g]
        /\ e3["name"] = name
    <3> HIDE DEF name
    <3> QED
      BY <2>6, EntryWritten DEF Identity
  <2> HIDE DEF e3
  <2>8. /\ e3.station = e.station /\ e3.vendor = e.vendor
        /\ e3.product = e.product
    BY <2>5, <2>6, <2>7 DEF Identity
  <2> QED
    BY <2>2, <2>3, <2>4, <2>7, <2>8
<1> QED
  BY <1>1, <1>2
LEMMA MergeFacts ==
  ASSUME DbOK, NEW list, MergeEsi(list)
  PROVE  /\ DbOK' /\ Len(db') = Len(db) /\ DOMAIN db' = DOMAIN db
         /\ \A i \in DOMAIN db : db'[i] = Named(db[i], EsiLib(list))
<1> DEFINE n(i) == Named(db[i], EsiLib(list))
           T == {n(i) : i \in DOMAIN db}
<1>1. /\ db' = [i \in DOMAIN db |-> n(i)] /\ DOMAIN db = 1 .. Len(db)
      /\ Len(db) \in Nat
  BY SeqLen DEF MergeEsi, DbOK
<1>2. db' \in [1 .. Len(db) -> T]
  BY <1>1
<1>3. \A i \in DOMAIN db : db'[i] = n(i)
  BY <1>1
<1> HIDE DEF T
<1>4. db' \in Seq(T) /\ Len(db') = Len(db)
  BY <1>1, <1>2
<1>5. IsSeq(db') /\ DOMAIN db' = DOMAIN db
  BY <1>1, <1>4, SeqIsSeq
<1>6. \A i \in DOMAIN db : IsEntry(db'[i]) /\ db'[i].station = db[i].station
  BY <1>3, NamedFacts DEF DbOK
<1> QED
  BY <1>3, <1>4, <1>5, <1>6 DEF DbOK

LEMMA AssignTypes ==
  ASSUME TInv, Assign
  PROVE  TInv'
<1> DEFINE dg == [cmd |-> "APWR", adp |-> slot.station - STATION,
                  ado |-> "station", data |-> slot.station]
<1>1. PICK ans : Exchange(dg, ans) /\ Assigned(ans)
  BY DEF Assign
<1>2. slot.station \in Stations
  <2>1. Len(db) < MAX_SLAVES /\ slot.station = STATION + Len(db)
    BY DEF TInv, SlotOK, Assign, Idle
  <2>2. Len(db) \in Nat
    BY SeqLen DEF TInv, DbOK
  <2> QED
    BY <2>1, <2>2, ScanAssumption DEF Stations, STATION
<1>3. FaultsOK' /\ SocketOK' /\ (UNCHANGED slaves \/ Effect(dg))
  BY <1>1, ExchangeFacts DEF TInv
<1>4. ring' = ring /\ station' \in [Slaves -> {0} \cup Stations]
      /\ cell' \in [Slaves -> Values]
  BY <1>2, <1>3, EffectTypes DEF TInv
<1>5. /\ UNCHANGED <<may, calls, db, slot>> /\ pc = "assign"
      /\ pc' \in {"idle", "assign"} \cup Identity
  BY <1>1 DEF Assign, Assigned, Identity
<1>6. SlavesOK'
  BY <1>4, <1>5 DEF TInv, SlavesOK
<1>7. DbOK' /\ SlotOK'
  BY <1>5 DEF TInv, DbOK, SlotOK, Idle
<1> QED
  BY <1>3, <1>5, <1>6, <1>7 DEF TInv

LEMMA IdentifyTypes ==
  ASSUME TInv, Identify
  PROVE  TInv'
<1> DEFINE dg == [cmd |-> "FPRD", adp |-> slot.station, ado |-> pc, data |-> 0]
<1>1. PICK ans : Exchange(dg, ans) /\ Identified(ans)
  BY DEF Identify
<1>2. FaultsOK' /\ SocketOK' /\ (UNCHANGED slaves \/ Effect(dg))
  BY <1>1, ExchangeFacts DEF TInv
<1>3. ring' = ring /\ station' \in [Slaves -> {0} \cup Stations]
      /\ cell' \in [Slaves -> Values]
  BY <1>2, EffectTypes DEF TInv, Identify, Identity
<1>4. DbOK' /\ SlotOK' /\ pc' \in {"idle", "assign"} \cup Identity
  BY <1>1, IdentifiedTypes DEF TInv, Identify
<1>5. SlavesOK' /\ calls' = calls
  BY <1>3 DEF TInv, SlavesOK, Identify
<1> QED
  BY <1>2, <1>4, <1>5 DEF TInv

LEMMA ReadWriteTypes ==
  ASSUME TInv, NEW a \in Stations,
         Read(a) \/ \E v \in Values : Write(a, v)
  PROVE  TInv'
<1>1. ASSUME NEW dg, NEW ans, Exchange(dg, ans), UNCHANGED scan,
             dg.ado = "cell" /\ (dg.cmd = "FPWR" => dg.data \in Values),
             may' \in [Stations -> SUBSET Values], calls' \in 0 .. MaxCalls
      PROVE  TInv'
  <2>1. FaultsOK' /\ SocketOK' /\ (UNCHANGED slaves \/ Effect(dg))
    BY <1>1, ExchangeFacts DEF TInv
  <2>2. ring' = ring /\ station' \in [Slaves -> {0} \cup Stations]
        /\ cell' \in [Slaves -> Values]
    BY <1>1, <2>1, EffectTypes DEF TInv
  <2>3. SlavesOK'
    BY <1>1, <2>2 DEF TInv, SlavesOK
  <2>4. DbOK' /\ SlotOK' /\ pc' \in {"idle", "assign"} \cup Identity
    BY <1>1 DEF TInv, DbOK, SlotOK, Idle, scan
  <2> QED
    BY <1>1, <2>1, <2>3, <2>4 DEF TInv
<1>2. CASE Read(a)
  <2> DEFINE dg == [cmd |-> "FPRD", adp |-> a, ado |-> "cell", data |-> 0]
  <2>1. PICK ans : Exchange(dg, ans)
    BY <1>2 DEF Read
  <2>2. /\ UNCHANGED scan /\ may' \in [Stations -> SUBSET Values]
        /\ calls' \in 0 .. MaxCalls
    BY <1>2, ScanAssumption DEF Read, Called, TInv, SlavesOK
  <2> QED
    BY <1>1, <2>1, <2>2
<1>3. ASSUME NEW v \in Values, Write(a, v)
      PROVE  TInv'
  <2> DEFINE dg == [cmd |-> "FPWR", adp |-> a, ado |-> "cell", data |-> v]
  <2>1. PICK ans : /\ Exchange(dg, ans)
                   /\ may' = [may EXCEPT ![a] = IF ans.wkc >= 1 THEN {v}
                                                ELSE @ \cup {v}]
    BY <1>3 DEF Write
  <2>2. UNCHANGED scan /\ calls' \in 0 .. MaxCalls
    BY <1>3, ScanAssumption DEF Write, Called, TInv
  <2>3. may' \in [Stations -> SUBSET Values]
    BY <2>1 DEF TInv, SlavesOK
  <2> QED
    BY <1>1, <2>1, <2>2, <2>3
<1> QED
  BY <1>2, <1>3

LEMMA TypeStep == TInv /\ [Next]_vars => TInv'
<1> SUFFICES ASSUME TInv, [Next]_vars PROVE TInv'
  OBVIOUS
<1> USE DEF TInv
<1>1. CASE ScanBegin
  <2>1. UNCHANGED <<slaves, socket, may, faults>> /\ calls' \in 0 .. MaxCalls
        /\ db' = <<>> /\ slot' = Entry(STATION) /\ pc' = "assign"
    BY <1>1, ScanAssumption DEF ScanBegin, Called
  <2>2. FaultsOK' /\ SocketOK' /\ SlavesOK'
    BY <2>1 DEF FaultsOK, SocketOK, SlavesOK, slaves
  <2>3. DbOK'
    BY <2>1, EmptyIsSeq, Sizes DEF DbOK
  <2>4. SlotOK'
    <3>1. STATION + Len(db') = STATION /\ Len(db') < MAX_SLAVES
      BY <2>1, EmptyIsSeq, Sizes
    <3>2. IsEntry(slot') /\ slot'.name = "" /\ slot'.station = STATION
      BY <2>1, NewEntry
    <3> QED
      BY <3>1, <3>2 DEF SlotOK
  <2> QED
    BY <2>1, <2>2, <2>3, <2>4
<1>2. CASE Assign
  BY <1>2, AssignTypes
<1>3. CASE Identify
  BY <1>3, IdentifyTypes
<1>4. CASE NewProcess
  <2>1. UNCHANGED <<slaves, pc, may, faults, calls>> /\ db' = <<>>
        /\ slot' = Entry(STATION) /\ socket' = <<>> /\ pc = "idle"
    BY <1>4 DEF NewProcess, Idle
  <2>2. FaultsOK' /\ SlavesOK'
    BY <2>1 DEF FaultsOK, SlavesOK, slaves
  <2>3. SocketOK'
    BY <2>1, EmptyIsSeq DEF SocketOK, FaultsOK, Kinds
  <2>4. DbOK'
    BY <2>1, EmptyIsSeq, Sizes DEF DbOK
  <2>5. SlotOK'
    BY <2>1, NewEntry DEF SlotOK, Idle
  <2> QED
    BY <2>1, <2>2, <2>3, <2>4, <2>5
<1>5. CASE Drain
  <2>1. UNCHANGED <<slaves, scan, may, faults, calls>> /\ socket' = <<>>
    BY <1>5 DEF Drain
  <2>2. FaultsOK' /\ SlavesOK' /\ DbOK' /\ SlotOK'
    BY <2>1 DEF FaultsOK, SlavesOK, slaves, scan, DbOK, SlotOK, Idle
  <2>3. SocketOK'
    BY <2>1, EmptyIsSeq DEF SocketOK, FaultsOK, Kinds
  <2> QED
    BY <2>1, <2>2, <2>3 DEF scan
<1>6. CASE Rewire
  <2>1. UNCHANGED <<station, cell, socket, scan, faults>> /\ ring' \in Rings
        /\ may' = [a \in Stations |-> Values] /\ calls' \in 0 .. MaxCalls
    BY <1>6, ScanAssumption DEF Rewire, Called
  <2>2. FaultsOK' /\ SocketOK' /\ DbOK' /\ SlotOK' /\ SlavesOK'
    BY <2>1 DEF FaultsOK, SocketOK, SlavesOK, scan, DbOK, SlotOK, Idle
  <2> QED
    BY <2>1, <2>2 DEF scan
<1>7. ASSUME NEW list, MergeEsi(list)
      PROVE  TInv'
  <2>1. UNCHANGED <<slaves, socket, pc, slot, may, faults>> /\ pc = "idle"
        /\ calls' \in 0 .. MaxCalls
    BY <1>7, ScanAssumption DEF MergeEsi, Called, Idle
  <2>2. FaultsOK' /\ SocketOK' /\ SlotOK' /\ SlavesOK'
    BY <2>1 DEF FaultsOK, SocketOK, SlavesOK, slaves, SlotOK, Idle
  <2> QED
    BY <1>7, <2>1, <2>2, MergeFacts
<1>8. CASE \E a \in Stations : Read(a) \/ \E v \in Values : Write(a, v)
  BY <1>8, ReadWriteTypes
<1>9. ASSUME NEW s \in Slaves, Restart(s)
      PROVE  TInv'
  <2>1. /\ Fault("restart") /\ UNCHANGED <<ring, socket, scan, calls>>
        /\ station' = [station EXCEPT ![s] = 0] /\ cell' = [cell EXCEPT ![s] = 0]
        /\ may' = [a \in Stations |-> may[a] \cup {0}]
    BY <1>9 DEF Restart, Anywhere
  <2>2. FaultsOK' /\ faults'["late"] = faults["late"]
    <3> USE DEF FaultsOK, Kinds
    <3>1. /\ faults' \in [Kinds -> Nat] /\ faults'["late"] = faults["late"]
          /\ Total(faults') = Total(faults) + 1 /\ Total(faults) < MaxFaults
      BY <2>1 DEF Fault, Total
    <3> QED
      BY <3>1, ScanAssumption DEF Total
  <2>3. SlavesOK'
    BY <2>1, ScanAssumption DEF SlavesOK
  <2>4. SocketOK' /\ DbOK' /\ SlotOK'
    BY <2>1, <2>2 DEF SocketOK, scan, DbOK, SlotOK, Idle
  <2> QED
    BY <2>1, <2>2, <2>3, <2>4 DEF scan
<1>10. CASE UNCHANGED vars
  BY <1>10 DEF vars, slaves, scan, FaultsOK, SocketOK, SlavesOK, DbOK, SlotOK, Idle
<1> QED
  BY <1>1, <1>2, <1>3, <1>4, <1>5, <1>6, <1>7, <1>8, <1>9, <1>10 DEF Next, Scanning

(* The types of Scan: no call leaves the database larger than its array,   *)
(* or with an entry that is not at the place its station says.             *)
THEOREM ScanTypes == Spec => []TypeOK
<1>1. Spec => []TInv
  BY TypeInit, TypeStep, PTL DEF Spec
<1> QED
  BY <1>1, TypesFollow, PTL
-----------------------------------------------------------------------------
(* Names.                                                                  *)

(* A name in the database is one of a device of that vendor and product in *)
(* the files, whichever files were merged in which order.                  *)
LEMMA NamesInit == Init => NamesMatch
  BY EmptyIsSeq DEF Init, NamesMatch

LEMMA NamesStep == TInv /\ NamesMatch /\ [Next]_vars => NamesMatch'
<1> SUFFICES ASSUME TInv, NamesMatch, [Next]_vars PROVE NamesMatch'
  OBVIOUS
<1>1. CASE db' = db
  BY <1>1 DEF NamesMatch
<1>2. CASE db' = <<>>
  BY <1>2, EmptyIsSeq DEF NamesMatch
<1>3. CASE Identify
  <2>1. PICK ans : Identified(ans)
    BY <1>3 DEF Identify
  <2>2. DbOK /\ SlotOK /\ pc \in Identity
    BY <1>3 DEF TInv, Identify
  <2>3. CASE pc = "serial"
    <3>1. /\ \A i \in DOMAIN db : db'[i] = db[i]
          /\ db'[Len(db) + 1].name = ""
          /\ DOMAIN db' = DOMAIN db \cup {Len(db) + 1}
      BY <2>1, <2>2, <2>3, IdentifiedTypes, FieldWritten
    <3>2. \A i \in DOMAIN db' : db'[i].name # "" => i \in DOMAIN db /\ db'[i] = db[i]
      BY <3>1
    <3> HIDE DEF NamesMatch
    <3> QED
      BY <3>2 DEF NamesMatch
  <2>4. CASE pc # "serial"
    BY <1>1, <2>1, <2>4 DEF Identified
  <2> QED
    BY <2>3, <2>4
<1>4. ASSUME NEW list \in Files, MergeEsi(list)
      PROVE  NamesMatch'
  <2> DEFINE lib == EsiLib(list)
  <2> SUFFICES ASSUME NEW i \in DOMAIN db', db'[i].name # ""
               PROVE  \E l \in Files : \E j \in DOMAIN EsiLib(l) :
                        LET dev == EsiLib(l)[j]
                        IN  /\ dev.name = db'[i].name /\ dev.vendor = db'[i].vendor
                            /\ dev.product = db'[i].product
    BY DEF NamesMatch
  <2>1. i \in DOMAIN db /\ db'[i] = Named(db[i], lib) /\ IsEntry(db[i])
    BY <1>4, MergeFacts DEF TInv, DbOK
  <2> HIDE DEF lib
  <2>2. /\ db'[i].vendor = db[i].vendor /\ db'[i].product = db[i].product
        /\ db'[i].name # db[i].name =>
             \E j \in DOMAIN lib : /\ db'[i].name = lib[j].name
                                   /\ Matches(lib[j], db[i])
    <3>1. IsEntry(db[i])
      BY <2>1
    <3>2. LET n == Named(db[i], lib)
          IN  /\ n.vendor = db[i].vendor /\ n.product = db[i].product
              /\ n.name # db[i].name =>
                   \E j \in DOMAIN lib : /\ n.name = lib[j].name
                                         /\ Matches(lib[j], db[i])
      BY <3>1, NamedFacts
    <3> QED
      BY <2>1, <3>2
  <2>3. CASE db'[i].name = db[i].name
    BY <2>1, <2>2, <2>3 DEF NamesMatch
  <2>4. CASE db'[i].name # db[i].name
    <3>1. PICK j \in DOMAIN lib : /\ db'[i].name = lib[j].name
                                  /\ Matches(lib[j], db[i])
      BY <2>2, <2>4
    <3> QED
      BY <1>4, <2>2, <3>1 DEF lib, Matches
  <2> QED
    BY <2>3, <2>4
<1> QED
  BY <1>1, <1>2, <1>3, <1>4
  DEF Next, ScanBegin, Scanning, Assign, Assigned, NewProcess, Drain, Rewire,
      Read, Write, Restart, scan, vars

THEOREM NamesAreTheirs == Spec => []NamesMatch
<1>1. Spec => [](TInv /\ NamesMatch)
  BY TypeInit, NamesInit, TypeStep, NamesStep, PTL DEF Spec
<1> QED  BY <1>1, PTL
-----------------------------------------------------------------------------
(* Places: who answers to a station.                                       *)
Wirings == IF Rewired THEN Rings ELSE {ring}

(* In one of the wirings that may be, the slave has the position.          *)
Owns(s, p) == \E q \in Wirings : s \in SlavesAt(q, p)

(* A slave has no station, or that of a position of its own.               *)
PlacesKept ==
  \A s \in Slaves : station[s] = 0 \/ Owns(s, station[s] - STATION)

LEMMA RingFacts ==
  ASSUME NEW r \in Rings
  PROVE  /\ Len(r) \in Nat /\ DOMAIN r = 1 .. Len(r)
         /\ \A i \in DOMAIN r : r[i] \in Slaves
         /\ \A i, j \in DOMAIN r : r[i] = r[j] => i = j
  BY ScanAssumption DEF IsInjective

LEMMA OneOwner ==
  ASSUME KeepsPlace, SlavesOK, NEW s, NEW t, NEW p \in Nat, NEW m \in Nat,
         Owns(s, p), Owns(t, m)
  PROVE  s = t <=> p = m
<1>1. PICK q \in Wirings, r \in Wirings : s \in SlavesAt(q, p) /\ t \in SlavesAt(r, m)
  BY DEF Owns
<1>2. q \in Rings /\ r \in Rings /\ (Rewired \/ q = r)
  BY DEF Wirings, SlavesOK
<1> QED
  BY <1>1, <1>2 DEF KeepsPlace

LEMMA RingOwns ==
  ASSUME SlavesOK, NEW p, NEW i \in PlacesAt(ring, p)
  PROVE  /\ i \in DOMAIN ring /\ ring[i] \in Slaves
         /\ ring[i] \in SlavesAt(ring, p) /\ Owns(ring[i], p)
<1>1. i \in DOMAIN ring /\ ring[i] \in Slaves /\ ring \in Rings
  BY RingFacts DEF PlacesAt, SlavesOK
<1>2. ring[i] \in SlavesAt(ring, p) /\ ring \in Wirings
  BY <1>1 DEF SlavesAt, Wirings
<1> QED
  BY <1>1, <1>2 DEF Owns

(* One slave at most answers to a station, and it owns the position.       *)
LEMMA StationPlaces ==
  ASSUME KeepsPlace, SlavesOK, PlacesKept, NEW dg, dg.cmd # "APWR",
         NEW p \in Nat, dg.adp = STATION + p
  PROVE  /\ \A i \in Places(dg) : /\ i \in DOMAIN ring /\ ring[i] \in Slaves
                                  /\ Owns(ring[i], p)
         /\ \A i, j \in Places(dg) : i = j
         /\ \A i \in DOMAIN ring : station[ring[i]] = dg.adp => i \in Places(dg)
<1>1. dg.adp # 0 /\ dg.adp - STATION = p
  BY DEF STATION
<1>2. \A i : i \in Places(dg) <=> /\ i \in DOMAIN ring /\ station[ring[i]] # 0
                                  /\ station[ring[i]] = dg.adp
  BY DEF Places
<1>3. ASSUME NEW i \in Places(dg)
      PROVE  i \in DOMAIN ring /\ ring[i] \in Slaves /\ Owns(ring[i], p)
  <2>1. i \in DOMAIN ring /\ ring[i] \in Slaves
    BY <1>2, RingFacts DEF SlavesOK
  <2> QED
    BY <1>1, <1>2, <2>1 DEF PlacesKept
<1>4. ASSUME NEW i \in Places(dg), NEW j \in Places(dg)
      PROVE  i = j
  <2>1. ring[i] = ring[j]
    BY <1>3, OneOwner
  <2> QED
    BY <1>3, <2>1, RingFacts DEF SlavesOK
<1>5. \A i \in DOMAIN ring : station[ring[i]] = dg.adp => i \in Places(dg)
  BY <1>1, <1>2
<1> QED
  BY <1>3, <1>4, <1>5

LEMMA PositionPlaces ==
  ASSUME KeepsPlace, SlavesOK, NEW p \in Nat,
         NEW i \in PlacesAt(ring, p), NEW j \in PlacesAt(ring, p)
  PROVE  i = j
<1>1. ring[i] = ring[j]
  BY RingOwns, OneOwner
<1> QED
  BY <1>1, RingOwns, RingFacts DEF SlavesOK

(* The working counter is 0 where nobody counts.                           *)
LEMMA CountedFacts ==
  ASSUME SlavesOK, NEW places, places \subseteq DOMAIN ring
  PROVE  /\ Counted(places) \subseteq places
         /\ Cardinality(Counted(places)) \in Nat
         /\ Cardinality(Counted(places)) = 0 <=> Counted(places) = {}
<1>1. Counted(places) \subseteq places
  BY DEF Counted
<1>2. DOMAIN ring = 1 .. Len(ring) /\ Len(ring) \in Nat
  BY RingFacts DEF SlavesOK
<1>3. IsFiniteSet(1 .. Len(ring))
  BY <1>2, FS_Interval
<1>4. IsFiniteSet(Counted(places))
  BY <1>1, <1>2, <1>3, FS_Subset
<1> QED
  BY <1>1, <1>4, FS_CardinalityType, FS_EmptySet

(* Where one slave at most serves, its answer is the ring's.               *)
LEMMA AnswerFacts ==
  ASSUME SlavesOK, NEW dg, \A i, j \in Places(dg) : i = j
  PROVE  /\ Answer(dg).cmd = dg.cmd /\ Answer(dg).ado = dg.ado
         /\ Answer(dg).wkc \in Nat
         /\ Answer(dg).wkc >= 1 <=> Counted(Places(dg)) # {}
         /\ Counted(Places(dg)) \subseteq Places(dg)
         /\ \A i \in Places(dg) : dg.cmd = "FPRD" =>
              Answer(dg).data = Held(ring[i], dg.ado)
<1> DEFINE last == CHOOSE i \in Places(dg) : \A j \in Places(dg) : j <= i
           c == Cardinality(Counted(Places(dg)))
<1>1. Answer(dg) =
        [cmd  |-> dg.cmd, ado |-> dg.ado, wkc  |-> c,
         data |-> IF Places(dg) # {} /\ dg.cmd = "FPRD"
                  THEN Held(ring[last], dg.ado) ELSE dg.data]
  BY DEF Answer
<1>2. Places(dg) \subseteq DOMAIN ring /\ DOMAIN ring \subseteq Int
  BY RingFacts DEF Places, PlacesAt, SlavesOK
<1>3. c \in Nat /\ (c = 0 <=> Counted(Places(dg)) = {})
      /\ Counted(Places(dg)) \subseteq Places(dg)
  BY <1>2, CountedFacts
<1>4. ASSUME NEW i \in Places(dg)
      PROVE  last = i
  <2>1. i \in Int /\ \A j \in Places(dg) : j <= i
    BY <1>2
  <2>2. last \in Places(dg)
    BY <2>1
  <2> QED
    BY <2>2
<1> HIDE DEF last, c
<1> QED
  BY <1>1, <1>3, <1>4

(* Every position of the database is a natural number.                     *)
LEMMA StationPosition ==
  ASSUME NEW a \in Stations
  PROVE  /\ a - STATION \in Nat /\ a - STATION < MAX_SLAVES
         /\ a = STATION + (a - STATION)
  BY ScanAssumption DEF Stations, STATION

LEMMA PlacesStep ==
  ASSUME KeepsPlace
  PROVE  TInv /\ PlacesKept /\ [Next]_vars => PlacesKept'
<1> SUFFICES ASSUME TInv, PlacesKept, [Next]_vars PROVE PlacesKept'
  OBVIOUS
<1>1. ASSUME ring' = ring, NEW s, NEW p, Owns(s, p)
      PROVE  Owns(s, p)'
  BY <1>1 DEF Owns, Wirings, SlavesAt, PlacesAt, Arriving
<1>2. CASE UNCHANGED <<ring, station>>
  BY <1>1, <1>2 DEF PlacesKept
<1>3. CASE Assign
  <2> DEFINE dg == [cmd |-> "APWR", adp |-> slot.station - STATION,
                    ado |-> "station", data |-> slot.station]
  <2>1. PICK ans : Exchange(dg, ans)
    BY <1>3 DEF Assign
  <2>2. UNCHANGED slaves \/ Effect(dg)
    BY <2>1, ExchangeFacts DEF TInv
  <2>3. CASE UNCHANGED slaves
    BY <1>2, <2>3 DEF slaves
  <2>4. CASE Effect(dg)
    <3>1. /\ ring' = ring
          /\ \A s \in Slaves : station'[s] = IF s \in Servers(dg)
                                             THEN slot.station ELSE station[s]
      BY <2>4 DEF Effect
    <3>2. \A s \in Servers(dg) : Owns(s, slot.station - STATION)
      BY RingOwns DEF Servers, Places, TInv
    <3> HIDE DEF dg
    <3>3. ASSUME NEW s \in Slaves
          PROVE  station'[s] = 0 \/ Owns(s, station'[s] - STATION)
      BY <3>1, <3>2 DEF PlacesKept
    <3> QED
      BY <1>1, <3>1, <3>3 DEF PlacesKept
  <2> QED
    BY <2>2, <2>3, <2>4
<1>4. ASSUME NEW dg, NEW ans, Exchange(dg, ans), dg.ado # "station"
      PROVE  PlacesKept'
  <2>1. UNCHANGED slaves \/ Effect(dg)
    BY <1>4, ExchangeFacts DEF TInv
  <2>2. ring' = ring /\ station' = station
    BY <1>4, <2>1 DEF slaves, Effect, TInv, SlavesOK
  <2> QED
    BY <1>2, <2>2
<1>5. CASE Rewire
  <2>1. Rewired /\ station' = station
    BY <1>5 DEF Rewire
  <2>2. \A s, p : Owns(s, p) => Owns(s, p)'
    BY <2>1 DEF Owns, Wirings, SlavesAt, PlacesAt, Arriving
  <2> QED
    BY <2>1, <2>2 DEF PlacesKept
<1>6. ASSUME NEW s \in Slaves, Restart(s)
      PROVE  PlacesKept'
  <2>1. ring' = ring /\ \A t \in Slaves : station'[t] \in {0, station[t]}
    BY <1>6 DEF Restart, TInv, SlavesOK
  <2> QED
    BY <1>1, <2>1 DEF PlacesKept
<1>7. CASE Identify
  BY <1>4, <1>7 DEF Identify, Identity
<1>8. ASSUME NEW a \in Stations, Read(a)
      PROVE  PlacesKept'
  BY <1>4, <1>8 DEF Read
<1>9. ASSUME NEW a \in Stations, NEW v \in Values, Write(a, v)
      PROVE  PlacesKept'
  BY <1>4, <1>9 DEF Write
<1> QED
  BY <1>2, <1>3, <1>5, <1>6, <1>7, <1>8, <1>9
  DEF Next, ScanBegin, Scanning, NewProcess, Drain, MergeEsi, slaves, vars

LEMMA PlacesInit == Init => PlacesKept
  BY DEF Init, PlacesKept
-----------------------------------------------------------------------------
(* Reads and writes by hand.                                               *)
CellsKnown ==
  \A s \in Slaves : \A p \in 0 .. MAX_SLAVES - 1 :
    Owns(s, p) => cell[s] \in may[STATION + p]
GotKnown == got.ok => got.station \in Stations /\ got.data \in may[got.station]
RInv == faults["late"] = 0 => CellsKnown /\ GotKnown

LEMMA PositionStation ==
  ASSUME NEW p \in 0 .. MAX_SLAVES - 1
  PROVE  p \in Nat /\ STATION + p \in Stations
  BY ScanAssumption DEF Stations, STATION

LEMMA ReadInit == Init => RInv
<1> SUFFICES ASSUME Init PROVE CellsKnown /\ GotKnown
  BY DEF RInv
<1> QED
  BY PositionStation DEF Init, CellsKnown, GotKnown, NoRead

LEMMA ReadOwn ==
  ASSUME KeepsPlace, TInv, PlacesKept, RInv, NEW a \in Stations, Read(a)
  PROVE  RInv'
<1> DEFINE dg == [cmd |-> "FPRD", adp |-> a, ado |-> "cell", data |-> 0]
           p == a - STATION
<1>1. PICK ans : /\ Exchange(dg, ans)
                 /\ got' = [station |-> a, ok |-> ans.wkc >= 1,
                            data |-> IF ans.wkc >= 1 THEN Copied(ans) ELSE 0]
  BY DEF Read
<1>2. /\ UNCHANGED slaves \/ Effect(dg)
      /\ faults'["late"] = 0 =>
           /\ faults["late"] = 0
           /\ ans = NoAnswer \/ ans = Answer(dg)
  BY <1>1, ExchangeFacts DEF TInv
<1>3. ring' = ring /\ cell' = cell /\ may' = may
  BY <1>2 DEF slaves, Effect, TInv, SlavesOK, Read
<1>4. p \in Nat /\ p \in 0 .. MAX_SLAVES - 1 /\ dg.adp = STATION + p
  BY StationPosition, ScanAssumption
<1>5. /\ \A i \in Places(dg) : ring[i] \in Slaves /\ Owns(ring[i], p)
      /\ \A i, j \in Places(dg) : i = j
  BY <1>4, StationPlaces DEF TInv
<1> SUFFICES ASSUME faults'["late"] = 0 PROVE CellsKnown' /\ GotKnown'
  BY DEF RInv
<1>6. CellsKnown'
  BY <1>2, <1>3 DEF RInv, CellsKnown, Owns, Wirings, SlavesAt, PlacesAt, Arriving
<1>7. ASSUME ans.wkc >= 1
      PROVE  Copied(ans) \in may[a]
  <2>1. ans = Answer(dg)
    BY <1>2, <1>7 DEF NoAnswer
  <2>2. PICK i : i \in Places(dg) /\ Answer(dg).data = Held(ring[i], "cell")
    BY <1>5, <1>7, <2>1, AnswerFacts DEF TInv
  <2>3. Answer(dg).ado = "cell"
    BY <1>5, AnswerFacts DEF TInv
  <2>4. cell[ring[i]] \in may[a]
    BY <1>2, <1>4, <1>5, <2>2 DEF RInv, CellsKnown
  <2> HIDE DEF dg
  <2> QED
    BY <2>1, <2>2, <2>3, <2>4 DEF Copied, Held
<1>8. GotKnown'
  BY <1>1, <1>3, <1>7 DEF GotKnown
<1> QED
  BY <1>6, <1>8

LEMMA WriteOwn ==
  ASSUME KeepsPlace, TInv, PlacesKept, RInv,
         NEW a \in Stations, NEW v \in Values, Write(a, v)
  PROVE  RInv'
<1> DEFINE dg == [cmd |-> "FPWR", adp |-> a, ado |-> "cell", data |-> v]
           p == a - STATION
<1>1. PICK ans : /\ Exchange(dg, ans)
                 /\ may' = [may EXCEPT ![a] = IF ans.wkc >= 1 THEN {v}
                                              ELSE @ \cup {v}]
  BY DEF Write
<1>2. /\ UNCHANGED slaves \/ Effect(dg)
      /\ faults'["late"] = 0 =>
           /\ faults["late"] = 0
           /\ ans = NoAnswer \/ (ans = Answer(dg) /\ Effect(dg))
  BY <1>1, ExchangeFacts DEF TInv
<1>3. p \in Nat /\ p \in 0 .. MAX_SLAVES - 1 /\ a = STATION + p
  BY StationPosition, ScanAssumption
<1>4. /\ \A i \in Places(dg) : ring[i] \in Slaves /\ Owns(ring[i], p)
      /\ \A i, j \in Places(dg) : i = j
  BY <1>3, StationPlaces DEF TInv
<1>5. \A s \in Servers(dg) : Owns(s, p)
  BY <1>4 DEF Servers
<1>6. /\ ring' = ring
      /\ \A s \in Slaves : cell'[s] # cell[s] => s \in Servers(dg) /\ cell'[s] = v
      /\ Effect(dg) => \A s \in Slaves : s \in Servers(dg) => cell'[s] = v
  BY <1>2 DEF slaves, Effect
<1> SUFFICES ASSUME faults'["late"] = 0 PROVE CellsKnown' /\ GotKnown'
  BY DEF RInv
<1>7. ans.wkc >= 1 => Effect(dg) /\ \E s \in Slaves : s \in Servers(dg)
  <2>1. Answer(dg).wkc >= 1 => Places(dg) # {}
    BY <1>4, AnswerFacts DEF TInv
  <2> QED
    BY <1>2, <1>4, <2>1 DEF NoAnswer, Servers
<1> HIDE DEF dg, p
<1>8. ASSUME NEW t \in Slaves, NEW m \in 0 .. MAX_SLAVES - 1, Owns(t, m)
      PROVE  cell'[t] \in may'[STATION + m]
  <2>1. m \in Nat /\ STATION + m \in Stations /\ cell[t] \in may[STATION + m]
    BY <1>2, <1>8, PositionStation DEF RInv, CellsKnown
  <2>2. may \in [Stations -> SUBSET Values]
    BY DEF TInv, SlavesOK
  <2>3. \A s \in Servers(dg) : s = t <=> p = m
    BY <1>3, <1>5, <1>8, <2>1, OneOwner DEF TInv
  <2>4. CASE m = p
    <3>1. ans.wkc >= 1 => cell'[t] = v
      BY <1>6, <1>7, <2>3, <2>4
    <3>2. cell'[t] \in {cell[t], v}
      BY <1>6
    <3>3. may'[a] = IF ans.wkc >= 1 THEN {v} ELSE may[a] \cup {v}
      BY <1>1, <2>2
    <3>4. cell'[t] \in may'[a]
      BY <1>3, <2>1, <2>4, <3>1, <3>2, <3>3
    <3> QED
      BY <1>3, <2>4, <3>4
  <2>5. CASE m # p
    <3>1. cell'[t] = cell[t]
      BY <1>6, <2>3, <2>5
    <3>2. STATION + m # a
      BY <1>3, <2>1, <2>5 DEF STATION
    <3> QED
      BY <1>1, <2>1, <2>2, <3>1, <3>2
  <2> QED
    BY <2>4, <2>5
<1>9. CellsKnown'
  BY <1>6, <1>8 DEF CellsKnown, Owns, Wirings, SlavesAt, PlacesAt, Arriving
<1>10. GotKnown'
  BY DEF Write, GotKnown, NoRead
<1> QED
  BY <1>9, <1>10

LEMMA ReadStep ==
  ASSUME KeepsPlace
  PROVE  TInv /\ PlacesKept /\ RInv /\ [Next]_vars => RInv'
<1> SUFFICES ASSUME TInv, PlacesKept, RInv, [Next]_vars PROVE RInv'
  OBVIOUS
<1>1. ASSUME ring' = ring, NEW s, NEW p, Owns(s, p)'
      PROVE  Owns(s, p)
  BY <1>1 DEF Owns, Wirings, SlavesAt, PlacesAt, Arriving
<1>2. CASE UNCHANGED <<ring, cell, may, faults>> /\ got' \in {got, NoRead}
  BY <1>1, <1>2 DEF RInv, CellsKnown, GotKnown, NoRead
<1>3. ASSUME NEW dg, NEW ans, Exchange(dg, ans), dg.ado # "cell",
             UNCHANGED <<got, may>>
      PROVE  RInv'
  <2>1. /\ UNCHANGED slaves \/ Effect(dg)
        /\ faults'["late"] = 0 => faults["late"] = 0
    BY <1>3, ExchangeFacts DEF TInv
  <2>2. ring' = ring /\ cell' = cell
    BY <1>3, <2>1 DEF slaves, Effect, TInv, SlavesOK
  <2> QED
    BY <1>1, <1>3, <2>1, <2>2 DEF RInv, CellsKnown, GotKnown
<1>4. CASE Rewire
  <2>1. /\ may' = [a \in Stations |-> Values] /\ UNCHANGED <<cell, got, faults>>
        /\ cell \in [Slaves -> Values] /\ may \in [Stations -> SUBSET Values]
    BY <1>4 DEF Rewire, TInv, SlavesOK
  <2>2. CellsKnown'
    BY <2>1, PositionStation DEF CellsKnown
  <2>3. GotKnown => GotKnown'
    BY <2>1 DEF GotKnown
  <2> QED
    BY <2>1, <2>2, <2>3 DEF RInv
<1>5. ASSUME NEW s \in Slaves, Restart(s)
      PROVE  RInv'
  <2>1. /\ UNCHANGED <<ring, got>> /\ cell' = [cell EXCEPT ![s] = 0]
        /\ may' = [a \in Stations |-> may[a] \cup {0}]
        /\ faults' = [faults EXCEPT !["restart"] = @ + 1]
    BY <1>5 DEF Restart, Anywhere, Fault
  <2>2. faults'["late"] = faults["late"]
    BY <2>1 DEF TInv, FaultsOK, Kinds
  <2>3. \A t \in Slaves : cell'[t] \in {cell[t], 0}
    BY <2>1 DEF TInv, SlavesOK
  <2>4. CellsKnown => CellsKnown'
    BY <1>1, <2>1, <2>3, PositionStation DEF CellsKnown
  <2>5. GotKnown => GotKnown'
    BY <2>1 DEF GotKnown
  <2> QED
    BY <2>2, <2>4, <2>5 DEF RInv
<1>6. CASE Assign
  BY <1>3, <1>6 DEF Assign
<1>7. CASE Identify
  BY <1>3, <1>7 DEF Identify, Identity
<1> QED
  BY <1>2, <1>4, <1>5, <1>6, <1>7, ReadOwn, WriteOwn
  DEF Next, ScanBegin, Scanning, NewProcess, Drain, MergeEsi, slaves, vars

(* A successful read by hand returns what was last written successfully to *)
(* that station, or what a failed write or a restart since may have left.  *)
THEOREM ReadsAreWritten ==
  ASSUME KeepsPlace
  PROVE  Spec => []ReadsWritten
<1> DEFINE PInv == TInv /\ PlacesKept /\ RInv
<1>1. PInv => ReadsWritten
  BY DEF RInv, GotKnown, ReadsWritten
<1>2. Init => PInv
  BY TypeInit, PlacesInit, ReadInit
<1>3. PInv /\ [Next]_vars => PInv'
  BY TypeStep, PlacesStep, ReadStep
<1> QED
  BY <1>1, <1>2, <1>3, PTL DEF Spec
-----------------------------------------------------------------------------
(* Whose identity an entry holds.                                          *)
Asked == [cmd |-> "FPRD", adp |-> slot.station, ado |-> pc, data |-> 0]

OwnEntries == \A i \in DOMAIN db : \A f \in Identity : Own(db[i], f)
OwnSlot == \A f \in Identity : Own(slot, f)

(* The scan reads on where a slave took the address.                       *)
SomeoneThere == pc \in Identity => SlavesAt(ring, Len(db)) # {}
OwnInv == ~Idle /\ faults["late"] = 0 => OwnEntries /\ OwnSlot /\ SomeoneThere

LEMMA SlotPosition ==
  ASSUME TInv, ~Idle
  PROVE  /\ Len(db) \in Nat /\ Len(db) < MAX_SLAVES
         /\ slot.station = STATION + Len(db) /\ slot.station - STATION = Len(db)
         /\ DOMAIN db = 1 .. Len(db)
<1>1. Len(db) \in Nat /\ DOMAIN db = 1 .. Len(db)
  BY SeqLen DEF TInv, DbOK
<1>2. Len(db) < MAX_SLAVES /\ slot.station = STATION + Len(db)
  BY DEF TInv, SlotOK
<1> QED
  BY <1>1, <1>2 DEF STATION

(* What a read of the scan leaves in its field: whoever answers is the     *)
(* slave in that position.                                                 *)
LEMMA FieldRead ==
  ASSUME KeepsPlace, TInv, PlacesKept, pc \in Identity, NEW ans,
         ans = NoAnswer \/ ans = Answer(Asked)
  PROVE  LET w == WithField(ans)
         IN  /\ \A s \in SlavesAt(ring, Len(db)) :
                  w[pc] = 0 \/ w[pc] = IdentityOf[s][pc]
             /\ \A i \in PlacesAt(ring, Len(db)) :
                  /\ ans = Answer(Asked) /\ station[ring[i]] = slot.station
                  /\ \A j \in DOMAIN ring : j > i => ring[j] \notin Library
                  => w[pc] = IdentityOf[ring[i]][pc]
<1> DEFINE w == WithField(ans)
           p == Len(db)
           dg == Asked
<1>1. /\ p \in Nat /\ dg.adp = STATION + p /\ dg.cmd = "FPRD" /\ dg.ado = pc
      /\ dg.adp = slot.station
  BY SlotPosition DEF Asked, Idle, Identity
<1> HIDE DEF dg, p
<1>2. /\ \A i \in Places(dg) : i \in DOMAIN ring /\ Owns(ring[i], p)
      /\ \A i, j \in Places(dg) : i = j
      /\ \A i \in DOMAIN ring : station[ring[i]] = slot.station => i \in Places(dg)
  BY <1>1, StationPlaces DEF TInv
<1>3. w[pc] = IF ans.wkc >= 1 THEN Copied(ans) ELSE 0
  BY FieldWritten DEF TInv
<1>4. ASSUME ans = Answer(dg), NEW i \in Places(dg)
      PROVE  Copied(ans) = IdentityOf[ring[i]][pc]
  <2>1. ans.ado = pc /\ ans.data = Held(ring[i], pc)
    BY <1>1, <1>2, <1>4, AnswerFacts DEF TInv
  <2> QED
    BY <2>1 DEF Copied, Held, Identity
<1>5. ASSUME NEW s \in SlavesAt(ring, p), ans.wkc >= 1
      PROVE  Copied(ans) = IdentityOf[s][pc]
  <2>1. ans = Answer(dg)
    BY <1>5 DEF NoAnswer, dg
  <2>2. PICK i : i \in Places(dg)
    BY <1>2, <1>5, <2>1, AnswerFacts DEF TInv
  <2>3. ring \in Wirings
    BY DEF TInv, SlavesOK, Wirings
  <2>4. Owns(s, p) /\ Owns(ring[i], p)
    BY <1>2, <1>5, <2>2, <2>3 DEF Owns
  <2>5. s = ring[i]
    BY <1>1, <2>4, OneOwner DEF TInv
  <2> QED
    BY <1>4, <2>1, <2>2, <2>5
<1>6. ASSUME NEW i \in PlacesAt(ring, p), ans = Answer(dg),
             station[ring[i]] = slot.station,
             \A j \in DOMAIN ring : j > i => ring[j] \notin Library
      PROVE  w[pc] = IdentityOf[ring[i]][pc]
  <2>1. i \in DOMAIN ring /\ i \in Places(dg)
    BY <1>2, <1>6, RingOwns DEF TInv
  <2>2. i \in Counted(Places(dg))
    BY <1>6, <2>1 DEF Counted
  <2>3. ans.wkc >= 1
    BY <1>2, <1>6, <2>2, AnswerFacts DEF TInv
  <2> QED
    BY <1>3, <1>4, <1>6, <2>1, <2>3
<1> HIDE DEF w
<1>7. \A s \in SlavesAt(ring, p) : w[pc] = 0 \/ w[pc] = IdentityOf[s][pc]
  BY <1>3, <1>5
<1> QED
  BY <1>6, <1>7 DEF w, p, dg

LEMMA OwnInit == Init => OwnInv
  BY DEF Init, Idle, OwnInv

(* On a ring that stays, the invariant of the next state in terms of this  *)
(* one's ring.                                                             *)
LEMMA RingStays ==
  ASSUME ring' = ring
  PROVE  /\ OwnEntries' <=> \A i \in DOMAIN db' : \A f \in Identity : Own(db'[i], f)
         /\ OwnSlot' <=> \A f \in Identity : Own(slot', f)
         /\ SomeoneThere' <=> (pc' \in Identity => SlavesAt(ring, Len(db')) # {})
  BY DEF OwnEntries, OwnSlot, SomeoneThere, Own, SlavesAt, PlacesAt, Arriving

(* A step of a scan.                                                       *)
LEMMA OwnScanStep ==
  ASSUME KeepsPlace, TInv, PlacesKept, OwnInv, [Next]_vars, ~Idle,
         faults'["late"] = 0
  PROVE  ring' = ring /\ OwnEntries' /\ OwnSlot' /\ SomeoneThere'
<1>1. CASE UNCHANGED <<ring, db, slot, pc>> /\ faults["late"] = 0
  BY <1>1, RingStays DEF OwnInv, OwnEntries, OwnSlot, SomeoneThere
<1>2. CASE Assign
  <2> DEFINE dg == [cmd |-> "APWR", adp |-> slot.station - STATION,
                    ado |-> "station", data |-> slot.station]
  <2>1. PICK ans : Exchange(dg, ans) /\ Assigned(ans)
    BY <1>2 DEF Assign
  <2>2. /\ UNCHANGED slaves \/ Effect(dg)
        /\ faults["late"] = 0 /\ (ans = NoAnswer \/ ans = Answer(dg))
    BY <2>1, ExchangeFacts DEF TInv
  <2>3. /\ UNCHANGED <<ring, db, slot>>
        /\ pc' = IF ans.wkc >= 1 THEN "vendor" ELSE "idle"
    BY <2>1, <2>2 DEF Assigned, slaves, Effect
  <2>4. OwnEntries /\ OwnSlot
    BY <2>2 DEF OwnInv
  <2>5. OwnEntries' /\ OwnSlot'
    BY <2>3, <2>4, RingStays DEF OwnEntries, OwnSlot
  <2>6. Len(db) \in Nat /\ slot.station - STATION = Len(db)
    BY SlotPosition
  <2>7. Places(dg) = PlacesAt(ring, Len(db))
    BY <2>6 DEF Places
  <2>8. \A i, j \in Places(dg) : i = j
    BY <2>6, <2>7, PositionPlaces DEF TInv
  <2>9. ans.wkc >= 1 => Places(dg) # {}
    BY <2>2, <2>8, AnswerFacts DEF TInv, NoAnswer
  <2>10. ans.wkc >= 1 => SlavesAt(ring, Len(db)) # {}
    BY <2>7, <2>9 DEF SlavesAt
  <2> QED
    BY <2>3, <2>5, <2>10, RingStays DEF Identity
<1>3. CASE Identify
  <2>1. PICK ans : Exchange(Asked, ans) /\ Identified(ans)
    BY <1>3 DEF Identify, Asked
  <2> DEFINE w == WithField(ans)
             p == Len(db)
  <2>2. /\ UNCHANGED slaves \/ Effect(Asked)
        /\ faults["late"] = 0 /\ (ans = NoAnswer \/ ans = Answer(Asked))
    BY <2>1, ExchangeFacts DEF TInv
  <2>3. ring' = ring /\ pc \in Identity /\ OwnEntries /\ OwnSlot /\ SomeoneThere
    BY <1>3, <2>2 DEF Identify, slaves, Effect, OwnInv
  <2>4. PICK s : s \in SlavesAt(ring, p)
    BY <2>3 DEF SomeoneThere
  <2>5. /\ w.station = slot.station
        /\ \A f \in Identity : f # pc => w[f] = slot[f]
        /\ w[pc] = 0 \/ w[pc] = IdentityOf[s][pc]
    BY <2>2, <2>3, <2>4, FieldWritten, FieldRead DEF TInv
  <2>6. slot.station - STATION = p /\ p \in Nat
    BY SlotPosition
  <2> HIDE DEF w, p
  <2>7. \A f \in Identity : Own(w, f)
    BY <2>3, <2>4, <2>5, <2>6 DEF Own, OwnSlot
  <2>8. CASE pc = "serial"
    <3>1. /\ \A i \in DOMAIN db : db'[i] = db[i]
          /\ db'[p + 1] = w /\ DOMAIN db' = DOMAIN db \cup {p + 1}
      BY <2>1, <2>3, <2>8, IdentifiedTypes DEF TInv, w, p
    <3>2. \A i \in DOMAIN db' : \A f \in Identity : Own(db'[i], f)
      BY <2>3, <2>7, <3>1 DEF OwnEntries
    <3>3. \A f \in Identity : slot'[f] = 0
      <4>1. slot' = Entry(slot.station + 1)
        BY <2>1, <2>8 DEF Identified
      <4> QED
        BY <4>1, NewEntry
    <3>4. pc' \notin Identity
      BY <2>1, <2>8 DEF Identified, Identity
    <3> QED
      BY <2>3, <3>2, <3>3, <3>4, RingStays DEF Own
  <2>9. CASE pc # "serial"
    <3>1. db' = db /\ slot' = w
      BY <2>1, <2>9 DEF Identified, w
    <3> QED
      BY <2>3, <2>7, <3>1, RingStays DEF OwnEntries, SomeoneThere
  <2> QED
    BY <2>8, <2>9
<1>4. ASSUME NEW s \in Slaves, Restart(s)
      PROVE  UNCHANGED <<ring, db, slot, pc>> /\ faults["late"] = 0
  BY <1>4 DEF Restart, Fault, scan, TInv, FaultsOK, Kinds
<1>5. CASE Drain \/ UNCHANGED vars
  BY <1>1, <1>5 DEF Drain, slaves, scan, vars
<1> QED
  BY <1>1, <1>2, <1>3, <1>4, <1>5
  DEF Next, Scanning, ScanBegin, NewProcess, Rewire, MergeEsi, Read, Write

LEMMA OwnStep ==
  ASSUME KeepsPlace
  PROVE  TInv /\ PlacesKept /\ OwnInv /\ [Next]_vars => OwnInv'
<1> SUFFICES ASSUME TInv, PlacesKept, OwnInv, [Next]_vars, ~Idle',
                    faults'["late"] = 0
             PROVE  OwnEntries' /\ OwnSlot' /\ SomeoneThere'
  BY DEF OwnInv
<1>1. CASE ~Idle
  BY <1>1, OwnScanStep
<1>2. CASE Idle
  <2>1. ScanBegin
    BY <1>2 DEF Next, Scanning, Assign, Identify, Identity, NewProcess, Drain,
       Rewire, MergeEsi, Read, Write, Restart, Idle, scan, vars
  <2>2. db' = <<>> /\ slot' = Entry(STATION) /\ pc' \notin Identity
    BY <2>1 DEF ScanBegin, Identity
  <2> QED
    BY <2>2, EmptyIsSeq, NewEntry DEF OwnEntries, OwnSlot, Own, SomeoneThere
<1> QED
  BY <1>1, <1>2

(* What an entry has of an identity is that of the slave in its position,  *)
(* whatever was lost and whoever restarted.                                *)
THEOREM IdentitiesAreOwn ==
  ASSUME KeepsPlace
  PROVE  Spec => IdentityOwn
<1> DEFINE PInv == TInv /\ PlacesKept /\ OwnInv
           Step == ~Idle /\ faults'["late"] = 0 =>
                     \A i \in DOMAIN db' : \A f \in Identity : Own(db'[i], f)
<1>1. Init => PInv
  BY TypeInit, PlacesInit, OwnInit
<1>2. PInv /\ [Next]_vars => PInv'
  BY TypeStep, PlacesStep, OwnStep
<1>3. PInv /\ [Next]_vars => [Step]_vars
  BY OwnScanStep, RingStays
<1> QED
  BY <1>1, <1>2, <1>3, PTL DEF Spec, IdentityOwn
-----------------------------------------------------------------------------
(* Scans without faults.                                                   *)
ReadAll == \A i \in DOMAIN db : Whole(db[i], i - 1)

(* The fields of the slot that a scan has read before it reads pc.         *)
FieldsBefore ==
  [vendor |-> {}, product |-> {"vendor"}, revision |-> {"vendor", "product"},
   serial |-> {"vendor", "product", "revision"}]

(* The slave in place i counts, and answers to the slot's station.         *)
Counts(i) == \A j \in DOMAIN ring : j > i => ring[j] \notin Library
SlotExact ==
  pc \in Identity => \E i \in PlacesAt(ring, Len(db)) :
    /\ Counts(i) /\ station[ring[i]] = slot.station
    /\ \A f \in FieldsBefore[pc] : slot[f] = IdentityOf[ring[i]][f]

CInv == ~Idle /\ Total(faults) = 0 => ReadAll /\ SlotExact

(* What ScanReadsAll says of the end, once it is the next state.           *)
EndsWhole == /\ \A i \in DOMAIN db' : Whole(db'[i], i - 1)
             /\ \/ Len(db') = MAX_SLAVES
                \/ Counted(PlacesAt(ring, Len(db'))) = {}

LEMMA RingStaysToo ==
  ASSUME ring' = ring
  PROVE  /\ ReadAll' <=> \A i \in DOMAIN db' : Whole(db'[i], i - 1)
         /\ SlotExact' <=>
              (pc' \in Identity => \E i \in PlacesAt(ring, Len(db')) :
                 /\ Counts(i) /\ station'[ring[i]] = slot'.station
                 /\ \A f \in FieldsBefore[pc'] :
                      slot'[f] = IdentityOf[ring[i]][f])
  BY DEF ReadAll, SlotExact, Counts, Whole, SlavesAt, PlacesAt, Arriving

LEMMA AssignComplete ==
  ASSUME KeepsPlace, TInv, CInv, Assign, Total(faults') = 0
  PROVE  /\ ring' = ring /\ ReadAll' /\ SlotExact'
         /\ pc' = "idle" => EndsWhole
<1> DEFINE dg == [cmd |-> "APWR", adp |-> slot.station - STATION,
                  ado |-> "station", data |-> slot.station]
           p == Len(db)
<1>1. PICK ans : Exchange(dg, ans) /\ Assigned(ans)
  BY DEF Assign
<1>2. Total(faults) = 0 /\ ans = Answer(dg) /\ Effect(dg)
  BY <1>1, ExchangeFacts DEF TInv
<1>3. p \in Nat /\ dg.adp = p
  BY SlotPosition DEF Assign, Idle
<1>4. /\ ring' = ring /\ UNCHANGED <<db, slot>> /\ ReadAll
      /\ pc' = IF ans.wkc >= 1 THEN "vendor" ELSE "idle"
  BY <1>1, <1>2 DEF Effect, Assigned, CInv, Assign, Idle
<1>5. ReadAll' /\ \A i \in DOMAIN db' : Whole(db'[i], i - 1)
  BY <1>4, RingStaysToo DEF ReadAll
<1>6. Places(dg) = PlacesAt(ring, p)
  BY <1>3 DEF Places
<1>7. ans.wkc >= 1 <=> Counted(PlacesAt(ring, p)) # {}
  <2>1. \A i, j \in Places(dg) : i = j
    BY <1>3, <1>6, PositionPlaces DEF TInv
  <2> QED
    BY <1>2, <1>6, <2>1, AnswerFacts DEF TInv
<1>8. ASSUME NEW i \in Counted(PlacesAt(ring, p))
      PROVE  /\ i \in PlacesAt(ring, p) /\ Counts(i)
             /\ station'[ring[i]] = slot'.station
  <2>1. i \in PlacesAt(ring, p) /\ Counts(i)
    BY DEF Counted, Counts
  <2>2. ring[i] \in Servers(dg) /\ ring[i] \in Slaves
    BY <1>6, <2>1, RingOwns DEF Servers, TInv
  <2> QED
    BY <1>2, <1>4, <2>1, <2>2 DEF Effect
<1>9. SlotExact'
  <2>1. CASE ans.wkc >= 1
    <3>1. PICK i : i \in Counted(PlacesAt(ring, p))
      BY <1>7, <2>1
    <3>2. pc' = "vendor" /\ FieldsBefore[pc'] = {} /\ Len(db') = p
      BY <1>4, <2>1 DEF FieldsBefore
    <3> HIDE DEF p
    <3> QED
      BY <1>4, <1>8, <3>1, <3>2, RingStaysToo
  <2>2. CASE ~(ans.wkc >= 1)
    BY <1>4, <2>2, RingStaysToo DEF Identity
  <2> QED
    BY <2>1, <2>2
<1>10. pc' = "idle" => EndsWhole
  BY <1>4, <1>5, <1>7 DEF EndsWhole
<1> QED
  BY <1>4, <1>5, <1>9, <1>10

LEMMA IdentifyComplete ==
  ASSUME KeepsPlace, TInv, PlacesKept, CInv, Identify, Total(faults') = 0
  PROVE  /\ ring' = ring /\ ReadAll' /\ SlotExact'
         /\ pc' = "idle" => EndsWhole
<1> DEFINE p == Len(db)
<1>1. PICK ans : Exchange(Asked, ans) /\ Identified(ans)
  BY DEF Identify, Asked
<1> DEFINE w == WithField(ans)
<1>2. Total(faults) = 0 /\ ans = Answer(Asked) /\ Effect(Asked)
  BY <1>1, ExchangeFacts DEF TInv
<1>3. pc \in Identity /\ ring' = ring /\ station' = station
  BY <1>2 DEF Identify, Identity, Effect, Asked, TInv, SlavesOK
<1>4. ReadAll /\ SlotExact
  BY <1>2, <1>3 DEF CInv, Idle, Identity
<1>5. PICK i \in PlacesAt(ring, p) :
        /\ Counts(i) /\ station[ring[i]] = slot.station
        /\ \A f \in FieldsBefore[pc] : slot[f] = IdentityOf[ring[i]][f]
  BY <1>3, <1>4 DEF SlotExact
<1>6. /\ w.station = slot.station
      /\ \A f \in Identity : f # pc => w[f] = slot[f]
      /\ w[pc] = IdentityOf[ring[i]][pc]
  <2>1. w.station = slot.station /\ \A f \in Identity : f # pc => w[f] = slot[f]
    BY <1>3, FieldWritten DEF TInv
  <2>2. w[pc] = IdentityOf[ring[i]][pc]
    BY <1>2, <1>3, <1>5, FieldRead DEF Counts
  <2> QED
    BY <2>1, <2>2
<1>7. p \in Nat /\ p < MAX_SLAVES
  BY <1>3, SlotPosition DEF Idle, Identity
<1>8. CASE pc = "serial"
  <2>1. Whole(w, p)
    <3>1. \A f \in Identity : w[f] = IdentityOf[ring[i]][f]
      BY <1>5, <1>6, <1>8 DEF FieldsBefore, Identity
    <3> HIDE DEF w, p
    <3> QED
      BY <1>5, <3>1 DEF Whole, SlavesAt
  <2>2. /\ \A k \in DOMAIN db : db'[k] = db[k]
        /\ db'[p + 1] = w /\ DOMAIN db' = DOMAIN db \cup {p + 1}
    BY <1>1, <1>3, <1>8, IdentifiedTypes DEF TInv
  <2>3. pc' = IF Len(db') = MAX_SLAVES THEN "idle" ELSE "assign"
    BY <1>1, <1>8 DEF Identified
  <2> HIDE DEF w, p
  <2>4. \A k \in DOMAIN db' : Whole(db'[k], k - 1)
    <3>1. \A k \in DOMAIN db : Whole(db'[k], k - 1)
      BY <1>4, <2>2 DEF ReadAll
    <3> SUFFICES ASSUME NEW k \in DOMAIN db' PROVE Whole(db'[k], k - 1)
      OBVIOUS
    <3>2. k \in DOMAIN db \/ k = p + 1
      BY <2>2
    <3>3. CASE k = p + 1
      <4>1. k - 1 = p /\ db'[k] = w
        BY <1>7, <2>2, <3>3
      <4> QED
        BY <2>1, <4>1
    <3> QED
      BY <3>1, <3>2, <3>3
  <2>5. ReadAll' /\ SlotExact'
    BY <1>3, <2>3, <2>4, RingStaysToo DEF Identity
  <2>6. pc' = "idle" => EndsWhole
    BY <2>3, <2>4 DEF EndsWhole
  <2> QED
    BY <1>3, <2>5, <2>6
<1>9. CASE pc # "serial"
  <2>1. db' = db /\ slot' = w /\ pc' = FieldAfter[pc]
    BY <1>1, <1>9 DEF Identified
  <2>2. pc' # "idle" /\ FieldsBefore[pc'] = FieldsBefore[pc] \cup {pc}
        /\ FieldsBefore[pc] \subseteq Identity \ {pc}
    BY <1>3, <1>9, <2>1 DEF FieldAfter, FieldsBefore, Identity
  <2> HIDE DEF w
  <2>3. \A f \in FieldsBefore[pc'] : slot'[f] = IdentityOf[ring[i]][f]
    BY <1>5, <1>6, <2>1, <2>2
  <2>4. SlotExact'
    BY <1>3, <1>5, <1>6, <2>1, <2>3, RingStaysToo
  <2>5. ReadAll'
    BY <1>3, <1>4, <2>1, RingStaysToo DEF ReadAll
  <2> QED
    BY <1>3, <2>2, <2>4, <2>5
<1> QED
  BY <1>8, <1>9

LEMMA CompleteStep ==
  ASSUME KeepsPlace, TInv, PlacesKept, CInv, [Next]_vars, ~Idle,
         Total(faults') = 0
  PROVE  /\ ring' = ring /\ ReadAll' /\ SlotExact'
         /\ pc' = "idle" => EndsWhole
<1>1. CASE UNCHANGED <<slaves, pc, db, slot, faults>>
  <2>1. ring' = ring /\ station' = station /\ ReadAll /\ SlotExact /\ pc' # "idle"
    BY <1>1 DEF CInv, Idle, slaves
  <2> QED
    BY <1>1, <2>1, RingStaysToo DEF ReadAll, SlotExact
<1>2. ASSUME NEW s \in Slaves, Restart(s)
      PROVE  FALSE
  <2>1. faults' = [faults EXCEPT !["restart"] = @ + 1]
    BY <1>2 DEF Restart, Fault
  <2> QED
    BY <2>1 DEF TInv, FaultsOK, Kinds, Total
<1>3. CASE Drain \/ UNCHANGED vars
  BY <1>1, <1>3 DEF Drain, scan, vars
<1> QED
  BY <1>2, <1>3, AssignComplete, IdentifyComplete
  DEF Next, Scanning, ScanBegin, NewProcess, Rewire, MergeEsi, Read, Write

LEMMA CompleteInvStep ==
  ASSUME KeepsPlace
  PROVE  TInv /\ PlacesKept /\ CInv /\ [Next]_vars => CInv'
<1> SUFFICES ASSUME TInv, PlacesKept, CInv, [Next]_vars, ~Idle', Total(faults') = 0
             PROVE  ReadAll' /\ SlotExact'
  BY DEF CInv
<1>1. CASE ~Idle
  BY <1>1, CompleteStep
<1>2. CASE Idle
  <2>1. ScanBegin
    BY <1>2 DEF Next, Scanning, Assign, Identify, Identity, NewProcess, Drain,
       Rewire, MergeEsi, Read, Write, Restart, Idle, scan, vars
  <2>2. db' = <<>> /\ pc' \notin Identity
    BY <2>1 DEF ScanBegin, Identity
  <2> QED
    BY <2>2, EmptyIsSeq DEF ReadAll, SlotExact
<1> QED
  BY <1>1, <1>2

(* Without faults, a scan that ends has read the whole identity of the     *)
(* slave in every position it assigned, whatever stations were left from   *)
(* before, and stopped only where the database was full or nobody counted. *)
THEOREM ScansReadAll ==
  ASSUME KeepsPlace
  PROVE  Spec => ScanReadsAll
<1> DEFINE PInv == TInv /\ PlacesKept /\ CInv
           Step == ScanDone =>
                   /\ \A i \in DOMAIN db' : Whole(db'[i], i - 1)
                   /\ \/ Len(db') = MAX_SLAVES
                      \/ Counted(PlacesAt(ring, Len(db'))) = {}
<1>1. Init => PInv
  <2>1. Init => CInv
    BY DEF Init, CInv, Idle
  <2> QED
    BY <2>1, TypeInit, PlacesInit
<1>2. PInv /\ [Next]_vars => PInv'
  BY TypeStep, PlacesStep, CompleteInvStep
<1>3. PInv /\ [Next]_vars => [Step]_vars
  <2> SUFFICES ASSUME PInv, [Next]_vars, ScanDone
               PROVE  EndsWhole
    BY DEF EndsWhole
  <2>1. ~Idle /\ pc' = "idle" /\ Total(faults') = 0
    BY DEF ScanDone, TInv, FaultsOK, Kinds, Total
  <2> QED
    BY <2>1, CompleteStep
<1> QED
  BY <1>1, <1>2, <1>3, PTL DEF Spec, ScanReadsAll
=============================================================================
