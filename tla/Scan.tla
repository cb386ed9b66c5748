-------------------------------- MODULE Scan --------------------------------
(***************************************************************************)
(* The master's slave database (src/master/ul_ecat_master.c): the network  *)
(* scan that fills it, the ESI files merged into it, the synchronous reads *)
(* and writes of the command line helper, on a ring of slaves.             *)
(*                                                                         *)
(* An exchange holds the trx mutex from its transmission to its answer or  *)
(* its timeout, so it is one step here; AlRequest takes it apart.  What is *)
(* kept of it: either direction may be lost, and an answer may come after  *)
(* the timeout and be found in the socket by the next exchange.            *)
(***************************************************************************)
EXTENDS Integers, SequencesExt

CONSTANTS Slaves,
          Rings,        \* orders in which the slaves may be wired
          Rewired,      \* may the order change between two calls
          Library,      \* slaves that are this library down to the PDUs
          Position,     \* per slave of the library, its logical_position
          IdentityOf,   \* per slave, its vendor, product, revision and serial
          Files,        \* ESI files: sequences of devices
          Values,       \* values of the register read and written by hand
          MAX_SLAVES,   \* UL_ECAT_MAX_SLAVES
          ESI_MAX,      \* devices in g_esi_lib, 64 in the code
          FILE_MAX,     \* devices taken from a file, 16 in the code
          MaxFaults,    \* bound on lost frames, late answers and restarts
          MaxCalls      \* bound on the calls of the application

Identity == {"vendor", "product", "revision", "serial"}
ASSUME ScanAssumption ==
  /\ \A r \in Rings : r \in Seq(Slaves) /\ IsInjective(r)
  /\ Library \subseteq Slaves /\ Rewired \in BOOLEAN
  /\ Position \in [Slaves -> Nat]
  /\ IdentityOf \in [Slaves -> [Identity -> Nat \ {0}]]
  /\ 0 \in Values /\ Values \subseteq Nat
  /\ MAX_SLAVES \in Nat \ {0} /\ ESI_MAX \in Nat /\ FILE_MAX \in Nat
  /\ MaxFaults \in Nat /\ MaxCalls \in Nat

VARIABLES
  ring,     \* the order of the slaves on the wire
  station,  \* per slave, its station address register
  cell,     \* per slave, the register the application reads and writes
  socket,   \* answers that came after their exchange had timed out
  pc,       \* the scan's next exchange
  slot,     \* the entry the scan is filling
  db,       \* g_slaves_db: the entries that count
  got,      \* what the last ul_ecat_fprd_sync returned
  may,      \* history: per station, the values a read may return
  faults,   \* faults so far, by kind
  calls     \* calls so far

slaves == <<ring, station, cell>>
scan   == <<pc, slot, db>>
vars   == <<slaves, socket, scan, got, may, faults, calls>>

-----------------------------------------------------------------------------
(* A datagram through the ring.  The position of an APWR is an             *)
(* auto-increment position (doc/mental-model.md): an EtherCAT slave        *)
(* controller serves it where it arrives as 0, and passes it on plus one.  *)
(* A slave of the library compares it with its own logical_position, and   *)
(* passes it on as it is.  Rings are too short for the position to wrap.   *)
STATION == 4096                       \* 0x1000
Arriving(r, i, pos) == pos + Cardinality({j \in 1 .. i - 1 : r[j] \notin Library})
PlacesAt(r, pos) ==
  {i \in DOMAIN r :
     Arriving(r, i, pos) = IF r[i] \in Library THEN Position[r[i]] ELSE 0}
SlavesAt(r, pos) == {r[i] : i \in PlacesAt(r, pos)}

(* FPRD and FPWR name a station.                                           *)
Places(dg) ==
  IF dg.cmd = "APWR" THEN PlacesAt(ring, dg.adp)
  ELSE {i \in DOMAIN ring : station[ring[i]] # 0 /\ station[ring[i]] = dg.adp}
Servers(dg) == {ring[i] : i \in Places(dg)}

(* "Each slave that processes the datagram increments WKC"                 *)
(* (doc/mental-model.md), but the library encodes its own 0 or 1 whatever  *)
(* was there: what counts is the places with none of its slaves behind.    *)
Counted(places) ==
  {i \in places : \A j \in DOMAIN ring : j > i => ring[j] \notin Library}

Held(s, reg) == IF reg = "cell" THEN cell[s] ELSE IdentityOf[s][reg]

(* What comes back: the data of the last slave that was read.              *)
Answer(dg) ==
  LET last == CHOOSE i \in Places(dg) : \A j \in Places(dg) : j <= i
  IN  [cmd  |-> dg.cmd, ado |-> dg.ado,
       wkc  |-> Cardinality(Counted(Places(dg))),
       data |-> IF Places(dg) # {} /\ dg.cmd = "FPRD"
                THEN Held(ring[last], dg.ado) ELSE dg.data]

(* A new station address at the slave in a position, a new register value. *)
Effect(dg) ==
  /\ station' = [s \in Slaves |-> IF s \in Servers(dg) /\ dg.ado = "station"
                                  THEN dg.data ELSE station[s]]
  /\ cell' = [s \in Slaves |-> IF s \in Servers(dg) /\ dg.ado = "cell"
                                  /\ dg.cmd = "FPWR"
                               THEN dg.data ELSE cell[s]]
  /\ UNCHANGED ring

-----------------------------------------------------------------------------
(* exchange_ec_payload: the answer is the first frame the socket has.      *)
NoAnswer == [cmd |-> "none", ado |-> "none", wkc |-> 0, data |-> 0]
Fault(kind) ==
  /\ faults["lost"] + faults["late"] + faults["restart"] < MaxFaults
  /\ faults' = [faults EXCEPT ![kind] = @ + 1]

(* The exchange of dg may end with the answer ans, or with none.           *)
MayCome(dg) == {NoAnswer, Answer(dg)} \cup ToSet(socket)
Exchange(dg, ans) ==
  LET found == IF socket = <<>> THEN NoAnswer ELSE Head(socket)
      rest  == IF socket = <<>> THEN <<>> ELSE Tail(socket)
  IN  \/ /\ Effect(dg) /\ UNCHANGED faults
         /\ ans = Head(Append(socket, Answer(dg)))
         /\ socket' = Tail(Append(socket, Answer(dg)))
      \/ /\ UNCHANGED slaves /\ Fault("lost")
         /\ ans = found /\ socket' = rest
      \/ /\ Effect(dg) /\ Fault("lost")
         /\ ans = found /\ socket' = rest
      \/ /\ Effect(dg) /\ Fault("late")
         /\ ans = found /\ socket' = Append(rest, Answer(dg))

(* What fprd_blocking puts in a four-byte out: the two bytes of a late     *)
(* APWR answer fill it in part.                                            *)
Mixed == -1
Copied(ans) == IF ans.ado = "station" THEN Mixed ELSE ans.data

-----------------------------------------------------------------------------
(* The scan: per position, assign the station address, then read the four  *)
(* identity registers of that station.                                     *)
FieldAfter ==
  [vendor |-> "product", product |-> "revision", revision |-> "serial"]
Entry(addr) == [station |-> addr, name |-> "", vendor |-> 0, product |-> 0,
                revision |-> 0, serial |-> 0]
Idle == pc = "idle"
Called == calls < MaxCalls /\ calls' = calls + 1

ScanBegin ==
  /\ Idle /\ Called
  /\ db' = <<>> /\ slot' = Entry(STATION)
  /\ pc' = "assign"
  /\ UNCHANGED <<slaves, socket, got, may, faults>>

(* Seeded fault: an exchange that succeeds is taken for a slave.           *)
AssignedUncounted(ans) ==
  /\ pc' = IF ans.cmd # "none" THEN "vendor" ELSE "idle"
  /\ UNCHANGED <<slot, db>>

(* Seeded fault: a position that does not answer is tried again.           *)
AssignedRetry(ans) ==
  /\ pc' = IF ans.wkc >= 1 THEN "vendor" ELSE "assign"
  /\ UNCHANGED <<slot, db>>

(* Nothing came, or nobody served it: the end of the ring.                 *)
Assigned(ans) ==
  /\ pc' = IF ans.wkc >= 1 THEN "vendor" ELSE "idle"
  /\ UNCHANGED <<slot, db>>

Assign ==
  /\ pc = "assign"
  /\ LET dg == [cmd |-> "APWR", adp |-> slot.station - STATION,
                ado |-> "station", data |-> slot.station]
     IN  \E ans \in MayCome(dg) : Exchange(dg, ans) /\ Assigned(ans)
  /\ UNCHANGED <<got, may, calls>>

(* Seeded fault: a read that fails leaves what the one before it read.     *)
WithFieldStale(ans) ==
  [slot EXCEPT ![pc] = IF ans.wkc >= 1 THEN Copied(ans)
                       ELSE IF pc = "product" THEN slot.vendor ELSE 0]

(* A field that cannot be read stays 0.                                    *)
WithField(ans) ==
  [slot EXCEPT ![pc] = IF ans.wkc >= 1 THEN Copied(ans) ELSE 0]

(* Seeded fault: the next slave gets the first station address again.      *)
IdentifiedSameStation(ans) ==
  IF pc # "serial"
  THEN /\ pc' = FieldAfter[pc]
       /\ slot' = WithField(ans)
       /\ UNCHANGED db
  ELSE /\ db' = Append(db, WithField(ans))
       /\ slot' = Entry(STATION)
       /\ pc' = IF Len(db') = MAX_SLAVES THEN "idle" ELSE "assign"

Identified(ans) ==
  IF pc # "serial"
  THEN /\ pc' = FieldAfter[pc]
       /\ slot' = WithField(ans)
       /\ UNCHANGED db
  ELSE /\ db' = Append(db, WithField(ans))
       /\ slot' = Entry(slot.station + 1)
       /\ pc' = IF Len(db') = MAX_SLAVES THEN "idle" ELSE "assign"

Identify ==
  /\ pc \in Identity
  /\ LET dg == [cmd |-> "FPRD", adp |-> slot.station, ado |-> pc, data |-> 0]
     IN  \E ans \in MayCome(dg) : Exchange(dg, ans) /\ Identified(ans)
  /\ UNCHANGED <<got, may, calls>>

-----------------------------------------------------------------------------
(* ul_ecat_scan_slaves_with_esi: the library is filled anew, as far as it  *)
(* holds, and each slave takes the data of the first device that matches.  *)
Device(name, v, p, r, s) ==
  [name |-> name, vendor |-> v, product |-> p, revision |-> r, serial |-> s]

FromFile(file) == SubSeq(file, 1, IF Len(file) > FILE_MAX THEN FILE_MAX
                                  ELSE Len(file))
EsiLib(list) ==
  LET all == FlattenSeq([i \in DOMAIN list |-> FromFile(list[i])])
  IN  SubSeq(all, 1, IF Len(all) > ESI_MAX THEN ESI_MAX ELSE Len(all))

(* Seeded fault: the product code is not compared.                         *)
MatchesVendor(dev, e) == dev.vendor = e.vendor

Matches(dev, e) == dev.vendor = e.vendor /\ dev.product = e.product

Named(e, lib) ==
  LET hits == {j \in 1 .. ESI_MAX : j \in DOMAIN lib /\ Matches(lib[j], e)}
      dev  == lib[CHOOSE j \in hits : \A k \in hits : j <= k]
  IN  IF hits = {} THEN e
      ELSE [e EXCEPT !.revision = dev.revision, !.serial = dev.serial,
                     !.name = IF dev.name = "" THEN @ ELSE dev.name]

MergeEsi(list) ==
  /\ Idle /\ Called
  /\ db' = [i \in DOMAIN db |-> Named(db[i], EsiLib(list))]
  /\ UNCHANGED <<slaves, socket, pc, slot, got, may, faults>>

-----------------------------------------------------------------------------
(* ul_ecat_fprd_sync and ul_ecat_fpwr_sync of the register, at a station.  *)
Stations == STATION .. STATION + MAX_SLAVES - 1
NoRead == [station |-> 0, ok |-> FALSE, data |-> 0]

Read(addr) ==
  LET dg == [cmd |-> "FPRD", adp |-> addr, ado |-> "cell", data |-> 0]
  IN  /\ Idle /\ Called
      /\ \E ans \in MayCome(dg) :
           /\ Exchange(dg, ans)
           /\ got' = [station |-> addr, ok |-> ans.wkc >= 1,
                      data |-> IF ans.wkc >= 1 THEN Copied(ans) ELSE 0]
      /\ UNCHANGED <<scan, may>>

(* Seeded fault: an answer is success, whatever its working counter.       *)
WriteUncounted(addr, v) ==
  LET dg == [cmd |-> "FPWR", adp |-> addr, ado |-> "cell", data |-> v]
  IN  /\ Idle /\ Called
      /\ \E ans \in MayCome(dg) :
           /\ Exchange(dg, ans)
           /\ may' = [may EXCEPT ![addr] = IF ans.cmd # "none" THEN {v}
                                           ELSE @ \cup {v}]
      /\ got' = NoRead
      /\ UNCHANGED scan

(* A write that fails may have reached the slave all the same.             *)
Write(addr, v) ==
  LET dg == [cmd |-> "FPWR", adp |-> addr, ado |-> "cell", data |-> v]
  IN  /\ Idle /\ Called
      /\ \E ans \in MayCome(dg) :
           /\ Exchange(dg, ans)
           /\ may' = [may EXCEPT ![addr] = IF ans.wkc >= 1 THEN {v}
                                           ELSE @ \cup {v}]
      /\ got' = NoRead
      /\ UNCHANGED scan

(* ul_ecat_app_execute: a process that starts with an empty database, runs *)
(* one of the calls above and ends.                                        *)
NewProcess ==
  /\ Idle /\ db # <<>>
  /\ db' = <<>> /\ slot' = Entry(STATION) /\ socket' = <<>>
  /\ got' = NoRead
  /\ UNCHANGED <<slaves, pc, may, faults, calls>>

(* The worker thread empties the socket between two exchanges.             *)
Drain == /\ socket # <<>> /\ socket' = <<>>
         /\ UNCHANGED <<slaves, scan, got, may, faults, calls>>

(* A slave restarts: no station address, the register at its first value.  *)
Anywhere(v) == may' = [a \in Stations |-> may[a] \cup {v}]
Restart(s) ==
  /\ Fault("restart")
  /\ station' = [station EXCEPT ![s] = 0] /\ cell' = [cell EXCEPT ![s] = 0]
  /\ Anywhere(0)
  /\ UNCHANGED <<ring, socket, scan, got, calls>>

(* The slaves are wired in another order between two calls.                *)
Rewire ==
  /\ Rewired /\ Idle /\ Called
  /\ ring' \in Rings
  /\ may' = [a \in Stations |-> Values]
  /\ UNCHANGED <<station, cell, socket, scan, got, faults>>

Init ==
  /\ ring \in Rings
  /\ station = [s \in Slaves |-> 0] /\ cell = [s \in Slaves |-> 0]
  /\ socket = <<>> /\ pc = "idle" /\ slot = Entry(STATION) /\ db = <<>>
  /\ got = NoRead /\ may = [a \in Stations |-> {0}]
  /\ faults = [lost |-> 0, late |-> 0, restart |-> 0] /\ calls = 0

Scanning == Assign \/ Identify
Next ==
  \/ ScanBegin \/ Scanning \/ NewProcess \/ Drain \/ Rewire
  \/ \E list \in Files : MergeEsi(list)
  \/ \E a \in Stations : Read(a) \/ \E v \in Values : Write(a, v)
  \/ \E s \in Slaves : Restart(s)

(* A scan that has begun runs on.                                          *)
Spec == Init /\ [][Next]_vars /\ WF_vars(Scanning)

-----------------------------------------------------------------------------
TypeOK ==
  /\ ring \in Rings /\ station \in [Slaves -> {0} \cup Stations]
  /\ cell \in [Slaves -> Values] /\ Len(socket) <= MaxFaults
  /\ pc \in {"idle", "assign"} \cup Identity
  /\ Len(db) <= MAX_SLAVES
  /\ \A i \in DOMAIN db : db[i].station = STATION + i - 1
  /\ \A a \in Stations : may[a] \subseteq Values
  /\ calls \in 0 .. MaxCalls

(* "Ring scan: auto-increment APWR to 0x0010 (configured station address), *)
(* then identity reads" (README.md): what an entry has of an identity is   *)
(* that of the slave in its position, whatever was lost, unless an answer  *)
(* came late.                                                              *)
Own(e, f) == e[f] = 0 \/ \E s \in SlavesAt(ring, e.station - STATION) :
                            e[f] = IdentityOf[s][f]
IdentityOwn ==
  [][ (~Idle /\ faults'["late"] = 0) =>
        \A i \in DOMAIN db' : \A f \in Identity : Own(db'[i], f) ]_vars

(* A scan that ends undisturbed.                                           *)
ScanDone == ~Idle /\ pc' = "idle" /\ \A k \in DOMAIN faults : faults'[k] = 0

(* It read the whole identity of the slave in the position of each entry,  *)
(* whatever stations earlier scans, restarts and other wirings left, and   *)
(* went on as long as the database had room and a position counted.        *)
Whole(e, pos) == \E s \in SlavesAt(ring, pos) :
                   \A f \in Identity : e[f] = IdentityOf[s][f]
ScanReadsAll ==
  [][ ScanDone => /\ \A i \in DOMAIN db' : Whole(db'[i], i - 1)
                  /\ \/ Len(db') = MAX_SLAVES
                     \/ Counted(PlacesAt(ring, Len(db'))) = {} ]_vars

(* A scan comes to its end, whatever is lost and whoever restarts.         *)
ScanEnds == pc = "assign" ~> Idle

(* A successful read by hand returns what was last written successfully to *)
(* that station, or what a failed write or a restart since may have left:  *)
(* a scan in between does not move the stations of an unchanged ring.      *)
ReadsWritten ==
  (got.ok /\ faults["late"] = 0) => got.data \in may[got.station]

(* A name in the database is one of a device of that vendor and product in *)
(* the files, whichever files were merged in which order.                  *)
NamesMatch ==
  \A i \in DOMAIN db : db[i].name # "" =>
    \E list \in Files : \E j \in DOMAIN EsiLib(list) :
      LET dev == EsiLib(list)[j]
      IN  /\ dev.name = db[i].name /\ dev.vendor = db[i].vendor
          /\ dev.product = db[i].product
=============================================================================
