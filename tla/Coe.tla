-------------------------------- MODULE Coe --------------------------------
(***************************************************************************)
(* The CoE/SDO server of a slave (src/slave/ul_ecat_slave_coe.c) over its  *)
(* object dictionary (src/slave/ul_ecat_slave_od.c), and one SDO client.   *)
(*                                                                         *)
(* A request that completes SM0 is handled before the frame that brought   *)
(* it goes back, and the reply is left in SM1, over whatever SM1 held (see *)
(* Slave for the handshake).  The server keeps one segmented upload; the   *)
(* client may lose requests and replies, repeat a request, give up half    *)
(* way and come back for something else, while the application installs    *)
(* another dictionary.  The client is outside this repository's libraries: *)
(* it is the one of tests/test_coe.cpp, with the mailbox counter checked.  *)
(***************************************************************************)
EXTENDS Integers, Sequences, FiniteSets

CONSTANTS Tables,        \* the dictionaries the application may install
          Generated,     \* ul_ecat_generated_od_table
          Operations,    \* what the client may ask for
          Strays,        \* other requests a master may send between two
          NoEntry, NoFrame,
          SM1_LEN,       \* SM1's length
          REPLY_CAP,     \* sizeof(reply) in default_coe_mailbox_handler
          COUNTERS,      \* mailbox counters of the client
          MaxFaults      \* bound on losses, repeats and interruptions

EXPEDITED == 4           \* data bytes of an init request or response
SEGMENT   == 7           \* data bytes of a segment

(* The entries of all tables.  A session keeps a pointer to its entry, and *)
(* an entry points to its storage: both are named by the entry itself.     *)
EntriesOf(table) == {table[i] : i \in DOMAIN table}
Entries == UNION {EntriesOf(table) : table \in Tables}
Key(x)  == <<x.index, x.sub>>

(* A byte is told apart by its object, its position and a version.         *)
Byte(key, i, version) == [of |-> key, at |-> i, version |-> version]
Bytes(key, n, version) == [i \in 1 .. n |-> Byte(key, i, version)]

ByteValues == [of : Int \X Int, at : Nat, version : Nat]

(* What goes through the mailboxes.  svc is "sdo", "info", or "none" for a *)
(* frame that is too short, not CoE, or of another service.                *)
Commands == {"upload", "download", "segment", "abort", "list", "other"}
Codes == {"none", "OBJECT_GONE", "BAD_SUBINDEX", "READ_WO", "WRITE_RO",
          "LENGTH_MM", "TOGGLE_BIT", "GENERAL"}
Requests ==
  [svc : {"sdo", "info", "none"}, cmd : Commands, index : Int, sub : Int,
   toggle : {0, 1}, expedited : BOOLEAN, data : Seq(ByteValues), counter : Nat]
Replies ==
  [cmd : Commands, index : Int, sub : Int, toggle : {0, 1}, last : BOOLEAN,
   size : Nat, data : Seq(ByteValues), code : Codes, counter : Nat]

(* What is written to an object are bytes of that object, from the first.  *)
(* The client numbers its requests from 1; others carry no number.         *)
ASSUME CoeAssumption ==
  /\ Generated \in Tables
  /\ \A tab \in Tables : \A x, y \in EntriesOf(tab) : Key(x) = Key(y) => x = y
  /\ \A e \in Entries : /\ e.index \in Int /\ e.sub \in Int
                       /\ e.length \in Nat /\ e.access \subseteq {"R", "W"}
  /\ NoEntry \notin Entries /\ NoFrame \notin Requests \cup Replies
  /\ Operations \subseteq [kind : {"upload", "download"}, index : Int, sub : Int,
                          data : Seq(ByteValues)]
  /\ Strays \subseteq Requests /\ \A req \in Strays : req.counter = 0
  /\ \A x \in Operations \cup Strays : \A i \in DOMAIN x.data :
       x.data[i].of = Key(x) /\ x.data[i].at = i
  /\ SM1_LEN \in Nat /\ REPLY_CAP \in Nat
  /\ COUNTERS \in Nat /\ MaxFaults \in Nat /\ MaxFaults + 1 < COUNTERS

VARIABLES
  table,     \* g_table
  storage,   \* per entry, what its storage holds
  session,   \* g_upload
  sm0,       \* the request on its way to the server
  sm1,       \* the reply in SM1, MBX_FULL set
  op,        \* client: the operation asked for
  state,     \* client: the response it waits for, or the outcome
  got,       \* client: the bytes it has
  size,      \* client: the length it was announced
  toggle,    \* client: the toggle bit of its segment request
  counter,   \* client: the mailbox counter of its last request
  clean,     \* history: nothing disturbed this operation
  faults     \* faults so far

server == <<table, storage, session>>
client == <<op, state, got, size, toggle, counter>>
vars   == <<server, sm0, sm1, client, clean, faults>>

-----------------------------------------------------------------------------
(* The object dictionary.  "Each OD entry is identified by (index,         *)
(* subindex)": the first match of the linear search is the only one.       *)

Lookup(tab, index, sub) ==
  LET hits == {e \in EntriesOf(tab) : Key(e) = <<index, sub>>}
  IN  IF hits = {} THEN NoEntry ELSE CHOOSE e \in hits : TRUE

IndexExists(tab, index) == \E e \in EntriesOf(tab) : e.index = index

OdWrite(e, data) ==
  [storage EXCEPT ![e] =
     [i \in 1 .. e.length |-> IF i <= Len(data) THEN data[i] ELSE @[i]]]

(* SDO Info lists the indices in table order, each run of equal ones once, *)
(* as far as the reply buffer goes: 14 bytes of headers, 2 per index.      *)
OdList(tab) ==
  LET first(i)  == i = 1 \/ tab[i].index # tab[i - 1].index
      number(i) == Cardinality({j \in 1 .. i : first(j)})
      room      == (REPLY_CAP - 14) \div 2
  IN  [n \in {number(i) : i \in DOMAIN tab} \cap 1 .. room |->
         tab[CHOOSE i \in DOMAIN tab : first(i) /\ number(i) = n].index]

-----------------------------------------------------------------------------
(* Requests and replies.                                                   *)
Request(svc, cmd, index, sub) ==
  [svc |-> svc, cmd |-> cmd, index |-> index, sub |-> sub, toggle |-> 0,
   expedited |-> TRUE, data |-> <<>>, counter |-> 0]

(* Seeded fault: the mailbox header is built anew.                         *)
ReplyOwnHeader(req, cmd) ==
  [cmd |-> cmd, index |-> req.index, sub |-> req.sub, toggle |-> 0,
   last |-> FALSE, size |-> 0, data |-> <<>>, code |-> "none", counter |-> 1]

(* build_reply_headers copies the mailbox header, so the counter too.      *)
Reply(req, cmd) ==
  [cmd |-> cmd, index |-> req.index, sub |-> req.sub, toggle |-> 0,
   last |-> FALSE, size |-> 0, data |-> <<>>, code |-> "none",
   counter |-> req.counter]

ReplyLength(reply) ==
  IF reply.cmd = "list" THEN 14 + 2 * Len(reply.data) ELSE 16

Abort(req, code) == [Reply(req, "abort") EXCEPT !.code = code]

(* The client waits for a response.                                        *)
Waiting == state \in {"init", "segment"}

Idle == [active |-> FALSE, entry |-> NoEntry, offset |-> 0, toggle |-> 0]

(* What a handler leaves: the session, the storage and its reply.          *)
Result(ses, sto, reply) == [session |-> ses, storage |-> sto, reply |-> reply]

NotFound(req) == IF IndexExists(table, req.index) THEN "BAD_SUBINDEX"
                 ELSE "OBJECT_GONE"

UploadRefusal(e, req) ==
  IF e = NoEntry THEN NotFound(req)
  ELSE IF "R" \notin e.access THEN "READ_WO"
  ELSE IF e.length = 0 THEN "GENERAL" ELSE "none"

(* Seeded fault: a new segmented upload keeps the toggle bit of the last.  *)
OpenedKeepsToggle(e) ==
  [active |-> TRUE, entry |-> e, offset |-> 0, toggle |-> session.toggle]

(* Seeded fault: ... or its offset.                                        *)
OpenedKeepsOffset(e) ==
  [active |-> TRUE, entry |-> e, toggle |-> 0,
   offset |-> IF session.entry = e /\ session.offset < e.length
              THEN session.offset ELSE 0]

(* A new segmented upload starts over, whatever came before.               *)
Opened(e) == [active |-> TRUE, entry |-> e, offset |-> 0, toggle |-> 0]

Closed == [session EXCEPT !.active = FALSE]

UploadInit(req) ==
  LET e    == Lookup(table, req.index, req.sub)
      code == UploadRefusal(e, req)
      resp == Reply(req, "upload")
  IN  IF code # "none"
        THEN Result(Closed, storage, Abort(req, code))
      ELSE IF e.length <= EXPEDITED
        THEN Result(Closed, storage, [resp EXCEPT !.data = storage[e]])
      ELSE Result(Opened(e), storage, [resp EXCEPT !.size = e.length])

(* Seeded fault: a segment that is full is never the last.                 *)
AdvancedUnlessShort(chunk, rest) ==
  [session EXCEPT !.offset = @ + chunk, !.toggle = 1 - @,
                  !.active = chunk = SEGMENT]

(* Seeded fault: the toggle bit counts segments.                           *)
AdvancedCounting(chunk, rest) ==
  [session EXCEPT !.offset = @ + chunk, !.toggle = @ + 1,
                  !.active = chunk # rest]

(* The session after a segment: closed with the last one.                  *)
Advanced(chunk, rest) ==
  [session EXCEPT !.offset = @ + chunk, !.toggle = 1 - @,
                  !.active = chunk # rest]

UploadSegment(req) ==
  LET e     == session.entry
      rest  == e.length - session.offset
      chunk == IF rest > SEGMENT THEN SEGMENT ELSE rest
  IN  IF ~session.active
        THEN Result(session, storage, Abort(req, "GENERAL"))
      ELSE IF req.toggle # session.toggle
        THEN Result(Closed, storage,
                    [Abort(req, "TOGGLE_BIT")
                       EXCEPT !.index = e.index, !.sub = e.sub])
      ELSE Result(Advanced(chunk, rest), storage,
                  [Reply(req, "segment")
                     EXCEPT !.toggle = req.toggle, !.last = chunk = rest,
                            !.data = SubSeq(storage[e], session.offset + 1,
                                            session.offset + chunk)])

DownloadRefusal(e, req) ==
  IF e = NoEntry THEN NotFound(req)
  ELSE IF "W" \notin e.access THEN "WRITE_RO"
  ELSE IF ~req.expedited THEN "GENERAL"
  ELSE IF Len(req.data) > e.length THEN "LENGTH_MM" ELSE "none"

(* A download leaves the session alone, refused or not.                    *)
DownloadInit(req) ==
  LET e    == Lookup(table, req.index, req.sub)
      code == DownloadRefusal(e, req)
  IN  IF code # "none" THEN Result(session, storage, Abort(req, code))
      ELSE Result(session, OdWrite(e, req.data), Reply(req, "download"))

SdoInfo(req) ==
  Result(session, storage,
         IF req.cmd = "list"
         THEN [Reply(req, "list") EXCEPT !.data = OdList(table)] ELSE NoFrame)

(* ul_ecat_slave_coe_process.                                              *)
Process(req) ==
  CASE req.svc = "none" -> Result(session, storage, NoFrame)
    [] req.svc = "info" -> SdoInfo(req)
    [] req.svc = "sdo" /\ req.cmd = "upload"   -> UploadInit(req)
    [] req.svc = "sdo" /\ req.cmd = "download" -> DownloadInit(req)
    [] req.svc = "sdo" /\ req.cmd = "segment"  -> UploadSegment(req)
    [] req.svc = "sdo" /\ req.cmd = "abort"    ->
         Result(Closed, storage, NoFrame)
    [] OTHER -> Result(session, storage, Abort(req, "GENERAL"))

-----------------------------------------------------------------------------
(* The slave's steps.                                                      *)

(* dispatch_mailbox_if_ready and default_coe_mailbox_handler.  The reply   *)
(* is dropped when it does not fit SM1.                                    *)
Serve ==
  /\ sm0 # NoFrame
  /\ sm0' = NoFrame
  /\ LET r == Process(sm0)
     IN  /\ session' = r.session
         /\ storage' = r.storage
         /\ sm1' = IF r.reply # NoFrame /\ ReplyLength(r.reply) <= SM1_LEN
                   THEN r.reply ELSE sm1
  /\ UNCHANGED <<table, client, clean, faults>>

Fault == faults < MaxFaults /\ faults' = faults + 1 /\ clean' = FALSE

(* The master has switched SM1 off, or moved it: the reply is refused.     *)
ServeRefused ==
  /\ sm0 # NoFrame
  /\ sm0' = NoFrame
  /\ session' = Process(sm0).session
  /\ storage' = Process(sm0).storage
  /\ Fault
  /\ UNCHANGED <<table, sm1, client>>

(* ul_ecat_od_set_table, between two frames.  "the application sets it     *)
(* once": the dictionary is not replaced under an operation.               *)
SetTable(tab) ==
  /\ ~Waiting
  /\ table' = tab
  /\ UNCHANGED <<storage, session, sm0, sm1, client, clean, faults>>

(* ul_ecat_slave_controller_init again: the mirror is cleared, the session *)
(* is not.                                                                 *)
Reinit ==
  /\ Waiting => table = Generated
  /\ table' = Generated
  /\ sm1' = NoFrame
  /\ Fault
  /\ UNCHANGED <<storage, session, sm0, client>>

-----------------------------------------------------------------------------
(* The client's steps.                                                     *)

(* The request of the operation's current stage.                           *)
CurrentRequest(o, stage, bit, number) ==
  IF stage = "segment"
  THEN [Request("sdo", "segment", 0, 0)
          EXCEPT !.toggle = bit, !.counter = number]
  ELSE [Request("sdo", o.kind, o.index, o.sub)
          EXCEPT !.data = o.data, !.counter = number]

(* Go to a stage and send its request under the next counter.              *)
Proceed(o, stage, bit) ==
  LET number == IF counter = COUNTERS THEN 1 ELSE counter + 1
  IN  /\ state' = stage
      /\ toggle' = bit
      /\ counter' = number
      /\ sm0' = CurrentRequest(o, stage, bit, number)

Ask(o) ==
  /\ ~Waiting
  /\ sm0 = NoFrame
  /\ op' = o
  /\ got' = <<>> /\ size' = 0
  /\ clean' = TRUE
  /\ Proceed(o, "init", 0)
  /\ UNCHANGED <<server, sm1, faults>>

End(outcome) == state' = outcome /\ UNCHANGED <<sm0, toggle, counter>>

(* The response the client waits for.                                      *)
TakeUpload(r) ==
  IF r.size = 0
  THEN got' = r.data /\ size' = Len(r.data) /\ End("ok")
  ELSE /\ size' = r.size
       /\ UNCHANGED got
       /\ Proceed(op, "segment", 0)

TakeSegment(r) ==
  /\ got' = got \o r.data
  /\ UNCHANGED size
  /\ IF r.last THEN End("ok") ELSE Proceed(op, "segment", 1 - toggle)

(* The client reads the whole of SM1, which empties it.                    *)
ReadReply ==
  /\ Waiting
  /\ sm0 = NoFrame
  /\ sm1 # NoFrame
  /\ sm1' = NoFrame
  /\ IF sm1.counter # counter
     THEN UNCHANGED <<sm0, state, toggle, counter, got, size>>
     ELSE IF state = "init" /\ sm1.cmd = "upload" THEN TakeUpload(sm1)
     ELSE IF state = "segment" /\ sm1.cmd = "segment" THEN TakeSegment(sm1)
     ELSE /\ End(IF state = "init" /\ sm1.cmd = "download" THEN "ok"
                 ELSE "failed")
          /\ UNCHANGED <<got, size>>
  /\ UNCHANGED <<server, op, clean, faults>>

(* No reply came, or none was read in time: the same request again.        *)
Repeat ==
  /\ Waiting
  /\ sm0 = NoFrame
  /\ sm0' = CurrentRequest(op, state, toggle, counter)
  /\ Fault
  /\ UNCHANGED <<server, sm1, client>>

GiveUp ==
  /\ Waiting
  /\ sm0 = NoFrame
  /\ state' = "failed"
  /\ clean' = FALSE
  /\ UNCHANGED <<server, sm0, sm1, op, got, size, toggle, counter, faults>>

(* Requests outside an operation: aborts, segments out of the blue, ...    *)
Stray(req) ==
  /\ ~Waiting
  /\ sm0 = NoFrame
  /\ sm0' = req
  /\ UNCHANGED <<server, sm1, client, clean, faults>>

LoseRequest ==
  /\ sm0 # NoFrame
  /\ sm0' = NoFrame
  /\ Fault
  /\ UNCHANGED <<server, sm1, client>>

LoseReply ==
  /\ sm1 # NoFrame
  /\ sm1' = NoFrame
  /\ Fault
  /\ UNCHANGED <<server, sm0, client>>

-----------------------------------------------------------------------------
Init ==
  /\ table = Generated
  /\ storage = [e \in Entries |-> Bytes(Key(e), e.length, 0)]
  /\ session = Idle
  /\ sm0 = NoFrame /\ sm1 = NoFrame
  /\ op \in Operations
  /\ state = "idle" /\ got = <<>> /\ size = 0
  /\ toggle = 0 /\ counter = 0
  /\ clean = TRUE
  /\ faults = 0

Next ==
  \/ Serve \/ ServeRefused \/ Reinit
  \/ \E tab \in Tables : SetTable(tab)
  \/ \E o \in Operations : Ask(o)
  \/ ReadReply \/ Repeat \/ GiveUp
  \/ \E req \in Strays : Stray(req)
  \/ LoseRequest \/ LoseReply

Spec == Init /\ [][Next]_vars

-----------------------------------------------------------------------------
TypeOK ==
  /\ table \in Tables
  /\ storage \in [Entries -> Seq(ByteValues)]
  /\ session \in [active : BOOLEAN, entry : Entries \cup {NoEntry},
                  offset : Nat, toggle : {0, 1}]
  /\ state \in {"idle", "init", "segment", "ok", "failed"}
  /\ size \in Nat /\ toggle \in {0, 1} /\ counter \in 0 .. COUNTERS
  /\ clean \in BOOLEAN
  /\ faults \in 0 .. MaxFaults

(* A session that is open has bytes left, and both of its counters tell    *)
(* the same number of segments: handle_upload_segment never subtracts past *)
(* the object's length, never copies past its storage and never sends a    *)
(* segment without data, whatever the master sends, and whatever           *)
(* dictionary the application has installed since.                         *)
SessionInObject ==
  session.active =>
    /\ session.entry \in Entries
    /\ session.entry.length > EXPEDITED
    /\ session.offset < session.entry.length
    /\ session.offset % SEGMENT = 0
    /\ session.toggle = (session.offset \div SEGMENT) % 2

(* Through losses, repeats, abandoned transfers and dictionary changes, an *)
(* upload delivers the object's bytes in order, each once, and ends well   *)
(* only with all of them.                                                  *)
AskedKey == Key(op)
Uploading == op.kind = "upload" /\ state # "idle"

AskedKeys == {Key(x) : x \in Operations}
LengthsOf == [k \in AskedKeys |->
                {e.length : e \in {x \in Entries : Key(x) = k}}]

Sdo == INSTANCE SdoTransfer WITH
  Objects <- AskedKeys,
  Lengths <- LengthsOf,
  object  <- AskedKey,
  size    <- size,
  got     <- [i \in DOMAIN got |-> IF got[i].of = AskedKey THEN got[i].at
                                   ELSE 0],
  status  <- IF ~Uploading THEN "idle"
             ELSE IF Waiting THEN "running"
             ELSE IF state = "ok" THEN "done" ELSE "failed"

UploadRefinement == Sdo!Spec

(* A client told that its download succeeded has had its data written: the *)
(* reply to an older download, left in SM1 by a client that gave up, is    *)
(* not taken for the answer, because replies echo the mailbox counter.     *)
ConfirmedMeansWritten ==
  [][state # "ok" /\ state' = "ok" /\ op.kind = "download" =>
       \E e \in Entries :
         /\ Key(e) = AskedKey
         /\ SubSeq(storage[e], 1, Len(op.data)) = op.data]_vars

(* An operation nothing disturbed fails only if the dictionary refuses it: *)
(* no transfer abandoned before it, no stray request and no reply left in  *)
(* SM1 makes the server abort it or the client misread it.                 *)
Refused(o) ==
  LET e == Lookup(table, o.index, o.sub)
  IN  \/ e = NoEntry
      \/ o.kind = "upload" /\ (e.length = 0 \/ "R" \notin e.access)
      \/ o.kind = "download" /\ (Len(o.data) > e.length \/ "W" \notin e.access)

CleanSucceeds ==
  [][state # "failed" /\ state' = "failed" /\ clean' => Refused(op)]_vars

(* "a new init request implicitly cancels any in-progress one"             *)
(* (src/slave/ul_ecat_slave_coe.c, above g_upload).                        *)
InitCancels ==
  [][Serve /\ sm0.svc = "sdo" /\ sm0.cmd \in {"upload", "download"}
       => ~session'.active \/ session'.offset = 0]_vars

=============================================================================
