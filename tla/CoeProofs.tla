----------------------------- MODULE CoeProofs -----------------------------
(***************************************************************************)
(* The SDO server and its client, for every dictionary and every sequence  *)
(* of requests, replies lost or refused, repeats, abandoned operations,    *)
(* dictionary changes and re-initialisations: the session stays inside its *)
(* object, a confirmed download has been written, an undisturbed operation *)
(* succeeds, and an upload implements SdoTransfer.                         *)
(*                                                                         *)
(* The argument is OInv: the reply in SM1 that carries the client's number *)
(* answers the client's request (AnswerOK), which holds because replies    *)
(* are never as many requests old as there are counters (Sm1OK), because   *)
(* the session is at the client's segment or one ahead of it (StageOK),    *)
(* and because a byte of storage knows its place (StorageOK).              *)
(***************************************************************************)
EXTENDS Coe, SequenceTheorems, TLAPS

SessionType ==
  session \in [active : BOOLEAN, entry : Entries \cup {NoEntry},
               offset : Nat, toggle : {0, 1}]

(* A session can only be opened on an entry the table holds, so the table  *)
(* is part of the inductive invariant.                                     *)
IInv == table \in Tables /\ SessionType /\ SessionInObject

(* The two together, for the session a step leaves.                        *)
Sound(ses) ==
  /\ ses \in [active : BOOLEAN, entry : Entries \cup {NoEntry},
              offset : Nat, toggle : {0, 1}]
  /\ ses.active =>
       /\ ses.entry \in Entries
       /\ ses.entry.length > EXPEDITED
       /\ ses.offset < ses.entry.length
       /\ ses.offset % SEGMENT = 0
       /\ ses.toggle = (ses.offset \div SEGMENT) % 2

(* ul_ecat_od_lookup finds an entry of the table, or none.                 *)
LEMMA LookupInTable ==
  ASSUME NEW tab \in Tables, NEW index, NEW sub,
         Lookup(tab, index, sub) # NoEntry
  PROVE  Lookup(tab, index, sub) \in Entries
  BY DEF Lookup, Entries, EntriesOf

(* Each handler leaves a sound session behind.                             *)
LEMMA UploadInitSound ==
  ASSUME NEW req, IInv
  PROVE  Sound(UploadInit(req).session)
<1> DEFINE e == Lookup(table, req.index, req.sub)
<1>1. session = [active |-> session.active, entry |-> session.entry,
                 offset |-> session.offset, toggle |-> session.toggle]
  BY DEF IInv, SessionType
<1>2. Sound(Closed)
  BY <1>1 DEF IInv, SessionType, Sound, Closed
<1>3. CASE UploadRefusal(e, req) # "none" \/ e.length <= EXPEDITED
  <2>1. UploadInit(req).session = Closed
    BY <1>3 DEF UploadInit, Result
  <2>. QED BY <1>2, <2>1
<1>4. CASE UploadRefusal(e, req) = "none" /\ ~(e.length <= EXPEDITED)
  <2>1. e # NoEntry
    BY <1>4 DEF UploadRefusal, NotFound
  <2>2. e \in Entries
    BY <2>1, LookupInTable DEF IInv
  <2>3. e.length \in Nat /\ e.length > EXPEDITED
    BY <1>4, <2>2, CoeAssumption DEF EXPEDITED
  <2>4. UploadInit(req).session = Opened(e)
    BY <1>4 DEF UploadInit, Result
  <2>5. Sound(Opened(e))
    BY <2>2, <2>3 DEF Sound, Opened, EXPEDITED, SEGMENT
  <2>. QED BY <2>4, <2>5
<1>. QED BY <1>3, <1>4

LEMMA UploadSegmentSound ==
  ASSUME NEW req, IInv
  PROVE  Sound(UploadSegment(req).session)
<1> DEFINE e     == session.entry
           rest  == e.length - session.offset
           chunk == IF rest > SEGMENT THEN SEGMENT ELSE rest
<1>1. Sound(session)
  BY DEF IInv, SessionType, SessionInObject, Sound
<1>2. CASE ~session.active
  BY <1>1, <1>2 DEF UploadSegment, Result
<1>3. CASE session.active /\ req.toggle # session.toggle
  <2>1. UploadSegment(req).session = Closed
    BY <1>3 DEF UploadSegment, Result
  <2>2. Sound(Closed)
    BY <1>1 DEF Sound, Closed
  <2>. QED BY <2>1, <2>2
<1>4. CASE session.active /\ req.toggle = session.toggle
  <2>1. UploadSegment(req).session = Advanced(chunk, rest)
    BY <1>4 DEF UploadSegment, Result
  <2>2. /\ e \in Entries /\ e.length \in Nat
        /\ session.offset \in Nat /\ session.offset < e.length
        /\ session.offset % 7 = 0
        /\ session.toggle = (session.offset \div 7) % 2
        /\ session.toggle \in {0, 1}
    BY <1>1, <1>4, CoeAssumption DEF Sound, SEGMENT
  <2>3. /\ Advanced(chunk, rest).active = (chunk # rest)
        /\ Advanced(chunk, rest).entry = e
        /\ Advanced(chunk, rest).offset = session.offset + chunk
        /\ Advanced(chunk, rest).toggle = 1 - session.toggle
    BY <1>1 DEF Advanced, Sound
  <2>4. Advanced(chunk, rest) \in
          [active : BOOLEAN, entry : Entries \cup {NoEntry},
           offset : Nat, toggle : {0, 1}]
    <3>1. chunk \in Nat
      BY <2>2 DEF SEGMENT
    <3>2. /\ (chunk # rest) \in BOOLEAN
          /\ session.offset + chunk \in Nat
          /\ 1 - session.toggle \in {0, 1}
      BY <2>2, <3>1
    <3>. QED BY <1>1, <2>2, <3>2 DEF Advanced, Sound
  <2>5. chunk # rest =>
          /\ chunk = 7
          /\ session.offset + 7 < e.length
          /\ (session.offset + 7) % 7 = 0
          /\ 1 - session.toggle = ((session.offset + 7) \div 7) % 2
    BY <2>2, Z3 DEF SEGMENT
  <2>6. chunk # rest => e.length > EXPEDITED
    BY <1>1, <1>4 DEF Sound
  <2>. QED BY <2>1, <2>2, <2>3, <2>4, <2>5, <2>6 DEF Sound, SEGMENT
<1>. QED BY <1>2, <1>3, <1>4 DEF IInv, SessionType

LEMMA ProcessSound ==
  ASSUME NEW req, IInv
  PROVE  Sound(Process(req).session)
<1>1. Sound(session)
  BY DEF IInv, SessionType, SessionInObject, Sound
<1>2. Sound(Closed)
  BY <1>1 DEF Sound, Closed
<1>3. \/ Process(req).session = session
      \/ Process(req).session = Closed
      \/ Process(req).session = UploadInit(req).session
      \/ Process(req).session = UploadSegment(req).session
  BY DEF Process, Result, SdoInfo, DownloadInit
<1>. QED BY <1>1, <1>2, <1>3, UploadInitSound, UploadSegmentSound

LEMMA IInvStep ==
  ASSUME IInv, [Next]_vars
  PROVE  IInv'
<1>1. CASE Serve \/ ServeRefused
  <2>1. PICK req : session' = Process(req).session
    BY <1>1 DEF Serve, ServeRefused
  <2>2. Sound(session')
    BY <2>1, ProcessSound
  <2>3. table' = table
    BY <1>1 DEF Serve, ServeRefused
  <2>. QED BY <2>2, <2>3 DEF IInv, SessionType, SessionInObject, Sound
<1>2. CASE Reinit \/ \E tab \in Tables : SetTable(tab)
  <2>1. table' \in Tables /\ session' = session
    BY <1>2, CoeAssumption DEF Reinit, SetTable
  <2>. QED BY <2>1 DEF IInv, SessionType, SessionInObject
<1>3. CASE \/ \E o \in Operations : Ask(o)
           \/ ReadReply \/ Repeat \/ GiveUp
           \/ \E req \in Strays : Stray(req)
           \/ LoseRequest \/ LoseReply
           \/ UNCHANGED vars
  <2>1. table' = table /\ session' = session
    BY <1>3 DEF Ask, ReadReply, Repeat, GiveUp, Stray, LoseRequest,
                LoseReply, vars, server
  <2>. QED BY <2>1 DEF IInv, SessionType, SessionInObject
<1>. QED BY <1>1, <1>2, <1>3 DEF Next

(* A session is never read past its object: handle_upload_segment.         *)
THEOREM SessionSafe == Spec => []SessionInObject
<1>1. Init => IInv
  BY CoeAssumption DEF Init, IInv, SessionType, SessionInObject, Idle
<1>2. IInv /\ [Next]_vars => IInv'
  BY IInvStep
<1>3. IInv => SessionInObject
  BY DEF IInv
<1>. QED BY <1>1, <1>2, <1>3, PTL DEF Spec

-----------------------------------------------------------------------------
(* What a whole operation keeps: the transfer, and what the reply in SM1   *)
(* answers.                                                                *)

(* A byte knows its object and its place there, in any version.            *)
StorageOK ==
  /\ storage \in [Entries -> Seq(ByteValues)]
  /\ \A e \in Entries :
       /\ Len(storage[e]) = e.length
       /\ \A i \in 1 .. e.length : storage[e][i].of = Key(e) /\ storage[e][i].at = i

ClientOK ==
  /\ op \in Operations
  /\ state \in {"idle", "init", "segment", "ok", "failed"}
  /\ size \in Nat /\ toggle \in {0, 1} /\ counter \in 0 .. COUNTERS
  /\ Waiting => counter # 0
  /\ clean \in BOOLEAN /\ faults \in 0 .. MaxFaults

Current == CurrentRequest(op, state, toggle, counter)

Sm0OK ==
  sm0 # NoFrame => \/ Waiting /\ sm0 = Current
                   \/ ~Waiting /\ sm0 \in Strays

(* How many requests ago the client used the counter c: fewer than there   *)
(* are counters, because only faults leave an old reply in SM1.            *)
Age(c) == IF c <= counter THEN counter - c ELSE counter - c + COUNTERS
Pending == IF sm0 # NoFrame /\ Waiting THEN 1 ELSE 0

Sm1OK ==
  sm1 # NoFrame =>
    \/ sm1.counter = 0
    \/ /\ SM1_LEN >= 16 /\ sm1 \in Replies
       /\ sm1.counter \in 1 .. COUNTERS /\ counter # 0
       /\ Age(sm1.counter) <= faults + Pending

(* The reply in SM1 answers the request of this stage.                     *)
Answered == Waiting /\ sm1 # NoFrame /\ sm1.counter = counter

(* The entry the operation is about.                                       *)
Target == Lookup(table, op.index, op.sub)

GotOK ==
  op.kind = "upload" =>
    /\ got \in Seq(ByteValues)
    /\ \A i \in DOMAIN got : got[i].of = AskedKey /\ got[i].at = i

(* The session, before and after it has served a segment request.          *)
Fresh(ses) == ses.offset = Len(got) /\ ses.toggle = toggle
Ahead(ses) == ses.offset = Len(got) + SEGMENT /\ ses.toggle = 1 - toggle

StageOK ==
  /\ state = "init" => got = <<>> /\ size = 0
  /\ state = "segment" =>
       /\ op.kind = "upload" /\ Target \in Entries
       /\ size = Target.length /\ Len(got) < size /\ size > EXPEDITED
       /\ session.active =>
            session.entry = Target /\ (Fresh(session) \/ Ahead(session))

Written(sto) ==
  \E e \in Entries : /\ Key(e) = AskedKey
                     /\ SubSeq(sto[e], 1, Len(op.data)) = op.data

Rest  == Target.length - Len(got)
Chunk == IF Rest > SEGMENT THEN SEGMENT ELSE Rest

InitAnswer(r, ses, sto) ==
  \/ r.cmd = "abort"
  \/ r.cmd = "download" /\ op.kind = "download" /\ Written(sto)
  \/ /\ r.cmd = "upload" /\ op.kind = "upload" /\ Target \in Entries
     /\ \/ r.size = 0 /\ r.data = sto[Target] /\ Target.length > 0
        \/ /\ r.size = Target.length /\ Target.length > EXPEDITED
           /\ "R" \in Target.access /\ ses = Opened(Target)

SegmentAnswer(r, ses, sto) ==
  \/ r.cmd = "abort"
  \/ /\ r.cmd = "segment" /\ (r.last <=> Chunk = Rest)
     /\ r.data = SubSeq(sto[Target], Len(got) + 1, Len(got) + Chunk)
     /\ ses.active => Ahead(ses)

Answer(r, ses, sto) ==
  /\ state = "init" => InitAnswer(r, ses, sto)
  /\ state = "segment" => SegmentAnswer(r, ses, sto)

AnswerOK == Answered => Answer(sm1, session, storage)

(* Nothing disturbed the operation: the request finds the session as the   *)
(* last reply left it, and its reply is the one it asked for.              *)
CleanOK ==
  clean /\ Waiting =>
    /\ state = "segment" /\ sm0 # NoFrame =>
         session.active /\ Fresh(session)
    /\ Answered =>
         /\ sm0 = NoFrame
         /\ state = "init" => sm1.cmd = op.kind \/ Refused(op)
         /\ state = "segment" =>
              sm1.cmd = "segment" /\ (~sm1.last => session.active)

OInv ==
  /\ IInv /\ StorageOK /\ ClientOK /\ Sm0OK /\ Sm1OK
  /\ GotOK /\ StageOK /\ AnswerOK /\ CleanOK

(* The entry found is the one asked for.                                   *)
LEMMA LookupFinds ==
  ASSUME NEW tab \in Tables, NEW index, NEW sub,
         Lookup(tab, index, sub) # NoEntry
  PROVE  /\ Lookup(tab, index, sub) \in Entries
         /\ Key(Lookup(tab, index, sub)) = <<index, sub>>
<1> DEFINE hits == {e \in EntriesOf(tab) : Key(e) = <<index, sub>>}
<1>1. Lookup(tab, index, sub) = IF hits = {} THEN NoEntry ELSE CHOOSE e \in hits : TRUE
  BY DEF Lookup
<1>2. Lookup(tab, index, sub) \in hits
  BY <1>1
<1> QED
  BY <1>2 DEF Entries, EntriesOf

LEMMA CurrentFacts ==
  ASSUME ClientOK, Waiting
  PROVE  /\ Current \in Requests /\ Current # NoFrame
         /\ Current.svc = "sdo" /\ Current.counter = counter
         /\ Current.expedited
         /\ \A i \in DOMAIN Current.data :
              Current.data[i].of = Key(Current) /\ Current.data[i].at = i
         /\ state = "init" =>
              /\ Current.cmd = op.kind /\ Current.data = op.data
              /\ Current.index = op.index /\ Current.sub = op.sub
         /\ state = "segment" => Current.cmd = "segment" /\ Current.toggle = toggle
<1>1. /\ op \in Operations /\ op \in [kind : {"upload", "download"}, index : Int,
                                   sub : Int, data : Seq(ByteValues)]
      /\ \A i \in DOMAIN op.data : op.data[i].of = Key(op) /\ op.data[i].at = i
  BY CoeAssumption DEF ClientOK
<1>2. counter \in Nat /\ toggle \in {0, 1}
  BY CoeAssumption DEF ClientOK
<1>3. CASE state = "segment"
  <2>1. Current = [svc |-> "sdo", cmd |-> "segment", index |-> 0, sub |-> 0,
                   toggle |-> toggle, expedited |-> TRUE, data |-> <<>>,
                   counter |-> counter]
    BY <1>3 DEF Current, CurrentRequest, Request
  <2>2. Current \in Requests
    BY <1>2, <2>1 DEF Requests, Commands
  <2>3. Current # NoFrame
    BY <2>2, CoeAssumption
  <2>4. DOMAIN Current.data = {}
    BY <2>1
  <2> QED
    BY <1>3, <2>1, <2>2, <2>3, <2>4
<1>4. CASE state # "segment"
  <2>1. Current = [svc |-> "sdo", cmd |-> op.kind, index |-> op.index,
                   sub |-> op.sub, toggle |-> 0, expedited |-> TRUE,
                   data |-> op.data, counter |-> counter]
    BY <1>4 DEF Current, CurrentRequest, Request
  <2>2. Current \in Requests
    BY <1>1, <1>2, <2>1 DEF Requests, Commands
  <2>3. Key(Current) = Key(op)
    BY <2>1 DEF Key
  <2> QED
    BY <1>1, <1>4, <2>1, <2>2, <2>3, CoeAssumption
<1> QED
  BY <1>3, <1>4

LEMMA ReplyFacts ==
  ASSUME NEW req \in Requests, NEW cmd \in Commands
  PROVE  LET r == Reply(req, cmd)
         IN  /\ r \in Replies /\ r.cmd = cmd /\ r.counter = req.counter
             /\ r.size = 0 /\ r.data = <<>>
  BY DEF Reply, Requests, Replies, Codes

LEMMA AbortFacts ==
  ASSUME NEW req \in Requests, NEW code \in Codes
  PROVE  LET r == Abort(req, code)
         IN  r \in Replies /\ r.cmd = "abort" /\ r.counter = req.counter
<1> DEFINE r == Reply(req, "abort")
<1>1. r \in Replies /\ r.cmd = "abort" /\ r.counter = req.counter
  BY ReplyFacts DEF Commands
<1> HIDE DEF r
<1>2. [r EXCEPT !.code = code] \in Replies
  BY <1>1 DEF Replies
<1> QED
  BY <1>1, <1>2 DEF Abort, Replies, r

LEMMA RefusalFacts ==
  ASSUME NEW e, NEW req
  PROVE  UploadRefusal(e, req) \in Codes /\ DownloadRefusal(e, req) \in Codes
  BY DEF UploadRefusal, DownloadRefusal, NotFound, Codes

-----------------------------------------------------------------------------
(* The handlers.  Whatever the request: what it leaves in the storage, and *)
(* whose number its reply carries.                                         *)
StorageSound(sto) ==
  /\ sto \in [Entries -> Seq(ByteValues)]
  /\ \A e \in Entries :
       /\ Len(sto[e]) = e.length
       /\ \A i \in 1 .. e.length : sto[e][i].of = Key(e) /\ sto[e][i].at = i

LEMMA WriteSound ==
  ASSUME StorageOK, NEW e \in Entries, NEW data \in Seq(ByteValues),
         \A i \in DOMAIN data : data[i].of = Key(e) /\ data[i].at = i,
         Len(data) <= e.length
  PROVE  /\ StorageSound(OdWrite(e, data))
         /\ SubSeq(OdWrite(e, data)[e], 1, Len(data)) = data
<1> DEFINE b == [i \in 1 .. e.length |-> IF i <= Len(data) THEN data[i]
                                        ELSE storage[e][i]]
<1>1. /\ storage[e] \in Seq(ByteValues) /\ Len(storage[e]) = e.length
      /\ e.length \in Nat /\ Len(data) \in Nat
      /\ \A i \in 1 .. e.length : storage[e][i].of = Key(e) /\ storage[e][i].at = i
  BY CoeAssumption DEF StorageOK
<1>2. \A i \in 1 .. Len(data) : i \in DOMAIN data /\ data[i] \in ByteValues
  OBVIOUS
<1>3. \A i \in 1 .. e.length : storage[e][i] \in ByteValues
  BY <1>1
<1>4. /\ b \in [1 .. e.length -> ByteValues]
      /\ \A i \in 1 .. e.length : b[i].of = Key(e) /\ b[i].at = i
      /\ \A i \in 1 .. Len(data) : b[i] = data[i]
  BY <1>1, <1>2, <1>3
<1>5. OdWrite(e, data) = [storage EXCEPT ![e] = b]
  BY DEF OdWrite
<1> HIDE DEF b
<1>6. b \in Seq(ByteValues) /\ Len(b) = e.length
  BY <1>1, <1>4
<1>7. StorageSound(OdWrite(e, data))
  BY <1>4, <1>5, <1>6 DEF StorageOK, StorageSound
<1>8. SubSeq(b, 1, Len(data)) = data
  <2>1. /\ SubSeq(b, 1, Len(data)) \in Seq(ByteValues)
        /\ Len(SubSeq(b, 1, Len(data))) = Len(data)
        /\ \A i \in 1 .. Len(data) : SubSeq(b, 1, Len(data))[i] = b[i]
    BY <1>1, <1>6
  <2>2. \A i \in 1 .. Len(data) : SubSeq(b, 1, Len(data))[i] = data[i]
    BY <1>4, <2>1
  <2> QED
    BY <2>1, <2>2
<1> QED
  BY <1>5, <1>7, <1>8 DEF StorageOK

LEMMA ProcessStorage ==
  ASSUME StorageOK, table \in Tables, NEW req \in Requests,
         \A i \in DOMAIN req.data : req.data[i].of = Key(req) /\ req.data[i].at = i
  PROVE  StorageSound(Process(req).storage)
<1> DEFINE e == Lookup(table, req.index, req.sub)
<1>1. StorageSound(storage)
  BY DEF StorageOK, StorageSound
<1>2. \/ Process(req).storage = storage
      \/ /\ DownloadRefusal(e, req) = "none"
         /\ Process(req).storage = OdWrite(e, req.data)
  BY DEF Process, Result, SdoInfo, UploadInit, DownloadInit, UploadSegment
<1>3. ASSUME DownloadRefusal(e, req) = "none"
      PROVE  StorageSound(OdWrite(e, req.data))
  <2>1. e # NoEntry /\ ~(Len(req.data) > e.length)
    BY <1>3 DEF DownloadRefusal, NotFound
  <2>2. e \in Entries /\ Key(e) = Key(req)
    BY <2>1, LookupFinds DEF Key
  <2>3. req.data \in Seq(ByteValues) /\ Len(req.data) <= e.length
    BY <2>1, <2>2, CoeAssumption DEF Requests
  <2> HIDE DEF e
  <2> QED
    BY <2>2, <2>3, WriteSound
<1> QED
  BY <1>1, <1>2, <1>3

LEMMA ProcessCounter ==
  ASSUME NEW req \in Requests, Process(req).reply # NoFrame
  PROVE  Process(req).reply.counter = req.counter
<1>1. \A cmd \in Commands : Reply(req, cmd).counter = req.counter
  BY DEF Reply
<1>2. \A code \in Codes : Abort(req, code).counter = req.counter
  BY DEF Abort, Reply
<1> QED
  BY DEF Process, Result, SdoInfo, UploadInit, DownloadInit, UploadSegment, Abort, Reply
(* A reply the client may find: numbered as its request, and it fits.      *)
Numbered(reply) ==
  reply \in Replies /\ reply.counter = counter /\ reply.cmd # "list"

(* The request for an upload opens a session on the object, or has all of  *)
(* it, and takes nothing away from an earlier answer to the same request.  *)
LEMMA ServeUpload ==
  ASSUME OInv, Waiting, state = "init", op.kind = "upload"
  PROVE  LET r == Process(Current)
         IN  /\ r.storage = storage /\ Numbered(r.reply)
             /\ InitAnswer(r.reply, r.session, storage)
             /\ r.reply.cmd = "upload" \/ Refused(op)
             /\ \A q : InitAnswer(q, session, storage)
                         => InitAnswer(q, r.session, storage)
<1> DEFINE r == Process(Current)
           code == UploadRefusal(Target, Current)
           resp == Reply(Current, "upload")
<1>1. /\ Current \in Requests /\ Current.svc = "sdo" /\ Current.cmd = "upload"
      /\ Current.counter = counter
      /\ Current.index = op.index /\ Current.sub = op.sub
  BY CurrentFacts DEF OInv
<1> HIDE DEF Current
<1>2. r = IF code # "none"
            THEN Result(Closed, storage, Abort(Current, code))
          ELSE IF Target.length <= EXPEDITED
            THEN Result(Closed, storage, [resp EXCEPT !.data = storage[Target]])
          ELSE Result(Opened(Target), storage, [resp EXCEPT !.size = Target.length])
  BY <1>1 DEF Process, UploadInit, Target
<1>3. resp \in Replies /\ resp.cmd = "upload" /\ resp.counter = counter
      /\ resp.size = 0
  BY <1>1, ReplyFacts DEF Commands
<1>4. code = "none" => /\ Target # NoEntry /\ "R" \in Target.access
                       /\ Target.length # 0
  BY DEF UploadRefusal, NotFound
<1>5. Target # NoEntry => /\ Target \in Entries /\ Target.length \in Nat
                          /\ Len(storage[Target]) = Target.length
                          /\ storage[Target] \in Seq(ByteValues)
  BY LookupFinds, CoeAssumption DEF Target, OInv, IInv, StorageOK
<1> HIDE DEF r, code, resp
<1>6. CASE code # "none"
  <2>1. /\ Abort(Current, code) \in Replies
        /\ Abort(Current, code).cmd = "abort"
        /\ Abort(Current, code).counter = counter
    BY <1>1, AbortFacts, RefusalFacts DEF code
  <2>2. r.session = Closed /\ r.storage = storage /\ r.reply = Abort(Current, code)
    BY <1>2, <1>6 DEF Result
  <2>3. Target = NoEntry \/ Target.length = 0 \/ "R" \notin Target.access
    BY <1>6 DEF code, UploadRefusal
  <2>4. Refused(op)
    BY <2>3 DEF Refused, Target
  <2>5. ASSUME NEW q, InitAnswer(q, session, storage)
        PROVE  InitAnswer(q, Closed, storage)
    <3>1. NoEntry \notin Entries
      BY CoeAssumption
    <3>2. ~(/\ Target \in Entries /\ Target.length > EXPEDITED
            /\ "R" \in Target.access)
      BY <2>3, <3>1, CoeAssumption DEF EXPEDITED
    <3> QED
      BY <2>5, <3>2 DEF InitAnswer
  <2> QED
    BY <2>1, <2>2, <2>4, <2>5 DEF Numbered, InitAnswer, r
<1>7. CASE code = "none" /\ Target.length <= EXPEDITED
  <2> DEFINE a == [resp EXCEPT !.data = storage[Target]]
  <2>1. r.session = Closed /\ r.storage = storage /\ r.reply = a
    BY <1>2, <1>7 DEF Result
  <2>2. /\ a \in Replies /\ a.cmd = "upload" /\ a.counter = counter
        /\ a.size = 0 /\ a.data = storage[Target]
    BY <1>3, <1>4, <1>5, <1>7 DEF Replies
  <2> HIDE DEF a
  <2>3. ASSUME NEW q, InitAnswer(q, session, storage)
        PROVE  InitAnswer(q, Closed, storage)
    <3>1. ~(Target.length > EXPEDITED)
      BY <1>4, <1>5, <1>7 DEF EXPEDITED
    <3> QED
      BY <2>3, <3>1 DEF InitAnswer
  <2>4. InitAnswer(a, Closed, storage)
    <3>1. Target.length > 0
      BY <1>4, <1>5, <1>7
    <3> QED
      BY <1>4, <1>5, <1>7, <2>2, <3>1 DEF InitAnswer
  <2> QED
    BY <2>1, <2>2, <2>3, <2>4 DEF Numbered, r
<1>8. CASE code = "none" /\ ~(Target.length <= EXPEDITED)
  <2> DEFINE a == [resp EXCEPT !.size = Target.length]
  <2>1. r.session = Opened(Target) /\ r.storage = storage /\ r.reply = a
    BY <1>2, <1>8 DEF Result
  <2>2. /\ a \in Replies /\ a.cmd = "upload" /\ a.counter = counter
        /\ a.size = Target.length
    BY <1>3, <1>4, <1>5, <1>8 DEF Replies
  <2> HIDE DEF a
  <2>3. Target.length > EXPEDITED
    BY <1>4, <1>5, <1>8 DEF EXPEDITED
  <2>4. ASSUME NEW q, InitAnswer(q, session, storage)
        PROVE  InitAnswer(q, Opened(Target), storage)
    BY <2>4 DEF InitAnswer
  <2>5. InitAnswer(a, Opened(Target), storage)
    BY <1>4, <1>5, <1>8, <2>2, <2>3 DEF InitAnswer
  <2> QED
    BY <2>1, <2>2, <2>4, <2>5 DEF Numbered, r
<1> QED
  BY <1>6, <1>7, <1>8 DEF r

(* A download that is confirmed has been written.                          *)
LEMMA ServeDownload ==
  ASSUME OInv, Waiting, state = "init", op.kind = "download"
  PROVE  LET r == Process(Current)
         IN  /\ r.session = session /\ Numbered(r.reply)
             /\ InitAnswer(r.reply, session, r.storage)
             /\ r.reply.cmd = "download" \/ Refused(op)
             /\ \A q : InitAnswer(q, session, storage)
                         => InitAnswer(q, session, r.storage)
<1> DEFINE r == Process(Current)
           code == DownloadRefusal(Target, Current)
           resp == Reply(Current, "download")
<1>1. /\ Current \in Requests /\ Current.svc = "sdo" /\ Current.cmd = "download"
      /\ Current.counter = counter /\ Current.expedited
      /\ Current.index = op.index /\ Current.sub = op.sub
      /\ Current.data = op.data
      /\ \A i \in DOMAIN Current.data :
           Current.data[i].of = Key(Current) /\ Current.data[i].at = i
  BY CurrentFacts DEF OInv
<1> HIDE DEF Current
<1>2. r = IF code # "none"
            THEN Result(session, storage, Abort(Current, code))
          ELSE Result(session, OdWrite(Target, op.data), resp)
  BY <1>1 DEF Process, DownloadInit, Target
<1>3. resp \in Replies /\ resp.cmd = "download" /\ resp.counter = counter
  BY <1>1, ReplyFacts DEF Commands
<1> HIDE DEF r, resp
<1>4. CASE code # "none"
  <2>1. /\ Abort(Current, code) \in Replies
        /\ Abort(Current, code).cmd = "abort"
        /\ Abort(Current, code).counter = counter
    BY <1>1, AbortFacts, RefusalFacts
  <2>2. r.session = session /\ r.storage = storage /\ r.reply = Abort(Current, code)
    BY <1>2, <1>4 DEF Result
  <2>3. \/ Target = NoEntry \/ Len(op.data) > Target.length
        \/ "W" \notin Target.access
    BY <1>1, <1>4 DEF DownloadRefusal
  <2>4. Refused(op)
    BY <2>3 DEF Refused, Target
  <2> QED
    BY <2>1, <2>2, <2>4 DEF Numbered, InitAnswer, r
<1>5. CASE code = "none"
  <2>1. Target # NoEntry /\ ~(Len(op.data) > Target.length)
    BY <1>1, <1>5 DEF DownloadRefusal, NotFound
  <2>2. Target \in Entries /\ Key(Target) = AskedKey
    BY <2>1, LookupFinds DEF Target, AskedKey, Key, OInv, IInv
  <2>3. /\ op.data \in Seq(ByteValues)
        /\ \A i \in DOMAIN op.data : op.data[i].of = Key(Target) /\ op.data[i].at = i
    BY <1>1, <2>2 DEF Requests, AskedKey, Key
  <2>4. Len(op.data) <= Target.length
    BY <2>1, <2>2, <2>3, CoeAssumption
  <2>5. SubSeq(OdWrite(Target, op.data)[Target], 1, Len(op.data)) = op.data
    BY <2>2, <2>3, <2>4, WriteSound DEF OInv
  <2>6. /\ r.session = session /\ r.storage = OdWrite(Target, op.data)
        /\ r.reply = resp
    BY <1>2, <1>5 DEF Result
  <2>7. Written(r.storage)
    BY <2>2, <2>5, <2>6 DEF Written
  <2>8. ASSUME NEW q, InitAnswer(q, session, storage)
        PROVE  InitAnswer(q, session, r.storage)
    BY <2>7, <2>8 DEF InitAnswer
  <2>9. InitAnswer(resp, session, r.storage)
    BY <1>3, <2>7 DEF InitAnswer
  <2> QED
    BY <1>3, <2>6, <2>8, <2>9 DEF Numbered, r
<1> QED
  BY <1>4, <1>5
(* A segment request moves the session by one segment, once: asked again,  *)
(* it finds the toggle bit changed and closes the session.                 *)
LEMMA ServeSegment ==
  ASSUME OInv, state = "segment"
  PROVE  LET r == Process(Current)
         IN  /\ r.storage = storage /\ Numbered(r.reply)
             /\ r.session.active => r.session.entry = Target /\ Ahead(r.session)
             /\ SegmentAnswer(r.reply, r.session, storage)
             /\ session.active /\ Fresh(session) =>
                  /\ r.reply.cmd = "segment"
                  /\ ~r.reply.last => r.session.active
             /\ \A q : SegmentAnswer(q, session, storage)
                         => SegmentAnswer(q, r.session, storage)
<1> DEFINE r     == Process(Current)
           e     == session.entry
           rest  == e.length - session.offset
           chunk == IF rest > SEGMENT THEN SEGMENT ELSE rest
<1>1. /\ Current \in Requests /\ Current.svc = "sdo" /\ Current.cmd = "segment"
      /\ Current.counter = counter /\ Current.toggle = toggle
  BY CurrentFacts DEF OInv, Waiting
<1> HIDE DEF Current
<1>2. r = IF ~session.active
            THEN Result(session, storage, Abort(Current, "GENERAL"))
          ELSE IF toggle # session.toggle
            THEN Result(Closed, storage,
                        [Abort(Current, "TOGGLE_BIT")
                           EXCEPT !.index = e.index, !.sub = e.sub])
          ELSE Result(Advanced(chunk, rest), storage,
                      [Reply(Current, "segment")
                         EXCEPT !.toggle = toggle, !.last = chunk = rest,
                                !.data = SubSeq(storage[e], session.offset + 1,
                                                session.offset + chunk)])
  BY <1>1 DEF Process, UploadSegment
<1>3. /\ session \in [active : BOOLEAN, entry : Entries \cup {NoEntry},
                      offset : Nat, toggle : {0, 1}]
      /\ toggle \in {0, 1}
  BY DEF OInv, IInv, SessionType, ClientOK
<1>4. session.active => /\ e \in Entries /\ e.length \in Nat /\ e = Target
                        /\ e.index \in Int /\ e.sub \in Int
                        /\ session.offset < e.length
                        /\ Fresh(session) \/ Ahead(session)
                        /\ storage[e] \in Seq(ByteValues)
                        /\ Len(storage[e]) = e.length
  BY CoeAssumption DEF OInv, IInv, SessionInObject, StageOK, StorageOK
<1>5. Fresh(session) <=> session.offset = Len(got) /\ session.toggle = toggle
  BY DEF Fresh
<1>6. Ahead(session) <=> session.offset = Len(got) + SEGMENT /\ session.toggle = 1 - toggle
  BY DEF Ahead
<1>7. toggle # 1 - toggle
  BY <1>3
<1>8. /\ Closed.active = FALSE
      /\ Closed \in [active : BOOLEAN, entry : Entries \cup {NoEntry},
                     offset : Nat, toggle : {0, 1}]
  BY <1>3 DEF Closed
<1> HIDE DEF r, e, rest, chunk
<1>9. \A q, ses : SegmentAnswer(q, session, storage) /\ ~ses.active
                    => SegmentAnswer(q, ses, storage)
  BY DEF SegmentAnswer
<1>10. CASE ~session.active
  <2>1. /\ r.session = session /\ r.storage = storage
        /\ r.reply = Abort(Current, "GENERAL")
    BY <1>2, <1>10 DEF Result
  <2>2. r.reply \in Replies /\ r.reply.cmd = "abort" /\ r.reply.counter = counter
    BY <1>1, <2>1, AbortFacts DEF Codes
  <2> QED
    BY <1>10, <2>1, <2>2 DEF Numbered, SegmentAnswer, r
<1>11. CASE session.active /\ toggle # session.toggle
  <2> DEFINE a == Abort(Current, "TOGGLE_BIT")
             b == [a EXCEPT !.index = e.index, !.sub = e.sub]
  <2>1. r.session = Closed /\ r.storage = storage /\ r.reply = b
    BY <1>2, <1>11 DEF Result
  <2>2. a \in Replies /\ a.cmd = "abort" /\ a.counter = counter
    BY <1>1, AbortFacts DEF Codes
  <2> HIDE DEF a
  <2>3. b \in Replies /\ b.cmd = "abort" /\ b.counter = counter
    BY <1>4, <1>11, <2>2 DEF Replies
  <2> HIDE DEF b
  <2>4. ~Fresh(session)
    BY <1>5, <1>11
  <2>5. SegmentAnswer(b, Closed, storage)
    BY <2>3 DEF SegmentAnswer
  <2>6. \A q : SegmentAnswer(q, session, storage) => SegmentAnswer(q, Closed, storage)
    BY <1>8, <1>9
  <2> QED
    BY <1>8, <2>1, <2>3, <2>4, <2>5, <2>6 DEF Numbered, r
<1>12. CASE session.active /\ toggle = session.toggle
  <2> DEFINE ses == Advanced(chunk, rest)
             a   == Reply(Current, "segment")
             d   == SubSeq(storage[e], session.offset + 1, session.offset + chunk)
             b   == [a EXCEPT !.toggle = toggle, !.last = chunk = rest, !.data = d]
  <2>1. r.session = ses /\ r.storage = storage /\ r.reply = b
    BY <1>2, <1>12 DEF Result
  <2>2. a \in Replies /\ a.cmd = "segment" /\ a.counter = counter
    BY <1>1, ReplyFacts DEF Commands
  <2>3. session.offset = Len(got) /\ Fresh(session)
    BY <1>4, <1>5, <1>6, <1>7, <1>12
  <2>4. rest = Rest /\ chunk = Chunk
    BY <1>4, <1>12, <2>3 DEF rest, chunk, Rest, Chunk
  <2>5. /\ rest \in Nat /\ rest = e.length - session.offset
        /\ chunk \in Nat /\ chunk <= rest /\ (chunk # rest => chunk = SEGMENT)
    <3>1. rest \in Nat
      BY <1>3, <1>4, <1>12 DEF rest
    <3> QED
      BY <3>1 DEF rest, chunk, SEGMENT
  <2>6. d \in Seq(ByteValues)
    <3>1. session.offset \in Nat /\ session.offset + chunk <= Len(storage[e])
      BY <1>3, <1>4, <1>12, <2>5
    <3> QED
      BY <1>4, <1>12, <2>5, <3>1
  <2>7. /\ ses.active = (chunk # rest) /\ ses.entry = e
        /\ ses.offset = session.offset + chunk /\ ses.toggle = 1 - session.toggle
    BY <1>3 DEF Advanced, e
  <2> HIDE DEF a, d, ses
  <2>8. /\ b \in Replies /\ b.cmd = "segment" /\ b.counter = counter
        /\ b.last = (chunk = rest) /\ b.data = d
    BY <1>3, <2>2, <2>6 DEF Replies
  <2> HIDE DEF b
  <2>9. ses.active => ses.entry = Target /\ Ahead(ses)
    BY <1>4, <1>12, <2>3, <2>5, <2>7 DEF Ahead
  <2>10. d = SubSeq(storage[Target], Len(got) + 1, Len(got) + Chunk)
    BY <1>4, <1>12, <2>3, <2>4 DEF d
  <2>11. SegmentAnswer(b, ses, storage)
    BY <2>4, <2>8, <2>9, <2>10 DEF SegmentAnswer
  <2>12. \A q : SegmentAnswer(q, session, storage) => SegmentAnswer(q, ses, storage)
    BY <2>9 DEF SegmentAnswer
  <2>13. ~b.last => ses.active
    BY <2>7, <2>8
  <2> QED
    BY <2>1, <2>8, <2>9, <2>11, <2>12, <2>13 DEF Numbered, r
<1> QED
  BY <1>3, <1>10, <1>11, <1>12
(* All of it, for the request the client waits on.                         *)
LEMMA ServeCurrent ==
  ASSUME OInv, Waiting
  PROVE  LET r == Process(Current)
         IN  /\ StorageSound(r.storage) /\ Numbered(r.reply)
             /\ r.reply # NoFrame /\ ReplyLength(r.reply) = 16
             /\ Answer(r.reply, r.session, r.storage)
             /\ \A q : Answer(q, session, storage)
                         => Answer(q, r.session, r.storage)
             /\ state = "segment" /\ r.session.active =>
                  r.session.entry = Target /\ Ahead(r.session)
             /\ state = "init" => r.reply.cmd = op.kind \/ Refused(op)
             /\ state = "segment" /\ session.active /\ Fresh(session) =>
                  r.reply.cmd = "segment" /\ (~r.reply.last => r.session.active)
<1> DEFINE r == Process(Current)
<1>1. StorageSound(r.storage)
  BY CurrentFacts, ProcessStorage DEF OInv, IInv
<1>2. op.kind \in {"upload", "download"} /\ state \in {"init", "segment"}
  BY CoeAssumption DEF OInv, ClientOK, Waiting
<1>3. ASSUME Numbered(r.reply)
      PROVE  r.reply # NoFrame /\ ReplyLength(r.reply) = 16
  BY <1>3, CoeAssumption DEF Numbered, ReplyLength
<1>4. CASE state = "init" /\ op.kind = "upload"
  <2>1. /\ r.storage = storage /\ Numbered(r.reply)
        /\ InitAnswer(r.reply, r.session, storage)
        /\ r.reply.cmd = "upload" \/ Refused(op)
        /\ \A q : InitAnswer(q, session, storage)
                    => InitAnswer(q, r.session, storage)
    BY <1>4, ServeUpload
  <2> HIDE DEF r
  <2> QED
    BY <1>1, <1>3, <1>4, <2>1 DEF Answer, r
<1>5. CASE state = "init" /\ op.kind = "download"
  <2>1. /\ r.session = session /\ Numbered(r.reply)
        /\ InitAnswer(r.reply, session, r.storage)
        /\ r.reply.cmd = "download" \/ Refused(op)
        /\ \A q : InitAnswer(q, session, storage)
                    => InitAnswer(q, session, r.storage)
    BY <1>5, ServeDownload
  <2> HIDE DEF r
  <2> QED
    BY <1>1, <1>3, <1>5, <2>1 DEF Answer, r
<1>6. CASE state = "segment"
  <2>1. /\ r.storage = storage /\ Numbered(r.reply)
        /\ r.session.active => r.session.entry = Target /\ Ahead(r.session)
        /\ SegmentAnswer(r.reply, r.session, storage)
        /\ session.active /\ Fresh(session) =>
             r.reply.cmd = "segment" /\ (~r.reply.last => r.session.active)
        /\ \A q : SegmentAnswer(q, session, storage)
                    => SegmentAnswer(q, r.session, storage)
    BY <1>6, ServeSegment
  <2> HIDE DEF r
  <2> QED
    BY <1>1, <1>3, <1>6, <2>1 DEF Answer, r
<1> QED
  BY <1>2, <1>4, <1>5, <1>6

-----------------------------------------------------------------------------
(* The steps.                                                              *)
(* An answer stays one while the operation stays where it is.              *)
LEMMA AnswerFrame ==
  ASSUME UNCHANGED <<op, state, table, got, toggle>>
  PROVE  /\ Answer(sm1, session, storage)' <=> Answer(sm1', session', storage')
         /\ Target' = Target
  BY DEF Answer, InitAnswer, SegmentAnswer, Written, AskedKey, Chunk, Rest,
         Target, Ahead

(* Between two operations, the server handles what any master sends.       *)
LEMMA ServeStray ==
  ASSUME OInv, IInv', ~Waiting, Serve \/ ServeRefused
  PROVE  OInv'
<1>1. /\ sm0 # NoFrame /\ sm0' = NoFrame /\ storage' = Process(sm0).storage
      /\ UNCHANGED <<table, client>>
      /\ \/ sm1' = sm1
         \/ sm1' = Process(sm0).reply /\ Process(sm0).reply # NoFrame
      /\ \/ UNCHANGED <<clean, faults>>
         \/ clean' = FALSE /\ faults < MaxFaults /\ faults' = faults + 1
  BY DEF Serve, ServeRefused, Fault
<1>2. sm0 \in Strays
  BY <1>1 DEF OInv, Sm0OK
<1>3. /\ sm0 \in Requests /\ sm0.counter = 0
      /\ \A i \in DOMAIN sm0.data : sm0.data[i].of = Key(sm0) /\ sm0.data[i].at = i
  BY <1>2, CoeAssumption
<1>4. StorageOK'
  <2>1. StorageSound(storage')
    BY <1>1, <1>3, ProcessStorage DEF OInv, IInv
  <2> QED
    BY <2>1 DEF StorageOK, StorageSound
<1>5. ~Waiting' /\ state' = state /\ counter' = counter
  BY <1>1 DEF Waiting, client
<1>6. ClientOK'
  <2>1. MaxFaults \in Nat
    BY CoeAssumption
  <2>2. faults \in 0 .. MaxFaults /\ clean \in BOOLEAN
    BY DEF OInv, ClientOK
  <2>3. faults' \in 0 .. MaxFaults
    BY <1>1, <2>1, <2>2
  <2>4. clean' \in BOOLEAN
    BY <1>1, <2>2
  <2> QED
    BY <1>1, <1>5, <2>3, <2>4 DEF OInv, ClientOK, client
<1>7. Sm1OK'
  <2>1. CASE sm1' = sm1
    BY <1>1, <1>5, <2>1, CoeAssumption DEF OInv, ClientOK, Sm1OK, Age, Pending
  <2>2. CASE sm1' = Process(sm0).reply /\ Process(sm0).reply # NoFrame
    BY <1>3, <2>2, ProcessCounter DEF Sm1OK
  <2> QED
    BY <1>1, <2>1, <2>2
<1>8. GotOK' /\ StageOK'
  BY <1>1, <1>5 DEF OInv, GotOK, StageOK, AskedKey, client, Waiting
<1> QED
  BY <1>1, <1>4, <1>5, <1>6, <1>7, <1>8 DEF OInv, Sm0OK, AnswerOK, Answered, CleanOK

(* During one, it handles the operation's request.                         *)
LEMMA ServeOwn ==
  ASSUME OInv, IInv', Waiting, Serve
  PROVE  OInv'
<1> DEFINE r == Process(Current)
<1>1. sm0 = Current
  BY DEF Serve, OInv, Sm0OK
<1>2. /\ sm0' = NoFrame /\ session' = r.session /\ storage' = r.storage
      /\ sm1' = IF r.reply # NoFrame /\ ReplyLength(r.reply) <= SM1_LEN
                THEN r.reply ELSE sm1
      /\ UNCHANGED <<table, op, state, got, size, toggle, counter, clean, faults>>
  BY <1>1 DEF Serve, client
<1>3. /\ StorageSound(r.storage) /\ Numbered(r.reply)
      /\ r.reply # NoFrame /\ ReplyLength(r.reply) = 16
      /\ Answer(r.reply, r.session, r.storage)
      /\ state = "segment" /\ r.session.active =>
           r.session.entry = Target /\ Ahead(r.session)
      /\ state = "init" => r.reply.cmd = op.kind \/ Refused(op)
      /\ state = "segment" /\ session.active /\ Fresh(session) =>
           r.reply.cmd = "segment" /\ (~r.reply.last => r.session.active)
  BY ServeCurrent
<1> HIDE DEF r
<1>4. /\ StorageOK' /\ Sm0OK' /\ GotOK' /\ Waiting' /\ Refused(op)' = Refused(op)
  BY <1>2, <1>3 DEF OInv, StorageOK, StorageSound, Sm0OK, GotOK, AskedKey,
                    Waiting, Refused
<1>5. ClientOK'
  BY <1>2, <1>4 DEF OInv, ClientOK
<1>6. StageOK'
  <2>1. Target' = Target
    BY <1>2 DEF Target
  <2>2. state = "segment" /\ session'.active => session'.entry = Target /\ Ahead(session)'
    BY <1>2, <1>3 DEF Ahead
  <2> QED
    BY <1>2, <2>1, <2>2 DEF OInv, StageOK
<1>7. CASE SM1_LEN >= 16
  <2>1. sm1' = r.reply
    BY <1>2, <1>3, <1>7, CoeAssumption
  <2>2. Sm1OK'
    <3>1. counter \in 1 .. COUNTERS /\ faults \in Nat
      BY CoeAssumption DEF OInv, ClientOK
    <3>2. r.reply \in Replies /\ r.reply.counter = counter
      BY <1>3 DEF Numbered
    <3>3. Age(sm1.counter)' = 0
      BY <1>2, <2>1, <3>1, <3>2 DEF Age
    <3>4. Pending' \in {0, 1}
      BY DEF Pending
    <3> QED
      BY <1>2, <1>7, <2>1, <3>1, <3>2, <3>3, <3>4 DEF Sm1OK
  <2>3. AnswerOK'
    BY <1>2, <1>3, <2>1, AnswerFrame DEF AnswerOK
  <2>4. CleanOK'
    <3>1. clean /\ state = "segment" => session.active /\ Fresh(session)
      BY <1>1, CurrentFacts DEF OInv, CleanOK, Serve
    <3> QED
      BY <1>2, <1>3, <1>4, <2>1, <3>1 DEF CleanOK
  <2> QED
    BY <1>4, <1>5, <1>6, <2>2, <2>3, <2>4 DEF OInv
<1>8. CASE ~(SM1_LEN >= 16)
  <2>1. sm1' = sm1 /\ (sm1 # NoFrame => sm1.counter = 0)
    BY <1>2, <1>3, <1>8, CoeAssumption DEF OInv, Sm1OK
  <2>2. ~Answered'
    BY <1>2, <1>4, <1>5, <2>1 DEF Answered, ClientOK
  <2> QED
    BY <1>2, <1>4, <1>5, <1>6, <2>1, <2>2 DEF OInv, Sm1OK, AnswerOK, CleanOK
<1> QED
  BY <1>7, <1>8
(* A fault is counted, and an operation it falls in is not clean.          *)
LEMMA FaultFacts ==
  ASSUME ClientOK, Fault
  PROVE  /\ clean' = FALSE /\ faults \in Nat
         /\ faults' = faults + 1 /\ faults' \in 0 .. MaxFaults
<1>1. faults \in 0 .. MaxFaults /\ MaxFaults \in Nat
  BY CoeAssumption DEF ClientOK
<1> QED
  BY <1>1 DEF Fault

(* When its reply is refused, the request is gone but an older answer is   *)
(* still one.                                                              *)
LEMMA RefusedOwn ==
  ASSUME OInv, IInv', Waiting, ServeRefused
  PROVE  OInv'
<1> DEFINE r == Process(Current)
<1>1. sm0 = Current
  BY DEF ServeRefused, OInv, Sm0OK
<1>2. /\ sm0 # NoFrame /\ sm0' = NoFrame
      /\ session' = r.session /\ storage' = r.storage
      /\ UNCHANGED <<table, sm1, op, state, got, size, toggle, counter>>
  BY <1>1 DEF ServeRefused, client
<1>3. /\ StorageSound(r.storage)
      /\ \A q : Answer(q, session, storage) => Answer(q, r.session, r.storage)
      /\ state = "segment" /\ r.session.active =>
           r.session.entry = Target /\ Ahead(r.session)
  BY ServeCurrent
<1> HIDE DEF r
<1>4. /\ clean' = FALSE /\ faults \in Nat
      /\ faults' = faults + 1 /\ faults' \in 0 .. MaxFaults
  BY FaultFacts DEF OInv, ServeRefused
<1>5. StorageOK' /\ Sm0OK' /\ GotOK' /\ Waiting'
  BY <1>2, <1>3 DEF OInv, StorageOK, StorageSound, Sm0OK, GotOK, AskedKey, Waiting
<1>6. ClientOK'
  BY <1>2, <1>4, <1>5 DEF OInv, ClientOK
<1>7. StageOK'
  <2>1. Target' = Target
    BY <1>2 DEF Target
  <2>2. state = "segment" /\ session'.active => session'.entry = Target /\ Ahead(session)'
    BY <1>2, <1>3 DEF Ahead
  <2> QED
    BY <1>2, <2>1, <2>2 DEF OInv, StageOK
<1>8. Sm1OK'
  <2>1. Pending = 1 /\ Pending' = 0
    BY <1>2 DEF Pending
  <2>2. Age(sm1.counter)' = Age(sm1.counter)
    BY <1>2 DEF Age
  <2> QED
    BY <1>2, <1>4, <2>1, <2>2 DEF OInv, Sm1OK
<1>9. AnswerOK'
  BY <1>2, <1>3, AnswerFrame DEF OInv, AnswerOK, Answered, Waiting
<1> QED
  BY <1>4, <1>5, <1>6, <1>7, <1>8, <1>9 DEF OInv, CleanOK

LEMMA TableStep ==
  ASSUME OInv, IInv', NEW tab \in Tables, SetTable(tab)
  PROVE  OInv'
<1>1. /\ ~Waiting /\ ~Waiting'
      /\ UNCHANGED <<storage, session, sm0, sm1, client, clean, faults>>
  BY DEF SetTable, Waiting, client
<1>2. StorageOK' /\ ClientOK' /\ Sm0OK' /\ GotOK'
  BY <1>1 DEF OInv, StorageOK, ClientOK, Sm0OK, GotOK, AskedKey, client
<1>3. Sm1OK'
  BY <1>1 DEF OInv, Sm1OK, Age, Pending, client
<1>4. StageOK'
  BY <1>1 DEF StageOK, Waiting
<1> QED
  BY <1>1, <1>2, <1>3, <1>4 DEF OInv, AnswerOK, Answered, CleanOK

LEMMA ReinitStep ==
  ASSUME OInv, IInv', Reinit
  PROVE  OInv'
<1>1. /\ Waiting => table' = table
      /\ sm1' = NoFrame /\ Waiting' = Waiting
      /\ UNCHANGED <<storage, session, sm0, op, state, got, size, toggle, counter>>
  BY DEF Reinit, Waiting, client
<1>2. /\ clean' = FALSE /\ faults' \in 0 .. MaxFaults
  BY FaultFacts DEF OInv, Reinit
<1>3. StorageOK' /\ ClientOK' /\ Sm0OK' /\ GotOK'
  BY <1>1, <1>2 DEF OInv, StorageOK, ClientOK, Sm0OK, GotOK, AskedKey, Current
<1>4. StageOK'
  <2>1. Waiting => Target' = Target
    BY <1>1 DEF Target
  <2> QED
    BY <1>1, <2>1 DEF OInv, StageOK, Waiting, Fresh, Ahead
<1> QED
  BY <1>1, <1>2, <1>3, <1>4 DEF OInv, Sm1OK, AnswerOK, Answered, CleanOK

(* The request is sent again, or lost, and with it or without it a reply   *)
(* in SM1 is as old as it was.                                             *)
LEMMA RepeatStep ==
  ASSUME OInv, IInv', Repeat \/ LoseRequest
  PROVE  OInv'
<1>1. /\ sm0' = NoFrame \/ (Waiting /\ sm0' = Current)
      /\ Pending \in {0, 1} /\ Pending' \in {0, 1} /\ Waiting' = Waiting
      /\ Current' = Current
      /\ UNCHANGED <<table, storage, session, sm1, op, state, got, size, toggle, counter>>
  BY DEF Repeat, LoseRequest, Current, client, server, Pending, Waiting
<1>2. /\ clean' = FALSE /\ faults \in Nat
      /\ faults' = faults + 1 /\ faults' \in 0 .. MaxFaults
  BY FaultFacts DEF OInv, Repeat, LoseRequest
<1>3. StorageOK' /\ ClientOK' /\ Sm0OK' /\ GotOK'
  BY <1>1, <1>2 DEF OInv, StorageOK, ClientOK, Sm0OK, GotOK, AskedKey
<1>4. Sm1OK'
  <2>1. Age(sm1.counter)' = Age(sm1.counter)
    BY <1>1 DEF Age
  <2>2. ASSUME Age(sm1.counter) <= faults + Pending, counter \in Nat, sm1.counter \in Int
        PROVE  Age(sm1.counter) <= faults' + Pending'
    <3>1. Age(sm1.counter) \in Int
      BY <2>2, CoeAssumption DEF Age
    <3> QED
      BY <1>1, <1>2, <2>2, <3>1
  <2> QED
    BY <1>1, <1>2, <2>1, <2>2, CoeAssumption DEF OInv, ClientOK, Sm1OK
<1>5. StageOK'
  <2>1. Target' = Target
    BY <1>1 DEF Target
  <2> QED
    BY <1>1, <2>1 DEF OInv, StageOK, Fresh, Ahead
<1>6. AnswerOK'
  BY <1>1, AnswerFrame DEF OInv, AnswerOK, Answered
<1> QED
  BY <1>2, <1>3, <1>4, <1>5, <1>6 DEF OInv, CleanOK
LEMMA LoseReplyStep ==
  ASSUME OInv, IInv', LoseReply
  PROVE  OInv'
<1>1. /\ sm1' = NoFrame /\ Waiting' = Waiting /\ Current' = Current
      /\ UNCHANGED <<table, storage, session, sm0, op, state, got, size, toggle, counter>>
  BY DEF LoseReply, Waiting, Current, client, server
<1>2. /\ clean' = FALSE /\ faults' \in 0 .. MaxFaults
  BY FaultFacts DEF OInv, LoseReply
<1>3. StorageOK' /\ ClientOK' /\ Sm0OK' /\ GotOK'
  BY <1>1, <1>2 DEF OInv, StorageOK, ClientOK, Sm0OK, GotOK, AskedKey
<1>4. StageOK'
  <2>1. Target' = Target
    BY <1>1 DEF Target
  <2> QED
    BY <1>1, <2>1 DEF OInv, StageOK, Fresh, Ahead
<1> QED
  BY <1>1, <1>2, <1>3, <1>4 DEF OInv, Sm1OK, AnswerOK, Answered, CleanOK

LEMMA GiveUpStep ==
  ASSUME OInv, IInv', GiveUp
  PROVE  OInv'
<1>1. /\ sm0 = NoFrame /\ state' = "failed" /\ clean' = FALSE /\ ~Waiting'
      /\ UNCHANGED <<table, storage, session, sm0, sm1, op, got, size, toggle,
                     counter, faults>>
  BY DEF GiveUp, Waiting, server
<1>2. StorageOK' /\ ClientOK' /\ Sm0OK' /\ GotOK'
  BY <1>1 DEF OInv, StorageOK, ClientOK, Sm0OK, GotOK, AskedKey
<1>3. Sm1OK'
  BY <1>1 DEF OInv, Sm1OK, Age, Pending
<1>4. StageOK'
  BY <1>1 DEF StageOK
<1> QED
  BY <1>1, <1>2, <1>3, <1>4 DEF OInv, AnswerOK, Answered, CleanOK

LEMMA StrayStep ==
  ASSUME OInv, IInv', NEW req \in Strays, Stray(req)
  PROVE  OInv'
<1>1. /\ sm0' = req /\ ~Waiting /\ ~Waiting'
      /\ UNCHANGED <<table, storage, session, sm1, op, state, got, size, toggle,
                     counter, clean, faults>>
  BY DEF Stray, Waiting, server, client
<1>2. StorageOK' /\ ClientOK' /\ Sm0OK' /\ GotOK'
  BY <1>1 DEF OInv, StorageOK, ClientOK, Sm0OK, GotOK, AskedKey
<1>3. Sm1OK'
  BY <1>1 DEF OInv, Sm1OK, Age, Pending
<1>4. StageOK'
  BY <1>1 DEF StageOK, Waiting
<1> QED
  BY <1>1, <1>2, <1>3, <1>4 DEF OInv, AnswerOK, Answered, CleanOK

LEMMA StutterStep ==
  ASSUME OInv, IInv', UNCHANGED vars
  PROVE  OInv'
<1>1. UNCHANGED <<table, storage, session, sm0, sm1, op, state, got, size, toggle,
                  counter, clean, faults>>
  BY DEF vars, server, client
<1>2. /\ Waiting' = Waiting /\ Current' = Current /\ Target' = Target
      /\ Answered' = Answered /\ Refused(op)' = Refused(op)
  BY <1>1 DEF Waiting, Current, Target, Answered, Refused
<1>3. StorageOK' /\ ClientOK' /\ Sm0OK' /\ GotOK'
  BY <1>1, <1>2 DEF OInv, StorageOK, ClientOK, Sm0OK, GotOK, AskedKey
<1>4. Sm1OK'
  BY <1>1, <1>2 DEF OInv, Sm1OK, Age, Pending
<1>5. StageOK'
  BY <1>1, <1>2 DEF OInv, StageOK, Fresh, Ahead
<1>6. AnswerOK'
  BY <1>1, <1>2, AnswerFrame DEF OInv, AnswerOK
<1>7. CleanOK'
  BY <1>1, <1>2 DEF OInv, CleanOK, Fresh
<1> QED
  BY <1>3, <1>4, <1>5, <1>6, <1>7 DEF OInv

(* The next counter: every reply in SM1 is one request older, and there    *)
(* are too few faults for one to come round.                               *)
LEMMA ProceedFacts ==
  ASSUME OInv, sm0 = NoFrame, NEW o, NEW stage, NEW bit, Proceed(o, stage, bit)
  PROVE  /\ counter' \in 1 .. COUNTERS
         /\ \A c \in 1 .. COUNTERS : counter # 0 /\ Age(c) <= faults =>
              c # counter' /\ Age(c)' <= faults + 1
<1>1. /\ counter \in 0 .. COUNTERS /\ faults \in 0 .. MaxFaults
      /\ COUNTERS \in Nat /\ MaxFaults \in Nat /\ MaxFaults + 1 < COUNTERS
  BY CoeAssumption DEF OInv, ClientOK
<1>2. counter' = IF counter = COUNTERS THEN 1 ELSE counter + 1
  BY DEF Proceed
<1>3. counter' \in 1 .. COUNTERS
  BY <1>1, <1>2
<1>4. ASSUME NEW c \in 1 .. COUNTERS, counter # 0, Age(c) <= faults
      PROVE  c # counter' /\ (IF c <= counter' THEN counter' - c
                              ELSE counter' - c + COUNTERS) <= faults + 1
  BY <1>1, <1>2, <1>4 DEF Age
<1>5. \A c : Age(c)' = IF c <= counter' THEN counter' - c
                       ELSE counter' - c + COUNTERS
  BY DEF Age
<1> QED
  BY <1>3, <1>4, <1>5

LEMMA AskStep ==
  ASSUME OInv, IInv', NEW o \in Operations, Ask(o)
  PROVE  OInv'
<1>1. /\ ~Waiting /\ sm0 = NoFrame /\ op' = o /\ got' = <<>> /\ size' = 0
      /\ clean' = TRUE /\ state' = "init" /\ toggle' = 0
      /\ sm0' = CurrentRequest(o, "init", 0, counter')
      /\ UNCHANGED <<table, storage, session, sm1, faults>>
      /\ Proceed(o, "init", 0)
  BY DEF Ask, Proceed, server
<1>2. /\ counter' \in 1 .. COUNTERS
      /\ \A c \in 1 .. COUNTERS : counter # 0 /\ Age(c) <= faults =>
           c # counter' /\ Age(c)' <= faults + 1
  BY <1>1, ProceedFacts
<1>3. Waiting' /\ sm0' = Current'
  BY <1>1 DEF Waiting, Current
<1>4. ClientOK'
  BY <1>1, <1>2, CoeAssumption DEF OInv, ClientOK
<1>5. sm0' # NoFrame
  <2>1. /\ o.kind \in {"upload", "download"} /\ o.index \in Int /\ o.sub \in Int
        /\ o.data \in Seq(ByteValues) /\ counter' \in Nat
    BY <1>2, CoeAssumption
  <2>2. sm0' = [svc |-> "sdo", cmd |-> o.kind, index |-> o.index, sub |-> o.sub,
                toggle |-> 0, expedited |-> TRUE, data |-> o.data,
                counter |-> counter']
    BY <1>1 DEF CurrentRequest, Request
  <2>3. sm0' \in Requests
    BY <2>1, <2>2 DEF Requests, Commands
  <2> QED
    BY <2>3, CoeAssumption
<1>6. Pending = 0 /\ Pending' = 1
  BY <1>1, <1>3, <1>5 DEF Pending
<1>7. Sm1OK' /\ ~Answered'
  <2>1. CASE sm1 = NoFrame \/ sm1.counter = 0
    BY <1>1, <1>2, <2>1 DEF Sm1OK, Answered
  <2>2. CASE ~(sm1 = NoFrame \/ sm1.counter = 0)
    <3>1. /\ SM1_LEN >= 16 /\ sm1 \in Replies
          /\ sm1.counter \in 1 .. COUNTERS /\ counter # 0
          /\ Age(sm1.counter) <= faults + Pending
      BY <2>2 DEF OInv, Sm1OK
    <3>2. faults + Pending = faults
      BY <1>6, CoeAssumption DEF OInv, ClientOK
    <3>3. sm1.counter # counter' /\ Age(sm1.counter)' <= faults + 1
      BY <1>1, <1>2, <3>1, <3>2 DEF Age
    <3> QED
      BY <1>1, <1>2, <1>6, <3>1, <3>3 DEF Sm1OK, Answered
  <2> QED
    BY <2>1, <2>2
<1>8. StorageOK' /\ Sm0OK' /\ GotOK' /\ StageOK'
  BY <1>1, <1>3 DEF OInv, StorageOK, Sm0OK, GotOK, StageOK
<1> QED
  BY <1>1, <1>4, <1>7, <1>8 DEF OInv, AnswerOK, CleanOK
(* What the client finds in SM1 under its own number.                      *)
LEMMA UploadTaken ==
  ASSUME OInv, Answered, state = "init", sm1.cmd = "upload"
  PROVE  /\ op.kind = "upload" /\ Target \in Entries /\ Key(Target) = AskedKey
         /\ Target.length \in Nat /\ Target.length > 0
         /\ storage[Target] \in Seq(ByteValues)
         /\ Len(storage[Target]) = Target.length
         /\ \A i \in 1 .. Target.length :
              storage[Target][i].of = AskedKey /\ storage[Target][i].at = i
         /\ sm1.size = 0 => sm1.data = storage[Target]
         /\ sm1.size # 0 => /\ sm1.size = Target.length
                            /\ Target.length > EXPEDITED
                            /\ session = Opened(Target)
<1>1. InitAnswer(sm1, session, storage)
  BY DEF OInv, AnswerOK, Answer
<1>2. op.kind = "upload" /\ Target \in Entries
  BY <1>1 DEF InitAnswer
<1>3. Target # NoEntry /\ Target.length \in Nat
  BY <1>2, CoeAssumption
<1>4. Key(Target) = AskedKey
  BY <1>3, LookupFinds DEF Target, AskedKey, Key, OInv, IInv
<1>5. \/ sm1.size = 0 /\ sm1.data = storage[Target] /\ Target.length > 0
      \/ /\ sm1.size = Target.length /\ Target.length > EXPEDITED
         /\ session = Opened(Target)
  BY <1>1 DEF InitAnswer
<1>6. Target.length > EXPEDITED => Target.length > 0
  BY <1>3 DEF EXPEDITED
<1> QED
  BY <1>2, <1>3, <1>4, <1>5, <1>6 DEF OInv, StorageOK

LEMMA SegmentTaken ==
  ASSUME OInv, Answered, state = "segment", sm1.cmd = "segment"
  PROVE  /\ op.kind = "upload" /\ size \in Nat /\ Len(got) \in Nat
         /\ Len(got) < size /\ size = Target.length /\ Target \in Entries
         /\ Key(Target) = AskedKey
         /\ got \in Seq(ByteValues) /\ got \o sm1.data \in Seq(ByteValues)
         /\ Len(got \o sm1.data) = Len(got) + Chunk
         /\ \A i \in DOMAIN (got \o sm1.data) :
              (got \o sm1.data)[i].of = AskedKey /\ (got \o sm1.data)[i].at = i
         /\ IF sm1.last THEN Len(got) + Chunk = size
            ELSE /\ Chunk = SEGMENT /\ Len(got) + SEGMENT < size
                 /\ session.active => session.entry = Target /\ Ahead(session)
<1> DEFINE n == Len(got)
           d == SubSeq(storage[Target], n + 1, n + Chunk)
<1>1. SegmentAnswer(sm1, session, storage)
  BY DEF OInv, AnswerOK, Answer
<1>2. /\ (sm1.last <=> Chunk = Rest) /\ sm1.data = d
      /\ session.active => Ahead(session)
  BY <1>1 DEF SegmentAnswer
<1>3. /\ op.kind = "upload" /\ Target \in Entries
      /\ size = Target.length /\ n < size
      /\ session.active => session.entry = Target
  BY DEF OInv, StageOK
<1>4. /\ got \in Seq(ByteValues)
      /\ \A i \in DOMAIN got : got[i].of = AskedKey /\ got[i].at = i
  BY <1>3 DEF OInv, GotOK
<1>5. n \in Nat /\ size \in Nat /\ Target # NoEntry
  BY <1>3, <1>4, CoeAssumption DEF OInv, ClientOK
<1>6. Key(Target) = AskedKey
  BY <1>5, LookupFinds DEF Target, AskedKey, Key, OInv, IInv
<1>7. /\ storage[Target] \in Seq(ByteValues) /\ Len(storage[Target]) = size
      /\ \A i \in 1 .. size : storage[Target][i].of = AskedKey /\ storage[Target][i].at = i
  BY <1>3, <1>6 DEF OInv, StorageOK
<1>8. /\ Rest \in Nat /\ Rest = size - n /\ Chunk \in Nat /\ Chunk <= Rest
      /\ Chunk # Rest => Chunk = SEGMENT
  <2>1. Rest \in Nat /\ Rest = size - n
    BY <1>3, <1>5 DEF Rest
  <2> QED
    BY <2>1 DEF Chunk, SEGMENT
<1>9. /\ d \in Seq(ByteValues) /\ Len(d) = Chunk
      /\ \A i \in 1 .. Chunk : d[i] = storage[Target][n + i]
  BY <1>5, <1>7, <1>8
<1> HIDE DEF d
<1>10. \A i \in 1 .. Chunk : d[i].of = AskedKey /\ d[i].at = n + i
  <2>1. \A i \in 1 .. Chunk : n + i \in 1 .. size
    BY <1>5, <1>8
  <2> QED
    BY <1>7, <1>9, <2>1
<1>11. /\ got \o d \in Seq(ByteValues) /\ Len(got \o d) = n + Chunk
       /\ \A i \in 1 .. n : (got \o d)[i] = got[i]
       /\ \A i \in 1 .. n + Chunk : i > n => (got \o d)[i] = d[i - n]
  <2>1. /\ got \o d \in Seq(ByteValues) /\ Len(got \o d) = n + Len(d)
        /\ \A i \in 1 .. n + Len(d) :
             (got \o d)[i] = IF i <= n THEN got[i] ELSE d[i - n]
    BY <1>4, <1>9, ConcatProperties
  <2> QED
    BY <1>5, <1>8, <1>9, <2>1
<1>12. \A i \in DOMAIN (got \o d) :
         (got \o d)[i].of = AskedKey /\ (got \o d)[i].at = i
  <2>1. SUFFICES ASSUME NEW i \in 1 .. n + Chunk
                 PROVE  (got \o d)[i].of = AskedKey /\ (got \o d)[i].at = i
    BY <1>11
  <2>2. CASE i > n
    <3>1. i - n \in 1 .. Chunk /\ n + (i - n) = i
      BY <1>5, <1>8, <2>2
    <3> QED
      BY <1>10, <1>11, <2>2, <3>1
  <2>3. CASE ~(i > n)
    <3>1. i \in 1 .. n /\ i \in DOMAIN got
      BY <1>4, <1>5, <1>8, <2>3
    <3> QED
      BY <1>4, <1>11, <3>1
  <2> QED
    BY <2>2, <2>3
<1>13. IF sm1.last THEN n + Chunk = size
       ELSE Chunk = SEGMENT /\ n + SEGMENT < size
  <2>1. Chunk # Rest => Chunk = SEGMENT /\ n + SEGMENT < size
    BY <1>5, <1>8 DEF SEGMENT
  <2> QED
    BY <1>2, <1>5, <1>8, <2>1
<1> HIDE DEF n
<1> QED
  BY <1>2, <1>3, <1>4, <1>5, <1>6, <1>11, <1>12, <1>13 DEF n
LEMMA ReadStep ==
  ASSUME OInv, IInv', ReadReply
  PROVE  OInv'
<1>1. /\ Waiting /\ sm0 = NoFrame /\ sm1 # NoFrame /\ sm1' = NoFrame
      /\ UNCHANGED <<table, storage, session, op, clean, faults>>
  BY DEF ReadReply, server
<1>2. /\ StorageOK' /\ Sm1OK' /\ AnswerOK' /\ ~Answered'
      /\ Target' = Target /\ AskedKey' = AskedKey
  BY <1>1 DEF OInv, StorageOK, Sm1OK, AnswerOK, Answered, Target, AskedKey
<1>3. /\ op \in Operations /\ size \in Nat /\ toggle \in {0, 1}
      /\ counter \in 0 .. COUNTERS /\ counter # 0
      /\ state \in {"init", "segment"}
      /\ clean' \in BOOLEAN /\ faults' \in 0 .. MaxFaults
  BY <1>1 DEF OInv, ClientOK, Waiting
<1>4. CASE UNCHANGED <<sm0, state, toggle, counter, got, size>>
  <2>1. ClientOK' /\ Sm0OK' /\ GotOK' /\ Waiting'
    BY <1>1, <1>2, <1>3, <1>4 DEF OInv, ClientOK, Sm0OK, GotOK, Waiting
  <2>2. StageOK'
    BY <1>1, <1>2, <1>4 DEF OInv, StageOK, Fresh, Ahead
  <2> QED
    BY <1>1, <1>2, <1>4, <2>1, <2>2 DEF OInv, CleanOK
<1>5. CASE /\ sm1.counter = counter /\ state = "init" /\ sm1.cmd = "upload"
           /\ TakeUpload(sm1) /\ sm1.size = 0
  <2>1. Answered /\ state' = "ok" /\ ~Waiting' /\ got' = sm1.data
        /\ size' = Len(sm1.data) /\ UNCHANGED <<sm0, toggle, counter>>
    BY <1>1, <1>5 DEF Answered, TakeUpload, End, Waiting
  <2>2. /\ got' \in Seq(ByteValues)
        /\ \A i \in DOMAIN got' : got'[i].of = AskedKey /\ got'[i].at = i
    BY <1>5, <2>1, UploadTaken
  <2>3. ClientOK' /\ Sm0OK' /\ GotOK' /\ StageOK'
    BY <1>1, <1>2, <1>3, <2>1, <2>2 DEF ClientOK, Sm0OK, GotOK, StageOK
  <2> QED
    BY <1>2, <2>1, <2>3 DEF OInv, CleanOK
<1>6. CASE /\ sm1.counter = counter /\ state = "init" /\ sm1.cmd = "upload"
           /\ TakeUpload(sm1) /\ sm1.size # 0
  <2>1. /\ Answered /\ Proceed(op, "segment", 0)
        /\ state' = "segment" /\ Waiting' /\ got' = got /\ got = <<>>
        /\ size' = sm1.size /\ toggle' = 0
        /\ sm0' = CurrentRequest(op, "segment", 0, counter')
    BY <1>1, <1>6 DEF Answered, TakeUpload, Proceed, Waiting, OInv, StageOK
  <2>2. /\ op.kind = "upload" /\ Target \in Entries /\ Target.length \in Nat
        /\ sm1.size = Target.length /\ Target.length > EXPEDITED
        /\ session = Opened(Target)
    BY <1>6, <2>1, UploadTaken
  <2>3. counter' \in 1 .. COUNTERS
    BY <1>1, <2>1, ProceedFacts
  <2>4. session'.active /\ session'.entry = Target /\ Fresh(session)'
    BY <1>1, <2>1, <2>2 DEF Opened, Fresh
  <2>5. ClientOK' /\ Sm0OK' /\ GotOK'
    BY <1>1, <1>2, <1>3, <2>1, <2>2, <2>3
    DEF OInv, ClientOK, Sm0OK, GotOK, Current
  <2>6. StageOK'
    BY <1>1, <1>2, <2>1, <2>2, <2>4 DEF StageOK, EXPEDITED
  <2> QED
    BY <1>2, <2>1, <2>4, <2>5, <2>6 DEF OInv, CleanOK
<1>7. CASE /\ sm1.counter = counter /\ state = "segment" /\ sm1.cmd = "segment"
           /\ TakeSegment(sm1)
  <2>1. /\ Answered /\ got' = got \o sm1.data /\ size' = size
        /\ IF sm1.last THEN End("ok") ELSE Proceed(op, "segment", 1 - toggle)
    BY <1>1, <1>7 DEF Answered, TakeSegment
  <2>2. /\ op.kind = "upload" /\ size = Target.length /\ Target \in Entries
        /\ got' \in Seq(ByteValues) /\ Len(got') = Len(got) + Chunk
        /\ \A i \in DOMAIN got' : got'[i].of = AskedKey /\ got'[i].at = i
        /\ IF sm1.last THEN Len(got) + Chunk = size
           ELSE /\ Chunk = SEGMENT /\ Len(got) + SEGMENT < size
                /\ session.active => session.entry = Target /\ Ahead(session)
    BY <1>7, <2>1, SegmentTaken
  <2>3. GotOK'
    BY <1>1, <1>2, <2>2 DEF GotOK
  <2>4. CASE sm1.last
    <3>1. state' = "ok" /\ ~Waiting' /\ UNCHANGED <<sm0, toggle, counter>>
      BY <2>1, <2>4 DEF End, Waiting
    <3>2. ClientOK' /\ Sm0OK' /\ StageOK'
      BY <1>1, <1>2, <1>3, <2>1, <3>1 DEF ClientOK, Sm0OK, StageOK
    <3> QED
      BY <1>2, <2>3, <3>1, <3>2 DEF OInv, CleanOK
  <2>5. CASE ~sm1.last
    <3>1. /\ Proceed(op, "segment", 1 - toggle)
          /\ state' = "segment" /\ Waiting' /\ toggle' = 1 - toggle
          /\ sm0' = CurrentRequest(op, "segment", 1 - toggle, counter')
      BY <2>1, <2>5 DEF Proceed, Waiting
    <3>2. counter' \in 1 .. COUNTERS
      BY <1>1, <3>1, ProceedFacts
    <3>3. session'.active => session'.entry = Target /\ Fresh(session)'
      BY <1>1, <2>2, <2>5, <3>1 DEF Fresh, Ahead
    <3>4. ClientOK' /\ Sm0OK'
      BY <1>1, <1>2, <1>3, <2>1, <3>1, <3>2 DEF ClientOK, Sm0OK, Current
    <3>5. StageOK'
      <4>1. Len(got') < size' /\ size' > EXPEDITED
        BY <1>7, <2>1, <2>2, <2>5 DEF OInv, StageOK
      <4> QED
        BY <1>1, <1>2, <2>1, <2>2, <3>1, <3>3, <4>1 DEF StageOK
    <3>6. CleanOK'
      <4>1. clean => session.active
        BY <1>7, <2>1, <2>5, <1>1 DEF OInv, CleanOK
      <4> QED
        BY <1>1, <1>2, <3>1, <3>3, <4>1 DEF CleanOK
    <3> QED
      BY <1>2, <2>3, <3>4, <3>5, <3>6 DEF OInv
  <2> QED
    BY <2>4, <2>5
<1>8. CASE /\ \E outcome \in {"ok", "failed"} : End(outcome)
           /\ UNCHANGED <<got, size>>
  <2>1. /\ state' \in {"ok", "failed"} /\ ~Waiting'
        /\ UNCHANGED <<sm0, toggle, counter>>
    BY <1>8 DEF End, Waiting
  <2>2. ClientOK' /\ Sm0OK' /\ GotOK' /\ StageOK'
    BY <1>1, <1>2, <1>3, <1>8, <2>1 DEF OInv, ClientOK, Sm0OK, GotOK, StageOK
  <2> QED
    BY <1>2, <2>1, <2>2 DEF OInv, CleanOK
<1> QED
  BY <1>1, <1>4, <1>5, <1>6, <1>7, <1>8 DEF ReadReply

LEMMA OInvInit == Init => OInv
<1> SUFFICES ASSUME Init PROVE OInv
  OBVIOUS
<1>1. IInv
  BY CoeAssumption DEF Init, IInv, SessionType, SessionInObject, Idle
<1>2. StorageOK
  <2>1. \A e \in Entries : e.length \in Nat /\ Key(e) \in Int \X Int
    BY CoeAssumption DEF Key
  <2>2. ASSUME NEW e \in Entries
        PROVE  LET b == Bytes(Key(e), e.length, 0)
               IN  /\ b \in Seq(ByteValues) /\ Len(b) = e.length
                   /\ \A i \in 1 .. e.length : b[i].of = Key(e) /\ b[i].at = i
    <3> DEFINE b == Bytes(Key(e), e.length, 0)
    <3>1. \A i \in 1 .. e.length :
            /\ Byte(Key(e), i, 0) \in ByteValues
            /\ Byte(Key(e), i, 0).of = Key(e) /\ Byte(Key(e), i, 0).at = i
      BY <2>1 DEF Byte, ByteValues
    <3>2. b = [i \in 1 .. e.length |-> Byte(Key(e), i, 0)]
      BY DEF Bytes
    <3> HIDE DEF b
    <3>3. b \in Seq(ByteValues) /\ Len(b) = e.length
      BY <2>1, <3>1, <3>2
    <3> QED
      BY <3>1, <3>2, <3>3 DEF b
  <2>3. storage = [e \in Entries |-> Bytes(Key(e), e.length, 0)]
    BY DEF Init
  <2> QED
    BY <2>2, <2>3 DEF StorageOK
<1>3. ClientOK
  BY CoeAssumption DEF Init, ClientOK, Waiting
<1>4. Sm0OK /\ Sm1OK /\ GotOK /\ StageOK /\ AnswerOK /\ CleanOK
  BY DEF Init, Sm0OK, Sm1OK, GotOK, StageOK, AnswerOK, CleanOK, Answered, Waiting
<1> QED
  BY <1>1, <1>2, <1>3, <1>4 DEF OInv

LEMMA OInvStep ==
  ASSUME OInv, [Next]_vars
  PROVE  OInv'
<1>1. IInv'
  BY IInvStep DEF OInv
<1>2. CASE Serve \/ ServeRefused
  BY <1>1, <1>2, ServeStray, ServeOwn, RefusedOwn
<1>3. CASE \E tab \in Tables : SetTable(tab)
  BY <1>1, <1>3, TableStep
<1>4. CASE Reinit
  BY <1>1, <1>4, ReinitStep
<1>5. CASE \E o \in Operations : Ask(o)
  BY <1>1, <1>5, AskStep
<1>6. CASE ReadReply
  BY <1>1, <1>6, ReadStep
<1>7. CASE Repeat \/ LoseRequest
  BY <1>1, <1>7, RepeatStep
<1>8. CASE GiveUp \/ LoseReply
  BY <1>1, <1>8, GiveUpStep, LoseReplyStep
<1>9. CASE \E req \in Strays : Stray(req)
  BY <1>1, <1>9, StrayStep
<1>10. CASE UNCHANGED vars
  BY <1>1, <1>10, StutterStep
<1> QED
  BY <1>2, <1>3, <1>4, <1>5, <1>6, <1>7, <1>8, <1>9, <1>10 DEF Next
THEOREM CoeInvariant == Spec => []OInv
<1> QED
  BY OInvInit, OInvStep, PTL DEF Spec

(* The state keeps its types.                                              *)
THEOREM CoeTypes == Spec => []TypeOK
<1>1. OInv => TypeOK
  BY DEF OInv, IInv, SessionType, StorageOK, ClientOK, TypeOK
<1> QED
  BY <1>1, CoeInvariant, PTL

(* A client told that its download succeeded has had its data written,     *)
(* whatever was lost, repeated or abandoned before.                        *)
THEOREM DownloadsAreWritten == Spec => ConfirmedMeansWritten
<1>1. ASSUME OInv, [Next]_vars, state # "ok", state' = "ok", op.kind = "download"
      PROVE  Written(storage)
  <2>1. ReadReply
    BY <1>1 DEF Next, Serve, ServeRefused, Reinit, SetTable, Ask, Proceed, Repeat,
                GiveUp, Stray, LoseRequest, LoseReply, vars, client
  <2>2. sm1.counter = counter /\ Waiting /\ sm1 # NoFrame
    BY <1>1, <2>1 DEF ReadReply
  <2>3. Answered
    BY <2>2 DEF Answered
  <2>4. state = "init"
    BY <1>1, <2>2 DEF OInv, StageOK, Waiting
  <2>5. sm1.cmd # "upload"
    BY <1>1, <2>3, <2>4, UploadTaken
  <2>6. sm1.cmd = "download"
    BY <1>1, <2>1, <2>2, <2>4, <2>5 DEF ReadReply, End
  <2> QED
    BY <1>1, <2>3, <2>4, <2>6 DEF OInv, AnswerOK, Answer, InitAnswer
<1>2. OInv /\ [Next]_vars
        => [state # "ok" /\ state' = "ok" /\ op.kind = "download" =>
             \E e \in Entries : /\ Key(e) = AskedKey
                                /\ SubSeq(storage[e], 1, Len(op.data)) = op.data]_vars
  BY <1>1 DEF Written
<1> QED
  BY <1>2, CoeInvariant, PTL DEF Spec, ConfirmedMeansWritten

(* An operation that nothing disturbed fails only where the dictionary     *)
(* refuses it.                                                             *)
THEOREM CleanOperationsSucceed == Spec => CleanSucceeds
<1>1. ASSUME OInv, [Next]_vars, state # "failed", state' = "failed", clean'
      PROVE  Refused(op)
  <2>1. ReadReply
    BY <1>1 DEF Next, Serve, ServeRefused, Reinit, SetTable, Ask, Proceed, Repeat,
                GiveUp, Stray, LoseRequest, LoseReply, vars, client
  <2>2. sm1.counter = counter /\ Waiting /\ sm1 # NoFrame /\ clean
    BY <1>1, <2>1 DEF ReadReply
  <2>3. Answered
    BY <2>2 DEF Answered
  <2>4. op.kind \in {"upload", "download"}
    BY <1>1, CoeAssumption DEF OInv, ClientOK
  <2>5. /\ state = "init" => sm1.cmd = op.kind \/ Refused(op)
        /\ state = "segment" => sm1.cmd = "segment"
    BY <1>1, <2>2, <2>3 DEF OInv, CleanOK
  <2>6. ~(state = "segment" /\ sm1.cmd = "segment")
    BY <1>1, <2>1, <2>2 DEF ReadReply, TakeSegment, End, Proceed
  <2>7. ~(state = "init" /\ sm1.cmd = "upload")
    BY <1>1, <2>1, <2>2 DEF ReadReply, TakeUpload, End, Proceed
  <2>8. ~(state = "init" /\ sm1.cmd = "download")
    BY <1>1, <2>1, <2>2 DEF ReadReply, End
  <2> QED
    BY <2>2, <2>4, <2>5, <2>6, <2>7, <2>8 DEF Waiting
<1>2. OInv /\ [Next]_vars
        => [state # "failed" /\ state' = "failed" /\ clean' => Refused(op)]_vars
  BY <1>1
<1> QED
  BY <1>2, CoeInvariant, PTL DEF Spec, CleanSucceeds
-----------------------------------------------------------------------------
(* An upload is a transfer: the refinement mapping, by its parts.          *)
Places(s, k) == [i \in DOMAIN s |-> IF s[i].of = k THEN s[i].at ELSE 0]
GotBytes == Places(got, AskedKey)
Status == IF ~Uploading THEN "idle"
          ELSE IF Waiting THEN "running"
          ELSE IF state = "ok" THEN "done" ELSE "failed"
sdoVars == <<AskedKey, size, GotBytes, Status>>

(* The bytes of the object in order are what the mapping makes of them.    *)
LEMMA InOrder ==
  ASSUME NEW s \in Seq(ByteValues), NEW k,
         \A i \in DOMAIN s : s[i].of = k /\ s[i].at = i
  PROVE  Places(s, k) = Sdo!FirstBytes(Len(s))
<1>1. DOMAIN s = 1 .. Len(s)
  OBVIOUS
<1> QED
  BY <1>1 DEF Sdo!FirstBytes, Places

LEMMA GotInOrder ==
  ASSUME OInv
  PROVE  op.kind = "upload" =>
           /\ GotBytes = Sdo!FirstBytes(Len(got))
           /\ Len(GotBytes) = Len(got) /\ Len(got) \in Nat
<1> SUFFICES ASSUME op.kind = "upload"
             PROVE  /\ GotBytes = Sdo!FirstBytes(Len(got))
                    /\ Len(GotBytes) = Len(got) /\ Len(got) \in Nat
  OBVIOUS
<1>1. /\ got \in Seq(ByteValues)
      /\ \A i \in DOMAIN got : got[i].of = AskedKey /\ got[i].at = i
  BY DEF OInv, GotOK
<1>2. GotBytes = Sdo!FirstBytes(Len(got))
  BY <1>1, InOrder DEF GotBytes
<1>3. Len(got) \in Nat
  BY <1>1
<1>4. Len(Sdo!FirstBytes(Len(got))) = Len(got)
  BY <1>3 DEF Sdo!FirstBytes
<1> QED
  BY <1>2, <1>3, <1>4

(* An entry's length is one its object may have.                           *)
LEMMA LengthKnown ==
  ASSUME OInv, Target \in Entries, Key(Target) = AskedKey
  PROVE  /\ AskedKey \in AskedKeys
         /\ Target.length \in LengthsOf[AskedKey]
         /\ Target.length \in UNION {LengthsOf[k] : k \in AskedKeys}
<1>1. AskedKey \in AskedKeys
  BY DEF OInv, ClientOK, AskedKeys, AskedKey
<1>2. LengthsOf[AskedKey] = {e.length : e \in {x \in Entries : Key(x) = AskedKey}}
  BY <1>1 DEF LengthsOf
<1> QED
  BY <1>1, <1>2

LEMMA SdoStutter ==
  ASSUME UNCHANGED <<op, state, got, size>>
  PROVE  UNCHANGED sdoVars
  BY DEF sdoVars, AskedKey, GotBytes, Status, Uploading, Waiting

LEMMA SdoAsk ==
  ASSUME OInv, NEW o \in Operations, Ask(o)
  PROVE  Sdo!Next
<1>1. /\ ~Waiting /\ op' = o /\ got' = <<>> /\ size' = 0 /\ state' = "init"
  BY DEF Ask, Proceed
<1>2. Status # "running"
  BY <1>1 DEF Status
<1>3. AskedKey' = Key(o) /\ Key(o) \in AskedKeys /\ GotBytes' = <<>>
  BY <1>1 DEF AskedKey, AskedKeys, GotBytes, Places
<1>4. CASE o.kind = "upload"
  <2>1. Status' = "running"
    BY <1>1, <1>4 DEF Status, Uploading, Waiting
  <2>2. Sdo!Ask(Key(o))
    BY <1>1, <1>2, <1>3, <2>1 DEF Sdo!Ask, Status, GotBytes, Places
  <2> QED
    BY <1>3, <2>2 DEF Sdo!Next
<1>5. CASE o.kind # "upload"
  <2>1. Status' = "idle"
    BY <1>1, <1>5 DEF Status, Uploading
  <2>2. Sdo!Leave
    BY <1>1, <1>2, <1>3, <2>1 DEF Sdo!Leave, Status, GotBytes, Places
  <2> QED
    BY <2>2 DEF Sdo!Next
<1> QED
  BY <1>4, <1>5

(* The operation ends without having all of the object.                    *)
LEMMA SdoEnd ==
  ASSUME OInv, Waiting, UNCHANGED <<op, got, size>>,
         state' = "failed" \/ (state' = "ok" /\ op.kind = "download")
  PROVE  Sdo!Next \/ UNCHANGED sdoVars
<1>1. AskedKey' = AskedKey /\ GotBytes' = GotBytes
  BY DEF AskedKey, GotBytes
<1>2. CASE op.kind = "upload"
  <2>1. Status = "running" /\ Status' = "failed"
    BY <1>2 DEF Status, Uploading, Waiting
  <2>2. Sdo!Fail
    BY <1>1, <2>1 DEF Sdo!Fail, Status, GotBytes, Places
  <2> QED
    BY <2>2 DEF Sdo!Next
<1>3. CASE op.kind # "upload"
  <2>1. Status = "idle" /\ Status' = "idle"
    BY <1>3 DEF Status, Uploading
  <2> QED
    BY <1>1, <2>1 DEF sdoVars
<1> QED
  BY <1>2, <1>3
LEMMA SdoRead ==
  ASSUME OInv, ReadReply
  PROVE  Sdo!Next \/ UNCHANGED sdoVars
<1>1. Waiting /\ sm1 # NoFrame /\ op' = op /\ AskedKey' = AskedKey
  BY DEF ReadReply, AskedKey
<1>2. size \in Nat
  BY DEF OInv, ClientOK
<1>3. CASE UNCHANGED <<sm0, state, toggle, counter, got, size>>
  BY <1>1, <1>3, SdoStutter
<1>4. CASE /\ sm1.counter = counter /\ state = "init" /\ sm1.cmd = "upload"
           /\ TakeUpload(sm1)
  <2>0. PICK n : n = Target.length
    OBVIOUS
  <2>1. Answered
    BY <1>1, <1>4 DEF Answered
  <2>2. /\ op.kind = "upload" /\ Target \in Entries /\ Key(Target) = AskedKey
        /\ n \in Nat /\ n > 0
        /\ storage[Target] \in Seq(ByteValues) /\ Len(storage[Target]) = n
        /\ \A i \in 1 .. n :
             storage[Target][i].of = AskedKey /\ storage[Target][i].at = i
        /\ sm1.size = 0 => sm1.data = storage[Target]
        /\ sm1.size # 0 => sm1.size = n
    BY <1>4, <2>0, <2>1, UploadTaken
  <2>3. /\ n \in LengthsOf[AskedKey]
        /\ n \in UNION {LengthsOf[k] : k \in AskedKeys}
    BY <2>0, <2>2, LengthKnown
  <2>4. size = 0 /\ Status = "running"
    BY <1>1, <1>4, <2>2 DEF OInv, StageOK, Status, Uploading
  <2>5. CASE sm1.size = 0
    <3>1. got' = storage[Target] /\ size' = n /\ state' = "ok"
      BY <1>4, <2>2, <2>5 DEF TakeUpload, End
    <3>2. GotBytes' = Sdo!FirstBytes(n)
      <4>1. \A i \in DOMAIN got' : got'[i].of = AskedKey /\ got'[i].at = i
        BY <2>2, <3>1
      <4>2. Places(got', AskedKey) = Sdo!FirstBytes(Len(got'))
        BY <2>2, <3>1, <4>1, InOrder
      <4> QED
        BY <1>1, <2>2, <3>1, <4>2 DEF GotBytes
    <3>3. Status' = "done"
      BY <1>1, <2>2, <3>1 DEF Status, Uploading, Waiting
    <3>4. Sdo!Finish(n)
      BY <1>1, <2>3, <2>4, <3>1, <3>2, <3>3 DEF Sdo!Finish, Status, GotBytes, Places
    <3> QED
      BY <2>3, <3>4 DEF Sdo!Next
  <2>6. CASE sm1.size # 0
    <3>1. got' = got /\ size' = n /\ state' = "segment"
      BY <1>4, <2>2, <2>6 DEF TakeUpload, Proceed
    <3>2. GotBytes' = GotBytes
      BY <1>1, <3>1 DEF GotBytes
    <3>3. Status' = "running"
      BY <1>1, <2>2, <3>1 DEF Status, Uploading, Waiting
    <3>4. Sdo!Announce(n)
      BY <1>1, <2>2, <2>3, <2>4, <3>1, <3>2, <3>3 DEF Sdo!Announce, Status, GotBytes, Places
    <3> QED
      BY <2>3, <3>4 DEF Sdo!Next
  <2> QED
    BY <2>5, <2>6
<1>5. CASE /\ sm1.counter = counter /\ state = "segment" /\ sm1.cmd = "segment"
           /\ TakeSegment(sm1)
  <2>0. PICK m : m = Len(got) + Chunk
    OBVIOUS
  <2>1. Answered /\ got' = got \o sm1.data /\ size' = size
    BY <1>1, <1>5 DEF Answered, TakeSegment
  <2>2. /\ op.kind = "upload" /\ Len(got) \in Nat
        /\ Len(got) < size /\ size = Target.length /\ Target \in Entries
        /\ Key(Target) = AskedKey
        /\ got' \in Seq(ByteValues) /\ Len(got') = m
        /\ \A i \in DOMAIN got' : got'[i].of = AskedKey /\ got'[i].at = i
        /\ IF sm1.last THEN m = size
           ELSE Chunk = SEGMENT /\ Len(got) + SEGMENT < size
    BY <1>5, <2>0, <2>1, SegmentTaken
  <2>3. /\ size \in LengthsOf[AskedKey]
        /\ size \in UNION {LengthsOf[k] : k \in AskedKeys}
    BY <2>2, LengthKnown
  <2>4. Status = "running"
    BY <1>1, <1>5, <2>2 DEF Status, Uploading
  <2>5. GotBytes' = Sdo!FirstBytes(m)
    <3>1. Places(got', AskedKey) = Sdo!FirstBytes(Len(got'))
      BY <2>2, InOrder
    <3> QED
      BY <1>1, <2>2, <3>1 DEF GotBytes
  <2>6. Len(GotBytes) = Len(got)
    BY <2>2, GotInOrder
  <2>7. CASE sm1.last
    <3>1. state' = "ok" /\ m = size
      BY <1>5, <2>2, <2>7 DEF TakeSegment, End
    <3>2. Status' = "done"
      BY <1>1, <2>2, <3>1 DEF Status, Uploading, Waiting
    <3>3. m \in IF size = 0 THEN LengthsOf[AskedKey] ELSE {size}
      BY <2>3, <3>1
    <3>4. Sdo!Finish(m)
      BY <1>1, <2>1, <2>4, <2>5, <3>1, <3>2, <3>3 DEF Sdo!Finish, Status, GotBytes, Places
    <3> QED
      BY <2>3, <3>1, <3>4 DEF Sdo!Next
  <2>8. CASE ~sm1.last
    <3>1. state' = "segment"
      BY <1>5, <2>8 DEF TakeSegment, Proceed
    <3>2. m \in 1 .. size - 1 /\ Len(got) < m
      BY <1>2, <2>0, <2>2, <2>8 DEF SEGMENT
    <3>3. Status' = "running"
      BY <1>1, <2>2, <3>1 DEF Status, Uploading, Waiting
    <3>4. Sdo!Receive(m)
      BY <1>1, <2>1, <2>4, <2>5, <2>6, <3>2, <3>3 DEF Sdo!Receive, Status, GotBytes, Places
    <3> QED
      BY <3>2, <3>4 DEF Sdo!Next
  <2> QED
    BY <2>7, <2>8
<1>6. CASE /\ sm1.counter = counter
           /\ ~(state = "init" /\ sm1.cmd = "upload")
           /\ ~(state = "segment" /\ sm1.cmd = "segment")
           /\ End(IF state = "init" /\ sm1.cmd = "download" THEN "ok" ELSE "failed")
           /\ UNCHANGED <<got, size>>
  <2>1. CASE state = "init" /\ sm1.cmd = "download"
    <3>1. op.kind = "download"
      BY <1>1, <1>6, <2>1 DEF OInv, AnswerOK, Answered, Answer, InitAnswer
    <3> QED
      BY <1>1, <1>6, <2>1, <3>1, SdoEnd DEF End
  <2>2. CASE ~(state = "init" /\ sm1.cmd = "download")
    BY <1>1, <1>6, <2>2, SdoEnd DEF End
  <2> QED
    BY <2>1, <2>2
<1> QED
  BY <1>3, <1>4, <1>5, <1>6 DEF ReadReply

(* Through losses, repeats, abandoned transfers and dictionary changes, an *)
(* upload delivers the object's bytes in order, each once, and ends well   *)
(* only with all of them.                                                  *)
THEOREM UploadsAreTransfers == Spec => UploadRefinement
<1>1. Init => Sdo!Init
  <2> SUFFICES ASSUME Init PROVE Sdo!Init
    OBVIOUS
  <2>1. AskedKey \in AskedKeys /\ size = 0 /\ ~Uploading
    BY DEF Init, AskedKey, AskedKeys, Uploading
  <2>2. GotBytes = <<>>
    BY DEF Init, GotBytes, Places
  <2> QED
    BY <2>1, <2>2 DEF Sdo!Init, GotBytes, Places
<1>2. ASSUME OInv, [Next]_vars
      PROVE  Sdo!Next \/ UNCHANGED sdoVars
  <2>1. CASE \E o \in Operations : Ask(o)
    BY <1>2, <2>1, SdoAsk
  <2>2. CASE ReadReply
    BY <1>2, <2>2, SdoRead
  <2>3. CASE GiveUp
    BY <1>2, <2>3, SdoEnd DEF GiveUp
  <2>4. CASE \/ Serve \/ ServeRefused \/ Reinit
             \/ \E tab \in Tables : SetTable(tab)
             \/ Repeat \/ (\E req \in Strays : Stray(req))
             \/ LoseRequest \/ LoseReply \/ UNCHANGED vars
    BY <2>4, SdoStutter DEF Serve, ServeRefused, Reinit, SetTable, Repeat, Stray,
                            LoseRequest, LoseReply, vars, client
  <2> QED
    BY <1>2, <2>1, <2>2, <2>3, <2>4 DEF Next
<1>3. UNCHANGED sdoVars => UNCHANGED Sdo!vars
  BY DEF sdoVars, Sdo!vars, GotBytes, Places, Status
<1>4. OInv /\ [Next]_vars => [Sdo!Next]_(Sdo!vars)
  BY <1>2, <1>3
<1> QED
  BY <1>1, <1>4, CoeInvariant, PTL DEF Spec, UploadRefinement, Sdo!Spec
=============================================================================
