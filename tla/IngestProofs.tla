---------------------------- MODULE IngestProofs ----------------------------
(***************************************************************************)
(* Theorems about Ingest for every number of requests, keys, parts, slots  *)
(* and faults.  A step of one request is reduced to what it does to this   *)
(* request's record, row, object and slot (StepSound); the other requests  *)
(* only see that rows once inserted stay (OthersSound).                    *)
(***************************************************************************)
EXTENDS Ingest, JobQueueProofs, FiniteSetTheorems

-----------------------------------------------------------------------------
(* The inductive invariant.                                                *)

\* The shape of what a handler and its draft keep.
Request ==
    [pc       : {"idle", "lookup", "parts", "slot", "slotwait", "attach",
                 "undo put", "close part", "commit", "undo commit",
                 "undo duplicate", "resolve", "discard", "done"},
     key      : Keys \cup {""},
     gone     : BOOLEAN,
     stalled  : BOOLEAN,
     text     : BOOLEAN,
     uploaded : BOOLEAN,
     parts    : 0 .. MaxParts,
     resp     : {"none", "accepted", "replayed", "refused"},
     id       : JobIds \cup {0}]

Typed ==
    /\ req \in [Requests -> Request]
    /\ objects \subseteq Requests
    /\ faults \in 0 .. MaxFaults
    /\ struck \subseteq Requests
    /\ lost \in 0 .. MaxLostInserts

\* An id without a row refers to no object.
BlankObject ==
    \A j \in JobIds : jobs[j].status = "absent" => jobs[j].object_key = ""

\* Where a draft that has uploaded its file still needs it.
Building == {"lookup", "parts", "slot", "slotwait", "attach", "commit"}

\* An answer names a row with the request's key.
AnswerSound(r) ==
    /\ req[r].pc = "idle" => ~Answered(r)
    /\ Answered(r) =>
           /\ req[r].id \in JobIds
           /\ jobs[req[r].id].status # "absent"
           /\ jobs[req[r].id].idempotency_key = req[r].key

\* A row exists only once its request was told so, unless an INSERT hid it.
RowSound(r) ==
    jobs[r].status # "absent" /\ lost = 0 =>
        req[r].pc = "done" /\ req[r].resp = "accepted"

\* The object of a row, and of a draft that may become one, is in the bucket.
KeptSound(r) ==
    /\ jobs[r].object_key # "" /\ lost = 0 => r \in objects
    /\ req[r].uploaded /\ req[r].pc \in Building => r \in objects
    /\ req[r].pc = "idle" => ~req[r].uploaded

\* An object in the bucket is known to somebody who will use or delete it, unless
\* a fault has struck its request.
KnownSound(r) ==
    r \in objects /\ r \notin struck =>
        /\ req[r].uploaded \/ req[r].pc = "undo put"
        /\ req[r].pc = "done" => jobs[r].object_key # ""

RequestSound(r) ==
    AnswerSound(r) /\ RowSound(r) /\ KeptSound(r) /\ KnownSound(r)

\* Where a handler is under way.
Working == {"lookup", "parts", "slot", "slotwait", "attach", "undo put",
            "close part", "commit", "undo commit", "undo duplicate", "resolve",
            "discard"}

\* Where a handler holds a slot.
Holding == {"attach", "undo put"}

Holders == {r \in Requests : req[r].pc \in Holding}

SlotsSound ==
    /\ uploadSlots = Cardinality(Holders)
    /\ uploadSlots <= MaxConcurrentUploads

IngestInv ==
    /\ QueueInv
    /\ Typed
    /\ BlankObject
    /\ \A r \in Requests : RequestSound(r)
    /\ SlotsSound

-----------------------------------------------------------------------------
(* The table: a request inserts one row, its own, and only at Commit.      *)

\* What the table sees of a request's step.
TableStep(r) ==
    \/ UNCHANGED jobs
    \/ /\ Create(r, req[r].key, ObjectKey(r))
       /\ req[r].uploaded => r \in objects

\* The arguments of the INSERT are values of the columns.
LEMMA KeysTyped ==
    ASSUME Typed, NEW r \in Requests
    PROVE  req[r].key \in Keys \cup {""} /\ ObjectKey(r) \in {"", "object"}
BY DEF Typed, Request, ObjectKey

\* An INSERT fills an absent row with the request's key and object.
LEMMA InsertsOwnRow ==
    ASSUME QueueInv, Typed, NEW r \in Requests, Create(r, req[r].key, ObjectKey(r))
    PROVE  /\ jobs[r].status = "absent"
           /\ jobs'[r].status # "absent"
           /\ jobs'[r].idempotency_key = req[r].key
           /\ jobs'[r].object_key = ObjectKey(r)
           /\ \A k \in JobIds \ {r} : jobs'[k] = jobs[k]
<1>1. r \in JobIds
    BY DEF Requests
<1>2. GoodTable
    BY DEF QueueInv
<1>3. jobs'[r].object_key = ObjectKey(r)
    BY <1>1, <1>2 DEF Create, GoodTable, NewRow
<1> QED
    BY <1>1, <1>2, <1>3, KeysTyped, InsertEffect

\* Every step of a request on the table is one of the queue.
LEMMA TableStepIsQueueStep ==
    ASSUME Typed, NEW r \in Requests, TableStep(r)
    PROVE  [RepoNext]_jobs
<1>1. r \in JobIds
    BY DEF Requests
<1> QED
    BY <1>1, KeysTyped, Zenon DEF TableStep, RepoNext

\* The table's own invariants survive, and a row once there stays as it is.
LEMMA TableSound ==
    ASSUME QueueInv, Typed, BlankObject, NEW r \in Requests, TableStep(r)
    PROVE  /\ QueueInv'
           /\ BlankObject'
           /\ \A j \in JobIds : jobs[j].status # "absent" => jobs'[j] = jobs[j]
           /\ \A j \in JobIds \ {r} : jobs'[j] = jobs[j]
<1>1. QueueInv'
    BY TableStepIsQueueStep, QueueInvStep
<1>2. CASE UNCHANGED jobs
    BY <1>1, <1>2 DEF BlankObject
<1>3. CASE Create(r, req[r].key, ObjectKey(r))
    BY <1>1, <1>3, InsertsOwnRow DEF BlankObject
<1> QED
    BY <1>2, <1>3 DEF TableStep

-----------------------------------------------------------------------------
(* The other requests.                                                     *)

\* What is sound of a request stays so when another one moves: its record, its
\* row and its object are its own, no row disappears, and no fault or lost
\* INSERT is taken back.
LEMMA OthersSound ==
    ASSUME NEW s \in Requests, RequestSound(s),
           req'[s] = req[s],
           jobs'[s] = jobs[s],
           \A j \in JobIds : jobs[j].status # "absent" => jobs'[j] = jobs[j],
           s \in objects' <=> s \in objects,
           s \in struck => s \in struck',
           lost' = 0 => lost = 0
    PROVE  RequestSound(s)'
<1>1. Answered(s)' <=> Answered(s)
    BY DEF Answered
<1>2. AnswerSound(s)'
    BY <1>1 DEF RequestSound, AnswerSound
<1>3. RowSound(s)' /\ KeptSound(s)' /\ KnownSound(s)'
    BY DEF RequestSound, RowSound, KeptSound, KnownSound
<1> QED
    BY <1>2, <1>3 DEF RequestSound

-----------------------------------------------------------------------------
(* The slots.                                                              *)

\* There are finitely many requests, so the holders of slots can be counted.
LEMMA HoldersFinite == IsFiniteSet(Holders) /\ Cardinality(Holders) \in Nat
<1>1. IsFiniteSet(JobIds)
    BY FS_Interval, RepoAssumption DEF JobIds
<1>2. IsFiniteSet(Holders)
    BY <1>1, FS_Subset DEF Holders, Requests
<1> QED
    BY <1>2, FS_CardinalityType

\* What a request's step does to the slots: nothing, take one, or give one back.
SlotStep(r, pc) ==
    \/ /\ req[r].pc \in Holding <=> pc \in Holding
       /\ UNCHANGED uploadSlots
    \/ /\ req[r].pc \notin Holding /\ pc \in Holding
       /\ uploadSlots < MaxConcurrentUploads
       /\ uploadSlots' = uploadSlots + 1
    \/ /\ req[r].pc \in Holding /\ pc \notin Holding
       /\ uploadSlots' = uploadSlots - 1

\* The channel holds a token for each holder after the step as before.
LEMMA SlotsStep ==
    ASSUME Typed, SlotsSound, NEW r \in Requests, NEW q,
           req' = [req EXCEPT ![r] = q], SlotStep(r, q.pc)
    PROVE  SlotsSound'
<1> DEFINE H == Holders
           G == Holders'
<1>1. /\ req'[r] = q
      /\ \A s \in Requests \ {r} : req'[s] = req[s]
    BY DEF Typed
<1>2. /\ r \in H <=> req[r].pc \in Holding
      /\ r \in G <=> q.pc \in Holding
      /\ \A s : s # r => (s \in G <=> s \in H)
    BY <1>1 DEF Holders
<1>3. /\ IsFiniteSet(H)
      /\ Cardinality(H) \in Nat
    BY HoldersFinite
<1>4. /\ uploadSlots = Cardinality(H)
      /\ uploadSlots <= MaxConcurrentUploads
      /\ MaxConcurrentUploads \in Nat
    BY IngestAssumption DEF SlotsSound
<1>5. SUFFICES uploadSlots' = Cardinality(G) /\ uploadSlots' <= MaxConcurrentUploads
    BY DEF SlotsSound
<1> HIDE DEF H, G
<1>6. CASE /\ req[r].pc \in Holding <=> q.pc \in Holding
           /\ UNCHANGED uploadSlots
    <2>1. G = H
        BY <1>2, <1>6
    <2> QED
        BY <1>4, <1>6, <2>1
<1>7. CASE /\ req[r].pc \notin Holding /\ q.pc \in Holding
           /\ uploadSlots < MaxConcurrentUploads
           /\ uploadSlots' = uploadSlots + 1
    <2>1. G = H \cup {r} /\ r \notin H
        BY <1>2, <1>7
    <2>2. Cardinality(G) = Cardinality(H) + 1
        BY <1>3, <2>1, FS_AddElement
    <2> QED
        BY <1>3, <1>4, <1>7, <2>2
<1>8. CASE /\ req[r].pc \in Holding /\ q.pc \notin Holding
           /\ uploadSlots' = uploadSlots - 1
    <2>1. G = H \ {r} /\ r \in H
        BY <1>2, <1>8
    <2>2. Cardinality(G) = Cardinality(H) - 1
        BY <1>3, <2>1, FS_RemoveElement
    <2> QED
        BY <1>3, <1>4, <1>8, <2>2
<1> QED
    BY <1>6, <1>7, <1>8 DEF SlotStep

-----------------------------------------------------------------------------
(* A step of one request.                                                  *)

\* How the bucket and the counters may change.
BucketStep(r) == \A s \in Requests \ {r} : s \in objects' <=> s \in objects

FaultStep(r) == UNCHANGED faultVars \/ Fault({r})

LostStep ==
    UNCHANGED lost \/ (lost < MaxLostInserts /\ lost' = lost + 1)

\* Faults and lost INSERTs are counted within their bounds and never taken back.
LEMMA CountersStep ==
    ASSUME Typed, NEW r \in Requests, FaultStep(r), LostStep
    PROVE  /\ faults' \in 0 .. MaxFaults
           /\ struck' \subseteq Requests
           /\ struck \subseteq struck'
           /\ lost' \in 0 .. MaxLostInserts
           /\ lost' = 0 => lost = 0
<1>1. faults \in Nat /\ faults <= MaxFaults /\ lost \in Nat /\ lost <= MaxLostInserts
    BY IngestAssumption DEF Typed
<1>2. struck \subseteq Requests
    BY DEF Typed
<1>3. struck' \subseteq Requests /\ struck \subseteq struck'
    BY <1>2 DEF FaultStep, faultVars, Fault
<1>4. faults' = faults \/ (faults < MaxFaults /\ faults' = faults + 1)
    BY DEF FaultStep, faultVars, Fault
<1>5. faults' \in 0 .. MaxFaults
    BY <1>1, <1>4, IngestAssumption
<1>6. lost' \in 0 .. MaxLostInserts /\ (lost' = 0 => lost = 0)
    BY <1>1, IngestAssumption DEF LostStep
<1> QED
    BY <1>3, <1>5, <1>6

\* A request's step keeps the invariant if it keeps what the invariant says of
\* this request.
LEMMA StepSound ==
    ASSUME IngestInv, NEW r \in Requests, NEW q \in Request,
           req' = [req EXCEPT ![r] = q],
           TableStep(r), BucketStep(r), objects' \subseteq Requests, FaultStep(r),
           LostStep, SlotStep(r, q.pc), RequestSound(r)'
    PROVE  IngestInv'
<1>1. QueueInv /\ Typed /\ BlankObject /\ SlotsSound
    BY DEF IngestInv
<1>2. /\ req' \in [Requests -> Request]
      /\ \A s \in Requests \ {r} : req'[s] = req[s]
    BY <1>1 DEF Typed
<1>3. /\ faults' \in 0 .. MaxFaults
      /\ struck' \subseteq Requests
      /\ struck \subseteq struck'
      /\ lost' \in 0 .. MaxLostInserts
      /\ lost' = 0 => lost = 0
    BY <1>1, CountersStep
<1>4. Typed'
    BY <1>2, <1>3, Zenon DEF Typed
<1>5. /\ QueueInv'
      /\ BlankObject'
      /\ \A j \in JobIds : jobs[j].status # "absent" => jobs'[j] = jobs[j]
      /\ \A j \in JobIds \ {r} : jobs'[j] = jobs[j]
    BY <1>1, TableSound
<1>6. SlotsSound'
    BY <1>1, SlotsStep
<1>7. ASSUME NEW s \in Requests
      PROVE  RequestSound(s)'
    <2>1. CASE s = r
        BY <2>1
    <2>2. CASE s # r
        <3>1. s \in Requests \ {r} /\ s \in JobIds \ {r}
            BY <1>7, <2>2 DEF Requests
        <3>2. RequestSound(s)
            BY <1>7 DEF IngestInv
        <3>3. s \in objects' <=> s \in objects
            BY <3>1 DEF BucketStep
        <3> QED
            BY <1>2, <1>3, <1>5, <1>7, <3>1, <3>2, <3>3, OthersSound
    <2> QED
        BY <2>1, <2>2
<1> QED
    BY <1>4, <1>5, <1>6, <1>7 DEF IngestInv

-----------------------------------------------------------------------------
(* Kinds of steps.                                                         *)

\* The answer is left alone, is an error, or names a row with the request's key.
AnswerStep(r, q) ==
    \/ q.resp = req[r].resp /\ q.id = req[r].id /\ q.key = req[r].key
    \/ q.resp = req[r].resp /\ req[r].pc = "idle"
    \/ q.resp = "refused"
    \/ q.resp = "replayed" /\ q.id \in GetByIdempotencyKey(q.key)

\* Such an answer is sound.
LEMMA AnswerKept ==
    ASSUME IngestInv, NEW r \in Requests, NEW q, req'[r] = q,
           AnswerStep(r, q), UNCHANGED jobs, q.pc # "idle"
    PROVE  AnswerSound(r)'
<1>1. AnswerSound(r)
    BY DEF IngestInv, RequestSound
<1>2. Answered(r)' <=> q.resp \in {"accepted", "replayed"}
    BY DEF Answered
<1>3. Answered(r) <=> req[r].resp \in {"accepted", "replayed"}
    BY DEF Answered
<1>4. Answered(r)' => /\ q.id \in JobIds
                      /\ jobs[q.id].status # "absent"
                      /\ jobs[q.id].idempotency_key = q.key
    BY <1>1, <1>2, <1>3 DEF AnswerStep, AnswerSound, GetByIdempotencyKey
<1> QED
    BY <1>4 DEF AnswerSound

\* A request that is not done has no row yet, unless an INSERT was lost.
LEMMA NoRowYet ==
    ASSUME IngestInv, NEW r \in Requests, req[r].pc # "done", lost = 0
    PROVE  jobs[r].status = "absent" /\ jobs[r].object_key = ""
<1>1. r \in JobIds
    BY DEF Requests
<1>2. RowSound(r) /\ BlankObject
    BY DEF IngestInv, RequestSound
<1> QED
    BY <1>1, <1>2 DEF RowSound, BlankObject

\* A step that moves the handler on and leaves the table and the bucket alone.
LEMMA QuietStep ==
    ASSUME IngestInv, NEW r \in Requests, NEW q \in Request,
           req' = [req EXCEPT ![r] = q],
           UNCHANGED <<jobs, objects, lost>>, FaultStep(r), SlotStep(r, q.pc),
           AnswerStep(r, q),
           req[r].pc # "done", q.pc # "idle",
           q.uploaded = req[r].uploaded,
           q.pc \in Building => req[r].pc \in Building \cup {"idle"},
           req[r].pc = "undo put" => q.pc = "undo put",
           q.pc = "done" => ~req[r].uploaded
    PROVE  IngestInv'
<1>1. Typed /\ RequestSound(r)
    BY DEF IngestInv
<1>2. req'[r] = q
    BY <1>1 DEF Typed
<1>3. AnswerSound(r)'
    BY <1>2, AnswerKept
<1>4. lost = 0 => jobs[r].status = "absent" /\ jobs[r].object_key = ""
    BY NoRowYet
<1>5. RowSound(r)'
    BY <1>4 DEF RowSound
<1>6. KeptSound(r)'
    BY <1>1, <1>2, <1>4, Zenon DEF KeptSound, RequestSound
<1>7. struck \subseteq struck'
    BY DEF FaultStep, faultVars, Fault
<1>8. KnownSound(r)'
    BY <1>1, <1>2, <1>7 DEF KnownSound, RequestSound
<1>9. RequestSound(r)'
    BY <1>3, <1>5, <1>6, <1>8 DEF RequestSound
<1>10. TableStep(r) /\ BucketStep(r) /\ objects' \subseteq Requests /\ LostStep
    BY <1>1 DEF TableStep, BucketStep, LostStep, Typed
<1> QED
    BY <1>9, <1>10, StepSound

\* A step that deletes the draft's object, or fails to: there is no row yet that
\* would need it.
LEMMA DeleteStep ==
    ASSUME IngestInv, NEW r \in Requests, NEW q \in Request,
           req' = [req EXCEPT ![r] = q],
           UNCHANGED <<jobs, lost>>, DeleteQuietly(r), SlotStep(r, q.pc),
           AnswerStep(r, q),
           req[r].pc # "done", q.pc \notin Building \cup {"idle"}
    PROVE  IngestInv'
<1>1. Typed /\ RequestSound(r)
    BY DEF IngestInv
<1>2. req'[r] = q
    BY <1>1 DEF Typed
<1>3. AnswerSound(r)'
    BY <1>2, AnswerKept
<1>4. lost = 0 => jobs[r].status = "absent" /\ jobs[r].object_key = ""
    BY NoRowYet
<1>5. RowSound(r)' /\ KeptSound(r)'
    BY <1>2, <1>4 DEF RowSound, KeptSound
<1>6. r \notin objects' \/ r \in struck'
    BY DEF DeleteQuietly, Fault
<1>7. RequestSound(r)'
    BY <1>3, <1>5, <1>6 DEF RequestSound, KnownSound
<1>8. TableStep(r) /\ LostStep
    BY DEF TableStep, LostStep
<1>9. BucketStep(r) /\ objects' \subseteq Requests
    BY <1>1 DEF BucketStep, DeleteQuietly, Typed
<1>10. FaultStep(r)
    BY DEF FaultStep, DeleteQuietly
<1> QED
    BY <1>7, <1>8, <1>9, <1>10, StepSound

\* A handler that goes on without touching the table or the bucket.
LEMMA QuietGoto ==
    ASSUME IngestInv, NEW r \in Requests, NEW pc \in Working, Goto(r, pc),
           UNCHANGED <<jobs, objects, lost>>, FaultStep(r), SlotStep(r, pc),
           req[r].pc \in Working \ {"undo put"},
           pc \in Building => req[r].pc \in Building
    PROVE  IngestInv'
<1> DEFINE q == [req[r] EXCEPT !.pc = pc]
<1>1. Typed /\ req[r] \in Request
    BY DEF IngestInv, Typed
<1>2. q \in Request
    BY <1>1 DEF Request, Working
<1>3. req' = [req EXCEPT ![r] = q]
    BY <1>1 DEF Typed, Goto
<1>4. /\ q.pc = pc
      /\ q.key = req[r].key
      /\ q.uploaded = req[r].uploaded
      /\ q.resp = req[r].resp
      /\ q.id = req[r].id
    BY <1>1 DEF Request
<1> HIDE DEF q
<1>5. AnswerStep(r, q)
    BY <1>4 DEF AnswerStep
<1>6. req[r].pc # "done" /\ q.pc # "idle" /\ q.pc # "done"
    BY <1>4 DEF Working
<1> QED
    BY <1>2, <1>3, <1>4, <1>5, <1>6, QuietStep

\* A handler that answers without touching the table or the bucket: with an error,
\* or with a row that has its key.
LEMMA QuietRespond ==
    ASSUME IngestInv, NEW r \in Requests, NEW resp, NEW id, Respond(r, resp, id),
           \/ resp = "refused" /\ id = 0
           \/ resp = "replayed" /\ id \in GetByIdempotencyKey(req[r].key),
           UNCHANGED <<jobs, objects, lost>>, FaultStep(r), UNCHANGED uploadSlots,
           req[r].pc \in Working \ Holding
    PROVE  IngestInv'
<1> DEFINE q == [req[r] EXCEPT !.pc = "discard", !.resp = resp, !.id = id]
<1>1. Typed /\ req[r] \in Request
    BY DEF IngestInv, Typed
<1>2. /\ resp \in {"none", "accepted", "replayed", "refused"}
      /\ id \in JobIds \cup {0}
    BY DEF GetByIdempotencyKey
<1>3. q \in Request
    BY <1>1, <1>2 DEF Request
<1>4. req' = [req EXCEPT ![r] = q]
    BY <1>1 DEF Typed, Respond
<1>5. /\ q.pc = "discard"
      /\ q.key = req[r].key
      /\ q.uploaded = req[r].uploaded
      /\ q.resp = resp
      /\ q.id = id
    BY <1>1 DEF Request
<1> HIDE DEF q
<1>6. AnswerStep(r, q)
    BY <1>5 DEF AnswerStep
<1>7. SlotStep(r, q.pc)
    BY <1>5 DEF SlotStep, Holding
<1>8. req[r].pc # "done" /\ req[r].pc # "undo put" /\ q.pc \notin Building
    BY <1>5 DEF Working, Building, Holding
<1> QED
    BY <1>3, <1>4, <1>5, <1>6, <1>7, <1>8, QuietStep

-----------------------------------------------------------------------------
(* The actions.                                                            *)

\* A request arrives; no draft exists yet.
LEMMA ArriveSound ==
    ASSUME IngestInv, NEW r \in Requests, NEW key \in Keys \cup {""}, Arrive(r, key)
    PROVE  IngestInv'
<1> DEFINE q == [req[r] EXCEPT !.key = key, !.pc = IF key = "" THEN "parts" ELSE "lookup"]
<1>1. Typed /\ req[r] \in Request
    BY DEF IngestInv, Typed
<1>2. req[r].pc = "idle"
    BY DEF Arrive
<1>3. q \in Request
    BY <1>1, <1>2 DEF Request
<1>4. req' = [req EXCEPT ![r] = q]
    BY <1>1 DEF Typed, Arrive
<1>5. /\ q.pc = IF key = "" THEN "parts" ELSE "lookup"
      /\ q.key = key
      /\ q.uploaded = req[r].uploaded
      /\ q.resp = req[r].resp
      /\ q.id = req[r].id
    BY <1>1 DEF Request
<1> HIDE DEF q
<1>6. UNCHANGED <<jobs, objects, lost>> /\ FaultStep(r)
    BY DEF Arrive, FaultStep
<1>7. SlotStep(r, q.pc)
    BY <1>2, <1>5 DEF SlotStep, Holding, Arrive
<1>8. AnswerStep(r, q)
    BY <1>2, <1>5 DEF AnswerStep
<1> QED
    BY <1>2, <1>3, <1>4, <1>5, <1>6, <1>7, <1>8, QuietStep DEF Building

\* The early refusals come before there is a draft.
LEMMA RefuseEarlySound ==
    ASSUME IngestInv, NEW r \in Requests, RefuseEarly(r)
    PROVE  IngestInv'
<1> DEFINE q == [req[r] EXCEPT !.pc = "done", !.resp = "refused"]
<1>1. Typed /\ req[r] \in Request
    BY DEF IngestInv, Typed
<1>2. req[r].pc = "idle"
    BY DEF RefuseEarly
<1>2a. ~req[r].uploaded
    BY <1>2 DEF IngestInv, RequestSound, KeptSound
<1>3. q \in Request
    BY <1>1, <1>2 DEF Request
<1>4. req' = [req EXCEPT ![r] = q]
    BY <1>1 DEF Typed, RefuseEarly
<1>5. /\ q.pc = "done"
      /\ q.key = req[r].key
      /\ q.uploaded = req[r].uploaded
      /\ q.resp = "refused"
      /\ q.id = req[r].id
    BY <1>1 DEF Request
<1> HIDE DEF q
<1>6. UNCHANGED <<jobs, objects, lost>> /\ FaultStep(r)
    BY DEF RefuseEarly, FaultStep
<1>7. SlotStep(r, q.pc)
    BY <1>2, <1>5 DEF SlotStep, Holding, RefuseEarly
<1>8. AnswerStep(r, q)
    BY <1>2, <1>5 DEF AnswerStep
<1> QED
    BY <1>2, <1>3, <1>4, <1>5, <1>6, <1>7, <1>8, <1>2a, QuietStep DEF Building

\* The fast path answers with the row the key was found in.
LEMMA LookupFindsSound ==
    ASSUME IngestInv, NEW r \in Requests, LookupFinds(r)
    PROVE  IngestInv'
<1>1. PICK j \in GetByIdempotencyKey(req[r].key) : Respond(r, "replayed", j)
    BY DEF LookupFinds
<1>2. /\ req[r].pc = "lookup"
      /\ UNCHANGED <<jobs, objects, lost, uploadSlots>>
      /\ FaultStep(r)
    BY DEF LookupFinds, FaultStep
<1> QED
    BY <1>1, <1>2, QuietRespond DEF Working, Holding

\* A lookup that misses, or fails, leads on to the parts.
LEMMA LookupMissesSound ==
    ASSUME IngestInv, NEW r \in Requests, LookupMisses(r)
    PROVE  IngestInv'
<1> DEFINE pc == "parts"
<1>1. /\ req[r].pc = "lookup"
      /\ Goto(r, pc)
      /\ UNCHANGED <<jobs, objects, lost>>
      /\ FaultStep(r)
    BY DEF LookupMisses, FaultStep, CallFails
<1>2. SlotStep(r, pc)
    BY <1>1 DEF LookupMisses, SlotStep, Holding
<1>3. pc \in Working /\ req[r].pc \in Working \ {"undo put"}
    BY <1>1 DEF Working
<1> QED
    BY <1>1, <1>2, <1>3, QuietGoto DEF Building

\* A text part changes nothing that the invariant is about.
LEMMA TextPartSound ==
    ASSUME IngestInv, NEW r \in Requests, NEW text \in BOOLEAN, TextPart(r, text)
    PROVE  IngestInv'
<1> DEFINE q == [req[r] EXCEPT !.parts = req[r].parts + 1, !.text = text]
<1>1. Typed /\ req[r] \in Request
    BY DEF IngestInv, Typed
<1>2. req[r].pc = "parts"
    BY DEF TextPart
<1>2a. req[r].parts + 1 \in 0 .. MaxParts
    <2>1. req[r].parts \in 0 .. MaxParts /\ req[r].parts < MaxParts
        BY <1>1 DEF Request, TextPart
    <2> QED
        BY <2>1, IngestAssumption
<1>3. q \in Request
    BY <1>1, <1>2, <1>2a DEF Request
<1>4. req' = [req EXCEPT ![r] = q]
    BY <1>1 DEF Typed, TextPart
<1>5. /\ q.pc = req[r].pc
      /\ q.key = req[r].key
      /\ q.uploaded = req[r].uploaded
      /\ q.resp = req[r].resp
      /\ q.id = req[r].id
    BY <1>1 DEF Request
<1> HIDE DEF q
<1>6. UNCHANGED <<jobs, objects, lost>> /\ FaultStep(r)
    BY DEF TextPart, FaultStep
<1>7. SlotStep(r, q.pc)
    BY <1>2, <1>5 DEF SlotStep, Holding, TextPart
<1>8. AnswerStep(r, q)
    BY <1>2, <1>5 DEF AnswerStep
<1> QED
    BY <1>2, <1>3, <1>4, <1>5, <1>6, <1>7, <1>8, QuietStep DEF Building

\* A file part asks for a slot first.
LEMMA FilePartSound ==
    ASSUME IngestInv, NEW r \in Requests, FilePart(r)
    PROVE  IngestInv'
<1> DEFINE q == [req[r] EXCEPT !.parts = req[r].parts + 1, !.pc = "slot"]
<1>1. Typed /\ req[r] \in Request
    BY DEF IngestInv, Typed
<1>2. req[r].pc = "parts"
    BY DEF FilePart
<1>2a. req[r].parts + 1 \in 0 .. MaxParts
    <2>1. req[r].parts \in 0 .. MaxParts /\ req[r].parts < MaxParts
        BY <1>1 DEF Request, FilePart
    <2> QED
        BY <2>1, IngestAssumption
<1>3. q \in Request
    BY <1>1, <1>2, <1>2a DEF Request
<1>4. req' = [req EXCEPT ![r] = q]
    BY <1>1 DEF Typed, FilePart
<1>5. /\ q.pc = "slot"
      /\ q.key = req[r].key
      /\ q.uploaded = req[r].uploaded
      /\ q.resp = req[r].resp
      /\ q.id = req[r].id
    BY <1>1 DEF Request
<1> HIDE DEF q
<1>6. UNCHANGED <<jobs, objects, lost>> /\ FaultStep(r)
    BY DEF FilePart, FaultStep
<1>7. SlotStep(r, q.pc)
    BY <1>2, <1>5 DEF SlotStep, Holding, FilePart
<1>8. AnswerStep(r, q)
    BY <1>2, <1>5 DEF AnswerStep
<1> QED
    BY <1>2, <1>3, <1>4, <1>5, <1>6, <1>7, <1>8, QuietStep DEF Building

\* A refused part takes no slot.
LEMMA PartRefusedSound ==
    ASSUME IngestInv, NEW r \in Requests, PartRefused(r)
    PROVE  IngestInv'
<1> DEFINE q == [req[r] EXCEPT !.parts = req[r].parts + 1, !.pc = "close part"]
<1>1. Typed /\ req[r] \in Request
    BY DEF IngestInv, Typed
<1>2. req[r].pc = "parts"
    BY DEF PartRefused
<1>2a. req[r].parts + 1 \in 0 .. MaxParts
    <2>1. req[r].parts \in 0 .. MaxParts /\ req[r].parts < MaxParts
        BY <1>1 DEF Request, PartRefused
    <2> QED
        BY <2>1, IngestAssumption
<1>3. q \in Request
    BY <1>1, <1>2, <1>2a DEF Request
<1>4. req' = [req EXCEPT ![r] = q]
    BY <1>1 DEF Typed, PartRefused
<1>5. /\ q.pc = "close part"
      /\ q.key = req[r].key
      /\ q.uploaded = req[r].uploaded
      /\ q.resp = req[r].resp
      /\ q.id = req[r].id
    BY <1>1 DEF Request
<1> HIDE DEF q
<1>6. UNCHANGED <<jobs, objects, lost>> /\ FaultStep(r)
    BY DEF PartRefused, FaultStep
<1>7. SlotStep(r, q.pc)
    BY <1>2, <1>5 DEF SlotStep, Holding, PartRefused
<1>8. AnswerStep(r, q)
    BY <1>2, <1>5 DEF AnswerStep
<1> QED
    BY <1>2, <1>3, <1>4, <1>5, <1>6, <1>7, <1>8, QuietStep DEF Building

\* A broken body is answered with an error; Discard comes later.
LEMMA BodyBrokenSound ==
    ASSUME IngestInv, NEW r \in Requests, BodyBroken(r)
    PROVE  IngestInv'
<1>1. /\ req[r].pc = "parts"
      /\ Respond(r, "refused", 0)
      /\ UNCHANGED <<jobs, objects, lost, uploadSlots>>
      /\ FaultStep(r)
    BY DEF BodyBroken, FaultStep
<1> QED
    BY <1>1, QuietRespond DEF Working, Holding

\* After the last part the draft is complete.
LEMMA LastPartSound ==
    ASSUME IngestInv, NEW r \in Requests, LastPart(r)
    PROVE  IngestInv'
<1> DEFINE pc == "commit"
<1>1. /\ req[r].pc = "parts"
      /\ Goto(r, pc)
      /\ UNCHANGED <<jobs, objects, lost>>
      /\ FaultStep(r)
    BY DEF LastPart, FaultStep
<1>2. SlotStep(r, pc)
    BY <1>1 DEF LastPart, SlotStep, Holding
<1>3. pc \in Working /\ req[r].pc \in Working \ {"undo put"}
    BY <1>1 DEF Working
<1> QED
    BY <1>1, <1>2, <1>3, QuietGoto DEF Building

\* A slot is taken only while one is free.
LEMMA AcquireUploadSlotSound ==
    ASSUME IngestInv, NEW r \in Requests, AcquireUploadSlot(r)
    PROVE  IngestInv'
<1> DEFINE pc == "attach"
<1>1. /\ req[r].pc \in {"slot", "slotwait"}
      /\ Goto(r, pc)
      /\ UNCHANGED <<jobs, objects, lost>>
      /\ FaultStep(r)
    BY DEF AcquireUploadSlot, FaultStep
<1>2. SlotStep(r, pc)
    BY <1>1 DEF AcquireUploadSlot, SlotStep, Holding
<1>3. pc \in Working /\ req[r].pc \in Working \ {"undo put"}
    BY <1>1 DEF Working
<1> QED
    BY <1>1, <1>2, <1>3, QuietGoto DEF Building

\* A request that waits holds no slot.
LEMMA WaitForSlotSound ==
    ASSUME IngestInv, NEW r \in Requests, WaitForSlot(r)
    PROVE  IngestInv'
<1> DEFINE pc == "slotwait"
<1>1. /\ req[r].pc = "slot"
      /\ Goto(r, pc)
      /\ UNCHANGED <<jobs, objects, lost>>
      /\ FaultStep(r)
    BY DEF WaitForSlot, FaultStep
<1>2. SlotStep(r, pc)
    BY <1>1 DEF WaitForSlot, SlotStep, Holding
<1>3. pc \in Working /\ req[r].pc \in Working \ {"undo put"}
    BY <1>1 DEF Working
<1> QED
    BY <1>1, <1>2, <1>3, QuietGoto DEF Building

\* A request that gave up waiting has no slot to give back.
LEMMA ShedLoadSound ==
    ASSUME IngestInv, NEW r \in Requests, ShedLoad(r)
    PROVE  IngestInv'
<1> DEFINE pc == "close part"
<1>1. /\ req[r].pc = "slotwait"
      /\ Goto(r, pc)
      /\ UNCHANGED <<jobs, objects, lost>>
      /\ FaultStep(r)
    BY DEF ShedLoad, FaultStep
<1>2. SlotStep(r, pc)
    BY <1>1 DEF ShedLoad, SlotStep, Holding
<1>3. pc \in Working /\ req[r].pc \in Working \ {"undo put"}
    BY <1>1 DEF Working
<1> QED
    BY <1>1, <1>2, <1>3, QuietGoto DEF Building

\* The early return for a second file gives its slot back.
LEMMA SecondFileRefusedSound ==
    ASSUME IngestInv, NEW r \in Requests, SecondFileRefused(r)
    PROVE  IngestInv'
<1> DEFINE pc == "close part"
<1>1. /\ req[r].pc = "attach"
      /\ Goto(r, pc)
      /\ UNCHANGED <<jobs, objects, lost>>
      /\ FaultStep(r)
    BY DEF SecondFileRefused, FaultStep
<1>2. SlotStep(r, pc)
    BY <1>1 DEF SecondFileRefused, SlotStep, Holding
<1>3. pc \in Working /\ req[r].pc \in Working \ {"undo put"}
    BY <1>1 DEF Working
<1> QED
    BY <1>1, <1>2, <1>3, QuietGoto DEF Building

\* After a failed Put the object is deleted and the slot given back.
LEMMA UndoPutSound ==
    ASSUME IngestInv, NEW r \in Requests, UndoPut(r)
    PROVE  IngestInv'
<1> DEFINE q == [req[r] EXCEPT !.pc = "close part"]
<1>1. Typed /\ req[r] \in Request
    BY DEF IngestInv, Typed
<1>2. req[r].pc = "undo put"
    BY DEF UndoPut
<1>3. q \in Request
    BY <1>1, <1>2 DEF Request
<1>4. req' = [req EXCEPT ![r] = q]
    BY <1>1 DEF Typed, UndoPut, Goto
<1>5. /\ q.pc = "close part"
      /\ q.key = req[r].key
      /\ q.uploaded = req[r].uploaded
      /\ q.resp = req[r].resp
      /\ q.id = req[r].id
    BY <1>1 DEF Request
<1> HIDE DEF q
<1>6. UNCHANGED <<jobs, lost>> /\ DeleteQuietly(r)
    BY <1>2 DEF UndoPut
<1>7. SlotStep(r, q.pc)
    BY <1>2, <1>5 DEF SlotStep, Holding, UndoPut
<1>8. AnswerStep(r, q)
    BY <1>2, <1>5 DEF AnswerStep
<1> QED
    BY <1>2, <1>3, <1>4, <1>5, <1>6, <1>7, <1>8, DeleteStep DEF Building

\* The handler answers once the part is read.
LEMMA ClosePartSound ==
    ASSUME IngestInv, NEW r \in Requests, ClosePart(r)
    PROVE  IngestInv'
<1>1. /\ req[r].pc = "close part"
      /\ Respond(r, "refused", 0)
      /\ UNCHANGED <<jobs, objects, lost, uploadSlots>>
      /\ FaultStep(r)
    BY DEF ClosePart, FaultStep
<1> QED
    BY <1>1, QuietRespond DEF Working, Holding

\* An empty draft is refused.
LEMMA NoPayloadSound ==
    ASSUME IngestInv, NEW r \in Requests, NoPayload(r)
    PROVE  IngestInv'
<1>1. /\ req[r].pc = "commit"
      /\ Respond(r, "refused", 0)
      /\ UNCHANGED <<jobs, objects, lost, uploadSlots>>
      /\ FaultStep(r)
    BY DEF NoPayload, FaultStep
<1> QED
    BY <1>1, QuietRespond DEF Working, Holding

\* A draft that lost the race for its key makes for the winner's job.
LEMMA CommitDuplicateSound ==
    ASSUME IngestInv, NEW r \in Requests, CommitDuplicate(r)
    PROVE  IngestInv'
<1> DEFINE pc == IF req[r].uploaded THEN "undo duplicate" ELSE "resolve"
<1>1. /\ req[r].pc = "commit"
      /\ Goto(r, pc)
      /\ UNCHANGED <<jobs, objects, lost>>
      /\ FaultStep(r)
    BY DEF CommitDuplicate, FaultStep
<1>2. SlotStep(r, pc)
    BY <1>1 DEF CommitDuplicate, SlotStep, Holding
<1>3. pc \in Working /\ req[r].pc \in Working \ {"undo put"}
    BY <1>1 DEF Working
<1> QED
    BY <1>1, <1>2, <1>3, QuietGoto DEF Building

\* After a failed INSERT the object is deleted.
LEMMA UndoCommitSound ==
    ASSUME IngestInv, NEW r \in Requests, UndoCommit(r)
    PROVE  IngestInv'
<1> DEFINE q == [req[r] EXCEPT !.pc = "discard", !.resp = "refused", !.id = 0]
<1>1. Typed /\ req[r] \in Request
    BY DEF IngestInv, Typed
<1>2. req[r].pc = "undo commit"
    BY DEF UndoCommit
<1>3. q \in Request
    BY <1>1, <1>2 DEF Request
<1>4. req' = [req EXCEPT ![r] = q]
    BY <1>1 DEF Typed, UndoCommit, Respond
<1>5. /\ q.pc = "discard"
      /\ q.key = req[r].key
      /\ q.uploaded = req[r].uploaded
      /\ q.resp = "refused"
      /\ q.id = 0
    BY <1>1 DEF Request
<1> HIDE DEF q
<1>6. UNCHANGED <<jobs, lost>> /\ DeleteQuietly(r)
    BY <1>2 DEF UndoCommit
<1>7. SlotStep(r, q.pc)
    BY <1>2, <1>5 DEF SlotStep, Holding, UndoCommit
<1>8. AnswerStep(r, q)
    BY <1>2, <1>5 DEF AnswerStep
<1> QED
    BY <1>2, <1>3, <1>4, <1>5, <1>6, <1>7, <1>8, DeleteStep DEF Building

\* The loser of the race deletes its own object, not the winner's.
LEMMA UndoDuplicateSound ==
    ASSUME IngestInv, NEW r \in Requests, UndoDuplicate(r)
    PROVE  IngestInv'
<1> DEFINE q == [req[r] EXCEPT !.pc = "resolve"]
<1>1. Typed /\ req[r] \in Request
    BY DEF IngestInv, Typed
<1>2. req[r].pc = "undo duplicate"
    BY DEF UndoDuplicate
<1>3. q \in Request
    BY <1>1, <1>2 DEF Request
<1>4. req' = [req EXCEPT ![r] = q]
    BY <1>1 DEF Typed, UndoDuplicate, Goto
<1>5. /\ q.pc = "resolve"
      /\ q.key = req[r].key
      /\ q.uploaded = req[r].uploaded
      /\ q.resp = req[r].resp
      /\ q.id = req[r].id
    BY <1>1 DEF Request
<1> HIDE DEF q
<1>6. UNCHANGED <<jobs, lost>> /\ DeleteQuietly(r)
    BY <1>2 DEF UndoDuplicate
<1>7. SlotStep(r, q.pc)
    BY <1>2, <1>5 DEF SlotStep, Holding, UndoDuplicate
<1>8. AnswerStep(r, q)
    BY <1>2, <1>5 DEF AnswerStep
<1> QED
    BY <1>2, <1>3, <1>4, <1>5, <1>6, <1>7, <1>8, DeleteStep DEF Building

\* The loser is answered with the winner's row.
LEMMA ResolveSound ==
    ASSUME IngestInv, NEW r \in Requests, Resolve(r)
    PROVE  IngestInv'
<1>1. PICK j \in GetByIdempotencyKey(req[r].key) : Respond(r, "replayed", j)
    BY DEF Resolve
<1>2. /\ req[r].pc = "resolve"
      /\ UNCHANGED <<jobs, objects, lost, uploadSlots>>
      /\ FaultStep(r)
    BY DEF Resolve, FaultStep
<1> QED
    BY <1>1, <1>2, QuietRespond DEF Working, Holding

\* If the winner cannot be read the answer is an error.
LEMMA ResolveFailsSound ==
    ASSUME IngestInv, NEW r \in Requests, ResolveFails(r)
    PROVE  IngestInv'
<1>1. /\ req[r].pc = "resolve"
      /\ Respond(r, "refused", 0)
      /\ UNCHANGED <<jobs, objects, lost, uploadSlots>>
      /\ FaultStep(r)
    BY DEF ResolveFails, FaultStep, CallFails
<1> QED
    BY <1>1, QuietRespond DEF Working, Holding

\* A client that hangs up changes only what the next calls return.
LEMMA HangUpSound ==
    ASSUME IngestInv, NEW r \in Requests, HangUp(r)
    PROVE  IngestInv'
<1> DEFINE q == [req[r] EXCEPT !.gone = TRUE]
<1>1. Typed /\ req[r] \in Request
    BY DEF IngestInv, Typed
<1>2. req[r].pc \notin {"idle", "done"}
    BY DEF HangUp
<1>3. q \in Request
    BY <1>1, <1>2 DEF Request
<1>4. req' = [req EXCEPT ![r] = q]
    BY <1>1 DEF Typed, HangUp
<1>5. /\ q.pc = req[r].pc
      /\ q.key = req[r].key
      /\ q.uploaded = req[r].uploaded
      /\ q.resp = req[r].resp
      /\ q.id = req[r].id
    BY <1>1 DEF Request
<1> HIDE DEF q
<1>6. UNCHANGED <<jobs, objects, lost>> /\ FaultStep(r)
    BY DEF HangUp, FaultStep
<1>7. SlotStep(r, q.pc)
    BY <1>2, <1>5 DEF SlotStep, Holding, HangUp
<1>8. AnswerStep(r, q)
    BY <1>2, <1>5 DEF AnswerStep
<1> QED
    BY <1>2, <1>3, <1>4, <1>5, <1>6, <1>7, <1>8, QuietStep DEF Building

\* A client that stalls keeps its slot if it has one.
LEMMA StallSound ==
    ASSUME IngestInv, NEW r \in Requests, Stall(r)
    PROVE  IngestInv'
<1> DEFINE q == [req[r] EXCEPT !.stalled = TRUE]
<1>1. Typed /\ req[r] \in Request
    BY DEF IngestInv, Typed
<1>2. req[r].pc \in {"parts", "slot", "slotwait", "attach", "close part"}
    BY DEF Stall
<1>3. q \in Request
    BY <1>1, <1>2 DEF Request
<1>4. req' = [req EXCEPT ![r] = q]
    BY <1>1 DEF Typed, Stall
<1>5. /\ q.pc = req[r].pc
      /\ q.key = req[r].key
      /\ q.uploaded = req[r].uploaded
      /\ q.resp = req[r].resp
      /\ q.id = req[r].id
    BY <1>1 DEF Request
<1> HIDE DEF q
<1>6. UNCHANGED <<jobs, objects, lost>> /\ FaultStep(r)
    BY DEF Stall, FaultStep
<1>7. SlotStep(r, q.pc)
    BY <1>2, <1>5 DEF SlotStep, Holding, Stall
<1>8. AnswerStep(r, q)
    BY <1>2, <1>5 DEF AnswerStep
<1> QED
    BY <1>2, <1>3, <1>4, <1>5, <1>6, <1>7, <1>8, QuietStep DEF Building

\* A stored file is known to the draft from the same step on.
LEMMA AttachFileSound ==
    ASSUME IngestInv, NEW r \in Requests, AttachFile(r)
    PROVE  IngestInv'
<1> DEFINE q == [req[r] EXCEPT !.pc = "parts", !.uploaded = TRUE]
<1>1. Typed /\ req[r] \in Request
    BY DEF IngestInv, Typed
<1>2. req[r].pc = "attach"
    BY DEF AttachFile
<1>3. q \in Request
    BY <1>1, <1>2 DEF Request
<1>4. req' = [req EXCEPT ![r] = q]
    BY <1>1 DEF Typed, AttachFile
<1>5. /\ q.pc = "parts"
      /\ q.key = req[r].key
      /\ q.uploaded = TRUE
      /\ q.resp = req[r].resp
      /\ q.id = req[r].id
    BY <1>1 DEF Request
<1> HIDE DEF q
<1>6. req'[r] = q
    BY <1>1, <1>4 DEF Typed
<1>7. objects' = objects \cup {r} /\ UNCHANGED <<jobs, faultVars, lost>>
    BY DEF AttachFile
<1>8. AnswerSound(r)'
    BY <1>5, <1>6, <1>7, AnswerKept DEF AnswerStep
<1>9. lost = 0 => jobs[r].status = "absent" /\ jobs[r].object_key = ""
    BY <1>2, NoRowYet
<1>10. RowSound(r)' /\ KeptSound(r)' /\ KnownSound(r)'
    BY <1>5, <1>6, <1>7, <1>9 DEF RowSound, KeptSound, KnownSound
<1>11. RequestSound(r)'
    BY <1>8, <1>10 DEF RequestSound
<1>12. TableStep(r) /\ FaultStep(r) /\ LostStep
    BY <1>7 DEF TableStep, FaultStep, LostStep
<1>13. BucketStep(r) /\ objects' \subseteq Requests
    BY <1>1, <1>7 DEF BucketStep, Typed
<1>14. SlotStep(r, q.pc)
    BY <1>2, <1>5 DEF SlotStep, Holding, AttachFile
<1> QED
    BY <1>3, <1>4, <1>11, <1>12, <1>13, <1>14, StepSound

\* An object that a failed Put left behind is in the hands of the undo step.
LEMMA PutFailsSound ==
    ASSUME IngestInv, NEW r \in Requests, PutFails(r)
    PROVE  IngestInv'
<1> DEFINE q == [req[r] EXCEPT !.pc = "undo put"]
<1>1. Typed /\ req[r] \in Request
    BY DEF IngestInv, Typed
<1>2. req[r].pc = "attach" /\ ~req[r].uploaded
    BY DEF PutFails
<1>3. q \in Request
    BY <1>1, <1>2 DEF Request
<1>4. req' = [req EXCEPT ![r] = q]
    BY <1>1 DEF Typed, PutFails, Goto
<1>5. /\ q.pc = "undo put"
      /\ q.key = req[r].key
      /\ q.uploaded = req[r].uploaded
      /\ q.resp = req[r].resp
      /\ q.id = req[r].id
    BY <1>1 DEF Request
<1> HIDE DEF q
<1>6. req'[r] = q
    BY <1>1, <1>4 DEF Typed
<1>7. /\ objects' = objects \/ objects' = objects \cup {r}
      /\ FaultStep(r)
      /\ UNCHANGED <<jobs, uploadSlots, lost>>
    BY DEF PutFails, CallFails, FaultStep, faultVars
<1>8. AnswerSound(r)'
    BY <1>5, <1>6, <1>7, AnswerKept DEF AnswerStep
<1>9. lost = 0 => jobs[r].status = "absent" /\ jobs[r].object_key = ""
    BY <1>2, NoRowYet
<1>10. RowSound(r)' /\ KeptSound(r)' /\ KnownSound(r)'
    BY <1>2, <1>5, <1>6, <1>7, <1>9 DEF RowSound, KeptSound, KnownSound
<1>11. RequestSound(r)'
    BY <1>8, <1>10 DEF RequestSound
<1>12. TableStep(r) /\ LostStep
    BY <1>7 DEF TableStep, LostStep
<1>13. BucketStep(r) /\ objects' \subseteq Requests
    BY <1>1, <1>7 DEF BucketStep, Typed
<1>14. SlotStep(r, q.pc)
    BY <1>2, <1>5, <1>7 DEF SlotStep, Holding
<1> QED
    BY <1>3, <1>4, <1>7, <1>11, <1>12, <1>13, <1>14, StepSound

\* The object of a complete draft is in the bucket when its row is inserted.
LEMMA InsertAfterObject ==
    ASSUME IngestInv, NEW r \in Requests, req[r].pc = "commit",
           Create(r, req[r].key, ObjectKey(r))
    PROVE  /\ TableStep(r)
           /\ jobs'[r].status # "absent"
           /\ jobs'[r].idempotency_key = req[r].key
           /\ jobs'[r].object_key = ObjectKey(r)
           /\ req[r].uploaded => r \in objects
<1>1. Typed /\ QueueInv /\ KeptSound(r)
    BY DEF IngestInv, RequestSound
<1>2. req[r].uploaded => r \in objects
    BY <1>1 DEF KeptSound, Building
<1> QED
    BY <1>1, <1>2, InsertsOwnRow DEF TableStep

\* The INSERT and the answer go together: the row holds the request's key, and the
\* object that the row refers to is there.
LEMMA CommitCreatesSound ==
    ASSUME IngestInv, NEW r \in Requests, CommitCreates(r)
    PROVE  IngestInv'
<1> DEFINE q == [req[r] EXCEPT !.pc = "done", !.resp = "accepted", !.id = r]
<1>1. Typed /\ req[r] \in Request
    BY DEF IngestInv, Typed
<1>2. req[r].pc = "commit" /\ r \in JobIds
    BY DEF CommitCreates, Requests
<1>3. q \in Request
    BY <1>1, <1>2 DEF Request
<1>4. req' = [req EXCEPT ![r] = q]
    BY <1>1 DEF Typed, CommitCreates
<1>5. /\ q.pc = "done"
      /\ q.key = req[r].key
      /\ q.uploaded = req[r].uploaded
      /\ q.resp = "accepted"
      /\ q.id = r
    BY <1>1 DEF Request
<1> HIDE DEF q
<1>6. req'[r] = q
    BY <1>1, <1>4 DEF Typed
<1>7. Create(r, req[r].key, ObjectKey(r)) /\ UNCHANGED <<uploadSlots, objects, faultVars, lost>>
    BY DEF CommitCreates
<1>8. /\ TableStep(r)
      /\ jobs'[r].status # "absent"
      /\ jobs'[r].idempotency_key = req[r].key
      /\ jobs'[r].object_key = ObjectKey(r)
      /\ req[r].uploaded => r \in objects
    BY <1>2, <1>7, InsertAfterObject
<1>9. AnswerSound(r)' /\ RowSound(r)'
    BY <1>2, <1>5, <1>6, <1>8 DEF AnswerSound, Answered, RowSound
<1>10. KeptSound(r)'
    BY <1>5, <1>6, <1>7, <1>8 DEF KeptSound, Building, ObjectKey
<1>11. KnownSound(r)
    BY DEF IngestInv, RequestSound
<1>12. KnownSound(r)'
    BY <1>2, <1>5, <1>6, <1>7, <1>8, <1>11 DEF KnownSound, ObjectKey, faultVars
<1>13. RequestSound(r)'
    BY <1>9, <1>10, <1>12 DEF RequestSound
<1>14. FaultStep(r) /\ LostStep /\ BucketStep(r) /\ objects' \subseteq Requests
    BY <1>1, <1>7 DEF FaultStep, LostStep, BucketStep, Typed
<1>15. SlotStep(r, q.pc)
    BY <1>2, <1>5, <1>7 DEF SlotStep, Holding
<1> QED
    BY <1>3, <1>4, <1>8, <1>13, <1>14, <1>15, StepSound

\* A failed INSERT: the object is about to be deleted, and if the row is there all
\* the same the INSERT counts as lost.
LEMMA CommitFailsSound ==
    ASSUME IngestInv, NEW r \in Requests, CommitFails(r)
    PROVE  IngestInv'
<1> DEFINE q == IF req[r].uploaded
                THEN [req[r] EXCEPT !.pc = "undo commit"]
                ELSE [req[r] EXCEPT !.pc = "discard", !.resp = "refused", !.id = 0]
<1>1. Typed /\ req[r] \in Request
    BY DEF IngestInv, Typed
<1>2. req[r].pc = "commit" /\ UNCHANGED <<uploadSlots, objects>>
    BY DEF CommitFails
<1>3. q \in Request
    BY <1>1 DEF Request
<1>4. req' = [req EXCEPT ![r] = q]
    BY <1>1 DEF Typed, CommitFails, Goto, Respond
<1>5. /\ q.pc = IF req[r].uploaded THEN "undo commit" ELSE "discard"
      /\ q.key = req[r].key
      /\ q.uploaded = req[r].uploaded
      /\ \/ q.resp = req[r].resp /\ q.id = req[r].id
         \/ q.resp = "refused"
    BY <1>1 DEF Request
<1> HIDE DEF q
<1>6. SlotStep(r, q.pc)
    BY <1>2, <1>5 DEF SlotStep, Holding
<1>7. CASE CallFails(r) /\ UNCHANGED <<jobs, lost>>
    <2>1. FaultStep(r)
        BY <1>7 DEF CallFails, FaultStep
    <2>2. AnswerStep(r, q)
        BY <1>5 DEF AnswerStep
    <2> QED
        BY <1>2, <1>3, <1>4, <1>5, <1>6, <1>7, <2>1, <2>2, QuietStep DEF Building
<1>8. CASE /\ lost < MaxLostInserts
           /\ lost' = lost + 1
           /\ Create(r, req[r].key, ObjectKey(r))
           /\ UNCHANGED faultVars
    <2>1. req'[r] = q
        BY <1>1, <1>4 DEF Typed
    <2>2. lost' # 0
        BY <1>1, <1>8 DEF Typed
    <2>3. TableStep(r)
        BY <1>2, <1>8, InsertAfterObject
    <2>4. /\ AnswerSound(r)
          /\ KnownSound(r)
          /\ QueueInv
          /\ BlankObject
        BY DEF IngestInv, RequestSound
    <2>5. \A j \in JobIds : jobs[j].status # "absent" => jobs'[j] = jobs[j]
        BY <1>1, <2>3, <2>4, TableSound
    <2>6. AnswerSound(r)'
        BY <1>2, <1>5, <2>1, <2>4, <2>5 DEF AnswerSound, Answered
    <2>7. RowSound(r)' /\ KeptSound(r)'
        BY <1>5, <2>1, <2>2 DEF RowSound, KeptSound, Building
    <2>8. KnownSound(r)'
        BY <1>2, <1>5, <1>8, <2>1, <2>4 DEF KnownSound, faultVars
    <2>9. RequestSound(r)'
        BY <2>6, <2>7, <2>8 DEF RequestSound
    <2>10. FaultStep(r) /\ LostStep /\ BucketStep(r) /\ objects' \subseteq Requests
        BY <1>1, <1>2, <1>8 DEF FaultStep, LostStep, BucketStep, Typed
    <2> QED
        BY <1>3, <1>4, <1>6, <2>3, <2>9, <2>10, StepSound
<1> QED
    BY <1>7, <1>8 DEF CommitFails

\* Discard deletes the object of a draft that did not become a job; there is none
\* to delete if nothing was uploaded.
LEMMA DiscardSound ==
    ASSUME IngestInv, NEW r \in Requests, Discard(r)
    PROVE  IngestInv'
<1> DEFINE q == [req[r] EXCEPT !.pc = "done"]
<1>1. Typed /\ req[r] \in Request
    BY DEF IngestInv, Typed
<1>2. req[r].pc = "discard" /\ UNCHANGED <<jobs, uploadSlots, lost>>
    BY DEF Discard
<1>3. q \in Request
    BY <1>1 DEF Request
<1>4. req' = [req EXCEPT ![r] = q]
    BY <1>1 DEF Typed, Discard, Goto
<1>5. /\ q.pc = "done"
      /\ q.key = req[r].key
      /\ q.uploaded = req[r].uploaded
      /\ q.resp = req[r].resp
      /\ q.id = req[r].id
    BY <1>1 DEF Request
<1> HIDE DEF q
<1>6. SlotStep(r, q.pc)
    BY <1>2, <1>5 DEF SlotStep, Holding
<1>7. AnswerStep(r, q)
    BY <1>5 DEF AnswerStep
<1>8. CASE req[r].uploaded
    <2>1. DeleteQuietly(r)
        BY <1>8 DEF Discard
    <2> QED
        BY <1>2, <1>3, <1>4, <1>5, <1>6, <1>7, <2>1, DeleteStep DEF Building
<1>9. CASE ~req[r].uploaded
    <2>1. UNCHANGED objects /\ FaultStep(r)
        BY <1>9 DEF Discard, FaultStep
    <2> QED
        BY <1>2, <1>3, <1>4, <1>5, <1>6, <1>7, <1>9, <2>1, QuietStep DEF Building
<1> QED
    BY <1>8, <1>9

\* A crash strikes every request under way, so that what they leave in the bucket
\* is accounted for, and frees every slot.
LEMMA CrashSound ==
    ASSUME IngestInv, Crash
    PROVE  IngestInv'
<1>1. QueueInv /\ Typed /\ BlankObject
    BY DEF IngestInv
<1>2. /\ req' \in [Requests -> Request]
      /\ \A s \in Requests :
             /\ req'[s].pc = IF req[s].pc = "idle" THEN "idle" ELSE "done"
             /\ req'[s].key = req[s].key
             /\ req'[s].uploaded = req[s].uploaded
             /\ req'[s].resp = req[s].resp
             /\ req'[s].id = req[s].id
    <2> DEFINE new(s) == IF req[s].pc = "idle" THEN req[s]
                         ELSE [req[s] EXCEPT !.pc = "done"]
    <2>1. \A s \in Requests : req[s] \in Request
        BY <1>1 DEF Typed
    <2>2. \A s \in Requests :
             /\ new(s) \in Request
             /\ new(s).pc = IF req[s].pc = "idle" THEN "idle" ELSE "done"
             /\ new(s).key = req[s].key
             /\ new(s).uploaded = req[s].uploaded
             /\ new(s).resp = req[s].resp
             /\ new(s).id = req[s].id
        BY <2>1 DEF Request
    <2>3. req' = [s \in Requests |-> new(s)]
        BY DEF Crash
    <2> HIDE DEF new
    <2> QED
        BY <2>2, <2>3
<1>3. UNCHANGED <<jobs, objects, lost>> /\ uploadSlots' = 0
    BY DEF Crash
<1>4. /\ faults' \in 0 .. MaxFaults
      /\ struck' = struck \cup {r \in Requests : req[r].pc \notin {"idle", "done"}}
    <2>1. faults < MaxFaults /\ faults' = faults + 1
        BY DEF Crash, Fault
    <2>2. faults \in 0 .. MaxFaults
        BY <1>1 DEF Typed
    <2>3. faults' \in 0 .. MaxFaults
        BY <2>1, <2>2, IngestAssumption
    <2>4. struck' = struck \cup {r \in Requests : req[r].pc \notin {"idle", "done"}}
        BY DEF Crash, Fault
    <2> QED
        BY <2>3, <2>4
<1>5. Typed'
    <2>1. struck' \subseteq Requests
        BY <1>1, <1>4 DEF Typed
    <2> QED
        BY <1>1, <1>2, <1>3, <1>4, <2>1, Zenon DEF Typed
<1>6. QueueInv' /\ BlankObject'
    BY <1>1, <1>3, QueueInvStep DEF BlankObject
<1>7. ASSUME NEW s \in Requests
      PROVE  RequestSound(s)'
    <2>1. RequestSound(s)
        BY DEF IngestInv
    <2>2. Answered(s)' <=> Answered(s)
        BY <1>2 DEF Answered
    <2>3. AnswerSound(s)'
        BY <1>2, <1>3, <2>1, <2>2 DEF AnswerSound, RequestSound
    <2>4. RowSound(s)'
        BY <1>2, <1>3, <2>1 DEF RowSound, RequestSound
    <2>5. KeptSound(s)'
        BY <1>2, <1>3, <2>1 DEF KeptSound, RequestSound, Building
    <2>6. KnownSound(s)'
        BY <1>2, <1>3, <1>4, <2>1 DEF KnownSound, RequestSound
    <2> QED
        BY <2>3, <2>4, <2>5, <2>6 DEF RequestSound
<1>8. SlotsSound'
    <2>1. Holders' = {}
        BY <1>2 DEF Holders, Holding
    <2>2. Cardinality({}) = 0
        BY FS_EmptySet
    <2> QED
        BY <1>3, <2>1, <2>2, IngestAssumption DEF SlotsSound
<1> QED
    BY <1>5, <1>6, <1>7, <1>8 DEF IngestInv

-----------------------------------------------------------------------------
(* The theorems.                                                           *)

\* No request has arrived and the table is empty.
LEMMA IngestInvInit == IngestInit => IngestInv
<1> SUFFICES ASSUME IngestInit PROVE IngestInv
    OBVIOUS
<1>1. QueueInv /\ BlankObject
    BY QueueInvInit DEF IngestInit, BlankObject, RepoInit, NoRow, NewRow
<1>2. \A r \in Requests : req[r] = NoRequest
    BY DEF IngestInit
<1>3. NoRequest \in Request
    BY IngestAssumption DEF NoRequest, Request
<1>4. Typed
    BY <1>3, IngestAssumption DEF IngestInit, Typed
<1>5. \A r \in Requests : jobs[r].status = "absent" /\ jobs[r].object_key = ""
    BY DEF IngestInit, RepoInit, Requests, NoRow, NewRow
<1>6. /\ NoRequest.pc = "idle"
      /\ NoRequest.resp = "none"
      /\ NoRequest.uploaded = FALSE
    BY DEF NoRequest
<1>7. \A r \in Requests : RequestSound(r)
    BY <1>2, <1>5, <1>6
       DEF IngestInit, RequestSound, AnswerSound, Answered, RowSound, KeptSound,
           KnownSound
<1>8. SlotsSound
    <2>1. Holders = {}
        BY <1>2, <1>6 DEF Holders, Holding
    <2>2. Cardinality({}) = 0
        BY FS_EmptySet
    <2> QED
        BY <2>1, <2>2, IngestAssumption DEF SlotsSound, IngestInit
<1> QED
    BY <1>1, <1>4, <1>7, <1>8 DEF IngestInv

\* Every step a handler takes keeps the invariant.
LEMMA HandlerSound ==
    ASSUME IngestInv, NEW r \in Requests, HandlerNext(r)
    PROVE  IngestInv'
<1>1. CASE \E text \in BOOLEAN : TextPart(r, text)
    BY <1>1, TextPartSound
<1>2. CASE \/ LookupFinds(r) \/ LookupMisses(r) \/ FilePart(r) \/ PartRefused(r)
           \/ BodyBroken(r) \/ LastPart(r)
    BY <1>2, LookupFindsSound, LookupMissesSound, FilePartSound, PartRefusedSound,
       BodyBrokenSound, LastPartSound, Zenon
<1>3. CASE \/ AcquireUploadSlot(r) \/ WaitForSlot(r) \/ ShedLoad(r)
           \/ SecondFileRefused(r) \/ AttachFile(r) \/ PutFails(r) \/ UndoPut(r)
           \/ ClosePart(r)
    BY <1>3, AcquireUploadSlotSound, WaitForSlotSound, ShedLoadSound,
       SecondFileRefusedSound, AttachFileSound, PutFailsSound, UndoPutSound,
       ClosePartSound, Zenon
<1>4. CASE \/ NoPayload(r) \/ CommitCreates(r) \/ CommitDuplicate(r)
           \/ CommitFails(r) \/ UndoCommit(r) \/ UndoDuplicate(r) \/ Resolve(r)
           \/ ResolveFails(r) \/ Discard(r)
    BY <1>4, NoPayloadSound, CommitCreatesSound, CommitDuplicateSound,
       CommitFailsSound, UndoCommitSound, UndoDuplicateSound, ResolveSound,
       ResolveFailsSound, DiscardSound, Zenon
<1> QED
    BY <1>1, <1>2, <1>3, <1>4, Zenon DEF HandlerNext

\* So does every step of the API.
LEMMA IngestInvStep == IngestInv /\ [IngestNext]_ivars => IngestInv'
<1> SUFFICES ASSUME IngestInv, [IngestNext]_ivars
             PROVE  IngestInv'
    OBVIOUS
<1>1. ASSUME NEW r \in Requests, NEW key \in Keys \cup {""}, Arrive(r, key)
      PROVE  IngestInv'
    BY <1>1, ArriveSound
<1>2. ASSUME NEW r \in Requests,
             RefuseEarly(r) \/ HandlerNext(r) \/ HangUp(r) \/ Stall(r)
      PROVE  IngestInv'
    BY <1>2, RefuseEarlySound, HandlerSound, HangUpSound, StallSound, Zenon
<1>3. CASE Crash
    BY <1>3, CrashSound
<1>4. CASE UNCHANGED ivars
    <2>1. UNCHANGED <<jobs, req, uploadSlots, objects, faults, struck, lost>>
        BY <1>4 DEF ivars, api, faultVars
    <2>2. QueueInv'
        BY <2>1, QueueInvStep DEF IngestInv
    <2>3. Typed' /\ BlankObject' /\ SlotsSound'
        BY <2>1 DEF IngestInv, Typed, BlankObject, SlotsSound, Holders
    <2>4. \A r \in Requests : RequestSound(r)'
        BY <2>1, OthersSound DEF IngestInv
    <2> QED
        BY <2>2, <2>3, <2>4 DEF IngestInv
<1> QED
    BY <1>1, <1>2, <1>3, <1>4, Zenon DEF IngestNext

\* The invariant holds in every reachable state.
LEMMA IngestInvHolds == IngestSpec => []IngestInv
BY IngestInvInit, IngestInvStep, PTL DEF IngestSpec

\* Every variable of the handler, the draft and the bucket keeps its type, for any
\* number of requests, parts and faults.
THEOREM IngestTyped == IngestSpec => []IngestTypeOK
<1>1. IngestInv => IngestTypeOK
    <2> SUFFICES ASSUME IngestInv PROVE IngestTypeOK
        OBVIOUS
    <2>1. RepoTypeOK
        BY DEF IngestInv, QueueInv, GoodTable, RepoTypeOK
    <2>2. uploadSlots \in 0 .. MaxConcurrentUploads
        BY HoldersFinite, IngestAssumption DEF IngestInv, SlotsSound
    <2>3. Typed
        BY DEF IngestInv
    <2> QED
        BY <2>1, <2>2, <2>3, Zenon DEF IngestTypeOK, Typed, Request
<1> QED
    BY <1>1, IngestInvHolds, PTL

\* A 202 is kept: the row it names is there under the request's key, and a refused
\* request has created none unless its INSERT hid its success (CreateJob, Commit).
THEOREM AnswersAreKept == IngestSpec => []AcceptedIsStored
<1>1. IngestInv => AcceptedIsStored
    BY DEF IngestInv, RequestSound, AnswerSound, RowSound, AcceptedIsStored
<1> QED
    BY <1>1, IngestInvHolds, PTL

\* However submissions with one Idempotency-Key race through the fast path and the
\* unique index, all that are answered with a job are answered with the same one.
THEOREM OneJobPerKey == IngestSpec => []SameKeySameJob
<1>1. IngestInv => SameKeySameJob
    <2> SUFFICES ASSUME IngestInv, NEW r \in Requests, NEW s \in Requests,
                        Answered(r), Answered(s),
                        req[r].key # "", req[r].key = req[s].key
                 PROVE  req[r].id = req[s].id
        BY DEF SameKeySameJob
    <2>1. /\ req[r].id \in JobIds
          /\ jobs[req[r].id].idempotency_key = req[r].key
          /\ req[s].id \in JobIds
          /\ jobs[req[s].id].idempotency_key = req[s].key
        BY DEF IngestInv, RequestSound, AnswerSound
    <2>2. KeysUnique
        BY DEF IngestInv, QueueInv
    <2> QED
        BY <2>1, <2>2 DEF KeysUnique
<1> QED
    BY <1>1, IngestInvHolds, PTL

\* No row refers to an object that is not there, as long as no INSERT hid its
\* success: the object is stored before the row, and no path deletes it after.
THEOREM RowsKeepTheirObjects == IngestSpec => []NoDanglingObject
<1>1. IngestInv => NoDanglingObject
    BY DEF IngestInv, RequestSound, KeptSound, NoDanglingObject, RowsHaveObjects,
           Requests
<1> QED
    BY <1>1, IngestInvHolds, PTL

\* No path of the handler leaves an object without a job behind; only a fault that
\* strikes the very request can.
THEOREM ObjectsHaveJobs == IngestSpec => []NoOrphanObject
<1>1. IngestInv => NoOrphanObject
    <2> SUFFICES ASSUME IngestInv, NEW r \in Requests \ struck,
                        req[r].pc = "done", r \in objects
                 PROVE  jobs[r].status # "absent" /\ jobs[r].object_key # ""
        BY DEF NoOrphanObject
    <2>1. jobs[r].object_key # ""
        BY DEF IngestInv, RequestSound, KnownSound
    <2> QED
        BY <2>1 DEF IngestInv, BlankObject, Requests
<1> QED
    BY <1>1, IngestInvHolds, PTL

\* The channel uploadSlots holds one token for each upload under way and never
\* more than MAX_CONCURRENT_UPLOADS, on every early return and after a crash.
THEOREM SlotsStayAccounted == IngestSpec => []SlotsAccounted
<1>1. IngestInv => SlotsAccounted
    BY DEF IngestInv, SlotsSound, Holders, Holding, SlotsAccounted
<1> QED
    BY <1>1, IngestInvHolds, PTL

\* Every step of the API is a step of the queue on the table or leaves it alone,
\* so what JobQueueProofs shows of the queue holds under the API too.
THEOREM IngestImplementsQueue == IngestSpec => RepoSpec
<1>1. IngestInit => RepoInit
    BY DEF IngestInit
<1>2. ASSUME IngestInv, [IngestNext]_ivars
      PROVE  [RepoNext]_jobs
    <2>1. Typed
        BY <1>2 DEF IngestInv
    <2>2. ASSUME NEW r \in Requests, CommitCreates(r) \/ CommitFails(r)
          PROVE  [RepoNext]_jobs
        <3>1. CASE UNCHANGED jobs
            BY <3>1
        <3>2. CASE Create(r, req[r].key, ObjectKey(r))
            <4>1. req[r].pc = "commit"
                BY <2>2 DEF CommitCreates, CommitFails
            <4>2. TableStep(r)
                BY <1>2, <3>2, <4>1, InsertAfterObject
            <4> QED
                BY <2>1, <4>2, TableStepIsQueueStep
        <3> QED
            BY <2>2, <3>1, <3>2 DEF CommitCreates, CommitFails
    <2>3. ASSUME NEW r \in Requests, HandlerNext(r),
                 ~CommitCreates(r), ~CommitFails(r)
          PROVE  UNCHANGED jobs
        BY <2>3, Zenon DEF HandlerNext, LookupFinds, LookupMisses, TextPart, FilePart, PartRefused,
               BodyBroken, LastPart, AcquireUploadSlot, WaitForSlot, ShedLoad,
               SecondFileRefused, AttachFile, PutFails, UndoPut, ClosePart, NoPayload,
               CommitDuplicate, UndoCommit, UndoDuplicate, Resolve, ResolveFails,
               Discard
    <2>4. ASSUME NEW r \in Requests, HandlerNext(r)
          PROVE  [RepoNext]_jobs
        BY <2>2, <2>3, <2>4
    <2>5. ASSUME NEW r \in Requests,
                 \/ \E key \in Keys \cup {""} : Arrive(r, key)
                 \/ RefuseEarly(r)
                 \/ HangUp(r)
                 \/ Stall(r)
          PROVE  UNCHANGED jobs
        BY <2>5 DEF Arrive, RefuseEarly, HangUp, Stall
    <2>6. CASE Crash
        BY <2>6 DEF Crash
    <2>7. CASE UNCHANGED ivars
        BY <2>7 DEF ivars
    <2> QED
        BY <1>2, <2>4, <2>5, <2>6, <2>7, Zenon DEF IngestNext
<1> QED
    BY <1>1, <1>2, IngestInvHolds, PTL DEF IngestSpec, RepoSpec

=============================================================================
