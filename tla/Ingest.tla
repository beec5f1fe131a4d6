------------------------------- MODULE Ingest -------------------------------
(***************************************************************************)
(* POST /api/v1/jobs on one API replica: the handler CreateJob with its    *)
(* upload slots (internal/api/http/handlers.go), the Draft it fills        *)
(* (internal/service/job.go), the object store and the table of JobQueue.  *)
(*                                                                         *)
(* A request is named by the id of the draft it would create, since every  *)
(* draft gets a fresh UUID; a client that tries again is another request   *)
(* with the same Idempotency-Key.  Every remote call is a step of its own. *)
(* The replica may crash, calls may fail, and a client may hang up at any  *)
(* time, which cancels the context its calls run under.                    *)
(*                                                                         *)
(* What the parts contain is left out: a part is accepted or refused.      *)
(***************************************************************************)
EXTENDS JobQueue

CONSTANTS
    MaxConcurrentUploads,  \* MAX_CONCURRENT_UPLOADS
    MaxParts,              \* model bound: parts of one request
    MaxFaults,             \* model bound: crashes and failed calls
    MaxLostInserts         \* model bound: INSERTs that commit but report an error

ASSUME IngestAssumption ==
    /\ MaxConcurrentUploads \in Nat \ {0}
    /\ MaxParts \in Nat
    /\ MaxFaults \in Nat
    /\ MaxLostInserts \in Nat

VARIABLES
    req,          \* request -> where its handler is, what its draft holds
    uploadSlots,  \* how many tokens the channel uploadSlots holds
    objects,      \* ids with an object in the bucket
    faults,       \* faults so far
    struck,       \* requests that a fault has struck
    lost          \* lost inserts so far

api == <<req, uploadSlots, objects>>
faultVars == <<faults, struck>>
ivars == <<jobs, api, faultVars, lost>>

Requests == JobIds

NoRequest ==
    [pc |-> "idle", key |-> "", gone |-> FALSE, stalled |-> FALSE,
     text |-> FALSE, uploaded |-> FALSE, parts |-> 0, resp |-> "none", id |-> 0]

IngestInit ==
    /\ RepoInit
    /\ req = [r \in Requests |-> NoRequest]
    /\ uploadSlots = 0
    /\ objects = {}
    /\ faults = 0
    /\ struck = {}
    /\ lost = 0

Fault(rs) ==
    /\ faults < MaxFaults
    /\ faults' = faults + 1
    /\ struck' = struck \cup rs

\* A call fails because the request's context is cancelled, or by a fault.
CallFails(r) == IF req[r].gone THEN UNCHANGED faultVars ELSE Fault({r})

Goto(r, pc) == req' = [req EXCEPT ![r].pc = pc]

\* writeJob, writeError: the response is fixed; what is left is the handler's
\* deferred Discard.
Respond(r, resp, id) ==
    req' = [req EXCEPT ![r].pc = "discard", ![r].resp = resp, ![r].id = id]

\* A read of the body returns when bytes arrive, or fails when the connection is
\* closed.  Nothing else ends it: the server sets no deadline for bodies
\* (cmd/server/main.go).
BodyArrives(r) == ~req[r].stalled
ReadReturns(r) == BodyArrives(r) \/ req[r].gone

\* deleteQuietly runs under a context of its own and only logs a failure.
DeleteQuietly(r) ==
    \/ objects' = objects \ {r} /\ UNCHANGED faultVars
    \/ Fault({r}) /\ UNCHANGED objects

-----------------------------------------------------------------------------
(* CreateJob, up to the multipart loop                                     *)

Arrive(r, key) ==
    /\ req[r].pc = "idle"
    /\ req' = [req EXCEPT ![r].key = key,
                          ![r].pc = IF key = "" THEN "parts" ELSE "lookup"]
    /\ UNCHANGED <<jobs, uploadSlots, objects, faultVars, lost>>

\* No valid API key, not a multipart body, or an Idempotency-Key that is too long:
\* there is no draft yet.
RefuseEarly(r) ==
    /\ req[r].pc = "idle"
    /\ req' = [req EXCEPT ![r].pc = "done", ![r].resp = "refused"]
    /\ UNCHANGED <<jobs, uploadSlots, objects, faultVars, lost>>

\* The fast path: a known key is answered with the job it belongs to.
LookupFinds(r) ==
    /\ req[r].pc = "lookup"
    /\ \E j \in GetByIdempotencyKey(req[r].key) : Respond(r, "replayed", j)
    /\ UNCHANGED <<jobs, uploadSlots, objects, faultVars, lost>>

\* An unknown key, or any error of the lookup, leads on to the upload.
LookupMisses(r) ==
    /\ req[r].pc = "lookup"
    /\ IF KeyTaken(req[r].key) THEN CallFails(r) ELSE UNCHANGED faultVars
    /\ Goto(r, "parts")
    /\ UNCHANGED <<jobs, uploadSlots, objects, lost>>

-----------------------------------------------------------------------------
(* The loop over the parts                                                 *)

\* SetText replaces what an earlier text part set; blanks count as no text.
TextPart(r, text) ==
    /\ req[r].pc = "parts"
    /\ BodyArrives(r)
    /\ req[r].parts < MaxParts
    /\ req' = [req EXCEPT ![r].parts = @ + 1, ![r].text = text]
    /\ UNCHANGED <<jobs, uploadSlots, objects, faultVars, lost>>

FilePart(r) ==
    /\ req[r].pc = "parts"
    /\ BodyArrives(r)
    /\ req[r].parts < MaxParts
    /\ req' = [req EXCEPT ![r].parts = @ + 1, ![r].pc = "slot"]
    /\ UNCHANGED <<jobs, uploadSlots, objects, faultVars, lost>>

\* A text over its limit, a file without a name or of a type that is not allowed,
\* or whose first bytes belie its type: no slot is asked for.
PartRefused(r) ==
    /\ req[r].pc = "parts"
    /\ BodyArrives(r)
    /\ req[r].parts < MaxParts
    /\ req' = [req EXCEPT ![r].parts = @ + 1, ![r].pc = "close part"]
    /\ UNCHANGED <<jobs, uploadSlots, objects, faultVars, lost>>

\* The body is malformed, too large as a whole, or ends too soon.
BodyBroken(r) ==
    /\ req[r].pc = "parts"
    /\ ReadReturns(r)
    /\ Respond(r, "refused", 0)
    /\ UNCHANGED <<jobs, uploadSlots, objects, faultVars, lost>>

LastPart(r) ==
    /\ req[r].pc = "parts"
    /\ BodyArrives(r)
    /\ Goto(r, "commit")
    /\ UNCHANGED <<jobs, uploadSlots, objects, faultVars, lost>>

-----------------------------------------------------------------------------
(* acquireUploadSlot, AttachFile                                           *)

\* Mutant of AcquireUploadSlot: the channel is never full.
AcquireWithoutLimit(r) ==
    /\ req[r].pc \in {"slot", "slotwait"}
    /\ uploadSlots' = uploadSlots + 1
    /\ Goto(r, "attach")
    /\ UNCHANGED <<jobs, objects, faultVars, lost>>

AcquireUploadSlot(r) ==
    /\ req[r].pc \in {"slot", "slotwait"}
    /\ uploadSlots < MaxConcurrentUploads
    /\ uploadSlots' = uploadSlots + 1
    /\ Goto(r, "attach")
    /\ UNCHANGED <<jobs, objects, faultVars, lost>>

\* The first select finds the channel full and starts the timer.
WaitForSlot(r) ==
    /\ req[r].pc = "slot"
    /\ uploadSlots >= MaxConcurrentUploads
    /\ Goto(r, "slotwait")
    /\ UNCHANGED <<jobs, uploadSlots, objects, faultVars, lost>>

\* Mutant of ShedLoad: only the client ends the wait.
ShedLoadOnHangUp(r) ==
    /\ req[r].pc = "slotwait"
    /\ req[r].gone
    /\ Goto(r, "close part")
    /\ UNCHANGED <<jobs, uploadSlots, objects, faultVars, lost>>

\* The timer fires, or the client hangs up, before a slot is free.
ShedLoad(r) ==
    /\ req[r].pc = "slotwait"
    /\ Goto(r, "close part")
    /\ UNCHANGED <<jobs, uploadSlots, objects, faultVars, lost>>

\* Mutant of SecondFileRefused: the early return forgets the slot.
SecondFileKeepsSlot(r) ==
    /\ req[r].pc = "attach"
    /\ req[r].uploaded
    /\ Goto(r, "close part")
    /\ UNCHANGED <<jobs, uploadSlots, objects, faultVars, lost>>

SecondFileRefused(r) ==
    /\ req[r].pc = "attach"
    /\ req[r].uploaded
    /\ uploadSlots' = uploadSlots - 1
    /\ Goto(r, "close part")
    /\ UNCHANGED <<jobs, objects, faultVars, lost>>

AttachFile(r) ==
    /\ req[r].pc = "attach"
    /\ ~req[r].uploaded
    /\ BodyArrives(r)
    /\ objects' = objects \cup {r}
    /\ uploadSlots' = uploadSlots - 1
    /\ req' = [req EXCEPT ![r].pc = "parts", ![r].uploaded = TRUE]
    /\ UNCHANGED <<jobs, faultVars, lost>>

\* Put reports an error: the body could not be read, or the store failed, which
\* may have kept the object all the same.
PutFails(r) ==
    /\ req[r].pc = "attach"
    /\ ~req[r].uploaded
    /\ ReadReturns(r)
    /\ \/ UNCHANGED <<objects, faultVars>>
       \/ objects' = objects \cup {r} /\ CallFails(r)
    /\ Goto(r, "undo put")
    /\ UNCHANGED <<jobs, uploadSlots, lost>>

UndoPut(r) ==
    /\ req[r].pc = "undo put"
    /\ DeleteQuietly(r)
    /\ uploadSlots' = uploadSlots - 1
    /\ Goto(r, "close part")
    /\ UNCHANGED <<jobs, lost>>

\* Before it answers, the handler closes the part, which reads what is left of
\* it.  The slot is free by then.
ClosePart(r) ==
    /\ req[r].pc = "close part"
    /\ ReadReturns(r)
    /\ Respond(r, "refused", 0)
    /\ UNCHANGED <<jobs, uploadSlots, objects, faultVars, lost>>

-----------------------------------------------------------------------------
(* Commit, Discard                                                         *)

Payload(r) == req[r].text \/ req[r].uploaded

ObjectKey(r) == IF req[r].uploaded THEN "object" ELSE ""

NoPayload(r) ==
    /\ req[r].pc = "commit"
    /\ ~Payload(r)
    /\ Respond(r, "refused", 0)
    /\ UNCHANGED <<jobs, uploadSlots, objects, faultVars, lost>>

\* Mutant of CommitCreates: `committed` is not set.
CommitNotMarked(r) ==
    /\ req[r].pc = "commit"
    /\ Payload(r)
    /\ Create(r, req[r].key, ObjectKey(r))
    /\ Respond(r, "accepted", r)
    /\ UNCHANGED <<uploadSlots, objects, faultVars, lost>>

\* `committed` turns Discard off, so the handler is done.
CommitCreates(r) ==
    /\ req[r].pc = "commit"
    /\ Payload(r)
    /\ Create(r, req[r].key, ObjectKey(r))
    /\ req' = [req EXCEPT ![r].pc = "done", ![r].resp = "accepted", ![r].id = r]
    /\ UNCHANGED <<uploadSlots, objects, faultVars, lost>>

CommitDuplicate(r) ==
    /\ req[r].pc = "commit"
    /\ Payload(r)
    /\ KeyTaken(req[r].key)
    /\ Goto(r, IF req[r].uploaded THEN "undo duplicate" ELSE "resolve")
    /\ UNCHANGED <<jobs, uploadSlots, objects, faultVars, lost>>

\* The INSERT fails, or commits although its caller sees an error: the reply is
\* lost, or the context is cancelled while the statement is under way.
CommitFails(r) ==
    /\ req[r].pc = "commit"
    /\ Payload(r)
    /\ \/ CallFails(r) /\ UNCHANGED <<jobs, lost>>
       \/ /\ lost < MaxLostInserts
          /\ lost' = lost + 1
          /\ Create(r, req[r].key, ObjectKey(r))
          /\ UNCHANGED faultVars
    /\ IF req[r].uploaded THEN Goto(r, "undo commit") ELSE Respond(r, "refused", 0)
    /\ UNCHANGED <<uploadSlots, objects>>

UndoCommit(r) ==
    /\ req[r].pc = "undo commit"
    /\ DeleteQuietly(r)
    /\ Respond(r, "refused", 0)
    /\ UNCHANGED <<jobs, uploadSlots, lost>>

UndoDuplicate(r) ==
    /\ req[r].pc = "undo duplicate"
    /\ DeleteQuietly(r)
    /\ Goto(r, "resolve")
    /\ UNCHANGED <<jobs, uploadSlots, lost>>

Resolve(r) ==
    /\ req[r].pc = "resolve"
    /\ \E j \in GetByIdempotencyKey(req[r].key) : Respond(r, "replayed", j)
    /\ UNCHANGED <<jobs, uploadSlots, objects, faultVars, lost>>

ResolveFails(r) ==
    /\ req[r].pc = "resolve"
    /\ CallFails(r)
    /\ Respond(r, "refused", 0)
    /\ UNCHANGED <<jobs, uploadSlots, objects, lost>>

\* Mutant of Discard: the handler has no deferred Discard.
DiscardNothing(r) ==
    /\ req[r].pc = "discard"
    /\ Goto(r, "done")
    /\ UNCHANGED <<jobs, uploadSlots, objects, faultVars, lost>>

\* An answer from the fast path never had a draft, so `uploaded` is FALSE there.
Discard(r) ==
    /\ req[r].pc = "discard"
    /\ IF req[r].uploaded THEN DeleteQuietly(r) ELSE UNCHANGED <<objects, faultVars>>
    /\ Goto(r, "done")
    /\ UNCHANGED <<jobs, uploadSlots, lost>>

-----------------------------------------------------------------------------
(* The world around the handler                                            *)

HangUp(r) ==
    /\ req[r].pc \notin {"idle", "done"}
    /\ ~req[r].gone
    /\ req' = [req EXCEPT ![r].gone = TRUE]
    /\ UNCHANGED <<jobs, uploadSlots, objects, faultVars, lost>>

\* The client keeps its connection and sends no more.
Stall(r) ==
    /\ req[r].pc \in {"parts", "slot", "slotwait", "attach", "close part"}
    /\ ~req[r].gone /\ ~req[r].stalled
    /\ req' = [req EXCEPT ![r].stalled = TRUE]
    /\ UNCHANGED <<jobs, uploadSlots, objects, faultVars, lost>>

\* The replica dies with every request it was serving and starts afresh.
Crash ==
    /\ Fault({r \in Requests : req[r].pc \notin {"idle", "done"}})
    /\ req' = [r \in Requests |->
                  IF req[r].pc = "idle" THEN req[r]
                  ELSE [req[r] EXCEPT !.pc = "done"]]
    /\ uploadSlots' = 0
    /\ UNCHANGED <<jobs, objects, lost>>

-----------------------------------------------------------------------------

\* The steps the handler itself takes, and the client's next part.
HandlerNext(r) ==
    \/ LookupFinds(r)
    \/ LookupMisses(r)
    \/ \E text \in BOOLEAN : TextPart(r, text)
    \/ FilePart(r)
    \/ PartRefused(r)
    \/ BodyBroken(r)
    \/ LastPart(r)
    \/ AcquireUploadSlot(r)
    \/ WaitForSlot(r)
    \/ ShedLoad(r)
    \/ SecondFileRefused(r)
    \/ AttachFile(r)
    \/ PutFails(r)
    \/ UndoPut(r)
    \/ ClosePart(r)
    \/ NoPayload(r)
    \/ CommitCreates(r)
    \/ CommitDuplicate(r)
    \/ CommitFails(r)
    \/ UndoCommit(r)
    \/ UndoDuplicate(r)
    \/ Resolve(r)
    \/ ResolveFails(r)
    \/ Discard(r)

IngestNext ==
    \/ \E r \in Requests, key \in Keys \cup {""} : Arrive(r, key)
    \/ \E r \in Requests : RefuseEarly(r) \/ HandlerNext(r) \/ HangUp(r) \/ Stall(r)
    \/ Crash

IngestSpec == IngestInit /\ [][IngestNext]_ivars

\* A handler runs on, remote calls return, and a read returns when bytes arrive
\* or the connection closes.  Nothing is asked of clients: they stall for ever.
IngestFairSpec == IngestSpec /\ \A r \in Requests : WF_ivars(HandlerNext(r))

-----------------------------------------------------------------------------
(* Properties.                                                             *)

\* Every variable has the shape the code gives it.
IngestTypeOK ==
    /\ RepoTypeOK
    /\ req \in [Requests ->
           [pc       : {"idle", "lookup", "parts", "slot", "slotwait", "attach",
                        "undo put", "close part", "commit", "undo commit",
                        "undo duplicate", "resolve", "discard", "done"},
            key      : Keys \cup {""},
            gone     : BOOLEAN,
            stalled  : BOOLEAN,
            text     : BOOLEAN,
            uploaded : BOOLEAN,
            parts    : 0 .. MaxParts,
            resp     : {"none", "accepted", "replayed", "refused"},
            id       : JobIds \cup {0}]]
    /\ uploadSlots \in 0 .. MaxConcurrentUploads
    /\ objects \subseteq Requests
    /\ faults \in 0 .. MaxFaults
    /\ struck \subseteq Requests
    /\ lost \in 0 .. MaxLostInserts

Answered(r) == req[r].resp \in {"accepted", "replayed"}

\* Submissions that carry the same Idempotency-Key are answered with the same
\* job, whichever of them wins the race for the unique index, and whether the
\* others meet it in the fast path or in Commit.
SameKeySameJob ==
    \A r, s \in Requests :
        /\ Answered(r) /\ Answered(s)
        /\ req[r].key # "" /\ req[r].key = req[s].key
        => req[r].id = req[s].id

\* A 202 is a promise kept: the job it names is in the table under the key of
\* the request, whatever fails or crashes before or after.  And an error means
\* that the request has created nothing, unless an INSERT has hidden its success.
AcceptedIsStored ==
    \A r \in Requests :
        /\ Answered(r) =>
               /\ req[r].id \in JobIds
               /\ jobs[req[r].id].status # "absent"
               /\ jobs[req[r].id].idempotency_key = req[r].key
        /\ req[r].resp = "refused" /\ lost = 0 => jobs[r].status = "absent"

\* "a job never references an object that does not exist" (README): the row of
\* a job with a file has its object in the bucket.
RowsHaveObjects ==
    \A j \in JobIds : jobs[j].object_key # "" => j \in objects

\* No path of the handler deletes the object of a job it has created, and none
\* inserts a row before its object is stored, as long as an INSERT that reports
\* an error has inserted nothing.
NoDanglingObject == lost = 0 => RowsHaveObjects

\* A request that created no job leaves no object behind, on any of the paths
\* that end it: the two undo steps of the service, the deferred Discard, a lost
\* race for the key, a client that hangs up.  Only a fault that strikes this very
\* request, a crash while it is served or a failed delete, can do that; nothing
\* sweeps the bucket afterwards.
NoOrphanObject ==
    \A r \in Requests \ struck :
        req[r].pc = "done" /\ r \in objects =>
            jobs[r].status # "absent" /\ jobs[r].object_key # ""

\* A slot is held exactly while a file is being attached: none leaks on an
\* early return, none is given back twice, and no more uploads run at a time
\* than MAX_CONCURRENT_UPLOADS.
SlotsAccounted ==
    /\ uploadSlots = Cardinality({r \in Requests :
                                      req[r].pc \in {"attach", "undo put"}})
    /\ uploadSlots <= MaxConcurrentUploads

\* Every request comes to an end unless its own client stalls: waiting for a
\* slot is bounded, also when a client that has stalled keeps the slot for ever,
\* and no failure leaves a handler stuck.
EveryRequestEnds ==
    \A r \in Requests :
        req[r].pc # "idle" ~> req[r].pc = "done" \/ req[r].stalled
=============================================================================
