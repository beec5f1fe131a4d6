--------------------------- MODULE MultipartUpload ---------------------------
(***************************************************************************)
(* Store.Put of internal/storage/s3/store.go for one body of unknown       *)
(* length, the only way the service calls it: putAuto reads one part and   *)
(* either sends it as a whole object or goes on with a multipart upload,   *)
(* in which the caller's goroutine produces parts and S3_PART_CONCURRENCY  *)
(* goroutines of an errgroup upload them.  The body is read through the    *)
(* cappedReader that ValidateFile builds (internal/api/http/mime.go).      *)
(*                                                                         *)
(* The body is `size` units long and a part holds PartSize.  Part buffers   *)
(* are counted, not modelled.  The bucket is external: a call may succeed, *)
(* fail, or succeed and report an error.                                   *)
(***************************************************************************)
EXTENDS Integers, Sequences, FiniteSets

CONSTANTS
    MaxSize,          \* model bound: length of the body
    Limits,           \* MAX_DOC_BYTES, MAX_IMAGE_BYTES, MAX_VIDEO_BYTES
    PartSize,         \* S3_PART_SIZE
    PartConcurrency,  \* S3_PART_CONCURRENCY
    MaxFaults         \* model bound: calls to the bucket that fail

ASSUME UploadAssumption ==
    /\ MaxSize \in Nat
    /\ Limits \subseteq Nat
    /\ PartSize \in Nat \ {0}
    /\ PartConcurrency \in Nat \ {0}
    /\ MaxFaults \in Nat

VARIABLES
    size,      \* length of the body, which Put does not know
    pc,        \* where Put is
    part,      \* the part in the producer's buffer: [num, n], n bytes read
    read,      \* how much of the body has been read
    max,       \* its limit, which maxForKind takes from the kind of file
    exceeded,  \* the cappedReader has met a byte past its limit
    rerr,      \* what the last fill returned: "nil", "EOF" or "error"
    queue,     \* the buffered channel `jobs`
    closed,    \* the channel is closed
    uploader,  \* goroutine -> what it is doing, and with which part
    parts,     \* the CompletedParts, in the order they were appended
    buffers,   \* buffers taken from bufPool and not given back
    hungUp,    \* the request's context is cancelled
    gErr,      \* the first error of the errgroup; it cancels gctx
    err,       \* the error Put will return
    upload,    \* the bucket's multipart upload, see UploadStates
    object,    \* the object in the bucket: the sequence of its parts
    faults     \* faults so far

bodyVars == <<size, max, part, read, exceeded, rerr>>
groupVars == <<queue, closed, uploader, parts, gErr>>
bucketVars == <<upload, object>>
uvars == <<bodyVars, pc, err, groupVars, bucketVars, buffers, hungUp, faults>>

Uploaders == 1 .. PartConcurrency

\* Besides "open" there are two ways for an upload to be open in the bucket:
\* "unknown" to Put, which never learnt its id, and "abandoned" after the one call
\* of abort has failed.
UploadStates == {"none", "open", "done", "aborted", "unknown", "abandoned"}

Part == [num : Nat, n : 0 .. PartSize]

NoPart == [num |-> 0, n |-> 0]

NoObject == << >>

Waiting == [pc |-> "receive", part |-> NoPart]

UploadInit ==
    /\ size \in 0 .. MaxSize
    /\ max \in Limits
    /\ pc = "first"
    /\ part = NoPart
    /\ read = 0
    /\ exceeded = FALSE
    /\ rerr = "nil"
    /\ queue = << >>
    /\ closed = FALSE
    /\ uploader = [u \in Uploaders |-> [Waiting EXCEPT !.pc = "unborn"]]
    /\ parts = << >>
    /\ buffers = 1
    /\ hungUp = FALSE
    /\ gErr = "nil"
    /\ err = "nil"
    /\ upload = "none"
    /\ object = NoObject
    /\ faults = 0

Fault == faults < MaxFaults /\ faults' = faults + 1

\* A call to the bucket fails by a fault, or because its context is cancelled.
CallFails(cancelled) == IF cancelled THEN UNCHANGED faults ELSE Fault

\* Mutant of Cancelled: the producer watches the request's context, not gctx.
CancelledByClient == hungUp

\* gctx is done: the client is gone or an uploader has failed.
Cancelled == hungUp \/ gErr # "nil"

\* What gctx.Err() and a call under gctx report.
CallError(cancelled) == IF cancelled THEN "context canceled" ELSE "store error"

-----------------------------------------------------------------------------
(* fill, putAuto, putObject                                                *)

Left == size - read

\* Mutant of Room: the limit itself is taken for one byte too many.
RoomStrict == max - 1 - read

\* How much more the cappedReader lets through.
Room == max - read

\* Mutant of Fill: the length of the buffer is taken for the bytes read.
FillCountsBuffer(num) ==
    /\ part' = [num |-> num, n |-> PartSize]
    /\ rerr' = IF Left >= PartSize THEN "nil" ELSE "EOF"
    /\ UNCHANGED exceeded

\* fill reads until the buffer is full, the body ends, or reading fails after
\* some bytes; only the end of the body is reported as EOF.  A reader may report
\* either with the last bytes, so also a full buffer can come with EOF.  A read
\* that meets the byte after the limit fails and gives none of its bytes; the
\* reads before it in the same fill may have given any number.
Fill(num) ==
    \/ /\ PartSize <= Left /\ PartSize <= Room
       /\ part' = [num |-> num, n |-> PartSize]
       /\ rerr' = "nil"
       /\ UNCHANGED exceeded
    \/ /\ Left <= PartSize /\ Left <= Room
       /\ part' = [num |-> num, n |-> Left]
       /\ rerr' = "EOF"
       /\ UNCHANGED exceeded
    \/ /\ Room < PartSize /\ Room < Left
       /\ \E n \in 0 .. Room : part' = [num |-> num, n |-> n]
       /\ rerr' = "error"
       /\ exceeded' = TRUE
    \/ /\ \E n \in 0 .. PartSize :
              n <= Left /\ n <= Room /\ part' = [num |-> num, n |-> n]
       /\ rerr' = "error"
       /\ UNCHANGED exceeded

\* A buffer has been taken before fill is called, and goes back at once when
\* there is nothing in it to send.
FirstPart ==
    /\ pc = "first"
    /\ Fill(1)
    /\ read' = read + part'.n
    /\ buffers' = buffers - IF rerr' = "error" THEN 1 ELSE 0
    /\ err' = IF rerr' = "error" THEN "read error" ELSE "nil"
    /\ pc' = CASE rerr' = "EOF"   -> "put object"
               [] rerr' = "nil"   -> "create"
               [] rerr' = "error" -> "done"
    /\ UNCHANGED <<size, max, groupVars, bucketVars, hungUp, faults>>

PutObject ==
    /\ pc = "put object"
    /\ object' = <<part>>
    /\ buffers' = buffers - 1
    /\ pc' = "done"
    /\ UNCHANGED <<bodyVars, err, groupVars, upload, hungUp, faults>>

\* The object may be there although the call reports an error.
PutObjectFails ==
    /\ pc = "put object"
    /\ CallFails(hungUp)
    /\ object' \in {NoObject, <<part>>}
    /\ err' = CallError(hungUp)
    /\ buffers' = buffers - 1
    /\ pc' = "done"
    /\ UNCHANGED <<bodyVars, groupVars, upload, hungUp>>

-----------------------------------------------------------------------------
(* putMultipartFromFirst, produceParts                                     *)

CreateMultipart ==
    /\ pc = "create"
    /\ upload' = "open"
    /\ uploader' = [u \in Uploaders |-> Waiting]
    /\ pc' = "send"
    /\ UNCHANGED <<bodyVars, err, queue, closed, parts, gErr, object,
                   buffers, hungUp, faults>>

\* The multipart upload may be open although the call reports an error; then
\* nobody knows its id and nobody aborts it.
CreateMultipartFails ==
    /\ pc = "create"
    /\ CallFails(hungUp)
    /\ upload' \in {"none", "unknown"}
    /\ err' = CallError(hungUp)
    /\ buffers' = buffers - 1
    /\ pc' = "done"
    /\ UNCHANGED <<bodyVars, groupVars, object, hungUp>>

FillPart ==
    /\ pc = "fill"
    /\ Fill(part.num + 1)
    /\ read' = read + part'.n
    /\ buffers' = buffers - IF part'.n = 0 THEN 1 ELSE 0
    /\ err' = IF part'.n = 0 /\ rerr' = "error" THEN "read error" ELSE "nil"
    /\ pc' = IF part'.n > 0 THEN "send" ELSE "close"
    /\ UNCHANGED <<size, max, groupVars, bucketVars, hungUp, faults>>

\* Mutant of QueueCap: the channel has room for one part too many.
QueueCapOffByOne == PartConcurrency + 1

\* The capacity of the channel `jobs`.
QueueCap == PartConcurrency

\* What produceParts does after a part is queued depends on how its fill ended:
\* it returns, or takes the next buffer and fills it.
SendPart ==
    /\ pc = "send"
    /\ Len(queue) < QueueCap
    /\ queue' = Append(queue, part)
    /\ err' = IF rerr = "error" THEN "read error" ELSE "nil"
    /\ pc' = IF rerr = "nil" THEN "fill" ELSE "close"
    /\ buffers' = buffers + IF rerr = "nil" THEN 1 ELSE 0
    /\ UNCHANGED <<bodyVars, closed, uploader, parts, gErr, bucketVars,
                   hungUp, faults>>

SendCancelled ==
    /\ pc = "send"
    /\ Cancelled
    /\ err' = "context canceled"
    /\ buffers' = buffers - 1
    /\ pc' = "close"
    /\ UNCHANGED <<bodyVars, groupVars, bucketVars, hungUp, faults>>

CloseQueue ==
    /\ pc = "close"
    /\ closed' = TRUE
    /\ pc' = "wait"
    /\ UNCHANGED <<bodyVars, err, queue, uploader, parts, gErr,
                   bucketVars, buffers, hungUp, faults>>

\* Mutant of Wait: the channel is not drained.
WaitWithoutDrain ==
    /\ pc = "wait"
    /\ \A u \in Uploaders : uploader[u].pc = "exited"
    /\ err' = IF err # "nil" THEN err ELSE gErr
    /\ pc' = IF err' # "nil" THEN "abort" ELSE "complete"
    /\ UNCHANGED <<bodyVars, groupVars, bucketVars, buffers, hungUp, faults>>

\* g.Wait returns; the buffers nobody consumed go back to the pool.  The
\* producer's error takes precedence over the errgroup's.
Wait ==
    /\ pc = "wait"
    /\ \A u \in Uploaders : uploader[u].pc = "exited"
    /\ buffers' = buffers - Len(queue)
    /\ queue' = << >>
    /\ err' = IF err # "nil" THEN err ELSE gErr
    /\ pc' = IF err' # "nil" THEN "abort" ELSE "complete"
    /\ UNCHANGED <<bodyVars, closed, uploader, parts, gErr, bucketVars,
                   hungUp, faults>>

\* The completed parts sorted by their numbers, which all differ: the i-th is the
\* one that i - 1 others come before.
Manifest ==
    LET completed == {parts[i] : i \in DOMAIN parts}
        Before(p) == {q \in completed : q.num < p.num}
    IN  [i \in 1 .. Len(parts) |->
            CHOOSE p \in completed : Cardinality(Before(p)) = i - 1]

CompleteMultipart ==
    /\ pc = "complete"
    /\ upload' = "done"
    /\ object' = Manifest
    /\ pc' = "done"
    /\ UNCHANGED <<bodyVars, err, groupVars, buffers, hungUp, faults>>

CompleteMultipartFails ==
    /\ pc = "complete"
    /\ CallFails(hungUp)
    /\ \/ UNCHANGED bucketVars
       \/ upload' = "done" /\ object' = Manifest
    /\ err' = CallError(hungUp)
    /\ pc' = "abort"
    /\ UNCHANGED <<bodyVars, groupVars, buffers, hungUp>>

\* Mutant of Abort: it runs under the context of the request.
AbortUnderRequest ==
    /\ pc = "abort"
    /\ upload' = IF upload = "open" /\ ~hungUp THEN "aborted" ELSE upload
    /\ pc' = "done"
    /\ UNCHANGED <<bodyVars, err, groupVars, object, buffers, hungUp,
                   faults>>

\* abort has a context of its own and ignores the answer.  Aborting an upload
\* that was completed has no effect.
Abort ==
    /\ pc = "abort"
    /\ upload' = IF upload = "open" THEN "aborted" ELSE upload
    /\ pc' = "done"
    /\ UNCHANGED <<bodyVars, err, groupVars, object, buffers, hungUp,
                   faults>>

AbortFails ==
    /\ pc = "abort"
    /\ Fault
    /\ upload' = IF upload = "open" THEN "abandoned" ELSE upload
    /\ pc' = "done"
    /\ UNCHANGED <<bodyVars, err, groupVars, object, buffers, hungUp>>

-----------------------------------------------------------------------------
(* The uploaders                                                           *)

ReceivePart(u) ==
    /\ uploader[u].pc = "receive"
    /\ queue # << >>
    /\ uploader' = [uploader EXCEPT ![u] = [pc |-> "upload", part |-> Head(queue)]]
    /\ queue' = Tail(queue)
    /\ UNCHANGED <<bodyVars, pc, err, closed, parts, gErr, bucketVars, buffers,
                   hungUp, faults>>

\* range ends: the channel is closed and empty.
ExitUploader(u) ==
    /\ uploader[u].pc = "receive"
    /\ queue = << >>
    /\ closed
    /\ uploader' = [uploader EXCEPT ![u].pc = "exited"]
    /\ UNCHANGED <<bodyVars, pc, err, queue, closed, parts, gErr, bucketVars, buffers,
                   hungUp, faults>>

UploadPart(u) ==
    /\ uploader[u].pc = "upload"
    /\ parts' = Append(parts, uploader[u].part)
    /\ buffers' = buffers - 1
    /\ uploader' = [uploader EXCEPT ![u] = Waiting]
    /\ UNCHANGED <<bodyVars, pc, err, queue, closed, gErr, bucketVars, hungUp, faults>>

UploadPartFails(u) ==
    /\ uploader[u].pc = "upload"
    /\ CallFails(Cancelled)
    /\ gErr' = IF gErr = "nil" THEN CallError(Cancelled) ELSE gErr
    /\ buffers' = buffers - 1
    /\ uploader' = [uploader EXCEPT ![u].pc = "exited"]
    /\ UNCHANGED <<bodyVars, pc, err, queue, closed, parts, bucketVars, hungUp>>

HangUp ==
    /\ ~hungUp
    /\ pc # "done"
    /\ hungUp' = TRUE
    /\ UNCHANGED <<bodyVars, pc, err, groupVars, bucketVars, buffers, faults>>

-----------------------------------------------------------------------------

PutNext ==
    \/ FirstPart
    \/ PutObject
    \/ PutObjectFails
    \/ CreateMultipart
    \/ CreateMultipartFails
    \/ FillPart
    \/ SendPart
    \/ SendCancelled
    \/ CloseQueue
    \/ Wait
    \/ CompleteMultipart
    \/ CompleteMultipartFails
    \/ Abort
    \/ AbortFails

UploaderNext(u) ==
    \/ ReceivePart(u)
    \/ ExitUploader(u)
    \/ UploadPart(u)
    \/ UploadPartFails(u)

\* Put has returned; its caller goes on.
Done == pc = "done" /\ UNCHANGED uvars

UploadNext ==
    \/ PutNext
    \/ \E u \in Uploaders : UploaderNext(u)
    \/ HangUp
    \/ Done

UploadSpec == UploadInit /\ [][UploadNext]_uvars

\* Goroutines run on, and calls and reads return.
UploadFairSpec ==
    /\ UploadSpec
    /\ WF_uvars(PutNext)
    /\ \A u \in Uploaders : WF_uvars(UploaderNext(u))

-----------------------------------------------------------------------------
(* Properties.                                                             *)

\* Every variable has the shape the code gives it.
UploadTypeOK ==
    /\ pc \in {"first", "put object", "create", "fill", "send", "close", "wait",
               "complete", "abort", "done"}
    /\ part \in Part
    /\ size \in 0 .. MaxSize
    /\ max \in Limits
    /\ read \in 0 .. size
    /\ exceeded \in BOOLEAN
    /\ rerr \in {"nil", "EOF", "error"}
    /\ queue \in Seq(Part)
    /\ closed \in BOOLEAN
    /\ uploader \in [Uploaders -> [pc : {"unborn", "receive", "upload", "exited"},
                                   part : Part]]
    /\ parts \in Seq(Part)
    /\ buffers \in Nat
    /\ hungUp \in BOOLEAN
    /\ gErr \in {"nil", "context canceled", "store error"}
    /\ err \in {"nil", "read error", "context canceled", "store error"}
    /\ upload \in UploadStates
    /\ object \in Seq(Part)
    /\ faults \in 0 .. MaxFaults

\* Config.PeakUploadBytes, for one upload and in buffers: the one being filled, a
\* full channel and one per uploader.
PeakUploadBuffers == 1 + 2 * PartConcurrency

\* One upload never holds more buffers than the memory of the pod is sized for.
BuffersBounded == buffers <= PeakUploadBuffers

\* When Put returns it has given back every buffer it took, once: also those the
\* producer queued and nobody consumed after an uploader failed.
BuffersReturned == buffers >= 0 /\ (pc = "done" => buffers = 0)

\* The object is the whole body: its parts are in order, all but the last are full
\* and together they are as long as the body.
Whole ==
    LET last == Len(object)
    IN  /\ \A i \in 1 .. last : object[i].num = i
        /\ \A i \in 1 .. last - 1 : object[i].n = PartSize
        /\ size = (last - 1) * PartSize + object[last].n

Stored == IF object = NoObject THEN "no" ELSE IF Whole THEN "whole" ELSE "damaged"

Result == IF pc # "done" THEN "none" ELSE IF err = "nil" THEN "ok" ELSE "error"

\* Whichever calls fail, and also when the client is gone, Put does not return
\* with its multipart upload open, unless the call that opens it has reported an
\* error or the call that aborts it has failed.  Nothing is open under an object
\* that Put reports as stored.
NoUploadLeftOpen ==
    pc = "done" =>
        /\ upload # "open"
        /\ err = "nil" => upload \in {"none", "done"}

\* "fails with ErrPayloadTooLarge once MaxBytes is exceeded" (ValidatedFile): a
\* body past its limit is never stored, in whole or in part, although its first
\* parts are uploaded before anyone knows; and the 413 that attachFile makes of
\* Exceeded is given to no body that keeps the limit, not even one that reaches
\* it exactly.
LimitExact ==
    /\ size > max => object = NoObject
    /\ exceeded => size > max
    /\ pc = "done" /\ err = "nil" => size <= max

\* What the caller of Put sees.
Put == INSTANCE ObjectPut WITH stored <- Stored, result <- Result

\* Put keeps the promise ObjectPut states, whichever uploader fails and whoever
\* waits for the channel: it returns, and an object appears before it does, never
\* truncated or shuffled, although parts finish in any order and a reader may
\* fail after any byte.  With success there is one.
ImplementsPut == Put!PutSpec

\* "The client hung up; nothing useful to send." (response.go, writeError): the
\* handler takes context.Canceled for a client that is gone.
CanceledMeansHungUp == err = "context canceled" => hungUp
=============================================================================
