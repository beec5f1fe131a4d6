---------------------------- MODULE UploadProofs ----------------------------
(***************************************************************************)
(* What MultipartUpload promises about memory, the bucket, the limit and   *)
(* the object, for bodies, parts and limits of any size, any number of     *)
(* uploaders and any number of failing calls.                              *)
(*                                                                         *)
(* UploadInv is about resources: every buffer that is out is the           *)
(* producer's, in the channel, or with an uploader that sends it           *)
(* (BuffersSound).  FlowInv is about the body: until something fails,      *)
(* every part handed over is in the channel, with an uploader or in the    *)
(* bucket (CoverSound), and each is the piece of the body its number says  *)
(* (FlightSound).  So the sorted manifest is the whole body, which gives   *)
(* the refinement of ObjectPut.                                            *)
(***************************************************************************)
EXTENDS MultipartUpload, FiniteSetTheorems, TLAPS

\* The uploaders that hold a buffer.
Sending == {u \in Uploaders : uploader[u].pc = "upload"}

\* The buffers the producer holds.
Held == IF pc \in {"first", "put object", "create", "fill", "send"} THEN 1 ELSE 0

\* UploadTypeOK by the groups of variables that steps leave alone together, with
\* `buffers' and `object' apart: BuffersSound and ObjectSound say what they are.
BodyTyped ==
    /\ size \in Nat /\ size <= MaxSize /\ max \in Limits /\ max \in Nat
    /\ part \in Part /\ part.num \in Nat /\ part.n \in Nat
    /\ read \in Nat /\ read <= size
    /\ exceeded \in BOOLEAN
    /\ rerr \in {"nil", "EOF", "error"}

GroupTyped ==
    /\ queue \in Seq(Part)
    /\ closed \in BOOLEAN
    /\ uploader \in [Uploaders -> [pc : {"unborn", "receive", "upload", "exited"},
                                   part : Part]]
    /\ parts \in Seq(Part)
    /\ gErr \in {"nil", "context canceled", "store error"}

BucketTyped == upload \in UploadStates

ControlTyped ==
    /\ pc \in {"first", "put object", "create", "fill", "send", "close", "wait",
               "complete", "abort", "done"}
    /\ hungUp \in BOOLEAN
    /\ err \in {"nil", "read error", "context canceled", "store error"}
    /\ faults \in Nat /\ faults <= MaxFaults

Typed == BodyTyped /\ GroupTyped /\ BucketTyped /\ ControlTyped

\* Every buffer is somewhere.
BuffersSound ==
    /\ buffers = Held + Len(queue) + Cardinality(Sending)
    /\ Len(queue) <= PartConcurrency

\* Before the multipart upload starts and after g.Wait nobody else is at work.
QuietSound ==
    pc \notin {"fill", "send", "close", "wait"} =>
        /\ queue = << >>
        /\ \A u \in Uploaders : uploader[u].pc \in {"unborn", "exited"}

\* Only a body that was read to its end, within the limit, is completed.
LimitSound ==
    /\ rerr = "EOF" => size <= max
    /\ exceeded => size > max
    /\ object # NoObject => size <= max
    /\ pc \in {"put object", "complete"} => rerr = "EOF"
    /\ pc \in {"close", "wait", "done"} /\ err = "nil" => rerr = "EOF"

\* How far the bucket's multipart upload is.
BucketSound ==
    /\ pc \in {"first", "put object", "create"} => upload = "none" /\ err = "nil"
    /\ pc \in {"fill", "send", "close", "wait", "complete"} => upload = "open"
    /\ pc \in {"fill", "send", "complete"} => err = "nil"
    /\ pc = "abort" => upload \in {"open", "done"} /\ err # "nil"
    /\ pc = "done" => upload # "open" /\ (err = "nil" => upload \in {"none", "done"})

UploadInv ==
    /\ Typed
    /\ BuffersSound
    /\ QuietSound
    /\ LimitSound
    /\ BucketSound

\* The parts handed over to the channel so far, while nothing has failed.
Sent == IF pc \in {"first", "put object", "create", "send"} \/ part.n = 0
        THEN part.num - 1 ELSE part.num

\* The producer knows how far it is in the body: every part before the one in its
\* buffer was full.
ReadSound ==
    /\ pc = "first" => read = 0
    /\ pc # "first" => part.num >= 1 /\ read = (part.num - 1) * PartSize + part.n
    /\ pc \in {"put object", "create"} => part.num = 1
    /\ pc = "send" => part.n > 0
    /\ pc \in {"create", "fill"} => part.n = PartSize
    /\ pc # "first" /\ rerr = "nil" => part.n = PartSize
    /\ rerr = "EOF" => read = size
    /\ pc \in {"close", "wait", "complete"} /\ part.n = 0 => part.num >= 2

\* p is a piece of the body as the producer cut it.
Cut(p) ==
    /\ p.num >= 1 /\ p.num <= part.num
    /\ p.num < part.num => p.n = PartSize
    /\ p.num = part.num => p.n = part.n

\* Nothing else is on its way, wherever it is.
FlightSound ==
    /\ \A i \in 1 .. Len(queue) : Cut(queue[i])
    /\ \A u \in Uploaders : uploader[u].pc = "upload" => Cut(uploader[u].part)
    /\ \A i \in 1 .. Len(parts) : Cut(parts[i])

\* Part k is in the channel, with an uploader or in the bucket.
Somewhere(k) ==
    \/ \E i \in 1 .. Len(queue) : queue[i].num = k
    \/ \E u \in Uploaders : uploader[u].pc = "upload" /\ uploader[u].part.num = k
    \/ \E i \in 1 .. Len(parts) : parts[i].num = k

Multipart == {"send", "fill", "close", "wait", "complete"}

\* Until something fails no part that was handed over is lost, and none is there
\* twice.
CoverSound ==
    pc \in Multipart /\ err = "nil" /\ gErr = "nil" =>
        /\ \A k \in 1 .. Sent : Somewhere(k)
        /\ Len(parts) + buffers - Held = Sent

\* The uploaders do not leave parts in the channel, unless one of them has failed.
ExitSound ==
    /\ pc \in {"first", "put object", "create"} => parts = << >>
    /\ closed => pc \in {"wait", "complete", "abort", "done"}
    /\ pc = "complete" => gErr = "nil"
    /\ \A u \in Uploaders :
           uploader[u].pc = "exited" => gErr # "nil" \/ (closed /\ queue = << >>)

\* An object in the bucket is the whole body.
ObjectSound ==
    /\ object \in Seq(Part)
    /\ object # NoObject => pc \in {"abort", "done"} /\ Whole

FlowInv ==
    /\ ReadSound
    /\ FlightSound
    /\ CoverSound
    /\ ExitSound
    /\ ObjectSound

-----------------------------------------------------------------------------
(* Lemmas                                                                  *)

\* The constants are numbers.
LEMMA Numbers ==
    /\ MaxSize \in Nat /\ Limits \subseteq Nat /\ MaxFaults \in Nat
    /\ PartSize \in Nat /\ PartSize > 0
    /\ PartConcurrency \in Nat /\ PartConcurrency > 0
BY UploadAssumption

\* There are no more senders than uploaders.
LEMMA SendingFinite ==
    ASSUME NEW S \in SUBSET Uploaders
    PROVE  /\ IsFiniteSet(S)
           /\ Cardinality(S) \in Nat
           /\ Cardinality(S) <= PartConcurrency
<1>1. IsFiniteSet(Uploaders) /\ Cardinality(Uploaders) = PartConcurrency
    <2>1. /\ IsFiniteSet(1 .. PartConcurrency)
          /\ Cardinality(1 .. PartConcurrency) =
                 IF 1 > PartConcurrency THEN 0 ELSE PartConcurrency - 1 + 1
        BY Numbers, FS_Interval
    <2> QED
        BY <2>1, Numbers DEF Uploaders
<1>2. /\ IsFiniteSet(S)
      /\ Cardinality(S) <= Cardinality(Uploaders)
    BY <1>1, FS_Subset
<1> QED
    BY <1>1, <1>2, FS_CardinalityType

\* The accounts are in numbers, and a count that is right is one.
LEMMA BuffersAreNumbers ==
    ASSUME Typed
    PROVE  /\ Len(queue) \in Nat /\ Cardinality(Sending) \in Nat
           /\ BuffersSound => buffers \in Nat
<1>1. Sending \in SUBSET Uploaders
    BY DEF Sending
<1>2. Cardinality(Sending) \in Nat
    BY <1>1, SendingFinite
<1>3. Len(queue) \in Nat
    <2>1. queue \in Seq(Part)
        BY DEF Typed, GroupTyped
    <2> QED
        BY <2>1
<1>4. Held \in Nat
    BY DEF Held
<1> QED
    BY <1>2, <1>3, <1>4 DEF BuffersSound

\* The groups are UploadTypeOK.
LEMMA TypedIs == Typed /\ buffers \in Nat /\ object \in Seq(Part) <=> UploadTypeOK
<1>1. ASSUME UploadTypeOK PROVE Typed /\ buffers \in Nat /\ object \in Seq(Part)
    <2>1. size \in 0 .. MaxSize /\ read \in 0 .. size /\ max \in Limits
          /\ faults \in 0 .. MaxFaults /\ part \in Part
        BY <1>1, Zenon DEF UploadTypeOK
    <2>2. /\ size \in Nat /\ size <= MaxSize /\ max \in Nat
          /\ read \in Nat /\ read <= size
          /\ faults \in Nat /\ faults <= MaxFaults
        BY <2>1, Numbers
    <2>3. part.num \in Nat /\ part.n \in Nat
        BY <2>1, Numbers DEF Part
    <2> QED
        BY <1>1, <2>1, <2>2, <2>3, Zenon
        DEF UploadTypeOK, Typed, BodyTyped, GroupTyped, BucketTyped, ControlTyped
<1>2. ASSUME Typed, buffers \in Nat, object \in Seq(Part) PROVE UploadTypeOK
    <2>1. /\ size \in Nat /\ size <= MaxSize /\ read \in Nat /\ read <= size
          /\ faults \in Nat /\ faults <= MaxFaults
        BY <1>2, Zenon DEF Typed, BodyTyped, ControlTyped
    <2>2. size \in 0 .. MaxSize /\ read \in 0 .. size /\ faults \in 0 .. MaxFaults
        BY <2>1, Numbers
    <2> QED
        BY <1>2, <2>2, Zenon
        DEF UploadTypeOK, Typed, BodyTyped, GroupTyped, BucketTyped, ControlTyped
<1> QED
    BY <1>1, <1>2

\* The effect of one uploader that begins to send or stops.
LEMMA SendingAdds ==
    ASSUME Typed, NEW u \in Uploaders, NEW g,
           uploader' = [uploader EXCEPT ![u] = g]
    PROVE  /\ uploader[u].pc # "upload" /\ g.pc = "upload" =>
                  Cardinality(Sending') = Cardinality(Sending) + 1
           /\ uploader[u].pc = "upload" /\ g.pc # "upload" =>
                  Cardinality(Sending') = Cardinality(Sending) - 1
           /\ uploader[u].pc # "upload" /\ g.pc # "upload" => Sending' = Sending
<1>1. /\ uploader'[u] = g
      /\ \A v \in Uploaders \ {u} : uploader'[v] = uploader[v]
    BY DEF Typed, GroupTyped
<1>2. IsFiniteSet(Sending) /\ Cardinality(Sending) \in Nat
    <2>1. Sending \in SUBSET Uploaders
        BY DEF Sending
    <2> QED
        BY <2>1, SendingFinite
<1>3. CASE uploader[u].pc # "upload" /\ g.pc = "upload"
    <2>1. Sending' = Sending \cup {u} /\ u \notin Sending
        BY <1>1, <1>3 DEF Sending
    <2> QED
        BY <1>2, <1>3, <2>1, FS_AddElement
<1>4. CASE uploader[u].pc = "upload" /\ g.pc # "upload"
    <2>1. Sending' = Sending \ {u} /\ u \in Sending
        BY <1>1, <1>4 DEF Sending
    <2> QED
        BY <1>2, <1>4, <2>1, FS_RemoveElement
<1>5. CASE uploader[u].pc # "upload" /\ g.pc # "upload"
    BY <1>1, <1>5 DEF Sending
<1> QED
    BY <1>3, <1>4, <1>5

\* What a call of fill may do.
LEMMA FillEffect ==
    ASSUME Typed, NEW num \in Nat, Fill(num)
    PROVE  /\ part' \in Part
           /\ part'.num = num /\ part'.n \in Nat /\ part'.n <= size - read
           /\ rerr' \in {"nil", "EOF", "error"}
           /\ rerr' = "EOF" => size <= max
           /\ exceeded' \in BOOLEAN
           /\ exceeded' => exceeded \/ size > max
<1>1. size \in Nat /\ read \in Nat /\ read <= size /\ max \in Nat
    BY Zenon DEF Typed, BodyTyped
<1>2. PICK n \in 0 .. PartSize :
          /\ part' = [num |-> num, n |-> n]
          /\ n <= size - read
          /\ \/ rerr' = "nil" /\ exceeded' = exceeded
             \/ rerr' = "EOF" /\ exceeded' = exceeded /\ size - read <= max - read
             \/ rerr' = "error" /\ exceeded' = TRUE /\ max - read < size - read
             \/ rerr' = "error" /\ exceeded' = exceeded
    BY <1>1, Numbers DEF Fill, Left, Room
<1>3. part' \in Part /\ part'.num = num /\ part'.n = n
    BY <1>2, Numbers DEF Part
<1>4. rerr' = "EOF" => size <= max
    BY <1>1, <1>2
<1>5. rerr' \in {"nil", "EOF", "error"} /\ exceeded' \in BOOLEAN
    <2>1. exceeded \in BOOLEAN
        BY Zenon DEF Typed, BodyTyped
    <2> QED
        BY <1>2, <2>1, Zenon
<1>6. exceeded' => exceeded \/ size > max
    <2>1. max - read < size - read => size > max
        BY <1>1
    <2> QED
        BY <1>2, <2>1, Zenon
<1> QED
    BY <1>2, <1>3, <1>4, <1>5, <1>6, Numbers

\* A fill that returns no error has filled the buffer, so one that reads nothing
\* ends the loop of produceParts.
LEMMA FillNothing ==
    ASSUME Typed, NEW num, Fill(num)
    PROVE  /\ rerr' = "nil" => part'.n = PartSize
           /\ part'.n = 0 => rerr' # "nil"
<1>1. rerr' = "nil" => part'.n = PartSize
    BY DEF Fill
<1> QED
    BY <1>1, Numbers

\* What a step leaves alone stays typed.
LEMMA Untouched ==
    ASSUME Typed
    PROVE  /\ UNCHANGED bodyVars => BodyTyped'
           /\ UNCHANGED groupVars => GroupTyped'
           /\ UNCHANGED bucketVars => BucketTyped'
<1>1. ASSUME UNCHANGED bodyVars PROVE BodyTyped'
    BY <1>1, Zenon DEF Typed, BodyTyped, bodyVars
<1>2. ASSUME UNCHANGED groupVars PROVE GroupTyped'
    BY <1>2, Zenon DEF Typed, GroupTyped, groupVars
<1>3. ASSUME UNCHANGED bucketVars PROVE BucketTyped'
    BY <1>3, Zenon DEF Typed, BucketTyped, bucketVars
<1> QED
    BY <1>1, <1>2, <1>3

\* A call to the bucket that fails counts at most one fault.
LEMMA FaultsStay ==
    ASSUME Typed, Fault \/ UNCHANGED faults
    PROVE  faults' \in Nat /\ faults' <= MaxFaults
<1>1. faults \in Nat /\ faults <= MaxFaults
    BY Zenon DEF Typed, ControlTyped
<1> QED
    BY <1>1, Numbers DEF Fault

\* The steps in which the uploaders and the channel are at rest.
Apart == {"first", "put object", "create", "complete", "abort", "done"}

\* A step of the producer that touches neither the channel nor the uploaders.
LEMMA ProducerKeeps ==
    ASSUME UploadInv, Typed', LimitSound', BucketSound',
           UNCHANGED <<queue, uploader>>,
           pc' \in Apart => pc \in Apart,
           buffers' = buffers - Held + Held'
    PROVE  UploadInv'
<1>1. /\ Len(queue) \in Nat /\ Cardinality(Sending) \in Nat
      /\ BuffersSound /\ buffers \in Nat
    BY BuffersAreNumbers DEF UploadInv
<1>2. Sending' = Sending
    BY DEF Sending
<1>3. BuffersSound'
    <2>1. Held \in Nat /\ Held' \in Nat
        BY DEF Held
    <2> QED
        BY <1>1, <1>2, <2>1 DEF BuffersSound
<1>4. QuietSound'
    <2>1. QuietSound /\ pc \in {"fill", "send", "close", "wait"} \cup Apart
                    /\ pc' \in {"fill", "send", "close", "wait"} \cup Apart
        BY Zenon DEF UploadInv, Typed, ControlTyped, Apart
    <2>2. pc' \notin {"fill", "send", "close", "wait"} =>
              pc \notin {"fill", "send", "close", "wait"}
        BY <2>1 DEF Apart
    <2>3. QuietSound /\ queue' = queue /\ uploader' = uploader
        BY DEF UploadInv
    <2> QED
        BY <2>2, <2>3, Zenon DEF QuietSound
<1> QED
    BY <1>3, <1>4 DEF UploadInv

-----------------------------------------------------------------------------
(* The producer                                                            *)

\* A step that fills a buffer keeps what is known about the body.
LEMMA FillKeeps ==
    ASSUME UploadInv, NEW num \in Nat, Fill(num), read' = read + part'.n,
           UNCHANGED <<size, max>>
    PROVE  /\ BodyTyped'
           /\ rerr' = "EOF" => size' <= max'
           /\ exceeded' => size' > max'
<1>1. /\ part' \in Part /\ part'.num \in Nat
      /\ part'.n \in Nat /\ part'.n <= size - read
      /\ rerr' \in {"nil", "EOF", "error"}
      /\ rerr' = "EOF" => size <= max
      /\ exceeded' \in BOOLEAN
      /\ exceeded' => exceeded \/ size > max
    BY FillEffect DEF UploadInv
<1>2. read' \in Nat /\ read' <= size'
    <2>1. size \in Nat /\ read \in Nat
        BY Zenon DEF UploadInv, Typed, BodyTyped
    <2>2. part'.n \in Nat /\ part'.n <= size - read
        BY <1>1
    <2> QED
        BY <2>1, <2>2
<1>3. BodyTyped'
    BY <1>1, <1>2, Zenon DEF UploadInv, Typed, BodyTyped
<1> QED
    BY <1>1, <1>3, Zenon DEF UploadInv, LimitSound

\* Reading the first part keeps the invariant.
LEMMA FirstPartKeeps ==
    ASSUME UploadInv, FirstPart
    PROVE  UploadInv'
<1>1. /\ BodyTyped'
      /\ rerr' = "EOF" => size' <= max'
      /\ exceeded' => size' > max'
    BY FillKeeps DEF FirstPart
<1>2. /\ rerr' \in {"nil", "EOF", "error"}
      /\ pc = "first"
      /\ pc' = (IF rerr' = "EOF" THEN "put object"
                ELSE IF rerr' = "nil" THEN "create" ELSE "done")
      /\ err' = (IF rerr' = "error" THEN "read error" ELSE "nil")
      /\ size' = size /\ max' = max /\ object' = object /\ upload' = upload
      /\ queue' = queue /\ uploader' = uploader
    <2>1. rerr' \in {"nil", "EOF", "error"}
        BY <1>1 DEF BodyTyped
    <2> QED
        BY <2>1 DEF FirstPart, bucketVars, groupVars
<1>3. Typed'
    <2>1. GroupTyped' /\ BucketTyped'
        BY Untouched DEF FirstPart, UploadInv
    <2>2. ControlTyped'
        BY <1>2, Zenon DEF UploadInv, Typed, ControlTyped, FirstPart
    <2> QED
        BY <1>1, <2>1, <2>2 DEF Typed
<1>4. LimitSound'
    BY <1>1, <1>2, Zenon DEF UploadInv, LimitSound
<1>5. BucketSound'
    BY <1>2, Zenon DEF UploadInv, BucketSound
<1>6. buffers' = buffers - Held + Held'
    <2>1. buffers \in Nat
        BY BuffersAreNumbers DEF UploadInv
    <2>2. Held = 1 /\ Held' = (IF rerr' = "error" THEN 0 ELSE 1)
        BY <1>2 DEF Held
    <2>3. buffers' = buffers - (IF rerr' = "error" THEN 1 ELSE 0)
        BY DEF FirstPart
    <2> QED
        BY <2>1, <2>2, <2>3
<1> QED
    BY <1>2, <1>3, <1>4, <1>5, <1>6, ProducerKeeps DEF Apart

\* Filling the next buffer keeps it.
LEMMA FillPartKeeps ==
    ASSUME UploadInv, FillPart
    PROVE  UploadInv'
<1>1. /\ BodyTyped'
      /\ rerr' = "EOF" => size' <= max'
      /\ exceeded' => size' > max'
    <2>1. part.num + 1 \in Nat
        <3>1. part.num \in Nat
            BY Zenon DEF UploadInv, Typed, BodyTyped
        <3> QED
            BY <3>1
    <2> QED
        BY <2>1, FillKeeps DEF FillPart
<1>2. /\ rerr' \in {"nil", "EOF", "error"} /\ part'.n \in Nat
      /\ pc = "fill"
      /\ pc' = (IF part'.n > 0 THEN "send" ELSE "close")
      /\ err' = (IF part'.n = 0 /\ rerr' = "error" THEN "read error" ELSE "nil")
      /\ size' = size /\ max' = max /\ object' = object /\ upload' = upload
      /\ queue' = queue /\ uploader' = uploader
    <2>1. rerr' \in {"nil", "EOF", "error"} /\ part'.n \in Nat
        BY <1>1, Zenon DEF BodyTyped
    <2> QED
        BY <2>1 DEF FillPart, bucketVars, groupVars
<1>2a. (pc' = "send" /\ part'.n # 0) \/ (pc' = "close" /\ part'.n = 0)
    <2>1. part'.n \in Nat /\ pc' = (IF part'.n > 0 THEN "send" ELSE "close")
        BY <1>2, Zenon
    <2> QED
        BY <2>1
<1>3. Typed'
    <2>1. GroupTyped' /\ BucketTyped'
        BY Untouched DEF FillPart, UploadInv
    <2>2. ControlTyped'
        BY <1>2, Zenon DEF UploadInv, Typed, ControlTyped, FillPart
    <2> QED
        BY <1>1, <2>1, <2>2 DEF Typed
<1>4. LimitSound'
    <2>1. part'.n = 0 => rerr' # "nil"
        BY FillNothing DEF UploadInv, FillPart
    <2> QED
        BY <1>1, <1>2, <1>2a, <2>1, Zenon DEF UploadInv, LimitSound
<1>5. BucketSound'
    <2>1. err' \in {"nil", "read error"} /\ (pc' = "send" => err' = "nil")
        BY <1>2, <1>2a, Zenon
    <2> QED
        BY <1>2, <1>2a, <2>1, Zenon DEF UploadInv, BucketSound
<1>6. buffers' = buffers - Held + Held'
    <2>1. buffers \in Nat
        BY BuffersAreNumbers DEF UploadInv
    <2>2. part'.n \in Nat /\ pc = "fill"
          /\ pc' = (IF part'.n > 0 THEN "send" ELSE "close")
        BY <1>2, Zenon
    <2>3. Held = 1 /\ Held' = (IF part'.n = 0 THEN 0 ELSE 1)
        BY <2>2 DEF Held
    <2>4. buffers' = buffers - (IF part'.n = 0 THEN 1 ELSE 0)
        BY DEF FillPart
    <2> QED
        BY <2>1, <2>3, <2>4
<1> QED
    BY <1>2, <1>3, <1>4, <1>5, <1>6, ProducerKeeps DEF Apart

\* A step of the producer that calls the bucket, or gives up before it does, reads
\* nothing and leaves the errgroup alone.
LEMMA CallKeeps ==
    ASSUME UploadInv, UNCHANGED <<bodyVars, groupVars, hungUp>>,
           Fault \/ UNCHANGED faults,
           pc' \in {"close", "abort", "done"},
           err' \in {err, "context canceled", "store error"},
           upload' \in UploadStates,
           pc' \in Apart => pc \in Apart,
           object' # NoObject => object # NoObject \/ rerr = "EOF",
           pc' \in {"close", "done"} /\ err' = "nil" => rerr = "EOF",
           BucketSound',
           buffers' = buffers - Held + Held'
    PROVE  UploadInv'
<1>1. Typed'
    <2>1. BodyTyped' /\ GroupTyped'
        BY Untouched DEF UploadInv
    <2>2. faults' \in Nat /\ faults' <= MaxFaults
        BY FaultsStay DEF UploadInv
    <2>3. BucketTyped'
        BY DEF BucketTyped
    <2>4. ControlTyped'
        BY <2>2, Zenon DEF UploadInv, Typed, ControlTyped
    <2> QED
        BY <2>1, <2>2, <2>3, <2>4 DEF Typed
<1>2. LimitSound'
    <2>1. LimitSound /\ UNCHANGED <<size, max, rerr, exceeded>>
        BY DEF UploadInv, bodyVars
    <2>2. pc' \notin {"put object", "complete", "wait"}
        OBVIOUS
    <2> QED
        BY <2>1, <2>2, Zenon DEF LimitSound
<1> QED
    BY <1>1, <1>2, ProducerKeeps DEF groupVars

\* The whole body in one call.
LEMMA PutObjectKeeps ==
    ASSUME UploadInv, PutObject
    PROVE  UploadInv'
<1>1. /\ pc = "put object" /\ pc' = "done"
      /\ UNCHANGED err
      /\ UNCHANGED upload
      /\ UNCHANGED <<bodyVars, groupVars, hungUp>>
      /\ Fault \/ UNCHANGED faults
    BY DEF PutObject, CallError, CallFails, bucketVars
<1>2. rerr = "EOF" \/ (err' # "nil" /\ UNCHANGED object)
    BY <1>1, Zenon DEF UploadInv, LimitSound, BucketSound, PutObject, bucketVars
<1>3. upload' \in UploadStates /\ BucketSound'
    <2>1. upload \in UploadStates /\ BucketSound
        BY Zenon DEF UploadInv, Typed, BucketTyped
    <2> QED
        BY <1>1, <2>1 DEF BucketSound, UploadStates
<1>4. buffers' = buffers - Held + Held'
    <2>1. buffers \in Nat
        BY BuffersAreNumbers DEF UploadInv
    <2>2. Held = 1 /\ Held' = 0
        BY <1>1 DEF Held
    <2>3. buffers' = buffers - 1
        BY DEF PutObject
    <2> QED
        BY <2>1, <2>2, <2>3
<1> QED
    BY <1>1, <1>2, <1>3, <1>4, CallKeeps DEF Apart

\* The same call reports an error.
LEMMA PutObjectFailsKeeps ==
    ASSUME UploadInv, PutObjectFails
    PROVE  UploadInv'
<1>1. /\ pc = "put object" /\ pc' = "done"
      /\ err' \in {"context canceled", "store error"}
      /\ UNCHANGED upload
      /\ UNCHANGED <<bodyVars, groupVars, hungUp>>
      /\ Fault \/ UNCHANGED faults
    BY DEF PutObjectFails, CallError, CallFails, bucketVars
<1>2. rerr = "EOF" \/ (err' # "nil" /\ UNCHANGED object)
    BY <1>1, Zenon DEF UploadInv, LimitSound, BucketSound, PutObjectFails, bucketVars
<1>3. upload' \in UploadStates /\ BucketSound'
    <2>1. upload \in UploadStates /\ BucketSound
        BY Zenon DEF UploadInv, Typed, BucketTyped
    <2> QED
        BY <1>1, <2>1 DEF BucketSound, UploadStates
<1>4. buffers' = buffers - Held + Held'
    <2>1. buffers \in Nat
        BY BuffersAreNumbers DEF UploadInv
    <2>2. Held = 1 /\ Held' = 0
        BY <1>1 DEF Held
    <2>3. buffers' = buffers - 1
        BY DEF PutObjectFails
    <2> QED
        BY <2>1, <2>2, <2>3
<1> QED
    BY <1>1, <1>2, <1>3, <1>4, CallKeeps DEF Apart

\* No upload is opened that Put knows of.
LEMMA CreateMultipartFailsKeeps ==
    ASSUME UploadInv, CreateMultipartFails
    PROVE  UploadInv'
<1>1. /\ pc = "create" /\ pc' = "done"
      /\ err' \in {"context canceled", "store error"}
      /\ upload' \in {"none", "unknown"}
      /\ UNCHANGED <<bodyVars, groupVars, hungUp>>
      /\ Fault \/ UNCHANGED faults
    BY DEF CreateMultipartFails, CallError, CallFails, bucketVars
<1>2. rerr = "EOF" \/ (err' # "nil" /\ UNCHANGED object)
    BY <1>1, Zenon DEF UploadInv, LimitSound, BucketSound, CreateMultipartFails, bucketVars
<1>3. upload' \in UploadStates /\ BucketSound'
    <2>1. upload \in UploadStates /\ BucketSound
        BY Zenon DEF UploadInv, Typed, BucketTyped
    <2> QED
        BY <1>1, <2>1 DEF BucketSound, UploadStates
<1>4. buffers' = buffers - Held + Held'
    <2>1. buffers \in Nat
        BY BuffersAreNumbers DEF UploadInv
    <2>2. Held = 1 /\ Held' = 0
        BY <1>1 DEF Held
    <2>3. buffers' = buffers - 1
        BY DEF CreateMultipartFails
    <2> QED
        BY <2>1, <2>2, <2>3
<1> QED
    BY <1>1, <1>2, <1>3, <1>4, CallKeeps DEF Apart

\* The producer gives up.
LEMMA SendCancelledKeeps ==
    ASSUME UploadInv, SendCancelled
    PROVE  UploadInv'
<1>1. /\ pc = "send" /\ pc' = "close"
      /\ err' = "context canceled"
      /\ UNCHANGED upload
      /\ UNCHANGED <<bodyVars, groupVars, hungUp>>
      /\ Fault \/ UNCHANGED faults
    BY DEF SendCancelled, CallError, CallFails, bucketVars
<1>2. rerr = "EOF" \/ (UNCHANGED object)
    BY <1>1, Zenon DEF UploadInv, LimitSound, BucketSound, SendCancelled, bucketVars
<1>3. upload' \in UploadStates /\ BucketSound'
    <2>1. upload \in UploadStates /\ BucketSound
        BY Zenon DEF UploadInv, Typed, BucketTyped
    <2> QED
        BY <1>1, <2>1 DEF BucketSound, UploadStates
<1>4. buffers' = buffers - Held + Held'
    <2>1. buffers \in Nat
        BY BuffersAreNumbers DEF UploadInv
    <2>2. Held = 1 /\ Held' = 0
        BY <1>1 DEF Held
    <2>3. buffers' = buffers - 1
        BY DEF SendCancelled
    <2> QED
        BY <2>1, <2>2, <2>3
<1> QED
    BY <1>1, <1>2, <1>3, <1>4, CallKeeps DEF Apart

\* The upload is completed.
LEMMA CompleteMultipartKeeps ==
    ASSUME UploadInv, CompleteMultipart
    PROVE  UploadInv'
<1>1. /\ pc = "complete" /\ pc' = "done"
      /\ UNCHANGED err
      /\ upload' = "done"
      /\ UNCHANGED <<bodyVars, groupVars, hungUp>>
      /\ Fault \/ UNCHANGED faults
    BY DEF CompleteMultipart, CallError, CallFails, bucketVars
<1>2. rerr = "EOF" \/ (err' # "nil" /\ UNCHANGED object)
    BY <1>1, Zenon DEF UploadInv, LimitSound, BucketSound, CompleteMultipart, bucketVars
<1>3. upload' \in UploadStates /\ BucketSound'
    <2>1. upload \in UploadStates /\ BucketSound
        BY Zenon DEF UploadInv, Typed, BucketTyped
    <2> QED
        BY <1>1, <2>1 DEF BucketSound, UploadStates
<1>4. buffers' = buffers - Held + Held'
    <2>1. buffers \in Nat
        BY BuffersAreNumbers DEF UploadInv
    <2>2. Held = 0 /\ Held' = 0
        BY <1>1 DEF Held
    <2>3. UNCHANGED buffers
        BY DEF CompleteMultipart
    <2> QED
        BY <2>1, <2>2, <2>3
<1> QED
    BY <1>1, <1>2, <1>3, <1>4, CallKeeps DEF Apart

\* The call that completes it reports an error.
LEMMA CompleteMultipartFailsKeeps ==
    ASSUME UploadInv, CompleteMultipartFails
    PROVE  UploadInv'
<1>1. /\ pc = "complete" /\ pc' = "abort"
      /\ err' \in {"context canceled", "store error"}
      /\ upload' \in {upload, "done"}
      /\ UNCHANGED <<bodyVars, groupVars, hungUp>>
      /\ Fault \/ UNCHANGED faults
    BY DEF CompleteMultipartFails, CallError, CallFails, bucketVars
<1>2. rerr = "EOF" \/ (UNCHANGED object)
    BY <1>1, Zenon DEF UploadInv, LimitSound, BucketSound, CompleteMultipartFails, bucketVars
<1>3. upload' \in UploadStates /\ BucketSound'
    <2>1. upload \in UploadStates /\ BucketSound
        BY Zenon DEF UploadInv, Typed, BucketTyped
    <2> QED
        BY <1>1, <2>1 DEF BucketSound, UploadStates
<1>4. buffers' = buffers - Held + Held'
    <2>1. buffers \in Nat
        BY BuffersAreNumbers DEF UploadInv
    <2>2. Held = 0 /\ Held' = 0
        BY <1>1 DEF Held
    <2>3. UNCHANGED buffers
        BY DEF CompleteMultipartFails
    <2> QED
        BY <2>1, <2>2, <2>3
<1> QED
    BY <1>1, <1>2, <1>3, <1>4, CallKeeps DEF Apart

\* The upload is aborted.
LEMMA AbortKeeps ==
    ASSUME UploadInv, Abort
    PROVE  UploadInv'
<1>1. /\ pc = "abort" /\ pc' = "done"
      /\ UNCHANGED err
      /\ upload' = (IF upload = "open" THEN "aborted" ELSE upload)
      /\ UNCHANGED <<bodyVars, groupVars, hungUp>>
      /\ Fault \/ UNCHANGED faults
    BY DEF Abort, CallError, CallFails, bucketVars
<1>2. rerr = "EOF" \/ (err' # "nil" /\ UNCHANGED object)
    BY <1>1, Zenon DEF UploadInv, LimitSound, BucketSound, Abort, bucketVars
<1>3. upload' \in UploadStates /\ BucketSound'
    <2>1. upload \in UploadStates /\ BucketSound
        BY Zenon DEF UploadInv, Typed, BucketTyped
    <2> QED
        BY <1>1, <2>1 DEF BucketSound, UploadStates
<1>4. buffers' = buffers - Held + Held'
    <2>1. buffers \in Nat
        BY BuffersAreNumbers DEF UploadInv
    <2>2. Held = 0 /\ Held' = 0
        BY <1>1 DEF Held
    <2>3. UNCHANGED buffers
        BY DEF Abort
    <2> QED
        BY <2>1, <2>2, <2>3
<1> QED
    BY <1>1, <1>2, <1>3, <1>4, CallKeeps DEF Apart

\* It is not.
LEMMA AbortFailsKeeps ==
    ASSUME UploadInv, AbortFails
    PROVE  UploadInv'
<1>1. /\ pc = "abort" /\ pc' = "done"
      /\ UNCHANGED err
      /\ upload' = (IF upload = "open" THEN "abandoned" ELSE upload)
      /\ UNCHANGED <<bodyVars, groupVars, hungUp>>
      /\ Fault \/ UNCHANGED faults
    BY DEF AbortFails, CallError, CallFails, bucketVars
<1>2. rerr = "EOF" \/ (err' # "nil" /\ UNCHANGED object)
    BY <1>1, Zenon DEF UploadInv, LimitSound, BucketSound, AbortFails, bucketVars
<1>3. upload' \in UploadStates /\ BucketSound'
    <2>1. upload \in UploadStates /\ BucketSound
        BY Zenon DEF UploadInv, Typed, BucketTyped
    <2> QED
        BY <1>1, <2>1 DEF BucketSound, UploadStates
<1>4. buffers' = buffers - Held + Held'
    <2>1. buffers \in Nat
        BY BuffersAreNumbers DEF UploadInv
    <2>2. Held = 0 /\ Held' = 0
        BY <1>1 DEF Held
    <2>3. UNCHANGED buffers
        BY DEF AbortFails
    <2> QED
        BY <2>1, <2>2, <2>3
<1> QED
    BY <1>1, <1>2, <1>3, <1>4, CallKeeps DEF Apart

\* Nobody sends any more.
LEMMA CloseQueueKeeps ==
    ASSUME UploadInv, CloseQueue
    PROVE  UploadInv'
<1>1. /\ pc = "close" /\ pc' = "wait" /\ closed' = TRUE
      /\ UNCHANGED <<bodyVars, err, queue, uploader, parts, gErr, upload, object,
                     buffers, hungUp, faults>>
    BY DEF CloseQueue, bucketVars
<1>2. Typed'
    <2>1. BodyTyped'
        BY <1>1, Untouched DEF UploadInv
    <2>2. GroupTyped'
        BY <1>1, Zenon DEF UploadInv, Typed, GroupTyped
    <2>3. BucketTyped' /\ ControlTyped'
        BY <1>1, Zenon DEF UploadInv, Typed, BucketTyped, ControlTyped
    <2> QED
        BY <2>1, <2>2, <2>3 DEF Typed
<1>3. LimitSound'
    BY <1>1, Zenon DEF UploadInv, LimitSound, bodyVars
<1>4. BucketSound'
    BY <1>1, Zenon DEF UploadInv, BucketSound
<1>5. buffers' = buffers - Held + Held'
    <2>1. buffers \in Nat
        BY BuffersAreNumbers DEF UploadInv
    <2>2. Held = 0 /\ Held' = 0 /\ buffers' = buffers
        BY <1>1 DEF Held
    <2> QED
        BY <2>1, <2>2
<1> QED
    BY <1>1, <1>2, <1>3, <1>4, <1>5, ProducerKeeps DEF Apart

\* The client leaves.
LEMMA HangUpKeeps ==
    ASSUME UploadInv, HangUp
    PROVE  UploadInv'
<1>1. Typed'
    <2>1. BodyTyped' /\ GroupTyped' /\ BucketTyped'
        BY Untouched DEF UploadInv, HangUp
    <2>2. ControlTyped'
        BY Zenon DEF UploadInv, Typed, ControlTyped, HangUp
    <2> QED
        BY <2>1, <2>2 DEF Typed
<1>2. UNCHANGED <<bodyVars, pc, err, queue, uploader, upload, object, buffers>>
    BY DEF HangUp, groupVars, bucketVars
<1>3. LimitSound' /\ BucketSound' /\ QuietSound'
    BY <1>2, Zenon DEF UploadInv, LimitSound, BucketSound, QuietSound, bodyVars
<1>4. BuffersSound'
    BY <1>2 DEF UploadInv, BuffersSound, Sending, Held
<1> QED
    BY <1>1, <1>3, <1>4 DEF UploadInv

\* The upload is open and the uploaders start.
LEMMA CreateMultipartKeeps ==
    ASSUME UploadInv, CreateMultipart
    PROVE  UploadInv'
<1>1. /\ pc = "create" /\ pc' = "send" /\ upload' = "open"
      /\ uploader' = [u \in Uploaders |-> Waiting]
      /\ UNCHANGED <<bodyVars, err, queue, closed, parts, gErr, object,
                     buffers, hungUp, faults>>
    BY DEF CreateMultipart
<1>2. Typed'
    <2>1. BodyTyped'
        BY <1>1, Untouched DEF UploadInv
    <2>2. uploader' \in [Uploaders -> [pc : {"unborn", "receive", "upload", "exited"},
                                       part : Part]]
        BY <1>1, Numbers DEF Waiting, NoPart, Part
    <2>3. GroupTyped'
        BY <1>1, <2>2, Zenon DEF UploadInv, Typed, GroupTyped
    <2>4. BucketTyped'
        BY <1>1 DEF BucketTyped, UploadStates
    <2>5. ControlTyped'
        BY <1>1, Zenon DEF UploadInv, Typed, ControlTyped
    <2> QED
        BY <2>1, <2>3, <2>4, <2>5 DEF Typed
<1>3. LimitSound'
    BY <1>1, Zenon DEF UploadInv, LimitSound, bodyVars
<1>4. BucketSound'
    BY <1>1, Zenon DEF UploadInv, BucketSound
<1>5. QuietSound'
    BY <1>1, Zenon DEF QuietSound
<1>6. BuffersSound'
    <2>1. Sending' = {}
        BY <1>1 DEF Sending, Waiting
    <2>2. Sending = {}
        BY <1>1, Zenon DEF UploadInv, QuietSound, Sending
    <2>3. Held' = Held
        BY <1>1 DEF Held
    <2>4. UNCHANGED <<queue, buffers>>
        BY <1>1
    <2> QED
        BY <2>1, <2>2, <2>3, <2>4, Zenon DEF UploadInv, BuffersSound
<1> QED
    BY <1>2, <1>3, <1>4, <1>5, <1>6 DEF UploadInv

\* A part goes into the channel.
LEMMA SendPartKeeps ==
    ASSUME UploadInv, SendPart
    PROVE  UploadInv'
<1>1. /\ pc = "send" /\ pc' = (IF rerr = "nil" THEN "fill" ELSE "close")
      /\ queue' = Append(queue, part)
      /\ err' = (IF rerr = "error" THEN "read error" ELSE "nil")
      /\ UNCHANGED <<bodyVars, closed, uploader, parts, gErr, upload, object,
                     hungUp, faults>>
    BY DEF SendPart, bucketVars
<1>2. queue \in Seq(Part) /\ part \in Part
    BY Zenon DEF UploadInv, Typed, GroupTyped, BodyTyped
<1>3. queue' \in Seq(Part) /\ Len(queue') = Len(queue) + 1
    <2>1. queue' = Append(queue, part)
        BY <1>1
    <2> QED
        BY <1>2, <2>1
<1>4. Typed'
    <2>1. BodyTyped'
        BY <1>1, Untouched DEF UploadInv
    <2>2. GroupTyped'
        BY <1>1, <1>3, Zenon DEF UploadInv, Typed, GroupTyped
    <2>3. BucketTyped' /\ ControlTyped'
        BY <1>1, Zenon DEF UploadInv, Typed, BucketTyped, ControlTyped
    <2> QED
        BY <2>1, <2>2, <2>3 DEF Typed
<1>5. LimitSound'
    <2>1. rerr \in {"nil", "EOF", "error"}
        BY Zenon DEF UploadInv, Typed, BodyTyped
    <2> QED
        BY <1>1, <2>1, Zenon DEF UploadInv, LimitSound, bodyVars
<1>6. BucketSound'
    BY <1>1, Zenon DEF UploadInv, BucketSound
<1>7. QuietSound'
    BY <1>1, Zenon DEF QuietSound
<1>8. BuffersSound'
    <2>1. Sending' = Sending
        BY <1>1 DEF Sending
    <2>2. Held = 1 /\ Held' = (IF rerr = "nil" THEN 1 ELSE 0)
        BY <1>1 DEF Held
    <2>3. Len(queue) \in Nat /\ Cardinality(Sending) \in Nat
        BY BuffersAreNumbers DEF UploadInv
    <2>4. buffers' = buffers + (IF rerr = "nil" THEN 1 ELSE 0)
        BY DEF SendPart
    <2>5. Len(queue) < PartConcurrency
        BY DEF SendPart, QueueCap
    <2>6. buffers = 1 + Len(queue) + Cardinality(Sending)
        BY <2>2 DEF UploadInv, BuffersSound
    <2>7. /\ buffers' = Held' + Len(queue') + Cardinality(Sending)
          /\ Len(queue') <= PartConcurrency
        BY <1>3, <2>2, <2>3, <2>4, <2>5, <2>6, Numbers
    <2> QED
        BY <2>1, <2>7 DEF BuffersSound
<1> QED
    BY <1>4, <1>5, <1>6, <1>7, <1>8 DEF UploadInv

\* g.Wait returns and the channel is drained.
LEMMA WaitKeeps ==
    ASSUME UploadInv, Wait
    PROVE  UploadInv'
<1>1. /\ pc = "wait" /\ pc' = (IF err' # "nil" THEN "abort" ELSE "complete")
      /\ queue' = << >>
      /\ err' = (IF err # "nil" THEN err ELSE gErr)
      /\ \A u \in Uploaders : uploader[u].pc = "exited"
      /\ UNCHANGED <<bodyVars, closed, uploader, parts, gErr, upload, object,
                     hungUp, faults>>
    BY DEF Wait, bucketVars
<1>2. queue' \in Seq(Part) /\ Len(queue') = 0
    BY <1>1
<1>3. Typed'
    <2>1. BodyTyped'
        BY <1>1, Untouched DEF UploadInv
    <2>2. GroupTyped'
        BY <1>1, <1>2, Zenon DEF UploadInv, Typed, GroupTyped
    <2>3. err' \in {"nil", "read error", "context canceled", "store error"}
        <3>1. /\ err \in {"nil", "read error", "context canceled", "store error"}
              /\ gErr \in {"nil", "context canceled", "store error"}
            BY Zenon DEF UploadInv, Typed, ControlTyped, GroupTyped
        <3> QED
            BY <1>1, <3>1
    <2>4. BucketTyped' /\ ControlTyped'
        BY <1>1, <2>3, Zenon DEF UploadInv, Typed, BucketTyped, ControlTyped
    <2> QED
        BY <2>1, <2>2, <2>4 DEF Typed
<1>4. err' = "nil" => err = "nil"
    BY <1>1, Zenon
<1>5. LimitSound' /\ BucketSound'
    <2>1. LimitSound'
        BY <1>1, <1>4, Zenon DEF UploadInv, LimitSound, bodyVars
    <2>2. (pc' = "abort" /\ err' # "nil") \/ (pc' = "complete" /\ err' = "nil")
        BY <1>1, Zenon
    <2>3. BucketSound'
        BY <1>1, <2>2, Zenon DEF UploadInv, BucketSound
    <2> QED
        BY <2>1, <2>3
<1>6. QuietSound'
    BY <1>1, Zenon DEF QuietSound
<1>7. BuffersSound'
    <2>1. Sending = {} /\ Sending' = {}
        BY <1>1 DEF Sending
    <2>2. Held = 0 /\ Held' = 0
        BY <1>1 DEF Held
    <2>3. Len(queue) \in Nat /\ Cardinality(Sending) = 0 /\ Cardinality(Sending') = 0
        BY <2>1, BuffersAreNumbers, FS_EmptySet DEF UploadInv
    <2>4. buffers' = buffers - Len(queue)
        BY DEF Wait
    <2>5. buffers = Held + Len(queue) + Cardinality(Sending)
        BY DEF UploadInv, BuffersSound
    <2> QED
        BY <1>2, <2>2, <2>3, <2>4, <2>5, Numbers DEF BuffersSound
<1> QED
    BY <1>3, <1>5, <1>6, <1>7 DEF UploadInv

-----------------------------------------------------------------------------
(* The uploaders                                                           *)

\* A step of uploader u that leaves the producer and the bucket's upload alone.
LEMMA UploaderKeeps ==
    ASSUME UploadInv, NEW u \in Uploaders, GroupTyped',
           UNCHANGED <<bodyVars, pc, err, bucketVars, hungUp>>,
           Fault \/ UNCHANGED faults,
           uploader[u].pc \in {"receive", "upload"},
           BuffersSound'
    PROVE  UploadInv'
<1>1. UNCHANGED <<upload, object>>
    BY DEF bucketVars
<1>2. Typed'
    <2>1. BodyTyped' /\ BucketTyped'
        BY Untouched DEF UploadInv
    <2>2. faults' \in Nat /\ faults' <= MaxFaults
        BY FaultsStay DEF UploadInv
    <2>3. ControlTyped'
        BY <2>2, Zenon DEF UploadInv, Typed, ControlTyped
    <2> QED
        BY <2>1, <2>3 DEF Typed
<1>3. LimitSound' /\ BucketSound'
    BY <1>1, Zenon DEF UploadInv, LimitSound, BucketSound, bodyVars
<1>4. QuietSound'
    <2>1. uploader[u].pc \notin {"unborn", "exited"}
        OBVIOUS
    <2>2. pc \in {"fill", "send", "close", "wait"}
        BY <2>1, Zenon DEF UploadInv, QuietSound
    <2> QED
        BY <2>2, Zenon DEF QuietSound
<1> QED
    BY <1>2, <1>3, <1>4 DEF UploadInv

\* The effect of one uploader's step on the accounts.
LEMMA ReceivePartKeeps ==
    ASSUME UploadInv, NEW u \in Uploaders, ReceivePart(u)
    PROVE  UploadInv'
<1> DEFINE g == [pc |-> "upload", part |-> Head(queue)]
<1>1. /\ uploader[u].pc = "receive"
      /\ queue # << >>
      /\ uploader' = [uploader EXCEPT ![u] = g]
      /\ queue' = Tail(queue)
      /\ UNCHANGED <<bodyVars, pc, err, closed, parts, gErr, bucketVars, buffers,
                     hungUp, faults>>
    BY DEF ReceivePart
<1>2. queue \in Seq(Part) /\ GroupTyped
    BY DEF UploadInv, Typed, GroupTyped
<1>3. /\ queue' \in Seq(Part) /\ Len(queue') = Len(queue) - 1
      /\ Head(queue) \in Part
    BY <1>1, <1>2
<1>4. g.pc = "upload" /\ g.part \in Part
    BY <1>3
<1>5. GroupTyped'
    <2>1. g \in [pc : {"unborn", "receive", "upload", "exited"}, part : Part]
        BY <1>3
    <2> QED
        BY <1>1, <1>2, <1>3, <2>1 DEF GroupTyped
<1> HIDE DEF g
<1>6. BuffersSound'
    <2>1. Cardinality(Sending') = Cardinality(Sending) + 1
        BY <1>1, <1>4, SendingAdds DEF UploadInv
    <2>2. Len(queue) \in Nat /\ Cardinality(Sending) \in Nat /\ Held \in Nat
        BY BuffersAreNumbers DEF UploadInv, Held
    <2>3. /\ buffers = Held + Len(queue) + Cardinality(Sending)
          /\ Len(queue) <= PartConcurrency
        BY DEF UploadInv, BuffersSound
    <2>4. Held' = Held /\ buffers' = buffers
        BY <1>1 DEF Held
    <2> QED
        BY <1>3, <2>1, <2>2, <2>3, <2>4, Numbers DEF BuffersSound
<1> QED
    BY <1>1, <1>5, <1>6, UploaderKeeps

\* An uploader that has sent its part, or could not, gives its buffer back.
LEMMA SenderStops ==
    ASSUME UploadInv, NEW u \in Uploaders, NEW g, g.pc # "upload",
           uploader' = [uploader EXCEPT ![u] = g],
           uploader[u].pc = "upload",
           buffers' = buffers - 1,
           UNCHANGED <<pc, queue>>
    PROVE  BuffersSound'
<1>1. Cardinality(Sending') = Cardinality(Sending) - 1
    BY SendingAdds DEF UploadInv
<1>2. Len(queue) \in Nat /\ Cardinality(Sending) \in Nat /\ Held \in Nat
    BY BuffersAreNumbers DEF UploadInv, Held
<1>3. /\ buffers = Held + Len(queue) + Cardinality(Sending)
      /\ Len(queue) <= PartConcurrency
    BY DEF UploadInv, BuffersSound
<1>4. Held' = Held /\ queue' = queue /\ buffers' = buffers - 1
    BY DEF Held
<1> QED
    BY <1>1, <1>2, <1>3, <1>4 DEF BuffersSound

\* The steps of one uploader.
LEMMA UploaderNextKeeps ==
    ASSUME UploadInv, NEW u \in Uploaders, UploaderNext(u)
    PROVE  UploadInv'
<1> DEFINE Doing == [pc : {"unborn", "receive", "upload", "exited"}, part : Part]
           exited == [pc |-> "exited", part |-> uploader[u].part]
<1>1. GroupTyped
    BY DEF UploadInv, Typed
<1>2. /\ parts \in Seq(Part) /\ uploader \in [Uploaders -> Doing]
      /\ gErr \in {"nil", "context canceled", "store error"}
    BY <1>1, Zenon DEF GroupTyped
<1>3. uploader[u].part \in Part /\ exited \in Doing /\ exited.pc = "exited"
    BY <1>2
<1>4. Waiting \in Doing /\ Waiting.pc = "receive"
    BY Numbers DEF Waiting, NoPart, Part
<1>5. [uploader EXCEPT ![u].pc = "exited"] = [uploader EXCEPT ![u] = exited]
    <2>1. uploader[u] \in Doing
        BY <1>2
    <2>2. [uploader[u] EXCEPT !.pc = "exited"] = exited
        BY <2>1
    <2> QED
        BY <2>2, Zenon
<1>6. ASSUME NEW g \in Doing PROVE [uploader EXCEPT ![u] = g] \in [Uploaders -> Doing]
    BY <1>2
<1> HIDE DEF exited
<1>7. CASE ExitUploader(u)
    <2>1. /\ uploader' = [uploader EXCEPT ![u] = exited] /\ uploader[u].pc = "receive"
          /\ UNCHANGED <<bodyVars, pc, err, bucketVars, hungUp, queue, closed, parts,
                         gErr, buffers, faults>>
        BY <1>5, <1>7, Zenon DEF ExitUploader
    <2>2. GroupTyped'
        BY <1>1, <1>3, <1>6, <2>1, Zenon DEF GroupTyped
    <2>3. Sending' = Sending
        BY <1>3, <2>1, SendingAdds DEF UploadInv
    <2>4. BuffersSound'
        BY <2>1, <2>3 DEF UploadInv, BuffersSound, Held
    <2> QED
        BY <2>1, <2>2, <2>4, UploaderKeeps
<1>8. CASE UploadPart(u)
    <2>1. /\ uploader' = [uploader EXCEPT ![u] = Waiting] /\ uploader[u].pc = "upload"
          /\ parts' = Append(parts, uploader[u].part)
          /\ buffers' = buffers - 1
          /\ UNCHANGED <<bodyVars, pc, err, bucketVars, hungUp, queue, closed,
                         gErr, faults>>
        BY <1>8, Zenon DEF UploadPart
    <2>2. parts' \in Seq(Part)
        <3>1. parts' = Append(parts, uploader[u].part)
            BY <2>1
        <3>2. parts \in Seq(Part) /\ uploader[u].part \in Part
            BY <1>2, <1>3
        <3> QED
            BY <3>1, <3>2
    <2>3. GroupTyped'
        BY <1>1, <1>4, <1>6, <2>1, <2>2, Zenon DEF GroupTyped
    <2>4. Waiting.pc # "upload" /\ UNCHANGED <<pc, queue>>
        BY <1>4, <2>1
    <2>5. BuffersSound'
        BY <2>1, <2>4, SenderStops, Zenon
    <2> QED
        BY <2>1, <2>3, <2>5, UploaderKeeps
<1>9. CASE UploadPartFails(u)
    <2>1. /\ uploader' = [uploader EXCEPT ![u] = exited] /\ uploader[u].pc = "upload"
          /\ buffers' = buffers - 1
          /\ UNCHANGED <<bodyVars, pc, err, bucketVars, hungUp, queue, closed, parts>>
        BY <1>5, <1>9, Zenon DEF UploadPartFails
    <2>2. gErr' \in {"nil", "context canceled", "store error"}
        <3>1. gErr' = IF gErr = "nil" THEN CallError(Cancelled) ELSE gErr
            BY <1>9, Zenon DEF UploadPartFails
        <3> QED
            BY <1>2, <3>1, Zenon DEF CallError
    <2>3. Fault \/ UNCHANGED faults
        BY <1>9, Zenon DEF UploadPartFails, CallFails
    <2>4. GroupTyped'
        BY <1>1, <1>3, <1>6, <2>1, <2>2, Zenon DEF GroupTyped
    <2>5. exited.pc # "upload" /\ UNCHANGED <<pc, queue>>
        BY <1>3, <2>1
    <2>6. BuffersSound'
        BY <2>1, <2>5, SenderStops, Zenon
    <2> QED
        BY <2>1, <2>3, <2>4, <2>6, UploaderKeeps
<1> QED
    BY <1>7, <1>8, <1>9, ReceivePartKeeps DEF UploaderNext

-----------------------------------------------------------------------------
(* The resource invariant holds                                            *)

\* When Put is called it has one buffer and nothing else.
LEMMA UploadInvInit == UploadInit => UploadInv
<1> SUFFICES ASSUME UploadInit PROVE UploadInv
    OBVIOUS
<1>1. Typed
    <2>1. size \in Nat /\ size <= MaxSize /\ max \in Limits /\ max \in Nat
        <3>1. size \in 0 .. MaxSize /\ max \in Limits
            BY DEF UploadInit
        <3> QED
            BY <3>1, Numbers
    <2>2. part \in Part /\ part.num = 0 /\ part.n = 0
        <3>1. part = NoPart
            BY DEF UploadInit
        <3> QED
            BY <3>1, Numbers DEF NoPart, Part
    <2>3. read = 0 /\ exceeded = FALSE /\ rerr = "nil" /\ 0 <= size
        <3>1. read = 0 /\ exceeded = FALSE /\ rerr = "nil"
            BY DEF UploadInit
        <3> QED
            BY <2>1, <3>1
    <2>4. BodyTyped
        <3>1. part.num \in Nat /\ part.n \in Nat /\ read \in Nat /\ read <= size
            BY <2>2, <2>3
        <3> QED
            BY <2>1, <2>2, <2>3, <3>1, Zenon DEF BodyTyped
    <2>5. uploader \in [Uploaders -> [pc : {"unborn", "receive", "upload", "exited"},
                                      part : Part]]
        <3>1. uploader = [u \in Uploaders |-> [Waiting EXCEPT !.pc = "unborn"]]
            BY DEF UploadInit
        <3> QED
            BY <3>1, Numbers DEF Waiting, NoPart, Part
    <2>6. GroupTyped
        <3>1. /\ queue = << >> /\ closed = FALSE /\ parts = << >> /\ gErr = "nil"
              /\ << >> \in Seq(Part)
            BY DEF UploadInit
        <3> QED
            BY <2>5, <3>1, Zenon DEF GroupTyped
    <2>7. BucketTyped
        BY DEF UploadInit, BucketTyped, UploadStates
    <2>8. ControlTyped
        <3>1. pc = "first" /\ hungUp = FALSE /\ err = "nil" /\ faults = 0
            BY DEF UploadInit
        <3>2. 0 \in Nat /\ 0 <= MaxFaults
            BY Numbers
        <3> QED
            BY <3>1, <3>2, Zenon DEF ControlTyped
    <2> QED
        BY <2>4, <2>6, <2>7, <2>8 DEF Typed
<1>2. \A u \in Uploaders : uploader[u].pc = "unborn"
    BY DEF UploadInit, Waiting
<1>3. pc = "first" /\ rerr = "nil" /\ queue = << >> /\ buffers = 1 /\ err = "nil"
      /\ upload = "none" /\ object = NoObject /\ exceeded = FALSE
    BY DEF UploadInit
<1>4. BuffersSound
    <2>1. Sending = {} /\ Held = 1 /\ Len(queue) = 0
        BY <1>2, <1>3 DEF Sending, Held
    <2> QED
        BY <1>3, <2>1, FS_EmptySet, Numbers DEF BuffersSound
<1>5. QuietSound
    BY <1>2, <1>3, Zenon DEF QuietSound
<1>6. LimitSound /\ BucketSound
    BY <1>3, Zenon DEF LimitSound, BucketSound
<1> QED
    BY <1>1, <1>4, <1>5, <1>6 DEF UploadInv

\* Every step keeps it.
LEMMA UploadInvNext == UploadInv /\ [UploadNext]_uvars => UploadInv'
<1> SUFFICES ASSUME UploadInv, [UploadNext]_uvars PROVE UploadInv'
    OBVIOUS
<1>1. CASE PutNext
    BY <1>1, FirstPartKeeps, PutObjectKeeps, PutObjectFailsKeeps, CreateMultipartKeeps,
       CreateMultipartFailsKeeps, FillPartKeeps, SendPartKeeps, SendCancelledKeeps,
       CloseQueueKeeps, WaitKeeps, CompleteMultipartKeeps, CompleteMultipartFailsKeeps,
       AbortKeeps, AbortFailsKeeps DEF PutNext
<1>2. ASSUME NEW u \in Uploaders, UploaderNext(u) PROVE UploadInv'
    BY <1>2, UploaderNextKeeps
<1>3. CASE HangUp
    BY <1>3, HangUpKeeps
<1>4. CASE UNCHANGED uvars
    <2>1. UNCHANGED <<bodyVars, groupVars, bucketVars>>
        BY <1>4 DEF uvars
    <2>2. UNCHANGED <<pc, err, buffers, hungUp, faults, queue, uploader, upload, object,
                      size, max, rerr, exceeded>>
        BY <1>4 DEF uvars, bodyVars, groupVars, bucketVars
    <2>3. BodyTyped' /\ GroupTyped' /\ BucketTyped'
        BY <2>1, Untouched DEF UploadInv
    <2>4. ControlTyped'
        BY <2>2, Zenon DEF UploadInv, Typed, ControlTyped
    <2>5. QuietSound' /\ LimitSound' /\ BucketSound'
        BY <2>2, Zenon DEF UploadInv, QuietSound, LimitSound, BucketSound
    <2>6. BuffersSound'
        BY <2>2 DEF UploadInv, BuffersSound, Sending, Held
    <2> QED
        BY <2>3, <2>4, <2>5, <2>6 DEF UploadInv, Typed
<1> QED
    BY <1>1, <1>2, <1>3, <1>4 DEF UploadNext, Done

\* The invariant holds in every reachable state.
LEMMA UploadInvHolds == UploadSpec => []UploadInv
BY UploadInvInit, UploadInvNext, PTL DEF UploadSpec

\* For every size of the body and of the parts, every number of uploaders and every
\* way the calls fail: one upload never holds more buffers than Config's
\* PeakUploadBytes allows for (store.go, putMultipartFromFirst).
THEOREM MemoryBounded == UploadSpec => []BuffersBounded
<1>1. UploadInv => BuffersBounded
    <2> SUFFICES ASSUME UploadInv PROVE BuffersBounded
        OBVIOUS
    <2>1. Sending \in SUBSET Uploaders
        BY DEF Sending
    <2>2. Cardinality(Sending) \in Nat /\ Cardinality(Sending) <= PartConcurrency
        BY <2>1, SendingFinite
    <2>3. Len(queue) \in Nat /\ Held \in {0, 1}
        BY BuffersAreNumbers DEF UploadInv, Held
    <2>4. /\ buffers = Held + Len(queue) + Cardinality(Sending)
          /\ Len(queue) <= PartConcurrency
        BY DEF UploadInv, BuffersSound
    <2> QED
        BY <2>2, <2>3, <2>4, Numbers DEF BuffersBounded, PeakUploadBuffers
<1> QED
    BY <1>1, UploadInvHolds, PTL

\* Every buffer taken from bufPool is given back exactly once before Put returns,
\* also those queued behind an uploader that failed.
THEOREM EveryBufferReturned == UploadSpec => []BuffersReturned
<1>1. UploadInv => BuffersReturned
    <2> SUFFICES ASSUME UploadInv PROVE BuffersReturned
        OBVIOUS
    <2>1. buffers \in Nat
        BY BuffersAreNumbers DEF UploadInv
    <2>2. ASSUME pc = "done" PROVE buffers = 0
        <3>1. queue = << >> /\ \A u \in Uploaders : uploader[u].pc \in {"unborn", "exited"}
            BY <2>2, Zenon DEF UploadInv, QuietSound
        <3>2. Sending = {} /\ Len(queue) = 0 /\ Held = 0
            BY <2>2, <3>1 DEF Sending, Held
        <3> QED
            BY <3>2, FS_EmptySet DEF UploadInv, BuffersSound
    <2> QED
        BY <2>1, <2>2 DEF BuffersReturned
<1> QED
    BY <1>1, UploadInvHolds, PTL

\* Put does not return with a multipart upload it knows of left open, and none is
\* open when it reports success.
THEOREM UploadsClosed == UploadSpec => []NoUploadLeftOpen
<1>1. UploadInv => NoUploadLeftOpen
    BY Zenon DEF UploadInv, BucketSound, NoUploadLeftOpen
<1> QED
    BY <1>1, UploadInvHolds, PTL

\* No byte past the limit is stored, and no body within it is refused as too large.
THEOREM LimitsExact == UploadSpec => []LimitExact
<1>1. UploadInv => LimitExact
    <2> SUFFICES ASSUME UploadInv PROVE LimitExact
        OBVIOUS
    <2>1. size \in Nat /\ max \in Nat
        BY Zenon DEF UploadInv, Typed, BodyTyped
    <2>2. size > max => ~(size <= max)
        BY <2>1
    <2> QED
        BY <2>2, Zenon DEF UploadInv, LimitSound, LimitExact
<1> QED
    BY <1>1, UploadInvHolds, PTL

-----------------------------------------------------------------------------
(* The parts add up                                                        *)

\* How many of the parts C come before number i, when none below i is missing.
LEMMA Rank ==
    ASSUME NEW C \in SUBSET Part, NEW i \in Nat, i >= 1,
           \A p, q \in C : p.num = q.num => p = q,
           \A p \in C : p.num >= 1,
           \A k \in 1 .. i - 1 : \E p \in C : p.num = k
    PROVE  Cardinality({q \in C : q.num < i}) = i - 1
<1> DEFINE S == 1 .. i - 1
           T == {q \in C : q.num < i}
           f == [k \in S |-> CHOOSE p \in C : p.num = k]
<1>1. \A k \in S : f[k] \in C /\ f[k].num = k
    OBVIOUS
<1>2. \A p \in C : p.num \in Nat
    BY DEF Part
<1>3. \A k \in S : f[k] \in T
    BY <1>1
<1>4. \A q \in T : q.num \in S /\ f[q.num] = q
    BY <1>1, <1>2
<1>5. IsFiniteSet(S) /\ Cardinality(S) = i - 1
    BY FS_Interval
<1> HIDE DEF S, T
<1>6. f \in Bijection(S, T)
    <2>1. f \in [S -> T]
        BY <1>3
    <2>2. \A a, b \in S : f[a] = f[b] => a = b
        BY <1>1
    <2> HIDE DEF f
    <2> QED
        BY <1>4, <2>1, <2>2 DEF Bijection, Injection, Surjection, IsInjective
<1>7. Cardinality(T) = Cardinality(S)
    BY <1>5, <1>6, FS_Bijection DEF ExistsBijection
<1> QED
    BY <1>5, <1>7 DEF T

\* What the arithmetic of a manifest needs of the state.
LEMMA PartNumbers ==
    ASSUME Typed
    PROVE  /\ part \in Part /\ part.num \in Nat /\ part.n \in Nat
           /\ size \in Nat /\ read \in Nat
           /\ queue \in Seq(Part) /\ parts \in Seq(Part)
           /\ \A u \in Uploaders : uploader[u].part \in Part
           /\ Sent \in Int
<1>1. part \in Part /\ part.num \in Nat /\ part.n \in Nat /\ size \in Nat /\ read \in Nat
    BY Zenon DEF Typed, BodyTyped
<1>2. /\ queue \in Seq(Part) /\ parts \in Seq(Part)
      /\ uploader \in [Uploaders -> [pc : {"unborn", "receive", "upload", "exited"},
                                     part : Part]]
    BY Zenon DEF Typed, GroupTyped
<1>3. \A u \in Uploaders : uploader[u].part \in Part
    BY <1>2
<1>4. Sent \in Int
    <2>1. part.num \in Nat /\ part.num - 1 \in Int
        BY <1>1
    <2>2. Sent = part.num \/ Sent = part.num - 1
        BY Zenon DEF Sent
    <2> QED
        BY <2>1, <2>2
<1> QED
    BY <1>1, <1>2, <1>3, <1>4

\* A part is its number and its length.
LEMMA PartIs ==
    ASSUME NEW p \in Part, NEW q \in Part, p.num = q.num, p.n = q.n
    PROVE  p = q
<1>1. p = [num |-> p.num, n |-> p.n] /\ q = [num |-> q.num, n |-> q.n]
    BY Zenon DEF Part
<1> QED
    BY <1>1

\* When nothing failed, the sorted manifest is the body, cut into parts: what
\* CompleteMultipart makes of it is the whole object.
LEMMA ManifestIs ==
    ASSUME UploadInv, FlowInv, pc = "complete"
    PROVE  /\ Manifest \in Seq(Part)
           /\ Len(Manifest) >= 1
           /\ \A i \in 1 .. Len(Manifest) : Manifest[i].num = i
           /\ \A i \in 1 .. Len(Manifest) - 1 : Manifest[i].n = PartSize
           /\ size = (Len(Manifest) - 1) * PartSize + Manifest[Len(Manifest)].n
<1> DEFINE C == {parts[i] : i \in DOMAIN parts}
<1>1. /\ part.num \in Nat /\ part.n \in Nat /\ parts \in Seq(Part) /\ Sent \in Int
      /\ size \in Nat /\ read \in Nat
    BY PartNumbers DEF UploadInv
<1>2. err = "nil" /\ gErr = "nil" /\ rerr = "EOF" /\ read = size
    <2>1. err = "nil" /\ rerr = "EOF"
        BY Zenon DEF UploadInv, BucketSound, LimitSound
    <2>2. gErr = "nil" /\ (rerr = "EOF" => read = size)
        BY Zenon DEF FlowInv, ExitSound, ReadSound
    <2> QED
        BY <2>1, <2>2
<1>3. queue = << >> /\ \A u \in Uploaders : uploader[u].pc # "upload"
    BY DEF UploadInv, QuietSound
<1>4. Len(parts) = Sent /\ \A k \in 1 .. Sent : \E i \in 1 .. Len(parts) : parts[i].num = k
    <2>1. /\ \A k \in 1 .. Sent : Somewhere(k)
          /\ Len(parts) + buffers - Held = Sent
        BY <1>2, Zenon DEF FlowInv, CoverSound, Multipart
    <2>2. buffers = 0 /\ Held = 0
        <3>1. Sending = {} /\ Len(queue) = 0 /\ Held = 0
            BY <1>3 DEF Sending, Held
        <3> QED
            BY <3>1, FS_EmptySet DEF UploadInv, BuffersSound
    <2>3. Len(parts) = Sent
        <3>1. Len(parts) \in Nat
            BY <1>1
        <3> QED
            BY <2>1, <2>2, <3>1
    <2>4. \A k : Somewhere(k) => \E i \in 1 .. Len(parts) : parts[i].num = k
        BY <1>3 DEF Somewhere
    <2> QED
        BY <2>1, <2>3, <2>4, Zenon
<1>5. /\ part.num >= 1 /\ read = (part.num - 1) * PartSize + part.n
      /\ part.n = 0 => part.num >= 2
    BY Zenon DEF FlowInv, ReadSound
<1>6. /\ Sent >= 1
      /\ (part.n = 0 /\ Sent = part.num - 1) \/ (part.n # 0 /\ Sent = part.num)
    BY <1>1, <1>5 DEF Sent
<1>7. C \in SUBSET Part /\ DOMAIN parts = 1 .. Len(parts)
    BY <1>1
<1>8. \A p \in C : Cut(p)
    BY <1>7, Zenon DEF FlowInv, FlightSound
<1>9. \A k \in 1 .. Sent : \E p \in C : p.num = k
    BY <1>4, <1>7
<1> HIDE DEF C
<1>10. \A p \in C : p.num \in Nat /\ p.num >= 1 /\ p.num <= Sent + 1
    <2> TAKE p \in C
    <2>1. p.num \in Nat /\ p.num >= 1 /\ p.num <= part.num
        BY <1>7, <1>8 DEF Part, Cut
    <2> QED
        BY <1>1, <1>6, <2>1
<1>11. \A p, q \in C : p.num = q.num => p = q
    <2> SUFFICES ASSUME NEW p \in C, NEW q \in C, p.num = q.num PROVE p = q
        OBVIOUS
    <2>1. p \in Part /\ q \in Part /\ p.num \in Nat
        BY <1>7, <1>10
    <2>2. p.n = q.n
        BY <1>1, <1>8, <2>1 DEF Cut
    <2> QED
        BY <2>1, <2>2, PartIs
<1>12. ASSUME NEW p \in C PROVE Cardinality({q \in C : q.num < p.num}) = p.num - 1
    <2>1. p.num \in Nat /\ p.num >= 1 /\ p.num <= Sent + 1
        BY <1>10
    <2>2. \A k \in 1 .. p.num - 1 : \E q \in C : q.num = k
        BY <1>1, <1>9, <2>1
    <2> QED
        BY <1>7, <1>10, <1>11, <2>1, <2>2, Rank
<1> DEFINE Nth(i) == CHOOSE p \in C : Cardinality({q \in C : q.num < p.num}) = i - 1
<1>13. ASSUME NEW i \in 1 .. Sent PROVE Nth(i) \in C /\ Nth(i).num = i
    <2>1. PICK p \in C : p.num = i
        BY <1>9
    <2>2. \A q \in C : Cardinality({r \in C : r.num < q.num}) = q.num - 1
        BY <1>12
    <2>3. Nth(i) \in C /\ Cardinality({q \in C : q.num < Nth(i).num}) = i - 1
        BY <2>1, <2>2
    <2>4. Nth(i).num - 1 = i - 1 /\ Nth(i).num \in Nat
        BY <1>10, <2>2, <2>3
    <2> HIDE DEF Nth
    <2> QED
        BY <2>3, <2>4
<1>14. Manifest = [i \in 1 .. Sent |-> Nth(i)]
    BY <1>4 DEF Manifest, C
<1> HIDE DEF Nth
<1>15. Manifest \in Seq(Part) /\ Len(Manifest) = Sent
    <2>1. Sent \in Nat /\ \A i \in 1 .. Sent : Nth(i) \in Part
        BY <1>1, <1>6, <1>7, <1>13
    <2> QED
        BY <1>14, <2>1
<1>16. \A i \in 1 .. Sent : Manifest[i] \in C /\ Manifest[i].num = i
    BY <1>13, <1>14
<1>17. \A i \in 1 .. Sent - 1 : Manifest[i].n = PartSize
    <2> TAKE i \in 1 .. Sent - 1
    <2>1. Manifest[i] \in C /\ Manifest[i].num = i
        BY <1>1, <1>16
    <2>2. i < part.num
        BY <1>1, <1>6
    <2> QED
        BY <1>8, <2>1, <2>2 DEF Cut
<1>18. size = (Sent - 1) * PartSize + Manifest[Sent].n
    <2>1. Cut(Manifest[Sent]) /\ Manifest[Sent].num = Sent
        BY <1>1, <1>6, <1>8, <1>16
    <2>2. CASE part.n # 0
        <3>1. Manifest[Sent].n = part.n /\ Sent = part.num
            BY <1>6, <2>1, <2>2 DEF Cut
        <3> QED
            BY <1>2, <1>5, <3>1
    <2>3. CASE part.n = 0
        <3>1. Sent = part.num - 1
            BY <1>6, <2>3
        <3>2. Manifest[Sent].n = PartSize
            BY <1>1, <2>1, <3>1 DEF Cut
        <3>3. size = Sent * PartSize + 0
            BY <1>2, <1>5, <2>3, <3>1
        <3>4. Sent * PartSize + 0 = (Sent - 1) * PartSize + PartSize
            BY <1>1, Numbers
        <3> QED
            BY <3>2, <3>3, <3>4
    <2> QED
        BY <2>2, <2>3
<1> QED
    BY <1>1, <1>6, <1>15, <1>16, <1>17, <1>18

\* What a step that leaves the body and the position of the producer alone keeps.
LEMMA FlowStays ==
    /\ ReadSound /\ UNCHANGED <<bodyVars, pc>> => ReadSound'
    /\ FlightSound /\ UNCHANGED <<part, queue, uploader, parts>> => FlightSound'
    /\ ObjectSound /\ UNCHANGED <<size, object, pc>> => ObjectSound'
<1>1. ASSUME ReadSound, UNCHANGED <<bodyVars, pc>> PROVE ReadSound'
    BY <1>1, Zenon DEF ReadSound, bodyVars
<1>2. ASSUME FlightSound, UNCHANGED <<part, queue, uploader, parts>> PROVE FlightSound'
    BY <1>2, Zenon DEF FlightSound, Cut
<1>3. ASSUME ObjectSound, UNCHANGED <<size, object, pc>> PROVE ObjectSound'
    BY <1>3, Zenon DEF ObjectSound, Whole
<1> QED
    BY <1>1, <1>2, <1>3

\* A call to the bucket after which nothing more is read or sent.
LEMMA FlowCall ==
    ASSUME FlowInv, UNCHANGED <<bodyVars, groupVars>>, pc # "first",
           pc' \in {"close", "abort", "done"},
           pc' = "close" => pc = "send" /\ err' # "nil",
           ObjectSound'
    PROVE  FlowInv'
<1>1. UNCHANGED <<size, max, part, read, exceeded, rerr, queue, closed, uploader, parts, gErr>>
    BY DEF bodyVars, groupVars
<1>2. pc' \notin {"first", "put object", "create", "send", "fill", "wait", "complete"}
    OBVIOUS
<1>3. ReadSound'
    <2>1. pc' = "close" => part.n > 0
        BY Zenon DEF FlowInv, ReadSound
    <2>2. part.n > 0 => part.n # 0
        OBVIOUS
    <2> QED
        BY <1>1, <1>2, <2>1, <2>2, Zenon DEF FlowInv, ReadSound
<1>4. FlightSound'
    BY <1>1, FlowStays DEF FlowInv
<1>5. CoverSound'
    BY <1>2, Zenon DEF CoverSound, Multipart
<1>6. ExitSound'
    BY <1>1, <1>2, Zenon DEF FlowInv, ExitSound
<1> QED
    BY <1>3, <1>4, <1>5, <1>6 DEF FlowInv

\* A sequence with a part in it is an object.
LEMMA NonEmpty ==
    /\ NoObject \in Seq(Part)
    /\ \A s : Len(s) \in Nat /\ Len(s) >= 1 => s # NoObject
    /\ \A p \in Part : <<p>> \in Seq(Part) /\ Len(<<p>>) = 1 /\ <<p>>[1] = p
<1>1. Len(NoObject) = 0 /\ NoObject \in Seq(Part)
    BY DEF NoObject
<1>2. ASSUME NEW s, Len(s) \in Nat, Len(s) >= 1 PROVE s # NoObject
    BY <1>1, <1>2
<1>3. ASSUME NEW p \in Part
      PROVE  <<p>> \in Seq(Part) /\ Len(<<p>>) = 1 /\ <<p>>[1] = p
    OBVIOUS
<1> QED
    BY <1>1, <1>2, <1>3

\* A body that ends within the first part is that part.
LEMMA FirstIsAll ==
    ASSUME UploadInv, FlowInv, pc = "put object"
    PROVE  /\ part \in Part
           /\ part.num = 1
           /\ size = (1 - 1) * PartSize + part.n
<1>1. rerr = "EOF"
    BY Zenon DEF UploadInv, LimitSound
<1>2. part.num = 1 /\ read = (part.num - 1) * PartSize + part.n /\ read = size
    BY <1>1, Zenon DEF FlowInv, ReadSound
<1> QED
    BY <1>2, PartNumbers, Zenon DEF UploadInv

\* The first part's place.
LEMMA OneOnly == (\A i \in 1 .. 1 : i = 1) /\ 1 .. 1 - 1 = {} /\ 1 \in Nat /\ 1 >= 1
OBVIOUS

\* The body in one piece is the whole object.
LEMMA OnePiece ==
    ASSUME UploadInv, FlowInv, pc = "put object", UNCHANGED size,
           object' \in {NoObject, <<part>>}, pc' = "done"
    PROVE  /\ ObjectSound' /\ (object' # NoObject => Whole')
           /\ object' = <<part>> => object' # NoObject
<1>1. CASE object' = <<part>>
    <2>1. /\ object' \in Seq(Part) /\ Len(object') = 1
          /\ \A i \in 1 .. Len(object') : object'[i].num = i
          /\ \A i \in 1 .. Len(object') - 1 : object'[i].n = PartSize
          /\ size' = (Len(object') - 1) * PartSize + object'[Len(object')].n
        <3>1. part \in Part /\ part.num = 1 /\ size = (1 - 1) * PartSize + part.n
            BY FirstIsAll, Zenon
        <3>2. object' \in Seq(Part) /\ Len(object') = 1 /\ object'[1] = part
            BY <1>1, <3>1, NonEmpty, Zenon
        <3>3. (\A i \in 1 .. 1 : i = 1) /\ 1 .. 1 - 1 = {}
            BY OneOnly
        <3> QED
            BY <3>1, <3>2, <3>3, Zenon
    <2>2. Whole'
        BY <2>1, Zenon DEF Whole
    <2>3. object' # NoObject
        BY <2>1, OneOnly, NonEmpty, Zenon
    <2> QED
        BY <2>1, <2>2, <2>3, Zenon DEF ObjectSound
<1>2. CASE object' = NoObject /\ object' # <<part>>
    <2>1. NoObject \in Seq(Part)
        BY NonEmpty, Zenon
    <2> QED
        BY <1>2, <2>1, Zenon DEF ObjectSound
<1>3. object' = <<part>> \/ object' = NoObject
    BY Zenon
<1> QED
    BY <1>1, <1>2, <1>3, Zenon

\* So is the completed upload.
LEMMA AllPieces ==
    ASSUME UploadInv, FlowInv, pc = "complete", UNCHANGED size,
           object' \in {object, Manifest}, pc' \in {"abort", "done"}
    PROVE  /\ ObjectSound' /\ (object' # NoObject => Whole')
           /\ object' = Manifest => object' # NoObject
<1>1. object = NoObject
    BY Zenon DEF FlowInv, ObjectSound
<1>2. CASE object' = Manifest
    <2>1. /\ object' \in Seq(Part) /\ Len(object') >= 1
          /\ \A i \in 1 .. Len(object') : object'[i].num = i
          /\ \A i \in 1 .. Len(object') - 1 : object'[i].n = PartSize
          /\ size' = (Len(object') - 1) * PartSize + object'[Len(object')].n
        BY <1>2, ManifestIs, Zenon
    <2>2. Whole'
        BY <2>1, Zenon DEF Whole
    <2>3. object' # NoObject
        <3>1. Len(object') \in Nat /\ Len(object') >= 1
            BY <2>1
        <3> QED
            BY <3>1, NonEmpty, Zenon
    <2> QED
        BY <2>1, <2>2, <2>3, Zenon DEF ObjectSound
<1>3. CASE object' = NoObject /\ object' # Manifest
    <2>1. NoObject \in Seq(Part)
        BY NonEmpty, Zenon
    <2> QED
        BY <1>3, <2>1, Zenon DEF ObjectSound
<1>4. object' = Manifest \/ object' = NoObject
    BY <1>1, Zenon
<1> QED
    BY <1>2, <1>3, <1>4, Zenon

\* The calls of the producer keep the parts in order.
LEMMA FlowCalls ==
    ASSUME UploadInv, FlowInv,
           \/ PutObject \/ PutObjectFails \/ CreateMultipartFails \/ SendCancelled
           \/ CompleteMultipart \/ CompleteMultipartFails \/ Abort \/ AbortFails
    PROVE  FlowInv'
<1>1. CASE PutObject \/ PutObjectFails
    <2>1. /\ pc = "put object" /\ pc' = "done" /\ object' \in {NoObject, <<part>>}
          /\ UNCHANGED <<bodyVars, groupVars, size>>
        BY <1>1 DEF PutObject, PutObjectFails, bodyVars
    <2>2. ObjectSound'
        BY <2>1, OnePiece
    <2> QED
        BY <2>1, <2>2, FlowCall
<1>2. CASE CompleteMultipart \/ CompleteMultipartFails
    <2>1. /\ pc = "complete" /\ pc' \in {"abort", "done"} /\ object' \in {object, Manifest}
          /\ UNCHANGED <<bodyVars, groupVars, size>>
        BY <1>2, Zenon
        DEF CompleteMultipart, CompleteMultipartFails, bodyVars, bucketVars
    <2>2. ObjectSound'
        BY <2>1, AllPieces
    <2> QED
        BY <2>1, <2>2, FlowCall
<1>3. CASE CreateMultipartFails \/ Abort \/ AbortFails
    <2>1. /\ pc \in {"create", "abort"} /\ pc' = "done"
          /\ UNCHANGED <<bodyVars, groupVars, size, object>>
        BY <1>3, Zenon DEF CreateMultipartFails, Abort, AbortFails, bodyVars
    <2>2. ObjectSound'
        BY <2>1, Zenon DEF FlowInv, ObjectSound, Whole
    <2> QED
        BY <2>1, <2>2, FlowCall
<1>4. CASE SendCancelled
    <2>1. /\ pc = "send" /\ pc' = "close" /\ err' # "nil"
          /\ UNCHANGED <<bodyVars, groupVars, size, object>>
        BY <1>4 DEF SendCancelled, bodyVars, bucketVars
    <2>2. ObjectSound'
        BY <2>1, Zenon DEF FlowInv, ObjectSound, Whole
    <2> QED
        BY <2>1, <2>2, FlowCall
<1> QED
    BY <1>1, <1>2, <1>3, <1>4

\* What fill reports, and where the producer is in the body after it.
LEMMA FillReads ==
    ASSUME Typed, NEW num \in Nat, Fill(num), read' = read + part'.n
    PROVE  /\ part'.num = num /\ part'.n \in Nat /\ rerr' \in {"nil", "EOF", "error"}
           /\ rerr' = "EOF" => read' = size
           /\ rerr' = "nil" => part'.n = PartSize
<1>1. size \in Nat /\ read \in Nat
    BY Zenon DEF Typed, BodyTyped
<1>2. part'.num = num /\ part'.n \in Nat /\ rerr' \in {"nil", "EOF", "error"}
    BY FillEffect
<1>3. rerr' = "EOF" => part'.n = size - read
    BY DEF Fill, Left
<1>4. rerr' = "EOF" => read' = size
    <2>1. read' = read + part'.n /\ part'.n \in Nat
        BY <1>2
    <2> QED
        BY <1>1, <1>3, <2>1
<1> QED
    BY <1>2, <1>4, FillNothing

\* The first part.
LEMMA FlowFirst ==
    ASSUME UploadInv, FlowInv, FirstPart
    PROVE  FlowInv'
<1>1. /\ part'.num = 1 /\ part'.n \in Nat /\ rerr' \in {"nil", "EOF", "error"}
      /\ rerr' = "EOF" => read' = size
      /\ rerr' = "nil" => part'.n = PartSize
    BY FillReads DEF FirstPart, UploadInv
<1>2. /\ pc = "first" /\ read' = read + part'.n
      /\ pc' = (IF rerr' = "EOF" THEN "put object"
                ELSE IF rerr' = "nil" THEN "create" ELSE "done")
      /\ UNCHANGED <<size, queue, closed, uploader, parts, gErr, object>>
    <2>1. rerr' \in {"nil", "EOF", "error"}
        BY <1>1
    <2> QED
        BY <2>1 DEF FirstPart, bucketVars, groupVars
<1>3. pc' \in {"put object", "create", "done"} /\ (pc' = "create" => rerr' = "nil")
    BY <1>2, Zenon
<1>4. ReadSound'
    <2>1. read = 0
        BY <1>2, Zenon DEF FlowInv, ReadSound
    <2>2. read' = (1 - 1) * PartSize + part'.n /\ 1 >= 1
        <3>1. read' = read + part'.n /\ part'.n \in Nat
            BY <1>1, <1>2
        <3> QED
            BY <2>1, <3>1, Numbers
    <2> QED
        BY <1>1, <1>2, <1>3, <2>2, Zenon DEF ReadSound
<1>5. parts = << >> /\ queue = << >> /\ (\A u \in Uploaders : uploader[u].pc # "upload")
      /\ object = NoObject /\ closed = FALSE
    <2>1. parts = << >> /\ object = NoObject /\ ~closed
        BY <1>2, Zenon DEF FlowInv, ExitSound, ObjectSound
    <2>2. queue = << >> /\ \A u \in Uploaders : uploader[u].pc \in {"unborn", "exited"}
        BY <1>2, Zenon DEF UploadInv, QuietSound
    <2>3. closed \in BOOLEAN
        BY Zenon DEF UploadInv, Typed, GroupTyped
    <2> QED
        BY <2>1, <2>2, <2>3
<1>6. FlightSound'
    <2>1. 1 .. Len(queue') = {} /\ 1 .. Len(parts') = {}
        <3>1. queue' = << >> /\ parts' = << >>
            BY <1>2, <1>5, Zenon
        <3> QED
            BY <3>1
    <2> QED
        BY <1>2, <1>5, <2>1, Zenon DEF FlightSound
<1>7. CoverSound'
    BY <1>3, Zenon DEF CoverSound, Multipart
<1>8. ExitSound'
    <2>1. pc' # "complete" /\ ~closed' /\ parts' = << >>
        BY <1>2, <1>3, <1>5
    <2> QED
        BY <1>2, <2>1, Zenon DEF FlowInv, ExitSound
<1>9. ObjectSound'
    BY <1>2, <1>5, NonEmpty, Zenon DEF ObjectSound
<1> QED
    BY <1>4, <1>6, <1>7, <1>8, <1>9 DEF FlowInv

\* The next part: the one before it was full.
LEMMA FlowFill ==
    ASSUME UploadInv, FlowInv, FillPart
    PROVE  FlowInv'
<1>1. part.num \in Nat /\ part.n \in Nat /\ part.num + 1 \in Nat /\ read \in Nat
    BY PartNumbers DEF UploadInv
<1>2. /\ part'.num = part.num + 1 /\ part'.n \in Nat /\ rerr' \in {"nil", "EOF", "error"}
      /\ rerr' = "EOF" => read' = size
      /\ rerr' = "nil" => part'.n = PartSize
    BY <1>1, FillReads DEF FillPart, UploadInv
<1>3. /\ pc = "fill" /\ read' = read + part'.n
      /\ UNCHANGED <<size, queue, closed, uploader, parts, gErr, object>>
    BY DEF FillPart, bucketVars, groupVars
<1>4. (pc' = "send" /\ part'.n > 0 /\ part'.n # 0) \/ (pc' = "close" /\ part'.n = 0)
    <2>1. pc' = (IF part'.n > 0 THEN "send" ELSE "close") /\ part'.n \in Nat
        BY <1>2 DEF FillPart
    <2> QED
        BY <2>1
<1>5. part.num >= 1 /\ part.n = PartSize /\ read = (part.num - 1) * PartSize + part.n
    BY <1>3, Zenon DEF FlowInv, ReadSound
<1>6. ReadSound'
    <2>1. read = (part.num - 1) * PartSize + PartSize
        BY <1>5, Zenon
    <2>2. (part.num - 1) * PartSize + PartSize = part.num * PartSize
        BY <1>1, Numbers
    <2>3. part'.num - 1 = part.num /\ part'.num >= 1 /\ part'.num >= 2
        BY <1>1, <1>2, <1>5
    <2>4. read' = (part'.num - 1) * PartSize + part'.n
        BY <1>3, <2>1, <2>2, <2>3, Zenon
    <2>5. pc' # "first" /\ pc' \notin {"put object", "create", "fill", "wait", "complete"}
        BY <1>4, Zenon
    <2> QED
        BY <1>2, <1>3, <1>4, <2>3, <2>4, <2>5, Zenon DEF ReadSound
<1>7. FlightSound'
    <2>1. ASSUME NEW p \in Part, Cut(p) PROVE Cut(p)'
        <3>1. p.num \in Nat /\ p.num >= 1 /\ p.num <= part.num
            BY <2>1 DEF Part, Cut
        <3>2. p.n = PartSize
            <4>1. p.num < part.num \/ p.num = part.num
                BY <1>1, <3>1
            <4> QED
                BY <1>5, <2>1, <4>1, Zenon DEF Cut
        <3>3. p.num <= part'.num /\ p.num # part'.num
            BY <1>1, <1>2, <3>1
        <3> QED
            BY <3>1, <3>2, <3>3, Zenon DEF Cut
    <2>2. /\ \A i \in 1 .. Len(queue) : queue[i] \in Part
          /\ \A u \in Uploaders : uploader[u].part \in Part
          /\ \A i \in 1 .. Len(parts) : parts[i] \in Part
        BY PartNumbers DEF UploadInv
    <2> QED
        BY <1>3, <2>1, <2>2, Zenon DEF FlowInv, FlightSound
<1>8. CoverSound'
    <2>1. err = "nil"
        BY <1>3, Zenon DEF UploadInv, BucketSound
    <2>2. Sent = part.num
        BY <1>1, <1>3, <1>5, Numbers DEF Sent
    <2>3. Sent' = part'.num - 1
        BY <1>4, Zenon DEF Sent
    <2>4. Sent' = Sent
        BY <1>1, <1>2, <2>2, <2>3
    <2>5. Held = 1 /\ Held' = (IF part'.n = 0 THEN 0 ELSE 1)
        BY <1>3, <1>4 DEF Held
    <2>6. buffers' = buffers - (IF part'.n = 0 THEN 1 ELSE 0)
        BY DEF FillPart
    <2>7. buffers \in Nat
        BY BuffersAreNumbers DEF UploadInv
    <2>8. ASSUME NEW l \in Nat PROVE l + buffers' - Held' = l + buffers - Held
        BY <2>5, <2>6, <2>7
    <2>9. Len(parts) \in Nat
        BY PartNumbers DEF UploadInv
    <2>10. Len(parts') + buffers' - Held' = Len(parts) + buffers - Held
        BY <1>3, <2>8, <2>9, Zenon
    <2>11. \A k : Somewhere(k) => Somewhere(k)'
        BY <1>3, Zenon DEF Somewhere
    <2> QED
        BY <1>3, <2>1, <2>4, <2>10, <2>11, Zenon DEF FlowInv, CoverSound, Multipart
<1>9. ExitSound'
    BY <1>3, <1>4, Zenon DEF FlowInv, ExitSound
<1>10. ObjectSound'
    BY <1>3, <1>4, Zenon DEF FlowInv, ObjectSound
<1> QED
    BY <1>6, <1>7, <1>8, <1>9, <1>10 DEF FlowInv

\* The multipart upload begins with nothing sent.
LEMMA FlowCreate ==
    ASSUME UploadInv, FlowInv, CreateMultipart
    PROVE  FlowInv'
<1>1. /\ pc = "create" /\ pc' = "send"
      /\ uploader' = [u \in Uploaders |-> Waiting]
      /\ UNCHANGED <<size, part, read, rerr, err, queue, closed, parts, gErr, object, buffers>>
    BY DEF CreateMultipart, bodyVars
<1>2. \A u \in Uploaders : uploader'[u].pc = "receive"
    BY <1>1 DEF Waiting
<1>3. /\ part.num = 1 /\ part.n = PartSize /\ parts = << >> /\ queue = << >>
      /\ closed = FALSE /\ object = NoObject
    <2>1. part.num = 1 /\ part.n = PartSize /\ parts = << >> /\ ~closed /\ object = NoObject
        BY <1>1, Zenon DEF FlowInv, ReadSound, ExitSound, ObjectSound
    <2>2. queue = << >>
        BY <1>1, Zenon DEF UploadInv, QuietSound
    <2>3. closed \in BOOLEAN
        BY Zenon DEF UploadInv, Typed, GroupTyped
    <2> QED
        BY <2>1, <2>2, <2>3
<1>4. ReadSound'
    <2>1. part.n > 0
        BY <1>3, Numbers
    <2> QED
        BY <1>1, <1>3, <2>1, Zenon DEF FlowInv, ReadSound
<1>5. FlightSound'
    BY <1>1, <1>2, <1>3 DEF FlightSound
<1>6. CoverSound'
    <2>1. Sent' = 0
        <3>1. part'.num = 1 /\ Sent' = part'.num - 1
            BY <1>1, <1>3, Zenon DEF Sent
        <3> QED
            BY <3>1
    <2>2. Held' = 1 /\ Held = 1
        BY <1>1 DEF Held
    <2>3. buffers = 1
        <3>1. Sending = {} /\ Len(queue) = 0
            BY <1>1, <1>3 DEF UploadInv, QuietSound, Sending
        <3> QED
            BY <2>2, <3>1, FS_EmptySet DEF UploadInv, BuffersSound
    <2>4. Len(parts') = 0
        BY <1>1, <1>3
    <2>5. Len(parts') + buffers' - Held' = Sent' /\ 1 .. Sent' = {}
        BY <1>1, <2>1, <2>2, <2>3, <2>4
    <2> QED
        BY <2>5, Zenon DEF CoverSound
<1>7. ExitSound'
    BY <1>1, <1>2, <1>3 DEF ExitSound
<1>8. ObjectSound'
    BY <1>1, <1>3, NonEmpty, Zenon DEF ObjectSound
<1> QED
    BY <1>4, <1>5, <1>6, <1>7, <1>8 DEF FlowInv

\* One more part is handed over.
LEMMA FlowSend ==
    ASSUME UploadInv, FlowInv, SendPart
    PROVE  FlowInv'
<1>1. /\ pc = "send" /\ pc' = (IF rerr = "nil" THEN "fill" ELSE "close")
      /\ queue' = Append(queue, part)
      /\ UNCHANGED <<size, part, read, rerr, closed, uploader, parts, gErr, object>>
    BY DEF SendPart, bodyVars, bucketVars
<1>2. /\ part.num \in Nat /\ part.n \in Nat /\ part \in Part /\ queue \in Seq(Part)
      /\ Len(parts) \in Nat
    BY PartNumbers DEF UploadInv
<1>3. part.n > 0 /\ part.n # 0 /\ part.num >= 1
    <2>1. part.n > 0 /\ part.num >= 1
        BY <1>1, Zenon DEF FlowInv, ReadSound
    <2> QED
        BY <1>2, <2>1
<1>4. (pc' = "fill" /\ rerr = "nil") \/ (pc' = "close" /\ rerr # "nil")
    BY <1>1, Zenon
<1>5. /\ Len(queue') = Len(queue) + 1 /\ Len(queue) \in Nat
      /\ \A i \in 1 .. Len(queue) : queue'[i] = queue[i]
      /\ queue'[Len(queue) + 1] = part
      /\ \A i \in 1 .. Len(queue') : i \in 1 .. Len(queue) \/ i = Len(queue) + 1
      /\ Len(queue) + 1 \in 1 .. Len(queue')
      /\ \A i \in 1 .. Len(queue) : i \in 1 .. Len(queue')
    <2>1. queue' = Append(queue, part)
        BY <1>1
    <2> QED
        BY <1>2, <2>1
<1>6. ReadSound'
    BY <1>1, <1>3, <1>4, Zenon DEF FlowInv, ReadSound
<1>7. FlightSound'
    <2>1. Cut(part)'
        <3>1. part.num <= part.num /\ ~(part.num < part.num)
            BY <1>2
        <3> QED
            BY <1>1, <1>3, <3>1, Zenon DEF Cut, FlowInv, ReadSound
    <2>2. \A p : Cut(p) => Cut(p)'
        BY <1>1, Zenon DEF Cut
    <2>3. part' = part
        BY <1>1
    <2> QED
        BY <1>1, <1>5, <2>1, <2>2, <2>3, Zenon DEF FlowInv, FlightSound
<1>8. CoverSound'
    <2>1. err = "nil"
        BY <1>1, Zenon DEF UploadInv, BucketSound
    <2>2. Sent = part.num - 1
        BY <1>1, Zenon DEF Sent
    <2>3. Sent' = part.num
        BY <1>1, <1>3, <1>4, Zenon DEF Sent
    <2>4. Held = 1 /\ Held' = (IF rerr = "nil" THEN 1 ELSE 0)
        BY <1>1 DEF Held
    <2>5. buffers' = buffers + (IF rerr = "nil" THEN 1 ELSE 0)
        BY DEF SendPart
    <2>6. buffers \in Nat
        BY BuffersAreNumbers DEF UploadInv
    <2>7. ASSUME NEW l \in Nat, l + buffers - Held = Sent
          PROVE  l + buffers' - Held' = Sent'
        BY <1>2, <2>2, <2>3, <2>4, <2>5, <2>6, <2>7
    <2>8. Len(parts) + buffers - Held = Sent => Len(parts') + buffers' - Held' = Sent'
        BY <1>1, <1>2, <2>7, Zenon
    <2>9. \A k : Somewhere(k) => Somewhere(k)'
        BY <1>1, <1>5, Zenon DEF Somewhere
    <2>10. Somewhere(part.num)'
        BY <1>1, <1>5, Zenon DEF Somewhere
    <2>11. \A k \in 1 .. Sent' : k \in 1 .. Sent \/ k = part.num
        BY <1>2, <2>2, <2>3
    <2>12. part.num' = part.num
        BY <1>1
    <2> QED
        BY <1>1, <2>1, <2>8, <2>9, <2>10, <2>11, <2>12, Zenon
        DEF FlowInv, CoverSound, Multipart
<1>9. ExitSound'
    <2>1. ~closed
        BY <1>1, Zenon DEF FlowInv, ExitSound
    <2> QED
        BY <1>1, <1>4, <2>1, Zenon DEF FlowInv, ExitSound
<1>10. ObjectSound'
    BY <1>1, Zenon DEF FlowInv, ObjectSound
<1> QED
    BY <1>6, <1>7, <1>8, <1>9, <1>10 DEF FlowInv

\* The channel is closed.
LEMMA FlowClose ==
    ASSUME UploadInv, FlowInv, CloseQueue
    PROVE  FlowInv'
<1>1. /\ pc = "close" /\ pc' = "wait" /\ closed' = TRUE
      /\ UNCHANGED <<size, part, read, rerr, err, queue, uploader, parts, gErr, object,
                     buffers>>
    BY DEF CloseQueue, bodyVars, bucketVars
<1>2. ReadSound'
    BY <1>1, Zenon DEF FlowInv, ReadSound
<1>3. FlightSound'
    BY <1>1, FlowStays DEF FlowInv
<1>4. CoverSound'
    <2>1. Sent' = Sent
        BY <1>1, Zenon DEF Sent
    <2>2. Held' = Held
        BY <1>1 DEF Held
    <2>3. \A k : Somewhere(k) => Somewhere(k)'
        BY <1>1, Zenon DEF Somewhere
    <2> QED
        BY <1>1, <2>1, <2>2, <2>3, Zenon DEF FlowInv, CoverSound, Multipart
<1>5. ExitSound'
    BY <1>1, Zenon DEF FlowInv, ExitSound
<1>6. ObjectSound'
    BY <1>1, Zenon DEF FlowInv, ObjectSound
<1> QED
    BY <1>2, <1>3, <1>4, <1>5, <1>6 DEF FlowInv

\* When nothing failed, the uploaders have emptied the channel before g.Wait returns.
LEMMA FlowWait ==
    ASSUME UploadInv, FlowInv, Wait
    PROVE  FlowInv'
<1>1. /\ pc = "wait" /\ pc' = (IF err' # "nil" THEN "abort" ELSE "complete")
      /\ queue' = << >> /\ err' = (IF err # "nil" THEN err ELSE gErr)
      /\ \A u \in Uploaders : uploader[u].pc = "exited"
      /\ UNCHANGED <<size, part, read, rerr, closed, uploader, parts, gErr, object>>
    BY DEF Wait, bodyVars, bucketVars
<1>2. (pc' = "abort" /\ err' # "nil")
      \/ (pc' = "complete" /\ err' = "nil" /\ err = "nil" /\ gErr = "nil")
    BY <1>1, Zenon
<1>3. ReadSound'
    BY <1>1, <1>2, Zenon DEF FlowInv, ReadSound
<1>4. 1 .. Len(queue') = {}
    <2>1. queue' = << >>
        BY <1>1
    <2> QED
        BY <2>1
<1>5. FlightSound'
    <2>1. \A p : Cut(p) => Cut(p)'
        BY <1>1, Zenon DEF Cut
    <2> QED
        BY <1>1, <1>4, <2>1, Zenon DEF FlowInv, FlightSound
<1>6. ASSUME gErr = "nil" PROVE queue = << >> /\ Len(queue) = 0
    <2>1. 1 \in Uploaders
        BY Numbers DEF Uploaders
    <2>2. queue = << >>
        BY <1>1, <1>6, <2>1, Zenon DEF FlowInv, ExitSound
    <2> QED
        BY <2>2
<1>7. CoverSound'
    <2> SUFFICES ASSUME pc' = "complete", err = "nil", gErr = "nil"
                 PROVE  /\ \A k \in 1 .. Sent' : Somewhere(k)'
                        /\ Len(parts') + buffers' - Held' = Sent'
        BY <1>2, Zenon DEF CoverSound, Multipart
    <2>1. Sent' = Sent
        BY <1>1, Zenon DEF Sent
    <2>2. Held' = Held
        BY <1>1 DEF Held
    <2>3. buffers' = buffers
        <3>1. buffers' = buffers - Len(queue)
            BY DEF Wait
        <3>2. buffers \in Nat
            BY BuffersAreNumbers DEF UploadInv
        <3> QED
            BY <1>6, <3>1, <3>2
    <2>4. \A k : Somewhere(k) => Somewhere(k)'
        BY <1>1, <1>6, Zenon DEF Somewhere
    <2> QED
        BY <1>1, <2>1, <2>2, <2>3, <2>4, Zenon DEF FlowInv, CoverSound, Multipart
<1>8. ExitSound'
    BY <1>1, <1>2, Zenon DEF FlowInv, ExitSound
<1>9. ObjectSound'
    BY <1>1, Zenon DEF FlowInv, ObjectSound
<1> QED
    BY <1>3, <1>5, <1>7, <1>8, <1>9 DEF FlowInv

\* A step of an uploader is no step of the producer.
LEMMA FlowUploader ==
    ASSUME FlowInv, UNCHANGED <<bodyVars, pc, object>>,
           FlightSound', CoverSound', ExitSound'
    PROVE  FlowInv'
BY FlowStays DEF FlowInv, bodyVars

\* A part goes from the channel to an uploader.
LEMMA FlowReceive ==
    ASSUME UploadInv, FlowInv, NEW u \in Uploaders, ReceivePart(u)
    PROVE  FlowInv'
<1>1. /\ uploader[u].pc = "receive"
      /\ queue # << >> /\ queue' = Tail(queue)
      /\ uploader' = [uploader EXCEPT ![u] = [pc |-> "upload", part |-> Head(queue)]]
      /\ UNCHANGED <<bodyVars, pc, object, part, err, closed, parts, gErr, buffers>>
    BY DEF ReceivePart, bodyVars, bucketVars
<1>2. /\ uploader'[u].pc = "upload" /\ uploader'[u].part = queue[1]
      /\ \A v \in Uploaders \ {u} : uploader'[v] = uploader[v]
    <2>1. uploader \in [Uploaders -> [pc : {"unborn", "receive", "upload", "exited"},
                                      part : Part]]
        BY Zenon DEF UploadInv, Typed, GroupTyped
    <2>2. uploader' = [uploader EXCEPT ![u] = [pc |-> "upload", part |-> Head(queue)]]
        BY <1>1
    <2>3. Head(queue) = queue[1]
        <3>1. queue \in Seq(Part) /\ queue # << >>
            BY <1>1, PartNumbers DEF UploadInv
        <3> QED
            BY <3>1
    <2> QED
        BY <2>1, <2>2, <2>3
<1>3. /\ 1 \in 1 .. Len(queue)
      /\ \A i \in 1 .. Len(queue') : i + 1 \in 1 .. Len(queue) /\ queue'[i] = queue[i + 1]
      /\ \A i \in 1 .. Len(queue) :
             i = 1 \/ (i - 1 \in 1 .. Len(queue') /\ queue'[i - 1] = queue[i])
    <2>1. queue \in Seq(Part)
        BY PartNumbers DEF UploadInv
    <2>2. queue # << >> /\ queue' = Tail(queue)
        BY <1>1
    <2> QED
        BY <2>1, <2>2
<1>4. FlightSound'
    <2>1. \A i \in 1 .. Len(queue') : Cut(queue'[i])
        BY <1>3, Zenon DEF FlowInv, FlightSound
    <2>2. \A v \in Uploaders : uploader'[v].pc = "upload" => Cut(uploader'[v].part)
        BY <1>2, <1>3, Zenon DEF FlowInv, FlightSound
    <2> QED
        BY <1>1, <2>1, <2>2, Zenon DEF FlowInv, FlightSound, Cut
<1>5. CoverSound'
    <2>1. Sent' = Sent /\ Held' = Held
        BY <1>1, Zenon DEF Sent, Held
    <2>2. ASSUME NEW k, Somewhere(k) PROVE Somewhere(k)'
        <3>1. CASE \E i \in 1 .. Len(queue) : queue[i].num = k
            <4>1. PICK i \in 1 .. Len(queue) : queue[i].num = k
                BY <3>1
            <4> QED
                BY <1>2, <1>3, <4>1, Zenon DEF Somewhere
        <3>2. CASE \E v \in Uploaders : uploader[v].pc = "upload" /\ uploader[v].part.num = k
            <4>1. PICK v \in Uploaders : uploader[v].pc = "upload" /\ uploader[v].part.num = k
                BY <3>2
            <4>2. v # u
                BY <1>1, <4>1
            <4> QED
                BY <1>2, <4>1, <4>2, Zenon DEF Somewhere
        <3>3. CASE \E i \in 1 .. Len(parts) : parts[i].num = k
            BY <1>1, <3>3, Zenon DEF Somewhere
        <3> QED
            BY <2>2, <3>1, <3>2, <3>3, Zenon DEF Somewhere
    <2> QED
        BY <1>1, <2>1, <2>2, Zenon DEF FlowInv, CoverSound
<1>6. ExitSound'
    <2>1. \A v \in Uploaders : uploader'[v].pc = "exited" =>
              v # u /\ uploader[v].pc = "exited"
        BY <1>2
    <2>2. ~(closed /\ queue = << >>)
        BY <1>1, Zenon
    <2> QED
        BY <1>1, <2>1, <2>2, Zenon DEF FlowInv, ExitSound
<1> QED
    BY <1>1, <1>4, <1>5, <1>6, FlowUploader

\* What one uploader's step leaves of the others.
LEMMA OthersStay ==
    ASSUME UploadInv, NEW u \in Uploaders, NEW g,
           uploader' = [uploader EXCEPT ![u] = g]
    PROVE  uploader'[u] = g /\ \A v \in Uploaders \ {u} : uploader'[v] = uploader[v]
<1>1. uploader \in [Uploaders -> [pc : {"unborn", "receive", "upload", "exited"},
                                  part : Part]]
    BY Zenon DEF UploadInv, Typed, GroupTyped
<1> QED
    BY <1>1

\* A part is in the bucket.
LEMMA FlowUpload ==
    ASSUME UploadInv, FlowInv, NEW u \in Uploaders, UploadPart(u)
    PROVE  FlowInv'
<1>1. /\ uploader[u].pc = "upload"
      /\ parts' = Append(parts, uploader[u].part)
      /\ uploader' = [uploader EXCEPT ![u] = Waiting]
      /\ UNCHANGED <<bodyVars, pc, object, part, err, closed, queue, gErr>>
    BY DEF UploadPart, bodyVars, bucketVars
<1>2. /\ uploader'[u].pc = "receive"
      /\ \A v \in Uploaders \ {u} : uploader'[v] = uploader[v]
    <2>1. Waiting.pc = "receive"
        BY DEF Waiting
    <2> QED
        BY <1>1, <2>1, OthersStay
<1>3. parts \in Seq(Part) /\ uploader[u].part \in Part
    BY PartNumbers DEF UploadInv
<1>4. /\ Len(parts') = Len(parts) + 1 /\ Len(parts) \in Nat
      /\ \A i \in 1 .. Len(parts) : i \in 1 .. Len(parts') /\ parts'[i] = parts[i]
      /\ parts'[Len(parts) + 1] = uploader[u].part
      /\ \A i \in 1 .. Len(parts') : i \in 1 .. Len(parts) \/ i = Len(parts) + 1
      /\ Len(parts) + 1 \in 1 .. Len(parts')
    <2>1. parts' = Append(parts, uploader[u].part)
        BY <1>1
    <2> QED
        BY <1>3, <2>1
<1>5. FlightSound'
    <2>1. \A i \in 1 .. Len(parts') : Cut(parts'[i])
        BY <1>1, <1>4, Zenon DEF FlowInv, FlightSound
    <2>2. \A v \in Uploaders : uploader'[v].pc = "upload" =>
              v # u /\ uploader'[v] = uploader[v]
        BY <1>2
    <2> QED
        BY <1>1, <2>1, <2>2, Zenon DEF FlowInv, FlightSound, Cut
<1>6. CoverSound'
    <2>1. Sent' = Sent /\ Held' = Held
        BY <1>1, Zenon DEF Sent, Held
    <2>2. ASSUME NEW k, Somewhere(k) PROVE Somewhere(k)'
        <3>1. CASE \E i \in 1 .. Len(queue) : queue[i].num = k
            BY <1>1, <3>1, Zenon DEF Somewhere
        <3>2. CASE \E v \in Uploaders : uploader[v].pc = "upload" /\ uploader[v].part.num = k
            <4>1. PICK v \in Uploaders : uploader[v].pc = "upload" /\ uploader[v].part.num = k
                BY <3>2
            <4>2. CASE v = u
                BY <1>4, <4>1, <4>2, Zenon DEF Somewhere
            <4>3. CASE v # u
                BY <1>2, <4>1, <4>3, Zenon DEF Somewhere
            <4> QED
                BY <4>2, <4>3
        <3>3. CASE \E i \in 1 .. Len(parts) : parts[i].num = k
            BY <1>4, <3>3, Zenon DEF Somewhere
        <3> QED
            BY <2>2, <3>1, <3>2, <3>3, Zenon DEF Somewhere
    <2>3. Len(parts') + buffers' - Held' = Len(parts) + buffers - Held
        <3>1. buffers' = buffers - 1
            BY DEF UploadPart
        <3>2. buffers \in Nat /\ Held \in Nat
            BY BuffersAreNumbers DEF UploadInv, Held
        <3>3. Len(parts') = Len(parts) + 1 /\ Len(parts) \in Nat
            BY <1>4
        <3>4. Held' = Held
            BY <2>1
        <3> QED
            BY <3>1, <3>2, <3>3, <3>4
    <2> QED
        BY <1>1, <2>1, <2>2, <2>3, Zenon DEF FlowInv, CoverSound
<1>7. ExitSound'
    <2>1. \A v \in Uploaders : uploader'[v].pc = "exited" =>
              v # u /\ uploader[v].pc = "exited"
        BY <1>2
    <2>2. pc \notin {"first", "put object", "create"}
        BY <1>1 DEF UploadInv, QuietSound
    <2> QED
        BY <1>1, <2>1, <2>2, Zenon DEF FlowInv, ExitSound
<1> QED
    BY <1>1, <1>5, <1>6, <1>7, FlowUploader

\* An uploader fails: from now on nothing is complete.
LEMMA FlowFails ==
    ASSUME UploadInv, FlowInv, NEW u \in Uploaders, UploadPartFails(u)
    PROVE  FlowInv'
<1>1. /\ uploader[u].pc = "upload"
      /\ uploader' = [uploader EXCEPT ![u] = [uploader[u] EXCEPT !.pc = "exited"]]
      /\ UNCHANGED <<bodyVars, pc, object, part, err, closed, queue, parts>>
    BY Zenon DEF UploadPartFails, bodyVars, bucketVars
<1>2. gErr' # "nil"
    <2>1. gErr' = IF gErr = "nil" THEN CallError(Cancelled) ELSE gErr
        BY Zenon DEF UploadPartFails
    <2>2. CallError(Cancelled) # "nil"
        BY DEF CallError
    <2> QED
        BY <2>1, <2>2, Zenon
<1>3. /\ uploader'[u].pc = "exited"
      /\ \A v \in Uploaders \ {u} : uploader'[v] = uploader[v]
    <2>1. uploader \in [Uploaders -> [pc : {"unborn", "receive", "upload", "exited"},
                                      part : Part]]
        BY Zenon DEF UploadInv, Typed, GroupTyped
    <2>2. uploader' = [uploader EXCEPT ![u] = [uploader[u] EXCEPT !.pc = "exited"]]
        BY <1>1
    <2> QED
        BY <2>1, <2>2
<1>4. FlightSound'
    <2>1. \A v \in Uploaders : uploader'[v].pc = "upload" =>
              v # u /\ uploader'[v] = uploader[v]
        BY <1>3
    <2> QED
        BY <1>1, <2>1, Zenon DEF FlowInv, FlightSound, Cut
<1>5. CoverSound'
    BY <1>2, Zenon DEF CoverSound
<1>6. ExitSound'
    <2>1. pc \notin {"first", "put object", "create", "complete"}
        BY <1>1 DEF UploadInv, QuietSound
    <2> QED
        BY <1>1, <1>2, <2>1, Zenon DEF FlowInv, ExitSound
<1> QED
    BY <1>1, <1>4, <1>5, <1>6, FlowUploader

\* An uploader ends when the channel is closed and empty.
LEMMA FlowExit ==
    ASSUME UploadInv, FlowInv, NEW u \in Uploaders, ExitUploader(u)
    PROVE  FlowInv'
<1>1. /\ uploader[u].pc = "receive" /\ queue = << >> /\ closed
      /\ uploader' = [uploader EXCEPT ![u] = [uploader[u] EXCEPT !.pc = "exited"]]
      /\ UNCHANGED <<bodyVars, pc, object, part, err, closed, queue, parts, gErr, buffers>>
    BY Zenon DEF ExitUploader, bodyVars, bucketVars
<1>2. /\ uploader'[u].pc = "exited"
      /\ \A v \in Uploaders \ {u} : uploader'[v] = uploader[v]
    <2>1. uploader \in [Uploaders -> [pc : {"unborn", "receive", "upload", "exited"},
                                      part : Part]]
        BY Zenon DEF UploadInv, Typed, GroupTyped
    <2>2. uploader' = [uploader EXCEPT ![u] = [uploader[u] EXCEPT !.pc = "exited"]]
        BY <1>1
    <2> QED
        BY <2>1, <2>2
<1>3. \A v \in Uploaders : uploader'[v].pc = "upload" <=> uploader[v].pc = "upload"
    BY <1>1, <1>2
<1>4. \A v \in Uploaders : uploader[v].pc = "upload" => uploader'[v] = uploader[v]
    BY <1>1, <1>2
<1>5. FlightSound'
    BY <1>1, <1>3, <1>4, Zenon DEF FlowInv, FlightSound, Cut
<1>6. CoverSound'
    <2>1. Sent' = Sent /\ Held' = Held
        BY <1>1, Zenon DEF Sent, Held
    <2>2. \A k : Somewhere(k) => Somewhere(k)'
        BY <1>1, <1>3, <1>4, Zenon DEF Somewhere
    <2> QED
        BY <1>1, <2>1, <2>2, Zenon DEF FlowInv, CoverSound
<1>7. ExitSound'
    BY <1>1, Zenon DEF FlowInv, ExitSound
<1> QED
    BY <1>1, <1>5, <1>6, <1>7, FlowUploader

\* A step that touches nothing of this.
LEMMA FlowIdle ==
    ASSUME FlowInv, UNCHANGED <<bodyVars, groupVars, pc, err, object, buffers>>
    PROVE  FlowInv'
<1>1. UNCHANGED <<size, part, read, rerr, queue, closed, uploader, parts, gErr>>
    BY DEF bodyVars, groupVars
<1>2. FlightSound' /\ ExitSound'
    BY <1>1, FlowStays, Zenon DEF FlowInv, ExitSound
<1>3. CoverSound'
    <2>1. Sent' = Sent /\ Held' = Held
        BY <1>1, Zenon DEF Sent, Held
    <2>2. \A k : Somewhere(k) => Somewhere(k)'
        BY <1>1, Zenon DEF Somewhere
    <2> QED
        BY <1>1, <2>1, <2>2, Zenon DEF FlowInv, CoverSound
<1> QED
    BY <1>2, <1>3, FlowUploader

-----------------------------------------------------------------------------
(* The object is whole                                                     *)

\* At first nothing has been read, sent or stored.
LEMMA FlowInvInit == UploadInit => FlowInv
<1> SUFFICES ASSUME UploadInit PROVE FlowInv
    OBVIOUS
<1>1. /\ pc = "first" /\ read = 0 /\ rerr = "nil" /\ queue = << >> /\ parts = << >>
      /\ object = NoObject /\ closed = FALSE
      /\ uploader = [u \in Uploaders |-> [Waiting EXCEPT !.pc = "unborn"]]
    BY DEF UploadInit
<1>2. \A u \in Uploaders : uploader[u].pc = "unborn"
    BY <1>1 DEF Waiting
<1>3. 1 .. Len(queue) = {} /\ 1 .. Len(parts) = {}
    <2>1. queue = << >> /\ parts = << >>
        BY <1>1
    <2> QED
        BY <2>1
<1>4. ReadSound
    BY <1>1, Zenon DEF ReadSound
<1>5. FlightSound
    BY <1>2, <1>3, Zenon DEF FlightSound
<1>6. CoverSound
    BY <1>1, Zenon DEF CoverSound, Multipart
<1>7. ExitSound
    BY <1>1, <1>2, Zenon DEF ExitSound
<1>8. ObjectSound
    BY <1>1, NonEmpty, Zenon DEF ObjectSound
<1> QED
    BY <1>4, <1>5, <1>6, <1>7, <1>8 DEF FlowInv

\* Every step keeps the parts in order.
LEMMA FlowInvNext == UploadInv /\ FlowInv /\ [UploadNext]_uvars => FlowInv'
<1> SUFFICES ASSUME UploadInv, FlowInv, [UploadNext]_uvars PROVE FlowInv'
    OBVIOUS
<1>1. CASE PutNext
    BY <1>1, FlowFirst, FlowFill, FlowCreate, FlowSend, FlowClose, FlowWait, FlowCalls
    DEF PutNext
<1>2. ASSUME NEW u \in Uploaders, UploaderNext(u) PROVE FlowInv'
    BY <1>2, FlowReceive, FlowUpload, FlowFails, FlowExit DEF UploaderNext
<1>3. CASE HangUp
    <2>1. UNCHANGED <<bodyVars, groupVars, pc, err, object, buffers>>
        BY <1>3 DEF HangUp, bucketVars
    <2> QED
        BY <2>1, FlowIdle
<1>4. CASE UNCHANGED uvars
    <2>1. UNCHANGED <<bodyVars, groupVars, pc, err, object, buffers>>
        BY <1>4 DEF uvars, bucketVars
    <2> QED
        BY <2>1, FlowIdle
<1> QED
    BY <1>1, <1>2, <1>3, <1>4 DEF UploadNext, Done

\* Both invariants hold in every reachable state.
LEMMA FlowInvHolds == UploadSpec => [](UploadInv /\ FlowInv)
BY UploadInvInit, UploadInvNext, FlowInvInit, FlowInvNext, PTL DEF UploadSpec

\* Every variable of Put keeps its type.
THEOREM UploadTyped == UploadSpec => []UploadTypeOK
<1>1. UploadInv /\ FlowInv => UploadTypeOK
    BY BuffersAreNumbers, TypedIs DEF UploadInv, FlowInv, ObjectSound
<1> QED
    BY <1>1, FlowInvHolds, PTL

\* What a step does to the object and to what Put returns: an object appears once and
\* before Put returns, and without an error only when it is there.
LEMMA StepShape ==
    ASSUME UploadInv, FlowInv, UploadNext
    PROVE  \/ UNCHANGED <<pc, err, object>>
           \/ /\ pc # "done"
              /\ object' = object \/ object = NoObject
              /\ pc' = "done" /\ err' = "nil" => object' # NoObject
<1>1. CASE PutObject
    <2>1. /\ pc = "put object" /\ pc' = "done" /\ object' = <<part>>
          /\ object' \in {NoObject, <<part>>} /\ UNCHANGED size
        BY <1>1, Zenon DEF PutObject, bodyVars
    <2>2. object' # NoObject
        BY <2>1, OnePiece, Zenon
    <2>3. object = NoObject
        BY <2>1, Zenon DEF FlowInv, ObjectSound
    <2> QED
        BY <2>1, <2>2, <2>3, Zenon
<1>2. CASE PutObjectFails
    <2>1. pc = "put object" /\ err' # "nil"
        BY <1>2 DEF PutObjectFails, CallError
    <2>2. object = NoObject
        BY <2>1, Zenon DEF FlowInv, ObjectSound
    <2> QED
        BY <2>1, <2>2, Zenon
<1>3. CASE CompleteMultipart
    <2>1. /\ pc = "complete" /\ pc' \in {"abort", "done"} /\ object' = Manifest
          /\ object' \in {object, Manifest} /\ UNCHANGED size
        BY <1>3, Zenon DEF CompleteMultipart, bodyVars
    <2>2. object' # NoObject
        BY <2>1, AllPieces, Zenon
    <2>3. object = NoObject
        BY <2>1, Zenon DEF FlowInv, ObjectSound
    <2> QED
        BY <2>1, <2>2, <2>3, Zenon
<1>4. CASE CompleteMultipartFails
    <2>1. pc = "complete" /\ err' # "nil"
        BY <1>4, Zenon DEF CompleteMultipartFails, CallError
    <2>2. object = NoObject
        BY <2>1, Zenon DEF FlowInv, ObjectSound
    <2> QED
        BY <2>1, <2>2, Zenon
<1>5. CASE FirstPart
    <2>1. rerr' \in {"nil", "EOF", "error"}
        BY <1>5, FillReads DEF FirstPart, UploadInv
    <2>2. pc = "first" /\ object' = object /\ (pc' = "done" => err' # "nil")
        BY <1>5, <2>1 DEF FirstPart, bucketVars
    <2> QED
        BY <2>2, Zenon
<1>6. CASE CreateMultipartFails
    BY <1>6 DEF CreateMultipartFails, CallError
<1>7. CASE CreateMultipart \/ SendPart \/ SendCancelled \/ CloseQueue \/ Wait
    <2>1. /\ pc \in {"create", "send", "close", "wait"} /\ pc' # "done"
          /\ object' = object
        BY <1>7 DEF CreateMultipart, SendPart, SendCancelled, CloseQueue, Wait, bucketVars
    <2> QED
        BY <2>1
<1>8. CASE FillPart
    <2>1. /\ pc = "fill" /\ object' = object
          /\ pc' = (IF part'.n > 0 THEN "send" ELSE "close")
        BY <1>8, Zenon DEF FillPart, bucketVars
    <2>2. pc' # "done"
        BY <2>1
    <2> QED
        BY <2>1, <2>2, Zenon
<1>9. CASE Abort \/ AbortFails
    <2>1. pc = "abort" /\ object' = object /\ err' = err
        BY <1>9, Zenon DEF Abort, AbortFails
    <2>2. err # "nil"
        BY <2>1, Zenon DEF UploadInv, BucketSound
    <2> QED
        BY <2>1, <2>2, Zenon
<1>10. ASSUME NEW u \in Uploaders, UploaderNext(u) PROVE UNCHANGED <<pc, err, object>>
    BY <1>10, Zenon
    DEF UploaderNext, ReceivePart, ExitUploader, UploadPart, UploadPartFails, bucketVars
<1>11. CASE HangUp \/ Done
    BY <1>11, Zenon DEF HangUp, Done, uvars, bucketVars
<1> QED
    BY <1>1, <1>2, <1>3, <1>4, <1>5, <1>6, <1>7, <1>8, <1>9, <1>10, <1>11
    DEF UploadNext, PutNext

\* Put keeps the promise ObjectPut states, apart from that it returns: an object
\* appears whole, at most once and while Put runs, whichever part is uploaded first
\* and whichever call fails, and Put reports success only with the object there.
THEOREM PutKeepsItsPromise == UploadSpec => Put!PutSafety
<1>1. UploadInit => Put!PutInit
    BY DEF UploadInit, Put!PutInit, Stored, Result
<1>2. UploadInv /\ FlowInv /\ FlowInv' /\ [UploadNext]_uvars
          => [Put!PutStep]_(Put!putVars)
    <2> SUFFICES ASSUME UploadInv, FlowInv, FlowInv', [UploadNext]_uvars
                 PROVE  [Put!PutStep]_(Put!putVars)
        OBVIOUS
    <2>1. Stored = IF object = NoObject THEN "no" ELSE "whole"
        BY Zenon DEF FlowInv, ObjectSound, Stored
    <2>2. Stored' = IF object' = NoObject THEN "no" ELSE "whole"
        BY Zenon DEF FlowInv, ObjectSound, Stored
    <2>3. CASE UNCHANGED <<pc, err, object>>
        <3>1. Stored' = Stored /\ Result' = Result
            BY <2>1, <2>2, <2>3, Zenon DEF Result
        <3> QED
            BY <3>1, Zenon DEF Put!putVars
    <2>4. CASE /\ pc # "done"
               /\ object' = object \/ object = NoObject
               /\ pc' = "done" /\ err' = "nil" => object' # NoObject
        <3>1. Result = "none" /\ Stored' \in {Stored, "whole"}
            BY <2>1, <2>2, <2>4, Zenon DEF Result
        <3>2. CASE pc' = "done"
            <4>1. /\ Result' \in {"ok", "error"}
                  /\ Result' = "ok" => Stored' = "whole"
                BY <2>2, <2>4, <3>2, Zenon DEF Result
            <4>2. Put!Return(Result')
                BY <3>1, <4>1, Zenon DEF Put!Return
            <4> QED
                BY <4>1, <4>2, Zenon DEF Put!PutStep
        <3>3. CASE pc' # "done" /\ object' = object
            <4>1. Stored' = Stored /\ Result' = Result
                BY <2>1, <2>2, <2>4, <3>3, Zenon DEF Result
            <4> QED
                BY <4>1, Zenon DEF Put!putVars
        <3>4. CASE pc' # "done" /\ object' # object
            <4>1. object = NoObject /\ object' # NoObject
                BY <2>4, <3>4, Zenon
            <4>2. Stored = "no" /\ Stored' = "whole" /\ Result' = Result
                BY <2>1, <2>2, <2>4, <3>4, <4>1, Zenon DEF Result
            <4> QED
                BY <3>1, <4>2, Zenon DEF Put!PutStep, Put!Appear
        <3> QED
            BY <3>2, <3>3, <3>4, Zenon
    <2>5. CASE UNCHANGED uvars
        <3>1. UNCHANGED <<pc, err, object>>
            BY <2>5 DEF uvars, bucketVars
        <3> QED
            BY <2>3, <3>1
    <2> QED
        BY <2>3, <2>4, <2>5, StepShape
<1> QED
    BY <1>1, <1>2, FlowInvHolds, PTL DEF UploadSpec, Put!PutSafety
=============================================================================
