# Verification of the payload service

TLA+ models, TLC runs and TLAPS proofs for the payload service: an HTTP API that
streams submissions into object storage, a Postgres table that is also the job
queue, and workers that hand each job to an external processor. Paths below are
relative to the repository root.

## 1. The system

| Component | State | Operations | Interacts through |
|---|---|---|---|
| Job repository (`internal/storage/postgres/jobs.go`, `migrations/`) | table `jobs` | Create, GetByIdempotencyKey, ClaimBatch, ExtendLease, Complete, Retry, Fail, ReapExpired, reads | one SQL statement per call; shared by all replicas |
| Worker (`internal/worker/worker.go`) | `jobsCh`, goroutines, timers, per replica | pollOnce, workerLoop/process, heartbeat, reaperLoop, Stop/releaseQueued | the table; the processor; the signal context |
| Server (`cmd/server/main.go`) | signal context, `draining` | run, shutdown | starts and stops worker and HTTP server; readiness probe |
| Migrations runner (`internal/storage/postgres/migrate.go`) | Postgres' advisory lock, goose's version table | Migrate | all replicas at start |
| Submission handler (`internal/api/http/handlers.go`) | `uploadSlots`, one goroutine per request | CreateJob, attachFile, acquireUploadSlot | the service; the client's connection and its context |
| Job service (`internal/service/job.go`) | the Draft of a request | AttachFile, Commit, Discard, deleteQuietly | object store, then table |
| Object store client (`internal/storage/s3/store.go`) | buffer pool, part queue, errgroup per upload | Put, Delete, EnsureBucket, PresignGet | the bucket |
| Processor client (`internal/processor/http.go`) | retry loop of one call | Process, doOnce | the processor |
| Mock processor (`cmd/mockprocessor/main.go`) | bounded replay cache | process, cached, remember | presigned URLs |
| File validation (`internal/api/http/mime.go`) | the size-capped reader of a file | ValidateFile, Read | between the body and Put |
| Auth, routing, config, observability | none that a property is about | | |

What is hard here: claims by several replicas against one table whose updates are
not fenced by owner; leases against heartbeats; claims that travel through a
channel where nothing renews them; a shutdown that cancels everything at once;
replies that are lost after the statement committed; an object and a row that
cannot be written atomically; a producer and uploaders that cancel each other;
retries of a call whose first attempt is still being served; replicas that start
together; a drain that races the load balancer.
`PROJECT.json` lists these hazards line by line with the property that watches
each one.

What makes each part correct:

* repository: rows never contradict themselves, finished jobs stay finished,
  every run is counted, keys are unique, and a client sees the documented life
  cycle;
* worker: a claim is in one place, nothing claimed is forgotten, a live replica
  keeps its jobs, outcomes are recorded, every job settles;
* ingest: equal keys get one job, a 202 is a stored job, rows and objects belong
  together, slots are accounted for, every request ends;
* object store: memory is bounded, buffers return, an object is whole, the size
  limit is exact, no upload is left open, Put returns;
* processor: a summary means that the work was done, an error is permanent only
  when trying again is of no use, a call returns in bounded time, the replay cache
  is what it claims to be;
* server: a migration runs once, nobody serves before everything is set up, no
  quick request is cut off by a shutdown, the listener outlives the balancer's
  interest, every replica settles.

## 2. Modules

| Module | Extends | Models |
|---|---|---|
| `JobTable` | | one row; each statement's WHERE as a predicate and SET as an operator |
| `JobQueue` | JobTable | `JobRepo`: the table, one atomic action per method, any caller at any time |
| `JobLifecycle` | | abstract specification: what a polling client may see |
| `JobQueueProofs` | JobQueue | theorems about the queue |
| `Worker` | JobQueue | all replicas' pollers, goroutines, heartbeats, reapers, shutdown, crash, restart |
| `WorkerProofs` | Worker, JobQueueProofs | theorems about the worker tier: types, the table |
| `WorkerClaimProofs` | WorkerProofs | theorems about where claims are kept |
| `WorkerLeaseProofs` | WorkerClaimProofs | theorems about what becomes of claims and leases |
| `Ingest` | JobQueue | CreateJob, Draft, upload slots, the bucket as a set of objects |
| `IngestProofs` | Ingest, JobQueueProofs | theorems about submissions |
| `MultipartUpload` | | one `Store.Put` of unknown length with its goroutines, the capped reader and the bucket |
| `ObjectPut` | | abstract specification: what the caller of Put may rely on |
| `UploadProofs` | MultipartUpload | theorems about one upload |
| `Processor` | | calls of `HTTPClient.Process` and the mock processor with its replay cache |
| `ProcessorProofs` | Processor | theorems about the calls and the cache |
| `Server` | | the replicas from start to exit: lock, migrations, bucket, readiness, drain |
| `ServerProofs` | Server | theorems about start and shutdown |

`Worker` and `Ingest` are compositions: both act on the `jobs` variable of
`JobQueue` only through its actions, so the table they share is the same model.
The other modules meet at their interfaces: `AttachFile` and `PutFails` of `Ingest`
are the two ways in which `ObjectPut` returns, which `MultipartUpload` implements;
`MaxRun` of `Worker` is what `CallTimeBounded` of `Processor` bounds; `WorkerQuiet`
and `Released` of `Server` are the end of `Worker`'s shutdown, of which `Server` only
says that it comes.
Definitions named "Mutant of X" state a plausible slip in X; no specification
uses them. They exist to show that each property can fail.

### How state and actions correspond to the code

*Time in the table.* A timestamp column holds the ticks left until that time
(`Aged` is one tick of `NOW()`), so `lease_until < NOW()` is `lease_until < 0`.
Both count down only until they are passed. The worker's clock is `ClockLag` ticks
behind the database's: a claim or a heartbeat that writes `time.Now()` plus the
lease grants that much less (`LeaseUntil`). The theorems hold for every lag below
one lease, negative ones included.

*Rows.* Columns no property distinguishes are left out (text, sizes, names,
traces, `updated_at`). `error_message` is a set of origins. Job ids are numbered
in the order of `created_at`, the order of the claim; `Create` may insert any
absent id because `created_at` is stamped before the INSERT.

*Worker.* `phase` is the replica's process and signal context; `free` is the local
variable of `pollOnce` between reading `len(jobsCh)` and the claim; `batch` the
claimed jobs not sent yet; `jobsCh` the channel; `slot` the goroutines.
`RunJob` stands for `runJob`, `Record` and `RecordFails` for what `process` and
`recordFailure` do under `finalCtx`. `elapsed` runs from the entry of `process`,
where `finalCtx` is created. Sigterm cancels the one context everything hangs on.
A claim carries the row's `attempts`, which tells two claims of a job apart.

*Ticks in Worker.* A tick waits for what is due on a healthy replica: local steps
and single statements take less than a tick, tickers fire on time, a processor
call ends within `MaxRun`. Everything else is a fault that uses up `MaxFaults`:
a crash, a stalled process, a statement that fails, a reply that is lost.

*Ingest.* A request is named by the id its draft would get. Each remote call is
a step. `CallFails` lets a call fail by a fault, or freely when the client is gone
and the context cancelled. `deleteQuietly` has its own context and may fail only
by a fault. `CommitFails` covers both an INSERT that failed and one that committed
without its caller learning of it (`MaxLostInserts`). A part is a text, a file or
something refused. A client may stop sending and keep its connection (`Stall`):
every read of the body then waits (`ReadReturns`), also the one in `part.Close`
that comes before an error answer (`ClosePart`). `struck` remembers which
requests a fault has met, so that the others still owe a clean bucket.

*MultipartUpload.* The body is `size` units; `Fill` is `fill` reading through the
capped reader, including a reader that reports EOF or an error together with the
last bytes. Buffers are counted. Calls to the bucket succeed, fail, or succeed and
report an error; an upload whose opening was reported as an error is "unknown" to
Put. The known-size branches of `Put` are left out: the handler always passes a
size hint of 0 (which also means `S3_MULTIPART_THRESHOLD` has no effect).

*Processor.* A call is at `doOnce`'s send, waits for an answer, or backs off. A
request becomes a member of `handlers` and is worked on whether or not its client
still waits; its `status` is 0 before the cache was asked, 1 while the payload is
fetched, then the answer. `Remember` is one critical section, the lookup another.
The jitter is drawn when the backoff ends, which allows the same waits. Two errors
come before anything is sent, and both are permanent: the payload cannot be encoded
(the second disjunct of `Process`; json.Marshal has no reason to fail for this
struct, the path is there all the same), or no request can be built (`BuildFails`;
MOCK_PROCESSOR_URL is only checked for being there). `sendable` says whether a
request can be built, and keeps its value when the call has returned.

*Server.* `pc` is the line of `run` or `shutdown` a replica has reached, `clock` the
time since `shutdown` was called. goose reads its version table and applies
migrations without looking at the lock, which another session holds. The balancer
follows `/readyz`: for the replicas in `Watched` within `NoticeTime`, for the others
at some time. Only the drain delay and `shutdownCtx` end by the clock: `wg.Wait` in
`Worker.Stop` and the deferred `pool.Close` have no timeout, so nothing is said about
how long a replica takes to exit, only that it does. Where `run` returns early its
deferred calls are part of the step.

## 3. Runs

Passing runs (distinct states, seconds with two TLC workers):

| Run | States | Shows |
|---|---|---|
| `queue` | 43,681 / 5 s | RepoTypeOK, RowsConsistent, KeysUnique, FinishedJobsFrozen, EveryRunCounted; the table implements JobLifecycle |
| `worker_faults` | 79,830 / 25 s | TypeOK, ClaimHeldOnce, EveryJobSettles; the workers implement JobQueue |
| `worker_replica` | 218,252 / 10 s | PollerHasRoom, NoClaimForgotten, NeverReapedAlive, OutcomeRecorded |
| `ingest` | 642,974 / 90 s | IngestTypeOK, SameKeySameJob, AcceptedIsStored, NoDanglingObject, NoOrphanObject, SlotsAccounted, EveryRequestEnds |
| `upload` | 176,394 / 10 s | UploadTypeOK, BuffersBounded, BuffersReturned, NoUploadLeftOpen, LimitExact; MultipartUpload implements ObjectPut |
| `processor` | 751,504 / 120 s | ProcessorTypeOK, CacheExact, OkMeansProcessed, PermanentMeansHopeless, CallTimeBounded, CallReturns |
| `server` | 572,926 / 60 s | ServerTypeOK, MigratedOnce, ServesOnlyWhenSetUp, NoRequestCutOff, NoticedBeforeClosed, EveryReplicaSettles |

Runs in which the code contradicts its own documentation (TLC finds the trace):

| Run | Property | The trace |
|---|---|---|
| `attempts_unbounded` | AttemptsBounded | claim, crash, lease expires, reap, claim again: beyond MAX_ATTEMPTS |
| `final_ctx_expired` | OutcomeRecorded | a run longer than finalCtx's 15 s (a call may take 3 x 30 s) ends with its outcome unrecorded |
| `queued_job_reaped` | NeverReapedAlive | a claim waits in `jobsCh` behind a long run until its lease is gone |
| `lost_insert_reply` | RowsHaveObjects | the INSERT commits, its reply is lost, Commit deletes the object |
| `canceled_by_store` | CanceledMeansHungUp | a part fails, the producer returns gctx's context.Canceled, writeError stays silent and the client gets an empty 200 |

`OutcomeRecorded` and `NeverReapedAlive` occur in both tables: the passing run has
the settings under which the code keeps the promise (runs shorter than finalCtx; an
idle goroutine for every claimed job), the other one the settings under which it
does not. Together they say where the line is.

Observations made while modelling that have no run of their own:

* worker: a SIGTERM between claim and send leaves the claimed rows in `processing`
  until their lease expires (README.md promises a release); `releaseQueued` calls
  Retry with MAX_ATTEMPTS, so a job on its last attempt that was never started is
  failed instead of released; SIGTERM cancels the processor call of a running job,
  which is then recorded as a failed attempt, although the comment on `shutdown`
  speaks of jobs that finish; `Stop`'s context does not bound the final drain
  (`WithoutCancel`); Complete, Retry, Fail and ExtendLease do not compare
  `locked_by`, so a worker that lost its claim still decides the outcome (at most
  once, which FinishedJobsFrozen says); with a clock more than half a lease behind,
  NeverReapedAlive fails;
* ingest: a crash between upload and INSERT leaves an object nothing sweeps; a
  request that is shed with 503 first reads the rest of its file; a client that
  stops sending keeps its handler and its upload slot for as long as it likes; a
  body over the limit of the whole request, met inside a file part, is answered
  with 500 or 400 and not with 413;
* processor: a text close to MAX_TEXT_BYTES makes a JSON body of more than the
  1 MiB the mock decodes, which refuses it with a permanent 400; a replica whose
  MOCK_PROCESSOR_URL does not parse fails every job it claims for good, at the first
  attempt, although other replicas could process it;
* server: `migrate.go` promises one goose at a time, but a broken session frees the
  lock while goose goes on (MigratedOnce excludes this case); EnsureBucket takes
  any error of HeadBucket for absence, and with a store that reports a second
  creation as an error the replica that lost the race exits and is restarted;
  Validate compares neither DRAIN_DELAY with SHUTDOWN_TIMEOUT nor MOCK_TIMEOUT,
  POLL_INTERVAL or REAPER_INTERVAL with 0; SHUTDOWN_TIMEOUT bounds
  neither `wg.Wait` nor `pool.Close`, so a shutdown may outlast any grace period.

The drain delay and the balancer: `main.go` has the delay "give kube-proxy / the LB
time to observe the failing readiness probe". By their readiness probe the manifests
in `deploy/k8s` do not have the settings for it: `03-api.yaml` probes every 5 s and
takes a pod out after 2 failures, so up to 10 s pass, and DRAIN_DELAY is 5 s. (A pod
that is deleted is taken out of the endpoints by the control plane as well, which is
not part of the repository.) NoticedBeforeClosed therefore carries its condition,
`NoticeTime < DrainDelay` and `NoticeTime < ShutdownTimeout`, in its statement, and
is about the replicas in `Watched` only. The run `server` has one replica in that
regime and one, `n2`, in the other: with `Replicas` instead of `Watched` in the
property TLC needs four seconds to show `n2` behind a closed listener and still
routed. NoRequestCutOff holds in both.

### Bounds and why they are enough

* Two jobs, two replicas: claims, reaps and batches interact pairwise; a batch of
  two against a channel of one or two covers full, partly full and split batches.
  `worker_faults` gives two replicas one job to fight over; two jobs on one replica
  are in `worker_replica`, two jobs under any callers in `queue`.
* `ClaimBound` 2 or 3 with `MaxAttempts` 2: exhausted and not exhausted retries,
  a reclaim after a reap, and (3) a claim beyond the limit.
* `WorkerLease` 4 and `ClockLag` 2 in `worker_replica`: the lease granted is exactly
  one heartbeat interval, the largest lag that is tolerated (with 3 the invariant
  fails); `MaxRun` 4 outlasts it twice. `WorkerLease` 2 where faults matter, 1 in
  `queue`, where only expiry matters.
* One fault at a time, one SIGTERM: the hazards are single failures at every
  possible point, including during the recovery from the shutdown.
* Two requests, one key, one slot, two parts: two submissions are what a race for
  a key or a slot needs; two parts allow a text after a file and a second file.
* Bodies of 0 to 11 units in parts of 2 with two uploaders: empty, exact
  boundaries, short last part, and enough parts (6) for a full channel, two busy
  uploaders and a producer that waits. Limits 3, 9 and 10: below, at and inside a
  part boundary. Two faults: both uploaders can fail.
* Two calls, a job that both may ask for and one that is refused, a cache of two
  that is full of earlier jobs (in either order) until the processor restarts: the
  same job remembered twice in a row, with and without an eviction before, which
  takes a place for both copies to show. Two attempts with a backoff of 2 ticks: a
  first and a last attempt, and a real jitter.
* Three replicas (one with a worker, one for migrations only), two migrations, two
  faults, one SIGTERM: two that wait while one migrates, a crash between the two
  migrations and another in the recovery. A drain of 2 ticks in a shutdown of 4: a
  request that arrives last has time left, and one that is older is cut off. Clocks
  stop at the last time that matters (`ClockBound`), which is no bound on behaviours.
* No symmetry is used: liveness is checked, and ids are ordered.
* `Ingest`, `Processor` and `Server` stop when all requests are served, all calls
  have returned or all replicas are where they belong, so deadlock is not checked
  there; EveryRequestEnds, CallReturns and EveryReplicaSettles take its place. It
  is checked everywhere else.

### Fairness

`Worker!Fairness`: every goroutine is scheduled, tickers keep firing, processor
calls end (timeout and bounded retries in the client), stalled nodes come back,
the orchestrator restarts replicas. Weak fairness suffices. Nothing is assumed of
faults, signals, submissions, or of how a run ends. `Ingest`: handlers run on and
calls return; nothing is assumed of clients, so EveryRequestEnds says that a request
ends unless its own client stalls. `MultipartUpload`: goroutines run on and calls
return. `Processor`: the client's goroutine runs and its timers fire; the processor
and the network may do nothing at all. `Server`: processes run on and are started
again, calls return, the balancer probes, time passes. That `wg.Wait` returns is what
`Worker` allows to assume: the poller has ended, so nothing is added to `jobsCh`, and
every run has a cancelled context. That `pool.Close` returns rests on handlers that
hold a connection for one statement at a time; the request itself may take for ever.

## 4. Proofs

`JobQueueProofs` (for every set of workers and keys, number of jobs and setting):

* the inductive invariant is `GoodTable`: type correctness together with
  `RowConsistent` for every row. The type alone is inductive; consistency is what
  the other theorems need, e.g. that only a processing row has a lease, so that
  `Aged` leaves finished rows alone. One lemma per SET clause shows that a good
  row stays good (`ClaimedGood`, `RescheduledGood`, ...);
* `StepByRow` reduces a step of the table to what happens to one row, and
  `UpdateEffect`/`InsertEffect` say what that may be. From these follow
  QueueFreezesFinishedJobs, QueueCountsEveryRun and, with the absent rows carrying
  no key (`QueueInv`), QueueKeysUnique;
* QueueImplementsLifecycle: each statement maps to a step of JobLifecycle on the
  status and attempts columns, or to a stutter.

`WorkerProofs` (for every number of replicas, goroutines, jobs, faults and every
timer setting):

* the invariant is `WorkerInv`, GoodTable and `MemoryOK`. TypeOK alone is not
  inductive: a busy goroutine must hold a real claim and `free` must not exceed one
  batch, or the statement issued is not one the queue was specified for;
* WorkerTypeCorrect, and WorkerImplementsQueue, which carries the theorems about
  the queue over to the worker tier (WorkerFreezesFinishedJobs,
  WorkerCountsEveryRun).

`WorkerClaimProofs` (for the same constants, no condition on any setting):

* the invariant is `ClaimsInv`. ClaimHeldOnce is not inductive: a claim could be
  handed out a second time if the row's `attempts` were behind what somebody holds.
  `Counted` says it never is, so a new claim, which raises `attempts`, differs from
  all held ones; `Apart` and `OncePerReplica` are ClaimHeldOnce between and within
  replicas; `RoomSound` is PollerHasRoom. From the queue it needs QueueInv;
* `TableMoves` says what a step does to a row, `MemoryMoves` where a held claim can
  have come from; with these the proof has one case per way of gaining a claim
  (`Gains`) and one for all steps that only give claims up (`Shrinks`). `OldestFew`
  shows that a claim statement's LIMIT bounds the batch.

`WorkerLeaseProofs` (on top, with `SafetyInv`):

* WorkerForgetsNothing and WorkerRecordsOutcomes assume `MaxRun < FinalTimeout`: no
  run outlasts finalCtx. Run `final_ctx_expired` shows what happens otherwise. The
  invariant adds what a replica's phase says about its past (`PhaseSound`) and that
  without faults no run is longer than MaxRun (`ElapsedSound`);
* WorkerNeverReapedAlive assumes `LeaseFits`: the longest call, one heartbeat
  interval and the clock's lag fit in one lease. The hard case is a claim that waits
  in `jobsCh`, where nothing renews its lease. `LeaseSound` counts goroutines: of
  all `Concurrency` goroutines at most `Concurrency - i` have a run younger than the
  lease of the claim at place i of the channel. So when that lease is MaxRun old,
  i goroutines are idle or due to end before the next tick, and the claim is taken
  off with a heartbeat interval left on its lease. The batch holds only new leases,
  and a running job's lease lasts until its next heartbeat.
  Under the default settings (WORKER_LEASE 120 s, heartbeat 60 s, calls up to
  3 x 30 s and the backoffs) LeaseFits does not hold; run `queued_job_reaped` shows
  the consequence. `worker_replica` checks NeverReapedAlive in the other regime in
  which the code keeps the promise, with runs of several leases and an idle
  goroutine for every claimed job; there it is only model-checked. Its settings do
  satisfy the condition of the first two theorems, as those of `worker_faults`
  satisfy both.

`IngestProofs` (for every number of requests, keys, parts, slots, faults and lost
inserts):

* the invariant is `IngestInv`: QueueInv, the types, and for each request
  `RequestSound`: what a handler that has answered owes the table (`AnswerSound`),
  that a row's request was told of it (`RowSound`), which objects may not go (`KeptSound`) and which
  may not stay (`KnownSound`). `SlotsSound` identifies the tokens in the channel
  with the handlers that upload;
* `StepSound` treats the request that takes the step, `OthersSound` all the others,
  whose only way to be disturbed is a row with their key;
* AnswersAreKept, OneJobPerKey, RowsKeepTheirObjects, ObjectsHaveJobs,
  SlotsStayAccounted and IngestTyped follow; IngestImplementsQueue carries the
  queue's theorems over to the API.

`UploadProofs` (for every body, limit, part size, concurrency and number of
faults):

* `UploadInv` is about resources: every buffer taken is with the producer, in the
  channel or with an uploader (`BuffersSound`), goroutines have ended where Put
  returns (`QuietSound`), only a body read to its end within the limit is completed
  (`LimitSound`), and how far the bucket's upload is follows from where Put is
  (`BucketSound`). From it MemoryBounded,
  EveryBufferReturned, UploadsClosed, LimitsExact and UploadTyped;
* `FlowInv` follows the bytes: each part that was cut is in the channel, with an
  uploader or completed, as long as nothing has failed (`CoverSound`), and parts
  start where the last one ended (`ReadSound`, `FlightSound`). From it
  PutKeepsItsPromise: every step is a step of ObjectPut or a stutter.

`ServerProofs` (for every number of replicas, migrations, faults and stops):

* the invariant is `ServerInv`: what the place of a replica in `run` or `shutdown`
  says about its time, its traffic and the set-up (`ReplicaSound`), who holds the
  lock (`LockSound`) and which migrations are applied (`AppliedSound`);
* NoMigrationTwice, SetUpBeforeServing, RequestsOutliveShutdown,
  DrainLetsBalancerNotice and ServerTyped are its consequences. NoMigrationTwice,
  like the property, excludes a session that is lost while it holds the lock.
  RequestsOutliveShutdown needs no condition on the times: a request that is open
  at the end of the drain is at most DRAIN_DELAY younger than the shutdown
  (`TrafficSound`), and srv.Shutdown gives up only when the shutdown is
  SHUTDOWN_TIMEOUT old. DrainLetsBalancerNotice has the condition of the property.

`ProcessorProofs` (for every number of calls, jobs and attempts, every size of the
cache and every timeout):

* the invariant is `ProcessorInv`. Besides the promises it says why they hold: a
  request is about the job of its call (`HandlersSound`), an answer on its way is
  already true and a refused job is not worked on (`AnswerSound`), a remembered job is
  a processed one (`CacheSound`), and a call that backs off has an attempt left
  (`CallSound`);
* `CallStep` and `AnswerStep` reduce a step to what one call or one handler does.
  `RememberExact`, from `TailExact` and `AppendExact`, is the argument about the
  eviction list;
* CacheStaysExact, OkIsProcessed, PermanentIsHopeless and ProcessorTyped are its
  consequences;
* CallsInTime needs what a call has used up at each place (`TimeSound`): its timer
  counts as spent, and the waits before a backoff of b take no more than one and a
  half times b less the first. That all backoffs of `Doubled` exist and grow is an
  induction over the number of attempts, which `NumbersInduct` states for sets so
  that the provers can use it.

The assumptions are the named ASSUMEs of the modules (Config.Validate's conditions,
`NULL` differs from numbers, "" is no worker and no key, clocks are less than a lease
apart). `ClaimBound` is a bound
for TLC; the theorems hold for every value of it.

Only model-checked:

* liveness (EveryJobSettles, EveryRequestEnds, CallReturns, EveryReplicaSettles and
  the liveness half of ImplementsPut), which is outside the prover's reach;
* NeverReapedAlive where LeaseFits does not hold but goroutines are idle.

## 5. Not modelled

Authentication, routing, response formatting, config parsing, the tables of media
types and magic bytes, and observability: stateless or pure I/O. GetJob, Healthz
and Version only read. Object keys (`sanitizeFileName`) are distinct because they
contain the job's id. The known-size branches of Put are never called.

## 6. Plan

Done: JobTable, JobQueue, JobLifecycle, Worker, Ingest, MultipartUpload with
ObjectPut, Processor, Server; theorems about all of them, for every safety property
that a passing run checks.

Next: Worker's NeverReapedAlive from a condition on idle goroutines instead of
LeaseFits.
