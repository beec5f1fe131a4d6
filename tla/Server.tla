------------------------------- MODULE Server -------------------------------
(***************************************************************************)
(* The life of the replicas, from run to the end of shutdown               *)
(* (cmd/server/main.go): the migrations under their advisory lock          *)
(* (internal/storage/postgres/migrate.go), EnsureBucket                    *)
(* (internal/storage/s3/store.go), readiness, the drain delay, the end of  *)
(* the HTTP server and of the worker, and the exit.  The load balancer,    *)
(* Postgres' lock, goose and the orchestrator are external.                *)
(*                                                                         *)
(* What the HTTP server and the worker do while they run is the subject of *)
(* Ingest and Worker.  Of the requests of a replica one is followed.       *)
(***************************************************************************)
EXTENDS Integers, FiniteSets

CONSTANTS
    Replicas,         \* the processes that are started
    WorkerReplicas,   \* those that run a worker (APP_MODE worker or all)
    MigrateOnly,      \* those with MIGRATE_ONLY
    Migrations,       \* how many migrations there are
    DrainDelay,       \* DRAIN_DELAY, in ticks, like all times below
    ShutdownTimeout,  \* SHUTDOWN_TIMEOUT
    Watched,          \* replicas whose failing /readyz the balancer notices ...
    NoticeTime,       \* ... within this time; the others it notices at some time
    MaxFaults,        \* model bound: crashes, failed calls, lost sessions
    MaxStops          \* model bound: SIGTERMs

\* Config.Validate compares none of the times with another one.
ASSUME ServerAssumption ==
    /\ "none" \notin Replicas
    /\ WorkerReplicas \cup MigrateOnly \cup Watched \subseteq Replicas
    /\ Migrations \in Nat
    /\ {DrainDelay, ShutdownTimeout, NoticeTime, MaxFaults, MaxStops} \subseteq Nat

VARIABLES
    pc,       \* replica -> where run or shutdown is
    sig,      \* replica -> the signal context is done
    clock,    \* replica -> ticks since shutdown was called, up to ClockBound
    lock,     \* the session that holds the advisory lock, or "none"
    version,  \* replica -> the version its goose goes on from
    applied,  \* migration -> how often it has been run
    bucket,   \* the bucket exists
    routed,   \* replica -> the balancer sends requests to it
    request,  \* replica -> the age of the request in flight, or -1
    faults, stops, lostLocks

process == <<pc, sig, clock>>
database == <<lock, version, applied>>
traffic == <<routed, request>>
budget == <<faults, stops, lostLocks>>
svars == <<process, database, bucket, traffic, budget>>

ServerInit ==
    /\ pc = [n \in Replicas |-> "connect"]
    /\ sig = [n \in Replicas |-> FALSE]
    /\ clock = [n \in Replicas |-> 0]
    /\ lock = "none"
    /\ version = [n \in Replicas |-> 0]
    /\ applied = [v \in 1 .. Migrations |-> 0]
    /\ bucket \in BOOLEAN
    /\ routed = [n \in Replicas |-> FALSE]
    /\ request = [n \in Replicas |-> -1]
    /\ faults = 0 /\ stops = 0 /\ lostLocks = 0

Fault ==
    /\ faults < MaxFaults
    /\ faults' = faults + 1
    /\ UNCHANGED <<stops, lostLocks>>

Goto(n, to) ==
    /\ pc' = [pc EXCEPT ![n] = to]
    /\ UNCHANGED <<sig, clock>>

Step(n, from, to) == pc[n] = from /\ Goto(n, to)

\* run returns an error and the process exits, by the same deferred calls as in
\* PoolClosed and Exit; it is started again unless it has been told to stop.
Fails(n) == Goto(n, IF sig[n] THEN "exited" ELSE "down")

-----------------------------------------------------------------------------
(* run, up to the start of the HTTP server                                 *)

Connect(n) ==
    /\ Step(n, "connect", "lock")
    /\ UNCHANGED <<database, bucket, traffic, budget>>

\* Mutant of Lock: pg_try_advisory_lock, and on without migrating.
TryLock(n) ==
    /\ IF lock = "none"
       THEN Step(n, "lock", "goose") /\ lock' = n
       ELSE Step(n, "lock", "head") /\ UNCHANGED lock
    /\ UNCHANGED <<version, applied, bucket, traffic, budget>>

Lock(n) ==
    /\ lock = "none"
    /\ lock' = n
    /\ Step(n, "lock", "goose")
    /\ UNCHANGED <<version, applied, bucket, traffic, budget>>

\* The version the table of goose shows.
Version == Cardinality({v \in 1 .. Migrations : applied[v] > 0})

\* goose.Up reads the version and runs the migrations after it, each in a
\* transaction.  It does so on a connection of its own, not on the one that
\* holds the lock.
GooseReads(n) ==
    /\ Step(n, "goose", "apply")
    /\ version' = [version EXCEPT ![n] = Version]
    /\ UNCHANGED <<lock, applied, bucket, traffic, budget>>

\* Mutant of GooseApplies: one migration too many is looked for.
GooseAppliesPast(n) ==
    /\ pc[n] = "apply"
    /\ version[n] <= Migrations
    /\ version' = [version EXCEPT ![n] = @ + 1]
    /\ applied' = [v \in 1 .. Migrations |->
                      applied[v] + IF v = version[n] + 1 THEN 1 ELSE 0]
    /\ UNCHANGED <<process, lock, bucket, traffic, budget>>

GooseApplies(n) ==
    /\ pc[n] = "apply"
    /\ version[n] < Migrations
    /\ version' = [version EXCEPT ![n] = @ + 1]
    /\ applied' = [applied EXCEPT ![version[n] + 1] = @ + 1]
    /\ UNCHANGED <<process, lock, bucket, traffic, budget>>

\* Mutant of Unlock: whoever gives up frees the lock, its own or not.
UnlockAny(n) == lock' = "none"

\* Mutant of Unlock: the session goes back to the pool with the lock.
UnlockForgotten(n) == UNCHANGED lock

\* The unlock is detached from the signal context; the session may be gone.
Unlock(n) == lock' = IF lock = n THEN "none" ELSE lock

Migrated(n) ==
    /\ version[n] = Migrations
    /\ Step(n, "apply", IF n \in MigrateOnly THEN "exited" ELSE "head")
    /\ Unlock(n)
    /\ UNCHANGED <<version, applied, bucket, traffic, budget>>

\* EnsureBucket takes any error of HeadBucket for a missing bucket.
HeadBucket(n) ==
    /\ \/ Step(n, "head", IF bucket THEN "serve" ELSE "create") /\ UNCHANGED budget
       \/ Step(n, "head", "create") /\ Fault
    /\ UNCHANGED <<database, bucket, traffic>>

\* A replica that finds the bucket created in the meantime may be told so by an
\* error, and then gives up.
CreateBucket(n) ==
    /\ pc[n] = "create"
    /\ bucket' = TRUE
    /\ Goto(n, "serve") \/ (bucket /\ Fails(n))
    /\ UNCHANGED <<database, traffic, budget>>

\* A call of the start-up fails, or ends because the signal context is done.
StartFails(n) ==
    /\ pc[n] \in {"connect", "lock", "goose", "apply", "head", "create"}
    /\ IF sig[n] /\ pc[n] \notin {"goose", "apply"} THEN UNCHANGED budget ELSE Fault
    /\ Fails(n)
    /\ Unlock(n)
    /\ UNCHANGED <<version, applied, bucket, traffic>>

-----------------------------------------------------------------------------
(* Readiness and traffic                                                   *)

ListenerOpen(n) == pc[n] \in {"serve", "drain"}

\* Mutant of Readyz: the handler looks at its dependencies only.
ReadyzIgnoresDrain(n) == ListenerOpen(n)

\* /readyz: draining is FALSE and the dependencies answer.
Readyz(n) == pc[n] = "serve"

\* The balancer follows the probe.  A dependency that does not answer makes the
\* probe fail as well, so a replica may be taken out at any time.
Probe(n) ==
    /\ routed' = [routed EXCEPT ![n] = Readyz(n)]
    /\ routed' # routed
    /\ UNCHANGED <<process, database, bucket, request, budget>>

DependencyDown(n) ==
    /\ routed[n]
    /\ Fault
    /\ routed' = [routed EXCEPT ![n] = FALSE]
    /\ UNCHANGED <<process, database, bucket, request>>

Arrive(n) ==
    /\ routed[n]
    /\ ListenerOpen(n)
    /\ request[n] = -1
    /\ request' = [request EXCEPT ![n] = 0]
    /\ UNCHANGED <<process, database, bucket, routed, budget>>

Respond(n) ==
    /\ request[n] >= 0
    /\ pc[n] # "exited"
    /\ request' = [request EXCEPT ![n] = -1]
    /\ UNCHANGED <<process, database, bucket, routed, budget>>

-----------------------------------------------------------------------------
(* shutdown                                                                *)

Sigterm(n) ==
    /\ pc[n] \notin {"down", "exited"}
    /\ ~sig[n]
    /\ stops < MaxStops
    /\ stops' = stops + 1
    /\ sig' = [sig EXCEPT ![n] = TRUE]
    /\ UNCHANGED <<pc, clock, database, bucket, traffic, faults, lostLocks>>

\* draining is set first; the timeout of shutdownCtx starts with it.
Shutdown(n) ==
    /\ sig[n]
    /\ Step(n, "serve", "drain")
    /\ UNCHANGED <<database, bucket, traffic, budget>>

\* srv.Shutdown closes the listener and waits for the requests.
DrainOver(n) ==
    /\ clock[n] >= DrainDelay \/ clock[n] >= ShutdownTimeout
    /\ Step(n, "drain", "http")
    /\ UNCHANGED <<database, bucket, traffic, budget>>

ShutdownCtxDone(n) == clock[n] >= ShutdownTimeout

\* What follows srv.Shutdown: w.Stop if there is a worker, then the deferred calls.
AfterHTTP(n) == IF n \in WorkerReplicas THEN "stop" ELSE "close"

\* Mutant of HTTPClosed: srv.Close, which does not wait.
HTTPClosedAtOnce(n) ==
    /\ Step(n, "http", AfterHTTP(n))
    /\ UNCHANGED <<database, bucket, traffic, budget>>

HTTPClosed(n) ==
    /\ request[n] = -1 \/ ShutdownCtxDone(n)
    /\ Step(n, "http", AfterHTTP(n))
    /\ UNCHANGED <<database, bucket, traffic, budget>>

\* w.Stop: wg.Wait has no timeout.  The goroutines may take jobs out of jobsCh
\* after the signal, and each has a finalCtx of its own (Worker).
WorkerQuiet(n) ==
    /\ Step(n, "stop", "release")
    /\ UNCHANGED <<database, bucket, traffic, budget>>

Released(n) ==
    /\ Step(n, "release", "close")
    /\ UNCHANGED <<database, bucket, traffic, budget>>

\* pool.Close waits for as long as somebody has a connection, also for a request
\* that srv.Shutdown has given up on.
PoolClosed(n) ==
    /\ Step(n, "close", "trace")
    /\ UNCHANGED <<database, bucket, traffic, budget>>

\* shutdownTracing is over.  A request that is still in flight ends with the
\* process.
Exit(n) ==
    /\ Step(n, "trace", "exited")
    /\ UNCHANGED <<database, bucket, traffic, budget>>

-----------------------------------------------------------------------------
(* The world around a replica                                              *)

\* The process dies, or its listener fails.  Its sessions end with it.
Crash(n) ==
    /\ pc[n] \notin {"down", "exited"}
    /\ Fault
    /\ Fails(n)
    /\ Unlock(n)
    /\ request' = [request EXCEPT ![n] = -1]
    /\ UNCHANGED <<version, applied, bucket, routed>>

\* The orchestrator starts a replica again.
Restart(n) ==
    /\ Step(n, "down", "connect")
    /\ UNCHANGED <<database, bucket, traffic, budget>>

\* The connection that holds the lock breaks while goose works on another one.
LoseLock(n) ==
    /\ lock = n
    /\ faults < MaxFaults
    /\ faults' = faults + 1
    /\ lostLocks' = lostLocks + 1
    /\ lock' = "none"
    /\ UNCHANGED <<process, version, applied, bucket, traffic, stops>>

\* Whether n can let time pass: the two timeouts of shutdown are kept, and the
\* balancer notices.  Nothing else here has an end that is known.
Patient(n) ==
    /\ pc[n] = "serve" => ~sig[n]
    /\ pc[n] = "drain" => clock[n] < DrainDelay /\ clock[n] < ShutdownTimeout
    /\ pc[n] = "http" => request[n] >= 0 /\ ~ShutdownCtxDone(n)
    /\ n \in Watched /\ routed[n] /\ ~Readyz(n) => clock[n] < NoticeTime

ShuttingDown(n) == pc[n] \in {"drain", "http", "stop", "release", "close", "trace"}

\* Later than this, no clock makes a difference any more.
ClockBound == IF NoticeTime > ShutdownTimeout THEN NoticeTime ELSE ShutdownTimeout

Tick ==
    /\ \A n \in Replicas : Patient(n)
    /\ \E n \in Replicas : ShuttingDown(n)
    /\ clock' = [n \in Replicas |->
                    IF ShuttingDown(n) /\ clock[n] < ClockBound
                    THEN clock[n] + 1 ELSE clock[n]]
    /\ request' = [n \in Replicas |->
                      IF request[n] \in 0 .. ShutdownTimeout - 1
                      THEN request[n] + 1 ELSE request[n]]
    /\ UNCHANGED <<pc, sig, database, bucket, routed, budget>>

-----------------------------------------------------------------------------

StartNext(n) ==
    \/ Connect(n)
    \/ Lock(n)
    \/ GooseReads(n)
    \/ GooseApplies(n)
    \/ Migrated(n)
    \/ HeadBucket(n)
    \/ CreateBucket(n)
    \/ StartFails(n)
    \/ Restart(n)

StopNext(n) ==
    \/ Shutdown(n)
    \/ DrainOver(n)
    \/ HTTPClosed(n)
    \/ WorkerQuiet(n)
    \/ Released(n)
    \/ PoolClosed(n)
    \/ Exit(n)

ServerNext ==
    \/ \E n \in Replicas :
           \/ StartNext(n)
           \/ StopNext(n)
           \/ Probe(n)
           \/ DependencyDown(n)
           \/ Arrive(n)
           \/ Respond(n)
           \/ Sigterm(n)
           \/ Crash(n)
           \/ LoseLock(n)
    \/ Tick

ServerSpec == ServerInit /\ [][ServerNext]_svars

\* Processes run on and are started again, calls return, the worker's goroutines
\* end (their context is done and nothing is added to jobsCh), connections go back
\* to the pool, the balancer probes and time passes.  A request may take for ever
\* if it has no connection.
ServerFairSpec ==
    /\ ServerSpec
    /\ WF_svars(Tick)
    /\ \A n \in Replicas :
           WF_svars(StartNext(n)) /\ WF_svars(StopNext(n)) /\ WF_svars(Probe(n))

-----------------------------------------------------------------------------
(* Properties.                                                             *)

\* Every variable has the shape the code gives it.
ServerTypeOK ==
    /\ pc \in [Replicas -> {"down", "connect", "lock", "goose", "apply", "head",
                            "create", "serve", "drain", "http", "stop", "release",
                            "close", "trace", "exited"}]
    /\ sig \in [Replicas -> BOOLEAN]
    /\ clock \in [Replicas -> 0 .. ClockBound]
    /\ lock \in Replicas \cup {"none"}
    /\ version \in [Replicas -> 0 .. Migrations]
    /\ applied \in [1 .. Migrations -> Nat]
    /\ bucket \in BOOLEAN
    /\ routed \in [Replicas -> BOOLEAN]
    /\ request \in [Replicas -> -1 .. ShutdownTimeout]
    /\ faults \in 0 .. MaxFaults
    /\ stops \in 0 .. MaxStops
    /\ lostLocks \in 0 .. MaxFaults

\* "exactly one of them runs goose at a time" (migrate.go), so that no migration
\* is run twice, whichever replicas start together, crash between two migrations
\* or give up: as long as no session is lost that holds the lock.
MigratedOnce ==
    lostLocks = 0 => \A v \in 1 .. Migrations : applied[v] <= 1

\* A replica takes no request and no job before the schema is complete and the
\* bucket is there, whoever has migrated and whoever has created it.
ServesOnlyWhenSetUp ==
    \A n \in Replicas :
        pc[n] = "serve" \/ ShuttingDown(n) => Version = Migrations /\ bucket

\* "shutdown drains in the order that keeps requests alive" (main.go): whatever
\* DRAIN_DELAY and SHUTDOWN_TIMEOUT are, and whether the balancer notices or not, a
\* request that takes less than what the drain delay leaves of SHUTDOWN_TIMEOUT is
\* not cut off by the exit, however late in the drain it arrived.
NoRequestCutOff ==
    \A n \in Replicas :
        pc[n] = "exited" /\ request[n] >= 0 =>
            request[n] >= ShutdownTimeout - DrainDelay

\* What DRAIN_DELAY is for: "Give kube-proxy / the LB time to observe the failing
\* readiness probe before we stop accepting connections" (main.go).  It does so on
\* the condition that nothing checks: the balancer needs less than the delay, and
\* less than SHUTDOWN_TIMEOUT, which may end the delay.
NoticedBeforeClosed ==
    NoticeTime < DrainDelay /\ NoticeTime < ShutdownTimeout =>
        \A n \in Watched : ShuttingDown(n) /\ routed[n] => ListenerOpen(n)

\* However replicas race for the lock and the bucket, crash and restart, each of
\* them ends up serving if nobody stops it and gone if somebody does.
EveryReplicaSettles ==
    \A n \in Replicas :
        <>[](pc[n] = IF sig[n] \/ n \in MigrateOnly THEN "exited" ELSE "serve")
=============================================================================
