------------------------------ MODULE JobQueue ------------------------------
(***************************************************************************)
(* JobRepo: the table `jobs` as the queue its callers share.  Every method *)
(* of the repository is one SQL statement, so every method is one atomic   *)
(* action.  RepoNext lets any caller call any method at any time with any  *)
(* argument the program passes: the API replicas, the pollers, workers,    *)
(* heartbeats and reapers of all replicas, and a worker whose claim was    *)
(* taken away long ago are all just callers here.                          *)
(*                                                                         *)
(* Job ids are numbered in the order of created_at, which is the order the *)
(* claim's ORDER BY uses.  It is not the order of insertion: created_at is *)
(* stamped by the API replica before the INSERT runs, so Create may insert *)
(* any absent id.                                                          *)
(***************************************************************************)
EXTENDS JobTable, FiniteSets

CONSTANTS
    NumJobs,           \* job ids are 1 .. NumJobs
    WorkerLease,       \* WORKER_LEASE, in ticks
    WorkerClaimBatch,  \* WORKER_CLAIM_BATCH
    MaxAttempts,       \* MAX_ATTEMPTS
    RetryBackoffBase,  \* RETRY_BACKOFF_BASE, in ticks
    RetryBackoffMax,   \* RETRY_BACKOFF_MAX, in ticks
    ClockLag,          \* ticks a worker's clock is behind the database's
    ClaimBound         \* model bound: no job is claimed more often than this

\* Config.Validate, as far as these settings are concerned.  Clocks that are
\* apart by a whole lease are ruled out: their claims would be born expired.
ASSUME RepoAssumption ==
    /\ NumJobs \in Nat
    /\ WorkerLease \in Nat \ {0}
    /\ WorkerClaimBatch \in Nat \ {0}
    /\ MaxAttempts \in Nat \ {0}
    /\ RetryBackoffBase \in Nat
    /\ RetryBackoffMax \in Nat
    /\ RetryBackoffBase <= RetryBackoffMax
    /\ ClockLag \in Int /\ ClockLag < WorkerLease
    /\ ClaimBound \in Nat

VARIABLE
    jobs   \* the table: id -> row

JobIds == 1 .. NumJobs

RepoInit == jobs = [j \in JobIds |-> NoRow]

-----------------------------------------------------------------------------
(* The methods of JobRepo.                                                 *)

\* Mutant of KeyTaken: the index covers waiting jobs only.
KeyTakenByPending(key) ==
    /\ key # ""
    /\ \E k \in JobIds : /\ jobs[k].status = "pending"
                         /\ jobs[k].idempotency_key = key

\* Mutant of KeyTaken: the index is not unique.
KeyNotUnique(key) == FALSE

\* The partial unique index idx_jobs_idempotency_key.
KeyTaken(key) ==
    /\ key # ""
    /\ \E k \in JobIds : /\ jobs[k].status # "absent"
                         /\ jobs[k].idempotency_key = key

\* Mutant of GetByIdempotencyKey: the WHERE clause does not look at the key.
GetAnyJob(key) == {j \in JobIds : jobs[j].status # "absent"}

\* The job with this key; there is one at most, which KeysUnique says.
GetByIdempotencyKey(key) ==
    {j \in JobIds : jobs[j].status # "absent" /\ jobs[j].idempotency_key = key}

\* A Create that meets a taken key returns ErrDuplicateKey and writes nothing.
Create(j, key, object) ==
    /\ jobs[j].status = "absent"
    /\ ~KeyTaken(key)
    /\ jobs' = [jobs EXCEPT ![j] = NewRow(key, object)]

\* ClaimBound keeps `attempts` finite for TLC; it is no part of the statement.
Claimable == {j \in JobIds : Due(jobs[j]) /\ jobs[j].attempts < ClaimBound}

\* The inner SELECT: the oldest due rows, `limit` of them at most.
Oldest(limit) ==
    {j \in Claimable : Cardinality({k \in Claimable : k < j}) < limit}

\* lease_until is time.Now() of the caller plus the lease, and ReapExpired
\* compares it with now() of the database: this is what is left of the lease.
LeaseUntil(lease) == lease - ClockLag

\* Mutant of ClaimBatch: a row whose lease has run out is taken over as it is.
ClaimBatchTakesOver(worker, lease, limit) ==
    \/ /\ Claimable # {}
       /\ jobs' = [j \in JobIds |-> IF j \in Oldest(limit)
                                    THEN Claimed(jobs[j], worker, LeaseUntil(lease))
                                    ELSE jobs[j]]
    \/ \E j \in JobIds :
           /\ LeaseExpired(jobs[j])
           /\ jobs' = [jobs EXCEPT ![j].lease_until = LeaseUntil(lease),
                                   ![j].locked_by = worker]

ClaimBatch(worker, lease, limit) ==
    /\ Claimable # {}
    /\ jobs' = [j \in JobIds |-> IF j \in Oldest(limit)
                                 THEN Claimed(jobs[j], worker, LeaseUntil(lease))
                                 ELSE jobs[j]]

ExtendLease(j, lease) ==
    /\ Processing(jobs[j])
    /\ jobs' = [jobs EXCEPT ![j] = LeaseExtended(@, LeaseUntil(lease))]

\* Mutant of Complete: the result of a worker that lost its lease is welcome.
CompleteLate(j, summary) ==
    /\ \/ Processing(jobs[j])
       \/ jobs[j].status = "pending"
          /\ jobs[j].error_message = "lease expired, requeued"
    /\ jobs' = [jobs EXCEPT ![j] = Completed(@, summary)]

Complete(j, summary) ==
    /\ Processing(jobs[j])
    /\ jobs' = [jobs EXCEPT ![j] = Completed(@, summary)]

Retry(j, message, maxAttempts, base, max) ==
    /\ Processing(jobs[j])
    /\ jobs' = [jobs EXCEPT ![j] =
                    Retried(@, message, maxAttempts, base, max)]

\* Mutant of Fail: the WHERE clause lets failed rows through.
FailAgain(j, message) ==
    /\ jobs[j].status \in {"processing", "failed"}
    /\ jobs' = [jobs EXCEPT ![j] = Failed(@, message)]

Fail(j, message) ==
    /\ Processing(jobs[j])
    /\ jobs' = [jobs EXCEPT ![j] = Failed(@, message)]

ReapExpired ==
    /\ \E j \in JobIds : LeaseExpired(jobs[j])
    /\ jobs' = [j \in JobIds |-> IF LeaseExpired(jobs[j])
                                 THEN Requeued(jobs[j])
                                 ELSE jobs[j]]

\* Time passes at the database.
Elapse == jobs' = [j \in JobIds |-> Aged(jobs[j])]

-----------------------------------------------------------------------------

RepoNext ==
    \/ \E j \in JobIds, key \in Keys \cup {""}, object \in {"", "object"} :
           Create(j, key, object)
    \/ \E w \in Workers, limit \in 1 .. WorkerClaimBatch :
           ClaimBatch(w, WorkerLease, limit)
    \/ \E j \in JobIds : ExtendLease(j, WorkerLease)
    \/ \E j \in JobIds, summary \in Summary : Complete(j, summary)
    \/ \E j \in JobIds, m \in {"processor error", "context canceled"} :
           Retry(j, m, MaxAttempts, RetryBackoffBase, RetryBackoffMax)
    \/ \E j \in JobIds : Retry(j, "worker shutting down", MaxAttempts, 0, 0)
    \/ \E j \in JobIds : Fail(j, "rejected")
    \/ ReapExpired
    \/ Elapse

RepoSpec == RepoInit /\ [][RepoNext]_jobs

-----------------------------------------------------------------------------
(* Properties.                                                             *)

\* Every row is made of values its columns can hold.
RepoTypeOK == jobs \in [JobIds -> Row]

\* No sequence of statements, in whatever order the callers issue them, leaves
\* a row whose columns contradict each other.  In particular a processing row
\* always carries a lease, without which ReapExpired would never find it, and
\* a finished row never carries a pending retry, a lease or an owner, although
\* Complete, Retry and ReapExpired each reset only some of these columns.
RowsConsistent == \A j \in JobIds : RowConsistent(jobs[j])

\* Two rows never share an Idempotency-Key, whatever the interleaving of
\* concurrent submissions (jobs.go: Create, idx_jobs_idempotency_key).
KeysUnique ==
    \A j, k \in JobIds :
        /\ jobs[j].idempotency_key # ""
        /\ jobs[j].idempotency_key = jobs[k].idempotency_key
        => j = k

\* A finished job is never touched again: a worker that lost its lease, a late
\* heartbeat, the reaper and the release at shutdown all leave it alone.
FinishedJobsFrozen ==
    [][\A j \in JobIds :
           jobs[j].status \in Terminal => jobs'[j] = jobs[j]]_jobs

\* Every run a job is given is paid for: a row enters `processing` only by
\* a claim that raises `attempts`, and attempts never go down, so no path
\* through Retry, Fail, ReapExpired or ExtendLease hands out a free run.
EveryRunCounted ==
    [][\A j \in JobIds :
           /\ jobs'[j].attempts >= jobs[j].attempts
           /\ /\ jobs'[j].status = "processing"
              /\ \/ jobs[j].status # "processing"
                 \/ jobs'[j].locked_by # jobs[j].locked_by
              => jobs'[j].attempts = jobs[j].attempts + 1]_jobs

-----------------------------------------------------------------------------
(* The queue implements the life cycle its API documents.                  *)

Lifecycle == INSTANCE JobLifecycle
    WITH Jobs   <- JobIds,
         status <- [j \in JobIds |-> jobs[j].status],
         runs   <- [j \in JobIds |-> jobs[j].attempts]

\* Seen through status and attempts alone, the table is the state machine of
\* JobLifecycle: pending, processing, then completed or failed for good.
ImplementsLifecycle == Lifecycle!LifecycleSpec
=============================================================================
