------------------------------- MODULE Worker -------------------------------
(***************************************************************************)
(* The worker tier: every replica's poller, its WORKER_CONCURRENCY worker  *)
(* goroutines with their heartbeats, its reaper, and its shutdown          *)
(* (internal/worker/worker.go, cmd/server/main.go), all working on the one *)
(* table of JobQueue, with crashes, lost replies and failed statements.    *)
(*                                                                         *)
(* A claim is a copy of the row as ClaimBatch returned it; what the worker *)
(* does with it depends on the id alone, and `attempt` is its Attempts     *)
(* field, which tells two claims of the same job apart.                    *)
(*                                                                         *)
(* Time is the Tick action.  Timers are counted in ticks, and a tick waits *)
(* for what is due: on a replica that is alive and not stalled, local      *)
(* steps and single statements take less than a tick, a heartbeat comes    *)
(* when its ticker fires, and a processor call ends within MaxRun ticks,   *)
(* since the HTTP client has a timeout and a bounded number of retries.    *)
(* Whatever breaks this rule is a fault and uses up the fault budget: a    *)
(* crash, a stall of the whole process, a statement that fails or whose    *)
(* reply is lost.                                                          *)
(***************************************************************************)
EXTENDS JobQueue, Sequences

CONSTANTS
    Concurrency,   \* WORKER_CONCURRENCY, also the capacity of jobsCh
    FinalTimeout,  \* the 15 s of process's finalCtx, in ticks
    MaxRun,        \* the longest call of runJob, in ticks
    MaxFaults,     \* model bound: crashes, stalls, failed or lost statements
    MaxStops       \* model bound: SIGTERMs

ASSUME WorkerAssumption ==
    /\ Concurrency \in Nat \ {0}
    /\ FinalTimeout \in Nat
    /\ MaxRun \in Nat
    /\ MaxFaults \in Nat
    /\ MaxStops \in Nat

VARIABLES
    phase,   \* replica -> running, stalled, cancelled (signal context done),
             \*            stopped (Stop has returned) or down (crashed)
    free,    \* replica -> pollOnce's `free` while its claim is under way, or 0
    batch,   \* replica -> claims pollOnce holds and has not sent to jobsCh yet
    jobsCh,  \* replica -> the buffered channel of claims
    slot,    \* replica -> worker goroutine -> what it is doing
    faults,  \* faults so far
    stops    \* SIGTERMs so far

local == <<phase, free, batch, jobsCh, slot>>
vars == <<jobs, local, faults, stops>>

Slots == 1 .. Concurrency

Claim == [job : JobIds, attempt : Nat]

Outcome == {"ok", "rejected", "processor error", "context canceled"}

\* Mutant of HeartbeatInterval: the lease is doubled instead of halved.
HeartbeatTooSlow == 2 * WorkerLease

\* worker.heartbeat: half the lease, and never zero (the code's floor).
HeartbeatInterval == IF WorkerLease \div 2 >= 1 THEN WorkerLease \div 2 ELSE 1

\* Long enough for `elapsed` to tell everything that is asked of it.
ElapsedBound == IF MaxRun >= FinalTimeout THEN MaxRun ELSE FinalTimeout

NoClaim == [job |-> 0, attempt |-> 0]

Phase == {"running", "stalled", "cancelled", "stopped", "down"}

Goroutine ==
    [pc      : {"idle", "run", "record", "exited"},
     claim   : Claim \cup {NoClaim},
     elapsed : 0 .. ElapsedBound,
     beat    : 0 .. HeartbeatInterval,
     outcome : Outcome \cup {"none"}]

\* A goroutine that waits for jobsCh.
Idle == [pc |-> "idle", claim |-> NoClaim, elapsed |-> 0, beat |-> 0,
         outcome |-> "none"]

\* A goroutine whose workerLoop has returned.
Exited == [Idle EXCEPT !.pc = "exited"]

\* process(job) has been entered: finalCtx and the heartbeat's ticker start now.
Running(claim) == [Idle EXCEPT !.pc = "run", !.claim = claim,
                               !.beat = HeartbeatInterval]

Init ==
    /\ RepoInit
    /\ phase = [w \in Workers |-> "running"]
    /\ free = [w \in Workers |-> 0]
    /\ batch = [w \in Workers |-> {}]
    /\ jobsCh = [w \in Workers |-> << >>]
    /\ slot = [w \in Workers |-> [s \in Slots |-> Idle]]
    /\ faults = 0
    /\ stops = 0

Fault == faults < MaxFaults /\ faults' = faults + 1

NoFault == UNCHANGED faults

\* The WHERE clause matched nothing: the worker logs ErrNotFound and goes on.
NotFound(j) == ~Processing(jobs[j]) /\ UNCHANGED jobs

-----------------------------------------------------------------------------
(* The API tier, as far as the workers can see it.                         *)

Submit(j) ==
    /\ Create(j, "", "")
    /\ UNCHANGED <<local, faults, stops>>

-----------------------------------------------------------------------------
(* pollerLoop, pollOnce                                                    *)

\* Mutant of Room: a full batch is claimed, whatever the channel can take.
RoomForBatch(w) == WorkerClaimBatch

\* The free capacity of the channel, or one batch if that is less.
Room(w) ==
    LET room == Concurrency - Len(jobsCh[w])
    IN  IF room > WorkerClaimBatch THEN WorkerClaimBatch ELSE room

\* The rows ClaimBatch returns to the poller, as claims.
ClaimsOf(limit) ==
    {[job |-> j, attempt |-> jobs[j].attempts + 1] : j \in Oldest(limit)}

\* pollOnce looks at the channel; the claim below uses what it saw here.
PollOnce(w) ==
    /\ phase[w] = "running"
    /\ batch[w] = {}
    /\ free[w] = 0
    /\ Room(w) > 0
    /\ free' = [free EXCEPT ![w] = Room(w)]
    /\ UNCHANGED <<jobs, phase, batch, jobsCh, slot, faults, stops>>

PollClaims(w) ==
    /\ phase[w] = "running"
    /\ free[w] > 0
    /\ ClaimBatch(w, WorkerLease, free[w])
    /\ batch' = [batch EXCEPT ![w] = ClaimsOf(free[w])]
    /\ free' = [free EXCEPT ![w] = 0]
    /\ UNCHANGED <<phase, jobsCh, slot, faults, stops>>

\* The statement commits but its rows never reach the poller: the reply is
\* lost, or the context is cancelled while the statement is under way.
PollClaimLost(w) ==
    /\ phase[w] \in {"running", "cancelled"}
    /\ free[w] > 0
    /\ ClaimBatch(w, WorkerLease, free[w])
    /\ IF phase[w] = "cancelled" THEN NoFault ELSE Fault
    /\ free' = [free EXCEPT ![w] = 0]
    /\ UNCHANGED <<phase, batch, jobsCh, slot, stops>>

\* No row was due, or the statement failed and changed nothing.
PollEmpty(w) ==
    /\ phase[w] \in {"running", "cancelled"}
    /\ free[w] > 0
    /\ IF phase[w] = "cancelled" \/ Claimable = {} THEN NoFault ELSE Fault
    /\ free' = [free EXCEPT ![w] = 0]
    /\ UNCHANGED <<jobs, phase, batch, jobsCh, slot, stops>>

\* RETURNING promises no order, so the claims are sent in any order.
Send(w) ==
    /\ phase[w] \in {"running", "cancelled"}
    /\ Len(jobsCh[w]) < Concurrency
    /\ \E c \in batch[w] :
           /\ jobsCh' = [jobsCh EXCEPT ![w] = Append(@, c)]
           /\ batch' = [batch EXCEPT ![w] = @ \ {c}]
    /\ UNCHANGED <<jobs, phase, free, slot, faults, stops>>

\* Mutant of DropBatch: the select has a default case, which drops the batch.
DropBatchAnytime(w) ==
    /\ phase[w] \in {"running", "cancelled"}
    /\ batch[w] # {}
    /\ batch' = [batch EXCEPT ![w] = {}]
    /\ UNCHANGED <<jobs, phase, free, jobsCh, slot, faults, stops>>

\* The select of the send loop picks ctx.Done: the rest of the batch is dropped.
DropBatch(w) ==
    /\ phase[w] = "cancelled"
    /\ batch[w] # {}
    /\ batch' = [batch EXCEPT ![w] = {}]
    /\ UNCHANGED <<jobs, phase, free, jobsCh, slot, faults, stops>>

-----------------------------------------------------------------------------
(* workerLoop, process, heartbeat                                          *)

\* The select of workerLoop may still pick jobsCh when the context is done.
Receive(w, s) ==
    /\ phase[w] \in {"running", "cancelled"}
    /\ slot[w][s].pc = "idle"
    /\ jobsCh[w] # << >>
    /\ slot' = [slot EXCEPT ![w][s] = Running(Head(jobsCh[w]))]
    /\ jobsCh' = [jobsCh EXCEPT ![w] = Tail(@)]
    /\ UNCHANGED <<jobs, phase, free, batch, faults, stops>>

Heartbeat(w, s) ==
    /\ phase[w] = "running"
    /\ slot[w][s].pc = "run"
    /\ slot[w][s].beat = 0
    /\ LET j == slot[w][s].claim.job
       IN  ExtendLease(j, WorkerLease) \/ NotFound(j)
    /\ slot' = [slot EXCEPT ![w][s].beat = HeartbeatInterval]
    /\ UNCHANGED <<phase, free, batch, jobsCh, faults, stops>>

\* ExtendLease fails; the loop waits for the next tick of its ticker.
HeartbeatLost(w, s) ==
    /\ phase[w] = "running"
    /\ slot[w][s].pc = "run"
    /\ slot[w][s].beat = 0
    /\ Fault
    /\ slot' = [slot EXCEPT ![w][s].beat = HeartbeatInterval]
    /\ UNCHANGED <<jobs, phase, free, batch, jobsCh, stops>>

\* runJob returns and the heartbeat is stopped.  The signal context is the
\* parent of runJob's, so a SIGTERM ends the call with context.Canceled.
RunJob(w, s, outcome) ==
    /\ phase[w] \in {"running", "cancelled"}
    /\ slot[w][s].pc = "run"
    /\ outcome = "context canceled" => phase[w] = "cancelled"
    /\ slot' = [slot EXCEPT ![w][s].pc = "record", ![w][s].outcome = outcome]
    /\ UNCHANGED <<jobs, phase, free, batch, jobsCh, faults, stops>>

\* Mutant of RecordOutcome: the first run is not counted as an attempt.
RecordOutcomeOffByOne(j, outcome) ==
    \/ outcome = "ok" /\ \E summary \in Summary : Complete(j, summary)
    \/ outcome = "rejected" /\ Fail(j, "rejected")
    \/ /\ outcome \in {"processor error", "context canceled"}
       /\ Retry(j, outcome, MaxAttempts + 1, RetryBackoffBase, RetryBackoffMax)

\* The statement process and recordFailure issue for an outcome.
RecordOutcome(j, outcome) ==
    \/ outcome = "ok" /\ \E summary \in Summary : Complete(j, summary)
    \/ outcome = "rejected" /\ Fail(j, "rejected")
    \/ /\ outcome \in {"processor error", "context canceled"}
       /\ Retry(j, outcome, MaxAttempts, RetryBackoffBase, RetryBackoffMax)

\* Mutant of FinalCtxDone: finalCtx is a child of the cancelled context.
FinalCtxInherited(w, s) ==
    slot[w][s].elapsed >= FinalTimeout \/ phase[w] = "cancelled"

\* finalCtx was created when process was entered, so its time may be up by now.
FinalCtxDone(w, s) == slot[w][s].elapsed >= FinalTimeout

Record(w, s) ==
    /\ phase[w] \in {"running", "cancelled"}
    /\ slot[w][s].pc = "record"
    /\ ~FinalCtxDone(w, s)
    /\ LET j == slot[w][s].claim.job
       IN  RecordOutcome(j, slot[w][s].outcome) \/ NotFound(j)
    /\ slot' = [slot EXCEPT ![w][s] = Idle]
    /\ UNCHANGED <<phase, free, batch, jobsCh, faults, stops>>

\* The statement fails, or is not even sent because finalCtx is done.
RecordFails(w, s) ==
    /\ phase[w] \in {"running", "cancelled"}
    /\ slot[w][s].pc = "record"
    /\ IF FinalCtxDone(w, s) THEN NoFault ELSE Fault
    /\ slot' = [slot EXCEPT ![w][s] = Idle]
    /\ UNCHANGED <<jobs, phase, free, batch, jobsCh, stops>>

-----------------------------------------------------------------------------
(* reaperLoop                                                              *)

Reap(w) ==
    /\ phase[w] = "running"
    /\ ReapExpired
    /\ UNCHANGED <<local, faults, stops>>

-----------------------------------------------------------------------------
(* Shutdown, crash and restart of a replica                                *)

\* SIGTERM cancels the context that Start was given.
Sigterm(w) ==
    /\ phase[w] = "running"
    /\ stops < MaxStops
    /\ stops' = stops + 1
    /\ phase' = [phase EXCEPT ![w] = "cancelled"]
    /\ UNCHANGED <<jobs, free, batch, jobsCh, slot, faults>>

Exit(w, s) ==
    /\ phase[w] = "cancelled"
    /\ slot[w][s].pc = "idle"
    /\ slot' = [slot EXCEPT ![w][s] = Exited]
    /\ UNCHANGED <<jobs, phase, free, batch, jobsCh, faults, stops>>

\* wg.Wait has returned: poller, reaper and all workers are gone.
Quiet(w) ==
    /\ phase[w] = "cancelled"
    /\ free[w] = 0
    /\ batch[w] = {}
    /\ \A s \in Slots : slot[w][s].pc = "exited"

ReleaseQueued(w) ==
    /\ Quiet(w)
    /\ jobsCh[w] # << >>
    /\ LET j == Head(jobsCh[w]).job
       IN  Retry(j, "worker shutting down", MaxAttempts, 0, 0) \/ NotFound(j)
    /\ jobsCh' = [jobsCh EXCEPT ![w] = Tail(@)]
    /\ UNCHANGED <<phase, free, batch, slot, faults, stops>>

ReleaseFails(w) ==
    /\ Quiet(w)
    /\ jobsCh[w] # << >>
    /\ Fault
    /\ jobsCh' = [jobsCh EXCEPT ![w] = Tail(@)]
    /\ UNCHANGED <<jobs, phase, free, batch, slot, stops>>

StopReturns(w) ==
    /\ Quiet(w)
    /\ jobsCh[w] = << >>
    /\ phase' = [phase EXCEPT ![w] = "stopped"]
    /\ UNCHANGED <<jobs, free, batch, jobsCh, slot, faults, stops>>

\* The whole process stands still for a while (a frozen or throttled node) and
\* then goes on where it was, with its timers overdue.
Stall(w) ==
    /\ phase[w] = "running"
    /\ Fault
    /\ phase' = [phase EXCEPT ![w] = "stalled"]
    /\ UNCHANGED <<jobs, free, batch, jobsCh, slot, stops>>

Resume(w) ==
    /\ phase[w] = "stalled"
    /\ phase' = [phase EXCEPT ![w] = "running"]
    /\ UNCHANGED <<jobs, free, batch, jobsCh, slot, faults, stops>>

\* The process dies; nothing of its memory is left.
Crash(w) ==
    /\ phase[w] \in {"running", "stalled", "cancelled"}
    /\ Fault
    /\ phase' = [phase EXCEPT ![w] = "down"]
    /\ free' = [free EXCEPT ![w] = 0]
    /\ batch' = [batch EXCEPT ![w] = {}]
    /\ jobsCh' = [jobsCh EXCEPT ![w] = << >>]
    /\ slot' = [slot EXCEPT ![w] = [s \in Slots |-> Exited]]
    /\ UNCHANGED <<jobs, stops>>

\* The orchestrator starts the replica again: New and Start.
Start(w) ==
    /\ phase[w] \in {"stopped", "down"}
    /\ phase' = [phase EXCEPT ![w] = "running"]
    /\ slot' = [slot EXCEPT ![w] = [s \in Slots |-> Idle]]
    /\ UNCHANGED <<jobs, free, batch, jobsCh, faults, stops>>

-----------------------------------------------------------------------------
(* Time                                                                    *)

\* A goroutine that has nothing to do before the next tick.
SlotWaits(w, s) ==
    CASE slot[w][s].pc = "idle"   -> jobsCh[w] = << >> /\ phase[w] = "running"
      [] slot[w][s].pc = "run"    -> /\ phase[w] = "running"
                                     /\ slot[w][s].elapsed < MaxRun
                                     /\ slot[w][s].beat > 0
      [] slot[w][s].pc = "record" -> FALSE
      [] slot[w][s].pc = "exited" -> TRUE

\* Nothing that is due on this replica is still to be done.
Timely(w) ==
    phase[w] \in {"running", "cancelled"} =>
        /\ batch[w] = {}
        /\ \A s \in Slots : SlotWaits(w, s)

AgedSlot(g) ==
    IF g.pc \in {"run", "record"}
    THEN [g EXCEPT !.elapsed = IF @ < ElapsedBound THEN @ + 1 ELSE @,
                   !.beat = IF @ > 0 THEN @ - 1 ELSE @]
    ELSE g

Tick ==
    /\ \A w \in Workers : Timely(w)
    /\ Elapse
    /\ slot' = [w \in Workers |-> [s \in Slots |-> AgedSlot(slot[w][s])]]
    /\ UNCHANGED <<phase, free, batch, jobsCh, faults, stops>>

-----------------------------------------------------------------------------

SlotNext(w, s) ==
    \/ Receive(w, s)
    \/ Heartbeat(w, s)
    \/ HeartbeatLost(w, s)
    \/ \E outcome \in Outcome : RunJob(w, s, outcome)
    \/ Record(w, s)
    \/ RecordFails(w, s)
    \/ Exit(w, s)

ReplicaNext(w) ==
    \/ PollOnce(w)
    \/ PollClaims(w)
    \/ PollClaimLost(w)
    \/ PollEmpty(w)
    \/ Send(w)
    \/ DropBatch(w)
    \/ Reap(w)
    \/ Sigterm(w)
    \/ ReleaseQueued(w)
    \/ ReleaseFails(w)
    \/ StopReturns(w)
    \/ Stall(w)
    \/ Resume(w)
    \/ Crash(w)
    \/ Start(w)

Next ==
    \/ \E j \in JobIds : Submit(j)
    \/ \E w \in Workers : ReplicaNext(w)
    \/ \E w \in Workers, s \in Slots : SlotNext(w, s)
    \/ Tick

Spec == Init /\ [][Next]_vars

\* The Go scheduler runs every goroutine, tickers keep firing, processor calls
\* end, and the orchestrator restarts what stopped.  Nothing is assumed of
\* faults, signals, submissions, or of how a run ends.
Fairness ==
    /\ WF_vars(Tick)
    /\ \A w \in Workers :
           /\ WF_vars(PollOnce(w))
           /\ WF_vars(PollClaims(w) \/ PollClaimLost(w) \/ PollEmpty(w))
           /\ WF_vars(Send(w) \/ DropBatch(w))
           /\ WF_vars(Reap(w))
           /\ WF_vars(ReleaseQueued(w) \/ ReleaseFails(w))
           /\ WF_vars(StopReturns(w))
           /\ WF_vars(Resume(w))
           /\ WF_vars(Start(w))
           /\ \A s \in Slots :
                  /\ WF_vars(Receive(w, s) \/ Exit(w, s))
                  /\ WF_vars(Heartbeat(w, s) \/ HeartbeatLost(w, s))
                  /\ WF_vars(\E outcome \in Outcome : RunJob(w, s, outcome))
                  /\ WF_vars(Record(w, s) \/ RecordFails(w, s))

FairSpec == Spec /\ Fairness

-----------------------------------------------------------------------------
(* Properties.                                                             *)

\* The replicas' memory has the shape the code gives it.
TypeOK ==
    /\ RepoTypeOK
    /\ phase \in [Workers -> Phase]
    /\ free \in [Workers -> 0 .. Concurrency]
    /\ batch \in [Workers -> SUBSET Claim]
    /\ jobsCh \in [Workers -> Seq(Claim)]
    /\ slot \in [Workers -> [Slots -> Goroutine]]
    /\ faults \in 0 .. MaxFaults
    /\ stops \in 0 .. MaxStops

\* The place in a replica's memory where a claim is kept: 0 is the batch of
\* pollOnce, -i the i-th element of jobsCh and s the goroutine s.
HeldAt(w, place, c) ==
    \/ place = 0 /\ c \in batch[w]
    \/ -place \in DOMAIN jobsCh[w] /\ c = jobsCh[w][-place]
    \/ place \in Slots /\ slot[w][place].pc \in {"run", "record"}
                       /\ c = slot[w][place].claim

Places == -Concurrency .. Concurrency

Held(w) == batch[w] \cup {jobsCh[w][i] : i \in DOMAIN jobsCh[w]}
                    \cup {slot[w][s].claim : s \in {r \in Slots :
                               slot[w][r].pc \in {"run", "record"}}}

\* SKIP LOCKED, the status guard and the channel hand every claim to one
\* goroutine of one replica: no attempt of a job is ever in two places, however
\* leases expire, jobs are reaped and claimed again, and replicas come and go.
ClaimHeldOnce ==
    \A w, v \in Workers, p, q \in Places : \A c \in Held(w) :
        HeldAt(w, p, c) /\ HeldAt(v, q, c) => w = v /\ p = q

\* pollOnce never claims more than the channel can take, although the free
\* capacity is read before the claim and used after it: the poller does not
\* block in its send while the leases of the rest of the batch run out.
PollerHasRoom ==
    \A w \in Workers :
        Len(jobsCh[w]) + Cardinality(batch[w]) + free[w] <= Concurrency

\* Without faults no job that a running replica holds is ever exposed to the
\* reaper, however many leases its run outlasts, even when the replica's clock
\* is half a lease behind the database's (all that the heartbeat leaves over).
\* The code achieves this when a goroutine is idle whenever a job is claimed,
\* or when no run takes longer than half a lease: in jobsCh nothing renews a
\* lease.
NeverReapedAlive ==
    faults = 0 =>
        \A w \in Workers : \A c \in Held(w) :
            /\ phase[w] = "running"
            /\ jobs[c.job].status = "processing"
            /\ jobs[c.job].attempts = c.attempt
            => jobs[c.job].lease_until >= 0

\* A processing row is in somebody's hands: without faults and signals the
\* replica named in locked_by holds the very claim the row counts, so no path
\* of pollOnce, workerLoop or process forgets a job.
NoClaimForgotten ==
    faults = 0 /\ stops = 0 =>
        \A j \in JobIds :
            jobs[j].status = "processing" =>
                [job |-> j, attempt |-> jobs[j].attempts]
                    \in Held(jobs[j].locked_by)

\* Without faults, a goroutine that is done with a job leaves no row behind in
\* `processing` that still counts its claim, also while the replica is shutting
\* down: the outcome is recorded (worker.go: process, recordFailure).
OutcomeRecorded ==
    [][\A w \in Workers, s \in Slots :
           LET c == slot[w][s].claim
           IN  /\ faults' = 0
               /\ slot[w][s].pc = "record"
               /\ slot'[w][s].pc # "record"
               => ~ /\ jobs'[c.job].status = "processing"
                    /\ jobs'[c.job].attempts = c.attempt]_vars

\* Whatever the replicas do to the table is a method of JobRepo with arguments
\* the queue was specified for, so the guarantees of JobQueue hold here too.
ImplementsQueue == RepoSpec

\* No accepted job is forgotten: crashes, stalls, lost replies and shutdowns
\* notwithstanding, it ends completed or failed, or it has used up every claim
\* the model allows and waits for the next one.
EveryJobSettles ==
    \A j \in JobIds :
        jobs[j].status # "absent" ~>
            \/ jobs[j].status \in Terminal
            \/ jobs[j].status = "pending" /\ jobs[j].attempts = ClaimBound

-----------------------------------------------------------------------------
(* What the comments promise and the code does not keep.                   *)

\* "a pod that keeps crashing on the same payload still hits MAX_ATTEMPTS
\* instead of looping forever" (jobs.go, ReapExpired): no job is handed out more
\* than MAX_ATTEMPTS times.
AttemptsBounded == \A j \in JobIds : jobs[j].attempts <= MaxAttempts
=============================================================================
