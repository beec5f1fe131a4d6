------------------------- MODULE WorkerClaimProofs --------------------------
(***************************************************************************)
(* Theorems about where claims are kept, for every number of replicas,     *)
(* goroutines, jobs, faults and restarts.  A step is described once by     *)
(* what it does to the table (TableMoves) and once by what it does to the  *)
(* memory of a replica (MemoryMoves); the parts of the invariant follow    *)
(* from these.                                                             *)
(***************************************************************************)
EXTENDS WorkerProofs, FiniteSetTheorems

-----------------------------------------------------------------------------
(* The inductive invariant.                                                *)

\* The claims in the channel, the goroutines at work and the claims in their hands.
Chan(w) == {jobsCh[w][i] : i \in DOMAIN jobsCh[w]}

BusySlots(w) == {s \in Slots : Busy(slot[w][s])}

InHand(w) == {slot[w][s].claim : s \in BusySlots(w)}

\* Every claim in memory was counted by the row it is about.
Counted == \A w \in Workers : \A c \in Held(w) : c.attempt <= jobs[c.job].attempts

\* Within a replica a claim is in one place.
OncePerReplica(w) ==
    /\ batch[w] \cap Chan(w) = {}
    /\ batch[w] \cap InHand(w) = {}
    /\ Chan(w) \cap InHand(w) = {}
    /\ \A i, k \in DOMAIN jobsCh[w] : jobsCh[w][i] = jobsCh[w][k] => i = k
    /\ \A s, r \in BusySlots(w) : slot[w][s].claim = slot[w][r].claim => s = r

\* No two replicas hold the same claim.
Apart == \A w, v \in Workers : w # v => Held(w) \cap Held(v) = {}

\* What pollOnce has claimed, or may still claim, fits in the channel.
RoomSound(w) ==
    /\ IsFiniteSet(batch[w])
    /\ Len(jobsCh[w]) + Cardinality(batch[w]) + free[w] <= Concurrency
    /\ free[w] > 0 => batch[w] = {}

\* What is needed to show that a claim is in one place, and that there is room.
ClaimsInv ==
    /\ QueueInv
    /\ MemoryOK
    /\ Counted
    /\ Apart
    /\ \A w \in Workers : OncePerReplica(w)
    /\ \A w \in Workers : RoomSound(w)

-----------------------------------------------------------------------------
(* The table.                                                              *)

\* The statements that neither claim a row nor are the passing of time.
OtherStatement ==
    \/ \E j \in JobIds : Create(j, "", "")
    \/ \E j \in JobIds : ExtendLease(j, WorkerLease)
    \/ \E j \in JobIds, summary \in Summary : Complete(j, summary)
    \/ \E j \in JobIds, m \in Message, base, max \in Nat :
           Retry(j, m, MaxAttempts, base, max)
    \/ \E j \in JobIds : Fail(j, "rejected")
    \/ ReapExpired

\* What a step does to the table: time passes, a poller claims, or neither.
LEMMA TableMoves ==
    ASSUME WorkerInv, [Next]_vars
    PROVE  \/ Tick
           \/ \E w \in Workers : PollClaims(w) \/ PollClaimLost(w)
           \/ [OtherStatement]_jobs
<1>0. /\ {"processor error", "context canceled", "worker shutting down"} \subseteq Message
      /\ RetryBackoffBase \in Nat /\ RetryBackoffMax \in Nat /\ 0 \in Nat
    BY RepoAssumption DEF Message
<1>1. ASSUME NEW j \in JobIds, Submit(j)
      PROVE  OtherStatement
    BY <1>1 DEF Submit, OtherStatement
<1>2. ASSUME NEW w \in Workers, NEW s \in Slots, Heartbeat(w, s)
      PROVE  [OtherStatement]_jobs
    <2>1. slot[w][s].claim.job \in JobIds
        BY <1>2 DEF Heartbeat, WorkerInv, MemoryOK, Busy, Claim
    <2> QED
        BY <1>2, <2>1, Zenon DEF Heartbeat, NotFound, OtherStatement
<1>3. ASSUME NEW w \in Workers, NEW s \in Slots, Record(w, s)
      PROVE  [OtherStatement]_jobs
    <2>1. slot[w][s].claim.job \in JobIds
        BY <1>3 DEF Record, WorkerInv, MemoryOK, Busy, Claim
    <2>2. slot[w][s].outcome \in {"processor error", "context canceled"} =>
              slot[w][s].outcome \in Message
        BY <1>0
    <2> QED
        BY <1>0, <1>3, <2>1, <2>2, Zenon DEF Record, RecordOutcome, NotFound, OtherStatement
<1>4. ASSUME NEW w \in Workers, ReleaseQueued(w)
      PROVE  [OtherStatement]_jobs
    <2>1. jobsCh[w] \in Seq(Claim) /\ jobsCh[w] # << >>
        BY <1>4 DEF ReleaseQueued, WorkerInv, MemoryOK
    <2>2. Head(jobsCh[w]) \in Claim
        BY <2>1
    <2>3. Head(jobsCh[w]).job \in JobIds /\ "worker shutting down" \in Message
        BY <1>0, <2>2 DEF Claim
    <2> QED
        BY <1>0, <1>4, <2>3, Zenon DEF ReleaseQueued, NotFound, OtherStatement
<1>5. ASSUME NEW w \in Workers, ReplicaNext(w), ~PollClaims(w), ~PollClaimLost(w)
      PROVE  [OtherStatement]_jobs
    <2>1. CASE Reap(w)
        BY <2>1 DEF Reap, OtherStatement
    <2>2. CASE PollOnce(w) \/ PollEmpty(w) \/ Send(w) \/ DropBatch(w)
        BY <2>2 DEF PollOnce, PollEmpty, Send, DropBatch
    <2>3. CASE Sigterm(w) \/ ReleaseFails(w) \/ StopReturns(w) \/ Start(w)
        BY <2>3 DEF Sigterm, ReleaseFails, StopReturns, Start
    <2>4. CASE Stall(w) \/ Resume(w) \/ Crash(w)
        BY <2>4 DEF Stall, Resume, Crash
    <2> QED
        BY <1>4, <1>5, <2>1, <2>2, <2>3, <2>4 DEF ReplicaNext
<1>6. ASSUME NEW w \in Workers, NEW s \in Slots, SlotNext(w, s)
      PROVE  [OtherStatement]_jobs
    <2>1. CASE Receive(w, s) \/ HeartbeatLost(w, s) \/ RecordFails(w, s) \/ Exit(w, s)
        BY <2>1 DEF Receive, HeartbeatLost, RecordFails, Exit
    <2>2. ASSUME NEW outcome \in Outcome, RunJob(w, s, outcome)
          PROVE  [OtherStatement]_jobs
        BY <2>2 DEF RunJob
    <2> QED
        BY <1>2, <1>3, <1>6, <2>1, <2>2 DEF SlotNext
<1>7. CASE UNCHANGED vars
    BY <1>7 DEF vars
<1> QED
    BY <1>1, <1>5, <1>6, <1>7 DEF Next

\* What a row that is processing after the step was before: these statements
\* start no run, and renew a lease or leave it alone.
SameRun(j) ==
    /\ jobs[j].status = "processing"
    /\ jobs'[j].attempts = jobs[j].attempts
    /\ jobs'[j].locked_by = jobs[j].locked_by

\* A row that is processing after such a statement.
LEMMA OtherRow ==
    ASSUME GoodTable, [OtherStatement]_jobs, NEW k \in JobIds,
           jobs'[k].status = "processing"
    PROVE  /\ SameRun(k)
           /\ \/ jobs'[k].lease_until = jobs[k].lease_until
              \/ jobs'[k].lease_until = WorkerLease - ClockLag
<1>0. jobs[k] \in Row /\ jobs \in [JobIds -> Row]
    BY DEF GoodTable
<1>1. ASSUME NEW j \in JobIds, Create(j, "", "")
      PROVE  jobs'[k] = jobs[k]
    <2>1. j # k
        BY <1>0, <1>1 DEF Create, NewRow
    <2> QED
        BY <1>0, <1>1, <2>1 DEF Create
<1>2. ASSUME NEW j \in JobIds, ExtendLease(j, WorkerLease)
      PROVE  \/ jobs'[k] = jobs[k]
             \/ /\ Processing(jobs[k])
                /\ jobs'[k] = LeaseExtended(jobs[k], WorkerLease - ClockLag)
    BY <1>0, <1>2 DEF ExtendLease, LeaseUntil
<1>3. ASSUME NEW j \in JobIds, NEW new, new.status # "processing",
             jobs' = [jobs EXCEPT ![j] = new]
      PROVE  jobs'[k] = jobs[k]
    BY <1>0, <1>3
<1>4. ASSUME NEW j \in JobIds, NEW summary \in Summary, Complete(j, summary)
      PROVE  jobs'[k] = jobs[k]
    <2>1. jobs[j] \in Row
        BY <1>0
    <2>2. Completed(jobs[j], summary).status # "processing"
        BY <2>1 DEF Completed, Row
    <2> QED
        BY <1>3, <1>4, <2>2 DEF Complete
<1>5. ASSUME NEW j \in JobIds, NEW m \in Message, NEW base \in Nat, NEW max \in Nat,
             Retry(j, m, MaxAttempts, base, max)
      PROVE  jobs'[k] = jobs[k]
    <2>1. jobs[j] \in Row
        BY <1>0
    <2>2. Failed(jobs[j], m).status # "processing"
        BY <2>1 DEF Failed, Row
    <2>3. Rescheduled(jobs[j], m, base, max).status # "processing"
        BY <2>1 DEF Rescheduled, Row
    <2>4. Retried(jobs[j], m, MaxAttempts, base, max).status # "processing"
        BY <2>2, <2>3, Zenon DEF Retried
    <2> QED
        BY <1>3, <1>5, <2>4 DEF Retry
<1>6. ASSUME NEW j \in JobIds, Fail(j, "rejected")
      PROVE  jobs'[k] = jobs[k]
    <2>1. jobs[j] \in Row
        BY <1>0
    <2>2. Failed(jobs[j], "rejected").status # "processing"
        BY <2>1 DEF Failed, Row
    <2> QED
        BY <1>3, <1>6, <2>2 DEF Fail
<1>7. CASE ReapExpired
    <2>1. Requeued(jobs[k]).status # "processing"
        BY <1>0 DEF Requeued, Row
    <2> QED
        BY <1>7, <2>1 DEF ReapExpired, SameRun
<1>8. CASE jobs'[k] = jobs[k]
    BY <1>8 DEF SameRun
<1>9. CASE /\ Processing(jobs[k])
           /\ jobs'[k] = LeaseExtended(jobs[k], WorkerLease - ClockLag)
    BY <1>0, <1>9 DEF SameRun, Processing, LeaseExtended, Row
<1> QED
    BY <1>1, <1>2, <1>4, <1>5, <1>6, <1>7, <1>8, <1>9 DEF OtherStatement

\* One tick takes one tick off a lease that has not run out.
LEMMA TickRow ==
    ASSUME GoodTable, Elapse, NEW k \in JobIds, jobs'[k].status = "processing"
    PROVE  /\ SameRun(k)
           /\ jobs[k].lease_until \in Int
           /\ jobs[k].lease_until >= 0 =>
                  jobs'[k].lease_until = jobs[k].lease_until - 1
<1>1. jobs[k] \in Row /\ RowConsistent(jobs[k])
    BY DEF GoodTable
<1>2. jobs'[k] = Aged(jobs[k])
    BY DEF Elapse
<1>3. SameRun(k)
    BY <1>1, <1>2 DEF Aged, Row, SameRun
<1>4. jobs[k].lease_until # NULL
    BY <1>1, <1>3 DEF SameRun, RowConsistent
<1>5. jobs[k].lease_until \in Int
    BY <1>1, <1>4 DEF Row
<1>6. jobs'[k].lease_until = IF jobs[k].lease_until # NULL /\ jobs[k].lease_until >= 0
                             THEN jobs[k].lease_until - 1 ELSE jobs[k].lease_until
    BY <1>1, <1>2 DEF Aged, Row
<1> QED
    BY <1>3, <1>4, <1>5, <1>6, Zenon

\* A claim starts a run of each row it takes and leaves the others alone.
LEMMA ClaimRow ==
    ASSUME GoodTable, NEW w, NEW limit, ClaimBatch(w, WorkerLease, limit),
           NEW k \in JobIds
    PROVE  /\ k \in Oldest(limit) =>
                  /\ jobs[k].status = "pending"
                  /\ jobs'[k].status = "processing"
                  /\ jobs'[k].attempts = jobs[k].attempts + 1
                  /\ jobs'[k].locked_by = w
                  /\ jobs'[k].lease_until = WorkerLease - ClockLag
           /\ k \notin Oldest(limit) => jobs'[k] = jobs[k]
<1>1. jobs[k] \in Row
    BY DEF GoodTable
<1>2. ASSUME k \in Oldest(limit)
      PROVE  /\ jobs[k].status = "pending"
             /\ jobs'[k] = Claimed(jobs[k], w, WorkerLease - ClockLag)
    BY <1>2, Zenon DEF ClaimBatch, Oldest, Claimable, Due, LeaseUntil
<1>3. k \notin Oldest(limit) => jobs'[k] = jobs[k]
    BY DEF ClaimBatch
<1> QED
    BY <1>1, <1>2, <1>3 DEF Claimed, Row

-----------------------------------------------------------------------------
(* The memory.                                                             *)

\* A replica's memory loses claims at most.
Shrinks(w) ==
    /\ batch'[w] \subseteq batch[w]
    /\ \/ jobsCh'[w] = jobsCh[w]
       \/ jobsCh[w] # << >> /\ jobsCh'[w] = Tail(jobsCh[w])
       \/ jobsCh'[w] = << >>
    /\ \A s \in Slots :
           Busy(slot'[w][s]) => Busy(slot[w][s]) /\ slot'[w][s].claim = slot[w][s].claim
    /\ free'[w] <= free[w]

\* All but the goroutines stays as it is.
QueuesKept == UNCHANGED <<free, batch, jobsCh>>

\* One goroutine changes, the others stay as they are.
LEMMA OneSlot ==
    ASSUME MemoryOK, NEW w \in Workers, NEW s \in Slots, NEW g,
           slot' = [slot EXCEPT ![w][s] = g]
    PROVE  /\ slot'[w][s] = g
           /\ \A v \in Workers, r \in Slots :
                  v # w \/ r # s => slot'[v][r] = slot[v][r]
<1> HIDE DEF Slots
<1>1. slot \in [Workers -> [Slots -> Goroutine]]
    BY DEF MemoryOK
<1> HIDE DEF Goroutine
<1> QED
    BY <1>1

\* free counts places.
LEMMA FreeType ==
    ASSUME MemoryOK, NEW w \in Workers
    PROVE  free[w] \in Nat /\ free[w] <= free[w]
<1>1. free[w] \in 0 .. Concurrency
    BY DEF MemoryOK
<1> QED
    BY <1>1, WorkerAssumption

\* A step that leaves the queues alone, and whose goroutine takes no new claim.
LEMMA SlotStepShrinks ==
    ASSUME MemoryOK, QueuesKept, NEW w \in Workers, NEW s \in Slots, NEW g,
           slot' = [slot EXCEPT ![w][s] = g],
           Busy(g) => Busy(slot[w][s]) /\ g.claim = slot[w][s].claim
    PROVE  \A v \in Workers : Shrinks(v)
<1>1. \A v \in Workers, r \in Slots :
          slot'[v][r] = slot[v][r] \/ (v = w /\ r = s /\ slot'[v][r] = g)
    <2>1. /\ slot'[w][s] = g
          /\ \A v \in Workers, r \in Slots :
                 v # w \/ r # s => slot'[v][r] = slot[v][r]
        BY OneSlot
    <2> QED
        BY <2>1, Zenon
<1>2. \A v \in Workers : free[v] <= free[v]
    BY FreeType, Zenon
<1> QED
    BY <1>1, <1>2, Zenon DEF Shrinks, QueuesKept

\* A step that leaves goroutines alone and only takes from the queues.
LEMMA QueueStepShrinks ==
    ASSUME MemoryOK, UNCHANGED slot, NEW w \in Workers,
           \A v \in Workers : v # w => /\ free'[v] = free[v]
                                       /\ batch'[v] = batch[v]
                                       /\ jobsCh'[v] = jobsCh[v],
           free'[w] <= free[w],
           batch'[w] \subseteq batch[w],
           \/ jobsCh'[w] = jobsCh[w]
           \/ jobsCh[w] # << >> /\ jobsCh'[w] = Tail(jobsCh[w])
    PROVE  \A v \in Workers : Shrinks(v)
<1>1. \A v \in Workers : free[v] <= free[v]
    BY FreeType, Zenon
<1> QED
    BY <1>1, Zenon DEF Shrinks

\* A replica that the step is not about.
LEMMA OthersShrink ==
    ASSUME MemoryOK, NEW v \in Workers,
           free'[v] = free[v], batch'[v] = batch[v], jobsCh'[v] = jobsCh[v],
           \A s \in Slots : slot'[v][s] = slot[v][s]
    PROVE  Shrinks(v)
<1>1. free[v] <= free[v]
    BY FreeType
<1> QED
    BY <1>1, Zenon DEF Shrinks

\* Only these steps bring a claim to a new place or raise `free`.
Gains(w) == PollOnce(w) \/ PollClaims(w) \/ Send(w) \/ \E s \in Slots : Receive(w, s)

\* A goroutine's step takes a claim from the channel, or nothing is gained.
LEMMA SlotNextMoves ==
    ASSUME WorkerInv, NEW w \in Workers, NEW s \in Slots, SlotNext(w, s)
    PROVE  Receive(w, s) \/ \A v \in Workers : Shrinks(v)
<1> DEFINE g == slot[w][s]
<1>0. MemoryOK /\ g \in Goroutine
    BY DEF WorkerInv, MemoryOK
<1>1. CASE Heartbeat(w, s) \/ HeartbeatLost(w, s)
    <2> DEFINE h == [g EXCEPT !.beat = HeartbeatInterval]
    <2>1. h.pc = g.pc /\ h.claim = g.claim
        BY <1>0 DEF Goroutine
    <2>2. slot' = [slot EXCEPT ![w][s] = h] /\ QueuesKept
        BY <1>1 DEF Heartbeat, HeartbeatLost, QueuesKept
    <2>3. Busy(h) => Busy(g) /\ h.claim = g.claim
        BY <2>1 DEF Busy
    <2> QED
        BY <1>0, <2>2, <2>3, SlotStepShrinks
<1>2. ASSUME NEW outcome \in Outcome, RunJob(w, s, outcome)
      PROVE  \A v \in Workers : Shrinks(v)
    <2> DEFINE h == [g EXCEPT !.pc = "record", !.outcome = outcome]
    <2>1. h.claim = g.claim /\ Busy(g)
        BY <1>0, <1>2 DEF Goroutine, RunJob, Busy
    <2>2. slot' = [slot EXCEPT ![w][s] = h] /\ QueuesKept
        BY <1>2 DEF RunJob, QueuesKept
    <2> QED
        BY <1>0, <2>1, <2>2, SlotStepShrinks
<1>3. ~Busy(Idle) /\ ~Busy(Exited)
    BY DEF Busy, Idle, Exited
<1>4. CASE Record(w, s) \/ RecordFails(w, s)
    <2>1. slot' = [slot EXCEPT ![w][s] = Idle] /\ QueuesKept
        BY <1>4 DEF Record, RecordFails, QueuesKept
    <2> QED
        BY <1>0, <1>3, <2>1, SlotStepShrinks
<1>5. CASE Exit(w, s)
    <2>1. slot' = [slot EXCEPT ![w][s] = Exited] /\ QueuesKept
        BY <1>5 DEF Exit, QueuesKept
    <2> QED
        BY <1>0, <1>3, <2>1, SlotStepShrinks
<1> QED
    BY <1>1, <1>2, <1>4, <1>5 DEF SlotNext

\* So it is with a step of the poller, the reaper, a shutdown, crash or restart.
LEMMA ReplicaNextMoves ==
    ASSUME WorkerInv, NEW w \in Workers, ReplicaNext(w)
    PROVE  Gains(w) \/ \A v \in Workers : Shrinks(v)
<1>0. /\ MemoryOK
      /\ \A v \in Workers : free[v] \in Nat /\ free[v] <= free[v] /\ 0 <= free[v]
      /\ free \in [Workers -> 0 .. Concurrency]
      /\ batch \in [Workers -> SUBSET Claim]
      /\ jobsCh \in [Workers -> Seq(Claim)]
    BY FreeType DEF WorkerInv, MemoryOK
<1>1. CASE PollClaimLost(w) \/ PollEmpty(w)
    <2>1. /\ free' = [free EXCEPT ![w] = 0]
          /\ UNCHANGED <<batch, jobsCh, slot>>
        BY <1>1 DEF PollClaimLost, PollEmpty
    <2>2. free'[w] = 0 /\ \A v \in Workers : v # w => free'[v] = free[v]
        BY <1>0, <2>1
    <2> QED
        BY <1>0, <2>1, <2>2, QueueStepShrinks
<1>2. CASE DropBatch(w)
    <2>1. /\ batch' = [batch EXCEPT ![w] = {}]
          /\ UNCHANGED <<free, jobsCh, slot>>
        BY <1>2 DEF DropBatch
    <2>2. batch'[w] = {} /\ \A v \in Workers : v # w => batch'[v] = batch[v]
        BY <1>0, <2>1
    <2> QED
        BY <1>0, <2>1, <2>2, QueueStepShrinks
<1>3. CASE ReleaseQueued(w) \/ ReleaseFails(w)
    <2>1. /\ jobsCh[w] # << >>
          /\ jobsCh' = [jobsCh EXCEPT ![w] = Tail(@)]
          /\ UNCHANGED <<free, batch, slot>>
        BY <1>3 DEF ReleaseQueued, ReleaseFails
    <2>2. jobsCh'[w] = Tail(jobsCh[w]) /\ \A v \in Workers : v # w => jobsCh'[v] = jobsCh[v]
        BY <1>0, <2>1
    <2> QED
        BY <1>0, <2>1, <2>2, QueueStepShrinks
<1>4. CASE Reap(w) \/ Sigterm(w) \/ StopReturns(w) \/ Stall(w) \/ Resume(w)
    <2>1. UNCHANGED <<free, batch, jobsCh, slot>>
        BY <1>4 DEF Reap, local, Sigterm, StopReturns, Stall, Resume
    <2> QED
        BY <1>0, <2>1, OthersShrink
<1>5. ~Busy(Idle) /\ ~Busy(Exited)
    BY DEF Busy, Idle, Exited
<1>6. ASSUME NEW g, ~Busy(g), slot' = [slot EXCEPT ![w] = [s \in Slots |-> g]]
      PROVE  \A s \in Slots :
                 /\ ~Busy(slot'[w][s])
                 /\ \A v \in Workers : v # w => slot'[v][s] = slot[v][s]
    <2> HIDE DEF Slots, Goroutine, Busy
    <2>1. slot \in [Workers -> [Slots -> Goroutine]]
        BY <1>0 DEF MemoryOK
    <2>2. slot'[w] = [s \in Slots |-> g] /\ \A v \in Workers : v # w => slot'[v] = slot[v]
        BY <1>6, <2>1
    <2> QED
        BY <1>6, <2>2
<1>7. CASE Crash(w)
    <2>1. \A s \in Slots :
              /\ ~Busy(slot'[w][s])
              /\ \A v \in Workers : v # w => slot'[v][s] = slot[v][s]
        BY <1>5, <1>6, <1>7 DEF Crash
    <2>2. /\ free'[w] = 0 /\ batch'[w] = {} /\ jobsCh'[w] = << >>
          /\ \A v \in Workers : v # w => /\ free'[v] = free[v]
                                         /\ batch'[v] = batch[v]
                                         /\ jobsCh'[v] = jobsCh[v]
        BY <1>0, <1>7 DEF Crash
    <2>3. Shrinks(w)
        BY <1>0, <2>1, <2>2, Zenon DEF Shrinks
    <2>4. \A v \in Workers : v # w => Shrinks(v)
        BY <1>0, <2>1, <2>2, OthersShrink
    <2> QED
        BY <2>3, <2>4
<1>8. CASE Start(w)
    <2>1. \A s \in Slots :
              /\ ~Busy(slot'[w][s])
              /\ \A v \in Workers : v # w => slot'[v][s] = slot[v][s]
        BY <1>5, <1>6, <1>8 DEF Start
    <2>2. UNCHANGED <<free, batch, jobsCh>>
        BY <1>8 DEF Start
    <2>3. Shrinks(w)
        BY <1>0, <2>1, <2>2, Zenon DEF Shrinks
    <2>4. \A v \in Workers : v # w => Shrinks(v)
        BY <1>0, <2>1, <2>2, OthersShrink
    <2> QED
        BY <2>3, <2>4
<1> QED
    BY <1>1, <1>2, <1>3, <1>4, <1>7, <1>8, Zenon DEF ReplicaNext, Gains

\* When a replica gains, the others are as they were.
LEMMA GainsAlone ==
    ASSUME MemoryOK, NEW w \in Workers, Gains(w)
    PROVE  \A v \in Workers :
               v # w => /\ free'[v] = free[v]
                        /\ batch'[v] = batch[v]
                        /\ jobsCh'[v] = jobsCh[v]
                        /\ \A s \in Slots : slot'[v][s] = slot[v][s]
                        /\ Shrinks(v)
<1>0. /\ free \in [Workers -> 0 .. Concurrency]
      /\ batch \in [Workers -> SUBSET Claim]
      /\ jobsCh \in [Workers -> Seq(Claim)]
    BY DEF MemoryOK
<1> SUFFICES ASSUME NEW v \in Workers, v # w
             PROVE  /\ free'[v] = free[v]
                    /\ batch'[v] = batch[v]
                    /\ jobsCh'[v] = jobsCh[v]
                    /\ \A s \in Slots : slot'[v][s] = slot[v][s]
    BY OthersShrink
<1>1. CASE PollOnce(w)
    BY <1>0, <1>1 DEF PollOnce
<1>2. CASE PollClaims(w)
    BY <1>0, <1>2 DEF PollClaims
<1>3. CASE Send(w)
    BY <1>0, <1>3 DEF Send
<1>4. ASSUME NEW s \in Slots, Receive(w, s)
      PROVE  /\ free'[v] = free[v]
             /\ batch'[v] = batch[v]
             /\ jobsCh'[v] = jobsCh[v]
             /\ \A r \in Slots : slot'[v][r] = slot[v][r]
    <2>1. \A r \in Slots : slot'[v][r] = slot[v][r]
        BY <1>4, OneSlot DEF Receive
    <2>2. jobsCh'[v] = jobsCh[v] /\ UNCHANGED <<free, batch>>
        BY <1>0, <1>4 DEF Receive
    <2> QED
        BY <2>1, <2>2
<1> QED
    BY <1>1, <1>2, <1>3, <1>4 DEF Gains

\* And hence with every step.
LEMMA MemoryMoves ==
    ASSUME WorkerInv, [Next]_vars
    PROVE  (\A v \in Workers : Shrinks(v)) \/ (\E w \in Workers : Gains(w))
<1>1. ASSUME NEW j \in JobIds, Submit(j)
      PROVE  \A v \in Workers : Shrinks(v)
    BY <1>1, OthersShrink DEF Submit, local, WorkerInv
<1>2. CASE UNCHANGED vars
    BY <1>2, OthersShrink DEF vars, local, WorkerInv
<1>3. CASE Tick
    <2>1. \A v \in Workers, s \in Slots : slot'[v][s] = AgedSlot(slot[v][s])
        BY <1>3 DEF Tick
    <2>2. \A v \in Workers, s \in Slots :
              /\ AgedSlot(slot[v][s]).pc = slot[v][s].pc
              /\ AgedSlot(slot[v][s]).claim = slot[v][s].claim
        BY AgedSlotType DEF WorkerInv, MemoryOK
    <2>3. \A v \in Workers, s \in Slots :
              Busy(slot'[v][s]) => Busy(slot[v][s]) /\ slot'[v][s].claim = slot[v][s].claim
        BY <2>1, <2>2 DEF Busy
    <2>4. UNCHANGED <<free, batch, jobsCh>> /\ \A v \in Workers : free[v] <= free[v]
        BY <1>3, FreeType DEF Tick, WorkerInv
    <2> QED
        BY <2>3, <2>4, Zenon DEF Shrinks
<1> QED
    BY <1>1, <1>2, <1>3, SlotNextMoves, ReplicaNextMoves, Zenon DEF Next, Gains

-----------------------------------------------------------------------------
(* Claims are in one place.                                                *)

\* What a replica holds is in its batch, in its channel or in a goroutine's hands,
\* and consists of claims.
LEMMA HeldParts ==
    ASSUME MemoryOK, NEW w \in Workers
    PROVE  /\ Held(w) = batch[w] \cup Chan(w) \cup InHand(w)
           /\ Held(w) \subseteq Claim
<1>1. Held(w) = batch[w] \cup Chan(w) \cup InHand(w)
    BY DEF Held, Chan, InHand, BusySlots, Busy
<1>2. batch[w] \subseteq Claim /\ jobsCh[w] \in Seq(Claim)
    BY DEF MemoryOK
<1>3. Chan(w) \subseteq Claim
    BY <1>2 DEF Chan
<1>4. InHand(w) \subseteq Claim
    BY DEF MemoryOK, InHand, BusySlots
<1> QED
    BY <1>1, <1>2, <1>3, <1>4

\* The same after a step.
LEMMA HeldPartsNext ==
    ASSUME MemoryOK', NEW w \in Workers
    PROVE  /\ Held(w)' = batch'[w] \cup Chan(w)' \cup InHand(w)'
           /\ Held(w)' \subseteq Claim
<1>1. Held(w)' = batch'[w] \cup Chan(w)' \cup InHand(w)'
    BY DEF Held, Chan, InHand, BusySlots, Busy
<1>2. batch'[w] \subseteq Claim /\ jobsCh'[w] \in Seq(Claim)
    BY DEF MemoryOK
<1>3. Chan(w)' \subseteq Claim
    BY <1>2 DEF Chan
<1>4. InHand(w)' \subseteq Claim
    BY DEF MemoryOK, InHand, BusySlots
<1> QED
    BY <1>1, <1>2, <1>3, <1>4

\* The channel without its head.
LEMMA TailOf ==
    ASSUME NEW q \in Seq(Claim), q # << >>
    PROVE  /\ Head(q) \in Claim
           /\ Head(q) = q[1] /\ 1 \in DOMAIN q
           /\ Tail(q) \in Seq(Claim)
           /\ Len(Tail(q)) = Len(q) - 1
           /\ \A i \in DOMAIN Tail(q) : i + 1 \in DOMAIN q /\ Tail(q)[i] = q[i + 1]
           /\ \A i \in DOMAIN q : i = 1 \/ (i - 1 \in DOMAIN Tail(q) /\ q[i] = Tail(q)[i - 1])
<1> HIDE DEF Claim
<1> QED
    OBVIOUS

\* Positions in a channel are numbers.
LEMMA Positions ==
    ASSUME NEW q \in Seq(Claim)
    PROVE  /\ Len(q) \in Nat
           /\ DOMAIN q = 1 .. Len(q)
           /\ DOMAIN q \subseteq Nat
<1> HIDE DEF Claim
<1> QED
    OBVIOUS

\* A channel that keeps its elements, loses its head or is emptied holds nothing
\* new, and nothing twice.
LEMMA ChanShrinks ==
    ASSUME MemoryOK, NEW w \in Workers, Shrinks(w),
           \A i, k \in DOMAIN jobsCh[w] : jobsCh[w][i] = jobsCh[w][k] => i = k
    PROVE  /\ Chan(w)' \subseteq Chan(w)
           /\ \A i, k \in DOMAIN jobsCh'[w] : jobsCh'[w][i] = jobsCh'[w][k] => i = k
<1>0. jobsCh[w] \in Seq(Claim)
    BY DEF MemoryOK
<1>1. CASE jobsCh'[w] = jobsCh[w]
    BY <1>1 DEF Chan
<1>2. CASE jobsCh'[w] = << >>
    BY <1>2 DEF Chan
<1>3. CASE jobsCh[w] # << >> /\ jobsCh'[w] = Tail(jobsCh[w])
    <2> DEFINE q == jobsCh[w]
    <2>1. \A i \in DOMAIN Tail(q) : i + 1 \in DOMAIN q /\ Tail(q)[i] = q[i + 1]
        BY <1>0, <1>3, TailOf
    <2>2. DOMAIN Tail(q) \subseteq Nat
        BY <1>0, <1>3, TailOf, Positions
    <2>3. Chan(w)' \subseteq Chan(w)
        BY <1>3, <2>1 DEF Chan
    <2>4. \A i, k \in DOMAIN Tail(q) : Tail(q)[i] = Tail(q)[k] => i = k
        <3> SUFFICES ASSUME NEW i \in DOMAIN Tail(q), NEW k \in DOMAIN Tail(q),
                            Tail(q)[i] = Tail(q)[k]
                     PROVE  i = k
            OBVIOUS
        <3>1. i + 1 = k + 1
            BY <2>1
        <3> QED
            BY <2>2, <3>1
    <2> QED
        BY <1>3, <2>3, <2>4
<1> QED
    BY <1>1, <1>2, <1>3 DEF Shrinks

\* So a replica whose memory shrinks keeps every claim it keeps in one place.
LEMMA OnceShrinks ==
    ASSUME MemoryOK, MemoryOK', NEW w \in Workers, Shrinks(w), OncePerReplica(w)
    PROVE  OncePerReplica(w)' /\ Held(w)' \subseteq Held(w)
<1>1. /\ Chan(w)' \subseteq Chan(w)
      /\ \A i, k \in DOMAIN jobsCh'[w] : jobsCh'[w][i] = jobsCh'[w][k] => i = k
    BY ChanShrinks DEF OncePerReplica
<1>2. \A s \in BusySlots(w)' : s \in BusySlots(w) /\ slot'[w][s].claim = slot[w][s].claim
    BY DEF Shrinks, BusySlots
<1>3. InHand(w)' \subseteq InHand(w)
    BY <1>2 DEF InHand
<1>4. batch'[w] \subseteq batch[w]
    BY DEF Shrinks
<1>5. Held(w)' \subseteq Held(w)
    BY <1>1, <1>3, <1>4, HeldParts, HeldPartsNext
<1>6. \A s, r \in BusySlots(w)' : slot'[w][s].claim = slot'[w][r].claim => s = r
    BY <1>2 DEF OncePerReplica
<1> QED
    BY <1>1, <1>3, <1>4, <1>5, <1>6 DEF OncePerReplica

\* A claim that ClaimBatch returns has a higher attempt than any claim in memory.
LEMMA ClaimsFresh ==
    ASSUME GoodTable, MemoryOK, Counted, NEW limit, NEW c \in ClaimsOf(limit),
           NEW v \in Workers
    PROVE  /\ c \notin Held(v)
           /\ c.job \in Oldest(limit)
           /\ c.job \in JobIds
           /\ c.attempt = jobs[c.job].attempts + 1
<1>1. PICK j \in Oldest(limit) : c = [job |-> j, attempt |-> jobs[j].attempts + 1]
    BY DEF ClaimsOf
<1>2. c.job = j /\ c.attempt = jobs[j].attempts + 1
    BY <1>1
<1>3. j \in JobIds
    BY DEF Oldest, Claimable
<1>4. jobs[j].attempts \in Nat
    BY <1>3 DEF GoodTable, Row
<1>5. c \in Held(v) => jobs[j].attempts + 1 <= jobs[j].attempts
    BY <1>2 DEF Counted
<1>6. c \notin Held(v)
    BY <1>4, <1>5
<1> QED
    BY <1>1, <1>2, <1>3, <1>6

\* The poller is handed new claims only.
LEMMA OncePollClaims ==
    ASSUME QueueInv, MemoryOK, MemoryOK', Counted, NEW w \in Workers, PollClaims(w),
           OncePerReplica(w)
    PROVE  /\ OncePerReplica(w)'
           /\ batch'[w] = ClaimsOf(free[w])
           /\ Held(w)' \subseteq Held(w) \cup ClaimsOf(free[w])
<1>1. /\ batch'[w] = ClaimsOf(free[w])
      /\ UNCHANGED <<jobsCh, slot>>
    BY DEF PollClaims, MemoryOK
<1>2. Chan(w)' = Chan(w) /\ InHand(w)' = InHand(w) /\ BusySlots(w)' = BusySlots(w)
    BY <1>1 DEF Chan, InHand, BusySlots
<1>3. \A c \in ClaimsOf(free[w]) : c \notin Held(w)
    BY ClaimsFresh DEF QueueInv
<1>4. Held(w) = batch[w] \cup Chan(w) \cup InHand(w)
    BY HeldParts
<1>5. Held(w)' = batch'[w] \cup Chan(w)' \cup InHand(w)'
    BY HeldPartsNext
<1>6. batch'[w] \cap Chan(w)' = {} /\ batch'[w] \cap InHand(w)' = {}
    BY <1>1, <1>2, <1>3, <1>4
<1> QED
    BY <1>1, <1>2, <1>4, <1>5, <1>6 DEF OncePerReplica

\* A send moves a claim from the batch to the channel.
LEMMA OnceSend ==
    ASSUME MemoryOK, MemoryOK', NEW w \in Workers, Send(w), OncePerReplica(w)
    PROVE  OncePerReplica(w)' /\ Held(w)' \subseteq Held(w)
<1> DEFINE q == jobsCh[w]
<1>1. PICK c \in batch[w] :
          /\ jobsCh'[w] = Append(q, c)
          /\ batch'[w] = batch[w] \ {c}
    BY DEF Send, MemoryOK
<1>2. UNCHANGED slot
    BY DEF Send
<1>3. InHand(w)' = InHand(w) /\ BusySlots(w)' = BusySlots(w)
    BY <1>2 DEF InHand, BusySlots
<1>4. q \in Seq(Claim) /\ batch[w] \subseteq Claim
    BY DEF MemoryOK
<1>5. /\ \A i \in DOMAIN Append(q, c) :
             \/ i \in DOMAIN q /\ Append(q, c)[i] = q[i]
             \/ i = Len(q) + 1 /\ Append(q, c)[i] = c
    <2> HIDE DEF Claim, q
    <2> QED
        BY <1>4
<1>6. c \notin Chan(w) /\ c \notin InHand(w)
    BY DEF OncePerReplica
<1>7. Chan(w)' \subseteq Chan(w) \cup {c}
    BY <1>1, <1>5 DEF Chan
<1>8. \A i, k \in DOMAIN Append(q, c) : Append(q, c)[i] = Append(q, c)[k] => i = k
    <2>1. \A i \in DOMAIN q : q[i] # c
        BY <1>6 DEF Chan
    <2> HIDE DEF q
    <2> QED
        BY <1>5, <2>1, Zenon DEF OncePerReplica, q
<1>9. Held(w)' \subseteq Held(w)
    BY <1>1, <1>3, <1>7, HeldParts, HeldPartsNext
<1>10. batch'[w] \cap Chan(w)' = {} /\ batch'[w] \cap InHand(w)' = {} /\ Chan(w)' \cap InHand(w)' = {}
    BY <1>1, <1>3, <1>6, <1>7 DEF OncePerReplica
<1> QED
    BY <1>1, <1>2, <1>3, <1>8, <1>9, <1>10 DEF OncePerReplica

\* A goroutine takes the head of the channel.
LEMMA ReceiveSlots ==
    ASSUME MemoryOK, NEW w \in Workers, NEW s \in Slots, Receive(w, s)
    PROVE  /\ slot'[w][s] = Running(Head(jobsCh[w]))
           /\ \A r \in Slots : r # s => slot'[w][r] = slot[w][r]
<1>1. slot' = [slot EXCEPT ![w][s] = Running(Head(jobsCh[w]))]
    BY DEF Receive
<1> HIDE DEF Slots
<1>2. slot \in [Workers -> [Slots -> Goroutine]]
    BY DEF MemoryOK
<1> HIDE DEF Goroutine
<1>3. slot' = [slot EXCEPT ![w] = [slot[w] EXCEPT ![s] = Running(Head(jobsCh[w]))]]
    BY <1>1, Zenon
<1>4. slot'[w] = [slot[w] EXCEPT ![s] = Running(Head(jobsCh[w]))]
    BY <1>2, <1>3, Zenon
<1>5. slot[w] \in [Slots -> Goroutine]
    BY <1>2, Zenon
<1> QED
    BY <1>4, <1>5, Zenon

\* A receive moves a claim from the channel to a goroutine.
LEMMA OnceReceive ==
    ASSUME MemoryOK, MemoryOK', NEW w \in Workers, NEW s \in Slots, Receive(w, s),
           OncePerReplica(w)
    PROVE  OncePerReplica(w)' /\ Held(w)' \subseteq Held(w)
<1> DEFINE q == jobsCh[w]
           c == Head(jobsCh[w])
<1>1. q \in Seq(Claim) /\ q # << >> /\ batch'[w] = batch[w] /\ jobsCh'[w] = Tail(q)
    BY DEF Receive, MemoryOK
<1>2. /\ c \in Claim /\ c = q[1] /\ 1 \in DOMAIN q
      /\ \A i \in DOMAIN Tail(q) : i + 1 \in DOMAIN q /\ Tail(q)[i] = q[i + 1]
      /\ DOMAIN Tail(q) \subseteq Nat \ {0}
    <2>1. /\ c \in Claim /\ c = q[1] /\ 1 \in DOMAIN q
          /\ \A i \in DOMAIN Tail(q) : i + 1 \in DOMAIN q /\ Tail(q)[i] = q[i + 1]
          /\ Tail(q) \in Seq(Claim)
        BY <1>1, TailOf
    <2>2. DOMAIN Tail(q) = 1 .. Len(Tail(q)) /\ Len(Tail(q)) \in Nat
        BY <2>1, Positions
    <2> QED
        BY <2>1, <2>2
<1>3. /\ slot'[w][s] = Running(c)
      /\ \A r \in Slots : r # s => slot'[w][r] = slot[w][r]
    BY ReceiveSlots
<1>4. Running(c).claim = c /\ Busy(Running(c))
    <2>1. Running(c).pc = "run"
        BY DEF Running, Idle
    <2> QED
        BY <1>2, <2>1, RunningType DEF Busy
<1>5. ~Busy(slot[w][s])
    BY DEF Receive, Busy
<1>6. \A r \in BusySlots(w)' :
          \/ r = s /\ slot'[w][r].claim = c
          \/ r \in BusySlots(w) /\ slot'[w][r].claim = slot[w][r].claim
    BY <1>3, <1>4 DEF BusySlots
<1>7. InHand(w)' \subseteq InHand(w) \cup {c}
    BY <1>6 DEF InHand
<1>8. c \in Chan(w)
    BY <1>2 DEF Chan
<1>9. \A i \in DOMAIN Tail(q) : Tail(q)[i] \in Chan(w) /\ Tail(q)[i] # c
    <2> SUFFICES ASSUME NEW i \in DOMAIN Tail(q)
                 PROVE  Tail(q)[i] \in Chan(w) /\ Tail(q)[i] # c
        OBVIOUS
    <2>1. i + 1 \in DOMAIN q /\ Tail(q)[i] = q[i + 1] /\ i \in Nat \ {0}
        BY <1>2
    <2>2. i + 1 # 1
        BY <2>1
    <2> QED
        BY <1>2, <2>1, <2>2 DEF Chan, OncePerReplica
<1>10. \A i, k \in DOMAIN Tail(q) : Tail(q)[i] = Tail(q)[k] => i = k
    <2> SUFFICES ASSUME NEW i \in DOMAIN Tail(q), NEW k \in DOMAIN Tail(q),
                        Tail(q)[i] = Tail(q)[k]
                 PROVE  i = k
        OBVIOUS
    <2>1. i + 1 = k + 1
        BY <1>2 DEF OncePerReplica
    <2> QED
        BY <1>2, <2>1
<1>11. Chan(w)' \subseteq Chan(w) \ {c}
    BY <1>1, <1>9 DEF Chan
<1>12. Held(w)' \subseteq Held(w)
    BY <1>1, <1>7, <1>8, <1>11, HeldParts, HeldPartsNext
<1>13. c \notin InHand(w) /\ c \notin batch[w]
    BY <1>8 DEF OncePerReplica
<1>14. \A r, t \in BusySlots(w)' : slot'[w][r].claim = slot'[w][t].claim => r = t
    <2>1. \A r \in BusySlots(w) : slot[w][r].claim # c
        BY <1>13 DEF InHand
    <2> QED
        BY <1>6, <2>1 DEF OncePerReplica
<1>15. /\ batch'[w] \cap Chan(w)' = {}
       /\ batch'[w] \cap InHand(w)' = {}
       /\ Chan(w)' \cap InHand(w)' = {}
    BY <1>1, <1>7, <1>11, <1>13 DEF OncePerReplica
<1> QED
    BY <1>1, <1>10, <1>12, <1>14, <1>15 DEF OncePerReplica

\* In a step every replica keeps its claims in one place, and only ClaimBatch
\* brings it new ones.
LEMMA OnceStep ==
    ASSUME ClaimsInv, MemoryOK', [Next]_vars, NEW v \in Workers
    PROVE  /\ OncePerReplica(v)'
           /\ \/ Held(v)' \subseteq Held(v)
              \/ /\ PollClaims(v)
                 /\ batch'[v] = ClaimsOf(free[v])
                 /\ Held(v)' \subseteq Held(v) \cup ClaimsOf(free[v])
<1>0. QueueInv /\ MemoryOK /\ Counted /\ WorkerInv /\ OncePerReplica(v)
    BY DEF ClaimsInv, QueueInv, WorkerInv
<1>1. CASE Shrinks(v)
    BY <1>0, <1>1, OnceShrinks
<1>2. CASE Gains(v)
    <2>1. CASE PollOnce(v)
        <3>1. UNCHANGED <<batch, jobsCh, slot>>
            BY <2>1 DEF PollOnce
        <3> QED
            BY <1>0, <3>1 DEF OncePerReplica, Held, Chan, InHand, BusySlots
    <2>2. CASE PollClaims(v)
        BY <1>0, <2>2, OncePollClaims
    <2>3. CASE Send(v)
        BY <1>0, <2>3, OnceSend
    <2>4. ASSUME NEW s \in Slots, Receive(v, s)
          PROVE  OncePerReplica(v)' /\ Held(v)' \subseteq Held(v)
        BY <1>0, <2>4, OnceReceive
    <2> QED
        BY <1>2, <2>1, <2>2, <2>3, <2>4, Zenon DEF Gains
<1>3. ASSUME NEW w \in Workers, Gains(w), v # w
      PROVE  Shrinks(v)
    BY <1>0, <1>3, GainsAlone
<1> QED
    BY <1>0, <1>1, <1>2, <1>3, MemoryMoves, Zenon

\* No claim runs ahead of its row: attempts never fall, and a claim is counted by
\* the statement that hands it out.
LEMMA CountedStep ==
    ASSUME ClaimsInv, MemoryOK', [Next]_vars
    PROVE  Counted'
<1>0. QueueInv /\ GoodTable /\ MemoryOK /\ Counted /\ WorkerInv
    BY DEF ClaimsInv, QueueInv, WorkerInv
<1>1. [RepoNext]_jobs
    BY <1>0, TableStep
<1> SUFFICES ASSUME NEW v \in Workers, NEW c \in Held(v)'
             PROVE  c.attempt <= jobs'[c.job].attempts
    BY DEF Counted
<1>2. c \in Claim
    BY HeldPartsNext
<1>3. c.job \in JobIds /\ c.attempt \in Nat
    BY <1>2 DEF Claim
<1>4. jobs[c.job].attempts \in Nat
    BY <1>0, <1>3 DEF GoodTable, Row
<1>5. CASE c \in Held(v)
    <2>1. c.attempt <= jobs[c.job].attempts
        BY <1>0, <1>5 DEF Counted
    <2>2. jobs'[c.job].attempts >= jobs[c.job].attempts
        BY <1>0, <1>1, <1>3, EveryRowCounted DEF RunCounted
    <2>3. jobs'[c.job].attempts \in Nat
        BY <1>0, <1>1, <1>3, GoodTableStep DEF GoodTable, Row
    <2> QED
        BY <1>3, <1>4, <2>1, <2>2, <2>3
<1>6. CASE PollClaims(v) /\ c \in ClaimsOf(free[v])
    <2>1. c.job \in Oldest(free[v]) /\ c.attempt = jobs[c.job].attempts + 1
        BY <1>0, <1>6, ClaimsFresh
    <2>2. ClaimBatch(v, WorkerLease, free[v])
        BY <1>6 DEF PollClaims
    <2>3. jobs'[c.job].attempts = jobs[c.job].attempts + 1
        BY <1>0, <1>3, <2>1, <2>2, ClaimRow
    <2> QED
        BY <1>4, <2>1, <2>3
<1> QED
    BY <1>5, <1>6, OnceStep

\* Replicas share nothing: only one gains in a step, and what it gains is new.
LEMMA ApartStep ==
    ASSUME ClaimsInv, MemoryOK', [Next]_vars
    PROVE  Apart'
<1>0. QueueInv /\ GoodTable /\ MemoryOK /\ Counted /\ WorkerInv /\ Apart
    BY DEF ClaimsInv, QueueInv, WorkerInv
<1>1. ASSUME NEW w \in Workers, NEW v \in Workers, w # v, PollClaims(w)
      PROVE  Held(v)' \subseteq Held(v)
    <2>1. Gains(w)
        BY <1>1 DEF Gains
    <2>2. Shrinks(v)
        BY <1>0, <1>1, <2>1, GainsAlone
    <2> QED
        BY <1>0, <2>2, OnceShrinks DEF ClaimsInv
<1>2. ASSUME NEW w \in Workers, NEW v \in Workers, NEW c,
             c \in Held(v), c \in ClaimsOf(free[w])
      PROVE  FALSE
    BY <1>0, <1>2, ClaimsFresh
<1> SUFFICES ASSUME NEW w \in Workers, NEW v \in Workers, w # v, NEW c,
                    c \in Held(w)', c \in Held(v)'
             PROVE  FALSE
    BY DEF Apart
<1>3. ~(c \in Held(w) /\ c \in Held(v))
    BY <1>0 DEF Apart
<1>4. c \in Held(w) \/ (PollClaims(w) /\ c \in ClaimsOf(free[w]))
    BY OnceStep
<1>5. c \in Held(v) \/ (PollClaims(v) /\ c \in ClaimsOf(free[v]))
    BY OnceStep
<1>6. CASE PollClaims(w)
    <2>1. c \in Held(v)
        BY <1>1, <1>6
    <2> QED
        BY <1>2, <1>3, <1>4, <2>1
<1>7. CASE PollClaims(v)
    <2>1. c \in Held(w)
        BY <1>1, <1>7
    <2> QED
        BY <1>2, <1>3, <1>5, <2>1
<1> QED
    BY <1>3, <1>4, <1>5, <1>6, <1>7, Zenon

-----------------------------------------------------------------------------
(* There is room in the channel.                                           *)

\* LIMIT: the inner SELECT of ClaimBatch returns no more rows than were asked for,
\* since each has a different number of older ones.
LEMMA OldestFew ==
    ASSUME NEW limit \in Nat
    PROVE  IsFiniteSet(Oldest(limit)) /\ Cardinality(Oldest(limit)) <= limit
<1> DEFINE Older(j) == {k \in Claimable : k < j}
           f == [j \in Oldest(limit) |-> Cardinality(Older(j))]
<1>1. Claimable \subseteq JobIds /\ IsFiniteSet(JobIds) /\ JobIds \subseteq Nat
    <2>1. IsFiniteSet(1 .. NumJobs)
        BY RepoAssumption, FS_Interval
    <2> QED
        BY <2>1, RepoAssumption DEF Claimable, JobIds
<1>2. \A j \in Claimable : /\ IsFiniteSet(Older(j))
                           /\ Cardinality(Older(j)) \in Nat
    <2> SUFFICES ASSUME NEW j \in Claimable
                 PROVE  IsFiniteSet(Older(j)) /\ Cardinality(Older(j)) \in Nat
        OBVIOUS
    <2>1. Older(j) \in SUBSET JobIds
        BY <1>1
    <2>2. IsFiniteSet(Older(j))
        BY <1>1, <2>1, FS_Subset
    <2> QED
        BY <2>2, FS_CardinalityType
<1>3. ASSUME NEW i \in Claimable, NEW j \in Claimable, i < j
      PROVE  Cardinality(Older(i)) < Cardinality(Older(j))
    <2>1. i \notin Older(i) /\ Older(i) \cup {i} \in SUBSET Older(j)
        <3>1. i \in Nat /\ j \in Nat /\ \A k \in Claimable : k \in Nat
            BY <1>1
        <3>2. ~(i < i) /\ \A k \in Nat : k < i => k < j
            BY <1>3, <3>1
        <3> QED
            BY <1>3, <3>1, <3>2, Zenon
    <2> HIDE DEF Older
    <2>2. Cardinality(Older(i) \cup {i}) = Cardinality(Older(i)) + 1
        BY <1>2, <2>1, FS_AddElement
    <2>3. Cardinality(Older(i) \cup {i}) <= Cardinality(Older(j))
        BY <1>2, <2>1, FS_Subset
    <2>4. Cardinality(Older(i)) \in Nat /\ Cardinality(Older(j)) \in Nat
        BY <1>2
    <2> QED
        BY <2>2, <2>3, <2>4
<1>4. \A j \in Oldest(limit) : j \in Claimable /\ Cardinality(Older(j)) \in 0 .. limit - 1
    <2> SUFFICES ASSUME NEW j \in Oldest(limit)
                 PROVE  j \in Claimable /\ Cardinality(Older(j)) \in 0 .. limit - 1
        OBVIOUS
    <2>1. j \in Claimable /\ Cardinality(Older(j)) < limit
        BY DEF Oldest
    <2>2. Cardinality(Older(j)) \in Nat
        BY <1>2, <2>1
    <2> HIDE DEF Older
    <2> QED
        BY <2>1, <2>2
<1> HIDE DEF Older
<1>5. f \in Injection(Oldest(limit), 0 .. limit - 1)
    <2>1. f \in [Oldest(limit) -> 0 .. limit - 1]
        BY <1>4
    <2>2. ASSUME NEW i \in Oldest(limit), NEW j \in Oldest(limit), f[i] = f[j]
          PROVE  i = j
        <3>1. /\ i \in Claimable /\ j \in Claimable /\ i \in Nat /\ j \in Nat
              /\ Cardinality(Older(i)) \in Nat /\ Cardinality(Older(j)) \in Nat
            BY <1>1, <1>2, <1>4
        <3>2. Cardinality(Older(i)) = Cardinality(Older(j))
            BY <2>2
        <3>3. ~(i < j) /\ ~(j < i)
            BY <1>3, <3>1, <3>2
        <3> QED
            BY <3>1, <3>3
    <2> HIDE DEF f
    <2> QED
        BY <2>1, <2>2, Zenon DEF Injection, IsInjective
<1>6. IsFiniteSet(0 .. limit - 1) /\ Cardinality(0 .. limit - 1) = limit
    BY FS_Interval
<1> HIDE DEF f
<1> QED
    BY <1>5, <1>6, FS_Injection

\* So a poller gets no more claims than it asked for.
LEMMA ClaimsFew ==
    ASSUME NEW limit \in Nat
    PROVE  /\ IsFiniteSet(ClaimsOf(limit))
           /\ Cardinality(ClaimsOf(limit)) \in Nat
           /\ Cardinality(ClaimsOf(limit)) <= limit
<1> DEFINE f == [c \in ClaimsOf(limit) |-> c.job]
<1>1. \A c \in ClaimsOf(limit) :
          /\ c.job \in Oldest(limit)
          /\ c = [job |-> c.job, attempt |-> jobs[c.job].attempts + 1]
    BY DEF ClaimsOf
<1>2. f \in [ClaimsOf(limit) -> Oldest(limit)]
    BY <1>1
<1>3. \A c, d \in ClaimsOf(limit) : f[c] = f[d] => c = d
    BY <1>1
<1> HIDE DEF f
<1>4. f \in Injection(ClaimsOf(limit), Oldest(limit))
    BY <1>2, <1>3, Zenon DEF Injection, IsInjective
<1>5. IsFiniteSet(Oldest(limit)) /\ Cardinality(Oldest(limit)) <= limit
    BY OldestFew
<1>6. /\ IsFiniteSet(ClaimsOf(limit))
      /\ Cardinality(ClaimsOf(limit)) <= Cardinality(Oldest(limit))
    BY <1>4, <1>5, FS_Injection
<1>7. Cardinality(ClaimsOf(limit)) \in Nat /\ Cardinality(Oldest(limit)) \in Nat
    BY <1>5, <1>6, FS_CardinalityType
<1> QED
    BY <1>5, <1>6, <1>7

\* RoomSound, in a form about numbers.
LEMMA RoomNumbers ==
    ASSUME MemoryOK, NEW v \in Workers, RoomSound(v)
    PROVE  /\ Cardinality(batch[v]) \in Nat
           /\ Len(jobsCh[v]) \in Nat
           /\ free[v] \in Nat
           /\ Concurrency \in Nat
<1>1. Cardinality(batch[v]) \in Nat
    BY FS_CardinalityType DEF RoomSound
<1>2. jobsCh[v] \in Seq(Claim)
    BY DEF MemoryOK
<1> QED
    BY <1>1, <1>2, FreeType, Positions, WorkerAssumption

\* Goroutines only make room, so the room pollOnce saw is still there.
LEMMA RoomStep ==
    ASSUME ClaimsInv, MemoryOK', [Next]_vars, NEW v \in Workers
    PROVE  RoomSound(v)'
<1>0. /\ MemoryOK /\ WorkerInv /\ RoomSound(v)
      /\ jobsCh[v] \in Seq(Claim) /\ jobsCh'[v] \in Seq(Claim)
      /\ free'[v] \in Nat
    BY FreeType, WorkerAssumption DEF ClaimsInv, QueueInv, WorkerInv, MemoryOK
<1> DEFINE n == Len(jobsCh[v])
           b == Cardinality(batch[v])
           f == free[v]
<1>n. n \in Nat /\ b \in Nat /\ f \in Nat /\ Concurrency \in Nat
    BY <1>0, RoomNumbers
<1>r. n + b + f <= Concurrency /\ (f > 0 => batch[v] = {}) /\ IsFiniteSet(batch[v])
    BY <1>0 DEF RoomSound
<1>1. CASE Shrinks(v)
    <2>1. batch'[v] \in SUBSET batch[v] /\ free'[v] <= f
        BY <1>1 DEF Shrinks
    <2>2. IsFiniteSet(batch'[v]) /\ Cardinality(batch'[v]) <= b
        BY <1>r, <2>1, FS_Subset
    <2>3. Len(jobsCh'[v]) \in Nat /\ Len(jobsCh'[v]) <= n
        <3>1. CASE jobsCh'[v] = jobsCh[v]
            BY <1>n, <3>1
        <3>2. CASE jobsCh'[v] = << >>
            BY <1>n, <3>2
        <3>3. CASE jobsCh[v] # << >> /\ jobsCh'[v] = Tail(jobsCh[v])
            <4>1. Len(jobsCh'[v]) = n - 1 /\ Len(jobsCh'[v]) \in Nat
                BY <1>0, <3>3, TailOf, Positions
            <4> QED
                BY <1>n, <4>1
        <3> QED
            BY <1>1, <3>1, <3>2, <3>3 DEF Shrinks
    <2>4. Cardinality(batch'[v]) \in Nat
        BY <2>2, FS_CardinalityType
    <2> HIDE DEF n, b, f
    <2>5. Len(jobsCh'[v]) + Cardinality(batch'[v]) + free'[v] <= Concurrency
        BY <1>0, <1>n, <1>r, <2>1, <2>2, <2>3, <2>4
    <2>6. free'[v] > 0 => f > 0
        BY <1>0, <1>n, <2>1
    <2> QED
        BY <1>r, <2>1, <2>2, <2>5, <2>6 DEF RoomSound
<1>2. CASE PollOnce(v)
    <2>1. /\ free'[v] = Room(v) /\ batch[v] = {} /\ f = 0
          /\ UNCHANGED <<batch, jobsCh>>
        BY <1>0, <1>2 DEF PollOnce, MemoryOK
    <2>2. Room(v) <= Concurrency - n
        <3>1. \/ Room(v) = Concurrency - n
              \/ Concurrency - n > WorkerClaimBatch /\ Room(v) = WorkerClaimBatch
            BY DEF Room
        <3> HIDE DEF n
        <3> QED
            BY <1>n, <3>1, RepoAssumption
    <2>3. b = 0
        BY <2>1, FS_EmptySet
    <2>4. n + 0 + Room(v) <= Concurrency
        <3>1. Room(v) \in Nat
            BY <1>0, <2>1
        <3> HIDE DEF n
        <3> QED
            BY <1>n, <2>2, <3>1
    <2> QED
        BY <1>r, <2>1, <2>3, <2>4 DEF RoomSound
<1>3. CASE PollClaims(v)
    <2>1. /\ free'[v] = 0 /\ batch'[v] = ClaimsOf(f) /\ f > 0
          /\ UNCHANGED jobsCh
        BY <1>0, <1>3 DEF PollClaims, MemoryOK
    <2>2. /\ IsFiniteSet(ClaimsOf(f)) /\ Cardinality(ClaimsOf(f)) \in Nat
          /\ Cardinality(ClaimsOf(f)) <= f
        BY <1>n, ClaimsFew
    <2> HIDE DEF n, b, f
    <2>3. n + Cardinality(ClaimsOf(f)) + 0 <= Concurrency
        BY <1>n, <1>r, <2>2
    <2>4. Len(jobsCh'[v]) = n
        BY <2>1 DEF n
    <2>5. ~(free'[v] > 0)
        BY <2>1
    <2> QED
        BY <2>1, <2>2, <2>3, <2>4, <2>5 DEF RoomSound
<1>4. CASE Send(v)
    <2>1. PICK c \in batch[v] :
              /\ jobsCh'[v] = Append(jobsCh[v], c)
              /\ batch'[v] = batch[v] \ {c}
              /\ free'[v] = free[v]
        BY <1>0, <1>4 DEF Send, MemoryOK
    <2>2. Len(jobsCh'[v]) = n + 1
        <3>1. c \in Claim
            BY <1>0 DEF MemoryOK
        <3> HIDE DEF Claim
        <3> QED
            BY <1>0, <2>1, <3>1
    <2>3. IsFiniteSet(batch'[v]) /\ Cardinality(batch'[v]) = b - 1
        BY <1>r, <2>1, FS_RemoveElement
    <2>4. (n + 1) + (b - 1) + f <= Concurrency
        <3> HIDE DEF n, b, f
        <3> QED
            BY <1>n, <1>r
    <2>5. free'[v] > 0 => batch'[v] = {}
        BY <1>r, <2>1
    <2> QED
        BY <2>1, <2>2, <2>3, <2>4, <2>5 DEF RoomSound
<1>5. ASSUME NEW s \in Slots, Receive(v, s)
      PROVE  RoomSound(v)'
    <2>1. /\ jobsCh[v] # << >> /\ jobsCh'[v] = Tail(jobsCh[v])
          /\ batch'[v] = batch[v] /\ free'[v] = free[v]
        BY <1>0, <1>5 DEF Receive, MemoryOK
    <2>2. Len(jobsCh'[v]) = n - 1
        BY <1>0, <2>1, TailOf
    <2>3. (n - 1) + b + f <= Concurrency
        <3> HIDE DEF n, b, f
        <3> QED
            BY <1>n, <1>r
    <2> QED
        BY <1>r, <2>1, <2>2, <2>3 DEF RoomSound
<1>6. ASSUME NEW w \in Workers, Gains(w), v # w
      PROVE  Shrinks(v)
    BY <1>0, <1>6, GainsAlone
<1> QED
    BY <1>0, <1>1, <1>2, <1>3, <1>4, <1>5, <1>6, MemoryMoves, Zenon DEF Gains

-----------------------------------------------------------------------------

\* The memory of a fresh replica is empty.
LEMMA ClaimsInvInit == Init => ClaimsInv
<1> SUFFICES ASSUME Init
             PROVE  ClaimsInv
    OBVIOUS
<1>1. QueueInv /\ MemoryOK
    BY QueueInvInit, MemoryInit DEF Init
<1>2. \A w \in Workers : /\ batch[w] = {}
                         /\ jobsCh[w] = << >>
                         /\ free[w] = 0
                         /\ \A s \in Slots : slot[w][s] = Idle
    BY DEF Init
<1>3. ~Busy(Idle)
    BY DEF Busy, Idle
<1>4. \A w \in Workers : /\ Chan(w) = {} /\ DOMAIN jobsCh[w] = {}
                         /\ BusySlots(w) = {} /\ InHand(w) = {}
    <2> SUFFICES ASSUME NEW w \in Workers
                 PROVE  /\ Chan(w) = {} /\ DOMAIN jobsCh[w] = {}
                        /\ BusySlots(w) = {} /\ InHand(w) = {}
        OBVIOUS
    <2>1. DOMAIN jobsCh[w] = {}
        BY <1>2
    <2>2. BusySlots(w) = {}
        BY <1>2, <1>3, Zenon DEF BusySlots
    <2> QED
        BY <2>1, <2>2 DEF Chan, InHand
<1>5. \A w \in Workers : Held(w) = {}
    BY <1>1, <1>2, <1>4, HeldParts
<1>6. \A w \in Workers : RoomSound(w)
    <2>1. IsFiniteSet({}) /\ Cardinality({}) = 0
        BY FS_EmptySet
    <2>2. Len(<< >>) = 0
        OBVIOUS
    <2>3. 0 + 0 + 0 <= Concurrency /\ ~(0 > 0)
        BY WorkerAssumption
    <2> QED
        BY <1>2, <2>1, <2>2, <2>3, Zenon DEF RoomSound
<1>7. \A w \in Workers : OncePerReplica(w)
    BY <1>2, <1>4 DEF OncePerReplica
<1>8. Counted /\ Apart
    BY <1>5 DEF Counted, Apart
<1> QED
    BY <1>1, <1>6, <1>7, <1>8 DEF ClaimsInv

\* Every step keeps the invariant.
LEMMA ClaimsInvStep == ClaimsInv /\ [Next]_vars => ClaimsInv'
<1> SUFFICES ASSUME ClaimsInv, [Next]_vars
             PROVE  ClaimsInv'
    OBVIOUS
<1>1. WorkerInv /\ QueueInv
    BY DEF ClaimsInv, QueueInv, WorkerInv
<1>2. MemoryOK'
    BY <1>1, MemoryStep
<1>3. QueueInv'
    BY <1>1, TableStep, QueueInvStep
<1>4. \A w \in Workers : OncePerReplica(w)'
    BY <1>2, OnceStep
<1>5. \A w \in Workers : RoomSound(w)'
    BY <1>2, RoomStep
<1> QED
    BY <1>2, <1>3, <1>4, <1>5, CountedStep, ApartStep DEF ClaimsInv

\* Hence it holds throughout.
LEMMA ClaimsInvariant == Spec => []ClaimsInv
BY ClaimsInvInit, ClaimsInvStep, PTL DEF Spec

-----------------------------------------------------------------------------
(* The theorems about places.                                              *)

\* Every claim is in one place of one replica's memory at most, for any number of
\* replicas, goroutines, jobs, crashes and restarts: two goroutines never run the
\* same attempt of a job, however leases expire and jobs are claimed again
\* (worker.go: pollOnce, workerLoop; jobs.go: ClaimBatch).
THEOREM WorkerClaimHeldOnce == Spec => []ClaimHeldOnce
<1>1. ASSUME ClaimsInv
      PROVE  ClaimHeldOnce
    <2>0. MemoryOK /\ Apart /\ \A w \in Workers : OncePerReplica(w)
        BY <1>1 DEF ClaimsInv
    <2>1. ASSUME NEW w \in Workers, NEW p \in Places, NEW c, HeldAt(w, p, c)
          PROVE  /\ p \in Int /\ c \in Held(w)
                 /\ \/ p = 0 /\ c \in batch[w]
                    \/ p < 0 /\ -p \in DOMAIN jobsCh[w] /\ c = jobsCh[w][-p] /\ c \in Chan(w)
                    \/ p > 0 /\ p \in BusySlots(w) /\ c = slot[w][p].claim /\ c \in InHand(w)
        <3>1. p \in Int
            BY WorkerAssumption DEF Places
        <3>2. jobsCh[w] \in Seq(Claim)
            BY <2>0 DEF MemoryOK
        <3>3. \A i \in DOMAIN jobsCh[w] : i \in Nat /\ i > 0
            BY <3>2, Positions
        <3>4. ASSUME -p \in DOMAIN jobsCh[w]
              PROVE  p < 0
            BY <3>1, <3>3, <3>4
        <3>5. ASSUME p \in Slots
              PROVE  p > 0
            BY <3>1, <3>5, WorkerAssumption DEF Slots
        <3>6. Held(w) = batch[w] \cup Chan(w) \cup InHand(w)
            BY <2>0, HeldParts
        <3> QED
            BY <2>1, <3>1, <3>4, <3>5, <3>6 DEF HeldAt, Chan, InHand, BusySlots, Busy
    <2> SUFFICES ASSUME NEW w \in Workers, NEW v \in Workers, NEW p \in Places,
                        NEW q \in Places, NEW c, HeldAt(w, p, c), HeldAt(v, q, c)
                 PROVE  w = v /\ p = q
        BY DEF ClaimHeldOnce
    <2>2. w = v
        BY <2>0, <2>1 DEF Apart
    <2>3. /\ \/ p = 0 /\ c \in batch[w]
             \/ p < 0 /\ -p \in DOMAIN jobsCh[w] /\ c = jobsCh[w][-p] /\ c \in Chan(w)
             \/ p > 0 /\ p \in BusySlots(w) /\ c = slot[w][p].claim /\ c \in InHand(w)
          /\ \/ q = 0 /\ c \in batch[w]
             \/ q < 0 /\ -q \in DOMAIN jobsCh[w] /\ c = jobsCh[w][-q] /\ c \in Chan(w)
             \/ q > 0 /\ q \in BusySlots(w) /\ c = slot[w][q].claim /\ c \in InHand(w)
          /\ p \in Int /\ q \in Int
        BY <2>1, <2>2
    <2>4. /\ batch[w] \cap Chan(w) = {}
          /\ batch[w] \cap InHand(w) = {}
          /\ Chan(w) \cap InHand(w) = {}
          /\ \A i, k \in DOMAIN jobsCh[w] : jobsCh[w][i] = jobsCh[w][k] => i = k
          /\ \A s, r \in BusySlots(w) : slot[w][s].claim = slot[w][r].claim => s = r
        BY <2>0, Zenon DEF OncePerReplica
    <2>5. CASE c \in batch[w]
        BY <2>2, <2>3, <2>4, <2>5
    <2>6. CASE c \in Chan(w)
        <3>1. -p \in DOMAIN jobsCh[w] /\ -q \in DOMAIN jobsCh[w] /\ jobsCh[w][-p] = jobsCh[w][-q]
            BY <2>3, <2>4, <2>6
        <3>2. -p = -q
            BY <2>4, <3>1
        <3> QED
            BY <2>2, <2>3, <3>2
    <2>7. CASE c \in InHand(w)
        BY <2>2, <2>3, <2>4, <2>7
    <2> QED
        BY <2>2, <2>3, <2>5, <2>6, <2>7
<1> QED
    BY <1>1, ClaimsInvariant, PTL

\* pollOnce never has more in hand than the channel can take: the free capacity it
\* read before the claim is still there after it, whatever the goroutines did in
\* between, so its send never blocks while leases run out (worker.go: pollOnce).
THEOREM WorkerPollerHasRoom == Spec => []PollerHasRoom
<1>1. ClaimsInv => PollerHasRoom
    BY DEF ClaimsInv, RoomSound, PollerHasRoom
<1> QED
    BY <1>1, ClaimsInvariant, PTL
=============================================================================
