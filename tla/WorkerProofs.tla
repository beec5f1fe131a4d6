---------------------------- MODULE WorkerProofs ----------------------------
(***************************************************************************)
(* Theorems about Worker for every number of replicas, goroutines, jobs    *)
(* and faults, and every setting of the timers.                            *)
(***************************************************************************)
EXTENDS Worker, JobQueueProofs

-----------------------------------------------------------------------------
(* The memory of the replicas.  TypeOK is not inductive: a busy goroutine  *)
(* must hold a real claim, or what it writes to the table is no statement  *)
(* of the queue, and pollOnce must stay within one batch.                  *)

Busy(g) == g.pc \in {"run", "record"}

MemoryOK ==
    /\ phase \in [Workers -> Phase]
    /\ free \in [Workers -> 0 .. Concurrency]
    /\ batch \in [Workers -> SUBSET Claim]
    /\ jobsCh \in [Workers -> Seq(Claim)]
    /\ slot \in [Workers -> [Slots -> Goroutine]]
    /\ faults \in 0 .. MaxFaults
    /\ stops \in 0 .. MaxStops
    /\ \A w \in Workers : free[w] <= WorkerClaimBatch
    /\ \A w \in Workers : \A s \in Slots :
           Busy(slot[w][s]) => slot[w][s].claim \in Claim

WorkerInv == GoodTable /\ MemoryOK

LEMMA TimersType ==
    /\ HeartbeatInterval \in Nat \ {0}
    /\ ElapsedBound \in Nat
    /\ MaxRun <= ElapsedBound
BY RepoAssumption, WorkerAssumption DEF HeartbeatInterval, ElapsedBound

LEMMA IdleType == Idle \in Goroutine /\ Exited \in Goroutine
<1>1. Idle \in Goroutine
    BY TimersType DEF Idle, Goroutine
<1> QED
    BY <1>1 DEF Exited, Goroutine

LEMMA RunningType ==
    ASSUME NEW c \in Claim
    PROVE  /\ Running(c) \in Goroutine
           /\ Running(c).claim = c
<1> DEFINE b == HeartbeatInterval
<1>1. PICK g \in Goroutine : g = Idle
    BY IdleType
<1>2. b \in 0 .. HeartbeatInterval
    BY TimersType
<1>3. Running(c) = [g EXCEPT !.pc = "run", !.claim = c, !.beat = b]
    BY <1>1, Zenon DEF Running
<1> HIDE DEF b
<1> QED
    BY <1>2, <1>3 DEF Goroutine

LEMMA AgedSlotType ==
    ASSUME NEW g \in Goroutine
    PROVE  /\ AgedSlot(g) \in Goroutine
           /\ AgedSlot(g).pc = g.pc
           /\ AgedSlot(g).claim = g.claim
<1> DEFINE e == IF g.elapsed < ElapsedBound THEN g.elapsed + 1 ELSE g.elapsed
           b == IF g.beat > 0 THEN g.beat - 1 ELSE g.beat
<1>1. g.elapsed \in 0 .. ElapsedBound /\ g.beat \in 0 .. HeartbeatInterval
    BY DEF Goroutine
<1>2. e \in 0 .. ElapsedBound /\ b \in 0 .. HeartbeatInterval
    BY <1>1, TimersType
<1>3. CASE g.pc \in {"run", "record"}
    <2>1. AgedSlot(g) = [g EXCEPT !.elapsed = e, !.beat = b]
        BY <1>3, Zenon DEF AgedSlot
    <2> HIDE DEF e, b
    <2> QED
        BY <1>2, <2>1 DEF Goroutine
<1>4. CASE g.pc \notin {"run", "record"}
    BY <1>4, Zenon DEF AgedSlot
<1> QED
    BY <1>3, <1>4

LEMMA ClaimsOfType ==
    ASSUME GoodTable, NEW limit
    PROVE  ClaimsOf(limit) \in SUBSET Claim
<1>1. ASSUME NEW j \in Oldest(limit)
      PROVE  j \in JobIds /\ jobs[j].attempts + 1 \in Nat
    <2>1. j \in JobIds
        BY <1>1 DEF Oldest, Claimable
    <2>2. jobs[j].attempts \in Nat
        BY <2>1 DEF GoodTable, Row
    <2> QED
        BY <2>1, <2>2
<1>2. ASSUME NEW j \in Oldest(limit)
      PROVE  [job |-> j, attempt |-> jobs[j].attempts + 1] \in Claim
    BY <1>1, <1>2, Zenon DEF Claim
<1> QED
    BY <1>2, Zenon DEF ClaimsOf

LEMMA RoomType ==
    ASSUME MemoryOK, NEW w \in Workers, Room(w) > 0
    PROVE  Room(w) \in 0 .. Concurrency /\ Room(w) <= WorkerClaimBatch
BY RepoAssumption, WorkerAssumption DEF MemoryOK, Room

-----------------------------------------------------------------------------
(* What the replicas do to the table is a step of the queue.               *)

LEMMA TableStep ==
    ASSUME WorkerInv, [Next]_vars
    PROVE  [RepoNext]_jobs
<1>1. ASSUME NEW j \in JobIds, Submit(j)
      PROVE  RepoNext
    BY <1>1 DEF Submit, RepoNext
<1>2. ASSUME NEW w \in Workers, free[w] > 0, ClaimBatch(w, WorkerLease, free[w])
      PROVE  RepoNext
    <2>1. free[w] \in 1 .. WorkerClaimBatch
        BY <1>2, RepoAssumption DEF WorkerInv, MemoryOK
    <2> QED
        BY <1>2, <2>1, Zenon DEF RepoNext
<1>3. ASSUME NEW w \in Workers, NEW s \in Slots, Heartbeat(w, s)
      PROVE  [RepoNext]_jobs
    <2>1. slot[w][s].claim.job \in JobIds
        BY <1>3 DEF Heartbeat, WorkerInv, MemoryOK, Busy, Claim
    <2> QED
        BY <1>3, <2>1, Zenon DEF Heartbeat, NotFound, RepoNext
<1>4. ASSUME NEW w \in Workers, NEW s \in Slots, Record(w, s)
      PROVE  [RepoNext]_jobs
    <2>1. slot[w][s].claim.job \in JobIds
        BY <1>4 DEF Record, WorkerInv, MemoryOK, Busy, Claim
    <2> QED
        BY <1>4, <2>1, Zenon DEF Record, RecordOutcome, NotFound, RepoNext
<1>5. ASSUME NEW w \in Workers, ReleaseQueued(w)
      PROVE  [RepoNext]_jobs
    <2>1. jobsCh[w] \in Seq(Claim) /\ jobsCh[w] # << >>
        BY <1>5 DEF ReleaseQueued, WorkerInv, MemoryOK
    <2>2. Head(jobsCh[w]) \in Claim
        BY <2>1
    <2>3. Head(jobsCh[w]).job \in JobIds
        BY <2>2 DEF Claim
    <2> QED
        BY <1>5, <2>3, Zenon DEF ReleaseQueued, NotFound, RepoNext
<1>6. ASSUME NEW w \in Workers, ReplicaNext(w)
      PROVE  [RepoNext]_jobs
    <2>1. CASE PollClaims(w) \/ PollClaimLost(w)
        BY <1>2, <2>1 DEF PollClaims, PollClaimLost
    <2>2. CASE Reap(w)
        BY <2>2 DEF Reap, RepoNext
    <2>3. CASE ReleaseQueued(w)
        BY <1>5, <2>3
    <2>4. CASE PollOnce(w) \/ PollEmpty(w) \/ Send(w) \/ DropBatch(w)
        BY <2>4 DEF PollOnce, PollEmpty, Send, DropBatch
    <2>5. CASE Sigterm(w) \/ ReleaseFails(w) \/ StopReturns(w) \/ Start(w)
        BY <2>5 DEF Sigterm, ReleaseFails, StopReturns, Start
    <2>6. CASE Stall(w) \/ Resume(w) \/ Crash(w)
        BY <2>6 DEF Stall, Resume, Crash
    <2> QED
        BY <1>6, <2>1, <2>2, <2>3, <2>4, <2>5, <2>6 DEF ReplicaNext
<1>7. ASSUME NEW w \in Workers, NEW s \in Slots, SlotNext(w, s)
      PROVE  [RepoNext]_jobs
    <2>1. CASE Receive(w, s) \/ HeartbeatLost(w, s) \/ RecordFails(w, s) \/ Exit(w, s)
        BY <2>1 DEF Receive, HeartbeatLost, RecordFails, Exit
    <2>2. ASSUME NEW outcome \in Outcome, RunJob(w, s, outcome)
          PROVE  [RepoNext]_jobs
        BY <2>2 DEF RunJob
    <2> QED
        BY <1>3, <1>4, <1>7, <2>1, <2>2 DEF SlotNext
<1>8. CASE Tick
    BY <1>8 DEF Tick, RepoNext
<1>9. CASE UNCHANGED vars
    BY <1>9 DEF vars
<1> QED
    BY <1>1, <1>6, <1>7, <1>8, <1>9 DEF Next

-----------------------------------------------------------------------------
(* The memory stays well formed.                                           *)

LEMMA MemoryInit == Init => MemoryOK
<1>1. ASSUME Init
      PROVE  MemoryOK
    <2>1. Idle \in Goroutine /\ ~Busy(Idle)
        BY IdleType DEF Idle, Busy
    <2>2. \A w \in Workers : \A s \in Slots : slot[w][s] = Idle
        BY <1>1 DEF Init
    <2>3. slot \in [Workers -> [Slots -> Goroutine]]
        BY <1>1, <2>1, Zenon DEF Init
    <2>4. phase \in [Workers -> Phase]
        BY <1>1 DEF Init, Phase
    <2>5. /\ batch \in [Workers -> SUBSET Claim]
          /\ jobsCh \in [Workers -> Seq(Claim)]
        BY <1>1 DEF Init
    <2>6. /\ free \in [Workers -> 0 .. Concurrency]
          /\ faults \in 0 .. MaxFaults
          /\ stops \in 0 .. MaxStops
          /\ \A w \in Workers : free[w] <= WorkerClaimBatch
        BY <1>1, RepoAssumption, WorkerAssumption DEF Init
    <2> QED
        BY <2>1, <2>2, <2>3, <2>4, <2>5, <2>6 DEF MemoryOK
<1> QED
    BY <1>1

\* A goroutine moves on: all that changes is one element of slot.
LEMMA SlotUpdate ==
    ASSUME MemoryOK, NEW w \in Workers, NEW s \in Slots, NEW g \in Goroutine,
           Busy(g) => g.claim \in Claim,
           slot' = [slot EXCEPT ![w][s] = g]
    PROVE  /\ slot' \in [Workers -> [Slots -> Goroutine]]
           /\ \A v \in Workers : \A r \in Slots :
                  Busy(slot'[v][r]) => slot'[v][r].claim \in Claim
<1> HIDE DEF Goroutine, Busy, Claim, Slots
<1>1. slot \in [Workers -> [Slots -> Goroutine]]
    BY DEF MemoryOK
<1>2. slot' \in [Workers -> [Slots -> Goroutine]]
    BY <1>1
<1>3. \A v \in Workers : \A r \in Slots :
          slot'[v][r] = g \/ slot'[v][r] = slot[v][r]
    BY <1>1
<1> QED
    BY <1>2, <1>3 DEF MemoryOK

\* The budget counters.
LEMMA FaultType ==
    ASSUME MemoryOK, Fault \/ NoFault
    PROVE  faults' \in 0 .. MaxFaults
BY WorkerAssumption DEF MemoryOK, Fault, NoFault

LEMMA MemorySlot ==
    ASSUME WorkerInv, NEW w \in Workers, NEW s \in Slots, SlotNext(w, s)
    PROVE  MemoryOK'
<1> USE DEF WorkerInv
<1> DEFINE g == slot[w][s]
<1>1. g \in Goroutine /\ (Busy(g) => g.claim \in Claim)
    BY DEF MemoryOK
<1>2. HeartbeatInterval \in 0 .. HeartbeatInterval
    BY TimersType
<1>3. ~Busy(Idle) /\ ~Busy(Exited)
    BY DEF Busy, Idle, Exited
<1>4. CASE Receive(w, s)
    <2>1. jobsCh[w] \in Seq(Claim) /\ jobsCh[w] # << >>
        BY <1>4 DEF Receive, MemoryOK
    <2>2. Head(jobsCh[w]) \in Claim /\ Tail(jobsCh[w]) \in Seq(Claim)
        BY <2>1
    <2>3. /\ slot' \in [Workers -> [Slots -> Goroutine]]
          /\ \A v \in Workers : \A r \in Slots :
                 Busy(slot'[v][r]) => slot'[v][r].claim \in Claim
        BY <1>4, <2>2, RunningType, SlotUpdate DEF Receive
    <2>4. jobsCh' \in [Workers -> Seq(Claim)]
        BY <1>4, <2>2 DEF Receive, MemoryOK
    <2> QED
        BY <1>4, <2>3, <2>4 DEF Receive, MemoryOK
<1>5. CASE Heartbeat(w, s) \/ HeartbeatLost(w, s)
    <2> DEFINE h == [g EXCEPT !.beat = HeartbeatInterval]
    <2>1. h \in Goroutine /\ h.claim = g.claim /\ h.pc = g.pc
        BY <1>1, <1>2 DEF Goroutine
    <2>2. Busy(h) => h.claim \in Claim
        BY <1>1, <2>1 DEF Busy
    <2>3. slot' = [slot EXCEPT ![w][s] = h]
        BY <1>5 DEF Heartbeat, HeartbeatLost
    <2>4. /\ slot' \in [Workers -> [Slots -> Goroutine]]
          /\ \A v \in Workers : \A r \in Slots :
                 Busy(slot'[v][r]) => slot'[v][r].claim \in Claim
        BY <2>1, <2>2, <2>3, SlotUpdate
    <2>5. faults' \in 0 .. MaxFaults
        BY <1>5, FaultType DEF Heartbeat, HeartbeatLost, NoFault
    <2> QED
        BY <1>5, <2>4, <2>5 DEF Heartbeat, HeartbeatLost, MemoryOK
<1>6. ASSUME NEW outcome \in Outcome, RunJob(w, s, outcome)
      PROVE  MemoryOK'
    <2> DEFINE h == [g EXCEPT !.pc = "record", !.outcome = outcome]
    <2>1. h \in Goroutine /\ h.claim = g.claim /\ Busy(g)
        BY <1>1, <1>6 DEF Goroutine, RunJob, Busy
    <2>2. Busy(h) => h.claim \in Claim
        BY <1>1, <2>1
    <2>3. slot' = [slot EXCEPT ![w][s] = h]
        BY <1>6 DEF RunJob
    <2>4. /\ slot' \in [Workers -> [Slots -> Goroutine]]
          /\ \A v \in Workers : \A r \in Slots :
                 Busy(slot'[v][r]) => slot'[v][r].claim \in Claim
        BY <2>1, <2>2, <2>3, SlotUpdate
    <2> QED
        BY <1>6, <2>4 DEF RunJob, MemoryOK
<1>7. CASE Record(w, s) \/ RecordFails(w, s)
    <2>1. /\ slot' \in [Workers -> [Slots -> Goroutine]]
          /\ \A v \in Workers : \A r \in Slots :
                 Busy(slot'[v][r]) => slot'[v][r].claim \in Claim
        BY <1>3, <1>7, IdleType, SlotUpdate DEF Record, RecordFails
    <2>2. faults' \in 0 .. MaxFaults
        BY <1>7, FaultType DEF Record, RecordFails, NoFault
    <2> QED
        BY <1>7, <2>1, <2>2 DEF Record, RecordFails, MemoryOK
<1>8. CASE Exit(w, s)
    <2>1. /\ slot' \in [Workers -> [Slots -> Goroutine]]
          /\ \A v \in Workers : \A r \in Slots :
                 Busy(slot'[v][r]) => slot'[v][r].claim \in Claim
        BY <1>3, <1>8, IdleType, SlotUpdate DEF Exit
    <2> QED
        BY <1>8, <2>1 DEF Exit, MemoryOK
<1> QED
    BY <1>4, <1>5, <1>6, <1>7, <1>8 DEF SlotNext

LEMMA MemoryReplica ==
    ASSUME WorkerInv, NEW w \in Workers, ReplicaNext(w)
    PROVE  MemoryOK'
<1> USE DEF WorkerInv
<1>1. CASE PollOnce(w)
    <2>1. Room(w) \in 0 .. Concurrency /\ Room(w) <= WorkerClaimBatch
        BY <1>1, RoomType DEF PollOnce
    <2>2. /\ free' \in [Workers -> 0 .. Concurrency]
          /\ \A v \in Workers : free'[v] <= WorkerClaimBatch
        BY <1>1, <2>1 DEF PollOnce, MemoryOK
    <2> QED
        BY <1>1, <2>2 DEF PollOnce, MemoryOK
<1>2. ASSUME free' = [free EXCEPT ![w] = 0]
      PROVE  /\ free' \in [Workers -> 0 .. Concurrency]
             /\ \A v \in Workers : free'[v] <= WorkerClaimBatch
    BY <1>2, RepoAssumption, WorkerAssumption DEF MemoryOK
<1>3. CASE PollClaims(w)
    <2>1. batch' \in [Workers -> SUBSET Claim]
        BY <1>3, ClaimsOfType, Zenon DEF PollClaims, MemoryOK
    <2> QED
        BY <1>2, <1>3, <2>1 DEF PollClaims, MemoryOK
<1>4. CASE PollClaimLost(w) \/ PollEmpty(w)
    <2>1. faults' \in 0 .. MaxFaults
        BY <1>4, FaultType DEF PollClaimLost, PollEmpty
    <2> QED
        BY <1>2, <1>4, <2>1 DEF PollClaimLost, PollEmpty, MemoryOK
<1>5. CASE Send(w)
    <2>1. PICK c \in batch[w] :
              /\ jobsCh' = [jobsCh EXCEPT ![w] = Append(@, c)]
              /\ batch' = [batch EXCEPT ![w] = @ \ {c}]
        BY <1>5 DEF Send
    <2>2. batch[w] \in SUBSET Claim /\ jobsCh[w] \in Seq(Claim)
        BY DEF MemoryOK
    <2>3. c \in Claim /\ batch[w] \ {c} \in SUBSET Claim
        BY <2>1, <2>2
    <2>4. Append(jobsCh[w], c) \in Seq(Claim)
        BY <2>2, <2>3
    <2>5. /\ jobsCh' \in [Workers -> Seq(Claim)]
          /\ batch' \in [Workers -> SUBSET Claim]
        BY <2>1, <2>3, <2>4 DEF MemoryOK
    <2> QED
        BY <1>5, <2>5 DEF Send, MemoryOK
<1>6. CASE DropBatch(w)
    BY <1>6 DEF DropBatch, MemoryOK
<1>7. CASE Reap(w)
    BY <1>7 DEF Reap, local, MemoryOK
<1>8. CASE Sigterm(w)
    <2>1. stops' \in 0 .. MaxStops
        BY <1>8, WorkerAssumption DEF Sigterm, MemoryOK
    <2> QED
        BY <1>8, <2>1 DEF Sigterm, MemoryOK, Phase
<1>9. CASE ReleaseQueued(w) \/ ReleaseFails(w)
    <2>1. jobsCh[w] \in Seq(Claim) /\ jobsCh[w] # << >>
        BY <1>9 DEF ReleaseQueued, ReleaseFails, MemoryOK
    <2>2. Tail(jobsCh[w]) \in Seq(Claim)
        BY <2>1
    <2>3. jobsCh' \in [Workers -> Seq(Claim)]
        BY <1>9, <2>2 DEF ReleaseQueued, ReleaseFails, MemoryOK
    <2>4. faults' \in 0 .. MaxFaults
        BY <1>9, FaultType DEF ReleaseQueued, ReleaseFails, NoFault
    <2> QED
        BY <1>9, <2>3, <2>4 DEF ReleaseQueued, ReleaseFails, MemoryOK
<1>10. CASE StopReturns(w) \/ Resume(w)
    BY <1>10 DEF StopReturns, Resume, MemoryOK, Phase
<1>11. CASE Stall(w)
    <2>1. faults' \in 0 .. MaxFaults
        BY <1>11, FaultType DEF Stall
    <2> QED
        BY <1>11, <2>1 DEF Stall, MemoryOK, Phase
<1>12. ASSUME NEW g \in Goroutine, ~Busy(g),
              slot' = [slot EXCEPT ![w] = [s \in Slots |-> g]]
       PROVE  /\ slot' \in [Workers -> [Slots -> Goroutine]]
              /\ \A v \in Workers : \A s \in Slots :
                     Busy(slot'[v][s]) => slot'[v][s].claim \in Claim
    <2> HIDE DEF Goroutine, Busy, Claim, Slots
    <2>1. [s \in Slots |-> g] \in [Slots -> Goroutine]
        BY <1>12
    <2>2. slot' \in [Workers -> [Slots -> Goroutine]]
        BY <1>12, <2>1 DEF MemoryOK
    <2>3. \A v \in Workers : \A s \in Slots :
              slot'[v][s] = IF v = w THEN g ELSE slot[v][s]
        BY <1>12 DEF MemoryOK
    <2> QED
        BY <1>12, <2>2, <2>3 DEF MemoryOK
<1>13. ~Busy(Idle) /\ ~Busy(Exited)
    BY DEF Busy, Idle, Exited
<1>14. CASE Crash(w)
    <2>1. faults' \in 0 .. MaxFaults
        BY <1>14, FaultType DEF Crash
    <2>2. /\ slot' \in [Workers -> [Slots -> Goroutine]]
          /\ \A v \in Workers : \A s \in Slots :
                 Busy(slot'[v][s]) => slot'[v][s].claim \in Claim
        BY <1>12, <1>13, <1>14, IdleType DEF Crash
    <2>3. /\ phase' \in [Workers -> Phase]
          /\ batch' \in [Workers -> SUBSET Claim]
          /\ jobsCh' \in [Workers -> Seq(Claim)]
        BY <1>14 DEF Crash, MemoryOK, Phase
    <2> QED
        BY <1>2, <1>14, <2>1, <2>2, <2>3 DEF Crash, MemoryOK
<1>15. CASE Start(w)
    <2>1. /\ slot' \in [Workers -> [Slots -> Goroutine]]
          /\ \A v \in Workers : \A s \in Slots :
                 Busy(slot'[v][s]) => slot'[v][s].claim \in Claim
        BY <1>12, <1>13, <1>15, IdleType DEF Start
    <2>2. phase' \in [Workers -> Phase]
        BY <1>15 DEF Start, MemoryOK, Phase
    <2> QED
        BY <1>15, <2>1, <2>2 DEF Start, MemoryOK
<1> QED
    BY <1>1, <1>3, <1>4, <1>5, <1>6, <1>7, <1>8, <1>9, <1>10, <1>11,
       <1>14, <1>15 DEF ReplicaNext

LEMMA MemoryStep ==
    ASSUME WorkerInv, [Next]_vars
    PROVE  MemoryOK'
<1>1. ASSUME NEW j \in JobIds, Submit(j)
      PROVE  MemoryOK'
    BY <1>1 DEF Submit, local, WorkerInv, MemoryOK
<1>2. CASE Tick
    <2>1. \A w \in Workers : \A s \in Slots :
              /\ slot[w][s] \in Goroutine
              /\ Busy(slot[w][s]) => slot[w][s].claim \in Claim
        BY DEF WorkerInv, MemoryOK
    <2>2. slot' = [w \in Workers |-> [s \in Slots |-> AgedSlot(slot[w][s])]]
        BY <1>2 DEF Tick
    <2>3. \A w \in Workers : \A s \in Slots :
              /\ AgedSlot(slot[w][s]) \in Goroutine
              /\ AgedSlot(slot[w][s]).pc = slot[w][s].pc
              /\ AgedSlot(slot[w][s]).claim = slot[w][s].claim
        BY <2>1, AgedSlotType
    <2>4. slot' \in [Workers -> [Slots -> Goroutine]]
        BY <2>2, <2>3, Zenon
    <2>5. \A w \in Workers : \A s \in Slots :
              Busy(slot'[w][s]) => slot'[w][s].claim \in Claim
        BY <2>1, <2>2, <2>3 DEF Busy
    <2> QED
        BY <1>2, <2>4, <2>5 DEF Tick, WorkerInv, MemoryOK
<1>3. CASE UNCHANGED vars
    BY <1>3 DEF vars, local, WorkerInv, MemoryOK
<1> QED
    BY <1>1, <1>2, <1>3, MemoryReplica, MemorySlot DEF Next

LEMMA WorkerInvariant == Spec => []WorkerInv
<1>1. Init => WorkerInv
    BY MemoryInit, GoodTableInit DEF Init, WorkerInv
<1>2. WorkerInv /\ [Next]_vars => WorkerInv'
    BY TableStep, GoodTableStep, MemoryStep DEF WorkerInv
<1> QED
    BY <1>1, <1>2, PTL DEF Spec

-----------------------------------------------------------------------------
(* The theorems.                                                           *)

\* The memory of every replica keeps its shape, through crashes, restarts and
\* lost replies, for any number of replicas, goroutines and jobs: in particular
\* the timers stay within their range and pollOnce never asks for more than the
\* channel holds (worker.go: pollOnce, process, heartbeat).
THEOREM WorkerTypeCorrect == Spec => []TypeOK
<1>1. WorkerInv => TypeOK
    BY DEF WorkerInv, GoodTable, MemoryOK, TypeOK, RepoTypeOK
<1> QED
    BY <1>1, WorkerInvariant, PTL

\* The worker tier is a client of the queue: whatever goroutines, heartbeats,
\* reapers and shutdowns do to the table is a call JobQueue was specified for.
THEOREM WorkerImplementsQueue == Spec => ImplementsQueue
<1>1. Init => RepoInit
    BY DEF Init
<1>2. WorkerInv /\ [Next]_vars => [RepoNext]_jobs
    BY TableStep
<1> QED
    BY <1>1, <1>2, WorkerInvariant, PTL DEF Spec, ImplementsQueue, RepoSpec

\* Hence what was proved of the queue holds with the workers at work: a job that
\* is completed or failed is never touched again, not by a worker that lost its
\* lease, a late heartbeat, a reaper or a release at shutdown.
THEOREM WorkerFreezesFinishedJobs == Spec => FinishedJobsFrozen
BY WorkerImplementsQueue, QueueFreezesFinishedJobs, PTL DEF ImplementsQueue

\* And no path of the worker hands out a run that `attempts` does not count.
THEOREM WorkerCountsEveryRun == Spec => EveryRunCounted
BY WorkerImplementsQueue, QueueCountsEveryRun, PTL DEF ImplementsQueue
=============================================================================
