------------------------- MODULE WorkerLeaseProofs --------------------------
(***************************************************************************)
(* Theorems about what becomes of claims, for every number of replicas,    *)
(* goroutines and jobs and every setting of the timers that is named:      *)
(* nothing is forgotten without a fault or a signal, outcomes are          *)
(* recorded, and no lease runs out under a replica that is alive.          *)
(***************************************************************************)
EXTENDS WorkerClaimProofs

-----------------------------------------------------------------------------
(* The inductive invariant, on top of ClaimsInv.                           *)

\* What the phase of a replica says about its past and its memory.
PhaseSound(w) ==
    /\ phase[w] \in {"stalled", "down"} => faults # 0
    /\ phase[w] \in {"cancelled", "stopped"} => stops # 0
    /\ phase[w] \in {"stopped", "down"} => Held(w) = {}
    /\ phase[w] \in {"running", "stalled"} =>
           \A s \in Slots : slot[w][s].pc # "exited"

\* Without faults no run takes longer than MaxRun.
ElapsedSound ==
    faults = 0 => \A w \in Workers : \A s \in BusySlots(w) : slot[w][s].elapsed <= MaxRun

\* If a run cannot outlast finalCtx, a processing row is in somebody's hands.
HandsSound == MaxRun < FinalTimeout => NoClaimForgotten

\* The row still counts this claim.
Current(c) ==
    /\ jobs[c.job].status = "processing"
    /\ jobs[c.job].attempts = c.attempt

\* How long ago the lease of the job was set.
LeaseAge(j) == WorkerLease - ClockLag - jobs[j].lease_until

\* Goroutines that were started later than this.
Younger(w, age) == {s \in BusySlots(w) : slot[w][s].elapsed < age}

\* The longest call, a heartbeat and the lag of the clock fit in a lease.
LeaseFits == MaxRun + HeartbeatInterval + ClockLag <= WorkerLease

\* The leases of what a running replica holds: new ones in the batch, in the channel
\* no older than the runs ahead, and at work good for the next heartbeat.
LeaseSoundAt(w) ==
    /\ \A c \in batch[w] : Current(c) => LeaseAge(c.job) <= 0
    /\ \A i \in DOMAIN jobsCh[w] :
           Current(jobsCh[w][i]) =>
               /\ LeaseAge(jobsCh[w][i].job) <= MaxRun
               /\ Cardinality(Younger(w, LeaseAge(jobsCh[w][i].job))) + i <= Concurrency
    /\ \A s \in BusySlots(w) :
           Current(slot[w][s].claim) =>
               jobs[slot[w][s].claim.job].lease_until >= slot[w][s].beat

\* This is kept without faults, if the settings allow it.
LeaseSound ==
    LeaseFits /\ faults = 0 =>
        \A w \in Workers : phase[w] = "running" => LeaseSoundAt(w)

\* All of it.
SafetyInv ==
    /\ ClaimsInv
    /\ \A w \in Workers : PhaseSound(w)
    /\ ElapsedSound
    /\ HandsSound
    /\ LeaseSound

-----------------------------------------------------------------------------
(* What a step does to one replica, part by part.                          *)

\* Who may change the phase of a replica.
PhaseStep(v) ==
    \/ phase'[v] = phase[v]
    \/ Sigterm(v) /\ phase'[v] = "cancelled"
    \/ StopReturns(v) /\ phase'[v] = "stopped"
    \/ Stall(v) /\ phase'[v] = "stalled"
    \/ Resume(v) /\ phase'[v] = "running"
    \/ Crash(v) /\ phase'[v] = "down"
    \/ Start(v) /\ phase'[v] = "running"

\* Who may change a goroutine, and what becomes of it.
SlotStep(v, s) ==
    \/ slot'[v][s] = slot[v][s]
    \/ Receive(v, s) /\ slot'[v][s] = Running(Head(jobsCh[v]))
    \/ /\ Heartbeat(v, s) \/ HeartbeatLost(v, s)
       /\ slot'[v][s] = [slot[v][s] EXCEPT !.beat = HeartbeatInterval]
    \/ \E outcome \in Outcome :
           /\ RunJob(v, s, outcome)
           /\ slot'[v][s] = [slot[v][s] EXCEPT !.pc = "record", !.outcome = outcome]
    \/ Record(v, s) /\ slot'[v][s] = Idle
    \/ RecordFails(v, s) /\ slot'[v][s] = Idle
    \/ Exit(v, s) /\ slot'[v][s] = Exited
    \/ Crash(v) /\ slot'[v][s] = Exited
    \/ Start(v) /\ slot'[v][s] = Idle

\* Who may change the channel.
QueueStep(v) ==
    \/ jobsCh'[v] = jobsCh[v]
    \/ Send(v)
    \/ \E s \in Slots : Receive(v, s)
    \/ ReleaseQueued(v)
    \/ ReleaseFails(v)
    \/ Crash(v)

\* What one replica's goroutine does is no concern of the others.
LEMMA SlotNextSteps ==
    ASSUME MemoryOK, NEW w \in Workers, NEW s \in Slots, SlotNext(w, s),
           NEW v \in Workers, NEW r \in Slots
    PROVE  PhaseStep(v) /\ SlotStep(v, r) /\ QueueStep(v)
<1>0. /\ slot \in [Workers -> [Slots -> Goroutine]]
      /\ jobsCh \in [Workers -> Seq(Claim)]
    BY DEF MemoryOK
<1>1. UNCHANGED phase
    BY DEF SlotNext, Receive, Heartbeat, HeartbeatLost, RunJob, Record, RecordFails, Exit
<1>2. jobsCh'[v] = jobsCh[v] \/ (v = w /\ Receive(v, s))
    <2>1. CASE Receive(w, s)
        BY <1>0, <2>1 DEF Receive
    <2>2. ~Receive(w, s) => UNCHANGED jobsCh
        BY DEF SlotNext, Heartbeat, HeartbeatLost, RunJob, Record, RecordFails, Exit
    <2> QED
        BY <2>1, <2>2
<1>3. ASSUME NEW h, slot' = [slot EXCEPT ![w][s] = h]
      PROVE  slot'[v][r] = slot[v][r] \/ (v = w /\ r = s /\ slot'[v][r] = h)
    <2> HIDE DEF Slots, Goroutine
    <2> QED
        BY <1>0, <1>3
<1> DEFINE g == slot[w][s]
<1>4. CASE Receive(w, s)
    <2>1. /\ slot'[w][s] = Running(Head(jobsCh[w]))
          /\ \A t \in Slots : t # s => slot'[w][t] = slot[w][t]
        BY <1>4, ReceiveSlots
    <2>2. v # w => slot'[v][r] = slot[v][r]
        BY <1>4, GainsAlone DEF Gains
    <2> QED
        BY <1>1, <1>2, <1>4, <2>1, <2>2, Zenon DEF PhaseStep, SlotStep, QueueStep
<1>5. CASE Heartbeat(w, s) \/ HeartbeatLost(w, s)
    <2>1. slot' = [slot EXCEPT ![w][s] = [g EXCEPT !.beat = HeartbeatInterval]]
        BY <1>5 DEF Heartbeat, HeartbeatLost
    <2>2. \/ slot'[v][r] = slot[v][r]
          \/ v = w /\ r = s /\ slot'[v][r] = [g EXCEPT !.beat = HeartbeatInterval]
        BY <1>3, <2>1
    <2> QED
        BY <1>1, <1>2, <1>5, <2>2, Zenon DEF PhaseStep, SlotStep, QueueStep
<1>6. ASSUME NEW outcome \in Outcome, RunJob(w, s, outcome)
      PROVE  SlotStep(v, r)
    <2>1. slot' = [slot EXCEPT ![w][s] = [g EXCEPT !.pc = "record", !.outcome = outcome]]
        BY <1>6 DEF RunJob
    <2>2. \/ slot'[v][r] = slot[v][r]
          \/ /\ v = w /\ r = s
             /\ slot'[v][r] = [g EXCEPT !.pc = "record", !.outcome = outcome]
        BY <1>3, <2>1
    <2> QED
        BY <1>6, <2>2, Zenon DEF SlotStep
<1>7. CASE Record(w, s) \/ RecordFails(w, s)
    <2>1. slot' = [slot EXCEPT ![w][s] = Idle]
        BY <1>7 DEF Record, RecordFails
    <2>2. slot'[v][r] = slot[v][r] \/ (v = w /\ r = s /\ slot'[v][r] = Idle)
        BY <1>3, <2>1
    <2> QED
        BY <1>1, <1>2, <1>7, <2>2, Zenon DEF PhaseStep, SlotStep, QueueStep
<1>8. CASE Exit(w, s)
    <2>1. slot' = [slot EXCEPT ![w][s] = Exited]
        BY <1>8 DEF Exit
    <2>2. slot'[v][r] = slot[v][r] \/ (v = w /\ r = s /\ slot'[v][r] = Exited)
        BY <1>3, <2>1
    <2> QED
        BY <1>1, <1>2, <1>8, <2>2, Zenon DEF PhaseStep, SlotStep, QueueStep
<1>9. PhaseStep(v) /\ QueueStep(v)
    BY <1>1, <1>2, Zenon DEF PhaseStep, QueueStep
<1> QED
    BY <1>4, <1>5, <1>6, <1>7, <1>8, <1>9, Zenon DEF SlotNext

\* The same for the other steps of a replica.
LEMMA ReplicaNextSteps ==
    ASSUME MemoryOK, NEW w \in Workers, ReplicaNext(w),
           NEW v \in Workers, NEW r \in Slots
    PROVE  PhaseStep(v) /\ SlotStep(v, r) /\ QueueStep(v)
<1>0. /\ slot \in [Workers -> [Slots -> Goroutine]]
      /\ jobsCh \in [Workers -> Seq(Claim)]
      /\ phase \in [Workers -> Phase]
    BY DEF MemoryOK
<1>1. ASSUME UNCHANGED <<phase, jobsCh, slot>>
      PROVE  PhaseStep(v) /\ SlotStep(v, r) /\ QueueStep(v)
    BY <1>1, Zenon DEF PhaseStep, SlotStep, QueueStep
<1>2. ASSUME NEW p, phase' = [phase EXCEPT ![w] = p]
      PROVE  phase'[v] = phase[v] \/ (v = w /\ phase'[v] = p)
    BY <1>0, <1>2
<1>3. ASSUME NEW h, slot' = [slot EXCEPT ![w] = [s \in Slots |-> h]]
      PROVE  slot'[v][r] = slot[v][r] \/ (v = w /\ slot'[v][r] = h)
    <2> HIDE DEF Slots, Goroutine
    <2> QED
        BY <1>0, <1>3
<1>4. ASSUME NEW q, jobsCh' = [jobsCh EXCEPT ![w] = q]
      PROVE  jobsCh'[v] = jobsCh[v] \/ v = w
    BY <1>0, <1>4
<1>5. CASE PollOnce(w) \/ PollClaims(w) \/ PollClaimLost(w) \/ PollEmpty(w) \/ DropBatch(w)
    BY <1>1, <1>5 DEF PollOnce, PollClaims, PollClaimLost, PollEmpty, DropBatch
<1>6. CASE Reap(w)
    BY <1>1, <1>6 DEF Reap, local
<1>7. CASE Send(w)
    <2>1. UNCHANGED <<phase, slot>> /\ (jobsCh'[v] = jobsCh[v] \/ v = w)
        BY <1>0, <1>7 DEF Send
    <2> QED
        BY <1>7, <2>1, Zenon DEF PhaseStep, SlotStep, QueueStep
<1>8. CASE ReleaseQueued(w) \/ ReleaseFails(w)
    <2>1. UNCHANGED <<phase, slot>> /\ (jobsCh'[v] = jobsCh[v] \/ v = w)
        BY <1>0, <1>8 DEF ReleaseQueued, ReleaseFails
    <2> QED
        BY <1>8, <2>1, Zenon DEF PhaseStep, SlotStep, QueueStep
<1>9. CASE Sigterm(w)
    <2>1. UNCHANGED <<jobsCh, slot>> /\ (phase'[v] = phase[v] \/ (v = w /\ phase'[v] = "cancelled"))
        BY <1>2, <1>9 DEF Sigterm
    <2> QED
        BY <1>9, <2>1, Zenon DEF PhaseStep, SlotStep, QueueStep
<1>10. CASE StopReturns(w)
    <2>1. UNCHANGED <<jobsCh, slot>> /\ (phase'[v] = phase[v] \/ (v = w /\ phase'[v] = "stopped"))
        BY <1>2, <1>10 DEF StopReturns
    <2> QED
        BY <1>10, <2>1, Zenon DEF PhaseStep, SlotStep, QueueStep
<1>11. CASE Stall(w)
    <2>1. UNCHANGED <<jobsCh, slot>> /\ (phase'[v] = phase[v] \/ (v = w /\ phase'[v] = "stalled"))
        BY <1>2, <1>11 DEF Stall
    <2> QED
        BY <1>11, <2>1, Zenon DEF PhaseStep, SlotStep, QueueStep
<1>12. CASE Resume(w)
    <2>1. UNCHANGED <<jobsCh, slot>> /\ (phase'[v] = phase[v] \/ (v = w /\ phase'[v] = "running"))
        BY <1>2, <1>12 DEF Resume
    <2> QED
        BY <1>12, <2>1, Zenon DEF PhaseStep, SlotStep, QueueStep
<1>13. CASE Crash(w)
    <2>1. /\ phase'[v] = phase[v] \/ (v = w /\ phase'[v] = "down")
          /\ jobsCh'[v] = jobsCh[v] \/ v = w
        BY <1>2, <1>4, <1>13 DEF Crash
    <2>2. slot'[v][r] = slot[v][r] \/ (v = w /\ slot'[v][r] = Exited)
        BY <1>3, <1>13 DEF Crash
    <2> QED
        BY <1>13, <2>1, <2>2, Zenon DEF PhaseStep, SlotStep, QueueStep
<1>14. CASE Start(w)
    <2>1. /\ phase'[v] = phase[v] \/ (v = w /\ phase'[v] = "running")
          /\ UNCHANGED jobsCh
        BY <1>2, <1>14 DEF Start
    <2>2. slot'[v][r] = slot[v][r] \/ (v = w /\ slot'[v][r] = Idle)
        BY <1>3, <1>14 DEF Start
    <2> QED
        BY <1>14, <2>1, <2>2, Zenon DEF PhaseStep, SlotStep, QueueStep
<1> QED
    BY <1>5, <1>6, <1>7, <1>8, <1>9, <1>10, <1>11, <1>12, <1>13, <1>14, Zenon DEF ReplicaNext

\* What any step but a tick does to a replica.
LEMMA ReplicaSteps ==
    ASSUME MemoryOK, [Next]_vars, ~Tick, NEW v \in Workers, NEW r \in Slots
    PROVE  PhaseStep(v) /\ SlotStep(v, r) /\ QueueStep(v)
<1>1. ASSUME NEW j \in JobIds, Submit(j)
      PROVE  UNCHANGED <<phase, jobsCh, slot>>
    BY <1>1 DEF Submit, local
<1>2. CASE UNCHANGED vars
    <2>1. UNCHANGED <<phase, jobsCh, slot>>
        BY <1>2 DEF vars, local
    <2> QED
        BY <2>1, Zenon DEF PhaseStep, SlotStep, QueueStep
<1>3. CASE UNCHANGED <<phase, jobsCh, slot>>
    BY <1>3, Zenon DEF PhaseStep, SlotStep, QueueStep
<1> QED
    BY <1>1, <1>2, <1>3, SlotNextSteps, ReplicaNextSteps, Zenon DEF Next

\* The budgets are only ever used up.
LEMMA BudgetsGrow ==
    ASSUME MemoryOK, [Next]_vars
    PROVE  /\ faults # 0 => faults' # 0
           /\ stops # 0 => stops' # 0
<1>0. faults \in Nat /\ stops \in Nat
    BY WorkerAssumption DEF MemoryOK
<1>1. faults' = faults \/ faults' = faults + 1
    <2>1. ASSUME NEW w \in Workers, ReplicaNext(w)
          PROVE  faults' = faults \/ faults' = faults + 1
        BY <2>1 DEF ReplicaNext, PollOnce, PollClaims, PollClaimLost, PollEmpty, Send,
           DropBatch, Reap, Sigterm, ReleaseQueued, ReleaseFails, StopReturns, Stall,
           Resume, Crash, Start, Fault, NoFault
    <2>2. ASSUME NEW w \in Workers, NEW s \in Slots, SlotNext(w, s)
          PROVE  faults' = faults \/ faults' = faults + 1
        BY <2>2 DEF SlotNext, Receive, Heartbeat, HeartbeatLost, RunJob, Record,
           RecordFails, Exit, Fault, NoFault
    <2>3. ASSUME NEW j \in JobIds, Submit(j)
          PROVE  UNCHANGED faults
        BY <2>3 DEF Submit
    <2>4. Tick \/ UNCHANGED vars => UNCHANGED faults
        BY DEF Tick, vars
    <2> QED
        BY <2>1, <2>2, <2>3, <2>4 DEF Next
<1>2. stops' = stops \/ stops' = stops + 1
    <2>1. ASSUME NEW w \in Workers, ReplicaNext(w)
          PROVE  stops' = stops \/ stops' = stops + 1
        BY <2>1 DEF ReplicaNext, PollOnce, PollClaims, PollClaimLost, PollEmpty, Send,
           DropBatch, Reap, Sigterm, ReleaseQueued, ReleaseFails, StopReturns, Stall,
           Resume, Crash, Start
    <2>2. ASSUME NEW w \in Workers, NEW s \in Slots, SlotNext(w, s)
          PROVE  UNCHANGED stops
        BY <2>2 DEF SlotNext, Receive, Heartbeat, HeartbeatLost, RunJob, Record,
           RecordFails, Exit
    <2>3. ASSUME NEW j \in JobIds, Submit(j)
          PROVE  UNCHANGED stops
        BY <2>3 DEF Submit
    <2>4. Tick \/ UNCHANGED vars => UNCHANGED stops
        BY DEF Tick, vars
    <2> QED
        BY <2>1, <2>2, <2>3, <2>4 DEF Next
<1> QED
    BY <1>0, <1>1, <1>2

\* A fault counts as one.
LEMMA FaultCounts ==
    ASSUME MemoryOK, Fault
    PROVE  faults' # 0
<1>1. faults \in Nat
    BY WorkerAssumption DEF MemoryOK
<1> QED
    BY <1>1 DEF Fault

\* A tick counts for the goroutines at work.
LEMMA TickSlots ==
    ASSUME MemoryOK, Tick, NEW v \in Workers, NEW s \in Slots
    PROVE  /\ UNCHANGED <<phase, free, batch, jobsCh, faults, stops>>
           /\ slot'[v][s].pc = slot[v][s].pc
           /\ slot'[v][s].claim = slot[v][s].claim
           /\ Busy(slot'[v][s]) = Busy(slot[v][s])
           /\ slot[v][s].elapsed \in Nat
           /\ slot[v][s].beat \in Nat
           /\ Busy(slot[v][s]) /\ slot[v][s].elapsed < MaxRun =>
                  slot'[v][s].elapsed = slot[v][s].elapsed + 1
           /\ Busy(slot[v][s]) /\ slot[v][s].beat > 0 =>
                  slot'[v][s].beat = slot[v][s].beat - 1
<1> DEFINE g == slot[v][s]
           e == IF g.elapsed < ElapsedBound THEN g.elapsed + 1 ELSE g.elapsed
           b == IF g.beat > 0 THEN g.beat - 1 ELSE g.beat
<1>1. slot'[v][s] = AgedSlot(g)
    BY DEF Tick
<1>2. g \in Goroutine
    BY DEF MemoryOK
<1>3. AgedSlot(g).pc = g.pc /\ AgedSlot(g).claim = g.claim
    BY <1>2, AgedSlotType
<1>4. g.elapsed \in Nat /\ g.beat \in Nat
    BY <1>2, TimersType DEF Goroutine
<1>5. Busy(g) => AgedSlot(g).elapsed = e /\ AgedSlot(g).beat = b
    <2>1. Busy(g) => AgedSlot(g) = [g EXCEPT !.elapsed = e, !.beat = b]
        BY Zenon DEF AgedSlot, Busy
    <2> HIDE DEF e, b
    <2> QED
        BY <1>2, <2>1 DEF Goroutine
<1>6. g.elapsed < MaxRun => e = g.elapsed + 1
    BY <1>4, TimersType, WorkerAssumption
<1>7. g.beat > 0 => b = g.beat - 1
    BY <1>4
<1>8. Busy(slot'[v][s]) = Busy(slot[v][s])
    BY <1>1, <1>3, Zenon DEF Busy
<1>9. UNCHANGED <<phase, free, batch, jobsCh, faults, stops>>
    BY DEF Tick
<1> HIDE DEF g, e, b
<1> QED
    BY <1>1, <1>3, <1>4, <1>5, <1>6, <1>7, <1>8, <1>9, Zenon DEF g

\* What a goroutine does in a step that is not a tick, seen from its timers.
LEMMA SlotTimers ==
    ASSUME MemoryOK, NEW v \in Workers, NEW s \in Slots, SlotStep(v, s),
           Busy(slot'[v][s])
    PROVE  \/ Receive(v, s) /\ slot'[v][s] = Running(Head(jobsCh[v]))
           \/ /\ Busy(slot[v][s])
              /\ slot'[v][s].claim = slot[v][s].claim
              /\ slot'[v][s].elapsed = slot[v][s].elapsed
              /\ \/ slot'[v][s].beat = slot[v][s].beat
                 \/ /\ Heartbeat(v, s) \/ HeartbeatLost(v, s)
                    /\ slot'[v][s].beat = HeartbeatInterval
<1>0. slot[v][s] \in Goroutine
    BY DEF MemoryOK
<1>1. ~Busy(Idle) /\ ~Busy(Exited)
    BY DEF Busy, Idle, Exited
<1>2. CASE slot'[v][s] = slot[v][s]
    BY <1>2
<1>3. CASE /\ Heartbeat(v, s) \/ HeartbeatLost(v, s)
           /\ slot'[v][s] = [slot[v][s] EXCEPT !.beat = HeartbeatInterval]
    <2>1. Busy(slot[v][s])
        BY <1>3 DEF Heartbeat, HeartbeatLost, Busy
    <2> QED
        BY <1>0, <1>3, <2>1 DEF Goroutine
<1>4. ASSUME NEW outcome \in Outcome, RunJob(v, s, outcome),
             slot'[v][s] = [slot[v][s] EXCEPT !.pc = "record", !.outcome = outcome]
      PROVE  /\ Busy(slot[v][s])
             /\ slot'[v][s].claim = slot[v][s].claim
             /\ slot'[v][s].elapsed = slot[v][s].elapsed
             /\ slot'[v][s].beat = slot[v][s].beat
    <2>1. Busy(slot[v][s])
        BY <1>4 DEF RunJob, Busy
    <2> QED
        BY <1>0, <1>4, <2>1 DEF Goroutine
<1> QED
    BY <1>1, <1>2, <1>3, <1>4, Zenon DEF SlotStep

-----------------------------------------------------------------------------
(* The phases.                                                             *)

\* Every step keeps what the phases say.
LEMMA PhaseSoundStep ==
    ASSUME ClaimsInv, ClaimsInv', \A w \in Workers : PhaseSound(w), [Next]_vars,
           NEW v \in Workers
    PROVE  PhaseSound(v)'
<1>0. /\ MemoryOK /\ MemoryOK' /\ WorkerInv /\ PhaseSound(v)
      /\ phase[v] \in Phase
    BY DEF ClaimsInv, QueueInv, WorkerInv, MemoryOK
<1>1. (faults # 0 => faults' # 0) /\ (stops # 0 => stops' # 0)
    BY <1>0, BudgetsGrow
<1>2. CASE Tick
    <2>1. UNCHANGED phase
        BY <1>2 DEF Tick
    <2>2. \A s \in Slots : slot'[v][s].pc = slot[v][s].pc
        BY <1>0, <1>2, TickSlots
    <2>3. Held(v)' = Held(v)
        <3>1. \A s \in Slots : slot'[v][s].claim = slot[v][s].claim
            BY <1>0, <1>2, TickSlots
        <3>2. UNCHANGED <<batch, jobsCh>>
            BY <1>2 DEF Tick
        <3> QED
            BY <2>2, <3>1, <3>2 DEF Held
    <2> QED
        BY <1>0, <1>1, <2>1, <2>2, <2>3, Zenon DEF PhaseSound
<1>3. CASE ~Tick /\ phase'[v] = phase[v]
    <2>1. \A s \in Slots : SlotStep(v, s)
        BY <1>0, <1>3, ReplicaSteps
    <2>2. phase[v] \in {"running", "stalled"} =>
              \A s \in Slots : slot'[v][s].pc # "exited"
        <3> SUFFICES ASSUME phase[v] \in {"running", "stalled"}, NEW s \in Slots
                     PROVE  slot'[v][s].pc # "exited"
            OBVIOUS
        <3>0. slot[v][s].pc # "exited" /\ slot[v][s] \in Goroutine
            BY <1>0 DEF PhaseSound, MemoryOK
        <3>1. ~Exit(v, s)
            BY DEF Exit
        <3>2. ~Crash(v)
            <4>1. Crash(v) => phase'[v] = "down"
                BY <1>0 DEF Crash, MemoryOK
            <4> QED
                BY <1>3, <4>1
        <3>3. Idle.pc # "exited"
            BY DEF Idle
        <3>4. Receive(v, s) => Running(Head(jobsCh[v])).pc # "exited"
            BY DEF Running, Idle
        <3>5. [slot[v][s] EXCEPT !.beat = HeartbeatInterval].pc # "exited"
            BY <3>0 DEF Goroutine
        <3>6. \A outcome : [slot[v][s] EXCEPT !.pc = "record", !.outcome = outcome].pc # "exited"
            BY <3>0 DEF Goroutine
        <3> QED
            BY <2>1, <3>0, <3>1, <3>2, <3>3, <3>4, <3>5, <3>6, Zenon DEF SlotStep
    <2>3. phase[v] \in {"stopped", "down"} => Held(v)' = {}
        <3>1. PollClaims(v) => phase[v] = "running"
            BY DEF PollClaims
        <3>2. phase[v] \in {"stopped", "down"} => Held(v)' \subseteq Held(v)
            BY <1>0, <3>1, OnceStep
        <3> QED
            BY <1>0, <3>2 DEF PhaseSound
    <2> QED
        BY <1>0, <1>1, <1>3, <2>2, <2>3, Zenon DEF PhaseSound
<1>4. CASE Sigterm(v) /\ phase'[v] = "cancelled"
    <2>1. stops' # 0
        <3>1. stops \in Nat /\ stops' = stops + 1
            BY <1>0, <1>4, WorkerAssumption DEF MemoryOK, Sigterm
        <3> QED
            BY <3>1
    <2> QED
        BY <1>4, <2>1 DEF PhaseSound
<1>5. CASE StopReturns(v) /\ phase'[v] = "stopped"
    <2>1. phase[v] = "cancelled" /\ batch[v] = {} /\ jobsCh[v] = << >>
          /\ \A s \in Slots : slot[v][s].pc = "exited"
        BY <1>5 DEF StopReturns, Quiet
    <2>2. UNCHANGED <<batch, jobsCh, slot>>
        BY <1>5 DEF StopReturns
    <2>3. Held(v)' = {}
        <3>1. DOMAIN jobsCh[v] = {} /\ {r \in Slots : slot[v][r].pc \in {"run", "record"}} = {}
            BY <2>1
        <3> QED
            BY <2>1, <2>2, <3>1 DEF Held
    <2> QED
        BY <1>0, <1>1, <1>5, <2>1, <2>3 DEF PhaseSound
<1>6. CASE Stall(v) /\ phase'[v] = "stalled"
    <2>1. faults' # 0
        BY <1>0, <1>6, FaultCounts DEF Stall
    <2>2. UNCHANGED slot /\ phase[v] = "running"
        BY <1>6 DEF Stall
    <2> QED
        BY <1>0, <1>6, <2>1, <2>2 DEF PhaseSound
<1>7. CASE Resume(v) /\ phase'[v] = "running"
    <2>1. UNCHANGED slot /\ phase[v] = "stalled"
        BY <1>7 DEF Resume
    <2> QED
        BY <1>0, <1>7, <2>1 DEF PhaseSound
<1>8. CASE Crash(v) /\ phase'[v] = "down"
    <2>1. faults' # 0
        BY <1>0, <1>8, FaultCounts DEF Crash
    <2>2. batch'[v] = {} /\ jobsCh'[v] = << >>
        BY <1>0, <1>8 DEF Crash, MemoryOK
    <2>3. slot'[v] = [s \in Slots |-> Exited]
        <3> HIDE DEF Slots, Goroutine
        <3> QED
            BY <1>0, <1>8 DEF Crash, MemoryOK
    <2>4. \A s \in Slots : ~(slot'[v][s].pc \in {"run", "record"})
        <3>1. Exited.pc = "exited"
            BY DEF Exited, Idle
        <3> QED
            BY <2>3, <3>1
    <2>5. Held(v)' = {}
        <3>1. DOMAIN jobsCh'[v] = {} /\ {r \in Slots : slot'[v][r].pc \in {"run", "record"}} = {}
            BY <2>2, <2>4
        <3> QED
            BY <2>2, <3>1 DEF Held
    <2> QED
        BY <1>8, <2>1, <2>5 DEF PhaseSound
<1>9. CASE Start(v) /\ phase'[v] = "running"
    <2>1. slot'[v] = [s \in Slots |-> Idle]
        <3> HIDE DEF Slots, Goroutine
        <3> QED
            BY <1>0, <1>9 DEF Start, MemoryOK
    <2>2. Idle.pc = "idle"
        BY DEF Idle
    <2> QED
        BY <1>9, <2>1, <2>2 DEF PhaseSound
<1>10. \E s \in Slots : TRUE
    <2>1. 1 \in Slots
        BY WorkerAssumption DEF Slots
    <2> QED
        BY <2>1
<1>11. ~Tick => PhaseStep(v)
    BY <1>0, <1>10, ReplicaSteps
<1> QED
    BY <1>2, <1>3, <1>4, <1>5, <1>6, <1>7, <1>8, <1>9, <1>11, Zenon DEF PhaseStep

\* While time passes without a fault, a busy goroutine is in its call, on a running
\* replica, with time left and its next heartbeat ahead.
LEMMA TickWaits ==
    ASSUME ClaimsInv, \A w \in Workers : PhaseSound(w), Tick, faults = 0,
           NEW v \in Workers, NEW s \in BusySlots(v)
    PROVE  /\ phase[v] = "running"
           /\ slot[v][s].elapsed < MaxRun
           /\ slot[v][s].beat > 0
<1>0. /\ MemoryOK /\ PhaseSound(v) /\ phase[v] \in Phase
      /\ s \in Slots /\ slot[v][s].pc \in {"run", "record"}
    BY DEF ClaimsInv, MemoryOK, BusySlots, Busy
<1>1. slot[v][s].claim \in Held(v)
    BY <1>0 DEF Held
<1>2. phase[v] \in {"running", "cancelled"}
    BY <1>0, <1>1 DEF PhaseSound, Phase
<1>3. SlotWaits(v, s)
    BY <1>0, <1>2 DEF Tick, Timely
<1>4. CASE slot[v][s].pc = "run"
    BY <1>3, <1>4 DEF SlotWaits
<1>5. CASE slot[v][s].pc = "record"
    BY <1>3, <1>5 DEF SlotWaits
<1> QED
    BY <1>0, <1>4, <1>5

\* Every step keeps runs within MaxRun, as long as there is no fault.
LEMMA ElapsedSoundStep ==
    ASSUME ClaimsInv, ClaimsInv', \A w \in Workers : PhaseSound(w), ElapsedSound,
           [Next]_vars
    PROVE  ElapsedSound'
<1>0. MemoryOK /\ MemoryOK' /\ MaxRun \in Nat
    BY WorkerAssumption DEF ClaimsInv
<1> SUFFICES ASSUME faults' = 0, NEW v \in Workers, NEW s \in BusySlots(v)'
             PROVE  slot'[v][s].elapsed <= MaxRun
    BY DEF ElapsedSound
<1>1. faults = 0
    BY <1>0, BudgetsGrow
<1>2. s \in Slots /\ Busy(slot'[v][s])
    BY DEF BusySlots
<1>3. CASE Tick
    <2>1. /\ Busy(slot[v][s]) /\ slot[v][s].elapsed \in Nat
          /\ slot[v][s].elapsed < MaxRun => slot'[v][s].elapsed = slot[v][s].elapsed + 1
        BY <1>0, <1>2, <1>3, TickSlots
    <2>2. s \in BusySlots(v)
        BY <1>2, <2>1 DEF BusySlots
    <2>3. slot[v][s].elapsed < MaxRun
        BY <1>1, <1>3, <2>2, TickWaits
    <2> QED
        BY <1>0, <2>1, <2>3
<1>4. CASE ~Tick
    <2>1. SlotStep(v, s)
        BY <1>0, <1>2, <1>4, ReplicaSteps
    <2>2. Running(Head(jobsCh[v])).elapsed = 0
        BY DEF Running, Idle
    <2>3. Busy(slot[v][s]) => slot[v][s].elapsed <= MaxRun
        BY <1>1, <1>2 DEF ElapsedSound, BusySlots
    <2>4. slot'[v][s].elapsed = 0 \/ (Busy(slot[v][s]) /\ slot'[v][s].elapsed = slot[v][s].elapsed)
        BY <1>0, <1>2, <2>1, <2>2, SlotTimers
    <2> QED
        BY <1>0, <2>3, <2>4
<1> QED
    BY <1>3, <1>4

-----------------------------------------------------------------------------
(* Nothing is forgotten.                                                   *)

\* Who may change the batch of a poller.
LEMMA BatchSteps ==
    ASSUME MemoryOK, [Next]_vars, NEW v \in Workers
    PROVE  \/ batch'[v] = batch[v]
           \/ PollClaims(v) \/ Send(v) \/ DropBatch(v) \/ Crash(v)
<1>0. batch \in [Workers -> SUBSET Claim]
    BY DEF MemoryOK
<1>1. ASSUME NEW w \in Workers, ReplicaNext(w)
      PROVE  \/ batch'[v] = batch[v]
             \/ PollClaims(v) \/ Send(v) \/ DropBatch(v) \/ Crash(v)
    <2>1. \/ UNCHANGED batch
          \/ PollClaims(w) \/ Send(w) \/ DropBatch(w) \/ Crash(w)
        BY <1>1 DEF ReplicaNext, PollOnce, PollClaimLost, PollEmpty, Reap, local, Sigterm,
           ReleaseQueued, ReleaseFails, StopReturns, Stall, Resume, Start
    <2>2. v # w /\ (PollClaims(w) \/ Send(w) \/ DropBatch(w) \/ Crash(w)) =>
              batch'[v] = batch[v]
        BY <1>0 DEF PollClaims, Send, DropBatch, Crash
    <2> QED
        BY <2>1, <2>2, Zenon
<1>2. ASSUME NEW w \in Workers, NEW s \in Slots, SlotNext(w, s)
      PROVE  UNCHANGED batch
    BY <1>2 DEF SlotNext, Receive, Heartbeat, HeartbeatLost, RunJob, Record, RecordFails, Exit
<1>3. ASSUME NEW j \in JobIds, Submit(j)
      PROVE  UNCHANGED batch
    BY <1>3 DEF Submit, local
<1>4. Tick \/ UNCHANGED vars => UNCHANGED batch
    BY DEF Tick, vars, local
<1> QED
    BY <1>1, <1>2, <1>3, <1>4, Zenon DEF Next

\* Complete, Fail and Retry all end the run of the row, and a statement that finds
\* nothing to update found it ended.
LEMMA RecordSettles ==
    ASSUME GoodTable, MemoryOK, NEW w \in Workers, NEW s \in Slots, Record(w, s)
    PROVE  jobs'[slot[w][s].claim.job].status # "processing"
<1> DEFINE j == slot[w][s].claim.job
<1>0. j \in JobIds /\ jobs[j] \in Row /\ jobs \in [JobIds -> Row]
    BY DEF Record, MemoryOK, Busy, Claim, GoodTable
<1>1. ASSUME NEW new, new.status # "processing", jobs' = [jobs EXCEPT ![j] = new]
      PROVE  jobs'[j].status # "processing"
    BY <1>0, <1>1
<1>2. ASSUME NEW summary \in Summary, Complete(j, summary)
      PROVE  jobs'[j].status # "processing"
    <2>1. Completed(jobs[j], summary).status # "processing"
        BY <1>0 DEF Completed, Row
    <2> QED
        BY <1>1, <1>2, <2>1 DEF Complete
<1>3. ASSUME Fail(j, "rejected")
      PROVE  jobs'[j].status # "processing"
    <2>1. Failed(jobs[j], "rejected").status # "processing"
        BY <1>0 DEF Failed, Row
    <2> QED
        BY <1>1, <1>3, <2>1 DEF Fail
<1>4. ASSUME NEW m, NEW base, NEW max, Retry(j, m, MaxAttempts, base, max)
      PROVE  jobs'[j].status # "processing"
    <2>1. Failed(jobs[j], m).status # "processing"
        BY <1>0 DEF Failed, Row
    <2>2. Rescheduled(jobs[j], m, base, max).status # "processing"
        BY <1>0 DEF Rescheduled, Row
    <2>3. Retried(jobs[j], m, MaxAttempts, base, max).status # "processing"
        BY <2>1, <2>2, Zenon DEF Retried
    <2> QED
        BY <1>1, <1>4, <2>3 DEF Retry
<1>5. NotFound(j) => jobs'[j].status # "processing"
    BY DEF NotFound, Processing
<1>6. RecordOutcome(j, slot[w][s].outcome) \/ NotFound(j)
    BY DEF Record
<1> HIDE DEF j
<1> QED
    BY <1>2, <1>3, <1>4, <1>5, <1>6, Zenon DEF RecordOutcome, j

\* If no call outlasts finalCtx, only a fault keeps an outcome from being recorded.
LEMMA FinalCtxHolds ==
    ASSUME MemoryOK, ElapsedSound, MaxRun < FinalTimeout, faults = 0,
           NEW w \in Workers, NEW s \in Slots, RecordFails(w, s)
    PROVE  faults' # 0
<1>1. slot[w][s] \in Goroutine /\ Busy(slot[w][s])
    BY DEF MemoryOK, RecordFails, Busy
<1>2. slot[w][s].elapsed <= MaxRun
    BY <1>1 DEF ElapsedSound, BusySlots
<1>3. slot[w][s].elapsed \in Nat
    BY <1>1, TimersType DEF Goroutine
<1>4. ~FinalCtxDone(w, s)
    BY <1>2, <1>3, WorkerAssumption DEF FinalCtxDone
<1> QED
    BY <1>4, FaultCounts DEF RecordFails

\* A goroutine lets go of a claim only by recording its outcome.
LEMMA SlotKeeps ==
    ASSUME NEW v \in Workers, NEW s \in BusySlots(v),
           ClaimsInv, PhaseSound(v), ElapsedSound, MaxRun < FinalTimeout, faults' = 0,
           [Next]_vars
    PROVE  \/ s \in BusySlots(v)' /\ slot'[v][s].claim = slot[v][s].claim
           \/ Record(v, s)
<1>0. /\ MemoryOK /\ s \in Slots /\ Busy(slot[v][s]) /\ slot[v][s] \in Goroutine
      /\ slot[v][s].pc \in {"run", "record"}
    BY DEF ClaimsInv, MemoryOK, BusySlots, Busy
<1>1. faults = 0
    BY <1>0, BudgetsGrow
<1>2. slot[v][s].claim \in Held(v)
    BY <1>0 DEF Held
<1>3. CASE Tick
    BY <1>0, <1>3, TickSlots DEF BusySlots
<1>4. CASE ~Tick
    <2>1. SlotStep(v, s)
        BY <1>0, <1>4, ReplicaSteps
    <2>2. ~Receive(v, s) /\ ~Exit(v, s)
        BY <1>0 DEF Receive, Exit
    <2>3. ~Crash(v)
        BY <1>0, FaultCounts DEF Crash
    <2>4. ~Start(v)
        BY <1>2 DEF Start, PhaseSound
    <2>5. ~RecordFails(v, s)
        BY <1>0, <1>1, FinalCtxHolds
    <2>6. ASSUME slot'[v][s] = [slot[v][s] EXCEPT !.beat = HeartbeatInterval]
          PROVE  slot'[v][s].pc = slot[v][s].pc /\ slot'[v][s].claim = slot[v][s].claim
        BY <1>0, <2>6 DEF Goroutine
    <2>7. ASSUME NEW outcome,
                 slot'[v][s] = [slot[v][s] EXCEPT !.pc = "record", !.outcome = outcome]
          PROVE  slot'[v][s].pc = "record" /\ slot'[v][s].claim = slot[v][s].claim
        BY <1>0, <2>7 DEF Goroutine
    <2>8. \/ slot'[v][s].pc \in {"run", "record"} /\ slot'[v][s].claim = slot[v][s].claim
          \/ Record(v, s)
        BY <1>0, <2>1, <2>2, <2>3, <2>4, <2>5, <2>6, <2>7, Zenon DEF SlotStep
    <2> QED
        BY <1>0, <2>8, Zenon DEF BusySlots, Busy
<1> QED
    BY <1>3, <1>4

\* Without faults and signals a replica lets go of a claim only when its row has
\* ended its run.
LEMMA HeldKept ==
    ASSUME NEW v \in Workers, NEW c \in Held(v),
           ClaimsInv, PhaseSound(v), ElapsedSound, MaxRun < FinalTimeout,
           faults' = 0, stops' = 0, [Next]_vars
    PROVE  c \in Held(v)' \/ jobs'[c.job].status # "processing"
<1>0. /\ MemoryOK /\ GoodTable /\ RoomSound(v)
      /\ jobsCh[v] \in Seq(Claim) /\ batch[v] \subseteq Claim
    BY DEF ClaimsInv, QueueInv, MemoryOK
<1>1. faults = 0 /\ stops = 0
    BY <1>0, BudgetsGrow
<1>2. phase[v] \notin {"cancelled", "stopped", "stalled", "down"}
    BY <1>1 DEF PhaseSound
<1>3. ~Crash(v)
    BY <1>0, FaultCounts DEF Crash
<1>4. Held(v) = batch[v] \cup Chan(v) \cup InHand(v)
    BY <1>0, HeldParts
<1>5. MemoryOK'
    BY <1>0, MemoryStep DEF WorkerInv
<1>6. Held(v)' = batch'[v] \cup Chan(v)' \cup InHand(v)'
    BY <1>5, HeldPartsNext
<1>7. Send(v) => \E d \in batch[v] : /\ jobsCh'[v] = Append(jobsCh[v], d)
                                     /\ batch'[v] = batch[v] \ {d}
    BY <1>0 DEF Send, MemoryOK
<1>8. ASSUME NEW d \in Claim, jobsCh'[v] = Append(jobsCh[v], d)
      PROVE  Chan(v) \cup {d} \subseteq Chan(v)'
    <2> DEFINE q == jobsCh[v]
    <2>1. /\ \A i \in DOMAIN q : i \in DOMAIN Append(q, d) /\ Append(q, d)[i] = q[i]
          /\ Len(q) + 1 \in DOMAIN Append(q, d) /\ Append(q, d)[Len(q) + 1] = d
        <3> HIDE DEF Claim, q
        <3>1. q \in Seq(Claim)
            BY <1>0 DEF q
        <3> QED
            BY <3>1
    <2> QED
        BY <1>8, <2>1 DEF Chan
<1>9. CASE c \in batch[v]
    <2>1. ~PollClaims(v)
        <3>1. PollClaims(v) => free[v] > 0
            BY DEF PollClaims
        <3> QED
            BY <1>0, <1>9, <3>1 DEF RoomSound
    <2>2. ~DropBatch(v)
        BY <1>2 DEF DropBatch
    <2>3. CASE Send(v)
        <3>1. PICK d \in batch[v] : /\ jobsCh'[v] = Append(jobsCh[v], d)
                                    /\ batch'[v] = batch[v] \ {d}
            BY <1>7, <2>3
        <3>2. d \in Chan(v)'
            BY <1>0, <1>8, <3>1
        <3> QED
            BY <1>6, <1>9, <3>1, <3>2
    <2>4. CASE batch'[v] = batch[v]
        BY <1>6, <1>9, <2>4
    <2> QED
        BY <1>0, <1>3, <2>1, <2>2, <2>3, <2>4, BatchSteps
<1>10. CASE c \in Chan(v)
    <2>1. ~ReleaseQueued(v) /\ ~ReleaseFails(v)
        BY <1>2 DEF ReleaseQueued, ReleaseFails, Quiet
    <2>2. CASE jobsCh'[v] = jobsCh[v]
        BY <1>6, <1>10, <2>2 DEF Chan
    <2>3. CASE Send(v)
        <3>1. PICK d \in batch[v] : jobsCh'[v] = Append(jobsCh[v], d)
            BY <1>7, <2>3
        <3> QED
            BY <1>0, <1>6, <1>8, <1>10, <3>1
    <2>4. ASSUME NEW s \in Slots, Receive(v, s)
          PROVE  c \in Held(v)'
        <3>1. /\ jobsCh[v] # << >> /\ jobsCh'[v] = Tail(jobsCh[v])
              /\ slot'[v][s] = Running(Head(jobsCh[v]))
            BY <1>0, <2>4, ReceiveSlots DEF Receive, MemoryOK
        <3>2. PICK i \in DOMAIN jobsCh[v] : c = jobsCh[v][i]
            BY <1>10 DEF Chan
        <3>3. /\ Head(jobsCh[v]) \in Claim /\ Head(jobsCh[v]) = jobsCh[v][1]
              /\ i = 1 \/ (i - 1 \in DOMAIN jobsCh'[v] /\ c = jobsCh'[v][i - 1])
            BY <1>0, <3>1, <3>2, TailOf
        <3>4. Running(Head(jobsCh[v])).claim = Head(jobsCh[v]) /\ Busy(Running(Head(jobsCh[v])))
            <4>1. Running(Head(jobsCh[v])).pc = "run"
                BY DEF Running, Idle
            <4> QED
                BY <3>3, <4>1, RunningType DEF Busy
        <3>5. CASE i = 1
            BY <1>6, <3>1, <3>2, <3>3, <3>4, <3>5 DEF InHand, BusySlots
        <3>6. CASE i - 1 \in DOMAIN jobsCh'[v] /\ c = jobsCh'[v][i - 1]
            BY <1>6, <3>6 DEF Chan
        <3> QED
            BY <3>3, <3>5, <3>6
    <2>5. QueueStep(v)
        <3>1. CASE Tick
            BY <3>1 DEF Tick, QueueStep
        <3>2. 1 \in Slots
            BY WorkerAssumption DEF Slots
        <3>3. ~Tick => QueueStep(v)
            BY <1>0, <3>2, ReplicaSteps
        <3> QED
            BY <3>1, <3>3
    <2> QED
        BY <1>3, <2>1, <2>2, <2>3, <2>4, <2>5 DEF QueueStep
<1>11. CASE c \in InHand(v)
    <2>1. PICK s \in BusySlots(v) : c = slot[v][s].claim
        BY <1>11 DEF InHand
    <2>2. CASE s \in BusySlots(v)' /\ slot'[v][s].claim = slot[v][s].claim
        BY <1>6, <2>1, <2>2 DEF InHand
    <2>3. CASE Record(v, s)
        BY <1>0, <2>1, <2>3, RecordSettles DEF BusySlots
    <2> QED
        BY <2>2, <2>3, SlotKeeps
<1> QED
    BY <1>4, <1>9, <1>10, <1>11

\* So the row that is processing stays in the hands it was in.
LEMMA HandsSoundStep ==
    ASSUME ClaimsInv, ClaimsInv', \A w \in Workers : PhaseSound(w), ElapsedSound,
           HandsSound, [Next]_vars
    PROVE  HandsSound'
<1>0. MemoryOK /\ MemoryOK' /\ GoodTable /\ GoodTable' /\ WorkerInv
    BY DEF ClaimsInv, QueueInv, WorkerInv
<1> SUFFICES ASSUME MaxRun < FinalTimeout, faults' = 0, stops' = 0, NEW j \in JobIds,
                    jobs'[j].status = "processing"
             PROVE  ([job |-> j, attempt |-> jobs[j].attempts] \in Held(jobs[j].locked_by))'
    BY DEF HandsSound, NoClaimForgotten
<1>h. ASSUME NEW v, v = jobs'[j].locked_by,
             [job |-> j, attempt |-> jobs'[j].attempts] \in Held(v)'
      PROVE  ([job |-> j, attempt |-> jobs[j].attempts] \in Held(jobs[j].locked_by))'
    BY <1>h, Zenon DEF Held
<1>1. faults = 0 /\ stops = 0
    BY <1>0, BudgetsGrow
<1>2. CASE SameRun(j)
    <2>1. PICK v \in Workers : v = jobs[j].locked_by
        BY <1>0, <1>2 DEF GoodTable, RowConsistent, Row, SameRun
    <2>2. PICK c \in Held(v) : c = [job |-> j, attempt |-> jobs[j].attempts]
        BY <1>1, <1>2, <2>1 DEF HandsSound, NoClaimForgotten, SameRun
    <2>3. c.job = j
        BY <2>2
    <2>4. c = [job |-> j, attempt |-> jobs'[j].attempts] /\ v = jobs'[j].locked_by
        BY <1>2, <2>1, <2>2, Zenon DEF SameRun
    <2>5. c \in Held(v)' \/ jobs'[c.job].status # "processing"
        BY HeldKept
    <2>6. c \in Held(v)'
        BY <2>3, <2>5
    <2> QED
        BY <1>h, <2>4, <2>6
<1>3. ASSUME NEW w \in Workers, PollClaimLost(w)
      PROVE  FALSE
    <2>1. PhaseSound(w) /\ phase[w] # "cancelled"
        BY <1>1 DEF PhaseSound
    <2>2. Fault
        BY <1>3, <2>1 DEF PollClaimLost
    <2> QED
        BY <1>0, <2>2, FaultCounts
<1>4. ASSUME NEW w \in Workers, PollClaims(w)
      PROVE  ([job |-> j, attempt |-> jobs[j].attempts] \in Held(jobs[j].locked_by))'
    <2>1. /\ ClaimBatch(w, WorkerLease, free[w])
          /\ batch'[w] = ClaimsOf(free[w])
        BY <1>0, <1>4 DEF PollClaims, MemoryOK
    <2>2. CASE j \in Oldest(free[w])
        <3>1. jobs'[j].attempts = jobs[j].attempts + 1 /\ jobs'[j].locked_by = w
            BY <1>0, <2>1, <2>2, ClaimRow
        <3>2. [job |-> j, attempt |-> jobs'[j].attempts] \in batch'[w]
            BY <2>1, <2>2, <3>1 DEF ClaimsOf
        <3>3. [job |-> j, attempt |-> jobs'[j].attempts] \in Held(w)'
            BY <1>0, <3>2, HeldPartsNext
        <3> QED
            BY <1>h, <3>1, <3>3
    <2>3. CASE j \notin Oldest(free[w])
        <3>1. jobs'[j] = jobs[j]
            BY <1>0, <2>1, <2>3, ClaimRow
        <3> QED
            BY <1>2, <3>1 DEF SameRun
    <2> QED
        BY <2>2, <2>3
<1>5. Tick => SameRun(j)
    BY <1>0, TickRow DEF Tick
<1>6. [OtherStatement]_jobs => SameRun(j)
    BY <1>0, OtherRow
<1> QED
    BY <1>0, <1>2, <1>3, <1>4, <1>5, <1>6, TableMoves, Zenon

-----------------------------------------------------------------------------
(* The leases.                                                             *)

\* LeaseFits, with the types of its numbers.
LEMMA LeaseNumbers ==
    ASSUME LeaseFits
    PROVE  /\ MaxRun \in Nat /\ HeartbeatInterval \in Nat \ {0}
           /\ WorkerLease - ClockLag \in Int
           /\ WorkerLease - ClockLag >= MaxRun + HeartbeatInterval
<1>1. HeartbeatInterval \in Nat \ {0}
    BY TimersType
<1> QED
    BY <1>1, RepoAssumption, WorkerAssumption DEF LeaseFits

\* A claim that is current after a step was current before it: a statement that
\* starts a new run raises `attempts`.  Its lease was left alone, or set anew, or is
\* one tick shorter.
LEMMA CurrentBack ==
    ASSUME ClaimsInv, [Next]_vars, NEW v \in Workers, NEW c \in Held(v), Current(c)'
    PROVE  /\ Current(c)
           /\ c.job \in JobIds
           /\ jobs[c.job].lease_until \in Int
           /\ Tick /\ jobs[c.job].lease_until >= 0 =>
                  jobs'[c.job].lease_until = jobs[c.job].lease_until - 1
           /\ ~Tick => \/ jobs'[c.job].lease_until = jobs[c.job].lease_until
                       \/ jobs'[c.job].lease_until = WorkerLease - ClockLag
<1>0. MemoryOK /\ GoodTable /\ WorkerInv /\ Counted
    BY DEF ClaimsInv, QueueInv, WorkerInv
<1>1. c \in Claim
    BY <1>0, HeldParts
<1> DEFINE k == c.job
<1>2. /\ k \in JobIds /\ c.attempt \in Nat /\ jobs[k] \in Row /\ RowConsistent(jobs[k])
      /\ jobs[k].attempts \in Nat
    BY <1>0, <1>1 DEF Claim, GoodTable, Row
<1>3. jobs'[k].status = "processing" /\ jobs'[k].attempts = c.attempt
    BY DEF Current
<1>4. c.attempt <= jobs[k].attempts
    BY <1>0 DEF Counted
<1>5. ASSUME SameRun(k)
      PROVE  Current(c) /\ jobs[k].lease_until \in Int
    <2>1. jobs[k].status = "processing" /\ jobs[k].attempts = c.attempt
        BY <1>3, <1>5 DEF SameRun
    <2>2. jobs[k].lease_until # NULL
        BY <1>2, <2>1 DEF RowConsistent
    <2> QED
        BY <1>2, <2>1, <2>2 DEF Current, Row
<1>6. CASE Tick
    <2>1. /\ SameRun(k)
          /\ jobs[k].lease_until >= 0 => jobs'[k].lease_until = jobs[k].lease_until - 1
        BY <1>0, <1>2, <1>3, <1>6, TickRow DEF Tick
    <2> QED
        BY <1>2, <1>5, <1>6, <2>1
<1>7. ASSUME NEW w \in Workers, PollClaims(w) \/ PollClaimLost(w)
      PROVE  jobs'[k] = jobs[k]
    <2>1. ClaimBatch(w, WorkerLease, free[w])
        BY <1>7 DEF PollClaims, PollClaimLost
    <2>2. k \in Oldest(free[w]) => jobs'[k].attempts = jobs[k].attempts + 1
        BY <1>0, <1>2, <2>1, ClaimRow
    <2>3. k \notin Oldest(free[w])
        BY <1>2, <1>3, <1>4, <2>2
    <2> QED
        BY <1>0, <1>2, <2>1, <2>3, ClaimRow
<1>8. ASSUME ~Tick
      PROVE  /\ SameRun(k)
             /\ \/ jobs'[k].lease_until = jobs[k].lease_until
                \/ jobs'[k].lease_until = WorkerLease - ClockLag
    <2>1. CASE jobs'[k] = jobs[k]
        BY <1>3, <2>1 DEF SameRun
    <2>2. CASE [OtherStatement]_jobs
        BY <1>0, <1>2, <1>3, <2>2, OtherRow
    <2> QED
        BY <1>0, <1>7, <1>8, <2>1, <2>2, TableMoves
<1> QED
    BY <1>2, <1>5, <1>6, <1>8

\* The younger goroutines are some of all.
LEMMA YoungerFew ==
    ASSUME NEW w, NEW age
    PROVE  /\ IsFiniteSet(Slots) /\ Cardinality(Slots) = Concurrency
           /\ Younger(w, age) \in SUBSET Slots
           /\ IsFiniteSet(Younger(w, age))
           /\ Cardinality(Younger(w, age)) \in Nat
<1>1. IsFiniteSet(Slots) /\ Cardinality(Slots) = Concurrency
    BY FS_Interval, WorkerAssumption DEF Slots
<1>2. Younger(w, age) \in SUBSET Slots
    BY DEF Younger, BusySlots
<1>3. IsFiniteSet(Younger(w, age))
    BY <1>1, <1>2, FS_Subset
<1> QED
    BY <1>1, <1>2, <1>3, FS_CardinalityType

\* What is to be shown of the three places of a claim after a step.
BatchLease(w) ==
    \A c \in batch'[w] : Current(c)' => jobs'[c.job].lease_until >= WorkerLease - ClockLag

QueueLease(w) ==
    \A i \in DOMAIN jobsCh'[w] : \A age \in Int :
        Current(jobsCh[w][i])' /\ age = WorkerLease - ClockLag - jobs'[jobsCh'[w][i].job].lease_until =>
            /\ age <= MaxRun
            /\ Cardinality({s \in BusySlots(w)' : slot'[w][s].elapsed < age}) + i <= Concurrency

SlotLease(w) ==
    \A s \in BusySlots(w)' :
        Current(slot[w][s].claim)' =>
            jobs'[slot'[w][s].claim.job].lease_until >= slot'[w][s].beat

\* The age of the lease of a current claim is a number.
LEMMA LeaseType ==
    ASSUME GoodTable, NEW c \in Claim, Current(c)
    PROVE  jobs[c.job].lease_until \in Int /\ LeaseAge(c.job) \in Int
<1>1. c.job \in JobIds
    BY DEF Claim
<1>2. jobs[c.job] \in Row /\ RowConsistent(jobs[c.job])
    BY <1>1 DEF GoodTable
<1>3. jobs[c.job].lease_until # NULL
    BY <1>2 DEF Current, RowConsistent
<1>4. jobs[c.job].lease_until \in Int
    BY <1>2, <1>3 DEF Row
<1> QED
    BY <1>4, RepoAssumption DEF LeaseAge

\* The three parts make up LeaseSoundAt.
LEMMA LeaseParts ==
    ASSUME GoodTable', MemoryOK', NEW w \in Workers,
           BatchLease(w), QueueLease(w), SlotLease(w)
    PROVE  LeaseSoundAt(w)'
<1>0. batch'[w] \subseteq Claim /\ jobsCh'[w] \in Seq(Claim)
    BY DEF MemoryOK
<1>1. ASSUME NEW c \in Claim, Current(c)'
      PROVE  jobs'[c.job].lease_until \in Int
    <2>1. c.job \in JobIds
        BY DEF Claim
    <2>2. jobs'[c.job] \in Row /\ RowConsistent(jobs'[c.job])
        BY <2>1 DEF GoodTable
    <2>3. jobs'[c.job].lease_until # NULL
        BY <1>1, <2>2 DEF Current, RowConsistent
    <2> QED
        BY <2>2, <2>3 DEF Row
<1>2. WorkerLease - ClockLag \in Int
    BY RepoAssumption
<1>3. \A c \in batch'[w] : Current(c)' => (LeaseAge(c.job) <= 0)'
    <2> SUFFICES ASSUME NEW c \in batch'[w], Current(c)'
                 PROVE  WorkerLease - ClockLag - jobs'[c.job].lease_until <= 0
        BY DEF LeaseAge
    <2>1. jobs'[c.job].lease_until \in Int
        BY <1>0, <1>1
    <2>2. jobs'[c.job].lease_until >= WorkerLease - ClockLag
        BY DEF BatchLease
    <2> QED
        BY <1>2, <2>1, <2>2, RepoAssumption
<1>4. ASSUME NEW i \in DOMAIN jobsCh'[w], Current(jobsCh[w][i])'
      PROVE  (/\ LeaseAge(jobsCh[w][i].job) <= MaxRun
              /\ Cardinality(Younger(w, LeaseAge(jobsCh[w][i].job))) + i <= Concurrency)'
    <2>1. PICK c \in Claim : c = jobsCh'[w][i]
        BY <1>0
    <2>2. Current(c)'
        BY <1>4, <2>1 DEF Current
    <2>3. jobs'[c.job].lease_until \in Int
        BY <1>1, <2>2
    <2>4. PICK age \in Int : age = WorkerLease - ClockLag - jobs'[c.job].lease_until
        BY <2>3, RepoAssumption
    <2>5. /\ age <= MaxRun
          /\ Cardinality({s \in BusySlots(w)' : slot'[w][s].elapsed < age}) + i <= Concurrency
        BY <1>4, <2>1, <2>4, Zenon DEF QueueLease
    <2>6. LeaseAge(jobsCh[w][i].job)' = age
        BY <2>1, <2>4, Zenon DEF LeaseAge
    <2>7. Younger(w, LeaseAge(jobsCh[w][i].job))' =
              {s \in BusySlots(w)' : slot'[w][s].elapsed < age}
        BY <2>6, Zenon DEF Younger
    <2> QED
        BY <2>5, <2>6, <2>7, Zenon
<1> QED
    BY <1>3, <1>4, Zenon DEF LeaseSoundAt, SlotLease

\* A running replica that stays running, without faults so far.
Steady(w) ==
    /\ LeaseFits
    /\ faults' = 0
    /\ phase[w] = "running"
    /\ phase'[w] = "running"
    /\ LeaseSoundAt(w)
    /\ \A v \in Workers : PhaseSound(v)

\* What cannot happen to such a replica.
LEMMA SteadyFacts ==
    ASSUME ClaimsInv, ClaimsInv', [Next]_vars, NEW w \in Workers, Steady(w)
    PROVE  /\ MemoryOK /\ MemoryOK' /\ GoodTable /\ GoodTable' /\ RoomSound(w)'
           /\ Held(w) = batch[w] \cup Chan(w) \cup InHand(w)
           /\ faults = 0
           /\ ~Crash(w) /\ ~DropBatch(w) /\ ~ReleaseQueued(w) /\ ~ReleaseFails(w)
<1>1. MemoryOK /\ MemoryOK' /\ GoodTable /\ GoodTable' /\ RoomSound(w)'
    BY DEF ClaimsInv, QueueInv
<1>2. Held(w) = batch[w] \cup Chan(w) \cup InHand(w)
    BY <1>1, HeldParts
<1>3. faults = 0
    BY <1>1, BudgetsGrow DEF Steady
<1>4. ~Crash(w)
    BY <1>1, FaultCounts DEF Crash, Steady
<1>5. ~DropBatch(w) /\ ~ReleaseQueued(w) /\ ~ReleaseFails(w)
    BY DEF DropBatch, ReleaseQueued, ReleaseFails, Quiet, Steady
<1> QED
    BY <1>1, <1>2, <1>3, <1>4, <1>5

\* A batch is sent before time passes.
LEMMA BatchLeaseStep ==
    ASSUME ClaimsInv, ClaimsInv', [Next]_vars, NEW w \in Workers, Steady(w)
    PROVE  BatchLease(w)
<1>0. /\ MemoryOK /\ MemoryOK' /\ GoodTable /\ Counted
      /\ Held(w) = batch[w] \cup Chan(w) \cup InHand(w)
      /\ ~Crash(w) /\ ~DropBatch(w) /\ batch[w] \subseteq Claim
    BY SteadyFacts DEF ClaimsInv, MemoryOK
<1>1. WorkerLease - ClockLag \in Int
    BY RepoAssumption
<1> SUFFICES ASSUME NEW c \in batch'[w], Current(c)'
             PROVE  jobs'[c.job].lease_until >= WorkerLease - ClockLag
    BY DEF BatchLease
<1>2. CASE c \in batch[w]
    <2>1. ~Tick
        BY <1>2 DEF Tick, Timely, Steady
    <2>2. /\ Current(c) /\ jobs[c.job].lease_until \in Int
          /\ \/ jobs'[c.job].lease_until = jobs[c.job].lease_until
             \/ jobs'[c.job].lease_until = WorkerLease - ClockLag
        BY <1>0, <1>2, <2>1, CurrentBack
    <2>3. WorkerLease - ClockLag - jobs[c.job].lease_until <= 0
        BY <1>2, <2>2 DEF Steady, LeaseSoundAt, LeaseAge
    <2> QED
        BY <1>1, <2>2, <2>3
<1>3. CASE PollClaims(w)
    <2>1. ClaimBatch(w, WorkerLease, free[w]) /\ c \in ClaimsOf(free[w])
        BY <1>0, <1>3 DEF PollClaims, MemoryOK
    <2>2. c.job \in Oldest(free[w]) /\ c.job \in JobIds
        BY <1>0, <2>1, ClaimsFresh
    <2>3. jobs'[c.job].lease_until = WorkerLease - ClockLag
        BY <1>0, <2>1, <2>2, ClaimRow
    <2> QED
        BY <1>1, <2>3
<1>4. CASE Send(w)
    <2>1. c \in batch[w]
        BY <1>0, <1>4 DEF Send, MemoryOK
    <2> QED
        BY <1>2, <2>1
<1> QED
    BY <1>0, <1>2, <1>3, <1>4, BatchSteps

\* The goroutines that are younger than the lease, after the step.
YoungerNext(w, age) == {s \in BusySlots(w)' : slot'[w][s].elapsed < age}

\* No goroutine is younger than a lease that was just set.
LEMMA FreshLease ==
    ASSUME MemoryOK', NEW w \in Workers, RoomSound(w)', NEW i \in DOMAIN jobsCh'[w],
           NEW age \in Int, age <= 0
    PROVE  age <= MaxRun /\ Cardinality(YoungerNext(w, age)) + i <= Concurrency
<1>1. \A s \in BusySlots(w)' : slot'[w][s].elapsed \in Nat
    BY TimersType DEF MemoryOK, BusySlots, Goroutine
<1>2. YoungerNext(w, age) = {}
    BY <1>1 DEF YoungerNext
<1>3. Cardinality(YoungerNext(w, age)) = 0
    BY <1>2, FS_EmptySet
<1>4. jobsCh'[w] \in Seq(Claim) /\ free'[w] \in 0 .. Concurrency
    BY DEF MemoryOK
<1>5. i \in Nat /\ i <= Len(jobsCh'[w]) /\ Len(jobsCh'[w]) \in Nat
    BY <1>4, Positions
<1>6. Cardinality(batch'[w]) \in Nat
    BY FS_CardinalityType DEF RoomSound
<1>7. Len(jobsCh'[w]) + Cardinality(batch'[w]) + free'[w] <= Concurrency
    BY DEF RoomSound
<1> QED
    BY <1>3, <1>4, <1>5, <1>6, <1>7, WorkerAssumption

\* LeaseSoundAt of one place in the channel.
LEMMA QueuedLease ==
    ASSUME NEW w \in Workers, LeaseSoundAt(w), NEW k \in DOMAIN jobsCh[w], NEW d,
           d = jobsCh[w][k], Current(d), NEW age,
           age = WorkerLease - ClockLag - jobs[d.job].lease_until
    PROVE  age <= MaxRun /\ Cardinality(Younger(w, age)) + k <= Concurrency
BY Zenon DEF LeaseSoundAt, LeaseAge

\* Time passes for the channel of a running replica only while every goroutine is
\* at work; then the lease is younger than the oldest run, which is not at its end.
LEMMA QueueLeaseTick ==
    ASSUME ClaimsInv, ClaimsInv', [Next]_vars, NEW w \in Workers, Steady(w), Tick,
           NEW i \in DOMAIN jobsCh'[w], NEW age \in Int, Current(jobsCh[w][i])',
           age = WorkerLease - ClockLag - jobs'[jobsCh'[w][i].job].lease_until
    PROVE  age <= MaxRun /\ Cardinality(YoungerNext(w, age)) + i <= Concurrency
<1>0. /\ MemoryOK /\ faults = 0
      /\ Held(w) = batch[w] \cup Chan(w) \cup InHand(w)
      /\ UNCHANGED jobsCh /\ jobsCh[w] \in Seq(Claim)
      /\ \A v \in Workers : PhaseSound(v)
    BY SteadyFacts DEF MemoryOK, Tick, Steady
<1>n. /\ MaxRun \in Nat /\ HeartbeatInterval \in Nat \ {0}
      /\ WorkerLease - ClockLag \in Int
      /\ WorkerLease - ClockLag >= MaxRun + HeartbeatInterval
      /\ Concurrency \in Nat
    BY LeaseNumbers, WorkerAssumption DEF Steady
<1>1. PICK d \in Chan(w) : d = jobsCh[w][i]
    BY <1>0 DEF Chan
<1>2. d = jobsCh'[w][i] /\ i \in DOMAIN jobsCh[w] /\ Current(d)'
    BY <1>0, <1>1 DEF Current
<1>3. i \in Nat /\ i >= 1
    BY <1>0, <1>2, Positions
<1>4. /\ Current(d) /\ jobs[d.job].lease_until \in Int
      /\ jobs[d.job].lease_until >= 0 =>
             jobs'[d.job].lease_until = jobs[d.job].lease_until - 1
    BY <1>0, <1>2, CurrentBack
<1>5. PICK old \in Int : old = WorkerLease - ClockLag - jobs[d.job].lease_until
    BY <1>4, <1>n
<1>6. old <= MaxRun /\ Cardinality(Younger(w, old)) + i <= Concurrency
    BY <1>1, <1>2, <1>4, <1>5, QueuedLease DEF Steady
<1>7. age = old + 1
    <2>1. jobs[d.job].lease_until >= 0
        BY <1>4, <1>5, <1>6, <1>n
    <2>2. jobs'[d.job].lease_until = jobs[d.job].lease_until - 1
        BY <1>4, <2>1
    <2>3. age = WorkerLease - ClockLag - jobs'[d.job].lease_until
        BY <1>2
    <2> QED
        BY <1>4, <1>5, <1>n, <2>2, <2>3
<1>8. \A s \in Slots : s \in BusySlots(w)
    <2> SUFFICES ASSUME NEW s \in Slots
                 PROVE  slot[w][s].pc \in {"run", "record"}
        BY DEF BusySlots, Busy
    <2>1. SlotWaits(w, s) /\ slot[w][s].pc # "exited"
        BY <1>0 DEF Tick, Timely, Steady, PhaseSound
    <2>2. jobsCh[w] # << >>
        BY <1>2
    <2>3. slot[w][s].pc \in {"idle", "run", "record", "exited"}
        BY <1>0 DEF MemoryOK, Goroutine
    <2>4. slot[w][s].pc # "idle"
        BY <2>1, <2>2 DEF SlotWaits
    <2> QED
        BY <2>1, <2>3, <2>4
<1>9. \A s \in Slots : slot[w][s].elapsed \in Nat /\ slot[w][s].elapsed < MaxRun
    BY <1>0, <1>8, TickWaits, TickSlots
<1>10. \E s \in Slots : s \notin Younger(w, old)
    <2>1. /\ IsFiniteSet(Slots) /\ Cardinality(Slots) = Concurrency
          /\ Younger(w, old) \in SUBSET Slots /\ Cardinality(Younger(w, old)) \in Nat
        BY YoungerFew
    <2>2. Cardinality(Younger(w, old)) # Cardinality(Slots)
        BY <1>3, <1>6, <1>n, <2>1
    <2>3. Younger(w, old) # Slots
        BY <2>2
    <2> QED
        BY <2>1, <2>3
<1>11. old < MaxRun
    <2>1. PICK s \in Slots : s \notin Younger(w, old)
        BY <1>10
    <2>2. ~(slot[w][s].elapsed < old)
        BY <1>8, <2>1 DEF Younger
    <2>3. slot[w][s].elapsed \in Nat /\ slot[w][s].elapsed < MaxRun
        BY <1>9
    <2> QED
        BY <1>n, <2>2, <2>3
<1>12. YoungerNext(w, age) = Younger(w, old)
    <2>1. \A s \in Slots : /\ Busy(slot'[w][s]) = Busy(slot[w][s])
                           /\ slot'[w][s].elapsed = slot[w][s].elapsed + 1
        BY <1>0, <1>8, <1>9, TickSlots DEF BusySlots
    <2>2. \A s \in Slots : slot'[w][s].elapsed < age <=> slot[w][s].elapsed < old
        BY <1>7, <1>9, <2>1
    <2> QED
        BY <2>1, <2>2, Zenon DEF YoungerNext, Younger, BusySlots
<1> QED
    BY <1>6, <1>7, <1>11, <1>12, <1>n

\* Between ticks, goroutines that take nothing from the channel grow no younger.
LEMMA NoneYounger ==
    ASSUME MemoryOK, [Next]_vars, ~Tick, NEW w \in Workers,
           \A s \in Slots : ~Receive(w, s), NEW age
    PROVE  YoungerNext(w, age) \in SUBSET Younger(w, age)
<1> SUFFICES ASSUME NEW s \in YoungerNext(w, age)
             PROVE  s \in Younger(w, age)
    OBVIOUS
<1>1. s \in Slots /\ Busy(slot'[w][s]) /\ slot'[w][s].elapsed < age
    BY DEF YoungerNext, BusySlots
<1>2. SlotStep(w, s)
    BY <1>1, ReplicaSteps
<1>3. Busy(slot[w][s]) /\ slot'[w][s].elapsed = slot[w][s].elapsed
    BY <1>1, <1>2, SlotTimers
<1> QED
    BY <1>1, <1>3, Zenon DEF Younger, BusySlots

\* The lease of a claim that keeps its place is as old as it was, or new.
LEMMA QueueLeaseKept ==
    ASSUME ClaimsInv, ClaimsInv', [Next]_vars, ~Tick, NEW w \in Workers, Steady(w),
           NEW i \in DOMAIN jobsCh'[w], i \in DOMAIN jobsCh[w],
           jobsCh'[w][i] = jobsCh[w][i], \A s \in Slots : ~Receive(w, s),
           NEW age \in Int, Current(jobsCh[w][i])',
           age = WorkerLease - ClockLag - jobs'[jobsCh'[w][i].job].lease_until
    PROVE  age <= MaxRun /\ Cardinality(YoungerNext(w, age)) + i <= Concurrency
<1>0. /\ MemoryOK /\ MemoryOK' /\ RoomSound(w)' /\ jobsCh[w] \in Seq(Claim)
      /\ Held(w) = batch[w] \cup Chan(w) \cup InHand(w)
    BY SteadyFacts DEF MemoryOK
<1>n. WorkerLease - ClockLag \in Int /\ Concurrency \in Nat
    BY RepoAssumption, WorkerAssumption
<1>1. PICK d \in Chan(w) : d = jobsCh[w][i]
    BY DEF Chan
<1>2. d = jobsCh'[w][i] /\ Current(d)'
    BY <1>1 DEF Current
<1>3. /\ Current(d) /\ jobs[d.job].lease_until \in Int
      /\ \/ jobs'[d.job].lease_until = jobs[d.job].lease_until
         \/ jobs'[d.job].lease_until = WorkerLease - ClockLag
    BY <1>0, <1>2, CurrentBack
<1>4. CASE jobs'[d.job].lease_until = WorkerLease - ClockLag
    <2>1. age = 0
        BY <1>2, <1>4, <1>n
    <2> QED
        BY <1>0, <2>1, FreshLease
<1>5. CASE jobs'[d.job].lease_until = jobs[d.job].lease_until
    <2>1. age = WorkerLease - ClockLag - jobs[d.job].lease_until
        BY <1>2, <1>5
    <2>2. age <= MaxRun /\ Cardinality(Younger(w, age)) + i <= Concurrency
        BY <1>1, <1>3, <2>1, QueuedLease DEF Steady
    <2>3. YoungerNext(w, age) \in SUBSET Younger(w, age)
        BY <1>0, NoneYounger
    <2>4. IsFiniteSet(Younger(w, age)) /\ Cardinality(Younger(w, age)) \in Nat
        BY YoungerFew
    <2>5. /\ IsFiniteSet(YoungerNext(w, age))
          /\ Cardinality(YoungerNext(w, age)) <= Cardinality(Younger(w, age))
        BY <2>3, <2>4, FS_Subset
    <2>6. Cardinality(YoungerNext(w, age)) \in Nat /\ i \in Nat
        BY <1>0, <2>5, FS_CardinalityType, Positions
    <2> QED
        BY <1>n, <2>2, <2>4, <2>5, <2>6
<1> QED
    BY <1>3, <1>4, <1>5

\* Claims in the channel.
LEMMA QueueLeaseStep ==
    ASSUME ClaimsInv, ClaimsInv', [Next]_vars, NEW w \in Workers, Steady(w)
    PROVE  QueueLease(w)
<1>0. /\ MemoryOK /\ MemoryOK' /\ RoomSound(w)' /\ jobsCh[w] \in Seq(Claim)
      /\ GoodTable /\ batch[w] \subseteq Claim
      /\ Held(w) = batch[w] \cup Chan(w) \cup InHand(w)
      /\ ~Crash(w) /\ ~ReleaseQueued(w) /\ ~ReleaseFails(w)
    BY SteadyFacts DEF MemoryOK
<1>n. WorkerLease - ClockLag \in Int /\ Concurrency \in Nat
    BY RepoAssumption, WorkerAssumption
<1> SUFFICES ASSUME NEW i \in DOMAIN jobsCh'[w], NEW age \in Int,
                    Current(jobsCh[w][i])',
                    age = WorkerLease - ClockLag - jobs'[jobsCh'[w][i].job].lease_until
             PROVE  age <= MaxRun /\ Cardinality(YoungerNext(w, age)) + i <= Concurrency
    BY DEF QueueLease, YoungerNext
<1>1. CASE Tick
    BY <1>1, QueueLeaseTick
<1>2. CASE Send(w)
    <2>1. PICK c \in batch[w] : jobsCh'[w] = Append(jobsCh[w], c)
        BY <1>0, <1>2 DEF Send, MemoryOK
    <2>2. UNCHANGED <<jobs, slot>>
        BY <1>2 DEF Send
    <2>3. \/ i \in DOMAIN jobsCh[w] /\ jobsCh'[w][i] = jobsCh[w][i]
          \/ jobsCh'[w][i] = c
        <3> DEFINE q == jobsCh[w]
        <3>1. c \in Claim /\ q \in Seq(Claim)
            BY <1>0
        <3>2. jobsCh'[w] = Append(q, c)
            BY <2>1
        <3> HIDE DEF q, Claim
        <3>3. (i \in DOMAIN q /\ jobsCh'[w][i] = q[i]) \/ jobsCh'[w][i] = c
            BY <3>1, <3>2
        <3> QED
            BY <3>3 DEF q
    <2>4. ASSUME jobsCh'[w][i] = c
          PROVE  age <= 0
        <3>1. Current(c)
            BY <2>2, <2>4 DEF Current
        <3>2. WorkerLease - ClockLag - jobs[c.job].lease_until <= 0
            BY <3>1 DEF Steady, LeaseSoundAt, LeaseAge
        <3> QED
            BY <2>2, <2>4, <3>2
    <2>5. CASE jobsCh'[w][i] = c
        BY <1>0, <2>4, <2>5, FreshLease
    <2>6. CASE i \in DOMAIN jobsCh[w] /\ jobsCh'[w][i] = jobsCh[w][i]
        <3>1. \A s \in Slots : ~Receive(w, s)
            <4> SUFFICES ASSUME NEW s \in Slots, Receive(w, s)
                         PROVE  FALSE
                OBVIOUS
            <4>1. jobsCh[w] # << >> /\ jobsCh'[w] = Tail(jobsCh[w])
                BY <1>0 DEF Receive, MemoryOK
            <4>2. Len(jobsCh'[w]) = Len(jobsCh[w]) - 1 /\ Len(jobsCh[w]) \in Nat
                BY <1>0, <4>1, TailOf, Positions
            <4>3. Len(jobsCh'[w]) = Len(jobsCh[w]) + 1
                <5>1. c \in Claim
                    BY <1>0
                <5> HIDE DEF Claim
                <5> QED
                    BY <1>0, <2>1, <5>1
            <4> QED
                BY <4>2, <4>3
        <3>2. CASE ~Tick
            BY <2>6, <3>1, <3>2, QueueLeaseKept
        <3> QED
            BY <1>1, <3>2
    <2> QED
        BY <2>3, <2>5, <2>6
<1>3. ASSUME NEW s \in Slots, Receive(w, s)
      PROVE  age <= MaxRun /\ Cardinality(YoungerNext(w, age)) + i <= Concurrency
    <2>1. /\ jobsCh[w] # << >> /\ jobsCh'[w] = Tail(jobsCh[w]) /\ UNCHANGED jobs
          /\ \A r \in Slots : r # s => slot'[w][r] = slot[w][r]
        BY <1>0, <1>3, ReceiveSlots DEF Receive, MemoryOK
    <2>2. i + 1 \in DOMAIN jobsCh[w] /\ jobsCh'[w][i] = jobsCh[w][i + 1]
        BY <1>0, <2>1, TailOf
    <2>3. PICK d : d = jobsCh[w][i + 1]
        OBVIOUS
    <2>4. Current(d) /\ age = WorkerLease - ClockLag - jobs[d.job].lease_until
        BY <2>1, <2>2, <2>3 DEF Current
    <2>5. age <= MaxRun /\ Cardinality(Younger(w, age)) + (i + 1) <= Concurrency
        BY <2>2, <2>3, <2>4, QueuedLease DEF Steady
    <2>6. YoungerNext(w, age) \in SUBSET (Younger(w, age) \cup {s})
        BY <2>1, Zenon DEF YoungerNext, Younger, BusySlots
    <2>7. IsFiniteSet(Younger(w, age)) /\ Cardinality(Younger(w, age)) \in Nat
        BY YoungerFew
    <2>8. /\ IsFiniteSet(Younger(w, age) \cup {s})
          /\ Cardinality(Younger(w, age) \cup {s}) <= Cardinality(Younger(w, age)) + 1
          /\ Cardinality(Younger(w, age) \cup {s}) \in Nat
        <3> DEFINE Y == Younger(w, age)
        <3>1. IsFiniteSet(Y) /\ Cardinality(Y) \in Nat
            BY <2>7
        <3> HIDE DEF Y
        <3>2. /\ IsFiniteSet(Y \cup {s})
              /\ Cardinality(Y \cup {s}) = IF s \in Y THEN Cardinality(Y) ELSE Cardinality(Y) + 1
            BY <3>1, FS_AddElement
        <3>3. /\ Cardinality(Y \cup {s}) <= Cardinality(Y) + 1
              /\ Cardinality(Y \cup {s}) \in Nat
            BY <3>1, <3>2
        <3> QED
            BY <3>2, <3>3 DEF Y
    <2>9. /\ IsFiniteSet(YoungerNext(w, age))
          /\ Cardinality(YoungerNext(w, age)) <= Cardinality(Younger(w, age) \cup {s})
        BY <2>6, <2>8, FS_Subset
    <2>10. Cardinality(YoungerNext(w, age)) \in Nat
        BY <2>9, FS_CardinalityType
    <2>11. i \in Nat
        <3>1. jobsCh'[w] \in Seq(Claim)
            BY <1>0 DEF MemoryOK
        <3> QED
            BY <3>1, Positions
    <2> QED
        BY <1>n, <2>5, <2>7, <2>8, <2>9, <2>10, <2>11
<1>4. CASE ~Tick /\ jobsCh'[w] = jobsCh[w] /\ \A s \in Slots : ~Receive(w, s)
    BY <1>4, QueueLeaseKept
<1>5. 1 \in Slots
    BY WorkerAssumption DEF Slots
<1>6. ~Tick => QueueStep(w)
    BY <1>0, <1>5, ReplicaSteps
<1> QED
    BY <1>0, <1>1, <1>2, <1>3, <1>4, <1>6, Zenon DEF QueueStep

\* Claims in the hands of goroutines: the next heartbeat comes before the lease ends.
LEMMA SlotLeaseStep ==
    ASSUME ClaimsInv, ClaimsInv', [Next]_vars, NEW w \in Workers, Steady(w)
    PROVE  SlotLease(w)
<1>0. /\ MemoryOK /\ MemoryOK' /\ jobsCh[w] \in Seq(Claim) /\ faults = 0
      /\ GoodTable
      /\ Held(w) = batch[w] \cup Chan(w) \cup InHand(w)
      /\ \A v \in Workers : PhaseSound(v)
    BY SteadyFacts DEF MemoryOK, Steady
<1>n. /\ MaxRun \in Nat /\ HeartbeatInterval \in Nat \ {0}
      /\ WorkerLease - ClockLag \in Int
      /\ WorkerLease - ClockLag >= MaxRun + HeartbeatInterval
    BY LeaseNumbers DEF Steady
<1> SUFFICES ASSUME NEW s \in BusySlots(w)', Current(slot[w][s].claim)'
             PROVE  jobs'[slot'[w][s].claim.job].lease_until >= slot'[w][s].beat
    BY DEF SlotLease
<1>1. s \in Slots /\ Busy(slot'[w][s]) /\ slot[w][s] \in Goroutine
    BY <1>0 DEF BusySlots, MemoryOK
<1>2. slot[w][s].beat \in Nat /\ slot[w][s].beat <= HeartbeatInterval
    BY <1>1, TimersType DEF Goroutine
<1>3. PICK c : c = slot'[w][s].claim
    OBVIOUS
<1>4. Current(c)'
    BY <1>3 DEF Current
<1>5. ASSUME Busy(slot[w][s]), c = slot[w][s].claim
      PROVE  /\ c \in Held(w) /\ Current(c) /\ jobs[c.job].lease_until \in Int
             /\ jobs[c.job].lease_until >= slot[w][s].beat
    <2>1. s \in BusySlots(w) /\ c \in Held(w)
        BY <1>0, <1>1, <1>5 DEF BusySlots, InHand
    <2>2. Current(c) /\ jobs[c.job].lease_until \in Int
        BY <1>4, <2>1, CurrentBack
    <2> QED
        BY <1>5, <2>1, <2>2 DEF Steady, LeaseSoundAt
<1>6. CASE Tick
    <2>1. /\ Busy(slot[w][s]) /\ c = slot[w][s].claim
          /\ slot[w][s].beat > 0 => slot'[w][s].beat = slot[w][s].beat - 1
        BY <1>0, <1>1, <1>3, <1>6, TickSlots
    <2>2. s \in BusySlots(w)
        BY <1>1, <2>1 DEF BusySlots
    <2>3. slot[w][s].beat > 0
        BY <1>0, <1>6, <2>2, TickWaits
    <2>4. /\ c \in Held(w) /\ jobs[c.job].lease_until \in Int
          /\ jobs[c.job].lease_until >= slot[w][s].beat
        BY <1>5, <2>1
    <2>5. jobs[c.job].lease_until >= 0
        BY <1>2, <2>4
    <2>6. jobs'[c.job].lease_until = jobs[c.job].lease_until - 1
        BY <1>4, <1>6, <2>4, <2>5, CurrentBack
    <2> QED
        BY <1>2, <1>3, <2>1, <2>3, <2>4, <2>6
<1>7. CASE ~Tick
    <2>1. SlotStep(w, s)
        BY <1>0, <1>1, <1>7, ReplicaSteps
    <2>2. CASE Receive(w, s) /\ slot'[w][s] = Running(Head(jobsCh[w]))
        <3>1. jobsCh[w] # << >> /\ UNCHANGED jobs
            BY <2>2 DEF Receive
        <3>2. Head(jobsCh[w]) \in Claim /\ Head(jobsCh[w]) = jobsCh[w][1] /\ 1 \in DOMAIN jobsCh[w]
            BY <1>0, <3>1, TailOf
        <3>3. c = jobsCh[w][1]
            BY <1>3, <2>2, <3>2, RunningType
        <3>4. slot'[w][s].beat = HeartbeatInterval
            BY <2>2 DEF Running, Idle
        <3>5. c \in Held(w)
            BY <1>0, <3>2, <3>3 DEF Chan
        <3>6. Current(c) /\ jobs[c.job].lease_until \in Int
            BY <1>4, <3>5, CurrentBack
        <3>7. WorkerLease - ClockLag - jobs[c.job].lease_until <= MaxRun
            BY <3>2, <3>3, <3>6, QueuedLease DEF Steady
        <3>8. jobs[c.job].lease_until >= HeartbeatInterval
            BY <1>n, <3>6, <3>7
        <3> QED
            BY <1>3, <3>1, <3>4, <3>8
    <2>3. CASE /\ Busy(slot[w][s])
               /\ slot'[w][s].claim = slot[w][s].claim
               /\ slot'[w][s].beat = slot[w][s].beat
        <3>1. /\ c \in Held(w) /\ jobs[c.job].lease_until \in Int
              /\ jobs[c.job].lease_until >= slot[w][s].beat
            BY <1>3, <1>5, <2>3
        <3>2. \/ jobs'[c.job].lease_until = jobs[c.job].lease_until
              \/ jobs'[c.job].lease_until = WorkerLease - ClockLag
            BY <1>4, <1>7, <3>1, CurrentBack
        <3>3. jobs'[c.job].lease_until >= slot[w][s].beat
            BY <1>2, <1>n, <3>1, <3>2
        <3> QED
            BY <1>3, <2>3, <3>3
    <2>4. CASE /\ Busy(slot[w][s]) /\ Heartbeat(w, s)
               /\ slot'[w][s].claim = slot[w][s].claim
               /\ slot'[w][s].beat = HeartbeatInterval
        <3>1. c = slot[w][s].claim /\ c.job \in JobIds
            BY <1>0, <1>1, <1>3, <2>4 DEF MemoryOK, Claim
        <3>2. ExtendLease(c.job, WorkerLease)
            <4>1. ExtendLease(c.job, WorkerLease) \/ NotFound(c.job)
                BY <2>4, <3>1 DEF Heartbeat
            <4>2. jobs'[c.job].status = "processing"
                BY <1>4 DEF Current
            <4> QED
                BY <4>1, <4>2 DEF NotFound, Processing
        <3>3. jobs'[c.job].lease_until = WorkerLease - ClockLag
            <4>1. jobs \in [JobIds -> Row] /\ jobs[c.job] \in Row
                BY <1>0, <3>1 DEF GoodTable
            <4>2. jobs'[c.job] = LeaseExtended(jobs[c.job], WorkerLease - ClockLag)
                BY <3>1, <3>2, <4>1 DEF ExtendLease, LeaseUntil
            <4> QED
                BY <4>1, <4>2 DEF LeaseExtended, Row
        <3> QED
            BY <1>3, <1>n, <2>4, <3>3
    <2>5. ~HeartbeatLost(w, s)
        BY <1>0, FaultCounts DEF HeartbeatLost, Steady
    <2> QED
        BY <1>0, <1>1, <2>1, <2>2, <2>3, <2>4, <2>5, SlotTimers
<1> QED
    BY <1>6, <1>7

\* Every step keeps the leases; a replica that starts holds nothing.
LEMMA LeaseSoundStep ==
    ASSUME ClaimsInv, ClaimsInv', \A w \in Workers : PhaseSound(w), LeaseSound,
           [Next]_vars
    PROVE  LeaseSound'
<1>0. MemoryOK /\ MemoryOK' /\ GoodTable'
    BY DEF ClaimsInv, QueueInv
<1> SUFFICES ASSUME LeaseFits, faults' = 0, NEW w \in Workers, phase'[w] = "running"
             PROVE  LeaseSoundAt(w)'
    BY DEF LeaseSound, LeaseFits
<1>1. faults = 0
    BY <1>0, BudgetsGrow
<1>2. CASE phase[w] = "running"
    <2>1. Steady(w)
        BY <1>1, <1>2 DEF Steady, LeaseSound
    <2> QED
        BY <1>0, <2>1, BatchLeaseStep, QueueLeaseStep, SlotLeaseStep, LeaseParts
<1>3. CASE phase[w] # "running"
    <2>1. ~Resume(w)
        BY <1>1 DEF Resume, PhaseSound
    <2>2. 1 \in Slots
        BY WorkerAssumption DEF Slots
    <2>3. ~Tick
        BY <1>3 DEF Tick
    <2>4. Start(w)
        BY <1>0, <1>3, <2>1, <2>2, <2>3, ReplicaSteps DEF PhaseStep
    <2>5. Held(w) = {} /\ ~PollClaims(w)
        BY <2>4 DEF Start, PhaseSound, PollClaims
    <2>6. Held(w)' = {}
        BY <1>0, <2>5, OnceStep
    <2>7. batch'[w] = {} /\ Chan(w)' = {} /\ InHand(w)' = {}
        BY <1>0, <2>6, HeldPartsNext
    <2>8. DOMAIN jobsCh'[w] = {} /\ BusySlots(w)' = {}
        BY <2>7 DEF Chan, InHand
    <2> QED
        BY <2>7, <2>8, Zenon DEF LeaseSoundAt
<1> QED
    BY <1>2, <1>3

-----------------------------------------------------------------------------

\* Nothing is held and no row is processing at first.
LEMMA SafetyInvInit == Init => SafetyInv
<1> SUFFICES ASSUME Init
             PROVE  SafetyInv
    OBVIOUS
<1>1. ClaimsInv
    BY ClaimsInvInit
<1>2. /\ \A w \in Workers : /\ phase[w] = "running" /\ batch[w] = {}
                            /\ jobsCh[w] = << >>
                            /\ \A s \in Slots : slot[w][s] = Idle
      /\ \A j \in JobIds : jobs[j] = NoRow
    BY DEF Init, RepoInit
<1>3. ~Busy(Idle) /\ Idle.pc # "exited"
    BY DEF Busy, Idle
<1>4. \A w \in Workers : BusySlots(w) = {} /\ DOMAIN jobsCh[w] = {}
    <2>1. \A w \in Workers : BusySlots(w) = {}
        BY <1>2, <1>3, Zenon DEF BusySlots
    <2>2. DOMAIN << >> = {}
        OBVIOUS
    <2>3. \A w \in Workers : DOMAIN jobsCh[w] = {}
        BY <1>2, <2>2, Zenon
    <2> QED
        BY <2>1, <2>3, Zenon
<1>5. \A w \in Workers : PhaseSound(w)
    BY <1>2, <1>3 DEF PhaseSound
<1>6. ElapsedSound
    BY <1>4 DEF ElapsedSound
<1>7. HandsSound
    <2>1. NoRow.status # "processing"
        BY DEF NoRow, NewRow
    <2> QED
        BY <1>2, <2>1 DEF HandsSound, NoClaimForgotten
<1>8. \A w \in Workers : LeaseSoundAt(w)
    BY <1>2, <1>4, Zenon DEF LeaseSoundAt
<1> QED
    BY <1>1, <1>5, <1>6, <1>7, <1>8 DEF SafetyInv, LeaseSound

\* Every step keeps the invariant.
LEMMA SafetyInvStep == SafetyInv /\ [Next]_vars => SafetyInv'
<1> SUFFICES ASSUME SafetyInv, [Next]_vars
             PROVE  SafetyInv'
    OBVIOUS
<1>1. /\ ClaimsInv /\ ElapsedSound /\ HandsSound /\ LeaseSound
      /\ \A w \in Workers : PhaseSound(w)
    BY DEF SafetyInv
<1>2. ClaimsInv'
    BY <1>1, ClaimsInvStep
<1>3. \A w \in Workers : PhaseSound(w)'
    BY <1>1, <1>2, PhaseSoundStep
<1>4. ElapsedSound' /\ HandsSound' /\ LeaseSound'
    BY <1>1, <1>2, ElapsedSoundStep, HandsSoundStep, LeaseSoundStep
<1> QED
    BY <1>2, <1>3, <1>4 DEF SafetyInv

\* Hence it holds throughout.
LEMMA SafetyInvariant == Spec => []SafetyInv
BY SafetyInvInit, SafetyInvStep, PTL DEF Spec

-----------------------------------------------------------------------------
(* The theorems about what becomes of claims.                              *)

\* If no processor call outlasts the 15 seconds of finalCtx, then without faults and
\* signals every processing row is in the hands of the replica it names: no path of
\* pollOnce, workerLoop or process forgets a job.  The condition is needed, as the
\* run final_ctx_expired shows.
THEOREM WorkerForgetsNothing ==
    ASSUME MaxRun < FinalTimeout
    PROVE  Spec => []NoClaimForgotten
<1>1. SafetyInv => NoClaimForgotten
    BY DEF SafetyInv, HandsSound
<1> QED
    BY <1>1, SafetyInvariant, PTL

\* Under the same condition a goroutine that is done with a job has recorded the
\* outcome, also while its replica is shutting down, whoever else works on the job
\* (worker.go: process, recordFailure).
THEOREM WorkerRecordsOutcomes ==
    ASSUME MaxRun < FinalTimeout
    PROVE  Spec => OutcomeRecorded
<1>1. ASSUME SafetyInv, [Next]_vars, NEW w \in Workers, NEW s \in Slots,
             faults' = 0, slot[w][s].pc = "record", slot'[w][s].pc # "record"
      PROVE  jobs'[slot[w][s].claim.job].status # "processing"
    <2>0. /\ ClaimsInv /\ MemoryOK /\ GoodTable /\ PhaseSound(w) /\ ElapsedSound
          /\ slot[w][s] \in Goroutine
        BY <1>1 DEF SafetyInv, ClaimsInv, QueueInv, MemoryOK
    <2>1. s \in BusySlots(w) /\ faults = 0
        BY <1>1, <2>0, BudgetsGrow DEF BusySlots, Busy
    <2>2. slot[w][s].claim \in Held(w)
        BY <1>1 DEF Held
    <2>3. ~Tick
        BY <1>1, <2>0, TickSlots
    <2>4. SlotStep(w, s)
        BY <1>1, <2>0, <2>3, ReplicaSteps
    <2>5. /\ ~Receive(w, s) /\ ~Exit(w, s) /\ ~Heartbeat(w, s) /\ ~HeartbeatLost(w, s)
          /\ \A outcome \in Outcome : ~RunJob(w, s, outcome)
        BY <1>1 DEF Receive, Exit, Heartbeat, HeartbeatLost, RunJob
    <2>6. ~Crash(w) /\ ~RecordFails(w, s)
        BY <1>1, <2>0, <2>1, FaultCounts, FinalCtxHolds DEF Crash
    <2>7. ~Start(w)
        BY <2>0, <2>2 DEF Start, PhaseSound
    <2>8. slot'[w][s] # slot[w][s]
        BY <1>1
    <2>9. Record(w, s)
        BY <2>4, <2>5, <2>6, <2>7, <2>8, Zenon DEF SlotStep
    <2> QED
        BY <2>0, <2>9, RecordSettles
<1>2. SafetyInv /\ [Next]_vars =>
          [\A w \in Workers, s \in Slots :
               LET c == slot[w][s].claim
               IN  /\ faults' = 0
                   /\ slot[w][s].pc = "record"
                   /\ slot'[w][s].pc # "record"
                   => ~ /\ jobs'[c.job].status = "processing"
                        /\ jobs'[c.job].attempts = c.attempt]_vars
    BY <1>1, Zenon
<1> QED
    BY <1>2, SafetyInvariant, PTL DEF Spec, OutcomeRecorded

\* If the longest call, one heartbeat and the lag of the worker's clock fit in a lease,
\* then without faults the lease of a job never runs out while a running replica holds
\* it, wherever it waits.  The channel is the hard case, since nothing renews a lease
\* there: it holds because all but Concurrency - i of the goroutines are idle or have
\* been at their run for at least as long as the claim at place i has had its lease
\* (worker.go: pollOnce, heartbeat; jobs.go: ExtendLease, ReapExpired).  The condition
\* is needed, as the run queued_job_reaped shows.
THEOREM WorkerNeverReapedAlive ==
    ASSUME LeaseFits
    PROVE  Spec => []NeverReapedAlive
<1>1. ASSUME SafetyInv, faults = 0, NEW w \in Workers, NEW c \in Held(w),
             phase[w] = "running", Current(c)
      PROVE  jobs[c.job].lease_until >= 0
    <2>0. MemoryOK /\ GoodTable /\ LeaseSoundAt(w)
        BY <1>1 DEF SafetyInv, ClaimsInv, QueueInv, LeaseSound
    <2>n. /\ MaxRun \in Nat /\ HeartbeatInterval \in Nat \ {0}
          /\ WorkerLease - ClockLag \in Int
          /\ WorkerLease - ClockLag >= MaxRun + HeartbeatInterval
        BY LeaseNumbers
    <2>1. c \in Claim /\ Held(w) = batch[w] \cup Chan(w) \cup InHand(w)
        BY <2>0, HeldParts
    <2>2. jobs[c.job].lease_until \in Int
        BY <1>1, <2>0, <2>1, LeaseType
    <2>3. CASE c \in batch[w]
        <3>1. WorkerLease - ClockLag - jobs[c.job].lease_until <= 0
            BY <1>1, <2>0, <2>3 DEF LeaseSoundAt, LeaseAge
        <3> QED
            BY <2>2, <2>n, <3>1
    <2>4. CASE c \in Chan(w)
        <3>1. PICK i \in DOMAIN jobsCh[w] : c = jobsCh[w][i]
            BY <2>4 DEF Chan
        <3>2. WorkerLease - ClockLag - jobs[c.job].lease_until <= MaxRun
            BY <1>1, <2>0, <3>1, QueuedLease
        <3> QED
            BY <2>2, <2>n, <3>2
    <2>5. CASE c \in InHand(w)
        <3>1. PICK s \in BusySlots(w) : c = slot[w][s].claim
            BY <2>5 DEF InHand
        <3>2. jobs[c.job].lease_until >= slot[w][s].beat
            BY <1>1, <2>0, <3>1 DEF LeaseSoundAt
        <3>3. slot[w][s].beat \in Nat
            BY <2>0, TimersType DEF MemoryOK, Goroutine, BusySlots
        <3> QED
            BY <2>2, <3>2, <3>3
    <2> QED
        BY <2>1, <2>3, <2>4, <2>5
<1>2. SafetyInv => NeverReapedAlive
    BY <1>1 DEF NeverReapedAlive, Current
<1> QED
    BY <1>2, SafetyInvariant, PTL
=============================================================================
