--------------------------- MODULE JobQueueProofs ---------------------------
(***************************************************************************)
(* Theorems about JobQueue for every number of jobs, workers and keys and  *)
(* every setting of the constants.  RepoSpec lets any caller issue any     *)
(* statement at any time, so what is proved here holds for every program   *)
(* that goes through JobRepo.                                              *)
(***************************************************************************)
EXTENDS JobQueue, TLAPS

-----------------------------------------------------------------------------
(* The statements, row by row: each one writes a row of the right type,    *)
(* and a consistent one when its WHERE clause let it through.              *)

GoodRow(row) == row \in Row /\ RowConsistent(row)

LEMMA NatNotNull ==
    ASSUME NEW n \in Nat
    PROVE  n # NULL
<1>1. n \in Int
    OBVIOUS
<1>2. NULL \notin Int
    BY TableAssumption
<1> QED
    BY <1>1, <1>2, Zenon

LEMMA NatReflexive == \A n \in Nat : n >= n
OBVIOUS

LEMMA PositiveNotZero == \A n \in Nat : n >= 1 => n # 0
OBVIOUS

LEMMA NewRowGood ==
    ASSUME NEW key \in Keys \cup {""}, NEW object \in {"", "object"}
    PROVE  GoodRow(NewRow(key, object))
BY TableAssumption DEF GoodRow, NewRow, Row, RowConsistent, Status, Terminal, Message, Summary

LEMMA NoRowGood == GoodRow(NoRow)
<1> DEFINE new == [NewRow("", "") EXCEPT !.status = "absent"]
<1>1. GoodRow(NewRow("", ""))
    BY NewRowGood
<1>2. new \in Row
    BY <1>1 DEF GoodRow, Row
<1>3. /\ new.status = "absent"
      /\ new.lease_until = NULL
      /\ new.locked_by = ""
      /\ new.next_attempt_at = NULL
      /\ new.result_summary = ""
      /\ new.completed_at = NULL
    BY <1>1 DEF GoodRow, Row, NewRow
<1> HIDE DEF new
<1>4. RowConsistent(new)
    BY <1>3, TableAssumption DEF RowConsistent, Terminal
<1> QED
    BY <1>2, <1>4 DEF GoodRow, NoRow, new

LEMMA ClaimedGood ==
    ASSUME NEW row, GoodRow(row), Due(row),
           NEW worker \in Workers, NEW lease \in Nat
    PROVE  GoodRow(Claimed(row, worker, lease))
<1> DEFINE new == Claimed(row, worker, lease)
<1>1. /\ new.status = "processing"
      /\ new.attempts = row.attempts + 1
      /\ new.lease_until = lease
      /\ new.locked_by = worker
      /\ new.next_attempt_at = NULL
      /\ new.result_summary = row.result_summary
      /\ new.completed_at = row.completed_at
    BY DEF Claimed, GoodRow, Row
<1>2. row.attempts \in Nat
    BY DEF GoodRow, Row
<1>3. row.attempts + 1 \in Nat /\ row.attempts + 1 >= 1
    BY <1>2
<1>4. lease # NULL
    BY NatNotNull
<1>5. worker # ""
    BY TableAssumption
<1>6. new \in Row
    <2>1. "processing" \in Status \cup {"absent"}
        BY DEF Status
    <2>2. lease \in Int \cup {NULL}
        OBVIOUS
    <2> QED
        BY <1>3, <2>1, <2>2 DEF Claimed, GoodRow, Row
<1>7. /\ row.completed_at # "stamped"
      /\ row.result_summary = ""
    BY DEF GoodRow, RowConsistent, Due, Terminal
<1> HIDE DEF new
<1>8. RowConsistent(new)
    <2>1. new.attempts >= 1
        BY <1>1, <1>3
    <2>2. new.lease_until # NULL /\ new.locked_by # ""
        BY <1>1, <1>4, <1>5, Zenon
    <2> QED
        BY <1>1, <1>7, <2>1, <2>2 DEF RowConsistent, Terminal
<1> QED
    BY <1>6, <1>8 DEF GoodRow, new

LEMMA LeaseExtendedGood ==
    ASSUME NEW row, GoodRow(row), Processing(row), NEW lease \in Nat
    PROVE  GoodRow(LeaseExtended(row, lease))
<1> DEFINE new == LeaseExtended(row, lease)
<1>1. /\ new.status = row.status
      /\ new.attempts = row.attempts
      /\ new.lease_until = lease
      /\ new.locked_by = row.locked_by
      /\ new.next_attempt_at = row.next_attempt_at
      /\ new.error_message = row.error_message
      /\ new.result_summary = row.result_summary
      /\ new.completed_at = row.completed_at
    BY DEF LeaseExtended, GoodRow, Row
<1>2. new \in Row
    <2>1. lease \in Int \cup {NULL}
        OBVIOUS
    <2> QED
        BY <2>1 DEF LeaseExtended, GoodRow, Row
<1>3. lease # NULL
    BY NatNotNull
<1> HIDE DEF new
<1>4. new.lease_until # NULL
    BY <1>1, <1>3, Zenon
<1>5. RowConsistent(new)
    BY <1>1, <1>4, Zenon DEF GoodRow, RowConsistent, Processing
<1> QED
    BY <1>2, <1>5 DEF GoodRow, new

LEMMA CompletedGood ==
    ASSUME NEW row, GoodRow(row), Processing(row), NEW summary \in Summary
    PROVE  GoodRow(Completed(row, summary))
BY TableAssumption DEF GoodRow, Processing, Completed, Row, RowConsistent, Status, Terminal, Message

LEMMA FailedGood ==
    ASSUME NEW row, GoodRow(row), Processing(row),
           NEW message \in Message \ {""}
    PROVE  GoodRow(Failed(row, message))
BY TableAssumption DEF GoodRow, Processing, Failed, Row, RowConsistent, Status, Terminal, Message

LEMMA BackoffType ==
    ASSUME NEW attempts, NEW base, NEW max \in Nat
    PROVE  Backoff(attempts, base, max) \in Nat
BY DEF Backoff

LEMMA RescheduledGood ==
    ASSUME NEW row, GoodRow(row), Processing(row),
           NEW message \in Message \ {""}, NEW base, NEW max \in Nat
    PROVE  GoodRow(Rescheduled(row, message, base, max))
<1> DEFINE new == Rescheduled(row, message, base, max)
           delay == Backoff(row.attempts, base, max)
<1>1. delay \in Nat
    BY BackoffType
<1> HIDE DEF delay
<1>2. /\ new.status = "pending"
      /\ new.attempts = row.attempts
      /\ new.lease_until = NULL
      /\ new.locked_by = ""
      /\ new.next_attempt_at = delay
      /\ new.error_message = message
      /\ new.result_summary = row.result_summary
      /\ new.completed_at = NULL
    BY DEF Rescheduled, GoodRow, Row, delay
<1>3. new \in Row
    BY <1>1 DEF Rescheduled, GoodRow, Row, Status, delay
<1>4. /\ row.result_summary = ""
      /\ row.attempts \in Nat
      /\ row.attempts >= 1
    BY DEF GoodRow, Row, RowConsistent, Processing
<1> HIDE DEF new
<1>5. RowConsistent(new)
    <2>1. row.attempts # 0
        BY <1>4, PositiveNotZero, Zenon
    <2> new.attempts # 0
        BY <1>2, <2>1, Zenon
    <2>2. new.completed_at # "stamped"
        BY <1>2, TableAssumption
    <2> QED
        BY <1>2, <1>4, <2>1, <2>2, Zenon DEF RowConsistent, Terminal
<1> QED
    BY <1>3, <1>5 DEF GoodRow, new

LEMMA RequeuedGood ==
    ASSUME NEW row, GoodRow(row), LeaseExpired(row)
    PROVE  GoodRow(Requeued(row))
<1> DEFINE new == Requeued(row)
<1>1. /\ new.status = "pending"
      /\ new.attempts = row.attempts
      /\ new.lease_until = NULL
      /\ new.locked_by = ""
      /\ new.next_attempt_at = row.next_attempt_at
      /\ new.error_message = "lease expired, requeued"
      /\ new.result_summary = row.result_summary
      /\ new.completed_at = row.completed_at
    BY DEF Requeued, GoodRow, Row
<1>2. new \in Row
    BY DEF Requeued, GoodRow, Row, Status, Message
<1>3. /\ row.result_summary = ""
      /\ row.attempts \in Nat
      /\ row.attempts >= 1
      /\ row.completed_at # "stamped"
    BY DEF GoodRow, Row, RowConsistent, LeaseExpired, Terminal
<1> HIDE DEF new
<1>4. RowConsistent(new)
    <2>1. row.attempts # 0
        BY <1>3, PositiveNotZero, Zenon
    <2> new.attempts # 0
        BY <1>1, <2>1, Zenon
    <2>2. new.error_message # ""
        BY <1>1
    <2> QED
        BY <1>1, <1>3, <2>1, <2>2, Zenon DEF RowConsistent, Terminal
<1> QED
    BY <1>2, <1>4 DEF GoodRow, new

LEMMA AgedGood ==
    ASSUME NEW row, GoodRow(row)
    PROVE  GoodRow(Aged(row))
<1> DEFINE new   == Aged(row)
           lease == IF row.lease_until # NULL /\ row.lease_until >= 0
                    THEN row.lease_until - 1 ELSE row.lease_until
           next  == IF row.next_attempt_at # NULL /\ row.next_attempt_at > 0
                    THEN row.next_attempt_at - 1 ELSE row.next_attempt_at
<1>1. new = [row EXCEPT !.lease_until = lease, !.next_attempt_at = next]
    BY DEF Aged
<1>2. /\ lease \in Int \cup {NULL}
      /\ next \in Nat \cup {NULL}
      /\ lease # NULL <=> row.lease_until # NULL
      /\ next # NULL <=> row.next_attempt_at # NULL
    <2>1. /\ row.lease_until \in Int \cup {NULL}
          /\ row.next_attempt_at \in Nat \cup {NULL}
        BY DEF GoodRow, Row
    <2>2. ASSUME row.lease_until # NULL, row.lease_until >= 0
          PROVE  row.lease_until - 1 \in Int /\ row.lease_until - 1 # NULL
        <3>1. NULL \notin Int
            BY TableAssumption
        <3>2. row.lease_until \in Int
            BY <2>1, <2>2, Zenon
        <3>3. row.lease_until - 1 \in Int
            BY <3>2
        <3> QED
            BY <3>1, <3>3, Zenon
    <2>3. ASSUME row.next_attempt_at # NULL, row.next_attempt_at > 0
          PROVE  row.next_attempt_at - 1 \in Nat /\ row.next_attempt_at - 1 # NULL
        BY <2>1, <2>3, NatNotNull
    <2> QED
        BY <2>1, <2>2, <2>3, Zenon
<1> HIDE DEF new, lease, next
<1>3. /\ new.status = row.status
      /\ new.attempts = row.attempts
      /\ new.lease_until = lease
      /\ new.locked_by = row.locked_by
      /\ new.next_attempt_at = next
      /\ new.error_message = row.error_message
      /\ new.result_summary = row.result_summary
      /\ new.completed_at = row.completed_at
    BY <1>1 DEF GoodRow, Row
<1>4. new \in Row
    BY <1>1, <1>2 DEF GoodRow, Row
<1>5. RowConsistent(new)
    BY <1>2, <1>3 DEF GoodRow, RowConsistent
<1> QED
    BY <1>4, <1>5 DEF GoodRow, new

LEMMA RetriedGood ==
    ASSUME NEW row, GoodRow(row), Processing(row),
           NEW message \in Message \ {""},
           NEW maxAttempts, NEW base, NEW max \in Nat
    PROVE  GoodRow(Retried(row, message, maxAttempts, base, max))
BY FailedGood, RescheduledGood, Zenon DEF Retried

-----------------------------------------------------------------------------
(* The table: every row is of the right type and consistent.  The two go   *)
(* together, since neither Retry nor ReapExpired sets every column and     *)
(* what they leave alone is only right in a consistent row.                *)

GoodTable ==
    /\ jobs \in [JobIds -> Row]
    /\ \A j \in JobIds : RowConsistent(jobs[j])

LEMMA GoodTableOneRow ==
    ASSUME GoodTable, NEW j \in JobIds, NEW new, GoodRow(new),
           jobs' = [jobs EXCEPT ![j] = new]
    PROVE  GoodTable'
BY DEF GoodTable, GoodRow

LEMMA GoodTableInit == RepoInit => GoodTable
BY NoRowGood DEF RepoInit, GoodTable, GoodRow

LEMMA GoodTableStep == GoodTable /\ [RepoNext]_jobs => GoodTable'
<1> SUFFICES ASSUME GoodTable, [RepoNext]_jobs
             PROVE  GoodTable'
    OBVIOUS
<1> \A j \in JobIds : GoodRow(jobs[j])
    BY DEF GoodTable, GoodRow
<1>1. ASSUME NEW j \in JobIds, NEW key \in Keys \cup {""},
             NEW object \in {"", "object"}, Create(j, key, object)
      PROVE  GoodTable'
    BY <1>1, NewRowGood, GoodTableOneRow DEF Create
<1>2. ASSUME NEW w \in Workers, NEW limit \in 1 .. WorkerClaimBatch,
             ClaimBatch(w, WorkerLease, limit)
      PROVE  GoodTable'
    <2>1. LeaseUntil(WorkerLease) \in Nat
        BY RepoAssumption DEF LeaseUntil
    <2>2. ASSUME NEW j \in JobIds
          PROVE  GoodRow(IF j \in Oldest(limit)
                         THEN Claimed(jobs[j], w, LeaseUntil(WorkerLease)) ELSE jobs[j])
        BY <2>1, ClaimedGood, Zenon DEF Oldest, Claimable
    <2> QED
        BY <1>2, <2>2 DEF ClaimBatch, GoodTable, GoodRow
<1>3. ASSUME NEW j \in JobIds, ExtendLease(j, WorkerLease)
      PROVE  GoodTable'
    <2>1. LeaseUntil(WorkerLease) \in Nat
        BY RepoAssumption DEF LeaseUntil
    <2> QED
        BY <1>3, <2>1, LeaseExtendedGood, GoodTableOneRow DEF ExtendLease
<1>4. ASSUME NEW j \in JobIds, NEW summary \in Summary, Complete(j, summary)
      PROVE  GoodTable'
    BY <1>4, CompletedGood, GoodTableOneRow DEF Complete
<1>5. ASSUME NEW j \in JobIds, NEW m \in {"processor error", "context canceled"},
             Retry(j, m, MaxAttempts, RetryBackoffBase, RetryBackoffMax)
      PROVE  GoodTable'
    <2>1. RetryBackoffMax \in Nat /\ m \in Message \ {""}
        BY RepoAssumption DEF Message
    <2> QED
        BY <1>5, <2>1, RetriedGood, GoodTableOneRow DEF Retry
<1>6. ASSUME NEW j \in JobIds, Retry(j, "worker shutting down", MaxAttempts, 0, 0)
      PROVE  GoodTable'
    <2>1. "worker shutting down" \in Message \ {""}
        BY DEF Message
    <2> QED
        BY <1>6, <2>1, RetriedGood, GoodTableOneRow DEF Retry
<1>7. ASSUME NEW j \in JobIds, Fail(j, "rejected")
      PROVE  GoodTable'
    <2>1. "rejected" \in Message \ {""}
        BY DEF Message
    <2> QED
        BY <1>7, <2>1, FailedGood, GoodTableOneRow DEF Fail
<1>8. CASE ReapExpired
    <2>1. ASSUME NEW j \in JobIds
          PROVE  GoodRow(IF LeaseExpired(jobs[j]) THEN Requeued(jobs[j]) ELSE jobs[j])
        BY RequeuedGood, Zenon
    <2> QED
        BY <1>8, <2>1 DEF ReapExpired, GoodTable, GoodRow
<1>9. CASE Elapse
    BY <1>9, AgedGood DEF Elapse, GoodTable, GoodRow
<1>10. CASE UNCHANGED jobs
    BY <1>10 DEF GoodTable
<1> QED
    BY <1>1, <1>2, <1>3, <1>4, <1>5, <1>6, <1>7, <1>8, <1>9, <1>10 DEF RepoNext

\* Every row always holds values its columns can hold (RepoTypeOK).
THEOREM QueueTypeCorrect == RepoSpec => []RepoTypeOK
<1>1. GoodTable => RepoTypeOK
    BY DEF GoodTable, RepoTypeOK
<1> QED
    BY <1>1, GoodTableInit, GoodTableStep, PTL DEF RepoSpec

\* No sequence of statements, by whichever callers and in whatever order, makes
\* the columns of a row contradict each other (RowsConsistent).
THEOREM QueueRowsConsistent == RepoSpec => []RowsConsistent
<1>1. GoodTable => RowsConsistent
    BY DEF GoodTable, RowsConsistent
<1> QED
    BY <1>1, GoodTableInit, GoodTableStep, PTL DEF RepoSpec

-----------------------------------------------------------------------------
(* What a single step can do to a single row.                              *)

\* The ways a step that inserts nothing changes the row of one job.
RowUpdate(j) ==
    \/ jobs'[j] = jobs[j]
    \/ \E w \in Workers :
           Due(jobs[j]) /\ jobs'[j] = Claimed(jobs[j], w, LeaseUntil(WorkerLease))
    \/ /\ Processing(jobs[j])
       /\ \/ jobs'[j] = LeaseExtended(jobs[j], LeaseUntil(WorkerLease))
          \/ \E summary \in Summary : jobs'[j] = Completed(jobs[j], summary)
          \/ \E m \in Message : jobs'[j] = Failed(jobs[j], m)
          \/ \E m \in Message, base, max \in Nat :
                 jobs'[j] = Rescheduled(jobs[j], m, base, max)
          \/ jobs'[j] = Requeued(jobs[j])
    \/ jobs'[j] = Aged(jobs[j])

Inserts ==
    \E j \in JobIds, key \in Keys \cup {""}, object \in {"", "object"} :
        Create(j, key, object)

LEMMA StepByRow ==
    ASSUME GoodTable, [RepoNext]_jobs, ~Inserts, NEW k \in JobIds
    PROVE  RowUpdate(k)
<1>1. ASSUME NEW w \in Workers, NEW limit \in 1 .. WorkerClaimBatch,
             ClaimBatch(w, WorkerLease, limit)
      PROVE  RowUpdate(k)
    <2>1. CASE k \in Oldest(limit)
        BY <1>1, <2>1, Zenon DEF ClaimBatch, RowUpdate, Oldest, Claimable
    <2>2. CASE k \notin Oldest(limit)
        BY <1>1, <2>2, Zenon DEF ClaimBatch, RowUpdate
    <2> QED
        BY <2>1, <2>2
<1>2. ASSUME NEW j \in JobIds, ExtendLease(j, WorkerLease)
      PROVE  RowUpdate(k)
    BY <1>2 DEF ExtendLease, RowUpdate, GoodTable
<1>3. ASSUME NEW j \in JobIds, NEW summary \in Summary, Complete(j, summary)
      PROVE  RowUpdate(k)
    BY <1>3 DEF Complete, RowUpdate, GoodTable
<1>4. ASSUME NEW j \in JobIds, NEW m \in Message,
             NEW base \in Nat, NEW max \in Nat,
             Retry(j, m, MaxAttempts, base, max)
      PROVE  RowUpdate(k)
    <2>1. CASE k = j
        <3>1. /\ Processing(jobs[k])
              /\ jobs'[k] = Retried(jobs[k], m, MaxAttempts, base, max)
            BY <1>4, <2>1 DEF Retry, GoodTable
        <3> QED
            BY <3>1, Zenon DEF Retried, RowUpdate
    <2>2. CASE k # j
        BY <1>4, <2>2 DEF Retry, RowUpdate, GoodTable
    <2> QED
        BY <2>1, <2>2
<1>5. ASSUME NEW j \in JobIds, Fail(j, "rejected")
      PROVE  RowUpdate(k)
    <2>1. "rejected" \in Message
        BY DEF Message
    <2> QED
        BY <1>5, <2>1 DEF Fail, RowUpdate, GoodTable
<1>6. CASE ReapExpired
    <2>1. CASE LeaseExpired(jobs[k])
        BY <1>6, <2>1, Zenon DEF ReapExpired, LeaseExpired, Processing, RowUpdate
    <2>2. CASE ~LeaseExpired(jobs[k])
        BY <1>6, <2>2, Zenon DEF ReapExpired, RowUpdate
    <2> QED
        BY <2>1, <2>2
<1>7. CASE Elapse
    BY <1>7, Zenon DEF Elapse, RowUpdate
<1>8. CASE UNCHANGED jobs
    BY <1>8, Zenon DEF RowUpdate
<1>9. /\ {"processor error", "context canceled", "worker shutting down"} \subseteq Message
       /\ RetryBackoffBase \in Nat /\ RetryBackoffMax \in Nat /\ 0 \in Nat
    BY RepoAssumption DEF Message
<1> QED
    BY <1>1, <1>2, <1>3, <1>4, <1>5, <1>6, <1>7, <1>8, <1>9 DEF RepoNext, Inserts

\* What an update leaves alone, and what it may do to status and attempts.
LEMMA UpdateEffect ==
    ASSUME GoodTable, NEW j \in JobIds, RowUpdate(j)
    PROVE  /\ jobs'[j].idempotency_key = jobs[j].idempotency_key
           /\ jobs'[j].status = "absent" <=> jobs[j].status = "absent"
           /\ \/ /\ jobs'[j].status = jobs[j].status
                 /\ jobs'[j].attempts = jobs[j].attempts
                 /\ jobs'[j].locked_by = jobs[j].locked_by
              \/ /\ jobs[j].status = "pending"
                 /\ jobs'[j].status = "processing"
                 /\ jobs'[j].attempts = jobs[j].attempts + 1
              \/ /\ jobs[j].status = "processing"
                 /\ jobs'[j].status \in {"pending", "completed", "failed"}
                 /\ jobs'[j].attempts = jobs[j].attempts
<1> DEFINE row == jobs[j]
<1>0. row \in Row
    BY DEF GoodTable
<1>1. CASE jobs'[j] = jobs[j]
    BY <1>1
<1>2. ASSUME NEW w \in Workers, Due(row), jobs'[j] = Claimed(row, w, LeaseUntil(WorkerLease))
      PROVE  /\ jobs'[j].idempotency_key = row.idempotency_key
             /\ row.status = "pending"
             /\ jobs'[j].status = "processing"
             /\ jobs'[j].attempts = row.attempts + 1
    BY <1>0, <1>2 DEF Row, Claimed, Due
<1>3. CASE Processing(row) /\ jobs'[j] = LeaseExtended(row, LeaseUntil(WorkerLease))
    BY <1>0, <1>3 DEF Row, LeaseExtended
<1>4. ASSUME NEW summary \in Summary, Processing(row),
             jobs'[j] = Completed(row, summary)
      PROVE  /\ jobs'[j].idempotency_key = row.idempotency_key
             /\ row.status = "processing"
             /\ jobs'[j].status = "completed"
             /\ jobs'[j].attempts = row.attempts
    BY <1>0, <1>4 DEF Row, Completed, Processing
<1>5. ASSUME NEW m \in Message, Processing(row), jobs'[j] = Failed(row, m)
      PROVE  /\ jobs'[j].idempotency_key = row.idempotency_key
             /\ row.status = "processing"
             /\ jobs'[j].status = "failed"
             /\ jobs'[j].attempts = row.attempts
    BY <1>0, <1>5 DEF Row, Failed, Processing
<1>6. ASSUME NEW m \in Message, NEW base \in Nat, NEW max \in Nat,
             Processing(row), jobs'[j] = Rescheduled(row, m, base, max)
      PROVE  /\ jobs'[j].idempotency_key = row.idempotency_key
             /\ row.status = "processing"
             /\ jobs'[j].status = "pending"
             /\ jobs'[j].attempts = row.attempts
    BY <1>0, <1>6 DEF Row, Rescheduled, Processing
<1>7. CASE Processing(row) /\ jobs'[j] = Requeued(row)
    BY <1>0, <1>7 DEF Row, Requeued, Processing
<1>8. CASE jobs'[j] = Aged(row)
    BY <1>0, <1>8 DEF Row, Aged
<1> QED
    BY <1>1, <1>2, <1>3, <1>4, <1>5, <1>6, <1>7, <1>8 DEF RowUpdate

\* An insert turns one absent id into a fresh row and touches no other row.
LEMMA InsertEffect ==
    ASSUME GoodTable, NEW j \in JobIds, NEW key \in Keys \cup {""},
           NEW object \in {"", "object"}, Create(j, key, object)
    PROVE  /\ jobs[j].status = "absent"
           /\ jobs'[j].status = "pending"
           /\ jobs'[j].attempts = 0
           /\ jobs'[j].idempotency_key = key
           /\ ~KeyTaken(key)
           /\ \A k \in JobIds \ {j} : jobs'[k] = jobs[k]
BY DEF Create, GoodTable, NewRow

-----------------------------------------------------------------------------

LEMMA FinishedRowDoesNotAge ==
    ASSUME NEW row, GoodRow(row), row.status \in Terminal
    PROVE  Aged(row) = row
<1>1. row.lease_until = NULL /\ row.next_attempt_at = NULL
    BY DEF GoodRow, RowConsistent, Terminal
<1>2. Aged(row) = [row EXCEPT !.lease_until = row.lease_until,
                              !.next_attempt_at = row.next_attempt_at]
    BY <1>1, Zenon DEF Aged
<1> QED
    BY <1>2 DEF GoodRow, Row

\* A finished job is never touched again, by whichever late, stale or repeated
\* statement (FinishedJobsFrozen).
THEOREM QueueFreezesFinishedJobs == RepoSpec => FinishedJobsFrozen
<1>1. ASSUME GoodTable, [RepoNext]_jobs, NEW j \in JobIds,
             jobs[j].status \in Terminal
      PROVE  jobs'[j] = jobs[j]
    <2>1. CASE Inserts
        <3>1. jobs[j].status # "absent"
            BY <1>1 DEF Terminal
        <3> QED
            BY <1>1, <2>1, <3>1, InsertEffect DEF Inserts
    <2>2. CASE ~Inserts
        <3>1. RowUpdate(j)
            BY <1>1, <2>2, StepByRow
        <3>2. ~Due(jobs[j]) /\ ~Processing(jobs[j])
            BY <1>1 DEF Due, Processing, Terminal
        <3>3. jobs'[j] = jobs[j] \/ jobs'[j] = Aged(jobs[j])
            BY <3>1, <3>2, Zenon DEF RowUpdate
        <3>4. GoodRow(jobs[j])
            BY <1>1 DEF GoodTable, GoodRow
        <3> QED
            BY <1>1, <3>3, <3>4, FinishedRowDoesNotAge
    <2> QED
        BY <2>1, <2>2
<1>2. GoodTable /\ [RepoNext]_jobs =>
          [\A j \in JobIds : jobs[j].status \in Terminal => jobs'[j] = jobs[j]]_jobs
    BY <1>1
<1> QED
    BY <1>2, GoodTableInit, GoodTableStep, PTL DEF RepoSpec, FinishedJobsFrozen

-----------------------------------------------------------------------------
(* Keys and attempts.  An id without a row must be blank, or an insert     *)
(* could lower its attempts or meet a key the unique index does not see.   *)

Blank == \A j \in JobIds :
             jobs[j].status = "absent" =>
                 jobs[j].idempotency_key = "" /\ jobs[j].attempts = 0

QueueInv == GoodTable /\ Blank /\ KeysUnique

LEMMA QueueInvInit == RepoInit => QueueInv
<1> SUFFICES ASSUME RepoInit PROVE QueueInv
    OBVIOUS
<1>1. GoodTable
    BY GoodTableInit
<1>2. \A j \in JobIds : jobs[j].idempotency_key = "" /\ jobs[j].attempts = 0
    BY DEF RepoInit, NoRow, NewRow
<1> QED
    BY <1>1, <1>2 DEF QueueInv, Blank, KeysUnique

LEMMA QueueInvStep == QueueInv /\ [RepoNext]_jobs => QueueInv'
<1> SUFFICES ASSUME QueueInv, [RepoNext]_jobs
             PROVE  QueueInv'
    OBVIOUS
<1>1. GoodTable /\ GoodTable'
    BY GoodTableStep DEF QueueInv
<1>2. CASE Inserts
    <2>1. PICK j \in JobIds, key \in Keys \cup {""}, object \in {"", "object"} :
              Create(j, key, object)
        BY <1>2 DEF Inserts
    <2>2. /\ jobs'[j].status = "pending"
          /\ jobs'[j].idempotency_key = key
          /\ ~KeyTaken(key)
          /\ \A k \in JobIds \ {j} : jobs'[k] = jobs[k]
        BY <1>1, <2>1, InsertEffect
    <2>3. Blank'
        BY <2>2 DEF QueueInv, Blank
    <2>4. \A k \in JobIds \ {j} : key # "" => jobs[k].idempotency_key # key
        BY <2>2, Zenon DEF KeyTaken, QueueInv, Blank
    <2>5. KeysUnique'
        BY <2>2, <2>4, Zenon DEF QueueInv, KeysUnique
    <2> QED
        BY <1>1, <2>3, <2>5 DEF QueueInv
<1>3. CASE ~Inserts
    <2>1. \A k \in JobIds : RowUpdate(k)
        BY <1>1, <1>3, StepByRow
    <2>2. \A k \in JobIds :
              /\ jobs'[k].idempotency_key = jobs[k].idempotency_key
              /\ jobs'[k].status = "absent" =>
                     /\ jobs[k].status = "absent"
                     /\ jobs'[k].attempts = jobs[k].attempts
        BY <1>1, <2>1, UpdateEffect
    <2>3. Blank' /\ KeysUnique'
        BY <2>2, Zenon DEF QueueInv, Blank, KeysUnique
    <2> QED
        BY <1>1, <2>3 DEF QueueInv
<1> QED
    BY <1>2, <1>3

\* Two rows never share an Idempotency-Key (KeysUnique).
THEOREM QueueKeysUnique == RepoSpec => []KeysUnique
<1>1. QueueInv => KeysUnique
    BY DEF QueueInv
<1> QED
    BY <1>1, QueueInvInit, QueueInvStep, PTL DEF RepoSpec

\* What the next theorem says of one row.
RunCounted(j) ==
    /\ jobs'[j].attempts >= jobs[j].attempts
    /\ /\ jobs'[j].status = "processing"
       /\ \/ jobs[j].status # "processing"
          \/ jobs'[j].locked_by # jobs[j].locked_by
       => jobs'[j].attempts = jobs[j].attempts + 1

LEMMA EveryRowCounted ==
    ASSUME QueueInv, [RepoNext]_jobs, NEW j \in JobIds
    PROVE  RunCounted(j)
<1> USE DEF RunCounted
<1>0. GoodTable /\ jobs[j].attempts \in Nat
    BY DEF QueueInv, GoodTable, Row
<1>1. CASE Inserts
    <2>1. PICK i \in JobIds, key \in Keys \cup {""}, object \in {"", "object"} :
              Create(i, key, object)
        BY <1>1 DEF Inserts
    <2>2. CASE j = i
        <3>1. /\ jobs[j].status = "absent"
              /\ jobs'[j].status = "pending"
              /\ jobs'[j].attempts = 0
            BY <1>0, <2>1, <2>2, InsertEffect
        <3>2. jobs[j].attempts = 0
            BY <3>1 DEF QueueInv, Blank
        <3> QED
            BY <1>0, <3>1, <3>2, NatReflexive, Zenon
    <2>3. CASE j # i
        <3>1. jobs'[j] = jobs[j]
            BY <1>0, <2>1, <2>3, InsertEffect
        <3> QED
            BY <1>0, <3>1, NatReflexive, Zenon
    <2> QED
        BY <2>2, <2>3
<1>2. CASE ~Inserts
    <2>1. RowUpdate(j)
        BY <1>0, <1>2, StepByRow
    <2> QED
        BY <1>0, <2>1, UpdateEffect
<1> QED
    BY <1>1, <1>2

\* Every run of a job is counted by the claim that starts it, and no statement
\* ever takes a run back (EveryRunCounted).
THEOREM QueueCountsEveryRun == RepoSpec => EveryRunCounted
<1>1. QueueInv /\ [RepoNext]_jobs => [\A j \in JobIds : RunCounted(j)]_jobs
    BY EveryRowCounted
<1> QED
    BY <1>1, QueueInvInit, QueueInvStep, PTL DEF RepoSpec, EveryRunCounted, RunCounted

-----------------------------------------------------------------------------
(* The queue implements the life cycle: each statement is one step of it,  *)
(* or none.                                                                *)

\* Seen through status and attempts, the queue is the state machine a client is
\* promised (ImplementsLifecycle).
THEOREM QueueImplementsLifecycle == RepoSpec => ImplementsLifecycle
<1> DEFINE status  == [j \in JobIds |-> jobs[j].status]
           runs    == [j \in JobIds |-> jobs[j].attempts]
<1>1. RepoInit => Lifecycle!LifecycleInit
    <2> SUFFICES ASSUME RepoInit PROVE Lifecycle!LifecycleInit
        OBVIOUS
    <2>1. NoRow.status = "absent" /\ NoRow.attempts = 0
        BY DEF NoRow, NewRow
    <2>2. \A j \in JobIds : jobs[j].status = "absent" /\ jobs[j].attempts = 0
        BY <2>1, Zenon DEF RepoInit
    <2> QED
        BY <2>2 DEF Lifecycle!LifecycleInit
<1>2. QueueInv /\ [RepoNext]_jobs =>
          [Lifecycle!LifecycleNext]_<<status, runs>>
    <2> SUFFICES ASSUME QueueInv, [RepoNext]_jobs
                 PROVE  Lifecycle!LifecycleNext \/ UNCHANGED <<status, runs>>
        OBVIOUS
    <2> GoodTable
        BY DEF QueueInv
    <2>0. \A j \in JobIds : jobs[j] \in Row
        BY DEF GoodTable
    <2>1. ASSUME NEW j \in JobIds, NEW key \in Keys \cup {""},
                 NEW object \in {"", "object"}, Create(j, key, object)
          PROVE  Lifecycle!Submit(j)
        <3>1. /\ jobs[j].status = "absent"
              /\ jobs'[j].status = "pending"
              /\ jobs'[j].attempts = 0
              /\ \A k \in JobIds \ {j} : jobs'[k] = jobs[k]
            BY <2>1, InsertEffect
        <3>2. jobs'[j].attempts = jobs[j].attempts
            BY <3>1, Zenon DEF QueueInv, Blank
        <3> QED
            BY <3>1, <3>2 DEF Lifecycle!Submit
    <2>2. ASSUME NEW w \in Workers, NEW limit \in 1 .. WorkerClaimBatch,
                 ClaimBatch(w, WorkerLease, limit)
          PROVE  \E b \in SUBSET JobIds : Lifecycle!Start(b)
        <3>1. PICK b \in SUBSET JobIds : b = Oldest(limit)
            BY DEF Oldest, Claimable
        <3>2. \A j \in b : jobs[j].status = "pending"
            BY <3>1 DEF Oldest, Claimable, Due
        <3>3. \A j \in JobIds :
                  /\ Claimed(jobs[j], w, LeaseUntil(WorkerLease)).status = "processing"
                  /\ Claimed(jobs[j], w, LeaseUntil(WorkerLease)).attempts = jobs[j].attempts + 1
            BY <2>0 DEF Claimed, Row
        <3>4. Lifecycle!Start(b)
            BY <2>2, <3>1, <3>2, <3>3 DEF ClaimBatch, Lifecycle!Start
        <3> QED
            BY <3>4
    <2>3. ASSUME NEW j \in JobIds, ExtendLease(j, WorkerLease)
          PROVE  UNCHANGED <<status, runs>>
        BY <2>0, <2>3 DEF ExtendLease, LeaseExtended, Row, GoodTable
    <2>4. ASSUME NEW j \in JobIds, NEW summary \in Summary, Complete(j, summary)
          PROVE  Lifecycle!Finish(j, "completed")
        BY <2>0, <2>4 DEF Complete, Completed, Processing, Row, GoodTable,
                          Lifecycle!Finish
    <2>5. ASSUME NEW j \in JobIds, NEW m,
                 Processing(jobs[j]), jobs' = [jobs EXCEPT ![j] = Failed(jobs[j], m)]
          PROVE  Lifecycle!Finish(j, "failed")
        BY <2>0, <2>5 DEF Failed, Processing, Row, GoodTable, Lifecycle!Finish
    <2>6. ASSUME NEW j \in JobIds, NEW m, NEW base, NEW max, Processing(jobs[j]),
                 jobs' = [jobs EXCEPT ![j] = Rescheduled(jobs[j], m, base, max)]
          PROVE  Lifecycle!GiveBack({j})
        BY <2>0, <2>6 DEF Rescheduled, Processing, Row, GoodTable,
                          Lifecycle!GiveBack
    <2>7. ASSUME NEW j \in JobIds, NEW m, NEW base, NEW max,
                 Retry(j, m, MaxAttempts, base, max)
          PROVE  Lifecycle!GiveBack({j}) \/ Lifecycle!Finish(j, "failed")
        <3>1. CASE jobs[j].attempts >= MaxAttempts
            BY <2>5, <2>7, <3>1 DEF Retry, Retried
        <3>2. CASE ~(jobs[j].attempts >= MaxAttempts)
            BY <2>6, <2>7, <3>2 DEF Retry, Retried
        <3> QED
            BY <3>1, <3>2
    <2>8. ASSUME NEW j \in JobIds, Fail(j, "rejected")
          PROVE  Lifecycle!Finish(j, "failed")
        BY <2>5, <2>8 DEF Fail
    <2>9. ASSUME ReapExpired
          PROVE  \E b \in SUBSET JobIds : Lifecycle!GiveBack(b)
        <3>0. PICK b \in SUBSET JobIds :
                  b = {j \in JobIds : LeaseExpired(jobs[j])}
            OBVIOUS
        <3>1. \A j \in b : jobs[j].status = "processing"
            BY <3>0 DEF LeaseExpired
        <3>2. \A j \in JobIds : /\ Requeued(jobs[j]).status = "pending"
                                /\ Requeued(jobs[j]).attempts = jobs[j].attempts
            BY <2>0 DEF Requeued, Row
        <3>3. Lifecycle!GiveBack(b)
            BY <2>9, <3>0, <3>1, <3>2 DEF ReapExpired, Lifecycle!GiveBack
        <3> QED
            BY <3>3
    <2>10. ASSUME Elapse
           PROVE  UNCHANGED <<status, runs>>
        <3>1. \A j \in JobIds : /\ Aged(jobs[j]).status = jobs[j].status
                                /\ Aged(jobs[j]).attempts = jobs[j].attempts
            BY <2>0 DEF Aged, Row
        <3> QED
            BY <2>10, <3>1 DEF Elapse
    <2>11. CASE UNCHANGED jobs
        BY <2>11
    <2>12. ASSUME NEW j \in JobIds, NEW outcome \in {"completed", "failed"},
                  Lifecycle!Finish(j, outcome)
           PROVE  Lifecycle!LifecycleNext
        BY <2>12, Zenon DEF Lifecycle!LifecycleNext
    <2>13. ASSUME NEW b \in SUBSET JobIds, Lifecycle!Start(b) \/ Lifecycle!GiveBack(b)
           PROVE  Lifecycle!LifecycleNext
        BY <2>13, Zenon DEF Lifecycle!LifecycleNext
    <2>14. ASSUME NEW j \in JobIds, Lifecycle!Submit(j)
           PROVE  Lifecycle!LifecycleNext
        BY <2>14, Zenon DEF Lifecycle!LifecycleNext
    <2>15. ASSUME NEW j \in JobIds, NEW m, NEW base, NEW max,
                  Retry(j, m, MaxAttempts, base, max)
           PROVE  Lifecycle!LifecycleNext
        <3>1. {j} \in SUBSET JobIds /\ "failed" \in {"completed", "failed"}
            OBVIOUS
        <3> QED
            BY <2>7, <2>12, <2>13, <2>15, <3>1, Zenon
    <2>16. ASSUME NEW j \in JobIds,
                  (\E summary \in Summary : Complete(j, summary)) \/ Fail(j, "rejected")
           PROVE  Lifecycle!LifecycleNext
        <3>1. "completed" \in {"completed", "failed"} /\ "failed" \in {"completed", "failed"}
            OBVIOUS
        <3> QED
            BY <2>4, <2>8, <2>12, <2>16, <3>1, Zenon
    <2>17. ASSUME ReapExpired
           PROVE  Lifecycle!LifecycleNext
        BY <2>9, <2>13, <2>17, Zenon
    <2>18. ASSUME NEW w \in Workers, NEW limit \in 1 .. WorkerClaimBatch,
                  ClaimBatch(w, WorkerLease, limit)
           PROVE  Lifecycle!LifecycleNext
        BY <2>2, <2>13, <2>18, Zenon
    <2>19. ASSUME Inserts
           PROVE  Lifecycle!LifecycleNext
        BY <2>1, <2>14, <2>19, Zenon DEF Inserts
    <2> QED
        BY <2>3, <2>10, <2>11, <2>15, <2>16, <2>17, <2>18, <2>19, Zenon
        DEF RepoNext, Inserts
<1> QED
    BY <1>1, <1>2, QueueInvInit, QueueInvStep, PTL
    DEF RepoSpec, ImplementsLifecycle, Lifecycle!LifecycleSpec
=============================================================================
