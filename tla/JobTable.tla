------------------------------ MODULE JobTable ------------------------------
(***************************************************************************)
(* One row of the Postgres table `jobs` (migrations/001..003) and what     *)
(* each SQL statement of internal/storage/postgres/jobs.go writes into it. *)
(* The operators are pure: a row goes in, the updated row comes out.  The  *)
(* WHERE clause of a statement is a predicate of its own.                  *)
(*                                                                         *)
(* A timestamp column holds the number of ticks left until that time as    *)
(* seen from the database's NOW(), and Aged is the passing of one tick.    *)
(* `lease_until < NOW()` is then lease_until < 0, and                      *)
(* `next_attempt_at <= NOW()` is next_attempt_at = 0.  Both stop counting  *)
(* once they have been passed, since nothing depends on how long ago.      *)
(***************************************************************************)
EXTENDS Integers

CONSTANTS
    Workers,   \* the values of WORKER_ID
    Keys,      \* the Idempotency-Key values clients send
    NULL       \* SQL's NULL in a timestamp column

\* A missing worker or key is the empty string, as the columns' DEFAULT says.
ASSUME TableAssumption ==
    /\ "" \notin Workers
    /\ "" \notin Keys
    /\ NULL \notin Int
    /\ NULL # "stamped"

Status == {"pending", "processing", "completed", "failed"}

Terminal == {"completed", "failed"}

\* What the code writes to error_message, by the place that writes it.
Message == {"", "processor error", "rejected", "context canceled",
            "worker shutting down", "lease expired, requeued"}

\* What the processor answers; nothing makes it say anything at all.
Summary == {"", "summary"}

\* "absent" stands for an id that has no row yet.
Row == [status          : Status \cup {"absent"},
        attempts        : Nat,
        lease_until     : Int \cup {NULL},
        locked_by       : Workers \cup {""},
        next_attempt_at : Nat \cup {NULL},
        error_message   : Message,
        result_summary  : Summary,
        completed_at    : {NULL, "stamped"},
        idempotency_key : Keys \cup {""},
        object_key      : {"", "object"}]

\* The row Create inserts for a draft: everything the draft does not set is at
\* its zero value.
NewRow(key, object) ==
    [status          |-> "pending",
     attempts        |-> 0,
     lease_until     |-> NULL,
     locked_by       |-> "",
     next_attempt_at |-> NULL,
     error_message   |-> "",
     result_summary  |-> "",
     completed_at    |-> NULL,
     idempotency_key |-> key,
     object_key      |-> object]

NoRow == [NewRow("", "") EXCEPT !.status = "absent"]

-----------------------------------------------------------------------------
(* The WHERE clauses.                                                      *)

Due(row) ==
    /\ row.status = "pending"
    /\ row.next_attempt_at \in {NULL, 0}

Processing(row) == row.status = "processing"

\* Mutant of LeaseExpired: the reaper looks for rows without a lease.
LeaseMissing(row) == row.status = "processing" /\ row.lease_until = NULL

LeaseExpired(row) ==
    /\ row.status = "processing"
    /\ row.lease_until # NULL
    /\ row.lease_until < 0

-----------------------------------------------------------------------------
(* The SET clauses.                                                        *)

Claimed(row, worker, lease) ==
    [row EXCEPT !.status = "processing",
                !.attempts = @ + 1,
                !.lease_until = lease,
                !.locked_by = worker,
                !.next_attempt_at = NULL]

LeaseExtended(row, lease) == [row EXCEPT !.lease_until = lease]

Completed(row, summary) ==
    [row EXCEPT !.status = "completed",
                !.result_summary = summary,
                !.error_message = "",
                !.lease_until = NULL,
                !.locked_by = "",
                !.completed_at = "stamped"]

\* LEAST(base * POWER(2, GREATEST(attempts - 1, 0)), max)
Backoff(attempts, base, max) ==
    LET exponent == IF attempts >= 1 THEN attempts - 1 ELSE 0
        delay    == base * 2^exponent
    IN  IF delay \in 0 .. max THEN delay ELSE max

Rescheduled(row, message, base, max) ==
    [row EXCEPT !.status = "pending",
                !.error_message = message,
                !.lease_until = NULL,
                !.locked_by = "",
                !.next_attempt_at = Backoff(row.attempts, base, max),
                !.completed_at = NULL]

Failed(row, message) ==
    [row EXCEPT !.status = "failed",
                !.error_message = message,
                !.lease_until = NULL,
                !.locked_by = "",
                !.next_attempt_at = NULL,
                !.completed_at = "stamped"]

\* Mutant of Retried: the CASE for completed_at is missing.
RetriedUnstamped(row, message, maxAttempts, base, max) ==
    IF row.attempts >= maxAttempts
    THEN [Failed(row, message) EXCEPT !.completed_at = NULL]
    ELSE Rescheduled(row, message, base, max)

\* The CASE expressions of Retry: an exhausted job gets exactly what Fail
\* writes, any other job goes back to the queue.
Retried(row, message, maxAttempts, base, max) ==
    IF row.attempts >= maxAttempts
    THEN Failed(row, message)
    ELSE Rescheduled(row, message, base, max)

\* Mutant of Requeued: locked_by is set to NULL, which its column cannot hold.
RequeuedNullOwner(row) ==
    [row EXCEPT !.status = "pending",
                !.lease_until = NULL,
                !.locked_by = NULL,
                !.error_message = "lease expired, requeued"]

\* Mutant of Requeued: a lost lease does not cost an attempt.
RequeuedRefunded(row) ==
    [row EXCEPT !.status = "pending",
                !.attempts = @ - 1,
                !.lease_until = NULL,
                !.locked_by = "",
                !.error_message = "lease expired, requeued"]

Requeued(row) ==
    [row EXCEPT !.status = "pending",
                !.lease_until = NULL,
                !.locked_by = "",
                !.error_message = "lease expired, requeued"]

\* One tick of NOW().
Aged(row) ==
    [row EXCEPT !.lease_until =
                    IF @ # NULL /\ @ >= 0 THEN @ - 1 ELSE @,
                !.next_attempt_at =
                    IF @ # NULL /\ @ > 0 THEN @ - 1 ELSE @]

-----------------------------------------------------------------------------
(* What the columns of one row say about each other.                       *)

RowConsistent(row) ==
    /\ (row.completed_at = "stamped") <=> (row.status \in Terminal)
    /\ (row.lease_until # NULL) <=> (row.status = "processing")
    /\ (row.locked_by # "") <=> (row.status = "processing")
    /\ (row.next_attempt_at # NULL) => (row.status = "pending")
    /\ (row.result_summary # "") => (row.status = "completed")
    /\ (row.status \in {"processing", "completed", "failed"}) => row.attempts >= 1
    /\ (row.status = "completed") => (row.error_message = "")
    /\ (row.status = "failed") => (row.error_message # "")
    /\ (row.status = "pending") =>
           ((row.attempts = 0) <=> (row.error_message = ""))
=============================================================================
