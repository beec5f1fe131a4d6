---------------------------- MODULE JobLifecycle ----------------------------
(***************************************************************************)
(* What a client that polls GET /api/v1/jobs/{id} may rely on: the life of *)
(* a job as domain.Status names its stages, with the number of runs it was *)
(* given.  Several jobs may move in one step, because one claim takes      *)
(* a batch and one pass of the reaper requeues every expired lease.        *)
(***************************************************************************)
EXTENDS Naturals

CONSTANT Jobs

VARIABLES
    status,  \* job -> stage
    runs     \* job -> how many times the job was handed to a worker

LifecycleInit ==
    /\ status = [j \in Jobs |-> "absent"]
    /\ runs = [j \in Jobs |-> 0]

Submit(j) ==
    /\ status[j] = "absent"
    /\ status' = [status EXCEPT ![j] = "pending"]
    /\ UNCHANGED runs

\* A batch of waiting jobs is handed out, each at the price of one run.
Start(batch) ==
    /\ \A j \in batch : status[j] = "pending"
    /\ status' = [j \in Jobs |-> IF j \in batch THEN "processing" ELSE status[j]]
    /\ runs' = [j \in Jobs |-> IF j \in batch THEN runs[j] + 1 ELSE runs[j]]

\* Jobs go back to the queue: a retry, a release or an expired lease.
GiveBack(batch) ==
    /\ \A j \in batch : status[j] = "processing"
    /\ status' = [j \in Jobs |-> IF j \in batch THEN "pending" ELSE status[j]]
    /\ UNCHANGED runs

Finish(j, outcome) ==
    /\ status[j] = "processing"
    /\ status' = [status EXCEPT ![j] = outcome]
    /\ UNCHANGED runs

LifecycleNext ==
    \/ \E j \in Jobs : Submit(j)
    \/ \E batch \in SUBSET Jobs : Start(batch) \/ GiveBack(batch)
    \/ \E j \in Jobs, outcome \in {"completed", "failed"} : Finish(j, outcome)

LifecycleSpec == LifecycleInit /\ [][LifecycleNext]_<<status, runs>>
=============================================================================
