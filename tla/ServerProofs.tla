---------------------------- MODULE ServerProofs ----------------------------
(***************************************************************************)
(* What Server promises, for any number of replicas and migrations and any *)
(* times.                                                                  *)
(*                                                                         *)
(* The invariant ServerInv says where the promises come from.  The applied *)
(* migrations are always the first ones; whoever migrates holds the lock   *)
(* unless a session was lost, and goes on from the version of the table;   *)
(* and the first steps of shutdown know how much of their time is gone and *)
(* how old a request is that is still in flight.                           *)
(***************************************************************************)
EXTENDS Server, FiniteSetTheorems, TLAPS

Starting == {"connect", "lock", "goose", "apply", "head", "create"}
Stopping == {"drain", "http", "stop", "release", "close", "trace"}

\* The time of shutdown starts with the signal, and no request is in flight
\* before the listener is open.
LifeSound(n) ==
    /\ pc[n] \in Starting \cup {"down"} => request[n] = -1
    /\ pc[n] \notin Stopping \cup {"exited"} => clock[n] = 0
    /\ pc[n] \in Stopping => sig[n]

\* The drain is over in time.
TimeSound(n) == pc[n] = "drain" => clock[n] <= DrainDelay

\* The condition of NoticedBeforeClosed.
NoticeInTime == NoticeTime < DrainDelay /\ NoticeTime < ShutdownTimeout

\* The balancer has noticed before the listener closes, if it is as quick as it
\* should be; a request in flight is nearly as old as the shutdown, in any case.
TrafficSound(n) ==
    /\ n \in Watched /\ pc[n] = "drain" /\ routed[n] => clock[n] <= NoticeTime
    /\ NoticeInTime /\ n \in Watched /\ pc[n] \in Stopping \ {"drain"} => ~routed[n]
    /\ pc[n] \in {"drain", "http"} /\ request[n] >= 0 =>
           \/ request[n] + DrainDelay >= clock[n]
           \/ request[n] >= ShutdownTimeout - DrainDelay
    /\ pc[n] \in {"stop", "release", "close", "trace", "exited"} /\ request[n] >= 0 =>
           request[n] >= ShutdownTimeout - DrainDelay

\* Schema and bucket are there when a replica goes on to the next step.
SetUpSound(n) ==
    /\ pc[n] = "apply" => version[n] <= Version
    /\ pc[n] \in {"head", "create", "serve"} \cup Stopping => Version = Migrations
    /\ pc[n] \in {"serve"} \cup Stopping => bucket

ReplicaSound(n) ==
    LifeSound(n) /\ TimeSound(n) /\ TrafficSound(n) /\ SetUpSound(n)

\* As long as no session was lost, whoever migrates holds the lock, and nobody
\* has migrated since it has read the version.
LockSound ==
    lostLocks = 0 =>
        \A n \in Replicas :
            /\ pc[n] \in {"goose", "apply"} => lock = n
            /\ pc[n] = "apply" => version[n] = Version

\* The applied migrations are the first ones.
AppliedSound ==
    /\ Version \in 0 .. Migrations
    /\ \A v \in 1 .. Migrations : applied[v] > 0 <=> v <= Version

\* A lost session is a fault.
FaultsCounted == lostLocks <= faults

ServerInv ==
    /\ ServerTypeOK
    /\ FaultsCounted
    /\ \A n \in Replicas : ReplicaSound(n)
    /\ LockSound
    /\ AppliedSound
    /\ MigratedOnce

-----------------------------------------------------------------------------
(* The schema                                                              *)

\* If the applied migrations are the first k, goose's table shows version k.
LEMMA VersionIs ==
    ASSUME NEW k \in 0 .. Migrations,
           \A v \in 1 .. Migrations : applied[v] > 0 <=> v <= k
    PROVE  Version = k
<1>1. Migrations \in Nat
    BY ServerAssumption
<1>2. {v \in 1 .. Migrations : applied[v] > 0} = 1 .. k
    BY <1>1
<1>3. Cardinality(1 .. k) = k
    <2>1. Cardinality(1 .. k) = IF 1 > k THEN 0 ELSE k - 1 + 1
        BY <1>1, FS_Interval
    <2> QED
        BY <1>1, <2>1
<1> QED
    BY <1>2, <1>3 DEF Version

\* The same, of the state after a step.
LEMMA VersionIsNext ==
    ASSUME NEW k \in 0 .. Migrations,
           \A v \in 1 .. Migrations : applied'[v] > 0 <=> v <= k
    PROVE  Version' = k
<1>1. Migrations \in Nat
    BY ServerAssumption
<1>2. {v \in 1 .. Migrations : applied'[v] > 0} = 1 .. k
    BY <1>1
<1>3. Cardinality(1 .. k) = k
    <2>1. Cardinality(1 .. k) = IF 1 > k THEN 0 ELSE k - 1 + 1
        BY <1>1, FS_Interval
    <2> QED
        BY <1>1, <2>1
<1> QED
    BY <1>2, <1>3 DEF Version

\* The step of one replica, n, leaves the others as they are, and the schema and
\* the bucket do not shrink.
LEMMA OneReplica ==
    ASSUME ServerInv, NEW n \in Replicas, ServerTypeOK',
           \A m \in Replicas \ {n} :
               /\ pc'[m] = pc[m] /\ sig'[m] = sig[m]
               /\ clock'[m] = clock[m]
               /\ routed'[m] = routed[m] /\ request'[m] = request[m]
               /\ version'[m] = version[m],
           Version' >= Version, bucket => bucket',
           ReplicaSound(n)', LockSound', AppliedSound', MigratedOnce', FaultsCounted'
    PROVE  ServerInv'
<1>1. Migrations \in Nat /\ Version \in 0 .. Migrations /\ Version' \in 0 .. Migrations
    BY ServerAssumption DEF ServerInv, AppliedSound
<1>2. ASSUME NEW m \in Replicas, m # n
      PROVE  ReplicaSound(m)'
    <2>1. ReplicaSound(m)
        BY DEF ServerInv
    <2>2. LifeSound(m)' /\ TimeSound(m)' /\ TrafficSound(m)'
        BY <1>2, <2>1 DEF ReplicaSound, LifeSound, TimeSound, TrafficSound
    <2>3. version[m] \in Nat
        BY <1>1 DEF ServerInv, ServerTypeOK
    <2>4. SetUpSound(m)'
        BY <1>1, <1>2, <2>1, <2>3 DEF ReplicaSound, SetUpSound
    <2> QED
        BY <2>2, <2>4 DEF ReplicaSound
<1> QED
    BY <1>2 DEF ServerInv

\* A step of n that migrates nothing and stays out of the locked region, or
\* leaves it.
LEMMA Outside ==
    ASSUME ServerInv, NEW n \in Replicas, NEW to, Goto(n, to), ServerTypeOK',
           to \notin {"goose", "apply"},
           UNCHANGED <<version, applied, lostLocks>>,
           Unlock(n) \/ UNCHANGED lock,
           \A m \in Replicas \ {n} : routed'[m] = routed[m] /\ request'[m] = request[m],
           bucket => bucket', faults' >= faults,
           ReplicaSound(n)'
    PROVE  ServerInv'
<1>1. Version' = Version
    BY DEF Version
<1>2. Version \in Int
    BY ServerAssumption DEF ServerInv, AppliedSound
<1>3. AppliedSound' /\ MigratedOnce'
    BY <1>1 DEF ServerInv, AppliedSound, MigratedOnce
<1>4. /\ pc'[n] = to
      /\ \A m \in Replicas \ {n} :
             /\ pc'[m] = pc[m] /\ sig'[m] = sig[m]
             /\ clock'[m] = clock[m]
    BY DEF ServerInv, ServerTypeOK, Goto
<1>5. LockSound'
    <2> SUFFICES ASSUME lostLocks' = 0, NEW m \in Replicas
                 PROVE  /\ pc'[m] \in {"goose", "apply"} => lock' = m
                        /\ pc'[m] = "apply" => version'[m] = Version'
        BY DEF LockSound
    <2>1. CASE m = n
        BY <1>4, <2>1
    <2>2. CASE m # n
        BY <1>1, <1>4, <2>2, ServerAssumption DEF ServerInv, LockSound, Unlock
    <2> QED
        BY <2>1, <2>2
<1>6. FaultsCounted'
    BY DEF ServerInv, ServerTypeOK, FaultsCounted
<1> QED
    BY <1>1, <1>2, <1>3, <1>4, <1>5, <1>6, OneReplica

-----------------------------------------------------------------------------
(* Steps of a replica                                                      *)

Places == {"down", "exited", "serve"} \cup Starting \cup Stopping

\* What Goto does to the replica that goes.
LEMMA GotoEffect ==
    ASSUME ServerInv, NEW n \in Replicas, NEW to \in Places, Goto(n, to)
    PROVE  /\ pc' \in [Replicas -> Places]
           /\ pc'[n] = to
           /\ sig' = sig /\ clock' = clock
BY DEF ServerInv, ServerTypeOK, Goto, Places, Starting, Stopping

\* A replica goes on without touching the lock, the schema or its requests.
LEMMA Onward ==
    ASSUME ServerInv, NEW n \in Replicas, NEW to \in Places \ {"goose", "apply"},
           Goto(n, to), UNCHANGED <<database, bucket, traffic, budget>>,
           pc'[n] = to => ReplicaSound(n)'
    PROVE  ServerInv'
<1>1. /\ pc' \in [Replicas -> Places]
      /\ pc'[n] = to /\ sig' = sig /\ clock' = clock
    BY GotoEffect
<1>2. /\ UNCHANGED <<version, applied, lostLocks>>
      /\ UNCHANGED <<lock, bucket, routed, request, faults, stops>>
    BY DEF database, traffic, budget
<1>3. ServerTypeOK'
    BY <1>1, <1>2 DEF ServerInv, ServerTypeOK, Places, Starting, Stopping
<1>4. faults' >= faults
    BY <1>2 DEF ServerInv, ServerTypeOK
<1> QED
    BY <1>1, <1>2, <1>3, <1>4, Outside

\* The shutdown steps, and those at the start that only read.
LEMMA StopKeeps ==
    ASSUME ServerInv, NEW n \in Replicas,
           StopNext(n) \/ Connect(n) \/ Restart(n)
    PROVE  ServerInv'
<1>1. /\ ReplicaSound(n)
      /\ clock[n] \in Nat /\ request[n] \in -1 .. ShutdownTimeout
      /\ routed[n] \in BOOLEAN /\ sig[n] \in BOOLEAN
    BY DEF ServerInv, ServerTypeOK
<1>2. Version' = Version \/ applied' # applied
    BY DEF Version
<1> USE ServerAssumption
<1>3. ASSUME UNCHANGED <<database, bucket, traffic, budget>>, UNCHANGED <<sig, clock>>
      PROVE  /\ Version' = Version /\ bucket' = bucket
             /\ sig'[n] = sig[n] /\ clock'[n] = clock[n]
             /\ routed'[n] = routed[n] /\ request'[n] = request[n]
    BY <1>2, <1>3 DEF database, traffic
<1>4. CASE Connect(n) \/ Restart(n)
    <2>1. PICK to \in {"lock", "connect"} :
              /\ Goto(n, to) /\ pc[n] \in {"connect", "down"}
              /\ UNCHANGED <<database, bucket, traffic, budget>>
        BY <1>4 DEF Connect, Restart, Step
    <2>2. to \in Places \ {"goose", "apply"}
        BY DEF Places, Starting
    <2>3. ASSUME pc'[n] = to PROVE ReplicaSound(n)'
        BY <1>1, <1>3, <2>1, <2>3 DEF ReplicaSound, LifeSound, TimeSound, TrafficSound,
              SetUpSound, Starting, Stopping, Goto
    <2> QED
        BY <2>1, <2>2, <2>3, Onward
<1>5. CASE Shutdown(n)
    <2>1. /\ Goto(n, "drain") /\ pc[n] = "serve" /\ sig[n]
          /\ UNCHANGED <<database, bucket, traffic, budget>>
        BY <1>5 DEF Shutdown, Step
    <2>2. "drain" \in Places \ {"goose", "apply"}
        BY DEF Places, Stopping
    <2>3. ASSUME pc'[n] = "drain" PROVE ReplicaSound(n)'
        BY <1>1, <1>3, <2>1, <2>3 DEF ReplicaSound, LifeSound, TimeSound, TrafficSound,
              SetUpSound, Starting, Stopping, Goto
    <2> QED
        BY <2>1, <2>2, <2>3, Onward
<1>6. CASE DrainOver(n)
    <2>1. /\ Goto(n, "http") /\ pc[n] = "drain"
          /\ clock[n] >= DrainDelay \/ clock[n] >= ShutdownTimeout
          /\ UNCHANGED <<database, bucket, traffic, budget>>
        BY <1>1, <1>6 DEF DrainOver, Step
    <2>2. "http" \in Places \ {"goose", "apply"}
        BY DEF Places, Stopping
    <2>3. NoticeInTime /\ n \in Watched => ~routed[n]
        BY <1>1, <2>1 DEF ReplicaSound, TrafficSound, NoticeInTime
    <2>4. ASSUME pc'[n] = "http" PROVE ReplicaSound(n)'
        BY <1>1, <1>3, <2>1, <2>3, <2>4 DEF ReplicaSound, LifeSound, TimeSound,
              TrafficSound, SetUpSound, Starting, Stopping, Goto
    <2> QED
        BY <2>1, <2>2, <2>4, Onward
<1>7. CASE HTTPClosed(n)
    <2>1. PICK to \in {"stop", "close"} :
              /\ Goto(n, to) /\ pc[n] = "http"
              /\ request[n] = -1 \/ clock[n] >= ShutdownTimeout
              /\ UNCHANGED <<database, bucket, traffic, budget>>
        BY <1>7 DEF HTTPClosed, AfterHTTP, Step, ShutdownCtxDone
    <2>2. to \in Places \ {"goose", "apply"}
        BY DEF Places, Stopping
    <2>3. ASSUME pc'[n] = to PROVE ReplicaSound(n)'
        BY <1>1, <1>3, <2>1, <2>3 DEF ReplicaSound, LifeSound, TimeSound, TrafficSound,
              SetUpSound, Starting, Stopping, Goto
    <2> QED
        BY <2>1, <2>2, <2>3, Onward
<1>8. CASE WorkerQuiet(n) \/ Released(n) \/ PoolClosed(n) \/ Exit(n)
    <2>1. PICK to \in {"release", "close", "trace", "exited"} :
              /\ Goto(n, to)
              /\ \/ pc[n] = "stop" /\ to = "release"
                 \/ pc[n] = "release" /\ to = "close"
                 \/ pc[n] = "close" /\ to = "trace"
                 \/ pc[n] = "trace" /\ to = "exited"
              /\ UNCHANGED <<database, bucket, traffic, budget>>
        BY <1>8 DEF WorkerQuiet, Released, PoolClosed, Exit, Step
    <2>2. to \in Places \ {"goose", "apply"}
        BY DEF Places, Stopping
    <2>3. ASSUME pc'[n] = to PROVE ReplicaSound(n)'
        BY <1>1, <1>3, <2>1, <2>3 DEF ReplicaSound, LifeSound, TimeSound, TrafficSound,
              SetUpSound, Starting, Stopping, Goto
    <2> QED
        BY <2>1, <2>2, <2>3, Onward
<1> QED
    BY <1>4, <1>5, <1>6, <1>7, <1>8 DEF StopNext

\* A replica finds the bucket or creates it.
LEMMA BucketKeeps ==
    ASSUME ServerInv, NEW n \in Replicas, HeadBucket(n) \/ CreateBucket(n)
    PROVE  ServerInv'
<1>1. ReplicaSound(n) /\ clock[n] \in Nat /\ bucket \in BOOLEAN /\ sig[n] \in BOOLEAN
    BY DEF ServerInv, ServerTypeOK
<1>2. PICK to \in {"serve", "create", "down", "exited"} :
          /\ Goto(n, to) /\ pc[n] \in {"head", "create"}
          /\ to = "serve" => bucket'
          /\ bucket' \in {bucket, TRUE}
          /\ UNCHANGED <<lock, version, applied, routed, request, stops, lostLocks>>
          /\ faults' \in {faults, faults + 1} /\ faults' <= MaxFaults
    <2>1. faults \in Nat /\ faults <= MaxFaults
        BY ServerAssumption DEF ServerInv, ServerTypeOK
    <2>2. CASE HeadBucket(n)
        BY <1>1, <2>1, <2>2, ServerAssumption
           DEF HeadBucket, Step, Fault, database, traffic, budget
    <2>3. CASE CreateBucket(n)
        BY <1>1, <2>1, <2>3 DEF CreateBucket, Fails, database, traffic, budget
    <2> QED
        BY <2>2, <2>3
<1>3. to \in Places
    BY DEF Places, Starting
<1>4. /\ pc' \in [Replicas -> Places]
      /\ pc'[n] = to /\ sig' = sig /\ clock' = clock
    BY <1>2, <1>3, GotoEffect
<1>5. ServerTypeOK'
    <2>1. bucket' \in BOOLEAN
        BY <1>1, <1>2, Zenon
    <2>2. faults' \in 0 .. MaxFaults
        <3>1. faults \in Nat /\ MaxFaults \in Nat
            BY ServerAssumption DEF ServerInv, ServerTypeOK
        <3>2. faults' \in {faults, faults + 1} /\ faults' <= MaxFaults
            BY <1>2, Zenon
        <3> QED
            BY <3>1, <3>2
    <2>3. UNCHANGED <<lock, version, applied, routed, request, stops, lostLocks>>
        BY <1>2, Zenon
    <2> QED
        BY <1>4, <2>1, <2>2, <2>3
           DEF ServerInv, ServerTypeOK, Places, Starting, Stopping
<1>6. Version' = Version
    BY <1>2 DEF Version
<1>7. ReplicaSound(n)'
    BY <1>1, <1>2, <1>4, <1>6 DEF ReplicaSound, LifeSound, TimeSound, TrafficSound,
          SetUpSound, Starting, Stopping
<1>8. bucket => bucket'
    BY <1>2, Zenon
<1>9. faults' >= faults
    <2>1. faults \in Nat
        BY DEF ServerInv, ServerTypeOK
    <2>2. faults' \in {faults, faults + 1}
        BY <1>2, Zenon
    <2> QED
        BY <2>1, <2>2
<1> QED
    BY <1>2, <1>5, <1>7, <1>8, <1>9, Outside

\* A replica leaves the locked region, or dies, and frees the lock if it has it.
LEMMA LeaveKeeps ==
    ASSUME ServerInv, NEW n \in Replicas, Migrated(n) \/ StartFails(n) \/ Crash(n)
    PROVE  ServerInv'
<1>1. /\ ReplicaSound(n) /\ clock[n] \in Nat /\ sig[n] \in BOOLEAN
      /\ request \in [Replicas -> -1 .. ShutdownTimeout]
      /\ faults \in Nat /\ faults <= MaxFaults /\ version[n] \in Nat
      /\ version[n] <= Migrations /\ Version \in 0 .. Migrations
      /\ Migrations \in Nat /\ ShutdownTimeout \in Nat /\ DrainDelay \in Nat
    BY ServerAssumption DEF ServerInv, ServerTypeOK, AppliedSound
<1>2. PICK to \in {"head", "down", "exited"} :
          /\ Goto(n, to)
          /\ to = "head" => pc[n] = "apply" /\ version[n] = Migrations
          /\ to = "down" => ~sig[n] /\ pc[n] # "exited"
          /\ \/ request' = request /\ pc[n] \in Starting
             \/ request' = [request EXCEPT ![n] = -1]
          /\ Unlock(n)
          /\ UNCHANGED <<version, applied, bucket, routed, stops, lostLocks>>
          /\ faults' \in {faults, faults + 1} /\ faults' <= MaxFaults
    <2>1. CASE Migrated(n)
        BY <1>1, <2>1 DEF Migrated, Step, Starting, traffic, budget
    <2>2. CASE StartFails(n)
        BY <1>1, <2>2, ServerAssumption
           DEF StartFails, Fails, Fault, Starting, traffic, budget
    <2>3. CASE Crash(n)
        BY <1>1, <2>3, ServerAssumption DEF Crash, Fails, Fault
    <2> QED
        BY <2>1, <2>2, <2>3
<1>3. to \in Places
    BY DEF Places, Starting
<1>4. /\ pc' \in [Replicas -> Places]
      /\ pc'[n] = to /\ sig' = sig /\ clock' = clock
    BY <1>2, <1>3, GotoEffect
<1>5. /\ request' \in [Replicas -> -1 .. ShutdownTimeout]
      /\ request'[n] = -1
      /\ \A m \in Replicas \ {n} : request'[m] = request[m]
    BY <1>1, <1>2 DEF ReplicaSound, LifeSound
<1>6. ServerTypeOK'
    <2>1. lock' \in Replicas \cup {"none"}
        BY <1>2 DEF ServerInv, ServerTypeOK, Unlock
    <2>2. faults' \in 0 .. MaxFaults
        BY <1>1, <1>2, ServerAssumption
    <2>3. UNCHANGED <<version, applied, bucket, routed, stops, lostLocks>>
        BY <1>2
    <2> QED
        BY <1>4, <1>5, <2>1, <2>2, <2>3
           DEF ServerInv, ServerTypeOK, Places, Starting, Stopping
<1>7. Version' = Version
    BY <1>2 DEF Version
<1>8. ReplicaSound(n)'
    <2>1. to # "exited" => clock[n] = 0
        BY <1>1, <1>2 DEF ReplicaSound, LifeSound, Stopping, Starting
    <2>2. to = "head" => Version = Migrations
        BY <1>1, <1>2 DEF ReplicaSound, SetUpSound
    <2> QED
        BY <1>4, <1>5, <1>7, <2>1, <2>2
           DEF ReplicaSound, LifeSound, TimeSound, TrafficSound, SetUpSound, Starting,
               Stopping
<1>9. faults' >= faults
    BY <1>1, <1>2
<1> QED
    BY <1>2, <1>3, <1>4, <1>5, <1>6, <1>8, <1>9, Outside

\* A replica gets the lock, reads the version, runs a migration.
LEMMA MigrateKeeps ==
    ASSUME ServerInv, NEW n \in Replicas,
           Lock(n) \/ GooseReads(n) \/ GooseApplies(n)
    PROVE  ServerInv'
<1>1. /\ ReplicaSound(n) /\ clock[n] \in Nat /\ sig[n] \in BOOLEAN
      /\ version \in [Replicas -> 0 .. Migrations]
      /\ Version \in 0 .. Migrations /\ Migrations \in Nat
      /\ applied \in [1 .. Migrations -> Nat]
      /\ pc \in [Replicas -> Places]
    <2>1. /\ ReplicaSound(n) /\ Version \in 0 .. Migrations /\ Migrations \in Nat
        BY ServerAssumption DEF ServerInv, AppliedSound
    <2>2. /\ sig[n] \in BOOLEAN /\ version \in [Replicas -> 0 .. Migrations]
          /\ applied \in [1 .. Migrations -> Nat]
        BY DEF ServerInv, ServerTypeOK
    <2>3. clock[n] \in Nat
        BY DEF ServerInv, ServerTypeOK
    <2>4. pc \in [Replicas -> Places]
        BY DEF ServerInv, ServerTypeOK, Places, Starting, Stopping
    <2> QED
        BY <2>1, <2>2, <2>3, <2>4
<1>2. CASE Lock(n)
    <2>1. /\ Goto(n, "goose") /\ pc[n] = "lock" /\ lock = "none" /\ lock' = n
          /\ UNCHANGED <<version, applied, bucket, routed, request, faults, stops,
                         lostLocks>>
        BY <1>2 DEF Lock, Step, traffic, budget
    <2>2. /\ pc' \in [Replicas -> Places]
          /\ pc' = [pc EXCEPT ![n] = "goose"] /\ pc'[n] = "goose"
          /\ sig' = sig /\ clock' = clock
        BY <2>1, GotoEffect DEF Places, Starting, Goto
    <2>3. ServerTypeOK'
        BY <2>1, <2>2 DEF ServerInv, ServerTypeOK, Places, Starting, Stopping
    <2>4. Version' = Version
        BY <2>1 DEF Version
    <2>5. ReplicaSound(n)'
        BY <1>1, <2>1, <2>2, <2>4 DEF ReplicaSound, LifeSound, TimeSound, TrafficSound,
              SetUpSound, Starting, Stopping
    <2>6. LockSound'
        BY <1>1, <2>1, <2>2, <2>4, ServerAssumption DEF ServerInv, LockSound
    <2>7. AppliedSound' /\ MigratedOnce'
        BY <2>1, <2>4 DEF ServerInv, AppliedSound, MigratedOnce
    <2>8. \A m \in Replicas \ {n} : pc'[m] = pc[m]
        BY <1>1, <2>2
    <2> QED
        BY <1>1, <2>1, <2>2, <2>3, <2>4, <2>5, <2>6, <2>7, <2>8, OneReplica
           DEF ServerInv, FaultsCounted
<1>3. CASE GooseReads(n)
    <2>1. /\ Goto(n, "apply") /\ pc[n] = "goose"
          /\ version' = [version EXCEPT ![n] = Version]
          /\ UNCHANGED <<lock, applied, bucket, routed, request, faults, stops,
                         lostLocks>>
        BY <1>3 DEF GooseReads, Step, traffic, budget
    <2>2. /\ pc' \in [Replicas -> Places]
          /\ pc' = [pc EXCEPT ![n] = "apply"] /\ pc'[n] = "apply"
          /\ sig' = sig /\ clock' = clock
        BY <2>1, GotoEffect DEF Places, Starting, Goto
    <2>3. /\ version' \in [Replicas -> 0 .. Migrations] /\ version'[n] = Version
          /\ \A m \in Replicas \ {n} : version'[m] = version[m]
        BY <1>1, <2>1
    <2>4. ServerTypeOK'
        BY <2>1, <2>2, <2>3 DEF ServerInv, ServerTypeOK, Places, Starting, Stopping
    <2>5. Version' = Version
        BY <2>1 DEF Version
    <2>6. ReplicaSound(n)'
        BY <1>1, <2>1, <2>2, <2>3, <2>5 DEF ReplicaSound, LifeSound, TimeSound,
              TrafficSound, SetUpSound, Starting, Stopping
    <2>7. \A m \in Replicas \ {n} : pc'[m] = pc[m]
        BY <1>1, <2>2
    <2>8. LockSound'
        BY <2>1, <2>2, <2>3, <2>5, <2>7 DEF ServerInv, LockSound
    <2>9. AppliedSound' /\ MigratedOnce'
        BY <2>1, <2>5 DEF ServerInv, AppliedSound, MigratedOnce
    <2> QED
        BY <1>1, <2>1, <2>2, <2>3, <2>4, <2>5, <2>6, <2>7, <2>8, <2>9, OneReplica
           DEF ServerInv, FaultsCounted
<1>4. CASE GooseApplies(n)
    <2> DEFINE new == version[n] + 1
    <2>1. /\ pc[n] = "apply" /\ version[n] < Migrations
          /\ version' = [version EXCEPT ![n] = new]
          /\ applied' = [applied EXCEPT ![new] = @ + 1]
          /\ UNCHANGED <<pc, sig, clock, lock, bucket, routed, request, faults,
                         stops, lostLocks>>
        BY <1>4 DEF GooseApplies, process, traffic, budget
    <2>2. new \in 1 .. Migrations /\ new <= Version + 1
        BY <1>1, <2>1 DEF ReplicaSound, SetUpSound
    <2>3. /\ version' \in [Replicas -> 0 .. Migrations] /\ version'[n] = new
          /\ \A m \in Replicas \ {n} : version'[m] = version[m]
        BY <1>1, <2>1, <2>2
    <2>4. /\ applied' \in [1 .. Migrations -> Nat]
          /\ applied'[new] = applied[new] + 1
          /\ \A v \in 1 .. Migrations : v # new => applied'[v] = applied[v]
        BY <1>1, <2>1, <2>2
    <2> HIDE DEF new
    <2>5. Version' = (IF new > Version THEN new ELSE Version) /\ AppliedSound'
        <3> DEFINE k == IF new > Version THEN new ELSE Version
        <3>1. k \in 0 .. Migrations
            BY <1>1, <2>2
        <3>2. \A v \in 1 .. Migrations : applied'[v] > 0 <=> v <= k
            <4> SUFFICES ASSUME NEW v \in 1 .. Migrations
                         PROVE  applied'[v] > 0 <=> v <= k
                OBVIOUS
            <4>1. applied[v] \in Nat /\ (applied[v] > 0 <=> v <= Version)
                BY <1>1 DEF ServerInv, AppliedSound
            <4>2. CASE v = new
                BY <1>1, <2>2, <2>4, <4>1, <4>2
            <4>3. CASE v # new
                BY <1>1, <2>2, <2>4, <4>1, <4>3
            <4> QED
                BY <4>2, <4>3
        <3> HIDE DEF k
        <3>3. Version' = k
            BY <3>1, <3>2, VersionIsNext
        <3>4. AppliedSound'
            BY <3>1, <3>2, <3>3 DEF AppliedSound
        <3> QED
            BY <3>3, <3>4 DEF k
    <2>6. ServerTypeOK'
        BY <2>1, <2>3, <2>4 DEF ServerInv, ServerTypeOK
    <2>7. ReplicaSound(n)'
        BY <1>1, <2>1, <2>2, <2>3, <2>5 DEF ReplicaSound, LifeSound, TimeSound,
              TrafficSound, SetUpSound, Starting, Stopping
    <2>8. ASSUME lostLocks = 0
          PROVE  /\ lock = n /\ new = Version + 1
                 /\ \A m \in Replicas \ {n} : pc[m] \notin {"goose", "apply"}
        BY <2>1, <2>8 DEF ServerInv, LockSound, new
    <2>9. LockSound'
        BY <1>1, <2>1, <2>2, <2>3, <2>5, <2>8 DEF LockSound
    <2>10. MigratedOnce'
        BY <1>1, <2>1, <2>2, <2>4, <2>8 DEF ServerInv, MigratedOnce, AppliedSound
    <2>11. Version' >= Version
        BY <1>1, <2>2, <2>5
    <2>12. FaultsCounted'
        BY <2>1 DEF ServerInv, FaultsCounted
    <2> QED
        BY <2>1, <2>3, <2>5, <2>6, <2>7, <2>9, <2>10, <2>11, <2>12, OneReplica
<1> QED
    BY <1>2, <1>3, <1>4

-----------------------------------------------------------------------------
(* Traffic, signals, lost sessions and time                                *)

\* Steps in which every replica stays where it is.
LEMMA TrafficKeeps ==
    ASSUME ServerInv, NEW n \in Replicas,
           \/ Probe(n) \/ DependencyDown(n) \/ Arrive(n) \/ Respond(n)
           \/ Sigterm(n) \/ LoseLock(n)
    PROVE  ServerInv'
<1>0. /\ DrainDelay \in Nat /\ ShutdownTimeout \in Nat /\ NoticeTime \in Nat
      /\ MaxFaults \in Nat /\ MaxStops \in Nat
    BY ServerAssumption
<1>1. /\ ReplicaSound(n) /\ clock[n] \in Nat /\ pc[n] \in Places
      /\ request \in [Replicas -> -1 .. ShutdownTimeout]
      /\ routed \in [Replicas -> BOOLEAN] /\ sig \in [Replicas -> BOOLEAN]
      /\ faults \in Nat /\ faults <= MaxFaults /\ stops \in Nat /\ stops <= MaxStops
      /\ lostLocks \in Nat /\ lostLocks <= MaxFaults /\ lostLocks <= faults
    BY <1>0
       DEF ServerInv, ServerTypeOK, FaultsCounted, Places, Starting, Stopping
<1>2. ASSUME UNCHANGED <<pc, clock, version, applied, bucket>>,
             \/ UNCHANGED lock
             \/ lock = n /\ lock' = "none" /\ lostLocks' > 0,
             lostLocks' >= lostLocks, lostLocks' \in 0 .. MaxFaults, FaultsCounted',
             routed' \in [Replicas -> BOOLEAN], sig' \in [Replicas -> BOOLEAN],
             request' \in [Replicas -> -1 .. ShutdownTimeout],
             faults' \in 0 .. MaxFaults, stops' \in 0 .. MaxStops,
             \A m \in Replicas \ {n} :
                 routed'[m] = routed[m] /\ sig'[m] = sig[m] /\ request'[m] = request[m],
             LifeSound(n)' /\ TrafficSound(n)'
      PROVE  ServerInv'
    <2>1. Version' = Version /\ Version \in Int
        BY <1>2, ServerAssumption DEF Version, ServerInv, AppliedSound
    <2>2. ServerTypeOK'
        BY <1>2 DEF ServerInv, ServerTypeOK
    <2>3. TimeSound(n)' /\ SetUpSound(n)'
        BY <1>0, <1>1, <1>2, <2>1 DEF ReplicaSound, TimeSound, SetUpSound
    <2>4. AppliedSound'
        BY <1>2, <2>1 DEF ServerInv, AppliedSound
    <2>5. lostLocks' = 0 => lostLocks = 0 /\ lock' = lock
        BY <1>0, <1>1, <1>2
    <2>6. LockSound' /\ MigratedOnce'
        BY <1>2, <2>1, <2>5 DEF ServerInv, LockSound, MigratedOnce
    <2> QED
        BY <1>2, <2>1, <2>2, <2>3, <2>4, <2>6, OneReplica DEF ReplicaSound
<1>3. CASE Probe(n)
    <2>1. /\ routed' = [routed EXCEPT ![n] = (pc[n] = "serve")]
          /\ UNCHANGED <<pc, sig, clock, lock, version, applied, bucket,
                         request, faults, stops, lostLocks>>
        BY <1>3 DEF Probe, Readyz, process, database, budget
    <2>2. /\ routed' \in [Replicas -> BOOLEAN]
          /\ pc[n] # "serve" => ~routed'[n]
          /\ \A m \in Replicas \ {n} : routed'[m] = routed[m]
        BY <1>0, <1>1, <2>1
    <2>3. LifeSound(n)' /\ TrafficSound(n)'
        BY <1>0, <1>1, <2>1, <2>2
           DEF ReplicaSound, LifeSound, TrafficSound, Starting, Stopping
    <2> QED
        BY <1>0, <1>1, <1>2, <2>1, <2>2, <2>3 DEF FaultsCounted
<1>4. CASE DependencyDown(n)
    <2>1. /\ routed' = [routed EXCEPT ![n] = FALSE]
          /\ UNCHANGED <<pc, sig, clock, lock, version, applied, bucket,
                         request, stops, lostLocks>>
          /\ faults < MaxFaults /\ faults' = faults + 1
        BY <1>4 DEF DependencyDown, Fault, process, database
    <2>2. /\ routed' \in [Replicas -> BOOLEAN] /\ ~routed'[n]
          /\ \A m \in Replicas \ {n} : routed'[m] = routed[m]
        BY <1>0, <1>1, <2>1
    <2>3. LifeSound(n)' /\ TrafficSound(n)'
        BY <1>0, <1>1, <2>1, <2>2
           DEF ReplicaSound, LifeSound, TrafficSound, Starting, Stopping
    <2> QED
        BY <1>0, <1>1, <1>2, <2>1, <2>2, <2>3 DEF FaultsCounted
<1>5. CASE Arrive(n)
    <2>1. /\ request' = [request EXCEPT ![n] = 0] /\ routed[n]
          /\ pc[n] \in {"serve", "drain"}
          /\ UNCHANGED <<pc, sig, clock, lock, version, applied, bucket,
                         routed, faults, stops, lostLocks>>
        BY <1>5 DEF Arrive, ListenerOpen, process, database, budget
    <2>2. /\ request' \in [Replicas -> -1 .. ShutdownTimeout] /\ request'[n] = 0
          /\ \A m \in Replicas \ {n} : request'[m] = request[m]
        BY <1>0, <1>1, <2>1
    <2>3. LifeSound(n)' /\ TrafficSound(n)'
        BY <1>0, <1>1, <2>1, <2>2
           DEF ReplicaSound, LifeSound, TimeSound, TrafficSound, Starting, Stopping
    <2> QED
        BY <1>0, <1>1, <1>2, <2>1, <2>2, <2>3 DEF FaultsCounted
<1>6. CASE Respond(n)
    <2>1. /\ request' = [request EXCEPT ![n] = -1]
          /\ UNCHANGED <<pc, sig, clock, lock, version, applied, bucket,
                         routed, faults, stops, lostLocks>>
        BY <1>6 DEF Respond, process, database, budget
    <2>2. /\ request' \in [Replicas -> -1 .. ShutdownTimeout] /\ request'[n] = -1
          /\ \A m \in Replicas \ {n} : request'[m] = request[m]
        BY <1>0, <1>1, <2>1
    <2>3. LifeSound(n)' /\ TrafficSound(n)'
        BY <1>0, <1>1, <2>1, <2>2
           DEF ReplicaSound, LifeSound, TrafficSound, Starting, Stopping
    <2> QED
        BY <1>0, <1>1, <1>2, <2>1, <2>2, <2>3 DEF FaultsCounted
<1>7. CASE Sigterm(n)
    <2>1. /\ sig' = [sig EXCEPT ![n] = TRUE]
          /\ UNCHANGED <<pc, clock, lock, version, applied, bucket,
                         routed, request, faults, lostLocks>>
          /\ stops < MaxStops /\ stops' = stops + 1
        BY <1>7 DEF Sigterm, database, traffic
    <2>2. /\ sig' \in [Replicas -> BOOLEAN] /\ sig'[n]
          /\ \A m \in Replicas \ {n} : sig'[m] = sig[m]
        BY <1>0, <1>1, <2>1
    <2>3. LifeSound(n)' /\ TrafficSound(n)'
        BY <1>0, <1>1, <2>1, <2>2
           DEF ReplicaSound, LifeSound, TrafficSound, Starting, Stopping
    <2> QED
        BY <1>0, <1>1, <1>2, <2>1, <2>2, <2>3 DEF FaultsCounted
<1>8. CASE LoseLock(n)
    <2>1. /\ lock = n /\ lock' = "none" /\ lostLocks' = lostLocks + 1
          /\ UNCHANGED <<pc, sig, clock, version, applied, bucket,
                         routed, request, stops>>
          /\ faults < MaxFaults /\ faults' = faults + 1
        BY <1>8 DEF LoseLock, process, traffic
    <2>2. lostLocks < MaxFaults
        BY <1>0, <1>1, <2>1
    <2>3. LifeSound(n)' /\ TrafficSound(n)'
        BY <1>0, <1>1, <2>1
           DEF ReplicaSound, LifeSound, TrafficSound, Starting, Stopping
    <2> QED
        BY <1>0, <1>1, <1>2, <2>1, <2>2, <2>3 DEF FaultsCounted
<1> QED
    BY <1>3, <1>4, <1>5, <1>6, <1>7, <1>8

\* Time passes for those who shut down, and only when nobody is late.
LEMMA TickKeeps ==
    ASSUME ServerInv, Tick
    PROVE  ServerInv'
<1>1. {DrainDelay, ShutdownTimeout, NoticeTime} \subseteq Nat /\ ClockBound \in Nat
    BY ServerAssumption DEF ClockBound
<1>2. /\ UNCHANGED <<pc, sig, lock, version, applied, bucket, routed, faults, stops,
                     lostLocks>>
      /\ clock' = [n \in Replicas |->
                      IF ShuttingDown(n) /\ clock[n] < ClockBound
                      THEN clock[n] + 1 ELSE clock[n]]
      /\ request' = [n \in Replicas |->
                        IF request[n] \in 0 .. ShutdownTimeout - 1
                        THEN request[n] + 1 ELSE request[n]]
    BY DEF Tick, database, budget
<1>3. /\ clock \in [Replicas -> 0 .. ClockBound]
      /\ request \in [Replicas -> -1 .. ShutdownTimeout]
    BY DEF ServerInv, ServerTypeOK
<1>4. ASSUME NEW n \in Replicas
      PROVE  /\ \/ clock'[n] = clock[n]
                \/ pc[n] \in Stopping /\ clock'[n] = clock[n] + 1
             /\ request'[n] = (IF request[n] >= 0 /\ request[n] < ShutdownTimeout
                               THEN request[n] + 1 ELSE request[n])
             /\ clock[n] \in Nat
             /\ request[n] \in Int /\ request[n] >= -1 /\ request[n] <= ShutdownTimeout
    <2>1. clock[n] \in 0 .. ClockBound /\ request[n] \in -1 .. ShutdownTimeout
        BY <1>3
    <2>2. clock'[n] = IF ShuttingDown(n) /\ clock[n] < ClockBound
                      THEN clock[n] + 1 ELSE clock[n]
        BY <1>2
    <2>3. request'[n] = IF request[n] \in 0 .. ShutdownTimeout - 1
                        THEN request[n] + 1 ELSE request[n]
        BY <1>2
    <2> QED
        BY <1>1, <2>1, <2>2, <2>3 DEF ShuttingDown, Stopping
<1>5. ServerTypeOK'
    <2>1. clock' \in [Replicas -> 0 .. ClockBound]
        BY <1>1, <1>2, <1>3
    <2>2. request' \in [Replicas -> -1 .. ShutdownTimeout]
        BY <1>1, <1>2, <1>3
    <2> QED
        BY <1>2, <2>1, <2>2 DEF ServerInv, ServerTypeOK
<1>6. Version' = Version
    BY <1>2 DEF Version
<1>7. ASSUME NEW n \in Replicas
      PROVE  ReplicaSound(n)'
    <2>1. ReplicaSound(n) /\ Patient(n)
        BY DEF ServerInv, Tick
    <2>2. LifeSound(n)'
        BY <1>1, <1>2, <1>4, <2>1
           DEF ReplicaSound, LifeSound, Starting, Stopping
    <2>3. TimeSound(n)'
        BY <1>1, <1>2, <1>4, <2>1
           DEF ReplicaSound, TimeSound, Patient, Stopping
    <2>4. TrafficSound(n)'
        BY <1>1, <1>2, <1>4, <2>1
           DEF ReplicaSound, TrafficSound, Patient, Readyz, Stopping
    <2>5. SetUpSound(n)'
        BY <1>2, <1>6, <2>1 DEF ReplicaSound, SetUpSound
    <2> QED
        BY <2>2, <2>3, <2>4, <2>5 DEF ReplicaSound
<1>8. LockSound' /\ AppliedSound' /\ MigratedOnce' /\ FaultsCounted'
    BY <1>2, <1>6
       DEF ServerInv, LockSound, AppliedSound, MigratedOnce, FaultsCounted
<1> QED
    BY <1>5, <1>7, <1>8 DEF ServerInv

-----------------------------------------------------------------------------
(* The theorems                                                            *)

\* Everybody is about to connect, and no migration has run.
LEMMA InitSound == ServerInit => ServerInv
<1> SUFFICES ASSUME ServerInit PROVE ServerInv
    OBVIOUS
<1>1. /\ MaxFaults \in Nat /\ MaxStops \in Nat /\ ShutdownTimeout \in Nat
      /\ Migrations \in Nat /\ ClockBound \in Nat
    BY ServerAssumption DEF ClockBound
<1>2. ServerTypeOK
    BY <1>1 DEF ServerInit, ServerTypeOK
<1>3. \A v \in 1 .. Migrations : applied[v] > 0 <=> v <= 0
    BY <1>1 DEF ServerInit
<1>4. Version = 0
    BY <1>1, <1>3, VersionIs
<1>5. AppliedSound /\ MigratedOnce /\ FaultsCounted
    BY <1>1, <1>3, <1>4 DEF AppliedSound, MigratedOnce, FaultsCounted, ServerInit
<1>6. \A n \in Replicas : ReplicaSound(n)
    BY DEF ServerInit, ReplicaSound, LifeSound, TimeSound, TrafficSound, SetUpSound,
           Starting, Stopping
<1>7. LockSound
    BY DEF ServerInit, LockSound
<1> QED
    BY <1>2, <1>5, <1>6, <1>7 DEF ServerInv

\* The invariant is inductive.
LEMMA NextSound == ServerInv /\ [ServerNext]_svars => ServerInv'
<1> SUFFICES ASSUME ServerInv, [ServerNext]_svars PROVE ServerInv'
    OBVIOUS
<1>1. ASSUME NEW n \in Replicas, StartNext(n)
      PROVE  ServerInv'
    BY <1>1, StopKeeps, BucketKeeps, LeaveKeeps, MigrateKeeps DEF StartNext
<1>2. ASSUME NEW n \in Replicas, StopNext(n)
      PROVE  ServerInv'
    BY <1>2, StopKeeps
<1>3. ASSUME NEW n \in Replicas, Crash(n)
      PROVE  ServerInv'
    BY <1>3, LeaveKeeps
<1>4. ASSUME NEW n \in Replicas,
             \/ Probe(n) \/ DependencyDown(n) \/ Arrive(n) \/ Respond(n)
             \/ Sigterm(n) \/ LoseLock(n)
      PROVE  ServerInv'
    BY <1>4, TrafficKeeps
<1>5. CASE Tick
    BY <1>5, TickKeeps
<1>6. CASE UNCHANGED svars
    <2>1. UNCHANGED <<pc, sig, clock, lock, version, applied, bucket, routed,
                      request, faults, stops, lostLocks>>
        BY <1>6 DEF svars, process, database, traffic, budget
    <2>2. Version' = Version
        BY <2>1 DEF Version
    <2>3. ServerTypeOK' /\ FaultsCounted' /\ LockSound' /\ AppliedSound' /\ MigratedOnce'
        BY <2>1, <2>2 DEF ServerInv, ServerTypeOK, FaultsCounted, LockSound,
              AppliedSound, MigratedOnce
    <2>4. \A n \in Replicas : ReplicaSound(n)'
        BY <2>1, <2>2 DEF ServerInv, ReplicaSound, LifeSound, TimeSound, TrafficSound,
              SetUpSound
    <2> QED
        BY <2>3, <2>4 DEF ServerInv
<1> QED
    BY <1>1, <1>2, <1>3, <1>4, <1>5, <1>6 DEF ServerNext

\* It holds in every state of the specification.
LEMMA InvSound == ServerSpec => []ServerInv
BY InitSound, NextSound, PTL DEF ServerSpec

\* Every variable keeps the shape the code gives it.
THEOREM ServerTyped == ServerSpec => []ServerTypeOK
<1>1. ServerInv => ServerTypeOK
    BY DEF ServerInv
<1> QED
    BY <1>1, InvSound, PTL

\* Migrate (internal/storage/postgres/migrate.go) runs no migration twice,
\* however many replicas start, crash and give up, unless the session that holds
\* the advisory lock is lost.
THEOREM NoMigrationTwice == ServerSpec => []MigratedOnce
<1>1. ServerInv => MigratedOnce
    BY DEF ServerInv
<1> QED
    BY <1>1, InvSound, PTL

\* A replica that serves, or is shutting down after it has served, finds all
\* migrations applied and its bucket there (cmd/server/main.go, run), also when
\* locks were lost.
THEOREM SetUpBeforeServing == ServerSpec => []ServesOnlyWhenSetUp
<1>1. ServerInv => ServesOnlyWhenSetUp
    BY DEF ServerInv, ReplicaSound, SetUpSound, ServesOnlyWhenSetUp, ShuttingDown,
           Stopping
<1> QED
    BY <1>1, InvSound, PTL

\* A request that fits in what the drain delay leaves of SHUTDOWN_TIMEOUT outlives
\* shutdown (cmd/server/main.go), for every setting of the two, however late it
\* arrives and however long the balancer goes on sending requests.
THEOREM RequestsOutliveShutdown == ServerSpec => []NoRequestCutOff
<1>1. ServerInv => NoRequestCutOff
    BY DEF ServerInv, ReplicaSound, TrafficSound, NoRequestCutOff
<1> QED
    BY <1>1, InvSound, PTL

\* The drain delay of shutdown does what it is for wherever the balancer notices a
\* failing /readyz in less than the delay and in less than SHUTDOWN_TIMEOUT, for
\* any number of replicas, also next to others that it notices later.
THEOREM DrainLetsBalancerNotice == ServerSpec => []NoticedBeforeClosed
<1>1. ServerInv => NoticedBeforeClosed
    <2> SUFFICES ASSUME ServerInv, NoticeInTime, NEW n \in Watched,
                        ShuttingDown(n), routed[n]
                 PROVE  ListenerOpen(n)
        BY DEF NoticedBeforeClosed, NoticeInTime
    <2>1. n \in Replicas
        BY ServerAssumption
    <2>2. TrafficSound(n)
        BY <2>1 DEF ServerInv, ReplicaSound
    <2>3. pc[n] = "drain"
        BY <2>2 DEF TrafficSound, ShuttingDown, Stopping
    <2> QED
        BY <2>3 DEF ListenerOpen
<1> QED
    BY <1>1, InvSound, PTL
=============================================================================
