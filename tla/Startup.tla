------------------------------ MODULE Startup ------------------------------
(***************************************************************************)
(* How the workers of a swarm start (run_thread() of the applications, the *)
(* constructor of Rpc) and where the replicas of a key are (src/mappings). *)
(*                                                                         *)
(* The threads of a machine divide the population of its tables among them *)
(* and meet at a barrier.  Then each creates its endpoint: it fills the    *)
(* receive queue, publishes the queue pair under its machine and local id, *)
(* and looks up the workers with the same local id on all machines.  From  *)
(* then on it sends them requests, and serves theirs.                      *)
(***************************************************************************)
EXTENDS Integers, FiniteSets

CONSTANTS
  Keys,          \* keyhash >> 20 of the keys that are populated
  MaxWorkers,    \* HOTS_MAX_WORKERS
  MaxThreads,    \* HOTS_MAX_SERVER_THREADS
  MaxBackups     \* HOTS_MAX_BACKUPS

ASSUME StartupAssumption ==
  /\ Keys \subseteq Nat
  /\ MaxWorkers \in Nat /\ MaxThreads \in Nat /\ MaxBackups \in Nat

VARIABLES
  numMachines, workersPerMachine, numBackups, useLockServer,  \* Mappings
  table,         \* table[m]: the <<key, replica>> in the tables of machine m
  barrier,       \* barrier[m]: thread_barrier of machine m
  pc,            \* pc[w]: what worker w is doing
  filled,        \* the workers whose receive queue is filled
  registry,      \* the workers whose queue pair is published
  resolved,      \* resolved[w]: how many machines worker w has looked up
  asked          \* asked[w]: the requests of worker w that are not answered

config == <<numMachines, workersPerMachine, numBackups, useLockServer>>
vars == <<config, table, barrier, pc, filled, registry, resolved, asked>>

-----------------------------------------------------------------------------
(* Mappings.                                                               *)

Machines == 0 .. numMachines - 1
Workers == Machines \X (0 .. workersPerMachine - 1)   \* machine and local id
Replicas == 0 .. numBackups
TotPrimaryMachines == IF useLockServer THEN numMachines - 1 ELSE numMachines
AmILockServer(w) == useLockServer /\ w[1] = numMachines - 1

\* get_primary_mn(), of the upper half of the keyhash.
PrimaryMn(k) == (k \div 4096) % TotPrimaryMachines

\* Mutant: backup 0 is the primary itself.
BackupMnFromPrimary_NoStep(m, i) ==
  IF m + i >= TotPrimaryMachines THEN m + i - TotPrimaryMachines ELSE m + i

\* get_backup_mn_from_primary()
BackupMnFromPrimary(m, i) ==
  IF m + (i + 1) >= TotPrimaryMachines
  THEN m + (i + 1) - TotPrimaryMachines
  ELSE m + (i + 1)

\* The machine of replica r of key k: get_primary_mn() or get_backup_mn().
ReplicaMn(k, r) == IF r = 0 THEN PrimaryMn(k) ELSE BackupMnFromPrimary(PrimaryMn(k), r - 1)

\* should_i_populate()
ShouldPopulate(w, k, r) ==
  /\ w[1] = ReplicaMn(k, r)
  /\ w[2] = k % workersPerMachine

\* get_log_mn() for every backup, and get_lockserver_mn().
OtherMns(w) ==
  {BackupMnFromPrimary(w[1], i) : i \in 0 .. numBackups - 1}
    \cup (IF useLockServer THEN {TotPrimaryMachines} ELSE {})

\* The configurations that the constructor of Mappings asserts, with at least one
\* machine that holds data.
Config ==
  /\ numMachines \in 1 .. MaxWorkers
  /\ workersPerMachine \in 1 .. MaxThreads
  /\ numBackups \in 0 .. MaxBackups
  /\ useLockServer \in BOOLEAN
  /\ numMachines * workersPerMachine <= MaxWorkers
  /\ numBackups + 1 <= numMachines
  /\ TotPrimaryMachines >= 1

Init ==
  /\ Config
  /\ table = [m \in Machines |-> {}]
  /\ barrier = [m \in Machines |-> 0]
  /\ pc = [w \in Workers |-> IF AmILockServer(w) THEN "fill" ELSE "populate"]
  /\ filled = {}
  /\ registry = {}
  /\ resolved = [w \in Workers |-> 0]
  /\ asked = [w \in Workers |-> {}]

-----------------------------------------------------------------------------
(* run_thread()                                                            *)

At(w, l) == pc[w] = l
Goto(w, l) == pc' = [pc EXCEPT ![w] = l]

\* What worker w has still to insert.
Missing(w) ==
  {x \in Keys \X Replicas : ShouldPopulate(w, x[1], x[2]) /\ x \notin table[w[1]]}

\* One call of set_spinlock(), which spins for the lock of the key's bucket.
Insert(w, x) ==
  /\ At(w, "populate")
  /\ x \in Missing(w)
  /\ table' = [table EXCEPT ![w[1]] = @ \cup {x}]
  /\ UNCHANGED <<config, barrier, pc, filled, registry, resolved, asked>>

\* __sync_fetch_and_add(&thread_barrier, 1)
Arrive(w) ==
  /\ At(w, "populate")
  /\ Missing(w) = {}
  /\ barrier' = [barrier EXCEPT ![w[1]] = @ + 1]
  /\ Goto(w, "barrier")
  /\ UNCHANGED <<config, table, filled, registry, resolved, asked>>

\* Mutant: the threads of a machine do not wait for one another.
Cross_NoWait(w) ==
  /\ At(w, "barrier")
  /\ Goto(w, "fill")
  /\ UNCHANGED <<config, table, barrier, filled, registry, resolved, asked>>

\* The end of the wait at the barrier.
Cross(w) ==
  /\ At(w, "barrier")
  /\ barrier[w[1]] = workersPerMachine
  /\ Goto(w, "fill")
  /\ UNCHANGED <<config, table, barrier, filled, registry, resolved, asked>>

\* Mutant: no RECVs are posted before the queue pair is published.
FillRecvs_None(w) ==
  /\ At(w, "fill")
  /\ Goto(w, "publish")
  /\ UNCHANGED <<config, table, barrier, filled, registry, resolved, asked>>

\* post_recvs(HRD_RQ_DEPTH)
FillRecvs(w) ==
  /\ At(w, "fill")
  /\ filled' = filled \cup {w}
  /\ Goto(w, "publish")
  /\ UNCHANGED <<config, table, barrier, registry, resolved, asked>>

\* hrd_publish_dgram_qp()
Publish(w) ==
  /\ At(w, "publish")
  /\ registry' = registry \cup {w}
  /\ Goto(w, "resolve")
  /\ UNCHANGED <<config, table, barrier, filled, resolved, asked>>

\* Mutant: the worker's own machine is skipped without going on to the next one.
Resolve_SkipSelf(w) ==
  /\ At(w, "resolve")
  /\ resolved[w] < numMachines
  /\ <<resolved[w], w[2]>> \in registry
  /\ resolved' = [resolved EXCEPT ![w] = IF @ = w[1] THEN @ ELSE @ + 1]
  /\ UNCHANGED <<config, table, barrier, pc, filled, registry, asked>>

\* Mutant: the loop looks up one machine too many.
Resolve_OneMore(w) ==
  /\ At(w, "resolve")
  /\ resolved[w] <= numMachines
  /\ resolved[w] < numMachines => <<resolved[w], w[2]>> \in registry
  /\ resolved' = [resolved EXCEPT ![w] = @ + 1]
  /\ UNCHANGED <<config, table, barrier, pc, filled, registry, asked>>

\* hrd_get_published_qp() finds the peer on the next machine.
Resolve(w) ==
  /\ At(w, "resolve")
  /\ resolved[w] < numMachines
  /\ <<resolved[w], w[2]>> \in registry
  /\ resolved' = [resolved EXCEPT ![w] = @ + 1]
  /\ UNCHANGED <<config, table, barrier, pc, filled, registry, asked>>

\* Every peer is known: register_rpc_handler(), then the coroutines start.
Run(w) ==
  /\ At(w, "resolve")
  /\ resolved[w] = numMachines
  /\ Goto(w, "run")
  /\ UNCHANGED <<config, table, barrier, filled, registry, resolved, asked>>

\* A request of w for the worker with its local id on machine m, about the
\* replicas of keys in want (none for the log and for the lock server).
Send(w, m, want) ==
  /\ At(w, "run")
  /\ ~AmILockServer(w)
  /\ asked[w] = {}
  /\ asked' = [asked EXCEPT ![w] = {[mn |-> m, want |-> want]}]
  /\ UNCHANGED <<config, table, barrier, pc, filled, registry, resolved>>

SendAny(w) ==
  \/ \E k \in Keys, r \in Replicas : Send(w, ReplicaMn(k, r), {<<k, r>>})
  \/ \E m \in OtherMns(w) : Send(w, m, {})

\* The handler of worker w answers a request of worker v.
Serve(w, v) ==
  /\ At(w, "run")
  /\ v[2] = w[2]
  /\ \E q \in asked[v] : q.mn = w[1]
  /\ asked' = [asked EXCEPT ![v] = {}]
  /\ UNCHANGED <<config, table, barrier, pc, filled, registry, resolved>>

-----------------------------------------------------------------------------
Populate(w) == (\E x \in Keys \X Replicas : Insert(w, x)) \/ Arrive(w)
Create(w) == Cross(w) \/ FillRecvs(w) \/ Publish(w) \/ Resolve(w) \/ Run(w)
Step(w) == Populate(w) \/ Create(w)

Next == \E w \in Workers : Step(w) \/ SendAny(w) \/ \E v \in Workers : Serve(w, v)

Spec == Init /\ [][Next]_vars

\* Every thread is scheduled, and polls its receive queue again and again.
FairSpec ==
  /\ Spec
  /\ \A m \in 0 .. MaxWorkers - 1, l \in 0 .. MaxThreads - 1 :
       LET w == <<m, l>> IN
       /\ WF_vars(w \in Workers /\ Step(w))
       /\ \A n \in 0 .. MaxWorkers - 1 :
            WF_vars(w \in Workers /\ n \in Machines /\ Serve(w, <<n, l>>))

-----------------------------------------------------------------------------
(* Properties.                                                             *)

Steps == {"populate", "barrier", "fill", "publish", "resolve", "run"}

\* Every variable has its type; in particular a worker never looks up a machine
\* that is not there.
TypeOK ==
  /\ Config
  /\ table \in [Machines -> SUBSET (Keys \X Replicas)]
  /\ barrier \in [Machines -> 0 .. workersPerMachine]
  /\ pc \in [Workers -> Steps]
  /\ filled \subseteq Workers
  /\ registry \subseteq Workers
  /\ resolved \in [Workers -> 0 .. numMachines]
  /\ asked \in [Workers -> SUBSET [mn : Machines, want : SUBSET (Keys \X Replicas)]]

\* The request of a worker that has started finds its key, although the thread that
\* inserts the key is not the one that serves it and may be the slowest of all.
RequestsFindKeys ==
  \A w \in Workers : \A q \in asked[w] : q.want \subseteq table[q.mn]

\* The request of a worker that has started meets a posted RECV at its peer, even
\* if the peer is still looking for others; it would be lost otherwise.
RequestsMeetRecvs ==
  \A w \in Workers : \A q \in asked[w] : <<q.mn, w[2]>> \in filled

\* The replicas of a key are on machines that hold data, and, when there are enough
\* of those, on different ones.  The constructor of Mappings does not assert that
\* there are enough: with a lock server it compares num_replicas with all machines.
ReplicasApart ==
  \A k \in Keys : \A r, s \in Replicas :
    /\ ReplicaMn(k, r) \in 0 .. TotPrimaryMachines - 1
    /\ numBackups < TotPrimaryMachines /\ r # s => ReplicaMn(k, r) # ReplicaMn(k, s)

\* Every worker of the swarm gets past the barrier and the look-up of its peers.
AllRun == <>(\A w \in Workers : At(w, "run"))
=============================================================================
