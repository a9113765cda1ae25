--------------------------- MODULE StartupProofs ---------------------------
(***************************************************************************)
(* Proofs about Startup, for any number of machines, threads and keys: the *)
(* barrier and the publication of the endpoints protect the first requests *)
(* of every worker, and the replicas of a key are apart.                   *)
(*                                                                         *)
(* The barrier counts the threads of a machine that have inserted what is  *)
(* theirs; a published endpoint is behind the barrier and its RECVs are    *)
(* posted; a worker that runs has found a published peer on every machine. *)
(***************************************************************************)
EXTENDS Startup, FiniteSetTheorems, TLAPS

\* The local ids of the threads of machine m that have reached the barrier.
Arrived(m) == {l \in 0 .. workersPerMachine - 1 : pc[<<m, l>>] # "populate"}

\* The replicas that belong on machine m.
Partition(m) == {x \in Keys \X Replicas : ReplicaMn(x[1], x[2]) = m}

\* thread_barrier counts the arrivals on a machine with data, and who has arrived has inserted all it owns.
Counted ==
  /\ \A w \in Workers : pc[w] \in {"populate", "barrier"} => ~AmILockServer(w)
  /\ \A m \in 0 .. TotPrimaryMachines - 1 : barrier[m] = Cardinality(Arrived(m))
  /\ \A w \in Workers : ~At(w, "populate") => Missing(w) = {}

\* A worker past the barrier is on a machine whose partition is populated.
Populated ==
  \A w \in Workers :
    pc[w] \notin {"populate", "barrier"} => Partition(w[1]) \subseteq table[w[1]]

\* Published endpoints have their RECVs.
Published ==
  /\ \A w \in Workers : pc[w] \in {"publish", "resolve", "run"} => w \in filled
  /\ \A w \in registry : pc[w] \in {"resolve", "run"}

\* A worker has found the peers it has counted, and all of them when it runs; only
\* then it asks, and asks the machine where the replica belongs.
Resolved ==
  /\ \A w \in Workers : \A n \in 0 .. resolved[w] - 1 : <<n, w[2]>> \in registry
  /\ \A w \in Workers : At(w, "run") => resolved[w] = numMachines
  /\ \A w \in Workers : \A q \in asked[w] : At(w, "run") /\ q.want \subseteq Partition(q.mn)

\* The inductive invariant.
IInv == TypeOK /\ Counted /\ Populated /\ Published /\ Resolved

-----------------------------------------------------------------------------
(* Placement.                                                              *)

\* The remainder of the primary's arithmetic is a machine that holds data.
LEMMA PrimaryInRange ==
  ASSUME Config, NEW k \in Keys
  PROVE  PrimaryMn(k) \in 0 .. TotPrimaryMachines - 1
<1> DEFINE a == k \div 4096
           b == TotPrimaryMachines
<1>1. b \in Int /\ b >= 1
  BY StartupAssumption DEF Config, TotPrimaryMachines
<1>2. a \in Nat
  BY StartupAssumption
<1> HIDE DEF a, b
<1>3. a % b \in 0 .. b - 1
  BY <1>1, <1>2
<1> QED  BY <1>3 DEF PrimaryMn, a, b

\* The ring of backups: i + 1 machines after the primary, with one wrap.
LEMMA RingDistinct ==
  ASSUME NEW m \in Nat, NEW n \in Nat, NEW r \in Nat, NEW s \in Nat,
         m < n, r < n, s < n, r # s
  PROVE  (IF m + r >= n THEN m + r - n ELSE m + r)
           # (IF m + s >= n THEN m + s - n ELSE m + s)
OBVIOUS

\* Replica r is r machines after the primary.
LEMMA ReplicaOnRing ==
  ASSUME Config, NEW k \in Keys, NEW r \in Replicas
  PROVE  /\ ReplicaMn(k, r) = IF PrimaryMn(k) + r >= TotPrimaryMachines
                               THEN PrimaryMn(k) + r - TotPrimaryMachines
                               ELSE PrimaryMn(k) + r
         /\ ReplicaMn(k, r) \in 0 .. TotPrimaryMachines - 1
<1> DEFINE p == PrimaryMn(k)
           t == TotPrimaryMachines
<1>1. p \in 0 .. t - 1
  BY PrimaryInRange
<1>2. t \in Nat /\ r \in Nat /\ r <= t
  BY StartupAssumption DEF Config, Replicas, TotPrimaryMachines
<1>3. ReplicaMn(k, r) = IF r = 0 THEN p
                        ELSE IF p + (r - 1 + 1) >= t THEN p + (r - 1 + 1) - t
                             ELSE p + (r - 1 + 1)
  BY DEF ReplicaMn, BackupMnFromPrimary
<1> HIDE DEF p, t
<1>4. /\ ReplicaMn(k, r) = IF p + r >= t THEN p + r - t ELSE p + r
      /\ ReplicaMn(k, r) \in 0 .. t - 1
  BY <1>1, <1>2, <1>3
<1> QED  BY <1>4 DEF p, t

\* A configuration that the constructor accepts keeps the replicas of a key apart.
LEMMA ConfigApart == Config => ReplicasApart
<1> SUFFICES ASSUME Config, NEW k \in Keys, NEW r \in Replicas, NEW s \in Replicas
    PROVE  /\ ReplicaMn(k, r) \in 0 .. TotPrimaryMachines - 1
           /\ numBackups < TotPrimaryMachines /\ r # s => ReplicaMn(k, r) # ReplicaMn(k, s)
  BY DEF ReplicasApart
<1>1. ReplicaMn(k, r) \in 0 .. TotPrimaryMachines - 1
  BY ReplicaOnRing
<1>2. ASSUME numBackups < TotPrimaryMachines, r # s
      PROVE  ReplicaMn(k, r) # ReplicaMn(k, s)
  <2>1. /\ PrimaryMn(k) \in Nat /\ TotPrimaryMachines \in Nat
        /\ r \in Nat /\ s \in Nat /\ r < TotPrimaryMachines /\ s < TotPrimaryMachines
        /\ PrimaryMn(k) < TotPrimaryMachines
    BY <1>2, PrimaryInRange, StartupAssumption DEF Config, Replicas, TotPrimaryMachines
  <2> QED  BY <1>2, <2>1, ReplicaOnRing, RingDistinct
<1> QED  BY <1>1, <1>2

-----------------------------------------------------------------------------
(* A step leaves the configuration alone, and with it the placement.       *)

SamePlaces ==
  /\ Config' <=> Config
  /\ Machines' = Machines
  /\ Workers' = Workers
  /\ Replicas' = Replicas
  /\ TotPrimaryMachines' = TotPrimaryMachines
  /\ \A w : AmILockServer(w)' <=> AmILockServer(w)
  /\ \A m : Partition(m)' = Partition(m)
  /\ \A w, k, r : ShouldPopulate(w, k, r)' <=> ShouldPopulate(w, k, r)

\* Nothing in the placement depends on anything but the configuration.
LEMMA ConfigFixes ==
  ASSUME UNCHANGED config
  PROVE  SamePlaces /\ UNCHANGED <<numMachines, workersPerMachine, numBackups, useLockServer>>
<1>1. UNCHANGED <<numMachines, workersPerMachine, numBackups, useLockServer>>
  BY DEF config
<1>2. /\ Config' <=> Config
      /\ Machines' = Machines
      /\ Workers' = Workers
      /\ Replicas' = Replicas
      /\ TotPrimaryMachines' = TotPrimaryMachines
      /\ \A w : AmILockServer(w)' <=> AmILockServer(w)
  BY <1>1 DEF AmILockServer, Config, Machines, Workers, Replicas, TotPrimaryMachines
<1>3. \A k, r : ReplicaMn(k, r)' = ReplicaMn(k, r)
  BY <1>2 DEF ReplicaMn, PrimaryMn, BackupMnFromPrimary
<1>4. \A m : Partition(m)' = Partition(m)
  BY <1>2, <1>3 DEF Partition
<1>5. \A w, k, r : ShouldPopulate(w, k, r)' <=> ShouldPopulate(w, k, r)
  BY <1>1, <1>3 DEF ShouldPopulate
<1> QED  BY <1>1, <1>2, <1>4, <1>5 DEF SamePlaces

\* What a worker and its machine are.
LEMMA WorkerParts ==
  ASSUME Config, NEW w \in Workers
  PROVE  /\ w[1] \in Machines /\ w[2] \in 0 .. workersPerMachine - 1
         /\ w = <<w[1], w[2]>>
         /\ numMachines \in Nat /\ workersPerMachine \in Nat
         /\ ~AmILockServer(w) => w[1] \in 0 .. TotPrimaryMachines - 1
<1>1. w[1] \in Machines /\ w[2] \in 0 .. workersPerMachine - 1 /\ w = <<w[1], w[2]>>
  BY DEF Workers
<1>2. numMachines \in Nat /\ workersPerMachine \in Nat
  BY StartupAssumption DEF Config
<1>3. ~AmILockServer(w) => w[1] \in 0 .. TotPrimaryMachines - 1
  BY <1>1, <1>2 DEF AmILockServer, TotPrimaryMachines, Machines
<1> QED  BY <1>1, <1>2, <1>3

\* The machine of the lock server has no partition.
LEMMA LockServerHoldsNone ==
  ASSUME Config, NEW w \in Workers, AmILockServer(w)
  PROVE  Partition(w[1]) = {}
<1>1. \A x \in Keys \X Replicas : ReplicaMn(x[1], x[2]) \in 0 .. TotPrimaryMachines - 1
  BY ReplicaOnRing
<1>2. w[1] = TotPrimaryMachines /\ TotPrimaryMachines \in Int
  BY WorkerParts DEF AmILockServer, TotPrimaryMachines, Machines
<1>3. \A x \in Keys \X Replicas : ReplicaMn(x[1], x[2]) # w[1]
  BY <1>1, <1>2
<1> QED  BY <1>3 DEF Partition

\* A set of thread ids has at most as many members as there are threads, and as
\* many only if it has all of them.
LEMMA CountThreads ==
  ASSUME NEW n \in Nat, NEW S, S \subseteq 0 .. n - 1
  PROVE  /\ IsFiniteSet(S)
         /\ Cardinality(S) \in 0 .. n
         /\ Cardinality(S) = n => S = 0 .. n - 1
<1>1. /\ IsFiniteSet(0 .. n - 1)
      /\ Cardinality(0 .. n - 1) = n
  BY FS_Interval
<1>2. /\ IsFiniteSet(S) /\ Cardinality(S) <= n
      /\ Cardinality(S) = n => S = 0 .. n - 1
  BY <1>1, FS_Subset
<1>3. Cardinality(S) \in Nat
  BY <1>2, FS_CardinalityType
<1> QED  BY <1>2, <1>3

-----------------------------------------------------------------------------
(* The steps.                                                              *)

\* Nobody is at work yet.
LEMMA InitInvariant == Init => IInv
<1> SUFFICES ASSUME Init PROVE IInv
  OBVIOUS
<1>0. Config
  BY DEF Init
<1>1. numMachines \in Nat /\ workersPerMachine \in Nat /\ TotPrimaryMachines \in Int
      /\ TotPrimaryMachines <= numMachines
  BY <1>0, StartupAssumption DEF Config, TotPrimaryMachines
<1>2. TypeOK
  BY <1>1 DEF Init, TypeOK, Steps
<1>3. Counted
  <2>1. ASSUME NEW m \in 0 .. TotPrimaryMachines - 1
        PROVE  barrier[m] = Cardinality(Arrived(m))
    <3>1. \A l \in 0 .. workersPerMachine - 1 :
            <<m, l>> \in Workers /\ ~AmILockServer(<<m, l>>)
      BY <1>1 DEF Workers, Machines, AmILockServer, TotPrimaryMachines
    <3>2. \A l \in 0 .. workersPerMachine - 1 : pc[<<m, l>>] = "populate"
      BY <3>1 DEF Init
    <3>3. Arrived(m) = {}
      BY <3>2 DEF Arrived
    <3>4. barrier[m] = 0
      BY <1>1 DEF Init, Machines
    <3> QED  BY <3>3, <3>4, FS_EmptySet
  <2>2. ASSUME NEW w \in Workers, ~At(w, "populate")
        PROVE  Missing(w) = {}
    <3>1. AmILockServer(w)
      BY <2>2 DEF Init, At
    <3>2. Partition(w[1]) = {}
      BY <1>0, <3>1, LockServerHoldsNone
    <3> QED  BY <3>2 DEF Missing, Partition, ShouldPopulate
  <2>3. \A w \in Workers : pc[w] \in {"populate", "barrier"} => ~AmILockServer(w)
    BY DEF Init
  <2> QED  BY <2>1, <2>2, <2>3 DEF Counted
<1>4. Populated
  <2> SUFFICES ASSUME NEW w \in Workers, pc[w] # "populate"
      PROVE  Partition(w[1]) \subseteq table[w[1]]
    BY DEF Populated
  <2>1. AmILockServer(w)
    BY DEF Init
  <2> QED  BY <1>0, <2>1, LockServerHoldsNone
<1>5. Published
  BY DEF Init, Published
<1>6. Resolved
  <2>1. \A w \in Workers : resolved[w] = 0 /\ asked[w] = {} /\ ~At(w, "run")
    BY DEF Init, At
  <2> QED  BY <2>1 DEF Resolved
<1> QED  BY <1>2, <1>3, <1>4, <1>5, <1>6 DEF IInv

\* A step away from the population leaves its accounts alone.
LEMMA CountedKept ==
  ASSUME TypeOK, Counted, UNCHANGED config, UNCHANGED <<table, barrier>>,
         \A w \in Workers :
           /\ pc'[w] = "populate" <=> pc[w] = "populate"
           /\ pc'[w] = "barrier" => pc[w] = "barrier"
  PROVE  Counted'
<1>0. SamePlaces /\ UNCHANGED workersPerMachine
  BY ConfigFixes
<1>1. ASSUME NEW m \in 0 .. TotPrimaryMachines - 1
      PROVE  barrier'[m] = Cardinality(Arrived(m)')
  <2>1. \A l \in 0 .. workersPerMachine - 1 : <<m, l>> \in Workers
    BY StartupAssumption DEF Workers, Machines, TotPrimaryMachines, TypeOK, Config
  <2>2. Arrived(m)' = Arrived(m)
    BY <1>0, <2>1 DEF Arrived
  <2> QED  BY <2>2 DEF Counted
<1>2. ASSUME NEW w \in Workers, pc'[w] # "populate"
      PROVE  Missing(w)' = {}
  <2>1. Missing(w) = {}
    BY <1>2 DEF Counted, At
  <2> QED  BY <1>0, <2>1 DEF Missing, SamePlaces
<1>3. \A w \in Workers : pc'[w] \in {"populate", "barrier"} => ~AmILockServer(w)
  BY DEF Counted
<1> QED  BY <1>0, <1>1, <1>2, <1>3 DEF Counted, SamePlaces, At

\* A step that moves no worker past the barrier, and takes nothing from a table.
LEMMA PopulatedKept ==
  ASSUME TypeOK, Populated, UNCHANGED config,
         \A m \in Machines : table[m] \subseteq table'[m],
         \A w \in Workers : pc'[w] \notin {"populate", "barrier"}
                              => pc[w] \notin {"populate", "barrier"}
  PROVE  Populated'
<1>0. SamePlaces
  BY ConfigFixes
<1>1. \A w \in Workers : w[1] \in Machines
  BY DEF Workers
<1> QED  BY <1>0, <1>1 DEF Populated, SamePlaces

\* A step that neither takes an endpoint back nor moves a worker to one.
LEMMA PublishedKept ==
  ASSUME TypeOK, Published, UNCHANGED config, UNCHANGED <<filled, registry>>,
         \A w \in Workers :
           \/ pc'[w] = pc[w]
           \/ pc'[w] \notin {"publish", "resolve", "run"} /\ w \notin registry
           \/ pc'[w] = "run" /\ pc[w] = "resolve"
  PROVE  Published'
<1>0. SamePlaces
  BY ConfigFixes
<1>1. registry \subseteq Workers
  BY DEF TypeOK
<1> QED  BY <1>0, <1>1 DEF Published, SamePlaces

\* A step that asks nothing, stops nobody and starts nobody.
LEMMA ResolvedKept ==
  ASSUME TypeOK, Resolved, UNCHANGED config, UNCHANGED <<resolved, asked>>,
         registry \subseteq registry',
         \A w \in Workers : pc'[w] = "run" <=> pc[w] = "run"
  PROVE  Resolved'
<1>0. SamePlaces /\ UNCHANGED numMachines
  BY ConfigFixes
<1> QED  BY <1>0 DEF Resolved, SamePlaces, At

\* Insert: a table gains a replica, and nothing else changes.
LEMMA InsertStep ==
  ASSUME IInv, NEW w \in Workers, NEW x, Insert(w, x)
  PROVE  IInv'
<1>0. TypeOK /\ Config /\ SamePlaces /\ UNCHANGED <<config, numMachines, workersPerMachine>>
  BY ConfigFixes DEF IInv, TypeOK, Insert
<1>1. /\ UNCHANGED <<barrier, pc, filled, registry, resolved, asked>>
      /\ \A m \in Machines : table[m] \subseteq table'[m]
      /\ table' \in [Machines -> SUBSET (Keys \X Replicas)]
  <2>1. w[1] \in Machines /\ x \in Keys \X Replicas
    BY <1>0, WorkerParts DEF Insert, Missing
  <2> QED  BY <2>1, <1>0 DEF Insert, TypeOK
<1>2. TypeOK'
  BY <1>0, <1>1 DEF TypeOK, SamePlaces
<1>3. Counted'
  <2>1. \A m : Arrived(m)' = Arrived(m)
    BY <1>0, <1>1 DEF Arrived
  <2>2. \A v \in Workers : v[1] \in Machines
    BY <1>0, WorkerParts
  <2>3. \A v \in Workers : Missing(v)' \subseteq Missing(v)
    BY <1>0, <1>1, <2>2 DEF Missing, SamePlaces
  <2> QED  BY <1>0, <1>1, <2>1, <2>3 DEF IInv, Counted, SamePlaces, At
<1>4. Populated'
  BY <1>0, <1>1, PopulatedKept DEF IInv
<1>5. Published'
  <2>5. \A v \in Workers :
          \/ pc'[v] = pc[v]
          \/ pc'[v] \notin {"publish", "resolve", "run"} /\ v \notin registry
          \/ pc'[v] = "run" /\ pc[v] = "resolve"
    BY <1>1
  <2> QED  BY <1>0, <1>1, <2>5, PublishedKept DEF IInv
<1>6. Resolved'
  BY <1>0, <1>1, ResolvedKept DEF IInv
<1> QED  BY <1>2, <1>3, <1>4, <1>5, <1>6 DEF IInv

\* Arrive: the count goes up by one with the number of arrivals.
LEMMA ArriveStep ==
  ASSUME IInv, NEW w \in Workers, Arrive(w)
  PROVE  IInv'
<1>0. TypeOK /\ Config /\ SamePlaces /\ UNCHANGED <<config, numMachines, workersPerMachine>>
  BY ConfigFixes DEF IInv, TypeOK, Arrive
<1>1. /\ UNCHANGED <<table, filled, registry, resolved, asked>>
      /\ pc[w] = "populate"
      /\ pc' = [pc EXCEPT ![w] = "barrier"]
      /\ barrier' = [barrier EXCEPT ![w[1]] = barrier[w[1]] + 1]
      /\ Missing(w) = {}
  BY DEF Arrive, At, Goto
<1>2. /\ \A v \in Workers : pc'[v] = IF v = w THEN "barrier" ELSE pc[v]
      /\ pc' \in [Workers -> Steps]
  BY <1>0, <1>1 DEF TypeOK, Steps
<1>3. /\ w[1] \in 0 .. TotPrimaryMachines - 1 /\ w[1] \in Machines
      /\ w[2] \in 0 .. workersPerMachine - 1 /\ w = <<w[1], w[2]>>
  BY <1>0, <1>1, WorkerParts DEF IInv, Counted
<1>4. ASSUME NEW m \in 0 .. TotPrimaryMachines - 1
      PROVE  barrier'[m] = Cardinality(Arrived(m)')
  <2>0. m \in Machines /\ barrier[m] = Cardinality(Arrived(m))
    BY <1>0, StartupAssumption DEF Machines, TotPrimaryMachines, IInv, Counted, Config
  <2>1. \A l \in 0 .. workersPerMachine - 1 : <<m, l>> \in Workers
    BY <2>0 DEF Workers
  <2>2. CASE m = w[1]
    <3>1. Arrived(m)' = Arrived(m) \cup {w[2]}
      BY <1>0, <1>2, <1>3, <2>1, <2>2 DEF Arrived
    <3>2. w[2] \notin Arrived(m)
      BY <1>1, <1>3, <2>2 DEF Arrived
    <3>3. IsFiniteSet(Arrived(m))
      BY <1>0, WorkerParts, CountThreads DEF Arrived
    <3>4. Cardinality(Arrived(m)') = Cardinality(Arrived(m)) + 1
      BY <3>1, <3>2, <3>3, FS_AddElement
    <3>5. barrier'[m] = barrier[m] + 1
      BY <1>0, <1>1, <2>0, <2>2 DEF TypeOK
    <3> QED  BY <2>0, <3>4, <3>5
  <2>3. CASE m # w[1]
    <3>1. Arrived(m)' = Arrived(m)
      BY <1>0, <1>2, <1>3, <2>1, <2>3 DEF Arrived
    <3>2. barrier'[m] = barrier[m]
      BY <1>0, <1>1, <2>0, <2>3 DEF TypeOK
    <3> QED  BY <2>0, <3>1, <3>2
  <2> QED  BY <2>2, <2>3
<1>5. Counted'
  <2>1. \A v \in Workers : pc'[v] # "populate" => Missing(v)' = {}
    <3>1. \A v : Missing(v)' = Missing(v)
      BY <1>0, <1>1 DEF Missing, SamePlaces
    <3> QED  BY <1>1, <1>2, <3>1 DEF IInv, Counted, At
  <2>2. \A v \in Workers : pc'[v] \in {"populate", "barrier"} => ~AmILockServer(v)
    BY <1>1, <1>2 DEF IInv, Counted
  <2> QED  BY <1>0, <1>4, <2>1, <2>2 DEF Counted, SamePlaces, At
<1>6. TypeOK'
  <2>1. workersPerMachine \in Nat /\ Arrived(w[1])' \subseteq 0 .. workersPerMachine - 1
    BY <1>0, WorkerParts DEF Arrived
  <2>2. barrier'[w[1]] \in 0 .. workersPerMachine
    BY <1>3, <1>4, <2>1, CountThreads
  <2>3. barrier' \in [Machines -> 0 .. workersPerMachine]
    BY <1>0, <1>1, <1>3, <2>2 DEF TypeOK
  <2> QED  BY <1>0, <1>1, <1>2, <2>3 DEF TypeOK, SamePlaces
<1>7. Populated'
  BY <1>0, <1>1, <1>2, PopulatedKept DEF IInv
<1>8. Published'
  <2>1. w \notin registry
    BY <1>1 DEF IInv, Published
  <2>5. \A v \in Workers :
          \/ pc'[v] = pc[v]
          \/ pc'[v] \notin {"publish", "resolve", "run"} /\ v \notin registry
          \/ pc'[v] = "run" /\ pc[v] = "resolve"
    BY <1>2, <2>1
  <2> QED  BY <1>0, <1>1, <2>5, PublishedKept DEF IInv
<1>9. Resolved'
  BY <1>0, <1>1, <1>2, ResolvedKept DEF IInv
<1> QED  BY <1>5, <1>6, <1>7, <1>8, <1>9 DEF IInv

\* Cross: every thread of the machine has arrived, so its partition is populated.
LEMMA CrossStep ==
  ASSUME IInv, NEW w \in Workers, Cross(w)
  PROVE  IInv'
<1>0. TypeOK /\ Config /\ SamePlaces /\ UNCHANGED <<config, numMachines, workersPerMachine>>
  BY ConfigFixes DEF IInv, TypeOK, Cross
<1>1. /\ UNCHANGED <<table, barrier, filled, registry, resolved, asked>>
      /\ pc[w] = "barrier"
      /\ pc' = [pc EXCEPT ![w] = "fill"]
      /\ barrier[w[1]] = workersPerMachine
  BY DEF Cross, At, Goto
<1>2. /\ \A v \in Workers : pc'[v] = IF v = w THEN "fill" ELSE pc[v]
      /\ pc' \in [Workers -> Steps]
  BY <1>0, <1>1 DEF TypeOK, Steps
<1>3. TypeOK'
  BY <1>0, <1>1, <1>2 DEF TypeOK, SamePlaces
<1>4. Counted'
  BY <1>0, <1>1, <1>2, CountedKept DEF IInv
<1>5. Partition(w[1]) \subseteq table[w[1]]
  <2>1. w[1] \in 0 .. TotPrimaryMachines - 1 /\ w[1] \in Machines
    BY <1>0, <1>1, WorkerParts DEF IInv, Counted
  <2>2. workersPerMachine \in Nat /\ Arrived(w[1]) \subseteq 0 .. workersPerMachine - 1
    BY <1>0, WorkerParts DEF Arrived
  <2>3. Arrived(w[1]) = 0 .. workersPerMachine - 1
    BY <1>1, <2>1, <2>2, CountThreads DEF IInv, Counted
  <2>4. SUFFICES ASSUME NEW k \in Keys, NEW r \in Replicas, ReplicaMn(k, r) = w[1]
        PROVE  <<k, r>> \in table[w[1]]
    BY DEF Partition
  <2>5. k % workersPerMachine \in 0 .. workersPerMachine - 1
    <3>1. workersPerMachine \in Nat /\ workersPerMachine >= 1 /\ k \in Nat
      BY <1>0, StartupAssumption DEF Config
    <3> QED  BY <3>1
  <2> DEFINE v == <<w[1], k % workersPerMachine>>
  <2>6. v \in Workers /\ pc[v] # "populate"
    BY <2>1, <2>3, <2>5 DEF Workers, Arrived
  <2>7. Missing(v) = {}
    BY <2>6 DEF IInv, Counted, At
  <2>8. ShouldPopulate(v, k, r) /\ v[1] = w[1]
    BY <2>4 DEF ShouldPopulate
  <2> HIDE DEF v
  <2> QED  BY <2>7, <2>8 DEF Missing
<1>6. Populated'
  <2>1. \A v \in Workers : pc'[v] \notin {"populate", "barrier"} => Partition(v[1]) \subseteq table[v[1]]
    BY <1>2, <1>5 DEF IInv, Populated
  <2> QED  BY <1>0, <1>1, <2>1 DEF Populated, SamePlaces
<1>7. Published'
  <2>1. w \notin registry
    BY <1>1 DEF IInv, Published
  <2>5. \A v \in Workers :
          \/ pc'[v] = pc[v]
          \/ pc'[v] \notin {"publish", "resolve", "run"} /\ v \notin registry
          \/ pc'[v] = "run" /\ pc[v] = "resolve"
    BY <1>2, <2>1
  <2> QED  BY <1>0, <1>1, <2>5, PublishedKept DEF IInv
<1>8. Resolved'
  BY <1>0, <1>1, <1>2, ResolvedKept DEF IInv
<1> QED  BY <1>3, <1>4, <1>6, <1>7, <1>8 DEF IInv

\* FillRecvs: the RECVs come first.
LEMMA FillRecvsStep ==
  ASSUME IInv, NEW w \in Workers, FillRecvs(w)
  PROVE  IInv'
<1>0. TypeOK /\ Config /\ SamePlaces /\ UNCHANGED <<config, numMachines, workersPerMachine>>
  BY ConfigFixes DEF IInv, TypeOK, FillRecvs
<1>1. /\ UNCHANGED <<table, barrier, registry, resolved, asked>>
      /\ pc[w] = "fill"
      /\ pc' = [pc EXCEPT ![w] = "publish"]
      /\ filled' = filled \cup {w}
  BY DEF FillRecvs, At, Goto
<1>2. /\ \A v \in Workers : pc'[v] = IF v = w THEN "publish" ELSE pc[v]
      /\ pc' \in [Workers -> Steps]
  BY <1>0, <1>1 DEF TypeOK, Steps
<1>3. TypeOK'
  BY <1>0, <1>1, <1>2 DEF TypeOK, SamePlaces
<1>4. Counted'
  BY <1>0, <1>1, <1>2, CountedKept DEF IInv
<1>5. Populated'
  BY <1>0, <1>1, <1>2, PopulatedKept DEF IInv
<1>6. Published'
  <2>1. w \notin registry
    BY <1>1 DEF IInv, Published
  <2> QED  BY <1>0, <1>1, <1>2, <2>1 DEF IInv, Published, SamePlaces, TypeOK
<1>7. Resolved'
  BY <1>0, <1>1, <1>2, ResolvedKept DEF IInv
<1> QED  BY <1>3, <1>4, <1>5, <1>6, <1>7 DEF IInv

\* Publish: what is published has its RECVs and is behind the barrier.
LEMMA PublishStep ==
  ASSUME IInv, NEW w \in Workers, Publish(w)
  PROVE  IInv'
<1>0. TypeOK /\ Config /\ SamePlaces /\ UNCHANGED <<config, numMachines, workersPerMachine>>
  BY ConfigFixes DEF IInv, TypeOK, Publish
<1>1. /\ UNCHANGED <<table, barrier, filled, resolved, asked>>
      /\ pc[w] = "publish"
      /\ pc' = [pc EXCEPT ![w] = "resolve"]
      /\ registry' = registry \cup {w}
  BY DEF Publish, At, Goto
<1>2. /\ \A v \in Workers : pc'[v] = IF v = w THEN "resolve" ELSE pc[v]
      /\ pc' \in [Workers -> Steps]
  BY <1>0, <1>1 DEF TypeOK, Steps
<1>3. TypeOK'
  BY <1>0, <1>1, <1>2 DEF TypeOK, SamePlaces
<1>4. Counted'
  BY <1>0, <1>1, <1>2, CountedKept DEF IInv
<1>5. Populated'
  BY <1>0, <1>1, <1>2, PopulatedKept DEF IInv
<1>6. Published'
  BY <1>0, <1>1, <1>2 DEF IInv, Published, SamePlaces, TypeOK
<1>7. Resolved'
  BY <1>0, <1>1, <1>2, ResolvedKept DEF IInv
<1> QED  BY <1>3, <1>4, <1>5, <1>6, <1>7 DEF IInv

\* Run: all the peers are known.
LEMMA RunStep ==
  ASSUME IInv, NEW w \in Workers, Run(w)
  PROVE  IInv'
<1>0. TypeOK /\ Config /\ SamePlaces /\ UNCHANGED <<config, numMachines, workersPerMachine>>
  BY ConfigFixes DEF IInv, TypeOK, Run
<1>1. /\ UNCHANGED <<table, barrier, filled, registry, resolved, asked>>
      /\ pc[w] = "resolve"
      /\ pc' = [pc EXCEPT ![w] = "run"]
      /\ resolved[w] = numMachines
  BY DEF Run, At, Goto
<1>2. /\ \A v \in Workers : pc'[v] = IF v = w THEN "run" ELSE pc[v]
      /\ pc' \in [Workers -> Steps]
  BY <1>0, <1>1 DEF TypeOK, Steps
<1>3. TypeOK'
  BY <1>0, <1>1, <1>2 DEF TypeOK, SamePlaces
<1>4. Counted'
  BY <1>0, <1>1, <1>2, CountedKept DEF IInv
<1>5. Populated'
  BY <1>0, <1>1, <1>2, PopulatedKept DEF IInv
<1>6. Published'
  <2>5. \A v \in Workers :
          \/ pc'[v] = pc[v]
          \/ pc'[v] \notin {"publish", "resolve", "run"} /\ v \notin registry
          \/ pc'[v] = "run" /\ pc[v] = "resolve"
    BY <1>1, <1>2
  <2> QED  BY <1>0, <1>1, <2>5, PublishedKept DEF IInv
<1>7. Resolved'
  BY <1>0, <1>1, <1>2 DEF IInv, Resolved, SamePlaces, At
<1> QED  BY <1>3, <1>4, <1>5, <1>6, <1>7 DEF IInv

\* Resolve: one more peer is known to be published.
LEMMA ResolveStep ==
  ASSUME IInv, NEW w \in Workers, Resolve(w)
  PROVE  IInv'
<1>0. TypeOK /\ Config /\ SamePlaces /\ UNCHANGED <<config, numMachines, workersPerMachine>>
  BY ConfigFixes DEF IInv, TypeOK, Resolve
<1>1. /\ UNCHANGED <<table, barrier, pc, filled, registry, asked>>
      /\ resolved[w] < numMachines
      /\ <<resolved[w], w[2]>> \in registry
      /\ pc[w] = "resolve"
      /\ resolved' = [resolved EXCEPT ![w] = resolved[w] + 1]
  BY DEF Resolve, At
<1>2. TypeOK'
  <2>1. numMachines \in Nat /\ resolved[w] \in 0 .. numMachines
    BY <1>0, WorkerParts DEF TypeOK
  <2>2. resolved' \in [Workers -> 0 .. numMachines]
    BY <1>0, <1>1, <2>1 DEF TypeOK
  <2> QED  BY <1>0, <1>1, <2>2 DEF TypeOK, SamePlaces
<1>3. Resolved'
  <2>1. ASSUME NEW v \in Workers, NEW n \in 0 .. resolved'[v] - 1
        PROVE  <<n, v[2]>> \in registry
    <3>1. CASE v = w
      <4>1. resolved'[w] = resolved[w] + 1 /\ resolved[w] \in Int
        BY <1>0, <1>1, WorkerParts DEF TypeOK
      <4>2. n = resolved[w] \/ n \in 0 .. resolved[w] - 1
        BY <3>1, <4>1
      <4> QED  BY <1>1, <3>1, <4>2 DEF IInv, Resolved
    <3>2. CASE v # w
      <4>1. resolved'[v] = resolved[v]
        BY <1>0, <1>1, <3>2 DEF TypeOK
      <4> QED  BY <4>1 DEF IInv, Resolved
    <3> QED  BY <3>1, <3>2
  <2>2. \A v \in Workers : pc[v] = "run" => resolved'[v] = numMachines
    BY <1>0, <1>1 DEF IInv, Resolved, At, TypeOK
  <2> QED  BY <1>0, <1>1, <2>1, <2>2 DEF IInv, Resolved, SamePlaces, At
<1>4. Counted'
  BY <1>0, <1>1, CountedKept DEF IInv
<1>5. Populated'
  BY <1>0, <1>1, PopulatedKept DEF IInv
<1>6. Published'
  <2>1. \A v \in Workers : pc'[v] = pc[v]
    BY <1>1
  <2> QED  BY <1>0, <1>1, <2>1, PublishedKept DEF IInv
<1> QED  BY <1>2, <1>3, <1>4, <1>5, <1>6 DEF IInv

\* Send: the sender runs, and knows where the replica belongs.
LEMMA SendStep ==
  ASSUME IInv, NEW w \in Workers, NEW m \in Machines, NEW want \in SUBSET Partition(m),
         Send(w, m, want)
  PROVE  IInv'
<1>0. TypeOK /\ Config /\ SamePlaces /\ UNCHANGED <<config, numMachines, workersPerMachine>>
  BY ConfigFixes DEF IInv, TypeOK, Send
<1>1. /\ UNCHANGED <<table, barrier, pc, filled, registry, resolved>>
      /\ pc[w] = "run"
      /\ asked' = [asked EXCEPT ![w] = {[mn |-> m, want |-> want]}]
  BY DEF Send, At
<1>2. TypeOK'
  <2>1. want \subseteq Keys \X Replicas
    BY DEF Partition
  <2>2. asked' \in [Workers -> SUBSET [mn : Machines, want : SUBSET (Keys \X Replicas)]]
    BY <1>0, <1>1, <2>1 DEF TypeOK
  <2> QED  BY <1>0, <1>1, <2>2 DEF TypeOK, SamePlaces
<1>3. Resolved'
  <2>1. ASSUME NEW v \in Workers, NEW q \in asked'[v]
        PROVE  pc[v] = "run" /\ q.want \subseteq Partition(q.mn)
    <3>1. CASE v = w
      BY <1>0, <1>1, <2>1, <3>1 DEF TypeOK
    <3>2. CASE v # w
      BY <1>0, <1>1, <2>1, <3>2 DEF TypeOK, IInv, Resolved, At
    <3> QED  BY <3>1, <3>2
  <2> QED  BY <1>0, <1>1, <2>1 DEF IInv, Resolved, SamePlaces, At
<1>4. Counted'
  BY <1>0, <1>1, CountedKept DEF IInv
<1>5. Populated'
  BY <1>0, <1>1, PopulatedKept DEF IInv
<1>6. Published'
  <2>1. \A v \in Workers : pc'[v] = pc[v]
    BY <1>1
  <2> QED  BY <1>0, <1>1, <2>1, PublishedKept DEF IInv
<1> QED  BY <1>2, <1>3, <1>4, <1>5, <1>6 DEF IInv

\* Serve: one request fewer is on its way.
LEMMA ServeStep ==
  ASSUME IInv, NEW w \in Workers, NEW u \in Workers, Serve(w, u)
  PROVE  IInv'
<1>0. TypeOK /\ Config /\ SamePlaces /\ UNCHANGED <<config, numMachines, workersPerMachine>>
  BY ConfigFixes DEF IInv, TypeOK, Serve
<1>1. /\ UNCHANGED <<table, barrier, pc, filled, registry, resolved>>
      /\ asked' = [asked EXCEPT ![u] = {}]
  BY DEF Serve, At
<1>2. TypeOK'
  BY <1>0, <1>1 DEF TypeOK, SamePlaces
<1>3. Resolved'
  <2>1. \A v \in Workers : asked'[v] \subseteq asked[v]
    BY <1>0, <1>1 DEF TypeOK
  <2> QED  BY <1>0, <1>1, <2>1 DEF IInv, Resolved, SamePlaces, At
<1>4. Counted'
  BY <1>0, <1>1, CountedKept DEF IInv
<1>5. Populated'
  BY <1>0, <1>1, PopulatedKept DEF IInv
<1>6. Published'
  <2>1. \A v \in Workers : pc'[v] = pc[v]
    BY <1>1
  <2> QED  BY <1>0, <1>1, <2>1, PublishedKept DEF IInv
<1> QED  BY <1>2, <1>3, <1>4, <1>5, <1>6 DEF IInv

-----------------------------------------------------------------------------
(* Theorems.                                                               *)

\* Every step keeps the inductive invariant.
LEMMA NextInvariant == IInv /\ [Next]_vars => IInv'
<1> SUFFICES ASSUME IInv, [Next]_vars PROVE IInv'
  OBVIOUS
<1>1. ASSUME NEW w \in Workers, Step(w) PROVE IInv'
  BY <1>1, InsertStep, ArriveStep, CrossStep, FillRecvsStep, PublishStep, ResolveStep, RunStep
     DEF Step, Populate, Create
<1>2. ASSUME NEW w \in Workers, SendAny(w) PROVE IInv'
  <2>0. Config
    BY DEF IInv, TypeOK
  <2>1. ASSUME NEW k \in Keys, NEW r \in Replicas, Send(w, ReplicaMn(k, r), {<<k, r>>})
        PROVE  IInv'
    <3>1. ReplicaMn(k, r) \in Machines
      BY <2>0, ReplicaOnRing, WorkerParts DEF Machines, TotPrimaryMachines
    <3>2. {<<k, r>>} \in SUBSET Partition(ReplicaMn(k, r))
      BY DEF Partition
    <3> QED  BY <2>1, <3>1, <3>2, SendStep
  <2>2. ASSUME NEW m \in OtherMns(w), Send(w, m, {})
        PROVE  IInv'
    <3>1. /\ numMachines \in Nat /\ numBackups \in Nat /\ numBackups + 1 <= numMachines
          /\ TotPrimaryMachines \in Nat /\ TotPrimaryMachines <= numMachines
          /\ numMachines - 1 <= TotPrimaryMachines
      BY <2>0, StartupAssumption DEF Config, TotPrimaryMachines
    <3>2. w[1] \in 0 .. TotPrimaryMachines - 1
      BY <2>0, <2>2, WorkerParts DEF Send
    <3>3. ASSUME NEW i \in 0 .. numBackups - 1
          PROVE  BackupMnFromPrimary(w[1], i) \in Machines
      BY <3>1, <3>2 DEF BackupMnFromPrimary, Machines
    <3>4. useLockServer => TotPrimaryMachines \in Machines
      BY <3>1 DEF TotPrimaryMachines, Machines
    <3>5. m \in Machines
      BY <3>3, <3>4 DEF OtherMns
    <3> QED  BY <2>2, <3>5, SendStep
  <2> QED  BY <1>2, <2>1, <2>2 DEF SendAny
<1>3. ASSUME NEW w \in Workers, NEW v \in Workers, Serve(w, v) PROVE IInv'
  BY <1>3, ServeStep
<1>4. CASE UNCHANGED vars
  <2>1. UNCHANGED <<config, table, barrier, pc, filled, registry, resolved, asked>>
    BY <1>4 DEF vars
  <2>2. TypeOK /\ SamePlaces /\ UNCHANGED <<numMachines, workersPerMachine>>
    BY <2>1, ConfigFixes DEF IInv
  <2>3. TypeOK'
    BY <2>1, <2>2 DEF TypeOK, SamePlaces
  <2>4. Counted' /\ Populated' /\ Resolved'
    BY <2>1, <2>2, CountedKept, PopulatedKept, ResolvedKept DEF IInv
  <2>5. Published'
    BY <2>1, <2>2, PublishedKept DEF IInv
  <2> QED  BY <2>3, <2>4, <2>5 DEF IInv
<1> QED  BY <1>1, <1>2, <1>3, <1>4 DEF Next

\* The inductive invariant holds throughout the start of any swarm.
THEOREM StartupInvariant == Spec => []IInv
BY InitInvariant, NextInvariant, PTL DEF Spec

\* The types of the start-up; no worker looks up a machine that is not there.
THEOREM StartupTypes == Spec => []TypeOK
<1>1. IInv => TypeOK
  BY DEF IInv
<1> QED  BY <1>1, StartupInvariant, PTL

\* When a request is under way, its receiver is published, behind the barrier.
LEMMA PeerIsPublished ==
  ASSUME IInv, NEW w \in Workers, NEW q \in asked[w]
  PROVE  /\ <<q.mn, w[2]>> \in Workers
         /\ pc[<<q.mn, w[2]>>] \in {"resolve", "run"}
<1>1. /\ TypeOK /\ Config /\ numMachines \in Nat
      /\ q.mn \in Machines
  BY WorkerParts DEF IInv, TypeOK
<1>2. resolved[w] = numMachines
  BY DEF IInv, Resolved
<1>3. <<q.mn, w[2]>> \in registry
  BY <1>1, <1>2 DEF IInv, Resolved, Machines
<1> QED  BY <1>1, <1>3 DEF IInv, Published, TypeOK

\* The barrier of populate_all_tables_barrier() keeps its promise: no request of
\* any worker misses a key that another thread has still to insert.
THEOREM PopulatedBeforeAsked == Spec => []RequestsFindKeys
<1>1. IInv => RequestsFindKeys
  <2> SUFFICES ASSUME IInv, NEW w \in Workers, NEW q \in asked[w]
      PROVE  q.want \subseteq table[q.mn]
    BY DEF RequestsFindKeys
  <2> DEFINE p == <<q.mn, w[2]>>
  <2>1. p \in Workers /\ pc[p] \in {"resolve", "run"} /\ p[1] = q.mn
    BY PeerIsPublished
  <2> HIDE DEF p
  <2>2. Partition(q.mn) \subseteq table[q.mn]
    BY <2>1 DEF IInv, Populated
  <2>3. q.want \subseteq Partition(q.mn)
    BY DEF IInv, Resolved
  <2> QED  BY <2>2, <2>3
<1> QED  BY <1>1, StartupInvariant, PTL

\* The order of the constructor of Rpc keeps the first requests: "Fill RECVs before
\* publishing".
THEOREM RecvsBeforeAsked == Spec => []RequestsMeetRecvs
<1>1. IInv => RequestsMeetRecvs
  <2> SUFFICES ASSUME IInv, NEW w \in Workers, NEW q \in asked[w]
      PROVE  <<q.mn, w[2]>> \in filled
    BY DEF RequestsMeetRecvs
  <2> QED  BY PeerIsPublished DEF IInv, Published
<1> QED  BY <1>1, StartupInvariant, PTL

\* The arithmetic of Mappings: replicas are on machines with data, and apart if there
\* are more such machines than backups.
THEOREM PlacementApart == Spec => []ReplicasApart
<1>1. IInv => ReplicasApart
  BY ConfigApart DEF IInv, TypeOK
<1> QED  BY <1>1, StartupInvariant, PTL
=============================================================================
