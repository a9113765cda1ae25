-------------------------- MODULE LockserverProofs --------------------------
(***************************************************************************)
(* The lock server's bookkeeping, for any number of coordinators, locks    *)
(* and keys, and that it implements AtomicLocks.                           *)
(***************************************************************************)
EXTENDS Lockserver, FiniteSetTheorems, TLAPS

\* How far a request has got, in each phase.
Progress(c) ==
  /\ at[c] \in Nat /\ at[c] <= Len(keys[c])
  /\ phase[c] \in {"none", "refused"} => at[c] = 0
  /\ phase[c] \in {"lock", "undo", "held", "unlock"} => keys[c] \in Requests(c)
  /\ phase[c] = "lock" => at[c] < Len(keys[c])
  /\ phase[c] \in {"undo", "unlock"} => at[c] >= 1
  /\ phase[c] = "held" => at[c] = Len(keys[c])

\* What the fields of a lock say of the keys that have it: in exclusive mode they
\* are all its owner's, in shared mode none of them is exclusive.
Consistent(l) ==
  /\ counter[l] = Cardinality(Holders(l))
  /\ mode[l] = "unlocked" <=> counter[l] = 0
  /\ mode[l] = "exclusive" => \A h \in Holders(l) : h[1] = owner[l]
  /\ mode[l] = "shared" => \A h \in Holders(l) : ~keys[h[1]][h[2]].exclusive

IInv ==
  /\ TypeOK
  /\ \A c \in Coros : Progress(c)
  /\ \A l \in Locks : Consistent(l)

-----------------------------------------------------------------------------
LEMMA RequestIsSequence ==
  ASSUME NEW c \in Coros, NEW k \in Requests(c)
  PROVE  /\ k \in Seq(Entries) /\ Len(k) \in 1 .. MaxKeys /\ DOMAIN k = 1 .. Len(k)
         /\ WriteSetFirst(k)
<1>1. PICK n \in Sizes[c] : k \in [1 .. n -> Entries]
  BY DEF Requests
<1>2. n \in 1 .. MaxKeys
  BY <1>1, LockAssumption
<1>3. k \in Seq(Entries) /\ Len(k) = n
  BY <1>1, <1>2, LockAssumption
<1>4. WriteSetFirst(k)
  BY Zenon DEF Requests
<1> QED
  BY <1>1, <1>2, <1>3, <1>4

LEMMA HoldersFinite ==
  ASSUME NEW l
  PROVE  IsFiniteSet(Holders(l))
<1>1. IsFiniteSet(1 .. MaxKeys)
  BY LockAssumption, FS_Interval
<1>2. IsFiniteSet(Coros \X (1 .. MaxKeys))
  BY <1>1, LockAssumption, FS_Product
<1>3. Holders(l) \subseteq Coros \X (1 .. MaxKeys)
  BY DEF Holders
<1> QED
  BY <1>2, <1>3, FS_Subset

\* Adding and removing an element of a finite set.
LEMMA AddOne ==
  ASSUME NEW S, IsFiniteSet(S), NEW x, x \notin S
  PROVE  Cardinality(S \cup {x}) = Cardinality(S) + 1 /\ Cardinality(S) \in Nat
  BY FS_AddElement, FS_CardinalityType

LEMMA RemoveOne ==
  ASSUME NEW S, IsFiniteSet(S), NEW x \in S
  PROVE  /\ Cardinality(S \ {x}) = Cardinality(S) - 1
         /\ Cardinality(S) \in Nat /\ Cardinality(S) # 0
<1>1. Cardinality(S) # 0
  BY FS_EmptySet
<1> QED
  BY <1>1, FS_RemoveElement, FS_CardinalityType

LEMMA HoldersType ==
  ASSUME NEW l, NEW h \in Holders(l)
  PROVE  /\ h = <<h[1], h[2]>> /\ h[1] \in Coros /\ h[2] \in 1 .. MaxKeys
         /\ h[2] <= at[h[1]] /\ keys[h[1]][h[2]].lock = l
  BY DEF Holders

\* The next key of a request is in its range and is not locked yet.
LEMMA NextKey ==
  ASSUME IInv, NEW c \in Coros, phase[c] = "lock"
  PROVE  /\ at[c] \in Nat /\ at[c] + 1 \in 1 .. MaxKeys /\ at[c] + 1 \in 1 .. Len(keys[c])
         /\ keys[c][at[c] + 1] \in Entries
         /\ \A l : <<c, at[c] + 1>> \notin Holders(l)
<1>1. at[c] \in Nat /\ at[c] < Len(keys[c]) /\ keys[c] \in Requests(c)
  BY DEF IInv, Progress
<1>2. keys[c] \in Seq(Entries) /\ Len(keys[c]) \in 1 .. MaxKeys
  BY <1>1, RequestIsSequence
<1>3. at[c] + 1 \in 1 .. Len(keys[c]) /\ at[c] + 1 \in 1 .. MaxKeys
  BY <1>1, <1>2, LockAssumption
<1>4. keys[c][at[c] + 1] \in Entries
  BY <1>2, <1>3
<1>5. \A l : <<c, at[c] + 1>> \notin Holders(l)
  BY <1>1 DEF Holders
<1> QED
  BY <1>1, <1>3, <1>4, <1>5

\* The key that is unlocked next is locked.
LEMMA LastKey ==
  ASSUME IInv, NEW c \in Coros, phase[c] \in {"undo", "unlock"}
  PROVE  /\ at[c] \in 1 .. MaxKeys /\ at[c] \in 1 .. Len(keys[c]) /\ Len(keys[c]) \in Nat
         /\ keys[c][at[c]] \in Entries
         /\ <<c, at[c]>> \in Holders(keys[c][at[c]].lock)
<1>1. /\ at[c] \in Nat /\ at[c] <= Len(keys[c]) /\ at[c] >= 1 /\ keys[c] \in Requests(c)
  BY DEF IInv, Progress
<1>2. keys[c] \in Seq(Entries) /\ Len(keys[c]) \in 1 .. MaxKeys
  BY <1>1, RequestIsSequence
<1>3. at[c] \in 1 .. Len(keys[c]) /\ at[c] \in 1 .. MaxKeys
  BY <1>1, <1>2, LockAssumption
<1>4. keys[c][at[c]] \in Entries
  BY <1>2, <1>3
<1>5. <<c, at[c]>> \in Holders(keys[c][at[c]].lock)
  BY <1>1, <1>3 DEF Holders
<1> QED
  BY <1>2, <1>3, <1>4, <1>5

\* The set of keys with lock l after one more key of c is locked, or one fewer.
LEMMA HoldersGrow ==
  ASSUME IInv, NEW c \in Coros, phase[c] = "lock",
         keys' = keys, at' = [at EXCEPT ![c] = @ + 1], NEW l
  PROVE  Holders(l)' = IF keys[c][at[c] + 1].lock = l
                       THEN Holders(l) \cup {<<c, at[c] + 1>>} ELSE Holders(l)
<1> DEFINE x == <<c, at[c] + 1>>
<1>1. at \in [Coros -> 0 .. MaxKeys] /\ at[c] \in Nat /\ at[c] + 1 \in 1 .. MaxKeys
  BY NextKey DEF IInv, TypeOK
<1>2. at'[c] = at[c] + 1 /\ \A d \in Coros \ {c} : at'[d] = at[d]
  BY <1>1
<1>3. ASSUME NEW h \in Coros \X (1 .. MaxKeys)
      PROVE  h[2] <= at'[h[1]] <=> (h[2] <= at[h[1]] \/ h = x)
  <2>1. h[1] \in Coros /\ h[2] \in 1 .. MaxKeys /\ h = <<h[1], h[2]>>
    OBVIOUS
  <2>2. CASE h[1] = c
    <3>1. h = x <=> h[2] = at[c] + 1
      BY <2>1, <2>2
    <3> HIDE DEF x
    <3> QED
      BY <1>1, <1>2, <2>1, <2>2, <3>1
  <2>3. CASE h[1] # c
    BY <1>2, <2>1, <2>3
  <2> QED
    BY <2>2, <2>3
<1>4. Holders(l)' = {h \in Coros \X (1 .. MaxKeys) :
                       (h[2] <= at[h[1]] \/ h = x) /\ keys[h[1]][h[2]].lock = l}
  BY <1>3 DEF Holders
<1>5. x \in Coros \X (1 .. MaxKeys) /\ x[1] = c /\ x[2] = at[c] + 1
  BY <1>1
<1> HIDE DEF x
<1>6. CASE keys[c][at[c] + 1].lock = l
  <2>1. Holders(l)' = Holders(l) \cup {x}
    BY <1>4, <1>5, <1>6 DEF Holders
  <2> QED
    BY <1>6, <2>1 DEF x
<1>7. CASE keys[c][at[c] + 1].lock # l
  BY <1>4, <1>5, <1>7 DEF Holders
<1> QED
  BY <1>6, <1>7

LEMMA HoldersShrink ==
  ASSUME IInv, NEW c \in Coros, phase[c] \in {"undo", "unlock"},
         \/ keys' = keys
         \/ at[c] = 1 /\ keys' = [keys EXCEPT ![c] = <<>>],
         at' = [at EXCEPT ![c] = @ - 1], NEW l
  PROVE  /\ Holders(l)' = Holders(l) \ {<<c, at[c]>>}
         /\ \A h \in Holders(l)' : keys'[h[1]][h[2]] = keys[h[1]][h[2]]
<1> DEFINE x == <<c, at[c]>>
<1>1. /\ at \in [Coros -> 0 .. MaxKeys] /\ at[c] \in 1 .. MaxKeys
      /\ \A d \in Coros : keys' # keys /\ d # c => keys'[d] = keys[d]
  BY LastKey DEF IInv, TypeOK
<1>2. at'[c] = at[c] - 1 /\ \A d \in Coros \ {c} : at'[d] = at[d]
  BY <1>1
<1>3. ASSUME NEW h \in Coros \X (1 .. MaxKeys)
      PROVE  h[2] <= at'[h[1]] <=> (h[2] <= at[h[1]] /\ h # x)
  <2>1. h[1] \in Coros /\ h[2] \in 1 .. MaxKeys /\ h = <<h[1], h[2]>>
    OBVIOUS
  <2>2. CASE h[1] = c
    <3>1. h = x <=> h[2] = at[c]
      BY <2>1, <2>2
    <3> HIDE DEF x
    <3> QED
      BY <1>1, <1>2, <2>1, <2>2, <3>1
  <2>3. CASE h[1] # c
    BY <1>2, <2>1, <2>3
  <2> QED
    BY <2>2, <2>3
<1>4. ASSUME NEW h \in Coros \X (1 .. MaxKeys), h[2] <= at'[h[1]]
      PROVE  keys'[h[1]] = keys[h[1]]
  <2>1. h[1] \in Coros /\ h[2] \in 1 .. MaxKeys
    OBVIOUS
  <2>2. h[1] = c => at[c] # 1
    BY <1>2, <1>4, <2>1
  <2> QED
    BY <1>1, <2>1, <2>2
<1>5. Holders(l)' = {h \in Coros \X (1 .. MaxKeys) :
                       (h[2] <= at[h[1]] /\ h # x) /\ keys[h[1]][h[2]].lock = l}
  BY <1>3, <1>4 DEF Holders
<1> HIDE DEF x
<1>6. Holders(l)' = Holders(l) \ {x}
  BY <1>5 DEF Holders
<1>7. \A h \in Holders(l)' : keys'[h[1]][h[2]] = keys[h[1]][h[2]]
  BY <1>4 DEF Holders
<1> QED
  BY <1>6, <1>7 DEF x

-----------------------------------------------------------------------------
(* Every step keeps the locks consistent.                                  *)

LEMMA AcquireKeeps ==
  ASSUME IInv, NEW c \in Coros, phase[c] = "lock",
         Grantable(c, keys[c][at[c] + 1]), Acquire(c, keys[c][at[c] + 1]),
         keys' = keys, at' = [at EXCEPT ![c] = @ + 1], NEW l \in Locks
  PROVE  Consistent(l)'
<1> DEFINE e == keys[c][at[c] + 1]
           x == <<c, at[c] + 1>>
<1>1. /\ e \in Entries /\ x \notin Holders(l) /\ IsFiniteSet(Holders(l))
      /\ Consistent(l)
  BY NextKey, HoldersFinite DEF IInv
<1>2. /\ mode \in [Locks -> {"unlocked", "exclusive", "shared"}]
      /\ counter \in [Locks -> Nat]
      /\ owner \in [Locks -> Coros \cup {None}]
  BY DEF IInv, TypeOK
<1>3. CASE e.lock # l
  <2>1. Holders(l)' = Holders(l)
    BY <1>3, HoldersGrow
  <2>2. counter'[l] = counter[l] /\ mode'[l] = mode[l] /\ owner'[l] = owner[l]
    BY <1>2, <1>3 DEF Acquire
  <2> QED
    BY <1>1, <2>1, <2>2 DEF Consistent
<1>4. CASE e.lock = l
  <2>1. Holders(l)' = Holders(l) \cup {x}
    BY <1>4, HoldersGrow
  <2>2. x[1] = c /\ x[2] = at[c] + 1 /\ keys[x[1]][x[2]] = e
    OBVIOUS
  <2>3. counter'[l] = counter[l] + 1
    BY <1>2, <1>4 DEF Acquire
  <2> HIDE DEF x
  <2>4. counter'[l] = Cardinality(Holders(l)') /\ counter'[l] # 0
    <3>1. Cardinality(Holders(l) \cup {x}) = Cardinality(Holders(l)) + 1
          /\ Cardinality(Holders(l)) \in Nat
      BY <1>1, AddOne
    <3>2. counter[l] = Cardinality(Holders(l))
      BY <1>1 DEF Consistent
    <3> QED
      BY <2>1, <2>3, <3>1, <3>2
  <2>5. CASE mode[l] = "unlocked"
    <3>1. /\ mode'[l] = IF e.exclusive THEN "exclusive" ELSE "shared"
          /\ e.exclusive => owner'[l] = c
      BY <1>2, <1>4, <2>5 DEF Acquire
    <3>2. Holders(l) = {}
      <4>1. Cardinality(Holders(l)) = 0
        BY <1>1, <2>5 DEF Consistent
      <4> QED
        BY <1>1, <4>1, FS_EmptySet
    <3>3. Holders(l)' = {x}
      BY <2>1, <3>2
    <3>4. mode'[l] = "exclusive" => \A h \in Holders(l)' : h[1] = owner'[l]
      BY <2>2, <3>1, <3>3
    <3>5. mode'[l] = "shared" => \A h \in Holders(l)' : ~keys'[h[1]][h[2]].exclusive
      BY <2>2, <3>1, <3>3
    <3> QED
      BY <2>4, <3>1, <3>4, <3>5 DEF Consistent
  <2>6. CASE mode[l] = "exclusive" /\ owner[l] = c
    <3>1. mode'[l] = "exclusive" /\ owner'[l] = c
      BY <1>2, <1>4, <2>6 DEF Acquire
    <3>2. \A h \in Holders(l)' : h[1] = owner'[l]
      BY <1>1, <2>1, <2>2, <2>6, <3>1 DEF Consistent
    <3> QED
      BY <2>4, <3>1, <3>2 DEF Consistent
  <2>7. CASE mode[l] = "shared" /\ ~e.exclusive
    <3>1. mode'[l] = "shared"
      BY <1>2, <1>4, <2>7 DEF Acquire
    <3>2. \A h \in Holders(l)' : ~keys'[h[1]][h[2]].exclusive
      BY <1>1, <2>1, <2>2, <2>7 DEF Consistent
    <3> QED
      BY <2>4, <3>1, <3>2 DEF Consistent
  <2> QED
    BY <1>4, <2>5, <2>6, <2>7 DEF Grantable
<1> QED
  BY <1>3, <1>4

LEMMA ReleaseKeeps ==
  ASSUME IInv, NEW c \in Coros, phase[c] \in {"undo", "unlock"},
         Release(keys[c][at[c]]),
         \/ keys' = keys
         \/ at[c] = 1 /\ keys' = [keys EXCEPT ![c] = <<>>],
         at' = [at EXCEPT ![c] = @ - 1], NEW l \in Locks
  PROVE  Consistent(l)'
<1> DEFINE e == keys[c][at[c]]
           x == <<c, at[c]>>
<1>1. /\ e \in Entries /\ x \in Holders(e.lock) /\ IsFiniteSet(Holders(l))
      /\ Consistent(l)
  BY LastKey, HoldersFinite DEF IInv
<1>2. /\ mode \in [Locks -> {"unlocked", "exclusive", "shared"}]
      /\ counter \in [Locks -> Nat]
  BY DEF IInv, TypeOK
<1>3. /\ Holders(l)' = Holders(l) \ {x}
      /\ \A h \in Holders(l)' : keys'[h[1]][h[2]] = keys[h[1]][h[2]]
  BY HoldersShrink
<1>4. owner' = owner
  BY DEF Release
<1>5. /\ mode[l] = "exclusive" => \A h \in Holders(l)' : h[1] = owner'[l]
      /\ mode[l] = "shared" => \A h \in Holders(l)' : ~keys'[h[1]][h[2]].exclusive
  BY <1>1, <1>3, <1>4 DEF Consistent
<1>6. CASE e.lock # l
  <2>1. x \notin Holders(l)
    <3>1. x[1] = c /\ x[2] = at[c]
      OBVIOUS
    <3> QED
      BY <1>6, <3>1, HoldersType
  <2>2. Holders(l)' = Holders(l)
    BY <1>3, <2>1
  <2>3. counter'[l] = counter[l] /\ mode'[l] = mode[l]
    BY <1>2, <1>6 DEF Release
  <2> QED
    BY <1>1, <1>5, <2>2, <2>3 DEF Consistent
<1>7. CASE e.lock = l
  <2>1. /\ counter'[l] = counter[l] - 1
        /\ mode'[l] = IF counter[l] = 1 THEN "unlocked" ELSE mode[l]
    BY <1>2, <1>7 DEF Release
  <2> HIDE DEF x
  <2>2. /\ Cardinality(Holders(l) \ {x}) = Cardinality(Holders(l)) - 1
        /\ Cardinality(Holders(l)) \in Nat /\ Cardinality(Holders(l)) # 0
    BY <1>1, <1>7, RemoveOne
  <2>3. counter[l] = Cardinality(Holders(l)) /\ mode[l] # "unlocked"
    BY <1>1, <2>2 DEF Consistent
  <2>4. counter'[l] = Cardinality(Holders(l)') /\ (mode'[l] = "unlocked" <=> counter'[l] = 0)
    BY <1>3, <2>1, <2>2, <2>3
  <2> QED
    BY <1>5, <2>1, <2>4 DEF Consistent
<1> QED
  BY <1>6, <1>7

\* A step that locks and unlocks nothing.
LEMMA OtherKeeps ==
  ASSUME IInv, NEW c \in Coros, lockArr' = lockArr, at' = at,
         keys' = keys \/ (at[c] = 0 /\ \E k : keys' = [keys EXCEPT ![c] = k]),
         NEW l \in Locks
  PROVE  Consistent(l)'
<1>1. /\ Holders(l)' = Holders(l)
      /\ \A h \in Holders(l) : keys'[h[1]][h[2]] = keys[h[1]][h[2]]
  <2>1. ASSUME NEW h \in Coros \X (1 .. MaxKeys), h[2] <= at[h[1]]
        PROVE  keys'[h[1]] = keys[h[1]]
    <3>1. h[1] \in Coros /\ h[2] \in 1 .. MaxKeys
      OBVIOUS
    <3>2. h[1] = c => at[c] # 0
      BY <2>1, <3>1
    <3> QED
      BY <3>1, <3>2 DEF IInv, TypeOK
  <2> QED
    BY <2>1 DEF Holders
<1>2. mode' = mode /\ counter' = counter /\ owner' = owner
  BY DEF lockArr
<1>3. Consistent(l)
  BY DEF IInv
<1> QED
  BY <1>1, <1>2, <1>3 DEF Consistent

-----------------------------------------------------------------------------
(* Every action keeps the types and the progress of every request.         *)

\* What the actions of c leave of another requester.
LEMMA OtherProgress ==
  ASSUME IInv, NEW c \in Coros, NEW d \in Coros \ {c},
         keys'[d] = keys[d], at'[d] = at[d], phase'[d] = phase[d]
  PROVE  Progress(d)'
  BY DEF IInv, Progress

LEMMA DoReadKeeps ==
  ASSUME IInv, NEW c \in Coros, DoRead(c)
  PROVE  IInv'
<1>1. PICK k \in Requests(c) : keys' = [keys EXCEPT ![c] = k]
  BY DEF DoRead
<1>2. k \in Seq(Entries) /\ Len(k) \in Nat /\ Len(k) >= 1
  BY <1>1, RequestIsSequence
<1>3. /\ at' = at /\ lockArr' = lockArr /\ at[c] = 0
      /\ phase' = [phase EXCEPT ![c] = "lock"]
  BY DEF DoRead, IInv, Progress
<1>4. mode' = mode /\ counter' = counter /\ owner' = owner
  BY <1>3 DEF lockArr
<1>5. keys'[c] = k /\ phase'[c] = "lock"
      /\ \A d \in Coros \ {c} : keys'[d] = keys[d] /\ at'[d] = at[d] /\ phase'[d] = phase[d]
  BY <1>1, <1>3 DEF IInv, TypeOK
<1>6. TypeOK'
  BY <1>1, <1>2, <1>3, <1>4, <1>5 DEF IInv, TypeOK
<1>7. Progress(c)'
  BY <1>1, <1>2, <1>3, <1>5 DEF Progress
<1>8. \A d \in Coros : Progress(d)'
  BY <1>5, <1>7, OtherProgress
<1>9. \A l \in Locks : Consistent(l)'
  BY <1>1, <1>3, OtherKeeps
<1> QED
  BY <1>6, <1>8, <1>9 DEF IInv

LEMMA FinishKeeps ==
  ASSUME IInv, NEW c \in Coros, Finish(c)
  PROVE  IInv'
<1>1. /\ at' = at /\ lockArr' = lockArr /\ keys' = keys /\ phase[c] = "held"
      /\ phase' = [phase EXCEPT ![c] = "unlock"]
  BY DEF Finish
<1>2. keys[c] \in Requests(c) /\ at[c] = Len(keys[c])
  BY <1>1 DEF IInv, Progress
<1>3. Len(keys[c]) \in Nat /\ Len(keys[c]) >= 1
  BY <1>2, RequestIsSequence
<1>4. phase'[c] = "unlock"
      /\ \A d \in Coros \ {c} : keys'[d] = keys[d] /\ at'[d] = at[d] /\ phase'[d] = phase[d]
  BY <1>1 DEF IInv, TypeOK
<1>5. TypeOK'
  BY <1>1 DEF IInv, TypeOK, lockArr
<1>6. Progress(c)'
  BY <1>1, <1>2, <1>3, <1>4 DEF Progress
<1>7. \A d \in Coros : Progress(d)'
  BY <1>4, <1>6, OtherProgress
<1>8. \A l \in Locks : Consistent(l)'
  BY <1>1, OtherKeeps
<1> QED
  BY <1>5, <1>7, <1>8 DEF IInv

LEMMA AbortRefusedKeeps ==
  ASSUME IInv, NEW c \in Coros, AbortRefused(c)
  PROVE  IInv'
<1>1. /\ at' = at /\ lockArr' = lockArr /\ keys' = [keys EXCEPT ![c] = <<>>]
      /\ phase' = [phase EXCEPT ![c] = "none"] /\ at[c] = 0
  BY DEF AbortRefused, IInv, Progress
<1>2. keys'[c] = <<>> /\ phase'[c] = "none"
      /\ \A d \in Coros \ {c} : keys'[d] = keys[d] /\ at'[d] = at[d] /\ phase'[d] = phase[d]
  BY <1>1 DEF IInv, TypeOK
<1>3. TypeOK'
  BY <1>1, <1>2 DEF IInv, TypeOK, lockArr
<1>4. Progress(c)'
  BY <1>1, <1>2 DEF Progress
<1>5. \A d \in Coros : Progress(d)'
  BY <1>2, <1>4, OtherProgress
<1>6. \A l \in Locks : Consistent(l)'
  BY <1>1, OtherKeeps
<1> QED
  BY <1>3, <1>5, <1>6 DEF IInv

LEMMA LockNextKeeps ==
  ASSUME IInv, NEW c \in Coros, LockNext(c)
  PROVE  IInv'
<1> DEFINE e == keys[c][at[c] + 1]
<1>1. phase[c] = "lock" /\ keys' = keys
  BY DEF LockNext
<1>2. /\ at[c] \in Nat /\ at[c] + 1 \in 1 .. MaxKeys /\ at[c] + 1 \in 1 .. Len(keys[c])
      /\ e \in Entries /\ keys[c] \in Requests(c) /\ Len(keys[c]) \in Nat
  <2>1. keys[c] \in Requests(c)
    BY <1>1 DEF IInv, Progress
  <2>2. Len(keys[c]) \in Nat
    BY <2>1, RequestIsSequence
  <2> QED
    BY <1>1, <2>1, <2>2, NextKey
<1>3. CASE Grantable(c, e)
  <2>1. /\ Acquire(c, e)
        /\ at' = [at EXCEPT ![c] = @ + 1]
        /\ phase' = [phase EXCEPT ![c] = IF at[c] + 1 = Len(keys[c]) THEN "held" ELSE @]
    BY <1>3 DEF LockNext
  <2>2. /\ at'[c] = at[c] + 1
        /\ phase'[c] = IF at[c] + 1 = Len(keys[c]) THEN "held" ELSE "lock"
        /\ \A d \in Coros \ {c} : keys'[d] = keys[d] /\ at'[d] = at[d] /\ phase'[d] = phase[d]
    BY <1>1, <2>1 DEF IInv, TypeOK
  <2>3. /\ mode' \in [Locks -> {"unlocked", "exclusive", "shared"}]
        /\ counter' \in [Locks -> Nat]
        /\ owner' \in [Locks -> Coros \cup {None}]
    <3>1. e.lock \in Locks
      BY <1>2 DEF Entries
    <3>2. /\ mode \in [Locks -> {"unlocked", "exclusive", "shared"}]
          /\ counter \in [Locks -> Nat]
          /\ owner \in [Locks -> Coros \cup {None}]
      BY DEF IInv, TypeOK
    <3> DEFINE m == IF e.exclusive THEN "exclusive" ELSE "shared"
               o == IF e.exclusive THEN c ELSE owner[e.lock]
    <3> HIDE DEF e
    <3>3. m \in {"unlocked", "exclusive", "shared"} /\ o \in Coros \cup {None}
      BY <3>1, <3>2
    <3>4. counter' \in [Locks -> Nat]
      BY <2>1, <3>1, <3>2 DEF Acquire
    <3>5. /\ mode' = mode \/ mode' = [mode EXCEPT ![e.lock] = m]
          /\ owner' = owner \/ owner' = [owner EXCEPT ![e.lock] = o]
      BY <2>1 DEF Acquire
    <3> HIDE DEF m, o
    <3> QED
      BY <3>1, <3>2, <3>3, <3>4, <3>5
  <2>4. /\ at' \in [Coros -> 0 .. MaxKeys]
        /\ phase' \in [Coros -> {"none", "lock", "undo", "refused", "held", "unlock"}]
    BY <1>2, <2>1, LockAssumption DEF IInv, TypeOK
  <2>5. TypeOK'
    BY <1>1, <2>3, <2>4 DEF IInv, TypeOK
  <2>6. Progress(c)'
    BY <1>1, <1>2, <2>2 DEF Progress
  <2>7. \A d \in Coros : Progress(d)'
    BY <2>2, <2>6, OtherProgress
  <2>8. \A l \in Locks : Consistent(l)'
    BY <1>1, <1>3, <2>1, AcquireKeeps
  <2> QED
    BY <2>5, <2>7, <2>8 DEF IInv
<1>4. CASE ~Grantable(c, e)
  <2>1. /\ lockArr' = lockArr /\ at' = at
        /\ phase' = [phase EXCEPT ![c] = IF at[c] = 0 THEN "refused" ELSE "undo"]
    BY <1>4 DEF LockNext, Refused
  <2>2. /\ phase'[c] = IF at[c] = 0 THEN "refused" ELSE "undo"
        /\ \A d \in Coros \ {c} : keys'[d] = keys[d] /\ at'[d] = at[d] /\ phase'[d] = phase[d]
    BY <1>1, <2>1 DEF IInv, TypeOK
  <2>3. TypeOK'
    BY <1>1, <2>1 DEF IInv, TypeOK, lockArr
  <2>4. Progress(c)'
    BY <1>1, <1>2, <2>1, <2>2 DEF Progress
  <2>5. \A d \in Coros : Progress(d)'
    BY <2>2, <2>4, OtherProgress
  <2>6. \A l \in Locks : Consistent(l)'
    BY <1>1, <2>1, OtherKeeps
  <2> QED
    BY <2>3, <2>5, <2>6 DEF IInv
<1> QED
  BY <1>3, <1>4

LEMMA GiveBackKeeps ==
  ASSUME IInv, NEW c \in Coros, UndoNext(c) \/ UnlockNext(c)
  PROVE  IInv'
<1> DEFINE over == IF phase[c] = "undo" THEN "refused" ELSE "none"
           e == keys[c][at[c]]
<1>1. /\ phase[c] \in {"undo", "unlock"}
      /\ Release(e)
      /\ at' = [at EXCEPT ![c] = @ - 1]
      /\ phase' = [phase EXCEPT ![c] = IF at[c] = 1 THEN over ELSE @]
      /\ keys' = [keys EXCEPT ![c] = IF phase[c] = "unlock" /\ at[c] = 1 THEN <<>> ELSE @]
  BY DEF UndoNext, UnlockNext, Undone, IInv, TypeOK
<1>2. /\ at[c] \in 1 .. MaxKeys /\ at[c] \in 1 .. Len(keys[c]) /\ e \in Entries
      /\ Len(keys[c]) \in Nat /\ keys[c] \in Requests(c)
      /\ <<c, at[c]>> \in Holders(e.lock) /\ e.lock \in Locks
  BY <1>1, LastKey DEF IInv, Progress, Entries
<1>3. \/ keys' = keys
      \/ at[c] = 1 /\ keys' = [keys EXCEPT ![c] = <<>>]
  BY <1>1 DEF IInv, TypeOK
<1>4. /\ at'[c] = at[c] - 1
      /\ phase'[c] = IF at[c] = 1 THEN over ELSE phase[c]
      /\ keys'[c] = IF phase[c] = "unlock" /\ at[c] = 1 THEN <<>> ELSE keys[c]
      /\ \A d \in Coros \ {c} : keys'[d] = keys[d] /\ at'[d] = at[d] /\ phase'[d] = phase[d]
  BY <1>1 DEF IInv, TypeOK
<1>5. counter[e.lock] \in Nat \ {0}
  <2>1. /\ counter[e.lock] = Cardinality(Holders(e.lock))
        /\ IsFiniteSet(Holders(e.lock))
    BY <1>2, HoldersFinite DEF IInv, Consistent
  <2>2. Cardinality(Holders(e.lock)) \in Nat /\ Cardinality(Holders(e.lock)) # 0
    BY <1>2, <2>1, RemoveOne
  <2> QED
    BY <2>1, <2>2
<1>6. /\ mode' \in [Locks -> {"unlocked", "exclusive", "shared"}]
      /\ counter' \in [Locks -> Nat]
      /\ owner' \in [Locks -> Coros \cup {None}]
  <2>1. counter[e.lock] - 1 \in Nat
    BY <1>5
  <2> HIDE DEF e
  <2> QED
    BY <1>1, <1>2, <2>1 DEF Release, IInv, TypeOK
<1>7. /\ at' \in [Coros -> 0 .. MaxKeys]
      /\ phase' \in [Coros -> {"none", "lock", "undo", "refused", "held", "unlock"}]
      /\ keys' \in [Coros -> Seq(Entries)]
  BY <1>1, <1>2, LockAssumption DEF IInv, TypeOK
<1>8. TypeOK'
  <2>1. keys'[c] \in Requests(c) \cup {<<>>}
    BY <1>2, <1>4
  <2>2. \A d \in Coros : keys'[d] \in Requests(d) \cup {<<>>}
    BY <1>4, <2>1 DEF IInv, TypeOK
  <2> QED
    BY <1>6, <1>7, <2>2 DEF TypeOK
<1>9. Progress(c)'
  <2>1. CASE at[c] = 1
    <3>1. at'[c] = 0 /\ phase'[c] \in {"refused", "none"} /\ Len(keys'[c]) \in Nat
      BY <1>2, <1>4, <2>1
    <3> QED
      BY <3>1 DEF Progress
  <2>2. CASE at[c] # 1
    <3>1. keys'[c] = keys[c] /\ phase'[c] = phase[c] /\ at'[c] = at[c] - 1
      BY <1>4, <2>2
    <3> QED
      BY <1>1, <1>2, <2>2, <3>1 DEF Progress
  <2> QED
    BY <2>1, <2>2
<1>10. \A d \in Coros : Progress(d)'
  BY <1>4, <1>9, OtherProgress
<1>11. \A l \in Locks : Consistent(l)'
  BY <1>1, <1>3, ReleaseKeeps
<1> QED
  BY <1>8, <1>10, <1>11 DEF IInv

-----------------------------------------------------------------------------
(* The theorems.                                                           *)

\* The inductive invariant: how far every request has got, and for every lock that
\* its fields say which keys have it.
THEOREM LockserverInvariant ==
  Spec => []IInv
<1>1. Init => IInv
  <2> SUFFICES ASSUME Init PROVE IInv
    OBVIOUS
  <2>1. TypeOK
    BY LockAssumption DEF Init, TypeOK
  <2>2. \A c \in Coros : Progress(c)
    BY DEF Init, Progress
  <2>3. \A l \in Locks : Holders(l) = {}
    BY DEF Init, Holders
  <2>4. \A l \in Locks : Consistent(l)
    BY <2>3, FS_EmptySet DEF Init, Consistent
  <2> QED
    BY <2>1, <2>2, <2>4 DEF IInv
<1>2. IInv /\ [Next]_vars => IInv'
  <2> SUFFICES ASSUME IInv, [Next]_vars PROVE IInv'
    OBVIOUS
  <2>1. ASSUME NEW c \in Coros, DoRead(c) \/ Finish(c) \/ AbortRefused(c) \/ Handler(c)
        PROVE  IInv'
    BY <2>1, DoReadKeeps, FinishKeeps, AbortRefusedKeeps, LockNextKeeps, GiveBackKeeps
    DEF Handler
  <2>2. CASE UNCHANGED vars
    BY <2>2 DEF vars, lockArr, IInv, TypeOK, Progress, Consistent, Holders
  <2> QED
    BY <2>1, <2>2 DEF Next
<1> QED
  BY <1>1, <1>2, PTL DEF Spec

\* The lock table and the requests keep their types; no counter goes below zero.
THEOREM LockserverTypes ==
  Spec => []TypeOK
<1>1. IInv => TypeOK
  BY DEF IInv
<1> QED
  BY <1>1, LockserverInvariant, PTL

\* counter counts the locked keys, whatever locks they share and whichever of their
\* requests were refused half way.
THEOREM CountersCount ==
  Spec => []CountersMatch
<1>1. IInv => CountersMatch
  BY DEF IInv, CountersMatch, Consistent, Progress
<1> QED
  BY <1>1, LockserverInvariant, PTL

LEMMA HeldInMode ==
  ASSUME IInv, NEW l \in Locks, NEW h \in Holders(l)
  PROVE  /\ counter[l] > 0
         /\ \/ mode[l] = "exclusive" /\ owner[l] = h[1]
            \/ mode[l] = "shared" /\ ~keys[h[1]][h[2]].exclusive
<1>1. Consistent(l) /\ mode[l] \in {"unlocked", "exclusive", "shared"}
  BY DEF IInv, TypeOK
<1>2. Cardinality(Holders(l)) \in Nat /\ Cardinality(Holders(l)) # 0
  BY HoldersFinite, RemoveOne
<1> QED
  BY <1>1, <1>2 DEF Consistent

\* The assertions of unlock() hold wherever the handler calls it.
THEOREM UnlocksMatch ==
  Spec => []UnlockMatches
<1>1. IInv => UnlockMatches
  <2> SUFFICES ASSUME IInv, NEW c \in Coros, phase[c] \in {"undo", "unlock"}
               PROVE  Asserted(c, keys[c][at[c]])
    BY DEF UnlockMatches
  <2> DEFINE e == keys[c][at[c]]
             h == <<c, at[c]>>
  <2>1. e.lock \in Locks /\ h \in Holders(e.lock)
    BY LastKey DEF Entries
  <2>2. h[1] = c /\ keys[h[1]][h[2]] = e
    OBVIOUS
  <2>3. /\ counter[e.lock] > 0
        /\ \/ mode[e.lock] = "exclusive" /\ owner[e.lock] = h[1]
           \/ mode[e.lock] = "shared" /\ ~keys[h[1]][h[2]].exclusive
    <3> HIDE DEF e, h
    <3> QED
      BY <2>1, HeldInMode
  <2> QED
    BY <2>2, <2>3 DEF Asserted
<1> QED
  BY <1>1, LockserverInvariant, PTL

\* A requester never meets its own shared lock with an exclusive request.
THEOREM ExclusiveComesFirst ==
  Spec => []ExclusiveFirst
<1>1. IInv => ExclusiveFirst
  <2> SUFFICES ASSUME IInv, NEW c \in Coros, phase[c] = "lock",
                      keys[c][at[c] + 1].exclusive,
                      mode[keys[c][at[c] + 1].lock] = "shared",
                      NEW i \in 1 .. at[c],
                      keys[c][i].lock = keys[c][at[c] + 1].lock
               PROVE  FALSE
    BY DEF ExclusiveFirst
  <2> DEFINE l == keys[c][at[c] + 1].lock
             h == <<c, i>>
  <2>1. /\ keys[c] \in Requests(c) /\ at[c] \in Nat /\ at[c] + 1 \in 1 .. Len(keys[c])
        /\ at[c] + 1 \in 1 .. MaxKeys /\ l \in Locks
    BY NextKey DEF IInv, Progress, Entries
  <2>2. i \in DOMAIN keys[c] /\ at[c] + 1 \in DOMAIN keys[c] /\ i < at[c] + 1
        /\ i \in 1 .. MaxKeys
    <3>1. DOMAIN keys[c] = 1 .. Len(keys[c]) /\ Len(keys[c]) \in 1 .. MaxKeys
      BY <2>1, RequestIsSequence
    <3> QED
      BY <2>1, <3>1, LockAssumption
  <2>3. keys[c][i].exclusive
    <3>1. WriteSetFirst(keys[c])
      BY <2>1, RequestIsSequence
    <3> QED
      BY <2>2, <3>1 DEF WriteSetFirst
  <2>4. h \in Holders(l)
    BY <2>1, <2>2 DEF Holders
  <2>5. h[1] = c /\ h[2] = i
    OBVIOUS
  <2>6. ~keys[c][i].exclusive
    <3>1. mode[l] = "shared"
      OBVIOUS
    <3> HIDE DEF l, h
    <3> QED
      BY <2>1, <2>4, <2>5, <3>1, HeldInMode
  <2> QED
    BY <2>3, <2>6
<1> QED
  BY <1>1, LockserverInvariant, PTL

-----------------------------------------------------------------------------
(* The lock server implements AtomicLocks.                                 *)

\* What is granted to two requesters does not conflict.
Isolation ==
  \A c \in Coros : \A d \in Coros \ {c} :
    \A a \in granted[c], b \in granted[d] : ~Atomic!Conflict(a, b)

LEMMA GrantedIsHeld ==
  ASSUME IInv, NEW c \in Coros, NEW a \in granted[c]
  PROVE  /\ a[1] \in Locks
         /\ \E h \in Holders(a[1]) : h[1] = c /\ a[2] = keys[c][h[2]].exclusive
<1>1. phase[c] = "held" /\ \E i \in DOMAIN keys[c] : a = <<keys[c][i].lock, keys[c][i].exclusive>>
  BY DEF granted
<1>2. PICK i \in DOMAIN keys[c] : a = <<keys[c][i].lock, keys[c][i].exclusive>>
  BY <1>1
<1>3. keys[c] \in Requests(c) /\ at[c] = Len(keys[c])
  BY <1>1 DEF IInv, Progress
<1>4. keys[c] \in Seq(Entries) /\ Len(keys[c]) \in 1 .. MaxKeys /\ DOMAIN keys[c] = 1 .. Len(keys[c])
  BY <1>3, RequestIsSequence
<1>5. keys[c][i] \in Entries /\ i \in 1 .. MaxKeys /\ i <= at[c]
  BY <1>3, <1>4, LockAssumption
<1>6. <<c, i>> \in Holders(keys[c][i].lock)
  BY <1>5 DEF Holders
<1>7. a[1] = keys[c][i].lock /\ a[2] = keys[c][i].exclusive /\ keys[c][i].lock \in Locks
  BY <1>2, <1>5 DEF Entries
<1>8. <<c, i>>[1] = c /\ <<c, i>>[2] = i
  OBVIOUS
<1> QED
  BY <1>6, <1>7, <1>8

LEMMA HeldIsolated ==
  IInv => Isolation
<1> SUFFICES ASSUME IInv, NEW c \in Coros, NEW d \in Coros \ {c},
                    NEW a \in granted[c], NEW b \in granted[d], a[1] = b[1], a[2] \/ b[2]
             PROVE  FALSE
  BY DEF Isolation, Atomic!Conflict
<1>1. a[1] \in Locks
  BY GrantedIsHeld
<1>2. PICK h \in Holders(a[1]) : h[1] = c /\ a[2] = keys[c][h[2]].exclusive
  BY GrantedIsHeld
<1>3. PICK g \in Holders(a[1]) : g[1] = d /\ b[2] = keys[d][g[2]].exclusive
  BY GrantedIsHeld
<1>4. \/ mode[a[1]] = "exclusive" /\ owner[a[1]] = c
      \/ mode[a[1]] = "shared" /\ ~a[2]
  BY <1>1, <1>2, HeldInMode
<1>5. \/ mode[a[1]] = "exclusive" /\ owner[a[1]] = d
      \/ mode[a[1]] = "shared" /\ ~b[2]
  BY <1>1, <1>3, HeldInMode
<1> QED
  BY <1>4, <1>5

LEMMA GrantedSame ==
  ASSUME \A d \in Coros : phase'[d] = "held" <=> phase[d] = "held",
         \A d \in Coros : phase[d] = "held" => keys'[d] = keys[d]
  PROVE  granted' = granted
  BY DEF granted

\* Coordinators can take the lock server for one that grants all the locks of a
\* request at once, never two that conflict, though its handlers run side by side
\* and lock and unlock key by key.
THEOREM LockserverAtomic ==
  Spec => ImplementsAtomicLocks
<1>1. Init => Atomic!Init
  BY DEF Init, Atomic!Init, granted
<1>2. IInv /\ Isolation' /\ [Next]_vars => [Atomic!Next]_granted
  <2> SUFFICES ASSUME IInv, Isolation', [Next]_vars
               PROVE  Atomic!Next \/ granted' = granted
    OBVIOUS
  <2>1. phase \in [Coros -> {"none", "lock", "undo", "refused", "held", "unlock"}]
        /\ keys \in [Coros -> Seq(Entries)]
    BY DEF IInv, TypeOK
  <2>2. ASSUME NEW c \in Coros, DoRead(c) \/ AbortRefused(c) \/ UndoNext(c) \/ UnlockNext(c)
        PROVE  granted' = granted
    <3>1. /\ phase[c] # "held" /\ phase'[c] # "held"
          /\ \A d \in Coros \ {c} : phase'[d] = phase[d] /\ keys'[d] = keys[d]
      BY <2>1, <2>2 DEF DoRead, AbortRefused, UndoNext, UnlockNext, Undone
    <3> QED
      BY <3>1, GrantedSame
  <2>3. ASSUME NEW c \in Coros, Finish(c)
        PROVE  Atomic!Next
    <3>1. /\ phase'[c] # "held" /\ keys' = keys
          /\ \A d \in Coros \ {c} : phase'[d] = phase[d]
      BY <2>1, <2>3 DEF Finish
    <3>2. granted' = [granted EXCEPT ![c] = {}]
      BY <3>1 DEF granted
    <3> QED
      BY <3>2 DEF Atomic!Next, Atomic!Release
  <2>4. ASSUME NEW c \in Coros, LockNext(c)
        PROVE  Atomic!Next \/ granted' = granted
    <3>1. /\ phase[c] = "lock" /\ keys' = keys
          /\ \A d \in Coros \ {c} : phase'[d] = phase[d]
      BY <2>1, <2>4 DEF LockNext, Refused
    <3>2. CASE phase'[c] # "held"
      BY <3>1, <3>2, GrantedSame
    <3>3. CASE phase'[c] = "held"
      <4> DEFINE r == granted'[c]
      <4>1. granted[c] = {} /\ granted' = [granted EXCEPT ![c] = r]
        <5>1. granted[c] = {}
          BY <3>1 DEF granted
        <5>2. \A d \in Coros \ {c} : granted'[d] = granted[d]
          BY <3>1 DEF granted
        <5>3. /\ granted = [d \in Coros |-> granted[d]]
              /\ granted' = [d \in Coros |-> granted'[d]]
          BY Zenon DEF granted
        <5> HIDE DEF r
        <5>4. granted'[c] = r
          BY DEF r
        <5> QED
          BY <5>1, <5>2, <5>3, <5>4
      <4>2. \A d \in Coros \ {c} : granted'[d] = granted[d]
        BY <3>1 DEF granted
      <4>3. \A d \in Coros \ {c} : \A a \in r, b \in granted[d] : ~Atomic!Conflict(a, b)
        BY <4>2 DEF Isolation
      <4>4. r \in SUBSET (Locks \X BOOLEAN)
        <5>1. r = {<<keys[c][i].lock, keys[c][i].exclusive>> : i \in DOMAIN keys[c]}
          BY <3>1, <3>3 DEF granted
        <5>2. \A i \in DOMAIN keys[c] : keys[c][i] \in Entries
          BY <2>1
        <5> HIDE DEF r
        <5> QED
          BY <5>1, <5>2 DEF Entries
      <4> HIDE DEF r
      <4>5. Atomic!Grant(c, r)
        BY <4>1, <4>3 DEF Atomic!Grant
      <4> QED
        BY <4>4, <4>5 DEF Atomic!Next
    <3> QED
      BY <3>2, <3>3
  <2>5. CASE UNCHANGED vars
    BY <2>5 DEF vars, granted
  <2> QED
    BY <2>2, <2>3, <2>4, <2>5 DEF Next, Handler
<1> QED
  BY <1>1, <1>2, HeldIsolated, LockserverInvariant, PTL
  DEF Spec, ImplementsAtomicLocks, Atomic!Spec
=============================================================================
