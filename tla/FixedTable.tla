----------------------------- MODULE FixedTable -----------------------------
(***************************************************************************)
(* The MICA FixedTable of a primary (src/mica2/.../fixedtable_impl) at the *)
(* grain of single memory accesses, under the datastore RPC handler.  Each *)
(* caller's requests are served in turn by one worker thread; here every   *)
(* caller has a thread of its own, which includes all coarser schedules.   *)
(*                                                                         *)
(* An access that another thread can see or disturb is a step.  What a     *)
(* thread reads under a lock that it holds cannot change, so those reads   *)
(* are joined to the next step.  A value is two words, copied one by one.  *)
(***************************************************************************)
EXTENDS Naturals, FiniteSets, FiniteSetsExt, SequencesExt

CONSTANTS
  Callers, Keys, Vals, Absent, StaleVersions,   \* as in AtomicTable
  NumBuckets, NumExtra,   \* num_buckets_ and num_extra_buckets_
  Cap,                    \* kBucketCap, the slots of a bucket
  BucketOf,               \* calc_bucket_index()
  InitKeys,               \* the keys of ds_fixedtable_populate(), in order
  InitVal,                \* the value they get
  InvalidKey,             \* kFtInvalidKey
  NoCaller,               \* kInvalidCallerId
  Targets,                \* bound: the keys that each caller uses
  MaxCalls                \* bound: reads and lock requests of each caller

ASSUME TableAssumption ==
  /\ NumBuckets \in Nat \ {0} /\ NumExtra \in Nat /\ Cap \in Nat \ {0}
  /\ BucketOf \in [Keys -> 1 .. NumBuckets]
  /\ InvalidKey \notin Keys /\ NoCaller \notin Callers /\ Absent \notin Vals
  /\ Targets \in [Callers -> SUBSET Keys]
  /\ MaxCalls \in [Callers -> Nat]

\* Extra buckets follow the main ones in memory and are numbered from 1; index 0
\* ends a chain.
Addrs == 1 .. NumBuckets + NumExtra
Addr(e) == NumBuckets + e
Slots == 1 .. Cap

VARIABLES
  timestamp, lockerId, numLocks,  \* headers of the main buckets
  keyArr, word, next,             \* of every bucket: keys, values, chain
  head, listLock,                 \* extra_bucket_free_list_
  pc, at,                         \* where each thread is, and its locals
  calls,                          \* requests counted against MaxCalls
  req, ans, down,                 \* as in AtomicTable
  contents, hold, phase           \* auxiliary: see AtomicTable

header == <<timestamp, lockerId, numLocks>>
table == <<keyArr, word, next>>
freeList == <<head, listLock>>
abstract == <<contents, hold, phase>>
vars == <<header, table, freeList, pc, at, calls, req, ans, down, abstract>>

\* The locals that an idle thread does not use.
NoLocals == [ts |-> 0, cur |-> 0, slot |-> 0, lo |-> Absent, hi |-> Absent,
             extra |-> 0, moved |-> 0, more |-> FALSE]

\* The buckets of a chain, in order, given the chain pointers nx.
Chain(nx, a) ==
  LET extend(ch) == LET index == nx[Last(ch)] IN
                    IF index = 0 THEN ch ELSE Append(ch, Addr(index))
      walk[n \in 0 .. NumExtra] == IF n = 0 THEN <<a>> ELSE extend(walk[n - 1])
  IN walk[NumExtra]

\* Its slots <<address, index>>, in order.
ChainSlots(nx, a) ==
  LET ch == Chain(nx, a) IN
  [n \in 1 .. Len(ch) * Cap |-> <<ch[1 + ((n - 1) \div Cap)], 1 + ((n - 1) % Cap)>>]

\* find_item_index(), and the search of get_empty() when k is InvalidKey: the
\* first slot that has the key k, as a sequence of length one, or <<>>.
Find(keys, nx, a, k) ==
  LET s == ChainSlots(nx, a)
      n == SelectInSeq(s, LAMBDA p : keys[p[1]][p[2]] = k)
  IN IF n = 0 THEN <<>> ELSE <<s[n]>>

-----------------------------------------------------------------------------
(* reset() and ds_fixedtable_populate().                                   *)

\* Mutant: the loop that links the free list runs one bucket too far.
EmptyTable_OffByOne ==
  [keyArr |-> [a \in Addrs |-> [i \in Slots |-> InvalidKey]],
   next |-> [a \in Addrs |-> IF a > NumBuckets THEN a - NumBuckets + 1 ELSE 0],
   head |-> IF NumExtra = 0 THEN 0 ELSE 1]

EmptyTable ==
  [keyArr |-> [a \in Addrs |-> [i \in Slots |-> InvalidKey]],
   next |-> [a \in Addrs |-> IF a > NumBuckets /\ a < NumBuckets + NumExtra
                             THEN a - NumBuckets + 1 ELSE 0],
   head |-> IF NumExtra = 0 THEN 0 ELSE 1]

\* set_spinlock() of a new key k in table t, with room for it.
Insert(t, k) ==
  LET found == Find(t.keyArr, t.next, BucketOf[k], InvalidKey)
      tail == Last(Chain(t.next, BucketOf[k]))
  IN IF found # <<>>
     THEN [t EXCEPT !.keyArr[found[1][1]][found[1][2]] = k]
     ELSE [keyArr |-> [t.keyArr EXCEPT ![Addr(t.head)][1] = k],
           next |-> [t.next EXCEPT ![tail] = t.head, ![Addr(t.head)] = 0],
           head |-> t.next[Addr(t.head)]]

PopulatedTable == FoldLeft(Insert, EmptyTable, InitKeys)

Init ==
  /\ timestamp = [b \in 1 .. NumBuckets |-> 0]
  /\ lockerId = [b \in 1 .. NumBuckets |-> NoCaller]
  /\ numLocks = [b \in 1 .. NumBuckets |-> 0]
  /\ keyArr = PopulatedTable.keyArr
  /\ next = PopulatedTable.next
  /\ head = PopulatedTable.head
  /\ word = [a \in Addrs |-> [i \in Slots |-> <<InitVal, InitVal>>]]
  /\ listLock = FALSE
  /\ pc = [c \in Callers |-> "idle"]
  /\ at = [c \in Callers |-> NoLocals]
  /\ calls = [c \in Callers |-> 0]
  /\ req = [c \in Callers |-> [type |-> "none"]]
  /\ ans = [c \in Callers |-> [type |-> "none"]]
  /\ down = FALSE
  /\ contents = [k \in Keys |-> IF k \in Range(InitKeys) THEN InitVal ELSE Absent]
  /\ hold = [c \in Callers |-> {}]
  /\ phase = [c \in Callers |-> "exec"]

\* The table as its callers see it.
Atomic == INSTANCE AtomicTable WITH
  Buckets <- 1 .. NumBuckets,
  Populated <- [k \in Keys |-> IF k \in Range(InitKeys) THEN InitVal ELSE Absent],
  version <- [b \in 1 .. NumBuckets |-> timestamp[b] \div 2]

-----------------------------------------------------------------------------
Bucket(c) == BucketOf[req[c].key]
Is(c, label) == pc[c] = label /\ ~down
Odd(n) == n % 2 = 1

Goto(c, label, locals) ==
  /\ pc' = [pc EXCEPT ![c] = label]
  /\ at' = [at EXCEPT ![c] = locals]
  /\ UNCHANGED <<calls, req, ans, down, abstract>>

\* The handler returns.
Return(c, answer) ==
  /\ pc' = [pc EXCEPT ![c] = "idle"]
  /\ at' = [at EXCEPT ![c] = NoLocals]
  /\ req' = [req EXCEPT ![c] = [type |-> "none"]]
  /\ ans' = [ans EXCEPT ![c] = answer]
  /\ UNCHANGED calls

\* A request reaches the handler, which looks at its type.
EntryPoint(type) ==
  CASE type = "get_rdonly" -> "get"
    [] type \in {"get_for_upd", "lock_for_ins"} -> "lock"
    [] type = "put" -> "set"
    [] type = "del" -> "del"
    [] type = "unlock" -> "unlock"

Call(c, type, k, v) ==
  /\ Is(c, "idle")
  /\ LET counted == type \in {"get_rdonly", "get_for_upd", "lock_for_ins"} IN
     /\ counted => calls[c] < MaxCalls[c]
     /\ calls' = [calls EXCEPT ![c] = IF counted THEN @ + 1 ELSE @]
  /\ UNCHANGED <<header, table, freeList, at>>
  /\ Atomic!Call(c, type, k, v)
  /\ pc' = [pc EXCEPT ![c] = EntryPoint(type)]

-----------------------------------------------------------------------------
(* get.h                                                                   *)

\* Mutant: get() does not ask whether the timestamp is that of a locked bucket.
GetStart_LockedToo(c) ==
  LET b == Bucket(c) IN
  /\ Is(c, "get")
  /\ Goto(c, "find", [NoLocals EXCEPT !.ts = timestamp[b], !.cur = b, !.slot = 1])
  /\ UNCHANGED <<header, table, freeList>>

\* read_timestamp(); the caller's own lock is looked at if it is odd.
GetStart(c) ==
  LET b == Bucket(c)
      found == Find(keyArr, next, b, req[c].key)
  IN
  /\ Is(c, "get")
  /\ \/ /\ ~Odd(timestamp[b])
        /\ Goto(c, "find", [NoLocals EXCEPT !.ts = timestamp[b], !.cur = b, !.slot = 1])
     \/ /\ Odd(timestamp[b]) /\ lockerId[b] = c
        /\ IF found # <<>>
           THEN Return(c, [type |-> "success", val |-> word[found[1][1]][found[1][2]],
                           ver |-> timestamp[b] \div 2])
           ELSE \E w \in StaleVersions : Return(c, [type |-> "not_found", ver |-> w])
        /\ UNCHANGED <<down, abstract>>
     \/ /\ Odd(timestamp[b]) /\ lockerId[b] # c
        /\ Return(c, [type |-> "locked"])
        /\ UNCHANGED <<down, abstract>>
  /\ UNCHANGED <<header, table, freeList>>

\* find_item_index() without a lock: one key of the chain at a time.
FindItem(c) ==
  /\ Is(c, "find")
  /\ \/ /\ keyArr[at[c].cur][at[c].slot] = req[c].key
        /\ Goto(c, "copy_lo", at[c])
     \/ /\ keyArr[at[c].cur][at[c].slot] # req[c].key
        /\ IF at[c].slot < Cap THEN Goto(c, "find", [at[c] EXCEPT !.slot = @ + 1])
                               ELSE Goto(c, "has_extra", at[c])
  /\ UNCHANGED <<header, table, freeList>>

\* has_extra_bucket() reads the index.
HasExtraBucket(c) ==
  /\ Is(c, "has_extra")
  /\ IF next[at[c].cur] = 0 THEN Goto(c, "check", [at[c] EXCEPT !.cur = 0])
                            ELSE Goto(c, "extra", [at[c] EXCEPT !.extra = next[at[c].cur]])
  /\ UNCHANGED <<header, table, freeList>>

\* The index that find_item_index() passes to get_extra_bucket() is read once
\* more, or is the one that has_extra_bucket() saw if the compiler joins the two
\* reads.  The process aborts if it has become 0: assert(extra_bucket_index != 0).
GetExtraBucket(c) ==
  /\ Is(c, "extra")
  /\ \E index \in {at[c].extra, next[at[c].cur]} :
       \/ /\ index # 0
          /\ Goto(c, "find", [at[c] EXCEPT !.cur = Addr(index), !.slot = 1, !.extra = 0])
       \/ /\ index = 0
          /\ down' = TRUE
          /\ UNCHANGED <<pc, at, calls, req, ans, abstract>>
  /\ UNCHANGED <<header, table, freeList>>

\* The memcpy of get().
CopyValue(c) ==
  LET val == word[at[c].cur][at[c].slot] IN
  /\ \/ Is(c, "copy_lo") /\ Goto(c, "copy_hi", [at[c] EXCEPT !.lo = val[1]])
     \/ Is(c, "copy_hi") /\ Goto(c, "check", [at[c] EXCEPT !.hi = val[2]])
  /\ UNCHANGED <<header, table, freeList>>

\* Mutant: get() does not read the timestamp again.
GetCheck_Once(c) ==
  /\ Is(c, "check")
  /\ IF at[c].cur # 0
     THEN Return(c, [type |-> "success", val |-> <<at[c].lo, at[c].hi>>,
                     ver |-> at[c].ts \div 2])
     ELSE Return(c, [type |-> "not_found", ver |-> at[c].ts \div 2])
  /\ UNCHANGED <<header, table, freeList, down, abstract>>

\* The second read_timestamp() decides.
GetCheck(c) ==
  LET b == Bucket(c) IN
  /\ Is(c, "check")
  /\ \/ /\ timestamp[b] # at[c].ts
        /\ Return(c, [type |-> "locked"])
     \/ /\ timestamp[b] = at[c].ts /\ at[c].cur # 0
        /\ Return(c, [type |-> "success", val |-> <<at[c].lo, at[c].hi>>,
                      ver |-> at[c].ts \div 2])
     \/ /\ timestamp[b] = at[c].ts /\ at[c].cur = 0
        /\ Return(c, [type |-> "not_found", ver |-> at[c].ts \div 2])
  /\ UNCHANGED <<header, table, freeList, down, abstract>>

-----------------------------------------------------------------------------
(* lock.h, lock_bkt_and_get.h, lock_bkt_for_ins.h, unlock_bkt.h            *)

\* lock_bucket_ptr(): read the timestamp, assume it even, compare and swap.
LockRead(c) ==
  LET ts == timestamp[Bucket(c)] IN
  /\ Is(c, "lock")
  /\ Goto(c, "cas", [NoLocals EXCEPT !.ts = 2 * (ts \div 2)])
  /\ UNCHANGED <<header, table, freeList>>

\* Mutant: the timestamp is set without comparing.
LockCas_NoCompare(c) ==
  LET b == Bucket(c) IN
  /\ Is(c, "cas")
  /\ timestamp' = [timestamp EXCEPT ![b] = at[c].ts + 1]
  /\ Goto(c, "record", NoLocals)
  /\ UNCHANGED <<lockerId, numLocks, table, freeList>>

\* Mutant: the lock is not re-entrant.
LockCas_OnceOnly(c) ==
  LET b == Bucket(c) IN
  /\ Is(c, "cas")
  /\ \/ /\ timestamp[b] = at[c].ts
        /\ timestamp' = [timestamp EXCEPT ![b] = @ + 1]
        /\ Goto(c, "record", NoLocals)
        /\ UNCHANGED <<lockerId, numLocks>>
     \/ /\ timestamp[b] # at[c].ts
        /\ Return(c, [type |-> "locked"])
        /\ UNCHANGED <<header, down, abstract>>
  /\ UNCHANGED <<table, freeList>>

\* Mutant: a lock request waits for the lock instead of failing.
LockCas_Waits(c) ==
  LET b == Bucket(c) IN
  /\ Is(c, "cas")
  /\ \/ /\ timestamp[b] = at[c].ts
        /\ timestamp' = [timestamp EXCEPT ![b] = @ + 1]
        /\ Goto(c, "record", NoLocals)
        /\ UNCHANGED <<lockerId, numLocks>>
     \/ /\ timestamp[b] # at[c].ts /\ lockerId[b] = c
        /\ numLocks' = [numLocks EXCEPT ![b] = @ + 1]
        /\ Goto(c, "locked", NoLocals)
        /\ UNCHANGED <<timestamp, lockerId>>
     \/ /\ timestamp[b] # at[c].ts /\ lockerId[b] # c
        /\ Goto(c, "lock", NoLocals)
        /\ UNCHANGED header
  /\ UNCHANGED <<table, freeList>>

LockCas(c) ==
  LET b == Bucket(c) IN
  /\ Is(c, "cas")
  /\ \/ /\ timestamp[b] = at[c].ts
        /\ timestamp' = [timestamp EXCEPT ![b] = @ + 1]
        /\ Goto(c, "record", NoLocals)
        /\ UNCHANGED <<lockerId, numLocks>>
     \/ /\ timestamp[b] # at[c].ts /\ lockerId[b] = c
        /\ numLocks' = [numLocks EXCEPT ![b] = @ + 1]
        /\ Goto(c, "locked", NoLocals)
        /\ UNCHANGED <<timestamp, lockerId>>
     \/ /\ timestamp[b] # at[c].ts /\ lockerId[b] # c
        /\ Return(c, [type |-> "locked"])
        /\ UNCHANGED <<header, down, abstract>>
  /\ UNCHANGED <<table, freeList>>

LockRecord(c) ==
  /\ Is(c, "record")
  /\ lockerId' = [lockerId EXCEPT ![Bucket(c)] = c]
  /\ numLocks' = [numLocks EXCEPT ![Bucket(c)] = 1]
  /\ Goto(c, "locked", NoLocals)
  /\ UNCHANGED <<timestamp, table, freeList>>

\* The key is looked up under the lock, which is kept or given back.
Locked(c) ==
  LET b == Bucket(c)
      found == Find(keyArr, next, b, req[c].key)
  IN
  /\ Is(c, "locked")
  /\ IF (found # <<>>) = (req[c].type = "get_for_upd")
     THEN /\ Return(c,
               IF found = <<>> THEN [type |-> "success", ver |-> timestamp[b] \div 2]
               ELSE [type |-> "success", val |-> word[found[1][1]][found[1][2]],
                     ver |-> timestamp[b] \div 2])
          /\ hold' = [hold EXCEPT ![c] = @ \cup {req[c].key}]
          /\ UNCHANGED <<down, contents, phase>>
     ELSE Goto(c, "unlock", at[c])
  /\ UNCHANGED <<header, table, freeList>>

\* How a request that ends with unlock_bucket_ptr() is answered.
ReturnUnlocked(c) ==
  LET k == req[c].key
      full == req[c].type = "put" /\ at[c].more
  IN
  /\ Return(c, [type |-> CASE req[c].type = "get_for_upd" -> "not_found"
                           [] req[c].type = "lock_for_ins" -> "exists"
                           [] full -> "no_space"
                           [] OTHER -> "success"])
  /\ down' = full
  /\ contents' = IF req[c].type \in {"put", "del"} /\ ~full
                 THEN [contents EXCEPT ![k] = req[c].val] ELSE contents
  /\ hold' = [hold EXCEPT ![c] = @ \ {k}]
  /\ phase' = [phase EXCEPT ![c] = IF hold[c] \ {k} = {} THEN "exec" ELSE @]

\* unlock_bucket_ptr(): the locker is forgotten before the lock bit goes.
Unlock(c) ==
  LET b == Bucket(c) IN
  /\ Is(c, "unlock")
  /\ \/ /\ numLocks[b] = 1
        /\ lockerId' = [lockerId EXCEPT ![b] = NoCaller]
        /\ numLocks' = [numLocks EXCEPT ![b] = 0]
        /\ Goto(c, "release", at[c])
     \/ /\ numLocks[b] # 1
        /\ numLocks' = [numLocks EXCEPT ![b] = @ - 1]
        /\ ReturnUnlocked(c)
        /\ UNCHANGED lockerId
  /\ UNCHANGED <<timestamp, table, freeList>>

UnlockRelease(c) ==
  /\ Is(c, "release")
  /\ timestamp' = [timestamp EXCEPT ![Bucket(c)] = @ + 1]
  /\ ReturnUnlocked(c)
  /\ UNCHANGED <<lockerId, numLocks, table, freeList>>

-----------------------------------------------------------------------------
(* set.h, item.h, and get_empty() and alloc_extra_bucket() of bucket.h     *)

\* The slot of the key, else an empty slot of the chain, else a new bucket.
SetFind(c) ==
  LET b == Bucket(c)
      found == Find(keyArr, next, b, req[c].key)
      slot == IF found # <<>> THEN found ELSE Find(keyArr, next, b, InvalidKey)
  IN
  /\ Is(c, "set")
  /\ IF slot # <<>>
     THEN Goto(c, "set_key", [NoLocals EXCEPT !.cur = slot[1][1], !.slot = slot[1][2]])
     ELSE Goto(c, "alloc", [NoLocals EXCEPT !.cur = Last(Chain(next, b))])
  /\ UNCHANGED <<header, table, freeList>>

\* The free list is locked, and its head taken.
AllocTake(c) ==
  /\ Is(c, "alloc")
  /\ ~listLock
  /\ \/ /\ head = 0
        /\ Goto(c, "unlock", [NoLocals EXCEPT !.more = TRUE])
        /\ UNCHANGED freeList
     \/ /\ head # 0
        /\ Goto(c, "alloc_end", [at[c] EXCEPT !.extra = head])
        /\ head' = next[Addr(head)]
        /\ listLock' = TRUE
  /\ UNCHANGED <<header, table>>

AllocEnd(c) ==
  /\ Is(c, "alloc_end")
  /\ next' = [next EXCEPT ![Addr(at[c].extra)] = 0]
  /\ Goto(c, "alloc_link", at[c])
  /\ UNCHANGED <<header, keyArr, word, freeList>>

AllocLink(c) ==
  /\ Is(c, "alloc_link")
  /\ next' = [next EXCEPT ![at[c].cur] = at[c].extra]
  /\ listLock' = FALSE
  /\ Goto(c, "set_key", [NoLocals EXCEPT !.cur = Addr(at[c].extra), !.slot = 1])
  /\ UNCHANGED <<header, keyArr, word, head>>

\* set_item(): the key, then the value word by word.
SetKey(c) ==
  /\ Is(c, "set_key")
  /\ keyArr' = [keyArr EXCEPT ![at[c].cur][at[c].slot] = req[c].key]
  /\ Goto(c, "set_lo", at[c])
  /\ UNCHANGED <<header, word, next, freeList>>

SetValue(c) ==
  /\ \/ /\ Is(c, "set_lo")
        /\ word' = [word EXCEPT ![at[c].cur][at[c].slot][1] = req[c].val]
        /\ Goto(c, "set_hi", at[c])
     \/ /\ Is(c, "set_hi")
        /\ word' = [word EXCEPT ![at[c].cur][at[c].slot][2] = req[c].val]
        /\ Goto(c, "unlock", NoLocals)
  /\ UNCHANGED <<header, keyArr, next, freeList>>

-----------------------------------------------------------------------------
(* del.h, and fill_hole() and free_extra_bucket() of bucket.h              *)

DelKey(c) ==
  LET slot == Find(keyArr, next, Bucket(c), req[c].key)[1] IN
  /\ Is(c, "del")
  /\ keyArr' = [keyArr EXCEPT ![slot[1]][slot[2]] = InvalidKey]
  /\ Goto(c, "hole", [NoLocals EXCEPT !.cur = slot[1], !.slot = slot[2]])
  /\ UNCHANGED <<header, word, next, freeList>>

\* The last bucket of the chain from the hole on, and its used slots.
LastBucket(c) == Last(Chain(next, at[c].cur))
UsedSlots(a) == {i \in Slots : keyArr[a][i] # InvalidKey}

\* One turn of the loop of fill_hole(): "more" says whether another follows.
FillHole(c) ==
  LET used == UsedSlots(LastBucket(c)) IN
  /\ Is(c, "hole")
  /\ \/ /\ next[at[c].cur] = 0
        /\ Goto(c, "unlock", NoLocals)
     \/ /\ next[at[c].cur] # 0 /\ used = {}
        /\ Goto(c, "free", [at[c] EXCEPT !.more = TRUE])
     \/ /\ next[at[c].cur] # 0 /\ used # {}
        /\ Goto(c, "move_key", [at[c] EXCEPT !.more = FALSE, !.moved = Min(used)])
  /\ UNCHANGED <<header, table, freeList>>

MoveKey(c) ==
  /\ Is(c, "move_key")
  /\ keyArr' = [keyArr EXCEPT ![at[c].cur][at[c].slot] = keyArr[LastBucket(c)][at[c].moved]]
  /\ Goto(c, "move_lo", at[c])
  /\ UNCHANGED <<header, word, next, freeList>>

MoveValue(c) ==
  LET val == word[LastBucket(c)][at[c].moved] IN
  /\ \/ /\ Is(c, "move_lo")
        /\ word' = [word EXCEPT ![at[c].cur][at[c].slot][1] = val[1]]
        /\ Goto(c, "move_hi", at[c])
     \/ /\ Is(c, "move_hi")
        /\ word' = [word EXCEPT ![at[c].cur][at[c].slot][2] = val[2]]
        /\ Goto(c, "move_end", at[c])
  /\ UNCHANGED <<header, keyArr, next, freeList>>

\* Mutant: the bucket is freed although it has more items.
MoveEnd_AlwaysFree(c) ==
  /\ Is(c, "move_end")
  /\ keyArr' = [keyArr EXCEPT ![LastBucket(c)][at[c].moved] = InvalidKey]
  /\ Goto(c, "free", at[c])
  /\ UNCHANGED <<header, word, next, freeList>>

MoveEnd(c) ==
  /\ Is(c, "move_end")
  /\ keyArr' = [keyArr EXCEPT ![LastBucket(c)][at[c].moved] = InvalidKey]
  /\ IF Cardinality(UsedSlots(LastBucket(c))) = 1 THEN Goto(c, "free", at[c])
                                                  ELSE Goto(c, "unlock", NoLocals)
  /\ UNCHANGED <<header, word, next, freeList>>

\* free_extra_bucket() detaches the last bucket, then puts it on the free list.
FreeDetach(c) ==
  LET ch == Chain(next, at[c].cur) IN
  /\ Is(c, "free")
  /\ next' = [next EXCEPT ![ch[Len(ch) - 1]] = 0]
  /\ Goto(c, "free_link", [at[c] EXCEPT !.extra = next[ch[Len(ch) - 1]]])
  /\ UNCHANGED <<header, keyArr, word, freeList>>

\* Mutant: the detached bucket is not made the head of the free list.
FreeLink_Lost(c) ==
  /\ Is(c, "free_link")
  /\ ~listLock
  /\ next' = [next EXCEPT ![Addr(at[c].extra)] = head]
  /\ IF at[c].more THEN Goto(c, "hole", [at[c] EXCEPT !.extra = 0, !.more = FALSE])
                   ELSE Goto(c, "unlock", NoLocals)
  /\ UNCHANGED <<header, keyArr, word, freeList>>

FreeLink(c) ==
  /\ Is(c, "free_link")
  /\ ~listLock
  /\ next' = [next EXCEPT ![Addr(at[c].extra)] = head]
  /\ head' = at[c].extra
  /\ IF at[c].more THEN Goto(c, "hole", [at[c] EXCEPT !.extra = 0, !.more = FALSE])
                   ELSE Goto(c, "unlock", NoLocals)
  /\ UNCHANGED <<header, keyArr, word, listLock>>

-----------------------------------------------------------------------------
Serve(c) ==
  \/ GetStart(c) \/ FindItem(c) \/ HasExtraBucket(c) \/ GetExtraBucket(c)
  \/ CopyValue(c) \/ GetCheck(c)
  \/ LockRead(c) \/ LockCas(c) \/ LockRecord(c) \/ Locked(c)
  \/ Unlock(c) \/ UnlockRelease(c)
  \/ SetFind(c) \/ AllocTake(c) \/ AllocEnd(c) \/ AllocLink(c)
  \/ SetKey(c) \/ SetValue(c)
  \/ DelKey(c) \/ FillHole(c) \/ MoveKey(c) \/ MoveValue(c) \/ MoveEnd(c)
  \/ FreeDetach(c) \/ FreeLink(c)

Next ==
  \E c \in Callers :
    \/ \E type \in Atomic!Types, k \in Targets[c], v \in Vals \cup {Absent} :
         Call(c, type, k, v)
    \/ Serve(c)

Spec == Init /\ [][Next]_vars

\* A worker thread that serves a request is never stopped in the middle.
FairSpec == Spec /\ \A c \in Callers : WF_vars(Serve(c))

-----------------------------------------------------------------------------
(* Properties.                                                             *)

\* Every variable has its type: no chain or free list leaves the extra buckets.
TypeOK ==
  /\ timestamp \in [1 .. NumBuckets -> Nat]
  /\ lockerId \in [1 .. NumBuckets -> Callers \cup {NoCaller}]
  /\ numLocks \in [1 .. NumBuckets -> Nat]
  /\ keyArr \in [Addrs -> [Slots -> Keys \cup {InvalidKey}]]
  /\ word \in [Addrs -> [Slots -> (Vals \cup {InitVal}) \X (Vals \cup {InitVal})]]
  /\ next \in [Addrs -> 0 .. NumExtra]
  /\ head \in 0 .. NumExtra
  /\ listLock \in BOOLEAN
  /\ calls \in [Callers -> Nat]
  /\ \A c \in Callers : at[c].cur \in Addrs \cup {0} /\ at[c].extra \in 0 .. NumExtra

\* The threads that are changing the chain of bucket b.
Writing(c, b) ==
  /\ req[c].type \in {"put", "del"}
  /\ Bucket(c) = b
  /\ pc[c] # EntryPoint(req[c].type)

\* The locks of b that c has: those of the keys it was granted, and the one a
\* lock request has taken but not yet kept or given back.
LocksOf(c, b) ==
  Cardinality({k \in hold[c] : BucketOf[k] = b})
    + IF /\ pc[c] \in {"record", "locked", "unlock", "release"}
         /\ req[c].type \in {"get_for_upd", "lock_for_ins"}
         /\ Bucket(c) = b
      THEN 1 ELSE 0

\* The bucket lock excludes: at most one caller has locks of a bucket, the
\* timestamp is odd exactly then, and locker_id and num_locks name the caller
\* and count its locks except in the two windows in which they are written.
BucketLockExclusive ==
  \A b \in 1 .. NumBuckets :
    LET owners == {c \in Callers : LocksOf(c, b) > 0}
        window(c) == pc[c] \in {"record", "release"} /\ Bucket(c) = b
    IN
    /\ Cardinality(owners) <= 1
    /\ Odd(timestamp[b]) <=> owners # {}
    /\ \A c \in owners :
         IF window(c) THEN lockerId[b] = NoCaller /\ numLocks[b] = 0
                      ELSE lockerId[b] = c /\ numLocks[b] = LocksOf(c, b)
    /\ owners = {} => lockerId[b] = NoCaller /\ numLocks[b] = 0

\* A bucket that no thread is writing to stores each of its keys once, with
\* both words of its value, and no other key: allocating, moving and freeing
\* extra buckets loses, duplicates and tears nothing.
ChainsHoldContents ==
  \A b \in 1 .. NumBuckets : (\A c \in Callers : ~Writing(c, b)) =>
    LET slots == {p \in Range(ChainSlots(next, b)) : keyArr[p[1]][p[2]] # InvalidKey}
        keyAt(p) == keyArr[p[1]][p[2]]
    IN
    /\ \A p, q \in slots : keyAt(p) = keyAt(q) => p = q
    /\ {keyAt(p) : p \in slots} = {k \in Keys : BucketOf[k] = b /\ contents[k] # Absent}
    /\ \A p \in slots : word[p[1]][p[2]] = <<contents[keyAt(p)], contents[keyAt(p)]>>

\* Every extra bucket is at one place: on the free list, in one chain, or in the
\* hands of the one thread that is moving it between the two.
ExtraBucketsAccounted ==
  LET free == IF head = 0 THEN {} ELSE Range(Chain(next, Addr(head)))
      extras(b) == Range(Chain(next, b)) \ {b}
      inHand == {c \in Callers : pc[c] \in {"alloc_end", "alloc_link", "free_link"}}
      places(a) == Cardinality({b \in 1 .. NumBuckets : a \in extras(b)})
                     + Cardinality({c \in inHand : Addr(at[c].extra) = a})
                     + IF a \in free THEN 1 ELSE 0
  IN \A a \in Addrs : places(a) = IF a > NumBuckets THEN 1 ELSE 0

\* As long as nobody has locked its bucket since get() read the timestamp, a
\* reader is in that bucket's own chain, and the index it is about to follow is
\* the one that has_extra_bucket() saw.  So the assertions of get_extra_bucket()
\* can fail, and a walk can stray into a bucket that was freed and linked
\* elsewhere, only if the second read of the timestamp would refuse the answer.
WalkInChain ==
  \A c \in Callers :
    /\ pc[c] \in {"find", "has_extra", "extra", "copy_lo", "copy_hi"}
    /\ timestamp[Bucket(c)] = at[c].ts
    => /\ at[c].cur \in Range(Chain(next, Bucket(c)))
       /\ pc[c] = "extra" => next[at[c].cur] = at[c].extra

\* The table implements the atomic one: whatever other threads do meanwhile, a
\* get() returns a value that was whole and current at one instant of the call,
\* with the version of that instant, and a write or lock takes effect at once.
ImplementsAtomicTable == Atomic!Spec

\* A handler always returns, unless the process ends: neither a bucket that a
\* silent coordinator has locked, nor the spin lock of the free list, can hold it
\* for ever, and the loop of fill_hole() ends.  (Callers make MaxCalls calls: what
\* a reader's walk would do under writers without end is not asked.)
HandlersReturn ==
  \A c \in Callers : (req[c].type # "none") ~> (req[c].type = "none" \/ down)
=============================================================================
