---------------------------- MODULE AtomicLocks ----------------------------
(***************************************************************************)
(* What the lock server promises a coordinator: all the locks of its       *)
(* request are granted at one moment at which no other coordinator has a   *)
(* conflicting one, or none is granted (a step that changes nothing), and  *)
(* they stay granted until the coordinator gives them back.                *)
(***************************************************************************)
CONSTANTS Coros, Locks

VARIABLE held    \* held[c]: the <<lock, exclusive>> pairs granted to c

Init == held = [c \in Coros |-> {}]

Conflict(a, b) == a[1] = b[1] /\ (a[2] \/ b[2])

Grant(c, r) ==
  /\ held[c] = {}
  /\ \A d \in Coros \ {c} : \A a \in r, b \in held[d] : ~Conflict(a, b)
  /\ held' = [held EXCEPT ![c] = r]

Release(c) == held' = [held EXCEPT ![c] = {}]

Next ==
  \E c \in Coros : Release(c) \/ \E r \in SUBSET (Locks \X BOOLEAN) : Grant(c, r)

Spec == Init /\ [][Next]_held
=============================================================================
