---------------------------- MODULE MCLockserver ----------------------------
(* Three coordinators at two locks: two of them with two keys each, which  *)
(* they may ask for in opposite orders, and one with one key.              *)
EXTENDS Lockserver

CONSTANTS c1, c2, c3

TwoTwoOne == [c \in {c1, c2, c3} |-> IF c = c3 THEN {1} ELSE {2}]
=============================================================================
