----------------------------- MODULE SmallBank -----------------------------
(***************************************************************************)
(* The SmallBank benchmark (src/app/smallbank): its six transactions, on   *)
(* saving and checking accounts whose balances are of type float.          *)
(*                                                                         *)
(* A transaction is one step.  Module TxHistory shows that committed       *)
(* transactions are serializable and that an aborted one leaves no trace,  *)
(* so an abort is no step at all.                                          *)
(*                                                                         *)
(* Balances and amounts are in dollars.  A float has Precision significant *)
(* bits (24 in the code) and the result of every operation is rounded to   *)
(* the nearest float, ties to even.                                        *)
(***************************************************************************)
EXTENDS Integers

CONSTANTS
  Accounts,
  Precision,    \* significant bits of a float
  StartBalance  \* the balance that every account is populated with

VARIABLES
  sav, chk,     \* sav[a], chk[a]: the balances of account a
  paid          \* auxiliary: the checking accounts before the last payment

vars == <<sav, chk, paid>>

\* The distance between floats of the size of n.
Ulp(n) ==
  2 ^ (CHOOSE e \in 0 .. 31 - Precision :
         /\ n < 2 ^ (Precision + e)
         /\ e = 0 \/ n >= 2 ^ (Precision + e - 1))

\* The float nearest to n >= 0.
Nearest(n) ==
  LET u == Ulp(n)
      up == 2 * (n % u) > u \/ (2 * (n % u) = u /\ (n \div u) % 2 = 1)
  IN u * (IF up THEN n \div u + 1 ELSE n \div u)

Float(x) == IF x < 0 THEN -Nearest(-x) ELSE Nearest(x)

Plus(x, y) == Float(x + y)
Minus(x, y) == Float(x - y)

\* The amounts of the transactions, to the dollar.
DepositAmount == 1       \* 1.3
PaymentAmount == 5
SavingAmount == 20       \* 20.20
CheckAmount == 5

Init ==
  /\ sav = [a \in Accounts |-> Float(StartBalance)]
  /\ chk = [a \in Accounts |-> Float(StartBalance)]
  /\ paid = {}

-----------------------------------------------------------------------------
\* txn_amalgamate()
Amalgamate(a, b) ==
  /\ chk' = [chk EXCEPT ![b] = Plus(@, Plus(sav[a], chk[a])), ![a] = 0]
  /\ sav' = [sav EXCEPT ![a] = 0]
  /\ paid' = {}

\* txn_balance() reads two balances.
Balance(a) ==
  /\ UNCHANGED <<sav, chk>>
  /\ paid' = {}

\* txn_deposit_checking()
DepositChecking(a) ==
  /\ chk' = [chk EXCEPT ![a] = Plus(@, DepositAmount)]
  /\ paid' = {}
  /\ UNCHANGED sav

\* txn_send_payment(), which aborts when a does not have the money.
SendPayment(a, b) ==
  /\ chk[a] >= PaymentAmount
  /\ chk' = [chk EXCEPT ![a] = Minus(@, PaymentAmount), ![b] = Plus(@, PaymentAmount)]
  /\ paid' = {[from |-> a, to |-> b, chk |-> chk]}
  /\ UNCHANGED sav

\* txn_transact_saving()
TransactSaving(a) ==
  /\ sav' = [sav EXCEPT ![a] = Plus(@, SavingAmount)]
  /\ paid' = {}
  /\ UNCHANGED chk

\* txn_write_check(), with a penalty for an account that is short.
WriteCheck(a) ==
  LET short == Plus(sav[a], chk[a]) < CheckAmount IN
  /\ chk' = [chk EXCEPT ![a] = Minus(@, IF short THEN Plus(CheckAmount, 1) ELSE CheckAmount)]
  /\ paid' = {}
  /\ UNCHANGED sav

Next ==
  \E a \in Accounts :
    \/ Balance(a) \/ DepositChecking(a) \/ TransactSaving(a) \/ WriteCheck(a)
    \/ \E b \in Accounts \ {a} : Amalgamate(a, b) \/ SendPayment(a, b)

Spec == Init /\ [][Next]_vars

-----------------------------------------------------------------------------
\* What the comment on txn_send_payment() says: money goes from one checking
\* account to another one.  Their sum is what it was.
PaymentConserves ==
  \A p \in paid : chk[p.from] + chk[p.to] = p.chk[p.from] + p.chk[p.to]
=============================================================================
