\* The floats near the start balance are 64 dollars apart, as those near
\* 1000000000 are with 24 bits.
SPECIFICATION Spec
CONSTANTS
  Accounts = {a1, a2}
  Precision = 8
  StartBalance = 12800
INVARIANT
  PaymentConserves
