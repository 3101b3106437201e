----------------------------- MODULE MCCurrency -----------------------------
(* Small instances of CurrencyRates. *)
EXTENDS CurrencyRates

CONSTANTS r1, w1, A, B

JustUSDtoA == {<<USD, A>>}
JustAtoB   == {<<A, B>>}
Nothing    == {}
=============================================================================
