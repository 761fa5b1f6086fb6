------------------------- MODULE MCBankrollLedger -------------------------
(***************************************************************************)
(* BankrollLedger for TLC.                                                 *)
(***************************************************************************)
EXTENDS BankrollLedger, TLC

\* Decimal odds both ways: 3 cents at +150 and at -200 win 4.5 and 1.5 cents.
MCPrices == {150, -200}
MCWagerSymmetry == Permutations(Wager)
===========================================================================
