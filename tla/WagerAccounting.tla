------------------------- MODULE WagerAccounting -------------------------
(***************************************************************************)
(* What one wager is worth to the account that logged it, in cents: the    *)
(* two pure functions at the head of backend/db.py.                        *)
(***************************************************************************)
EXTENDS Integers

CONSTANT NoStake        \* actual_dollars_cents IS NULL: logged without a stake

ASSUME NoStakeAssumption == NoStake \notin Int

WagerStatus == {"OPEN", "WON", "LOST", "PUSH", "VOID", "CANCELLED"}
SettledStatus == WagerStatus \ {"OPEN"}

(***************************************************************************)
(* Decimal division with ROUND_HALF_UP, of a natural number by a positive  *)
(* one, as one floor division.                                             *)
(***************************************************************************)
HalfUp(num, den) == (2 * num + den) \div (2 * den)

\* Net winnings at American odds: +150 pays 150 on 100, -200 pays 100 on 200.
Profit(stake, price) ==
  IF price > 0 THEN HalfUp(stake * price, 100) ELSE HalfUp(stake * 100, -price)

(***************************************************************************)
(* The cumulative effect on the bankroll of a wager in its current state.  *)
(***************************************************************************)
Target(status, stake, price) ==
  CASE stake = NoStake                        -> 0
    [] stake # NoStake /\ status \in {"OPEN", "LOST"} -> -stake
    [] stake # NoStake /\ status = "WON"      -> Profit(stake, price)
    [] stake # NoStake /\ status \in {"PUSH", "VOID", "CANCELLED"} -> 0
===========================================================================
