------------------------------- MODULE Prices -------------------------------
(***************************************************************************)
(* What a price is worth: American odds, the break-even probability they   *)
(* stand for, the boundary down to which a wager may be played, the units  *)
(* it is given and the number that is shopped for.  A probability is an    *)
(* integer in ten-thousandths, and every comparison of the code's floats   *)
(* is cross-multiplied, so that it is exact.                               *)
(***************************************************************************)
EXTENDS Integers, FiniteSetsExt

One == 10000

Abs(x) == IF x < 0 THEN -x ELSE x

\* What is staked to win Gain(a), in the proportion the price states.
Risk(a) == IF a < 0 THEN -a ELSE 100
Gain(a) == IF a < 0 THEN 100 ELSE a

\* One * Risk(a) times the expected value of a unit at price a, when the
\* wager wins with probability q.
Worth(q, a) == q * (Risk(a) + Gain(a)) - One * Risk(a)

EvAtLeast(q, a, e) == Worth(q, a) >= e * Risk(a)

\* break_even_probability(a) <= q.
BreaksEvenAt(a, q) == Worth(q, a) >= 0

BreakEven(a) == (One * Risk(a)) \div (Risk(a) + Gain(a))

\* break_even(a) - break_even(b) compared with n / d.
Eases(a, b, n, d) ==
  d * (Risk(a) * (Risk(b) + Gain(b)) - Risk(b) * (Risk(a) + Gain(a)))
    >= n * (Risk(a) + Gain(a)) * (Risk(b) + Gain(b))

EasesAtMost(a, b, n, d) ==
  d * (Risk(a) * (Risk(b) + Gain(b)) - Risk(b) * (Risk(a) + Gain(a)))
    <= n * (Risk(a) + Gain(a)) * (Risk(b) + Gain(b))

\* Skips the prices that do not exist: -99 .. 99.
NextBetter(a) == IF a = -100 THEN 100 ELSE a + 1
NextWorse(a) == IF a = 100 THEN -101 ELSE a - 1

CeilDiv(n, d) == -((-n) \div d)

\* The worst price whose break-even probability q covers.  The boundary is the
\* mutant's: it rounds the boundary of a favourite towards zero.
ThresholdRounded(q) ==
  IF 2 * q <= One THEN CeilDiv(100 * (One - q), q) ELSE -CeilDiv(100 * q, One - q)

Threshold(q) ==
  IF 2 * q <= One THEN CeilDiv(100 * (One - q), q) ELSE -((100 * q) \div (One - q))

No == <<>>

NoVig(home, away) ==
  LET h == BreakEven(home)
      a == BreakEven(away)
  IN (One * h) \div (h + a)

-----------------------------------------------------------------------------
\* What the block bootstrap of a market's settled rows says of it: how many
\* rows, their calibration radius, and whether the blocks are stable.
Haircut(tier) == CASE tier = "HIGH" -> 100 [] tier = "MEDIUM" -> 70 [] tier = "LOW" -> 35 [] OTHER -> 0

Tier(n, disagreement, state) ==
  LET support == Min({n, state.n})
      within(least, radius, gap) ==
        support >= least /\ 0 < state.radius /\ state.radius <= radius /\ disagreement <= gap
  IN IF support < 128 \/ ~state.stable \/ state.radius < 0 THEN "LOW"
     ELSE IF within(512, 250, 800) THEN "HIGH"
     ELSE IF within(256, 450, 1500) THEN "MEDIUM" ELSE "LOW"

\* What the break-even probability may exceed the evaluator's by: one and a
\* half points at most, less what the evidence is doubted.
Concession(tier, radius) ==
  (150 * Haircut(tier) * (IF radius < 0 THEN 0 ELSE 1000 - Min({1000, radius}))) \div 100000

PlayableTo(e, state) == Min({9900, e.q + Concession(e.tier, state.radius)})

Status(e, state, a) ==
  IF ~e.supported THEN "UNSUPPORTED"
  ELSE IF Worth(e.q, a) > 0 THEN "VALUE"
  ELSE IF BreaksEvenAt(a, PlayableTo(e, state)) THEN "PLAYABLE" ELSE "LEAN"

\* Quarters of a unit.
Units(e, state, a) ==
  LET status == Status(e, state, a)
      high == e.tier = "HIGH"
  IN IF ~e.supported \/ e.tier \notin {"HIGH", "MEDIUM"} \/ status \in {"LEAN", "UNSUPPORTED"} THEN 0
     ELSE IF status = "PLAYABLE" THEN (IF high /\ e.q >= 5500 THEN 3 ELSE 2)
     ELSE IF high /\ EvAtLeast(e.q, a, 600) /\ e.q >= 5500 /\ state.radius <= 250 THEN 6
     ELSE IF high /\ EvAtLeast(e.q, a, 400) /\ e.q >= 5200 THEN 5
     ELSE IF EvAtLeast(e.q, a, 250) /\ e.q >= 5000 THEN 4 ELSE 3

-----------------------------------------------------------------------------
\* Books in the order ties are broken; a manual offer comes after both.
BookRank(book) == CASE book = "draftkings" -> 0 [] book = "fanduel" -> 1 [] OTHER -> 2

\* Both books' offers of a side: the best number, then the best price, then the
\* book.  A total's over wants the lowest number and a moneyline has none.
Number(offer) == CASE offer.side = "over" -> -offer.line [] OTHER -> offer.line

Better(x, y) ==
  \/ Number(x) > Number(y)
  \/ Number(x) = Number(y) /\ x.price > y.price
  \/ Number(x) = Number(y) /\ x.price = y.price /\ BookRank(x.book) < BookRank(y.book)

ShopByPrice(offers) ==
  IF offers = {} THEN No
  ELSE CHOOSE x \in offers : \A y \in offers :
         x.price > y.price \/ (x.price = y.price /\ BookRank(x.book) <= BookRank(y.book))

Shop(offers) ==
  IF offers = {} THEN No ELSE CHOOSE x \in offers : \A y \in offers \ {x} : ~Better(y, x)

=============================================================================
