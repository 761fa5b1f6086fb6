----------------------------- MODULE Selectors -----------------------------
(***************************************************************************)
(* Which of the evaluated rows become the week's three headlines, with     *)
(* what stake and down to which price, and what a settled week teaches the *)
(* value lane about its two families of candidates.                        *)
(***************************************************************************)
EXTENDS MarketBoard, Sequences

\* Rows of a board are compared by tuples of numbers, smallest first; the last
\* is the rank of the row's identity, so that no two rows tie.
Ahead(s, t) == \E i \in DOMAIN s : s[i] < t[i] /\ \A j \in 1 .. i - 1 : s[j] = t[j]

Foremost(rows, Key(_)) ==
  IF rows = {} THEN No ELSE CHOOSE r \in rows : \A o \in rows \ {r} : Ahead(Key(r), Key(o))

CONSTANT PlaceOf(_, _, _)   \* the place of (game, market, side) among the identities

ASSUME PlaceAssumption ==
  /\ \A g \in Schedule, m \in Markets, s \in AnySide : PlaceOf(g.id, m, s) \in Int
  /\ \A g, h \in Schedule, m, n \in Markets, s, t \in AnySide :
       PlaceOf(g.id, m, s) = PlaceOf(h.id, n, t) => g.id = h.id /\ m = n /\ s = t

Identity(r) == PlaceOf(r.game, r.offer.market, r.offer.side)

Odds(r) == r.offer.price
Be(r) == BreakEven(Odds(r))
Edge(r) == r.eval.q - Be(r)
Gap(r) == r.model.q - Be(r)
ReliabilityRank(r) == CASE r.eval.tier = "HIGH" -> 2 [] r.eval.tier = "MEDIUM" -> 1 [] OTHER -> 0

Within(r, low, high) == low <= Odds(r) /\ Odds(r) <= high

CommonModelOffer(r) ==
  /\ r.eval.supported
  /\ r.model.supported
  /\ r.model.n >= 256
  /\ r.offer.market \in {"moneyline", "spread"}
  /\ r.offer.book \in Actionable

\* What a lane trusts: half of what the model says beyond the sharp price.
MarketHalfTrust(r) ==
  IF r.offer.market = "spread" THEN r.model.q
  ELSE r.model.q - Max({r.model.q - r.anchor, 0}) \div 2

SelectHitRate(rows) ==
  LET eligible(r) == CommonModelOffer(r) /\ r.model.q >= 5500 /\ Within(r, -300, 200)
      key(r) == <<-MarketHalfTrust(r), -r.model.q, -ReliabilityRank(r), -Odds(r), Identity(r)>>
  IN Foremost({r \in rows : eligible(r)}, key)

BalancedEligible(r) ==
  /\ CommonModelOffer(r)
  /\ \/ /\ r.offer.market = "moneyline"
        /\ r.model.q >= 5200
        /\ Within(r, -130, -100)
        /\ r.anchor >= 5000
     \/ /\ r.offer.market = "spread"
        /\ r.model.q >= 5000
        /\ Within(r, -130, 200)
        /\ "SPREAD_DISAGREEMENT_EXPECTED_MARGIN_0_4" \in r.regions
        /\ r.model.margin > 0

SelectBalanced(rows) ==
  LET utility(r) == MarketHalfTrust(r) - Max({Be(r) - 5000, 0})
      key(r) == <<-utility(r), -MarketHalfTrust(r), -r.model.q, -ReliabilityRank(r), -Odds(r), Identity(r)>>
  IN Foremost({r \in rows : BalancedEligible(r)}, key)

-----------------------------------------------------------------------------
\* The value lane: a frontier of each family, and the trust in each.
StrictValue(r) ==
  /\ CommonModelOffer(r)
  /\ r.regions # {}
  /\ r.status = "VALUE"
  /\ Within(r, -180, 250)

MoneyCandidates(rows) ==
  {r \in rows : StrictValue(r) /\ r.offer.market = "moneyline" /\ Worth(r.model.q, Odds(r)) > 0}

MoneyFrontier(rows) ==
  LET key(r) == <<-Gap(r), -r.model.q, -Edge(r), -ReliabilityRank(r), -Odds(r), Identity(r)>>
  IN Foremost(MoneyCandidates(rows), key)

SpreadCandidates(rows) ==
  {r \in rows : StrictValue(r) /\ r.offer.market = "spread" /\ r.model.margin > 0}

\* The row whose worse rank, of model and of economics, is best.
SpreadFrontier(rows) ==
  LET candidates == SpreadCandidates(rows)
      rank(r, Key(_)) == Cardinality({o \in candidates : o = r \/ Ahead(Key(o), Key(r))})
      byModel(r) == <<-r.model.margin, Identity(r)>>
      byWorth(r) == <<-Edge(r), Identity(r)>>
      key(r) == LET m == rank(r, byModel)
                    w == rank(r, byWorth)
                IN <<Max({m, w}), m + w, m, w, -ReliabilityRank(r), -Odds(r), Identity(r)>>
  IN Foremost(candidates, key)

\* A family's observations as [n, predicted, realized], the sums in
\* ten-thousandths; trust starts at a half with the weight of eight weeks.
NoObservations == [n |-> 0, predicted |-> 0, realized |-> 0]

Trust(seen) ==
  LET data == IF seen.predicted <= 0 THEN 0
              ELSE Min({One, Max({0, (One * seen.realized) \div seen.predicted})})
  IN IF seen.n = 0 THEN One \div 2 ELSE (4 * One + seen.n * data) \div (8 + seen.n)

Standing(seen) ==
  IF seen.n >= 8 /\ Trust(seen) < 2500 THEN "RED"
  ELSE IF seen.n >= 3 /\ Trust(seen) < 5000 THEN "AMBER" ELSE "GREEN"

CrossMarket(ml, spread, trust) ==
  LET worth(r) == IF r = ml THEN Min({(Gap(r) * trust) \div One, Edge(r)}) ELSE Edge(r)
      key(r) == <<-worth(r), -ReliabilityRank(r), -Odds(r), Identity(r)>>
  IN IF ml = No THEN spread ELSE IF spread = No THEN ml ELSE Foremost({ml, spread}, key)

SelectValue(rows, state) ==
  LET ml == MoneyFrontier(rows)
      spread == SpreadFrontier(rows)
      standing == Standing(state.ml)
      choice == IF standing = "RED" \/ (standing = "AMBER" /\ spread # No) THEN spread
                ELSE CrossMarket(ml, spread, Trust(state.ml))
      alone == \/ /\ choice = spread
                  /\ Standing(state.spread) \in {"AMBER", "RED"}
                  /\ Cardinality(SpreadCandidates(rows)) = 1
               \/ /\ choice = ml /\ spread = No
                  /\ (state.ml.n < 3 \/ standing = "AMBER")
                  /\ Cardinality(MoneyCandidates(rows)) = 1
  IN IF choice = No \/ alone THEN No ELSE choice

\* What a settled week adds: each family's frontier, whether or not the lane
\* chose it.
Settled(seen, frontier, predicted, result) ==
  IF frontier = No \/ result \notin {"WIN", "LOSS"} \/ predicted <= 0 THEN seen
  ELSE [n |-> seen.n + 1, predicted |-> seen.predicted + predicted,
        realized |-> seen.realized + (IF result = "WIN" THEN One ELSE 0) - Be(frontier)]

AdvanceValueState(state, rows, result) ==
  LET ml == MoneyFrontier(rows)
      spread == SpreadFrontier(rows)
      of(r) == IF r = No THEN "" ELSE result[r]
  IN [ml |-> Settled(state.ml, ml, IF ml = No THEN 0 ELSE Gap(ml), of(ml)),
      spread |-> Settled(state.spread, spread, IF spread = No THEN 0 ELSE Edge(spread), of(spread))]

-----------------------------------------------------------------------------
\* Stakes of the headlines, in quarter units.
RowUnits(r) == Units(r.eval, Fit.reliability[r.offer.market], Odds(r))

HitRateStake(r) ==
  LET trust == MarketHalfTrust(r)
      base == 2 + Cardinality({least \in {6000, 6500, 7000} : trust >= least})
      pressure == Be(r) - trust
      haircut == IF pressure > 1000 THEN 5 ELSE Cardinality({most \in {0, 400, 800} : pressure > most})
  IN Max({1, base - haircut})

\* The longest price that is tried.
LongestPrice == 5000

\* The first better price that eases the break-even by a point, if it does so
\* by no more than a point and a half.
ValueAt(price) ==
  LET better(k) == IF price < 0 /\ price + k > -100 THEN price + k + 199 ELSE price + k
      eases(k) == better(k) <= LongestPrice /\ Eases(price, better(k), 1, 100)
      steps == 1 .. LongestPrice - price
      first == CHOOSE k \in steps : eases(k) /\ \A j \in 1 .. k - 1 : ~eases(j)
  IN IF (\E k \in steps : eases(k)) /\ EasesAtMost(price, better(first), 15, 1000)
     THEN better(first) ELSE Absent

\* Down to which price a bet of a headline still holds; in the value lane it
\* must still be worth more than it costs.
PlayThrough(r, lane) ==
  LET concession == Concession(r.eval.tier, Fit.reliability[r.offer.market].radius)
      whole == Min({9900, Be(r) + concession})
      target == IF lane = "value" THEN Min({whole, r.eval.q}) ELSE whole
      boundary == Threshold(target)
      paying == IF lane = "value" /\ Worth(r.eval.q, boundary) <= 0 THEN NextBetter(boundary) ELSE boundary
  IN IF \/ concession <= 0
        \/ lane = "value" /\ Worth(r.eval.q, Odds(r)) <= 0
        \/ paying >= Odds(r)
     THEN Absent ELSE paying

NoPlay == [state |-> "NO_PLAY", row |-> No, units |-> 0, through |-> Absent, valueAt |-> Absent]

Bet(r, lane, units) ==
  [state |-> "BET", row |-> r, units |-> units, through |-> PlayThrough(r, lane), valueAt |-> Absent]

Unplayed(r, state, valueAt) ==
  [state |-> state, row |-> r, units |-> 0, through |-> Absent, valueAt |-> valueAt]

Headline(lane, r) ==
  IF r = No THEN NoPlay
  ELSE IF lane = "hit_rate" THEN Bet(r, lane, HitRateStake(r))
  ELSE IF lane = "balanced" THEN Bet(r, lane, Max({3, RowUnits(r)}))
  ELSE IF RowUnits(r) > 0 THEN Bet(r, lane, RowUnits(r))
  ELSE IF r.status = "VALUE" /\ ValueAt(Odds(r)) # Absent THEN Unplayed(r, "TARGET_ONLY", ValueAt(Odds(r)))
  ELSE Unplayed(r, "SUPPRESSED", Absent)

Headlines(rows, state) ==
  [hit_rate |-> Headline("hit_rate", SelectHitRate(rows)),
   balanced |-> Headline("balanced", SelectBalanced(rows)),
   value |-> Headline("value", SelectValue(rows, state))]

=============================================================================
