---------------------------- MODULE MarketBoard ----------------------------
(***************************************************************************)
(* The market side of the live product: from the provider's response to    *)
(* the board of offers of every scheduled game, and from a board to the    *)
(* evaluated row of each side, as the product builder does it and, a       *)
(* second time and in other code, as the backend does it when a reader     *)
(* types an offer in.                                                      *)
(*                                                                         *)
(* Times are in units of 150 seconds, lines and margins in half points,    *)
(* probabilities in ten-thousandths.  The fitted curves (the calibrated    *)
(* market, the empirical residuals, the two logistic confidences) are      *)
(* straight lines of the same direction; a push has no probability.        *)
(***************************************************************************)
EXTENDS Prices

CONSTANTS
  Schedule,     \* the week's games: [id, home, away, kickoff]
  Football,     \* game id -> model outputs [qb, xgb, margin, total], where xgb
                \* holds one output per roof category, and the game's roof
  Fit           \* the entering-season state: per market an evaluator and its
                \* reliability, and the two confidence curves

Absent == 99999

Tolerance == 6        \* MATCH_KICKOFF_TOLERANCE_SECONDS
Threshold900 == 6     \* MARKET_FRESHNESS_THRESHOLD_SECONDS

Actionable == {"draftkings", "fanduel"}
Books == Actionable \union {"pinnacle"}
Sides(market) == IF market = "total" THEN {"over", "under"} ELSE {"home", "away"}
AnySide == {"home", "away", "over", "under"}
Markets == {"moneyline", "spread", "total"}

-----------------------------------------------------------------------------
\* A response is a sequence of events [id, home, away, at, quotes]; a quote is
\* [book, market, name, line, price, seen, bookSeen].
EventCandidates(e) ==
  {g \in Schedule : /\ g.home = e.home /\ g.away = e.away
                    /\ Abs(e.at - g.kickoff) <= Tolerance}

MatchesAlone(e) == Cardinality(EventCandidates(e)) = 1

GameOf(e) == CHOOSE g \in EventCandidates(e) : TRUE

\* Neither an event of two games nor two events of a game.
EventsMatch(response) ==
  /\ \A i \in DOMAIN response : Cardinality(EventCandidates(response[i])) <= 1
  /\ \A i, j \in DOMAIN response :
       /\ i # j
       /\ MatchesAlone(response[i])
       /\ MatchesAlone(response[j])
       => GameOf(response[i]) # GameOf(response[j])

FreshnessOf(seen, now) ==
  LET age == IF now > seen THEN now - seen ELSE 0
  IN IF age > Threshold900 THEN "STALE" ELSE IF 2 * age < Threshold900 THEN "FRESH" ELSE "AGING"

\* The market's own time stamp, else its book's, else the time of the request.
ObservedByBook(q, now) == IF q.bookSeen # Absent THEN q.bookSeen ELSE now

Observed(q, now) == IF q.seen # Absent THEN q.seen ELSE ObservedByBook(q, now)

Named(q, g) ==
  IF q.market = "total" THEN q.name \in {"over", "under"} ELSE q.name \in {g.home, g.away}

Wanted(e) ==
  {q \in e.quotes : q.book \in Books /\ q.market \in Markets /\ Named(q, GameOf(e))}

\* A moneyline has no line, whatever the response says.
Offer(q, now) ==
  [market |-> q.market, name |-> q.name, book |-> q.book,
   line |-> IF q.market = "moneyline" THEN Absent ELSE q.line, price |-> q.price,
   seen |-> Observed(q, now), state |-> FreshnessOf(Observed(q, now), now)]

\* A price between -99 and 99, a spread or total without a line and the same
\* observation twice each end the normalization.
Wellformed(e, now) ==
  /\ \A q \in Wanted(e) : Abs(q.price) >= 100 /\ (q.market # "moneyline" => q.line # Absent)
  /\ \A q, r \in Wanted(e) : Offer(q, now) = Offer(r, now) => q = r

Normalizes(response, now) ==
  /\ EventsMatch(response)
  /\ \A i \in DOMAIN response : MatchesAlone(response[i]) => Wellformed(response[i], now)

\* Game id -> its board.
MarketSnapshot(response, now) ==
  LET eventsOf(g) == {i \in DOMAIN response : MatchesAlone(response[i]) /\ GameOf(response[i]) = g}
      board(g) == {Offer(q, now) : q \in UNION {Wanted(response[i]) : i \in eventsOf(g)}}
  IN [id \in {g.id : g \in Schedule} |-> board(CHOOSE g \in Schedule : g.id = id)]

-----------------------------------------------------------------------------
\* What the product builder indexes: every offer that is not stale.
MarketSnapshotIndex(board, g) ==
  {[market |-> o.market, book |-> o.book, line |-> o.line, price |-> o.price, seen |-> o.seen,
    side |-> IF o.market = "total" THEN o.name ELSE IF o.name = g.home THEN "home" ELSE "away"]
     : o \in {p \in board : p.state # "STALE"}}

Quoted(index, market, side, books) ==
  {o \in index : o.market = market /\ o.side = side /\ o.book \in books}

Pinnacle(index, market, side) == Quoted(index, market, side, {"pinnacle"})

BestPriced(offers) ==
  CHOOSE o \in offers : \A p \in offers :
    o.price > p.price \/ (o.price = p.price /\ o.seen >= p.seen)

SameLine(offers, line) == {o \in offers : o.line = line}

MoneylineAnchor(index) ==
  LET home == Pinnacle(index, "moneyline", "home")
      away == Pinnacle(index, "moneyline", "away")
  IN IF home = {} \/ away = {} THEN No
     ELSE [threshold |-> 0, above |-> NoVig(Shop(home).price, Shop(away).price)]

\* The lines the sharp book quotes both sides of: with more than one there is
\* no anchor.
PointAnchor(above, below, mirror, threshold) ==
  LET common == {o.line : o \in {a \in above : SameLine(below, mirror * a.line) # {}}}
      line == CHOOSE l \in common : TRUE
  IN IF Cardinality(common) # 1 THEN No
     ELSE [threshold |-> threshold * line,
           above |-> NoVig(BestPriced(SameLine(above, line)).price,
                           BestPriced(SameLine(below, mirror * line)).price)]

SpreadAnchor(index) ==
  PointAnchor(Pinnacle(index, "spread", "home"), Pinnacle(index, "spread", "away"), -1, -1)

TotalAnchor(index) ==
  PointAnchor(Pinnacle(index, "total", "over"), Pinnacle(index, "total", "under"), 1, 1)

Anchors(index) ==
  [moneyline |-> MoneylineAnchor(index), spread |-> SpreadAnchor(index), total |-> TotalAnchor(index)]

-----------------------------------------------------------------------------
\* The backend's own index and anchor, over the board of the served product.
\* The mutant forgets that a stale offer is for display only.
ServedIndexAll(board, g) ==
  {[market |-> o.market, book |-> o.book, line |-> o.line, price |-> o.price, seen |-> o.seen,
    side |-> IF o.name \in {"over", "under"} THEN o.name ELSE IF o.name = g.home THEN "home" ELSE "away"]
     : o \in board}

ServedIndex(board, g) == ServedIndexAll({o \in board : o.state # "STALE"}, g)

ServedAnchor(index, market) ==
  LET side(s) == {o \in index : o.market = market /\ o.side = s /\ o.book = "pinnacle"}
      up == IF market = "total" THEN side("over") ELSE side("home")
      down == IF market = "total" THEN side("under") ELSE side("away")
      flip == IF market = "spread" THEN -1 ELSE 1
      paired == {l \in {o.line : o \in up} : \E o \in down : o.line = flip * l}
      price(offers, l) == Max({o.price : o \in {p \in offers : p.line = l}})
      pair(l) == NoVig(price(up, l), price(down, flip * l))
  IN CASE market = "moneyline" /\ up # {} /\ down # {} ->
            [threshold |-> 0,
             above |-> NoVig(Max({o.price : o \in up}), Max({o.price : o \in down}))]
       [] market # "moneyline" /\ Cardinality(paired) = 1 ->
            LET l == CHOOSE m \in paired : TRUE IN [threshold |-> flip * l, above |-> pair(l)]
       [] OTHER -> No

-----------------------------------------------------------------------------
\* The roof of a stadium, [structure, status]: only a retractable one needs a
\* reported status, and while that is pending the game has no single output of
\* the model that reads the roof.
ModelCategory(roof) ==
  IF roof.structure = "OUTDOOR" THEN "outdoors"
  ELSE IF roof.structure = "FIXED" THEN "dome"
  ELSE CASE roof.status = "OPEN" -> "open" [] roof.status = "CLOSED" -> "closed" [] OTHER -> "pending"

Outputs(id) ==
  LET f == Football[id]
      category == ModelCategory(f.roof)
  IN [f EXCEPT !.xgb = IF category = "pending" THEN Absent ELSE f.xgb[category]]

\* Games are told apart by their ids and the sides of a board by their names, and
\* the models have spoken of each game, or not, under the roof it may have; what
\* was fitted is in numbers, and a straight line of it rises.
ASSUME BoardAssumption ==
  /\ IsFiniteSet(Schedule)
  /\ \A g, h \in Schedule : g.id = h.id => g = h
  /\ \A g \in Schedule : g.home # g.away /\ {g.home, g.away} \cap {"over", "under"} = {}
  /\ \A g \in Schedule :
       LET f == Football[g.id]
       IN /\ {"qb", "xgb", "margin", "total", "roof"} \subseteq DOMAIN f
          /\ {f.qb, f.margin, f.total} \subseteq Int
          /\ ModelCategory(f.roof) # "pending" => f.xgb[ModelCategory(f.roof)] \in Int
  /\ {Fit.moneyline.shift, Fit.moneyline.weight, Fit.spread.weight, Fit.total.weight} \subseteq Int
  /\ {Fit.confidence.moneyline.slope, Fit.confidence.spread.slope} \subseteq Int
  /\ {Fit.spread.slope, Fit.total.slope} \subseteq Nat \ {0}
  /\ \A m \in Markets : Fit.reliability[m].radius \in Int

\* The evaluators.
Clamp(p) == Max({1, Min({One - 1, p})})

OfSide(home, side) == IF side = "home" THEN home ELSE One - home

Unsupported(n) == [supported |-> FALSE, q |-> 0, tier |-> "UNSUPPORTED", n |-> n]

Finish(q, distance, limit, disagreement, evaluator, reliability) ==
  IF distance > limit THEN Unsupported(evaluator.n)
  ELSE [supported |-> TRUE, q |-> q, tier |-> Tier(evaluator.n, disagreement, reliability),
        n |-> evaluator.n]

EvaluateMoneyline(f, offer, anchor) ==
  LET fit == Fit.moneyline
      model == (f.qb + f.xgb) \div 2
      market == Clamp(anchor.above + fit.shift)
      final == Clamp(market + (fit.weight * (model - market)) \div 100)
  IN IF f.qb = Absent \/ f.xgb = Absent THEN Unsupported(fit.n)
     ELSE Finish(OfSide(final, offer.side), Max({Abs(market - One \div 2), Abs(model - market)}),
                 fit.limit, Abs(f.qb - f.xgb), fit, Fit.reliability.moneyline)

\* The mean the sharp price stands for, and how likely a wager on a side of the
\* line is to win when the result is spread about a mean.
ImpliedMean(anchor, slope) == anchor.threshold + (anchor.above - One \div 2) \div slope

Covers(mean, side, line, slope) ==
  LET above == IF side \in {"home", "away"}
               THEN mean - (IF side = "home" THEN -line ELSE line)
               ELSE mean - line
      p == Clamp(One \div 2 + slope * above)
  IN IF side \in {"home", "over"} THEN p ELSE One - p

EvaluatePoint(f, offer, anchor) ==
  LET fit == Fit[offer.market]
      model == IF offer.market = "spread" THEN f.margin ELSE f.total
      implied == ImpliedMean(anchor, fit.slope)
      mean == implied + (fit.weight * (model - implied)) \div 100
  IN IF model = Absent \/ offer.line = Absent THEN Unsupported(fit.n)
     ELSE Finish(Covers(mean, offer.side, offer.line, fit.slope), Abs(model - implied), fit.limit, 0,
                 fit, Fit.reliability[offer.market])

EvaluateOffer(f, offer, anchor) ==
  IF offer.market = "moneyline" THEN EvaluateMoneyline(f, offer, anchor)
  ELSE EvaluatePoint(f, offer, anchor)

-----------------------------------------------------------------------------
\* What the probabilities the lanes use are made of.
MoneylineConfidence(home) == Clamp(One \div 2 + (Fit.confidence.moneyline.slope * (home - One \div 2)) \div 100)

CoverMargin(margin, side, line) == IF side = "home" THEN margin + line ELSE line - margin

SpreadConfidence(margin) == Clamp(One \div 2 + Fit.confidence.spread.slope * margin)

\* The regions of the registry a side of a game falls in.
Region(name, holds) == IF holds THEN {name} ELSE {}

MoneylineRegions(f, side, anchor, price) ==
  LET edge(p) == p - anchor.above
      leans(p) == edge(p) # 0 /\ (edge(p) > 0) = (side = "home")
      model == (f.qb + f.xgb) \div 2
      zone == 4000 <= OfSide(model, side) /\ OfSide(model, side) < 5000 /\ 111 <= price /\ price <= 200
  IN IF f.qb = Absent \/ f.xgb = Absent \/ anchor = No \/ ~leans(model) THEN {}
     ELSE Region("ML_AVG_DISAGREEMENT_AVG_0_2", Abs(edge(model)) < 200)
            \union Region("ML_DOG_VALUE_ZONE_AVG", zone)
            \union Region("ML_DOG_VALUE_ZONE_CORROB", zone /\ leans(f.qb) /\ leans(f.xgb))

SpreadRegions(f, side, anchor, index) ==
  LET signed == f.margin - anchor.threshold
      quoted(book) == Quoted(index, "spread", side, {book}) # {}
  IN IF f.margin = Absent \/ anchor = No \/ signed = 0 THEN {}
     ELSE Region("SPREAD_DISAGREEMENT_EXPECTED_MARGIN_0_4",
                 /\ (signed > 0) = (side = "home")
                 /\ \A book \in Actionable : quoted(book)
                 /\ Abs(signed) < 8)

Regions(f, offer, anchor, index) ==
  CASE offer.market = "moneyline" -> MoneylineRegions(f, offer.side, anchor, offer.price)
    [] offer.market = "spread" -> SpreadRegions(f, offer.side, anchor, index)
    [] OTHER -> {}

Confidence(f, offer) ==
  LET home == (f.qb + f.xgb) \div 2
      margin == CoverMargin(f.margin, offer.side, offer.line)
  IN CASE offer.market = "moneyline" /\ f.qb # Absent /\ f.xgb # Absent ->
            [supported |-> TRUE, q |-> OfSide(MoneylineConfidence(home), offer.side), margin |-> Absent,
             n |-> Fit.confidence.moneyline.n]
       [] offer.market = "spread" /\ f.margin # Absent ->
            [supported |-> TRUE, q |-> SpreadConfidence(margin), margin |-> margin,
             n |-> Fit.confidence.spread.n]
       [] OTHER -> [supported |-> FALSE, q |-> 0, margin |-> Absent, n |-> 0]

\* The row of one side of one game.
CandidateRow(g, offer, anchors, index) ==
  LET f == Outputs(g.id)
      anchor == anchors[offer.market]
      e == IF anchor = No THEN Unsupported(0) ELSE EvaluateOffer(f, offer, anchor)
  IN [game |-> g.id, offer |-> offer, eval |-> e,
      status |-> IF e.supported THEN Status(e, Fit.reliability[offer.market], offer.price) ELSE "UNSUPPORTED",
      anchor |-> IF ~e.supported THEN Absent
                 ELSE IF offer.market = "moneyline" THEN OfSide(anchor.above, offer.side)
                 ELSE anchor.above,
      model |-> Confidence(f, offer), regions |-> Regions(f, offer, anchor, index)]

\* A pending roof is evaluated both ways.
RoofScenarios(g, index) ==
  LET f == Football[g.id]
      anchor == MoneylineAnchor(index)
      offer == Shop(Quoted(index, "moneyline", "home", Actionable))
      under(category) == EvaluateMoneyline([f EXCEPT !.xgb = f.xgb[category]], offer, anchor)
  IN IF ModelCategory(f.roof) # "pending" THEN "NOT_PENDING"
     ELSE IF anchor = No \/ offer = No THEN "NOT_EVALUATED_MISSING_EVIDENCE"
     ELSE IF under("open") = under("closed") THEN "EVALUATED" ELSE "ROOF_SENSITIVE"

EvaluateCandidates(snapshot) ==
  LET index(g) == MarketSnapshotIndex(snapshot[g.id], g)
      best(g, market, side) == Shop(Quoted(index(g), market, side, Actionable))
      sides(g) == {p \in Markets \X AnySide : p[2] \in Sides(p[1]) /\ best(g, p[1], p[2]) # No}
  IN UNION {{CandidateRow(g, best(g, p[1], p[2]), Anchors(index(g)), index(g)) : p \in sides(g)}
              : g \in Schedule}

=============================================================================
