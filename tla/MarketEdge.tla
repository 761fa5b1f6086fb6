----------------------------- MODULE MarketEdge -----------------------------
(***************************************************************************)
(* The canonical odds of the acquired snapshots and the ledger of bets     *)
(* that grades the models' disagreements with them (market_edge).          *)
(*                                                                         *)
(* A census is what the models said: by game, [season, models, picks],     *)
(* models giving by model [side, edge, p, price] and picks the sides of    *)
(* the spread and the total, [spread, total, points, line, price].  Edges  *)
(* and probabilities are whole percents; profits are hundredths of a unit. *)
(***************************************************************************)
EXTENDS MarketAcquisition, Integers

CONSTANTS Censuses,      \* what the models may have said
          Outcomes,       \* game |-> [home, away] points, as they may be
          Confirmation   \* the seasons of the CONFIRMATION split

VARIABLES odds,          \* canonical_book_market: game |-> lines, or NotBuilt
          bets           \* the ledger of the last scoring, [rows, report], or NotBuilt

\* Lines and prices are numbers, and what the models said is of finitely many games.
ASSUME EdgeAssumption ==
  /\ \A r \in Requests : \A a \in Answers(r.games, r.target) : \A e \in a.events :
       \A b \in DOMAIN e.books : \A o \in e.books[b] : o.line \in Int /\ o.price \in Int
  /\ \A census \in Censuses : IsFiniteSet(DOMAIN census)

NotBuilt == <<>>
edgeVars == <<marketVars, odds, bets>>

None == "none"
Books == <<"dk", "fd">>     \* FIXED_BOOK_ORDER
Rank(b) == CHOOSE i \in DOMAIN Books : Books[i] = b

\* build_spread_offer_index: of a book and a side, the first line of the highest price,
\* whatever the lines; a line is [book, side, line, price].
Offers(lines, side) ==
  LET of(b) == {o \in lines : o.book = b /\ o.side = side}
      best(b) == {o \in of(b) : \A x \in of(b) : x.price <= o.price}
  IN {CHOOSE o \in best(b) : TRUE : b \in {x \in {"dk", "fd"} : of(x) # {}}}

\* Mutant: the better price first.
ShopByPrice(offers) == CHOOSE o \in offers : \A x \in offers : o.price >= x.price

\* shop_spread and _best_price: the best number, then the better price, then the order
\* of the books.
Shop(offers) ==
  CHOOSE o \in offers : \A x \in offers :
    \/ o.line > x.line
    \/ o.line = x.line /\ (o.price > x.price \/ (o.price = x.price /\ Rank(o.book) <= Rank(x.book)))

\* american_to_decimal, less the stake.
Gain(american) == IF american > 0 THEN american ELSE 10000 \div (-american)

\* moneyline_grading, spread_grading and total_grading: what a bet made by its margin.
Grade(margin, american) ==
  [w |-> IF margin > 0 THEN 1 ELSE 0, push |-> IF margin = 0 THEN 1 ELSE 0,
   profit |-> IF margin = 0 THEN 0 ELSE IF margin > 0 THEN Gain(american) ELSE -100]
SideMargin(side, r) == IF side = "home" THEN r.home - r.away ELSE r.away - r.home
TotalMargin(side, r, line) == IF side = "over" THEN r.home + r.away - line ELSE line - r.home - r.away

\* _ml_bucket and _st_bucket: by the edge as it is.
Bucket(edge, bounds) ==
  LET holds == {i \in DOMAIN bounds : edge >= bounds[i][1] /\ edge < bounds[i][2]}
  IN IF holds = {} THEN None ELSE bounds[CHOOSE i \in holds : TRUE][3]
MoneyBounds == <<<<0, 2, "0-2">>, <<2, 4, "2-4">>, <<4, 8, "4-8">>, <<8, 12, "8-12">>, <<12, 1000, "12+">>>>
PointBounds == <<<<0, 1, "0-1">>, <<1, 2, "1-2">>, <<2, 3, "2-3">>, <<3, 4, "3-4">>, <<4, 1000, "4+">>>>
InDogZone(m) == m.p >= 40 /\ m.p < 50 /\ m.price >= 111 /\ m.price <= 200

-----------------------------------------------------------------------------
Bet(g, c, family, model, bucket, side, edge, line, graded) ==
  [game |-> g, season |-> c.season, family |-> family, model |-> model, bucket |-> bucket,
   side |-> side, edge |-> edge, line |-> line, graded |-> graded]

\* build_ledger, the moneyline families: one model, the zone of underdogs, long
\* underdogs, and the average when the two models agree on the side.
Priced(c, model) == model \in DOMAIN c.models /\ c.models[model].price # 0
MoneyRows(g, c, r) ==
  LET row(family, model, m, bucket) ==
        Bet(g, c, family, model, bucket, m.side, m.edge, 0, Grade(SideMargin(m.side, r), m.price))
      counts(model) == Priced(c, model) /\ (model = "AVG" => "QB_ELO" \in DOMAIN c.models /\ c.predicted)
      rows(model) ==
        LET m == c.models[model]
        IN {row("DISAGREEMENT", model, m, Bucket(m.edge, MoneyBounds))}
             \cup (IF InDogZone(m) THEN {row("DOG_VALUE_ZONE", model, m, "ZONE")} ELSE {})
             \cup (IF m.price >= 201 THEN {row("LONG_DOG", model, m, "LONG201+")} ELSE {})
      agree == /\ \A model \in {"QB_ELO", "XGB", "AVG"} : model \in DOMAIN c.models
               /\ c.models["QB_ELO"].side = c.models["XGB"].side
               /\ Priced(c, "QB_ELO") /\ c.predicted /\ Priced(c, "AVG")
      both == LET m == c.models["AVG"]
              IN {row("DISAGREEMENT", "CORROB", m, Bucket(m.edge, MoneyBounds))}
                   \cup (IF InDogZone(m) THEN {row("DOG_VALUE_ZONE", "CORROB", m, "ZONE")} ELSE {})
  IN (UNION {rows(model) : model \in {x \in {"QB_ELO", "XGB", "AVG"} : counts(x)}})
       \cup (IF agree THEN both ELSE {})

\* build_ledger, spread and total: the spread at the line shopped of two books, none
\* for a game without canonical odds.
PointRows(g, c, r) ==
  LET offers == IF g \in DOMAIN odds THEN Offers(odds[g], c.picks.spread) ELSE {}
      o == Shop(offers)
  IN (IF Cardinality(offers) < 2 THEN {}
      ELSE {Bet(g, c, "SPREAD", "EXPECTED_MARGIN", Bucket(c.picks.points, PointBounds), c.picks.spread,
                c.picks.points, o.line, Grade(2 * SideMargin(c.picks.spread, r) + o.line, o.price))})
       \cup (IF c.picks.price = 0 THEN {}
             ELSE {Bet(g, c, "TOTAL_R4", "RIDGE_R4", Bucket(c.picks.points, PointBounds), c.picks.total,
                       c.picks.points, c.picks.line,
                       Grade(TotalMargin(c.picks.total, r, c.picks.line), c.picks.price))})

\* build_ledger: the games of the split; a sealed season in the results ends it.
EdgeLedger(census, results, split) ==
  UNION {MoneyRows(g, census[g], results[g]) \cup PointRows(g, census[g], results[g]) :
           g \in {x \in DOMAIN census \cap DOMAIN results :
                    census[x].season \in Confirmation <=> split = "CONFIRMATION"}}

\* summarize, of the rows of a family, model and bucket (or of all buckets).
Summary(rows) ==
  LET wins == Cardinality({b \in rows : b.graded.w = 1})
      pushes == Cardinality({b \in rows : b.graded.push = 1})
  IN [n |-> Cardinality(rows), wins |-> wins, pushes |-> pushes,
      losses |-> Cardinality(rows) - wins - pushes,
      profit |-> MapThenSumSet(LAMBDA b : b.graded.profit, rows)]

\* LOCKED_CANDIDATES; the union of the spread leaves out edges from 4 points on.
LockedCandidates ==
  {<<"DOG_VALUE_ZONE", "AVG", "ZONE">>, <<"DOG_VALUE_ZONE", "CORROB", "ZONE">>,
   <<"DISAGREEMENT", "AVG", "0-2">>, <<"SPREAD", "EXPECTED_MARGIN", None>>}
CandidateRows(rows, k) ==
  {b \in rows : b.family = k[1] /\ b.model = k[2] /\ (IF k[3] = None THEN b.edge < 4 ELSE b.bucket = k[3])}

-----------------------------------------------------------------------------
EdgeInit == MarketInit /\ odds = NotBuilt /\ bets = NotBuilt

Acquisition == MarketNext /\ UNCHANGED <<odds, bets>>

\* scripts/build_market_canonical.py, run when the acquisition is over.
BuildCanonical ==
  /\ odds = NotBuilt /\ (\A w \in Workers : at[w] = "stopped") /\ Normalizes
  /\ odds' = [g \in DOMAIN Fixtures |-> Observed(g)]
  /\ UNCHANGED <<marketVars, bets>>

\* scripts/score_market_edge.py, main.
Score ==
  /\ odds # NotBuilt /\ bets = NotBuilt
  /\ \E census \in Censuses, results \in Outcomes, split \in {"DISCOVERY", "CONFIRMATION"} :
       LET rows == EdgeLedger(census, results, split)
       IN bets' = [rows |-> rows, split |-> split,
                   report |-> [k \in LockedCandidates |-> Summary(CandidateRows(rows, k))]]
  /\ UNCHANGED <<marketVars, odds>>

EdgeNext == Acquisition \/ BuildCanonical \/ Score
EdgeSpec == EdgeInit /\ [][EdgeNext]_edgeVars

-----------------------------------------------------------------------------
\* What the ledger of bets rests on.  A game is bet once by family and model, in its
\* split; the line of a spread bet is the best number that the two books showed for
\* the side, unless a book showed several (DUPLICATE_BOOK_MARKET); the odds of a
\* verified request are from before the game; the zone of underdogs that only the
\* agreement of the models fills is a part of the zone of their average.
BetsRestOnOdds ==
  (bets # NotBuilt) =>
    /\ \A b, d \in bets.rows : (b.game = d.game /\ b.family = d.family /\ b.model = d.model) => b = d
    /\ \A b \in bets.rows :
         /\ b.season \in Confirmation <=> bets.split = "CONFIRMATION"
         /\ (b.family = "SPREAD" /\ Flags(b.game) = {}) =>
               \A o \in odds[b.game] : (o.side = b.side /\ o.book \in {"dk", "fd"}) => o.line <= b.line
    /\ \A r \in Asked : Category(r) = "VERIFIED_SUCCESS" => \A g \in r.games : raw[r].stamp < Fixtures[g].kick
    /\ bets.report[<<"DOG_VALUE_ZONE", "CORROB", "ZONE">>].n <= bets.report[<<"DOG_VALUE_ZONE", "AVG", "ZONE">>].n
=============================================================================
