--------------------------- MODULE MCLiveProduct ---------------------------
(***************************************************************************)
(* What a week's product is made from, for TLC: the board of the market,   *)
(* the football inputs, and what becomes of the cards.  They are moved one *)
(* at a time, as the product takes the football predictions as they come   *)
(* and the cards are derived from what it shows.                           *)
(***************************************************************************)
EXTENDS LiveProduct, CardHistory, WeekScoring, TLC

MCSchedule == {[id |-> 1, home |-> "kc", away |-> "den", kickoff |-> 40],
               [id |-> 2, home |-> "sf", away |-> "sea", kickoff |-> 60],
               [id |-> 3, home |-> "hou", away |-> "jax", kickoff |-> 60]}

OneRoof == [structure |-> "OUTDOOR", status |-> "PENDING"]
Retractable(status) == [structure |-> "RETRACTABLE", status |-> status]

MCFootball == 1 :> [qb |-> 5600, xgb |-> [outdoors |-> 5200], margin |-> 8, total |-> 94, roof |-> OneRoof]
              @@ 2 :> [qb |-> 5500, xgb |-> [open |-> 3900, closed |-> 4700], margin |-> Absent,
                       total |-> 88, roof |-> Retractable("OPEN")]
              @@ 3 :> [qb |-> 5500, xgb |-> [open |-> 5900, closed |-> 4700], margin |-> 2,
                       total |-> 88, roof |-> Retractable("PENDING")]

Reliable(n, radius) == [n |-> n, radius |-> radius, stable |-> TRUE]

MCFit ==
  [moneyline |-> [shift |-> 50, weight |-> 40, limit |-> 2500, n |-> 600],
   spread |-> [slope |-> 120, weight |-> 50, limit |-> 20, n |-> 600],
   total |-> [slope |-> 100, weight |-> 20, limit |-> 20, n |-> 140],
   reliability |-> [moneyline |-> Reliable(700, 200), spread |-> Reliable(300, 400),
                    total |-> Reliable(100, 300)],
   confidence |-> [moneyline |-> [slope |-> 110, n |-> 600], spread |-> [slope |-> 90, n |-> 600]]]

Place == [home |-> 1, away |-> 2, over |-> 3, under |-> 4]
MarketPlace == [moneyline |-> 0, spread |-> 10, total |-> 20]
MCPlaceOf(game, market, side) == 100 * game + MarketPlace[market] + Place[side]

Q(book, market, name, line, price, seen) ==
  [book |-> book, market |-> market, name |-> name, line |-> line, price |-> price, seen |-> seen,
   bookSeen |-> IF seen = Absent THEN Absent ELSE 20]

Pair(book, market, a, b, lineA, lineB, priceA, priceB, seen) ==
  {Q(book, market, a, lineA, priceA, seen), Q(book, market, b, lineB, priceB, seen)}

\* The first game's quotes: what DraftKings asks for the favourite, its spread,
\* whether it has gone stale, and whether the sharp book splits its lines.
FirstQuotes(dk, fd, line, seen, split) ==
  Pair("pinnacle", "moneyline", "kc", "den", Absent, Absent, -125, 115, 20)
    \union Pair("pinnacle", "spread", "kc", "den", -4, 4, -108, -104, 20)
    \union (IF split THEN Pair("pinnacle", "spread", "kc", "den", -5, 5, 100, -112, 20) ELSE {})
    \union Pair("draftkings", "moneyline", "kc", "den", Absent, Absent, dk, 112, seen)
    \union Pair("fanduel", "moneyline", "kc", "den", Absent, Absent, fd, 108, 20)
    \union Pair("draftkings", "spread", "kc", "den", line, -line, -110, -110, seen)
    \union Pair("fanduel", "spread", "kc", "den", -5, 5, -105, -115, 20)
    \union Pair("draftkings", "total", "over", "under", 90, 90, -110, -110, seen)
    \union Pair("pinnacle", "total", "over", "under", 91, 91, -105, -105, 20)

SecondQuotes(fresh) ==
  Pair("pinnacle", "moneyline", "sf", "sea", Absent, Absent, 120, -130, 20)
    \union Pair("draftkings", "moneyline", "sf", "sea", Absent, Absent, 125, -140, IF fresh THEN Absent ELSE 12)
    \union Pair("fanduel", "moneyline", "sf", "sea", Absent, Absent, 112, -125, 20)
    \union Pair("pinnacle", "spread", "sf", "sea", -6, 6, -105, -105, Absent)
    \union Pair("draftkings", "spread", "sf", "sea", -6, 6, -112, -108, Absent)
    \union Pair("fanduel", "spread", "sf", "sea", -7, 7, 100, -120, Absent)

Event(id, home, away, at, quotes) == [id |-> id, home |-> home, away |-> away, at |-> at, quotes |-> quotes]

Feed(dk, fd, line, seen, split, twice) ==
  <<Event("e1", "kc", "den", 41, FirstQuotes(dk, fd, line, seen, split)),
    Event("e2", "sf", "sea", 60, SecondQuotes(~split)),
    Event("e4", "hou", "jax", 60,
          Pair("pinnacle", "moneyline", "hou", "jax", Absent, Absent, -125, 115, 20)
            \union Pair("draftkings", "moneyline", "hou", "jax", Absent, Absent, -110, 105, 20)),
    Event("e3", "kc", "den", IF twice THEN 44 ELSE 99, {})>>

MCFeeds ==
  {Feed(dk, fd, line, seen, split, twice) :
     dk \in {-130, -112}, fd \in {-120, 102}, line \in {-5, -3}, seen \in {14, 20},
     split \in BOOLEAN, twice \in {FALSE}}
    \union {Feed(-130, -120, -5, 14, FALSE, TRUE), Feed(-50, -120, -5, 20, FALSE, FALSE)}

MCMoves(f) == {Feed(-112, 102, -3, 20, FALSE, FALSE), Feed(-130, -120, -5, 14, FALSE, TRUE)} \ {f}

Seen(n, predicted, realized) == [n |-> n, predicted |-> predicted, realized |-> realized]

MCTrusts ==
  {[ml |-> NoObservations, spread |-> NoObservations],
   [ml |-> Seen(3, 1200, 0), spread |-> Seen(3, 900, 0)],
   [ml |-> Seen(9, 2700, -500), spread |-> Seen(4, 800, 700)],
   [ml |-> Seen(4, 800, 700), spread |-> Seen(1, 300, 200)]}

-----------------------------------------------------------------------------
\* The football inputs: a scheduled week of one game and one of two, the depth charts
\* that an audit of the first team may find, and what the operator may state.
Matched(id) == [conflict |-> FALSE, method |-> "gsis", review |-> FALSE, id |-> id]
ByName(id) == [conflict |-> FALSE, method |-> "name", review |-> TRUE, id |-> id]
Unknown == [conflict |-> FALSE, method |-> "none", review |-> FALSE, id |-> ""]
ChartRow(id, order, label, injury, xwalk) ==
  [id |-> id, order |-> order, evidence |-> label, injury |-> injury,
   rookie |-> FALSE, gsis |-> "", xwalk |-> xwalk]
Rookie(id) == [ChartRow(id, 1, "healthy", "", Unknown) EXCEPT !.rookie = TRUE, !.gsis = id]

Leading(label, injury) == ChartRow("q1", 1, label, injury, Matched("q1"))
Backup == ChartRow("q2", 2, "backup", "", Matched("q2"))

Starter(id) == {ChartRow(id, 1, "healthy", "", Matched(id))}

MCAuditCharts ==
  {[A |-> c, B |-> Starter("b1"), C |-> Starter("c1"), D |-> Starter("d1")] :
     c \in {{Leading("healthy", ""), Backup},
            {Leading("out", "out"), Backup},
            {Leading("out", "out"), Backup, ChartRow("q3", 2, "backup", "", Matched("q3"))},
            {Leading("healthy", ""), ChartRow("q2", 1, "healthy", "", Matched("q2"))},
            {Leading("AMBIGUOUS", "out"), ChartRow("q2", 1, "healthy", "", Matched("q2"))},
            {ChartRow("q1", 1, "limited", "", ByName("q1"))},
            {Rookie("q4")}}}

MCFirstCharts == {c \in MCAuditCharts : c["A"] = {Leading("healthy", ""), Backup}}

MCWeeks == 1 :> [week |-> 1, home |-> "A", away |-> "B", structure |-> "RETRACTABLE"]
           @@ 2 :> [week |-> 2, home |-> "B", away |-> "A", structure |-> "OUTDOOR"]
           @@ 3 :> [week |-> 2, home |-> "C", away |-> "D", structure |-> "RETRACTABLE"]

MCOverrideFiles == {<<1, "A">> :> "q2" @@ <<2, "A">> :> "q2" @@ <<3, "C">> :> "c2"}
MCRoofFiles == {1 :> "OPEN" @@ 3 :> "CLOSED"}
MCPriorBlocks == <<<<101, 102>>, <<103>>>>

-----------------------------------------------------------------------------
\* The cards: two lanes, an early and a late game, a recommendation seen at two
\* prices or at another hour, the late game a target only; three publications.
CardBet(game, price, kick) ==
  [game |-> game, pick |-> "home", price |-> price, state |-> "BET", kick |-> kick]

MCCardRows == {CardBet("thu", -110, 1), CardBet("thu", -120, 1), CardBet("thu", -110, 2),
               [CardBet("sun", -110, 2) EXCEPT !.state = "TARGET_ONLY"]}
MCNoRow == [game |-> "none"]
MCCardLanes == {"hit_rate", "balanced"}
MCLaneRank == [l \in MCCardLanes |-> IF l = "hit_rate" THEN 0 ELSE 1]

-----------------------------------------------------------------------------
VARIABLE subject

\* No market is fed to the product while the others move.
NoMarket ==
  /\ now = 0 /\ feed = <<>> /\ trust = CHOOSE t \in Trusts : TRUE
  /\ capture = No /\ served = No /\ pregame = {}

Init ==
  /\ subject \in {"product", "scoring", "cards"}
  /\ IF subject = "product" THEN LiveInit ELSE NoMarket
  /\ WeekInit
  /\ HistoryInit

ProductMoves == subject = "product" /\ LiveNext /\ UNCHANGED <<subject, weekVars, history>>
ScoringMoves == subject = "scoring" /\ WeekNext /\ UNCHANGED <<subject, liveVars, history>>
CardsMove == subject = "cards" /\ HistoryNext /\ UNCHANGED <<subject, liveVars, weekVars>>

Next == ProductMoves \/ ScoringMoves \/ CardsMove
Spec == Init /\ [][Next]_<<subject, liveVars, weekVars, history>>

=============================================================================
