---------------------------- MODULE MCResearch ----------------------------
(***************************************************************************)
(* The backtests run one after another over one schedule: two development  *)
(* seasons of four teams and one week of the sealed season.  Results vary  *)
(* with every game on its nominal day; days vary, as games are postponed   *)
(* to the Tuesday, and so does the evidence of one starter, with one set   *)
(* of results.                                                             *)
(***************************************************************************)
EXTENDS EvaluatorReplay, PlayObservations

Block(season, type, week) == [season |-> season, type |-> type, week |-> week]
Game(block, home, away, day, result) ==
  [block |-> block, home |-> home, away |-> away, day |-> day, result |-> result]

Season(r, d) ==
  << Game(Block(1, "REG", 1), "A", "B", 1, r[1]),
     Game(Block(1, "REG", 1), "C", "D", d[1], 7),
     Game(Block(1, "REG", 2), "A", "C", 3, -1),
     Game(Block(1, "REG", 3), "B", "D", d[2], r[2]),
     Game(Block(1, "WC", 4), "A", "D", d[3], r[3]),
     Game(Block(2, "REG", 1), "B", "A", 13, 7),
     Game(Block(2, "REG", 1), "C", "D", 13, r[4]),
     Game(Block(2, "REG", 2), "D", "A", 15, -7),
     Game(Block(3, "REG", 1), "A", "B", 25, 7) >>

OnTime == <<1, 5, 7>>
Played == <<7, -7, Tie, 7>>

\* A team twice in one block: two games of a week whose numbering is wrong.
Doubled == [Season(Played, OnTime) EXCEPT ![2].home = "B"]

MCSchedules ==
  {Season(r, OnTime) : r \in {7, -7} \X {7, Tie} \X {-1, 7} \X {7, Tie, Unplayed}}
    \cup {Season(Played, d) : d \in {1, 2} \X {5, 6} \X {7, 8}}
    \cup {Doubled}

\* What may be known of the home quarterback of game 6: depth rows from before
\* and after the cutoff of his game, the roster, and who played.
Evidence(depth, roster, played) == [depth |-> depth, roster |-> roster, played |-> played]

Starters ==
  {Evidence(d, r, p) :
     d \in {{}, {[player |-> "q2", rank |-> 1, day |-> 12], [player |-> "q1", rank |-> 2, day |-> 11]},
            {[player |-> "q1", rank |-> 1, day |-> 12], [player |-> "q2", rank |-> 1, day |-> 12]},
            {[player |-> "q2", rank |-> 1, day |-> 11], [player |-> "q2", rank |-> 2, day |-> 12],
             [player |-> "q1", rank |-> 1, day |-> 13]},
            {[player |-> "q1", rank |-> 1, day |-> 13]}},
     r \in {{}, {"q1"}, {"q1", "q2"}}, p \in {{}, {"q1"}}}

Unremarkable == Evidence({}, {}, {"q1"})
Unknown == Evidence({}, {}, {})

\* Plays of one game: three of A's, or B's, in any order, and one of B's last.
Play(team, drive, flags, result) ==
  [team |-> team, drive |-> drive, flags |-> flags, result |-> result]

Templates ==
  {Play("A", 1, {"pass", "complete", "dropback", "close", "success"}, "Touchdown"),
   Play("A", 1, {"rush", "close", "long", "redzone"}, ""),
   Play("A", 1, {"pass", "spike", "close"}, "Touchdown"),
   Play("A", 1, {"rush", "kneel"}, "Touchdown"),
   Play("A", 1, {"void", "pass"}, "Touchdown"),
   Play("A", 1, {"rush", "fumbled"}, "Turnover"),
   Play("B", 2, {"pass", "sack", "undropped", "close"}, "Punt"),
   Play("", 2, {"rush"}, "")}

\* The market history: a push, an offer or an anchor missing, in the season that
\* is evaluated or in the sealed week.
Offers == UNION {{m} \X SidesOf(m) : m \in Markets}
Quoted(anchored, offered, line, over) ==
  [anchored |-> anchored, offered |-> offered, line |-> line, over |-> over]
Usual == Quoted(Markets, Offers, -3, "WIN")

MCQuotes(G) ==
  {[g \in G |-> IF g = 6 THEN first ELSE IF g = 9 THEN last ELSE Usual] :
     first \in {Usual, Quoted(Markets, Offers, -7, "PUSH")},
     last \in {Usual, Quoted({"moneyline", "spread"}, Offers, -10, "LOSS"),
               Quoted(Markets, {<<m, "away">> : m \in {"moneyline", "spread"}}, -7, "WIN")}}

Clock == <<30, 28, 27, 22>>
Quarter == <<3, 3, 3, 4>>

MCPlayFrames ==
  {<<>>} \cup
  {[i \in 1 .. 4 |-> (IF i < 4 THEN f[i] ELSE Play("B", 2, {"pass", "dropback", "intercepted"}, "Punt"))
                       @@ [clock |-> Clock[i], qtr |-> Quarter[i]]] : f \in [1 .. 3 -> Templates]}

Init ==
  /\ schedule \in Schedules
  /\ plays \in IF schedule = Season(Played, OnTime) THEN PlayFrames ELSE {<<>>}
  /\ \E starter \in {Unremarkable} \cup (IF schedule = Season(Played, OnTime) THEN Starters ELSE {}) :
       evidence = [side \in Sides |->
                     IF side[1] = 6 /\ side[2] = schedule[6].home THEN starter
                     ELSE IF side[2] = schedule[6].home THEN Unremarkable
                     ELSE Unknown]
  /\ plays # <<>> => \A side \in Sides : evidence[side] \in {Unremarkable, Unknown}
  /\ EloInit /\ ChallengerInit /\ TotalsInit /\ FeatureInit /\ ReportInit
  /\ ObserveInit /\ ReplayInit

eloDone == eloPass \in {"written", "failed"}
treesDone == treeStep \in {"written", "refused"}
totalsDone == totalsStep \in {"written", "failed"}
reportsDone == reportStep \in {"written", "failed"}

\* The replay reads margins, which do not depend on what the mapping's solver did.
usualMapping ==
  /\ selected = "stable"
  /\ \A c \in Candidates : \A g \in DOMAIN marginRows[c] : marginRows[c][g].status \in {"warmup", "converged"}

backtestVars == <<eloVars, marginVars, treeVars, totalsVars, reportVars, replayVars>>

\* One program after another: what depends on the plays and on the evidence is
\* run first, and the rest with one frame and one evidence.
Next ==
  \/ ObserveGame /\ UNCHANGED <<schedule, evidence, featureVars, backtestVars>>
  \/ /\ observeStep # "read" /\ plays = <<>>
     /\ Features
     /\ UNCHANGED <<backtestVars, observeVars>>
  \/ /\ bundleStep = "written"
     /\ \A side \in Sides : evidence[side] \in {Unremarkable, Unknown}
     /\ UNCHANGED <<evidence, featureVars, observeVars>>
     /\ \/ EloNext /\ UNCHANGED <<marginVars, treeVars, totalsVars, reportVars, replayVars>>
        \/ eloDone /\ Trees /\ UNCHANGED <<eloVars, marginVars, totalsVars, reportVars, replayVars>>
        \/ eloDone /\ treesDone /\ Totals /\ UNCHANGED <<eloVars, marginVars, treeVars, reportVars, replayVars>>
        \/ eloDone /\ treesDone /\ totalsDone /\ Reports
             /\ UNCHANGED <<eloVars, marginVars, treeVars, totalsVars, replayVars>>
        \/ eloDone /\ treesDone /\ totalsDone /\ reportsDone
             /\ UNCHANGED <<eloVars, treeVars, totalsVars, reportVars>>
             /\ \/ ExpectedMargin /\ UNCHANGED replayVars
                \/ usualMapping /\ Replay /\ UNCHANGED marginVars

researchVars ==
  <<schedule, evidence, featureVars, observeVars, backtestVars>>
Spec == Init /\ [][Next]_researchVars

-----------------------------------------------------------------------------
\* The state ledger is a function of the prediction ledger: a game is updated
\* from the very ratings it was predicted from, no point is created, and the
\* replay that recomputes every update from the outcomes finds nothing but the
\* games that have no outcome; every team enters a season regressed from where
\* its last update left it.
LedgerReplays ==
  /\ \A i \in DOMAIN updates :
       LET row == updates[i]
       IN row.homeBefore = predictions[row.game].homeBefore
            /\ row.awayBefore = predictions[row.game].awayBefore
  /\ FoldFunction(+, 0, rating) = 0
  /\ eloPass = "written" =>
       Corruption = {g \in DOMAIN predictions : schedule[g].result = Unplayed}
  /\ \A row \in boundaries : row.status # "FAIL"

\* What is compared is comparable: a game a challenger is scored on is one the
\* Elo ledger scores, the comparison leaves none of them out, and the adaptive
\* split is the fixed one whenever that one passes its gates.
UniversesAgree ==
  /\ eloPass = "written" =>
       \A g \in (UNION {Scored(c) : c \in Candidates}) \cup {h \in DOMAIN treeRows : treeRows[h].scored} :
         predictions[g].scored
  /\ marginStep = "written" => common = Scored(selected)
  /\ scorecard # <<>> =>
       /\ scorecard.predicted = scorecard.unavailable + scorecard.ties + scorecard.binary
       /\ scorecard.binary = FoldFunction(+, 0, [n \in DOMAIN scorecard.seasons |->
                                                scorecard.seasons[n].scored])
  /\ \A g \in DOMAIN treeRows : treeRows[g].warmup = "none" =>
       AdaptiveSplit(PriorBlocks(BlockOf(g))) = Split(PriorBlocks(BlockOf(g)))

\* The state of the live season is the walk continued: put together from the
\* frozen history and the holdout's rows, it has learned what the walk learned,
\* is fitted on the same games but the sealed ones nobody offered a canonical
\* side of, knows every game of the evaluated seasons and none twice, and no
\* spread was covered from both sides.
EnteringContinues ==
  entering # <<>> =>
    LET all == EvaluatedGames \cup SealedGames
        evident(m, g) == g \in EvaluatedGames \/ <<m, Canonical[m]>> \in quotes[g].offered
    IN /\ entering.histories = histories
       /\ entering.ties = Cardinality(Ties(all))
       /\ \A m \in Markets : entering.material[m] = {g \in Material(m, all) : evident(m, g)}
       /\ \A i \in DOMAIN confidence :
            {g \in confidence[i].residuals : BlockOf(g).season >= FirstEvaluated} \subseteq entering.residuals
       /\ \A o, p \in entering.covers : o[1] = p[1] /\ o[2] # p[2] => o[3] # p[3]

=============================================================================
