------------------------ MODULE DevelopmentReports ------------------------
(***************************************************************************)
(* What is reported of the Elo ledgers: the development scorecard, with    *)
(* its reliability table and recalibration, and the audit of the regression*)
(* that is applied to every team between two seasons.  A predicted         *)
(* probability is the expected score in quarters.                          *)
(***************************************************************************)
EXTENDS TotalsWalkForward

VARIABLES reportStep,    \* "score", "audit", "written" or "failed"
          scorecard,     \* [predicted, unavailable, ties, binary, buckets, fit]
          boundaries     \* the rows of the season boundary audit

reportVars == <<reportStep, scorecard, boundaries>>

Probability(g) == ExpectedHome(predictions[g].homeBefore, predictions[g].awayBefore)

\* _scored: a target is available and it is not a tie.
ScoredRows == {g \in DOMAIN predictions : predictions[g].scored}

\* reliability_table: every bucket but the last is open above.
Edges == <<0, 1, 2, 3, 4>>
InBucket(i, p) ==
  /\ Edges[i] <= p
  /\ p < Edges[i + 1] \/ (i + 1 = Len(Edges) /\ p = Edges[i + 1])
Reliability ==
  [i \in 1 .. Len(Edges) - 1 |-> {g \in ScoredRows : InBucket(i, Probability(g))}]

\* logistic_recalibration: nothing is fitted to fewer than two rows, to one
\* outcome or to one probability; the Newton steps end somehow otherwise.
HomeWins(G) == {g \in G : schedule[g].result > 0}
RecalibrationStatuses ==
  LET G == ScoredRows
  IN CASE Cardinality(G) < 2 -> {"insufficient_data"}
       [] Cardinality(G) >= 2 /\ HomeWins(G) \in {{}, G} -> {"one_class_outcome"}
       [] Cardinality(G) >= 2 /\ HomeWins(G) \notin {{}, G}
            /\ Cardinality({Probability(g) : g \in G}) = 1 -> {"constant_input"}
       [] OTHER -> {"converged", "max_iter_reached", "singular_hessian", "non_finite_step"}

\* _season_counts: [predicted, scored] of each season with predictions.
SeasonCounts ==
  [s \in {schedule[g].block.season : g \in DOMAIN predictions} |->
     LET G == {g \in DOMAIN predictions : schedule[g].block.season = s}
     IN [predicted |-> Cardinality(G), scored |-> Cardinality(G \cap ScoredRows),
         ties |-> Cardinality({g \in G : schedule[g].result = Tie})]]

\* build_development_scorecard: refused when a later season is in the frame, or
\* when the buckets lose a row.
BuildScorecard ==
  /\ reportStep = "score"
  /\ IF \/ eloPass = "failed"
        \/ \E g \in DOMAIN predictions : schedule[g].block.season > DevelopmentMax
        \/ Cardinality(ScoredRows)
             # FoldFunction(+, 0, [i \in DOMAIN Reliability |-> Cardinality(Reliability[i])])
     THEN reportStep' = "failed" /\ UNCHANGED scorecard
     ELSE /\ \E fit \in RecalibrationStatuses :
               scorecard' = [predicted |-> Cardinality(DOMAIN predictions),
                             unavailable |-> Cardinality(
                               {g \in DOMAIN predictions : schedule[g].result = Unplayed}),
                             ties |-> Cardinality({g \in DOMAIN predictions : schedule[g].result = Tie}),
                             binary |-> Cardinality(ScoredRows),
                             seasons |-> SeasonCounts, fit |-> fit]
          /\ reportStep' = "audit"
  /\ UNCHANGED boundaries

-----------------------------------------------------------------------------
\* The season boundary audit of task04d.

\* The first prediction of a team in a season, in block order.
FirstPrediction(s, t) ==
  CHOOSE g \in DOMAIN predictions :
    /\ schedule[g].block.season = s /\ t \in TeamsOf(schedule, {g})
    /\ \A h \in DOMAIN predictions :
         schedule[h].block.season = s /\ t \in TeamsOf(schedule, {h}) =>
           h = g \/ Earlier(schedule[g].block, schedule[h].block)

\* The rating the last update of a team in a season left it at.
RowsOf(s, t) ==
  {i \in DOMAIN updates : schedule[updates[i].game].block.season = s
                            /\ t \in TeamsOf(schedule, {updates[i].game})}
EndingElo(s, t) ==
  LET row == updates[Max(RowsOf(s, t))]
  IN IF schedule[row.game].home = t THEN row.homeAfter ELSE row.awayAfter

\* build_season_boundary_audit: the status of one team at the start of season s.
Boundary(s, t) ==
  LET first == FirstPrediction(s, t)
      actual == IF schedule[first].home = t THEN predictions[first].homeBefore
                                            ELSE predictions[first].awayBefore
  IN [season |-> s, team |-> t,
      status |-> IF RowsOf(s - 1, t) = {} THEN "NO_PRIOR_STATE"
                 ELSE IF actual = EndingElo(s - 1, t) - EndingElo(s - 1, t) \div 3
                      THEN "PASS" ELSE "FAIL"]

AuditBoundaries ==
  /\ reportStep = "audit"
  /\ boundaries' = UNION {{Boundary(s, t) :
        t \in TeamsOf(schedule, {g \in DOMAIN predictions : schedule[g].block.season = s})} :
        s \in (DOMAIN SeasonCounts) \ {1}}
  /\ reportStep' = "written"
  /\ UNCHANGED scorecard

ReportInit == reportStep = "score" /\ scorecard = <<>> /\ boundaries = {}
Reports == (BuildScorecard \/ AuditBoundaries) /\ UNCHANGED schedule

=============================================================================
