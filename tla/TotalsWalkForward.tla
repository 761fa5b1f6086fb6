------------------------ MODULE TotalsWalkForward ------------------------
(***************************************************************************)
(* The totals features and the walk over them.  A feature row holds what   *)
(* the two teams' accumulators held when the block began: teamPlays[t] is  *)
(* the set of games in the accumulators of t.  The walk then trains, for   *)
(* each block, on the feature rows of the blocks whose week was over       *)
(* before the block's cutoff.                                              *)
(***************************************************************************)
EXTENDS ChallengerWalkForward

CONSTANTS MinEligibleRows,   \* MINIMUM_ELIGIBLE_PRIOR_ROWS
          MinSample          \* games a matchup rate needs on either side

VARIABLES totalsStep,     \* "features", "walk", "rank", "written" or "failed"
          totalsNext,
          teamPlays,      \* TotalsBlockState: by team, the games accumulated
          featureRows,    \* by game: [sources, matchup]
          provenance,     \* by block index: the source blocks declared
          trainedOn,      \* by block index: the games trained on
          records         \* the games a candidate predicted

totalsVars == <<totalsStep, totalsNext, teamPlays, featureRows, provenance, trainedOn, records>>

Entering(t) == IF t \in DOMAIN teamPlays THEN teamPlays[t] ELSE {}

\* extract_entering_rate and compute_matchup_pair: the rates of both sides, or
\* missing when either has too small a sample.
FeatureRow(g) ==
  LET h == Entering(schedule[g].home)
      a == Entering(schedule[g].away)
  IN [sources |-> h \cup a,
      matchup |-> Cardinality(h) >= MinSample /\ Cardinality(a) >= MinSample]

\* commit_block: the observations of every game of the block at once.  A game
\* without plays is observed with no update.
Committed(G) ==
  LET observed == Completed(schedule, G)
  IN [t \in DOMAIN teamPlays \cup TeamsOf(schedule, observed) |->
        Entering(t) \cup {g \in observed : t \in TeamsOf(schedule, {g})}]

\* build_totals_v1_feature_table: one block.  Its rows are read from the
\* snapshot of the state before the block is committed.
FeatureBlock ==
  /\ totalsStep = "features"
  /\ LET b == eloBlocks[totalsNext]
         G == GamesOf(schedule, b)
     IN /\ provenance' = Append(provenance, EligibleSources(schedule, b))
        /\ featureRows' = [g \in DOMAIN featureRows \cup G |->
                             IF g \in G THEN FeatureRow(g) ELSE featureRows[g]]
        /\ teamPlays' = Committed(G)
  /\ IF totalsNext = Len(eloBlocks)
     THEN totalsStep' = "walk" /\ totalsNext' = 1
     ELSE totalsNext' = totalsNext + 1 /\ UNCHANGED totalsStep
  /\ UNCHANGED <<trainedOn, records>>

\* run_totals_walk_forward: the training rows of one block.
TotalsBlock ==
  /\ totalsStep = "walk"
  /\ LET b == eloBlocks[totalsNext]
     IN trainedOn' = Append(trainedOn,
          UNION {GamesOf(schedule, c) : c \in EligibleSources(schedule, b)})
  /\ IF totalsNext = Len(eloBlocks)
     THEN totalsStep' = "rank" /\ UNCHANGED totalsNext
     ELSE totalsNext' = totalsNext + 1 /\ UNCHANGED totalsStep
  /\ UNCHANGED <<teamPlays, featureRows, provenance, records>>

\* scoring_blocks_from_prepared.
ScoringBlocks == {i \in DOMAIN trainedOn : Cardinality(trainedOn[i]) >= MinEligibleRows}

\* run_candidate_on_prepared and rank_candidates: every scoring block is fitted
\* and predicted; a target that is not a number is refused.
RankCandidates ==
  /\ totalsStep = "rank"
  /\ LET used == UNION {trainedOn[i] \cup GamesOf(schedule, eloBlocks[i]) : i \in ScoringBlocks}
     IN IF Completed(schedule, used) # used
        THEN totalsStep' = "failed" /\ UNCHANGED records
        ELSE /\ totalsStep' = "written"
             /\ records' = UNION {GamesOf(schedule, eloBlocks[i]) : i \in ScoringBlocks}
  /\ UNCHANGED <<totalsNext, teamPlays, featureRows, provenance, trainedOn>>

TotalsInit ==
  /\ totalsStep = "features" /\ totalsNext = 1
  /\ teamPlays = <<>> /\ featureRows = <<>>
  /\ provenance = <<>> /\ trainedOn = <<>> /\ records = {}

Totals == (FeatureBlock \/ TotalsBlock \/ RankCandidates) /\ UNCHANGED schedule

-----------------------------------------------------------------------------
DayOver(g, b) == schedule[g].day < AsOf(schedule, b)

\* What a totals model is trained on had been played, every game of it, before
\* the cutoff the block is predicted at, postponements included, and the
\* training sets only grow.
TotalsTrainingIsOver ==
  \A i \in DOMAIN trainedOn :
    /\ \A g \in trainedOn[i] : DayOver(g, eloBlocks[i])
    /\ \A j \in 1 .. i : trainedOn[j] \subseteq trainedOn[i]

=============================================================================
