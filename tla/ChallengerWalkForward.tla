---------------------- MODULE ChallengerWalkForward ----------------------
(***************************************************************************)
(* The models that challenge the Elo baseline over the same blocks: the    *)
(* expected-margin candidates (a scoring fit, and a mapping from predicted *)
(* margins to probabilities fitted on their own earlier predictions), with *)
(* the runner that selects one and compares it with the Elo ledger; and    *)
(* the boosted trees, fitted on earlier blocks and stopped on the last of  *)
(* them.  A fit is the set of games it was made from; what a solver finds  *)
(* is a choice.                                                            *)
(***************************************************************************)
EXTENDS PregameFeatures

CONSTANTS Candidates,                 \* the expected-margin configurations
          MinTraining, MinMapping,    \* warm-up of the fit and of the mapping
          MinBlocks, MinFitRows, MinValidationRows   \* gates of the trees

VARIABLES marginStep,    \* "extract", "walk", "select", "publish", "written", "failed"
          marginNext,    \* the index of the block in hand
          marginRows,    \* by candidate: the prediction rows by game
          selected,      \* the candidate selected, "" before
          common,        \* the games it is compared with Elo on
          treeStep,      \* "verify", "walk", "written" or "refused"
          treeNext,
          treeRows       \* the prediction rows of the trees by game

marginVars == <<marginStep, marginNext, marginRows, selected, common>>
treeVars == <<treeStep, treeNext, treeRows>>

Binary(s, G) == {g \in G : s[g].result \notin {Unplayed, Tie}}

-----------------------------------------------------------------------------
\* Expected margin.

\* _extract_development_games: a game that has no frozen score is refused, and
\* so is an extraction that does not hold every development season.
Extractable ==
  /\ Completed(schedule, DOMAIN schedule) = DOMAIN schedule
  /\ {schedule[g].block.season : g \in DOMAIN eloGames} = 1 .. DevelopmentMax

\* _prior_completed_games and is_warmup_state.
PriorCompleted(b) == Completed(schedule, Prior(eloGames, b))
TeamStrengthWarmup(b) == Cardinality(PriorCompleted(b)) < MinTraining

\* fit_expected_margin: the strengths come from the prior games; a team outside
\* them has none, and the points expected of it are the league's.
FitOf(b) ==
  IF TeamStrengthWarmup(b) THEN {} ELSE PriorCompleted(b)

\* _prior_oos_for_mapping and _eligible_mapping_rows.
MappingRows(rows, b) ==
  {g \in DOMAIN rows : /\ g \in PriorCompleted(b)
                       /\ rows[g].margin
                       /\ schedule[g].result # Tie}

\* fit_mapping: too few rows are a warm-up; the solver may stop without having
\* converged, and a slope that is not positive is rejected.
MappingStatuses(rows, b) ==
  IF TeamStrengthWarmup(b) \/ Cardinality(MappingRows(rows, b)) < MinMapping
  THEN {"warmup"} ELSE {"converged", "rejected", "unconverged"}

\* Mutant: a tie is scored as if it had a winner.
MarginRowTies(g, fit, mapped, status) ==
  [fit |-> fit, mapped |-> mapped, status |-> status,
   margin |-> fit # {},
   probability |-> fit # {} /\ status = "converged",
   scored |-> fit # {} /\ status = "converged" /\ g \in Completed(schedule, {g})]

\* _predict_block and _is_binary_scored: one row.
MarginRow(g, fit, mapped, status) ==
  [fit |-> fit, mapped |-> mapped, status |-> status,
   margin |-> fit # {},
   probability |-> fit # {} /\ status = "converged",
   scored |-> fit # {} /\ status = "converged" /\ g \in Binary(schedule, {g})]

\* run_expected_margin_candidate: one block, for every candidate.
MarginRowsAfter(rows, b, statuses) ==
  [c \in Candidates |->
     LET mapped == IF statuses[c] = "warmup" THEN {} ELSE MappingRows(rows[c], b)
     IN [g \in DOMAIN rows[c] \cup GamesOf(schedule, b) |->
           IF g \in DOMAIN rows[c] THEN rows[c][g]
           ELSE MarginRow(g, FitOf(b), mapped, statuses[c])]]

MarginExtract ==
  /\ marginStep = "extract"
  /\ marginStep' = IF Extractable THEN "walk" ELSE "failed"
  /\ UNCHANGED <<marginNext, marginRows, selected, common>>

MarginBlock ==
  /\ marginStep = "walk"
  /\ LET b == eloBlocks[marginNext]
     IN \E statuses \in [Candidates -> {"warmup", "converged", "rejected", "unconverged"}] :
          /\ \A c \in Candidates : statuses[c] \in MappingStatuses(marginRows[c], b)
          /\ marginRows' = MarginRowsAfter(marginRows, b, statuses)
  /\ IF marginNext = Len(eloBlocks)
     THEN marginStep' = "select" /\ UNCHANGED marginNext
     ELSE marginNext' = marginNext + 1 /\ UNCHANGED marginStep
  /\ UNCHANGED <<selected, common>>

Scored(c) == {g \in DOMAIN marginRows[c] : marginRows[c][g].scored}

\* _candidate_report and _select_candidate: the metrics of a candidate that has
\* no scored row cannot be compared.
SelectCandidate ==
  /\ marginStep = "select"
  /\ IF \E c \in Candidates : Scored(c) = {}
     THEN marginStep' = "failed" /\ UNCHANGED selected
     ELSE \E c \in Candidates : selected' = c /\ marginStep' = "publish"
  /\ UNCHANGED <<marginNext, marginRows, common>>

\* _qb_elo_comparison: the scored rows of the one selected that the Elo ledger
\* has a probability for.
CommonRows(c) == {g \in Scored(c) : g \in DOMAIN predictions}

\* The ledgers of the one selected are written, then compared with the Elo
\* ledger; the manifest, written last, needs rows to resample.
PublishMargin ==
  /\ marginStep = "publish"
  /\ IF eloPass = "failed" \/ CommonRows(selected) = {}
     THEN marginStep' = "failed" /\ UNCHANGED common
     ELSE common' = CommonRows(selected) /\ marginStep' = "written"
  /\ UNCHANGED <<marginNext, marginRows, selected>>

-----------------------------------------------------------------------------
\* Boosted trees.

PriorBlocks(b) == Sorted({c \in ToSet(eloBlocks) : Earlier(c, b)}, Earlier)
Rows(blocks) == UNION {GamesOf(schedule, blocks[i]) : i \in DOMAIN blocks}

\* construct_split: the last two prior blocks validate, those before them fit.
Split(prior) ==
  LET n == Len(prior)
  IN IF n < 2 THEN [fit |-> <<>>, validation |-> prior]
     ELSE [fit |-> SubSeq(prior, 1, n - 2), validation |-> SubSeq(prior, n - 1, n)]

\* construct_adaptive_split: the validation tail grows backwards until it is
\* large enough, as long as enough is left to fit.
ValidationTail(prior, k) == SubSeq(prior, Len(prior) - k + 1, Len(prior))
FitHead(prior, k) == SubSeq(prior, 1, Len(prior) - k)
LeavesAFit(prior, k) == Len(prior) - k >= MinBlocks /\ Cardinality(Rows(FitHead(prior, k))) >= MinFitRows
Validates(prior, k) == k >= MinBlocks /\ Cardinality(Rows(ValidationTail(prior, k))) >= MinValidationRows

AdaptiveSplit(prior) ==
  LET tried == {k \in 1 .. Len(prior) : \A j \in 1 .. k : LeavesAFit(prior, j)}
      enough == {k \in tried : Validates(prior, k)}
      k == IF enough # {} THEN Min(enough)
           ELSE IF tried # {} THEN Max(tried)
           ELSE Min({MinBlocks, Len(prior)})
  IN [fit |-> FitHead(prior, k), validation |-> ValidationTail(prior, k)]

\* evaluate_warmup_reason: the gates count rows whatever their result.
WarmupReason(split) ==
  IF Len(split.validation) < MinBlocks THEN "validation blocks"
  ELSE IF Cardinality(Rows(split.validation)) < MinValidationRows THEN "validation rows"
  ELSE IF Len(split.fit) < MinBlocks THEN "fit blocks"
  ELSE IF Cardinality(Rows(split.fit)) < MinFitRows THEN "fit rows"
  ELSE "none"

\* predict_block: fit on the binary rows, stop early on the validation rows,
\* refit on both for the rounds found.
TreeRow(g, split) ==
  LET reason == WarmupReason(split)
  IN [warmup |-> reason,
      fit |-> IF reason = "none" THEN Binary(schedule, Rows(split.fit)) ELSE {},
      validation |-> IF reason = "none" THEN Binary(schedule, Rows(split.validation)) ELSE {},
      scored |-> reason = "none" /\ g \in Binary(schedule, {g})]

\* verify_authority and verify_original_lock: the artifacts the selection was
\* frozen with must be the ones on disk.
TreeVerify ==
  /\ treeStep = "verify"
  /\ \E step \in {"walk", "refused"} : treeStep' = step
  /\ UNCHANGED <<treeNext, treeRows>>

TreeBlock ==
  /\ treeStep = "walk"
  /\ LET b == eloBlocks[treeNext]
     IN treeRows' = [g \in DOMAIN treeRows \cup GamesOf(schedule, b) |->
                       IF g \in DOMAIN treeRows THEN treeRows[g]
                       ELSE TreeRow(g, Split(PriorBlocks(b)))]
  /\ IF treeNext = Len(eloBlocks)
     THEN treeStep' = "written" /\ UNCHANGED treeNext
     ELSE treeNext' = treeNext + 1 /\ UNCHANGED treeStep

ChallengerInit ==
  /\ marginStep = "extract" /\ marginNext = 1
  /\ marginRows = [c \in Candidates |-> <<>>]
  /\ selected = "" /\ common = {}
  /\ treeStep = "verify" /\ treeNext = 1 /\ treeRows = <<>>

ExpectedMargin == (MarginExtract \/ MarginBlock \/ SelectCandidate \/ PublishMargin) /\ UNCHANGED schedule
Trees == (TreeVerify \/ TreeBlock) /\ UNCHANGED schedule

=============================================================================
