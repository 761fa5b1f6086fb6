-------------------------- MODULE EvaluatorReplay --------------------------
(***************************************************************************)
(* The evaluator walked over the seasons that have market history: it joins*)
(* what the four backtests wrote, fits each market on the games before a   *)
(* block, evaluates the block's offers, and learns from how they settled.  *)
(* The walk is continued over the sealed season by the holdout; the state  *)
(* the live product enters its season with is put together afterwards from *)
(* the evidence both left.  A fit is the set of games it was made from.    *)
(***************************************************************************)
EXTENDS DevelopmentReports

CONSTANTS FirstEvaluated,  \* the first season of the evaluator's DEV
          MinPrior,        \* MIN_PRIOR: games a fit needs
          Quotes(_)        \* the market histories there may be of some games

VARIABLES replayStep,   \* "read", "walk", "freeze", "holdout", "enter", "entered", "failed"
          replayNext,   \* the index of the block in hand
          quotes,       \* by game: [anchored, offered, line, over]
          board,        \* the settled rows, of every block walked
          histories,    \* by market: the settled probabilities, as <<game, won>>
          confidence,   \* by block of the board: [ml, residuals]
          entering      \* the state of the live season, <<>> before

replayVars == <<replayStep, replayNext, quotes, board, histories, confidence, entering>>

Markets == {"moneyline", "spread", "total"}
SidesOf(m) == IF m = "total" THEN {"over", "under"} ELSE {"home", "away"}
Canonical == [moneyline |-> "home", spread |-> "home", total |-> "over"]

\* Every block of a season that is evaluated or sealed, in order.
Sealed(b) == b.season > DevelopmentMax
Evaluated(s) == {s[g].block : g \in {h \in DOMAIN s : s[h].block.season >= FirstEvaluated}}
ReplayBlocks == Sorted(Evaluated(schedule), Earlier)
DevelopmentBlocks == Sorted({b \in Evaluated(schedule) : ~Sealed(b)}, Earlier)

\* There is a block to evaluate, and one that is sealed; an offer is of a market.
ASSUME ReplayAssumption ==
  FirstEvaluated \in Nat /\ \A s \in Schedules :
    /\ \E b, c \in Evaluated(s) : ~Sealed(b) /\ Sealed(c)
    /\ \A G \in SUBSET DOMAIN s : \A history \in Quotes(G), g \in G :
         \A offer \in history[g].offered : offer[1] \in Markets

\* build_inputs: the Elo rows of the evaluated seasons; the holdout adds those
\* of the sealed one.
EvaluatedGames == {g \in DOMAIN predictions : schedule[g].block.season >= FirstEvaluated}
SealedGames == {g \in DOMAIN schedule : Sealed(schedule[g].block)}

\* The models that have a value for a game: a tree in warm-up has none.
Joined(g) ==
  {"qb"} \cup (IF treeRows[g].warmup = "none" THEN {"xgb"} ELSE {})
         \cup (IF marginRows["stable"][g].margin THEN {"margin"} ELSE {})
         \cup (IF g \in records THEN {"total"} ELSE {})
ModelsOf(g) == IF g \in DOMAIN predictions THEN Joined(g) ELSE {"qb", "xgb", "margin", "total"}
Needs == [moneyline |-> {"qb", "xgb"}, spread |-> {"margin"}, total |-> {"total"}]
Modelled(m, g) == Needs[m] \subseteq ModelsOf(g)

Ties(P) == {g \in P : schedule[g].result = Tie}

\* _training_material: a game is trained on if Pinnacle anchors it and the models
\* have it; a tie teaches the moneyline nothing.
Material(m, P) ==
  {g \in P : m \in quotes[g].anchored /\ Modelled(m, g) /\ (m = "moneyline" => g \notin Ties(P))}

OneClass(G) == HomeWins(G) \in {{}, G}

\* _fit_states: nothing is fitted to too few games, nor a moneyline to one outcome.
Fitted(m, G) == IF Cardinality(G) < MinPrior \/ (m = "moneyline" /\ OneClass(G)) THEN {} ELSE G
FitStates(P) == [m \in Markets |-> Fitted(m, Material(m, P))]

\* How an offer settles.
Graded(margin) == CASE margin > 0 -> "WIN" [] margin < 0 -> "LOSS" [] OTHER -> "PUSH"
Opposite == [WIN |-> "LOSS", LOSS |-> "WIN", PUSH |-> "PUSH"]
Settlement(g, m, side) ==
  LET canonical == CASE m = "moneyline" -> Graded(schedule[g].result)
                     [] m = "spread" -> Graded(schedule[g].result + quotes[g].line)
                     [] OTHER -> quotes[g].over
  IN IF side = Canonical[m] THEN canonical ELSE Opposite[canonical]

\* The rows of a game: one for each offer; unsupported while the market has no
\* state, no anchor, or no model output.
BoardRows(g, fits, seen) ==
  {[game |-> g, market |-> o[1], side |-> o[2],
    anchored |-> fits[o[1]] # {} /\ o[1] \in quotes[g].anchored,
    supported |-> fits[o[1]] # {} /\ o[1] \in quotes[g].anchored /\ Modelled(o[1], g),
    basis |-> fits[o[1]], learned |-> {h[1] : h \in seen[o[1]]},
    settlement |-> Settlement(g, o[1], o[2])] : o \in quotes[g].offered}

\* _history_append: the canonical side of each game and market, once.
HistoryAppend(h, rows) ==
  [m \in Markets |-> h[m] \cup
     {<<r.game, r.settlement = "WIN">> :
        r \in {q \in rows : /\ q.market = m /\ q.side = Canonical[m]
                            /\ q.supported /\ q.settlement \in {"WIN", "LOSS"}}}]

NoHistory == [m \in Markets |-> {}]

-----------------------------------------------------------------------------
\* The confidence of the selectors, fitted beside the evaluator.

\* _fit_ml_state and the residuals: results and models alone, no market.
MoneylineOutcomes(P) == {g \in Completed(schedule, P) : Modelled("moneyline", g) /\ schedule[g].result # Tie}
MarginResiduals(P) == {g \in Completed(schedule, P) : Modelled("spread", g)}

\* _build_model_confidence: its history begins with the first season there is.
ConfidenceBefore(b) ==
  [ml |-> MoneylineOutcomes(Prior(eloGames, b)), residuals |-> MarginResiduals(Prior(eloGames, b))]

\* Mutant: a push counts as a lost cover.
CoverObservationsPushed(rows) ==
  {<<r.game, r.side, r.settlement = "WIN">> : r \in {q \in rows : q.market = "spread" /\ Modelled("spread", q.game)}}

\* _calibration_observations: every spread row that won or lost, once for each
\* game, side and line, supported or not.
CoverObservations(rows) ==
  {<<r.game, r.side, r.settlement = "WIN">> :
     r \in {q \in rows : /\ q.market = "spread" /\ q.settlement # "PUSH"
                         /\ Modelled("spread", q.game)}}

-----------------------------------------------------------------------------
\* build_market and build_inputs: what the backtests wrote must be there.
ReadInputs ==
  /\ replayStep = "read"
  /\ eloPass = "written" /\ treeStep = "written" /\ totalsStep = "written" /\ marginStep = "written"
  /\ quotes' \in Quotes(EvaluatedGames \cup SealedGames)
  /\ replayStep' = "walk"
  /\ UNCHANGED <<replayNext, board, histories, confidence, entering>>

\* One block: fit, evaluate, settle, learn.
BlockWalked(b) ==
  LET prior == {g \in EvaluatedGames \cup SealedGames : Earlier(schedule[g].block, b)}
      fits == FitStates(prior)
      rows == UNION {BoardRows(g, fits, histories) : g \in GamesOf(schedule, b)}
  IN /\ board' = board \cup rows
     /\ histories' = HistoryAppend(histories, rows)

\* The body of run.  Every game has a score, or there would be no margins to join.
WalkBlock ==
  /\ replayStep = "walk"
  /\ BlockWalked(DevelopmentBlocks[replayNext])
  /\ confidence' = Append(confidence, ConfidenceBefore(DevelopmentBlocks[replayNext]))
  /\ replayNext' = replayNext + 1
  /\ replayStep' = IF replayNext = Len(DevelopmentBlocks) THEN "freeze" ELSE "walk"
  /\ UNCHANGED <<quotes, entering>>

\* write_frozen_state: every market must have a state at the end, and every
\* season a row.
Freeze ==
  /\ replayStep = "freeze"
  /\ replayStep' = IF \/ \E m \in Markets : FitStates(EvaluatedGames)[m] = {}
                      \/ {schedule[r.game].block.season : r \in board} # FirstEvaluated .. DevelopmentMax
                   THEN "failed" ELSE "holdout"
  /\ UNCHANGED <<replayNext, quotes, board, histories, confidence, entering>>

\* _task05f_pre_result: the same fit over what is revealed, for a sealed block.
HoldoutBlock ==
  /\ replayStep = "holdout"
  /\ BlockWalked(ReplayBlocks[replayNext])
  /\ replayNext' = replayNext + 1
  /\ replayStep' = IF replayNext = Len(ReplayBlocks) THEN "enter" ELSE "holdout"
  /\ UNCHANGED <<quotes, confidence, entering>>

-----------------------------------------------------------------------------
\* _read_2025_evidence and _training_material_2025: the sealed games the board
\* has a canonical row of.
EvidenceRows(m) ==
  {r \in board : Sealed(schedule[r.game].block) /\ r.market = m /\ r.side = Canonical[m]}

SealedMaterial(m) ==
  {r.game : r \in {q \in EvidenceRows(m) :
     q.anchored /\ Modelled(m, q.game) /\ (m = "moneyline" => schedule[q.game].result # Tie)}}

\* materialize_entering_2026_product_state: the historical replay is repeated
\* and compared with what was frozen, then everything is fitted on both seasons'
\* material.  Every market has a state: it had one when the walk was frozen.
Enter ==
  /\ replayStep = "enter"
  /\ LET all == EvaluatedGames \cup SealedGames
     IN entering' = [material |-> [m \in Markets |-> Material(m, EvaluatedGames) \cup SealedMaterial(m)],
                     ties |-> Cardinality(Ties(EvaluatedGames)) + Cardinality(Ties(SealedGames)),
                     histories |-> HistoryAppend(NoHistory, board),
                     ml |-> MoneylineOutcomes(all), residuals |-> MarginResiduals(all),
                     covers |-> CoverObservations(board)]
  /\ replayStep' = "entered"
  /\ UNCHANGED <<replayNext, quotes, board, histories, confidence>>

ReplayInit ==
  /\ replayStep = "read" /\ replayNext = 1
  /\ quotes = <<>> /\ board = {} /\ histories = NoHistory
  /\ confidence = <<>> /\ entering = <<>>

Replay ==
  /\ ReadInputs \/ WalkBlock \/ Freeze \/ HoldoutBlock \/ Enter
  /\ UNCHANGED schedule

-----------------------------------------------------------------------------
\* One program after another, in any order their inputs allow.
EvidenceKnown == \A side \in Sides : \A r \in evidence[side].depth : r.day \in Int

ResearchInit ==
  /\ schedule \in Schedules /\ EvidenceKnown
  /\ EloInit /\ ChallengerInit /\ TotalsInit /\ FeatureInit /\ ReportInit /\ ReplayInit

ResearchNext ==
  \/ Features /\ UNCHANGED <<eloVars, marginVars, treeVars, totalsVars, reportVars, replayVars>>
  \/ EloNext /\ UNCHANGED <<evidence, featureVars, marginVars, treeVars, totalsVars, reportVars, replayVars>>
  \/ ExpectedMargin /\ UNCHANGED <<evidence, featureVars, eloVars, treeVars, totalsVars, reportVars, replayVars>>
  \/ Trees /\ UNCHANGED <<evidence, featureVars, eloVars, marginVars, totalsVars, reportVars, replayVars>>
  \/ Totals /\ UNCHANGED <<evidence, featureVars, eloVars, marginVars, treeVars, reportVars, replayVars>>
  \/ Reports /\ UNCHANGED <<evidence, featureVars, eloVars, marginVars, treeVars, totalsVars, replayVars>>
  \/ Replay /\ UNCHANGED <<evidence, featureVars, eloVars, marginVars, treeVars, totalsVars, reportVars>>

evaluationVars ==
  <<schedule, evidence, featureVars, eloVars, marginVars, treeVars, totalsVars, reportVars, replayVars>>

ResearchSpec == ResearchInit /\ [][ResearchNext]_evaluationVars

-----------------------------------------------------------------------------
BlockOf(g) == schedule[g].block
Known(b) == Completed(schedule, Prior(eloGames, b))

\* Something dated before the game, or a roster, names the player.
KnownBefore(p, side) ==
  LET e == evidence[side]
  IN \/ p \in e.roster
     \/ \E r \in e.depth : r.player = p /\ r.day < schedule[side[1]].day

\* An Elo rating rests on the games the exposure of the block counts.
EloLooksBack ==
  \A g \in DOMAIN predictions :
    /\ predictions[g].basis \subseteq Known(BlockOf(g))
    /\ predictions[g].exposure.completed
         = Cardinality({i \in DOMAIN updates : Earlier(BlockOf(updates[i].game), BlockOf(g))})

\* So does a margin, by its fit and its mapping.
MarginLooksBack ==
  \A c \in Candidates : \A g \in DOMAIN marginRows[c] :
    marginRows[c][g].fit \cup marginRows[c][g].mapped \subseteq Known(BlockOf(g))

\* A tree validates on rows after those that fit it, and before its block.
TreesLookBack ==
  \A g \in DOMAIN treeRows :
    /\ treeRows[g].validation \subseteq Known(BlockOf(g))
    /\ \A f \in treeRows[g].fit, v \in treeRows[g].validation : Earlier(BlockOf(f), BlockOf(v))

\* A totals row rests on what its teams' accumulators held before the block.
TotalsLookBack ==
  \A g \in DOMAIN featureRows : featureRows[g].sources \subseteq Known(BlockOf(g))

\* A row of the bundle rests on games that were over, of earlier blocks, and on
\* evidence from before the game.
BundleLooksBack ==
  \A side \in DOMAIN bundle :
    /\ \A h \in bundle[side].team.sources \cup UNION Range(bundle[side].records) :
         DayOver(h, BlockOf(side[1])) /\ Earlier(BlockOf(h), BlockOf(side[1]))
    /\ bundle[side].team.season # {} => bundle[side].team.gap >= 1
    /\ \A p \in bundle[side].starter.players : KnownBefore(p, side)

\* An offer is evaluated, and a confidence calibrated, from earlier blocks.
ReplayLooksBack ==
  /\ \A r \in board : \A g \in r.basis \cup r.learned : Earlier(BlockOf(g), BlockOf(r.game))
  /\ \A i \in DOMAIN confidence : \A g \in confidence[i].ml \cup confidence[i].residuals :
       g \in Known(ReplayBlocks[i])

\* Every prediction of every backtest rests on results of strictly earlier
\* blocks of the development seasons alone: an Elo rating on the games the
\* block's exposure counts, a margin on its fit and its mapping, a tree on rows
\* that validate after those that fit, a totals row on its accumulators.
LooksBack ==
  /\ EloLooksBack /\ MarginLooksBack /\ TreesLookBack
  /\ TotalsLookBack /\ BundleLooksBack /\ ReplayLooksBack

=============================================================================
