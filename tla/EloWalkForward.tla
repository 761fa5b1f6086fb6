-------------------------- MODULE EloWalkForward --------------------------
(***************************************************************************)
(* The Elo baseline walked over the development seasons: block by block,   *)
(* predict every game from the frozen ratings (pass 1), then apply the     *)
(* results (pass 2).  Ratings are kept as the distance from the initial    *)
(* rating in units small enough for the carryover of one third to be exact *)
(* over two season boundaries; an expected score is a number of quarters   *)
(* that depends on the sign of the rating difference alone.  basis[t] is   *)
(* the set of games the rating of t rests on.                              *)
(***************************************************************************)
EXTENDS Naturals, Integers, Sequences, FiniteSets, SequencesExt

CONSTANTS Schedules,        \* the games parquets there may be
          DevelopmentMax,   \* the last season a backtest may read
          HomeField         \* the home advantage, in rating units

-----------------------------------------------------------------------------
(***************************************************************************)
(* The calendar every backtest walks: games grouped into prediction blocks *)
(* (season, season type, week), the order of the blocks, and the Tuesdays  *)
(* between which a week's data may be used.                                *)
(*                                                                         *)
(* A schedule maps a game to [block, home, away, day, result].  Games are  *)
(* numbers, in the order of their game_id.  Days count half weeks: an even *)
(* day is a Tuesday, an odd one the rest of the week after it.             *)
(***************************************************************************)
SeasonTypes == <<"REG", "WC", "DIV", "CON", "SB">>

\* A result is the home margin, or Unplayed while the game has no score.
Unplayed == 99
Tie == 0

Priority(type) == CHOOSE i \in DOMAIN SeasonTypes : SeasonTypes[i] = type

\* Strictly earlier in canonical order: season, then season type, then week.
Earlier(a, b) ==
  \/ a.season < b.season
  \/ /\ a.season = b.season
     /\ \/ Priority(a.type) < Priority(b.type)
        \/ a.type = b.type /\ a.week < b.week

\* The members of S from the least: a member stands after those less than it.
Sorted(S, less(_, _)) ==
  [i \in 1 .. Cardinality(S) |->
     CHOOSE x \in S : Cardinality({y \in S : less(y, x)}) = i - 1]

GamesOf(s, b) == {g \in DOMAIN s : s[g].block = b}

TeamsOf(s, G) == UNION {{s[g].home, s[g].away} : g \in G}

Completed(s, G) == {g \in G : s[g].result # Unplayed}

\* The games of the development seasons; later ones are the sealed holdout.
Development(s) == [g \in {h \in DOMAIN s : s[h].block.season <= DevelopmentMax} |-> s[g]]

\* build_development_blocks: the blocks with games, in canonical order.
BlocksOf(s) ==
  Sorted({s[g].block : g \in DOMAIN Development(s)}, Earlier)

\* Mutant: the block itself counts as one before it.
PriorInclusive(s, b) == {g \in DOMAIN s : ~Earlier(b, s[g].block)}

\* The games of the blocks strictly before b.
Prior(s, b) == {g \in DOMAIN s : Earlier(s[g].block, b)}

\* prediction_boundary_before: the last Tuesday strictly before the first game.
AsOf(s, b) ==
  LET first == CHOOSE d \in {s[g].day : g \in GamesOf(s, b)} :
                 \A g \in GamesOf(s, b) : d <= s[g].day
  IN 2 * ((first - 1) \div 2)

\* Mutant: a week is over at the Tuesday nearest to its last game.
EligibleAtNearest(s, b) ==
  LET last == CHOOSE d \in {s[g].day : g \in GamesOf(s, b)} :
                \A g \in GamesOf(s, b) : d >= s[g].day
  IN 2 * ((last + 1) \div 2)

\* publication_boundary_after: the first Tuesday strictly after the last game.
EligibleAt(s, b) ==
  LET last == CHOOSE d \in {s[g].day : g \in GamesOf(s, b)} :
                \A g \in GamesOf(s, b) : d >= s[g].day
  IN 2 * (last \div 2 + 1)

\* eligible_source_blocks: earlier blocks whose week was over by b's cutoff.
EligibleSources(s, b) ==
  {c \in ToSet(BlocksOf(s)) : Earlier(c, b) /\ EligibleAt(s, c) <= AsOf(s, b)}

\* There are games to walk over; a block begins no later than those after it, and
\* weeks are numbered through a season.
ASSUME CalendarAssumption ==
  DevelopmentMax \in Nat /\ \A s \in Schedules :
    /\ IsFiniteSet(DOMAIN s) /\ DOMAIN s \subseteq Nat /\ DOMAIN Development(s) # {}
    /\ \A g \in DOMAIN s :
         /\ s[g].day \in Nat /\ s[g].result \in Int
         /\ s[g].block \in [season : Nat, type : ToSet(SeasonTypes), week : Nat]
    /\ \A g, h \in DOMAIN s : Earlier(s[g].block, s[h].block) =>
         /\ \E first \in GamesOf(s, s[g].block) : s[first].day <= s[h].day
         /\ s[g].block.season = s[h].block.season => s[g].block.week < s[h].block.week

-----------------------------------------------------------------------------
\* The walk.

VARIABLES schedule,         \* the games parquet
          eloNext,          \* the index of the block in hand
          eloPass,          \* "predict", "update", "finish", "written" or "failed"
          rating, basis,    \* by team known so far
          predictions,      \* by game: the prediction rows
          updates           \* the state ledger, one row per completed game

eloVars == <<eloNext, eloPass, rating, basis, predictions, updates>>

eloBlocks == BlocksOf(schedule)
eloGames == Development(schedule)

Unit == 9
NoBlock == [season |-> 0, type |-> "REG", week |-> 0]

-----------------------------------------------------------------------------
\* The rating algebra of qb_elo.py.

\* ensure_team: a team not met before starts at the initial rating.
Ensured(f, teams, new) ==
  [t \in DOMAIN f \cup teams |-> IF t \in DOMAIN f THEN f[t] ELSE new]

\* apply_season_carryover: a third of the way back to the initial rating.
Carried(r) == [t \in DOMAIN r |-> r[t] - r[t] \div 3]

\* elo_expected, in quarters, for the home side; the away side has the rest.
ExpectedHome(home, away) ==
  IF home + HomeField > away THEN 3 ELSE IF home + HomeField = away THEN 2 ELSE 1

\* The K factor is smaller after the regular season; the multiplier of a tie
\* is one, that of a rout is larger.
KFactor(type) == IF type = "REG" THEN 2 ELSE 1
Multiplier(margin) == IF margin \in {-1, Tie, 1} THEN 1 ELSE 2
ActualHome(margin) == IF margin = Tie THEN 2 ELSE IF margin > 0 THEN 4 ELSE 0

\* update_state_with_margin: the single delta both sides move by.
Delta(game, home, away) ==
  Unit * KFactor(game.block.type) * Multiplier(game.result)
       * (ActualHome(game.result) - ExpectedHome(home, away))

\* One game of pass 2 applied to a state [rating, basis, rows].
Applied(st, g) ==
  LET game == schedule[g]
      h == game.home
      a == game.away
      d == Delta(game, st.rating[h], st.rating[a])
      both == st.basis[h] \cup st.basis[a] \cup {g}
  IN [rating |-> [st.rating EXCEPT ![h] = @ + d, ![a] = @ - d],
      basis  |-> [st.basis EXCEPT ![h] = both, ![a] = both],
      rows   |-> Append(st.rows,
                   [game |-> g, homeBefore |-> st.rating[h], awayBefore |-> st.rating[a],
                    homeAfter |-> st.rating[h] + d, awayAfter |-> st.rating[a] - d])]

InOrder(G) == Sorted(G, <)

-----------------------------------------------------------------------------
\* The engine.

EloInit ==
  /\ eloNext = 1
  /\ eloPass = IF eloBlocks = <<>> THEN "failed" ELSE "predict"
  /\ rating = [t \in TeamsOf(eloGames, DOMAIN eloGames) |-> 0]
  /\ basis = [t \in TeamsOf(eloGames, DOMAIN eloGames) |-> {}]
  /\ predictions = <<>>
  /\ updates = <<>>

\* The block before the one in hand.
Previous == IF eloNext = 1 THEN NoBlock ELSE eloBlocks[eloNext - 1]

\* The state a block starts from: carried over when the season is new, and
\* with every team of the block in it.
BlockStart(b) ==
  LET carried == IF eloNext > 1 /\ b.season > Previous.season THEN Carried(rating) ELSE rating
  IN Ensured(carried, TeamsOf(schedule, GamesOf(schedule, b)), 0)

\* Mutant: only two home games of one team are noticed.
RepeatsHomeTeam(b) ==
  \E g, h \in GamesOf(schedule, b) : g # h /\ schedule[g].home = schedule[h].home

\* No team may play twice in a block: the order of updates would matter.
RepeatsTeam(b) ==
  \E g, h \in GamesOf(schedule, b) :
    g # h /\ TeamsOf(schedule, {g}) \cap TeamsOf(schedule, {h}) # {}

\* _build_exposure_for_block: what is reported as known before the block.
Exposure(b) ==
  [rows      |-> Cardinality(Prior(eloGames, b)),
   blocks    |-> Cardinality({schedule[g].block : g \in Prior(eloGames, b)}),
   completed |-> Cardinality(Completed(schedule, Prior(eloGames, b)))]

\* A prediction row: the ratings the game was predicted from, what they rest
\* on, the exposure reported, and the target resolved from the games frame.
PredictionRow(g, frozen, rests, exposure) ==
  LET game == schedule[g]
  IN [homeBefore |-> frozen[game.home], awayBefore |-> frozen[game.away],
      basis |-> rests[game.home] \cup rests[game.away],
      exposure |-> exposure,
      scored |-> game.result \notin {Unplayed, Tie}]

\* Pass 1: every game of the block is predicted from the frozen state.
PredictBlock ==
  /\ eloPass = "predict"
  /\ LET b == eloBlocks[eloNext]
         frozen == BlockStart(b)
         rests == Ensured(basis, DOMAIN frozen, {})
         G == GamesOf(schedule, b)
     IN IF RepeatsTeam(b)
        THEN eloPass' = "failed" /\ UNCHANGED <<rating, basis, predictions>>
        ELSE /\ rating' = frozen
             /\ basis' = rests
             /\ predictions' = [g \in DOMAIN predictions \cup G |->
                  IF g \in G THEN PredictionRow(g, frozen, rests, Exposure(b))
                             ELSE predictions[g]]
             /\ eloPass' = "update"
  /\ UNCHANGED <<schedule, eloNext, updates>>

\* Pass 2: the completed games of the block, in game_id order.
UpdateBlock ==
  /\ eloPass = "update"
  /\ LET G == Completed(schedule, GamesOf(schedule, eloBlocks[eloNext]))
         st == FoldLeft(Applied, [rating |-> rating, basis |-> basis, rows |-> updates],
                        InOrder(G))
     IN rating' = st.rating /\ basis' = st.basis /\ updates' = st.rows
  /\ IF eloNext = Len(eloBlocks)
     THEN eloPass' = "finish" /\ UNCHANGED eloNext
     ELSE eloPass' = "predict" /\ eloNext' = eloNext + 1
  /\ UNCHANGED <<schedule, predictions>>

\* The ledgers are built and checked, then written: a state ledger without a
\* row is refused, and so is one whose two sides do not balance.
Balances(row) == row.homeAfter + row.awayAfter = row.homeBefore + row.awayBefore

FinishElo ==
  /\ eloPass = "finish"
  /\ eloPass' = IF updates # <<>> /\ \A i \in DOMAIN updates : Balances(updates[i])
                THEN "written" ELSE "failed"
  /\ UNCHANGED <<schedule, eloNext, rating, basis, predictions, updates>>

EloNext == PredictBlock \/ UpdateBlock \/ FinishElo

-----------------------------------------------------------------------------
\* What reads the ledgers back.

\* The persisted prediction ledger is sorted by season, week and game.
LedgerOrder ==
  Sorted(DOMAIN predictions,
    LAMBDA g, h : LET b == schedule[g].block
                      c == schedule[h].block
                  IN \/ b.season < c.season
                     \/ b.season = c.season /\ b.week < c.week
                     \/ b.season = c.season /\ b.week = c.week /\ g < h)

\* independent_replay_from_pregame: the updates recomputed from the outcomes
\* of the prediction rows, with a state of its own.
ReplayOne(st, g) ==
  LET game == schedule[g]
      carried == IF st.season > 0 /\ game.block.season > st.season
                 THEN Carried(st.rating) ELSE st.rating
      ready == Ensured(carried, TeamsOf(schedule, {g}), 0)
      begun == [st EXCEPT !.rating = ready, !.season = game.block.season]
  IN IF game.result = Unplayed THEN begun
     ELSE LET d == Delta(game, ready[game.home], ready[game.away])
          IN [begun EXCEPT
                !.rating = [ready EXCEPT ![game.home] = @ + d, ![game.away] = @ - d],
                !.rows = @ \cup {[game |-> g,
                            homeBefore |-> ready[game.home], awayBefore |-> ready[game.away],
                            homeAfter |-> ready[game.home] + d,
                            awayAfter |-> ready[game.away] - d]}]

Replayed ==
  FoldLeft(ReplayOne, [rating |-> [t \in TeamsOf(schedule, {updates[i].game : i \in DOMAIN updates}) |-> 0],
                       season |-> 0, rows |-> {}], LedgerOrder)

\* detect_state_ledger_corruption: rows that differ, are missing or are orphans,
\* and every prediction without a margin.
Corruption ==
  {row.game : row \in (Replayed.rows \ Range(updates)) \cup (Range(updates) \ Replayed.rows)}
    \cup (IF updates = <<>> THEN {} ELSE {g \in DOMAIN predictions : schedule[g].result = Unplayed})

=============================================================================
