-------------------------- MODULE FootballInputs --------------------------
(***************************************************************************)
(* What the football models are given when a week of the live season is    *)
(* scored: who starts, and what the models have learned.                   *)
(*                                                                         *)
(* Who starts: the last committed Sleeper snapshot, a team's depth chart,  *)
(* the identity of the chosen player, and the operator's overrides.  A     *)
(* chart is a set of rows [id, order, evidence, injury, rookie, gsis,      *)
(* xwalk]: evidence is the state the audit gave the player, and xwalk his  *)
(* row of the crosswalk [conflict, method, review, id].  "" is no value,   *)
(* and NoOrder the order of a row that has none.                           *)
(*                                                                         *)
(* What is learned: everything up to the last finished season, replayed    *)
(* block by block, then every settled week since, each predicted with the  *)
(* real starters, revealed and learned.  A fit is modelled by the rows it  *)
(* is fitted to.  A season maps a game to [week, home, away, structure].   *)
(* Weeks are Span ticks long and begin at the rollover of their Tuesday.   *)
(* The evidence of settled weeks is [through, revision, at].               *)
(***************************************************************************)
EXTENDS Naturals, Sequences, FiniteSets, SequencesExt

CONSTANTS
  StaleAfter,      \* staleness_threshold_seconds
  Season,          \* the schedule of the live season
  Span,            \* ticks of a week
  LateWeeks,       \* weeks whose last game is played on a Tuesday
  PriorBlocks,     \* the blocks of the season before: sequences of games
  MinTraining      \* rows without which a model is still warming up

\* Games are numbers, of a week and two teams; a week is longer than the tick its Tuesday
\* game takes; the season before is other games, each of one block.
ASSUME FootballAssumption ==
  /\ StaleAfter \in Nat /\ Span \in Nat /\ Span >= 2
  /\ IsFiniteSet(DOMAIN Season) /\ DOMAIN Season \subseteq Nat
  /\ \A g \in DOMAIN Season : Season[g].week \in Nat \ {0} /\ Season[g].home # Season[g].away
  /\ PriorBlocks \in Seq(Seq(Nat))
  /\ \A i \in DOMAIN PriorBlocks :
       /\ ToSet(PriorBlocks[i]) \cap DOMAIN Season = {}
       /\ \A j \in DOMAIN PriorBlocks : i # j => ToSet(PriorBlocks[i]) \cap ToSet(PriorBlocks[j]) = {}

-----------------------------------------------------------------------------
\* The starters.
NoOrder == 999
ExpectedTop == {"healthy", "limited", "questionable"}
UnavailableTop == {"doubtful", "out"}
StableMethods == {"sleeper", "gsis", "espn", "stable"}
SourceFailures == {"TRANSPORT_FAILURE", "INCOMPLETE_RESPONSE", "NORMALIZATION_FAILURE",
                   "REFERENCE_FAILURE", "PERSISTENCE_FAILURE", "LOCK_FAILURE"}
Scoreable == {"RESOLVED", "NEW_PLAYER", "OVERRIDDEN"}
Usable == {"FRESH", "AGING"}

-----------------------------------------------------------------------------
\* SleeperQBSource.load: the snapshot the pointer names, its age at asOf (a
\* snapshot observed after asOf has none) and the outcome of the last run.
Load(pointer, outcome, asOf) ==
  LET age == IF asOf > pointer.at THEN asOf - pointer.at ELSE 0
  IN [snapshot |-> pointer.id,
      charts |-> pointer.charts,
      warning |-> IF outcome = "SUCCESS" THEN "" ELSE outcome,
      freshness |-> CASE outcome \in SourceFailures -> "UNAVAILABLE"
                      [] outcome \notin SourceFailures /\ 2 * age < StaleAfter -> "FRESH"
                      [] outcome \notin SourceFailures /\ 2 * age >= StaleAfter
                         /\ age <= StaleAfter -> "AGING"
                      [] OTHER -> "STALE"]

Top(chart) == {r \in chart : r.order = 1}
Viable(chart) == {r \in Top(chart) : r.evidence \in ExpectedTop}
Backups(chart) == {r \in chart : /\ r.order >= 2
                                 /\ r.evidence = "backup"
                                 /\ r.injury \notin UnavailableTop}
BestBackups(chart) == {r \in Backups(chart) : \A o \in Backups(chart) : r.order <= o.order}
TopIsOut(chart) == Top(chart) # {} /\ \A r \in Top(chart) : r.evidence \in UnavailableTop

Nobody(status) == [rows |-> {}, status |-> status, warning |-> ""]
Chosen(rows, warning) == [rows |-> rows, status |-> "", warning |-> warning]

\* _choose_candidate: the one player at depth 1 who can play, or the one best
\* backup when all those at depth 1 cannot.
ChooseCandidate(chart) ==
  CASE \E r \in Top(chart) : r.evidence = "AMBIGUOUS" -> Nobody("AMBIGUOUS")
    [] (\A r \in Top(chart) : r.evidence # "AMBIGUOUS") /\ Viable(chart) # {} ->
         IF Cardinality(Viable(chart)) = 1 THEN Chosen(Viable(chart), "") ELSE Nobody("AMBIGUOUS")
    [] TopIsOut(chart) /\ Backups(chart) # {} ->
         IF Cardinality(BestBackups(chart)) = 1
         THEN Chosen(BestBackups(chart), "DEPTH1_UNAVAILABLE_BACKUP_PROMOTION")
         ELSE Nobody("AMBIGUOUS")
    [] OTHER -> Nobody(IF Top(chart) # {} THEN "UNRESOLVED" ELSE "MISSING_EVIDENCE")

\* _stable_identity: a provider's identifier decides; a name never does, and a
\* rookie may stand on the identifier the source itself carries.
StableIdentity(r) ==
  LET x == r.xwalk
  IN CASE x.conflict -> [id |-> "", status |-> "AMBIGUOUS"]
       [] ~x.conflict /\ x.method \in StableMethods /\ ~x.review /\ x.id # "" ->
            [id |-> x.id, status |-> "RESOLVED"]
       [] ~x.conflict /\ (x.method = "name" \/ x.review) -> [id |-> "", status |-> "UNRESOLVED"]
       [] OTHER -> IF r.gsis # "" /\ r.rookie
                   THEN [id |-> r.gsis, status |-> "NEW_PLAYER"]
                   ELSE [id |-> "", status |-> "UNRESOLVED"]

\* A resolution of a team's quarterback; its provenance is the hash of what it was
\* resolved from.
QbResolution(source, game, team, pid, known, warnings) ==
  [qb |-> known.id, status |-> known.status, freshness |-> source.freshness,
   provenance |-> [snapshot |-> source.snapshot, game |-> game, team |-> team, pid |-> pid,
                   qb |-> known.id, status |-> known.status, warnings |-> warnings]]

\* _unresolved: nobody is named, though a player may have been considered.
QbUnresolved(source, game, team, pid, status, warning) ==
  QbResolution(source, game, team, pid, [id |-> "", status |-> status], <<warning>>)

\* What the source alone says of a team's quarterback.
FromSource(source, game, team) ==
  LET chosen == ChooseCandidate(source.charts[team])
      row == CHOOSE r \in chosen.rows : TRUE
      known == StableIdentity(row)
  IN CASE chosen.rows = {} -> QbUnresolved(source, game, team, "", chosen.status, "")
       [] chosen.rows # {} /\ known.id = "" ->
            QbUnresolved(source, game, team, row.id, known.status, chosen.warning)
       [] chosen.rows # {} /\ known.id # "" ->
            QbResolution(source, game, team, row.id, known, <<chosen.warning, source.warning>>)

\* resolve_team: an override names the quarterback; how fresh the source is
\* stays as it was.
ResolveTeam(source, overrides, game, team) ==
  LET base == FromSource(source, game, team)
  IN IF <<game, team>> \notin DOMAIN overrides
     THEN base
     ELSE [base EXCEPT !.qb = overrides[<<game, team>>],
                       !.status = "OVERRIDDEN",
                       !.provenance = [base |-> base.provenance, snapshot |-> source.snapshot,
                                       override |-> overrides[<<game, team>>]]]

\* detect_starter_change: whether two resolutions of a side differ.
StarterChanged(a, b) == a.qb # b.qb \/ a.provenance # b.provenance

-----------------------------------------------------------------------------
\* The weeks.
Weeks == {Season[g].week : g \in DOMAIN Season}
WeekGames(w) == {g \in DOMAIN Season : Season[g].week = w}
Rollover(w) == (w - 1) * Span

\* resolve_active_schedule: the last week whose rollover has passed.
ActiveWeek(now) == CHOOSE w \in Weeks : Rollover(w) <= now /\ now < Rollover(w) + Span

\* build_weekly_availability: the data of a week may be used from the Tuesday
\* noon (UTC) strictly after its last game.  In winter that is an hour, here
\* the last tick of a week, before the rollover at six in Denver.
EligibleAt(w) == Rollover(w) + Span - 1 + (IF w \in LateWeeks THEN Span ELSE 0)

\* build_live_week_features: the weeks the rolling features of week w look
\* back on, of those the evidence holds.
PriorWeeks(w, through, asOf) ==
  {v \in Weeks : v < w /\ v <= through /\ EligibleAt(v) <= asOf}

\* The least first: games are numbers, in the order of their game_id.
InOrder(G) == [i \in 1 .. Cardinality(G) |-> CHOOSE g \in G : Cardinality({h \in G : h < g}) = i - 1]

-----------------------------------------------------------------------------
\* A football state: by component, the rows it has learned, in order.
Components == {"elo", "xgb", "margin", "totals", "drives"}
Nothing == [blocks |-> <<>>, oos |-> <<>>, rows |-> [c \in Components |-> <<>>]]

GamesIn(rows) == {rows[i].game : i \in DOMAIN rows}

\* assert_history_strictly_prior: no row of these games' block or after.
StrictlyPrior(state, G) ==
  \A c \in Components : GamesIn(state.rows[c]) \cap G = {}

\* reveal_and_update_qb_elo_block, reveal_and_commit_totals_block and the
\* appends around them: every component learns the block, each game with the
\* context it had, and the margin model keeps what it predicted of it.
LearnBlock(state, block, G, context) ==
  LET learned == [i \in 1 .. Cardinality(G) |->
                    [game |-> InOrder(G)[i], of |-> context[InOrder(G)[i]]]]
      predicted == [i \in 1 .. Cardinality(G) |->
                      [game |-> InOrder(G)[i], after |-> Len(state.rows["margin"])]]
  IN [blocks |-> Append(state.blocks, block),
      oos |-> state.oos \o predicted,
      rows |-> [c \in Components |-> state.rows[c] \o learned]]

\* bootstrap_entering_2026_state: the season before, block after block, over
\* the frozen development state.
Bootstrap ==
  FoldLeft(LAMBDA state, b : LearnBlock(state, b, ToSet(b), [g \in ToSet(b) |-> <<>>]),
           Nothing, PriorBlocks)

\* The weeks to learn, of those the evidence holds.
SettledWeeks(active, through) == {v \in Weeks : v < active /\ v <= through}

\* SettledActualQBResolver: who started, as the evidence has it.
ActualStarters(g, evidence) == [game |-> g, revision |-> evidence.revision]

\* _completed_context: the features of a settled game, with its real starters
\* and its real roof.
CompletedContext(G, roll, evidence) ==
  [g \in G |-> [qbs |-> ActualStarters(g, evidence), roll |-> roll]]

\* One settled week: its features as of the Tuesday a week after its rollover.
AdvanceWeek(state, w, evidence) ==
  LearnBlock(state, <<w>>, WeekGames(w),
             CompletedContext(WeekGames(w),
                              PriorWeeks(w, evidence.through, Rollover(w) + Span), evidence))

\* advance_entering_state_through_settled_weeks, for evidence that ends with
\* the week before the active one.
EnteringState(active, evidence) ==
  FoldLeft(LAMBDA state, w : AdvanceWeek(state, w, evidence),
           Bootstrap, InOrder(SettledWeeks(active, evidence.through)))

\* _version: the blocks completed, the manifest of the evidence, the counts.
StateVersion(state, active, evidence) ==
  [blocks |-> state.blocks,
   evidence |-> IF active = 1 THEN [through |-> 0, revision |-> 0, at |-> 0] ELSE evidence,
   counts |-> [c \in Components |-> Len(state.rows[c])]]

-----------------------------------------------------------------------------
\* The model adapters.  qbs are the two starters, roll what the rolling
\* features look back on, category the roof.

PredictElo(state, qbs, roll) == [rows |-> state.rows["elo"], qbs |-> qbs, roll |-> roll]

PredictTotals(state, qbs, roll) ==
  [rows |-> state.rows["totals"], drives |-> state.rows["drives"], qbs |-> qbs, roll |-> roll]

PredictMargin(state) == [rows |-> state.rows["margin"]]

Warmup(state) == Len(state.rows["xgb"]) < MinTraining

PredictXgb(state, qbs, roll, category) ==
  [rows |-> state.rows["xgb"], qbs |-> qbs, roll |-> roll, category |-> category]
=============================================================================
