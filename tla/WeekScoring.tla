--------------------------- MODULE WeekScoring ---------------------------
(***************************************************************************)
(* The football snapshot of the active week, scored again and again while  *)
(* what it rests on moves: the quarterback audit, the operator's overrides *)
(* and roof statuses, the results and statistics upstream, and the settled *)
(* evidence made of them.                                                  *)
(*                                                                         *)
(* An execution keeps any one snapshot, and compares any later one of its  *)
(* week with it.                                                           *)
(***************************************************************************)
EXTENDS FootballInputs

CONSTANTS AuditCharts,      \* by team: the charts an audit may find
          FirstCharts,      \* those of the audit before the season
          Failures,         \* the outcomes of audits that do not commit
          OverrideFiles,    \* what the operator may state of quarterbacks
          RoofFiles,        \* what he may state of retractable roofs
          LastTick,         \* the clock stops here
          MaxEdits          \* audits, edits and corrections of an execution

\* Every tick is of a week; a team's chart is finite, its depths from 1 on, and who is at
\* depth 1 is classified as such (evidence_states.classify); what the files state of roofs
\* is one of three; the audit fails in the ways it reports.
ASSUME WeekAssumption ==
  /\ LastTick \in Nat
  /\ \A t \in 0..LastTick : \E w \in Weeks : Rollover(w) <= t /\ t < Rollover(w) + Span
  /\ \A charts \in FirstCharts \cup AuditCharts, g \in DOMAIN Season :
       \A team \in {Season[g].home, Season[g].away} :
         /\ IsFiniteSet(charts[team])
         /\ \A r \in charts[team] :
              /\ r.order \in Nat \ {0}
              /\ r.order = 1 => r.evidence \in ExpectedTop \cup UnavailableTop \cup {"AMBIGUOUS"}
  /\ \A file \in RoofFiles : \A g \in DOMAIN file : file[g] \in {"OPEN", "CLOSED", "PENDING"}
  /\ Failures \subseteq SourceFailures

Models == {"qb_elo", "xgboost_v2", "expected_margin", "ridge_totals_r4"}
QbModels == Models \ {"expected_margin"}
NoSnapshot == [at |-> -1]

VARIABLES
  tick,          \* ticks since the first rollover
  edits,
  pointer,      \* the committed audit snapshot: [id, at, charts]
  outcome,      \* of the last audit run
  overrides,    \* <<game, team>> -> quarterback
  roofs,        \* game -> [status, at], of the games the file names
  posted,       \* week -> 0, 1: final scores, 2: statistics and plays too
  revision,     \* corrections made upstream
  evidence,     \* the settled evidence last materialized
  kept, again   \* two snapshots of the execution

upstream == <<posted, revision>>
inputs == <<pointer, outcome, overrides, roofs>>
weekVars == <<tick, edits, inputs, upstream, evidence, kept, again>>

-----------------------------------------------------------------------------
\* RoofResolver.resolve: a fixed venue has its category; a retractable roof
\* that no record settles is pending.
ResolveRoof(roofFile, g) ==
  LET structure == Season[g].structure
  IN CASE structure = "OUTDOOR" -> [structure |-> structure, status |-> "OPEN", at |-> 0,
                                    category |-> "outdoors"]
       [] structure = "FIXED" -> [structure |-> structure, status |-> "CLOSED", at |-> 0,
                                  category |-> "dome"]
       [] structure = "RETRACTABLE" /\ g \in DOMAIN roofFile ->
            [structure |-> structure, status |-> roofFile[g].status, at |-> roofFile[g].at,
             category |-> CASE roofFile[g].status = "OPEN" -> "open"
                            [] roofFile[g].status = "CLOSED" -> "closed"
                            [] OTHER -> ""]
       [] OTHER -> [structure |-> structure, status |-> "PENDING", at |-> 0, category |-> ""]

\* Mutant: one quarterback is enough.
QbUsableEither(home, away) ==
  \E side \in {home, away} : side.status \in Scoreable /\ side.freshness \in Usable

\* _qb_usable_game_ids: both quarterbacks are named, by a source that is usable.
QbUsable(home, away) ==
  \A side \in {home, away} : side.status \in Scoreable /\ side.freshness \in Usable

UnavailableReason(home, away) ==
  IF \E side \in {home, away} : side.freshness \in {"STALE", "UNAVAILABLE"}
  THEN "STALE_INPUT" ELSE "UNAVAILABLE"

\* Mutant: the identity of a prediction leaves the quarterbacks out.
PredictionIdentityTeams(version, g, model, roof, home, away) ==
  [version |-> version, game |-> g, model |-> model, roof |-> roof, qbs |-> {}]

\* _prediction_identity: what a published prediction says it was made from.
PredictionIdentity(version, g, model, roof, home, away) ==
  [version |-> version, game |-> g, model |-> model, roof |-> roof,
   qbs |-> IF model = "expected_margin" THEN {} ELSE {home.provenance, away.provenance}]

Output(status, prediction, identity) ==
  [status |-> status, prediction |-> prediction, identity |-> identity, scenarios |-> <<>>]

\* score_xgb_surface and the branches of its output: a pending roof leaves two
\* scenarios and chooses neither.
XgbOutput(state, qbs, roll, roof, identity) ==
  LET Scenario(category) == PredictXgb(state, qbs, roll, category)
      scenarios == [open |-> Scenario("open"), closed |-> Scenario("closed")]
  IN CASE Warmup(state) -> Output("UNSUPPORTED", <<>>, identity)
       [] ~Warmup(state) /\ roof.structure # "RETRACTABLE" ->
            Output("AVAILABLE", Scenario(roof.category), identity)
       [] ~Warmup(state) /\ roof.structure = "RETRACTABLE" /\ roof.status = "PENDING" ->
            [Output("AVAILABLE_WITH_ROOF_SCENARIOS", <<>>, identity) EXCEPT !.scenarios = scenarios]
       [] OTHER ->
            [Output("AVAILABLE", scenarios[roof.category], identity) EXCEPT !.scenarios = scenarios]

\* _current_qb_scenarios: the quarterbacks the features of a game are about.
Starters(home, away) == [home |-> home.qb, away |-> away.qb]

\* The four outputs of a game.
ScoreGame(state, version, source, files, roll, g) ==
  LET home == ResolveTeam(source, files.overrides, g, Season[g].home)
      away == ResolveTeam(source, files.overrides, g, Season[g].away)
      qbs == Starters(home, away)
      roof == ResolveRoof(files.roofs, g)
      Identity(m) == PredictionIdentity(version, g, m, roof, home, away)
      Refused(m) == Output(UnavailableReason(home, away), <<>>, Identity(m))
  IN [m \in Models |->
        CASE m = "expected_margin" -> Output("AVAILABLE", PredictMargin(state), Identity(m))
          [] m # "expected_margin" /\ ~QbUsable(home, away) -> Refused(m)
          [] m = "qb_elo" /\ QbUsable(home, away) ->
               Output("AVAILABLE", PredictElo(state, qbs, roll), Identity(m))
          [] m = "ridge_totals_r4" /\ QbUsable(home, away) ->
               Output("AVAILABLE", PredictTotals(state, qbs, roll), Identity(m))
          [] m = "xgboost_v2" /\ QbUsable(home, away) ->
               XgbOutput(state, qbs, roll, roof, Identity(m))]

\* score_week: every game of the active week, and what the snapshot was made of.
Snapshot ==
  LET w == ActiveWeek(tick)
      state == EnteringState(w, evidence)
      source == Load(pointer, outcome, tick)
      files == [overrides |-> overrides, roofs |-> roofs]
      roll == PriorWeeks(w, evidence.through, tick)
  IN [at |-> tick, week |-> w, pointer |-> pointer, outcome |-> outcome, files |-> files,
      evidence |-> evidence, state |-> state,
      games |-> [g \in WeekGames(w) |->
                   ScoreGame(state, StateVersion(state, w, evidence), source, files, roll, g)]]

-----------------------------------------------------------------------------
\* Two snapshots of one week are compared; no identity outlives its week.
Running ==
  /\ again = NoSnapshot
  /\ kept # NoSnapshot => kept.week = ActiveWeek(tick)

WeekInit ==
  /\ tick = 0
  /\ edits = 0
  /\ pointer \in {[id |-> 0, at |-> 0, charts |-> c] : c \in FirstCharts}
  /\ outcome = "SUCCESS"
  /\ overrides = <<>>
  /\ roofs = <<>>
  /\ posted = [w \in Weeks |-> 0]
  /\ revision = 0
  /\ evidence = [through |-> 0, revision |-> 0, at |-> 0]
  /\ kept = NoSnapshot
  /\ again = NoSnapshot

Edit == edits < MaxEdits /\ edits' = edits + 1

\* The last of a week's games is over in its third tick, or a tick after the
\* rollover when it is played on that Tuesday.
Over(w) == Rollover(w) + Span - 1 + (IF w \in LateWeeks THEN 2 ELSE 0)

\* The clock: upstream has had its day to post what is over.
TickWeek ==
  /\ Running
  /\ tick < LastTick
  /\ \A w \in Weeks : Over(w) < tick => posted[w] > 0
  /\ tick' = tick + 1
  /\ UNCHANGED <<edits, inputs, upstream, evidence, kept, again>>

\* nflverse posts final scores, then the week's statistics and plays.
Post(w) ==
  /\ Running
  /\ Over(w) <= tick
  /\ posted[w] < 2
  /\ posted' = [posted EXCEPT ![w] = @ + 1]
  /\ UNCHANGED <<tick, edits, inputs, revision, evidence, kept, again>>

\* nflverse corrects what it has posted.
Correct ==
  /\ Running /\ Edit
  /\ \E w \in Weeks : posted[w] = 2
  /\ revision' = revision + 1
  /\ UNCHANGED <<tick, inputs, posted, evidence, kept, again>>

\* A run of the quarterback audit that commits, or one that does not.
Audit(charts) ==
  /\ Running /\ Edit
  /\ pointer' = [id |-> edits + 1, at |-> tick, charts |-> charts]
  /\ outcome' = "SUCCESS"
  /\ UNCHANGED <<tick, overrides, roofs, upstream, evidence, kept, again>>

AuditFails(failure) ==
  /\ Running /\ Edit
  /\ outcome' = failure
  /\ UNCHANGED <<tick, pointer, overrides, roofs, upstream, evidence, kept, again>>

\* The operator edits a file; load_overrides and load_roof_statuses read it.
EditOverrides(file) ==
  /\ Running /\ Edit
  /\ overrides' = file
  /\ UNCHANGED <<tick, pointer, outcome, roofs, upstream, evidence, kept, again>>

EditRoofs(file) ==
  /\ Running /\ Edit
  /\ roofs' = [g \in DOMAIN file |-> [status |-> file[g], at |-> tick]]
  /\ UNCHANGED <<tick, pointer, outcome, overrides, upstream, evidence, kept, again>>

\* validate_settled_evidence: every game final, its statistics and its plays
\* complete to the last score.
IsSettled(w) == posted[w] = 2

\* The daily materialization; while a week is not settled it raises, and the
\* evidence stays what it was.
Materialize ==
  /\ Running
  /\ \A w \in Weeks : w < ActiveWeek(tick) => IsSettled(w)
  /\ evidence' = [through |-> ActiveWeek(tick) - 1, revision |-> revision, at |-> tick]
  /\ UNCHANGED <<tick, edits, inputs, upstream, kept, again>>

\* score_week.  After the first week it needs evidence that ends with the week
\* before; a history that holds a current game stops it.
ScoreWeek ==
  /\ Running
  /\ ActiveWeek(tick) > 1 => evidence.through = ActiveWeek(tick) - 1
  /\ StrictlyPrior(EnteringState(ActiveWeek(tick), evidence), WeekGames(ActiveWeek(tick)))
  /\ IF kept = NoSnapshot
     THEN kept' = Snapshot /\ UNCHANGED again
     ELSE again' = Snapshot /\ UNCHANGED kept
  /\ UNCHANGED <<tick, edits, inputs, upstream, evidence>>

WeekNext ==
  \/ TickWeek
  \/ \E w \in Weeks : Post(w)
  \/ Correct
  \/ \E c \in AuditCharts : Audit(c)
  \/ \E f \in Failures : AuditFails(f)
  \/ \E f \in OverrideFiles : EditOverrides(f)
  \/ \E f \in RoofFiles : EditRoofs(f)
  \/ Materialize
  \/ ScoreWeek

WeekSpec == WeekInit /\ [][WeekNext]_weekVars

-----------------------------------------------------------------------------
(* Hazard: a prediction is published with an identity of its inputs, and    *)
(* outlives them; an audit, an override, a roof, a correction or a new week *)
(* that changes what the model saw must change the identity with it.  Two   *)
(* predictions under one identity are the same prediction.  The exception   *)
(* is in the code: when a week ends on a Tuesday, its statistics enter the  *)
(* rolling features within a later week, and no part of the identity tells  *)
(* (features_2026.py:262-270).                                              *)
EnteredBetween(a, b) == \E w \in LateWeeks : a.at < EligibleAt(w) /\ EligibleAt(w) <= b.at

SameInputsSamePrediction ==
  kept # NoSnapshot /\ again # NoSnapshot =>
    \A g \in DOMAIN kept.games \cap DOMAIN again.games, m \in Models :
      LET a == kept.games[g][m]
          b == again.games[g][m]
      IN /\ a.identity = b.identity
         /\ a.prediction # <<>> /\ b.prediction # <<>>
         /\ ~EnteredBetween(kept, again)
         => a.prediction = b.prediction

(* Hazard: the quarterbacks come from a source that is late, fails, doubts  *)
(* itself or knows a player by name only; whatever else is missing, a model *)
(* that needs them speaks only when both are known.  The starter a model    *)
(* was given is the operator's, or the one player a fresh enough snapshot   *)
(* puts first, by an identifier and no name, and no choice was made between *)
(* two; the roof is one that somebody reported; and what the models have    *)
(* learned is every game up to the week before, once, in order, and nothing *)
(* of this week.                                                            *)
Names(r, qb) ==
  /\ ~r.xwalk.conflict
  /\ \/ r.xwalk.method \in StableMethods /\ ~r.xwalk.review /\ r.xwalk.id = qb
     \/ r.rookie /\ r.gsis = qb /\ r.xwalk.method # "name" /\ ~r.xwalk.review

Stands(chart, r) ==
  /\ \A o \in chart : o.order = 1 => o.evidence # "AMBIGUOUS"
  /\ \/ /\ r.order = 1 /\ r.evidence \in ExpectedTop
        /\ \A o \in chart : o # r /\ o.order = 1 => o.evidence \in UnavailableTop
     \/ /\ r.order > 1 /\ r.evidence = "backup"
        /\ \A o \in chart : o.order = 1 => o.evidence \in UnavailableTop
        /\ \A o \in chart : o # r /\ o.evidence = "backup" /\ o.order <= r.order
                              => o.injury \in UnavailableTop

Warranted(s, g, team, qb) ==
  \/ <<g, team>> \in DOMAIN s.files.overrides /\ qb = s.files.overrides[<<g, team>>]
  \/ /\ <<g, team>> \notin DOMAIN s.files.overrides
     /\ \E r \in s.pointer.charts[team] : Names(r, qb) /\ Stands(s.pointer.charts[team], r)

ScoredIsWarranted ==
  kept # NoSnapshot /\ again = NoSnapshot =>
    /\ GamesIn(kept.state.rows["elo"]) \cap DOMAIN Season
         = {g \in DOMAIN Season : Season[g].week < kept.week}
    /\ \A c \in Components :
         LET rows == kept.state.rows[c]
         IN /\ GamesIn(rows) = GamesIn(kept.state.rows["elo"])
            /\ Cardinality(GamesIn(rows)) = Len(rows)
            /\ \A j \in DOMAIN rows : \A i \in 1..(j - 1) :
                 {rows[i].game, rows[j].game} \subseteq DOMAIN Season
                 => Season[rows[i].game].week <= Season[rows[j].game].week
    /\ \A g \in DOMAIN kept.games, m \in QbModels :
         LET out == kept.games[g][m]
             seen == IF out.prediction # <<>> THEN out.prediction
                     ELSE IF out.scenarios # <<>> THEN out.scenarios["open"] ELSE <<>>
         IN seen # <<>> =>
              /\ \A n \in QbModels : kept.games[g][n].status \notin {"STALE_INPUT", "UNAVAILABLE"}
              /\ kept.outcome = "SUCCESS"
              /\ kept.at - kept.pointer.at <= StaleAfter
              /\ Warranted(kept, g, Season[g].home, seen.qbs.home)
              /\ Warranted(kept, g, Season[g].away, seen.qbs.away)
              /\ \A v \in seen.roll : v < kept.week /\ Over(v) <= kept.at
              /\ m = "xgboost_v2" /\ Season[g].structure = "RETRACTABLE"
                   /\ out.prediction # <<>> =>
                   /\ g \in DOMAIN kept.files.roofs
                   /\ out.prediction.category
                        = (IF kept.files.roofs[g].status = "OPEN" THEN "open" ELSE "closed")

=============================================================================
