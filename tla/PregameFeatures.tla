------------------------- MODULE PregameFeatures -------------------------
(***************************************************************************)
(* The pregame feature bundle: for both teams of every game, rolling       *)
(* windows over the games whose week was over by the cutoff of the block;  *)
(* for every side, the quarterbacks that evidence from before the cutoff   *)
(* supports as starters; for every such quarterback, his own record.  A    *)
(* metric is the set of games it is computed from.                         *)
(***************************************************************************)
EXTENDS EloWalkForward

CONSTANTS ShortGames,       \* the short rolling window
          MinimumGames,     \* below it a team carries games over from a season
          CarryoverGames    \* how many at most

ASSUME WindowAssumption == {ShortGames, MinimumGames, CarryoverGames} \subseteq Nat

VARIABLES evidence,     \* by side <<game, team>>: what is known of its starter
          bundle,       \* by side: the team row, the starter and his record
          bundleStep    \* "build", "write" or "written"

featureVars == <<bundle, bundleStep>>

NoPlayer == "none"

Sides == UNION {{<<g, schedule[g].home>>, <<g, schedule[g].away>>} : g \in DOMAIN schedule}

\* build_weekly_availability: when the data of a game's week may be used.
SourceDay(g) == EligibleAt(schedule, schedule[g].block)
Cutoff(g) == AsOf(schedule, schedule[g].block)

LastOf(s, n) == SubSeq(s, (IF Len(s) > n THEN Len(s) - n ELSE 0) + 1, Len(s))

\* The games in the order of their rows: by availability, season, week, game.
BySource(G) ==
  Sorted(G, LAMBDA g, h :
    LET a == schedule[g].block
        b == schedule[h].block
    IN \/ SourceDay(g) < SourceDay(h)
       \/ SourceDay(g) = SourceDay(h)
            /\ \/ a.season < b.season
               \/ a.season = b.season /\ a.week < b.week
               \/ a.season = b.season /\ a.week = b.week /\ g < h)

\* _team_completed_rows: the completed games of a team.
History(t) == {g \in Completed(schedule, DOMAIN schedule) : t \in TeamsOf(schedule, {g})}

\* Other games published by the cutoff of g.
Eligible(G, g) == {h \in G \ {g} : SourceDay(h) <= Cutoff(g)}

\* build_team_pregame_features: one row.
TeamRow(g, t) ==
  LET block == schedule[g].block
      eligible == Eligible(History(t), g)
      current == BySource({h \in eligible : schedule[h].block.season = block.season})
      earlier == BySource({h \in eligible : schedule[h].block.season < block.season})
      carryover == IF Len(current) < MinimumGames THEN LastOf(earlier, CarryoverGames) ELSE <<>>
      combined == carryover \o current
  IN [sources |-> ToSet(combined), window |-> ToSet(LastOf(combined, ShortGames)),
      season |-> ToSet(current), carried |-> Len(carryover),
      gap |-> IF current = <<>> THEN 0
              ELSE block.week - schedule[current[Len(current)]].block.week]

-----------------------------------------------------------------------------
\* Starters.  Evidence of a side: depth rows [player, rank, day], the roster, and
\* who played.  The bundle is built without overrides.

LatestRows(rows) == {r \in rows : \A q \in rows : q.player = r.player => q.day <= r.day}

\* The players at the top of the latest depth rows from before the cutoff.
Leaders(e, cutoff) ==
  LET latest == LatestRows({r \in e.depth : r.day <= cutoff})
  IN {r.player : r \in {q \in latest : \A s \in latest : q.rank <= s.rank}}

Candidate(certainty, players) == [certainty |-> certainty, players |-> players]

\* _resolve_side: the depth chart, then the roster; what was only seen after the
\* game selects nobody.
ResolveSide(e, cutoff) ==
  LET leaders == Leaders(e, cutoff)
  IN CASE leaders # {} ->
            Candidate(IF Cardinality(leaders) = 1 THEN "DEPTH_CHART_SUPPORTED" ELSE "AMBIGUOUS", leaders)
       [] leaders = {} /\ e.roster # {} ->
            Candidate(IF Cardinality(e.roster) = 1 THEN "ROSTER_SUPPORTED" ELSE "AMBIGUOUS", e.roster)
       [] leaders = {} /\ e.roster = {} ->
            Candidate(IF e.played # {} THEN "POSTGAME_ONLY_EVIDENCE" ELSE "UNKNOWN", {})

\* resolve_starter_certainty: what is said of the game from its two sides.
GameCertainty(home, away) ==
  LET both == {home, away}
  IN CASE home = away -> home
       [] home # away /\ both = {"POSTGAME_ONLY_EVIDENCE", "UNKNOWN"} -> "POSTGAME_ONLY_EVIDENCE"
       [] home # away /\ both # {"POSTGAME_ONLY_EVIDENCE", "UNKNOWN"} ->
            IF "AMBIGUOUS" \in both THEN "AMBIGUOUS" ELSE "UNKNOWN"

\* build_qb_pregame_features: the games a candidate had played.
QbRow(g, player) ==
  IF player = NoPlayer THEN {}
  ELSE Eligible({s[1] : s \in {q \in Sides : player \in evidence[q].played}}, g)

\* starter_scenarios: a side without a candidate has one without a player.
SideRow(g, t) ==
  LET resolved == [u \in TeamsOf(schedule, {g}) |-> ResolveSide(evidence[<<g, u>>], Cutoff(g))]
      side == resolved[t]
      scenarios == IF side.players = {} THEN {NoPlayer} ELSE side.players
  IN [team |-> TeamRow(g, t), starter |-> side,
      game |-> GameCertainty(resolved[schedule[g].home].certainty, resolved[schedule[g].away].certainty),
      records |-> [p \in scenarios |-> QbRow(g, p)]]

\* build_feature_bundle.
BuildBundle ==
  /\ bundleStep = "build"
  /\ bundle' = [s \in Sides |-> SideRow(s[1], s[2])]
  /\ bundleStep' = "write"
  /\ UNCHANGED evidence

\* write_feature_outputs: the frames, the registry, and last the manifest.
WriteBundle == bundleStep = "write" /\ bundleStep' = "written" /\ UNCHANGED <<evidence, bundle>>

FeatureInit == bundle = <<>> /\ bundleStep = "build"
Features == (BuildBundle \/ WriteBundle) /\ UNCHANGED schedule

=============================================================================
