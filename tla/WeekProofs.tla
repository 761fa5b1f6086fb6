---------------------------- MODULE WeekProofs -----------------------------
(***************************************************************************)
(* What the product of a week promises: first the predictions it is made   *)
(* of, then the board that is bought, built, served and settled.           *)
(*                                                                         *)
(* Scoring, for every season, chart, override, roof file and order of the  *)
(* inputs' changes.  The invariant, WeekInv, is small: the snapshots an    *)
(* execution keeps are what score_week makes (SnapOf) of inputs that are   *)
(* still in the record, the pointer no younger than the snapshot, the      *)
(* evidence up to date, the two of one week and in order.  What a snapshot *)
(* promises follows from how it is made:                                   *)
(*   - its identity tells its inputs (ResolveTells, OneIdentity): the      *)
(*     provenance tells who starts, the version what was learned;          *)
(*   - a model that speaks was given the starter whom the chart, or the    *)
(*     operator, names (ChooseIs, ChosenStands, SideWarranted, SideFresh); *)
(*   - the weeks it looks back on are over (RollIsOver);                   *)
(*   - what was learned, block after block, is each game once and in the   *)
(*     order of the weeks (LearnBlockIs, Bootstrapped, EnteringLearned).   *)
(*                                                                         *)
(* Board, for every schedule, response of the provider, fit and history of *)
(* trust.  The invariant, LiveInv, says what is served was built from one  *)
(* response that could be read (BuiltFrom); the rest is what the operators *)
(* make of it:                                                             *)
(*   - the offer shopped for and the row a lane puts foremost come before  *)
(*     all others in an order (Undominated, OneIsFirst, ShopIs,            *)
(*     OneIsForemost);                                                     *)
(*   - the builder's index and the backend's give one anchor, since both   *)
(*     take it of the sharp book alone (AnchorsAgree);                     *)
(*   - the price a probability is worth is a threshold: every price not    *)
(*     below it pays, the next one does not (ThresholdIs, BoundaryHolds);  *)
(*   - a headline is a row of the board (RowAtIs, HeadlinesAre).           *)
(***************************************************************************)
EXTENDS WeekScoring, LiveProduct, NumberLemmas, SequenceTheorems, TLAPS

\* The snapshot at t of what is given.
SnapOf(t, p, o, f, e) ==
  [at |-> t, week |-> ActiveWeek(t), pointer |-> p, outcome |-> o, files |-> f, evidence |-> e,
   state |-> EnteringState(ActiveWeek(t), e),
   games |-> [g \in WeekGames(ActiveWeek(t)) |->
                ScoreGame(EnteringState(ActiveWeek(t), e),
                          StateVersion(EnteringState(ActiveWeek(t), e), ActiveWeek(t), e),
                          Load(p, o, t), f, PriorWeeks(ActiveWeek(t), e.through, t), g)]]

RoofsKnown(r) == \A g \in DOMAIN r : r[g].status \in {"OPEN", "CLOSED", "PENDING"}

\* What a snapshot may be made of by a time.
Pointed(p, t) == p.at \in 0..t /\ p.charts \in FirstCharts \cup AuditCharts
Ended(o) == o = "SUCCESS" \/ o \in SourceFailures
UpToDate(t, e) == ActiveWeek(t) > 1 => e.through = ActiveWeek(t) - 1

\* A snapshot was made of what was there at its time.
Made(s) ==
  /\ s = SnapOf(s.at, s.pointer, s.outcome, s.files, s.evidence)
  /\ s.at \in 0..LastTick
  /\ Pointed(s.pointer, s.at)
  /\ Ended(s.outcome)
  /\ RoofsKnown(s.files.roofs)
  /\ UpToDate(s.at, s.evidence)

WeekTypes ==
  /\ tick \in 0..LastTick
  /\ Pointed(pointer, tick)
  /\ Ended(outcome)
  /\ RoofsKnown(roofs)

KeptMade == kept # NoSnapshot => Made(kept) /\ kept.at <= tick
AgainMade ==
  again # NoSnapshot => /\ kept # NoSnapshot /\ Made(again)
                        /\ again.week = kept.week /\ kept.at <= again.at

WeekInv == WeekTypes /\ KeptMade /\ AgainMade

LEMMA SnapshotMade ==
  ASSUME WeekTypes, UpToDate(tick, evidence)
  PROVE  Made(Snapshot) /\ Snapshot.at = tick /\ Snapshot.week = ActiveWeek(tick)
<1>1. PICK f : f = [overrides |-> overrides, roofs |-> roofs]
  OBVIOUS
<1>2. Snapshot = SnapOf(tick, pointer, outcome, f, evidence)
  BY <1>1 DEF Snapshot, SnapOf
<1>3. /\ Snapshot.at = tick /\ Snapshot.week = ActiveWeek(tick) /\ Snapshot.pointer = pointer
      /\ Snapshot.outcome = outcome /\ Snapshot.files = f /\ Snapshot.evidence = evidence
  BY <1>2 DEF SnapOf
<1>4. f.roofs = roofs
  BY <1>1
<1>. QED  BY <1>2, <1>3, <1>4 DEF Made, WeekTypes

LEMMA WeekInvInit == WeekInit => WeekInv
<1>. SUFFICES ASSUME WeekInit PROVE WeekInv
  OBVIOUS
<1>1. PICK c \in FirstCharts : pointer = [id |-> 0, at |-> 0, charts |-> c]
  BY DEF WeekInit
<1>2. tick \in 0..LastTick /\ Pointed(pointer, tick)
  BY <1>1, WeekAssumption DEF WeekInit, Pointed
<1>3. Ended(outcome) /\ RoofsKnown(roofs)
  BY DEF WeekInit, Ended, RoofsKnown
<1>4. KeptMade /\ AgainMade
  BY DEF WeekInit, KeptMade, AgainMade
<1>. QED  BY <1>2, <1>3, <1>4 DEF WeekInv, WeekTypes

\* A step that keeps the snapshots and the clock does not go back.
LEMMA SnapshotsStay ==
  ASSUME WeekInv, WeekTypes', UNCHANGED <<kept, again>>, tick <= tick'
  PROVE  WeekInv'
<1>1. tick \in Nat /\ tick' \in Nat
  BY DEF WeekInv, WeekTypes
<1>2. KeptMade'
  <2>. SUFFICES ASSUME kept' # NoSnapshot PROVE Made(kept') /\ kept'.at <= tick'
    BY DEF KeptMade
  <2>1. kept' = kept /\ Made(kept) /\ kept.at <= tick
    BY DEF WeekInv, KeptMade
  <2>2. kept.at \in Nat
    BY <2>1 DEF Made
  <2>. QED  BY <1>1, <2>1, <2>2
<1>3. AgainMade'
  BY DEF WeekInv, AgainMade
<1>. QED  BY <1>2, <1>3 DEF WeekInv

LEMMA PointedLater ==
  ASSUME NEW p, NEW t \in Nat, NEW u \in Nat, t <= u, Pointed(p, t)
  PROVE  Pointed(p, u)
BY DEF Pointed

LEMMA WeekInvNext == WeekInv /\ [WeekNext]_weekVars => WeekInv'
<1>. SUFFICES ASSUME WeekInv, [WeekNext]_weekVars PROVE WeekInv'
  OBVIOUS
<1>0. tick \in Nat /\ WeekTypes /\ LastTick \in Nat
  BY WeekAssumption DEF WeekInv, WeekTypes
<1>1. CASE TickWeek
  <2>1. tick' = tick + 1 /\ tick' \in 0..LastTick /\ tick <= tick'
    BY <1>0, <1>1 DEF TickWeek, WeekTypes
  <2>2. UNCHANGED <<pointer, outcome, roofs, kept, again>>
    BY <1>1 DEF TickWeek, inputs
  <2>3. Pointed(pointer, tick')
    BY <1>0, <2>1, PointedLater DEF WeekTypes
  <2>4. WeekTypes'
    BY <1>0, <2>1, <2>2, <2>3 DEF WeekTypes
  <2>. QED  BY <2>1, <2>2, <2>4, SnapshotsStay
<1>2. CASE \E w \in Weeks : Post(w)
  <2>1. UNCHANGED <<tick, pointer, outcome, roofs, kept, again>>
    BY <1>2 DEF Post, inputs
  <2>2. WeekTypes'
    BY <1>0, <2>1 DEF WeekTypes
  <2>. QED  BY <1>0, <2>1, <2>2, SnapshotsStay
<1>3. CASE Correct
  <2>1. UNCHANGED <<tick, pointer, outcome, roofs, kept, again>>
    BY <1>3 DEF Correct, inputs
  <2>2. WeekTypes'
    BY <1>0, <2>1 DEF WeekTypes
  <2>. QED  BY <1>0, <2>1, <2>2, SnapshotsStay
<1>4. ASSUME NEW c \in AuditCharts, Audit(c) PROVE WeekInv'
  <2>1. UNCHANGED <<tick, roofs, kept, again>> /\ outcome' = "SUCCESS"
    BY <1>4 DEF Audit
  <2>2. pointer'.at = tick /\ pointer'.charts = c
    BY <1>4 DEF Audit
  <2>3. Pointed(pointer', tick)
    BY <1>0, <2>2 DEF Pointed
  <2>4. Ended(outcome')
    BY <2>1 DEF Ended
  <2>5. WeekTypes'
    BY <1>0, <2>1, <2>3, <2>4 DEF WeekTypes
  <2>. QED  BY <1>0, <2>1, <2>5, SnapshotsStay
<1>5. ASSUME NEW f \in Failures, AuditFails(f) PROVE WeekInv'
  <2>1. UNCHANGED <<tick, pointer, roofs, kept, again>> /\ outcome' = f
    BY <1>5 DEF AuditFails
  <2>2. Ended(outcome')
    BY <2>1, WeekAssumption DEF Ended
  <2>3. WeekTypes'
    BY <1>0, <2>1, <2>2 DEF WeekTypes
  <2>. QED  BY <1>0, <2>1, <2>3, SnapshotsStay
<1>6. CASE \E f \in OverrideFiles : EditOverrides(f)
  <2>1. UNCHANGED <<tick, pointer, outcome, roofs, kept, again>>
    BY <1>6 DEF EditOverrides
  <2>2. WeekTypes'
    BY <1>0, <2>1 DEF WeekTypes
  <2>. QED  BY <1>0, <2>1, <2>2, SnapshotsStay
<1>7. ASSUME NEW f \in RoofFiles, EditRoofs(f) PROVE WeekInv'
  <2>1. UNCHANGED <<tick, pointer, outcome, kept, again>>
    BY <1>7 DEF EditRoofs
  <2>2. roofs' = [g \in DOMAIN f |-> [status |-> f[g], at |-> tick]]
    BY <1>7 DEF EditRoofs
  <2>3. \A g \in DOMAIN f : f[g] \in {"OPEN", "CLOSED", "PENDING"}
    BY WeekAssumption
  <2>4. RoofsKnown(roofs')
    BY <2>2, <2>3 DEF RoofsKnown
  <2>5. WeekTypes'
    BY <1>0, <2>1, <2>4 DEF WeekTypes
  <2>. QED  BY <1>0, <2>1, <2>5, SnapshotsStay
<1>8. CASE Materialize
  <2>1. UNCHANGED <<tick, pointer, outcome, roofs, kept, again>>
    BY <1>8 DEF Materialize, inputs
  <2>2. WeekTypes'
    BY <1>0, <2>1 DEF WeekTypes
  <2>. QED  BY <1>0, <2>1, <2>2, SnapshotsStay
<1>9. CASE ScoreWeek
  <2>1. UNCHANGED <<tick, pointer, outcome, roofs>>
    BY <1>9 DEF ScoreWeek, inputs
  <2>2. WeekTypes'
    BY <1>0, <2>1 DEF WeekTypes
  <2>3. Made(Snapshot) /\ Snapshot.at = tick /\ Snapshot.week = ActiveWeek(tick)
    BY <1>0, <1>9, SnapshotMade DEF ScoreWeek, UpToDate
  <2>4. again = NoSnapshot /\ (kept # NoSnapshot => kept.week = ActiveWeek(tick))
    BY <1>9 DEF ScoreWeek, Running
  <2>5. CASE kept = NoSnapshot
    <3>1. kept' = Snapshot /\ again' = again
      BY <1>9, <2>5 DEF ScoreWeek
    <3>2. KeptMade'
      BY <1>0, <2>1, <2>3, <3>1 DEF KeptMade
    <3>3. AgainMade'
      BY <2>4, <3>1 DEF AgainMade
    <3>. QED  BY <2>2, <3>2, <3>3 DEF WeekInv
  <2>6. CASE kept # NoSnapshot
    <3>1. again' = Snapshot /\ kept' = kept
      BY <1>9, <2>6 DEF ScoreWeek
    <3>2. Made(kept) /\ kept.at <= tick
      BY <2>6 DEF WeekInv, KeptMade
    <3>3. KeptMade'
      BY <2>1, <3>1, <3>2 DEF KeptMade
    <3>4. AgainMade'
      BY <2>3, <2>4, <2>6, <3>1, <3>2 DEF AgainMade
    <3>. QED  BY <2>2, <3>3, <3>4 DEF WeekInv
  <2>. QED  BY <2>5, <2>6
<1>10. CASE UNCHANGED weekVars
  <2>1. UNCHANGED <<tick, pointer, outcome, roofs, kept, again>>
    BY <1>10 DEF weekVars, inputs
  <2>2. WeekTypes'
    BY <1>0, <2>1 DEF WeekTypes
  <2>. QED  BY <1>0, <2>1, <2>2, SnapshotsStay
<1>. QED  BY <1>1, <1>2, <1>3, <1>4, <1>5, <1>6, <1>7, <1>8, <1>9, <1>10 DEF WeekNext

-----------------------------------------------------------------------------
\* What the provenance of a resolution says of it: the quarterback, and the team.
IsOverride(prov) == "base" \in DOMAIN prov
Says(prov) == IF IsOverride(prov) THEN prov.override ELSE prov.qb
OfTeam(prov) == IF IsOverride(prov) THEN prov.base.team ELSE prov.team

LEMMA ResolutionTells ==
  ASSUME NEW source, NEW game, NEW team, NEW pid, NEW known, NEW warnings
  PROVE  LET r == QbResolution(source, game, team, pid, known, warnings)
         IN r.qb = r.provenance.qb /\ r.provenance.team = team /\ ~IsOverride(r.provenance)
            /\ DOMAIN r = {"qb", "status", "freshness", "provenance"}
            /\ r.freshness = source.freshness /\ r.qb = known.id /\ r.status = known.status
BY DEF QbResolution, IsOverride

LEMMA SourceTells ==
  ASSUME NEW source, NEW game, NEW team
  PROVE  LET r == FromSource(source, game, team)
         IN r.qb = r.provenance.qb /\ r.provenance.team = team /\ ~IsOverride(r.provenance)
            /\ DOMAIN r = {"qb", "status", "freshness", "provenance"} /\ r = [r EXCEPT !.qb = r.qb]
            /\ r.freshness = source.freshness
<1>1. \E pid, known, warnings : FromSource(source, game, team) = QbResolution(source, game, team, pid, known, warnings)
  BY DEF FromSource, QbUnresolved
<1>2. PICK pid, known, warnings : FromSource(source, game, team) = QbResolution(source, game, team, pid, known, warnings)
  BY <1>1
<1>3. PICK r : r = QbResolution(source, game, team, pid, known, warnings)
  OBVIOUS
<1>4. r.qb = r.provenance.qb /\ r.provenance.team = team /\ ~IsOverride(r.provenance)
      /\ DOMAIN r = {"qb", "status", "freshness", "provenance"} /\ r.freshness = source.freshness
  BY <1>3, ResolutionTells
<1>5. r = [r EXCEPT !.qb = r.qb]
  BY <1>3 DEF QbResolution
<1>. QED  BY <1>2, <1>3, <1>4, <1>5

\* A resolution is told by its provenance, and the two of a game are never the same.
LEMMA ResolveTells ==
  ASSUME NEW source, NEW overrides0, NEW game, NEW team
  PROVE  LET r == ResolveTeam(source, overrides0, game, team)
         IN r.qb = Says(r.provenance) /\ OfTeam(r.provenance) = team
<1>1. PICK b : b = FromSource(source, game, team)
  OBVIOUS
<1>2. b.qb = b.provenance.qb /\ b.provenance.team = team /\ ~IsOverride(b.provenance)
      /\ DOMAIN b = {"qb", "status", "freshness", "provenance"}
  BY <1>1, SourceTells
<1>3. CASE <<game, team>> \notin DOMAIN overrides0
  <2>1. ResolveTeam(source, overrides0, game, team) = b
    BY <1>1, <1>3 DEF ResolveTeam
  <2>. QED  BY <1>2, <2>1 DEF Says, OfTeam
<1>4. CASE <<game, team>> \in DOMAIN overrides0
  <2>1. PICK o : o = overrides0[<<game, team>>]
    OBVIOUS
  <2>2. PICK p : p = [base |-> b.provenance, snapshot |-> source.snapshot, override |-> o]
    OBVIOUS
  <2>3. ResolveTeam(source, overrides0, game, team) = [b EXCEPT !.qb = o, !.status = "OVERRIDDEN", !.provenance = p]
    BY <1>1, <1>4, <2>1, <2>2 DEF ResolveTeam
  <2>4. PICK r : r = ResolveTeam(source, overrides0, game, team)
    OBVIOUS
  <2>5. r.qb = o /\ r.provenance = p
    BY <1>2, <2>3, <2>4
  <2>6. IsOverride(p) /\ p.override = o /\ p.base.team = team
    BY <1>2, <2>2 DEF IsOverride
  <2>. QED  BY <2>4, <2>5, <2>6 DEF Says, OfTeam
<1>. QED  BY <1>3, <1>4

-----------------------------------------------------------------------------
\* The four outputs of a game.
LEMMA ScoreIs ==
  ASSUME NEW state, NEW version, NEW source, NEW files, NEW roll, NEW g, NEW m \in Models
  PROVE  LET home == ResolveTeam(source, files.overrides, g, Season[g].home)
             away == ResolveTeam(source, files.overrides, g, Season[g].away)
             qbs == Starters(home, away)
             roof == ResolveRoof(files.roofs, g)
             identity == PredictionIdentity(version, g, m, roof, home, away)
             out == ScoreGame(state, version, source, files, roll, g)[m]
         IN /\ m = "expected_margin" => out = Output("AVAILABLE", PredictMargin(state), identity)
            /\ m # "expected_margin" /\ ~QbUsable(home, away)
                 => out = Output(UnavailableReason(home, away), <<>>, identity)
            /\ m = "qb_elo" /\ QbUsable(home, away)
                 => out = Output("AVAILABLE", PredictElo(state, qbs, roll), identity)
            /\ m = "ridge_totals_r4" /\ QbUsable(home, away)
                 => out = Output("AVAILABLE", PredictTotals(state, qbs, roll), identity)
            /\ m = "xgboost_v2" /\ QbUsable(home, away)
                 => out = XgbOutput(state, qbs, roll, roof, identity)
<1>1. PICK home : home = ResolveTeam(source, files.overrides, g, Season[g].home)
  OBVIOUS
<1>2. PICK away : away = ResolveTeam(source, files.overrides, g, Season[g].away)
  OBVIOUS
<1>3. PICK qbs : qbs = Starters(home, away)
  OBVIOUS
<1>4. PICK roof : roof = ResolveRoof(files.roofs, g)
  OBVIOUS
<1>5. PICK identity : identity = PredictionIdentity(version, g, m, roof, home, away)
  OBVIOUS
<1>. DEFINE out == ScoreGame(state, version, source, files, roll, g)[m]
<1>6. out =
        CASE m = "expected_margin" -> Output("AVAILABLE", PredictMargin(state), identity)
          [] m # "expected_margin" /\ ~QbUsable(home, away) -> Output(UnavailableReason(home, away), <<>>, identity)
          [] m = "qb_elo" /\ QbUsable(home, away) ->
               Output("AVAILABLE", PredictElo(state, qbs, roll), identity)
          [] m = "ridge_totals_r4" /\ QbUsable(home, away) ->
               Output("AVAILABLE", PredictTotals(state, qbs, roll), identity)
          [] m = "xgboost_v2" /\ QbUsable(home, away) ->
               XgbOutput(state, qbs, roll, roof, identity)
  BY <1>1, <1>2, <1>3, <1>4, <1>5, Zenon DEF ScoreGame
<1>. HIDE DEF out
<1>7. /\ m = "expected_margin" => out = Output("AVAILABLE", PredictMargin(state), identity)
      /\ m # "expected_margin" /\ ~QbUsable(home, away)
           => out = Output(UnavailableReason(home, away), <<>>, identity)
      /\ m = "qb_elo" /\ QbUsable(home, away)
           => out = Output("AVAILABLE", PredictElo(state, qbs, roll), identity)
      /\ m = "ridge_totals_r4" /\ QbUsable(home, away)
           => out = Output("AVAILABLE", PredictTotals(state, qbs, roll), identity)
      /\ m = "xgboost_v2" /\ QbUsable(home, away)
           => out = XgbOutput(state, qbs, roll, roof, identity)
  BY <1>6
<1>. QED  BY <1>1, <1>2, <1>3, <1>4, <1>5, <1>7 DEF out

\* A retractable roof has the category it was reported with.
RoofReported(roof) ==
  /\ roof.status \in {"OPEN", "CLOSED", "PENDING"}
  /\ roof.structure = "RETRACTABLE" =>
       roof.category = (IF roof.status = "OPEN" THEN "open"
                        ELSE IF roof.status = "CLOSED" THEN "closed" ELSE "")

\* The gradient-boosted model: with its roof, when there is one.
LEMMA XgbIs ==
  ASSUME NEW state, NEW qbs, NEW roll, NEW roof, NEW identity, RoofReported(roof)
  PROVE  LET out == XgbOutput(state, qbs, roll, roof, identity)
         IN /\ out.identity = identity
            /\ out.status \in {"AVAILABLE", "UNSUPPORTED", "AVAILABLE_WITH_ROOF_SCENARIOS"}
            /\ out.prediction # <<>> =>
                 /\ out.prediction = PredictXgb(state, qbs, roll, roof.category)
                 /\ roof.structure = "RETRACTABLE" => roof.status \in {"OPEN", "CLOSED"}
            /\ out.scenarios # <<>> => out.scenarios["open"] = PredictXgb(state, qbs, roll, "open")
<1>0. PICK out : out = XgbOutput(state, qbs, roll, roof, identity)
  OBVIOUS
<1>. SUFFICES /\ out.identity = identity
              /\ out.status \in {"AVAILABLE", "UNSUPPORTED", "AVAILABLE_WITH_ROOF_SCENARIOS"}
              /\ out.prediction # <<>> =>
                   /\ out.prediction = PredictXgb(state, qbs, roll, roof.category)
                   /\ roof.structure = "RETRACTABLE" => roof.status \in {"OPEN", "CLOSED"}
              /\ out.scenarios # <<>> => out.scenarios["open"] = PredictXgb(state, qbs, roll, "open")
  BY <1>0
<1>11. roof.status \in {"OPEN", "CLOSED", "PENDING"}
  BY DEF RoofReported
<1>1. PICK po : po = PredictXgb(state, qbs, roll, "open")
  OBVIOUS
<1>2. PICK pc : pc = PredictXgb(state, qbs, roll, "closed")
  OBVIOUS
<1>3. PICK sc : sc = [open |-> po, closed |-> pc]
  OBVIOUS
<1>10. sc["open"] = po
  BY <1>3
<1>4. PICK fixed : fixed = PredictXgb(state, qbs, roll, roof.category)
  OBVIOUS
<1>5. CASE Warmup(state)
  <2>1. out = Output("UNSUPPORTED", <<>>, identity)
    BY <1>0, <1>5 DEF XgbOutput
  <2>2. out.identity = identity /\ out.status = "UNSUPPORTED" /\ out.prediction = <<>> /\ out.scenarios = <<>>
    BY <2>1 DEF Output
  <2>. QED  BY <2>2
<1>6. CASE ~Warmup(state) /\ roof.structure # "RETRACTABLE"
  <2>1. out = Output("AVAILABLE", fixed, identity)
    BY <1>0, <1>4, <1>6 DEF XgbOutput
  <2>2. out.identity = identity /\ out.status = "AVAILABLE" /\ out.prediction = fixed /\ out.scenarios = <<>>
    BY <2>1 DEF Output
  <2>. QED  BY <1>4, <1>6, <2>2
<1>7. CASE ~Warmup(state) /\ roof.structure = "RETRACTABLE" /\ roof.status = "PENDING"
  <2>1. out = [Output("AVAILABLE_WITH_ROOF_SCENARIOS", <<>>, identity) EXCEPT !.scenarios = sc]
    BY <1>0, <1>1, <1>2, <1>3, <1>7, Zenon DEF XgbOutput
  <2>2. out.identity = identity /\ out.status = "AVAILABLE_WITH_ROOF_SCENARIOS" /\ out.prediction = <<>>
        /\ out.scenarios = sc
    BY <2>1 DEF Output
  <2>3. out.scenarios["open"] = PredictXgb(state, qbs, roll, "open")
    BY <1>1, <1>10, <2>2, Zenon
  <2>. QED  BY ONLY <2>2, <2>3
<1>8. CASE ~Warmup(state) /\ roof.structure = "RETRACTABLE" /\ roof.status # "PENDING"
  <2>1. out = [Output("AVAILABLE", sc[roof.category], identity) EXCEPT !.scenarios = sc]
    BY <1>0, <1>1, <1>2, <1>3, <1>8, Zenon DEF XgbOutput
  <2>0. PICK cat : cat = roof.category
    OBVIOUS
  <2>2. sc[roof.category] = fixed /\ roof.status \in {"OPEN", "CLOSED"}
    <3>1. CASE roof.status = "OPEN"
      <4>1. cat = "open" /\ fixed = po
        BY <1>1, <1>4, <1>8, <2>0, <3>1 DEF RoofReported
      <4>. QED  BY <1>3, <2>0, <3>1, <4>1
    <3>2. CASE roof.status = "CLOSED"
      <4>1. cat = "closed" /\ fixed = pc
        BY <1>2, <1>4, <1>8, <2>0, <3>2 DEF RoofReported
      <4>. QED  BY <1>3, <2>0, <3>2, <4>1
    <3>. QED  BY <1>8, <1>11, <3>1, <3>2
  <2>3. out.identity = identity /\ out.status = "AVAILABLE" /\ out.prediction = fixed
        /\ out.scenarios = sc
    BY <2>1, <2>2 DEF Output
  <2>4. out.scenarios["open"] = PredictXgb(state, qbs, roll, "open")
    BY <1>1, <1>10, <2>3, Zenon
  <2>. QED  BY ONLY <1>4, <2>2, <2>3, <2>4
<1>. QED  BY <1>5, <1>6, <1>7, <1>8

\* Nobody reports a roof that is neither open nor closed nor unknown.
LEMMA RoofIs ==
  ASSUME NEW r, RoofsKnown(r), NEW g
  PROVE  LET roof == ResolveRoof(r, g)
         IN /\ RoofReported(roof)
            /\ Season[g].structure = "RETRACTABLE" =>
                 /\ roof.structure = "RETRACTABLE"
                 /\ roof.status # "PENDING" => g \in DOMAIN r /\ roof.status = r[g].status
<1>0. PICK roof : roof = ResolveRoof(r, g)
  OBVIOUS
<1>. SUFFICES /\ roof.status \in {"OPEN", "CLOSED", "PENDING"}
              /\ roof.structure = "RETRACTABLE" =>
                   roof.category = (IF roof.status = "OPEN" THEN "open"
                                    ELSE IF roof.status = "CLOSED" THEN "closed" ELSE "")
              /\ Season[g].structure = "RETRACTABLE" =>
                   /\ roof.structure = "RETRACTABLE"
                   /\ roof.status # "PENDING" => g \in DOMAIN r /\ roof.status = r[g].status
  BY <1>0 DEF RoofReported
<1>1. PICK structure : structure = Season[g].structure
  OBVIOUS
<1>2. CASE structure = "OUTDOOR"
  BY <1>0, <1>1, <1>2 DEF ResolveRoof
<1>3. CASE structure = "FIXED"
  BY <1>0, <1>1, <1>3 DEF ResolveRoof
<1>4. CASE structure = "RETRACTABLE" /\ g \in DOMAIN r
  <2>1. PICK st : st = r[g].status
    OBVIOUS
  <2>2. st \in {"OPEN", "CLOSED", "PENDING"}
    BY <1>4, <2>1 DEF RoofsKnown
  <2>3. PICK cat : cat = IF st = "OPEN" THEN "open" ELSE IF st = "CLOSED" THEN "closed" ELSE ""
    OBVIOUS
  <2>4. cat = CASE st = "OPEN" -> "open" [] st = "CLOSED" -> "closed" [] OTHER -> ""
    BY <2>2, <2>3
  <2>5. roof = [structure |-> structure, status |-> st, at |-> r[g].at, category |-> cat]
    BY <1>0, <1>1, <1>4, <2>1, <2>4 DEF ResolveRoof
  <2>. QED  BY <1>1, <1>4, <2>1, <2>2, <2>3, <2>5
<1>5. CASE structure \notin {"OUTDOOR", "FIXED"} /\ ~(structure = "RETRACTABLE" /\ g \in DOMAIN r)
  <2>1. roof = [structure |-> structure, status |-> "PENDING", at |-> 0, category |-> ""]
    BY <1>0, <1>1, <1>5 DEF ResolveRoof
  <2>. QED  BY <1>1, <2>1
<1>. QED  BY <1>2, <1>3, <1>4, <1>5

-----------------------------------------------------------------------------
\* The weeks of the season are numbers from 1 on, and there are finitely many.
LEMMA WeeksAre == IsFiniteSet(Weeks) /\ \A w \in Weeks : w \in Nat /\ w > 0
<1>1. \A g \in DOMAIN Season : Season[g].week \in Nat \ {0}
  BY FootballAssumption
<1>2. \A w \in Weeks : w \in Nat /\ w > 0
  BY <1>1 DEF Weeks
<1>3. PICK F : F = [g \in DOMAIN Season |-> Season[g].week]
  OBVIOUS
<1>4. F \in Surjection(DOMAIN Season, Weeks)
  BY <1>3 DEF Surjection, Weeks
<1>5. IsFiniteSet(DOMAIN Season)
  BY FootballAssumption
<1>6. IsFiniteSet(Weeks)
  BY <1>4, <1>5, FS_Surjection
<1>. QED  BY <1>2, <1>6

\* A week begins when the one before it is over.
LEMMA RolloverGrows ==
  ASSUME NEW v \in Nat, NEW w \in Nat, v < w, v > 0
  PROVE  /\ Rollover(v) \in Nat /\ Rollover(w) \in Nat
         /\ Rollover(v) + Span <= Rollover(w)
<1>1. Span \in Nat
  BY FootballAssumption
<1>2. PICK d \in Nat : w = v + 1 + d
  <2>1. w - v - 1 \in Nat /\ w = v + 1 + (w - v - 1)
    OBVIOUS
  <2>. QED  BY <2>1
<1>3. PICK u \in Nat : v = u + 1
  <2>1. v - 1 \in Nat /\ v = (v - 1) + 1
    OBVIOUS
  <2>. QED  BY <2>1
<1>4. PICK x \in Nat : x = u * Span
  <2>1. u * Span \in Nat
    BY <1>1
  <2>. QED  BY <2>1
<1>5. PICK y \in Nat : y = d * Span
  <2>1. d * Span \in Nat
    BY <1>1
  <2>. QED  BY <2>1
<1>6. v - 1 = u /\ w - 1 = u + 1 + d
  BY <1>2, <1>3
<1>7. Rollover(v) = x
  BY <1>4, <1>6 DEF Rollover
<1>8. (u + 1 + d) * Span = u * Span + Span + d * Span
  BY <1>1
<1>9. Rollover(w) = x + Span + y
  BY <1>4, <1>5, <1>6, <1>8 DEF Rollover
<1>. QED  BY <1>1, <1>7, <1>9

LEMMA ActiveWeekIs ==
  ASSUME NEW t \in 0..LastTick
  PROVE  LET w == ActiveWeek(t)
         IN w \in Weeks /\ w \in Nat /\ w > 0 /\ Rollover(w) <= t /\ t < Rollover(w) + Span
<1>1. \E w \in Weeks : Rollover(w) <= t /\ t < Rollover(w) + Span
  BY WeekAssumption
<1>2. ActiveWeek(t) \in Weeks /\ Rollover(ActiveWeek(t)) <= t /\ t < Rollover(ActiveWeek(t)) + Span
  BY <1>1, Zenon DEF ActiveWeek
<1>. QED  BY <1>2, WeeksAre

\* The data of an earlier week may be used, unless its last game was played on a Tuesday.
LEMMA EligibleEarly ==
  ASSUME NEW t \in 0..LastTick, NEW v \in Weeks, v < ActiveWeek(t), v \notin LateWeeks
  PROVE  EligibleAt(v) <= t
<1>1. PICK w : w = ActiveWeek(t)
  OBVIOUS
<1>2. w \in Nat /\ Rollover(w) <= t /\ v \in Nat /\ v > 0
  BY <1>1, ActiveWeekIs, WeeksAre
<1>3. Rollover(v) \in Nat /\ Rollover(w) \in Nat /\ Rollover(v) + Span <= Rollover(w)
  BY <1>1, <1>2, RolloverGrows
<1>4. Span \in Nat
  BY FootballAssumption
<1>5. EligibleAt(v) = Rollover(v) + Span - 1 + 0
  BY DEF EligibleAt
<1>. QED  BY <1>2, <1>3, <1>4, <1>5

LEMMA EligibleType == \A v \in Weeks : EligibleAt(v) \in Int
<1>. SUFFICES ASSUME NEW v \in Weeks PROVE EligibleAt(v) \in Int
  OBVIOUS
<1>1. v \in Nat /\ v > 0 /\ Span \in Nat
  BY WeeksAre, FootballAssumption
<1>2. PICK r \in Int : r = Rollover(v)
  <2>1. v < v + 1 /\ v + 1 \in Nat
    BY <1>1
  <2>2. Rollover(v) \in Nat
    BY <1>1, <2>1, RolloverGrows
  <2>. QED  BY <2>2
<1>3. EligibleAt(v) = r + Span - 1 + (IF v \in LateWeeks THEN Span ELSE 0)
  BY <1>2 DEF EligibleAt
<1>. QED  BY <1>1, <1>3

\* Unless the statistics of such a week entered meanwhile, the features look back on the
\* same weeks.
LEMMA SameRoll ==
  ASSUME NEW t \in 0..LastTick, NEW u \in 0..LastTick, t <= u, ActiveWeek(t) = ActiveWeek(u), NEW through,
         \A w \in LateWeeks : ~(t < EligibleAt(w) /\ EligibleAt(w) <= u)
  PROVE  PriorWeeks(ActiveWeek(t), through, t) = PriorWeeks(ActiveWeek(u), through, u)
<1>1. PICK w : w = ActiveWeek(t)
  OBVIOUS
<1>2. \A v \in Weeks : v < w => (EligibleAt(v) <= t <=> EligibleAt(v) <= u)
  <2>. SUFFICES ASSUME NEW v \in Weeks, v < w PROVE EligibleAt(v) <= t <=> EligibleAt(v) <= u
    OBVIOUS
  <2>1. EligibleAt(v) \in Int
    BY EligibleType
  <2>2. CASE v \in LateWeeks
    <3>1. ~(t < EligibleAt(v) /\ EligibleAt(v) <= u)
      BY <2>2
    <3>. QED  BY <2>1, <3>1
  <2>3. CASE v \notin LateWeeks
    BY <1>1, <2>3, EligibleEarly
  <2>. QED  BY <2>2, <2>3
<1>. QED  BY <1>1, <1>2, Zenon DEF PriorWeeks

-----------------------------------------------------------------------------
\* The state entering a week, week after week.
EnteredUpTo(e, order, g, s) ==
  IF s = {} THEN Bootstrap ELSE AdvanceWeek(g[s \ {Max(s)}], order[Max(s)], e)

Entered(e, order) == CHOOSE g : g = [s \in SUBSET DOMAIN order |-> EnteredUpTo(e, order, g, s)]

LEMMA EnteringIs ==
  ASSUME NEW w, NEW e, NEW order, order = InOrder(SettledWeeks(w, e.through))
  PROVE  EnteringState(w, e) = Entered(e, order)[DOMAIN order]
BY DEF EnteringState, Entered, FoldLeft, MapThenFoldSet, EnteredUpTo

\* In the first week, the season before is all there is.
LEMMA EnteringFirst ==
  ASSUME NEW e
  PROVE  EnteringState(1, e) = Bootstrap
<1>1. SettledWeeks(1, e.through) = {}
  <2>1. \A v \in Weeks : ~(v < 1)
    BY WeeksAre
  <2>. QED  BY <2>1, Zenon DEF SettledWeeks
<1>2. Cardinality({}) = 0 /\ 1..0 = {}
  BY FS_EmptySet
<1>3. PICK order : order = InOrder(SettledWeeks(1, e.through))
  OBVIOUS
<1>4. DOMAIN order = {}
  BY <1>1, <1>2, <1>3 DEF InOrder
<1>5. PICK boot : boot = Bootstrap
  OBVIOUS
<1>6. PICK D : D = DOMAIN order
  OBVIOUS
<1>7. PICK h : h = [s \in SUBSET D |-> boot]
  OBVIOUS
<1>8. \A g : \A s \in SUBSET D : EnteredUpTo(e, order, g, s) = boot
  BY <1>4, <1>5, <1>6 DEF EnteredUpTo
<1>9. h = [s \in SUBSET D |-> EnteredUpTo(e, order, h, s)]
  BY <1>7, <1>8
<1>10. PICK G : G = Entered(e, order)
  OBVIOUS
<1>11. G = [s \in SUBSET D |-> EnteredUpTo(e, order, G, s)]
  BY <1>6, <1>9, <1>10, Zenon DEF Entered
<1>12. G[D] = boot
  <2>1. D \in SUBSET D
    OBVIOUS
  <2>2. G[D] = EnteredUpTo(e, order, G, D)
    BY <1>11, <2>1
  <2>. QED  BY <1>8, <2>1, <2>2
<1>13. EnteringState(1, e) = G[D]
  BY <1>3, <1>6, <1>10, EnteringIs
<1>. QED  BY <1>5, <1>12, <1>13

\* What the models have learned is told by the evidence in its version.
LEMMA SameState ==
  ASSUME NEW w \in Nat, w > 0, NEW d, NEW e,
         StateVersion(EnteringState(w, d), w, d) = StateVersion(EnteringState(w, e), w, e)
  PROVE  EnteringState(w, d) = EnteringState(w, e) /\ (w > 1 => d = e)
<1>1. CASE w = 1
  BY <1>1, EnteringFirst
<1>2. CASE w > 1
  <2>1. w # 1
    BY <1>2
  <2>2. StateVersion(EnteringState(w, d), w, d).evidence = d
    BY <2>1 DEF StateVersion
  <2>3. StateVersion(EnteringState(w, e), w, e).evidence = e
    BY <2>1 DEF StateVersion
  <2>. QED  BY <2>2, <2>3
<1>. QED  BY <1>1, <1>2

\* Before the first week there is none to look back on.
LEMMA NoRoll ==
  ASSUME NEW through, NEW t
  PROVE  PriorWeeks(1, through, t) = {}
<1>1. \A v \in Weeks : ~(v < 1)
  BY WeeksAre
<1>. QED  BY <1>1, Zenon DEF PriorWeeks

-----------------------------------------------------------------------------
\* What a model says, once it speaks.
Predicts(m, state, qbs, roll, category) ==
  CASE m = "expected_margin" -> PredictMargin(state)
    [] m = "qb_elo" -> PredictElo(state, qbs, roll)
    [] m = "ridge_totals_r4" -> PredictTotals(state, qbs, roll)
    [] m = "xgboost_v2" -> PredictXgb(state, qbs, roll, category)

\* What a game of a snapshot was scored with.
StateOf(s) == EnteringState(s.week, s.evidence)
SideOf(s, g, team) == ResolveTeam(Load(s.pointer, s.outcome, s.at), s.files.overrides, g, team)
HomeOf(s, g) == SideOf(s, g, Season[g].home)
AwayOf(s, g) == SideOf(s, g, Season[g].away)
RoofOf(s, g) == ResolveRoof(s.files.roofs, g)
RollOf(s) == PriorWeeks(s.week, s.evidence.through, s.at)
VersionOf(s) == StateVersion(StateOf(s), s.week, s.evidence)

LEMMA SnapshotIs ==
  ASSUME NEW s, Made(s)
  PROVE  /\ s.at \in 0..LastTick /\ s.week = ActiveWeek(s.at) /\ s.state = StateOf(s)
         /\ DOMAIN s.games = WeekGames(s.week)
         /\ \A g \in DOMAIN s.games :
              s.games[g] = ScoreGame(StateOf(s), VersionOf(s), Load(s.pointer, s.outcome, s.at), s.files, RollOf(s), g)
<1>0. s.at \in 0..LastTick
  BY DEF Made
<1>1. PICK t, p, o, f, e : s = SnapOf(t, p, o, f, e)
  BY DEF Made
<1>2. /\ s.at = t /\ s.week = ActiveWeek(t) /\ s.pointer = p /\ s.outcome = o /\ s.files = f /\ s.evidence = e
      /\ s.state = EnteringState(ActiveWeek(t), e)
      /\ s.games = [g \in WeekGames(ActiveWeek(t)) |->
                ScoreGame(EnteringState(ActiveWeek(t), e),
                          StateVersion(EnteringState(ActiveWeek(t), e), ActiveWeek(t), e),
                          Load(p, o, t), f, PriorWeeks(ActiveWeek(t), e.through, t), g)]
  BY <1>1 DEF SnapOf
<1>3. StateOf(s) = EnteringState(ActiveWeek(t), e)
  BY <1>2 DEF StateOf
<1>4. VersionOf(s) = StateVersion(EnteringState(ActiveWeek(t), e), ActiveWeek(t), e)
  BY <1>2, <1>3 DEF VersionOf
<1>5. RollOf(s) = PriorWeeks(ActiveWeek(t), e.through, t)
  BY <1>2 DEF RollOf
<1>6. PICK games : games = s.games
  OBVIOUS
<1>7. DOMAIN games = WeekGames(s.week)
  BY <1>2, <1>6
<1>8. \A g \in DOMAIN games :
        games[g] = ScoreGame(StateOf(s), VersionOf(s), Load(s.pointer, s.outcome, s.at), s.files, RollOf(s), g)
  BY <1>2, <1>3, <1>4, <1>5, <1>6
<1>. QED  BY <1>0, <1>2, <1>3, <1>6, <1>7, <1>8

\* An output carries the identity of its inputs, and the models that need quarterbacks
\* speak when both are usable.
LEMMA OutputIs ==
  ASSUME NEW s, Made(s), NEW g \in DOMAIN s.games, NEW m \in Models
  PROVE  LET out == s.games[g][m]
         IN /\ out.identity = PredictionIdentity(VersionOf(s), g, m, RoofOf(s, g), HomeOf(s, g), AwayOf(s, g))
            /\ m = "expected_margin" => out.status = "AVAILABLE"
            /\ m # "expected_margin" =>
                 /\ QbUsable(HomeOf(s, g), AwayOf(s, g)) => out.status \notin {"STALE_INPUT", "UNAVAILABLE"}
                 /\ out.prediction # <<>> \/ out.scenarios # <<>> => QbUsable(HomeOf(s, g), AwayOf(s, g))
            /\ out.prediction # <<>> =>
                 out.prediction = Predicts(m, StateOf(s), Starters(HomeOf(s, g), AwayOf(s, g)), RollOf(s), RoofOf(s, g).category)
            /\ out.scenarios # <<>> =>
                 /\ m = "xgboost_v2"
                 /\ out.scenarios["open"] = PredictXgb(StateOf(s), Starters(HomeOf(s, g), AwayOf(s, g)), RollOf(s), "open")
            /\ m = "xgboost_v2" /\ out.prediction # <<>> /\ RoofOf(s, g).structure = "RETRACTABLE" =>
                 RoofOf(s, g).status \in {"OPEN", "CLOSED"}
<1>1. PICK home : home = HomeOf(s, g)
  OBVIOUS
<1>2. PICK away : away = AwayOf(s, g)
  OBVIOUS
<1>3. PICK qbs : qbs = Starters(home, away)
  OBVIOUS
<1>4. PICK roof : roof = RoofOf(s, g)
  OBVIOUS
<1>5. PICK identity : identity = PredictionIdentity(VersionOf(s), g, m, roof, home, away)
  OBVIOUS
<1>6. PICK state : state = StateOf(s)
  OBVIOUS
<1>7. PICK roll : roll = RollOf(s)
  OBVIOUS
<1>8. PICK out : out = s.games[g][m]
  OBVIOUS
<1>9. PICK usable \in BOOLEAN : usable = QbUsable(home, away)
  BY DEF QbUsable
<1>10. PICK reason : reason = UnavailableReason(home, away)
  OBVIOUS
<1>. SUFFICES /\ out.identity = identity
              /\ m = "expected_margin" => out.status = "AVAILABLE"
              /\ m # "expected_margin" =>
                   /\ usable => out.status \notin {"STALE_INPUT", "UNAVAILABLE"}
                   /\ out.prediction # <<>> \/ out.scenarios # <<>> => usable
              /\ out.prediction # <<>> => out.prediction = Predicts(m, state, qbs, roll, roof.category)
              /\ out.scenarios # <<>> =>
                   /\ m = "xgboost_v2"
                   /\ out.scenarios["open"] = PredictXgb(state, qbs, roll, "open")
              /\ m = "xgboost_v2" /\ out.prediction # <<>> /\ roof.structure = "RETRACTABLE" =>
                   roof.status \in {"OPEN", "CLOSED"}
  BY <1>1, <1>2, <1>3, <1>4, <1>5, <1>6, <1>7, <1>8, <1>9
<1>11. out = ScoreGame(StateOf(s), VersionOf(s), Load(s.pointer, s.outcome, s.at), s.files, RollOf(s), g)[m]
  BY <1>8, SnapshotIs
<1>12. /\ m = "expected_margin" => out = Output("AVAILABLE", PredictMargin(state), identity)
       /\ m # "expected_margin" /\ ~usable => out = Output(reason, <<>>, identity)
       /\ m = "qb_elo" /\ usable => out = Output("AVAILABLE", PredictElo(state, qbs, roll), identity)
       /\ m = "ridge_totals_r4" /\ usable => out = Output("AVAILABLE", PredictTotals(state, qbs, roll), identity)
       /\ m = "xgboost_v2" /\ usable => out = XgbOutput(state, qbs, roll, roof, identity)
  BY <1>1, <1>2, <1>3, <1>4, <1>5, <1>6, <1>7, <1>9, <1>10, <1>11, ScoreIs DEF HomeOf, AwayOf, RoofOf, SideOf
<1>13. \A st, p : LET o == Output(st, p, identity)
                  IN o.identity = identity /\ o.status = st /\ o.prediction = p /\ o.scenarios = <<>>
  BY DEF Output
<1>14. CASE m = "expected_margin"
  <2>1. out.identity = identity /\ out.status = "AVAILABLE" /\ out.prediction = PredictMargin(state)
        /\ out.scenarios = <<>>
    BY <1>12, <1>13, <1>14
  <2>2. PredictMargin(state) = Predicts(m, state, qbs, roll, roof.category)
    BY <1>14 DEF Predicts
  <2>. QED  BY <1>14, <2>1, <2>2
<1>15. CASE m # "expected_margin" /\ ~usable
  <2>1. out.identity = identity /\ out.prediction = <<>> /\ out.scenarios = <<>>
    BY <1>12, <1>13, <1>15
  <2>. QED  BY <1>15, <2>1
<1>16. CASE m = "qb_elo" /\ usable
  <2>1. out.identity = identity /\ out.status = "AVAILABLE" /\ out.prediction = PredictElo(state, qbs, roll)
        /\ out.scenarios = <<>>
    BY <1>12, <1>13, <1>16
  <2>2. PredictElo(state, qbs, roll) = Predicts(m, state, qbs, roll, roof.category)
    BY <1>16 DEF Predicts
  <2>. QED  BY <1>16, <2>1, <2>2
<1>17. CASE m = "ridge_totals_r4" /\ usable
  <2>1. out.identity = identity /\ out.status = "AVAILABLE" /\ out.prediction = PredictTotals(state, qbs, roll)
        /\ out.scenarios = <<>>
    BY <1>12, <1>13, <1>17
  <2>2. PredictTotals(state, qbs, roll) = Predicts(m, state, qbs, roll, roof.category)
    BY <1>17 DEF Predicts
  <2>. QED  BY <1>17, <2>1, <2>2
<1>18. CASE m = "xgboost_v2" /\ usable
  <2>1. out = XgbOutput(state, qbs, roll, roof, identity)
    BY <1>12, <1>18
  <2>2. RoofsKnown(s.files.roofs)
    BY DEF Made
  <2>3. RoofReported(roof)
    BY <1>4, <2>2, RoofIs DEF RoofOf
  <2>4. /\ out.identity = identity
        /\ out.status \in {"AVAILABLE", "UNSUPPORTED", "AVAILABLE_WITH_ROOF_SCENARIOS"}
        /\ out.prediction # <<>> =>
             /\ out.prediction = PredictXgb(state, qbs, roll, roof.category)
             /\ roof.structure = "RETRACTABLE" => roof.status \in {"OPEN", "CLOSED"}
        /\ out.scenarios # <<>> => out.scenarios["open"] = PredictXgb(state, qbs, roll, "open")
    BY ONLY <2>1, <2>3, XgbIs
  <2>5. PredictXgb(state, qbs, roll, roof.category) = Predicts(m, state, qbs, roll, roof.category)
    BY <1>18 DEF Predicts
  <2>. QED  BY <1>18, <2>4, <2>5
<1>. QED  BY <1>14, <1>15, <1>16, <1>17, <1>18 DEF Models

\* Two predictions of a game under one identity, neither over statistics that entered
\* between them, are the same prediction.
LEMMA OneIdentity ==
  ASSUME NEW s, NEW r, Made(s), Made(r), s.week = r.week, s.at <= r.at, ~EnteredBetween(s, r),
         NEW g, g \in DOMAIN s.games, g \in DOMAIN r.games, NEW m \in Models,
         s.games[g][m].identity = r.games[g][m].identity,
         s.games[g][m].prediction # <<>>, r.games[g][m].prediction # <<>>
  PROVE  s.games[g][m].prediction = r.games[g][m].prediction
<1>1. PICK w : w = s.week
  OBVIOUS
<1>2. w = ActiveWeek(s.at) /\ w = ActiveWeek(r.at) /\ s.at \in 0..LastTick /\ r.at \in 0..LastTick
  BY <1>1, SnapshotIs
<1>3. w \in Nat /\ w > 0
  BY <1>2, ActiveWeekIs
<1>4. PredictionIdentity(VersionOf(s), g, m, RoofOf(s, g), HomeOf(s, g), AwayOf(s, g))
        = PredictionIdentity(VersionOf(r), g, m, RoofOf(r, g), HomeOf(r, g), AwayOf(r, g))
  BY OutputIs
<1>5. VersionOf(s) = VersionOf(r) /\ RoofOf(s, g) = RoofOf(r, g)
  BY <1>4 DEF PredictionIdentity
<1>6. StateOf(s) = StateOf(r) /\ (w > 1 => s.evidence = r.evidence)
  BY <1>1, <1>3, <1>5, SameState DEF VersionOf, StateOf
<1>7. RollOf(s) = RollOf(r)
  <2>1. CASE w = 1
    BY <1>1, <2>1, NoRoll DEF RollOf
  <2>2. CASE w > 1
    <3>1. s.evidence = r.evidence
      BY <1>6, <2>2
    <3>2. \A v \in LateWeeks : ~(s.at < EligibleAt(v) /\ EligibleAt(v) <= r.at)
      BY DEF EnteredBetween
    <3>3. PICK t \in 0..LastTick : t = s.at
      BY <1>2
    <3>4. PICK u \in 0..LastTick : u = r.at
      BY <1>2
    <3>5. PICK through : through = s.evidence.through
      OBVIOUS
    <3>6. /\ t <= u /\ w = ActiveWeek(t) /\ w = ActiveWeek(u)
          /\ \A v \in LateWeeks : ~(t < EligibleAt(v) /\ EligibleAt(v) <= u)
      BY <1>2, <3>2, <3>3, <3>4
    <3>7. PriorWeeks(ActiveWeek(t), through, t) = PriorWeeks(ActiveWeek(u), through, u)
      BY ONLY <3>6, t \in 0..LastTick, u \in 0..LastTick, SameRoll
    <3>8. PriorWeeks(w, s.evidence.through, s.at) = PriorWeeks(w, s.evidence.through, r.at)
      BY <3>3, <3>4, <3>5, <3>6, <3>7
    <3>. QED  BY <1>1, <3>1, <3>8 DEF RollOf
  <2>. QED  BY <1>3, <2>1, <2>2
<1>8. m # "expected_margin" => Starters(HomeOf(s, g), AwayOf(s, g)) = Starters(HomeOf(r, g), AwayOf(r, g))
  <2>. SUFFICES ASSUME m # "expected_margin"
                PROVE  Starters(HomeOf(s, g), AwayOf(s, g)) = Starters(HomeOf(r, g), AwayOf(r, g))
    OBVIOUS
  <2>1. PICK a : a = HomeOf(s, g).provenance
    OBVIOUS
  <2>2. PICK b : b = AwayOf(s, g).provenance
    OBVIOUS
  <2>3. PICK c : c = HomeOf(r, g).provenance
    OBVIOUS
  <2>4. PICK d : d = AwayOf(r, g).provenance
    OBVIOUS
  <2>5. {a, b} = {c, d}
    BY <1>4, <2>1, <2>2, <2>3, <2>4 DEF PredictionIdentity
  <2>6. Season[g].home # Season[g].away
    <3>1. g \in DOMAIN Season
      BY SnapshotIs DEF WeekGames
    <3>. QED  BY <3>1, FootballAssumption
  <2>7. /\ HomeOf(s, g).qb = Says(a) /\ OfTeam(a) = Season[g].home
        /\ AwayOf(s, g).qb = Says(b) /\ OfTeam(b) = Season[g].away
    BY <2>1, <2>2, ResolveTells DEF HomeOf, AwayOf, SideOf
  <2>8. /\ HomeOf(r, g).qb = Says(c) /\ OfTeam(c) = Season[g].home
        /\ AwayOf(r, g).qb = Says(d) /\ OfTeam(d) = Season[g].away
    BY <2>3, <2>4, ResolveTells DEF HomeOf, AwayOf, SideOf
  <2>9. a = c /\ b = d
    BY <2>5, <2>6, <2>7, <2>8
  <2>. QED  BY <2>7, <2>8, <2>9 DEF Starters
<1>9. s.games[g][m].prediction
        = Predicts(m, StateOf(s), Starters(HomeOf(s, g), AwayOf(s, g)), RollOf(s), RoofOf(s, g).category)
  BY OutputIs
<1>10. r.games[g][m].prediction
         = Predicts(m, StateOf(r), Starters(HomeOf(r, g), AwayOf(r, g)), RollOf(r), RoofOf(r, g).category)
  BY OutputIs
<1>11. CASE m = "expected_margin"
  BY <1>6, <1>9, <1>10, <1>11 DEF Predicts
<1>12. CASE m # "expected_margin"
  BY <1>5, <1>6, <1>7, <1>8, <1>9, <1>10, <1>12
<1>. QED  BY <1>11, <1>12

LEMMA InvSameInputs == WeekInv => SameInputsSamePrediction
<1>. SUFFICES ASSUME WeekInv, kept # NoSnapshot, again # NoSnapshot,
                     NEW g \in DOMAIN kept.games \cap DOMAIN again.games, NEW m \in Models,
                     kept.games[g][m].identity = again.games[g][m].identity,
                     kept.games[g][m].prediction # <<>>, again.games[g][m].prediction # <<>>,
                     ~EnteredBetween(kept, again)
              PROVE  kept.games[g][m].prediction = again.games[g][m].prediction
  BY Zenon DEF SameInputsSamePrediction
<1>1. Made(kept) /\ Made(again) /\ kept.week = again.week /\ kept.at <= again.at
  BY DEF WeekInv, KeptMade, AgainMade
<1>. QED  BY <1>1, OneIdentity

-----------------------------------------------------------------------------
\* A set of one element is that element's.
LEMMA OnlyOne ==
  ASSUME NEW S, IsFiniteSet(S), Cardinality(S) = 1
  PROVE  \E r \in S : S = {r}
<1>1. S # {}
  BY FS_EmptySet
<1>2. PICK r \in S : TRUE
  BY <1>1
<1>3. IsFiniteSet(S \ {r}) /\ Cardinality(S \ {r}) = 0
  BY <1>2, FS_RemoveElement
<1>4. S \ {r} = {}
  BY <1>3, FS_EmptySet
<1>. QED  BY <1>2, <1>4

ChartKnown(chart) ==
  /\ IsFiniteSet(chart)
  /\ \A r \in chart :
       /\ r.order \in Nat \ {0}
       /\ r.order = 1 => r.evidence \in ExpectedTop \cup UnavailableTop \cup {"AMBIGUOUS"}

\* The four cases of the choice.
AnyAmbiguous(chart) == \E r \in Top(chart) : r.evidence = "AMBIGUOUS"
Promotes(chart) == TopIsOut(chart) /\ Backups(chart) # {}

LEMMA ChooseIs ==
  ASSUME NEW chart
  PROVE  /\ AnyAmbiguous(chart) => ChooseCandidate(chart) = Nobody("AMBIGUOUS")
         /\ ~AnyAmbiguous(chart) /\ Viable(chart) # {} =>
              ChooseCandidate(chart) = IF Cardinality(Viable(chart)) = 1 THEN Chosen(Viable(chart), "")
                                       ELSE Nobody("AMBIGUOUS")
         /\ ~AnyAmbiguous(chart) /\ Viable(chart) = {} /\ Promotes(chart) =>
              ChooseCandidate(chart) = IF Cardinality(BestBackups(chart)) = 1
                                       THEN Chosen(BestBackups(chart), "DEPTH1_UNAVAILABLE_BACKUP_PROMOTION")
                                       ELSE Nobody("AMBIGUOUS")
         /\ ~AnyAmbiguous(chart) /\ Viable(chart) = {} /\ ~Promotes(chart) =>
              ChooseCandidate(chart) = Nobody(IF Top(chart) # {} THEN "UNRESOLVED" ELSE "MISSING_EVIDENCE")
<1>1. PICK first : first = IF Cardinality(Viable(chart)) = 1 THEN Chosen(Viable(chart), "") ELSE Nobody("AMBIGUOUS")
  OBVIOUS
<1>2. PICK second : second = IF Cardinality(BestBackups(chart)) = 1
                             THEN Chosen(BestBackups(chart), "DEPTH1_UNAVAILABLE_BACKUP_PROMOTION")
                             ELSE Nobody("AMBIGUOUS")
  OBVIOUS
<1>3. PICK third : third = Nobody(IF Top(chart) # {} THEN "UNRESOLVED" ELSE "MISSING_EVIDENCE")
  OBVIOUS
<1>4. PICK amb \in BOOLEAN : amb = AnyAmbiguous(chart)
  BY DEF AnyAmbiguous
<1>5. (\E r \in Top(chart) : r.evidence = "AMBIGUOUS") <=> amb
  BY <1>4 DEF AnyAmbiguous
<1>6. (\A r \in Top(chart) : r.evidence # "AMBIGUOUS") <=> ~amb
  BY <1>5, Zenon
<1>7. ChooseCandidate(chart) =
        CASE amb -> Nobody("AMBIGUOUS")
          [] ~amb /\ Viable(chart) # {} -> first
          [] TopIsOut(chart) /\ Backups(chart) # {} -> second
          [] OTHER -> third
  BY <1>1, <1>2, <1>3, <1>5, <1>6, Zenon DEF ChooseCandidate
<1>8. amb => ~TopIsOut(chart)
  BY <1>5 DEF TopIsOut, UnavailableTop
<1>9. Viable(chart) # {} => ~TopIsOut(chart)
  <2>. SUFFICES ASSUME NEW r \in Viable(chart), TopIsOut(chart) PROVE FALSE
    OBVIOUS
  <2>1. r \in Top(chart) /\ r.evidence \in ExpectedTop
    BY DEF Viable
  <2>2. r.evidence \in UnavailableTop
    BY <2>1 DEF TopIsOut
  <2>. QED  BY <2>1, <2>2 DEF ExpectedTop, UnavailableTop
<1>10. PICK promotes \in BOOLEAN : promotes = Promotes(chart)
  BY DEF Promotes
<1>11. PICK viable \in BOOLEAN : viable = (Viable(chart) # {})
  OBVIOUS
<1>12. ~(promotes /\ amb) /\ ~(promotes /\ viable)
  BY <1>8, <1>9, <1>10, <1>11 DEF Promotes
<1>13. PICK none : none = Nobody("AMBIGUOUS")
  OBVIOUS
<1>14. PICK out : out = ChooseCandidate(chart)
  OBVIOUS
<1>15. out = CASE amb -> none [] ~amb /\ viable -> first [] promotes -> second [] OTHER -> third
  BY <1>7, <1>10, <1>11, <1>13, <1>14, Zenon DEF Promotes
<1>16. /\ amb => out = none
       /\ ~amb /\ viable => out = first
       /\ ~amb /\ ~viable /\ promotes => out = second
       /\ ~amb /\ ~viable /\ ~promotes => out = third
  BY <1>12, <1>15
<1>. QED  BY <1>1, <1>2, <1>3, <1>4, <1>10, <1>11, <1>13, <1>14, <1>16, Zenon

\* Whoever is chosen stands first, and alone.
LEMMA ChosenStands ==
  ASSUME NEW chart, ChartKnown(chart), ChooseCandidate(chart).rows # {}
  PROVE  \E r \in chart : ChooseCandidate(chart).rows = {r} /\ Stands(chart, r)
<1>1. \A o \in chart : /\ o.order \in Nat /\ o.order >= 1
                       /\ o.order = 1 => o.evidence \in ExpectedTop \cup UnavailableTop \cup {"AMBIGUOUS"}
  BY DEF ChartKnown
<1>2. IsFiniteSet(Viable(chart)) /\ IsFiniteSet(BestBackups(chart))
  <2>1. Viable(chart) \subseteq chart /\ BestBackups(chart) \subseteq chart
    BY DEF Viable, Top, BestBackups, Backups
  <2>. QED  BY <2>1, FS_Subset DEF ChartKnown
<1>3. \A st : Nobody(st).rows = {}
  BY DEF Nobody
<1>4. \A R, x : Chosen(R, x).rows = R
  BY DEF Chosen
<1>5. CASE AnyAmbiguous(chart)
  <2>1. ChooseCandidate(chart) = Nobody("AMBIGUOUS")
    BY <1>5, ChooseIs
  <2>. QED  BY <1>3, <2>1
<1>6. CASE ~AnyAmbiguous(chart) /\ Viable(chart) # {}
  <2>1. ChooseCandidate(chart) = IF Cardinality(Viable(chart)) = 1 THEN Chosen(Viable(chart), "") ELSE Nobody("AMBIGUOUS")
    BY <1>6, ChooseIs
  <2>2. Cardinality(Viable(chart)) = 1 /\ ChooseCandidate(chart).rows = Viable(chart)
    BY <1>3, <1>4, <2>1
  <2>3. PICK r \in Viable(chart) : Viable(chart) = {r}
    BY <1>2, <2>2, OnlyOne
  <2>4. r \in chart /\ r.order = 1 /\ r.evidence \in ExpectedTop
    BY <2>3 DEF Viable, Top
  <2>5. \A o \in chart : o.order = 1 => o.evidence # "AMBIGUOUS"
    BY <1>6 DEF AnyAmbiguous, Top
  <2>6. ASSUME NEW o \in chart, o # r, o.order = 1 PROVE o.evidence \in UnavailableTop
    <3>1. o \notin Viable(chart) /\ o \in Top(chart)
      BY <2>3, <2>6 DEF Top
    <3>2. o.evidence \notin ExpectedTop
      BY <3>1 DEF Viable
    <3>. QED  BY <1>1, <2>5, <2>6, <3>2
  <2>7. Stands(chart, r)
    BY <2>4, <2>5, <2>6 DEF Stands
  <2>. QED  BY <2>2, <2>3, <2>4, <2>7
<1>7. CASE ~AnyAmbiguous(chart) /\ Viable(chart) = {} /\ Promotes(chart)
  <2>1. ChooseCandidate(chart) = IF Cardinality(BestBackups(chart)) = 1
                                 THEN Chosen(BestBackups(chart), "DEPTH1_UNAVAILABLE_BACKUP_PROMOTION")
                                 ELSE Nobody("AMBIGUOUS")
    BY <1>7, ChooseIs
  <2>2. Cardinality(BestBackups(chart)) = 1 /\ ChooseCandidate(chart).rows = BestBackups(chart)
    BY <1>3, <1>4, <2>1
  <2>3. PICK r \in BestBackups(chart) : BestBackups(chart) = {r}
    BY <1>2, <2>2, OnlyOne
  <2>4. r \in Backups(chart) /\ \A o \in Backups(chart) : r.order <= o.order
    BY <2>3 DEF BestBackups
  <2>5. r \in chart /\ r.order >= 2 /\ r.evidence = "backup"
    BY <2>4 DEF Backups
  <2>6. \A o \in chart : o.order = 1 => o.evidence \in UnavailableTop
    BY <1>7 DEF Promotes, TopIsOut, Top
  <2>7. ASSUME NEW o \in chart, o # r, o.evidence = "backup", o.order <= r.order
        PROVE  o.injury \in UnavailableTop
    <3>. SUFFICES ASSUME o.injury \notin UnavailableTop PROVE FALSE
      OBVIOUS
    <3>1. o.order # 1
      BY <2>6, <2>7 DEF UnavailableTop
    <3>2. o.order >= 2 /\ o.order \in Nat /\ r.order \in Nat
      BY <1>1, <2>5, <3>1
    <3>3. o \in Backups(chart)
      BY <2>7, <3>2 DEF Backups
    <3>4. o.order = r.order
      BY <2>4, <2>7, <3>2, <3>3
    <3>5. o \in BestBackups(chart)
      BY <2>4, <3>3, <3>4 DEF BestBackups
    <3>. QED  BY <2>3, <2>7, <3>5
  <2>8. \A o \in chart : o.order = 1 => o.evidence # "AMBIGUOUS"
    BY <1>7 DEF AnyAmbiguous, Top
  <2>9. r.order > 1
    BY <1>1, <2>5
  <2>10. Stands(chart, r)
    BY <2>5, <2>6, <2>7, <2>8, <2>9 DEF Stands
  <2>. QED  BY <2>2, <2>3, <2>5, <2>10
<1>8. CASE ~AnyAmbiguous(chart) /\ Viable(chart) = {} /\ ~Promotes(chart)
  <2>1. ChooseCandidate(chart) = Nobody(IF Top(chart) # {} THEN "UNRESOLVED" ELSE "MISSING_EVIDENCE")
    BY <1>8, ChooseIs
  <2>. QED  BY <1>3, <2>1
<1>. QED  BY <1>5, <1>6, <1>7, <1>8

\* Nobody who is not chosen can be scored.
LEMMA NobodyStatus ==
  ASSUME NEW chart, ChooseCandidate(chart).rows = {}
  PROVE  ChooseCandidate(chart).status \notin Scoreable
<1>1. \A st : Nobody(st).status = st
  BY DEF Nobody
<1>2. \A R, x : Chosen(R, x).rows = R /\ Chosen(R, x).status = ""
  BY DEF Chosen
<1>3. ChooseCandidate(chart).status \in {"AMBIGUOUS", "UNRESOLVED", "MISSING_EVIDENCE", ""}
  <2>1. CASE AnyAmbiguous(chart)
    <3>1. ChooseCandidate(chart) = Nobody("AMBIGUOUS")
      BY <2>1, ChooseIs
    <3>. QED  BY <1>1, <3>1
  <2>2. CASE ~AnyAmbiguous(chart) /\ Viable(chart) # {}
    <3>1. ChooseCandidate(chart) = IF Cardinality(Viable(chart)) = 1 THEN Chosen(Viable(chart), "") ELSE Nobody("AMBIGUOUS")
      BY <2>2, ChooseIs
    <3>2. ChooseCandidate(chart) = Chosen(Viable(chart), "") \/ ChooseCandidate(chart) = Nobody("AMBIGUOUS")
      BY <3>1, Zenon
    <3>3. Chosen(Viable(chart), "").status = ""
      BY DEF Chosen
    <3>4. Nobody("AMBIGUOUS").status = "AMBIGUOUS"
      BY DEF Nobody
    <3>. QED  BY ONLY <3>2, <3>3, <3>4
  <2>3. CASE ~AnyAmbiguous(chart) /\ Viable(chart) = {} /\ Promotes(chart)
    <3>1. ChooseCandidate(chart) = IF Cardinality(BestBackups(chart)) = 1
                                   THEN Chosen(BestBackups(chart), "DEPTH1_UNAVAILABLE_BACKUP_PROMOTION")
                                   ELSE Nobody("AMBIGUOUS")
      BY <2>3, ChooseIs
    <3>2. \/ ChooseCandidate(chart) = Chosen(BestBackups(chart), "DEPTH1_UNAVAILABLE_BACKUP_PROMOTION")
          \/ ChooseCandidate(chart) = Nobody("AMBIGUOUS")
      BY <3>1, Zenon
    <3>3. Chosen(BestBackups(chart), "DEPTH1_UNAVAILABLE_BACKUP_PROMOTION").status = ""
      BY DEF Chosen
    <3>4. Nobody("AMBIGUOUS").status = "AMBIGUOUS"
      BY DEF Nobody
    <3>. QED  BY ONLY <3>2, <3>3, <3>4
  <2>4. CASE ~AnyAmbiguous(chart) /\ Viable(chart) = {} /\ ~Promotes(chart)
    <3>1. ChooseCandidate(chart) = Nobody(IF Top(chart) # {} THEN "UNRESOLVED" ELSE "MISSING_EVIDENCE")
      BY <2>4, ChooseIs
    <3>. QED  BY <1>1, <3>1
  <2>. QED  BY <2>1, <2>2, <2>3, <2>4
<1>. QED  BY <1>3 DEF Scoreable

\* An identity is an identifier's, and without one nobody is scored.
LEMMA IdentityIs ==
  ASSUME NEW r
  PROVE  LET known == StableIdentity(r)
         IN /\ known.id # "" => Names(r, known.id)
            /\ known.id = "" => known.status \notin Scoreable
<1>0. PICK known : known = StableIdentity(r)
  OBVIOUS
<1>. SUFFICES /\ known.id # "" => Names(r, known.id)
              /\ known.id = "" => known.status \notin Scoreable
  BY <1>0
<1>1. PICK x : x = r.xwalk
  OBVIOUS
<1>2. CASE x.conflict
  <2>1. known = [id |-> "", status |-> "AMBIGUOUS"]
    BY <1>0, <1>1, <1>2 DEF StableIdentity
  <2>. QED  BY <2>1 DEF Scoreable
<1>3. CASE ~x.conflict /\ x.method \in StableMethods /\ ~x.review /\ x.id # ""
  <2>1. known = [id |-> x.id, status |-> "RESOLVED"]
    BY <1>0, <1>1, <1>3 DEF StableIdentity, StableMethods
  <2>2. Names(r, x.id)
    BY <1>0, <1>1, <1>3 DEF Names
  <2>. QED  BY <1>3, <2>1, <2>2
<1>4. CASE ~x.conflict /\ (x.method = "name" \/ x.review)
  <2>1. known = [id |-> "", status |-> "UNRESOLVED"]
    BY <1>0, <1>1, <1>4 DEF StableIdentity, StableMethods
  <2>. QED  BY <2>1 DEF Scoreable
<1>5. CASE ~x.conflict /\ ~(x.method \in StableMethods /\ ~x.review /\ x.id # "") /\ ~(x.method = "name" \/ x.review)
  <2>1. known = IF r.gsis # "" /\ r.rookie THEN [id |-> r.gsis, status |-> "NEW_PLAYER"]
                            ELSE [id |-> "", status |-> "UNRESOLVED"]
    BY <1>0, <1>1, <1>5 DEF StableIdentity
  <2>2. CASE r.gsis # "" /\ r.rookie
    <3>1. Names(r, r.gsis)
      BY <1>0, <1>1, <1>5, <2>2 DEF Names
    <3>. QED  BY <2>1, <2>2, <3>1
  <2>3. CASE ~(r.gsis # "" /\ r.rookie)
    BY <2>1, <2>3 DEF Scoreable
  <2>. QED  BY <2>2, <2>3
<1>. QED  BY <1>2, <1>3, <1>4, <1>5

-----------------------------------------------------------------------------
\* The charts of a snapshot are what audits find.
LEMMA ChartIs ==
  ASSUME NEW s, Made(s), NEW g \in DOMAIN Season, NEW team \in {Season[g].home, Season[g].away}
  PROVE  ChartKnown(s.pointer.charts[team])
<1>1. PICK charts \in FirstCharts \cup AuditCharts : charts = s.pointer.charts
  BY DEF Made, Pointed
<1>2. /\ IsFiniteSet(charts[team])
      /\ \A r \in charts[team] :
           /\ r.order \in Nat \ {0}
           /\ r.order = 1 => r.evidence \in ExpectedTop \cup UnavailableTop \cup {"AMBIGUOUS"}
  BY WeekAssumption
<1>. QED  BY <1>1, <1>2 DEF ChartKnown

\* The quarterback of a side that is scored is the operator's, or the audit's.
LEMMA SideWarranted ==
  ASSUME NEW s, Made(s), NEW g \in DOMAIN Season, NEW team \in {Season[g].home, Season[g].away},
         SideOf(s, g, team).status \in Scoreable
  PROVE  Warranted(s, g, team, SideOf(s, g, team).qb)
<1>1. PICK source : source = Load(s.pointer, s.outcome, s.at)
  OBVIOUS
<1>2. PICK chart : chart = s.pointer.charts[team]
  OBVIOUS
<1>3. source.charts[team] = chart
  BY <1>1, <1>2 DEF Load
<1>4. PICK over : over = s.files.overrides
  OBVIOUS
<1>5. PICK side : side = SideOf(s, g, team)
  OBVIOUS
<1>6. side = ResolveTeam(source, over, g, team)
  BY <1>1, <1>4, <1>5 DEF SideOf
<1>7. PICK b : b = FromSource(source, g, team)
  OBVIOUS
<1>8. CASE <<g, team>> \in DOMAIN over
  <2>1. PICK o : o = over[<<g, team>>]
    OBVIOUS
  <2>2. PICK p : p = [base |-> b.provenance, snapshot |-> source.snapshot, override |-> o]
    OBVIOUS
  <2>3. side = [b EXCEPT !.qb = o, !.status = "OVERRIDDEN", !.provenance = p]
    BY <1>6, <1>7, <1>8, <2>1, <2>2 DEF ResolveTeam
  <2>4. DOMAIN b = {"qb", "status", "freshness", "provenance"}
    BY <1>7, SourceTells
  <2>5. side.qb = o
    BY <2>3, <2>4
  <2>. QED  BY <1>4, <1>5, <1>8, <2>1, <2>5 DEF Warranted
<1>9. CASE <<g, team>> \notin DOMAIN over
  <2>1. side = b
    BY <1>6, <1>7, <1>9 DEF ResolveTeam
  <2>2. PICK chosen : chosen = ChooseCandidate(chart)
    OBVIOUS
  <2>3. PICK row : row = CHOOSE r \in chosen.rows : TRUE
    OBVIOUS
  <2>4. PICK known : known = StableIdentity(row)
    OBVIOUS
  <2>5. b = CASE chosen.rows = {} -> QbUnresolved(source, g, team, "", chosen.status, "")
              [] chosen.rows # {} /\ known.id = "" ->
                   QbUnresolved(source, g, team, row.id, known.status, chosen.warning)
              [] chosen.rows # {} /\ known.id # "" ->
                   QbResolution(source, g, team, row.id, known, <<chosen.warning, source.warning>>)
    BY <1>3, <1>7, <2>2, <2>3, <2>4, Zenon DEF FromSource
  <2>7. \A pid, x : QbResolution(source, g, team, pid, known, x).qb = known.id
    BY DEF QbResolution
  <2>8. chosen.rows # {}
    <3>. SUFFICES ASSUME chosen.rows = {} PROVE FALSE
      OBVIOUS
    <3>1. b = QbUnresolved(source, g, team, "", chosen.status, "")
      BY <2>5
    <3>2. chosen.status \notin Scoreable
      BY <2>2, NobodyStatus
    <3>3. b.status = chosen.status
      BY <3>1 DEF QbUnresolved, QbResolution
    <3>4. b.status \in Scoreable
      BY <1>5, <2>1
    <3>. QED  BY ONLY <3>2, <3>3, <3>4
  <2>9. known.id # ""
    <3>. SUFFICES ASSUME known.id = "" PROVE FALSE
      OBVIOUS
    <3>1. b = QbUnresolved(source, g, team, row.id, known.status, chosen.warning)
      BY <2>5, <2>8
    <3>2. known.status \notin Scoreable
      BY <2>4, IdentityIs
    <3>3. b.status = known.status
      BY <3>1 DEF QbUnresolved, QbResolution
    <3>4. b.status \in Scoreable
      BY <1>5, <2>1
    <3>. QED  BY ONLY <3>2, <3>3, <3>4
  <2>10. side.qb = known.id
    BY <2>1, <2>5, <2>7, <2>8, <2>9
  <2>11. PICK r \in chart : chosen.rows = {r} /\ Stands(chart, r)
    BY <1>2, <2>2, <2>8, ChartIs, ChosenStands
  <2>12. row = r
    BY <2>3, <2>11
  <2>13. Names(r, known.id)
    BY <2>4, <2>9, <2>12, IdentityIs
  <2>14. \E q \in s.pointer.charts[team] : Names(q, known.id) /\ Stands(s.pointer.charts[team], q)
    BY <1>2, <2>11, <2>13, Zenon
  <2>. QED  BY <1>4, <1>5, <1>9, <2>10, <2>14 DEF Warranted
<1>. QED  BY <1>8, <1>9

\* A source that is usable is of an audit that committed, and not too old.
LEMMA SideFresh ==
  ASSUME NEW s, Made(s), NEW g, NEW team, SideOf(s, g, team).freshness \in Usable
  PROVE  s.outcome = "SUCCESS" /\ s.at - s.pointer.at <= StaleAfter
<1>1. PICK source : source = Load(s.pointer, s.outcome, s.at)
  OBVIOUS
<1>2. PICK over : over = s.files.overrides
  OBVIOUS
<1>3. PICK side : side = SideOf(s, g, team)
  OBVIOUS
<1>4. side = ResolveTeam(source, over, g, team)
  BY <1>1, <1>2, <1>3 DEF SideOf
<1>5. PICK b : b = FromSource(source, g, team)
  OBVIOUS
<1>6. DOMAIN b = {"qb", "status", "freshness", "provenance"} /\ b.freshness = source.freshness
  BY <1>5, SourceTells
<1>7. side.freshness = source.freshness
  <2>1. CASE <<g, team>> \in DOMAIN over
    <3>1. PICK o, p : side = [b EXCEPT !.qb = o, !.status = "OVERRIDDEN", !.provenance = p]
      BY <1>4, <1>5, <2>1 DEF ResolveTeam
    <3>. QED  BY <1>6, <3>1
  <2>2. CASE <<g, team>> \notin DOMAIN over
    BY <1>4, <1>5, <1>6, <2>2 DEF ResolveTeam
  <2>. QED  BY <2>1, <2>2
<1>8. LastTick \in Nat /\ StaleAfter \in Nat
  BY WeekAssumption, FootballAssumption
<1>9. PICK t \in Nat : t = s.at
  BY <1>8 DEF Made
<1>10. PICK p \in 0..t : p = s.pointer.at
  BY <1>9 DEF Made, Pointed
<1>11. PICK age \in Nat : age = t - p
  BY <1>9, <1>10
<1>12. age = IF s.at > s.pointer.at THEN s.at - s.pointer.at ELSE 0
  BY <1>9, <1>10, <1>11
<1>13. source.freshness =
         CASE s.outcome \in SourceFailures -> "UNAVAILABLE"
           [] s.outcome \notin SourceFailures /\ 2 * age < StaleAfter -> "FRESH"
           [] s.outcome \notin SourceFailures /\ 2 * age >= StaleAfter /\ age <= StaleAfter -> "AGING"
           [] OTHER -> "STALE"
  <2>1. source = [snapshot |-> s.pointer.id, charts |-> s.pointer.charts,
                  warning |-> IF s.outcome = "SUCCESS" THEN "" ELSE s.outcome,
                  freshness |-> CASE s.outcome \in SourceFailures -> "UNAVAILABLE"
                                  [] s.outcome \notin SourceFailures /\ 2 * age < StaleAfter -> "FRESH"
                                  [] s.outcome \notin SourceFailures /\ 2 * age >= StaleAfter
                                     /\ age <= StaleAfter -> "AGING"
                                  [] OTHER -> "STALE"]
    BY <1>1, <1>12, Zenon DEF Load
  <2>. QED  BY <2>1
<1>14. source.freshness \in {"FRESH", "AGING"}
  BY <1>3, <1>7 DEF Usable
<1>15. s.outcome \notin SourceFailures
  BY <1>13, <1>14
<1>16. age <= StaleAfter
  BY <1>8, <1>13, <1>14, <1>15
<1>17. s.outcome = "SUCCESS"
  BY <1>15 DEF Made, Ended
<1>. QED  BY <1>9, <1>10, <1>11, <1>16, <1>17

\* What the features look back on is over by then.
LEMMA RollIsOver ==
  ASSUME NEW s, Made(s), NEW v \in RollOf(s)
  PROVE  v < s.week /\ Over(v) <= s.at
<1>1. v \in Weeks /\ v < s.week /\ EligibleAt(v) <= s.at
  BY DEF RollOf, PriorWeeks
<1>2. v \in Nat /\ v > 0 /\ Span \in Nat /\ Span >= 2 /\ LastTick \in Nat
  BY <1>1, WeeksAre, FootballAssumption, WeekAssumption
<1>3. PICK r \in Int : r = Rollover(v)
  <2>1. v < v + 1 /\ v + 1 \in Nat
    BY <1>2
  <2>2. Rollover(v) \in Nat
    BY <1>2, <2>1, RolloverGrows
  <2>. QED  BY <2>2
<1>4. PICK t \in Nat : t = s.at
  BY <1>2 DEF Made
<1>5. r + Span - 1 + (IF v \in LateWeeks THEN Span ELSE 0) <= t
  BY <1>1, <1>3, <1>4 DEF EligibleAt
<1>6. Over(v) = r + Span - 1 + (IF v \in LateWeeks THEN 2 ELSE 0)
  BY <1>3 DEF Over
<1>7. Over(v) <= t
  BY <1>2, <1>5, <1>6
<1>. QED  BY <1>1, <1>4, <1>7

-----------------------------------------------------------------------------
\* What a model that needs quarterbacks was given, when it speaks.
SeenBy(out) ==
  IF out.prediction # <<>> THEN out.prediction
  ELSE IF out.scenarios # <<>> THEN out.scenarios["open"] ELSE <<>>

LEMMA SeenIs ==
  ASSUME NEW s, Made(s), NEW g \in DOMAIN s.games, NEW m \in QbModels, SeenBy(s.games[g][m]) # <<>>
  PROVE  /\ QbUsable(HomeOf(s, g), AwayOf(s, g))
         /\ SeenBy(s.games[g][m]).qbs = Starters(HomeOf(s, g), AwayOf(s, g))
         /\ SeenBy(s.games[g][m]).roll = RollOf(s)
<1>1. m \in Models /\ m \in {"qb_elo", "xgboost_v2", "ridge_totals_r4"}
  BY DEF QbModels, Models
<1>2. PICK out : out = s.games[g][m]
  OBVIOUS
<1>3. PICK usable \in BOOLEAN : usable = QbUsable(HomeOf(s, g), AwayOf(s, g))
  BY DEF QbUsable
<1>4. PICK qbs : qbs = Starters(HomeOf(s, g), AwayOf(s, g))
  OBVIOUS
<1>5. PICK roll : roll = RollOf(s)
  OBVIOUS
<1>6. PICK state : state = StateOf(s)
  OBVIOUS
<1>7. PICK cat : cat = RoofOf(s, g).category
  OBVIOUS
<1>8. m # "expected_margin"
  BY <1>1
<1>9. /\ out.prediction # <<>> \/ out.scenarios # <<>> => usable
      /\ out.prediction # <<>> => out.prediction = Predicts(m, state, qbs, roll, cat)
      /\ out.scenarios # <<>> => out.scenarios["open"] = PredictXgb(state, qbs, roll, "open")
  BY <1>1, <1>2, <1>3, <1>4, <1>5, <1>6, <1>7, <1>8, OutputIs
<1>10. PICK seen : seen = SeenBy(out)
  OBVIOUS
<1>11. seen # <<>>
  BY <1>2, <1>10
<1>12. Predicts(m, state, qbs, roll, cat).qbs = qbs /\ Predicts(m, state, qbs, roll, cat).roll = roll
  <2>1. CASE m = "qb_elo"
    <3>1. Predicts(m, state, qbs, roll, cat) = PredictElo(state, qbs, roll)
      BY <2>1 DEF Predicts
    <3>. QED  BY <3>1 DEF PredictElo
  <2>2. CASE m = "ridge_totals_r4"
    <3>1. Predicts(m, state, qbs, roll, cat) = PredictTotals(state, qbs, roll)
      BY <2>2 DEF Predicts
    <3>. QED  BY <3>1 DEF PredictTotals
  <2>3. CASE m = "xgboost_v2"
    <3>1. Predicts(m, state, qbs, roll, cat) = PredictXgb(state, qbs, roll, cat)
      BY <2>3 DEF Predicts
    <3>. QED  BY <3>1 DEF PredictXgb
  <2>. QED  BY <1>1, <2>1, <2>2, <2>3
<1>13. PredictXgb(state, qbs, roll, "open").qbs = qbs /\ PredictXgb(state, qbs, roll, "open").roll = roll
  BY DEF PredictXgb
<1>14. usable /\ seen.qbs = qbs /\ seen.roll = roll
  <2>1. CASE out.prediction # <<>>
    <3>1. seen = out.prediction
      BY <1>10, <2>1 DEF SeenBy
    <3>. QED  BY <1>9, <1>12, <2>1, <3>1
  <2>2. CASE out.prediction = <<>>
    <3>1. out.scenarios # <<>> /\ seen = out.scenarios["open"]
      BY <1>10, <1>11, <2>2 DEF SeenBy
    <3>. QED  BY <1>9, <1>13, <3>1
  <2>. QED  BY <2>1, <2>2
<1>. QED  BY <1>2, <1>3, <1>4, <1>5, <1>10, <1>14

\* What is promised of an output of a snapshot.
OutputWarranted(s, g, m) ==
  LET out == s.games[g][m]
      seen == SeenBy(out)
  IN seen # <<>> =>
       /\ \A n \in QbModels : s.games[g][n].status \notin {"STALE_INPUT", "UNAVAILABLE"}
       /\ s.outcome = "SUCCESS"
       /\ s.at - s.pointer.at <= StaleAfter
       /\ Warranted(s, g, Season[g].home, seen.qbs.home)
       /\ Warranted(s, g, Season[g].away, seen.qbs.away)
       /\ \A v \in seen.roll : v < s.week /\ Over(v) <= s.at
       /\ m = "xgboost_v2" /\ Season[g].structure = "RETRACTABLE"
            /\ out.prediction # <<>> =>
            /\ g \in DOMAIN s.files.roofs
            /\ out.prediction.category
                 = (IF s.files.roofs[g].status = "OPEN" THEN "open" ELSE "closed")

LEMMA OutputsWarranted ==
  ASSUME NEW s, Made(s), NEW g \in DOMAIN s.games, NEW m \in QbModels
  PROVE  OutputWarranted(s, g, m)
<1>1. PICK out : out = s.games[g][m]
  OBVIOUS
<1>2. PICK seen : seen = SeenBy(out)
  OBVIOUS
<1>3. PICK home : home = HomeOf(s, g)
  OBVIOUS
<1>4. PICK away : away = AwayOf(s, g)
  OBVIOUS
<1>. SUFFICES ASSUME seen # <<>>
              PROVE  /\ \A n \in QbModels : s.games[g][n].status \notin {"STALE_INPUT", "UNAVAILABLE"}
                     /\ s.outcome = "SUCCESS"
                     /\ s.at - s.pointer.at <= StaleAfter
                     /\ Warranted(s, g, Season[g].home, seen.qbs.home)
                     /\ Warranted(s, g, Season[g].away, seen.qbs.away)
                     /\ \A v \in seen.roll : v < s.week /\ Over(v) <= s.at
                     /\ m = "xgboost_v2" /\ Season[g].structure = "RETRACTABLE"
                          /\ out.prediction # <<>> =>
                          /\ g \in DOMAIN s.files.roofs
                          /\ out.prediction.category
                               = (IF s.files.roofs[g].status = "OPEN" THEN "open" ELSE "closed")
  BY <1>1, <1>2, Zenon DEF OutputWarranted
<1>5. g \in DOMAIN Season
  BY SnapshotIs DEF WeekGames
<1>6. m \in Models /\ \A n \in QbModels : n \in Models /\ n # "expected_margin"
  BY DEF QbModels, Models
<1>7. /\ QbUsable(home, away) /\ seen.qbs = Starters(home, away) /\ seen.roll = RollOf(s)
  BY <1>1, <1>2, <1>3, <1>4, SeenIs
<1>8. /\ home.status \in Scoreable /\ home.freshness \in Usable
      /\ away.status \in Scoreable /\ away.freshness \in Usable
  BY <1>7, Zenon DEF QbUsable
<1>9. seen.qbs.home = home.qb /\ seen.qbs.away = away.qb
  BY <1>7 DEF Starters
<1>10. \A n \in QbModels : s.games[g][n].status \notin {"STALE_INPUT", "UNAVAILABLE"}
  <2>. SUFFICES ASSUME NEW n \in QbModels PROVE s.games[g][n].status \notin {"STALE_INPUT", "UNAVAILABLE"}
    OBVIOUS
  <2>1. n \in Models /\ n # "expected_margin"
    BY <1>6
  <2>. QED  BY <1>3, <1>4, <1>7, <2>1, OutputIs
<1>11. s.outcome = "SUCCESS" /\ s.at - s.pointer.at <= StaleAfter
  BY <1>3, <1>8, SideFresh DEF HomeOf
<1>12. Warranted(s, g, Season[g].home, seen.qbs.home)
  BY <1>3, <1>5, <1>8, <1>9, SideWarranted DEF HomeOf
<1>13. Warranted(s, g, Season[g].away, seen.qbs.away)
  BY <1>4, <1>5, <1>8, <1>9, SideWarranted DEF AwayOf
<1>14. \A v \in seen.roll : v < s.week /\ Over(v) <= s.at
  BY <1>7, RollIsOver
<1>15. ASSUME m = "xgboost_v2", Season[g].structure = "RETRACTABLE", out.prediction # <<>>
       PROVE  /\ g \in DOMAIN s.files.roofs
              /\ out.prediction.category = (IF s.files.roofs[g].status = "OPEN" THEN "open" ELSE "closed")
  <2>1. PICK roof : roof = RoofOf(s, g)
    OBVIOUS
  <2>2. PICK files : files = s.files.roofs
    OBVIOUS
  <2>3. roof = ResolveRoof(files, g) /\ RoofsKnown(files)
    BY <2>1, <2>2 DEF RoofOf, Made
  <2>4. /\ RoofReported(roof) /\ roof.structure = "RETRACTABLE"
        /\ roof.status # "PENDING" => g \in DOMAIN files /\ roof.status = files[g].status
    BY <1>15, <2>3, RoofIs
  <2>5. roof.status \in {"OPEN", "CLOSED"}
    BY <1>1, <1>6, <1>15, <2>1, <2>4, OutputIs
  <2>6. PICK state, qbs, roll : out.prediction = Predicts(m, state, qbs, roll, roof.category)
    BY <1>1, <1>6, <1>15, <2>1, OutputIs
  <2>7. Predicts(m, state, qbs, roll, roof.category).category = roof.category
    BY <1>15 DEF Predicts, PredictXgb
  <2>8. roof.category = IF roof.status = "OPEN" THEN "open" ELSE "closed"
    BY <2>4, <2>5 DEF RoofReported
  <2>. QED  BY <2>2, <2>4, <2>5, <2>6, <2>7, <2>8
<1>. QED  BY <1>10, <1>11, <1>12, <1>13, <1>14, <1>15

-----------------------------------------------------------------------------
\* Numbers in order: each of them once, and greater ones later.
LEMMA BeforeGrows ==
  ASSUME NEW G, IsFiniteSet(G), G \subseteq Nat, NEW x \in G, NEW y \in G
  PROVE  /\ Cardinality(Before(G, x)) \in Nat /\ Cardinality(Before(G, x)) < Cardinality(G)
         /\ x < y <=> Cardinality(Before(G, x)) < Cardinality(Before(G, y))
<1>1. \A z \in G : z \in Nat
  OBVIOUS
<1>2. \A z \in G : /\ Before(G, z) \subseteq G /\ z \notin Before(G, z)
                   /\ IsFiniteSet(Before(G, z)) /\ Cardinality(Before(G, z)) \in Nat
                   /\ Cardinality(Before(G, z)) < Cardinality(G)
  <2>. SUFFICES ASSUME NEW z \in G
                PROVE  /\ Before(G, z) \subseteq G /\ z \notin Before(G, z)
                       /\ IsFiniteSet(Before(G, z)) /\ Cardinality(Before(G, z)) \in Nat
                       /\ Cardinality(Before(G, z)) < Cardinality(G)
    OBVIOUS
  <2>1. ~(z < z)
    BY <1>1
  <2>2. Before(G, z) \subseteq G /\ z \notin Before(G, z)
    BY <2>1, Zenon DEF Before
  <2>3. /\ IsFiniteSet(Before(G, z)) /\ Cardinality(Before(G, z)) <= Cardinality(G)
        /\ Cardinality(Before(G, z)) = Cardinality(G) => Before(G, z) = G
    BY <2>2, FS_Subset
  <2>4. Cardinality(Before(G, z)) \in Nat /\ Cardinality(G) \in Nat
    BY <2>3, FS_CardinalityType
  <2>. QED  BY <2>2, <2>3, <2>4
<1>3. \A a, b \in G : a < b => Cardinality(Before(G, a)) < Cardinality(Before(G, b))
  <2>. SUFFICES ASSUME NEW a \in G, NEW b \in G, a < b
                PROVE  Cardinality(Before(G, a)) < Cardinality(Before(G, b))
    OBVIOUS
  <2>1. \A z \in G : z < a => z < b
    BY <1>1
  <2>2. Before(G, a) \subseteq Before(G, b) /\ a \in Before(G, b) /\ a \notin Before(G, a)
    BY <1>2, <2>1, Zenon DEF Before
  <2>3. /\ Cardinality(Before(G, a)) <= Cardinality(Before(G, b))
        /\ Cardinality(Before(G, a)) = Cardinality(Before(G, b)) => Before(G, a) = Before(G, b)
    BY <1>2, <2>2, FS_Subset
  <2>. QED  BY <1>2, <2>2, <2>3
<1>4. x < y \/ x = y \/ y < x
  BY <1>1
<1>. QED  BY <1>2, <1>3, <1>4

LEMMA InOrderIs ==
  ASSUME NEW G, IsFiniteSet(G), G \subseteq Nat
  PROVE  /\ Cardinality(G) \in Nat /\ InOrder(G) \in [1..Cardinality(G) -> G]
         /\ \A i, j \in 1..Cardinality(G) : i < j => InOrder(G)[i] < InOrder(G)[j]
         /\ \A g \in G : \E i \in 1..Cardinality(G) : InOrder(G)[i] = g
<1>1. PICK k \in Nat : k = Cardinality(G)
  BY FS_CardinalityType
<1>2. PICK o : o = InOrder(G)
  OBVIOUS
<1>3. InOrder(G) = [i \in 1..Cardinality(G) |-> CHOOSE g \in G : Cardinality(Before(G, g)) = i - 1]
  BY DEF InOrder, Before
<1>4. o = [i \in 1..k |-> CHOOSE g \in G : Cardinality(Before(G, g)) = i - 1]
  BY <1>1, <1>2, <1>3, Zenon
<1>5. \A i \in 1..k : o[i] \in G /\ Cardinality(Before(G, o[i])) = i - 1
  <2>. SUFFICES ASSUME NEW i \in 1..k PROVE o[i] \in G /\ Cardinality(Before(G, o[i])) = i - 1
    OBVIOUS
  <2>1. \E g \in G : Cardinality(Before(G, g)) = i - 1
    BY <1>1, PlaceIsTaken
  <2>2. o[i] = CHOOSE g \in G : Cardinality(Before(G, g)) = i - 1
    BY <1>4, Zenon
  <2>. QED  BY <2>1, <2>2, Zenon
<1>6. o \in [1..k -> G]
  BY <1>4, <1>5
<1>7. \A i, j \in 1..k : i < j => o[i] < o[j]
  <2>. SUFFICES ASSUME NEW i \in 1..k, NEW j \in 1..k, i < j PROVE o[i] < o[j]
    OBVIOUS
  <2>1. Cardinality(Before(G, o[i])) < Cardinality(Before(G, o[j]))
    BY <1>5
  <2>. QED  BY <1>5, <2>1, BeforeGrows
<1>8. \A g \in G : \E i \in 1..k : o[i] = g
  <2>. SUFFICES ASSUME NEW g \in G PROVE \E i \in 1..k : o[i] = g
    OBVIOUS
  <2>1. PICK c \in Nat : c = Cardinality(Before(G, g)) /\ c < k
    BY <1>1, BeforeGrows
  <2>2. PICK i \in 1..k : i - 1 = c
    <3>1. c + 1 \in 1..k /\ (c + 1) - 1 = c
      BY <2>1
    <3>. QED  BY <3>1
  <2>3. Cardinality(Before(G, o[i])) = Cardinality(Before(G, g)) /\ o[i] \in G
    BY <1>5, <2>1, <2>2
  <2>4. ~(o[i] < g) /\ ~(g < o[i])
    <3>1. /\ o[i] < g <=> Cardinality(Before(G, o[i])) < Cardinality(Before(G, g))
          /\ g < o[i] <=> Cardinality(Before(G, g)) < Cardinality(Before(G, o[i]))
      BY <2>3, BeforeGrows
    <3>. QED  BY <2>1, <2>3, <3>1
  <2>5. o[i] \in Nat /\ g \in Nat
    BY <2>3
  <2>. QED  BY <2>4, <2>5
<1>. QED  BY <1>1, <1>2, <1>6, <1>7, <1>8

-----------------------------------------------------------------------------
\* A component has learned the games of S: each of them once, the season's in the order
\* of their weeks.
Holds(rows, S) ==
  /\ GamesIn(rows) = S
  /\ \A i, j \in 1..Len(rows) : i # j => rows[i].game # rows[j].game
  /\ \A i, j \in 1..Len(rows) : i < j /\ rows[i].game \in DOMAIN Season /\ rows[j].game \in DOMAIN Season
                                => Season[rows[i].game].week <= Season[rows[j].game].week

\* Games of one block that are new and not earlier may be learned next.
Follows(G, S) ==
  /\ S \cap G = {}
  /\ \A x \in G \cap DOMAIN Season :
       /\ \A y \in S \cap DOMAIN Season : Season[y].week <= Season[x].week
       /\ \A y \in G \cap DOMAIN Season : Season[y].week = Season[x].week

LEMMA HoldsMore ==
  ASSUME NEW R, NEW rows, rows \in Seq(R), NEW new, new \in Seq(R), NEW S, Holds(rows, S),
         NEW G, IsFiniteSet(G), G \subseteq Nat, Follows(G, S), Len(new) = Cardinality(G),
         \A i \in 1..Len(new) : new[i].game = InOrder(G)[i]
  PROVE  Holds(rows \o new, S \cup G)
<1>1. PICK n \in Nat : n = Len(rows)
  OBVIOUS
<1>2. PICK k \in Nat : k = Len(new)
  OBVIOUS
<1>3. PICK all : all = rows \o new
  OBVIOUS
<1>4. /\ all \in Seq(R) /\ Len(all) = n + k
      /\ \A i \in 1..n : all[i] = rows[i]
      /\ \A i \in 1..k : all[n + i] = new[i]
  <2>1. all \in Seq(R) /\ Len(all) = n + k
    BY <1>1, <1>2, <1>3, ConcatProperties
  <2>2. \A i \in 1..n : all[i] = rows[i]
    BY <1>1, <1>2, <1>3
  <2>3. \A i \in 1..k : all[n + i] = new[i]
    BY <1>1, <1>2, <1>3
  <2>. QED  BY <2>1, <2>2, <2>3
<1>5. PICK o \in [1..k -> G] : o = InOrder(G)
  BY <1>2, InOrderIs
<1>6. /\ \A i, j \in 1..k : i < j => o[i] < o[j]
      /\ \A g \in G : \E i \in 1..k : o[i] = g
  BY <1>2, <1>5, InOrderIs
<1>7. \A i \in 1..k : all[n + i].game = o[i] /\ o[i] \in G
  BY <1>2, <1>4, <1>5
<1>8. \A i \in 1..n : all[i].game = rows[i].game /\ rows[i].game \in S
  <2>1. \A i \in 1..n : rows[i].game \in GamesIn(rows)
    BY <1>1 DEF GamesIn
  <2>. QED  BY <1>4, <2>1 DEF Holds
<1>9. \A i \in 1..(n + k) : i \in 1..n \/ \E j \in 1..k : i = n + j
  <2>. SUFFICES ASSUME NEW i \in 1..(n + k), i \notin 1..n PROVE \E j \in 1..k : i = n + j
    OBVIOUS
  <2>1. i - n \in 1..k /\ i = n + (i - n)
    OBVIOUS
  <2>. QED  BY <2>1
<1>10. GamesIn(all) = S \cup G
  <2>1. DOMAIN all = 1..(n + k) /\ DOMAIN rows = 1..n
    BY <1>1, <1>4
  <2>2. ASSUME NEW x \in GamesIn(all) PROVE x \in S \cup G
    <3>1. PICK i \in 1..(n + k) : x = all[i].game
      BY <2>1 DEF GamesIn
    <3>2. CASE i \in 1..n
      BY <1>8, <3>1, <3>2
    <3>3. CASE \E j \in 1..k : i = n + j
      BY <1>7, <3>1, <3>3
    <3>. QED  BY <1>9, <3>2, <3>3
  <2>3. ASSUME NEW x \in S PROVE x \in GamesIn(all)
    <3>1. PICK i \in 1..n : x = rows[i].game
      BY <2>1 DEF Holds, GamesIn
    <3>2. i \in DOMAIN all /\ x = all[i].game
      BY <1>8, <2>1, <3>1
    <3>. QED  BY <3>2 DEF GamesIn
  <2>4. ASSUME NEW x \in G PROVE x \in GamesIn(all)
    <3>1. PICK i \in 1..k : x = o[i]
      BY <1>6
    <3>2. n + i \in DOMAIN all /\ x = all[n + i].game
      BY <1>7, <2>1, <3>1
    <3>. QED  BY <3>2 DEF GamesIn
  <2>. QED  BY <2>2, <2>3, <2>4
<1>11. \A i, j \in 1..k : i # j => o[i] # o[j]
  <2>. SUFFICES ASSUME NEW i \in 1..k, NEW j \in 1..k, i # j PROVE o[i] # o[j]
    OBVIOUS
  <2>1. o[i] < o[j] \/ o[j] < o[i]
    BY <1>6
  <2>2. o[i] \in Nat /\ o[j] \in Nat
    BY <1>7
  <2>. QED  BY <2>1, <2>2
<1>12. \A i, j \in 1..(n + k) : i # j => all[i].game # all[j].game
  <2>. SUFFICES ASSUME NEW i \in 1..(n + k), NEW j \in 1..(n + k), i # j PROVE all[i].game # all[j].game
    OBVIOUS
  <2>1. CASE i \in 1..n /\ j \in 1..n
    BY <1>1, <1>8, <2>1 DEF Holds
  <2>2. CASE i \in 1..n /\ \E m \in 1..k : j = n + m
    BY <1>7, <1>8, <2>2 DEF Follows
  <2>3. CASE (\E m \in 1..k : i = n + m) /\ j \in 1..n
    BY <1>7, <1>8, <2>3 DEF Follows
  <2>4. CASE (\E m \in 1..k : i = n + m) /\ (\E m \in 1..k : j = n + m)
    <3>1. PICK a \in 1..k : i = n + a
      BY <2>4
    <3>2. PICK b \in 1..k : j = n + b
      BY <2>4
    <3>3. a # b
      BY <3>1, <3>2
    <3>. QED  BY <1>7, <1>11, <3>1, <3>2, <3>3
  <2>. QED  BY <1>9, <2>1, <2>2, <2>3, <2>4
<1>13. \A x \in G \cap DOMAIN Season : Season[x].week \in Nat
  BY FootballAssumption
<1>14. ASSUME NEW i \in 1..(n + k), NEW j \in 1..(n + k), i < j,
              all[i].game \in DOMAIN Season, all[j].game \in DOMAIN Season
       PROVE  Season[all[i].game].week <= Season[all[j].game].week
  <2>1. CASE i \in 1..n /\ j \in 1..n
    BY <1>1, <1>8, <1>14, <2>1 DEF Holds
  <2>2. CASE i \in 1..n /\ \E m \in 1..k : j = n + m
    <3>1. all[i].game \in S \cap DOMAIN Season /\ all[j].game \in G \cap DOMAIN Season
      BY <1>7, <1>8, <1>14, <2>2
    <3>. QED  BY <3>1 DEF Follows
  <2>3. CASE (\E m \in 1..k : i = n + m) /\ j \in 1..n
    BY <1>14, <2>3
  <2>4. CASE (\E m \in 1..k : i = n + m) /\ (\E m \in 1..k : j = n + m)
    <3>1. all[i].game \in G \cap DOMAIN Season /\ all[j].game \in G \cap DOMAIN Season
      BY <1>7, <1>14, <2>4
    <3>2. Season[all[i].game].week = Season[all[j].game].week
      BY <3>1, Zenon DEF Follows
    <3>3. Season[all[i].game].week \in Nat
      BY <1>13, <3>1
    <3>. QED  BY <3>2, <3>3
  <2>. QED  BY <1>9, <2>1, <2>2, <2>3, <2>4
<1>. QED  BY <1>3, <1>4, <1>10, <1>12, <1>14 DEF Holds

-----------------------------------------------------------------------------
\* The states of the models, when the contexts of games are in Ctx; and one whose
\* components have all learned the games of S.
Forecasts == [game: Nat, after: Nat]
Learned(Ctx) == [game: Nat, of: Ctx]
States(Ctx) == [blocks: Seq(Seq(Nat)), oos: Seq(Forecasts), rows: [Components -> Seq(Learned(Ctx))]]
AllHold(state, S) == \A c \in Components : Holds(state.rows[c], S)

LEMMA LearnBlockIs ==
  ASSUME NEW Ctx, NEW state, state \in States(Ctx), NEW block, block \in Seq(Nat),
         NEW G, IsFiniteSet(G), G \subseteq Nat, NEW context, \A g \in G : context[g] \in Ctx
  PROVE  /\ LearnBlock(state, block, G, context) \in States(Ctx)
         /\ \A S : AllHold(state, S) /\ Follows(G, S) => AllHold(LearnBlock(state, block, G, context), S \cup G)
<1>1. PICK k \in Nat : k = Cardinality(G)
  BY FS_CardinalityType
<1>2. PICK o \in [1..k -> G] : o = InOrder(G)
  BY <1>1, InOrderIs
<1>3. \A i \in 1..k : o[i] \in Nat /\ context[o[i]] \in Ctx
  OBVIOUS
<1>4. PICK learned : learned = [i \in 1..k |-> [game |-> o[i], of |-> context[o[i]]]]
  OBVIOUS
<1>5. learned \in Seq(Learned(Ctx)) /\ Len(learned) = k /\ \A i \in 1..k : learned[i].game = o[i]
  BY <1>3, <1>4 DEF Learned
<1>6. state.blocks \in Seq(Seq(Nat)) /\ state.oos \in Seq(Forecasts)
      /\ \A c \in Components : state.rows[c] \in Seq(Learned(Ctx))
  BY DEF States
<1>7. PICK m : m = Len(state.rows["margin"])
  OBVIOUS
<1>8. m \in Nat
  <2>1. "margin" \in Components
    BY DEF Components
  <2>. QED  BY <1>6, <1>7, <2>1
<1>9. PICK predicted : predicted = [i \in 1..k |-> [game |-> o[i], after |-> m]]
  OBVIOUS
<1>10. predicted \in Seq(Forecasts)
  BY <1>3, <1>8, <1>9 DEF Forecasts
<1>11. PICK rows : rows = [c \in Components |-> state.rows[c] \o learned]
  OBVIOUS
<1>12. LearnBlock(state, block, G, context)
         = [blocks |-> Append(state.blocks, block), oos |-> state.oos \o predicted, rows |-> rows]
  BY <1>1, <1>2, <1>4, <1>7, <1>9, <1>11, Zenon DEF LearnBlock
<1>13. PICK next : next = LearnBlock(state, block, G, context)
  OBVIOUS
<1>14. next.blocks = Append(state.blocks, block) /\ next.oos = state.oos \o predicted /\ next.rows = rows
  BY <1>12, <1>13
<1>15. Append(state.blocks, block) \in Seq(Seq(Nat)) /\ state.oos \o predicted \in Seq(Forecasts)
  BY <1>6, <1>10
<1>16. rows \in [Components -> Seq(Learned(Ctx))]
  BY <1>5, <1>6, <1>11
<1>17. next \in States(Ctx)
  BY <1>12, <1>13, <1>15, <1>16 DEF States
<1>18. ASSUME NEW S, AllHold(state, S), Follows(G, S) PROVE AllHold(next, S \cup G)
  <2>. SUFFICES ASSUME NEW c \in Components PROVE Holds(next.rows[c], S \cup G)
    BY DEF AllHold
  <2>1. next.rows[c] = state.rows[c] \o learned
    BY <1>11, <1>14
  <2>2. Holds(state.rows[c], S)
    BY <1>18 DEF AllHold
  <2>3. PICK r : r = state.rows[c]
    OBVIOUS
  <2>4. r \in Seq(Learned(Ctx)) /\ Holds(r, S)
    BY <1>6, <2>2, <2>3
  <2>5. \A i \in 1..Len(learned) : learned[i].game = InOrder(G)[i]
    BY <1>2, <1>5
  <2>6. Holds(r \o learned, S \cup G)
    BY <1>1, <1>5, <1>18, <2>4, <2>5, HoldsMore
  <2>. QED  BY <2>1, <2>3, <2>6
<1>. QED  BY <1>13, <1>17, <1>18

\* Nothing has been learned.
LEMMA NothingIs ==
  ASSUME NEW Ctx
  PROVE  Nothing \in States(Ctx) /\ AllHold(Nothing, {})
<1>1. PICK rows : rows = [c \in Components |-> <<>>]
  OBVIOUS
<1>2. Nothing = [blocks |-> <<>>, oos |-> <<>>, rows |-> rows]
  BY <1>1, Zenon DEF Nothing
<1>3. rows \in [Components -> Seq(Learned(Ctx))]
  BY <1>1
<1>4. <<>> \in Seq(Seq(Nat)) /\ <<>> \in Seq(Forecasts)
  OBVIOUS
<1>5. Nothing \in States(Ctx)
  BY <1>2, <1>3, <1>4 DEF States
<1>6. Nothing.rows = rows
  BY <1>2
<1>7. ASSUME NEW c \in Components PROVE Holds(Nothing.rows[c], {})
  <2>1. Nothing.rows[c] = <<>>
    BY <1>1, <1>6, <1>7
  <2>2. Holds(<<>>, {})
    BY DEF Holds, GamesIn
  <2>. QED  BY <2>1, <2>2
<1>. QED  BY <1>5, <1>7 DEF AllHold

-----------------------------------------------------------------------------
\* The season before: block after block.
PriorUpTo(i) == UNION {ToSet(PriorBlocks[j]) : j \in 1..i}
LearnPrior(state, b) == LearnBlock(state, b, ToSet(b), [g \in ToSet(b) |-> <<>>])
BootedUpTo(g, s) == IF s = {} THEN Nothing ELSE LearnPrior(g[s \ {Max(s)}], PriorBlocks[Max(s)])
Booted == CHOOSE g : g = [s \in SUBSET DOMAIN PriorBlocks |-> BootedUpTo(g, s)]

LEMMA BootstrapIs == Bootstrap = Booted[DOMAIN PriorBlocks]
BY DEF Bootstrap, FoldLeft, MapThenFoldSet, Booted, BootedUpTo, LearnPrior

\* A block is a finite set of games that are none of the season's.
LEMMA BlockIs ==
  ASSUME NEW i \in 1..Len(PriorBlocks)
  PROVE  /\ PriorBlocks[i] \in Seq(Nat) /\ IsFiniteSet(ToSet(PriorBlocks[i])) /\ ToSet(PriorBlocks[i]) \subseteq Nat
         /\ ToSet(PriorBlocks[i]) \cap DOMAIN Season = {}
         /\ PriorUpTo(i - 1) \cap ToSet(PriorBlocks[i]) = {}
         /\ PriorUpTo(i) = PriorUpTo(i - 1) \cup ToSet(PriorBlocks[i])
<1>1. PriorBlocks \in Seq(Seq(Nat)) /\ DOMAIN PriorBlocks = 1..Len(PriorBlocks) /\ Len(PriorBlocks) \in Nat
  BY FootballAssumption
<1>2. PICK b : b = PriorBlocks[i]
  OBVIOUS
<1>3. b \in Seq(Nat)
  BY <1>1, <1>2
<1>4. DOMAIN b = 1..Len(b) /\ Len(b) \in Nat /\ \A j \in DOMAIN b : b[j] \in Nat
  BY <1>3
<1>5. IsFiniteSet(DOMAIN b)
  <2>1. IsFiniteSet(1..Len(b))
    <3>1. PICK n \in Nat : n = Len(b)
      BY <1>4
    <3>2. IsFiniteSet(1..n)
      BY FS_Interval
    <3>. QED  BY <3>1, <3>2
  <2>. QED  BY <1>4, <2>1
<1>6. IsFiniteSet(ToSet(b))
  <2>1. PICK F : F = [j \in DOMAIN b |-> b[j]]
    OBVIOUS
  <2>2. F \in Surjection(DOMAIN b, ToSet(b))
    BY <2>1 DEF Surjection, ToSet
  <2>. QED  BY <1>5, <2>2, FS_Surjection
<1>7. ToSet(b) \subseteq Nat
  BY <1>4 DEF ToSet
<1>8. ToSet(b) \cap DOMAIN Season = {}
  BY <1>1, <1>2, FootballAssumption
<1>9. \A j \in 1..(i - 1) : ToSet(PriorBlocks[j]) \cap ToSet(b) = {}
  <2>. SUFFICES ASSUME NEW j \in 1..(i - 1) PROVE ToSet(PriorBlocks[j]) \cap ToSet(b) = {}
    OBVIOUS
  <2>1. j \in DOMAIN PriorBlocks /\ i \in DOMAIN PriorBlocks /\ i # j
    BY <1>1
  <2>2. ToSet(PriorBlocks[i]) \cap ToSet(PriorBlocks[j]) = {}
    BY <2>1, FootballAssumption
  <2>. QED  BY <1>2, <2>2
<1>10. PriorUpTo(i - 1) \cap ToSet(b) = {}
  BY <1>9, Zenon DEF PriorUpTo
<1>11. \A j : j \in 1..i <=> j \in 1..(i - 1) \/ j = i
  OBVIOUS
<1>12. PriorUpTo(i) = PriorUpTo(i - 1) \cup ToSet(b)
  BY <1>2, <1>11, Zenon DEF PriorUpTo
<1>. QED  BY <1>2, <1>3, <1>6, <1>7, <1>8, <1>10, <1>12

\* A block learned after those before it.
LEMMA PriorLearned ==
  ASSUME NEW Ctx, <<>> \in Ctx, NEW state, state \in States(Ctx), NEW i \in 1..Len(PriorBlocks)
  PROVE  /\ LearnPrior(state, PriorBlocks[i]) \in States(Ctx)
         /\ AllHold(state, PriorUpTo(i - 1)) => AllHold(LearnPrior(state, PriorBlocks[i]), PriorUpTo(i))
<1>1. PICK b : b = PriorBlocks[i]
  OBVIOUS
<1>2. PICK G : G = ToSet(b)
  OBVIOUS
<1>3. /\ b \in Seq(Nat) /\ IsFiniteSet(G) /\ G \subseteq Nat /\ G \cap DOMAIN Season = {}
      /\ PriorUpTo(i - 1) \cap G = {} /\ PriorUpTo(i) = PriorUpTo(i - 1) \cup G
  BY <1>1, <1>2, BlockIs
<1>4. PICK context : context = [g \in G |-> <<>>]
  OBVIOUS
<1>5. \A g \in G : context[g] \in Ctx
  BY <1>4
<1>6. LearnPrior(state, b) = LearnBlock(state, b, G, context)
  BY <1>2, <1>4, Zenon DEF LearnPrior
<1>7. Follows(G, PriorUpTo(i - 1))
  BY <1>3 DEF Follows
<1>8. /\ LearnBlock(state, b, G, context) \in States(Ctx)
      /\ \A S : AllHold(state, S) /\ Follows(G, S) => AllHold(LearnBlock(state, b, G, context), S \cup G)
  BY ONLY state \in States(Ctx), <1>3, <1>5, LearnBlockIs
<1>. QED  BY <1>1, <1>3, <1>6, <1>7, <1>8

\* All of the season before, once.
LEMMA Bootstrapped ==
  ASSUME NEW Ctx, <<>> \in Ctx
  PROVE  Bootstrap \in States(Ctx) /\ AllHold(Bootstrap, PriorUpTo(Len(PriorBlocks)))
<1>1. PICK n \in Nat : n = Len(PriorBlocks) /\ DOMAIN PriorBlocks = 1..n
  BY FootballAssumption
<1>2. PICK A : A = States(Ctx)
  OBVIOUS
<1>3. PICK P : P = [x \in A \X (1..n) |-> LearnPrior(x[1], PriorBlocks[x[2]])]
  OBVIOUS
<1>4. \A a \in A, i \in 1..n : P[<<a, i>>] = LearnPrior(a, PriorBlocks[i]) /\ LearnPrior(a, PriorBlocks[i]) \in A
  <2>1. \A a \in A, i \in 1..n : P[<<a, i>>] = LearnPrior(a, PriorBlocks[i])
    BY <1>3
  <2>2. \A a \in A, i \in 1..n : LearnPrior(a, PriorBlocks[i]) \in A
    BY <1>1, <1>2, PriorLearned
  <2>. QED  BY <2>1, <2>2
<1>5. PICK none \in A : none = Nothing
  BY <1>2, NothingIs
<1>6. PICK g \in [SUBSET (1..n) -> A] : FoldOf(g, n, none, P)
  <2>1. \A a \in A, i \in 1..n : P[<<a, i>>] \in A
    BY <1>4
  <2>. QED  BY ONLY <2>1, none \in A, n \in Nat, FoldsExist
<1>7. \A s \in SUBSET (1..n) : g[s] = BootedUpTo(g, s)
  <2>. SUFFICES ASSUME NEW s \in SUBSET (1..n) PROVE g[s] = BootedUpTo(g, s)
    OBVIOUS
  <2>1. CASE s = {}
    BY <1>5, <1>6, <2>1 DEF FoldOf, BootedUpTo
  <2>2. CASE s # {}
    <3>1. Max(s) \in 1..n /\ s \ {Max(s)} \in SUBSET (1..n)
      BY <2>2, MaxIs
    <3>2. g[s \ {Max(s)}] \in A
      BY <1>6, <3>1
    <3>3. g[s] = P[<<g[s \ {Max(s)}], Max(s)>>]
      BY <1>6, <2>2 DEF FoldOf
    <3>4. g[s] = LearnPrior(g[s \ {Max(s)}], PriorBlocks[Max(s)])
      BY <1>4, <3>1, <3>2, <3>3
    <3>. QED  BY <2>2, <3>4 DEF BootedUpTo
  <2>. QED  BY <2>1, <2>2
<1>8. g = [s \in SUBSET (1..n) |-> BootedUpTo(g, s)]
  BY <1>6, <1>7
<1>9. PICK G : G = Booted
  OBVIOUS
<1>10. G = [s \in SUBSET (1..n) |-> BootedUpTo(G, s)]
  BY <1>1, <1>8, <1>9, Zenon DEF Booted
<1>11. \A s \in SUBSET (1..n) : G[s] = BootedUpTo(G, s)
  BY <1>10
<1>12. G[1..0] = Nothing
  <2>1. 1..0 = {} /\ {} \in SUBSET (1..n)
    OBVIOUS
  <2>. QED  BY <1>11, <2>1 DEF BootedUpTo
<1>13. \A i \in 1..n : G[1..i] = LearnPrior(G[1..(i - 1)], PriorBlocks[i])
  <2>. SUFFICES ASSUME NEW i \in 1..n PROVE G[1..i] = LearnPrior(G[1..(i - 1)], PriorBlocks[i])
    OBVIOUS
  <2>1. 1..i \in SUBSET (1..n) /\ 1..i # {} /\ Max(1..i) = i /\ (1..i) \ {i} = 1..(i - 1)
    BY PlacesUpTo
  <2>2. G[1..i] = BootedUpTo(G, 1..i)
    BY <1>11, <2>1
  <2>. QED  BY <2>1, <2>2 DEF BootedUpTo
<1>. DEFINE Good(i) == G[1..i] \in States(Ctx) /\ AllHold(G[1..i], PriorUpTo(i))
            B == {i \in 0..n : ~Good(i)}
<1>14. Good(0)
  <2>1. PriorUpTo(0) = {}
    BY DEF PriorUpTo
  <2>. QED  BY <1>12, <2>1, NothingIs
<1>15. ASSUME NEW i \in 1..n, Good(i - 1) PROVE Good(i)
  BY <1>1, <1>13, <1>15, PriorLearned
<1>. HIDE DEF Good
<1>16. B = {}
  <2>. SUFFICES ASSUME B # {} PROVE FALSE
    OBVIOUS
  <2>1. PICK i \in B : \A j \in B : i <= j
    <3>1. B \subseteq Nat
      OBVIOUS
    <3>. QED  BY <3>1, LeastElement
  <2>2. i # 0 /\ i \in 0..n
    BY <1>14
  <2>3. i \in 1..n /\ i - 1 \in 0..n /\ i - 1 \notin B
    BY <2>1, <2>2
  <2>. QED  BY <1>15, <2>3
<1>17. Good(n)
  BY <1>16
<1>. QED  BY <1>1, <1>9, <1>17, BootstrapIs DEF Good

-----------------------------------------------------------------------------
\* The contexts in which games are learned: none in the season before, and what the
\* evidence says of those since.
SettledContext(e, g, R) == [qbs |-> ActualStarters(g, e), roll |-> R]
Contexts(e) == {<<>>} \cup {SettledContext(e, p[1], p[2]) : p \in (DOMAIN Season) \X (SUBSET Weeks)}

LEMMA WeekLearned ==
  ASSUME NEW e, NEW state, state \in States(Contexts(e)), NEW w
  PROVE  /\ AdvanceWeek(state, w, e) \in States(Contexts(e)) \/ w \notin Weeks
         /\ \A S : w \in Weeks /\ AllHold(state, S) /\ Follows(WeekGames(w), S)
                     => AllHold(AdvanceWeek(state, w, e), S \cup WeekGames(w))
<1>. SUFFICES ASSUME w \in Weeks
              PROVE  /\ AdvanceWeek(state, w, e) \in States(Contexts(e))
                     /\ \A S : AllHold(state, S) /\ Follows(WeekGames(w), S)
                                 => AllHold(AdvanceWeek(state, w, e), S \cup WeekGames(w))
  OBVIOUS
<1>1. PICK G : G = WeekGames(w)
  OBVIOUS
<1>2. G \subseteq DOMAIN Season
  BY <1>1 DEF WeekGames
<1>3. IsFiniteSet(G) /\ G \subseteq Nat
  BY <1>2, FootballAssumption, FS_Subset
<1>4. PICK R : R = PriorWeeks(w, e.through, Rollover(w) + Span)
  OBVIOUS
<1>5. R \in SUBSET Weeks
  BY <1>4 DEF PriorWeeks
<1>6. PICK context : context = CompletedContext(G, R, e)
  OBVIOUS
<1>7. \A g \in G : context[g] = SettledContext(e, g, R)
  BY <1>6 DEF CompletedContext, SettledContext
<1>8. \A g \in G : SettledContext(e, g, R) \in Contexts(e)
  <2>. SUFFICES ASSUME NEW g \in G PROVE SettledContext(e, g, R) \in Contexts(e)
    OBVIOUS
  <2>1. <<g, R>> \in (DOMAIN Season) \X (SUBSET Weeks)
    BY <1>2, <1>5
  <2>2. <<g, R>>[1] = g /\ <<g, R>>[2] = R
    OBVIOUS
  <2>. QED  BY <2>1, <2>2 DEF Contexts
<1>9. \A g \in G : context[g] \in Contexts(e)
  BY <1>7, <1>8
<1>10. PICK block \in Seq(Nat) : block = <<w>>
  <2>1. w \in Nat
    BY WeeksAre
  <2>2. <<w>> \in Seq(Nat)
    BY <2>1
  <2>. QED  BY <2>2
<1>11. AdvanceWeek(state, w, e) = LearnBlock(state, block, G, context)
  BY <1>1, <1>4, <1>6, <1>10, Zenon DEF AdvanceWeek
<1>12. PICK Ctx : Ctx = Contexts(e)
  OBVIOUS
<1>13. state \in States(Ctx) /\ \A g \in G : context[g] \in Ctx
  BY <1>9, <1>12
<1>14. /\ LearnBlock(state, block, G, context) \in States(Ctx)
       /\ \A S : AllHold(state, S) /\ Follows(G, S) => AllHold(LearnBlock(state, block, G, context), S \cup G)
  BY ONLY <1>3, <1>13, block \in Seq(Nat), LearnBlockIs
<1>. QED  BY <1>1, <1>11, <1>12, <1>14

\* What has been learned with the first of some weeks.
EnteredGames(order, i) ==
  PriorUpTo(Len(PriorBlocks)) \cup {g \in DOMAIN Season : \E j \in 1..i : Season[g].week = order[j]}

LEMMA PriorIsOther == PriorUpTo(Len(PriorBlocks)) \cap DOMAIN Season = {}
<1>1. \A j \in 1..Len(PriorBlocks) : ToSet(PriorBlocks[j]) \cap DOMAIN Season = {}
  BY BlockIs
<1>. QED  BY <1>1, Zenon DEF PriorUpTo

\* The next week in order follows.
LEMMA WeekFollows ==
  ASSUME NEW n \in Nat, NEW order \in [1..n -> Weeks], \A i, j \in 1..n : i < j => order[i] < order[j],
         NEW i \in 1..n
  PROVE  /\ Follows(WeekGames(order[i]), EnteredGames(order, i - 1))
         /\ EnteredGames(order, i) = EnteredGames(order, i - 1) \cup WeekGames(order[i])
<1>1. PICK w \in Weeks : w = order[i]
  OBVIOUS
<1>2. \A j \in 1..(i - 1) : order[j] \in Nat /\ order[j] < w
  <2>. SUFFICES ASSUME NEW j \in 1..(i - 1) PROVE order[j] \in Nat /\ order[j] < w
    OBVIOUS
  <2>1. j \in 1..n /\ j < i
    OBVIOUS
  <2>2. order[j] \in Weeks
    BY <2>1
  <2>. QED  BY <1>1, <2>1, <2>2, WeeksAre
<1>3. PICK S : S = EnteredGames(order, i - 1)
  OBVIOUS
<1>4. PICK G : G = WeekGames(w)
  OBVIOUS
<1>5. \A x \in G : x \in DOMAIN Season /\ Season[x].week = w
  BY <1>4 DEF WeekGames
<1>6. \A y \in S \cap DOMAIN Season : \E j \in 1..(i - 1) : Season[y].week = order[j]
  BY <1>3, PriorIsOther DEF EnteredGames
<1>7. w \in Nat
  BY WeeksAre
<1>8. \A y \in S \cap DOMAIN Season : Season[y].week \in Nat /\ Season[y].week < w
  BY <1>2, <1>6
<1>9. S \cap G = {}
  <2>. SUFFICES ASSUME NEW x \in S \cap G PROVE FALSE
    OBVIOUS
  <2>1. Season[x].week = w /\ Season[x].week < w
    BY <1>5, <1>8
  <2>. QED  BY <1>7, <2>1
<1>10. \A x \in G \cap DOMAIN Season :
         /\ \A y \in S \cap DOMAIN Season : Season[y].week <= Season[x].week
         /\ \A y \in G \cap DOMAIN Season : Season[y].week = Season[x].week
  BY <1>5, <1>7, <1>8
<1>11. Follows(G, S)
  BY <1>9, <1>10 DEF Follows
<1>12. EnteredGames(order, i) = S \cup G
  <2>1. \A j : j \in 1..i <=> j \in 1..(i - 1) \/ j = i
    OBVIOUS
  <2>2. \A g \in DOMAIN Season : (\E j \in 1..i : Season[g].week = order[j])
                                 <=> (\E j \in 1..(i - 1) : Season[g].week = order[j]) \/ Season[g].week = w
    BY <1>1, <2>1, Zenon
  <2>3. \A g : g \in G <=> g \in DOMAIN Season /\ Season[g].week = w
    BY <1>4, Zenon DEF WeekGames
  <2>4. \A g : g \in S <=> \/ g \in PriorUpTo(Len(PriorBlocks))
                           \/ g \in DOMAIN Season /\ \E j \in 1..(i - 1) : Season[g].week = order[j]
    BY <1>3, Zenon DEF EnteredGames
  <2>5. \A g : g \in EnteredGames(order, i)
                 <=> \/ g \in PriorUpTo(Len(PriorBlocks))
                     \/ g \in DOMAIN Season /\ \E j \in 1..i : Season[g].week = order[j]
    BY Zenon DEF EnteredGames
  <2>6. \A g : g \in EnteredGames(order, i) <=> g \in S \/ g \in G
    BY <2>2, <2>3, <2>4, <2>5, Zenon
  <2>. QED  BY <2>6, Zenon
<1>. QED  BY <1>1, <1>3, <1>4, <1>11, <1>12

\* Every settled week, once, after the season before.
LEMMA EnteringLearned ==
  ASSUME NEW w, NEW e
  PROVE  /\ EnteringState(w, e) \in States(Contexts(e))
         /\ AllHold(EnteringState(w, e),
                    PriorUpTo(Len(PriorBlocks)) \cup {g \in DOMAIN Season : Season[g].week \in SettledWeeks(w, e.through)})
<1>1. PICK T : T = SettledWeeks(w, e.through)
  OBVIOUS
<1>2. T \subseteq Weeks
  BY <1>1 DEF SettledWeeks
<1>3. IsFiniteSet(T) /\ T \subseteq Nat
  BY <1>2, WeeksAre, FS_Subset
<1>4. PICK n \in Nat : n = Cardinality(T)
  BY <1>3, FS_CardinalityType
<1>5. PICK order \in [1..n -> T] : order = InOrder(T)
  BY <1>3, <1>4, InOrderIs
<1>6. /\ \A i, j \in 1..n : i < j => order[i] < order[j]
      /\ \A v \in T : \E i \in 1..n : order[i] = v
  BY <1>3, <1>4, <1>5, InOrderIs
<1>7. order \in [1..n -> Weeks] /\ DOMAIN order = 1..n
  BY <1>2
<1>8. PICK A : A = States(Contexts(e))
  OBVIOUS
<1>9. PICK P : P = [x \in A \X (1..n) |-> AdvanceWeek(x[1], order[x[2]], e)]
  OBVIOUS
<1>10. \A a \in A, i \in 1..n : P[<<a, i>>] = AdvanceWeek(a, order[i], e) /\ AdvanceWeek(a, order[i], e) \in A
  <2>1. \A a \in A, i \in 1..n : P[<<a, i>>] = AdvanceWeek(a, order[i], e)
    BY <1>9
  <2>2. \A a \in A, i \in 1..n : AdvanceWeek(a, order[i], e) \in A
    BY <1>7, <1>8, WeekLearned
  <2>. QED  BY <2>1, <2>2
<1>11. PICK boot \in A : boot = Bootstrap /\ AllHold(boot, PriorUpTo(Len(PriorBlocks)))
  <2>1. <<>> \in Contexts(e)
    BY DEF Contexts
  <2>. QED  BY <1>8, <2>1, Bootstrapped
<1>12. PICK g \in [SUBSET (1..n) -> A] : FoldOf(g, n, boot, P)
  <2>1. \A a \in A, i \in 1..n : P[<<a, i>>] \in A
    BY <1>10
  <2>. QED  BY ONLY <2>1, boot \in A, n \in Nat, FoldsExist
<1>13. \A s \in SUBSET (1..n) : g[s] = EnteredUpTo(e, order, g, s)
  <2>. SUFFICES ASSUME NEW s \in SUBSET (1..n) PROVE g[s] = EnteredUpTo(e, order, g, s)
    OBVIOUS
  <2>1. CASE s = {}
    BY <1>11, <1>12, <2>1 DEF FoldOf, EnteredUpTo
  <2>2. CASE s # {}
    <3>1. Max(s) \in 1..n /\ s \ {Max(s)} \in SUBSET (1..n)
      BY <2>2, MaxIs
    <3>2. g[s \ {Max(s)}] \in A
      BY <1>12, <3>1
    <3>3. g[s] = P[<<g[s \ {Max(s)}], Max(s)>>]
      BY <1>12, <2>2 DEF FoldOf
    <3>4. g[s] = AdvanceWeek(g[s \ {Max(s)}], order[Max(s)], e)
      BY <1>10, <3>1, <3>2, <3>3
    <3>. QED  BY <2>2, <3>4 DEF EnteredUpTo
  <2>. QED  BY <2>1, <2>2
<1>14. g = [s \in SUBSET (1..n) |-> EnteredUpTo(e, order, g, s)]
  BY <1>12, <1>13
<1>15. PICK G : G = Entered(e, order)
  OBVIOUS
<1>16. G = [s \in SUBSET (1..n) |-> EnteredUpTo(e, order, G, s)]
  BY <1>7, <1>14, <1>15, Zenon DEF Entered
<1>17. \A s \in SUBSET (1..n) : G[s] = EnteredUpTo(e, order, G, s)
  BY <1>16
<1>18. G[1..0] = boot
  <2>1. 1..0 = {} /\ {} \in SUBSET (1..n)
    OBVIOUS
  <2>. QED  BY <1>11, <1>17, <2>1 DEF EnteredUpTo
<1>19. \A i \in 1..n : G[1..i] = AdvanceWeek(G[1..(i - 1)], order[i], e)
  <2>. SUFFICES ASSUME NEW i \in 1..n PROVE G[1..i] = AdvanceWeek(G[1..(i - 1)], order[i], e)
    OBVIOUS
  <2>1. 1..i \in SUBSET (1..n) /\ 1..i # {} /\ Max(1..i) = i /\ (1..i) \ {i} = 1..(i - 1)
    BY PlacesUpTo
  <2>2. G[1..i] = EnteredUpTo(e, order, G, 1..i)
    BY <1>17, <2>1
  <2>. QED  BY <2>1, <2>2 DEF EnteredUpTo
<1>. DEFINE Good(i) == G[1..i] \in States(Contexts(e)) /\ AllHold(G[1..i], EnteredGames(order, i))
            B == {i \in 0..n : ~Good(i)}
<1>20. Good(0)
  <2>1. EnteredGames(order, 0) = PriorUpTo(Len(PriorBlocks))
    BY DEF EnteredGames
  <2>. QED  BY <1>8, <1>11, <1>18, <2>1
<1>21. ASSUME NEW i \in 1..n, Good(i - 1) PROVE Good(i)
  <2>1. /\ Follows(WeekGames(order[i]), EnteredGames(order, i - 1))
        /\ EnteredGames(order, i) = EnteredGames(order, i - 1) \cup WeekGames(order[i])
    BY <1>6, <1>7, WeekFollows
  <2>2. PICK state \in States(Contexts(e)) : state = G[1..(i - 1)] /\ AllHold(state, EnteredGames(order, i - 1))
    BY <1>21
  <2>3. order[i] \in Weeks
    BY <1>7
  <2>4. /\ AdvanceWeek(state, order[i], e) \in States(Contexts(e))
        /\ AllHold(AdvanceWeek(state, order[i], e), EnteredGames(order, i))
    BY <2>1, <2>2, <2>3, WeekLearned
  <2>. QED  BY <1>19, <2>2, <2>4
<1>. HIDE DEF Good
<1>22. B = {}
  <2>. SUFFICES ASSUME B # {} PROVE FALSE
    OBVIOUS
  <2>1. PICK i \in B : \A j \in B : i <= j
    <3>1. B \subseteq Nat
      OBVIOUS
    <3>. QED  BY <3>1, LeastElement
  <2>2. i # 0 /\ i \in 0..n
    BY <1>20
  <2>3. i \in 1..n /\ i - 1 \in 0..n /\ i - 1 \notin B
    BY <2>1, <2>2
  <2>. QED  BY <1>21, <2>3
<1>23. Good(n)
  BY <1>22
<1>24. EnteringState(w, e) = G[1..n]
  BY <1>1, <1>5, <1>7, <1>15, EnteringIs
<1>25. \A x : (\E j \in 1..n : x = order[j]) <=> x \in T
  BY <1>5, <1>6
<1>26. EnteredGames(order, n)
         = PriorUpTo(Len(PriorBlocks)) \cup {x \in DOMAIN Season : Season[x].week \in T}
  BY <1>25, Zenon DEF EnteredGames
<1>. QED  BY <1>1, <1>23, <1>24, <1>26 DEF Good

-----------------------------------------------------------------------------
\* The state a snapshot was scored with has learned the season before and the weeks before
\* the snapshot's: each component all of it.
LEMMA SnapshotLearned ==
  ASSUME NEW s, Made(s)
  PROVE  \E H : /\ H \cap DOMAIN Season = {g \in DOMAIN Season : Season[g].week < s.week}
                /\ \A c \in Components : /\ Holds(s.state.rows[c], H)
                                         /\ s.state.rows[c] \in Seq(Learned(Contexts(s.evidence)))
<1>1. PICK t \in 0..LastTick : t = s.at /\ s.week = ActiveWeek(t) /\ s.state = EnteringState(s.week, s.evidence)
  BY SnapshotIs DEF StateOf
<1>2. PICK w \in Nat : w = s.week /\ w > 0 /\ w = ActiveWeek(t)
  BY <1>1, ActiveWeekIs
<1>3. PICK e : e = s.evidence
  OBVIOUS
<1>4. w > 1 => e.through = w - 1
  BY <1>1, <1>2, <1>3 DEF Made, UpToDate
<1>5. PICK through : through = e.through
  OBVIOUS
<1>6. \A v \in Weeks : v < w /\ v <= through <=> v < w
  <2>. SUFFICES ASSUME NEW v \in Weeks, v < w PROVE v <= through
    OBVIOUS
  <2>1. v \in Nat /\ v > 0
    BY WeeksAre
  <2>2. w > 1
    BY <1>2, <2>1
  <2>. QED  BY <1>2, <1>4, <1>5, <2>1, <2>2
<1>7. \A v \in Weeks : v \in SettledWeeks(w, through) <=> v < w
  BY <1>6 DEF SettledWeeks
<1>8. \A g \in DOMAIN Season : Season[g].week \in Weeks
  BY DEF Weeks
<1>9. PICK P : P = PriorUpTo(Len(PriorBlocks))
  OBVIOUS
<1>10. PICK D : D = {g \in DOMAIN Season : Season[g].week < w}
  OBVIOUS
<1>11. D = {g \in DOMAIN Season : Season[g].week \in SettledWeeks(w, through)}
  BY <1>7, <1>8, <1>10
<1>12. AllHold(s.state, P \cup D) /\ s.state \in States(Contexts(e))
  BY <1>1, <1>2, <1>3, <1>5, <1>9, <1>11, EnteringLearned
<1>13. (P \cup D) \cap DOMAIN Season = D
  BY <1>9, <1>10, PriorIsOther
<1>14. \A c \in Components : Holds(s.state.rows[c], P \cup D) /\ s.state.rows[c] \in Seq(Learned(Contexts(e)))
  BY <1>12 DEF AllHold, States
<1>15. D = {g \in DOMAIN Season : Season[g].week < s.week}
  BY <1>2, <1>10
<1>. QED  BY <1>3, <1>13, <1>14, <1>15

\* A component that has learned each game once has as many rows as games.
LEMMA RowsAreGames ==
  ASSUME NEW R, NEW rows, rows \in Seq(R), NEW S, Holds(rows, S)
  PROVE  Cardinality(GamesIn(rows)) = Len(rows)
<1>1. PICK n \in Nat : n = Len(rows) /\ DOMAIN rows = 1..n
  OBVIOUS
<1>2. PICK F : F = [i \in 1..n |-> rows[i].game]
  OBVIOUS
<1>3. GamesIn(rows) = {rows[i].game : i \in 1..n}
  BY <1>1 DEF GamesIn
<1>4. F \in [1..n -> GamesIn(rows)]
  BY <1>2, <1>3
<1>5. \A x \in GamesIn(rows) : \E i \in 1..n : F[i] = x
  BY <1>2, <1>3
<1>6. \A i, j \in 1..n : F[i] = F[j] => i = j
  BY <1>1, <1>2 DEF Holds
<1>7. F \in Bijection(1..n, GamesIn(rows))
  BY <1>4, <1>5, <1>6 DEF Bijection, Injection, Surjection, IsInjective
<1>8. IsFiniteSet(1..n) /\ Cardinality(1..n) = n
  BY FS_Interval
<1>9. Cardinality(1..n) = Cardinality(GamesIn(rows))
  BY <1>7, <1>8, FS_Bijection DEF ExistsBijection
<1>. QED  BY <1>1, <1>8, <1>9

\* What is promised of what the models of a snapshot have learned.
LearnedWarranted(s) ==
  /\ GamesIn(s.state.rows["elo"]) \cap DOMAIN Season
       = {g \in DOMAIN Season : Season[g].week < s.week}
  /\ \A c \in Components :
       LET rows == s.state.rows[c]
       IN /\ GamesIn(rows) = GamesIn(s.state.rows["elo"])
          /\ Cardinality(GamesIn(rows)) = Len(rows)
          /\ \A j \in DOMAIN rows : \A i \in 1..(j - 1) :
               {rows[i].game, rows[j].game} \subseteq DOMAIN Season
               => Season[rows[i].game].week <= Season[rows[j].game].week

LEMMA RowsWarranted ==
  ASSUME NEW s, Made(s)
  PROVE  LearnedWarranted(s)
<1>2. PICK H : /\ H \cap DOMAIN Season = {g \in DOMAIN Season : Season[g].week < s.week}
               /\ \A c \in Components : /\ Holds(s.state.rows[c], H)
                                        /\ s.state.rows[c] \in Seq(Learned(Contexts(s.evidence)))
  BY SnapshotLearned
<1>3. "elo" \in Components
  BY DEF Components
<1>4. \A c \in Components : GamesIn(s.state.rows[c]) = H
  BY <1>2 DEF Holds
<1>5. GamesIn(s.state.rows["elo"]) \cap DOMAIN Season = {g \in DOMAIN Season : Season[g].week < s.week}
  BY <1>2, <1>3, <1>4
<1>6. ASSUME NEW c \in Components
      PROVE  /\ GamesIn(s.state.rows[c]) = GamesIn(s.state.rows["elo"])
             /\ Cardinality(GamesIn(s.state.rows[c])) = Len(s.state.rows[c])
             /\ \A j \in DOMAIN s.state.rows[c] : \A i \in 1..(j - 1) :
                  {s.state.rows[c][i].game, s.state.rows[c][j].game} \subseteq DOMAIN Season
                  => Season[s.state.rows[c][i].game].week <= Season[s.state.rows[c][j].game].week
  <2>1. PICK rows : rows = s.state.rows[c] /\ Holds(rows, H) /\ rows \in Seq(Learned(Contexts(s.evidence)))
    BY <1>2
  <2>2. GamesIn(rows) = GamesIn(s.state.rows["elo"])
    BY <1>3, <1>4, <2>1
  <2>3. Cardinality(GamesIn(rows)) = Len(rows)
    BY <2>1, RowsAreGames
  <2>4. ASSUME NEW j \in DOMAIN rows, NEW i \in 1..(j - 1),
               {rows[i].game, rows[j].game} \subseteq DOMAIN Season
        PROVE  Season[rows[i].game].week <= Season[rows[j].game].week
    <3>1. PICK n \in Nat : n = Len(rows) /\ DOMAIN rows = 1..n
      BY <2>1
    <3>2. i \in 1..n /\ j \in 1..n /\ i < j
      BY <3>1
    <3>. QED  BY <2>1, <2>4, <3>1, <3>2 DEF Holds
  <2>. QED  BY <2>1, <2>2, <2>3, <2>4
<1>. QED  BY <1>5, <1>6, Zenon DEF LearnedWarranted

LEMMA InvScored == WeekInv => ScoredIsWarranted
<1>. SUFFICES ASSUME WeekInv, kept # NoSnapshot PROVE ScoredIsWarranted
  BY DEF ScoredIsWarranted
<1>1. Made(kept)
  BY DEF WeekInv, KeptMade
<1>2. LearnedWarranted(kept)
  BY <1>1, RowsWarranted
<1>3. \A g \in DOMAIN kept.games, m \in QbModels : OutputWarranted(kept, g, m)
  BY <1>1, OutputsWarranted
<1>. QED  BY <1>2, <1>3, Zenon DEF ScoredIsWarranted, LearnedWarranted, OutputWarranted, SeenBy

-----------------------------------------------------------------------------
\* Two published predictions of one identity are the same prediction: whatever audit,
\* override, roof, correction or new week came between two runs of score_week, either no
\* model saw it or _prediction_identity differs, but for the statistics of a week that ended
\* on a Tuesday (features_2026.py:262-270).
THEOREM SameInputs == WeekSpec => []SameInputsSamePrediction
<1>1. WeekInit => WeekInv
  BY WeekInvInit
<1>2. WeekInv /\ [WeekNext]_weekVars => WeekInv'
  BY WeekInvNext
<1>3. WeekInv => SameInputsSamePrediction
  BY InvSameInputs
<1>. QED  BY <1>1, <1>2, <1>3, PTL DEF WeekSpec

\* What score_week publishes rests on what it may rest on: every earlier game, once, in order,
\* and none of the week's; and of a model that needs quarterbacks, on the two starters that
\* the operator or a fresh, unambiguous chart names, on weeks that are over and on a roof that
\* somebody reported.
THEOREM ScoredWarranted == WeekSpec => []ScoredIsWarranted
<1>1. WeekInit => WeekInv
  BY WeekInvInit
<1>2. WeekInv /\ [WeekNext]_weekVars => WeekInv'
  BY WeekInvNext
<1>3. WeekInv => ScoredIsWarranted
  BY InvScored
<1>. QED  BY <1>1, <1>2, <1>3, PTL DEF WeekSpec


-----------------------------------------------------------------------------
\* Orders.  Nothing of a finite set comes before one of its elements.
LEMMA Undominated ==
  ASSUME NEW S, IsFiniteSet(S), S # {}, NEW R,
         \A x \in S : <<x, x>> \notin R,
         \A x, y, z \in S : <<x, y>> \in R /\ <<y, z>> \in R => <<x, z>> \in R
  PROVE  \E x \in S : \A y \in S : <<y, x>> \notin R
<1> DEFINE Under(x) == {y \in S : <<y, x>> \in R}
           Counts == {Cardinality(Under(x)) : x \in S}
<1>1. ASSUME NEW x \in S  PROVE IsFiniteSet(Under(x)) /\ Cardinality(Under(x)) \in Nat
  <2>1. Under(x) \in SUBSET S
    OBVIOUS
  <2> HIDE DEF Under
  <2>2. IsFiniteSet(Under(x))
    BY <2>1, FS_Subset
  <2>. QED  BY <2>2, FS_CardinalityType
<1>2. PICK c \in Counts : \A d \in Counts : c <= d
  <2>0. \A x \in S : Cardinality(Under(x)) \in Nat
    BY <1>1
  <2> HIDE DEF Under
  <2>1. Counts \subseteq Nat
    BY <2>0
  <2>2. Counts # {}
    <3>1. PICK x \in S : TRUE
      OBVIOUS
    <3>2. Cardinality(Under(x)) \in Counts
      OBVIOUS
    <3>. QED  BY <3>2
  <2> HIDE DEF Counts
  <2>. QED  BY <2>1, <2>2, LeastElement
<1>3. PICK x \in S : c = Cardinality(Under(x))
  OBVIOUS
<1>4. ASSUME NEW y \in S, <<y, x>> \in R  PROVE FALSE
  <2>1. Under(y) \in SUBSET Under(x) /\ Under(y) # Under(x)
    BY <1>4
  <2>2. Cardinality(Under(y)) < Cardinality(Under(x))
    <3>1. IsFiniteSet(Under(x)) /\ Cardinality(Under(x)) \in Nat /\ Cardinality(Under(y)) \in Nat
      BY <1>1
    <3> HIDE DEF Under
    <3>2. /\ Cardinality(Under(y)) <= Cardinality(Under(x))
          /\ Cardinality(Under(y)) = Cardinality(Under(x)) => Under(y) = Under(x)
      BY <2>1, <3>1, FS_Subset
    <3>. QED  BY <2>1, <3>1, <3>2
  <2>3. Cardinality(Under(y)) \in Counts
    OBVIOUS
  <2>4. Cardinality(Under(x)) <= Cardinality(Under(y))
    BY <1>2, <1>3, <2>3
  <2>. QED  BY ONLY <1>1, <2>2, <2>4
<1>. QED  BY <1>4

Numbers(s, n) == DOMAIN s = 1..n /\ \A i \in 1..n : s[i] \in Int

\* Tuples of numbers of one length are in an order.
LEMMA AheadOrders ==
  ASSUME NEW n \in Nat \ {0}, NEW s, NEW t, NEW u, Numbers(s, n), Numbers(t, n), Numbers(u, n)
  PROVE  /\ ~Ahead(s, s)
         /\ Ahead(s, t) /\ Ahead(t, u) => Ahead(s, u)
         /\ s[n] # t[n] => Ahead(s, t) \/ Ahead(t, s)
<1>1. ~Ahead(s, s)
  BY DEF Ahead, Numbers
<1>2. ASSUME Ahead(s, t), Ahead(t, u)  PROVE Ahead(s, u)
  <2>1. PICK i \in 1..n : s[i] < t[i] /\ \A k \in 1 .. i - 1 : s[k] = t[k]
    BY <1>2 DEF Ahead, Numbers
  <2>2. PICK j \in 1..n : t[j] < u[j] /\ \A k \in 1 .. j - 1 : t[k] = u[k]
    BY <1>2 DEF Ahead, Numbers
  <2>3. CASE i <= j
    <3>1. s[i] < u[i]
      <4>1. CASE i = j
        BY <2>1, <2>2, <4>1 DEF Numbers
      <4>2. CASE i < j
        <5>1. t[i] = u[i]
          BY <2>2, <4>2
        <5>. QED  BY <2>1, <5>1
      <4>. QED  BY <2>3, <4>1, <4>2
    <3>2. \A k \in 1 .. i - 1 : s[k] = u[k]
      <4>1. \A k \in 1 .. i - 1 : k \in 1 .. j - 1
        BY <2>3
      <4>. QED  BY <2>1, <2>2, <4>1
    <3>. QED  BY <3>1, <3>2 DEF Ahead, Numbers
  <2>4. CASE j < i
    <3>1. s[j] < u[j]
      <4>1. s[j] = t[j]
        BY <2>1, <2>4
      <4>. QED  BY <2>2, <4>1
    <3>2. \A k \in 1 .. j - 1 : s[k] = u[k]
      <4>1. \A k \in 1 .. j - 1 : k \in 1 .. i - 1
        BY <2>4
      <4>. QED  BY <2>1, <2>2, <4>1
    <3>. QED  BY <3>1, <3>2 DEF Ahead, Numbers
  <2>. QED  BY <2>3, <2>4
<1>3. ASSUME s[n] # t[n]  PROVE Ahead(s, t) \/ Ahead(t, s)
  <2> DEFINE Differ == {i \in 1..n : s[i] # t[i]}
  <2>1. PICK i \in Differ : \A j \in Differ : i <= j
    <3>1. Differ # {} /\ Differ \subseteq Nat
      BY <1>3
    <3>. QED  BY <3>1, LeastElement
  <2>2. \A k \in 1 .. i - 1 : s[k] = t[k] /\ t[k] = s[k]
    <3>1. \A k \in 1 .. i - 1 : k \in 1..n /\ ~(i <= k)
      OBVIOUS
    <3>. QED  BY <2>1, <3>1
  <2>3. s[i] \in Int /\ t[i] \in Int /\ s[i] # t[i] /\ i \in 1..n
    BY DEF Numbers
  <2>4. s[i] < t[i] \/ t[i] < s[i]
    BY <2>3
  <2>. QED  BY <2>2, <2>3, <2>4 DEF Ahead, Numbers
<1>. QED  BY <1>1, <1>2, <1>3

\* Of finitely many things that have such tuples, which differ in the last number,
\* one comes before every other.
LEMMA OneIsFirst ==
  ASSUME NEW S, IsFiniteSet(S), S # {}, NEW n \in Nat \ {0}, NEW k,
         \A x \in S : Numbers(k[x], n),
         \A x, y \in S : x # y => k[x][n] # k[y][n]
  PROVE  \E x \in S : \A y \in S \ {x} : Ahead(k[x], k[y])
<1> DEFINE R == {p \in S \X S : Ahead(k[p[1]], k[p[2]])}
<1>1. \A x, y \in S : <<x, y>> \in R <=> Ahead(k[x], k[y])
  OBVIOUS
<1>2. \A x \in S : ~Ahead(k[x], k[x])
  BY AheadOrders
<1>3. ASSUME NEW x \in S, NEW y \in S, NEW z \in S, Ahead(k[x], k[y]), Ahead(k[y], k[z])
      PROVE  Ahead(k[x], k[z])
  BY <1>3, AheadOrders
<1> HIDE DEF R
<1>4. PICK x \in S : \A y \in S : <<y, x>> \notin R
  <2>1. \A x \in S : <<x, x>> \notin R
    BY <1>1, <1>2
  <2>2. \A x, y, z \in S : <<x, y>> \in R /\ <<y, z>> \in R => <<x, z>> \in R
    BY <1>1, <1>3
  <2>. QED  BY <2>1, <2>2, Undominated
<1>5. ASSUME NEW y \in S \ {x}  PROVE Ahead(k[x], k[y])
  <2>1. ~Ahead(k[y], k[x])
    BY <1>1, <1>4
  <2>2. k[x][n] # k[y][n]
    OBVIOUS
  <2>. QED  BY <2>1, <2>2, AheadOrders
<1>. QED  BY <1>5

\* The greatest and the least of two numbers, and of a finite set of them.
LEMMA MaxOfTwo ==
  ASSUME NEW a \in Int, NEW b \in Int
  PROVE  Max({a, b}) = IF a >= b THEN a ELSE b
<1> DEFINE m == IF a >= b THEN a ELSE b
<1>1. m \in {a, b} /\ \A y \in {a, b} : m >= y
  OBVIOUS
<1> HIDE DEF m
<1>2. Max({a, b}) \in {a, b} /\ \A y \in {a, b} : Max({a, b}) >= y
  BY <1>1, Zenon DEF Max
<1>. QED  BY <1>2 DEF m

LEMMA MinOfTwo ==
  ASSUME NEW a \in Int, NEW b \in Int
  PROVE  Min({a, b}) = IF a <= b THEN a ELSE b
<1> DEFINE m == IF a <= b THEN a ELSE b
<1>1. m \in {a, b} /\ \A y \in {a, b} : m =< y
  OBVIOUS
<1> HIDE DEF m
<1>2. Min({a, b}) \in {a, b} /\ \A y \in {a, b} : Min({a, b}) =< y
  BY <1>1, Zenon DEF Min
<1>. QED  BY <1>2 DEF m

LEMMA GreatestOfSome ==
  ASSUME NEW S, IsFiniteSet(S), S # {}, S \subseteq Int
  PROVE  Max(S) \in S /\ \A y \in S : Max(S) >= y
<1> DEFINE R == {p \in S \X S : p[1] > p[2]}
<1>1. \A x, y \in S : <<x, y>> \in R <=> x > y
  OBVIOUS
<1>2. \A x \in S : ~(x > x)
  OBVIOUS
<1>3. \A x, y, z \in S : x > y /\ y > z => x > z
  OBVIOUS
<1> HIDE DEF R
<1>4. PICK x \in S : \A y \in S : <<y, x>> \notin R
  BY <1>1, <1>2, <1>3, Undominated
<1>5. \A y \in S : x >= y
  <2>1. \A y \in S : ~(y > x)
    BY <1>1, <1>4, Zenon
  <2>. QED  BY <2>1
<1>. QED  BY <1>5, Zenon DEF Max

-----------------------------------------------------------------------------
\* Prices.
Price == {a \in Int : a <= -100 \/ a >= 100}

LEMMA Divided ==
  ASSUME NEW m \in Int, NEW d \in Nat \ {0}
  PROVE  m \div d \in Int /\ d * (m \div d) <= m /\ m < d * (m \div d) + d
OBVIOUS

LEMMA StakesAre ==
  ASSUME NEW a \in Price
  PROVE  /\ Risk(a) \in Nat /\ Risk(a) >= 100
         /\ Gain(a) \in Nat /\ Gain(a) >= 100
BY DEF Price, Risk, Gain

\* A likelier wager is worth more at the same price.
LEMMA LikelierIsWorthMore ==
  ASSUME NEW a \in Price, NEW p \in Int, NEW q \in Int, p <= q
  PROVE  Worth(p, a) \in Int /\ Worth(q, a) \in Int /\ Worth(p, a) <= Worth(q, a)
<1> DEFINE w == Risk(a) + Gain(a)
<1>1. w \in Nat /\ Risk(a) \in Nat
  BY StakesAre
<1>2. One * Risk(a) \in Int
  BY <1>1 DEF One
<1> HIDE DEF w
<1>3. p * w <= q * w /\ p * w \in Int /\ q * w \in Int
  BY <1>1
<1>4. Worth(p, a) = p * w - One * Risk(a) /\ Worth(q, a) = q * w - One * Risk(a)
  BY DEF Worth, w
<1>. QED  BY <1>2, <1>3, <1>4

\* The boundary is a price that exists, the probability covers it and covers no
\* worse one.
LEMMA ThresholdIs ==
  ASSUME NEW p \in Nat, 0 < p, p <= 9900
  PROVE  /\ Threshold(p) \in Price
         /\ NextWorse(Threshold(p)) \in Price
         /\ Worth(p, Threshold(p)) >= 0
         /\ Worth(p, NextWorse(Threshold(p))) < 0
         /\ Threshold(p) = -100 => 2 * p > One
<1>1. CASE 2 * p <= One
  <2> DEFINE n == 100 * (One - p)
             t == CeilDiv(n, p)
  <2>1. Threshold(p) = t
    BY <1>1 DEF Threshold
  <2>2. n \in Nat /\ n = 1000000 - 100 * p /\ n >= 100 * p
    BY <1>1 DEF One
  <2> HIDE DEF n
  <2>3. t \in Int /\ p * t >= n /\ p * t < n + p
    <3> DEFINE d == (-n) \div p
    <3>1. d \in Int /\ p * d <= -n /\ -n < p * d + p
      BY <2>2, Divided
    <3>2. t = -d
      BY DEF CeilDiv
    <3> HIDE DEF d, t
    <3>. QED  BY <2>2, <3>1, <3>2
  <2> HIDE DEF t
  <2>4. t >= 100
    <3>1. p * t >= p * 100
      BY <2>2, <2>3
    <3>. QED  BY <2>3, <3>1
  <2>5. Worth(p, t) >= 0
    <3>1. Risk(t) = 100 /\ Gain(t) = t
      BY <2>4, <2>3 DEF Risk, Gain
    <3>2. p * (100 + t) = 100 * p + p * t
      BY <2>3
    <3>. QED  BY <2>2, <2>3, <3>1, <3>2 DEF Worth, One
  <2>6. NextWorse(t) \in Price /\ Worth(p, NextWorse(t)) < 0
    <3>1. CASE t = 100
      <4>1. NextWorse(t) = -101
        BY <3>1 DEF NextWorse
      <4>. QED  BY <1>1, <4>1 DEF Price, Worth, Risk, Gain, One
    <3>2. CASE t # 100
      <4>1. NextWorse(t) = t - 1 /\ t - 1 >= 100
        BY <2>3, <2>4, <3>2 DEF NextWorse
      <4>2. Risk(t - 1) = 100 /\ Gain(t - 1) = t - 1
        BY <2>3, <4>1 DEF Risk, Gain
      <4>3. p * (100 + (t - 1)) = 100 * p + p * t - p
        BY <2>3
      <4>. QED  BY <2>2, <2>3, <4>1, <4>2, <4>3 DEF Worth, One, Price
    <3>. QED  BY <3>1, <3>2
  <2>. QED  BY <2>1, <2>3, <2>4, <2>5, <2>6 DEF Price
<1>2. CASE 2 * p > One
  <2> DEFINE n == 100 * p
             c == One - p
             k == n \div c
  <2>1. Threshold(p) = -k
    BY <1>2 DEF Threshold, One
  <2>2. n \in Nat /\ c \in Nat \ {0} /\ c = 10000 - p /\ n = 100 * p /\ n >= 100 * c
    BY <1>2 DEF One
  <2>3. k \in Int /\ c * k <= n /\ n < c * k + c
    <3>1. n \in Int /\ c \in Nat \ {0}
      BY <2>2
    <3> HIDE DEF n, c
    <3>. QED  BY ONLY <3>1, Divided
  <2> HIDE DEF n, c, k
  <2>4. k >= 100
    <3>1. c * 100 < c * k + c
      BY <2>2, <2>3
    <3>2. c * 100 < c * (k + 1)
      BY <2>2, <2>3, <3>1
    <3>3. 100 < k + 1
      BY <2>2, <2>3, <3>2
    <3>. QED  BY <2>3, <3>3
  <2>5. ASSUME NEW j \in Nat, j >= 100
        PROVE  -j \in Price /\ Worth(p, -j) = n - c * j
    <3>1. Risk(-j) = j /\ Gain(-j) = 100
      BY <2>5 DEF Risk, Gain
    <3>2. p * (j + 100) = p * j + 100 * p /\ c * j = 10000 * j - p * j
      BY <2>2
    <3>. QED  BY <2>2, <2>5, <3>1, <3>2 DEF Worth, One, Price
  <2>6. -k \in Price /\ Worth(p, -k) >= 0
    BY <2>2, <2>3, <2>4, <2>5
  <2>7. NextWorse(-k) = -(k + 1)
    BY <2>3, <2>4 DEF NextWorse
  <2>8. -(k + 1) \in Price /\ Worth(p, -(k + 1)) < 0
    <3>1. c * (k + 1) = c * k + c
      BY <2>2, <2>3
    <3>2. -(k + 1) \in Price /\ Worth(p, -(k + 1)) = n - c * (k + 1)
      BY <2>3, <2>4, <2>5
    <3>. QED  BY <2>2, <2>3, <3>1, <3>2
  <2>. QED  BY <1>2, <2>1, <2>6, <2>7, <2>8
<1>. QED  BY <1>1, <1>2 DEF One

\* A price that just pays pays more when it is one better.
LEMMA BetterPays ==
  ASSUME NEW q \in Nat, 0 < q, q < One, NEW a \in Price, Worth(q, a) = 0, a = -100 => 2 * q > One
  PROVE  NextBetter(a) \in Price /\ Worth(q, NextBetter(a)) > 0
<1>1. CASE a >= 100
  <2>1. NextBetter(a) = a + 1
    BY <1>1 DEF NextBetter
  <2>2. Risk(a) = 100 /\ Gain(a) = a /\ Risk(a + 1) = 100 /\ Gain(a + 1) = a + 1
    BY <1>1 DEF Risk, Gain, Price
  <2>3. q * (100 + (a + 1)) = q * (100 + a) + q /\ q * (100 + a) \in Int
    BY DEF Price
  <2>. QED  BY <1>1, <2>1, <2>2, <2>3 DEF Worth, One, Price
<1>2. CASE a <= -100
  <2>1. a # -100
    BY DEF Worth, Risk, Gain, One
  <2>2. NextBetter(a) = a + 1 /\ a + 1 <= -100
    BY <1>2, <2>1 DEF NextBetter, Price
  <2>3. Risk(a) = -a /\ Gain(a) = 100 /\ Risk(a + 1) = -(a + 1) /\ Gain(a + 1) = 100
    BY <1>2, <2>2 DEF Risk, Gain, Price
  <2>4. q * (-(a + 1) + 100) = q * (-a + 100) - q /\ q * (-a + 100) \in Int
    BY DEF Price
  <2>. QED  BY <2>2, <2>3, <2>4 DEF Worth, One, Price
<1>. QED  BY <1>1, <1>2 DEF Price

\* What a probability at which a price breaks even is, within the prices of a
\* response.
LEMMA BreakEvenIs ==
  ASSUME NEW a \in Price
  PROVE  BreakEven(a) \in Nat /\ (Abs(a) <= 100000 => BreakEven(a) > 0)
<1> DEFINE r == Risk(a)
           w == Risk(a) + Gain(a)
<1>1. r \in Nat /\ w \in Nat \ {0} /\ r >= 100
  BY StakesAre
<1>2. Abs(a) <= 100000 => w <= 10000 * r
  <2>1. CASE a < 0
    BY <2>1 DEF Risk, Gain, Price, Abs
  <2>2. CASE a >= 0
    BY <2>2 DEF Risk, Gain, Price, Abs
  <2>. QED  BY <2>1, <2>2 DEF Price
<1> DEFINE b == (10000 * r) \div w
<1>3. BreakEven(a) = b
  BY DEF BreakEven, One
<1> HIDE DEF r, w
<1>4. b \in Int /\ w * b <= 10000 * r /\ 10000 * r < w * b + w
  BY <1>1, Divided
<1> HIDE DEF b
<1>5. b >= 0
  <2>1. w * (b + 1) > 0
    BY <1>1, <1>4
  <2>2. b + 1 > 0
    BY <1>1, <1>4, <2>1
  <2>. QED  BY <1>4, <2>2
<1>6. w <= 10000 * r => b > 0
  <2>1. b = 0 => 10000 * r < w
    BY <1>1, <1>4
  <2>. QED  BY <1>1, <1>4, <1>5, <2>1
<1>. QED  BY <1>2, <1>3, <1>4, <1>5, <1>6

-----------------------------------------------------------------------------
\* Probabilities.
Probability == {p \in Nat : 0 < p /\ p < One}

LEMMA ClampIs ==
  ASSUME NEW p \in Int
  PROVE  Clamp(p) \in Probability
<1> DEFINE m == Min({One - 1, p})
<1>1. m = IF 9999 <= p THEN 9999 ELSE p
  BY MinOfTwo DEF One
<1>2. m \in Int /\ m <= 9999
  BY <1>1
<1> HIDE DEF m
<1>3. Max({1, m}) = IF 1 >= m THEN 1 ELSE m
  BY <1>2, MaxOfTwo
<1>4. Clamp(p) = Max({1, m})
  BY DEF Clamp, m
<1>. QED  BY <1>2, <1>3, <1>4 DEF Probability, One

LEMMA OtherSide ==
  ASSUME NEW p \in Probability
  PROVE  One - p \in Probability
BY DEF Probability, One

LEMMA OfSideIs ==
  ASSUME NEW p \in Probability, NEW side
  PROVE  OfSide(p, side) \in Probability
BY OtherSide DEF OfSide

LEMMA ConcessionIs ==
  ASSUME NEW tier, NEW radius \in Int
  PROVE  Concession(tier, radius) \in Nat
<1> DEFINE h == Haircut(tier)
           d == IF radius < 0 THEN 0 ELSE 1000 - Min({1000, radius})
<1>1. h \in Nat
  BY DEF Haircut
<1>2. d \in Nat
  <2>1. Min({1000, radius}) = IF 1000 <= radius THEN 1000 ELSE radius
    BY MinOfTwo
  <2>. QED  BY <2>1
<1>3. Concession(tier, radius) = (150 * h * d) \div 100000
  BY DEF Concession
<1> HIDE DEF h, d
<1>4. h * d \in Nat /\ 150 * h * d = 150 * (h * d)
  BY <1>1, <1>2
<1>. QED  BY <1>3, <1>4

LEMMA PlayableIs ==
  ASSUME NEW e, e.q \in Probability, NEW state, state.radius \in Int
  PROVE  LET p == PlayableTo(e, state)
         IN p \in Nat /\ 0 < p /\ p <= 9900 /\ (e.q <= 9900 => e.q <= p)
<1> DEFINE c == Concession(e.tier, state.radius)
<1>1. c \in Nat
  BY ConcessionIs
<1> HIDE DEF c
<1>2. Min({9900, e.q + c}) = IF 9900 <= e.q + c THEN 9900 ELSE e.q + c
  BY <1>1, MinOfTwo DEF Probability
<1>3. PlayableTo(e, state) = Min({9900, e.q + c})
  BY DEF PlayableTo, c
<1>. QED  BY <1>1, <1>2, <1>3 DEF Probability

\* What a supported offer is played down to is bet or played there, and nowhere
\* worse.
LEMMA BoundaryHolds ==
  ASSUME NEW e, e.supported, e.q \in Probability, NEW state, state.radius \in Int
  PROVE  LET b == Threshold(PlayableTo(e, state))
         IN /\ Status(e, state, b) \in {"VALUE", "PLAYABLE"}
            /\ e.q <= 9900 => Status(e, state, NextWorse(b)) \notin {"VALUE", "PLAYABLE"}
<1> DEFINE p == PlayableTo(e, state)
           b == Threshold(p)
           w == NextWorse(b)
<1>1. p \in Nat /\ 0 < p /\ p <= 9900 /\ (e.q <= 9900 => e.q <= p)
  BY PlayableIs
<1>2. b \in Price /\ w \in Price /\ Worth(p, b) >= 0 /\ Worth(p, w) < 0
  <2> HIDE DEF p
  <2>. QED  BY <1>1, ThresholdIs
<1> HIDE DEF b, w
<1>3. Status(e, state, b) \in {"VALUE", "PLAYABLE"}
  <2>1. BreaksEvenAt(b, p)
    BY <1>2 DEF BreaksEvenAt
  <2>. QED  BY <2>1 DEF Status
<1>4. e.q <= 9900 => Status(e, state, w) \notin {"VALUE", "PLAYABLE"}
  <2>1. SUFFICES ASSUME e.q <= p
                 PROVE  Status(e, state, w) \notin {"VALUE", "PLAYABLE"}
    BY <1>1
  <2>2. Worth(e.q, w) \in Int /\ Worth(p, w) \in Int /\ Worth(e.q, w) <= Worth(p, w)
    <3>1. e.q \in Int /\ p \in Int
      BY <1>1 DEF Probability
    <3>. HIDE DEF p
    <3>. QED  BY <1>2, <2>1, <3>1, LikelierIsWorthMore
  <2>3. ~(Worth(e.q, w) > 0) /\ ~BreaksEvenAt(w, p)
    BY <1>2, <2>2 DEF BreaksEvenAt
  <2>. QED  BY <2>3 DEF Status
<1>. QED  BY <1>3, <1>4 DEF b, w

LEMMA StatusIs ==
  ASSUME NEW e, NEW state, NEW a
  PROVE  /\ Status(e, state, a) = "VALUE" => Worth(e.q, a) > 0
         /\ Status(e, state, a) = "LEAN" => Units(e, state, a) = 0
<1>1. Status(e, state, a) = "VALUE" => Worth(e.q, a) > 0
  BY DEF Status
<1>2. Status(e, state, a) = "LEAN" => Units(e, state, a) = 0
  <2> DEFINE s == Status(e, state, a)
  <2>1. SUFFICES ASSUME s = "LEAN"  PROVE Units(e, state, a) = 0
    OBVIOUS
  <2>2. s \in {"LEAN", "UNSUPPORTED"}
    BY <2>1
  <2> HIDE DEF s
  <2>. QED  BY <2>2 DEF Units, s
<1>. QED  BY <1>1, <1>2

-----------------------------------------------------------------------------
\* The evaluators.
AnchorKnown(a) == a = No \/ (a.threshold \in Int /\ a.above \in Int)
EvalKnown(e) == e.supported \in BOOLEAN /\ e.q \in Int /\ (e.supported => e.q \in Probability)

LEMMA OutputsKnown ==
  ASSUME NEW g \in Schedule
  PROVE  LET f == Outputs(g.id)
         IN /\ f.qb \in Int /\ f.xgb \in Int /\ f.margin \in Int /\ f.total \in Int
            /\ ModelCategory(Football[g.id].roof) = "pending" => f.xgb = Absent
<1> DEFINE f == Football[g.id]
           category == ModelCategory(f.roof)
           x == IF category = "pending" THEN Absent ELSE f.xgb[category]
<1>1. /\ {"qb", "xgb", "margin", "total"} \subseteq DOMAIN f
      /\ f.qb \in Int /\ f.margin \in Int /\ f.total \in Int
      /\ category # "pending" => f.xgb[category] \in Int
  BY BoardAssumption
<1>2. Outputs(g.id) = [f EXCEPT !.xgb = x]
  BY DEF Outputs
<1>3. x \in Int /\ (category = "pending" => x = Absent)
  BY <1>1 DEF Absent
<1> HIDE DEF f, category, x
<1>4. LET o == [f EXCEPT !.xgb = x] IN o.qb = f.qb /\ o.xgb = x /\ o.margin = f.margin /\ o.total = f.total
  BY <1>1
<1>. QED  BY <1>1, <1>2, <1>3, <1>4 DEF category, f

LEMMA FinishIs ==
  ASSUME NEW q \in Probability, NEW d, NEW l, NEW x, NEW evaluator, NEW state
  PROVE  EvalKnown(Finish(q, d, l, x, evaluator, state))
BY DEF Finish, EvalKnown, Unsupported, Probability

LEMMA MoneylineIs ==
  ASSUME NEW f, f.qb \in Int, f.xgb \in Int, NEW offer, NEW anchor, anchor.above \in Int
  PROVE  /\ EvalKnown(EvaluateMoneyline(f, offer, anchor))
         /\ f.xgb = Absent => ~EvaluateMoneyline(f, offer, anchor).supported
<1> DEFINE fit == Fit.moneyline
           model == (f.qb + f.xgb) \div 2
           market == Clamp(anchor.above + fit.shift)
           moved == market + (fit.weight * (model - market)) \div 100
           final == Clamp(moved)
           q == OfSide(final, offer.side)
           d == Max({Abs(market - One \div 2), Abs(model - market)})
           e == Finish(q, d, fit.limit, Abs(f.qb - f.xgb), fit, Fit.reliability.moneyline)
<1>1. EvaluateMoneyline(f, offer, anchor) =
        IF f.qb = Absent \/ f.xgb = Absent THEN Unsupported(fit.n) ELSE e
  BY DEF EvaluateMoneyline
<1>2. fit.shift \in Int /\ fit.weight \in Int
  BY BoardAssumption
<1>3. market \in Int
  BY <1>2, ClampIs DEF Probability
<1>4. moved \in Int
  <2>1. model \in Int
    OBVIOUS
  <2> HIDE DEF market, model, fit
  <2>2. fit.weight * (model - market) \in Int
    BY <1>2, <1>3, <2>1 DEF fit
  <2>. QED  BY <1>3, <2>2
<1>5. q \in Probability
  <2> HIDE DEF moved
  <2>. QED  BY <1>4, ClampIs, OfSideIs
<1> HIDE DEF q, d
<1>6. EvalKnown(e)
  BY <1>5, FinishIs
<1> HIDE DEF e
<1>7. EvalKnown(Unsupported(fit.n)) /\ ~Unsupported(fit.n).supported
  BY DEF EvalKnown, Unsupported
<1>. QED  BY <1>1, <1>6, <1>7

LEMMA CoversIs ==
  ASSUME NEW mean \in Int, NEW side, NEW line \in Int, NEW slope \in Int
  PROVE  Covers(mean, side, line, slope) \in Probability
<1> DEFINE above == IF side \in {"home", "away"} THEN mean - (IF side = "home" THEN -line ELSE line)
                    ELSE mean - line
           at == One \div 2 + slope * above
           p == Clamp(at)
<1>1. above \in Int
  OBVIOUS
<1>2. at \in Int
  <2> HIDE DEF above
  <2>. QED  BY <1>1 DEF One
<1>3. p \in Probability
  <2> HIDE DEF at
  <2>. QED  BY <1>2, ClampIs
<1>4. Covers(mean, side, line, slope) = IF side \in {"home", "over"} THEN p ELSE One - p
  BY DEF Covers
<1> HIDE DEF p
<1>. QED  BY <1>3, <1>4, OtherSide

LEMMA PointIs ==
  ASSUME NEW f, f.margin \in Int, f.total \in Int, NEW offer, offer.market \in {"spread", "total"},
         offer.line \in Int, NEW anchor, anchor.threshold \in Int, anchor.above \in Int
  PROVE  EvalKnown(EvaluatePoint(f, offer, anchor))
<1> DEFINE fit == Fit[offer.market]
           model == IF offer.market = "spread" THEN f.margin ELSE f.total
           implied == ImpliedMean(anchor, fit.slope)
           mean == implied + (fit.weight * (model - implied)) \div 100
           q == Covers(mean, offer.side, offer.line, fit.slope)
           d == Abs(model - implied)
           e == Finish(q, d, fit.limit, 0, fit, Fit.reliability[offer.market])
<1>1. EvaluatePoint(f, offer, anchor) =
        IF model = Absent \/ offer.line = Absent THEN Unsupported(fit.n) ELSE e
  BY DEF EvaluatePoint
<1>2. fit.slope \in Nat \ {0} /\ fit.weight \in Int
  BY BoardAssumption
<1>3. model \in Int
  OBVIOUS
<1> HIDE DEF fit, model
<1>4. implied \in Int
  <2>1. (anchor.above - One \div 2) \in Int
    BY DEF One
  <2>2. (anchor.above - One \div 2) \div fit.slope \in Int
    BY <1>2, <2>1, Divided
  <2>. QED  BY <2>2 DEF ImpliedMean
<1> HIDE DEF implied
<1>5. mean \in Int
  <2>1. fit.weight * (model - implied) \in Int
    BY <1>2, <1>3, <1>4
  <2>. QED  BY <1>4, <2>1
<1> HIDE DEF mean
<1>6. q \in Probability
  BY <1>2, <1>5, CoversIs
<1> HIDE DEF q, d
<1>7. EvalKnown(e)
  BY <1>6, FinishIs
<1> HIDE DEF e
<1>8. EvalKnown(Unsupported(fit.n))
  BY DEF EvalKnown, Unsupported
<1>. QED  BY <1>1, <1>7, <1>8

LEMMA OfferIsEvaluated ==
  ASSUME NEW g \in Schedule, NEW offer, offer.market \in Markets, offer.line \in Int,
         NEW anchor, AnchorKnown(anchor), anchor # No
  PROVE  LET e == EvaluateOffer(Outputs(g.id), offer, anchor)
         IN /\ EvalKnown(e)
            /\ offer.market = "moneyline" /\ ModelCategory(Football[g.id].roof) = "pending" => ~e.supported
<1> DEFINE f == Outputs(g.id)
<1>1. /\ f.qb \in Int /\ f.xgb \in Int /\ f.margin \in Int /\ f.total \in Int
      /\ ModelCategory(Football[g.id].roof) = "pending" => f.xgb = Absent
  BY OutputsKnown
<1>2. anchor.threshold \in Int /\ anchor.above \in Int
  BY DEF AnchorKnown
<1> HIDE DEF f
<1>3. CASE offer.market = "moneyline"
  BY <1>1, <1>2, <1>3, MoneylineIs DEF EvaluateOffer, f
<1>4. CASE offer.market # "moneyline"
  <2>1. offer.market \in {"spread", "total"}
    BY <1>4 DEF Markets
  <2>. QED  BY <1>1, <1>2, <1>4, <2>1, PointIs DEF EvaluateOffer, f
<1>. QED  BY <1>3, <1>4

LEMMA ConfidenceIs ==
  ASSUME NEW f, f.qb \in Int, f.xgb \in Int, f.margin \in Int, NEW offer, offer.line \in Int
  PROVE  Confidence(f, offer).q \in Int /\ Confidence(f, offer).margin \in Int
<1> DEFINE home == (f.qb + f.xgb) \div 2
           margin == CoverMargin(f.margin, offer.side, offer.line)
           p == OfSide(MoneylineConfidence(home), offer.side)
           s == SpreadConfidence(margin)
<1>1. Fit.confidence.moneyline.slope \in Int /\ Fit.confidence.spread.slope \in Int
  BY BoardAssumption
<1>2. p \in Int
  <2> DEFINE c == Fit.confidence.moneyline.slope
             x == One \div 2 + (c * (home - One \div 2)) \div 100
  <2>1. home - One \div 2 \in Int
    BY DEF One
  <2> HIDE DEF home
  <2>2. c * (home - One \div 2) \in Int
    BY <1>1, <2>1
  <2>3. x \in Int
    BY <2>2 DEF One
  <2>4. MoneylineConfidence(home) = Clamp(x)
    BY DEF MoneylineConfidence
  <2> HIDE DEF x
  <2>. QED  BY <2>3, <2>4, ClampIs, OfSideIs DEF Probability
<1>3. margin \in Int
  BY DEF CoverMargin
<1>4. s \in Int
  <2> DEFINE c == Fit.confidence.spread.slope
             x == One \div 2 + c * margin
  <2> HIDE DEF margin
  <2>1. x \in Int
    BY <1>1, <1>3 DEF One
  <2>2. s = Clamp(x)
    BY DEF SpreadConfidence
  <2> HIDE DEF x, s
  <2>. QED  BY <2>1, <2>2, ClampIs DEF Probability
<1> HIDE DEF home, p, s, margin
<1>5. CASE offer.market = "moneyline" /\ f.qb # Absent /\ f.xgb # Absent
  <2>1. Confidence(f, offer).q = p /\ Confidence(f, offer).margin = Absent
    BY <1>5 DEF Confidence, p, home
  <2>. QED  BY <1>2, <2>1 DEF Absent
<1>6. CASE offer.market = "spread" /\ f.margin # Absent
  <2>1. Confidence(f, offer).q = s /\ Confidence(f, offer).margin = margin
    BY <1>6 DEF Confidence, s, margin
  <2>. QED  BY <1>3, <1>4, <2>1
<1>7. CASE /\ ~(offer.market = "moneyline" /\ f.qb # Absent /\ f.xgb # Absent)
           /\ ~(offer.market = "spread" /\ f.margin # Absent)
  <2>1. Confidence(f, offer).q = 0 /\ Confidence(f, offer).margin = Absent
    BY <1>7 DEF Confidence
  <2>. QED  BY <2>1 DEF Absent
<1>. QED  BY <1>5, <1>6, <1>7

\* What the selectors read of a row.
RowKnown(r) ==
  /\ \E g \in Schedule : r.game = g.id
  /\ r.offer.market \in Markets /\ r.offer.side \in AnySide
  /\ r.offer.price \in Price /\ r.offer.line \in Int
  /\ EvalKnown(r.eval)
  /\ r.anchor \in Int /\ r.model.q \in Int /\ r.model.margin \in Int
  /\ r.status = "VALUE" => Worth(r.eval.q, r.offer.price) > 0
  /\ r.status = "LEAN" =>
       r.eval.supported /\ Units(r.eval, Fit.reliability[r.offer.market], r.offer.price) = 0

LEMMA RowIs ==
  ASSUME NEW g \in Schedule, NEW offer, offer.market \in Markets, offer.side \in AnySide,
         offer.price \in Price, offer.line \in Int,
         NEW anchors, AnchorKnown(anchors[offer.market]), NEW index
  PROVE  LET r == CandidateRow(g, offer, anchors, index)
         IN /\ r.game = g.id /\ r.offer = offer /\ RowKnown(r)
            /\ r.eval = IF anchors[offer.market] = No THEN Unsupported(0)
                        ELSE EvaluateOffer(Outputs(g.id), offer, anchors[offer.market])
            /\ r.eval.supported /\ offer.market = "moneyline" =>
                 ModelCategory(Football[g.id].roof) # "pending"
<1> DEFINE r == CandidateRow(g, offer, anchors, index)
           f == Outputs(g.id)
           anchor == anchors[offer.market]
           e == IF anchor = No THEN Unsupported(0) ELSE EvaluateOffer(f, offer, anchor)
           reliability == Fit.reliability[offer.market]
<1>1. /\ r.game = g.id /\ r.offer = offer /\ r.eval = e /\ r.model = Confidence(f, offer)
      /\ r.status = IF e.supported THEN Status(e, reliability, offer.price) ELSE "UNSUPPORTED"
      /\ r.anchor = IF ~e.supported THEN Absent
                    ELSE IF offer.market = "moneyline" THEN OfSide(anchor.above, offer.side)
                    ELSE anchor.above
  BY DEF CandidateRow
<1>2. EvalKnown(e) /\ (e.supported => anchor # No)
  <2>1. CASE anchor = No
    BY <2>1 DEF EvalKnown, Unsupported
  <2>2. CASE anchor # No
    BY <2>2, OfferIsEvaluated
  <2>. QED  BY <2>1, <2>2
<1>3. e.supported /\ offer.market = "moneyline" => ModelCategory(Football[g.id].roof) # "pending"
  <2>1. SUFFICES ASSUME e.supported  PROVE
          offer.market = "moneyline" => ModelCategory(Football[g.id].roof) # "pending"
    OBVIOUS
  <2>2. anchor # No
    BY <1>2, <2>1
  <2>3. e = EvaluateOffer(f, offer, anchor)
    BY <2>2
  <2>. QED  BY <2>1, <2>2, <2>3, OfferIsEvaluated
<1>4. f.qb \in Int /\ f.xgb \in Int /\ f.margin \in Int
  BY OutputsKnown
<1> HIDE DEF r, f, e, anchor, reliability
<1>5. r.model.q \in Int /\ r.model.margin \in Int
  BY <1>1, <1>4, ConfidenceIs
<1>6. r.anchor \in Int
  <2>1. CASE ~e.supported
    BY <1>1, <2>1 DEF Absent
  <2>2. CASE e.supported
    <3>1. anchor.above \in Int
      BY <1>2, <2>2 DEF AnchorKnown, anchor
    <3>2. OfSide(anchor.above, offer.side) \in Int
      BY <3>1 DEF OfSide, One
    <3>. QED  BY <1>1, <2>2, <3>1, <3>2
  <2>. QED  BY <2>1, <2>2
<1>7. r.status = "VALUE" => Worth(e.q, offer.price) > 0
  BY <1>1, StatusIs
<1>8. r.status = "LEAN" => e.supported /\ Units(e, reliability, offer.price) = 0
  BY <1>1, StatusIs
<1>9. RowKnown(r)
  BY <1>1, <1>2, <1>5, <1>6, <1>7, <1>8 DEF RowKnown, reliability
<1>. QED  BY <1>1, <1>3, <1>9 DEF r, e, f, anchor

-----------------------------------------------------------------------------
\* The board of a game, and what is made of it.

OfferKnown(o, g, at) ==
  /\ o.market \in Markets /\ o.book \in Books
  /\ o.price \in Price /\ Abs(o.price) <= 100000
  /\ o.line \in Int /\ o.seen \in Int
  /\ o.state = FreshnessOf(o.seen, at)
  /\ o.market = "moneyline" => o.line = Absent
  /\ IF o.market = "total" THEN o.name \in {"over", "under"} ELSE o.name \in {g.home, g.away}

BoardKnown(board, g, at) == IsFiniteSet(board) /\ \A o \in board : OfferKnown(o, g, at)

LEMMA MarketSnapshotIs ==
  ASSUME NEW response \in Feeds, NEW at \in Int, Normalizes(response, at), NEW g \in Schedule
  PROVE  BoardKnown(MarketSnapshot(response, at)[g.id], g, at)
<1> DEFINE events == {i \in DOMAIN response : MatchesAlone(response[i]) /\ GameOf(response[i]) = g}
           wanted == UNION {Wanted(response[i]) : i \in events}
           board == {Offer(q, at) : q \in wanted}
<1>1. MarketSnapshot(response, at)[g.id] = board
  <2>1. (CHOOSE h \in Schedule : h.id = g.id) = g
    BY BoardAssumption
  <2> DEFINE boardOf(h) == {Offer(q, at) : q \in UNION {Wanted(response[i]) :
                 i \in {j \in DOMAIN response : MatchesAlone(response[j]) /\ GameOf(response[j]) = h}}}
  <2>2. boardOf(g) = board
    OBVIOUS
  <2>3. MarketSnapshot(response, at) =
          [id \in {h.id : h \in Schedule} |-> boardOf(CHOOSE h \in Schedule : h.id = id)]
    BY DEF MarketSnapshot
  <2> HIDE DEF boardOf, board
  <2>. QED  BY <2>1, <2>2, <2>3
<1>2. \A i \in DOMAIN response : IsFiniteSet(Wanted(response[i]))
  <2>1. \A i \in DOMAIN response : IsFiniteSet(response[i].quotes)
    BY LiveAssumption
  <2>2. \A i \in DOMAIN response : Wanted(response[i]) \in SUBSET response[i].quotes
    BY DEF Wanted
  <2>. QED  BY <2>1, <2>2, FS_Subset
<1>3. IsFiniteSet(wanted)
  <2> DEFINE f == [i \in events |-> Wanted(response[i])]
             all == {f[i] : i \in events}
  <2>1. IsFiniteSet(events)
    <3>1. IsFiniteSet(DOMAIN response) /\ events \in SUBSET DOMAIN response
      BY LiveAssumption
    <3>. QED  BY <3>1, FS_Subset
  <2>2. all = {Wanted(response[i]) : i \in events}
    OBVIOUS
  <2>3. \A i \in events : IsFiniteSet(f[i])
    BY <1>2
  <2>4. \A T \in all : IsFiniteSet(T)
    <3> HIDE DEF f
    <3>. QED  BY <2>3
  <2> HIDE DEF f
  <2>5. IsFiniteSet(all)
    <3> HIDE DEF events
    <3>. QED  BY <2>1, ImageIsFinite
  <2> HIDE DEF all
  <2>6. IsFiniteSet(UNION all)
    BY <2>4, <2>5, FS_UNION
  <2>. QED  BY <2>2, <2>6
<1>4. IsFiniteSet(board)
  <2> DEFINE f == [q \in wanted |-> Offer(q, at)]
  <2>1. board = {f[q] : q \in wanted}
    <3> HIDE DEF wanted
    <3>. QED  OBVIOUS
  <2> HIDE DEF f, board, wanted
  <2>. QED  BY <1>3, <2>1, ImageIsFinite
<1>5. ASSUME NEW i \in events, NEW q \in Wanted(response[i])
      PROVE  OfferKnown(Offer(q, at), g, at)
  <2>1. i \in DOMAIN response /\ GameOf(response[i]) = g /\ MatchesAlone(response[i])
    BY <1>5
  <2>2. q \in response[i].quotes /\ q.book \in Books /\ q.market \in Markets /\ Named(q, g)
    BY <1>5, <2>1 DEF Wanted
  <2>3. q.price \in Int /\ Abs(q.price) <= 100000 /\ q.line \in Int /\ q.seen \in Int /\ q.bookSeen \in Int
    BY <2>1, <2>2, LiveAssumption
  <2>4. Abs(q.price) >= 100
    BY <1>5, <2>1 DEF Normalizes, Wellformed
  <2>5. q.price \in Price
    BY <2>3, <2>4 DEF Abs, Price
  <2>6. Observed(q, at) \in Int
    BY <2>3 DEF Observed, ObservedByBook
  <2>. QED  BY <2>2, <2>3, <2>5, <2>6 DEF OfferKnown, Offer, Named, Absent
<1>6. \A o \in board : OfferKnown(o, g, at)
  BY <1>5
<1>. QED  BY <1>1, <1>4, <1>6 DEF BoardKnown

ListedSide(o, g) == IF o.market = "total" THEN o.name ELSE IF o.name = g.home THEN "home" ELSE "away"

Listed(o, g) ==
  [market |-> o.market, book |-> o.book, line |-> o.line, price |-> o.price, seen |-> o.seen,
   side |-> ListedSide(o, g)]

\* What is known of an offer of an index.
ListedKnown(x) ==
  /\ x.market \in Markets /\ x.book \in Books /\ x.side \in Sides(x.market)
  /\ x.price \in Price /\ Abs(x.price) <= 100000
  /\ x.line \in Int /\ x.seen \in Int
  /\ x.market = "moneyline" => x.line = Absent

IndexKnown(index) == IsFiniteSet(index) /\ \A x \in index : ListedKnown(x)

LEMMA IndexIs ==
  ASSUME NEW g \in Schedule, NEW at, NEW board, BoardKnown(board, g, at)
  PROVE  /\ MarketSnapshotIndex(board, g) = {Listed(o, g) : o \in {p \in board : p.state # "STALE"}}
         /\ ServedIndex(board, g) = MarketSnapshotIndex(board, g)
         /\ IndexKnown(MarketSnapshotIndex(board, g))
<1> DEFINE fresh == {p \in board : p.state # "STALE"}
           index == {Listed(o, g) : o \in fresh}
<1>1. MarketSnapshotIndex(board, g) = index
  BY DEF MarketSnapshotIndex, Listed, ListedSide
<1>2. g.home # g.away /\ g.home \notin {"over", "under"} /\ g.away \notin {"over", "under"}
  BY BoardAssumption
<1>3. \A o \in fresh : OfferKnown(o, g, at)
  BY DEF BoardKnown
<1>4. \A o \in fresh : ListedKnown(Listed(o, g))
  BY <1>2, <1>3 DEF OfferKnown, ListedKnown, Listed, ListedSide, Sides, Markets
<1>5. \A o \in fresh :
        ListedSide(o, g) = IF o.name \in {"over", "under"} THEN o.name ELSE IF o.name = g.home THEN "home" ELSE "away"
  BY <1>2, <1>3 DEF OfferKnown, ListedSide
<1> HIDE DEF fresh
<1>6. ServedIndexAll(fresh, g) = index
  BY <1>5 DEF ServedIndexAll, Listed
<1>7. IsFiniteSet(index)
  <2> DEFINE f == [o \in fresh |-> Listed(o, g)]
  <2>1. index = {f[o] : o \in fresh}
    OBVIOUS
  <2>2. IsFiniteSet(fresh)
    BY FS_Subset DEF fresh, BoardKnown
  <2> HIDE DEF f, index
  <2>. QED  BY <2>1, <2>2, ImageIsFinite
<1>8. \A x \in index : ListedKnown(x)
  BY <1>4
<1>. QED  BY <1>1, <1>6, <1>7, <1>8 DEF ServedIndex, IndexKnown, fresh

-----------------------------------------------------------------------------
\* Shopping and the sharp price.
AllListed(offers) == IsFiniteSet(offers) /\ \A x \in offers : ListedKnown(x)

LEMMA BetterOrders ==
  ASSUME NEW x, NEW y, NEW z, ListedKnown(x), ListedKnown(y), ListedKnown(z)
  PROVE  /\ ~Better(x, x)
         /\ Better(x, y) /\ Better(y, z) => Better(x, z)
<1>1. \A o : ListedKnown(o) => Number(o) \in Int /\ o.price \in Int /\ BookRank(o.book) \in Int
  BY DEF ListedKnown, Number, BookRank, Price
<1>2. /\ Number(x) \in Int /\ x.price \in Int /\ BookRank(x.book) \in Int
      /\ Number(y) \in Int /\ y.price \in Int /\ BookRank(y.book) \in Int
      /\ Number(z) \in Int /\ z.price \in Int /\ BookRank(z.book) \in Int
  BY <1>1
<1>. QED  BY <1>2 DEF Better

\* The shopped offer is one of those there are, and none is better.
LEMMA ShopIs ==
  ASSUME NEW offers, AllListed(offers), offers # {}
  PROVE  Shop(offers) \in offers /\ \A y \in offers \ {Shop(offers)} : ~Better(y, Shop(offers))
<1> DEFINE R == {p \in offers \X offers : Better(p[1], p[2])}
<1>1. \A x, y \in offers : <<x, y>> \in R <=> Better(x, y)
  OBVIOUS
<1>2. \A x \in offers : ~Better(x, x)
  BY BetterOrders DEF AllListed
<1>3. \A x, y, z \in offers : Better(x, y) /\ Better(y, z) => Better(x, z)
  BY BetterOrders DEF AllListed
<1> HIDE DEF R
<1>4. PICK x \in offers : \A y \in offers : <<y, x>> \notin R
  <2>1. \A x \in offers : <<x, x>> \notin R
    BY <1>1, <1>2
  <2>2. \A x, y, z \in offers : <<x, y>> \in R /\ <<y, z>> \in R => <<x, z>> \in R
    BY <1>1, <1>3
  <2>. QED  BY <2>1, <2>2, Undominated DEF AllListed
<1>5. \A y \in offers \ {x} : ~Better(y, x)
  BY <1>1, <1>4
<1>. QED  BY <1>5, Zenon DEF Shop

\* So is the best priced one.
LEMMA BestPricedIs ==
  ASSUME NEW offers, AllListed(offers), offers # {}
  PROVE  BestPriced(offers) \in offers /\ \A y \in offers : y.price <= BestPriced(offers).price
<1> DEFINE Outbids(x, y) == x.price > y.price \/ (x.price = y.price /\ x.seen > y.seen)
           R == {p \in offers \X offers : Outbids(p[1], p[2])}
<1>1. \A x \in offers : x.price \in Int /\ x.seen \in Int
  BY DEF AllListed, ListedKnown, Price
<1>2. \A x, y \in offers : <<x, y>> \in R <=> Outbids(x, y)
  OBVIOUS
<1>3. \A x \in offers : ~Outbids(x, x)
  BY <1>1
<1>4. \A x, y, z \in offers : Outbids(x, y) /\ Outbids(y, z) => Outbids(x, z)
  BY <1>1
<1> HIDE DEF R
<1>5. PICK x \in offers : \A y \in offers : <<y, x>> \notin R
  <2> HIDE DEF Outbids
  <2>1. \A x \in offers : <<x, x>> \notin R
    BY <1>2, <1>3
  <2>2. \A x, y, z \in offers : <<x, y>> \in R /\ <<y, z>> \in R => <<x, z>> \in R
    BY <1>2, <1>4
  <2>. QED  BY <2>1, <2>2, Undominated DEF AllListed
<1>6. \A p \in offers : x.price > p.price \/ (x.price = p.price /\ x.seen >= p.seen)
  <2>1. \A y \in offers : ~Outbids(y, x)
    BY <1>2, <1>5
  <2>. QED  BY <1>1, <2>1
<1> DEFINE b == BestPriced(offers)
<1>7. b \in offers /\ \A p \in offers : b.price > p.price \/ (b.price = p.price /\ b.seen >= p.seen)
  BY <1>6, Zenon DEF BestPriced
<1> HIDE DEF b
<1>8. \A y \in offers : y.price <= b.price
  BY <1>1, <1>7
<1>. QED  BY <1>7, <1>8 DEF b

PricesOf(offers) == {o.price : o \in offers}

LEMMA DearestIs ==
  ASSUME NEW offers, AllListed(offers), NEW x \in offers, \A y \in offers : y.price <= x.price
  PROVE  Max(PricesOf(offers)) = x.price
<1>1. \A y \in offers : y.price \in Int
  BY DEF AllListed, ListedKnown, Price
<1>2. PricesOf(offers) \subseteq Int /\ x.price \in PricesOf(offers) /\ \A p \in PricesOf(offers) : p <= x.price
  BY <1>1 DEF PricesOf
<1> DEFINE m == Max(PricesOf(offers))
<1>3. m \in PricesOf(offers) /\ \A p \in PricesOf(offers) : m >= p
  <2>1. x.price \in PricesOf(offers) /\ \A p \in PricesOf(offers) : x.price >= p
    BY <1>2
  <2>. QED  BY <2>1, Zenon DEF Max
<1>. QED  BY <1>2, <1>3

LEMMA NoVigIs ==
  ASSUME NEW a \in Price, NEW b \in Price, Abs(a) <= 100000, Abs(b) <= 100000
  PROVE  NoVig(a, b) \in Int
<1> DEFINE h == BreakEven(a)
           d == BreakEven(b)
           m == One * h
<1>1. h \in Nat /\ d \in Nat /\ h > 0 /\ d > 0
  BY BreakEvenIs
<1>2. NoVig(a, b) = m \div (h + d)
  BY DEF NoVig
<1> HIDE DEF h, d
<1>3. m \in Int /\ h + d \in Nat \ {0}
  BY <1>1 DEF One
<1> HIDE DEF m
<1>. QED  BY <1>2, <1>3, Divided

SidePinned(index, m, s) == {o \in index : o.market = m /\ o.side = s /\ o.book = "pinnacle"}

LEMMA PinnacleIs ==
  ASSUME NEW index, IndexKnown(index), NEW m, NEW s
  PROVE  /\ Pinnacle(index, m, s) = SidePinned(index, m, s)
         /\ AllListed(Pinnacle(index, m, s))
<1>1. Pinnacle(index, m, s) = SidePinned(index, m, s)
  BY DEF Pinnacle, Quoted, SidePinned
<1>2. SidePinned(index, m, s) \in SUBSET index
  BY DEF SidePinned
<1>. QED  BY <1>1, <1>2, FS_Subset DEF AllListed, IndexKnown

LEMMA MoneylineAnchorIs ==
  ASSUME NEW index, IndexKnown(index)
  PROVE  /\ AnchorKnown(MoneylineAnchor(index))
         /\ ServedAnchor(index, "moneyline") = MoneylineAnchor(index)
<1> DEFINE up == SidePinned(index, "moneyline", "home")
           down == SidePinned(index, "moneyline", "away")
           a == Shop(up).price
           b == Shop(down).price
<1>1. MoneylineAnchor(index) =
        IF up = {} \/ down = {} THEN No ELSE [threshold |-> 0, above |-> NoVig(a, b)]
  BY PinnacleIs DEF MoneylineAnchor
<1>2. ServedAnchor(index, "moneyline") =
        IF up = {} \/ down = {} THEN No
        ELSE [threshold |-> 0, above |-> NoVig(Max(PricesOf(up)), Max(PricesOf(down)))]
  BY DEF ServedAnchor, SidePinned, PricesOf
<1>3. AllListed(up) /\ AllListed(down)
  BY PinnacleIs
<1>4. ASSUME NEW s, s # {}, AllListed(s), \A x \in s : x.market = "moneyline"
      PROVE  Shop(s) \in s /\ Max(PricesOf(s)) = Shop(s).price
  <2>1. Shop(s) \in s /\ \A y \in s \ {Shop(s)} : ~Better(y, Shop(s))
    BY <1>4, ShopIs
  <2>2. ASSUME NEW y \in s  PROVE y.price <= Shop(s).price
    <3>1. y.line = Absent /\ Shop(s).line = Absent /\ y.price \in Int /\ Shop(s).price \in Int
      BY <1>4, <2>1 DEF AllListed, ListedKnown, Price
    <3>2. y.side # "over" /\ Shop(s).side # "over"
      BY <1>4, <2>1 DEF AllListed, ListedKnown, Sides
    <3>3. Number(y) = Number(Shop(s))
      BY <3>1, <3>2 DEF Number
    <3>. QED  BY <2>1, <3>1, <3>3 DEF Better
  <2>. QED  BY <1>4, <2>1, <2>2, DearestIs
<1>5. up # {} /\ down # {} =>
        /\ Shop(up) \in up /\ Max(PricesOf(up)) = a
        /\ Shop(down) \in down /\ Max(PricesOf(down)) = b
  <2>1. (\A x \in up : x.market = "moneyline") /\ (\A x \in down : x.market = "moneyline")
    BY DEF SidePinned
  <2> HIDE DEF up, down
  <2>. QED  BY <1>3, <1>4, <2>1
<1>6. up # {} /\ down # {} => NoVig(a, b) \in Int
  BY <1>3, <1>5, NoVigIs DEF AllListed, ListedKnown
<1> HIDE DEF up, down, a, b
<1>. QED  BY <1>1, <1>2, <1>5, <1>6 DEF AnchorKnown

\* The lines of one side that the other side quotes too.
Paired(up, down, flip) == {l \in {o.line : o \in up} : \E o \in down : o.line = flip * l}

LEMMA PointAnchorIs ==
  ASSUME NEW up, NEW down, AllListed(up), AllListed(down), NEW flip \in {-1, 1}
  PROVE  LET anchor == PointAnchor(up, down, flip, flip)
             paired == Paired(up, down, flip)
             l == CHOOSE m \in paired : TRUE
         IN /\ AnchorKnown(anchor)
            /\ Cardinality(paired) # 1 => anchor = No
            /\ Cardinality(paired) = 1 =>
                 anchor = [threshold |-> flip * l,
                           above |-> NoVig(Max(PricesOf(SameLine(up, l))),
                                           Max(PricesOf(SameLine(down, flip * l))))]
<1> DEFINE anchor == PointAnchor(up, down, flip, flip)
           paired == Paired(up, down, flip)
           l == CHOOSE m \in paired : TRUE
           ups == SameLine(up, l)
           downs == SameLine(down, flip * l)
           a == BestPriced(ups).price
           b == BestPriced(downs).price
<1>1. paired = {o.line : o \in {x \in up : SameLine(down, flip * x.line) # {}}}
  BY DEF Paired, SameLine
<1>2. anchor = IF Cardinality(paired) # 1 THEN No ELSE [threshold |-> flip * l, above |-> NoVig(a, b)]
  BY <1>1, Zenon DEF PointAnchor
<1>3. ASSUME Cardinality(paired) = 1
      PROVE  /\ l \in Int
             /\ NoVig(a, b) \in Int /\ Max(PricesOf(ups)) = a /\ Max(PricesOf(downs)) = b
  <2>1. paired # {}
    BY <1>3, FS_EmptySet
  <2>2. l \in paired
    <3> HIDE DEF paired
    <3>. QED  BY <2>1
  <2> HIDE DEF l
  <2>3. ups # {} /\ downs # {}
    BY <2>2 DEF Paired, SameLine
  <2>4. l \in Int
    BY <2>2 DEF Paired, AllListed, ListedKnown
  <2>5. ups \in SUBSET up /\ downs \in SUBSET down
    BY DEF SameLine
  <2>6. AllListed(ups) /\ AllListed(downs)
    BY <2>5, FS_Subset DEF AllListed
  <2> HIDE DEF ups, downs
  <2>7. /\ BestPriced(ups) \in ups /\ Max(PricesOf(ups)) = a
        /\ BestPriced(downs) \in downs /\ Max(PricesOf(downs)) = b
    BY <2>3, <2>6, BestPricedIs, DearestIs
  <2>8. NoVig(a, b) \in Int
    BY <2>6, <2>7, NoVigIs DEF AllListed, ListedKnown
  <2>. QED  BY <2>4, <2>7, <2>8
<1> HIDE DEF anchor, paired, l, ups, downs, a, b
<1>4. AnchorKnown(anchor)
  <2>1. CASE Cardinality(paired) = 1
    <3>1. flip * l \in Int
      BY <1>3, <2>1
    <3>. QED  BY <1>2, <1>3, <2>1, <3>1 DEF AnchorKnown
  <2>2. CASE Cardinality(paired) # 1
    BY <1>2, <2>2 DEF AnchorKnown
  <2>. QED  BY <2>1, <2>2
<1>. QED  BY <1>2, <1>3, <1>4 DEF anchor, paired, l, ups, downs

\* The backend takes of its index the anchor that the builder took of its own.
LEMMA AnchorsAgree ==
  ASSUME NEW index, IndexKnown(index), NEW m \in Markets
  PROVE  AnchorKnown(Anchors(index)[m]) /\ ServedAnchor(index, m) = Anchors(index)[m]
<1>1. CASE m = "moneyline"
  BY <1>1, MoneylineAnchorIs DEF Anchors
<1>2. CASE m # "moneyline"
  <2> DEFINE up == IF m = "total" THEN SidePinned(index, m, "over") ELSE SidePinned(index, m, "home")
             down == IF m = "total" THEN SidePinned(index, m, "under") ELSE SidePinned(index, m, "away")
             flip == IF m = "spread" THEN -1 ELSE 1
             paired == Paired(up, down, flip)
             l == CHOOSE x \in paired : TRUE
             pair == NoVig(Max(PricesOf(SameLine(up, l))), Max(PricesOf(SameLine(down, flip * l))))
  <2>1. ServedAnchor(index, m) = IF Cardinality(paired) = 1 THEN [threshold |-> flip * l, above |-> pair] ELSE No
    BY <1>2, Zenon DEF ServedAnchor, SidePinned, PricesOf, SameLine, Paired
  <2>2. Anchors(index)[m] = PointAnchor(up, down, flip, flip)
    BY <1>2, PinnacleIs DEF Anchors, SpreadAnchor, TotalAnchor, Markets
  <2>3. AllListed(up) /\ AllListed(down)
    BY PinnacleIs
  <2>4. flip \in {-1, 1}
    OBVIOUS
  <2> HIDE DEF up, down, flip
  <2>5. /\ AnchorKnown(PointAnchor(up, down, flip, flip))
        /\ Cardinality(paired) # 1 => PointAnchor(up, down, flip, flip) = No
        /\ Cardinality(paired) = 1 =>
             PointAnchor(up, down, flip, flip) = [threshold |-> flip * l, above |-> pair]
    BY <2>3, <2>4, PointAnchorIs
  <2>. QED  BY <2>1, <2>2, <2>5
<1>. QED  BY <1>1, <1>2

-----------------------------------------------------------------------------
\* The rows of a board.
BoardsKnown(snapshot, at) == \A g \in Schedule : BoardKnown(snapshot[g.id], g, at)

IndexOf(snapshot, g) == MarketSnapshotIndex(snapshot[g.id], g)
QuotedOf(snapshot, g, m, s) == Quoted(IndexOf(snapshot, g), m, s, Actionable)
RowAt(snapshot, g, m, s) ==
  CandidateRow(g, Shop(QuotedOf(snapshot, g, m, s)), Anchors(IndexOf(snapshot, g)), IndexOf(snapshot, g))

\* A row is about the best offer of its side, and evaluated against the anchor.
RowOf(r, g, index) ==
  /\ r.game = g.id /\ RowKnown(r) /\ r.offer.side \in Sides(r.offer.market)
  /\ r.offer \in Quoted(index, r.offer.market, r.offer.side, Actionable)
  /\ \A o \in Quoted(index, r.offer.market, r.offer.side, Actionable) \ {r.offer} : ~Better(o, r.offer)
  /\ r.eval = IF Anchors(index)[r.offer.market] = No THEN Unsupported(0)
              ELSE EvaluateOffer(Outputs(g.id), r.offer, Anchors(index)[r.offer.market])
  /\ r.eval.supported /\ r.offer.market = "moneyline" => ModelCategory(Football[g.id].roof) # "pending"

RowsKnown(rows) ==
  /\ IsFiniteSet(rows)
  /\ \A r \in rows : RowKnown(r)
  /\ \A r, o \in rows :
       r.game = o.game /\ r.offer.market = o.offer.market /\ r.offer.side = o.offer.side => r = o

LEMMA CandidatesAre ==
  ASSUME NEW snapshot
  PROVE  \A r \in EvaluateCandidates(snapshot) :
           \E g \in Schedule, m \in Markets, s \in AnySide :
             s \in Sides(m) /\ QuotedOf(snapshot, g, m, s) # {} /\ r = RowAt(snapshot, g, m, s)
<1> DEFINE best(g, m, s) == Shop(QuotedOf(snapshot, g, m, s))
           sides(g) == {p \in Markets \X AnySide : p[2] \in Sides(p[1]) /\ best(g, p[1], p[2]) # No}
           row(g, p) == RowAt(snapshot, g, p[1], p[2])
<1>1. EvaluateCandidates(snapshot) = UNION {{row(g, p) : p \in sides(g)} : g \in Schedule}
  BY DEF EvaluateCandidates, RowAt, QuotedOf, IndexOf
<1>2. \A g \in Schedule, m \in Markets, s \in AnySide : best(g, m, s) # No => QuotedOf(snapshot, g, m, s) # {}
  BY DEF Shop
<1>3. ASSUME NEW g \in Schedule, NEW p \in sides(g)
      PROVE  /\ p[1] \in Markets /\ p[2] \in AnySide /\ p[2] \in Sides(p[1])
             /\ QuotedOf(snapshot, g, p[1], p[2]) # {}
  BY <1>2, <1>3
<1> HIDE DEF sides
<1>4. ASSUME NEW r \in EvaluateCandidates(snapshot)
      PROVE  \E g \in Schedule, m \in Markets, s \in AnySide :
               s \in Sides(m) /\ QuotedOf(snapshot, g, m, s) # {} /\ r = RowAt(snapshot, g, m, s)
  <2>1. PICK g \in Schedule : r \in {row(g, p) : p \in sides(g)}
    BY <1>1, <1>4
  <2>2. PICK p \in sides(g) : r = row(g, p)
    BY <2>1
  <2>. QED  BY <1>3, <2>2
<1>. QED  BY <1>4

LEMMA RowAtIs ==
  ASSUME NEW snapshot, NEW at, BoardsKnown(snapshot, at),
         NEW g \in Schedule, NEW m \in Markets, NEW s \in AnySide, s \in Sides(m),
         QuotedOf(snapshot, g, m, s) # {}
  PROVE  LET r == RowAt(snapshot, g, m, s)
         IN RowOf(r, g, IndexOf(snapshot, g)) /\ r.offer.market = m /\ r.offer.side = s
<1> DEFINE index == IndexOf(snapshot, g)
           quoted == QuotedOf(snapshot, g, m, s)
           o == Shop(quoted)
           r == RowAt(snapshot, g, m, s)
<1>1. IndexKnown(index)
  BY IndexIs DEF BoardsKnown, IndexOf
<1> HIDE DEF index
<1>2. quoted = {x \in index : x.market = m /\ x.side = s /\ x.book \in Actionable}
  BY DEF QuotedOf, Quoted, index
<1>3. AllListed(quoted)
  <2>1. quoted \in SUBSET index
    BY <1>2
  <2>. QED  BY <1>1, <2>1, FS_Subset DEF AllListed, IndexKnown
<1>4. o \in quoted /\ \A y \in quoted \ {o} : ~Better(y, o)
  BY <1>3, ShopIs
<1> HIDE DEF o, quoted
<1>5. o.market = m /\ o.side = s
  BY <1>2, <1>4
<1>6. o.market \in Markets /\ o.side \in AnySide /\ o.price \in Price /\ o.line \in Int
  BY <1>3, <1>4, <1>5 DEF AllListed, ListedKnown
<1>7. AnchorKnown(Anchors(index)[o.market])
  BY <1>1, <1>6, AnchorsAgree
<1>8. r = CandidateRow(g, o, Anchors(index), index)
  BY DEF RowAt, o, quoted, index
<1> HIDE DEF r
<1>9. /\ r.game = g.id /\ r.offer = o /\ RowKnown(r)
      /\ r.eval = IF Anchors(index)[o.market] = No THEN Unsupported(0)
                  ELSE EvaluateOffer(Outputs(g.id), o, Anchors(index)[o.market])
      /\ r.eval.supported /\ o.market = "moneyline" => ModelCategory(Football[g.id].roof) # "pending"
  BY <1>6, <1>7, <1>8, RowIs
<1>10. Quoted(index, m, s, Actionable) = quoted
  BY DEF quoted, QuotedOf, index
<1>11. RowOf(r, g, index)
  BY <1>4, <1>5, <1>9, <1>10 DEF RowOf
<1>. QED  BY <1>5, <1>9, <1>11 DEF r, index

\* The rows of the boards of a response, finitely many, one of a side of a market of
\* a game.
LEMMA RowsAre ==
  ASSUME NEW snapshot, NEW at, BoardsKnown(snapshot, at)
  PROVE  LET rows == EvaluateCandidates(snapshot)
         IN /\ RowsKnown(rows)
            /\ \A r \in rows : \E g \in Schedule : RowOf(r, g, IndexOf(snapshot, g))
<1> DEFINE rows == EvaluateCandidates(snapshot)
           places == Schedule \X (Markets \X AnySide)
           f == [p \in places |-> RowAt(snapshot, p[1], p[2][1], p[2][2])]
<1>1. ASSUME NEW r \in rows
      PROVE  \E g \in Schedule, m \in Markets, s \in AnySide :
               /\ r = RowAt(snapshot, g, m, s)
               /\ RowOf(r, g, IndexOf(snapshot, g)) /\ r.offer.market = m /\ r.offer.side = s
  <2>1. PICK g \in Schedule, m \in Markets, s \in AnySide :
           s \in Sides(m) /\ QuotedOf(snapshot, g, m, s) # {} /\ r = RowAt(snapshot, g, m, s)
    BY <1>1, CandidatesAre
  <2>. QED  BY <2>1, RowAtIs
<1> HIDE DEF rows
<1>2. IsFiniteSet(rows)
  <2>1. IsFiniteSet(places)
    <3>1. IsFiniteSet(Markets) /\ IsFiniteSet(AnySide)
      <4>1. ASSUME NEW x  PROVE IsFiniteSet({x})
        BY FS_Singleton
      <4>2. Markets = {"moneyline"} \cup ({"spread"} \cup {"total"})
        BY DEF Markets
      <4>3. AnySide = ({"home"} \cup {"away"}) \cup ({"over"} \cup {"under"})
        BY DEF AnySide
      <4>4. IsFiniteSet({"spread"} \cup {"total"}) /\ IsFiniteSet({"home"} \cup {"away"})
            /\ IsFiniteSet({"over"} \cup {"under"})
        BY <4>1, FS_Union
      <4>. QED  BY <4>1, <4>2, <4>3, <4>4, FS_Union
    <3>2. IsFiniteSet(Markets \X AnySide)
      BY <3>1, FS_Product
    <3>3. IsFiniteSet(Schedule)
      BY BoardAssumption
    <3>. QED  BY <3>2, <3>3, FS_Product
  <2>2. rows \subseteq {f[p] : p \in places}
    <3>1. ASSUME NEW r \in rows  PROVE \E p \in places : r = f[p]
      <4>1. PICK g \in Schedule, m \in Markets, s \in AnySide : r = RowAt(snapshot, g, m, s)
        BY <1>1
      <4>2. <<g, <<m, s>>>> \in places /\ f[<<g, <<m, s>>>>] = r
        BY <4>1
      <4>. QED  BY <4>2
    <3>. QED  BY <3>1
  <2> HIDE DEF f, places
  <2>3. IsFiniteSet({f[p] : p \in places})
    BY <2>1, ImageIsFinite
  <2>. QED  BY <2>2, <2>3, FS_Subset
<1>3. \A r \in rows : RowKnown(r) /\ \E g \in Schedule : RowOf(r, g, IndexOf(snapshot, g))
  BY <1>1 DEF RowOf
<1>4. ASSUME NEW r \in rows, NEW o \in rows, r.game = o.game,
             r.offer.market = o.offer.market, r.offer.side = o.offer.side
      PROVE  r = o
  <2>1. PICK g \in Schedule, m \in Markets, s \in AnySide :
           r = RowAt(snapshot, g, m, s) /\ r.game = g.id /\ r.offer.market = m /\ r.offer.side = s
    BY <1>1 DEF RowOf
  <2>2. PICK h \in Schedule, n \in Markets, t \in AnySide :
           o = RowAt(snapshot, h, n, t) /\ o.game = h.id /\ o.offer.market = n /\ o.offer.side = t
    BY <1>1 DEF RowOf
  <2>3. g = h
    BY <1>4, <2>1, <2>2, BoardAssumption
  <2>. QED  BY <1>4, <2>1, <2>2, <2>3
<1>. QED  BY <1>2, <1>3, <1>4 DEF RowsKnown, rows

-----------------------------------------------------------------------------
\* What is selected is one of the rows.
LEMMA RowNumbers ==
  ASSUME NEW r, RowKnown(r)
  PROVE  /\ Odds(r) \in Int /\ Be(r) \in Nat /\ Edge(r) \in Int /\ Gap(r) \in Int
         /\ ReliabilityRank(r) \in Int /\ MarketHalfTrust(r) \in Int
         /\ r.model.q \in Int /\ r.model.margin \in Int
<1>1. r.offer.price \in Price /\ r.eval.q \in Int /\ r.model.q \in Int /\ r.anchor \in Int /\ r.model.margin \in Int
  BY DEF RowKnown, EvalKnown
<1>2. Odds(r) \in Int /\ Be(r) \in Nat
  BY <1>1, BreakEvenIs DEF Odds, Be, Price
<1>3. Edge(r) \in Int /\ Gap(r) \in Int
  BY <1>1, <1>2 DEF Edge, Gap
<1>4. ReliabilityRank(r) \in Int
  BY DEF ReliabilityRank
<1>5. MarketHalfTrust(r) \in Int
  <2> DEFINE d == r.model.q - r.anchor
             m == Max({d, 0})
  <2>1. m = IF d >= 0 THEN d ELSE 0
    BY <1>1, MaxOfTwo
  <2>2. m \in Int
    BY <1>1, <2>1
  <2>3. MarketHalfTrust(r) = IF r.offer.market = "spread" THEN r.model.q ELSE r.model.q - m \div 2
    BY DEF MarketHalfTrust
  <2> HIDE DEF m
  <2>. QED  BY <1>1, <2>2, <2>3
<1>. QED  BY <1>1, <1>2, <1>3, <1>4, <1>5

LEMMA IdentitiesDiffer ==
  ASSUME NEW rows, RowsKnown(rows)
  PROVE  \A r, o \in rows : Identity(r) \in Int /\ (r # o => Identity(r) # Identity(o))
<1>1. ASSUME NEW r \in rows, NEW o \in rows
      PROVE  Identity(r) \in Int /\ (Identity(r) = Identity(o) => r = o)
  <2>1. PICK g \in Schedule : r.game = g.id
    BY DEF RowsKnown, RowKnown
  <2>2. PICK h \in Schedule : o.game = h.id
    BY DEF RowsKnown, RowKnown
  <2>3. /\ r.offer.market \in Markets /\ r.offer.side \in AnySide
        /\ o.offer.market \in Markets /\ o.offer.side \in AnySide
    BY DEF RowsKnown, RowKnown
  <2>4. Identity(r) \in Int
    BY <2>1, <2>3, PlaceAssumption DEF Identity
  <2>5. ASSUME Identity(r) = Identity(o)  PROVE r = o
    <3>1. g.id = h.id /\ r.offer.market = o.offer.market /\ r.offer.side = o.offer.side
      BY <2>1, <2>2, <2>3, <2>5, PlaceAssumption DEF Identity
    <3>. QED  BY <2>1, <2>2, <3>1 DEF RowsKnown
  <2>. QED  BY <2>4, <2>5
<1>. QED  BY <1>1

\* Of known rows one has the key before the others', if the key ends in identity.
LEMMA OneIsForemost ==
  ASSUME NEW rows, RowsKnown(rows), NEW S \in SUBSET rows, S # {}, NEW n \in Nat \ {0}, NEW k,
         \A r \in S : Numbers(k[r], n) /\ k[r][n] = Identity(r)
  PROVE  \E r \in S : \A o \in S \ {r} : Ahead(k[r], k[o])
<1>1. IsFiniteSet(S)
  BY FS_Subset DEF RowsKnown
<1>2. \A r, o \in S : r # o => k[r][n] # k[o][n]
  BY IdentitiesDiffer
<1>. QED  BY <1>1, <1>2, OneIsFirst

LEMMA HitRateIs ==
  ASSUME NEW rows, RowsKnown(rows)
  PROVE  SelectHitRate(rows) = No \/ SelectHitRate(rows) \in {r \in rows : CommonModelOffer(r)}
<1> DEFINE eligible(r) == CommonModelOffer(r) /\ r.model.q >= 5500 /\ Within(r, -300, 200)
           key(r) == <<-MarketHalfTrust(r), -r.model.q, -ReliabilityRank(r), -Odds(r), Identity(r)>>
           S == {r \in rows : eligible(r)}
           k == [r \in S |-> key(r)]
<1>1. SelectHitRate(rows) =
        IF S = {} THEN No ELSE CHOOSE r \in S : \A o \in S \ {r} : Ahead(key(r), key(o))
  BY DEF SelectHitRate, Foremost
<1>2. \A r \in S : Numbers(key(r), 5) /\ key(r)[5] = Identity(r)
  BY RowNumbers, IdentitiesDiffer DEF Numbers, RowsKnown
<1>3. \A r \in S : CommonModelOffer(r)
  OBVIOUS
<1>4. S \in SUBSET rows
  OBVIOUS
<1> HIDE DEF S, key
<1>5. S # {} => \E r \in S : \A o \in S \ {r} : Ahead(key(r), key(o))
  <2>1. SUFFICES ASSUME S # {}  PROVE \E r \in S : \A o \in S \ {r} : Ahead(key(r), key(o))
    OBVIOUS
  <2>2. \A r \in S : k[r] = key(r)
    OBVIOUS
  <2> HIDE DEF k
  <2>3. \A r \in S : Numbers(k[r], 5) /\ k[r][5] = Identity(r)
    BY <1>2, <2>2
  <2>4. PICK r \in S : \A o \in S \ {r} : Ahead(k[r], k[o])
    <3>1. 5 \in Nat \ {0}
      OBVIOUS
    <3>. QED  BY <1>4, <2>1, <2>3, <3>1, OneIsForemost, Zenon
  <2>5. \A o \in S \ {r} : Ahead(key(r), key(o))
    BY <2>2, <2>4
  <2>. QED  BY <2>5
<1>6. S # {} => SelectHitRate(rows) \in S
  BY <1>1, <1>5, Zenon
<1>. QED  BY <1>1, <1>3, <1>4, <1>6

LEMMA BalancedIs ==
  ASSUME NEW rows, RowsKnown(rows)
  PROVE  SelectBalanced(rows) = No \/ SelectBalanced(rows) \in {r \in rows : CommonModelOffer(r)}
<1> DEFINE utility(r) == MarketHalfTrust(r) - Max({Be(r) - 5000, 0})
           key(r) == <<-utility(r), -MarketHalfTrust(r), -r.model.q, -ReliabilityRank(r), -Odds(r), Identity(r)>>
           S == {r \in rows : BalancedEligible(r)}
           k == [r \in S |-> key(r)]
<1>1. SelectBalanced(rows) =
        IF S = {} THEN No ELSE CHOOSE r \in S : \A o \in S \ {r} : Ahead(key(r), key(o))
  BY DEF SelectBalanced, Foremost
<1>2. ASSUME NEW r \in S  PROVE Numbers(key(r), 6) /\ key(r)[6] = Identity(r)
  <2>1. RowKnown(r) /\ Identity(r) \in Int
    BY IdentitiesDiffer DEF RowsKnown
  <2>2. Max({Be(r) - 5000, 0}) \in Int
    <3>1. Be(r) - 5000 \in Int
      BY <2>1, RowNumbers
    <3>2. Max({Be(r) - 5000, 0}) = IF Be(r) - 5000 >= 0 THEN Be(r) - 5000 ELSE 0
      BY <3>1, MaxOfTwo
    <3>. QED  BY <3>1, <3>2
  <2>3. utility(r) \in Int
    BY <2>1, <2>2, RowNumbers
  <2> HIDE DEF utility
  <2>. QED  BY <2>1, <2>3, RowNumbers DEF Numbers
<1>3. \A r \in S : CommonModelOffer(r)
  BY DEF BalancedEligible
<1>4. S \in SUBSET rows
  OBVIOUS
<1> HIDE DEF S, key
<1>5. S # {} => \E r \in S : \A o \in S \ {r} : Ahead(key(r), key(o))
  <2>1. SUFFICES ASSUME S # {}  PROVE \E r \in S : \A o \in S \ {r} : Ahead(key(r), key(o))
    OBVIOUS
  <2>2. \A r \in S : k[r] = key(r)
    OBVIOUS
  <2> HIDE DEF k
  <2>3. \A r \in S : Numbers(k[r], 6) /\ k[r][6] = Identity(r)
    BY <1>2, <2>2
  <2>4. PICK r \in S : \A o \in S \ {r} : Ahead(k[r], k[o])
    <3>1. 6 \in Nat \ {0}
      OBVIOUS
    <3>. QED  BY <1>4, <2>1, <2>3, <3>1, OneIsForemost, Zenon
  <2>5. \A o \in S \ {r} : Ahead(key(r), key(o))
    BY <2>2, <2>4
  <2>. QED  BY <2>5
<1>6. S # {} => SelectBalanced(rows) \in S
  BY <1>1, <1>5, Zenon
<1>. QED  BY <1>1, <1>3, <1>4, <1>6

LEMMA MoneyFrontierIs ==
  ASSUME NEW rows, RowsKnown(rows)
  PROVE  MoneyFrontier(rows) = No \/ MoneyFrontier(rows) \in MoneyCandidates(rows)
<1> DEFINE key(r) == <<-Gap(r), -r.model.q, -Edge(r), -ReliabilityRank(r), -Odds(r), Identity(r)>>
           S == MoneyCandidates(rows)
           k == [r \in S |-> key(r)]
<1>1. MoneyFrontier(rows) =
        IF S = {} THEN No ELSE CHOOSE r \in S : \A o \in S \ {r} : Ahead(key(r), key(o))
  BY DEF MoneyFrontier, Foremost
<1>4. S \in SUBSET rows
  BY DEF MoneyCandidates
<1> HIDE DEF S
<1>2. \A r \in S : Numbers(key(r), 6) /\ key(r)[6] = Identity(r)
  BY <1>4, RowNumbers, IdentitiesDiffer DEF Numbers, RowsKnown
<1> HIDE DEF key
<1>5. S # {} => \E r \in S : \A o \in S \ {r} : Ahead(key(r), key(o))
  <2>1. SUFFICES ASSUME S # {}  PROVE \E r \in S : \A o \in S \ {r} : Ahead(key(r), key(o))
    OBVIOUS
  <2>2. \A r \in S : k[r] = key(r)
    OBVIOUS
  <2> HIDE DEF k
  <2>3. \A r \in S : Numbers(k[r], 6) /\ k[r][6] = Identity(r)
    BY <1>2, <2>2
  <2>4. PICK r \in S : \A o \in S \ {r} : Ahead(k[r], k[o])
    <3>1. 6 \in Nat \ {0}
      OBVIOUS
    <3>. QED  BY <1>4, <2>1, <2>3, <3>1, OneIsForemost, Zenon
  <2>5. \A o \in S \ {r} : Ahead(key(r), key(o))
    BY <2>2, <2>4
  <2>. QED  BY <2>5
<1>6. S # {} => MoneyFrontier(rows) \in S
  BY <1>1, <1>5, Zenon
<1>. QED  BY <1>1, <1>6 DEF S

LEMMA SpreadFrontierIs ==
  ASSUME NEW rows, RowsKnown(rows)
  PROVE  SpreadFrontier(rows) = No \/ SpreadFrontier(rows) \in SpreadCandidates(rows)
<1> DEFINE S == SpreadCandidates(rows)
           byModel(r) == <<-r.model.margin, Identity(r)>>
           byWorth(r) == <<-Edge(r), Identity(r)>>
           m(r) == Cardinality({o \in S : o = r \/ Ahead(byModel(o), byModel(r))})
           w(r) == Cardinality({o \in S : o = r \/ Ahead(byWorth(o), byWorth(r))})
           key(r) == <<Max({m(r), w(r)}), m(r) + w(r), m(r), w(r), -ReliabilityRank(r), -Odds(r), Identity(r)>>
           k == [r \in S |-> key(r)]
<1>1. SpreadFrontier(rows) =
        IF S = {} THEN No ELSE CHOOSE r \in S : \A o \in S \ {r} : Ahead(key(r), key(o))
  BY DEF SpreadFrontier, Foremost
<1>4. S \in SUBSET rows
  BY DEF SpreadCandidates
<1> HIDE DEF S
<1>7. IsFiniteSet(S)
  BY <1>4, FS_Subset DEF RowsKnown
<1>8. ASSUME NEW r  PROVE m(r) \in Int /\ w(r) \in Int
  <2> DEFINE A == {o \in S : o = r \/ Ahead(byModel(o), byModel(r))}
             B == {o \in S : o = r \/ Ahead(byWorth(o), byWorth(r))}
  <2>1. A \in SUBSET S /\ B \in SUBSET S
    OBVIOUS
  <2>2. m(r) = Cardinality(A) /\ w(r) = Cardinality(B)
    OBVIOUS
  <2> HIDE DEF A, B, m, w
  <2>3. IsFiniteSet(A) /\ IsFiniteSet(B)
    BY <1>7, <2>1, FS_Subset
  <2>. QED  BY <2>2, <2>3, FS_CardinalityType
<1> HIDE DEF m, w
<1>2. ASSUME NEW r \in S  PROVE Numbers(key(r), 7) /\ key(r)[7] = Identity(r)
  <2>1. RowKnown(r) /\ Identity(r) \in Int
    BY <1>4, IdentitiesDiffer DEF RowsKnown
  <2>2. m(r) \in Int /\ w(r) \in Int
    BY <1>8
  <2>3. Max({m(r), w(r)}) \in Int
    <3>1. Max({m(r), w(r)}) = IF m(r) >= w(r) THEN m(r) ELSE w(r)
      BY <2>2, MaxOfTwo
    <3>. QED  BY <2>2, <3>1
  <2>. QED  BY <2>1, <2>2, <2>3, RowNumbers DEF Numbers
<1> HIDE DEF key
<1>5. S # {} => \E r \in S : \A o \in S \ {r} : Ahead(key(r), key(o))
  <2>1. SUFFICES ASSUME S # {}  PROVE \E r \in S : \A o \in S \ {r} : Ahead(key(r), key(o))
    OBVIOUS
  <2>2. \A r \in S : k[r] = key(r)
    OBVIOUS
  <2> HIDE DEF k
  <2>3. \A r \in S : Numbers(k[r], 7) /\ k[r][7] = Identity(r)
    BY <1>2, <2>2
  <2>4. PICK r \in S : \A o \in S \ {r} : Ahead(k[r], k[o])
    <3>1. 7 \in Nat \ {0}
      OBVIOUS
    <3>. QED  BY <1>4, <2>1, <2>3, <3>1, OneIsForemost, Zenon
  <2>5. \A o \in S \ {r} : Ahead(key(r), key(o))
    BY <2>2, <2>4
  <2>. QED  BY <2>5
<1>6. S # {} => SpreadFrontier(rows) \in S
  BY <1>1, <1>5, Zenon
<1>. QED  BY <1>1, <1>6 DEF S

StateKnown(state) ==
  \A seen \in {state.ml, state.spread} : seen.n \in Nat /\ seen.predicted \in Int /\ seen.realized \in Int

LEMMA TrustIs ==
  ASSUME NEW seen, seen.n \in Nat, seen.predicted \in Int, seen.realized \in Int
  PROVE  Trust(seen) \in Int
<1> DEFINE m == One * seen.realized
           d == m \div seen.predicted
           data == IF seen.predicted <= 0 THEN 0 ELSE Min({One, Max({0, d})})
           x == 4 * One + seen.n * data
<1>1. m \in Int
  BY DEF One
<1>2. data \in Int
  <2>1. CASE seen.predicted <= 0
    BY <2>1
  <2>2. CASE seen.predicted > 0
    <3> HIDE DEF m
    <3>1. d \in Int
      BY <1>1, <2>2, Divided
    <3> HIDE DEF d
    <3> DEFINE y == Max({0, d})
    <3>2. y = IF 0 >= d THEN 0 ELSE d
      BY <3>1, MaxOfTwo
    <3>3. y \in Int
      BY <3>1, <3>2
    <3> HIDE DEF y
    <3>4. Min({One, y}) = IF One <= y THEN One ELSE y
      BY <3>3, MinOfTwo DEF One
    <3>5. data = Min({One, y})
      BY <2>2 DEF y
    <3>. QED  BY <3>3, <3>4, <3>5 DEF One
  <2>. QED  BY <2>1, <2>2
<1>3. Trust(seen) = IF seen.n = 0 THEN One \div 2 ELSE x \div (8 + seen.n)
  BY DEF Trust
<1> HIDE DEF data
<1>4. x \in Int
  BY <1>2 DEF One
<1> HIDE DEF x
<1>5. x \div (8 + seen.n) \in Int
  <2>1. 8 + seen.n \in Nat \ {0}
    OBVIOUS
  <2>. QED  BY <1>4, <2>1, Divided
<1>. QED  BY <1>3, <1>5 DEF One

LEMMA CrossMarketIs ==
  ASSUME NEW rows, RowsKnown(rows), NEW ml \in rows, NEW spread \in rows, NEW given \in Int
  PROVE  CrossMarket(ml, spread, given) \in {ml, spread, No}
<1> DEFINE worth(r) == IF r = ml THEN Min({(Gap(r) * given) \div One, Edge(r)}) ELSE Edge(r)
           key(r) == <<-worth(r), -ReliabilityRank(r), -Odds(r), Identity(r)>>
           S == {ml, spread}
           k == [r \in S |-> key(r)]
<1>1. CrossMarket(ml, spread, given) \in {ml, spread}
      \/ CrossMarket(ml, spread, given) = CHOOSE r \in S : \A o \in S \ {r} : Ahead(key(r), key(o))
  BY DEF CrossMarket, Foremost
<1>4. S \in SUBSET rows /\ S # {}
  OBVIOUS
<1>2. ASSUME NEW r \in S  PROVE Numbers(key(r), 4) /\ key(r)[4] = Identity(r)
  <2>1. RowKnown(r) /\ Identity(r) \in Int
    BY <1>4, IdentitiesDiffer DEF RowsKnown
  <2> DEFINE x == (Gap(r) * given) \div One
  <2>2. x \in Int
    <3>1. Gap(r) * given \in Int
      BY <2>1, RowNumbers
    <3>. QED  BY <3>1 DEF One
  <2>3. Edge(r) \in Int
    BY <2>1, RowNumbers
  <2> HIDE DEF x
  <2>4. Min({x, Edge(r)}) = IF x <= Edge(r) THEN x ELSE Edge(r)
    BY <2>2, <2>3, MinOfTwo
  <2>5. worth(r) \in Int
    BY <2>2, <2>3, <2>4 DEF x
  <2> HIDE DEF worth
  <2>. QED  BY <2>1, <2>5, RowNumbers DEF Numbers
<1> HIDE DEF S, key
<1>5. \E r \in S : \A o \in S \ {r} : Ahead(key(r), key(o))
  <2>1. S # {}
    BY <1>4
  <2>2. \A r \in S : k[r] = key(r)
    OBVIOUS
  <2> HIDE DEF k
  <2>3. \A r \in S : Numbers(k[r], 4) /\ k[r][4] = Identity(r)
    BY <1>2, <2>2
  <2>4. PICK r \in S : \A o \in S \ {r} : Ahead(k[r], k[o])
    <3>1. 4 \in Nat \ {0}
      OBVIOUS
    <3>. QED  BY <1>4, <2>1, <2>3, <3>1, OneIsForemost, Zenon
  <2>5. \A o \in S \ {r} : Ahead(key(r), key(o))
    BY <2>2, <2>4
  <2>. QED  BY <2>5
<1>6. CrossMarket(ml, spread, given) \in {ml, spread} \/ CrossMarket(ml, spread, given) \in S
  BY <1>1, <1>5, Zenon
<1>. QED  BY <1>6 DEF S

\* What the value lane chooses is worth more than it costs.
LEMMA ValueIs ==
  ASSUME NEW rows, RowsKnown(rows), NEW state, StateKnown(state)
  PROVE  SelectValue(rows, state) = No \/ SelectValue(rows, state) \in {r \in rows : StrictValue(r)}
<1> DEFINE ml == MoneyFrontier(rows)
           spread == SpreadFrontier(rows)
           given == Trust(state.ml)
           cross == CrossMarket(ml, spread, given)
           S == {r \in rows : StrictValue(r)}
<1>1. ml = No \/ ml \in S
  BY MoneyFrontierIs DEF MoneyCandidates
<1>2. spread = No \/ spread \in S
  BY SpreadFrontierIs DEF SpreadCandidates
<1>3. given \in Int
  BY TrustIs DEF StateKnown
<1>4. SelectValue(rows, state) \in {No, spread, cross}
  BY DEF SelectValue
<1> HIDE DEF ml, spread, given, S
<1>5. cross = No \/ cross \in S
  <2>1. CASE ml = No
    BY <1>2, <2>1 DEF CrossMarket
  <2>2. CASE spread = No
    BY <1>1, <2>2 DEF CrossMarket
  <2>3. CASE ml \in S /\ spread \in S
    <3>1. ml \in rows /\ spread \in rows
      BY <2>3 DEF S
    <3>. QED  BY <1>3, <2>3, <3>1, CrossMarketIs
  <2>. QED  BY <1>1, <1>2, <2>1, <2>2, <2>3
<1>. QED  BY <1>2, <1>4, <1>5 DEF S

-----------------------------------------------------------------------------
\* The headlines.
LEMMA PlayThroughIs ==
  ASSUME NEW r, RowKnown(r), NEW lane, lane = "value" => r.eval.supported, PlayThrough(r, lane) # Absent
  PROVE  /\ PlayThrough(r, lane) < Odds(r)
         /\ lane = "value" => Worth(r.eval.q, PlayThrough(r, lane)) > 0
<1> DEFINE c == Concession(r.eval.tier, Fit.reliability[r.offer.market].radius)
           whole == Min({9900, Be(r) + c})
           target == IF lane = "value" THEN Min({whole, r.eval.q}) ELSE whole
           b == Threshold(target)
           paying == IF lane = "value" /\ Worth(r.eval.q, b) <= 0 THEN NextBetter(b) ELSE b
<1>1. /\ ~(c <= 0) /\ ~(paying >= Odds(r)) /\ PlayThrough(r, lane) = paying
  BY DEF PlayThrough
<1>2. c \in Nat
  <2>1. Fit.reliability[r.offer.market].radius \in Int
    BY BoardAssumption DEF RowKnown
  <2>. QED  BY <2>1, ConcessionIs
<1> HIDE DEF c
<1>3. Be(r) \in Nat /\ Odds(r) \in Int
  BY RowNumbers
<1>4. whole \in Nat /\ 0 < whole /\ whole <= 9900
  <2>1. Be(r) + c \in Int /\ 0 < Be(r) + c
    BY <1>1, <1>2, <1>3
  <2>2. whole = IF 9900 <= Be(r) + c THEN 9900 ELSE Be(r) + c
    BY <2>1, MinOfTwo
  <2>. QED  BY <2>1, <2>2
<1> HIDE DEF whole
<1>5. lane = "value" => r.eval.q \in Probability
  BY DEF RowKnown, EvalKnown
<1>6. /\ target \in Nat /\ 0 < target /\ target <= 9900
      /\ lane = "value" => target <= r.eval.q
  <2>1. CASE lane = "value"
    <3>1. r.eval.q \in Int /\ r.eval.q > 0
      BY <1>5, <2>1 DEF Probability
    <3>2. Min({whole, r.eval.q}) = IF whole <= r.eval.q THEN whole ELSE r.eval.q
      BY <1>4, <3>1, MinOfTwo
    <3>. QED  BY <1>4, <2>1, <3>1, <3>2
  <2>2. CASE lane # "value"
    BY <1>4, <2>2
  <2>. QED  BY <2>1, <2>2
<1> HIDE DEF target
<1>7. b \in Price /\ Worth(target, b) >= 0 /\ (b = -100 => 2 * target > One)
  BY <1>6, ThresholdIs
<1> HIDE DEF b
<1>8. lane = "value" => paying \in Price /\ Worth(r.eval.q, paying) > 0
  <2>1. SUFFICES ASSUME lane = "value"  PROVE paying \in Price /\ Worth(r.eval.q, paying) > 0
    OBVIOUS
  <2> DEFINE q == r.eval.q
  <2>2. q \in Nat /\ 0 < q /\ q < One /\ target <= q
    BY <1>5, <1>6, <2>1 DEF Probability
  <2> HIDE DEF q
  <2>3. Worth(q, b) \in Int /\ Worth(q, b) >= 0
    <3>1. Worth(target, b) \in Int /\ Worth(q, b) \in Int /\ Worth(target, b) <= Worth(q, b)
      BY <1>6, <1>7, <2>2, LikelierIsWorthMore
    <3>. QED  BY <1>7, <3>1
  <2>4. CASE Worth(q, b) > 0
    BY <1>7, <2>3, <2>4 DEF q
  <2>5. CASE Worth(q, b) = 0
    <3>1. b = -100 => 2 * q > One
      BY <1>6, <1>7, <2>2 DEF One
    <3>2. NextBetter(b) \in Price /\ Worth(q, NextBetter(b)) > 0
      BY <1>7, <2>2, <2>5, <3>1, BetterPays
    <3>. QED  BY <2>1, <2>5, <3>2 DEF q
  <2>. QED  BY <2>3, <2>4, <2>5
<1>9. paying \in Int
  BY <1>7, <1>8 DEF Price
<1> HIDE DEF paying
<1>. QED  BY <1>1, <1>3, <1>8, <1>9

LEMMA ValueAtIs ==
  ASSUME NEW a \in Int, ValueAt(a) # Absent
  PROVE  Eases(a, ValueAt(a), 1, 100) /\ EasesAtMost(a, ValueAt(a), 15, 1000)
<1> DEFINE better(k) == IF a < 0 /\ a + k > -100 THEN a + k + 199 ELSE a + k
           eases(k) == better(k) <= LongestPrice /\ Eases(a, better(k), 1, 100)
           steps == 1 .. LongestPrice - a
           Least(k) == eases(k) /\ \A j \in 1 .. k - 1 : ~eases(j)
           first == CHOOSE k \in steps : Least(k)
<1>1. /\ \E k \in steps : eases(k)
      /\ ValueAt(a) = better(first) /\ EasesAtMost(a, better(first), 15, 1000)
  BY DEF ValueAt
<1>2. \E k \in steps : Least(k)
  <2> DEFINE some == {k \in steps : eases(k)}
  <2>1. some # {} /\ some \subseteq Nat /\ some \subseteq steps /\ \A k \in some : eases(k)
    <3>1. steps \subseteq Nat
      BY DEF LongestPrice
    <3>. QED  BY <1>1, <3>1
  <2>2. PICK k \in some : \A j \in some : k =< j
    <3> HIDE DEF some
    <3>. QED  BY <2>1, LeastElement
  <2>3. ASSUME NEW j \in 1 .. k - 1, eases(j) PROVE FALSE
    <3>1. j \in steps /\ j < k
      BY <2>1, <2>2 DEF LongestPrice
    <3>. QED  BY <2>2, <2>3, <3>1
  <2>. QED  BY <2>1, <2>2, <2>3
<1>3. Least(first)
  <2> HIDE DEF Least
  <2>. QED  BY <1>2
<1>. QED  BY <1>1, <1>3

LEMMA HeadlineIs ==
  ASSUME NEW lane \in Lanes, NEW r, r # No => RowKnown(r) /\ r.eval.supported
  PROVE  LET h == Headline(lane, r)
         IN /\ h.row = r
            /\ h.through # Absent =>
                 /\ h.state = "BET" /\ h.through < Odds(r)
                 /\ lane = "value" => Worth(r.eval.q, h.through) > 0
            /\ h.valueAt # Absent =>
                 /\ h.state = "TARGET_ONLY"
                 /\ Worth(r.eval.q, Odds(r)) > 0
                 /\ Eases(Odds(r), h.valueAt, 1, 100)
                 /\ EasesAtMost(Odds(r), h.valueAt, 15, 1000)
<1> DEFINE h == Headline(lane, r)
<1>1. CASE r = No
  BY <1>1 DEF Headline, NoPlay
<1>2. CASE r # No /\ \E u : h = Bet(r, lane, u)
  <2>1. h.row = r /\ h.state = "BET" /\ h.valueAt = Absent /\ h.through = PlayThrough(r, lane)
    BY <1>2 DEF Bet
  <2>. QED  BY <1>2, <2>1, PlayThroughIs
<1>3. CASE r # No /\ h = Unplayed(r, "SUPPRESSED", Absent)
  BY <1>3 DEF Unplayed
<1>4. CASE /\ r # No /\ r.status = "VALUE" /\ ValueAt(Odds(r)) # Absent
           /\ h = Unplayed(r, "TARGET_ONLY", ValueAt(Odds(r)))
  <2>1. h.row = r /\ h.state = "TARGET_ONLY" /\ h.through = Absent /\ h.valueAt = ValueAt(Odds(r))
    BY <1>4 DEF Unplayed
  <2>2. Worth(r.eval.q, Odds(r)) > 0 /\ Odds(r) \in Int
    BY <1>4 DEF RowKnown, Odds, Price
  <2>. QED  BY <1>4, <2>1, <2>2, ValueAtIs
<1>5. \/ r = No
      \/ r # No /\ \E u : h = Bet(r, lane, u)
      \/ r # No /\ h = Unplayed(r, "SUPPRESSED", Absent)
      \/ /\ r # No /\ r.status = "VALUE" /\ ValueAt(Odds(r)) # Absent
         /\ h = Unplayed(r, "TARGET_ONLY", ValueAt(Odds(r)))
  <2> DEFINE x == Headline(lane, r)
             u1 == HitRateStake(r)
             u2 == Max({3, RowUnits(r)})
             u3 == RowUnits(r)
  <2>1. \/ r = No
        \/ r # No /\ (x = Bet(r, lane, u1) \/ x = Bet(r, lane, u2) \/ x = Bet(r, lane, u3))
        \/ r # No /\ x = Unplayed(r, "SUPPRESSED", Absent)
        \/ /\ r # No /\ r.status = "VALUE" /\ ValueAt(Odds(r)) # Absent
           /\ x = Unplayed(r, "TARGET_ONLY", ValueAt(Odds(r)))
    BY DEF Headline
  <2> HIDE DEF x, u1, u2, u3
  <2>. QED  BY <2>1 DEF x
<1>. QED  BY <1>1, <1>2, <1>3, <1>4, <1>5

\* A lane may present nothing, or one of the rows that its market and model allow.
Presents(h, lane, rows) ==
  \E r : h = Headline(lane, r) /\ (r = No \/ (r \in rows /\ CommonModelOffer(r)))

LEMMA HeadlinesAre ==
  ASSUME NEW rows, RowsKnown(rows), NEW state, StateKnown(state), NEW lane \in Lanes
  PROVE  Presents(Headlines(rows, state)[lane], lane, rows)
<1>1. CASE lane = "hit_rate"
  <2> DEFINE r == SelectHitRate(rows)
  <2>1. r = No \/ (r \in rows /\ CommonModelOffer(r))
    BY HitRateIs
  <2>2. Headlines(rows, state)[lane] = Headline(lane, r)
    BY <1>1 DEF Headlines
  <2>. QED  BY <2>1, <2>2 DEF Presents
<1>2. CASE lane = "balanced"
  <2> DEFINE r == SelectBalanced(rows)
  <2>1. r = No \/ (r \in rows /\ CommonModelOffer(r))
    BY BalancedIs
  <2>2. Headlines(rows, state)[lane] = Headline(lane, r)
    BY <1>2 DEF Headlines
  <2>. QED  BY <2>1, <2>2 DEF Presents
<1>3. CASE lane = "value"
  <2> DEFINE r == SelectValue(rows, state)
  <2>1. r = No \/ (r \in rows /\ CommonModelOffer(r))
    BY ValueIs DEF StrictValue
  <2>2. Headlines(rows, state)[lane] = Headline(lane, r)
    BY <1>3 DEF Headlines
  <2>. QED  BY <2>1, <2>2 DEF Presents
<1>. QED  BY <1>1, <1>2, <1>3 DEF Lanes

-----------------------------------------------------------------------------
\* What is served was built of a response, and of what the lane had learnt before
\* the week.
BuiltFrom(p, response, state) ==
  /\ p.at \in Int /\ Normalizes(response, p.at)
  /\ p.snapshot = MarketSnapshot(response, p.at)
  /\ p.rows = EvaluateCandidates(p.snapshot)
  /\ p.headlines = Headlines(p.rows, state)
  /\ p.roofs = [g \in Schedule |-> RoofScenarios(g, MarketSnapshotIndex(p.snapshot[g.id], g))]

LiveInv ==
  /\ now \in Int /\ feed \in Feeds
  /\ now < LastTime => trust \in Trusts
  /\ capture # No => now < LastTime /\ capture.response \in Feeds /\ capture.at \in Int
  /\ served # No => \E response \in Feeds, state \in Trusts : BuiltFrom(served, response, state)

\* Nothing is served but what the refresh built of a response that could be read,
\* and a week is settled only when no refresh is left to build on what it teaches.
THEOREM LiveInvariant == LiveSpec => []LiveInv
<1>1. LiveInit => LiveInv
  <2>1. Times \subseteq Int
    BY LiveAssumption
  <2>. QED  BY <2>1 DEF LiveInit, LiveInv
<1>2. ASSUME LiveInv, [LiveNext]_liveVars  PROVE LiveInv'
  <2> USE <1>2
  <2>1. CASE MoveFeed
    <3>1. now' = now + Pause /\ feed' \in Feeds /\ now < LastTime
      BY <2>1, LiveAssumption DEF MoveFeed, LiveInv
    <3>2. now' \in Int /\ trust' \in Trusts
      BY <2>1, <3>1, LiveAssumption DEF MoveFeed, LiveInv
    <3>. QED  BY <2>1, <3>1, <3>2 DEF MoveFeed, LiveInv
  <2>2. CASE AcquireLiveResponse
    BY <2>2 DEF AcquireLiveResponse, LiveInv
  <2>3. CASE RefuseCapture
    <3>1. now' = now + 1 /\ now < LastTime
      BY <2>3 DEF RefuseCapture, LiveInv
    <3>2. now' \in Int /\ trust' \in Trusts
      BY <2>3, <3>1 DEF RefuseCapture, LiveInv
    <3>. QED  BY <2>3, <3>1, <3>2 DEF RefuseCapture, LiveInv
  <2>4. CASE BuildProduct
    <3>1. /\ capture.response \in Feeds /\ capture.at \in Int /\ trust \in Trusts
          /\ Normalizes(capture.response, capture.at)
      BY <2>4 DEF BuildProduct, LiveInv
    <3> DEFINE snapshot == MarketSnapshot(capture.response, capture.at)
               rows == EvaluateCandidates(snapshot)
               shown == [g \in Schedule |-> RoofScenarios(g, MarketSnapshotIndex(snapshot[g.id], g))]
    <3>2. served' = [at |-> capture.at, snapshot |-> snapshot, rows |-> rows,
                     headlines |-> Headlines(rows, trust), roofs |-> shown]
      BY <2>4 DEF BuildProduct
    <3>3. BuiltFrom(served', capture.response, trust)
      <4> HIDE DEF snapshot, rows, shown
      <4>1. /\ served'.at = capture.at /\ served'.snapshot = snapshot /\ served'.rows = rows
            /\ served'.headlines = Headlines(rows, trust) /\ served'.roofs = shown
        BY <3>2
      <4>. QED  BY <3>1, <4>1 DEF BuiltFrom, snapshot, rows, shown
    <3>4. now' \in Int /\ feed' \in Feeds /\ (now' < LastTime => trust' \in Trusts) /\ capture' = No
      BY <2>4 DEF BuildProduct, LiveInv
    <3> HIDE DEF snapshot, rows, shown
    <3>. QED  BY <3>1, <3>3, <3>4 DEF LiveInv
  <2>5. CASE SettleWeek
    <3>1. now' = now /\ now = LastTime /\ capture = No /\ capture' = No
      BY <2>5 DEF SettleWeek, LiveInv
    <3>2. LastTime \in Int
      BY LiveAssumption
    <3>. QED  BY <2>5, <3>1, <3>2 DEF SettleWeek, LiveInv
  <2>6. CASE UNCHANGED liveVars
    BY <2>6 DEF liveVars, LiveInv
  <2>. QED  BY <1>2, <2>1, <2>2, <2>3, <2>4, <2>5, <2>6 DEF LiveNext
<1>. QED  BY <1>1, <1>2, PTL DEF LiveSpec

\* What is served, read through its rows.
LEMMA ServedIs ==
  ASSUME LiveInv, served # No
  PROVE  /\ BoardsKnown(served.snapshot, served.at) /\ served.at \in Int
         /\ RowsKnown(served.rows)
         /\ \A r \in served.rows : \E g \in Schedule : RowOf(r, g, IndexOf(served.snapshot, g))
         /\ \A lane \in Lanes : Presents(HeadlineOf(lane), lane, served.rows)
         /\ \A g \in Schedule : served.roofs[g] = RoofScenarios(g, IndexOf(served.snapshot, g))
<1>1. PICK response \in Feeds, state \in Trusts : BuiltFrom(served, response, state)
  BY DEF LiveInv
<1> DEFINE snapshot == served.snapshot
           at == served.at
           rows == served.rows
<1>2. /\ at \in Int /\ Normalizes(response, at) /\ snapshot = MarketSnapshot(response, at)
      /\ rows = EvaluateCandidates(snapshot)
      /\ served.headlines = Headlines(rows, state)
      /\ served.roofs = [g \in Schedule |-> RoofScenarios(g, MarketSnapshotIndex(snapshot[g.id], g))]
  BY <1>1 DEF BuiltFrom
<1>3. BoardsKnown(snapshot, at)
  BY <1>2, MarketSnapshotIs DEF BoardsKnown
<1> HIDE DEF snapshot, at, rows
<1>4. RowsKnown(rows) /\ \A r \in rows : \E g \in Schedule : RowOf(r, g, IndexOf(snapshot, g))
  BY <1>2, <1>3, RowsAre
<1>5. StateKnown(state)
  BY LiveAssumption DEF StateKnown
<1>6. \A lane \in Lanes : Presents(Headlines(rows, state)[lane], lane, rows)
  BY <1>4, <1>5, HeadlinesAre
<1>7. \A g \in Schedule : served.roofs[g] = RoofScenarios(g, IndexOf(snapshot, g))
  BY <1>2 DEF IndexOf
<1>. QED  BY <1>2, <1>3, <1>4, <1>6, <1>7 DEF snapshot, at, rows, HeadlineOf

\* Whatever the odds move to, the offers are and the evaluators were fitted on, the
\* backend answers of a row's own offer what the row says.
THEOREM BackendAgrees == LiveSpec => []EvaluatorsAgree
<1>1. ASSUME LiveInv  PROVE EvaluatorsAgree
  <2>1. SUFFICES ASSUME served # No, NEW r \in served.rows
                 PROVE  LET g == CHOOSE x \in Schedule : x.id = r.game
                            answer == EvaluateExactOffer(g, r.offer)
                        IN /\ answer.supported = r.eval.supported
                           /\ answer.q = r.eval.q
                           /\ answer.units = RowUnits(r)
                           /\ r.status = "LEAN" => answer.verdict = "NO"
    BY DEF EvaluatorsAgree
  <2> DEFINE snapshot == served.snapshot
  <2>2. PICK g \in Schedule : RowOf(r, g, IndexOf(snapshot, g))
    BY <1>1, <2>1, ServedIs
  <2>3. (CHOOSE x \in Schedule : x.id = r.game) = g
    BY <2>2, BoardAssumption DEF RowOf
  <2> DEFINE m == r.offer.market
             anchor == Anchors(IndexOf(snapshot, g))[m]
             e == IF anchor = No THEN Unsupported(0) ELSE EvaluateOffer(Outputs(g.id), r.offer, anchor)
             units == Units(e, Fit.reliability[m], r.offer.price)
             answer == EvaluateExactOffer(g, r.offer)
  <2>4. BoardKnown(snapshot[g.id], g, served.at)
    BY <1>1, <2>1, ServedIs DEF BoardsKnown
  <2>5. /\ ServedIndex(snapshot[g.id], g) = IndexOf(snapshot, g)
        /\ IndexKnown(IndexOf(snapshot, g))
    BY <2>4, IndexIs DEF IndexOf
  <2>6. m \in Markets
    BY <2>2 DEF RowOf, RowKnown
  <2>7. ServedAnchor(ServedIndex(snapshot[g.id], g), m) = anchor
    <3> HIDE DEF m, snapshot
    <3>. QED  BY <2>5, <2>6, AnchorsAgree
  <2>8. /\ answer.supported = e.supported /\ answer.q = e.q /\ answer.units = units
        /\ answer.verdict = IF ~e.supported THEN "UNSUPPORTED" ELSE IF units > 0 THEN "BET" ELSE "NO"
    <3> HIDE DEF anchor
    <3>. QED  BY <2>7 DEF EvaluateExactOffer
  <2> HIDE DEF answer, anchor
  <2>9. r.eval = e
    BY <2>2 DEF RowOf, anchor
  <2>10. units = RowUnits(r)
    BY <2>9 DEF RowUnits, Odds
  <2>11. r.status = "LEAN" => e.supported /\ units = 0
    BY <2>2, <2>9 DEF RowOf, RowKnown
  <2> HIDE DEF e, units
  <2>12. r.status = "LEAN" => answer.verdict = "NO"
    BY <2>8, <2>11
  <2>. QED  BY <2>3, <2>8, <2>9, <2>10, <2>12 DEF answer
<1>. QED  BY <1>1, LiveInvariant, PTL

\* Every boundary is one that holds, and a price to wait for eases what it says.
THEOREM BoundariesHold == LiveSpec => []BoundariesPay
<1>1. ASSUME LiveInv, served # No, NEW r \in served.rows, r.eval.supported
      PROVE  LET reliability == Fit.reliability[r.offer.market]
                 boundary == Threshold(PlayableTo(r.eval, reliability))
                 plays(price) == Status(r.eval, reliability, price) \in {"VALUE", "PLAYABLE"}
             IN plays(boundary) /\ (r.eval.q <= 9900 => ~plays(NextWorse(boundary)))
  <2>1. RowKnown(r)
    BY <1>1, ServedIs DEF RowsKnown
  <2>2. r.eval.q \in Probability /\ Fit.reliability[r.offer.market].radius \in Int
    BY <1>1, <2>1, BoardAssumption DEF RowKnown, EvalKnown
  <2> DEFINE e == r.eval
             state == Fit.reliability[r.offer.market]
  <2>3. e.supported /\ e.q \in Probability /\ state.radius \in Int
    BY <1>1, <2>2
  <2> HIDE DEF e, state
  <2>4. LET b == Threshold(PlayableTo(e, state))
        IN /\ Status(e, state, b) \in {"VALUE", "PLAYABLE"}
           /\ e.q <= 9900 => Status(e, state, NextWorse(b)) \notin {"VALUE", "PLAYABLE"}
    BY <2>3, BoundaryHolds
  <2>. QED  BY <2>4 DEF e, state
<1>2. ASSUME LiveInv, served # No, NEW lane \in Lanes
      PROVE  LET h == HeadlineOf(lane)
             IN /\ h.through # Absent =>
                     /\ h.state = "BET" /\ h.through < Odds(h.row)
                     /\ lane = "value" => Worth(h.row.eval.q, h.through) > 0
                /\ h.valueAt # Absent =>
                     /\ h.state = "TARGET_ONLY"
                     /\ Worth(h.row.eval.q, Odds(h.row)) > 0
                     /\ Eases(Odds(h.row), h.valueAt, 1, 100)
                     /\ EasesAtMost(Odds(h.row), h.valueAt, 15, 1000)
  <2>1. PICK r : /\ HeadlineOf(lane) = Headline(lane, r)
                 /\ r = No \/ (r \in served.rows /\ CommonModelOffer(r))
    BY <1>2, ServedIs DEF Presents
  <2>2. r # No => RowKnown(r) /\ r.eval.supported
    BY <1>2, <2>1, ServedIs DEF RowsKnown, CommonModelOffer
  <2> DEFINE h == Headline(lane, r)
  <2>3. /\ h.row = r
        /\ h.through # Absent =>
             /\ h.state = "BET" /\ h.through < Odds(r)
             /\ lane = "value" => Worth(r.eval.q, h.through) > 0
        /\ h.valueAt # Absent =>
             /\ h.state = "TARGET_ONLY"
             /\ Worth(r.eval.q, Odds(r)) > 0
             /\ Eases(Odds(r), h.valueAt, 1, 100)
             /\ EasesAtMost(Odds(r), h.valueAt, 15, 1000)
    BY <2>2, HeadlineIs
  <2> HIDE DEF h
  <2>. QED  BY <2>1, <2>3 DEF h
<1>3. ASSUME LiveInv  PROVE BoundariesPay
  BY <1>1, <1>2, <1>3 DEF BoundariesPay
<1>. QED  BY <1>3, LiveInvariant, PTL

\* What a headline about a row of a game promises.
RestsOn(h, g) ==
  LET name == IF h.offer.side = "home" THEN g.home ELSE g.away
      quoted == {o \in served.snapshot[g.id] :
                   /\ o.market = h.offer.market /\ o.name = name
                   /\ o.book \in Actionable /\ served.at - o.seen <= Threshold900}
  IN /\ h.eval.supported
     /\ served.roofs[g] = "ROOF_SENSITIVE" => h.offer.market # "moneyline"
     /\ \E o \in quoted : o.price = h.offer.price /\ o.line = h.offer.line /\ o.book = h.offer.book
     /\ \A o \in quoted : \/ o.line < h.offer.line
                          \/ o.line = h.offer.line /\ o.price <= h.offer.price

\* No headline rests on anything but the best of what the served board shows.
THEOREM HeadlinesRest == LiveSpec => []HeadlinesRestOnTheBoard
<1>1. ASSUME LiveInv  PROVE HeadlinesRestOnTheBoard
  <2>1. SUFFICES ASSUME served # No, NEW lane \in Lanes, HeadlineOf(lane).row # No
                 PROVE  LET row == HeadlineOf(lane).row
                        IN RestsOn(row, CHOOSE x \in Schedule : x.id = row.game)
    BY DEF HeadlinesRestOnTheBoard, RestsOn
  <2>2. PICK h : /\ HeadlineOf(lane) = Headline(lane, h)
                 /\ h = No \/ (h \in served.rows /\ CommonModelOffer(h))
    BY <1>1, <2>1, ServedIs DEF Presents
  <2>3. HeadlineOf(lane).row = h
    <3>1. h # No => RowKnown(h) /\ h.eval.supported
      BY <1>1, <2>1, <2>2, ServedIs DEF RowsKnown, CommonModelOffer
    <3>. QED  BY <2>2, <3>1, HeadlineIs
  <2>4. h \in served.rows /\ h.eval.supported /\ h.offer.market \in {"moneyline", "spread"}
    BY <2>1, <2>2, <2>3 DEF CommonModelOffer
  <2> DEFINE snapshot == served.snapshot
             at == served.at
  <2>5. PICK g \in Schedule : RowOf(h, g, IndexOf(snapshot, g))
    BY <1>1, <2>1, <2>4, ServedIs
  <2>6. (CHOOSE x \in Schedule : x.id = h.game) = g
    BY <2>5, BoardAssumption DEF RowOf
  <2> DEFINE board == snapshot[g.id]
             index == IndexOf(snapshot, g)
             m == h.offer.market
             s == h.offer.side
             name == IF s = "home" THEN g.home ELSE g.away
             quoted == {o \in board : /\ o.market = m /\ o.name = name
                                      /\ o.book \in Actionable /\ at - o.seen <= Threshold900}
             shopped == Quoted(index, m, s, Actionable)
  <2>7. BoardKnown(board, g, at) /\ at \in Int
    BY <1>1, <2>1, ServedIs DEF BoardsKnown
  <2>8. index = {Listed(o, g) : o \in {p \in board : p.state # "STALE"}}
    BY <2>7, IndexIs DEF IndexOf
  <2>9. served.roofs[g] = RoofScenarios(g, index)
    BY <1>1, <2>1, ServedIs
  <2>10. /\ h.offer \in shopped /\ s \in {"home", "away"}
         /\ \A o \in shopped \ {h.offer} : ~Better(o, h.offer)
         /\ m = "moneyline" => ModelCategory(Football[g.id].roof) # "pending"
         /\ h.offer.line \in Int /\ h.offer.price \in Int
    BY <2>4, <2>5 DEF RowOf, RowKnown, Sides, Price
  <2>11. served.roofs[g] = "ROOF_SENSITIVE" => m # "moneyline"
    BY <2>9, <2>10 DEF RoofScenarios
  <2>12. g.home # g.away
    BY BoardAssumption
  <2> HIDE DEF snapshot, at, board, index
  <2>13. ASSUME NEW o \in board
         PROVE  /\ o.seen \in Int /\ o.line \in Int /\ o.price \in Int
                /\ o.state # "STALE" <=> at - o.seen <= Threshold900
                /\ o.market = m => (ListedSide(o, g) = s <=> o.name = name)
    <3>1. OfferKnown(o, g, at)
      BY <2>7 DEF BoardKnown
    <3>2. o.state # "STALE" <=> at - o.seen <= Threshold900
      BY <2>7, <3>1 DEF OfferKnown, FreshnessOf, Threshold900
    <3>3. o.market = m => (ListedSide(o, g) = s <=> o.name = name)
      BY <2>4, <2>10, <2>12, <3>1 DEF OfferKnown, ListedSide
    <3>. QED  BY <3>1, <3>2, <3>3 DEF OfferKnown, Price
  <2>14. \A x : x \in shopped <=> x \in index /\ x.market = m /\ x.side = s /\ x.book \in Actionable
    BY DEF Quoted
  <2>15. \E o \in quoted : o.price = h.offer.price /\ o.line = h.offer.line /\ o.book = h.offer.book
    <3>1. PICK o \in board : o.state # "STALE" /\ h.offer = Listed(o, g)
      BY <2>8, <2>10, <2>14
    <3>2. /\ h.offer.market = o.market /\ h.offer.side = ListedSide(o, g) /\ h.offer.book = o.book
          /\ h.offer.price = o.price /\ h.offer.line = o.line
      BY <3>1 DEF Listed
    <3>3. o.book \in Actionable
      BY <2>10, <2>14, <3>2
    <3>. QED  BY <2>13, <3>1, <3>2, <3>3
  <2>16. ASSUME NEW o \in quoted
         PROVE  o.line < h.offer.line \/ (o.line = h.offer.line /\ o.price <= h.offer.price)
    <3>1. o \in board /\ o.market = m /\ o.name = name /\ o.book \in Actionable /\ o.state # "STALE"
      BY <2>13, <2>16
    <3> DEFINE x == Listed(o, g)
    <3>2. x.market = m /\ x.side = s /\ x.book = o.book /\ x.line = o.line /\ x.price = o.price
      BY <2>13, <3>1 DEF Listed
    <3>3. x \in index
      BY <2>8, <3>1
    <3> HIDE DEF x
    <3>4. x \in shopped
      BY <2>14, <3>1, <3>2, <3>3
    <3>5. x = h.offer \/ ~Better(x, h.offer)
      BY <2>10, <3>4
    <3>6. Number(x) = x.line /\ Number(h.offer) = h.offer.line
      BY <2>10, <3>2 DEF Number
    <3>7. x.line \in Int /\ x.price \in Int
      BY <2>13, <3>1, <3>2
    <3>. QED  BY <2>10, <3>2, <3>5, <3>6, <3>7 DEF Better
  <2>17. RestsOn(h, g)
    BY <2>4, <2>11, <2>15, <2>16 DEF RestsOn, snapshot, at, board
  <2>. QED  BY <2>3, <2>6, <2>17
<1>. QED  BY <1>1, LiveInvariant, PTL


=============================================================================
