------------------------ MODULE PlayObservations ------------------------
(***************************************************************************)
(* What the totals features keep of the plays of one game: per team, each  *)
(* metric as a numerator over a denominator, of its offence and of what    *)
(* its defence allowed.  A play is [team, drive, flags, qtr, clock,        *)
(* result]: flags hold the play-by-play columns that are 1, "void" for a   *)
(* play that was deleted or is of no countable type, "undropped" when the  *)
(* dropback column is missing; result is that of the drive, or "".         *)
(***************************************************************************)
EXTENDS Naturals, Integers, Sequences, FiniteSets, SequencesExt

CONSTANTS PlayFrames,           \* the frames of plays there may be
          HomeTeam, AwayTeam,
          MaxInterval,          \* MAX_INTERVAL_SECONDS, in the unit of the clock
          LateInGame            \* below it a play is not neutral

ASSUME FrameAssumption ==
  /\ MaxInterval \in Nat
  /\ \A frame \in PlayFrames :
       /\ Len(frame) \in Nat /\ DOMAIN frame = 1 .. Len(frame)
       /\ \A i \in DOMAIN frame : frame[i].clock \in Nat

VARIABLES plays,          \* the play-by-play frame, in play_id order
          observed,       \* by team: by metric, [n, d]
          observeStep     \* "read", "observed" or "refused"

observeVars == <<plays, observed, observeStep>>

Points == [Touchdown |-> 7, FieldGoal |-> 3, Safety |-> 2, Punt |-> 0, Turnover |-> 0]
ScoringResults == {"Touchdown", "FieldGoal"}

-----------------------------------------------------------------------------
\* Row semantics (pbp_semantics.py).

Is(p, flag) == flag \in p.flags

Vfp(p) == p.team # "" /\ ~Is(p, "void")
PassAttempt(p) == Vfp(p) /\ Is(p, "pass")
Completion(p) == PassAttempt(p) /\ Is(p, "complete")
RushAttempt(p) == Vfp(p) /\ Is(p, "rush") /\ ~Is(p, "kneel")

\* Where the dropback column is missing, attempts and sacks stand for it.
DropbackFallback(p) == Vfp(p) /\ Is(p, "undropped") /\ (Is(p, "pass") \/ Is(p, "sack"))
Dropback(p) == (Vfp(p) /\ Is(p, "dropback")) \/ DropbackFallback(p)

TurnoverEvent(p) == (PassAttempt(p) /\ Is(p, "intercepted")) \/ (Vfp(p) /\ Is(p, "fumbled"))

\* Close, in the first three quarters, and early enough.
Neutral(p) == Vfp(p) /\ p.qtr \in 1 .. 3 /\ Is(p, "close") /\ p.clock >= LateInGame

\* The row metrics: what a play counts in, and what of it is the event.
Denominator(p) ==
  [success |-> Vfp(p), pass |-> PassAttempt(p), completion |-> Completion(p),
   rush |-> RushAttempt(p), dropback |-> Dropback(p), turnover |-> TurnoverEvent(p),
   sackRate |-> Dropback(p), explosivePass |-> PassAttempt(p), explosiveRush |-> RushAttempt(p),
   neutralPass |-> PassAttempt(p) /\ Neutral(p), neutralRush |-> RushAttempt(p) /\ Neutral(p)]

Event(p) ==
  [success |-> Is(p, "success"), pass |-> TRUE, completion |-> TRUE, rush |-> TRUE,
   dropback |-> TRUE, turnover |-> TRUE, sackRate |-> Is(p, "sack"),
   explosivePass |-> Is(p, "long"), explosiveRush |-> Is(p, "long"),
   neutralPass |-> TRUE, neutralRush |-> TRUE]

RowMetrics == {"success", "pass", "completion", "rush", "dropback", "turnover",
               "sackRate", "explosivePass", "explosiveRush", "neutralPass", "neutralRush"}

PlaysOf(team) == {i \in DOMAIN plays : plays[i].team = team}

RowAggregate(team) ==
  [m \in RowMetrics |->
     LET counted == {i \in PlaysOf(team) : Denominator(plays[i])[m]}
     IN [n |-> Cardinality({i \in counted : Event(plays[i])[m]}), d |-> Cardinality(counted)]]

-----------------------------------------------------------------------------
\* Drives (drive_observations.py).  A drive of a team is its rows of that drive.

DriveRows(team, k) == {i \in PlaysOf(team) : plays[i].drive = k}
DriveResults(team, k) == {plays[i].result : i \in DriveRows(team, k)} \ {""}
DrivesOf(team) == {plays[i].drive : i \in PlaysOf(team)}

\* A possession has a countable play and a result, and no second result.
Possessions(team) ==
  {k \in DrivesOf(team) : (\E i \in DriveRows(team, k) : Vfp(plays[i])) /\ DriveResults(team, k) # {}}
Conflicts(team) == {k \in DrivesOf(team) : Cardinality(DriveResults(team, k)) > 1}
ResultOf(team, k) == CHOOSE r \in DriveResults(team, k) : TRUE

Opportunities(team, flag) ==
  {k \in Possessions(team) : \E i \in DriveRows(team, k) : Vfp(plays[i]) /\ Is(plays[i], flag)}

SumOver(S, f(_)) == SumFunction([k \in S |-> f(k)])

\* points_per_drive, scoring_drive_rate, turnovers_per_drive and the red zone.
DriveAggregate(team) ==
  LET P == Possessions(team)
      red == Opportunities(team, "redzone")
  IN [points |-> [n |-> SumOver(P, LAMBDA k : Points[ResultOf(team, k)]), d |-> Cardinality(P)],
      scoring |-> [n |-> Cardinality({k \in P : ResultOf(team, k) \in ScoringResults}),
                   d |-> Cardinality(P)],
      turnovers |-> [n |-> SumOver(P, LAMBDA k :
                             Cardinality({i \in DriveRows(team, k) : TurnoverEvent(plays[i])})),
                     d |-> Cardinality(P)],
      redZone |-> [n |-> Cardinality({k \in red : ResultOf(team, k) = "Touchdown"}),
                   d |-> Cardinality(red)]]

-----------------------------------------------------------------------------
\* Pace (pace_observations.py).

Half(qtr) == IF qtr \in 1 .. 2 THEN "first" ELSE IF qtr \in 3 .. 4 THEN "second" ELSE "overtime"
Hurried(p) == Is(p, "spike") \/ Is(p, "kneel")

\* Mutant: every interval is measured from the first play of the drive.
PriorPlayFirst(i) ==
  LET before == {j \in 1 .. i - 1 : /\ plays[j].team = plays[i].team
                                    /\ plays[j].drive = plays[i].drive /\ Vfp(plays[j])}
  IN IF before = {} THEN 0 ELSE Min(before)

\* The countable play of the same drive and team before the i-th, or 0.
PriorPlay(i) ==
  LET before == {j \in 1 .. i - 1 : /\ plays[j].team = plays[i].team
                                    /\ plays[j].drive = plays[i].drive /\ Vfp(plays[j])}
  IN IF before = {} THEN 0 ELSE Max(before)

\* build_pace_intervals: between two plays of one drive and one quarter, neither
\* of them a spike or a kneel, when the clock ran for a plausible time.
Intervals(team) ==
  {i \in PlaysOf(team) :
     LET j == PriorPlay(i)
     IN /\ Vfp(plays[i]) /\ j # 0
        /\ plays[j].qtr = plays[i].qtr /\ Half(plays[j].qtr) = Half(plays[i].qtr)
        /\ ~Hurried(plays[i]) /\ ~Hurried(plays[j])
        /\ plays[j].clock - plays[i].clock \in 1 .. MaxInterval}

Seconds(i) == plays[PriorPlay(i)].clock - plays[i].clock

PaceAggregate(team) ==
  LET neutral == {i \in Intervals(team) : Neutral(plays[PriorPlay(i)])}
  IN [seconds |-> [n |-> SumOver(Intervals(team), Seconds), d |-> Cardinality(Intervals(team))],
      neutralSeconds |-> [n |-> SumOver(neutral, Seconds), d |-> Cardinality(neutral)]]

-----------------------------------------------------------------------------
\* Games (game_observations.py).

\* aggregate_row_metrics: the neutral pass rate replaces the two neutral counts.
OffenseOf(team) ==
  LET rows == RowAggregate(team)
      drives == DriveAggregate(team)
      pace == PaceAggregate(team)
      passRate == [n |-> rows.neutralPass.n, d |-> rows.neutralPass.n + rows.neutralRush.n]
  IN [m \in (RowMetrics \ {"neutralPass", "neutralRush"}) \cup {"neutralPassRate"}
               \cup DOMAIN drives \cup DOMAIN pace |->
        IF m \in DOMAIN drives THEN drives[m]
        ELSE IF m \in DOMAIN pace THEN pace[m]
        ELSE IF m = "neutralPassRate" THEN passRate ELSE rows[m]]

TeamsSeen == {plays[i].team : i \in {j \in DOMAIN plays :
                (\E m \in RowMetrics : Denominator(plays[j])[m])
                  \/ plays[j].drive \in Possessions(plays[j].team)}}

\* build_team_updates: the two teams and no others, or no play at all; what a
\* team's defence allowed is what the other's offence did.
Refused ==
  \/ \E t \in {plays[i].team : i \in DOMAIN plays} \ {""} : Conflicts(t) # {}
  \/ TeamsSeen \notin {{}, {HomeTeam, AwayTeam}}

Opponent(team) == IF team = HomeTeam THEN AwayTeam ELSE HomeTeam

TeamUpdates ==
  IF TeamsSeen = {} THEN <<>>
  ELSE [t \in TeamsSeen |-> [offense |-> OffenseOf(t), defense |-> OffenseOf(Opponent(t))]]

ObserveGame ==
  /\ observeStep = "read"
  /\ IF Refused THEN observeStep' = "refused" /\ UNCHANGED observed
               ELSE observeStep' = "observed" /\ observed' = TeamUpdates
  /\ UNCHANGED plays

ObserveInit == plays \in PlayFrames /\ observed = <<>> /\ observeStep = "read"

ObserveSpec == ObserveInit /\ [][ObserveGame]_observeVars

-----------------------------------------------------------------------------
Quarters == {plays[i].qtr : i \in DOMAIN plays}

\* How long a team was seen to have the ball in a quarter of a drive.
Stint(t, k, q) == {plays[i].clock : i \in {j \in DriveRows(t, k) : plays[j].qtr = q}}
HadTheBall(t, k, q) == LET stint == Stint(t, k, q) IN IF stint = {} THEN 0 ELSE Max(stint) - Min(stint)

\* The frame has no correction of the clock: it runs down within a quarter.
ClockRunsDown ==
  \A i, j \in DOMAIN plays : i < j /\ plays[i].qtr = plays[j].qtr => plays[j].clock <= plays[i].clock

Consistent(t, o) ==
  /\ \A m \in {"success", "sackRate", "explosivePass", "explosiveRush", "scoring", "redZone"} :
       o[m].n <= o[m].d
  /\ o.sackRate.d = o.dropback.d
  /\ o.neutralPassRate.d <= o.pass.d + o.rush.d
  /\ o.turnovers.n <= o.turnover.n
  /\ o.points.d <= Cardinality(DrivesOf(t))
  /\ o.neutralSeconds.n <= o.seconds.n
  /\ ClockRunsDown =>
       o.seconds.n <= SumFunction([kq \in DrivesOf(t) \X Quarters |-> HadTheBall(t, kq[1], kq[2])])

\* What is observed of a game is consistent between metrics: no rate has more
\* events than chances, every sack is a dropback, the neutral plays are plays, the
\* turnovers of the drives are turnovers, and, when the clock runs down, the seconds
\* between the plays of a drive in a quarter do not exceed the time it had the ball.
ObservationsBalance == \A t \in DOMAIN observed : Consistent(t, observed[t].offense)

=============================================================================
