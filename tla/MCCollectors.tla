---------------------------- MODULE MCCollectors ----------------------------
(***************************************************************************)
(* The programs that run beside the product for TLC: the Sleeper audit and *)
(* its lock, the paid acquisition of odds, the news, the weekly inputs and *)
(* the 2025 holdout.  They share no state, so that whatever they do is,    *)
(* for each of them, what it does alone: a behaviour moves one of them.    *)
(* The lock has a part of its own, with more runs than the audit can have  *)
(* here.                                                                   *)
(***************************************************************************)
EXTENDS SleeperAudit, MarketEdge, NewsFiles, WeeklyInputs, Holdout

CONSTANT Subjects      \* the programs that may move

VARIABLE subject

-----------------------------------------------------------------------------
\* The Sleeper audit: two invocations, around the kickoff of the Hall of Fame game; the
\* others stay idle.
Audits == {"r1", "r2"}
Found(m, who) == [n \in {"sleeper", "gsis", "espn", "stable", "name"} |-> IF n = m THEN who ELSE {}]
Quarterback(isActive, injury, practice, roster, depth, found) ==
  [active |-> isActive, injury |-> injury, practice |-> practice, roster |-> roster,
   depth |-> depth, found |-> found]
Healthy == Quarterback(TRUE, "", "", "active", 1, Found("gsis", {"n1"}))
Hurt == Quarterback(TRUE, "out", "full", "active", 1, Found("name", {"n1", "n2"}))
Cut == Quarterback(FALSE, "", "", "inactive", 0, Found("gsis", {"n1"}))
MCPayloads == {[p1 |-> Healthy], [p1 |-> Hurt], [p1 |-> Cut, p2 |-> Healthy], <<>>}
Invoked(k1, k2) == [r \in Runs |-> IF r = "r1" THEN k1 ELSE k2]
MCKinds == {Invoked("pregame", "postgame"), Invoked("scheduled", "scheduled")}

-----------------------------------------------------------------------------
\* The odds: three games of a day in two requests, a budget for both, and answers that
\* are whole, too late, too dear, no JSON, refused or lost.
MCFixtures == [g1 |-> [day |-> 1, kick |-> 100, teams |-> {"A", "B"}],
               g2 |-> [day |-> 1, kick |-> 125, teams |-> {"C", "D"}],
               g3 |-> [day |-> 1, kick |-> 155, teams |-> {"E", "F"}]]
BookLine(side, l, p) == [side |-> side, line |-> l, price |-> p]
BookA(twice) == {BookLine("home", 7, -110), BookLine("away", -7, -110)}
                \cup (IF twice THEN {BookLine("home", 6, 100)} ELSE {})
BookB == {BookLine("home", 6, -105), BookLine("away", -6, -115)}
Answer(status, cost, json, stamp, games, twice) ==
  [status |-> status, cost |-> cost, json |-> json, stamp |-> stamp,
   events |-> {[teams |-> MCFixtures[g].teams, commence |-> 0,
                books |-> [dk |-> BookA(twice), fd |-> BookB]] : g \in games}]
MCAnswers(games, target) ==
  {Answer("ok", 30, TRUE, target, games, games = {"g3"}),
   Answer("ok", 30, TRUE, target + 60, games, FALSE),
   Answer("ok", 31, TRUE, target, {}, FALSE), Answer("ok", 30, FALSE, 0, {}, FALSE),
   Answer("error", 0, FALSE, 0, {}, FALSE), Answer("lost", 30, FALSE, 0, {}, FALSE)}

Model(side, edge, p, price) == [side |-> side, edge |-> edge, p |-> p, price |-> price]
Said(season, other, predicted) ==
  [season |-> season, predicted |-> predicted,
   models |-> [QB_ELO |-> Model("home", 3, 45, 150), XGB |-> Model(other, 1, 48, 120), AVG |-> Model("home", 1, 46, 150)],
   picks |-> [spread |-> "home", total |-> "over", points |-> 2, line |-> 41, price |-> -110]]
MCCensuses == {[g1 |-> Said(2020, "home", TRUE), g2 |-> Said(2023, "home", TRUE), g3 |-> Said(2023, "away", p)] :
                 p \in BOOLEAN}
MCOutcomes == {[g \in {"g1", "g2", "g3"} |-> [home |-> h, away |-> 20]] : h \in {16, 21}}

-----------------------------------------------------------------------------
\* The holdout: three games in two blocks, and runs of the three modes.
MCHoldoutGames == {[id |-> "g1", type |-> "REG", week |-> 18, asOf |-> 10],
                   [id |-> "g2", type |-> "REG", week |-> 18, asOf |-> 10],
                   [id |-> "g3", type |-> "WC", week |-> 1, asOf |-> 20]}
As(mode, dir) == [mode |-> mode, dir |-> dir]
Both(h1, h2) == [r \in {"h1", "h2"} |-> IF r = "h1" THEN h1 ELSE h2]
EveryMode ==
  {Both(As("one-shot", "v1"), As("one-shot", "v1")), Both(As("one-shot", "v1"), As("standard", "a")),
   Both(As("standard", "a"), As("standard", "a")), Both(As("scoped", "a"), As("scoped", "a"))}
OneShotAlone == {[r \in {"h1"} |-> As("one-shot", "v1")]}
HOffer(key, price) == [key |-> key, odds |-> price]
Pick(offer, units) == [offer |-> offer, units |-> units]
MCSlates ==
  {[l \in {"hit_rate", "balanced", "value"} |->
      CASE l = "hit_rate" -> Pick(HOffer(1, -200), 2) [] l = "balanced" -> Pick(HOffer(1, -200), 5)
        [] OTHER -> Pick(HOffer(2, 120), 6)],
   [l \in {"balanced"} |-> Pick(HOffer(2, 120), 0)]}

-----------------------------------------------------------------------------
\* Every part starts where it may start, those that will not move in one way.
First(x, set) == x = CHOOSE y \in set : TRUE

Init ==
  /\ subject \in Subjects
  /\ AuditInit /\ EdgeInit /\ NewsInit /\ WeeklyInit /\ HoldoutInit
  /\ subject # "sleeper" => First(kind, MCKinds)
  /\ subject # "market" => plan = BuildPlan
  /\ subject # "news" => mood = "apart"
  /\ subject # "holdout" => flaw = "none" /\ First(invocation, Invocations)

vars == <<subject, lockVars, auditVars, edgeVars, newsVars, weeklyVars, holdoutVars>>

Next ==
  \/ /\ subject = "lock" /\ LockNext
     /\ UNCHANGED <<subject, auditVars, edgeVars, newsVars, weeklyVars, holdoutVars>>
  \/ /\ subject = "sleeper" /\ AuditNext /\ \A r \in Runs \ Audits : step'[r] = "idle"
     /\ UNCHANGED <<subject, edgeVars, newsVars, weeklyVars, holdoutVars>>
  \/ /\ subject = "market" /\ EdgeNext
     /\ UNCHANGED <<subject, lockVars, auditVars, newsVars, weeklyVars, holdoutVars>>
  \/ /\ subject = "news" /\ NewsNext
     /\ UNCHANGED <<subject, lockVars, auditVars, edgeVars, weeklyVars, holdoutVars>>
  \/ /\ subject = "weekly" /\ WeeklyNext
     /\ UNCHANGED <<subject, lockVars, auditVars, edgeVars, newsVars, holdoutVars>>
  \/ /\ subject = "holdout" /\ HoldoutNext
     /\ UNCHANGED <<subject, lockVars, auditVars, edgeVars, newsVars, weeklyVars>>

Spec == Init /\ [][Next]_vars
=============================================================================
