------------------------------ MODULE Holdout ------------------------------
(***************************************************************************)
(* The sealed 2025 season is replayed week by week.  A run prepares        *)
(* everything from the development seasons, claims its output - the spend  *)
(* marker of the one-shot executor, the directory of a run-scoped          *)
(* evaluation, nothing for the standard one - and only then reads a file   *)
(* of 2025.  Block after block it predicts, prices, freezes the cards on   *)
(* disk, reveals the outcomes, teaches them to every model and to the      *)
(* bankrolls, and commits the week.  A contract error or a crash ends a    *)
(* run for good; another may be started at any time.                       *)
(***************************************************************************)
EXTENDS Integers, Sequences, FiniteSets, FiniteSetsExt, SequencesExt

CONSTANTS
  HoldoutRuns,
  Invocations, \* how the runs may be started: functions to [mode, dir]
  Games,       \* rows of the 2025 context: [id, type, week, asOf]
  Flaws,       \* what may be wrong with the inputs: some of the cases below
  Slates,      \* what the three lanes may select in a week
  MaxCrashes

\* Flaws, beside "none":  "drifted": another market artifact than the pinned one; "gap": a game without
\* its quarterbacks; "leftover": cards of an earlier checkout; "reordered": the
\* observations of two blocks exchanged; "surplus": rows after the last block;
\* "unseen": a category of the last block no development game has.

VARIABLES
  flaw,        \* of this season's inputs
  invocation,  \* run -> its mode and its output directory
  holdoutStep, \* where each run is
  marker,      \* HOLDOUT_SPENT.json: the run that created it, or "absent"
  dirs,        \* the output directories that exist
  lifecycle,   \* directory -> what its run-scoped evaluation recorded last
  opened,      \* run -> the blocks whose outcomes it has read; 0 for the inputs
  files,       \* directory -> block -> files of its week on disk, of eight
  replay,      \* a run's memory: its place, its knowledge and its books
  cards,       \* directory -> block -> what the frozen card was made from
  ledger,      \* directory -> the scenario ledger: a row per profile and wager
  crashes

holdoutVars == <<flaw, invocation, holdoutStep, marker, dirs, lifecycle, opened, files, replay, cards, ledger, crashes>>
disk == <<marker, dirs, lifecycle, files, cards, ledger>>

Mode(r) == invocation[r].mode
Dir(r) == invocation[r].dir
Dirs == {"v1", "a"}

\* A season has games, a run is told how it runs, and no run is taken for no marker.  A
\* lane's pick has an offer at American odds, which the offer's key states (_offer_key).
ASSUME HoldoutAssumption ==
  /\ IsFiniteSet(Games) /\ Games # {}
  /\ Invocations \subseteq [HoldoutRuns -> [mode : {"one-shot", "standard", "scoped"}, dir : Dirs]]
  /\ "absent" \notin HoldoutRuns
  /\ \A slate \in Slates :
       /\ DOMAIN slate \subseteq {"hit_rate", "balanced", "value"}
       /\ \A l \in DOMAIN slate : slate[l].units \in Nat /\ slate[l].offer.odds \in Int \ {0}
       /\ \A l, m \in DOMAIN slate :
            slate[l].offer.key = slate[m].offer.key => slate[l].offer = slate[m].offer

-----------------------------------------------------------------------------
\* Blocks in the order of the season; a block has one cutoff.
TypePriority(type) == CASE type = "REG" -> 0 [] type = "WC" -> 1 [] type = "DIV" -> 2
                    [] type = "CON" -> 3 [] type = "SB" -> 4

OrderKey(g) == <<TypePriority(g.type), g.week>>
KeyBefore(k, l) == k[1] < l[1] \/ (k[1] = l[1] /\ k[2] < l[2])

HoldoutBlocks == SetToSortSeq({OrderKey(g) : g \in Games}, KeyBefore)
BlockFrame(b) == {g \in Games : OrderKey(g) = HoldoutBlocks[b]}

LastBlock == Cardinality({OrderKey(g) : g \in Games})
Blocks == 1 .. LastBlock
OneCutoff == \A b \in Blocks : Cardinality({g.asOf : g \in BlockFrame(b)}) = 1

\* The observations ledger, a line per game, read as far as the block asks.
Observations ==
  CASE flaw = "reordered" -> Reverse([b \in Blocks |-> b])
    [] flaw = "surplus" -> Append([b \in Blocks |-> b], LastBlock + 1)
    [] OTHER -> [b \in Blocks |-> b]

-----------------------------------------------------------------------------
\* Money in cents, stakes in half dollars, units in quarters, shares of the
\* bankroll in hundredths of a percent.
Profiles == [Cautious |-> 50, Conservative |-> 75, Normal |-> 100, Aggressive |-> 125, Ultra |-> 150]

Smaller(a, b) == IF a < b THEN a ELSE b
Larger(a, b) == IF a > b THEN a ELSE b

DollarStake(bankroll, share, units) ==
  Smaller((bankroll * share * units) \div 2000000, bankroll \div 2000)

\* What is left of a tenth of the bankroll goes to the wagers in turn.
CapSlateStakes(bankroll, proposed) ==
  FoldLeft(LAMBDA given, wanted :
             Append(given, Smaller(wanted, (bankroll \div 10 - 50 * SumFunction(given)) \div 50)),
           <<>>, proposed)

UnitProfit(result, odds, stake) ==
  CASE result = "PUSH" -> 0
    [] result = "LOSS" -> -50 * stake
    [] OTHER -> IF odds > 0 THEN (stake * odds) \div 2 ELSE (stake * 5000) \div (-odds)

Lanes == <<"hit_rate", "balanced", "value">>

\* A wager of two lanes is one wager, in the place of the first and at the
\* larger stake.
UniqueExposure(slate) ==
  LET staked == {l \in DOMAIN slate : slate[l].units > 0}
      units(offer) == {slate[l].units : l \in {m \in staked : slate[m].offer = offer}}
      counted(out, l) == l \notin staked \/ \E i \in DOMAIN out : out[i].offer = slate[l].offer
  IN FoldLeft(LAMBDA out, l :
                IF counted(out, l) THEN out
                ELSE Append(out, [offer |-> slate[l].offer, units |-> Max(units(slate[l].offer))]),
              <<>>, Lanes)

\* The exposure settled from what each profile had when the week began.
Scenario(b, bankrolls, exposure, result) ==
  UNION {LET stakes == CapSlateStakes(bankrolls[p], [i \in DOMAIN exposure |->
                                        DollarStake(bankrolls[p], Profiles[p], exposure[i].units)])
         IN {[block |-> b, profile |-> p, offer |-> exposure[i].offer.key, stake |-> stakes[i],
              start |-> bankrolls[p],
              profit |-> UnitProfit(result[exposure[i].offer.key], exposure[i].offer.odds, stakes[i])] :
               i \in DOMAIN exposure} : p \in DOMAIN Profiles}

TotalProfit(rows) == SumFunction([row \in rows |-> row.profit])
TotalStake(rows) == SumFunction([row \in rows |-> row.stake])
OfProfile(rows, p) == {row \in rows : row.profile = p}

Tally(exposure, result, kind) == Cardinality({i \in DOMAIN exposure : result[exposure[i].offer.key] = kind})

\* Losses in a row, in the order of the wagers' keys; a push neither adds nor ends.
Streak(entering, exposure, result) ==
  FoldLeft(LAMBDA s, e : CASE result[e.offer.key] = "LOSS" -> [now |-> s.now + 1, longest |-> Larger(s.longest, s.now + 1)]
                           [] result[e.offer.key] = "WIN" -> [s EXCEPT !.now = 0]
                           [] OTHER -> s,
           entering, SortSeq(exposure, LAMBDA e, f : e.offer.key < f.offer.key))

-----------------------------------------------------------------------------
\* What a run keeps between blocks.  Each component holds, in order, the blocks
\* it has learnt: the two blocks before 1 stand for the development seasons.
Components == {"qb_state", "totals_state", "totals_training", "xgb_history", "expected_history",
               "expected_oos", "product_games", "prior_board_rows", "value_state"}

Past(b) == [i \in 1 .. b + 1 |-> i - 2]
StartingBankroll == [p \in DOMAIN Profiles |-> 100000]

PreparedState ==
  [block |-> 1, learnt |-> [c \in Components |-> Past(1)], completed |-> <<>>, read |-> 0,
   season |-> 2024, carried |-> 0, models |-> <<>>, product |-> <<>>, slate |-> [l \in {} |-> 0],
   result |-> [k \in {} |-> ""], bankroll |-> StartingBankroll, peak |-> StartingBankroll,
   drawdown |-> [p \in DOMAIN Profiles |-> 0], record |-> [WIN |-> 0, LOSS |-> 0, PUSH |-> 0],
   streak |-> [now |-> 0, longest |-> 0]]

HoldoutInit ==
  /\ flaw \in Flaws
  /\ invocation \in Invocations
  /\ holdoutStep = [r \in HoldoutRuns |-> "preflight"]
  /\ marker = "absent"
  /\ dirs = IF flaw = "leftover" THEN {"v1"} ELSE {}
  /\ lifecycle = [d \in Dirs |-> "none"]
  /\ opened = [r \in HoldoutRuns |-> {}]
  /\ files = [d \in Dirs |-> [b \in Blocks |-> IF d \in dirs /\ b = LastBlock THEN 5 ELSE 0]]
  /\ replay = [r \in HoldoutRuns |-> PreparedState]
  /\ cards = [d \in Dirs |-> [b \in {} |-> 0]]
  /\ ledger = [d \in Dirs |-> {}]
  /\ crashes = 0

Goes(r, s) == holdoutStep' = [holdoutStep EXCEPT ![r] = s]

\* A run-scoped evaluation records that it failed; the others only stop.
Fail(r) ==
  /\ Goes(r, "failed")
  /\ lifecycle' = [lifecycle EXCEPT ![Dir(r)] = IF Mode(r) = "scoped" THEN "RUN_FAILED" ELSE @]

\* The contract, its audit, the authorization and the paths; the marker, or the
\* directory of a standard evaluation, is only looked at, and that evaluation
\* compares the pins of its market and of the observations here.
Preflight(r) ==
  /\ holdoutStep[r] = "preflight"
  /\ Goes(r, IF \/ Mode(r) = "one-shot" /\ marker # "absent"
                \/ Mode(r) = "standard" /\ (Dir(r) \in dirs \/ flaw \in {"drifted", "reordered", "surplus"})
             THEN "refused" ELSE "prepare")
  /\ UNCHANGED <<flaw, invocation, disk, opened, replay, crashes>>

\* Every fitted state, from 2024 and before; a development artifact that does
\* not match its pin fails here and costs nothing.
PrepareDevelopmentState(r) ==
  /\ holdoutStep[r] = "prepare"
  /\ \/ Goes(r, CASE Mode(r) = "one-shot" -> "mark" [] Mode(r) = "scoped" -> "start" [] OTHER -> "open")
     \/ Goes(r, "refused")
  /\ UNCHANGED <<flaw, invocation, disk, opened, replay, crashes>>

\* A marker written because none was seen.
ConsumeSpendMarkerUnlessSeen(r) ==
  /\ holdoutStep[r] = "mark"
  /\ marker' = r
  /\ dirs' = dirs \cup {Dir(r)}
  /\ Goes(r, "open")
  /\ UNCHANGED <<flaw, invocation, lifecycle, opened, files, replay, cards, ledger, crashes>>

\* The marker is created, exclusively, whatever was seen before.
ConsumeSpendMarker(r) ==
  /\ holdoutStep[r] = "mark"
  /\ \/ marker = "absent" /\ marker' = r /\ Goes(r, "open")
     \/ marker # "absent" /\ UNCHANGED marker /\ Goes(r, "refused")
  /\ dirs' = dirs \cup {Dir(r)}
  /\ UNCHANGED <<flaw, invocation, lifecycle, opened, files, replay, cards, ledger, crashes>>

\* The directory is created, exclusively, then the observations are verified.
CreateRunStarted(r) ==
  /\ holdoutStep[r] = "start"
  /\ \/ /\ Dir(r) \notin dirs
        /\ dirs' = dirs \cup {Dir(r)}
        /\ \/ /\ flaw \notin {"reordered", "surplus"}
              /\ lifecycle' = [lifecycle EXCEPT ![Dir(r)] = "RUN_STARTED"]
              /\ Goes(r, "open")
           \/ /\ flaw \in {"reordered", "surplus"}
              /\ Fail(r)
     \/ /\ Dir(r) \in dirs
        /\ Goes(r, "refused")
        /\ UNCHANGED <<dirs, lifecycle>>
  /\ UNCHANGED <<flaw, invocation, marker, opened, files, replay, cards, ledger, crashes>>

\* The block has a directory under weeks/.
Begun(d, b) == b \in DOMAIN cards[d] \/ files[d][b] > 0

\* The inputs of 2025 are read and only now compared with their pins: for the
\* one-shot executor, what does not match spends the season with nothing run.
OpenInputs(r) ==
  /\ holdoutStep[r] = "open"
  /\ opened' = [opened EXCEPT ![r] = @ \cup {0}]
  /\ \/ /\ flaw \in {"drifted", "gap"} \/ ~OneCutoff \/ \E b \in Blocks : Begun(Dir(r), b)
        /\ Fail(r)
        /\ UNCHANGED dirs
     \/ /\ flaw \notin {"drifted", "gap"} /\ OneCutoff /\ \A b \in Blocks : ~Begun(Dir(r), b)
        /\ dirs' = dirs \cup {Dir(r)}
        /\ Goes(r, "predict")
        /\ UNCHANGED lifecycle
  /\ UNCHANGED <<flaw, invocation, marker, files, replay, cards, ledger, crashes>>

-----------------------------------------------------------------------------
\* What each part of a week's prediction rests on, of what the run has learnt.
StrictlyPrior(history, b) == \A i \in DOMAIN history : history[i] < b

\* The ratings as the last block left them, carried into the season if need be.
QbElo(s) == [ratings |-> s.learnt["qb_state"], exposure |-> s.learnt["expected_history"]]

\* Fitted on all but the newest block, stopped on it, refitted on both.
BoostedTrees(s) == [fit |-> Front(s.learnt["xgb_history"]), validation |-> Last(s.learnt["xgb_history"])]

\* Team strengths from the scores, the mapping from what was predicted before.
ExpectedMargins(s) == [fit |-> s.learnt["expected_history"], mapping |-> s.learnt["expected_oos"]]

TotalsFeatures(s) == s.learnt["totals_state"]
RidgeTotals(s) == [features |-> TotalsFeatures(s), training |-> s.learnt["totals_training"]]

Predict(r) ==
  LET s == replay[r]
      sound == /\ \A c \in {"expected_history", "xgb_history", "totals_training"} :
                    StrictlyPrior(s.learnt[c], s.block)
               /\ ~(flaw = "unseen" /\ s.block = LastBlock)
  IN /\ holdoutStep[r] = "predict"
     /\ \/ sound /\ Goes(r, "product") /\ UNCHANGED lifecycle
        \/ ~sound /\ Fail(r)
     /\ replay' = [replay EXCEPT
          ![r].models = [qb |-> QbElo(s), trees |-> BoostedTrees(s), margin |-> ExpectedMargins(s), totals |-> RidgeTotals(s)],
          ![r].season = 2025,
          ![r].carried = @ + (IF s.season < 2025 THEN 1 ELSE 0)]
     /\ UNCHANGED <<flaw, invocation, marker, dirs, opened, files, cards, ledger, crashes>>

\* Evaluators are fitted on the games, reliability on the rows of the boards;
\* confidence on the games again, that of spreads on the rows of known games.
Calibrations(s) == [states |-> s.learnt["product_games"], reliability |-> s.learnt["prior_board_rows"]]
MoneylineConfidence(s) == s.learnt["product_games"]
SpreadConfidence(s) ==
  FoldLeft(LAMBDA rows, b : IF b \in Range(s.learnt["product_games"]) THEN Append(rows, b) ELSE rows,
           <<>>, s.learnt["prior_board_rows"])

\* The frozen product reads rows by the names they had in development.  The
\* candidates of 2025 and the rows settled from them carry other names, which
\* only the standard evaluation translates: without it no candidate has a model
\* confidence, so no lane has a play, and the first settled row is a KeyError.
BuildProductBlock(r) ==
  LET s == replay[r]
      readable == Mode(r) = "standard" \/ s.learnt["prior_board_rows"] = Past(1)
  IN /\ holdoutStep[r] = "product"
     /\ \/ /\ readable
           /\ Goes(r, "freeze")
           /\ \E slate \in IF Mode(r) = "standard" THEN Slates ELSE {[l \in {} |-> 0]} :
                replay' = [replay EXCEPT
                  ![r].slate = slate,
                  ![r].product = [calibrations |-> Calibrations(s), moneyline |-> MoneylineConfidence(s),
                                  spread |-> SpreadConfidence(s), trust |-> s.learnt["value_state"]]]
           /\ UNCHANGED lifecycle
        \/ ~readable /\ Fail(r) /\ UNCHANGED replay
     /\ UNCHANGED <<flaw, invocation, marker, dirs, opened, files, cards, ledger, crashes>>

\* The block is not one of the completed and its directory is new.
FreezePreResult(r) ==
  LET s == replay[r]
      d == Dir(r)
  IN /\ holdoutStep[r] = "freeze"
     /\ \/ /\ s.block \in Range(s.completed) \/ Begun(d, s.block)
           /\ Fail(r)
           /\ UNCHANGED cards
        \/ /\ s.block \notin Range(s.completed) /\ ~Begun(d, s.block)
           /\ Goes(r, "write")
           /\ cards' = [cards EXCEPT ![d] = [b \in DOMAIN @ \cup {s.block} |->
                IF b = s.block THEN [by |-> r, models |-> s.models, product |-> s.product,
                                     carried |-> s.carried, bankroll |-> s.bankroll]
                ELSE @[b]]]
           /\ UNCHANGED lifecycle
     /\ UNCHANGED <<flaw, invocation, marker, dirs, opened, files, replay, ledger, crashes>>

\* Five files, each replaced whole, the manifest of the others last.
WriteFrozenFile(r) ==
  LET b == replay[r].block
      n == files[Dir(r)][b] + 1
  IN /\ holdoutStep[r] = "write"
     /\ files' = [files EXCEPT ![Dir(r)][b] = n]
     /\ Goes(r, IF n = 5 THEN "reveal" ELSE "write")
     /\ UNCHANGED <<flaw, invocation, marker, dirs, lifecycle, opened, replay, cards, ledger, crashes>>

Results == {"WIN", "LOSS", "PUSH"}

\* The scores of the block's games are read, and its lines of the observations.
Reveal(r) ==
  LET s == replay[r]
      exposure == UniqueExposure(s.slate)
  IN /\ holdoutStep[r] = "reveal"
     /\ opened' = [opened EXCEPT ![r] = @ \cup {s.block}]
     /\ \/ Observations[s.read + 1] # s.block /\ Fail(r) /\ UNCHANGED replay
        \/ /\ Observations[s.read + 1] = s.block
           /\ Goes(r, "advance")
           /\ \E result \in [{exposure[i].offer.key : i \in DOMAIN exposure} -> Results] :
                replay' = [replay EXCEPT ![r].read = @ + 1, ![r].result = result]
           /\ UNCHANGED lifecycle
     /\ UNCHANGED <<flaw, invocation, marker, dirs, files, cards, ledger, crashes>>

\* The bankrolls are settled from the entering ones.
AdvanceBankroll(s, rows, exposure) ==
  LET ending == [p \in DOMAIN Profiles |-> s.bankroll[p] + TotalProfit(OfProfile(rows, p))]
      peak == [p \in DOMAIN Profiles |-> Larger(s.peak[p], ending[p])]
  IN [s EXCEPT
        !.bankroll = ending,
        !.peak = peak,
        !.drawdown = [p \in DOMAIN Profiles |-> Larger(@[p], (10000 * (peak[p] - ending[p])) \div peak[p])],
        !.record = [k \in Results |-> @[k] + Tally(exposure, s.result, k)],
        !.streak = Streak(@, exposure, s.result)]

\* The ratings move from where the prediction took them; the totals must still be
\* where their features were taken.
LearnRatings(s) == Append(s.models.qb.ratings, s.block)
CommitTotals(s) == Append(s.models.totals.features, s.block)

\* The value lane's trust is left as it was.
LearnAllButTrust(s) ==
  [c \in Components |-> CASE c = "qb_state" -> LearnRatings(s)
                           [] c = "totals_state" -> CommitTotals(s)
                           [] c = "value_state" -> s.learnt[c]
                           [] OTHER -> Append(s.learnt[c], s.block)]

Learn(s) ==
  [c \in Components |-> CASE c = "qb_state" -> LearnRatings(s)
                           [] c = "totals_state" -> CommitTotals(s)
                           [] OTHER -> Append(s.learnt[c], s.block)]

Advance(r) ==
  LET s == replay[r]
      exposure == UniqueExposure(s.slate)
      rows == Scenario(s.block, s.bankroll, exposure, s.result)
  IN /\ holdoutStep[r] = "advance"
     /\ s.learnt["totals_state"] = s.models.totals.features
     /\ replay' = [replay EXCEPT ![r] =
          [AdvanceBankroll(s, rows, exposure) EXCEPT !.learnt = Learn(s), !.completed = Append(@, s.block)]]
     /\ ledger' = [ledger EXCEPT ![Dir(r)] = @ \cup rows]
     /\ Goes(r, "commit")
     /\ UNCHANGED <<flaw, invocation, marker, dirs, lifecycle, opened, files, cards, crashes>>

\* The result, the state after it and the completed manifest; after the last
\* block no observation may be left.
CommitRevealedBlock(r) ==
  LET b == replay[r].block
      n == files[Dir(r)][b] + 1
  IN /\ holdoutStep[r] = "commit"
     /\ files' = [files EXCEPT ![Dir(r)][b] = n]
     /\ \/ n < 8 /\ UNCHANGED <<holdoutStep, lifecycle, replay>>
        \/ /\ n = 8 /\ b < LastBlock
           /\ replay' = [replay EXCEPT ![r].block = b + 1]
           /\ Goes(r, "predict")
           /\ UNCHANGED lifecycle
        \/ /\ n = 8 /\ b = LastBlock
           /\ \/ replay[r].read = Len(Observations) /\ Goes(r, "outputs") /\ UNCHANGED lifecycle
              \/ replay[r].read # Len(Observations) /\ Fail(r)
           /\ UNCHANGED replay
     /\ UNCHANGED <<flaw, invocation, marker, dirs, opened, cards, ledger, crashes>>

\* The season's tables and reports, and the terminal record of a scoped run.
FinalOutputs(r) ==
  /\ holdoutStep[r] = "outputs"
  /\ Goes(r, "done")
  /\ lifecycle' = [lifecycle EXCEPT ![Dir(r)] = IF Mode(r) = "scoped" THEN "RUN_COMPLETED" ELSE @]
  /\ UNCHANGED <<flaw, invocation, marker, dirs, opened, files, replay, cards, ledger, crashes>>

Crash(r) ==
  /\ holdoutStep[r] \notin {"preflight", "refused", "failed", "done"}
  /\ crashes < MaxCrashes
  /\ crashes' = crashes + 1
  /\ Goes(r, "failed")
  /\ UNCHANGED <<flaw, invocation, disk, opened, replay>>

HoldoutNext ==
  \E r \in HoldoutRuns :
    \/ Preflight(r) \/ PrepareDevelopmentState(r) \/ ConsumeSpendMarker(r) \/ CreateRunStarted(r)
    \/ OpenInputs(r) \/ Predict(r) \/ BuildProductBlock(r) \/ FreezePreResult(r) \/ WriteFrozenFile(r)
    \/ Reveal(r) \/ Advance(r) \/ CommitRevealedBlock(r) \/ FinalOutputs(r) \/ Crash(r)

HoldoutSpec == HoldoutInit /\ [][HoldoutNext]_holdoutVars

-----------------------------------------------------------------------------
\* The one-shot executor opens the season once: whatever runs race, are refused
\* or die, only the one whose marker is on disk has read a file of 2025.  And no
\* run, in any mode, has read the outcomes of a block whose card, its own, was
\* not on disk in full (main's one-spend rule, the firewall of run_one_shot).
SpentOnce ==
  \A r \in HoldoutRuns :
    /\ Mode(r) = "one-shot" /\ opened[r] # {} => marker = r
    /\ \A b \in opened[r] \ {0} : files[Dir(r)][b] >= 5 /\ cards[Dir(r)][b].by = r

\* The rows of a ledger before a block and of it.
RowsBefore(rows, b) == {row \in rows : row.block < b}
RowsAt(rows, b) == {row \in rows : row.block = b}

\* What a card is made from is the past, all of it and nothing else: every
\* model, calibration and selector has learnt each block before it, once and in
\* order, and the ratings were carried into the season once; the bankroll it is
\* staked from is what the ledger of the earlier weeks makes of the thousand
\* dollars, no week risks more than a tenth of it, and a wager two lanes share
\* is settled once.
CardsKnowThePast ==
  \A d \in Dirs : \A b \in DOMAIN cards[d] :
    LET card == cards[d][b]
        before == RowsBefore(ledger[d], b)
        now == RowsAt(ledger[d], b)
    IN /\ card.models = [qb |-> [ratings |-> Past(b), exposure |-> Past(b)],
                          trees |-> [fit |-> Past(b - 1), validation |-> b - 1],
                          margin |-> [fit |-> Past(b), mapping |-> Past(b)],
                          totals |-> [features |-> Past(b), training |-> Past(b)]]
       /\ card.product = [calibrations |-> [states |-> Past(b), reliability |-> Past(b)],
                           moneyline |-> Past(b), spread |-> Past(b), trust |-> Past(b)]
       /\ card.carried = 1
       /\ \A p \in DOMAIN Profiles :
            /\ card.bankroll[p] = 100000 + TotalProfit(OfProfile(before, p))
            /\ 500 * TotalStake(OfProfile(now, p)) <= card.bankroll[p]
            /\ \A x, y \in OfProfile(now, p) : x.offer = y.offer => x = y

\* The contract calls the executor ready for its single execution
\* (config/task05g_2025_acceptance_v1.yaml: READY_FOR_SINGLE_AUTHORIZED_2025_
\* HOLDOUT_EXECUTION): with sound inputs and no crash it does not stop half way.
ReadyForExecution ==
  \A r \in HoldoutRuns : flaw = "none" /\ crashes = 0 => holdoutStep[r] # "failed"

=============================================================================
