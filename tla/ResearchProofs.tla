--------------------------- MODULE ResearchProofs ---------------------------
(***************************************************************************)
(* Proofs about the 2025 holdout: the season is opened once, behind frozen *)
(* cards; and each card was predicted, and staked, from what its run had   *)
(* opened of the blocks before and from nothing else.  And about what the  *)
(* totals features count of a game: the metrics agree with one another.    *)
(***************************************************************************)
EXTENDS Holdout, PlayObservations, EvaluatorReplay, NumberLemmas, SequenceTheorems, TLAPS

-----------------------------------------------------------------------------
\* The opening of the season.
Opening == {"open", "predict", "product", "freeze", "write", "reveal", "advance", "commit", "outputs", "done"}
Carding == {"write", "reveal", "advance", "commit"}
Steps == Opening \cup {"preflight", "prepare", "mark", "start", "refused", "failed"}

\* A run's memory has a block of the season.
AtBlock(s) == "block" \in DOMAIN s /\ s.block \in Blocks

HoldoutTypes ==
  /\ invocation \in Invocations
  /\ holdoutStep \in [HoldoutRuns -> Steps]
  /\ opened \in [HoldoutRuns -> SUBSET Int]
  /\ files \in [Dirs -> [Blocks -> Nat]]
  /\ DOMAIN cards = Dirs
  /\ DOMAIN replay = HoldoutRuns
  /\ \A r \in HoldoutRuns : AtBlock(replay[r])

\* The card of a block of a directory is the run's own.
HasCard(r, d, b) == b \in DOMAIN cards[d] /\ cards[d][b].by = r

\* A one-shot run past the marker is the one the marker names; a run that has frozen a card
\* and not yet gone on has it; one that may reveal has it on disk; and of all it has opened
\* the cards stay.
Behind(r) ==
  /\ Mode(r) = "one-shot" /\ (opened[r] # {} \/ holdoutStep[r] \in Opening) => marker = r
  /\ holdoutStep[r] = "start" => Mode(r) # "one-shot"
  /\ holdoutStep[r] \in Carding => HasCard(r, Dir(r), replay[r].block)
  /\ holdoutStep[r] = "reveal" => files[Dir(r)][replay[r].block] >= 5
  /\ \A b \in opened[r] \ {0} : b \in Blocks /\ files[Dir(r)][b] >= 5 /\ HasCard(r, Dir(r), b)

HoldoutInv == HoldoutTypes /\ \A r \in HoldoutRuns : Behind(r)

\* A season has a first block.
LEMMA BlocksAre == LastBlock \in Nat /\ 1 \in Blocks
<1>. DEFINE keys == {OrderKey(g) : g \in Games}
<1>1. IsFiniteSet(keys)
  <2>. DEFINE f == [g \in Games |-> OrderKey(g)]
  <2>1. f \in Surjection(Games, keys)
    BY DEF Surjection
  <2>. QED  BY <2>1, FS_Surjection, HoldoutAssumption
<1>2. keys # {}
  BY HoldoutAssumption
<1>3. Cardinality(keys) \in Nat /\ Cardinality(keys) # 0
  BY <1>1, <1>2, FS_CardinalityType, FS_EmptySet
<1>. QED  BY <1>3 DEF LastBlock, Blocks

\* A run is told one mode and one directory.
LEMMA ToldOnce ==
  ASSUME HoldoutTypes, NEW r \in HoldoutRuns
  PROVE  Dir(r) \in Dirs /\ Mode(r) \in {"one-shot", "standard", "scoped"}
<1>1. invocation[r] \in [mode : {"one-shot", "standard", "scoped"}, dir : Dirs]
  BY HoldoutAssumption DEF HoldoutTypes
<1>. QED  BY <1>1 DEF Dir, Mode

\* At the start nothing is opened and nobody is past the marker.
LEMMA HoldoutInitially == HoldoutInit => HoldoutInv
<1>. SUFFICES ASSUME HoldoutInit PROVE HoldoutInv
  OBVIOUS
<1>1. files \in [Dirs -> [Blocks -> Nat]]
  BY DEF HoldoutInit
<1>2. AtBlock(PreparedState)
  BY BlocksAre DEF AtBlock, PreparedState
<1>3. HoldoutTypes
  BY <1>1, <1>2 DEF HoldoutInit, HoldoutTypes, Steps, Opening
<1>4. \A r \in HoldoutRuns : holdoutStep[r] = "preflight" /\ opened[r] = {}
  BY DEF HoldoutInit
<1>. QED  BY <1>3, <1>4 DEF HoldoutInv, Behind, Opening, Carding

\* What no step does: touch another run, take a file back, change a card or a marker.
Kept(r) ==
  /\ invocation' = invocation
  /\ DOMAIN replay' = HoldoutRuns /\ AtBlock(replay'[r])
  /\ \A s \in HoldoutRuns \ {r} : replay'[s] = replay[s]
  /\ opened' \in [HoldoutRuns -> SUBSET Int]
  /\ \A s \in HoldoutRuns \ {r} : opened'[s] = opened[s]
  /\ files' \in [Dirs -> [Blocks -> Nat]]
  /\ \A d \in Dirs, b \in Blocks : files'[d][b] >= files[d][b]
  /\ DOMAIN cards' = Dirs
  /\ \A d \in Dirs : \A b \in DOMAIN cards[d] : b \in DOMAIN cards'[d] /\ cards'[d][b] = cards[d][b]
  /\ marker # "absent" => marker' = marker

\* A step that keeps all of that, and after which the run that took it stands behind the
\* marker and its cards, leaves everybody there.
LEMMA KeptKeeps ==
  ASSUME HoldoutInv, NEW r \in HoldoutRuns, NEW x \in Steps, Goes(r, x), Kept(r),
         Mode(r) = "one-shot" /\ (opened'[r] # {} \/ x \in Opening) => marker' = r,
         x = "start" => Mode(r) # "one-shot",
         x \in Carding => HasCard(r, Dir(r), replay[r].block)' ,
         x = "reveal" => files'[Dir(r)][replay'[r].block] >= 5,
         \A b \in opened'[r] \ {0} : b \in Blocks /\ files'[Dir(r)][b] >= 5 /\ b \in DOMAIN cards'[Dir(r)]
                                     /\ cards'[Dir(r)][b].by = r
  PROVE  HoldoutInv'
<1>1. holdoutStep' \in [HoldoutRuns -> Steps] /\ holdoutStep'[r] = x
      /\ \A s \in HoldoutRuns \ {r} : holdoutStep'[s] = holdoutStep[s]
  BY DEF Goes, HoldoutInv, HoldoutTypes
<1>2. HoldoutTypes'
  BY <1>1 DEF HoldoutInv, HoldoutTypes, Kept
<1>3. \A s \in HoldoutRuns : Dir(s)' = Dir(s) /\ Mode(s)' = Mode(s) /\ Dir(s) \in Dirs
  BY ToldOnce DEF Kept, Dir, Mode, HoldoutInv
<1>4. Behind(r)'
  BY <1>1, <1>3 DEF Behind, HasCard
<1>5. ASSUME NEW s \in HoldoutRuns, s # r PROVE Behind(s)'
  <2>1. holdoutStep'[s] = holdoutStep[s] /\ opened'[s] = opened[s] /\ replay'[s] = replay[s]
        /\ opened[s] \in SUBSET Int
    BY <1>1, <1>5 DEF Kept, HoldoutInv, HoldoutTypes
  <2>2. Behind(s) /\ s # "absent" /\ AtBlock(replay[s])
    BY HoldoutAssumption DEF HoldoutInv, HoldoutTypes
  <2>3. \A b : HasCard(s, Dir(s), b) => HasCard(s, Dir(s), b)'
    BY <1>3 DEF HasCard, Kept
  <2>4. \A b \in Blocks : files[Dir(s)][b] \in Nat /\ files'[Dir(s)][b] \in Nat
                          /\ files'[Dir(s)][b] >= files[Dir(s)][b]
    BY <1>3 DEF Kept, HoldoutInv, HoldoutTypes
  <2>5. Mode(s) = "one-shot" /\ (opened'[s] # {} \/ holdoutStep'[s] \in Opening) => marker' = s
    BY <2>1, <2>2 DEF Behind, Kept
  <2>6. holdoutStep'[s] \in Carding => HasCard(s, Dir(s), replay[s].block)'
    BY <1>3, <2>1, <2>2, <2>3 DEF Behind, HasCard
  <2>7. holdoutStep'[s] = "reveal" => files'[Dir(s)][replay'[s].block] >= 5
    BY <2>1, <2>2, <2>4 DEF Behind, AtBlock
  <2>8. \A b \in opened'[s] \ {0} : b \in Blocks /\ files'[Dir(s)][b] >= 5 /\ HasCard(s, Dir(s), b)'
    BY <2>1, <2>2, <2>3, <2>4 DEF Behind
  <2>. QED  BY <1>3, <2>1, <2>2, <2>5, <2>6, <2>7, <2>8 DEF Behind, HasCard
<1>. QED  BY <1>2, <1>4, <1>5 DEF HoldoutInv

\* Before it opens its inputs, and when it ends, a run moves on or stops: files, cards and
\* memories stay.
LEMMA MovesKeep ==
  ASSUME HoldoutInv, NEW r \in HoldoutRuns, NEW x \in Steps \ Carding, Goes(r, x),
         UNCHANGED <<invocation, opened, files, replay, cards>>, marker # "absent" => marker' = marker,
         x \in Opening => Mode(r) # "one-shot" \/ holdoutStep[r] \in Opening \/ marker' = r,
         x = "start" => Mode(r) # "one-shot"
  PROVE  HoldoutInv'
<1>1. Kept(r) /\ Behind(r) /\ Dir(r) \in Dirs
  <2>1. \A d \in Dirs, b \in Blocks : files[d][b] \in Nat
    BY DEF HoldoutInv, HoldoutTypes
  <2>. QED  BY <2>1, ToldOnce DEF Kept, HoldoutInv, HoldoutTypes
<1>2. Mode(r) = "one-shot" /\ (opened'[r] # {} \/ x \in Opening) => marker' = r
  BY <1>1, HoldoutAssumption DEF Behind
<1>3. x \notin Carding /\ x # "reveal"
  BY DEF Carding
<1>4. \A b \in opened'[r] \ {0} : b \in Blocks /\ files'[Dir(r)][b] >= 5 /\ b \in DOMAIN cards'[Dir(r)]
                                  /\ cards'[Dir(r)][b].by = r
  BY <1>1 DEF Behind, HasCard
<1>. QED  BY <1>1, <1>2, <1>3, <1>4, KeptKeeps

LEMMA PreparingKeeps ==
  ASSUME HoldoutInv, NEW r \in HoldoutRuns,
         Preflight(r) \/ PrepareDevelopmentState(r) \/ ConsumeSpendMarker(r) \/ CreateRunStarted(r)
           \/ FinalOutputs(r) \/ Crash(r)
  PROVE  HoldoutInv'
<1>1. UNCHANGED <<invocation, opened, replay, files, cards>>
  BY DEF Preflight, PrepareDevelopmentState, ConsumeSpendMarker, CreateRunStarted, FinalOutputs, Crash, disk
<1>2. Mode(r) \in {"one-shot", "standard", "scoped"} /\ Behind(r)
  BY ToldOnce DEF HoldoutInv
<1>3. ASSUME NEW x \in {"refused", "failed", "prepare", "mark"}, Goes(r, x), marker' = marker PROVE HoldoutInv'
  <2>1. x \in Steps \ Carding /\ x \notin Opening /\ x # "start"
    BY <1>3 DEF Steps, Opening, Carding
  <2>. QED  BY <1>1, <1>3, <2>1, MovesKeep
<1>4. CASE Preflight(r)
  BY <1>3, <1>4 DEF Preflight, disk
<1>5. CASE PrepareDevelopmentState(r)
  <2>1. marker' = marker
    BY <1>5 DEF PrepareDevelopmentState, disk
  <2>2. \/ Goes(r, CASE Mode(r) = "one-shot" -> "mark" [] Mode(r) = "scoped" -> "start" [] OTHER -> "open")
        \/ Goes(r, "refused")
    BY <1>5 DEF PrepareDevelopmentState
  <2>3. CASE Goes(r, "refused")
    BY <1>3, <2>1, <2>3
  <2>4. CASE Goes(r, "mark")
    BY <1>3, <2>1, <2>4
  <2>5. ASSUME NEW x \in {"start", "open"}, Goes(r, x), Mode(r) # "one-shot" PROVE HoldoutInv'
    <3>1. x \in Steps \ Carding
      BY DEF Steps, Opening, Carding
    <3>. QED  BY <1>1, <2>1, <2>5, <3>1, MovesKeep
  <2>6. Goes(r, "refused") \/ Goes(r, "mark")
        \/ (Mode(r) # "one-shot" /\ (Goes(r, "start") \/ Goes(r, "open")))
    <3>1. CASE Mode(r) = "one-shot"
      BY <2>2, <3>1
    <3>2. CASE Mode(r) = "scoped"
      BY <2>2, <3>2
    <3>3. CASE Mode(r) = "standard"
      BY <2>2, <3>3
    <3>. QED  BY <1>2, <3>1, <3>2, <3>3
  <2>. QED  BY <2>3, <2>4, <2>5, <2>6
<1>6. CASE ConsumeSpendMarker(r)
  <2>1. CASE marker = "absent" /\ marker' = r /\ Goes(r, "open")
    <3>1. "open" \in Steps \ Carding
      BY DEF Steps, Opening, Carding
    <3>. QED  BY <1>1, <2>1, <3>1, MovesKeep
  <2>2. CASE marker # "absent" /\ UNCHANGED marker /\ Goes(r, "refused")
    BY <1>3, <2>2
  <2>. QED  BY <1>6, <2>1, <2>2 DEF ConsumeSpendMarker
<1>7. CASE CreateRunStarted(r)
  <2>1. holdoutStep[r] = "start" /\ marker' = marker /\ (Goes(r, "open") \/ Goes(r, "failed") \/ Goes(r, "refused"))
    BY <1>7 DEF CreateRunStarted, Fail
  <2>2. CASE Goes(r, "open")
    <3>1. "open" \in Steps \ Carding /\ Mode(r) # "one-shot"
      BY <1>2, <2>1 DEF Steps, Opening, Carding, Behind
    <3>. QED  BY <1>1, <2>1, <2>2, <3>1, MovesKeep
  <2>. QED  BY <1>3, <2>1, <2>2
<1>8. CASE FinalOutputs(r)
  <2>1. holdoutStep[r] \in Opening /\ marker' = marker /\ Goes(r, "done") /\ "done" \in Steps \ Carding
    BY <1>8 DEF FinalOutputs, Steps, Opening, Carding
  <2>. QED  BY <1>1, <2>1, MovesKeep
<1>9. CASE Crash(r)
  BY <1>3, <1>9 DEF Crash, disk
<1>. QED  BY <1>4, <1>5, <1>6, <1>7, <1>8, <1>9

\* A run's memory may change as long as it stays at its block.
LEMMA ThinkingKeeps ==
  ASSUME HoldoutInv, NEW r \in HoldoutRuns, NEW x \in {"product", "freeze", "failed"}, Goes(r, x),
         holdoutStep[r] \in Opening,
         UNCHANGED <<invocation, marker, opened, files, cards>>,
         DOMAIN replay' = HoldoutRuns, \A s \in HoldoutRuns \ {r} : replay'[s] = replay[s],
         AtBlock(replay'[r])
  PROVE  HoldoutInv'
<1>1. Kept(r) /\ Behind(r) /\ Dir(r) \in Dirs
  <2>1. \A d \in Dirs, b \in Blocks : files[d][b] \in Nat
    BY DEF HoldoutInv, HoldoutTypes
  <2>. QED  BY <2>1, ToldOnce DEF Kept, HoldoutInv, HoldoutTypes
<1>2. Mode(r) = "one-shot" => marker' = r
  BY <1>1 DEF Behind
<1>3. x \notin Carding /\ x # "reveal" /\ x # "start" /\ x \in Steps
  BY DEF Carding, Steps, Opening
<1>4. \A b \in opened'[r] \ {0} : b \in Blocks /\ files'[Dir(r)][b] >= 5 /\ b \in DOMAIN cards'[Dir(r)]
                                  /\ cards'[Dir(r)][b].by = r
  BY <1>1 DEF Behind, HasCard
<1>. QED  BY <1>1, <1>2, <1>3, <1>4, KeptKeeps

\* Predicting and pricing leave a run at its block.
LEMMA PredictKeeps ==
  ASSUME HoldoutInv, NEW r \in HoldoutRuns, Predict(r) \/ BuildProductBlock(r)
  PROVE  HoldoutInv'
<1>1. DOMAIN replay = HoldoutRuns /\ AtBlock(replay[r])
  BY DEF HoldoutInv, HoldoutTypes
<1>2. UNCHANGED <<invocation, marker, opened, files, cards>> /\ holdoutStep[r] \in Opening
  BY DEF Predict, BuildProductBlock, Opening
<1>3. CASE Predict(r)
  <2>1. Goes(r, "product") \/ Goes(r, "failed")
    BY <1>3 DEF Predict, Fail
  <2>2. DOMAIN replay' = HoldoutRuns /\ AtBlock(replay'[r]) /\ \A s \in HoldoutRuns \ {r} : replay'[s] = replay[s]
    BY <1>1, <1>3 DEF Predict, AtBlock
  <2>. QED  BY <1>2, <2>1, <2>2, ThinkingKeeps
<1>4. CASE BuildProductBlock(r)
  <2>1. Goes(r, "freeze") \/ Goes(r, "failed")
    BY <1>4 DEF BuildProductBlock, Fail
  <2>2. DOMAIN replay' = HoldoutRuns /\ AtBlock(replay'[r]) /\ \A s \in HoldoutRuns \ {r} : replay'[s] = replay[s]
    <3>1. CASE UNCHANGED replay
      BY <1>1, <3>1
    <3>2. CASE ~UNCHANGED replay
      <4>1. PICK slate : replay' = [replay EXCEPT
               ![r].slate = slate,
               ![r].product = [calibrations |-> Calibrations(replay[r]), moneyline |-> MoneylineConfidence(replay[r]),
                               spread |-> SpreadConfidence(replay[r]), trust |-> replay[r].learnt["value_state"]]]
        BY <1>4, <3>2 DEF BuildProductBlock
      <4>. QED  BY <1>1, <4>1 DEF AtBlock
    <3>. QED  BY <3>1, <3>2
  <2>. QED  BY <1>2, <2>1, <2>2, ThinkingKeeps
<1>. QED  BY <1>3, <1>4

\* The inputs are opened behind the marker: only a run of it, or of another mode, gets here.
LEMMA OpenKeeps ==
  ASSUME HoldoutInv, NEW r \in HoldoutRuns, OpenInputs(r)
  PROVE  HoldoutInv'
<1>1. /\ holdoutStep[r] = "open" /\ opened' = [opened EXCEPT ![r] = @ \cup {0}]
      /\ (Goes(r, "failed") \/ Goes(r, "predict"))
      /\ UNCHANGED <<invocation, marker, files, replay, cards>>
  BY DEF OpenInputs, Fail
<1>2. opened' \in [HoldoutRuns -> SUBSET Int] /\ opened'[r] = opened[r] \cup {0}
      /\ \A s \in HoldoutRuns \ {r} : opened'[s] = opened[s]
  BY <1>1 DEF HoldoutInv, HoldoutTypes
<1>3. Kept(r) /\ Behind(r)
  <2>1. \A d \in Dirs, b \in Blocks : files[d][b] \in Nat
    BY DEF HoldoutInv, HoldoutTypes
  <2>. QED  BY <1>1, <1>2, <2>1 DEF Kept, HoldoutInv, HoldoutTypes
<1>4. Mode(r) = "one-shot" => marker' = r
  BY <1>1, <1>3 DEF Behind, Opening
<1>5. \A b \in opened'[r] \ {0} : b \in Blocks /\ files'[Dir(r)][b] >= 5 /\ b \in DOMAIN cards'[Dir(r)]
                                  /\ cards'[Dir(r)][b].by = r
  BY <1>1, <1>2, <1>3 DEF Behind, HasCard
<1>6. ASSUME NEW x \in {"failed", "predict"}, Goes(r, x) PROVE HoldoutInv'
  <2>1. x \notin Carding /\ x # "reveal" /\ x # "start" /\ x \in Steps
    BY DEF Carding, Steps, Opening
  <2>. QED  BY <1>3, <1>4, <1>5, <1>6, <2>1, KeptKeeps
<1>. QED  BY <1>1, <1>6

\* A card is frozen where there is none, so that it stays its run's.
LEMMA FreezeKeeps ==
  ASSUME HoldoutInv, NEW r \in HoldoutRuns, FreezePreResult(r)
  PROVE  HoldoutInv'
<1>. DEFINE s == replay[r]
            d == Dir(r)
            card == [by |-> r, models |-> s.models, product |-> s.product, carried |-> s.carried, bankroll |-> s.bankroll]
<1>1. holdoutStep[r] = "freeze" /\ UNCHANGED <<invocation, marker, opened, files, replay>>
  BY DEF FreezePreResult
<1>2. Behind(r) /\ d \in Dirs /\ AtBlock(s) /\ holdoutStep[r] \in Opening
  BY <1>1, ToldOnce DEF HoldoutInv, HoldoutTypes, Opening
<1>3. CASE Goes(r, "failed") /\ UNCHANGED cards
  <2>1. "failed" \in Steps \ Carding
    BY DEF Steps, Opening, Carding
  <2>. QED  BY <1>1, <1>2, <1>3, <2>1, MovesKeep DEF Opening
<1>4. CASE /\ ~Begun(d, s.block) /\ Goes(r, "write")
           /\ cards' = [cards EXCEPT ![d] = [b \in DOMAIN @ \cup {s.block} |-> IF b = s.block THEN card ELSE @[b]]]
  <2>1. DOMAIN cards = Dirs /\ s.block \notin DOMAIN cards[d]
    BY <1>4 DEF HoldoutInv, HoldoutTypes, Begun
  <2>2. /\ DOMAIN cards' = Dirs
        /\ cards'[d] = [b \in DOMAIN cards[d] \cup {s.block} |-> IF b = s.block THEN card ELSE cards[d][b]]
        /\ \A e \in Dirs \ {d} : cards'[e] = cards[e]
    BY <1>2, <1>4, <2>1
  <2>3. card.by = r
    OBVIOUS
  <2>. HIDE DEF card
  <2>4. s.block \in DOMAIN cards'[d] /\ cards'[d][s.block].by = r
    BY <2>2, <2>3
  <2>5. \A b \in DOMAIN cards[d] : b \in DOMAIN cards'[d] /\ cards'[d][b] = cards[d][b]
    BY <2>1, <2>2
  <2>6. \A e \in Dirs : \A b \in DOMAIN cards[e] : b \in DOMAIN cards'[e] /\ cards'[e][b] = cards[e][b]
    BY <2>2, <2>5
  <2>7. Kept(r)
    <3>1. \A e \in Dirs, b \in Blocks : files[e][b] \in Nat
      BY DEF HoldoutInv, HoldoutTypes
    <3>. QED  BY <1>1, <2>2, <2>6, <3>1 DEF Kept, HoldoutInv, HoldoutTypes
  <2>8. \A b \in opened'[r] \ {0} : b \in Blocks /\ files'[d][b] >= 5 /\ b \in DOMAIN cards'[d]
                                    /\ cards'[d][b].by = r
    BY <1>1, <1>2, <2>5 DEF Behind, HasCard
  <2>9. HasCard(r, d, s.block)'
    <3>1. Dir(r)' = Dir(r)
      BY <1>1 DEF Dir
    <3>. QED  BY <1>1, <2>4, <3>1 DEF HasCard
  <2>10. Mode(r) = "one-shot" => marker' = r
    BY <1>1, <1>2 DEF Behind
  <2>11. "write" \in Steps
    BY DEF Steps, Opening
  <2>. QED  BY <1>4, <2>7, <2>8, <2>9, <2>10, <2>11, KeptKeeps
<1>. QED  BY <1>3, <1>4 DEF FreezePreResult, Fail

\* One more file of the week of a run's block.
LEMMA OneMoreFile ==
  ASSUME HoldoutTypes, NEW r \in HoldoutRuns, NEW n,
         n = files[Dir(r)][replay[r].block] + 1, files' = [files EXCEPT ![Dir(r)][replay[r].block] = n]
  PROVE  /\ files' \in [Dirs -> [Blocks -> Nat]]
         /\ \A d \in Dirs, b \in Blocks : files[d][b] \in Nat /\ files'[d][b] >= files[d][b]
         /\ files'[Dir(r)][replay[r].block] = n
<1>. DEFINE d == Dir(r)
            b == replay[r].block
<1>1. d \in Dirs /\ b \in Blocks /\ files \in [Dirs -> [Blocks -> Nat]]
  BY ToldOnce DEF HoldoutTypes, AtBlock
<1>. HIDE DEF d, b
<1>2. n = files[d][b] + 1 /\ files' = [files EXCEPT ![d][b] = n]
  BY DEF d, b
<1>3. files[d][b] \in Nat /\ n \in Nat
  BY <1>1, <1>2
<1>4. files' \in [Dirs -> [Blocks -> Nat]] /\ files'[d][b] = n
  BY <1>1, <1>2, <1>3
<1>5. ASSUME NEW e \in Dirs, NEW c \in Blocks PROVE files[e][c] \in Nat /\ files'[e][c] >= files[e][c]
  <2>1. files[e][c] \in Nat
    BY <1>1
  <2>2. CASE e = d /\ c = b
    BY <1>2, <1>3, <1>4, <2>2
  <2>3. CASE ~(e = d /\ c = b)
    <3>1. files'[e][c] = files[e][c]
      BY <1>1, <1>2, <2>3
    <3>. QED  BY <2>1, <3>1
  <2>. QED  BY <2>2, <2>3
<1>. QED  BY <1>4, <1>5 DEF d, b

\* Files are added to the week of a card, and a card whose five files are there may be
\* revealed.
LEMMA FileKeeps ==
  ASSUME HoldoutInv, NEW r \in HoldoutRuns, WriteFrozenFile(r) \/ CommitRevealedBlock(r)
  PROVE  HoldoutInv'
<1>. DEFINE d == Dir(r)
            s == replay[r]
            n == files[d][s.block] + 1
<1>1. /\ holdoutStep[r] \in {"write", "commit"}
      /\ files' = [files EXCEPT ![d][s.block] = n]
      /\ UNCHANGED <<invocation, marker, opened, cards>>
  BY DEF WriteFrozenFile, CommitRevealedBlock
<1>2. Behind(r) /\ d \in Dirs /\ AtBlock(s) /\ HoldoutTypes /\ HasCard(r, d, s.block)
      /\ (Mode(r) = "one-shot" => marker' = r)
  <2>1. holdoutStep[r] \in Carding /\ holdoutStep[r] \in Opening
    BY <1>1 DEF Carding, Opening
  <2>. QED  BY <1>1, <2>1, ToldOnce DEF HoldoutInv, HoldoutTypes, Behind
<1>3. /\ files' \in [Dirs -> [Blocks -> Nat]]
      /\ \A e \in Dirs, b \in Blocks : files[e][b] \in Nat /\ files'[e][b] \in Nat /\ files'[e][b] >= files[e][b]
      /\ files'[d][s.block] = n
  <2>1. /\ files' \in [Dirs -> [Blocks -> Nat]]
        /\ \A e \in Dirs, b \in Blocks : files[e][b] \in Nat /\ files'[e][b] >= files[e][b]
        /\ files'[d][s.block] = n
    BY ONLY <1>1, <1>2, OneMoreFile
  <2>2. \A e \in Dirs, b \in Blocks : files'[e][b] \in Nat
    BY <2>1
  <2>. QED  BY <2>1, <2>2
<1>4. \A b \in opened'[r] \ {0} : b \in Blocks /\ files'[d][b] >= 5 /\ b \in DOMAIN cards'[d]
                                  /\ cards'[d][b].by = r
  BY <1>1, <1>2, <1>3 DEF Behind, HasCard
<1>5. ASSUME DOMAIN replay' = HoldoutRuns, \A t \in HoldoutRuns \ {r} : replay'[t] = replay[t], AtBlock(replay'[r])
      PROVE  Kept(r)
  BY <1>1, <1>2, <1>3, <1>5 DEF Kept, HoldoutTypes
<1>. HIDE DEF n
<1>6. ASSUME NEW x \in {"write", "reveal", "commit"}, Goes(r, x), UNCHANGED replay, x = "reveal" => n = 5
      PROVE  HoldoutInv'
  <2>1. Kept(r)
    BY <1>2, <1>5, <1>6 DEF HoldoutTypes
  <2>2. HasCard(r, d, s.block)'
    BY <1>1, <1>2, <1>6 DEF HasCard, Dir
  <2>3. x \in Steps /\ x # "start"
    BY DEF Steps, Opening
  <2>4. x = "reveal" => files'[d][replay'[r].block] >= 5
    BY <1>3, <1>6
  <2>. QED  BY <1>2, <1>4, <1>6, <2>1, <2>2, <2>3, <2>4, KeptKeeps
<1>7. ASSUME NEW x \in {"predict", "outputs", "failed"}, Goes(r, x), DOMAIN replay' = HoldoutRuns,
             \A t \in HoldoutRuns \ {r} : replay'[t] = replay[t], AtBlock(replay'[r])
      PROVE  HoldoutInv'
  <2>1. Kept(r)
    BY <1>5, <1>7
  <2>2. x \in Steps /\ x \notin Carding /\ x # "start" /\ x # "reveal"
    BY DEF Steps, Opening, Carding
  <2>. QED  BY <1>2, <1>4, <1>7, <2>1, <2>2, KeptKeeps
<1>8. CASE WriteFrozenFile(r)
  <2>1. UNCHANGED replay /\ Goes(r, IF n = 5 THEN "reveal" ELSE "write")
    BY <1>8 DEF WriteFrozenFile, n
  <2>. QED  BY <1>6, <2>1
<1>9. CASE CommitRevealedBlock(r)
  <2>1. \/ n < 8 /\ UNCHANGED <<holdoutStep, replay>>
        \/ s.block < LastBlock /\ replay' = [replay EXCEPT ![r].block = s.block + 1] /\ Goes(r, "predict")
        \/ UNCHANGED replay /\ (Goes(r, "outputs") \/ Goes(r, "failed"))
    BY <1>9 DEF CommitRevealedBlock, Fail, n
  <2>2. CASE n < 8 /\ UNCHANGED <<holdoutStep, replay>>
    <3>1. holdoutStep[r] = "commit"
      BY <1>9 DEF CommitRevealedBlock
    <3>2. Goes(r, "commit")
      BY <1>2, <2>2, <3>1 DEF Goes, HoldoutTypes
    <3>. QED  BY <1>6, <2>2, <3>2
  <2>3. CASE s.block < LastBlock /\ replay' = [replay EXCEPT ![r].block = s.block + 1] /\ Goes(r, "predict")
    <3>1. s.block + 1 \in Blocks
      BY <1>2, <2>3, BlocksAre DEF AtBlock, Blocks
    <3>2. DOMAIN replay' = HoldoutRuns /\ AtBlock(replay'[r]) /\ \A t \in HoldoutRuns \ {r} : replay'[t] = replay[t]
      BY <1>2, <2>3, <3>1 DEF AtBlock, HoldoutTypes
    <3>. QED  BY <1>7, <2>3, <3>2
  <2>4. CASE UNCHANGED replay /\ (Goes(r, "outputs") \/ Goes(r, "failed"))
    BY <1>2, <1>7, <2>4 DEF HoldoutTypes
  <2>. QED  BY <2>1, <2>2, <2>3, <2>4
<1>. QED  BY <1>8, <1>9

\* What is revealed is the block of a card that is on disk, and what is learnt from it
\* leaves the run at the block.
LEMMA RevealKeeps ==
  ASSUME HoldoutInv, NEW r \in HoldoutRuns, Reveal(r) \/ Advance(r)
  PROVE  HoldoutInv'
<1>. DEFINE d == Dir(r)
            s == replay[r]
<1>1. holdoutStep[r] \in {"reveal", "advance"} /\ UNCHANGED <<invocation, marker, files, cards>>
  BY DEF Reveal, Advance
<1>2. Behind(r) /\ d \in Dirs /\ AtBlock(s) /\ HoldoutTypes /\ HasCard(r, d, s.block)
      /\ (Mode(r) = "one-shot" => marker' = r)
      /\ \A e \in Dirs, b \in Blocks : files[e][b] \in Nat
  <2>1. holdoutStep[r] \in Carding /\ holdoutStep[r] \in Opening
    BY <1>1 DEF Carding, Opening
  <2>. QED  BY <1>1, <2>1, ToldOnce DEF HoldoutInv, HoldoutTypes, Behind
<1>3. ASSUME NEW x \in {"advance", "commit", "failed"}, Goes(r, x),
             DOMAIN replay' = HoldoutRuns, AtBlock(replay'[r]), replay'[r].block = s.block,
             \A t \in HoldoutRuns \ {r} : replay'[t] = replay[t],
             opened' \in [HoldoutRuns -> SUBSET Int], \A t \in HoldoutRuns \ {r} : opened'[t] = opened[t],
             opened'[r] = opened[r] \/ (opened'[r] = opened[r] \cup {s.block} /\ files[d][s.block] >= 5)
      PROVE  HoldoutInv'
  <2>1. Kept(r)
    BY <1>1, <1>2, <1>3 DEF Kept, HoldoutTypes
  <2>2. HasCard(r, d, s.block)'
    BY <1>1, <1>2, <1>3 DEF HasCard, Dir
  <2>3. x \in Steps /\ x # "start" /\ x # "reveal"
    BY DEF Steps, Opening
  <2>4. \A b \in opened'[r] \ {0} : b \in Blocks /\ files'[d][b] >= 5 /\ b \in DOMAIN cards'[d]
                                    /\ cards'[d][b].by = r
    BY <1>1, <1>2, <1>3 DEF Behind, HasCard, AtBlock
  <2>. QED  BY <1>2, <1>3, <2>1, <2>2, <2>3, <2>4, KeptKeeps
<1>4. CASE Reveal(r)
  <2>1. holdoutStep[r] = "reveal" /\ opened' = [opened EXCEPT ![r] = @ \cup {s.block}]
    BY <1>4 DEF Reveal
  <2>2. files[d][s.block] >= 5 /\ s.block \in Int
    BY <1>2, <2>1 DEF Behind, AtBlock, Blocks
  <2>3. opened' \in [HoldoutRuns -> SUBSET Int] /\ opened'[r] = opened[r] \cup {s.block}
        /\ \A t \in HoldoutRuns \ {r} : opened'[t] = opened[t]
    BY <1>2, <2>1, <2>2 DEF HoldoutTypes
  <2>4. \/ Goes(r, "failed") /\ UNCHANGED replay
        \/ Goes(r, "advance") /\ \E result : replay' = [replay EXCEPT ![r].read = @ + 1, ![r].result = result]
    BY <1>4 DEF Reveal, Fail
  <2>5. (Goes(r, "failed") \/ Goes(r, "advance")) /\ DOMAIN replay' = HoldoutRuns /\ AtBlock(replay'[r])
        /\ replay'[r].block = s.block /\ \A t \in HoldoutRuns \ {r} : replay'[t] = replay[t]
    BY <1>2, <2>4 DEF AtBlock, HoldoutTypes
  <2>. QED  BY <1>3, <2>2, <2>3, <2>5
<1>5. CASE Advance(r)
  <2>. DEFINE exposure == UniqueExposure(s.slate)
              rows == Scenario(s.block, s.bankroll, exposure, s.result)
              money == AdvanceBankroll(s, rows, exposure)
              new == [money EXCEPT !.learnt = Learn(s), !.completed = Append(@, s.block)]
  <2>1. Goes(r, "commit") /\ opened' = opened /\ replay' = [replay EXCEPT ![r] = new]
    BY <1>5 DEF Advance
  <2>2. AtBlock(money) /\ money.block = s.block
    BY <1>2 DEF AdvanceBankroll, AtBlock
  <2>. HIDE DEF money
  <2>3. AtBlock(new) /\ new.block = s.block
    BY <2>2 DEF AtBlock
  <2>. HIDE DEF new
  <2>4. DOMAIN replay' = HoldoutRuns /\ AtBlock(replay'[r]) /\ replay'[r].block = s.block
        /\ \A t \in HoldoutRuns \ {r} : replay'[t] = replay[t]
    BY <1>2, <2>1, <2>3 DEF HoldoutTypes
  <2>. QED  BY <1>2, <1>3, <2>1, <2>4 DEF HoldoutTypes
<1>. QED  BY <1>4, <1>5

\* Every step of the replay leaves everybody there.
LEMMA HoldoutNextKeeps == HoldoutInv /\ [HoldoutNext]_holdoutVars => HoldoutInv'
<1>1. HoldoutInv /\ UNCHANGED holdoutVars => HoldoutInv'
  BY DEF holdoutVars, HoldoutInv, HoldoutTypes, Behind, HasCard, Dir, Mode, AtBlock
<1>. QED  BY <1>1, PreparingKeeps, OpenKeeps, PredictKeeps, FreezeKeeps, FileKeeps, RevealKeeps DEF HoldoutNext

\* The 2025 season is opened once, for any runs, seasons and flaws of the inputs, whoever
\* races or dies: only the one-shot run the marker names has read a file of it, and no run
\* has read the outcomes of a block without its own card on disk.
THEOREM OpenedOnce == HoldoutSpec => []SpentOnce
<1>1. HoldoutInv => SpentOnce
  BY DEF HoldoutInv, Behind, HasCard, SpentOnce
<1>. QED  BY <1>1, HoldoutInitially, HoldoutNextKeeps, PTL DEF HoldoutSpec

\* One place more of the stakes of a slate.
Capped(bankroll, proposed, g, s) ==
  IF s = {} THEN <<>>
  ELSE Append(g[s \ {Max(s)}],
              Smaller(proposed[Max(s)], (bankroll \div 10 - 50 * SumFunction(g[s \ {Max(s)}])) \div 50))

\* What the stakes of a slate are a fold of.
LEMMA CapIs ==
  ASSUME NEW bankroll, NEW proposed
  PROVE  CapSlateStakes(bankroll, proposed) =
           (CHOOSE g : g = [s \in SUBSET DOMAIN proposed |-> Capped(bankroll, proposed, g, s)])[DOMAIN proposed]
  BY DEF CapSlateStakes, FoldLeft, MapThenFoldSet, Capped

\* A sequence has the sum of its numbers; one more is added to it.
LEMMA SumAppends ==
  /\ SumFunction(<<>>) = 0
  /\ \A s \in Seq(Int), x \in Int :
       SumFunction(s) \in Int /\ SumFunction(Append(s, x)) = SumFunction(s) + x
<1>1. SumFunction(<<>>) = 0
  <2>1. IsFiniteSet({}) /\ DOMAIN <<>> = {}
    BY FS_EmptySet
  <2>. QED  BY <2>1, SumChooses DEF SumFunction
<1>2. ASSUME NEW s \in Seq(Int), NEW x \in Int
      PROVE  SumFunction(s) \in Int /\ SumFunction(Append(s, x)) = SumFunction(s) + x
  <2>1. PICK n \in Nat : n = Len(s)
    OBVIOUS
  <2>2. PICK t : t = Append(s, x)
    OBVIOUS
  <2>3. DOMAIN s = 1..n /\ DOMAIN t = 1..(n + 1) /\ t[n + 1] = x /\ \A i \in 1..n : s[i] \in Int /\ t[i] = s[i]
    BY <2>1, <2>2
  <2>4. IsFiniteSet(1..n) /\ IsFiniteSet(1..(n + 1)) /\ 1..n \in SUBSET (1..n)
    BY FS_Interval
  <2>5. \A i \in 1..(n + 1) : t[i] \in Int
    BY <2>3
  <2>6. 1..(n + 1) \in SUBSET (1..(n + 1)) /\ n + 1 \in 1..(n + 1) /\ (1..(n + 1)) \ {n + 1} = 1..n
    OBVIOUS
  <2>7. PICK K : K = 1..(n + 1)
    OBVIOUS
  <2>8. IsFiniteSet(K) /\ K \in SUBSET K /\ \A i \in K : t[i] \in Int
    BY <2>4, <2>5, <2>7
  <2>9. \A i \in K : SumFunctionOnSet(t, K) = t[i] + SumFunctionOnSet(t, K \ {i})
    BY <2>8, SumRemoves
  <2>10. SumFunctionOnSet(t, K) = x + SumFunctionOnSet(t, 1..n)
    BY <2>3, <2>6, <2>7, <2>9
  <2>11. SumFunctionOnSet(s, 1..n) = SumFunctionOnSet(t, 1..n) /\ SumFunctionOnSet(s, 1..n) \in Int
    BY <2>3, <2>4, SumAgrees, SumType
  <2>12. SumFunction(s) = SumFunctionOnSet(s, 1..n) /\ SumFunction(t) = SumFunctionOnSet(t, K)
    BY <2>3, <2>7 DEF SumFunction
  <2>. QED  BY <2>2, <2>10, <2>11, <2>12
<1>. QED  BY <1>1, <1>2

\* The stakes of a slate: one for each wager, none negative, and together no more than a
\* tenth of the bankroll.
LEMMA StakesAre ==
  ASSUME NEW bankroll \in Nat, NEW proposed, NEW n \in Nat, DOMAIN proposed = 1..n,
         \A i \in 1..n : proposed[i] \in Nat
  PROVE  LET given == CapSlateStakes(bankroll, proposed)
         IN given \in Seq(Nat) /\ Len(given) = n /\ 500 * SumFunction(given) <= bankroll
<1>. DEFINE Next1(a, i) == Append(a, Smaller(proposed[i], (bankroll \div 10 - 50 * SumFunction(a)) \div 50))
<1>1. PICK tenth \in Nat : tenth = bankroll \div 10 /\ 10 * tenth <= bankroll
  OBVIOUS
<1>2. \A a \in Seq(Int), i \in 1..n : Next1(a, i) \in Seq(Int)
  <2>. SUFFICES ASSUME NEW a \in Seq(Int), NEW i \in 1..n PROVE Next1(a, i) \in Seq(Int)
    OBVIOUS
  <2>1. SumFunction(a) \in Int /\ proposed[i] \in Int /\ bankroll \div 10 \in Int
    BY SumAppends
  <2>2. Smaller(proposed[i], (bankroll \div 10 - 50 * SumFunction(a)) \div 50) \in Int
    BY <2>1 DEF Smaller
  <2>. QED  BY <2>2
<1>3. PICK P : P = [x \in Seq(Int) \X (1..n) |-> Next1(x[1], x[2])]
  OBVIOUS
<1>4. \A a \in Seq(Int), i \in 1..n : P[<<a, i>>] = Next1(a, i) /\ P[<<a, i>>] \in Seq(Int)
  BY <1>2, <1>3
<1>5. <<>> \in Seq(Int)
  OBVIOUS
<1>6. PICK g \in [SUBSET (1..n) -> Seq(Int)] : FoldOf(g, n, <<>>, P)
  BY <1>4, <1>5, FoldsExist
<1>7. g = [s \in SUBSET (1..n) |-> Capped(bankroll, proposed, g, s)]
  <2>1. ASSUME NEW s \in SUBSET (1..n) PROVE g[s] = Capped(bankroll, proposed, g, s)
    <3>1. CASE s = {}
      BY <1>6, <3>1 DEF Capped, FoldOf
    <3>2. CASE s # {}
      <4>1. Max(s) \in 1..n /\ s \ {Max(s)} \in SUBSET (1..n)
        BY <3>2, MaxIs
      <4>2. g[s \ {Max(s)}] \in Seq(Int)
        BY <1>6, <4>1
      <4>3. g[s] = Next1(g[s \ {Max(s)}], Max(s))
        BY <1>4, <1>6, <3>2, <4>1, <4>2 DEF FoldOf
      <4>. QED  BY <3>2, <4>3 DEF Capped
    <3>. QED  BY <3>1, <3>2
  <2>. QED  BY <1>6, <2>1
<1>8. PICK G : G = CHOOSE h : h = [s \in SUBSET (1..n) |-> Capped(bankroll, proposed, h, s)]
  OBVIOUS
<1>9. G = [s \in SUBSET (1..n) |-> Capped(bankroll, proposed, G, s)]
  BY <1>7, <1>8
<1>10. CapSlateStakes(bankroll, proposed) = G[1..n]
  BY <1>8, CapIs
<1>11. G[1..0] = <<>>
  <2>1. 1..0 = {} /\ {} \in SUBSET (1..n)
    OBVIOUS
  <2>2. G[{}] = <<>>
    BY <1>9, <2>1 DEF Capped
  <2>. QED  BY <2>1, <2>2
<1>12. \A i \in 1..n : G[1..i] = Next1(G[1..(i - 1)], i)
  <2>. SUFFICES ASSUME NEW i \in 1..n PROVE G[1..i] = Next1(G[1..(i - 1)], i)
    OBVIOUS
  <2>1. 1..i \in SUBSET (1..n) /\ 1..i # {} /\ Max(1..i) = i /\ (1..i) \ {i} = 1..(i - 1)
    BY PlacesUpTo
  <2>2. G[1..i] = Capped(bankroll, proposed, G, 1..i)
    BY <1>9, <2>1
  <2>. QED  BY <2>1, <2>2 DEF Capped
<1>. DEFINE Good(i) == G[1..i] \in Seq(Nat) /\ Len(G[1..i]) = i /\ 50 * SumFunction(G[1..i]) <= tenth
            B == {i \in 0..n : ~Good(i)}
<1>13. Good(0)
  <2>1. <<>> \in Seq(Nat) /\ Len(<<>>) = 0 /\ 50 * SumFunction(<<>>) <= tenth
    BY SumAppends
  <2>. QED  BY <1>11, <2>1
<1>14. ASSUME NEW i \in 1..n, Good(i - 1) PROVE Good(i)
  <2>1. PICK a : a = G[1..(i - 1)]
    OBVIOUS
  <2>2. a \in Seq(Nat) /\ Len(a) = i - 1 /\ 50 * SumFunction(a) <= tenth
    BY <1>14, <2>1
  <2>3. a \in Seq(Int)
    BY <2>2
  <2>4. SumFunction(a) \in Int
    BY <2>3, SumAppends
  <2>5. PICK x : x = Smaller(proposed[i], (tenth - 50 * SumFunction(a)) \div 50)
    OBVIOUS
  <2>6. x \in Nat /\ 50 * x <= tenth - 50 * SumFunction(a)
    <3>1. PICK y \in Int : y = tenth - 50 * SumFunction(a)
      BY <2>4
    <3>2. y >= 0
      BY <2>2, <2>4, <3>1
    <3>3. y \div 50 \in Nat /\ 50 * (y \div 50) <= y
      BY <3>2
    <3>. QED  BY <2>5, <3>1, <3>3 DEF Smaller
  <2>7. G[1..i] = Append(a, x)
    BY <1>1, <1>12, <2>1, <2>5
  <2>8. Append(a, x) \in Seq(Nat) /\ Len(Append(a, x)) = i
    BY <2>2, <2>6
  <2>9. SumFunction(Append(a, x)) = SumFunction(a) + x
    BY <2>3, <2>6, SumAppends
  <2>10. 50 * SumFunction(Append(a, x)) <= tenth
    BY <2>2, <2>6, <2>9, <2>4
  <2>. QED  BY <2>7, <2>8, <2>10
<1>. HIDE DEF Good
<1>15. B = {}
  <2>. SUFFICES ASSUME B # {} PROVE FALSE
    OBVIOUS
  <2>1. B \subseteq Nat
    OBVIOUS
  <2>2. PICK i \in B : \A m \in B : i <= m
    BY <2>1, LeastElement
  <2>3. i # 0 /\ i \in 0..n
    BY <1>13
  <2>4. i \in 1..n /\ i - 1 \in 0..n /\ i - 1 \notin B
    BY <2>2, <2>3
  <2>. QED  BY <1>14, <2>4
<1>16. Good(n)
  BY <1>15
<1>17. G[1..n] \in Seq(Int) /\ SumFunction(G[1..n]) \in Int
  <2>1. G[1..n] \in Seq(Nat)
    BY <1>16 DEF Good
  <2>2. G[1..n] \in Seq(Int)
    BY <2>1
  <2>. QED  BY <2>2, SumAppends
<1>18. 500 * SumFunction(G[1..n]) <= bankroll
  BY <1>1, <1>16, <1>17 DEF Good
<1>. QED  BY <1>10, <1>16, <1>18 DEF Good

\* The wagers that have a stake in a slate, and the wagers after one lane more.
Staked(slate) == {l \in DOMAIN slate : slate[l].units > 0}
UnitsOf(slate, offer) == {slate[l].units : l \in {m \in Staked(slate) : slate[m].offer = offer}}

OneLaneMore(slate, out, l) ==
  IF l \notin Staked(slate) \/ \E i \in DOMAIN out : out[i].offer = slate[l].offer THEN out
  ELSE Append(out, [offer |-> slate[l].offer, units |-> Max(UnitsOf(slate, slate[l].offer))])

Exposed(slate, g, s) == IF s = {} THEN <<>> ELSE OneLaneMore(slate, g[s \ {Max(s)}], Lanes[Max(s)])

\* What the wagers of a slate are a fold of.
LEMMA ExposureFolds ==
  ASSUME NEW slate
  PROVE  UniqueExposure(slate) =
           (CHOOSE g : g = [s \in SUBSET DOMAIN Lanes |-> Exposed(slate, g, s)])[DOMAIN Lanes]
  BY DEF UniqueExposure, FoldLeft, MapThenFoldSet, Exposed, OneLaneMore, Staked, UnitsOf

\* What may be exposed of a slate: its offers, each once, at some number of units.
Exposures(slate) ==
  {out \in Seq([offer : {slate[l].offer : l \in DOMAIN slate}, units : Nat]) :
     \A i, j \in 1..Len(out) : out[i].offer = out[j].offer => i = j}

\* Each offer that has a stake is exposed, once.
LEMMA ExposureIs ==
  ASSUME NEW slate, DOMAIN slate \subseteq {"hit_rate", "balanced", "value"},
         \A l \in DOMAIN slate : slate[l].units \in Nat
  PROVE  UniqueExposure(slate) \in Exposures(slate)
<1>. DEFINE offers == {slate[l].offer : l \in DOMAIN slate}
<1>1. \A l \in Staked(slate) : Max(UnitsOf(slate, slate[l].offer)) \in Nat
  <2>. SUFFICES ASSUME NEW l \in Staked(slate) PROVE Max(UnitsOf(slate, slate[l].offer)) \in Nat
    OBVIOUS
  <2>1. PICK U : U = UnitsOf(slate, slate[l].offer)
    OBVIOUS
  <2>. DEFINE u(m) == IF m \in DOMAIN slate THEN slate[m].units ELSE 0
  <2>2. PICK n \in Nat : n = u("hit_rate") + u("balanced") + u("value")
    OBVIOUS
  <2>3. \A m \in DOMAIN slate : slate[m].units \in 0..n
    BY <2>2
  <2>4. U \subseteq 0..n /\ slate[l].units \in U
    BY <2>1, <2>3 DEF UnitsOf, Staked
  <2>5. U \in SUBSET (0..n) /\ U # {}
    BY <2>4
  <2>6. PICK x \in U : \A y \in U : y <= x
    BY <2>5, GreatestElement
  <2>7. \A y \in U : x >= y
    BY <2>4, <2>6
  <2>8. Max(U) \in U
    BY <2>7 DEF Max
  <2>. QED  BY <2>1, <2>4, <2>8
<1>2. \A out \in Exposures(slate), l \in {"hit_rate", "balanced", "value"} : OneLaneMore(slate, out, l) \in Exposures(slate)
  <2>. SUFFICES ASSUME NEW out \in Exposures(slate), NEW l \in Staked(slate),
                       \A i \in DOMAIN out : out[i].offer # slate[l].offer,
                       NEW x, x = [offer |-> slate[l].offer, units |-> Max(UnitsOf(slate, slate[l].offer))]
                PROVE  Append(out, x) \in Exposures(slate)
    BY DEF OneLaneMore
  <2>1. l \in DOMAIN slate
    BY DEF Staked
  <2>2. PICK W : W = [offer : offers, units : Nat]
    OBVIOUS
  <2>3. x \in W /\ x.offer = slate[l].offer
    BY <1>1, <2>1, <2>2
  <2>4. out \in Seq(W) /\ \A i, j \in 1..Len(out) : out[i].offer = out[j].offer => i = j
    BY <2>2 DEF Exposures
  <2>5. PICK more : more = Append(out, x)
    OBVIOUS
  <2>6. /\ more \in Seq(W) /\ Len(more) = Len(out) + 1 /\ more[Len(out) + 1] = x
        /\ \A i \in 1..Len(out) : more[i] = out[i]
    BY <2>3, <2>4, <2>5
  <2>7. Len(out) \in Nat /\ DOMAIN out = 1..Len(out)
    BY <2>4
  <2>8. \A i, j \in 1..Len(more) : more[i].offer = more[j].offer => i = j
    <3>. SUFFICES ASSUME NEW i \in 1..Len(more), NEW j \in 1..Len(more), more[i].offer = more[j].offer
                  PROVE  i = j
      OBVIOUS
    <3>1. \A m \in 1..Len(out) : more[m].offer # more[Len(out) + 1].offer
      BY <2>3, <2>6, <2>7
    <3>2. /\ i \in 1..Len(out) \/ i = Len(out) + 1
          /\ j \in 1..Len(out) \/ j = Len(out) + 1
      BY <2>6, <2>7
    <3>3. CASE i \in 1..Len(out) /\ j \in 1..Len(out)
      BY <2>4, <2>6, <3>3
    <3>. QED  BY <3>1, <3>2, <3>3
  <2>. QED  BY <2>2, <2>5, <2>6, <2>8 DEF Exposures
<1>3. PICK A : A = Exposures(slate)
  OBVIOUS
<1>4. <<>> \in A
  BY <1>3 DEF Exposures
<1>5. PICK P : P = [x \in A \X (1..3) |-> OneLaneMore(slate, x[1], Lanes[x[2]])]
  OBVIOUS
<1>6. DOMAIN Lanes = 1..3 /\ \A i \in 1..3 : Lanes[i] \in {"hit_rate", "balanced", "value"}
  BY DEF Lanes
<1>7. \A a \in A, i \in 1..3 : P[<<a, i>>] = OneLaneMore(slate, a, Lanes[i]) /\ P[<<a, i>>] \in A
  BY <1>2, <1>3, <1>5, <1>6
<1>8. PICK g \in [SUBSET (1..3) -> A] : FoldOf(g, 3, <<>>, P)
  BY <1>4, <1>7, FoldsExist
<1>9. g = [s \in SUBSET (1..3) |-> Exposed(slate, g, s)]
  <2>1. ASSUME NEW s \in SUBSET (1..3) PROVE g[s] = Exposed(slate, g, s)
    <3>1. CASE s = {}
      BY <1>8, <3>1 DEF Exposed, FoldOf
    <3>2. CASE s # {}
      <4>1. 3 \in Nat
        OBVIOUS
      <4>2. Max(s) \in s
        BY <3>2, <4>1, MaxIs
      <4>3. Max(s) \in 1..3 /\ s \ {Max(s)} \in SUBSET (1..3)
        BY <4>2
      <4>4. g[s \ {Max(s)}] \in A
        BY <1>8, <4>3
      <4>5. g[s] = OneLaneMore(slate, g[s \ {Max(s)}], Lanes[Max(s)])
        BY <1>7, <1>8, <3>2, <4>3, <4>4 DEF FoldOf
      <4>. QED  BY <3>2, <4>5 DEF Exposed
    <3>. QED  BY <3>1, <3>2
  <2>. QED  BY <1>8, <2>1
<1>10. PICK G : G = CHOOSE h : h = [s \in SUBSET (1..3) |-> Exposed(slate, h, s)]
  OBVIOUS
<1>11. G = [s \in SUBSET (1..3) |-> Exposed(slate, G, s)]
  BY <1>9, <1>10
<1>12. UniqueExposure(slate) = G[1..3]
  BY <1>6, <1>10, ExposureFolds
<1>13. G[1..0] \in A
  <2>1. 1..0 = {} /\ {} \in SUBSET (1..3)
    OBVIOUS
  <2>2. G[{}] = <<>>
    BY <1>11, <2>1 DEF Exposed
  <2>. QED  BY <1>4, <2>1, <2>2
<1>14. \A i \in 1..3 : G[1..(i - 1)] \in A => G[1..i] \in A
  <2>. SUFFICES ASSUME NEW i \in 1..3, G[1..(i - 1)] \in A PROVE G[1..i] \in A
    OBVIOUS
  <2>1. 3 \in Nat
    OBVIOUS
  <2>2. 1..i \in SUBSET (1..3) /\ 1..i # {} /\ Max(1..i) = i /\ (1..i) \ {i} = 1..(i - 1)
    BY <2>1, PlacesUpTo
  <2>3. G[1..i] = Exposed(slate, G, 1..i)
    BY <1>11, <2>2
  <2>4. G[1..i] = OneLaneMore(slate, G[1..(i - 1)], Lanes[i])
    BY <2>2, <2>3 DEF Exposed
  <2>. QED  BY <1>2, <1>3, <1>6, <2>4
<1>15. G[1..1] \in A
  BY <1>13, <1>14
<1>16. G[1..2] \in A
  BY <1>14, <1>15
<1>. QED  BY <1>3, <1>12, <1>14, <1>16

\* The rows of known games, taken one row further.
KnownUpTo(known, rows, g, s) ==
  IF s = {} THEN <<>>
  ELSE IF rows[Max(s)] \in known THEN Append(g[s \ {Max(s)}], rows[Max(s)]) ELSE g[s \ {Max(s)}]

KnownByPlaces(games, rows, D) == CHOOSE g : g = [t \in SUBSET D |-> KnownUpTo(games, rows, g, t)]

\* What the known rows are a fold of.
LEMMA SpreadFolds ==
  ASSUME NEW s
  PROVE  SpreadConfidence(s) =
           KnownByPlaces(Range(s.learnt["product_games"]), s.learnt["prior_board_rows"], DOMAIN s.learnt["prior_board_rows"])
             [DOMAIN s.learnt["prior_board_rows"]]
  BY DEF SpreadConfidence, FoldLeft, MapThenFoldSet, KnownUpTo, KnownByPlaces

\* When every game has its row and no row is of another game, every row is known.
LEMMA EveryRowKnown ==
  ASSUME NEW s, NEW rows \in Seq(Int), s.learnt["prior_board_rows"] = rows, s.learnt["product_games"] = rows
  PROVE  SpreadConfidence(s) = rows
<1>1. PICK n \in Nat : n = Len(rows) /\ DOMAIN rows = 1..n
  OBVIOUS
<1>2. \A i \in 1..n : rows[i] \in Int /\ rows[i] \in Range(rows)
  BY <1>1 DEF Range
<1>3. PICK A : A = Seq(Int)
  OBVIOUS
<1>4. PICK P : P = [x \in A \X (1..n) |-> IF rows[x[2]] \in Range(rows) THEN Append(x[1], rows[x[2]]) ELSE x[1]]
  OBVIOUS
<1>5. \A a \in A, i \in 1..n : P[<<a, i>>] = Append(a, rows[i]) /\ P[<<a, i>>] \in A
  BY <1>2, <1>3, <1>4
<1>6. <<>> \in A
  BY <1>3
<1>7. PICK g \in [SUBSET (1..n) -> A] : FoldOf(g, n, <<>>, P)
  BY <1>5, <1>6, FoldsExist
<1>8. g = [t \in SUBSET (1..n) |-> KnownUpTo(Range(rows), rows, g, t)]
  <2>1. ASSUME NEW t \in SUBSET (1..n) PROVE g[t] = KnownUpTo(Range(rows), rows, g, t)
    <3>1. CASE t = {}
      BY <1>7, <3>1 DEF KnownUpTo, FoldOf
    <3>2. CASE t # {}
      <4>1. Max(t) \in t
        BY <3>2, MaxIs
      <4>2. Max(t) \in 1..n /\ t \ {Max(t)} \in SUBSET (1..n)
        BY <4>1
      <4>3. g[t \ {Max(t)}] \in A
        BY <1>7, <4>2
      <4>4. g[t] = Append(g[t \ {Max(t)}], rows[Max(t)])
        BY <1>5, <1>7, <3>2, <4>2, <4>3 DEF FoldOf
      <4>. QED  BY <1>2, <3>2, <4>2, <4>4 DEF KnownUpTo
    <3>. QED  BY <3>1, <3>2
  <2>. QED  BY <1>7, <2>1
<1>9. PICK G : G = KnownByPlaces(Range(rows), rows, 1..n)
  OBVIOUS
<1>10. G = [t \in SUBSET (1..n) |-> KnownUpTo(Range(rows), rows, G, t)]
  BY <1>8, <1>9 DEF KnownByPlaces
<1>11. SpreadConfidence(s) = G[1..n]
  BY <1>1, <1>9, SpreadFolds
<1>. DEFINE Good(i) == G[1..i] \in Seq(Int) /\ Len(G[1..i]) = i /\ \A j \in 1..i : G[1..i][j] = rows[j]
            B == {i \in 0..n : ~Good(i)}
<1>12. Good(0)
  <2>1. 1..0 = {} /\ {} \in SUBSET (1..n)
    OBVIOUS
  <2>2. G[{}] = <<>>
    BY <1>10, <2>1 DEF KnownUpTo
  <2>3. <<>> \in Seq(Int) /\ Len(<<>>) = 0
    OBVIOUS
  <2>. QED  BY <2>1, <2>2, <2>3
<1>13. ASSUME NEW i \in 1..n, Good(i - 1) PROVE Good(i)
  <2>1. 1..i \in SUBSET (1..n) /\ 1..i # {} /\ Max(1..i) = i /\ (1..i) \ {i} = 1..(i - 1)
    BY PlacesUpTo
  <2>2. G[1..i] = KnownUpTo(Range(rows), rows, G, 1..i)
    BY <1>10, <2>1
  <2>3. PICK a : a = G[1..(i - 1)]
    OBVIOUS
  <2>4. G[1..i] = Append(a, rows[i])
    BY <1>2, <2>1, <2>2, <2>3 DEF KnownUpTo
  <2>5. a \in Seq(Int) /\ Len(a) = i - 1 /\ \A j \in 1..(i - 1) : a[j] = rows[j]
    BY <1>13, <2>3
  <2>6. rows[i] \in Int
    BY <1>2
  <2>7. PICK c : c = Append(a, rows[i])
    OBVIOUS
  <2>8. c \in Seq(Int) /\ Len(c) = i /\ c[i] = rows[i] /\ \A j \in 1..(i - 1) : c[j] = a[j]
    BY <2>5, <2>6, <2>7
  <2>9. \A j \in 1..i : c[j] = rows[j]
    BY <2>5, <2>8
  <2>. QED  BY <2>4, <2>7, <2>8, <2>9
<1>. HIDE DEF Good
<1>14. B = {}
  <2>. SUFFICES ASSUME B # {} PROVE FALSE
    OBVIOUS
  <2>1. B \subseteq Nat
    OBVIOUS
  <2>2. PICK i \in B : \A m \in B : i <= m
    BY <2>1, LeastElement
  <2>3. i # 0 /\ i \in 0..n
    BY <1>12
  <2>4. i \in 1..n /\ i - 1 \in 0..n /\ i - 1 \notin B
    BY <2>2, <2>3
  <2>. QED  BY <1>13, <2>4
<1>15. G[1..n] \in Seq(Int) /\ Len(G[1..n]) = Len(rows) /\ \A j \in 1..Len(rows) : G[1..n][j] = rows[j]
  BY <1>1, <1>14 DEF Good
<1>16. PICK w : w = G[1..n]
  OBVIOUS
<1>17. w \in Seq(Int) /\ Len(w) = Len(rows) /\ \A j \in 1..Len(rows) : w[j] = rows[j]
  BY <1>15, <1>16
<1>18. w = rows
  BY ONLY <1>17, rows \in Seq(Int), SeqEqual
<1>. QED  BY <1>11, <1>16, <1>18

\* The past of a block, and how it grows.
LEMMA PastIs ==
  ASSUME NEW b \in Nat, b >= 1
  PROVE  /\ Past(b) \in Seq(Int)
         /\ Append(Past(b), b) = Past(b + 1)
         /\ Front(Past(b)) = Past(b - 1)
         /\ Last(Past(b)) = b - 1
  BY DEF Past, Front, Last

\* What is staked of a bankroll is not negative.
LEMMA StakeIs ==
  ASSUME NEW bankroll \in Nat, NEW share \in Nat, NEW units \in Nat
  PROVE  DollarStake(bankroll, share, units) \in Nat
<1>1. PICK x \in Nat : x = bankroll * share * units
  OBVIOUS
<1>2. x \div 2000000 \in Nat /\ bankroll \div 2000 \in Nat
  OBVIOUS
<1>. QED  BY <1>1, <1>2 DEF DollarStake, Smaller

\* A wager settles to no less than its stake.
LEMMA ProfitIs ==
  ASSUME NEW result \in Results, NEW odds \in Int \ {0}, NEW stake \in Nat
  PROVE  UnitProfit(result, odds, stake) \in Int /\ UnitProfit(result, odds, stake) >= -50 * stake
<1>1. CASE result = "PUSH"
  BY <1>1 DEF UnitProfit
<1>2. CASE result = "LOSS"
  BY <1>2 DEF UnitProfit
<1>3. CASE result = "WIN" /\ odds > 0
  <2>1. (stake * odds) \div 2 \in Int /\ (stake * odds) \div 2 >= 0
    BY <1>3
  <2>. QED  BY <1>3, <2>1 DEF UnitProfit
<1>4. CASE result = "WIN" /\ odds < 0
  <2>1. PICK o \in Nat \ {0} : o = -odds
    BY <1>4
  <2>2. (stake * 5000) \div o \in Int /\ (stake * 5000) \div o >= 0
    OBVIOUS
  <2>. QED  BY <1>4, <2>1, <2>2 DEF UnitProfit
<1>. QED  BY <1>1, <1>2, <1>3, <1>4 DEF Results

\* What a week of a profile comes to: a row for each wager, together staked from no more
\* than a tenth of what the profile has, so that something may be left.
Settled(rows, bankroll) ==
  /\ IsFiniteSet(rows)
  /\ \A x \in rows : x.profit \in Int /\ x.stake \in Nat
  /\ 500 * TotalStake(rows) <= bankroll
  /\ bankroll + TotalProfit(rows) \in Nat
  /\ \A x, y \in rows : x.offer = y.offer => x = y

\* The rows of a profile, a row for each place of a sequence of wagers.
LEMMA RowsSettle ==
  ASSUME NEW n \in Nat, NEW row, NEW bankroll \in Nat, NEW stakes, stakes \in Seq(Nat), Len(stakes) = n,
         500 * SumFunction(stakes) <= bankroll,
         \A i \in 1..n : /\ row[i].stake = stakes[i] /\ row[i].profit \in Int
                         /\ row[i].profit >= -50 * stakes[i],
         \A i, j \in 1..n : row[i].offer = row[j].offer => i = j
  PROVE  Settled(ValuesOn(row, 1..n), bankroll)
<1>1. PICK K : K = 1..n
  OBVIOUS
<1>2. PICK rows : rows = ValuesOn(row, K) /\ rows = {row[i] : i \in K}
  BY DEF ValuesOn
<1>3. IsFiniteSet(K) /\ K \in SUBSET K
  <2>1. IsFiniteSet(1..n)
    BY FS_Interval
  <2>. QED  BY <1>1, <2>1
<1>4. \A i \in K : stakes[i] \in Nat /\ row[i] \in rows /\ row[i].stake = stakes[i] /\ row[i].profit \in Int
                   /\ row[i].profit >= -50 * stakes[i]
  <2>1. \A i \in K : stakes[i] \in Nat
    BY <1>1
  <2>2. \A i \in K : row[i] \in rows
    BY <1>2
  <2>. QED  BY <1>1, <2>1, <2>2
<1>5. IsFiniteSet(rows)
  <2>1. PICK F : F = [i \in K |-> row[i]]
    OBVIOUS
  <2>2. F \in Surjection(K, rows)
    BY <1>2, <2>1 DEF Surjection
  <2>. QED  BY <1>3, <2>2, FS_Surjection
<1>6. \A i, j \in K : row[i] = row[j] => i = j
  BY <1>1
<1>7. PICK h : h = [i \in K |-> row[i].profit]
  OBVIOUS
<1>8. PICK u : u = [x \in rows |-> x.stake]
  OBVIOUS
<1>9. PICK v : v = [x \in rows |-> x.profit]
  OBVIOUS
<1>10. SumFunctionOnSet(u, rows) = SumFunctionOnSet(stakes, K)
  <2>1. \A i \in K : u[row[i]] \in Int /\ stakes[i] = u[row[i]]
    BY <1>4, <1>8
  <2>2. IsFiniteSet(K)
    BY <1>3
  <2>3. \A T \in SUBSET K : SumFunctionOnSet(u, ValuesOn(row, T)) = SumFunctionOnSet(stakes, T)
    BY ONLY <2>2, <1>6, <2>1, SumOfImage
  <2>. QED  BY <1>2, <1>3, <2>3
<1>11. SumFunctionOnSet(v, rows) = SumFunctionOnSet(h, K)
  <2>1. \A i \in K : v[row[i]] \in Int /\ h[i] = v[row[i]]
    BY <1>4, <1>7, <1>9
  <2>2. IsFiniteSet(K)
    BY <1>3
  <2>3. \A T \in SUBSET K : SumFunctionOnSet(v, ValuesOn(row, T)) = SumFunctionOnSet(h, T)
    BY ONLY <2>2, <1>6, <2>1, SumOfImage
  <2>. QED  BY <1>2, <1>3, <2>3
<1>12. TotalStake(rows) = SumFunctionOnSet(stakes, K) /\ TotalProfit(rows) = SumFunctionOnSet(h, K)
  <2>1. TotalStake(rows) = SumFunctionOnSet(u, rows)
    BY <1>8 DEF TotalStake, SumFunction
  <2>2. TotalProfit(rows) = SumFunctionOnSet(v, rows)
    BY <1>9 DEF TotalProfit, SumFunction
  <2>. QED  BY <1>10, <1>11, <2>1, <2>2
<1>13. SumFunction(stakes) = SumFunctionOnSet(stakes, K)
  <2>1. DOMAIN stakes = K
    BY <1>1
  <2>. QED  BY <2>1 DEF SumFunction
<1>14. PICK c \in Int : c = -50
  OBVIOUS
<1>15. PICK w : w = [i \in K |-> c * stakes[i]]
  OBVIOUS
<1>16. SumFunctionOnSet(w, K) = c * SumFunctionOnSet(stakes, K)
  <2>1. \A i \in K : stakes[i] \in Int /\ w[i] = c * stakes[i]
    BY <1>4, <1>15
  <2>2. IsFiniteSet(K)
    BY <1>3
  <2>3. \A T \in SUBSET K : SumFunctionOnSet(w, T) = c * SumFunctionOnSet(stakes, T)
    BY ONLY <2>2, <2>1, SumMultiplies, c \in Int
  <2>. QED  BY <1>3, <2>3
<1>17. SumFunctionOnSet(w, K) <= SumFunctionOnSet(h, K)
  <2>1. \A i \in K : w[i] \in Int /\ h[i] \in Int /\ w[i] <= h[i]
    BY <1>4, <1>7, <1>14, <1>15
  <2>2. \A T \in SUBSET K : SumFunctionOnSet(w, T) <= SumFunctionOnSet(h, T)
    BY <1>3, <2>1, SumAtMost
  <2>. QED  BY <1>3, <2>2
<1>18. SumFunctionOnSet(stakes, K) \in Int /\ SumFunctionOnSet(h, K) \in Int
  <2>1. \A i \in K : stakes[i] \in Int /\ h[i] \in Int
    BY <1>4, <1>7
  <2>2. \A T \in SUBSET K : SumFunctionOnSet(stakes, T) \in Int
    BY <1>3, <2>1, SumType
  <2>3. \A T \in SUBSET K : SumFunctionOnSet(h, T) \in Int
    BY <1>3, <2>1, SumType
  <2>. QED  BY <1>3, <2>2, <2>3
<1>19. 500 * TotalStake(rows) <= bankroll /\ bankroll + TotalProfit(rows) \in Nat
  <2>1. PICK a \in Int, d \in Int : a = SumFunctionOnSet(stakes, K) /\ d = SumFunctionOnSet(h, K)
    BY <1>18
  <2>2. 500 * a <= bankroll
    BY <1>13, <2>1
  <2>3. -50 * a <= d
    BY <1>14, <1>16, <1>17, <2>1
  <2>4. TotalStake(rows) = a /\ TotalProfit(rows) = d
    BY <1>12, <2>1
  <2>5. bankroll + d \in Nat
    BY <2>2, <2>3
  <2>. QED  BY <2>2, <2>4, <2>5
<1>20. \A x \in rows : x.profit \in Int /\ x.stake \in Nat
  <2>1. \A i \in K : row[i].profit \in Int /\ row[i].stake \in Nat
    BY <1>4
  <2>. QED  BY <1>2, <2>1
<1>21. \A x, y \in rows : x.offer = y.offer => x = y
  <2>. SUFFICES ASSUME NEW i \in K, NEW j \in K, row[i].offer = row[j].offer PROVE row[i] = row[j]
    BY <1>2
  <2>. QED  BY <1>1
<1>. QED  BY <1>1, <1>2, <1>5, <1>19, <1>20, <1>21 DEF Settled

\* A slate some week may have: that of a lane's picks, or none.
SomeSlate(slate) == slate \in Slates \/ DOMAIN slate = {}

\* The wagers of such a slate have offers that their keys tell apart.
LEMMA WagersAre ==
  ASSUME NEW slate, SomeSlate(slate)
  PROVE  \E n \in Nat :
           /\ DOMAIN UniqueExposure(slate) = 1..n
           /\ \A i \in 1..n : /\ UniqueExposure(slate)[i].units \in Nat
                              /\ UniqueExposure(slate)[i].offer.odds \in Int \ {0}
           /\ \A i, j \in 1..n :
                UniqueExposure(slate)[i].offer.key = UniqueExposure(slate)[j].offer.key => i = j
<1>1. /\ DOMAIN slate \subseteq {"hit_rate", "balanced", "value"}
      /\ \A l \in DOMAIN slate : slate[l].units \in Nat /\ slate[l].offer.odds \in Int \ {0}
      /\ \A l, m \in DOMAIN slate : slate[l].offer.key = slate[m].offer.key => slate[l].offer = slate[m].offer
  <2>1. CASE slate \in Slates
    BY <2>1, HoldoutAssumption
  <2>2. CASE DOMAIN slate = {}
    BY <2>2
  <2>. QED  BY <2>1, <2>2 DEF SomeSlate
<1>2. PICK out : out = UniqueExposure(slate)
  OBVIOUS
<1>3. out \in Exposures(slate)
  BY <1>1, <1>2, ExposureIs
<1>4. PICK offers : offers = {slate[l].offer : l \in DOMAIN slate}
  OBVIOUS
<1>5. out \in Seq([offer : offers, units : Nat]) /\ \A i, j \in 1..Len(out) : out[i].offer = out[j].offer => i = j
  BY <1>3, <1>4 DEF Exposures
<1>6. PICK n \in Nat : n = Len(out) /\ DOMAIN out = 1..n
  BY <1>5
<1>7. \A i \in 1..n : out[i].units \in Nat /\ out[i].offer \in offers
  <2>. SUFFICES ASSUME NEW i \in 1..n PROVE out[i].units \in Nat /\ out[i].offer \in offers
    OBVIOUS
  <2>1. PICK W : W = [offer : offers, units : Nat]
    OBVIOUS
  <2>2. out \in Seq(W)
    BY <1>5, <2>1
  <2>3. out[i] \in W
    BY <1>6, <2>2
  <2>. QED  BY <2>1, <2>3
<1>8. \A x \in offers : x.odds \in Int \ {0}
  BY <1>1, <1>4
<1>9. \A x, y \in offers : x.key = y.key => x = y
  BY <1>1, <1>4
<1>10. \A i \in 1..n : out[i].units \in Nat /\ out[i].offer.odds \in Int \ {0}
  BY <1>7, <1>8
<1>11. \A i, j \in 1..n : out[i].offer.key = out[j].offer.key => i = j
  BY <1>5, <1>6, <1>7, <1>9
<1>. QED  BY <1>2, <1>6, <1>10, <1>11

\* A week of every profile comes to that, whatever the slate and the results.
LEMMA WeekSettles ==
  ASSUME NEW b, NEW bankrolls, NEW slate, NEW result, SomeSlate(slate),
         \A p \in DOMAIN Profiles : bankrolls[p] \in Nat,
         \A i \in DOMAIN UniqueExposure(slate) : result[UniqueExposure(slate)[i].offer.key] \in Results
  PROVE  LET rows == Scenario(b, bankrolls, UniqueExposure(slate), result)
         IN /\ IsFiniteSet(rows)
            /\ \A row \in rows : row.block = b /\ row.profit \in Int /\ row.stake \in Nat
            /\ \A p \in DOMAIN Profiles : Settled(OfProfile(rows, p), bankrolls[p])
<1>1. PICK exposure : exposure = UniqueExposure(slate)
  OBVIOUS
<1>2. PICK n \in Nat : /\ DOMAIN exposure = 1..n
                       /\ \A i \in 1..n : exposure[i].units \in Nat /\ exposure[i].offer.odds \in Int \ {0}
                       /\ \A i, j \in 1..n : exposure[i].offer.key = exposure[j].offer.key => i = j
  BY <1>1, WagersAre
<1>. DEFINE wanted(p) == [i \in DOMAIN exposure |-> DollarStake(bankrolls[p], Profiles[p], exposure[i].units)]
            stakes(p) == CapSlateStakes(bankrolls[p], wanted(p))
            row(p, i) == [block |-> b, profile |-> p, offer |-> exposure[i].offer.key, stake |-> stakes(p)[i],
                          start |-> bankrolls[p],
                          profit |-> UnitProfit(result[exposure[i].offer.key], exposure[i].offer.odds, stakes(p)[i])]
            of(p) == {row(p, i) : i \in DOMAIN exposure}
            rows == Scenario(b, bankrolls, exposure, result)
<1>3. rows = UNION {of(p) : p \in DOMAIN Profiles}
  BY DEF Scenario
<1>4. ASSUME NEW p \in DOMAIN Profiles
      PROVE  /\ IsFiniteSet(of(p)) /\ Settled(of(p), bankrolls[p])
             /\ \A x \in of(p) : x.block = b /\ x.profile = p /\ x.profit \in Int /\ x.stake \in Nat
  <2>1. Profiles[p] \in Nat /\ bankrolls[p] \in Nat
    BY <1>4 DEF Profiles
  <2>2. DOMAIN wanted(p) = 1..n /\ \A i \in 1..n : wanted(p)[i] \in Nat
    BY <1>2, <2>1, StakeIs
  <2>3. PICK w : w = wanted(p)
    OBVIOUS
  <2>4. PICK given : given = stakes(p)
    OBVIOUS
  <2>5. given \in Seq(Nat) /\ Len(given) = n /\ 500 * SumFunction(given) <= bankrolls[p]
    <3>1. DOMAIN w = 1..n /\ (\A i \in 1..n : w[i] \in Nat) /\ given = CapSlateStakes(bankrolls[p], w)
      BY <2>2, <2>3, <2>4
    <3>. QED  BY ONLY <2>1, <3>1, n \in Nat, StakesAre
  <2>6. \A i \in 1..n : given[i] \in Nat /\ result[exposure[i].offer.key] \in Results
    BY <1>1, <1>2, <2>5
  <2>7. PICK R : R = [i \in 1..n |-> row(p, i)]
    OBVIOUS
  <2>8. \A i \in 1..n : /\ R[i].block = b /\ R[i].profile = p /\ R[i].offer = exposure[i].offer.key
                        /\ R[i].stake = given[i]
                        /\ R[i].profit = UnitProfit(result[exposure[i].offer.key], exposure[i].offer.odds, given[i])
    BY <2>4, <2>7
  <2>9. \A i \in 1..n : R[i].stake = given[i] /\ R[i].profit \in Int /\ R[i].profit >= -50 * given[i]
    <3>. SUFFICES ASSUME NEW i \in 1..n PROVE R[i].profit \in Int /\ R[i].profit >= -50 * given[i]
      BY <2>8
    <3>1. exposure[i].offer.odds \in Int \ {0} /\ given[i] \in Nat /\ result[exposure[i].offer.key] \in Results
      BY <1>2, <2>6
    <3>. QED  BY <2>8, <3>1, ProfitIs
  <2>10. \A i, j \in 1..n : R[i].offer = R[j].offer => i = j
    BY <1>2, <2>8
  <2>11. of(p) = ValuesOn(R, 1..n)
    BY <1>2, <2>7 DEF ValuesOn
  <2>. HIDE DEF of
  <2>12. PICK S : S = ValuesOn(R, 1..n) /\ S = {R[i] : i \in 1..n}
    BY DEF ValuesOn
  <2>13. PICK bankroll : bankroll = bankrolls[p]
    OBVIOUS
  <2>14. bankroll \in Nat
    BY <2>1, <2>13
  <2>15. given \in Seq(Nat)
    BY <2>5
  <2>16. Len(given) = n
    BY <2>5
  <2>17. 500 * SumFunction(given) <= bankroll
    BY <2>5, <2>13
  <2>18. Settled(ValuesOn(R, 1..n), bankroll)
    BY <2>9, <2>10, <2>14, <2>15, <2>16, <2>17, RowsSettle
  <2>19. Settled(S, bankroll)
    BY <2>12, <2>18
  <2>20. \A x \in S : x.block = b /\ x.profile = p /\ x.profit \in Int /\ x.stake \in Nat
    BY <2>8, <2>12, <2>19 DEF Settled
  <2>. QED  BY <2>11, <2>12, <2>13, <2>19, <2>20 DEF Settled
<1>. HIDE DEF of, rows
<1>5. \A p \in DOMAIN Profiles : OfProfile(rows, p) = of(p)
  BY <1>3, <1>4 DEF OfProfile
<1>6. DOMAIN Profiles = {"Cautious", "Conservative", "Normal", "Aggressive", "Ultra"}
  BY DEF Profiles
<1>7. IsFiniteSet(rows)
  <2>1. rows = of("Cautious") \cup of("Conservative") \cup of("Normal") \cup of("Aggressive") \cup of("Ultra")
    BY <1>3, <1>6
  <2>. QED  BY <1>4, <1>6, <2>1, FS_Union
<1>8. \A x \in rows : x.block = b /\ x.profit \in Int /\ x.stake \in Nat
  BY <1>3, <1>4
<1>9. \A p \in DOMAIN Profiles : Settled(OfProfile(rows, p), bankrolls[p])
  BY <1>4, <1>5
<1>. QED  BY <1>1, <1>7, <1>8, <1>9 DEF rows

Preparing == {"preflight", "prepare", "mark", "start", "open"}
Recording == {"predict", "product", "freeze", "write", "reveal", "advance", "commit"}

\* What the models and the product of a block rest on.
ModelsAt(b) ==
  [qb |-> [ratings |-> Past(b), exposure |-> Past(b)],
   trees |-> [fit |-> Past(b - 1), validation |-> b - 1],
   margin |-> [fit |-> Past(b), mapping |-> Past(b)],
   totals |-> [features |-> Past(b), training |-> Past(b)]]

ProductAt(b) ==
  [calibrations |-> [states |-> Past(b), reliability |-> Past(b)],
   moneyline |-> Past(b), spread |-> Past(b), trust |-> Past(b)]

\* A run's memory, at each step: every component has learnt each block before its own, and
\* this one once it is settled; the season is carried over once; what it has made of the
\* block rests on that.
Knows(s, stage) ==
  /\ DOMAIN s = DOMAIN PreparedState /\ s.block \in Blocks
  /\ s.learnt = [c \in Components |-> Past(IF stage = "commit" THEN s.block + 1 ELSE s.block)]
  /\ <<s.season, s.carried>> \in {<<2024, 0>>, <<2025, 1>>}
  /\ stage \in {"product", "freeze", "write", "reveal", "advance"} => s.carried = 1 /\ s.models = ModelsAt(s.block)
  /\ stage = "freeze" => s.product = ProductAt(s.block)
  /\ SomeSlate(s.slate)
  /\ stage = "advance" =>
       \A i \in DOMAIN UniqueExposure(s.slate) : s.result[UniqueExposure(s.slate)[i].offer.key] \in Results

\* A run has frozen the cards of its directory up to its block, and none after it.
Authored(r, shelf, b) ==
  /\ \A c \in 1..(b - 1) : c \in DOMAIN shelf /\ shelf[c].by = r
  /\ \A c \in DOMAIN shelf : shelf[c].by = r => c <= b

\* A bankroll is what the earlier rows make of the thousand dollars.
Balanced(rows, b, bankroll) ==
  \A p \in DOMAIN Profiles :
    bankroll[p] \in Nat /\ bankroll[p] = 100000 + TotalProfit(OfProfile(RowsBefore(rows, b), p))

\* No profile risks more of a bankroll than a tenth in a week, nor a wager twice.
Risks(rows, b, bankroll) ==
  \A p \in DOMAIN Profiles :
    /\ 500 * TotalStake(OfProfile(RowsAt(rows, b), p)) <= bankroll[p]
    /\ \A x, y \in OfProfile(RowsAt(rows, b), p) : x.offer = y.offer => x = y

\* The cards of a directory are one run's, from the first block on; each rests on its past.
Shelved(shelf, rows) ==
  /\ DOMAIN shelf \subseteq Blocks
  /\ \A b \in DOMAIN shelf : \A c \in 1..b : c \in DOMAIN shelf /\ shelf[c].by = shelf[b].by
  /\ \A b \in DOMAIN shelf :
       shelf[b].models = ModelsAt(b) /\ shelf[b].product = ProductAt(b) /\ shelf[b].carried = 1
  /\ IsFiniteSet(rows)
  /\ \A row \in rows : row.block \in DOMAIN shelf /\ row.profit \in Int /\ row.stake \in Nat
  /\ \A b \in DOMAIN shelf : Balanced(rows, b, shelf[b].bankroll) /\ Risks(rows, b, shelf[b].bankroll)

\* A run that is not yet done has such a memory, such cards and such books; until it
\* settles its block no row is of it.
Remembers(r) ==
  holdoutStep[r] \in Preparing \cup Recording =>
    /\ Knows(replay[r], holdoutStep[r])
    /\ Authored(r, cards[Dir(r)], replay[r].block)
    /\ Balanced(ledger[Dir(r)], IF holdoutStep[r] = "commit" THEN replay[r].block + 1 ELSE replay[r].block,
             replay[r].bankroll)
    /\ holdoutStep[r] \in {"write", "reveal", "advance"} => \A row \in ledger[Dir(r)] : row.block # replay[r].block

CardInv ==
  /\ DOMAIN ledger = Dirs
  /\ \A r \in HoldoutRuns : Remembers(r)
  /\ \A d \in Dirs : Shelved(cards[d], ledger[d])

\* No rows come to nothing.
LEMMA TotalsOfNone == TotalStake({}) = 0 /\ TotalProfit({}) = 0
<1>1. IsFiniteSet({})
  BY FS_EmptySet
<1>2. ASSUME NEW f, DOMAIN f = {} PROVE SumFunction(f) = 0
  BY <1>1, <1>2, SumChooses DEF SumFunction
<1>. QED  BY <1>2 DEF TotalStake, TotalProfit

\* Two parts without a row in common come to what each does.
LEMMA TotalAdds ==
  ASSUME NEW A, NEW B, IsFiniteSet(A), IsFiniteSet(B), A \cap B = {},
         \A x \in A : x.profit \in Int, \A x \in B : x.profit \in Int
  PROVE  TotalProfit(A \cup B) = TotalProfit(A) + TotalProfit(B)
<1>1. PICK S : S = A \cup B
  OBVIOUS
<1>2. IsFiniteSet(S)
  BY <1>1, FS_Union
<1>3. A \in SUBSET S /\ B \in SUBSET (S \ A) /\ A \in SUBSET A /\ B \in SUBSET B
  BY <1>1
<1>4. PICK f : f = [x \in S |-> x.profit]
  OBVIOUS
<1>5. PICK g : g = [x \in A |-> x.profit]
  OBVIOUS
<1>6. PICK h : h = [x \in B |-> x.profit]
  OBVIOUS
<1>7. \A x \in S : f[x] \in Int
  BY <1>1, <1>4
<1>8. SumFunctionOnSet(f, A \cup B) = SumFunctionOnSet(f, A) + SumFunctionOnSet(f, B)
  BY ONLY <1>2, <1>3, <1>7, SumOfBoth
<1>9. \A x \in A : f[x] \in Int /\ g[x] = f[x]
  BY <1>1, <1>4, <1>5
<1>10. SumFunctionOnSet(f, A) = SumFunctionOnSet(g, A)
  <2>1. \A T \in SUBSET A : SumFunctionOnSet(f, T) = SumFunctionOnSet(g, T)
    BY ONLY IsFiniteSet(A), <1>9, SumAgrees
  <2>. QED  BY <1>3, <2>1
<1>11. \A x \in B : f[x] \in Int /\ h[x] = f[x]
  BY <1>1, <1>4, <1>6
<1>12. SumFunctionOnSet(f, B) = SumFunctionOnSet(h, B)
  <2>1. \A T \in SUBSET B : SumFunctionOnSet(f, T) = SumFunctionOnSet(h, T)
    BY ONLY IsFiniteSet(B), <1>11, SumAgrees
  <2>. QED  BY <1>3, <2>1
<1>13. TotalProfit(S) = SumFunctionOnSet(f, S) /\ TotalProfit(A) = SumFunctionOnSet(g, A)
       /\ TotalProfit(B) = SumFunctionOnSet(h, B)
  BY <1>4, <1>5, <1>6 DEF TotalProfit, SumFunction
<1>. QED  BY <1>1, <1>8, <1>10, <1>12, <1>13

\* Rows that are no earlier change no books.
LEMMA BalancedStays ==
  ASSUME NEW rows, NEW more, NEW b, NEW bankroll, Balanced(rows, b, bankroll), \A row \in more : ~(row.block < b)
  PROVE  Balanced(rows \cup more, b, bankroll)
<1>1. RowsBefore(rows \cup more, b) = RowsBefore(rows, b)
  BY DEF RowsBefore
<1>. QED  BY <1>1 DEF Balanced

\* Rows of other blocks put nothing at risk in this one.
LEMMA RisksStay ==
  ASSUME NEW rows, NEW more, NEW b, NEW bankroll, Risks(rows, b, bankroll), \A row \in more : row.block # b
  PROVE  Risks(rows \cup more, b, bankroll)
<1>1. RowsAt(rows \cup more, b) = RowsAt(rows, b)
  BY DEF RowsAt
<1>2. PICK all : all = rows \cup more
  OBVIOUS
<1>3. RowsAt(all, b) = RowsAt(rows, b)
  BY <1>1, <1>2
<1>4. Risks(all, b, bankroll)
  BY ONLY <1>3, Risks(rows, b, bankroll) DEF Risks
<1>. QED  BY <1>2, <1>4

\* The fields of a memory.
LEMMA FieldsAre ==
  DOMAIN PreparedState = {"block", "learnt", "completed", "read", "season", "carried", "models", "product", "slate",
                          "result", "bankroll", "peak", "drawdown", "record", "streak"}
  BY DEF PreparedState

\* A season begins with what was prepared, and nothing on a shelf.
LEMMA CardInitially == HoldoutInit => CardInv
<1>. SUFFICES ASSUME HoldoutInit PROVE CardInv
  OBVIOUS
<1>1. \A d \in Dirs : cards[d] = [b \in {} |-> 0] /\ ledger[d] = {}
  BY DEF HoldoutInit
<1>2. ASSUME NEW d \in Dirs PROVE Shelved(cards[d], ledger[d])
  <2>1. IsFiniteSet({}) /\ DOMAIN cards[d] = {} /\ ledger[d] = {}
    BY <1>1, FS_EmptySet
  <2>. QED  BY <2>1 DEF Shelved
<1>3. Knows(PreparedState, "preflight")
  <2>1. SomeSlate([l \in {} |-> 0])
    BY DEF SomeSlate
  <2>. QED  BY <2>1, BlocksAre DEF Knows, PreparedState
<1>4. Balanced({}, 1, PreparedState.bankroll)
  <2>1. \A p \in DOMAIN Profiles : OfProfile(RowsBefore({}, 1), p) = {}
    BY DEF OfProfile, RowsBefore
  <2>2. \A p \in DOMAIN Profiles : PreparedState.bankroll[p] = 100000
    BY DEF PreparedState, StartingBankroll
  <2>. QED  BY <2>1, <2>2, TotalsOfNone DEF Balanced
<1>5. ASSUME NEW r \in HoldoutRuns PROVE Remembers(r)
  <2>1. holdoutStep[r] = "preflight" /\ replay[r] = PreparedState /\ Dir(r) \in Dirs
    <3>1. HoldoutTypes
      BY HoldoutInitially DEF HoldoutInv
    <3>. QED  BY <3>1, ToldOnce DEF HoldoutInit
  <2>2. PreparedState.block = 1
    BY DEF PreparedState
  <2>3. DOMAIN cards[Dir(r)] = {} /\ ledger[Dir(r)] = {}
    BY <1>1, <2>1
  <2>4. Authored(r, cards[Dir(r)], 1)
    BY <2>3 DEF Authored
  <2>. QED  BY <1>3, <1>4, <2>1, <2>2, <2>3, <2>4 DEF Remembers
<1>6. DOMAIN ledger = Dirs
  BY DEF HoldoutInit
<1>. QED  BY <1>2, <1>5, <1>6 DEF CardInv

\* A step that moves one run's memory, and no card and no row, is right when that run still
\* remembers.
LEMMA MemoryKeeps ==
  ASSUME CardInv, HoldoutTypes, NEW r \in HoldoutRuns, NEW x \in Steps, Goes(r, x),
         UNCHANGED <<invocation, cards, ledger>>,
         \A s \in HoldoutRuns \ {r} : replay'[s] = replay[s],
         x \in Preparing \cup Recording =>
           /\ Knows(replay'[r], x)
           /\ Authored(r, cards[Dir(r)], replay'[r].block)
           /\ Balanced(ledger[Dir(r)], IF x = "commit" THEN replay'[r].block + 1 ELSE replay'[r].block,
                       replay'[r].bankroll)
           /\ x \in {"write", "reveal", "advance"} => \A row \in ledger[Dir(r)] : row.block # replay'[r].block
  PROVE  CardInv'
<1>1. holdoutStep'[r] = x /\ \A s \in HoldoutRuns \ {r} : holdoutStep'[s] = holdoutStep[s]
  BY DEF Goes, HoldoutTypes
<1>2. \A s \in HoldoutRuns : Dir(s)' = Dir(s)
  BY DEF Dir
<1>3. Remembers(r)'
  BY <1>1, <1>2 DEF Remembers
<1>4. ASSUME NEW s \in HoldoutRuns, s # r PROVE Remembers(s)'
  <2>1. Remembers(s) /\ replay'[s] = replay[s] /\ holdoutStep'[s] = holdoutStep[s]
    BY <1>1, <1>4 DEF CardInv
  <2>. QED  BY <1>2, <2>1 DEF Remembers
<1>5. \A d \in Dirs : Shelved(cards[d], ledger[d])'
  BY DEF CardInv
<1>. QED  BY <1>3, <1>4, <1>5 DEF CardInv

\* A run that stops has nothing to remember.
LEMMA StoppingRemembers ==
  ASSUME CardInv, HoldoutTypes, NEW r \in HoldoutRuns, NEW x \in {"refused", "failed", "outputs", "done"}, Goes(r, x),
         UNCHANGED <<invocation, cards, ledger>>,
         \A s \in HoldoutRuns \ {r} : replay'[s] = replay[s]
  PROVE  CardInv'
<1>1. x \in Steps /\ x \notin Preparing \cup Recording
  BY DEF Steps, Opening, Preparing, Recording
<1>. QED  BY <1>1, MemoryKeeps

\* What a run knows before its first block it knows on the way there.
LEMMA PreparingRemembers ==
  ASSUME CardInv, HoldoutTypes, NEW r \in HoldoutRuns,
         \/ Preflight(r) \/ PrepareDevelopmentState(r) \/ ConsumeSpendMarker(r) \/ CreateRunStarted(r) \/ OpenInputs(r)
  PROVE  CardInv'
<1>1. /\ UNCHANGED <<invocation, cards, ledger, replay>> /\ holdoutStep[r] \in Preparing
      /\ \E x \in {"refused", "failed"} \cup Preparing \cup {"predict"} : Goes(r, x)
  <2>1. CASE Preflight(r)
    BY <2>1 DEF Preflight, Preparing, disk
  <2>2. CASE PrepareDevelopmentState(r)
    BY <2>2 DEF PrepareDevelopmentState, Preparing, disk
  <2>3. CASE ConsumeSpendMarker(r)
    BY <2>3 DEF ConsumeSpendMarker, Preparing
  <2>4. CASE CreateRunStarted(r)
    BY <2>4 DEF CreateRunStarted, Preparing, Fail
  <2>5. CASE OpenInputs(r)
    BY <2>5 DEF OpenInputs, Preparing, Fail
  <2>. QED  BY <2>1, <2>2, <2>3, <2>4, <2>5
<1>2. CASE Goes(r, "refused") \/ Goes(r, "failed")
  BY <1>1, <1>2, StoppingRemembers
<1>3. ASSUME NEW x \in Preparing \cup {"predict"}, Goes(r, x) PROVE CardInv'
  <2>1. /\ Knows(replay[r], holdoutStep[r]) /\ Authored(r, cards[Dir(r)], replay[r].block)
        /\ Balanced(ledger[Dir(r)], replay[r].block, replay[r].bankroll)
    BY <1>1 DEF CardInv, Remembers, Preparing
  <2>2. Knows(replay[r], x)
    BY <1>1, <1>3, <2>1 DEF Knows, Preparing
  <2>3. x \in Steps /\ x # "commit" /\ x \notin {"write", "reveal", "advance"}
    BY DEF Steps, Opening, Preparing
  <2>. QED  BY <1>1, <1>3, <2>1, <2>2, <2>3, MemoryKeeps
<1>. QED  BY <1>1, <1>2, <1>3

\* What a run with that memory makes of it.
LEMMA PredictsFromPast ==
  ASSUME NEW s, NEW b, b \in Nat, b >= 1, s.learnt = [c \in Components |-> Past(b)]
  PROVE  /\ [qb |-> QbElo(s), trees |-> BoostedTrees(s), margin |-> ExpectedMargins(s), totals |-> RidgeTotals(s)] = ModelsAt(b)
         /\ [calibrations |-> Calibrations(s), moneyline |-> MoneylineConfidence(s),
             spread |-> SpreadConfidence(s), trust |-> s.learnt["value_state"]] = ProductAt(b)
<1>1. \A c \in Components : s.learnt[c] = Past(b)
  OBVIOUS
<1>2. {"qb_state", "totals_state", "totals_training", "xgb_history", "expected_history",
       "expected_oos", "product_games", "prior_board_rows", "value_state"} = Components
  BY DEF Components
<1>3. Past(b) \in Seq(Int) /\ Front(Past(b)) = Past(b - 1) /\ Last(Past(b)) = b - 1
  BY PastIs
<1>4. SpreadConfidence(s) = Past(b)
  <2>1. PICK rows : rows = Past(b)
    OBVIOUS
  <2>2. rows \in Seq(Int) /\ s.learnt["prior_board_rows"] = rows /\ s.learnt["product_games"] = rows
    BY <1>1, <1>2, <1>3, <2>1
  <2>. QED  BY <2>1, <2>2, EveryRowKnown
<1>5. [qb |-> QbElo(s), trees |-> BoostedTrees(s), margin |-> ExpectedMargins(s), totals |-> RidgeTotals(s)] = ModelsAt(b)
  BY <1>1, <1>2, <1>3 DEF QbElo, BoostedTrees, ExpectedMargins, RidgeTotals, TotalsFeatures, ModelsAt
<1>6. [calibrations |-> Calibrations(s), moneyline |-> MoneylineConfidence(s),
       spread |-> SpreadConfidence(s), trust |-> s.learnt["value_state"]] = ProductAt(b)
  BY <1>1, <1>2, <1>4 DEF Calibrations, MoneylineConfidence, ProductAt
<1>. QED  BY <1>5, <1>6

\* The models are what the past makes of them, the season carried over once.
LEMMA PredictRemembers ==
  ASSUME CardInv, HoldoutTypes, NEW r \in HoldoutRuns, Predict(r)
  PROVE  CardInv'
<1>1. PICK s : s = replay[r]
  OBVIOUS
<1>2. /\ holdoutStep[r] = "predict" /\ UNCHANGED <<invocation, cards, ledger>>
      /\ Goes(r, "product") \/ Goes(r, "failed")
  BY DEF Predict, Fail
<1>3. Knows(s, "predict") /\ Authored(r, cards[Dir(r)], s.block) /\ Balanced(ledger[Dir(r)], s.block, s.bankroll)
  BY <1>1, <1>2 DEF CardInv, Remembers, Recording
<1>4. DOMAIN s = DOMAIN PreparedState /\ s.block \in Nat /\ s.block >= 1 /\ s.learnt = [c \in Components |-> Past(s.block)]
  BY <1>3 DEF Knows, Blocks
<1>5. <<s.season, s.carried>> \in {<<2024, 0>>, <<2025, 1>>}
  BY <1>3 DEF Knows
<1>6. replay' = [replay EXCEPT
          ![r].models = [qb |-> QbElo(s), trees |-> BoostedTrees(s), margin |-> ExpectedMargins(s), totals |-> RidgeTotals(s)],
          ![r].season = 2025,
          ![r].carried = @ + (IF s.season < 2025 THEN 1 ELSE 0)]
  BY <1>1 DEF Predict
<1>7. PICK m : m = [qb |-> QbElo(s), trees |-> BoostedTrees(s), margin |-> ExpectedMargins(s), totals |-> RidgeTotals(s)]
  OBVIOUS
<1>8. m = ModelsAt(s.block)
  BY <1>4, <1>7, PredictsFromPast
<1>9. DOMAIN replay = HoldoutRuns
  BY DEF HoldoutTypes
<1>10. replay' = [replay EXCEPT ![r].models = m, ![r].season = 2025,
                               ![r].carried = @ + (IF s.season < 2025 THEN 1 ELSE 0)]
  BY <1>6, <1>7
<1>11. \A q \in HoldoutRuns \ {r} : replay'[q] = replay[q]
  BY <1>9, <1>10
<1>12. PICK n : n = replay'[r]
  OBVIOUS
<1>13. n = [s EXCEPT !.models = m, !.season = 2025, !.carried = @ + (IF s.season < 2025 THEN 1 ELSE 0)]
  BY <1>1, <1>9, <1>10, <1>12
<1>14. /\ DOMAIN n = DOMAIN s /\ n.models = m /\ n.season = 2025 /\ n.carried = 1
       /\ n.block = s.block /\ n.learnt = s.learnt /\ n.slate = s.slate /\ n.bankroll = s.bankroll
  BY <1>4, <1>13, <1>5, FieldsAre
<1>15. Knows(n, "product")
  BY <1>3, <1>8, <1>14 DEF Knows
<1>16. "product" \in Steps
  BY DEF Steps, Opening
<1>. QED  BY <1>2, <1>3, <1>11, <1>12, <1>14, <1>15, <1>16, MemoryKeeps, StoppingRemembers

\* So is the product.
LEMMA BuildRemembers ==
  ASSUME CardInv, HoldoutTypes, NEW r \in HoldoutRuns, BuildProductBlock(r)
  PROVE  CardInv'
<1>1. PICK s : s = replay[r]
  OBVIOUS
<1>2. holdoutStep[r] = "product" /\ UNCHANGED <<invocation, cards, ledger>>
  BY DEF BuildProductBlock
<1>3. Knows(s, "product") /\ Authored(r, cards[Dir(r)], s.block) /\ Balanced(ledger[Dir(r)], s.block, s.bankroll)
  BY <1>1, <1>2 DEF CardInv, Remembers, Recording
<1>4. DOMAIN s = DOMAIN PreparedState /\ s.block \in Nat /\ s.block >= 1 /\ s.learnt = [c \in Components |-> Past(s.block)]
  BY <1>3 DEF Knows, Blocks
<1>5. CASE Goes(r, "failed") /\ UNCHANGED replay
  BY <1>2, <1>5, StoppingRemembers
<1>6. PICK made : made = [calibrations |-> Calibrations(s), moneyline |-> MoneylineConfidence(s),
                          spread |-> SpreadConfidence(s), trust |-> s.learnt["value_state"]]
  OBVIOUS
<1>7. made = ProductAt(s.block)
  BY <1>4, <1>6, PredictsFromPast
<1>8. ASSUME NEW slate, SomeSlate(slate), Goes(r, "freeze"),
             replay' = [replay EXCEPT ![r].slate = slate, ![r].product = made]
      PROVE  CardInv'
  <2>1. DOMAIN replay = HoldoutRuns
    BY DEF HoldoutTypes
  <2>2. \A q \in HoldoutRuns \ {r} : replay'[q] = replay[q]
    BY <1>8, <2>1
  <2>3. PICK n : n = replay'[r]
    OBVIOUS
  <2>4. n = [s EXCEPT !.slate = slate, !.product = made]
    BY <1>1, <1>8, <2>1, <2>3
  <2>5. /\ DOMAIN n = DOMAIN s /\ n.slate = slate /\ n.product = made /\ n.models = s.models
        /\ n.block = s.block /\ n.learnt = s.learnt /\ n.bankroll = s.bankroll
        /\ n.season = s.season /\ n.carried = s.carried
    BY <1>4, <2>4, FieldsAre
  <2>6. Knows(n, "freeze")
    BY <1>3, <1>7, <1>8, <2>5 DEF Knows
  <2>7. "freeze" \in Steps
    BY DEF Steps, Opening
  <2>. QED  BY <1>2, <1>3, <1>8, <2>2, <2>3, <2>5, <2>6, <2>7, MemoryKeeps
<1>9. CASE Goes(r, "freeze") /\ \E slate \in IF Mode(r) = "standard" THEN Slates ELSE {[l \in {} |-> 0]} :
                replay' = [replay EXCEPT
                  ![r].slate = slate,
                  ![r].product = [calibrations |-> Calibrations(s), moneyline |-> MoneylineConfidence(s),
                                  spread |-> SpreadConfidence(s), trust |-> s.learnt["value_state"]]]
  <2>1. PICK slate \in IF Mode(r) = "standard" THEN Slates ELSE {[l \in {} |-> 0]} :
                replay' = [replay EXCEPT
                  ![r].slate = slate,
                  ![r].product = [calibrations |-> Calibrations(s), moneyline |-> MoneylineConfidence(s),
                                  spread |-> SpreadConfidence(s), trust |-> s.learnt["value_state"]]]
    BY <1>9
  <2>2. SomeSlate(slate)
    BY DEF SomeSlate
  <2>. QED  BY <1>6, <1>8, <1>9, <2>1, <2>2
<1>. QED  BY <1>1, <1>5, <1>9 DEF BuildProductBlock, Fail

\* Files change no card.
LEMMA WriteRemembers ==
  ASSUME CardInv, HoldoutTypes, NEW r \in HoldoutRuns, WriteFrozenFile(r)
  PROVE  CardInv'
<1>1. holdoutStep[r] = "write" /\ UNCHANGED <<invocation, cards, ledger, replay>>
      /\ \E x \in {"reveal", "write"} : Goes(r, x)
  BY DEF WriteFrozenFile
<1>2. /\ Knows(replay[r], "write") /\ Authored(r, cards[Dir(r)], replay[r].block)
      /\ Balanced(ledger[Dir(r)], replay[r].block, replay[r].bankroll)
      /\ \A row \in ledger[Dir(r)] : row.block # replay[r].block
  BY <1>1 DEF CardInv, Remembers, Recording
<1>3. Knows(replay[r], "reveal")
  BY <1>2 DEF Knows
<1>4. "reveal" \in Steps /\ "write" \in Steps
  BY DEF Steps, Opening
<1>. QED  BY <1>1, <1>2, <1>3, <1>4, MemoryKeeps

\* The outcomes of the exposed wagers are known before they are settled.
LEMMA RevealRemembers ==
  ASSUME CardInv, HoldoutTypes, NEW r \in HoldoutRuns, Reveal(r)
  PROVE  CardInv'
<1>1. PICK s : s = replay[r]
  OBVIOUS
<1>2. holdoutStep[r] = "reveal" /\ UNCHANGED <<invocation, cards, ledger>>
  BY DEF Reveal
<1>3. /\ Knows(s, "reveal") /\ Authored(r, cards[Dir(r)], s.block)
      /\ Balanced(ledger[Dir(r)], s.block, s.bankroll)
      /\ \A row \in ledger[Dir(r)] : row.block # s.block
  BY <1>1, <1>2 DEF CardInv, Remembers, Recording
<1>4. CASE Goes(r, "failed") /\ UNCHANGED replay
  BY <1>2, <1>4, StoppingRemembers
<1>5. ASSUME Goes(r, "advance"),
             NEW result,
             \A i \in DOMAIN UniqueExposure(s.slate) : result[UniqueExposure(s.slate)[i].offer.key] \in Results,
             replay' = [replay EXCEPT ![r].read = @ + 1, ![r].result = result]
      PROVE  CardInv'
  <2>1. DOMAIN replay = HoldoutRuns
    BY DEF HoldoutTypes
  <2>2. \A q \in HoldoutRuns \ {r} : replay'[q] = replay[q]
    BY <1>5, <2>1
  <2>3. PICK n : n = replay'[r]
    OBVIOUS
  <2>4. n = [s EXCEPT !.read = @ + 1, !.result = result]
    BY <1>1, <1>5, <2>1, <2>3
  <2>5. DOMAIN s = DOMAIN PreparedState
    BY <1>3 DEF Knows
  <2>6. /\ DOMAIN n = DOMAIN s /\ n.result = result /\ n.slate = s.slate /\ n.product = s.product /\ n.models = s.models
        /\ n.block = s.block /\ n.learnt = s.learnt /\ n.bankroll = s.bankroll
        /\ n.season = s.season /\ n.carried = s.carried
    BY <2>4, <2>5, FieldsAre
  <2>8. Knows(n, "advance")
    BY <1>3, <1>5, <2>6 DEF Knows
  <2>9. "advance" \in Steps
    BY DEF Steps, Opening
  <2>. QED  BY <1>2, <1>3, <1>5, <2>2, <2>3, <2>6, <2>8, <2>9, MemoryKeeps
<1>6. \/ Goes(r, "failed") /\ UNCHANGED replay
      \/ /\ Goes(r, "advance")
         /\ \E result :
              /\ \A i \in DOMAIN UniqueExposure(replay[r].slate) :
                   result[UniqueExposure(replay[r].slate)[i].offer.key] \in Results
              /\ replay' = [replay EXCEPT ![r].read = @ + 1, ![r].result = result]
  BY DEF Reveal, Fail
<1>. QED  BY <1>1, <1>4, <1>5, <1>6

\* The next block's past is this one's, with this block.
LEMMA CommitRemembers ==
  ASSUME CardInv, HoldoutInv, NEW r \in HoldoutRuns, CommitRevealedBlock(r)
  PROVE  CardInv'
<1>1. PICK s : s = replay[r]
  OBVIOUS
<1>2. holdoutStep[r] = "commit" /\ UNCHANGED <<invocation, cards, ledger>> /\ HoldoutTypes
  BY DEF CommitRevealedBlock, HoldoutInv
<1>3. /\ Knows(s, "commit") /\ Authored(r, cards[Dir(r)], s.block)
      /\ Balanced(ledger[Dir(r)], s.block + 1, s.bankroll)
  BY <1>1, <1>2 DEF CardInv, Remembers, Recording
<1>4. HasCard(r, Dir(r), s.block)
  BY <1>1, <1>2 DEF HoldoutInv, Behind, Carding
<1>5. CASE UNCHANGED <<holdoutStep, replay>>
  <2>1. Goes(r, "commit") /\ "commit" \in Steps
    BY <1>2, <1>5 DEF Goes, Steps, Opening, HoldoutTypes
  <2>. QED  BY <1>1, <1>2, <1>3, <1>5, <2>1, MemoryKeeps
<1>6. CASE UNCHANGED replay /\ (Goes(r, "outputs") \/ Goes(r, "failed"))
  BY <1>2, <1>6, StoppingRemembers
<1>7. CASE s.block < LastBlock /\ Goes(r, "predict") /\ replay' = [replay EXCEPT ![r].block = s.block + 1]
  <2>1. DOMAIN replay = HoldoutRuns
    BY <1>2 DEF HoldoutTypes
  <2>2. \A q \in HoldoutRuns \ {r} : replay'[q] = replay[q]
    BY <1>7, <2>1
  <2>3. PICK n : n = replay'[r]
    OBVIOUS
  <2>4. n = [s EXCEPT !.block = s.block + 1]
    BY <1>1, <1>7, <2>1, <2>3
  <2>5. DOMAIN s = DOMAIN PreparedState /\ s.block \in Blocks /\ s.learnt = [c \in Components |-> Past(s.block + 1)]
    BY <1>3 DEF Knows
  <2>6. /\ DOMAIN n = DOMAIN s /\ n.slate = s.slate
        /\ n.block = s.block + 1 /\ n.learnt = s.learnt /\ n.bankroll = s.bankroll
        /\ n.season = s.season /\ n.carried = s.carried
    BY <2>4, <2>5, FieldsAre
  <2>7. s.block \in Nat /\ s.block >= 1 /\ s.block + 1 \in Blocks
    BY <1>7, <2>5, BlocksAre DEF Blocks
  <2>8. Knows(n, "predict")
    BY <1>3, <2>5, <2>6, <2>7 DEF Knows
  <2>9. Authored(r, cards[Dir(r)], s.block + 1)
    <3>1. \A c \in DOMAIN cards[Dir(r)] : c \in Int
      <4>1. Dir(r) \in Dirs
        BY <1>2, ToldOnce
      <4>. QED  BY <4>1 DEF CardInv, Shelved, Blocks
    <3>2. \A c \in 1..s.block : c \in 1..(s.block - 1) \/ c = s.block
      BY <2>7
    <3>. QED  BY <1>3, <1>4, <2>7, <3>1, <3>2 DEF Authored, HasCard
  <2>10. "predict" \in Steps
    BY DEF Steps, Opening
  <2>. QED  BY <1>2, <1>3, <1>7, <2>2, <2>3, <2>6, <2>8, <2>9, <2>10, MemoryKeeps
<1>. QED  BY <1>1, <1>5, <1>6, <1>7 DEF CommitRevealedBlock, Fail

\* The cards of a directory are of one run.
LEMMA OneAuthor ==
  ASSUME NEW shelf, NEW rows, Shelved(shelf, rows), NEW b \in DOMAIN shelf, NEW c \in DOMAIN shelf
  PROVE  shelf[b].by = shelf[c].by
<1>1. 1 \in 1..b /\ 1 \in 1..c
  BY DEF Shelved, Blocks
<1>. QED  BY <1>1 DEF Shelved

\* Where a block has no rows nothing is at risk.
LEMMA NoRisk ==
  ASSUME NEW rows, NEW b, NEW bankroll, Balanced(rows, b, bankroll), \A row \in rows : row.block # b
  PROVE  Risks(rows, b, bankroll)
<1>1. PICK now : now = RowsAt(rows, b)
  OBVIOUS
<1>2. now = {}
  BY <1>1 DEF RowsAt
<1>3. ASSUME NEW p \in DOMAIN Profiles
      PROVE  OfProfile(now, p) = {} /\ bankroll[p] \in Nat
  <2>1. OfProfile(now, p) = {}
    BY <1>2 DEF OfProfile
  <2>2. bankroll[p] \in Nat
    BY <1>3 DEF Balanced
  <2>. QED  BY <2>1, <2>2
<1>4. ASSUME NEW p \in DOMAIN Profiles
      PROVE  /\ 500 * TotalStake(OfProfile(now, p)) <= bankroll[p]
             /\ \A x, y \in OfProfile(now, p) : x.offer = y.offer => x = y
  <2>1. OfProfile(now, p) = {} /\ bankroll[p] \in Nat
    BY <1>3
  <2>. QED  BY <2>1, TotalsOfNone
<1>. QED  BY <1>1, <1>4 DEF Risks

\* A card rests on what its run remembers, with no row of its block on the books yet.
LEMMA FreezeRemembers ==
  ASSUME CardInv, HoldoutInv, NEW r \in HoldoutRuns, FreezePreResult(r)
  PROVE  CardInv'
<1>1. PICK s : s = replay[r]
  OBVIOUS
<1>2. PICK d : d = Dir(r)
  OBVIOUS
<1>3. holdoutStep[r] = "freeze" /\ UNCHANGED <<invocation, ledger, replay>> /\ HoldoutTypes /\ d \in Dirs
  BY <1>2, ToldOnce DEF FreezePreResult, HoldoutInv
<1>4. Knows(s, "freeze") /\ Authored(r, cards[d], s.block) /\ Balanced(ledger[d], s.block, s.bankroll)
  BY <1>1, <1>2, <1>3 DEF CardInv, Remembers, Recording
<1>5. Shelved(cards[d], ledger[d])
  BY <1>3 DEF CardInv
<1>6. CASE Goes(r, "failed") /\ UNCHANGED cards
  BY <1>3, <1>6, StoppingRemembers
<1>7. CASE /\ ~Begun(d, s.block) /\ Goes(r, "write")
           /\ cards' = [cards EXCEPT ![d] = [b \in DOMAIN @ \cup {s.block} |->
                IF b = s.block THEN [by |-> r, models |-> s.models, product |-> s.product,
                                     carried |-> s.carried, bankroll |-> s.bankroll]
                ELSE @[b]]]
  <2>1. PICK card : card = [by |-> r, models |-> s.models, product |-> s.product,
                            carried |-> s.carried, bankroll |-> s.bankroll]
    OBVIOUS
  <2>2. PICK b : b = s.block
    OBVIOUS
  <2>3. /\ b \in Nat /\ b >= 1 /\ b \in Blocks /\ b \notin DOMAIN cards[d]
    BY <1>4, <1>7, <2>2 DEF Knows, Blocks, Begun
  <2>4. card.by = r /\ card.models = ModelsAt(b) /\ card.product = ProductAt(b) /\ card.carried = 1
        /\ card.bankroll = s.bankroll
    BY <1>4, <2>1, <2>2 DEF Knows
  <2>5. DOMAIN cards = Dirs
    BY <1>3 DEF HoldoutTypes
  <2>6. PICK old : old = cards[d]
    OBVIOUS
  <2>7. PICK new : new = [c \in DOMAIN old \cup {b} |-> IF c = b THEN card ELSE old[c]]
    OBVIOUS
  <2>8. cards'[d] = new /\ \A e \in Dirs \ {d} : cards'[e] = cards[e]
    BY <1>3, <1>7, <2>1, <2>2, <2>5, <2>6, <2>7
  <2>9. DOMAIN new = DOMAIN old \cup {b} /\ new[b] = card /\ \A c \in DOMAIN old : new[c] = old[c]
    BY <2>3, <2>6, <2>7
  <2>10. PICK rows : rows = ledger[d]
    OBVIOUS
  <2>11. Shelved(old, rows) /\ Authored(r, old, b) /\ Balanced(rows, b, s.bankroll)
    BY <1>4, <1>5, <2>2, <2>6, <2>10
  <2>12. \A c \in DOMAIN old : c \in Nat /\ c < b
    <3>. SUFFICES ASSUME NEW c \in DOMAIN old PROVE c \in Nat /\ c < b
      OBVIOUS
    <3>1. c \in Nat /\ \A e \in 1..c : e \in DOMAIN old
      BY <2>11 DEF Shelved, Blocks
    <3>. QED  BY <2>3, <2>6, <3>1
  <2>13. \A row \in rows : row.block \in Nat /\ row.block < b
    BY <2>11, <2>12 DEF Shelved
  <2>14. Risks(rows, b, s.bankroll)
    <3>1. \A row \in rows : row.block # b
      BY <2>3, <2>13
    <3>. QED  BY <2>11, <3>1, NoRisk
  <2>15. Shelved(new, rows)
    <3>1. DOMAIN new \subseteq Blocks
      BY <2>3, <2>9, <2>11 DEF Shelved
    <3>2. ASSUME NEW c \in DOMAIN new, NEW e \in 1..c PROVE e \in DOMAIN new /\ new[e].by = new[c].by
      <4>1. CASE c = b
        <5>1. e = b \/ e \in 1..(b - 1)
          BY <2>3, <4>1
        <5>. QED  BY <2>3, <2>4, <2>9, <2>11, <4>1, <5>1 DEF Authored
      <4>2. CASE c # b
        BY <2>9, <2>11, <4>2 DEF Shelved
      <4>. QED  BY <4>1, <4>2
    <3>3. \A c \in DOMAIN new :
            new[c].models = ModelsAt(c) /\ new[c].product = ProductAt(c) /\ new[c].carried = 1
      BY <2>4, <2>9, <2>11 DEF Shelved
    <3>4. IsFiniteSet(rows) /\ \A row \in rows : row.block \in DOMAIN new /\ row.profit \in Int /\ row.stake \in Nat
      BY <2>9, <2>11 DEF Shelved
    <3>5. \A c \in DOMAIN new : Balanced(rows, c, new[c].bankroll) /\ Risks(rows, c, new[c].bankroll)
      BY <2>4, <2>9, <2>11, <2>14 DEF Shelved
    <3>. QED  BY <3>1, <3>2, <3>3, <3>4, <3>5 DEF Shelved
  <2>16. \A q \in HoldoutRuns : Dir(q)' = Dir(q) /\ Dir(q) \in Dirs
    BY <1>3, ToldOnce DEF Dir
  <2>17. holdoutStep'[r] = "write" /\ \A q \in HoldoutRuns \ {r} : holdoutStep'[q] = holdoutStep[q]
    BY <1>3, <1>7 DEF Goes, HoldoutTypes
  <2>18. Remembers(r)'
    <3>1. Knows(s, "write")
      BY <1>4 DEF Knows
    <3>2. Authored(r, new, b)
      BY <2>3, <2>9, <2>11, <2>12 DEF Authored
    <3>3. \A row \in rows : row.block # b
      BY <2>3, <2>13
    <3>. QED  BY <1>1, <1>2, <1>3, <2>2, <2>8, <2>10, <2>11, <2>16, <2>17, <3>1, <3>2, <3>3 DEF Remembers
  <2>19. ASSUME NEW q \in HoldoutRuns, q # r PROVE Remembers(q)'
    <3>1. Remembers(q) /\ replay'[q] = replay[q] /\ holdoutStep'[q] = holdoutStep[q] /\ ledger' = ledger
      BY <1>3, <2>17, <2>19 DEF CardInv
    <3>2. CASE Dir(q) # d
      <4>1. cards'[Dir(q)] = cards[Dir(q)]
        BY <2>8, <2>16, <3>2
      <4>. QED  BY <2>16, <3>1, <4>1 DEF Remembers
    <3>3. CASE Dir(q) = d
      <4>1. \A c : Authored(q, old, c) => Authored(q, new, c)
        BY <2>4, <2>9, <2>19 DEF Authored
      <4>2. cards[Dir(q)] = old /\ cards'[Dir(q)] = new
        BY <2>6, <2>8, <3>3
      <4>. QED  BY <2>16, <3>1, <4>1, <4>2 DEF Remembers
    <3>. QED  BY <3>2, <3>3
  <2>20. ASSUME NEW e \in Dirs PROVE Shelved(cards[e], ledger[e])'
    BY <1>3, <2>8, <2>10, <2>15, <2>20 DEF CardInv
  <2>21. DOMAIN ledger' = Dirs
    BY <1>3 DEF CardInv
  <2>. QED  BY <2>18, <2>19, <2>20, <2>21 DEF CardInv
<1>. QED  BY <1>1, <1>2, <1>6, <1>7 DEF FreezePreResult, Fail

\* A settled block is learnt by every component, after what it had learnt.
LEMMA LearnsBlock ==
  ASSUME NEW s, NEW b, b \in Nat, b >= 1, s.block = b, \A c \in Components : s.learnt[c] = Past(b),
         s.models = ModelsAt(b)
  PROVE  Learn(s) = [c \in Components |-> Past(b + 1)]
<1>1. Append(Past(b), b) = Past(b + 1)
  BY PastIs
<1>2. s.models.qb.ratings = Past(b) /\ s.models.totals.features = Past(b)
  BY DEF ModelsAt
<1>3. LearnRatings(s) = Past(b + 1) /\ CommitTotals(s) = Past(b + 1)
  BY <1>1, <1>2 DEF LearnRatings, CommitTotals
<1>4. \A c \in Components : Append(s.learnt[c], s.block) = Past(b + 1)
  BY <1>1
<1>. QED  BY <1>3, <1>4 DEF Learn

\* The books of a block with its rows are those the next begins with.
LEMMA BalancesNext ==
  ASSUME NEW rows, NEW more, NEW b, NEW bankroll, NEW ending, Balanced(rows, b, bankroll), b \in Nat,
         IsFiniteSet(rows), IsFiniteSet(more),
         \A row \in rows : row.block \in Nat /\ row.block < b /\ row.profit \in Int,
         \A row \in more : row.block = b /\ row.profit \in Int,
         \A p \in DOMAIN Profiles : bankroll[p] + TotalProfit(OfProfile(more, p)) \in Nat,
         \A p \in DOMAIN Profiles : ending[p] = bankroll[p] + TotalProfit(OfProfile(more, p))
  PROVE  Balanced(rows \cup more, b + 1, ending)
<1>1. RowsBefore(rows, b) = rows /\ RowsBefore(rows \cup more, b + 1) = rows \cup more
  BY DEF RowsBefore
<1>2. ASSUME NEW p \in DOMAIN Profiles
      PROVE  ending[p] \in Nat /\ ending[p] = 100000 + TotalProfit(OfProfile(rows \cup more, p))
  <2>1. PICK A : A = OfProfile(rows, p)
    OBVIOUS
  <2>2. PICK B : B = OfProfile(more, p)
    OBVIOUS
  <2>3. OfProfile(rows \cup more, p) = A \cup B /\ A \subseteq rows /\ B \subseteq more
    BY <2>1, <2>2 DEF OfProfile
  <2>4. IsFiniteSet(A) /\ IsFiniteSet(B)
    BY <2>3, FS_Subset
  <2>5. A \cap B = {} /\ (\A x \in A : x.profit \in Int) /\ (\A x \in B : x.profit \in Int)
    BY <2>3
  <2>6. TotalProfit(A \cup B) = TotalProfit(A) + TotalProfit(B)
    BY <2>4, <2>5, TotalAdds
  <2>7. TotalProfit(A) \in Int /\ TotalProfit(B) \in Int
    <3>1. ASSUME NEW S, IsFiniteSet(S), \A x \in S : x.profit \in Int PROVE TotalProfit(S) \in Int
      <4>1. PICK f : f = [x \in S |-> x.profit]
        OBVIOUS
      <4>2. \A x \in S : f[x] \in Int
        BY <3>1, <4>1
      <4>3. S \in SUBSET S
        OBVIOUS
      <4>4. SumFunctionOnSet(f, S) \in Int
        BY <3>1, <4>2, <4>3, SumType
      <4>. QED  BY <4>1, <4>4 DEF TotalProfit, SumFunction
    <3>. QED  BY <2>4, <2>5, <3>1
  <2>8. bankroll[p] \in Nat /\ bankroll[p] = 100000 + TotalProfit(A)
    BY <1>1, <2>1 DEF Balanced
  <2>9. ending[p] = bankroll[p] + TotalProfit(B) /\ bankroll[p] + TotalProfit(B) \in Nat
    BY <2>2
  <2>10. TotalProfit(OfProfile(rows \cup more, p)) = TotalProfit(A) + TotalProfit(B)
    BY <2>3, <2>6
  <2>. QED  BY <2>7, <2>8, <2>9, <2>10
<1>3. PICK known : known = RowsBefore(rows \cup more, b + 1)
  OBVIOUS
<1>4. ASSUME NEW p \in DOMAIN Profiles
      PROVE  ending[p] \in Nat /\ ending[p] = 100000 + TotalProfit(OfProfile(known, p))
  BY ONLY <1>1, <1>2, <1>3, <1>4
<1>. QED  BY ONLY <1>3, <1>4 DEF Balanced

\* The rows of a week are at no more risk than the bankrolls they are staked from allow.
LEMMA RisksOfWeek ==
  ASSUME NEW rows, NEW more, NEW b, NEW bankroll, NEW other, Balanced(rows, b, bankroll), Balanced(rows, b, other),
         \A row \in rows : row.block # b, \A row \in more : row.block = b,
         \A p \in DOMAIN Profiles : Settled(OfProfile(more, p), bankroll[p])
  PROVE  Risks(rows \cup more, b, other)
<1>1. RowsAt(rows \cup more, b) = more
  BY DEF RowsAt
<1>2. \A p \in DOMAIN Profiles : bankroll[p] = other[p]
  BY DEF Balanced
<1>3. PICK all : all = RowsAt(rows \cup more, b)
  OBVIOUS
<1>4. ASSUME NEW p \in DOMAIN Profiles
      PROVE  /\ 500 * TotalStake(OfProfile(all, p)) <= other[p]
             /\ \A x, y \in OfProfile(all, p) : x.offer = y.offer => x = y
  <2>1. Settled(OfProfile(more, p), bankroll[p]) /\ bankroll[p] = other[p] /\ all = more
    BY <1>1, <1>2, <1>3
  <2>. QED  BY <2>1 DEF Settled
<1>. QED  BY ONLY <1>3, <1>4 DEF Risks

\* What settling a block leaves in memory.
SettledTo(n, s, rows) ==
  /\ DOMAIN n = DOMAIN PreparedState /\ n.learnt = Learn(s) /\ n.block = s.block /\ n.slate = s.slate
  /\ n.season = s.season /\ n.carried = s.carried
  /\ \A p \in DOMAIN Profiles : n.bankroll[p] = s.bankroll[p] + TotalProfit(OfProfile(rows, p))

\* The fields of a replay that the settlement of a block sets.
Advanced(s, e, k, w, t, u) == [s EXCEPT !.bankroll = e, !.peak = k, !.drawdown = w, !.record = t, !.streak = u]

\* Settling leaves that.
LEMMA AdvanceIs ==
  ASSUME NEW s, NEW rows, NEW exposure, NEW n, DOMAIN s = DOMAIN PreparedState,
         n = [AdvanceBankroll(s, rows, exposure) EXCEPT !.learnt = Learn(s), !.completed = Append(@, s.block)]
  PROVE  SettledTo(n, s, rows)
<1>1. PICK money : money = AdvanceBankroll(s, rows, exposure)
  OBVIOUS
<1>. DEFINE ending == [p \in DOMAIN Profiles |-> s.bankroll[p] + TotalProfit(OfProfile(rows, p))]
            peak == [p \in DOMAIN Profiles |-> Larger(s.peak[p], ending[p])]
<1>2. PICK e : e = ending
  OBVIOUS
<1>3. PICK k : k = peak
  OBVIOUS
<1>4. PICK w : w = [p \in DOMAIN Profiles |-> Larger(s.drawdown[p], (10000 * (peak[p] - ending[p])) \div peak[p])]
  BY Zenon
<1>5. PICK t : t = [j \in Results |-> s.record[j] + Tally(exposure, s.result, j)]
  BY Zenon
<1>6. PICK u : u = Streak(s.streak, exposure, s.result)
  OBVIOUS
<1>7. money = Advanced(s, e, k, w, t, u)
  <2>1. AdvanceBankroll(s, rows, exposure) = Advanced(s, ending, peak,
          [p \in DOMAIN Profiles |-> Larger(s.drawdown[p], (10000 * (peak[p] - ending[p])) \div peak[p])],
          [j \in Results |-> s.record[j] + Tally(exposure, s.result, j)],
          Streak(s.streak, exposure, s.result))
    BY FieldsAre DEF AdvanceBankroll, Advanced
  <2> HIDE DEF ending, peak
  <2>. QED  BY <1>1, <1>2, <1>3, <1>4, <1>5, <1>6, <2>1
<1>8. /\ DOMAIN money = DOMAIN s /\ money.bankroll = e /\ money.block = s.block /\ money.slate = s.slate
      /\ money.season = s.season /\ money.carried = s.carried
  <2>1. {"bankroll", "block", "slate", "season", "carried"} \subseteq DOMAIN s
    BY FieldsAre
  <2>2. DOMAIN money = DOMAIN s /\ money.bankroll = e
    BY ONLY <1>7, <2>1 DEF Advanced
  <2>3. money.block = s.block /\ money.slate = s.slate
    BY ONLY <1>7, <2>1 DEF Advanced
  <2>4. money.season = s.season /\ money.carried = s.carried
    BY ONLY <1>7, <2>1 DEF Advanced
  <2>. QED  BY <2>2, <2>3, <2>4
<1>9. n = [money EXCEPT !.learnt = Learn(s), !.completed = Append(@, s.block)]
  BY <1>1
<1>10. /\ DOMAIN n = DOMAIN s /\ n.learnt = Learn(s) /\ n.block = s.block /\ n.slate = s.slate
      /\ n.season = s.season /\ n.carried = s.carried /\ n.bankroll = e
  BY <1>8, <1>9, FieldsAre
<1>. QED  BY <1>2, <1>10 DEF SettledTo

\* The rows of the settled block go on the books of its run's directory, where no other run
\* has a card.
LEMMA AdvanceRemembers ==
  ASSUME CardInv, HoldoutInv, NEW r \in HoldoutRuns, Advance(r)
  PROVE  CardInv'
<1>1. PICK s : s = replay[r]
  OBVIOUS
<1>2. PICK d : d = Dir(r)
  OBVIOUS
<1>3. PICK b : b = s.block
  OBVIOUS
<1>4. holdoutStep[r] = "advance" /\ UNCHANGED <<invocation, cards>> /\ HoldoutTypes /\ d \in Dirs /\ Goes(r, "commit")
  BY <1>2, ToldOnce DEF Advance, HoldoutInv
<1>5. /\ Knows(s, "advance") /\ Authored(r, cards[d], b) /\ Balanced(ledger[d], b, s.bankroll)
      /\ \A row \in ledger[d] : row.block # b
  BY <1>1, <1>2, <1>3, <1>4 DEF CardInv, Remembers, Recording
<1>6. PICK shelf : shelf = cards[d]
  OBVIOUS
<1>7. PICK old : old = ledger[d]
  OBVIOUS
<1>8. Shelved(shelf, old) /\ b \in DOMAIN shelf /\ shelf[b].by = r
  <2>1. HasCard(r, d, b)
    BY <1>1, <1>2, <1>3, <1>4 DEF HoldoutInv, Behind, Carding
  <2>. QED  BY <1>4, <1>6, <1>7, <2>1 DEF CardInv, HasCard
<1>9. b \in Nat /\ b >= 1 /\ DOMAIN s = DOMAIN PreparedState /\ s.learnt = [c \in Components |-> Past(b)]
      /\ s.models = ModelsAt(b) /\ SomeSlate(s.slate)
      /\ \A i \in DOMAIN UniqueExposure(s.slate) : s.result[UniqueExposure(s.slate)[i].offer.key] \in Results
  BY <1>3, <1>5 DEF Knows, Blocks
<1>10. PICK exposure : exposure = UniqueExposure(s.slate)
  OBVIOUS
<1>11. PICK more : more = Scenario(b, s.bankroll, exposure, s.result)
  OBVIOUS
<1>12. /\ IsFiniteSet(more)
       /\ \A row \in more : row.block = b /\ row.profit \in Int /\ row.stake \in Nat
       /\ \A p \in DOMAIN Profiles : Settled(OfProfile(more, p), s.bankroll[p])
  <2>1. PICK bankroll, slate, result : bankroll = s.bankroll /\ slate = s.slate /\ result = s.result
    OBVIOUS
  <2>2. SomeSlate(slate) /\ \A p \in DOMAIN Profiles : bankroll[p] \in Nat
    BY <1>5, <1>9, <2>1 DEF Balanced
  <2>3. \A i \in DOMAIN UniqueExposure(slate) : result[UniqueExposure(slate)[i].offer.key] \in Results
    BY <1>9, <2>1
  <2>4. more = Scenario(b, bankroll, UniqueExposure(slate), result)
    BY <1>10, <1>11, <2>1
  <2>. QED  BY <2>1, <2>2, <2>3, <2>4, WeekSettles
<1>13. PICK n : n = [AdvanceBankroll(s, more, exposure) EXCEPT !.learnt = Learn(s), !.completed = Append(@, s.block)]
  OBVIOUS
<1>14. replay' = [replay EXCEPT ![r] = n] /\ ledger' = [ledger EXCEPT ![d] = @ \cup more]
  BY <1>1, <1>2, <1>3, <1>10, <1>11, <1>13 DEF Advance
<1>15. /\ DOMAIN n = DOMAIN PreparedState /\ n.learnt = Learn(s) /\ n.block = s.block /\ n.slate = s.slate
       /\ n.season = s.season /\ n.carried = s.carried
       /\ \A p \in DOMAIN Profiles : n.bankroll[p] = s.bankroll[p] + TotalProfit(OfProfile(more, p))
  <2>1. DOMAIN s = DOMAIN PreparedState
    BY <1>9
  <2>2. SettledTo(n, s, more)
    BY <1>13, <2>1, AdvanceIs
  <2>. QED  BY <2>2 DEF SettledTo
<1>16. Knows(n, "commit")
  <2>1. Learn(s) = [c \in Components |-> Past(b + 1)]
    <3>1. b \in Nat /\ b >= 1 /\ s.block = b
      BY <1>3, <1>9
    <3>2. \A c \in Components : s.learnt[c] = Past(b)
      BY <1>9
    <3>3. s.models = ModelsAt(b)
      BY <1>9
    <3>. QED  BY <3>1, <3>2, <3>3, LearnsBlock
  <2>. QED  BY <1>3, <1>5, <1>9, <1>15, <2>1 DEF Knows
<1>17. \A c \in DOMAIN shelf : c \in Nat /\ c >= 1 /\ shelf[c].by = r /\ c <= b
  <2>. SUFFICES ASSUME NEW c \in DOMAIN shelf PROVE c \in Nat /\ c >= 1 /\ shelf[c].by = r /\ c <= b
    OBVIOUS
  <2>1. c \in Nat /\ c >= 1
    BY <1>8 DEF Shelved, Blocks
  <2>2. shelf[c].by = r
    BY <1>8, OneAuthor
  <2>. QED  BY <1>5, <1>6, <2>1, <2>2 DEF Authored
<1>18. \A row \in old : row.block \in Nat /\ row.block >= 1 /\ row.block < b /\ row.profit \in Int
  BY <1>5, <1>7, <1>8, <1>9, <1>17 DEF Shelved
<1>19. Balanced(old, b, s.bankroll)
  BY <1>5, <1>7
<1>20. Balanced(old \cup more, b + 1, n.bankroll)
  <2>1. PICK bankroll, ending : bankroll = s.bankroll /\ ending = n.bankroll
    OBVIOUS
  <2>2. \A p \in DOMAIN Profiles : bankroll[p] + TotalProfit(OfProfile(more, p)) \in Nat
    BY <1>12, <2>1 DEF Settled
  <2>3. \A p \in DOMAIN Profiles : ending[p] = bankroll[p] + TotalProfit(OfProfile(more, p))
    BY <1>15, <2>1
  <2>4. \A row \in old : row.block \in Nat /\ row.block < b /\ row.profit \in Int
    BY <1>18
  <2>5. \A row \in more : row.block = b /\ row.profit \in Int
    BY <1>12
  <2>6. IsFiniteSet(old) /\ IsFiniteSet(more) /\ b \in Nat /\ Balanced(old, b, bankroll)
    BY <1>8, <1>9, <1>12, <1>19, <2>1 DEF Shelved
  <2>. QED  BY <2>1, <2>2, <2>3, <2>4, <2>5, <2>6, BalancesNext
<1>21. Shelved(shelf, old \cup more)
  <2>1. IsFiniteSet(old \cup more)
    BY <1>8, <1>12, FS_Union DEF Shelved
  <2>2. \A row \in old \cup more : row.block \in DOMAIN shelf /\ row.profit \in Int /\ row.stake \in Nat
    BY <1>8, <1>12 DEF Shelved
  <2>3. ASSUME NEW c \in DOMAIN shelf
        PROVE  Balanced(old \cup more, c, shelf[c].bankroll) /\ Risks(old \cup more, c, shelf[c].bankroll)
    <3>1. c \in Nat /\ c <= b /\ Balanced(old, c, shelf[c].bankroll) /\ Risks(old, c, shelf[c].bankroll)
      BY <1>8, <1>17, <2>3 DEF Shelved
    <3>2. \A row \in more : ~(row.block < c)
      BY <1>9, <1>12, <3>1
    <3>3. Balanced(old \cup more, c, shelf[c].bankroll)
      BY <3>1, <3>2, BalancedStays
    <3>4. CASE c = b
      <4>1. PICK bankroll, other : bankroll = s.bankroll /\ other = shelf[c].bankroll
        OBVIOUS
      <4>2. \A row \in old : row.block # b
        BY <1>5, <1>7
      <4>3. \A row \in more : row.block = b
        BY <1>12
      <4>4. \A p \in DOMAIN Profiles : Settled(OfProfile(more, p), bankroll[p])
        BY <1>12, <4>1
      <4>5. Balanced(old, b, bankroll) /\ Balanced(old, b, other)
        BY <1>19, <3>1, <3>4, <4>1
      <4>6. Risks(old \cup more, b, other)
        BY <4>2, <4>3, <4>4, <4>5, RisksOfWeek
      <4>. QED  BY <3>3, <3>4, <4>1, <4>6
    <3>5. CASE c # b
      <4>1. \A row \in more : row.block # c
        BY <1>12, <3>5
      <4>. QED  BY <3>1, <3>3, <4>1, RisksStay
    <3>. QED  BY <3>4, <3>5
  <2>. QED  BY <1>8, <2>1, <2>2, <2>3 DEF Shelved
<1>22. \A e \in Dirs : ledger'[e] = IF e = d THEN old \cup more ELSE ledger[e]
  <2>1. DOMAIN ledger = Dirs
    BY DEF CardInv
  <2>. QED  BY <1>7, <1>14, <2>1
<1>23. replay'[r] = n /\ holdoutStep'[r] = "commit"
       /\ \A q \in HoldoutRuns \ {r} : replay'[q] = replay[q] /\ holdoutStep'[q] = holdoutStep[q]
  BY <1>4, <1>14 DEF Goes, HoldoutTypes
<1>24. \A q \in HoldoutRuns : Dir(q)' = Dir(q) /\ Dir(q) \in Dirs
  BY <1>4, ToldOnce DEF Dir
<1>25. Remembers(r)'
  <2>1. Dir(r)' = d /\ cards'[d] = shelf /\ ledger'[d] = old \cup more
    BY <1>2, <1>4, <1>6, <1>22, <1>24
  <2>2. Authored(r, shelf, b) /\ n.block = b
    BY <1>3, <1>5, <1>6, <1>15
  <2>. QED  BY <1>16, <1>20, <1>23, <2>1, <2>2 DEF Remembers
<1>26. ASSUME NEW q \in HoldoutRuns, q # r PROVE Remembers(q)'
  <2>1. Remembers(q) /\ replay'[q] = replay[q] /\ holdoutStep'[q] = holdoutStep[q] /\ Dir(q)' = Dir(q)
        /\ cards'[Dir(q)] = cards[Dir(q)]
    BY <1>4, <1>23, <1>24, <1>26 DEF CardInv
  <2>2. CASE Dir(q) # d
    <3>1. ledger'[Dir(q)] = ledger[Dir(q)]
      BY <1>22, <1>24, <2>2
    <3>. QED  BY <2>1, <3>1 DEF Remembers
  <2>3. CASE Dir(q) = d
    <3>1. \A c \in DOMAIN shelf : shelf[c].by # q
      BY <1>17, <1>26
    <3>2. holdoutStep[q] \notin Carding
      BY <1>6, <2>3, <3>1 DEF HoldoutInv, Behind, HasCard
    <3>. SUFFICES ASSUME holdoutStep[q] \in Preparing \cup Recording PROVE Remembers(q)'
      BY <2>1 DEF Remembers
    <3>3. Knows(replay[q], holdoutStep[q]) /\ Authored(q, shelf, replay[q].block)
          /\ Balanced(old, replay[q].block, replay[q].bankroll)
      BY <1>6, <1>7, <2>1, <2>3, <3>2 DEF Remembers, Carding
    <3>4. replay[q].block = 1
      <4>1. replay[q].block \in Nat /\ replay[q].block >= 1
        BY <3>3 DEF Knows, Blocks
      <4>2. 1 \notin 1..(replay[q].block - 1)
        BY <3>1, <3>3 DEF Authored
      <4>. QED  BY <4>1, <4>2
    <3>5. Balanced(old \cup more, 1, replay[q].bankroll)
      <4>1. \A row \in more : ~(row.block < 1)
        BY <1>9, <1>12
      <4>. QED  BY <3>3, <3>4, <4>1, BalancedStays
    <3>6. ledger'[Dir(q)] = old \cup more
      BY <1>22, <1>24, <2>3
    <3>. QED  BY <1>6, <2>1, <2>3, <3>2, <3>3, <3>4, <3>5, <3>6 DEF Remembers, Carding
  <2>. QED  BY <2>2, <2>3
<1>27. ASSUME NEW e \in Dirs PROVE Shelved(cards[e], ledger[e])'
  <2>1. Shelved(cards[e], ledger[e])
    BY <1>27 DEF CardInv
  <2>. QED  BY <1>4, <1>6, <1>21, <1>22, <1>27, <2>1
<1>28. DOMAIN ledger' = Dirs
  BY <1>14 DEF CardInv
<1>. QED  BY <1>25, <1>26, <1>27, <1>28 DEF CardInv

\* What the cards are made from is their past, whatever the runs, the slates, the results
\* and the flaws of the inputs.
THEOREM CardsKnown == HoldoutSpec => []CardsKnowThePast
<1>1. HoldoutInv /\ CardInv /\ [HoldoutNext]_holdoutVars => CardInv'
  <2>. SUFFICES ASSUME HoldoutInv, CardInv, [HoldoutNext]_holdoutVars PROVE CardInv'
    OBVIOUS
  <2>1. HoldoutTypes
    BY DEF HoldoutInv
  <2>2. CASE UNCHANGED holdoutVars
    BY <2>2 DEF holdoutVars, CardInv, Remembers, Dir
  <2>3. ASSUME NEW r \in HoldoutRuns, FinalOutputs(r) \/ Crash(r) PROVE CardInv'
    <3>1. UNCHANGED <<invocation, cards, ledger, replay>> /\ \E x \in {"done", "failed"} : Goes(r, x)
      BY <2>3 DEF FinalOutputs, Crash, disk
    <3>. QED  BY <2>1, <3>1, StoppingRemembers
  <2>. QED  BY <2>1, <2>2, <2>3, PreparingRemembers, PredictRemembers, BuildRemembers, FreezeRemembers,
               WriteRemembers, RevealRemembers, AdvanceRemembers, CommitRemembers DEF HoldoutNext
<1>2. CardInv => CardsKnowThePast
  <2>. SUFFICES ASSUME CardInv, NEW d \in Dirs, NEW b \in DOMAIN cards[d]
                PROVE  LET card == cards[d][b]
                           before == RowsBefore(ledger[d], b)
                           now == RowsAt(ledger[d], b)
                       IN /\ card.models = ModelsAt(b) /\ card.product = ProductAt(b) /\ card.carried = 1
                          /\ \A p \in DOMAIN Profiles :
                               /\ card.bankroll[p] = 100000 + TotalProfit(OfProfile(before, p))
                               /\ 500 * TotalStake(OfProfile(now, p)) <= card.bankroll[p]
                               /\ \A x, y \in OfProfile(now, p) : x.offer = y.offer => x = y
    BY DEF CardsKnowThePast, ModelsAt, ProductAt
  <2>1. Shelved(cards[d], ledger[d])
    BY DEF CardInv
  <2>2. /\ cards[d][b].models = ModelsAt(b) /\ cards[d][b].product = ProductAt(b) /\ cards[d][b].carried = 1
        /\ Balanced(ledger[d], b, cards[d][b].bankroll) /\ Risks(ledger[d], b, cards[d][b].bankroll)
    BY <2>1 DEF Shelved
  <2>. QED  BY <2>2 DEF Balanced, Risks
<1>. QED  BY <1>1, <1>2, HoldoutInitially, HoldoutNextKeeps, CardInitially, PTL DEF HoldoutSpec

-----------------------------------------------------------------------------
\* The observations of a frame of plays.

PlaysKnown == plays \in PlayFrames

LEMMA FrameIs ==
  ASSUME PlaysKnown
  PROVE  \E n \in Nat : DOMAIN plays = 1..n
BY FrameAssumption DEF PlaysKnown

LEMMA PlaysAre ==
  ASSUME PlaysKnown, NEW t
  PROVE  /\ IsFiniteSet(DOMAIN plays)
         /\ IsFiniteSet(PlaysOf(t)) /\ PlaysOf(t) \subseteq DOMAIN plays
         /\ IsFiniteSet(DrivesOf(t))
         /\ IsFiniteSet(Possessions(t)) /\ Possessions(t) \subseteq DrivesOf(t)
         /\ IsFiniteSet(Quarters)
<1>1. PICK n \in Nat : DOMAIN plays = 1..n
  BY FrameIs
<1>2. IsFiniteSet(DOMAIN plays)
  BY <1>1, FS_Interval
<1>3. PlaysOf(t) \in SUBSET DOMAIN plays
  BY DEF PlaysOf
<1>4. IsFiniteSet(PlaysOf(t))
  BY <1>2, <1>3, FS_Subset
<1>5. IsFiniteSet(DrivesOf(t))
  <2> DEFINE f == [i \in PlaysOf(t) |-> plays[i].drive]
  <2>1. DrivesOf(t) = {f[i] : i \in PlaysOf(t)}
    BY DEF DrivesOf
  <2> HIDE DEF f
  <2>. QED  BY <1>4, <2>1, ImageIsFinite
<1>6. Possessions(t) \in SUBSET DrivesOf(t)
  BY DEF Possessions
<1>7. IsFiniteSet(Possessions(t))
  BY <1>5, <1>6, FS_Subset
<1>8. IsFiniteSet(Quarters)
  <2> DEFINE f == [i \in DOMAIN plays |-> plays[i].qtr]
  <2>1. Quarters = {f[i] : i \in DOMAIN plays}
    BY DEF Quarters
  <2> HIDE DEF f
  <2>. QED  BY <1>2, <2>1, ImageIsFinite
<1>. QED  BY <1>2, <1>3, <1>4, <1>5, <1>6, <1>7, <1>8

\* What an offence's metrics are.
LEMMA OffenseIs ==
  ASSUME NEW t
  PROVE  /\ \A m \in {"success", "pass", "rush", "dropback", "turnover", "sackRate",
                     "explosivePass", "explosiveRush"} : OffenseOf(t)[m] = RowAggregate(t)[m]
         /\ \A m \in {"points", "scoring", "turnovers", "redZone"} : OffenseOf(t)[m] = DriveAggregate(t)[m]
         /\ \A m \in {"seconds", "neutralSeconds"} : OffenseOf(t)[m] = PaceAggregate(t)[m]
         /\ OffenseOf(t).neutralPassRate.d = RowAggregate(t).neutralPass.n + RowAggregate(t).neutralRush.n
<1> DEFINE rows == RowAggregate(t)
           drives == DriveAggregate(t)
           pace == PaceAggregate(t)
           rate == [n |-> rows.neutralPass.n, d |-> rows.neutralPass.n + rows.neutralRush.n]
           D == (RowMetrics \ {"neutralPass", "neutralRush"}) \cup {"neutralPassRate"}
                  \cup DOMAIN drives \cup DOMAIN pace
<1>1. DOMAIN drives = {"points", "scoring", "turnovers", "redZone"}
  BY DEF DriveAggregate
<1>2. DOMAIN pace = {"seconds", "neutralSeconds"}
  BY DEF PaceAggregate
<1> HIDE DEF rows, drives, pace
<1>3. OffenseOf(t) = [m \in D |-> IF m \in DOMAIN drives THEN drives[m]
                                  ELSE IF m \in DOMAIN pace THEN pace[m]
                                  ELSE IF m = "neutralPassRate" THEN rate ELSE rows[m]]
  BY DEF OffenseOf, rows, drives, pace
<1>4. {"success", "pass", "rush", "dropback", "turnover", "sackRate", "explosivePass", "explosiveRush",
       "points", "scoring", "turnovers", "redZone", "seconds", "neutralSeconds", "neutralPassRate"} \subseteq D
  BY <1>1, <1>2 DEF RowMetrics
<1> HIDE DEF D, rate
<1>5. \A m \in {"success", "pass", "rush", "dropback", "turnover", "sackRate",
                 "explosivePass", "explosiveRush"} : OffenseOf(t)[m] = rows[m]
  BY <1>1, <1>2, <1>3, <1>4
<1>6. \A m \in {"points", "scoring", "turnovers", "redZone"} : OffenseOf(t)[m] = drives[m]
  BY <1>1, <1>3, <1>4
<1>7. \A m \in {"seconds", "neutralSeconds"} : OffenseOf(t)[m] = pace[m]
  BY <1>1, <1>2, <1>3, <1>4
<1>8. OffenseOf(t).neutralPassRate = rate
  BY <1>1, <1>2, <1>3, <1>4
<1>. QED  BY <1>5, <1>6, <1>7, <1>8 DEF rows, drives, pace, rate

-----------------------------------------------------------------------------
\* Of a metric, the events are some of the chances.
LEMMA RowCounts ==
  ASSUME PlaysKnown, NEW t, NEW m \in RowMetrics
  PROVE  /\ RowAggregate(t)[m].n \in Nat /\ RowAggregate(t)[m].d \in Nat
         /\ RowAggregate(t)[m].n <= RowAggregate(t)[m].d
         /\ RowAggregate(t)[m].d = Cardinality({i \in PlaysOf(t) : Denominator(plays[i])[m]})
         /\ RowAggregate(t)[m].n
              = Cardinality({i \in PlaysOf(t) : Denominator(plays[i])[m] /\ Event(plays[i])[m]})
<1> DEFINE counted == {i \in PlaysOf(t) : Denominator(plays[i])[m]}
           events == {i \in counted : Event(plays[i])[m]}
<1>1. RowAggregate(t)[m] = [n |-> Cardinality(events), d |-> Cardinality(counted)]
  BY DEF RowAggregate
<1>2. counted \in SUBSET PlaysOf(t) /\ events \in SUBSET counted
      /\ events = {i \in PlaysOf(t) : Denominator(plays[i])[m] /\ Event(plays[i])[m]}
  OBVIOUS
<1> HIDE DEF counted, events
<1>3. IsFiniteSet(counted)
  BY <1>2, PlaysAre, FS_Subset
<1>4. IsFiniteSet(events) /\ Cardinality(events) <= Cardinality(counted)
  BY <1>2, <1>3, FS_Subset
<1>5. Cardinality(events) \in Nat /\ Cardinality(counted) \in Nat
  BY <1>3, <1>4, FS_CardinalityType
<1>. QED  BY <1>1, <1>2, <1>4, <1>5 DEF counted

\* A neutral pass is a pass, a neutral run a run.
LEMMA NeutralAreFewer ==
  ASSUME PlaysKnown, NEW t
  PROVE  /\ RowAggregate(t).neutralPass.n <= RowAggregate(t).pass.d
         /\ RowAggregate(t).neutralRush.n <= RowAggregate(t).rush.d
<1>1. ASSUME NEW m \in RowMetrics, NEW l \in RowMetrics,
             \A p : Denominator(p)[m] => Denominator(p)[l]
      PROVE  RowAggregate(t)[m].n <= RowAggregate(t)[l].d
  <2> DEFINE few == {i \in PlaysOf(t) : Denominator(plays[i])[m]}
             many == {i \in PlaysOf(t) : Denominator(plays[i])[l]}
  <2>1. few \in SUBSET many /\ many \in SUBSET PlaysOf(t)
    BY <1>1
  <2>2. /\ RowAggregate(t)[m].n <= RowAggregate(t)[m].d
        /\ RowAggregate(t)[m].n \in Nat /\ RowAggregate(t)[m].d \in Nat /\ RowAggregate(t)[l].d \in Nat
        /\ RowAggregate(t)[m].d = Cardinality(few) /\ RowAggregate(t)[l].d = Cardinality(many)
    BY RowCounts
  <2> HIDE DEF few, many
  <2>3. IsFiniteSet(many)
    BY <2>1, PlaysAre, FS_Subset
  <2>4. Cardinality(few) <= Cardinality(many)
    BY <2>1, <2>3, FS_Subset
  <2>. QED  BY <2>2, <2>4
<1>2. {"neutralPass", "pass", "neutralRush", "rush"} \subseteq RowMetrics
  BY DEF RowMetrics
<1>3. \A p : Denominator(p)["neutralPass"] => Denominator(p)["pass"]
  BY DEF Denominator
<1>4. \A p : Denominator(p)["neutralRush"] => Denominator(p)["rush"]
  BY DEF Denominator
<1>. QED  BY <1>1, <1>2, <1>3, <1>4

\* A drive counts once, with its own turnovers.
LEMMA DrivesCount ==
  ASSUME PlaysKnown, NEW t
  PROVE  LET drives == DriveAggregate(t)
         IN /\ drives.scoring.n <= drives.scoring.d
            /\ drives.redZone.n <= drives.redZone.d
            /\ drives.points.d <= Cardinality(DrivesOf(t))
            /\ drives.turnovers.n <= RowAggregate(t).turnover.n
<1> DEFINE P == Possessions(t)
           red == Opportunities(t, "redzone")
           scored == {k \in P : ResultOf(t, k) \in ScoringResults}
           crossed == {k \in red : ResultOf(t, k) = "Touchdown"}
           lost == [k \in P |-> Cardinality({i \in DriveRows(t, k) : TurnoverEvent(plays[i])})]
           drives == DriveAggregate(t)
<1>1. /\ drives.scoring = [n |-> Cardinality(scored), d |-> Cardinality(P)]
      /\ drives.redZone = [n |-> Cardinality(crossed), d |-> Cardinality(red)]
      /\ drives.points.d = Cardinality(P)
      /\ drives.turnovers.n = SumFunctionOnSet(lost, P)
  BY DEF DriveAggregate, SumOver, SumFunction
<1>2. IsFiniteSet(P) /\ P \subseteq DrivesOf(t) /\ IsFiniteSet(DrivesOf(t)) /\ IsFiniteSet(PlaysOf(t))
  BY PlaysAre
<1>3. scored \in SUBSET P /\ crossed \in SUBSET red /\ red \in SUBSET P
  BY DEF Opportunities
<1>4. RowAggregate(t).turnover.n = Cardinality({i \in PlaysOf(t) : TurnoverEvent(plays[i])})
  <2>1. "turnover" \in RowMetrics
    BY DEF RowMetrics
  <2>2. \A p : (Denominator(p)["turnover"] /\ Event(p)["turnover"]) <=> TurnoverEvent(p)
    BY DEF Denominator, Event
  <2>3. RowAggregate(t)["turnover"].n
          = Cardinality({i \in PlaysOf(t) : Denominator(plays[i])["turnover"] /\ Event(plays[i])["turnover"]})
    BY <2>1, RowCounts
  <2>4. {i \in PlaysOf(t) : Denominator(plays[i])["turnover"] /\ Event(plays[i])["turnover"]}
          = {i \in PlaysOf(t) : TurnoverEvent(plays[i])}
    BY <2>2
  <2>. QED  BY <2>3, <2>4
<1>5. SumFunctionOnSet(lost, P) <= Cardinality({i \in PlaysOf(t) : TurnoverEvent(plays[i])})
  <2> DEFINE S == {i \in PlaysOf(t) : TurnoverEvent(plays[i])}
             part == [k \in P |-> {i \in DriveRows(t, k) : TurnoverEvent(plays[i])}]
  <2>1. S \in SUBSET PlaysOf(t)
    OBVIOUS
  <2>2. IsFiniteSet(S)
    BY <1>2, <2>1, FS_Subset
  <2>3. \A k \in P : part[k] \subseteq S /\ lost[k] = Cardinality(part[k])
    BY DEF DriveRows
  <2>4. \A k, l \in P : k # l => part[k] \cap part[l] = {}
    BY DEF DriveRows
  <2> HIDE DEF S, part, lost, P, red, scored, crossed, drives
  <2>5. SumFunctionOnSet(lost, P) <= Cardinality(S)
    BY <1>2, <2>2, <2>3, <2>4, PartsCount
  <2>. QED  BY <2>5 DEF S
<1> HIDE DEF P, red, scored, crossed, lost, drives
<1>6. IsFiniteSet(red)
  BY <1>2, <1>3, FS_Subset
<1>7. Cardinality(scored) <= Cardinality(P) /\ Cardinality(crossed) <= Cardinality(red)
  BY <1>2, <1>3, <1>6, FS_Subset
<1>8. Cardinality(P) <= Cardinality(DrivesOf(t))
  BY <1>2, FS_Subset, P \in SUBSET DrivesOf(t)
<1>. QED  BY <1>1, <1>4, <1>5, <1>7, <1>8 DEF drives

-----------------------------------------------------------------------------
\* The clock between plays.

LEMMA ClocksAre ==
  ASSUME PlaysKnown
  PROVE  /\ \A i \in DOMAIN plays : i \in Nat /\ plays[i].clock \in Nat
         /\ \A i \in DOMAIN plays : 1 .. i - 1 \subseteq DOMAIN plays
<1>1. PICK n \in Nat : DOMAIN plays = 1..n
  BY FrameIs
<1>. QED  BY <1>1, FrameAssumption DEF PlaysKnown

\* An interval lasts from the last countable play of the drive before it.
LEMMA IntervalIs ==
  ASSUME PlaysKnown, NEW t, NEW i \in Intervals(t)
  PROVE  LET j == PriorPlay(i)
         IN /\ i \in PlaysOf(t) /\ j \in PlaysOf(t) /\ j < i /\ Vfp(plays[i])
            /\ plays[j].drive = plays[i].drive /\ plays[j].qtr = plays[i].qtr
            /\ Seconds(i) = plays[j].clock - plays[i].clock /\ Seconds(i) \in Nat
            /\ \A x \in PlaysOf(t) : x < i /\ plays[x].drive = plays[i].drive /\ Vfp(plays[x]) => x <= j
<1> DEFINE j == PriorPlay(i)
           before == {x \in 1 .. i - 1 : /\ plays[x].team = plays[i].team
                                         /\ plays[x].drive = plays[i].drive /\ Vfp(plays[x])}
<1>1. /\ i \in PlaysOf(t) /\ Vfp(plays[i]) /\ j # 0
      /\ plays[j].qtr = plays[i].qtr /\ plays[j].clock - plays[i].clock \in 1 .. MaxInterval
  BY DEF Intervals
<1>2. i \in DOMAIN plays /\ plays[i].team = t
  BY <1>1 DEF PlaysOf
<1>3. i \in Nat /\ 1 .. i - 1 \subseteq DOMAIN plays
  BY <1>2, ClocksAre
<1>4. j = IF before = {} THEN 0 ELSE Max(before)
  BY Zenon DEF PriorPlay
<1>5. before # {} /\ j = Max(before)
  BY <1>1, <1>4, Zenon
<1>6. i - 1 \in Nat /\ before \in SUBSET (1 .. i - 1)
  <2>1. before \in SUBSET (1 .. i - 1)
    OBVIOUS
  <2>2. i # 0
    <3>1. PICK x \in before : TRUE
      BY <1>5
    <3>2. x \in 1 .. i - 1
      OBVIOUS
    <3>. QED  BY <1>3, <3>2
  <2>. QED  BY <1>3, <2>1, <2>2
<1>7. j \in before /\ \A y \in before : y <= j
  <2> HIDE DEF before, j
  <2>. QED  BY <1>5, <1>6, MaxIs
<1>8. j \in PlaysOf(t) /\ j < i /\ plays[j].drive = plays[i].drive
  BY <1>2, <1>3, <1>7 DEF PlaysOf
<1>9. \A x \in PlaysOf(t) : x < i /\ plays[x].drive = plays[i].drive /\ Vfp(plays[x]) => x \in before
  <2> SUFFICES ASSUME NEW x \in PlaysOf(t), x < i, plays[x].drive = plays[i].drive, Vfp(plays[x])
               PROVE  x \in before
    OBVIOUS
  <2>1. x \in DOMAIN plays /\ plays[x].team = t
    BY DEF PlaysOf
  <2>2. PICK n \in Nat : DOMAIN plays = 1..n
    BY FrameIs
  <2>3. x \in 1 .. i - 1
    BY <1>3, <2>1, <2>2
  <2>. QED  BY <1>2, <2>1, <2>3
<1>10. Seconds(i) = plays[j].clock - plays[i].clock
  BY DEF Seconds
<1>11. Seconds(i) \in Nat
  BY <1>1, <1>10, FrameAssumption
<1> HIDE DEF j, before
<1>. QED  BY <1>1, <1>7, <1>8, <1>9, <1>10, <1>11 DEF j

\* A team had the ball from the greatest of its clocks to the least.
LEMMA HadIs ==
  ASSUME PlaysKnown, NEW t, NEW k, NEW q
  PROVE  /\ HadTheBall(t, k, q) \in Nat
         /\ Stint(t, k, q) # {} =>
              \E high, low \in Nat : /\ HadTheBall(t, k, q) = high - low
                                     /\ \A c \in Stint(t, k, q) : low <= c /\ c <= high
<1> DEFINE S == Stint(t, k, q)
<1>1. IsFiniteSet(S) /\ S \subseteq Nat
  <2> DEFINE J == {j \in DriveRows(t, k) : plays[j].qtr = q}
             f == [i \in J |-> plays[i].clock]
  <2>1. J \in SUBSET PlaysOf(t)
    BY DEF DriveRows
  <2>2. IsFiniteSet(J)
    BY <2>1, PlaysAre, FS_Subset
  <2>3. S = {f[i] : i \in J}
    BY DEF Stint
  <2>4. \A i \in J : f[i] \in Nat
    BY <2>1, PlaysAre, ClocksAre
  <2> HIDE DEF S, J, f
  <2>. QED  BY <2>2, <2>3, <2>4, ImageIsFinite
<1>2. HadTheBall(t, k, q) = IF S = {} THEN 0 ELSE Max(S) - Min(S)
  BY DEF HadTheBall
<1> HIDE DEF S
<1>3. CASE S = {}
  BY <1>2, <1>3 DEF S
<1>4. CASE S # {}
  <2>1. \E x \in S : \A y \in S : x >= y
    <3>1. PICK x \in S : \A y \in S : y <= x
      BY <1>1, <1>4, FiniteHasGreatest
    <3>. QED  BY <1>1, <3>1
  <2>2. Max(S) \in S /\ \A y \in S : Max(S) >= y
    BY <2>1, Zenon DEF Max
  <2>3. \E x \in S : \A y \in S : x =< y
    BY <1>1, <1>4, LeastElement
  <2>4. Min(S) \in S /\ \A y \in S : Min(S) =< y
    BY <2>3, Zenon DEF Min
  <2>5. Max(S) \in Nat /\ Min(S) \in Nat /\ Min(S) <= Max(S) /\ \A c \in S : c <= Max(S)
    BY <1>1, <2>2, <2>4
  <2>6. HadTheBall(t, k, q) = Max(S) - Min(S)
    BY <1>2, <1>4
  <2>. QED  BY <2>4, <2>5, <2>6 DEF S
<1>. QED  BY <1>3, <1>4

\* The intervals of one drive in one quarter follow one another, so that together
\* they last no longer than the team had the ball.
LEMMA IntervalsFollow ==
  ASSUME PlaysKnown, ClockRunsDown, NEW t, NEW k, NEW q, NEW J, NEW sec,
         J = {i \in Intervals(t) : plays[i].drive = k /\ plays[i].qtr = q},
         \A i \in Intervals(t) : sec[i] = Seconds(i)
  PROVE  SumFunctionOnSet(sec, J) <= HadTheBall(t, k, q)
<1>1. IsFiniteSet(J)
  <2>1. J \in SUBSET PlaysOf(t)
    BY DEF Intervals
  <2>. QED  BY <2>1, PlaysAre, FS_Subset
<1>2. HadTheBall(t, k, q) \in Nat
  BY HadIs
<1>3. CASE J = {}
  BY <1>1, <1>2, <1>3, SumChooses
<1>4. CASE J # {}
  <2>1. \A i \in J : /\ i \in PlaysOf(t) /\ i \in Nat /\ i \in DOMAIN plays /\ Vfp(plays[i])
                     /\ plays[i].clock \in Stint(t, k, q) /\ plays[i].clock \in Nat
                     /\ plays[i].drive = k /\ plays[i].qtr = q
    <3> SUFFICES ASSUME NEW i \in J
                 PROVE  /\ i \in PlaysOf(t) /\ i \in Nat /\ i \in DOMAIN plays /\ Vfp(plays[i])
                        /\ plays[i].clock \in Stint(t, k, q) /\ plays[i].clock \in Nat
                        /\ plays[i].drive = k /\ plays[i].qtr = q
      OBVIOUS
    <3>1. i \in PlaysOf(t) /\ Vfp(plays[i])
      BY IntervalIs
    <3>2. i \in DOMAIN plays
      BY <3>1, PlaysAre
    <3>3. plays[i].clock \in Stint(t, k, q)
      BY <3>1 DEF Stint, DriveRows
    <3>. QED  BY <3>1, <3>2, <3>3, ClocksAre
  <2>2. PICK high, low \in Nat : /\ HadTheBall(t, k, q) = high - low
                                 /\ \A c \in Stint(t, k, q) : low <= c /\ c <= high
    BY <1>4, <2>1, HadIs
  <2>3. \A i \in J : sec[i] \in Nat /\ sec[i] \in Int
    BY IntervalIs
  <2> DEFINE B == {T \in SUBSET J : T # {} /\ ~ \E i \in T : /\ \A y \in T : y <= i
                                                           /\ SumFunctionOnSet(sec, T) <= high - plays[i].clock}
  <2>4. B = {}
    <3> SUFFICES ASSUME B # {} PROVE FALSE
      OBVIOUS
    <3>1. PICK T \in B : IsFiniteSet(T) /\ \A x \in T : T \ {x} \notin B
      BY <1>1, LeastSubset
    <3>2. T \subseteq J /\ T # {} /\ T \subseteq Nat
      BY <2>1
    <3>3. PICK i \in T : \A y \in T : y <= i
      BY <3>1, <3>2, FiniteHasGreatest
    <3> DEFINE R == T \ {i}
    <3>4. SumFunctionOnSet(sec, T) = sec[i] + SumFunctionOnSet(sec, T \ {i})
      <4>1. T \in SUBSET J /\ i \in T
        BY <3>2, <3>3
      <4>2. \A x \in J : sec[x] \in Int
        BY <2>3
      <4>. QED  BY <1>1, <4>1, <4>2, SumRemoves
    <3>5. PICK j \in PlaysOf(t) :
            /\ j = PriorPlay(i) /\ j < i /\ plays[j].drive = k /\ plays[j].qtr = q
            /\ sec[i] = plays[j].clock - plays[i].clock
            /\ \A x \in PlaysOf(t) : x < i /\ plays[x].drive = k /\ Vfp(plays[x]) => x <= j
      <4>1. i \in Intervals(t) /\ plays[i].drive = k /\ plays[i].qtr = q
        BY <3>2
      <4>. QED  BY <4>1, IntervalIs
    <3>6. j \in DOMAIN plays /\ plays[j].clock \in Nat /\ j \in Nat /\ plays[j].clock <= high
      <4>1. j \in DOMAIN plays
        BY <3>5, PlaysAre
      <4>2. plays[j].clock \in Stint(t, k, q)
        BY <3>5 DEF Stint, DriveRows
      <4>. QED  BY <2>2, <4>1, <4>2, ClocksAre
    <3>7. plays[i].clock \in Nat
      BY <2>1, <3>2
    <3>8. CASE R = {}
      <4>1. SumFunctionOnSet(sec, R) = 0
        BY <3>8, SumChooses, FS_EmptySet
      <4>2. SumFunctionOnSet(sec, T) <= high - plays[i].clock
        BY <3>4, <3>5, <3>6, <3>7, <4>1
      <4>. QED  BY <3>1, <3>3, <4>2
    <3>9. CASE R # {}
      <4>1. R \in SUBSET J /\ R \notin B
        BY <3>1, <3>2
      <4>2. PICK h \in R : /\ \A y \in R : y <= h
                           /\ SumFunctionOnSet(sec, R) <= high - plays[h].clock
        BY <3>9, <4>1
      <4>3. h \in T /\ h # i /\ h <= i /\ h \in PlaysOf(t) /\ h \in Nat /\ i \in Nat
            /\ plays[h].drive = k /\ plays[h].qtr = q /\ Vfp(plays[h]) /\ h \in DOMAIN plays
            /\ plays[h].clock \in Nat
        BY <2>1, <3>2, <3>3
      <4>4. h <= j
        BY <3>5, <4>3
      <4>5. plays[j].clock <= plays[h].clock
        BY <3>5, <3>6, <4>3, <4>4 DEF ClockRunsDown
      <4>6. SumFunctionOnSet(sec, R) \in Int
        BY <1>1, <2>3, <4>1, SumType
      <4>7. SumFunctionOnSet(sec, T) <= high - plays[i].clock
        BY <3>4, <3>5, <3>6, <3>7, <4>2, <4>3, <4>5, <4>6
      <4>. QED  BY <3>1, <3>3, <4>7
    <3>. QED  BY <3>8, <3>9
  <2>5. PICK i \in J : SumFunctionOnSet(sec, J) <= high - plays[i].clock
    <3>1. J \in SUBSET J /\ J \notin B
      BY <2>4
    <3>. QED  BY <1>4, <3>1
  <2>6. low <= plays[i].clock /\ plays[i].clock \in Nat
    BY <2>1, <2>2
  <2>7. SumFunctionOnSet(sec, J) \in Int
    BY <1>1, <2>3, SumType
  <2>. QED  BY <2>2, <2>5, <2>6, <2>7
<1>. QED  BY <1>3, <1>4

\* The seconds of the neutral intervals are some of the seconds, and these are
\* no more than the team had the ball.
LEMMA PaceCounts ==
  ASSUME PlaysKnown, NEW t
  PROVE  LET pace == PaceAggregate(t)
         IN /\ pace.neutralSeconds.n <= pace.seconds.n
            /\ ClockRunsDown =>
                 pace.seconds.n <= SumFunction([kq \in DrivesOf(t) \X Quarters |-> HadTheBall(t, kq[1], kq[2])])
<1> DEFINE S == Intervals(t)
           N == {i \in S : Neutral(plays[PriorPlay(i)])}
           sec == [i \in S |-> Seconds(i)]
           few == [i \in N |-> Seconds(i)]
           C == DrivesOf(t) \X Quarters
           had == [kq \in C |-> HadTheBall(t, kq[1], kq[2])]
           h == [i \in S |-> <<plays[i].drive, plays[i].qtr>>]
<1>1. /\ PaceAggregate(t).seconds.n = SumFunctionOnSet(sec, S)
      /\ PaceAggregate(t).neutralSeconds.n = SumFunctionOnSet(few, N)
  BY DEF PaceAggregate, SumOver, SumFunction
<1>2. SumFunction(had) = SumFunctionOnSet(had, C)
  BY DEF SumFunction
<1>3. S \in SUBSET PlaysOf(t) /\ N \in SUBSET S
  BY DEF Intervals
<1>4. IsFiniteSet(S) /\ IsFiniteSet(N)
  <2> HIDE DEF S, N
  <2>1. IsFiniteSet(S)
    BY <1>3, PlaysAre, FS_Subset
  <2>. QED  BY <1>3, <2>1, FS_Subset
<1>5. \A i \in S : sec[i] \in Nat /\ sec[i] \in Int
  BY IntervalIs
<1>6. \A i \in N : few[i] = sec[i]
  BY <1>3
<1>7. IsFiniteSet(C)
  BY PlaysAre, FS_Product
<1>8. \A c \in C : had[c] \in Int
  BY HadIs
<1>9. \A i \in S : h[i] \in C
  <2> SUFFICES ASSUME NEW i \in S PROVE <<plays[i].drive, plays[i].qtr>> \in C
    OBVIOUS
  <2>1. i \in PlaysOf(t) /\ i \in DOMAIN plays
    BY <1>3, PlaysAre
  <2>. QED  BY <2>1 DEF DrivesOf, Quarters
<1>10. ASSUME ClockRunsDown, NEW c \in C PROVE SumFunctionOnSet(sec, {i \in S : h[i] = c}) <= had[c]
  <2>1. PICK k \in DrivesOf(t), q \in Quarters : c = <<k, q>>
    OBVIOUS
  <2>2. {i \in S : h[i] = c} = {i \in Intervals(t) : plays[i].drive = k /\ plays[i].qtr = q}
    BY <2>1
  <2>3. had[c] = HadTheBall(t, k, q)
    BY <2>1
  <2>4. \A i \in Intervals(t) : sec[i] = Seconds(i)
    OBVIOUS
  <2> DEFINE J == {i \in S : h[i] = c}
  <2>5. J = {i \in Intervals(t) : plays[i].drive = k /\ plays[i].qtr = q}
    BY <2>2
  <2> HIDE DEF J, sec, had, h, S, C
  <2>6. SumFunctionOnSet(sec, J) <= HadTheBall(t, k, q)
    BY <1>10, <2>4, <2>5, IntervalsFollow
  <2>. QED  BY <2>3, <2>6 DEF J
<1> HIDE DEF S, N, sec, few, C, had, h
<1>11. ClockRunsDown => SumFunctionOnSet(sec, S) <= SumFunctionOnSet(had, C)
  BY <1>4, <1>5, <1>7, <1>8, <1>9, <1>10, SumByClass
<1>12. SumFunctionOnSet(sec, N) <= SumFunctionOnSet(sec, S)
  BY <1>3, <1>4, <1>5, SumOfPart
<1>13. SumFunctionOnSet(few, N) = SumFunctionOnSet(sec, N)
  <2>1. \A i \in N : sec[i] \in Int /\ few[i] = sec[i]
    BY <1>3, <1>5, <1>6
  <2>. QED  BY <1>4, <2>1, SumAgrees, N \in SUBSET N
<1>. QED  BY <1>1, <1>2, <1>11, <1>12, <1>13 DEF had, C

\* What an offence did adds up.
LEMMA OffenseAddsUp ==
  ASSUME PlaysKnown, NEW t
  PROVE  Consistent(t, OffenseOf(t))
<1> DEFINE o == OffenseOf(t)
           rows == RowAggregate(t)
<1>1. {"success", "pass", "rush", "dropback", "turnover", "sackRate", "explosivePass", "explosiveRush",
       "neutralPass", "neutralRush"} \subseteq RowMetrics
  BY DEF RowMetrics
<1>2. /\ \A m \in {"success", "pass", "rush", "dropback", "turnover", "sackRate",
                  "explosivePass", "explosiveRush"} : o[m] = rows[m]
      /\ \A m \in {"points", "scoring", "turnovers", "redZone"} : o[m] = DriveAggregate(t)[m]
      /\ \A m \in {"seconds", "neutralSeconds"} : o[m] = PaceAggregate(t)[m]
      /\ o.neutralPassRate.d = rows.neutralPass.n + rows.neutralRush.n
  BY OffenseIs
<1>3. \A m \in RowMetrics : /\ rows[m].n <= rows[m].d /\ rows[m].n \in Nat /\ rows[m].d \in Nat
                            /\ rows[m].d = Cardinality({i \in PlaysOf(t) : Denominator(plays[i])[m]})
  BY RowCounts
<1>4. rows.neutralPass.n <= rows.pass.d /\ rows.neutralRush.n <= rows.rush.d
  BY NeutralAreFewer
<1>5. /\ DriveAggregate(t).scoring.n <= DriveAggregate(t).scoring.d
      /\ DriveAggregate(t).redZone.n <= DriveAggregate(t).redZone.d
      /\ DriveAggregate(t).points.d <= Cardinality(DrivesOf(t))
      /\ DriveAggregate(t).turnovers.n <= rows.turnover.n
  BY DrivesCount
<1>6. /\ PaceAggregate(t).neutralSeconds.n <= PaceAggregate(t).seconds.n
      /\ ClockRunsDown =>
           PaceAggregate(t).seconds.n <= SumFunction([kq \in DrivesOf(t) \X Quarters |-> HadTheBall(t, kq[1], kq[2])])
  BY PaceCounts
<1>7. rows.sackRate.d = rows.dropback.d
  <2>1. \A p : Denominator(p)["sackRate"] = Denominator(p)["dropback"]
    BY DEF Denominator
  <2>2. {i \in PlaysOf(t) : Denominator(plays[i])["sackRate"]}
          = {i \in PlaysOf(t) : Denominator(plays[i])["dropback"]}
    BY <2>1
  <2>3. "sackRate" \in RowMetrics /\ "dropback" \in RowMetrics
    BY <1>1
  <2> HIDE DEF rows
  <2>4. rows["sackRate"].d = Cardinality({i \in PlaysOf(t) : Denominator(plays[i])["sackRate"]})
    BY <1>3, <2>3
  <2>5. rows["dropback"].d = Cardinality({i \in PlaysOf(t) : Denominator(plays[i])["dropback"]})
    BY <1>3, <2>3
  <2>. QED  BY <2>2, <2>4, <2>5
<1> HIDE DEF o, rows
<1>8. \A m \in {"success", "sackRate", "explosivePass", "explosiveRush"} : o[m].n <= o[m].d
  BY <1>1, <1>2, <1>3
<1>9. o.scoring.n <= o.scoring.d /\ o.redZone.n <= o.redZone.d
      /\ o.points.d <= Cardinality(DrivesOf(t)) /\ o.turnovers.n <= o.turnover.n
  BY <1>2, <1>5
<1>10. o.sackRate.d = o.dropback.d
  BY <1>2, <1>7
<1>11. o.neutralPassRate.d <= o.pass.d + o.rush.d
  <2>1. rows.neutralPass.n \in Nat /\ rows.neutralRush.n \in Nat /\ rows.pass.d \in Nat /\ rows.rush.d \in Nat
    BY <1>1, <1>3
  <2>. QED  BY <1>2, <1>4, <2>1
<1>12. /\ o.neutralSeconds.n <= o.seconds.n
       /\ ClockRunsDown => o.seconds.n <= SumFunction([kq \in DrivesOf(t) \X Quarters |-> HadTheBall(t, kq[1], kq[2])])
  BY <1>2, <1>6
<1>. QED  BY <1>8, <1>9, <1>10, <1>11, <1>12 DEF Consistent, o

\* What is observed of a game is consistent between metrics, whatever its plays:
\* build_team_updates adds up.
THEOREM ObservationsBalanced == ObserveSpec => []ObservationsBalance
<1> DEFINE Inv == PlaysKnown /\ ObservationsBalance
<1>1. ObserveInit => Inv
  <2> SUFFICES ASSUME ObserveInit PROVE Inv
    OBVIOUS
  <2>1. observed = <<>> /\ PlaysKnown
    BY DEF ObserveInit, PlaysKnown
  <2>2. DOMAIN observed = {}
    BY <2>1
  <2>. QED  BY <2>1, <2>2 DEF ObservationsBalance
<1>2. Inv /\ [ObserveGame]_observeVars => Inv'
  <2> SUFFICES ASSUME Inv, [ObserveGame]_observeVars PROVE Inv'
    OBVIOUS
  <2>1. plays' = plays
    BY DEF ObserveGame, observeVars
  <2>2. PlaysKnown'
    BY <2>1 DEF PlaysKnown
  <2>3. /\ \A t : DrivesOf(t)' = DrivesOf(t)
        /\ \A t, k, q : HadTheBall(t, k, q)' = HadTheBall(t, k, q)
        /\ Quarters' = Quarters /\ ClockRunsDown' = ClockRunsDown
    <3>1. \A t : PlaysOf(t)' = PlaysOf(t)
      BY <2>1 DEF PlaysOf
    <3>2. \A t, k : DriveRows(t, k)' = DriveRows(t, k)
      BY <2>1, <3>1 DEF DriveRows
    <3>3. \A t, k, q : Stint(t, k, q)' = Stint(t, k, q)
      BY <2>1, <3>2 DEF Stint
    <3>4. \A t, k, q : HadTheBall(t, k, q)' = HadTheBall(t, k, q)
      BY <3>3 DEF HadTheBall
    <3>5. \A t : DrivesOf(t)' = DrivesOf(t)
      BY <2>1, <3>1 DEF DrivesOf
    <3>. QED  BY <2>1, <3>4, <3>5 DEF Quarters, ClockRunsDown
  <2>4. ASSUME NEW t, Consistent(t, observed'[t].offense)
        PROVE  Consistent(t, observed[t].offense)'
    BY <2>3, <2>4 DEF Consistent
  <2>5. CASE observed' = observed
    <3> SUFFICES ASSUME NEW t \in DOMAIN observed' PROVE Consistent(t, observed[t].offense)'
      BY <2>2 DEF ObservationsBalance
    <3>. QED  BY <2>4, <2>5 DEF ObservationsBalance
  <2>6. CASE observed' = TeamUpdates
    <3> SUFFICES ASSUME NEW t \in DOMAIN observed' PROVE Consistent(t, observed[t].offense)'
      BY <2>2 DEF ObservationsBalance
    <3>1. CASE TeamsSeen = {}
      <4>1. DOMAIN observed' = {}
        BY <2>6, <3>1 DEF TeamUpdates
      <4>. QED  BY <4>1
    <3>2. CASE TeamsSeen # {}
      <4>1. observed'[t].offense = OffenseOf(t)
        BY <2>6, <3>2 DEF TeamUpdates
      <4>2. Consistent(t, observed'[t].offense)
        BY <4>1, OffenseAddsUp
      <4>. QED  BY <2>4, <4>2
    <3>. QED  BY <3>1, <3>2
  <2>7. observed' = observed \/ observed' = TeamUpdates
    BY DEF ObserveGame, observeVars
  <2>. QED  BY <2>2, <2>5, <2>6, <2>7
<1>. QED  BY <1>1, <1>2, PTL DEF ObserveSpec

-----------------------------------------------------------------------------
\* Sequences in an order.

\* R is a strict total order of S.
Orders(R, S) ==
  /\ \A x \in S : <<x, x>> \notin R
  /\ \A x, y, z \in S : <<x, y>> \in R /\ <<y, z>> \in R => <<x, z>> \in R
  /\ \A x, y \in S : x = y \/ <<x, y>> \in R \/ <<y, x>> \in R

\* A sequence with the members of S by their places in the order R.
Places(S, R, B) ==
  /\ DOMAIN B = 1 .. Cardinality(S) /\ B = [i \in DOMAIN B |-> B[i]]
  /\ \A i \in DOMAIN B : (\E x \in S : Cardinality(Preceding(S, R, x)) = i - 1) =>
       B[i] \in S /\ Cardinality(Preceding(S, R, B[i])) = i - 1

\* It has each of them once, in order.
LEMMA RankedIs ==
  ASSUME NEW S, IsFiniteSet(S), NEW R, Orders(R, S), NEW B, Places(S, R, B)
  PROVE  /\ Cardinality(S) \in Nat /\ Len(B) = Cardinality(S) /\ DOMAIN B = 1 .. Len(B) /\ B \in Seq(S)
         /\ \A i \in DOMAIN B : B[i] \in S
         /\ \A i \in DOMAIN B : Cardinality(Preceding(S, R, B[i])) = i - 1
         /\ \A i, j \in DOMAIN B : j < i => <<B[j], B[i]>> \in R
         /\ \A x \in S : \E i \in DOMAIN B : B[i] = x
<1>1. PICK k \in Nat : k = Cardinality(S)
  BY FS_CardinalityType
<1>2. \A i \in 1 .. k : \E x \in S : Cardinality(Preceding(S, R, x)) = i - 1
  BY <1>1, RankIsTaken DEF Orders
<1>3. DOMAIN B = 1 .. k
  BY <1>1 DEF Places
<1>4. \A i \in 1 .. k : B[i] \in S /\ Cardinality(Preceding(S, R, B[i])) = i - 1
  BY <1>2, <1>3 DEF Places
<1>5. B \in [1 .. k -> S]
  BY <1>3, <1>4 DEF Places
<1>6. B \in Seq(S) /\ Len(B) = k
  <2>1. B \in Seq(S)
    BY <1>5, SeqDef
  <2>. QED  BY <1>3, <2>1, LenProperties
<1>7. \A x \in S : IsFiniteSet(Preceding(S, R, x))
  <2> TAKE x \in S
  <2>1. Preceding(S, R, x) \in SUBSET S
    BY DEF Preceding
  <2>. QED  BY <2>1, FS_Subset
<1>8. ASSUME NEW x \in S, NEW y \in S, <<x, y>> \in R
      PROVE  Cardinality(Preceding(S, R, x)) < Cardinality(Preceding(S, R, y))
  <2>1. Preceding(S, R, x) \in SUBSET Preceding(S, R, y) /\ x \in Preceding(S, R, y) /\ x \notin Preceding(S, R, x)
    BY <1>8, Zenon DEF Preceding, Orders
  <2>2. /\ Cardinality(Preceding(S, R, x)) <= Cardinality(Preceding(S, R, y))
        /\ Cardinality(Preceding(S, R, y)) = Cardinality(Preceding(S, R, x))
             => Preceding(S, R, y) = Preceding(S, R, x)
    BY <1>7, <2>1, FS_Subset
  <2>3. Cardinality(Preceding(S, R, x)) \in Nat /\ Cardinality(Preceding(S, R, y)) \in Nat
    BY <1>7, FS_CardinalityType
  <2>. QED  BY <2>1, <2>2, <2>3
<1>9. ASSUME NEW i \in 1 .. k, NEW j \in 1 .. k, j < i
      PROVE  <<B[j], B[i]>> \in R
  <2>1. /\ B[i] \in S /\ Cardinality(Preceding(S, R, B[i])) = i - 1
        /\ B[j] \in S /\ Cardinality(Preceding(S, R, B[j])) = j - 1
    BY <1>4
  <2>2. B[i] # B[j]
    BY <1>9, <2>1
  <2>3. CASE <<B[i], B[j]>> \in R
    <3>1. Cardinality(Preceding(S, R, B[i])) < Cardinality(Preceding(S, R, B[j]))
      BY <1>8, <2>1, <2>3
    <3>. QED  BY <1>9, <2>1, <3>1
  <2>. QED  BY <2>1, <2>2, <2>3 DEF Orders
<1>10. ASSUME NEW x \in S PROVE \E i \in 1 .. k : B[i] = x
  <2>1. B \in Injection(1 .. k, S)
    <3>1. \A i, j \in 1 .. k : B[i] = B[j] => i = j
      <4> SUFFICES ASSUME NEW i \in 1 .. k, NEW j \in 1 .. k, B[i] = B[j], i # j PROVE FALSE
        OBVIOUS
      <4>1. Cardinality(Preceding(S, R, B[i])) = i - 1 /\ Cardinality(Preceding(S, R, B[i])) = j - 1
        BY <1>4
      <4>. QED  BY <4>1
    <3>. QED  BY <1>5, <3>1 DEF Injection, IsInjective
  <2>2. IsFiniteSet(1 .. k) /\ Cardinality(1 .. k) = k
    BY FS_Interval
  <2>3. B \in Surjection(1 .. k, S)
    BY <1>1, <2>1, <2>2, FS_Injection
  <2>. QED  BY <2>3 DEF Surjection
<1>. QED  BY <1>1, <1>3, <1>4, <1>6, <1>9, <1>10

-----------------------------------------------------------------------------
\* The calendar.

Calendar == [season : Nat, type : ToSet(SeasonTypes), week : Nat]
Walked(s) == {s[g].block : g \in DOMAIN Development(s)}

LEMMA PriorityIs ==
  \A t \in ToSet(SeasonTypes) : Priority(t) \in 1..5 /\ SeasonTypes[Priority(t)] = t
<1>1. DOMAIN SeasonTypes = 1..5
  BY DEF SeasonTypes
<1>2. ASSUME NEW t \in ToSet(SeasonTypes)
      PROVE  Priority(t) \in DOMAIN SeasonTypes /\ SeasonTypes[Priority(t)] = t
  <2>1. \E i \in DOMAIN SeasonTypes : SeasonTypes[i] = t
    BY DEF ToSet
  <2>. QED  BY <2>1 DEF Priority
<1>. QED  BY <1>1, <1>2

\* The canonical order orders the blocks of a calendar.
LEMMA EarlierOrders ==
  /\ \A a \in Calendar : ~Earlier(a, a)
  /\ \A a, b, c \in Calendar : Earlier(a, b) /\ Earlier(b, c) => Earlier(a, c)
  /\ \A a, b \in Calendar : a = b \/ Earlier(a, b) \/ Earlier(b, a)
<1>1. \A a \in Calendar : /\ a.season \in Nat /\ a.week \in Nat /\ Priority(a.type) \in Nat
                          /\ SeasonTypes[Priority(a.type)] = a.type
                          /\ a = [season |-> a.season, type |-> a.type, week |-> a.week]
  BY PriorityIs DEF Calendar
<1>2. \A a \in Calendar : ~Earlier(a, a)
  BY <1>1 DEF Earlier
<1>3. \A a, b, c \in Calendar : Earlier(a, b) /\ Earlier(b, c) => Earlier(a, c)
  BY <1>1 DEF Earlier
<1>4. ASSUME NEW a \in Calendar, NEW b \in Calendar, ~Earlier(a, b), ~Earlier(b, a)
      PROVE  a = b
  <2>1. a.season = b.season
    BY <1>1, <1>4 DEF Earlier
  <2>2. Priority(a.type) = Priority(b.type)
    BY <1>1, <1>4, <2>1 DEF Earlier
  <2>3. a.type = b.type
    BY <1>1, <2>2
  <2>4. a.week = b.week
    BY <1>1, <1>4, <2>1, <2>3 DEF Earlier
  <2>. QED  BY <1>1, <2>1, <2>3, <2>4
<1>. QED  BY <1>2, <1>3, <1>4

LEMMA ScheduleIs ==
  ASSUME NEW s \in Schedules
  PROVE  /\ IsFiniteSet(DOMAIN s) /\ IsFiniteSet(Walked(s)) /\ Walked(s) # {} /\ Walked(s) \subseteq Calendar
         /\ \A g \in DOMAIN s : s[g].day \in Nat /\ s[g].block \in Calendar
         /\ DOMAIN Development(s) \subseteq DOMAIN s
<1>1. /\ IsFiniteSet(DOMAIN s) /\ DOMAIN Development(s) # {}
      /\ \A g \in DOMAIN s : s[g].day \in Nat /\ s[g].block \in Calendar
  BY CalendarAssumption DEF Calendar
<1>2. DOMAIN Development(s) \in SUBSET DOMAIN s
  BY DEF Development
<1>3. IsFiniteSet(Walked(s))
  <2> DEFINE G == DOMAIN Development(s)
             f == [g \in G |-> s[g].block]
  <2>1. Walked(s) = {f[g] : g \in G}
    BY DEF Walked
  <2>2. IsFiniteSet(G)
    BY <1>1, <1>2, FS_Subset
  <2> HIDE DEF f, G
  <2>. QED  BY <2>1, <2>2, ImageIsFinite
<1>4. Walked(s) # {} /\ Walked(s) \subseteq Calendar
  BY <1>1, <1>2 DEF Walked
<1>. QED  BY <1>1, <1>2, <1>3, <1>4

\* B is S sorted by the canonical order.
Canonically(S, B) ==
  B = [i \in 1 .. Cardinality(S) |-> CHOOSE x \in S : Cardinality({y \in S : Earlier(y, x)}) = i - 1]

\* Blocks sorted by the canonical order: each once, in order.
LEMMA BlocksSorted ==
  ASSUME NEW S, IsFiniteSet(S), S \subseteq Calendar, NEW B, Canonically(S, B)
  PROVE  /\ Cardinality(S) \in Nat /\ Len(B) = Cardinality(S) /\ DOMAIN B = 1 .. Len(B) /\ B \in Seq(S)
         /\ \A i \in DOMAIN B : B[i] \in S
         /\ \A i \in DOMAIN B : Cardinality({y \in S : Earlier(y, B[i])}) = i - 1
         /\ \A i, j \in DOMAIN B : j < i => Earlier(B[j], B[i])
         /\ \A x \in S : \E i \in DOMAIN B : B[i] = x
<1> DEFINE before(x) == {y \in S : Earlier(y, x)}
<1>1. PICK R : R = {p \in S \X S : Earlier(p[1], p[2])}
  OBVIOUS
<1>2. \A x, y \in S : <<x, y>> \in R <=> Earlier(x, y)
  BY <1>1
<1>3. \A x \in S : before(x) = Preceding(S, R, x)
  BY <1>2 DEF Preceding
<1>4. Orders(R, S)
  <2>1. \A x \in S : x \in Calendar
    OBVIOUS
  <2>. QED  BY <1>2, <2>1, EarlierOrders, Zenon DEF Orders
<1>5. B = [i \in 1 .. Cardinality(S) |-> CHOOSE x \in S : Cardinality(before(x)) = i - 1]
  BY Zenon DEF Canonically
<1> HIDE DEF before
<1>6. Places(S, R, B)
  <2>1. DOMAIN B = 1 .. Cardinality(S) /\ B = [i \in DOMAIN B |-> B[i]]
    BY <1>5
  <2>2. ASSUME NEW i \in DOMAIN B, NEW w \in S, Cardinality(Preceding(S, R, w)) = i - 1
        PROVE  B[i] \in S /\ Cardinality(Preceding(S, R, B[i])) = i - 1
    <3>1. Cardinality(before(w)) = i - 1
      BY <1>3, <2>2
    <3>2. B[i] = CHOOSE x \in S : Cardinality(before(x)) = i - 1
      BY <1>5, <2>1
    <3>3. B[i] \in S /\ Cardinality(before(B[i])) = i - 1
      BY <3>1, <3>2
    <3>. QED  BY <1>3, <3>3
  <2>. QED  BY <2>1, <2>2 DEF Places
<1>7. /\ Cardinality(S) \in Nat /\ Len(B) = Cardinality(S) /\ DOMAIN B = 1 .. Len(B) /\ B \in Seq(S)
      /\ \A i \in DOMAIN B : B[i] \in S
      /\ \A i \in DOMAIN B : Cardinality(Preceding(S, R, B[i])) = i - 1
      /\ \A i, j \in DOMAIN B : j < i => <<B[j], B[i]>> \in R
      /\ \A x \in S : \E i \in DOMAIN B : B[i] = x
  BY <1>4, <1>6, RankedIs
<1>8. \A i \in DOMAIN B : Cardinality(before(B[i])) = i - 1
  BY <1>3, <1>7
<1>9. \A i, j \in DOMAIN B : j < i => Earlier(B[j], B[i])
  BY <1>2, <1>7
<1>. QED  BY <1>7, <1>8, <1>9 DEF before

\* The walk meets each block of the development seasons once, in canonical order.
LEMMA WalkIs ==
  ASSUME NEW s \in Schedules
  PROVE  /\ Len(BlocksOf(s)) \in Nat /\ Len(BlocksOf(s)) >= 1
         /\ DOMAIN BlocksOf(s) = 1 .. Len(BlocksOf(s))
         /\ \A i \in DOMAIN BlocksOf(s) : BlocksOf(s)[i] \in Walked(s) /\ BlocksOf(s)[i] \in Calendar
         /\ \A i, j \in DOMAIN BlocksOf(s) : j < i => Earlier(BlocksOf(s)[j], BlocksOf(s)[i])
         /\ \A b \in Walked(s) : \E i \in DOMAIN BlocksOf(s) : BlocksOf(s)[i] = b
<1> DEFINE S == Walked(s)
           B == BlocksOf(s)
<1>1. IsFiniteSet(S) /\ S # {} /\ S \subseteq Calendar
  BY ScheduleIs
<1>2. Canonically(S, B)
  BY Zenon DEF BlocksOf, Sorted, Walked, Canonically
<1> HIDE DEF S, B
<1>3. /\ Cardinality(S) \in Nat /\ Len(B) = Cardinality(S) /\ DOMAIN B = 1 .. Len(B)
      /\ \A i \in DOMAIN B : B[i] \in S
      /\ \A i, j \in DOMAIN B : j < i => Earlier(B[j], B[i])
      /\ \A x \in S : \E i \in DOMAIN B : B[i] = x
  BY <1>1, <1>2, BlocksSorted
<1>4. Cardinality(S) >= 1
  BY <1>1, <1>3, FS_EmptySet
<1>5. \A i \in DOMAIN B : B[i] \in Calendar
  BY <1>1, <1>3
<1>. QED  BY <1>3, <1>4, <1>5 DEF S, B

-----------------------------------------------------------------------------
\* The Tuesdays.

LEMMA AsOfIs ==
  ASSUME NEW s \in Schedules, NEW b, GamesOf(s, b) # {}
  PROVE  \E first \in GamesOf(s, b) : /\ \A g \in GamesOf(s, b) : s[first].day <= s[g].day
                                      /\ AsOf(s, b) = 2 * ((s[first].day - 1) \div 2)
<1> DEFINE D == {s[g].day : g \in GamesOf(s, b)}
<1>1. D \subseteq Nat /\ D # {}
  BY ScheduleIs DEF GamesOf
<1>2. PICK x \in D : \A y \in D : x <= y
  BY <1>1, LeastElement
<1>3. \E d \in D : \A g \in GamesOf(s, b) : d <= s[g].day
  BY <1>2
<1> DEFINE d == CHOOSE d \in D : \A g \in GamesOf(s, b) : d <= s[g].day
<1>4. d \in D /\ \A g \in GamesOf(s, b) : d <= s[g].day
  BY <1>3
<1>5. AsOf(s, b) = 2 * ((d - 1) \div 2)
  BY DEF AsOf
<1> HIDE DEF d
<1>. QED  BY <1>4, <1>5

LEMMA EligibleAtIs ==
  ASSUME NEW s \in Schedules, NEW b, GamesOf(s, b) # {}
  PROVE  EligibleAt(s, b) \in Int /\ \A g \in GamesOf(s, b) : s[g].day < EligibleAt(s, b)
<1> DEFINE D == {s[g].day : g \in GamesOf(s, b)}
<1>1. D \subseteq Nat /\ D # {} /\ \A g \in GamesOf(s, b) : s[g].day \in Nat
  BY ScheduleIs DEF GamesOf
<1>2. IsFiniteSet(D)
  <2> DEFINE f == [g \in GamesOf(s, b) |-> s[g].day]
  <2>1. D = {f[g] : g \in GamesOf(s, b)}
    OBVIOUS
  <2>2. GamesOf(s, b) \in SUBSET DOMAIN s
    BY DEF GamesOf
  <2>3. IsFiniteSet(GamesOf(s, b))
    BY <2>2, ScheduleIs, FS_Subset
  <2> HIDE DEF f, D
  <2>. QED  BY <2>1, <2>3, ImageIsFinite
<1>3. PICK x \in D : \A y \in D : y <= x
  BY <1>1, <1>2, FiniteHasGreatest
<1>4. \E d \in D : \A g \in GamesOf(s, b) : d >= s[g].day
  BY <1>1, <1>3
<1> DEFINE d == CHOOSE d \in D : \A g \in GamesOf(s, b) : d >= s[g].day
<1>5. d \in D /\ \A g \in GamesOf(s, b) : d >= s[g].day
  BY <1>4
<1>6. EligibleAt(s, b) = 2 * (d \div 2 + 1)
  BY DEF EligibleAt
<1>7. d \in Nat
  BY <1>1, <1>5
<1> HIDE DEF d, D
<1>8. 2 * (d \div 2 + 1) > d /\ 2 * (d \div 2 + 1) \in Int
  BY <1>7
<1>. QED  BY <1>1, <1>5, <1>6, <1>7, <1>8

\* A later block's cutoff is no earlier.
LEMMA AsOfGrows ==
  ASSUME NEW s \in Schedules, NEW b \in Walked(s), NEW c \in Walked(s), Earlier(b, c)
  PROVE  AsOf(s, b) <= AsOf(s, c) /\ AsOf(s, b) \in Int /\ AsOf(s, c) \in Int
<1>1. PICK g, h \in DOMAIN Development(s) : s[g].block = b /\ s[h].block = c
  BY DEF Walked
<1>2. GamesOf(s, b) # {} /\ GamesOf(s, c) # {} /\ GamesOf(s, b) \subseteq DOMAIN s /\ GamesOf(s, c) \subseteq DOMAIN s
  BY <1>1, ScheduleIs DEF GamesOf
<1>3. PICK x \in GamesOf(s, b) : /\ \A e \in GamesOf(s, b) : s[x].day <= s[e].day
                                 /\ AsOf(s, b) = 2 * ((s[x].day - 1) \div 2)
  BY <1>2, AsOfIs
<1>4. PICK y \in GamesOf(s, c) : /\ \A e \in GamesOf(s, c) : s[y].day <= s[e].day
                                 /\ AsOf(s, c) = 2 * ((s[y].day - 1) \div 2)
  BY <1>2, AsOfIs
<1>5. y \in DOMAIN Development(s) /\ s[y].block = c
  <2>1. y \in DOMAIN s /\ s[y].block = c
    BY DEF GamesOf
  <2>. QED  BY <1>1, <2>1 DEF Development
<1>6. PICK e \in GamesOf(s, b) : s[e].day <= s[y].day
  <2>1. b \in Calendar /\ g \in DOMAIN s /\ y \in DOMAIN s /\ Earlier(s[g].block, s[y].block)
    BY <1>1, <1>2, <1>5, ScheduleIs
  <2>. QED  BY <1>1, <2>1, CalendarAssumption
<1>7. s[x].day \in Nat /\ s[y].day \in Nat /\ s[e].day \in Nat
  BY <1>2, ScheduleIs
<1>8. s[x].day <= s[y].day
  BY <1>3, <1>6, <1>7
<1>9. \A m, n \in Nat : m <= n => (m - 1) \div 2 <= (n - 1) \div 2
  OBVIOUS
<1>10. \A m \in Nat : (m - 1) \div 2 \in Int
  OBVIOUS
<1>. QED  BY <1>3, <1>4, <1>7, <1>8, <1>9, <1>10

-----------------------------------------------------------------------------
\* The training sets of the totals walk.

TrainingOf(s, i) == UNION {GamesOf(s, c) : c \in EligibleSources(s, BlocksOf(s)[i])}

\* They grow with the block, and every game of them was over at its cutoff.
LEMMA TrainingGrows ==
  ASSUME NEW s \in Schedules, NEW i \in DOMAIN BlocksOf(s)
  PROVE  /\ \A g \in TrainingOf(s, i) : s[g].day < AsOf(s, BlocksOf(s)[i])
         /\ \A j \in 1 .. i : TrainingOf(s, j) \subseteq TrainingOf(s, i)
<1> DEFINE B == BlocksOf(s)
<1>1. /\ Len(B) \in Nat /\ DOMAIN B = 1 .. Len(B)
      /\ \A k \in DOMAIN B : B[k] \in Walked(s)
      /\ \A k, j \in DOMAIN B : j < k => Earlier(B[j], B[k])
  BY WalkIs
<1>2. \A b, c : c \in EligibleSources(s, b) <=> /\ c \in ToSet(B) /\ Earlier(c, b)
                                                /\ EligibleAt(s, c) <= AsOf(s, b)
  BY DEF EligibleSources
<1>3. \A c \in ToSet(B) : c \in Walked(s)
  BY <1>1 DEF ToSet
<1> HIDE DEF B
<1>4. \A c \in Walked(s) : c \in Calendar /\ GamesOf(s, c) # {} /\ GamesOf(s, c) \subseteq DOMAIN s
  BY ScheduleIs DEF Walked, GamesOf
<1>5. \A c \in Walked(s) : AsOf(s, c) \in Int /\ EligibleAt(s, c) \in Int
  <2> TAKE c \in Walked(s)
  <2>1. PICK x \in GamesOf(s, c) : AsOf(s, c) = 2 * ((s[x].day - 1) \div 2)
    BY <1>4, AsOfIs
  <2>2. EligibleAt(s, c) \in Int
    BY <1>4, EligibleAtIs
  <2>3. s[x].day \in Nat
    BY <1>4, ScheduleIs
  <2>. QED  BY <2>1, <2>2, <2>3
<1>6. ASSUME NEW g \in TrainingOf(s, i) PROVE s[g].day < AsOf(s, B[i])
  <2>1. PICK c \in EligibleSources(s, B[i]) : g \in GamesOf(s, c)
    BY DEF TrainingOf, B
  <2>2. c \in Walked(s) /\ EligibleAt(s, c) <= AsOf(s, B[i])
    BY <1>2, <1>3
  <2>3. s[g].day < EligibleAt(s, c)
    BY <2>1, EligibleAtIs
  <2>4. s[g].day \in Nat /\ EligibleAt(s, c) \in Int /\ AsOf(s, B[i]) \in Int
    BY <1>1, <1>4, <1>5, <2>1, <2>2, ScheduleIs DEF B
  <2>. QED  BY <2>2, <2>3, <2>4
<1>7. ASSUME NEW j \in 1 .. i PROVE TrainingOf(s, j) \subseteq TrainingOf(s, i)
  <2>1. CASE j = i
    BY <2>1
  <2>2. CASE j # i
    <3>1. i \in 1 .. Len(B) /\ j \in 1 .. Len(B) /\ j < i
      BY <1>1, <1>7, <2>2 DEF B
    <3>2. B[j] \in Walked(s) /\ B[i] \in Walked(s) /\ Earlier(B[j], B[i])
      BY <1>1, <3>1
    <3>3. AsOf(s, B[j]) <= AsOf(s, B[i])
      BY <3>2, AsOfGrows
    <3>4. EligibleSources(s, B[j]) \subseteq EligibleSources(s, B[i])
      <4> SUFFICES ASSUME NEW c \in EligibleSources(s, B[j]) PROVE c \in EligibleSources(s, B[i])
        OBVIOUS
      <4>1. c \in ToSet(B) /\ Earlier(c, B[j]) /\ EligibleAt(s, c) <= AsOf(s, B[j]) /\ c \in Walked(s)
        BY <1>2, <1>3
      <4>2. Earlier(c, B[i])
        BY <1>4, <3>2, <4>1, EarlierOrders
      <4>3. EligibleAt(s, c) <= AsOf(s, B[i])
        BY <1>5, <3>2, <3>3, <4>1
      <4>. QED  BY <1>2, <4>1, <4>2, <4>3
    <3>. QED  BY <3>4 DEF TrainingOf, B
  <2>. QED  BY <2>1, <2>2
<1>. QED  BY <1>6, <1>7 DEF B

TrainingInv ==
  /\ schedule \in Schedules
  /\ totalsNext \in Nat
  /\ totalsStep \in {"features", "walk"} => totalsNext \in DOMAIN eloBlocks
  /\ trainedOn \in Seq(SUBSET DOMAIN schedule)
  /\ totalsStep = "features" => trainedOn = <<>>
  /\ totalsStep = "walk" => Len(trainedOn) = totalsNext - 1
  /\ \A i \in DOMAIN trainedOn : i \in DOMAIN eloBlocks /\ trainedOn[i] = TrainingOf(schedule, i)

LEMMA TrainingKept ==
  ASSUME TrainingInv, [Totals]_<<schedule, totalsVars>>
  PROVE  TrainingInv'
<1>1. PICK n \in Nat : n = Len(eloBlocks) /\ n >= 1 /\ DOMAIN eloBlocks = 1 .. n
  BY WalkIs DEF TrainingInv, eloBlocks
<1>2. schedule' = schedule /\ eloBlocks' = eloBlocks
  BY DEF Totals, totalsVars, eloBlocks
<1>3. CASE FeatureBlock
  <2>1. /\ totalsStep = "features" /\ trainedOn = <<>> /\ trainedOn' = <<>>
        /\ totalsNext \in 1 .. n
        /\ \/ totalsStep' = "walk" /\ totalsNext' = 1
           \/ totalsStep' = "features" /\ totalsNext' = totalsNext + 1 /\ totalsNext # n
    BY <1>1, <1>3 DEF FeatureBlock, TrainingInv
  <2>2. DOMAIN trainedOn' = {} /\ Len(trainedOn') = 0 /\ trainedOn' \in Seq(SUBSET DOMAIN schedule)
    BY <2>1
  <2>3. totalsNext' \in DOMAIN eloBlocks
    <3>1. totalsNext' \in 1 .. n
      BY <1>1, <2>1
    <3>. QED  BY <1>1, <3>1
  <2>. QED  BY <1>2, <2>1, <2>2, <2>3 DEF TrainingInv
<1>4. CASE TotalsBlock
  <2> DEFINE new == UNION {GamesOf(schedule, c) : c \in EligibleSources(schedule, eloBlocks[totalsNext])}
  <2>1. /\ totalsStep = "walk" /\ totalsNext \in 1 .. n /\ Len(trainedOn) = totalsNext - 1
        /\ trainedOn \in Seq(SUBSET DOMAIN schedule) /\ trainedOn' = Append(trainedOn, new)
    BY <1>1, <1>4 DEF TotalsBlock, TrainingInv
  <2>2. new = TrainingOf(schedule, totalsNext) /\ new \in SUBSET DOMAIN schedule
    BY DEF TrainingOf, eloBlocks, GamesOf
  <2> HIDE DEF new
  <2>3. /\ trainedOn' \in Seq(SUBSET DOMAIN schedule) /\ Len(trainedOn') = totalsNext
        /\ \A i \in 1 .. totalsNext - 1 : trainedOn'[i] = trainedOn[i]
        /\ trainedOn'[totalsNext] = new
    BY <2>1, <2>2, AppendProperties
  <2>4. DOMAIN trainedOn' = 1 .. totalsNext /\ DOMAIN trainedOn = 1 .. totalsNext - 1
    BY <2>1, <2>3, LenProperties
  <2>5. ASSUME NEW i \in DOMAIN trainedOn'
        PROVE  i \in DOMAIN eloBlocks /\ trainedOn'[i] = TrainingOf(schedule, i)
    <3>1. CASE i = totalsNext
      BY <1>1, <2>1, <2>2, <2>3, <3>1
    <3>2. CASE i # totalsNext
      <4>1. i \in DOMAIN trainedOn
        BY <2>1, <2>4, <3>2
      <4>. QED  BY <2>3, <2>4, <4>1 DEF TrainingInv
    <3>. QED  BY <3>1, <3>2
  <2>6. \/ totalsStep' = "rank" /\ totalsNext' = totalsNext
        \/ totalsStep' = "walk" /\ totalsNext' = totalsNext + 1 /\ totalsNext # n
    BY <1>1, <1>4, <2>1 DEF TotalsBlock
  <2>7. /\ schedule' \in Schedules /\ totalsNext' \in Nat /\ totalsStep' # "features"
        /\ totalsStep' = "walk" => totalsNext' \in DOMAIN eloBlocks /\ Len(trainedOn') = totalsNext' - 1
    <3>1. /\ totalsNext' \in Nat /\ totalsStep' # "features"
          /\ totalsStep' = "walk" => totalsNext' \in 1 .. n /\ totalsNext' - 1 = totalsNext
      BY <1>1, <2>1, <2>6
    <3>. QED  BY <1>1, <1>2, <2>3, <3>1 DEF TrainingInv
  <2>. QED  BY <1>2, <2>3, <2>5, <2>7 DEF TrainingInv
<1>5. CASE RankCandidates
  BY <1>1, <1>2, <1>5 DEF RankCandidates, TrainingInv
<1>6. CASE UNCHANGED <<schedule, totalsVars>>
  BY <1>2, <1>6 DEF totalsVars, TrainingInv
<1>. QED  BY <1>3, <1>4, <1>5, <1>6 DEF Totals


-----------------------------------------------------------------------------
\* What is known before a block, and what the models were made from.
LEMMA KnownIs ==
  \A b, g : g \in Known(b) <=> /\ g \in DOMAIN schedule /\ schedule[g].block.season <= DevelopmentMax
                              /\ Earlier(schedule[g].block, b) /\ schedule[g].result # Unplayed
<1>1. DOMAIN eloGames = {h \in DOMAIN schedule : schedule[h].block.season <= DevelopmentMax}
  BY DEF eloGames, Development
<1>2. \A g \in DOMAIN eloGames : eloGames[g] = schedule[g]
  BY DEF eloGames, Development
<1>3. \A b : Prior(eloGames, b) = {g \in DOMAIN eloGames : Earlier(schedule[g].block, b)}
  BY <1>2 DEF Prior
<1>. QED  BY <1>1, <1>3 DEF Known, Completed

MarginInv ==
  /\ schedule \in Schedules
  /\ DOMAIN marginRows = Candidates
  /\ MarginLooksBack

LEMMA MarginKept ==
  ASSUME MarginInv, [ExpectedMargin]_<<schedule, marginVars>>
  PROVE  MarginInv'
<1>1. schedule' = schedule /\ eloBlocks' = eloBlocks /\ \A b : Known(b)' = Known(b)
  BY DEF ExpectedMargin, marginVars, eloBlocks, Known, eloGames
<1>2. CASE MarginBlock
  <2>1. PICK b, statuses : marginRows' = MarginRowsAfter(marginRows, b, statuses)
    BY <1>2 DEF MarginBlock
  <2>2. DOMAIN marginRows' = Candidates
    BY <2>1 DEF MarginRowsAfter
  <2>3. ASSUME NEW c \in Candidates, NEW g \in DOMAIN marginRows'[c]
        PROVE  marginRows'[c][g].fit \cup marginRows'[c][g].mapped \subseteq Known(schedule[g].block)
    <3> DEFINE mapped == IF statuses[c] = "warmup" THEN {} ELSE MappingRows(marginRows[c], b)
    <3>1. marginRows'[c] = [h \in DOMAIN marginRows[c] \cup GamesOf(schedule, b) |->
             IF h \in DOMAIN marginRows[c] THEN marginRows[c][h]
             ELSE MarginRow(h, FitOf(b), mapped, statuses[c])]
      BY <2>1 DEF MarginRowsAfter
    <3>2. CASE g \in DOMAIN marginRows[c]
      BY <2>3, <3>1, <3>2 DEF MarginInv, MarginLooksBack, BlockOf
    <3>3. CASE g \notin DOMAIN marginRows[c]
      <4>1. g \in GamesOf(schedule, b) /\ marginRows'[c][g] = MarginRow(g, FitOf(b), mapped, statuses[c])
        BY <2>3, <3>1, <3>3
      <4>2. schedule[g].block = b
        BY <4>1 DEF GamesOf
      <4>3. FitOf(b) \subseteq Known(b)
        BY DEF FitOf, PriorCompleted, Known
      <4>4. mapped \subseteq Known(b)
        BY DEF MappingRows, PriorCompleted, Known
      <4> HIDE DEF mapped
      <4>. QED  BY <4>1, <4>2, <4>3, <4>4 DEF MarginRow
    <3>. QED  BY <3>2, <3>3
  <2>. QED  BY <1>1, <2>2, <2>3 DEF MarginInv, MarginLooksBack, BlockOf
<1>3. CASE marginRows' = marginRows
  BY <1>1, <1>3 DEF MarginInv, MarginLooksBack, BlockOf
<1>. QED  BY <1>2, <1>3 DEF ExpectedMargin, MarginExtract, SelectCandidate, PublishMargin, marginVars

\* The blocks before one, in order; the last two of them validate what the others fit.
LEMMA PriorBlocksAre ==
  ASSUME schedule \in Schedules, NEW b \in Calendar
  PROVE  /\ Len(PriorBlocks(b)) \in Nat /\ DOMAIN PriorBlocks(b) = 1 .. Len(PriorBlocks(b))
         /\ \A i \in DOMAIN PriorBlocks(b) : PriorBlocks(b)[i] \in Walked(schedule) /\ Earlier(PriorBlocks(b)[i], b)
         /\ \A i, j \in DOMAIN PriorBlocks(b) : j < i => Earlier(PriorBlocks(b)[j], PriorBlocks(b)[i])
<1> DEFINE S == {c \in ToSet(eloBlocks) : Earlier(c, b)}
           B == PriorBlocks(b)
<1>1. \A c \in ToSet(eloBlocks) : c \in Walked(schedule)
  BY WalkIs DEF ToSet, eloBlocks
<1>2. S \in SUBSET Walked(schedule) /\ \A c \in S : Earlier(c, b)
  BY <1>1
<1>3. Canonically(S, B)
  BY Zenon DEF PriorBlocks, Sorted, Canonically
<1> HIDE DEF S, B
<1>4. IsFiniteSet(S) /\ S \subseteq Calendar
  BY <1>2, ScheduleIs, FS_Subset
<1>5. /\ Cardinality(S) \in Nat /\ Len(B) = Cardinality(S) /\ DOMAIN B = 1 .. Len(B)
      /\ \A i \in DOMAIN B : B[i] \in S
      /\ \A i, j \in DOMAIN B : j < i => Earlier(B[j], B[i])
  BY <1>3, <1>4, BlocksSorted
<1>. QED  BY <1>2, <1>5 DEF B

LEMMA SplitIs ==
  ASSUME schedule \in Schedules, NEW b \in Calendar, NEW split, split = Split(PriorBlocks(b))
  PROVE  /\ \A v \in Rows(split.validation) : /\ v \in DOMAIN schedule /\ Earlier(schedule[v].block, b)
                                              /\ schedule[v].block.season <= DevelopmentMax
         /\ \A f \in Rows(split.fit), v \in Rows(split.validation) : Earlier(schedule[f].block, schedule[v].block)
<1> DEFINE B == PriorBlocks(b)
<1>1. PICK n \in Nat : n = Len(B) /\ DOMAIN B = 1 .. n
  BY PriorBlocksAre
<1>2. /\ \A i \in 1 .. n : B[i] \in Walked(schedule) /\ Earlier(B[i], b)
      /\ \A i, j \in 1 .. n : j < i => Earlier(B[j], B[i])
  BY <1>1, PriorBlocksAre
<1>3. split = IF n < 2 THEN [fit |-> <<>>, validation |-> B]
              ELSE [fit |-> SubSeq(B, 1, n - 2), validation |-> SubSeq(B, n - 1, n)]
  BY <1>1 DEF Split
<1>4. \A w \in Walked(schedule) : w.season <= DevelopmentMax
  BY DEF Walked, Development
<1> HIDE DEF B
<1>5. \A i \in DOMAIN split.validation : \E m \in 1 .. n : /\ n < 2 \/ m \in {n - 1, n}
                                                         /\ split.validation[i] = B[m]
  <2>1. CASE n < 2
    BY <1>1, <1>3, <2>1
  <2>2. CASE ~(n < 2)
    <3>1. split.validation = SubSeq(B, n - 1, n)
      BY <1>3, <2>2
    <3>2. \A i \in (n - 1) .. n : B[i] \in Walked(schedule)
      <4>1. \A i \in (n - 1) .. n : i \in 1 .. n
        BY <2>2
      <4>. QED  BY <1>2, <4>1
    <3>3. Len(SubSeq(B, n - 1, n)) = 2 /\ SubSeq(B, n - 1, n) \in Seq(Walked(schedule))
          /\ \A i \in 1 .. 2 : SubSeq(B, n - 1, n)[i] = B[(n - 1) + i - 1]
      <4>1. PICK m \in Int : m = n - 1 /\ n - m + 1 = 2 /\ m <= n + 1
        OBVIOUS
      <4>2. \A i \in m .. n : B[i] \in Walked(schedule)
        BY <3>2, <4>1
      <4>3. /\ SubSeq(B, m, n) \in Seq(Walked(schedule))
            /\ Len(SubSeq(B, m, n)) = IF m <= n THEN n - m + 1 ELSE 0
            /\ \A i \in 1 .. n - m + 1 : SubSeq(B, m, n)[i] = B[m + i - 1]
        BY ONLY <4>2, m \in Int, n \in Nat, SubSeqProperties
      <4>. QED  BY <4>1, <4>3
    <3>4. DOMAIN SubSeq(B, n - 1, n) = 1 .. 2
      BY <3>3, LenProperties
    <3>5. ASSUME NEW i \in 1 .. 2
          PROVE  (n - 1) + i - 1 \in {n - 1, n} /\ (n - 1) + i - 1 \in 1 .. n
      BY <2>2
    <3> HIDE DEF Split
    <3>. QED  BY <3>1, <3>3, <3>4, <3>5
  <2>. QED  BY <2>1, <2>2
<1>6. \A i \in DOMAIN split.fit : n >= 2 /\ \E m \in 1 .. n - 2 : split.fit[i] = B[m]
  <2>1. CASE n < 2
    BY <1>3, <2>1
  <2>2. CASE ~(n < 2)
    <3>1. split.fit = SubSeq(B, 1, n - 2)
      BY <1>3, <2>2
    <3>2. \A i \in 1 .. n - 2 : B[i] \in Walked(schedule)
      BY <1>2, <2>2
    <3>3. Len(SubSeq(B, 1, n - 2)) = n - 2 /\ SubSeq(B, 1, n - 2) \in Seq(Walked(schedule))
          /\ \A i \in 1 .. n - 2 : SubSeq(B, 1, n - 2)[i] = B[i]
      BY <2>2, <3>2, SubSeqProperties
    <3>4. DOMAIN SubSeq(B, 1, n - 2) = 1 .. n - 2
      BY <3>3, LenProperties
    <3>. QED  BY <2>2, <3>1, <3>3, <3>4
  <2>. QED  BY <2>1, <2>2
<1>7. \A g, c : g \in GamesOf(schedule, c) <=> g \in DOMAIN schedule /\ schedule[g].block = c
  BY DEF GamesOf
<1>8. ASSUME NEW v \in Rows(split.validation)
      PROVE  \E m \in 1 .. n : (n < 2 \/ m \in {n - 1, n}) /\ v \in DOMAIN schedule /\ schedule[v].block = B[m]
  <2>1. PICK i \in DOMAIN split.validation : v \in GamesOf(schedule, split.validation[i])
    BY DEF Rows
  <2>. QED  BY <1>5, <1>7, <2>1
<1>9. ASSUME NEW f \in Rows(split.fit)
      PROVE  n >= 2 /\ \E m \in 1 .. n - 2 : schedule[f].block = B[m]
  <2>1. PICK i \in DOMAIN split.fit : f \in GamesOf(schedule, split.fit[i])
    BY DEF Rows
  <2>. QED  BY <1>6, <1>7, <2>1
<1>10. ASSUME NEW v \in Rows(split.validation)
       PROVE  /\ v \in DOMAIN schedule /\ Earlier(schedule[v].block, b)
              /\ schedule[v].block.season <= DevelopmentMax
  BY <1>2, <1>4, <1>8
<1>11. ASSUME NEW f \in Rows(split.fit), NEW v \in Rows(split.validation)
       PROVE  Earlier(schedule[f].block, schedule[v].block)
  <2>1. PICK m \in 1 .. n - 2 : n >= 2 /\ schedule[f].block = B[m]
    BY <1>9
  <2>2. PICK k \in 1 .. n : k \in {n - 1, n} /\ schedule[v].block = B[k]
    BY <1>8, <2>1
  <2>3. m \in 1 .. n /\ m < k
    BY <2>1, <2>2
  <2>. QED  BY <1>2, <2>1, <2>2, <2>3
<1>. QED  BY <1>10, <1>11

TreesInv == schedule \in Schedules /\ TreesLookBack

LEMMA TreesKept ==
  ASSUME TreesInv, [Trees]_<<schedule, treeVars>>
  PROVE  TreesInv'
<1>1. schedule' = schedule /\ eloBlocks' = eloBlocks /\ \A b : Known(b)' = Known(b)
  BY DEF Trees, treeVars, eloBlocks, Known, eloGames
<1>2. CASE TreeBlock
  <2>1. PICK b : treeRows' = [g \in DOMAIN treeRows \cup GamesOf(schedule, b) |->
                                IF g \in DOMAIN treeRows THEN treeRows[g]
                                ELSE TreeRow(g, Split(PriorBlocks(b)))]
    BY <1>2 DEF TreeBlock
  <2>2. ASSUME NEW g \in DOMAIN treeRows'
        PROVE  /\ treeRows'[g].validation \subseteq Known(schedule[g].block)
               /\ \A f \in treeRows'[g].fit, v \in treeRows'[g].validation :
                    Earlier(schedule[f].block, schedule[v].block)
    <3>1. CASE g \in DOMAIN treeRows
      <4>1. treeRows'[g] = treeRows[g]
        BY <2>1, <3>1
      <4>. QED  BY <3>1, <4>1 DEF TreesInv, TreesLookBack, BlockOf
    <3>2. CASE g \notin DOMAIN treeRows
      <4>1. PICK split : split = Split(PriorBlocks(b))
        OBVIOUS
      <4>2. g \in GamesOf(schedule, b) /\ treeRows'[g] = TreeRow(g, split)
        BY <2>1, <2>2, <3>2, <4>1
      <4>3. schedule[g].block = b /\ b \in Calendar
        BY <4>2, ScheduleIs DEF GamesOf, TreesInv
      <4>4. /\ treeRows'[g].fit \subseteq Rows(split.fit)
            /\ treeRows'[g].validation \subseteq Rows(split.validation)
            /\ \A v \in treeRows'[g].validation : schedule[v].result # Unplayed
        BY <4>2 DEF TreeRow, Binary
      <4>5. /\ \A v \in Rows(split.validation) : /\ v \in DOMAIN schedule /\ Earlier(schedule[v].block, b)
                                                 /\ schedule[v].block.season <= DevelopmentMax
            /\ \A f \in Rows(split.fit), v \in Rows(split.validation) : Earlier(schedule[f].block, schedule[v].block)
        BY <4>1, <4>3, SplitIs DEF TreesInv
      <4>. QED  BY <4>3, <4>4, <4>5, KnownIs
    <3>. QED  BY <3>1, <3>2
  <2>. QED  BY <1>1, <2>2 DEF TreesInv, TreesLookBack, BlockOf
<1>3. CASE treeRows' = treeRows
  BY <1>1, <1>3 DEF TreesInv, TreesLookBack, BlockOf
<1>. QED  BY <1>2, <1>3 DEF Trees, TreeVerify, treeVars

\* What is known before the next block is what was known and the results of this one.
LEMMA KnownGrows ==
  ASSUME schedule \in Schedules, NEW i \in DOMAIN eloBlocks, i + 1 \in DOMAIN eloBlocks
  PROVE  Known(eloBlocks[i + 1])
           = Known(eloBlocks[i]) \cup Completed(schedule, GamesOf(schedule, eloBlocks[i]))
<1> DEFINE B == eloBlocks
<1>1. PICK n \in Nat : n = Len(B) /\ DOMAIN B = 1 .. n
  BY WalkIs DEF eloBlocks
<1>2. /\ \A k \in 1 .. n : B[k] \in Walked(schedule) /\ B[k] \in Calendar
      /\ \A k, j \in 1 .. n : j < k => Earlier(B[j], B[k])
      /\ \A b \in Walked(schedule) : \E k \in 1 .. n : B[k] = b
  BY <1>1, WalkIs DEF eloBlocks
<1>3. i \in 1 .. n /\ i + 1 \in 1 .. n /\ i < i + 1
  BY <1>1
<1> HIDE DEF B
<1>4. ASSUME NEW k \in 1 .. n
      PROVE  Earlier(B[k], B[i + 1]) <=> Earlier(B[k], B[i]) \/ k = i
  <2>1. CASE k < i
    <3>1. k < i + 1
      BY <1>3, <2>1
    <3>. QED  BY <1>2, <1>3, <2>1, <3>1
  <2>2. CASE k = i
    BY <1>2, <1>3, <2>2
  <2>3. CASE k > i
    <3>1. k = i + 1 \/ i + 1 < k
      BY <1>3, <2>3
    <3>2. ~Earlier(B[k], B[i + 1])
      BY <1>2, <1>3, <3>1, EarlierOrders
    <3>3. ~Earlier(B[k], B[i])
      BY <1>2, <1>3, <2>3, EarlierOrders
    <3>. QED  BY <1>3, <2>3, <3>2, <3>3
  <2>. QED  BY <1>3, <2>1, <2>2, <2>3
<1>5. \A w \in Walked(schedule) : w.season <= DevelopmentMax
  BY DEF Walked, Development
<1>6. \A g \in DOMAIN schedule : schedule[g].block.season <= DevelopmentMax => schedule[g].block \in Walked(schedule)
  BY DEF Walked, Development
<1>7. \A g : g \in Completed(schedule, GamesOf(schedule, B[i])) <=>
                 g \in DOMAIN schedule /\ schedule[g].block = B[i] /\ schedule[g].result # Unplayed
  BY DEF Completed, GamesOf
<1>8. ASSUME NEW g
      PROVE  g \in Known(B[i + 1]) <=> g \in Known(B[i]) \/ g \in Completed(schedule, GamesOf(schedule, B[i]))
  <2>1. CASE g \in DOMAIN schedule /\ schedule[g].block.season <= DevelopmentMax
    <3>1. PICK k \in 1 .. n : B[k] = schedule[g].block
      BY <1>2, <1>6, <2>1
    <3>2. Earlier(schedule[g].block, B[i + 1]) <=> Earlier(schedule[g].block, B[i]) \/ k = i
      BY <1>4, <3>1
    <3>3. k = i <=> schedule[g].block = B[i]
      <4>1. k < i \/ k = i \/ i < k
        BY <1>3
      <4>. QED  BY <1>2, <1>3, <3>1, <4>1, EarlierOrders
    <3>. QED  BY <1>7, <2>1, <3>2, <3>3, KnownIs
  <2>2. CASE ~(g \in DOMAIN schedule /\ schedule[g].block.season <= DevelopmentMax)
    <3>1. g \notin Known(B[i + 1]) /\ g \notin Known(B[i])
      BY <2>2, KnownIs
    <3>2. g \notin Completed(schedule, GamesOf(schedule, B[i]))
      BY <1>2, <1>3, <1>5, <1>7, <2>2
    <3>. QED  BY <3>1, <3>2
  <2>. QED  BY <2>1, <2>2
<1>. QED  BY <1>8 DEF B

TotalsInv ==
  /\ TrainingInv
  /\ totalsStep = "features" => \A t \in DOMAIN teamPlays : teamPlays[t] \subseteq Known(eloBlocks[totalsNext])
  /\ TotalsLookBack

LEMMA TotalsKept ==
  ASSUME TotalsInv, [Totals]_<<schedule, totalsVars>>
  PROVE  TotalsInv'
<1>1. schedule' = schedule /\ eloBlocks' = eloBlocks /\ \A b : Known(b)' = Known(b)
  BY DEF Totals, totalsVars, eloBlocks, Known, eloGames
<1>2. TrainingInv'
  BY TrainingKept DEF TotalsInv
<1>3. CASE FeatureBlock
  <2>1. PICK b, G : b = eloBlocks[totalsNext] /\ G = GamesOf(schedule, b)
    OBVIOUS
  <2>2. /\ totalsStep = "features" /\ teamPlays' = Committed(G)
        /\ featureRows' = [g \in DOMAIN featureRows \cup G |-> IF g \in G THEN FeatureRow(g) ELSE featureRows[g]]
    BY <1>3, <2>1 DEF FeatureBlock
  <2>3. \A t : Entering(t) \subseteq Known(b)
    BY <2>1, <2>2 DEF Entering, TotalsInv
  <2>4. ASSUME NEW g \in DOMAIN featureRows'
        PROVE  featureRows'[g].sources \subseteq Known(schedule[g].block)
    <3>1. CASE g \in G
      <4>1. featureRows'[g] = FeatureRow(g) /\ schedule[g].block = b
        BY <2>1, <2>2, <3>1 DEF GamesOf
      <4>. QED  BY <2>3, <4>1 DEF FeatureRow
    <3>2. CASE g \notin G
      <4>1. g \in DOMAIN featureRows /\ featureRows'[g] = featureRows[g]
        BY <2>2, <2>4, <3>2
      <4>. QED  BY <4>1 DEF TotalsInv, TotalsLookBack, BlockOf
    <3>. QED  BY <3>1, <3>2
  <2>5. ASSUME totalsStep' = "features", NEW t \in DOMAIN teamPlays'
        PROVE  teamPlays'[t] \subseteq Known(eloBlocks[totalsNext'])
    <3>1. totalsNext' = totalsNext + 1 /\ totalsNext \in DOMAIN eloBlocks /\ totalsNext + 1 \in DOMAIN eloBlocks
      <4>1. totalsNext' = totalsNext + 1
        BY <1>3, <2>2, <2>5 DEF FeatureBlock
      <4>2. totalsNext' \in DOMAIN eloBlocks
        BY <1>1, <1>2, <2>5 DEF TrainingInv
      <4>. QED  BY <2>2, <4>1, <4>2 DEF TotalsInv, TrainingInv
    <3>2. Known(eloBlocks[totalsNext + 1]) = Known(b) \cup Completed(schedule, G)
      BY <2>1, <3>1, KnownGrows DEF TotalsInv, TrainingInv
    <3>3. teamPlays'[t] \subseteq Entering(t) \cup Completed(schedule, G)
      BY <2>2, <2>5 DEF Committed
    <3>. QED  BY <2>3, <3>1, <3>2, <3>3
  <2>. QED  BY <1>1, <1>2, <2>4, <2>5 DEF TotalsInv, TotalsLookBack, BlockOf
<1>4. CASE featureRows' = featureRows /\ (totalsStep' = "features" => UNCHANGED <<totalsStep, teamPlays, totalsNext>>)
  BY <1>1, <1>2, <1>4 DEF TotalsInv, TotalsLookBack, BlockOf
<1>. QED  BY <1>3, <1>4 DEF Totals, TotalsBlock, RankCandidates, totalsVars

-----------------------------------------------------------------------------
\* The pregame bundle.

\* What was over before the cutoff of a game, and no other game of its block, was of
\* an earlier block.
LEMMA EligibleIs ==
  ASSUME schedule \in Schedules, NEW g \in DOMAIN schedule, NEW G \in SUBSET DOMAIN schedule,
         NEW h \in Eligible(G, g)
  PROVE  /\ h \in G /\ DayOver(h, schedule[g].block) /\ Earlier(schedule[h].block, schedule[g].block)
         /\ schedule[h].block.season = schedule[g].block.season => schedule[h].block.week < schedule[g].block.week
<1> DEFINE b == schedule[g].block
           c == schedule[h].block
<1>1. h \in G /\ h \in DOMAIN schedule /\ EligibleAt(schedule, c) <= AsOf(schedule, b)
  BY DEF Eligible, SourceDay, Cutoff
<1>2. g \in GamesOf(schedule, b) /\ h \in GamesOf(schedule, c)
  BY <1>1 DEF GamesOf
<1>3. b \in Calendar /\ c \in Calendar /\ \A x \in DOMAIN schedule : schedule[x].day \in Nat
  BY <1>1, ScheduleIs
<1>4. PICK first \in GamesOf(schedule, b) : /\ \A x \in GamesOf(schedule, b) : schedule[first].day <= schedule[x].day
                                           /\ AsOf(schedule, b) = 2 * ((schedule[first].day - 1) \div 2)
  BY <1>2, AsOfIs
<1>5. EligibleAt(schedule, c) \in Int /\ schedule[h].day < EligibleAt(schedule, c)
  BY <1>2, EligibleAtIs
<1>6. first \in DOMAIN schedule /\ schedule[first].day \in Nat /\ schedule[first].block = b
  BY <1>3 DEF GamesOf
<1> HIDE DEF b, c
<1>7. AsOf(schedule, b) \in Int /\ AsOf(schedule, b) < schedule[first].day
  BY <1>4, <1>6
<1>8. schedule[h].day < AsOf(schedule, b)
  BY <1>1, <1>3, <1>5, <1>7
<1>9. b # c
  <2> SUFFICES ASSUME b = c PROVE FALSE
    OBVIOUS
  <2>1. schedule[first].day <= schedule[h].day
    BY <1>2, <1>4
  <2>. QED  BY <1>1, <1>3, <1>6, <1>7, <1>8, <2>1
<1>10. ~Earlier(b, c)
  <2> SUFFICES ASSUME Earlier(b, c) PROVE FALSE
    OBVIOUS
  <2>1. PICK e \in GamesOf(schedule, b) : schedule[e].day <= schedule[h].day
    BY <1>1, CalendarAssumption DEF b, c
  <2>2. schedule[first].day <= schedule[e].day /\ e \in DOMAIN schedule
    BY <1>4, <2>1 DEF GamesOf
  <2>. QED  BY <1>1, <1>3, <1>6, <1>7, <1>8, <2>1, <2>2
<1>11. Earlier(c, b)
  BY <1>3, <1>9, <1>10, EarlierOrders
<1>12. c.season = b.season => c.week < b.week
  BY <1>1, <1>11, CalendarAssumption DEF b, c
<1>. QED  BY <1>1, <1>8, <1>11, <1>12 DEF DayOver, b, c

\* The order of the rows by source.
SourceBefore(g, h) ==
  \/ SourceDay(g) < SourceDay(h)
  \/ SourceDay(g) = SourceDay(h)
       /\ \/ schedule[g].block.season < schedule[h].block.season
          \/ schedule[g].block.season = schedule[h].block.season /\ schedule[g].block.week < schedule[h].block.week
          \/ schedule[g].block.season = schedule[h].block.season /\ schedule[g].block.week = schedule[h].block.week
               /\ g < h

LEMMA SourceOrders ==
  ASSUME schedule \in Schedules
  PROVE  /\ \A g \in DOMAIN schedule : ~SourceBefore(g, g)
         /\ \A g, h, e \in DOMAIN schedule : SourceBefore(g, h) /\ SourceBefore(h, e) => SourceBefore(g, e)
         /\ \A g, h \in DOMAIN schedule : g = h \/ SourceBefore(g, h) \/ SourceBefore(h, g)
<1>1. PICK D : D = DOMAIN schedule
  OBVIOUS
<1>2. PICK d, s, w : /\ d = [g \in D |-> SourceDay(g)]
                     /\ s = [g \in D |-> schedule[g].block.season]
                     /\ w = [g \in D |-> schedule[g].block.week]
  OBVIOUS
<1>3. \A g \in D : d[g] \in Int /\ s[g] \in Nat /\ w[g] \in Nat /\ g \in Nat
  <2> TAKE g \in D
  <2>1. g \in Nat /\ schedule[g].block \in Calendar
    BY <1>1, ScheduleIs, CalendarAssumption
  <2>2. GamesOf(schedule, schedule[g].block) # {}
    BY <1>1 DEF GamesOf
  <2>3. SourceDay(g) \in Int
    BY <2>2, EligibleAtIs DEF SourceDay
  <2>. QED  BY <1>2, <2>1, <2>3 DEF Calendar
<1>4. ASSUME NEW g \in D, NEW h \in D
      PROVE  SourceBefore(g, h) <=>
        (d[g] < d[h] \/ (d[g] = d[h] /\ (s[g] < s[h] \/ (s[g] = s[h] /\ (w[g] < w[h] \/ (w[g] = w[h] /\ g < h))))))
  <2>1. d[g] = SourceDay(g) /\ s[g] = schedule[g].block.season /\ w[g] = schedule[g].block.week
    BY <1>2
  <2>2. d[h] = SourceDay(h) /\ s[h] = schedule[h].block.season /\ w[h] = schedule[h].block.week
    BY <1>2
  <2>. QED  BY <2>1, <2>2 DEF SourceBefore
<1>5. \A g \in D : ~SourceBefore(g, g)
  BY <1>3, <1>4
<1>6. ASSUME NEW g \in D, NEW h \in D, g # h
      PROVE  SourceBefore(g, h) \/ SourceBefore(h, g)
  <2>1. /\ d[g] \in Int /\ d[h] \in Int /\ s[g] \in Nat /\ s[h] \in Nat
        /\ w[g] \in Nat /\ w[h] \in Nat /\ g \in Nat /\ h \in Nat
    BY <1>3
  <2>2. \/ d[g] < d[h] \/ (d[g] = d[h] /\ (s[g] < s[h] \/ (s[g] = s[h] /\ (w[g] < w[h] \/ (w[g] = w[h] /\ g < h)))))
        \/ d[h] < d[g] \/ (d[h] = d[g] /\ (s[h] < s[g] \/ (s[h] = s[g] /\ (w[h] < w[g] \/ (w[h] = w[g] /\ h < g)))))
    BY ONLY <2>1, g # h
  <2>. QED  BY <1>4, <2>2
<1>7. ASSUME NEW g \in D, NEW h \in D, NEW e \in D, SourceBefore(g, h), SourceBefore(h, e)
      PROVE  SourceBefore(g, e)
  <2>1. /\ d[g] \in Int /\ d[h] \in Int /\ d[e] \in Int
        /\ s[g] \in Nat /\ s[h] \in Nat /\ s[e] \in Nat
        /\ w[g] \in Nat /\ w[h] \in Nat /\ w[e] \in Nat /\ g \in Nat /\ h \in Nat /\ e \in Nat
    BY <1>3
  <2>2. d[g] < d[h] \/ (d[g] = d[h] /\ (s[g] < s[h] \/ (s[g] = s[h] /\ (w[g] < w[h] \/ (w[g] = w[h] /\ g < h)))))
    BY <1>4, <1>7
  <2>3. d[h] < d[e] \/ (d[h] = d[e] /\ (s[h] < s[e] \/ (s[h] = s[e] /\ (w[h] < w[e] \/ (w[h] = w[e] /\ h < e)))))
    BY <1>4, <1>7
  <2>4. d[g] < d[e] \/ (d[g] = d[e] /\ (s[g] < s[e] \/ (s[g] = s[e] /\ (w[g] < w[e] \/ (w[g] = w[e] /\ g < e)))))
    BY ONLY <2>1, <2>2, <2>3
  <2>. QED  BY <1>4, <2>4
<1>. QED  BY <1>1, <1>5, <1>6, <1>7

LEMMA BySourceIs ==
  ASSUME schedule \in Schedules, NEW G \in SUBSET DOMAIN schedule
  PROVE  /\ Len(BySource(G)) \in Nat /\ DOMAIN BySource(G) = 1 .. Len(BySource(G)) /\ BySource(G) \in Seq(G)
         /\ \A i \in DOMAIN BySource(G) : BySource(G)[i] \in G
<1> DEFINE before(x) == {y \in G : SourceBefore(y, x)}
           B == BySource(G)
<1>1. PICK R : R = {p \in G \X G : SourceBefore(p[1], p[2])}
  OBVIOUS
<1>2. \A x, y \in G : <<x, y>> \in R <=> SourceBefore(x, y)
  BY <1>1
<1>3. \A x \in G : before(x) = Preceding(G, R, x)
  BY <1>2 DEF Preceding
<1>4. Orders(R, G)
  <2>1. \A x \in G : x \in DOMAIN schedule
    OBVIOUS
  <2>. QED  BY <1>2, <2>1, SourceOrders, Zenon DEF Orders
<1>5. B = [i \in 1 .. Cardinality(G) |-> CHOOSE x \in G : Cardinality(before(x)) = i - 1]
  BY Zenon DEF BySource, Sorted, SourceBefore
<1>6. IsFiniteSet(G)
  BY ScheduleIs, FS_Subset
<1> HIDE DEF before, B
<1>7. Places(G, R, B)
  <2>1. DOMAIN B = 1 .. Cardinality(G) /\ B = [i \in DOMAIN B |-> B[i]]
    BY <1>5
  <2>2. ASSUME NEW i \in DOMAIN B, NEW v \in G, Cardinality(Preceding(G, R, v)) = i - 1
        PROVE  B[i] \in G /\ Cardinality(Preceding(G, R, B[i])) = i - 1
    <3>1. Cardinality(before(v)) = i - 1
      BY <1>3, <2>2
    <3>2. B[i] = CHOOSE x \in G : Cardinality(before(x)) = i - 1
      BY <1>5, <2>1
    <3>3. B[i] \in G /\ Cardinality(before(B[i])) = i - 1
      BY <3>1, <3>2
    <3>. QED  BY <1>3, <3>3
  <2>. QED  BY <2>1, <2>2 DEF Places
<1>8. /\ Cardinality(G) \in Nat /\ Len(B) = Cardinality(G) /\ DOMAIN B = 1 .. Len(B) /\ B \in Seq(G)
      /\ \A i \in DOMAIN B : B[i] \in G
  BY <1>4, <1>6, <1>7, RankedIs
<1>. QED  BY <1>8 DEF B

\* The end of a sequence holds nothing else.
LEMMA LastOfIs ==
  ASSUME NEW S, NEW s \in Seq(S), NEW m \in Nat
  PROVE  LastOf(s, m) \in Seq(S)
<1>1. PICK n \in Nat : n = Len(s) /\ DOMAIN s = 1 .. n
  OBVIOUS
<1>2. PICK k \in Nat \ {0} : LastOf(s, m) = SubSeq(s, k, n)
  <2>1. LastOf(s, m) = SubSeq(s, (IF n > m THEN n - m ELSE 0) + 1, n)
    BY <1>1 DEF LastOf
  <2>2. (IF n > m THEN n - m ELSE 0) + 1 \in Nat \ {0}
    OBVIOUS
  <2>. QED  BY <2>1, <2>2
<1>3. \A i \in k .. n : i \in 1 .. n /\ s[i] \in S
  BY <1>1, <1>2
<1>. QED  BY <1>2, <1>3, SubSeqProperties

LEMMA MembersOf ==
  ASSUME NEW S, NEW s \in Seq(S)
  PROVE  ToSet(s) \subseteq S
<1>1. \A i \in DOMAIN s : s[i] \in S
  OBVIOUS
<1>. QED  BY <1>1 DEF ToSet

\* A team's row rests on other games of its history, all published by the cutoff.
LEMMA TeamRowIs ==
  ASSUME schedule \in Schedules, NEW g \in DOMAIN schedule, NEW t
  PROVE  /\ TeamRow(g, t).sources \subseteq Eligible(History(t), g)
         /\ TeamRow(g, t).season # {} => TeamRow(g, t).gap >= 1
<1> DEFINE E == Eligible(History(t), g)
           C == {h \in E : schedule[h].block.season = schedule[g].block.season}
           F == {h \in E : schedule[h].block.season < schedule[g].block.season}
           current == BySource(C)
           earlier == BySource(F)
           carryover == IF Len(current) < MinimumGames THEN LastOf(earlier, CarryoverGames) ELSE <<>>
           combined == carryover \o current
<1>1. History(t) \in SUBSET DOMAIN schedule
  BY DEF History, Completed
<1>2. E \in SUBSET DOMAIN schedule /\ C \in SUBSET E /\ F \in SUBSET E
  BY <1>1 DEF Eligible
<1>3. TeamRow(g, t).sources = ToSet(combined) /\ TeamRow(g, t).season = ToSet(current)
      /\ TeamRow(g, t).gap = IF current = <<>> THEN 0
                             ELSE schedule[g].block.week - schedule[current[Len(current)]].block.week
  BY DEF TeamRow
<1>4. /\ Len(current) \in Nat /\ DOMAIN current = 1 .. Len(current) /\ current \in Seq(C)
      /\ \A i \in DOMAIN current : current[i] \in C
  BY <1>2, BySourceIs
<1>5. earlier \in Seq(F)
  BY <1>2, BySourceIs
<1>6. \A h \in C : /\ schedule[h].block.season = schedule[g].block.season
                   /\ schedule[h].block.week < schedule[g].block.week
  BY <1>1, EligibleIs
<1> HIDE DEF E, C, F, current, earlier
<1>7. current \in Seq(E) /\ earlier \in Seq(E) /\ <<>> \in Seq(E)
  BY <1>2, <1>4, <1>5
<1>8. combined \in Seq(E)
  <2>1. carryover \in Seq(E)
    BY <1>7, LastOfIs, WindowAssumption
  <2>. QED  BY <1>7, <2>1
<1>9. ToSet(combined) \subseteq E
  BY <1>8, MembersOf
<1>10. ASSUME ToSet(current) # {}
       PROVE  TeamRow(g, t).gap >= 1
  <2>1. DOMAIN current # {}
    BY <1>10 DEF ToSet
  <2>2. Len(current) \in DOMAIN current /\ current # <<>>
    BY <1>4, <2>1
  <2>3. current[Len(current)] \in C /\ current[Len(current)] \in DOMAIN schedule
    BY <1>2, <1>4, <2>2
  <2>4. schedule[current[Len(current)]].block.week < schedule[g].block.week
    BY <1>6, <2>3
  <2>5. schedule[current[Len(current)]].block.week \in Nat /\ schedule[g].block.week \in Nat
    BY <2>3, ScheduleIs DEF Calendar
  <2>. QED  BY <1>3, <2>2, <2>4, <2>5
<1>. QED  BY <1>3, <1>9, <1>10 DEF E

\* Who leads the depth chart was named by it before the cutoff.
LEMMA ResolvedFrom ==
  ASSUME NEW e, NEW cutoff, NEW p \in ResolveSide(e, cutoff).players
  PROVE  p \in e.roster \/ \E r \in e.depth : r.player = p /\ r.day <= cutoff
<1>1. ASSUME NEW q \in Leaders(e, cutoff) PROVE \E r \in e.depth : r.player = q /\ r.day <= cutoff
  BY DEF Leaders, LatestRows
<1>2. PICK L : L = Leaders(e, cutoff)
  OBVIOUS
<1>3. ResolveSide(e, cutoff).players \in {L, e.roster, {}}
  <2>1. CASE L # {}
    BY <1>2, <2>1 DEF ResolveSide, Candidate
  <2>2. CASE L = {} /\ e.roster # {}
    BY <1>2, <2>2 DEF ResolveSide, Candidate
  <2>3. CASE L = {} /\ e.roster = {}
    BY <1>2, <2>3 DEF ResolveSide, Candidate
  <2>. QED  BY <2>1, <2>2, <2>3
<1>. QED  BY <1>1, <1>2, <1>3

LEMMA SideIs ==
  ASSUME schedule \in Schedules, EvidenceKnown, NEW side \in Sides,
         NEW row, row = SideRow(side[1], side[2])
  PROVE  /\ \A h \in row.team.sources \cup UNION Range(row.records) :
              DayOver(h, schedule[side[1]].block) /\ Earlier(schedule[h].block, schedule[side[1]].block)
         /\ row.team.season # {} => row.team.gap >= 1
         /\ \A p \in row.starter.players : KnownBefore(p, side)
<1>1. PICK g, t : g \in DOMAIN schedule /\ t \in {schedule[g].home, schedule[g].away} /\ side = <<g, t>>
  BY DEF Sides
<1>2. t \in TeamsOf(schedule, {g})
  BY <1>1 DEF TeamsOf
<1>3. /\ row.team = TeamRow(g, t)
      /\ row.starter = ResolveSide(evidence[side], Cutoff(g))
      /\ \A p \in DOMAIN row.records : row.records[p] = QbRow(g, p)
  BY <1>1, <1>2 DEF SideRow
<1>4. ASSUME NEW h \in row.team.sources \cup UNION Range(row.records)
      PROVE  \E G \in SUBSET DOMAIN schedule : h \in Eligible(G, g)
  <2>1. CASE h \in row.team.sources
    <3>1. h \in Eligible(History(t), g)
      BY <1>1, <1>3, <2>1, TeamRowIs
    <3>. QED  BY <3>1 DEF History, Completed
  <2>2. CASE h \in UNION Range(row.records)
    <3>1. PICK p \in DOMAIN row.records : h \in row.records[p]
      BY <2>2 DEF Range
    <3>2. h \in QbRow(g, p)
      BY <1>3, <3>1
    <3>3. PICK G : G = {s[1] : s \in {q \in Sides : p \in evidence[q].played}} /\ h \in Eligible(G, g)
      BY <3>2 DEF QbRow
    <3>4. \A s \in Sides : s[1] \in DOMAIN schedule
      BY DEF Sides
    <3>5. G \in SUBSET DOMAIN schedule
      BY <3>3, <3>4
    <3>. QED  BY <3>3, <3>5
  <2>. QED  BY <2>1, <2>2
<1>5. \A h \in row.team.sources \cup UNION Range(row.records) :
        DayOver(h, schedule[g].block) /\ Earlier(schedule[h].block, schedule[g].block)
  BY <1>1, <1>4, EligibleIs
<1>6. row.team.season # {} => row.team.gap >= 1
  BY <1>1, <1>3, TeamRowIs
<1>7. ASSUME NEW p \in row.starter.players PROVE KnownBefore(p, side)
  <2>1. p \in evidence[side].roster \/ \E r \in evidence[side].depth : r.player = p /\ r.day <= Cutoff(g)
    BY <1>3, <1>7, ResolvedFrom
  <2>2. g \in GamesOf(schedule, schedule[g].block) /\ \A x \in DOMAIN schedule : schedule[x].day \in Nat
    BY <1>1, ScheduleIs DEF GamesOf
  <2>3. PICK first \in GamesOf(schedule, schedule[g].block) :
          /\ \A x \in GamesOf(schedule, schedule[g].block) : schedule[first].day <= schedule[x].day
          /\ Cutoff(g) = 2 * ((schedule[first].day - 1) \div 2)
    BY <2>2, AsOfIs DEF Cutoff
  <2>4. schedule[first].day \in Nat /\ schedule[g].day \in Nat /\ schedule[first].day <= schedule[g].day
    BY <1>1, <2>2, <2>3 DEF GamesOf
  <2>5. Cutoff(g) \in Int /\ Cutoff(g) < schedule[g].day
    BY <2>3, <2>4
  <2>6. \A r \in evidence[side].depth : r.day \in Int
    BY DEF EvidenceKnown
  <2>7. \A r \in evidence[side].depth : r.day <= Cutoff(g) => r.day < schedule[g].day
    BY <2>4, <2>5, <2>6
  <2>. QED  BY <1>1, <2>1, <2>7 DEF KnownBefore
<1>. QED  BY <1>1, <1>5, <1>6, <1>7

BundleInv == schedule \in Schedules /\ EvidenceKnown /\ BundleLooksBack

LEMMA BundleKept ==
  ASSUME BundleInv, [Features]_<<schedule, evidence, featureVars>>
  PROVE  BundleInv'
<1>1. schedule' = schedule /\ evidence' = evidence
  BY DEF Features, BuildBundle, WriteBundle, featureVars
<1>2. CASE BuildBundle
  <2>1. DOMAIN bundle' = Sides /\ \A side \in Sides : bundle'[side] = SideRow(side[1], side[2])
    BY <1>2 DEF BuildBundle
  <2>2. ASSUME NEW side \in Sides, NEW row, row = bundle'[side]
        PROVE  /\ \A h \in row.team.sources \cup UNION Range(row.records) :
                    DayOver(h, schedule[side[1]].block) /\ Earlier(schedule[h].block, schedule[side[1]].block)
               /\ row.team.season # {} => row.team.gap >= 1
               /\ \A p \in row.starter.players : KnownBefore(p, side)
    BY <2>1, <2>2, SideIs DEF BundleInv
  <2>. QED  BY <1>1, <2>1, <2>2 DEF BundleInv, BundleLooksBack, EvidenceKnown, Sides, BlockOf, DayOver, KnownBefore
<1>3. CASE bundle' = bundle
  BY <1>1, <1>3 DEF BundleInv, BundleLooksBack, EvidenceKnown, Sides, BlockOf, DayOver, KnownBefore
<1>. QED  BY <1>2, <1>3 DEF Features, WriteBundle, featureVars

-----------------------------------------------------------------------------
\* The evaluator.

\* The blocks it walks, of which those of the development seasons come first.
LEMMA ReplayIs ==
  ASSUME schedule \in Schedules
  PROVE  \E n \in Nat, d \in Nat \ {0} :
           /\ n = Len(ReplayBlocks) /\ DOMAIN ReplayBlocks = 1 .. n
           /\ d = Len(DevelopmentBlocks) /\ d < n
           /\ \A i \in 1 .. n : ReplayBlocks[i] \in Evaluated(schedule)
           /\ \A i, j \in 1 .. n : j < i => Earlier(ReplayBlocks[j], ReplayBlocks[i])
           /\ \A i \in 1 .. d : ReplayBlocks[i] = DevelopmentBlocks[i]
<1> DEFINE S == Evaluated(schedule)
           T == {b \in S : ~Sealed(b)}
           R == ReplayBlocks
           D == DevelopmentBlocks
<1>1. IsFiniteSet(S) /\ S \subseteq Calendar
  <2> DEFINE G == {h \in DOMAIN schedule : schedule[h].block.season >= FirstEvaluated}
             f == [g \in G |-> schedule[g].block]
  <2>1. S = {f[g] : g \in G}
    BY DEF Evaluated
  <2>2. G \in SUBSET DOMAIN schedule
    OBVIOUS
  <2>3. IsFiniteSet(G)
    BY <2>2, ScheduleIs, FS_Subset
  <2>4. \A g \in G : f[g] \in Calendar
    BY <2>2, ScheduleIs
  <2> HIDE DEF f, G
  <2>. QED  BY <2>1, <2>3, <2>4, ImageIsFinite
<1>2. Canonically(S, R)
  BY Zenon DEF ReplayBlocks, Sorted, Canonically
<1>3. Canonically(T, D)
  BY Zenon DEF DevelopmentBlocks, Sorted, Canonically
<1>4. T \in SUBSET S /\ \A b \in S : b \in T <=> b.season <= DevelopmentMax
  <2>1. \A b \in S : b.season \in Nat
    BY <1>1 DEF Calendar
  <2>. QED  BY <2>1, CalendarAssumption DEF Sealed
<1>5. T # {} /\ T # S
  BY ReplayAssumption
<1> HIDE DEF S, T, R, D
<1>6. IsFiniteSet(T) /\ T \subseteq Calendar
  BY <1>1, <1>4, FS_Subset
<1>7. PICK n \in Nat : n = Cardinality(S) /\ n = Len(R) /\ DOMAIN R = 1 .. n
  BY <1>1, <1>2, BlocksSorted
<1>8. /\ \A i \in 1 .. n : R[i] \in S /\ Cardinality({y \in S : Earlier(y, R[i])}) = i - 1
      /\ \A i, j \in 1 .. n : j < i => Earlier(R[j], R[i])
      /\ \A x \in S : \E i \in 1 .. n : R[i] = x
  <2>1. \A i \in 1 .. n : R[i] \in S /\ Cardinality({y \in S : Earlier(y, R[i])}) = i - 1
    <3>1. \A i \in DOMAIN R : R[i] \in S /\ Cardinality({y \in S : Earlier(y, R[i])}) = i - 1
      BY <1>1, <1>2, BlocksSorted
    <3>. QED  BY <1>7, <3>1
  <2>2. \A i, j \in 1 .. n : j < i => Earlier(R[j], R[i])
    <3>1. \A i, j \in DOMAIN R : j < i => Earlier(R[j], R[i])
      BY <1>1, <1>2, BlocksSorted
    <3>. QED  BY <1>7, <3>1
  <2>3. \A x \in S : \E i \in 1 .. n : R[i] = x
    <3>1. \A x \in S : \E i \in DOMAIN R : R[i] = x
      BY <1>1, <1>2, BlocksSorted
    <3>. QED  BY <1>7, <3>1
  <2>. QED  BY <2>1, <2>2, <2>3
<1>9. PICK d \in Nat : d = Cardinality(T) /\ d = Len(D) /\ DOMAIN D = 1 .. d
  BY <1>3, <1>6, BlocksSorted
<1>10. \A i \in 1 .. d : D[i] \in T /\ Cardinality({y \in T : Earlier(y, D[i])}) = i - 1
  <2>1. \A i \in DOMAIN D : D[i] \in T /\ Cardinality({y \in T : Earlier(y, D[i])}) = i - 1
    BY <1>3, <1>6, BlocksSorted
  <2>. QED  BY <1>9, <2>1
<1>11. d < n /\ d # 0
  <2>1. d <= n /\ (n = d => S = T)
    BY <1>1, <1>4, <1>7, <1>9, FS_Subset
  <2>2. d # 0
    BY <1>5, <1>6, <1>9, FS_EmptySet
  <2>. QED  BY <1>5, <2>1, <2>2
<1>12. ASSUME NEW i \in 1 .. d PROVE R[i] = D[i]
  <2>1. D[i] \in T /\ D[i] \in S /\ D[i].season <= DevelopmentMax /\ D[i].season \in Nat
    BY <1>1, <1>4, <1>10 DEF Calendar
  <2>2. \A y \in S : Earlier(y, D[i]) => y \in T
    <3>1. \A y \in S : y.season \in Nat
      BY <1>1 DEF Calendar
    <3>2. \A y \in S : Earlier(y, D[i]) => y.season <= D[i].season
      BY <2>1, <3>1 DEF Earlier
    <3>. QED  BY <1>4, <2>1, <3>1, <3>2, CalendarAssumption
  <2>3. {y \in S : Earlier(y, D[i])} = {y \in T : Earlier(y, D[i])}
    BY <1>4, <2>2
  <2>4. PICK k \in 1 .. n : R[k] = D[i]
    BY <1>8, <2>1
  <2>5. Cardinality({y \in S : Earlier(y, D[i])}) = k - 1
    BY <1>8, <2>4
  <2>6. Cardinality({y \in T : Earlier(y, D[i])}) = i - 1
    BY <1>10
  <2>7. k - 1 = i - 1
    BY <2>3, <2>5, <2>6
  <2>8. k = i
    BY <2>7
  <2>. QED  BY <2>4, <2>8
<1>. QED  BY <1>7, <1>8, <1>9, <1>11, <1>12 DEF R, D, S

\* What is fitted, and put on the board, for a block.
LEMMA FitsAre ==
  ASSUME NEW P, NEW m \in Markets
  PROVE  FitStates(P)[m] \subseteq P
BY DEF FitStates, Fitted, Material

LEMMA RowIs ==
  ASSUME NEW g, NEW fits, NEW seen, \A o \in quotes[g].offered : o[1] \in Markets,
         NEW r \in BoardRows(g, fits, seen)
  PROVE  /\ r.game = g
         /\ \E m \in Markets : r.basis = fits[m] /\ r.learned = {h[1] : h \in seen[m]}
BY DEF BoardRows

ReplayInv ==
  /\ schedule \in Schedules
  /\ replayNext \in Nat \ {0}
  /\ replayStep \in {"read", "walk"} =>
       replayNext <= Len(DevelopmentBlocks) /\ Len(confidence) = replayNext - 1
  /\ replayStep = "freeze" => replayNext = Len(DevelopmentBlocks) + 1
  /\ replayStep = "holdout" => replayNext \in DOMAIN ReplayBlocks
  /\ replayStep # "read" => \A g \in DOMAIN schedule : schedule[g].block.season >= FirstEvaluated =>
       \A o \in quotes[g].offered : o[1] \in Markets
  /\ DOMAIN histories = Markets
  /\ \A m \in Markets : \A h \in histories[m] : \E i \in DOMAIN ReplayBlocks :
       i < replayNext /\ schedule[h[1]].block = ReplayBlocks[i]
  /\ confidence \in Seq([ml : SUBSET DOMAIN schedule, residuals : SUBSET DOMAIN schedule])
  /\ ReplayLooksBack

\* One block more: its rows look back, and so do the histories with them.
LEMMA WalkedLooksBack ==
  ASSUME ReplayInv, replayStep # "read", replayNext \in DOMAIN ReplayBlocks,
         BlockWalked(ReplayBlocks[replayNext])
  PROVE  /\ \A r \in board' : \A g \in r.basis \cup r.learned : Earlier(schedule[g].block, schedule[r.game].block)
         /\ DOMAIN histories' = Markets
         /\ \A m \in Markets : \A h \in histories'[m] : \E i \in DOMAIN ReplayBlocks :
              i < replayNext + 1 /\ schedule[h[1]].block = ReplayBlocks[i]
<1>1. PICK n \in Nat : /\ DOMAIN ReplayBlocks = 1 .. n
                       /\ \A i \in 1 .. n : ReplayBlocks[i] \in Evaluated(schedule)
                       /\ \A i, j \in 1 .. n : j < i => Earlier(ReplayBlocks[j], ReplayBlocks[i])
  BY ReplayIs DEF ReplayInv
<1> DEFINE b == ReplayBlocks[replayNext]
           prior == {g \in EvaluatedGames \cup SealedGames : Earlier(schedule[g].block, b)}
           fits == FitStates(prior)
           rows == UNION {BoardRows(g, fits, histories) : g \in GamesOf(schedule, b)}
<1>2. /\ board' = board \cup rows
      /\ histories' = HistoryAppend(histories, rows)
  BY DEF BlockWalked
<1>3. replayNext \in 1 .. n /\ b.season >= FirstEvaluated
  BY <1>1, <1>2 DEF Evaluated
<1> HIDE DEF rows
<1>4. ASSUME NEW r \in rows
      PROVE  /\ schedule[r.game].block = b
             /\ \A g \in r.basis \cup r.learned : Earlier(schedule[g].block, b)
  <2>1. PICK g \in GamesOf(schedule, b) : r \in BoardRows(g, fits, histories)
    BY DEF rows
  <2>2. g \in DOMAIN schedule /\ schedule[g].block = b
    BY <2>1 DEF GamesOf
  <2>3. \A o \in quotes[g].offered : o[1] \in Markets
    BY <1>3, <2>2 DEF ReplayInv
  <2> HIDE DEF fits
  <2>4. PICK m \in Markets : r.game = g /\ r.basis = fits[m] /\ r.learned = {h[1] : h \in histories[m]}
    BY <2>1, <2>3, RowIs
  <2>5. \A x \in r.basis : Earlier(schedule[x].block, b)
    <3>1. fits[m] \subseteq prior
      BY FitsAre DEF fits
    <3>. QED  BY <1>2, <2>4, <3>1
  <2>6. ASSUME NEW x \in r.learned PROVE Earlier(schedule[x].block, b)
    <3>1. PICK h \in histories[m] : x = h[1]
      BY <2>4
    <3>2. PICK i \in 1 .. n : i < replayNext /\ schedule[h[1]].block = ReplayBlocks[i]
      BY <1>1, <3>1 DEF ReplayInv
    <3>. QED  BY <1>1, <1>2, <1>3, <3>1, <3>2
  <2>. QED  BY <2>2, <2>4, <2>5, <2>6
<1>5. \A r \in board' : \A g \in r.basis \cup r.learned : Earlier(schedule[g].block, schedule[r.game].block)
  BY <1>2, <1>4 DEF ReplayInv, ReplayLooksBack, BlockOf
<1>6. DOMAIN histories' = Markets
  BY <1>2 DEF HistoryAppend
<1>7. ASSUME NEW m \in Markets, NEW h \in histories'[m]
      PROVE  \E i \in 1 .. n : i < replayNext + 1 /\ schedule[h[1]].block = ReplayBlocks[i]
  <2>1. h \in histories[m] \/ \E r \in rows : h[1] = r.game
    BY <1>2, <1>7 DEF HistoryAppend
  <2>2. CASE h \in histories[m]
    <3>1. PICK i \in 1 .. n : i < replayNext /\ schedule[h[1]].block = ReplayBlocks[i]
      BY <1>1, <2>2 DEF ReplayInv
    <3>. QED  BY <1>3, <3>1
  <2>3. CASE \E r \in rows : h[1] = r.game
    BY <1>2, <1>3, <1>4, <2>3
  <2>. QED  BY <2>1, <2>2, <2>3
<1>. QED  BY <1>1, <1>5, <1>6, <1>7

\* A confidence is calibrated on what is known before its block.
LEMMA ConfidenceIs ==
  ASSUME NEW b
  PROVE  /\ ConfidenceBefore(b) \in [ml : SUBSET DOMAIN schedule, residuals : SUBSET DOMAIN schedule]
         /\ ConfidenceBefore(b).ml \cup ConfidenceBefore(b).residuals \subseteq Known(b)
<1>1. MoneylineOutcomes(Prior(eloGames, b)) \subseteq Known(b) /\ MarginResiduals(Prior(eloGames, b)) \subseteq Known(b)
  BY DEF MoneylineOutcomes, MarginResiduals, Known
<1>2. \A g \in Known(b) : g \in DOMAIN schedule
  BY KnownIs
<1>. QED  BY <1>1, <1>2 DEF ConfidenceBefore

\* The walk of Elo, once written, has predicted every development game.
AllPredicted == eloPass = "written" => DOMAIN predictions = DOMAIN eloGames

LEMMA ReplayKept ==
  ASSUME ReplayInv, AllPredicted, [Replay]_<<schedule, replayVars>>
  PROVE  ReplayInv'
<1>1. schedule' = schedule
  BY DEF Replay, replayVars
<1>2. ReplayBlocks' = ReplayBlocks /\ DevelopmentBlocks' = DevelopmentBlocks /\ \A b : Known(b)' = Known(b)
  BY <1>1 DEF ReplayBlocks, DevelopmentBlocks, Known, eloGames
<1>3. PICK n \in Nat, d \in Nat \ {0} :
        /\ n = Len(ReplayBlocks) /\ DOMAIN ReplayBlocks = 1 .. n /\ d = Len(DevelopmentBlocks) /\ d < n
        /\ \A i \in 1 .. d : ReplayBlocks[i] = DevelopmentBlocks[i]
  BY ReplayIs DEF ReplayInv
<1> DEFINE Confidences == [ml : SUBSET DOMAIN schedule, residuals : SUBSET DOMAIN schedule]
<1>4. CASE ReadInputs
  <2>1. /\ replayStep' = "walk" /\ replayStep = "read" /\ eloPass = "written"
        /\ quotes' \in Quotes(EvaluatedGames \cup SealedGames)
        /\ UNCHANGED <<replayNext, board, histories, confidence>>
    BY <1>4 DEF ReadInputs
  <2>2. DOMAIN eloGames = {h \in DOMAIN schedule : schedule[h].block.season <= DevelopmentMax}
    BY DEF eloGames, Development
  <2>3. EvaluatedGames \cup SealedGames \in SUBSET DOMAIN schedule
    BY <2>1, <2>2 DEF AllPredicted, EvaluatedGames, SealedGames
  <2>4. ASSUME NEW g \in DOMAIN schedule, schedule[g].block.season >= FirstEvaluated
        PROVE  g \in EvaluatedGames \cup SealedGames
    <3>1. schedule[g].block.season \in Nat
      BY ScheduleIs DEF Calendar, ReplayInv
    <3>. QED  BY <2>1, <2>2, <2>4, <3>1, CalendarAssumption DEF AllPredicted, EvaluatedGames, SealedGames, Sealed
  <2>5. \A g \in EvaluatedGames \cup SealedGames : \A o \in quotes'[g].offered : o[1] \in Markets
    BY <2>1, <2>3, ReplayAssumption DEF ReplayInv
  <2>6. \A g \in DOMAIN schedule : schedule[g].block.season >= FirstEvaluated =>
          \A o \in quotes'[g].offered : o[1] \in Markets
    BY <2>4, <2>5
  <2>. QED  BY <1>1, <1>2, <2>1, <2>6 DEF ReplayInv, ReplayLooksBack, BlockOf
<1>5. CASE WalkBlock
  <2>1. /\ replayStep = "walk" /\ replayNext' = replayNext + 1 /\ quotes' = quotes
        /\ BlockWalked(DevelopmentBlocks[replayNext])
        /\ confidence' = Append(confidence, ConfidenceBefore(DevelopmentBlocks[replayNext]))
        /\ replayStep' = IF replayNext = d THEN "freeze" ELSE "walk"
    BY <1>3, <1>5 DEF WalkBlock
  <2>2. replayNext \in 1 .. d /\ replayNext \in 1 .. n /\ Len(confidence) = replayNext - 1
    BY <1>3, <2>1 DEF ReplayInv
  <2>3. PICK b : b = ReplayBlocks[replayNext] /\ b = DevelopmentBlocks[replayNext]
    BY <1>3, <2>2
  <2>4. /\ \A r \in board' : \A g \in r.basis \cup r.learned : Earlier(schedule[g].block, schedule[r.game].block)
        /\ DOMAIN histories' = Markets
        /\ \A m \in Markets : \A h \in histories'[m] : \E i \in DOMAIN ReplayBlocks :
             i < replayNext + 1 /\ schedule[h[1]].block = ReplayBlocks[i]
    BY <1>3, <2>1, <2>2, <2>3, WalkedLooksBack
  <2>5. PICK new : new = ConfidenceBefore(b)
    OBVIOUS
  <2>6. new \in Confidences /\ new.ml \cup new.residuals \subseteq Known(b)
    BY <2>5, ConfidenceIs
  <2>7. confidence \in Seq(Confidences) /\ confidence' = Append(confidence, new)
    BY <2>1, <2>3, <2>5 DEF ReplayInv
  <2> HIDE DEF Confidences
  <2>8. /\ confidence' \in Seq(Confidences) /\ Len(confidence') = replayNext
        /\ \A i \in 1 .. replayNext - 1 : confidence'[i] = confidence[i]
        /\ confidence'[replayNext] = new
    BY <2>2, <2>6, <2>7, AppendProperties
  <2>9. DOMAIN confidence' = 1 .. replayNext /\ DOMAIN confidence = 1 .. replayNext - 1
    BY <2>2, <2>7, <2>8, LenProperties
  <2>10. ASSUME NEW i \in DOMAIN confidence'
         PROVE  \A g \in confidence'[i].ml \cup confidence'[i].residuals : g \in Known(ReplayBlocks[i])
    <3>1. CASE i = replayNext
      BY <2>3, <2>6, <2>8, <3>1
    <3>2. CASE i # replayNext
      <4>1. i \in 1 .. replayNext - 1
        BY <2>2, <2>9, <3>2
      <4>. QED  BY <2>8, <2>9, <4>1 DEF ReplayInv, ReplayLooksBack
    <3>. QED  BY <3>1, <3>2
  <2>11. /\ replayNext' \in Nat \ {0} /\ replayStep' \notin {"read", "holdout"}
         /\ replayStep' = "walk" => replayNext' <= d /\ Len(confidence') = replayNext' - 1
         /\ replayStep' = "freeze" => replayNext' = d + 1
    BY <2>1, <2>2, <2>8
  <2>12. /\ replayStep' \in {"read", "walk"} =>
              replayNext' <= Len(DevelopmentBlocks') /\ Len(confidence') = replayNext' - 1
         /\ replayStep' = "freeze" => replayNext' = Len(DevelopmentBlocks') + 1
    BY <1>2, <1>3, <2>11
  <2>. QED  BY <1>1, <1>2, <2>1, <2>4, <2>8, <2>10, <2>11, <2>12 DEF ReplayInv, ReplayLooksBack, BlockOf, Confidences
<1>6. CASE HoldoutBlock
  <2>1. /\ replayStep = "holdout" /\ replayNext' = replayNext + 1 /\ quotes' = quotes
        /\ BlockWalked(ReplayBlocks[replayNext]) /\ confidence' = confidence
        /\ replayStep' = IF replayNext = n THEN "enter" ELSE "holdout"
    BY <1>3, <1>6 DEF HoldoutBlock
  <2>2. replayNext \in 1 .. n
    BY <1>3, <2>1 DEF ReplayInv
  <2>3. /\ \A r \in board' : \A g \in r.basis \cup r.learned : Earlier(schedule[g].block, schedule[r.game].block)
        /\ DOMAIN histories' = Markets
        /\ \A m \in Markets : \A h \in histories'[m] : \E i \in DOMAIN ReplayBlocks :
             i < replayNext + 1 /\ schedule[h[1]].block = ReplayBlocks[i]
    BY <1>3, <2>1, <2>2, WalkedLooksBack
  <2>4. /\ replayNext' \in Nat \ {0} /\ replayStep' \notin {"read", "walk", "freeze"}
        /\ replayStep' = "holdout" => replayNext' \in 1 .. n
    BY <2>1, <2>2
  <2>. QED  BY <1>1, <1>2, <1>3, <2>1, <2>3, <2>4 DEF ReplayInv, ReplayLooksBack, BlockOf
<1>7. CASE Freeze
  <2>1. /\ replayStep = "freeze" /\ replayStep' \in {"failed", "holdout"}
        /\ UNCHANGED <<replayNext, quotes, board, histories, confidence>>
    BY <1>7 DEF Freeze
  <2>2. replayNext \in 1 .. n
    BY <1>3, <2>1 DEF ReplayInv
  <2>3. replayNext \in DOMAIN ReplayBlocks'
    BY <1>2, <1>3, <2>2
  <2>. QED  BY <1>1, <1>2, <2>1, <2>3 DEF ReplayInv, ReplayLooksBack, BlockOf
<1>8. CASE Enter
  <2>1. /\ replayStep = "enter" /\ replayStep' = "entered"
        /\ UNCHANGED <<replayNext, quotes, board, histories, confidence>>
    BY <1>8 DEF Enter
  <2>. QED  BY <1>1, <1>2, <2>1 DEF ReplayInv, ReplayLooksBack, BlockOf
<1>9. CASE UNCHANGED replayVars
  BY <1>1, <1>2, <1>9 DEF replayVars, ReplayInv, ReplayLooksBack, BlockOf
<1>. QED  BY <1>4, <1>5, <1>6, <1>7, <1>8, <1>9 DEF Replay

-----------------------------------------------------------------------------
\* The Elo walk.

\* The games of a block in the order of their updates.
LEMMA InOrderIs ==
  ASSUME schedule \in Schedules, NEW G \in SUBSET DOMAIN schedule
  PROVE  /\ Len(InOrder(G)) \in Nat /\ DOMAIN InOrder(G) = 1 .. Len(InOrder(G))
         /\ \A i \in DOMAIN InOrder(G) : InOrder(G)[i] \in G
         /\ \A i, j \in DOMAIN InOrder(G) : j < i => InOrder(G)[j] # InOrder(G)[i]
         /\ \A g \in G : \E i \in DOMAIN InOrder(G) : InOrder(G)[i] = g
<1> DEFINE before(x) == {y \in G : y < x}
           B == InOrder(G)
<1>1. PICK R : R = {p \in G \X G : p[1] < p[2]}
  OBVIOUS
<1>2. \A x, y \in G : <<x, y>> \in R <=> x < y
  BY <1>1
<1>3. \A x \in G : before(x) = Preceding(G, R, x)
  BY <1>2 DEF Preceding
<1>4. \A x \in G : x \in Nat
  BY CalendarAssumption
<1>5. Orders(R, G)
  BY <1>2, <1>4 DEF Orders
<1>6. B = [i \in 1 .. Cardinality(G) |-> CHOOSE x \in G : Cardinality(before(x)) = i - 1]
  BY Zenon DEF InOrder, Sorted
<1>7. IsFiniteSet(G)
  BY ScheduleIs, FS_Subset
<1> HIDE DEF before, B
<1>8. Places(G, R, B)
  <2>1. DOMAIN B = 1 .. Cardinality(G) /\ B = [i \in DOMAIN B |-> B[i]]
    BY <1>6
  <2>2. ASSUME NEW i \in DOMAIN B, NEW v \in G, Cardinality(Preceding(G, R, v)) = i - 1
        PROVE  B[i] \in G /\ Cardinality(Preceding(G, R, B[i])) = i - 1
    <3>1. Cardinality(before(v)) = i - 1
      BY <1>3, <2>2
    <3>2. B[i] = CHOOSE x \in G : Cardinality(before(x)) = i - 1
      BY <1>6, <2>1
    <3>3. B[i] \in G /\ Cardinality(before(B[i])) = i - 1
      BY <3>1, <3>2
    <3>. QED  BY <1>3, <3>3
  <2>. QED  BY <2>1, <2>2 DEF Places
<1>9. /\ Cardinality(G) \in Nat /\ Len(B) = Cardinality(G) /\ DOMAIN B = 1 .. Len(B)
      /\ \A i \in DOMAIN B : B[i] \in G
      /\ \A i, j \in DOMAIN B : j < i => <<B[j], B[i]>> \in R
      /\ \A x \in G : \E i \in DOMAIN B : B[i] = x
  BY <1>5, <1>7, <1>8, RankedIs
<1>10. \A i, j \in DOMAIN B : j < i => B[j] # B[i]
  BY <1>5, <1>9 DEF Orders
<1>. QED  BY <1>9, <1>10 DEF B

\* A row of the state ledger.
UpdateRow == [game : DOMAIN schedule, homeBefore : Int, awayBefore : Int, homeAfter : Int, awayAfter : Int]

\* The ratings of the teams D resting on games of K, and the ledger.
Ratings(D, K) == [rating : [D -> Int], basis : [D -> SUBSET K], rows : Seq(UpdateRow)]

LEMMA AppliedIs ==
  ASSUME NEW D, NEW K \in SUBSET DOMAIN schedule, NEW st \in Ratings(D, K), NEW g \in K,
         schedule[g].home \in D, schedule[g].away \in D
  PROVE  /\ Applied(st, g) \in Ratings(D, K)
         /\ Len(Applied(st, g).rows) = Len(st.rows) + 1
         /\ Applied(st, g).rows[Len(st.rows) + 1].game = g
         /\ \A i \in 1 .. Len(st.rows) : Applied(st, g).rows[i] = st.rows[i]
<1>1. PICK h \in D, a \in D : h = schedule[g].home /\ a = schedule[g].away
  OBVIOUS
<1>2. PICK d : d = Delta(schedule[g], st.rating[h], st.rating[a])
  OBVIOUS
<1>3. d \in Int
  <2>1. \A x \in {1, 2}, y \in {1, 2}, z \in {0, 2, 4}, e \in {1, 2, 3} : 9 * x * y * (z - e) \in Int
    OBVIOUS
  <2>2. /\ KFactor(schedule[g].block.type) \in {1, 2} /\ Multiplier(schedule[g].result) \in {1, 2}
        /\ ActualHome(schedule[g].result) \in {0, 2, 4}
        /\ ExpectedHome(st.rating[h], st.rating[a]) \in {1, 2, 3}
    BY DEF KFactor, Multiplier, ActualHome, ExpectedHome
  <2>. QED  BY <1>2, <2>1, <2>2 DEF Delta, Unit
<1>4. /\ st.rating \in [D -> Int] /\ st.basis \in [D -> SUBSET K] /\ st.rows \in Seq(UpdateRow)
  BY DEF Ratings
<1>5. PICK row : row = [game |-> g, homeBefore |-> st.rating[h], awayBefore |-> st.rating[a],
                        homeAfter |-> st.rating[h] + d, awayAfter |-> st.rating[a] - d]
  OBVIOUS
<1>6. row \in UpdateRow /\ row.game = g
  BY <1>3, <1>4, <1>5 DEF UpdateRow
<1>7. PICK both : both = st.basis[h] \cup st.basis[a] \cup {g}
  OBVIOUS
<1>8. both \in SUBSET K
  BY <1>4, <1>7
<1>9. /\ Applied(st, g).rating = [st.rating EXCEPT ![h] = @ + d, ![a] = @ - d]
      /\ Applied(st, g).basis = [st.basis EXCEPT ![h] = both, ![a] = both]
      /\ Applied(st, g).rows = Append(st.rows, row)
      /\ Applied(st, g) = [rating |-> Applied(st, g).rating, basis |-> Applied(st, g).basis, rows |-> Applied(st, g).rows]
  BY <1>1, <1>2, <1>5, <1>7 DEF Applied
<1>10. Applied(st, g).rating \in [D -> Int]
  <2>1. PICK r \in [D -> Int] : r = st.rating
    BY <1>4
  <2>2. [r EXCEPT ![h] = @ + d, ![a] = @ - d] \in [D -> Int]
    BY <1>3
  <2>. QED  BY <1>9, <2>1, <2>2
<1>11. Applied(st, g).basis \in [D -> SUBSET K]
  BY <1>4, <1>8, <1>9
<1>12. /\ Applied(st, g).rows \in Seq(UpdateRow)
       /\ Len(Applied(st, g).rows) = Len(st.rows) + 1
       /\ Applied(st, g).rows[Len(st.rows) + 1] = row
       /\ \A i \in 1 .. Len(st.rows) : Applied(st, g).rows[i] = st.rows[i]
  BY <1>4, <1>6, <1>9, AppendProperties
<1>. QED  BY <1>6, <1>9, <1>10, <1>11, <1>12 DEF Ratings

\* The state after the games of some places of a sequence.
AppliedUpTo(base, seq, f, s) == IF s = {} THEN base ELSE Applied(f[s \ {Max(s)}], seq[Max(s)])

AllApplied(base, seq) == FoldLeft(Applied, base, seq)

LEMMA AppliedFolds ==
  ASSUME NEW base, NEW seq
  PROVE  AllApplied(base, seq)
           = (CHOOSE f : f = [s \in SUBSET DOMAIN seq |-> AppliedUpTo(base, seq, f, s)])[DOMAIN seq]
BY DEF AllApplied, FoldLeft, MapThenFoldSet, AppliedUpTo

\* Updating by a sequence of games of K adds a row for each, in order.
LEMMA UpdatesAre ==
  ASSUME NEW D, NEW K \in SUBSET DOMAIN schedule, NEW base \in Ratings(D, K),
         NEW seq, NEW n \in Nat, DOMAIN seq = 1 .. n,
         \A i \in 1 .. n : seq[i] \in K /\ schedule[seq[i]].home \in D /\ schedule[seq[i]].away \in D,
         NEW st, st = AllApplied(base, seq)
  PROVE  /\ st \in Ratings(D, K) /\ Len(st.rows) = Len(base.rows) + n
         /\ \A j \in 1 .. Len(base.rows) : st.rows[j] = base.rows[j]
         /\ \A j \in 1 .. n : st.rows[Len(base.rows) + j].game = seq[j]
<1>1. PICK A : A = Ratings(D, K)
  OBVIOUS
<1>2. PICK P : P = [x \in A \X (1 .. n) |-> Applied(x[1], seq[x[2]])]
  OBVIOUS
<1>3. \A a \in A, i \in 1 .. n : P[<<a, i>>] = Applied(a, seq[i]) /\ P[<<a, i>>] \in A
  <2> TAKE a \in A, i \in 1 .. n
  <2>1. P[<<a, i>>] = Applied(a, seq[i])
    BY <1>2
  <2>2. Applied(a, seq[i]) \in A
    BY <1>1, AppliedIs
  <2>. QED  BY <2>1, <2>2
<1>4. base \in A
  BY <1>1
<1>5. PICK f \in [SUBSET (1 .. n) -> A] : FoldOf(f, n, base, P)
  BY <1>3, <1>4, FoldsExist
<1>6. f = [s \in SUBSET (1 .. n) |-> AppliedUpTo(base, seq, f, s)]
  <2>1. ASSUME NEW s \in SUBSET (1 .. n) PROVE f[s] = AppliedUpTo(base, seq, f, s)
    <3>1. CASE s = {}
      BY <1>5, <3>1 DEF AppliedUpTo, FoldOf
    <3>2. CASE s # {}
      <4>1. Max(s) \in s
        BY <3>2, MaxIs
      <4>2. Max(s) \in 1 .. n /\ s \ {Max(s)} \in SUBSET (1 .. n)
        BY <4>1
      <4>3. f[s \ {Max(s)}] \in A
        BY <1>5, <4>2
      <4>4. f[s] = Applied(f[s \ {Max(s)}], seq[Max(s)])
        BY <1>3, <1>5, <3>2, <4>2, <4>3 DEF FoldOf
      <4>. QED  BY <3>2, <4>4 DEF AppliedUpTo
    <3>. QED  BY <3>1, <3>2
  <2>. QED  BY <1>5, <2>1
<1>7. PICK F : F = CHOOSE h : h = [s \in SUBSET (1 .. n) |-> AppliedUpTo(base, seq, h, s)]
  OBVIOUS
<1>8. F = [s \in SUBSET (1 .. n) |-> AppliedUpTo(base, seq, F, s)]
  BY <1>6, <1>7
<1>9. st = F[1 .. n]
  BY <1>7, AppliedFolds
<1>10. PICK m \in Nat : m = Len(base.rows)
  BY DEF Ratings
<1> DEFINE Good(i) == /\ F[1 .. i] \in A /\ Len(F[1 .. i].rows) = m + i
                      /\ \A j \in 1 .. m : F[1 .. i].rows[j] = base.rows[j]
                      /\ \A j \in 1 .. i : F[1 .. i].rows[m + j].game = seq[j]
           B == {i \in 0 .. n : ~Good(i)}
<1>11. Good(0)
  <2>1. 1 .. 0 = {} /\ {} \in SUBSET (1 .. n)
    OBVIOUS
  <2>2. F[{}] = base
    BY <1>8, <2>1 DEF AppliedUpTo
  <2>. QED  BY <1>4, <1>10, <2>1, <2>2
<1>12. ASSUME NEW i \in 1 .. n, Good(i - 1) PROVE Good(i)
  <2>1. 1 .. i \in SUBSET (1 .. n) /\ 1 .. i # {} /\ Max(1 .. i) = i /\ (1 .. i) \ {i} = 1 .. (i - 1)
    BY PlacesUpTo
  <2>2. F[1 .. i] = AppliedUpTo(base, seq, F, 1 .. i)
    BY <1>8, <2>1
  <2>3. PICK a : a = F[1 .. (i - 1)]
    OBVIOUS
  <2>4. PICK c : c = Applied(a, seq[i]) /\ c = F[1 .. i]
    BY <2>1, <2>2, <2>3 DEF AppliedUpTo
  <2>5. /\ a \in A /\ Len(a.rows) = m + (i - 1)
        /\ \A j \in 1 .. m : a.rows[j] = base.rows[j]
        /\ \A j \in 1 .. (i - 1) : a.rows[m + j].game = seq[j]
    BY <1>12, <2>3
  <2>6. /\ c \in A /\ Len(c.rows) = m + i
        /\ c.rows[m + i].game = seq[i]
        /\ \A j \in 1 .. m + (i - 1) : c.rows[j] = a.rows[j]
    <3>1. /\ Applied(a, seq[i]) \in Ratings(D, K)
          /\ Len(Applied(a, seq[i]).rows) = Len(a.rows) + 1
          /\ Applied(a, seq[i]).rows[Len(a.rows) + 1].game = seq[i]
          /\ \A j \in 1 .. Len(a.rows) : Applied(a, seq[i]).rows[j] = a.rows[j]
      <4>1. a \in Ratings(D, K) /\ seq[i] \in K /\ schedule[seq[i]].home \in D /\ schedule[seq[i]].away \in D
        BY <1>1, <2>5
      <4>. QED  BY ONLY <4>1, K \in SUBSET DOMAIN schedule, AppliedIs
    <3>2. m + (i - 1) + 1 = m + i
      OBVIOUS
    <3>. QED  BY <1>1, <2>4, <2>5, <3>1, <3>2
  <2>7. \A j \in 1 .. m : c.rows[j] = base.rows[j]
    <3>1. \A j \in 1 .. m : j \in 1 .. m + (i - 1)
      OBVIOUS
    <3>. QED  BY <2>5, <2>6, <3>1
  <2>8. \A j \in 1 .. i : c.rows[m + j].game = seq[j]
    <3>1. \A j \in 1 .. i : j = i \/ (j \in 1 .. (i - 1) /\ m + j \in 1 .. m + (i - 1))
      OBVIOUS
    <3>. QED  BY <2>5, <2>6, <3>1
  <2>. QED  BY <2>4, <2>6, <2>7, <2>8
<1> HIDE DEF Good
<1>13. B = {}
  <2> SUFFICES ASSUME B # {} PROVE FALSE
    OBVIOUS
  <2>1. B \subseteq Nat
    OBVIOUS
  <2>2. PICK i \in B : \A k \in B : i <= k
    BY <2>1, LeastElement
  <2>3. i # 0 /\ i \in 0 .. n
    BY <1>11
  <2>4. i \in 1 .. n /\ i - 1 \in 0 .. n /\ i - 1 \notin B
    BY <2>2, <2>3
  <2>. QED  BY <1>12, <2>4
<1>14. Good(n)
  BY <1>13
<1>. QED  BY <1>1, <1>9, <1>10, <1>14 DEF Good

\* The row of a game in the state ledger.
Updated(g) == \E i \in DOMAIN updates : updates[i].game = g

EloLedger ==
  /\ updates \in Seq(UpdateRow)
  /\ \A i, j \in DOMAIN updates : j < i => updates[j].game # updates[i].game
  /\ \A i \in DOMAIN updates : /\ schedule[updates[i].game].block.season <= DevelopmentMax
                              /\ schedule[updates[i].game].result # Unplayed

\* The block in hand is predicted and updated from what is known before it.
EloFrontier ==
  /\ rating \in [DOMAIN rating -> Int] /\ basis \in [DOMAIN rating -> SUBSET DOMAIN schedule]
  /\ eloPass \in {"predict", "update"} =>
       /\ \A g : g \in Known(eloBlocks[eloNext]) <=> Updated(g)
       /\ \A t \in DOMAIN basis : basis[t] \subseteq Known(eloBlocks[eloNext])
  /\ eloPass = "update" => TeamsOf(schedule, GamesOf(schedule, eloBlocks[eloNext])) \subseteq DOMAIN rating

EloRows ==
  \A g \in DOMAIN predictions :
    /\ g \in DOMAIN schedule /\ schedule[g].block.season <= DevelopmentMax
    /\ predictions[g].basis \subseteq Known(schedule[g].block)
    /\ predictions[g].exposure.completed = Cardinality(Known(schedule[g].block))
    /\ \A k \in Known(schedule[g].block) : Updated(k)

EloProgress ==
  \A i \in DOMAIN eloBlocks :
    \/ eloPass = "predict" /\ i < eloNext
    \/ eloPass = "update" /\ i <= eloNext
    \/ eloPass \in {"finish", "written"}
    => GamesOf(schedule, eloBlocks[i]) \subseteq DOMAIN predictions

EloInv ==
  /\ schedule \in Schedules /\ eloNext \in DOMAIN eloBlocks
  /\ EloLedger /\ EloFrontier /\ EloRows /\ EloProgress

LEMMA PredictKept ==
  ASSUME EloInv, PredictBlock
  PROVE  EloInv'
<1>1. /\ eloPass = "predict" /\ schedule' = schedule /\ eloNext' = eloNext /\ updates' = updates
      /\ eloBlocks' = eloBlocks /\ UpdateRow' = UpdateRow
  BY DEF PredictBlock, eloBlocks, UpdateRow
<1>2. (\A b : Known(b)' = Known(b)) /\ \A g : Updated(g)' <=> Updated(g)
  BY <1>1 DEF Known, eloGames, Updated
<1>3. EloLedger'
  BY <1>1 DEF EloInv, EloLedger
<1>4. CASE RepeatsTeam(eloBlocks[eloNext])
  <2>1. eloPass' = "failed" /\ UNCHANGED <<rating, basis, predictions>>
    BY <1>4 DEF PredictBlock
  <2>2. EloFrontier'
    BY <1>1, <2>1 DEF EloInv, EloFrontier
  <2>3. EloRows'
    BY <1>1, <1>2, <2>1 DEF EloInv, EloRows
  <2>4. EloProgress'
    BY <2>1 DEF EloProgress
  <2>. QED  BY <1>1, <1>3, <2>2, <2>3, <2>4 DEF EloInv
<1>5. CASE ~RepeatsTeam(eloBlocks[eloNext])
  <2>1. PICK b, G, frozen, rests :
          /\ b = eloBlocks[eloNext] /\ G = GamesOf(schedule, b) /\ frozen = BlockStart(b)
          /\ rests = Ensured(basis, DOMAIN frozen, {})
    OBVIOUS
  <2>2. /\ rating' = frozen /\ basis' = rests /\ eloPass' = "update"
        /\ predictions' = [g \in DOMAIN predictions \cup G |->
              IF g \in G THEN PredictionRow(g, frozen, rests, Exposure(b)) ELSE predictions[g]]
    BY <1>5, <2>1 DEF PredictBlock
  <2>3. /\ rating \in [DOMAIN rating -> Int] /\ basis \in [DOMAIN rating -> SUBSET DOMAIN schedule]
        /\ \A t \in DOMAIN basis : basis[t] \subseteq Known(b)
        /\ \A g : g \in Known(b) <=> Updated(g)
    BY <1>1, <2>1 DEF EloInv, EloFrontier
  <2>4. frozen \in [DOMAIN rating \cup TeamsOf(schedule, G) -> Int]
    <3>1. PICK c : /\ c = IF eloNext > 1 /\ b.season > Previous.season THEN Carried(rating) ELSE rating
                   /\ frozen = Ensured(c, TeamsOf(schedule, G), 0)
      BY <2>1 DEF BlockStart
    <3>2. Carried(rating) \in [DOMAIN rating -> Int]
      BY <2>3 DEF Carried
    <3>3. c \in [DOMAIN rating -> Int]
      BY <2>3, <3>1, <3>2
    <3>. QED  BY <3>1, <3>3 DEF Ensured
  <2>5. /\ DOMAIN rests = DOMAIN frozen /\ rests \in [DOMAIN frozen -> SUBSET DOMAIN schedule]
        /\ \A t \in DOMAIN rests : rests[t] \subseteq Known(b)
    BY <2>1, <2>3, <2>4 DEF Ensured
  <2>6. EloFrontier'
    BY <1>1, <1>2, <2>1, <2>2, <2>3, <2>4, <2>5 DEF EloFrontier
  <2>7. \A g \in G : /\ g \in DOMAIN schedule /\ schedule[g].block = b
                     /\ schedule[g].home \in DOMAIN rests /\ schedule[g].away \in DOMAIN rests
    BY <2>1, <2>4, <2>5 DEF GamesOf, TeamsOf
  <2>8. b.season <= DevelopmentMax
    <3>1. b \in Walked(schedule)
      BY <2>1, WalkIs DEF EloInv, eloBlocks
    <3>. QED  BY <3>1 DEF Walked, Development
  <2>9. ASSUME NEW g \in DOMAIN predictions'
        PROVE  /\ g \in DOMAIN schedule /\ schedule[g].block.season <= DevelopmentMax
               /\ predictions'[g].basis \subseteq Known(schedule[g].block)
               /\ predictions'[g].exposure.completed = Cardinality(Known(schedule[g].block))
               /\ \A k \in Known(schedule[g].block) : Updated(k)
    <3>1. CASE g \in G
      <4>1. predictions'[g] = PredictionRow(g, frozen, rests, Exposure(b))
        BY <2>2, <3>1
      <4>2. predictions'[g].basis = rests[schedule[g].home] \cup rests[schedule[g].away]
        BY <4>1 DEF PredictionRow
      <4>3. predictions'[g].exposure.completed = Cardinality(Known(b))
        BY <4>1 DEF PredictionRow, Exposure, Known
      <4>. QED  BY <2>3, <2>5, <2>7, <2>8, <3>1, <4>2, <4>3
    <3>2. CASE g \notin G
      <4>1. g \in DOMAIN predictions /\ predictions'[g] = predictions[g]
        BY <2>2, <2>9, <3>2
      <4>. QED  BY <4>1 DEF EloInv, EloRows
    <3>. QED  BY <3>1, <3>2
  <2>10. EloRows'
    BY <1>1, <1>2, <2>9 DEF EloRows
  <2>11. ASSUME NEW i \in DOMAIN eloBlocks, i <= eloNext
         PROVE  GamesOf(schedule, eloBlocks[i]) \subseteq DOMAIN predictions'
    <3>1. CASE i = eloNext
      BY <2>1, <2>2, <3>1
    <3>2. CASE i # eloNext
      <4>1. i < eloNext
        BY <2>11, <3>2, WalkIs DEF EloInv, eloBlocks
      <4>2. GamesOf(schedule, eloBlocks[i]) \subseteq DOMAIN predictions
        BY <1>1, <4>1 DEF EloInv, EloProgress
      <4>. QED  BY <2>2, <4>2
    <3>. QED  BY <3>1, <3>2
  <2>12. EloProgress'
    BY <1>1, <2>2, <2>11 DEF EloProgress
  <2>. QED  BY <1>1, <1>3, <2>6, <2>10, <2>12 DEF EloInv
<1>. QED  BY <1>4, <1>5

LEMMA UpdateKept ==
  ASSUME EloInv, UpdateBlock
  PROVE  EloInv'
<1>1. /\ eloPass = "update" /\ schedule' = schedule /\ predictions' = predictions
      /\ eloBlocks' = eloBlocks /\ UpdateRow' = UpdateRow
  BY DEF UpdateBlock, eloBlocks, UpdateRow
<1>2. \A b : Known(b)' = Known(b)
  BY <1>1 DEF Known, eloGames
<1>3. PICK b, G, K, D : /\ b = eloBlocks[eloNext] /\ G = Completed(schedule, GamesOf(schedule, b))
                       /\ K = Known(b) \cup G /\ D = DOMAIN rating
  OBVIOUS
<1>4. b \in Walked(schedule) /\ b \in Calendar /\ b.season <= DevelopmentMax
  <2>1. b \in Walked(schedule) /\ b \in Calendar
    BY <1>3, WalkIs DEF EloInv, eloBlocks
  <2>. QED  BY <2>1 DEF Walked, Development
<1>5. /\ rating \in [D -> Int] /\ basis \in [D -> SUBSET DOMAIN schedule]
      /\ \A g : g \in Known(b) <=> Updated(g)
      /\ \A t \in D : basis[t] \subseteq Known(b)
      /\ TeamsOf(schedule, GamesOf(schedule, b)) \subseteq D
  BY <1>1, <1>3 DEF EloInv, EloFrontier
<1>6. \A g \in G : /\ g \in DOMAIN schedule /\ schedule[g].block = b /\ schedule[g].result # Unplayed
                   /\ schedule[g].home \in D /\ schedule[g].away \in D
  BY <1>3, <1>5 DEF Completed, GamesOf, TeamsOf
<1>7. K \in SUBSET DOMAIN schedule /\ G \in SUBSET DOMAIN schedule
  BY <1>3, <1>6, KnownIs
<1>8. PICK seq, base, st : /\ seq = InOrder(G) /\ base = [rating |-> rating, basis |-> basis, rows |-> updates]
                           /\ st = AllApplied(base, seq)
  OBVIOUS
<1>9. rating' = st.rating /\ basis' = st.basis /\ updates' = st.rows
  BY <1>3, <1>8 DEF UpdateBlock, AllApplied
<1>10. \/ eloPass' = "finish" /\ eloNext' = eloNext
       \/ eloPass' = "predict" /\ eloNext' = eloNext + 1 /\ eloNext # Len(eloBlocks)
  BY DEF UpdateBlock
<1>11. PICK n \in Nat : /\ n = Len(seq) /\ DOMAIN seq = 1 .. n
                        /\ \A i \in 1 .. n : seq[i] \in G
                        /\ \A i, j \in 1 .. n : j < i => seq[j] # seq[i]
                        /\ \A g \in G : \E i \in 1 .. n : seq[i] = g
  BY <1>7, <1>8, InOrderIs DEF EloInv
<1>12. base \in Ratings(D, K)
  <2>1. basis \in [D -> SUBSET K]
    <3>1. \A t \in D : basis[t] \in SUBSET K
      BY <1>3, <1>5
    <3>. QED  BY <1>5, <3>1
  <2>. QED  BY <1>5, <1>8, <2>1 DEF Ratings, EloInv, EloLedger
<1>13. PICK m \in Nat : m = Len(updates) /\ DOMAIN updates = 1 .. m /\ base.rows = updates
  BY <1>8 DEF EloInv, EloLedger
<1>14. /\ st \in Ratings(D, K) /\ Len(st.rows) = m + n
       /\ \A j \in 1 .. m : st.rows[j] = updates[j]
       /\ \A j \in 1 .. n : st.rows[m + j].game = seq[j]
  <2>1. \A i \in 1 .. n : seq[i] \in K /\ schedule[seq[i]].home \in D /\ schedule[seq[i]].away \in D
    BY <1>3, <1>6, <1>11
  <2>2. /\ st \in Ratings(D, K) /\ Len(st.rows) = Len(base.rows) + n
        /\ \A j \in 1 .. Len(base.rows) : st.rows[j] = base.rows[j]
        /\ \A j \in 1 .. n : st.rows[Len(base.rows) + j].game = seq[j]
    <3>1. K \in SUBSET DOMAIN schedule /\ DOMAIN seq = 1 .. n /\ st = AllApplied(base, seq)
      BY <1>7, <1>8, <1>11
    <3>. QED  BY ONLY <1>12, <2>1, <3>1, n \in Nat, UpdatesAre
  <2>. QED  BY <1>13, <2>2
<1>15. /\ rating' \in [D -> Int] /\ basis' \in [D -> SUBSET K] /\ basis' \in [D -> SUBSET DOMAIN schedule]
       /\ updates' \in Seq(UpdateRow) /\ Len(updates') = m + n /\ DOMAIN updates' = 1 .. m + n
  <2>1. rating' \in [D -> Int] /\ basis' \in [D -> SUBSET K] /\ updates' \in Seq(UpdateRow)
    BY <1>9, <1>14 DEF Ratings
  <2>2. Len(updates') = m + n
    BY <1>9, <1>14
  <2>3. basis' \in [D -> SUBSET DOMAIN schedule]
    BY <1>7, <2>1
  <2>. QED  BY <2>1, <2>2, <2>3, LenProperties
<1>16. ASSUME NEW i \in 1 .. m + n
       PROVE  \/ i \in 1 .. m /\ updates'[i] = updates[i] /\ updates[i].game \in Known(b)
              \/ i - m \in 1 .. n /\ updates'[i].game = seq[i - m] /\ seq[i - m] \in G
  <2>1. CASE i <= m
    <3>1. i \in 1 .. m
      BY <2>1
    <3>2. updates[i].game \in Known(b)
      BY <1>5, <1>13, <3>1 DEF Updated
    <3>. QED  BY <1>9, <1>14, <3>1, <3>2
  <2>2. CASE ~(i <= m)
    <3>1. i - m \in 1 .. n /\ m + (i - m) = i
      BY <2>2
    <3>. QED  BY <1>9, <1>11, <1>14, <3>1
  <2>. QED  BY <2>1, <2>2
<1>17. \A g : g \in K <=> \E i \in 1 .. m + n : updates'[i].game = g
  <2>1. ASSUME NEW i \in 1 .. m + n PROVE updates'[i].game \in K
    BY <1>3, <1>16
  <2>2. ASSUME NEW g \in Known(b) PROVE \E i \in 1 .. m + n : updates'[i].game = g
    <3>1. PICK i \in 1 .. m : updates[i].game = g
      BY <1>5, <1>13 DEF Updated
    <3>2. i \in 1 .. m + n
      OBVIOUS
    <3>. QED  BY <1>9, <1>14, <3>1, <3>2
  <2>3. ASSUME NEW g \in G PROVE \E i \in 1 .. m + n : updates'[i].game = g
    <3>1. PICK i \in 1 .. n : seq[i] = g
      BY <1>11
    <3>2. m + i \in 1 .. m + n
      OBVIOUS
    <3>. QED  BY <1>9, <1>14, <3>1, <3>2
  <2>. QED  BY <1>3, <2>1, <2>2, <2>3
<1>18. \A g : Updated(g)' <=> g \in K
  BY <1>15, <1>17 DEF Updated
<1>19. EloLedger'
  <2>1. ASSUME NEW i \in 1 .. m + n, NEW j \in 1 .. m + n, j < i
        PROVE  updates'[j].game # updates'[i].game
    <3>1. CASE i <= m
      <4>1. i \in 1 .. m /\ j \in 1 .. m
        BY <2>1, <3>1
      <4>2. updates[j].game # updates[i].game
        BY <1>13, <2>1, <4>1 DEF EloInv, EloLedger
      <4>3. updates'[i] = updates[i] /\ updates'[j] = updates[j]
        BY <1>9, <1>14, <4>1
      <4>. QED  BY <4>2, <4>3
    <3>2. CASE ~(i <= m) /\ j <= m
      <4>1. updates'[i].game \in G /\ updates'[j].game \in Known(b)
        BY <1>16, <3>2
      <4>. QED  BY <1>4, <1>6, <4>1, KnownIs, EarlierOrders
    <3>3. CASE ~(i <= m) /\ ~(j <= m)
      <4>1. i - m \in 1 .. n /\ j - m \in 1 .. n /\ j - m < i - m
        BY <2>1, <3>3
      <4>2. updates'[i].game = seq[i - m] /\ updates'[j].game = seq[j - m]
        BY <1>16, <3>3
      <4>. QED  BY <1>11, <4>1, <4>2
    <3>. QED  BY <3>1, <3>2, <3>3
  <2>2. \A g \in K : schedule[g].block.season <= DevelopmentMax /\ schedule[g].result # Unplayed
    BY <1>3, <1>4, <1>6, KnownIs
  <2>3. \A i \in 1 .. m + n : /\ schedule[updates'[i].game].block.season <= DevelopmentMax
                              /\ schedule[updates'[i].game].result # Unplayed
    BY <1>17, <2>2
  <2>. QED  BY <1>1, <1>15, <2>1, <2>3 DEF EloLedger
<1>20. EloRows'
  <2>1. \A g : Updated(g) => Updated(g)'
    BY <1>3, <1>5, <1>18
  <2>. QED  BY <1>1, <1>2, <2>1 DEF EloInv, EloRows
<1>21. PICK len \in Nat : len = Len(eloBlocks) /\ DOMAIN eloBlocks = 1 .. len /\ eloNext \in 1 .. len
  BY WalkIs DEF EloInv, eloBlocks
<1>22. CASE eloPass' = "finish" /\ eloNext' = eloNext
  <2>1. EloFrontier'
    BY <1>1, <1>15, <1>22 DEF EloFrontier
  <2>2. eloNext = len
    BY <1>10, <1>21, <1>22 DEF UpdateBlock
  <2>3. \A i \in 1 .. len : GamesOf(schedule, eloBlocks[i]) \subseteq DOMAIN predictions
    BY <1>1, <1>21, <2>2 DEF EloInv, EloProgress
  <2>4. EloProgress'
    BY <1>1, <1>21, <2>3 DEF EloProgress
  <2>. QED  BY <1>1, <1>19, <1>20, <1>22, <2>1, <2>4 DEF EloInv
<1>23. CASE eloPass' = "predict" /\ eloNext' = eloNext + 1 /\ eloNext # Len(eloBlocks)
  <2>1. eloNext + 1 \in 1 .. len
    BY <1>21, <1>23
  <2>2. Known(eloBlocks[eloNext + 1]) = K
    BY <1>3, <1>21, <2>1, KnownGrows DEF EloInv
  <2>3. EloFrontier'
    BY <1>1, <1>2, <1>15, <1>18, <1>23, <2>2 DEF EloFrontier
  <2>4. ASSUME NEW i \in 1 .. len, i < eloNext + 1
        PROVE  GamesOf(schedule, eloBlocks[i]) \subseteq DOMAIN predictions
    <3>1. i <= eloNext
      BY <1>21, <2>4
    <3>. QED  BY <1>1, <1>21, <3>1 DEF EloInv, EloProgress
  <2>5. EloProgress'
    BY <1>1, <1>21, <1>23, <2>4 DEF EloProgress
  <2>. QED  BY <1>1, <1>19, <1>20, <1>21, <1>23, <2>1, <2>3, <2>5 DEF EloInv
<1>. QED  BY <1>10, <1>22, <1>23

LEMMA EloKept ==
  ASSUME EloInv, [EloNext]_<<schedule, eloVars>>
  PROVE  EloInv'
<1>1. CASE FinishElo
  <2>1. /\ eloPass = "finish" /\ eloPass' \in {"written", "failed"}
        /\ UNCHANGED <<schedule, eloNext, rating, basis, predictions, updates>>
    BY <1>1 DEF FinishElo
  <2>2. eloBlocks' = eloBlocks /\ UpdateRow' = UpdateRow /\ \A b : Known(b)' = Known(b)
    BY <2>1 DEF eloBlocks, UpdateRow, Known, eloGames
  <2>3. EloLedger' /\ EloRows'
    BY <2>1, <2>2 DEF EloInv, EloLedger, EloRows, Updated
  <2>4. EloFrontier'
    BY <2>1 DEF EloInv, EloFrontier
  <2>5. EloProgress'
    BY <2>1, <2>2 DEF EloInv, EloProgress
  <2>. QED  BY <2>1, <2>2, <2>3, <2>4, <2>5 DEF EloInv
<1>2. CASE UNCHANGED <<schedule, eloVars>>
  <2>1. UNCHANGED <<schedule, eloNext, eloPass, rating, basis, predictions, updates>>
    BY <1>2 DEF eloVars
  <2>2. eloBlocks' = eloBlocks /\ UpdateRow' = UpdateRow /\ \A b : Known(b)' = Known(b)
    BY <2>1 DEF eloBlocks, UpdateRow, Known, eloGames
  <2>3. EloLedger' /\ EloRows'
    BY <2>1, <2>2 DEF EloInv, EloLedger, EloRows, Updated
  <2>4. EloFrontier'
    BY <2>1, <2>2 DEF EloInv, EloFrontier, Updated
  <2>5. EloProgress'
    BY <2>1, <2>2 DEF EloInv, EloProgress
  <2>. QED  BY <2>1, <2>2, <2>3, <2>4, <2>5 DEF EloInv
<1>. QED  BY <1>1, <1>2, PredictKept, UpdateKept DEF EloNext

\* The games an exposure counts are those whose results were applied.
LEMMA EloKnows == EloInv => EloLooksBack /\ AllPredicted
<1> SUFFICES ASSUME EloInv PROVE EloLooksBack /\ AllPredicted
  OBVIOUS
<1>1. PICK m \in Nat : DOMAIN updates = 1 .. m /\ \A i \in 1 .. m : updates[i].game \in DOMAIN schedule
  <2>1. updates \in Seq(UpdateRow) /\ \A row \in UpdateRow : row.game \in DOMAIN schedule
    BY DEF EloInv, EloLedger, UpdateRow
  <2>. QED  BY <2>1
<1>2. ASSUME NEW g \in DOMAIN predictions
      PROVE  /\ predictions[g].basis \subseteq Known(schedule[g].block)
             /\ predictions[g].exposure.completed
                  = Cardinality({i \in DOMAIN updates : Earlier(schedule[updates[i].game].block, schedule[g].block)})
  <2> DEFINE I == {i \in DOMAIN updates : Earlier(schedule[updates[i].game].block, schedule[g].block)}
             K == Known(schedule[g].block)
  <2>1. PICK f : f = [i \in I |-> updates[i].game]
    OBVIOUS
  <2>2. \A i \in I : f[i] \in K
    <3> TAKE i \in I
    <3>1. f[i] = updates[i].game /\ i \in 1 .. m /\ Earlier(schedule[updates[i].game].block, schedule[g].block)
      BY <1>1, <2>1
    <3>. QED  BY <1>1, <3>1, KnownIs DEF EloInv, EloLedger
  <2>3. \A i, j \in I : f[i] = f[j] => i = j
    <3> SUFFICES ASSUME NEW i \in I, NEW j \in I, i # j PROVE f[i] # f[j]
      OBVIOUS
    <3>1. i \in 1 .. m /\ j \in 1 .. m /\ (i < j \/ j < i)
      BY <1>1
    <3>. QED  BY <1>1, <2>1, <3>1 DEF EloInv, EloLedger
  <2>4. \A k \in K : \E i \in I : f[i] = k
    <3> TAKE k \in K
    <3>1. PICK i \in DOMAIN updates : updates[i].game = k
      BY <1>2 DEF EloInv, EloRows, Updated
    <3>2. Earlier(schedule[k].block, schedule[g].block)
      BY KnownIs
    <3>3. i \in I
      BY <3>1, <3>2
    <3>. QED  BY <2>1, <3>1, <3>3
  <2>5. IsFiniteSet(I)
    <3>1. IsFiniteSet(1 .. m)
      BY FS_Interval
    <3>2. I \in SUBSET (1 .. m)
      BY <1>1
    <3>. QED  BY <3>1, <3>2, FS_Subset
  <2> HIDE DEF I, K
  <2>6. f \in Bijection(I, K)
    <3>1. f \in [I -> K]
      BY <2>1, <2>2
    <3>. QED  BY <2>3, <2>4, <3>1 DEF Bijection, Injection, Surjection, IsInjective
  <2>7. Cardinality(K) = Cardinality(I)
    BY <2>5, <2>6, FS_Bijection DEF ExistsBijection
  <2>. QED  BY <1>2, <2>7 DEF EloInv, EloRows, I, K
<1>3. ASSUME eloPass = "written" PROVE DOMAIN predictions = DOMAIN eloGames
  <2>1. DOMAIN eloGames = {h \in DOMAIN schedule : schedule[h].block.season <= DevelopmentMax}
    BY DEF eloGames, Development
  <2>2. DOMAIN predictions \subseteq DOMAIN eloGames
    BY <2>1 DEF EloInv, EloRows
  <2>3. ASSUME NEW h \in DOMAIN eloGames PROVE h \in DOMAIN predictions
    <3>1. schedule[h].block \in Walked(schedule) /\ h \in GamesOf(schedule, schedule[h].block)
      BY <2>1, <2>3 DEF Walked, Development, GamesOf
    <3>2. PICK i \in DOMAIN eloBlocks : eloBlocks[i] = schedule[h].block
      BY <3>1, WalkIs DEF EloInv, eloBlocks
    <3>. QED  BY <1>3, <3>1, <3>2 DEF EloInv, EloProgress
  <2>. QED  BY <2>2, <2>3
<1>. QED  BY <1>2, <1>3 DEF EloLooksBack, AllPredicted, BlockOf

-----------------------------------------------------------------------------
\* The programs together.
BacktestInv ==
  EloInv /\ MarginInv /\ TreesInv /\ TotalsInv /\ BundleInv /\ ReplayInv

LEMMA BacktestInitially == ResearchInit => BacktestInv
<1> SUFFICES ASSUME ResearchInit PROVE BacktestInv
  OBVIOUS
<1>1. schedule \in Schedules /\ EvidenceKnown
  BY DEF ResearchInit
<1>2. PICK n \in Nat : /\ n = Len(eloBlocks) /\ n >= 1 /\ DOMAIN eloBlocks = 1 .. n
                       /\ \A i \in 1 .. n : eloBlocks[i] \in Calendar
                       /\ \A i, j \in 1 .. n : j < i => Earlier(eloBlocks[j], eloBlocks[i])
                       /\ \A b \in Walked(schedule) : \E i \in 1 .. n : eloBlocks[i] = b
  BY <1>1, WalkIs DEF eloBlocks
<1>3. Known(eloBlocks[1]) = {}
  <2> SUFFICES ASSUME NEW g \in Known(eloBlocks[1]) PROVE FALSE
    OBVIOUS
  <2>1. schedule[g].block \in Walked(schedule) /\ Earlier(schedule[g].block, eloBlocks[1])
    BY KnownIs DEF Walked, Development
  <2>2. PICK i \in 1 .. n : eloBlocks[i] = schedule[g].block
    BY <1>2, <2>1
  <2>3. i = 1 \/ 1 < i
    OBVIOUS
  <2>. QED  BY <1>2, <2>1, <2>2, <2>3, EarlierOrders
<1>4. EloInv
  <2>1. /\ eloNext = 1 /\ eloPass = "predict" /\ predictions = <<>> /\ updates = <<>>
        /\ rating = [t \in TeamsOf(eloGames, DOMAIN eloGames) |-> 0]
        /\ basis = [t \in TeamsOf(eloGames, DOMAIN eloGames) |-> {}]
    BY <1>2 DEF ResearchInit, EloInit
  <2>2. EloLedger
    BY <2>1 DEF EloLedger
  <2>3. EloFrontier
    BY <1>3, <2>1 DEF EloFrontier, Updated
  <2>4. EloRows
    BY <2>1 DEF EloRows
  <2>5. EloProgress
    BY <1>2, <2>1 DEF EloProgress
  <2>. QED  BY <1>1, <1>2, <2>1, <2>2, <2>3, <2>4, <2>5 DEF EloInv
<1>5. MarginInv /\ TreesInv
  <2>1. marginRows = [c \in Candidates |-> <<>>] /\ treeRows = <<>>
    BY DEF ResearchInit, ChallengerInit
  <2>2. DOMAIN marginRows = Candidates /\ \A c \in Candidates : DOMAIN marginRows[c] = {}
    BY <2>1
  <2>3. DOMAIN treeRows = {}
    BY <2>1
  <2>4. MarginInv
    BY <1>1, <2>2 DEF MarginInv, MarginLooksBack
  <2>5. TreesInv
    BY <1>1, <2>3 DEF TreesInv, TreesLookBack
  <2>. QED  BY <2>4, <2>5
<1>6. TotalsInv
  <2>1. /\ totalsStep = "features" /\ totalsNext = 1 /\ teamPlays = <<>> /\ featureRows = <<>> /\ trainedOn = <<>>
    BY DEF ResearchInit, TotalsInit
  <2>2. TrainingInv
    BY <1>1, <1>2, <2>1 DEF TrainingInv
  <2>. QED  BY <2>1, <2>2 DEF TotalsInv, TotalsLookBack
<1>7. BundleInv
  BY <1>1 DEF ResearchInit, FeatureInit, BundleInv, BundleLooksBack
<1>8. ReplayInv
  <2>1. /\ replayStep = "read" /\ replayNext = 1 /\ board = {} /\ confidence = <<>>
        /\ histories = [m \in Markets |-> {}]
    BY DEF ResearchInit, ReplayInit, NoHistory
  <2>2. Len(confidence) = replayNext - 1 /\ replayNext <= Len(DevelopmentBlocks)
    BY <1>1, <2>1, ReplayIs
  <2>. QED  BY <1>1, <2>1, <2>2 DEF ReplayInv, ReplayLooksBack
<1>. QED  BY <1>4, <1>5, <1>6, <1>7, <1>8 DEF BacktestInv

\* Each program takes a step of its own, or none.
LEMMA ProgramSteps ==
  ASSUME [ResearchNext]_evaluationVars
  PROVE  /\ [EloNext]_<<schedule, eloVars>> /\ [ExpectedMargin]_<<schedule, marginVars>>
         /\ [Trees]_<<schedule, treeVars>> /\ [Totals]_<<schedule, totalsVars>>
         /\ [Features]_<<schedule, evidence, featureVars>> /\ [Replay]_<<schedule, replayVars>>
<1>1. CASE Features /\ UNCHANGED <<eloVars, marginVars, treeVars, totalsVars, reportVars, replayVars>>
  BY <1>1 DEF Features
<1>2. CASE EloNext /\ UNCHANGED <<evidence, featureVars, marginVars, treeVars, totalsVars, reportVars, replayVars>>
  BY <1>2 DEF EloNext, PredictBlock, UpdateBlock, FinishElo
<1>3. CASE ExpectedMargin /\ UNCHANGED <<evidence, featureVars, eloVars, treeVars, totalsVars, reportVars, replayVars>>
  BY <1>3 DEF ExpectedMargin
<1>4. CASE Trees /\ UNCHANGED <<evidence, featureVars, eloVars, marginVars, totalsVars, reportVars, replayVars>>
  BY <1>4 DEF Trees
<1>5. CASE Totals /\ UNCHANGED <<evidence, featureVars, eloVars, marginVars, treeVars, reportVars, replayVars>>
  BY <1>5 DEF Totals
<1>6. CASE Reports /\ UNCHANGED <<evidence, featureVars, eloVars, marginVars, treeVars, totalsVars, replayVars>>
  BY <1>6 DEF Reports
<1>7. CASE Replay /\ UNCHANGED <<evidence, featureVars, eloVars, marginVars, treeVars, totalsVars, reportVars>>
  BY <1>7 DEF Replay
<1>8. CASE UNCHANGED evaluationVars
  BY <1>8 DEF evaluationVars
<1>. QED  BY <1>1, <1>2, <1>3, <1>4, <1>5, <1>6, <1>7, <1>8 DEF ResearchNext

LEMMA BacktestKept == BacktestInv /\ [ResearchNext]_evaluationVars => BacktestInv'
<1> SUFFICES ASSUME BacktestInv, [ResearchNext]_evaluationVars PROVE BacktestInv'
  OBVIOUS
<1>1. EloInv' /\ AllPredicted
  BY ProgramSteps, EloKept, EloKnows DEF BacktestInv
<1>2. MarginInv'
  BY ProgramSteps, MarginKept DEF BacktestInv
<1>3. TreesInv'
  BY ProgramSteps, TreesKept DEF BacktestInv
<1>4. TotalsInv'
  BY ProgramSteps, TotalsKept DEF BacktestInv
<1>5. BundleInv'
  BY ProgramSteps, BundleKept DEF BacktestInv
<1>6. ReplayInv'
  BY <1>1, ProgramSteps, ReplayKept DEF BacktestInv
<1>. QED  BY <1>1, <1>2, <1>3, <1>4, <1>5, <1>6 DEF BacktestInv

\* For every schedule, evidence and market history, and the programs in any order: every
\* prediction, row of the bundle and evaluated offer rests on what was over before its
\* block (pass 1 of the walks, eligible sources, prior blocks).
THEOREM LookedBack == ResearchSpec => []LooksBack
<1>1. BacktestInv => LooksBack
  <2> SUFFICES ASSUME BacktestInv PROVE LooksBack
    OBVIOUS
  <2>1. EloLooksBack
    BY EloKnows DEF BacktestInv
  <2>2. MarginLooksBack /\ TreesLookBack /\ TotalsLookBack /\ BundleLooksBack /\ ReplayLooksBack
    BY DEF BacktestInv, MarginInv, TreesInv, TotalsInv, BundleInv, ReplayInv
  <2>. QED  BY <2>1, <2>2 DEF LooksBack
<1>. QED  BY <1>1, BacktestInitially, BacktestKept, PTL DEF ResearchSpec

\* For every schedule: what a totals model is trained on was over before the cutoff of its
\* block, and training sets only grow (run_totals_walk_forward over
\* eligible_source_blocks).
THEOREM TrainingOver == ResearchSpec => []TotalsTrainingIsOver
<1>1. BacktestInv => TotalsTrainingIsOver
  <2> SUFFICES ASSUME TrainingInv PROVE TotalsTrainingIsOver
    BY DEF BacktestInv, TotalsInv
  <2>. QED  BY TrainingGrows DEF TrainingInv, TotalsTrainingIsOver, DayOver, eloBlocks
<1>. QED  BY <1>1, BacktestInitially, BacktestKept, PTL DEF ResearchSpec

=============================================================================
