---------------------------- MODULE CollectorsProofs ----------------------------
(***************************************************************************)
(* Proofs about the programs beside the product: one Sleeper audit runs at *)
(* a time, and its history is true; the news only move to verified,        *)
(* archived articles; weekly inputs that load are of one materialization,  *)
(* and stay as they were validated while football state is advanced over   *)
(* them; the odds of past games are bought once, but for what deaths cost, *)
(* and entered as they are stored; and the ledger of bets rests on them.   *)
(***************************************************************************)
EXTENDS SleeperAudit, NewsFiles, WeeklyInputs, MarketEdge, NumberLemmas, SequenceTheorems, TLAPS

-----------------------------------------------------------------------------
(***************************************************************************)
(* The lock of the Sleeper audit                                           *)
(***************************************************************************)

\* What makes exclusion inductive: whoever works has the flock.  The owner file
\* does not occur in it: it only spares a run the attempt.
WorkersLock == \A r \in Runs : Holds(r) => flock = r

LockInv == step \in [Runs -> Working \cup Outside] /\ WorkersLock

\* At the start nobody works.
LEMMA LockInitially == LockInit => LockInv
  BY DEF LockInit, LockInv, WorkersLock, Holds, Working, Outside

\* No step of the lock lets a run work without the flock, or takes it from one
\* that works.
LEMMA LockStepKeeps ==
  ASSUME NEW r \in Runs, LockInv, LockStep(r)
  PROVE  LockInv'
<1>. USE DEF LockInv, WorkersLock, Holds, To
<1>1. CASE StartLock(r)
  BY <1>1 DEF StartLock, Working, Outside
<1>2. CASE Look(r)
  BY <1>2 DEF Look, GiveUp, Working, Outside
<1>3. CASE Sweep(r)
  BY <1>3 DEF Sweep, Working, Outside
<1>4. CASE Create(r)
  BY <1>4 DEF Create, GiveUp, Working, Outside
<1>5. CASE WriteOwner(r)
  BY <1>5 DEF WriteOwner, Working, Outside
<1>6. CASE Flock(r)
  <2>1. CASE flock = NoRun
    <3>1. flock' = r /\ step' = [step EXCEPT ![r] = "begin"]
      BY <1>6, <2>1 DEF Flock
    <3>2. \A s \in Runs : step[s] \notin Working
      BY <2>1, RunsAssumption
    <3>. QED  BY <3>1, <3>2 DEF Working, Outside
  <2>2. CASE flock # NoRun
    BY <1>6, <2>2 DEF Flock, GiveUp, Working, Outside
  <2>. QED  BY <2>1, <2>2
<1>7. CASE Unlock(r)
  <2>1. step[r] = "unlock" /\ flock' = NoRun /\ step' = [step EXCEPT ![r] = "clear"]
    BY <1>7 DEF Unlock
  <2>2. \A s \in Runs : step[s] \in Working => s = r
    BY <2>1 DEF Working
  <2>. QED  BY <2>1, <2>2 DEF Working, Outside
<1>8. CASE ClearOwner(r)
  BY <1>8 DEF ClearOwner, Working, Outside
<1>. QED  BY <1>1, <1>2, <1>3, <1>4, <1>5, <1>6, <1>7, <1>8 DEF LockStep

\* A death releases only the flock of the process that died, and work stays work.
LEMMA LockNextKeeps == LockInv /\ [LockNext]_lockVars => LockInv'
<1>. SUFFICES ASSUME LockInv, [LockNext]_lockVars PROVE LockInv'
  OBVIOUS
<1>1. CASE UNCHANGED lockVars
  BY <1>1 DEF lockVars, LockInv, WorkersLock, Holds
<1>2. ASSUME NEW r \in Runs, LockStep(r) PROVE LockInv'
  BY <1>2, LockStepKeeps
<1>3. ASSUME NEW r \in Runs, Die(r) PROVE LockInv'
  <2>1. step' = [step EXCEPT ![r] = "dead"]
        /\ flock' = IF flock = r THEN NoRun ELSE flock
    BY <1>3 DEF Die, To
  <2>2. \A s \in Runs : s # r /\ step[s] \in Working => flock' = s
    BY <2>1 DEF LockInv, WorkersLock, Holds
  <2>. QED  BY <2>1, <2>2 DEF LockInv, WorkersLock, Holds, Working, Outside
<1>4. ASSUME NEW r \in Runs, Work(r) PROVE LockInv'
  <2>1. flock' = flock /\ \E s \in Working \cup Outside : step' = [step EXCEPT ![r] = s]
                            /\ (s \in Working => step[r] \in Working)
    BY <1>4 DEF Work, Holds, To, Working, Outside
  <2>. QED  BY <2>1 DEF LockInv, WorkersLock, Holds
<1>. QED  BY <1>1, <1>2, <1>3, <1>4 DEF LockNext

\* For any runs, patient or not, dying anywhere: two that work are one.
THEOREM LockExcludes == LockSpec => []LockIsExclusive
<1>1. LockInv => LockIsExclusive
  BY DEF LockInv, WorkersLock, LockIsExclusive
<1>. QED  BY <1>1, LockInitially, LockNextKeeps, PTL DEF LockSpec
-----------------------------------------------------------------------------
(***************************************************************************)
(* The Sleeper audit                                                       *)
(***************************************************************************)

\* What an audit does under the lock is, for the lock, work.
LEMMA AuditWorks == ASSUME NEW r \in Runs, Audit(r) PROVE Work(r)
<1>. USE DEF Work, Holds, Working, To
<1>1. CASE Verify(r)
  BY <1>1 DEF Verify, Concludes
<1>2. CASE Observe(r)
  BY <1>2 DEF Observe
<1>3. CASE Attempt(r)
  BY <1>3 DEF Attempt
<1>4. CASE Parse(r)
  BY <1>4 DEF Parse, NotFetched, NotParsed, Concludes
<1>5. CASE AppendActive(r)
  BY <1>5 DEF AppendActive
<1>6. CASE AppendDerived(r)
  BY <1>6 DEF AppendDerived
<1>7. CASE AppendChanges(r)
  BY <1>7 DEF AppendChanges, Concludes
<1>8. CASE Pregame(r)
  BY <1>8 DEF Pregame, Concludes
<1>9. CASE Postgame(r)
  BY <1>9 DEF Postgame, Concludes
<1>10. CASE AppendFails(r)
  BY <1>10 DEF AppendFails
<1>11. CASE ReadHistory(r)
  BY <1>11 DEF ReadHistory
<1>12. CASE ReplaceHistory(r)
  BY <1>12 DEF ReplaceHistory
<1>13. CASE ReplaceFails(r)
  BY <1>13 DEF ReplaceFails
<1>14. CASE RefreshViews(r)
  BY <1>14 DEF RefreshViews
<1>15. CASE EmitStatus(r)
  BY <1>15 DEF EmitStatus
<1>. QED  BY <1>1, <1>2, <1>3, <1>4, <1>5, <1>6, <1>7, <1>8, <1>9, <1>10, <1>11, <1>12, <1>13, <1>14, <1>15 DEF Audit

LEMMA AuditStepsLock == [AuditNext]_<<lockVars, auditVars>> => [LockNext]_lockVars
<1>. SUFFICES ASSUME [AuditNext]_<<lockVars, auditVars>> PROVE [LockNext]_lockVars
  OBVIOUS
<1>1. CASE Tick \/ UNCHANGED <<lockVars, auditVars>>
  BY <1>1 DEF Tick
<1>2. ASSUME NEW r \in Runs, Locks(r) \/ Audit(r) \/ Killed(r) PROVE LockNext
  BY <1>2, AuditWorks DEF Locks, Killed, LockNext
<1>. QED  BY <1>1, <1>2 DEF AuditNext

\* The audit implements its lock: whatever it does under the lock and without it, the
\* lock sees work, deaths, and its own calls (acquire_lock in pipeline.py).
THEOREM AuditImplementsLock == AuditSpec => LockSpec
<1>1. AuditInit => LockInit
  BY DEF AuditInit
<1>. QED  BY <1>1, AuditStepsLock, PTL DEF AuditSpec, LockSpec

\* The time before a run has anything to record, and after it was to.
Early == {"idle", "look", "sweep", "create", "write", "flock", "begin", "fetch", "fetching", "fetched",
           "active", "evidence", "crosswalk", "changes"}
Ended == {"views", "unlock", "clear", "ended", "dead"}
Decided == {"commit", "committing"} \cup Ended
RunOutcomes == {"", "SUCCESS", "REFERENCE_FAILURE", "TRANSPORT_FAILURE", "INCOMPLETE_RESPONSE",
             "NORMALIZATION_FAILURE", "PERSISTENCE_FAILURE"}
RunRows == [run : Runs, outcome : RunOutcomes, kind : KindNames, observed : Nat]
TableNames == {"ledger", "active", "evidence", "crosswalk"}

AuditTypes ==
  /\ step \in [Runs -> Early \cup {"hof"} \cup Decided] /\ kind \in [Runs -> KindNames]
  /\ verdict \in [Runs -> RunOutcomes] /\ observedAt \in [Runs -> Nat] /\ now \in Nat
  /\ DOMAIN payload = Runs /\ DOMAIN prior = Runs /\ DOMAIN seen = Runs
  /\ tables \in [TableNames -> SUBSET Runs] /\ history \in Seq(RunRows)
  /\ DOMAIN views = {"status", "latest", "pregame", "report"}

\* The snapshot is in every table, and its changes are those from snapshot s.
WholeSnapshot(r, s) ==
  /\ \A t \in TableNames : r \in tables[t]
  /\ {c \in changes : c.run = r} = Changes(r, s)

\* What a run has appended where it is, against the success that is the last one still.
AppendedSoFar(r) ==
  /\ step[r] \in Early => \A c \in changes : c.run # r
  /\ step[r] \in {"active", "evidence", "crosswalk", "changes"} => r \in tables["ledger"]
  /\ step[r] \in {"evidence", "crosswalk", "changes"} =>
       r \in tables["active"] /\ prior[r] = LatestSuccess(history)
  /\ step[r] \in {"crosswalk", "changes"} => r \in tables["evidence"]
  /\ step[r] = "changes" => r \in tables["crosswalk"]
  /\ (step[r] = "hof" \/ (step[r] \in {"commit", "committing"} /\ verdict[r] = "SUCCESS")) =>
       WholeSnapshot(r, LatestSuccess(history))
  /\ step[r] = "committing" => seen[r] = history
  /\ step[r] = "views" => \E i \in DOMAIN history : history[i].run = r

\* The rows are of runs that are through, as they ended, each once; a success is whole.
RowsAreOfRuns ==
  /\ \A i \in DOMAIN history : step[history[i].run] \in Ended /\ history[i] = Row(history[i].run)
  /\ \A i, j \in DOMAIN history : history[i].run = history[j].run => i = j

SuccessesAreWhole ==
  \A i \in Successes(history) : WholeSnapshot(history[i].run, LatestSuccess(SubSeq(history, 1, i - 1)))

ObservationsAre ==
  \A o \in observations :
    /\ o.post \in Runs /\ step[o.post] \in Decided /\ Kickoff < observedAt[o.post]
    /\ \E i \in Successes(history) : history[i].run = o.pre /\ history[i].observed < Kickoff

ViewIsOfSuccess ==
  views.latest # NoRun => \E i \in Successes(history) : history[i].run = views.latest

AuditInv ==
  /\ AuditTypes /\ WorkersLock
  /\ \A r \in Runs : AppendedSoFar(r)
  /\ RowsAreOfRuns /\ SuccessesAreWhole /\ ObservationsAre /\ ViewIsOfSuccess

\* Nothing is appended at the start.
LEMMA AuditInitially == AuditInit => AuditInv
<1>. SUFFICES ASSUME AuditInit PROVE AuditInv
  OBVIOUS
<1>0. history = <<>>
  BY DEF AuditInit
<1>1. \A r \in Runs : step[r] = "idle"
  BY DEF AuditInit, LockInit
<1>2. AuditTypes
  <2>1. step \in [Runs -> Early \cup {"hof"} \cup Decided] /\ kind \in [Runs -> KindNames]
    BY AuditAssumption DEF AuditInit, LockInit, Early
  <2>2. verdict \in [Runs -> RunOutcomes] /\ observedAt \in [Runs -> Nat] /\ now \in Nat
    BY DEF AuditInit, RunOutcomes
  <2>3. DOMAIN payload = Runs /\ DOMAIN prior = Runs /\ DOMAIN seen = Runs
    BY DEF AuditInit
  <2>4. tables \in [TableNames -> SUBSET Runs]
    BY DEF AuditInit, TableNames
  <2>6. history \in Seq(RunRows)
    BY <1>0
  <2>5. DOMAIN views = {"status", "latest", "pregame", "report"}
    BY DEF AuditInit
  <2>. QED  BY <2>1, <2>2, <2>3, <2>4, <2>5, <2>6 DEF AuditTypes
<1>3. WorkersLock
  BY <1>1 DEF WorkersLock, Holds, Working
<1>4. \A r \in Runs : AppendedSoFar(r)
  BY <1>1 DEF AuditInit, AppendedSoFar
<1>5. RowsAreOfRuns /\ SuccessesAreWhole /\ ObservationsAre /\ ViewIsOfSuccess
  <2>1. observations = {} /\ views.latest = NoRun
    BY DEF AuditInit
  <2>3. DOMAIN history = {}
    BY <1>0
  <2>2. Successes(history) = {}
    BY <2>3 DEF Successes
  <2>. QED  BY <2>1, <2>2, <2>3 DEF RowsAreOfRuns, SuccessesAreWhole, ObservationsAre, ViewIsOfSuccess
<1>. QED  BY <1>2, <1>3, <1>4, <1>5 DEF AuditInv

\* The last success of a history is the run of one of its rows.
LEMMA LatestSuccessIs ==
  ASSUME NEW h \in Seq(RunRows)
  PROVE  LatestSuccess(h) = NoRun \/ \E i \in Successes(h) : LatestSuccess(h) = h[i].run
<1>. SUFFICES ASSUME Successes(h) # {} PROVE \E i \in Successes(h) : LatestSuccess(h) = h[i].run
  BY DEF LatestSuccess
<1>1. Successes(h) \subseteq 0..Len(h) /\ Len(h) \in Nat
  BY DEF Successes
<1>2. PICK x \in Successes(h) : \A y \in Successes(h) : y <= x
  BY <1>1, GreatestElement
<1>3. \A y \in Successes(h) : x >= y
  BY <1>1, <1>2
<1>4. Max(Successes(h)) \in Successes(h)
  BY <1>2, <1>3 DEF Max
<1>. QED  BY <1>4 DEF LatestSuccess

\* The changes that a run finds are its own.
LEMMA ChangesAreOf == \A r, s : \A c \in Changes(r, s) : c.run = r
<1>. SUFFICES ASSUME NEW r, NEW s, NEW c \in Changes(r, s) PROVE c.run = r
  OBVIOUS
<1>1. \E p, t : c = [run |-> r, prior |-> s, player |-> p, type |-> t]
  BY Zenon DEF Changes
<1>. QED  BY <1>1

\* Changes are of what two snapshots hold, and stay while these do.
LEMMA ChangesStay ==
  ASSUME NEW r, NEW s, payload'[r] = payload[r],
         s \in tables["active"] => payload'[s] = payload[s],
         s \in tables'["active"] <=> s \in tables["active"],
         s \in tables'["evidence"] <=> s \in tables["evidence"]
  PROVE  Changes(r, s)' = Changes(r, s)
<1>1. ActivePlayers(r)' = ActivePlayers(r)
  BY DEF ActivePlayers
<1>2. s \in tables["active"] => ActivePlayers(s)' = ActivePlayers(s)
  BY DEF ActivePlayers
<1>3. SnapshotOf(s)' = SnapshotOf(s)
  BY <1>2 DEF SnapshotOf
<1>. QED  BY <1>1, <1>3 DEF Changes

\* A run that works is alone and has no row yet.
Ongoing == {"begin", "fetch", "fetching", "fetched", "active", "evidence", "crosswalk", "changes", "hof",
            "commit", "committing"}

LEMMA OngoingIs ==
  ASSUME AuditInv, NEW r \in Runs, step[r] \in Ongoing
  PROVE  /\ \A i \in DOMAIN history : history[i].run # r
         /\ \A v \in Runs \ {r} : step[v] \notin Working
<1>1. \A i \in DOMAIN history : history[i].run # r
  BY DEF AuditInv, RowsAreOfRuns, Ongoing, Ended
<1>2. \A v \in Runs \ {r} : step[v] \notin Working
  BY DEF AuditInv, WorkersLock, Holds, Working, Ongoing
<1>. QED  BY <1>1, <1>2

\* A step of one run touches nothing of the others.
LeavesOthers(r) ==
  /\ history' = history /\ kind' = kind
  /\ \A v \in Runs \ {r} : /\ step'[v] = step[v] /\ payload'[v] = payload[v]
                           /\ observedAt'[v] = observedAt[v] /\ verdict'[v] = verdict[v]
                           /\ \A t \in TableNames : v \in tables'[t] <=> v \in tables[t]
  /\ \A c : c.run # r => (c \in changes' <=> c \in changes)

LEMMA OthersStay ==
  ASSUME AuditInv, NEW r \in Runs, step[r] \in Ongoing, LeavesOthers(r), tables' \in [TableNames -> SUBSET Runs]
  PROVE  /\ RowsAreOfRuns' /\ SuccessesAreWhole'
         /\ \A v \in Runs \ {r} : AppendedSoFar(v)'
<1>1. \A i \in DOMAIN history : history[i].run # r /\ history[i].run \in Runs
  <2>1. \A i \in DOMAIN history : history[i].run # r
    BY OngoingIs
  <2>2. \A i \in DOMAIN history : history[i] \in RunRows
    BY DEF AuditInv, AuditTypes
  <2>. QED  BY <2>1, <2>2 DEF RunRows
<1>2. RowsAreOfRuns'
  BY <1>1 DEF LeavesOthers, AuditInv, RowsAreOfRuns, Row
<1>3. ASSUME NEW i \in Successes(history)
      PROVE  WholeSnapshot(history[i].run, LatestSuccess(SubSeq(history, 1, i - 1)))'
  <2>1. i \in DOMAIN history /\ history \in Seq(RunRows)
    BY DEF Successes, AuditInv, AuditTypes
  <2>2. SubSeq(history, 1, i - 1) \in Seq(RunRows)
    BY <2>1, SubSeqProperties
  <2>3. PICK h \in Seq(RunRows) : h = SubSeq(history, 1, i - 1)
    BY <2>2
  <2>4. PICK v : v = history[i].run
    OBVIOUS
  <2>5. PICK s : s = LatestSuccess(h)
    OBVIOUS
  <2>6. s = NoRun \/ (s \in Runs /\ s # r)
    <3>1. \A j \in Successes(h) : h[j] = history[j] /\ j \in DOMAIN history
      BY <2>1, <2>3 DEF Successes
    <3>. QED  BY <1>1, <2>5, <3>1, LatestSuccessIs
  <2>7. v \in Runs /\ v # r
    BY <1>1, <2>1, <2>4
  <2>8. WholeSnapshot(v, s)
    BY <2>3, <2>4, <2>5 DEF AuditInv, SuccessesAreWhole
  <2>9. NoRun \notin tables["active"] /\ NoRun \notin tables["evidence"]
        /\ NoRun \notin tables'["active"] /\ NoRun \notin tables'["evidence"]
    BY RunsAssumption DEF AuditInv, AuditTypes, TableNames
  <2>10. Changes(v, s)' = Changes(v, s)
    BY <2>6, <2>7, <2>9, ChangesStay DEF LeavesOthers, TableNames
  <2>11. {c \in changes' : c.run = v} = {c \in changes : c.run = v}
    BY <2>7 DEF LeavesOthers
  <2>12. WholeSnapshot(v, s)'
    BY <2>7, <2>8, <2>10, <2>11 DEF WholeSnapshot, LeavesOthers
  <2>. QED  BY <2>3, <2>4, <2>5, <2>12 DEF LeavesOthers
<1>4. SuccessesAreWhole'
  BY <1>3 DEF SuccessesAreWhole, Successes, LeavesOthers
<1>5. ASSUME NEW v \in Runs \ {r} PROVE AppendedSoFar(v)'
  <2>1. step'[v] \notin Working
    BY OngoingIs DEF LeavesOthers
  <2>2. step[v] \in Early => \A c \in changes' : c.run # v
    BY DEF AuditInv, AppendedSoFar, LeavesOthers
  <2>. QED  BY <2>1, <2>2 DEF AppendedSoFar, Working, LeavesOthers
<1>. QED  BY <1>2, <1>4, <1>5

\* What was observed of the game stays while the history does.
LEMMA ObservationsStay ==
  ASSUME AuditInv, NEW r \in Runs, NEW s, step' = [step EXCEPT ![r] = s],
         observations' = observations, history' = history,
         \A v \in Runs : step[v] \in Decided => observedAt'[v] = observedAt[v],
         step[r] \in Decided => s \in Decided
  PROVE  ObservationsAre'
<1>1. step \in [Runs -> Early \cup {"hof"} \cup Decided]
  BY DEF AuditInv, AuditTypes
<1>2. \A v \in Runs : step[v] \in Decided => step'[v] \in Decided
  BY <1>1
<1>3. ObservationsAre
  BY DEF AuditInv
<1>. QED  BY <1>2, <1>3 DEF ObservationsAre, Successes

\* A run at work keeps everything when it keeps what is its own.
LEMMA OngoingKeeps ==
  ASSUME AuditInv, WorkersLock', AuditTypes', NEW r \in Runs, step[r] \in Ongoing, LeavesOthers(r),
         AppendedSoFar(r)', ObservationsAre', views' = views
  PROVE  AuditInv'
<1>1. tables' \in [TableNames -> SUBSET Runs]
  BY DEF AuditTypes
<1>2. RowsAreOfRuns' /\ SuccessesAreWhole' /\ \A v \in Runs \ {r} : AppendedSoFar(v)'
  BY <1>1, OthersStay
<1>3. ViewIsOfSuccess'
  BY DEF AuditInv, ViewIsOfSuccess, Successes, LeavesOthers
<1>. QED  BY <1>2, <1>3 DEF AuditInv

\* A step of a run that leaves the files and what the run knows alone.
Quiet == {"look", "sweep", "create", "write", "flock", "begin", "fetch", "unlock", "clear", "ended", "dead"}

LEMMA QuietKeeps ==
  ASSUME AuditInv, WorkersLock', NEW r \in Runs, NEW s \in Quiet, step' = [step EXCEPT ![r] = s],
         step[r] \in Ended => s \in Ended, step[r] \in Decided => s \in Decided, s \in Early => step[r] \in Early,
         UNCHANGED <<now, kind, observedAt, payload, prior, seen, verdict, history, tables, changes, observations>>,
         DOMAIN views' = DOMAIN views, ViewIsOfSuccess'
  PROVE  AuditInv'
<1>1. step \in [Runs -> Early \cup {"hof"} \cup Decided]
  BY DEF AuditInv, AuditTypes
<1>2. step'[r] = s /\ \A v \in Runs \ {r} : step'[v] = step[v]
  BY <1>1
<1>3. AuditTypes'
  <2>1. step' \in [Runs -> Early \cup {"hof"} \cup Decided]
    BY <1>1 DEF Quiet, Early, Decided, Ended
  <2>. QED  BY <2>1 DEF AuditInv, AuditTypes
<1>4. \A v, x : WholeSnapshot(v, x)' <=> WholeSnapshot(v, x)
  BY DEF WholeSnapshot, Changes, SnapshotOf, ActivePlayers
<1>5. ASSUME NEW v \in Runs PROVE AppendedSoFar(v)'
  <2>1. AppendedSoFar(v)
    BY DEF AuditInv
  <2>2. CASE v # r
    BY <1>2, <1>4, <2>1, <2>2 DEF AppendedSoFar, LatestSuccess, Successes
  <2>3. CASE v = r
    BY <1>2, <2>1, <2>3 DEF AppendedSoFar, Quiet
  <2>. QED  BY <2>2, <2>3
<1>6. RowsAreOfRuns'
  <2>3. \A i \in DOMAIN history : history[i] \in RunRows
    BY DEF AuditInv, AuditTypes
  <2>1. \A i \in DOMAIN history : history[i].run \in Runs
    BY <2>3 DEF RunRows
  <2>2. \A v \in Runs : step[v] \in Ended => step'[v] \in Ended
    BY <1>2
  <2>. QED  BY <2>1, <2>2 DEF AuditInv, RowsAreOfRuns, Row
<1>7. SuccessesAreWhole'
  <2>. SUFFICES ASSUME NEW i \in Successes(history)
                PROVE  WholeSnapshot(history[i].run, LatestSuccess(SubSeq(history, 1, i - 1)))'
    BY DEF SuccessesAreWhole, Successes
  <2>1. PICK v, x : v = history[i].run /\ x = LatestSuccess(SubSeq(history, 1, i - 1))
    OBVIOUS
  <2>2. WholeSnapshot(v, x)
    BY <2>1 DEF AuditInv, SuccessesAreWhole
  <2>. QED  BY <1>4, <2>1, <2>2
<1>8. ObservationsAre'
  BY ObservationsStay
<1>. QED  BY <1>3, <1>5, <1>6, <1>7, <1>8 DEF AuditInv

\* The calls of the lock, and deaths, are such steps.
NobodyGivesUp == \A r \in Runs : step[r] # "locked out"

LEMMA LocksKeep ==
  ASSUME AuditInv, WorkersLock', NobodyGivesUp', NEW r \in Runs, Locks(r)
  PROVE  AuditInv'
<1>1. step \in [Runs -> Early \cup {"hof"} \cup Decided]
  BY DEF AuditInv, AuditTypes
<1>2. \E s : /\ step' = [step EXCEPT ![r] = s] /\ s \in Quiet \cup {"locked out"}
             /\ step[r] \in Decided => step[r] \in Ended /\ s \in Ended
             /\ s \in Early => step[r] \in Early
  <2>. USE DEF Locks, Quiet, Early, Decided, Ended, To, GiveUp
  <2>1. CASE StartLock(r)
    BY <2>1 DEF StartLock
  <2>2. CASE Look(r)
    BY <2>2 DEF Look
  <2>3. CASE Sweep(r)
    BY <2>3 DEF Sweep
  <2>4. CASE Create(r)
    BY <2>4 DEF Create
  <2>5. CASE WriteOwner(r)
    BY <2>5 DEF WriteOwner
  <2>6. CASE Flock(r)
    BY <2>6 DEF Flock
  <2>7. CASE Unlock(r)
    <3>1. step[r] = "unlock" /\ step' = [step EXCEPT ![r] = "clear"]
      BY <2>7 DEF Unlock
    <3>2. "unlock" \in Ended /\ "clear" \in Quiet /\ "clear" \in Ended /\ "clear" \notin Early
      OBVIOUS
    <3>. HIDE DEF Quiet, Early, Decided, Ended
    <3>. QED  BY <3>1, <3>2
  <2>8. CASE ClearOwner(r)
    <3>1. step[r] = "clear" /\ step' = [step EXCEPT ![r] = "ended"]
      BY <2>8 DEF ClearOwner
    <3>2. "clear" \in Ended /\ "ended" \in Quiet /\ "ended" \in Ended /\ "ended" \notin Early
      OBVIOUS
    <3>. HIDE DEF Quiet, Early, Decided, Ended
    <3>. QED  BY <3>1, <3>2
  <2>. QED  BY <2>1, <2>2, <2>3, <2>4, <2>5, <2>6, <2>7, <2>8 DEF LockStep
<1>3. PICK s : /\ step' = [step EXCEPT ![r] = s] /\ s \in Quiet \cup {"locked out"}
               /\ step[r] \in Decided => step[r] \in Ended /\ s \in Ended
               /\ s \in Early => step[r] \in Early
  BY <1>2
<1>4. s # "locked out"
  BY <1>1, <1>3 DEF NobodyGivesUp
<1>5. UNCHANGED <<now, kind, observedAt, payload, prior, seen, verdict, history, tables, changes, observations, views>>
  BY DEF Locks, auditVars
<1>6. ViewIsOfSuccess'
  BY <1>5 DEF AuditInv, ViewIsOfSuccess, Successes
<1>7. s \in Quiet /\ (step[r] \in Ended => s \in Ended) /\ (step[r] \in Decided => s \in Decided)
  BY <1>3, <1>4 DEF Decided
<1>. QED  BY <1>3, <1>5, <1>6, <1>7, QuietKeeps

LEMMA DeathsKeep ==
  ASSUME AuditInv, WorkersLock', NEW r \in Runs, Killed(r)
  PROVE  AuditInv'
<1>1. /\ step' = [step EXCEPT ![r] = "dead"]
      /\ UNCHANGED <<now, kind, observedAt, payload, prior, seen, verdict, history, tables, changes, observations, views>>
  BY DEF Killed, Die, To, runVars, fileVars
<1>2. ViewIsOfSuccess'
  BY <1>1 DEF AuditInv, ViewIsOfSuccess, Successes
<1>3. "dead" \in Quiet /\ "dead" \in Ended /\ "dead" \in Decided /\ "dead" \notin Early
  BY DEF Quiet, Ended, Decided, Early
<1>. QED  BY <1>1, <1>2, <1>3, QuietKeeps

\* An append or the row that fails leaves the run at the end of its lock.
LEMMA FailuresKeep ==
  ASSUME AuditInv, WorkersLock', NEW r \in Runs, AppendFails(r) \/ ReplaceFails(r)
  PROVE  AuditInv'
<1>1. step[r] # "report"
  BY DEF AuditInv, AuditTypes, Early, Decided, Ended
<1>2. /\ step' = [step EXCEPT ![r] = "unlock"]
      /\ UNCHANGED <<now, kind, observedAt, payload, prior, seen, verdict, history, tables, changes, observations, views>>
  BY <1>1 DEF AppendFails, ReplaceFails, To, runVars, fileVars
<1>3. ViewIsOfSuccess'
  BY <1>2 DEF AuditInv, ViewIsOfSuccess, Successes
<1>4. "unlock" \in Quiet /\ "unlock" \in Ended /\ "unlock" \in Decided /\ "unlock" \notin Early
  BY DEF Quiet, Ended, Decided, Early
<1>. QED  BY <1>2, <1>3, <1>4, QuietKeeps

\* A view of the latest snapshot is refreshed by a run whose row says that it succeeded.
LEMMA RefreshViewsKeep ==
  ASSUME AuditInv, WorkersLock', NEW r \in Runs, RefreshViews(r)
  PROVE  AuditInv'
<1>1. /\ step[r] = "views" /\ step' = [step EXCEPT ![r] = "unlock"]
      /\ UNCHANGED <<now, kind, observedAt, payload, prior, seen, verdict, history, tables, changes, observations>>
  BY DEF RefreshViews, To, runVars
<1>2. DOMAIN views' = DOMAIN views
  BY DEF RefreshViews
<1>3. views'.latest = views.latest \/ (verdict[r] = "SUCCESS" /\ views'.latest = r)
  <2>1. "latest" \in DOMAIN views
    BY DEF AuditInv, AuditTypes
  <2>2. PICK kept : views' = [v \in DOMAIN views |->
                      IF v \notin DueViews(r) \ kept THEN views[v]
                      ELSE IF v = "report" THEN Report(history, r, verdict[r]) ELSE r]
    BY DEF RefreshViews
  <2>3. "latest" \in DueViews(r) => verdict[r] = "SUCCESS"
    BY DEF DueViews
  <2>. QED  BY <2>1, <2>2, <2>3
<1>4. \E i \in DOMAIN history : history[i].run = r
  BY <1>1 DEF AuditInv, AppendedSoFar
<1>5. verdict[r] = "SUCCESS" => \E i \in Successes(history) : history[i].run = r
  BY <1>4 DEF AuditInv, RowsAreOfRuns, Row, Successes
<1>6. ViewIsOfSuccess'
  <2>1. Successes(history)' = Successes(history)
    BY <1>1 DEF Successes
  <2>. QED  BY <1>1, <1>3, <1>5, <2>1 DEF AuditInv, ViewIsOfSuccess
<1>7. "unlock" \in Quiet /\ "unlock" \in Ended /\ "unlock" \in Decided /\ "unlock" \notin Early
  BY DEF Quiet, Ended, Decided, Early
<1>. QED  BY <1>1, <1>2, <1>6, <1>7, QuietKeeps

\* The steps before the tables.
LEMMA VerifyKeeps ==
  ASSUME AuditInv, WorkersLock', NEW r \in Runs, Verify(r)
  PROVE  AuditInv'
<1>. USE DEF Early, Decided, Ended, Ongoing
<1>1. /\ step[r] = "begin"
      /\ UNCHANGED <<now, kind, observedAt, payload, prior, seen, history, tables, changes, observations, views>>
  BY DEF Verify, fileVars
<1>2. PICK s \in {"fetch", "commit"} :
        /\ step' = [step EXCEPT ![r] = s]
        /\ verdict' = IF s = "fetch" THEN verdict ELSE [verdict EXCEPT ![r] = "REFERENCE_FAILURE"]
  BY DEF Verify, Concludes, To
<1>3. AuditTypes'
  BY <1>1, <1>2 DEF AuditInv, AuditTypes, RunOutcomes
<1>4. LeavesOthers(r)
  BY <1>1, <1>2 DEF LeavesOthers, AuditInv, AuditTypes
<1>5. AppendedSoFar(r)'
  BY <1>1, <1>2 DEF AppendedSoFar, AuditInv, AuditTypes
<1>6. ObservationsAre'
  BY <1>1, <1>2, ObservationsStay
<1>. QED  BY <1>1, <1>3, <1>4, <1>5, <1>6, OngoingKeeps

LEMMA ObserveKeeps ==
  ASSUME AuditInv, WorkersLock', NEW r \in Runs, Observe(r)
  PROVE  AuditInv'
<1>. USE DEF Early, Decided, Ended, Ongoing
<1>1. /\ step[r] = "fetch" /\ step' = [step EXCEPT ![r] = "fetching"]
      /\ observedAt' = [observedAt EXCEPT ![r] = now]
      /\ UNCHANGED <<now, kind, payload, prior, seen, verdict, history, tables, changes, observations, views>>
  BY DEF Observe, To, fileVars
<1>2. AuditTypes'
  BY <1>1 DEF AuditInv, AuditTypes
<1>3. LeavesOthers(r)
  BY <1>1 DEF LeavesOthers, AuditInv, AuditTypes
<1>4. AppendedSoFar(r)'
  BY <1>1 DEF AppendedSoFar, AuditInv, AuditTypes
<1>5. ObservationsAre'
  <2>1. \A v \in Runs : step[v] \in Decided => observedAt'[v] = observedAt[v]
    BY <1>1 DEF AuditInv, AuditTypes
  <2>. QED  BY <1>1, <2>1, ObservationsStay
<1>. QED  BY <1>1, <1>2, <1>3, <1>4, <1>5, OngoingKeeps

LEMMA AttemptKeeps ==
  ASSUME AuditInv, WorkersLock', NEW r \in Runs, Attempt(r)
  PROVE  AuditInv'
<1>. USE DEF Early, Decided, Ended, Ongoing
<1>1. /\ step[r] = "fetching"
      /\ UNCHANGED <<now, kind, observedAt, prior, seen, verdict, history, tables, changes, observations, views>>
  BY DEF Attempt, fileVars
<1>2. PICK s \in {"fetching", "fetched"} : step' = [step EXCEPT ![r] = s]
  BY DEF Attempt, To
<1>3. DOMAIN payload' = Runs /\ \A v \in Runs \ {r} : payload'[v] = payload[v]
  BY DEF Attempt, AuditInv, AuditTypes
<1>4. AuditTypes'
  BY <1>1, <1>2, <1>3 DEF AuditInv, AuditTypes
<1>5. LeavesOthers(r)
  BY <1>1, <1>2, <1>3 DEF LeavesOthers, AuditInv, AuditTypes
<1>6. AppendedSoFar(r)'
  BY <1>1, <1>2 DEF AppendedSoFar, AuditInv, AuditTypes
<1>7. ObservationsAre'
  BY <1>1, <1>2, ObservationsStay
<1>. QED  BY <1>1, <1>4, <1>5, <1>6, <1>7, OngoingKeeps

\* The tables: the run is added to each, after the one before it.
LEMMA ParseKeeps ==
  ASSUME AuditInv, WorkersLock', NEW r \in Runs, Parse(r)
  PROVE  AuditInv'
<1>. USE DEF Early, Decided, Ended, Ongoing
<1>1. /\ step[r] = "fetched" /\ tables' = [tables EXCEPT !["ledger"] = @ \cup {r}]
      /\ UNCHANGED <<now, kind, observedAt, payload, prior, seen, history, changes, observations, views>>
  BY DEF Parse
<1>2. PICK s \in {"active", "commit"}, outcome \in RunOutcomes \ {"SUCCESS"} :
        /\ step' = [step EXCEPT ![r] = s]
        /\ verdict' = IF s = "active" THEN verdict ELSE [verdict EXCEPT ![r] = outcome]
  <2>1. CASE To(r, "active") /\ UNCHANGED verdict
    <3>1. "TRANSPORT_FAILURE" \in RunOutcomes \ {"SUCCESS"}
      BY DEF RunOutcomes
    <3>. QED  BY <2>1, <3>1 DEF To
  <2>2. CASE \E outcome \in {"TRANSPORT_FAILURE", "INCOMPLETE_RESPONSE", "NORMALIZATION_FAILURE"} : Concludes(r, outcome)
    BY <2>2 DEF Concludes, To, RunOutcomes
  <2>. QED  BY <2>1, <2>2 DEF Parse, NotFetched, NotParsed
<1>3. /\ tables' \in [TableNames -> SUBSET Runs] /\ r \in tables'["ledger"]
      /\ \A v \in Runs \ {r} : \A t \in TableNames : v \in tables'[t] <=> v \in tables[t]
  BY <1>1 DEF AuditInv, AuditTypes, TableNames
<1>4. AuditTypes'
  BY <1>1, <1>2, <1>3 DEF AuditInv, AuditTypes
<1>5. LeavesOthers(r)
  BY <1>1, <1>2, <1>3 DEF LeavesOthers, AuditInv, AuditTypes
<1>6. AppendedSoFar(r)'
  BY <1>1, <1>2, <1>3 DEF AppendedSoFar, AuditInv, AuditTypes
<1>7. ObservationsAre'
  BY <1>1, <1>2, ObservationsStay
<1>. QED  BY <1>1, <1>4, <1>5, <1>6, <1>7, OngoingKeeps

LEMMA AppendActiveKeeps ==
  ASSUME AuditInv, WorkersLock', NEW r \in Runs, AppendActive(r)
  PROVE  AuditInv'
<1>. USE DEF Early, Decided, Ended, Ongoing
<1>1. /\ step[r] = "active" /\ step' = [step EXCEPT ![r] = "evidence"]
      /\ tables' = [tables EXCEPT !["active"] = @ \cup {r}]
      /\ prior' = [prior EXCEPT ![r] = LatestSuccess(history)]
      /\ UNCHANGED <<now, kind, observedAt, payload, seen, verdict, history, changes, observations, views>>
  BY DEF AppendActive, To
<1>2. /\ tables' \in [TableNames -> SUBSET Runs]
      /\ r \in tables'["active"] /\ (r \in tables["ledger"] => r \in tables'["ledger"])
      /\ \A v \in Runs \ {r} : \A t \in TableNames : v \in tables'[t] <=> v \in tables[t]
  BY <1>1 DEF AuditInv, AuditTypes, TableNames
<1>3. AuditTypes'
  BY <1>1, <1>2 DEF AuditInv, AuditTypes
<1>4. LeavesOthers(r)
  BY <1>1, <1>2 DEF LeavesOthers, AuditInv, AuditTypes
<1>5. AppendedSoFar(r)'
  <2>1. LatestSuccess(history)' = LatestSuccess(history)
    BY <1>1 DEF LatestSuccess, Successes
  <2>2. step'[r] = "evidence" /\ prior'[r] = LatestSuccess(history)
    BY <1>1 DEF AuditInv, AuditTypes
  <2>. QED  BY <1>1, <1>2, <2>1, <2>2 DEF AppendedSoFar, AuditInv
<1>6. ObservationsAre'
  BY <1>1, ObservationsStay
<1>. QED  BY <1>1, <1>3, <1>4, <1>5, <1>6, OngoingKeeps

LEMMA AppendDerivedKeeps ==
  ASSUME AuditInv, WorkersLock', NEW r \in Runs, AppendDerived(r)
  PROVE  AuditInv'
<1>. USE DEF Early, Decided, Ended, Ongoing
<1>1. UNCHANGED <<now, kind, observedAt, payload, prior, seen, verdict, history, changes, observations, views>>
  BY DEF AppendDerived, runVars
<1>2. PICK t \in {"evidence", "crosswalk"} :
        /\ step[r] = t /\ tables' = [tables EXCEPT ![t] = @ \cup {r}]
        /\ step' = [step EXCEPT ![r] = IF t = "evidence" THEN "crosswalk" ELSE "changes"]
  BY DEF AppendDerived, To
<1>3. /\ tables' \in [TableNames -> SUBSET Runs] /\ r \in tables'[t]
      /\ \A u \in TableNames : r \in tables[u] => r \in tables'[u]
      /\ \A v \in Runs \ {r} : \A u \in TableNames : v \in tables'[u] <=> v \in tables[u]
  BY <1>2 DEF AuditInv, AuditTypes, TableNames
<1>4. AuditTypes'
  BY <1>1, <1>2, <1>3 DEF AuditInv, AuditTypes
<1>5. LeavesOthers(r)
  BY <1>1, <1>2, <1>3 DEF LeavesOthers, AuditInv, AuditTypes
<1>6. AppendedSoFar(r)'
  <2>1. LatestSuccess(history)' = LatestSuccess(history)
    BY <1>1 DEF LatestSuccess, Successes
  <2>2. step'[r] = IF t = "evidence" THEN "crosswalk" ELSE "changes"
    BY <1>2 DEF AuditInv, AuditTypes
  <2>. QED  BY <1>1, <1>2, <1>3, <2>1, <2>2 DEF AppendedSoFar, AuditInv, TableNames
<1>7. ObservationsAre'
  BY <1>1, <1>2, ObservationsStay
<1>. QED  BY <1>1, <1>2, <1>4, <1>5, <1>6, <1>7, OngoingKeeps

\* A snapshot is whole once its changes are appended.
LEMMA AppendChangesKeeps ==
  ASSUME AuditInv, WorkersLock', NEW r \in Runs, AppendChanges(r)
  PROVE  AuditInv'
<1>. USE DEF Early, Decided, Ended, Ongoing
<1>1. /\ step[r] = "changes" /\ changes' = changes \cup Changes(r, prior[r])
      /\ UNCHANGED <<now, kind, observedAt, payload, prior, seen, history, tables, observations, views>>
  BY DEF AppendChanges
<1>2. PICK s \in {"hof", "commit"} :
        /\ step' = [step EXCEPT ![r] = s]
        /\ verdict' = IF s = "hof" THEN verdict ELSE [verdict EXCEPT ![r] = "SUCCESS"]
  BY DEF AppendChanges, Concludes, To
<1>3. \A c \in Changes(r, prior[r]) : c.run = r
  BY ChangesAreOf
<1>4. \A c \in changes : c.run # r
  BY <1>1 DEF AuditInv, AppendedSoFar
<1>5. AuditTypes'
  BY <1>1, <1>2 DEF AuditInv, AuditTypes, RunOutcomes
<1>6. LeavesOthers(r)
  BY <1>1, <1>2, <1>3 DEF LeavesOthers, AuditInv, AuditTypes
<1>7. AppendedSoFar(r)'
  <2>1. /\ \A t \in TableNames : r \in tables[t]
        /\ prior[r] = LatestSuccess(history)
    BY <1>1 DEF AuditInv, AppendedSoFar, TableNames
  <2>2. {c \in changes' : c.run = r} = Changes(r, prior[r])
    BY <1>1, <1>3, <1>4
  <2>3. Changes(r, LatestSuccess(history))' = Changes(r, LatestSuccess(history))
    <3>1. PICK x : x = LatestSuccess(history)
      OBVIOUS
    <3>2. LatestSuccess(history)' = x
      BY <1>1, <3>1 DEF LatestSuccess, Successes
    <3>3. Changes(r, x)' = Changes(r, x)
      BY <1>1, ChangesStay
    <3>. QED  BY <3>1, <3>2, <3>3
  <2>4. WholeSnapshot(r, LatestSuccess(history))'
    BY <1>1, <2>1, <2>2, <2>3 DEF WholeSnapshot
  <2>5. step'[r] \in {"hof", "commit"}
    BY <1>2 DEF AuditInv, AuditTypes
  <2>. QED  BY <2>4, <2>5 DEF AppendedSoFar
<1>8. ObservationsAre'
  BY <1>1, <1>2, ObservationsStay
<1>. QED  BY <1>1, <1>5, <1>6, <1>7, <1>8, OngoingKeeps

\* The game: a snapshot that is whole stays so.
LEMMA WholeStays ==
  ASSUME NEW r, UNCHANGED <<payload, tables, changes, history>>, WholeSnapshot(r, LatestSuccess(history))
  PROVE  WholeSnapshot(r, LatestSuccess(history))'
<1>1. PICK x : x = LatestSuccess(history)
  OBVIOUS
<1>2. LatestSuccess(history)' = x
  BY <1>1 DEF LatestSuccess, Successes
<1>3. Changes(r, x)' = Changes(r, x)
  BY ChangesStay
<1>4. WholeSnapshot(r, x)'
  BY <1>1, <1>3 DEF WholeSnapshot
<1>. QED  BY <1>2, <1>4

\* A run that decides about the game, in whatever way, with what it observed of it.
LEMMA DecisionKeeps ==
  ASSUME AuditInv, WorkersLock', NEW r \in Runs, step[r] = "hof", NEW outcome \in RunOutcomes, Concludes(r, outcome),
         UNCHANGED <<now, kind, observedAt, payload, prior, seen, history, tables, changes, views>>,
         ObservationsAre'
  PROVE  AuditInv'
<1>. USE DEF Early, Decided, Ended, Ongoing
<1>1. step' = [step EXCEPT ![r] = "commit"] /\ verdict' = [verdict EXCEPT ![r] = outcome]
  BY DEF Concludes, To
<1>2. AuditTypes'
  BY <1>1 DEF AuditInv, AuditTypes
<1>3. LeavesOthers(r)
  BY <1>1 DEF LeavesOthers, AuditInv, AuditTypes
<1>4. AppendedSoFar(r)'
  <2>1. WholeSnapshot(r, LatestSuccess(history))
    BY DEF AuditInv, AppendedSoFar
  <2>2. step'[r] = "commit"
    BY <1>1 DEF AuditInv, AuditTypes
  <2>. QED  BY <2>1, <2>2, WholeStays DEF AppendedSoFar
<1>. QED  BY <1>2, <1>3, <1>4, OngoingKeeps

LEMMA PregameKeeps ==
  ASSUME AuditInv, WorkersLock', NEW r \in Runs, Pregame(r)
  PROVE  AuditInv'
<1>1. /\ step[r] = "hof"
      /\ UNCHANGED <<now, kind, observedAt, payload, prior, seen, history, tables, changes, observations, views>>
  BY DEF Pregame, fileVars
<1>2. PICK outcome \in RunOutcomes : Concludes(r, outcome)
  <2>1. {"SUCCESS", "NORMALIZATION_FAILURE", "REFERENCE_FAILURE"} \subseteq RunOutcomes
    BY DEF RunOutcomes
  <2>. QED  BY <2>1 DEF Pregame
<1>3. step' = [step EXCEPT ![r] = "commit"]
  BY <1>2 DEF Concludes, To
<1>4. ObservationsAre'
  BY <1>1, <1>3, ObservationsStay DEF Decided
<1>. QED  BY <1>1, <1>2, <1>4, DecisionKeeps

\* What is compared is a success of the history from before kickoff and a run from after it.
LEMMA PostgameKeeps ==
  ASSUME AuditInv, WorkersLock', NEW r \in Runs, Postgame(r)
  PROVE  AuditInv'
<1>1. /\ step[r] = "hof"
      /\ UNCHANGED <<now, kind, observedAt, payload, prior, seen, history, tables, changes, views>>
  BY DEF Postgame
<1>2. PICK outcome \in RunOutcomes : Concludes(r, outcome)
  <2>1. {"SUCCESS", "NORMALIZATION_FAILURE", "REFERENCE_FAILURE", "PERSISTENCE_FAILURE"} \subseteq RunOutcomes
    BY DEF RunOutcomes
  <2>. QED  BY <2>1 DEF Postgame
<1>3. step' = [step EXCEPT ![r] = "commit"]
  BY <1>2 DEF Concludes, To
<1>4. CASE observations' = observations
  <2>1. ObservationsAre'
    BY <1>1, <1>3, <1>4, ObservationsStay DEF Decided
  <2>. QED  BY <1>1, <1>2, <2>1, DecisionKeeps
<1>5. CASE /\ SelectedPregame(history) # NoRun /\ ~(observedAt[r] <= Kickoff)
           /\ observations' = observations \cup {Observation(SelectedPregame(history), r)}
  <2>1. \E i \in Successes(history) : history[i].run = SelectedPregame(history) /\ history[i].observed < Kickoff
    <3>1. history \in Seq(RunRows)
      BY DEF AuditInv, AuditTypes
    <3>2. Pregames(history) # {} /\ SelectedPregame(history) = history[Max(Pregames(history))].run
      BY <1>5 DEF SelectedPregame
    <3>3. Pregames(history) \subseteq 0..Len(history) /\ Len(history) \in Nat
      BY <3>1 DEF Pregames, Successes
    <3>4. PICK x \in Pregames(history) : \A y \in Pregames(history) : y <= x
      BY <3>2, <3>3, GreatestElement
    <3>5. \A y \in Pregames(history) : x >= y
      BY <3>3, <3>4
    <3>6. Max(Pregames(history)) \in Pregames(history)
      BY <3>4, <3>5 DEF Max
    <3>. QED  BY <3>2, <3>6 DEF Pregames
  <2>2. Kickoff < observedAt[r]
    BY <1>5, AuditAssumption DEF AuditInv, AuditTypes
  <2>3. step'[r] \in Decided /\ \A v \in Runs : step[v] \in Decided => step'[v] \in Decided
    BY <1>3 DEF AuditInv, AuditTypes, Decided
  <2>4. \A o \in observations' : o \in observations \/ (o.pre = SelectedPregame(history) /\ o.post = r)
    BY <1>5 DEF Observation
  <2>5. ObservationsAre'
    BY <1>1, <2>1, <2>2, <2>3, <2>4 DEF AuditInv, ObservationsAre, Successes
  <2>. QED  BY <1>1, <1>2, <2>5, DecisionKeeps
<1>. QED  BY <1>4, <1>5 DEF Postgame

\* The row is appended to the history that is still the one read.
LEMMA ReadHistoryKeeps ==
  ASSUME AuditInv, WorkersLock', NEW r \in Runs, ReadHistory(r)
  PROVE  AuditInv'
<1>. USE DEF Early, Decided, Ended, Ongoing
<1>1. step[r] = "commit" /\ step' = [step EXCEPT ![r] = "committing"] /\ verdict' = verdict
  BY DEF ReadHistory, To, AuditInv, AuditTypes
<1>2. /\ seen' = [seen EXCEPT ![r] = history]
      /\ UNCHANGED <<now, kind, observedAt, payload, prior, history, tables, changes, observations, views>>
  BY DEF ReadHistory, fileVars
<1>3. AuditTypes'
  BY <1>1, <1>2 DEF AuditInv, AuditTypes
<1>4. LeavesOthers(r)
  BY <1>1, <1>2 DEF LeavesOthers, AuditInv, AuditTypes
<1>5. AppendedSoFar(r)'
  <2>1. verdict[r] = "SUCCESS" => WholeSnapshot(r, LatestSuccess(history))
    BY <1>1 DEF AuditInv, AppendedSoFar
  <2>2. step'[r] = "committing" /\ seen'[r] = history
    BY <1>1, <1>2 DEF AuditInv, AuditTypes
  <2>. QED  BY <1>1, <1>2, <2>1, <2>2, WholeStays DEF AppendedSoFar
<1>6. ObservationsAre'
  BY <1>1, <1>2, ObservationsStay
<1>. QED  BY <1>1, <1>2, <1>3, <1>4, <1>5, <1>6, OngoingKeeps

\* What two sequences begin with alike is the same part of either.
LEMMA PrefixStays ==
  ASSUME NEW S, NEW s \in Seq(S), NEW t \in Seq(S), NEW k \in Nat,
         k <= Len(s), k <= Len(t), \A i \in 1..k : t[i] = s[i]
  PROVE  SubSeq(t, 1, k) = SubSeq(s, 1, k)
<1>1. \A i \in 1..k : s[i] \in S /\ t[i] \in S
  OBVIOUS
<1>2. SubSeq(s, 1, k) \in Seq(S) /\ SubSeq(t, 1, k) \in Seq(S)
  BY <1>1, SubSeqProperties
<1>3. Len(SubSeq(s, 1, k)) = k /\ Len(SubSeq(t, 1, k)) = k
  OBVIOUS
<1>4. \A i \in 1..k : SubSeq(s, 1, k)[i] = s[i] /\ SubSeq(t, 1, k)[i] = t[i]
  OBVIOUS
<1>. QED  BY <1>2, <1>3, <1>4, SeqEqual

LEMMA ReplaceHistoryKeeps ==
  ASSUME AuditInv, WorkersLock', NEW r \in Runs, ReplaceHistory(r)
  PROVE  AuditInv'
<1>. DEFINE n == Len(history)
<1>1. step[r] = "committing" /\ step' = [step EXCEPT ![r] = "views"]
  BY DEF ReplaceHistory, To, AuditInv, AuditTypes, Early, Decided, Ended
<1>2. UNCHANGED <<now, kind, observedAt, payload, prior, seen, verdict, tables, changes, observations, views>>
  BY DEF ReplaceHistory, runVars
<1>3. history' = Append(history, Row(r))
  BY <1>1 DEF ReplaceHistory, AuditInv, AppendedSoFar
<1>4. step'[r] = "views" /\ \A v \in Runs \ {r} : step'[v] = step[v]
  BY <1>1 DEF AuditInv, AuditTypes
<1>5. history \in Seq(RunRows) /\ Row(r) \in RunRows /\ Row(r).run = r /\ Row(r).outcome = verdict[r]
  BY DEF AuditInv, AuditTypes, Row, RunRows
<1>6. /\ history' \in Seq(RunRows) /\ n \in Nat
      /\ DOMAIN history = 1..n /\ DOMAIN history' = 1..(n + 1)
      /\ history'[n + 1] = Row(r) /\ \A i \in 1..n : history'[i] = history[i]
  BY <1>3, <1>5
<1>7. \A i \in 1..n : history[i].run # r /\ history[i].run \in Runs
  <2>1. \A i \in DOMAIN history : history[i].run # r
    BY <1>1, OngoingIs DEF Ongoing
  <2>2. \A i \in 1..n : history[i] \in RunRows
    BY <1>5
  <2>. QED  BY <1>6, <2>1, <2>2 DEF RunRows
<1>8. \A i \in 1..(n + 1) : i \in 1..n \/ i = n + 1
  BY <1>6
<1>0. n = Len(history) /\ n + 1 = Len(history')
  BY <1>3, <1>5
<1>. HIDE DEF n
<1>9. Successes(history)' = Successes(history) \cup (IF verdict[r] = "SUCCESS" THEN {n + 1} ELSE {})
  <2>1. \A i : i \in Successes(history)' <=> i \in 1..(n + 1) /\ history'[i].outcome = "SUCCESS"
    BY <1>6 DEF Successes
  <2>2. \A i : i \in Successes(history) <=> i \in 1..n /\ history[i].outcome = "SUCCESS"
    BY <1>6 DEF Successes
  <2>3. n + 1 \in 1..(n + 1) /\ 1..n \subseteq 1..(n + 1)
    BY <1>6
  <2>. QED  BY <1>5, <1>6, <1>8, <2>1, <2>2, <2>3
<1>10. AuditTypes'
  <2>1. step' \in [Runs -> Early \cup {"hof"} \cup Decided]
    BY <1>1 DEF AuditInv, AuditTypes, Decided, Ended
  <2>. QED  BY <1>2, <1>6, <2>1 DEF AuditInv, AuditTypes
<1>11. ASSUME NEW v \in Runs PROVE AppendedSoFar(v)'
  <2>1. CASE v = r
    <3>1. n + 1 \in DOMAIN history' /\ history'[n + 1].run = r
      BY <1>5, <1>6
    <3>. QED  BY <1>4, <2>1, <3>1 DEF AppendedSoFar, Early
  <2>2. CASE v # r
    <3>1. step'[v] \notin Working /\ step'[v] = step[v]
      BY <1>1, <1>4, <2>2, OngoingIs DEF Ongoing
    <3>2. step[v] \in Early => \A c \in changes' : c.run # v
      BY <1>2 DEF AuditInv, AppendedSoFar
    <3>. QED  BY <3>1, <3>2 DEF AppendedSoFar, Working
  <2>. QED  BY <2>1, <2>2
<1>12. RowsAreOfRuns'
  <2>1. ASSUME NEW i \in DOMAIN history'
        PROVE  (step[history[i].run] \in Ended /\ history[i] = Row(history[i].run))'
    <3>0. \A v : Row(v)' = Row(v)
      BY <1>2 DEF Row
    <3>1. CASE i \in 1..n
      <4>1. history'[i] = history[i] /\ step[history[i].run] \in Ended /\ history[i] = Row(history[i].run)
        BY <1>6, <3>1 DEF AuditInv, RowsAreOfRuns
      <4>2. PICK v \in Runs \ {r} : v = history[i].run
        BY <1>7, <3>1
      <4>. QED  BY <1>4, <3>0, <4>1, <4>2
    <3>2. CASE i = n + 1
      <4>1. history'[i] = Row(r) /\ history'[i].run = r
        BY <1>5, <1>6, <3>2
      <4>2. step'[r] \in Ended
        BY <1>4 DEF Ended
      <4>. QED  BY <3>0, <4>1, <4>2
    <3>. QED  BY <1>6, <1>8, <3>1, <3>2
  <2>2. ASSUME NEW i \in DOMAIN history', NEW j \in DOMAIN history', history'[i].run = history'[j].run
        PROVE  i = j
    <3>1. \A k, l \in 1..n : history[k].run = history[l].run => k = l
      BY <1>6 DEF AuditInv, RowsAreOfRuns
    <3>2. i \in 1..n \/ i = n + 1
      BY <1>6, <1>8
    <3>3. j \in 1..n \/ j = n + 1
      BY <1>6, <1>8
    <3>. QED  BY <1>5, <1>6, <1>7, <2>2, <3>1, <3>2, <3>3
  <2>. QED  BY <2>1, <2>2 DEF RowsAreOfRuns
<1>13. \A v, x : WholeSnapshot(v, x)' <=> WholeSnapshot(v, x)
  BY <1>2 DEF WholeSnapshot, Changes, SnapshotOf, ActivePlayers
<1>14. SuccessesAreWhole'
  <2>. SUFFICES ASSUME NEW i \in Successes(history)'
                PROVE  WholeSnapshot(history[i].run, LatestSuccess(SubSeq(history, 1, i - 1)))'
    BY DEF SuccessesAreWhole
  <2>1. CASE i \in Successes(history)
    <3>1. i \in 1..n
      BY <1>6, <2>1 DEF Successes
    <3>2. SubSeq(history', 1, i - 1) = SubSeq(history, 1, i - 1)
      <4>1. i - 1 \in Nat /\ i - 1 <= n /\ i - 1 <= n + 1 /\ 1..(i - 1) \subseteq 1..n
        BY <1>6, <3>1
      <4>2. \A j \in 1..(i - 1) : history'[j] = history[j]
        BY <1>6, <4>1
      <4>. QED  BY <1>0, <1>5, <1>6, <4>1, <4>2, PrefixStays
    <3>3. PICK v, x : v = history[i].run /\ x = LatestSuccess(SubSeq(history, 1, i - 1))
      OBVIOUS
    <3>4. WholeSnapshot(v, x)
      BY <2>1, <3>3 DEF AuditInv, SuccessesAreWhole
    <3>5. LatestSuccess(SubSeq(history', 1, i - 1)) = x
      BY <3>2, <3>3
    <3>6. LatestSuccess(SubSeq(history, 1, i - 1))' = x
      BY <3>5
    <3>. QED  BY <1>6, <1>13, <3>1, <3>3, <3>4, <3>6
  <2>2. CASE i = n + 1 /\ verdict[r] = "SUCCESS"
    <3>1. SubSeq(history', 1, i - 1) = history
      <4>1. i - 1 = n /\ n <= n + 1
        BY <1>6, <2>2
      <4>2. SubSeq(history', 1, n) = SubSeq(history, 1, n)
        BY <1>0, <1>5, <1>6, <4>1, PrefixStays
      <4>3. SubSeq(history, 1, n) = history
        BY <1>0, <1>5, SubSeqFull
      <4>. QED  BY <4>1, <4>2, <4>3
    <3>2. PICK x : x = LatestSuccess(history)
      OBVIOUS
    <3>3. WholeSnapshot(r, x)
      BY <1>1, <2>2, <3>2 DEF AuditInv, AppendedSoFar
    <3>4. LatestSuccess(SubSeq(history, 1, i - 1))' = x
      BY <3>1, <3>2
    <3>. QED  BY <1>5, <1>6, <1>13, <2>2, <3>3, <3>4
  <2>. QED  BY <1>9, <2>1, <2>2
<1>15. ObservationsAre'
  <2>1. step'[r] \in Decided /\ \A v \in Runs : step[v] \in Decided => step'[v] \in Decided
    BY <1>4 DEF Decided, Ended
  <2>2. \A i \in Successes(history) : i \in Successes(history)' /\ history'[i] = history[i]
    BY <1>6, <1>9 DEF Successes
  <2>3. ObservationsAre
    BY DEF AuditInv
  <2>. QED  BY <1>2, <2>1, <2>2, <2>3 DEF ObservationsAre
<1>16. ViewIsOfSuccess'
  <2>1. \A i \in Successes(history) : i \in Successes(history)' /\ history'[i] = history[i]
    BY <1>6, <1>9 DEF Successes
  <2>. QED  BY <1>2, <2>1 DEF AuditInv, ViewIsOfSuccess
<1>. QED  BY <1>10, <1>11, <1>12, <1>14, <1>15, <1>16 DEF AuditInv

\* Every step keeps what the history says, as long as nobody gives up.
LEMMA AuditKeeps ==
  ASSUME AuditInv, NobodyGivesUp', [AuditNext]_<<lockVars, auditVars>>
  PROVE  AuditInv'
<1>1. WorkersLock'
  <2>1. LockInv
    BY DEF AuditInv, AuditTypes, LockInv, Early, Decided, Ended, Working, Outside
  <2>. QED  BY <2>1, AuditStepsLock, LockNextKeeps DEF LockInv
<1>2. CASE Tick \/ UNCHANGED <<lockVars, auditVars>>
  <2>1. now' \in Nat
    BY <1>2 DEF Tick, auditVars, AuditInv, AuditTypes
  <2>2. UNCHANGED <<step, kind, observedAt, payload, prior, seen, verdict, history, tables, changes, observations, views>>
    BY <1>2 DEF Tick, lockVars, runVars, fileVars, auditVars
  <2>3. AuditTypes' /\ RowsAreOfRuns' /\ ObservationsAre' /\ ViewIsOfSuccess'
    BY <2>1, <2>2 DEF AuditInv, AuditTypes, RowsAreOfRuns, ObservationsAre, ViewIsOfSuccess, Row, Successes
  <2>4. \A v, x : WholeSnapshot(v, x)' <=> WholeSnapshot(v, x)
    BY <2>2 DEF WholeSnapshot, Changes, SnapshotOf, ActivePlayers
  <2>5. SuccessesAreWhole'
    <3>. SUFFICES ASSUME NEW i \in Successes(history)
                  PROVE  WholeSnapshot(history[i].run, LatestSuccess(SubSeq(history, 1, i - 1)))'
      BY <2>2 DEF SuccessesAreWhole, Successes
    <3>1. PICK v, x : v = history[i].run /\ x = LatestSuccess(SubSeq(history, 1, i - 1))
      OBVIOUS
    <3>2. WholeSnapshot(v, x)
      BY <3>1 DEF AuditInv, SuccessesAreWhole
    <3>. QED  BY <2>2, <2>4, <3>1, <3>2
  <2>6. \A r \in Runs : AppendedSoFar(r)'
    BY <2>2, WholeStays DEF AuditInv, AppendedSoFar, LatestSuccess, Successes
  <2>. QED  BY <1>1, <2>3, <2>5, <2>6 DEF AuditInv
<1>3. ASSUME NEW r \in Runs, Locks(r) \/ Killed(r) PROVE AuditInv'
  BY <1>1, <1>3, LocksKeep, DeathsKeep
<1>4. ASSUME NEW r \in Runs, Audit(r) PROVE AuditInv'
  <2>1. CASE Verify(r)
    BY <1>1, <2>1, VerifyKeeps
  <2>2. CASE Observe(r)
    BY <1>1, <2>2, ObserveKeeps
  <2>3. CASE Attempt(r)
    BY <1>1, <2>3, AttemptKeeps
  <2>4. CASE Parse(r)
    BY <1>1, <2>4, ParseKeeps
  <2>5. CASE AppendActive(r)
    BY <1>1, <2>5, AppendActiveKeeps
  <2>6. CASE AppendDerived(r)
    BY <1>1, <2>6, AppendDerivedKeeps
  <2>7. CASE AppendChanges(r)
    BY <1>1, <2>7, AppendChangesKeeps
  <2>8. CASE Pregame(r)
    BY <1>1, <2>8, PregameKeeps
  <2>9. CASE Postgame(r)
    BY <1>1, <2>9, PostgameKeeps
  <2>10. CASE AppendFails(r) \/ ReplaceFails(r)
    BY <1>1, <2>10, FailuresKeep
  <2>11. CASE ReadHistory(r)
    BY <1>1, <2>11, ReadHistoryKeeps
  <2>12. CASE ReplaceHistory(r)
    BY <1>1, <2>12, ReplaceHistoryKeeps
  <2>13. CASE RefreshViews(r)
    BY <1>1, <2>13, RefreshViewsKeep
  <2>14. CASE EmitStatus(r)
    BY <2>14 DEF EmitStatus, AuditInv, AuditTypes, Early, Decided, Ended
  <2>. QED  BY <1>4, <2>1, <2>2, <2>3, <2>4, <2>5, <2>6, <2>7, <2>8, <2>9, <2>10, <2>11, <2>12, <2>13, <2>14 DEF Audit
<1>. QED  BY <1>2, <1>3, <1>4 DEF AuditNext

\* What the invariant says of the history.
LEMMA AuditImplies == AuditInv => HistoryIsTrue
<1>. SUFFICES ASSUME AuditInv PROVE HistoryIsTrue
  OBVIOUS
<1>1. \A i \in Successes(history) :
        LET r == history[i].run
        IN /\ \A t \in DOMAIN tables : r \in tables[t]
           /\ {c \in changes : c.run = r} = Changes(r, LatestSuccess(SubSeq(history, 1, i - 1)))
  BY DEF AuditInv, AuditTypes, SuccessesAreWhole, WholeSnapshot
<1>2. ASSUME NEW o \in observations
      PROVE  observedAt[o.pre] < Kickoff /\ Kickoff < observedAt[o.post]
             /\ \E i \in Successes(history) : history[i].run = o.pre
  <2>1. PICK i \in Successes(history) : history[i].run = o.pre /\ history[i].observed < Kickoff
    BY DEF AuditInv, ObservationsAre
  <2>2. history[i] = Row(o.pre)
    BY <2>1 DEF AuditInv, RowsAreOfRuns, Successes
  <2>3. history[i].observed = observedAt[o.pre]
    BY <2>2 DEF Row
  <2>. QED  BY <2>1, <2>3 DEF AuditInv, ObservationsAre
<1>3. \A i, j \in DOMAIN history : history[i].run = history[j].run => i = j
  BY DEF AuditInv, RowsAreOfRuns
<1>. QED  BY <1>1, <1>2, <1>3 DEF AuditInv, ViewIsOfSuccess, HistoryIsTrue

\* While no run gives up at a held lock, whatever dies or fails where: what the history
\* says succeeded is in every table, with the changes that lead to it from the success
\* before it; what is compared around a game are a success from before kickoff and a run
\* from after it; and the latest view is of a success (run_audit, atomic_append_run_history,
\* select_pregame_from_history).
THEOREM HistoryTrue == AuditSpec /\ []NobodyGivesUp => []HistoryIsTrue
<1>1. AuditInv /\ NobodyGivesUp' /\ [AuditNext]_<<lockVars, auditVars>> => AuditInv'
  BY AuditKeeps
<1>2. AuditSpec /\ []NobodyGivesUp => []AuditInv
  BY AuditInitially, <1>1, PTL DEF AuditSpec
<1>. QED  BY <1>2, AuditImplies, PTL

\* Runs that wait for the lock for as long as it takes do not.
LEMMA PatientWait ==
  ASSUME Runs \subseteq Patient
  PROVE  AuditSpec => []NobodyGivesUp
<1>1. AuditInit => LockInv /\ NobodyGivesUp
  BY LockInitially DEF AuditInit, LockInit, NobodyGivesUp
<1>2. ASSUME LockInv, NobodyGivesUp, [LockNext]_lockVars PROVE NobodyGivesUp'
  <2>1. CASE UNCHANGED lockVars
    BY <1>2, <2>1 DEF lockVars, NobodyGivesUp
  <2>2. ASSUME NEW r \in Runs, LockStep(r) PROVE NobodyGivesUp'
    <3>. USE <1>2 DEF LockInv, NobodyGivesUp, To, GiveUp
    <3>1. CASE StartLock(r) \/ Sweep(r) \/ WriteOwner(r) \/ Unlock(r) \/ ClearOwner(r)
      BY <3>1 DEF StartLock, Sweep, WriteOwner, Unlock, ClearOwner
    <3>2. CASE Look(r)
      BY <3>2 DEF Look
    <3>3. CASE Create(r)
      BY <3>3 DEF Create
    <3>4. CASE Flock(r)
      BY <3>4 DEF Flock
    <3>. QED  BY <2>2, <3>1, <3>2, <3>3, <3>4 DEF LockStep
  <2>3. ASSUME NEW r \in Runs, Die(r) \/ Work(r) PROVE NobodyGivesUp'
    BY <1>2, <2>3 DEF LockInv, NobodyGivesUp, Die, Work, To, Working
  <2>. QED  BY <1>2, <2>1, <2>2, <2>3 DEF LockNext
<1>3. LockInv /\ NobodyGivesUp /\ [AuditNext]_<<lockVars, auditVars>> => (LockInv /\ NobodyGivesUp)'
  BY <1>2, AuditStepsLock, LockNextKeeps
<1>. QED  BY <1>1, <1>3, PTL DEF AuditSpec

COROLLARY PatientHistoryTrue ==
  ASSUME Runs \subseteq Patient
  PROVE  AuditSpec => []HistoryIsTrue
BY PatientWait, HistoryTrue, PTL
-----------------------------------------------------------------------------
(***************************************************************************)
(* The news                                                                *)
(***************************************************************************)
Writers == {"daily", "publisher"}
Articles == [published : Int, generated : Int, by : {"daily", "editor"}, sound : BOOLEAN]
Submissions == [article : Articles, submitted : Int] \cup {NoSubmission}
Places == {"idle", "write", "archive", "record", "publish", "stage", "receipt"}
JobRecords == [at : Places, prior : Articles \cup {NoArticle} \cup Submissions,
               article : Articles \cup {NoArticle}]

NewsTypes ==
  /\ clock \in Int
  /\ latest \in Articles \cup {NoArticle}
  /\ source \in Submissions /\ receipt \in Submissions /\ inbox \in Submissions
  /\ newsJob \in [Jobs -> JobRecords]

\* What a writer is about to publish was verified, and where the jobs do not overlap it
\* is later than what is published now.
InHand ==
  \A j \in Writers :
    /\ newsJob[j].at \in {"write", "archive", "record", "publish"} => newsJob[j].article \in Articles
    /\ newsJob[j].at \in {"archive", "record", "publish"} =>
         /\ newsJob[j].article.sound
         /\ mood = "apart" => newsJob[j].article.published > latest.published

\* Past the archive, it is in the archive.
InTheArchive ==
  \A j \in Writers : newsJob[j].at \in {"record", "publish"} =>
    /\ newsJob[j].article.published \in DOMAIN archive
    /\ archive[newsJob[j].article.published] = newsJob[j].article

\* Apart means that one writer runs, and that what the daily job read is still so.
OneWriter ==
  mood = "apart" =>
    /\ \A j, k \in Writers : newsJob[j].at # "idle" /\ newsJob[k].at # "idle" => j = k
    /\ newsJob["daily"].at = "write" => newsJob["daily"].prior = latest

\* Nobody but the courier replaces the inbox.
Staged ==
  /\ newsJob["courier"].at = "stage" => newsJob["courier"].prior \in Submissions
  /\ newsJob["courier"].at = "receipt" => newsJob["courier"].prior = inbox

NewsInv == NewsTypes /\ InHand /\ InTheArchive /\ OneWriter /\ Staged

\* Changing the place of a job leaves its hands and the other jobs alone.
LEMMA MoveJobIs ==
  ASSUME newsJob \in [Jobs -> JobRecords], NEW j \in Jobs, NEW there \in Places, MoveJob(j, there)
  PROVE  /\ newsJob' \in [Jobs -> JobRecords]
         /\ newsJob'[j].at = there /\ newsJob'[j].prior = newsJob[j].prior
         /\ newsJob'[j].article = newsJob[j].article
         /\ \A k \in Jobs \ {j} : newsJob'[k] = newsJob[k]
  BY DEF MoveJob, JobRecords

\* The same of a job that ends or takes something up.
LEMMA SetJobIs ==
  ASSUME newsJob \in [Jobs -> JobRecords], NEW j \in Jobs, NEW rec \in JobRecords,
         newsJob' = [newsJob EXCEPT ![j] = rec]
  PROVE  /\ newsJob' \in [Jobs -> JobRecords]
         /\ newsJob'[j] = rec
         /\ \A k \in Jobs \ {j} : newsJob'[k] = newsJob[k]
  OBVIOUS

\* A job at rest has nothing in hand.
LEMMA IdleIs == Idle \in JobRecords /\ Idle.at = "idle"
  BY DEF Idle, JobRecords, Places

\* At the start nobody has anything in hand.
LEMMA NewsInitially == NewsInit => NewsInv
<1>. SUFFICES ASSUME NewsInit PROVE NewsInv
  OBVIOUS
<1>1. \A j \in Jobs : newsJob[j] = Idle
  BY DEF NewsInit
<1>2. \A j \in Writers : newsJob[j].at = "idle"
  BY <1>1, IdleIs DEF Writers, Jobs
<1>3. newsJob["courier"].at = "idle" /\ newsJob["daily"].at = "idle"
  BY <1>1, IdleIs DEF Jobs
<1>4. NewsTypes
  BY IdleIs DEF NewsInit, NewsTypes, Submissions
<1>. QED  BY <1>2, <1>3, <1>4 DEF NewsInv, InHand, InTheArchive, OneWriter, Staged

\* A step after which no writer has more in hand, and which publishes nothing, is harmless.
LEMMA EndedKeeps ==
  ASSUME NewsInv, NEW j \in Jobs, Ends(j), UNCHANGED <<clock, latest, archive, mood, source, receipt>>,
         inbox' = inbox \/ j = "courier", inbox' \in Submissions
  PROVE  NewsInv'
<1>1. /\ newsJob' \in [Jobs -> JobRecords] /\ newsJob'[j] = Idle
      /\ \A k \in Jobs \ {j} : newsJob'[k] = newsJob[k]
  BY IdleIs, SetJobIs DEF NewsInv, NewsTypes, Ends
<1>2. newsJob'[j].at = "idle"
  BY <1>1, IdleIs
<1>3. \A k \in Jobs : newsJob'[k].at # "idle" => k # j /\ newsJob'[k] = newsJob[k]
  BY <1>1, <1>2
<1>4. NewsTypes'
  BY <1>1 DEF NewsInv, NewsTypes
<1>5. InHand' /\ InTheArchive'
  BY <1>3 DEF NewsInv, InHand, InTheArchive, Writers, Jobs
<1>6. OneWriter'
  BY <1>3 DEF NewsInv, OneWriter, Writers, Jobs
<1>7. Staged'
  BY <1>3 DEF NewsInv, Staged, Jobs
<1>. QED  BY <1>4, <1>5, <1>6, <1>7 DEF NewsInv

\* The steps of the writers up to the archive.
LEMMA WritersKeep == NewsInv /\ (ReadPrior \/ WriteArticle \/ TakeInbox) => NewsInv'
<1>. SUFFICES ASSUME NewsInv, ReadPrior \/ WriteArticle \/ TakeInbox PROVE NewsInv'
  OBVIOUS
<1>1. UNCHANGED <<latest, archive, research, source, receipt, inbox, taken, mood, clock>>
  BY DEF ReadPrior, WriteArticle, TakeInbox, Files, Around
<1>2. ASSUME NEW j \in Writers, NEW rec \in JobRecords, newsJob' = [newsJob EXCEPT ![j] = rec],
             rec.at \in {"archive", "idle", "write"},
             rec.at = "archive" => /\ rec.article \in Articles /\ rec.article.sound
                                   /\ mood = "apart" => rec.article.published > latest.published,
             mood = "apart" /\ rec.at # "idle" => \A k \in Writers \ {j} : newsJob[k].at = "idle",
             rec.at = "write" => rec.prior = latest /\ rec.article \in Articles
      PROVE  NewsInv'
  <2>1. /\ newsJob' \in [Jobs -> JobRecords] /\ newsJob'[j] = rec
        /\ \A k \in Jobs \ {j} : newsJob'[k] = newsJob[k]
    BY <1>2, SetJobIs DEF NewsInv, NewsTypes, Writers, Jobs
  <2>2. NewsTypes'
    BY <1>1, <2>1 DEF NewsInv, NewsTypes
  <2>3. InHand' /\ InTheArchive'
    BY <1>1, <1>2, <2>1 DEF NewsInv, InHand, InTheArchive, Writers, Jobs
  <2>4. ASSUME mood = "apart" PROVE \A k, l \in Writers : newsJob'[k].at # "idle" /\ newsJob'[l].at # "idle" => k = l
    BY <1>2, <2>1, <2>4 DEF NewsInv, OneWriter, Writers, Jobs
  <2>5. OneWriter'
    BY <1>1, <1>2, <2>1, <2>4 DEF NewsInv, OneWriter, Writers, Jobs
  <2>6. Staged'
    BY <1>1, <2>1 DEF NewsInv, Staged, Writers, Jobs
  <2>. QED  BY <2>2, <2>3, <2>5, <2>6 DEF NewsInv
<1>3. CASE ReadPrior
  <2>. DEFINE rec == [at |-> "write", prior |-> latest,
                      article |-> [published |-> clock, generated |-> clock, by |-> "daily", sound |-> TRUE]]
  <2>1. newsJob' = [newsJob EXCEPT !["daily"] = rec] /\ Starts("daily")
    BY <1>3 DEF ReadPrior
  <2>2. rec \in JobRecords
    BY DEF NewsInv, NewsTypes, JobRecords, Places, Articles
  <2>3. mood = "apart" => \A k \in Writers : newsJob[k].at = "idle"
    BY <2>1, IdleIs DEF Starts, Writers
  <2>4. rec.at = "write" /\ rec.prior = latest /\ rec.article \in Articles
    BY DEF NewsInv, NewsTypes, Articles
  <2>. HIDE DEF rec
  <2>. QED  BY <1>2, <2>1, <2>2, <2>3, <2>4 DEF Writers
<1>4. CASE WriteArticle
  <2>. DEFINE d == newsJob["daily"]
  <2>1. d \in JobRecords /\ d.at = "write"
    BY <1>4 DEF WriteArticle, NewsInv, NewsTypes, Jobs
  <2>2. PICK published \in {d.article.generated - Window - 1, d.article.generated, clock}, sound \in BOOLEAN :
          newsJob' = [newsJob EXCEPT !["daily"] =
             IF published >= 0 /\ Verified([d.article EXCEPT !.published = published, !.sound = sound], d.prior)
             THEN [at |-> "archive", prior |-> d.prior,
                   article |-> [d.article EXCEPT !.published = published, !.sound = sound]] ELSE Idle]
    BY <1>4 DEF WriteArticle
  <2>. DEFINE a == [d.article EXCEPT !.published = published, !.sound = sound]
  <2>3. CASE published >= 0 /\ Verified(a, d.prior)
    <3>. DEFINE rec == [at |-> "archive", prior |-> d.prior, article |-> a]
    <3>1. newsJob' = [newsJob EXCEPT !["daily"] = rec]
      BY <2>2, <2>3
    <3>2. a \in Articles /\ a.sound
      <4>1. d.article \in Articles
        BY <2>1 DEF NewsInv, InHand, Writers
      <4>. DEFINE b == [d.article EXCEPT !.published = published]
      <4>2. published \in Int
        BY <2>1, <4>1 DEF NewsInv, NewsTypes, Articles, Window
      <4>3. b \in Articles
        BY <4>1, <4>2 DEF Articles
      <4>4. a = [b EXCEPT !.sound = sound]
        BY <4>1 DEF Articles
      <4>. HIDE DEF b
      <4>5. a \in Articles
        BY <4>3, <4>4 DEF Articles
      <4>. QED  BY <4>5, <2>3 DEF Verified
    <3>3. rec \in JobRecords /\ rec.at = "archive" /\ rec.article = a
      BY <2>1, <3>2 DEF JobRecords, Places
    <3>4. mood = "apart" => a.published > latest.published
      BY <2>1, <2>3 DEF Verified, NewsInv, OneWriter
    <3>5. mood = "apart" => \A k \in Writers \ {"daily"} : newsJob[k].at = "idle"
      BY <2>1 DEF NewsInv, OneWriter, Writers
    <3>. HIDE DEF rec, a
    <3>. QED  BY <1>2, <3>1, <3>2, <3>3, <3>4, <3>5 DEF Writers
  <2>4. CASE ~(published >= 0 /\ Verified(a, d.prior))
    <3>1. Ends("daily")
      BY <2>2, <2>4 DEF Ends
    <3>. QED  BY <1>1, <3>1, EndedKeeps DEF Jobs, NewsInv, NewsTypes
  <2>. QED  BY <2>3, <2>4
<1>5. CASE TakeInbox
  <2>. DEFINE rec == [at |-> "archive", prior |-> latest, article |-> inbox.article]
  <2>1. newsJob' = [newsJob EXCEPT !["publisher"] = rec] /\ Starts("publisher")
        /\ inbox # NoSubmission /\ Verified(inbox.article, latest)
    BY <1>5 DEF TakeInbox
  <2>2. inbox.article \in Articles /\ inbox.article.sound /\ inbox.article.published > latest.published
    BY <2>1 DEF Verified, NewsInv, NewsTypes, Submissions
  <2>3. rec \in JobRecords /\ rec.at = "archive" /\ rec.article = inbox.article
    BY <2>2 DEF NewsInv, NewsTypes, JobRecords, Places
  <2>4. mood = "apart" => \A k \in Writers : newsJob[k].at = "idle"
    BY <2>1, IdleIs DEF Starts, Writers
  <2>. HIDE DEF rec
  <2>. QED  BY <1>2, <2>1, <2>2, <2>3, <2>4 DEF Writers
<1>. QED  BY <1>3, <1>4, <1>5

\* The steps that archive, record and publish, those of the courier, and time.
LEMMA NewsNextKeeps == NewsInv /\ [NewsNext]_newsVars => NewsInv'
<1>. SUFFICES ASSUME NewsInv, [NewsNext]_newsVars PROVE NewsInv'
  OBVIOUS
<1>1. CASE UNCHANGED newsVars
  BY <1>1 DEF newsVars, NewsInv, NewsTypes, InHand, InTheArchive, OneWriter, Staged
<1>2. CASE ReadPrior \/ WriteArticle \/ TakeInbox
  BY <1>2, WritersKeep
<1>3. ASSUME NEW j \in Writers, Archived(j) PROVE NewsInv'
  <2>. DEFINE a == newsJob[j].article
  <2>1. newsJob[j].at = "archive" /\ UNCHANGED <<latest, source, receipt, inbox, mood, clock>>
    BY <1>3 DEF Archived, Around
  <2>2. CASE Ends(j)
    <3>1. UNCHANGED archive
      <4>1. ASSUME MoveJob(j, "record") PROVE FALSE
        <5>1. newsJob'[j].at = "record"
          BY <4>1, MoveJobIs DEF NewsInv, NewsTypes, Writers, Jobs, Places
        <5>2. newsJob'[j].at = "idle"
          BY <2>2, IdleIs, SetJobIs DEF Ends, NewsInv, NewsTypes, Writers, Jobs
        <5>. QED  BY <5>1, <5>2
      <4>. QED  BY <1>3, <4>1 DEF Archived
    <3>. QED  BY <2>1, <2>2, <3>1, EndedKeeps DEF Writers, Jobs, NewsInv, NewsTypes
  <2>3. CASE MoveJob(j, "record")
    <3>1. /\ newsJob' \in [Jobs -> JobRecords]
          /\ newsJob'[j].at = "record" /\ newsJob'[j].prior = newsJob[j].prior
          /\ newsJob'[j].article = a
          /\ \A k \in Jobs \ {j} : newsJob'[k] = newsJob[k]
      BY <2>3, MoveJobIs DEF NewsInv, NewsTypes, Writers, Jobs, Places
    <3>2. /\ a.published \in DOMAIN archive' /\ archive'[a.published] = a
          /\ \A t \in DOMAIN archive : t \in DOMAIN archive' /\ archive'[t] = archive[t]
      <4>1. CASE a.published \in DOMAIN archive /\ archive[a.published] = a
        <5>1. archive' = archive
          BY <1>3, <4>1 DEF Archived
        <5>. QED  BY <4>1, <5>1
      <4>2. CASE a.published \in DOMAIN archive /\ archive[a.published] # a
        <5>1. Ends(j)
          BY <1>3, <4>2 DEF Archived
        <5>2. newsJob'[j].at = "idle"
          BY <5>1, IdleIs, SetJobIs DEF Ends, NewsInv, NewsTypes, Writers, Jobs
        <5>. QED  BY <3>1, <5>2
      <4>3. CASE a.published \notin DOMAIN archive
        <5>1. archive' = [t \in DOMAIN archive \cup {a.published} |-> IF t = a.published THEN a ELSE archive[t]]
          BY <1>3, <4>3 DEF Archived
        <5>. QED  BY <4>3, <5>1
      <4>. QED  BY <4>1, <4>2, <4>3
    <3>. HIDE DEF a
    <3>3. NewsTypes'
      BY <2>1, <3>1 DEF NewsInv, NewsTypes
    <3>4. InHand'
      BY <2>1, <3>1 DEF NewsInv, InHand, Writers, Jobs, a
    <3>5. InTheArchive'
      BY <2>1, <3>1, <3>2 DEF NewsInv, InTheArchive, Writers, Jobs
    <3>6. OneWriter'
      BY <2>1, <3>1 DEF NewsInv, OneWriter, Writers, Jobs
    <3>7. Staged'
      BY <2>1, <3>1 DEF NewsInv, Staged, Writers, Jobs
    <3>. QED  BY <3>3, <3>4, <3>5, <3>6, <3>7 DEF NewsInv
  <2>. QED  BY <1>3, <2>2, <2>3 DEF Archived
<1>4. ASSUME NEW j \in Writers, Recorded(j) PROVE NewsInv'
  <2>1. newsJob[j].at = "record" /\ UNCHANGED <<latest, archive, source, receipt, inbox, mood, clock>>
        /\ MoveJob(j, "publish")
    BY <1>4 DEF Recorded, Around
  <2>2. /\ newsJob' \in [Jobs -> JobRecords]
        /\ newsJob'[j].at = "publish" /\ newsJob'[j].prior = newsJob[j].prior
        /\ newsJob'[j].article = newsJob[j].article
        /\ \A k \in Jobs \ {j} : newsJob'[k] = newsJob[k]
    BY <2>1, MoveJobIs DEF NewsInv, NewsTypes, Writers, Jobs, Places
  <2>3. NewsTypes'
    BY <2>1, <2>2 DEF NewsInv, NewsTypes
  <2>4. InHand' /\ InTheArchive'
    BY <2>1, <2>2 DEF NewsInv, InHand, InTheArchive, Writers, Jobs
  <2>5. OneWriter'
    BY <2>1, <2>2 DEF NewsInv, OneWriter, Writers, Jobs
  <2>6. Staged'
    BY <2>1, <2>2 DEF NewsInv, Staged, Writers, Jobs
  <2>. QED  BY <2>3, <2>4, <2>5, <2>6 DEF NewsInv
<1>5. ASSUME NEW j \in Writers, Publishes(j) PROVE NewsInv'
  <2>1. newsJob[j].at = "publish" /\ Ends(j) /\ latest' = newsJob[j].article
        /\ UNCHANGED <<archive, source, receipt, inbox, mood, clock>>
    BY <1>5 DEF Publishes, Around
  <2>2. /\ newsJob' \in [Jobs -> JobRecords] /\ newsJob'[j] = Idle
        /\ \A k \in Jobs \ {j} : newsJob'[k] = newsJob[k]
    BY <2>1, IdleIs, SetJobIs DEF NewsInv, NewsTypes, Ends, Writers, Jobs
  <2>3. \A k \in Jobs : newsJob'[k].at # "idle" => k # j /\ newsJob'[k] = newsJob[k]
    BY <2>2, IdleIs
  <2>4. mood = "apart" => \A k \in Writers : newsJob'[k].at = "idle"
    BY <2>1, <2>2, <2>3 DEF NewsInv, OneWriter, Writers, Jobs
  <2>5. NewsTypes'
    BY <2>1, <2>2 DEF NewsInv, NewsTypes, InHand
  <2>6. InHand' /\ InTheArchive'
    BY <2>1, <2>3, <2>4 DEF NewsInv, InHand, InTheArchive, Writers, Jobs
  <2>7. OneWriter'
    BY <2>1, <2>4 DEF OneWriter, Writers
  <2>8. Staged'
    BY <2>1, <2>3 DEF NewsInv, Staged, Jobs
  <2>. QED  BY <2>5, <2>6, <2>7, <2>8 DEF NewsInv
<1>6. CASE PushSubmission
  <2>1. source' \in Submissions
    BY <1>6 DEF PushSubmission, NewsInv, NewsTypes, Submissions, Articles
  <2>2. UNCHANGED <<mood, clock, latest, archive, receipt, inbox, newsJob>>
    BY <1>6 DEF PushSubmission
  <2>. QED  BY <2>1, <2>2 DEF NewsInv, NewsTypes, InHand, InTheArchive, OneWriter, Staged
<1>7. CASE FetchSource
  <2>. DEFINE rec == [at |-> "stage", prior |-> source, article |-> source.article]
  <2>1. newsJob' = [newsJob EXCEPT !["courier"] = rec]
        /\ UNCHANGED <<mood, clock, latest, archive, source, receipt, inbox>>
    BY <1>7 DEF FetchSource, Files, Around
  <2>2. rec \in JobRecords /\ rec.at = "stage" /\ rec.prior \in Submissions
    BY DEF JobRecords, Places, NewsInv, NewsTypes, Submissions, NoSubmission
  <2>. HIDE DEF rec
  <2>3. /\ newsJob' \in [Jobs -> JobRecords] /\ newsJob'["courier"] = rec
        /\ \A k \in Jobs \ {"courier"} : newsJob'[k] = newsJob[k]
    BY <2>1, <2>2, SetJobIs DEF NewsInv, NewsTypes, Jobs
  <2>. QED  BY <2>1, <2>2, <2>3 DEF NewsInv, NewsTypes, InHand, InTheArchive, OneWriter, Staged, Writers, Jobs
<1>8. CASE StageInbox
  <2>1. newsJob["courier"].at = "stage" /\ inbox' = newsJob["courier"].prior
        /\ UNCHANGED <<mood, clock, latest, archive, source, receipt>>
        /\ (MoveJob("courier", "receipt") \/ Ends("courier"))
    BY <1>8 DEF StageInbox, Around
  <2>2. inbox' \in Submissions
    BY <2>1 DEF NewsInv, Staged
  <2>3. CASE Ends("courier")
    BY <2>1, <2>2, <2>3, EndedKeeps DEF Jobs
  <2>4. CASE MoveJob("courier", "receipt")
    <3>1. /\ newsJob' \in [Jobs -> JobRecords]
          /\ newsJob'["courier"].prior = newsJob["courier"].prior
          /\ \A k \in Jobs \ {"courier"} : newsJob'[k] = newsJob[k]
      BY <2>4, MoveJobIs DEF NewsInv, NewsTypes, Jobs, Places
    <3>. QED  BY <2>1, <2>2, <3>1 DEF NewsInv, NewsTypes, InHand, InTheArchive, OneWriter, Staged, Writers, Jobs
  <2>. QED  BY <2>1, <2>3, <2>4
<1>9. CASE WriteReceipt
  <2>1. newsJob["courier"].at = "receipt" /\ Ends("courier") /\ receipt' = newsJob["courier"].prior
        /\ UNCHANGED <<mood, clock, latest, archive, source, inbox>>
    BY <1>9 DEF WriteReceipt, Around
  <2>2. /\ newsJob' \in [Jobs -> JobRecords] /\ newsJob'["courier"] = Idle
        /\ \A k \in Jobs \ {"courier"} : newsJob'[k] = newsJob[k]
    BY <2>1, IdleIs, SetJobIs DEF NewsInv, NewsTypes, Ends, Jobs
  <2>3. receipt' \in Submissions
    BY <2>1 DEF NewsInv, Staged, NewsTypes
  <2>. QED  BY <2>1, <2>2, <2>3, IdleIs DEF NewsInv, NewsTypes, InHand, InTheArchive, OneWriter, Staged, Writers, Jobs
<1>10. ASSUME NEW j \in Jobs, KillJob(j) PROVE NewsInv'
  <2>1. Ends(j) /\ UNCHANGED <<mood, clock, latest, archive, source, receipt, inbox>>
    BY <1>10 DEF KillJob, Files
  <2>. QED  BY <2>1, EndedKeeps DEF NewsInv, NewsTypes
<1>11. CASE TickNews
  <2>1. clock' \in Int /\ UNCHANGED <<mood, latest, archive, source, receipt, inbox, newsJob>>
    BY <1>11 DEF TickNews, Files, NewsInv, NewsTypes
  <2>. QED  BY <2>1 DEF NewsInv, NewsTypes, InHand, InTheArchive, OneWriter, Staged
<1>. QED  BY <1>1, <1>2, <1>3, <1>4, <1>5, <1>6, <1>7, <1>8, <1>9, <1>10, <1>11 DEF NewsNext, Writers

\* What one step of the news may do to the published article, the archive and the receipt.
NewsStep ==
  /\ latest' # latest =>
        /\ latest'.sound /\ latest'.published \in DOMAIN archive
        /\ mood = "apart" => latest'.published > latest.published /\ archive[latest'.published] = latest'
  /\ mood = "apart" => \A t \in DOMAIN archive : archive'[t] = archive[t]
  /\ receipt' # receipt => inbox = receipt'

\* Only a publication changes latest.json, only an archival the archive, and neither
\* replaces what it finds; only the courier writes its receipt.
LEMMA NewsStepIs == NewsInv /\ [NewsNext]_newsVars => NewsStep
<1>. SUFFICES ASSUME NewsInv, [NewsNext]_newsVars PROVE NewsStep
  OBVIOUS
<1>1. ASSUME NEW j \in Writers, Publishes(j) PROVE NewsStep
  <2>1. newsJob[j].at = "publish" /\ latest' = newsJob[j].article /\ UNCHANGED <<archive, receipt>>
    BY <1>1 DEF Publishes
  <2>. QED  BY <2>1 DEF NewsStep, NewsInv, InHand, InTheArchive
<1>2. ASSUME NEW j \in Writers, Archived(j) PROVE NewsStep
  <2>. DEFINE a == newsJob[j].article
  <2>1. UNCHANGED <<latest, receipt>>
    BY <1>2 DEF Archived
  <2>2. archive' = archive \/ (a.published \notin DOMAIN archive /\
          archive' = [t \in DOMAIN archive \cup {a.published} |-> IF t = a.published THEN a ELSE archive[t]])
    BY <1>2 DEF Archived
  <2>. QED  BY <2>1, <2>2 DEF NewsStep
<1>3. CASE WriteReceipt
  <2>1. newsJob["courier"].at = "receipt" /\ receipt' = newsJob["courier"].prior /\ UNCHANGED <<latest, archive>>
    BY <1>3 DEF WriteReceipt
  <2>. QED  BY <2>1 DEF NewsStep, NewsInv, Staged
<1>4. CASE UNCHANGED <<latest, archive, receipt>>
  BY <1>4 DEF NewsStep
<1>5. (ReadPrior \/ WriteArticle \/ TakeInbox \/ FetchSource \/ TickNews \/ UNCHANGED newsVars)
         => UNCHANGED <<latest, archive, receipt>>
  BY DEF ReadPrior, WriteArticle, TakeInbox, FetchSource, TickNews, Files, newsVars
<1>6. (PushSubmission \/ StageInbox \/ (\E j \in Writers : Recorded(j)) \/ (\E j \in Jobs : KillJob(j)))
         => UNCHANGED <<latest, archive, receipt>>
  BY DEF PushSubmission, StageInbox, Recorded, KillJob, Files
<1>. QED  BY <1>1, <1>2, <1>3, <1>4, <1>5, <1>6 DEF NewsNext, Writers

\* For any hour, any submissions and any kills: latest.json only becomes a verified article
\* that is in the archive, a later one where the jobs do not overlap; the archive keeps what
\* it has; and the courier's receipt names what is in the inbox.
THEOREM NewsOnlyForward == NewsSpec => NewsGoesForward
<1>1. NewsInv /\ [NewsNext]_newsVars => [NewsStep]_newsVars
  BY NewsStepIs
<1>. QED  BY <1>1, NewsInitially, NewsNextKeeps, PTL DEF NewsSpec, NewsGoesForward, NewsStep

-----------------------------------------------------------------------------
(***************************************************************************)
(* The weekly inputs                                                       *)
(***************************************************************************)
Manifests == [run : Nat, through : Nat, pins : [Week -> Nat]]
Schedules == [to : {"schedule", "checkpoint"}, week : Week, run : Nat]
Inputs == Schedules \cup [to : Part \cup {"manifest"}]
Materializations == [week : Week, pins : [Week -> Nat], todo : Seq(Inputs)]
Refreshes == [pc : {"load", "advance"}, week : Week, set : Manifests \cup {NoManifest}, read : Seq(Nat)]

WeeklyTypes ==
  /\ active \in Week
  /\ runs \in Nat
  /\ schedule \in [Week -> Nat]
  /\ part \in [Part -> [run : Nat, through : Int]]
  /\ manifest \in Manifests \cup {NoManifest}
  /\ job # NoJob => job \in Materializations
  /\ refresh # NoRefresh => refresh \in Refreshes

\* The manifest pins every week up to its own, that one at the run that wrote it.
ManifestPins ==
  manifest # NoManifest =>
    /\ manifest.run \in 1 .. runs
    /\ manifest.through < active
    /\ manifest.pins[manifest.through + 1] = manifest.run
    /\ \A w \in Week : w <= manifest.through + 1 => manifest.pins[w] # 0

\* The materialization that runs is a later one, for that week or a later one, and keeps
\* every pin of the weeks before.
JobPins ==
  job # NoJob =>
    /\ job.week <= active
    /\ runs # 0
    /\ job.pins[job.week] = runs
    /\ \A w \in Week : w <= job.week => job.pins[w] # 0
    /\ manifest # NoManifest =>
         /\ manifest.run < runs
         /\ manifest.through < job.week
         /\ \A w \in Week : w < job.week /\ manifest.pins[w] # 0 => job.pins[w] = manifest.pins[w]

\* Files of a materialization other than the manifest: its own schedules, or a part.
Good(week, pins) ==
  {f \in Inputs : f.to # "manifest" /\ (f.to \in {"schedule", "checkpoint"} => f.week <= week /\ f.run = pins[f.week])}

\* What it has yet to write ends with the manifest.
EndsWithManifest(todo, week, pins) ==
  /\ todo \in Seq(Inputs) /\ todo # <<>>
  /\ todo[Len(todo)].to = "manifest"
  /\ \A i \in 1 .. Len(todo) - 1 : todo[i] \in Good(week, pins)

\* A part it has not yet to write is written, and so is the schedule of its week unless
\* that is the next file.
JobWrites ==
  job # NoJob =>
    /\ EndsWithManifest(job.todo, job.week, job.pins)
    /\ \A p \in Part : part[p].run = runs \/ \E i \in DOMAIN job.todo : job.todo[i].to = p
    /\ \/ Head(job.todo).to = "schedule" /\ Head(job.todo).week = job.week
       \/ schedule[job.week] = runs

\* The active schedule tells whether the parts are the manifest's.
ActiveTells ==
  manifest # NoManifest /\ manifest.through = active - 1 /\ schedule[active] = manifest.run
    => \A p \in Part : part[p].run = manifest.run

\* From its load on, the weeks before that of a refresh stay as its set pins them: on disk,
\* in the manifest, and in what a materialization will write.
PinsStay ==
  refresh # NoRefresh =>
    /\ refresh.week <= active
    /\ refresh.pc = "load" => refresh.read = <<>>
    /\ refresh.pc = "advance" /\ refresh.week > 1 =>
         /\ manifest # NoManifest
         /\ job # NoJob => refresh.week <= job.week
         /\ \A w \in Week : w < refresh.week =>
              /\ refresh.set.pins[w] # 0
              /\ schedule[w] = refresh.set.pins[w] /\ manifest.pins[w] = refresh.set.pins[w]
              /\ job # NoJob => job.pins[w] = refresh.set.pins[w]
    /\ Len(refresh.read) < refresh.week
    /\ \A i \in DOMAIN refresh.read : refresh.read[i] = refresh.set.pins[i]

WeeklyInv == WeeklyTypes /\ ManifestPins /\ JobPins /\ JobWrites /\ ActiveTells /\ PinsStay /\ AdvancesAsPinned

\* A sequence of S joined to another is one of S, and has what both have.
LEMMA JoinedHas ==
  ASSUME NEW S, NEW s \in Seq(S), NEW t \in Seq(S)
  PROVE  /\ s \o t \in Seq(S)
         /\ \A i \in DOMAIN s : \E k \in DOMAIN (s \o t) : (s \o t)[k] = s[i]
         /\ \A i \in DOMAIN t : \E k \in DOMAIN (s \o t) : (s \o t)[k] = t[i]
         /\ s # <<>> => s \o t # <<>> /\ Head(s \o t) = Head(s)
<1>1. /\ s \o t \in Seq(S) /\ Len(s \o t) = Len(s) + Len(t)
      /\ \A i \in 1 .. Len(s) + Len(t) : (s \o t)[i] = IF i <= Len(s) THEN s[i] ELSE t[i - Len(s)]
  BY ConcatProperties
<1>2. DOMAIN (s \o t) = 1 .. Len(s) + Len(t) /\ DOMAIN s = 1 .. Len(s) /\ DOMAIN t = 1 .. Len(t)
      /\ Len(s) \in Nat /\ Len(t) \in Nat
  BY <1>1
<1>3. ASSUME NEW i \in DOMAIN s PROVE i \in 1 .. Len(s) + Len(t) /\ (s \o t)[i] = s[i]
  BY <1>1, <1>2
<1>4. ASSUME NEW i \in DOMAIN t
      PROVE  i + Len(s) \in 1 .. Len(s) + Len(t) /\ (s \o t)[i + Len(s)] = t[i]
  <2>1. i + Len(s) \in 1 .. Len(s) + Len(t) /\ ~(i + Len(s) <= Len(s)) /\ (i + Len(s)) - Len(s) = i
    BY <1>2
  <2>. QED  BY <1>1, <2>1
<1>5. ASSUME s # <<>> PROVE s \o t # <<>> /\ Head(s \o t) = Head(s)
  <2>1. Len(s) # 0
    BY <1>5
  <2>2. (s \o t)[1] = s[1] /\ Len(s \o t) # 0
    BY <1>1, <1>2, <1>3, <2>1
  <2>. QED  BY <1>1, <2>2
<1>. QED  BY <1>1, <1>2, <1>3, <1>4, <1>5

\* The files of a materialization: its active schedule first, its manifest last, and all
\* the parts in between.
LEMMA WritesIs ==
  ASSUME NEW week \in Week, NEW pins \in [Week -> Nat]
  PROVE  /\ EndsWithManifest(Writes(week, pins), week, pins)
         /\ Head(Writes(week, pins)).to = "schedule" /\ Head(Writes(week, pins)).week = week
         /\ \A p \in Part : \E i \in DOMAIN Writes(week, pins) : Writes(week, pins)[i].to = p
<1>. DEFINE G == Good(week, pins)
            schedules == [w \in 1 .. week |-> [to |-> "schedule", week |-> w, run |-> pins[w]]]
            checkpoints == [w \in 1 .. week |-> [to |-> "checkpoint", week |-> w, run |-> pins[w]]]
            parts == << [to |-> "games"], [to |-> "team_stats"], [to |-> "qb_stats"], [to |-> "pbp"] >>
            last == << [to |-> "manifest"] >>
            rest == IF week = 1 THEN checkpoints \o parts ELSE parts \o checkpoints
            first == <<schedules[week]>> \o Front(schedules)
            W == Writes(week, pins)
<1>0. week \in Nat /\ week >= 1 /\ 1 .. week \subseteq Week
  BY WeeklyAssumption DEF Week
<1>1. \A w \in 1 .. week : [to |-> "schedule", week |-> w, run |-> pins[w]] \in G
                           /\ [to |-> "checkpoint", week |-> w, run |-> pins[w]] \in G
  BY <1>0 DEF Good, Inputs, Schedules
<1>2. schedules \in Seq(G) /\ checkpoints \in Seq(G) /\ Len(schedules) = week
  <2>1. schedules \in [1 .. week -> G] /\ checkpoints \in [1 .. week -> G]
    BY <1>1
  <2>. QED  BY <1>0, <2>1, SeqDef
<1>3. \A p \in Part : [to |-> p] \in G
  BY DEF Part, Good, Inputs
<1>4. parts \in Seq(G)
  BY <1>3 DEF Part
<1>5. \A p \in Part : \E i \in DOMAIN parts : parts[i].to = p
  <2>1. DOMAIN parts = 1 .. 4
    OBVIOUS
  <2>2. parts[1].to = "games" /\ parts[2].to = "team_stats" /\ parts[3].to = "qb_stats" /\ parts[4].to = "pbp"
    OBVIOUS
  <2>. QED  BY <2>1, <2>2 DEF Part
<1>6. <<schedules[week]>> \in Seq(G) /\ Front(schedules) \in Seq(G)
  <2>1. schedules[week] \in G
    <3>1. week \in 1 .. week /\ schedules[week] = [to |-> "schedule", week |-> week, run |-> pins[week]]
      BY <1>0
    <3>. HIDE DEF G, schedules
    <3>. QED  BY <1>1, <3>1
  <2>2. SubSeq(schedules, 1, week - 1) \in Seq(G)
    BY <1>0, <1>2, SubSeqProperties
  <2>3. Front(schedules) = SubSeq(schedules, 1, week - 1)
    BY <1>2 DEF Front
  <2>. HIDE DEF G, schedules
  <2>. QED  BY <2>1, <2>2, <2>3
<1>7. first \in Seq(G) /\ first # <<>> /\ Head(first).to = "schedule" /\ Head(first).week = week
  <2>1. Head(<<schedules[week]>>) = schedules[week] /\ <<schedules[week]>> # <<>>
    OBVIOUS
  <2>2. schedules[week].to = "schedule" /\ schedules[week].week = week
    BY <1>0
  <2>. HIDE DEF G, schedules
  <2>. QED  BY <1>6, <2>1, <2>2, JoinedHas
<1>8. rest \in Seq(G) /\ \A p \in Part : \E i \in DOMAIN rest : rest[i].to = p
  <2>. HIDE DEF G, parts, checkpoints
  <2>1. ASSUME NEW s \in Seq(G), NEW t \in Seq(G)
        PROVE  /\ s \o t \in Seq(G)
               /\ \A i \in DOMAIN s : \E k \in DOMAIN (s \o t) : (s \o t)[k] = s[i]
               /\ \A i \in DOMAIN t : \E k \in DOMAIN (s \o t) : (s \o t)[k] = t[i]
    <3>1. s \o t \in Seq(G)
      BY JoinedHas
    <3>2. \A i \in DOMAIN s : \E k \in DOMAIN (s \o t) : (s \o t)[k] = s[i]
      BY JoinedHas
    <3>3. \A i \in DOMAIN t : \E k \in DOMAIN (s \o t) : (s \o t)[k] = t[i]
      BY JoinedHas
    <3>. QED  BY <3>1, <3>2, <3>3
  <2>2. rest \in Seq(G) /\ \A i \in DOMAIN parts : \E k \in DOMAIN rest : rest[k] = parts[i]
    <3>1. CASE week = 1
      <4>1. rest = checkpoints \o parts
        BY <3>1
      <4>. HIDE DEF rest
      <4>. QED  BY <4>1, <2>1, <1>2, <1>4
    <3>2. CASE week # 1
      <4>1. rest = parts \o checkpoints
        BY <3>2
      <4>. HIDE DEF rest
      <4>. QED  BY <4>1, <2>1, <1>2, <1>4
    <3>. QED  BY <3>1, <3>2
  <2>3. \A p \in Part : \E i \in DOMAIN rest : rest[i].to = p
    <3>. HIDE DEF rest
    <3>. QED  BY <2>2, <1>5
  <2>. QED  BY <2>2, <2>3
<1>. DEFINE body == first \o rest
<1>9. W = body \o last
  BY DEF Writes
<1>. HIDE DEF G, first, rest, W
<1>10. /\ body \in Seq(G) /\ body # <<>> /\ Head(body).to = "schedule" /\ Head(body).week = week
       /\ \A p \in Part : \E i \in DOMAIN body : body[i].to = p
  <2>1. /\ body \in Seq(G) /\ body # <<>> /\ Head(body) = Head(first)
        /\ \A i \in DOMAIN rest : \E k \in DOMAIN body : body[k] = rest[i]
    <3>1. ASSUME NEW s \in Seq(G), NEW t \in Seq(G), s # <<>>
          PROVE  /\ s \o t \in Seq(G) /\ s \o t # <<>> /\ Head(s \o t) = Head(s)
                 /\ \A i \in DOMAIN t : \E k \in DOMAIN (s \o t) : (s \o t)[k] = t[i]
      BY <3>1, JoinedHas
    <3>. QED  BY <1>7, <1>8, <3>1
  <2>. HIDE DEF body
  <2>. QED  BY <2>1, <1>7, <1>8
<1>. HIDE DEF body
<1>11. G \subseteq Inputs /\ [to |-> "manifest"] \in Inputs
  BY DEF G, Good, Inputs
<1>12. body \in Seq(Inputs) /\ last \in Seq(Inputs)
  BY <1>10, <1>11
<1>13. /\ W \in Seq(Inputs) /\ Head(W) = Head(body) /\ W # <<>>
       /\ \A i \in DOMAIN body : \E k \in DOMAIN W : W[k] = body[i]
  BY <1>9, <1>10, <1>12, JoinedHas
<1>14. /\ Len(W) = Len(body) + 1 /\ Len(body) \in Nat
       /\ \A i \in 1 .. Len(W) - 1 : W[i] = body[i]
       /\ W[Len(W)] = [to |-> "manifest"]
  <2>1. Len(last) = 1 /\ last[1] = [to |-> "manifest"] /\ Len(body) \in Nat
    BY <1>10
  <2>. HIDE DEF last
  <2>2. /\ Len(W) = Len(body) + Len(last)
        /\ \A i \in 1 .. Len(body) + Len(last) : W[i] = IF i <= Len(body) THEN body[i] ELSE last[i - Len(body)]
    BY <1>9, <1>12, ConcatProperties
  <2>. QED  BY <2>1, <2>2
<1>15. EndsWithManifest(W, week, pins)
  <2>1. \A i \in 1 .. Len(W) - 1 : W[i] \in G
    BY <1>10, <1>14
  <2>2. W[Len(W)].to = "manifest"
    <3>1. [to |-> "manifest"].to = "manifest"
      OBVIOUS
    <3>. QED  BY <1>14, <3>1, Zenon
  <2>3. W \in Seq(Inputs) /\ W # <<>>
    BY <1>13
  <2>. QED  BY <2>1, <2>2, <2>3 DEF EndsWithManifest, G
<1>16. \A p \in Part : \E i \in DOMAIN W : W[i].to = p
  BY <1>10, <1>13
<1>. QED  BY <1>10, <1>13, <1>15, <1>16 DEF W

\* Writing one file of those still to write leaves the others.
LEMMA TailWrites ==
  ASSUME NEW todo, NEW week, NEW pins, EndsWithManifest(todo, week, pins)
  PROVE  /\ Head(todo) = todo[1] /\ Head(todo) \in Inputs
         /\ Len(todo) = 1 => Head(todo).to = "manifest" /\ DOMAIN todo = {1}
         /\ Len(todo) # 1 => /\ Head(todo) \in Good(week, pins)
                             /\ EndsWithManifest(Tail(todo), week, pins)
                             /\ \A i \in DOMAIN todo : i # 1 => \E k \in DOMAIN Tail(todo) : Tail(todo)[k] = todo[i]
<1>. USE DEF EndsWithManifest
<1>1. todo \in Seq(Inputs) /\ Len(todo) \in Nat /\ Len(todo) >= 1 /\ DOMAIN todo = 1 .. Len(todo)
      /\ Head(todo) = todo[1] /\ Head(todo) \in Inputs
  OBVIOUS
<1>2. ASSUME Len(todo) # 1
      PROVE  /\ Head(todo) \in Good(week, pins)
             /\ EndsWithManifest(Tail(todo), week, pins)
             /\ \A i \in DOMAIN todo : i # 1 => \E k \in DOMAIN Tail(todo) : Tail(todo)[k] = todo[i]
  <2>1. /\ Tail(todo) \in Seq(Inputs) /\ Len(Tail(todo)) = Len(todo) - 1
        /\ \A i \in 1 .. Len(Tail(todo)) : Tail(todo)[i] = todo[i + 1]
    BY <1>1, HeadTailProperties
  <2>2. Head(todo) \in Good(week, pins)
    BY <1>1, <1>2
  <2>3. Tail(todo)[Len(Tail(todo))].to = "manifest"
    <3>1. Len(Tail(todo)) \in 1 .. Len(Tail(todo)) /\ Len(Tail(todo)) + 1 = Len(todo)
      BY <1>1, <1>2, <2>1
    <3>2. Tail(todo)[Len(Tail(todo))] = todo[Len(todo)]
      BY <2>1, <3>1
    <3>. QED  BY <3>2
  <2>4. \A i \in 1 .. Len(Tail(todo)) - 1 : Tail(todo)[i] \in Good(week, pins)
    BY <1>1, <1>2, <2>1
  <2>5. ASSUME NEW i \in DOMAIN todo, i # 1 PROVE \E k \in DOMAIN Tail(todo) : Tail(todo)[k] = todo[i]
    <3>1. i - 1 \in 1 .. Len(Tail(todo)) /\ (i - 1) + 1 = i
      BY <1>1, <2>1, <2>5
    <3>2. Tail(todo)[i - 1] = todo[i] /\ DOMAIN Tail(todo) = 1 .. Len(Tail(todo))
      BY <2>1, <3>1
    <3>. QED  BY <3>1, <3>2
  <2>6. Tail(todo) # <<>>
    <3>1. Len(Tail(todo)) # 0
      BY <1>1, <1>2, <2>1
    <3>2. Len(<<>>) = 0
      OBVIOUS
    <3>. QED  BY <3>1, <3>2, Zenon
  <2>. QED  BY <2>1, <2>2, <2>3, <2>4, <2>5, <2>6
<1>. QED  BY <1>1, <1>2

\* At the start there is nothing on disk and nobody runs.
LEMMA WeeklyInitially == WeeklyInit => WeeklyInv
<1>. SUFFICES ASSUME WeeklyInit PROVE WeeklyInv
  OBVIOUS
<1>1. WeeklyTypes
  BY WeeklyAssumption DEF WeeklyInit, WeeklyTypes, Week
<1>2. ManifestPins /\ JobPins /\ JobWrites /\ ActiveTells /\ PinsStay /\ AdvancesAsPinned
  BY DEF WeeklyInit, ManifestPins, JobPins, JobWrites, ActiveTells, PinsStay, AdvancesAsPinned
<1>. QED  BY <1>1, <1>2 DEF WeeklyInv

\* A materialization pins its week at itself and keeps the manifest's pins of the earlier.
LEMMA PinsOfIs ==
  ASSUME WeeklyInv, NEW run \in Nat, run # 0
  PROVE  /\ PinsOf(active, run) \in [Week -> Nat]
         /\ PinsOf(active, run)[active] = run
         /\ \A w \in Week : w <= active => PinsOf(active, run)[w] # 0
         /\ manifest # NoManifest => \A w \in Week : w < active /\ manifest.pins[w] # 0 =>
                                       PinsOf(active, run)[w] = manifest.pins[w]
<1>1. active \in Week /\ Week \subseteq Nat /\ (manifest # NoManifest => manifest.pins \in [Week -> Nat])
  BY DEF WeeklyInv, WeeklyTypes, Manifests, Week
<1>2. \A w \in Week : PinOf(w, run) \in Nat /\ PinOf(w, run) # 0
        /\ (manifest # NoManifest /\ manifest.pins[w] # 0 => PinOf(w, run) = manifest.pins[w])
  BY <1>1 DEF PinOf
<1>3. \A w \in Week :
        PinsOf(active, run)[w] = IF w < active THEN PinOf(w, run) ELSE IF w = active THEN run ELSE 0
  <2>. TAKE w \in Week
  <2>1. w \in Nat /\ active \in Nat
    BY <1>1
  <2>2. CASE w < active
    BY <2>1, <2>2 DEF PinsOf
  <2>3. CASE w = active
    BY <2>1, <2>3 DEF PinsOf
  <2>4. CASE w > active
    BY <2>1, <2>4 DEF PinsOf
  <2>. QED  BY <1>1, <2>2, <2>3, <2>4
<1>4. PinsOf(active, run) \in [Week -> Nat]
  <2>1. ASSUME NEW w \in Week
        PROVE  (CASE w < active -> PinOf(w, run) [] w = active -> run [] w > active -> 0) \in Nat
    <3>1. w \in Nat /\ active \in Nat /\ PinOf(w, run) \in Nat
      BY <1>1, <1>2
    <3>. QED  BY <3>1
  <2>. QED  BY <2>1 DEF PinsOf
<1>. QED  BY <1>1, <1>2, <1>3, <1>4

\* A new materialization is later than the manifest and keeps the pins a refresh relies on.
LEMMA BeginKeeps == WeeklyInv /\ Begin => WeeklyInv'
<1>. SUFFICES ASSUME WeeklyInv, Begin PROVE WeeklyInv'
  OBVIOUS
<1>. DEFINE pins == PinsOf(active, runs + 1)
            W == Writes(active, pins)
<1>1. runs' = runs + 1 /\ job' = [week |-> active, pins |-> pins, todo |-> W]
      /\ UNCHANGED <<active, schedule, part, bundles, manifest, refresh, scored>>
  BY DEF Begin, dirVars
<1>2. runs \in Nat /\ active \in Week /\ Week \subseteq Nat /\ runs + 1 # 0 /\ runs + 1 \in Nat
  BY DEF WeeklyInv, WeeklyTypes, Week
<1>3. /\ pins \in [Week -> Nat] /\ pins[active] = runs + 1
      /\ \A w \in Week : w <= active => pins[w] # 0
      /\ manifest # NoManifest => \A w \in Week : w < active /\ manifest.pins[w] # 0 => pins[w] = manifest.pins[w]
  BY <1>2, PinsOfIs
<1>. HIDE DEF pins
<1>4. /\ EndsWithManifest(W, active, pins)
      /\ Head(W).to = "schedule" /\ Head(W).week = active
      /\ \A p \in Part : \E i \in DOMAIN W : W[i].to = p
  BY <1>2, <1>3, WritesIs
<1>. HIDE DEF W
<1>5. job' \in Materializations /\ job'.week = active /\ job'.pins = pins /\ job'.todo = W
  BY <1>1, <1>2, <1>3, <1>4 DEF Materializations, EndsWithManifest
<1>6. WeeklyTypes'
  BY <1>1, <1>2, <1>5 DEF WeeklyInv, WeeklyTypes
<1>7. ManifestPins'
  BY <1>1, <1>2 DEF WeeklyInv, ManifestPins
<1>8. JobPins'
  BY <1>1, <1>2, <1>3, <1>5 DEF WeeklyInv, JobPins, ManifestPins
<1>9. JobWrites'
  BY <1>4, <1>5 DEF JobWrites
<1>10. ActiveTells' /\ AdvancesAsPinned'
  BY <1>1 DEF WeeklyInv, ActiveTells, AdvancesAsPinned
<1>11. PinsStay'
  BY <1>1, <1>2, <1>3, <1>5 DEF WeeklyInv, PinsStay, WeeklyTypes, Refreshes
<1>. QED  BY <1>6, <1>7, <1>8, <1>9, <1>10, <1>11 DEF WeeklyInv

\* What writing a file that is not the manifest changes, as far as the invariant sees.
LEMMA WriteKeepsBefore ==
  ASSUME WeeklyInv, job # NoJob, Len(job.todo) # 1,
         job' = [job EXCEPT !.todo = Tail(@)],
         UNCHANGED <<active, runs, manifest, refresh, scored>>,
         schedule' \in [Week -> Nat], part' \in [Part -> [run : Nat, through : Int]],
         \A w \in Week : schedule'[w] = schedule[w] \/ (w <= job.week /\ schedule'[w] = job.pins[w]),
         schedule'[job.week] = runs,
         \A p \in Part : part'[p].run = part[p].run \/ part'[p].run = runs,
         \A p \in Part : Head(job.todo).to = p => part'[p].run = runs,
         (\A p \in Part : part'[p] = part[p]) \/ schedule[job.week] = runs
  PROVE  WeeklyInv'
<1>1. job \in Materializations /\ EndsWithManifest(job.todo, job.week, job.pins)
  BY DEF WeeklyInv, WeeklyTypes, JobWrites
<1>2. /\ Head(job.todo) = job.todo[1]
      /\ EndsWithManifest(Tail(job.todo), job.week, job.pins)
      /\ \A i \in DOMAIN job.todo : i # 1 => \E k \in DOMAIN Tail(job.todo) : Tail(job.todo)[k] = job.todo[i]
  BY <1>1, TailWrites
<1>3. job'.week = job.week /\ job'.pins = job.pins /\ job'.todo = Tail(job.todo) /\ job' \in Materializations
  BY <1>1, <1>2 DEF Materializations, EndsWithManifest
<1>4. /\ job.week \in Week /\ Week \subseteq Nat /\ runs \in Nat /\ active \in Week
      /\ job.week <= active /\ runs # 0 /\ job.pins[job.week] = runs
      /\ manifest # NoManifest => manifest \in Manifests /\ manifest.run < runs /\ manifest.through < job.week
  BY <1>1 DEF WeeklyInv, WeeklyTypes, JobPins, Materializations, Week
<1>5. WeeklyTypes'
  BY <1>3 DEF WeeklyInv, WeeklyTypes
<1>6. ManifestPins' /\ AdvancesAsPinned'
  BY DEF WeeklyInv, ManifestPins, AdvancesAsPinned
<1>7. JobPins'
  BY <1>3 DEF WeeklyInv, JobPins
<1>8. JobWrites'
  <2>1. ASSUME NEW p \in Part PROVE part'[p].run = runs \/ \E i \in DOMAIN Tail(job.todo) : Tail(job.todo)[i].to = p
    <3>1. CASE part[p].run = runs
      BY <3>1
    <3>2. CASE \E i \in DOMAIN job.todo : job.todo[i].to = p
      <4>1. PICK i \in DOMAIN job.todo : job.todo[i].to = p
        BY <3>2
      <4>2. CASE i = 1
        BY <1>2, <4>1, <4>2
      <4>3. CASE i # 1
        BY <1>2, <4>1, <4>3
      <4>. QED  BY <4>2, <4>3
    <3>. QED  BY <3>1, <3>2 DEF WeeklyInv, JobWrites
  <2>. QED  BY <1>2, <1>3, <2>1 DEF JobWrites
<1>9. ActiveTells'
  <2>1. ASSUME manifest # NoManifest, manifest.through = active - 1 PROVE schedule'[active] # manifest.run
    <3>1. job.week = active
      BY <1>4, <2>1 DEF Manifests
    <3>. QED  BY <1>4, <2>1, <3>1 DEF Manifests
  <2>. QED  BY <2>1 DEF ActiveTells
<1>10. PinsStay'
  <2>1. ASSUME refresh # NoRefresh, refresh.pc = "advance", refresh.week > 1, NEW w \in Week, w < refresh.week
        PROVE  schedule'[w] = refresh.set.pins[w]
    BY <2>1 DEF WeeklyInv, PinsStay
  <2>. QED  BY <1>3, <2>1 DEF WeeklyInv, PinsStay
<1>. QED  BY <1>5, <1>6, <1>7, <1>8, <1>9, <1>10 DEF WeeklyInv

\* One file is replaced: a schedule as it is pinned, a part by the run, or the manifest when
\* all the rest is written.
LEMMA WriteKeeps == WeeklyInv /\ WriteNext => WeeklyInv'
<1>. SUFFICES ASSUME WeeklyInv, WriteNext PROVE WeeklyInv'
  OBVIOUS
<1>. DEFINE file == Head(job.todo)
<1>1. /\ job # NoJob
      /\ schedule' = IF file.to = "schedule" THEN [schedule EXCEPT ![file.week] = file.run] ELSE schedule
      /\ part' = IF file.to \in Part
                 THEN [part EXCEPT ![file.to] = [run |-> runs, through |-> job.week - 1]] ELSE part
      /\ manifest' = IF file.to = "manifest"
                     THEN [run |-> runs, through |-> job.week - 1, pins |-> job.pins] ELSE manifest
      /\ job' = IF Len(job.todo) = 1 THEN NoJob ELSE [job EXCEPT !.todo = Tail(@)]
      /\ UNCHANGED <<active, runs, refresh, scored>>
  BY DEF WriteNext
<1>2. job \in Materializations /\ EndsWithManifest(job.todo, job.week, job.pins)
  BY <1>1 DEF WeeklyInv, WeeklyTypes, JobWrites
<1>3. /\ file = job.todo[1] /\ file \in Inputs
      /\ Len(job.todo) = 1 => file.to = "manifest" /\ DOMAIN job.todo = {1}
      /\ Len(job.todo) # 1 => file \in Good(job.week, job.pins)
  BY <1>2, TailWrites
<1>4. /\ job.week \in Week /\ Week \subseteq Nat /\ runs \in Nat /\ active \in Week
      /\ job.week <= active /\ runs # 0 /\ job.pins[job.week] = runs /\ job.pins \in [Week -> Nat]
      /\ \A w \in Week : w <= job.week => job.pins[w] # 0
      /\ schedule \in [Week -> Nat] /\ part \in [Part -> [run : Nat, through : Int]]
      /\ job.week \in Nat /\ job.week >= 1
  BY <1>1, <1>2 DEF WeeklyInv, WeeklyTypes, JobPins, Materializations, Week
<1>5. \/ file.to = "schedule" /\ file.week = job.week
      \/ schedule[job.week] = runs
  BY <1>1 DEF WeeklyInv, JobWrites
<1>. HIDE DEF file
<1>6. CASE Len(job.todo) # 1
  <2>1. file.to # "manifest" /\ job' = [job EXCEPT !.todo = Tail(@)] /\ manifest' = manifest
    BY <1>1, <1>3, <1>6 DEF Good
  <2>2. CASE file.to = "schedule"
    <3>1. file.week \in Week /\ file.run = job.pins[file.week] /\ file.week <= job.week
          /\ file.to \notin Part
      BY <1>3, <1>6, <2>2 DEF Good, Inputs, Schedules, Part
    <3>2. schedule' = [schedule EXCEPT ![file.week] = file.run] /\ part' = part
      BY <1>1, <2>2, <3>1
    <3>3. schedule' \in [Week -> Nat] /\ schedule'[job.week] = runs
          /\ \A w \in Week : schedule'[w] = schedule[w] \/ (w <= job.week /\ schedule'[w] = job.pins[w])
      BY <1>4, <1>5, <3>1, <3>2
    <3>4. \A p \in Part : file.to # p
      BY <3>1
    <3>. QED  BY <1>1, <1>4, <1>6, <2>1, <3>2, <3>3, <3>4, WriteKeepsBefore DEF file
  <2>3. CASE file.to # "schedule"
    <3>1. schedule' = schedule /\ schedule[job.week] = runs
      BY <1>1, <1>5, <2>3
    <3>2. part' \in [Part -> [run : Nat, through : Int]]
          /\ \A p \in Part : IF file.to = p THEN part'[p].run = runs ELSE part'[p] = part[p]
      <4>1. [run |-> runs, through |-> job.week - 1] \in [run : Nat, through : Int]
        <5>1. runs \in Nat /\ job.week - 1 \in Int
          BY <1>4
        <5>. QED  BY ONLY <5>1
      <4>2. CASE file.to \in Part
        <5>1. part' = [part EXCEPT ![file.to] = [run |-> runs, through |-> job.week - 1]]
          BY <1>1, <4>2
        <5>2. part'[file.to] = [run |-> runs, through |-> job.week - 1]
          BY <1>4, <4>2, <5>1
        <5>3. \A p \in Part : p # file.to => part'[p] = part[p]
          BY <1>4, <5>1
        <5>4. part' \in [Part -> [run : Nat, through : Int]]
          BY <1>4, <4>1, <5>1
        <5>. QED  BY <5>2, <5>3, <5>4
      <4>3. CASE file.to \notin Part
        BY <1>1, <1>4, <4>3
      <4>. QED  BY <4>2, <4>3
    <3>. QED  BY <1>1, <1>4, <1>6, <2>1, <3>1, <3>2, WriteKeepsBefore DEF file
  <2>. QED  BY <2>2, <2>3
<1>7. CASE Len(job.todo) = 1
  <2>1. file.to = "manifest" /\ DOMAIN job.todo = {1} /\ job' = NoJob
    BY <1>1, <1>3, <1>7
  <2>2. "manifest" \notin Part /\ \A p \in Part : p # "manifest"
    BY DEF Part
  <2>3. schedule' = schedule /\ part' = part
        /\ manifest' = [run |-> runs, through |-> job.week - 1, pins |-> job.pins]
    BY <1>1, <2>1, <2>2
  <2>4. manifest' \in Manifests /\ manifest' # NoManifest
        /\ manifest'.run = runs /\ manifest'.through = job.week - 1 /\ manifest'.pins = job.pins
    <3>1. runs \in Nat /\ job.week - 1 \in Nat /\ job.pins \in [Week -> Nat]
      BY <1>4
    <3>2. [run |-> runs, through |-> job.week - 1, pins |-> job.pins] \in Manifests
      BY ONLY <3>1 DEF Manifests
    <3>3. manifest' \in Manifests
      BY <2>3, <3>2
    <3>4. manifest'.run = runs /\ manifest'.through = job.week - 1 /\ manifest'.pins = job.pins
      BY <2>3
    <3>. QED  BY <3>3, <3>4, WeeklyAssumption DEF Manifests
  <2>5. WeeklyTypes'
    BY <1>1, <2>1, <2>3, <2>4 DEF WeeklyInv, WeeklyTypes
  <2>6. ManifestPins'
    BY <1>1, <1>4, <2>4 DEF ManifestPins
  <2>7. JobPins' /\ JobWrites'
    BY <2>1 DEF JobPins, JobWrites
  <2>8. ActiveTells'
    <3>1. \A p \in Part : part[p].run = runs
      <4>1. file.to = job.todo[1].to
        BY <1>3
      <4>. QED  BY <1>1, <2>1, <2>2, <4>1 DEF WeeklyInv, JobWrites
    <3>. QED  BY <2>3, <2>4, <3>1 DEF ActiveTells
  <2>9. PinsStay'
    BY <1>1, <2>1, <2>3, <2>4 DEF WeeklyInv, PinsStay
  <2>10. AdvancesAsPinned'
    BY <1>1 DEF WeeklyInv, AdvancesAsPinned
  <2>. QED  BY <2>5, <2>6, <2>7, <2>8, <2>9, <2>10 DEF WeeklyInv
<1>. QED  BY <1>6, <1>7

\* A refresh starts with nothing read, loads what agrees with the manifest, reads what is
\* pinned, and scores when it has read every week.
LEMMA RefreshKeeps == WeeklyInv /\ (Resolve \/ Load \/ AdvanceState \/ Stop) => WeeklyInv'
<1>. SUFFICES ASSUME WeeklyInv, Resolve \/ Load \/ AdvanceState \/ Stop PROVE WeeklyInv'
  OBVIOUS
<1>1. UNCHANGED <<active, runs, job, schedule, part, bundles, manifest>>
  BY DEF Resolve, Load, AdvanceState, Stop, ByRefresh, dirVars
<1>2. ManifestPins' /\ JobPins' /\ JobWrites' /\ ActiveTells'
  BY <1>1 DEF WeeklyInv, ManifestPins, JobPins, JobWrites, ActiveTells
<1>3. active \in Week /\ Week \subseteq Nat /\ schedule \in [Week -> Nat]
      /\ (manifest # NoManifest => manifest \in Manifests)
      /\ (refresh # NoRefresh => refresh \in Refreshes)
  BY DEF WeeklyInv, WeeklyTypes, Week
<1>4. ASSUME (refresh' # NoRefresh => refresh' \in Refreshes), PinsStay', AdvancesAsPinned'
      PROVE  WeeklyInv'
  <2>1. WeeklyTypes'
    BY <1>1, <1>4 DEF WeeklyInv, WeeklyTypes
  <2>. QED  BY <1>2, <1>4, <2>1 DEF WeeklyInv
<1>5. ASSUME refresh' = NoRefresh, scored' = scored PROVE WeeklyInv'
  <2>1. PinsStay' /\ AdvancesAsPinned'
    BY <1>5 DEF WeeklyInv, PinsStay, AdvancesAsPinned
  <2>. QED  BY <1>4, <1>5, <2>1
<1>6. CASE Resolve
  <2>. DEFINE rec == [pc |-> IF active > 1 THEN "load" ELSE "advance", week |-> active,
                      set |-> NoManifest, read |-> << >>]
  <2>1. refresh' = rec /\ scored' = scored
    BY <1>6 DEF Resolve
  <2>2. rec \in Refreshes
    BY <1>3 DEF Refreshes
  <2>3. rec.week = active /\ rec.read = <<>> /\ (rec.pc = "advance" => ~(active > 1)) /\ active >= 1
    BY <1>3 DEF Week
  <2>4. Len(<<>>) = 0 /\ DOMAIN <<>> = {}
    OBVIOUS
  <2>. HIDE DEF rec
  <2>5. PinsStay'
    BY <1>1, <1>3, <2>1, <2>3, <2>4 DEF PinsStay
  <2>6. AdvancesAsPinned'
    BY <2>1 DEF WeeklyInv, AdvancesAsPinned
  <2>. QED  BY <1>4, <2>1, <2>2, <2>5, <2>6
<1>7. CASE Load
  <2>1. refresh.pc = "load" /\ job = NoJob /\ refresh # NoRefresh
    BY <1>7 DEF Load, NoRefresh
  <2>2. CASE Loads /\ manifest.through = refresh.week - 1
    <3>1. refresh' = [refresh EXCEPT !.pc = "advance", !.set = manifest] /\ scored' = scored
      BY <1>7, <2>2 DEF Load
    <3>2. refresh \in Refreshes /\ manifest \in Manifests /\ manifest # NoManifest
      BY <1>3, <2>1, <2>2 DEF Loads
    <3>3. /\ refresh' \in Refreshes /\ refresh'.pc = "advance" /\ refresh'.set = manifest
          /\ refresh'.week = refresh.week /\ refresh'.read = refresh.read
      <4>. DEFINE mid == [refresh EXCEPT !.pc = "advance"]
      <4>1. mid \in Refreshes /\ mid.pc = "advance" /\ mid.week = refresh.week /\ mid.read = refresh.read
        BY <3>2 DEF Refreshes
      <4>2. refresh' = [mid EXCEPT !.set = manifest]
        BY <3>1, <3>2 DEF Refreshes
      <4>. HIDE DEF mid
      <4>. QED  BY <3>2, <4>1, <4>2 DEF Refreshes
    <3>4. ASSUME NEW w \in Week, w < refresh.week
          PROVE  manifest.pins[w] # 0 /\ schedule[w] = manifest.pins[w]
      <4>1. w <= manifest.through + 1
        <5>1. w \in Nat /\ refresh.week \in Nat /\ manifest.through \in Nat
          BY <1>3, <3>2 DEF Refreshes, Manifests
        <5>. QED  BY <2>2, <3>4, <5>1
      <4>2. manifest.pins[w] # 0
        BY <3>2, <4>1 DEF WeeklyInv, ManifestPins
      <4>. QED  BY <2>2, <4>2 DEF Loads
    <3>5. refresh.read = <<>> /\ refresh.week <= active /\ Len(refresh.read) < refresh.week
      BY <2>1 DEF WeeklyInv, PinsStay
    <3>6. DOMAIN <<>> = {} /\ DOMAIN refresh.read = {}
      BY <3>5
    <3>7. PinsStay'
      <4>1. refresh'.week <= active'
        BY <1>1, <3>3, <3>5
      <4>2. refresh'.pc # "load"
        BY <3>3
      <4>3. manifest' # NoManifest /\ job' = NoJob
        BY <1>1, <2>1, <3>2
      <4>4. ASSUME NEW w \in Week, w < refresh'.week
            PROVE  refresh'.set.pins[w] # 0 /\ schedule'[w] = refresh'.set.pins[w]
                   /\ manifest'.pins[w] = refresh'.set.pins[w]
        BY <1>1, <3>3, <3>4, <4>4
      <4>5. Len(refresh'.read) < refresh'.week /\ DOMAIN refresh'.read = {}
        BY <3>3, <3>5, <3>6
      <4>. QED  BY <4>1, <4>2, <4>3, <4>4, <4>5 DEF PinsStay
    <3>8. AdvancesAsPinned'
      BY <3>1 DEF WeeklyInv, AdvancesAsPinned
    <3>. QED  BY <1>4, <3>3, <3>7, <3>8
  <2>3. CASE ~(Loads /\ manifest.through = refresh.week - 1)
    BY <1>5, <1>7, <2>3 DEF Load, Stops
  <2>. QED  BY <2>2, <2>3
<1>8. CASE AdvanceState
  <2>1. refresh.pc = "advance" /\ refresh # NoRefresh /\ refresh \in Refreshes
    BY <1>3, <1>8 DEF AdvanceState, NoRefresh
  <2>2. /\ refresh.week \in Week /\ refresh.week \in Nat /\ refresh.read \in Seq(Nat)
        /\ Len(refresh.read) \in Nat /\ Len(refresh.read) < refresh.week
        /\ \A i \in DOMAIN refresh.read : refresh.read[i] = refresh.set.pins[i]
        /\ DOMAIN refresh.read = 1 .. Len(refresh.read)
    <3>1. refresh.week \in Week /\ refresh.read \in Seq(Nat)
      BY <2>1 DEF Refreshes
    <3>2. Len(refresh.read) < refresh.week
          /\ \A i \in DOMAIN refresh.read : refresh.read[i] = refresh.set.pins[i]
      BY <2>1 DEF WeeklyInv, PinsStay
    <3>. QED  BY <1>3, <3>1, <3>2
  <2>3. CASE Len(refresh.read) < refresh.week - 1
    <3>. DEFINE w == Len(refresh.read) + 1
                longer == Append(refresh.read, schedule[w])
    <3>1. refresh' = [refresh EXCEPT !.read = longer] /\ scored' = scored
      BY <1>8, <2>3 DEF AdvanceState
    <3>2. w \in Week /\ w < refresh.week /\ refresh.week > 1
      BY <2>2, <2>3, WeeklyAssumption DEF Week
    <3>3. schedule[w] \in Nat /\ schedule[w] = refresh.set.pins[w]
      BY <1>3, <2>1, <3>2 DEF WeeklyInv, PinsStay
    <3>4. /\ longer \in Seq(Nat) /\ Len(longer) = w /\ DOMAIN longer = 1 .. w
          /\ \A i \in 1 .. w : longer[i] = refresh.set.pins[i]
      BY <2>2, <3>3
    <3>. HIDE DEF longer
    <3>5. /\ refresh' \in Refreshes /\ refresh'.pc = refresh.pc /\ refresh'.set = refresh.set
          /\ refresh'.week = refresh.week /\ refresh'.read = longer
      BY <2>1, <3>1, <3>4 DEF Refreshes
    <3>6. PinsStay'
      BY <1>1, <2>1, <3>2, <3>4, <3>5 DEF WeeklyInv, PinsStay
    <3>7. AdvancesAsPinned'
      BY <3>1 DEF WeeklyInv, AdvancesAsPinned
    <3>. QED  BY <1>4, <3>5, <3>6, <3>7
  <2>4. CASE ~(Len(refresh.read) < refresh.week - 1)
    <3>1. refresh' = NoRefresh
          /\ scored' = [week |-> refresh.week, set |-> refresh.set, read |-> refresh.read]
      BY <1>8, <2>4 DEF AdvanceState
    <3>2. \A w \in 1 .. (refresh.week - 1) : refresh.read[w] = refresh.set.pins[w]
      <4>1. refresh.week \in Nat /\ Len(refresh.read) \in Nat
        BY <2>1 DEF Refreshes, Week
      <4>2. Len(refresh.read) = refresh.week - 1
        BY ONLY <2>2, <2>4, <4>1
      <4>. QED  BY ONLY <2>2, <4>2
    <3>3. scored'.week = refresh.week /\ scored'.read = refresh.read /\ scored'.set = refresh.set
      BY <3>1
    <3>4. AdvancesAsPinned'
      BY <3>2, <3>3 DEF AdvancesAsPinned
    <3>5. PinsStay'
      BY <3>1 DEF PinsStay
    <3>. QED  BY <1>4, <3>1, <3>4, <3>5
  <2>. QED  BY <2>3, <2>4
<1>9. CASE Stop
  BY <1>5, <1>9 DEF Stop, Stops
<1>. QED  BY <1>6, <1>7, <1>8, <1>9

\* The week rolls over, or a materialization stops where it is.
LEMMA OthersKeep == WeeklyInv /\ (Rollover \/ Abort) => WeeklyInv'
<1>. SUFFICES ASSUME WeeklyInv, Rollover \/ Abort PROVE WeeklyInv'
  OBVIOUS
<1>1. CASE Rollover
  <2>1. active < LastWeek /\ active' = active + 1
        /\ UNCHANGED <<runs, job, schedule, part, bundles, manifest, refresh, scored>>
    BY <1>1 DEF Rollover, dirVars
  <2>2. active \in Week /\ active' \in Week /\ active' \in Nat /\ active \in Nat /\ Week \subseteq Nat
    BY <2>1, WeeklyAssumption DEF WeeklyInv, WeeklyTypes, Week
  <2>3. WeeklyTypes'
    BY <2>1, <2>2 DEF WeeklyInv, WeeklyTypes
  <2>4. manifest # NoManifest => manifest.through \in Nat /\ manifest.through < active
    BY DEF WeeklyInv, WeeklyTypes, ManifestPins, Manifests
  <2>5. ManifestPins'
    BY <2>1, <2>2, <2>4 DEF WeeklyInv, ManifestPins
  <2>6. job # NoJob => job.week \in Nat
    BY <2>2 DEF WeeklyInv, WeeklyTypes, Materializations
  <2>7. JobPins' /\ JobWrites'
    BY <2>1, <2>2, <2>6 DEF WeeklyInv, JobPins, JobWrites
  <2>8. ActiveTells'
    BY <2>1, <2>2, <2>4 DEF ActiveTells
  <2>9. refresh # NoRefresh => refresh.week \in Nat
    BY <2>2 DEF WeeklyInv, WeeklyTypes, Refreshes
  <2>10. PinsStay' /\ AdvancesAsPinned'
    BY <2>1, <2>2, <2>9 DEF WeeklyInv, PinsStay, AdvancesAsPinned
  <2>. QED  BY <2>3, <2>5, <2>7, <2>8, <2>10 DEF WeeklyInv
<1>2. CASE Abort
  <2>1. job' = NoJob /\ UNCHANGED <<active, runs, schedule, part, bundles, manifest, refresh, scored>>
    BY <1>2 DEF Abort, dirVars
  <2>. QED  BY <2>1 DEF WeeklyInv, WeeklyTypes, ManifestPins, JobPins, JobWrites, ActiveTells, PinsStay, AdvancesAsPinned
<1>. QED  BY <1>1, <1>2

\* The invariant holds in every state.
LEMMA WeeklyAlways == WeeklySpec => []WeeklyInv
<1>1. WeeklyInv /\ [WeeklyNext]_weeklyVars => WeeklyInv'
  <2>1. WeeklyInv /\ UNCHANGED weeklyVars => WeeklyInv'
    BY DEF weeklyVars, dirVars, WeeklyInv, WeeklyTypes, ManifestPins, JobPins, JobWrites, ActiveTells,
           PinsStay, AdvancesAsPinned
  <2>. QED  BY <2>1, BeginKeeps, WriteKeeps, RefreshKeeps, OthersKeep DEF WeeklyNext
<1>. QED  BY <1>1, WeeklyInitially, PTL DEF WeeklySpec

\* Weekly inputs that load for the active week are of one materialization, for any number of
\* weeks and materializations, each cut short anywhere: the active schedule is written first.
THEOREM OneMaterialization == WeeklySpec => []LoadedIsWhole
<1>1. WeeklyInv => LoadedIsWhole
  <2>. SUFFICES ASSUME WeeklyInv, job = NoJob, Loads, manifest.through = active - 1
                PROVE  (\A p \in Part : part[p].run = manifest.run) /\ schedule[active] = manifest.run
    BY DEF LoadedIsWhole
  <2>1. manifest # NoManifest /\ active \in Week /\ active \in Nat
    BY DEF Loads, WeeklyInv, WeeklyTypes, Week
  <2>2. manifest.pins[active] = manifest.run /\ manifest.pins[active] # 0
    BY <2>1 DEF WeeklyInv, ManifestPins
  <2>3. schedule[active] = manifest.run
    BY <2>1, <2>2 DEF Loads
  <2>. QED  BY <2>1, <2>3 DEF WeeklyInv, ActiveTells
<1>. QED  BY <1>1, WeeklyAlways, PTL

\* Football state is advanced over the schedules the evidence was validated with, though
\* they are read after the lock is released: nobody rewrites the pin of an earlier week.
THEOREM AdvancedAsValidated == WeeklySpec => []AdvancesAsPinned
  BY WeeklyAlways, PTL DEF WeeklyInv

-----------------------------------------------------------------------------
(***************************************************************************)
(* The acquisition of historical odds                                      *)
(***************************************************************************)

\* The kickoffs of a day are numbers, and finitely many.
LEMMA KicksAre == \A d : Kicks(d) \subseteq Nat /\ IsFiniteSet(Kicks(d))
<1>. SUFFICES ASSUME NEW d PROVE Kicks(d) \subseteq Nat /\ IsFiniteSet(Kicks(d))
  OBVIOUS
<1>. DEFINE on == {x \in DOMAIN Fixtures : Fixtures[x].day = d}
            f == [g \in on |-> Fixtures[g].kick]
<1>1. Kicks(d) \subseteq Nat
  BY MarketAssumption DEF Kicks
<1>2. f \in Surjection(on, Kicks(d))
  BY DEF Surjection, Kicks
<1>3. IsFiniteSet(on)
  BY MarketAssumption, FS_Subset
<1>. QED  BY <1>1, <1>2, <1>3, FS_Surjection

\* The last of the kickoffs before one is one of them.
LEMMA LastBefore ==
  ASSUME NEW K, K \subseteq Nat, NEW k \in Nat, Before(K, k) # {}
  PROVE  Max(Before(K, k)) \in Before(K, k)
<1>1. Before(K, k) \subseteq 0..k
  BY BeforeAre
<1>2. PICK x \in Before(K, k) : \A y \in Before(K, k) : y <= x
  BY <1>1, GreatestElement
<1>3. \A y \in Before(K, k) : x >= y
  BY <1>1, <1>2
<1>. QED  BY <1>3 DEF Max

\* Where the group of k starts, when those of the earlier kickoffs start as f says.
GroupOf(K, f, k) ==
  IF Before(K, k) = {} THEN k
  ELSE LET s == f[Max(Before(K, k))] IN IF k - s <= Span THEN s ELSE k

\* Groups that say so of themselves exist: each kickoff needs only those before it.
LEMMA GroupsExist ==
  ASSUME NEW K, IsFiniteSet(K), K \subseteq Nat
  PROVE  \E f : f = [k \in K |-> GroupOf(K, f, k)]
<1>. DEFINE Grouped(n) == \E f : f = [k \in Before(K, n) |-> GroupOf(K, f, k)]
            T == {n \in Nat : ~Grouped(n)}
<1>1. Grouped(0)
  <2>. DEFINE f == [k \in {} |-> 0]
  <2>1. \A j \in Before(K, 0) : j \in Nat /\ j < 0
    BY BeforeAre
  <2>2. Before(K, 0) = {}
    BY <2>1
  <2>3. f = [k \in Before(K, 0) |-> GroupOf(K, f, k)]
    BY <2>2
  <2>. QED  BY <2>3
<1>2. ASSUME NEW m \in Nat, Grouped(m) PROVE Grouped(m + 1)
  <2>1. PICK f : f = [k \in Before(K, m) |-> GroupOf(K, f, k)]
    BY <1>2
  <2>2. CASE m \notin K
    <3>1. Before(K, m + 1) = Before(K, m)
      BY <2>2, BeforeAre
    <3>. QED  BY <2>1, <3>1
  <2>3. CASE m \in K
    <3>. DEFINE g == [k \in Before(K, m + 1) |-> IF k = m THEN GroupOf(K, f, m) ELSE f[k]]
    <3>1. Before(K, m + 1) = Before(K, m) \cup {m}
      BY <2>3, BeforeAre
    <3>2. m \notin Before(K, m)
      <4>1. \A j \in Before(K, m) : j \in Nat /\ j < m
        BY BeforeAre
      <4>. QED  BY <4>1
    <3>3. \A j \in Before(K, m + 1) : j \in Nat /\ j < m + 1
      <4>1. m + 1 \in Nat
        OBVIOUS
      <4>. QED  BY <4>1, BeforeAre
    <3>4. \A j \in K : j \in Before(K, m) <=> j < m
      BY BeforeAre
    <3>5. \A k \in Before(K, m) : g[k] = f[k]
      BY <3>1, <3>2
    <3>. HIDE DEF g
    <3>6. ASSUME NEW k \in Before(K, m + 1) PROVE GroupOf(K, g, k) = GroupOf(K, f, k)
      <4>1. CASE Before(K, k) = {}
        BY <4>1 DEF GroupOf
      <4>2. CASE Before(K, k) # {}
        <5>1. k \in Nat /\ k <= m
          BY <3>3
        <5>2. Max(Before(K, k)) \in Before(K, k)
          BY <4>2, <5>1, LastBefore
        <5>3. Max(Before(K, k)) \in Before(K, m)
          <6>1. Max(Before(K, k)) \in K /\ Max(Before(K, k)) \in Nat /\ Max(Before(K, k)) < k
            BY <5>1, <5>2, BeforeAre
          <6>. QED  BY <3>4, <5>1, <6>1
        <5>. QED  BY <3>5, <5>3 DEF GroupOf
      <4>. QED  BY <4>1, <4>2
    <3>7. \A k \in Before(K, m + 1) : g[k] = GroupOf(K, g, k)
      <4>1. \A k \in Before(K, m) : g[k] = GroupOf(K, f, k)
        BY <2>1, <3>5
      <4>2. g[m] = GroupOf(K, f, m)
        BY <3>1 DEF g
      <4>. QED  BY <3>1, <3>6, <4>1, <4>2
    <3>8. g = [k \in Before(K, m + 1) |-> GroupOf(K, g, k)]
      BY <3>7 DEF g
    <3>. QED  BY <3>8
  <2>. QED  BY <2>2, <2>3
<1>. HIDE DEF Grouped
<1>3. \A n \in Nat : Grouped(n)
  <2>. SUFFICES ASSUME T # {} PROVE FALSE
    OBVIOUS
  <2>1. PICK n \in T : \A j \in T : n <= j
    <3>1. T \subseteq Nat
      OBVIOUS
    <3>. HIDE DEF T
    <3>. QED  BY <3>1, LeastElement
  <2>2. n # 0 /\ n - 1 \in Nat /\ n - 1 \notin T
    BY <1>1, <2>1
  <2>3. Grouped(n - 1) /\ n - 1 + 1 = n
    BY <2>2
  <2>. QED  BY <1>2, <2>2, <2>3
<1>4. \E n \in Nat : Before(K, n) = K
  <2>1. CASE K = {}
    BY <2>1 DEF Before
  <2>2. CASE K # {}
    <3>1. PICK x \in K : \A y \in K : y <= x
      BY <2>2, FiniteHasGreatest
    <3>2. x \in Nat /\ x + 1 \in Nat /\ \A y \in K : y < x + 1
      BY <3>1
    <3>3. Before(K, x + 1) = K
      BY <3>2, Zenon DEF Before
    <3>. QED  BY <3>2, <3>3
  <2>. QED  BY <2>1, <2>2
<1>. QED  BY <1>3, <1>4 DEF Grouped

\* So the groups of a day are what build_clusters makes of it.
LEMMA GroupStartIs ==
  \A d : GroupStart(d) = [k \in Kicks(d) |-> GroupOf(Kicks(d), GroupStart(d), k)]
<1>. SUFFICES ASSUME NEW d
              PROVE  GroupStart(d) = [k \in Kicks(d) |-> GroupOf(Kicks(d), GroupStart(d), k)]
  OBVIOUS
<1>. DEFINE Says(f) == f = [k \in Kicks(d) |-> GroupOf(Kicks(d), f, k)]
<1>1. \E f : Says(f)
  BY KicksAre, GroupsExist
<1>2. GroupStart(d) = CHOOSE f : Says(f)
  BY DEF GroupStart, GroupOf, Before
<1>. QED  BY <1>1, <1>2

\* A group starts no later than its games.
LEMMA StartsAre ==
  \A d : \A k \in Kicks(d) : GroupStart(d)[k] \in Nat /\ GroupStart(d)[k] <= k
<1>. SUFFICES ASSUME NEW d
              PROVE  \A k \in Kicks(d) : GroupStart(d)[k] \in Nat /\ GroupStart(d)[k] <= k
  OBVIOUS
<1>. DEFINE K == Kicks(d)
            f == GroupStart(d)
            T == {k \in K : ~(f[k] \in Nat /\ f[k] <= k)}
<1>1. K \subseteq Nat /\ \A k \in K : f[k] = GroupOf(K, f, k)
  BY KicksAre, GroupStartIs
<1>. HIDE DEF K, f
<1>. SUFFICES ASSUME T # {} PROVE FALSE
  BY DEF K, f
<1>2. PICK k \in T : \A j \in T : k <= j
  <2>1. T \subseteq Nat
    BY <1>1
  <2>. HIDE DEF T
  <2>. QED  BY <2>1, LeastElement
<1>3. k \in K /\ k \in Nat
  BY <1>1, <1>2
<1>4. Before(K, k) # {} /\ f[k] = f[Max(Before(K, k))]
  BY <1>1, <1>2, <1>3 DEF GroupOf
<1>. DEFINE j == Max(Before(K, k))
<1>5. j \in Before(K, k)
  BY <1>1, <1>3, <1>4, LastBefore
<1>6. j \in K /\ j \in Nat /\ j < k
  BY <1>1, <1>3, <1>5, BeforeAre
<1>. HIDE DEF j
<1>7. j \notin T
  BY <1>2, <1>3, <1>6
<1>. QED  BY <1>2, <1>3, <1>4, <1>6, <1>7 DEF j

\* A request is of games that kick off no earlier than it says, and is named by its day
\* and that time; there are requests, and finitely many.
LEMMA RequestsAre ==
  /\ IsFiniteSet(Requests)
  /\ \A r \in Requests : /\ r.day \in Nat /\ r.earliest \in Nat
                         /\ \A g \in r.games : Fixtures[g].kick \in Nat /\ r.earliest <= Fixtures[g].kick
  /\ \A r, x \in Requests : r.day = x.day /\ r.earliest = x.earliest => r = x
<1>. DEFINE of(g) == Request(Fixtures[g].day, GroupStart(Fixtures[g].day)[Fixtures[g].kick])
            f == [g \in DOMAIN Fixtures |-> of(g)]
<1>1. \A g \in DOMAIN Fixtures : Fixtures[g].day \in Days /\ Fixtures[g].kick \in Kicks(Fixtures[g].day)
  BY DEF Days, Kicks
<1>2. \A r \in Requests : \E g \in DOMAIN Fixtures : r = of(g)
  <2>. SUFFICES ASSUME NEW r \in Requests PROVE \E g \in DOMAIN Fixtures : r = of(g)
    OBVIOUS
  <2>1. PICK d \in Days : \E k \in Kicks(d) : r = Request(d, GroupStart(d)[k])
    BY DEF Requests
  <2>2. PICK k \in Kicks(d) : r = Request(d, GroupStart(d)[k])
    BY <2>1
  <2>3. PICK g \in DOMAIN Fixtures : Fixtures[g].day = d /\ Fixtures[g].kick = k
    BY DEF Kicks
  <2>. QED  BY <2>2, <2>3
<1>3. \A g \in DOMAIN Fixtures : of(g) \in Requests
  BY <1>1 DEF Requests
<1>4. IsFiniteSet(Requests)
  <2>1. f \in Surjection(DOMAIN Fixtures, Requests)
    BY <1>2, <1>3 DEF Surjection
  <2>. QED  BY <2>1, FS_Surjection, MarketAssumption
<1>5. ASSUME NEW d, NEW s
      PROVE  LET r == Request(d, s)
             IN /\ r.day = d /\ r.earliest = s
                /\ \A g \in r.games : g \in DOMAIN Fixtures /\ Fixtures[g].day = d /\ GroupStart(d)[Fixtures[g].kick] = s
  BY DEF Request
<1>6. \A r \in Requests : r.day \in Nat /\ r.earliest \in Nat
  <2>1. \A g \in DOMAIN Fixtures : Fixtures[g].day \in Nat
    BY MarketAssumption
  <2>2. \A g \in DOMAIN Fixtures : GroupStart(Fixtures[g].day)[Fixtures[g].kick] \in Nat
    BY <1>1, StartsAre
  <2>. QED  BY <1>2, <1>5, <2>1, <2>2
<1>7. \A r \in Requests : \A g \in r.games : Fixtures[g].kick \in Nat /\ r.earliest <= Fixtures[g].kick
  <2>. SUFFICES ASSUME NEW r \in Requests, NEW g \in r.games
                PROVE  Fixtures[g].kick \in Nat /\ r.earliest <= Fixtures[g].kick
    OBVIOUS
  <2>1. r = Request(r.day, r.earliest)
    BY <1>2, <1>5
  <2>2. g \in DOMAIN Fixtures /\ Fixtures[g].day = r.day /\ GroupStart(r.day)[Fixtures[g].kick] = r.earliest
    BY <1>5, <2>1
  <2>3. Fixtures[g].kick \in Kicks(r.day)
    BY <1>1, <2>2
  <2>4. Fixtures[g].kick \in Nat
    BY <2>2, MarketAssumption
  <2>. QED  BY <2>2, <2>3, <2>4, StartsAre
<1>8. \A r, x \in Requests : r.day = x.day /\ r.earliest = x.earliest => r = x
  <2>1. \A r \in Requests : r = Request(r.day, r.earliest)
    BY <1>2, <1>5
  <2>. QED  BY <2>1
<1>. QED  BY <1>4, <1>6, <1>7, <1>8

\* The plan has a request once.
LEMMA PlanIs ==
  ASSUME plan \in {BuildPlan, Tail(BuildPlan)}
  PROVE  /\ plan \in Seq(Requests)
         /\ \A i, j \in DOMAIN plan : plan[i] = plan[j] => i = j
<1>. DEFINE R == {p \in Requests \X Requests : PlanBefore(p[1], p[2])}
            n == Cardinality(Requests)
<1>1. \A r, x \in Requests : <<r, x>> \in R <=> PlanBefore(r, x)
  OBVIOUS
<1>2. \A r \in Requests : {x \in Requests : PlanBefore(x, r)} = Preceding(Requests, R, r)
  BY <1>1 DEF Preceding
<1>. HIDE DEF R
<1>3. \A r \in Requests : r.day \in Nat /\ r.earliest \in Nat
  BY RequestsAre
<1>4. \A r \in Requests : <<r, r>> \notin R
  BY <1>1, <1>3 DEF PlanBefore
<1>5. \A r, x, y \in Requests : <<r, x>> \in R /\ <<x, y>> \in R => <<r, y>> \in R
  <2>. SUFFICES ASSUME NEW r \in Requests, NEW x \in Requests, NEW y \in Requests,
                       <<r, x>> \in R, <<x, y>> \in R
                PROVE  <<r, y>> \in R
    OBVIOUS
  <2>1. /\ r.day \in Nat /\ r.earliest \in Nat /\ x.day \in Nat /\ x.earliest \in Nat
        /\ y.day \in Nat /\ y.earliest \in Nat
    BY <1>3
  <2>2. PlanBefore(r, x) /\ PlanBefore(x, y)
    BY <1>1
  <2>3. PlanBefore(r, y)
    BY <2>1, <2>2 DEF PlanBefore
  <2>. QED  BY <1>1, <2>3
<1>6. \A r, x \in Requests : r = x \/ <<r, x>> \in R \/ <<x, r>> \in R
  <2>. SUFFICES ASSUME NEW r \in Requests, NEW x \in Requests, r # x
                PROVE  <<r, x>> \in R \/ <<x, r>> \in R
    OBVIOUS
  <2>1. r.day \in Nat /\ r.earliest \in Nat /\ x.day \in Nat /\ x.earliest \in Nat
    BY <1>3
  <2>2. r.day # x.day \/ r.earliest # x.earliest
    BY RequestsAre
  <2>3. PlanBefore(r, x) \/ PlanBefore(x, r)
    BY <2>1, <2>2 DEF PlanBefore
  <2>. QED  BY <1>1, <2>3
<1>7. n \in Nat
  BY RequestsAre, FS_CardinalityType
<1>8. \A i \in 1..n : PlanRow(i) \in Requests /\ Cardinality(Preceding(Requests, R, PlanRow(i))) = i - 1
  <2>. SUFFICES ASSUME NEW i \in 1..n
                PROVE  PlanRow(i) \in Requests /\ Cardinality(Preceding(Requests, R, PlanRow(i))) = i - 1
    OBVIOUS
  <2>1. IsFiniteSet(Requests)
    BY RequestsAre
  <2>2. \E r \in Requests : Cardinality(Preceding(Requests, R, r)) = i - 1
    BY <1>4, <1>5, <1>6, <2>1, RankIsTaken
  <2>3. \E r \in Requests : Cardinality({x \in Requests : PlanBefore(x, r)}) = i - 1
    BY <1>2, <2>2
  <2>4. PlanRow(i) \in Requests /\ Cardinality({x \in Requests : PlanBefore(x, PlanRow(i))}) = i - 1
    BY <2>3 DEF PlanRow
  <2>. QED  BY <1>2, <2>4
<1>. HIDE DEF n
<1>9. \A i, j \in 1..n : PlanRow(i) = PlanRow(j) => i = j
  BY <1>7, <1>8
<1>10. BuildPlan = [i \in 1..n |-> PlanRow(i)]
  BY DEF BuildPlan, n
<1>11. BuildPlan \in Seq(Requests) /\ Len(BuildPlan) = n
  BY <1>7, <1>8, <1>10
<1>12. n # 0
  <2>1. PICK g \in DOMAIN Fixtures : TRUE
    BY MarketAssumption
  <2>2. Fixtures[g].day \in Days /\ Fixtures[g].kick \in Kicks(Fixtures[g].day)
    BY DEF Days, Kicks
  <2>3. Request(Fixtures[g].day, GroupStart(Fixtures[g].day)[Fixtures[g].kick]) \in Requests
    BY <2>2 DEF Requests
  <2>4. Requests # {}
    BY <2>3
  <2>. QED  BY <2>4, RequestsAre, FS_EmptySet DEF n
<1>13. CASE plan = BuildPlan
  BY <1>9, <1>10, <1>11, <1>13
<1>14. CASE plan = Tail(BuildPlan)
  <2>1. Tail(BuildPlan) \in Seq(Requests) /\ Len(Tail(BuildPlan)) = n - 1
        /\ \A i \in 1..(n - 1) : Tail(BuildPlan)[i] = BuildPlan[i + 1]
    BY <1>7, <1>11, <1>12
  <2>2. \A i \in 1..(n - 1) : i + 1 \in 1..n /\ Tail(BuildPlan)[i] = PlanRow(i + 1)
    BY <1>7, <1>10, <2>1
  <2>. HIDE DEF BuildPlan
  <2>3. DOMAIN plan = 1..(n - 1)
    BY <1>14, <2>1
  <2>. QED  BY <1>7, <1>9, <1>14, <2>1, <2>2, <2>3
<1>. QED  BY <1>13, <1>14

-----------------------------------------------------------------------------
Executing == {"fetch", "failed", "store", "enter"}
Busy == {"classify"} \cup Executing
Resting == {"idle", "stopped"}

AnswersTo(r) == Answers(r.games, r.target)
LedgerRows ==
  [request : Requests, category : {"VERIFIED_SUCCESS", "PAID_REJECTED", "REQUEST_FAILED"},
   digest : {NoAnswer} \cup UNION {AnswersTo(r) : r \in Requests}]

MarketTypes ==
  /\ plan \in {BuildPlan, Tail(BuildPlan)}
  /\ at \in [Workers -> Busy \cup Resting]
  /\ pending \in [Workers -> SUBSET DOMAIN plan]
  /\ DOMAIN answer = Workers
  /\ DOMAIN raw \subseteq Requests
  /\ entries \in Seq(LedgerRows)
  /\ paid \in [Requests -> Nat] /\ deaths \in Nat

\* Who works has the lock.
OneAcquires == \A w \in Workers : at[w] \in Busy => acquirer = w

Unentered(r) == \A i \in DOMAIN entries : entries[i].request # r

\* What a worker has to do is not entered; and what it is to enter it stored itself.
InProgress(w) ==
  /\ at[w] \in Executing => pending[w] # {} /\ \A i \in pending[w] : Unentered(plan[i])
  /\ at[w] \in {"store", "enter"} => answer[w] \in AnswersTo(Asking(w))
  /\ at[w] = "enter" => /\ Asking(w) \in DOMAIN raw /\ raw[Asking(w)] = answer[w]
                        /\ paid[Asking(w)] <= 1 + deaths

Answered(r) == \E w \in Workers : at[w] \in {"failed", "store"} /\ Asking(w) = r
Entering(r) == \E w \in Workers : at[w] = "enter" /\ Asking(w) = r

\* Each charge for a request that is neither stored nor entered was followed by a death, but
\* for one that is answered just now; what is stored and not entered had a death after it,
\* but for what is entered just now.
Spent(r) ==
  /\ paid[r] > 1 + deaths => Stuck(r)
  /\ deaths = 0 => paid[r] <= 1
  /\ Unentered(r) /\ r \notin DOMAIN raw => paid[r] <= deaths \/ Answered(r)
  /\ Unentered(r) /\ r \in DOMAIN raw => deaths > 0 \/ Entering(r)

\* The ledger has a request once, and agrees with the raw files.
Agrees(i) ==
  LET r == entries[i].request
  IN /\ entries[i].category = "REQUEST_FAILED" /\ r \in DOMAIN raw => deaths > 0
     /\ entries[i].category # "REQUEST_FAILED" => r \in DOMAIN raw /\ raw[r] = entries[i].digest
     /\ entries[i].category = "VERIFIED_SUCCESS" => raw[r] \in AnswersTo(r) /\ raw[r].stamp < r.earliest

EnteredOnce == \A i, j \in DOMAIN entries : entries[i].request = entries[j].request => i = j

MarketInv ==
  /\ MarketTypes /\ OneAcquires /\ EnteredOnce
  /\ \A w \in Workers : InProgress(w)
  /\ \A r \in Requests : Spent(r)
  /\ \A i \in DOMAIN entries : Agrees(i)

\* At the start nothing is asked, stored or entered.
LEMMA MarketInitially == MarketInit => MarketInv
<1>. SUFFICES ASSUME MarketInit PROVE MarketInv
  OBVIOUS
<1>1. MarketTypes
  BY DEF MarketInit, MarketTypes, Busy, Resting
<1>2. \A w \in Workers : at[w] = "idle"
  BY DEF MarketInit
<1>3. OneAcquires /\ \A w \in Workers : InProgress(w)
  BY <1>2 DEF OneAcquires, InProgress, Busy, Executing
<1>4. EnteredOnce /\ \A i \in DOMAIN entries : Agrees(i)
  BY DEF MarketInit, EnteredOnce
<1>5. \A r \in Requests : Spent(r)
  BY DEF MarketInit, Spent
<1>. QED  BY <1>1, <1>3, <1>4, <1>5 DEF MarketInv

\* While one works the others rest.
LEMMA OthersRest ==
  ASSUME MarketInv, NEW w \in Workers, at[w] \in Busy \/ acquirer = NoWorker
  PROVE  \A v \in Workers \ {w} : at[v] \in Resting
<1>. SUFFICES ASSUME NEW v \in Workers, v # w, at[v] \in Busy PROVE FALSE
  BY DEF MarketInv, MarketTypes
<1>. QED  BY MarketAssumption DEF MarketInv, OneAcquires

\* A worker that executes has a request, not entered yet.
LEMMA AskingIs ==
  ASSUME MarketInv, NEW w \in Workers, at[w] \in Executing
  PROVE  /\ Min(pending[w]) \in pending[w] /\ Min(pending[w]) \in DOMAIN plan
         /\ Asking(w) \in Requests /\ Unentered(Asking(w))
<1>1. plan \in Seq(Requests)
  BY PlanIs DEF MarketInv, MarketTypes
<1>2. pending[w] # {} /\ pending[w] \subseteq DOMAIN plan /\ \A i \in pending[w] : Unentered(plan[i])
  BY DEF MarketInv, MarketTypes, InProgress
<1>3. DOMAIN plan \subseteq Nat
  BY <1>1
<1>4. PICK x \in pending[w] : \A y \in pending[w] : x <= y
  <2>1. pending[w] \subseteq Nat
    BY <1>2, <1>3
  <2>. QED  BY <1>2, <2>1, LeastElement
<1>5. Min(pending[w]) \in pending[w]
  BY <1>4 DEF Min
<1>6. Asking(w) \in Requests
  BY <1>1, <1>2, <1>5 DEF Asking
<1>. QED  BY <1>2, <1>5, <1>6 DEF Asking

\* A step that moves one worker while the others rest.
Moved(w, s) ==
  /\ at' = [at EXCEPT ![w] = s] /\ s \in Busy \cup Resting
  /\ s \in Busy => acquirer' = w
  /\ \A v \in Workers \ {w} : at[v] \in Resting

LEMMA MovedIs ==
  ASSUME MarketInv, NEW w \in Workers, NEW s, Moved(w, s)
  PROVE  /\ at' \in [Workers -> Busy \cup Resting] /\ at'[w] = s
         /\ \A v \in Workers \ {w} : at'[v] \in Resting
         /\ OneAcquires'
         /\ InProgress(w)' => \A v \in Workers : InProgress(v)'
<1>1. at' \in [Workers -> Busy \cup Resting] /\ at'[w] = s /\ \A v \in Workers \ {w} : at'[v] = at[v]
  BY DEF Moved, MarketInv, MarketTypes
<1>2. \A v \in Workers \ {w} : at'[v] \in Resting
  BY <1>1 DEF Moved
<1>3. OneAcquires'
  BY <1>1, <1>2 DEF Moved, OneAcquires, Busy, Executing, Resting
<1>4. \A v \in Workers \ {w} : InProgress(v)'
  BY <1>2 DEF InProgress, Resting, Executing
<1>. QED  BY <1>1, <1>2, <1>3, <1>4

\* A worker that moves without touching plan, files and ledger; one that was to store or to
\* enter something dies, unless the file is there.
LEMMA RestingKeeps ==
  ASSUME MarketInv, NEW w \in Workers, NEW s, Moved(w, s), InProgress(w)',
         UNCHANGED <<plan, answer, raw, entries, paid>>,
         pending' \in [Workers -> SUBSET DOMAIN plan],
         s \in {"fetch", "classify"} \cup Resting,
         \/ deaths' = deaths + 1
         \/ /\ deaths' = deaths /\ at[w] # "enter"
            /\ at[w] \in {"failed", "store"} => Asking(w) \in DOMAIN raw
  PROVE  MarketInv'
<1>1. MarketTypes'
  BY MovedIs DEF MarketInv, MarketTypes
<1>2. EnteredOnce' /\ \A i \in DOMAIN entries' : Agrees(i)'
  BY DEF MarketInv, MarketTypes, EnteredOnce, Agrees
<1>3. ASSUME NEW r \in Requests PROVE Spent(r)'
  <2>1. Spent(r) /\ (Stuck(r)' <=> Stuck(r)) /\ (Unentered(r)' <=> Unentered(r)) /\ paid'[r] = paid[r]
    BY DEF MarketInv, Stuck, Rows, Unentered
  <2>2. paid[r] \in Nat /\ deaths \in Nat
    BY DEF MarketInv, MarketTypes
  <2>3. CASE deaths' = deaths + 1
    <3>1. Unentered(r) /\ r \notin DOMAIN raw => paid[r] <= 1 + deaths
      BY <2>1, <2>2 DEF Spent, Stuck
    <3>. QED  BY <2>1, <2>2, <2>3, <3>1 DEF Spent
  <2>4. CASE /\ deaths' = deaths /\ at[w] # "enter"
             /\ at[w] \in {"failed", "store"} => Asking(w) \in DOMAIN raw
    <3>1. ~Entering(r)
      BY <2>4 DEF Entering, Moved, Resting
    <3>2. Answered(r) => r \in DOMAIN raw
      BY <2>4 DEF Answered, Moved, Resting
    <3>. QED  BY <2>1, <2>2, <2>4, <3>1, <3>2 DEF Spent
  <2>. QED  BY <2>3, <2>4
<1>. QED  BY <1>1, <1>2, <1>3, MovedIs DEF MarketInv

\* The lock, the plan and the end of a worker.
LEMMA AcquireKeeps ==
  ASSUME MarketInv, NEW w \in Workers, Acquire(w)
  PROVE  MarketInv'
<1>. DEFINE s == IF ContractHolds /\ acquirer = NoWorker THEN "classify" ELSE "stopped"
<1>1. at[w] = "idle" /\ MoveTo(w, s) /\ UNCHANGED <<plan, pending, answer, raw, entries, paid, deaths>>
  BY DEF Acquire
<1>2. s = "classify" => acquirer = NoWorker /\ acquirer' = w
  BY DEF Acquire
<1>. HIDE DEF s
<1>3. s \in {"classify", "stopped"}
  BY DEF s
<1>4. CASE s = "classify"
  <2>1. Moved(w, s)
    BY <1>1, <1>2, <1>4, OthersRest DEF Moved, MoveTo, Busy
  <2>2. at'[w] = s
    BY <2>1, MovedIs
  <2>3. InProgress(w)'
    BY <1>4, <2>2 DEF InProgress, Executing
  <2>4. pending' \in [Workers -> SUBSET DOMAIN plan]
    BY <1>1 DEF MarketInv, MarketTypes
  <2>. QED  BY <1>1, <1>4, <2>1, <2>3, <2>4, RestingKeeps
<1>5. CASE s = "stopped"
  <2>1. acquirer' = acquirer
    BY <1>5 DEF Acquire, s
  <2>2. /\ at' \in [Workers -> Busy \cup Resting]
        /\ at'[w] = "stopped" /\ \A v \in Workers \ {w} : at'[v] = at[v]
    BY <1>1, <1>5 DEF MoveTo, MarketInv, MarketTypes, Resting
  <2>3. MarketTypes' /\ OneAcquires'
    BY <1>1, <2>1, <2>2 DEF MarketInv, MarketTypes, OneAcquires, Busy, Executing
  <2>4. EnteredOnce' /\ \A i \in DOMAIN entries' : Agrees(i)'
    BY <1>1 DEF MarketInv, EnteredOnce, Agrees
  <2>5. \A v \in Workers : InProgress(v)'
    BY <1>1, <2>2 DEF MarketInv, InProgress, Executing, Asking, Unentered
  <2>6. \A r \in Requests : Spent(r)'
    <3>1. \A r : (Answered(r) => Answered(r)') /\ (Entering(r) => Entering(r)')
      BY <1>1, <2>2 DEF Answered, Entering, Asking
    <3>. QED  BY <1>1, <3>1 DEF MarketInv, Spent, Stuck, Rows, Unentered
  <2>. QED  BY <2>3, <2>4, <2>5, <2>6 DEF MarketInv
<1>. QED  BY <1>3, <1>4, <1>5

\* A request that classify_request calls eligible is not in the ledger.
LEMMA EligibleIs == MarketInv => \A r : Category(r) = "ELIGIBLE" => Unentered(r)
<1>. SUFFICES ASSUME MarketInv, NEW r, NEW i \in DOMAIN entries, entries[i].request = r
              PROVE  Category(r) # "ELIGIBLE"
  BY DEF Unentered
<1>1. entries[i] \in LedgerRows
  BY DEF MarketInv, MarketTypes
<1>2. entries[i].category \in {"VERIFIED_SUCCESS", "PAID_REJECTED", "REQUEST_FAILED"}
  BY <1>1 DEF LedgerRows
<1>3. entries[i].category \in Categories(r)
  BY DEF Categories, Rows
<1>. QED  BY <1>2, <1>3 DEF Category

LEMMA ClassifyKeeps ==
  ASSUME MarketInv, NEW w \in Workers, ClassifyAll(w)
  PROVE  MarketInv'
<1>. DEFINE eligible == {i \in DOMAIN plan : Category(plan[i]) = "ELIGIBLE"}
<1>1. at[w] = "classify" /\ UNCHANGED <<plan, answer, raw, entries, paid, deaths>>
  BY DEF ClassifyAll
<1>2. \A v \in Workers \ {w} : at[v] \in Resting
  BY <1>1, OthersRest DEF Busy
<1>3. CASE StopRun(w) /\ UNCHANGED pending
  <2>1. Moved(w, "stopped")
    BY <1>2, <1>3 DEF Moved, StopRun, MoveTo, Busy, Executing, Resting
  <2>2. at'[w] = "stopped"
    BY <2>1, MovedIs
  <2>3. InProgress(w)'
    BY <2>2 DEF InProgress, Executing
  <2>4. pending' \in [Workers -> SUBSET DOMAIN plan]
    BY <1>3 DEF MarketInv, MarketTypes
  <2>. QED  BY <1>1, <2>1, <2>3, <2>4, RestingKeeps DEF Resting
<1>4. CASE /\ eligible # {} /\ MoveTo(w, "fetch") /\ pending' = [pending EXCEPT ![w] = eligible]
           /\ UNCHANGED acquirer
  <2>1. acquirer = w
    BY <1>1 DEF MarketInv, OneAcquires, Busy
  <2>2. Moved(w, "fetch")
    BY <1>2, <1>4, <2>1 DEF Moved, MoveTo, Busy, Executing, Resting
  <2>3. at'[w] = "fetch"
    BY <2>2, MovedIs
  <2>4. eligible \subseteq DOMAIN plan
    OBVIOUS
  <2>5. \A i \in eligible : Unentered(plan[i])
    BY EligibleIs
  <2>. HIDE DEF eligible
  <2>6. pending' \in [Workers -> SUBSET DOMAIN plan] /\ pending'[w] = eligible
    BY <1>4, <2>4 DEF MarketInv, MarketTypes
  <2>7. \A r : Unentered(r)' <=> Unentered(r)
    BY <1>1 DEF Unentered
  <2>8. InProgress(w)'
    BY <1>1, <1>4, <2>3, <2>5, <2>6, <2>7 DEF InProgress
  <2>. QED  BY <1>1, <2>2, <2>6, <2>8, RestingKeeps
<1>. QED  BY <1>3, <1>4 DEF ClassifyAll

\* A worker that dies leaves what it had stored and not entered, and one death more.
LEMMA DeathKeeps ==
  ASSUME MarketInv, NEW w \in Workers, WorkerDies(w)
  PROVE  MarketInv'
<1>1. acquirer = w /\ StopRun(w) /\ deaths' = deaths + 1 /\ UNCHANGED <<plan, pending, answer, raw, entries, paid>>
  BY DEF WorkerDies
<1>2. \A v \in Workers \ {w} : at[v] \in Resting
  BY <1>1, MarketAssumption DEF MarketInv, MarketTypes, OneAcquires
<1>3. Moved(w, "stopped")
  BY <1>1, <1>2 DEF Moved, StopRun, MoveTo, Busy, Executing, Resting
<1>4. at'[w] = "stopped"
  BY <1>3, MovedIs
<1>5. InProgress(w)'
  BY <1>4 DEF InProgress, Executing
<1>6. pending' \in [Workers -> SUBSET DOMAIN plan]
  BY <1>1 DEF MarketInv, MarketTypes
<1>. QED  BY <1>1, <1>3, <1>5, <1>6, RestingKeeps DEF Resting

\* A charge for a request that is neither stored nor entered is the only one no death paid.
LEMMA FetchKeeps ==
  ASSUME MarketInv, NEW w \in Workers, Fetch(w)
  PROVE  MarketInv'
<1>. DEFINE q == Asking(w)
<1>1. at[w] = "fetch" /\ UNCHANGED <<plan, acquirer, pending, raw, entries, deaths>>
  BY DEF Fetch
<1>2. PICK a \in AnswersTo(q) : /\ answer' = [answer EXCEPT ![w] = a]
                                /\ paid' = [paid EXCEPT ![q] = @ + (IF a.cost > 0 THEN 1 ELSE 0)]
                                /\ MoveTo(w, IF a.status = "ok" THEN "store" ELSE "failed")
  BY DEF Fetch, AnswersTo
<1>. DEFINE s == IF a.status = "ok" THEN "store" ELSE "failed"
<1>3. s \in {"store", "failed"} /\ MoveTo(w, s)
  BY <1>2
<1>4. q \in Requests /\ Unentered(q)
  BY <1>1, AskingIs DEF Executing
<1>5. q' = q
  BY <1>1 DEF Asking
<1>. HIDE DEF s, q
<1>6. acquirer = w /\ \A v \in Workers \ {w} : at[v] \in Resting
  BY <1>1, OthersRest DEF MarketInv, OneAcquires, Busy, Executing
<1>7. Moved(w, s)
  BY <1>1, <1>3, <1>6 DEF Moved, MoveTo, Busy, Executing
<1>8. at'[w] = s /\ \A v \in Workers \ {w} : at'[v] \in Resting
  BY <1>7, MovedIs
<1>9. answer'[w] = a /\ DOMAIN answer' = Workers
  BY <1>2 DEF MarketInv, MarketTypes
<1>10. /\ paid' \in [Requests -> Nat] /\ paid[q] \in Nat /\ paid'[q] \in Nat /\ paid'[q] <= paid[q] + 1
       /\ \A r \in Requests \ {q} : paid'[r] = paid[r]
  <2>1. paid \in [Requests -> Nat]
    BY DEF MarketInv, MarketTypes
  <2>. QED  BY <1>2, <1>4, <2>1
<1>11. \A r : (Unentered(r)' <=> Unentered(r)) /\ (Stuck(r)' <=> Stuck(r))
  BY <1>1 DEF Unentered, Stuck, Rows
<1>12. MarketTypes'
  BY <1>1, <1>7, <1>9, <1>10, MovedIs DEF MarketInv, MarketTypes
<1>13. InProgress(w)'
  <2>1. pending[w] # {} /\ \A i \in pending[w] : Unentered(plan[i])
    BY <1>1 DEF MarketInv, InProgress, Executing
  <2>. QED  BY <1>1, <1>3, <1>5, <1>8, <1>9, <1>11, <2>1 DEF InProgress, q
<1>14. EnteredOnce' /\ \A i \in DOMAIN entries' : Agrees(i)'
  BY <1>1 DEF MarketInv, EnteredOnce, Agrees
<1>15. ASSUME NEW r \in Requests PROVE Spent(r)'
  <2>1. Spent(r) /\ deaths \in Nat
    BY DEF MarketInv, MarketTypes
  <2>2. ~Answered(r) /\ ~Entering(r)
    BY <1>1, <1>6 DEF Answered, Entering, Resting
  <2>3. CASE r = q
    <3>1. Answered(r)'
      BY <1>3, <1>5, <1>8, <2>3 DEF Answered, q
    <3>2. CASE q \in DOMAIN raw
      <4>1. deaths > 0 /\ Stuck(r)
        BY <1>4, <2>1, <2>2, <2>3, <3>2 DEF Spent, Stuck, Unentered, Rows
      <4>. QED  BY <1>1, <1>10, <1>11, <2>1, <2>3, <3>2, <4>1 DEF Spent
    <3>3. CASE q \notin DOMAIN raw
      <4>1. paid[q] <= deaths
        BY <1>4, <2>1, <2>2, <2>3, <3>3 DEF Spent
      <4>2. paid'[q] <= 1 + deaths
        BY <1>10, <2>1, <4>1
      <4>. QED  BY <1>1, <1>10, <2>1, <2>3, <3>1, <3>3, <4>2 DEF Spent
    <3>. QED  BY <3>2, <3>3
  <2>4. CASE r # q
    BY <1>1, <1>10, <1>11, <2>1, <2>2, <2>4 DEF Spent
  <2>. QED  BY <2>3, <2>4
<1>. QED  BY <1>7, <1>12, <1>13, <1>14, <1>15, MovedIs DEF MarketInv

\* A request is stored under its name when there is no such file.
LEMMA StoreKeeps ==
  ASSUME MarketInv, NEW w \in Workers, Store(w)
  PROVE  MarketInv'
<1>. DEFINE q == Asking(w)
<1>1. at[w] = "store" /\ UNCHANGED <<plan, pending, answer, entries, paid, deaths>>
  BY DEF Store
<1>2. \A v \in Workers \ {w} : at[v] \in Resting
  BY <1>1, OthersRest DEF Busy, Executing
<1>3. CASE q \in DOMAIN raw /\ StopRun(w) /\ UNCHANGED raw
  <2>1. Moved(w, "stopped")
    BY <1>2, <1>3 DEF Moved, StopRun, MoveTo, Busy, Executing, Resting
  <2>2. at'[w] = "stopped"
    BY <2>1, MovedIs
  <2>3. InProgress(w)'
    BY <2>2 DEF InProgress, Executing
  <2>4. pending' \in [Workers -> SUBSET DOMAIN plan]
    BY <1>1 DEF MarketInv, MarketTypes
  <2>. QED  BY <1>1, <1>3, <2>1, <2>3, <2>4, RestingKeeps DEF Resting
<1>4. CASE /\ q \notin DOMAIN raw /\ MoveTo(w, "enter") /\ UNCHANGED acquirer
           /\ raw' = [x \in DOMAIN raw \cup {q} |-> IF x = q THEN answer[w] ELSE raw[x]]
  <2>1. acquirer = w
    BY <1>1 DEF MarketInv, OneAcquires, Busy, Executing
  <2>2. Moved(w, "enter")
    BY <1>2, <1>4, <2>1 DEF Moved, MoveTo, Busy, Executing
  <2>3. at'[w] = "enter" /\ \A v \in Workers \ {w} : at'[v] \in Resting
    BY <2>2, MovedIs
  <2>4. q \in Requests /\ Unentered(q)
    BY <1>1, AskingIs DEF Executing
  <2>5. q' = q
    BY <1>1 DEF Asking
  <2>6. \A r : Unentered(r)' <=> Unentered(r)
    BY <1>1 DEF Unentered
  <2>7. pending[w] # {} /\ answer[w] \in AnswersTo(q) /\ \A i \in pending[w] : Unentered(plan[i])
    BY <1>1 DEF MarketInv, InProgress, Executing
  <2>. HIDE DEF q
  <2>8. /\ DOMAIN raw' = DOMAIN raw \cup {q} /\ raw'[q] = answer[w]
        /\ \A r \in DOMAIN raw : raw'[r] = raw[r]
    BY <1>4
  <2>9. MarketTypes'
    BY <1>1, <2>2, <2>4, <2>8, MovedIs DEF MarketInv, MarketTypes
  <2>10. paid[q] <= 1 + deaths
    <3>1. ~Stuck(q) /\ Spent(q)
      BY <1>4, <2>4 DEF Stuck, MarketInv
    <3>2. paid[q] \in Nat /\ deaths \in Nat
      BY <2>4 DEF MarketInv, MarketTypes
    <3>. QED  BY <3>1, <3>2 DEF Spent
  <2>11. InProgress(w)'
    BY <1>1, <2>3, <2>5, <2>6, <2>7, <2>8, <2>10 DEF InProgress, q
  <2>12. EnteredOnce'
    BY <1>1 DEF MarketInv, EnteredOnce
  <2>13. ASSUME NEW i \in DOMAIN entries PROVE Agrees(i)'
    <3>1. entries[i].request # q /\ Agrees(i)
      BY <2>4 DEF Unentered, MarketInv
    <3>. QED  BY <1>1, <2>8, <3>1 DEF Agrees
  <2>14. ASSUME NEW r \in Requests PROVE Spent(r)'
    <3>1. Spent(r) /\ deaths \in Nat /\ paid[r] \in Nat
      BY DEF MarketInv, MarketTypes
    <3>2. CASE r = q
      <4>1. Entering(r)'
        BY <2>3, <2>5, <3>2 DEF Entering, q
      <4>. QED  BY <1>1, <2>8, <2>10, <3>1, <3>2, <4>1 DEF Spent
    <3>3. CASE r # q
      <4>1. ~Answered(r) /\ ~Entering(r)
        BY <1>1, <1>2, <3>3 DEF Answered, Entering, Resting, q
      <4>2. Stuck(r)' <=> Stuck(r)
        BY <1>1, <2>8, <3>3 DEF Stuck, Rows
      <4>. QED  BY <1>1, <2>6, <2>8, <3>1, <3>3, <4>1, <4>2 DEF Spent
    <3>. QED  BY <3>2, <3>3
  <2>. QED  BY <1>1, <2>2, <2>9, <2>11, <2>12, <2>13, <2>14, MovedIs DEF MarketInv
<1>. QED  BY <1>3, <1>4 DEF Store

\* A row for a request that is not in the ledger, and what it leaves to the others.
LEMMA RowIsEntered ==
  ASSUME MarketInv, NEW r \in Requests, Unentered(r), NEW row \in LedgerRows,
         row.request = r, entries' = Append(entries, row)
  PROVE  /\ entries' \in Seq(LedgerRows) /\ EnteredOnce'
         /\ DOMAIN entries' = DOMAIN entries \cup {Len(entries) + 1}
         /\ entries'[Len(entries) + 1] = row
         /\ \A i \in DOMAIN entries : entries'[i] = entries[i]
         /\ \A x : x # r => (Unentered(x)' <=> Unentered(x))
<1>1. entries \in Seq(LedgerRows)
  BY DEF MarketInv, MarketTypes
<1>2. /\ entries' \in Seq(LedgerRows)
      /\ DOMAIN entries' = DOMAIN entries \cup {Len(entries) + 1}
      /\ entries'[Len(entries) + 1] = row
      /\ \A i \in DOMAIN entries : entries'[i] = entries[i]
  BY <1>1
<1>3. \A i, j \in DOMAIN entries : entries[i].request = entries[j].request => i = j
  BY DEF MarketInv, EnteredOnce
<1>4. \A i \in DOMAIN entries : entries[i].request # r
  BY DEF Unentered
<1>5. EnteredOnce'
  <2>. SUFFICES ASSUME NEW i \in DOMAIN entries', NEW j \in DOMAIN entries',
                       entries'[i].request = entries'[j].request
                PROVE  i = j
    BY DEF EnteredOnce
  <2>1. CASE i \in DOMAIN entries /\ j \in DOMAIN entries
    BY <1>2, <1>3, <2>1
  <2>2. CASE i \notin DOMAIN entries \/ j \notin DOMAIN entries
    BY <1>2, <1>4, <2>2
  <2>. QED  BY <2>1, <2>2
<1>6. \A x : x # r => (Unentered(x)' <=> Unentered(x))
  BY <1>2, Zenon DEF Unentered
<1>. QED  BY <1>2, <1>5, <1>6

\* Nothing holds of the spending on a request that has a row, but for what it cost.
LEMMA EnteredIsSpent ==
  ASSUME MarketInv, NEW r \in Requests, NEW w \in Workers, at[w] \in {"failed", "enter"},
         ~Unentered(r)', UNCHANGED <<raw, paid, deaths>>, paid[r] <= 1 + deaths \/ Stuck(r)'
  PROVE  Spent(r)'
<1>1. Spent(r) /\ paid[r] \in Nat /\ deaths \in Nat
  BY DEF MarketInv, MarketTypes
<1>. QED  BY <1>1 DEF Spent

\* A failure is entered for what was asked just now.
LEMMA EnterFailureKeeps ==
  ASSUME MarketInv, NEW w \in Workers, EnterFailure(w)
  PROVE  MarketInv'
<1>. DEFINE q == Asking(w)
            row == [request |-> q, category |-> "REQUEST_FAILED", digest |-> NoAnswer]
<1>1. at[w] = "failed" /\ StopRun(w) /\ UNCHANGED <<plan, pending, answer, raw, paid, deaths>>
  BY DEF EnterFailure
<1>2. entries' = Append(entries, row)
  BY DEF EnterFailure, Entry
<1>3. q \in Requests /\ Unentered(q)
  BY <1>1, AskingIs DEF Executing
<1>4. \A v \in Workers \ {w} : at[v] \in Resting
  BY <1>1, OthersRest DEF Busy, Executing
<1>5. Moved(w, "stopped")
  BY <1>1, <1>4 DEF Moved, StopRun, MoveTo, Busy, Executing, Resting
<1>6. at'[w] = "stopped"
  BY <1>5, MovedIs
<1>7. row \in LedgerRows /\ row.request = q /\ row.category = "REQUEST_FAILED"
  BY <1>3 DEF LedgerRows
<1>. HIDE DEF q, row
<1>8. PICK c \in Requests : c = q
  BY <1>3
<1>9. /\ entries' \in Seq(LedgerRows) /\ EnteredOnce'
      /\ DOMAIN entries' = DOMAIN entries \cup {Len(entries) + 1}
      /\ entries'[Len(entries) + 1] = row
      /\ \A i \in DOMAIN entries : entries'[i] = entries[i]
      /\ \A x : x # c => (Unentered(x)' <=> Unentered(x))
  BY <1>2, <1>3, <1>7, <1>8, RowIsEntered
<1>10. MarketTypes'
  BY <1>1, <1>5, <1>9, MovedIs DEF MarketInv, MarketTypes
<1>11. \A v \in Workers : InProgress(v)'
  <2>1. InProgress(w)'
    BY <1>6 DEF InProgress, Executing
  <2>. QED  BY <1>5, <2>1, MovedIs
<1>12. Spent(c) /\ paid[c] \in Nat /\ deaths \in Nat /\ Unentered(c)
  BY <1>3, <1>8 DEF MarketInv, MarketTypes
<1>13. c \in DOMAIN raw => deaths > 0
  <2>1. ~Entering(c)
    BY <1>1, <1>4 DEF Entering, Resting
  <2>. QED  BY <1>12, <2>1 DEF Spent
<1>14. ASSUME NEW i \in DOMAIN entries' PROVE Agrees(i)'
  <2>1. CASE i \in DOMAIN entries
    <3>1. Agrees(i) /\ entries'[i] = entries[i]
      BY <1>9, <2>1 DEF MarketInv
    <3>. QED  BY <1>1, <3>1 DEF Agrees
  <2>2. CASE i = Len(entries) + 1
    <3>1. entries'[i].request = c /\ entries'[i].category = "REQUEST_FAILED"
      BY <1>7, <1>8, <1>9, <2>2
    <3>. QED  BY <1>1, <1>13, <3>1 DEF Agrees
  <2>. QED  BY <1>9, <2>1, <2>2
<1>15. ASSUME NEW r \in Requests PROVE Spent(r)'
  <2>1. CASE r = c
    <3>1. ~Unentered(r)'
      BY <1>7, <1>8, <1>9, <2>1 DEF Unentered
    <3>2. paid[r] <= 1 + deaths \/ Stuck(r)'
      <4>. SUFFICES ASSUME ~(paid[r] <= 1 + deaths) PROVE Stuck(r)'
        OBVIOUS
      <4>1. r \in DOMAIN raw
        BY <1>12, <2>1 DEF Spent, Stuck
      <4>2. \A i \in DOMAIN entries' : entries'[i].request = r => entries'[i].category = "REQUEST_FAILED"
        BY <1>7, <1>9, <1>12, <2>1, Zenon DEF Unentered
      <4>. QED  BY <1>1, <4>1, <4>2 DEF Stuck, Rows
    <3>. QED  BY <1>1, <3>1, <3>2, EnteredIsSpent
  <2>2. CASE r # c
    <3>1. Spent(r) /\ paid[r] \in Nat /\ (Unentered(r)' <=> Unentered(r))
      BY <1>9, <2>2 DEF MarketInv, MarketTypes
    <3>2. Stuck(r)' <=> Stuck(r)
      <4>1. Rows(r)' = Rows(r)
        BY <1>7, <1>8, <1>9, <2>2 DEF Rows
      <4>. QED  BY <1>1, <1>9, <4>1 DEF Stuck, Rows
    <3>3. ~Answered(r) /\ ~Entering(r)
      BY <1>1, <1>4, <1>8, <2>2 DEF Answered, Entering, Resting, q
    <3>. QED  BY <1>1, <3>1, <3>2, <3>3 DEF Spent
  <2>. QED  BY <2>1, <2>2
<1>. QED  BY <1>5, <1>9, <1>10, <1>11, <1>14, <1>15, MovedIs DEF MarketInv

\* What is entered as verified or rejected is what was stored just now.
LEMMA EnterKeeps ==
  ASSUME MarketInv, NEW w \in Workers, Enter(w)
  PROVE  MarketInv'
<1>. DEFINE q == Asking(w)
            ok == Valid(q, answer[w])
            row == [request |-> q, category |-> IF ok THEN "VERIFIED_SUCCESS" ELSE "PAID_REJECTED",
                    digest |-> answer[w]]
            rest == pending[w] \ {Min(pending[w])}
            s == IF ok /\ rest # {} THEN "fetch" ELSE "stopped"
<1>1. at[w] = "enter" /\ UNCHANGED <<plan, answer, raw, paid, deaths>>
  BY DEF Enter
<1>2. entries' = Append(entries, row)
  BY DEF Enter, Entry
<1>3. pending' \in [Workers -> SUBSET DOMAIN plan] /\ pending'[w] = rest
  <2>1. pending \in [Workers -> SUBSET DOMAIN plan]
    BY DEF MarketInv, MarketTypes
  <2>. QED  BY <2>1 DEF Enter
<1>4. MoveTo(w, s) /\ (s = "fetch" => UNCHANGED acquirer)
  BY <1>3 DEF Enter, StopRun
<1>5. q \in Requests /\ Unentered(q) /\ Min(pending[w]) \in pending[w]
  BY <1>1, AskingIs DEF Executing
<1>6. acquirer = w /\ \A v \in Workers \ {w} : at[v] \in Resting
  BY <1>1, OthersRest DEF MarketInv, OneAcquires, Busy, Executing
<1>7. Moved(w, s)
  BY <1>4, <1>6 DEF Moved, MoveTo, Busy, Executing, Resting
<1>8. at'[w] = s
  BY <1>7, MovedIs
<1>9. /\ answer[w] \in AnswersTo(q) /\ q \in DOMAIN raw /\ raw[q] = answer[w] /\ paid[q] <= 1 + deaths
      /\ \A i \in pending[w] : Unentered(plan[i])
  BY <1>1 DEF MarketInv, InProgress, Executing
<1>10. row \in LedgerRows /\ row.request = q /\ row.digest = raw[q] /\ row.category # "REQUEST_FAILED"
       /\ (row.category = "VERIFIED_SUCCESS" => raw[q].stamp < q.earliest)
  BY <1>5, <1>9 DEF LedgerRows, Valid
<1>11. \A i \in rest : plan[i] # q
  <2>1. \A i, j \in DOMAIN plan : plan[i] = plan[j] => i = j
    BY PlanIs DEF MarketInv, MarketTypes
  <2>2. pending[w] \subseteq DOMAIN plan
    BY DEF MarketInv, MarketTypes
  <2>. QED  BY <1>5, <2>1, <2>2 DEF Asking
<1>12. s = "fetch" => rest # {}
  OBVIOUS
<1>13. s \in {"fetch", "stopped"}
  OBVIOUS
<1>14. rest \subseteq pending[w]
  OBVIOUS
<1>. HIDE DEF q, row, ok, rest, s
<1>15. PICK c \in Requests : c = q
  BY <1>5
<1>16. /\ entries' \in Seq(LedgerRows) /\ EnteredOnce'
       /\ DOMAIN entries' = DOMAIN entries \cup {Len(entries) + 1}
       /\ entries'[Len(entries) + 1] = row
       /\ \A i \in DOMAIN entries : entries'[i] = entries[i]
       /\ \A x : x # c => (Unentered(x)' <=> Unentered(x))
  BY <1>2, <1>5, <1>10, <1>15, RowIsEntered
<1>17. MarketTypes'
  BY <1>1, <1>3, <1>7, <1>16, MovedIs DEF MarketInv, MarketTypes
<1>18. \A v \in Workers : InProgress(v)'
  <2>1. \A i \in rest : Unentered(plan[i])'
    BY <1>1, <1>9, <1>11, <1>14, <1>15, <1>16
  <2>2. InProgress(w)'
    BY <1>3, <1>8, <1>12, <1>13, <2>1 DEF InProgress, Executing
  <2>. QED  BY <1>7, <2>2, MovedIs
<1>19. ASSUME NEW i \in DOMAIN entries' PROVE Agrees(i)'
  <2>1. CASE i \in DOMAIN entries
    <3>1. Agrees(i) /\ entries'[i] = entries[i]
      BY <1>16, <2>1 DEF MarketInv
    <3>. QED  BY <1>1, <3>1 DEF Agrees
  <2>2. CASE i = Len(entries) + 1
    BY <1>1, <1>9, <1>10, <1>16, <2>2 DEF Agrees
  <2>. QED  BY <1>16, <2>1, <2>2
<1>20. ASSUME NEW r \in Requests PROVE Spent(r)'
  <2>1. CASE r = c
    <3>1. ~Unentered(r)'
      BY <1>10, <1>15, <1>16, <2>1 DEF Unentered
    <3>. QED  BY <1>1, <1>9, <1>15, <2>1, <3>1, EnteredIsSpent
  <2>2. CASE r # c
    <3>1. Spent(r) /\ paid[r] \in Nat /\ (Unentered(r)' <=> Unentered(r))
      BY <1>16, <2>2 DEF MarketInv, MarketTypes
    <3>2. Stuck(r)' <=> Stuck(r)
      <4>1. Rows(r)' = Rows(r)
        BY <1>10, <1>15, <1>16, <2>2 DEF Rows
      <4>. QED  BY <1>1, <1>16, <4>1 DEF Stuck, Rows
    <3>3. ~Answered(r) /\ ~Entering(r)
      BY <1>1, <1>6, <1>15, <2>2 DEF Answered, Entering, Resting, q
    <3>. QED  BY <1>1, <3>1, <3>2, <3>3 DEF Spent
  <2>. QED  BY <2>1, <2>2
<1>. QED  BY <1>7, <1>16, <1>17, <1>18, <1>19, <1>20, MovedIs DEF MarketInv

\* So every step of the acquisition keeps the money and the files in order.
LEMMA MarketKeeps == MarketInv /\ [MarketNext]_marketVars => MarketInv'
<1>. SUFFICES ASSUME MarketInv, [MarketNext]_marketVars PROVE MarketInv'
  OBVIOUS
<1>1. CASE MarketNext
  <2>1. PICK w \in Workers : Acquires(w) \/ WorkerDies(w)
    BY <1>1 DEF MarketNext
  <2>2. CASE Acquire(w)
    BY <2>2, AcquireKeeps
  <2>3. CASE ClassifyAll(w)
    BY <2>3, ClassifyKeeps
  <2>4. CASE Fetch(w)
    BY <2>4, FetchKeeps
  <2>5. CASE EnterFailure(w)
    BY <2>5, EnterFailureKeeps
  <2>6. CASE Store(w)
    BY <2>6, StoreKeeps
  <2>7. CASE Enter(w)
    BY <2>7, EnterKeeps
  <2>8. CASE WorkerDies(w)
    BY <2>8, DeathKeeps
  <2>. QED  BY <2>1, <2>2, <2>3, <2>4, <2>5, <2>6, <2>7, <2>8 DEF Acquires
<1>2. CASE UNCHANGED marketVars
  BY <1>2 DEF marketVars, MarketInv, MarketTypes, OneAcquires, EnteredOnce, InProgress, Spent, Agrees,
              Answered, Entering, Asking, Unentered, Stuck, Rows
<1>. QED  BY <1>1, <1>2

\* What the invariant says of the money and the files.
LEMMA MarketImplies == MarketInv => OddsAreKept
<1>. SUFFICES ASSUME MarketInv PROVE OddsAreKept
  OBVIOUS
<1>1. entries \in Seq(LedgerRows) /\ paid \in [Requests -> Nat] /\ deaths \in Nat /\ DOMAIN raw \subseteq Requests
  BY DEF MarketInv, MarketTypes
<1>2. \A i \in DOMAIN entries : entries[i] \in LedgerRows
  BY <1>1
<1>3. ASSUME NEW r \in Requests PROVE Cardinality(Rows(r)) <= 1
  <2>1. CASE Rows(r) = {}
    BY <2>1, FS_EmptySet
  <2>2. CASE Rows(r) # {}
    <3>1. PICK i \in Rows(r) : TRUE
      BY <2>2
    <3>2. Rows(r) = {i}
      BY <3>1 DEF Rows, MarketInv, EnteredOnce
    <3>3. \A x : Cardinality({x}) = 1
      BY FS_Singleton
    <3>. QED  BY <3>2, <3>3
  <2>. QED  BY <2>1, <2>2
<1>4. \A r \in Requests : (paid[r] > 1 + deaths => Stuck(r)) /\ (deaths = 0 => paid[r] <= 1)
  BY DEF MarketInv, Spent
<1>5. ASSUME NEW i \in DOMAIN entries
      PROVE  LET r == entries[i].request
             IN /\ entries[i].category # "REQUEST_FAILED" => r \in DOMAIN raw /\ raw[r] = entries[i].digest
                /\ entries[i].category = "VERIFIED_SUCCESS" => \A g \in r.games : raw[r].stamp < Fixtures[g].kick
  <2>. DEFINE r == entries[i].request
  <2>1. r \in Requests
    BY <1>2 DEF LedgerRows
  <2>2. Agrees(i)
    BY DEF MarketInv
  <2>3. ASSUME entries[i].category = "VERIFIED_SUCCESS", NEW g \in r.games
        PROVE  raw[r].stamp < Fixtures[g].kick
    <3>1. raw[r] \in AnswersTo(r) /\ raw[r].stamp < r.earliest
      BY <2>2, <2>3 DEF Agrees
    <3>2. raw[r].stamp \in Nat
      BY <2>1, <3>1, MarketAssumption DEF AnswersTo
    <3>3. r.earliest \in Nat /\ Fixtures[g].kick \in Nat /\ r.earliest <= Fixtures[g].kick
      BY <2>1, RequestsAre
    <3>. HIDE DEF r
    <3>. QED  BY <3>1, <3>2, <3>3
  <2>. QED  BY <2>2, <2>3 DEF Agrees
<1>6. ASSUME NEW r \in Asked, Stuck(r) PROVE deaths > 0 \/ acquirer # NoWorker
  <2>1. plan \in Seq(Requests)
    BY PlanIs DEF MarketInv, MarketTypes
  <2>2. r \in Requests
    BY <2>1 DEF Asked
  <2>3. CASE Unentered(r)
    <3>1. deaths > 0 \/ Entering(r)
      BY <1>6, <2>2, <2>3 DEF MarketInv, Spent, Stuck
    <3>. QED  BY <3>1, MarketAssumption DEF Entering, MarketInv, OneAcquires, Busy, Executing
  <2>4. CASE ~Unentered(r)
    <3>1. PICK i \in DOMAIN entries : entries[i].request = r
      BY <2>4 DEF Unentered
    <3>2. entries[i].category = "REQUEST_FAILED" /\ r \in DOMAIN raw
      BY <1>6, <3>1 DEF Stuck, Rows
    <3>. QED  BY <3>1, <3>2 DEF MarketInv, Agrees
  <2>. QED  BY <2>3, <2>4
<1>. QED  BY <1>3, <1>4, <1>5, <1>6 DEF OddsAreKept

\* Over all invocations and deaths, the provider charges for a request no more than once
\* and once for each death, unless its answer was stored and not entered; the ledger has a
\* request once and agrees with the raw file, and what it calls verified is from before the
\* kickoff of each game of the request (classify_request, write_raw_immutable,
\* append_ledger_entry).
THEOREM OddsKept == MarketSpec => []OddsAreKept
<1>1. MarketSpec => []MarketInv
  BY MarketInitially, MarketKeeps, PTL DEF MarketSpec
<1>. QED  BY <1>1, MarketImplies, PTL

-----------------------------------------------------------------------------
(***************************************************************************)
(* The canonical odds and the ledger of bets                               *)
(***************************************************************************)

\* The one row of a game that is of a family and a model.
BetModel(model) == IF model = "CORROB" THEN "AVG" ELSE model
RowOn(g, c, r, family, model, m, bucket) ==
  Bet(g, c, family, model, bucket, m.side, m.edge, 0, Grade(SideMargin(m.side, r), m.price))
MoneyRow(g, c, r, family, model, bucket) == RowOn(g, c, r, family, model, c.models[BetModel(model)], bucket)
MoneyBucket(c, family, model) ==
  IF family = "DISAGREEMENT" THEN Bucket(c.models[BetModel(model)].edge, MoneyBounds)
  ELSE IF family = "DOG_VALUE_ZONE" THEN "ZONE" ELSE "LONG201+"

\* What build_ledger offers a spread.
OffersOf(g, c) == IF g \in DOMAIN odds THEN Offers(odds[g], c.picks.spread) ELSE {}

SpreadRow(g, c, r) ==
  Bet(g, c, "SPREAD", "EXPECTED_MARGIN", Bucket(c.picks.points, PointBounds), c.picks.spread,
      c.picks.points, Shop(OffersOf(g, c)).line,
      Grade(2 * SideMargin(c.picks.spread, r) + Shop(OffersOf(g, c)).line, Shop(OffersOf(g, c)).price))
TotalRow(g, c, r) ==
  Bet(g, c, "TOTAL_R4", "RIDGE_R4", Bucket(c.picks.points, PointBounds), c.picks.total,
      c.picks.points, c.picks.line,
      Grade(TotalMargin(c.picks.total, r, c.picks.line), c.picks.price))

RowOf(g, c, r, family, model) ==
  IF family = "SPREAD" THEN SpreadRow(g, c, r)
  ELSE IF family = "TOTAL_R4" THEN TotalRow(g, c, r)
  ELSE MoneyRow(g, c, r, family, model, MoneyBucket(c, family, model))

LEMMA MoneyRowIs ==
  ASSUME NEW g, NEW c, NEW r, NEW family, NEW model, NEW bucket
  PROVE  LET b == MoneyRow(g, c, r, family, model, bucket)
         IN /\ b.game = g /\ b.season = c.season /\ b.family = family /\ b.model = model /\ b.bucket = bucket
BY DEF MoneyRow, RowOn, Bet

\* The rows of the moneyline, taken apart.
Counts(c, model) == Priced(c, model) /\ (model = "AVG" => "QB_ELO" \in DOMAIN c.models /\ c.predicted)
RowsOn(g, c, r, model, m) ==
  {RowOn(g, c, r, "DISAGREEMENT", model, m, Bucket(m.edge, MoneyBounds))}
    \cup (IF InDogZone(m) THEN {RowOn(g, c, r, "DOG_VALUE_ZONE", model, m, "ZONE")} ELSE {})
    \cup (IF m.price >= 201 THEN {RowOn(g, c, r, "LONG_DOG", model, m, "LONG201+")} ELSE {})
Agree(c) == /\ \A model \in {"QB_ELO", "XGB", "AVG"} : model \in DOMAIN c.models
            /\ c.models["QB_ELO"].side = c.models["XGB"].side
            /\ Priced(c, "QB_ELO") /\ c.predicted /\ Priced(c, "AVG")
RowsOnBoth(g, c, r, m) ==
  {RowOn(g, c, r, "DISAGREEMENT", "CORROB", m, Bucket(m.edge, MoneyBounds))}
    \cup (IF InDogZone(m) THEN {RowOn(g, c, r, "DOG_VALUE_ZONE", "CORROB", m, "ZONE")} ELSE {})

ModelRows(g, c, r) ==
  UNION {RowsOn(g, c, r, model, c.models[model]) : model \in {x \in {"QB_ELO", "XGB", "AVG"} : Counts(c, x)}}
AgreedRows(g, c, r) == IF Agree(c) THEN RowsOnBoth(g, c, r, c.models["AVG"]) ELSE {}

LEMMA MoneyRowsSplit ==
  ASSUME NEW g, NEW c, NEW r
  PROVE  MoneyRows(g, c, r) = ModelRows(g, c, r) \cup AgreedRows(g, c, r)
<1>1. MoneyRows(g, c, r) =
        (UNION {RowsOn(g, c, r, model, c.models[model]) : model \in {x \in {"QB_ELO", "XGB", "AVG"} : Counts(c, x)}})
          \cup (IF Agree(c) THEN RowsOnBoth(g, c, r, c.models["AVG"]) ELSE {})
  BY Zenon DEF MoneyRows, RowsOn, RowOn, RowsOnBoth, Agree, Counts
<1>. QED  BY Zenon, <1>1 DEF ModelRows, AgreedRows

LEMMA MoneyRowsAre ==
  ASSUME NEW g, NEW c, NEW r, NEW b, b \in MoneyRows(g, c, r)
  PROVE  /\ b.family \in {"DISAGREEMENT", "DOG_VALUE_ZONE", "LONG_DOG"}
         /\ b.game = g /\ b.season = c.season
         /\ b = RowOf(g, c, r, b.family, b.model)
         /\ b.model = "CORROB" => Agree(c) /\ (b.family = "DOG_VALUE_ZONE" => InDogZone(c.models["AVG"]))
<1>1. CASE \E model \in {"QB_ELO", "XGB", "AVG"} : b \in RowsOn(g, c, r, model, c.models[model])
  <2>1. PICK model \in {"QB_ELO", "XGB", "AVG"} : b \in RowsOn(g, c, r, model, c.models[model])
    BY <1>1
  <2>2. c.models[model] = c.models[BetModel(model)] /\ model # "CORROB"
    BY DEF BetModel
  <2>3. PICK family : family \in {"DISAGREEMENT", "DOG_VALUE_ZONE", "LONG_DOG"}
                       /\ b = MoneyRow(g, c, r, family, model, MoneyBucket(c, family, model))
    BY <2>1, <2>2 DEF RowsOn, MoneyRow, MoneyBucket
  <2>4. b.game = g /\ b.season = c.season /\ b.family = family /\ b.model = model
    BY <2>3, MoneyRowIs
  <2>. QED  BY <2>2, <2>3, <2>4 DEF RowOf
<1>2. CASE Agree(c) /\ b \in RowsOnBoth(g, c, r, c.models["AVG"])
  <2>1. c.models[BetModel("CORROB")] = c.models["AVG"]
    BY DEF BetModel
  <2>2. PICK family : /\ family \in {"DISAGREEMENT", "DOG_VALUE_ZONE", "LONG_DOG"}
                      /\ b = MoneyRow(g, c, r, family, "CORROB", MoneyBucket(c, family, "CORROB"))
                      /\ family = "DOG_VALUE_ZONE" => InDogZone(c.models["AVG"])
    BY <1>2, <2>1 DEF RowsOnBoth, MoneyRow, MoneyBucket
  <2>3. b.game = g /\ b.season = c.season /\ b.family = family /\ b.model = "CORROB"
    BY <2>2, MoneyRowIs
  <2>. QED  BY <1>2, <2>2, <2>3 DEF RowOf
<1>3. b \in ModelRows(g, c, r) \/ b \in AgreedRows(g, c, r)
  BY MoneyRowsSplit
<1>4. b \in ModelRows(g, c, r) => \E model \in {"QB_ELO", "XGB", "AVG"} : b \in RowsOn(g, c, r, model, c.models[model])
  BY DEF ModelRows
<1>5. b \in AgreedRows(g, c, r) => Agree(c) /\ b \in RowsOnBoth(g, c, r, c.models["AVG"])
  BY DEF AgreedRows
<1>. QED  BY <1>1, <1>2, <1>3, <1>4, <1>5

\* Where the models agree and their average is in the zone, the average bets there too.
LEMMA AverageBets ==
  ASSUME NEW g, NEW c, NEW r, Agree(c), InDogZone(c.models["AVG"])
  PROVE  RowOf(g, c, r, "DOG_VALUE_ZONE", "AVG") \in MoneyRows(g, c, r)
<1>1. Counts(c, "AVG")
  BY DEF Agree, Counts
<1>2. RowOf(g, c, r, "DOG_VALUE_ZONE", "AVG") = RowOn(g, c, r, "DOG_VALUE_ZONE", "AVG", c.models["AVG"], "ZONE")
  BY DEF RowOf, MoneyRow, MoneyBucket, BetModel
<1>3. RowOf(g, c, r, "DOG_VALUE_ZONE", "AVG") \in RowsOn(g, c, r, "AVG", c.models["AVG"])
  BY <1>2 DEF RowsOn
<1>4. RowOf(g, c, r, "DOG_VALUE_ZONE", "AVG") \in ModelRows(g, c, r)
  BY <1>1, <1>3 DEF ModelRows
<1>. QED  BY <1>4, MoneyRowsSplit

\* The rows of spread and total.
LEMMA PointRowsAre ==
  ASSUME NEW g, NEW c, NEW r, NEW b, b \in PointRows(g, c, r)
  PROVE  /\ b.family \in {"SPREAD", "TOTAL_R4"}
         /\ b.game = g /\ b.season = c.season
         /\ b = RowOf(g, c, r, b.family, b.model)
         /\ b.family = "SPREAD" => /\ ~ Cardinality(OffersOf(g, c)) < 2
                                  /\ b.side = c.picks.spread /\ b.line = Shop(OffersOf(g, c)).line
         /\ b.model # "CORROB" /\ b.model # "AVG"
<1>1. (b = SpreadRow(g, c, r) /\ ~ Cardinality(OffersOf(g, c)) < 2) \/ b = TotalRow(g, c, r)
  BY Zenon DEF PointRows, SpreadRow, TotalRow, OffersOf
<1>2. CASE b = SpreadRow(g, c, r) /\ ~ Cardinality(OffersOf(g, c)) < 2
  <2>1. /\ b.family = "SPREAD" /\ b.model = "EXPECTED_MARGIN" /\ b.game = g /\ b.season = c.season
        /\ b.side = c.picks.spread /\ b.line = Shop(OffersOf(g, c)).line
    BY <1>2 DEF SpreadRow, Bet
  <2>. QED  BY <1>2, <2>1 DEF RowOf
<1>3. CASE b = TotalRow(g, c, r)
  <2>1. b.family = "TOTAL_R4" /\ b.model = "RIDGE_R4" /\ b.game = g /\ b.season = c.season
    BY <1>3 DEF TotalRow, Bet
  <2>. QED  BY <1>3, <2>1 DEF RowOf
<1>. QED  BY <1>1, <1>2, <1>3

-----------------------------------------------------------------------------
\* One lane of offers: what Shop picks of two books has a number no other beats.
LEMMA ShopIs ==
  ASSUME NEW offers, IsFiniteSet(offers), Cardinality(offers) >= 2,
         \A o \in offers : o.book \in {"dk", "fd"} /\ o.line \in Int /\ o.price \in Int,
         \A o, p \in offers : o.book = p.book => o = p
  PROVE  \A x \in offers : x.line <= Shop(offers).line
<1>. DEFINE Beats(o, x) == \/ o.line > x.line
                          \/ /\ o.line = x.line
                             /\ o.price > x.price \/ (o.price = x.price /\ Rank(o.book) <= Rank(x.book))
<1>1. Rank("dk") \in Nat /\ Rank("fd") \in Nat
  <2>1. DOMAIN Books = {1, 2} /\ Books[1] = "dk" /\ Books[2] = "fd"
    BY DEF Books
  <2>2. Rank("dk") \in DOMAIN Books /\ Rank("fd") \in DOMAIN Books
    BY <2>1 DEF Rank
  <2>. QED  BY <2>1, <2>2
<1>2. \A o, x \in offers : Beats(o, x) \/ Beats(x, o)
  BY <1>1
<1>3. \E o \in offers : \A x \in offers : Beats(o, x)
  <2>1. offers # {}
    BY FS_EmptySet
  <2>2. PICK o \in offers : TRUE
    BY <2>1
  <2>3. \A x \in offers : x = o \/ x.book # o.book
    OBVIOUS
  <2>4. \A x, y \in offers : x = o \/ y = o \/ x = y
    BY <2>3
  <2>5. CASE \A x \in offers : Beats(o, x)
    BY <2>5
  <2>6. CASE \E x \in offers : ~Beats(o, x)
    <3>1. PICK x \in offers : ~Beats(o, x)
      BY <2>6
    <3>2. Beats(x, o) /\ Beats(x, x) /\ x # o
      BY <1>2, <3>1
    <3>. HIDE DEF Beats
    <3>. QED  BY <2>4, <3>2
  <2>. QED  BY <2>5, <2>6
<1>4. Shop(offers) \in offers /\ \A x \in offers : Beats(Shop(offers), x)
  <2>1. Shop(offers) = CHOOSE o \in offers : \A x \in offers : Beats(o, x)
    BY Zenon DEF Shop
  <2>. HIDE DEF Beats
  <2>. QED  BY <1>3, <2>1
<1>. QED  BY <1>4

\* When a book shows a side once, Offers has what the books show.
LEMMA OffersAre ==
  ASSUME NEW lines, NEW side, \A o \in lines : o.line \in Int /\ o.price \in Int,
         \A o, p \in lines : o.book = p.book /\ o.side = p.side => o = p
  PROVE  Offers(lines, side) = {o \in lines : o.side = side /\ o.book \in {"dk", "fd"}}
<1>. DEFINE Of(b) == {o \in lines : o.book = b /\ o.side = side}
            Best(b) == {o \in Of(b) : \A x \in Of(b) : x.price <= o.price}
<1>1. Offers(lines, side) = {CHOOSE o \in Best(b) : TRUE : b \in {x \in {"dk", "fd"} : Of(x) # {}}}
  BY Zenon DEF Offers
<1>2. ASSUME NEW b, NEW o \in Of(b) PROVE Best(b) = {o}
  <2>1. Of(b) = {o}
    OBVIOUS
  <2>. QED  BY <2>1
<1>3. \A b : \A o \in Of(b) : (CHOOSE p \in Best(b) : TRUE) = o
  BY <1>2
<1>. HIDE DEF Best
<1>4. ASSUME NEW o \in lines, o.side = side, o.book \in {"dk", "fd"} PROVE o \in Offers(lines, side)
  <2>1. o \in Of(o.book)
    BY <1>4
  <2>. QED  BY <1>1, <1>3, <1>4, <2>1
<1>5. ASSUME NEW o \in Offers(lines, side) PROVE o \in lines /\ o.side = side /\ o.book \in {"dk", "fd"}
  <2>1. PICK b \in {"dk", "fd"} : Of(b) # {} /\ o = CHOOSE p \in Best(b) : TRUE
    BY <1>1, <1>5
  <2>2. PICK p \in Of(b) : TRUE
    BY <2>1
  <2>3. o = p
    BY <1>3, <2>1, <2>2
  <2>. QED  BY <2>1, <2>2, <2>3
<1>. QED  BY <1>4, <1>5

\* There are as many offers as books at most.
LEMMA OffersFinite ==
  ASSUME NEW lines, NEW side
  PROVE  IsFiniteSet(Offers(lines, side)) /\ Cardinality(Offers(lines, side)) \in Nat
<1>. DEFINE Of(b) == {o \in lines : o.book = b /\ o.side = side}
            Best(b) == {o \in Of(b) : \A x \in Of(b) : x.price <= o.price}
            X == {x \in {"dk", "fd"} : Of(x) # {}}
            f == [b \in X |-> CHOOSE o \in Best(b) : TRUE]
<1>1. Offers(lines, side) = {CHOOSE o \in Best(b) : TRUE : b \in X}
  BY Zenon DEF Offers
<1>2. IsFiniteSet({"dk", "fd"})
  <2>1. IsFiniteSet({"dk"}) /\ IsFiniteSet({"dk"} \cup {"fd"})
    BY FS_Singleton, FS_AddElement
  <2>2. {"dk"} \cup {"fd"} = {"dk", "fd"}
    OBVIOUS
  <2>. QED  BY <2>1, <2>2
<1>3. IsFiniteSet(X)
  BY <1>2, FS_Subset
<1>. HIDE DEF Best, X
<1>4. f \in Surjection(X, Offers(lines, side))
  BY <1>1 DEF Surjection
<1>5. IsFiniteSet(Offers(lines, side))
  BY <1>3, <1>4, FS_Surjection
<1>. QED  BY <1>5, FS_CardinalityType

\* What the canonical lines of a game are, of the raw files f.
MatchedOf(f, g) ==
  UNION {{e \in f[r].events : e.teams = Fixtures[g].teams} : r \in {x \in DOMAIN f : g \in x.games}}
ObservedOf(f, g) == UNION {UNION {{[book |-> b, side |-> o.side, line |-> o.line, price |-> o.price] :
                                     o \in e.books[b]} : b \in DOMAIN e.books} : e \in MatchedOf(f, g)}

LEMMA ObservedIs == \A g : Observed(g) = ObservedOf(raw, g)
  BY Zenon DEF Observed, MatchedEvents, ObservedOf, MatchedOf

RawAnswered == \A r \in DOMAIN raw : raw[r] \in AnswersTo(r)

\* Lines are numbers.
LEMMA LinesAre ==
  ASSUME MarketInv, RawAnswered, NEW g, NEW o \in ObservedOf(raw, g)
  PROVE  o.line \in Int /\ o.price \in Int
<1>1. PICK e \in MatchedOf(raw, g) : \E b \in DOMAIN e.books : \E p \in e.books[b] :
        o = [book |-> b, side |-> p.side, line |-> p.line, price |-> p.price]
  BY DEF ObservedOf
<1>4. PICK r \in DOMAIN raw : e \in raw[r].events
  BY DEF MatchedOf
<1>5. PICK b \in DOMAIN e.books : \E p \in e.books[b] :
        o = [book |-> b, side |-> p.side, line |-> p.line, price |-> p.price]
  BY <1>1
<1>6. PICK p \in e.books[b] : o = [book |-> b, side |-> p.side, line |-> p.line, price |-> p.price]
  BY <1>5
<1>2. r \in Requests /\ raw[r] \in Answers(r.games, r.target)
  BY DEF MarketInv, MarketTypes, RawAnswered, AnswersTo
<1>3. p.line \in Int /\ p.price \in Int
  BY <1>2, <1>4, EdgeAssumption
<1>. QED  BY <1>3, <1>6

\* One line of a book and a side.
Single(lines) == \A o, p \in lines : o.book = p.book /\ o.side = p.side => o = p

\* What holds of a ledger of bets, by the odds o it was graded with.
BestOfBooks(x, o) ==
  x.game \in DOMAIN o
  /\ (Single(o[x.game]) =>
        \A p \in o[x.game] : p.side = x.side /\ p.book \in {"dk", "fd"} => p.line <= x.line)
RowsRest(rows, split, o) ==
  /\ \A x, y \in rows : x.game = y.game /\ x.family = y.family /\ x.model = y.model => x = y
  /\ \A x \in rows : x.season \in Confirmation <=> split = "CONFIRMATION"
  /\ \A x \in rows : x.family = "SPREAD" => BestOfBooks(x, o)
ZoneOf(model) == <<"DOG_VALUE_ZONE", model, "ZONE">>
Rests(b, o) == RowsRest(b.rows, b.split, o) /\ b.report[ZoneOf("CORROB")].n <= b.report[ZoneOf("AVG")].n

\* The canonical odds are of the raw files, and nobody adds to these.
Built ==
  /\ \A w \in Workers : at[w] = "stopped"
  /\ DOMAIN odds = DOMAIN Fixtures /\ \A g \in DOMAIN Fixtures : odds[g] = ObservedOf(raw, g)

EdgeInv ==
  /\ MarketInv /\ RawAnswered
  /\ odds # NotBuilt => Built
  /\ bets # NotBuilt => odds # NotBuilt /\ Rests(bets, odds)

LEMMA EdgeInitially == EdgeInit => EdgeInv
  BY MarketInitially DEF EdgeInit, EdgeInv, RawAnswered, MarketInit

\* A raw file is an answer to its request.
LEMMA RawKeeps ==
  ASSUME MarketInv, RawAnswered, MarketNext
  PROVE  RawAnswered'
<1>1. PICK w \in Workers : Acquires(w) \/ WorkerDies(w)
  BY DEF MarketNext
<1>2. CASE UNCHANGED raw
  BY <1>2 DEF RawAnswered
<1>3. CASE Store(w) /\ Asking(w) \notin DOMAIN raw
  <2>1. PICK q : q = Asking(w)
    OBVIOUS
  <2>2. raw' = [x \in DOMAIN raw \cup {q} |-> IF x = q THEN answer[w] ELSE raw[x]]
    BY <1>3, <2>1 DEF Store
  <2>3. answer[w] \in AnswersTo(q)
    BY <1>3, <2>1 DEF Store, MarketInv, InProgress
  <2>. QED  BY <2>2, <2>3 DEF RawAnswered
<1>. QED  BY <1>1, <1>2, <1>3 DEF Acquires, Acquire, ClassifyAll, Fetch, EnterFailure, Store, Enter, WorkerDies

\* Who has stopped adds nothing.
LEMMA StoppedRest ==
  ASSUME MarketInv, \A w \in Workers : at[w] = "stopped", MarketNext
  PROVE  raw' = raw /\ \A w \in Workers : at'[w] = "stopped"
<1>1. PICK w \in Workers : Acquires(w) \/ WorkerDies(w)
  BY DEF MarketNext
<1>2. WorkerDies(w)
  BY <1>1 DEF Acquires, Acquire, ClassifyAll, Fetch, EnterFailure, Store, Enter
<1>3. raw' = raw /\ at' = [at EXCEPT ![w] = "stopped"]
  BY <1>2 DEF WorkerDies, StopRun, MoveTo
<1>. QED  BY <1>3 DEF MarketInv, MarketTypes

-----------------------------------------------------------------------------
\* A row of the ledger, by its game.
LEMMA LedgerRowIs ==
  ASSUME NEW census, NEW results, NEW split, NEW b, b \in EdgeLedger(census, results, split)
  PROVE  /\ b.game \in DOMAIN census \cap DOMAIN results
         /\ b.season = census[b.game].season
         /\ b.season \in Confirmation <=> split = "CONFIRMATION"
         /\ b = RowOf(b.game, census[b.game], results[b.game], b.family, b.model)
         /\ \/ b \in MoneyRows(b.game, census[b.game], results[b.game])
            \/ b \in PointRows(b.game, census[b.game], results[b.game])
<1>. DEFINE Games == {x \in DOMAIN census \cap DOMAIN results :
                        census[x].season \in Confirmation <=> split = "CONFIRMATION"}
            RowsAt(g) == MoneyRows(g, census[g], results[g]) \cup PointRows(g, census[g], results[g])
<1>1. EdgeLedger(census, results, split) = UNION {RowsAt(g) : g \in Games}
  BY Zenon DEF EdgeLedger
<1>. HIDE DEF RowsAt
<1>2. PICK g \in Games : b \in RowsAt(g)
  BY <1>1
<1>3. b \in MoneyRows(g, census[g], results[g]) \/ b \in PointRows(g, census[g], results[g])
  BY <1>2 DEF RowsAt
<1>4. CASE b \in MoneyRows(g, census[g], results[g])
  <2>1. b.game = g /\ b.season = census[g].season
    BY <1>4, MoneyRowsAre
  <2>2. b = RowOf(g, census[g], results[g], b.family, b.model)
    BY <1>4, MoneyRowsAre
  <2>. QED  BY <1>2, <1>4, <2>1, <2>2
<1>5. CASE b \in PointRows(g, census[g], results[g])
  <2>1. b.game = g /\ b.season = census[g].season
    BY <1>5, PointRowsAre
  <2>2. b = RowOf(g, census[g], results[g], b.family, b.model)
    BY <1>5, PointRowsAre
  <2>. QED  BY <1>2, <1>5, <2>1, <2>2
<1>. QED  BY <1>3, <1>4, <1>5

\* What a game of the split is bet on is in the ledger.
LEMMA LedgerHas ==
  ASSUME NEW census, NEW results, NEW split, NEW g \in DOMAIN census \cap DOMAIN results,
         census[g].season \in Confirmation <=> split = "CONFIRMATION",
         NEW b, b \in MoneyRows(g, census[g], results[g])
  PROVE  b \in EdgeLedger(census, results, split)
<1>. DEFINE Games == {x \in DOMAIN census \cap DOMAIN results :
                        census[x].season \in Confirmation <=> split = "CONFIRMATION"}
            RowsAt(x) == MoneyRows(x, census[x], results[x]) \cup PointRows(x, census[x], results[x])
<1>1. EdgeLedger(census, results, split) = UNION {RowsAt(x) : x \in Games}
  BY Zenon DEF EdgeLedger
<1>2. b \in RowsAt(g) /\ g \in Games
  OBVIOUS
<1>. HIDE DEF RowsAt, Games
<1>. QED  BY <1>1, <1>2

\* The spread is bet at the best number of the two books.
LEMMA SpreadIsBest ==
  ASSUME MarketInv, RawAnswered, Built, NEW g, NEW c, NEW r, NEW b, b \in PointRows(g, c, r), b.family = "SPREAD"
  PROVE  BestOfBooks(b, odds)
<1>1. /\ b.game = g /\ b.side = c.picks.spread /\ b.line = Shop(OffersOf(g, c)).line
      /\ ~ Cardinality(OffersOf(g, c)) < 2
  BY PointRowsAre
<1>2. g \in DOMAIN odds
  <2>1. CASE g \notin DOMAIN odds
    <3>1. OffersOf(g, c) = {}
      BY <2>1 DEF OffersOf
    <3>. QED  BY <1>1, <3>1, FS_EmptySet
  <2>. QED  BY <2>1
<1>3. OffersOf(g, c) = Offers(odds[g], c.picks.spread)
  BY <1>2 DEF OffersOf
<1>4. SUFFICES ASSUME Single(odds[g]), NEW p \in odds[g], p.side = c.picks.spread, p.book \in {"dk", "fd"}
               PROVE  p.line <= Shop(OffersOf(g, c)).line
  BY <1>1, <1>2 DEF BestOfBooks
<1>5. odds[g] = ObservedOf(raw, g)
  BY <1>2 DEF Built
<1>6. \A o \in odds[g] : o.line \in Int /\ o.price \in Int
  BY <1>5, LinesAre
<1>7. Offers(odds[g], c.picks.spread) = {o \in odds[g] : o.side = c.picks.spread /\ o.book \in {"dk", "fd"}}
  <2>1. \A o, q \in odds[g] : o.book = q.book /\ o.side = q.side => o = q
    BY <1>4 DEF Single
  <2>. QED  BY <1>6, <2>1, OffersAre
<1>8. PICK offers : offers = OffersOf(g, c)
  OBVIOUS
<1>9. IsFiniteSet(offers) /\ Cardinality(offers) >= 2
  BY <1>1, <1>3, <1>8, OffersFinite
<1>10. \A o \in offers : o.book \in {"dk", "fd"} /\ o.line \in Int /\ o.price \in Int
  BY <1>3, <1>6, <1>7, <1>8
<1>11. \A o, q \in offers : o.book = q.book => o = q
  BY <1>3, <1>4, <1>7, <1>8 DEF Single
<1>12. \A x \in offers : x.line <= Shop(offers).line
  BY <1>9, <1>10, <1>11, ShopIs
<1>. QED  BY <1>3, <1>4, <1>7, <1>8, <1>12

\* The zone of a model: its rows in the zone of underdogs.
LEMMA ZoneIs ==
  ASSUME NEW census, NEW results, NEW split, NEW model, NEW b
  PROVE  b \in CandidateRows(EdgeLedger(census, results, split), ZoneOf(model))
           <=> /\ b \in EdgeLedger(census, results, split)
               /\ b.family = "DOG_VALUE_ZONE" /\ b.model = model /\ b.bucket = "ZONE"
<1>. PICK rows : rows = EdgeLedger(census, results, split)
  OBVIOUS
<1>1. b \in CandidateRows(rows, ZoneOf(model))
        <=> b \in rows /\ b.family = "DOG_VALUE_ZONE" /\ b.model = model /\ b.bucket = "ZONE"
  BY DEF CandidateRows, ZoneOf, None
<1>. QED  BY <1>1

\* Each bet of the agreement in the zone has a bet of the average beside it.
LEMMA ZoneOfAverage ==
  ASSUME NEW census, NEW results, NEW split, IsFiniteSet(DOMAIN census)
  PROVE  LET rows == EdgeLedger(census, results, split)
         IN Cardinality(CandidateRows(rows, ZoneOf("CORROB"))) <= Cardinality(CandidateRows(rows, ZoneOf("AVG")))
<1>. DEFINE Zone(model) == CandidateRows(EdgeLedger(census, results, split), ZoneOf(model))
            Bets(g) == RowOf(g, census[g], results[g], "DOG_VALUE_ZONE", "AVG")
<1>1. \A model : \A b \in Zone(model) :
        /\ b.game \in DOMAIN census \cap DOMAIN results
        /\ b = RowOf(b.game, census[b.game], results[b.game], "DOG_VALUE_ZONE", model)
  BY ZoneIs, LedgerRowIs
<1>2. ASSUME NEW b \in Zone("CORROB") PROVE Bets(b.game) \in Zone("AVG") /\ Bets(b.game).game = b.game
  <2>1. /\ b \in EdgeLedger(census, results, split)
        /\ b.family = "DOG_VALUE_ZONE" /\ b.model = "CORROB"
    BY <1>2, ZoneIs
  <2>2. /\ b.game \in DOMAIN census \cap DOMAIN results /\ b.season = census[b.game].season
        /\ b.season \in Confirmation <=> split = "CONFIRMATION"
        /\ \/ b \in MoneyRows(b.game, census[b.game], results[b.game])
           \/ b \in PointRows(b.game, census[b.game], results[b.game])
    BY <2>1, LedgerRowIs
  <2>3. b \in MoneyRows(b.game, census[b.game], results[b.game])
    BY <2>1, <2>2, PointRowsAre
  <2>4. Agree(census[b.game]) /\ InDogZone(census[b.game].models["AVG"])
    BY <2>1, <2>3, MoneyRowsAre
  <2>5. PICK a : a = Bets(b.game)
    OBVIOUS
  <2>6. a \in MoneyRows(b.game, census[b.game], results[b.game])
    BY <2>4, <2>5, AverageBets
  <2>7. a \in EdgeLedger(census, results, split)
    BY <2>2, <2>6, LedgerHas
  <2>8. a = MoneyRow(b.game, census[b.game], results[b.game], "DOG_VALUE_ZONE", "AVG", "ZONE")
    BY <2>5 DEF RowOf, MoneyBucket
  <2>9. a.game = b.game /\ a.family = "DOG_VALUE_ZONE" /\ a.model = "AVG" /\ a.bucket = "ZONE"
    BY <2>8, MoneyRowIs
  <2>10. a \in Zone("AVG")
    BY <2>7, <2>9, ZoneIs
  <2>. QED  BY <2>5, <2>9, <2>10
<1>. HIDE DEF Zone, Bets
<1>3. IsFiniteSet(Zone("AVG"))
  <2>. DEFINE D == {g \in DOMAIN census : Bets(g) \in Zone("AVG")}
              h == [g \in D |-> Bets(g)]
  <2>1. IsFiniteSet(D)
    BY FS_Subset
  <2>2. \A b \in Zone("AVG") : b.game \in D /\ b = Bets(b.game)
    BY <1>1 DEF Bets
  <2>3. h \in Surjection(D, Zone("AVG"))
    BY <2>2 DEF Surjection
  <2>. QED  BY <2>1, <2>3, FS_Surjection
<1>. DEFINE f == [b \in Zone("CORROB") |-> Bets(b.game)]
<1>4. f \in Injection(Zone("CORROB"), Zone("AVG"))
  <2>1. f \in [Zone("CORROB") -> Zone("AVG")]
    BY <1>2
  <2>2. \A b, d \in Zone("CORROB") : f[b] = f[d] => b = d
    BY <1>1, <1>2
  <2>. QED  BY <2>1, <2>2 DEF Injection, IsInjective
<1>5. Cardinality(Zone("CORROB")) <= Cardinality(Zone("AVG"))
  <2>. HIDE DEF f
  <2>. QED  BY <1>3, <1>4, FS_Injection
<1>. QED  BY <1>5 DEF Zone

BetReport(rows) == [k \in LockedCandidates |-> Summary(CandidateRows(rows, k))]

LEMMA ReportIs ==
  ASSUME NEW rows, NEW model \in {"AVG", "CORROB"}
  PROVE  BetReport(rows)[ZoneOf(model)].n = Cardinality(CandidateRows(rows, ZoneOf(model)))
<1>1. ZoneOf(model) \in LockedCandidates
  BY DEF ZoneOf, LockedCandidates
<1>2. BetReport(rows)[ZoneOf(model)] = Summary(CandidateRows(rows, ZoneOf(model)))
  BY <1>1 DEF BetReport
<1>3. \A S : Summary(S).n = Cardinality(S)
  BY DEF Summary
<1>. QED  BY <1>2, <1>3

\* What is scored rests on the odds it is scored with.
LEMMA ScoreRests ==
  ASSUME MarketInv, RawAnswered, Built, NEW census \in Censuses, NEW results, NEW split
  PROVE  LET rows == EdgeLedger(census, results, split)
         IN Rests([rows |-> rows, split |-> split, report |-> BetReport(rows)], odds)
<1>. PICK rows : rows = EdgeLedger(census, results, split)
  OBVIOUS
<1>1. \A x, y \in rows : x.game = y.game /\ x.family = y.family /\ x.model = y.model => x = y
  BY LedgerRowIs
<1>2. \A x \in rows : x.season \in Confirmation <=> split = "CONFIRMATION"
  BY LedgerRowIs
<1>3. ASSUME NEW x \in rows, x.family = "SPREAD" PROVE BestOfBooks(x, odds)
  <2>1. x \in MoneyRows(x.game, census[x.game], results[x.game])
          \/ x \in PointRows(x.game, census[x.game], results[x.game])
    BY LedgerRowIs
  <2>2. x \in PointRows(x.game, census[x.game], results[x.game])
    BY <1>3, <2>1, MoneyRowsAre
  <2>. QED  BY <1>3, <2>2, SpreadIsBest
<1>4. BetReport(rows)[ZoneOf("CORROB")].n <= BetReport(rows)[ZoneOf("AVG")].n
  <2>1. IsFiniteSet(DOMAIN census)
    BY EdgeAssumption
  <2>2. Cardinality(CandidateRows(rows, ZoneOf("CORROB"))) <= Cardinality(CandidateRows(rows, ZoneOf("AVG")))
    BY <2>1, ZoneOfAverage
  <2>. QED  BY <2>2, ReportIs
<1>5. RowsRest(rows, split, odds)
  BY <1>1, <1>2, <1>3 DEF RowsRest
<1>. QED  BY <1>4, <1>5 DEF Rests

\* No step adds to odds and bets that rest on the raw files, or lets them rest on others.
LEMMA EdgeKeeps == EdgeInv /\ [EdgeNext]_edgeVars => EdgeInv'
<1>. SUFFICES ASSUME EdgeInv, [EdgeNext]_edgeVars PROVE EdgeInv'
  OBVIOUS
<1>1. MarketInv /\ RawAnswered /\ (odds # NotBuilt => Built)
      /\ (bets # NotBuilt => odds # NotBuilt /\ Rests(bets, odds))
  BY DEF EdgeInv
<1>2. CASE UNCHANGED edgeVars
  <2>1. UNCHANGED marketVars /\ raw' = raw /\ at' = at /\ odds' = odds /\ bets' = bets
    BY <1>2 DEF edgeVars, marketVars
  <2>2. MarketInv'
    BY <1>1, <2>1, MarketKeeps
  <2>. QED  BY <1>1, <2>1, <2>2 DEF EdgeInv, RawAnswered, Built
<1>3. CASE Acquisition
  <2>1. MarketNext /\ odds' = odds /\ bets' = bets
    BY <1>3 DEF Acquisition
  <2>2. MarketInv' /\ RawAnswered'
    BY <1>1, <2>1, MarketKeeps, RawKeeps
  <2>3. Built => Built'
    BY <1>1, <2>1, StoppedRest DEF Built
  <2>. QED  BY <1>1, <2>1, <2>2, <2>3 DEF EdgeInv
<1>4. CASE BuildCanonical
  <2>1. /\ odds = NotBuilt /\ UNCHANGED marketVars /\ bets' = bets
        /\ \A w \in Workers : at[w] = "stopped"
        /\ odds' = [g \in DOMAIN Fixtures |-> Observed(g)]
    BY <1>4 DEF BuildCanonical
  <2>2. MarketInv'
    BY <1>1, <2>1, MarketKeeps
  <2>3. raw' = raw /\ at' = at
    BY <2>1 DEF marketVars
  <2>4. odds' = [g \in DOMAIN Fixtures |-> ObservedOf(raw, g)]
    BY <2>1, ObservedIs
  <2>5. Built'
    BY <2>1, <2>3, <2>4 DEF Built
  <2>6. bets' = NotBuilt
    BY <1>1, <2>1
  <2>. QED  BY <1>1, <2>2, <2>3, <2>5, <2>6 DEF EdgeInv, RawAnswered
<1>5. CASE Score
  <2>1. odds # NotBuilt /\ UNCHANGED <<marketVars, odds>>
    BY <1>5 DEF Score
  <2>2. \E census \in Censuses, results \in Outcomes, split \in {"DISCOVERY", "CONFIRMATION"} :
          bets' = [rows |-> EdgeLedger(census, results, split), split |-> split,
                   report |-> BetReport(EdgeLedger(census, results, split))]
    BY <1>5, Zenon DEF Score, BetReport
  <2>3. PICK census \in Censuses, results \in Outcomes, split \in {"DISCOVERY", "CONFIRMATION"} :
          bets' = [rows |-> EdgeLedger(census, results, split), split |-> split,
                   report |-> BetReport(EdgeLedger(census, results, split))]
    BY <2>2
  <2>4. PICK ledger : ledger = [rows |-> EdgeLedger(census, results, split), split |-> split,
                                report |-> BetReport(EdgeLedger(census, results, split))]
    OBVIOUS
  <2>5. Rests(ledger, odds)
    BY <1>1, <2>1, <2>4, ScoreRests
  <2>6. MarketInv'
    BY <1>1, <2>1, MarketKeeps
  <2>7. raw' = raw /\ at' = at /\ odds' = odds /\ bets' = ledger
    BY <2>1, <2>3, <2>4 DEF marketVars
  <2>. QED  BY <1>1, <2>1, <2>5, <2>6, <2>7 DEF EdgeInv, RawAnswered, Built
<1>. QED  BY <1>2, <1>3, <1>4, <1>5 DEF EdgeNext

LEMMA EdgeImplies == EdgeInv => BetsRestOnOdds
<1>. SUFFICES ASSUME EdgeInv, bets # NotBuilt PROVE BetsRestOnOdds
  BY DEF BetsRestOnOdds
<1>1. MarketInv /\ RawAnswered /\ Built /\ Rests(bets, odds)
  BY DEF EdgeInv
<1>2. \A b, d \in bets.rows : (b.game = d.game /\ b.family = d.family /\ b.model = d.model) => b = d
  BY <1>1 DEF Rests, RowsRest
<1>3. \A b \in bets.rows : b.season \in Confirmation <=> bets.split = "CONFIRMATION"
  BY <1>1 DEF Rests, RowsRest
<1>4. ASSUME NEW b \in bets.rows, b.family = "SPREAD", Flags(b.game) = {}
      PROVE  \A o \in odds[b.game] : (o.side = b.side /\ o.book \in {"dk", "fd"}) => o.line <= b.line
  <2>1. BestOfBooks(b, odds)
    BY <1>1, <1>4 DEF Rests, RowsRest
  <2>2. PICK g : g = b.game
    OBVIOUS
  <2>3. odds[g] = Observed(g)
    BY <1>1, <2>1, <2>2, ObservedIs DEF BestOfBooks, Built
  <2>4. "DUPLICATE_BOOK_MARKET" \notin Flags(g)
    BY <1>4, <2>2
  <2>5. ~ \E o, p \in Observed(g) : o # p /\ o.book = p.book /\ o.side = p.side
    BY <2>4 DEF Flags
  <2>6. Single(odds[g])
    BY <2>3, <2>5 DEF Single
  <2>. QED  BY <2>1, <2>2, <2>6 DEF BestOfBooks
<1>5. ASSUME NEW r \in Asked, Category(r) = "VERIFIED_SUCCESS"
      PROVE  \A g \in r.games : raw[r].stamp < Fixtures[g].kick
  <2>1. "VERIFIED_SUCCESS" \in Categories(r)
    BY <1>5 DEF Category
  <2>2. PICK i \in DOMAIN entries : entries[i].request = r /\ entries[i].category = "VERIFIED_SUCCESS"
    BY <2>1 DEF Categories, Rows
  <2>3. OddsAreKept
    BY <1>1, MarketImplies
  <2>4. \A g \in entries[i].request.games : raw[entries[i].request].stamp < Fixtures[g].kick
    BY <2>2, <2>3 DEF OddsAreKept
  <2>. QED  BY <2>2, <2>4
<1>6. bets.report[<<"DOG_VALUE_ZONE", "CORROB", "ZONE">>].n <= bets.report[<<"DOG_VALUE_ZONE", "AVG", "ZONE">>].n
  BY <1>1 DEF Rests, ZoneOf
<1>. QED  BY <1>2, <1>3, <1>4, <1>5, <1>6 DEF BetsRestOnOdds

\* Whatever the provider answers, the models say and the games end with: a game is bet once
\* by family and model and in its split, the spread at a number that neither book beats where
\* each shows a side once, verified odds are from before the game, and what the agreement of
\* the models bets in the zone the average bets too (shop_spread, build_ledger, summarize).
THEOREM BetsRest == EdgeSpec => []BetsRestOnOdds
<1>1. EdgeSpec => []EdgeInv
  BY EdgeInitially, EdgeKeeps, PTL DEF EdgeSpec
<1>. QED  BY <1>1, EdgeImplies, PTL
=============================================================================
