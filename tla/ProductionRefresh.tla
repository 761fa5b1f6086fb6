------------------------- MODULE ProductionRefresh -------------------------
(***************************************************************************)
(* Production refreshes over a season (operations/production_refresh_v1.py *)
(* run_refresh): gates, selector state, one paid acquisition, publication, *)
(* capture and status files, under a lock of the run root.  The selector   *)
(* state of week W is replayed from the run directories of the weeks       *)
(* before it (live/product_state_2026.py), so what an earlier refresh      *)
(* left on disk decides what a later one can do.                           *)
(*                                                                         *)
(* Every run here is --live.  A replay of a saved response has a run root  *)
(* of its own (docs/production_refresh_v1.md).                             *)
(***************************************************************************)
EXTENDS Integers, SequencesExt, FiniteSetsExt

CONSTANTS
  Process,        \* invocations: the timer's, a manual one
  Game, WeekOf, Kickoff,
  Span,           \* length of a week
  NoProcess, NoTime,
  MinTime,        \* bound: start of the season that is explored
  MaxTime,        \* bound: end of the season that is explored
  MaxRuns         \* bound: run directories

ASSUME SeasonAssumption ==
  /\ Span \in Nat \ {0} /\ MaxRuns \in Nat
  /\ MinTime \in Nat /\ MaxTime \in Nat
  /\ WeekOf \in [Game -> Nat \ {0}]
  /\ Kickoff \in [Game -> Nat]
  /\ NoTime \notin Nat
  /\ NoProcess \notin Process

VARIABLES
  clock,
  lock,           \* .production-refresh.lock
  proc,           \* the stage each invocation is at
  dirs,           \* the run directories, in the order of their names
  log,            \* the runs whose product was promoted to latest.json
  captures        \* the runs whose product was captured as evidence

vars == <<clock, lock, proc, dirs, log, captures>>

WeekAt(t) == 1 + t \div Span
SelectorTrustStart == 2

Run == 1..Len(dirs)

\* A run directory is [week, captured, proof, status, boards]: the time of the market
\* capture, whether deterministic-proof.json is there, the status of run-status.json
\* ("UNPUBLISHED" for any *_NOT_READY, SCORING_FAILED, MARKET_* or
\* MATERIALIZATION_FAILED) and the selector boards of earlier weeks that it replayed.
Idle == [pc |-> "idle"]

Init ==
  /\ clock = MinTime
  /\ lock = NoProcess
  /\ proc = [p \in Process |-> Idle]
  /\ dirs = << >>
  /\ log = << >>
  /\ captures = {}

\* A run lasts ten minutes at most, so it sees a kickoff or a rollover pass at
\* most once.
Tick ==
  /\ clock < MaxTime
  /\ \A p \in Process : proc[p] # Idle => ~proc[p].ticked
  /\ clock' = clock + 1
  /\ proc' = [p \in Process |-> IF proc[p] = Idle THEN Idle
                                ELSE [proc[p] EXCEPT !.ticked = TRUE]]
  /\ UNCHANGED <<lock, dirs, log, captures>>

----------------------------------------------------------------------------
\* Mutant: how the run ended is not asked.
TrustedUnended(i) == dirs[i].proof

(***************************************************************************)
(* _final_pregame_selector_rows: for each game, the last run of its week   *)
(* that ended in SUCCESS and captured the market before the kickoff.       *)
(***************************************************************************)
Trusted(i) == dirs[i].proof /\ dirs[i].status = "SUCCESS"

PregameRuns(g) ==
  {i \in Run : /\ Trusted(i)
               /\ dirs[i].week = WeekOf[g]
               /\ dirs[i].captured < Kickoff[g]}

Later(i, j) == \/ dirs[i].captured > dirs[j].captured
               \/ dirs[i].captured = dirs[j].captured /\ i > j
FinalRun(g) == CHOOSE i \in PregameRuns(g) :
                 \A j \in PregameRuns(g) \ {i} : Later(i, j)

GamesOf(w) == {g \in Game : WeekOf[g] = w}
HasBoard(w) == \A g \in GamesOf(w) : PregameRuns(g) # {}
BoardOf(w) == [g \in GamesOf(w) |-> FinalRun(g)]

SettledWeeks(w) == SelectorTrustStart..(w - 1)

----------------------------------------------------------------------------
GoTo(p, pc) == proc' = [proc EXCEPT ![p].pc = pc]
Finish(p, outcome) ==
  proc' = [proc EXCEPT ![p].pc = "status", ![p].outcome = outcome]
SetDir(p, field, value) == dirs' = [dirs EXCEPT ![proc[p].run][field] = value]

\* Mutant: there is no lock.
BeginUnlocked(p) ==
  /\ proc[p] = Idle
  /\ Len(dirs) < MaxRuns
  /\ dirs' = Append(dirs, [week |-> WeekAt(clock), captured |-> NoTime,
                           proof |-> FALSE, status |-> "none", boards |-> << >>])
  /\ proc' = [proc EXCEPT ![p] = [pc |-> "gates", run |-> Len(dirs) + 1,
                                  outcome |-> "none", ticked |-> FALSE]]
  /\ UNCHANGED <<clock, lock, log, captures>>

\* An invocation that does not get the lock writes nothing.
Begin(p) ==
  /\ proc[p] = Idle
  /\ lock = NoProcess
  /\ Len(dirs) < MaxRuns
  /\ lock' = p
  /\ dirs' = Append(dirs, [week |-> WeekAt(clock), captured |-> NoTime,
                           proof |-> FALSE, status |-> "none", boards |-> << >>])
  /\ proc' = [proc EXCEPT ![p] = [pc |-> "gates", run |-> Len(dirs) + 1,
                                  outcome |-> "none", ticked |-> FALSE]]
  /\ UNCHANGED <<clock, log, captures>>

\* Schedule, settled evidence, Sleeper source and football scoring.
Gates(p) ==
  /\ proc[p].pc = "gates"
  /\ GoTo(p, "selector") \/ Finish(p, "UNPUBLISHED")
  /\ UNCHANGED <<clock, lock, dirs, log, captures>>

\* advance_live_value_state over every settled week.
Selector(p) ==
  LET weeks == SettledWeeks(dirs[proc[p].run].week) IN
  /\ proc[p].pc = "selector"
  /\ IF \A w \in weeks : HasBoard(w)
       THEN /\ SetDir(p, "boards",
                      [n \in 1..Cardinality(weeks) |-> BoardOf(SelectorTrustStart + n - 1)])
            /\ GoTo(p, "market")
       ELSE Finish(p, "UNPUBLISHED") /\ UNCHANGED dirs
  /\ UNCHANGED <<clock, lock, log, captures>>

\* The provider is asked once; the answer is normalized.
Market(p) ==
  /\ proc[p].pc = "market"
  /\ \/ (SetDir(p, "captured", clock) /\ GoTo(p, "product"))
     \/ Finish(p, "UNPUBLISHED") /\ UNCHANGED dirs
  /\ UNCHANGED <<clock, lock, log, captures>>

\* The product is built twice and compared, and the proof written.
Product(p) ==
  /\ proc[p].pc = "product"
  /\ \/ SetDir(p, "proof", TRUE) /\ GoTo(p, "publish")
     \/ Finish(p, "UNPUBLISHED") /\ UNCHANGED dirs
  /\ UNCHANGED <<clock, lock, log, captures>>

\* publish() may raise before or after latest.json is replaced; what is read
\* again has this run's product version, the week's.
PublishProduct(p) ==
  /\ proc[p].pc = "publish"
  /\ \/ /\ log' = Append(log, proc[p].run)
        /\ GoTo(p, "capture") \/ Finish(p, "PUBLICATION_FAILED")
     \/ Finish(p, "PUBLICATION_FAILED") /\ UNCHANGED log
  /\ UNCHANGED <<clock, lock, dirs, captures>>

\* Evidence of the product latest.json holds; a failure does not change the
\* outcome.
Capture(p) ==
  /\ proc[p].pc = "capture"
  /\ captures' \in {captures, captures \cup {Last(log)}}
  /\ Finish(p, "SUCCESS")
  /\ UNCHANGED <<clock, lock, dirs, log>>

\* finish: run-status.json, and latest-status.json, which nothing reads.
WriteStatus(p) ==
  /\ proc[p].pc = "status"
  /\ SetDir(p, "status", proc[p].outcome)
  /\ proc' = [proc EXCEPT ![p] = Idle]
  /\ lock' = NoProcess
  /\ UNCHANGED <<clock, log, captures>>

\* The process ends anywhere, or a status file cannot be written.
Crash(p) ==
  /\ proc[p] # Idle
  /\ proc' = [proc EXCEPT ![p] = Idle]
  /\ lock' = NoProcess
  /\ UNCHANGED <<clock, dirs, log, captures>>

Next ==
  \/ Tick
  \/ \E p \in Process :
       \/ Begin(p) \/ Gates(p) \/ Selector(p) \/ Market(p) \/ Product(p)
       \/ PublishProduct(p) \/ Capture(p) \/ WriteStatus(p) \/ Crash(p)

Spec == Init /\ [][Next]_vars
----------------------------------------------------------------------------
(***************************************************************************)
(* The selector board of a settled week is final: every refresh that       *)
(* replays the week, however much later, replays the same runs.            *)
(***************************************************************************)
BoardsAreFinal ==
  \A i, j \in Run :
    \A n \in DOMAIN dirs[i].boards \cap DOMAIN dirs[j].boards :
      dirs[i].boards[n] = dirs[j].boards[n]

\* The files agree about a run: one reported as SUCCESS was published, one reported as
\* failed before publication was not, and only a published product is evidence.
FilesAgree ==
  /\ \A i \in Run :
       /\ dirs[i].status = "SUCCESS" => i \in ToSet(log)
       /\ dirs[i].status = "UNPUBLISHED" => i \notin ToSet(log)
  /\ captures \subseteq ToSet(log)

(***************************************************************************)
(* A board is what was served before the kickoff: its runs were published, *)
(* and no later run of the week that ended in SUCCESS had been captured by *)
(* then; and a run's files agree about what became of it.                  *)
(***************************************************************************)
BoardsWereServed ==
  FilesAgree /\ \A i \in Run : \A n \in DOMAIN dirs[i].boards :
    LET board == dirs[i].boards[n] IN
    \A g \in DOMAIN board :
      /\ board[g] \in ToSet(log)
      /\ dirs[board[g]].captured < Kickoff[g]
      /\ \A j \in ToSet(log) :
           dirs[j].status = "SUCCESS" /\ dirs[j].week = WeekOf[g]
           /\ dirs[j].captured < Kickoff[g] => j <= board[g]

(***************************************************************************)
(* What is served never goes back to an earlier week or market, though a   *)
(* run may end after the rollover, and a manual one may meet the timer's.  *)
(***************************************************************************)
ServedGoesForward ==
  \A m, n \in 1..Len(log) : m < n =>
    /\ dirs[log[m]].week <= dirs[log[n]].week
    /\ dirs[log[m]].captured <= dirs[log[n]].captured

(***************************************************************************)
(* "The next ordinary scheduled cycle is the next opportunity": a refresh  *)
(* whose football gates passed goes on to the provider, whatever cycles    *)
(* were missed or failed before.                                           *)
(***************************************************************************)
NextCycleIsAnOpportunity ==
  \A p \in Process : proc[p].pc = "selector" =>
    \A w \in SettledWeeks(dirs[proc[p].run].week) : HasBoard(w)
===========================================================================
