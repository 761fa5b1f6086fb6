--------------------------- MODULE SleeperAudit ---------------------------
(***************************************************************************)
(* The Sleeper quarterback audit: an invocation takes the lock, verifies   *)
(* its references, fetches the players, appends what it derived to one     *)
(* table after another, and commits by a row of the run history, the only  *)
(* ledger that says what happened; the views are refreshed after it.  An   *)
(* invocation that gets no lock reports so without it.                     *)
(*                                                                         *)
(* A payload maps the players it holds to records                          *)
(* [active, injury, practice, roster, depth, found]: found[m] is the set of *)
(* nflverse players the index of method m has for the record.  A snapshot   *)
(* is named by its invocation.                                             *)
(***************************************************************************)
EXTENDS AuditLock, Sequences, FiniteSets, SequencesExt

CONSTANTS Payloads,       \* what the endpoint may answer
          Kinds,          \* assignments of "scheduled", "pregame" or "postgame"
          Kickoff,        \* of the Hall of Fame game
          LastTime,       \* the clock stops here
          MaxTroubles     \* deaths and failing calls of an execution

KindNames == {"scheduled", "pregame", "postgame"}

\* A run is invoked for one of the three, and times are numbers.
ASSUME AuditAssumption == Kinds \subseteq [Runs -> KindNames] /\ Kickoff \in Nat

VARIABLES
  now, troubles,
  kind,           \* by run: what it was invoked for
  observedAt,     \* by run: the time it observed, 0 before
  payload,        \* by run: the payload it fetched, or <<>>
  attempts,       \* by run: the number of fetch attempts
  prior,          \* by run: the snapshot it compares with, or NoRun
  seen,           \* by run: the history it read to append to
  verdict,        \* by run: the outcome it is to record, "" before
  history,        \* run_history.parquet: rows [run, outcome, kind, observed]
  tables,         \* by table: the snapshots appended
  changes,        \* the change ledger: [run, prior, player, type]
  observations,   \* hof_game_observation: [pre, post]
  views           \* [status, latest, pregame]: runs, and report, a row count

auditVars == <<now, troubles, kind, observedAt, payload, attempts, prior, seen, verdict,
               history, tables, changes, observations, views>>
runVars == <<kind, observedAt, payload, attempts, prior, seen, verdict>>
fileVars == <<history, tables, changes, observations, views>>

-----------------------------------------------------------------------------
\* What is derived of a record.

\* _is_ambiguous and classify: the first evidence that decides.
Ambiguous(q) ==
  \/ q.roster = "inactive" /\ q.depth = 1
  \/ q.injury = "out" /\ q.practice = "full"

Classify(q) ==
  CASE Ambiguous(q) -> "AMBIGUOUS"
    [] ~Ambiguous(q) /\ q.injury \in {"out", "doubtful", "questionable"} -> q.injury
    [] ~Ambiguous(q) /\ q.injury = "" /\ q.practice = "limited" -> "limited"
    [] ~Ambiguous(q) /\ q.injury = "" /\ q.practice = "dnp" -> "questionable"
    [] OTHER -> IF q.depth = 0 THEN "UNKNOWN" ELSE IF q.depth = 1 THEN "healthy" ELSE "backup"

\* _row_for_sleeper: the strongest identifier that finds anyone decides, and
\* where it finds several nobody is matched.
Methods == <<"sleeper", "gsis", "espn", "stable", "name">>
Deciding(q) == {i \in DOMAIN Methods : q.found[Methods[i]] # {}}
Matched(q) ==
  Deciding(q) # {} /\ Cardinality(q.found[Methods[Min(Deciding(q))]]) = 1

\* normalize_qb_payload: the active quarterbacks.
ActivePlayers(r) == {p \in DOMAIN payload[r] : payload[r][p].active}

\* The rows of snapshot s in the tables: players and records, with evidence.
SnapshotOf(s) ==
  IF s \in tables["active"]
  THEN [p \in ActivePlayers(s) |-> [record |-> payload[s][p],
          evidence |-> IF s \in tables["evidence"] THEN Classify(payload[s][p]) ELSE ""]]
  ELSE <<>>

\* detect_changes: from an earlier snapshot to the rows of run r.
Changes(r, s) ==
  LET old == SnapshotOf(s)
      new == [p \in ActivePlayers(r) |-> [record |-> payload[r][p], evidence |-> Classify(payload[r][p])]]
      type(p) == IF p \notin DOMAIN old THEN "first_seen"
                 ELSE IF p \notin DOMAIN new THEN "dropped" ELSE "changed"
  IN {[run |-> r, prior |-> s, player |-> p, type |-> type(p)] :
        p \in {q \in DOMAIN old \cup DOMAIN new :
                 ~(q \in DOMAIN old /\ q \in DOMAIN new /\ old[q] = new[q])}}

-----------------------------------------------------------------------------
\* What is derived of the history.

\* select_latest_successful_snapshot: the success that finished last.
Successes(h) == {i \in DOMAIN h : h[i].outcome = "SUCCESS"}
LatestSuccess(h) == IF Successes(h) = {} THEN NoRun ELSE h[Max(Successes(h))].run

\* select_pregame_from_history.
Pregames(h) == {i \in Successes(h) : h[i].kind = "pregame" /\ h[i].observed < Kickoff}
SelectedPregame(h) == IF Pregames(h) = {} THEN NoRun ELSE h[Max(Pregames(h))].run

\* committed_snapshot_ids and filter_committed: a snapshot has an identity, and
\* rows, once its run observed.
Committed(h) == {h[i].run : i \in {j \in DOMAIN h : h[j].observed # 0}}
CommittedChanges(h) == {c \in changes : c.run \in Committed(h)}

\* derive_freshness_state, of a run that just ended.
FreshnessState(r, outcome) ==
  IF outcome # "SUCCESS" THEN "FETCH_FAILED_USING_NO_FALLBACK"
  ELSE IF DOMAIN payload[r] = {} THEN "INCOMPLETE_RESPONSE"
  ELSE IF \E c \in changes : c.run = r /\ c.type # "first_seen" THEN "FRESH_FETCH_CHANGED"
  ELSE "FRESH_FETCH_NO_CHANGE"

\* build_runs_from_disk: the committed runs with rows of the tables.
Measured(h) == Committed(h) \cap tables["crosswalk"]

\* compute_reliability_metrics, in what it counts.
Report(h, r, outcome) ==
  [runs |-> Len(h), successes |-> Cardinality(Successes(h)),
   matched |-> MapThenSumSet(LAMBDA s : Cardinality({p \in ActivePlayers(s) : Matched(payload[s][p])}),
                             Measured(h)),
   changes |-> Cardinality(CommittedChanges(h)), freshness |-> FreshnessState(r, outcome)]

-----------------------------------------------------------------------------
AuditInit ==
  /\ LockInit
  /\ now = 1 /\ troubles = 0
  /\ kind \in Kinds
  /\ observedAt = [r \in Runs |-> 0]
  /\ payload = [r \in Runs |-> <<>>]
  /\ attempts = [r \in Runs |-> 0]
  /\ prior = [r \in Runs |-> NoRun]
  /\ seen = [r \in Runs |-> <<>>]
  /\ verdict = [r \in Runs |-> ""]
  /\ history = <<>>
  /\ tables = [t \in {"ledger", "active", "evidence", "crosswalk"} |-> {}]
  /\ changes = {} /\ observations = {}
  /\ views = [status |-> NoRun, latest |-> NoRun, pregame |-> NoRun, report |-> <<>>]

Tick ==
  /\ now < LastTime
  /\ now' = now + 1
  /\ UNCHANGED <<lockVars, troubles, runVars, fileVars>>

Concludes(r, outcome) ==
  verdict' = [verdict EXCEPT ![r] = outcome] /\ To(r, "commit")

Trouble == troubles < MaxTroubles /\ troubles' = troubles + 1

\* verify_reference_manifest.
Verify(r) ==
  /\ step[r] = "begin"
  /\ \/ To(r, "fetch") /\ UNCHANGED <<verdict, troubles>>
     \/ Trouble /\ Concludes(r, "REFERENCE_FAILURE")
  /\ UNCHANGED <<owner, flock, now, kind, observedAt, payload, attempts, prior, seen, fileVars>>

\* The time is observed before fetch_attempts, which tries three times and stops
\* at the first success.
Observe(r) ==
  /\ step[r] = "fetch"
  /\ observedAt' = [observedAt EXCEPT ![r] = now]
  /\ attempts' = [attempts EXCEPT ![r] = 0]
  /\ To(r, "fetching")
  /\ UNCHANGED <<owner, flock, now, troubles, kind, payload, prior, seen, verdict, fileVars>>

Attempt(r) ==
  /\ step[r] = "fetching"
  /\ attempts' = [attempts EXCEPT ![r] = @ + 1]
  /\ \/ Trouble /\ To(r, IF attempts[r] + 1 < 3 THEN "fetching" ELSE "fetched") /\ UNCHANGED payload
     \/ UNCHANGED troubles /\ \E answer \in Payloads :
          payload' = [payload EXCEPT ![r] = answer] /\ To(r, "fetched")
  /\ UNCHANGED <<owner, flock, now, kind, observedAt, prior, seen, verdict, fileVars>>

\* _finalize_transport_failure: no attempt brought an answer.
NotFetched(r) == Concludes(r, "TRANSPORT_FAILURE")

\* _finalize_incomplete_response and _finalize_normalization_failure: what came
\* is no player map, or an empty one.
NotParsed(r) ==
  \E outcome \in {"INCOMPLETE_RESPONSE", "NORMALIZATION_FAILURE"} : Concludes(r, outcome)

\* The attempts are appended to the fetch ledger; then what came is parsed.
Parse(r) ==
  /\ step[r] = "fetched"
  /\ tables' = [tables EXCEPT !["ledger"] = @ \cup {r}]
  /\ \/ payload[r] = <<>> /\ (NotFetched(r) \/ NotParsed(r))
     \/ payload[r] # <<>> /\ To(r, "active") /\ UNCHANGED verdict
  /\ UNCHANGED <<owner, flock, now, troubles, kind, observedAt, payload, attempts, prior, seen,
                 history, changes, observations, views>>

\* Mutant: the earlier snapshot is the last one of the table, committed or not.
AppendActiveAfterGhost(r) ==
  /\ step[r] = "active"
  /\ \E s \in (IF tables["active"] = {} THEN {NoRun} ELSE tables["active"]) :
       prior' = [prior EXCEPT ![r] = s]
  /\ tables' = [tables EXCEPT !["active"] = @ \cup {r}]
  /\ To(r, "evidence")
  /\ UNCHANGED <<owner, flock, now, troubles, kind, observedAt, payload, attempts, seen, verdict,
                 history, changes, observations, views>>

\* The snapshot to compare with is read from the history before the rows of this
\* run are appended, file by file.
AppendActive(r) ==
  /\ step[r] = "active"
  /\ prior' = [prior EXCEPT ![r] = LatestSuccess(history)]
  /\ tables' = [tables EXCEPT !["active"] = @ \cup {r}]
  /\ To(r, "evidence")
  /\ UNCHANGED <<owner, flock, now, troubles, kind, observedAt, payload, attempts, seen, verdict,
                 history, changes, observations, views>>

AppendDerived(r) ==
  /\ \E t \in {"evidence", "crosswalk"} :
       /\ step[r] = t
       /\ tables' = [tables EXCEPT ![t] = @ \cup {r}]
       /\ To(r, IF t = "evidence" THEN "crosswalk" ELSE "changes")
  /\ UNCHANGED <<owner, flock, now, troubles, runVars, history, changes, observations, views>>

AppendChanges(r) ==
  /\ step[r] = "changes"
  /\ changes' = changes \cup Changes(r, prior[r])
  /\ IF kind[r] = "scheduled" THEN Concludes(r, "SUCCESS") ELSE To(r, "hof") /\ UNCHANGED verdict
  /\ UNCHANGED <<owner, flock, now, troubles, kind, observedAt, payload, attempts, prior, seen,
                 history, tables, observations, views>>

\* build_observation_record: which snapshots are compared.
Observation(pregame, r) == [pre |-> pregame, post |-> r]

\* _run_hof_workflow: a pregame run must have observed before kickoff.
Pregame(r) ==
  /\ step[r] = "hof" /\ kind[r] = "pregame"
  /\ \/ observedAt[r] < Kickoff /\ Concludes(r, "SUCCESS") /\ UNCHANGED troubles
     \/ observedAt[r] >= Kickoff /\ Concludes(r, "NORMALIZATION_FAILURE") /\ UNCHANGED troubles
     \/ Trouble /\ Concludes(r, "REFERENCE_FAILURE")
  /\ UNCHANGED <<owner, flock, now, kind, observedAt, payload, attempts, prior, seen, fileVars>>

\* A postgame run must have observed after it, and is compared with the committed
\* pregame snapshot.  The game may not resolve, or the append may fail: either is
\* recorded.
Postgame(r) ==
  /\ step[r] = "hof" /\ kind[r] = "postgame"
  /\ LET pregame == SelectedPregame(history)
         refused == pregame = NoRun \/ observedAt[r] <= Kickoff
     IN \/ /\ refused
           /\ Concludes(r, "NORMALIZATION_FAILURE") /\ UNCHANGED <<observations, troubles>>
        \/ /\ ~refused
           /\ observations' = observations \cup {Observation(pregame, r)}
           /\ Concludes(r, "SUCCESS") /\ UNCHANGED troubles
        \/ /\ Trouble
           /\ \/ Concludes(r, "REFERENCE_FAILURE")
              \/ ~refused /\ Concludes(r, "PERSISTENCE_FAILURE")
           /\ UNCHANGED observations
  /\ UNCHANGED <<owner, flock, now, kind, observedAt, payload, attempts, prior, seen,
                 history, tables, changes, views>>

\* An append that fails escapes: the run ends and records nothing.
AppendFails(r) ==
  /\ step[r] \in {"fetched", "active", "evidence", "crosswalk", "changes"}
  /\ Trouble
  /\ To(r, "unlock")
  /\ UNCHANGED <<owner, flock, now, runVars, fileVars>>

\* atomic_append_run_history reads the file and replaces it by one more row; a run
\* locked out does the same, at the steps "report" and "replace".
ReadHistory(r) ==
  /\ \/ step[r] = "commit" /\ To(r, "committing") /\ UNCHANGED verdict
     \/ /\ step[r] = "locked out" /\ To(r, "report")
        /\ verdict' = [verdict EXCEPT ![r] = "LOCK_FAILURE"]
  /\ seen' = [seen EXCEPT ![r] = history]
  /\ UNCHANGED <<owner, flock, now, troubles, kind, observedAt, payload, attempts, prior, fileVars>>

Row(r) == [run |-> r, outcome |-> verdict[r], kind |-> kind[r], observed |-> observedAt[r]]

ReplaceHistory(r) ==
  /\ \/ step[r] = "committing" /\ To(r, "views")
     \/ step[r] = "report" /\ To(r, "status")
  /\ history' = Append(seen[r], Row(r))
  /\ UNCHANGED <<owner, flock, now, troubles, runVars, tables, changes, observations, views>>

\* The row cannot be written: PERSISTENCE_FAILURE, and no view is refreshed.
ReplaceFails(r) ==
  /\ Trouble
  /\ \/ step[r] = "committing" /\ To(r, "unlock")
     \/ step[r] = "report" /\ To(r, "ended")
  /\ UNCHANGED <<owner, flock, now, runVars, fileVars>>

\* The views a run writes: those of the game when it succeeded in comparing.
DueViews(r) ==
  {"status", "report"} \cup
  (IF verdict[r] # "SUCCESS" THEN {} ELSE {"latest"} \cup ({kind[r]} \cap {"pregame"}))

\* _refresh_derived_views: each view is written, or its failure is a warning.
RefreshViews(r) ==
  /\ step[r] = "views"
  /\ \E kept \in {{}} \cup {{v} : v \in DueViews(r)} :
       /\ IF kept = {} THEN UNCHANGED troubles ELSE Trouble
       /\ views' = [v \in DOMAIN views |->
                      IF v \notin DueViews(r) \ kept THEN views[v]
                      ELSE IF v = "report" THEN Report(history, r, verdict[r]) ELSE r]
  /\ To(r, "unlock")
  /\ UNCHANGED <<owner, flock, now, runVars, history, tables, changes, observations>>

\* _emit_terminal: the status of a run that had no lock.
EmitStatus(r) ==
  /\ step[r] = "status"
  /\ views' = [views EXCEPT !.status = r]
  /\ To(r, "ended")
  /\ UNCHANGED <<owner, flock, now, troubles, runVars, history, tables, changes, observations>>

Killed(r) ==
  /\ Trouble
  /\ Die(r)
  /\ UNCHANGED <<now, runVars, fileVars>>

Locks(r) == LockStep(r) /\ UNCHANGED auditVars

Audit(r) ==
  \/ Verify(r) \/ Observe(r) \/ Attempt(r) \/ Parse(r)
  \/ AppendActive(r) \/ AppendDerived(r) \/ AppendChanges(r) \/ Pregame(r) \/ Postgame(r) \/ AppendFails(r)
  \/ ReadHistory(r) \/ ReplaceHistory(r) \/ ReplaceFails(r) \/ RefreshViews(r) \/ EmitStatus(r)

AuditNext == Tick \/ \E r \in Runs : Locks(r) \/ Audit(r) \/ Killed(r)

AuditSpec == AuditInit /\ [][AuditNext]_<<lockVars, auditVars>>

-----------------------------------------------------------------------------
\* docs/sleeper_qb_source_contract_v1.md: the history has one row per invocation,
\* of every one that came to write it.
Reporting == {r \in Runs : step[r] \in {"views", "unlock", "clear", "ended", "status"} /\ verdict[r] # ""}
OneRowPerRun ==
  troubles = 0 => \A r \in Reporting : Cardinality({i \in DOMAIN history : history[i].run = r}) = 1

\* What the history says succeeded is whole, whatever died where: every table holds
\* the snapshot, its changes lead to it from the success before it in the history,
\* and what is reported of the game compares a snapshot from before kickoff with one
\* from after it.  It is checked and proved where no run
\* gives up at a held lock: OneRowPerRun shows what one that does may do to the history.
HistoryIsTrue ==
  /\ \A i \in Successes(history) :
       LET r == history[i].run
       IN /\ \A t \in DOMAIN tables : r \in tables[t]
          /\ {c \in changes : c.run = r} = Changes(r, LatestSuccess(SubSeq(history, 1, i - 1)))
  /\ \A o \in observations : observedAt[o.pre] < Kickoff /\ Kickoff < observedAt[o.post]
                               /\ \E i \in Successes(history) : history[i].run = o.pre
  /\ views.latest # NoRun => \E i \in Successes(history) : history[i].run = views.latest
  /\ \A i, j \in DOMAIN history : history[i].run = history[j].run => i = j

=============================================================================
