--------------------------- MODULE WeeklyInputs ---------------------------
(***************************************************************************)
(* The weekly inputs of a season: live/evidence_2026.py writes a directory *)
(* of schedules, settled evidence, checkpoints and a manifest, and a       *)
(* production refresh reads it.  Writer and reader hold a file lock, but   *)
(* the refresh takes it for load_settled_evidence only: it resolves the    *)
(* active schedule before, and reads schedules again after.                *)
(*                                                                         *)
(* A file is named by the materialization that made its content: 0 for no  *)
(* file, n for the n-th one, whose observed_at_utc is in every schedule it *)
(* builds.                                                                 *)
(***************************************************************************)
EXTENDS Integers, SequencesExt

CONSTANTS
  LastWeek,
  NoJob, NoManifest, NoProduct,
  MaxRuns         \* bound: materializations

VARIABLES
  active,         \* the last week whose Tuesday rollover has passed
  runs,           \* materializations begun
  job,            \* the materialization that holds the lock
  schedule,       \* weekN_schedule_v1.json
  part,           \* settled_*.parquet
  bundles,        \* schedule_checkpoints/, content-addressed
  manifest,       \* settled_evidence_manifest.json
  refresh,        \* a production refresh up to the scored week
  scored          \* what the last one scored

dirVars == <<schedule, part, bundles, manifest>>
weeklyVars == <<active, runs, job, dirVars, refresh, scored>>

Week == 1..LastWeek
Part == {"games", "team_stats", "qb_stats", "pbp"}
NoRefresh == [pc |-> "idle"]

\* A season has a week, and no manifest is not a manifest.
ASSUME WeeklyAssumption ==
  /\ LastWeek \in Nat \ {0}
  /\ NoManifest \notin [run : Nat, through : Nat, pins : [Week -> Nat]]

WeeklyInit ==
  /\ active = 1
  /\ runs = 0
  /\ job = NoJob
  /\ schedule = [w \in Week |-> 0]
  /\ part = [p \in Part |-> [run |-> 0, through |-> 0]]
  /\ bundles = {}
  /\ manifest = NoManifest
  /\ refresh = NoRefresh
  /\ scored = NoProduct

Rollover == active < LastWeek /\ active' = active + 1
            /\ UNCHANGED <<runs, job, dirVars, refresh, scored>>

----------------------------------------------------------------------------
\* Mutant: a settled week's schedule is built again each time.
PinOfRebuilt(w, run) == run

\* reuse: a week the manifest pins is replayed from its checkpoint; another one
\* is built again from the source.
PinOf(w, run) ==
  IF manifest # NoManifest /\ manifest.pins[w] # 0 THEN manifest.pins[w] ELSE run

PinsOf(week, run) ==
  [w \in Week |-> CASE w < week -> PinOf(w, run)
                    [] w = week -> run
                    [] w > week -> 0]

\* The order of the files: the active schedule goes first, the manifest last.
Writes(week, pins) ==
  LET schedules   == [w \in 1..week |-> [to |-> "schedule", week |-> w, run |-> pins[w]]]
      checkpoints == [w \in 1..week |-> [to |-> "checkpoint", week |-> w, run |-> pins[w]]]
      parts == << [to |-> "games"], [to |-> "team_stats"], [to |-> "qb_stats"],
                  [to |-> "pbp"] >>
  IN <<schedules[week]>> \o Front(schedules)
     \o (IF week = 1 THEN checkpoints \o parts ELSE parts \o checkpoints)
     \o << [to |-> "manifest"] >>

\* materialize_settled_evidence takes the lock and chooses the active week.
Begin ==
  /\ job = NoJob
  /\ runs < MaxRuns
  /\ runs' = runs + 1
  /\ LET pins == PinsOf(active, runs')
     IN job' = [week |-> active, pins |-> pins, todo |-> Writes(active, pins)]
  /\ UNCHANGED <<active, dirVars, refresh, scored>>

\* Each file is replaced atomically.
WriteNext ==
  /\ job # NoJob
  /\ LET file == Head(job.todo) IN
       /\ schedule' = IF file.to = "schedule"
                        THEN [schedule EXCEPT ![file.week] = file.run] ELSE schedule
       /\ bundles' = IF file.to = "checkpoint"
                       THEN bundles \cup {<<file.week, file.run>>} ELSE bundles
       /\ part' = IF file.to \in Part
                    THEN [part EXCEPT ![file.to] = [run |-> runs, through |-> job.week - 1]]
                    ELSE part
       /\ manifest' = IF file.to = "manifest"
                        THEN [run |-> runs, through |-> job.week - 1, pins |-> job.pins]
                        ELSE manifest
  /\ job' = IF Len(job.todo) = 1 THEN NoJob ELSE [job EXCEPT !.todo = Tail(@)]
  /\ UNCHANGED <<active, runs, refresh, scored>>

\* A download, a rejected source or an unsettled game stops it, or the service's
\* four minutes are over; the kernel drops the lock.
Abort ==
  /\ job # NoJob
  /\ job' = NoJob
  /\ UNCHANGED <<active, runs, dirVars, refresh, scored>>

----------------------------------------------------------------------------
\* Mutant: the schedules are not compared with their checkpoints.
LoadsByCount ==
  /\ manifest # NoManifest
  /\ \A p \in Part : part[p].run # 0 /\ part[p].through = manifest.through

\* _load_settled_evidence: every schedule is the one of its checkpoint, and the
\* artifacts have the manifest's row counts, which tell the weeks they cover.
Loads ==
  /\ manifest # NoManifest
  /\ \A w \in Week : manifest.pins[w] # 0 =>
       <<w, manifest.pins[w]>> \in bundles /\ schedule[w] = manifest.pins[w]
  /\ \A p \in Part : part[p].run # 0 /\ part[p].through = manifest.through

ByRefresh == UNCHANGED <<active, runs, job, dirVars>>
Stops == refresh' = NoRefresh /\ UNCHANGED scored

\* resolve_active_schedule, without the lock.  Week 1 needs no evidence.
Resolve ==
  /\ refresh = NoRefresh
  /\ schedule[active] # 0
  /\ refresh' = [pc |-> IF active > 1 THEN "load" ELSE "advance", week |-> active,
                 set |-> NoManifest, read |-> << >>]
  /\ UNCHANGED scored
  /\ ByRefresh

\* load_settled_evidence, and the first check of the state advancement.
Load ==
  /\ refresh.pc = "load"
  /\ job = NoJob
  /\ IF Loads /\ manifest.through = refresh.week - 1
       THEN refresh' = [refresh EXCEPT !.pc = "advance", !.set = manifest]
            /\ UNCHANGED scored
       ELSE Stops
  /\ ByRefresh

\* advance_entering_state_through_settled_weeks reads one prior schedule after
\* another, and the lock is no longer held.
AdvanceState ==
  /\ refresh.pc = "advance"
  /\ IF Len(refresh.read) < refresh.week - 1
       THEN /\ refresh' = [refresh EXCEPT !.read = Append(@, schedule[Len(@) + 1])]
            /\ UNCHANGED scored
       ELSE /\ scored' = [week |-> refresh.week, set |-> refresh.set,
                          read |-> refresh.read]
            /\ refresh' = NoRefresh
  /\ ByRefresh

\* Another gate, or the end of the process.
Stop == refresh # NoRefresh /\ Stops /\ ByRefresh

WeeklyNext == Rollover \/ Begin \/ WriteNext \/ Abort
        \/ Resolve \/ Load \/ AdvanceState \/ Stop

WeeklySpec == WeeklyInit /\ [][WeeklyNext]_weeklyVars
----------------------------------------------------------------------------
(***************************************************************************)
(* Evidence that loads for the active week is of one materialization,      *)
(* whatever files others that were cut short replaced.  Row counts do not  *)
(* tell, as two sets of one week have the same; the active schedule, which *)
(* is written first, does.  (A set of an earlier week may be a mixture     *)
(* that loads: what refuses it is its through_week.)                       *)
(***************************************************************************)
LoadedIsWhole ==
  job = NoJob /\ Loads /\ manifest.through = active - 1 =>
    /\ \A p \in Part : part[p].run = manifest.run
    /\ schedule[active] = manifest.run

(***************************************************************************)
(* Football state is advanced over the schedules that the loaded evidence  *)
(* was validated with, though they are read after the lock is released.    *)
(***************************************************************************)
AdvancesAsPinned ==
  scored # NoProduct =>
    \A w \in 1..(scored.week - 1) : scored.read[w] = scored.set.pins[w]
===========================================================================
