----------------------------- MODULE AuditLock -----------------------------
(***************************************************************************)
(* The lock of the Sleeper audit (locking.py): an owner file created with  *)
(* O_EXCL, which a later run removes when the process it names is dead,    *)
(* and an flock, which the operating system releases with its process.     *)
(* A run that cannot have the lock waits for it or gives up, as it was     *)
(* told.  Process identifiers are not reused.                              *)
(***************************************************************************)
EXTENDS Naturals

CONSTANTS Runs,         \* invocations of the collector
          Patient       \* the runs with a lock timeout that is never exhausted

NoRun == "no run"

ASSUME RunsAssumption == NoRun \notin Runs

VARIABLES
  step,      \* by run: where it is
  owner,     \* the owner file: [by, written], or NoOwner
  flock      \* the run whose process holds the flock, or NoRun

lockVars == <<step, owner, flock>>

NoOwner == [by |-> NoRun, written |-> FALSE]

\* The steps of a run that has the lock, and those of one that has not.
Working == {"begin", "fetch", "fetching", "fetched", "active", "evidence", "crosswalk",
            "changes", "hof", "commit", "committing", "views", "unlock"}
Outside == {"idle", "look", "sweep", "create", "write", "flock", "clear", "ended", "dead",
            "locked out", "report", "status"}

Holds(r) == step[r] \in Working

LockInit ==
  /\ step = [r \in Runs |-> "idle"]
  /\ owner = NoOwner
  /\ flock = NoRun

To(r, s) == step' = [step EXCEPT ![r] = s]

\* The lock is held: LockFailure at the deadline, another look before it.
GiveUp(r) == To(r, IF r \in Patient THEN "look" ELSE "locked out")

StartLock(r) ==
  /\ step[r] = "idle"
  /\ To(r, "look")
  /\ UNCHANGED <<owner, flock>>

\* An owner file that names a dead process is to be removed; one that cannot
\* be read is held.
Look(r) ==
  /\ step[r] = "look"
  /\ IF owner = NoOwner THEN To(r, "create")
     ELSE IF owner.written /\ step[owner.by] \in {"dead", "ended"} THEN To(r, "sweep")
     ELSE GiveUp(r)
  /\ UNCHANGED <<owner, flock>>

\* _clear_owner removes the file by name, whoever it names by now.
Sweep(r) ==
  /\ step[r] = "sweep"
  /\ owner' = NoOwner
  /\ To(r, "look")
  /\ UNCHANGED flock

\* _acquire_sentinel: created, then written.
Create(r) ==
  /\ step[r] = "create"
  /\ IF owner # NoOwner THEN GiveUp(r) /\ UNCHANGED owner
     ELSE owner' = [by |-> r, written |-> FALSE] /\ To(r, "write")
  /\ UNCHANGED flock

WriteOwner(r) ==
  /\ step[r] = "write"
  /\ owner' = IF owner.by = r THEN [owner EXCEPT !.written = TRUE] ELSE owner
  /\ To(r, "flock")
  /\ UNCHANGED flock

\* Mutant: the owner file alone decides.
FlockUnasked(r) ==
  /\ step[r] = "flock"
  /\ flock' = r /\ To(r, "begin") /\ UNCHANGED owner

Flock(r) ==
  /\ step[r] = "flock"
  /\ IF flock = NoRun
     THEN flock' = r /\ To(r, "begin") /\ UNCHANGED owner
     ELSE owner' = NoOwner /\ GiveUp(r) /\ UNCHANGED flock

\* The end of the context: the flock first, then the owner file.
Unlock(r) ==
  /\ step[r] = "unlock"
  /\ flock' = NoRun
  /\ To(r, "clear")
  /\ UNCHANGED owner

ClearOwner(r) ==
  /\ step[r] = "clear"
  /\ owner' = NoOwner
  /\ To(r, "ended")
  /\ UNCHANGED flock

\* The process dies: the flock goes with it, the owner file stays.
Die(r) ==
  /\ step[r] \notin {"idle", "ended", "dead"}
  /\ To(r, "dead")
  /\ flock' = IF flock = r THEN NoRun ELSE flock
  /\ UNCHANGED owner

LockStep(r) ==
  \/ StartLock(r) \/ Look(r) \/ Sweep(r) \/ Create(r) \/ WriteOwner(r) \/ Flock(r)
  \/ Unlock(r) \/ ClearOwner(r)

\* The work under the lock, and what a run without it does to report that.
Work(r) ==
  /\ \/ Holds(r) /\ step[r] # "unlock" /\ \E s \in Working : To(r, s)
     \/ step[r] = "locked out" /\ To(r, "report")
     \/ step[r] = "report" /\ \E s \in {"status", "ended"} : To(r, s)
     \/ step[r] = "status" /\ To(r, "ended")
  /\ UNCHANGED <<owner, flock>>

LockNext == \E r \in Runs : LockStep(r) \/ Die(r) \/ Work(r)
LockSpec == LockInit /\ [][LockNext]_lockVars

\* At most one run audits at a time, though several may each take an owner file
\* for a dead process's and remove the file of one that has the lock.
LockIsExclusive == \A r, s \in Runs : Holds(r) /\ Holds(s) => r = s

=============================================================================
