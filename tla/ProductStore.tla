--------------------------- MODULE ProductStore ---------------------------
(***************************************************************************)
(* The reading side of backend/publication.py: the backend's in-memory     *)
(* snapshot of latest.json, reloaded by whichever request notices that the *)
(* file was replaced.  A request holds the store's lock for the whole of   *)
(* one refresh_if_changed, while publishers, which are other processes, go *)
(* on between its file operations.                                         *)
(*                                                                         *)
(* A product is latest.json once, so its name stands for the stat identity *)
(* of the file it was promoted in.                                         *)
(***************************************************************************)
EXTENDS LatestFile

CONSTANT
  MaxRestarts     \* bound: restarts of the backend

ASSUME ProductAssumption == NoProduct \notin Valid

VARIABLES
  snapshot,       \* the last product loaded and validated
  observed,       \* identity of the last file looked at, loaded or broken
  reloadFailure,  \* whether a reload failure is recorded
  reader,         \* the load in progress
  flaky,          \* whether reading or parsing latest.json may raise, ever
  restarts

storeVars == <<snapshot, observed, reloadFailure, reader, flaky, restarts>>
productVars == <<fileVars, storeVars>>

\* boot: it is create_app's load, and not a request's.
Quiet == [pc |-> "idle", boot |-> FALSE, noticed |-> NoProduct,
          before |-> NoProduct, payload |-> NoProduct, tries |-> 0]
Booting == [Quiet EXCEPT !.pc = "starting", !.boot = TRUE]

StoreInit ==
  /\ FileInit
  /\ snapshot = NoProduct
  /\ observed = NoProduct
  /\ reloadFailure = FALSE
  /\ reader = Booting
  /\ flaky \in BOOLEAN
  /\ restarts = 0

----------------------------------------------------------------------------
Install(v) ==
  /\ snapshot' = v
  /\ observed' = v
  /\ reloadFailure' = FALSE
  /\ reader' = Quiet

\* Mutant: the failure is not recorded.
LoadFailsSilently ==
  /\ UNCHANGED <<snapshot, reloadFailure>>
  /\ IF reader.boot
       THEN reader' = Booting /\ UNCHANGED observed
       ELSE reader' = Quiet /\ observed' = reader.noticed

\* Mutant: what is remembered is the file that is there by now.
LoadFailsSeesLatest ==
  /\ UNCHANGED snapshot
  /\ IF reader.boot
       THEN reader' = Booting /\ UNCHANGED <<observed, reloadFailure>>
       ELSE /\ reader' = Quiet
            /\ observed' = Latest
            /\ reloadFailure' = (reloadFailure \/ snapshot # NoProduct)

\* A failed reload keeps the snapshot and remembers the file it noticed; a
\* failed load at the start ends the process, and it is started again.
LoadFails ==
  /\ UNCHANGED snapshot
  /\ IF reader.boot
       THEN reader' = Booting /\ UNCHANGED <<observed, reloadFailure>>
       ELSE /\ reader' = Quiet
            /\ observed' = reader.noticed
            /\ reloadFailure' = (reloadFailure \/ snapshot # NoProduct)

\* create_app loads what there is.
Start ==
  /\ reader.pc = "starting"
  /\ reader' = IF Latest = NoProduct THEN Quiet
               ELSE [reader EXCEPT !.pc = "before", !.tries = 2]
  /\ UNCHANGED <<fileVars, snapshot, observed, reloadFailure, flaky, restarts>>

\* A request calls snapshot(), and the file is not the one observed last.
Ask ==
  /\ reader.pc = "idle"
  /\ Latest # observed
  /\ reader' = [reader EXCEPT !.pc = "before", !.noticed = Latest, !.tries = 2]
  /\ UNCHANGED <<fileVars, snapshot, observed, reloadFailure, flaky, restarts>>

\* The file cannot be looked at.
AskRaises ==
  /\ flaky
  /\ reader.pc = "idle"
  /\ reloadFailure' = (reloadFailure \/ snapshot # NoProduct)
  /\ UNCHANGED <<fileVars, snapshot, observed, reader, flaky, restarts>>

\* _load_validated_latest: stat, read, stat, and at most twice.
StatBefore ==
  /\ reader.pc = "before"
  /\ reader' = [reader EXCEPT !.pc = "read", !.before = Latest]
  /\ UNCHANGED <<fileVars, snapshot, observed, reloadFailure, flaky, restarts>>

Read ==
  /\ reader.pc = "read"
  /\ reader' = [reader EXCEPT !.pc = "after", !.payload = Latest]
  /\ UNCHANGED <<fileVars, snapshot, observed, reloadFailure, flaky, restarts>>

ReadRaises ==
  /\ flaky
  /\ reader.pc = "read"
  /\ LoadFails
  /\ UNCHANGED <<fileVars, flaky, restarts>>

StatAfter ==
  /\ reader.pc = "after"
  /\ \/ Latest = reader.before /\ Install(reader.payload)
     \/ /\ Latest # reader.before /\ reader.tries = 2
        /\ reader' = [reader EXCEPT !.pc = "before", !.tries = 1]
        /\ UNCHANGED <<snapshot, observed, reloadFailure>>
     \/ Latest # reader.before /\ reader.tries = 1 /\ LoadFails
  /\ UNCHANGED <<fileVars, flaky, restarts>>

Forget ==
  /\ restarts < MaxRestarts
  /\ restarts' = restarts + 1
  /\ snapshot' = NoProduct
  /\ observed' = NoProduct
  /\ reloadFailure' = FALSE
  /\ reader' = Booting
  /\ UNCHANGED flaky

\* The backend is restarted; or the machine, publishers and all.
Restart == Forget /\ UNCHANGED fileVars
MachineRestart == Forget /\ LosePower

Reading == Start \/ StatBefore \/ Read \/ ReadRaises \/ StatAfter

Publishing ==
  /\ (\E v \in Valid : Promote(v)) \/ Persist
  /\ UNCHANGED storeVars

StoreNext == Publishing \/ Ask \/ AskRaises \/ Reading \/ Restart \/ MachineRestart

\* Requests keep coming, and a load that has begun is carried out.
StoreSpec == StoreInit /\ [][StoreNext]_productVars
             /\ WF_productVars(Reading) /\ WF_productVars(Ask)
----------------------------------------------------------------------------
Position(v) == CHOOSE i \in 1..Len(log) : log[i] = v

(***************************************************************************)
(* Without a recorded failure, a store that has looked at the current file *)
(* serves it: a product goes stale in memory only visibly.                 *)
(***************************************************************************)
StaleIsFlagged ==
  reader.pc = "idle" /\ snapshot # NoProduct /\ observed = Latest
    => snapshot = Latest \/ reloadFailure

(***************************************************************************)
(* While the backend runs, what it serves only moves forward in the order  *)
(* of publication, however publications overtake a reload.                 *)
(***************************************************************************)
ServesForward ==
  [][snapshot # NoProduct /\ snapshot' # NoProduct /\ snapshot' # snapshot
       => Position(snapshot') > Position(snapshot)]_productVars

(***************************************************************************)
(* A product that stays latest is served in the end, if reading it works:  *)
(* a reload that publications overtook twice does not mark the new file as *)
(* seen.                                                                   *)
(***************************************************************************)
LatestIsServed ==
  ~flaky => \A v \in Valid : <>[](Latest = v) => []<>(snapshot = v)
===========================================================================
