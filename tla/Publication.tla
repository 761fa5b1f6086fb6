--------------------------- MODULE Publication ----------------------------
(***************************************************************************)
(* Publishing a product snapshot: promote_validated_snapshot and           *)
(* ProductStore.publish, call by call, over a directory that a crash of    *)
(* the process leaves as it is and a loss of power takes back to what was  *)
(* fsynced.  Any file operation may raise OSError.  The lock of the        *)
(* production refresh is per run root, so several publishers are allowed.  *)
(***************************************************************************)
EXTENDS Naturals, Sequences

CONSTANTS
  Publisher,
  Product,        \* candidates: generated_at_utc and product_version name them
  Valid,          \* those that validate_product_snapshot accepts
  NoProduct

ASSUME PublicationAssumption ==
  /\ Valid \subseteq Product
  /\ NoProduct \notin Product

VARIABLES
  immutable,      \* state of the immutable snapshot file of each product
  entries,        \* products whose file a loss of power leaves there
  log,            \* the products os.replace made latest.json, in order
  synced,         \* how much of the log a loss of power cannot take back
  status,         \* publication-status-v1.json
  statuses,       \* what a loss of power may make of it
  pub             \* what each publisher is doing; from: where the log stood

diskVars == <<immutable, entries, log, synced, status, statuses>>
vars == <<diskVars, pub>>

Latest == IF log = << >> THEN NoProduct ELSE log[Len(log)]

FileState == {"absent", "partial", "complete"}
Status == [version: Product \cup {NoProduct}, failed: BOOLEAN]

\* "raised" and "returned" are how publish ended, before the caller goes on.
Pc == {"idle", "check", "create", "write", "sync", "replace", "syncLatest",
       "status", "reload", "fail", "raised", "returned"}

TypeOK ==
  /\ immutable \in [Product -> FileState]
  /\ entries \subseteq Product
  /\ log \in Seq(Product)
  /\ synced \in 0..Len(log)
  /\ status \in Status
  /\ statuses \in SUBSET Status
  /\ pub \in [Publisher -> [pc: Pc, candidate: Product \cup {NoProduct},
                            before: Status, from: Nat]]

NoStatus == [version |-> NoProduct, failed |-> FALSE]
Resting == [pc |-> "idle", candidate |-> NoProduct, before |-> NoStatus,
            from |-> 0]

Init ==
  /\ immutable = [v \in Product |-> "absent"]
  /\ entries = {}
  /\ log = << >>
  /\ synced = 0
  /\ status = NoStatus
  /\ statuses = {NoStatus}
  /\ pub = [p \in Publisher |-> Resting]

----------------------------------------------------------------------------
Goes(p, pc) == pub' = [pub EXCEPT ![p].pc = pc]
At(p, pc) == pub[p].pc = pc
Candidate(p) == pub[p].candidate

\* An OSError anywhere in promote_validated_snapshot reaches publish's handler.
Raises(p) == Goes(p, "fail") /\ UNCHANGED diskVars

\* What _read_status makes of a file that cannot be read.
Unreadable == [version |-> NoProduct, failed |-> TRUE]

\* publish reads the status file, then promote validates the candidate.
Begin(p, v) ==
  /\ At(p, "idle")
  /\ \E read \in {status, Unreadable} :
       pub' = [pub EXCEPT ![p] =
         [pc |-> IF v \in Valid THEN "check" ELSE "fail", candidate |-> v,
          before |-> read, from |-> Len(log)]]
  /\ UNCHANGED diskVars

\* immutable.exists()
Check(p) ==
  /\ At(p, "check")
  /\ Goes(p, IF immutable[Candidate(p)] = "absent" THEN "create" ELSE "fail")
  /\ UNCHANGED diskVars

\* Mutant: an existing file is truncated, without O_EXCL.
CreateTruncates(p) ==
  /\ At(p, "create")
  /\ immutable' = [immutable EXCEPT ![Candidate(p)] = "partial"]
  /\ entries' = entries \ {Candidate(p)}
  /\ Goes(p, "write")
  /\ UNCHANGED <<log, synced, status, statuses>>

\* os.open with O_EXCL: FileExistsError when another publisher was faster.
Create(p) ==
  /\ At(p, "create")
  /\ \/ /\ immutable[Candidate(p)] = "absent"
        /\ immutable' = [immutable EXCEPT ![Candidate(p)] = "partial"]
        /\ entries' = entries \ {Candidate(p)}
        /\ Goes(p, "write")
        /\ UNCHANGED <<log, synced, status, statuses>>
     \/ Raises(p)

\* Write, flush and fsync; on an error the file is unlinked.
Write(p) ==
  /\ At(p, "write")
  /\ \/ /\ immutable' = [immutable EXCEPT ![Candidate(p)] = "complete"]
        /\ Goes(p, "sync")
     \/ /\ immutable' = [immutable EXCEPT ![Candidate(p)] = "absent"]
        /\ Goes(p, "fail")
  /\ UNCHANGED <<entries, log, synced, status, statuses>>

\* fsync of the directory: what it holds now is what a loss of power leaves.
DirectorySynced ==
  /\ entries' = {v \in Product : immutable[v] # "absent"}
  /\ synced' = Len(log)
  /\ statuses' = {status'}

\* Mutant: the directory is not fsynced before the replacement.
SyncSkipped(p) == At(p, "sync") /\ Goes(p, "replace") /\ UNCHANGED diskVars

Sync(p) ==
  /\ At(p, "sync")
  /\ \/ /\ UNCHANGED <<immutable, log, status>>
        /\ DirectorySynced
        /\ Goes(p, "replace")
     \/ Raises(p)

\* The temporary file is written and fsynced, and becomes latest.json at once.
Replace(p) ==
  /\ At(p, "replace")
  /\ \/ /\ log' = Append(log, Candidate(p))
        /\ Goes(p, "syncLatest")
        /\ UNCHANGED <<immutable, entries, synced, status, statuses>>
     \/ Raises(p)

\* The fsync after the replacement is in the same try: it raises like the rest.
SyncLatest(p) ==
  /\ At(p, "syncLatest")
  /\ \/ /\ UNCHANGED <<immutable, log, status>>
        /\ DirectorySynced
        /\ Goes(p, "status")
     \/ Raises(p)

\* _atomic_json of the status file, up to its fsync of the directory or short
\* of it.
StatusReplaced(s) ==
  /\ status' = s
  /\ UNCHANGED <<immutable, log>>
StatusWritten(s) == StatusReplaced(s) /\ DirectorySynced
StatusUnsynced(s) ==
  /\ StatusReplaced(s)
  /\ statuses' = statuses \cup {s}
  /\ UNCHANGED <<entries, synced>>

\* The status of a success is written outside the handler.
WriteStatus(p) ==
  /\ At(p, "status")
  /\ LET success == [version |-> Candidate(p), failed |-> FALSE]
     IN \/ StatusWritten(success) /\ Goes(p, "reload")
        \/ StatusUnsynced(success) /\ Goes(p, "raised")
        \/ UNCHANGED diskVars /\ Goes(p, "raised")

\* publish re-reads the pointer into the publisher's own cache.
Reload(p) ==
  /\ At(p, "reload")
  /\ Goes(p, "returned") \/ Goes(p, "raised")
  /\ UNCHANGED diskVars

\* Mutant: the failure is written with the candidate's version.
FailNamesCandidate(p) ==
  /\ At(p, "fail")
  /\ Goes(p, "raised")
  /\ StatusWritten([version |-> Candidate(p), failed |-> TRUE])

\* The handler writes what it read before, with the failure, and re-raises.
Fail(p) ==
  /\ At(p, "fail")
  /\ Goes(p, "raised")
  /\ LET failure == [pub[p].before EXCEPT !.failed = TRUE]
     IN StatusWritten(failure) \/ StatusUnsynced(failure) \/ UNCHANGED diskVars

Finish(p) ==
  /\ pub[p].pc \in {"raised", "returned"}
  /\ pub' = [pub EXCEPT ![p] = Resting]
  /\ UNCHANGED diskVars

\* The publisher is killed; the disk keeps what the calls so far did.
Crash(p) ==
  /\ ~At(p, "idle")
  /\ pub' = [pub EXCEPT ![p] = Resting]
  /\ UNCHANGED diskVars

\* The machine loses power.  A file created or unlinked since the last fsync of
\* the directory may be gone or back, and the last replacements undone.
PowerLoss ==
  /\ pub' = [p \in Publisher |-> Resting]
  /\ \E undone \in SUBSET {v \in Product : (immutable[v] = "absent") = (v \in entries)} :
       immutable' = [v \in Product |->
         IF v \notin undone THEN immutable[v]
         ELSE IF v \in entries THEN "partial" ELSE "absent"]
  /\ entries' = {v \in Product : immutable'[v] # "absent"}
  /\ \E n \in synced..Len(log) : log' = SubSeq(log, 1, n)
  /\ synced' = Len(log')
  /\ status' \in statuses
  /\ statuses' = {status'}

Publish(p) == \/ Check(p) \/ Create(p) \/ Write(p) \/ Sync(p) \/ Replace(p)
              \/ SyncLatest(p) \/ WriteStatus(p) \/ Reload(p) \/ Fail(p)
              \/ Finish(p)

Next ==
  \/ \E p \in Publisher, v \in Product : Begin(p, v)
  \/ \E p \in Publisher : Publish(p) \/ Crash(p)
  \/ PowerLoss

Spec == Init /\ [][Next]_vars
----------------------------------------------------------------------------
(***************************************************************************)
(* Whatever latest.json has ever been, and whatever a loss of power takes  *)
(* it back to, the immutable snapshot of that product is on disk, whole    *)
(* and durable: the directory is fsynced before the replacement.           *)
(***************************************************************************)
LatestHasItsImmutable ==
  \A i \in 1..Len(log) :
    /\ log[i] \in Valid
    /\ immutable[log[i]] = "complete"
    /\ log[i] \in entries

(***************************************************************************)
(* Readers of latest.json are promised what LatestFile says: only valid    *)
(* products, none of them twice (O_EXCL lets one publisher, once, past the *)
(* creation of its immutable file, failed attempts included), and nothing  *)
(* fsynced is ever taken back.                                             *)
(***************************************************************************)
Pointer == INSTANCE LatestFile
ImplementsLatestFile == Pointer!FileSpec

(***************************************************************************)
(* The status file, and what a loss of power may make of it, names a       *)
(* product whose promotion no loss of power takes back, even when a        *)
(* failing publisher writes back what it read before another succeeded.    *)
(***************************************************************************)
StatusNamesPublished ==
  \A s \in statuses \cup {status} :
    s.version # NoProduct => \E i \in 1..synced : log[i] = s.version

===========================================================================
