----------------------- MODULE ProspectiveEvidence -----------------------
(***************************************************************************)
(* From a captured publication to the evidence branch: the capture that    *)
(* ends a production refresh (capture_v1.py), and the oneshot job that     *)
(* copies captures into an isolated checkout, derives and finalizes        *)
(* (persistence_v1.py), commits and pushes                                 *)
(* (persist_prospective_evidence_v1.sh).  One week of one season.          *)
(*                                                                         *)
(* A publication's id is its place in the order of capture.  Two captures  *)
(* never share a microsecond, so that is the order of published_at_utc.    *)
(***************************************************************************)
EXTENDS ProspectiveCard

CONSTANTS
  Boundary,       \* last kickoff of the week's slate
  NoOfficial,
  MaxTime,        \* bound: hours of the week
  MaxPublications \* bound: publications captured

ASSUME EvidenceAssumption ==
  /\ Boundary \in Nat /\ MaxTime \in Nat /\ MaxPublications \in Nat
  /\ \A row \in Row : row.kick <= Boundary
  /\ \A cards \in SUBSET (Lane \X {row.game : row \in Row}) :
       NoOfficial \notin [cards -> Resolutions]

VARIABLES
  rough,          \* whether processes may be killed, and the job be started
                  \* while a capture is being written
  clock,
  published,      \* the publications whose capture began
  files,          \* state of each one's file in the runtime directory
  capturing,      \* whether the last file is being written
  tree,           \* prospective/cards in the evidence checkout
  head,           \* the same at its HEAD
  remote,         \* and on the remote branch
  job             \* the run of the persistence job, if there is one

captureVars == <<published, files, capturing>>
gitVars == <<tree, head, remote>>
vars == <<rough, clock, captureVars, gitVars, job>>

Id == 1..MaxPublications

Empty == [pubs |-> {}, torn |-> FALSE, episodes |-> {}, results |-> FALSE,
          official |-> NoOfficial]
NoJob == [pc |-> "idle", todo |-> {}]

Init ==
  /\ rough \in BOOLEAN
  /\ clock = 0
  /\ published = << >>
  /\ files = << >>
  /\ capturing = FALSE
  /\ tree = Empty
  /\ head = Empty
  /\ remote = Empty
  /\ job = NoJob

Tick == clock < MaxTime /\ clock' = clock + 1
        /\ UNCHANGED <<rough, captureVars, gitVars, job>>

----------------------------------------------------------------------------
\* capture_published_product: the time is taken, then the file created with
\* O_EXCL; another product always has another file name.
CaptureBegin(lanes) ==
  /\ Len(published) < MaxPublications
  /\ ~capturing
  /\ \A i \in 1..Len(published) : published[i].at < clock
  /\ rough \/ job = NoJob
  /\ published' = Append(published, [id |-> Len(published) + 1, at |-> clock,
                                     boundary |-> Boundary, lanes |-> lanes])
  /\ files' = Append(files, "partial")
  /\ capturing' = TRUE
  /\ UNCHANGED <<rough, clock, gitVars, job>>

\* The bytes are written, or an error unlinks the file.
CaptureEnd ==
  /\ capturing
  /\ capturing' = FALSE
  /\ \E outcome \in {"complete", "gone"} :
       files' = [files EXCEPT ![Len(files)] = outcome]
  /\ UNCHANGED <<rough, clock, published, gitVars, job>>

CaptureKilled ==
  /\ rough /\ capturing
  /\ capturing' = FALSE
  /\ UNCHANGED <<rough, clock, published, files, gitVars, job>>

----------------------------------------------------------------------------
Goes(pc) == job' = [job EXCEPT !.pc = pc]
Ends == job' = NoJob
ByJob == UNCHANGED <<rough, clock, captureVars>>

\* Mutant: the checkout may be dirty.
JobStartDirty ==
  /\ job = NoJob
  /\ Goes(IF head = remote THEN "glob" ELSE "retry")
  /\ UNCHANGED gitVars
  /\ ByJob

\* Mutant: what an earlier run could not push is not pushed first.
JobStartForgetful ==
  /\ job = NoJob
  /\ rough \/ ~capturing
  /\ tree = head
  /\ Goes("glob")
  /\ UNCHANGED gitVars
  /\ ByJob

\* The script refuses a dirty checkout, and pushes first what an earlier run
\* could not.
JobStart ==
  /\ job = NoJob
  /\ rough \/ ~capturing
  /\ tree = head
  /\ Goes(IF head = remote THEN "glob" ELSE "retry")
  /\ UNCHANGED gitVars
  /\ ByJob

PushRetried ==
  /\ job.pc = "retry"
  /\ remote' = head
  /\ Goes("glob")
  /\ UNCHANGED <<tree, head>>
  /\ ByJob

\* sync_runtime_evidence lists the runtime files once.
Glob ==
  /\ job.pc = "glob"
  /\ job' = [pc |-> "copy", todo |-> {i \in 1..Len(files) : files[i] # "gone"}]
  /\ UNCHANGED gitVars
  /\ ByJob

\* Files are validated and copied in the order of their names; what was copied
\* before one that does not parse stays copied.
Copy ==
  /\ job.pc = "copy" /\ job.todo # {}
  /\ LET i == Min(job.todo)
     IN IF files[i] = "complete"
          THEN /\ tree' = [tree EXCEPT !.pubs = @ \cup {i}]
               /\ job' = [job EXCEPT !.todo = @ \ {i}]
          ELSE Ends /\ UNCHANGED tree
  /\ UNCHANGED <<head, remote>>
  /\ ByJob

Copied ==
  /\ job.pc = "copy" /\ job.todo = {}
  /\ Goes(IF tree.pubs = {} THEN "commit" ELSE "derive")
  /\ UNCHANGED gitVars
  /\ ByJob

History(ids) == [n \in 1..Cardinality(ids) |->
                   published[CHOOSE i \in ids :
                               Cardinality({j \in ids : j < i}) = n - 1]]
Recomputed == Official(History(tree.pubs))

\* With a finalized week, the recomputed official card must be the stored one
\* before summary.json and episodes.json are rewritten.
Derive ==
  LET derived == tree' = [tree EXCEPT !.episodes = tree.pubs] /\ Goes("finalize")
  IN /\ job.pc = "derive"
     /\ CASE tree.official = NoOfficial -> derived
          [] tree.official # NoOfficial /\ (~tree.results \/ KickoffDrift(History(tree.pubs))) ->
               Ends /\ UNCHANGED tree
          [] OTHER -> IF Recomputed = tree.official
                        THEN derived
                        ELSE Goes("conflict") /\ UNCHANGED tree
     /\ UNCHANGED <<head, remote>>
     /\ ByJob

\* AppendOnlyViolation: the job is over, the checkout stays as it is.
Conflict == job.pc = "conflict" /\ Ends /\ UNCHANGED gitVars /\ ByJob

\* finalize_ready_weeks: strictly after the last kickoff, once.
Finalize ==
  /\ job.pc = "finalize"
  /\ CASE clock <= Boundary \/ tree.official # NoOfficial ->
            Goes("commit") /\ UNCHANGED tree
       [] clock > Boundary /\ tree.official = NoOfficial ->
            IF KickoffDrift(History(tree.pubs))
              THEN Ends /\ UNCHANGED tree
              ELSE tree' = [tree EXCEPT !.official = Recomputed] /\ Goes("results")
  /\ UNCHANGED <<head, remote>>
  /\ ByJob

WriteResults ==
  /\ job.pc = "results"
  /\ tree' = [tree EXCEPT !.results = TRUE]
  /\ Goes("commit")
  /\ UNCHANGED <<head, remote>>
  /\ ByJob

Commit ==
  /\ job.pc = "commit"
  /\ head' = tree
  /\ IF tree = head THEN Ends ELSE Goes("push")
  /\ UNCHANGED <<tree, remote>>
  /\ ByJob

Push ==
  /\ job.pc = "push"
  /\ remote' = head
  /\ Ends
  /\ UNCHANGED <<tree, head>>
  /\ ByJob

PushFails == job.pc \in {"retry", "push"} /\ Ends /\ UNCHANGED gitVars /\ ByJob

\* The job is killed; while it copies it may leave part of a file.
Kill ==
  /\ rough /\ job # NoJob
  /\ Ends
  /\ tree' \in {tree, [tree EXCEPT !.torn = @ \/ (job.pc = "copy" /\ job.todo # {})]}
  /\ UNCHANGED <<head, remote>>
  /\ ByJob

JobStep == Glob \/ Copy \/ Copied \/ Derive \/ Conflict \/ Finalize
           \/ WriteResults \/ Commit

Next ==
  \/ Tick
  \/ \E lanes \in [Lane -> Row \cup {NoRow}] : CaptureBegin(lanes)
  \/ CaptureEnd \/ CaptureKilled
  \/ JobStart \/ PushRetried \/ JobStep \/ Push \/ PushFails \/ Kill

Spec == Init /\ [][Next]_vars

\* The timer starts the job again and again, and a push does not fail forever.
FairSpec == Spec /\ WF_vars(JobStart) /\ WF_vars(JobStep) /\ WF_vars(CaptureEnd)
            /\ SF_vars(PushRetried) /\ SF_vars(Push)
----------------------------------------------------------------------------
(***************************************************************************)
(* What is committed was derived from what is committed, however runs of   *)
(* the job were cut short: the episodes cover the publications, and an     *)
(* official card has its results and is the one these publications give.   *)
(***************************************************************************)
CommitsAreWhole ==
  \A e \in {head, remote} :
    /\ ~e.torn
    /\ e.episodes = e.pubs
    /\ e.results = (e.official # NoOfficial)
    /\ e.official # NoOfficial => e.official = Official(History(e.pubs))

(***************************************************************************)
(* A capture that was written reaches the branch, over failing pushes and  *)
(* the runs that stop at them, unless the copied evidence contradicts      *)
(* itself or the official card, which leaves the checkout dirty for good.  *)
(***************************************************************************)
Written(i) == i \in 1..Len(files) /\ files[i] = "complete"
Contradicted == \/ KickoffDrift(History(tree.pubs))
                \/ tree.official # NoOfficial /\ Recomputed # tree.official
EvidenceIsPushed ==
  ~rough => \A i \in Id : Written(i) ~> (i \in remote.pubs \/ Contradicted)

===========================================================================
