----------------------------- MODULE NewsFiles -----------------------------
(***************************************************************************)
(* The daily news.  The pipeline researches and writes an article; an      *)
(* editor's submission reaches the inbox by a courier and the backend and  *)
(* is published by a job of its own.  Both replace the same files, without *)
(* a lock; their timers are fifteen minutes apart.                         *)
(*                                                                         *)
(* Time is in units of twenty minutes.  An article is [published, generated,  *)
(* by, sound]: sound stands for the checks of its sections and evidence.   *)
(***************************************************************************)
EXTENDS Integers, Sequences, FiniteSets

CONSTANTS MaxClock,        \* the last unit of time
          Moods,           \* "apart": the jobs do not overlap; "together": they may
          MaxSubmissions,  \* submissions the editor pushes
          MaxNewsKills

VARIABLES
  mood, clock,
  latest, archive,   \* latest.json, or NoArticle, and archive/: published |-> article
  research,          \* research/latest.json: when it was generated, or -1
  source,            \* the submission on the editorial branch, or NoSubmission
  receipt, inbox,    \* what the courier staged last, and the backend's inbox
  taken,             \* editorial_submissions/archive/
  newsJob,           \* by job: [at, prior, article], what it does and what it read
  pushed, newsKills

newsVars == <<mood, clock, latest, archive, research, source, receipt, inbox, taken, newsJob, pushed, newsKills>>

NoArticle == [published |-> -1]
NoSubmission == [article |-> NoArticle, submitted |-> -1]
Jobs == {"daily", "publisher", "courier"}
Idle == [at |-> "idle", prior |-> NoArticle, article |-> NoArticle]

Window == 1       \* verify_article: 20 minutes between research and publication
Freshness == 2    \* FRESHNESS_LIMIT, 45 minutes

Distance(a, b) == IF a < b THEN b - a ELSE a - b

\* Mutant: the article need not be later than the one it replaces.
VerifiedAlone(a, prior) == a.sound /\ Distance(a.published, a.generated) <= Window

\* verify_article against a packet that names the previous article, or none.
Verified(a, prior) ==
  /\ a.sound
  /\ Distance(a.published, a.generated) <= Window
  /\ a.published > prior.published

\* validate_editorial_submission and _require_fresh: of the courier and of the publisher.
Fresh(s) ==
  /\ Verified(s.article, NoArticle)
  /\ Distance(clock, s.submitted) <= Freshness
  /\ Distance(clock, s.article.generated) <= Freshness

NewsInit ==
  /\ mood \in Moods
  /\ clock = 0
  /\ latest = NoArticle /\ archive = <<>> /\ research = -1
  /\ source = NoSubmission /\ receipt = NoSubmission /\ inbox = NoSubmission
  /\ taken = {}
  /\ newsJob = [j \in Jobs |-> Idle]
  /\ pushed = 0 /\ newsKills = 0

\* A job of the runtime directory starts when its timer fires.
Starts(j) ==
  /\ newsJob[j] = Idle
  /\ (mood = "apart" => newsJob["daily"] = Idle /\ newsJob["publisher"] = Idle)
MoveJob(j, at) == newsJob' = [newsJob EXCEPT ![j].at = at]
Ends(j) == newsJob' = [newsJob EXCEPT ![j] = Idle]
Files == <<latest, archive, research, source, receipt, inbox, taken>>
Around == <<mood, clock, pushed, newsKills>>

-----------------------------------------------------------------------------
\* run_pipeline: latest.json is read, then research and writing take their time; what
\* the writer returns gets the time of the research and is verified.
ReadPrior ==
  /\ Starts("daily")
  /\ newsJob' = [newsJob EXCEPT !["daily"] = [at |-> "write", prior |-> latest,
                                      article |-> [published |-> clock, generated |-> clock, by |-> "daily", sound |-> TRUE]]]
  /\ UNCHANGED <<Files, Around>>
WriteArticle ==
  LET d == newsJob["daily"]
  IN /\ d.at = "write"
     /\ \E published \in {d.article.generated - Window - 1, d.article.generated, clock}, sound \in BOOLEAN :
          LET a == [d.article EXCEPT !.published = published, !.sound = sound]
          IN newsJob' = [newsJob EXCEPT !["daily"] = IF published >= 0 /\ Verified(a, d.prior)
                                             THEN [at |-> "archive", prior |-> d.prior, article |-> a] ELSE Idle]
     /\ UNCHANGED <<Files, Around>>

\* publish_editorial_submission: nothing to do, not fresh, or the article is verified
\* against latest.json as it is now.
TakeInbox ==
  /\ Starts("publisher") /\ inbox # NoSubmission
  /\ ~(inbox \in taken /\ latest = inbox.article)
  /\ Fresh(inbox) /\ Verified(inbox.article, latest)
  /\ newsJob' = [newsJob EXCEPT !["publisher"] = [at |-> "archive", prior |-> latest, article |-> inbox.article]]
  /\ UNCHANGED <<Files, Around>>

\* Both: another article archived under the same time is a conflict, the same one is left.
Archived(j) ==
  LET a == newsJob[j].article
  IN /\ j \in {"daily", "publisher"} /\ newsJob[j].at = "archive"
     /\ IF a.published \in DOMAIN archive
        THEN /\ UNCHANGED archive
             /\ IF archive[a.published] = a THEN MoveJob(j, "record") ELSE Ends(j)
        ELSE /\ archive' = [t \in DOMAIN archive \cup {a.published} |-> IF t = a.published THEN a ELSE archive[t]]
             /\ MoveJob(j, "record")
     /\ UNCHANGED <<latest, research, source, receipt, inbox, taken, Around>>

\* The research that goes with the article, or the submission it came from.
Recorded(j) ==
  /\ newsJob[j].at = "record" /\ MoveJob(j, "publish")
  /\ IF j = "daily" THEN research' = newsJob[j].article.generated /\ UNCHANGED taken
     ELSE taken' = taken \cup {s \in {inbox} : s.article = newsJob[j].article} /\ UNCHANGED research
  /\ UNCHANGED <<latest, archive, source, receipt, inbox, Around>>

\* os.replace of latest.json.
Publishes(j) ==
  /\ newsJob[j].at = "publish" /\ Ends(j)
  /\ latest' = newsJob[j].article
  /\ UNCHANGED <<archive, research, source, receipt, inbox, taken, Around>>

-----------------------------------------------------------------------------
\* The editor pushes a submission to the branch.
PushSubmission ==
  /\ pushed < MaxSubmissions /\ pushed' = pushed + 1
  /\ \E sound \in BOOLEAN :
       source' = [article |-> [published |-> clock, generated |-> clock, by |-> "editor", sound |-> sound],
                  submitted |-> clock]
  /\ UNCHANGED <<mood, clock, latest, archive, research, receipt, inbox, taken, newsJob, newsKills>>

\* run_courier: fetch and validate; nothing if the receipt names what was fetched.
FetchSource ==
  /\ Starts("courier") /\ source # NoSubmission /\ Fresh(source) /\ receipt # source
  /\ newsJob' = [newsJob EXCEPT !["courier"] = [at |-> "stage", prior |-> source, article |-> source.article]]
  /\ UNCHANGED <<Files, Around>>

\* POST /api/v1/news/editorial replaces the inbox; the answer may not arrive.
StageInbox ==
  LET s == newsJob["courier"].prior
  IN /\ newsJob["courier"].at = "stage"
     /\ inbox' = s
     /\ MoveJob("courier", "receipt") \/ Ends("courier")
     /\ UNCHANGED <<latest, archive, research, source, receipt, taken, Around>>
WriteReceipt ==
  /\ newsJob["courier"].at = "receipt" /\ Ends("courier")
  /\ receipt' = newsJob["courier"].prior
  /\ UNCHANGED <<latest, archive, research, source, inbox, taken, Around>>

\* systemd ends a job at its time limit; the files stay as they are.  (Of a job that is
\* ended while another runs nothing more is claimed than of two that run.)
KillJob(j) ==
  /\ newsKills < MaxNewsKills /\ newsKills' = newsKills + 1 /\ mood = "apart"
  /\ newsJob[j] # Idle /\ Ends(j)
  /\ UNCHANGED <<Files, mood, clock, pushed>>

\* Time passes; a job of TimeoutStartSec runs over at most one unit.
TickNews ==
  /\ clock < MaxClock /\ clock' = clock + 1
  /\ \A j \in Jobs : newsJob[j].at # "idle" => newsJob[j].at = "write" /\ newsJob[j].article.generated = clock
  /\ UNCHANGED <<Files, mood, newsJob, pushed, newsKills>>

NewsNext ==
  \/ ReadPrior \/ WriteArticle \/ TakeInbox
  \/ \E j \in {"daily", "publisher"} : Archived(j) \/ Recorded(j) \/ Publishes(j)
  \/ PushSubmission \/ FetchSource \/ StageInbox \/ WriteReceipt
  \/ \E j \in Jobs : KillJob(j)
  \/ TickNews
NewsSpec == NewsInit /\ [][NewsNext]_newsVars

-----------------------------------------------------------------------------
\* What readers of the news rely on: latest.json only becomes a verified article that
\* is in the archive; where the jobs do not overlap it is later than the one before,
\* and the archive keeps under a time what it has.  The courier's receipt names what
\* is in the inbox.
NewsGoesForward ==
  [][ /\ latest' # latest =>
           /\ latest'.sound /\ latest'.published \in DOMAIN archive
           /\ mood = "apart" => latest'.published > latest.published /\ archive[latest'.published] = latest'
      /\ mood = "apart" => \A t \in DOMAIN archive : archive'[t] = archive[t]
      /\ receipt' # receipt => inbox = receipt' ]_newsVars
=============================================================================
