------------------------- MODULE MarketAcquisition -------------------------
(***************************************************************************)
(* The paid acquisition of historical odds (market_data): games that kick  *)
(* off together make one request of a frozen plan; a worker that has the   *)
(* lock classifies every request by the ledger and executes those it says  *)
(* nothing of.  An answer is stored under the request's name, never        *)
(* overwritten, and then entered in the ledger.  The canonical odds are    *)
(* built later from the raw files and the ledger.                          *)
(*                                                                         *)
(* A game is [day, kick, teams]; times are minutes.  An answer is          *)
(* [status, cost, json, stamp, events], stamp 0 when it has none, and an   *)
(* event [teams, commence, books]: by book, the lines it shows.            *)
(***************************************************************************)
EXTENDS Naturals, Sequences, FiniteSets, FiniteSetsExt

CONSTANTS Fixtures,       \* game |-> [day, kick, teams]
          Span, Lead,     \* CLUSTER_MAX_SPAN_MINUTES and ANCHOR_LEAD_MINUTES
          Cost, Cap,      \* credits of a request, and of all
          Answers(_, _),  \* what the provider may answer to (games, target)
          Workers,        \* invocations with --execute
          MaxDeaths

VARIABLES
  plan,       \* the requests of the plan file, in order
  acquirer,   \* the worker that has the lock, or NoWorker
  at,         \* by worker: where it is
  pending,    \* by worker: the places in the plan it found eligible and has not executed
  answer,     \* by worker: the answer it got, or NoAnswer
  raw,        \* raw files: request |-> answer
  entries,    \* the ledger: rows [request, category, digest]
  paid,       \* by request: how often the provider charged for it
  deaths

marketVars == <<plan, acquirer, at, pending, answer, raw, entries, paid, deaths>>

NoWorker == "no worker"
NoAnswer == [status |-> "none"]

-----------------------------------------------------------------------------
\* The plan.

\* build_clusters: the games of a day in the order of their kickoffs, a new group
\* where one kicks off more than Span after the first of its group.
Kicks(d) == {Fixtures[g].kick : g \in {x \in DOMAIN Fixtures : Fixtures[x].day = d}}
GroupStart(d) ==
  LET before(k) == {m \in Kicks(d) : m < k}
      start[k \in Kicks(d)] ==
        IF before(k) = {} THEN k
        ELSE LET s == start[Max(before(k))] IN IF k - s <= Span THEN s ELSE k
  IN start

\* _make_cluster: what a request asks, one hour before the first kickoff.
Request(d, s) ==
  LET games == {g \in DOMAIN Fixtures : Fixtures[g].day = d /\ GroupStart(d)[Fixtures[g].kick] = s}
  IN [day |-> d, games |-> games, earliest |-> s, target |-> s - Lead]

Days == {Fixtures[g].day : g \in DOMAIN Fixtures}
Requests == UNION {{Request(d, GroupStart(d)[k]) : k \in Kicks(d)} : d \in Days}

\* plan_frame: by season and cluster.
PlanBefore(a, b) == a.day < b.day \/ (a.day = b.day /\ a.earliest < b.earliest)
PlanRow(i) == CHOOSE r \in Requests : Cardinality({x \in Requests : PlanBefore(x, r)}) = i - 1
BuildPlan == [i \in 1..Cardinality(Requests) |-> PlanRow(i)]

\* There are games, days and times are numbers, whatever the provider answers, and no worker is none.
ASSUME MarketAssumption ==
  /\ IsFiniteSet(DOMAIN Fixtures) /\ DOMAIN Fixtures # {}
  /\ \A g \in DOMAIN Fixtures : Fixtures[g].day \in Nat /\ Fixtures[g].kick \in Nat
  /\ \A r \in Requests : \A a \in Answers(r.games, r.target) : a.stamp \in Nat
  /\ NoWorker \notin Workers

\* validate_plan_contract: the frozen counts, every game once.
ContractHolds ==
  /\ Len(plan) = Cardinality(Requests)
  /\ \A g \in DOMAIN Fixtures : Cardinality({i \in DOMAIN plan : g \in plan[i].games}) = 1
  /\ Len(plan) * Cost <= Cap

-----------------------------------------------------------------------------
\* The ledger and the files.
Asked == {plan[i] : i \in DOMAIN plan}
Rows(r) == {i \in DOMAIN entries : entries[i].request = r}
Categories(r) == {entries[i].category : i \in Rows(r)}

\* is_request_complete: a verified row whose raw file still has its digest.
Complete(r) ==
  LET verified == {i \in Rows(r) : entries[i].category = "VERIFIED_SUCCESS"}
  IN verified # {} /\ r \in DOMAIN raw /\ raw[r] = entries[Min(verified)].digest

\* classify_request.
Category(r) ==
  IF "PAID_REJECTED" \in Categories(r) THEN "PAID_REJECTED"
  ELSE IF "REQUEST_FAILED" \in Categories(r) THEN "REQUEST_FAILED"
  ELSE IF "VERIFIED_SUCCESS" \in Categories(r)
       THEN IF Complete(r) THEN "VERIFIED_SUCCESS" ELSE "REQUEST_FAILED"
  ELSE "ELIGIBLE"

\* _validate_2xx: the cost, the payload, its timestamp, and that it is from before
\* the first kickoff of the request.
Valid(r, a) == a.cost = Cost /\ a.json /\ a.stamp # 0 /\ a.stamp < r.earliest

Entry(r, category, digest) ==
  entries' = Append(entries, [request |-> r, category |-> category, digest |-> digest])

-----------------------------------------------------------------------------
MarketInit ==
  /\ plan \in {BuildPlan, Tail(BuildPlan)}
  /\ acquirer = NoWorker
  /\ at = [w \in Workers |-> "idle"]
  /\ pending = [w \in Workers |-> {}]
  /\ answer = [w \in Workers |-> NoAnswer]
  /\ raw = <<>> /\ entries = <<>>
  /\ paid = [r \in Requests |-> 0]
  /\ deaths = 0

MoveTo(w, s) == at' = [at EXCEPT ![w] = s]

\* run_live_acquisition and acquisition_lock: the contract first, then the lock, which
\* is not waited for.
Acquire(w) ==
  /\ at[w] = "idle"
  /\ IF ContractHolds /\ acquirer = NoWorker
     THEN acquirer' = w /\ MoveTo(w, "classify")
     ELSE MoveTo(w, "stopped") /\ UNCHANGED acquirer
  /\ UNCHANGED <<plan, pending, answer, raw, entries, paid, deaths>>

\* An exception or the end of run_plan: the lock is given back.
StopRun(w) == MoveTo(w, "stopped") /\ acquirer' = NoWorker

\* Mutant: what failed before is asked again.
ClassifyAllRetries(w) ==
  LET eligible == {i \in DOMAIN plan : Category(plan[i]) # "VERIFIED_SUCCESS"}
  IN /\ at[w] = "classify"
     /\ IF eligible = {} THEN StopRun(w) /\ UNCHANGED pending
        ELSE MoveTo(w, "fetch") /\ pending' = [pending EXCEPT ![w] = eligible] /\ UNCHANGED acquirer
     /\ UNCHANGED <<plan, answer, raw, entries, paid, deaths>>

\* run_plan: a rejected or failed request stops every later worker.
ClassifyAll(w) ==
  LET eligible == {i \in DOMAIN plan : Category(plan[i]) = "ELIGIBLE"}
      stops == \E r \in Asked : Category(r) \in {"PAID_REJECTED", "REQUEST_FAILED"}
  IN /\ at[w] = "classify"
     /\ IF stops \/ Cardinality(eligible) * Cost > Cap \/ eligible = {}
        THEN StopRun(w) /\ UNCHANGED pending
        ELSE MoveTo(w, "fetch") /\ pending' = [pending EXCEPT ![w] = eligible] /\ UNCHANGED acquirer
     /\ UNCHANGED <<plan, answer, raw, entries, paid, deaths>>

\* The request a worker executes: the first in the plan of those it has yet to.
Asking(w) == plan[Min(pending[w])]

\* fetch_single: what is answered with 2xx is charged, whether it arrives or not.
Fetch(w) ==
  /\ at[w] = "fetch"
  /\ LET r == Asking(w)
     IN \E a \in Answers(r.games, r.target) :
          /\ answer' = [answer EXCEPT ![w] = a]
          /\ paid' = [paid EXCEPT ![r] = @ + (IF a.cost > 0 THEN 1 ELSE 0)]
          /\ MoveTo(w, IF a.status = "ok" THEN "store" ELSE "failed")
  /\ UNCHANGED <<plan, acquirer, pending, raw, entries, deaths>>

\* _execute_one: a request without a 2xx answer is entered as failed and stops the run.
EnterFailure(w) ==
  /\ at[w] = "failed"
  /\ Entry(Asking(w), "REQUEST_FAILED", NoAnswer)
  /\ StopRun(w)
  /\ UNCHANGED <<plan, pending, answer, raw, paid, deaths>>

\* write_raw_immutable: a raw file of an earlier attempt stops the run.
Store(w) ==
  LET r == Asking(w)
  IN /\ at[w] = "store"
     /\ IF r \in DOMAIN raw THEN StopRun(w) /\ UNCHANGED raw
        ELSE raw' = [x \in DOMAIN raw \cup {r} |-> IF x = r THEN answer[w] ELSE raw[x]]
             /\ MoveTo(w, "enter") /\ UNCHANGED acquirer
     /\ UNCHANGED <<plan, pending, answer, entries, paid, deaths>>

\* append_ledger_entry; a rejected answer stops the run.
Enter(w) ==
  LET r == Asking(w)
      ok == Valid(r, answer[w])
  IN /\ at[w] = "enter"
     /\ Entry(r, IF ok THEN "VERIFIED_SUCCESS" ELSE "PAID_REJECTED", answer[w])
     /\ pending' = [pending EXCEPT ![w] = @ \ {Min(@)}]
     /\ IF ok /\ pending'[w] # {} THEN MoveTo(w, "fetch") /\ UNCHANGED acquirer ELSE StopRun(w)
     /\ UNCHANGED <<plan, answer, raw, paid, deaths>>

\* The process ends anywhere; the operating system releases the lock.
WorkerDies(w) ==
  /\ deaths < MaxDeaths
  /\ acquirer = w
  /\ StopRun(w)
  /\ deaths' = deaths + 1
  /\ UNCHANGED <<plan, pending, answer, raw, entries, paid>>

Acquires(w) == Acquire(w) \/ ClassifyAll(w) \/ Fetch(w) \/ EnterFailure(w) \/ Store(w) \/ Enter(w)

MarketNext == \E w \in Workers : Acquires(w) \/ WorkerDies(w)
MarketSpec == MarketInit /\ [][MarketNext]_marketVars

-----------------------------------------------------------------------------
\* The canonical odds of the files as they are (build_normalized, build_canonical).

\* build_normalized: a raw file without ledger row, of another digest, or without a
\* timestamp ends it.  Of several rows of a request the last one counts.
Normalizes ==
  \A r \in DOMAIN raw :
    Rows(r) # {} /\ entries[Max(Rows(r))].digest \in {NoAnswer, raw[r]} /\ raw[r].json /\ raw[r].stamp # 0

\* The events of a request's snapshot that are its games, by the two teams.
MatchedEvents(g) ==
  UNION {{e \in raw[r].events : e.teams = Fixtures[g].teams} : r \in {x \in DOMAIN raw : g \in x.games}}

\* The spreads of canonical_book_market of a game: [book, side, line, price].
Observed(g) == UNION {UNION {{[book |-> b, side |-> o.side, line |-> o.line, price |-> o.price] :
                                 o \in e.books[b]} : b \in DOMAIN e.books} : e \in MatchedEvents(g)}

\* _quality_flags: no event, and a book with several lines of a market.
Flags(g) ==
  {f \in {"MATCH_FAILURE", "DUPLICATE_BOOK_MARKET"} :
     IF f = "MATCH_FAILURE" THEN MatchedEvents(g) = {}
     ELSE \E o, p \in Observed(g) : o # p /\ o.book = p.book /\ o.side = p.side}

-----------------------------------------------------------------------------
\* Stored and not entered: where a crash between the two leaves a request.
Stuck(r) == r \in DOMAIN raw /\ \A i \in Rows(r) : entries[i].category = "REQUEST_FAILED"

\* What holds of the money and the files.  A crash after a charge may cost that charge
\* again, and no more than it, unless the answer was stored and not entered: such a
\* request is bought by every later run and never entered.  What is in the ledger is
\* there once and agrees with the raw file; what is verified is from before the
\* kickoff of each game of the request; the runs together spend what the plan allows.
OddsAreKept ==
  /\ \A r \in Requests : paid[r] > 1 + deaths => Stuck(r)
  /\ \A r \in Requests : Cardinality(Rows(r)) <= 1 /\ (deaths = 0 => paid[r] <= 1)
  /\ \A i \in DOMAIN entries :
       LET r == entries[i].request
       IN /\ entries[i].category # "REQUEST_FAILED" => r \in DOMAIN raw /\ raw[r] = entries[i].digest
          /\ entries[i].category = "VERIFIED_SUCCESS" => \A g \in r.games : raw[r].stamp < Fixtures[g].kick
  /\ (\E r \in Asked : Stuck(r)) => \/ deaths > 0 \/ acquirer # NoWorker
=============================================================================
