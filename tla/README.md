# nfl-edge in TLA+

A formal model of nfl-edge: the money of an account, the publication of the
weekly product and what reads it, how that product is made from football models
and a betting board, the jobs that collect its inputs, and the backtests and the
sealed season the models come from. Every definition is translated from the
Python and shell sources (package `src/nfl_edge`, `scripts/`, `deploy/`);
`PROJECT.json` gives the lines of each, and the hazards the properties are for.

- [The system](#the-system)
- [Modules](#modules)
- [How state and actions correspond to the code](#how-state-and-actions-correspond-to-the-code)
- [Runs](#runs)
- [Where the code and what is said of it disagree](#where-the-code-and-what-is-said-of-it-disagree)
- [Proofs](#proofs)
- [What is not modelled](#what-is-not-modelled)
- [What could come next](#what-could-come-next)

To check a run: `tlc -workers 2 -config X.cfg M`, with the module of each run from
the table below. To check the proofs: `tlapm` on each `...Proofs.tla`.

## The system

nfl-edge scores NFL games, compares its probabilities with betting markets,
and publishes a weekly card of recommendations that a small backend serves.
Everything runs on one machine: systemd timers start short jobs that talk to
each other through files, and one backend process serves requests on a pool of
threads. A job is killed when it exceeds its time limit and is not restarted
(`Restart=no`); the backend is (`Restart=on-failure`).

| Component | State | Operations | Talks to |
|---|---|---|---|
| Account database (`backend/db.py`) | `profiles`, `wagers`, `bankroll_ledger` | `update_profile`, `create_wager`, `patch_wager`, `bankroll_summary` | called by the endpoints, one SQLite transaction per write |
| Account endpoints (`backend/_base_app.py`, `app.py`) | what a handler read before its transaction | `POST`/`PATCH /wagers`, `PUT /profile`, `POST /evaluate-offer` | database, product store; browsers retry |
| Product publication (`publication/`, `backend/publication.py`) | immutable snapshots, `latest.json`, status; the backend's cached snapshot | `promote_validated_snapshot`, `publish`, `refresh_if_changed` | written by refreshes, read by the backend |
| Production refresh (`operations/`, `live/product_state_2026.py`) | run directories, a lock | `run_refresh`: gates, selector state, one paid acquisition, publication, capture, status | weekly inputs, earlier run directories, publication, capture |
| Market matching and live product (`live/markets_2026.py`, `product_2026.py`, `value/`, `recommendation/`) | the board, the trust of the value lane | acquire, match, shop, evaluate, select, stake, headline; the backend's exact-offer engine | football predictions, the provider |
| Football inputs (`live/scorer_2026.py`, `sleeper_qb.py`, `state_2026.py`, …) | model states, a snapshot of the week | replay, advance, resolve quarterbacks, score | the quarterback audit, settled evidence |
| Weekly inputs (`live/evidence_2026.py`, schedules) | schedules, settled files, manifest, a lock | materialize, resolve, load, advance | its own timer job, read by the refresh |
| Prospective evidence (`prospective/`) | captures, an isolated git checkout, its remote branch | capture, copy, derive, finalize, commit, push | captures come from refreshes |
| Sleeper quarterback audit (`source_audits/sleeper_qb_v1/`) | owner file, lock, tables, run history, views | lock, fetch, normalize, append, commit | read by the scorer |
| News and editorial (`news/`, `backend/news_editorial.py`, scripts) | `latest.json`, archive, research, inbox, receipt | write, stage, fetch, publish | two writers of the same files |
| Historical acquisition (`market_data/`) and market edge (`market_edge/`) | plan, raw answers, ledger, canonical odds, bets | plan, run, resume, build, score | a paid provider |
| Holdout (`holdout/`) | spend marker, cards, ledger | predict, freeze, reveal, learn, commit | every model, one season, once |
| Backtests, features, models (`backtest/`, `features/`, `models/`, `evaluation/`, scripts) | ledgers, ratings, fits | walk a season block by block | each other's ledgers |

Times (UTC): audit 00:00 and 12:00, weekly inputs 00:01 and 12:01, refresh
00:05 and 12:05, persistence 00:20 and 12:20. Jobs started by hand may meet
the timers'; only locks keep them apart.

What is hard, and what makes each component right:

- **Account.** Requests of one user interleave between what a handler reads
  and the transaction it ends with; results are corrected again and again.
  Right means that each tracked wager stands in the balance at what it is worth
  now, that the ledger is a statement of account, and that a dialog submitted
  twice is one wager.
- **Publication.** Any file operation may raise; a process dies between two of
  them; power is lost before an fsync. Right means that `latest.json` is always a
  validated product whose immutable copy exists, and that a reader neither goes
  back nor gets stuck.
- **Refresh.** What earlier runs left on disk decides what later ones can do.
  Right means that the board replayed for a settled week was really served
  before each kickoff and never changes.
- **Live product.** A price passes through matching, freshness, shopping,
  calibration, thresholds, three selectors and staking, each in code of its own,
  and the backend evaluates offers with different code again. Right means that
  what is presented is on the board, that the two evaluators agree, and that a
  price a reader is told to wait for is worth what the waiting promises.
- **Football inputs.** Audits, overrides, roofs and results move between two
  scorings of a week. Right means that predictions are warranted by their
  inputs and that their identity covers what they rest on.
- **Weekly inputs.** A job of ten files is cut short after any of them. Right
  means that what loads is one set, and that the past of the season is fixed.
- **Prospective evidence.** A job copies, derives, commits and pushes, and dies
  anywhere. Right means that commits are whole, that an official card is never
  another one, and that nothing stays behind.
- **Collectors.** The audit appends ten tables without a transaction, the paid
  acquisition may die between an answer and its row, two jobs replace the news
  without a lock. Right means that the rows that commit are true, that odds are
  kept under the request that bought them, and that news go forward.
- **Holdout and backtests.** Everything is about time: a prediction may rest
  on the past only, all of it, once, in order; the sealed season is opened once.

## Modules

| Module | Models | Builds on |
|---|---|---|
| `WagerAccounting` | what a wager is worth | |
| `Bankroll` | abstract: a balance in which every counted wager stands at its worth | `WagerAccounting` |
| `BankrollLedger` | the transactions of `db.py` over profile, wagers and ledger | implements `Bankroll` |
| `WagerApi` | the endpoints: read, then commit | `BankrollLedger` |
| `LatestFile` | abstract: what readers of `latest.json` are promised | |
| `Publication` | publishing, one action per file operation, on a disk that can lose power | implements `LatestFile` |
| `ProductStore` | the backend's cache of `latest.json` | reads a `LatestFile` |
| `ProductionRefresh` | runs over a season and the selector boards they replay | |
| `ProspectiveCard` | episodes, official states, portfolio, as operators on a history | |
| `CardHistory` | every history of a week, and what the operators must satisfy | `ProspectiveCard` |
| `ProspectiveEvidence` | capture, the persistence job, git, the remote | `ProspectiveCard` |
| `Prices` | American odds, expected value, reliability, units, thresholds, shopping | |
| `MarketBoard` | matching, market index, calibrated evaluators, board rows, roof scenarios | `Prices` |
| `Selectors` | the three lanes, the trust of the value lane, headlines and their stakes | `MarketBoard` |
| `LiveProduct` | a board bought, built, served and settled; the backend's exact offer | `Selectors` |
| `FootballInputs` | what a week is scored with: depth chart to starter (selection, identity, freshness, overrides), and what four models have learned | |
| `WeekScoring` | the scoring of the active week, again and again | `FootballInputs` |
| `WeeklyInputs` | materializations, file by file, and the refresh's reads | |
| `AuditLock` | owner file and flock of the audit, call by call | |
| `SleeperAudit` | an audit from its references to its views | `AuditLock` |
| `MarketAcquisition` | plan, budget, answers, ledger and canonical input | |
| `MarketEdge` | canonical odds and the ledger of bets | `MarketAcquisition` |
| `NewsFiles` | the daily run, the courier, the inbox and the publisher | |
| `Holdout` | the sealed season in three modes | |
| `EloWalkForward` | blocks, cutoffs, eligibility; Elo and its two ledgers | |
| `PregameFeatures` | windows, starters and quarterback records | `EloWalkForward` |
| `ChallengerWalkForward` | expected margin, its runner, boosted trees | `PregameFeatures` |
| `TotalsWalkForward` | totals accumulators, training, bake-off | `ChallengerWalkForward` |
| `DevelopmentReports` | scorecard, calibration, regression audit | `TotalsWalkForward` |
| `EvaluatorReplay` | the evaluator over DEV and holdout, the live season's entering state | `DevelopmentReports` |
| `PlayObservations` | play-by-play to one game's totals observations | |
| `NumberLemmas` | least and greatest elements of sets of numbers, places in order, folds and sums over finite sets and their images | |
| `AccountProofs` | theorems | `WagerApi`, `BankrollLedger`, `NumberLemmas` |
| `PublicationProofs` | theorems | `Publication` |
| `ProductReadersProofs` | theorems | `ProductStore`, `ProspectiveEvidence`, `CardHistory`, `NumberLemmas` |
| `ProductionRefreshProofs` | theorems | `ProductionRefresh` |
| `CollectorsProofs` | theorems | `SleeperAudit`, `NewsFiles`, `WeeklyInputs`, `MarketEdge`, `NumberLemmas` |
| `ResearchProofs` | theorems | `Holdout`, `PlayObservations`, `EvaluatorReplay`, `NumberLemmas` |
| `WeekProofs` | theorems | `WeekScoring`, `LiveProduct`, `NumberLemmas` |
| `MC...` | values of the constants for TLC, compositions, inputs | |

**Composition.** `Publication` and `ProductStore` are joined by `LatestFile`: the
one is checked to implement it and the other to rely on nothing else.
`WagerApi` works on `BankrollLedger`, `MarketEdge` on what `MarketAcquisition`
left, `WeekScoring` on quarterbacks and football states, and the backtests form a
chain in which each reads the ledgers of those before it. `MCProductReaders`,
`MCCollectors` and `MCLiveProduct` put components side by side that share no
variable. There a behaviour chooses in its initial state which of them moves
(`subject`): as none reads what another writes, an interleaving of two would
visit no new state of either, and the product of their states would be all that
is gained. The properties are each component's own: the three EXTEND their components,
so that the runs check the very definitions, and TLC the assumptions, that the proofs
use. Where components do share state they are in one module and interleave: runs of the audit, publishers,
refreshes, requests, news jobs, executors of the holdout, workers that buy odds.

Definitions named in a `\* Mutant:` comment are deliberately wrong variants of
the definition that follows them: putting one in its place must break the
property it is kept for, which shows that the property says something about
the code.

## How state and actions correspond to the code

**Account.** `CreateWager`, `PatchWager` and `UpdateProfile` are the three
transactions; each runs under `BEGIN IMMEDIATE` and rolls back whole, so it is
one step, and one that raises is no step. `posted[w]` is the sum the code
computes by a query. `WagerApi` splits each handler where the code leaves the
database alone. A `POST /wagers` that was sent (`StartPost`) is checked for a
duplicate headline on one reading of the store (`CheckDuplicate`, `app.py`), for its
version, for a headline that is a BET or an offer that can be evaluated on the next
(`ReadProduct`, `_base_app.py`), and then commits (`CommitPost`); `StartPut` reads the
profile and `CommitPut` commits. A form is what a dialog submits: a lane or an exact
offer, a stake, a result, and the version it was opened on. `since` is a history
variable, the product that was served when a wager's request came in.

**Publication.** `pub[p].pc` is the next file operation of publisher `p`.
`entries`, `synced` and `statuses` are what the last fsync of the directory made
durable; `PowerLoss` goes back to it. `log` is the history of `latest.json`; its
last element is the file.

**Refresh.** A run directory keeps the week, the market's capture time and
whether the proof and the run status are there, which is all
`_final_pregame_selector_rows` looks at.

**Live product.** Probabilities and break-evens are whole ten-thousandths, lines
are doubled, and the fitted calibrations are the constant `Fit`. Floating-point
ties that fall on a boundary are therefore decided as the exact fraction would.
`MarketSnapshotIndex` and what it calls go from a provider's event to the anchors and
shopped offers; `EvaluateCandidates` makes the rows, `Select...` the lanes,
`Headlines` what is presented. `AcquireLiveResponse`, `BuildProduct` and
`SettleWeek` are the steps of a refresh that change anything: `served` is the
product, `pregame` the rows a settled week is replayed from, `trust` the state of
the value lane. `Evaluate` is the backend's own engine.

**Football inputs.** A chart is a set of depth-chart rows with what the audit
found of each player. A fitted model is the rows it was fitted to, and a state is
the sequence of weeks it learned; identical inputs are equal records.
`Audit`, overrides, roofs, `posted`, `revision` and `evidence` move between
`Score` steps; `kept` and `again` are two snapshots of the execution, so that any
two scorings are compared without keeping all.

**Weekly inputs.** A file is named by the materialization that wrote it, because
`observed_at_utc` makes two of them differ even with equal games. `job.todo` is the
list of files still to be replaced, in the code's order.

**Evidence.** `tree`, `head` and `remote` are the same record for the checkout, its
last commit and the remote branch. A publication's identity is its place in the
order of capture.

**Audit.** `step[r]` is the place of invocation `r` in `collect_sleeper_qbs.main` and
the pipeline: each append is a step, and so are the calls of the lock. A snapshot
is named by its invocation; the crosswalk, the evidence states, the changes and
the metrics are operators on a payload and the one before it. A kill may happen
between any two steps, and a call may fail.

**Acquisition.** `raw` holds the answers under the request that bought them,
`entries` the ledger, `paid` what the provider charged, which no file of the code
knows. **Market edge** takes both as they are when it is run.

**News.** A job is what it read and where it is: the daily run reads `latest.json`
first and writes archive, research and latest at its end; the publisher takes
the inbox in its window. Mood *apart* keeps the two jobs from overlapping, as their
timers do; *together* does not.

**Holdout.** `holdoutStep[r]` walks prepare, claim, open, and per block predict,
price, freeze, reveal, advance, commit; `replay[r]` is the memory of a run (what
each model learned, bankrolls, ledger rows), `cards` and `files` what is on disk.
The three modes differ in what they claim before they open the season.

**Backtests.** One schedule of games in blocks; a rating, a feature or a fit is
carried together with the set of games it rests on (`basis`, `sources`, `fit`),
which is what the properties speak of. Elo is in integers: a rating is a distance
from the initial one in units that make carryover exact, an expected score a
number of quarters. Whether a solver converges is a choice.

## Runs

All numbers are with the bounds of the `.cfg`. Deadlock is checked except
where a week, a season or a job of the model ends.

| Run (module) | Checks | Bounds and why they are enough |
|---|---|---|
| `BankrollLedger` (`MCBankrollLedger`) | rows add up to what each wager is worth; the summary adds up; the ledger is a statement; refinement of `Bankroll` | two wagers, one stake, odds of both signs, four ledger rows; half-up rounding is hit at 1.5 and 4.5 cents; a bankroll of 4 with stakes of 3 makes one of two wagers unaffordable; initial accounts older than the ledger in every state |
| `WagerApi` (`MCWagerApi`) | one wager per key; resending is harmless | two requests in flight, two keys, two wagers, five forms (each of three lanes, an exact offer, one of the next week; open or won, all with the one stake; wagers without are made in `BankrollLedger`), three products: the second moves the bet of a lane to another price, makes the next lane its duplicate, and neither bets on the third nor evaluates its offer; the third is of the next week. More requests add no new pair of read and commit |
| `Publication` | the immutable copy; the status; refinement of `LatestFile` | two publishers, two valid products and a rejected one; collisions on one candidate, every error, crash and loss of power |
| `ProductReaders` (`MCProductReaders`) | store: stale only visibly, never back, served in the end; evidence: commits whole, pushed in the end | four products, so that two publications can overtake both attempts of a reload, one restart, `flaky` chooses once whether reading can fail; two publications over five hours around two kickoffs, one of them moved, `rough` chooses once whether processes may be killed and overlap |
| `ProductionRefresh` (`MCProductionRefresh`) | boards final and served; what is served goes forward | two weeks, two games with different kickoffs, four runs, two invocations |
| `LiveProduct` (`MCLiveProduct`) | headlines rest on the board, evaluators agree, boundaries pay; same inputs give the same prediction, which is warranted; episodes, portfolio, freeze at kickoff | product: three games, of which one has a roof to be reported and one no expected margin, three books, 34 feeds (both sides of even money, a stale book, a split sharp line, an event matched twice) and four histories of trust; scoring: two weeks, the first ending on a Tuesday, seven ticks and two edits, seven charts of one team; cards: two lanes, two games of which one may be moved by an hour, two prices, three publications |
| `Collectors` (`MCCollectors`) | the audit's lock and history, odds and bets, inputs whole and as pinned, the season spent once, cards know the past, news go forward | lock: three runs of which one gives up, deaths anywhere, owner files left behind; audit: two invocations around the kickoff, four payloads, one trouble; odds: three games in two requests, a budget for both, six kinds of answer, three workers, two deaths; news: an hour, two submissions, one kill; inputs: three weeks, four materializations, each cut short anywhere; holdout: three games in two blocks, two runs in the three modes, seven flaws of the inputs, one crash |
| `Research` (`MCResearch`) | backtests look back, ledgers replay, totals train on what is over, universes agree, observations balance, the entering state continues the walk | two seasons of four teams and a sealed week: ties, unplayed games, postponements to the Tuesday, a team twice in a block, thirty kinds of evidence of one starter, pushes and missing offers; every sequence of four plays from eight templates |
| `WagerApiPut`, `ProductionRefreshMissed`, `SleeperLostRow`, `HoldoutStops` | one property each, which the code does not have | see below |

Some bounds are named in guards: `MaxRows`, `MaxRuns`, `MaxPublications`,
`MaxTroubles`, `MaxCrashes`, `MaxDeaths`, `MaxNewsKills`, `MaxSubmissions`, `MaxEdits`,
`MaxRestarts`, `MaxTime` and `LastTick` cap how often something happens or how far
time goes; nothing else is cut. A run that gives up at a held lock of the audit
contends for the lock only where `Collectors` is about the lock (`Patient` leaves out
`r3`, which stays idle while audits are about their history), since what it may do to
the history is the subject of `SleeperLostRow`.

**Fairness.** Only `ProductReaders` assumes any. For the store: a load that has
begun goes on, and requests keep coming while the file differs from the one
observed (`WF`): a handler runs to its end, and a frontend polls. For the
evidence: the timer starts the job again (`WF`: it is persistent), a job that
runs goes on (`WF`), a capture ends (`WF`), and a push that is tried again and
again succeeds at some time (`SF`): nothing can be promised when git fails for
ever. Each condition is on the part that moves, so that it asks nothing of the
other. Progress is only claimed when reads work and no process is killed,
because a file that a crash leaves half written does stop the code.

**Abstractions to know of.** Names stand for contents: two files are equal when
they have one writer. A product's validation is membership of `Valid`. A fit is
what it was fitted to: that the same rows give the same fit is assumed, what it
predicts is not. Time counts the moments that matter.

## Where the code and what is said of it disagree

Four runs expect a violation, and TLC's counterexample is a run of the code:

1. `UnstatedBankrollIsKept`: a `PUT /profile` with only a risk profile writes back
   the bankroll it read before its transaction, and undoes a wager logged in
   between.
2. `NextCycleIsAnOpportunity`: after one game without a successful run before its
   kickoff, no refresh of a later week gets past the selector state.
3. `OneRowPerRun`: an audit that is locked out appends its row to the run history
   without the lock, by reading and replacing the file; the row that commits the
   other audit can be lost.
4. `ReadyForExecution`: after the first block the one-shot executor appends board
   rows of another shape than the append reads, and raises with the season spent.

Each is quoted with its lines in `PROJECT.json`. Seen while modelling, and told
here because no run states them:

- *Publication.* The directory fsync after `os.replace` is in the same `try`
  (`live_product_v1.py:68`); when it raises, the promotion "failed" and
  `latest.json` is replaced (docstring, 32).
- *Evidence.* After finalization a late publication that adds a lane state but no
  wager is an append-only violation (`persistence_v1.py:213`), though
  `docs/prospective_card_persistence_v1.md:28` says late ones may extend history.
- *Acquisition.* `runner.py:277` says a paid response is never purchased again; one
  stored before a crash and not entered is bought by every later run (376) —
  `OddsAreKept` counts it. `AcquisitionLock` closes its descriptor twice, so that a stop
  surfaces as `EBADF`. Rejected snapshots of a live game still reach the
  canonical odds.
- *Totals.* By `docs/totals_feature_contract_v1.md:28` a game is a source once its week
  is eligible; the accumulators of `feature_table.py` take every earlier block, and
  only the provenance (621) asks for eligibility.
- *News.* The daily pipeline is called the only writer of files the editorial
  publisher replaces too; `NewsGoesForward` claims the order only where they do
  not overlap.
- *Scoring.* A week that ends on a Tuesday is learned by the states before its
  statistics may enter the features, so that one identity of inputs can precede
  two predictions; `SameInputsSamePrediction` excepts exactly that, and where
  freshness alone changed. In the week the clock leaves daylight saving an hour
  belongs to no week, and the refresh in it ends not ready. Only the refresh
  requires a fresh audit; the scoring command does not.
- *Live product.* The request's window spans a week and games that have started
  are not filtered from the index, only labelled. Freshness is that of the moment
  of building. A price of `VALUE_AT` is evaluated to no units by the backend though
  the headline promises half a unit. The limit of a point and a half
  (`headline_staking_v1.py:194`) never refuses one: from one price to the next the
  break-even moves by a quarter of a point at most.
- *Entering state.* Confidence of the live season is fitted on fewer seasons than
  the report it is named after; `EnteringContinues` states what is the same.
- *Audit.* A process that dies between creating the owner file and writing it
  leaves a file no later run clears.
- *Account.* The product version names the week, so a wager may be logged at a
  price newer than the card it was opened on. The idempotency key is looked up after
  the board was read: a dialog submitted again is refused, with no word of its
  wager, once the same week's board no longer bets on its lane (`_base_app.py:489`,
  `app.py:324`); `ResendIsHarmless` says when it may be. The check for duplicates
  reads the store before the handler reads it again, so a board published between
  the two can let a duplicate through. `POST /evaluate-offer` takes
  several snapshots of the store; `bankroll_summary` reads in several statements;
  credits may take the bankroll past the bound its own `PUT` accepts.

## Proofs

Eight modules hold theorems; each inductive invariant held on the run's instance
under TLC before it was proved.

### The account

`AccountProofs` proves, for every set of wagers, stakes, prices,
balances and bounds that satisfies `LedgerAssumption` and `NoStakeAssumption`:

| Theorem | States |
|---|---|
| `TypeCorrect` | `Spec => []TypeOK` |
| `PostingsCorrect` | `Spec => []PostedIsTarget` |
| `StatementCorrect` | `Spec => []LedgerIsAStatement` |
| `LedgerImplementsBankroll` | `Spec => ImplementsBankroll` |
| `SummaryCorrect` | `Spec => []SummaryBalances` |

The assumptions are that stakes and stated balances are natural numbers of cents
and that no price is zero, which the API enforces before it calls the database.

The argument: `PostedIsTarget` is not inductive by itself, as it speaks of tracked
wagers only, and adopting an untracked one posts its target minus what was posted
before. `IInv` adds that an untracked wager has nothing posted
(`UntrackedIsFree`) and the types. With them each transaction is one use of a
lemma about `ApplyDelta`: it adds `delta` to the balance, to the sum of one wager,
and, if it appends a row, a row that starts where the last one ended. When no
row is appended `delta` is zero or the wager is not tracked yet. Refinement: a
creation or a patch is `Move(w)` with the wager counted from then on exactly
when it has a row; `UpdateProfile` is `Declare`; a patch without a posting is a
move that changes no worth.

`SummaryBalances` is about sums over the ledger, and the model keeps a sum per wager
(`posted`). `SumInv` says that this is the sum of the wager's rows and that the
bankroll is the opening one plus all rows; a row more adds its amount to the sums
that count its wager and to no other (`RowAdded`). The property follows
(`SummaryFollows`) by sorting the rows: those of settled wagers are the realized
P/L, those of an open wager add up to minus its stake, since they add up to what it is
worth (`PostedIsTarget`), and those of an open wager without stake to nothing. That rows can be summed wager by wager (`RowsGrouped`) is
by a least set of wagers for which they cannot. What `SumFunctionOnSet` returns is
proved once, in `NumberLemmas`: the function it is defined by exists
(`SumsExist`, by a least subset), so that a sum is zero on no element and the rest
plus one element otherwise (`SumIs`, `SumRemoves`).

And, for any requests in flight, wagers, keys and products
(`ApiAssumption`: each product has a version, and each of its lanes an offer with a
price or the marker for none; the marker for "no key" is not a key):

| Theorem | States |
|---|---|
| `KeysNameOneWager` | `ApiSpec => []OneWagerPerKey` |
| `ResendsDoNoHarm` | `ApiSpec => ResendIsHarmless` |

The argument: what makes a key unique is that its lookup and the insert are one
transaction, so that `CommitCreate` finds nobody with the key at the moment it gives
it; nothing read before the transaction counts. `KeyInv` adds that a `POST` in
flight holds a key of a dialog and not the "no key" of the wagers that are still
free (`KeysInFlight`). With one holder the replay is of the wager that the dialog
created, and a replay writes nothing. For the refusals `SinceInv` follows what was
read from the request into the wager: a wager whose request came in under the
product that is served now holds a form both readings of it accept
(`StoredIsServed`), so whatever refuses that form was published since. Every other
step answers no `POST`, which `Harmless(r)` says of each request and step.

### Publication

`PublicationProofs` proves, for every set of publishers and products in which the
valid ones are products (`PublicationAssumption`):

| Theorem | States |
|---|---|
| `PublicationTypeOK` | `Spec => []TypeOK` |
| `LatestAlwaysHasItsImmutable` | `Spec => []LatestHasItsImmutable` |
| `StatusAlwaysNamesPublished` | `Spec => []StatusNamesPublished` |
| `PublicationImplementsLatestFile` | `Spec => ImplementsLatestFile` |

The argument is about ownership: between `Create`, which `O_EXCL` grants to one
publisher, and `Replace`, that publisher is the owner of its candidate. No two
owners have the same candidate (`OneOwner`), an owner's candidate was never
latest, and its file is partial at `write`, complete from `sync` on and durable at
`replace` (`Relies`). Hence an owner that unlinks its file after an error takes
nothing from what was promoted, and a promotion is of a product never promoted
before. The status is sound since what a publisher read before, and what it
writes, is a version in the synced part of the log, which only grows. Each action
is one use of a lemma for the kind of change it makes: of the publisher alone
(`Moves`), of one immutable file (`FileChanges`), of what is durable
(`Persists`); the promotion and the loss of power are proved by themselves.

### The refreshes

`ProductionRefreshProofs` proves, for any games, weeks, kickoffs, invocations and
number of runs (`SeasonAssumption`: times are natural numbers, a week has at least
one moment, and the markers for "no time" and "no invocation" are none):

| Theorem | States |
|---|---|
| `ServedOnlyForward` | `Spec => []ServedGoesForward` |
| `FinalBoards` | `Spec => []BoardsAreFinal` |
| `ServedBoards` | `Spec => []BoardsWereServed` |

The argument for the first is that of a log that only its last entry may change.
The lock leaves one run under way, and its directory is the last (`Alone`); so a
week or a market written now is no older than any written before (`DirsForward`), a
run that may publish has its market, and what it promotes is the last directory
(`LogOK`). A run that fails or dies leaves its directory as it is, with or without a
market, and the next one makes another. `DirsOK` bounds weeks and markets by the
clock, which `WeekGrows` carries over a change of week.

Neither property of the boards is inductive: a board names a run, and says nothing
of what may still become of that run or of a later one. `HistoryInv` adds to the
above what the files of a directory mean. `Fates` is what a directory that has ended
says of itself: SUCCESS was published, UNPUBLISHED was not, and evidence and proof
are of published runs. `LastFate` is the same of the run under way, stage by
stage, from the moment it knows. `BoardsOK` is that every board is of weeks before
its directory's own and each of its runs the last of `PregameRuns`. The crux is that
`PregameRuns(g)` no longer changes once a later week has begun: of an ended
directory nothing is written any more, and a new run captures its market after the
kickoff of every game of a week before its own. So two boards of one week choose
the last of one set of runs, and are equal; that there is a last is `NumberLemmas`.

### What reads a product

`ProductReadersProofs` proves of the backend's store, for every set of products
(`ProductAssumption`: the marker for "no product" is none):

| Theorem | States |
|---|---|
| `StaleOnlyVisibly` | `StoreSpec => []StaleIsFlagged` |
| `ServedForward` | `StoreSpec => ServesForward` |

Publications come between any two of the reads by which a load identifies the
file, reads it and identifies it again. `Forward` orders what a load holds:
the snapshot it would replace was promoted no later than the file identified
first, that no later than the payload. `LogInv` says that no product is promoted
twice, which is what `LatestFile` promises and `PublicationImplementsLatestFile`
proves of the publishers: a product has one place in the log, so that a payload
equal to both identities is later than the snapshot or the same. A loss of power
takes an unsynced tail from the log, but also the process and its snapshot.
`Flagged` is the property without its premises: a snapshot is of the file last looked
at, or a failure is recorded.

And of the evidence branch, for every set of rows, lanes and bounds
(`EvidenceAssumption`: times and bounds are natural numbers, no game of a week
starts after its boundary, and an official state is not the marker for none):

| Theorem | States |
|---|---|
| `WholeCommits` | `Spec => []CommitsAreWhole` |

`EvidenceInv` says of each stage of the job what the checkout is by then: the
last commit at `retry` and `glob`, that and some copied publications before the
derivation (`Ahead`), whole but for the results between finalization and results
(`Unreported`), and whole where it is committed (`Whole`). A commit takes the
checkout as it is, so everything rests on what a job that was killed or that
stopped at a contradiction left there: while the checkout differs from the last
commit no other job begins. `Whole` speaks of the history of a set of
publications as a function of `published`, which only grows; `HistoryStays` shows
that publications captured later do not change it.

And of what is derived from a week of cards, for every set of rows and lanes, any
span and any number of publications (`CardAssumption`: lanes have ranks of their own,
kickoffs are natural numbers, the marker for "no row" is no row; `HistoryAssumption`:
hours of a week are natural numbers):

| Theorem | States |
|---|---|
| `EpisodesTold` | `HistorySpec => []EpisodesAreRuns` |
| `OfficialFrozen` | `HistorySpec => KickoffFreezes` |
| `PortfolioMerges` | `HistorySpec => []PortfolioAgreesWithCards` |

The invariant of all three is `Numbered`: a publication is identified by its place. For
the freeze, a publication leaves the first place that shows a game, and so its kickoff
(`KickoffStays`), and the places before that kickoff when it comes no earlier
(`EligibleStays`), so that the resolution is computed of the same places
(`ResolutionStays`); a wager that is new is of a place that was eligible
(`LateIsNoWager`). For the portfolio, two wagers with one exact offer are of one game
in two lanes. When the game was not moved the lanes have one kickoff (`OneKickoff`)
and one last card before it, and the first of the lanes that card shows with the offer
leads the entry (`DuplicatesAreMerged`). The premise `GamesStay` is needed: when one
lane first showed the game with another kickoff than the other lane, their last cards
differ, and offers may be merged that no card has marked. For the episodes, `Told(k)`
says what the pass of `derive_episodes` holds after `k` publications: the closed
stretches are the whole ones that end before `k`, the open one is the stretch that
lasts to `k` from its one beginning (`OneBeginning`), and what was seen is what was
shown. A gap closes (`ToldGap`), the same recommendation goes on (`ToldMore`) and
another replaces (`ToldNew`); a least `k` at which `Told` fails would be one of these.

### The scoring of a week

`WeekProofs` proves, for any season, span of a week, blocks of the season before,
charts, overrides and roof files, and any number of audits, edits and corrections:

| Theorem | States |
|---|---|
| `SameInputs` | `WeekSpec => []SameInputsSamePrediction` |
| `ScoredWarranted` | `WeekSpec => []ScoredIsWarranted` |

The assumptions are that games are numbers, finitely many, each of a week and of two
teams, that a week is longer than the tick its Tuesday game takes, that the season
before is other games, each of one block (`FootballAssumption`); that every tick is of a
week, charts are finite with depths from 1 on, files state one of the three things there
are to state of a roof, and whoever is at depth 1 was classified as such
(`WeekAssumption`). The last is what `classify` of `evidence_states.py` does with a
player at depth 1. It is needed: of two players at depth 1, one healthy and one in
none of these states, `_choose_candidate` takes the healthy one, as only the viable
are counted.

The invariant is about how a snapshot was made and not about what it promises: `WeekInv`
says that a kept snapshot is `SnapOf` the inputs it records, with a pointer no younger than
itself and evidence that was up to date, and that the second one is of the same week and
no earlier. What a snapshot promises is then a matter of operators.

For one identity (`OneIdentity`), the provenance of a resolution names the quarterback,
an override through the provenance it replaced too (`ResolveTells`), and the team it is
about, so that equal *sets* of two provenances are equal home and away; a version names
blocks and evidence, hence the state (`SameState`, with the first week apart, whose
version leaves the evidence out and whose state takes nothing from it); a roof that is
equal is a category that is equal; and the weeks looked back on are the same unless the
statistics of a late week entered meanwhile (`SameRoll`), which the property excepts.

For the warrant, `ChooseIs` takes `_choose_candidate` apart and `ChosenStands` says that who
is chosen stands by himself; `SideWarranted` and `SideFresh` carry this through identity,
warning, freshness and override to the starter of a side. What was learned is by
the blocks: a component that holds a set of games, once and in the order of their
weeks (`Holds`), and learns a block that follows, holds both (`HoldsMore`,
`LearnBlockIs`). The season before and the settled weeks are folds of such steps
(`Bootstrapped`, `EnteringLearned`), each shown by a least prefix for which it fails; that
`InOrder` lists every game of a block once is `InOrderIs`, by counting those before it.

### The live product

`WeekProofs` proves of the board too, for any schedule, responses and their order,
fits, histories of trust, pauses and times:

| Theorem | States |
|---|---|
| `LiveInvariant` | `LiveSpec => []LiveInv` |
| `BackendAgrees` | `LiveSpec => []EvaluatorsAgree` |
| `BoundariesHold` | `LiveSpec => []BoundariesPay` |
| `HeadlinesRest` | `LiveSpec => []HeadlinesRestOnTheBoard` |

The assumptions are that a schedule is finite, its games are told apart by id and no
team is called as a total's side, models have spoken in numbers or not at all, and
a fitted line rises (`BoardAssumption`); that identities of rows have places in an order
(`PlaceAssumption`: `_candidate_id` is a string of game, market and selection); that a
response is finite, in numbers, with no price beyond 100000 (`LiveAssumption`). Nothing in
the code bounds prices. Beyond that one the break-even in ten-thousandths is 0 or 1
and what an offer is worth drowns in rounding, of which the code's floats know nothing.

The invariant is again how something was made: what is served was built of one
response that could be read at its time and of one state of trust (`BuiltFrom`), and
settling, which needs the last refresh behind it, is the only step that takes trust out of
what it was. What three lanes, two indexes and the stakes make of a board is then a
matter of operators.

- *Choice.* A `CHOOSE` says nothing unless there is something to choose. Keys that end
  with the place of an identity order the rows (`AheadOrders`), so of finitely
  many one comes first (`OneIsFirst`, `OneIsForemost`), and of a shopped side
  one offer is the best (`BetterOrders`, `ShopIs`). That a frontier of offers, none of
  which another beats, is not empty is `MoneyFrontierIs` and `SpreadFrontierIs`.
- *Agreement.* The builder indexes the board and takes the anchor with one piece of code,
  the backend with another. `AnchorsAgree` says that they take the same one or both none,
  for moneylines as for lines of which the sharp book quotes both sides.
- *Boundaries.* `ThresholdIs` is arithmetic with products: the price at which a probability
  breaks even covers it and the next worse price does not, on either side of even money.
  `BetterPays` carries this to every price, `PlayableIs` and `BoundaryHolds` to the
  boundary with what tier and radius concede, `ValueAtIs` to the first price that eases the
  break-even by a point: that there is a first among those tried is `LeastElement`, and
  that it eases no more than a point and a half is what the code checks of it.
- *Headlines.* Each lane presents a row of the board or none (`HitRateIs`, `BalancedIs`,
  `ValueIs` over `TrustIs` and `CrossMarketIs`), a row is of an offer that was shopped
  for (`RowsAre`), and an offer of the index is one of the board that is not stale.

Three things in the model were settled by these proofs. Selections with overlapping
conditions (tier, status, trust, freshness) were written as `CASE`, in which TLC takes the
first arm and TLA+ takes any: they are now `IF` chains, in the order of the code's
`return`s. A moneyline has no line whatever the provider sends with it
(`markets_2026.py:493`). And `BoundariesPay` excepts an offer that wins more than 99
times in a hundred: `play_through.py:60` caps the probability there, so that the boundary of
such an offer is one that a worse price would still pay.

### The programs beside the product

`CollectorsProofs` proves, for every set of invocations, patient or not, and any
deaths (`RunsAssumption`: the marker for "no run" is not a run):

| Theorem | States |
|---|---|
| `LockExcludes` | `LockSpec => []LockIsExclusive` |

The argument is that the owner file does not matter. Two runs may clear the same
stale file, and one of them the file of a third; what excludes is the `flock`.
`LockInv` says that whoever works is the one that has it (`WorkersLock`): it is
taken only when free, released only by the one at `unlock`, and by a death only
of the process that died. That no two work follows at once, and is not inductive
without it.

For any invocations, payloads and kickoff, deaths and failures wherever they come, and
any number of them (`AuditAssumption`: a run is invoked for one of three kinds, and the
kickoff is a time):

| Theorem | States |
|---|---|
| `AuditImplementsLock` | `AuditSpec => LockSpec` |
| `HistoryTrue` | `AuditSpec /\ []NobodyGivesUp => []HistoryIsTrue` |
| `PatientHistoryTrue` | the same without the premise, where `Runs \subseteq Patient` |

The premise is not a detail of the proof: a run that is locked out replaces the history
outside of the lock, and `SleeperLostRow` is what becomes of it. Each step of an audit
is to the lock work (`AuditWorks`), so that `WorkersLock` is known throughout and
one run at most is between `begin` and `views`. `AuditInv` then follows a snapshot
from table to table (`AppendedSoFar`): at each place it says what has been
appended, that the success it was compared with is still the last one of the history,
and at `committing` that the history is what the run read. What an earlier run left
behind when it died is in tables and changes, but in no row, since a run of which there
is a row is through (`RowsAreOfRuns`); a success has its whole snapshot, with the
changes from the last success among the rows before its own (`SuccessesAreWhole`),
which rows appended later leave alone (`PrefixStays`). `OngoingKeeps` and `QuietKeeps`
treat once what all steps before the row, and all that touch no file, have in common.

For any hour, submissions and kills:

| Theorem | States |
|---|---|
| `NewsOnlyForward` | `NewsSpec => NewsGoesForward` |

What a job published was verified several steps earlier, against what was latest
then. `NewsInv` carries that along: what a writer has in hand is sound and, where the
jobs do not overlap, later than what is published now (`InHand`), which is kept
because then only one of them runs (`OneWriter`); past `archive` it is in the archive
under its own date (`InTheArchive`); and what the courier is about to write in its
receipt is what the inbox holds (`Staged`). `NewsStepIs` reads the property off
each action.

For any number of weeks and of materializations, each cut short anywhere
(`WeeklyAssumption`: there is a week, and the marker for "no manifest" is none):

| Theorem | States |
|---|---|
| `OneMaterialization` | `WeeklySpec => []LoadedIsWhole` |
| `AdvancedAsValidated` | `WeeklySpec => []AdvancesAsPinned` |

A week's inputs are schedules and checkpoints, four tables and a manifest, replaced
one by one. `JobWrites` says which of them a materialization has behind it, from what
it has yet to do: it ends with the manifest, a part not in its list is its own, and so
is the active schedule unless that is the very next file. So the active schedule tells
(`ActiveTells`): if it is of the manifest's run, no later materialization of the week
has replaced anything. For the second theorem `PinsStay` follows a refresh from
its load, after which it holds no lock: a materialization of that or a later week
copies the pins of settled weeks (`JobPins`, `ManifestPins`) and rewrites their
schedules only as pinned, so what is read later is what was validated.

For any games, span of a group, price, budget, answers, workers and deaths
(`MarketAssumption`: there are finitely many games and at least one, days, kickoffs
and timestamps are natural numbers, and the marker for "no worker" is not a worker):

| Theorem | States |
|---|---|
| `OddsKept` | `MarketSpec => []OddsAreKept` |

The groups of `build_clusters` refer to the groups of earlier kickoffs. That there is
a function that does (`GroupsExist`) is proved by a least kickoff up to which there is
none, and that a group starts no later than its games (`StartsAre`) by the least one
that does not; so an answer from before a request is from before each of its games. The
plan has a request once (`PlanIs`), because a day and a first kickoff name it and the
place of a request is the number of those before it (`RankIsTaken`). Then the money:
`Spent(r)` says that each charge for a request without file and without row
was followed by a death, but for the charge of a worker that holds its answer just now,
and that a file without row had a death after it, but for one whose worker is about to
enter it. `EnteredOnce` is kept because what a worker has yet to ask was in no row
when it took the lock (`InProgress`), and nobody else has written one since
(`OneAcquires`). `MovedIs` and `RestingKeeps` treat what the steps have in common:
one worker moves and the others rest.

For whatever the models may have said and the games may end with, too
(`EdgeAssumption`: lines and prices are integers, and a census is of finitely many
games):

| Theorem | States |
|---|---|
| `BetsRest` | `EdgeSpec => []BetsRestOnOdds` |

`EdgeInv` says over `MarketInv` that the canonical odds are still those of the raw
files, each an answer to its request (`RawAnswered`): they are built when every worker
has stopped, and who has stopped stores nothing (`StoppedRest`). A row of the ledger
is a function of its game, family and model (`RowOf`, `LedgerRowIs`), hence unique.
Where a book shows a side once, the offers of a spread are what the two books show
(`OffersAre`), and of two offers from different books one comes first (`ShopIs`): the
number, the price and the order of the books never leave a tie, so the choice is the
best. That the zone of the agreement is no larger than the zone of the average is an
injection: its row of a game has a row of the average beside it (`ZoneOfAverage`).

### The 2025 holdout

`ResearchProofs` proves, for any season, runs, modes, flaws of the inputs and crashes
(`HoldoutAssumption`: there are finitely many games and at least one; a run is told a
mode and a directory, and none is called `"absent"`, the marker for no marker; a slate
has picks of the three lanes only, in natural numbers of units and at odds other than
zero, and two picks with one key are one offer):

| Theorem | States |
|---|---|
| `OpenedOnce` | `HoldoutSpec => []SpentOnce` |
| `CardsKnown` | `HoldoutSpec => []CardsKnowThePast` |

`Behind(r)` says at each place what must already be on disk: the run's name in the
marker from `open` on for a one-shot run, its own card of the block from `write`
on, all five files of it at `reveal`, and both for every block whose outcomes it has
read. The marker is created exclusively and never removed; cards and
files are only added. `Kept(r)` states this of a step of `r`, and `KeptKeeps` that then
every other run stands behind what it stood behind, so that each of the actions
has only to be looked at for the run that takes it.

The cards are told by what a run remembers. `CardInv` says that at block `b` its models
and calibrations rest on exactly the outcomes of the blocks before (`Knows`), that the
bankroll of each profile is the opening one plus the profits of its rows of those
blocks (`Balanced`), and that the cards of a directory are those of one run, from the
first block to its own (`Authored`, `Shelved`): a run that finds a card of its block
begun fails. What is hard is the money. `cap_slate_stakes` gives each wager in turn
what is left of a tenth of the bankroll; `StakesAre` shows that no stake is negative
and that together they stay within the tenth, whatever the slate; a wager settles to no
less than its stake (`ProfitIs`), so that the bankroll stays a natural number and the
next week can be staked from it (`WeekSettles`). Exposures and spreads are left folds over
rows: that the fold of each prefix exists and is the fold of the one before with a row
more is by a least prefix (`ExposureFolds`, `SpreadFolds`, `EveryRowKnown`), as sums of
rows are by a least subset (`SumAtMost`, `SumMultiplies`, `SumOfImage`).

### The observations of a game

`ResearchProofs` also proves, of every frame of plays with clocks in natural numbers
(`FrameAssumption`), whatever its teams, drives, flags, quarters and results:

| Theorem | States |
|---|---|
| `ObservationsBalanced` | `ObserveSpec => []ObservationsBalance` |

Rates come down to a set of plays within another (`RowCounts`, `NeutralAreFewer`), and
a play is of one drive, so that the turnovers of the drives are counted once
(`PartsCount`). The intervals are what could overlap. One of them runs from the last
countable play of its drive; in one drive and quarter each begins no earlier than the one
before it ended, and by a least set of intervals their sum is at most the time from the
greatest clock to that of the last play (`IntervalsFollow`); the bound of each drive and
quarter then bounds the sum of all (`SumByClass`). This last part is stated for frames whose
clock runs down within a quarter (`ClockRunsDown`): `build_pace_intervals` skips an
interval that is not positive, so that after a correction of the clock the same
seconds may be counted twice.

### The backtests

`ResearchProofs` also proves, of the programs of `EvaluatorReplay` and the modules below it
in any order their inputs allow (`ResearchSpec`; a step of `MCResearch` is one of these or
leaves their variables alone):

| Theorem | States |
|---|---|
| `LookedBack` | `ResearchSpec => []LooksBack` |
| `TrainingOver` | `ResearchSpec => []TotalsTrainingIsOver` |

Of the constants they use `CalendarAssumption` (in every schedule there are finitely many
games, numbered, of development seasons among them; a block has a game played no later
than any game of a later block, however its others are postponed; within a season a later
block has a greater week), `WindowAssumption` (windows are numbers of games) and
`ReplayAssumption` (there are blocks to evaluate and sealed ones; an offer is of one of
the three markets). TLC evaluates all three on the schedules of `Research`.

All of it rests on the order of the blocks. `Earlier` is a strict total order of the
calendar (`EarlierOrders`); a sequence in which every member has its place by the number of
members before it has each of them once and in order (`RankedIs`), which is what
`Sorted` returns (`BlocksSorted`) of the blocks to walk, the prior blocks, the blocks to
replay and those not sealed, of which the last are a prefix of the ones before
(`ReplayIs`), and what `BySource` returns of a team's games. With it each program
has an invariant of its own, and `BacktestInv` is their conjunction:

- `EloInv`. At the first pass of a block the games updated are exactly those known
  before it, and no rating rests on others; at the second the block's games have been
  predicted (`EloFrontier`, `EloProgress`). A row of a past block must keep counting what
  it counted: the ledger holds no game twice (`EloLedger`), and what is known before
  a block has been updated once it is predicted (`EloRows`), so that the rows of earlier blocks in the ledger are
  as many as the games known, now and for ever. The second pass is a left fold over the
  games of the block; that it adds one row per game, in order, and rests on nothing
  else is by the function on prefixes that the fold is and a least prefix that would not do
  (`AppliedUpTo`, `UpdatesAre`).
- `MarginInv`, `TreesInv`. Rows are made once and the past of a block does not change. The
  fit and the validation of a split are neighbouring stretches of the prior
  blocks (`SplitIs`).
- `TotalsInv`, with `TrainingInv`. A training set is made of the blocks `eligible_source_blocks`
  returns; a block is eligible once the Tuesday after its latest game is no later than the cutoff of the block
  in hand, so that a postponed game holds back its block (`EligibleAtIs`). That a
  later block has no earlier cutoff (`AsOfGrows`) makes the sets grow (`TrainingGrows`).
- `BundleInv`. A team's row looks back over the results published by its game's cutoff
  (`EligibleIs`): such a game is of an earlier block, played before the first day of this one,
  and the last of them in the season is at least a week back (`TeamRowIs`).
- `ReplayInv`. The board, the histories and the confidence of block `n` rest on the
  rows and results of the blocks before it. It needs `AllPredicted` of the Elo walk:
  the replay reads its ledger when it has been written.

### What TLC alone checks

- Three properties of `Research`: `LedgerReplays`, `UniversesAgree` and
  `EnteringContinues`. They speak of what two computations of a history by different
  folds and filters have in common: the ratings replayed from the ledger, the rows of
  two programs, the state a season is entered with. Induction over data with an operator
  as a parameter is out of reach; by a least element it is not, which `SummaryCorrect`,
  `CardsKnown`, `EpisodesTold`, `ScoredWarranted` and `LookedBack` use for sums and
  folds. For two folds at once it has not been done.
- What a run that gives up at a held lock leaves of the history: `HistoryTrue` has the
  premise that none does, and `SleeperLostRow` shows that it needs one.
- `LatestIsServed` and `EvidenceIsPushed`: liveness under fairness and `ENABLED` are
  out of the prover's reach.
- That `OneWagerPerKey`, `LockIsExclusive` and the others hold of the programs
  together, since they share no variable, is by the composition above and not proved.

## What is not modelled

- What an estimator computes: coefficients, trees, probabilities of a fit; the
  grids of hyperparameters, bootstrap intervals and determinism reruns around them.
- Login, sessions and the login limiter; read-only endpoints; rendering in the
  frontend; Caddy and the copy of the frontend.
- `qb_inputs.py`, `week1_2026.py`, surface and venue files: lookups that fail
  closed; team aliases and the oracle quarterback files of the research data.
- What a product, a schedule or an article contains beyond what the properties
  tell apart; the search and the writing of an article.
- Some refusals that only make the modelled case rarer: an offer out of a model's
  support beyond the ones a feed can show (`evaluators.py:209`, `:320`), a confidence
  contract that fails (`standard_product_compat_2025.py:177`), a status that is not
  2xx after the raw store (`runner.py:141`, a run that ends as a killed one does), an
  audit that fails before it asks for the lock (`collect_sleeper_qbs.py:374`, whose row
  is written as that of `LOCK_FAILURE`). The tie-break by expected value of
  `final_selectors_v1.py:299`, and all but two starter candidates of equal standing.
- Grading and timelines of `prospective/results_v1.py`; the audit of raw data.
- The manual card tracker, a facade without state.

The rest of `scripts/` are studies that were run once (diagnostics, exports,
freezes of configuration). They share the modules above and add tables; where a
study feeds the product (`task05f`, `task05g` confidence, spread calibration, the
holdout executors) it is modelled.

## What could come next

1. The other three properties of `Research`: a fold in step with another, from what `EloInv` and `UpdatesAre` say of one.
2. `POST /evaluate-offer` and `bankroll_summary` as sequences of reads, once a
   document says what they promise.
