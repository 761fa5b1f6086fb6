----------------------------- MODULE WagerApi -----------------------------
(***************************************************************************)
(* The account endpoints of the backend (_base_app.py, app.py) over the    *)
(* database of BankrollLedger.  The endpoints are plain functions that     *)
(* FastAPI runs on a pool of threads, so requests of one user - tabs,      *)
(* devices, a dialog submitted again - interleave between what a handler   *)
(* reads first and the transaction it ends with.  The browser keeps one    *)
(* idempotency key per dialog and may submit the dialog again, edited or   *)
(* not, whether or not it saw an answer.                                   *)
(***************************************************************************)
EXTENDS BankrollLedger

CONSTANTS
  Req,            \* requests in flight at a time
  Key,            \* idempotency keys: one per wager dialog
  NoKey,
  MaxProduct,     \* bound: products published after the first
  VersionOf,      \* product_version: product_version_for_week names the week
  Lane,           \* the headlines' lanes, numbered in LANE_ORDER
  Offer,          \* what _headline_identity tells apart
  NoBet,
  PriceOf,        \* the odds of an offer
  HeadlineOf,     \* what a lane of a product bets on, or NoBet
  Evaluated,      \* the exact offers a product's board lets the engine evaluate
  Form            \* what dialogs submit: the hashed payload but its key

ASSUME ApiAssumption ==
  /\ MaxProduct \in Nat
  /\ VersionOf \in [0..MaxProduct -> Nat]
  /\ Lane \subseteq Nat
  /\ NoBet \notin Offer
  /\ PriceOf \in [Offer -> Prices]
  /\ HeadlineOf \in [0..MaxProduct -> [Lane -> Offer \cup {NoBet}]]
  /\ Evaluated \in [0..MaxProduct -> SUBSET Offer]
  /\ Form \subseteq [version: Nat, card: Lane \cup Offer,
                     stake: Stakes \cup {NoStake}, status: WagerStatus]
  /\ NoKey \notin Key

VARIABLES
  product,        \* the product the store serves
  request,        \* what each request in flight holds
  keyOf,          \* idempotency_key and hashed payload of each wager
  formOf,
  since,          \* history: the product served when a wager's request came in
  answer          \* what the last step answered to a POST /wagers, if it did

apiVars == <<product, request, keyOf, formOf, since, answer>>
vars == <<dbVars, apiVars>>

NoForm == <<>>
NoAnswer == [outcome |-> "none", wager |-> NoWager]

\* A handler holds what it read.
Idle == [pc |-> "idle"]

\* A user whose account is as old as the ledger.
ApiInit ==
  /\ Init
  /\ \A w \in Wager : wagers[w] = NoWager
  /\ product = 0
  /\ request = [r \in Req |-> Idle]
  /\ keyOf = [w \in Wager |-> NoKey]
  /\ formOf = [w \in Wager |-> NoForm]
  /\ since = [w \in Wager |-> 0]
  /\ answer = NoAnswer

----------------------------------------------------------------------------
Give(outcome, w) == answer' = [outcome |-> outcome, wager |-> w]

\* A lane whose bet an earlier lane already presents.
Duplicate(p, lane) ==
  /\ HeadlineOf[p][lane] # NoBet
  /\ \E primary \in Lane : primary < lane /\ HeadlineOf[p][primary] = HeadlineOf[p][lane]

\* What the handler requires of the product it reads: the version the dialog was
\* opened on, and a headline that is a BET or an offer that can be evaluated.
Serves(p, form) ==
  /\ form.version = VersionOf[p]
  /\ form.card \in Lane => HeadlineOf[p][form.card] # NoBet
  /\ form.card \notin Lane => form.card \in Evaluated[p]

Offered(p, form) == IF form.card \in Lane THEN HeadlineOf[p][form.card] ELSE form.card

Refuse(r) ==
  /\ Give("refused", NoWager)
  /\ request' = [request EXCEPT ![r] = Idle]

\* A dialog opened on a product that was served submits POST /wagers.
StartPost(r, key, form) ==
  /\ request[r] = Idle
  /\ \E shown \in 0..product : form.version = VersionOf[shown]
  /\ request' = [request EXCEPT ![r] = [pc |-> "sent", key |-> key, form |-> form]]
  /\ answer' = NoAnswer
  /\ UNCHANGED <<dbVars, product, keyOf, formOf, since>>

\* The outer handler refuses a duplicate headline, on a reading of its own.
CheckDuplicate(r) ==
  LET post == request[r] IN
  /\ post.pc = "sent"
  /\ IF post.form.card \in Lane /\ Duplicate(product, post.form.card)
       THEN Refuse(r)
       ELSE /\ request' = [request EXCEPT ![r] =
                 [pc |-> "checked", key |-> post.key, form |-> post.form, since |-> product]]
            /\ answer' = NoAnswer
  /\ UNCHANGED <<dbVars, product, keyOf, formOf, since>>

\* The core handler reads the store again, for its checks and the wager's price.
ReadProduct(r) ==
  LET post == request[r] IN
  /\ post.pc = "checked"
  /\ IF Serves(product, post.form)
       THEN /\ request' = [request EXCEPT ![r] =
                 [pc |-> "post", key |-> post.key, form |-> post.form,
                  since |-> post.since, read |-> product]]
            /\ answer' = NoAnswer
       ELSE Refuse(r)
  /\ UNCHANGED <<dbVars, product, keyOf, formOf, since>>

Holder(key) == {w \in Wager : keyOf[w] = key}
RowFor(post) == [status |-> post.form.status, stake |-> post.form.stake,
                 price |-> PriceOf[Offered(post.read, post.form)]]
Affordable(row) ==
  row.stake # NoStake => bankroll + Target(row.status, row.stake, row.price) >= 0

\* Mutant: the headline that was read is part of the hashed payload.
CommitReplayOfHeadline(r) ==
  LET post == request[r] IN
  /\ \E w \in Holder(post.key) :
       IF formOf[w] = post.form /\ wagers[w].price = RowFor(post).price
         THEN Give("replayed", w)
         ELSE Give("key_conflict", NoWager)
  /\ UNCHANGED <<dbVars, keyOf, formOf, since>>

\* create_wager finds the key taken.
CommitReplay(r) ==
  LET post == request[r] IN
  /\ \E w \in Holder(post.key) :
       IF formOf[w] = post.form
         THEN Give("replayed", w)
         ELSE Give("key_conflict", NoWager)
  /\ UNCHANGED <<dbVars, keyOf, formOf, since>>

\* Mutant: the key was looked up before the transaction.
CommitCreateUnchecked(r) ==
  LET post == request[r] IN
  /\ Affordable(RowFor(post))
  /\ \E w \in Wager :
       /\ CreateWager(w, RowFor(post))
       /\ keyOf' = [keyOf EXCEPT ![w] = post.key]
       /\ formOf' = [formOf EXCEPT ![w] = post.form]
       /\ since' = [since EXCEPT ![w] = post.since]
       /\ Give("created", w)

\* create_wager inserts the wager, or rolls back when the bankroll is too small.
CommitCreate(r) ==
  LET post == request[r] IN
  /\ Holder(post.key) = {}
  /\ IF Affordable(RowFor(post))
       THEN \E w \in Wager :
              /\ CreateWager(w, RowFor(post))
              /\ keyOf' = [keyOf EXCEPT ![w] = post.key]
              /\ formOf' = [formOf EXCEPT ![w] = post.form]
              /\ since' = [since EXCEPT ![w] = post.since]
              /\ Give("created", w)
       ELSE /\ Give("too_small", NoWager)
            /\ UNCHANGED <<dbVars, keyOf, formOf, since>>

CommitPost(r) ==
  /\ request[r].pc = "post"
  /\ CommitReplay(r) \/ CommitCreate(r)
  /\ request' = [request EXCEPT ![r] = Idle]
  /\ UNCHANGED product

\* PUT /profile up to its transaction: a field the payload omits is taken from
\* the profile as it is read here.
StartPut(r, amount, newRisk, stated) ==
  /\ request[r] = Idle
  /\ request' = [request EXCEPT ![r] =
       [pc |-> "put", amount |-> IF stated THEN amount ELSE bankroll,
        risk |-> newRisk, stated |-> stated]]
  /\ answer' = NoAnswer
  /\ UNCHANGED <<dbVars, product, keyOf, formOf, since>>

CommitPut(r) ==
  /\ request[r].pc = "put"
  /\ UpdateProfile(request[r].amount, request[r].risk)
  /\ request' = [request EXCEPT ![r] = Idle]
  /\ answer' = NoAnswer
  /\ UNCHANGED <<product, keyOf, formOf, since>>

\* PATCH /wagers/{id} reads nothing before its transaction.
Patch(w, status, stake) ==
  /\ PatchWager(w, status, stake)
  /\ answer' = NoAnswer
  /\ UNCHANGED <<product, request, keyOf, formOf, since>>

\* A refresh publishes; the store serves the new product from then on.
Publish ==
  /\ product < MaxProduct
  /\ product' = product + 1
  /\ answer' = NoAnswer
  /\ UNCHANGED <<dbVars, request, keyOf, formOf, since>>

\* The process dies and systemd restarts it: what was in flight is gone.
Restart ==
  /\ request' = [r \in Req |-> Idle]
  /\ answer' = NoAnswer
  /\ UNCHANGED <<dbVars, product, keyOf, formOf, since>>

ApiNext ==
  /\ \/ \E r \in Req, key \in Key, form \in Form : StartPost(r, key, form)
     \/ \E r \in Req : CheckDuplicate(r) \/ ReadProduct(r) \/ CommitPost(r) \/ CommitPut(r)
     \/ \E r \in Req, amount \in Balances, newRisk \in Risks, stated \in BOOLEAN :
           StartPut(r, amount, newRisk, stated)
     \/ \E w \in Wager, status \in WagerStatus, stake \in Stakes \cup {NoStake} :
           Patch(w, status, stake)
     \/ Publish
     \/ Restart
  /\ Len(ledger') <= MaxRows

ApiSpec == ApiInit /\ [][ApiNext]_vars
----------------------------------------------------------------------------
(***************************************************************************)
(* However often a dialog is submitted, from however many threads, its key *)
(* names one wager: the lookup and the insert of create_wager are one      *)
(* transaction.                                                            *)
(***************************************************************************)
OneWagerPerKey ==
  \A w, v \in Wager : keyOf[w] = keyOf[v] /\ keyOf[w] # NoKey => w = v

(***************************************************************************)
(* A dialog submitted again unchanged after its wager was stored is never  *)
(* charged, nor refused for its key or for the bankroll.  It is answered   *)
(* with the stored wager; only when something was published after its      *)
(* wager's request came in may the board it reads refuse it, for another   *)
(* week, a headline that is no bet any more or is another lane's as well,  *)
(* or an offer that cannot be evaluated.  Both readings of the store come  *)
(* before the key is looked up.                                            *)
(***************************************************************************)
ResendIsHarmless ==
  [][\A r \in Req : request[r].pc \in {"sent", "checked", "post"} /\ answer' # NoAnswer
                     /\ request'[r] # request[r] =>
       \A w \in Holder(request[r].key) : formOf[w] = request[r].form =>
         /\ UNCHANGED dbVars
         /\ \/ answer' = [outcome |-> "replayed", wager |-> w]
            \/ answer'.outcome = "refused" /\ since[w] < product]_vars

(***************************************************************************)
(* The contract says PUT /profile persists the changes it is given; a PUT  *)
(* that states no bankroll should leave the bankroll alone.                *)
(***************************************************************************)
UnstatedBankrollIsKept ==
  [][\A r \in Req : CommitPut(r) /\ ~request[r].stated
                      => bankroll' = bankroll]_vars
===========================================================================
