-------------------------- MODULE BankrollLedger --------------------------
(***************************************************************************)
(* One user's rows of the profiles, wagers and bankroll_ledger tables and  *)
(* the transactions of backend/db.py that write them.  Every one runs      *)
(* under BEGIN IMMEDIATE and rolls back whole when it raises, so each is   *)
(* one step, and one that raises is no step at all.                        *)
(*                                                                         *)
(* posted[w] stands for the query every transaction starts with, SUM of    *)
(* the ledger's amounts GROUP BY wager; SummaryBalances compares it with   *)
(* the rows themselves.                                                    *)
(***************************************************************************)
EXTENDS WagerAccounting, Sequences, Functions

CONSTANTS
  Wager, Stakes, Prices, MaxMoney, NoWager,
  Balances,       \* bankrolls a user may state
  Risks,          \* risk profiles
  MaxRows         \* bound: ledger rows written

WagerRow == [status: WagerStatus, stake: Stakes \cup {NoStake}, price: Prices]

ASSUME LedgerAssumption ==
  /\ MaxMoney \in Nat
  /\ Balances \subseteq 0..MaxMoney
  /\ Stakes \subseteq 0..MaxMoney
  /\ Prices \subseteq Int \ {0}
  /\ MaxRows \in Nat
  /\ NoWager \notin Wager
  /\ NoWager \notin WagerRow

VARIABLES
  bankroll,       \* profiles.bankroll_cents
  risk,           \* profiles.risk_profile
  wagers,         \* the wagers table
  ledger,         \* the bankroll_ledger table, oldest row first
  posted,         \* SUM(amount_cents) of each wager's ledger rows
  opening         \* the bankroll when the ledger table was created

dbVars == <<bankroll, risk, wagers, ledger, posted, opening>>

EntryType == {"MANUAL_BANKROLL_SET", "WAGER_CREATED", "WAGER_RECONCILED",
              "LEGACY_WAGER_ADOPTED"}

LedgerRow == [wager: Wager \cup {NoWager}, type: EntryType, amount: Int,
              balance: Nat]

TypeOK ==
  /\ bankroll \in Nat
  /\ risk \in Risks
  /\ wagers \in [Wager -> WagerRow \cup {NoWager}]
  /\ ledger \in Seq(LedgerRow)
  /\ posted \in [Wager -> Int]
  /\ opening \in Nat

Exists(w) == wagers[w] # NoWager
Tracked(w) == \E i \in 1..Len(ledger) : ledger[i].wager = w

\* An account may predate the ledger: a bankroll and wagers, no rows.
Init ==
  /\ bankroll \in Balances
  /\ risk \in Risks
  /\ wagers \in [Wager -> WagerRow \cup {NoWager}]
  /\ ledger = << >>
  /\ posted = [w \in Wager |-> 0]
  /\ opening = bankroll

----------------------------------------------------------------------------
\* _apply_bankroll_delta: move the balance, and leave a row of it.
ApplyDelta(w, type, delta, recordZero) ==
  /\ bankroll + delta >= 0
  /\ bankroll' = bankroll + delta
  /\ posted' = [posted EXCEPT ![w] = @ + delta]
  /\ ledger' = IF delta # 0 \/ recordZero
                 THEN Append(ledger, [wager |-> w, type |-> type,
                               amount |-> delta, balance |-> bankroll + delta])
                 ELSE ledger

\* Mutant: what was posted before is not deducted.
ReconcileAnew(w, row, type, recordZero) ==
  ApplyDelta(w, type, Target(row.status, row.stake, row.price), recordZero)

\* _reconcile_wager_effect: post what is missing from the wager's rows.
Reconcile(w, row, type, recordZero) ==
  ApplyDelta(w, type,
             Target(row.status, row.stake, row.price) - posted[w], recordZero)

NoPosting == UNCHANGED <<bankroll, ledger, posted>>

\* Mutant: a stated bankroll leaves no row.
UpdateProfileSilently(amount, newRisk) ==
  /\ bankroll' = amount
  /\ risk' = newRisk
  /\ UNCHANGED <<wagers, ledger, posted, opening>>

\* update_profile
UpdateProfile(amount, newRisk) ==
  /\ bankroll' = amount
  /\ risk' = newRisk
  /\ ledger' = IF amount # bankroll
                 THEN Append(ledger, [wager |-> NoWager,
                               type |-> "MANUAL_BANKROLL_SET",
                               amount |-> amount - bankroll, balance |-> amount])
                 ELSE ledger
  /\ UNCHANGED <<wagers, posted, opening>>

\* create_wager, for a request no earlier row answers.
CreateWager(w, row) ==
  /\ ~Exists(w)
  /\ wagers' = [wagers EXCEPT ![w] = row]
  /\ IF row.stake # NoStake
       THEN Reconcile(w, row, "WAGER_CREATED", TRUE)
       ELSE NoPosting
  /\ UNCHANGED <<risk, opening>>

\* A wager without ledger rows is adopted when its result changes or it gets
\* a stake; re-saving it, or editing a stake it already had, adopts nothing.
Adopts(before, after) ==
  \/ before.status # after.status
  \/ before.stake = NoStake /\ after.stake # NoStake

\* Mutant: the correction of a settled result is not posted.
PatchOpenOnly(w, status, stake) ==
  LET before == wagers[w]
      after == [before EXCEPT !.status = status, !.stake = stake]
  IN /\ Exists(w)
     /\ wagers' = [wagers EXCEPT ![w] = after]
     /\ IF before.status = "OPEN"
          THEN Reconcile(w, after, "WAGER_RECONCILED", FALSE)
          ELSE NoPosting
     /\ UNCHANGED <<risk, opening>>

\* patch_wager: a field the request omits keeps its value, so a patch of the
\* status and the stake is the pair it leaves.
PatchWager(w, status, stake) ==
  LET before == wagers[w]
      after == [before EXCEPT !.status = status, !.stake = stake]
  IN /\ Exists(w)
     /\ wagers' = [wagers EXCEPT ![w] = after]
     /\ CASE Tracked(w) -> Reconcile(w, after, "WAGER_RECONCILED", FALSE)
          [] ~Tracked(w) /\ Adopts(before, after) ->
               Reconcile(w, after, "LEGACY_WAGER_ADOPTED", TRUE)
          [] ~Tracked(w) /\ ~Adopts(before, after) -> NoPosting
     /\ UNCHANGED <<risk, opening>>

Next ==
  /\ \/ \E amount \in Balances \cup {bankroll}, newRisk \in Risks :
           UpdateProfile(amount, newRisk)
     \/ \E w \in Wager, row \in WagerRow : CreateWager(w, row)
     \/ \E w \in Wager, status \in WagerStatus, stake \in Stakes \cup {NoStake} :
           PatchWager(w, status, stake)
  /\ Len(ledger') <= MaxRows

Spec == Init /\ [][Next]_dbVars
----------------------------------------------------------------------------
(***************************************************************************)
(* A wager's ledger rows add up to what the wager is worth in its current  *)
(* state, after any sequence of results, corrections, stake edits and      *)
(* stake removals: _reconcile_wager_effect posts the right difference.     *)
(***************************************************************************)
PostedIsTarget ==
  \A w \in Wager : Tracked(w) =>
    /\ Exists(w)
    /\ posted[w] = Target(wagers[w].status, wagers[w].stake, wagers[w].price)

\* A wager the ledger does not know has moved no money.
UntrackedIsFree == \A w \in Wager : ~Tracked(w) => posted[w] = 0

BalanceBefore(i) == IF i = 1 THEN opening ELSE ledger[i - 1].balance

(***************************************************************************)
(* The ledger is a statement of account: every row starts from the balance *)
(* the row before it left, and the last one left the current bankroll.  It *)
(* takes every writer of profiles.bankroll_cents to leave a row.           *)
(***************************************************************************)
LedgerIsAStatement ==
  /\ \A i \in 1..Len(ledger) :
       ledger[i].balance = BalanceBefore(i) + ledger[i].amount
  /\ bankroll = BalanceBefore(Len(ledger) + 1)

\* The amounts of the rows of some wagers, added up.
Amounts == [i \in 1..Len(ledger) |-> ledger[i].amount]
RowsOf(S) == {i \in 1..Len(ledger) : ledger[i].wager \in S}
SumOfRows(S) == SumFunctionOnSet(Amounts, RowsOf(S))

(***************************************************************************)
(* bankroll_summary, the answer of GET /bankroll while no transaction      *)
(* commits between its queries.                                            *)
(***************************************************************************)
SettledTracked == {w \in Wager : Exists(w) /\ Tracked(w)
                                 /\ wagers[w].status \in SettledStatus}
OpenTracked == {w \in Wager : Exists(w) /\ Tracked(w)
                              /\ wagers[w].status = "OPEN"
                              /\ wagers[w].stake # NoStake}
RealizedPL == SumOfRows(SettledTracked)
OpenStakes == SumFunctionOnSet([w \in OpenTracked |-> wagers[w].stake], OpenTracked)

\* posted is the sum of the rows, so what the actions read of it is what
\* _ledger_effect reads.
PostedIsSum == \A w \in Wager : posted[w] = SumOfRows({w})

(***************************************************************************)
(* What the summary shows adds up: the current bankroll is what the user   *)
(* declared, plus the realized profit and loss, minus the open stakes.     *)
(***************************************************************************)
SummaryBalances ==
  PostedIsSum /\ bankroll = opening + SumOfRows({NoWager}) + RealizedPL - OpenStakes

(***************************************************************************)
(* A wager enters the ledger once, as created or as adopted; every later   *)
(* row of it is a reconciliation.                                          *)
(***************************************************************************)
EntersOnce ==
  \A i, j \in 1..Len(ledger) :
    i < j /\ ledger[i].wager = ledger[j].wager /\ ledger[i].wager # NoWager
      => ledger[j].type = "WAGER_RECONCILED"

(***************************************************************************)
(* The ledger implements the promise: a wager counts when the ledger knows *)
(* it.                                                                     *)
(***************************************************************************)
Account == INSTANCE Bankroll WITH
             balance <- bankroll, book <- wagers,
             counted <- {w \in Wager : Tracked(w)}

ImplementsBankroll == Account!BookSpec
===========================================================================
