--------------------------- MODULE AccountProofs ---------------------------
(***************************************************************************)
(* Theorems about the account: of its bankroll and ledger, for every set of*)
(* wagers, stakes, odds and balances and every length of the ledger, and of*)
(* the idempotency keys of its endpoints, for any number of requests,      *)
(* wagers, keys and products.                                              *)
(***************************************************************************)
EXTENDS WagerApi, NumberLemmas, TLAPS

\* What a wager is worth is a whole number of cents.
LEMMA HalfUpType ==
  ASSUME NEW num \in Int, NEW den \in Int, den > 0
  PROVE  HalfUp(num, den) \in Int
  BY DEF HalfUp

LEMMA ProfitType ==
  ASSUME NEW stake \in Int, NEW price \in Int, price # 0
  PROVE  Profit(stake, price) \in Int
<1>1. CASE price > 0
  <2>1. stake * price \in Int
    OBVIOUS
  <2> QED BY <1>1, <2>1, HalfUpType DEF Profit
<1>2. CASE ~(price > 0)
  <2>1. stake * 100 \in Int /\ -price \in Int /\ -price > 0
    BY <1>2
  <2> QED BY <1>2, <2>1, HalfUpType DEF Profit
<1> QED BY <1>1, <1>2

LEMMA TargetType ==
  ASSUME NEW row \in WagerRow
  PROVE  Target(row.status, row.stake, row.price) \in Int
<1>1. /\ row.status \in WagerStatus
      /\ row.stake \in Stakes \cup {NoStake}
      /\ row.price \in Int
      /\ row.price # 0
  BY LedgerAssumption DEF WagerRow
<1>2. CASE row.stake = NoStake
  BY <1>2 DEF Target
<1>3. CASE row.stake # NoStake
  <2>0. row.stake \in 0..MaxMoney
    BY <1>1, <1>3, LedgerAssumption
  <2>1. row.stake \in Int
    BY <2>0, LedgerAssumption
  <2>2. Profit(row.stake, row.price) \in Int
    BY <1>1, <2>1, ProfitType
  <2>3. CASE row.status \in {"OPEN", "LOST"}
    BY <1>3, <2>1, <2>3 DEF Target
  <2>4. CASE row.status = "WON"
    BY <1>3, <2>2, <2>4 DEF Target
  <2>5. CASE row.status \in {"PUSH", "VOID", "CANCELLED"}
    BY <1>3, <2>5 DEF Target
  <2> QED BY <1>1, <2>3, <2>4, <2>5 DEF WagerStatus
<1> QED BY <1>2, <1>3

----------------------------------------------------------------------------
\* What one transaction does to the ledger.

\* A row that records the move of the balance keeps the statement of account.
LEMMA AppendedRow ==
  ASSUME TypeOK, LedgerIsAStatement,
         NEW row \in LedgerRow,
         row.balance = bankroll + row.amount,
         ledger' = Append(ledger, row), bankroll' = row.balance,
         opening' = opening
  PROVE  /\ ledger' \in Seq(LedgerRow)
         /\ Len(ledger') = Len(ledger) + 1
         /\ ledger'[Len(ledger) + 1] = row
         /\ \A i \in 1..Len(ledger) : ledger'[i] = ledger[i]
         /\ LedgerIsAStatement'
         /\ \A v \in Wager : Tracked(v)' <=> (Tracked(v) \/ row.wager = v)
<1>1. /\ ledger \in Seq(LedgerRow)
      /\ Len(ledger) \in Nat
  BY DEF TypeOK
<1>2. /\ ledger' \in Seq(LedgerRow)
      /\ Len(ledger') = Len(ledger) + 1
      /\ ledger'[Len(ledger) + 1] = row
      /\ \A i \in 1..Len(ledger) : ledger'[i] = ledger[i]
  BY <1>1
<1>3. \A i \in 1..Len(ledger) + 1 : BalanceBefore(i)' = BalanceBefore(i)
  <2> SUFFICES ASSUME NEW i \in 1..Len(ledger) + 1
               PROVE  BalanceBefore(i)' = BalanceBefore(i)
    OBVIOUS
  <2>1. CASE i = 1
    BY <2>1 DEF BalanceBefore
  <2>2. CASE i # 1
    <3>1. i - 1 \in 1..Len(ledger)
      BY <1>1, <2>2
    <3>2. ledger'[i - 1] = ledger[i - 1]
      BY <1>2, <3>1
    <3> QED BY <2>2, <3>2 DEF BalanceBefore
  <2> QED BY <2>1, <2>2
<1>4. bankroll = BalanceBefore(Len(ledger) + 1)
  BY DEF LedgerIsAStatement
<1>5. ASSUME NEW i \in 1..Len(ledger)'
      PROVE  ledger'[i].balance = BalanceBefore(i)' + ledger'[i].amount
  <2>1. CASE i \in 1..Len(ledger)
    <3>1. ledger[i].balance = BalanceBefore(i) + ledger[i].amount
      BY <2>1 DEF LedgerIsAStatement
    <3>2. BalanceBefore(i)' = BalanceBefore(i)
      BY <1>1, <1>3, <2>1
    <3>3. ledger'[i] = ledger[i]
      BY <1>2, <2>1
    <3> QED BY <3>1, <3>2, <3>3
  <2>2. CASE i = Len(ledger) + 1
    <3>1. BalanceBefore(i)' = bankroll
      BY <1>1, <1>3, <1>4, <2>2
    <3>2. ledger'[i] = row
      BY <1>2, <2>2
    <3> QED BY <3>1, <3>2
  <2> QED BY <1>1, <1>2, <2>1, <2>2
<1>6. (bankroll = BalanceBefore(Len(ledger) + 1))'
  <2>1. Len(ledger') + 1 # 1 /\ (Len(ledger') + 1) - 1 = Len(ledger) + 1
    BY <1>1, <1>2
  <2>2. bankroll' = ledger'[(Len(ledger') + 1) - 1].balance
    BY <1>2, <2>1
  <2> QED BY <2>1, <2>2 DEF BalanceBefore
<1>7. LedgerIsAStatement'
  BY <1>5, <1>6 DEF LedgerIsAStatement
<1>8. ASSUME NEW v \in Wager
      PROVE  Tracked(v)' <=> (Tracked(v) \/ row.wager = v)
  <2>1. 1..Len(ledger)' = 1..Len(ledger) \cup {Len(ledger) + 1}
    BY <1>1, <1>2
  <2> QED BY <1>2, <2>1 DEF Tracked
<1> QED BY <1>2, <1>7, <1>8

\* The inductive invariant.
IInv ==
  /\ TypeOK
  /\ PostedIsTarget
  /\ UntrackedIsFree
  /\ LedgerIsAStatement
  /\ EntersOnce

LEMMA AppendedEntersOnce ==
  ASSUME IInv, NEW row \in LedgerRow,
         Len(ledger') = Len(ledger) + 1,
         ledger'[Len(ledger) + 1] = row,
         \A i \in 1..Len(ledger) : ledger'[i] = ledger[i],
         \/ row.type = "WAGER_RECONCILED"
         \/ row.wager = NoWager
         \/ ~Tracked(row.wager)
  PROVE  EntersOnce'
<1>0. Len(ledger) \in Nat
  BY DEF IInv, TypeOK
<1> SUFFICES ASSUME NEW i \in 1..Len(ledger'), NEW j \in 1..Len(ledger'),
                    i < j, ledger'[i].wager = ledger'[j].wager,
                    ledger'[i].wager # NoWager
             PROVE  ledger'[j].type = "WAGER_RECONCILED"
  BY DEF EntersOnce
<1>1. i \in 1..Len(ledger) /\ ledger'[i] = ledger[i]
  BY <1>0
<1>2. CASE j \in 1..Len(ledger)
  BY <1>1, <1>2 DEF IInv, EntersOnce
<1>3. CASE j = Len(ledger) + 1
  <2>1. ledger[i].wager = row.wager /\ row.wager # NoWager
    BY <1>1, <1>3
  <2>2. Tracked(row.wager)
    BY <1>1, <2>1 DEF Tracked
  <2> QED BY <1>3, <2>1, <2>2
<1> QED BY <1>0, <1>2, <1>3

\* _apply_bankroll_delta, when it leaves a row for its wager or one is there.
LEMMA Posting ==
  ASSUME IInv, NEW w \in Wager, NEW delta \in Int, NEW type \in EntryType,
         NEW recordZero \in BOOLEAN,
         ApplyDelta(w, type, delta, recordZero), opening' = opening,
         Tracked(w) \/ recordZero,
         type = "WAGER_RECONCILED" \/ ~Tracked(w)
  PROVE  /\ bankroll' \in Nat
         /\ ledger' \in Seq(LedgerRow)
         /\ posted' \in [Wager -> Int]
         /\ posted'[w] = posted[w] + delta
         /\ \A v \in Wager \ {w} : posted'[v] = posted[v]
         /\ \A v \in Wager : Tracked(v)' <=> (Tracked(v) \/ v = w)
         /\ LedgerIsAStatement'
         /\ EntersOnce'
<1>1. /\ bankroll' = bankroll + delta
      /\ bankroll + delta >= 0
      /\ posted' = [posted EXCEPT ![w] = @ + delta]
      /\ bankroll \in Nat
      /\ posted \in [Wager -> Int]
      /\ ledger \in Seq(LedgerRow)
  BY DEF ApplyDelta, IInv, TypeOK
<1>2. /\ bankroll' \in Nat
      /\ posted' \in [Wager -> Int]
      /\ posted'[w] = posted[w] + delta
      /\ \A v \in Wager \ {w} : posted'[v] = posted[v]
  BY <1>1
<1>3. CASE delta # 0 \/ recordZero
  <2> DEFINE row == [wager |-> w, type |-> type, amount |-> delta,
                     balance |-> bankroll + delta]
  <2>1. /\ row \in LedgerRow
        /\ row.wager = w
        /\ row.type = type
        /\ row.balance = bankroll + row.amount
        /\ bankroll' = row.balance
    BY <1>1 DEF LedgerRow
  <2>2. ledger' = Append(ledger, row)
    BY <1>3 DEF ApplyDelta
  <2>3. TypeOK /\ LedgerIsAStatement
    BY DEF IInv
  <2> HIDE DEF row
  <2>4. /\ ledger' \in Seq(LedgerRow)
        /\ Len(ledger') = Len(ledger) + 1
        /\ ledger'[Len(ledger) + 1] = row
        /\ \A i \in 1..Len(ledger) : ledger'[i] = ledger[i]
        /\ LedgerIsAStatement'
        /\ \A v \in Wager : Tracked(v)' <=> (Tracked(v) \/ row.wager = v)
    BY <2>1, <2>2, <2>3, AppendedRow
  <2>5. EntersOnce'
    BY <2>1, <2>4, AppendedEntersOnce
  <2> QED BY <1>2, <2>1, <2>4, <2>5
<1>4. CASE delta = 0 /\ ~recordZero
  <2>1. ledger' = ledger /\ bankroll' = bankroll
    BY <1>1, <1>4 DEF ApplyDelta
  <2>2. LedgerIsAStatement' /\ EntersOnce'
    BY <2>1 DEF IInv, LedgerIsAStatement, EntersOnce, BalanceBefore
  <2>3. \A v \in Wager : Tracked(v)' <=> (Tracked(v) \/ v = w)
    BY <1>4, <2>1 DEF Tracked
  <2> QED BY <1>1, <1>2, <2>1, <2>2, <2>3
<1> QED BY <1>3, <1>4

\* _reconcile_wager_effect: the wager's rows then add up to its target, and the
\* balance moved by the difference.
LEMMA Reconciling ==
  ASSUME IInv, NEW w \in Wager, NEW row \in WagerRow, NEW type \in EntryType,
         NEW recordZero \in BOOLEAN,
         Reconcile(w, row, type, recordZero), opening' = opening, risk' = risk,
         wagers' = [wagers EXCEPT ![w] = row],
         Tracked(w) \/ recordZero,
         type = "WAGER_RECONCILED" \/ ~Tracked(w)
  PROVE  /\ IInv'
         /\ Tracked(w)'
         /\ \A v \in Wager \ {w} : Tracked(v)' <=> Tracked(v)
         /\ bankroll' = bankroll - posted[w]
                          + Target(row.status, row.stake, row.price)
<1> DEFINE target == Target(row.status, row.stake, row.price)
           delta == target - posted[w]
<1>1. posted[w] \in Int /\ bankroll \in Nat
  BY DEF IInv, TypeOK
<1>2. target \in Int
  BY TargetType
<1>3. delta \in Int
  BY <1>1, <1>2
<1>4. ApplyDelta(w, type, delta, recordZero)
  BY DEF Reconcile
<1> HIDE DEF target
<1>5. /\ bankroll' \in Nat
      /\ ledger' \in Seq(LedgerRow)
      /\ posted' \in [Wager -> Int]
      /\ posted'[w] = posted[w] + delta
      /\ \A v \in Wager \ {w} : posted'[v] = posted[v]
      /\ \A v \in Wager : Tracked(v)' <=> (Tracked(v) \/ v = w)
      /\ LedgerIsAStatement'
      /\ EntersOnce'
  <2> HIDE DEF delta
  <2> QED BY <1>3, <1>4, Posting
<1>6. /\ wagers' \in [Wager -> WagerRow \cup {NoWager}]
      /\ wagers'[w] = row
      /\ row # NoWager
      /\ \A v \in Wager \ {w} : wagers'[v] = wagers[v]
  BY LedgerAssumption DEF IInv, TypeOK
<1>7. TypeOK'
  BY <1>5, <1>6 DEF IInv, TypeOK
<1>8. posted'[w] = target
  BY <1>1, <1>2, <1>5
<1>9. PostedIsTarget'
  <2> SUFFICES ASSUME NEW v \in Wager, Tracked(v)'
               PROVE  /\ Exists(v)'
                      /\ posted'[v] = Target(wagers'[v].status,
                                       wagers'[v].stake, wagers'[v].price)
    BY DEF PostedIsTarget
  <2>1. CASE v = w
    BY <2>1, <1>6, <1>8 DEF Exists, target
  <2>2. CASE v # w
    BY <2>2, <1>5, <1>6 DEF IInv, PostedIsTarget, Exists
  <2> QED BY <2>1, <2>2
<1>10. UntrackedIsFree'
  BY <1>5 DEF IInv, UntrackedIsFree
<1>11. bankroll' = bankroll - posted[w] + target
  BY <1>1, <1>2, <1>4 DEF ApplyDelta
<1> QED BY <1>5, <1>7, <1>9, <1>10, <1>11 DEF IInv, target

----------------------------------------------------------------------------
\* The invariant, transaction by transaction.

LEMMA InitInv == Init => IInv
<1> SUFFICES ASSUME Init PROVE IInv
  OBVIOUS
<1>1. Len(ledger) = 0 /\ ledger \in Seq(LedgerRow)
  BY DEF Init
<1>2. bankroll \in Nat
  BY LedgerAssumption DEF Init
<1>3. TypeOK
  BY <1>1, <1>2 DEF Init, TypeOK
<1>4. \A w \in Wager : ~Tracked(w) /\ posted[w] = 0
  BY <1>1 DEF Init, Tracked
<1>5. LedgerIsAStatement
  BY <1>1 DEF Init, LedgerIsAStatement, BalanceBefore
<1>6. EntersOnce
  BY <1>1 DEF EntersOnce
<1> QED BY <1>3, <1>4, <1>5, <1>6 DEF IInv, PostedIsTarget, UntrackedIsFree

LEMMA UpdateProfileInv ==
  ASSUME IInv, NEW amount \in Nat, NEW newRisk \in Risks,
         UpdateProfile(amount, newRisk)
  PROVE  /\ IInv'
         /\ \A w \in Wager : Tracked(w)' <=> Tracked(w)
<1>1. /\ bankroll' = amount /\ risk' = newRisk
      /\ wagers' = wagers /\ posted' = posted /\ opening' = opening
  BY DEF UpdateProfile
<1>2. bankroll \in Nat /\ TypeOK /\ LedgerIsAStatement
  BY DEF IInv, TypeOK
<1>3. CASE amount # bankroll
  <2> DEFINE row == [wager |-> NoWager, type |-> "MANUAL_BANKROLL_SET",
                     amount |-> amount - bankroll, balance |-> amount]
  <2>1. /\ row \in LedgerRow
        /\ row.wager = NoWager
        /\ row.balance = bankroll + row.amount
        /\ bankroll' = row.balance
    BY <1>1, <1>2 DEF LedgerRow, EntryType
  <2>2. ledger' = Append(ledger, row)
    BY <1>3 DEF UpdateProfile
  <2> HIDE DEF row
  <2>3. /\ ledger' \in Seq(LedgerRow)
        /\ Len(ledger') = Len(ledger) + 1
        /\ ledger'[Len(ledger) + 1] = row
        /\ \A i \in 1..Len(ledger) : ledger'[i] = ledger[i]
        /\ LedgerIsAStatement'
        /\ \A v \in Wager : Tracked(v)' <=> (Tracked(v) \/ row.wager = v)
    BY <1>1, <1>2, <2>1, <2>2, AppendedRow
  <2>4. EntersOnce'
    BY <2>1, <2>3, AppendedEntersOnce
  <2>5. \A v \in Wager : Tracked(v)' <=> Tracked(v)
    BY <2>1, <2>3, LedgerAssumption
  <2>6. TypeOK'
    BY <1>1, <2>3 DEF TypeOK, IInv
  <2>7. PostedIsTarget' /\ UntrackedIsFree'
    BY <1>1, <2>5 DEF IInv, PostedIsTarget, UntrackedIsFree, Exists
  <2> QED BY <2>3, <2>4, <2>5, <2>6, <2>7 DEF IInv
<1>4. CASE amount = bankroll
  <2>1. ledger' = ledger /\ bankroll' = bankroll
    BY <1>1, <1>4 DEF UpdateProfile
  <2> QED BY <1>1, <2>1 DEF IInv, TypeOK, PostedIsTarget, UntrackedIsFree,
             LedgerIsAStatement, BalanceBefore, EntersOnce, Tracked, Exists
<1> QED BY <1>3, <1>4

\* Writing a row of the wagers table that posts nothing.
LEMMA UnpostedInv ==
  ASSUME IInv, NEW w \in Wager, NEW row \in WagerRow, ~Tracked(w),
         wagers' = [wagers EXCEPT ![w] = row], NoPosting,
         risk' = risk, opening' = opening
  PROVE  /\ IInv'
         /\ \A v \in Wager : Tracked(v)' <=> Tracked(v)
<1>1. bankroll' = bankroll /\ ledger' = ledger /\ posted' = posted
  BY DEF NoPosting
<1>2. \A v \in Wager : Tracked(v)' <=> Tracked(v)
  BY <1>1 DEF Tracked
<1>3. /\ wagers' \in [Wager -> WagerRow \cup {NoWager}]
      /\ \A v \in Wager \ {w} : wagers'[v] = wagers[v]
  BY DEF IInv, TypeOK
<1>4. TypeOK'
  BY <1>1, <1>3 DEF IInv, TypeOK
<1>5. PostedIsTarget'
  BY <1>1, <1>2, <1>3 DEF IInv, PostedIsTarget, Exists
<1>6. UntrackedIsFree' /\ LedgerIsAStatement' /\ EntersOnce'
  BY <1>1, <1>2 DEF IInv, UntrackedIsFree, LedgerIsAStatement, BalanceBefore,
                    EntersOnce
<1> QED BY <1>2, <1>4, <1>5, <1>6 DEF IInv

\* A transaction on wager w that leaves the row: what it does to the account.
Accounts(w, row) ==
  /\ wagers' = [wagers EXCEPT ![w] = row]
  /\ Tracked(w) => Tracked(w)'
  /\ \A v \in Wager \ {w} : Tracked(v)' <=> Tracked(v)
  /\ Tracked(w)' => bankroll' = bankroll - posted[w]
                                 + Target(row.status, row.stake, row.price)
  /\ ~Tracked(w)' => bankroll' = bankroll

LEMMA CreateWagerInv ==
  ASSUME IInv, NEW w \in Wager, NEW row \in WagerRow, CreateWager(w, row)
  PROVE  IInv' /\ Accounts(w, row)
<1>1. /\ ~Exists(w)
      /\ wagers' = [wagers EXCEPT ![w] = row]
      /\ risk' = risk /\ opening' = opening
  BY DEF CreateWager
<1>2. ~Tracked(w)
  BY <1>1 DEF IInv, PostedIsTarget
<1>3. CASE row.stake # NoStake
  <2>1. Reconcile(w, row, "WAGER_CREATED", TRUE)
    BY <1>3 DEF CreateWager
  <2>2. "WAGER_CREATED" \in EntryType
    BY DEF EntryType
  <2> QED BY <1>1, <1>2, <2>1, <2>2, Reconciling DEF Accounts
<1>4. CASE row.stake = NoStake
  <2>1. NoPosting
    BY <1>4 DEF CreateWager
  <2>2. IInv' /\ \A v \in Wager : Tracked(v)' <=> Tracked(v)
    BY <1>1, <1>2, <2>1, UnpostedInv
  <2> QED BY <1>1, <1>2, <2>1, <2>2 DEF Accounts, NoPosting
<1> QED BY <1>3, <1>4

Patched(w, status, stake) ==
  [wagers[w] EXCEPT !.status = status, !.stake = stake]

LEMMA PatchWagerInv ==
  ASSUME IInv, NEW w \in Wager, NEW status \in WagerStatus,
         NEW stake \in Stakes \cup {NoStake}, PatchWager(w, status, stake)
  PROVE  /\ Exists(w)
         /\ Patched(w, status, stake) \in WagerRow
         /\ Patched(w, status, stake).price = wagers[w].price
         /\ IInv' /\ Accounts(w, Patched(w, status, stake))
<1> DEFINE after == Patched(w, status, stake)
<1>1. /\ Exists(w)
      /\ wagers' = [wagers EXCEPT ![w] = after]
      /\ risk' = risk /\ opening' = opening
  BY DEF PatchWager, Patched
<1>2. after \in WagerRow /\ after.price = wagers[w].price
  BY <1>1 DEF IInv, TypeOK, Exists, WagerRow, Patched
<1>3. \/ Tracked(w) /\ Reconcile(w, after, "WAGER_RECONCILED", FALSE)
      \/ ~Tracked(w) /\ Reconcile(w, after, "LEGACY_WAGER_ADOPTED", TRUE)
      \/ ~Tracked(w) /\ NoPosting
  BY DEF PatchWager, Patched
<1>4. /\ "WAGER_RECONCILED" \in EntryType
      /\ "LEGACY_WAGER_ADOPTED" \in EntryType
  BY DEF EntryType
<1> HIDE DEF after
<1>5. CASE Tracked(w) /\ Reconcile(w, after, "WAGER_RECONCILED", FALSE)
  <2>1. IInv' /\ Accounts(w, after)
    BY <1>1, <1>2, <1>4, <1>5, Reconciling DEF Accounts
  <2> QED BY <1>1, <1>2, <2>1 DEF after
<1>6. CASE ~Tracked(w) /\ Reconcile(w, after, "LEGACY_WAGER_ADOPTED", TRUE)
  <2>1. IInv' /\ Accounts(w, after)
    BY <1>1, <1>2, <1>4, <1>6, Reconciling DEF Accounts
  <2> QED BY <1>1, <1>2, <2>1 DEF after
<1>7. CASE ~Tracked(w) /\ NoPosting
  <2>1. IInv' /\ \A v \in Wager : Tracked(v)' <=> Tracked(v)
    BY <1>1, <1>2, <1>7, UnpostedInv
  <2>2. Accounts(w, after)
    BY <1>1, <1>7, <2>1 DEF Accounts, NoPosting
  <2> QED BY <1>1, <1>2, <2>1, <2>2 DEF after
<1> QED BY <1>3, <1>5, <1>6, <1>7

LEMMA StepInv == IInv /\ [Next]_dbVars => IInv'
<1> SUFFICES ASSUME IInv, [Next]_dbVars PROVE IInv'
  OBVIOUS
<1>1. ASSUME NEW amount \in Balances \cup {bankroll}, NEW newRisk \in Risks,
             UpdateProfile(amount, newRisk)
      PROVE  IInv'
  <2>1. amount \in Nat
    BY LedgerAssumption DEF IInv, TypeOK
  <2> QED BY <1>1, <2>1, UpdateProfileInv
<1>2. ASSUME NEW w \in Wager, NEW row \in WagerRow, CreateWager(w, row)
      PROVE  IInv'
  BY <1>2, CreateWagerInv
<1>3. ASSUME NEW w \in Wager, NEW status \in WagerStatus,
             NEW stake \in Stakes \cup {NoStake}, PatchWager(w, status, stake)
      PROVE  IInv'
  BY <1>3, PatchWagerInv
<1>4. CASE UNCHANGED dbVars
  BY <1>4 DEF dbVars, IInv, TypeOK, PostedIsTarget, UntrackedIsFree,
     LedgerIsAStatement, BalanceBefore, EntersOnce, Tracked, Exists
<1> QED BY <1>1, <1>2, <1>3, <1>4 DEF Next

(***************************************************************************)
(* The database of backend/db.py stays well formed; in particular the      *)
(* bankroll and every balance the ledger records are never negative.       *)
(***************************************************************************)
THEOREM TypeCorrect == Spec => []TypeOK
<1>1. Spec => []IInv
  BY InitInv, StepInv, PTL DEF Spec
<1>2. IInv => TypeOK
  BY DEF IInv
<1> QED BY <1>1, <1>2, PTL

(***************************************************************************)
(* After any sequence of profile updates, creations, results, corrections, *)
(* adoptions and stake edits, a wager's ledger rows add up to what it is   *)
(* worth now, and an untracked wager has moved no money.                   *)
(***************************************************************************)
THEOREM PostingsCorrect == Spec => [](PostedIsTarget /\ UntrackedIsFree)
<1>1. Spec => []IInv
  BY InitInv, StepInv, PTL DEF Spec
<1>2. IInv => PostedIsTarget /\ UntrackedIsFree
  BY DEF IInv
<1> QED BY <1>1, <1>2, PTL

(***************************************************************************)
(* Every balance follows from the row before it, the bankroll is the last  *)
(* one, and a wager enters the ledger once.                                *)
(***************************************************************************)
THEOREM StatementCorrect == Spec => [](LedgerIsAStatement /\ EntersOnce)
<1>1. Spec => []IInv
  BY InitInv, StepInv, PTL DEF Spec
<1>2. IInv => LedgerIsAStatement /\ EntersOnce
  BY DEF IInv
<1> QED BY <1>1, <1>2, PTL

----------------------------------------------------------------------------
\* The refinement of Bankroll.

LEMMA SameEntry == Account!Entry = WagerRow
  BY DEF Account!Entry, WagerRow, Account!WagerStatus, WagerStatus

LEMMA SameTarget ==
  ASSUME NEW status, NEW stake, NEW price
  PROVE  Account!Target(status, stake, price) = Target(status, stake, price)
  BY DEF Account!Target, Target, Account!Profit, Profit, Account!HalfUp, HalfUp

LEMMA InitRefines == Init => Account!BookInit
<1> SUFFICES ASSUME Init PROVE Account!BookInit
  OBVIOUS
<1>1. TypeOK
  BY InitInv DEF IInv
<1>2. \A w \in Wager : ~Tracked(w)
  BY DEF Init, Tracked
<1> QED BY <1>1, <1>2, SameEntry DEF Account!BookInit, TypeOK

\* What a wager stands at in the account is what its ledger rows add up to.
WorthPosted == \A w \in Wager : Account!Worth(w) = posted[w]

LEMMA WorthIsPosted == IInv => WorthPosted
  BY SameTarget
     DEF IInv, PostedIsTarget, UntrackedIsFree, WorthPosted, Account!Worth

\* A transaction on one wager is a Move of the account.
LEMMA AccountsIsMove ==
  ASSUME IInv, IInv', NEW w \in Wager, NEW row \in WagerRow,
         Exists(w) => row.price = wagers[w].price,
         Accounts(w, row)
  PROVE  Account!Move(w)
<1>1. TypeOK /\ TypeOK' /\ WorthPosted
  BY WorthIsPosted DEF IInv
<1>2. WorthPosted'
  BY WorthIsPosted, PTL
<1>3. /\ posted[w] \in Int /\ posted'[w] \in Int
      /\ bankroll \in Nat /\ bankroll' \in Nat
  BY <1>1 DEF TypeOK
<1>4. wagers' = [wagers EXCEPT ![w] = row] /\ wagers'[w] = row
  BY <1>1 DEF Accounts, TypeOK
<1>5. {v \in Wager : Tracked(v)}' \in {{v \in Wager : Tracked(v)},
                                     {v \in Wager : Tracked(v)} \cup {w}}
  <2>1. CASE Tracked(w)'
    <3>1. {v \in Wager : Tracked(v)}' = {v \in Wager : Tracked(v)} \cup {w}
      BY <2>1 DEF Accounts
    <3> QED BY <3>1
  <2>2. CASE ~Tracked(w)'
    <3>1. {v \in Wager : Tracked(v)}' = {v \in Wager : Tracked(v)}
      BY <2>2 DEF Accounts
    <3> QED BY <3>1
  <2> QED BY <2>1, <2>2
<1>6. bankroll' = bankroll + posted'[w] - posted[w]
  <2>1. CASE Tracked(w)'
    <3>1. posted'[w] = Target(row.status, row.stake, row.price)
      BY <1>4, <2>1 DEF IInv, PostedIsTarget
    <3> QED BY <1>3, <2>1, <3>1 DEF Accounts
  <2>2. CASE ~Tracked(w)'
    <3>1. posted'[w] = 0 /\ posted[w] = 0
      BY <2>2 DEF Accounts, IInv, UntrackedIsFree
    <3> QED BY <1>3, <2>2, <3>1 DEF Accounts
  <2> QED BY <2>1, <2>2
<1>7. bankroll' = bankroll + Account!Worth(w)' - Account!Worth(w)
  BY <1>1, <1>2, <1>6 DEF WorthPosted
<1>8. \E entry \in Account!Entry :
        /\ wagers[w] # NoWager => entry.price = wagers[w].price
        /\ wagers' = [wagers EXCEPT ![w] = entry]
  BY <1>4, SameEntry DEF Exists
<1>9. bankroll' >= 0
  BY <1>3
<1> QED BY <1>5, <1>7, <1>8, <1>9 DEF Account!Move

LEMMA StepRefines ==
  IInv /\ [Next]_dbVars => [Account!BookNext]_(Account!bookVars)
<1> SUFFICES ASSUME IInv, [Next]_dbVars
             PROVE  [Account!BookNext]_(Account!bookVars)
  OBVIOUS
<1>0. IInv'
  BY StepInv
<1>1. ASSUME NEW amount \in Balances \cup {bankroll}, NEW newRisk \in Risks,
             UpdateProfile(amount, newRisk)
      PROVE  Account!Declare
  <2>1. amount \in Nat
    BY LedgerAssumption DEF IInv, TypeOK
  <2>2. \A w \in Wager : Tracked(w)' <=> Tracked(w)
    BY <1>1, <2>1, UpdateProfileInv
  <2>3. {w \in Wager : Tracked(w)}' = {w \in Wager : Tracked(w)}
    BY <2>2
  <2>4. bankroll' = amount /\ wagers' = wagers
    BY <1>1 DEF UpdateProfile
  <2> QED BY <2>1, <2>3, <2>4 DEF Account!Declare
<1>2. ASSUME NEW w \in Wager, NEW row \in WagerRow, CreateWager(w, row)
      PROVE  Account!Move(w)
  <2>1. Accounts(w, row)
    BY <1>2, CreateWagerInv
  <2>2. ~Exists(w)
    BY <1>2 DEF CreateWager
  <2> QED BY <1>0, <2>1, <2>2, AccountsIsMove
<1>3. ASSUME NEW w \in Wager, NEW status \in WagerStatus,
             NEW stake \in Stakes \cup {NoStake}, PatchWager(w, status, stake)
      PROVE  Account!Move(w)
  BY <1>0, <1>3, PatchWagerInv, AccountsIsMove
<1>4. CASE UNCHANGED dbVars
  BY <1>4 DEF dbVars, Account!bookVars, Tracked
<1> QED BY <1>1, <1>2, <1>3, <1>4 DEF Next, Account!BookNext

(***************************************************************************)
(* The transactions of backend/db.py, which work from the ledger's rows,   *)
(* keep the promise of Bankroll, which knows none: whatever a wager went   *)
(* through, it stands in the balance at its current worth.                 *)
(***************************************************************************)
THEOREM LedgerImplementsBankroll == Spec => ImplementsBankroll
<1>1. Spec => []IInv
  BY InitInv, StepInv, PTL DEF Spec
<1> QED BY <1>1, InitRefines, StepRefines, PTL
        DEF Spec, ImplementsBankroll, Account!BookSpec

-----------------------------------------------------------------------------
(***************************************************************************)
(* The summary adds up.                                                    *)
(***************************************************************************)

\* A row more adds its amount to the sums that count its wager, and to no other.
LEMMA RowAdded ==
  ASSUME TypeOK, NEW row \in LedgerRow, ledger' = Append(ledger, row), NEW S
  PROVE  /\ SumOfRows(S) \in Int
         /\ row.wager \in S => SumOfRows(S)' = SumOfRows(S) + row.amount
         /\ row.wager \notin S => SumOfRows(S)' = SumOfRows(S)
<1>. DEFINE n == Len(ledger)
            all == 1..(n + 1)
            rows == RowsOf(S)
<1>1. n \in Nat /\ ledger \in Seq(LedgerRow) /\ row.amount \in Int
  BY DEF TypeOK, LedgerRow
<1>2. /\ Len(ledger') = n + 1 /\ ledger'[n + 1] = row
      /\ \A i \in 1..n : i \in all /\ ledger'[i] = ledger[i] /\ ledger[i].amount \in Int
      /\ \A i \in all : i \in 1..n \/ i = n + 1
      /\ n + 1 \in all /\ n + 1 \notin 1..n
  <2>1. \A i \in 1..n : ledger[i] \in LedgerRow
    BY <1>1
  <2>2. \A i \in 1..n : ledger[i].amount \in Int
    BY <2>1 DEF LedgerRow
  <2>. QED  BY <1>1, <2>2
<1>3. IsFiniteSet(all) /\ IsFiniteSet(1..n)
  BY <1>1, FS_Interval
<1>4. PICK f : f = Amounts
  OBVIOUS
<1>5. PICK g : g = Amounts'
  OBVIOUS
<1>. HIDE DEF n, all
<1>6. \A i \in 1..n : f[i] \in Int /\ g[i] = f[i]
  BY <1>2, <1>4, <1>5 DEF Amounts, n, all
<1>7. \A i \in all : g[i] \in Int
  BY <1>1, <1>2, <1>5, <1>6 DEF Amounts, all
<1>8. g[n + 1] = row.amount
  BY <1>2, <1>5 DEF Amounts, all
<1>9. rows \in SUBSET (1..n) /\ rows \in SUBSET all /\ n + 1 \notin rows
  BY <1>2 DEF RowsOf, n
<1>10. SumFunctionOnSet(f, rows) \in Int
  BY <1>3, <1>6, <1>9, SumType
<1>11. SumFunctionOnSet(g, rows) = SumFunctionOnSet(f, rows)
  <2>1. PICK K : K = 1..n
    OBVIOUS
  <2>2. IsFiniteSet(K) /\ \A i \in K : f[i] \in Int /\ g[i] = f[i]
    BY <1>3, <1>6, <2>1
  <2>3. \A T \in SUBSET K : SumFunctionOnSet(f, T) = SumFunctionOnSet(g, T)
    BY <2>2, SumAgrees
  <2>. QED  BY <1>9, <2>1, <2>3
<1>12. CASE row.wager \in S
  <2>1. RowsOf(S)' = rows \cup {n + 1}
    BY <1>2, <1>12 DEF RowsOf, n, all
  <2>2. rows \cup {n + 1} \in SUBSET all /\ (rows \cup {n + 1}) \ {n + 1} = rows
    BY <1>2, <1>9
  <2>3. SumFunctionOnSet(g, rows \cup {n + 1}) = g[n + 1] + SumFunctionOnSet(g, (rows \cup {n + 1}) \ {n + 1})
    BY <1>3, <1>7, <2>2, SumRemoves
  <2>4. SumOfRows(S) = SumFunctionOnSet(f, rows)
    BY <1>4 DEF SumOfRows
  <2>5. SumOfRows(S)' = SumFunctionOnSet(g, rows \cup {n + 1})
    BY <1>5, <2>1 DEF SumOfRows
  <2>6. SumFunctionOnSet(g, rows \cup {n + 1}) = row.amount + SumFunctionOnSet(f, rows)
    BY <1>8, <1>11, <2>2, <2>3
  <2>. QED  BY <1>1, <1>10, <1>12, <2>4, <2>5, <2>6
<1>13. CASE row.wager \notin S
  <2>1. RowsOf(S)' = rows
    BY <1>2, <1>13 DEF RowsOf, n, all
  <2>. QED  BY <1>4, <1>5, <1>10, <1>11, <1>13, <2>1 DEF SumOfRows
<1>. QED  BY <1>12, <1>13

\* Whoever a row is of.
Accounted == Wager \cup {NoWager}

\* What the sums are of, step by step.
SumInv == PostedIsSum /\ bankroll = opening + SumOfRows(Accounted)

LEMMA SumsInitially == Init => SumInv
<1>. SUFFICES ASSUME Init PROVE SumInv
  OBVIOUS
<1>1. ledger = <<>>
  BY DEF Init
<1>2. \A S : RowsOf(S) = {}
  BY <1>1 DEF RowsOf
<1>3. IsFiniteSet({})
  BY FS_EmptySet
<1>4. \A S : SumOfRows(S) = 0
  BY <1>2, <1>3, SumChooses DEF SumOfRows
<1>5. bankroll \in Nat
  BY InitInv DEF IInv, TypeOK
<1>. QED  BY <1>4, <1>5 DEF Init, SumInv, PostedIsSum

\* A move of the balance that leaves a row.
LEMMA SumsOfRow ==
  ASSUME TypeOK, SumInv, NEW row \in LedgerRow, ledger' = Append(ledger, row),
         bankroll' = bankroll + row.amount, opening' = opening,
         \A w \in Wager : posted'[w] = posted[w] + (IF w = row.wager THEN row.amount ELSE 0)
  PROVE  SumInv'
<1>1. row.amount \in Int /\ row.wager \in Accounted /\ bankroll \in Int /\ opening \in Int
  BY DEF LedgerRow, Accounted, TypeOK
<1>2. SumOfRows(Accounted) \in Int /\ SumOfRows(Accounted)' = SumOfRows(Accounted) + row.amount
  BY <1>1, RowAdded
<1>3. ASSUME NEW w \in Wager PROVE posted'[w] = SumOfRows({w})'
  <2>1. /\ w = row.wager => SumOfRows({w})' = SumOfRows({w}) + row.amount
        /\ w # row.wager => SumOfRows({w})' = SumOfRows({w})
    BY RowAdded
  <2>2. SumOfRows({w}) \in Int
    BY RowAdded
  <2>3. posted[w] = SumOfRows({w})
    BY DEF SumInv, PostedIsSum
  <2>. QED  BY <1>1, <2>1, <2>2, <2>3
<1>4. bankroll = opening + SumOfRows(Accounted)
  BY DEF SumInv
<1>5. bankroll' = opening' + SumOfRows(Accounted)'
  BY <1>1, <1>2, <1>4
<1>. QED  BY <1>3, <1>5 DEF SumInv, PostedIsSum

LEMMA SumsOfPosting ==
  ASSUME TypeOK, SumInv, NEW w \in Wager, NEW delta \in Int, NEW type \in EntryType,
         NEW recordZero, ApplyDelta(w, type, delta, recordZero), opening' = opening
  PROVE  SumInv'
<1>1. /\ bankroll \in Nat /\ posted \in [Wager -> Int] /\ bankroll + delta >= 0
      /\ bankroll' = bankroll + delta /\ posted' = [posted EXCEPT ![w] = @ + delta]
  BY DEF TypeOK, ApplyDelta
<1>2. CASE delta # 0 \/ recordZero
  <2>1. PICK row : row = [wager |-> w, type |-> type, amount |-> delta, balance |-> bankroll + delta]
    OBVIOUS
  <2>2. row \in LedgerRow /\ row.wager = w /\ row.amount = delta
    BY <1>1, <2>1 DEF LedgerRow
  <2>3. ledger' = Append(ledger, row)
    BY <1>2, <2>1 DEF ApplyDelta
  <2>4. \A v \in Wager : posted'[v] = posted[v] + (IF v = row.wager THEN row.amount ELSE 0)
    BY <1>1, <2>2
  <2>. QED  BY <1>1, <2>2, <2>3, <2>4, SumsOfRow
<1>3. CASE delta = 0 /\ ~recordZero
  <2>1. ledger' = ledger /\ bankroll' = bankroll /\ posted' = posted
    BY <1>1, <1>3 DEF ApplyDelta
  <2>. QED  BY <2>1 DEF SumInv, PostedIsSum, SumOfRows, RowsOf, Amounts
<1>. QED  BY <1>2, <1>3

LEMMA SumsKept == IInv /\ SumInv /\ [Next]_dbVars => SumInv'
<1>. SUFFICES ASSUME IInv, SumInv, [Next]_dbVars PROVE SumInv'
  OBVIOUS
<1>0. TypeOK
  BY DEF IInv
<1>1. ASSUME UNCHANGED <<bankroll, ledger, posted, opening>> PROVE SumInv'
  BY <1>1 DEF SumInv, PostedIsSum, SumOfRows, RowsOf, Amounts
<1>2. ASSUME NEW w \in Wager, NEW row \in WagerRow, NEW type \in EntryType, NEW recordZero,
             Reconcile(w, row, type, recordZero), opening' = opening
      PROVE  SumInv'
  <2>1. PICK delta : delta = Target(row.status, row.stake, row.price) - posted[w]
    OBVIOUS
  <2>2. posted[w] \in Int
    BY <1>0 DEF TypeOK
  <2>3. delta \in Int
    BY <2>1, <2>2, TargetType
  <2>4. ApplyDelta(w, type, delta, recordZero)
    BY <1>2, <2>1 DEF Reconcile
  <2>. QED  BY <1>0, <1>2, <2>3, <2>4, SumsOfPosting
<1>3. ASSUME NEW amount \in Balances \cup {bankroll}, NEW newRisk \in Risks, UpdateProfile(amount, newRisk)
      PROVE  SumInv'
  <2>1. amount \in Nat /\ bankroll \in Nat /\ posted \in [Wager -> Int]
    BY <1>0, LedgerAssumption DEF TypeOK
  <2>2. CASE amount = bankroll
    BY <1>1, <1>3, <2>2 DEF UpdateProfile
  <2>3. CASE amount # bankroll
    <3>1. PICK row : row = [wager |-> NoWager, type |-> "MANUAL_BANKROLL_SET",
                            amount |-> amount - bankroll, balance |-> amount]
      OBVIOUS
    <3>2. row \in LedgerRow /\ row.wager = NoWager /\ bankroll + row.amount = amount
      BY <2>1, <3>1 DEF LedgerRow, EntryType
    <3>3. ledger' = Append(ledger, row) /\ bankroll' = amount /\ posted' = posted /\ opening' = opening
      BY <1>3, <2>3, <3>1 DEF UpdateProfile
    <3>4. \A v \in Wager : posted'[v] = posted[v] + (IF v = row.wager THEN row.amount ELSE 0)
      BY <2>1, <3>2, <3>3, LedgerAssumption
    <3>. QED  BY <1>0, <3>2, <3>3, <3>4, SumsOfRow
  <2>. QED  BY <2>2, <2>3
<1>4. ASSUME NEW w \in Wager, NEW row \in WagerRow, CreateWager(w, row) PROVE SumInv'
  <2>1. "WAGER_CREATED" \in EntryType
    BY DEF EntryType
  <2>. QED  BY <1>1, <1>2, <1>4, <2>1 DEF CreateWager, NoPosting
<1>5. ASSUME NEW w \in Wager, NEW status \in WagerStatus, NEW stake \in Stakes \cup {NoStake},
             PatchWager(w, status, stake)
      PROVE  SumInv'
  <2>1. PICK row : row = [wagers[w] EXCEPT !.status = status, !.stake = stake]
    OBVIOUS
  <2>2. row \in WagerRow
    BY <1>0, <1>5, <2>1 DEF PatchWager, Exists, TypeOK, WagerRow
  <2>3. "WAGER_RECONCILED" \in EntryType /\ "LEGACY_WAGER_ADOPTED" \in EntryType
    BY DEF EntryType
  <2>4. opening' = opening
        /\ \/ Reconcile(w, row, "WAGER_RECONCILED", FALSE)
           \/ Reconcile(w, row, "LEGACY_WAGER_ADOPTED", TRUE)
           \/ NoPosting
    BY <1>5, <2>1 DEF PatchWager
  <2>. QED  BY <1>1, <1>2, <2>2, <2>3, <2>4 DEF NoPosting
<1>. QED  BY <1>1, <1>3, <1>4, <1>5 DEF Next, dbVars

\* The rows of wagers that are told apart are.
LEMMA RowsOfBoth ==
  ASSUME TypeOK, NEW S, NEW U, S \cap U = {}
  PROVE  /\ SumOfRows(S) \in Int /\ SumOfRows(U) \in Int
         /\ SumOfRows(S \cup U) = SumOfRows(S) + SumOfRows(U)
<1>1. PICK K : K = 1..Len(ledger)
  OBVIOUS
<1>2. PICK f : f = Amounts
  OBVIOUS
<1>3. IsFiniteSet(K)
  BY <1>1, FS_Interval DEF TypeOK
<1>4. \A i \in K : f[i] \in Int
  <2>1. \A i \in K : ledger[i] \in LedgerRow
    BY <1>1 DEF TypeOK
  <2>. QED  BY <1>1, <1>2, <2>1 DEF Amounts, LedgerRow
<1>5. RowsOf(S) \in SUBSET K /\ RowsOf(U) \in SUBSET (K \ RowsOf(S)) /\ RowsOf(U) \in SUBSET K
      /\ RowsOf(S \cup U) = RowsOf(S) \cup RowsOf(U)
  BY <1>1 DEF RowsOf
<1>6. SumFunctionOnSet(f, RowsOf(S)) \in Int /\ SumFunctionOnSet(f, RowsOf(U)) \in Int
  BY <1>3, <1>4, <1>5, SumType
<1>7. SumFunctionOnSet(f, RowsOf(S) \cup RowsOf(U)) = SumFunctionOnSet(f, RowsOf(S)) + SumFunctionOnSet(f, RowsOf(U))
  BY <1>3, <1>4, <1>5, SumOfBoth
<1>. QED  BY <1>2, <1>5, <1>6, <1>7 DEF SumOfRows

\* What the rows of some wagers add up to is what was posted of each.
LEMMA RowsGrouped ==
  ASSUME TypeOK, PostedIsSum, NEW P \in SUBSET Wager, IsFiniteSet(P)
  PROVE  SumOfRows(P) = SumFunctionOnSet(posted, P)
<1>. DEFINE B == {T \in SUBSET P : SumOfRows(T) # SumFunctionOnSet(posted, T)}
<1>. SUFFICES ASSUME B # {} PROVE FALSE
  OBVIOUS
<1>1. PICK T \in B : IsFiniteSet(T) /\ \A x \in T : T \ {x} \notin B
  BY LeastSubset
<1>2. \A w \in P : posted[w] \in Int
  BY DEF TypeOK
<1>3. CASE T = {}
  <2>1. RowsOf(T) = {} /\ IsFiniteSet({})
    BY <1>3, FS_EmptySet DEF RowsOf
  <2>2. SumFunctionOnSet(Amounts, {}) = 0 /\ SumFunctionOnSet(posted, {}) = 0
    BY <2>1, SumChooses
  <2>. QED  BY <1>1, <1>3, <2>1, <2>2 DEF SumOfRows
<1>4. CASE T # {}
  <2>1. PICK w \in T : TRUE
    BY <1>4
  <2>2. T = {w} \cup (T \ {w}) /\ {w} \cap (T \ {w}) = {}
    OBVIOUS
  <2>3. SumOfRows(T) = SumOfRows({w}) + SumOfRows(T \ {w})
    BY <2>2, RowsOfBoth
  <2>4. SumFunctionOnSet(posted, T) = posted[w] + SumFunctionOnSet(posted, T \ {w})
    BY <1>2, SumRemoves
  <2>5. SumOfRows(T \ {w}) = SumFunctionOnSet(posted, T \ {w}) /\ SumOfRows({w}) = posted[w]
    BY <1>1 DEF PostedIsSum
  <2>. QED  BY <1>1, <2>3, <2>4, <2>5
<1>. QED  BY <1>3, <1>4

\* The wagers of the ledger are finitely many.
LEMMA TrackedAreFinite ==
  ASSUME TypeOK, NEW P, \A w \in P : Tracked(w)
  PROVE  IsFiniteSet(P)
<1>. DEFINE I == {i \in 1..Len(ledger) : ledger[i].wager \in P}
            f == [i \in I |-> ledger[i].wager]
<1>1. IsFiniteSet(1..Len(ledger))
  BY FS_Interval DEF TypeOK
<1>2. IsFiniteSet(I)
  BY <1>1, FS_Subset
<1>3. f \in Surjection(I, P)
  BY DEF Surjection, Tracked
<1>. QED  BY <1>2, <1>3, FS_Surjection

LEMMA SummaryFollows == IInv /\ SumInv => SummaryBalances
<1>. SUFFICES ASSUME IInv, SumInv PROVE SummaryBalances
  OBVIOUS
<1>0. TypeOK /\ PostedIsSum /\ PostedIsTarget
  BY DEF IInv, SumInv
<1>1. PICK settled : settled = SettledTracked
  OBVIOUS
<1>2. PICK open : open = OpenTracked
  OBVIOUS
<1>3. PICK bare : bare = {w \in Wager : Tracked(w) /\ wagers[w].status = "OPEN" /\ wagers[w].stake = NoStake}
  OBVIOUS
<1>4. \A w \in Wager : Tracked(w) =>
        /\ Exists(w) /\ wagers[w] \in WagerRow
        /\ posted[w] = Target(wagers[w].status, wagers[w].stake, wagers[w].price)
  BY <1>0 DEF PostedIsTarget, TypeOK, Exists
<1>5. \A w \in Wager : Tracked(w) => w \in settled \/ w \in open \/ w \in bare
  BY <1>1, <1>2, <1>3, <1>4 DEF SettledTracked, OpenTracked, SettledStatus, WagerRow
<1>6. /\ settled \in SUBSET Wager /\ open \in SUBSET Wager /\ bare \in SUBSET Wager
      /\ {NoWager} \cap (settled \cup (open \cup bare)) = {}
      /\ settled \cap (open \cup bare) = {} /\ open \cap bare = {}
      /\ \A w \in open : Tracked(w) /\ wagers[w].status = "OPEN" /\ wagers[w].stake # NoStake
      /\ \A w \in bare : Tracked(w) /\ wagers[w].status = "OPEN" /\ wagers[w].stake = NoStake
  BY <1>1, <1>2, <1>3, LedgerAssumption DEF SettledTracked, OpenTracked, SettledStatus
<1>7. RowsOf(Accounted) = RowsOf({NoWager} \cup (settled \cup (open \cup bare)))
  <2>1. \A i \in 1..Len(ledger) : ledger[i].wager \in Wager \cup {NoWager}
    <3>1. \A i \in 1..Len(ledger) : ledger[i] \in LedgerRow
      BY <1>0 DEF TypeOK
    <3>. QED  BY <3>1 DEF LedgerRow
  <2>2. \A i \in 1..Len(ledger) : ledger[i].wager \in Wager => Tracked(ledger[i].wager)
    BY DEF Tracked
  <2>. QED  BY <1>5, <1>6, <2>1, <2>2 DEF RowsOf, Accounted
<1>8. SumOfRows(Accounted) = SumOfRows({NoWager} \cup (settled \cup (open \cup bare)))
  BY <1>7 DEF SumOfRows
<1>9. SumOfRows({NoWager} \cup (settled \cup (open \cup bare)))
        = SumOfRows({NoWager}) + SumOfRows(settled \cup (open \cup bare))
  BY <1>0, <1>6, RowsOfBoth
<1>10. SumOfRows(settled \cup (open \cup bare)) = SumOfRows(settled) + SumOfRows(open \cup bare)
  BY <1>0, <1>6, RowsOfBoth
<1>11. SumOfRows(open \cup bare) = SumOfRows(open) + SumOfRows(bare)
  BY <1>0, <1>6, RowsOfBoth
<1>12. SumOfRows({NoWager}) \in Int /\ SumOfRows(settled) \in Int
  BY <1>0, <1>6, RowsOfBoth
<1>13. IsFiniteSet(open) /\ IsFiniteSet(bare)
  BY <1>0, <1>6, TrackedAreFinite
<1>14. SumOfRows(open) = -OpenStakes /\ OpenStakes \in Int
  <2>1. PICK f : f = [w \in open |-> wagers[w].stake]
    OBVIOUS
  <2>2. \A w \in open : f[w] \in Int /\ posted[w] = -f[w]
    <3>. SUFFICES ASSUME NEW w \in open PROVE f[w] \in Int /\ posted[w] = -f[w]
      OBVIOUS
    <3>1. wagers[w].stake \in Stakes /\ f[w] = wagers[w].stake
      BY <1>4, <1>6, <2>1 DEF WagerRow
    <3>2. f[w] \in Int
      <4>1. f[w] \in 0..MaxMoney /\ MaxMoney \in Nat
        BY <3>1, LedgerAssumption
      <4>. QED  BY <4>1
    <3>3. posted[w] = -wagers[w].stake
      BY <1>4, <1>6 DEF Target
    <3>. QED  BY <3>1, <3>2, <3>3
  <2>3. SumFunctionOnSet(posted, open) = -SumFunctionOnSet(f, open)
    BY <1>13, <2>2, SumNegates
  <2>4. SumFunctionOnSet(f, open) \in Int
    BY <1>13, <2>2, SumType
  <2>5. SumOfRows(open) = SumFunctionOnSet(posted, open)
    BY <1>0, <1>6, <1>13, RowsGrouped
  <2>. QED  BY <1>2, <2>1, <2>3, <2>4, <2>5 DEF OpenStakes
<1>15. SumOfRows(bare) = 0
  <2>1. \A w \in bare : posted[w] \in Int /\ posted[w] = -posted[w]
    BY <1>4, <1>6 DEF Target
  <2>2. SumFunctionOnSet(posted, bare) = -SumFunctionOnSet(posted, bare)
    BY <1>13, <2>1, SumNegates
  <2>3. SumFunctionOnSet(posted, bare) \in Int
    BY <1>13, <2>1, SumType
  <2>4. SumOfRows(bare) = SumFunctionOnSet(posted, bare)
    BY <1>0, <1>6, <1>13, RowsGrouped
  <2>. QED  BY <2>2, <2>3, <2>4
<1>16. bankroll = opening + SumOfRows(Accounted) /\ opening \in Int
  BY <1>0 DEF SumInv, TypeOK
<1>17. RealizedPL = SumOfRows(settled)
  BY <1>1 DEF RealizedPL
<1>18. bankroll = opening + SumOfRows({NoWager}) + RealizedPL - OpenStakes
  BY <1>8, <1>9, <1>10, <1>11, <1>12, <1>14, <1>15, <1>16, <1>17
<1>. QED  BY <1>0, <1>18 DEF SummaryBalances

\* Whatever happens to wagers and bankroll: the sum that _ledger_effect asks for is what
\* was posted, and what GET /bankroll shows adds up to the current bankroll
\* (bankroll_summary).
THEOREM SummaryCorrect == Spec => []SummaryBalances
<1>1. IInv /\ SumInv /\ [Next]_dbVars => IInv' /\ SumInv'
  BY StepInv, SumsKept
<1>. QED  BY <1>1, InitInv, SumsInitially, SummaryFollows, PTL DEF Spec

-----------------------------------------------------------------------------
(***************************************************************************)
(* The endpoints: a key names one wager, and a dialog submitted again does *)
(* no harm.                                                                *)
(***************************************************************************)

Submitted(r) == request[r].pc \in {"sent", "checked", "post"}

\* What the requests in flight hold: a POST has a key that a dialog made.
KeysInFlight ==
  /\ request = [r \in Req |-> request[r]]
  /\ \A r \in Req : Submitted(r) => request[r].key \in Key

\* What makes the uniqueness of keys inductive.
KeyInv ==
  /\ keyOf \in [Wager -> Key \cup {NoKey}]
  /\ KeysInFlight
  /\ OneWagerPerKey

\* A new account has no wager, and no request is in flight.
LEMMA KeysInitially == ApiInit => KeyInv
  BY ApiAssumption DEF ApiInit, KeyInv, KeysInFlight, Submitted, OneWagerPerKey, Idle

\* A step that leaves the wagers' keys alone, and only lets a request hold a key
\* of Key, preserves the invariant.
LEMMA KeysUntouched ==
  ASSUME KeyInv, UNCHANGED keyOf, KeysInFlight'
  PROVE  KeyInv'
  BY DEF KeyInv, OneWagerPerKey

\* A request that ends leaves the others as they were.
LEMMA RequestEnds ==
  ASSUME KeyInv, NEW r \in Req, request' = [request EXCEPT ![r] = Idle]
  PROVE  KeysInFlight'
  BY DEF KeyInv, KeysInFlight, Submitted, Idle

\* A request that goes on keeps its key.
LEMMA RequestGoesOn ==
  ASSUME KeyInv, NEW r \in Req, NEW post, request' = [request EXCEPT ![r] = post],
         post.key = request[r].key, Submitted(r)
  PROVE  KeysInFlight'
  BY DEF KeyInv, KeysInFlight, Submitted

\* The lookup and the insert are one transaction: a key is given to a wager only
\* when no wager has it.
LEMMA CommitKeepsKeys ==
  ASSUME KeyInv, NEW r \in Req, CommitPost(r)
  PROVE  KeyInv'
<1>1. request[r].pc = "post" /\ request' = [request EXCEPT ![r] = Idle]
      /\ (CommitReplay(r) \/ CommitCreate(r))
  BY DEF CommitPost
<1>2. KeysInFlight'
  BY <1>1, RequestEnds
<1>3. CASE UNCHANGED keyOf
  BY <1>2, <1>3, KeysUntouched
<1>4. ASSUME NEW w \in Wager, keyOf' = [keyOf EXCEPT ![w] = request[r].key],
             Holder(request[r].key) = {}
      PROVE  KeyInv'
  <2>1. request[r].key \in Key
    BY <1>1 DEF KeyInv, KeysInFlight, Submitted
  <2>2. keyOf' \in [Wager -> Key \cup {NoKey}]
    BY <1>4, <2>1 DEF KeyInv
  <2>3. \A v \in Wager : keyOf[v] # request[r].key
    BY <1>4 DEF Holder
  <2>4. OneWagerPerKey'
    BY <1>4, <2>3 DEF KeyInv, OneWagerPerKey
  <2>. QED  BY <1>2, <2>2, <2>4 DEF KeyInv
<1>5. CASE CommitReplay(r)
  BY <1>3, <1>5 DEF CommitReplay
<1>6. CASE CommitCreate(r)
  BY <1>3, <1>4, <1>6 DEF CommitCreate
<1>. QED  BY <1>1, <1>5, <1>6

\* No other step gives a wager a key, and a POST starts with a key of its dialog.
LEMMA KeysKept == KeyInv /\ [ApiNext]_vars => KeyInv'
<1>. SUFFICES ASSUME KeyInv, [ApiNext]_vars PROVE KeyInv'
  OBVIOUS
<1>1. ASSUME NEW r \in Req, NEW key \in Key, NEW form \in Form, StartPost(r, key, form)
      PROVE  KeyInv'
  <2>1. keyOf' = keyOf
        /\ request' = [request EXCEPT ![r] = [pc |-> "sent", key |-> key, form |-> form]]
    BY <1>1 DEF StartPost
  <2>2. KeysInFlight'
    BY <2>1 DEF KeyInv, KeysInFlight, Submitted
  <2>. QED  BY <2>1, <2>2, KeysUntouched
<1>2. ASSUME NEW r \in Req, CommitPost(r) PROVE KeyInv'
  BY <1>2, CommitKeepsKeys
<1>3. ASSUME NEW r \in Req, CommitPut(r) PROVE KeyInv'
  BY <1>3, RequestEnds, KeysUntouched DEF CommitPut
<1>4. ASSUME NEW r \in Req, NEW amount \in Balances, NEW newRisk \in Risks,
             NEW stated \in BOOLEAN, StartPut(r, amount, newRisk, stated)
      PROVE  KeyInv'
  <2>1. keyOf' = keyOf
        /\ request' = [request EXCEPT ![r] =
             [pc |-> "put", amount |-> IF stated THEN amount ELSE bankroll,
              risk |-> newRisk, stated |-> stated]]
    BY <1>4 DEF StartPut
  <2>2. KeysInFlight'
    BY <2>1 DEF KeyInv, KeysInFlight, Submitted
  <2>. QED  BY <2>1, <2>2, KeysUntouched
<1>5. CASE UNCHANGED <<request, keyOf>>
  BY <1>5, KeysUntouched DEF KeyInv, KeysInFlight, Submitted
<1>6. CASE Restart
  <2>1. KeysInFlight'
    BY <1>6 DEF Restart, KeysInFlight, Submitted, Idle
  <2>. QED  BY <1>6, <2>1, KeysUntouched DEF Restart
<1>7. ASSUME NEW r \in Req, CheckDuplicate(r) \/ ReadProduct(r) PROVE KeyInv'
  <2>1. keyOf' = keyOf /\ Submitted(r)
    BY <1>7 DEF CheckDuplicate, ReadProduct, Submitted
  <2>2. \/ request' = [request EXCEPT ![r] = Idle]
        \/ \E post : post.key = request[r].key /\ request' = [request EXCEPT ![r] = post]
    <3>1. CASE CheckDuplicate(r)
      BY <3>1 DEF CheckDuplicate, Refuse
    <3>2. CASE ReadProduct(r)
      BY <3>2 DEF ReadProduct, Refuse
    <3>. QED  BY <1>7, <3>1, <3>2
  <2>3. KeysInFlight'
    BY <2>1, <2>2, RequestEnds, RequestGoesOn
  <2>. QED  BY <2>1, <2>3, KeysUntouched
<1>. QED
  BY <1>1, <1>2, <1>3, <1>4, <1>5, <1>6, <1>7 DEF ApiNext, Patch, Publish, vars, apiVars

\* However many requests, dialogs and restarts: a dialog's key names one wager.
THEOREM KeysNameOneWager == ApiSpec => []OneWagerPerKey
<1>1. KeyInv => OneWagerPerKey
  BY DEF KeyInv
<1>. QED  BY <1>1, KeysInitially, KeysKept, PTL DEF ApiSpec

-----------------------------------------------------------------------------
\* Both readings of the store accept a form that this product was asked for.
Admits(p, form) ==
  Serves(p, form) /\ ~(form.card \in Lane /\ Duplicate(p, form.card))

\* What a request read is what is served, if nothing was published since it came in.
ReadIsServed(r) ==
  /\ request[r].since \in Nat /\ request[r].since <= product
  /\ request[r].since = product =>
       LET form == request[r].form IN
       /\ ~(form.card \in Lane /\ Duplicate(product, form.card))
       /\ request[r].pc = "post" => Serves(product, form)

\* A wager whose request saw the product that is served would be accepted again.
StoredIsServed(w) ==
  /\ since[w] \in Nat /\ since[w] <= product
  /\ keyOf[w] # NoKey /\ since[w] = product => Admits(product, formOf[w])

SinceInv ==
  /\ product \in Nat
  /\ keyOf = [w \in Wager |-> keyOf[w]] /\ formOf = [w \in Wager |-> formOf[w]]
  /\ since = [w \in Wager |-> since[w]]
  /\ request = [r \in Req |-> request[r]]
  /\ \A r \in Req : request[r].pc \in {"checked", "post"} => ReadIsServed(r)
  /\ \A w \in Wager : StoredIsServed(w)

LEMMA SinceInitially == ApiInit => SinceInv
  BY DEF ApiInit, SinceInv, StoredIsServed, Idle

\* Nothing is stored and nothing published: what the requests read is left to show.
LEMMA NothingStored ==
  ASSUME SinceInv, UNCHANGED <<product, keyOf, formOf, since>>,
         request' = [r \in Req |-> request'[r]],
         \A r \in Req : request'[r].pc \in {"checked", "post"} => ReadIsServed(r)'
  PROVE  SinceInv'
  BY DEF SinceInv, StoredIsServed

\* The other requests keep what they read, and an idle one holds nothing.
LEMMA OneRequestMoves ==
  ASSUME SinceInv, UNCHANGED <<product, keyOf, formOf, since>>, NEW r \in Req,
         NEW post, request' = [request EXCEPT ![r] = post],
         post.pc \in {"checked", "post"} => ReadIsServed(r)'
  PROVE  SinceInv'
<1>1. request' = [q \in Req |-> request'[q]] /\ request'[r] = post
      /\ \A q \in Req \ {r} : request'[q] = request[q]
  BY DEF SinceInv
<1>2. ASSUME NEW q \in Req, request'[q].pc \in {"checked", "post"} PROVE ReadIsServed(q)'
  <2>1. CASE q = r
    BY <1>1, <1>2, <2>1
  <2>2. CASE q # r
    BY <1>1, <1>2, <2>2 DEF SinceInv, ReadIsServed
  <2>. QED  BY <2>1, <2>2
<1>. QED  BY <1>1, <1>2, NothingStored

\* Only a request that was accepted by what it read stores a wager.
LEMMA CommitKeepsSince ==
  ASSUME SinceInv, NEW r \in Req, CommitPost(r)
  PROVE  SinceInv'
<1>1. request[r].pc = "post" /\ request' = [request EXCEPT ![r] = Idle] /\ product' = product
      /\ (CommitReplay(r) \/ CommitCreate(r))
  BY DEF CommitPost
<1>2. CASE UNCHANGED <<keyOf, formOf, since>>
  <2>1. ~ Idle.pc \in {"checked", "post"}
    BY DEF Idle
  <2>. QED  BY <1>1, <1>2, <2>1, OneRequestMoves
<1>3. ASSUME NEW w \in Wager, keyOf' = [keyOf EXCEPT ![w] = request[r].key],
             formOf' = [formOf EXCEPT ![w] = request[r].form],
             since' = [since EXCEPT ![w] = request[r].since]
      PROVE  SinceInv'
  <2>1. ASSUME NEW q \in Req, request'[q].pc \in {"checked", "post"} PROVE ReadIsServed(q)'
    BY <1>1, <2>1 DEF SinceInv, ReadIsServed, Idle
  <2>2. ReadIsServed(r)
    BY <1>1 DEF SinceInv
  <2>3. StoredIsServed(w)'
    <3>1. since'[w] = request[r].since /\ formOf'[w] = request[r].form
      BY <1>3 DEF SinceInv
    <3>. QED  BY <1>1, <2>2, <3>1 DEF StoredIsServed, ReadIsServed, Admits
  <2>4. ASSUME NEW v \in Wager, v # w PROVE StoredIsServed(v)'
    <3>1. since'[v] = since[v] /\ formOf'[v] = formOf[v] /\ keyOf'[v] = keyOf[v]
      BY <1>3, <2>4 DEF SinceInv
    <3>. QED  BY <1>1, <3>1 DEF SinceInv, StoredIsServed
  <2>. QED  BY <1>1, <1>3, <2>1, <2>3, <2>4 DEF SinceInv
<1>4. CASE CommitReplay(r)
  BY <1>2, <1>4 DEF CommitReplay
<1>5. CASE CommitCreate(r)
  BY <1>2, <1>3, <1>5 DEF CommitCreate
<1>. QED  BY <1>1, <1>4, <1>5

LEMMA SinceKept == SinceInv /\ [ApiNext]_vars => SinceInv'
<1>. SUFFICES ASSUME SinceInv, [ApiNext]_vars PROVE SinceInv'
  OBVIOUS
<1>1. ASSUME NEW r \in Req, NEW key \in Key, NEW form \in Form, StartPost(r, key, form)
      PROVE  SinceInv'
  BY <1>1, OneRequestMoves DEF StartPost
<1>2. ASSUME NEW r \in Req, CheckDuplicate(r) PROVE SinceInv'
  <2>1. UNCHANGED <<product, keyOf, formOf, since>>
    BY <1>2 DEF CheckDuplicate
  <2>2. CASE Refuse(r)
    BY <2>1, <2>2, OneRequestMoves DEF Refuse, Idle
  <2>3. CASE ~Refuse(r)
    <3> DEFINE post == [pc |-> "checked", key |-> request[r].key,
                        form |-> request[r].form, since |-> product]
    <3>1. request' = [request EXCEPT ![r] = post]
          /\ ~(post.form.card \in Lane /\ Duplicate(product, post.form.card))
      BY <1>2, <2>3 DEF CheckDuplicate
    <3>2. request'[r] = post
      BY <3>1 DEF SinceInv
    <3>3. ReadIsServed(r)'
      BY <2>1, <3>1, <3>2 DEF ReadIsServed, SinceInv
    <3>. QED  BY <2>1, <3>1, <3>3, OneRequestMoves
  <2>. QED  BY <2>2, <2>3
<1>3. ASSUME NEW r \in Req, ReadProduct(r) PROVE SinceInv'
  <2>1. UNCHANGED <<product, keyOf, formOf, since>> /\ request[r].pc = "checked"
    BY <1>3 DEF ReadProduct
  <2>2. CASE Refuse(r)
    BY <2>1, <2>2, OneRequestMoves DEF Refuse, Idle
  <2>3. CASE ~Refuse(r)
    <3> DEFINE post == [pc |-> "post", key |-> request[r].key, form |-> request[r].form,
                        since |-> request[r].since, read |-> product]
    <3>1. request' = [request EXCEPT ![r] = post] /\ Serves(product, request[r].form)
      BY <1>3, <2>3 DEF ReadProduct
    <3>2. request'[r] = post /\ ReadIsServed(r)
      BY <2>1, <3>1 DEF SinceInv
    <3>3. ReadIsServed(r)'
      BY <2>1, <3>1, <3>2 DEF ReadIsServed
    <3>. QED  BY <2>1, <3>1, <3>3, OneRequestMoves
  <2>. QED  BY <2>2, <2>3
<1>4. ASSUME NEW r \in Req, CommitPost(r) PROVE SinceInv'
  BY <1>4, CommitKeepsSince
<1>5. ASSUME NEW r \in Req, CommitPut(r) PROVE SinceInv'
  BY <1>5, OneRequestMoves DEF CommitPut, Idle
<1>6. ASSUME NEW r \in Req, NEW amount \in Balances, NEW newRisk \in Risks,
             NEW stated \in BOOLEAN, StartPut(r, amount, newRisk, stated)
      PROVE  SinceInv'
  <2> DEFINE put == [pc |-> "put", amount |-> IF stated THEN amount ELSE bankroll,
                     risk |-> newRisk, stated |-> stated]
  <2>1. put.pc = "put" /\ request' = [request EXCEPT ![r] = put]
    BY <1>6 DEF StartPut
  <2> HIDE DEF put
  <2>. QED  BY <1>6, <2>1, OneRequestMoves DEF StartPut
<1>7. CASE UNCHANGED <<product, request, keyOf, formOf, since>>
  BY <1>7, NothingStored DEF SinceInv, ReadIsServed
<1>8. CASE Publish
  <2>1. product' = product + 1 /\ UNCHANGED <<request, keyOf, formOf, since>>
    BY <1>8 DEF Publish
  <2>2. \A r \in Req : request[r].pc \in {"checked", "post"} => ReadIsServed(r)'
    BY <2>1 DEF SinceInv, ReadIsServed
  <2>3. \A w \in Wager : StoredIsServed(w)'
    BY <2>1 DEF SinceInv, StoredIsServed
  <2>. QED  BY <2>1, <2>2, <2>3 DEF SinceInv
<1>9. CASE Restart
  <2>1. request' = [r \in Req |-> Idle] /\ UNCHANGED <<product, keyOf, formOf, since>>
    BY <1>9 DEF Restart
  <2>. QED  BY <2>1, NothingStored DEF Idle
<1>. QED
  BY <1>1, <1>2, <1>3, <1>4, <1>5, <1>6, <1>7, <1>8, <1>9 DEF ApiNext, Patch, vars, apiVars

-----------------------------------------------------------------------------
\* What ResendIsHarmless says of one request in one step.
Harmless(r) ==
  request[r].pc \in {"sent", "checked", "post"} /\ answer' # NoAnswer
    /\ request'[r] # request[r] =>
    \A w \in Holder(request[r].key) : formOf[w] = request[r].form =>
      /\ UNCHANGED dbVars
      /\ \/ answer' = [outcome |-> "replayed", wager |-> w]
         \/ answer'.outcome = "refused" /\ since[w] < product

\* A POST whose key has a wager is answered with that one.
LEMMA CommitIsHarmless ==
  ASSUME KeyInv, NEW r \in Req, CommitPost(r)
  PROVE  Harmless(r)
<1>. SUFFICES ASSUME NEW w \in Holder(request[r].key), formOf[w] = request[r].form
              PROVE  answer' = [outcome |-> "replayed", wager |-> w] /\ UNCHANGED dbVars
  BY DEF Harmless
<1>1. request[r].pc = "post" /\ w \in Wager /\ keyOf[w] = request[r].key
  BY DEF CommitPost, Holder
<1>2. request[r].key \in Key
  BY <1>1 DEF KeyInv, KeysInFlight, Submitted
<1>3. CommitReplay(r)
  BY DEF CommitPost, CommitCreate
<1>4. PICK v \in Holder(request[r].key) :
        IF formOf[v] = request[r].form THEN Give("replayed", v) ELSE Give("key_conflict", NoWager)
  BY <1>3 DEF CommitReplay
<1>5. v = w
  BY <1>1, <1>2, <1>4, ApiAssumption DEF Holder, KeyInv, OneWagerPerKey
<1>. QED  BY <1>3, <1>4, <1>5 DEF CommitReplay, Give

\* What refuses a form that has a wager was published after that one's request.
LEMMA RefusalIsHarmless ==
  ASSUME KeyInv, SinceInv, NEW r \in Req, Refuse(r), Submitted(r), UNCHANGED dbVars,
         ~Admits(product, request[r].form)
  PROVE  Harmless(r)
<1>. SUFFICES ASSUME NEW w \in Holder(request[r].key), formOf[w] = request[r].form
              PROVE  answer'.outcome = "refused" /\ since[w] < product
  BY DEF Harmless
<1>1. w \in Wager /\ keyOf[w] # NoKey
  BY ApiAssumption DEF Holder, KeyInv, KeysInFlight
<1>2. since[w] # product /\ since[w] \in Nat /\ since[w] <= product /\ product \in Nat
  BY <1>1 DEF SinceInv, StoredIsServed
<1>. QED  BY <1>2 DEF Refuse, Give

\* No other step ends a POST with an answer.
LEMMA StepsAreHarmless ==
  ASSUME KeyInv, SinceInv, [ApiNext]_vars, NEW r \in Req
  PROVE  Harmless(r)
<1>1. ASSUME NEW s \in Req, CheckDuplicate(s) \/ ReadProduct(s) PROVE Harmless(r)
  <2>1. answer' = NoAnswer
        \/ (/\ Refuse(s) /\ Submitted(s) /\ UNCHANGED dbVars /\ ~Admits(product, request[s].form))
    BY <1>1 DEF CheckDuplicate, ReadProduct, Submitted, Admits
  <2>2. s # r => request'[r] = request[r] \/ answer' = NoAnswer
    BY <2>1 DEF Refuse, KeyInv, KeysInFlight
  <2>. QED  BY <2>1, <2>2, RefusalIsHarmless DEF Harmless
<1>2. ASSUME NEW s \in Req, CommitPost(s) PROVE Harmless(r)
  <2>1. CASE s = r
    BY <1>2, <2>1, CommitIsHarmless
  <2>2. CASE s # r
    BY <1>2, <2>2 DEF CommitPost, Harmless, KeyInv, KeysInFlight
  <2>. QED  BY <2>1, <2>2
<1>3. CASE answer' = NoAnswer
  BY <1>3 DEF Harmless
<1>4. CASE UNCHANGED vars
  BY <1>4 DEF vars, apiVars, Harmless
<1>. QED
  BY <1>1, <1>2, <1>3, <1>4
     DEF ApiNext, StartPost, CommitPut, StartPut, Patch, Publish, Restart

\* A dialog that is submitted again after its wager was stored moves no money, whatever
\* was published, patched or restarted in between (create_wager of _base_app.py and
\* app.py); it is answered with its wager, or refused for a board published since.
THEOREM ResendsDoNoHarm == ApiSpec => ResendIsHarmless
<1>1. KeyInv /\ SinceInv /\ [ApiNext]_vars => [\A r \in Req : Harmless(r)]_vars
  BY StepsAreHarmless
<1>2. [\A r \in Req : Harmless(r)]_vars <=>
      [\A r \in Req : request[r].pc \in {"sent", "checked", "post"} /\ answer' # NoAnswer
                        /\ request'[r] # request[r] =>
         \A w \in Holder(request[r].key) : formOf[w] = request[r].form =>
           /\ UNCHANGED dbVars
           /\ \/ answer' = [outcome |-> "replayed", wager |-> w]
              \/ answer'.outcome = "refused" /\ since[w] < product]_vars
  BY DEF Harmless
<1>. QED
  BY <1>1, <1>2, KeysInitially, KeysKept, SinceInitially, SinceKept, PTL
     DEF ApiSpec, ResendIsHarmless

=============================================================================
