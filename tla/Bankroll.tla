----------------------------- MODULE Bankroll -----------------------------
(***************************************************************************)
(* What the accounting of one user's bankroll promises, without saying how *)
(* it is kept.  Every wager that counts stands in the balance at exactly   *)
(* what it is worth in its current state, whatever the states it went      *)
(* through before; the rest of the balance is what the user declared.      *)
(* BankrollLedger is shown to implement this specification.                *)
(***************************************************************************)
EXTENDS WagerAccounting

CONSTANTS
  Wager,          \* wager identifiers
  Stakes,         \* stakes a user may enter, natural numbers of cents
  Prices,         \* American odds offered, never zero
  NoWager         \* no such wager; not an Entry

VARIABLES
  balance,        \* the user's current bankroll
  book,           \* every wager logged, in its current state
  counted         \* the wagers that count

bookVars == <<balance, book, counted>>

Entry == [status: WagerStatus, stake: Stakes \cup {NoStake}, price: Prices]

Worth(w) ==
  IF w \in counted THEN Target(book[w].status, book[w].stake, book[w].price)
                   ELSE 0

\* An account that predates the ledger holds wagers that do not count.
BookInit ==
  /\ balance \in Nat
  /\ book \in [Wager -> Entry \cup {NoWager}]
  /\ counted = {}

\* A wager is logged, edited, settled or corrected, at the odds it was logged
\* at.  It may begin to count, and never ceases to.  The balance moves by what
\* that changes of its worth, and never below zero.
Move(w) ==
  /\ \E entry \in Entry :
       /\ book[w] # NoWager => entry.price = book[w].price
       /\ book' = [book EXCEPT ![w] = entry]
  /\ counted' \in {counted, counted \cup {w}}
  /\ balance' = balance + Worth(w)' - Worth(w)
  /\ balance' >= 0

\* The user states the bankroll.
Declare ==
  /\ balance' \in Nat
  /\ UNCHANGED <<book, counted>>

BookNext ==
  \/ \E w \in Wager : Move(w)
  \/ Declare

BookSpec == BookInit /\ [][BookNext]_bookVars
===========================================================================
