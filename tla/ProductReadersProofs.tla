------------------------ MODULE ProductReadersProofs ------------------------
(***************************************************************************)
(* The proofs about what reads a published product: that the backend's     *)
(* snapshot goes stale only visibly and moves only forward, that what the  *)
(* persistence job commits was derived from what it commits, and what is   *)
(* derived from every history a week can have.                             *)
(***************************************************************************)
EXTENDS ProductStore, ProspectiveEvidence, CardHistory, NumberLemmas, TLAPS

MaybeProduct == Valid \cup {NoProduct}

\* v is in the sequence s.
IsIn(v, s) == \E i \in 1..Len(s) : s[i] = v

\* v is nowhere after w in s.
NotAfter(v, w, s) == \A i, j \in 1..Len(s) : s[i] = v /\ s[j] = w => i <= j

LogInv ==
  /\ log \in Seq(Valid) /\ synced \in Nat
  /\ \A i, j \in 1..Len(log) : log[i] = log[j] => i = j

Readers ==
  [pc: {"idle", "starting", "before", "read", "after"}, boot: BOOLEAN,
   noticed: MaybeProduct, before: MaybeProduct, payload: MaybeProduct, tries: 0..2]

ReaderOK ==
  /\ reader \in Readers
  /\ snapshot \in MaybeProduct /\ observed \in MaybeProduct

\* Once there is a latest.json that was looked at, there is one.
Existing ==
  /\ observed # NoProduct => log # << >>
  /\ reader.pc \in {"before", "read", "after"} => log # << >>

\* A snapshot is of the file looked at last, or the failure to load that is recorded.
Flagged == snapshot # NoProduct => observed = snapshot \/ reloadFailure = TRUE

\* What a load holds was published in the order it was read.
Forward ==
  /\ snapshot # NoProduct => IsIn(snapshot, log)
  /\ reader.pc \in {"read", "after"} => IsIn(reader.before, log) /\ NotAfter(snapshot, reader.before, log)
  /\ reader.pc = "after" => IsIn(reader.payload, log) /\ NotAfter(reader.before, reader.payload, log)

StoreInv == LogInv /\ ReaderOK /\ Existing /\ Flagged /\ Forward

-----------------------------------------------------------------------------
\* The store at rest, and at the start of the process.
LEMMA AtRest ==
  /\ Quiet \in Readers /\ Quiet.pc = "idle"
  /\ Booting \in Readers /\ Booting.pc = "starting"
<1>1. Quiet \in Readers /\ Quiet.pc = "idle"
  BY DEF Quiet, Readers, MaybeProduct
<1>2. Booting = [Quiet EXCEPT !.pc = "starting", !.boot = TRUE]
  BY DEF Booting
<1>. HIDE DEF Quiet
<1>. QED  BY <1>1, <1>2 DEF Readers

\* A load at its beginning, and at its next attempt.
LEMMA LoadOfReaders ==
  ASSUME NEW r \in Readers
  PROVE  /\ \A t : t = [r EXCEPT !.pc = "before", !.tries = 1]
                 \/ t = [r EXCEPT !.pc = "before", !.tries = 2]
                 => t \in Readers /\ t.pc = "before"
         /\ \A t : \A v \in MaybeProduct :
              t = [r EXCEPT !.pc = "before", !.noticed = v, !.tries = 2]
                => t \in Readers /\ t.pc = "before"
<1> DEFINE s == [r EXCEPT !.pc = "before"]
<1>1. s \in Readers /\ s.pc = "before"
  BY DEF Readers
<1>2. \A n \in {1, 2} : /\ [s EXCEPT !.tries = n] \in Readers
                        /\ [s EXCEPT !.tries = n].pc = "before"
                        /\ [s EXCEPT !.tries = n] = [r EXCEPT !.pc = "before", !.tries = n]
  <2>. SUFFICES ASSUME NEW n \in {1, 2}
                PROVE  /\ [s EXCEPT !.tries = n] \in Readers
                       /\ [s EXCEPT !.tries = n].pc = "before"
    OBVIOUS
  <2>1. n \in 0..2
    OBVIOUS
  <2>. HIDE DEF s
  <2>. QED  BY <1>1, <2>1 DEF Readers
<1>3. \A v \in MaybeProduct : /\ [s EXCEPT !.noticed = v] \in Readers
                              /\ [s EXCEPT !.noticed = v].pc = "before"
  <2>. HIDE DEF s
  <2>. QED  BY <1>1 DEF Readers
<1>. QED  BY <1>2, <1>3 DEF Readers

\* The latest product is the last of the log.
LEMMA LatestIsLast ==
  ASSUME LogInv, log # << >>
  PROVE  /\ Len(log) \in Nat \ {0} /\ Latest = log[Len(log)] /\ Latest \in Valid
         /\ IsIn(Latest, log) /\ \A v : NotAfter(v, Latest, log)
  BY DEF LogInv, Latest, IsIn, NotAfter

\* A product's position is where it is.
LEMMA PositionIs ==
  ASSUME LogInv, NEW i \in 1..Len(log)
  PROVE  Position(log[i]) = i
<1>1. \A j \in 1..Len(log) : log[j] = log[i] => j = i
  BY DEF LogInv
<1>2. Position(log[i]) \in 1..Len(log) /\ log[Position(log[i])] = log[i]
  BY DEF Position
<1>. QED  BY <1>1, <1>2

\* A promotion appends a product that was never latest.
LEMMA PromoteKeeps ==
  ASSUME StoreInv, NEW e \in Valid, Promote(e), UNCHANGED storeVars
  PROVE  StoreInv'
<1>1. /\ log \in Seq(Valid) /\ Len(log) \in Nat /\ log' = Append(log, e) /\ log' \in Seq(Valid)
      /\ Len(log') = Len(log) + 1 /\ log'[Len(log) + 1] = e
      /\ \A i \in 1..Len(log) : log'[i] = log[i] /\ log[i] # e
  BY DEF StoreInv, LogInv, Promote
<1>2. \A i \in 1..Len(log') : i = Len(log) + 1 \/ i \in 1..Len(log)
  BY <1>1
<1>3. LogInv'
  BY <1>1, <1>2 DEF StoreInv, LogInv, Promote
<1>4. \A v : IsIn(v, log) => IsIn(v, log') /\ v # e
  BY <1>1 DEF IsIn
<1>5. \A v, w : v # e /\ w # e /\ NotAfter(v, w, log) => NotAfter(v, w, log')
  BY <1>1, <1>2 DEF NotAfter
<1>6. snapshot # e
  BY <1>4, ProductAssumption DEF StoreInv, Forward
<1>7. log' # << >>
  BY <1>1
<1>8. UNCHANGED <<snapshot, observed, reloadFailure, reader>>
  BY DEF storeVars
<1>9. ReaderOK' /\ Existing' /\ Flagged'
  BY <1>7, <1>8 DEF StoreInv, ReaderOK, Existing, Flagged
<1>10. Forward'
  BY <1>4, <1>5, <1>6, <1>8 DEF StoreInv, Forward
<1>. QED  BY <1>3, <1>9, <1>10 DEF StoreInv

\* A restart forgets all that was read.
LEMMA ForgetKeeps ==
  ASSUME StoreInv, Forget, LogInv'
  PROVE  StoreInv'
<1>1. snapshot' = NoProduct /\ observed' = NoProduct /\ reader' = Booting
  BY DEF Forget
<1>2. ReaderOK' /\ Existing' /\ Flagged' /\ Forward'
  BY <1>1, AtRest DEF ReaderOK, MaybeProduct, Existing, Flagged, Forward
<1>. QED  BY <1>2 DEF StoreInv

\* What a loss of power leaves of the log is the beginning of it.
LEMMA LosePowerKeeps ==
  ASSUME LogInv, LosePower
  PROVE  LogInv'
<1>1. log \in Seq(Valid) /\ Len(log) \in Nat /\ synced \in Nat
  BY DEF LogInv
<1>2. PICK n \in synced..Len(log) : log' = SubSeq(log, 1, n) /\ synced' = n
  BY DEF LosePower
<1>3. n \in Nat /\ n <= Len(log)
  BY <1>1, <1>2
<1>4. log' \in Seq(Valid) /\ Len(log') = n /\ \A i \in 1..n : log'[i] = log[i]
  BY <1>1, <1>2, <1>3
<1>5. \A i \in 1..n : i \in 1..Len(log)
  BY <1>1, <1>3
<1>. QED  BY <1>2, <1>3, <1>4, <1>5 DEF LogInv

\* A load that fails remembers the file it noticed, and says that it failed.
LEMMA FailKeeps ==
  ASSUME StoreInv, LoadFails, UNCHANGED fileVars,
         reader.pc \in {"read", "after"}
  PROVE  StoreInv'
<1>1. UNCHANGED <<snapshot, log, synced>>
  BY DEF LoadFails, fileVars
<1>2. log # << >>
  BY DEF StoreInv, Existing
<1>3. CASE reader.boot
  <2>1. reader' = Booting /\ UNCHANGED <<observed, reloadFailure>>
    BY <1>3 DEF LoadFails
  <2>2. reader'.pc = "starting" /\ ReaderOK'
    BY <1>1, <2>1, AtRest DEF StoreInv, ReaderOK
  <2>. QED  BY <1>1, <1>2, <2>1, <2>2 DEF StoreInv, LogInv, Existing, Flagged, Forward
<1>4. CASE ~reader.boot
  <2>1. reader' = Quiet /\ observed' = reader.noticed
        /\ reloadFailure' = (reloadFailure \/ snapshot # NoProduct)
    BY <1>4 DEF LoadFails
  <2>2. reader'.pc = "idle" /\ ReaderOK'
    BY <1>1, <2>1, AtRest DEF StoreInv, ReaderOK, Readers
  <2>3. Flagged'
    BY <1>1, <2>1, Zenon DEF Flagged
  <2>. QED  BY <1>1, <1>2, <2>1, <2>2, <2>3 DEF StoreInv, LogInv, Existing, Forward
<1>. QED  BY <1>3, <1>4

\* A load begins when there is a file.
LEMMA LoadBegins ==
  ASSUME StoreInv, Start \/ Ask
  PROVE  StoreInv'
<1>1. UNCHANGED <<snapshot, observed, reloadFailure, log, synced>>
  BY DEF Start, Ask, fileVars
<1>2. Latest \in MaybeProduct /\ (Latest # NoProduct => log # << >>)
  BY LatestIsLast DEF StoreInv, MaybeProduct, Latest
<1>3. CASE Start
  <2>1. CASE Latest = NoProduct
    <3>1. reader' = Quiet
      BY <1>3, <2>1 DEF Start
    <3>2. reader'.pc = "idle" /\ ReaderOK'
      BY <1>1, <3>1, AtRest DEF StoreInv, ReaderOK
    <3>. QED  BY <1>1, <3>2 DEF StoreInv, LogInv, Existing, Flagged, Forward
  <2>2. CASE Latest # NoProduct
    <3>1. reader' = [reader EXCEPT !.pc = "before", !.tries = 2]
      BY <1>3, <2>2 DEF Start
    <3>2. reader'.pc = "before" /\ ReaderOK'
      BY <1>1, <1>2, <3>1, LoadOfReaders DEF StoreInv, ReaderOK
    <3>. QED  BY <1>1, <1>2, <2>2, <3>2 DEF StoreInv, LogInv, Existing, Flagged, Forward
  <2>. QED  BY <2>1, <2>2
<1>4. CASE Ask
  <2>1. reader' = [reader EXCEPT !.pc = "before", !.noticed = Latest, !.tries = 2]
        /\ Latest # observed
    BY <1>4 DEF Ask
  <2>2. reader'.pc = "before" /\ ReaderOK'
    BY <1>1, <1>2, <2>1, LoadOfReaders DEF StoreInv, ReaderOK
  <2>3. log # << >>
    BY <2>1, <1>2 DEF StoreInv, Existing
  <2>. QED  BY <1>1, <2>2, <2>3 DEF StoreInv, LogInv, Existing, Flagged, Forward
<1>. QED  BY <1>3, <1>4

\* A stat or a read finds the latest product, and nothing that was read before is
\* later than it.
LEMMA LoadGoesOn ==
  ASSUME StoreInv, StatBefore \/ Read
  PROVE  StoreInv'
<1>1. UNCHANGED <<snapshot, observed, reloadFailure, log, synced>>
      /\ reader.pc \in {"before", "read"}
  BY DEF StatBefore, Read, fileVars
<1>2. log # << >> /\ Latest \in MaybeProduct
      /\ IsIn(Latest, log) /\ \A v : NotAfter(v, Latest, log)
  BY <1>1, LatestIsLast DEF StoreInv, Existing, MaybeProduct
<1>3. CASE StatBefore
  <2>1. reader' = [reader EXCEPT !.pc = "read", !.before = Latest]
    BY <1>3 DEF StatBefore
  <2>2. reader'.pc = "read" /\ reader'.before = Latest /\ ReaderOK'
    BY <1>1, <1>2, <2>1 DEF StoreInv, ReaderOK, Readers
  <2>. QED  BY <1>1, <1>2, <2>2 DEF StoreInv, LogInv, Existing, Flagged, Forward
<1>4. CASE Read
  <2>1. reader' = [reader EXCEPT !.pc = "after", !.payload = Latest] /\ reader.pc = "read"
    BY <1>4 DEF Read
  <2>2. reader'.pc = "after" /\ reader'.payload = Latest /\ reader'.before = reader.before
        /\ ReaderOK'
    BY <1>1, <1>2, <2>1 DEF StoreInv, ReaderOK, Readers
  <2>. QED  BY <1>1, <1>2, <2>1, <2>2 DEF StoreInv, LogInv, Existing, Flagged, Forward
<1>. QED  BY <1>3, <1>4

\* What is installed is the latest product.
LEMMA InstalledIsLatest ==
  ASSUME StoreInv, reader.pc = "after", Latest = reader.before
  PROVE  reader.payload = Latest
<1>1. log # << >> /\ LogInv
  BY DEF StoreInv, Existing
<1>2. Len(log) \in Nat \ {0} /\ Latest = log[Len(log)]
  BY <1>1, LatestIsLast
<1>3. PICK i \in 1..Len(log) : log[i] = reader.payload
  BY DEF StoreInv, Forward, IsIn
<1>4. Len(log) <= i
  BY <1>2, <1>3 DEF StoreInv, Forward, NotAfter
<1>. QED  BY <1>2, <1>3, <1>4

LEMMA StatAfterKeeps ==
  ASSUME StoreInv, StatAfter
  PROVE  StoreInv'
<1>1. UNCHANGED <<log, synced>> /\ reader.pc = "after" /\ log # << >>
  BY DEF StatAfter, fileVars, StoreInv, Existing
<1>2. CASE Latest = reader.before /\ Install(reader.payload)
  <2>1. snapshot' = Latest /\ observed' = Latest /\ reader' = Quiet
    BY <1>1, <1>2, InstalledIsLatest DEF Install
  <2>2. IsIn(Latest, log) /\ Latest \in Valid
    BY <1>1, LatestIsLast DEF StoreInv
  <2>3. reader'.pc = "idle" /\ ReaderOK'
    BY <2>1, <2>2, AtRest DEF ReaderOK, MaybeProduct
  <2>. QED  BY <1>1, <2>1, <2>2, <2>3 DEF StoreInv, LogInv, Existing, Flagged, Forward
<1>3. CASE /\ reader' = [reader EXCEPT !.pc = "before", !.tries = 1]
           /\ UNCHANGED <<snapshot, observed, reloadFailure>>
  <2>1. reader'.pc = "before" /\ ReaderOK'
    BY <1>3, LoadOfReaders DEF StoreInv, ReaderOK
  <2>. QED  BY <1>1, <1>3, <2>1 DEF StoreInv, LogInv, Existing, Flagged, Forward
<1>4. CASE LoadFails
  BY <1>1, <1>4, FailKeeps DEF fileVars
<1>. QED  BY <1>2, <1>3, <1>4 DEF StatAfter

LEMMA StoreInitially == StoreInit => StoreInv
<1>. SUFFICES ASSUME StoreInit PROVE StoreInv
  OBVIOUS
<1>1. LogInv
  BY DEF StoreInit, FileInit, LogInv
<1>2. ReaderOK /\ Existing /\ Flagged /\ Forward
  BY AtRest DEF StoreInit, ReaderOK, MaybeProduct, Existing, Flagged, Forward
<1>. QED  BY <1>1, <1>2 DEF StoreInv

LEMMA StoreKeeps == StoreInv /\ [StoreNext]_productVars => StoreInv'
<1>. SUFFICES ASSUME StoreInv, [StoreNext]_productVars PROVE StoreInv'
  OBVIOUS
<1>1. ASSUME NEW v \in Valid, Promote(v), UNCHANGED storeVars PROVE StoreInv'
  BY <1>1, PromoteKeeps
<1>2. CASE Persist /\ UNCHANGED storeVars
  <2>1. UNCHANGED <<log, snapshot, observed, reloadFailure, reader>> /\ synced' \in Nat
    BY <1>2 DEF Persist, storeVars, StoreInv, LogInv
  <2>. QED  BY <2>1 DEF StoreInv, LogInv, ReaderOK, Existing, Flagged, Forward
<1>3. CASE Ask
  BY <1>3, LoadBegins
<1>4. CASE AskRaises
  <2>1. UNCHANGED <<log, synced, snapshot, observed, reader>>
        /\ reloadFailure' = (reloadFailure \/ snapshot # NoProduct)
    BY <1>4 DEF AskRaises, fileVars
  <2>2. Flagged'
    BY <2>1, Zenon DEF Flagged
  <2>. QED  BY <2>1, <2>2 DEF StoreInv, LogInv, ReaderOK, Existing, Forward
<1>5. CASE Reading
  <2>1. CASE Start
    BY <2>1, LoadBegins
  <2>2. CASE StatBefore \/ Read
    BY <2>2, LoadGoesOn
  <2>3. CASE ReadRaises
    BY <2>3, FailKeeps DEF ReadRaises
  <2>4. CASE StatAfter
    BY <2>4, StatAfterKeeps
  <2>. QED  BY <1>5, <2>1, <2>2, <2>3, <2>4 DEF Reading
<1>6. CASE Restart
  <2>1. LogInv'
    BY <1>6 DEF Restart, fileVars, StoreInv, LogInv
  <2>. QED  BY <1>6, <2>1, ForgetKeeps DEF Restart
<1>7. CASE MachineRestart
  <2>1. LogInv'
    BY <1>7, LosePowerKeeps DEF MachineRestart, StoreInv
  <2>. QED  BY <1>7, <2>1, ForgetKeeps DEF MachineRestart
<1>8. CASE UNCHANGED productVars
  BY <1>8 DEF productVars, fileVars, storeVars, StoreInv, LogInv, ReaderOK, Existing, Flagged, Forward
<1>. QED  BY <1>1, <1>2, <1>3, <1>4, <1>5, <1>6, <1>7, <1>8 DEF StoreNext, Publishing

\* Whatever readings fail and publications overtake them: a store that has looked at
\* the current file serves it or has recorded a failure.
THEOREM StaleOnlyVisibly == StoreSpec => []StaleIsFlagged
<1>1. StoreInv => StaleIsFlagged
  BY DEF StoreInv, Flagged, StaleIsFlagged
<1>. QED  BY <1>1, StoreInitially, StoreKeeps, PTL DEF StoreSpec

\* A product replaces the one served only if it was published after it.
LEMMA InstallGoesForward ==
  ASSUME StoreInv, StoreNext,
         snapshot # NoProduct, snapshot' # NoProduct, snapshot' # snapshot
  PROVE  Position(snapshot') > Position(snapshot)
<1>1. StatAfter /\ Latest = reader.before /\ Install(reader.payload)
  BY DEF StoreNext, Publishing, Reading, storeVars, Ask, AskRaises, Start, StatBefore, Read,
         ReadRaises, StatAfter, LoadFails, Restart, MachineRestart, Forget
<1>2. reader.pc = "after" /\ LogInv /\ log # << >>
  BY <1>1 DEF StatAfter, StoreInv, Existing
<1>3. snapshot' = Latest
  BY <1>1, <1>2, InstalledIsLatest DEF Install
<1>4. Len(log) \in Nat \ {0} /\ Latest = log[Len(log)]
  BY <1>2, LatestIsLast
<1>5. PICK i \in 1..Len(log) : log[i] = snapshot
  BY DEF StoreInv, Forward, IsIn
<1>6. Position(snapshot) = i
  BY <1>2, <1>5, PositionIs
<1>7. Len(log) \in 1..Len(log) /\ Position(snapshot') = Len(log)
  BY <1>2, <1>3, <1>4, PositionIs
<1>. QED  BY <1>3, <1>4, <1>5, <1>6, <1>7

\* However publications and losses of power overtake a load: while the backend runs,
\* what it serves moves only forward in the order of publication.
THEOREM ServedForward == StoreSpec => ServesForward
<1> DEFINE Moves == snapshot # NoProduct /\ snapshot' # NoProduct /\ snapshot' # snapshot
                    => Position(snapshot') > Position(snapshot)
<1>1. StoreInv /\ [StoreNext]_productVars => [Moves]_productVars
  BY InstallGoesForward
<1>. QED  BY <1>1, StoreInitially, StoreKeeps, PTL DEF StoreSpec, ServesForward

-----------------------------------------------------------------------------
(***************************************************************************)
(* The evidence branch.                                                    *)
(***************************************************************************)

Publications == [id: Nat, at: Nat, boundary: Nat, lanes: [Lane -> Row \cup {NoRow}]]

\* History of publications of a sequence, which published is at any time.
HistoryIn(s, ids) ==
  [n \in 1..Cardinality(ids) |->
     s[CHOOSE i \in ids : Cardinality({j \in ids : j < i}) = n - 1]]

\* A state of the checkout that was derived from what it holds.
Whole(e, s) ==
  /\ e = [pubs |-> e.pubs, torn |-> FALSE, episodes |-> e.pubs,
          results |-> e.results, official |-> e.official]
  /\ e.pubs \subseteq 1..Len(s)
  /\ \/ e.official = NoOfficial /\ e.results = FALSE
     \/ /\ e.official # NoOfficial /\ e.results = TRUE
        /\ e.official = Official(HistoryIn(s, e.pubs))

\* One that lacks the results of the official card it has.
Unreported(e, s) ==
  /\ e = [pubs |-> e.pubs, torn |-> FALSE, episodes |-> e.pubs,
          results |-> FALSE, official |-> e.official]
  /\ e.pubs \subseteq 1..Len(s)
  /\ e.official # NoOfficial /\ e.official = Official(HistoryIn(s, e.pubs))

\* One to which publications were copied since the commit h.
Ahead(e, h, s) ==
  /\ e = [pubs |-> e.pubs, torn |-> h.torn, episodes |-> h.episodes,
          results |-> h.results, official |-> h.official]
  /\ h.pubs \subseteq e.pubs /\ e.pubs \subseteq 1..Len(s)

JobStages == {"idle", "retry", "glob", "copy", "derive", "conflict", "finalize",
              "results", "commit", "push"}

CapturesOK ==
  /\ clock \in Nat
  /\ published \in Seq(Publications)
  /\ files \in Seq({"partial", "complete", "gone"}) /\ Len(files) = Len(published)
  /\ capturing => Len(files) > 0

JobOK ==
  /\ job \in [pc: JobStages, todo: SUBSET (1..Len(published))]
  /\ job.pc \in {"retry", "glob"} => tree = head
  /\ job.pc \in {"copy", "derive"} => Ahead(tree, head, published)
  /\ job.pc \in {"finalize", "commit"} => Whole(tree, published)
  /\ job.pc = "results" => Unreported(tree, published)

EvidenceInv == CapturesOK /\ JobOK /\ Whole(head, published) /\ Whole(remote, published)

-----------------------------------------------------------------------------
LEMMA HistoryIsOf == \A ids : History(ids) = HistoryIn(published, ids)
  BY DEF History, HistoryIn

\* A history is of publications that there are, and later ones do not change it.
LEMMA HistoryStays ==
  ASSUME NEW T, NEW s \in Seq(T), NEW t \in Seq(T), Len(s) <= Len(t),
         \A i \in 1..Len(s) : t[i] = s[i],
         NEW ids, ids \subseteq 1..Len(s)
  PROVE  HistoryIn(s, ids) \in Seq(T) /\ HistoryIn(t, ids) = HistoryIn(s, ids)
<1> DEFINE k == Cardinality(ids)
           at == [n \in 1..k |-> CHOOSE i \in ids : Cardinality({j \in ids : j < i}) = n - 1]
<1>1. Len(s) \in Nat /\ ids \subseteq Nat
  OBVIOUS
<1>2. IsFiniteSet(ids) /\ k \in Nat
  <2>1. \A b \in Int : IsFiniteSet(1..b)
    BY FS_Interval
  <2>2. IsFiniteSet(1..Len(s)) /\ ids \in SUBSET (1..Len(s))
    BY <1>1, <2>1
  <2>3. IsFiniteSet(ids)
    BY <2>2, FS_Subset
  <2>. QED  BY <2>3, FS_CardinalityType
<1>3. \A n \in 1..k : \E i \in ids : Cardinality({j \in ids : j < i}) = n - 1
  BY <1>1, <1>2, PlaceIsTaken DEF Before
<1>4. \A n \in 1..k : at[n] \in ids
  BY <1>3
<1>. HIDE DEF at, k
<1>5. \A i \in ids : i \in 1..Len(s) /\ s[i] \in T /\ t[i] = s[i]
  OBVIOUS
<1>6. HistoryIn(s, ids) = [n \in 1..k |-> s[at[n]]] /\ HistoryIn(t, ids) = [n \in 1..k |-> t[at[n]]]
  BY DEF HistoryIn, at, k
<1>7. [n \in 1..k |-> s[at[n]]] = [n \in 1..k |-> t[at[n]]]
  BY <1>4, <1>5
<1>8. [n \in 1..k |-> s[at[n]]] \in Seq(T)
  <2>1. [n \in 1..k |-> s[at[n]]] \in [1..k -> T]
    BY <1>4, <1>5
  <2>. HIDE DEF at
  <2>. QED  BY <1>2, <2>1
<1>. QED  BY <1>6, <1>7, <1>8

\* The greatest and the least of some places.
LEMMA PlacesHaveEnds ==
  ASSUME NEW n \in Nat, NEW T, T \subseteq 1..n, T # {}
  PROVE  Max(T) \in T /\ Min(T) \in T
<1>1. PICK x \in T : \A y \in T : y <= x
  <2>1. T \subseteq 0..n
    OBVIOUS
  <2>. QED  BY <2>1, GreatestElement
<1>2. PICK z \in T : \A y \in T : z <= y
  <2>1. T \subseteq Nat
    OBVIOUS
  <2>. QED  BY <2>1, LeastElement
<1>3. \A y \in T : x >= y
  BY <1>1
<1>. QED  BY <1>2, <1>3 DEF Max, Min

\* What a lane's game comes to is one of the four resolutions.
LEMMA ResolutionType ==
  ASSUME NEW h \in Seq(Publications), NEW c, c[1] \in Lane
  PROVE  Resolution(h, c) \in Resolutions
<1> DEFINE E == Eligible(h, c)
           final == Max(E)
           row == h[final].lanes[c[1]]
           same == {i \in E : /\ h[i].lanes[c[1]] # NoRow
                              /\ Logical(h[i].lanes[c[1]]) = Logical(row)}
<1>1. /\ Len(h) \in Nat /\ E \subseteq 1..Len(h)
      /\ \A i \in 1..Len(h) : h[i].id \in Nat /\ h[i].lanes[c[1]] \in Row \cup {NoRow}
  <2>1. Len(h) \in Nat /\ \A i \in 1..Len(h) : h[i] \in Publications
    OBVIOUS
  <2>2. \A q \in Publications : q.id \in Nat /\ q.lanes[c[1]] \in Row \cup {NoRow}
    BY DEF Publications
  <2>. QED  BY <2>1, <2>2 DEF Eligible
<1>. HIDE DEF E
<1>2. Resolution(h, c) =
        CASE E = {} -> Unresolved
          [] E # {} /\ ~Shows(h[final], c[1], c[2]) ->
               [state |-> "OFFICIAL_NO_PLAY_OR_REPLACED", source |-> h[final].id,
                wager |-> NoRow, first |-> 0]
          [] E # {} /\ Shows(h[final], c[1], c[2]) ->
               IF row.state = "BET"
                 THEN [state |-> "OFFICIAL_BET", source |-> h[final].id,
                       wager |-> row, first |-> h[Min(same)].id]
                 ELSE [state |-> "OFFICIAL_TARGET_ONLY", source |-> h[final].id,
                       wager |-> NoRow, first |-> 0]
  BY DEF Resolution, E
<1>3. CASE E = {}
  BY <1>2, <1>3 DEF Unresolved, Resolutions
<1>4. CASE E # {}
  <2>1. final \in E
    BY <1>1, <1>4, PlacesHaveEnds
  <2>2. h[final].id \in Nat /\ row \in Row \cup {NoRow}
    BY <1>1, <2>1
  <2>3. CASE ~Shows(h[final], c[1], c[2])
    BY <1>2, <1>4, <2>2, <2>3 DEF Resolutions
  <2>4. CASE Shows(h[final], c[1], c[2])
    <3>1. row # NoRow
      BY <2>4 DEF Shows
    <3>2. final \in same /\ same \subseteq 1..Len(h)
      BY <1>1, <2>1, <3>1
    <3>. HIDE DEF same
    <3>3. Min(same) \in 1..Len(h)
      BY <1>1, <3>2, PlacesHaveEnds
    <3>4. h[Min(same)].id \in Nat
      BY <1>1, <3>3
    <3>. HIDE DEF final
    <3>. QED  BY <1>2, <1>4, <2>2, <2>4, <3>4 DEF Resolutions
  <2>. QED  BY <2>3, <2>4
<1>. QED  BY <1>3, <1>4

\* An official card is one, and not the absence of one.
LEMMA OfficialIsACard ==
  ASSUME NEW h \in Seq(Publications)
  PROVE  Official(h) # NoOfficial
<1>1. Games(h) \subseteq {row.game : row \in Row}
  <2>. SUFFICES ASSUME NEW g \in Games(h) PROVE g \in {row.game : row \in Row}
    OBVIOUS
  <2>1. PICK i \in 1..Len(h) : g \in {h[i].lanes[l].game : l \in Played(h[i])}
    BY DEF Games
  <2>2. PICK l \in Played(h[i]) : g = h[i].lanes[l].game
    BY <2>1
  <2>3. h[i] \in Publications
    OBVIOUS
  <2>4. h[i].lanes[l] \in Row
    BY <2>2, <2>3 DEF Played, Publications
  <2>. QED  BY <2>2, <2>4
<1>2. Candidates(h) \subseteq Lane \X {row.game : row \in Row}
  BY <1>1 DEF Candidates
<1>3. \A c \in Candidates(h) : c[1] \in Lane
  BY <1>2
<1>4. Official(h) \in [Candidates(h) -> Resolutions]
  BY <1>3, ResolutionType DEF Official
<1>. QED  BY <1>2, <1>4, EvidenceAssumption

\* What is whole stays whole when more is published.
LEMMA WholeStays ==
  ASSUME NEW s \in Seq(Publications), NEW t \in Seq(Publications), Len(s) <= Len(t),
         \A i \in 1..Len(s) : t[i] = s[i], NEW e
  PROVE  /\ Whole(e, s) => Whole(e, t)
         /\ Unreported(e, s) => Unreported(e, t)
         /\ \A h : Ahead(e, h, s) => Ahead(e, h, t)
<1>1. e.pubs \subseteq 1..Len(s) => HistoryIn(t, e.pubs) = HistoryIn(s, e.pubs)
  BY HistoryStays
<1>2. 1..Len(s) \subseteq 1..Len(t)
  OBVIOUS
<1>. QED  BY <1>1, <1>2 DEF Whole, Unreported, Ahead

LEMMA EvidenceInitially == Init => EvidenceInv
<1>. SUFFICES ASSUME Init PROVE EvidenceInv
  OBVIOUS
<1>1. CapturesOK
  BY DEF Init, CapturesOK
<1>2. JobOK
  BY DEF Init, JobOK, NoJob, JobStages
<1>3. Whole(Empty, published)
  BY DEF Whole, Empty
<1>. QED  BY <1>1, <1>2, <1>3 DEF Init, EvidenceInv

\* A job that goes on, or ends, keeps the shape of its state.
LEMMA JobShape ==
  ASSUME EvidenceInv
  PROVE  /\ job \in [pc: JobStages, todo: SUBSET (1..Len(published))]
         /\ NoJob \in [pc: JobStages, todo: SUBSET (1..Len(published))] /\ NoJob.pc = "idle"
         /\ \A pc \in JobStages : Goes(pc) =>
              /\ job' \in [pc: JobStages, todo: SUBSET (1..Len(published))]
              /\ job'.pc = pc
  BY DEF EvidenceInv, JobOK, NoJob, JobStages, Goes

\* A capture that begins adds a publication after those there are.
LEMMA CaptureKeeps ==
  ASSUME EvidenceInv, NEW lanes \in [Lane -> Row \cup {NoRow}], CaptureBegin(lanes)
  PROVE  EvidenceInv'
<1> DEFINE e == [id |-> Len(published) + 1, at |-> clock, boundary |-> Boundary, lanes |-> lanes]
<1>1. /\ published \in Seq(Publications) /\ Len(published) \in Nat
      /\ files \in Seq({"partial", "complete", "gone"}) /\ Len(files) = Len(published)
      /\ clock \in Nat
  BY DEF EvidenceInv, CapturesOK
<1>2. e \in Publications
  BY <1>1, EvidenceAssumption DEF Publications
<1>3. /\ published' = Append(published, e) /\ files' = Append(files, "partial")
      /\ clock' = clock /\ tree' = tree /\ head' = head /\ remote' = remote /\ job' = job
  BY DEF CaptureBegin, gitVars
<1>. HIDE DEF e
<1>4. /\ published' \in Seq(Publications) /\ Len(published') = Len(published) + 1
      /\ \A i \in 1..Len(published) : published'[i] = published[i]
      /\ files' \in Seq({"partial", "complete", "gone"}) /\ Len(files') = Len(published')
  BY <1>1, <1>2, <1>3
<1>5. CapturesOK'
  BY <1>1, <1>3, <1>4 DEF CapturesOK
<1>6. \A x :
        /\ Whole(x, published) => Whole(x, published')
        /\ Unreported(x, published) => Unreported(x, published')
        /\ \A h : Ahead(x, h, published) => Ahead(x, h, published')
  <2>1. Len(published) <= Len(published')
    BY <1>1, <1>4
  <2>. QED  BY <1>1, <1>4, <2>1, WholeStays
<1>7. 1..Len(published) \subseteq 1..Len(published')
  BY <1>1, <1>4
<1>8. /\ Whole(head', published') /\ Whole(remote', published')
      /\ Whole(tree, published) => Whole(tree', published')
      /\ Unreported(tree, published) => Unreported(tree', published')
      /\ Ahead(tree, head, published) => Ahead(tree', head', published')
  <2>1. Whole(head, published) /\ Whole(remote, published)
    BY DEF EvidenceInv
  <2>2. Whole(head, published') /\ Whole(remote, published')
    BY <1>6, <2>1
  <2>3. /\ Whole(tree, published) => Whole(tree, published')
        /\ Unreported(tree, published) => Unreported(tree, published')
        /\ Ahead(tree, head, published) => Ahead(tree, head, published')
    BY <1>6
  <2>4. head' = head /\ remote' = remote /\ tree' = tree
    BY <1>3
  <2>. QED  BY <2>2, <2>3, <2>4
<1>9. job' \in [pc: JobStages, todo: SUBSET (1..Len(published'))]
  BY <1>3, <1>7, JobShape
<1>10. JobOK'
  BY <1>3, <1>8, <1>9 DEF EvidenceInv, JobOK
<1>. QED  BY <1>5, <1>8, <1>10 DEF EvidenceInv

\* A job's step changes no capture.
LEMMA JobKeeps ==
  ASSUME EvidenceInv, UNCHANGED <<clock, captureVars>>,
         Whole(head', published), Whole(remote', published),
         job' \in [pc: JobStages, todo: SUBSET (1..Len(published))],
         job'.pc \in {"retry", "glob"} => tree' = head',
         job'.pc \in {"copy", "derive"} => Ahead(tree', head', published),
         job'.pc \in {"finalize", "commit"} => Whole(tree', published),
         job'.pc = "results" => Unreported(tree', published)
  PROVE  EvidenceInv'
<1>1. UNCHANGED <<clock, published, files, capturing>>
  BY DEF captureVars
<1>. QED  BY <1>1 DEF EvidenceInv, CapturesOK, JobOK

\* A job that ends leaves the checkout, whatever it is, for the next to refuse.
LEMMA JobEnds ==
  ASSUME EvidenceInv, Ends, ByJob, UNCHANGED head, remote' \in {remote, head}
  PROVE  EvidenceInv'
<1>1. job' = NoJob
  BY DEF Ends
<1>2. Whole(head', published) /\ Whole(remote', published)
  BY DEF EvidenceInv
<1>. QED  BY <1>1, <1>2, JobShape, JobKeeps DEF ByJob

\* A file of the checkout that is written leaves the others.
LEMMA FileWritten ==
  ASSUME NEW e, NEW p, NEW t, NEW ep, NEW r, NEW o, NEW v,
         e = [pubs |-> p, torn |-> t, episodes |-> ep, results |-> r, official |-> o]
  PROVE  \A x :
    /\ x = [e EXCEPT !.pubs = v] =>
         x = [pubs |-> v, torn |-> t, episodes |-> ep, results |-> r, official |-> o]
    /\ x = [e EXCEPT !.episodes = v] =>
         x = [pubs |-> p, torn |-> t, episodes |-> v, results |-> r, official |-> o]
    /\ x = [e EXCEPT !.results = v] =>
         x = [pubs |-> p, torn |-> t, episodes |-> ep, results |-> v, official |-> o]
    /\ x = [e EXCEPT !.official = v] =>
         x = [pubs |-> p, torn |-> t, episodes |-> ep, results |-> r, official |-> v]
  OBVIOUS

\* A checkout that is the commit is ahead of it by nothing.
LEMMA AheadOfItself ==
  ASSUME NEW e, NEW s, Whole(e, s)
  PROVE  Ahead(e, e, s)
  BY DEF Whole, Ahead

\* Copying a publication leaves the checkout ahead of the commit.
LEMMA CopyKeeps ==
  ASSUME EvidenceInv, Copy
  PROVE  EvidenceInv'
<1> DEFINE i == Min(job.todo)
<1>1. /\ job.pc = "copy" /\ job.todo # {} /\ job.todo \subseteq 1..Len(published)
      /\ Len(published) \in Nat /\ Ahead(tree, head, published)
      /\ UNCHANGED <<head, remote>> /\ ByJob
  BY JobShape DEF Copy, EvidenceInv, CapturesOK, JobOK
<1>2. i \in job.todo
  BY <1>1, PlacesHaveEnds
<1>. HIDE DEF i
<1>3. CASE /\ tree' = [tree EXCEPT !.pubs = @ \cup {i}]
           /\ job' = [job EXCEPT !.todo = @ \ {i}]
  <2>1. /\ tree = [pubs |-> tree.pubs, torn |-> head.torn, episodes |-> head.episodes,
                   results |-> head.results, official |-> head.official]
        /\ head.pubs \subseteq tree.pubs /\ tree.pubs \subseteq 1..Len(published)
    BY <1>1 DEF Ahead
  <2>2. tree' = [pubs |-> tree.pubs \cup {i}, torn |-> head.torn, episodes |-> head.episodes,
                 results |-> head.results, official |-> head.official]
    <3>1. tree' = [tree EXCEPT !.pubs = tree.pubs \cup {i}]
      BY <1>3
    <3>2. /\ DOMAIN tree = {"pubs", "torn", "episodes", "results", "official"}
          /\ tree.torn = head.torn /\ tree.episodes = head.episodes
          /\ tree.results = head.results /\ tree.official = head.official
      BY ONLY <2>1
    <3>3. /\ DOMAIN tree' = {"pubs", "torn", "episodes", "results", "official"}
          /\ tree' = [x \in DOMAIN tree' |-> tree'[x]]
          /\ tree'.torn = head.torn /\ tree'.episodes = head.episodes
          /\ tree'.results = head.results /\ tree'.official = head.official
          /\ tree'.pubs = tree.pubs \cup {i}
      BY ONLY <3>1, <3>2
    <3>. QED  BY ONLY <3>3
  <2>3. Ahead(tree', head, published)
    BY <1>1, <1>2, <2>1, <2>2 DEF Ahead
  <2>4. job' \in [pc: JobStages, todo: SUBSET (1..Len(published))] /\ job'.pc = "copy"
    BY <1>1, <1>3, JobShape
  <2>5. Whole(head', published) /\ Whole(remote', published)
    BY <1>1 DEF EvidenceInv
  <2>. QED  BY <1>1, <2>3, <2>4, <2>5, JobKeeps DEF ByJob
<1>4. CASE Ends
  BY <1>1, <1>4, JobEnds
<1>. QED  BY <1>3, <1>4 DEF Copy, i

\* Deriving makes a checkout that is ahead of its commit whole, when the official card
\* it has, if any, is the one its publications give.
LEMMA DerivedIsWhole ==
  ASSUME NEW e, NEW h, NEW s, Ahead(e, h, s), Whole(h, s),
         e.official = NoOfficial \/ e.official = Official(HistoryIn(s, e.pubs)),
         NEW x, x = [e EXCEPT !.episodes = e.pubs]
  PROVE  Whole(x, s)
<1>1. /\ DOMAIN e = {"pubs", "torn", "episodes", "results", "official"}
      /\ e.torn = FALSE /\ e.results = h.results /\ e.official = h.official
      /\ e.pubs \subseteq 1..Len(s)
  BY DEF Ahead, Whole
<1>2. /\ x = [y \in DOMAIN x |-> x[y]]
      /\ DOMAIN x = {"pubs", "torn", "episodes", "results", "official"}
      /\ x.torn = FALSE /\ x.results = h.results /\ x.official = h.official
      /\ x.pubs = e.pubs /\ x.episodes = e.pubs
  BY ONLY <1>1, x = [e EXCEPT !.episodes = e.pubs]
<1>3. x = [pubs |-> x.pubs, torn |-> FALSE, episodes |-> x.pubs,
           results |-> x.results, official |-> x.official]
  BY ONLY <1>2
<1>4. \/ x.official = NoOfficial /\ x.results = FALSE
      \/ /\ x.official # NoOfficial /\ x.results = TRUE
         /\ x.official = Official(HistoryIn(s, x.pubs))
  BY <1>1, <1>2 DEF Whole
<1>. QED  BY <1>1, <1>2, <1>3, <1>4 DEF Whole

\* When nothing was ever published, there is nothing to derive.
LEMMA NothingIsWhole ==
  ASSUME NEW e, NEW h, NEW s, Ahead(e, h, s), Whole(h, s), e.pubs = {}
  PROVE  Whole(e, s)
<1>1. h.pubs = e.pubs
  BY DEF Ahead
<1>2. e.torn = FALSE /\ e.episodes = e.pubs /\ e.results = h.results /\ e.official = h.official
  BY <1>1 DEF Ahead, Whole
<1>3. e = [pubs |-> e.pubs, torn |-> e.torn, episodes |-> e.episodes,
           results |-> e.results, official |-> e.official]
  BY <1>2 DEF Ahead
<1>. QED  BY <1>1, <1>2, <1>3 DEF Ahead, Whole

\* The official card is written over a whole checkout that had none, then its results.
LEMMA FinalizedIsUnreported ==
  ASSUME NEW e, NEW s \in Seq(Publications), Whole(e, s), e.official = NoOfficial,
         NEW x, x = [e EXCEPT !.official = Official(HistoryIn(s, e.pubs))]
  PROVE  Unreported(x, s)
<1>1. HistoryIn(s, e.pubs) \in Seq(Publications)
  BY HistoryStays DEF Whole
<1>2. Official(HistoryIn(s, e.pubs)) # NoOfficial
  BY <1>1, OfficialIsACard
<1> DEFINE o == Official(HistoryIn(s, e.pubs))
<1>3. /\ DOMAIN e = {"pubs", "torn", "episodes", "results", "official"}
      /\ e.torn = FALSE /\ e.results = FALSE /\ e.episodes = e.pubs
      /\ e.pubs \subseteq 1..Len(s)
  BY DEF Whole
<1>4. x = [e EXCEPT !.official = o]
  OBVIOUS
<1>. HIDE DEF o
<1>5. /\ x = [y \in DOMAIN x |-> x[y]]
      /\ DOMAIN x = {"pubs", "torn", "episodes", "results", "official"}
      /\ x.torn = FALSE /\ x.results = FALSE /\ x.official = o
      /\ x.pubs = e.pubs /\ x.episodes = e.pubs
  BY ONLY <1>3, <1>4
<1>6. x = [pubs |-> x.pubs, torn |-> FALSE, episodes |-> x.pubs,
           results |-> FALSE, official |-> x.official]
  BY ONLY <1>5
<1>. QED  BY <1>2, <1>3, <1>5, <1>6 DEF Unreported, o

LEMMA ReportedIsWhole ==
  ASSUME NEW e, NEW s, Unreported(e, s), NEW x, x = [e EXCEPT !.results = TRUE]
  PROVE  Whole(x, s)
<1>1. /\ DOMAIN e = {"pubs", "torn", "episodes", "results", "official"}
      /\ e.torn = FALSE /\ e.episodes = e.pubs /\ e.pubs \subseteq 1..Len(s)
  BY DEF Unreported
<1>2. /\ x = [y \in DOMAIN x |-> x[y]]
      /\ DOMAIN x = {"pubs", "torn", "episodes", "results", "official"}
      /\ x.torn = FALSE /\ x.results = TRUE /\ x.official = e.official
      /\ x.pubs = e.pubs /\ x.episodes = e.pubs
  BY ONLY <1>1, x = [e EXCEPT !.results = TRUE]
<1>3. x = [pubs |-> x.pubs, torn |-> FALSE, episodes |-> x.pubs,
           results |-> x.results, official |-> x.official]
  BY ONLY <1>2
<1>. QED  BY <1>1, <1>2, <1>3 DEF Unreported, Whole

\* The stages of the job that write the checkout.
LEMMA DeriveKeeps ==
  ASSUME EvidenceInv, Derive
  PROVE  EvidenceInv'
<1>1. /\ job.pc = "derive" /\ Ahead(tree, head, published)
      /\ Whole(head, published) /\ Whole(remote, published)
      /\ UNCHANGED <<head, remote>> /\ ByJob
  BY DEF Derive, EvidenceInv, JobOK
<1>2. \/ Ends
      \/ Goes("conflict")
      \/ /\ tree' = [tree EXCEPT !.episodes = tree.pubs] /\ Goes("finalize")
         /\ tree.official = NoOfficial \/ Recomputed = tree.official
  BY DEF Derive
<1>3. CASE Ends
  BY <1>1, <1>3, JobEnds
<1>4. CASE Goes("conflict")
  BY <1>1, <1>4, JobShape, JobKeeps DEF ByJob, JobStages
<1>5. CASE /\ tree' = [tree EXCEPT !.episodes = tree.pubs] /\ Goes("finalize")
           /\ tree.official = NoOfficial \/ Recomputed = tree.official
  <2>1. Recomputed = Official(HistoryIn(published, tree.pubs))
    BY HistoryIsOf DEF Recomputed
  <2>2. Whole(tree', published)
    BY <1>1, <1>5, <2>1, DerivedIsWhole
  <2>. QED  BY <1>1, <1>5, <2>2, JobShape, JobKeeps DEF ByJob, JobStages
<1>. QED  BY <1>2, <1>3, <1>4, <1>5

LEMMA FinalizeKeeps ==
  ASSUME EvidenceInv, Finalize
  PROVE  EvidenceInv'
<1>1. /\ job.pc = "finalize" /\ Whole(tree, published) /\ published \in Seq(Publications)
      /\ Whole(head, published) /\ Whole(remote, published)
      /\ UNCHANGED <<head, remote>> /\ ByJob
  BY DEF Finalize, EvidenceInv, CapturesOK, JobOK
<1>2. \/ Goes("commit") /\ UNCHANGED tree
      \/ Ends
      \/ /\ tree' = [tree EXCEPT !.official = Recomputed] /\ Goes("results")
         /\ tree.official = NoOfficial
  <2>1. clock <= Boundary \/ clock > Boundary
    BY EvidenceAssumption DEF EvidenceInv, CapturesOK
  <2>. QED  BY <2>1 DEF Finalize
<1>3. CASE Goes("commit") /\ UNCHANGED tree
  BY <1>1, <1>3, JobShape, JobKeeps DEF ByJob, JobStages
<1>4. CASE Ends
  BY <1>1, <1>4, JobEnds
<1>5. CASE /\ tree' = [tree EXCEPT !.official = Recomputed] /\ Goes("results")
           /\ tree.official = NoOfficial
  <2>1. tree' = [tree EXCEPT !.official = Official(HistoryIn(published, tree.pubs))]
    BY <1>5, HistoryIsOf DEF Recomputed
  <2>2. Unreported(tree', published)
    BY <1>1, <1>5, <2>1, FinalizedIsUnreported
  <2>. QED  BY <1>1, <1>5, <2>2, JobShape, JobKeeps DEF ByJob, JobStages
<1>. QED  BY <1>2, <1>3, <1>4, <1>5

LEMMA EvidenceKeeps == EvidenceInv /\ [Next]_vars => EvidenceInv'
<1>. SUFFICES ASSUME EvidenceInv, [Next]_vars PROVE EvidenceInv'
  OBVIOUS
<1>0. /\ Whole(head, published) /\ Whole(remote, published)
      /\ published \in Seq(Publications) /\ Len(files) = Len(published)
      /\ job \in [pc: JobStages, todo: SUBSET (1..Len(published))]
  BY DEF EvidenceInv, CapturesOK, JobOK
<1>1. CASE Tick
  BY <1>1 DEF Tick, captureVars, gitVars, EvidenceInv, CapturesOK, JobOK
<1>2. ASSUME NEW lanes \in [Lane -> Row \cup {NoRow}], CaptureBegin(lanes)
      PROVE  EvidenceInv'
  BY <1>2, CaptureKeeps
<1>3. CASE CaptureEnd
  <2>1. capturing /\ capturing' = FALSE
        /\ UNCHANGED <<clock, published, tree, head, remote, job>>
    BY <1>3 DEF CaptureEnd, gitVars
  <2>2. PICK outcome \in {"complete", "gone"} :
          files' = [files EXCEPT ![Len(files)] = outcome]
    BY <1>3 DEF CaptureEnd
  <2>3. files \in Seq({"partial", "complete", "gone"}) /\ Len(files) > 0
    BY <2>1 DEF EvidenceInv, CapturesOK
  <2>4. files' \in Seq({"partial", "complete", "gone"}) /\ Len(files') = Len(files)
    BY <2>2, <2>3
  <2>. QED  BY <2>1, <2>4 DEF EvidenceInv, CapturesOK, JobOK
<1>4. CASE CaptureKilled
  BY <1>4 DEF CaptureKilled, gitVars, EvidenceInv, CapturesOK, JobOK
<1>5. CASE JobStart
  <2>1. tree = head /\ UNCHANGED <<tree, head, remote>> /\ ByJob
        /\ (Goes("glob") \/ Goes("retry"))
    BY <1>5 DEF JobStart, gitVars
  <2>. QED  BY <1>0, <2>1, JobShape, JobKeeps DEF ByJob, JobStages
<1>6. CASE PushRetried
  <2>1. tree = head /\ UNCHANGED <<tree, head>> /\ ByJob /\ remote' = head /\ Goes("glob")
    BY <1>6 DEF PushRetried, EvidenceInv, JobOK
  <2>. QED  BY <1>0, <2>1, JobShape, JobKeeps DEF ByJob, JobStages
<1>7. CASE JobStep
  <2>1. CASE Glob
    <3>1. tree = head /\ UNCHANGED <<tree, head, remote>> /\ ByJob
      BY <2>1 DEF Glob, gitVars, EvidenceInv, JobOK
    <3>2. job' \in [pc: JobStages, todo: SUBSET (1..Len(published))] /\ job'.pc = "copy"
      BY <1>0, <2>1 DEF Glob, JobStages
    <3>. QED  BY <1>0, <3>1, <3>2, AheadOfItself, JobKeeps DEF ByJob
  <2>2. CASE Copy
    BY <2>2, CopyKeeps
  <2>3. CASE Copied
    <3>1. /\ Ahead(tree, head, published) /\ UNCHANGED <<tree, head, remote>> /\ ByJob
          /\ Goes("derive") \/ (Goes("commit") /\ tree.pubs = {})
      BY <2>3 DEF Copied, gitVars, EvidenceInv, JobOK
    <3>. QED  BY <1>0, <3>1, NothingIsWhole, JobShape, JobKeeps DEF ByJob, JobStages
  <2>4. CASE Derive
    BY <2>4, DeriveKeeps
  <2>5. CASE Conflict
    BY <2>5, JobEnds DEF Conflict, gitVars
  <2>6. CASE Finalize
    BY <2>6, FinalizeKeeps
  <2>7. CASE WriteResults
    <3>1. /\ Unreported(tree, published) /\ tree' = [tree EXCEPT !.results = TRUE]
          /\ Goes("commit") /\ UNCHANGED <<head, remote>> /\ ByJob
      BY <2>7 DEF WriteResults, EvidenceInv, JobOK
    <3>2. Whole(tree', published)
      BY <3>1, ReportedIsWhole
    <3>. QED  BY <1>0, <3>1, <3>2, JobShape, JobKeeps DEF ByJob, JobStages
  <2>8. CASE Commit
    <3>1. /\ Whole(tree, published) /\ head' = tree /\ UNCHANGED <<tree, remote>> /\ ByJob
          /\ Ends \/ Goes("push")
      BY <2>8 DEF Commit, EvidenceInv, JobOK
    <3>2. CASE Ends
      BY <1>0, <3>1, <3>2, JobShape, JobKeeps DEF ByJob, Ends
    <3>3. CASE Goes("push")
      BY <1>0, <3>1, <3>3, JobShape, JobKeeps DEF ByJob, JobStages
    <3>. QED  BY <3>1, <3>2, <3>3
  <2>. QED  BY <1>7, <2>1, <2>2, <2>3, <2>4, <2>5, <2>6, <2>7, <2>8 DEF JobStep
<1>8. CASE Push
  BY <1>8, JobEnds DEF Push
<1>9. CASE PushFails
  BY <1>9, JobEnds DEF PushFails, gitVars
<1>10. CASE Kill
  BY <1>10, JobEnds DEF Kill
<1>11. CASE UNCHANGED vars
  BY <1>11 DEF vars, captureVars, gitVars, EvidenceInv, CapturesOK, JobOK
<1>. QED
  BY <1>1, <1>2, <1>3, <1>4, <1>5, <1>6, <1>7, <1>8, <1>9, <1>10, <1>11 DEF Next

\* However captures and jobs are cut short, and pushes fail: what is committed, here
\* or on the remote branch, was derived from what is committed with it.
THEOREM WholeCommits == Spec => []CommitsAreWhole
<1>1. EvidenceInv => CommitsAreWhole
  <2>. SUFFICES ASSUME EvidenceInv, NEW e \in {head, remote}
                PROVE  /\ ~e.torn
                       /\ e.episodes = e.pubs
                       /\ e.results = (e.official # NoOfficial)
                       /\ e.official # NoOfficial => e.official = Official(History(e.pubs))
    BY DEF CommitsAreWhole
  <2>1. Whole(e, published)
    BY DEF EvidenceInv
  <2>2. e.torn = FALSE /\ e.episodes = e.pubs
    BY <2>1 DEF Whole
  <2>3. \/ e.official = NoOfficial /\ e.results = FALSE
        \/ /\ e.official # NoOfficial /\ e.results = TRUE
           /\ e.official = Official(History(e.pubs))
    BY <2>1, HistoryIsOf DEF Whole
  <2>4. e.results = (e.official # NoOfficial)
    BY <2>3
  <2>. QED  BY <2>2, <2>3, <2>4
<1>. QED  BY <1>1, EvidenceInitially, EvidenceKeeps, PTL DEF Spec

-----------------------------------------------------------------------------
(***************************************************************************)
(* What is derived from a week's history                                   *)
(***************************************************************************)

\* A history is of publications, each identified by its place.
Numbered(h) == h \in Seq(Publications) /\ \A i \in 1..Len(h) : h[i].id = i

\* The history grows by one publication of a card.
Grows(h, t, p) == p \in Publications /\ t = Append(h, p) /\ Numbered(t)

LEMMA NumberedGrows ==
  ASSUME NEW h, Numbered(h), NEW p \in Publications, p.id = Len(h) + 1
  PROVE  Numbered(Append(h, p))
<1>1. PICK n \in Nat : n = Len(h)
  BY DEF Numbered
<1>2. PICK t : t = Append(h, p)
  OBVIOUS
<1>3. t \in Seq(Publications) /\ Len(t) = n + 1 /\ t[n + 1] = p /\ \A i \in 1..n : t[i] = h[i]
  BY <1>1, <1>2 DEF Numbered
<1>4. \A i \in 1..(n + 1) : i \in 1..n \/ i = n + 1
  BY <1>1
<1>. QED  BY <1>1, <1>2, <1>3, <1>4 DEF Numbered

LEMMA HistoryInitially == HistoryInit => Numbered(history)
  BY DEF HistoryInit, Numbered

LEMMA HistoryKeeps ==
  ASSUME Numbered(history), HistoryNext
  PROVE  \E p : Grows(history, history', p) /\ p.at = LastAt'
<1>1. PICK lanes \in [Lane -> Row \cup {NoRow}], at \in LastAt..HistorySpan : Publish(lanes, at)
  BY DEF HistoryNext
<1>2. at \in Nat
  <2>1. LastAt \in Nat
    <3>1. CASE history = << >>
      BY <3>1 DEF LastAt
    <3>2. CASE history # << >>
      <4>1. history[Len(history)] \in Publications
        BY <3>2 DEF Numbered
      <4>. QED  BY <3>2, <4>1 DEF LastAt, Publications
    <3>. QED  BY <3>1, <3>2
  <2>. QED  BY <2>1, HistoryAssumption
<1>3. PICK p : p = [id |-> Len(history) + 1, at |-> at, boundary |-> HistorySpan, lanes |-> lanes]
  OBVIOUS
<1>4. p \in Publications /\ p.id = Len(history) + 1 /\ p.at = at
  <2>1. Len(history) \in Nat
    BY DEF Numbered
  <2>. QED  BY <1>2, <1>3, <2>1, HistoryAssumption DEF Publications
<1>5. history' = Append(history, p)
  BY <1>1, <1>3 DEF Publish
<1>6. Numbered(history')
  BY <1>4, <1>5, NumberedGrows
<1>7. LastAt' = p.at
  <2>1. PICK t : t = history'
    OBVIOUS
  <2>2. t = Append(history, p) /\ Len(history) \in Nat /\ history \in Seq(Publications)
    BY <1>5, <2>1 DEF Numbered
  <2>3. t # << >> /\ t[Len(t)] = p
    BY <1>4, <2>2
  <2>4. LastAt' = IF t = << >> THEN 0 ELSE t[Len(t)].at
    BY <2>1 DEF LastAt
  <2>. QED  BY <2>3, <2>4
<1>. QED  BY <1>4, <1>5, <1>6, <1>7 DEF Grows

\* Every history is numbered.
LEMMA HistoryNumbered == HistorySpec => []Numbered(history)
<1>1. Numbered(history) /\ [HistoryNext]_history => Numbered(history)'
  <2>. SUFFICES ASSUME Numbered(history), [HistoryNext]_history PROVE Numbered(history)'
    OBVIOUS
  <2>1. CASE HistoryNext
    BY <2>1, HistoryKeeps DEF Grows
  <2>2. CASE UNCHANGED history
    BY <2>2
  <2>. QED  BY <2>1, <2>2
<1>. QED  BY <1>1, HistoryInitially, PTL DEF HistorySpec

\* Where a lane shows a game.
ShownAt(h, c) == {i \in 1..Len(h) : Shows(h[i], c[1], c[2])}

LEMMA CandidatesAre ==
  ASSUME NEW h, Numbered(h)
  PROVE  \A l, g : <<l, g>> \in Candidates(h) <=> l \in Lane /\ ShownAt(h, <<l, g>>) # {}
<1>. SUFFICES ASSUME NEW l, NEW g
              PROVE  <<l, g>> \in Candidates(h) <=> l \in Lane /\ ShownAt(h, <<l, g>>) # {}
  OBVIOUS
<1>1. ASSUME l \in Lane, NEW i \in 1..Len(h), Shows(h[i], l, g) PROVE g \in Games(h)
  <2>1. l \in Played(h[i]) /\ h[i].lanes[l].game = g
    BY <1>1 DEF Played, Shows
  <2>2. g \in {h[i].lanes[m].game : m \in Played(h[i])}
    BY <2>1
  <2>. QED  BY <2>2 DEF Games
<1>. QED  BY <1>1 DEF Candidates, ShownAt

\* A candidate is a lane and a game.
LEMMA CandidateIs ==
  ASSUME NEW h, NEW c \in Candidates(h)
  PROVE  c = <<c[1], c[2]>>
BY DEF Candidates

\* The least of some places is where none is before.
LEMMA LeastIs ==
  ASSUME NEW n \in Nat, NEW T, T \subseteq 1..n, NEW x \in T, \A y \in T : x <= y
  PROVE  Min(T) = x
<1>1. Min(T) \in T /\ \A y \in T : Min(T) <= y
  <2>1. \E z \in T : \A y \in T : z <= y
    OBVIOUS
  <2>. QED  BY <2>1 DEF Min
<1>2. PICK m \in T : m = Min(T) /\ m <= x
  BY <1>1
<1>3. x <= m /\ m \in Int /\ x \in Int
  OBVIOUS
<1>. QED  BY <1>2, <1>3

\* What the first card said of a game's kickoff, later ones do not change.
LEMMA KickoffStays ==
  ASSUME NEW h, Numbered(h), NEW t, NEW p, Grows(h, t, p), NEW c, ShownAt(h, c) # {}
  PROVE  KickoffOf(t, c) = KickoffOf(h, c)
<1>1. PICK n \in Nat : n = Len(h)
  BY DEF Numbered
<1>2. Len(t) = n + 1 /\ \A i \in 1..n : t[i] = h[i]
  BY <1>1 DEF Numbered, Grows
<1>3. PICK A : A = ShownAt(h, c)
  OBVIOUS
<1>4. PICK B : B = ShownAt(t, c)
  OBVIOUS
<1>5. A \subseteq 1..n /\ B \subseteq 1..(n + 1) /\ \A i \in 1..n : i \in A <=> i \in B
  BY <1>1, <1>2, <1>3, <1>4 DEF ShownAt
<1>6. PICK x \in A : \A y \in A : x <= y
  <2>1. A \subseteq Nat /\ A # {}
    BY <1>3, <1>5
  <2>. QED  BY <2>1, LeastElement
<1>7. x \in B /\ \A y \in B : x <= y
  BY <1>1, <1>5, <1>6
<1>8. Min(A) = x
  BY <1>5, <1>6, LeastIs
<1>9. Min(B) = x
  <2>1. n + 1 \in Nat
    BY <1>1
  <2>. QED  BY <1>5, <1>7, <2>1, LeastIs
<1>10. KickoffOf(h, c) = h[x].lanes[c[1]].kick
  BY <1>3, <1>8 DEF KickoffOf, ShownAt
<1>11. KickoffOf(t, c) = t[x].lanes[c[1]].kick
  BY <1>4, <1>9 DEF KickoffOf, ShownAt
<1>. QED  BY <1>2, <1>5, <1>6, <1>10, <1>11

\* A publication from a kickoff on is not eligible.
LEMMA EligibleStays ==
  ASSUME NEW h, Numbered(h), NEW t, NEW p, Grows(h, t, p), NEW c, p.at >= KickoffOf(t, c),
         KickoffOf(t, c) \in Nat
  PROVE  Eligible(t, c) = {i \in 1..Len(h) : h[i].at < KickoffOf(t, c)}
<1>1. PICK n \in Nat : n = Len(h)
  BY DEF Numbered
<1>2. Len(t) = n + 1 /\ t[n + 1] = p /\ p.at \in Nat /\ \A i \in 1..n : t[i] = h[i]
  BY <1>1 DEF Numbered, Grows, Publications
<1>3. \A i \in 1..(n + 1) : i \in 1..n \/ i = n + 1
  BY <1>1
<1>4. \A i : i \in Eligible(t, c) <=> i \in 1..(n + 1) /\ t[i].at < KickoffOf(t, c)
  BY <1>2 DEF Eligible
<1>5. ~(t[n + 1].at < KickoffOf(t, c))
  BY <1>2
<1>. QED  BY <1>1, <1>2, <1>3, <1>4, <1>5

\* A kickoff is a time.
LEMMA KickoffIs ==
  ASSUME NEW h, Numbered(h), NEW c, ShownAt(h, c) # {}, c[1] \in Lane
  PROVE  /\ KickoffOf(h, c) \in Nat
         /\ \E i \in ShownAt(h, c) : KickoffOf(h, c) = h[i].lanes[c[1]].kick
<1>1. Len(h) \in Nat /\ ShownAt(h, c) \subseteq 1..Len(h)
  BY DEF Numbered, ShownAt
<1>2. PICK i \in ShownAt(h, c) : i = Min(ShownAt(h, c))
  BY <1>1, PlacesHaveEnds
<1>3. KickoffOf(h, c) = h[i].lanes[c[1]].kick
  BY <1>2 DEF KickoffOf, ShownAt
<1>4. h[i] \in Publications /\ Shows(h[i], c[1], c[2])
  BY <1>1, <1>2 DEF Numbered, ShownAt
<1>5. h[i].lanes[c[1]] \in Row
  BY <1>4 DEF Shows, Publications
<1>. QED  BY <1>3, <1>5, CardAssumption

\* The cards of E that show the recommendation of card f in lane l.
SeenLike(h, l, E, f) ==
  {i \in E : h[i].lanes[l] # NoRow /\ Logical(h[i].lanes[l]) = Logical(h[f].lanes[l])}

\* A resolution as far as it is needed: nothing eligible; what the last eligible card shows.
LEMMA ResolutionIs ==
  ASSUME NEW h, Numbered(h), NEW c, NEW E, E = Eligible(h, c)
  PROVE  /\ E = {} => Resolution(h, c) = Unresolved
         /\ E # {} /\ ~Shows(h[Max(E)], c[1], c[2]) =>
              Resolution(h, c) = [state |-> "OFFICIAL_NO_PLAY_OR_REPLACED", source |-> h[Max(E)].id,
                                  wager |-> NoRow, first |-> 0]
         /\ E # {} /\ Shows(h[Max(E)], c[1], c[2]) /\ h[Max(E)].lanes[c[1]].state # "BET" =>
              Resolution(h, c) = [state |-> "OFFICIAL_TARGET_ONLY", source |-> h[Max(E)].id,
                                  wager |-> NoRow, first |-> 0]
         /\ E # {} /\ Shows(h[Max(E)], c[1], c[2]) /\ h[Max(E)].lanes[c[1]].state = "BET" =>
              Resolution(h, c) =
                [state |-> "OFFICIAL_BET", source |-> h[Max(E)].id, wager |-> h[Max(E)].lanes[c[1]],
                 first |-> h[Min(SeenLike(h, c[1], E, Max(E)))].id]
BY DEF Resolution, SeenLike

\* What is official for a game stays from its kickoff on.
LEMMA ResolutionStays ==
  ASSUME NEW h, Numbered(h), NEW t, NEW p, Grows(h, t, p), NEW c, c[1] \in Lane, ShownAt(h, c) # {},
         p.at >= KickoffOf(h, c)
  PROVE  Resolution(t, c) = Resolution(h, c)
<1>1. PICK n \in Nat : n = Len(h)
  BY DEF Numbered
<1>2. Numbered(t) /\ Len(t) = n + 1 /\ \A i \in 1..n : t[i] = h[i]
  BY <1>1 DEF Numbered, Grows
<1>3. KickoffOf(t, c) = KickoffOf(h, c)
  BY KickoffStays
<1>4. KickoffOf(h, c) \in Nat
  BY KickoffIs
<1>5. PICK E : E = Eligible(h, c)
  OBVIOUS
<1>6. E = Eligible(t, c)
  BY <1>3, <1>4, <1>5, EligibleStays DEF Eligible
<1>7. CASE E = {}
  <2>1. Resolution(h, c) = Unresolved
    BY <1>5, <1>7, ResolutionIs
  <2>2. Resolution(t, c) = Unresolved
    BY <1>2, <1>6, <1>7, ResolutionIs
  <2>. QED  BY <2>1, <2>2
<1>8. CASE E # {}
  <2>1. E \subseteq 1..n
    BY <1>1, <1>5 DEF Eligible
  <2>2. PICK f \in 1..n : f = Max(E)
    BY <1>8, <2>1, PlacesHaveEnds
  <2>3. PICK S : S = SeenLike(h, c[1], E, f)
    OBVIOUS
  <2>4. S = SeenLike(t, c[1], E, f)
    BY <1>2, <2>1, <2>2, <2>3 DEF SeenLike
  <2>5. t[f] = h[f]
    BY <1>2, <2>2
  <2>6. CASE ~Shows(h[f], c[1], c[2])
    <3>1. Resolution(h, c) = [state |-> "OFFICIAL_NO_PLAY_OR_REPLACED", source |-> h[f].id,
                              wager |-> NoRow, first |-> 0]
      BY <1>5, <1>8, <2>2, <2>6, ResolutionIs
    <3>2. Resolution(t, c) = [state |-> "OFFICIAL_NO_PLAY_OR_REPLACED", source |-> t[f].id,
                              wager |-> NoRow, first |-> 0]
      BY <1>2, <1>6, <1>8, <2>2, <2>5, <2>6, ResolutionIs
    <3>. QED  BY <2>5, <3>1, <3>2
  <2>7. CASE Shows(h[f], c[1], c[2]) /\ h[f].lanes[c[1]].state # "BET"
    <3>1. Resolution(h, c) = [state |-> "OFFICIAL_TARGET_ONLY", source |-> h[f].id,
                              wager |-> NoRow, first |-> 0]
      BY <1>5, <1>8, <2>2, <2>7, ResolutionIs
    <3>2. Resolution(t, c) = [state |-> "OFFICIAL_TARGET_ONLY", source |-> t[f].id,
                              wager |-> NoRow, first |-> 0]
      BY <1>2, <1>6, <1>8, <2>2, <2>5, <2>7, ResolutionIs
    <3>. QED  BY <2>5, <3>1, <3>2
  <2>8. CASE Shows(h[f], c[1], c[2]) /\ h[f].lanes[c[1]].state = "BET"
    <3>1. Resolution(h, c) = [state |-> "OFFICIAL_BET", source |-> h[f].id, wager |-> h[f].lanes[c[1]],
                              first |-> h[Min(S)].id]
      BY <1>5, <1>8, <2>2, <2>3, <2>8, ResolutionIs
    <3>2. Resolution(t, c) = [state |-> "OFFICIAL_BET", source |-> t[f].id, wager |-> t[f].lanes[c[1]],
                              first |-> t[Min(S)].id]
      BY <1>2, <1>6, <1>8, <2>2, <2>4, <2>5, <2>8, ResolutionIs
    <3>3. f \in E
      BY <1>8, <2>1, <2>2, PlacesHaveEnds
    <3>4. f \in S /\ S \subseteq 1..n
      BY <2>1, <2>3, <2>8, <3>3 DEF Shows, SeenLike
    <3>5. PICK m \in 1..n : m = Min(S)
      BY <3>4, PlacesHaveEnds
    <3>6. t[m] = h[m]
      BY <1>2, <3>5
    <3>. QED  BY <2>5, <3>1, <3>2, <3>5, <3>6
  <2>. QED  BY <2>6, <2>7, <2>8
<1>. QED  BY <1>7, <1>8

\* A wager that is official was shown by a card from before the kickoff.
LEMMA WagerIs ==
  ASSUME NEW h, Numbered(h), NEW c, c[1] \in Lane, Resolution(h, c).wager # NoRow
  PROVE  \E f \in Eligible(h, c) :
           /\ f = Max(Eligible(h, c)) /\ Shows(h[f], c[1], c[2]) /\ h[f].lanes[c[1]].state = "BET"
           /\ Resolution(h, c).source = f /\ Resolution(h, c).wager = h[f].lanes[c[1]]
<1>1. PICK E : E = Eligible(h, c)
  OBVIOUS
<1>2. Len(h) \in Nat /\ E \subseteq 1..Len(h)
  BY <1>1 DEF Numbered, Eligible
<1>3. E # {}
  <2>. SUFFICES ASSUME E = {} PROVE FALSE
    OBVIOUS
  <2>1. Resolution(h, c) = Unresolved
    BY <1>1, ResolutionIs
  <2>. QED  BY <2>1 DEF Unresolved
<1>4. PICK f \in E : f = Max(E)
  BY <1>2, <1>3, PlacesHaveEnds
<1>5. Shows(h[f], c[1], c[2]) /\ h[f].lanes[c[1]].state = "BET"
  <2>1. CASE ~Shows(h[f], c[1], c[2])
    <3>1. Resolution(h, c) = [state |-> "OFFICIAL_NO_PLAY_OR_REPLACED", source |-> h[f].id,
                              wager |-> NoRow, first |-> 0]
      BY <1>1, <1>3, <1>4, <2>1, ResolutionIs
    <3>. QED  BY <3>1
  <2>2. CASE Shows(h[f], c[1], c[2]) /\ h[f].lanes[c[1]].state # "BET"
    <3>1. Resolution(h, c) = [state |-> "OFFICIAL_TARGET_ONLY", source |-> h[f].id,
                              wager |-> NoRow, first |-> 0]
      BY <1>1, <1>3, <1>4, <2>2, ResolutionIs
    <3>. QED  BY <3>1
  <2>. QED  BY <2>1, <2>2
<1>6. PICK a : Resolution(h, c) = [state |-> "OFFICIAL_BET", source |-> h[f].id, wager |-> h[f].lanes[c[1]],
                                   first |-> a]
  BY <1>1, <1>3, <1>4, <1>5, ResolutionIs
<1>7. h[f].id = f
  BY <1>2, <1>4 DEF Numbered
<1>. QED  BY <1>1, <1>4, <1>5, <1>6, <1>7

\* And what the last eligible card bets is official.
LEMMA BetIsWager ==
  ASSUME NEW h, Numbered(h), NEW c, c[1] \in Lane, NEW f \in Eligible(h, c), f = Max(Eligible(h, c)),
         Shows(h[f], c[1], c[2]), h[f].lanes[c[1]].state = "BET"
  PROVE  Resolution(h, c).wager = h[f].lanes[c[1]] /\ Resolution(h, c).wager # NoRow
<1>1. PICK E : E = Eligible(h, c)
  OBVIOUS
<1>2. PICK a : Resolution(h, c) = [state |-> "OFFICIAL_BET", source |-> h[f].id, wager |-> h[f].lanes[c[1]],
                                   first |-> a]
  BY <1>1, ResolutionIs
<1>. QED  BY <1>2 DEF Shows

\* A lane that takes up a game from its kickoff on bets nothing on it officially.
LEMMA LateIsNoWager ==
  ASSUME NEW h, Numbered(h), NEW t, NEW p, Grows(h, t, p), NEW c, c[1] \in Lane, ShownAt(h, c) = {},
         ShownAt(t, c) # {}, p.at >= KickoffOf(t, c)
  PROVE  Resolution(t, c).wager = NoRow
<1>1. Numbered(t)
  BY DEF Grows
<1>2. KickoffOf(t, c) \in Nat
  BY <1>1, KickoffIs
<1>3. Eligible(t, c) \subseteq 1..Len(h)
  BY <1>2, EligibleStays
<1>4. SUFFICES ASSUME Resolution(t, c).wager # NoRow PROVE FALSE
  OBVIOUS
<1>5. PICK f \in Eligible(t, c) : Shows(t[f], c[1], c[2])
  BY <1>1, <1>4, WagerIs
<1>6. f \in 1..Len(h) /\ t[f] = h[f]
  BY <1>3, <1>5 DEF Grows, Numbered
<1>. QED  BY <1>5, <1>6 DEF ShownAt

\* A game once shown stays a candidate.
LEMMA ShownStays ==
  ASSUME NEW h, Numbered(h), NEW t, NEW p, Grows(h, t, p), NEW c
  PROVE  ShownAt(h, c) \subseteq ShownAt(t, c)
BY DEF ShownAt, Grows, Numbered

\* One step of the week freezes what has kicked off.
LEMMA StepFreezes ==
  ASSUME NEW h, Numbered(h), NEW t, NEW p, Grows(h, t, p)
  PROVE  /\ \A c \in Candidates(h) : p.at >= KickoffOf(h, c) => Official(t)[c] = Official(h)[c]
         /\ \A c \in Wagers(Official(t)) : c \notin Wagers(Official(h)) => p.at < KickoffOf(t, c)
<1>1. Numbered(t)
  BY DEF Grows
<1>2. \A c \in Candidates(h) : c[1] \in Lane /\ ShownAt(h, c) # {} /\ c \in Candidates(t)
  <2>. SUFFICES ASSUME NEW c \in Candidates(h) PROVE c[1] \in Lane /\ ShownAt(h, c) # {} /\ c \in Candidates(t)
    OBVIOUS
  <2>1. c = <<c[1], c[2]>>
    BY CandidateIs
  <2>2. c[1] \in Lane /\ ShownAt(h, c) # {}
    BY <2>1, CandidatesAre
  <2>3. ShownAt(t, c) # {}
    BY <2>2, ShownStays
  <2>4. <<c[1], c[2]>> \in Candidates(t)
    BY <1>1, <2>1, <2>2, <2>3, CandidatesAre
  <2>. QED  BY <2>1, <2>2, <2>4
<1>3. ASSUME NEW c \in Candidates(h), p.at >= KickoffOf(h, c) PROVE Official(t)[c] = Official(h)[c]
  <2>1. Resolution(t, c) = Resolution(h, c)
    BY <1>2, <1>3, ResolutionStays
  <2>. QED  BY <1>2, <2>1 DEF Official
<1>4. ASSUME NEW c \in Wagers(Official(t)), c \notin Wagers(Official(h)) PROVE p.at < KickoffOf(t, c)
  <2>1. c \in Candidates(t) /\ Resolution(t, c).wager # NoRow
    BY DEF Wagers, Official
  <2>2. c = <<c[1], c[2]>>
    BY <2>1, CandidateIs
  <2>3. c[1] \in Lane /\ ShownAt(t, c) # {}
    BY <1>1, <2>1, <2>2, CandidatesAre
  <2>4. KickoffOf(t, c) \in Nat /\ p.at \in Nat
    BY <1>1, <2>3, KickoffIs DEF Grows, Publications
  <2>5. SUFFICES ASSUME p.at >= KickoffOf(t, c) PROVE FALSE
    BY <2>4
  <2>6. CASE ShownAt(h, c) = {}
    BY <2>1, <2>3, <2>5, <2>6, LateIsNoWager
  <2>7. CASE ShownAt(h, c) # {}
    <3>1. KickoffOf(t, c) = KickoffOf(h, c)
      BY <2>7, KickoffStays
    <3>2. Resolution(t, c) = Resolution(h, c)
      BY <2>3, <2>5, <2>7, <3>1, ResolutionStays
    <3>3. <<c[1], c[2]>> \in Candidates(h)
      BY <2>2, <2>3, <2>7, CandidatesAre
    <3>. QED  BY <1>4, <2>1, <2>2, <3>2, <3>3 DEF Wagers, Official
  <2>. QED  BY <2>6, <2>7
<1>. QED  BY <1>3, <1>4

\* Whatever is published in whatever order: from a game's kickoff on nothing that is
\* published changes what is official for it, and it adds no official wager.
THEOREM OfficialFrozen == HistorySpec => KickoffFreezes
<1>1. Numbered(history) /\ [HistoryNext]_history =>
      [LET at == LastAt'
           before == Official(history)
           after == Official(history')
       IN /\ \A c \in Candidates(history) :
               at >= KickoffOf(history, c) => after[c] = before[c]
          /\ \A c \in Wagers(after) : c \notin Wagers(before)
               => at < KickoffOf(history', c)]_history
  <2>. SUFFICES ASSUME Numbered(history), HistoryNext
       PROVE  LET at == LastAt'
                  before == Official(history)
                  after == Official(history')
              IN /\ \A c \in Candidates(history) :
                      at >= KickoffOf(history, c) => after[c] = before[c]
                 /\ \A c \in Wagers(after) : c \notin Wagers(before)
                      => at < KickoffOf(history', c)
    OBVIOUS
  <2>1. PICK p : Grows(history, history', p) /\ p.at = LastAt'
    BY HistoryKeeps
  <2>. QED  BY <2>1, StepFreezes
<1>. QED  BY <1>1, HistoryNumbered, PTL DEF HistorySpec, KickoffFreezes

\* In a week without moves whatever lanes show a game give it one kickoff.
Settles(h) ==
  \A i, j \in 1..Len(h) : \A l \in Played(h[i]), m \in Played(h[j]) :
    h[i].lanes[l].game = h[j].lanes[m].game => h[i].lanes[l].kick = h[j].lanes[m].kick

LEMMA OneKickoff ==
  ASSUME NEW h, Numbered(h), Settles(h), NEW l \in Lane, NEW m \in Lane, NEW g,
         ShownAt(h, <<l, g>>) # {}, ShownAt(h, <<m, g>>) # {}
  PROVE  Eligible(h, <<l, g>>) = Eligible(h, <<m, g>>)
<1>1. PICK i \in ShownAt(h, <<l, g>>) : KickoffOf(h, <<l, g>>) = h[i].lanes[l].kick
  BY KickoffIs
<1>2. PICK j \in ShownAt(h, <<m, g>>) : KickoffOf(h, <<m, g>>) = h[j].lanes[m].kick
  BY KickoffIs
<1>3. i \in 1..Len(h) /\ Shows(h[i], l, g) /\ j \in 1..Len(h) /\ Shows(h[j], m, g)
  BY DEF ShownAt
<1>4. l \in Played(h[i]) /\ m \in Played(h[j]) /\ h[i].lanes[l].game = h[j].lanes[m].game
  BY <1>3 DEF Played, Shows
<1>5. KickoffOf(h, <<l, g>>) = KickoffOf(h, <<m, g>>)
  BY <1>1, <1>2, <1>3, <1>4 DEF Settles
<1>. QED  BY <1>5 DEF Eligible

\* The duplicates of a bet on its card are the lanes with an official wager on its offer.
LEMMA DuplicatesAreMerged ==
  ASSUME NEW h, Numbered(h), Settles(h), NEW c \in Wagers(Official(h)),
         NEW f, f = Resolution(h, c).source
  PROVE  /\ c[1] \in Lane /\ c[1] \in Duplicates(h[f], c[1])
         /\ Duplicates(h[f], c[1]) =
              {d[1] : d \in {e \in Wagers(Official(h)) :
                               ExactOffer(Official(h)[e].wager) = ExactOffer(Official(h)[c].wager)}}
<1>1. \A e \in Wagers(Official(h)) :
        /\ e = <<e[1], e[2]>> /\ e[1] \in Lane /\ ShownAt(h, <<e[1], e[2]>>) # {}
        /\ Resolution(h, e).wager # NoRow /\ Official(h)[e] = Resolution(h, e)
  <2>. SUFFICES ASSUME NEW e \in Wagers(Official(h))
                PROVE  /\ e = <<e[1], e[2]>> /\ e[1] \in Lane /\ ShownAt(h, <<e[1], e[2]>>) # {}
                       /\ Resolution(h, e).wager # NoRow /\ Official(h)[e] = Resolution(h, e)
    OBVIOUS
  <2>1. e \in Candidates(h) /\ Resolution(h, e).wager # NoRow /\ Official(h)[e] = Resolution(h, e)
    BY DEF Wagers, Official
  <2>2. e = <<e[1], e[2]>>
    BY <2>1, CandidateIs
  <2>. QED  BY <2>1, <2>2, CandidatesAre
<1>2. PICK l, g : l \in Lane /\ c = <<l, g>> /\ c[1] = l /\ c[2] = g
  BY <1>1
<1>3. PICK E : E = Eligible(h, c)
  OBVIOUS
<1>4. f \in E /\ f = Max(E) /\ Shows(h[f], l, g) /\ h[f].lanes[l].state = "BET"
      /\ Resolution(h, c).wager = h[f].lanes[l]
  BY <1>1, <1>2, <1>3, WagerIs
<1>5. f \in 1..Len(h)
  BY <1>3, <1>4 DEF Eligible
<1>6. PICK o : o = ExactOffer(h[f].lanes[l]) /\ \A row : ExactOffer(row) = o => row.game = g
  <2>1. h[f].lanes[l].game = g
    BY <1>4 DEF Shows
  <2>2. \A row : ExactOffer(row) = ExactOffer(h[f].lanes[l]) => row.game = h[f].lanes[l].game
    BY DEF ExactOffer
  <2>. QED  BY <2>1, <2>2
<1>7. ASSUME NEW m \in Duplicates(h[f], l)
      PROVE  \E e \in Wagers(Official(h)) : e[1] = m /\ ExactOffer(Official(h)[e].wager) = o
  <2>1. m \in Lane /\ h[f].lanes[m] # NoRow /\ h[f].lanes[m].state = "BET" /\ ExactOffer(h[f].lanes[m]) = o
    BY <1>6, <1>7 DEF Duplicates
  <2>2. Shows(h[f], m, g)
    BY <1>6, <2>1 DEF Shows
  <2>3. PICK e : e = <<m, g>> /\ e[1] = m /\ e[2] = g
    BY ONLY <<m, g>>[1] = m, <<m, g>>[2] = g
  <2>4. ShownAt(h, e) # {} /\ ShownAt(h, c) # {}
    BY <1>1, <1>2, <1>5, <2>2, <2>3 DEF ShownAt
  <2>5. Eligible(h, e) = E
    BY <1>2, <1>3, <2>1, <2>3, <2>4, OneKickoff
  <2>6. Resolution(h, e).wager = h[f].lanes[m] /\ Resolution(h, e).wager # NoRow
    BY <1>4, <2>1, <2>2, <2>3, <2>5, BetIsWager
  <2>7. <<m, g>> \in Candidates(h)
    BY <2>1, <2>3, <2>4, CandidatesAre
  <2>8. e \in Wagers(Official(h)) /\ Official(h)[e].wager = h[f].lanes[m]
    BY <2>3, <2>6, <2>7 DEF Wagers, Official
  <2>. QED  BY <2>1, <2>3, <2>8
<1>8. ASSUME NEW e \in Wagers(Official(h)), ExactOffer(Official(h)[e].wager) = o
      PROVE  e[1] \in Duplicates(h[f], l)
  <2>1. PICK m, k : m \in Lane /\ e = <<m, k>> /\ e[1] = m /\ e[2] = k
    BY <1>1
  <2>2. PICK F : F = Eligible(h, e)
    OBVIOUS
  <2>3. PICK x \in F : x = Max(F) /\ Shows(h[x], m, k) /\ h[x].lanes[m].state = "BET"
                       /\ Resolution(h, e).wager = h[x].lanes[m]
    BY <1>1, <2>1, <2>2, WagerIs
  <2>4. ExactOffer(h[x].lanes[m]) = o
    BY <1>1, <1>8, <2>3
  <2>5. k = g
    BY <1>6, <2>3, <2>4 DEF Shows
  <2>6. ShownAt(h, <<m, g>>) # {} /\ ShownAt(h, <<l, g>>) # {}
    BY <1>1, <1>2, <2>1, <2>5
  <2>7. F = E
    BY <1>2, <1>3, <2>1, <2>2, <2>5, <2>6, OneKickoff
  <2>8. x = f
    BY <1>4, <2>3, <2>7
  <2>9. h[f].lanes[m] # NoRow /\ h[f].lanes[l] # NoRow
    BY <1>4, <2>3, <2>8 DEF Shows
  <2>. QED  BY <1>4, <1>6, <2>1, <2>3, <2>4, <2>8, <2>9 DEF Duplicates
<1>9. ExactOffer(Official(h)[c].wager) = o
  BY <1>1, <1>4, <1>6
<1>10. c[1] \in Duplicates(h[f], c[1])
  BY <1>2, <1>8, <1>9
<1>. QED  BY <1>2, <1>7, <1>8, <1>9, <1>10

\* In every week of every history, unless a game was moved, the portfolio merges the
\* wagers that a card marks as one and no others.
THEOREM PortfolioMerges == HistorySpec => []PortfolioAgreesWithCards
<1>1. Numbered(history) => PortfolioAgreesWithCards
  <2>. SUFFICES ASSUME Numbered(history), GamesStay, NEW c \in Wagers(Official(history))
                PROVE  \E entry \in Portfolio(Official(history)) :
                         /\ c[1] \in entry.lanes
                         /\ entry.offer = ExactOffer(Official(history)[c].wager)
                         /\ Primary(entry) = DuplicateOf(history[Official(history)[c].source], c[1])
    BY DEF PortfolioAgreesWithCards
  <2>1. Settles(history)
    BY DEF GamesStay, Settles
  <2>2. PICK f : f = Resolution(history, c).source
    OBVIOUS
  <2>3. Official(history)[c] = Resolution(history, c)
    BY DEF Wagers, Official
  <2>4. PICK D : D = Duplicates(history[f], c[1])
    OBVIOUS
  <2>5. PICK o : o = ExactOffer(Official(history)[c].wager)
    OBVIOUS
  <2>6. /\ c[1] \in D
        /\ D = {d[1] : d \in {e \in Wagers(Official(history)) : ExactOffer(Official(history)[e].wager) = o}}
    BY <2>1, <2>2, <2>4, <2>5, DuplicatesAreMerged
  <2>7. PICK entry : entry = [offer |-> o, lanes |-> D]
    OBVIOUS
  <2>8. entry \in Portfolio(Official(history))
    BY <2>5, <2>6, <2>7 DEF Portfolio
  <2>9. Primary(entry) = First(D)
    BY <2>7 DEF Primary
  <2>10. DuplicateOf(history[f], c[1]) = First(D)
    BY <2>4, <2>6 DEF DuplicateOf
  <2>. QED  BY <2>2, <2>3, <2>5, <2>6, <2>7, <2>8, <2>9, <2>10
<1>. QED  BY <1>1, HistoryNumbered, PTL

-----------------------------------------------------------------------------
\* What one lane shows over the week: v[i] in publication i.
LaneOf(h, l) == [i \in 1..Len(h) |-> h[i].lanes[l]]

\* Two publications show one recommendation in it.
Alike(v, i, j) == v[i] # NoRow /\ v[j] # NoRow /\ Logical(v[i]) = Logical(v[j])

\* One step of derive_episodes.
Seen(v, acc, i) == IF v[i] = NoRow THEN Close(acc, "DISAPPEARED") ELSE Noted(acc, v[i], i)

Fresh == [open |-> NoEpisode, closed |-> {}, seen |-> {}]

\* The step of derive_episodes over a set of publications, after the earlier of them.
EpisodesUpTo(h, l, places, f, s) ==
  IF s = {} THEN Fresh
  ELSE IF h[places[Max(s)]].lanes[l] = NoRow
         THEN Close(f[s \ {Max(s)}], "DISAPPEARED")
         ELSE Noted(f[s \ {Max(s)}], h[places[Max(s)]].lanes[l], places[Max(s)])

Passes(h, l, places, D) == CHOOSE f : f = [s \in SUBSET D |-> EpisodesUpTo(h, l, places, f, s)]

LEMMA EpisodesFold ==
  ASSUME NEW h, NEW l, NEW places, places = [i \in 1..Len(h) |-> i]
  PROVE  EpisodesOf(h, l) =
           Close(Passes(h, l, places, DOMAIN places)[DOMAIN places], "WEEK_HISTORY_END").closed
BY DEF Passes, EpisodesOf, FoldLeft, MapThenFoldSet, Fresh, EpisodesUpTo

-----------------------------------------------------------------------------
Logicals == {Logical(row) : row \in Row}
Reasons == {"DISAPPEARED", "REPLACED", "WEEK_HISTORY_END"}
Openings(n) == [logical: Logicals, observed: SUBSET (1..n), returned: BOOLEAN]
Closings(n) == [reason: Reasons, logical: Logicals, observed: SUBSET (1..n), returned: BOOLEAN]
Accs(n) == [open: Openings(n) \cup {NoEpisode}, closed: SUBSET Closings(n), seen: SUBSET Logicals]

\* An episode is told by its logical recommendation from the lack of one.
LEMMA NoEpisodeIs ==
  ASSUME NEW n, NEW e \in Openings(n)
  PROVE  e # NoEpisode
<1>1. "logical" \in DOMAIN e
  BY DEF Openings
<1>2. "logical" \notin DOMAIN NoEpisode
  BY DEF NoEpisode
<1>. QED  BY <1>1, <1>2

\* Closing leaves no episode open, and the one there was closed.
LEMMA CloseIs ==
  ASSUME NEW n, NEW acc \in Accs(n), NEW reason \in Reasons
  PROVE  /\ Close(acc, reason) \in Accs(n) /\ Close(acc, reason).open = NoEpisode
         /\ Close(acc, reason).seen = acc.seen
         /\ acc.open = NoEpisode => Close(acc, reason).closed = acc.closed
         /\ acc.open # NoEpisode =>
              Close(acc, reason).closed = acc.closed \cup {[reason |-> reason, logical |-> acc.open.logical,
                                                            observed |-> acc.open.observed,
                                                            returned |-> acc.open.returned]}
<1>1. /\ acc.open \in Openings(n) \cup {NoEpisode}
      /\ acc.closed \in SUBSET Closings(n) /\ acc.seen \in SUBSET Logicals
  BY DEF Accs
<1>2. CASE acc.open = NoEpisode
  <2>1. Close(acc, reason) = acc
    BY <1>2 DEF Close
  <2>. QED  BY <1>2, <2>1
<1>3. CASE acc.open # NoEpisode
  <2>1. PICK e : e = acc.open
    OBVIOUS
  <2>2. e \in Openings(n)
    BY <1>1, <1>3, <2>1
  <2>3. PICK x : x = [reason |-> reason, logical |-> e.logical, observed |-> e.observed, returned |-> e.returned]
    OBVIOUS
  <2>4. x \in Closings(n)
    BY <2>2, <2>3 DEF Openings, Closings
  <2>5. Close(acc, reason) = [acc EXCEPT !.open = NoEpisode, !.closed = @ \cup {x}]
    BY <1>3, <2>1, <2>3 DEF Close
  <2>6. PICK none : none = NoEpisode
    OBVIOUS
  <2>7. PICK a : a = [acc EXCEPT !.open = none]
    OBVIOUS
  <2>8. a \in Accs(n) /\ a.open = none /\ a.seen = acc.seen /\ a.closed = acc.closed
    BY <2>6, <2>7 DEF Accs
  <2>9. PICK b : b = [a EXCEPT !.closed = @ \cup {x}]
    OBVIOUS
  <2>10. b \in Accs(n) /\ b.open = none /\ b.seen = acc.seen /\ b.closed = acc.closed \cup {x}
    BY <2>4, <2>8, <2>9 DEF Accs
  <2>11. Close(acc, reason) = b
    BY <2>5, <2>6, <2>7, <2>9
  <2>. QED  BY <1>3, <2>1, <2>3, <2>6, <2>10, <2>11
<1>. QED  BY <1>2, <1>3

\* Publication i noted in the episode under way.
Extended(acc, i) == [acc EXCEPT !.open.observed = @ \cup {i}]

\* What opening an episode at publication i leaves.
LEMMA OpenIs ==
  ASSUME NEW n \in Nat, NEW acc \in Accs(n), NEW row \in Row, NEW i \in 1..n, NEW e, NEW o, NEW b,
         e = [logical |-> Logical(row), observed |-> {i}, returned |-> Logical(row) \in acc.seen],
         o = Opened(acc, row), b = Extended(o, i)
  PROVE  /\ b \in Accs(n) /\ e \in Openings(n) /\ b.open = e /\ b.closed = acc.closed
         /\ b.seen = acc.seen \cup {Logical(row)}
<1>1. PICK x : x = [logical |-> Logical(row), observed |-> {}, returned |-> Logical(row) \in acc.seen]
  OBVIOUS
<1>2. PICK a : a = [acc EXCEPT !.open = x]
  OBVIOUS
<1>3. PICK u : u = acc.seen \cup {Logical(row)}
  OBVIOUS
<1>4. PICK w : w = [a EXCEPT !.seen = u]
  OBVIOUS
<1>5. o = w
  BY <1>1, <1>2, <1>3, <1>4 DEF Opened, Accs
<1>6. x.observed = {} /\ Logical(row) \in Logicals /\ e \in Openings(n) /\ x \in Openings(n)
  BY <1>1 DEF Logicals, Openings
<1>7. e = [x EXCEPT !.observed = @ \cup {i}]
  BY <1>1
<1>8. DOMAIN w = {"open", "closed", "seen"} /\ w.open = x /\ w.closed = acc.closed /\ w.seen = u
  BY <1>2, <1>4 DEF Accs
<1>9. b = [w EXCEPT !.open = e]
  BY <1>5, <1>7, <1>8 DEF Extended
<1>10. DOMAIN b = {"open", "closed", "seen"} /\ b.open = e /\ b.closed = acc.closed /\ b.seen = u
  BY <1>8, <1>9
<1>11. acc.closed \in SUBSET Closings(n) /\ u \in SUBSET Logicals
  BY <1>3, <1>6 DEF Accs
<1>12. b = [open |-> e, closed |-> acc.closed, seen |-> u]
  BY <1>2, <1>4, <1>9 DEF Accs
<1>. QED  BY <1>3, <1>6, <1>10, <1>11, <1>12 DEF Accs

\* What going on with an episode leaves.
LEMMA MoreIs ==
  ASSUME NEW n \in Nat, NEW acc \in Accs(n), acc.open \in Openings(n), NEW i \in 1..n, NEW b,
         b = Extended(acc, i)
  PROVE  /\ b \in Accs(n) /\ b.closed = acc.closed /\ b.seen = acc.seen
         /\ b.open = [logical |-> acc.open.logical, observed |-> acc.open.observed \cup {i},
                      returned |-> acc.open.returned]
<1>1. PICK e : e = acc.open
  OBVIOUS
<1>2. e \in Openings(n)
  BY <1>1
<1>3. PICK x : x = [logical |-> e.logical, observed |-> e.observed \cup {i}, returned |-> e.returned]
  OBVIOUS
<1>4. x \in Openings(n) /\ x = [e EXCEPT !.observed = @ \cup {i}]
  BY <1>2, <1>3 DEF Openings
<1>5. b = [acc EXCEPT !.open = x]
  BY <1>1, <1>4 DEF Extended
<1>6. b = [open |-> x, closed |-> acc.closed, seen |-> acc.seen]
  BY <1>5 DEF Accs
<1>7. acc.closed \in SUBSET Closings(n) /\ acc.seen \in SUBSET Logicals
  BY DEF Accs
<1>. QED  BY <1>1, <1>3, <1>4, <1>6, <1>7 DEF Accs

-----------------------------------------------------------------------------
\* What a step of derive_episodes does: a gap closes the episode under way,
LEMMA SeenGap ==
  ASSUME NEW n, NEW acc \in Accs(n), NEW v, NEW i, v[i] = NoRow
  PROVE  Seen(v, acc, i) = Close(acc, "DISAPPEARED")
BY DEF Seen

\* the same recommendation goes on with it,
LEMMA SeenMore ==
  ASSUME NEW n \in Nat, NEW acc \in Accs(n), NEW v, NEW i \in 1..n, v[i] # NoRow,
         acc.open # NoEpisode, acc.open.logical = Logical(v[i])
  PROVE  /\ Seen(v, acc, i) \in Accs(n)
         /\ Seen(v, acc, i).closed = acc.closed /\ Seen(v, acc, i).seen = acc.seen
         /\ Seen(v, acc, i).open = [logical |-> acc.open.logical, observed |-> acc.open.observed \cup {i},
                                    returned |-> acc.open.returned]
<1>1. acc.open \in Openings(n)
  BY DEF Accs
<1>2. PICK b : b = Extended(acc, i)
  OBVIOUS
<1>3. Seen(v, acc, i) = b
  BY <1>2 DEF Seen, Noted, Continues, Extended
<1>4. /\ b \in Accs(n) /\ b.closed = acc.closed /\ b.seen = acc.seen
      /\ b.open = [logical |-> acc.open.logical, observed |-> acc.open.observed \cup {i},
                   returned |-> acc.open.returned]
  BY ONLY n \in Nat, acc \in Accs(n), i \in 1..n, <1>1, <1>2, MoreIs
<1>. QED  BY <1>3, <1>4

\* and another one replaces it.
LEMMA SeenNew ==
  ASSUME NEW n \in Nat, NEW acc \in Accs(n), NEW v, NEW i \in 1..n, v[i] \in Row, v[i] # NoRow,
         ~(acc.open # NoEpisode /\ acc.open.logical = Logical(v[i]))
  PROVE  /\ Seen(v, acc, i) \in Accs(n)
         /\ Seen(v, acc, i).closed = Close(acc, "REPLACED").closed
         /\ Seen(v, acc, i).seen = acc.seen \cup {Logical(v[i])}
         /\ Seen(v, acc, i).open = [logical |-> Logical(v[i]), observed |-> {i},
                                    returned |-> Logical(v[i]) \in acc.seen]
<1>1. PICK row \in Row : row = v[i]
  OBVIOUS
<1>2. PICK c : c = Close(acc, "REPLACED")
  OBVIOUS
<1>3. c \in Accs(n) /\ c.seen = acc.seen
  BY <1>2, CloseIs DEF Reasons
<1>4. PICK o : o = Opened(c, row)
  OBVIOUS
<1>5. PICK b : b = Extended(o, i)
  OBVIOUS
<1>6. Seen(v, acc, i) = b
  BY <1>1, <1>2, <1>4, <1>5 DEF Seen, Noted, Continues, Extended
<1>7. PICK e : e = [logical |-> Logical(row), observed |-> {i}, returned |-> Logical(row) \in c.seen]
  OBVIOUS
<1>8. b \in Accs(n) /\ b.open = e /\ b.closed = c.closed /\ b.seen = c.seen \cup {Logical(row)}
  BY ONLY n \in Nat, i \in 1..n, row \in Row, <1>3, <1>4, <1>5, <1>7, OpenIs
<1>. QED  BY <1>1, <1>2, <1>3, <1>6, <1>7, <1>8

-----------------------------------------------------------------------------
\* A stretch that begins at a and lasts to k at least.
Begins(v, a, k) == a \in 1..k /\ (\A i \in a..k : Alike(v, a, i)) /\ (a = 1 \/ ~Alike(v, a - 1, a))
StopsAt(v, n, b) == b = n \/ ~Alike(v, b, b + 1)
Reason(v, n, b) == IF b = n THEN "WEEK_HISTORY_END" ELSE IF v[b + 1] = NoRow THEN "DISAPPEARED" ELSE "REPLACED"
ShownBefore(v, a) == \E i \in 1..(a - 1) : Alike(v, i, a)
Opening(v, a, k) == [logical |-> Logical(v[a]), observed |-> a..k, returned |-> ShownBefore(v, a)]
Closing(v, n, a, b) == [reason |-> Reason(v, n, b), logical |-> Logical(v[a]), observed |-> a..b,
                        returned |-> ShownBefore(v, a)]

\* The closings of the whole stretches that end before k.
WholeBefore(v, n, k) == {x \in (1..n) \X (1..n) : x[2] < k /\ Begins(v, x[1], x[2]) /\ StopsAt(v, n, x[2])}
ClosedBefore(v, n, k) == {Closing(v, n, x[1], x[2]) : x \in WholeBefore(v, n, k)}

ShownUpTo(v, k) == {Logical(v[i]) : i \in {j \in 1..k : v[j] # NoRow}}

\* What has been told after k publications.
Told(v, n, k, acc) ==
  /\ acc \in Accs(n)
  /\ acc.seen = ShownUpTo(v, k)
  /\ acc.closed = ClosedBefore(v, n, k)
  /\ \/ (k = 0 \/ v[k] = NoRow) /\ acc.open = NoEpisode
     \/ k > 0 /\ v[k] # NoRow /\ \E a \in 1..k : Begins(v, a, k) /\ acc.open = Opening(v, a, k)

LEMMA AlikeIs ==
  ASSUME NEW v, NEW i, NEW j, NEW k
  PROVE  /\ Alike(v, i, j) => Alike(v, j, i)
         /\ Alike(v, i, j) /\ Alike(v, j, k) => Alike(v, i, k)
BY DEF Alike

\* A stretch has one beginning.
LEMMA OneBeginning ==
  ASSUME NEW v, NEW k \in Nat, NEW a, NEW b, Begins(v, a, k), Begins(v, b, k)
  PROVE  a = b
<1>1. a \in 1..k /\ b \in 1..k
  BY DEF Begins
<1>2. ~ a < b
  <2>. SUFFICES ASSUME a < b PROVE FALSE
    OBVIOUS
  <2>1. b - 1 \in a..k /\ b \in a..k /\ b # 1
    BY <1>1
  <2>2. Alike(v, a, b - 1) /\ Alike(v, a, b)
    BY <2>1 DEF Begins
  <2>3. Alike(v, b - 1, b)
    BY <2>2, AlikeIs
  <2>. QED  BY <2>1, <2>3 DEF Begins
<1>3. ~ b < a
  <2>. SUFFICES ASSUME b < a PROVE FALSE
    OBVIOUS
  <2>1. a - 1 \in b..k /\ a \in b..k /\ a # 1
    BY <1>1
  <2>2. Alike(v, b, a - 1) /\ Alike(v, b, a)
    BY <2>1 DEF Begins
  <2>3. Alike(v, a - 1, a)
    BY <2>2, AlikeIs
  <2>. QED  BY <2>1, <2>3 DEF Begins
<1>. QED  BY <1>1, <1>2, <1>3

\* No stretch ends at k: nothing more has closed.
LEMMA NothingEnds ==
  ASSUME NEW v, NEW n \in Nat, NEW k \in Nat, \A a \in 1..n : ~(Begins(v, a, k) /\ StopsAt(v, n, k))
  PROVE  ClosedBefore(v, n, k + 1) = ClosedBefore(v, n, k)
<1>1. ASSUME NEW x \in WholeBefore(v, n, k + 1) PROVE x \in WholeBefore(v, n, k)
  <2>1. x \in (1..n) \X (1..n) /\ x[2] < k + 1 /\ Begins(v, x[1], x[2]) /\ StopsAt(v, n, x[2])
    BY <1>1 DEF WholeBefore
  <2>2. x[1] \in 1..n /\ x[2] \in 1..n
    BY <2>1
  <2>3. x[2] # k
    BY <2>1, <2>2
  <2>4. x[2] < k
    BY <2>1, <2>2, <2>3
  <2>. QED  BY <2>1, <2>4 DEF WholeBefore
<1>2. ASSUME NEW x \in WholeBefore(v, n, k) PROVE x \in WholeBefore(v, n, k + 1)
  BY <1>2 DEF WholeBefore
<1>3. WholeBefore(v, n, k + 1) = WholeBefore(v, n, k)
  BY <1>1, <1>2
<1>. QED  BY <1>3 DEF ClosedBefore

\* The stretch that began at a ends at k: its closing is the one more.
LEMMA OneEnds ==
  ASSUME NEW v, NEW n \in Nat, NEW k \in 1..n, NEW a \in 1..k, Begins(v, a, k), StopsAt(v, n, k)
  PROVE  ClosedBefore(v, n, k + 1) = ClosedBefore(v, n, k) \cup {Closing(v, n, a, k)}
<1>1. PICK y : y = <<a, k>> /\ y[1] = a /\ y[2] = k
  BY ONLY <<a, k>>[1] = a, <<a, k>>[2] = k
<1>2. y \in (1..n) \X (1..n)
  BY <1>1
<1>3. ASSUME NEW x \in WholeBefore(v, n, k + 1), x # y PROVE x \in WholeBefore(v, n, k)
  <2>1. x \in (1..n) \X (1..n) /\ x[2] < k + 1 /\ Begins(v, x[1], x[2]) /\ StopsAt(v, n, x[2])
    BY <1>3 DEF WholeBefore
  <2>2. x[1] \in 1..n /\ x[2] \in 1..n /\ x = <<x[1], x[2]>>
    BY <2>1
  <2>3. x[2] # k
    <3>. SUFFICES ASSUME x[2] = k PROVE FALSE
      OBVIOUS
    <3>1. Begins(v, x[1], k)
      BY <2>1
    <3>2. x[1] = a
      BY <3>1, OneBeginning
    <3>. QED  BY <1>1, <1>3, <2>2, <3>2
  <2>4. x[2] < k
    BY <2>1, <2>2, <2>3
  <2>. QED  BY <2>1, <2>4 DEF WholeBefore
<1>4. ASSUME NEW x \in WholeBefore(v, n, k) PROVE x \in WholeBefore(v, n, k + 1)
  BY <1>4 DEF WholeBefore
<1>5. y \in WholeBefore(v, n, k + 1)
  BY <1>1, <1>2 DEF WholeBefore
<1>6. WholeBefore(v, n, k + 1) = WholeBefore(v, n, k) \cup {y}
  BY <1>3, <1>4, <1>5
<1>. QED  BY <1>1, <1>6 DEF ClosedBefore

\* What has been shown grows by what publication k shows.
LEMMA ShownIs ==
  ASSUME NEW v, NEW k \in Nat \ {0}
  PROVE  /\ v[k] = NoRow => ShownUpTo(v, k) = ShownUpTo(v, k - 1)
         /\ v[k] # NoRow => ShownUpTo(v, k) = ShownUpTo(v, k - 1) \cup {Logical(v[k])}
         /\ v[k] # NoRow => (Logical(v[k]) \in ShownUpTo(v, k - 1) <=> ShownBefore(v, k))
<1>1. 1..k = (1..(k - 1)) \cup {k}
  OBVIOUS
<1>2. ASSUME v[k] = NoRow PROVE ShownUpTo(v, k) = ShownUpTo(v, k - 1)
  BY <1>1, <1>2 DEF ShownUpTo
<1>3. ASSUME v[k] # NoRow PROVE ShownUpTo(v, k) = ShownUpTo(v, k - 1) \cup {Logical(v[k])}
  BY <1>1, <1>3 DEF ShownUpTo
<1>4. ASSUME v[k] # NoRow PROVE Logical(v[k]) \in ShownUpTo(v, k - 1) <=> ShownBefore(v, k)
  BY <1>4 DEF ShownUpTo, ShownBefore, Alike
<1>. QED  BY <1>2, <1>3, <1>4

-----------------------------------------------------------------------------
\* An opening is one of the openings there are.
LEMMA OpeningIs ==
  ASSUME NEW n \in Nat, NEW k \in 1..n, NEW v, \A i \in 1..n : v[i] \in Row \cup {NoRow}, NEW a, Begins(v, a, k)
  PROVE  /\ a \in 1..k /\ v[a] # NoRow /\ v[k] # NoRow /\ v[a] \in Row /\ v[k] \in Row
         /\ Logical(v[a]) = Logical(v[k])
         /\ Opening(v, a, k) \in Openings(n) /\ Opening(v, a, k) # NoEpisode
         /\ Opening(v, a, k).logical = Logical(v[k])
         /\ Opening(v, a, k).observed = a..k
         /\ Opening(v, a, k).returned = ShownBefore(v, a)
<1>1. a \in 1..k /\ Alike(v, a, k)
  BY DEF Begins
<1>2. v[a] # NoRow /\ v[k] # NoRow /\ v[a] \in Row /\ v[k] \in Row /\ Logical(v[a]) = Logical(v[k])
  BY <1>1 DEF Alike
<1>3. Logical(v[a]) \in Logicals /\ a..k \in SUBSET (1..n) /\ ShownBefore(v, a) \in BOOLEAN
  BY <1>1, <1>2 DEF Logicals, ShownBefore
<1>4. Opening(v, a, k) \in Openings(n)
  BY <1>3 DEF Opening, Openings
<1>5. Opening(v, a, k) # NoEpisode
  BY <1>4, NoEpisodeIs
<1>6. /\ Opening(v, a, k).logical = Logical(v[a])
      /\ Opening(v, a, k).observed = a..k
      /\ Opening(v, a, k).returned = ShownBefore(v, a)
  BY DEF Opening
<1>. QED  BY <1>1, <1>2, <1>4, <1>5, <1>6

\* Closing the episode that began at a, for the reason its stretch ended at k, tells that stretch.
LEMMA ToldClosing ==
  ASSUME NEW n \in Nat, NEW k \in 1..n, NEW v, \A i \in 1..n : v[i] \in Row \cup {NoRow},
         NEW acc, Told(v, n, k, acc), NEW a, Begins(v, a, k), acc.open = Opening(v, a, k), StopsAt(v, n, k),
         NEW reason, reason = Reason(v, n, k)
  PROVE  Close(acc, reason).closed = ClosedBefore(v, n, k + 1)
<1>1. acc \in Accs(n) /\ acc.closed = ClosedBefore(v, n, k)
  BY DEF Told
<1>2. reason \in Reasons
  BY DEF Reason, Reasons
<1>3. /\ a \in 1..k /\ acc.open # NoEpisode
      /\ acc.open.logical = Logical(v[a]) /\ acc.open.observed = a..k /\ acc.open.returned = ShownBefore(v, a)
  BY OpeningIs
<1>4. Close(acc, reason).closed = acc.closed \cup {Closing(v, n, a, k)}
  <2>1. PICK x : x = [reason |-> reason, logical |-> acc.open.logical, observed |-> acc.open.observed,
                      returned |-> acc.open.returned]
    OBVIOUS
  <2>2. Close(acc, reason).closed = acc.closed \cup {x}
    BY <1>1, <1>2, <1>3, <2>1, CloseIs
  <2>3. x = Closing(v, n, a, k)
    BY <1>3, <2>1 DEF Closing
  <2>. QED  BY <2>2, <2>3
<1>5. ClosedBefore(v, n, k + 1) = ClosedBefore(v, n, k) \cup {Closing(v, n, a, k)}
  BY ONLY n \in Nat, k \in 1..n, Begins(v, a, k), StopsAt(v, n, k), <1>3, OneEnds
<1>. QED  BY <1>1, <1>4, <1>5

\* A gap at k.
LEMMA ToldGap ==
  ASSUME NEW n \in Nat, NEW k \in 1..n, NEW v, \A i \in 1..n : v[i] \in Row \cup {NoRow},
         NEW acc, Told(v, n, k - 1, acc), v[k] = NoRow
  PROVE  Told(v, n, k, Seen(v, acc, k))
<1>1. acc \in Accs(n) /\ acc.seen = ShownUpTo(v, k - 1) /\ acc.closed = ClosedBefore(v, n, k - 1)
  BY DEF Told
<1>2. PICK c : c = Close(acc, "DISAPPEARED") /\ c = Seen(v, acc, k)
  BY <1>1, SeenGap
<1>3. c \in Accs(n) /\ c.open = NoEpisode /\ c.seen = acc.seen
  BY <1>1, <1>2, CloseIs DEF Reasons
<1>4. ShownUpTo(v, k) = ShownUpTo(v, k - 1)
  BY ShownIs
<1>5. c.closed = ClosedBefore(v, n, k)
  <2>1. CASE (k - 1 = 0 \/ v[k - 1] = NoRow) /\ acc.open = NoEpisode
    <3>1. c.closed = acc.closed
      BY <1>1, <1>2, <2>1, CloseIs DEF Reasons
    <3>2. ASSUME NEW a \in 1..n, Begins(v, a, k - 1) PROVE FALSE
      <4>1. k - 1 # 0
        BY <3>2 DEF Begins
      <4>2. v[k - 1] # NoRow
        BY <3>2, <4>1, OpeningIs
      <4>. QED  BY <2>1, <4>1, <4>2
    <3>3. PICK j \in Nat : j = k - 1 /\ j + 1 = k
      OBVIOUS
    <3>4. \A a \in 1..n : ~(Begins(v, a, j) /\ StopsAt(v, n, j))
      BY <3>2, <3>3
    <3>5. ClosedBefore(v, n, j + 1) = ClosedBefore(v, n, j)
      BY ONLY n \in Nat, j \in Nat, <3>4, NothingEnds
    <3>. QED  BY <1>1, <3>1, <3>3, <3>5
  <2>2. CASE k - 1 > 0 /\ v[k - 1] # NoRow
              /\ \E a \in 1..(k - 1) : Begins(v, a, k - 1) /\ acc.open = Opening(v, a, k - 1)
    <3>1. PICK a \in 1..(k - 1) : Begins(v, a, k - 1) /\ acc.open = Opening(v, a, k - 1)
      BY <2>2
    <3>2. PICK j \in 1..n : j = k - 1 /\ j + 1 = k /\ j # n
      BY <2>2
    <3>3. Reason(v, n, j) = "DISAPPEARED" /\ StopsAt(v, n, j)
      BY <3>2 DEF Reason, StopsAt, Alike
    <3>4. c.closed = ClosedBefore(v, n, j + 1)
      BY <1>2, <3>1, <3>2, <3>3, ToldClosing
    <3>. QED  BY <3>2, <3>4
  <2>. QED  BY <2>1, <2>2 DEF Told
<1>. QED  BY <1>1, <1>2, <1>3, <1>4, <1>5 DEF Told

\* The recommendation of before at k.
LEMMA ToldMore ==
  ASSUME NEW n \in Nat, NEW k \in 1..n, NEW v, \A i \in 1..n : v[i] \in Row \cup {NoRow},
         NEW acc, Told(v, n, k - 1, acc), v[k] # NoRow, acc.open # NoEpisode, acc.open.logical = Logical(v[k])
  PROVE  Told(v, n, k, Seen(v, acc, k))
<1>1. acc \in Accs(n) /\ acc.seen = ShownUpTo(v, k - 1) /\ acc.closed = ClosedBefore(v, n, k - 1)
  BY DEF Told
<1>2. PICK a \in 1..(k - 1) : k - 1 > 0 /\ Begins(v, a, k - 1) /\ acc.open = Opening(v, a, k - 1)
  BY DEF Told
<1>3. PICK j \in 1..n : j = k - 1 /\ j + 1 = k /\ j # n
  BY <1>2
<1>4. /\ v[a] # NoRow /\ v[j] # NoRow /\ Logical(v[a]) = Logical(v[j]) /\ acc.open.logical = Logical(v[j])
      /\ acc.open.observed = a..j /\ acc.open.returned = ShownBefore(v, a)
  BY <1>2, <1>3, OpeningIs
<1>5. Logical(v[a]) = Logical(v[k]) /\ Alike(v, a, k) /\ Alike(v, j, k)
  BY <1>4 DEF Alike
<1>6. Begins(v, a, k)
  <2>1. a \in 1..k /\ a..k = (a..(k - 1)) \cup {k}
    OBVIOUS
  <2>. QED  BY <1>2, <1>5, <2>1 DEF Begins
<1>7. PICK s : s = Seen(v, acc, k)
  OBVIOUS
<1>8. /\ s \in Accs(n) /\ s.closed = acc.closed /\ s.seen = acc.seen
      /\ s.open = [logical |-> acc.open.logical, observed |-> acc.open.observed \cup {k},
                   returned |-> acc.open.returned]
  BY <1>1, <1>7, SeenMore
<1>9. s.open = Opening(v, a, k)
  <2>1. (a..j) \cup {k} = a..k
    BY <1>2, <1>3
  <2>. QED  BY <1>4, <1>5, <1>8, <2>1 DEF Opening
<1>10. s.seen = ShownUpTo(v, k)
  <2>1. Logical(v[k]) \in ShownUpTo(v, k - 1)
    BY <1>3, <1>4, <1>5 DEF ShownUpTo
  <2>2. ShownUpTo(v, k) = ShownUpTo(v, k - 1) \cup {Logical(v[k])}
    BY ShownIs
  <2>. QED  BY <1>1, <1>8, <2>1, <2>2
<1>11. s.closed = ClosedBefore(v, n, k)
  <2>1. ~StopsAt(v, n, j)
    BY <1>3, <1>5 DEF StopsAt
  <2>2. ClosedBefore(v, n, j + 1) = ClosedBefore(v, n, j)
    BY <2>1, NothingEnds
  <2>. QED  BY <1>1, <1>3, <1>8, <2>2
<1>12. a \in 1..k /\ k > 0
  BY <1>2
<1>. QED  BY <1>6, <1>7, <1>8, <1>9, <1>10, <1>11, <1>12 DEF Told

\* Another recommendation at k.
LEMMA ToldNew ==
  ASSUME NEW n \in Nat, NEW k \in 1..n, NEW v, \A i \in 1..n : v[i] \in Row \cup {NoRow},
         NEW acc, Told(v, n, k - 1, acc), v[k] # NoRow,
         ~(acc.open # NoEpisode /\ acc.open.logical = Logical(v[k]))
  PROVE  Told(v, n, k, Seen(v, acc, k))
<1>1. acc \in Accs(n) /\ acc.seen = ShownUpTo(v, k - 1) /\ acc.closed = ClosedBefore(v, n, k - 1)
  BY DEF Told
<1>2. v[k] \in Row
  OBVIOUS
<1>3. PICK s : s = Seen(v, acc, k)
  OBVIOUS
<1>4. /\ s \in Accs(n) /\ s.closed = Close(acc, "REPLACED").closed
      /\ s.seen = acc.seen \cup {Logical(v[k])}
      /\ s.open = [logical |-> Logical(v[k]), observed |-> {k}, returned |-> Logical(v[k]) \in acc.seen]
  BY <1>1, <1>2, <1>3, SeenNew
<1>5. s.seen = ShownUpTo(v, k) /\ (Logical(v[k]) \in acc.seen <=> ShownBefore(v, k))
  BY <1>1, <1>4, ShownIs
<1>6. s.open = Opening(v, k, k)
  <2>1. k..k = {k} /\ ShownBefore(v, k) \in BOOLEAN /\ (Logical(v[k]) \in acc.seen) \in BOOLEAN
    BY DEF ShownBefore
  <2>2. (Logical(v[k]) \in acc.seen) = ShownBefore(v, k)
    BY <1>5, <2>1
  <2>. QED  BY <1>4, <2>1, <2>2 DEF Opening
<1>7. Alike(v, k, k)
  BY DEF Alike
<1>8. k = 1 \/ ~Alike(v, k - 1, k)
  <2>1. CASE (k - 1 = 0 \/ v[k - 1] = NoRow)
    BY <2>1 DEF Alike
  <2>2. CASE k - 1 > 0 /\ \E a \in 1..(k - 1) : Begins(v, a, k - 1) /\ acc.open = Opening(v, a, k - 1)
    <3>1. PICK a \in 1..(k - 1) : Begins(v, a, k - 1) /\ acc.open = Opening(v, a, k - 1)
      BY <2>2
    <3>2. k - 1 \in 1..n
      BY <2>2
    <3>3. acc.open # NoEpisode /\ acc.open.logical = Logical(v[k - 1])
      BY <3>1, <3>2, OpeningIs
    <3>. QED  BY <3>3 DEF Alike
  <2>. QED  BY <2>1, <2>2 DEF Told
<1>9. Begins(v, k, k)
  BY <1>7, <1>8 DEF Begins
<1>10. s.closed = ClosedBefore(v, n, k)
  <2>1. CASE (k - 1 = 0 \/ v[k - 1] = NoRow) /\ acc.open = NoEpisode
    <3>1. s.closed = acc.closed
      BY <1>1, <1>4, <2>1, CloseIs DEF Reasons
    <3>2. ASSUME NEW a \in 1..n, Begins(v, a, k - 1) PROVE FALSE
      <4>1. k - 1 # 0
        BY <3>2 DEF Begins
      <4>2. v[k - 1] # NoRow
        BY <3>2, <4>1, OpeningIs
      <4>. QED  BY <2>1, <4>1, <4>2
    <3>3. PICK j \in Nat : j = k - 1 /\ j + 1 = k
      OBVIOUS
    <3>4. \A a \in 1..n : ~(Begins(v, a, j) /\ StopsAt(v, n, j))
      BY <3>2, <3>3
    <3>5. ClosedBefore(v, n, j + 1) = ClosedBefore(v, n, j)
      BY ONLY n \in Nat, j \in Nat, <3>4, NothingEnds
    <3>. QED  BY <1>1, <3>1, <3>3, <3>5
  <2>2. CASE k - 1 > 0 /\ v[k - 1] # NoRow
              /\ \E a \in 1..(k - 1) : Begins(v, a, k - 1) /\ acc.open = Opening(v, a, k - 1)
    <3>1. PICK a \in 1..(k - 1) : Begins(v, a, k - 1) /\ acc.open = Opening(v, a, k - 1)
      BY <2>2
    <3>2. PICK j \in 1..n : j = k - 1 /\ j + 1 = k /\ j # n
      BY <2>2
    <3>3. Reason(v, n, j) = "REPLACED" /\ StopsAt(v, n, j)
      BY <1>8, <3>2 DEF Reason, StopsAt
    <3>4. Close(acc, "REPLACED").closed = ClosedBefore(v, n, j + 1)
      BY <3>1, <3>2, <3>3, ToldClosing
    <3>. QED  BY <1>4, <3>2, <3>4
  <2>. QED  BY <2>1, <2>2 DEF Told
<1>. QED  BY <1>3, <1>4, <1>5, <1>6, <1>9, <1>10 DEF Told

-----------------------------------------------------------------------------
\* A step keeps to what has been told.
LEMMA ToldStep ==
  ASSUME NEW n \in Nat, NEW k \in 1..n, NEW v, \A i \in 1..n : v[i] \in Row \cup {NoRow},
         NEW acc, Told(v, n, k - 1, acc)
  PROVE  Told(v, n, k, Seen(v, acc, k))
<1>1. CASE v[k] = NoRow
  BY <1>1, ToldGap
<1>2. CASE v[k] # NoRow /\ acc.open # NoEpisode /\ acc.open.logical = Logical(v[k])
  BY <1>2, ToldMore
<1>3. CASE v[k] # NoRow /\ ~(acc.open # NoEpisode /\ acc.open.logical = Logical(v[k]))
  BY <1>3, ToldNew
<1>. QED  BY <1>1, <1>2, <1>3

\* At first nothing has.
LEMMA ToldFirst ==
  ASSUME NEW n \in Nat, NEW v
  PROVE  Told(v, n, 0, Fresh)
<1>1. Fresh \in Accs(n) /\ Fresh.open = NoEpisode /\ Fresh.closed = {} /\ Fresh.seen = {}
  BY DEF Fresh, Accs
<1>2. ShownUpTo(v, 0) = {}
  BY DEF ShownUpTo
<1>3. WholeBefore(v, n, 0) = {}
  BY DEF WholeBefore
<1>4. ClosedBefore(v, n, 0) = {}
  BY <1>3 DEF ClosedBefore
<1>. QED  BY <1>1, <1>2, <1>4 DEF Told

\* A step keeps to the values of its kind.
LEMMA SeenKeeps ==
  ASSUME NEW n \in Nat, NEW i \in 1..n, NEW v, \A j \in 1..n : v[j] \in Row \cup {NoRow}, NEW acc \in Accs(n)
  PROVE  Seen(v, acc, i) \in Accs(n)
<1>1. CASE v[i] = NoRow
  BY <1>1, SeenGap, CloseIs DEF Reasons
<1>2. CASE v[i] # NoRow /\ acc.open # NoEpisode /\ acc.open.logical = Logical(v[i])
  BY <1>2, SeenMore
<1>3. CASE v[i] # NoRow /\ ~(acc.open # NoEpisode /\ acc.open.logical = Logical(v[i]))
  <2>1. v[i] \in Row
    BY <1>3
  <2>. QED  BY <1>3, <2>1, SeenNew
<1>. QED  BY <1>1, <1>2, <1>3

\* The pass over a week has told its whole stretches when it closes the last episode.
LEMMA EpisodesAre ==
  ASSUME NEW h, Numbered(h), NEW l \in Lane, NEW v, v = LaneOf(h, l), NEW n, n = Len(h)
  PROVE  EpisodesOf(h, l) = ClosedBefore(v, n, n + 1)
<1>1. n \in Nat /\ \A i \in 1..n : v[i] \in Row \cup {NoRow} /\ v[i] = h[i].lanes[l]
  <2>1. n \in Nat /\ \A i \in 1..n : h[i] \in Publications
    BY DEF Numbered
  <2>2. \A i \in 1..n : h[i].lanes \in [Lane -> Row \cup {NoRow}]
    BY <2>1 DEF Publications
  <2>. QED  BY <2>1, <2>2 DEF LaneOf
<1>2. PICK places : places = [i \in 1..n |-> i]
  OBVIOUS
<1>3. DOMAIN places = 1..n /\ \A i \in 1..n : places[i] = i
  BY <1>2
<1>4. PICK A : A = Accs(n)
  OBVIOUS
<1>5. PICK P : P = [x \in A \X (1..n) |-> Seen(v, x[1], x[2])]
  OBVIOUS
<1>6. \A a \in A, i \in 1..n : P[<<a, i>>] = Seen(v, a, i) /\ P[<<a, i>>] \in A
  <2>. SUFFICES ASSUME NEW a \in A, NEW i \in 1..n PROVE P[<<a, i>>] = Seen(v, a, i) /\ P[<<a, i>>] \in A
    OBVIOUS
  <2>1. P[<<a, i>>] = Seen(v, a, i)
    BY <1>5
  <2>. QED  BY <1>1, <1>4, <2>1, SeenKeeps
<1>7. Fresh \in A
  BY <1>1, <1>4, ToldFirst DEF Told
<1>8. PICK g \in [SUBSET (1..n) -> A] : FoldOf(g, n, Fresh, P)
  BY <1>1, <1>6, <1>7, FoldsExist
<1>9. ASSUME NEW f, NEW s \in SUBSET (1..n), s # {}
      PROVE  /\ Max(s) \in 1..n /\ s \ {Max(s)} \in SUBSET (1..n)
             /\ EpisodesUpTo(h, l, places, f, s) = Seen(v, f[s \ {Max(s)}], Max(s))
  <2>1. Max(s) \in s
    BY <1>1, <1>9, MaxIs
  <2>2. Max(s) \in 1..n /\ s \ {Max(s)} \in SUBSET (1..n)
    BY <2>1
  <2>3. places[Max(s)] = Max(s) /\ h[Max(s)].lanes[l] = v[Max(s)]
    BY <1>1, <1>3, <2>2
  <2>. QED  BY <1>9, <2>2, <2>3 DEF Seen, EpisodesUpTo
<1>10. g = [s \in SUBSET (1..n) |-> EpisodesUpTo(h, l, places, g, s)]
  <2>1. ASSUME NEW s \in SUBSET (1..n) PROVE g[s] = EpisodesUpTo(h, l, places, g, s)
    <3>1. CASE s = {}
      BY <1>8, <3>1 DEF FoldOf, EpisodesUpTo
    <3>2. CASE s # {}
      <4>1. /\ Max(s) \in 1..n /\ s \ {Max(s)} \in SUBSET (1..n)
            /\ EpisodesUpTo(h, l, places, g, s) = Seen(v, g[s \ {Max(s)}], Max(s))
        BY <1>9, <3>2
      <4>2. g[s \ {Max(s)}] \in A
        BY <1>8, <4>1
      <4>3. g[s] = P[<<g[s \ {Max(s)}], Max(s)>>]
        BY <1>8, <3>2 DEF FoldOf
      <4>. QED  BY <1>6, <4>1, <4>2, <4>3
    <3>. QED  BY <3>1, <3>2
  <2>. QED  BY <1>8, <2>1
<1>11. PICK G : G = Passes(h, l, places, 1..n)
  OBVIOUS
<1>12. G = [s \in SUBSET (1..n) |-> EpisodesUpTo(h, l, places, G, s)]
  <2>. QED  BY <1>10, <1>11 DEF Passes
<1>13. EpisodesOf(h, l) = Close(G[1..n], "WEEK_HISTORY_END").closed
  <2>1. places = [i \in 1..Len(h) |-> i]
    BY <1>2
  <2>. QED  BY <1>3, <1>11, <2>1, EpisodesFold
<1>14. G[{}] = Fresh
  BY <1>12 DEF EpisodesUpTo
<1>15. ASSUME NEW i \in 1..n PROVE G[1..i] = Seen(v, G[1..(i - 1)], i)
  <2>1. 1..i \in SUBSET (1..n) /\ 1..i # {} /\ Max(1..i) = i /\ (1..i) \ {i} = 1..(i - 1)
    BY <1>1, PlacesUpTo
  <2>2. EpisodesUpTo(h, l, places, G, 1..i) = Seen(v, G[(1..i) \ {Max(1..i)}], Max(1..i))
    BY <1>9, <2>1
  <2>3. G[1..i] = EpisodesUpTo(h, l, places, G, 1..i)
    BY <1>12, <2>1
  <2>. QED  BY <2>1, <2>2, <2>3
<1>. DEFINE Good(i) == Told(v, n, i, G[1..i])
            B == {i \in 0..n : ~Good(i)}
<1>16. Good(0)
  <2>1. 1..0 = {}
    OBVIOUS
  <2>. QED  BY <1>1, <1>14, <2>1, ToldFirst
<1>17. ASSUME NEW i \in 1..n, Good(i - 1) PROVE Good(i)
  BY <1>1, <1>15, <1>17, ToldStep
<1>. HIDE DEF Good
<1>18. B = {}
  <2>. SUFFICES ASSUME B # {} PROVE FALSE
    OBVIOUS
  <2>1. B \subseteq Nat
    BY <1>1
  <2>2. PICK i \in B : \A m \in B : i <= m
    BY <2>1, LeastElement
  <2>3. i # 0 /\ i \in 0..n
    BY <1>16
  <2>4. i \in 1..n /\ i - 1 \in 0..n /\ i - 1 \notin B
    BY <1>1, <2>2, <2>3
  <2>. QED  BY <1>17, <2>4
<1>19. PICK w : w = G[1..n]
  OBVIOUS
<1>20. Told(v, n, n, w)
  BY <1>1, <1>18, <1>19 DEF Good
<1>21. w \in Accs(n) /\ w.closed = ClosedBefore(v, n, n)
  BY <1>20 DEF Told
<1>22. Close(w, "WEEK_HISTORY_END").closed = ClosedBefore(v, n, n + 1)
  <2>1. CASE (n = 0 \/ v[n] = NoRow) /\ w.open = NoEpisode
    <3>1. Close(w, "WEEK_HISTORY_END").closed = w.closed
      BY <1>21, <2>1, CloseIs DEF Reasons
    <3>2. ASSUME NEW a \in 1..n, Begins(v, a, n) PROVE FALSE
      <4>1. n \in 1..n
        BY <1>1, <3>2
      <4>. QED  BY <1>1, <2>1, <3>2, <4>1, OpeningIs
    <3>3. ClosedBefore(v, n, n + 1) = ClosedBefore(v, n, n)
      BY <1>1, <3>2, NothingEnds
    <3>. QED  BY <1>21, <3>1, <3>3
  <2>2. CASE n > 0 /\ \E a \in 1..n : Begins(v, a, n) /\ w.open = Opening(v, a, n)
    <3>1. PICK a \in 1..n : Begins(v, a, n) /\ w.open = Opening(v, a, n)
      BY <2>2
    <3>2. n \in 1..n /\ StopsAt(v, n, n) /\ Reason(v, n, n) = "WEEK_HISTORY_END"
      BY <1>1, <2>2 DEF StopsAt, Reason
    <3>. QED  BY <1>1, <1>20, <3>1, <3>2, ToldClosing
  <2>. QED  BY <1>20, <2>1, <2>2 DEF Told
<1>. QED  BY <1>13, <1>19, <1>22

\* A run, as it is told.
RunOf(l, a, b) == [logical |-> Logical(history[a].lanes[l]), observed |-> a..b,
                   returned |-> \E i \in 1..(a - 1) : Same(i, a, l), reason |-> EndOf(l, b)]

\* The whole stretches are the runs.
LEMMA RunsAre ==
  ASSUME Numbered(history), NEW l \in Lane, NEW v, v = LaneOf(history, l), NEW n, n = Len(history)
  PROVE  Runs(l) = ClosedBefore(v, n, n + 1)
<1>1. n \in Nat /\ \A i \in 1..n : v[i] = history[i].lanes[l]
  BY DEF Numbered, LaneOf
<1>2. ASSUME NEW i \in 1..n, NEW j \in 1..n PROVE Same(i, j, l) <=> Alike(v, i, j)
  BY <1>1, <1>2 DEF Same, Alike
<1>3. ASSUME NEW a \in 1..n, NEW b \in 1..n, a <= b
      PROVE  IsRun(l, a, b) <=> Begins(v, a, b) /\ StopsAt(v, n, b)
  <2>1. a \in 1..b /\ \A i \in a..b : i \in 1..n
    BY <1>3
  <2>2. (\A i \in a..b : Same(a, i, l)) <=> (\A i \in a..b : Alike(v, a, i))
    BY <1>2, <2>1
  <2>3. (a = 1 \/ ~Same(a - 1, a, l)) <=> (a = 1 \/ ~Alike(v, a - 1, a))
    <3>1. a = 1 \/ a - 1 \in 1..n
      BY <1>3
    <3>. QED  BY <1>2, <3>1
  <2>4. (b = Len(history) \/ ~Same(b, b + 1, l)) <=> (b = n \/ ~Alike(v, b, b + 1))
    <3>1. b = n \/ b + 1 \in 1..n
      BY <1>1, <1>3
    <3>. QED  BY <1>2, <3>1
  <2>. QED  BY <2>1, <2>2, <2>3, <2>4 DEF IsRun, Begins, StopsAt
<1>4. ASSUME NEW x \in (1..n) \X (1..n), x[1] <= x[2]
      PROVE  Closing(v, n, x[1], x[2]) = RunOf(l, x[1], x[2])
  <2>1. PICK a \in 1..n, b \in 1..n : a = x[1] /\ b = x[2]
    OBVIOUS
  <2>2. v[a] = history[a].lanes[l]
    BY <1>1
  <2>3. (\E i \in 1..(a - 1) : Same(i, a, l)) = ShownBefore(v, a)
    <3>1. \A i \in 1..(a - 1) : i \in 1..n
      BY <1>1
    <3>2. (\E i \in 1..(a - 1) : Same(i, a, l)) <=> ShownBefore(v, a)
      BY <1>2, <3>1 DEF ShownBefore
    <3>. QED  BY <3>2 DEF ShownBefore
  <2>4. EndOf(l, b) = Reason(v, n, b)
    <3>1. CASE b = n
      BY <1>1, <3>1 DEF EndOf, Reason
    <3>2. CASE b # n
      <4>1. b < Len(history) /\ b + 1 \in 1..n
        BY <1>1, <3>2
      <4>2. v[b + 1] = history[b + 1].lanes[l]
        BY <1>1, <4>1
      <4>3. CASE v[b + 1] = NoRow
        BY <3>2, <4>1, <4>2, <4>3 DEF EndOf, Reason
      <4>4. CASE v[b + 1] # NoRow
        BY <3>2, <4>1, <4>2, <4>4 DEF EndOf, Reason
      <4>. QED  BY <4>3, <4>4
    <3>. QED  BY <3>1, <3>2
  <2>. QED  BY <2>1, <2>2, <2>3, <2>4 DEF Closing, RunOf
<1>5. ASSUME NEW x \in (1..n) \X (1..n)
      PROVE  (x[1] <= x[2] /\ IsRun(l, x[1], x[2])) <=> x \in WholeBefore(v, n, n + 1)
  <2>1. PICK a \in 1..n, b \in 1..n : a = x[1] /\ b = x[2]
    OBVIOUS
  <2>2. b < n + 1
    BY <1>1
  <2>3. Begins(v, a, b) => a <= b
    BY DEF Begins
  <2>. QED  BY <1>3, <2>1, <2>2, <2>3 DEF WholeBefore
<1>6. WholeBefore(v, n, n + 1) = {x \in (1..n) \X (1..n) : x[1] <= x[2] /\ IsRun(l, x[1], x[2])}
  BY <1>5 DEF WholeBefore
<1>7. \A x \in WholeBefore(v, n, n + 1) : x \in (1..n) \X (1..n) /\ x[1] <= x[2]
  BY <1>6
<1>8. PICK W : W = WholeBefore(v, n, n + 1)
  OBVIOUS
<1>9. Runs(l) = {RunOf(l, x[1], x[2]) : x \in W}
  BY <1>6, <1>8 DEF Runs, RunOf
<1>10. ClosedBefore(v, n, n + 1) = {Closing(v, n, x[1], x[2]) : x \in W}
  BY <1>8 DEF ClosedBefore
<1>. QED  BY <1>4, <1>7, <1>8, <1>9, <1>10

\* In every week of every history: the episodes derive_episodes tells of a lane are its
\* runs, each for the reason it ended, and marked when its recommendation came back.
THEOREM EpisodesTold == HistorySpec => []EpisodesAreRuns
<1>1. Numbered(history) => EpisodesAreRuns
  <2>. SUFFICES ASSUME Numbered(history), NEW l \in Lane PROVE EpisodesOf(history, l) = Runs(l)
    BY DEF EpisodesAreRuns
  <2>1. PICK v : v = LaneOf(history, l)
    OBVIOUS
  <2>2. PICK n : n = Len(history)
    OBVIOUS
  <2>. QED  BY <2>1, <2>2, EpisodesAre, RunsAre
<1>. QED  BY <1>1, HistoryNumbered, PTL


=============================================================================
