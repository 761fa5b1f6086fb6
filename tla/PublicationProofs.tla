------------------------ MODULE PublicationProofs -------------------------
(***************************************************************************)
(* Theorems about Publication, for every set of publishers and products.   *)
(***************************************************************************)
EXTENDS Publication, TLAPS

Promoted(v) == \E i \in 1..Len(log) : log[i] = v
Durable(v) == \E i \in 1..synced : log[i] = v

\* A publisher between the creation of its immutable file, which O_EXCL gives
\* to it alone, and the replacement of latest.json.
Owner(r) == r.pc \in {"write", "sync", "replace"}

\* What a publisher in state r relies on, as long as no power is lost.
Relies(r) ==
  /\ r.pc \in {"check", "create"} \/ Owner(r) => r.candidate \in Valid
  /\ Owner(r) => ~Promoted(r.candidate)
  /\ r.pc = "write" => immutable[r.candidate] = "partial"
  /\ r.pc \in {"sync", "replace"} => immutable[r.candidate] = "complete"
  /\ r.pc = "replace" => r.candidate \in entries
  /\ r.pc = "syncLatest" => Promoted(r.candidate)
  /\ r.pc = "status" => Durable(r.candidate)
  /\ r.before.version # NoProduct => Durable(r.before.version)

NoneTwice == \A i, j \in 1..Len(log) : log[i] = log[j] => i = j
OneOwner == \A p, q \in Publisher :
  Owner(pub[p]) /\ Owner(pub[q]) /\ Candidate(p) = Candidate(q) => p = q
EachRelies == \A p \in Publisher : Relies(pub[p])

\* The inductive invariant.
IInv ==
  /\ TypeOK
  /\ LatestHasItsImmutable
  /\ NoneTwice
  /\ OneOwner
  /\ EachRelies
  /\ StatusNamesPublished

PublisherState == [pc: Pc, candidate: Product \cup {NoProduct},
                   before: Status, from: Nat]

----------------------------------------------------------------------------
\* A publisher moves on and the disk stays as it is.
LEMMA Moves ==
  ASSUME IInv, NEW p \in Publisher, NEW r \in PublisherState,
         pub' = [pub EXCEPT ![p] = r], UNCHANGED diskVars,
         Relies(r),
         Owner(r) => Owner(pub[p]) /\ r.candidate = Candidate(p)
  PROVE  IInv'
<1>1. TypeOK'
  BY DEF IInv, TypeOK, diskVars, PublisherState
<1>2. LatestHasItsImmutable' /\ NoneTwice' /\ StatusNamesPublished'
  BY DEF IInv, LatestHasItsImmutable, NoneTwice, StatusNamesPublished, diskVars
<1>3. \A q \in Publisher : pub'[q] = IF q = p THEN r ELSE pub[q]
  BY DEF IInv, TypeOK
<1>4. OneOwner'
  BY <1>3 DEF IInv, OneOwner, Owner, Candidate
<1>5. EachRelies'
  <2> SUFFICES ASSUME NEW q \in Publisher PROVE Relies(pub[q])'
    BY DEF EachRelies
  <2>1. Relies(pub'[q])
    BY <1>3 DEF IInv, EachRelies
  <2> QED BY <2>1 DEF Relies, Owner, Promoted, Durable, diskVars
<1> QED BY <1>1, <1>2, <1>4, <1>5 DEF IInv

\* The product whose immutable file changes was never latest, and no other
\* publisher owns it.
LEMMA FileChanges ==
  ASSUME IInv, NEW p \in Publisher, NEW r \in PublisherState,
         NEW v \in Valid, NEW f \in FileState,
         pub' = [pub EXCEPT ![p] = r],
         immutable' = [immutable EXCEPT ![v] = f],
         entries' \in {entries, entries \ {v}},
         UNCHANGED <<log, synced, status, statuses>>,
         ~Promoted(v), r.candidate = v,
         \A q \in Publisher \ {p} : Owner(pub[q]) => Candidate(q) # v,
         Relies(r)'
  PROVE  IInv'
<1>0. v \in Product
  BY PublicationAssumption
<1>1. TypeOK'
  BY <1>0 DEF IInv, TypeOK, PublisherState
<1>2. NoneTwice' /\ StatusNamesPublished'
  BY DEF IInv, NoneTwice, StatusNamesPublished
<1>3. LatestHasItsImmutable'
  BY <1>0, PublicationAssumption
  DEF IInv, TypeOK, LatestHasItsImmutable, Promoted
<1>4. \A q \in Publisher : pub'[q] = IF q = p THEN r ELSE pub[q]
  BY DEF IInv, TypeOK
<1>5. OneOwner'
  BY <1>4 DEF IInv, OneOwner, Owner, Candidate
<1>6. EachRelies'
  <2> SUFFICES ASSUME NEW q \in Publisher, q # p PROVE Relies(pub[q])'
    BY <1>4 DEF EachRelies
  <2>1. Relies(pub[q]) /\ pub'[q] = pub[q]
    BY <1>4 DEF IInv, EachRelies
  <2>2. Owner(pub[q]) => /\ pub[q].candidate \in Valid \ {v}
                         /\ immutable'[pub[q].candidate]
                              = immutable[pub[q].candidate]
                         /\ pub[q].candidate \in entries
                              => pub[q].candidate \in entries'
    BY <2>1, <1>0, PublicationAssumption
    DEF IInv, TypeOK, Candidate, Relies
  <2> QED BY <2>1, <2>2 DEF Relies, Owner, Promoted, Durable
<1> QED BY <1>1, <1>2, <1>3, <1>5, <1>6 DEF IInv

\* latest.json and the immutable files stay, and only more becomes durable.
LEMMA Persists ==
  ASSUME IInv, NEW p \in Publisher, NEW r \in PublisherState,
         pub' = [pub EXCEPT ![p] = r],
         UNCHANGED <<immutable, log>>,
         entries' \subseteq Product,
         \A v \in Product : immutable[v] = "complete" /\ v \in entries
                              => v \in entries',
         synced' \in {synced, Len(log)},
         status' \in Status,
         statuses' \subseteq statuses \cup {status'},
         status'.version # NoProduct
           => \E i \in 1..synced' : log[i] = status'.version,
         Relies(r)',
         Owner(r) => Owner(pub[p]) /\ r.candidate = Candidate(p)
  PROVE  IInv'
<1>0. synced \in Nat /\ synced' \in Nat /\ synced <= synced' /\ synced' <= Len(log)
  BY DEF IInv, TypeOK
<1>1. \A v : Durable(v) => Durable(v)'
  BY <1>0 DEF Durable, IInv, TypeOK
<1>2. TypeOK'
  BY <1>0 DEF IInv, TypeOK, PublisherState
<1>3. NoneTwice' /\ LatestHasItsImmutable'
  BY PublicationAssumption DEF IInv, TypeOK, NoneTwice, LatestHasItsImmutable
<1>4. StatusNamesPublished'
  <2> SUFFICES ASSUME NEW s \in statuses' \cup {status'}, s.version # NoProduct
               PROVE  \E i \in 1..synced' : log[i] = s.version
    BY DEF StatusNamesPublished
  <2>1. CASE s \in statuses
    BY <2>1, <1>1 DEF IInv, StatusNamesPublished, Durable
  <2> QED BY <2>1
<1>5. \A q \in Publisher : pub'[q] = IF q = p THEN r ELSE pub[q]
  BY DEF IInv, TypeOK
<1>6. OneOwner'
  BY <1>5 DEF IInv, OneOwner, Owner, Candidate
<1>7. EachRelies'
  <2> SUFFICES ASSUME NEW q \in Publisher, q # p PROVE Relies(pub[q])'
    BY <1>5 DEF EachRelies
  <2>1. Relies(pub[q]) /\ pub'[q] = pub[q]
    BY <1>5 DEF IInv, EachRelies
  <2>2. pub[q].pc = "replace" => pub[q].candidate \in entries'
    BY <2>1, PublicationAssumption DEF Relies, Owner
  <2> QED BY <1>1, <2>1, <2>2 DEF Relies, Owner, Promoted
<1> QED BY <1>2, <1>3, <1>4, <1>6, <1>7 DEF IInv

----------------------------------------------------------------------------
LEMMA InitInv == Init => IInv
  BY DEF Init, IInv, TypeOK, LatestHasItsImmutable, NoneTwice, OneOwner,
         EachRelies, Relies, Owner, StatusNamesPublished, Durable, Promoted,
         Resting, NoStatus, Status, Pc, FileState

\* What a publisher is, and may be, at every step.
LEMMA Stands ==
  ASSUME IInv, NEW p \in Publisher
  PROVE  /\ pub[p] \in PublisherState
         /\ Relies(pub[p])
         /\ pub[p] = [pc |-> pub[p].pc, candidate |-> pub[p].candidate,
                      before |-> pub[p].before, from |-> pub[p].from]
  BY DEF IInv, TypeOK, EachRelies, PublisherState

\* A publisher that goes to a point where it relies on nothing new.
LEMMA MovesOn ==
  ASSUME IInv, NEW p \in Publisher, NEW pc \in Pc, UNCHANGED diskVars,
         Goes(p, pc),
         \/ pc \in {"fail", "raised", "returned"}
         \/ pc = "create" /\ At(p, "check")
  PROVE  IInv'
<1> DEFINE r == [pub[p] EXCEPT !.pc = pc]
<1>1. /\ r \in PublisherState
      /\ r.pc = pc /\ r.candidate = pub[p].candidate
      /\ r.before = pub[p].before
  BY Stands DEF PublisherState
<1>2. pub' = [pub EXCEPT ![p] = r]
  BY DEF Goes
<1>3. Relies(r) /\ ~Owner(r)
  BY <1>1, Stands DEF Relies, Owner, At
<1> HIDE DEF r
<1> QED BY <1>1, <1>2, <1>3, Moves

LEMMA BeginKeeps ==
  ASSUME IInv, NEW p \in Publisher, NEW v \in Product, Begin(p, v)
  PROVE  IInv'
<1>1. PICK read \in {status, Unreadable} :
        pub' = [pub EXCEPT ![p] =
          [pc |-> IF v \in Valid THEN "check" ELSE "fail", candidate |-> v,
           before |-> read, from |-> Len(log)]]
  BY DEF Begin
<1> DEFINE r == [pc |-> IF v \in Valid THEN "check" ELSE "fail",
                 candidate |-> v, before |-> read, from |-> Len(log)]
<1>2. r \in PublisherState
  <2>1. read \in Status
    <3>1. status \in Status
      BY DEF IInv, TypeOK
    <3>2. Unreadable \in Status
      BY DEF Unreadable, Status
    <3> QED BY <1>1, <3>1, <3>2
  <2>2. Len(log) \in Nat
    BY DEF IInv, TypeOK
  <2>3. (IF v \in Valid THEN "check" ELSE "fail") \in Pc
    BY DEF Pc
  <2> QED BY <2>1, <2>2, <2>3 DEF PublisherState
<1>3. Relies(r) /\ ~Owner(r)
  BY <1>1
  DEF Relies, Owner, IInv, StatusNamesPublished, Unreadable, Durable
<1>4. UNCHANGED diskVars
  BY DEF Begin
<1> HIDE DEF r
<1> QED BY <1>1, <1>2, <1>3, <1>4, Moves DEF r

LEMMA RestKeeps ==
  ASSUME IInv, NEW p \in Publisher, Finish(p) \/ Crash(p)
  PROVE  IInv'
<1>1. Resting \in PublisherState /\ Relies(Resting) /\ ~Owner(Resting)
  BY DEF Resting, NoStatus, PublisherState, Pc, Status, Relies, Owner
<1> QED BY <1>1, Moves DEF Finish, Crash

LEMMA StillKeeps ==
  ASSUME IInv, NEW p \in Publisher, Check(p) \/ Reload(p)
  PROVE  IInv'
  BY MovesOn DEF Check, Reload, Pc

LEMMA RaisesKeeps ==
  ASSUME IInv, NEW p \in Publisher, Raises(p)
  PROVE  IInv'
  BY MovesOn DEF Raises, Pc

LEMMA CreateKeeps ==
  ASSUME IInv, NEW p \in Publisher, Create(p)
  PROVE  IInv'
<1>1. CASE Raises(p)
  BY <1>1, RaisesKeeps
<1>2. CASE ~Raises(p)
  <2>1. PICK v \in Valid : v = pub[p].candidate
    BY <1>2, Stands DEF Create, At, Relies
  <2>2. PICK r : r = [pub[p] EXCEPT !.pc = "write"]
    OBVIOUS
  <2>3. /\ immutable[v] = "absent"
        /\ immutable' = [immutable EXCEPT ![v] = "partial"]
        /\ entries' = entries \ {v}
        /\ pub' = [pub EXCEPT ![p] = r]
        /\ UNCHANGED <<log, synced, status, statuses>>
    BY <1>2, <2>1, <2>2 DEF Create, Goes, Candidate
  <2>4. /\ r \in PublisherState
        /\ r.pc = "write" /\ r.candidate = v /\ r.before = pub[p].before
    BY <2>1, <2>2, Stands DEF PublisherState, Pc
  <2>5. ~Promoted(v)
    BY <2>3 DEF IInv, LatestHasItsImmutable, Promoted
  <2>6. \A q \in Publisher : Owner(pub[q]) => Candidate(q) # v
    BY <2>3, Stands DEF Relies, Owner, Candidate
  <2>7. immutable'[v] = "partial"
    BY <2>1, <2>3, PublicationAssumption DEF IInv, TypeOK
  <2>8. Relies(r)'
    BY <2>1, <2>3, <2>4, <2>5, <2>7, Stands
    DEF Relies, Owner, Promoted, Durable
  <2>9. "partial" \in FileState
    BY DEF FileState
  <2> QED BY <2>3, <2>4, <2>5, <2>6, <2>8, <2>9, FileChanges
<1> QED BY <1>1, <1>2

LEMMA WriteKeeps ==
  ASSUME IInv, NEW p \in Publisher, Write(p)
  PROVE  IInv'
<1>1. PICK v \in Valid : v = pub[p].candidate
  BY Stands DEF Write, At, Relies, Owner
<1>2. PICK f \in {"complete", "absent"}, pc \in {"sync", "fail"} :
        /\ pc = "sync" => f = "complete"
        /\ immutable' = [immutable EXCEPT ![v] = f]
        /\ Goes(p, pc)
        /\ UNCHANGED <<entries, log, synced, status, statuses>>
  BY <1>1 DEF Write, Candidate
<1>3. PICK r : r = [pub[p] EXCEPT !.pc = pc]
  OBVIOUS
<1>4. /\ r \in PublisherState
      /\ r.pc = pc /\ r.candidate = v /\ r.before = pub[p].before
  BY <1>1, <1>3, Stands DEF PublisherState, Pc
<1>5. pub' = [pub EXCEPT ![p] = r]
  BY <1>2, <1>3 DEF Goes
<1>6. ~Promoted(v)
  BY <1>1, Stands DEF Write, At, Relies, Owner
<1>7. \A q \in Publisher \ {p} : Owner(pub[q]) => Candidate(q) # v
  BY <1>1 DEF Write, At, IInv, OneOwner, Owner, Candidate
<1>8. immutable'[v] = f
  BY <1>1, <1>2, PublicationAssumption DEF IInv, TypeOK
<1>9. Relies(r)'
  BY <1>1, <1>2, <1>4, <1>6, <1>8, Stands
  DEF Relies, Owner, Promoted, Durable
<1>10. f \in FileState
  BY DEF FileState
<1> QED BY <1>2, <1>4, <1>5, <1>6, <1>7, <1>9, <1>10, FileChanges

\* The fsync of the directory, and the status file with or without it.
LEMMA SyncedDisk ==
  ASSUME IInv, UNCHANGED <<immutable, log>>, DirectorySynced, status' \in Status
  PROVE  /\ entries' \subseteq Product
         /\ \A v \in Product : immutable[v] = "complete" => v \in entries'
         /\ synced' = Len(log)
         /\ statuses' \subseteq statuses \cup {status'}
  BY DEF DirectorySynced

LEMMA DurableIsPromoted ==
  ASSUME IInv, NEW v, Durable(v)
  PROVE  \E i \in 1..Len(log) : log[i] = v
<1>1. synced \in Nat /\ Len(log) \in Nat /\ synced <= Len(log)
  BY DEF IInv, TypeOK
<1> QED BY <1>1 DEF Durable

\* What was promoted is durable once the directory is synced.
LEMMA PromotedIsDurable ==
  ASSUME IInv, UNCHANGED log, synced' = Len(log), NEW v, Promoted(v)
  PROVE  Durable(v)'
  BY DEF Promoted, Durable

LEMMA SyncKeeps ==
  ASSUME IInv, NEW p \in Publisher, Sync(p) \/ SyncLatest(p)
  PROVE  IInv'
<1>1. CASE Raises(p)
  BY <1>1, RaisesKeeps
<1>2. CASE ~Raises(p)
  <2>1. PICK pc \in {"replace", "status"} :
          /\ Goes(p, pc)
          /\ pc = "replace" => At(p, "sync")
          /\ pc = "status" => At(p, "syncLatest")
          /\ UNCHANGED <<immutable, log, status>>
          /\ DirectorySynced
    BY <1>2 DEF Sync, SyncLatest
  <2>2. PICK r : r = [pub[p] EXCEPT !.pc = pc]
    OBVIOUS
  <2>3. /\ r \in PublisherState
        /\ r.pc = pc /\ r.candidate = pub[p].candidate
        /\ r.before = pub[p].before
    BY <2>1, <2>2, Stands DEF PublisherState, Pc
  <2>4. pub' = [pub EXCEPT ![p] = r]
    BY <2>1, <2>2 DEF Goes
  <2>5. status' \in Status
    BY <2>1 DEF IInv, TypeOK
  <2>6. /\ entries' \subseteq Product
        /\ \A v \in Product : immutable[v] = "complete" => v \in entries'
        /\ synced' = Len(log)
        /\ statuses' \subseteq statuses \cup {status'}
    BY <2>1, <2>5, SyncedDisk
  <2>7. \A v : Promoted(v) => Durable(v)'
    BY <2>1, <2>6, PromotedIsDurable
  <2>8. \A v : Durable(v) => Promoted(v)
    BY DurableIsPromoted DEF Promoted
  <2>9. status'.version # NoProduct
          => \E i \in 1..synced' : log[i] = status'.version
    BY <2>1, <2>7, <2>8 DEF IInv, StatusNamesPublished, Durable
  <2>10. Relies(r)'
    <3>1. Relies(pub[p]) /\ pub[p].pc = IF pc = "replace" THEN "sync"
                                         ELSE "syncLatest"
      BY <2>1, Stands DEF At
    <3>2. pc = "replace" => /\ r.candidate \in Valid
                            /\ ~Promoted(r.candidate)
                            /\ immutable[r.candidate] = "complete"
                            /\ r.candidate \in entries'
      BY <2>3, <2>6, <3>1, PublicationAssumption DEF Relies, Owner
    <3>3. pc = "status" => Durable(r.candidate)'
      BY <2>3, <2>7, <3>1 DEF Relies
    <3>4. r.before.version # NoProduct => Durable(r.before.version)'
      BY <2>3, <2>7, <2>8, <3>1 DEF Relies
    <3> QED BY <2>1, <2>3, <3>2, <3>3, <3>4 DEF Relies, Owner, Promoted
  <2>11. Owner(r) => Owner(pub[p]) /\ r.candidate = Candidate(p)
    BY <2>1, <2>3 DEF Owner, At, Candidate
  <2> QED BY <2>1, <2>3, <2>4, <2>5, <2>6, <2>9, <2>10, <2>11, Persists
<1> QED BY <1>1, <1>2

\* Writing the status with s, or failing to, and moving on.
LEMMA StatusKeeps ==
  ASSUME IInv, NEW p \in Publisher, NEW s \in Status,
         NEW pc \in {"reload", "raised"}, Goes(p, pc),
         StatusWritten(s) \/ StatusUnsynced(s),
         s.version # NoProduct => Durable(s.version)
  PROVE  IInv'
<1>1. PICK r : r = [pub[p] EXCEPT !.pc = pc]
  OBVIOUS
<1>2. /\ r \in PublisherState
      /\ r.pc = pc /\ r.candidate = pub[p].candidate
      /\ r.before = pub[p].before
  BY <1>1, Stands DEF PublisherState, Pc
<1>3. pub' = [pub EXCEPT ![p] = r]
  BY <1>1 DEF Goes
<1>4. status' = s /\ UNCHANGED <<immutable, log>>
  BY DEF StatusWritten, StatusUnsynced, StatusReplaced
<1>5. /\ entries' \subseteq Product
      /\ \A v \in Product : immutable[v] = "complete" /\ v \in entries
                             => v \in entries'
      /\ synced' \in {synced, Len(log)}
      /\ statuses' \subseteq statuses \cup {status'}
  <2>1. CASE StatusWritten(s)
    BY <2>1, <1>4, SyncedDisk DEF StatusWritten
  <2>2. CASE StatusUnsynced(s)
    BY <2>2, <1>4 DEF StatusUnsynced, IInv, TypeOK
  <2> QED BY <2>1, <2>2
<1>6. synced \in Nat /\ Len(log) \in Nat /\ synced <= Len(log)
  BY DEF IInv, TypeOK
<1>7. \A v : Durable(v) => Durable(v)'
  BY <1>4, <1>5, <1>6 DEF Durable
<1>8. status'.version # NoProduct
        => \E i \in 1..synced' : log[i] = status'.version
  BY <1>4, <1>7 DEF Durable
<1>9. Relies(r)' /\ ~Owner(r)
  BY <1>2, <1>7, Stands DEF Relies, Owner
<1> QED BY <1>2, <1>3, <1>4, <1>5, <1>8, <1>9, Persists

LEMMA WriteStatusKeeps ==
  ASSUME IInv, NEW p \in Publisher, WriteStatus(p)
  PROVE  IInv'
<1>1. CASE UNCHANGED diskVars /\ Goes(p, "raised")
  BY <1>1, MovesOn DEF Pc
<1>2. CASE ~(UNCHANGED diskVars /\ Goes(p, "raised"))
  <2>1. PICK s : s = [version |-> Candidate(p), failed |-> FALSE]
    OBVIOUS
  <2>2. s \in Status /\ s.version = pub[p].candidate
    BY <2>1, Stands DEF Status, PublisherState, Candidate
  <2>3. Durable(s.version)
    BY <2>2, Stands DEF WriteStatus, At, Relies
  <2>4. \/ StatusWritten(s) /\ Goes(p, "reload")
        \/ StatusUnsynced(s) /\ Goes(p, "raised")
    BY <1>2, <2>1 DEF WriteStatus
  <2> QED BY <2>2, <2>3, <2>4, StatusKeeps
<1> QED BY <1>1, <1>2

LEMMA FailKeeps ==
  ASSUME IInv, NEW p \in Publisher, Fail(p)
  PROVE  IInv'
<1>1. CASE UNCHANGED diskVars
  BY <1>1, MovesOn DEF Fail, Pc
<1>2. CASE ~UNCHANGED diskVars
  <2>1. PICK s : s = [pub[p].before EXCEPT !.failed = TRUE]
    OBVIOUS
  <2>2. pub[p].before \in Status
    BY Stands DEF PublisherState
  <2>3. s \in Status /\ s.version = pub[p].before.version
    BY <2>1, <2>2 DEF Status
  <2>4. s.version # NoProduct => Durable(s.version)
    BY <2>3, Stands DEF Relies
  <2>5. Goes(p, "raised") /\ (StatusWritten(s) \/ StatusUnsynced(s))
    BY <1>2, <2>1 DEF Fail
  <2> QED BY <2>3, <2>4, <2>5, StatusKeeps
<1> QED BY <1>1, <1>2

\* latest.json is replaced by a product no one else owns, and none of what was
\* there before moves.
LEMMA ReplaceKeeps ==
  ASSUME IInv, NEW p \in Publisher, Replace(p)
  PROVE  IInv'
<1>1. CASE Raises(p)
  BY <1>1, RaisesKeeps
<1>2. CASE ~Raises(p)
  <2>1. PICK v \in Valid : v = pub[p].candidate
    BY Stands DEF Replace, At, Relies, Owner
  <2>2. /\ ~Promoted(v) /\ immutable[v] = "complete" /\ v \in entries
        /\ v \in Product /\ Owner(pub[p])
    BY <2>1, Stands, PublicationAssumption DEF Replace, At, Relies, Owner
  <2>3. /\ log' = Append(log, v)
        /\ Goes(p, "syncLatest")
        /\ UNCHANGED <<immutable, entries, synced, status, statuses>>
    BY <1>2, <2>1 DEF Replace, Candidate
  <2>4. PICK r : r = [pub[p] EXCEPT !.pc = "syncLatest"]
    OBVIOUS
  <2>5. /\ r \in PublisherState
        /\ r.pc = "syncLatest" /\ r.candidate = v /\ r.before = pub[p].before
    BY <2>1, <2>4, Stands DEF PublisherState, Pc
  <2>6. \A q \in Publisher : pub'[q] = IF q = p THEN r ELSE pub[q]
    BY <2>3, <2>4 DEF Goes, IInv, TypeOK
  <2>7. /\ log \in Seq(Product) /\ log' \in Seq(Product) /\ Len(log) \in Nat
        /\ Len(log') = Len(log) + 1 /\ log'[Len(log) + 1] = v
        /\ \A i \in 1..Len(log) : log'[i] = log[i]
        /\ synced \in 0..Len(log)
    BY <2>2, <2>3 DEF IInv, TypeOK
  <2>8. TypeOK'
    <3>1. pub' \in [Publisher -> PublisherState]
      BY <2>3, <2>4, <2>5 DEF Goes, IInv, TypeOK, PublisherState
    <3> QED BY <3>1, <2>3, <2>7 DEF IInv, TypeOK, PublisherState
  <2>9. LatestHasItsImmutable'
    BY <2>1, <2>2, <2>3, <2>7 DEF IInv, LatestHasItsImmutable
  <2>10. NoneTwice'
    BY <2>2, <2>7 DEF IInv, NoneTwice, Promoted
  <2>11. OneOwner'
    BY <2>5, <2>6 DEF IInv, OneOwner, Owner, Candidate
  <2>12. \A w : /\ Durable(w) => Durable(w)'
                /\ Promoted(w) => Promoted(w)'
                /\ Promoted(w)' => Promoted(w) \/ w = v
    BY <2>3, <2>7 DEF Durable, Promoted
  <2>13. StatusNamesPublished'
    BY <2>3, <2>12 DEF IInv, StatusNamesPublished, Durable
  <2>14. EachRelies'
    <3> SUFFICES ASSUME NEW q \in Publisher PROVE Relies(pub[q])'
      BY DEF EachRelies
    <3>1. CASE q = p
      <4>1. Promoted(v)'
        BY <2>7 DEF Promoted
      <4>2. r.before.version # NoProduct => Durable(r.before.version)'
        BY <2>5, <2>12, Stands DEF Relies
      <4> QED BY <3>1, <2>5, <2>6, <4>1, <4>2 DEF Relies, Owner
    <3>2. CASE q # p
      <4>1. Relies(pub[q]) /\ pub'[q] = pub[q]
        BY <3>2, <2>6, Stands
      <4>2. Owner(pub[q]) => pub[q].candidate # v
        BY <3>2, <2>1, <2>2 DEF IInv, OneOwner, Candidate
      <4> QED BY <4>1, <4>2, <2>3, <2>12 DEF Relies, Owner
    <3> QED BY <3>1, <3>2
  <2> QED BY <2>8, <2>9, <2>10, <2>11, <2>13, <2>14 DEF IInv
<1> QED BY <1>1, <1>2

\* A loss of power undoes no replacement that was fsynced, and no file that
\* was complete when the directory was.
LEMMA PowerLossKeeps ==
  ASSUME IInv, PowerLoss
  PROVE  IInv'
<1>1. PICK n \in synced..Len(log) : log' = SubSeq(log, 1, n)
  BY DEF PowerLoss
<1>2. PICK undone \in SUBSET {v \in Product :
                                (immutable[v] = "absent") = (v \in entries)} :
        immutable' = [v \in Product |->
          IF v \notin undone THEN immutable[v]
          ELSE IF v \in entries THEN "partial" ELSE "absent"]
  BY DEF PowerLoss
<1>3. /\ log \in Seq(Product) /\ Len(log) \in Nat /\ n \in 0..Len(log)
      /\ synced \in 0..n
  BY <1>1 DEF IInv, TypeOK
<1>4. /\ log' \in Seq(Product) /\ Len(log') = n /\ synced' = n
      /\ \A i \in 1..n : log'[i] = log[i]
  BY <1>1, <1>3 DEF PowerLoss
<1>5. immutable' \in [Product -> FileState]
  BY <1>2 DEF IInv, TypeOK, FileState
<1>6. entries' = {v \in Product : immutable'[v] # "absent"}
  BY DEF PowerLoss
<1>7. status' \in statuses /\ statuses' = {status'}
  BY DEF PowerLoss
<1>8. Resting \in PublisherState /\ ~Owner(Resting)
  BY DEF Resting, NoStatus, PublisherState, Pc, Status, Owner
<1>9. \A q \in Publisher : pub'[q] = Resting
  BY DEF PowerLoss
<1>10. TypeOK'
  <2>1. pub' \in [Publisher -> PublisherState]
    BY <1>8 DEF PowerLoss
  <2>2. status' \in Status /\ statuses' \in SUBSET Status
    BY <1>7 DEF IInv, TypeOK
  <2> QED BY <1>3, <1>4, <1>5, <1>6, <2>1, <2>2 DEF TypeOK, PublisherState
<1>11. LatestHasItsImmutable'
  <2> SUFFICES ASSUME NEW i \in 1..n
               PROVE  /\ log[i] \in Valid
                      /\ immutable'[log[i]] = "complete"
                      /\ log[i] \in entries'
    BY <1>4 DEF LatestHasItsImmutable
  <2>1. /\ log[i] \in Valid /\ log[i] \in Product
        /\ immutable[log[i]] = "complete" /\ log[i] \in entries
    BY <1>3, PublicationAssumption DEF IInv, LatestHasItsImmutable
  <2>2. log[i] \notin undone
    BY <2>1, <1>2
  <2> QED BY <2>1, <2>2, <1>2, <1>6
<1>12. NoneTwice'
  BY <1>3, <1>4 DEF IInv, NoneTwice
<1>13. OneOwner'
  BY <1>8, <1>9 DEF OneOwner
<1>14. StatusNamesPublished'
  BY <1>3, <1>4, <1>7 DEF IInv, StatusNamesPublished
<1>15. EachRelies'
  BY <1>9 DEF EachRelies, Relies, Resting, NoStatus, Owner
<1> QED BY <1>10, <1>11, <1>12, <1>13, <1>14, <1>15 DEF IInv

LEMMA StepInv == IInv /\ [Next]_vars => IInv'
<1> SUFFICES ASSUME IInv, [Next]_vars PROVE IInv'
  OBVIOUS
<1>1. CASE \E p \in Publisher, v \in Product : Begin(p, v)
  BY <1>1, BeginKeeps
<1>2. CASE \E p \in Publisher : Publish(p) \/ Crash(p)
  <2>1. PICK p \in Publisher : Publish(p) \/ Crash(p)
    BY <1>2
  <2> QED BY <2>1, CreateKeeps, WriteKeeps, SyncKeeps, ReplaceKeeps,
             WriteStatusKeeps, FailKeeps, StillKeeps, RestKeeps DEF Publish
<1>3. CASE PowerLoss
  BY <1>3, PowerLossKeeps
<1>4. CASE UNCHANGED vars
  BY <1>4
  DEF vars, diskVars, IInv, TypeOK, LatestHasItsImmutable, NoneTwice, OneOwner,
      EachRelies, Relies, Owner, Candidate, StatusNamesPublished,
      Promoted, Durable
<1> QED BY <1>1, <1>2, <1>3, <1>4 DEF Next

----------------------------------------------------------------------------
LEMMA InitRefines == Init => Pointer!FileInit
  BY DEF Init, Pointer!FileInit

\* Whatever moves the pointer moves it as its readers are promised.
LEMMA StepRefines ==
  IInv /\ [Next]_vars => [Pointer!FileNext]_(Pointer!fileVars)
<1> SUFFICES ASSUME IInv, [Next]_vars
             PROVE  [Pointer!FileNext]_(Pointer!fileVars)
  OBVIOUS
<1>1. ASSUME NEW p \in Publisher, Replace(p), ~Raises(p)
      PROVE  Pointer!FileNext
  <2>1. PICK v \in Valid : v = pub[p].candidate
    BY <1>1, Stands DEF Replace, At, Relies, Owner
  <2>2. ~Promoted(v)
    BY <1>1, <2>1, Stands DEF Replace, At, Relies, Owner
  <2>3. log' = Append(log, v) /\ UNCHANGED synced
    BY <1>1, <2>1 DEF Replace, Candidate
  <2>4. Pointer!Promote(v)
    BY <2>2, <2>3 DEF Pointer!Promote, Promoted
  <2> QED BY <2>4 DEF Pointer!FileNext
<1>2. ASSUME DirectorySynced, UNCHANGED log
      PROVE  Pointer!FileNext
  BY <1>2 DEF DirectorySynced, Pointer!Persist, Pointer!FileNext
<1>3. CASE PowerLoss
  <2>1. PICK n \in synced..Len(log) : log' = SubSeq(log, 1, n)
    BY <1>3 DEF PowerLoss
  <2>2. synced \in Nat /\ Len(log) \in Nat /\ log \in Seq(Product)
    BY DEF IInv, TypeOK
  <2>3. synced' = n
    BY <1>3, <2>1, <2>2 DEF PowerLoss
  <2> QED BY <2>1, <2>3 DEF Pointer!LosePower, Pointer!FileNext
<1>4. CASE UNCHANGED <<log, synced>>
  BY <1>4 DEF Pointer!fileVars
<1>5. ASSUME NEW p \in Publisher, Publish(p)
      PROVE  \/ UNCHANGED <<log, synced>>
             \/ DirectorySynced /\ UNCHANGED log
             \/ Replace(p) /\ ~Raises(p)
  BY <1>5
  DEF Publish, Check, Create, Write, Sync, Replace, SyncLatest, WriteStatus,
      Reload, Fail, Finish, Raises, StatusWritten, StatusUnsynced,
      StatusReplaced, diskVars
<1>6. ASSUME \/ \E p \in Publisher, v \in Product : Begin(p, v)
             \/ \E p \in Publisher : Crash(p)
             \/ UNCHANGED vars
      PROVE  UNCHANGED <<log, synced>>
  BY <1>6 DEF Begin, Crash, vars, diskVars
<1> QED BY <1>1, <1>2, <1>3, <1>4, <1>5, <1>6 DEF Next

----------------------------------------------------------------------------
(***************************************************************************)
(* Every publisher and the directory stay in the states they can be in,    *)
(* however many publishers there are and whatever calls of theirs fail.    *)
(***************************************************************************)
THEOREM PublicationTypeOK == Spec => []TypeOK
<1>1. IInv => TypeOK
  BY DEF IInv
<1> QED BY InitInv, StepInv, <1>1, PTL DEF Spec

(***************************************************************************)
(* promote_validated_snapshot never leaves a latest.json whose immutable   *)
(* snapshot is missing, torn or could be lost, for any number of           *)
(* publishers that share the directory without a lock.                     *)
(***************************************************************************)
THEOREM LatestAlwaysHasItsImmutable == Spec => []LatestHasItsImmutable
<1>1. IInv => LatestHasItsImmutable
  BY DEF IInv
<1> QED BY InitInv, StepInv, <1>1, PTL DEF Spec

(***************************************************************************)
(* The status file never names a product that latest.json was not          *)
(* durably replaced by, though publish writes it from what it read before. *)
(***************************************************************************)
THEOREM StatusAlwaysNamesPublished == Spec => []StatusNamesPublished
<1>1. IInv => StatusNamesPublished
  BY DEF IInv
<1> QED BY InitInv, StepInv, <1>1, PTL DEF Spec

(***************************************************************************)
(* The publishers and their disk keep the promise of LatestFile to the     *)
(* readers of latest.json: every step is a promotion of a valid product    *)
(* that never was latest, an fsync or a loss of power, or leaves the       *)
(* pointer as it is.                                                       *)
(***************************************************************************)
THEOREM PublicationImplementsLatestFile == Spec => ImplementsLatestFile
<1>1. Spec => []IInv
  BY InitInv, StepInv, PTL DEF Spec
<1> QED BY <1>1, InitRefines, StepRefines, PTL
        DEF Spec, ImplementsLatestFile, Pointer!FileSpec
===========================================================================
