---------------------- MODULE ProductionRefreshProofs ----------------------
(***************************************************************************)
(* The proofs that what a season's refreshes serve only goes forward, and  *)
(* that the selector boards of settled weeks are final and were served, for*)
(* any number of invocations, games, runs and weeks of any length.         *)
(***************************************************************************)
EXTENDS ProductionRefresh, NumberLemmas, SequenceTheorems, TLAPS

Fields == {"week", "captured", "proof", "status", "boards"}
Stages == {"gates", "selector", "market", "product", "publish", "capture", "status"}
Outcomes == {"none", "UNPUBLISHED", "PUBLICATION_FAILED", "SUCCESS"}

\* A sequence is one of its own elements.
Own(s) == {s[i] : i \in 1..Len(s)}

Captured(i) == dirs[i].captured \in Nat

\* The run directories: each has its week and market from no later than now.
DirsOK ==
  /\ dirs \in Seq(Own(dirs))
  /\ \A i \in Run : /\ DOMAIN dirs[i] = Fields
                    /\ dirs[i].week \in Nat /\ dirs[i].week <= WeekAt(clock)
                    /\ Captured(i) => dirs[i].captured <= clock

\* Later directories are of later weeks and markets.
DirsForward ==
  \A i, j \in Run : i <= j =>
    /\ dirs[i].week <= dirs[j].week
    /\ Captured(i) /\ Captured(j) => dirs[i].captured <= dirs[j].captured

\* Promotions are of runs that captured a market, later ones of later runs.
LogOK ==
  /\ log \in Seq(Nat)
  /\ \A m \in 1..Len(log) : log[m] \in Run /\ Captured(log[m])
  /\ \A m, n \in 1..Len(log) : m <= n => log[m] <= log[n]

FilesInv == clock \in Nat /\ DirsOK /\ DirsForward /\ LogOK

\* The lock: a run that is under way has it, and its directory is the last one.
Alone ==
  \A p \in Process : proc[p] # Idle =>
    /\ lock = p
    /\ proc[p].run = Len(dirs) /\ Len(dirs) > 0
    /\ proc[p].pc \in {"product", "publish"} => Captured(Len(dirs))

ProcsInv ==
  /\ proc \in [Process -> {Idle} \cup [pc: Stages, run: Nat, outcome: Outcomes, ticked: BOOLEAN]]
  /\ Alone

RefreshInv == FilesInv /\ ProcsInv

-----------------------------------------------------------------------------
\* A later moment is in no earlier week.
LEMMA WeekGrows ==
  ASSUME NEW t \in Nat, NEW u \in Nat, t <= u
  PROVE  WeekAt(t) \in Nat /\ WeekAt(t) <= WeekAt(u)
  BY SeasonAssumption, SMTT(30) DEF WeekAt

\* A sequence over any set is one over its own elements.
LEMMA OwnSequence ==
  ASSUME NEW T, NEW s \in Seq(T)
  PROVE  s \in Seq(Own(s)) /\ Len(s) \in Nat /\ DOMAIN s = 1..Len(s)
  BY DEF Own

\* Appending keeps what was there.
LEMMA Appended ==
  ASSUME NEW T, NEW s \in Seq(T), NEW e, NEW t, t = Append(s, e)
  PROVE  /\ Len(t) = Len(s) + 1
         /\ \A i \in 1..Len(s) : t[i] = s[i]
         /\ t[Len(s) + 1] = e
         /\ t \in Seq(Own(t))
<1>1. s \in Seq(T \cup {e})
  OBVIOUS
<1>2. t \in Seq(T \cup {e})
  BY <1>1
<1>3. t \in Seq(Own(t))
  BY <1>2, OwnSequence
<1>. QED  BY <1>1, <1>3

\* Writing one place of a sequence leaves the others.
LEMMA Written ==
  ASSUME NEW T, NEW s \in Seq(T), NEW k \in 1..Len(s), NEW e, NEW t, t = [s EXCEPT ![k] = e]
  PROVE  /\ Len(t) = Len(s)
         /\ \A i \in 1..Len(s) : t[i] = IF i = k THEN e ELSE s[i]
         /\ t \in Seq(Own(t))
<1>1. s \in Seq(T \cup {e})
  OBVIOUS
<1>2. t \in Seq(T \cup {e})
  BY <1>1
<1>3. DOMAIN t = 1..Len(s) /\ DOMAIN t = 1..Len(t)
  BY <1>2, OwnSequence
<1>4. Len(t) = Len(s)
  BY <1>2, <1>3, OwnSequence
<1>. QED  BY <1>2, <1>4, OwnSequence

\* What the run under way writes in its directory leaves every week alone, and a
\* market only becomes that of now.
LEMMA DirWritten ==
  ASSUME RefreshInv, NEW p \in Process, proc[p] # Idle,
         NEW f \in Fields \ {"week"}, NEW v, f = "captured" => v = clock,
         dirs' = [dirs EXCEPT ![proc[p].run][f] = v], UNCHANGED <<clock, log>>
  PROVE  /\ FilesInv'
         /\ Len(dirs') = Len(dirs)
         /\ f = "captured" \/ Captured(Len(dirs)) => Captured(Len(dirs))'
<1> DEFINE k == Len(dirs)
           e == [dirs[k] EXCEPT ![f] = v]
<1>1. dirs \in Seq(Own(dirs)) /\ k \in 1..Len(dirs) /\ proc[p].run = k /\ k \in Nat
  BY DEF RefreshInv, FilesInv, ProcsInv, DirsOK, Alone
<1>2. dirs' = [dirs EXCEPT ![k] = e]
  BY <1>1
<1>3. /\ Len(dirs') = Len(dirs)
      /\ \A i \in Run : dirs'[i] = IF i = k THEN e ELSE dirs[i]
      /\ dirs' \in Seq(Own(dirs'))
  <2>. HIDE DEF k, e
  <2>1. dirs \in Seq(Own(dirs)) /\ k \in 1..Len(dirs) /\ dirs' = [dirs EXCEPT ![k] = e]
    BY <1>1, <1>2
  <2>2. \A t : t = [dirs EXCEPT ![k] = e] =>
              /\ Len(t) = Len(dirs)
              /\ \A i \in 1..Len(dirs) : t[i] = IF i = k THEN e ELSE dirs[i]
              /\ t \in Seq(Own(t))
    BY ONLY <2>1, Written
  <2>. QED  BY ONLY <2>1, <2>2 DEF Run
<1>4. DOMAIN e = Fields /\ e.week = dirs[k].week
      /\ e.captured = IF f = "captured" THEN clock ELSE dirs[k].captured
  <2>1. DOMAIN dirs[k] = Fields
    BY <1>1 DEF RefreshInv, FilesInv, DirsOK, Run
  <2>. QED  BY <2>1 DEF Fields
<1>5. \A i \in Run : /\ DOMAIN dirs'[i] = Fields
                     /\ dirs'[i].week = dirs[i].week
                     /\ dirs'[i].captured = IF i = k /\ f = "captured" THEN clock
                                            ELSE dirs[i].captured
  BY <1>3, <1>4 DEF RefreshInv, FilesInv, DirsOK
<1>. HIDE DEF k, e
<1>6. clock' \in Nat /\ DirsOK'
  BY <1>3, <1>5 DEF RefreshInv, FilesInv, DirsOK, Captured, Run, WeekAt
<1>7. DirsForward'
  BY <1>1, <1>3, <1>5 DEF RefreshInv, FilesInv, DirsOK, DirsForward, Captured, Run, k
<1>8. LogOK'
  BY <1>3, <1>5 DEF RefreshInv, FilesInv, LogOK, Captured, Run
<1>. QED  BY <1>1, <1>3, <1>5, <1>6, <1>7, <1>8 DEF FilesInv, RefreshInv, Captured, Run, k

\* A run that goes on to another stage, or ends, is as alone as before.
LEMMA StageMoves ==
  ASSUME RefreshInv, NEW p \in Process, proc[p] # Idle,
         NEW pc \in Stages, NEW outcome \in Outcomes,
         \/ proc' = [proc EXCEPT ![p].pc = pc]
         \/ proc' = [proc EXCEPT ![p].pc = pc, ![p].outcome = outcome],
         lock' = lock, Len(dirs') = Len(dirs),
         pc \in {"product", "publish"} => Captured(Len(dirs))'
  PROVE  ProcsInv'
<1>1. /\ proc'[p] \in [pc: Stages, run: Nat, outcome: Outcomes, ticked: BOOLEAN]
      /\ proc'[p].pc = pc /\ proc'[p].run = proc[p].run
      /\ \A q \in Process \ {p} : proc'[q] = proc[q]
      /\ proc' \in [Process -> {Idle} \cup [pc: Stages, run: Nat, outcome: Outcomes, ticked: BOOLEAN]]
  BY DEF RefreshInv, ProcsInv
<1>2. \A q \in Process \ {p} : proc[q] = Idle
  BY DEF RefreshInv, ProcsInv, Alone
<1>. QED  BY <1>1, <1>2 DEF RefreshInv, ProcsInv, Alone

\* A run under way is the only one, and has a directory.
LEMMA UnderWay ==
  ASSUME RefreshInv, NEW p \in Process, NEW pc \in Stages, proc[p].pc = pc
  PROVE  /\ proc[p] # Idle /\ lock = p
         /\ proc[p].run = Len(dirs) /\ Len(dirs) \in Nat /\ Len(dirs) > 0
         /\ pc \in {"product", "publish"} => Captured(Len(dirs))
<1>1. proc[p] # Idle
  BY DEF Idle, Stages
<1>. QED  BY <1>1 DEF RefreshInv, ProcsInv, Alone, FilesInv, DirsOK

\* At the start there is no run.
LEMMA RefreshInitially == Init => RefreshInv
<1>. SUFFICES ASSUME Init PROVE RefreshInv
  OBVIOUS
<1>1. clock \in Nat /\ dirs = << >> /\ log = << >>
  BY SeasonAssumption DEF Init
<1>2. FilesInv
  BY <1>1 DEF FilesInv, DirsOK, DirsForward, LogOK, Own, Run
<1>3. ProcsInv
  BY DEF Init, ProcsInv, Alone
<1>. QED  BY <1>2, <1>3 DEF RefreshInv

\* Time passes; what was no later than before is no later than now.
LEMMA TickKeeps == RefreshInv /\ Tick => RefreshInv'
<1>. SUFFICES ASSUME RefreshInv, Tick PROVE RefreshInv'
  OBVIOUS
<1>1. clock \in Nat /\ clock' = clock + 1 /\ UNCHANGED <<lock, dirs, log>>
  BY DEF Tick, RefreshInv, FilesInv
<1>2. WeekAt(clock) \in Nat /\ WeekAt(clock)' \in Nat /\ WeekAt(clock) <= WeekAt(clock)'
  BY <1>1, WeekGrows DEF WeekAt
<1>3. DirsOK'
  <2>1. \A i \in Run : /\ DOMAIN dirs[i] = Fields
                       /\ dirs[i].week \in Nat /\ dirs[i].week <= WeekAt(clock)
                       /\ Captured(i) => dirs[i].captured <= clock
    BY DEF RefreshInv, FilesInv, DirsOK
  <2>2. \A i \in Run : /\ dirs[i].week <= WeekAt(clock)'
                       /\ Captured(i) => dirs[i].captured <= clock'
    BY <1>1, <1>2, <2>1 DEF Captured
  <2>. QED  BY <1>1, <2>1, <2>2 DEF RefreshInv, FilesInv, DirsOK, Captured, Run
<1>4. FilesInv'
  BY <1>1, <1>3 DEF RefreshInv, FilesInv, DirsForward, LogOK, Captured, Run
<1>5. ProcsInv'
  <2>1. proc' = [p \in Process |-> IF proc[p] = Idle THEN Idle
                                   ELSE [proc[p] EXCEPT !.ticked = TRUE]]
    BY DEF Tick
  <2>2. \A p \in Process :
          \/ proc[p] = Idle /\ proc'[p] = Idle
          \/ /\ proc[p] # Idle
             /\ proc'[p] \in [pc: Stages, run: Nat, outcome: Outcomes, ticked: BOOLEAN]
             /\ proc'[p].pc = proc[p].pc /\ proc'[p].run = proc[p].run
    BY <2>1 DEF RefreshInv, ProcsInv
  <2>. QED  BY <1>1, <2>1, <2>2 DEF RefreshInv, ProcsInv, Alone, Captured
<1>. QED  BY <1>4, <1>5 DEF RefreshInv

\* A run begins when none is under way: its directory is of no earlier week than
\* any, and of no market yet.
LEMMA BeginKeeps ==
  ASSUME RefreshInv, NEW p \in Process, Begin(p)
  PROVE  RefreshInv'
<1> DEFINE d == [week |-> WeekAt(clock), captured |-> NoTime,
                 proof |-> FALSE, status |-> "none", boards |-> << >>]
<1>1. /\ lock = NoProcess /\ lock' = p /\ UNCHANGED <<clock, log>>
      /\ dirs' = Append(dirs, d)
      /\ proc' = [proc EXCEPT ![p] = [pc |-> "gates", run |-> Len(dirs) + 1,
                                      outcome |-> "none", ticked |-> FALSE]]
  BY DEF Begin
<1>2. dirs \in Seq(Own(dirs)) /\ Len(dirs) \in Nat /\ clock \in Nat
  BY DEF RefreshInv, FilesInv, DirsOK
<1>3. /\ DOMAIN d = Fields /\ d.week = WeekAt(clock) /\ d.captured \notin Nat
      /\ d.week \in Nat /\ d.week <= WeekAt(clock)
  BY <1>2, WeekGrows, SeasonAssumption DEF Fields
<1>. HIDE DEF d
<1>4. /\ Len(dirs') = Len(dirs) + 1
      /\ \A i \in 1..Len(dirs) : dirs'[i] = dirs[i]
      /\ dirs'[Len(dirs) + 1] = d
      /\ dirs' \in Seq(Own(dirs'))
  <2>1. dirs \in Seq(Own(dirs)) /\ dirs' = Append(dirs, d)
    BY <1>1, <1>2
  <2>2. \A t : t = Append(dirs, d) => /\ Len(t) = Len(dirs) + 1
                                      /\ \A i \in 1..Len(dirs) : t[i] = dirs[i]
                                      /\ t[Len(dirs) + 1] = d
                                      /\ t \in Seq(Own(t))
    BY ONLY <2>1, Appended
  <2>. QED  BY ONLY <2>1, <2>2
<1>5. DirsOK' /\ clock' \in Nat
  BY <1>1, <1>2, <1>3, <1>4 DEF RefreshInv, FilesInv, DirsOK, Captured, Run, WeekAt
<1>6. DirsForward'
  BY <1>1, <1>2, <1>3, <1>4 DEF RefreshInv, FilesInv, DirsOK, DirsForward, Captured, Run
<1>7. LogOK'
  BY <1>1, <1>2, <1>4 DEF RefreshInv, FilesInv, LogOK, Captured, Run
<1>8. ProcsInv'
  <2>1. \A q \in Process : proc[q] = Idle
    BY <1>1, SeasonAssumption DEF RefreshInv, ProcsInv, Alone
  <2>2. /\ proc'[p] = [pc |-> "gates", run |-> Len(dirs) + 1, outcome |-> "none", ticked |-> FALSE]
        /\ \A q \in Process \ {p} : proc'[q] = Idle
        /\ proc' \in [Process -> {Idle} \cup [pc: Stages, run: Nat, outcome: Outcomes, ticked: BOOLEAN]]
    BY <1>1, <1>2, <2>1 DEF RefreshInv, ProcsInv, Stages, Outcomes
  <2>. QED  BY <1>1, <1>2, <1>4, <2>2 DEF ProcsInv, Alone
<1>. QED  BY <1>5, <1>6, <1>7, <1>8 DEF RefreshInv, FilesInv

\* A run that ends, or dies, gives the lock back.
LEMMA RunEnds ==
  ASSUME RefreshInv, NEW p \in Process, proc[p] # Idle,
         proc' = [proc EXCEPT ![p] = Idle]
  PROVE  ProcsInv'
<1>1. \A q \in Process : proc'[q] = Idle
  BY DEF RefreshInv, ProcsInv, Alone
<1>. QED  BY <1>1 DEF RefreshInv, ProcsInv, Alone

\* A promotion is of the last run, which has its market.
LEMMA PublishKeeps ==
  ASSUME RefreshInv, NEW p \in Process, PublishProduct(p)
  PROVE  RefreshInv'
<1>1. /\ proc[p] # Idle /\ proc[p].run = Len(dirs) /\ Len(dirs) \in Nat /\ Len(dirs) > 0
      /\ Captured(Len(dirs))
  BY UnderWay DEF PublishProduct, Stages
<1>2. UNCHANGED <<clock, lock, dirs>>
  BY DEF PublishProduct
<1>3. ProcsInv'
  BY <1>1, <1>2, StageMoves DEF PublishProduct, GoTo, Finish, Stages, Outcomes
<1>4. CASE log' = Append(log, proc[p].run)
  <2>1. log \in Seq(Nat) /\ Len(log) \in Nat /\ log' \in Seq(Nat)
    BY <1>1, <1>4 DEF RefreshInv, FilesInv, LogOK
  <2>2. /\ Len(log') = Len(log) + 1
        /\ \A m \in 1..Len(log) : log'[m] = log[m]
        /\ log'[Len(log) + 1] = Len(dirs)
    BY <1>1, <1>4, <2>1
  <2>3. \A m \in 1..Len(log) : log[m] \in Run /\ Captured(log[m])
    BY DEF RefreshInv, FilesInv, LogOK
  <2>4. \A m \in 1..Len(log') : /\ log'[m] \in 1..Len(dirs)
                                 /\ dirs[log'[m]].captured \in Nat
    <3>. SUFFICES ASSUME NEW m \in 1..Len(log')
                  PROVE  log'[m] \in 1..Len(dirs) /\ dirs[log'[m]].captured \in Nat
      OBVIOUS
    <3>1. CASE m = Len(log) + 1
      BY <3>1, <1>1, <2>2 DEF Captured
    <3>2. CASE m \in 1..Len(log)
      BY <3>2, <2>2, <2>3 DEF Captured, Run
    <3>. QED  BY <3>1, <3>2, <2>1, <2>2
  <2>5. \A m, n \in 1..Len(log') : m <= n => log'[m] <= log'[n]
    <3>. SUFFICES ASSUME NEW m \in 1..Len(log'), NEW n \in 1..Len(log'), m <= n
                  PROVE  log'[m] <= log'[n]
      OBVIOUS
    <3>1. CASE n = Len(log) + 1
      BY <3>1, <2>2, <2>4
    <3>2. CASE n \in 1..Len(log) /\ m \in 1..Len(log)
      BY <3>2, <2>2 DEF RefreshInv, FilesInv, LogOK
    <3>. QED  BY <3>1, <3>2, <2>1, <2>2
  <2>6. LogOK'
    <3>1. dirs' = dirs
      BY <1>2
    <3>. QED  BY <2>1, <2>4, <2>5, <3>1 DEF LogOK, Captured, Run
  <2>7. FilesInv'
    BY <1>2, <2>6 DEF RefreshInv, FilesInv, DirsOK, DirsForward, Captured, Run, WeekAt
  <2>. QED  BY <1>3, <2>7 DEF RefreshInv
<1>5. CASE UNCHANGED log
  BY <1>2, <1>3, <1>5 DEF RefreshInv, FilesInv, DirsOK, DirsForward, LogOK, Captured, Run, WeekAt
<1>. QED  BY <1>4, <1>5 DEF PublishProduct

\* A step of a run that writes no directory and promotes nothing.
LEMMA FilesUntouched ==
  ASSUME RefreshInv, UNCHANGED <<clock, dirs, log>>
  PROVE  FilesInv'
  BY DEF RefreshInv, FilesInv, DirsOK, DirsForward, LogOK, Captured, Run, WeekAt

LEMMA RefreshKeeps == RefreshInv /\ [Next]_vars => RefreshInv'
<1>. SUFFICES ASSUME RefreshInv, [Next]_vars PROVE RefreshInv'
  OBVIOUS
<1>1. CASE Tick
  BY <1>1, TickKeeps
<1>2. ASSUME NEW p \in Process, Begin(p) PROVE RefreshInv'
  BY <1>2, BeginKeeps
<1>3. ASSUME NEW p \in Process, Gates(p) PROVE RefreshInv'
  <2>1. proc[p] # Idle
    BY <1>3, UnderWay DEF Gates, Stages
  <2>2. ProcsInv'
    BY <1>3, <2>1, StageMoves DEF Gates, GoTo, Finish, Stages, Outcomes
  <2>. QED  BY <1>3, <2>2, FilesUntouched DEF Gates, RefreshInv
<1>4. ASSUME NEW p \in Process, Selector(p) PROVE RefreshInv'
  <2>1. proc[p] # Idle /\ UNCHANGED <<clock, lock, log>>
    BY <1>4, UnderWay DEF Selector, Stages
  <2>2. CASE UNCHANGED dirs /\ Finish(p, "UNPUBLISHED")
    <3>1. ProcsInv'
      BY <2>1, <2>2, StageMoves DEF Finish, Stages, Outcomes
    <3>. QED  BY <2>1, <2>2, <3>1, FilesUntouched DEF RefreshInv
  <2>3. ASSUME NEW v, SetDir(p, "boards", v), GoTo(p, "market") PROVE RefreshInv'
    <3>1. FilesInv' /\ Len(dirs') = Len(dirs)
      BY <2>1, <2>3, DirWritten DEF SetDir, Fields
    <3>2. ProcsInv'
      BY <2>1, <2>3, <3>1, StageMoves DEF GoTo, Stages, Outcomes
    <3>. QED  BY <3>1, <3>2 DEF RefreshInv
  <2>. QED  BY <1>4, <2>2, <2>3 DEF Selector
<1>5. ASSUME NEW p \in Process, Market(p) PROVE RefreshInv'
  <2>1. proc[p] # Idle /\ UNCHANGED <<clock, lock, log>>
    BY <1>5, UnderWay DEF Market, Stages
  <2>2. CASE UNCHANGED dirs /\ Finish(p, "UNPUBLISHED")
    <3>1. ProcsInv'
      BY <2>1, <2>2, StageMoves DEF Finish, Stages, Outcomes
    <3>. QED  BY <2>1, <2>2, <3>1, FilesUntouched DEF RefreshInv
  <2>3. CASE SetDir(p, "captured", clock) /\ GoTo(p, "product")
    <3>1. FilesInv' /\ Len(dirs') = Len(dirs) /\ Captured(Len(dirs))'
      BY <2>1, <2>3, DirWritten DEF SetDir, Fields
    <3>2. ProcsInv'
      BY <2>1, <2>3, <3>1, StageMoves DEF GoTo, Stages, Outcomes
    <3>. QED  BY <3>1, <3>2 DEF RefreshInv
  <2>. QED  BY <1>5, <2>2, <2>3 DEF Market
<1>6. ASSUME NEW p \in Process, Product(p) PROVE RefreshInv'
  <2>1. proc[p] # Idle /\ UNCHANGED <<clock, lock, log>> /\ Captured(Len(dirs))
    BY <1>6, UnderWay DEF Product, Stages
  <2>2. CASE UNCHANGED dirs /\ Finish(p, "UNPUBLISHED")
    <3>1. ProcsInv'
      BY <2>1, <2>2, StageMoves DEF Finish, Stages, Outcomes
    <3>. QED  BY <2>1, <2>2, <3>1, FilesUntouched DEF RefreshInv
  <2>3. CASE SetDir(p, "proof", TRUE) /\ GoTo(p, "publish")
    <3>1. FilesInv' /\ Len(dirs') = Len(dirs) /\ Captured(Len(dirs))'
      BY <2>1, <2>3, DirWritten DEF SetDir, Fields
    <3>2. ProcsInv'
      BY <2>1, <2>3, <3>1, StageMoves DEF GoTo, Stages, Outcomes
    <3>. QED  BY <3>1, <3>2 DEF RefreshInv
  <2>. QED  BY <1>6, <2>2, <2>3 DEF Product
<1>7. ASSUME NEW p \in Process, PublishProduct(p) PROVE RefreshInv'
  BY <1>7, PublishKeeps
<1>8. ASSUME NEW p \in Process, Capture(p) PROVE RefreshInv'
  <2>1. proc[p] # Idle
    BY <1>8, UnderWay DEF Capture, Stages
  <2>2. ProcsInv'
    BY <1>8, <2>1, StageMoves DEF Capture, Finish, Stages, Outcomes
  <2>. QED  BY <1>8, <2>2, FilesUntouched DEF Capture, RefreshInv
<1>9. ASSUME NEW p \in Process, WriteStatus(p) PROVE RefreshInv'
  <2>1. proc[p] # Idle /\ UNCHANGED <<clock, log>>
    BY <1>9, UnderWay DEF WriteStatus, Stages
  <2>2. FilesInv'
    BY <1>9, <2>1, DirWritten DEF WriteStatus, SetDir, Fields
  <2>3. ProcsInv'
    BY <1>9, <2>1, RunEnds DEF WriteStatus
  <2>. QED  BY <2>2, <2>3 DEF RefreshInv
<1>10. ASSUME NEW p \in Process, Crash(p) PROVE RefreshInv'
  <2>1. ProcsInv'
    BY <1>10, RunEnds DEF Crash
  <2>. QED  BY <1>10, <2>1, FilesUntouched DEF Crash, RefreshInv
<1>11. CASE UNCHANGED vars
  BY <1>11, FilesUntouched DEF vars, RefreshInv, ProcsInv, Alone, Captured
<1>. QED
  BY <1>1, <1>2, <1>3, <1>4, <1>5, <1>6, <1>7, <1>8, <1>9, <1>10, <1>11 DEF Next

\* However many refreshes, from however many invocations, fail or die anywhere: what
\* is served goes back neither to an earlier week nor to an older market.
THEOREM ServedOnlyForward == Spec => []ServedGoesForward
<1>1. RefreshInv => ServedGoesForward
  <2>. SUFFICES ASSUME RefreshInv, NEW m \in 1..Len(log), NEW n \in 1..Len(log), m < n
                PROVE  /\ dirs[log[m]].week <= dirs[log[n]].week
                       /\ dirs[log[m]].captured <= dirs[log[n]].captured
    BY DEF ServedGoesForward
  <2>1. log[m] \in Run /\ log[n] \in Run /\ Captured(log[m]) /\ Captured(log[n])
        /\ log[m] <= log[n]
    BY DEF RefreshInv, FilesInv, LogOK
  <2>. QED  BY <2>1 DEF RefreshInv, FilesInv, DirsForward
<1>. QED  BY <1>1, RefreshInitially, RefreshKeeps, PTL DEF Spec

-----------------------------------------------------------------------------
(***************************************************************************)
(* What became of every run, and the boards.                               *)
(***************************************************************************)

\* What run-status.json, the proof and the evidence say of a run is true of it.
Fates ==
  /\ \A i \in Run :
       /\ dirs[i].status = "SUCCESS" => i \in ToSet(log)
       /\ dirs[i].status = "UNPUBLISHED" => i \notin ToSet(log)
       /\ i \in ToSet(log) => dirs[i].proof = TRUE
  /\ captures \subseteq ToSet(log)

\* The run under way has not said how it ended, and knows whether it published.
LastFate ==
  \A p \in Process : proc[p] # Idle =>
    /\ dirs[Len(dirs)].status = "none"
    /\ proc[p].pc \in {"gates", "selector", "market", "product", "publish"}
         => Len(dirs) \notin ToSet(log)
    /\ proc[p].pc = "publish" => dirs[Len(dirs)].proof = TRUE
    /\ proc[p].pc = "capture" => Len(dirs) \in ToSet(log)
    /\ proc[p].pc = "status" =>
         /\ proc[p].outcome = "SUCCESS" => Len(dirs) \in ToSet(log)
         /\ proc[p].outcome = "UNPUBLISHED" => Len(dirs) \notin ToSet(log)

\* The last of some runs.  A game's final run is that of its pregame runs: what is
\* said of it here is what it is, not how it is chosen.
IsLast(b, runs) == b \in runs /\ \A j \in runs : j <= b

\* A directory's boards are of weeks before its own, and still final.
BoardsOK ==
  \A i \in Run : \A n \in DOMAIN dirs[i].boards :
    LET w == SelectorTrustStart + n - 1 IN
    /\ n \in Nat \ {0} /\ w < dirs[i].week
    /\ dirs[i].boards[n] \in [GamesOf(w) -> Nat]
    /\ \A g \in GamesOf(w) : IsLast(dirs[i].boards[n][g], PregameRuns(g))

HistoryInv == RefreshInv /\ Fates /\ LastFate /\ BoardsOK

-----------------------------------------------------------------------------
\* Promotions are of runs there are, with their market.
LEMMA Promotions ==
  ASSUME RefreshInv
  PROVE  \A i \in ToSet(log) : i \in Run /\ Captured(i)
  BY DEF RefreshInv, FilesInv, LogOK, ToSet

\* A write of the run under way is in one place of the last directory.
LEMMA LastWritten ==
  ASSUME RefreshInv, NEW p \in Process, proc[p] # Idle, NEW f \in Fields, NEW v,
         SetDir(p, f, v)
  PROVE  /\ Len(dirs) \in Nat /\ Len(dirs) > 0 /\ Len(dirs') = Len(dirs)
         /\ \A i \in 1..Len(dirs) : i < Len(dirs) => dirs'[i] = dirs[i]
         /\ \A h \in Fields : dirs'[Len(dirs)][h] = IF h = f THEN v ELSE dirs[Len(dirs)][h]
<1> DEFINE k == Len(dirs)
           e == [dirs[k] EXCEPT ![f] = v]
<1>1. dirs \in Seq(Own(dirs)) /\ k \in 1..Len(dirs) /\ proc[p].run = k /\ k \in Nat
  BY DEF RefreshInv, FilesInv, ProcsInv, DirsOK, Alone
<1>2. dirs' = [dirs EXCEPT ![k] = e]
  BY <1>1 DEF SetDir
<1>3. \A h \in Fields : e[h] = IF h = f THEN v ELSE dirs[k][h]
  <2>1. DOMAIN dirs[k] = Fields
    BY <1>1 DEF RefreshInv, FilesInv, DirsOK, Run
  <2>. QED  BY <2>1
<1>. HIDE DEF e
<1>4. Len(dirs') = Len(dirs) /\ dirs'[k] = e /\ \A i \in 1..Len(dirs) : i # k => dirs'[i] = dirs[i]
  BY <1>1, <1>2
<1>5. \A h \in Fields : dirs'[k][h] = IF h = f THEN v ELSE dirs[k][h]
  BY ONLY <1>3, <1>4
<1>6. \A i \in 1..Len(dirs) : i < Len(dirs) => dirs'[i] = dirs[i]
  BY ONLY <1>1, <1>4 DEF k
<1>. QED  BY ONLY <1>1, <1>4, <1>5, <1>6 DEF k

\* The runs a board of an earlier week chooses from are not touched by a write of
\* the run under way.
LEMMA PastIsPast ==
  ASSUME RefreshInv, Len(dirs) > 0, Len(dirs') = Len(dirs),
         dirs'[Len(dirs)].week = dirs[Len(dirs)].week,
         \A i \in 1..Len(dirs) : i < Len(dirs) => dirs'[i] = dirs[i],
         NEW g \in Game, WeekOf[g] < dirs[Len(dirs)].week
  PROVE  PregameRuns(g)' = PregameRuns(g)
<1>1. Len(dirs) \in Nat
  BY DEF RefreshInv, FilesInv, DirsOK
<1>2. WeekOf[g] # dirs[Len(dirs)].week
  BY SeasonAssumption, <1>1 DEF RefreshInv, FilesInv, DirsOK, Run
<1>3. \A i \in Run : dirs[i].week = WeekOf[g] \/ dirs'[i].week = WeekOf[g] => dirs'[i] = dirs[i]
  BY <1>1, <1>2 DEF Run
<1>4. Run' = Run
  BY DEF Run
<1>. QED  BY <1>3, <1>4 DEF PregameRuns, Trusted

\* Nor by a run that begins.
LEMMA BeginnerIsUntrusted ==
  ASSUME RefreshInv, Len(dirs') = Len(dirs) + 1,
         \A i \in 1..Len(dirs) : dirs'[i] = dirs[i],
         dirs'[Len(dirs) + 1].status = "none", NEW g \in Game
  PROVE  PregameRuns(g)' = PregameRuns(g)
<1>1. Len(dirs) \in Nat
  BY DEF RefreshInv, FilesInv, DirsOK
<1>2. Run' = Run \cup {Len(dirs) + 1} /\ Len(dirs) + 1 \notin Run
  BY <1>1 DEF Run
<1>. QED  BY <1>2 DEF PregameRuns, Trusted, Run

\* The last directory is of no earlier week than any board's, so a board whose
\* directory keeps it stays final when only the last directory is written.
LEMMA BoardsStay ==
  ASSUME HistoryInv, NEW i \in Run, dirs'[i].boards = dirs[i].boards,
         dirs'[i].week = dirs[i].week,
         \A g \in Game : WeekOf[g] < dirs[Len(dirs)].week => PregameRuns(g)' = PregameRuns(g),
         NEW n \in DOMAIN dirs[i].boards, NEW w, w = SelectorTrustStart + n - 1
  PROVE  /\ n \in Nat \ {0} /\ w < dirs'[i].week
         /\ dirs'[i].boards[n] \in [GamesOf(w) -> Nat]
         /\ \A g \in GamesOf(w) : IsLast(dirs'[i].boards[n][g], PregameRuns(g)')
<1>1. /\ n \in Nat \ {0} /\ w < dirs[i].week
      /\ dirs[i].boards[n] \in [GamesOf(w) -> Nat]
      /\ \A g \in GamesOf(w) : IsLast(dirs[i].boards[n][g], PregameRuns(g))
  BY DEF HistoryInv, BoardsOK
<1>2. dirs[i].week \in Nat /\ dirs[Len(dirs)].week \in Nat /\ dirs[i].week <= dirs[Len(dirs)].week
  BY DEF HistoryInv, RefreshInv, FilesInv, DirsOK, DirsForward, Run
<1>3. w \in Nat
  BY <1>1 DEF SelectorTrustStart
<1>4. \A g \in GamesOf(w) : PregameRuns(g)' = PregameRuns(g)
  BY <1>1, <1>2, <1>3 DEF GamesOf
<1>. QED  BY <1>1, <1>4 DEF IsLast

\* A step that writes no directory leaves the boards as they are.
LEMMA BoardsUntouched == HistoryInv /\ UNCHANGED dirs => BoardsOK'
<1>. SUFFICES ASSUME HistoryInv, UNCHANGED dirs PROVE BoardsOK'
  OBVIOUS
<1>1. Run' = Run /\ \A g \in Game : PregameRuns(g)' = PregameRuns(g)
  BY DEF Run, PregameRuns, Trusted
<1>2. \A w : \A g \in GamesOf(w) : g \in Game
  BY DEF GamesOf
<1>. QED  BY <1>1, <1>2 DEF HistoryInv, BoardsOK

\* A write that is not of the boards leaves them final.
LEMMA BoardsKept ==
  ASSUME HistoryInv, NEW p \in Process, proc[p] # Idle,
         NEW f \in Fields \ {"week", "boards"}, NEW v, SetDir(p, f, v)
  PROVE  BoardsOK'
<1>1. /\ Len(dirs) \in Nat /\ Len(dirs) > 0 /\ Len(dirs') = Len(dirs)
      /\ \A i \in 1..Len(dirs) : i < Len(dirs) => dirs'[i] = dirs[i]
      /\ \A h \in Fields : dirs'[Len(dirs)][h] = IF h = f THEN v ELSE dirs[Len(dirs)][h]
  <2>1. RefreshInv /\ f \in Fields
    BY DEF HistoryInv
  <2>. QED  BY <2>1, LastWritten
<1>2. dirs'[Len(dirs)].week = dirs[Len(dirs)].week
      /\ dirs'[Len(dirs)].boards = dirs[Len(dirs)].boards
  BY <1>1 DEF Fields
<1>3. \A i \in Run : dirs'[i].week = dirs[i].week /\ dirs'[i].boards = dirs[i].boards
  BY <1>1, <1>2 DEF Run
<1>4. \A g \in Game : WeekOf[g] < dirs[Len(dirs)].week => PregameRuns(g)' = PregameRuns(g)
  BY <1>1, <1>2, PastIsPast DEF HistoryInv
<1>5. Run' = Run
  BY <1>1 DEF Run
<1>6. SUFFICES ASSUME NEW i \in Run, NEW n \in DOMAIN dirs[i].boards
               PROVE  LET w == SelectorTrustStart + n - 1 IN
                      /\ n \in Nat \ {0} /\ w < dirs'[i].week
                      /\ dirs'[i].boards[n] \in [GamesOf(w) -> Nat]
                      /\ \A g \in GamesOf(w) : IsLast(dirs'[i].boards[n][g], PregameRuns(g)')
  BY <1>3, <1>5 DEF BoardsOK
<1>. QED  BY <1>3, <1>4, BoardsStay

\* Of two pregame runs of a game, the later directory has the later market.
LEMMA LaterIsAfter ==
  ASSUME HistoryInv, NEW g \in Game, NEW i \in PregameRuns(g), NEW j \in PregameRuns(g)
  PROVE  i \in Nat /\ j \in Nat /\ (Later(i, j) <=> i > j)
<1>1. i \in Run /\ j \in Run /\ i \in ToSet(log) /\ j \in ToSet(log)
  BY DEF PregameRuns, Trusted, HistoryInv, Fates
<1>2. Captured(i) /\ Captured(j)
  BY <1>1, Promotions DEF HistoryInv
<1>3. Len(dirs) \in Nat
  BY DEF HistoryInv, RefreshInv, FilesInv, DirsOK
<1>4. /\ i <= j => dirs[i].captured <= dirs[j].captured
      /\ j <= i => dirs[j].captured <= dirs[i].captured
  BY <1>1, <1>2 DEF HistoryInv, RefreshInv, FilesInv, DirsForward
<1>. QED  BY <1>1, <1>2, <1>3, <1>4 DEF Later, Captured, Run

\* The final run of a game that has a pregame run is the last of them.
LEMMA FinalRunIsLast ==
  ASSUME HistoryInv, NEW g \in Game, PregameRuns(g) # {}
  PROVE  FinalRun(g) \in Nat /\ IsLast(FinalRun(g), PregameRuns(g))
<1> DEFINE P == PregameRuns(g)
<1>1. Len(dirs) \in Nat /\ P \subseteq 1..Len(dirs)
  BY DEF HistoryInv, RefreshInv, FilesInv, DirsOK, PregameRuns, Run
<1>2. \A i, j \in P : i \in Nat /\ (Later(i, j) <=> i > j)
  BY LaterIsAfter
<1>. HIDE DEF P
<1>3. PICK x \in P : \A y \in P : y <= x
  BY <1>1, GreatestElement DEF P
<1>4. \A y \in P \ {x} : Later(x, y)
  BY <1>2, <1>3
<1>5. FinalRun(g) \in P /\ \A y \in P \ {FinalRun(g)} : Later(FinalRun(g), y)
  BY <1>4 DEF FinalRun, P
<1>6. \A y \in P : y <= FinalRun(g)
  BY <1>2, <1>5
<1>. QED  BY <1>2, <1>5, <1>6 DEF IsLast, P

\* The selector writes the boards of the weeks before its run's, each the final
\* runs of its games.
LEMMA SelectorKeepsBoards ==
  ASSUME HistoryInv, NEW p \in Process, Selector(p)
  PROVE  BoardsOK'
<1> DEFINE k == Len(dirs)
           weeks == SettledWeeks(dirs[k].week)
           boards == [n \in 1..Cardinality(weeks) |-> BoardOf(SelectorTrustStart + n - 1)]
<1>1. proc[p] # Idle /\ proc[p].run = k /\ k \in Nat /\ k > 0 /\ k \in Run
  BY UnderWay DEF Selector, Stages, HistoryInv, Run
<1>2. CASE UNCHANGED dirs
  BY <1>2, BoardsUntouched
<1>3. CASE (\A w \in weeks : HasBoard(w)) /\ SetDir(p, "boards", boards)
  <2>1. dirs[k].week \in Nat
    BY <1>1 DEF HistoryInv, RefreshInv, FilesInv, DirsOK, Run
  <2>2. /\ Len(dirs') = Len(dirs)
        /\ \A i \in 1..Len(dirs) : i < Len(dirs) => dirs'[i] = dirs[i]
        /\ dirs'[k].boards = boards /\ dirs'[k].week = dirs[k].week
    <3>. HIDE DEF boards
    <3>1. RefreshInv /\ "boards" \in Fields /\ "week" \in Fields
          /\ SetDir(p, "boards", boards)
      BY <1>3 DEF HistoryInv, Fields
    <3>. QED  BY <1>1, <3>1, LastWritten
  <2>3. \A g \in Game : WeekOf[g] < dirs[Len(dirs)].week => PregameRuns(g)' = PregameRuns(g)
    BY <1>1, <2>2, PastIsPast DEF HistoryInv
  <2>4. Cardinality(weeks) = IF SelectorTrustStart > dirs[k].week - 1 THEN 0
                             ELSE dirs[k].week - 1 - SelectorTrustStart + 1
    <3>1. \A b \in Int : Cardinality(2..b) = IF 2 > b THEN 0 ELSE b - 2 + 1
      BY FS_Interval
    <3>. QED  BY <2>1, <3>1 DEF SettledWeeks, SelectorTrustStart
  <2>5. ASSUME NEW n \in DOMAIN dirs'[k].boards
        PROVE  LET w == SelectorTrustStart + n - 1 IN
               /\ n \in Nat \ {0} /\ w < dirs'[k].week
               /\ dirs'[k].boards[n] \in [GamesOf(w) -> Nat]
               /\ \A g \in GamesOf(w) : IsLast(dirs'[k].boards[n][g], PregameRuns(g)')
    <3> DEFINE w == SelectorTrustStart + n - 1
    <3>1. n \in 1..Cardinality(weeks) /\ dirs'[k].boards[n] = BoardOf(w)
      BY <2>2, <2>5
    <3>2. n \in Nat \ {0} /\ w \in Nat /\ w < dirs[k].week /\ w \in weeks
      BY <2>1, <2>4, <3>1 DEF SelectorTrustStart, SettledWeeks
    <3>. HIDE DEF w, weeks
    <3>3. \A g \in GamesOf(w) : g \in Game /\ WeekOf[g] < dirs[k].week /\ PregameRuns(g) # {}
      BY <1>3, <3>2 DEF HasBoard, GamesOf
    <3>4. \A g \in GamesOf(w) : FinalRun(g) \in Nat /\ IsLast(FinalRun(g), PregameRuns(g)')
      BY <2>3, <3>3, FinalRunIsLast
    <3>5. dirs'[k].boards[n] \in [GamesOf(w) -> Nat]
          /\ \A g \in GamesOf(w) : dirs'[k].boards[n][g] = FinalRun(g)
      BY <3>1, <3>4 DEF BoardOf
    <3>. QED  BY <2>2, <3>2, <3>4, <3>5 DEF w
  <2>6. ASSUME NEW i \in Run, i # k, NEW n \in DOMAIN dirs'[i].boards
        PROVE  LET w == SelectorTrustStart + n - 1 IN
               /\ n \in Nat \ {0} /\ w < dirs'[i].week
               /\ dirs'[i].boards[n] \in [GamesOf(w) -> Nat]
               /\ \A g \in GamesOf(w) : IsLast(dirs'[i].boards[n][g], PregameRuns(g)')
    <3>1. dirs'[i] = dirs[i]
      BY <1>1, <2>2, <2>6 DEF Run
    <3>. QED  BY <2>3, <2>6, <3>1, BoardsStay
  <2>. HIDE DEF k, boards, weeks
  <2>7. Run' = Run
    BY <2>2 DEF Run
  <2>. QED  BY <2>5, <2>6, <2>7 DEF BoardsOK
<1>. QED  BY <1>1, <1>2, <1>3 DEF Selector

\* A run that begins has no boards and is chosen for none.
LEMMA BeginKeepsBoards ==
  ASSUME HistoryInv, NEW p \in Process, Begin(p)
  PROVE  /\ BoardsOK'
         /\ Len(dirs') = Len(dirs) + 1
         /\ \A i \in 1..Len(dirs) : dirs'[i] = dirs[i]
         /\ dirs'[Len(dirs) + 1].status = "none"
<1> DEFINE d == [week |-> WeekAt(clock), captured |-> NoTime,
                 proof |-> FALSE, status |-> "none", boards |-> << >>]
<1>1. dirs \in Seq(Own(dirs)) /\ Len(dirs) \in Nat
  BY DEF HistoryInv, RefreshInv, FilesInv, DirsOK
<1>2. d.status = "none" /\ d.boards = << >>
  OBVIOUS
<1>3. dirs' = Append(dirs, d)
  BY DEF Begin
<1>. HIDE DEF d
<1>4. /\ Len(dirs') = Len(dirs) + 1
      /\ \A i \in 1..Len(dirs) : dirs'[i] = dirs[i]
      /\ dirs'[Len(dirs) + 1].status = "none" /\ dirs'[Len(dirs) + 1].boards = << >>
  BY <1>1, <1>2, <1>3
<1>5. \A g \in Game : PregameRuns(g)' = PregameRuns(g)
  BY <1>4, BeginnerIsUntrusted DEF HistoryInv
<1>6. \A i \in Run : dirs'[i] = dirs[i]
  BY <1>4 DEF Run
<1>7. ASSUME NEW i \in Run', NEW n \in DOMAIN dirs'[i].boards
      PROVE  LET w == SelectorTrustStart + n - 1 IN
             /\ n \in Nat \ {0} /\ w < dirs'[i].week
             /\ dirs'[i].boards[n] \in [GamesOf(w) -> Nat]
             /\ \A g \in GamesOf(w) : IsLast(dirs'[i].boards[n][g], PregameRuns(g)')
  <2>1. i \in Run
    <3>1. i # Len(dirs) + 1
      BY <1>4, <1>7
    <3>. QED  BY <1>1, <1>4, <3>1 DEF Run
  <2>. QED  BY <1>5, <1>6, <2>1, BoardsStay
<1>8. BoardsOK'
  BY <1>7 DEF BoardsOK
<1>. QED  BY <1>4, <1>8

\* A write that is not of the status, in the directory of a run that has said nothing
\* yet, makes no file untrue.
LEMMA FatesKept ==
  ASSUME HistoryInv, NEW p \in Process, proc[p] # Idle,
         NEW f \in Fields \ {"status"}, NEW v, f = "proof" => v = TRUE,
         SetDir(p, f, v), UNCHANGED <<log, captures>>
  PROVE  /\ Fates'
         /\ Len(dirs') = Len(dirs) /\ dirs'[Len(dirs)].status = "none"
         /\ dirs'[Len(dirs)].proof = IF f = "proof" THEN TRUE ELSE dirs[Len(dirs)].proof
<1>1. /\ Len(dirs) \in Nat /\ Len(dirs) > 0 /\ Len(dirs') = Len(dirs)
      /\ \A i \in 1..Len(dirs) : i < Len(dirs) => dirs'[i] = dirs[i]
      /\ \A h \in Fields : dirs'[Len(dirs)][h] = IF h = f THEN v ELSE dirs[Len(dirs)][h]
  <2>1. RefreshInv /\ f \in Fields
    BY DEF HistoryInv
  <2>. QED  BY <2>1, LastWritten
<1>2. dirs[Len(dirs)].status = "none"
  BY DEF HistoryInv, LastFate
<1>3. /\ dirs'[Len(dirs)].status = "none"
      /\ dirs'[Len(dirs)].proof = IF f = "proof" THEN TRUE ELSE dirs[Len(dirs)].proof
  BY <1>1, <1>2 DEF Fields
<1>4. \A i \in Run : /\ dirs'[i].status = dirs[i].status
                     /\ dirs[i].proof = TRUE => dirs'[i].proof = TRUE
  <2>. SUFFICES ASSUME NEW i \in Run
                PROVE  /\ dirs'[i].status = dirs[i].status
                       /\ dirs[i].proof = TRUE => dirs'[i].proof = TRUE
    OBVIOUS
  <2>1. i = Len(dirs) \/ dirs'[i] = dirs[i]
    BY <1>1 DEF Run
  <2>. QED  BY <1>2, <1>3, <2>1, Zenon
<1>5. Run' = Run /\ log' = log /\ captures' = captures
  BY <1>1 DEF Run
<1>6. Fates'
  BY <1>4, <1>5 DEF HistoryInv, Fates
<1>. QED  BY <1>1, <1>3, <1>6

\* The run under way goes on, or to its end, knowing whether it published.
LEMMA FateMoves ==
  ASSUME HistoryInv, NEW p \in Process, proc[p] # Idle, NEW pc \in Stages, NEW o \in Outcomes,
         (GoTo(p, pc) /\ pc # "status") \/ (Finish(p, o) /\ pc = "status"),
         Len(dirs') = Len(dirs), dirs'[Len(dirs)].status = "none",
         pc \in {"gates", "selector", "market", "product", "publish"} => Len(dirs) \notin ToSet(log'),
         pc = "publish" => dirs'[Len(dirs)].proof = TRUE,
         pc = "capture" => Len(dirs) \in ToSet(log'),
         pc = "status" => /\ o = "SUCCESS" => Len(dirs) \in ToSet(log')
                          /\ o = "UNPUBLISHED" => Len(dirs) \notin ToSet(log')
  PROVE  LastFate'
<1>1. /\ proc'[p].pc = pc
      /\ pc = "status" => proc'[p].outcome = o
      /\ \A q \in Process \ {p} : proc'[q] = proc[q]
  <2>1. proc \in [Process -> {Idle} \cup [pc: Stages, run: Nat, outcome: Outcomes, ticked: BOOLEAN]]
    BY DEF HistoryInv, RefreshInv, ProcsInv
  <2>2. CASE GoTo(p, pc) /\ pc # "status"
    BY <2>1, <2>2 DEF GoTo
  <2>3. CASE Finish(p, o) /\ pc = "status"
    BY <2>1, <2>3 DEF Finish
  <2>. QED  BY <2>2, <2>3
<1>2. \A q \in Process \ {p} : proc[q] = Idle
  BY DEF HistoryInv, RefreshInv, ProcsInv, Alone
<1>3. \A q \in Process : proc'[q] # Idle => q = p
  BY <1>1, <1>2
<1>4. proc'[p].pc = pc /\ (pc = "status" => proc'[p].outcome = o)
  BY <1>1
<1>. QED  BY <1>3, <1>4, Zenon DEF LastFate

\* A run that ends, or dies, leaves none under way.
LEMMA NoneUnderWay ==
  ASSUME HistoryInv, NEW p \in Process, proc[p] # Idle, proc' = [proc EXCEPT ![p] = Idle]
  PROVE  LastFate'
<1>1. \A q \in Process : proc'[q] = Idle
  BY DEF HistoryInv, RefreshInv, ProcsInv, Alone
<1>. QED  BY <1>1 DEF LastFate

\* A step that writes no file makes none untrue.
LEMMA FatesUntouched == HistoryInv /\ UNCHANGED <<dirs, log, captures>> => Fates'
  BY DEF HistoryInv, Fates, Run

LEMMA HistoryInitially == Init => HistoryInv
<1>. SUFFICES ASSUME Init PROVE HistoryInv
  OBVIOUS
<1>1. RefreshInv
  BY RefreshInitially
<1>2. Run = {} /\ captures = {} /\ \A p \in Process : proc[p] = Idle
  BY DEF Init, Run
<1>. QED  BY <1>1, <1>2 DEF HistoryInv, Fates, LastFate, BoardsOK

\* A promotion is of the last run, which was promoted by no one before.
LEMMA PublishKeepsFates ==
  ASSUME HistoryInv, NEW p \in Process, PublishProduct(p)
  PROVE  Fates' /\ LastFate'
<1>1. /\ proc[p] # Idle /\ proc[p].run = Len(dirs) /\ Len(dirs) \in Nat /\ Len(dirs) > 0
  BY UnderWay DEF PublishProduct, Stages, HistoryInv
<1>2. UNCHANGED <<dirs, captures>> /\ proc[p].pc = "publish"
  BY DEF PublishProduct
<1>3. /\ dirs[Len(dirs)].status = "none" /\ dirs[Len(dirs)].proof = TRUE
      /\ Len(dirs) \notin ToSet(log)
  BY <1>1, <1>2 DEF HistoryInv, LastFate
<1>4. CASE log' = Append(log, proc[p].run) /\ (GoTo(p, "capture") \/ Finish(p, "PUBLICATION_FAILED"))
  <2>1. ToSet(log') = ToSet(log) \cup {Len(dirs)}
    <3>1. log \in Seq(Nat) /\ Len(log) \in Nat /\ log' = Append(log, Len(dirs)) /\ Len(dirs) \in Nat
      BY <1>1, <1>4 DEF HistoryInv, RefreshInv, FilesInv, LogOK
    <3>2. /\ Len(log') = Len(log) + 1 /\ log'[Len(log) + 1] = Len(dirs)
          /\ \A m \in 1..Len(log) : log'[m] = log[m]
          /\ DOMAIN log' = 1..(Len(log) + 1) /\ DOMAIN log = 1..Len(log)
      BY <3>1
    <3>3. DOMAIN log' = DOMAIN log \cup {Len(log) + 1} /\ Len(log) + 1 \notin DOMAIN log
      BY <3>1, <3>2
    <3>. QED  BY <3>2, <3>3 DEF ToSet
  <2>2. Fates'
    <3>1. Run' = Run /\ dirs' = dirs /\ captures' = captures
      BY <1>2 DEF Run
    <3>2. \A i \in Run : /\ dirs[i].status = "SUCCESS" => i \in ToSet(log)
                         /\ dirs[i].status = "UNPUBLISHED" => i \notin ToSet(log)
                         /\ i \in ToSet(log) => dirs[i].proof = TRUE
      BY DEF HistoryInv, Fates
    <3>3. captures \subseteq ToSet(log)
      BY DEF HistoryInv, Fates
    <3>. QED  BY <1>3, <2>1, <3>1, <3>2, <3>3 DEF Fates
  <2>3. LastFate'
    <3>1. Len(dirs') = Len(dirs) /\ dirs'[Len(dirs)].status = "none"
          /\ Len(dirs) \in ToSet(log')
      BY <1>2, <1>3, <2>1
    <3>2. CASE GoTo(p, "capture")
      BY <1>1, <3>1, <3>2, FateMoves DEF Stages, Outcomes
    <3>3. CASE Finish(p, "PUBLICATION_FAILED")
      BY <1>1, <3>1, <3>3, FateMoves DEF Stages, Outcomes
    <3>. QED  BY <1>4, <3>2, <3>3
  <2>. QED  BY <2>2, <2>3
<1>5. CASE UNCHANGED log /\ Finish(p, "PUBLICATION_FAILED")
  BY <1>1, <1>2, <1>3, <1>5, FateMoves, FatesUntouched DEF Stages, Outcomes
<1>. QED  BY <1>4, <1>5 DEF PublishProduct

LEMMA HistoryKeeps == HistoryInv /\ [Next]_vars => HistoryInv'
<1>. SUFFICES ASSUME HistoryInv, [Next]_vars PROVE Fates' /\ LastFate' /\ BoardsOK'
  BY RefreshKeeps DEF HistoryInv
<1>0. RefreshInv
  BY DEF HistoryInv
<1>1. CASE Tick
  <2>1. proc' = [p \in Process |-> IF proc[p] = Idle THEN Idle
                                   ELSE [proc[p] EXCEPT !.ticked = TRUE]]
    BY <1>1 DEF Tick
  <2>2. \A p \in Process : proc'[p] # Idle =>
          proc[p] # Idle /\ proc'[p].pc = proc[p].pc /\ proc'[p].outcome = proc[p].outcome
    BY <1>0, <2>1 DEF RefreshInv, ProcsInv
  <2>3. UNCHANGED <<dirs, log, captures>>
    BY <1>1 DEF Tick
  <2>4. LastFate'
    BY <2>2, <2>3 DEF HistoryInv, LastFate
  <2>. QED  BY <2>3, <2>4, FatesUntouched, BoardsUntouched
<1>2. ASSUME NEW p \in Process, Begin(p) PROVE Fates' /\ LastFate' /\ BoardsOK'
  <2>1. /\ BoardsOK' /\ Len(dirs') = Len(dirs) + 1
        /\ \A i \in 1..Len(dirs) : dirs'[i] = dirs[i]
        /\ dirs'[Len(dirs) + 1].status = "none"
    BY <1>2, BeginKeepsBoards
  <2>2. Len(dirs) \in Nat /\ UNCHANGED <<log, captures>>
    BY <1>0, <1>2 DEF Begin, RefreshInv, FilesInv, DirsOK
  <2>3. Len(dirs) + 1 \notin ToSet(log)
    BY <1>0, <2>2, Promotions DEF Run
  <2>4. \A i \in Run' : i = Len(dirs) + 1 \/ (i \in Run /\ dirs'[i] = dirs[i])
    BY <2>1, <2>2 DEF Run
  <2>5. Fates'
    BY <2>1, <2>2, <2>3, <2>4 DEF HistoryInv, Fates
  <2>6. \A q \in Process : proc'[q] # Idle => proc'[q].pc = "gates"
    BY <1>0, <1>2, SeasonAssumption DEF Begin, RefreshInv, ProcsInv, Alone
  <2>7. LastFate'
    BY <2>1, <2>2, <2>3, <2>6 DEF LastFate
  <2>. QED  BY <2>1, <2>5, <2>7
<1>3. ASSUME NEW p \in Process, Gates(p) PROVE Fates' /\ LastFate' /\ BoardsOK'
  <2>1. proc[p] # Idle /\ UNCHANGED <<dirs, log, captures>>
    BY <1>0, <1>3, UnderWay DEF Gates, Stages
  <2>2. dirs[Len(dirs)].status = "none" /\ Len(dirs) \notin ToSet(log)
    BY <1>3, <2>1 DEF Gates, HistoryInv, LastFate
  <2>3. CASE GoTo(p, "selector")
    BY <2>1, <2>2, <2>3, FateMoves, FatesUntouched, BoardsUntouched DEF Stages, Outcomes
  <2>4. CASE Finish(p, "UNPUBLISHED")
    BY <2>1, <2>2, <2>4, FateMoves, FatesUntouched, BoardsUntouched DEF Stages, Outcomes
  <2>. QED  BY <1>3, <2>3, <2>4 DEF Gates
<1>4. ASSUME NEW p \in Process, Selector(p) PROVE Fates' /\ LastFate' /\ BoardsOK'
  <2>1. proc[p] # Idle /\ UNCHANGED <<log, captures>> /\ BoardsOK'
    BY <1>0, <1>4, UnderWay, SelectorKeepsBoards DEF Selector, Stages
  <2>2. dirs[Len(dirs)].status = "none" /\ Len(dirs) \notin ToSet(log)
    BY <1>4, <2>1 DEF Selector, HistoryInv, LastFate
  <2>3. CASE UNCHANGED dirs /\ Finish(p, "UNPUBLISHED")
    BY <2>1, <2>2, <2>3, FateMoves, FatesUntouched DEF Stages, Outcomes
  <2>4. ASSUME NEW v, SetDir(p, "boards", v), GoTo(p, "market") PROVE Fates' /\ LastFate'
    <3>1. Fates' /\ Len(dirs') = Len(dirs) /\ dirs'[Len(dirs)].status = "none"
      BY <2>1, <2>4, FatesKept DEF Fields
    <3>. QED  BY <2>1, <2>2, <2>4, <3>1, FateMoves DEF Stages, Outcomes
  <2>. QED  BY <1>4, <2>1, <2>3, <2>4 DEF Selector
<1>5. ASSUME NEW p \in Process, Market(p) PROVE Fates' /\ LastFate' /\ BoardsOK'
  <2>1. proc[p] # Idle /\ UNCHANGED <<log, captures>>
    BY <1>0, <1>5, UnderWay DEF Market, Stages
  <2>2. dirs[Len(dirs)].status = "none" /\ Len(dirs) \notin ToSet(log)
    BY <1>5, <2>1 DEF Market, HistoryInv, LastFate
  <2>3. CASE UNCHANGED dirs /\ Finish(p, "UNPUBLISHED")
    BY <2>1, <2>2, <2>3, FateMoves, FatesUntouched, BoardsUntouched DEF Stages, Outcomes
  <2>4. CASE SetDir(p, "captured", clock) /\ GoTo(p, "product")
    <3>1. Fates' /\ Len(dirs') = Len(dirs) /\ dirs'[Len(dirs)].status = "none"
      BY <2>1, <2>4, FatesKept DEF Fields
    <3>2. BoardsOK'
      BY <2>1, <2>4, BoardsKept DEF Fields
    <3>. QED  BY <2>1, <2>2, <2>4, <3>1, <3>2, FateMoves DEF Stages, Outcomes
  <2>. QED  BY <1>5, <2>3, <2>4 DEF Market
<1>6. ASSUME NEW p \in Process, Product(p) PROVE Fates' /\ LastFate' /\ BoardsOK'
  <2>1. proc[p] # Idle /\ UNCHANGED <<log, captures>>
    BY <1>0, <1>6, UnderWay DEF Product, Stages
  <2>2. dirs[Len(dirs)].status = "none" /\ Len(dirs) \notin ToSet(log)
    BY <1>6, <2>1 DEF Product, HistoryInv, LastFate
  <2>3. CASE UNCHANGED dirs /\ Finish(p, "UNPUBLISHED")
    BY <2>1, <2>2, <2>3, FateMoves, FatesUntouched, BoardsUntouched DEF Stages, Outcomes
  <2>4. CASE SetDir(p, "proof", TRUE) /\ GoTo(p, "publish")
    <3>1. /\ Fates' /\ Len(dirs') = Len(dirs) /\ dirs'[Len(dirs)].status = "none"
          /\ dirs'[Len(dirs)].proof = TRUE
      BY <2>1, <2>4, FatesKept DEF Fields
    <3>2. BoardsOK'
      BY <2>1, <2>4, BoardsKept DEF Fields
    <3>. QED  BY <2>1, <2>2, <2>4, <3>1, <3>2, FateMoves DEF Stages, Outcomes
  <2>. QED  BY <1>6, <2>3, <2>4 DEF Product
<1>7. ASSUME NEW p \in Process, PublishProduct(p) PROVE Fates' /\ LastFate' /\ BoardsOK'
  BY <1>7, PublishKeepsFates, BoardsUntouched DEF PublishProduct
<1>8. ASSUME NEW p \in Process, Capture(p) PROVE Fates' /\ LastFate' /\ BoardsOK'
  <2>1. proc[p] # Idle /\ UNCHANGED <<dirs, log>>
    BY <1>0, <1>8, UnderWay DEF Capture, Stages
  <2>2. dirs[Len(dirs)].status = "none" /\ Len(dirs) \in ToSet(log)
    BY <1>8, <2>1 DEF Capture, HistoryInv, LastFate
  <2>3. Last(log) \in ToSet(log)
    BY <1>0, <2>2 DEF Last, ToSet, RefreshInv, FilesInv, LogOK
  <2>4. Fates'
    BY <1>8, <2>1, <2>3 DEF Capture, HistoryInv, Fates, Run
  <2>5. LastFate'
    BY <1>8, <2>1, <2>2, FateMoves DEF Capture, Stages, Outcomes
  <2>. QED  BY <2>1, <2>4, <2>5, BoardsUntouched
<1>9. ASSUME NEW p \in Process, WriteStatus(p) PROVE Fates' /\ LastFate' /\ BoardsOK'
  <2>1. /\ proc[p] # Idle /\ proc[p].pc = "status" /\ UNCHANGED <<log, captures>>
        /\ SetDir(p, "status", proc[p].outcome) /\ proc' = [proc EXCEPT ![p] = Idle]
    BY <1>0, <1>9, UnderWay DEF WriteStatus, Stages
  <2>2. LastFate' /\ BoardsOK'
    BY <2>1, NoneUnderWay, BoardsKept DEF Fields
  <2>3. /\ proc[p].outcome = "SUCCESS" => Len(dirs) \in ToSet(log)
        /\ proc[p].outcome = "UNPUBLISHED" => Len(dirs) \notin ToSet(log)
    BY <2>1 DEF HistoryInv, LastFate
  <2>4. /\ Len(dirs) \in Nat /\ Len(dirs) > 0 /\ Len(dirs') = Len(dirs)
        /\ \A i \in 1..Len(dirs) : i < Len(dirs) => dirs'[i] = dirs[i]
        /\ dirs'[Len(dirs)].status = proc[p].outcome
        /\ dirs'[Len(dirs)].proof = dirs[Len(dirs)].proof
    BY <1>0, <2>1, LastWritten DEF Fields
  <2>5. Run' = Run /\ \A i \in Run : i = Len(dirs) \/ dirs'[i] = dirs[i]
    BY <2>4 DEF Run
  <2>6. Fates'
    <3>1. \A i \in Run : /\ dirs[i].status = "SUCCESS" => i \in ToSet(log)
                         /\ dirs[i].status = "UNPUBLISHED" => i \notin ToSet(log)
                         /\ i \in ToSet(log) => dirs[i].proof = TRUE
      BY DEF HistoryInv, Fates
    <3>2. captures \subseteq ToSet(log)
      BY DEF HistoryInv, Fates
    <3>. QED  BY <2>1, <2>3, <2>4, <2>5, <3>1, <3>2 DEF Fates
  <2>. QED  BY <2>2, <2>6
<1>10. ASSUME NEW p \in Process, Crash(p) PROVE Fates' /\ LastFate' /\ BoardsOK'
  BY <1>10, NoneUnderWay, FatesUntouched, BoardsUntouched DEF Crash
<1>11. CASE UNCHANGED vars
  <2>1. LastFate'
    BY <1>11 DEF vars, HistoryInv, LastFate
  <2>. QED  BY <1>11, <2>1, FatesUntouched, BoardsUntouched DEF vars
<1>. QED
  BY <1>1, <1>2, <1>3, <1>4, <1>5, <1>6, <1>7, <1>8, <1>9, <1>10, <1>11 DEF Next

\* However often a settled week is replayed, and whatever crashed or was published
\* meanwhile: every refresh replays the same runs of it.
THEOREM FinalBoards == Spec => []BoardsAreFinal
<1>1. HistoryInv => BoardsAreFinal
  <2>. SUFFICES ASSUME HistoryInv, NEW i \in Run, NEW j \in Run,
                       NEW n \in DOMAIN dirs[i].boards \cap DOMAIN dirs[j].boards
                PROVE  dirs[i].boards[n] = dirs[j].boards[n]
    BY DEF BoardsAreFinal
  <2> DEFINE games == GamesOf(SelectorTrustStart + n - 1)
             b == dirs[i].boards[n]
             c == dirs[j].boards[n]
  <2>1. /\ b \in [games -> Nat] /\ c \in [games -> Nat]
        /\ \A g \in games : IsLast(b[g], PregameRuns(g)) /\ IsLast(c[g], PregameRuns(g))
    BY DEF HistoryInv, BoardsOK
  <2>. HIDE DEF games, b, c
  <2>2. ASSUME NEW g \in games PROVE b[g] = c[g]
    <3>1. b[g] <= c[g] /\ c[g] <= b[g] /\ b[g] \in Nat /\ c[g] \in Nat
      BY <2>1 DEF IsLast
    <3>. QED  BY <3>1
  <2>3. b = c
    BY <2>1, <2>2
  <2>. QED  BY <2>3 DEF b, c
<1>. QED  BY <1>1, HistoryInitially, HistoryKeeps, PTL DEF Spec

\* What a board replays was published before its games were kicked off, and is the
\* last that was; and what the files of a run say of it is true.
THEOREM ServedBoards == Spec => []BoardsWereServed
<1>1. HistoryInv => BoardsWereServed
  <2>. SUFFICES ASSUME HistoryInv PROVE BoardsWereServed
    OBVIOUS
  <2>1. FilesAgree
    BY DEF HistoryInv, Fates, FilesAgree
  <2>2. ASSUME NEW i \in Run, NEW n \in DOMAIN dirs[i].boards,
               NEW g \in DOMAIN dirs[i].boards[n], NEW b, b = dirs[i].boards[n][g]
        PROVE  /\ b \in ToSet(log) /\ dirs[b].captured < Kickoff[g]
               /\ \A j \in ToSet(log) :
                    dirs[j].status = "SUCCESS" /\ dirs[j].week = WeekOf[g]
                    /\ dirs[j].captured < Kickoff[g] => j <= b
    <3>1. IsLast(b, PregameRuns(g))
      BY <2>2 DEF HistoryInv, BoardsOK
    <3>2. b \in Run /\ dirs[b].status = "SUCCESS" /\ dirs[b].captured < Kickoff[g]
      BY <3>1 DEF IsLast, PregameRuns, Trusted
    <3>3. b \in ToSet(log)
      BY <3>2 DEF HistoryInv, Fates
    <3>4. ASSUME NEW j \in ToSet(log), dirs[j].status = "SUCCESS",
                 dirs[j].week = WeekOf[g], dirs[j].captured < Kickoff[g]
          PROVE  j <= b
      <4>1. j \in Run /\ dirs[j].proof = TRUE
        BY <3>4, Promotions DEF HistoryInv, Fates
      <4>2. j \in PregameRuns(g)
        BY <3>4, <4>1, Zenon DEF PregameRuns, Trusted
      <4>. QED  BY <3>1, <4>2 DEF IsLast
    <3>. QED  BY <3>2, <3>3, <3>4
  <2>. QED  BY <2>1, <2>2 DEF BoardsWereServed
<1>. QED  BY <1>1, HistoryInitially, HistoryKeeps, PTL DEF Spec

=============================================================================
