--------------------------- MODULE NumbersProofs ---------------------------
(***************************************************************************)
(* The three parts of the way from a request to a conclusion that compute  *)
(* and keep nothing between them, for every value of their constants.      *)
(* Stabilization: the search behind TFS and TTR finds the first stable     *)
(* window, and a recovered run has stabilized.  Analysis: the Wilcoxon     *)
(* test only ever sees whole pairs, whatever cells are missing, and the    *)
(* correction rejects what Holm's step-down procedure rejects, whatever    *)
(* the p-values, ties among them included.                                 *)
(* ResponseContract: the category is that of ADR-004, and the parts of a   *)
(* response agree.                                                         *)
(*                                                                         *)
(* The invariant of the search says what the two counters of the loop      *)
(* mean: the last `streak` rows are a run of successes without a long gap, *)
(* and the row before them does not belong to it.  That of the pairing is  *)
(* why the two lists cannot agree in length by accident: a missing         *)
(* treatment number leaves the static list longer for good, and while they *)
(* are as long as each other they hold the same runs.  That of the         *)
(* contract is that a process answers from the switches it was accepted    *)
(* with; BuildTells then says what Build makes of the positions it counts. *)
(* The correction needs no invariant but an induction over its loop, which *)
(* rests on the least-number principle: a rank is a bijection, and the     *)
(* maximum over the ranks so far is small when each of them is.            *)
(***************************************************************************)
EXTENDS MCNumbers, FiniteSetTheorems, WellFoundedInduction, TLAPS

(* The stabilization search.                                               *)

TypeOK == /\ start \in [Metrics -> Nat]
          /\ log \in Seq(Row)
          /\ streak \in [Metrics -> Nat]
          /\ last_success_ts \in [Metrics -> Nat]
          /\ found \in [Metrics -> Nat]

(* The rows are in the order of their times. *)
Sorted == \A i, j \in 1..Len(log) : i <= j => log[i].ts <= log[j].ts

Good(m, i) == Counts(m, log[i]) /\ Succeeds(m, log[i])

Close(k) == log[k + 1].ts - log[k].ts <= MaxGap

(* While the loop of m runs: the last rows it took, and why no more. *)
Running(m) ==
  LET n == Len(log)
  IN /\ streak[m] < Window /\ streak[m] <= n
     /\ \A k \in 1..n : k + streak[m] > n => Good(m, k)
     /\ \A k \in 1..n - 1 : k + streak[m] > n => Close(k)
     /\ streak[m] = 0 => last_success_ts[m] = None
     /\ streak[m] > 0 => last_success_ts[m] = log[n].ts
     /\ \A k \in 1..n : k + streak[m] = n => ~Good(m, k) \/ (streak[m] > 0 /\ ~Close(k))
     /\ \A i \in 1..n : ~StableAt(m, i)

(* After its return. *)
Returned(m) == \E i \in 1..Len(log) : /\ StableAt(m, i)
                                      /\ found[m] = log[i].ts
                                      /\ \A j \in 1..i - 1 : ~StableAt(m, j)

LoopInv == /\ TypeOK
           /\ Sorted
           /\ \A m \in Metrics : IF found[m] = None THEN Running(m) ELSE Returned(m)

-----------------------------------------------------------------------------
LEMMA InitLoop == Init => LoopInv
<1> SUFFICES ASSUME Init PROVE LoopInv
  OBVIOUS
<1>1. TypeOK
  BY DEF Init, TypeOK, Time, None, Row
<1>2. \A m \in Metrics : Running(m)
  BY StabilizationAssumption DEF Init, Running, None
<1> QED BY <1>1, <1>2 DEF Init, LoopInv, Sorted

(* StableAt, over the rows and the pairs of rows of the log.               *)
LEMMA StableForm ==
  ASSUME LoopInv
  PROVE  \A m \in Metrics, i \in 1..Len(log) :
           StableAt(m, i) <=> /\ i >= Window
                              /\ \A k \in 1..i : k + Window > i => Good(m, k)
                              /\ \A k \in 1..i - 1 : k + Window > i => Close(k)
<1> SUFFICES ASSUME NEW m \in Metrics, NEW i \in 1..Len(log)
             PROVE  StableAt(m, i) <=> /\ i >= Window
                                       /\ \A k \in 1..i : k + Window > i => Good(m, k)
                                       /\ \A k \in 1..i - 1 : k + Window > i => Close(k)
  OBVIOUS
<1>0. i \in Nat /\ Window \in Nat \ {0}
  BY StabilizationAssumption DEF LoopInv, TypeOK
<1>1. i >= Window =>
        ((\A k \in (i - Window) + 1 .. i : Good(m, k)) <=> (\A k \in 1..i : k + Window > i => Good(m, k)))
  BY <1>0
<1>2. i >= Window =>
        ((\A k \in (i - Window) + 2 .. i : log[k].ts - log[k - 1].ts <= MaxGap)
           <=> (\A k \in 1..i - 1 : k + Window > i => Close(k)))
  <2>1. ASSUME i >= Window, \A k \in (i - Window) + 2 .. i : log[k].ts - log[k - 1].ts <= MaxGap,
               NEW k \in 1..i - 1, k + Window > i
        PROVE  Close(k)
    <3>1. k + 1 \in (i - Window) + 2 .. i /\ (k + 1) - 1 = k
      BY <1>0, <2>1
    <3>2. log[k + 1].ts - log[(k + 1) - 1].ts <= MaxGap
      BY <2>1, <3>1
    <3> QED BY <3>1, <3>2 DEF Close
  <2>2. ASSUME i >= Window, \A k \in 1..i - 1 : k + Window > i => Close(k),
               NEW k \in (i - Window) + 2 .. i
        PROVE  log[k].ts - log[k - 1].ts <= MaxGap
    <3>1. k - 1 \in 1..i - 1 /\ (k - 1) + Window > i /\ (k - 1) + 1 = k
      BY <1>0, <2>2
    <3>2. Close(k - 1)
      BY <2>2, <3>1
    <3> QED BY <3>1, <3>2 DEF Close
  <2> QED BY <2>1, <2>2
<1> QED BY <1>1, <1>2 DEF StableAt, Good

(* What a row does not change.                                             *)
LEMMA EarlierRows ==
  ASSUME LoopInv, NEW r \in Row, Read(r)
  PROVE  /\ Len(log') = Len(log) + 1
         /\ \A i \in 1..Len(log) : log'[i] = log[i]
         /\ log'[Len(log) + 1] = r
         /\ start' = start
         /\ TypeOK'
         /\ Sorted'
<1>0. /\ Len(log) \in Nat /\ r.ts \in Nat
      /\ \A k \in 1..Len(log) : log[k] \in Row /\ log[k].ts \in Nat
  BY DEF LoopInv, TypeOK, Row, Time
<1>1. /\ Len(log') = Len(log) + 1
      /\ \A i \in 1..Len(log) : log'[i] = log[i]
      /\ log'[Len(log) + 1] = r
      /\ log' \in Seq(Row)
      /\ start' = start
  BY DEF Read, LoopInv, TypeOK
<1>2. TypeOK'
  BY <1>0, <1>1 DEF LoopInv, TypeOK, Read, StreakWith, None
<1>3. Sorted'
  <2> SUFFICES ASSUME NEW i \in 1..Len(log'), NEW j \in 1..Len(log'), i <= j
               PROVE  log'[i].ts <= log'[j].ts
    BY DEF Sorted
  <2>1. CASE j <= Len(log)
    BY <1>0, <1>1, <2>1 DEF LoopInv, Sorted
  <2>2. CASE j = Len(log) + 1 /\ i <= Len(log)
    <3>1. log # <<>>
      BY <1>0, <2>2
    <3>2. log[i].ts <= log[Len(log)].ts /\ log[Len(log)].ts <= r.ts
      BY <1>0, <2>2, <3>1 DEF LoopInv, Sorted, Read
    <3> QED BY <1>0, <1>1, <2>2, <3>2
  <2>3. CASE i = Len(log) + 1 /\ j = Len(log) + 1
    BY <1>0, <1>1, <2>3
  <2> QED BY <1>0, <1>1, <2>1, <2>2, <2>3
<1> QED BY <1>1, <1>2, <1>3

(* Which rows are stable after the step: the earlier ones as before, and   *)
(* the new one when its window is.  The length is a constant n here, so    *)
(* that n + 1 names the same row before and after the step.                *)
LEMMA StableAfter ==
  ASSUME LoopInv, NEW r \in Row, Read(r), NEW n \in Nat, n = Len(log), NEW m \in Metrics
  PROVE  /\ \A k \in 1..n : Good(m, k)' <=> Good(m, k)
         /\ Good(m, n + 1)' <=> Counts(m, r) /\ Succeeds(m, r)
         /\ \A k \in 1..n - 1 : Close(k)' <=> Close(k)
         /\ n > 0 => (Close(n)' <=> r.ts - log[n].ts <= MaxGap)
         /\ \A i \in 1..n : StableAt(m, i)' <=> StableAt(m, i)
         /\ StableAt(m, n + 1)' <=> /\ n + 1 >= Window
                                    /\ \A k \in 1..n + 1 : k + Window > n + 1 => Good(m, k)'
                                    /\ \A k \in 1..n : k + Window > n + 1 => Close(k)'
<1>1. \A k \in 1..n : Good(m, k)' <=> Good(m, k)
  BY EarlierRows DEF Good, Counts, Succeeds
<1>2. Good(m, n + 1)' <=> Counts(m, r) /\ Succeeds(m, r)
  BY EarlierRows DEF Good, Counts, Succeeds
<1>3. \A k \in 1..n - 1 : Close(k)' <=> Close(k)
  BY EarlierRows DEF Close
<1>4. n > 0 => (Close(n)' <=> r.ts - log[n].ts <= MaxGap)
  BY EarlierRows DEF Close
<1>5. \A i \in 1..n : StableAt(m, i)' <=> StableAt(m, i)
  <2> SUFFICES ASSUME NEW i \in 1..n PROVE StableAt(m, i)' <=> StableAt(m, i)
    OBVIOUS
  <2>1. \A k \in (i - Window) + 1 .. i : i >= Window => log'[k] = log[k]
    BY StabilizationAssumption, EarlierRows
  <2>2. \A k \in (i - Window) + 2 .. i : i >= Window => log'[k] = log[k] /\ log'[k - 1] = log[k - 1]
    BY StabilizationAssumption, EarlierRows
  <2> QED BY <2>1, <2>2, EarlierRows DEF StableAt, Counts, Succeeds
<1>6. StableAt(m, n + 1)' <=> /\ n + 1 >= Window
                              /\ \A k \in 1..n + 1 : k + Window > n + 1 => Good(m, k)'
                              /\ \A k \in 1..n : k + Window > n + 1 => Close(k)'
  <2>0. Window \in Nat \ {0}
    BY StabilizationAssumption
  <2>1. n + 1 >= Window =>
          ((\A k \in ((n + 1) - Window) + 1 .. n + 1 : Good(m, k)')
             <=> (\A k \in 1..n + 1 : k + Window > n + 1 => Good(m, k)'))
    BY <2>0
  <2>2. n + 1 >= Window =>
          ((\A k \in ((n + 1) - Window) + 2 .. n + 1 : log'[k].ts - log'[k - 1].ts <= MaxGap)
             <=> (\A k \in 1..n : k + Window > n + 1 => Close(k)'))
    <3>1. ASSUME n + 1 >= Window, NEW k \in 1..n, k + Window > n + 1,
                 \A l \in ((n + 1) - Window) + 2 .. n + 1 : log'[l].ts - log'[l - 1].ts <= MaxGap
          PROVE  Close(k)'
      <4>1. k + 1 \in ((n + 1) - Window) + 2 .. n + 1 /\ (k + 1) - 1 = k
        BY <2>0, <3>1
      <4>2. log'[k + 1].ts - log'[(k + 1) - 1].ts <= MaxGap
        BY <3>1, <4>1
      <4> QED BY <4>1, <4>2 DEF Close
    <3>2. ASSUME n + 1 >= Window, \A l \in 1..n : l + Window > n + 1 => Close(l)',
                 NEW k \in ((n + 1) - Window) + 2 .. n + 1
          PROVE  log'[k].ts - log'[k - 1].ts <= MaxGap
      <4>1. k - 1 \in 1..n /\ (k - 1) + Window > n + 1 /\ (k - 1) + 1 = k
        BY <2>0, <3>2
      <4>2. Close(k - 1)'
        BY <3>2, <4>1
      <4> QED BY <4>1, <4>2 DEF Close
    <3> QED BY <3>1, <3>2
  <2>3. StableAt(m, n + 1)' <=>
          /\ n + 1 >= Window
          /\ \A k \in ((n + 1) - Window) + 1 .. n + 1 : Good(m, k)'
          /\ \A k \in ((n + 1) - Window) + 2 .. n + 1 : log'[k].ts - log'[k - 1].ts <= MaxGap
    BY DEF StableAt, Good
  <2> QED BY <2>1, <2>2, <2>3
<1> QED BY <1>1, <1>2, <1>3, <1>4, <1>5, <1>6

(* One turn of the loop.  The interesting case is a successful row: q is   *)
(* the new streak, and the rows it covers are what the definition asks.    *)
LEMMA StepLoop ==
  ASSUME LoopInv, NEW r \in Row, Read(r)
  PROVE  LoopInv'
<1>n. PICK n \in Nat : n = Len(log)
  BY DEF LoopInv, TypeOK
<1>0. /\ Len(log') = n + 1 /\ r.ts \in Nat /\ r.ts # None
      /\ \A k \in 1..n : log'[k] = log[k] /\ log[k].ts \in Nat /\ log[k].ts # None
      /\ log'[n + 1] = r
      /\ Window \in Nat \ {0} /\ MaxGap \in Nat
  <2>1. \A k \in 1..n : log[k].ts \in Nat /\ log[k].ts # None
    BY <1>n DEF LoopInv, TypeOK, Row, Time, None
  <2>2. r.ts \in Nat /\ r.ts # None
    BY DEF Row, Time, None
  <2> QED BY <1>n, <2>1, <2>2, EarlierRows, StabilizationAssumption
<1>2. ASSUME NEW m \in Metrics
      PROVE  IF found'[m] = None THEN Running(m)' ELSE Returned(m)'
  <2>0. streak[m] \in Nat /\ last_success_ts[m] \in Nat
    BY DEF LoopInv, TypeOK
  <2>1. CASE found[m] # None
    <3>1. found'[m] = found[m]
      BY <2>1 DEF Read, Takes
    <3>2. PICK i \in 1..n : StableAt(m, i) /\ found[m] = log[i].ts /\ \A j \in 1..i - 1 : ~StableAt(m, j)
      BY <1>n, <2>1 DEF LoopInv, Returned
    <3>3. StableAt(m, i)' /\ \A j \in 1..i - 1 : ~StableAt(m, j)'
      BY <1>n, <3>2, StableAfter
    <3>4. Returned(m)'
      BY <1>0, <3>1, <3>2, <3>3 DEF Returned
    <3> QED BY <2>1, <3>1, <3>4
  <2>2. CASE found[m] = None /\ ~(Counts(m, r) /\ Succeeds(m, r))
    <3>1. Running(m)
      BY <2>2 DEF LoopInv
    <3>2. found'[m] = None
      BY <2>2 DEF Read, Takes, None
    <3>3. streak'[m] = 0 /\ last_success_ts'[m] = None
      <4>1. CASE Counts(m, r)
        BY <2>2, <4>1 DEF Read, Takes
      <4>2. CASE ~Counts(m, r)
        <5>1. streak[m] = 0
          <6> SUFFICES ASSUME streak[m] > 0 PROVE FALSE
            BY <2>0
          <6>1. n > 0 /\ Good(m, n) /\ log[n].ts <= r.ts
            BY <1>n, <2>0, <3>1 DEF Running, Read
          <6>2. start[m] \in Nat
            BY DEF LoopInv, TypeOK
          <6> QED BY <1>0, <4>2, <6>1, <6>2 DEF Good, Counts
        <5> QED BY <2>2, <3>1, <4>2, <5>1 DEF Read, Takes, Running
      <4> QED BY <4>1, <4>2
    <3>4. ~Good(m, n + 1)' /\ ~StableAt(m, n + 1)'
      BY <1>n, <1>0, <2>2, StableAfter
    <3>5. \A i \in 1..n + 1 : ~StableAt(m, i)'
      BY <1>n, <3>1, <3>4, StableAfter DEF Running
    <3>6. Running(m)'
      BY <1>0, <3>3, <3>4, <3>5 DEF Running
    <3> QED BY <3>2, <3>6
  <2>3. CASE found[m] = None /\ Counts(m, r) /\ Succeeds(m, r)
    <3>1. Running(m)
      BY <2>3 DEF LoopInv
    <3>q. StreakWith(m, r) \in 1..n + 1
      BY <1>n, <2>0, <3>1 DEF StreakWith, Running
    <3>2. PICK q \in 1..n + 1 : q = StreakWith(m, r)
      BY <3>q
    <3>3. streak'[m] = q /\ last_success_ts'[m] = r.ts
      BY <2>3, <3>2 DEF Read, Takes
    <3>g. Good(m, n + 1)'
      BY <1>n, <2>3, StableAfter
    <3>4. /\ \A k \in 1..n + 1 : k + q > n + 1 => Good(m, k)'
          /\ \A k \in 1..n : k + q > n + 1 => Close(k)'
          /\ \A k \in 1..n : k + q = n + 1 => ~Good(m, k)' \/ ~Close(k)'
      <4>1. CASE last_success_ts[m] # None /\ r.ts - last_success_ts[m] > MaxGap
        <5>1. q = 1 /\ n > 0 /\ r.ts - log[n].ts > MaxGap
          BY <1>n, <2>0, <3>1, <3>2, <4>1 DEF StreakWith, Running
        <5>2. ~Close(n)'
          BY <1>n, <1>0, <5>1, StableAfter
        <5>3. \A k \in 1..n + 1 : (k + q > n + 1 => k = n + 1) /\ (k + q = n + 1 => k = n)
          BY <5>1
        <5>4. \A k \in 1..n : ~(k + q > n + 1)
          BY <5>1
        <5> QED BY <3>g, <5>2, <5>3, <5>4
      <4>2. CASE ~(last_success_ts[m] # None /\ r.ts - last_success_ts[m] > MaxGap)
        <5>1. q = streak[m] + 1
          BY <3>2, <4>2 DEF StreakWith
        <5>2. streak[m] > 0 => n > 0 /\ Close(n)'
          <6> SUFFICES ASSUME streak[m] > 0 PROVE n > 0 /\ Close(n)'
            OBVIOUS
          <6>1. n > 0 /\ last_success_ts[m] = log[n].ts
            BY <1>n, <2>0, <3>1 DEF Running
          <6>2. r.ts - log[n].ts <= MaxGap
            BY <1>0, <4>2, <6>1
          <6> QED BY <1>n, <6>1, <6>2, StableAfter
        <5>3. \A k \in 1..n + 1 : k + q > n + 1 => Good(m, k)'
          <6>1. \A k \in 1..n : k + q > n + 1 => k + streak[m] > n
            BY <2>0, <5>1
          <6>2. \A k \in 1..n : k + streak[m] > n => Good(m, k)'
            BY <1>n, <3>1, StableAfter DEF Running
          <6> QED BY <3>g, <6>1, <6>2
        <5>4. \A k \in 1..n : k + q > n + 1 => Close(k)'
          <6>1. \A k \in 1..n : k + q > n + 1 => k + streak[m] > n /\ (k = n => streak[m] > 0)
            BY <2>0, <5>1
          <6>2. \A k \in 1..n - 1 : k + streak[m] > n => Close(k)'
            BY <1>n, <3>1, StableAfter DEF Running
          <6> QED BY <5>2, <6>1, <6>2
        <5>5. \A k \in 1..n : k + q = n + 1 => ~Good(m, k)' \/ ~Close(k)'
          <6>1. \A k \in 1..n : k + q = n + 1 => k + streak[m] = n
            BY <2>0, <5>1
          <6>2. \A k \in 1..n : k + streak[m] = n => ~Good(m, k) \/ (streak[m] > 0 /\ ~Close(k))
            BY <1>n, <3>1 DEF Running
          <6>3. \A k \in 1..n : k + streak[m] = n /\ streak[m] > 0 => k \in 1..n - 1
            BY <2>0
          <6> QED BY <1>n, <6>1, <6>2, <6>3, StableAfter
        <5> QED BY <5>3, <5>4, <5>5
      <4> QED BY <4>1, <4>2
    <3>5. CASE q >= Window
      <4>1. found'[m] = r.ts
        BY <2>3, <3>2, <3>5 DEF Read, Takes
      <4>2. StableAt(m, n + 1)'
        <5>1. n + 1 >= Window
          BY <1>0, <3>5
        <5>2. \A k \in 1..n + 1 : k + Window > n + 1 => k + q > n + 1
          BY <1>0, <3>5
        <5> QED BY <1>n, <3>4, <5>1, <5>2, StableAfter
      <4>3. \A j \in 1..n : ~StableAt(m, j)'
        BY <1>n, <3>1, StableAfter DEF Running
      <4>4. Returned(m)'
        BY <1>0, <4>1, <4>2, <4>3 DEF Returned
      <4> QED BY <1>0, <4>1, <4>4
    <3>6. CASE q < Window
      <4>1. found'[m] = None
        BY <1>0, <2>3, <3>2, <3>6 DEF Read, Takes, None
      <4>2. ~StableAt(m, n + 1)'
        <5> SUFFICES ASSUME StableAt(m, n + 1)' PROVE FALSE
          OBVIOUS
        <5>0. (n + 1) - q \in Nat /\ ((n + 1) - q) + q = n + 1
          BY <3>2
        <5>1. PICK k \in Nat : k + q = n + 1
          BY <5>0
        <5>2. n + 1 >= Window
          BY <1>n, StableAfter
        <5>3. k \in 1..n /\ k + Window > n + 1
          BY <1>0, <3>2, <3>6, <5>1, <5>2
        <5>4. Good(m, k)' /\ Close(k)'
          BY <1>n, <5>3, StableAfter
        <5> QED BY <3>4, <5>1, <5>3, <5>4
      <4>3. \A i \in 1..n + 1 : ~StableAt(m, i)'
        BY <1>n, <3>1, <4>2, StableAfter DEF Running
      <4>4. Running(m)'
        BY <1>0, <3>2, <3>3, <3>4, <3>6, <4>3 DEF Running
      <4> QED BY <4>1, <4>4
    <3> QED BY <1>0, <3>2, <3>5, <3>6
  <2> QED BY <2>1, <2>2, <2>3
<1> QED BY <1>2, EarlierRows DEF LoopInv

(* The invariant holds of every run's log, whatever the window and gap.    *)
THEOREM LoopInvariant == Spec => []LoopInv
<1>1. LoopInv /\ UNCHANGED vars => LoopInv'
  BY DEF LoopInv, TypeOK, Sorted, Running, Returned, Good, Close, StableAt, Counts, Succeeds, vars
<1>2. LoopInv /\ [Next]_vars => LoopInv'
  BY <1>1, StepLoop DEF Next
<1> QED BY <1>2, InitLoop, PTL DEF Spec

(* find_stabilization_point returns the end of the first stable window,    *)
(* and nothing when there is none.                                         *)
THEOREM FirstWindowFound == Spec => []FindsFirstWindow
<1>1. LoopInv => FindsFirstWindow
  <2> SUFFICES ASSUME LoopInv, NEW m \in Metrics
               PROVE  LET stable == {i \in 1..Len(log) : StableAt(m, i)}
                      IN found[m] = IF stable = {} THEN None
                           ELSE log[CHOOSE i \in stable : \A j \in stable : i <= j].ts
    BY DEF FindsFirstWindow
  <2> DEFINE stable == {i \in 1..Len(log) : StableAt(m, i)}
  <2>1. CASE found[m] = None
    <3>1. Running(m)
      BY <2>1 DEF LoopInv
    <3>2. stable = {}
      BY <3>1 DEF Running
    <3> QED BY <2>1, <3>2
  <2>2. CASE found[m] # None
    <3>1. PICK i \in 1..Len(log) : /\ StableAt(m, i) /\ found[m] = log[i].ts
                                   /\ \A j \in 1..i - 1 : ~StableAt(m, j)
      BY <2>2 DEF LoopInv, Returned
    <3>2. i \in stable /\ \A j \in stable : i <= j
      BY <3>1 DEF LoopInv, TypeOK
    <3> DEFINE c == CHOOSE k \in stable : \A j \in stable : k <= j
    <3>3. c \in stable /\ \A j \in stable : c <= j
      BY <3>2
    <3>4. c = i
      <4>1. c <= i /\ i <= c /\ c \in Nat /\ i \in Nat
        BY <3>2, <3>3 DEF LoopInv, TypeOK
      <4> QED BY <4>1
    <3> QED BY <3>1, <3>2, <3>4
  <2> QED BY <2>1, <2>2
<1> QED BY <1>1, LoopInvariant, PTL

(* A run that has recovered has stabilized, no later.                      *)
THEOREM RecoveryImpliesStability == Spec => []RecoveredMeansStabilized
<1>1. LoopInv => RecoveredMeansStabilized
  <2> SUFFICES ASSUME LoopInv, found["ttr"] # None, start["tfs"] # None,
                      start["tfs"] <= start["ttr"]
               PROVE  found["tfs"] # None /\ found["tfs"] <= found["ttr"]
    BY DEF RecoveredMeansStabilized
  <2>0. "tfs" \in Metrics /\ "ttr" \in Metrics
    BY DEF Metrics
  <2>1. PICK i \in 1..Len(log) : StableAt("ttr", i) /\ found["ttr"] = log[i].ts
    BY <2>0 DEF LoopInv, Returned
  <2>2. /\ \A k \in 1..Len(log) : log[k] \in Row /\ log[k].ts \in Nat
        /\ start["tfs"] \in Nat /\ start["ttr"] \in Nat /\ Window \in Nat \ {0}
        /\ Len(log) \in Nat
    BY <2>0, StabilizationAssumption DEF LoopInv, TypeOK, Row, Time
  <2>3. \A k \in 1..Len(log) : Counts("ttr", log[k]) /\ Succeeds("ttr", log[k])
                                => Counts("tfs", log[k]) /\ Succeeds("tfs", log[k])
    BY <2>2 DEF Counts, Succeeds
  <2>4. StableAt("tfs", i)
    BY <2>1, <2>2, <2>3 DEF StableAt
  <2>5. found["tfs"] # None
    <3> SUFFICES ASSUME found["tfs"] = None PROVE FALSE
      OBVIOUS
    <3>1. Running("tfs")
      BY <2>0 DEF LoopInv
    <3> QED BY <2>4, <3>1 DEF Running
  <2>6. PICK j \in 1..Len(log) : /\ found["tfs"] = log[j].ts
                                 /\ \A k \in 1..j - 1 : ~StableAt("tfs", k)
    BY <2>0, <2>5 DEF LoopInv, Returned
  <2>7. j <= i
    BY <2>2, <2>4, <2>6
  <2> QED BY <2>1, <2>5, <2>6, <2>7 DEF LoopInv, Sorted
<1> QED BY <1>1, LoopInvariant, PTL

-----------------------------------------------------------------------------
(* The pairing of the runs.                                                *)

Common == rows["static_resilience"] \cap rows["treatment"]
Whole(S) == {n \in S : Sr(n) # Empty /\ Tr(n) # Empty}
Listed(s) == {s[i] : i \in 1..Len(s)}

ListsTyped == sr_paired \in Seq(Numbers) /\ tr_paired \in Seq(Numbers)

RowsTyped == rows \in [Conditions -> SUBSET Numbers] /\ test_records \in Seq(
               [method : {"wilcoxon", "mann_whitney"}, p : PValues \cup {Empty}])

Empties == sr_paired = <<>> /\ tr_paired = <<>>

InStep == /\ Len(tr_paired) <= Len(sr_paired)
          /\ Len(tr_paired) = Len(sr_paired) =>
               sr_paired = tr_paired /\ Listed(sr_paired) = Whole(Common \ todo)

Earned == test_records[Len(test_records)].method = "wilcoxon"
            /\ test_records[Len(test_records)].p # Empty => Len(sr_paired) = Len(tr_paired)

PairInv == /\ RowsTyped /\ ListsTyped
           /\ stage \in {"scenario", "metric"} => Empties
           /\ stage = "pair" => todo \subseteq Common /\ InStep
           /\ stage = "tested" => todo = {} /\ InStep /\ Earned

-----------------------------------------------------------------------------
LEMMA InitPairs == AnalysisInit => PairInv
  BY DEF AnalysisInit, PairInv, RowsTyped, ListsTyped, Empties, NoRows, Conditions

(* The loop's body: what is on the lists after one more run. *)
LEMMA StepPair ==
  ASSUME PairInv, PairRun
  PROVE  PairInv'
<1>1. PICK n \in todo : AppendPair(n) /\ todo' = todo \ {n}
  BY DEF PairRun
<1>2. /\ stage = "pair" /\ stage' = "pair" /\ rows' = rows /\ column' = column
      /\ test_records' = test_records
  BY DEF PairRun, results
<1>3. /\ todo \subseteq Common /\ InStep /\ RowsTyped /\ ListsTyped /\ n \in Numbers
  BY <1>2 DEF PairInv, RowsTyped, Common, Conditions
<1>4. RowsTyped' /\ ListsTyped' /\ Common' = Common /\ todo' \subseteq Common'
  BY <1>1, <1>2, <1>3 DEF RowsTyped, ListsTyped, AppendPair, Common
<1>5. InStep'
  <2>0. /\ Len(sr_paired) \in Nat /\ Len(tr_paired) \in Nat
        /\ Whole(Common \ todo)' = {k \in Common \ (todo \ {n}) : Sr(k) # Empty /\ Tr(k) # Empty}
    BY <1>1, <1>2, <1>3, <1>4 DEF ListsTyped, Whole, Sr, Tr
  <2>1. CASE Sr(n) = Empty
    <3>1. sr_paired' = sr_paired /\ tr_paired' = tr_paired
      BY <1>1, <2>1 DEF AppendPair
    <3>2. Whole(Common \ todo)' = Whole(Common \ todo)
      BY <2>0, <2>1 DEF Whole
    <3> QED BY <1>3, <3>1, <3>2 DEF InStep, Listed
  <2>2. CASE Sr(n) # Empty /\ Tr(n) = Empty
    <3>1. sr_paired' = Append(sr_paired, n) /\ tr_paired' = tr_paired
      BY <1>1, <2>2 DEF AppendPair
    <3>2. Len(sr_paired') = Len(sr_paired) + 1
      BY <1>3, <3>1 DEF ListsTyped
    <3> QED BY <1>3, <2>0, <3>1, <3>2 DEF InStep
  <2>3. CASE Sr(n) # Empty /\ Tr(n) # Empty
    <3>1. sr_paired' = Append(sr_paired, n) /\ tr_paired' = Append(tr_paired, n)
      BY <1>1, <2>3 DEF AppendPair
    <3>2. Len(sr_paired') = Len(sr_paired) + 1 /\ Len(tr_paired') = Len(tr_paired) + 1
      BY <1>3, <3>1 DEF ListsTyped
    <3>3. Listed(sr_paired') = Listed(sr_paired) \cup {n}
      BY <1>3, <3>1 DEF ListsTyped, Listed
    <3>4. Whole(Common \ todo)' = Whole(Common \ todo) \cup {n}
      BY <1>1, <1>3, <2>0, <2>3 DEF Whole
    <3>5. ASSUME Len(tr_paired') = Len(sr_paired')
          PROVE  sr_paired' = tr_paired' /\ Listed(sr_paired)' = Whole(Common \ todo)'
      <4>1. Len(tr_paired) = Len(sr_paired)
        BY <2>0, <3>2, <3>5
      <4>2. sr_paired = tr_paired /\ Listed(sr_paired) = Whole(Common \ todo)
        BY <1>3, <4>1 DEF InStep
      <4>3. Listed(sr_paired)' = Listed(sr_paired')
        BY DEF Listed
      <4> QED BY <3>1, <3>3, <3>4, <4>2, <4>3
    <3> QED BY <1>3, <2>0, <3>2, <3>5 DEF InStep
  <2> QED BY <2>1, <2>2, <2>3
<1> QED BY <1>2, <1>4, <1>5 DEF PairInv

LEMMA StepTest ==
  ASSUME PairInv, TestMetric
  PROVE  PairInv'
<1>1. /\ stage = "pair" /\ stage' = "tested" /\ todo = {} /\ todo' = todo /\ rows' = rows
      /\ column' = column /\ sr_paired' = sr_paired /\ tr_paired' = tr_paired
  BY DEF TestMetric, lists
<1>2. PICK p \in PValues \cup {Empty} :
        /\ test_records' = Append(test_records,
             [method |-> IF Len(sr_paired) < MinPairs THEN "mann_whitney" ELSE "wilcoxon", p |-> p])
        /\ p # Empty /\ ~(Len(sr_paired) < MinPairs) => WilcoxonRuns
  BY DEF TestMetric
<1>3. RowsTyped' /\ ListsTyped' /\ InStep'
  BY <1>1, <1>2 DEF PairInv, RowsTyped, ListsTyped, InStep, Listed, Whole, Common, Sr, Tr
<1>4. Earned'
  <2>1. test_records'[Len(test_records')] =
          [method |-> IF Len(sr_paired) < MinPairs THEN "mann_whitney" ELSE "wilcoxon", p |-> p]
    BY <1>2 DEF PairInv, RowsTyped
  <2> QED BY <1>1, <1>2, <2>1 DEF Earned, WilcoxonRuns
<1> QED BY <1>1, <1>3, <1>4 DEF PairInv

LEMMA StepPairInv == PairInv /\ [AnalysisNext]_analysis_vars => PairInv'
<1> SUFFICES ASSUME PairInv, [AnalysisNext]_analysis_vars PROVE PairInv'
  OBVIOUS
<1>1. CASE ReadScenario
  <2>1. /\ stage = "scenario" /\ stage' \in {"scenario", "metric"}
        /\ sr_paired' = sr_paired /\ tr_paired' = tr_paired /\ test_records' = test_records
        /\ rows' \in [Conditions -> SUBSET Numbers]
    BY <1>1 DEF ReadScenario, lists, results, PairInv, RowsTyped
  <2> QED BY <2>1 DEF PairInv, RowsTyped, ListsTyped, Empties
<1>2. CASE ReadMetric
  <2>1. /\ stage = "metric" /\ stage' = "pair" /\ rows' = rows /\ test_records' = test_records
        /\ sr_paired' = sr_paired /\ tr_paired' = tr_paired /\ todo' = Common
    BY <1>2 DEF ReadMetric, results, Common
  <2>2. sr_paired = <<>> /\ tr_paired = <<>>
    BY <2>1 DEF PairInv, Empties
  <2>3. InStep'
    BY <2>1, <2>2 DEF InStep, Listed, Whole, Common
  <2> QED BY <2>1, <2>3 DEF PairInv, RowsTyped, ListsTyped, Common
<1>3. CASE PairRun
  BY <1>3, StepPair
<1>4. CASE TestMetric
  BY <1>4, StepTest
<1>5. CASE NextMetric
  <2>1. /\ stage = "tested" /\ stage' \in {"metric", "scenario"} /\ sr_paired' = <<>>
        /\ tr_paired' = <<>> /\ test_records' = test_records
        /\ rows' \in [Conditions -> SUBSET Numbers]
    BY <1>5 DEF NextMetric, results, NoRows, PairInv, RowsTyped
  <2> QED BY <2>1 DEF PairInv, RowsTyped, ListsTyped, Empties
<1>6. CASE CorrectTests \/ WritePair
  <2>1. stage' \in {"paired", "done"} /\ UNCHANGED <<lists, test_records>>
    BY <1>6 DEF CorrectTests, WritePair, results
  <2> QED BY <2>1 DEF PairInv, RowsTyped, ListsTyped, lists
<1>7. CASE UNCHANGED analysis_vars
  BY <1>7 DEF analysis_vars, lists, results, PairInv, RowsTyped, ListsTyped, Empties, InStep,
              Listed, Whole, Common, Earned, Sr, Tr
<1> QED BY <1>1, <1>2, <1>3, <1>4, <1>5, <1>6, <1>7 DEF AnalysisNext

(* A Wilcoxon p-value comes from the whole pairs, all of them, each number *)
(* of a list beside the number of the same run.                            *)
THEOREM PairsAreMatched == AnalysisSpec => []PairsMatched
<1>1. PairInv => PairsMatched
  <2> SUFFICES ASSUME PairInv, stage = "tested", Len(sr_paired) = Len(tr_paired)
               PROVE  /\ sr_paired = tr_paired
                      /\ Listed(sr_paired) = Whole(Common)
    BY DEF PairInv, PairsMatched, Earned, Listed, Whole, Common
  <2> QED BY DEF PairInv, InStep
<1> QED BY <1>1, InitPairs, StepPairInv, PTL DEF AnalysisSpec
-----------------------------------------------------------------------------
(* Holm's correction.  The p-values that exist are ordered by value, ties  *)
(* by their place in the list; Earlier are the ones before the i-th.       *)
Earlier(p, i) == {j \in Valid(p) : p[j] < p[i] \/ (p[j] = p[i] /\ j < i)}
Ps == PValues \cup {Empty}
NValid(p) == Cardinality(Valid(p))

(* The i-th hypothesis passes at its rank. *)
Passes(p, i) == (Len(p) - Rank(p, i)) * p[i] <= Alpha
Below(p, j) == Cardinality({l \in Valid(p) : p[l] < p[j]})

LEMMA ValidValues ==
  ASSUME NEW p \in Seq(Ps)
  PROVE  /\ IsFiniteSet(Valid(p)) /\ NValid(p) \in Nat /\ Len(p) \in Nat
         /\ \A i \in Valid(p) : i \in 1..Len(p) /\ p[i] \in 1..One
         /\ NValid(p) <= Len(p)
<1>1. Len(p) \in Nat /\ IsFiniteSet(1..Len(p)) /\ Cardinality(1..Len(p)) = Len(p)
  <2>1. Len(p) \in Nat
    OBVIOUS
  <2> QED BY <2>1, FS_Interval
<1>2. Valid(p) \in SUBSET (1..Len(p))
  BY DEF Valid
<1>3. IsFiniteSet(Valid(p)) /\ NValid(p) <= Len(p)
  BY <1>1, <1>2, FS_Subset DEF NValid
<1>4. NValid(p) \in Nat
  BY <1>3, FS_CardinalityType DEF NValid
<1>5. ASSUME NEW i \in Valid(p) PROVE i \in 1..Len(p) /\ p[i] \in 1..One
  <2>1. i \in 1..Len(p) /\ p[i] \in Ps /\ p[i] # Empty
    BY DEF Valid
  <2>2. p[i] \in PValues
    BY <2>1 DEF Ps
  <2> QED BY <2>1, <2>2, AnalysisAssumption
<1> QED BY <1>1, <1>3, <1>4, <1>5

(* The rank is a bijection between them and 0..NValid-1. *)
LEMMA RankTyped ==
  ASSUME NEW p \in Seq(Ps), NEW i \in Valid(p)
  PROVE  /\ Earlier(p, i) \subseteq Valid(p) /\ IsFiniteSet(Earlier(p, i))
         /\ Rank(p, i) = Cardinality(Earlier(p, i))
         /\ Rank(p, i) \in 0..NValid(p) - 1
<1>1. Earlier(p, i) \in SUBSET (Valid(p) \ {i})
  BY ValidValues DEF Earlier
<1>2. IsFiniteSet(Valid(p)) /\ NValid(p) \in Nat
  BY ValidValues
<1>3. IsFiniteSet(Valid(p) \ {i}) /\ Cardinality(Valid(p) \ {i}) = NValid(p) - 1
  BY <1>2, FS_RemoveElement DEF NValid
<1>4. IsFiniteSet(Earlier(p, i)) /\ Cardinality(Earlier(p, i)) <= NValid(p) - 1
  BY <1>1, <1>3, FS_Subset
<1>5. Cardinality(Earlier(p, i)) \in Nat
  BY <1>4, FS_CardinalityType
<1> QED BY <1>1, <1>2, <1>4, <1>5 DEF Rank, Earlier

LEMMA RankOrders ==
  ASSUME NEW p \in Seq(Ps), NEW i \in Valid(p), NEW j \in Valid(p), j \in Earlier(p, i)
  PROVE  Rank(p, j) < Rank(p, i)
<1>1. \A l \in Valid(p) : l \in 1..Len(p) /\ p[l] \in 1..One
  BY ValidValues
<1>2. Earlier(p, j) \subseteq Earlier(p, i) /\ j \notin Earlier(p, j)
  BY <1>1 DEF Earlier
<1>3. IsFiniteSet(Earlier(p, i)) /\ IsFiniteSet(Earlier(p, j))
  BY RankTyped
<1>4. Cardinality(Earlier(p, j)) <= Cardinality(Earlier(p, i))
  BY <1>2, <1>3, FS_Subset
<1>5. Cardinality(Earlier(p, j)) # Cardinality(Earlier(p, i))
  BY <1>2, <1>3, FS_Subset
<1>6. Cardinality(Earlier(p, j)) \in Nat /\ Cardinality(Earlier(p, i)) \in Nat
  BY <1>3, FS_CardinalityType
<1> QED BY <1>4, <1>5, <1>6, RankTyped

LEMMA RankInjective ==
  ASSUME NEW p \in Seq(Ps), NEW i \in Valid(p), NEW j \in Valid(p), Rank(p, i) = Rank(p, j)
  PROVE  i = j
<1>1. i \in 1..Len(p) /\ j \in 1..Len(p) /\ p[i] \in 1..One /\ p[j] \in 1..One
  BY ValidValues
<1>2. i = j \/ i \in Earlier(p, j) \/ j \in Earlier(p, i)
  BY <1>1 DEF Earlier
<1>3. Rank(p, i) \in Int /\ Rank(p, j) \in Int
  BY RankTyped
<1> QED BY <1>2, <1>3, RankOrders

LEMMA RankOnto ==
  ASSUME NEW p \in Seq(Ps), NEW k \in 0..NValid(p) - 1
  PROVE  \E i \in Valid(p) : Rank(p, i) = k
<1> DEFINE f == [i \in Valid(p) |-> Rank(p, i)]
           T == 0..NValid(p) - 1
<1>1. NValid(p) \in Nat /\ IsFiniteSet(Valid(p))
  BY ValidValues
<1>2. IsFiniteSet(T) /\ Cardinality(T) = NValid(p)
  BY <1>1, FS_Interval
<1>3. f \in [Valid(p) -> T]
  BY RankTyped
<1>4. f \in Injection(Valid(p), T)
  BY <1>3, RankInjective DEF Injection, IsInjective
<1>5. f \in Surjection(Valid(p), T)
  <2> HIDE DEF f, T
  <2> QED BY <1>1, <1>2, <1>4, FS_Injection DEF NValid
<1> QED BY <1>5 DEF Surjection

-----------------------------------------------------------------------------
(* The least-number principle, and induction on numbers for a set: the     *)
(* only form of induction that needs no operator.                          *)
LEMMA LeastNumber ==
  ASSUME NEW T \in SUBSET Nat, T # {}
  PROVE  \E x \in T : \A y \in T : x <= y
<1> DEFINE R == {ss \in Nat \X Nat : ss[1] < ss[2]}
<1>1. IsWellFoundedOn(R, Nat)
  BY NatLessThanWellFounded DEF OpToRel
<1>2. PICK x \in T : \A y \in T : <<y, x>> \notin R
  <2> HIDE DEF R
  <2> QED BY <1>1, WFMin, Zenon
<1>3. \A y \in T : y \in Nat /\ x \in Nat /\ ~(y < x)
  BY <1>2
<1>4. \A y \in T : x <= y
  <2> HIDE DEF R
  <2> QED BY <1>3
<1> QED BY <1>4

LEMMA SetInduction ==
  ASSUME NEW P, 0 \in P, \A n \in Nat : n \in P => n + 1 \in P
  PROVE  \A n \in Nat : n \in P
<1> SUFFICES ASSUME NEW m \in Nat, m \notin P PROVE FALSE
  OBVIOUS
<1> DEFINE T == {n \in Nat : n \notin P}
<1>1. PICK x \in T : \A y \in T : x <= y
  <2>1. T \in SUBSET Nat /\ m \in T
    OBVIOUS
  <2> HIDE DEF T
  <2> QED BY <2>1, LeastNumber
<1>2. x # 0 /\ x - 1 \in Nat
  OBVIOUS
<1>3. x - 1 \in T
  BY <1>2
<1> QED BY <1>1, <1>3

(* The hypothesis of a rank, and its value before prev_adj. *)
Ranked(p, k) == CHOOSE i \in Valid(p) : Rank(p, i) = k
Alone(p, k) == Smaller(One, (Len(p) - k) * p[Ranked(p, k)])

LEMMA RankedIs ==
  ASSUME NEW p \in Seq(Ps)
  PROVE  /\ \A k \in 0..NValid(p) - 1 : Ranked(p, k) \in Valid(p) /\ Rank(p, Ranked(p, k)) = k
         /\ \A i \in Valid(p) : Ranked(p, Rank(p, i)) = i
<1>1. ASSUME NEW k \in 0..NValid(p) - 1 PROVE Ranked(p, k) \in Valid(p) /\ Rank(p, Ranked(p, k)) = k
  <2>1. \E i \in Valid(p) : Rank(p, i) = k
    BY RankOnto
  <2> QED BY <2>1 DEF Ranked
<1>2. ASSUME NEW i \in Valid(p) PROVE Ranked(p, Rank(p, i)) = i
  <2>1. Ranked(p, Rank(p, i)) \in Valid(p) /\ Rank(p, Ranked(p, Rank(p, i))) = Rank(p, i)
    BY <1>1, RankTyped
  <2> QED BY <2>1, RankInjective
<1> QED BY <1>1, <1>2

(* The loop over the ranks computes a function: it has one on 0..n - 1 for *)
(* every n, and so on all the ranks.                                       *)
LoopOver(p, n, g) == g = [k \in 0..n - 1 |-> IF k = 0 THEN Alone(p, k) ELSE Larger(Alone(p, k), g[k - 1])]

LEMMA LoopExists ==
  ASSUME NEW p
  PROVE  \A n \in Nat : \E g : LoopOver(p, n, g)
<1> DEFINE P == {n \in Nat : \E g : LoopOver(p, n, g)}
<1>1. 0 \in P
  <2> DEFINE g == [k \in {} |-> 0]
  <2>1. 0..0 - 1 = {}
    OBVIOUS
  <2>2. LoopOver(p, 0, g)
    BY <2>1 DEF LoopOver
  <2> QED BY <2>2
<1>2. ASSUME NEW n \in Nat, n \in P PROVE n + 1 \in P
  <2>1. PICK g : LoopOver(p, n, g)
    BY <1>2
  <2> DEFINE A(k) == Alone(p, k)
             h == [k \in 0..n |-> IF k = 0 THEN A(k) ELSE Larger(A(k), g[k - 1])]
  <2>2. \A k \in 0..n - 1 : h[k] = g[k]
    BY <2>1 DEF LoopOver
  <2>3. \A k \in 0..n : k # 0 => k - 1 \in 0..n - 1
    OBVIOUS
  <2>4. h = [k \in 0..n |-> IF k = 0 THEN A(k) ELSE Larger(A(k), h[k - 1])]
    BY <2>2, <2>3
  <2>5. 0..n = 0..(n + 1) - 1
    OBVIOUS
  <2> HIDE DEF h
  <2>6. LoopOver(p, n + 1, h)
    BY <2>4, <2>5 DEF LoopOver
  <2> QED BY <2>6
<1> HIDE DEF P
<1>3. \A n \in Nat : n \in P
  BY <1>1, <1>2, SetInduction
<1> QED BY <1>3 DEF P

LEMMA AdjustedUnfolds ==
  ASSUME NEW p \in Seq(Ps)
  PROVE  \A k \in 0..NValid(p) - 1 :
           Adjusted(p)[k] = IF k = 0 THEN Alone(p, k) ELSE Larger(Alone(p, k), Adjusted(p)[k - 1])
<1>1. \E g : LoopOver(p, NValid(p), g)
  BY LoopExists, ValidValues
<1>2. Adjusted(p) = CHOOSE g : LoopOver(p, NValid(p), g)
  BY DEF Adjusted, LoopOver, Alone, Ranked, NValid
<1>3. LoopOver(p, NValid(p), Adjusted(p))
  BY <1>1, <1>2
<1> QED BY <1>3 DEF LoopOver

(* What the loop's maximum says of one rank is said of all ranks up to it. *)
LEMMA AdjustedSmall ==
  ASSUME NEW p \in Seq(Ps)
  PROVE  \A k \in 0..NValid(p) - 1 :
           Adjusted(p)[k] <= Alpha <=> \A l \in 0..k : (Len(p) - l) * p[Ranked(p, l)] <= Alpha
<1> DEFINE A(k) == (Len(p) - k) * p[Ranked(p, k)]
           P == {k \in Nat : k \in 0..NValid(p) - 1 =>
                   /\ Adjusted(p)[k] \in Int
                   /\ Adjusted(p)[k] <= Alpha <=> \A l \in 0..k : A(l) <= Alpha}
<1>1. ASSUME NEW k \in 0..NValid(p) - 1
      PROVE  A(k) \in Int /\ Alone(p, k) \in Int /\ (Alone(p, k) <= Alpha <=> A(k) <= Alpha)
  <2>1. Ranked(p, k) \in Valid(p) /\ k \in Int /\ Len(p) \in Int
    BY RankedIs, ValidValues
  <2>2. p[Ranked(p, k)] \in Int
    BY <2>1, ValidValues, AnalysisAssumption
  <2>3. A(k) \in Int
    BY <2>1, <2>2
  <2>4. Alone(p, k) = IF One < A(k) THEN One ELSE A(k)
    BY DEF Alone, Smaller
  <2> HIDE DEF A
  <2> QED BY <2>3, <2>4, AnalysisAssumption
<1>2. 0 \in P
  <2> SUFFICES ASSUME 0 \in 0..NValid(p) - 1
               PROVE  Adjusted(p)[0] \in Int /\ (Adjusted(p)[0] <= Alpha <=> \A l \in 0..0 : A(l) <= Alpha)
    OBVIOUS
  <2>1. Adjusted(p)[0] = Alone(p, 0)
    BY AdjustedUnfolds
  <2>2. (\A l \in 0..0 : A(l) <= Alpha) <=> A(0) <= Alpha
    OBVIOUS
  <2> QED BY <1>1, <2>1, <2>2
<1>3. ASSUME NEW n \in Nat, n \in P PROVE n + 1 \in P
  <2> DEFINE k == n + 1
  <2> SUFFICES ASSUME k \in 0..NValid(p) - 1
               PROVE  Adjusted(p)[k] \in Int /\ (Adjusted(p)[k] <= Alpha <=> \A l \in 0..k : A(l) <= Alpha)
    OBVIOUS
  <2>0. NValid(p) \in Nat /\ n \in 0..NValid(p) - 1 /\ k # 0 /\ k - 1 = n /\ k \in Nat
    BY ValidValues
  <2>1. Adjusted(p)[n] \in Int /\ (Adjusted(p)[n] <= Alpha <=> \A l \in 0..n : A(l) <= Alpha)
    BY <1>3, <2>0
  <2>2. Adjusted(p)[k] = Larger(Alone(p, k), Adjusted(p)[n])
    BY <2>0, AdjustedUnfolds
  <2>3. A(k) \in Int /\ Alone(p, k) \in Int /\ (Alone(p, k) <= Alpha <=> A(k) <= Alpha)
    BY <1>1
  <2>4. Adjusted(p)[k] \in Int /\ (Adjusted(p)[k] <= Alpha <=> Alone(p, k) <= Alpha /\ Adjusted(p)[n] <= Alpha)
    BY <2>1, <2>2, <2>3, AnalysisAssumption DEF Larger
  <2>5. 0..k = 0..n \cup {k}
    BY <2>0
  <2> HIDE DEF A, k
  <2>6. (\A l \in 0..k : A(l) <= Alpha) <=> (\A l \in 0..n : A(l) <= Alpha) /\ A(k) <= Alpha
    BY <2>5
  <2> QED BY <2>1, <2>3, <2>4, <2>6
<1>4. \A k \in Nat : k \in P
  <2> HIDE DEF P
  <2> QED BY <1>2, <1>3, SetInduction
<1>5. \A k \in 0..NValid(p) - 1 : k \in Nat
  BY ValidValues
<1> QED BY <1>4, <1>5

(* So a hypothesis is rejected when it and every earlier one passes. *)
LEMMA RejectedWhenAllPass ==
  ASSUME NEW p \in Seq(Ps), NEW i \in Valid(p)
  PROVE  Adjusted(p)[Rank(p, i)] <= Alpha <=> \A j \in Earlier(p, i) \cup {i} : Passes(p, j)
<1>1. Rank(p, i) \in 0..NValid(p) - 1 /\ NValid(p) \in Nat
  BY RankTyped, ValidValues
<1>2. Adjusted(p)[Rank(p, i)] <= Alpha <=>
        \A l \in 0..Rank(p, i) : (Len(p) - l) * p[Ranked(p, l)] <= Alpha
  BY <1>1, AdjustedSmall
<1>3. ASSUME NEW l \in 0..Rank(p, i)
      PROVE  Ranked(p, l) \in Earlier(p, i) \cup {i} /\ Rank(p, Ranked(p, l)) = l
  <2>1. l \in 0..NValid(p) - 1
    BY <1>1
  <2>2. Ranked(p, l) \in Valid(p) /\ Rank(p, Ranked(p, l)) = l
    BY <2>1, RankedIs
  <2>3. CASE i \in Earlier(p, Ranked(p, l))
    BY <1>1, <2>1, <2>2, <2>3, RankOrders
  <2>4. CASE i \notin Earlier(p, Ranked(p, l))
    BY <2>2, <2>4, ValidValues, AnalysisAssumption DEF Earlier
  <2> QED BY <2>2, <2>3, <2>4
<1>4. ASSUME NEW j \in Earlier(p, i) \cup {i}
      PROVE  Rank(p, j) \in 0..Rank(p, i) /\ Ranked(p, Rank(p, j)) = j
  <2>1. j \in Valid(p)
    BY DEF Earlier
  <2>2. Ranked(p, Rank(p, j)) = j /\ Rank(p, j) \in 0..NValid(p) - 1
    BY <2>1, RankedIs, RankTyped
  <2>3. j = i \/ Rank(p, j) < Rank(p, i)
    BY <2>1, RankOrders
  <2> QED BY <1>1, <2>2, <2>3
<1> QED BY <1>2, <1>3, <1>4 DEF Passes

(* The first of the hypotheses that tie with j has as many before it as    *)
(* there are smaller p-values.                                             *)
LEMMA FirstOfTie ==
  ASSUME NEW p \in Seq(Ps), NEW j \in Valid(p)
  PROVE  \E f \in Valid(p) : /\ p[f] = p[j] /\ Rank(p, f) = Below(p, j)
                             /\ \A l \in Valid(p) : p[l] = p[j] => f <= l
<1> DEFINE T == {l \in Valid(p) : p[l] = p[j]}
<1>1. T \in SUBSET Nat /\ j \in T
  BY ValidValues
<1>2. PICK f \in T : \A l \in T : f <= l
  <2> HIDE DEF T
  <2> QED BY <1>1, LeastNumber
<1>3. Earlier(p, f) = {l \in Valid(p) : p[l] < p[j]}
  BY <1>2, ValidValues DEF Earlier
<1> QED BY <1>2, <1>3, RankTyped DEF Below

LEMMA BelowIsLess ==
  ASSUME NEW p \in Seq(Ps), NEW j \in Valid(p)
  PROVE  Below(p, j) \in Nat /\ Below(p, j) <= Rank(p, j)
<1> DEFINE B == {l \in Valid(p) : p[l] < p[j]}
<1>1. B \in SUBSET Earlier(p, j) /\ IsFiniteSet(Earlier(p, j)) /\ Rank(p, j) = Cardinality(Earlier(p, j))
  BY RankTyped DEF Earlier
<1>2. IsFiniteSet(B) /\ Cardinality(B) <= Rank(p, j)
  <2> HIDE DEF B
  <2> QED BY <1>1, FS_Subset
<1>3. Cardinality(B) \in Nat
  BY <1>2, FS_CardinalityType
<1> QED BY <1>2, <1>3 DEF Below

LEMMA LessTimes ==
  ASSUME NEW a \in Int, NEW b \in Int, NEW c \in Nat, a <= b
  PROVE  a * c <= b * c
OBVIOUS

(* The rejected ones are those of the step-down procedure. *)
LEMMA StepDown ==
  ASSUME NEW p \in Seq(Ps), NEW i \in Valid(p)
  PROVE  Adjusted(p)[Rank(p, i)] <= Alpha <=>
           \A j \in Valid(p) : p[j] <= p[i] => (Len(p) - Below(p, j)) * p[j] <= Alpha
<1>0. \A j \in Valid(p) : j \in 1..Len(p) /\ p[j] \in Nat /\ Len(p) \in Nat
  BY ValidValues, AnalysisAssumption
<1>1. ASSUME \A j \in Earlier(p, i) \cup {i} : Passes(p, j),
             NEW j \in Valid(p), p[j] <= p[i]
      PROVE  (Len(p) - Below(p, j)) * p[j] <= Alpha
  <2>1. PICK f \in Valid(p) : /\ p[f] = p[j] /\ Rank(p, f) = Below(p, j)
                              /\ \A l \in Valid(p) : p[l] = p[j] => f <= l
    BY FirstOfTie
  <2>2. f \in Earlier(p, i) \cup {i}
    BY <1>0, <1>1, <2>1 DEF Earlier
  <2>3. Passes(p, f)
    BY <1>1, <2>2
  <2> QED BY <2>1, <2>3 DEF Passes
<1>2. ASSUME \A j \in Valid(p) : p[j] <= p[i] => (Len(p) - Below(p, j)) * p[j] <= Alpha,
             NEW j \in Earlier(p, i) \cup {i}
      PROVE  Passes(p, j)
  <2>1. j \in Valid(p) /\ p[j] <= p[i]
    BY <1>0 DEF Earlier
  <2>2. (Len(p) - Below(p, j)) * p[j] <= Alpha
    BY <1>2, <2>1
  <2>3. Below(p, j) \in Nat /\ Below(p, j) <= Rank(p, j) /\ Rank(p, j) \in Int
    BY <2>1, BelowIsLess, RankTyped
  <2> DEFINE a == Len(p) - Rank(p, j)
             b == Len(p) - Below(p, j)
  <2>4. a \in Int /\ b \in Int /\ a <= b /\ p[j] \in Nat
    BY <1>0, <2>1, <2>3
  <2> HIDE DEF a, b
  <2>5. a * p[j] <= b * p[j] /\ a * p[j] \in Int /\ b * p[j] \in Int
    BY <2>4, LessTimes
  <2>6. b * p[j] <= Alpha
    BY <2>2 DEF b
  <2>7. a * p[j] <= Alpha
    BY <2>5, <2>6, AnalysisAssumption
  <2> QED BY <2>7 DEF Passes, a
<1> QED BY <1>1, <1>2, RejectedWhenAllPass

-----------------------------------------------------------------------------
(* The p-values that CorrectTests reads are those of the tests. *)
Methods == {"mann_whitney", "wilcoxon"}
Tested == [method : Methods, p : Ps]
RecordsTyped == test_records \in Seq(Tested)
ListedValues == [i \in 1..Len(test_records) |-> test_records[i].p]

(* What is called significant is what Holm's step-down procedure rejects.  *)
THEOREM CorrectionIsHolm == AnalysisSpec => []HolmIsStepDown
<1> DEFINE Inv == RecordsTyped /\ HolmIsStepDown
<1>1. AnalysisInit => Inv
  BY DEF AnalysisInit, RecordsTyped, HolmIsStepDown
<1>2. Inv /\ [AnalysisNext]_analysis_vars => Inv'
  <2> SUFFICES ASSUME RecordsTyped, HolmIsStepDown, [AnalysisNext]_analysis_vars
               PROVE  RecordsTyped' /\ HolmIsStepDown'
    OBVIOUS
  <2>1. CASE TestMetric
    <3>1. PICK q \in Ps, meth \in Methods : test_records' = Append(test_records, [method |-> meth, p |-> q])
      <4>1. PICK q \in (IF IF Len(sr_paired) < MinPairs THEN MannWhitneyRuns ELSE WilcoxonRuns
                        THEN PValues ELSE {}) \cup {Empty} :
               test_records' = Append(test_records,
                 [method |-> IF Len(sr_paired) < MinPairs THEN "mann_whitney" ELSE "wilcoxon", p |-> q])
        BY <2>1 DEF TestMetric
      <4> DEFINE meth == IF Len(sr_paired) < MinPairs THEN "mann_whitney" ELSE "wilcoxon"
      <4>2. q \in PValues \/ q = Empty
        BY <4>1
      <4>3. q \in Ps
        BY <4>2 DEF Ps
      <4>4. meth \in Methods
        BY Zenon DEF Methods
      <4> HIDE DEF meth
      <4> QED BY <4>1, <4>3, <4>4 DEF meth
    <3>2. RecordsTyped'
      <4>1. [method |-> meth, p |-> q] \in Tested
        BY DEF Tested
      <4> QED BY <3>1, <4>1 DEF RecordsTyped
    <3>3. stage' # "paired"
      BY <2>1 DEF TestMetric
    <3> QED BY <3>2, <3>3 DEF HolmIsStepDown
  <2>2. CASE CorrectTests
    <3> DEFINE p == ListedValues
    <3>1. test_records' = test_records /\ ListedValues' = ListedValues
      BY <2>2 DEF CorrectTests, ListedValues
    <3>2. p \in Seq(Ps) /\ Len(p) = Len(test_records) /\ DOMAIN p = 1..Len(test_records)
      <4>1. Len(test_records) \in Nat /\ \A i \in 1..Len(test_records) : test_records[i].p \in Ps
        <5>1. Len(test_records) \in Nat
          BY DEF RecordsTyped
        <5>2. ASSUME NEW i \in 1..Len(test_records) PROVE test_records[i].p \in Ps
          <6>1. test_records[i] \in Tested
            BY DEF RecordsTyped
          <6> QED BY <6>1 DEF Tested
        <5> QED BY <5>1, <5>2
      <4>2. p \in [1..Len(test_records) -> Ps]
        BY <4>1 DEF ListedValues
      <4> HIDE DEF p
      <4> QED BY <4>1, <4>2
    <3>3. rejected' = [i \in DOMAIN p |-> i \in Valid(p) /\ Adjusted(p)[Rank(p, i)] <= Alpha]
      BY <2>2 DEF CorrectTests, ListedValues
    <3> HIDE DEF p
    <3>4. \A i \in 1..Len(p) :
            rejected'[i] <=>
              /\ i \in Valid(p)
              /\ \A j \in Valid(p) : p[j] <= p[i] => (Len(p) - Below(p, j)) * p[j] <= Alpha
      BY <3>2, <3>3, StepDown
    <3>5. HolmIsStepDown'
      BY <3>1, <3>2, <3>4 DEF HolmIsStepDown, Below, ListedValues, p
    <3> QED BY <3>1, <3>5 DEF RecordsTyped
  <2>3. CASE ReadScenario \/ ReadMetric \/ PairRun \/ NextMetric
    <3>1. test_records' = test_records
      BY <2>3 DEF ReadScenario, ReadMetric, PairRun, NextMetric, results
    <3>2. stage' # "paired"
      BY <2>3 DEF ReadScenario, ReadMetric, PairRun, NextMetric
    <3> QED BY <3>1, <3>2 DEF RecordsTyped, HolmIsStepDown
  <2>4. CASE WritePair
    <3>1. test_records' = test_records /\ stage' = "done"
      BY <2>4 DEF WritePair, results
    <3> QED BY <3>1 DEF RecordsTyped, HolmIsStepDown
  <2>5. CASE UNCHANGED analysis_vars
    <3>1. UNCHANGED <<stage, test_records, rejected>>
      BY <2>5 DEF analysis_vars, results
    <3> QED BY <3>1 DEF RecordsTyped, HolmIsStepDown
  <2> QED BY <2>1, <2>2, <2>3, <2>4, <2>5 DEF AnalysisNext
<1>3. AnalysisSpec => []Inv
  BY <1>1, <1>2, PTL DEF AnalysisSpec
<1> QED BY <1>3, PTL

-----------------------------------------------------------------------------
(* The response contract.                                                  *)

Named(r) == {r.services[i] : i \in 1..Len(r.services)}
Obtained(r) == {s \in Named(r) \cap Response!KnownServices : r.results[s] = "result"}

(* Counting positions tells whether all, or any, of what was named is in a *)
(* set, however often a service is named.                                  *)
LEMMA CountTells ==
  ASSUME NEW services, NEW n \in Nat, services \in [1..n -> Services], NEW ok
  PROVE  LET count == Response!SuccessCount(services, ok)
         IN /\ Len(services) = n
            /\ count \in Nat
            /\ count = n <=> \A i \in 1..n : services[i] \in ok
            /\ count > 0 <=> \E i \in 1..n : services[i] \in ok
<1> DEFINE hits == {i \in 1..n : services[i] \in ok}
<1>1. Len(services) = n
  OBVIOUS
<1>2. Response!SuccessCount(services, ok) = Cardinality(hits)
  BY <1>1 DEF Response!SuccessCount, Response!Cardinality, Cardinality
<1>3. IsFiniteSet(1..n) /\ Cardinality(1..n) = n
  BY FS_Interval
<1>4. hits \subseteq 1..n
  OBVIOUS
<1>5. IsFiniteSet(hits) /\ (Cardinality(hits) = n => hits = 1..n)
  BY <1>3, <1>4, FS_Subset
<1>6. Cardinality(hits) \in Nat /\ (Cardinality(hits) = 0 <=> hits = {})
  BY <1>5, FS_CardinalityType, FS_EmptySet
<1>7. hits = 1..n <=> \A i \in 1..n : services[i] \in ok
  OBVIOUS
<1>8. hits # {} <=> \E i \in 1..n : services[i] \in ok
  OBVIOUS
<1> HIDE DEF hits
<1>9. QED
  BY <1>1, <1>2, <1>3, <1>5, <1>6, <1>7, <1>8

(* What Build and Classify make of a request, told by the services alone.  *)
LEMMA BuildTells ==
  ASSUME NEW r \in Response!Request, NEW enabled \in BOOLEAN
  PROVE  LET b == Response!Build(r, enabled)
             mixed == Named(r) # Obtained(r) /\ Obtained(r) # {} /\ b.fallbackActive
             static == r.condition \in {"static_resilience", "baseline"}
         IN /\ b.degraded = Named(r) \ Obtained(r)
            /\ b.fallbackActive = (enabled /\ (Named(r) \cap Response!KnownServices) \ Obtained(r) # {})
            /\ DOMAIN b.payload = Named(r) \cap Response!KnownServices
            /\ {s \in DOMAIN b.payload : b.payload[s] = "success"} = Obtained(r)
            /\ b.category = IF Named(r) # {} /\ Named(r) = Obtained(r) THEN "full"
                            ELSE IF mixed /\ ~static THEN "partial" ELSE "failure"
            /\ b.invalid = (mixed /\ static)
<1> DEFINE services == r.services
           known == {i \in 1..Len(services) : services[i] \in Response!KnownServices}
           ok == Response!Available(r.results) \cap {services[i] : i \in known}
           failed == {i \in known : services[i] \notin ok}
           active == failed # {} /\ enabled
           class == Response!Classify(services, ok, active, enabled, r.condition)
           b == Response!Build(r, enabled)
<1>1. PICK n \in Nat : services \in [1..n -> Services]
  BY DEF Response!Request, Response!Requested
<1>2. Len(services) = n
  BY <1>1
<1>3. ok = Obtained(r)
  BY DEF Response!Available, Obtained, Named
<1>4. /\ b.category = class.category /\ b.degraded = class.degraded /\ b.invalid = class.invalid
      /\ b.fallbackActive = active
      /\ b.payload = [s \in {services[i] : i \in known} |-> IF s \in ok THEN "success" ELSE "unavailable"]
  BY DEF Response!Build
<1>5. {services[i] : i \in known} = Named(r) \cap Response!KnownServices
  BY DEF Named
<1>6. class.degraded = Named(r) \ Obtained(r)
  BY <1>3 DEF Response!Classify, Response!Degraded, Named
<1>7. failed # {} <=> (Named(r) \cap Response!KnownServices) \ Obtained(r) # {}
  BY <1>3 DEF Named
<1>8. /\ DOMAIN b.payload = Named(r) \cap Response!KnownServices
      /\ {s \in DOMAIN b.payload : b.payload[s] = "success"} = Obtained(r)
  <2>1. Obtained(r) \subseteq Named(r) \cap Response!KnownServices
    BY DEF Obtained
  <2>2. QED
    BY <1>3, <1>4, <1>5, <2>1
<1> DEFINE count == Response!SuccessCount(services, ok)
<1>9. /\ count \in Nat
      /\ Len(services) = 0 <=> Named(r) = {}
      /\ count = Len(services) <=> Named(r) = Obtained(r)
      /\ count > 0 <=> Obtained(r) # {}
  <2>1. /\ count \in Nat
        /\ count = n <=> \A i \in 1..n : services[i] \in ok
        /\ count > 0 <=> \E i \in 1..n : services[i] \in ok
    BY <1>1, CountTells
  <2>2. (\A i \in 1..n : services[i] \in ok) <=> Named(r) = Obtained(r)
    BY <1>2, <1>3 DEF Named, Obtained
  <2>3. (\E i \in 1..n : services[i] \in ok) <=> Obtained(r) # {}
    BY <1>2, <1>3 DEF Named, Obtained
  <2>4. n = 0 <=> Named(r) = {}
    <3>1. CASE n = 0
      BY <1>2, <3>1 DEF Named
    <3>2. CASE n > 0
      <4>1. services[1] \in Named(r)
        BY <1>2, <3>2 DEF Named
      <4>2. QED
        BY <4>1, <3>2
    <3>3. QED
      BY <3>1, <3>2
  <2>5. QED
    BY <1>2, <2>1, <2>2, <2>3, <2>4
<1> DEFINE raw == IF Len(services) = 0 THEN "failure"
                  ELSE IF count = Len(services) THEN "full"
                  ELSE IF count > 0 /\ active /\ enabled THEN "partial" ELSE "failure"
           static == r.condition \in {"static_resilience", "baseline"}
<1>10. /\ class.category = IF raw = "partial" /\ static THEN "failure" ELSE raw
       /\ class.invalid = (raw = "partial" /\ static)
  BY DEF Response!Classify
<1>11. raw = IF Named(r) = {} THEN "failure"
             ELSE IF Named(r) = Obtained(r) THEN "full"
             ELSE IF Obtained(r) # {} /\ active THEN "partial" ELSE "failure"
  BY <1>9
<1>12. Obtained(r) \subseteq Named(r)
  BY DEF Obtained
<1> HIDE DEF count, raw, static, class, active, b, failed
<1>13. /\ b.category = IF Named(r) # {} /\ Named(r) = Obtained(r) THEN "full"
                       ELSE IF Named(r) # Obtained(r) /\ Obtained(r) # {} /\ active /\ ~static
                         THEN "partial" ELSE "failure"
       /\ b.invalid = (Named(r) # Obtained(r) /\ Obtained(r) # {} /\ active /\ static)
  BY <1>4, <1>10, <1>11, <1>12
<1>14. active = (enabled /\ (Named(r) \cap Response!KnownServices) \ Obtained(r) # {})
  BY <1>7 DEF active
<1>15. QED
  BY <1>4, <1>6, <1>8, <1>13, <1>14 DEF b, static

(* The process keeps the switches it started with, and answers from them.  *)
AnsweredInv ==
  /\ settings \in {Response!Settings(c) : c \in {c \in Response!Config : Response!ValidateExperimentMode(c)}}
  /\ Response!Answered => /\ request \in Response!Request
                          /\ response = Response!Build(request, settings.fallbackEnabled)

LEMMA AnsweredAlways == Response!Spec => []AnsweredInv
<1>1. Response!Init => AnsweredInv
  BY DEF Response!Init, AnsweredInv, Response!Answered
<1>2. AnsweredInv /\ [Response!Next]_(Response!vars) => AnsweredInv'
  BY DEF AnsweredInv, Response!Next, Response!Answer, Response!Sent, Response!Answered, Response!vars
<1>3. QED
  BY <1>1, <1>2, PTL DEF Response!Spec

(* What the switches of an accepted configuration are. *)
LEMMA AcceptedSettings ==
  AnsweredInv => /\ settings.fallbackEnabled \in BOOLEAN
                 /\ settings.mode = "static_resilience" => ~settings.fallbackEnabled
                 /\ settings.mode = "treatment" => settings.fallbackEnabled
                 /\ settings.mode \in Response!Modes
<1> SUFFICES ASSUME AnsweredInv
             PROVE  /\ settings.fallbackEnabled \in BOOLEAN
                    /\ settings.mode = "static_resilience" => ~settings.fallbackEnabled
                    /\ settings.mode = "treatment" => settings.fallbackEnabled
                    /\ settings.mode \in Response!Modes
  OBVIOUS
<1>1. PICK c \in Response!Config : /\ settings = Response!Settings(c)
                                   /\ Response!ValidateExperimentMode(c)
  BY DEF AnsweredInv
<1>2. settings.mode = c.mode /\ settings.fallbackEnabled = c.fallback /\ c.fallback \in BOOLEAN
  BY <1>1 DEF Response!Settings, Response!FallbackEnabled, Response!Config
<1>3. /\ c.mode = "static_resilience" => ~c.fallback
      /\ c.mode = "treatment" => c.fallback
      /\ c.mode \in Response!Modes
  BY <1>1 DEF Response!ValidateExperimentMode, Response!Config, Response!Modes
<1>4. QED
  BY <1>2, <1>3

(* For any services, however many are named in a request, the category is  *)
(* that of the table of ADR-004: only a treatment process answers partial. *)
THEOREM ContractIsKept == Response!Spec => []ContractTable
<1>1. AnsweredInv => ContractTable
  <2> SUFFICES ASSUME AnsweredInv, Response!Answered, Response!Asked \subseteq Response!KnownServices,
                      settings.mode # "baseline", request.condition = settings.mode
               PROVE  response.category =
                        IF Response!Asked # {} /\ Response!Succeeded = Response!Asked THEN "full"
                        ELSE IF Response!Succeeded # {} /\ settings.mode = "treatment" THEN "partial"
                        ELSE "failure"
    BY DEF ContractTable, Response!ContractTable
  <2>1. Response!Asked = Named(request) /\ Response!Succeeded = Obtained(request)
    BY DEF Response!Asked, Response!Succeeded, Named, Obtained
  <2>2. request \in Response!Request /\ response = Response!Build(request, settings.fallbackEnabled)
    BY DEF AnsweredInv
  <2>3. /\ response.fallbackActive = (settings.fallbackEnabled
              /\ (Named(request) \cap Response!KnownServices) \ Obtained(request) # {})
        /\ response.category =
              IF Named(request) # {} /\ Named(request) = Obtained(request) THEN "full"
              ELSE IF /\ Named(request) # Obtained(request) /\ Obtained(request) # {}
                      /\ response.fallbackActive
                      /\ request.condition \notin {"static_resilience", "baseline"}
                THEN "partial" ELSE "failure"
    BY <2>2, AcceptedSettings, BuildTells
  <2>4. Obtained(request) \subseteq Named(request)
    BY DEF Obtained
  <2>5. settings.mode \in {"static_resilience", "treatment"}
    BY AcceptedSettings DEF Response!Modes
  <2>6. CASE settings.mode = "static_resilience"
    BY <2>1, <2>3, <2>6
  <2>7. CASE settings.mode = "treatment"
    BY <2>1, <2>3, <2>4, <2>7, AcceptedSettings
  <2>8. QED
    BY <2>5, <2>6, <2>7
<1>2. QED
  BY <1>1, AnsweredAlways, PTL

(* For any services, a request whose label agrees with its process is      *)
(* never flagged INVALID_STATIC_BASELINE_PARTIAL.                          *)
THEOREM FlaggedMeansMislabelled == Response!Spec => []FlagMeansMislabelled
<1>1. AnsweredInv => FlagMeansMislabelled
  <2> SUFFICES ASSUME AnsweredInv, Response!Answered, response.invalid,
                      settings.mode # "baseline", request.condition = settings.mode
               PROVE  FALSE
    BY DEF FlagMeansMislabelled, Response!FlagMeansMislabelled
  <2>1. request \in Response!Request /\ response = Response!Build(request, settings.fallbackEnabled)
    BY DEF AnsweredInv
  <2>2. /\ request.condition \in {"static_resilience", "baseline"}
        /\ settings.fallbackEnabled
    BY <2>1, AcceptedSettings, BuildTells
  <2>3. QED
    BY <2>2, AcceptedSettings
<1>2. QED
  BY <1>1, AnsweredAlways, PTL

(* For any services, the parts of a response tell one story.               *)
THEOREM ResponsesAreCoherent == Response!Spec => []ResponseCoherent
<1>1. AnsweredInv => ResponseCoherent
  <2> SUFFICES ASSUME AnsweredInv, Response!Answered
               PROVE  Response!ResponseCoherent
    BY DEF ResponseCoherent, Response!ResponseCoherent
  <2>1. Response!Asked = Named(request)
    BY DEF Response!Asked, Named
  <2>2. request \in Response!Request /\ response = Response!Build(request, settings.fallbackEnabled)
    BY DEF AnsweredInv
  <2>3. Obtained(request) \subseteq Named(request)
    BY DEF Obtained
  <2>4. /\ response.degraded = Named(request) \ Obtained(request)
        /\ response.fallbackActive = (settings.fallbackEnabled
              /\ (Named(request) \cap Response!KnownServices) \ Obtained(request) # {})
        /\ DOMAIN response.payload = Named(request) \cap Response!KnownServices
        /\ {s \in DOMAIN response.payload : response.payload[s] = "success"} = Obtained(request)
        /\ response.category \in {"full", "partial"} => Obtained(request) # {}
        /\ response.category = "full" => Named(request) = Obtained(request)
        /\ response.category = "partial" => Named(request) # Obtained(request) /\ response.fallbackActive
    BY <2>2, AcceptedSettings, BuildTells
  <2>5. Named(request) \ (Named(request) \ Obtained(request)) = Obtained(request)
    BY <2>3
  <2>6. QED
    BY <2>1, <2>3, <2>4, <2>5 DEF Response!ResponseCoherent
<1>2. QED
  BY <1>1, AnsweredAlways, PTL
=============================================================================
