-------------------- MODULE HistoricalBackfillProofs --------------------
(***************************************************************************)
(* Proofs about the backfill of a plan, for every number of requests, set  *)
(* of connector versions and of maxima, ceiling and number of deaths: no   *)
(* snapshot is asked for again, a pilot keeps to its prefix, and the runs  *)
(* implement the collection.                                               *)
(***************************************************************************)
EXTENDS HistoricalBackfill, FiniteSetTheorems, TLAPS

\* The requests without completion that were rejected, and Ceiling of the
\* set R side by side before r.
Refusals == {r \in Gapped \ Completed : gaps[r].class = "REJECTED"}
Stopped(R, r) ==
  \E first \in Requests :
    /\ first + Ceiling <= r
    /\ \A q \in first..(first + Ceiling - 1) : q \in R

\* Completions are of the version of the progress document.
Bound == \A r \in Completed : completed[r].request = r /\ completed[r].version = lineage

\* What the loop has behind it.
Behind(r) == \A q \in 1..(r - 1) : q \in Completed \/ (Quarantining(run) /\ q \in Gapped)

\* The counter knows every rejection right before r.
Counted(R, r, count) ==
  \A first \in 1..(r - 1) : (\A q \in first..(r - 1) : q \in R) => r - first <= count

Walking ==
  run # None /\ run.stage # "reconcile" =>
    /\ lineage = run.version
    /\ Behind(run.at)
    /\ Quarantining(run) => Completed \cap Gapped = {}
    /\ run.processed < run.at
    /\ Counted(Refusals, run.at, run.count)
    /\ ~Stopped(Refusals, run.at)

\* A run that has a snapshot in hand has an open request before it.
InHand ==
  run # None /\ run.stage = "record" =>
    /\ run.at \in Requests \ Completed
    /\ ~(Quarantining(run) /\ run.at \in Gapped)
    /\ ~AtMaximum

\* What the pilot asked of the runner is what is left of its prefix.
Piloting ==
  run # None /\ run.pilot # None =>
    /\ ~Quarantining(run)
    /\ Completed \subseteq 1..run.pilot
    /\ run.stage # "reconcile" =>
         /\ run.limit \in Nat
         /\ Cardinality(Completed) + run.limit = run.pilot + run.processed
    /\ run.stage = "reconcile" => Completed = 1..run.pilot

\* Only a pilot reconciles.
Reconciling == run # None /\ run.stage = "reconcile" => run.pilot # None

IInv == BackfillTypeOK /\ AskedOnce /\ Bound /\ Walking /\ InHand /\ Piloting /\ Reconciling

-----------------------------------------------------------------------------
(* Lemmas.                                                                 *)

\* The completed requests are finitely many.
LEMMA FewCompleted ==
  ASSUME BackfillTypeOK
  PROVE  IsFiniteSet(Completed) /\ Cardinality(Completed) \in Nat
<1>1. IsFiniteSet(Requests)
  BY FS_Interval, BackfillAssumption DEF Requests
<1>2. Completed \subseteq Requests
  BY DEF Completed
<1> QED BY <1>1, <1>2, FS_Subset, FS_CardinalityType

\* A prefix that is as large as the completions in it is complete.
LEMMA FullPrefix ==
  ASSUME BackfillTypeOK, NEW n \in Requests, Completed \subseteq 1..n,
         Cardinality(Completed) >= n
  PROVE  Completed = 1..n
<1>1. IsFiniteSet(1..n) /\ Cardinality(1..n) = n
  BY FS_Interval, BackfillAssumption DEF Requests
<1>2. Cardinality(Completed) <= n
  BY <1>1, FS_Subset
<1>3. Cardinality(Completed) = n
  BY <1>2, FewCompleted, BackfillAssumption DEF Requests
<1> QED BY <1>1, <1>3, FS_Subset

\* The next request, rejected or not, leaves the counter right and the
\* ceiling unreached.
LEMMA OneFurther ==
  ASSUME NEW R, NEW S, NEW r \in Nat \ {0}, NEW count \in Nat, NEW next \in Nat,
         \A q \in 1..(r - 1) : q \in S => q \in R,
         Counted(R, r, count), ~Stopped(R, r),
         next < Ceiling, r \in S => next = count + 1
  PROVE  Counted(S, r + 1, next) /\ ~Stopped(S, r + 1)
<1>1. Counted(S, r + 1, next)
  <2> SUFFICES ASSUME NEW first \in 1..r, \A q \in first..r : q \in S
               PROVE  r + 1 - first <= next
    BY DEF Counted
  <2>1. r \in S /\ next = count + 1
    OBVIOUS
  <2>2. CASE first = r
    BY <2>1, <2>2
  <2>3. CASE first # r
    <3>1. first \in 1..(r - 1) /\ \A q \in first..(r - 1) : q \in R
      BY <2>3
    <3>2. r - first <= count
      BY <3>1 DEF Counted
    <3> QED BY <3>2, <2>1
  <2> QED BY <2>2, <2>3
<1>2. ~Stopped(S, r + 1)
  <2> SUFFICES ASSUME NEW first \in Requests, first + Ceiling <= r + 1,
                      \A q \in first..(first + Ceiling - 1) : q \in S
               PROVE  FALSE
    BY DEF Stopped
  <2>1. CASE first + Ceiling <= r
    <3>1. \A q \in first..(first + Ceiling - 1) : q \in R
      BY <2>1, BackfillAssumption DEF Requests
    <3> QED BY <2>1, <3>1 DEF Stopped
  <2>2. CASE first + Ceiling = r + 1
    <3>1. first \in 1..r /\ \A q \in first..r : q \in S
      BY <2>2, BackfillAssumption DEF Requests
    <3>2. r + 1 - first <= next
      BY <1>1, <3>1 DEF Counted
    <3> QED BY <3>2, <2>2, BackfillAssumption DEF Requests
  <2> QED BY <2>1, <2>2, BackfillAssumption DEF Requests
<1> QED BY <1>1, <1>2

\* Before the first request nothing is counted.
LEMMA AtTheStart ==
  ASSUME NEW R, NEW count \in Nat
  PROVE  Counted(R, 1, count) /\ ~Stopped(R, 1)
BY BackfillAssumption DEF Counted, Stopped, Requests

-----------------------------------------------------------------------------
(* The invariant.                                                          *)

LEMMA Initially == Init => IInv
<1> SUFFICES ASSUME Init PROVE IInv
  OBVIOUS
<1>1. BackfillTypeOK
  <2>1. faults \in 0..MaxFaults
    BY BackfillAssumption DEF Init
  <2> QED BY <2>1 DEF Init, BackfillTypeOK
<1>2. AskedOnce /\ Bound /\ Walking /\ InHand /\ Piloting /\ Reconciling
  BY DEF Init, AskedOnce, Bound, Completed, Walking, InHand, Piloting, Reconciling
<1> QED BY <1>1, <1>2 DEF IInv

\* A run that begins.
LEMMA StartKeeps ==
  ASSUME IInv, NEW o \in [version : Versions, empties : BOOLEAN, rejections : BOOLEAN],
         NEW limit \in Limits, Start(o, limit)
  PROVE  IInv'
<1>1. run' = Underway(o, limit, None) /\ run' \in Run
  BY BackfillAssumption DEF Start, Underway, Run
<1>2. BackfillTypeOK'
  BY <1>1 DEF IInv, BackfillTypeOK, Start
<1>3. AskedOnce' /\ Bound'
  BY DEF IInv, AskedOnce, Bound, Completed, Start, Resumable, Stored
<1>4. Walking'
  <2>1. Counted(Refusals', 1, 0) /\ ~Stopped(Refusals', 1)
    <3>1. PICK R : R = Refusals'
      OBVIOUS
    <3> QED BY <3>1, AtTheStart
  <2>2. /\ run'.version = o.version /\ lineage' = o.version
        /\ run'.at = 1 /\ run'.processed = 0 /\ run'.count = 0
        /\ Quarantining(run') = Quarantining(o)
    BY <1>1 DEF Underway, Start, Quarantining
  <2>3. Quarantining(o) => (Completed \cap Gapped = {})'
    BY DEF Start, Resumable, Completed, Gapped
  <2> QED BY <2>1, <2>2, <2>3 DEF Walking, Behind
<1>5. InHand' /\ Piloting' /\ Reconciling'
  BY <1>1 DEF Underway, InHand, Piloting, Reconciling
<1> QED BY <1>2, <1>3, <1>4, <1>5 DEF IInv

\* A pilot that begins.
LEMMA StartPilotKeeps ==
  ASSUME IInv, NEW v \in Versions, NEW prefix \in Requests, StartPilot(v, prefix)
  PROVE  IInv'
<1> DEFINE o == [version |-> v, empties |-> FALSE, rejections |-> FALSE]
           rest == RemainingCapacity(prefix)
<1>1. Cardinality(Completed) <= prefix /\ Cardinality(Completed) \in Nat
  <2>1. IsFiniteSet(1..prefix) /\ Cardinality(1..prefix) = prefix
    BY FS_Interval, BackfillAssumption DEF Requests
  <2>2. Completed \subseteq 1..prefix
    BY DEF StartPilot
  <2> QED BY <2>1, <2>2, FS_Subset, FewCompleted DEF IInv
<1>2. rest \in Nat /\ rest + Cardinality(Completed) = prefix
  BY <1>1, BackfillAssumption DEF RemainingCapacity, Requests
<1>3. Underway(o, rest, prefix) \in Run
  BY <1>2, BackfillAssumption DEF Underway, Run
<1>4. \/ rest > 0 /\ lineage' = v /\ run' = Underway(o, rest, prefix)
      \/ rest = 0 /\ lineage' = lineage /\ run' = [Underway(o, rest, prefix) EXCEPT !.stage = "reconcile"]
  <2>1. CASE rest > 0
    BY <2>1 DEF StartPilot
  <2>2. CASE ~(rest > 0)
    <3>1. rest = 0
      BY <2>2, <1>2
    <3> QED BY <2>2, <3>1 DEF StartPilot
  <2> QED BY <2>1, <2>2
<1>5. run' \in Run /\ lineage' \in {lineage, v}
  BY <1>3, <1>4 DEF Run
<1>6. UNCHANGED <<snapshots, completed, gaps, litter, reports, faults>>
  BY DEF StartPilot
<1>7. BackfillTypeOK'
  BY <1>5, <1>6 DEF IInv, BackfillTypeOK
<1>8. Completed' = Completed
  BY <1>6 DEF Completed
<1>9. \A r \in Completed : completed[r].request = r /\ completed[r].version = v
  BY DEF StartPilot, Resumable, Stored
<1>10. AskedOnce' /\ Bound'
  BY <1>5, <1>6, <1>8, <1>9 DEF IInv, AskedOnce, Bound
<1>11. run'.pilot = prefix /\ ~Quarantining(run')
  BY <1>4 DEF Underway, Quarantining
<1>12. /\ run'.stage # "reconcile" => /\ rest > 0 /\ lineage' = v /\ run' = Underway(o, rest, prefix)
       /\ run'.stage = "reconcile" => rest = 0
       /\ run'.stage # "record"
  BY <1>2, <1>4 DEF Underway
<1>13. Walking'
  <2>1. Counted(Refusals', 1, 0) /\ ~Stopped(Refusals', 1)
    <3>1. PICK R : R = Refusals'
      OBVIOUS
    <3> QED BY <3>1, AtTheStart
  <2>2. run'.stage # "reconcile" =>
        /\ lineage' = run'.version
        /\ run'.at = 1 /\ run'.processed = 0 /\ run'.count = 0
    BY <1>12 DEF Underway
  <2> QED BY <2>1, <2>2, <1>11 DEF Walking, Behind
<1>14. Piloting'
  <2>1. Completed \subseteq 1..prefix
    BY DEF StartPilot
  <2>2. run'.stage # "reconcile" => run'.limit = rest /\ run'.processed = 0
    BY <1>12 DEF Underway
  <2>3. run'.stage = "reconcile" => Completed = 1..prefix
    BY <1>12, <1>1, <1>2, <2>1, FullPrefix, BackfillAssumption DEF IInv, Requests
  <2> HIDE DEF rest
  <2> QED BY <1>1, <1>2, <1>8, <1>11, <2>1, <2>2, <2>3, BackfillAssumption DEF Piloting, Requests
<1>15. InHand' /\ Reconciling'
  BY <1>11, <1>12, BackfillAssumption DEF InHand, Reconciling, Requests
<1> QED BY <1>7, <1>10, <1>13, <1>14, <1>15 DEF IInv

\* The loop goes on to the next request.
LEMMA LoopGoesOn ==
  ASSUME IInv, run # None, run.stage # "reconcile", run.at \in Requests,
         NEW count \in 0..(Ceiling - 1), NEW processed \in Nat, processed <= run.at,
         Advance(count, processed), lineage' = lineage,
         Completed \subseteq Completed', Gapped \subseteq Gapped',
         \A q \in 1..(run.at - 1) : q \in Refusals' => q \in Refusals,
         run.at \in Refusals' => count = run.count + 1,
         run.at \in Completed' \/ (Quarantining(run) /\ run.at \in Gapped'),
         Quarantining(run) => (Completed \cap Gapped = {})'
  PROVE  run' \in Run /\ Walking' /\ InHand' /\ Reconciling'
<1>1. run \in Run
  BY DEF IInv, BackfillTypeOK
<1>2. /\ run.at \in Nat \ {0} /\ run.at <= NumRequests /\ NumRequests \in Nat
      /\ run.count \in Nat /\ Ceiling \in Nat \ {0}
  BY <1>1, BackfillAssumption DEF Run, Requests
<1>3. run' = [run EXCEPT !.stage = "request", !.at = @ + 1, !.count = count, !.processed = processed]
  BY DEF Advance
<1>4. run' \in Run
  <2>1. /\ run.at + 1 \in 1..(NumRequests + 1)
        /\ processed \in 0..NumRequests
    BY <1>2
  <2> QED BY <1>1, <1>3, <2>1 DEF Run
<1>5. /\ run'.stage = "request" /\ run'.at = run.at + 1
      /\ run'.count = count /\ run'.processed = processed
      /\ run'.version = run.version
      /\ Quarantining(run') = Quarantining(run)
  BY <1>1, <1>3 DEF Run, Quarantining
<1>6. Counted(Refusals', run.at + 1, count) /\ ~Stopped(Refusals', run.at + 1)
  <2>1. PICK R, S : R = Refusals /\ S = Refusals'
    OBVIOUS
  <2>2. Counted(R, run.at, run.count) /\ ~Stopped(R, run.at)
    BY <2>1 DEF IInv, Walking
  <2>3. /\ \A q \in 1..(run.at - 1) : q \in S => q \in R
        /\ run.at \in S => count = run.count + 1
    BY <2>1
  <2>4. PICK r, old : r = run.at /\ old = run.count
    OBVIOUS
  <2>5. r \in Nat \ {0} /\ old \in Nat /\ count \in Nat /\ count < Ceiling
    BY <2>4, <1>2
  <2>6. Counted(S, r + 1, count) /\ ~Stopped(S, r + 1)
    BY <2>2, <2>3, <2>4, <2>5, OneFurther
  <2> QED BY <2>1, <2>4, <2>6
<1>7. \A q \in 1..run.at : q \in Completed' \/ (Quarantining(run) /\ q \in Gapped')
  BY <1>2 DEF IInv, Walking, Behind
<1>8. Walking'
  <2>1. lineage' = run'.version
    BY <1>5 DEF IInv, Walking
  <2>2. \A q \in 1..(run'.at - 1) : q \in Completed' \/ (Quarantining(run') /\ q \in Gapped')
    BY <1>2, <1>5, <1>7
  <2>3. run'.processed < run'.at
    BY <1>2, <1>5
  <2> QED BY <1>5, <1>6, <2>1, <2>2, <2>3 DEF Walking, Behind
<1>9. InHand' /\ Reconciling'
  BY <1>5 DEF InHand, Reconciling
<1> QED BY <1>4, <1>8, <1>9

\* A run that is over.
LEMMA EndKeeps ==
  ASSUME IInv, run' = None, UNCHANGED <<snapshots, lineage, completed>>,
         gaps' \in [Requests -> Gap \cup {None}], litter' \in BOOLEAN,
         reports' \subseteq snapshots, faults' \in 0..MaxFaults
  PROVE  IInv'
<1>1. BackfillTypeOK'
  BY DEF IInv, BackfillTypeOK
<1>2. AskedOnce' /\ Bound'
  BY DEF IInv, AskedOnce, Bound, Completed
<1>3. Walking' /\ InHand' /\ Piloting' /\ Reconciling'
  BY DEF Walking, InHand, Piloting, Reconciling
<1> QED BY <1>1, <1>2, <1>3 DEF IInv

\* Passing over a completed request.
LEMMA SkipCompletedKeeps == ASSUME IInv, SkipCompleted PROVE IInv'
<1>1. run # None /\ run.stage = "request" /\ run.at \in Requests /\ run \in Run
  BY BackfillAssumption DEF SkipCompleted, AtRequest, IInv, BackfillTypeOK, Run, Requests
<1>2. UNCHANGED <<snapshots, lineage, completed, gaps, litter, reports, faults>>
  BY DEF SkipCompleted
<1>3. Completed' = Completed /\ Gapped' = Gapped /\ Refusals' = Refusals
  BY <1>2 DEF Completed, Gapped, Refusals
<1>4. run.at \in Completed /\ run.at \notin Refusals /\ Advance(0, run.processed)
  BY DEF SkipCompleted, Refusals
<1>5. 0 \in 0..(Ceiling - 1) /\ run.processed \in Nat /\ run.processed <= run.at
  BY <1>1, BackfillAssumption DEF IInv, Walking, Run, Requests
<1>6. Quarantining(run) => Completed \cap Gapped = {}
  BY <1>1 DEF IInv, Walking
<1>7. run' \in Run /\ Walking' /\ InHand' /\ Reconciling'
  BY <1>1, <1>2, <1>3, <1>4, <1>5, <1>6, LoopGoesOn
<1>8. BackfillTypeOK'
  BY <1>2, <1>7 DEF IInv, BackfillTypeOK
<1>9. AskedOnce' /\ Bound'
  BY <1>2, <1>3 DEF IInv, AskedOnce, Bound
<1>10. Piloting'
  <2>1. /\ run'.stage = "request" /\ run'.limit = run.limit /\ run'.pilot = run.pilot
        /\ run'.processed = run.processed /\ Quarantining(run') = Quarantining(run)
    BY <1>1, <1>4 DEF Advance, Run, Quarantining
  <2> QED BY <1>1, <1>3, <2>1 DEF IInv, Piloting
<1> QED BY <1>7, <1>8, <1>9, <1>10 DEF IInv

\* A pilot does not quarantine.
LEMMA NoPilotQuarantines ==
  ASSUME IInv, run # None, Quarantining(run)
  PROVE  run.pilot = None
BY DEF IInv, Piloting

\* Passing over a gap.
LEMMA SkipGapKeeps == ASSUME IInv, SkipGap PROVE IInv'
<1>1. run # None /\ run.stage = "request" /\ run.at \in Requests /\ run \in Run
  BY BackfillAssumption DEF SkipGap, AtRequest, IInv, BackfillTypeOK, Run, Requests
<1>2. UNCHANGED <<snapshots, lineage, completed, gaps, litter, reports, faults>>
  BY DEF SkipGap
<1>3. Completed' = Completed /\ Gapped' = Gapped /\ Refusals' = Refusals
  BY <1>2 DEF Completed, Gapped, Refusals
<1>4. Quarantining(run) /\ run.at \in Gapped
  BY DEF SkipGap
<1>5. run.processed \in Nat /\ run.processed <= run.at /\ run.count \in Nat
  BY <1>1, BackfillAssumption DEF IInv, Walking, Run, Requests
<1>6. Completed \cap Gapped = {}
  BY <1>1, <1>4 DEF IInv, Walking
<1>7. CASE run' = None
  BY <1>2, <1>7, EndKeeps DEF IInv, BackfillTypeOK
<1>8. CASE \E count \in 0..(Ceiling - 1) :
             Advance(count, run.processed) /\ (run.at \in Refusals => count = run.count + 1)
  <2>1. PICK count \in 0..(Ceiling - 1) :
               Advance(count, run.processed) /\ (run.at \in Refusals => count = run.count + 1)
    BY <1>8
  <2>2. run' \in Run /\ Walking' /\ InHand' /\ Reconciling'
    BY <1>1, <1>2, <1>3, <1>4, <1>5, <1>6, <2>1, LoopGoesOn
  <2>3. BackfillTypeOK'
    BY <1>2, <2>2 DEF IInv, BackfillTypeOK
  <2>4. AskedOnce' /\ Bound'
    BY <1>2, <1>3 DEF IInv, AskedOnce, Bound
  <2>5. Piloting'
    BY <1>1, <1>4, <2>1, NoPilotQuarantines DEF Advance, Run, Piloting
  <2> QED BY <2>2, <2>3, <2>4, <2>5 DEF IInv
<1>9. \/ run' = None
      \/ \E count \in 0..(Ceiling - 1) :
           Advance(count, run.processed) /\ (run.at \in Refusals => count = run.count + 1)
  <2>1. CASE gaps[run.at].class = "EMPTY"
    <3>1. Advance(0, run.processed) /\ run.at \notin Refusals
      BY <2>1 DEF SkipGap, Refusals
    <3> QED BY <3>1, BackfillAssumption
  <2>2. CASE gaps[run.at].class # "EMPTY" /\ run.count + 1 >= Ceiling
    BY <2>2 DEF SkipGap
  <2>3. CASE gaps[run.at].class # "EMPTY" /\ ~(run.count + 1 >= Ceiling)
    <3>1. Advance(run.count + 1, run.processed)
      BY <2>3 DEF SkipGap
    <3>2. run.count + 1 \in 0..(Ceiling - 1)
      BY <1>5, <2>3, BackfillAssumption
    <3> QED BY <3>1, <3>2
  <2> QED BY <2>1, <2>2, <2>3
<1> QED BY <1>7, <1>8, <1>9

\* A completion is saved.
LEMMA SaveKeeps ==
  ASSUME IInv, run # None, run.stage # "reconcile", run.at \in Requests \ Completed,
         ~(Quarantining(run) /\ run.at \in Gapped), ~AtMaximum,
         NEW s \in Stored(run.at, run.version), Save(s),
         UNCHANGED <<snapshots, lineage, gaps, litter, reports, faults>>
  PROVE  IInv'
<1>1. run \in Run /\ BackfillTypeOK
  BY DEF IInv, BackfillTypeOK
<1>2. s \in snapshots /\ s \in Snapshot /\ s # None /\ s.request = run.at /\ s.version = lineage
  BY <1>1, BackfillAssumption DEF Stored, BackfillTypeOK, IInv, Walking
<1>3. completed' = [completed EXCEPT ![run.at] = s]
  BY DEF Save
<1>4. /\ completed' \in [Requests -> snapshots \cup {None}]
      /\ completed'[run.at] = s
      /\ \A q \in Requests \ {run.at} : completed'[q] = completed[q]
  BY <1>1, <1>2, <1>3 DEF BackfillTypeOK
<1>5. Completed' = Completed \cup {run.at}
  BY <1>2, <1>4 DEF Completed
<1>6. Gapped' = Gapped /\ gaps' = gaps
  BY DEF Gapped
<1>7. Advance(0, run.processed + 1)
  BY DEF Save
<1>8. /\ \A q \in 1..(run.at - 1) : q \in Refusals' => q \in Refusals
      /\ run.at \notin Refusals'
  BY <1>5, <1>6 DEF Refusals
<1>9. Quarantining(run) => (Completed \cap Gapped = {})'
  BY <1>5, <1>6 DEF IInv, Walking
<1>10. /\ 0 \in 0..(Ceiling - 1)
       /\ run.processed + 1 \in Nat /\ run.processed + 1 <= run.at
  BY <1>1, BackfillAssumption DEF IInv, Walking, Run, Requests
<1>11. run' \in Run /\ Walking' /\ InHand' /\ Reconciling'
  BY <1>5, <1>6, <1>7, <1>8, <1>9, <1>10, LoopGoesOn
<1>12. BackfillTypeOK'
  BY <1>1, <1>4, <1>11 DEF BackfillTypeOK
<1>13. AskedOnce' /\ Bound'
  <2>1. Completed \subseteq Requests
    BY DEF Completed
  <2> QED BY <1>2, <1>4, <1>5, <2>1 DEF IInv, AskedOnce, Bound
<1>14. Piloting'
  <2> SUFFICES ASSUME run.pilot # None
               PROVE  Piloting'
    BY <1>1, <1>7 DEF Advance, Run, Piloting
  <2>1. /\ run'.stage = "request" /\ run'.limit = run.limit /\ run'.pilot = run.pilot
        /\ run'.processed = run.processed + 1 /\ Quarantining(run') = Quarantining(run)
    BY <1>1, <1>7 DEF Advance, Run, Quarantining
  <2>2. /\ ~Quarantining(run) /\ Completed \subseteq 1..run.pilot /\ run.limit \in Nat
        /\ Cardinality(Completed) + run.limit = run.pilot + run.processed
    BY DEF IInv, Piloting
  <2>3. run.processed < run.limit
    BY <1>1, <2>2, BackfillAssumption DEF AtMaximum, Run
  <2>4. run.pilot \in Requests /\ run.processed \in Nat /\ Cardinality(Completed) \in Nat
    BY <1>1, FewCompleted DEF Run
  <2>5. Cardinality(Completed) < run.pilot
    BY <2>2, <2>3, <2>4, BackfillAssumption DEF Requests
  <2>6. run.at <= run.pilot
    <3> SUFFICES ASSUME run.at > run.pilot PROVE FALSE
      BY <2>4, BackfillAssumption DEF Requests
    <3>1. 1..run.pilot \subseteq Completed
      BY <2>2, <2>4, BackfillAssumption DEF IInv, Walking, Behind, Requests
    <3>2. Completed = 1..run.pilot
      BY <3>1, <2>2
    <3>3. Cardinality(1..run.pilot) = run.pilot
      <4>1. PICK n \in Requests : n = run.pilot
        BY <2>4
      <4>2. Cardinality(1..n) = n
        BY FS_Interval, BackfillAssumption DEF Requests
      <4> QED BY <4>1, <4>2
    <3> QED BY <3>2, <3>3, <2>5, <2>4
  <2>7. Cardinality(Completed') = Cardinality(Completed) + 1
    BY <1>1, <1>5, FewCompleted, FS_AddElement
  <2>8. Completed' \subseteq 1..run.pilot
    BY <1>5, <2>2, <2>4, <2>6, BackfillAssumption DEF Requests
  <2>9. Cardinality(Completed') + run.limit = run.pilot + (run.processed + 1)
    BY <2>2, <2>4, <2>7, BackfillAssumption DEF Requests
  <2> QED BY <2>1, <2>2, <2>8, <2>9 DEF Piloting
<1> QED BY <1>11, <1>12, <1>13, <1>14 DEF IInv

LEMMA RecoverKeeps == ASSUME IInv, Recover PROVE IInv'
<1>1. PICK s \in Stored(run.at, run.version) : Save(s)
  BY DEF Recover
<1>2. /\ run # None /\ run.stage # "reconcile" /\ run.at \in Requests \ Completed
      /\ ~(Quarantining(run) /\ run.at \in Gapped) /\ ~AtMaximum
  BY BackfillAssumption DEF Recover, Open, AtRequest, IInv, BackfillTypeOK, Run, Requests
<1>3. UNCHANGED <<snapshots, lineage, gaps, litter, reports, faults>>
  BY DEF Recover
<1> QED BY <1>1, <1>2, <1>3, SaveKeeps

LEMMA RecordKeeps == ASSUME IInv, Record PROVE IInv'
<1>1. PICK s \in Stored(run.at, run.version) : Save(s)
  BY DEF Record
<1>2. /\ run # None /\ run.stage # "reconcile" /\ run.at \in Requests \ Completed
      /\ ~(Quarantining(run) /\ run.at \in Gapped) /\ ~AtMaximum
  BY DEF Record, IInv, InHand
<1>3. UNCHANGED <<snapshots, lineage, gaps, litter, reports, faults>>
  BY DEF Record
<1> QED BY <1>1, <1>2, <1>3, SaveKeeps

\* The provider answered and the snapshot is published.
LEMMA CollectKeeps == ASSUME IInv, Collect PROVE IInv'
<1> DEFINE s == [request |-> run.at, version |-> run.version, nth |-> 1]
<1>1. /\ run # None /\ run.stage = "request" /\ run.at \in Requests /\ run \in Run
      /\ run.at \notin Completed /\ ~(Quarantining(run) /\ run.at \in Gapped) /\ ~AtMaximum
      /\ Stored(run.at, run.version) = {}
  BY BackfillAssumption DEF Collect, Asking, Open, AtRequest, IInv, BackfillTypeOK, Run, Requests
<1>2. snapshots' = snapshots \cup {s}
  BY <1>1, FS_EmptySet DEF Collect
<1>3. s \in Snapshot
  BY <1>1, BackfillAssumption DEF Snapshot, Run
<1>4. run' = [run EXCEPT !.stage = "record"] /\ UNCHANGED <<lineage, completed, gaps, litter, reports, faults>>
  BY DEF Collect
<1>5. /\ run' \in Run /\ run'.stage = "record" /\ run'.at = run.at /\ run'.count = run.count
      /\ run'.processed = run.processed /\ run'.limit = run.limit /\ run'.pilot = run.pilot
      /\ run'.version = run.version /\ Quarantining(run') = Quarantining(run)
  BY <1>1, <1>4 DEF Run, Quarantining
<1>6. Completed' = Completed /\ Gapped' = Gapped /\ Refusals' = Refusals
  BY <1>4 DEF Completed, Gapped, Refusals
<1>7. BackfillTypeOK'
  BY <1>2, <1>3, <1>4, <1>5 DEF IInv, BackfillTypeOK
<1>8. AskedOnce'
  <2>1. \A t \in snapshots : ~(t.request = s.request /\ t.version = s.version)
    BY <1>1 DEF Stored
  <2> QED BY <1>2, <2>1 DEF IInv, AskedOnce
<1>9. Bound'
  BY <1>4, <1>6 DEF IInv, Bound
<1>10. Walking'
  BY <1>1, <1>4, <1>5, <1>6 DEF IInv, Walking, Behind
<1>11. InHand'
  BY <1>1, <1>5, <1>6 DEF InHand, AtMaximum
<1>12. Piloting'
  BY <1>1, <1>5, <1>6 DEF IInv, Piloting
<1>13. Reconciling'
  BY <1>5 DEF Reconciling
<1> QED BY <1>7, <1>8, <1>9, <1>10, <1>11, <1>12, <1>13 DEF IInv

\* A gap is kept.
LEMMA Kept ==
  ASSUME IInv, Asking, NEW class \in Classes, Keep(class)
  PROVE  /\ gaps' \in [Requests -> Gap \cup {None}]
         /\ gaps'[run.at] = [class |-> class, version |-> run.version]
         /\ gaps'[run.at] # None
         /\ \A q \in Requests \ {run.at} : gaps'[q] = gaps[q]
<1>1. run.at \in Requests /\ run \in Run
  BY BackfillAssumption DEF Asking, Open, AtRequest, IInv, BackfillTypeOK, Run, Requests
<1>2. [class |-> class, version |-> run.version] \in Gap
  BY <1>1 DEF Gap, Run
<1> QED BY <1>1, <1>2, BackfillAssumption DEF Keep, IInv, BackfillTypeOK

\* A request is set aside.
LEMMA SetAsideKeeps ==
  ASSUME IInv, NEW class \in Classes, SetAside(class)
  PROVE  IInv'
<1>1. /\ run # None /\ run.stage = "request" /\ run.at \in Requests /\ run \in Run
      /\ run.at \notin Completed
  BY BackfillAssumption
     DEF SetAside, Asking, Open, AtRequest, IInv, BackfillTypeOK, Run, Requests
<1>2. Quarantining(run) /\ run.at \notin Gapped
  BY DEF SetAside, Option, Quarantining, Asking, Open
<1>3. UNCHANGED <<snapshots, lineage, completed, litter, reports, faults>>
  BY DEF SetAside
<1>4. /\ gaps' \in [Requests -> Gap \cup {None}]
      /\ gaps'[run.at] = [class |-> class, version |-> run.version]
      /\ gaps'[run.at] # None
      /\ \A q \in Requests \ {run.at} : gaps'[q] = gaps[q]
  BY Kept DEF SetAside
<1>5. Completed' = Completed /\ Gapped' = Gapped \cup {run.at}
  BY <1>1, <1>3, <1>4 DEF Completed, Gapped
<1>6. /\ \A q \in 1..(run.at - 1) : q \in Refusals' => q \in Refusals
      /\ run.at \in Refusals' => class = "REJECTED"
  BY <1>1, <1>4, <1>5, BackfillAssumption DEF Refusals, Gapped, Requests
<1>7. (Completed \cap Gapped = {})'
  BY <1>1, <1>2, <1>5 DEF IInv, Walking
<1>8. /\ run.processed + 1 \in Nat /\ run.processed + 1 <= run.at /\ run.count \in Nat
  BY <1>1, BackfillAssumption DEF IInv, Walking, Run, Requests
<1>9. CASE run' = None
  BY <1>3, <1>4, <1>9, EndKeeps DEF IInv, BackfillTypeOK
<1>10. CASE \E count \in 0..(Ceiling - 1) :
              /\ Advance(count, run.processed + 1)
              /\ class = "REJECTED" => count = run.count + 1
  <2>1. PICK count \in 0..(Ceiling - 1) :
               /\ Advance(count, run.processed + 1)
               /\ class = "REJECTED" => count = run.count + 1
    BY <1>10
  <2>2. run' \in Run /\ Walking' /\ InHand' /\ Reconciling'
    BY <1>1, <1>2, <1>3, <1>5, <1>6, <1>7, <1>8, <2>1, LoopGoesOn
  <2>3. BackfillTypeOK'
    BY <1>3, <1>4, <2>2 DEF IInv, BackfillTypeOK
  <2>4. AskedOnce' /\ Bound'
    BY <1>3, <1>5 DEF IInv, AskedOnce, Bound
  <2>5. Piloting'
    BY <1>1, <1>2, <2>1, NoPilotQuarantines DEF Advance, Run, Piloting
  <2> QED BY <2>2, <2>3, <2>4, <2>5 DEF IInv
<1>11. \/ run' = None
       \/ \E count \in 0..(Ceiling - 1) :
            /\ Advance(count, run.processed + 1)
            /\ class = "REJECTED" => count = run.count + 1
  <2>1. CASE class = "EMPTY"
    <3>1. Advance(0, run.processed + 1)
      BY <2>1 DEF SetAside
    <3> QED BY <2>1, <3>1, BackfillAssumption
  <2>2. CASE class # "EMPTY" /\ run.count + 1 >= Ceiling
    BY <2>2 DEF SetAside
  <2>3. CASE class # "EMPTY" /\ ~(run.count + 1 >= Ceiling)
    <3>1. Advance(run.count + 1, run.processed + 1)
      BY <2>3 DEF SetAside
    <3>2. run.count + 1 \in 0..(Ceiling - 1)
      BY <1>8, <2>3, BackfillAssumption
    <3> QED BY <3>1, <3>2
  <2> QED BY <2>1, <2>2, <2>3
<1> QED BY <1>9, <1>10, <1>11

\* The loop is over.
LEMMA FinishKeeps == ASSUME IInv, Finish PROVE IInv'
<1>1. UNCHANGED <<snapshots, lineage, completed, gaps, litter, reports, faults>>
  BY DEF Finish
<1>2. run \in Run /\ run # None
  BY DEF Finish, IInv, BackfillTypeOK
<1>3. CASE run' = None
  BY <1>1, <1>3, EndKeeps DEF IInv, BackfillTypeOK
<1>4. CASE run.pilot # None /\ Completed = 1..run.pilot
  <2>1. run' = [run EXCEPT !.stage = "reconcile", !.at = 1]
    BY <1>4 DEF Finish
  <2>2. /\ run' \in Run /\ run'.stage = "reconcile" /\ run'.pilot = run.pilot
        /\ Quarantining(run') = Quarantining(run)
    <3>1. 1 \in 1..(NumRequests + 1)
      BY BackfillAssumption
    <3> QED BY <1>2, <2>1, <3>1 DEF Run, Quarantining
  <2>3. Completed' = Completed
    BY <1>1 DEF Completed
  <2>4. BackfillTypeOK'
    BY <1>1, <2>2 DEF IInv, BackfillTypeOK
  <2>5. AskedOnce' /\ Bound'
    BY <1>1, <2>3 DEF IInv, AskedOnce, Bound
  <2>6. Walking' /\ InHand' /\ Reconciling'
    BY <1>4, <2>2 DEF Walking, InHand, Reconciling
  <2>7. Piloting'
    BY <1>2, <1>4, <2>2, <2>3 DEF IInv, Piloting
  <2> QED BY <2>4, <2>5, <2>6, <2>7 DEF IInv
<1> QED BY <1>3, <1>4 DEF Finish

\* The pilot reconciles what it completed.
LEMMA ReconcileKeeps == ASSUME IInv, Reconcile PROVE IInv'
<1>1. UNCHANGED <<snapshots, lineage, completed, gaps, litter, faults>>
  BY DEF Reconcile
<1>2. run \in Run /\ run # None /\ run.stage = "reconcile" /\ run.pilot \in Requests
  BY DEF Reconcile, IInv, BackfillTypeOK, Reconciling, Run
<1>3. CASE run.at > run.pilot
  BY <1>1, <1>3, EndKeeps DEF Reconcile, IInv, BackfillTypeOK
<1>4. CASE ~(run.at > run.pilot)
  <2>1. reports' = reports \cup {completed[run.at]} /\ run' = [run EXCEPT !.at = @ + 1]
    BY <1>4 DEF Reconcile
  <2>2. run.at \in 1..run.pilot /\ run.at + 1 \in 1..(NumRequests + 1)
    BY <1>2, <1>4, BackfillAssumption DEF Run, Requests
  <2>3. completed[run.at] \in snapshots
    <3>1. run.at \in Completed
      BY <1>2, <2>2, BackfillAssumption DEF IInv, Piloting, Requests
    <3> QED BY <3>1 DEF Completed, IInv, BackfillTypeOK
  <2>4. /\ run' \in Run /\ run'.stage = "reconcile" /\ run'.pilot = run.pilot
        /\ Quarantining(run') = Quarantining(run)
    BY <1>2, <2>1, <2>2 DEF Run, Quarantining
  <2>5. Completed' = Completed
    BY <1>1 DEF Completed
  <2>6. BackfillTypeOK'
    BY <1>1, <2>1, <2>3, <2>4 DEF IInv, BackfillTypeOK
  <2>7. AskedOnce' /\ Bound'
    BY <1>1, <2>5 DEF IInv, AskedOnce, Bound
  <2>8. Walking' /\ InHand' /\ Reconciling' /\ Piloting'
    BY <1>2, <2>4, <2>5 DEF IInv, Walking, InHand, Reconciling, Piloting
  <2> QED BY <2>6, <2>7, <2>8 DEF IInv
<1> QED BY <1>3, <1>4

\* A run that raises or dies.
LEMMA RaiseKeeps == ASSUME IInv, Raise PROVE IInv'
BY EndKeeps DEF Raise, IInv, BackfillTypeOK

LEMMA DieKeeps == ASSUME IInv, Die PROVE IInv'
<1>1. faults' \in 0..MaxFaults
  BY BackfillAssumption DEF Die, IInv, BackfillTypeOK
<1> QED BY <1>1, EndKeeps DEF Die, IInv, BackfillTypeOK

LEMMA DieSettingAsideKeeps ==
  ASSUME IInv, NEW class \in Classes, DieSettingAside(class)
  PROVE  IInv'
<1>1. faults' \in 0..MaxFaults
  BY BackfillAssumption DEF DieSettingAside, IInv, BackfillTypeOK
<1>2. gaps' \in [Requests -> Gap \cup {None}]
  BY Kept DEF DieSettingAside, IInv, BackfillTypeOK
<1> QED BY <1>1, <1>2, EndKeeps DEF DieSettingAside, IInv, BackfillTypeOK

LEMMA StepKeeps == ASSUME IInv, [Next]_vars PROVE IInv'
<1>1. ASSUME NEW v \in Versions, NEW e \in BOOLEAN, NEW j \in BOOLEAN, NEW limit \in Limits,
             Start([version |-> v, empties |-> e, rejections |-> j], limit)
      PROVE  IInv'
  <2>1. [version |-> v, empties |-> e, rejections |-> j]
          \in [version : Versions, empties : BOOLEAN, rejections : BOOLEAN]
    OBVIOUS
  <2> QED BY <1>1, <2>1, StartKeeps
<1>2. ASSUME NEW v \in Versions, NEW prefix \in Requests, StartPilot(v, prefix)
      PROVE  IInv'
  BY <1>2, StartPilotKeeps
<1>3. CASE Step
  BY <1>3, SkipCompletedKeeps, SkipGapKeeps, RecoverKeeps, CollectKeeps, RecordKeeps,
     SetAsideKeeps, DieSettingAsideKeeps, RaiseKeeps, FinishKeeps, ReconcileKeeps, DieKeeps
  DEF Step
<1>4. CASE UNCHANGED vars
  <2>1. Completed' = Completed /\ Gapped' = Gapped /\ Refusals' = Refusals
    BY <1>4 DEF vars, Completed, Gapped, Refusals
  <2> QED BY <1>4, <2>1 DEF vars, IInv, BackfillTypeOK, AskedOnce, Bound, Walking, Behind,
                            InHand, AtMaximum, Piloting, Reconciling
<1> QED BY <1>1, <1>2, <1>3, <1>4 DEF Next

\* The inductive invariant: what the loop has behind it and what its counter
\* knows, beside the types and the properties.
THEOREM Invariance == Spec => []IInv
<1> QED BY Initially, StepKeeps, PTL DEF Spec

\* What the documents and the run under way are made of.
THEOREM TypeCorrect == Spec => []BackfillTypeOK
<1> QED BY Invariance, PTL DEF IInv

\* A restart records the snapshot that a dead run had published; it does not
\* ask the provider for it again.
THEOREM NeverAskedAgain == Spec => []AskedOnce
<1> QED BY Invariance, PTL DEF IInv

\* A pilot completes its prefix and nothing else, and only reconciles a
\* prefix that is complete.
THEOREM PilotExact == Spec => []PilotIsExact
<1>1. IInv => PilotIsExact
  BY DEF IInv, Piloting, PilotIsExact
<1> QED BY <1>1, Invariance, PTL

-----------------------------------------------------------------------------
(* The runs implement the collection.                                      *)

\* What the loop has behind it, as the collection says it.
LEMMA InOrder ==
  ASSUME IInv, run # None, run.stage # "reconcile", run.at \in Requests
  PROVE  /\ ~Collection!Stopped(run.at)
         /\ \A q \in 1..(run.at - 1) :
              Collection!Completed(q) \/ (Quarantining(run) /\ Collection!Unresolved(q))
<1> DEFINE r == run.at
<1>1. ~Stopped(Refusals, r) /\ Behind(r)
  BY DEF IInv, Walking
<1>2. r \in 1..NumRequests /\ NumRequests \in Nat /\ Ceiling \in Nat \ {0}
  BY BackfillAssumption DEF Requests
<1>3. \A q \in 1..(r - 1) : q \in Requests
  BY <1>2 DEF Requests
<1> HIDE DEF r
<1>4. ~Collection!Stopped(r)
  <2> SUFFICES ASSUME NEW first \in Requests, first + Ceiling <= r,
                      \A q \in first..(first + Ceiling - 1) : Collection!Refused(q)
               PROVE  FALSE
    BY DEF Collection!Stopped, Collection!Requests, Requests
  <2>1. \A q \in first..(first + Ceiling - 1) : q \in 1..(r - 1)
    BY <1>2 DEF Requests
  <2>2. \A q \in first..(first + Ceiling - 1) : q \in Refusals
    BY <2>1, <1>3 DEF Refusals, Gapped, Completed, Collection!Refused,
                      Collection!Unresolved, Collection!Completed
  <2> QED BY <1>1, <2>2 DEF Stopped
<1>5. \A q \in 1..(r - 1) :
        Collection!Completed(q) \/ (Quarantining(run) /\ Collection!Unresolved(q))
  BY <1>1, <1>3 DEF Behind, Completed, Gapped, Collection!Completed, Collection!Unresolved
<1> QED BY <1>4, <1>5 DEF r

\* A completion is one of the collection.
LEMMA SaveMaps ==
  ASSUME IInv, run # None, run.stage # "reconcile",
         run.at \in Requests \ Completed, ~(Quarantining(run) /\ run.at \in Gapped),
         NEW s \in Stored(run.at, run.version), Save(s), UNCHANGED <<lineage, gaps>>
  PROVE  Collection!Next
<1>1. /\ ~Collection!Stopped(run.at)
      /\ \A q \in 1..(run.at - 1) :
           Collection!Completed(q) \/ (Quarantining(run) /\ Collection!Unresolved(q))
  BY InOrder
<1>2. ~Collection!Completed(run.at) /\ (Quarantining(run) => gaps[run.at] = None)
  BY DEF Completed, Gapped, Collection!Completed
<1>3. s \in Snapshot /\ s.request = run.at /\ s.version = lineage
  BY DEF Stored, IInv, BackfillTypeOK, Walking
<1>4. Collection!Complete(run.at, s)
  BY <1>1, <1>2, <1>3 DEF Save, Collection!Complete
<1> QED BY <1>3, <1>4 DEF Collection!Next, Collection!Requests, Requests

\* Evidence of a gap is one of the collection.
LEMMA KeepMaps ==
  ASSUME IInv, NEW class \in Classes, Asking, Option(run, class), Keep(class),
         UNCHANGED <<lineage, completed>>
  PROVE  Collection!Next
<1>1. /\ run # None /\ run.stage = "request" /\ run.at \in Requests \ Completed
      /\ run.at \notin Gapped /\ Quarantining(run)
  <2>1. run.at \in Requests
    BY BackfillAssumption DEF Asking, Open, AtRequest, IInv, BackfillTypeOK, Run, Requests
  <2>2. Quarantining(run)
    BY DEF Option, Quarantining
  <2> QED BY <2>1, <2>2 DEF Asking, Open, AtRequest
<1>2. /\ ~Collection!Stopped(run.at)
      /\ \A q \in 1..(run.at - 1) : Collection!Completed(q) \/ Collection!Unresolved(q)
  BY <1>1, InOrder
<1>3. ~Collection!Completed(run.at) /\ gaps[run.at] = None
  BY <1>1 DEF Completed, Gapped, Collection!Completed
<1>4. \A q \in Requests : ~(Collection!Completed(q) /\ gaps[q] # None)
  BY <1>1 DEF IInv, Walking, Completed, Gapped, Collection!Completed
<1>5. lineage = run.version
  BY <1>1 DEF IInv, Walking
<1>6. Collection!SetAside(run.at, class)
  BY <1>2, <1>3, <1>4, <1>5 DEF Keep, Collection!SetAside, Collection!Requests, Requests
<1> QED BY <1>1, <1>6 DEF Collection!Next, Collection!Requests, Requests, Classes

\* A new progress document is bound to the version of its first run.
LEMMA BindMaps ==
  ASSUME NEW v \in Versions, lineage \in {None, v}, lineage' = v, UNCHANGED <<completed, gaps>>
  PROVE  Collection!Next \/ UNCHANGED Collection!vars
BY DEF Collection!Next, Collection!Bind, Collection!vars

LEMMA StepMaps == ASSUME IInv, [Next]_vars PROVE [Collection!Next]_Collection!vars
<1>1. ASSUME NEW v \in Versions, NEW e \in BOOLEAN, NEW j \in BOOLEAN, NEW limit \in Limits,
             Start([version |-> v, empties |-> e, rejections |-> j], limit)
      PROVE  Collection!Next \/ UNCHANGED Collection!vars
  BY <1>1, BindMaps DEF Start, Resumable
<1>2. ASSUME NEW v \in Versions, NEW prefix \in Requests, StartPilot(v, prefix)
      PROVE  Collection!Next \/ UNCHANGED Collection!vars
  <2>1. lineage \in {None, v} /\ UNCHANGED <<completed, gaps>>
    BY <1>2 DEF StartPilot, Resumable
  <2>2. lineage' = v \/ UNCHANGED lineage
    BY <1>2 DEF StartPilot
  <2> QED BY <2>1, <2>2, BindMaps DEF Collection!vars
<1>3. CASE Recover
  <2>1. PICK s \in Stored(run.at, run.version) : Save(s)
    BY <1>3 DEF Recover
  <2>2. run.at \in Requests
    BY <1>3, BackfillAssumption DEF Recover, Open, AtRequest, IInv, BackfillTypeOK, Run, Requests
  <2> QED BY <1>3, <2>1, <2>2, SaveMaps DEF Recover, Open, AtRequest
<1>4. CASE Record
  <2>1. PICK s \in Stored(run.at, run.version) : Save(s)
    BY <1>4 DEF Record
  <2>2. run.at \in Requests \ Completed /\ ~(Quarantining(run) /\ run.at \in Gapped)
    BY <1>4 DEF Record, IInv, InHand
  <2> QED BY <1>4, <2>1, <2>2, SaveMaps DEF Record
<1>5. ASSUME NEW class \in Classes, SetAside(class)
      PROVE  Collection!Next
  BY <1>5, KeepMaps DEF SetAside
<1>6. ASSUME NEW class \in Classes, DieSettingAside(class)
      PROVE  Collection!Next \/ UNCHANGED Collection!vars
  <2>1. CASE Keep(class)
    BY <1>6, <2>1, KeepMaps DEF DieSettingAside
  <2>2. CASE UNCHANGED gaps
    BY <1>6, <2>2 DEF DieSettingAside, Collection!vars
  <2> QED BY <1>6, <2>1, <2>2 DEF DieSettingAside
<1>7. CASE SkipCompleted \/ SkipGap \/ Collect \/ Raise \/ Finish \/ Reconcile \/ Die
           \/ UNCHANGED vars
  BY <1>7 DEF SkipCompleted, SkipGap, Collect, Raise, Finish, Reconcile, Die, vars,
              Collection!vars
<1> QED BY <1>1, <1>2, <1>3, <1>4, <1>5, <1>6, <1>7 DEF Next, Step

\* Runs with other options, maxima and versions, some of which die, keep to
\* one collection: every request in plan order is completed or set aside
\* once, of one version, with nothing past the ceiling.
THEOREM CollectionRefined == Spec => ImplementsCollection
<1>1. Init => Collection!Init
  BY DEF Init, Collection!Init, Collection!Requests, Requests
<1> QED BY <1>1, Invariance, StepMaps, PTL DEF Spec, ImplementsCollection, Collection!CollectionSpec
=============================================================================
