----------------------- MODULE HistoricalBackfill -----------------------
(* HistoricalBackfillRunner.run and HistoricalBackfillPilotService.run     *)
(* over one plan: the snapshots, the progress document, the gap evidence   *)
(* and the reconciliation reports they leave, run after run.  A run may    *)
(* use another connector version, other quarantine options or another      *)
(* maximum than the last, and may die at any point.  The progress store is *)
(* documented as single-runner, so one run is under way at a time and what *)
(* it read at its start is what is stored.  Times and the check that the   *)
(* clock does not run backwards are left out.                              *)
EXTENDS Integers, FiniteSets

CONSTANTS
  NumRequests,  \* requests of the plan, numbered in its order
  Versions,     \* provider_version of the connectors that are used
  Limits,       \* maximum_requests that are passed; None for no maximum
  Ceiling,      \* MAXIMUM_CONSECUTIVE_HISTORICAL_REQUEST_REJECTIONS
  MaxAsks,      \* bound on the snapshots of one request and version
  MaxFaults,    \* bound on the runs that die
  None

Requests == 1..NumRequests
Classes == {"EMPTY", "REJECTED"}
Snapshot == [request : Requests, version : Versions, nth : 1..MaxAsks]
Gap == [class : Classes, version : Versions]

ASSUME BackfillAssumption ==
  /\ NumRequests \in Nat
  /\ Limits \subseteq (Nat \ {0}) \cup {None}
  /\ Ceiling \in Nat \ {0}
  /\ MaxAsks \in Nat \ {0}
  /\ MaxFaults \in Nat
  /\ None \notin Versions \cup Nat \cup Snapshot \cup Gap

VARIABLES
  snapshots,  \* published snapshots of the provider's batches
  lineage,    \* connector_version of the progress document, None without one
  completed,  \* its completions: the snapshot of each request
  gaps,       \* unresolved gap evidence of each request
  litter,     \* a temporary file was left in a gap directory
  reports,    \* snapshots that have a reconciliation report
  run,        \* the run under way
  faults

vars == <<snapshots, lineage, completed, gaps, litter, reports, run, faults>>

Run == [version : Versions, empties : BOOLEAN, rejections : BOOLEAN,
        limit : Nat \cup {None}, pilot : Requests \cup {None},
        stage : {"request", "record", "reconcile"}, at : 1..(NumRequests + 1),
        count : 0..(Ceiling - 1), processed : 0..NumRequests]

BackfillTypeOK ==
  /\ snapshots \subseteq Snapshot
  /\ lineage \in Versions \cup {None}
  /\ completed \in [Requests -> snapshots \cup {None}]
  /\ gaps \in [Requests -> Gap \cup {None}]
  /\ litter \in BOOLEAN
  /\ reports \subseteq snapshots
  /\ run \in Run \cup {None}
  /\ faults \in 0..MaxFaults

Init ==
  /\ snapshots = {} /\ reports = {}
  /\ lineage = None
  /\ completed = [r \in Requests |-> None]
  /\ gaps = [r \in Requests |-> None]
  /\ litter = FALSE
  /\ run = None
  /\ faults = 0

Completed == {r \in Requests : completed[r] # None}
Gapped == {r \in Requests : gaps[r] # None}
Stored(r, v) == {s \in snapshots : s.request = r /\ s.version = v}

-----------------------------------------------------------------------------
(* Starting a run.                                                         *)

Quarantining(o) == o.empties \/ o.rejections
Option(o, class) == IF class = "EMPTY" THEN o.empties ELSE o.rejections

\* load_unresolved reads every entry of the gap directories.
GapsLoad(o) ==
  /\ ~litter
  /\ \A r \in Gapped : gaps[r].version = o.version /\ Option(o, gaps[r].class)

\* The checks of run before its loop; only a quarantining run looks at gaps.
Resumable(o) ==
  /\ Quarantining(o) => GapsLoad(o) /\ Completed \cap Gapped = {}
  /\ lineage \in {None, o.version}
  /\ \A r \in Completed : completed[r] \in Stored(r, o.version)

Underway(o, limit, pilot) ==
  [version |-> o.version, empties |-> o.empties, rejections |-> o.rejections,
   limit |-> limit, pilot |-> pilot,
   stage |-> "request", at |-> 1, count |-> 0, processed |-> 0]

\* The command run, which saves an empty progress document when there is none.
Start(o, limit) ==
  /\ run = None
  /\ Resumable(o)
  /\ lineage' = o.version
  /\ run' = Underway(o, limit, None)
  /\ UNCHANGED <<snapshots, completed, gaps, litter, reports, faults>>

\* Mutant of RemainingCapacity: the whole prefix, as if nothing were completed.
RemainingWholePrefix(prefix) == prefix

\* What the pilot still asks of the runner.
RemainingCapacity(prefix) == prefix - Cardinality(Completed)

\* The command pilot, over the first requests of the plan and without gaps.
StartPilot(v, prefix) ==
  LET o == [version |-> v, empties |-> FALSE, rejections |-> FALSE]
      started == Underway(o, RemainingCapacity(prefix), prefix)
  IN /\ run = None
     /\ Completed \subseteq 1..prefix
     /\ Resumable(o)
     /\ IF RemainingCapacity(prefix) > 0
          THEN lineage' = v /\ run' = started
          ELSE UNCHANGED lineage /\ run' = [started EXCEPT !.stage = "reconcile"]
     /\ UNCHANGED <<snapshots, completed, gaps, litter, reports, faults>>

-----------------------------------------------------------------------------
(* The loop over the plan.                                                 *)

AtRequest == run # None /\ run.stage = "request" /\ run.at <= NumRequests
Advance(count, processed) ==
  run' = [run EXCEPT !.stage = "request", !.at = @ + 1, !.count = count, !.processed = processed]

\* The request at hand is neither completed nor, for a quarantining run, a gap.
Open == /\ AtRequest
        /\ run.at \notin Completed
        /\ ~(Quarantining(run) /\ run.at \in Gapped)
AtMaximum == run.limit # None /\ run.processed >= run.limit

SkipCompleted ==
  /\ AtRequest
  /\ run.at \in Completed
  /\ Advance(0, run.processed)
  /\ UNCHANGED <<snapshots, lineage, completed, gaps, litter, reports, faults>>

\* Mutant of SkipGap: the rejections of earlier runs are not counted.
SkipGapUncounted ==
  /\ AtRequest /\ Quarantining(run)
  /\ run.at \in Gapped \ Completed
  /\ Advance(0, run.processed)
  /\ UNCHANGED <<snapshots, lineage, completed, gaps, litter, reports, faults>>

\* The rejections of earlier runs count towards the ceiling.
SkipGap ==
  /\ AtRequest /\ Quarantining(run)
  /\ run.at \in Gapped \ Completed
  /\ IF gaps[run.at].class = "EMPTY" THEN Advance(0, run.processed)
     ELSE IF run.count + 1 >= Ceiling THEN run' = None
     ELSE Advance(run.count + 1, run.processed)
  /\ UNCHANGED <<snapshots, lineage, completed, gaps, litter, reports, faults>>

\* The progress store replaces its document atomically.
Save(s) ==
  /\ completed' = [completed EXCEPT ![run.at] = s]
  /\ Advance(0, run.processed + 1)

\* _recover_existing: a snapshot of this version that no completion names,
\* the oldest of them.
Recover ==
  /\ Open /\ ~AtMaximum
  /\ \E s \in Stored(run.at, run.version) :
       /\ \A t \in Stored(run.at, run.version) : s.nth <= t.nth
       /\ Save(s)
  /\ UNCHANGED <<snapshots, lineage, gaps, litter, reports, faults>>

\* Mutant of Asking: without looking for a snapshot that no completion names.
AskingAtOnce == Open /\ ~AtMaximum

\* The provider is asked.
Asking == Open /\ ~AtMaximum /\ Stored(run.at, run.version) = {}

\* It answers with candles, which are published at once.
Collect ==
  /\ Asking
  /\ LET nth == Cardinality(Stored(run.at, run.version)) + 1
     IN /\ nth <= MaxAsks
        /\ snapshots' = snapshots \cup {[request |-> run.at, version |-> run.version, nth |-> nth]}
  /\ run' = [run EXCEPT !.stage = "record"]
  /\ UNCHANGED <<lineage, completed, gaps, litter, reports, faults>>

\* The completion of what was just collected.
Record ==
  /\ run # None /\ run.stage = "record"
  /\ \E s \in Stored(run.at, run.version) :
       /\ s.nth = Cardinality(Stored(run.at, run.version))
       /\ Save(s)
  /\ UNCHANGED <<snapshots, lineage, gaps, litter, reports, faults>>

\* LocalHistoricalBackfillSessionGapStore.put links the evidence of a gap.
Keep(class) == gaps' = [gaps EXCEPT ![run.at] = [class |-> class, version |-> run.version]]

\* Mutant of SetAside: stops only past the ceiling.
SetAsidePastCeiling(class) ==
  /\ Asking /\ Option(run, class)
  /\ Keep(class)
  /\ IF class = "EMPTY" THEN Advance(0, run.processed + 1)
     ELSE IF run.count + 1 > Ceiling THEN run' = None
     ELSE Advance(run.count + 1, run.processed + 1)
  /\ UNCHANGED <<snapshots, lineage, completed, litter, reports, faults>>

\* It has no rows, or rejects the request, and the option for that is given.
SetAside(class) ==
  /\ Asking /\ Option(run, class)
  /\ Keep(class)
  /\ IF class = "EMPTY" THEN Advance(0, run.processed + 1)
     ELSE IF run.count + 1 >= Ceiling THEN run' = None
     ELSE Advance(run.count + 1, run.processed + 1)
  /\ UNCHANGED <<snapshots, lineage, completed, litter, reports, faults>>

\* It fails in any other way, or in one of these without the option; or a
\* reconciliation of the pilot fails.
Raise ==
  /\ Asking \/ (run # None /\ run.stage = "reconcile")
  /\ run' = None
  /\ UNCHANGED <<snapshots, lineage, completed, gaps, litter, reports, faults>>

\* The plan or the maximum is exhausted.  The pilot wants its prefix exactly.
Finish ==
  /\ run # None /\ run.stage = "request"
  /\ run.at > NumRequests \/ (Open /\ AtMaximum)
  /\ run' = IF run.pilot # None /\ Completed = 1..run.pilot
              THEN [run EXCEPT !.stage = "reconcile", !.at = 1]
              ELSE None
  /\ UNCHANGED <<snapshots, lineage, completed, gaps, litter, reports, faults>>

\* The pilot reconciles the batches of its prefix one by one.
Reconcile ==
  /\ run # None /\ run.stage = "reconcile"
  /\ IF run.at > run.pilot
       THEN run' = None /\ UNCHANGED reports
       ELSE /\ reports' = reports \cup {completed[run.at]}
            /\ run' = [run EXCEPT !.at = @ + 1]
  /\ UNCHANGED <<snapshots, lineage, completed, gaps, litter, faults>>

-----------------------------------------------------------------------------
(* Dying.  What a run was publishing is there or not; only the gap store   *)
(* leaves its temporary file where it is read again.                       *)

Die ==
  /\ run # None /\ faults < MaxFaults
  /\ run' = None /\ faults' = faults + 1
  /\ UNCHANGED <<snapshots, lineage, completed, gaps, litter, reports>>

DieSettingAside(class) ==
  /\ Asking /\ Option(run, class) /\ faults < MaxFaults
  /\ Keep(class) \/ UNCHANGED gaps
  /\ litter' = TRUE
  /\ run' = None /\ faults' = faults + 1
  /\ UNCHANGED <<snapshots, lineage, completed, reports>>

Step ==
  \/ SkipCompleted
  \/ SkipGap
  \/ Recover
  \/ Collect
  \/ Record
  \/ \E class \in Classes : SetAside(class) \/ DieSettingAside(class)
  \/ Raise
  \/ Finish
  \/ Reconcile
  \/ Die

Next ==
  \/ \E v \in Versions, e, j \in BOOLEAN, limit \in Limits :
       Start([version |-> v, empties |-> e, rejections |-> j], limit)
  \/ \E v \in Versions, prefix \in Requests : StartPilot(v, prefix)
  \/ Step

Spec == Init /\ [][Next]_vars

-----------------------------------------------------------------------------
(* Properties.                                                             *)

\* A snapshot that was published is never asked of the provider again with
\* its version, although the run that published it died before it saved the
\* completion: "the runner discovers the exact request snapshot and records
\* it without another provider call".
AskedOnce == \A s, t \in snapshots : s.request = t.request /\ s.version = t.version => s = t

\* The runner the pilot starts completes what is left of the prefix and
\* nothing else, whatever earlier runs completed or set aside, and only a
\* prefix that is complete is reconciled.
PilotIsExact ==
  run # None /\ run.pilot # None =>
    /\ Completed \subseteq 1..run.pilot
    /\ run.stage = "reconcile" => Completed = 1..run.pilot

Collection == INSTANCE HistoricalCollection

\* Restarts with other options, maxima and versions keep to one collection:
\* in plan order, of one version, each request completed or set aside once,
\* nothing beyond adjacent rejections at the ceiling, and no gap once a
\* request is both complete and unresolved.
ImplementsCollection == Collection!CollectionSpec
=============================================================================
