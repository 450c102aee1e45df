--------------------------- MODULE TrialLifecycle ---------------------------
(***************************************************************************)
(* The research trials of one strategy family: their registrations, the    *)
(* evidence of their runs, the family aggregates made of it, and each      *)
(* trial's chain of life-cycle events (evaluation/).                       *)
(*                                                                         *)
(* Every store is written by several processes.  Each has a lock of its    *)
(* own, so that what an append has read of the registry may be outdated    *)
(* when its event is linked; an append dies with its temporary file left   *)
(* in the directory of the trial.                                          *)
(***************************************************************************)
EXTENDS TrialFamily, Sequences, SequencesExt

CONSTANTS
  Trials,        \* every registration that may be made, by its trial id
  ParentOf,      \* trial -> parent_trial_id or None
  Confirmatory,  \* the trials of that stage; the others are exploratory
  HoldoutOf,     \* trial -> its sealed holdout or None
  Comparisons,   \* every comparison that a run may generate
  TrialOf,       \* comparison -> its trial
  BatchOf,       \* comparison -> the intent batches it was evaluated on
  EvidenceOf,    \* comparison -> what its folds say
  Passing,       \* the comparisons that pass every trading threshold
  Offers,        \* bound: the types of event that are tried
  MaxEvents,     \* trial -> bound on its events
  MaxAccesses,   \* bound on the holdout accesses of a trial
  MaxFaults,     \* bound on deaths of appends
  None           \* nothing there

ASSUME TrialAssumption ==
  /\ ParentOf \in [Trials -> Trials \cup {None}] /\ \A t \in Trials : ParentOf[t] # t
  /\ Confirmatory \subseteq Trials /\ \A t \in Confirmatory : HoldoutOf[t] # None
  /\ TrialOf \in [Comparisons -> Trials] /\ Passing \subseteq Comparisons
  /\ \A c \in Comparisons : SoundEvidence(EvidenceOf[c]) /\ BatchOf[c] # None
  /\ MaxEvents \in [Trials -> Nat] /\ MaxAccesses \in Nat /\ MaxFaults \in Nat
  /\ None \notin Trials \cup Comparisons

\* No two trials have one id.
ASSUME IdAssumption ==
  IdOrder \in [Trials -> Nat] /\ \A t, u \in Trials : IdOrder[t] = IdOrder[u] => t = u

Accesses == {"FEATURES_ACCESSED", "LABELS_ACCESSED", "RESULTS_ACCESSED"}

Outcomes == {"COMPLETED", "FAILED", "ABORTED"}

EventTypes == {"STARTED", "UNSEALED", "PROMOTED", "INVALIDATED"} \cup Accesses \cup Outcomes

ASSUME OffersAssumption == Offers \subseteq EventTypes

\* TrialLifecycleEvent: a completion carries its comparison, and a promotion
\* the family of its aggregate.
Event == [type : EventTypes, comparison : Comparisons \cup {None}, family : SUBSET Trials]

Plain(type) == [type |-> type, comparison |-> None, family |-> {}]

Completion(c) == [Plain("COMPLETED") EXCEPT !.comparison = c]

Promotion(S) == [Plain("PROMOTED") EXCEPT !.family = S]

\* FamilyTrialDecision, as far as a promotion looks at it.
Decision == [comparison : Comparisons, rejected : BOOLEAN, eligible : BOOLEAN]

VARIABLES
  registered,   \* the trials in the registry
  batch,        \* trial -> the intent batches stored for it, or None
  comparisons,  \* the comparisons in the comparison store
  runs,         \* trial -> the comparison of its run manifest, or None
  aggregates,   \* family snapshot -> decision of each of its trials, or None
  chain,        \* trial -> its events
  appending,    \* the append that holds the events lock, or None
  litter,       \* trials whose directory holds a temporary file
  faults

evidence == <<registered, batch, comparisons, runs, aggregates>>
vars == <<evidence, chain, appending, litter, faults>>

Pending == [trial : Trials, event : Event]

TrialTypeOK ==
  /\ registered \subseteq Trials /\ litter \subseteq Trials
  /\ comparisons \subseteq Comparisons
  /\ batch \in [Trials -> {BatchOf[c] : c \in Comparisons} \cup {None}]
  /\ runs \in [Trials -> Comparisons \cup {None}]
  /\ DOMAIN aggregates = SUBSET Trials
  /\ \A S \in SUBSET Trials : aggregates[S] \in [S -> Decision] \cup {None}
  /\ chain \in [Trials -> Seq(Event)]
  /\ appending \in Pending \cup {None}
  /\ faults \in 0 .. MaxFaults

Init ==
  /\ registered = {} /\ comparisons = {} /\ litter = {} /\ faults = 0
  /\ batch = [t \in Trials |-> None] /\ runs = [t \in Trials |-> None]
  /\ aggregates = [S \in SUBSET Trials |-> None]
  /\ chain = [t \in Trials |-> <<>>] /\ appending = None

-----------------------------------------------------------------------------
(* The registry, and the evidence. *)

\* The first trial of a family has no parent, and every other one of the family.
Registrable(t) ==
  IF registered = {} THEN ParentOf[t] = None ELSE ParentOf[t] \in registered

Register(t) ==
  /\ t \notin registered /\ Registrable(t)
  /\ registered' = registered \cup {t}
  /\ UNCHANGED <<batch, comparisons, runs, aggregates, chain, appending, litter, faults>>

\* A run is published in three steps: the batches, one pair per trial, the
\* comparison, which its store takes of any registered trial, and the manifest,
\* one per trial.  Each step finds what an earlier attempt has left and refuses
\* anything else.
PublishBatch(c) ==
  LET t == TrialOf[c] IN
  /\ t \in registered /\ batch[t] = None
  /\ batch' = [batch EXCEPT ![t] = BatchOf[c]]
  /\ UNCHANGED <<registered, comparisons, runs, aggregates, chain, appending, litter, faults>>

PublishComparison(c) ==
  /\ TrialOf[c] \in registered /\ c \notin comparisons
  /\ comparisons' = comparisons \cup {c}
  /\ UNCHANGED <<registered, batch, runs, aggregates, chain, appending, litter, faults>>

PublishRun(c) ==
  /\ batch[TrialOf[c]] = BatchOf[c] /\ c \in comparisons
  /\ runs[TrialOf[c]] = None
  /\ runs' = [runs EXCEPT ![TrialOf[c]] = c]
  /\ UNCHANGED <<registered, batch, comparisons, aggregates, chain, appending, litter, faults>>

\* Decisions on the family as it is registered now, from the run of each trial.
Decisions(S) ==
  LET ev == [t \in S |-> EvidenceOf[runs[t]]] IN
  [t \in S |-> [comparison |-> runs[t],
                rejected |-> Rejected(t, S, ev),
                eligible |-> Rejected(t, S, ev) /\ runs[t] \in Passing]]

\* A mutation. An aggregate is made of the runs there are.
AggregateAnyway ==
  LET run == {t \in registered : runs[t] # None} IN
  /\ run # {} /\ aggregates[registered] = None
  /\ aggregates' = [aggregates EXCEPT ![registered] = Decisions(run)]
  /\ UNCHANGED <<registered, batch, comparisons, runs, chain, appending, litter, faults>>

Aggregate ==
  /\ registered # {} /\ \A t \in registered : runs[t] # None
  /\ aggregates[registered] = None
  /\ aggregates' = [aggregates EXCEPT ![registered] = Decisions(registered)]
  /\ UNCHANGED <<registered, batch, comparisons, runs, chain, appending, litter, faults>>

-----------------------------------------------------------------------------
(* The events of a trial. *)

Has(t, type) == \E i \in DOMAIN chain[t] : chain[t][i].type = type

Ended(t) == \E type \in Outcomes : Has(t, type)

CompletedWith(t) == {chain[t][i].comparison : i \in {j \in DOMAIN chain[t] : chain[t][j].type = "COMPLETED"}}

\* A list of events is read from every file of the trial's directory, and a
\* temporary file makes it fail.
Readable(t) == t \notin litter

\* What _validate_history lets follow the events there are.
MayFollow(t, e) ==
  /\ ~Has(t, "INVALIDATED")
  /\ Has(t, "PROMOTED") => e.type = "INVALIDATED"
  /\ Ended(t) => \/ e.type = "INVALIDATED"
                 \/ e.type = "PROMOTED" /\ Has(t, "COMPLETED")
  /\ e.type = "STARTED" <=> chain[t] = <<>>
  /\ e.type = "UNSEALED" => ~Has(t, "UNSEALED") /\ HoldoutOf[t] # None
  /\ e.type \in Accesses => Has(t, "UNSEALED")
  /\ e.type = "COMPLETED" /\ t \in Confirmatory => Has(t, "RESULTS_ACCESSED")
  /\ e.type = "PROMOTED" => Has(t, "COMPLETED")

\* A mutation. Only what the parent's results have shown counts as contamination.
UntaintedUnlessRead(t) ==
  LET p == ParentOf[t] IN
  p # None =>
    /\ Readable(p)
    /\ ~(Has(p, "RESULTS_ACCESSED") /\ t \in Confirmatory /\ HoldoutOf[t] = HoldoutOf[p])

\* _reject_contaminated_confirmatory_successor
Untainted(t) ==
  LET p == ParentOf[t] IN
  p # None =>
    /\ Readable(p)
    /\ ~(Has(p, "UNSEALED") /\ t \in Confirmatory /\ HoldoutOf[t] = HoldoutOf[p])

\* A mutation. Any stored aggregate will do, not only that of the current family.
SupportedByAnySnapshot(t, e) ==
  /\ e.type = "COMPLETED" => e.comparison \in comparisons /\ TrialOf[e.comparison] = t
  /\ e.type = "STARTED" => Untainted(t)
  /\ e.type = "PROMOTED" =>
       /\ t \in e.family /\ aggregates[e.family] # None
       /\ aggregates[e.family][t].eligible
       /\ aggregates[e.family][t].comparison \in CompletedWith(t)

\* A mutation. A promotion looks at the aggregate and not at what the trial was completed with.
SupportedByAggregate(t, e) ==
  /\ e.type = "COMPLETED" => e.comparison \in comparisons /\ TrialOf[e.comparison] = t
  /\ e.type = "STARTED" => Untainted(t)
  /\ e.type = "PROMOTED" =>
       e.family = registered /\ aggregates[e.family] # None /\ aggregates[e.family][t].eligible

\* What append asks of an event: before the lock is taken, and again under it.
Supported(t, e) ==
  /\ e.type = "COMPLETED" => e.comparison \in comparisons /\ TrialOf[e.comparison] = t
  /\ e.type = "STARTED" => Untainted(t)
  /\ e.type = "PROMOTED" =>
       /\ e.family = registered /\ aggregates[e.family] # None
       /\ aggregates[e.family][t].eligible
       /\ aggregates[e.family][t].comparison \in CompletedWith(t)

Offered ==
  {Plain(type) : type \in Offers \ {"COMPLETED", "PROMOTED"}}
    \cup {Completion(c) : c \in Comparisons} \cup {Promotion(S) : S \in SUBSET registered}

Bounded(t, e) ==
  /\ Len(chain[t]) < MaxEvents[t]
  /\ e.type \in Accesses =>
       Cardinality({i \in DOMAIN chain[t] : chain[t][i].type \in Accesses}) < MaxAccesses

\* The lock is taken, everything is checked, and the event is in its temporary
\* file.
Begin(t, e) ==
  /\ appending = None /\ t \in registered /\ Readable(t)
  /\ Supported(t, e) /\ MayFollow(t, e) /\ Bounded(t, e)
  /\ appending' = [trial |-> t, event |-> e]
  /\ UNCHANGED <<evidence, chain, litter, faults>>

Linked == [chain EXCEPT ![appending.trial] = Append(@, appending.event)]

\* The event is linked, its temporary file removed, and the lock released.
Link ==
  /\ appending # None
  /\ chain' = Linked /\ appending' = None
  /\ UNCHANGED <<evidence, litter, faults>>

\* The link fails: the file is removed all the same.
Cancel ==
  /\ appending # None
  /\ appending' = None
  /\ UNCHANGED <<evidence, chain, litter, faults>>

\* The process dies before or after the link; its file stays, its lock does not.
Die ==
  /\ appending # None /\ faults < MaxFaults
  /\ chain' \in {chain, Linked}
  /\ litter' = litter \cup {appending.trial} /\ appending' = None /\ faults' = faults + 1
  /\ UNCHANGED evidence

Next ==
  \/ \E t \in Trials : Register(t)
  \/ \E c \in Comparisons : PublishBatch(c) \/ PublishComparison(c) \/ PublishRun(c)
  \/ Aggregate
  \/ \E t \in Trials : \E e \in Offered : Begin(t, e)
  \/ Link \/ Cancel \/ Die

Spec == Init /\ [][Next]_vars

-----------------------------------------------------------------------------
(* Properties. *)

Before(t, i, type) == \E j \in 1 .. i - 1 : chain[t][j].type = type

\* What stands behind a promotion, now that it is in the chain: an aggregate of
\* the trial's family whose decision is on the very comparison that the trial
\* was completed with, which is that of its one run, and which passed; and a
\* confirmatory trial had its results read from an unsealed holdout before.
PromotedOnEvidence ==
  \A t \in Trials : \A i \in DOMAIN chain[t] : chain[t][i].type = "PROMOTED" =>
    LET S == chain[t][i].family IN
    /\ t \in S /\ S \subseteq registered /\ aggregates[S] # None
    /\ aggregates[S][t].rejected /\ aggregates[S][t].comparison = runs[t]
    /\ runs[t] \in comparisons \cap Passing /\ TrialOf[runs[t]] = t
    /\ CompletedWith(t) = {runs[t]} /\ Before(t, i, "COMPLETED")
    /\ t \in Confirmatory => Before(t, i, "UNSEALED") /\ Before(t, i, "RESULTS_ACCESSED")

\* The decisions of an aggregate that is stored are those of the closed test on
\* the evidence of the runs, so that the whole family errs with probability
\* alpha at most, however its trials are ranked.
HolmIsClosedTest ==
  [][\A S \in SUBSET Trials : aggregates'[S] # aggregates[S] =>
       LET ev == [u \in S |-> EvidenceOf[runs[u]]] IN
       \A t \in S : aggregates'[S][t].rejected = ClosedTest(t, S, ev)]_vars

\* A promotion accounts for every attempted variant: when its event is linked,
\* no trial outside the family of its aggregate has been started, whatever was
\* registered since the aggregate was checked.
PromotedAmongAllStarted ==
  [][\A t \in Trials :
       Len(chain'[t]) > Len(chain[t]) /\ Last(chain'[t]).type = "PROMOTED" =>
         \A u \in Trials : chain[u] # <<>> => u \in Last(chain'[t]).family]_vars

\* The records keep the promises of TrialHistory.
OutcomeOf(t) ==
  LET ends == {i \in DOMAIN chain[t] : chain[t][i].type \in Outcomes}
      last == chain[t][CHOOSE i \in ends : TRUE]
  IN  IF ends = {} THEN None ELSE IF last.type = "COMPLETED" THEN last.comparison ELSE last.type

History == INSTANCE TrialHistory WITH
  Results <- Comparisons,
  Tainting <- {<<ParentOf[t], t>> : t \in {u \in Confirmatory :
                 ParentOf[u] # None /\ HoldoutOf[u] = HoldoutOf[ParentOf[u]]}},
  started <- {t \in Trials : chain[t] # <<>>},
  unsealed <- {t \in Trials : Has(t, "UNSEALED")},
  outcome <- [t \in Trials |-> OutcomeOf(t)],
  promoted <- {t \in Trials : Has(t, "PROMOTED")},
  invalidated <- {t \in Trials : Has(t, "INVALIDATED")}

ImplementsHistory == History!Spec

\* "After a parent's holdout is unsealed, a confirmatory successor cannot reuse
\* that holdout": it does not unseal it once more for itself.
SpentHoldoutsStaySpent ==
  [][\A t \in Confirmatory :
       ParentOf[t] # None /\ chain'[t] # chain[t] /\ Last(chain'[t]).type = "UNSEALED" =>
         ~(Has(ParentOf[t], "UNSEALED") /\ HoldoutOf[ParentOf[t]] = HoldoutOf[t])]_vars
=============================================================================
