------------------------ MODULE TrialLifecycleProofs ------------------------
(***************************************************************************)
(* The records of a strategy family keep their types, a promotion stands   *)
(* on the evidence of the trial and of all that was started, and the       *)
(* chains of events implement TrialHistory: for every family, every run of *)
(* it, and every number of appends and deaths.                             *)
(***************************************************************************)
EXTENDS TrialLifecycle, FiniteSums, TLAPS

\* The run of a trial is one of its comparisons.
RunsInv ==
  \A t \in Trials : runs[t] # None => runs[t] \in comparisons /\ TrialOf[runs[t]] = t

\* A stored aggregate still decides on the runs there are, and nothing that
\* its test has not rejected is eligible.
AggregatesInv ==
  \A S \in SUBSET Trials : aggregates[S] # None =>
    /\ S \subseteq registered
    /\ \A t \in S :
         /\ aggregates[S][t].comparison = runs[t] /\ runs[t] # None
         /\ aggregates[S][t].eligible => aggregates[S][t].rejected /\ runs[t] \in Passing

\* What the events of a trial say of each other.
Consistent(t) ==
  /\ chain[t] # <<>> => t \in registered
  /\ \A i, j \in DOMAIN chain[t] :
       chain[t][i].type \in Outcomes /\ chain[t][j].type \in Outcomes => i = j
  /\ \A i \in DOMAIN chain[t] :
       chain[t][i].type = "COMPLETED" => chain[t][i].comparison \in comparisons
  /\ Has(t, "RESULTS_ACCESSED") => Has(t, "UNSEALED")
  /\ Has(t, "COMPLETED") /\ t \in Confirmatory => Has(t, "RESULTS_ACCESSED")

\* What append has checked and nobody can take back before it links.
Warranted(t, e) ==
  /\ t \in registered
  /\ MayFollow(t, e)
  /\ e.type = "COMPLETED" => e.comparison \in comparisons
  /\ e.type = "STARTED" => Untainted(t)
  /\ e.type = "PROMOTED" =>
       /\ t \in e.family /\ aggregates[e.family] # None
       /\ aggregates[e.family][t].eligible
       /\ aggregates[e.family][t].comparison \in CompletedWith(t)
       /\ \A u \in Trials : chain[u] # <<>> => u \in e.family

AppendInv == appending # None => Warranted(appending.trial, appending.event)

TrialInv ==
  /\ TrialTypeOK /\ RunsInv /\ AggregatesInv
  /\ \A t \in Trials : Consistent(t)
  /\ AppendInv /\ PromotedOnEvidence

-----------------------------------------------------------------------------
(* Lemmas.                                                                 *)

\* None is told apart from the trials and the comparisons.
LEMMA NothingThere == None \notin Trials /\ None \notin Comparisons
BY TrialAssumption

\* An aggregate decides on every trial of its family.
LEMMA DecisionsType ==
  ASSUME NEW S \in SUBSET Trials, runs \in [Trials -> Comparisons \cup {None}],
         \A t \in S : runs[t] # None
  PROVE  /\ Decisions(S) \in [S -> Decision]
         /\ \A t \in S : /\ Decisions(S)[t].comparison = runs[t]
                         /\ Decisions(S)[t].eligible =>
                              Decisions(S)[t].rejected /\ runs[t] \in Passing
<1> DEFINE ev == [t \in S |-> EvidenceOf[runs[t]]]
           r(t) == Rejected(t, S, ev)
           d(t) == [comparison |-> runs[t], rejected |-> r(t),
                    eligible |-> r(t) /\ runs[t] \in Passing]
<1>1. \A t \in S : r(t) \in BOOLEAN
  BY DEF Rejected
<1>2. Decisions(S) = [t \in S |-> d(t)]
  BY DEF Decisions
<1> HIDE DEF r
<1>3. \A t \in S : d(t) \in Decision
  BY <1>1 DEF Decision
<1>4. \A t \in S : /\ d(t).comparison = runs[t] /\ d(t).rejected = r(t)
                   /\ d(t).eligible = (r(t) /\ runs[t] \in Passing)
  OBVIOUS
<1> HIDE DEF d
<1>5. \A t \in S : d(t).eligible => d(t).rejected /\ runs[t] \in Passing
  BY <1>4, Zenon
<1> QED BY <1>2, <1>3, <1>4, <1>5

\* An event after the others: they stay where they are.
LEMMA Appended ==
  ASSUME NEW c \in Seq(Event), NEW e \in Event, NEW d, d = Append(c, e)
  PROVE  /\ d \in Seq(Event) /\ Len(c) \in Nat /\ Len(d) = Len(c) + 1
         /\ DOMAIN c = 1 .. Len(c) /\ DOMAIN d = DOMAIN c \cup {Len(c) + 1}
         /\ Len(c) + 1 \notin DOMAIN c
         /\ d[Len(c) + 1] = e /\ \A i \in DOMAIN c : d[i] = c[i]
         /\ d # <<>> /\ d # c
OBVIOUS

\* What linking an event does to the chains.
LEMMA LinkedChains ==
  ASSUME TrialTypeOK, appending # None, chain' = Linked
  PROVE  LET t == appending.trial
             e == appending.event
             n == Len(chain[t]) + 1
         IN  /\ t \in Trials /\ e \in Event /\ n \in Nat \ {0}
             /\ chain' \in [Trials -> Seq(Event)]
             /\ \A u \in Trials \ {t} : chain'[u] = chain[u]
             /\ DOMAIN chain[t] = 1 .. n - 1
             /\ DOMAIN chain'[t] = DOMAIN chain[t] \cup {n} /\ n \notin DOMAIN chain[t]
             /\ Len(chain'[t]) = n
             /\ chain'[t][n] = e /\ \A i \in DOMAIN chain[t] : chain'[t][i] = chain[t][i]
             /\ chain'[t] # <<>>
<1> DEFINE t == appending.trial
           e == appending.event
<1>1. t \in Trials /\ e \in Event
  BY DEF TrialTypeOK, Pending
<1>2. chain[t] \in Seq(Event) /\ chain' = [chain EXCEPT ![t] = Append(chain[t], e)]
  BY <1>1 DEF TrialTypeOK, Linked
<1>3. chain'[t] = Append(chain[t], e) /\ \A u \in Trials \ {t} : chain'[u] = chain[u]
  BY <1>1, <1>2 DEF TrialTypeOK
<1> HIDE DEF t, e
<1>4. PICK d : d = chain'[t]
  OBVIOUS
<1>5. /\ d \in Seq(Event) /\ Len(chain[t]) \in Nat /\ Len(d) = Len(chain[t]) + 1
      /\ DOMAIN chain[t] = 1 .. Len(chain[t])
      /\ DOMAIN d = DOMAIN chain[t] \cup {Len(chain[t]) + 1}
      /\ Len(chain[t]) + 1 \notin DOMAIN chain[t]
      /\ d[Len(chain[t]) + 1] = e /\ \A i \in DOMAIN chain[t] : d[i] = chain[t][i]
      /\ d # <<>>
  BY <1>1, <1>2, <1>3, <1>4, Appended
<1>6. chain' \in [Trials -> Seq(Event)]
  BY <1>1, <1>2, <1>3, <1>4, <1>5 DEF TrialTypeOK
<1>7. Len(chain[t]) + 1 \in Nat \ {0} /\ Len(chain[t]) + 1 - 1 = Len(chain[t])
  BY <1>5
<1> QED BY <1>1, <1>3, <1>4, <1>5, <1>6, <1>7 DEF t, e

\* What linking an event adds to what a trial has.
LEMMA LinkedHas ==
  ASSUME TrialTypeOK, appending # None, chain' = Linked, NEW u \in Trials, NEW type
  PROVE  Has(u, type)' <=> \/ Has(u, type)
                           \/ u = appending.trial /\ appending.event.type = type
<1> DEFINE t == appending.trial
           n == Len(chain[t]) + 1
<1>1. CASE u = t
  <2>1. /\ DOMAIN chain'[t] = DOMAIN chain[t] \cup {n}
        /\ chain'[t][n] = appending.event
        /\ \A i \in DOMAIN chain[t] : chain'[t][i] = chain[t][i]
    BY LinkedChains
  <2> HIDE DEF t, n
  <2>2. (\E i \in DOMAIN chain'[t] : chain'[t][i].type = type) <=>
          \/ \E i \in DOMAIN chain[t] : chain[t][i].type = type
          \/ appending.event.type = type
    BY <2>1
  <2> QED BY <1>1, <2>2 DEF Has, t
<1>2. CASE u # t
  BY <1>2, LinkedChains DEF Has
<1> QED BY <1>1, <1>2

-----------------------------------------------------------------------------
(* Types.                                                                  *)

\* The stores start empty, and nothing of a wrong type is put into them.
LEMMA TrialInitTypes == Init => TrialTypeOK
<1> SUFFICES ASSUME Init PROVE TrialTypeOK
  OBVIOUS
<1>1. 0 \in 0 .. MaxFaults
  BY TrialAssumption
<1> QED BY <1>1 DEF Init, TrialTypeOK

\* Every event that is offered is one.
LEMMA OfferedAreEvents ==
  ASSUME TrialTypeOK, NEW e \in Offered
  PROVE  /\ e \in Event
         /\ e.type = "COMPLETED" => e.comparison \in Comparisons
         /\ e.type = "PROMOTED" => e.family \subseteq registered
<1>1. CASE \E type \in Offers \ {"COMPLETED", "PROMOTED"} : e = Plain(type)
  BY <1>1, OffersAssumption DEF Plain, Event
<1>2. CASE \E c \in Comparisons : e = Completion(c)
  <2>1. PICK c \in Comparisons : e = Completion(c)
    BY <1>2
  <2>2. e = [type |-> "COMPLETED", comparison |-> c, family |-> {}]
    BY <2>1 DEF Completion, Plain
  <2> QED BY <2>2 DEF Event, EventTypes, Outcomes
<1>3. CASE \E S \in SUBSET registered : e = Promotion(S)
  <2>1. PICK S \in SUBSET registered : e = Promotion(S)
    BY <1>3
  <2>2. e = [type |-> "PROMOTED", comparison |-> None, family |-> S] /\ S \in SUBSET Trials
    BY <2>1 DEF Promotion, Plain, TrialTypeOK
  <2> QED BY <2>2 DEF Event, EventTypes, Outcomes
<1> QED BY <1>1, <1>2, <1>3 DEF Offered

\* What the family is known by only grows, and a run and an aggregate are
\* published once.
LEMMA EvidenceGrows ==
  ASSUME TrialTypeOK,
         \/ \E t \in Trials : Register(t)
         \/ \E c \in Comparisons : PublishBatch(c) \/ PublishComparison(c) \/ PublishRun(c)
         \/ Aggregate
  PROVE  /\ UNCHANGED <<chain, appending, litter, faults>>
         /\ TrialTypeOK'
         /\ registered \subseteq registered' /\ comparisons \subseteq comparisons'
         /\ \A t \in Trials : runs[t] # None => runs'[t] = runs[t]
         /\ \A S \in SUBSET Trials : aggregates[S] # None => aggregates'[S] = aggregates[S]
<1> USE DEF TrialTypeOK
<1>1. CASE \E t \in Trials : Register(t)
  BY <1>1 DEF Register
<1>2. ASSUME NEW c \in Comparisons, PublishBatch(c)
      PROVE  /\ UNCHANGED <<registered, comparisons, runs, aggregates, chain, appending, litter,
                            faults>>
             /\ TrialTypeOK'
  <2>1. TrialOf[c] \in Trials
    BY TrialAssumption
  <2>2. batch' \in [Trials -> {BatchOf[d] : d \in Comparisons} \cup {None}]
    BY <1>2, <2>1 DEF PublishBatch
  <2> QED BY <1>2, <2>2 DEF PublishBatch
<1>3. ASSUME NEW c \in Comparisons, PublishComparison(c)
      PROVE  /\ UNCHANGED <<registered, runs, aggregates, chain, appending, litter, faults>>
             /\ comparisons \subseteq comparisons' /\ TrialTypeOK'
  BY <1>3 DEF PublishComparison
<1>4. ASSUME NEW c \in Comparisons, PublishRun(c)
      PROVE  /\ UNCHANGED <<registered, comparisons, aggregates, chain, appending, litter, faults>>
             /\ TrialTypeOK' /\ \A t \in Trials : runs[t] # None => runs'[t] = runs[t]
  BY <1>4, TrialAssumption DEF PublishRun
<1>5. CASE Aggregate
  <2>1. registered \in SUBSET Trials /\ aggregates[registered] = None
    BY <1>5 DEF Aggregate
  <2>2. Decisions(registered) \in [registered -> Decision]
    BY <1>5, <2>1, DecisionsType DEF Aggregate
  <2>3. /\ DOMAIN aggregates' = SUBSET Trials
        /\ aggregates'[registered] = Decisions(registered)
        /\ \A S \in SUBSET Trials : S # registered => aggregates'[S] = aggregates[S]
    BY <1>5, <2>1 DEF Aggregate
  <2>4. \A S \in SUBSET Trials : aggregates'[S] \in [S -> Decision] \cup {None}
    BY <2>2, <2>3
  <2> QED BY <1>5, <2>1, <2>3, <2>4 DEF Aggregate
<1> QED BY <1>1, <1>2, <1>3, <1>4, <1>5

\* Appends keep the types.
LEMMA AppendTypes ==
  ASSUME TrialTypeOK,
         \/ \E t \in Trials : \E e \in Offered : Begin(t, e)
         \/ Link \/ Cancel \/ Die
  PROVE  TrialTypeOK'
<1> USE DEF TrialTypeOK, evidence
<1>1. ASSUME NEW t \in Trials, NEW e \in Offered, Begin(t, e) PROVE TrialTypeOK'
  <2>1. appending' \in Pending
    BY <1>1, OfferedAreEvents DEF Begin, Pending
  <2> QED BY <1>1, <2>1 DEF Begin
<1>2. CASE Link
  BY <1>2, LinkedChains DEF Link
<1>3. CASE Cancel
  BY <1>3 DEF Cancel
<1>4. CASE Die
  <2>1. chain' \in [Trials -> Seq(Event)]
    BY <1>4, LinkedChains DEF Die
  <2>2. faults' \in 0 .. MaxFaults
    BY <1>4, TrialAssumption DEF Die
  <2>3. litter' \subseteq Trials
    BY <1>4 DEF Die, Pending
  <2> QED BY <1>4, <2>1, <2>2, <2>3 DEF Die
<1> QED BY <1>1, <1>2, <1>3, <1>4

-----------------------------------------------------------------------------
(* The evidence steps.                                                     *)

\* The steps of the registry, of the runs and of the aggregates.
Publishes ==
  \/ \E t \in Trials : Register(t)
  \/ \E c \in Comparisons : PublishBatch(c) \/ PublishComparison(c) \/ PublishRun(c)
  \/ Aggregate

\* They keep what runs and aggregates say.
LEMMA EvidenceConsistent ==
  ASSUME TrialTypeOK, RunsInv, AggregatesInv, Publishes
  PROVE  RunsInv' /\ AggregatesInv'
<1>1. /\ registered \subseteq registered' /\ comparisons \subseteq comparisons'
      /\ \A t \in Trials : runs[t] # None => runs'[t] = runs[t]
  BY EvidenceGrows DEF Publishes
<1>2. RunsInv'
  <2> SUFFICES ASSUME NEW t \in Trials, runs'[t] # None
               PROVE  runs'[t] \in comparisons' /\ TrialOf[runs'[t]] = t
    BY DEF RunsInv
  <2>1. CASE runs'[t] = runs[t]
    BY <1>1, <2>1 DEF RunsInv
  <2>2. CASE runs'[t] # runs[t]
    <3>1. PICK c \in Comparisons : PublishRun(c)
      BY <2>2 DEF Publishes, Register, PublishBatch, PublishComparison, Aggregate
    <3>2. t = TrialOf[c] /\ runs'[t] = c /\ c \in comparisons
      BY <2>2, <3>1, TrialAssumption DEF PublishRun, TrialTypeOK
    <3> QED BY <1>1, <3>2
  <2> QED BY <2>1, <2>2
<1>3. AggregatesInv'
  <2> SUFFICES ASSUME NEW S \in SUBSET Trials, aggregates'[S] # None
               PROVE  /\ S \subseteq registered'
                      /\ \A t \in S :
                           /\ aggregates'[S][t].comparison = runs'[t] /\ runs'[t] # None
                           /\ aggregates'[S][t].eligible =>
                                aggregates'[S][t].rejected /\ runs'[t] \in Passing
    BY DEF AggregatesInv
  <2>1. CASE aggregates[S] # None
    <3>1. aggregates'[S] = aggregates[S]
      BY <2>1, EvidenceGrows DEF Publishes
    <3> QED BY <1>1, <2>1, <3>1 DEF AggregatesInv
  <2>2. CASE aggregates[S] = None
    <3>1. Aggregate
      BY <2>2 DEF Publishes, Register, PublishBatch, PublishComparison, PublishRun
    <3>2. S = registered /\ aggregates'[S] = Decisions(S) /\ runs' = runs
      BY <2>2, <3>1 DEF Aggregate, TrialTypeOK
    <3>3. \A t \in S : runs[t] # None
      BY <3>1, <3>2 DEF Aggregate
    <3> QED BY <1>1, <3>2, <3>3, DecisionsType DEF TrialTypeOK
  <2> QED BY <2>1, <2>2
<1> QED BY <1>2, <1>3

\* They leave the events alone and what stands behind them.
LEMMA EvidenceStep ==
  ASSUME TrialInv, Publishes
  PROVE  TrialInv'
<1>1. /\ UNCHANGED <<chain, appending, litter, faults>>
      /\ TrialTypeOK'
      /\ registered \subseteq registered' /\ comparisons \subseteq comparisons'
      /\ \A t \in Trials : runs[t] # None => runs'[t] = runs[t]
      /\ \A S \in SUBSET Trials : aggregates[S] # None => aggregates'[S] = aggregates[S]
  BY EvidenceGrows DEF TrialInv, Publishes
<1>2. RunsInv' /\ AggregatesInv'
  BY EvidenceConsistent DEF TrialInv
<1>3. ASSUME NEW t \in Trials PROVE Consistent(t)'
  BY <1>1 DEF TrialInv, Consistent, Has
<1>4. AppendInv'
  <2> SUFFICES ASSUME appending # None
               PROVE  Warranted(appending.trial, appending.event)'
    BY <1>1 DEF AppendInv
  <2>1. PICK t \in Trials, e \in Event : t = appending.trial /\ e = appending.event
    BY DEF TrialInv, TrialTypeOK, Pending
  <2>2. Warranted(t, e)
    BY <2>1 DEF TrialInv, AppendInv
  <2>3. MayFollow(t, e)' /\ Untainted(t)' = Untainted(t) /\ CompletedWith(t)' = CompletedWith(t)
    BY <1>1, <2>2 DEF Warranted, MayFollow, Has, Ended, Untainted, Readable, CompletedWith
  <2>4. e.type = "PROMOTED" => aggregates'[e.family] = aggregates[e.family]
    BY <1>1, <2>2 DEF Warranted, Event
  <2>5. Warranted(t, e)'
    BY <1>1, <2>2, <2>3, <2>4 DEF Warranted
  <2> QED BY <1>1, <2>1, <2>5
<1>5. PromotedOnEvidence'
  <2> SUFFICES ASSUME NEW t \in Trials, NEW i \in DOMAIN chain[t], chain[t][i].type = "PROMOTED"
               PROVE  LET S == chain[t][i].family IN
                 /\ t \in S /\ S \subseteq registered' /\ aggregates'[S] # None
                 /\ aggregates'[S][t].rejected /\ aggregates'[S][t].comparison = runs'[t]
                 /\ runs'[t] \in comparisons' \cap Passing /\ TrialOf[runs'[t]] = t
                 /\ CompletedWith(t) = {runs'[t]} /\ Before(t, i, "COMPLETED")
                 /\ t \in Confirmatory =>
                      Before(t, i, "UNSEALED") /\ Before(t, i, "RESULTS_ACCESSED")
    BY <1>1 DEF PromotedOnEvidence, CompletedWith, Before
  <2> DEFINE S == chain[t][i].family
  <2>1. /\ t \in S /\ S \subseteq registered /\ aggregates[S] # None
        /\ aggregates[S][t].rejected /\ aggregates[S][t].comparison = runs[t]
        /\ runs[t] \in comparisons \cap Passing /\ TrialOf[runs[t]] = t
        /\ CompletedWith(t) = {runs[t]} /\ Before(t, i, "COMPLETED")
        /\ t \in Confirmatory => Before(t, i, "UNSEALED") /\ Before(t, i, "RESULTS_ACCESSED")
    BY DEF TrialInv, PromotedOnEvidence
  <2>2. S \in SUBSET Trials
    BY <2>1 DEF TrialInv, TrialTypeOK
  <2>3. aggregates'[S] = aggregates[S]
    BY <1>1, <2>1, <2>2
  <2>4. runs[t] # None
    BY <2>1, NothingThere DEF TrialInv, TrialTypeOK
  <2>5. runs'[t] = runs[t]
    BY <1>1, <2>4
  <2> QED BY <1>1, <2>1, <2>3, <2>5
<1> QED BY <1>1, <1>2, <1>3, <1>4, <1>5 DEF TrialInv
-----------------------------------------------------------------------------
(* The appends.                                                            *)

\* What a trial was completed with after an event is linked.
LEMMA LinkedCompletion ==
  ASSUME TrialTypeOK, appending # None, chain' = Linked, NEW u \in Trials
  PROVE  CompletedWith(u)' =
           CompletedWith(u) \cup
             (IF u = appending.trial /\ appending.event.type = "COMPLETED"
              THEN {appending.event.comparison} ELSE {})
<1> DEFINE t == appending.trial
           e == appending.event
           n == Len(chain[t]) + 1
<1>1. CASE u = t
  <2>1. /\ DOMAIN chain'[t] = DOMAIN chain[t] \cup {n} /\ chain'[t][n] = e
        /\ \A i \in DOMAIN chain[t] : chain'[t][i] = chain[t][i]
    BY LinkedChains
  <2> HIDE DEF t, e, n
  <2>2. CompletedWith(t) = {chain[t][i].comparison :
          i \in {j \in DOMAIN chain[t] : chain[t][j].type = "COMPLETED"}}
    BY DEF CompletedWith
  <2>3. {chain'[t][i].comparison :
          i \in {j \in DOMAIN chain'[t] : chain'[t][j].type = "COMPLETED"}} =
        CompletedWith(t) \cup (IF e.type = "COMPLETED" THEN {e.comparison} ELSE {})
    BY <2>1, <2>2
  <2>4. CompletedWith(u)' = {chain'[t][i].comparison :
          i \in {j \in DOMAIN chain'[t] : chain'[t][j].type = "COMPLETED"}}
    BY <1>1 DEF CompletedWith
  <2> QED BY <1>1, <2>3, <2>4 DEF t, e
<1>2. CASE u # t
  BY <1>2, LinkedChains DEF CompletedWith
<1> QED BY <1>1, <1>2

\* An event that may follow leaves the events of its trial consistent.
LEMMA LinkConsistent ==
  ASSUME TrialInv, appending # None, chain' = Linked, UNCHANGED evidence, NEW u \in Trials
  PROVE  Consistent(u)'
<1> DEFINE t == appending.trial
           e == appending.event
           n == Len(chain[t]) + 1
<1>1. UNCHANGED <<registered, comparisons>> /\ TrialTypeOK
  BY DEF evidence, TrialInv
<1>2. CASE u # t
  <2>1. chain'[u] = chain[u]
    BY <1>1, <1>2, LinkedChains
  <2> QED BY <1>1, <2>1 DEF TrialInv, Consistent, Has
<1>3. CASE u = t
  <2>1. Warranted(t, e) /\ Consistent(t)
    BY <1>3 DEF TrialInv, AppendInv
  <2>2. /\ DOMAIN chain'[t] = DOMAIN chain[t] \cup {n} /\ chain'[t][n] = e
        /\ \A i \in DOMAIN chain[t] : chain'[t][i] = chain[t][i]
    BY <1>1, LinkedChains
  <2>3. \A type : Has(u, type)' <=> Has(t, type) \/ e.type = type
    BY <1>1, <1>3, LinkedHas
  <2> HIDE DEF t, e, n
  <2>4. e.type \in Outcomes => \A i \in DOMAIN chain[t] : chain[t][i].type \notin Outcomes
    BY <2>1 DEF Warranted, MayFollow, Ended, Has, Outcomes
  <2>5. \A i, j \in DOMAIN chain'[t] :
          chain'[t][i].type \in Outcomes /\ chain'[t][j].type \in Outcomes => i = j
    BY <2>1, <2>2, <2>4 DEF Consistent
  <2>6. \A i \in DOMAIN chain'[t] :
          chain'[t][i].type = "COMPLETED" => chain'[t][i].comparison \in comparisons
    BY <2>1, <2>2 DEF Consistent, Warranted
  <2>7. Has(u, "RESULTS_ACCESSED")' => Has(u, "UNSEALED")'
    BY <2>1, <2>3 DEF Consistent, Warranted, MayFollow, Accesses
  <2>8. Has(u, "COMPLETED")' /\ t \in Confirmatory => Has(u, "RESULTS_ACCESSED")'
    BY <2>1, <2>3 DEF Consistent, Warranted, MayFollow
  <2> QED
    BY <1>1, <1>3, <2>1, <2>5, <2>6, <2>7, <2>8 DEF Consistent, Warranted
<1> QED BY <1>2, <1>3

\* What stands behind the promotions there are is not disturbed, and a
\* promotion that is linked has it.
LEMMA LinkPromoted ==
  ASSUME TrialInv, appending # None, chain' = Linked, UNCHANGED evidence
  PROVE  PromotedOnEvidence'
<1> DEFINE t == appending.trial
           e == appending.event
           n == Len(chain[t]) + 1
<1>1. UNCHANGED <<registered, comparisons, runs, aggregates>> /\ TrialTypeOK
  BY DEF evidence, TrialInv
<1> SUFFICES ASSUME NEW u \in Trials, NEW i \in DOMAIN chain'[u], chain'[u][i].type = "PROMOTED"
             PROVE  LET S == chain'[u][i].family IN
               /\ u \in S /\ S \subseteq registered /\ aggregates[S] # None
               /\ aggregates[S][u].rejected /\ aggregates[S][u].comparison = runs[u]
               /\ runs[u] \in comparisons \cap Passing /\ TrialOf[runs[u]] = u
               /\ CompletedWith(u)' = {runs[u]} /\ Before(u, i, "COMPLETED")'
               /\ u \in Confirmatory =>
                    Before(u, i, "UNSEALED")' /\ Before(u, i, "RESULTS_ACCESSED")'
  BY <1>1 DEF PromotedOnEvidence, CompletedWith, Before
<1>2. /\ t \in Trials /\ n \in Nat \ {0} /\ Warranted(t, e) /\ e \in Event
      /\ DOMAIN chain[t] = 1 .. n - 1
      /\ DOMAIN chain'[t] = DOMAIN chain[t] \cup {n} /\ chain'[t][n] = e
      /\ \A j \in DOMAIN chain[t] : chain'[t][j] = chain[t][j]
      /\ \A v \in Trials \ {t} : chain'[v] = chain[v]
  BY <1>1, LinkedChains DEF TrialInv, AppendInv
<1>3. chain[u] \in Seq(Event)
  BY <1>1 DEF TrialTypeOK
<1>4. CASE i \in DOMAIN chain[u]
  <2>1. /\ chain'[u][i] = chain[u][i]
        /\ \A j \in DOMAIN chain[u] : chain'[u][j] = chain[u][j]
    BY <1>2, <1>4
  <2>2. Has(u, "PROMOTED")
    BY <1>4, <2>1 DEF Has
  <2>3. u = t => e.type # "COMPLETED"
    BY <1>2, <2>2 DEF Warranted, MayFollow
  <2>4. CompletedWith(u)' = CompletedWith(u)
    BY <1>1, <2>3, LinkedCompletion
  <2>5. \A j \in 1 .. i - 1 : j \in DOMAIN chain[u]
    BY <1>3, <1>4
  <2>6. \A type : Before(u, i, type) => Before(u, i, type)'
    BY <2>1, <2>5 DEF Before
  <2>7. LET S == chain[u][i].family IN
               /\ u \in S /\ S \subseteq registered /\ aggregates[S] # None
               /\ aggregates[S][u].rejected /\ aggregates[S][u].comparison = runs[u]
               /\ runs[u] \in comparisons \cap Passing /\ TrialOf[runs[u]] = u
               /\ CompletedWith(u) = {runs[u]} /\ Before(u, i, "COMPLETED")
               /\ u \in Confirmatory => Before(u, i, "UNSEALED") /\ Before(u, i, "RESULTS_ACCESSED")
    BY <1>4, <2>1 DEF TrialInv, PromotedOnEvidence
  <2> QED BY <2>1, <2>4, <2>6, <2>7
<1>5. CASE i \notin DOMAIN chain[u]
  <2>1. u = t /\ i = n /\ e.type = "PROMOTED"
    BY <1>2, <1>5
  <2>2. \A type : Has(t, type) => Before(u, i, type)'
    BY <1>2, <2>1 DEF Has, Before
  <2>3. Has(t, "COMPLETED")
    BY <1>2, <2>1 DEF Warranted, MayFollow
  <2>4. t \in Confirmatory => Has(t, "RESULTS_ACCESSED") /\ Has(t, "UNSEALED")
    BY <1>2, <2>3 DEF TrialInv, Consistent
  <2>5. /\ t \in e.family /\ e.family \in SUBSET Trials /\ aggregates[e.family] # None
        /\ aggregates[e.family][t].eligible
        /\ aggregates[e.family][t].comparison \in CompletedWith(t)
    BY <1>2, <2>1 DEF Warranted, Event
  <2>6. /\ e.family \subseteq registered
        /\ aggregates[e.family][t].comparison = runs[t] /\ runs[t] # None
        /\ aggregates[e.family][t].rejected /\ runs[t] \in Passing
    BY <2>5 DEF TrialInv, AggregatesInv
  <2>7. runs[t] \in comparisons /\ TrialOf[runs[t]] = t
    BY <1>2, <2>6 DEF TrialInv, RunsInv
  <2>8. CompletedWith(t) = {runs[t]}
    <3>1. \A j, k \in DOMAIN chain[t] :
            chain[t][j].type = "COMPLETED" /\ chain[t][k].type = "COMPLETED" => j = k
      BY <1>2 DEF TrialInv, Consistent, Outcomes
    <3> QED BY <2>5, <2>6, <3>1 DEF CompletedWith
  <2>9. CompletedWith(u)' = CompletedWith(u)
    BY <1>1, <2>1, LinkedCompletion
  <2> HIDE DEF t, e, n
  <2> QED BY <1>2, <2>1, <2>2, <2>3, <2>4, <2>5, <2>6, <2>7, <2>8, <2>9
<1> QED BY <1>4, <1>5

\* An append that begins is warranted.
LEMMA BeginStep ==
  ASSUME TrialInv, NEW t \in Trials, NEW e \in Offered, Begin(t, e)
  PROVE  TrialInv'
<1>1. TrialTypeOK' /\ UNCHANGED <<evidence, chain, litter>>
  BY AppendTypes DEF TrialInv, Begin
<1>2. e \in Event /\ (e.type = "PROMOTED" => e.family \subseteq registered)
  BY OfferedAreEvents DEF TrialInv
<1>3. \A u \in Trials : chain[u] # <<>> => u \in registered
  BY DEF TrialInv, Consistent
<1>4. Warranted(t, e)
  <2>1. e.type = "PROMOTED" => /\ aggregates[registered] # None /\ e.family = registered
                               /\ t \in registered
    BY DEF Begin, Supported
  <2> QED BY <1>3, <2>1 DEF Begin, Supported, Warranted
<1>5. AppendInv'
  <2>1. appending' = [trial |-> t, event |-> e]
    BY DEF Begin
  <2>2. Warranted(t, e)'
    BY <1>1, <1>4 DEF evidence, Warranted, MayFollow, Has, Ended, Untainted, Readable,
                      CompletedWith
  <2> QED BY <2>1, <2>2 DEF AppendInv
<1>6. RunsInv' /\ AggregatesInv' /\ \A u \in Trials : Consistent(u)'
  BY <1>1 DEF evidence, TrialInv, RunsInv, AggregatesInv, Consistent, Has
<1>7. PromotedOnEvidence'
  BY <1>1 DEF evidence, TrialInv, PromotedOnEvidence, CompletedWith, Before
<1> QED BY <1>1, <1>5, <1>6, <1>7 DEF TrialInv

\* However an append ends, what is linked was warranted.
LEMMA EndStep ==
  ASSUME TrialInv, Link \/ Cancel \/ Die
  PROVE  TrialInv'
<1>1. TrialTypeOK' /\ UNCHANGED evidence /\ appending # None /\ appending' = None
  BY AppendTypes DEF TrialInv, Link, Cancel, Die
<1>2. AppendInv' /\ RunsInv' /\ AggregatesInv'
  BY <1>1 DEF evidence, TrialInv, AppendInv, RunsInv, AggregatesInv
<1>3. CASE chain' = chain
  BY <1>1, <1>2, <1>3
     DEF evidence, TrialInv, Consistent, Has, PromotedOnEvidence, CompletedWith, Before
<1>4. CASE chain' = Linked
  BY <1>1, <1>2, <1>4, LinkConsistent, LinkPromoted DEF TrialInv
<1> QED BY <1>3, <1>4 DEF Link, Cancel, Die

-----------------------------------------------------------------------------
(* The inductive invariant and what it gives.                              *)

\* Nothing is registered, run, aggregated or appended.
LEMMA TrialInitHolds == Init => TrialInv
<1> SUFFICES ASSUME Init PROVE TrialInv
  OBVIOUS
<1>1. RunsInv /\ AggregatesInv /\ AppendInv
  BY DEF Init, RunsInv, AggregatesInv, AppendInv
<1>2. \A t \in Trials : chain[t] = <<>> /\ DOMAIN chain[t] = {}
  BY DEF Init
<1>3. PromotedOnEvidence /\ \A t \in Trials : Consistent(t)
  BY <1>2 DEF PromotedOnEvidence, Consistent, Has
<1> QED BY <1>1, <1>3, TrialInitTypes DEF TrialInv

\* The invariant is inductive.
LEMMA TrialStepHolds == TrialInv /\ [Next]_vars => TrialInv'
<1> SUFFICES ASSUME TrialInv, [Next]_vars PROVE TrialInv'
  OBVIOUS
<1>1. CASE UNCHANGED vars
  <2>1. TrialTypeOK' /\ RunsInv' /\ AggregatesInv'
    BY <1>1 DEF vars, evidence, TrialInv, TrialTypeOK, RunsInv, AggregatesInv
  <2>2. AppendInv'
    BY <1>1 DEF vars, evidence, TrialInv, AppendInv, Warranted, MayFollow, Has, Ended, Untainted,
                Readable, CompletedWith
  <2>3. \A t \in Trials : Consistent(t)'
    BY <1>1 DEF vars, evidence, TrialInv, Consistent, Has
  <2>4. PromotedOnEvidence'
    <3>1. UNCHANGED <<registered, comparisons, runs, aggregates, chain>>
      BY <1>1 DEF vars, evidence
    <3> QED BY <3>1 DEF TrialInv, PromotedOnEvidence, CompletedWith, Before
  <2> QED BY <2>1, <2>2, <2>3, <2>4 DEF TrialInv
<1> QED
  BY <1>1, EvidenceStep, BeginStep, EndStep DEF Next, Publishes

\* Every reachable state satisfies the invariant.
THEOREM TrialInvariance == Spec => []TrialInv
<1> QED BY TrialInitHolds, TrialStepHolds, PTL DEF Spec

\* The registry, the evidence and the chains keep their types.
THEOREM TrialTypeCorrect == Spec => []TrialTypeOK
<1>1. TrialInv => TrialTypeOK
  BY DEF TrialInv
<1> QED BY <1>1, TrialInvariance, PTL

\* A promotion stands on the aggregate of its family, on the one run of the
\* trial that it was completed with, and on results that were accessed from
\* an unsealed holdout.
THEOREM PromotionsStand == Spec => []PromotedOnEvidence
<1>1. TrialInv => PromotedOnEvidence
  BY DEF TrialInv
<1> QED BY <1>1, TrialInvariance, PTL

\* A chain grows by the event that is being appended.
LEMMA GrowsByLink ==
  ASSUME TrialInv, [Next]_vars, NEW t \in Trials, chain'[t] # chain[t]
  PROVE  appending # None /\ chain' = Linked /\ t = appending.trial /\ UNCHANGED evidence
<1>1. appending # None /\ chain' = Linked /\ UNCHANGED evidence
  BY EvidenceGrows DEF TrialInv, Next, vars, Begin, Link, Cancel, Die
<1>2. t = appending.trial
  BY <1>1, LinkedChains DEF TrialInv
<1> QED BY <1>1, <1>2

\* No promotion is linked that leaves out a trial that has been started,
\* whatever was registered after its aggregate was checked.
THEOREM AllStartedAreCounted == Spec => PromotedAmongAllStarted
<1>1. TrialInv /\ [Next]_vars =>
        [\A t \in Trials :
           Len(chain'[t]) > Len(chain[t]) /\ Last(chain'[t]).type = "PROMOTED" =>
             \A u \in Trials : chain[u] # <<>> => u \in Last(chain'[t]).family]_vars
  <2> SUFFICES ASSUME TrialInv, [Next]_vars, NEW t \in Trials,
                      Len(chain'[t]) > Len(chain[t]), Last(chain'[t]).type = "PROMOTED"
               PROVE  \A u \in Trials : chain[u] # <<>> => u \in Last(chain'[t]).family
    OBVIOUS
  <2>1. chain'[t] # chain[t]
    <3>1. Len(chain[t]) \in Nat
      BY DEF TrialInv, TrialTypeOK
    <3>2. SUFFICES ASSUME chain'[t] = chain[t] PROVE FALSE
      OBVIOUS
    <3> QED BY <3>1, <3>2
  <2>2. appending # None /\ chain' = Linked /\ t = appending.trial
    BY <2>1, GrowsByLink
  <2>3. Last(chain'[t]) = appending.event
    BY <2>2, LinkedChains DEF TrialInv, Last
  <2> QED BY <2>2, <2>3 DEF TrialInv, AppendInv, Warranted
<1> QED BY <1>1, TrialInvariance, PTL DEF Spec, PromotedAmongAllStarted
-----------------------------------------------------------------------------
(* The chains implement TrialHistory.                                      *)

\* The events that end a trial.
Ends(t) == {i \in DOMAIN chain[t] : chain[t][i].type \in Outcomes}

\* A trial without such an event has no outcome.
LEMMA NoEndNoOutcome ==
  ASSUME NEW t \in Trials, ~Ended(t)
  PROVE  OutcomeOf(t) = None
<1>1. {i \in DOMAIN chain[t] : chain[t][i].type \in Outcomes} = {}
  BY DEF Ended, Has
<1> QED BY <1>1 DEF OutcomeOf

\* The outcome of a completed trial is the comparison it was completed with.
LEMMA CompletedOutcome ==
  ASSUME TrialTypeOK, NEW t \in Trials, Consistent(t), Has(t, "COMPLETED")
  PROVE  OutcomeOf(t) \in Comparisons
<1> DEFINE ends == {i \in DOMAIN chain[t] : chain[t][i].type \in Outcomes}
<1>1. PICK i \in DOMAIN chain[t] : chain[t][i].type = "COMPLETED"
  BY DEF Has
<1>2. i \in ends /\ \A j \in ends : j = i
  BY <1>1 DEF Consistent, Outcomes
<1>3. (CHOOSE j \in ends : TRUE) = i
  BY <1>2
<1>4. OutcomeOf(t) = chain[t][i].comparison
  BY <1>1, <1>2, <1>3 DEF OutcomeOf
<1> QED BY <1>1, <1>4 DEF Consistent, TrialTypeOK

\* What linking an event does to the outcomes.
LEMMA LinkedOutcome ==
  ASSUME TrialInv, appending # None, chain' = Linked, NEW u \in Trials
  PROVE  IF u = appending.trial /\ appending.event.type \in Outcomes
         THEN ~Ended(u) /\ OutcomeOf(u)' \in Comparisons \cup {"FAILED", "ABORTED"}
         ELSE OutcomeOf(u)' = OutcomeOf(u)
<1> DEFINE t == appending.trial
           e == appending.event
           n == Len(chain[t]) + 1
           ends == {i \in DOMAIN chain[u] : chain[u][i].type \in Outcomes}
           after == {i \in DOMAIN chain'[u] : chain'[u][i].type \in Outcomes}
<1>1. /\ DOMAIN chain'[t] = DOMAIN chain[t] \cup {n} /\ chain'[t][n] = e
      /\ n \notin DOMAIN chain[t]
      /\ \A i \in DOMAIN chain[t] : chain'[t][i] = chain[t][i]
      /\ \A v \in Trials \ {t} : chain'[v] = chain[v]
  BY LinkedChains DEF TrialInv
<1>2. Warranted(t, e) /\ e \in Event
  BY DEF TrialInv, AppendInv, TrialTypeOK, Pending
<1>3. OutcomeOf(u)' =
        IF after = {} THEN None
        ELSE IF chain'[u][CHOOSE i \in after : TRUE].type = "COMPLETED"
        THEN chain'[u][CHOOSE i \in after : TRUE].comparison
        ELSE chain'[u][CHOOSE i \in after : TRUE].type
  BY DEF OutcomeOf
<1>4. OutcomeOf(u) =
        IF ends = {} THEN None
        ELSE IF chain[u][CHOOSE i \in ends : TRUE].type = "COMPLETED"
        THEN chain[u][CHOOSE i \in ends : TRUE].comparison
        ELSE chain[u][CHOOSE i \in ends : TRUE].type
  BY DEF OutcomeOf
<1>5. CASE u = t /\ e.type \in Outcomes
  <2>1. ~Ended(u)
    BY <1>2, <1>5 DEF Warranted, MayFollow, Outcomes
  <2>2. ends = {}
    BY <2>1 DEF Ended, Has
  <2> HIDE DEF t, e, n
  <2>3. after = {n}
    BY <1>1, <1>5, <2>2
  <2>4. chain'[u][CHOOSE i \in after : TRUE] = e /\ after # {}
    BY <1>1, <1>5, <2>3
  <2>5. e.type = "COMPLETED" => e.comparison \in Comparisons
    BY <1>2 DEF Warranted, TrialInv, TrialTypeOK
  <2>6. OutcomeOf(u)' \in Comparisons \cup {"FAILED", "ABORTED"}
    BY <1>3, <1>5, <2>4, <2>5 DEF Outcomes
  <2> QED BY <1>5, <2>1, <2>6 DEF t, e
<1>6. CASE ~(u = t /\ e.type \in Outcomes)
  <2> HIDE DEF t, e, n
  <2>1. after = ends /\ \A i \in ends : chain'[u][i] = chain[u][i]
    BY <1>1, <1>6
  <2>2. OutcomeOf(u)' = OutcomeOf(u)
    <3> HIDE DEF after, ends
    <3>1. CASE ends = {}
      BY <1>3, <1>4, <2>1, <3>1
    <3>2. CASE ends # {}
      <4>1. (CHOOSE i \in ends : TRUE) \in ends
        BY <3>2
      <4> QED BY <1>3, <1>4, <2>1, <3>2, <4>1
    <3> QED BY <3>1, <3>2
  <2> QED BY <1>6, <2>2 DEF t, e
<1> QED BY <1>5, <1>6

\* The abstract variables, under names of their own.
StartedTrials == {t \in Trials : chain[t] # <<>>}
TrialsWith(type) == {t \in Trials : Has(t, type)}
OutcomesOf == [t \in Trials |-> OutcomeOf(t)]

\* A confirmatory trial is not started on the holdout its parent has unsealed.
LEMMA StartedUntainted ==
  ASSUME NEW t \in Trials, Untainted(t), NEW p \in Trials, Has(p, "UNSEALED")
  PROVE  <<p, t>> \notin {<<ParentOf[u], u>> : u \in {v \in Confirmatory :
                            ParentOf[v] # None /\ HoldoutOf[v] = HoldoutOf[ParentOf[v]]}}
BY DEF Untainted

\* A linked event is one step of the history, or a repeated access to the
\* holdout, of which it says nothing.
LEMMA LinkRefines ==
  ASSUME TrialInv, appending # None, chain' = Linked
  PROVE  \/ History!Next
         \/ UNCHANGED <<StartedTrials, TrialsWith("UNSEALED"), OutcomesOf,
                        TrialsWith("PROMOTED"), TrialsWith("INVALIDATED")>>
<1>1. PICK t \in Trials, e \in Event : t = appending.trial /\ e = appending.event
  BY DEF TrialInv, TrialTypeOK, Pending
<1>2. Warranted(t, e) /\ Consistent(t) /\ TrialTypeOK
  BY <1>1 DEF TrialInv, AppendInv
<1>3. \A type : TrialsWith(type)' =
        IF e.type = type THEN TrialsWith(type) \cup {t} ELSE TrialsWith(type)
  BY <1>1, <1>2, LinkedHas DEF TrialsWith
<1>4. StartedTrials' = StartedTrials \cup {t} /\ (e.type = "STARTED" <=> t \notin StartedTrials)
  <2>1. chain'[t] # <<>> /\ \A u \in Trials \ {t} : chain'[u] = chain[u]
    BY <1>1, <1>2, LinkedChains
  <2> QED BY <1>2, <2>1 DEF StartedTrials, Warranted, MayFollow
<1>5. e.type \notin Outcomes => OutcomesOf' = OutcomesOf
  BY <1>1, LinkedOutcome DEF OutcomesOf
<1>6. t \notin TrialsWith("INVALIDATED")
  BY <1>2 DEF Warranted, MayFollow, TrialsWith
<1>7. e.type \notin {"STARTED", "PROMOTED", "INVALIDATED"} => OutcomesOf[t] = None
  <2>1. e.type \notin {"STARTED", "PROMOTED", "INVALIDATED"} => ~Ended(t)
    BY <1>2 DEF Warranted, MayFollow
  <2> QED BY <2>1, NoEndNoOutcome DEF OutcomesOf
<1>8. CASE e.type = "STARTED"
  <2>1. \A p \in TrialsWith("UNSEALED") :
          <<p, t>> \notin {<<ParentOf[u], u>> : u \in {v \in Confirmatory :
                             ParentOf[v] # None /\ HoldoutOf[v] = HoldoutOf[ParentOf[v]]}}
    BY <1>2, <1>8, StartedUntainted DEF Warranted, TrialsWith
  <2>2. /\ TrialsWith("UNSEALED")' = TrialsWith("UNSEALED")
        /\ TrialsWith("PROMOTED")' = TrialsWith("PROMOTED")
        /\ TrialsWith("INVALIDATED")' = TrialsWith("INVALIDATED")
    BY <1>3, <1>8
  <2>3. OutcomesOf' = OutcomesOf
    BY <1>5, <1>8 DEF Outcomes
  <2>4. History!Start(t)
    BY <1>4, <1>8, <2>1, <2>2, <2>3
       DEF History!Start, StartedTrials, TrialsWith, OutcomesOf
  <2> QED BY <2>4 DEF History!Next
<1>9. CASE e.type = "UNSEALED"
  <2>1. /\ t \in StartedTrials /\ StartedTrials' = StartedTrials /\ OutcomesOf[t] = None
    BY <1>4, <1>7, <1>9
  <2>2. /\ t \notin TrialsWith("UNSEALED")
        /\ TrialsWith("UNSEALED")' = TrialsWith("UNSEALED") \cup {t}
        /\ TrialsWith("PROMOTED")' = TrialsWith("PROMOTED")
        /\ TrialsWith("INVALIDATED")' = TrialsWith("INVALIDATED")
    BY <1>2, <1>3, <1>9 DEF Warranted, MayFollow, TrialsWith
  <2>3. OutcomesOf' = OutcomesOf
    BY <1>5, <1>9 DEF Outcomes
  <2>4. History!Unseal(t)
    BY <1>6, <2>1, <2>2, <2>3
       DEF History!Unseal, History!Running, StartedTrials, TrialsWith, OutcomesOf
  <2> QED BY <2>4 DEF History!Next
<1>10. CASE e.type \in Accesses
  <2>1. StartedTrials' = StartedTrials
    BY <1>4, <1>10 DEF Accesses
  <2>2. /\ TrialsWith("UNSEALED")' = TrialsWith("UNSEALED")
        /\ TrialsWith("PROMOTED")' = TrialsWith("PROMOTED")
        /\ TrialsWith("INVALIDATED")' = TrialsWith("INVALIDATED")
    BY <1>3, <1>10 DEF Accesses
  <2>3. OutcomesOf' = OutcomesOf
    BY <1>5, <1>10 DEF Accesses, Outcomes
  <2> QED BY <2>1, <2>2, <2>3
<1>11. CASE e.type \in Outcomes
  <2>1. t \in StartedTrials /\ StartedTrials' = StartedTrials /\ OutcomesOf[t] = None
    BY <1>4, <1>7, <1>11 DEF Outcomes
  <2>2. /\ TrialsWith("UNSEALED")' = TrialsWith("UNSEALED")
        /\ TrialsWith("PROMOTED")' = TrialsWith("PROMOTED")
        /\ TrialsWith("INVALIDATED")' = TrialsWith("INVALIDATED")
    BY <1>3, <1>11 DEF Outcomes
  <2>3. PICK o : o = OutcomeOf(t)'
    OBVIOUS
  <2>4. o \in Comparisons \cup {"FAILED", "ABORTED"}
    BY <1>1, <1>11, <2>3, LinkedOutcome
  <2>5. OutcomesOf' = [OutcomesOf EXCEPT ![t] = o]
    BY <1>1, <2>3, LinkedOutcome DEF OutcomesOf
  <2>6. History!Conclude(t)
    BY <1>6, <2>1, <2>2, <2>4, <2>5
       DEF History!Conclude, History!Running, StartedTrials, TrialsWith, OutcomesOf
  <2> QED BY <2>6 DEF History!Next
<1>12. CASE e.type = "PROMOTED"
  <2>1. StartedTrials' = StartedTrials
    BY <1>4, <1>12
  <2>2. OutcomesOf[t] \in Comparisons
    BY <1>2, <1>12, CompletedOutcome DEF OutcomesOf, Warranted, MayFollow
  <2>3. /\ t \notin TrialsWith("PROMOTED")
        /\ TrialsWith("UNSEALED")' = TrialsWith("UNSEALED")
        /\ TrialsWith("PROMOTED")' = TrialsWith("PROMOTED") \cup {t}
        /\ TrialsWith("INVALIDATED")' = TrialsWith("INVALIDATED")
    BY <1>2, <1>3, <1>12 DEF Warranted, MayFollow, TrialsWith
  <2>4. OutcomesOf' = OutcomesOf
    BY <1>5, <1>12 DEF Outcomes
  <2>5. History!Promote(t)
    BY <1>6, <2>1, <2>2, <2>3, <2>4
       DEF History!Promote, StartedTrials, TrialsWith, OutcomesOf
  <2> QED BY <2>5 DEF History!Next
<1>13. CASE e.type = "INVALIDATED"
  <2>1. t \in StartedTrials /\ StartedTrials' = StartedTrials
    BY <1>4, <1>13
  <2>2. /\ TrialsWith("UNSEALED")' = TrialsWith("UNSEALED")
        /\ TrialsWith("PROMOTED")' = TrialsWith("PROMOTED")
        /\ TrialsWith("INVALIDATED")' = TrialsWith("INVALIDATED") \cup {t}
    BY <1>3, <1>13
  <2>3. OutcomesOf' = OutcomesOf
    BY <1>5, <1>13 DEF Outcomes
  <2>4. History!Invalidate(t)
    BY <1>6, <2>1, <2>2, <2>3
       DEF History!Invalidate, StartedTrials, TrialsWith, OutcomesOf
  <2> QED BY <2>4 DEF History!Next
<1> QED
  BY <1>8, <1>9, <1>10, <1>11, <1>12, <1>13 DEF Event, EventTypes

\* The events that are linked, by whichever process and however it dies, make
\* the history that TrialHistory promises.
THEOREM HistoryRefined == Spec => ImplementsHistory
<1>1. Init => History!Init
  <2> SUFFICES ASSUME Init PROVE History!Init
    OBVIOUS
  <2>1. \A t \in Trials : chain[t] = <<>> /\ DOMAIN chain[t] = {}
    BY DEF Init
  <2>2. \A t \in Trials : ~Ended(t) /\ \A type : ~Has(t, type)
    BY <2>1 DEF Ended, Has
  <2>3. \A t \in Trials : OutcomeOf(t) = None
    BY <2>2, NoEndNoOutcome
  <2> QED BY <2>1, <2>2, <2>3 DEF History!Init
<1>2. TrialInv /\ [Next]_vars => [History!Next]_(History!history)
  <2> SUFFICES ASSUME TrialInv, [Next]_vars PROVE [History!Next]_(History!history)
    OBVIOUS
  <2>1. CASE chain' = chain
    <3>1. \A t \in Trials : OutcomeOf(t)' = OutcomeOf(t) /\ \A type : Has(t, type)' = Has(t, type)
      BY <2>1 DEF OutcomeOf, Has
    <3> QED BY <2>1, <3>1 DEF History!history
  <2>2. CASE appending # None /\ chain' = Linked
    BY <2>2, LinkRefines DEF History!history, StartedTrials, TrialsWith, OutcomesOf
  <2>3. chain' = chain \/ (appending # None /\ chain' = Linked)
    BY EvidenceGrows DEF TrialInv, Next, vars, Begin, Link, Cancel, Die
  <2> QED BY <2>1, <2>2, <2>3
<1> QED BY <1>1, <1>2, TrialInvariance, PTL DEF Spec, ImplementsHistory, History!Spec

-----------------------------------------------------------------------------
(* Holm's step-down is the closed test.                                    *)

\* Fractions are compared by their cross products.
LEMMA CrossTransitive ==
  ASSUME NEW a \in Nat, NEW c \in Nat, NEW e \in Nat,
         NEW b \in Nat \ {0}, NEW d \in Nat \ {0}, NEW f \in Nat \ {0},
         a * d <= c * b, c * f <= e * d
  PROVE  /\ a * f <= e * b
         /\ a * d < c * b => a * f < e * b
         /\ c * f < e * d => a * f < e * b
<1>1. (a * d) * f <= (c * b) * f /\ (a * d < c * b => (a * d) * f < (c * b) * f)
  OBVIOUS
<1>2. (c * f) * b <= (e * d) * b /\ (c * f < e * d => (c * f) * b < (e * d) * b)
  OBVIOUS
<1>3. (a * d) * f = d * (a * f) /\ (c * b) * f = (c * f) * b /\ (e * d) * b = d * (e * b)
  OBVIOUS
<1>4. d * (a * f) <= d * (e * b) /\ (a * d < c * b \/ c * f < e * d => d * (a * f) < d * (e * b))
  BY <1>1, <1>2, <1>3
<1>5. PICK m \in Nat, n \in Nat : m = a * f /\ n = e * b
  OBVIOUS
<1>6. (d * m <= d * n => m <= n) /\ (d * m < d * n => m < n)
  OBVIOUS
<1> QED BY <1>4, <1>5, <1>6

\* What is within a threshold keeps a smaller fraction within it.
LEMMA CrossWithin ==
  ASSUME NEW a \in Nat, NEW c \in Nat, NEW b \in Nat \ {0}, NEW d \in Nat \ {0}, NEW k \in Nat,
         a * d <= c * b, c * k <= d
  PROVE  a * k <= b
<1>1. (a * d) * k <= (c * b) * k /\ (c * k) * b <= d * b
  OBVIOUS
<1>2. (a * d) * k = d * (a * k) /\ (c * b) * k = (c * k) * b
  OBVIOUS
<1>3. d * (a * k) <= d * b
  BY <1>1, <1>2
<1>4. PICK m \in Nat : m = a * k
  OBVIOUS
<1>5. d * m <= d * b => m <= b
  OBVIOUS
<1> QED BY <1>3, <1>4, <1>5

\* A finite family whose p-values are fractions, and whose ids are ordered.
Comparable(S, ev) ==
  /\ IsFiniteSet(S)
  /\ \A u \in S : RawTail(ev[u]) \in Nat /\ Scale(ev[u]) \in Nat \ {0}
  /\ \A u, v \in S : IdOrder[u] \in Nat /\ (IdOrder[u] = IdOrder[v] => u = v)

\* The ranking is a strict total order, by p-value first.
LEMMA PrecedesOrders ==
  ASSUME NEW S, NEW ev, Comparable(S, ev), NEW u \in S, NEW v \in S, NEW w \in S
  PROVE  /\ ~Precedes(u, u, ev)
         /\ u # v => Precedes(u, v, ev) \/ Precedes(v, u, ev)
         /\ ~(Precedes(u, v, ev) /\ Precedes(v, u, ev))
         /\ Precedes(u, v, ev) /\ Precedes(v, w, ev) => Precedes(u, w, ev)
         /\ Precedes(u, v, ev) => RawTail(ev[u]) * Scale(ev[v]) <= RawTail(ev[v]) * Scale(ev[u])
<1>1. PICK a \in Nat, c \in Nat, e \in Nat :
        a = RawTail(ev[u]) /\ c = RawTail(ev[v]) /\ e = RawTail(ev[w])
  BY DEF Comparable
<1>2. PICK b \in Nat \ {0}, d \in Nat \ {0}, f \in Nat \ {0} :
        b = Scale(ev[u]) /\ d = Scale(ev[v]) /\ f = Scale(ev[w])
  BY DEF Comparable
<1>3. PICK x \in Nat, y \in Nat, z \in Nat :
        /\ x = IdOrder[u] /\ y = IdOrder[v] /\ z = IdOrder[w]
        /\ x = y => u = v
  BY DEF Comparable
<1>4. PICK ad \in Nat, cb \in Nat, cf \in Nat, ed \in Nat, af \in Nat, eb \in Nat, ab \in Nat :
        /\ ad = a * d /\ cb = c * b /\ cf = c * f /\ ed = e * d /\ af = a * f /\ eb = e * b
        /\ ab = a * b
  OBVIOUS
<1>5. /\ Smaller(ev[u], ev[u]) <=> ab < ab
      /\ Smaller(ev[u], ev[v]) <=> ad < cb
      /\ Smaller(ev[v], ev[u]) <=> cb < ad
      /\ Smaller(ev[v], ev[w]) <=> cf < ed
      /\ Smaller(ev[w], ev[v]) <=> ed < cf
      /\ Smaller(ev[u], ev[w]) <=> af < eb
      /\ Smaller(ev[w], ev[u]) <=> eb < af
  BY <1>1, <1>2, <1>4 DEF Smaller
<1>6. ad <= cb /\ cf <= ed => af <= eb /\ (ad < cb \/ cf < ed => af < eb)
  BY <1>4, CrossTransitive
<1>7. /\ Precedes(u, u, ev) <=> ab < ab \/ (~(ab < ab) /\ x < x)
      /\ Precedes(u, v, ev) <=> ad < cb \/ (~(cb < ad) /\ x < y)
      /\ Precedes(v, u, ev) <=> cb < ad \/ (~(ad < cb) /\ y < x)
      /\ Precedes(v, w, ev) <=> cf < ed \/ (~(ed < cf) /\ y < z)
      /\ Precedes(u, w, ev) <=> af < eb \/ (~(eb < af) /\ x < z)
  BY <1>3, <1>5 DEF Precedes
<1>8. RawTail(ev[u]) * Scale(ev[v]) = ad /\ RawTail(ev[v]) * Scale(ev[u]) = cb
  BY <1>1, <1>2, <1>4
<1> QED BY <1>3, <1>6, <1>7, <1>8

\* A non-empty part of the family has a first trial.
LEMMA FirstTrial ==
  ASSUME NEW S, NEW ev, Comparable(S, ev), NEW J \in SUBSET S, J # {}
  PROVE  \E u \in J : \A v \in J : ~Precedes(v, u, ev)
<1> DEFINE Ahead(u) == {v \in J : Precedes(v, u, ev)}
           T == {Ahead(u) : u \in J}
<1>1. IsFiniteSet(J) /\ FiniteSubsetsOf(J) = SUBSET J
  BY FS_Subset, FS_FiniteSubsetsOfFinite DEF Comparable
<1>2. IsWellFoundedOn(StrictSubsetOrdering(J), FiniteSubsetsOf(J))
  BY FS_StrictSubsetOrderingWellFounded
<1>3. T \subseteq FiniteSubsetsOf(J) /\ T # {}
  <2>1. \A X \in T : X \in SUBSET J
    OBVIOUS
  <2>2. PICK u \in J : TRUE
    OBVIOUS
  <2>3. Ahead(u) \in T
    BY <2>2
  <2> HIDE DEF T, Ahead
  <2> QED BY <1>1, <2>1, <2>3
<1>4. PICK X \in T : \A Y \in T : ~(<<Y, X>> \in StrictSubsetOrdering(J))
  <2> HIDE DEF T
  <2> QED BY <1>2, <1>3, WFMin
<1>5. PICK u \in J : X = Ahead(u)
  OBVIOUS
<1>6. ASSUME NEW v \in J, Precedes(v, u, ev) PROVE FALSE
  <2>1. \A w \in J : Precedes(w, v, ev) => Precedes(w, u, ev)
    BY <1>6, PrecedesOrders
  <2>2. v \in Ahead(u) /\ v \notin Ahead(v)
    BY <1>6, PrecedesOrders
  <2>3. Ahead(v) \in SUBSET J /\ Ahead(u) \in SUBSET J
        /\ Ahead(v) \subseteq Ahead(u) /\ Ahead(v) # Ahead(u)
    BY <2>1, <2>2
  <2>4. <<Ahead(v), X>> \in StrictSubsetOrdering(J)
    <3> HIDE DEF Ahead
    <3> QED BY <1>5, <2>3 DEF StrictSubsetOrdering
  <2> QED BY <1>4, <2>4
<1> QED BY <1>6

\* The number of trials from u on, by which Holm divides the level at u.
LEMMA HolmDivisor ==
  ASSUME NEW S, NEW ev, Comparable(S, ev), NEW u \in S
  PROVE  LET From == {v \in S : ~Precedes(v, u, ev)} IN
         /\ IsFiniteSet(From) /\ Cardinality(From) \in Nat
         /\ Cardinality(S) - HolmRank(u, S, ev) + 1 = Cardinality(From)
<1> DEFINE From == {v \in S : ~Precedes(v, u, ev)}
           Less == {v \in S : Precedes(v, u, ev)}
<1>1. From = S \ Less /\ S \cap Less = Less /\ Less \in SUBSET S
  OBVIOUS
<1> HIDE DEF From
<1>2. IsFiniteSet(From) /\ Cardinality(From) = Cardinality(S) - Cardinality(Less)
  BY <1>1, FS_Difference DEF Comparable
<1>3. Cardinality(S) \in Nat /\ Cardinality(Less) \in Nat /\ Cardinality(From) \in Nat
  BY <1>1, <1>2, FS_Subset, FS_CardinalityType DEF Comparable
<1>4. HolmRank(u, S, ev) = 1 + Cardinality(Less)
  BY DEF HolmRank
<1> HIDE DEF Less
<1> QED BY <1>2, <1>3, <1>4 DEF From

\* Holm's step-down rejects t if and only if the closed test does, which
\* rejects every intersection of hypotheses that t is part of.
THEOREM HolmIsClosed ==
  ASSUME NEW S, NEW ev, Comparable(S, ev), NEW t \in S
  PROVE  Rejected(t, S, ev) <=>
           \A J \in SUBSET S : t \in J =>
             \E u \in J : RawTail(ev[u]) * AlphaParts * Cardinality(J) <= Scale(ev[u])
<1>1. AlphaParts \in Nat
  BY AlphaAssumption
<1>2. \A u \in S : RawTail(ev[u]) \in Nat /\ Scale(ev[u]) \in Nat \ {0}
  BY DEF Comparable
<1>3. ASSUME Rejected(t, S, ev), NEW J \in SUBSET S, t \in J
      PROVE  \E u \in J : RawTail(ev[u]) * AlphaParts * Cardinality(J) <= Scale(ev[u])
  <2>1. PICK u \in J : \A v \in J : ~Precedes(v, u, ev)
    BY <1>3, FirstTrial
  <2>2. u = t \/ Precedes(u, t, ev)
    BY <1>3, <2>1, PrecedesOrders
  <2>3. WithinThreshold(u, S, ev)
    BY <1>3, <2>2 DEF Rejected
  <2> DEFINE From == {v \in S : ~Precedes(v, u, ev)}
  <2>4. /\ IsFiniteSet(From) /\ Cardinality(From) \in Nat
        /\ Cardinality(S) - HolmRank(u, S, ev) + 1 = Cardinality(From)
    BY HolmDivisor
  <2>5. J \in SUBSET From
    BY <2>1
  <2> HIDE DEF From
  <2>6. Cardinality(J) \in Nat /\ Cardinality(J) <= Cardinality(From)
    BY <2>4, <2>5, FS_Subset, FS_CardinalityType
  <2>7. RawTail(ev[u]) * AlphaParts * Cardinality(From) <= Scale(ev[u])
    BY <2>3, <2>4 DEF WithinThreshold
  <2>8. PICK k \in Nat, z \in Nat : k = RawTail(ev[u]) * AlphaParts /\ z = Scale(ev[u])
    BY <1>1, <1>2
  <2>9. PICK m \in Nat, n \in Nat : m = Cardinality(J) /\ n = Cardinality(From)
    BY <2>4, <2>6
  <2>10. k * m <= k * n
    BY <2>6, <2>9
  <2>11. k * m <= z
    BY <2>7, <2>8, <2>9, <2>10
  <2> QED BY <2>8, <2>9, <2>11
<1>4. ASSUME \A J \in SUBSET S : t \in J =>
               \E u \in J : RawTail(ev[u]) * AlphaParts * Cardinality(J) <= Scale(ev[u]),
             NEW u \in S, u = t \/ Precedes(u, t, ev)
      PROVE  WithinThreshold(u, S, ev)
  <2> DEFINE From == {v \in S : ~Precedes(v, u, ev)}
  <2>1. /\ Cardinality(From) \in Nat
        /\ Cardinality(S) - HolmRank(u, S, ev) + 1 = Cardinality(From)
    BY HolmDivisor
  <2>2. From \in SUBSET S /\ t \in From
    BY <1>4, PrecedesOrders
  <2>3. PICK v \in From : RawTail(ev[v]) * AlphaParts * Cardinality(From) <= Scale(ev[v])
    <3> HIDE DEF From
    <3> QED BY <1>4, <2>2
  <2>4. v \in S /\ (v = u \/ Precedes(u, v, ev))
    BY PrecedesOrders
  <2> HIDE DEF From
  <2>5. RawTail(ev[u]) * Scale(ev[v]) <= RawTail(ev[v]) * Scale(ev[u])
    BY <1>2, <2>4, PrecedesOrders
  <2>6. PICK a \in Nat, c \in Nat, b \in Nat \ {0}, d \in Nat \ {0} :
          a = RawTail(ev[u]) /\ c = RawTail(ev[v]) /\ b = Scale(ev[u]) /\ d = Scale(ev[v])
    BY <1>2, <2>4
  <2>7. PICK n \in Nat, k \in Nat : n = Cardinality(From) /\ k = AlphaParts * n
    BY <1>1, <2>1
  <2>8. c * AlphaParts * n = c * k /\ a * AlphaParts * n = a * k
    BY <1>1, <2>7
  <2>9. a * d <= c * b /\ c * k <= d
    BY <2>3, <2>5, <2>6, <2>7, <2>8
  <2>10. a * k <= b
    BY <2>9, CrossWithin
  <2>11. RawTail(ev[u]) * AlphaParts * Cardinality(From) <= Scale(ev[u])
    BY <2>6, <2>7, <2>8, <2>10
  <2> QED BY <2>1, <2>11 DEF WithinThreshold
<1> QED BY <1>3, <1>4 DEF Rejected

-----------------------------------------------------------------------------
(* The decisions of an aggregate are those of the closed test.             *)

\* The tail that is computed is the number of outcomes as extreme.
LEMMA SignTailIs ==
  ASSUME NEW folds \in Nat, NEW wins \in 0 .. folds
  PROVE  SignTail(wins, folds) = AsExtreme(wins, folds) /\ SignTail(wins, folds) \in Nat
BY TailIs DEF SignTail, AsExtreme

LEMMA PowerOfTwo ==
  ASSUME NEW n \in Nat
  PROVE  2 ^ n \in Nat \ {0}
<1>1. IsFiniteSet(1 .. n) /\ Cardinality(1 .. n) = n
  BY PartsFinite
<1>2. IsFiniteSet(SUBSET (1 .. n)) /\ Cardinality(SUBSET (1 .. n)) = 2 ^ n
  BY <1>1, FS_SUBSET
<1>3. SUBSET (1 .. n) # {}
  OBVIOUS
<1> QED BY <1>2, <1>3, FS_CardinalityType, FS_EmptySet

\* The worse of two tails.
LEMMA LargerOfTwo ==
  ASSUME NEW a \in Nat, NEW b \in Nat
  PROVE  Max({a, b}) \in Nat
<1>1. \E x \in {a, b} : \A y \in {a, b} : x >= y
  BY DEF Max
<1>2. Max({a, b}) \in {a, b}
  BY <1>1 DEF Max
<1> QED BY <1>2

\* What sound evidence gives: a p-value that is a fraction, and the worse tail.
LEMMA SoundTails ==
  ASSUME NEW e, SoundEvidence(e)
  PROVE  /\ RawTail(e) = Max({AsExtreme(e.base, e.folds), AsExtreme(e.stressed, e.folds)})
         /\ RawTail(e) \in Nat /\ Scale(e) \in Nat \ {0}
<1>1. e.folds \in Nat /\ e.base \in 0 .. e.folds /\ e.stressed \in 0 .. e.folds
  BY DEF SoundEvidence
<1>2. /\ SignTail(e.base, e.folds) = AsExtreme(e.base, e.folds)
      /\ SignTail(e.stressed, e.folds) = AsExtreme(e.stressed, e.folds)
      /\ SignTail(e.base, e.folds) \in Nat /\ SignTail(e.stressed, e.folds) \in Nat
  BY <1>1, SignTailIs
<1> QED BY <1>1, <1>2, PowerOfTwo, LargerOfTwo DEF RawTail, Scale

\* For a finite family of sound evidence the step-down is the closed test, on
\* tails that are counted.
LEMMA RejectedIsClosedTest ==
  ASSUME NEW S \in SUBSET Trials, IsFiniteSet(S), NEW ev, \A u \in S : SoundEvidence(ev[u]),
         NEW t \in S
  PROVE  Rejected(t, S, ev) = ClosedTest(t, S, ev)
<1>1. Comparable(S, ev)
  BY SoundTails, IdAssumption DEF Comparable
<1>2. \A u \in S :
        RawTail(ev[u]) = Max({AsExtreme(ev[u].base, ev[u].folds), AsExtreme(ev[u].stressed, ev[u].folds)})
  BY SoundTails
<1>3. Rejected(t, S, ev) <=>
        \A J \in SUBSET S : t \in J =>
          \E u \in J : RawTail(ev[u]) * AlphaParts * Cardinality(J) <= Scale(ev[u])
  BY <1>1, HolmIsClosed
<1>4. ClosedTest(t, S, ev) <=>
        \A J \in SUBSET S : t \in J =>
          \E u \in J : RawTail(ev[u]) * AlphaParts * Cardinality(J) <= Scale(ev[u])
  BY <1>2 DEF ClosedTest
<1>5. Rejected(t, S, ev) \in BOOLEAN /\ ClosedTest(t, S, ev) \in BOOLEAN
  BY DEF Rejected, ClosedTest
<1> QED BY <1>3, <1>4, <1>5

\* A registry holds finitely many trials.
LEMMA FiniteRegistry == Spec => []IsFiniteSet(registered)
<1>1. Init => IsFiniteSet(registered)
  BY FS_EmptySet DEF Init
<1>2. IsFiniteSet(registered) /\ [Next]_vars => IsFiniteSet(registered)'
  <2> SUFFICES ASSUME IsFiniteSet(registered), [Next]_vars PROVE IsFiniteSet(registered')
    OBVIOUS
  <2>1. CASE \E t \in Trials : Register(t)
    BY <2>1, FS_AddElement DEF Register
  <2>2. registered' = registered \/ \E t \in Trials : Register(t)
    BY DEF Next, vars, evidence, PublishBatch, PublishComparison, PublishRun, Aggregate,
       Begin, Link, Cancel, Die
  <2> QED BY <2>1, <2>2
<1> QED BY <1>1, <1>2, PTL DEF Spec

\* Whatever aggregate is stored, its decisions are those of the closed test on
\* the evidence of the runs, with binomial tails counted as sets of outcomes.
THEOREM AggregatesAreClosedTests == Spec => HolmIsClosedTest
<1>1. TrialInv /\ IsFiniteSet(registered) /\ [Next]_vars =>
        [\A S \in SUBSET Trials : aggregates'[S] # aggregates[S] =>
           LET ev == [u \in S |-> EvidenceOf[runs[u]]] IN
           \A t \in S : aggregates'[S][t].rejected = ClosedTest(t, S, ev)]_vars
  <2> SUFFICES ASSUME TrialInv, IsFiniteSet(registered), [Next]_vars,
                      NEW S \in SUBSET Trials, aggregates'[S] # aggregates[S], NEW t \in S
               PROVE  aggregates'[S][t].rejected =
                        ClosedTest(t, S, [u \in S |-> EvidenceOf[runs[u]]])
    OBVIOUS
  <2>1. Aggregate
    BY DEF Next, vars, evidence, Register, PublishBatch, PublishComparison, PublishRun,
       Begin, Link, Cancel, Die
  <2>2. S = registered /\ aggregates'[S] = Decisions(S) /\ \A u \in S : runs[u] # None
    BY <2>1 DEF Aggregate, TrialInv, TrialTypeOK
  <2>3. PICK ev : ev = [u \in S |-> EvidenceOf[runs[u]]]
    OBVIOUS
  <2>4. \A u \in S : SoundEvidence(ev[u])
    BY <2>2, <2>3, TrialAssumption DEF TrialInv, TrialTypeOK
  <2>5. Decisions(S)[t].rejected = Rejected(t, S, ev)
    BY <2>3 DEF Decisions
  <2>6. Rejected(t, S, ev) = ClosedTest(t, S, ev)
    BY <2>2, <2>4, RejectedIsClosedTest
  <2> QED BY <2>2, <2>3, <2>5, <2>6
<1> QED BY <1>1, TrialInvariance, FiniteRegistry, PTL DEF Spec, HolmIsClosedTest

=============================================================================
