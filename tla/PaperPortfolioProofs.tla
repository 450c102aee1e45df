------------------------ MODULE PaperPortfolioProofs ------------------------
(***************************************************************************)
(* Proofs about the paper portfolio, for every number of workers, batches, *)
(* lineages and registrations and every market: the portfolio states are   *)
(* one chain, event chains are legal and keep what records saw, profits    *)
(* are counted once, and every trade leads the life of a paper position.   *)
(*                                                                         *)
(* PlaceInv says where the workers are, ChainInv orders the states,        *)
(* EventsInv is about the events a worker saw, PositionsInv about what it  *)
(* and the states hold of them.                                            *)
(***************************************************************************)
EXTENDS PaperPortfolio, TLAPS

\* Where a worker runs a batch, where it has a job at hand, and where it has
\* seen the events of its registration.
Judging == {"append", "summary", "record"}
Midway == {"reconcile"} \cup Judging
Executing == {"job"} \cup Midway

\* Stored states are of prepared batches.
StatesPrepared == \A b \in Stored : batch[b] # None

\* What the program counter of a worker says.
Knows(i) ==
  /\ pc[i] \in Executing => on[i] \in Batches /\ batch[on[i]] # None
  /\ pc[i] \in Midway => Pending(i) # {}

LocalInv == \A i \in Workers : Knows(i)

\* The first part of the inductive invariant: names and places.
PlaceInv == TypeOK /\ StatesPrepared /\ LocalInv

-----------------------------------------------------------------------------
(* Lemmas.                                                                 *)

\* An absent value is told apart from every value.
LEMMA NoneIsNothing == None \notin Batches /\ None \notin Job /\ None \notin Batch
BY DistinctAssumption

\* One more event makes a chain of a chain.
LEMMA EventAdded ==
  ASSUME NEW c \in Chain, NEW e \in EventType, NEW j \in Job
  PROVE  /\ [c EXCEPT ![e] = j] \in Chain
         /\ [c EXCEPT ![e] = j][e] = j
         /\ \A x \in EventType \ {e} : [c EXCEPT ![e] = j][x] = c[x]
BY DEF Chain

\* A jump of a worker.
LEMMA Jumps ==
  ASSUME TypeOK, NEW i \in Workers, NEW label \in Labels, Goto(i, label)
  PROVE  /\ pc' \in [Workers -> Labels]
         /\ pc'[i] = label
         /\ \A k \in Workers \ {i} : pc'[k] = pc[k]
BY DEF TypeOK, Goto

\* The end of a worker.
LEMMA WorkerGone ==
  ASSUME TypeOK, NEW i \in Workers, Leave(i)
  PROVE  /\ pc' \in [Workers -> Labels] /\ pc'[i] = "idle"
         /\ listing' \in [Workers -> SUBSET Registrations]
         /\ on' \in [Workers -> Batches \cup {None}]
         /\ got' \in [Workers -> [Registrations -> Job \cup {None}]]
         /\ draft' \in [Workers -> Record]
         /\ \A k \in Workers \ {i} :
              /\ pc'[k] = pc[k] /\ listing'[k] = listing[k] /\ on'[k] = on[k]
              /\ got'[k] = got[k] /\ draft'[k] = draft[k]
<1>1. NoDraft \in Record
  BY DEF NoDraft, Record, NoEvents, Chain, EventType
<1>2. NoPositions \in [Registrations -> Job \cup {None}]
  BY DEF NoPositions
<1>3. "idle" \in Labels
  BY DEF Labels
<1> QED BY <1>1, <1>2, <1>3 DEF TypeOK, Leave, Goto

\* The job at hand is of a pending registration of the batch.
LEMMA CurrentIsJob ==
  ASSUME PlaceInv, NEW i \in Workers, pc[i] \in Executing, Pending(i) # {}
  PROVE  /\ batch[on[i]] \in Batch
         /\ Current(i) \in Job
         /\ Current(i).of \in Pending(i)
         /\ Current(i).of \in Registrations
<1>1. on[i] \in Batches /\ batch[on[i]] # None
  BY DEF PlaceInv, LocalInv, Knows
<1>2. batch[on[i]] \in Batch
  BY <1>1 DEF PlaceInv, TypeOK
<1>3. PICK r \in Pending(i) : r = CHOOSE x \in Pending(i) : TRUE
  OBVIOUS
<1>4. r \in Registrations
  BY <1>2 DEF Pending, Batch
<1>5. Current(i) = JobOf(batch[on[i]], r)
  BY <1>3 DEF Current
<1> QED BY <1>2, <1>3, <1>4, <1>5 DEF JobOf, Job, Batch

-----------------------------------------------------------------------------
(* Types and places.                                                       *)

LEMMA InitPlaces == Init => PlaceInv
<1> SUFFICES ASSUME Init PROVE PlaceInv
  OBVIOUS
<1>1. NoEvents \in Chain /\ NoPositions \in [Registrations -> Job \cup {None}]
  BY DEF NoEvents, Chain, NoPositions
<1>2. NoDraft \in Record
  BY <1>1 DEF NoDraft, Record
<1>3. TypeOK
  BY <1>1, <1>2 DEF Init, TypeOK, Labels
<1>4. StatesPrepared
  BY DEF Init, StatesPrepared, Stored
<1>5. LocalInv
  BY DEF Init, LocalInv, Knows, Executing, Midway, Judging
<1> QED BY <1>3, <1>4, <1>5 DEF PlaceInv

\* The state a batch ends in has the type of a state.
LEMMA OutcomeIsState ==
  ASSUME PlaceInv, NEW b \in Batch, Follows(b), NEW new \in [Registrations -> Job \cup {None}]
  PROVE  Outcome(b, new) \in State
<1>1. Prior(b) \in State
  <2>1. CASE b.previous = None
    BY <2>1 DEF Prior, Empty, NoPositions, State
  <2>2. CASE b.previous # None
    <3>1. b.previous \in Leaves
      BY <2>2 DEF Follows
    <3>2. b.previous \in Batches /\ state[b.previous] # None
      BY <3>1 DEF Leaves, Stored
    <3> QED BY <2>2, <3>2 DEF PlaceInv, TypeOK, Prior
  <2> QED BY <2>1, <2>2
<1> DEFINE positions == [r \in Registrations |-> IF new[r] # None THEN new[r] ELSE Prior(b).positions[r]]
           newly == {r \in Registrations : Closed(positions, r) /\ ~Closed(Prior(b).positions, r)}
           total == [r \in Registrations |-> Prior(b).total[r] + (IF r \in newly THEN 1 ELSE 0)]
<1>2. positions \in [Registrations -> Job \cup {None}]
  BY <1>1 DEF State
<1>3. newly \in SUBSET Registrations
  OBVIOUS
<1>4. total \in [Registrations -> Nat]
  BY <1>1 DEF State
<1>5. Outcome(b, new) = [positions |-> positions, newly |-> newly, total |-> total]
  BY DEF Outcome
<1> HIDE DEF positions, newly, total
<1> QED BY <1>2, <1>3, <1>4, <1>5 DEF State

\* Where a worker runs a batch nothing it knows is changed by the others, and
\* batches keep their contents.
LEMMA OthersKnow ==
  ASSUME LocalInv, TypeOK, NEW k \in Workers,
         pc'[k] = pc[k], on'[k] = on[k], got'[k] = got[k],
         \A b \in Batches : batch[b] # None => batch'[b] = batch[b]
  PROVE  Knows(k)'
<1>1. Knows(k)
  BY DEF LocalInv
<1>2. CASE pc[k] \in Executing
  <2>1. on[k] \in Batches /\ batch[on[k]] # None /\ batch'[on[k]] = batch[on[k]]
    BY <1>1, <1>2 DEF Knows
  <2>2. Pending(k)' = Pending(k)
    BY <2>1 DEF Pending
  <2> QED BY <1>1, <1>2, <2>1, <2>2 DEF Knows
<1>3. CASE pc[k] \notin Executing
  BY <1>3 DEF Knows, Executing
<1> QED BY <1>2, <1>3

\* Nothing that is stored is changed.
LEMMA RegisterPlaces ==
  ASSUME PlaceInv, NEW r \in Registrations, Register(r)
  PROVE  PlaceInv'
<1>1. TypeOK'
  BY DEF PlaceInv, TypeOK, Register, locals
<1>2. StatesPrepared'
  BY DEF PlaceInv, StatesPrepared, Stored, Register
<1>3. LocalInv'
  BY OthersKnow DEF PlaceInv, LocalInv, Register, locals
<1> QED BY <1>1, <1>2, <1>3 DEF PlaceInv

\* A step of worker i that leaves the batches and the states alone.
LEMMA PlacesKept ==
  ASSUME PlaceInv, NEW i \in Workers, TypeOK', Knows(i)', UNCHANGED <<batch, state>>,
         \A k \in Workers \ {i} : pc'[k] = pc[k] /\ on'[k] = on[k] /\ got'[k] = got[k]
  PROVE  PlaceInv'
<1>1. StatesPrepared'
  BY DEF PlaceInv, StatesPrepared, Stored
<1>2. \A k \in Workers \ {i} : Knows(k)'
  BY OthersKnow DEF PlaceInv
<1> QED BY <1>1, <1>2 DEF PlaceInv, LocalInv

LEMMA ListActivePlaces ==
  ASSUME PlaceInv, NEW i \in Workers, ListActive(i)
  PROVE  PlaceInv'
<1>1. /\ pc' \in [Workers -> Labels] /\ pc'[i] = "prepare"
      /\ \A k \in Workers \ {i} : pc'[k] = pc[k]
  BY Jumps DEF ListActive, PlaceInv, Labels
<1>2. /\ on' \in [Workers -> Batches \cup {None}]
      /\ \A k \in Workers \ {i} : on'[k] = on[k]
  BY DEF ListActive, PlaceInv, TypeOK, Leaves, Stored
<1>3. TypeOK'
  BY <1>1, <1>2 DEF ListActive, PlaceInv, TypeOK, stores
<1>4. Knows(i)'
  BY <1>1 DEF Knows, Executing, Midway, Judging
<1> QED BY <1>1, <1>2, <1>3, <1>4, PlacesKept DEF ListActive, stores

\* A worker that is gone knows nothing.
LEMMA GonePlaces ==
  ASSUME PlaceInv, NEW i \in Workers, Leave(i), UNCHANGED <<batch, state>>,
         registered' \in SUBSET Registrations,
         ledger' \in [Registrations -> Chain],
         record' \in [Job -> Record \cup {None}]
  PROVE  PlaceInv'
<1>1. TypeOK'
  BY WorkerGone DEF PlaceInv, TypeOK
<1>2. Knows(i)'
  BY WorkerGone DEF PlaceInv, Knows, Executing, Midway, Judging
<1> QED BY <1>1, <1>2, WorkerGone, PlacesKept DEF PlaceInv

\* A prepared batch takes a free name, or is there already.
LEMMA BatchPrepared ==
  ASSUME TypeOK, NEW i \in Workers, PrepareBatch(i)
  PROVE  /\ batch' \in [Batches -> Batch \cup {None}]
         /\ \A b \in Batches : batch[b] # None => batch'[b] = batch[b]
<1>1. batch \in [Batches -> Batch \cup {None}]
  BY DEF TypeOK
<1>2. PICK b \in Batch :
        IF \E n \in Batches : batch[n] = b THEN batch' = batch
        ELSE \E n \in Batches : batch[n] = None /\ batch' = [batch EXCEPT ![n] = b]
  BY DEF PrepareBatch
<1> QED BY <1>1, <1>2

LEMMA PrepareBatchPlaces ==
  ASSUME PlaceInv, NEW i \in Workers, PrepareBatch(i)
  PROVE  PlaceInv'
<1>1. /\ batch' \in [Batches -> Batch \cup {None}]
      /\ \A b \in Batches : batch[b] # None => batch'[b] = batch[b]
  BY BatchPrepared DEF PlaceInv
<1>2. Leave(i) /\ UNCHANGED <<registered, ledger, record, state>>
  BY DEF PrepareBatch
<1>3. TypeOK'
  BY <1>1, <1>2, WorkerGone DEF PlaceInv, TypeOK
<1>4. StatesPrepared'
  BY <1>1, <1>2 DEF PlaceInv, StatesPrepared, Stored
<1>5. Knows(i)'
  BY <1>2, WorkerGone DEF PlaceInv, Knows, Executing, Midway, Judging
<1>6. \A k \in Workers \ {i} : Knows(k)'
  BY <1>1, <1>2, WorkerGone, OthersKnow DEF PlaceInv
<1> QED BY <1>3, <1>4, <1>5, <1>6 DEF PlaceInv, LocalInv

LEMMA RunBatchPlaces ==
  ASSUME PlaceInv, NEW i \in Workers, RunBatch(i)
  PROVE  PlaceInv'
<1>1. PICK n \in Batches : batch[n] # None /\ on' = [on EXCEPT ![i] = n]
  BY DEF RunBatch
<1>2. /\ pc' \in [Workers -> Labels] /\ pc'[i] = "job"
      /\ \A k \in Workers \ {i} : pc'[k] = pc[k]
  BY Jumps DEF RunBatch, PlaceInv, Labels
<1>3. TypeOK'
  BY <1>1, <1>2 DEF RunBatch, PlaceInv, TypeOK, stores
<1>4. on'[i] = n /\ \A k \in Workers \ {i} : on'[k] = on[k]
  BY <1>1 DEF PlaceInv, TypeOK
<1>5. Knows(i)'
  BY <1>1, <1>2, <1>4 DEF Knows, Midway, Judging, RunBatch, stores
<1> QED BY <1>2, <1>3, <1>4, <1>5, PlacesKept DEF RunBatch, stores

\* A position was taken: the worker is back at its jobs.
LEMMA TookPlaces ==
  ASSUME PlaceInv, NEW i \in Workers, pc[i] \in Executing, NEW j \in Job, Took(i, j),
         UNCHANGED <<batch, state>>,
         registered' \in SUBSET Registrations,
         ledger' \in [Registrations -> Chain],
         record' \in [Job -> Record \cup {None}]
  PROVE  PlaceInv'
<1>1. /\ pc' \in [Workers -> Labels] /\ pc'[i] = "job"
      /\ \A k \in Workers \ {i} : pc'[k] = pc[k]
  BY Jumps DEF Took, PlaceInv, Labels
<1>2. j.of \in Registrations
  BY DEF Job
<1>3. /\ got' \in [Workers -> [Registrations -> Job \cup {None}]]
      /\ \A k \in Workers \ {i} : got'[k] = got[k]
  BY <1>2 DEF Took, PlaceInv, TypeOK
<1>4. NoDraft \in Record
  BY DEF NoDraft, Record, NoEvents, Chain, EventType
<1>5. draft' \in [Workers -> Record]
  BY <1>4 DEF Took, PlaceInv, TypeOK
<1>6. TypeOK'
  BY <1>1, <1>3, <1>5 DEF Took, PlaceInv, TypeOK
<1>7. on[i] \in Batches /\ batch[on[i]] # None
  BY DEF PlaceInv, LocalInv, Knows
<1>8. Knows(i)'
  BY <1>1, <1>7 DEF Knows, Took, Midway, Judging
<1> QED BY <1>1, <1>3, <1>6, <1>8, PlacesKept DEF Took

\* A worker goes on with its job: of its place only pc changes.
LEMMA JobGoesOn ==
  ASSUME PlaceInv, NEW i \in Workers, pc[i] \in Executing, Pending(i) # {},
         NEW label \in Midway, Goto(i, label),
         UNCHANGED <<registered, batch, record, state, listing, on, got>>,
         ledger' \in [Registrations -> Chain], draft' \in [Workers -> Record]
  PROVE  PlaceInv'
<1>1. /\ pc' \in [Workers -> Labels] /\ pc'[i] = label
      /\ \A k \in Workers \ {i} : pc'[k] = pc[k]
  BY Jumps DEF PlaceInv, Labels, Midway, Judging
<1>2. TypeOK'
  BY <1>1 DEF PlaceInv, TypeOK
<1>3. on[i] \in Batches /\ batch[on[i]] # None
  BY DEF PlaceInv, LocalInv, Knows
<1>4. Pending(i)' = Pending(i)
  BY DEF Pending
<1>5. Knows(i)'
  BY <1>1, <1>3, <1>4 DEF Knows
<1> QED BY <1>1, <1>2, <1>5, PlacesKept

LEMMA UseRecordPlaces ==
  ASSUME PlaceInv, NEW i \in Workers, UseRecord(i)
  PROVE  PlaceInv'
<1>1. pc[i] \in Executing /\ Pending(i) # {}
  BY DEF UseRecord, Executing
<1>2. Current(i) \in Job
  BY <1>1, CurrentIsJob
<1>3. /\ UNCHANGED <<batch, state>>
      /\ registered' \in SUBSET Registrations
      /\ ledger' \in [Registrations -> Chain]
      /\ record' \in [Job -> Record \cup {None}]
  BY DEF UseRecord, stores, PlaceInv, TypeOK
<1>4. Took(i, Current(i)) \/ Leave(i)
  BY DEF UseRecord
<1> QED BY <1>1, <1>2, <1>3, <1>4, TookPlaces, GonePlaces

LEMMA ReplayOutcomePlaces ==
  ASSUME PlaceInv, NEW i \in Workers, ReplayOutcome(i)
  PROVE  PlaceInv'
BY JobGoesOn DEF ReplayOutcome, stores, PlaceInv, TypeOK, Executing, Midway

LEMMA ReconcilePlaces ==
  ASSUME PlaceInv, NEW i \in Workers, Reconcile(i)
  PROVE  PlaceInv'
<1> DEFINE j == Current(i)
           c == ledger[j.of]
<1>1. pc[i] \in Executing /\ Pending(i) # {}
  BY DEF Reconcile, PlaceInv, LocalInv, Knows, Executing, Midway
<1>2. c \in Chain
  BY <1>1, CurrentIsJob DEF PlaceInv, TypeOK
<1>3. CASE Leave(i)
  BY <1>3, GonePlaces DEF Reconcile, stores, PlaceInv, TypeOK
<1>4. CASE /\ draft' = [draft EXCEPT ![i].events = c]
           /\ Goto(i, IF Missing(c, j) = {} THEN "summary" ELSE "append")
           /\ UNCHANGED <<listing, on, got>>
  <2>1. draft' \in [Workers -> Record]
    BY <1>2, <1>4 DEF PlaceInv, TypeOK, Record
  <2>2. PICK label \in {"summary", "append"} : Goto(i, label)
    BY <1>4
  <2>3. label \in Midway
    BY <2>2 DEF Midway, Judging
  <2>4. UNCHANGED stores
    BY DEF Reconcile
  <2> QED BY <1>1, <1>4, <2>1, <2>2, <2>3, <2>4, JobGoesOn DEF stores, PlaceInv, TypeOK
<1> QED BY <1>3, <1>4 DEF Reconcile

\* A step of Append writes one event, or none and is gone.
LEMMA AppendWrites ==
  ASSUME PlaceInv, NEW i \in Workers, Append(i)
  PROVE  LET j == Current(i)
         IN  /\ pc[i] \in Executing /\ Pending(i) # {}
             /\ j \in Job
             /\ \/ UNCHANGED ledger /\ Leave(i)
                \/ \E e \in Missing(draft[i].events, j) :
                     /\ "entry" \in Missing(draft[i].events, j) => e = "entry"
                     /\ MayAppend(ledger[j.of], e, j)
                     /\ ledger' = [ledger EXCEPT ![j.of] = [ledger[j.of] EXCEPT ![e] = j]]
                     /\ \/ Leave(i)
                        \/ /\ draft' = [draft EXCEPT ![i] = Appended(draft[i], e, j)]
                           /\ Goto(i, IF Missing(draft[i].events, j) = {e} THEN "summary" ELSE "append")
                           /\ UNCHANGED <<listing, on, got>>
<1>1. pc[i] \in Executing /\ Pending(i) # {}
  BY DEF Append, PlaceInv, LocalInv, Knows, Executing, Midway, Judging
<1>2. Current(i) \in Job /\ Current(i).of \in Registrations
  BY <1>1, CurrentIsJob
<1> QED BY <1>1, <1>2 DEF Append, PlaceInv, TypeOK

\* A draft with one more event.
LEMMA DraftExtended ==
  ASSUME NEW d \in Record, NEW e \in EventType, NEW j \in Job
  PROVE  /\ Appended(d, e, j) \in Record
         /\ Appended(d, e, j).events = [d.events EXCEPT ![e] = j]
<1>1. d.events \in Chain /\ d.wrote \in SUBSET EventType /\ d.profit \in BOOLEAN
  BY DEF Record
<1>2. [d.events EXCEPT ![e] = j] \in Chain
  BY <1>1, EventAdded
<1>3. Appended(d, e, j) = [d EXCEPT !.events = [d.events EXCEPT ![e] = j], !.wrote = d.wrote \cup {e}]
  BY DEF Appended, Record
<1> QED BY <1>1, <1>2, <1>3 DEF Record

LEMMA AppendPlaces ==
  ASSUME PlaceInv, NEW i \in Workers, Append(i)
  PROVE  PlaceInv'
<1> DEFINE j == Current(i)
           c == ledger[j.of]
<1>1. /\ pc[i] \in Executing /\ Pending(i) # {}
      /\ j \in Job /\ c \in Chain /\ j.of \in Registrations
  BY AppendWrites, CurrentIsJob DEF PlaceInv, TypeOK
<1>2. UNCHANGED <<registered, batch, record, state>>
  BY DEF Append
<1>3. CASE UNCHANGED ledger /\ Leave(i)
  BY <1>2, <1>3, GonePlaces DEF PlaceInv, TypeOK
<1>4. ASSUME NEW e \in Missing(draft[i].events, j),
             ledger' = [ledger EXCEPT ![j.of] = [c EXCEPT ![e] = j]],
             \/ Leave(i)
             \/ /\ draft' = [draft EXCEPT ![i] = Appended(draft[i], e, j)]
                /\ Goto(i, IF Missing(draft[i].events, j) = {e} THEN "summary" ELSE "append")
                /\ UNCHANGED <<listing, on, got>>
      PROVE  PlaceInv'
  <2>1. e \in EventType
    BY DEF Missing
  <2>2. [c EXCEPT ![e] = j] \in Chain
    BY <1>1, <2>1, EventAdded
  <2>3. ledger' \in [Registrations -> Chain]
    BY <1>1, <1>4, <2>2 DEF PlaceInv, TypeOK
  <2>4. CASE Leave(i)
    BY <1>2, <2>3, <2>4, GonePlaces DEF PlaceInv, TypeOK
  <2>5. CASE /\ draft' = [draft EXCEPT ![i] = Appended(draft[i], e, j)]
             /\ Goto(i, IF Missing(draft[i].events, j) = {e} THEN "summary" ELSE "append")
             /\ UNCHANGED <<listing, on, got>>
    <3>1. draft' \in [Workers -> Record]
      BY <1>1, <2>1, <2>5, DraftExtended DEF PlaceInv, TypeOK
    <3>2. PICK label \in {"summary", "append"} : Goto(i, label)
      BY <2>5
    <3>3. label \in Midway
      BY <3>2 DEF Midway, Judging
    <3> QED BY <1>1, <1>2, <2>3, <2>5, <3>1, <3>2, <3>3, JobGoesOn
  <2> QED BY <1>4, <2>4, <2>5
<1> QED BY <1>3, <1>4, AppendWrites

LEMMA SummarisePlaces ==
  ASSUME PlaceInv, NEW i \in Workers, Summarise(i)
  PROVE  PlaceInv'
<1>1. pc[i] \in Executing /\ Pending(i) # {}
  BY DEF Summarise, PlaceInv, LocalInv, Knows, Executing, Midway, Judging
<1>2. draft' \in [Workers -> Record]
  BY DEF Summarise, PlaceInv, TypeOK, Record, Traded
<1>3. "record" \in Midway
  BY DEF Midway, Judging
<1> QED BY <1>1, <1>2, <1>3, JobGoesOn DEF Summarise, stores, PlaceInv, TypeOK

LEMMA PutRecordPlaces ==
  ASSUME PlaceInv, NEW i \in Workers, PutRecord(i)
  PROVE  PlaceInv'
<1>1. pc[i] \in Executing /\ Pending(i) # {}
  BY DEF PutRecord, PlaceInv, LocalInv, Knows, Executing, Midway, Judging
<1>2. Current(i) \in Job
  BY <1>1, CurrentIsJob
<1>3. record' \in [Job -> Record \cup {None}]
  BY <1>2 DEF PutRecord, PlaceInv, TypeOK
<1>4. /\ UNCHANGED <<batch, state>>
      /\ registered' \in SUBSET Registrations
      /\ ledger' \in [Registrations -> Chain]
  BY DEF PutRecord, PlaceInv, TypeOK
<1>5. Took(i, Current(i)) \/ Leave(i)
  BY DEF PutRecord
<1> QED BY <1>1, <1>2, <1>3, <1>4, <1>5, TookPlaces, GonePlaces

\* The only state a worker may add is of its batch, on the unique leaf.
LEMMA StatePut ==
  ASSUME PlaceInv, NEW i \in Workers, PutState(i)
  PROVE  LET n == on[i]
         IN  /\ n \in Batches /\ batch[n] \in Batch
             /\ state' \in [Batches -> State \cup {None}]
             /\ \/ state' = state
                \/ /\ state[n] = None /\ Follows(batch[n])
                   /\ state'[n] = Outcome(batch[n], got[i])
                   /\ Outcome(batch[n], got[i]) \in State
                   /\ \A b \in Batches \ {n} : state'[b] = state[b]
<1> DEFINE n == on[i]
<1>1. n \in Batches /\ batch[n] # None
  BY DEF PutState, PlaceInv, LocalInv, Knows, Executing
<1>2. batch[n] \in Batch /\ state \in [Batches -> State \cup {None}]
  BY <1>1 DEF PlaceInv, TypeOK
<1>3. got[i] \in [Registrations -> Job \cup {None}]
  BY DEF PlaceInv, TypeOK
<1>4. state' = [state EXCEPT ![n] = IF @ = None /\ Follows(batch[n])
                                    THEN Outcome(batch[n], got[i]) ELSE @]
  BY DEF PutState
<1>5. CASE state[n] = None /\ Follows(batch[n])
  <2>1. Outcome(batch[n], got[i]) \in State
    BY <1>2, <1>3, <1>5, OutcomeIsState
  <2> QED BY <1>1, <1>2, <1>4, <1>5, <2>1
<1>6. CASE ~(state[n] = None /\ Follows(batch[n]))
  <2>1. state' = state
    BY <1>1, <1>2, <1>4, <1>6
  <2> QED BY <1>1, <1>2, <2>1
<1> QED BY <1>5, <1>6

LEMMA PutStatePlaces ==
  ASSUME PlaceInv, NEW i \in Workers, PutState(i)
  PROVE  PlaceInv'
<1>1. Leave(i) /\ UNCHANGED <<registered, ledger, batch, record>>
  BY DEF PutState
<1>2. state' \in [Batches -> State \cup {None}]
  BY StatePut
<1>3. TypeOK'
  BY <1>1, <1>2, WorkerGone DEF PlaceInv, TypeOK
<1>4. StatesPrepared'
  BY <1>1, StatePut, NoneIsNothing DEF PlaceInv, StatesPrepared, Stored
<1>5. Knows(i)'
  BY <1>1, WorkerGone DEF PlaceInv, Knows, Executing, Midway, Judging
<1>6. \A k \in Workers \ {i} : Knows(k)'
  BY <1>1, WorkerGone, OthersKnow DEF PlaceInv
<1> QED BY <1>3, <1>4, <1>5, <1>6 DEF PlaceInv, LocalInv

LEMMA NextPlaces == PlaceInv /\ [Next]_vars => PlaceInv'
<1> SUFFICES ASSUME PlaceInv, [Next]_vars PROVE PlaceInv'
  OBVIOUS
<1>1. CASE UNCHANGED vars
  <2>1. TypeOK' /\ StatesPrepared'
    BY <1>1 DEF PlaceInv, TypeOK, StatesPrepared, Stored, vars, stores, locals
  <2>2. LocalInv'
    BY <1>1, OthersKnow DEF PlaceInv, LocalInv, vars, stores, locals
  <2> QED BY <2>1, <2>2 DEF PlaceInv
<1>2. CASE \E r \in Registrations : Register(r)
  BY <1>2, RegisterPlaces
<1>3. ASSUME NEW i \in Workers, Step(i)
      PROVE  PlaceInv'
  <2>1. CASE Abort(i)
    BY <2>1, GonePlaces DEF Abort, stores, PlaceInv, TypeOK
  <2> QED BY <1>3, <2>1, ListActivePlaces, PrepareBatchPlaces, RunBatchPlaces, UseRecordPlaces,
             ReplayOutcomePlaces, ReconcilePlaces, AppendPlaces, SummarisePlaces,
             PutRecordPlaces, PutStatePlaces DEF Step
<1> QED BY <1>1, <1>2, <1>3 DEF Next

\* The type invariant: at every moment of every execution the stores and the
\* workers hold values of their types.
THEOREM TypeCorrect == Spec => []TypeOK
<1>1. PlaceInv => TypeOK
  BY DEF PlaceInv
<1> QED BY <1>1, InitPlaces, NextPlaces, PTL DEF Spec

-----------------------------------------------------------------------------
(* The chain of the portfolio states.                                      *)

\* What a step does to batches and states: batches keep their contents, and
\* at most one state is added, of a batch on the unique leaf.
LEMMA StatesGrow ==
  ASSUME PlaceInv, [Next]_vars
  PROVE  /\ \A b \in Batches : batch[b] # None => batch'[b] = batch[b]
         /\ \/ state' = state
            \/ /\ batch' = batch
               /\ \E n \in Batches :
                    /\ batch[n] \in Batch /\ Follows(batch[n])
                    /\ state[n] = None /\ state'[n] # None
                    /\ \A b \in Batches \ {n} : state'[b] = state[b]
<1>1. CASE \E i \in Workers : PrepareBatch(i)
  BY <1>1, BatchPrepared DEF PlaceInv, PrepareBatch
<1>2. CASE \E i \in Workers : PutState(i)
  <2>1. PICK i \in Workers : PutState(i)
    BY <1>2
  <2>2. batch' = batch
    BY <2>1 DEF PutState
  <2>3. \A s \in State : s # None
    BY DistinctAssumption
  <2> QED BY <2>1, <2>2, <2>3, StatePut
<1>3. CASE UNCHANGED <<batch, state>>
  BY <1>3
<1> QED BY <1>1, <1>2, <1>3 DEF Next, Step, vars, stores, Register, ListActive, RunBatch, UseRecord,
           ReplayOutcome, Reconcile, Append, Summarise, PutRecord, Abort

ChainInv == PlaceInv /\ OneChain

LEMMA NextChain == ChainInv /\ [Next]_vars => ChainInv'
<1> SUFFICES ASSUME ChainInv, [Next]_vars PROVE ChainInv'
  OBVIOUS
<1>1. PlaceInv'
  BY NextPlaces DEF ChainInv
<1>2. \A b \in Stored : batch'[b] = batch[b]
  BY StatesGrow DEF ChainInv, PlaceInv, StatesPrepared, Stored
<1>3. ASSUME state' = state PROVE OneChain'
  BY <1>2, <1>3 DEF ChainInv, OneChain, Stored
<1>4. ASSUME batch' = batch, NEW n \in Batches, Follows(batch[n]), state[n] = None, state'[n] # None,
             \A b \in Batches \ {n} : state'[b] = state[b]
      PROVE  OneChain'
  <2>1. Stored' = Stored \cup {n} /\ n \notin Stored
    BY <1>4 DEF Stored
  <2>2. \A c \in Stored : batch[c].previous # batch[n].previous
    <3>1. CASE batch[n].previous = None
      BY <1>4, <3>1 DEF Follows
    <3>2. CASE batch[n].previous # None
      BY <1>4, <3>2 DEF Follows, Leaves
    <3> QED BY <3>1, <3>2
  <2>3. batch[n].previous # None => batch[n].previous \in Stored
    BY <1>4 DEF Follows, Leaves
  <2> QED BY <1>4, <2>1, <2>2, <2>3 DEF ChainInv, OneChain
<1>5. OneChain'
  BY <1>3, <1>4, StatesGrow DEF ChainInv
<1> QED BY <1>1, <1>5 DEF ChainInv

\* However many batches are run side by side, the stored portfolio states are
\* one chain: create-once states are written only on the unique leaf.
THEOREM StatesChain == Spec => []OneChain
<1>1. Init => ChainInv
  BY InitPlaces DEF ChainInv, OneChain, Init, Stored
<1>2. ChainInv => OneChain
  BY DEF ChainInv
<1> QED BY <1>1, <1>2, NextChain, PTL DEF Spec

-----------------------------------------------------------------------------
(* The events.                                                             *)

\* Events that a replay does not contradict, and has nothing to add to.
Agrees(c, j) == Status(j) \in {"WAITING", "BLOCKED"} \/ Matches(c, j)
Complete(c, j) == Agrees(c, j) /\ Missing(c, j) = {}

\* What a worker has seen of the events of its registration stands, agrees
\* with its replay, and is complete once it has appended.
Sees(i) ==
  /\ pc[i] \in Judging => /\ Prefix(draft[i].events, ledger[Current(i).of])
                          /\ Agrees(draft[i].events, Current(i))
  /\ pc[i] \in {"summary", "record"} => Complete(draft[i].events, Current(i))

RecordsComplete == \A j \in Job : record[j] # None => Complete(record[j].events, j)

EventInv == RecordsStand /\ RecordsComplete /\ ChainsLegal /\ \A i \in Workers : Sees(i)

\* The inductive invariant of the events.
EventsInv == PlaceInv /\ EventInv

LEMMA PrefixTransitive ==
  ASSUME NEW a, NEW b, NEW c, Prefix(a, b), Prefix(b, c)
  PROVE  Prefix(a, c)
BY DEF Prefix

\* An event is appended where none was, and the chain stays legal.
LEMMA EventLegal ==
  ASSUME ChainsLegal, TypeOK, NEW j \in Job, NEW seen \in Chain, NEW e \in Missing(seen, j),
         "entry" \in Missing(seen, j) => e = "entry",
         Prefix(seen, ledger[j.of]), Matches(seen, j), MayAppend(ledger[j.of], e, j),
         ledger' = [ledger EXCEPT ![j.of] = [ledger[j.of] EXCEPT ![e] = j]]
  PROVE  /\ \A r \in Registrations : Prefix(ledger[r], ledger'[r])
         /\ ChainsLegal'
         /\ Prefix([seen EXCEPT ![e] = j], ledger'[j.of])
         /\ Matches([seen EXCEPT ![e] = j], j)
         /\ Missing([seen EXCEPT ![e] = j], j) = Missing(seen, j) \ {e}
<1> DEFINE c == ledger[j.of]
           d == [c EXCEPT ![e] = j]
           s == [seen EXCEPT ![e] = j]
<1>1. j.of \in Registrations /\ c \in Chain /\ e \in EventType /\ ledger \in [Registrations -> Chain]
  BY DEF TypeOK, Job, Missing
<1>2. ledger'[j.of] = d /\ \A r \in Registrations \ {j.of} : ledger'[r] = ledger[r]
  BY <1>1
<1>3. d[e] = j /\ \A x \in EventType \ {e} : d[x] = c[x]
  BY <1>1, EventAdded
<1>4. s[e] = j /\ \A x \in EventType \ {e} : s[x] = seen[x]
  <2>1. seen \in Chain /\ j \in Job /\ e \in EventType
    BY <1>1
  <2> HIDE DEF c, d
  <2> QED BY <2>1 DEF Chain
<1>5. j # None
  BY NoneIsNothing
<1>6. c[e] = None
  BY <1>1 DEF MayAppend, Ended, EventType
<1>7. Prefix(c, d)
  BY <1>3, <1>6 DEF Prefix, EventType
<1>8. Prefix(s, d)
  BY <1>3, <1>4, <1>5 DEF Prefix, EventType
<1>9. Matches(s, j)
  BY <1>1, <1>4 DEF Matches, Missing, EventType
<1>10. Legal(d)
  <2>1. Legal(c)
    BY <1>1 DEF ChainsLegal
  <2>2. CASE e = "entry"
    <3>1. d.entry = j /\ d.exit = c.exit /\ d.expiry = c.expiry
      BY <1>3, <2>2 DEF EventType
    <3>2. Status(j) \in {"OPEN", "CLOSED"} /\ c.exit = None /\ c.expiry = None
      BY <2>2 DEF Missing, MayAppend, Ended
    <3> QED BY <3>1, <3>2 DEF Legal
  <2>3. CASE e = "exit"
    <3>1. d.exit = j /\ d.entry = c.entry /\ d.expiry = c.expiry
      BY <1>3, <2>3 DEF EventType
    <3>2. Status(j) = "CLOSED" /\ c.entry # None /\ (SameSession(j) => c.entry = j)
      BY <2>3 DEF Missing, MayAppend
    <3>3. seen.entry # None
      BY <2>3, <3>2 DEF Missing, EventType
    <3>4. c.entry.lineage = j.lineage
      BY <3>3 DEF Prefix, Matches
    <3> QED BY <2>1, <3>1, <3>2, <3>4 DEF Legal
  <2>4. CASE e = "expiry"
    <3>1. d.expiry = j /\ d.entry = c.entry /\ d.exit = c.exit
      BY <1>3, <2>4 DEF EventType
    <3>2. Status(j) = "EXPIRED" /\ c.entry = None /\ c.exit = None
      BY <2>4 DEF Missing, MayAppend, Ended
    <3> QED BY <3>1, <3>2 DEF Legal
  <2> QED BY <1>1, <2>2, <2>3, <2>4 DEF EventType
<1>11. ChainsLegal'
  BY <1>2, <1>10 DEF ChainsLegal, Legal
<1>12. \A r \in Registrations : Prefix(ledger[r], ledger'[r])
  BY <1>2, <1>7 DEF Prefix
<1>13. Missing(s, j) = Missing(seen, j) \ {e}
  BY <1>4, <1>5 DEF Missing
<1> QED BY <1>2, <1>8, <1>9, <1>11, <1>12, <1>13

\* Workers that are not the one stepping still see what they saw.
LEMMA OthersSee ==
  ASSUME PlaceInv, NEW k \in Workers, Sees(k),
         pc'[k] = pc[k], on'[k] = on[k], got'[k] = got[k], draft'[k] = draft[k],
         \A b \in Batches : batch[b] # None => batch'[b] = batch[b],
         \A r \in Registrations : Prefix(ledger[r], ledger'[r])
  PROVE  Sees(k)'
<1>1. CASE pc[k] \in Judging
  <2>1. pc[k] \in Executing /\ Pending(k) # {}
    BY <1>1 DEF PlaceInv, LocalInv, Knows, Executing, Midway
  <2>2. on[k] \in Batches /\ batch'[on[k]] = batch[on[k]]
    BY <2>1 DEF PlaceInv, LocalInv, Knows
  <2>3. Current(k)' = Current(k)
    BY <2>2 DEF Current, Pending
  <2>4. Current(k).of \in Registrations
    BY <2>1, CurrentIsJob
  <2>5. Prefix(draft[k].events, ledger'[Current(k).of])
    BY <1>1, <2>4, PrefixTransitive DEF Sees
  <2>6. /\ Agrees(draft[k].events, Current(k))' <=> Agrees(draft[k].events, Current(k))
        /\ Complete(draft[k].events, Current(k))' <=> Complete(draft[k].events, Current(k))
    BY <2>3 DEF Agrees, Complete, Matches, Missing
  <2>7. Prefix(draft[k].events, ledger[Current(k).of])'
    BY <2>3, <2>5 DEF Prefix
  <2> QED BY <2>6, <2>7 DEF Sees
<1>2. CASE pc[k] \notin Judging
  BY <1>2 DEF Sees, Judging
<1> QED BY <1>1, <1>2

\* With the ledger and the records what is said of them stays.
LEMMA RecordsSame ==
  ASSUME RecordsStand, RecordsComplete, ChainsLegal, UNCHANGED <<ledger, record>>
  PROVE  RecordsStand' /\ RecordsComplete' /\ ChainsLegal'
BY DEF RecordsStand, RecordsComplete, ChainsLegal, Prefix, Legal, Complete, Agrees, Matches, Missing

\* A step that neither appends nor records, nor has seen events after it.
LEMMA QuietStep ==
  ASSUME EventsInv, NEW i \in Workers, UNCHANGED <<ledger, record>>, pc'[i] \notin Judging,
         \A b \in Batches : batch[b] # None => batch'[b] = batch[b],
         \A k \in Workers \ {i} :
           pc'[k] = pc[k] /\ on'[k] = on[k] /\ got'[k] = got[k] /\ draft'[k] = draft[k]
  PROVE  EventInv'
<1>1. RecordsStand' /\ RecordsComplete'
  BY DEF EventsInv, EventInv, RecordsStand, RecordsComplete, Prefix, Complete, Agrees, Matches, Missing
<1>2. ChainsLegal'
  BY DEF EventsInv, EventInv, ChainsLegal, Legal
<1>3. \A r \in Registrations : Prefix(ledger[r], ledger'[r])
  BY DEF Prefix
<1>4. \A k \in Workers \ {i} : Sees(k)'
  BY <1>3, OthersSee DEF EventsInv, EventInv
<1>5. Sees(i)'
  BY DEF Sees, Judging
<1> QED BY <1>1, <1>2, <1>4, <1>5 DEF EventInv

\* A worker that is gone, or took a position, has no events at hand.
LEMMA QuietPlaces ==
  ASSUME PlaceInv, NEW i \in Workers
  PROVE  /\ Leave(i) => /\ pc'[i] \notin Judging
                        /\ \A k \in Workers \ {i} : /\ pc'[k] = pc[k] /\ on'[k] = on[k]
                                                    /\ got'[k] = got[k] /\ draft'[k] = draft[k]
         /\ \A j : Took(i, j) =>
              /\ pc'[i] \notin Judging
              /\ \A k \in Workers \ {i} : /\ pc'[k] = pc[k] /\ on'[k] = on[k]
                                          /\ got'[k] = got[k] /\ draft'[k] = draft[k]
<1>1. Leave(i) => /\ pc'[i] \notin Judging
                  /\ \A k \in Workers \ {i} : /\ pc'[k] = pc[k] /\ on'[k] = on[k]
                                              /\ got'[k] = got[k] /\ draft'[k] = draft[k]
  BY WorkerGone DEF PlaceInv, Judging
<1>2. ASSUME NEW j, Took(i, j)
      PROVE  /\ pc'[i] \notin Judging
             /\ \A k \in Workers \ {i} : /\ pc'[k] = pc[k] /\ on'[k] = on[k]
                                         /\ got'[k] = got[k] /\ draft'[k] = draft[k]
  BY <1>2 DEF PlaceInv, TypeOK, Took, Goto, Judging
<1> QED BY <1>1, <1>2

LEMMA ReconcileSees ==
  ASSUME EventsInv, NEW i \in Workers, Reconcile(i)
  PROVE  EventInv'
<1> DEFINE j == Current(i)
           c == ledger[j.of]
<1>1. PlaceInv /\ UNCHANGED <<ledger, record, batch>>
  BY DEF EventsInv, Reconcile, stores
<1>2. CASE Leave(i)
  BY <1>1, <1>2, QuietPlaces, QuietStep
<1>3. CASE /\ Status(j) \in {"WAITING", "BLOCKED"} \/ Matches(c, j)
           /\ draft' = [draft EXCEPT ![i].events = c]
           /\ Goto(i, IF Missing(c, j) = {} THEN "summary" ELSE "append")
           /\ UNCHANGED <<listing, on, got>>
  <2>1. /\ pc'[i] = IF Missing(c, j) = {} THEN "summary" ELSE "append"
        /\ \A k \in Workers \ {i} : pc'[k] = pc[k]
    BY <1>1, <1>3 DEF PlaceInv, TypeOK, Goto
  <2>2. draft'[i].events = c /\ \A k \in Workers \ {i} : draft'[k] = draft[k]
    BY <1>1, <1>3 DEF PlaceInv, TypeOK, Record
  <2>3. Current(i)' = j
    BY <1>1, <1>3 DEF Current, Pending
  <2>4. Agrees(c, j)
    BY <1>3 DEF Agrees
  <2>5. Prefix(c, c)
    BY DEF Prefix
  <2>6. Prefix(draft[i].events, ledger[Current(i).of])'
    BY <1>1, <2>2, <2>3, <2>5 DEF Prefix
  <2>7. Agrees(draft[i].events, Current(i))'
    BY <2>2, <2>3, <2>4 DEF Agrees, Matches
  <2>8. Sees(i)'
    <3>1. Missing(draft[i].events, Current(i))' = Missing(c, j)
      BY <2>2, <2>3 DEF Missing
    <3> QED BY <2>1, <2>6, <2>7, <3>1 DEF Sees, Complete
  <2>9. \A r \in Registrations : Prefix(ledger[r], ledger'[r])
    BY <1>1 DEF Prefix
  <2>10. \A k \in Workers \ {i} : Sees(k)'
    BY <1>1, <1>3, <2>1, <2>2, <2>9, OthersSee DEF EventsInv, EventInv
  <2>11. RecordsStand' /\ RecordsComplete' /\ ChainsLegal'
    BY <1>1, RecordsSame DEF EventsInv, EventInv
  <2> QED BY <2>8, <2>10, <2>11 DEF EventInv
<1> QED BY <1>2, <1>3 DEF Reconcile

LEMMA AppendSees ==
  ASSUME EventsInv, NEW i \in Workers, Append(i)
  PROVE  EventInv'
<1> DEFINE j == Current(i)
           seen == draft[i].events
<1>1. /\ PlaceInv /\ UNCHANGED <<record, batch>> /\ pc[i] = "append"
      /\ pc[i] \in Executing /\ Pending(i) # {} /\ j \in Job
  BY AppendWrites DEF EventsInv, Append
<1>2. CASE UNCHANGED ledger /\ Leave(i)
  BY <1>1, <1>2, QuietPlaces, QuietStep
<1>3. ASSUME NEW e \in Missing(seen, j), "entry" \in Missing(seen, j) => e = "entry",
             MayAppend(ledger[j.of], e, j),
             ledger' = [ledger EXCEPT ![j.of] = [ledger[j.of] EXCEPT ![e] = j]],
             \/ Leave(i)
             \/ /\ draft' = [draft EXCEPT ![i] = Appended(draft[i], e, j)]
                /\ Goto(i, IF Missing(seen, j) = {e} THEN "summary" ELSE "append")
                /\ UNCHANGED <<listing, on, got>>
      PROVE  EventInv'
  <2>1. seen \in Chain /\ Prefix(seen, ledger[j.of]) /\ Matches(seen, j)
    <3>1. seen \in Chain /\ Prefix(seen, ledger[j.of]) /\ Agrees(seen, j)
      BY <1>1 DEF PlaceInv, TypeOK, Record, EventsInv, EventInv, Sees, Judging
    <3>2. Status(j) \notin {"WAITING", "BLOCKED"}
      BY <1>3 DEF Missing, EventType
    <3> QED BY <3>1, <3>2 DEF Agrees
  <2>2. /\ \A r \in Registrations : Prefix(ledger[r], ledger'[r])
        /\ ChainsLegal'
        /\ Prefix([seen EXCEPT ![e] = j], ledger'[j.of])
        /\ Matches([seen EXCEPT ![e] = j], j)
        /\ Missing([seen EXCEPT ![e] = j], j) = Missing(seen, j) \ {e}
    <3>1. ChainsLegal /\ TypeOK
      BY <1>1 DEF EventsInv, EventInv, PlaceInv
    <3> HIDE DEF j, seen
    <3> QED BY <1>1, <1>3, <2>1, <3>1, EventLegal
  <2>3. RecordsStand' /\ RecordsComplete'
    <3>1. RecordsStand'
      BY <1>1, <2>2, PrefixTransitive DEF EventsInv, EventInv, RecordsStand, Job
    <3>2. RecordsComplete'
      BY <1>1 DEF EventsInv, EventInv, RecordsComplete, Complete, Agrees, Matches, Missing
    <3> QED BY <3>1, <3>2
  <2>4. /\ Sees(i)'
        /\ \A k \in Workers \ {i} : /\ pc'[k] = pc[k] /\ on'[k] = on[k]
                                    /\ got'[k] = got[k] /\ draft'[k] = draft[k]
    <3>1. CASE Leave(i)
      BY <1>1, <3>1, QuietPlaces DEF Sees, Judging
    <3>2. CASE /\ draft' = [draft EXCEPT ![i] = Appended(draft[i], e, j)]
               /\ Goto(i, IF Missing(seen, j) = {e} THEN "summary" ELSE "append")
               /\ UNCHANGED <<listing, on, got>>
      <4>1. /\ pc'[i] = IF Missing(seen, j) = {e} THEN "summary" ELSE "append"
            /\ \A k \in Workers \ {i} : pc'[k] = pc[k]
        BY <1>1, <3>2 DEF PlaceInv, TypeOK, Goto
      <4>2. e \in EventType
        BY DEF Missing
      <4>3. draft'[i].events = [seen EXCEPT ![e] = j] /\ \A k \in Workers \ {i} : draft'[k] = draft[k]
        <5>1. draft \in [Workers -> Record]
          BY <1>1 DEF PlaceInv, TypeOK
        <5>2. draft'[i] = Appended(draft[i], e, j) /\ \A k \in Workers \ {i} : draft'[k] = draft[k]
          BY <3>2, <5>1
        <5> QED BY <1>1, <4>2, <5>1, <5>2, DraftExtended
      <4>4. Current(i)' = j
        BY <1>1, <3>2 DEF Current, Pending
      <4>5. Prefix(draft[i].events, ledger[Current(i).of])'
        BY <2>2, <4>3, <4>4 DEF Prefix
      <4>6. Agrees(draft[i].events, Current(i))'
        BY <2>2, <4>3, <4>4 DEF Agrees, Matches
      <4>7. Missing(draft[i].events, Current(i))' = Missing(seen, j) \ {e}
        BY <2>2, <4>3, <4>4 DEF Missing
      <4>8. Sees(i)'
        BY <4>1, <4>5, <4>6, <4>7 DEF Sees, Complete
      <4> QED BY <3>2, <4>1, <4>3, <4>8
    <3> QED BY <1>3, <3>1, <3>2
  <2>5. \A k \in Workers \ {i} : Sees(k)'
    BY <1>1, <2>2, <2>4, OthersSee DEF EventsInv, EventInv
  <2> QED BY <2>2, <2>3, <2>4, <2>5 DEF EventInv
<1> QED BY <1>2, <1>3, AppendWrites DEF EventsInv

LEMMA SummariseSees ==
  ASSUME EventsInv, NEW i \in Workers, Summarise(i)
  PROVE  EventInv'
<1>1. PlaceInv /\ UNCHANGED <<ledger, record, batch, on, got>> /\ pc[i] = "summary"
  BY DEF EventsInv, Summarise, stores
<1>2. pc'[i] = "record" /\ \A k \in Workers \ {i} : pc'[k] = pc[k]
  BY <1>1 DEF Summarise, PlaceInv, TypeOK, Goto
<1>3. draft'[i].events = draft[i].events /\ \A k \in Workers \ {i} : draft'[k] = draft[k]
  BY <1>1 DEF Summarise, PlaceInv, TypeOK, Record
<1>4. Current(i)' = Current(i)
  BY <1>1 DEF Current, Pending
<1>5. Prefix(draft[i].events, ledger[Current(i).of]) /\ Complete(draft[i].events, Current(i))
  BY <1>1 DEF EventsInv, EventInv, Sees, Judging
<1>6. Prefix(draft[i].events, ledger[Current(i).of])' /\ Complete(draft[i].events, Current(i))'
  <2>1. Prefix(draft[i].events, ledger[Current(i).of])'
    BY <1>1, <1>3, <1>4, <1>5 DEF Prefix
  <2>2. Complete(draft[i].events, Current(i))'
    BY <1>3, <1>4, <1>5
  <2> QED BY <2>1, <2>2
<1>7. Sees(i)'
  BY <1>2, <1>6 DEF Sees, Complete
<1>8. \A r \in Registrations : Prefix(ledger[r], ledger'[r])
  BY <1>1 DEF Prefix
<1>9. \A k \in Workers \ {i} : Sees(k)'
  BY <1>1, <1>2, <1>3, <1>8, OthersSee DEF EventsInv, EventInv
<1>10. RecordsStand' /\ RecordsComplete' /\ ChainsLegal'
  BY <1>1, RecordsSame DEF EventsInv, EventInv
<1> QED BY <1>7, <1>9, <1>10 DEF EventInv

LEMMA PutRecordSees ==
  ASSUME EventsInv, NEW i \in Workers, PutRecord(i)
  PROVE  EventInv'
<1> DEFINE j == Current(i)
<1>1. PlaceInv /\ UNCHANGED <<ledger, batch>> /\ pc[i] = "record"
  BY DEF EventsInv, PutRecord
<1>2. pc[i] \in Executing /\ Pending(i) # {}
  BY <1>1 DEF PlaceInv, LocalInv, Knows, Executing, Midway, Judging
<1>3. j \in Job
  BY <1>1, <1>2, CurrentIsJob
<1>4. Prefix(draft[i].events, ledger[j.of]) /\ Complete(draft[i].events, j)
  BY <1>1 DEF EventsInv, EventInv, Sees, Judging
<1>5. \A x \in Job : record'[x] = record[x] \/ (x = j /\ record'[x] = draft[i])
  BY <1>1, <1>3 DEF PutRecord, PlaceInv, TypeOK
<1>6. RecordsStand' /\ RecordsComplete'
  <2>1. RecordsStand'
    BY <1>1, <1>4, <1>5 DEF EventsInv, EventInv, RecordsStand, Prefix
  <2>2. RecordsComplete'
    BY <1>4, <1>5 DEF EventsInv, EventInv, RecordsComplete
  <2> QED BY <2>1, <2>2
<1>7. ChainsLegal'
  BY <1>1 DEF EventsInv, EventInv, ChainsLegal, Legal
<1>8. /\ pc'[i] \notin Judging
      /\ \A k \in Workers \ {i} : /\ pc'[k] = pc[k] /\ on'[k] = on[k]
                                  /\ got'[k] = got[k] /\ draft'[k] = draft[k]
  BY <1>1, QuietPlaces DEF PutRecord
<1>9. Sees(i)'
  BY <1>8 DEF Sees, Judging
<1>10. \A r \in Registrations : Prefix(ledger[r], ledger'[r])
  BY <1>1 DEF Prefix
<1>11. \A k \in Workers \ {i} : Sees(k)'
  BY <1>1, <1>8, <1>10, OthersSee DEF EventsInv, EventInv
<1> QED BY <1>6, <1>7, <1>9, <1>11 DEF EventInv

LEMMA NextEvents == EventsInv /\ [Next]_vars => EventsInv'
<1> SUFFICES ASSUME EventsInv, [Next]_vars PROVE EventInv'
  BY NextPlaces DEF EventsInv
<1>1. PlaceInv /\ EventInv
  BY DEF EventsInv
<1>2. \A b \in Batches : batch[b] # None => batch'[b] = batch[b]
  BY <1>1, StatesGrow
<1>3. ASSUME UNCHANGED <<ledger, record, locals>> PROVE EventInv'
  <2>1. \A r \in Registrations : Prefix(ledger[r], ledger'[r])
    BY <1>3 DEF Prefix
  <2>2. \A i \in Workers : Sees(i)'
    BY <1>1, <1>2, <1>3, <2>1, OthersSee DEF EventInv, locals
  <2>3. RecordsStand' /\ RecordsComplete' /\ ChainsLegal'
    BY <1>1, <1>3, RecordsSame DEF EventInv
  <2> QED BY <2>2, <2>3 DEF EventInv
<1>4. ASSUME NEW i \in Workers, Step(i) PROVE EventInv'
  <2>1. CASE ListActive(i) \/ ReplayOutcome(i) \/ RunBatch(i)
    <3>1. /\ pc'[i] \notin Judging /\ UNCHANGED <<ledger, record>>
          /\ \A k \in Workers \ {i} : /\ pc'[k] = pc[k] /\ on'[k] = on[k]
                                      /\ got'[k] = got[k] /\ draft'[k] = draft[k]
      BY <1>1, <2>1 DEF ListActive, ReplayOutcome, RunBatch, PlaceInv, TypeOK, Goto, Judging, stores
    <3> QED BY <1>2, <3>1, QuietStep
  <2>2. CASE UseRecord(i)
    <3>1. UNCHANGED <<ledger, record>> /\ (Took(i, Current(i)) \/ Leave(i))
      BY <2>2 DEF UseRecord, stores
    <3> QED BY <1>1, <1>2, <3>1, QuietPlaces, QuietStep
  <2>3. CASE PrepareBatch(i) \/ PutState(i) \/ Abort(i)
    <3>1. UNCHANGED <<ledger, record>> /\ Leave(i)
      BY <2>3 DEF PrepareBatch, PutState, Abort, stores
    <3> QED BY <1>1, <1>2, <3>1, QuietPlaces, QuietStep
  <2> QED BY <1>4, <2>1, <2>2, <2>3, ReconcileSees, AppendSees, SummariseSees, PutRecordSees DEF Step
<1>5. CASE \E r \in Registrations : Register(r)
  BY <1>3, <1>5 DEF Register
<1>6. CASE UNCHANGED vars
  BY <1>3, <1>6 DEF vars, stores
<1> QED BY <1>4, <1>5, <1>6 DEF Next

LEMMA InitEvents == Init => EventsInv
<1> SUFFICES ASSUME Init PROVE EventsInv
  OBVIOUS
<1>1. RecordsStand /\ RecordsComplete
  BY DEF Init, RecordsStand, RecordsComplete
<1>2. ChainsLegal
  BY DEF Init, ChainsLegal, Legal, NoEvents, EventType
<1>3. \A i \in Workers : Sees(i)
  BY DEF Init, Sees, Judging
<1> QED BY <1>1, <1>2, <1>3, InitPlaces DEF EventsInv, EventInv

\* The events a terminal record saw are never taken out of the ledger, so
\* "terminal record differs from paper ledger" is never raised.
THEOREM RecordsKeepStanding == Spec => []RecordsStand
<1>1. EventsInv => RecordsStand
  BY DEF EventsInv, EventInv
<1> QED BY <1>1, InitEvents, NextEvents, PTL DEF Spec

\* Every event chain of the ledger is legal and of one lineage, whatever jobs
\* append to it side by side and wherever they die.
THEOREM LegalChains == Spec => []ChainsLegal
<1>1. EventsInv => ChainsLegal
  BY DEF EventsInv, EventInv
<1> QED BY <1>1, InitEvents, NextEvents, PTL DEF Spec

-----------------------------------------------------------------------------
(* The positions.                                                          *)

EndedPosition(p) == p # None /\ Status(p) \in {"CLOSED", "EXPIRED"}

\* The ledger holds the end that the job found.
Settles(j) ==
  /\ Status(j) = "CLOSED" => ledger[j.of].exit = j
  /\ Status(j) = "EXPIRED" => ledger[j.of].expiry = j

\* No batch judges what had ended in the state it follows.
Advances(b) ==
  b.previous # None =>
    /\ b.previous \in Stored
    /\ \A r \in b.regs : ~EndedPosition(state[b.previous].positions[r])

BatchesAdvance == \A n \in Batches : batch[n] # None => Advances(batch[n])

PositionsSettle ==
  \A b \in Stored, r \in Registrations :
    state[b].positions[r] # None => state[b].positions[r].of = r /\ Settles(state[b].positions[r])

CountsRight ==
  \A b \in Stored, r \in Registrations :
    state[b].total[r] = IF Closed(state[b].positions, r) THEN 1 ELSE 0

\* A profit that was counted is of a position that is closed to this day.
CountedStayClosed ==
  \A b \in Stored, l \in Leaves : \A r \in state[b].newly : Closed(state[l].positions, r)

\* What a worker holds.
Listed(i) ==
  on[i] # None => /\ on[i] \in Stored
                  /\ \A r \in listing[i] : ~EndedPosition(state[on[i]].positions[r])

Judged(i) ==
  /\ ActivePositions(Prior(batch[on[i]])) \subseteq batch[on[i]].regs
  /\ \A r \in Registrations :
       got[i][r] # None => /\ r \in batch[on[i]].regs
                           /\ got[i][r] = JobOf(batch[on[i]], r)
                           /\ Settles(got[i][r])

Holds(i) ==
  /\ pc[i] \notin Executing => got[i] = NoPositions
  /\ pc[i] = "idle" => on[i] = None
  /\ pc[i] = "prepare" => Listed(i)
  /\ pc[i] \in Executing => Judged(i)

StatesInv == PositionsSettle /\ CountsRight /\ PositionsKept /\ CountedStayClosed

PositionInv == BatchesAdvance /\ StatesInv /\ \A i \in Workers : Holds(i)

\* The inductive invariant of the positions.
PositionsInv == ChainInv /\ EventsInv /\ PositionInv

\* Events stay in the ledger.
LEMMA LedgerGrows ==
  ASSUME PlaceInv, [Next]_vars
  PROVE  \A r \in Registrations : Prefix(ledger[r], ledger'[r])
<1>1. CASE UNCHANGED ledger
  BY <1>1 DEF Prefix
<1>2. ASSUME NEW i \in Workers, Append(i), ledger' # ledger
      PROVE  \A r \in Registrations : Prefix(ledger[r], ledger'[r])
  <2> DEFINE j == Current(i)
  <2>1. j \in Job /\ j.of \in Registrations /\ ledger \in [Registrations -> Chain]
    BY <1>2, AppendWrites DEF Job, PlaceInv, TypeOK
  <2>2. PICK e \in EventType : /\ MayAppend(ledger[j.of], e, j)
                               /\ ledger' = [ledger EXCEPT ![j.of] = [ledger[j.of] EXCEPT ![e] = j]]
    BY <1>2, AppendWrites DEF Missing
  <2>3. ledger[j.of][e] = None
    BY <2>2 DEF MayAppend, Ended, EventType
  <2>4. ledger'[j.of] = [ledger[j.of] EXCEPT ![e] = j] /\ \A r \in Registrations \ {j.of} : ledger'[r] = ledger[r]
    BY <2>1, <2>2
  <2>5. \A x \in EventType \ {e} : ledger'[j.of][x] = ledger[j.of][x]
    BY <2>1, <2>2, <2>4, EventAdded
  <2>6. Prefix(ledger[j.of], ledger'[j.of])
    BY <2>3, <2>5 DEF Prefix, EventType
  <2> QED BY <2>4, <2>6 DEF Prefix
<1> QED BY <1>1, <1>2 DEF Next, Step, vars, stores, Register, ListActive, PrepareBatch, RunBatch,
           UseRecord, ReplayOutcome, Reconcile, Summarise, PutRecord, PutState, Abort

LEMMA SettledStays ==
  ASSUME NEW j \in Job, Settles(j), \A r \in Registrations : Prefix(ledger[r], ledger'[r])
  PROVE  Settles(j)'
<1>1. j # None /\ j.of \in Registrations
  BY NoneIsNothing DEF Job
<1> QED BY <1>1 DEF Settles, Prefix

\* A job whose events are complete is settled.
LEMMA CompleteSettles ==
  ASSUME NEW j \in Job, NEW c, Complete(c, j), Prefix(c, ledger[j.of])
  PROVE  Settles(j)
<1>1. CASE Status(j) = "CLOSED"
  BY <1>1 DEF Complete, Agrees, Matches, Missing, EventType, Prefix, Settles
<1>2. CASE Status(j) = "EXPIRED"
  BY <1>2 DEF Complete, Agrees, Matches, Missing, EventType, Prefix, Settles
<1> QED BY <1>1, <1>2 DEF Settles

\* Batches, states and events are there for good.
Grows ==
  /\ \A b \in Batches : batch[b] # None => batch'[b] = batch[b]
  /\ \A b \in Batches : state[b] # None => state'[b] = state[b]
  /\ \A r \in Registrations : Prefix(ledger[r], ledger'[r])

LEMMA StoresGrow == ASSUME PlaceInv, [Next]_vars PROVE Grows
BY StatesGrow, LedgerGrows DEF Grows

LEMMA AdvancesStays ==
  ASSUME Grows, NEW b, Advances(b)
  PROVE  /\ Advances(b)'
         /\ Prior(b)' = Prior(b)
<1>1. CASE b.previous = None
  BY <1>1 DEF Advances, Prior
<1>2. CASE b.previous # None
  <2>1. b.previous \in Batches /\ state[b.previous] # None
    BY <1>2 DEF Advances, Stored
  <2>2. state'[b.previous] = state[b.previous]
    BY <2>1 DEF Grows
  <2>3. b.previous \in Stored'
    BY <2>1, <2>2 DEF Stored
  <2> QED BY <1>2, <2>2, <2>3 DEF Advances, Prior
<1> QED BY <1>1, <1>2

\* What a worker holds is not touched by the others, nor by itself while it
\* goes on with a job.
LEMMA StillHolds ==
  ASSUME PlaceInv, BatchesAdvance, Grows, NEW k \in Workers, Holds(k),
         pc'[k] = pc[k] \/ (pc[k] \in Executing /\ pc'[k] \in Executing),
         listing'[k] = listing[k], on'[k] = on[k], got'[k] = got[k]
  PROVE  Holds(k)'
<1>1. CASE pc[k] \in Executing
  <2>1. on[k] \in Batches /\ batch[on[k]] # None /\ batch'[on[k]] = batch[on[k]]
    BY <1>1 DEF PlaceInv, LocalInv, Knows, Grows
  <2>2. Prior(batch[on[k]])' = Prior(batch[on[k]])
    <3> DEFINE b == batch[on[k]]
    <3>1. Advances(b)
      BY <2>1 DEF BatchesAdvance
    <3>2. Prior(b)' = IF b.previous = None THEN Empty ELSE state'[b.previous]
      BY <2>1 DEF Prior
    <3>3. b.previous # None => state'[b.previous] = state[b.previous]
      BY <3>1 DEF Advances, Stored, Grows
    <3> QED BY <3>2, <3>3 DEF Prior
  <2>3. \A r \in Registrations : got[k][r] # None => Settles(got[k][r])'
    <3> SUFFICES ASSUME NEW r \in Registrations, got[k][r] # None PROVE Settles(got[k][r])'
      OBVIOUS
    <3>1. got[k][r] \in Job
      BY DEF PlaceInv, TypeOK
    <3>2. Settles(got[k][r])
      BY <1>1 DEF Holds, Judged
    <3>3. Settles(got[k][r])' <=> /\ Status(got[k][r]) = "CLOSED" => ledger'[got[k][r].of].exit = got[k][r]
                                  /\ Status(got[k][r]) = "EXPIRED" => ledger'[got[k][r].of].expiry = got[k][r]
      BY DEF Settles
    <3>4. got[k][r].of \in Registrations /\ got[k][r] # None
      BY <3>1 DEF Job
    <3> QED BY <3>2, <3>3, <3>4 DEF Settles, Grows, Prefix
  <2>4. Judged(k)
    BY <1>1 DEF Holds
  <2>5. Judged(k)'
    BY <2>1, <2>2, <2>3, <2>4 DEF Judged, ActivePositions
  <2>6. pc'[k] \in Executing /\ pc'[k] # "idle" /\ pc'[k] # "prepare"
    BY <1>1 DEF Executing, Midway, Judging
  <2> QED BY <2>5, <2>6 DEF Holds
<1>2. CASE pc[k] \notin Executing
  <2>1. Listed(k) => Listed(k)'
    <3>1. ASSUME on[k] # None, on[k] \in Stored
          PROVE  state'[on[k]] = state[on[k]] /\ on[k] \in Stored'
      BY <3>1 DEF Stored, Grows
    <3> QED BY <3>1 DEF Listed
  <2> QED BY <1>2, <2>1 DEF Holds
<1> QED BY <1>1, <1>2

\* As long as no state is added.
LEMMA StatesStay ==
  ASSUME ChainInv, BatchesAdvance, StatesInv, Grows, state' = state
  PROVE  StatesInv'
<1>1. Stored' = Stored /\ \A b \in Stored : batch'[b] = batch[b] /\ batch[b] # None
  BY DEF ChainInv, PlaceInv, StatesPrepared, Stored, Grows
<1>2. Leaves' = Leaves
  BY <1>1 DEF Leaves
<1>3. PositionsSettle'
  <2> SUFFICES ASSUME NEW b \in Stored, NEW r \in Registrations, state[b].positions[r] # None
               PROVE  state[b].positions[r].of = r /\ Settles(state[b].positions[r])'
    BY <1>1 DEF PositionsSettle
  <2>1. state[b].positions[r] \in Job
    BY DEF Stored, ChainInv, PlaceInv, TypeOK, State
  <2>2. state[b].positions[r].of = r /\ Settles(state[b].positions[r])
    BY DEF StatesInv, PositionsSettle
  <2>3. state[b].positions[r].of \in Registrations /\ state[b].positions[r] # None
    BY <2>1 DEF Job
  <2> QED BY <2>2, <2>3 DEF Settles, Grows, Prefix
<1>4. CountsRight' /\ CountedStayClosed'
  BY <1>1, <1>2 DEF StatesInv, CountsRight, CountedStayClosed, Closed
<1>5. PositionsKept'
  BY <1>1 DEF StatesInv, PositionsKept, Prior, JobOf
<1> QED BY <1>3, <1>4, <1>5 DEF StatesInv

\* Batches prepared on the leaf, for registrations that were active then.
LEMMA BatchesStayAdvancing ==
  ASSUME PositionsInv, Grows, [Next]_vars
  PROVE  BatchesAdvance'
<1>1. CASE batch' = batch
  BY <1>1, AdvancesStays DEF BatchesAdvance, PositionsInv, PositionInv
<1>2. ASSUME NEW i \in Workers, PrepareBatch(i)
      PROVE  BatchesAdvance'
  <2>1. PICK b \in Batch :
          /\ b.regs \subseteq listing[i]
          /\ b.previous = on[i]
          /\ IF \E n \in Batches : batch[n] = b THEN batch' = batch
             ELSE \E n \in Batches : batch[n] = None /\ batch' = [batch EXCEPT ![n] = b]
    BY <1>2 DEF PrepareBatch
  <2>2. Advances(b)
    BY <1>2, <2>1 DEF PositionsInv, PositionInv, Holds, Listed, Advances, PrepareBatch
  <2>3. \A n \in Batches : batch'[n] = batch[n] \/ batch'[n] = b
    BY <2>1 DEF PositionsInv, ChainInv, PlaceInv, TypeOK
  <2>4. ASSUME NEW n \in Batches, batch'[n] # None
        PROVE  Advances(batch[n])'
    <3>1. PICK c : c = batch'[n]
      OBVIOUS
    <3>2. c = batch[n] \/ c = b
      BY <2>3, <3>1
    <3>3. Advances(c)
      BY <2>2, <2>4, <3>1, <3>2 DEF PositionsInv, PositionInv, BatchesAdvance
    <3>4. Advances(c)'
      BY <3>3, AdvancesStays
    <3> QED BY <3>1, <3>4 DEF Advances
  <2> QED BY <2>4 DEF BatchesAdvance
<1> QED BY <1>1, <1>2 DEF Next, Step, vars, stores, Register, ListActive, RunBatch, UseRecord,
           ReplayOutcome, Reconcile, Append, Summarise, PutRecord, PutState, Abort

-----------------------------------------------------------------------------
(* What a worker holds.                                                    *)

\* A worker that is gone holds nothing.
LEMMA GoneHolds ==
  ASSUME PlaceInv, NEW i \in Workers, Leave(i)
  PROVE  Holds(i)'
BY DEF PlaceInv, TypeOK, Leave, Goto, Holds, Executing, Midway, Judging

\* What is active now had not ended in any stored state.
LEMMA ActiveNotEnded ==
  ASSUME PlaceInv, PositionsSettle, NEW n \in Stored, NEW r \in Registrations, Active(r)
  PROVE  ~EndedPosition(state[n].positions[r])
<1> SUFFICES ASSUME EndedPosition(state[n].positions[r]) PROVE FALSE
  OBVIOUS
<1>1. state[n].positions[r] # None /\ Status(state[n].positions[r]) \in {"CLOSED", "EXPIRED"}
  BY DEF EndedPosition
<1>2. state[n].positions[r].of = r /\ Settles(state[n].positions[r])
  BY <1>1 DEF PositionsSettle
<1> QED BY <1>1, <1>2 DEF Settles, Active, Ended

LEMMA ListActiveHolds ==
  ASSUME PositionsInv, NEW i \in Workers, ListActive(i)
  PROVE  Holds(i)'
<1>1. /\ pc'[i] = "prepare" /\ got'[i] = got[i] /\ got[i] = NoPositions /\ on[i] = None
      /\ state' = state
  BY DEF ListActive, PositionsInv, PositionInv, ChainInv, PlaceInv, TypeOK, Goto, Holds,
         Executing, Midway, Judging, stores
<1>2. listing'[i] = {r \in registered : Active(r)} /\ registered \subseteq Registrations
  BY DEF ListActive, PositionsInv, ChainInv, PlaceInv, TypeOK
<1>3. on'[i] = None \/ on'[i] \in Stored
  BY <1>1 DEF ListActive, PositionsInv, ChainInv, PlaceInv, TypeOK, Leaves
<1>4. Stored' = Stored
  BY <1>1 DEF Stored
<1>5. \A n \in Stored, r \in listing'[i] : ~EndedPosition(state[n].positions[r])
  BY <1>2, ActiveNotEnded DEF PositionsInv, ChainInv, PositionInv, StatesInv
<1>6. Listed(i)'
  BY <1>1, <1>3, <1>4, <1>5 DEF Listed
<1> QED BY <1>1, <1>6 DEF Holds, Executing, Midway, Judging

LEMMA RunBatchHolds ==
  ASSUME PositionsInv, NEW i \in Workers, RunBatch(i)
  PROVE  Holds(i)'
<1>1. PICK n \in Batches : /\ ActivePositions(Prior(batch[n])) \subseteq batch[n].regs
                           /\ on' = [on EXCEPT ![i] = n]
  BY DEF RunBatch
<1>2. /\ pc'[i] = "job" /\ on'[i] = n /\ UNCHANGED <<batch, state>>
      /\ got'[i] = NoPositions
  BY <1>1 DEF RunBatch, PositionsInv, PositionInv, ChainInv, PlaceInv, TypeOK, Goto, Holds,
         Executing, Midway, Judging, stores
<1>3. ActivePositions(Prior(batch[n]))' = ActivePositions(Prior(batch[n]))
  BY <1>2 DEF Prior, ActivePositions
<1>4. \A r \in Registrations : got'[i][r] = None
  BY <1>2 DEF NoPositions
<1>5. ActivePositions(Prior(batch[on[i]]))' = ActivePositions(Prior(batch[n]))
  BY <1>2 DEF Prior, ActivePositions
<1>6. Judged(i)'
  BY <1>1, <1>2, <1>4, <1>5 DEF Judged
<1> QED BY <1>2, <1>6 DEF Holds, Executing

\* The worker took the position of the job at hand.
LEMMA TookHolds ==
  ASSUME PositionsInv, NEW i \in Workers, pc[i] \in Executing, Pending(i) # {},
         Took(i, Current(i)), UNCHANGED <<ledger, batch, state>>, Settles(Current(i))
  PROVE  Holds(i)'
<1> DEFINE j == Current(i)
<1>1. PlaceInv /\ Judged(i)
  BY DEF PositionsInv, PositionInv, ChainInv, Holds
<1>2. j \in Job /\ j.of \in batch[on[i]].regs /\ j.of \in Registrations
  BY <1>1, CurrentIsJob DEF Pending
<1>3. j = JobOf(batch[on[i]], j.of)
  BY DEF Current, JobOf
<1>4. pc'[i] = "job" /\ on' = on
  BY <1>1 DEF Took, Goto, PlaceInv, TypeOK
<1>5. got'[i][j.of] = j /\ \A r \in Registrations \ {j.of} : got'[i][r] = got[i][r]
  BY <1>1, <1>2 DEF Took, PlaceInv, TypeOK
<1> HIDE DEF j
<1>6. \A r \in Registrations : got'[i][r] # None =>
        /\ r \in batch[on[i]].regs
        /\ got'[i][r] = JobOf(batch[on[i]], r)
        /\ Settles(got'[i][r])
  <2>1. Settles(j)
    BY DEF j
  <2> QED BY <1>1, <1>2, <1>3, <1>5, <2>1 DEF Judged
<1>7. Judged(i)'
  <2>1. ActivePositions(Prior(batch[on[i]]))' = ActivePositions(Prior(batch[on[i]]))
    BY <1>4 DEF ActivePositions, Prior
  <2>2. \A r \in Registrations : got'[i][r] # None => Settles(got[i][r])'
    BY <1>6 DEF Settles
  <2> QED BY <1>1, <1>4, <1>6, <2>1, <2>2 DEF Judged
<1> QED BY <1>4, <1>7 DEF Holds, Executing

LEMMA UseRecordHolds ==
  ASSUME PositionsInv, NEW i \in Workers, UseRecord(i)
  PROVE  Holds(i)'
<1> DEFINE j == Current(i)
<1>1. PlaceInv /\ RecordsComplete /\ pc[i] \in Executing /\ Pending(i) # {}
      /\ UNCHANGED <<ledger, batch, state>>
  BY DEF PositionsInv, EventsInv, EventInv, UseRecord, Executing, stores
<1>2. CASE Leave(i)
  BY <1>1, <1>2, GoneHolds
<1>3. CASE record[j] # None /\ Prefix(record[j].events, ledger[j.of]) /\ Took(i, j)
  <2>1. j \in Job
    BY <1>1, CurrentIsJob
  <2>2. Complete(record[j].events, j)
    BY <1>1, <1>3, <2>1 DEF RecordsComplete
  <2>3. Settles(j)
    BY <1>3, <2>1, <2>2, CompleteSettles
  <2> QED BY <1>1, <1>3, <2>3, TookHolds
<1> QED BY <1>2, <1>3 DEF UseRecord

LEMMA PutRecordHolds ==
  ASSUME PositionsInv, NEW i \in Workers, PutRecord(i)
  PROVE  Holds(i)'
<1> DEFINE j == Current(i)
<1>1. PlaceInv /\ Sees(i) /\ pc[i] = "record" /\ UNCHANGED <<ledger, batch, state>>
  BY DEF PositionsInv, EventsInv, EventInv, PutRecord
<1>2. pc[i] \in Executing /\ Pending(i) # {}
  BY <1>1 DEF PlaceInv, LocalInv, Knows, Executing, Midway, Judging
<1>3. j \in Job
  BY <1>1, <1>2, CurrentIsJob
<1>4. Prefix(draft[i].events, ledger[j.of]) /\ Complete(draft[i].events, j)
  BY <1>1 DEF Sees, Judging
<1>5. Settles(j)
  BY <1>3, <1>4, CompleteSettles
<1>6. Took(i, j) \/ Leave(i)
  BY DEF PutRecord
<1> QED BY <1>1, <1>2, <1>5, <1>6, TookHolds, GoneHolds

\* The steps of a job, and where they lead.
LEMMA GoesOnOrLeaves ==
  ASSUME NEW i \in Workers, ReplayOutcome(i) \/ Reconcile(i) \/ Append(i) \/ Summarise(i)
  PROVE  Leave(i) \/ (UNCHANGED <<listing, on, got>> /\ \E label \in Midway : Goto(i, label))
<1>1. CASE ReplayOutcome(i) \/ Summarise(i)
  BY <1>1 DEF ReplayOutcome, Summarise, Midway, Judging
<1>2. CASE Reconcile(i)
  <2>1. Leave(i) \/ (UNCHANGED <<listing, on, got>> /\ \E label \in {"summary", "append"} : Goto(i, label))
    BY <1>2 DEF Reconcile
  <2> QED BY <2>1 DEF Midway, Judging
<1>3. CASE Append(i)
  <2>1. Leave(i) \/ (UNCHANGED <<listing, on, got>> /\ \E label \in {"summary", "append"} : Goto(i, label))
    BY <1>3 DEF Append
  <2> QED BY <2>1 DEF Midway, Judging
<1> QED BY <1>1, <1>2, <1>3

\* A worker that goes on with its job keeps its batch and its positions.
LEMMA JobHolds ==
  ASSUME PositionsInv, Grows, NEW i \in Workers,
         ReplayOutcome(i) \/ Reconcile(i) \/ Append(i) \/ Summarise(i)
  PROVE  Holds(i)'
<1>1. PlaceInv /\ BatchesAdvance /\ Holds(i)
  BY DEF PositionsInv, PositionInv, ChainInv
<1>2. CASE Leave(i)
  BY <1>1, <1>2, GoneHolds
<1>3. CASE UNCHANGED <<listing, on, got>> /\ \E label \in Midway : Goto(i, label)
  <2>1. pc[i] \in Executing
    BY DEF ReplayOutcome, Reconcile, Append, Summarise, Executing, Midway, Judging
  <2>2. pc'[i] \in Executing
    BY <1>1, <1>3 DEF Goto, PlaceInv, TypeOK, Executing
  <2> QED BY <1>1, <1>3, <2>1, <2>2, StillHolds
<1> QED BY <1>2, <1>3, GoesOnOrLeaves

\* A step of a worker touches what is local to it, and nothing else local.
LEMMA OthersUntouched ==
  ASSUME PlaceInv, NEW i \in Workers, Step(i)
  PROVE  \A k \in Workers \ {i} : /\ pc'[k] = pc[k] /\ listing'[k] = listing[k]
                                  /\ on'[k] = on[k] /\ got'[k] = got[k]
<1> DEFINE Untouched == \A k \in Workers \ {i} : /\ pc'[k] = pc[k] /\ listing'[k] = listing[k]
                                                 /\ on'[k] = on[k] /\ got'[k] = got[k]
<1>1. CASE Leave(i)
  BY <1>1, WorkerGone DEF PlaceInv
<1>2. ASSUME NEW j, Took(i, j) PROVE Untouched
  BY <1>2 DEF Took, Goto, PlaceInv, TypeOK
<1>3. ASSUME NEW label, Goto(i, label), UNCHANGED <<listing, on, got>> PROVE Untouched
  BY <1>3 DEF Goto, PlaceInv, TypeOK
<1>4. CASE ListActive(i) \/ RunBatch(i)
  BY <1>4 DEF ListActive, RunBatch, Goto, PlaceInv, TypeOK
<1>5. CASE UseRecord(i) \/ PutRecord(i)
  <2>1. Took(i, Current(i)) \/ Leave(i)
    BY <1>5 DEF UseRecord, PutRecord
  <2> QED BY <1>1, <1>2, <2>1
<1>6. CASE ReplayOutcome(i) \/ Reconcile(i) \/ Append(i) \/ Summarise(i)
  <2>1. Leave(i) \/ (UNCHANGED <<listing, on, got>> /\ \E label \in Midway : Goto(i, label))
    BY <1>6, GoesOnOrLeaves
  <2> QED BY <1>1, <1>3, <2>1
<1> QED BY <1>1, <1>4, <1>5, <1>6, <1>3 DEF Step, PrepareBatch, PutState, Abort

LEMMA NextHolds ==
  ASSUME PositionsInv, Grows, [Next]_vars
  PROVE  \A i \in Workers : Holds(i)'
<1>1. PlaceInv /\ BatchesAdvance /\ \A i \in Workers : Holds(i)
  BY DEF PositionsInv, PositionInv, ChainInv
<1>2. CASE UNCHANGED locals
  BY <1>1, <1>2, StillHolds DEF locals
<1>3. ASSUME NEW i \in Workers, Step(i)
      PROVE  \A k \in Workers : Holds(k)'
  <2>1. Holds(i)'
    <3>1. CASE PrepareBatch(i) \/ PutState(i) \/ Abort(i)
      BY <1>1, <3>1, GoneHolds DEF PrepareBatch, PutState, Abort
    <3> QED BY <1>3, <3>1, ListActiveHolds, RunBatchHolds, UseRecordHolds, PutRecordHolds, JobHolds DEF Step
  <2>2. \A k \in Workers \ {i} : /\ pc'[k] = pc[k] /\ listing'[k] = listing[k]
                                 /\ on'[k] = on[k] /\ got'[k] = got[k]
    BY <1>1, <1>3, OthersUntouched
  <2> QED BY <1>1, <2>1, <2>2, StillHolds
<1> QED BY <1>2, <1>3 DEF Next, Register, vars

-----------------------------------------------------------------------------
(* The state a batch ends in.                                              *)

\* A status is an active one, or the trade ended.
LEMMA ActiveOrEnded ==
  ASSUME NEW j, Status(j) \notin ActiveStatus
  PROVE  Status(j) \in {"CLOSED", "EXPIRED"}
BY DEF Status, ActiveStatus

\* What the outcome of a batch says of a registration: what the batch judged
\* is of its job, what it did not judge is kept, and profits count once.
LEMMA OutcomeOf ==
  ASSUME NEW b \in Batch, NEW new \in [Registrations -> Job \cup {None}], NEW r \in Registrations,
         Prior(b) \in State,
         ActivePositions(Prior(b)) \subseteq b.regs,
         EndedPosition(Prior(b).positions[r]) => r \notin b.regs,
         r \in b.regs <=> new[r] # None,
         Prior(b).total[r] = IF Closed(Prior(b).positions, r) THEN 1 ELSE 0
  PROVE  LET p == Prior(b).positions[r]
             s == Outcome(b, new)
         IN  /\ s.positions[r] = IF new[r] # None THEN new[r] ELSE p
             /\ s.total[r] = IF Closed(s.positions, r) THEN 1 ELSE 0
             /\ r \in s.newly => Closed(s.positions, r)
             /\ p # None /\ Status(p) \in ActiveStatus => new[r] # None
             /\ p # None /\ Status(p) \notin ActiveStatus => s.positions[r] = p
<1> DEFINE prior == Prior(b)
           p == prior.positions[r]
           s == Outcome(b, new)
<1>1. prior.positions \in [Registrations -> Job \cup {None}] /\ prior.total \in [Registrations -> Nat]
  BY DEF State
<1>2. s.positions[r] = IF new[r] # None THEN new[r] ELSE p
  BY DEF Outcome
<1>3. r \in s.newly <=> Closed(s.positions, r) /\ ~Closed(prior.positions, r)
  BY DEF Outcome
<1>4. s.total[r] = prior.total[r] + (IF r \in s.newly THEN 1 ELSE 0)
  BY DEF Outcome
<1>5. p # None /\ Status(p) \in ActiveStatus => new[r] # None
  BY DEF ActivePositions
<1>6. p # None /\ Status(p) \notin ActiveStatus => s.positions[r] = p
  BY <1>2, ActiveOrEnded DEF EndedPosition
<1>7. Closed(prior.positions, r) => Closed(s.positions, r)
  BY <1>6 DEF Closed, ActiveStatus
<1>8. s.total[r] = IF Closed(s.positions, r) THEN 1 ELSE 0
  BY <1>3, <1>4, <1>7
<1> QED BY <1>2, <1>3, <1>5, <1>6, <1>8

\* What the states chain up to before a batch adds its own.
LEMMA PriorState ==
  ASSUME PositionsInv, NEW b \in Batch, Follows(b)
  PROVE  /\ Prior(b) \in State
         /\ \A r \in Registrations :
              /\ Prior(b).total[r] = IF Closed(Prior(b).positions, r) THEN 1 ELSE 0
              /\ Prior(b).positions[r] # None =>
                   Prior(b).positions[r].of = r /\ Settles(Prior(b).positions[r])
<1>1. CASE b.previous = None
  <2>1. Empty \in State
    BY DEF Empty, NoPositions, State
  <2> QED BY <1>1, <2>1 DEF Prior, Empty, NoPositions, Closed
<1>2. CASE b.previous # None
  <2>1. b.previous \in Stored
    BY <1>2 DEF Follows, Leaves
  <2>2. state[b.previous] \in State
    BY <2>1 DEF Stored, PositionsInv, ChainInv, PlaceInv, TypeOK
  <2> QED BY <1>2, <2>1, <2>2 DEF Prior, PositionsInv, PositionInv, StatesInv, CountsRight, PositionsSettle
<1> QED BY <1>1, <1>2

\* A worker that judged all of its batch adds a state: what is said of the
\* states holds of the new one too, which is the only leaf.
LEMMA PutStateStates ==
  ASSUME PositionsInv, Grows, NEW i \in Workers, PutState(i), state' # state
  PROVE  StatesInv'
<1> DEFINE n == on[i]
           b == batch[n]
           prior == Prior(b)
<1>1. /\ PlaceInv /\ OneChain /\ BatchesAdvance /\ StatesInv /\ Judged(i)
      /\ UNCHANGED <<batch, ledger>> /\ Pending(i) = {}
  BY DEF PositionsInv, PositionInv, ChainInv, Holds, PutState, Executing
<1>2. PICK new : new = got[i]
  OBVIOUS
<1>3. PICK s : s = Outcome(b, new)
  OBVIOUS
<1>4. /\ n \in Batches /\ b \in Batch /\ b # None /\ state[n] = None /\ Follows(b)
      /\ state'[n] = s /\ s \in State /\ s # None
      /\ \A c \in Batches \ {n} : state'[c] = state[c]
  BY <1>1, <1>2, <1>3, StatePut, DistinctAssumption
<1>5. new \in [Registrations -> Job \cup {None}]
  BY <1>1, <1>2 DEF PlaceInv, TypeOK
<1>6. Stored' = Stored \cup {n} /\ n \notin Stored
  BY <1>4 DEF Stored
<1>7. Leaves' = {n}
  <2>1. \A c \in Stored : batch[c].previous # n
    BY <1>1, <1>4, <1>6, NoneIsNothing DEF OneChain
  <2>2. b.previous # n
    BY <1>4, <1>6, NoneIsNothing DEF Follows, Leaves
  <2>3. \A l \in Stored : \E c \in Stored' : batch[c].previous = l
    <3>1. \A l \in Leaves : b.previous = l
      <4>1. CASE b.previous = None
        BY <1>4, <4>1 DEF Follows, Leaves
      <4>2. CASE b.previous # None
        BY <1>4, <4>2 DEF Follows
      <4> QED BY <4>1, <4>2
    <3>2. \A l \in Stored \ Leaves : \E c \in Stored : batch[c].previous = l
      BY DEF Leaves
    <3> QED BY <1>6, <3>1, <3>2
  <2> QED BY <1>1, <1>6, <2>1, <2>2, <2>3 DEF Leaves
<1>8. /\ prior \in State
      /\ \A r \in Registrations :
           /\ prior.total[r] = IF Closed(prior.positions, r) THEN 1 ELSE 0
           /\ prior.positions[r] # None =>
                prior.positions[r].of = r /\ Settles(prior.positions[r])
  BY <1>4, PriorState
<1>9. ActivePositions(prior) \subseteq b.regs
  BY <1>1 DEF Judged
<1>10. \A r \in b.regs : ~EndedPosition(prior.positions[r])
  <2>1. Advances(b)
    BY <1>1, <1>4 DEF BatchesAdvance
  <2> QED BY <2>1, <1>4 DEF Advances, Prior, Empty, NoPositions, EndedPosition, Batch
<1>11. \A r \in Registrations : /\ r \in b.regs <=> new[r] # None
                                /\ new[r] # None => /\ new[r] = JobOf(b, r)
                                                    /\ new[r].of = r /\ Settles(new[r])
  BY <1>1, <1>2 DEF Judged, Pending, JobOf
<1> HIDE DEF b, prior, n
<1>12. \A r \in Registrations :
         /\ s.positions[r] = IF new[r] # None THEN new[r] ELSE prior.positions[r]
         /\ s.total[r] = IF Closed(s.positions, r) THEN 1 ELSE 0
         /\ r \in s.newly => Closed(s.positions, r)
         /\ prior.positions[r] # None /\ Status(prior.positions[r]) \in ActiveStatus => new[r] # None
         /\ prior.positions[r] # None /\ Status(prior.positions[r]) \notin ActiveStatus =>
              s.positions[r] = prior.positions[r]
  BY <1>3, <1>4, <1>5, <1>8, <1>9, <1>10, <1>11, OutcomeOf DEF prior
<1>13. PositionsSettle'
  <2>1. \A c \in Stored', r \in Registrations : state'[c].positions[r] # None =>
          state'[c].positions[r].of = r /\ Settles(state'[c].positions[r])
    BY <1>1, <1>4, <1>6, <1>8, <1>11, <1>12 DEF StatesInv, PositionsSettle, Stored
  <2> QED BY <1>1, <2>1 DEF PositionsSettle, Settles
<1>14. CountsRight'
  BY <1>1, <1>4, <1>6, <1>12 DEF StatesInv, CountsRight, Closed, Stored
<1>15. PositionsKept'
  <2>1. \A c \in Stored' : Prior(batch[c])' = Prior(batch[c])
    <3> SUFFICES ASSUME NEW c \in Stored' PROVE Prior(batch[c])' = Prior(batch[c])
      OBVIOUS
    <3>1. Advances(batch[c])
      BY <1>1, <1>4, <1>6 DEF BatchesAdvance, PlaceInv, StatesPrepared, b, Stored
    <3>2. batch[c].previous # None => state'[batch[c].previous] = state[batch[c].previous]
      BY <3>1 DEF Advances, Stored, Grows
    <3> QED BY <1>1, <3>2 DEF Prior
  <2>2. ASSUME NEW c \in Stored', NEW r \in Registrations, Prior(batch[c]).positions[r] # None
        PROVE  IF Status(Prior(batch[c]).positions[r]) \in ActiveStatus
               THEN state'[c].positions[r] = JobOf(batch[c], r)
               ELSE state'[c].positions[r] = Prior(batch[c]).positions[r]
    <3>1. CASE c = n
      BY <1>4, <1>11, <1>12, <2>2, <3>1 DEF b, prior
    <3>2. CASE c # n
      BY <1>1, <1>4, <1>6, <2>2, <3>2 DEF StatesInv, PositionsKept, Stored
    <3> QED BY <3>1, <3>2
  <2> QED BY <1>1, <2>1, <2>2 DEF PositionsKept, JobOf
<1>16. CountedStayClosed'
  <2> SUFFICES ASSUME NEW c \in Stored', NEW r \in state'[c].newly PROVE Closed(s.positions, r)
    BY <1>4, <1>7 DEF CountedStayClosed
  <2>1. state'[c] \in State /\ r \in Registrations
    BY <1>1, <1>4, <1>6 DEF Stored, PlaceInv, TypeOK, State
  <2>2. CASE c = n
    BY <1>4, <1>12, <2>1, <2>2
  <2>3. CASE c # n
    <3>1. c \in Stored /\ r \in state[c].newly
      BY <1>4, <1>6, <2>3 DEF Stored
    <3>2. b.previous # None /\ Leaves = {b.previous}
      BY <1>4, <3>1 DEF Follows
    <3>3. Closed(prior.positions, r)
      BY <1>1, <3>1, <3>2 DEF StatesInv, CountedStayClosed, prior, Prior
    <3> QED BY <1>12, <2>1, <3>3 DEF Closed, ActiveStatus
  <2> QED BY <2>2, <2>3
<1> QED BY <1>13, <1>14, <1>15, <1>16 DEF StatesInv

LEMMA StatePutByWorker ==
  ASSUME [Next]_vars, state' # state
  PROVE  \E i \in Workers : PutState(i)
BY DEF Next, Step, vars, stores, Register, ListActive, PrepareBatch, RunBatch, UseRecord,
       ReplayOutcome, Reconcile, Append, Summarise, PutRecord, Abort

LEMMA NextPositions == PositionsInv /\ [Next]_vars => PositionsInv'
<1> SUFFICES ASSUME PositionsInv, [Next]_vars PROVE PositionsInv'
  OBVIOUS
<1>1. ChainInv' /\ EventsInv'
  BY NextChain, NextEvents DEF PositionsInv
<1>2. Grows
  BY StoresGrow DEF PositionsInv, ChainInv
<1>3. BatchesAdvance'
  BY <1>2, BatchesStayAdvancing
<1>4. StatesInv'
  <2>1. CASE state' = state
    BY <1>2, <2>1, StatesStay DEF PositionsInv, PositionInv
  <2>2. CASE state' # state
    <3>1. PICK i \in Workers : PutState(i)
      BY <2>2, StatePutByWorker
    <3> QED BY <1>2, <2>2, <3>1, PutStateStates
  <2> QED BY <2>1, <2>2
<1>5. \A i \in Workers : Holds(i)'
  BY <1>2, NextHolds
<1> QED BY <1>1, <1>3, <1>4, <1>5 DEF PositionsInv, PositionInv

LEMMA InitPositions == Init => PositionsInv
<1> SUFFICES ASSUME Init PROVE PositionsInv
  OBVIOUS
<1>1. ChainInv /\ EventsInv
  BY InitPlaces, InitEvents DEF ChainInv, OneChain, Init, Stored
<1>2. Stored = {} /\ BatchesAdvance
  BY DEF Init, Stored, BatchesAdvance
<1>3. StatesInv
  BY <1>2 DEF StatesInv, PositionsSettle, CountsRight, PositionsKept, CountedStayClosed
<1>4. \A i \in Workers : Holds(i)
  BY DEF Init, Holds, Executing, Midway, Judging
<1> QED BY <1>1, <1>2, <1>3, <1>4 DEF PositionsInv, PositionInv

\* A trade's profit is in the cumulative P&L of a state once if its position
\* there is closed, and not at all otherwise; and the position is of the very
\* replay whose exit the ledger holds.
THEOREM ProfitsCountedOnce == Spec => []CountedOnce
<1>1. PositionsInv => CountedOnce
  BY DEF PositionsInv, PositionInv, StatesInv, CountsRight, PositionsSettle, CountedOnce, Closed, Settles
<1> QED BY <1>1, InitPositions, NextPositions, PTL DEF Spec

\* No batch loses a position of the state it follows, leaves an active one
\* unjudged or touches an ended one.
THEOREM PositionsStay == Spec => []PositionsKept
<1>1. PositionsInv => PositionsKept
  BY DEF PositionsInv, PositionInv, StatesInv
<1> QED BY <1>1, InitPositions, NextPositions, PTL DEF Spec

-----------------------------------------------------------------------------
(* The life of a position.                                                 *)

\* What the refinement makes of the ledger and of the states.
PhaseOf(c) ==
  IF c.expiry # None THEN "EXPIRED"
  ELSE IF c.exit # None THEN "CLOSED"
  ELSE IF c.entry # None THEN "OPEN" ELSE "ALERTED"

Phase == [r \in Registrations |-> PhaseOf(ledger[r])]
Counted == [r \in Registrations |-> {b \in Stored : r \in state[b].newly}]

\* The refinement, of a step that moves one trade.
LEMMA MoveRefines ==
  ASSUME NEW r \in Registrations, Counted' = Counted,
         Phase' = [Phase EXCEPT ![r] = PhaseOf(ledger'[r])],
         <<PhaseOf(ledger[r]), PhaseOf(ledger'[r])>> \in
           {<<"ALERTED", "OPEN">>, <<"OPEN", "CLOSED">>, <<"ALERTED", "EXPIRED">>}
  PROVE  Position!PositionNext
<1>1. Phase[r] = PhaseOf(ledger[r])
  BY DEF Phase
<1>2. Position!Enter(r) \/ Position!Exit(r) \/ Position!Expire(r)
  BY <1>1 DEF Position!Enter, Position!Exit, Position!Expire, Position!Move, Phase, Counted, PhaseOf
<1> QED BY <1>2 DEF Position!PositionNext

LEMMA AppendRefines ==
  ASSUME EventsInv, NEW i \in Workers, Append(i), ledger' # ledger
  PROVE  Position!PositionNext
<1> DEFINE j == Current(i)
           c == ledger[j.of]
<1>1. j \in Job /\ j.of \in Registrations /\ ledger \in [Registrations -> Chain] /\ state' = state
  BY AppendWrites DEF Job, EventsInv, PlaceInv, TypeOK, Append
<1>2. PICK e \in EventType : /\ MayAppend(c, e, j)
                             /\ ledger' = [ledger EXCEPT ![j.of] = [c EXCEPT ![e] = j]]
  BY AppendWrites DEF EventsInv, Missing
<1>3. ledger'[j.of] = [c EXCEPT ![e] = j] /\ \A r \in Registrations \ {j.of} : ledger'[r] = ledger[r]
  BY <1>1, <1>2
<1>4. ledger'[j.of][e] = j /\ \A x \in EventType \ {e} : ledger'[j.of][x] = c[x]
  BY <1>1, <1>3, EventAdded
<1>5. j # None
  BY <1>1, NoneIsNothing
<1>6. <<PhaseOf(c), PhaseOf(ledger'[j.of])>> \in
        {<<"ALERTED", "OPEN">>, <<"OPEN", "CLOSED">>, <<"ALERTED", "EXPIRED">>}
  BY <1>2, <1>4, <1>5 DEF MayAppend, Ended, PhaseOf, EventType
<1>7. Phase' = [Phase EXCEPT ![j.of] = PhaseOf(ledger'[j.of])]
  BY <1>1, <1>3 DEF Phase, PhaseOf
<1>8. Counted' = Counted
  BY <1>1 DEF Counted, Stored
<1> QED BY <1>1, <1>6, <1>7, <1>8, MoveRefines

\* What a new state counts no other state counted, and the ledger holds its
\* exit.
LEMMA CountRefines ==
  ASSUME PositionsInv, PositionsInv', NEW i \in Workers, PutState(i), state' # state
  PROVE  Position!PositionNext
<1> DEFINE n == on[i]
           b == batch[n]
<1>1. PICK s : s = Outcome(b, got[i])
  OBVIOUS
<1>2. /\ PlaceInv /\ n \in Batches /\ state[n] = None /\ Follows(b)
      /\ state'[n] = s /\ s \in State /\ s # None
      /\ \A c \in Batches \ {n} : state'[c] = state[c]
      /\ ledger' = ledger
  BY <1>1, StatePut, DistinctAssumption DEF PositionsInv, ChainInv, PutState
<1>3. Stored' = Stored \cup {n} /\ n \notin Stored
  BY <1>2 DEF Stored
<1>4. \A r \in s.newly : r \in Registrations /\ Closed(s.positions, r) /\ ~Closed(Prior(b).positions, r)
  BY <1>1 DEF Outcome
<1>5. \A r \in s.newly, c \in Stored : r \notin state[c].newly
  <2> SUFFICES ASSUME NEW c \in Stored, NEW r \in state[c].newly PROVE Closed(Prior(b).positions, r)
    BY <1>4
  <2>1. b.previous # None /\ b.previous \in Leaves
    BY <1>2 DEF Follows
  <2> QED BY <2>1 DEF PositionsInv, PositionInv, StatesInv, CountedStayClosed, Prior
<1>6. \A r \in s.newly : ledger[r].exit # None /\ ledger[r].expiry = None
  <2> SUFFICES ASSUME NEW r \in s.newly PROVE ledger[r].exit # None /\ ledger[r].expiry = None
    OBVIOUS
  <2>1. r \in Registrations /\ s.positions[r] # None /\ Status(s.positions[r]) = "CLOSED"
    BY <1>4 DEF Closed
  <2>2. s.positions[r].of = r /\ Settles(s.positions[r])'
    BY <1>2, <1>3, <2>1 DEF PositionsInv, PositionInv, StatesInv, PositionsSettle
  <2>3. ledger[r].exit = s.positions[r]
    BY <1>2, <2>1, <2>2 DEF Settles
  <2>4. Legal(ledger[r])
    BY <2>1 DEF PositionsInv, EventsInv, EventInv, ChainsLegal
  <2> QED BY <2>1, <2>3, <2>4 DEF Legal
<1>7. \A r \in s.newly : Phase[r] = "CLOSED" /\ Counted[r] = {}
  BY <1>4, <1>5, <1>6 DEF Phase, PhaseOf, Counted
<1>8. Counted' = [r \in Registrations |-> IF r \in s.newly THEN {n} ELSE Counted[r]]
  <2> SUFFICES ASSUME NEW r \in Registrations
               PROVE  {c \in Stored' : r \in state'[c].newly} = IF r \in s.newly THEN {n} ELSE Counted[r]
    BY DEF Counted
  <2>1. \A c \in Stored' : r \in state'[c].newly <=> IF c = n THEN r \in s.newly ELSE r \in state[c].newly
    BY <1>2, <1>3 DEF Stored
  <2>2. CASE r \in s.newly
    BY <1>3, <1>5, <2>1, <2>2
  <2>3. CASE r \notin s.newly
    BY <1>3, <2>1, <2>3 DEF Counted
  <2> QED BY <2>2, <2>3
<1>9. Phase' = Phase
  BY <1>2 DEF Phase, PhaseOf
<1>10. s.newly \in SUBSET Registrations
  BY <1>4
<1>11. PICK m \in Batches, closed \in SUBSET Registrations : m = n /\ closed = s.newly
  BY <1>2, <1>10
<1>12. Position!Count(m, closed)
  BY <1>7, <1>8, <1>9, <1>11 DEF Position!Count, Phase, PhaseOf, Counted
<1> QED BY <1>12 DEF Position!PositionNext

\* Whatever batches and jobs run side by side and wherever they die, every
\* paper trade leads the life of a paper position: entered once, ended once,
\* its profit counted once and after its exit.
THEOREM PortfolioImplementsPosition == Spec => ImplementsPosition
<1>1. Init => Position!PositionInit
  <2> SUFFICES ASSUME Init PROVE Position!PositionInit
    OBVIOUS
  <2>1. Phase = [r \in Registrations |-> "ALERTED"]
    BY DEF Init, Phase, PhaseOf, NoEvents, EventType
  <2>2. Counted = [r \in Registrations |-> {}]
    BY DEF Init, Counted, Stored
  <2> QED BY <2>1, <2>2 DEF Position!PositionInit, Phase, PhaseOf, Counted
<1>2. PositionsInv /\ PositionsInv' /\ [Next]_vars => [Position!PositionNext]_(Position!positionVars)
  <2> SUFFICES ASSUME PositionsInv, PositionsInv', [Next]_vars
               PROVE  Position!PositionNext \/ UNCHANGED Position!positionVars
    OBVIOUS
  <2>1. CASE ledger' = ledger /\ state' = state
    <3>1. Phase' = Phase /\ Counted' = Counted
      BY <2>1 DEF Phase, PhaseOf, Counted, Stored
    <3> QED BY <3>1 DEF Position!positionVars, Phase, PhaseOf, Counted
  <2>2. CASE ledger' # ledger
    <3>1. PICK i \in Workers : Append(i)
      BY <2>2 DEF Next, Step, vars, stores, Register, ListActive, PrepareBatch, RunBatch, UseRecord,
                  ReplayOutcome, Reconcile, Summarise, PutRecord, PutState, Abort
    <3> QED BY <2>2, <3>1, AppendRefines DEF PositionsInv
  <2>3. CASE state' # state
    BY <2>3, StatePutByWorker, CountRefines
  <2> QED BY <2>1, <2>2, <2>3
<1> QED BY <1>1, <1>2, InitPositions, NextPositions, PTL DEF Spec, ImplementsPosition, Position!PositionSpec
=============================================================================
