---------------------- MODULE QualityPilotWindowProofs ----------------------
(***************************************************************************)
(* The invocation protocol keeps its types, asks the provider at most once *)
(* per action, never forks the campaign, and implements the campaign       *)
(* ledger, for every campaign, every number of executions and every        *)
(* schedule.                                                               *)
(***************************************************************************)
EXTENDS QualityPilotWindow, TLAPS

\* The steps of an execution that owns the claim of its binding, and those
\* of one that works on a published binding.
Holding == {"claimed", "requesting"} \cup Publishing
Bound == {"head", "claim"} \cup Holding

\* Every published binding but the first continues the sealed outcome of a
\* published one.
Lineage ==
  \A b \in bindings :
    \/ b = Genesis
    \/ \E p \in bindings : p.action + 1 = b.action /\ b.after # None /\ transition[p] = b.after

ClaimsArePublished == \A b \in Binding : claim[b] # NoClaim => b \in bindings

OutcomesAreClaimed ==
  \A b \in Binding : transition[b] # None => claim[b] # NoClaim /\ requests[b.action] = 1

RequestsAreClaimed ==
  \A a \in Actions :
    \/ requests[a] = 0
    \/ requests[a] = 1 /\ \E b \in bindings : b.action = a /\ claim[b] # NoClaim

StoreInv == Lineage /\ OneLineage /\ ClaimsArePublished /\ OutcomesAreClaimed /\ RequestsAreClaimed

\* What the program counter of an execution says of the store.
Knows(i) ==
  /\ pc[i] \in Bound \cup {"entry"} => job[i] \in Job
  /\ pc[i] \in Bound => cur[i] \in bindings
  /\ pc[i] \in Bound \ {"head"} => processed[i] < job[i].maximum
  /\ pc[i] \in Holding => claim[cur[i]] # NoClaim /\ claim[cur[i]].by = i
  /\ pc[i] = "claimed" => requests[cur[i].action] = 0
  /\ pc[i] \in Holding \ {"claimed"} => requests[cur[i].action] = 1
  /\ pc[i] \in {"successor", "nextEntry", "seal"} => transition[cur[i]] = i
  /\ pc[i] \in {"nextEntry", "seal"} => Successor(cur[i], i) \in bindings \cup {None}

LocalInv == \A i \in Invocations : Knows(i)

IInv == TypeOK /\ StoreInv /\ LocalInv

-----------------------------------------------------------------------------
(* Lemmas.                                                                 *)

\* None is told apart from everything else it is compared with.
LEMMA NothingIsNone == None \notin Invocations /\ None \notin Binding
BY NoneAssumption

\* The successor of a binding is the next binding of the campaign, or none.
LEMMA SuccessorType ==
  ASSUME NEW b \in Binding, NEW i \in Invocations
  PROVE  /\ Successor(b, i) \in Binding \cup {None}
         /\ Successor(b, i) # None =>
              /\ Successor(b, i) = [action |-> b.action + 1, after |-> i]
              /\ Successor(b, i) \in Binding
         /\ b.action < NumActions <=> Successor(b, i) # None
<1>1. b.action \in 1 .. NumActions /\ NumActions \in Nat \ {0}
  BY CampaignAssumption DEF Binding, Actions
<1>2. CASE b.action = NumActions
  BY <1>1, <1>2 DEF Successor
<1>3. CASE b.action # NumActions
  <2>1. b.action + 1 \in Actions /\ b.action < NumActions
    BY <1>1, <1>3 DEF Actions
  <2>2. Successor(b, i) = [action |-> b.action + 1, after |-> i]
    BY <1>3 DEF Successor
  <2>3. Successor(b, i) \in Binding
    BY <2>1, <2>2 DEF Binding
  <2> QED BY <2>1, <2>2, <2>3, NothingIsNone
<1> QED BY <1>2, <1>3

\* Bindings with the same fields are the same binding.
LEMMA BindingEquality ==
  ASSUME NEW b \in Binding, NEW c \in Binding, b.action = c.action, b.after = c.after
  PROVE  b = c
BY DEF Binding

\* The first binding of the campaign is a binding.
LEMMA GenesisType == Genesis \in Binding
BY CampaignAssumption DEF Genesis, Binding, Actions

-----------------------------------------------------------------------------
(* Types.                                                                  *)

\* The store and the executions start well-typed.
LEMMA InitTypes == Init => TypeOK
<1> SUFFICES ASSUME Init PROVE TypeOK
  OBVIOUS
<1> USE DEF Init, InitFrom
<1>1. now \in 0 .. MaxTime /\ 0 \in 0 .. Ceiling
  BY ScheduleAssumption
<1>2. bindings \subseteq Binding /\ artifacts \subseteq Artifact
  OBVIOUS
<1>3. entry \in [Windows -> Binding \cup {None}]
  OBVIOUS
<1>4. claim \in [Binding -> Claim \cup {NoClaim}]
  OBVIOUS
<1>5. transition \in [Binding -> Invocations \cup {None}]
  OBVIOUS
<1>6. receipt \in [Binding -> Receipt \cup {NoReceipt}]
  OBVIOUS
<1>7. requests \in [Actions -> Nat]
  OBVIOUS
<1>8. pc \in [Invocations -> {"idle"} \cup Running \cup Ended]
  OBVIOUS
<1>9. job \in [Invocations -> Job \cup {None}] /\ cur \in [Invocations -> Binding \cup {None}]
  OBVIOUS
<1>10. /\ processed \in [Invocations -> 0 .. Ceiling]
       /\ claimedAt \in [Invocations -> 0 .. MaxTime]
  BY <1>1, ScheduleAssumption
<1> QED BY <1>1, <1>2, <1>3, <1>4, <1>5, <1>6, <1>7, <1>8, <1>9, <1>10 DEF TypeOK

\* A jump keeps the program counters well-typed.
LEMMA GotoTypes ==
  ASSUME TypeOK, NEW i \in Invocations, NEW label \in Running \cup Ended, Goto(i, label)
  PROVE  pc' \in [Invocations -> {"idle"} \cup Running \cup Ended]
BY DEF TypeOK, Goto

\* So does a write, whatever becomes of it.
LEMMA WrittenTypes ==
  ASSUME TypeOK, NEW i \in Invocations, NEW label \in Running \cup Ended, NEW ok \in BOOLEAN,
         Written(i, label) \/ WrittenIf(i, ok, label)
  PROVE  pc' \in [Invocations -> {"idle"} \cup Running \cup Ended]
<1>1. PICK next \in {label, "failed"} : Goto(i, next)
  BY DEF Written, WrittenIf
<1>2. next \in Running \cup Ended
  BY DEF Ended
<1> QED BY <1>1, <1>2, GotoTypes

\* No step leaves the types: a step of an execution works on a published
\* binding and stays under the maximum of its command line.
LEMMA TypesStep == TypeOK /\ LocalInv /\ [Next]_vars => TypeOK'
<1> SUFFICES ASSUME TypeOK, LocalInv, [Next]_vars PROVE TypeOK'
  OBVIOUS
<1> USE DEF TypeOK, store, locals
<1>1. ASSUME NEW i \in Invocations, pc[i] \in Bound
      PROVE  cur[i] \in Binding /\ cur[i].action \in Actions /\ job[i] \in Job
  BY <1>1 DEF LocalInv, Knows, Binding
<1>2. CASE Tick
  BY <1>2, ScheduleAssumption DEF Tick
<1>3. CASE UNCHANGED vars
  BY <1>3 DEF vars
<1>4. ASSUME NEW i \in Invocations, PrepareGenesis(i) PROVE TypeOK'
  BY <1>4, GotoTypes DEF PrepareGenesis, Running
<1>5. ASSUME NEW i \in Invocations, RunWindow(i) PROVE TypeOK'
  <2>1. job' \in [Invocations -> Job \cup {None}]
    BY <1>5 DEF RunWindow
  <2> QED BY <1>5, <2>1, GotoTypes DEF RunWindow, Running
<1>6. ASSUME NEW i \in Invocations, Abort(i) PROVE TypeOK'
  BY <1>6, GotoTypes DEF Abort, Ended
<1>7. ASSUME NEW i \in Invocations, PublishGenesisBinding(i) PROVE TypeOK'
  BY <1>7, WrittenTypes, GenesisType DEF PublishGenesisBinding, Running
<1>8. ASSUME NEW i \in Invocations, PublishGenesisEntry(i) PROVE TypeOK'
  <2>1. entry' \in [Windows -> Binding \cup {None}]
    BY <1>8, GenesisType, CampaignAssumption DEF PublishGenesisEntry, CreateOrVerify, Windows
  <2> QED BY <1>8, <2>1, WrittenTypes DEF PublishGenesisEntry, Ended
<1>9. ASSUME NEW i \in Invocations, LoadEntry(i) PROVE TypeOK'
  <2>1. cur' \in [Invocations -> Binding \cup {None}]
    BY <1>9 DEF LoadEntry
  <2>2. pc' \in [Invocations -> {"idle"} \cup Running \cup Ended]
    BY <1>9, GotoTypes DEF LoadEntry, Running, Ended
  <2> QED BY <1>9, <2>1, <2>2 DEF LoadEntry
<1>10. ASSUME NEW i \in Invocations, Replay(i) PROVE TypeOK'
  <2>1. /\ cur[i] \in Binding /\ job[i].maximum \in 1 .. Ceiling
        /\ processed[i] < job[i].maximum
    BY <1>1, <1>10 DEF Replay, AtHead, Bound, Job
  <2>2. processed' \in [Invocations -> 0 .. Ceiling]
    BY <1>10, <2>1, ScheduleAssumption DEF Replay
  <2>3. receipt[cur[i]] \in Receipt
    BY <1>10, <2>1 DEF Replay
  <2>4. cur' \in [Invocations -> Binding \cup {None}]
    BY <1>10, <2>3 DEF Replay, Receipt
  <2>5. pc' \in [Invocations -> {"idle"} \cup Running \cup Ended]
    BY <1>10, GotoTypes DEF Replay, Running, Ended
  <2> QED BY <1>10, <2>2, <2>4, <2>5 DEF Replay
<1>11. ASSUME NEW i \in Invocations, Reject(i) \/ StopPartial(i) \/ ClaimConflict(i) \/ GateCloses(i)
       PROVE  TypeOK'
  BY <1>11, GotoTypes DEF Reject, StopPartial, ClaimConflict, GateCloses, Ended
<1>12. ASSUME NEW i \in Invocations, Fresh(i) PROVE TypeOK'
  BY <1>12, GotoTypes DEF Fresh, Running
<1>13. ASSUME NEW i \in Invocations, PublishClaim(i) PROVE TypeOK'
  <2>1. cur[i] \in Binding /\ job[i].digest \in Digests
    BY <1>1, <1>13 DEF PublishClaim, Bound, Job
  <2>2. claim' \in [Binding -> Claim \cup {NoClaim}]
    BY <1>13, <2>1 DEF PublishClaim, Claim
  <2> QED BY <1>13, <2>2, WrittenTypes DEF PublishClaim, Running
<1>14. ASSUME NEW i \in Invocations, StartRequest(i) PROVE TypeOK'
  <2>1. requests' \in [Actions -> Nat]
    BY <1>1, <1>14 DEF StartRequest, Bound, Holding
  <2> QED BY <1>14, <2>1, GotoTypes DEF StartRequest, Running
<1>15. ASSUME NEW i \in Invocations, EndRequest(i) PROVE TypeOK'
  <2>1. Inside(now, job[i].window) \in BOOLEAN
    BY DEF Inside
  <2>2. pc' \in [Invocations -> {"idle"} \cup Running \cup Ended]
    BY <1>15, <2>1, WrittenTypes DEF EndRequest, Running, Publishing
  <2> QED BY <1>15, <2>2 DEF EndRequest
<1>16. ASSUME NEW i \in Invocations,
              PublishObservation(i) \/ PublishPlan(i) \/ PublishSnapshot(i)
       PROVE  TypeOK'
  <2>1. cur[i] \in Binding
    BY <1>1, <1>16
       DEF PublishObservation, PublishPlan, PublishSnapshot, Bound, Holding, Publishing
  <2>2. artifacts' \subseteq Artifact
    BY <1>16, <2>1 DEF PublishObservation, PublishPlan, PublishSnapshot, Publish, Artifact
  <2>3. pc' \in [Invocations -> {"idle"} \cup Running \cup Ended]
    BY <1>16, WrittenTypes
       DEF PublishObservation, PublishPlan, PublishSnapshot, Running, Publishing
  <2> QED BY <1>16, <2>2, <2>3 DEF PublishObservation, PublishPlan, PublishSnapshot, Publish
<1>17. ASSUME NEW i \in Invocations, SealTransition(i) PROVE TypeOK'
  <2>1. transition' \in [Binding -> Invocations \cup {None}]
    BY <1>17 DEF SealTransition, CreateOrVerify
  <2> QED BY <1>17, <2>1, WrittenTypes DEF SealTransition, Running, Publishing
<1>18. ASSUME NEW i \in Invocations, PublishSuccessor(i) PROVE TypeOK'
  <2>1. cur[i] \in Binding
    BY <1>1, <1>18 DEF PublishSuccessor, Bound, Holding, Publishing
  <2>2. bindings' \subseteq Binding
    BY <1>18, <2>1, SuccessorType DEF PublishSuccessor
  <2>3. pc' \in [Invocations -> {"idle"} \cup Running \cup Ended]
    BY <1>18, GotoTypes, WrittenTypes DEF PublishSuccessor, Running, Publishing
  <2> QED BY <1>18, <2>2, <2>3 DEF PublishSuccessor
<1>19. ASSUME NEW i \in Invocations, PublishNextEntry(i) PROVE TypeOK'
  <2>1. cur[i] \in Binding
    BY <1>1, <1>19 DEF PublishNextEntry, Bound, Holding, Publishing
  <2>2. entry' \in [Windows -> Binding \cup {None}]
    BY <1>19, <2>1, SuccessorType DEF PublishNextEntry, CreateOrVerify
  <2>3. pc' \in [Invocations -> {"idle"} \cup Running \cup Ended]
    BY <1>19, WrittenTypes DEF PublishNextEntry, Running, Publishing
  <2> QED BY <1>19, <2>2, <2>3 DEF PublishNextEntry
<1>20. ASSUME NEW i \in Invocations, Seal(i) PROVE TypeOK'
  <2>1. cur[i] \in Binding /\ job[i].maximum \in 1 .. Ceiling
    BY <1>1, <1>20 DEF Seal, Bound, Holding, Publishing, Job
  <2>2. processed[i] < job[i].maximum
    BY <1>20 DEF Seal, LocalInv, Knows, Bound, Holding, Publishing
  <2>3. processed' \in [Invocations -> 0 .. Ceiling]
    BY <1>20, <2>1, <2>2, ScheduleAssumption DEF Seal
  <2>4. /\ Successor(cur[i], i) \in Binding \cup {None}
        /\ Crosses(cur[i]) \in BOOLEAN
    BY <2>1, SuccessorType DEF Crosses
  <2>5. receipt' \in [Binding -> Receipt \cup {NoReceipt}]
    BY <1>20, <2>4 DEF Seal, CreateOrVerify, Receipt
  <2>6. cur' \in [Invocations -> Binding \cup {None}]
    BY <1>20, <2>4 DEF Seal
  <2>7. pc' \in [Invocations -> {"idle"} \cup Running \cup Ended]
    BY <1>20, WrittenTypes DEF Seal, Running, Ended
  <2> QED BY <1>20, <2>3, <2>5, <2>6, <2>7 DEF Seal
<1> QED
  BY <1>2, <1>3, <1>4, <1>5, <1>6, <1>7, <1>8, <1>9, <1>10, <1>11, <1>12, <1>13,
     <1>14, <1>15, <1>16, <1>17, <1>18, <1>19, <1>20 DEF Next, Work

-----------------------------------------------------------------------------
(* What a step of one execution leaves alone.                              *)

StepOf(i) == PrepareGenesis(i) \/ RunWindow(i) \/ Work(i) \/ Abort(i)

\* The objects of the store are create-once, and a provider request is made
\* only by the claimant of the binding it works on.
LEMMA StoreGrows ==
  ASSUME TypeOK, NEW i \in Invocations, StepOf(i)
  PROVE  /\ bindings \subseteq bindings'
         /\ \A b \in Binding : claim[b] # NoClaim => claim'[b] = claim[b]
         /\ \A b \in Binding : transition[b] # None => transition'[b] = transition[b]
         /\ \/ requests' = requests
            \/ /\ pc[i] = "claimed"
               /\ requests' = [requests EXCEPT ![cur[i].action] = @ + 1]
<1> USE DEF store
<1>1. bindings \subseteq bindings'
  BY DEF StepOf, PrepareGenesis, RunWindow, Work, Abort, PublishGenesisBinding,
         PublishGenesisEntry, LoadEntry, Replay, Reject, Fresh, StopPartial, PublishClaim,
         ClaimConflict, GateCloses, StartRequest, EndRequest, PublishObservation, PublishPlan,
         PublishSnapshot, Publish, SealTransition, PublishSuccessor, PublishNextEntry, Seal
<1>2. ASSUME NEW b \in Binding, claim[b] # NoClaim PROVE claim'[b] = claim[b]
  <2>1. CASE PublishClaim(i)
    BY <1>2, <2>1 DEF PublishClaim, TypeOK
  <2>2. CASE ~PublishClaim(i)
    BY <2>2
       DEF StepOf, PrepareGenesis, RunWindow, Work, Abort, PublishGenesisBinding,
           PublishGenesisEntry, LoadEntry, Replay, Reject, Fresh, StopPartial,
           ClaimConflict, GateCloses, StartRequest, EndRequest, PublishObservation, PublishPlan,
           PublishSnapshot, Publish, SealTransition, PublishSuccessor, PublishNextEntry, Seal
  <2> QED BY <2>1, <2>2
<1>3. ASSUME NEW b \in Binding, transition[b] # None PROVE transition'[b] = transition[b]
  <2>1. CASE SealTransition(i)
    BY <1>3, <2>1 DEF SealTransition, CreateOrVerify, TypeOK
  <2>2. CASE ~SealTransition(i)
    BY <2>2
       DEF StepOf, PrepareGenesis, RunWindow, Work, Abort, PublishGenesisBinding,
           PublishGenesisEntry, LoadEntry, Replay, Reject, Fresh, StopPartial, PublishClaim,
           ClaimConflict, GateCloses, StartRequest, EndRequest, PublishObservation, PublishPlan,
           PublishSnapshot, Publish, PublishSuccessor, PublishNextEntry, Seal
  <2> QED BY <2>1, <2>2
<1>4. \/ requests' = requests
      \/ pc[i] = "claimed" /\ requests' = [requests EXCEPT ![cur[i].action] = @ + 1]
  BY DEF StepOf, PrepareGenesis, RunWindow, Work, Abort, PublishGenesisBinding,
         PublishGenesisEntry, LoadEntry, Replay, Reject, Fresh, StopPartial, PublishClaim,
         ClaimConflict, GateCloses, StartRequest, EndRequest, PublishObservation, PublishPlan,
         PublishSnapshot, Publish, SealTransition, PublishSuccessor, PublishNextEntry, Seal
<1> QED BY <1>1, <1>2, <1>3, <1>4

\* The other executions stand still.
LEMMA OthersStand ==
  ASSUME TypeOK, NEW i \in Invocations, StepOf(i), NEW j \in Invocations, j # i
  PROVE  pc'[j] = pc[j] /\ job'[j] = job[j] /\ cur'[j] = cur[j] /\ processed'[j] = processed[j]
<1> USE DEF TypeOK, Goto
<1>1. pc'[j] = pc[j]
  BY DEF StepOf, PrepareGenesis, RunWindow, Work, Abort, PublishGenesisBinding,
         PublishGenesisEntry, LoadEntry, Replay, Reject, Fresh, StopPartial, PublishClaim,
         ClaimConflict, GateCloses, StartRequest, EndRequest, PublishObservation, PublishPlan,
         PublishSnapshot, SealTransition, PublishSuccessor, PublishNextEntry, Seal,
         Written, WrittenIf
<1>2. job'[j] = job[j]
  BY DEF StepOf, PrepareGenesis, RunWindow, Work, Abort, PublishGenesisBinding,
         PublishGenesisEntry, LoadEntry, Replay, Reject, Fresh, StopPartial, PublishClaim,
         ClaimConflict, GateCloses, StartRequest, EndRequest, PublishObservation, PublishPlan,
         PublishSnapshot, Publish, SealTransition, PublishSuccessor, PublishNextEntry, Seal
<1>3. cur'[j] = cur[j]
  BY DEF StepOf, PrepareGenesis, RunWindow, Work, Abort, PublishGenesisBinding,
         PublishGenesisEntry, LoadEntry, Replay, Reject, Fresh, StopPartial, PublishClaim,
         ClaimConflict, GateCloses, StartRequest, EndRequest, PublishObservation, PublishPlan,
         PublishSnapshot, Publish, SealTransition, PublishSuccessor, PublishNextEntry, Seal
<1>4. processed'[j] = processed[j]
  BY DEF StepOf, PrepareGenesis, RunWindow, Work, Abort, PublishGenesisBinding,
         PublishGenesisEntry, LoadEntry, Replay, Reject, Fresh, StopPartial, PublishClaim,
         ClaimConflict, GateCloses, StartRequest, EndRequest, PublishObservation, PublishPlan,
         PublishSnapshot, Publish, SealTransition, PublishSuccessor, PublishNextEntry, Seal
<1> QED BY <1>1, <1>2, <1>3, <1>4

\* What an execution knows is not disturbed by the steps of the others: two
\* executions never hold the claim of the same action.
LEMMA OthersKnow ==
  ASSUME TypeOK, StoreInv, LocalInv, NEW i \in Invocations, StepOf(i),
         NEW j \in Invocations, j # i
  PROVE  Knows(j)'
<1> DEFINE b == cur[j]
<1>1. /\ pc'[j] = pc[j] /\ job'[j] = job[j]
      /\ cur'[j] = cur[j] /\ processed'[j] = processed[j]
  BY OthersStand
<1>2. Knows(j) /\ Knows(i)
  BY DEF LocalInv
<1>3. pc[j] \in Bound => b \in bindings /\ b \in Binding
  BY <1>2 DEF Knows, TypeOK
<1>4. pc[j] \in Bound => b \in bindings'
  BY <1>3, StoreGrows
<1>5. pc[j] \in Holding => claim'[b] = claim[b]
  BY <1>2, <1>3, StoreGrows DEF Knows, Bound
<1>6. pc[j] \in {"successor", "nextEntry", "seal"} => transition'[b] = j
  BY <1>2, <1>3, StoreGrows, NothingIsNone DEF Knows, Bound, Holding, Publishing
<1>7. pc[j] \in Holding => requests'[b.action] = requests[b.action]
  <2> SUFFICES ASSUME pc[j] \in Holding, pc[i] = "claimed",
                      requests' = [requests EXCEPT ![cur[i].action] = @ + 1]
               PROVE  requests'[b.action] = requests[b.action]
    BY StoreGrows
  <2>1. cur[i] \in bindings /\ claim[cur[i]].by = i
    BY <1>2 DEF Knows, Bound, Holding
  <2>2. b \in bindings /\ claim[b].by = j
    BY <1>2 DEF Knows, Bound
  <2>3. b # cur[i]
    BY <2>1, <2>2
  <2>4. b.action # cur[i].action
    BY <2>1, <2>2, <2>3 DEF StoreInv, OneLineage
  <2> QED BY <2>1, <2>2, <2>4 DEF TypeOK, Binding
<1>8. pc[j] \in {"nextEntry", "seal"} => Successor(b, j) \in bindings' \cup {None}
  BY <1>2, StoreGrows DEF Knows
<1> QED
  BY <1>1, <1>2, <1>4, <1>5, <1>6, <1>7, <1>8 DEF Knows, Bound, Holding, Publishing

-----------------------------------------------------------------------------
(* The executions know what they need.                                     *)

\* Where a jump or a write leaves the execution.
LEMMA PcAfter ==
  ASSUME TypeOK, NEW i \in Invocations, NEW label
  PROVE  /\ Goto(i, label) => pc'[i] = label
         /\ Written(i, label) => pc'[i] \in {label, "failed"}
         /\ \A ok \in BOOLEAN :
              WrittenIf(i, ok, label) => pc'[i] = "failed" \/ (ok /\ pc'[i] = label)
BY DEF TypeOK, Goto, Written, WrittenIf

\* An execution that is over, or only prepares the genesis, knows nothing.
LEMMA EndedKnows ==
  ASSUME NEW i \in Invocations, pc'[i] \notin Bound, pc'[i] # "entry"
  PROVE  Knows(i)'
BY DEF Knows, Bound, Holding, Publishing

\* An action without a claim was never asked for.
LEMMA UnclaimedIsUnasked ==
  ASSUME StoreInv, NEW b \in bindings, claim[b] = NoClaim, b \in Binding
  PROVE  requests[b.action] = 0
BY DEF StoreInv, OneLineage, RequestsAreClaimed, Binding

\* Every step leaves the execution that takes it with what it needs.
LEMMA StepKnows ==
  ASSUME TypeOK, StoreInv, LocalInv, NEW i \in Invocations, StepOf(i)
  PROVE  Knows(i)'
<1> USE DEF store
<1>1. Knows(i)
  BY DEF LocalInv
<1>2. pc[i] \in Bound =>
        /\ cur[i] \in bindings /\ cur[i] \in Binding /\ cur[i].action \in Actions
        /\ job[i] \in Job
  BY <1>1 DEF Knows, TypeOK, Binding
<1>3. CASE PrepareGenesis(i) \/ PublishGenesisBinding(i)
  <2>1. pc'[i] \in {"genesisBinding", "genesisEntry", "failed"}
    BY <1>3, PcAfter DEF PrepareGenesis, PublishGenesisBinding
  <2> QED BY <2>1, EndedKnows DEF Bound, Holding, Publishing
<1>4. CASE PublishGenesisEntry(i)
  <2>1. pc'[i] \in {"prepared", "failed"}
    BY <1>4 DEF PublishGenesisEntry, WrittenIf, Goto, TypeOK
  <2> QED BY <2>1, EndedKnows DEF Bound, Holding, Publishing
<1>5. CASE RunWindow(i)
  <2>1. pc'[i] = "entry" /\ job'[i] \in Job
    BY <1>5, PcAfter DEF RunWindow, TypeOK
  <2> QED BY <2>1 DEF Knows, Bound, Holding, Publishing
<1>6. CASE LoadEntry(i)
  <2>1. CASE pc'[i] = "failed"
    BY <2>1, EndedKnows DEF Bound, Holding, Publishing
  <2>2. CASE pc'[i] # "failed"
    <3>1. pc'[i] = "head" /\ cur'[i] \in bindings' /\ job'[i] \in Job
      BY <1>1, <1>6, <2>2, PcAfter DEF LoadEntry, Knows, TypeOK
    <3> QED BY <3>1 DEF Knows, Bound, Holding, Publishing
  <2> QED BY <2>1, <2>2
<1>7. CASE Replay(i)
  <2>1. pc[i] = "head" /\ VerifyReplay(cur[i], job[i].digest)
    BY <1>7 DEF Replay, AtHead, Admissible
  <2>2. receipt[cur[i]].successor # None => receipt[cur[i]].successor \in bindings
    BY <2>1 DEF VerifyReplay
  <2>3. CASE pc'[i] = "complete"
    BY <2>3, EndedKnows DEF Bound, Holding, Publishing
  <2>4. CASE pc'[i] # "complete"
    <3>1. pc'[i] = "head" /\ cur'[i] = receipt[cur[i]].successor /\ cur'[i] # None
      BY <1>7, <2>4, PcAfter DEF Replay, TypeOK
    <3>2. cur'[i] \in bindings' /\ job'[i] \in Job
      BY <1>2, <1>7, <2>1, <2>2, <3>1 DEF Replay, Bound
    <3> QED BY <3>1, <3>2 DEF Knows, Bound, Holding, Publishing
  <2> QED BY <2>3, <2>4
<1>8. CASE Reject(i) \/ StopPartial(i) \/ ClaimConflict(i) \/ GateCloses(i) \/ Abort(i)
  <2>1. pc'[i] \in {"failed", "partial", "indeterminate"}
    BY <1>8, PcAfter DEF Reject, StopPartial, ClaimConflict, GateCloses, Abort
  <2> QED BY <2>1, EndedKnows DEF Bound, Holding, Publishing
<1>9. CASE Fresh(i)
  <2>1. pc[i] = "head" /\ pc'[i] = "claim" /\ processed[i] < job[i].maximum
    BY <1>9, PcAfter DEF Fresh, AtHead
  <2> QED BY <1>1, <1>9, <2>1 DEF Fresh, Knows, Bound, Holding, Publishing
<1>10. CASE PublishClaim(i)
  <2>1. CASE pc'[i] = "failed"
    BY <2>1, EndedKnows DEF Bound, Holding, Publishing
  <2>2. CASE pc'[i] # "failed"
    <3>1. pc[i] = "claim" /\ pc'[i] = "claimed"
      BY <1>10, <2>2, PcAfter DEF PublishClaim
    <3>2. claim'[cur[i]] = [by |-> i, digest |-> job[i].digest]
      BY <1>2, <1>10, <3>1 DEF PublishClaim, TypeOK, Bound
    <3>3. claim'[cur[i]] # NoClaim /\ claim'[cur[i]].by = i
      BY <3>2, NothingIsNone DEF NoClaim
    <3>4. requests[cur[i].action] = 0
      BY <1>2, <1>10, <3>1, UnclaimedIsUnasked DEF PublishClaim, Bound
    <3> QED
      BY <1>1, <1>10, <3>1, <3>3, <3>4 DEF PublishClaim, Knows, Bound, Holding, Publishing
  <2> QED BY <2>1, <2>2
<1>11. CASE StartRequest(i)
  <2>1. pc[i] = "claimed" /\ pc'[i] = "requesting"
    BY <1>11, PcAfter DEF StartRequest
  <2>2. requests'[cur[i].action] = 1
    BY <1>1, <1>2, <1>11, <2>1 DEF StartRequest, Knows, TypeOK, Bound, Holding
  <2> QED BY <1>1, <1>11, <2>1, <2>2 DEF StartRequest, Knows, Bound, Holding, Publishing
<1>12. CASE EndRequest(i)
  <2>1. pc[i] = "requesting" /\ pc'[i] \in {"observation", "failed"}
    BY <1>12 DEF EndRequest, WrittenIf, Goto, TypeOK
  <2> QED BY <1>1, <1>12, <2>1 DEF EndRequest, Knows, Bound, Holding, Publishing
<1>13. CASE PublishObservation(i) \/ PublishPlan(i) \/ PublishSnapshot(i)
  <2>1. /\ pc[i] \in {"observation", "plan", "snapshot"}
        /\ pc'[i] \in {"plan", "snapshot", "transition", "failed"}
    BY <1>13, PcAfter DEF PublishObservation, PublishPlan, PublishSnapshot
  <2>2. UNCHANGED <<bindings, claim, transition, requests, job, cur, processed>>
    BY <1>13 DEF PublishObservation, PublishPlan, PublishSnapshot, Publish
  <2> QED BY <1>1, <2>1, <2>2 DEF Knows, Bound, Holding, Publishing
<1>14. CASE SealTransition(i)
  <2>1. CASE pc'[i] = "failed"
    BY <2>1, EndedKnows DEF Bound, Holding, Publishing
  <2>2. CASE pc'[i] # "failed"
    <3>1. pc[i] = "transition" /\ pc'[i] = "successor" /\ transition'[cur[i]] = i
      BY <1>14, <2>2 DEF SealTransition, WrittenIf, Goto, TypeOK
    <3> QED BY <1>1, <1>14, <3>1 DEF SealTransition, Knows, Bound, Holding, Publishing
  <2> QED BY <2>1, <2>2
<1>15. CASE PublishSuccessor(i)
  <2>1. pc[i] = "successor" /\ pc'[i] \in {"seal", "nextEntry", "failed"}
    BY <1>15, PcAfter DEF PublishSuccessor
  <2>2. Successor(cur[i], i) \in bindings' \cup {None}
    BY <1>15 DEF PublishSuccessor
  <2>3. /\ bindings \subseteq bindings'
        /\ UNCHANGED <<claim, transition, requests, job, cur, processed>>
    BY <1>15 DEF PublishSuccessor
  <2>4. Successor(cur'[i], i) = Successor(cur[i], i)
    BY <2>3
  <2> QED
    BY <1>1, <2>1, <2>2, <2>3, <2>4 DEF Knows, Bound, Holding, Publishing
<1>16. CASE PublishNextEntry(i)
  <2>1. pc[i] = "nextEntry" /\ pc'[i] \in {"seal", "failed"}
    BY <1>16 DEF PublishNextEntry, WrittenIf, Goto, TypeOK
  <2>2. UNCHANGED <<bindings, claim, transition, requests, job, cur, processed>>
    BY <1>16 DEF PublishNextEntry
  <2> QED BY <1>1, <2>1, <2>2 DEF Knows, Bound, Holding, Publishing
<1>17. CASE Seal(i)
  <2>1. CASE pc'[i] # "head"
    <3>1. pc'[i] \in {"complete", "failed"}
      BY <1>17, <2>1 DEF Seal, WrittenIf, Goto, TypeOK
    <3> QED BY <3>1, EndedKnows DEF Bound, Holding, Publishing
  <2>2. CASE pc'[i] = "head"
    <3>1. /\ pc[i] = "seal"
          /\ Successor(cur[i], i) # None
          /\ cur' = [cur EXCEPT ![i] = Successor(cur[i], i)]
      BY <1>17, <2>2 DEF Seal, WrittenIf, Goto, TypeOK
    <3>2. cur'[i] \in bindings' /\ job'[i] \in Job
      BY <1>1, <1>2, <1>17, <3>1 DEF Seal, Knows, TypeOK, Bound, Holding, Publishing
    <3> QED BY <2>2, <3>2 DEF Knows, Bound, Holding, Publishing
  <2> QED BY <2>1, <2>2
<1> QED
  BY <1>3, <1>4, <1>5, <1>6, <1>7, <1>8, <1>9, <1>10, <1>11, <1>12, <1>13, <1>14,
     <1>15, <1>16, <1>17 DEF StepOf, Work

-----------------------------------------------------------------------------
(* The store.                                                              *)

\* The writes that matter to the campaign, each made from a step of its own.
LEMMA StepEffects ==
  ASSUME TypeOK, NEW i \in Invocations, StepOf(i)
  PROVE  /\ \/ bindings' = bindings
            \/ bindings' = bindings \cup {Genesis}
            \/ /\ pc[i] = "successor" /\ Successor(cur[i], i) # None
               /\ bindings' = bindings \cup {Successor(cur[i], i)}
         /\ \/ claim' = claim
            \/ /\ pc[i] = "claim" /\ claim[cur[i]] = NoClaim
               /\ claim' = [claim EXCEPT ![cur[i]] = [by |-> i, digest |-> job[i].digest]]
         /\ \/ transition' = transition
            \/ /\ pc[i] = "transition"
               /\ transition' = [transition EXCEPT ![cur[i]] = CreateOrVerify(@, None, i)]
         /\ \/ requests' = requests
            \/ /\ pc[i] = "claimed"
               /\ requests' = [requests EXCEPT ![cur[i].action] = @ + 1]
<1> USE DEF store
<1>1. \/ bindings' = bindings
      \/ bindings' = bindings \cup {Genesis}
      \/ /\ pc[i] = "successor" /\ Successor(cur[i], i) # None
         /\ bindings' = bindings \cup {Successor(cur[i], i)}
  BY DEF StepOf, PrepareGenesis, RunWindow, Work, Abort, PublishGenesisBinding,
         PublishGenesisEntry, LoadEntry, Replay, Reject, Fresh, StopPartial, PublishClaim,
         ClaimConflict, GateCloses, StartRequest, EndRequest, PublishObservation, PublishPlan,
         PublishSnapshot, Publish, SealTransition, PublishSuccessor, PublishNextEntry, Seal
<1>2. \/ claim' = claim
      \/ /\ pc[i] = "claim" /\ claim[cur[i]] = NoClaim
         /\ claim' = [claim EXCEPT ![cur[i]] = [by |-> i, digest |-> job[i].digest]]
  BY DEF StepOf, PrepareGenesis, RunWindow, Work, Abort, PublishGenesisBinding,
         PublishGenesisEntry, LoadEntry, Replay, Reject, Fresh, StopPartial, PublishClaim,
         ClaimConflict, GateCloses, StartRequest, EndRequest, PublishObservation, PublishPlan,
         PublishSnapshot, Publish, SealTransition, PublishSuccessor, PublishNextEntry, Seal
<1>3. \/ transition' = transition
      \/ /\ pc[i] = "transition"
         /\ transition' = [transition EXCEPT ![cur[i]] = CreateOrVerify(@, None, i)]
  BY DEF StepOf, PrepareGenesis, RunWindow, Work, Abort, PublishGenesisBinding,
         PublishGenesisEntry, LoadEntry, Replay, Reject, Fresh, StopPartial, PublishClaim,
         ClaimConflict, GateCloses, StartRequest, EndRequest, PublishObservation, PublishPlan,
         PublishSnapshot, Publish, SealTransition, PublishSuccessor, PublishNextEntry, Seal
<1> QED BY <1>1, <1>2, <1>3, StoreGrows

\* The only published binding of the first action is the genesis.
LEMMA FirstIsGenesis ==
  ASSUME TypeOK, Lineage, NEW c \in bindings, c.action = 1
  PROVE  c = Genesis
<1> SUFFICES ASSUME NEW p \in bindings, p.action + 1 = 1 PROVE FALSE
  BY DEF Lineage
<1> QED BY CampaignAssumption DEF TypeOK, Binding, Actions

\* What an execution about to publish its successor finds published for the
\* next action is that successor.
LEMMA SuccessorIsUnique ==
  ASSUME TypeOK, StoreInv, NEW i \in Invocations, NEW b \in bindings, transition[b] = i,
         Successor(b, i) # None, NEW c \in bindings, c.action = Successor(b, i).action
  PROVE  c = Successor(b, i)
<1>1. b \in Binding /\ c \in Binding /\ b.action \in Nat \ {0} /\ c.action \in Nat
  BY DEF TypeOK, Binding, Actions
<1>2. Successor(b, i) = [action |-> b.action + 1, after |-> i] /\ Successor(b, i) \in Binding
  BY <1>1, SuccessorType
<1>3. c # Genesis
  BY <1>1, <1>2 DEF Genesis
<1>4. PICK p \in bindings : p.action + 1 = c.action /\ transition[p] = c.after
  BY <1>3 DEF StoreInv, Lineage
<1>5. p.action = b.action
  BY <1>1, <1>2, <1>4 DEF TypeOK, Binding, Actions
<1>6. c.after = i
  BY <1>4, <1>5 DEF StoreInv, OneLineage
<1> QED BY <1>1, <1>2, <1>6, BindingEquality

\* A step keeps the store one campaign whose outcomes were claimed and asked
\* for once.
LEMMA StoreStep ==
  ASSUME TypeOK, StoreInv, LocalInv, NEW i \in Invocations, StepOf(i)
  PROVE  StoreInv'
<1>1. Knows(i)
  BY DEF LocalInv
<1>2. pc[i] \in Bound => cur[i] \in bindings /\ cur[i] \in Binding /\ cur[i].action \in Actions
  BY <1>1 DEF Knows, TypeOK, Binding
<1>3. bindings \subseteq Binding /\ bindings \subseteq bindings'
  BY StoreGrows DEF TypeOK
<1>4. Lineage'
  <2> SUFFICES ASSUME NEW b \in bindings'
               PROVE  \/ b = Genesis
                      \/ \E p \in bindings' :
                           p.action + 1 = b.action /\ b.after # None /\ transition'[p] = b.after
    BY DEF Lineage, Genesis
  <2>1. CASE b \in bindings /\ b # Genesis
    <3>1. PICK p \in bindings : p.action + 1 = b.action /\ b.after # None /\ transition[p] = b.after
      BY <2>1 DEF StoreInv, Lineage
    <3>2. transition'[p] = b.after
      BY <1>3, <3>1, StoreGrows
    <3> QED BY <1>3, <3>1, <3>2
  <2>2. CASE b \notin bindings /\ b # Genesis
    <3>1. pc[i] = "successor" /\ Successor(cur[i], i) # None /\ b = Successor(cur[i], i)
      <4>1. \/ bindings' = bindings
            \/ bindings' = bindings \cup {Genesis}
            \/ /\ pc[i] = "successor" /\ Successor(cur[i], i) # None
               /\ bindings' = bindings \cup {Successor(cur[i], i)}
        BY StepEffects
      <4> QED BY <2>2, <4>1
    <3>2. cur[i] \in bindings /\ cur[i] \in Binding /\ transition[cur[i]] = i
      BY <1>1, <1>2, <3>1 DEF Knows, Bound, Holding, Publishing
    <3>3. b.action = cur[i].action + 1 /\ b.after = i
      BY <3>1, <3>2, SuccessorType
    <3>4. transition'[cur[i]] = i
      BY <3>2, NothingIsNone, StoreGrows
    <3> QED BY <1>3, <3>2, <3>3, <3>4, NothingIsNone
  <2> QED BY <2>1, <2>2
<1>5. OneLineage'
  <2> SUFFICES ASSUME NEW b \in bindings', NEW c \in bindings', b.action = c.action
               PROVE  b = c
    BY DEF OneLineage
  <2>1. CASE bindings' = bindings
    BY <2>1 DEF StoreInv, OneLineage
  <2>2. CASE bindings' = bindings \cup {Genesis}
    <3>1. Genesis.action = 1
      BY DEF Genesis
    <3> QED BY <2>2, <3>1, FirstIsGenesis DEF StoreInv, OneLineage
  <2>3. CASE /\ pc[i] = "successor" /\ Successor(cur[i], i) # None
             /\ bindings' = bindings \cup {Successor(cur[i], i)}
    <3>1. cur[i] \in bindings /\ transition[cur[i]] = i
      BY <1>1, <1>2, <2>3 DEF Knows, Bound, Holding, Publishing
    <3>2. \A d \in bindings :
            d.action = Successor(cur[i], i).action => d = Successor(cur[i], i)
      BY <2>3, <3>1, SuccessorIsUnique
    <3> QED BY <2>3, <3>2 DEF StoreInv, OneLineage
  <2> QED BY <2>1, <2>2, <2>3, StepEffects
<1>6. ClaimsArePublished'
  <2>1. CASE claim' = claim
    BY <1>3, <2>1 DEF StoreInv, ClaimsArePublished
  <2>2. CASE /\ pc[i] = "claim"
             /\ claim' = [claim EXCEPT ![cur[i]] = [by |-> i, digest |-> job[i].digest]]
    <3>1. cur[i] \in bindings
      BY <1>2, <2>2 DEF Bound
    <3>2. ASSUME NEW b \in Binding, b # cur[i] PROVE claim'[b] = claim[b]
      BY <2>2, <3>2 DEF TypeOK
    <3> QED BY <1>3, <3>1, <3>2 DEF StoreInv, ClaimsArePublished
  <2> QED BY <2>1, <2>2, StepEffects
<1>7. OutcomesAreClaimed'
  <2> SUFFICES ASSUME NEW b \in Binding, transition'[b] # None
               PROVE  claim'[b] # NoClaim /\ requests'[b.action] = 1
    BY DEF OutcomesAreClaimed
  <2>1. claim[b] # NoClaim /\ requests[b.action] = 1
    <3>1. CASE transition[b] # None
      BY <3>1 DEF StoreInv, OutcomesAreClaimed
    <3>2. CASE transition[b] = None
      <4>1. pc[i] = "transition" /\ b = cur[i]
        BY <3>2, StepEffects DEF TypeOK
      <4> QED BY <1>1, <4>1 DEF Knows, Holding, Publishing
    <3> QED BY <3>1, <3>2
  <2>2. claim'[b] # NoClaim
    BY <2>1, StoreGrows
  <2>3. requests'[b.action] = 1
    <3> SUFFICES ASSUME pc[i] = "claimed",
                        requests' = [requests EXCEPT ![cur[i].action] = @ + 1]
                 PROVE  requests'[b.action] = 1
      BY <2>1, StoreGrows
    <3>1. requests[cur[i].action] = 0
      BY <1>1 DEF Knows
    <3>2. b.action \in Actions /\ b.action # cur[i].action
      BY <2>1, <3>1 DEF Binding
    <3> QED BY <2>1, <3>2 DEF TypeOK
  <2> QED BY <2>2, <2>3
<1>8. RequestsAreClaimed'
  <2> SUFFICES ASSUME NEW a \in Actions
               PROVE  \/ requests'[a] = 0
                      \/ /\ requests'[a] = 1
                         /\ \E b \in bindings' : b.action = a /\ claim'[b] # NoClaim
    BY DEF RequestsAreClaimed
  <2>1. CASE requests'[a] = requests[a]
    <3>1. CASE requests[a] = 0
      BY <2>1, <3>1
    <3>2. CASE requests[a] # 0
      <4>1. PICK b \in bindings : b.action = a /\ claim[b] # NoClaim
        BY <3>2 DEF StoreInv, RequestsAreClaimed
      <4>2. requests[a] = 1
        BY <3>2 DEF StoreInv, RequestsAreClaimed
      <4>3. claim'[b] # NoClaim
        BY <1>3, <4>1, StoreGrows
      <4> QED BY <1>3, <2>1, <4>1, <4>2, <4>3
    <3> QED BY <3>1, <3>2
  <2>2. CASE requests'[a] # requests[a]
    <3>1. /\ pc[i] = "claimed"
          /\ requests' = [requests EXCEPT ![cur[i].action] = @ + 1]
      BY <2>2, StoreGrows
    <3>2. cur[i].action = a
      BY <2>2, <3>1 DEF TypeOK
    <3>3. requests[a] = 0 /\ cur[i] \in bindings /\ claim[cur[i]] # NoClaim
      BY <1>1, <3>1, <3>2 DEF Knows, Bound, Holding
    <3>4. requests'[a] = 1
      BY <3>1, <3>2, <3>3 DEF TypeOK
    <3>5. claim'[cur[i]] # NoClaim
      BY <1>3, <3>3, StoreGrows
    <3> QED BY <1>3, <3>2, <3>3, <3>4, <3>5
  <2> QED BY <2>1, <2>2
<1> QED BY <1>4, <1>5, <1>6, <1>7, <1>8 DEF StoreInv

-----------------------------------------------------------------------------
(* The inductive invariant and what it gives.                              *)

\* An empty store holds no campaign, and nobody works.
LEMMA InitHolds == Init => IInv
<1> SUFFICES ASSUME Init PROVE StoreInv /\ LocalInv
  BY InitTypes DEF IInv
<1>1. StoreInv
  BY DEF Init, InitFrom, StoreInv, Lineage, OneLineage, ClaimsArePublished, OutcomesAreClaimed,
         RequestsAreClaimed
<1>2. LocalInv
  BY DEF Init, InitFrom, LocalInv, Knows, Bound, Holding, Publishing
<1> QED BY <1>1, <1>2

\* The invariant is inductive.
LEMMA StepHolds == IInv /\ [Next]_vars => IInv'
<1> SUFFICES ASSUME IInv, [Next]_vars PROVE IInv'
  OBVIOUS
<1>1. TypeOK'
  BY TypesStep DEF IInv
<1>2. CASE Tick \/ UNCHANGED vars
  <2>1. UNCHANGED <<store, locals>>
    BY <1>2 DEF Tick, vars
  <2>2. StoreInv'
    BY <2>1 DEF store, IInv, StoreInv, Lineage, OneLineage, ClaimsArePublished,
                OutcomesAreClaimed, RequestsAreClaimed
  <2>3. LocalInv'
    BY <2>1 DEF store, locals, IInv, LocalInv, Knows
  <2> QED BY <1>1, <2>2, <2>3 DEF IInv
<1>3. ASSUME NEW i \in Invocations, StepOf(i) PROVE IInv'
  <2>1. StoreInv'
    BY <1>3, StoreStep DEF IInv
  <2>2. ASSUME NEW j \in Invocations PROVE Knows(j)'
    BY <1>3, StepKnows, OthersKnow DEF IInv
  <2> QED BY <1>1, <2>1, <2>2 DEF IInv, LocalInv
<1> QED BY <1>2, <1>3 DEF Next, StepOf

\* Every reachable state satisfies the invariant.
THEOREM Invariance == Spec => []IInv
<1>1. Init => IInv
  BY InitHolds
<1>2. IInv /\ [Next]_vars => IInv'
  BY StepHolds
<1> QED BY <1>1, <1>2, PTL DEF Spec

\* The store and the executions keep their types (the counters of run never
\* pass the maximum of its command line).
THEOREM TypeCorrect == Spec => []TypeOK
<1>1. IInv => TypeOK
  BY DEF IInv
<1> QED BY <1>1, Invariance, PTL

\* The claim of QualityPilotWindowService: over all executions, crashes and
\* lost answers the provider is asked at most once for an action.
THEOREM RequestedOnce == Spec => []AtMostOneRequest
<1>1. IInv => AtMostOneRequest
  BY DEF IInv, StoreInv, RequestsAreClaimed, AtMostOneRequest
<1> QED BY <1>1, Invariance, PTL

\* The bindings that the executions publish never fork the campaign.
THEOREM NoFork == Spec => []OneLineage
<1>1. IInv => OneLineage
  BY DEF IInv, StoreInv
<1> QED BY <1>1, Invariance, PTL

\* Only the execution that holds the claim of an action asks for it or seals
\* it.
LEMMA OrphanStep ==
  ASSUME IInv, [Next]_vars, NEW b \in Binding, Orphaned(b), transition[b] = None
  PROVE  transition'[b] = None /\ requests'[b.action] = requests[b.action]
<1> USE DEF IInv
<1>1. CASE Tick \/ UNCHANGED vars
  BY <1>1 DEF Tick, vars, store
<1>2. ASSUME NEW i \in Invocations, StepOf(i)
      PROVE  transition'[b] = None /\ requests'[b.action] = requests[b.action]
  <2>1. Knows(i)
    BY DEF LocalInv
  <2>2. b \in bindings /\ b.action \in Actions
    BY DEF Orphaned, StoreInv, ClaimsArePublished, Binding
  <2>3. pc[i] \in Holding => cur[i] # b
    BY <2>1 DEF Knows, Orphaned, Ended, Holding, Publishing
  <2>4. pc[i] \in Holding => cur[i] \in bindings /\ cur[i].action # b.action
    BY <2>1, <2>2, <2>3 DEF Knows, Bound, StoreInv, OneLineage
  <2>5. transition'[b] = None
    BY <1>2, <2>3, StepEffects DEF TypeOK, Holding, Publishing
  <2>6. requests'[b.action] = requests[b.action]
    BY <1>2, <2>2, <2>4, StepEffects DEF TypeOK, Holding
  <2> QED BY <2>5, <2>6
<1> QED BY <1>1, <1>2 DEF Next, StepOf

\* A claim whose execution ended without an outcome is final: nobody asks
\* for its action again, or seals it (RESUME_INDETERMINATE stays so).
THEOREM OrphansStay == Spec => OrphanIsFinal
<1>1. IInv /\ [Next]_vars =>
        [\A b \in Binding : Orphaned(b) /\ transition[b] = None =>
           transition'[b] = None /\ requests'[b.action] = requests[b.action]]_vars
  BY OrphanStep
<1> QED BY <1>1, Invariance, PTL DEF Spec, OrphanIsFinal

-----------------------------------------------------------------------------
(* The evidence: every outcome and every receipt has what it needs.        *)

Stored(kind, b, i) == [kind |-> kind, binding |-> b, by |-> i] \in artifacts

\* What an execution has stored by the time it is at a step.
HasStored(i) ==
  /\ pc[i] \in {"plan", "snapshot", "transition"} => Stored("observation", cur[i], i)
  /\ pc[i] \in {"snapshot", "transition"} /\ IsCatalog(cur[i]) => Stored("plan", cur[i], i)
  /\ pc[i] = "transition" => Stored("snapshot", cur[i], i)
  /\ pc[i] = "seal" /\ Crosses(cur[i]) =>
       entry[WindowOf[cur[i].action] + 1] = Successor(cur[i], i)

EvidenceInv ==
  /\ OutcomesHaveEvidence
  /\ ReceiptsReplay
  /\ \A i \in Invocations : HasStored(i)

\* The writes to entries.
LEMMA EntryEffects ==
  ASSUME NEW i \in Invocations, StepOf(i)
  PROVE  \/ entry' = entry
         \/ /\ pc[i] = "genesisEntry"
            /\ entry' = [entry EXCEPT ![1] = CreateOrVerify(@, None, Genesis)]
         \/ /\ pc[i] = "nextEntry"
            /\ entry' = [entry EXCEPT ![WindowOf[cur[i].action] + 1] =
                           CreateOrVerify(@, None, Successor(cur[i], i))]
BY DEF store, StepOf, PrepareGenesis, RunWindow, Work, Abort, PublishGenesisBinding,
       PublishGenesisEntry, LoadEntry, Replay, Reject, Fresh, StopPartial, PublishClaim,
       ClaimConflict, GateCloses, StartRequest, EndRequest, PublishObservation, PublishPlan,
       PublishSnapshot, Publish, SealTransition, PublishSuccessor, PublishNextEntry, Seal

\* Entries and artifacts are create-once, too.
LEMMA EntriesStand ==
  ASSUME TypeOK, NEW i \in Invocations, StepOf(i)
  PROVE  /\ \A w \in Windows : entry[w] # None => entry'[w] = entry[w]
         /\ artifacts \subseteq artifacts'
<1>1. ASSUME NEW w \in Windows, entry[w] # None PROVE entry'[w] = entry[w]
  BY <1>1, EntryEffects DEF TypeOK, CreateOrVerify
<1>2. artifacts \subseteq artifacts'
  BY DEF store, StepOf, PrepareGenesis, RunWindow, Work, Abort, PublishGenesisBinding,
         PublishGenesisEntry, LoadEntry, Replay, Reject, Fresh, StopPartial, PublishClaim,
         ClaimConflict, GateCloses, StartRequest, EndRequest, PublishObservation, PublishPlan,
         PublishSnapshot, Publish, SealTransition, PublishSuccessor, PublishNextEntry, Seal
<1> QED BY <1>1, <1>2

\* A receipt is written once, by the execution that is about to seal.
LEMMA ReceiptEffects ==
  ASSUME NEW i \in Invocations, StepOf(i)
  PROVE  \/ receipt' = receipt
         \/ /\ pc[i] = "seal"
            /\ receipt' = [receipt EXCEPT ![cur[i]] = CreateOrVerify(@, NoReceipt,
                 [outcome |-> i, successor |-> Successor(cur[i], i),
                  crosses |-> Crosses(cur[i])])]
BY DEF store, StepOf, PrepareGenesis, RunWindow, Work, Abort, PublishGenesisBinding,
       PublishGenesisEntry, LoadEntry, Replay, Reject, Fresh, StopPartial, PublishClaim,
       ClaimConflict, GateCloses, StartRequest, EndRequest, PublishObservation, PublishPlan,
       PublishSnapshot, Publish, SealTransition, PublishSuccessor, PublishNextEntry, Seal

\* Where the campaign crosses into another window, that is the next one.
LEMMA NextWindow ==
  ASSUME NEW b \in Binding, Crosses(b), NEW i \in Invocations
  PROVE  /\ WindowOf[b.action] + 1 \in Windows
         /\ Successor(b, i) \in Binding /\ Successor(b, i) # None
<1>1. b.action \in 1 .. NumActions - 1 /\ b.action + 1 \in Actions
  BY CampaignAssumption DEF Binding, Actions, Crosses
<1>2. WindowOf[b.action + 1] = WindowOf[b.action] + 1
  BY <1>1, CampaignAssumption DEF Crosses
<1>3. WindowOf[b.action + 1] \in Windows
  BY <1>1, CampaignAssumption
<1> QED BY <1>2, <1>3, SuccessorType DEF Crosses

\* A receipt that replays goes on replaying, whatever is written next.
LEMMA ReplayStands ==
  ASSUME TypeOK, NEW i \in Invocations, StepOf(i), NEW b \in Binding, receipt[b] # NoReceipt,
         VerifyReplay(b, claim[b].digest), receipt'[b] = receipt[b]
  PROVE  VerifyReplay(b, claim[b].digest)'
<1> DEFINE o == receipt[b].outcome
           next == Successor(b, o)
<1>1. o \in Invocations
  BY DEF TypeOK, Receipt
<1>2. claim[b] # NoClaim /\ claim'[b] = claim[b]
  <2>1. claim[b].by = o
    BY DEF VerifyReplay
  <2> QED BY <1>1, <2>1, NothingIsNone, StoreGrows DEF NoClaim
<1>3. transition'[b] = o
  BY <1>1, NothingIsNone, StoreGrows DEF VerifyReplay
<1>4. [kind |-> "snapshot", binding |-> b, by |-> o] \in artifacts'
  BY EntriesStand DEF VerifyReplay
<1>5. next # None => next \in bindings'
  BY StoreGrows DEF VerifyReplay
<1>6. receipt[b].successor = next /\ receipt[b].crosses = Crosses(b)
  BY DEF VerifyReplay
<1>7. receipt[b].crosses => entry'[WindowOf[b.action] + 1] = next
  <2> SUFFICES ASSUME Crosses(b) PROVE entry'[WindowOf[b.action] + 1] = next
    BY <1>6
  <2>1. WindowOf[b.action] + 1 \in Windows /\ next # None
    BY <1>1, NextWindow
  <2>2. entry[WindowOf[b.action] + 1] = next
    BY <1>6 DEF VerifyReplay
  <2> QED BY <2>1, <2>2, EntriesStand
<1> QED
  BY <1>2, <1>3, <1>4, <1>5, <1>6, <1>7 DEF VerifyReplay

\* The evidence of an outcome is there when it is sealed, and stays.
LEMMA OutcomesStep ==
  ASSUME IInv, EvidenceInv, NEW i \in Invocations, StepOf(i)
  PROVE  OutcomesHaveEvidence'
<1> DEFINE Kinds(b) == {"observation", "snapshot"} \cup (IF IsCatalog(b) THEN {"plan"} ELSE {})
<1> SUFFICES ASSUME NEW b \in Binding, transition'[b] # None, NEW kind \in Kinds(b)
             PROVE  Stored(kind, b, transition[b])'
  BY DEF OutcomesHaveEvidence, Stored, IsCatalog
<1>1. TypeOK /\ artifacts \subseteq artifacts'
  BY EntriesStand DEF IInv
<1>2. CASE transition[b] # None
  <2>1. transition'[b] = transition[b]
    BY <1>1, <1>2, StoreGrows
  <2>2. Stored(kind, b, transition[b])
    BY <1>2 DEF EvidenceInv, OutcomesHaveEvidence, Stored
  <2> QED BY <1>1, <2>1, <2>2 DEF Stored
<1>3. CASE transition[b] = None
  <2>1. pc[i] = "transition" /\ cur[i] = b /\ transition'[b] = i
    BY <1>1, <1>3, StepEffects DEF TypeOK, CreateOrVerify
  <2>2. Stored(kind, b, i)
    BY <2>1 DEF EvidenceInv, HasStored
  <2> QED BY <1>1, <2>1, <2>2 DEF Stored
<1> QED BY <1>2, <1>3

\* A receipt is sealed when everything that its replay reads is there.
LEMMA ReceiptsStep ==
  ASSUME IInv, EvidenceInv, NEW i \in Invocations, StepOf(i)
  PROVE  ReceiptsReplay'
<1> SUFFICES ASSUME NEW b \in Binding, receipt'[b] # NoReceipt
             PROVE  VerifyReplay(b, claim[b].digest)'
  BY DEF ReceiptsReplay
<1>1. TypeOK
  BY DEF IInv
<1>2. CASE receipt[b] # NoReceipt
  <2>1. receipt'[b] = receipt[b]
    BY <1>1, <1>2, ReceiptEffects DEF TypeOK, CreateOrVerify
  <2> QED BY <1>1, <1>2, <2>1, ReplayStands DEF EvidenceInv, ReceiptsReplay
<1>3. CASE receipt[b] = NoReceipt
  <2>1. /\ pc[i] = "seal" /\ cur[i] = b
        /\ receipt'[b] = [outcome |-> i, successor |-> Successor(b, i), crosses |-> Crosses(b)]
    BY <1>1, <1>3, ReceiptEffects DEF TypeOK, CreateOrVerify
  <2>2. Knows(i) /\ HasStored(i)
    BY DEF IInv, LocalInv, EvidenceInv
  <2>3. claim[b] \in Claim /\ claim[b].by = i /\ claim[b] # NoClaim
    BY <1>1, <2>1, <2>2 DEF Knows, Holding, Publishing, TypeOK
  <2>4. claim'[b] = [by |-> i, digest |-> claim'[b].digest]
    BY <1>1, <2>3, StoreGrows DEF Claim
  <2>5. transition[b] = i
    BY <2>1, <2>2 DEF Knows
  <2>6. transition'[b] = i
    BY <1>1, <2>5, NothingIsNone, StoreGrows
  <2>7. [kind |-> "snapshot", binding |-> b, by |-> i] \in artifacts'
    BY <1>1, <2>5, NothingIsNone, EntriesStand DEF EvidenceInv, OutcomesHaveEvidence
  <2>8. Successor(b, i) # None => Successor(b, i) \in bindings'
    BY <1>1, <2>1, <2>2, StoreGrows DEF Knows
  <2>9. Crosses(b) => entry'[WindowOf[b.action] + 1] = Successor(b, i)
    BY <1>1, <2>1, <2>2, NextWindow, EntriesStand DEF HasStored
  <2> QED BY <2>1, <2>4, <2>6, <2>7, <2>8, <2>9 DEF VerifyReplay
<1> QED BY <1>2, <1>3

\* What an execution has stored is not taken away by the others.
LEMMA OthersHaveStored ==
  ASSUME IInv, EvidenceInv, NEW i \in Invocations, StepOf(i), NEW j \in Invocations, j # i
  PROVE  HasStored(j)'
<1>1. TypeOK /\ artifacts \subseteq artifacts' /\ pc'[j] = pc[j] /\ cur'[j] = cur[j]
  BY OthersStand, EntriesStand DEF IInv
<1>2. HasStored(j) /\ Knows(j)
  BY DEF EvidenceInv, IInv, LocalInv
<1>3. pc[j] = "seal" /\ Crosses(cur[j]) =>
        entry'[WindowOf[cur[j].action] + 1] = Successor(cur[j], j)
  <2> SUFFICES ASSUME pc[j] = "seal", Crosses(cur[j])
               PROVE  entry'[WindowOf[cur[j].action] + 1] = Successor(cur[j], j)
    OBVIOUS
  <2>1. cur[j] \in Binding
    BY <1>1, <1>2 DEF Knows, Bound, Holding, Publishing, TypeOK
  <2>2. WindowOf[cur[j].action] + 1 \in Windows /\ Successor(cur[j], j) # None
    BY <2>1, NextWindow
  <2> QED BY <1>1, <1>2, <2>2, EntriesStand DEF HasStored
<1> QED
  BY <1>1, <1>2, <1>3 DEF HasStored, Stored, Crosses, IsCatalog

\* Every step leaves the execution that takes it with its artifacts stored.
LEMMA StepHasStored ==
  ASSUME IInv, EvidenceInv, NEW i \in Invocations, StepOf(i)
  PROVE  HasStored(i)'
<1> DEFINE After == {"plan", "snapshot", "transition", "seal"}
<1>1. TypeOK /\ Knows(i) /\ HasStored(i)
  BY DEF IInv, LocalInv, EvidenceInv
<1>2. CASE pc'[i] \notin After
  BY <1>2 DEF HasStored
<1>3. CASE PublishObservation(i)
  <2>1. pc'[i] \in {IF IsCatalog(cur[i]) THEN "plan" ELSE "snapshot", "failed"}
    BY <1>1, <1>3, PcAfter DEF PublishObservation
  <2>2. Stored("observation", cur[i], i)' /\ cur'[i] = cur[i]
    BY <1>3 DEF PublishObservation, Publish, Stored
  <2> QED BY <2>1, <2>2 DEF HasStored, IsCatalog
<1>4. CASE PublishPlan(i)
  <2>1. pc[i] = "plan" /\ pc'[i] \in {"snapshot", "failed"} /\ cur'[i] = cur[i]
    BY <1>1, <1>4, PcAfter DEF PublishPlan, Publish
  <2>2. Stored("plan", cur[i], i)' /\ artifacts \subseteq artifacts'
    BY <1>4, <2>1 DEF PublishPlan, Publish, Stored
  <2>3. Stored("observation", cur[i], i)'
    BY <1>1, <2>1, <2>2 DEF HasStored, Stored
  <2> QED BY <2>1, <2>2, <2>3 DEF HasStored
<1>5. CASE PublishSnapshot(i)
  <2>1. pc[i] = "snapshot" /\ pc'[i] \in {"transition", "failed"} /\ cur'[i] = cur[i]
    BY <1>1, <1>5, PcAfter DEF PublishSnapshot, Publish
  <2>2. Stored("snapshot", cur[i], i)' /\ artifacts \subseteq artifacts'
    BY <1>5, <2>1 DEF PublishSnapshot, Publish, Stored
  <2>3. /\ Stored("observation", cur[i], i)'
        /\ IsCatalog(cur[i]) => Stored("plan", cur[i], i)'
    BY <1>1, <2>1, <2>2 DEF HasStored, Stored
  <2> QED BY <2>1, <2>2, <2>3 DEF HasStored, IsCatalog
<1>6. CASE PublishSuccessor(i)
  <2>1. pc[i] = "successor" /\ pc'[i] \in {"seal", "nextEntry", "failed"} /\ cur'[i] = cur[i]
    BY <1>1, <1>6, PcAfter DEF PublishSuccessor
  <2>2. cur[i] \in Binding
    BY <1>1, <2>1 DEF Knows, Bound, Holding, Publishing, TypeOK
  <2>3. pc'[i] = "seal" => ~Crosses(cur[i])
    <3>1. CASE Successor(cur[i], i) = None
      BY <2>2, <3>1, SuccessorType DEF Crosses
    <3>2. CASE Successor(cur[i], i) # None /\ Crosses(cur[i])
      <4>1. Written(i, "nextEntry")
        BY <1>6, <3>2 DEF PublishSuccessor
      <4> QED BY <1>1, <4>1, PcAfter
    <3> QED BY <3>1, <3>2
  <2> QED BY <2>1, <2>3 DEF HasStored, Crosses
<1>7. CASE PublishNextEntry(i)
  <2>1. /\ cur'[i] = cur[i]
        /\ \/ pc'[i] = "failed"
           \/ /\ pc'[i] = "seal"
              /\ entry'[WindowOf[cur[i].action] + 1] = Successor(cur[i], i)
    BY <1>1, <1>7 DEF PublishNextEntry, WrittenIf, Goto, TypeOK
  <2> QED BY <2>1 DEF HasStored
<1> QED
  <2> SUFFICES ASSUME pc'[i] \in After
               PROVE  \/ PublishObservation(i) \/ PublishPlan(i) \/ PublishSnapshot(i)
                      \/ PublishSuccessor(i) \/ PublishNextEntry(i)
    BY <1>2, <1>3, <1>4, <1>5, <1>6, <1>7
  <2>1. /\ ~PrepareGenesis(i) /\ ~PublishGenesisBinding(i) /\ ~PublishGenesisEntry(i)
        /\ ~RunWindow(i) /\ ~LoadEntry(i) /\ ~Replay(i) /\ ~Reject(i) /\ ~Fresh(i)
        /\ ~StopPartial(i)
    BY <1>1 DEF PrepareGenesis, PublishGenesisBinding, PublishGenesisEntry, RunWindow, LoadEntry,
         Replay, Reject, Fresh, StopPartial, Written, WrittenIf, Goto, TypeOK
  <2>2. /\ ~PublishClaim(i) /\ ~ClaimConflict(i) /\ ~GateCloses(i) /\ ~StartRequest(i)
        /\ ~EndRequest(i) /\ ~SealTransition(i) /\ ~Seal(i) /\ ~Abort(i)
    BY <1>1 DEF PublishClaim, ClaimConflict, GateCloses, StartRequest, EndRequest,
         SealTransition, Seal, Abort, Written, WrittenIf, Goto, TypeOK
  <2> QED BY <2>1, <2>2 DEF StepOf, Work

\* The evidence is inductive, relative to the invariant.
LEMMA EvidenceStep == IInv /\ EvidenceInv /\ [Next]_vars => EvidenceInv'
<1> SUFFICES ASSUME IInv, EvidenceInv, [Next]_vars PROVE EvidenceInv'
  OBVIOUS
<1>1. CASE Tick \/ UNCHANGED vars
  <2>1. UNCHANGED <<store, locals>>
    BY <1>1 DEF Tick, vars
  <2>2. OutcomesHaveEvidence' /\ ReceiptsReplay'
    BY <2>1 DEF store, EvidenceInv, OutcomesHaveEvidence, ReceiptsReplay, VerifyReplay
  <2>3. ASSUME NEW i \in Invocations PROVE HasStored(i)'
    BY <2>1 DEF store, locals, EvidenceInv, HasStored, Stored
  <2> QED BY <2>2, <2>3 DEF EvidenceInv
<1>2. ASSUME NEW i \in Invocations, StepOf(i) PROVE EvidenceInv'
  <2>1. ASSUME NEW j \in Invocations PROVE HasStored(j)'
    BY <1>2, StepHasStored, OthersHaveStored
  <2> QED BY <1>2, <2>1, OutcomesStep, ReceiptsStep DEF EvidenceInv
<1> QED BY <1>1, <1>2 DEF Next, StepOf

\* The evidence is there in every reachable state.
THEOREM EvidenceInvariance == Spec => []EvidenceInv
<1>1. Init => EvidenceInv
  BY DEF Init, InitFrom, EvidenceInv, OutcomesHaveEvidence, ReceiptsReplay, HasStored
<1>2. IInv /\ EvidenceInv /\ [Next]_vars => EvidenceInv'
  BY EvidenceStep
<1> QED BY <1>1, <1>2, Invariance, PTL DEF Spec

\* A receipt in the store passes _verify_replay, wherever the execution that
\* sealed it, or any other one, was cut off.
THEOREM ReceiptsStand == Spec => []ReceiptsReplay
<1>1. EvidenceInv => ReceiptsReplay
  BY DEF EvidenceInv
<1> QED BY <1>1, EvidenceInvariance, PTL

\* No outcome is sealed in the ledger before its observation, its snapshot
\* and, for a catalog capture, its session plan.
THEOREM EvidenceFirst == Spec => []OutcomesHaveEvidence
<1>1. EvidenceInv => OutcomesHaveEvidence
  BY DEF EvidenceInv
<1> QED BY <1>1, EvidenceInvariance, PTL

-----------------------------------------------------------------------------
(* The protocol implements the campaign ledger.                            *)

\* The abstract variables: the actions somebody claimed, and the actions
\* with an outcome.
ClaimedActions == {a \in Actions : \E b \in Binding : b.action = a /\ claim[b] # NoClaim}
SealedActions == {a \in Actions : \E b \in Binding : b.action = a /\ transition[b] # None}

\* Taking up, asking for and sealing the action of cur[i] changes the
\* abstract state by that action.
LEMMA StepRefines ==
  ASSUME IInv, NEW i \in Invocations, StepOf(i)
  PROVE  Ledger!LedgerNext \/ UNCHANGED <<ClaimedActions, requests, SealedActions>>
<1> DEFINE b == cur[i]
<1> USE DEF IInv
<1>1. Knows(i)
  BY DEF LocalInv
<1>2. pc[i] \in Bound =>
        b \in bindings /\ b \in Binding /\ b.action \in Actions /\ b.action \in Nat
  BY <1>1 DEF Knows, TypeOK, Binding, Actions
<1>3. CASE UNCHANGED <<claim, transition, requests>>
  BY <1>3 DEF ClaimedActions, SealedActions
<1>4. CASE /\ pc[i] = "claim" /\ claim[b] = NoClaim
           /\ claim' = [claim EXCEPT ![b] = [by |-> i, digest |-> job[i].digest]]
           /\ UNCHANGED <<transition, requests>>
  <2>1. b \in bindings /\ b \in Binding /\ b.action \in Actions /\ b.action \in Nat
    BY <1>2, <1>4 DEF Bound
  <2>2. b.action \notin ClaimedActions
    <3> SUFFICES ASSUME NEW c \in Binding, c.action = b.action, claim[c] # NoClaim PROVE FALSE
      BY DEF ClaimedActions
    <3>1. c = b
      BY <2>1 DEF StoreInv, ClaimsArePublished, OneLineage
    <3> QED BY <1>4, <3>1
  <2>3. b.action > 1 => b.action - 1 \in SealedActions
    <3> SUFFICES ASSUME b.action > 1 PROVE b.action - 1 \in SealedActions
      OBVIOUS
    <3>1. b # Genesis
      BY DEF Genesis
    <3>2. PICK p \in bindings : p.action + 1 = b.action /\ b.after # None /\ transition[p] = b.after
      BY <2>1, <3>1 DEF StoreInv, Lineage
    <3>3. p \in Binding /\ p.action \in Actions /\ p.action \in Nat
      BY <3>2 DEF TypeOK, Binding, Actions
    <3>4. p.action = b.action - 1
      BY <2>1, <3>2, <3>3
    <3> QED BY <3>2, <3>3, <3>4 DEF SealedActions
  <2>4. claim'[b] # NoClaim /\ \A c \in Binding \ {b} : claim'[c] = claim[c]
    <3>1. claim'[b] = [by |-> i, digest |-> job[i].digest]
      BY <1>4, <2>1 DEF TypeOK
    <3>2. \A c \in Binding \ {b} : claim'[c] = claim[c]
      BY <1>4 DEF TypeOK
    <3> QED BY <3>1, <3>2, NothingIsNone DEF NoClaim
  <2>5. ClaimedActions' = ClaimedActions \cup {b.action}
    BY <2>1, <2>4 DEF ClaimedActions
  <2>6. SealedActions' = SealedActions
    BY <1>4 DEF SealedActions
  <2>7. PICK a \in Ledger!Actions : a = b.action
    BY <2>1 DEF Ledger!Actions, Actions
  <2>8. Ledger!TakeUp(a)
    BY <1>4, <2>2, <2>3, <2>5, <2>6, <2>7 DEF Ledger!TakeUp, ClaimedActions, SealedActions
  <2> QED BY <2>8 DEF Ledger!LedgerNext
<1>5. CASE /\ pc[i] = "claimed"
           /\ requests' = [requests EXCEPT ![b.action] = @ + 1]
           /\ UNCHANGED <<claim, transition>>
  <2>1. b \in Binding /\ b.action \in Actions
    BY <1>2, <1>5 DEF Bound, Holding
  <2>2. requests[b.action] = 0 /\ claim[b] # NoClaim
    BY <1>1, <1>5 DEF Knows, Holding
  <2>3. b.action \in ClaimedActions
    BY <2>1, <2>2 DEF ClaimedActions
  <2>4. requests' = [requests EXCEPT ![b.action] = 1]
    BY <1>5, <2>2 DEF TypeOK
  <2>5. ClaimedActions' = ClaimedActions /\ SealedActions' = SealedActions
    BY <1>5 DEF ClaimedActions, SealedActions
  <2>6. PICK a \in Ledger!Actions : a = b.action
    BY <2>1 DEF Ledger!Actions, Actions
  <2>7. Ledger!Request(a)
    BY <2>2, <2>3, <2>4, <2>5, <2>6 DEF Ledger!Request, ClaimedActions, SealedActions
  <2> QED BY <2>7 DEF Ledger!LedgerNext
<1>6. CASE /\ pc[i] = "transition"
           /\ transition' = [transition EXCEPT ![b] = CreateOrVerify(@, None, i)]
           /\ UNCHANGED <<claim, requests>>
  <2>1. b \in bindings /\ b \in Binding /\ b.action \in Actions
    BY <1>2, <1>6 DEF Bound, Holding, Publishing
  <2>2. CASE transition[b] # None
    <3>1. transition' = transition
      BY <1>6, <2>1, <2>2 DEF CreateOrVerify, TypeOK
    <3> QED BY <1>3, <1>6, <3>1
  <2>3. CASE transition[b] = None
    <3>1. requests[b.action] = 1
      BY <1>1, <1>6 DEF Knows, Holding, Publishing
    <3>2. b.action \notin SealedActions
      <4> SUFFICES ASSUME NEW c \in Binding, c.action = b.action, transition[c] # None
                   PROVE  FALSE
        BY DEF SealedActions
      <4>1. c \in bindings
        BY DEF StoreInv, ClaimsArePublished, OutcomesAreClaimed
      <4>2. c = b
        BY <2>1, <4>1 DEF StoreInv, OneLineage
      <4> QED BY <2>3, <4>2
    <3>3. transition'[b] = i /\ \A c \in Binding \ {b} : transition'[c] = transition[c]
      BY <1>6, <2>1, <2>3 DEF CreateOrVerify, TypeOK
    <3>4. SealedActions' = SealedActions \cup {b.action}
      BY <2>1, <3>3, NothingIsNone DEF SealedActions
    <3>5. ClaimedActions' = ClaimedActions
      BY <1>6 DEF ClaimedActions
    <3>6. PICK a \in Ledger!Actions : a = b.action
      BY <2>1 DEF Ledger!Actions, Actions
    <3>7. Ledger!SealOutcome(a)
      BY <1>6, <3>1, <3>2, <3>4, <3>5, <3>6 DEF Ledger!SealOutcome, ClaimedActions, SealedActions
    <3> QED BY <3>7 DEF Ledger!LedgerNext
  <2> QED BY <2>2, <2>3
<1> QED
  BY <1>3, <1>4, <1>5, <1>6, StepEffects

\* Overlapping and dying executions, with lost answers, do to the campaign
\* what the ledger of QualityPilotLedger allows, for every campaign.
THEOREM LedgerRefined == Spec => ImplementsLedger
<1>1. Init => Ledger!LedgerInit
  BY DEF Init, InitFrom, Ledger!LedgerInit, Ledger!Actions, Actions
<1>2. IInv /\ [Next]_vars => [Ledger!LedgerNext]_(Ledger!ledgerVars)
  <2> SUFFICES ASSUME IInv, [Next]_vars PROVE [Ledger!LedgerNext]_(Ledger!ledgerVars)
    OBVIOUS
  <2>1. CASE Tick \/ UNCHANGED vars
    <3>1. UNCHANGED <<claim, transition, requests>>
      BY <2>1 DEF Tick, vars, store
    <3> QED BY <3>1 DEF Ledger!ledgerVars
  <2>2. ASSUME NEW i \in Invocations, StepOf(i)
        PROVE  [Ledger!LedgerNext]_(Ledger!ledgerVars)
    BY <2>2, StepRefines DEF Ledger!ledgerVars, ClaimedActions, SealedActions
  <2> QED BY <2>1, <2>2 DEF Next, StepOf
<1> QED BY <1>1, <1>2, Invariance, PTL DEF Spec, ImplementsLedger, Ledger!LedgerSpec
=============================================================================
