------------------------- MODULE QualityPilotWindow -------------------------
(***************************************************************************)
(* The quality-pilot invocation protocol: prepare-genesis and run-window   *)
(* of quality_pilot_job.py, QualityPilotWindowService and the services it  *)
(* calls, over the object store.                                           *)
(*                                                                         *)
(* A campaign is one canonical list of capture actions, grouped in         *)
(* windows.  Every job execution (an element of Invocations) works on one  *)
(* window: it walks the sealed actions of the window and, at the first     *)
(* action without a completion receipt, claims it, asks the provider once, *)
(* and publishes the outcome, the successor and the receipt, one object at *)
(* a time.  Executions overlap (scheduler firings, manual runs), die at    *)
(* any point, and may lose the answer to a write that took effect.  All    *)
(* objects are create-once.                                                *)
(*                                                                         *)
(* Content identities are modelled by what they distinguish: an outcome is *)
(* named by the invocation that collected it, and an action binding by its *)
(* place in the campaign and the outcome it continues.                     *)
(***************************************************************************)
EXTENDS Naturals

CONSTANTS
  Invocations,     \* the job executions, each of them run at most once
  Digests,         \* code/environment identities of the deployed container
  NumActions,      \* the number of capture actions of the whole campaign
  NumWindows,      \* the number of session windows of the whole campaign
  WindowOf,        \* the window of every action
  CatalogWindows,  \* the windows that bootstrap a session (CATALOG_PREOPEN)
  Opens, Closes,   \* the opening and closing time of every window
  MaxTime,         \* bound on the clock
  Ceiling,         \* MAXIMUM_ACTIONS_PER_INVOCATION_CEILING
  None             \* an object that is not in the store

Actions == 1 .. NumActions
Windows == 1 .. NumWindows

ASSUME CampaignAssumption ==
  /\ NumActions \in Nat \ {0}
  /\ NumWindows \in Nat \ {0}
  /\ WindowOf \in [Actions -> Windows]
  /\ WindowOf[1] = 1
  /\ WindowOf[NumActions] = NumWindows
  /\ \A a \in 1 .. NumActions - 1 : WindowOf[a + 1] \in {WindowOf[a], WindowOf[a] + 1}

ASSUME ScheduleAssumption ==
  /\ CatalogWindows \subseteq Windows
  /\ 1 \in CatalogWindows
  /\ \A a \in 1 .. NumActions - 1 :
       WindowOf[a] \in CatalogWindows => WindowOf[a + 1] # WindowOf[a]
  /\ Opens \in [Windows -> Nat]
  /\ Closes \in [Windows -> Nat]
  /\ \A w \in Windows : Opens[w] < Closes[w]
  /\ \A w \in 1 .. NumWindows - 1 : Closes[w] < Opens[w + 1]
  /\ MaxTime \in Nat
  /\ Ceiling \in Nat \ {0}

-----------------------------------------------------------------------------
(* The objects of the store.                                               *)

\* QualityPilotActionBinding: the action and the predecessor outcome its
\* pins name.
Binding == [action : Actions, after : Invocations \cup {None}]

ASSUME NoneAssumption == None \notin Invocations /\ None \notin Binding

Claim == [by : Invocations, digest : Digests]

Artifact == [kind : {"observation", "plan", "snapshot"}, binding : Binding, by : Invocations]

Receipt == [outcome : Invocations, successor : Binding \cup {None}, crosses : BOOLEAN]

NoClaim == [by |-> None, digest |-> None]
NoReceipt == [outcome |-> None, successor |-> None, crosses |-> FALSE]

Genesis == [action |-> 1, after |-> None]

\* Mutant of Successor: the last action is missed by one.
SuccessorPastTheEnd(b, i) ==
  IF b.action > NumActions THEN None ELSE [action |-> b.action + 1, after |-> i]

\* The binding that continues b when the outcome of b was collected by i.
Successor(b, i) ==
  IF b.action = NumActions THEN None ELSE [action |-> b.action + 1, after |-> i]

\* Whether the successor of b belongs to another window.
Crosses(b) == b.action < NumActions /\ WindowOf[b.action + 1] # WindowOf[b.action]

IsCatalog(b) == WindowOf[b.action] \in CatalogWindows

\* A create-once write: the object that is stored afterwards.  The write
\* succeeds when that is the object the writer brought.
CreateOrVerify(stored, absent, value) == IF stored = absent THEN value ELSE stored

-----------------------------------------------------------------------------
VARIABLES
  now,         \* the clock
  bindings,    \* published action bindings
  entry,       \* window -> its entry: the binding of its first action
  claim,       \* binding -> its claim
  artifacts,   \* published observations, plans and completeness snapshots
  transition,  \* binding -> the outcome sealed by its ledger transition
  receipt,     \* binding -> its completion receipt
  requests,    \* action -> number of provider requests made for it
  pc,          \* invocation -> what it does next
  job,         \* invocation -> its command line and environment
  cur,         \* invocation -> the binding it works on
  processed,   \* invocation -> actions_processed
  claimedAt    \* invocation -> invocation_at of its last claim

store == <<bindings, entry, claim, artifacts, transition, receipt, requests>>
locals == <<pc, job, cur, processed, claimedAt>>
vars == <<now, store, locals>>

Publishing == {"observation", "plan", "snapshot", "transition", "successor", "nextEntry", "seal"}
Running == {"genesisBinding", "genesisEntry", "entry", "head", "claim", "claimed", "requesting"} \cup Publishing
Ended == {"failed", "indeterminate", "partial", "complete", "prepared"}

Job == [window : Windows, maximum : 1 .. Ceiling, digest : Digests]

TypeOK ==
  /\ now \in 0 .. MaxTime
  /\ bindings \subseteq Binding
  /\ entry \in [Windows -> Binding \cup {None}]
  /\ claim \in [Binding -> Claim \cup {NoClaim}]
  /\ artifacts \subseteq Artifact
  /\ transition \in [Binding -> Invocations \cup {None}]
  /\ receipt \in [Binding -> Receipt \cup {NoReceipt}]
  /\ requests \in [Actions -> Nat]
  /\ pc \in [Invocations -> {"idle"} \cup Running \cup Ended]
  /\ job \in [Invocations -> Job \cup {None}]
  /\ cur \in [Invocations -> Binding \cup {None}]
  /\ processed \in [Invocations -> 0 .. Ceiling]
  /\ claimedAt \in [Invocations -> 0 .. MaxTime]

\* No execution has run, except perhaps prepare-genesis, which left the
\* published bindings and the first window entry.
InitFrom(published, firstEntry) ==
  /\ now = 0
  /\ bindings = published
  /\ entry = [w \in Windows |-> IF w = 1 THEN firstEntry ELSE None]
  /\ claim = [b \in Binding |-> NoClaim]
  /\ artifacts = {}
  /\ transition = [b \in Binding |-> None]
  /\ receipt = [b \in Binding |-> NoReceipt]
  /\ requests = [a \in Actions |-> 0]
  /\ pc = [i \in Invocations |-> "idle"]
  /\ job = [i \in Invocations |-> None]
  /\ cur = [i \in Invocations |-> None]
  /\ processed = [i \in Invocations |-> 0]
  /\ claimedAt = [i \in Invocations |-> 0]

Init == InitFrom({}, None)

Goto(i, label) == pc' = [pc EXCEPT ![i] = label]

\* A write whose effect is in the store: the execution goes on, or it ends
\* because the answer was lost, was rejected, or the process died.
Written(i, label) == \E next \in {label, "failed"} : Goto(i, next)

\* The end of a create-once write: the execution goes on only when the store
\* holds what it brought.
WrittenIf(i, ok, label) == \E next \in (IF ok THEN {label, "failed"} ELSE {"failed"}) : Goto(i, next)

-----------------------------------------------------------------------------
(* The commands.                                                           *)

\* prepare-genesis: publish the binding of the first action, then the entry
\* of the first window.
PrepareGenesis(i) ==
  /\ pc[i] = "idle"
  /\ Goto(i, "genesisBinding")
  /\ UNCHANGED <<now, store, job, cur, processed, claimedAt>>

PublishGenesisBinding(i) ==
  /\ pc[i] = "genesisBinding"
  /\ bindings' = bindings \cup {Genesis}
  /\ Written(i, "genesisEntry")
  /\ UNCHANGED <<now, entry, claim, artifacts, transition, receipt, requests,
                 job, cur, processed, claimedAt>>

PublishGenesisEntry(i) ==
  /\ pc[i] = "genesisEntry"
  /\ entry' = [entry EXCEPT ![1] = CreateOrVerify(@, None, Genesis)]
  /\ WrittenIf(i, entry'[1] = Genesis, "prepared")
  /\ UNCHANGED <<now, bindings, claim, artifacts, transition, receipt, requests,
                 job, cur, processed, claimedAt>>

\* run-window, with its window, its maximum number of actions and the
\* identity of the container it runs in.
RunWindow(i) ==
  /\ pc[i] = "idle"
  /\ \E j \in Job : job' = [job EXCEPT ![i] = j]
  /\ Goto(i, "entry")
  /\ UNCHANGED <<now, store, cur, processed, claimedAt>>

-----------------------------------------------------------------------------
(* The loop of QualityPilotWindowService.run.                              *)

LoadEntry(i) ==
  /\ pc[i] = "entry"
  /\ LET b == entry[job[i].window]
     IN  IF b # None /\ b \in bindings
         THEN cur' = [cur EXCEPT ![i] = b] /\ Goto(i, "head")
         ELSE cur' = cur /\ Goto(i, "failed")
  /\ UNCHANGED <<now, store, job, processed, claimedAt>>

\* The claim, the outcome and the successor a receipt names are all there
\* and are the ones this execution derives itself.
VerifyReplay(b, digest) ==
  LET r == receipt[b]
      next == Successor(b, r.outcome)
  IN  /\ claim[b] = [by |-> r.outcome, digest |-> digest]
      /\ transition[b] = r.outcome
      /\ [kind |-> "snapshot", binding |-> b, by |-> r.outcome] \in artifacts
      /\ r.successor = next
      /\ next # None => next \in bindings
      /\ r.crosses = Crosses(b)
      /\ r.crosses => entry[WindowOf[b.action] + 1] = next

\* The outcome the binding continues is the one the ledger holds, with the
\* snapshot it completed.
PreClaimLineage(b) ==
  \/ b = Genesis
  \/ \E p \in bindings :
       /\ p.action + 1 = b.action
       /\ b.after # None
       /\ transition[p] = b.after
       /\ [kind |-> "snapshot", binding |-> p, by |-> b.after] \in artifacts

AtHead(i) ==
  /\ pc[i] = "head"
  /\ processed[i] < job[i].maximum

Admissible(i) ==
  /\ WindowOf[cur[i].action] = job[i].window
  /\ IF receipt[cur[i]] # NoReceipt
     THEN VerifyReplay(cur[i], job[i].digest)
     ELSE PreClaimLineage(cur[i])

\* The next action already has a receipt: verify it and walk on.
Replay(i) ==
  /\ AtHead(i)
  /\ Admissible(i)
  /\ receipt[cur[i]] # NoReceipt
  /\ processed' = [processed EXCEPT ![i] = @ + 1]
  /\ IF receipt[cur[i]].successor = None \/ receipt[cur[i]].crosses
     THEN cur' = cur /\ Goto(i, "complete")
     ELSE cur' = [cur EXCEPT ![i] = receipt[cur[i]].successor] /\ Goto(i, "head")
  /\ UNCHANGED <<now, store, job, claimedAt>>

Reject(i) ==
  /\ AtHead(i)
  /\ ~Admissible(i)
  /\ Goto(i, "failed")
  /\ UNCHANGED <<now, store, job, cur, processed, claimedAt>>

\* No receipt, and the lineage is verified: go for the claim.
Fresh(i) ==
  /\ AtHead(i)
  /\ Admissible(i)
  /\ receipt[cur[i]] = NoReceipt
  /\ Goto(i, "claim")
  /\ UNCHANGED <<now, store, job, cur, processed, claimedAt>>

\* The maximum of the command line is reached inside the window.
StopPartial(i) ==
  /\ pc[i] = "head"
  /\ processed[i] = job[i].maximum
  /\ Goto(i, "partial")
  /\ UNCHANGED <<now, store, job, cur, processed, claimedAt>>

-----------------------------------------------------------------------------
(* The claim and the single provider request.                              *)

\* The claim is created only where there is none, and its creation is never
\* treated as idempotent.
PublishClaim(i) ==
  /\ pc[i] = "claim"
  /\ claim[cur[i]] = NoClaim
  /\ claim' = [claim EXCEPT ![cur[i]] = [by |-> i, digest |-> job[i].digest]]
  /\ claimedAt' = [claimedAt EXCEPT ![i] = now]
  /\ Written(i, "claimed")
  /\ UNCHANGED <<now, bindings, entry, artifacts, transition, receipt, requests,
                 job, cur, processed>>

\* Mutant of ClaimConflict: an existing claim is taken for the own one.
ClaimConflictIgnored(i) ==
  /\ pc[i] = "claim"
  /\ claim[cur[i]] # NoClaim
  /\ Goto(i, "claimed")
  /\ claimedAt' = [claimedAt EXCEPT ![i] = now]
  /\ UNCHANGED <<now, store, job, cur, processed>>

\* Mutant of ClaimConflict: the action is taken for done and its successor
\* is published.
ClaimConflictResumed(i) ==
  /\ pc[i] = "claim"
  /\ claim[cur[i]] # NoClaim
  /\ Goto(i, "successor")
  /\ UNCHANGED <<now, store, job, cur, processed, claimedAt>>

\* Mutant of ClaimConflict: the execution polls for the receipt.
ClaimConflictPolled(i) ==
  /\ pc[i] = "claim"
  /\ claim[cur[i]] # NoClaim
  /\ Goto(i, "head")
  /\ UNCHANGED <<now, store, job, cur, processed, claimedAt>>

ClaimConflict(i) ==
  /\ pc[i] = "claim"
  /\ claim[cur[i]] # NoClaim
  /\ Goto(i, "indeterminate")
  /\ UNCHANGED <<now, store, job, cur, processed, claimedAt>>

Inside(t, w) == Opens[w] <= t /\ t <= Closes[w]

\* A resumable capture refuses a claim made outside its window (a catalog
\* capture does not look at it), and the collector a start outside it.
MayRequest(i) ==
  /\ IsCatalog(cur[i]) \/ Inside(claimedAt[i], job[i].window)
  /\ Inside(now, job[i].window)

GateCloses(i) ==
  /\ pc[i] = "claimed"
  /\ ~MayRequest(i)
  /\ Goto(i, "failed")
  /\ UNCHANGED <<now, store, job, cur, processed, claimedAt>>

\* The one provider request of the action.
StartRequest(i) ==
  /\ pc[i] = "claimed"
  /\ MayRequest(i)
  /\ requests' = [requests EXCEPT ![cur[i].action] = @ + 1]
  /\ Goto(i, "requesting")
  /\ UNCHANGED <<now, bindings, entry, claim, artifacts, transition, receipt,
                 job, cur, processed, claimedAt>>

\* An answer that comes after the window closed is thrown away.
EndRequest(i) ==
  /\ pc[i] = "requesting"
  /\ WrittenIf(i, Inside(now, job[i].window), "observation")
  /\ UNCHANGED <<now, store, job, cur, processed, claimedAt>>

-----------------------------------------------------------------------------
(* The outcome, then the successor, then the receipt.                      *)

Publish(i, kind) ==
  /\ artifacts' = artifacts \cup {[kind |-> kind, binding |-> cur[i], by |-> i]}
  /\ UNCHANGED <<now, bindings, entry, claim, transition, receipt, requests,
                 job, cur, processed, claimedAt>>

\* A catalog capture that is not SUCCESS ends here: its observation stays
\* and its session is never planned.
PublishObservation(i) ==
  /\ pc[i] = "observation"
  /\ Publish(i, "observation")
  /\ Written(i, IF IsCatalog(cur[i]) THEN "plan" ELSE "snapshot")

\* Mutant of PublishPlan: the transition is sealed before the snapshot.
PublishPlanThenTransition(i) ==
  /\ pc[i] = "plan"
  /\ Publish(i, "plan")
  /\ Written(i, "transition")

PublishPlan(i) ==
  /\ pc[i] = "plan"
  /\ Publish(i, "plan")
  /\ Written(i, "snapshot")

PublishSnapshot(i) ==
  /\ pc[i] = "snapshot"
  /\ Publish(i, "snapshot")
  /\ Written(i, "transition")

SealTransition(i) ==
  /\ pc[i] = "transition"
  /\ transition' = [transition EXCEPT ![cur[i]] = CreateOrVerify(@, None, i)]
  /\ WrittenIf(i, transition'[cur[i]] = i, "successor")
  /\ UNCHANGED <<now, bindings, entry, claim, artifacts, receipt, requests,
                 job, cur, processed, claimedAt>>

\* Mutant of PublishSuccessor: the entry of the next window is forgotten.
PublishSuccessorWithoutEntry(i) ==
  /\ pc[i] = "successor"
  /\ bindings' = bindings \cup ({Successor(cur[i], i)} \ {None})
  /\ Written(i, "seal")
  /\ UNCHANGED <<now, entry, claim, artifacts, transition, receipt, requests,
                 job, cur, processed, claimedAt>>

PublishSuccessor(i) ==
  /\ pc[i] = "successor"
  /\ LET next == Successor(cur[i], i)
     IN  IF next = None
         THEN bindings' = bindings /\ Goto(i, "seal")
         ELSE /\ bindings' = bindings \cup {next}
              /\ Written(i, IF Crosses(cur[i]) THEN "nextEntry" ELSE "seal")
  /\ UNCHANGED <<now, entry, claim, artifacts, transition, receipt, requests,
                 job, cur, processed, claimedAt>>

PublishNextEntry(i) ==
  /\ pc[i] = "nextEntry"
  /\ LET w == WindowOf[cur[i].action] + 1
         next == Successor(cur[i], i)
     IN  /\ entry' = [entry EXCEPT ![w] = CreateOrVerify(@, None, next)]
         /\ WrittenIf(i, entry'[w] = next, "seal")
  /\ UNCHANGED <<now, bindings, claim, artifacts, transition, receipt, requests,
                 job, cur, processed, claimedAt>>

\* The receipt comes last.  An execution that sealed the last action of its
\* window is complete; otherwise it goes on with the successor.
Seal(i) ==
  LET next == Successor(cur[i], i)
      r == [outcome |-> i, successor |-> next, crosses |-> Crosses(cur[i])]
      crossed == next = None \/ Crosses(cur[i])
  IN  /\ pc[i] = "seal"
      /\ receipt' = [receipt EXCEPT ![cur[i]] = CreateOrVerify(@, NoReceipt, r)]
      /\ processed' = [processed EXCEPT ![i] = @ + 1]
      /\ cur' = IF crossed THEN cur ELSE [cur EXCEPT ![i] = next]
      /\ WrittenIf(i, receipt'[cur[i]] = r, IF crossed THEN "complete" ELSE "head")
      /\ UNCHANGED <<now, bindings, entry, claim, artifacts, transition, requests,
                     job, claimedAt>>

-----------------------------------------------------------------------------
(* The environment.                                                        *)

\* A read or a write fails without effect, or the process is killed.
Abort(i) ==
  /\ pc[i] \in Running
  /\ Goto(i, "failed")
  /\ UNCHANGED <<now, store, job, cur, processed, claimedAt>>

Tick ==
  /\ now < MaxTime
  /\ now' = now + 1
  /\ UNCHANGED <<store, locals>>

-----------------------------------------------------------------------------
Work(i) ==
  \/ PublishGenesisBinding(i)
  \/ PublishGenesisEntry(i)
  \/ LoadEntry(i)
  \/ Replay(i)
  \/ Reject(i)
  \/ Fresh(i)
  \/ StopPartial(i)
  \/ PublishClaim(i)
  \/ ClaimConflict(i)
  \/ GateCloses(i)
  \/ StartRequest(i)
  \/ EndRequest(i)
  \/ PublishObservation(i)
  \/ PublishPlan(i)
  \/ PublishSnapshot(i)
  \/ SealTransition(i)
  \/ PublishSuccessor(i)
  \/ PublishNextEntry(i)
  \/ Seal(i)

Next ==
  \/ Tick
  \/ \E i \in Invocations : PrepareGenesis(i) \/ RunWindow(i) \/ Work(i) \/ Abort(i)

Spec == Init /\ [][Next]_vars

\* A started execution is driven to its end; that it starts at all is up to
\* the scheduler and the operator.
FairSpec == Spec /\ \A i \in Invocations : WF_vars(Work(i))

-----------------------------------------------------------------------------
(* Safety.                                                                 *)

\* The provider is asked at most once for every action of the campaign, over
\* all executions, crashes and lost answers (the claim of window_service).
AtMostOneRequest == \A a \in Actions : requests[a] <= 1

\* The store never holds two continuations of the campaign: one binding per
\* action, hence one outcome per action that anything builds on.
OneLineage == \A b, c \in bindings : b.action = c.action => b = c

\* Whatever point its execution died at, a receipt in the store replays: its
\* claim, outcome, successor and next window entry are all there and are the
\* ones _verify_replay derives.
ReceiptsReplay == \A b \in Binding : receipt[b] # NoReceipt => VerifyReplay(b, claim[b].digest)

\* Every sealed outcome has its observation, its completeness snapshot and,
\* for a catalog capture, the session plan it publishes.
OutcomesHaveEvidence ==
  \A b \in Binding : transition[b] # None =>
    \A kind \in {"observation", "snapshot"} \cup (IF IsCatalog(b) THEN {"plan"} ELSE {}) :
      [kind |-> kind, binding |-> b, by |-> transition[b]] \in artifacts

\* The execution that claimed b is over.
Orphaned(b) == claim[b] # NoClaim /\ pc[claim[b].by] \in Ended

\* A crashed claim never triggers a recollection: when the claimant of an
\* action is over and left no outcome, no execution ever asks the provider
\* for it again, or seals it.
OrphanIsFinal ==
  [][\A b \in Binding : Orphaned(b) /\ transition[b] = None =>
       transition'[b] = None /\ requests'[b.action] = requests[b.action]]_vars

-----------------------------------------------------------------------------
(* The protocol implements the campaign ledger.                            *)

Ledger == INSTANCE QualityPilotLedger WITH
  claimed <- {a \in Actions : \E b \in Binding : b.action = a /\ claim[b] # NoClaim},
  sealed <- {a \in Actions : \E b \in Binding : b.action = a /\ transition[b] # None}

\* Overlapping, dying executions take up the actions of the campaign as the
\* ledger does: one at a time, in order, each asked for once.
ImplementsLedger == Ledger!LedgerSpec

-----------------------------------------------------------------------------
(* Liveness.                                                               *)

\* Every execution that started ends: the loop of run never waits for
\* another execution and never retries.
ExecutionsEnd == \A i \in Invocations : pc[i] \in Running ~> pc[i] \in Ended
=============================================================================
