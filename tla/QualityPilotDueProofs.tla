----------------------- MODULE QualityPilotDueProofs -----------------------
(***************************************************************************)
(* Scheduler firings beside manual runs keep what the invocation protocol  *)
(* promises, and delegate a window only when the campaign reached it, for  *)
(* every campaign, schedule and number of executions.                      *)
(***************************************************************************)
EXTENDS QualityPilotDue, QualityPilotWindowProofs, FiniteSums

\* Every action before that of a published binding has its outcome.
Reached ==
  \A b \in bindings : \A a \in Actions : a < b.action =>
    \E c \in bindings : c.action = a /\ transition[c] # None

\* The entry of a window is a published binding of one of its actions.
EntriesLead ==
  \A w \in Windows : entry[w] # None => entry[w] \in bindings /\ WindowOf[entry[w].action] = w

\* What else the program counter and the posture of an execution say.
Follows(i) ==
  /\ pc[i] \in Bound => WindowOf[cur[i].action] = job[i].window
  /\ pc[i] = "nextEntry" => Crosses(cur[i])
  /\ pc[i] = "genesisEntry" => Genesis \in bindings
  /\ pc[i] \in {"genesisBinding", "genesisEntry"} => posture[i] = None
  /\ posture[i] = "PROBING" => pc[i] = "idle"
  /\ posture[i] = "PILOT_COMPLETE" => entry[NumWindows] # None

DueInv == IInv /\ DueTypeOK /\ Reached /\ EntriesLead /\ \A i \in Invocations : Follows(i)

-----------------------------------------------------------------------------
(* The store.                                                              *)

\* The last window and the first one are windows.
LEMMA EndsAreWindows == 1 \in Windows /\ NumWindows \in Windows /\ NumWindows \in Nat
BY CampaignAssumption DEF Windows

\* The canonical list of actions is in the order of the windows.
LEMMA ActionsInOrder ==
  ASSUME NEW a \in Actions, NEW b \in Actions, a <= b
  PROVE  WindowOf[a] <= WindowOf[b]
<1> DEFINE G == {n \in Nat : a + n \in Actions => WindowOf[a] <= WindowOf[a + n]}
<1>1. /\ NumActions \in Nat /\ Actions = 1 .. NumActions
      /\ \A c \in Actions : WindowOf[c] \in Nat
      /\ \A c \in 1 .. NumActions - 1 : WindowOf[c + 1] \in {WindowOf[c], WindowOf[c] + 1}
  BY CampaignAssumption DEF Actions, Windows
<1>2. 0 \in G
  <2>1. a + 0 = a /\ WindowOf[a] <= WindowOf[a]
    BY <1>1
  <2> QED BY <2>1
<1>3. ASSUME NEW n \in G PROVE n + 1 \in G
  <2>1. ASSUME a + (n + 1) \in Actions PROVE WindowOf[a] <= WindowOf[a + (n + 1)]
    <3>1. /\ a + n \in Actions /\ a + n \in 1 .. NumActions - 1
          /\ (a + n) + 1 = a + (n + 1)
      BY <1>1, <2>1
    <3>2. /\ WindowOf[a] <= WindowOf[a + n] /\ WindowOf[a] \in Nat /\ WindowOf[a + n] \in Nat
          /\ WindowOf[a + (n + 1)] \in {WindowOf[a + n], WindowOf[a + n] + 1}
      BY <1>1, <3>1
    <3> QED BY <3>2
  <2> QED BY <2>1
<1>4. G = Nat
  <2> HIDE DEF G
  <2> QED BY <1>2, <1>3, AllNaturals DEF G
<1>5. b - a \in Nat /\ a + (b - a) = b
  BY <1>1
<1> QED BY <1>4, <1>5

\* An entry stays.
LEMMA EntriesStay ==
  ASSUME TypeOK, NEW i \in Invocations, StepOf(i), NEW w \in Windows, entry[w] # None
  PROVE  entry'[w] # None
BY EntryEffects DEF TypeOK, CreateOrVerify

\* The binding an execution works on.
LEMMA WorksOn ==
  ASSUME IInv, NEW i \in Invocations, pc[i] \in Bound
  PROVE  /\ cur[i] \in bindings /\ cur[i] \in Binding
         /\ cur[i].action \in Actions /\ cur[i].action \in Nat
         /\ job[i] \in Job
BY DEF IInv, LocalInv, Knows, TypeOK, Binding, Actions

\* A new binding continues an outcome that is sealed.
LEMMA ReachedStep ==
  ASSUME IInv, Reached, NEW i \in Invocations, StepOf(i)
  PROVE  Reached'
<1> SUFFICES ASSUME NEW b \in bindings', NEW a \in Actions, a < b.action
             PROVE  \E c \in bindings' : c.action = a /\ transition'[c] # None
  BY DEF Reached
<1>1. TypeOK /\ bindings \subseteq Binding /\ bindings \subseteq bindings'
  BY StoreGrows DEF IInv, TypeOK
<1>2. ASSUME NEW c \in bindings, c.action = a, transition[c] # None
      PROVE  \E d \in bindings' : d.action = a /\ transition'[d] # None
  BY <1>1, <1>2, StoreGrows
<1>3. CASE b \in bindings
  BY <1>2, <1>3 DEF Reached
<1>4. CASE b = Genesis
  BY <1>4 DEF Genesis, Actions
<1>5. CASE pc[i] = "successor" /\ Successor(cur[i], i) # None /\ b = Successor(cur[i], i)
  <2>1. /\ cur[i] \in bindings /\ cur[i] \in Binding
        /\ cur[i].action \in Actions /\ cur[i].action \in Nat
    BY <1>5, WorksOn DEF Bound, Holding, Publishing
  <2>2. b.action = cur[i].action + 1
    BY <1>5, <2>1, SuccessorType
  <2>3. transition[cur[i]] # None
    BY <1>5, NothingIsNone DEF IInv, LocalInv, Knows
  <2>4. CASE a = cur[i].action
    BY <1>2, <2>1, <2>3, <2>4
  <2>5. CASE a # cur[i].action
    <3>1. a < cur[i].action
      BY <2>1, <2>2, <2>5 DEF Actions
    <3> QED BY <1>2, <2>1, <3>1 DEF Reached
  <2> QED BY <2>4, <2>5
<1>6. \/ b \in bindings
      \/ b = Genesis
      \/ pc[i] = "successor" /\ Successor(cur[i], i) # None /\ b = Successor(cur[i], i)
  BY <1>1, StepEffects
<1> QED BY <1>3, <1>4, <1>5, <1>6

\* A new entry is that of the next window.
LEMMA EntriesStep ==
  ASSUME IInv, EntriesLead, NEW i \in Invocations, Follows(i), StepOf(i)
  PROVE  EntriesLead'
<1> SUFFICES ASSUME NEW w \in Windows, entry'[w] # None
             PROVE  entry'[w] \in bindings' /\ WindowOf[entry'[w].action] = w
  BY DEF EntriesLead
<1>1. TypeOK /\ bindings \subseteq bindings'
  BY StoreGrows DEF IInv
<1>2. CASE entry'[w] = entry[w]
  BY <1>1, <1>2 DEF EntriesLead
<1>3. CASE /\ pc[i] = "genesisEntry"
           /\ entry' = [entry EXCEPT ![1] = CreateOrVerify(@, None, Genesis)]
  <2>1. Genesis \in bindings /\ WindowOf[Genesis.action] = 1
    BY <1>3, CampaignAssumption DEF Follows, Genesis
  <2>2. entry'[w] = entry[w] \/ (w = 1 /\ entry'[w] = Genesis)
    BY <1>1, <1>3 DEF TypeOK, CreateOrVerify
  <2> QED BY <1>1, <1>2, <2>1, <2>2
<1>4. CASE /\ pc[i] = "nextEntry"
           /\ entry' = [entry EXCEPT ![WindowOf[cur[i].action] + 1] =
                          CreateOrVerify(@, None, Successor(cur[i], i))]
  <2>1. /\ cur[i] \in bindings /\ cur[i] \in Binding
        /\ cur[i].action \in Actions /\ cur[i].action \in Nat
    BY <1>4, WorksOn DEF Bound, Holding, Publishing
  <2>2. cur[i].action < NumActions /\ WindowOf[cur[i].action + 1] # WindowOf[cur[i].action]
    BY <1>4 DEF Follows, Crosses
  <2>3. WindowOf[cur[i].action + 1] = WindowOf[cur[i].action] + 1
    <3>1. cur[i].action \in 1 .. NumActions - 1
      BY <2>1, <2>2, CampaignAssumption DEF Actions
    <3> QED BY <2>2, <3>1, CampaignAssumption
  <2>4. /\ Successor(cur[i], i) # None
        /\ Successor(cur[i], i).action = cur[i].action + 1
    BY <2>1, <2>2, SuccessorType
  <2>5. Successor(cur[i], i) \in bindings
    BY <1>4, <2>4 DEF IInv, LocalInv, Knows
  <2>6. entry'[w] = entry[w] \/ (w = WindowOf[cur[i].action] + 1 /\ entry'[w] = Successor(cur[i], i))
    BY <1>1, <1>4 DEF TypeOK, CreateOrVerify
  <2> QED BY <1>1, <1>2, <2>3, <2>4, <2>5, <2>6
<1> QED BY <1>2, <1>3, <1>4, EntryEffects

-----------------------------------------------------------------------------
(* The executions.                                                         *)

\* An execution changes its binding where it loads the entry, replays a
\* receipt or has sealed one, and its job where it starts.
LEMMA LocalEffects ==
  ASSUME TypeOK, NEW i \in Invocations, StepOf(i)
  PROVE  \/ LoadEntry(i) \/ Replay(i) \/ Seal(i)
         \/ pc'[i] = "entry"
         \/ /\ cur'[i] = cur[i] /\ job'[i] = job[i]
            /\ pc'[i] \in Bound => pc[i] \in Bound
<1> USE DEF TypeOK
<1>1. CASE PrepareGenesis(i) \/ PublishGenesisBinding(i) \/ PublishGenesisEntry(i)
  BY <1>1 DEF PrepareGenesis, PublishGenesisBinding, PublishGenesisEntry, Written, WrittenIf,
              Goto, Bound, Holding, Publishing
<1>2. CASE RunWindow(i)
  BY <1>2 DEF RunWindow, Goto
<1>3. CASE \/ Reject(i) \/ Fresh(i) \/ StopPartial(i) \/ PublishClaim(i) \/ ClaimConflict(i)
           \/ GateCloses(i) \/ StartRequest(i) \/ EndRequest(i) \/ PublishObservation(i)
           \/ PublishPlan(i) \/ PublishSnapshot(i) \/ SealTransition(i) \/ PublishSuccessor(i)
           \/ PublishNextEntry(i)
  <2>1. pc[i] \in Bound
    BY <1>3 DEF Reject, Fresh, StopPartial, PublishClaim, ClaimConflict, GateCloses,
                StartRequest, EndRequest, PublishObservation, PublishPlan, PublishSnapshot,
                SealTransition, PublishSuccessor, PublishNextEntry, AtHead, Bound, Holding,
                Publishing
  <2>2. cur'[i] = cur[i] /\ job'[i] = job[i]
    BY <1>3 DEF Reject, Fresh, StopPartial, PublishClaim, ClaimConflict, GateCloses,
                StartRequest, EndRequest, PublishObservation, PublishPlan, PublishSnapshot,
                SealTransition, PublishSuccessor, PublishNextEntry, Publish
  <2> QED BY <2>1, <2>2
<1>4. CASE Abort(i)
  BY <1>4 DEF Abort, Goto, Bound, Holding, Publishing
<1> QED BY <1>1, <1>2, <1>3, <1>4 DEF StepOf, Work

\* An execution stays in its window.
LEMMA WindowStep ==
  ASSUME IInv, EntriesLead, NEW i \in Invocations, Follows(i), StepOf(i), pc'[i] \in Bound
  PROVE  WindowOf[cur'[i].action] = job'[i].window
<1>1. TypeOK
  BY DEF IInv
<1>2. CASE LoadEntry(i)
  <2>1. pc[i] = "entry" /\ job'[i] = job[i] /\ job[i].window \in Windows
    BY <1>2 DEF LoadEntry, IInv, LocalInv, Knows, Job
  <2>2. entry[job[i].window] # None /\ cur'[i] = entry[job[i].window]
    BY <1>1, <1>2 DEF LoadEntry, TypeOK, Goto, Bound, Holding, Publishing
  <2> QED BY <2>1, <2>2 DEF EntriesLead
<1>3. CASE Replay(i)
  <2>1. pc[i] = "head" /\ job'[i] = job[i]
    BY <1>3 DEF Replay, AtHead
  <2>2. /\ cur[i] \in Binding /\ cur[i].action \in Actions /\ cur[i].action \in Nat
        /\ WindowOf[cur[i].action] = job[i].window
    BY <2>1, WorksOn DEF Bound, Follows
  <2>3. /\ receipt[cur[i]].crosses = Crosses(cur[i])
        /\ receipt[cur[i]].successor = Successor(cur[i], receipt[cur[i]].outcome)
    BY <1>3 DEF Replay, Admissible, VerifyReplay
  <2>4. /\ receipt[cur[i]].successor # None /\ ~receipt[cur[i]].crosses
        /\ cur'[i] = receipt[cur[i]].successor
    BY <1>1, <1>3 DEF Replay, TypeOK, Goto, Bound, Holding, Publishing
  <2>5. /\ cur[i].action # NumActions
        /\ cur'[i].action = cur[i].action + 1
    BY <2>3, <2>4 DEF Successor
  <2>6. cur[i].action < NumActions
    BY <2>2, <2>5, CampaignAssumption DEF Actions
  <2> QED BY <2>1, <2>2, <2>3, <2>4, <2>5, <2>6 DEF Crosses
<1>4. CASE Seal(i)
  <2>1. pc[i] = "seal" /\ job'[i] = job[i]
    BY <1>4 DEF Seal
  <2>2. /\ cur[i] \in Binding /\ cur[i].action \in Actions /\ cur[i].action \in Nat
        /\ WindowOf[cur[i].action] = job[i].window
    BY <2>1, WorksOn DEF Bound, Holding, Publishing, Follows
  <2>3. /\ Successor(cur[i], i) # None /\ ~Crosses(cur[i])
        /\ cur'[i] = Successor(cur[i], i)
    BY <1>1, <1>4 DEF Seal, WrittenIf, TypeOK, Goto, Bound, Holding, Publishing
  <2>4. cur[i].action < NumActions /\ cur'[i].action = cur[i].action + 1
    BY <2>2, <2>3, SuccessorType
  <2> QED BY <2>1, <2>2, <2>3, <2>4 DEF Crosses
<1>5. CASE pc'[i] = "entry"
  BY <1>5 DEF Bound, Holding, Publishing
<1>6. CASE cur'[i] = cur[i] /\ job'[i] = job[i] /\ pc[i] \in Bound
  BY <1>6 DEF Follows
<1> QED BY <1>1, <1>2, <1>3, <1>4, <1>5, <1>6, LocalEffects

\* What a step of the protocol leaves of the execution that takes it.
LEMMA StepFollows ==
  ASSUME IInv, EntriesLead, NEW i \in Invocations, Follows(i), StepOf(i), UNCHANGED posture,
         PrepareGenesis(i) \/ RunWindow(i) => posture[i] = None
  PROVE  Follows(i)'
<1>1. TypeOK /\ TypeOK'
  BY TypesStep DEF IInv, Next, StepOf
<1>2. pc'[i] \in Bound => WindowOf[cur'[i].action] = job'[i].window
  BY WindowStep
<1>3. pc'[i] = "nextEntry" => Crosses(cur'[i])
  <2>1. pc'[i] = "nextEntry" => PublishSuccessor(i)
    BY <1>1
    DEF StepOf, PrepareGenesis, RunWindow, Work, Abort, PublishGenesisBinding,
        PublishGenesisEntry, LoadEntry, Replay, Reject, Fresh, StopPartial, PublishClaim,
        ClaimConflict, GateCloses, StartRequest, EndRequest, PublishObservation, PublishPlan,
        PublishSnapshot, SealTransition, PublishNextEntry, Seal, Written, WrittenIf, Goto, TypeOK
  <2>2. PublishSuccessor(i) /\ pc'[i] = "nextEntry" => Crosses(cur[i]) /\ cur'[i] = cur[i]
    BY <1>1 DEF PublishSuccessor, Written, Goto, TypeOK
  <2> QED BY <2>1, <2>2
<1>4. pc'[i] = "genesisEntry" => Genesis \in bindings'
  BY <1>1
  DEF StepOf, PrepareGenesis, RunWindow, Work, Abort, PublishGenesisBinding,
      PublishGenesisEntry, LoadEntry, Replay, Reject, Fresh, StopPartial, PublishClaim,
      ClaimConflict, GateCloses, StartRequest, EndRequest, PublishObservation, PublishPlan,
      PublishSnapshot, SealTransition, PublishSuccessor, PublishNextEntry, Seal, Written,
      WrittenIf, Goto, TypeOK
<1>5. pc'[i] \in {"genesisBinding", "genesisEntry"} => posture'[i] = None
  <2>1. pc'[i] \in {"genesisBinding", "genesisEntry"} =>
          PrepareGenesis(i) \/ pc[i] = "genesisBinding"
    BY <1>1
    DEF StepOf, RunWindow, Work, Abort, PublishGenesisBinding,
        PublishGenesisEntry, LoadEntry, Replay, Reject, Fresh, StopPartial, PublishClaim,
        ClaimConflict, GateCloses, StartRequest, EndRequest, PublishObservation, PublishPlan,
        PublishSnapshot, SealTransition, PublishSuccessor, PublishNextEntry, Seal, Written,
        WrittenIf, Goto, TypeOK
  <2> QED BY <2>1 DEF Follows
<1>6. posture'[i] # "PROBING"
  <2>1. CASE PrepareGenesis(i) \/ RunWindow(i)
    BY <2>1, PostureAssumption DEF Postures
  <2>2. CASE Work(i) \/ Abort(i)
    <3>1. pc[i] # "idle"
      BY <2>2 DEF Work, Abort, PublishGenesisBinding,
        PublishGenesisEntry, LoadEntry, Replay, Reject, Fresh, StopPartial, PublishClaim,
        ClaimConflict, GateCloses, StartRequest, EndRequest, PublishObservation, PublishPlan,
        PublishSnapshot, SealTransition, PublishSuccessor, PublishNextEntry, Seal, AtHead,
        Running, Publishing
    <3> QED BY <3>1 DEF Follows
  <2> QED BY <2>1, <2>2 DEF StepOf
<1>7. posture'[i] = "PILOT_COMPLETE" => entry'[NumWindows] # None
  BY <1>1, EntriesStay, EndsAreWindows DEF Follows
<1> QED BY <1>2, <1>3, <1>4, <1>5, <1>6, <1>7 DEF Follows, Crosses

\* The others are where they were, and what they rely on stays.
LEMMA OthersFollow ==
  ASSUME IInv, NEW i \in Invocations, StepOf(i), UNCHANGED posture,
         NEW j \in Invocations, j # i, Follows(j)
  PROVE  Follows(j)'
<1>1. pc'[j] = pc[j] /\ job'[j] = job[j] /\ cur'[j] = cur[j]
  BY OthersStand DEF IInv
<1>2. bindings \subseteq bindings'
  BY StoreGrows DEF IInv
<1>3. entry[NumWindows] # None => entry'[NumWindows] # None
  BY EntriesStay, EndsAreWindows DEF IInv
<1> QED BY <1>1, <1>2, <1>3 DEF Follows, Crosses

-----------------------------------------------------------------------------
(* The firings.                                                            *)

\* Nobody is delegated to, and nobody fires, at first.
LEMMA DueInitHolds == DueInit => DueInv
<1> SUFFICES ASSUME DueInit PROVE DueInv
  OBVIOUS
<1>1. IInv /\ Init /\ NoFirings
  BY InitHolds DEF DueInit
<1>2. DueTypeOK
  <2>1. 0 \in 0 .. MaxTime
    BY ScheduleAssumption
  <2> QED BY <1>1, <2>1 DEF DueTypeOK, NoFirings, IInv
<1>3. Reached /\ EntriesLead
  BY <1>1 DEF Init, InitFrom, Reached, EntriesLead
<1>4. ASSUME NEW i \in Invocations PROVE Follows(i)
  BY <1>1, PostureAssumption
  DEF Init, InitFrom, NoFirings, Follows, Bound, Holding, Publishing, Postures
<1> QED BY <1>1, <1>2, <1>3, <1>4 DEF DueInv

\* A step that leaves the store and everybody's place alone.
LEMMA StandingStill ==
  ASSUME DueInv, UNCHANGED <<store, locals, posture>>
  PROVE  Reached' /\ EntriesLead' /\ \A i \in Invocations : Follows(i)'
BY DEF DueInv, store, locals, Reached, EntriesLead, Follows, Crosses

\* A manual run, a preparation, or work on what was started or delegated.
LEMMA ProtocolStep ==
  ASSUME DueInv, NEW i \in Invocations, StepOf(i), UNCHANGED <<observed, posture>>,
         PrepareGenesis(i) \/ RunWindow(i) => posture[i] = None
  PROVE  DueInv'
<1>1. IInv'
  BY StepHolds DEF DueInv, Next, StepOf
<1>2. DueTypeOK'
  BY <1>1 DEF DueInv, DueTypeOK, IInv
<1>3. Reached' /\ EntriesLead'
  BY ReachedStep, EntriesStep DEF DueInv
<1>4. ASSUME NEW j \in Invocations PROVE Follows(j)'
  BY StepFollows, OthersFollow DEF DueInv
<1> QED BY <1>1, <1>2, <1>3, <1>4 DEF DueInv

\* A firing that only changes its posture.
LEMMA FiringStep ==
  ASSUME DueInv, NEW i \in Invocations, FireDisarmed(i) \/ Fire(i)
  PROVE  DueInv'
<1>1. UNCHANGED vars /\ pc[i] = "idle"
  BY DEF FireDisarmed, Fire
<1>2. IInv'
  BY <1>1, StepHolds DEF DueInv
<1>3. posture' \in [Invocations -> Postures \cup {None}] /\ observed' \in [Invocations -> 0 .. MaxTime]
  BY DEF FireDisarmed, Fire, DueInv, DueTypeOK, TypeOK, Postures
<1>4. Reached' /\ EntriesLead'
  BY <1>1 DEF vars, store, DueInv, Reached, EntriesLead
<1>5. ASSUME NEW j \in Invocations PROVE Follows(j)'
  <2>1. UNCHANGED <<pc, cur, job, bindings, entry>>
    BY <1>1 DEF vars, store, locals
  <2>2. j # i => posture'[j] = posture[j]
    BY DEF FireDisarmed, Fire, DueInv, DueTypeOK
  <2>3. posture'[i] \in {"DISARMED", "PROBING"}
    BY DEF FireDisarmed, Fire, DueInv, DueTypeOK
  <2>4. CASE j # i
    BY <2>1, <2>2, <2>4 DEF DueInv, Follows, Crosses
  <2>5. CASE j = i
    BY <1>1, <2>1, <2>3, <2>5 DEF Follows, Bound, Holding, Publishing
  <2> QED BY <2>4, <2>5
<1> QED BY <1>2, <1>3, <1>4, <1>5 DEF DueInv, DueTypeOK, IInv

\* The windows that a firing delegates are windows of the campaign, and the
\* pilot is complete only when its last window was found complete.
LEMMA Postured ==
  ASSUME NEW t, NEW complete
  PROVE  /\ Assess(t, complete) \in Postures \ {"PROBING", "DISARMED"}
         /\ DueWindows(t) \subseteq Windows
         /\ Assess(t, complete) = "PILOT_COMPLETE" => NumWindows \in complete
BY DEF Assess, Postures, DueWindows

\* The end of a firing: it is delegated, or it is over.
LEMMA AssessStep ==
  ASSUME DueInv, NEW i \in Invocations, ProbeAndAssess(i)
  PROVE  DueInv'
<1>1. PICK complete \in SUBSET {w \in ProbeTargets(observed[i]) : ProbeWindowComplete(w)} :
        LET found == Assess(observed[i], complete)
        IN  /\ posture' = [posture EXCEPT ![i] = found]
            /\ \/ /\ found = "DUE"
                  /\ \E w \in DueWindows(observed[i]), d \in Digests :
                       job' = [job EXCEPT ![i] = [window |-> w, maximum |-> Ceiling, digest |-> d]]
                  /\ \E label \in {"entry", "failed"} : Goto(i, label)
               \/ /\ found = "MISSED_WINDOW_BLOCKED"
                  /\ Goto(i, "failed")
                  /\ UNCHANGED job
               \/ /\ found \notin {"DUE", "MISSED_WINDOW_BLOCKED"}
                  /\ UNCHANGED <<pc, job>>
  BY DEF ProbeAndAssess
<1> DEFINE found == Assess(observed[i], complete)
<1>2. /\ found \in Postures \ {"PROBING", "DISARMED"}
      /\ found = "PILOT_COMPLETE" => entry[NumWindows] # None
  BY <1>1, Postured DEF ProbeWindowComplete
<1>3. /\ TypeOK /\ posture[i] = "PROBING" /\ pc[i] = "idle"
      /\ UNCHANGED <<now, store, cur, processed, claimedAt, observed>>
  BY DEF ProbeAndAssess, DueInv, IInv, Follows
<1>4. /\ posture' = [posture EXCEPT ![i] = found]
      /\ IF found = "DUE" THEN \E j \in Job : job' = [job EXCEPT ![i] = j] ELSE job' = job
  <2>1. ASSUME NEW w \in DueWindows(observed[i]), NEW d \in Digests
        PROVE  [window |-> w, maximum |-> Ceiling, digest |-> d] \in Job
    <3>1. w \in Windows
      BY Postured
    <3>2. Ceiling \in 1 .. Ceiling
      BY ScheduleAssumption
    <3> QED BY <3>1, <3>2 DEF Job
  <2> QED BY <1>1, <2>1
<1>5. \/ pc' = pc
      \/ pc' = [pc EXCEPT ![i] = "failed"]
      \/ pc' = [pc EXCEPT ![i] = "entry"] /\ found = "DUE"
  BY <1>1 DEF Goto
<1> HIDE DEF found
<1>6. /\ pc' \in [Invocations -> {"idle"} \cup Running \cup Ended]
      /\ pc'[i] \in {"idle", "failed", "entry"}
      /\ \A j \in Invocations \ {i} : pc'[j] = pc[j]
  BY <1>3, <1>5 DEF TypeOK, Running, Ended
<1>7. /\ job' \in [Invocations -> Job \cup {None}]
      /\ \A j \in Invocations \ {i} : job'[j] = job[j]
      /\ pc'[i] = "entry" => job'[i] \in Job
  BY <1>3, <1>4, <1>5 DEF TypeOK
<1>8. TypeOK'
  BY <1>3, <1>6, <1>7 DEF TypeOK, store
<1>9. posture' \in [Invocations -> Postures \cup {None}] /\ posture'[i] = found
      /\ \A j \in Invocations \ {i} : posture'[j] = posture[j]
  BY <1>2, <1>4 DEF DueInv, DueTypeOK
<1>10. StoreInv' /\ Reached' /\ EntriesLead'
  BY <1>3 DEF store, DueInv, IInv, StoreInv, Lineage, OneLineage, ClaimsArePublished,
              OutcomesAreClaimed, RequestsAreClaimed, Reached, EntriesLead
<1>11. ASSUME NEW j \in Invocations PROVE Knows(j)' /\ Follows(j)'
  <2>1. CASE j = i
    <3>1. Knows(i)'
      BY <1>6, <1>7 DEF Knows, Bound, Holding, Publishing
    <3>2. Follows(i)'
      BY <1>2, <1>3, <1>6, <1>9 DEF Follows, Bound, Holding, Publishing, store, Postures
    <3> QED BY <2>1, <3>1, <3>2
  <2>2. CASE j # i
    <3>1. /\ pc'[j] = pc[j] /\ job'[j] = job[j] /\ posture'[j] = posture[j]
          /\ UNCHANGED <<store, cur, processed>>
      BY <1>3, <1>6, <1>7, <1>9, <2>2
    <3>2. Knows(j) /\ Follows(j)
      BY DEF DueInv, IInv, LocalInv
    <3> QED BY <3>1, <3>2 DEF Knows, Follows, Crosses, store
  <2> QED BY <2>1, <2>2
<1> QED BY <1>3, <1>8, <1>9, <1>10, <1>11 DEF DueInv, DueTypeOK, IInv, LocalInv

LEMMA DueStepHolds == DueInv /\ [DueNext]_dueVars => DueInv'
<1> SUFFICES ASSUME DueInv, [DueNext]_dueVars PROVE DueInv'
  OBVIOUS
<1>1. CASE (Tick /\ UNCHANGED <<observed, posture>>) \/ UNCHANGED dueVars
  <2>1. UNCHANGED <<store, locals, observed, posture>>
    BY <1>1 DEF Tick, dueVars, vars
  <2>2. [Next]_vars
    BY <1>1 DEF dueVars, Next
  <2>3. IInv'
    BY <2>2, StepHolds DEF DueInv
  <2>4. Reached' /\ EntriesLead' /\ \A i \in Invocations : Follows(i)'
    BY <2>1, StandingStill
  <2> QED BY <2>1, <2>3, <2>4 DEF DueInv, DueTypeOK, IInv
<1>2. ASSUME NEW i \in Invocations, FireDisarmed(i) \/ Fire(i) PROVE DueInv'
  BY <1>2, FiringStep
<1>3. ASSUME NEW i \in Invocations, ProbeAndAssess(i) PROVE DueInv'
  BY <1>3, AssessStep
<1>4. ASSUME NEW i \in Invocations, Manual(i) PROVE DueInv'
  BY <1>4, ProtocolStep DEF Manual, StepOf
<1>5. ASSUME NEW i \in Invocations, Continue(i) PROVE DueInv'
  <2>1. PrepareGenesis(i) \/ RunWindow(i) => posture[i] = None
    <3>1. pc[i] # "idle"
      BY <1>5 DEF Continue, Work, Abort, PublishGenesisBinding,
        PublishGenesisEntry, LoadEntry, Replay, Reject, Fresh, StopPartial, PublishClaim,
        ClaimConflict, GateCloses, StartRequest, EndRequest, PublishObservation, PublishPlan,
        PublishSnapshot, SealTransition, PublishSuccessor, PublishNextEntry, Seal, AtHead,
        Running, Publishing
    <3> QED BY <3>1 DEF PrepareGenesis, RunWindow
  <2> QED BY <1>5, <2>1, ProtocolStep DEF Continue, StepOf
<1> QED BY <1>1, <1>2, <1>3, <1>4, <1>5 DEF DueNext

\* The inductive invariant: that of the protocol, and how far the campaign is
\* before a binding, an entry or a posture exists.
THEOREM DueInvariance == DueSpec => []DueInv
<1> QED BY DueInitHolds, DueStepHolds, PTL DEF DueSpec

\* The store, the executions and the postures keep their types.
THEOREM DueTypeCorrect == DueSpec => []DueTypeOK
<1> QED BY DueInvariance, PTL DEF DueInv

\* A window is worked on for a firing, and the pilot is declared complete,
\* only when every action of the windows before has its outcome, whatever
\* happened between the probes and the work (run-due-window).
THEOREM OnlyReachedIsDue == DueSpec => []DueReachedByCampaign
<1>1. DueInv => DueReachedByCampaign
  <2> SUFFICES ASSUME DueInv, NEW i \in Invocations, NEW a \in Actions,
                      \/ posture[i] = "PILOT_COMPLETE" /\ WindowOf[a] < NumWindows
                      \/ /\ posture[i] = "DUE" /\ pc[i] \in Running \ {"entry"}
                         /\ WindowOf[a] < job[i].window
               PROVE  \E b \in bindings : b.action = a /\ transition[b] # None
    BY DEF DueReachedByCampaign
  <2>1. Follows(i) /\ IInv
    BY DEF DueInv
  <2>2. ASSUME NEW b \in bindings, WindowOf[a] < WindowOf[b.action]
        PROVE  \E c \in bindings : c.action = a /\ transition[c] # None
    <3>1. b.action \in Actions
      BY <2>1 DEF IInv, TypeOK, Binding
    <3>2. a < b.action
      <4>1. ~(b.action <= a)
        <5> SUFFICES ASSUME b.action <= a PROVE FALSE
          OBVIOUS
        <5>1. WindowOf[b.action] <= WindowOf[a]
          BY <3>1, ActionsInOrder
        <5> QED BY <2>2, <3>1, <5>1, CampaignAssumption DEF Windows
      <4> QED BY <3>1, <4>1 DEF Actions
    <3> QED BY <3>1, <3>2 DEF DueInv, Reached
  <2>3. CASE posture[i] = "PILOT_COMPLETE" /\ WindowOf[a] < NumWindows
    <3>1. entry[NumWindows] \in bindings /\ WindowOf[entry[NumWindows].action] = NumWindows
      BY <2>1, <2>3, EndsAreWindows DEF Follows, DueInv, EntriesLead
    <3> QED BY <2>2, <2>3, <3>1
  <2>4. CASE /\ posture[i] = "DUE" /\ pc[i] \in Running \ {"entry"}
             /\ WindowOf[a] < job[i].window
    <3>1. pc[i] \in Bound
      BY <2>1, <2>4, PostureAssumption DEF Follows, Running, Bound, Holding, Postures
    <3>2. cur[i] \in bindings /\ WindowOf[cur[i].action] = job[i].window
      BY <2>1, <3>1, WorksOn DEF Follows
    <3> QED BY <2>2, <2>4, <3>2
  <2> QED BY <2>3, <2>4
<1> QED BY <1>1, DueInvariance, PTL

\* Scheduler firings beside manual runs still ask the provider at most once
\* for an action.
THEOREM DueRequestedOnce == DueSpec => []AtMostOneRequest
<1>1. DueInv => AtMostOneRequest
  BY DEF DueInv, IInv, StoreInv, RequestsAreClaimed, AtMostOneRequest
<1> QED BY <1>1, DueInvariance, PTL

\* A firing does nothing to the campaign that a manual run could not do.
THEOREM DueLedgerRefined == DueSpec => ImplementsLedger
<1>1. DueInit => Ledger!LedgerInit
  BY DEF DueInit, Init, InitFrom, Ledger!LedgerInit, Ledger!Actions, Actions
<1>2. DueInv /\ [DueNext]_dueVars => [Ledger!LedgerNext]_(Ledger!ledgerVars)
  <2> SUFFICES ASSUME DueInv, [DueNext]_dueVars PROVE [Ledger!LedgerNext]_(Ledger!ledgerVars)
    OBVIOUS
  <2>1. ASSUME NEW i \in Invocations, StepOf(i)
        PROVE  [Ledger!LedgerNext]_(Ledger!ledgerVars)
    BY <2>1, StepRefines DEF DueInv, Ledger!ledgerVars, ClaimedActions, SealedActions
  <2>2. CASE UNCHANGED <<claim, transition, requests>>
    BY <2>2 DEF Ledger!ledgerVars
  <2>3. \/ \E i \in Invocations : StepOf(i)
        \/ UNCHANGED <<claim, transition, requests>>
    BY DEF DueNext, dueVars, Tick, FireDisarmed, Fire, ProbeAndAssess, Manual, Continue, StepOf,
           vars, store
  <2> QED BY <2>1, <2>2, <2>3
<1> QED BY <1>1, <1>2, DueInvariance, PTL DEF DueSpec, ImplementsLedger, Ledger!LedgerSpec
\* A step of the composition is a step of one execution, or leaves the store
\* and the executions at work alone.
LEMMA DueStepCases ==
  ASSUME DueInv, [DueNext]_dueVars
  PROVE  \/ \E i \in Invocations : StepOf(i)
         \/ /\ UNCHANGED <<store, cur>>
            /\ \A j \in Invocations : pc'[j] = pc[j] \/ pc'[j] \in {"entry", "failed"}
<1>1. CASE (Tick /\ UNCHANGED <<observed, posture>>) \/ UNCHANGED dueVars
  BY <1>1 DEF Tick, dueVars, vars, locals
<1>2. ASSUME NEW i \in Invocations, FireDisarmed(i) \/ Fire(i)
      PROVE  UNCHANGED <<store, cur, pc>>
  BY <1>2 DEF FireDisarmed, Fire, vars, locals
<1>3. ASSUME NEW i \in Invocations, ProbeAndAssess(i)
      PROVE  /\ UNCHANGED <<store, cur>>
             /\ \A j \in Invocations : pc'[j] = pc[j] \/ pc'[j] \in {"entry", "failed"}
  <2>1. UNCHANGED <<store, cur>>
    BY <1>3 DEF ProbeAndAssess
  <2>2. UNCHANGED pc \/ \E label \in {"entry", "failed"} : Goto(i, label)
    BY <1>3 DEF ProbeAndAssess
  <2> QED BY <2>1, <2>2 DEF Goto, DueInv, IInv, TypeOK
<1>4. ASSUME NEW i \in Invocations, Manual(i) \/ Continue(i) PROVE StepOf(i)
  BY <1>4 DEF Manual, Continue, StepOf
<1> QED BY <1>1, <1>2, <1>3, <1>4 DEF DueNext

\* Scheduler firings beside manual runs leave no outcome without its evidence
\* and no receipt that does not replay.
THEOREM DueEvidenceInvariance == DueSpec => []EvidenceInv
<1>1. DueInit => EvidenceInv
  BY DEF DueInit, Init, InitFrom, EvidenceInv, OutcomesHaveEvidence, ReceiptsReplay, HasStored
<1>2. DueInv /\ EvidenceInv /\ [DueNext]_dueVars => EvidenceInv'
  <2> SUFFICES ASSUME DueInv, EvidenceInv, [DueNext]_dueVars PROVE EvidenceInv'
    OBVIOUS
  <2>1. ASSUME NEW i \in Invocations, StepOf(i) PROVE EvidenceInv'
    BY <2>1, EvidenceStep DEF DueInv, Next, StepOf
  <2>2. CASE /\ UNCHANGED <<store, cur>>
             /\ \A j \in Invocations : pc'[j] = pc[j] \/ pc'[j] \in {"entry", "failed"}
    <3>1. OutcomesHaveEvidence' /\ ReceiptsReplay'
      BY <2>2 DEF store, EvidenceInv, OutcomesHaveEvidence, ReceiptsReplay, VerifyReplay
    <3>2. ASSUME NEW j \in Invocations PROVE HasStored(j)'
      BY <2>2 DEF store, EvidenceInv, HasStored, Stored
    <3> QED BY <3>1, <3>2 DEF EvidenceInv
  <2> QED BY <2>1, <2>2, DueStepCases
<1> QED BY <1>1, <1>2, DueInvariance, PTL DEF DueSpec

\* A firing does not take up what a crashed execution claimed either.
THEOREM DueOrphansStay == DueSpec => OrphanIsFinal
<1>1. DueInv /\ [DueNext]_dueVars =>
        [\A b \in Binding : Orphaned(b) /\ transition[b] = None =>
           transition'[b] = None /\ requests'[b.action] = requests[b.action]]_vars
  <2> SUFFICES ASSUME DueInv, [DueNext]_dueVars, NEW b \in Binding, Orphaned(b),
                      transition[b] = None
               PROVE  transition'[b] = None /\ requests'[b.action] = requests[b.action]
    OBVIOUS
  <2>1. ASSUME NEW i \in Invocations, StepOf(i)
        PROVE  transition'[b] = None /\ requests'[b.action] = requests[b.action]
    BY <2>1, OrphanStep DEF DueInv, Next, StepOf
  <2>2. CASE UNCHANGED store
    BY <2>2 DEF store
  <2> QED BY <2>1, <2>2, DueStepCases
<1> QED BY <1>1, DueInvariance, PTL DEF DueSpec, OrphanIsFinal
=============================================================================
