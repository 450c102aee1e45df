--------------------------- MODULE QualityPilotDue ---------------------------
(***************************************************************************)
(* run-due-window, composed with the invocation protocol: a scheduler      *)
(* firing reads the clock once, probes the windows the runbook names for   *)
(* that time, assesses the posture of the pilot (arming.py) and delegates  *)
(* a window that is due to the window service, once, with the ceiling as   *)
(* its maximum.  Manual run-window and prepare-genesis executions go on    *)
(* beside it.                                                              *)
(*                                                                         *)
(* The probes of one firing are one step here.  Receipts and entries never *)
(* go away, so reading them one after the other gives a posture that one   *)
(* step gives too: a window found incomplete is MISSED at the moment it    *)
(* was read, and otherwise the last read decides.                          *)
(***************************************************************************)
EXTENDS QualityPilotWindow

VARIABLES
  observed,  \* invocation -> observed_at of its firing
  posture    \* invocation -> None for the other commands, else what it found

dueVars == <<vars, observed, posture>>

Postures == {"DISARMED", "PROBING", "DUE", "NOT_SCHEDULED", "ALREADY_COMPLETE",
             "MISSED_WINDOW_BLOCKED", "PILOT_COMPLETE"}

ASSUME PostureAssumption == None \notin Postures

DueTypeOK ==
  /\ TypeOK
  /\ observed \in [Invocations -> 0 .. MaxTime]
  /\ posture \in [Invocations -> Postures \cup {None}]

NoFirings ==
  /\ observed = [i \in Invocations |-> 0]
  /\ posture = [i \in Invocations |-> None]

DueInit == Init /\ NoFirings

-----------------------------------------------------------------------------
\* select_due_quality_pilot_window: the windows open at t, at most one.
DueWindows(t) == {w \in Windows : Inside(t, w)}

\* quality_pilot_window_completion_probe_targets: up to the due window, or
\* up to the last window that has closed.
ProbeTargets(t) ==
  LET reached == IF DueWindows(t) # {} THEN DueWindows(t) ELSE {w \in Windows : Closes[w] <= t}
  IN  {v \in Windows : \E w \in reached : v <= w}

\* _probe_window_complete: the receipt of the action the window entry names.
ProbeWindowComplete(w) == entry[w] # None /\ receipt[entry[w]] # NoReceipt

\* Mutant of Assess: only the due window itself is looked at.
AssessDueOnly(t, complete) ==
  IF ProbeTargets(t) = {} THEN "NOT_SCHEDULED"
  ELSE IF DueWindows(t) \ complete # {} THEN "DUE"
  ELSE IF DueWindows(t) # {} THEN "ALREADY_COMPLETE"
  ELSE IF NumWindows \in ProbeTargets(t) THEN "PILOT_COMPLETE"
  ELSE "NOT_SCHEDULED"

\* assess_quality_pilot_window_posture, for the windows found complete.
Assess(t, complete) ==
  LET missing == ProbeTargets(t) \ complete
  IN  IF ProbeTargets(t) = {} THEN "NOT_SCHEDULED"
      ELSE IF missing \ DueWindows(t) # {} THEN "MISSED_WINDOW_BLOCKED"
      ELSE IF missing # {} THEN "DUE"
      ELSE IF DueWindows(t) # {} THEN "ALREADY_COMPLETE"
      ELSE IF NumWindows \in ProbeTargets(t) THEN "PILOT_COMPLETE"
      ELSE "NOT_SCHEDULED"

-----------------------------------------------------------------------------
\* The kill switch is not the literal "true".
FireDisarmed(i) ==
  /\ pc[i] = "idle" /\ posture[i] = None
  /\ posture' = [posture EXCEPT ![i] = "DISARMED"]
  /\ UNCHANGED <<vars, observed>>

Fire(i) ==
  /\ pc[i] = "idle" /\ posture[i] = None
  /\ posture' = [posture EXCEPT ![i] = "PROBING"]
  /\ observed' = [observed EXCEPT ![i] = now]
  /\ UNCHANGED vars

\* A probe that fails is taken for INCOMPLETE.  A due window is delegated;
\* digests that disagree with the manifest, or missing credentials, end the
\* execution before, as a missed window does.
ProbeAndAssess(i) ==
  /\ posture[i] = "PROBING"
  /\ \E complete \in SUBSET {w \in ProbeTargets(observed[i]) : ProbeWindowComplete(w)} :
       LET found == Assess(observed[i], complete)
       IN  /\ posture' = [posture EXCEPT ![i] = found]
           /\ \/ /\ found = "DUE"
                 /\ \E w \in DueWindows(observed[i]), d \in Digests :
                      job' = [job EXCEPT ![i] = [window |-> w, maximum |-> Ceiling, digest |-> d]]
                 /\ \E label \in {"entry", "failed"} : Goto(i, label)
              \/ /\ found = "MISSED_WINDOW_BLOCKED"
                 /\ Goto(i, "failed")
                 /\ UNCHANGED job
              \/ /\ found \notin {"DUE", "MISSED_WINDOW_BLOCKED"}
                 /\ UNCHANGED <<pc, job>>
  /\ UNCHANGED <<now, store, cur, processed, claimedAt, observed>>

\* The other commands, and the executions that were delegated to.
Manual(i) ==
  /\ posture[i] = None
  /\ PrepareGenesis(i) \/ RunWindow(i)
  /\ UNCHANGED <<observed, posture>>

Continue(i) ==
  /\ Work(i) \/ Abort(i)
  /\ UNCHANGED <<observed, posture>>

DueNext ==
  \/ Tick /\ UNCHANGED <<observed, posture>>
  \/ \E i \in Invocations :
       FireDisarmed(i) \/ Fire(i) \/ ProbeAndAssess(i) \/ Manual(i) \/ Continue(i)

DueSpec == DueInit /\ [][DueNext]_dueVars

-----------------------------------------------------------------------------
Sealed(w) == \A a \in Actions : WindowOf[a] = w =>
               \E b \in bindings : b.action = a /\ receipt[b] # NoReceipt

\* A window is delegated, and the pilot is declared complete, only when the
\* campaign reached it: every action of every earlier window has its outcome
\* in the ledger.
DueReachedByCampaign ==
  \A i \in Invocations, a \in Actions :
    \/ posture[i] = "PILOT_COMPLETE" /\ WindowOf[a] < NumWindows
    \/ posture[i] = "DUE" /\ pc[i] \in Running \ {"entry"} /\ WindowOf[a] < job[i].window
    => \E b \in bindings : b.action = a /\ transition[b] # None

\* "A window whose closes_at has passed without an independently verified
\* terminal completion never silently advances to a later window": a due
\* window is worked on only when every earlier window is sealed, as
\* _probe_window_complete is to find out.
NeverAdvancesPastUnsealed ==
  \A i \in Invocations :
    posture[i] = "DUE" /\ pc[i] = "requesting" =>
      \A w \in Windows : w < job[i].window => Sealed(w)
=============================================================================
