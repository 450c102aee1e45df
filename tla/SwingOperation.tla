--------------------------- MODULE SwingOperation ---------------------------
(***************************************************************************)
(* The swing operational job and its restore, for one scheduled decision   *)
(* (one operational spec): operational_job.py runs the decision on a state *)
(* root, hands its side effects off, seals the terminal record, publishes  *)
(* everything to the bucket with a manifest last, and tells the operator;  *)
(* operational_restore.py installs a published result in another root.     *)
(* Executions overlap on a root, die at any point, and their clocks may be *)
(* stepped back.                                                           *)
(*                                                                         *)
(* Every evaluation reads the clock and the quotes again, so a decision,   *)
(* its notification, its paper registration and its record are named by    *)
(* the execution that made it.                                             *)
(***************************************************************************)
EXTENDS Naturals

CONSTANTS
  Executions,           \* the executions of the job and of the restore
  Roots,                \* the state roots
  NotBefore, Deadline,  \* the decision window
  MaxTime,              \* bound on clock readings
  None                  \* no receipt, no root

ASSUME WindowAssumption ==
  /\ NotBefore \in Nat /\ Deadline \in Nat /\ MaxTime \in Nat
  /\ NotBefore < Deadline /\ Deadline <= MaxTime

ASSUME AbsentAssumption == None \notin Executions /\ None \notin Roots

Times == 0 .. MaxTime

-----------------------------------------------------------------------------
\* SwingOperationalRunRecord: who made it, COMPLETE or FAILED, BUY or
\* NO_TRADE.  A failed run cannot imply a trade.
Record == {r \in [by : Executions, complete : BOOLEAN, buy : BOOLEAN] : r.buy => r.complete}

NoRecord == [by |-> None, complete |-> FALSE, buy |-> FALSE]

\* Mutant of Failure: the failed run keeps its BUY.
FailureKeepsAction(i) == [by |-> i, complete |-> FALSE, buy |-> TRUE]

Failure(i) == [by |-> i, complete |-> FALSE, buy |-> FALSE]

Kinds == {"notification", "registration", "record"}

\* The artifacts the manifest of a result names.
Needed(r) ==
  {"record"} \cup (IF r.complete THEN {"notification"} ELSE {})
             \cup (IF r.buy THEN {"registration"} ELSE {})

FirstUpload(r) == IF r.complete THEN "notification" ELSE "record"

\* Mutant of NextUpload: the manifest is sealed before the terminal record.
NextUploadManifestEarly(r, kind) ==
  IF kind = "notification" /\ r.buy THEN "registration" ELSE "manifest"

\* The upload that follows: notification, registration, record, manifest.
NextUpload(r, kind) ==
  IF kind = "notification" /\ r.buy THEN "registration"
  ELSE IF kind \in {"notification", "registration"} THEN "record"
  ELSE "manifest"

-----------------------------------------------------------------------------
VARIABLES
  outbox,     \* root -> decisions whose notification it holds
  paper,      \* root -> decisions whose paper registration it holds
  record,     \* root -> its terminal record
  receipt,    \* root -> record -> the delivery its receipt is of
  objects,    \* artifacts in the bucket
  manifests,  \* results whose manifest is in the bucket
  sent,       \* record -> number of messages the operator got
  pc,         \* execution -> what it does next
  root,       \* execution -> the state root it works on
  result,     \* execution -> the result it publishes or restores
  clock       \* execution -> the last clock reading it accepted

stores == <<outbox, paper, record, receipt, objects, manifests, sent>>
locals == <<pc, root, result, clock>>
vars == <<stores, locals>>

Deciding == {"load", "start", "inputs", "evaluate", "decide", "outbox", "ledger", "seal"}
Uploading == {"verify", "manifest"} \cup Kinds
Delivering == {"lookup", "post", "receipt"}
Restoring == {"fetch", "restoreOutbox", "restoreLedger", "restoreRecord"}
Running == Deciding \cup Uploading \cup Delivering \cup Restoring
Ended == {"done", "restored", "failed"}

TypeOK ==
  /\ outbox \in [Roots -> SUBSET Executions]
  /\ paper \in [Roots -> SUBSET Executions]
  /\ record \in [Roots -> Record \cup {NoRecord}]
  /\ receipt \in [Roots -> [Executions -> Executions \cup {None}]]
  /\ objects \subseteq [kind : Kinds, of : Record]
  /\ manifests \subseteq Record
  /\ sent \in [Executions -> Nat]
  /\ pc \in [Executions -> {"idle"} \cup Running \cup Ended]
  /\ root \in [Executions -> Roots \cup {None}]
  /\ result \in [Executions -> Record \cup {NoRecord}]
  /\ clock \in [Executions -> Times]

Init ==
  /\ outbox = [s \in Roots |-> {}]
  /\ paper = [s \in Roots |-> {}]
  /\ record = [s \in Roots |-> NoRecord]
  /\ receipt = [s \in Roots |-> [e \in Executions |-> None]]
  /\ objects = {}
  /\ manifests = {}
  /\ sent = [e \in Executions |-> 0]
  /\ pc = [i \in Executions |-> "idle"]
  /\ root = [i \in Executions |-> None]
  /\ result = [i \in Executions |-> NoRecord]
  /\ clock = [i \in Executions |-> 0]

Goto(i, label) == pc' = [pc EXCEPT ![i] = label]

\* A write that took effect: the execution goes on, or it ends because it
\* died or never learnt of it.
Written(i, label) == \E next \in {label, "failed"} : Goto(i, next)

\* A create-or-verify write goes on only when the store holds what it brought.
WrittenIf(i, ok, label) == \E next \in (IF ok THEN {label, "failed"} ELSE {"failed"}) : Goto(i, next)

Conclude(i, r, label) == result' = [result EXCEPT ![i] = r] /\ Goto(i, label)

\* The side effects of a result are in the root.
Backed(s, r) == (r.complete => r.by \in outbox[s]) /\ (r.buy => r.by \in paper[s])

-----------------------------------------------------------------------------
(* execute_swing_operational_run                                           *)

StartJob(i) ==
  /\ pc[i] = "idle"
  /\ \E s \in Roots : root' = [root EXCEPT ![i] = s]
  /\ Goto(i, "load")
  /\ UNCHANGED <<stores, result, clock>>

\* A terminal record that exists is returned, when its side effects are
\* there; otherwise the decision is made.
Load(i) ==
  /\ pc[i] = "load"
  /\ LET r == record[root[i]]
     IN  IF r = NoRecord THEN Conclude(i, NoRecord, "start")
         ELSE IF Backed(root[i], r) THEN Conclude(i, r, "verify")
         ELSE Conclude(i, NoRecord, "failed")
  /\ UNCHANGED <<stores, root, clock>>

Start(i) ==
  /\ pc[i] = "start"
  /\ \E t \in Times :
       IF NotBefore <= t /\ t <= Deadline
       THEN clock' = [clock EXCEPT ![i] = t] /\ Conclude(i, result[i], "inputs")
       ELSE UNCHANGED clock /\ Conclude(i, Failure(i), "seal")
  /\ UNCHANGED <<stores, root>>

\* Quotes and portfolio are acquired; the latest of their times, and of the
\* start, bounds the evaluation from below.  The portfolio may be dated up to
\* the deadline.
Acquire(i) ==
  /\ pc[i] = "inputs"
  /\ \/ /\ \E t \in clock[i] .. MaxTime : clock' = [clock EXCEPT ![i] = t]
        /\ Conclude(i, result[i], "evaluate")
     \/ Conclude(i, Failure(i), "seal") /\ UNCHANGED clock
  /\ UNCHANGED <<stores, root>>

Evaluate(i) ==
  /\ pc[i] = "evaluate"
  /\ \E t \in Times :
       IF clock[i] <= t /\ t <= Deadline
       THEN clock' = [clock EXCEPT ![i] = t] /\ Conclude(i, result[i], "decide")
       ELSE UNCHANGED clock /\ Conclude(i, Failure(i), "seal")
  /\ UNCHANGED <<stores, root>>

\* Mutant of Decide: the completion time is not compared with the deadline.
DecideLate(i) ==
  /\ pc[i] = "decide"
  /\ \E t \in clock[i] .. MaxTime, buy \in BOOLEAN :
       /\ clock' = [clock EXCEPT ![i] = t]
       /\ Conclude(i, [by |-> i, complete |-> TRUE, buy |-> buy], "outbox")
  /\ UNCHANGED <<stores, root>>

\* The decision is assembled, and the run completed before the deadline.
Decide(i) ==
  /\ pc[i] = "decide"
  /\ \/ \E t \in clock[i] .. Deadline, buy \in BOOLEAN :
          /\ clock' = [clock EXCEPT ![i] = t]
          /\ Conclude(i, [by |-> i, complete |-> TRUE, buy |-> buy], "outbox")
     \/ Conclude(i, Failure(i), "seal") /\ UNCHANGED clock
  /\ UNCHANGED <<stores, root>>

-----------------------------------------------------------------------------
(* publish_swing_operational_run                                           *)

\* Mutant of PutNotification: the registration waits for the record.
PutNotificationThenSeal(i) ==
  /\ pc[i] = "outbox"
  /\ outbox' = [outbox EXCEPT ![root[i]] = @ \cup {i}]
  /\ Written(i, "seal")
  /\ UNCHANGED <<paper, record, receipt, objects, manifests, sent, root, result, clock>>

PutNotification(i) ==
  /\ pc[i] = "outbox"
  /\ outbox' = [outbox EXCEPT ![root[i]] = @ \cup {i}]
  /\ Written(i, IF result[i].buy THEN "ledger" ELSE "seal")
  /\ UNCHANGED <<paper, record, receipt, objects, manifests, sent, root, result, clock>>

Register(i) ==
  /\ pc[i] = "ledger"
  /\ paper' = [paper EXCEPT ![root[i]] = @ \cup {i}]
  /\ Written(i, "seal")
  /\ UNCHANGED <<outbox, record, receipt, objects, manifests, sent, root, result, clock>>

\* Mutant of PutRecord: the last writer wins.
PutRecordOverwrites(i, label) ==
  /\ record' = [record EXCEPT ![root[i]] = result[i]]
  /\ Written(i, label)

\* Mutant of PutRecord: the stored record is returned without comparing.
PutRecordAnyStored(i, label) ==
  /\ record' = [record EXCEPT ![root[i]] = IF @ = NoRecord THEN result[i] ELSE @]
  /\ Written(i, label)

\* One terminal record per spec and root; a different one is a conflict.
PutRecord(i, label) ==
  /\ record' = [record EXCEPT ![root[i]] = IF @ = NoRecord THEN result[i] ELSE @]
  /\ WrittenIf(i, record'[root[i]] = result[i], label)

SealRecord(i) ==
  /\ pc[i] = "seal"
  /\ PutRecord(i, "verify")
  /\ UNCHANGED <<outbox, paper, receipt, objects, manifests, sent, root, result, clock>>

-----------------------------------------------------------------------------
(* publish_swing_operational_state_to_gcs                                  *)

VerifyInputs(i) ==
  /\ pc[i] = "verify"
  /\ Goto(i, IF Backed(root[i], result[i]) THEN FirstUpload(result[i]) ELSE "failed")
  /\ UNCHANGED <<stores, root, result, clock>>

Upload(i) ==
  /\ pc[i] \in Kinds
  /\ objects' = objects \cup {[kind |-> pc[i], of |-> result[i]]}
  /\ Written(i, NextUpload(result[i], pc[i]))
  /\ UNCHANGED <<outbox, paper, record, receipt, manifests, sent, root, result, clock>>

UploadManifest(i) ==
  /\ pc[i] = "manifest"
  /\ manifests' = manifests \cup {result[i]}
  /\ Written(i, "lookup")
  /\ UNCHANGED <<outbox, paper, record, receipt, objects, sent, root, result, clock>>

-----------------------------------------------------------------------------
(* deliver_telegram_notification, keyed by the record                      *)

LookUpReceipt(i) ==
  /\ pc[i] = "lookup"
  /\ Goto(i, IF receipt[root[i]][result[i].by] # None THEN "done" ELSE "post")
  /\ UNCHANGED <<stores, root, result, clock>>

\* Mutant of Post: a message the provider refused counts as delivered.
PostBestEffort(i) ==
  /\ pc[i] = "post"
  /\ sent' \in {sent, [sent EXCEPT ![result[i].by] = @ + 1]}
  /\ Goto(i, "receipt")
  /\ UNCHANGED <<outbox, paper, record, receipt, objects, manifests, root, result, clock>>

\* The provider has no idempotency key: every post is another message.
Post(i) ==
  /\ pc[i] = "post"
  /\ sent' = [sent EXCEPT ![result[i].by] = @ + 1]
  /\ Written(i, "receipt")
  /\ UNCHANGED <<outbox, paper, record, receipt, objects, manifests, root, result, clock>>

\* Receipts are create-once, and the receipts of two deliveries differ.
PutReceipt(i) ==
  /\ pc[i] = "receipt"
  /\ receipt' = [receipt EXCEPT ![root[i]][result[i].by] = IF @ = None THEN i ELSE @]
  /\ WrittenIf(i, receipt'[root[i]][result[i].by] = i, "done")
  /\ UNCHANGED <<outbox, paper, record, objects, manifests, sent, root, result, clock>>

-----------------------------------------------------------------------------
(* restore_swing_operational_state_from_gcs                                *)

\* The operator kept the pin of some published manifest.
StartRestore(i) ==
  /\ pc[i] = "idle"
  /\ \E s \in Roots, m \in manifests :
       root' = [root EXCEPT ![i] = s] /\ Conclude(i, m, "fetch")
  /\ UNCHANGED <<stores, clock>>

\* Everything the manifest names is read and verified before a local write.
Fetch(i) ==
  /\ pc[i] = "fetch"
  /\ \A kind \in Needed(result[i]) : [kind |-> kind, of |-> result[i]] \in objects
  /\ Goto(i, IF result[i].complete THEN "restoreOutbox" ELSE "restoreRecord")
  /\ UNCHANGED <<stores, root, result, clock>>

RestoreNotification(i) ==
  /\ pc[i] = "restoreOutbox"
  /\ outbox' = [outbox EXCEPT ![root[i]] = @ \cup {result[i].by}]
  /\ Written(i, IF result[i].buy THEN "restoreLedger" ELSE "restoreRecord")
  /\ UNCHANGED <<paper, record, receipt, objects, manifests, sent, root, result, clock>>

RestoreRegistration(i) ==
  /\ pc[i] = "restoreLedger"
  /\ paper' = [paper EXCEPT ![root[i]] = @ \cup {result[i].by}]
  /\ Written(i, "restoreRecord")
  /\ UNCHANGED <<outbox, record, receipt, objects, manifests, sent, root, result, clock>>

RestoreRecord(i) ==
  /\ pc[i] = "restoreRecord"
  /\ PutRecord(i, "restored")
  /\ UNCHANGED <<outbox, paper, receipt, objects, manifests, sent, root, result, clock>>

-----------------------------------------------------------------------------
\* A read or a write fails without effect, or the process dies.
Abort(i) ==
  /\ pc[i] \in Running
  /\ Goto(i, "failed")
  /\ UNCHANGED <<stores, root, result, clock>>

Step(i) ==
  \/ StartJob(i) \/ Load(i) \/ Start(i) \/ Acquire(i) \/ Evaluate(i) \/ Decide(i)
  \/ PutNotification(i) \/ Register(i) \/ SealRecord(i)
  \/ VerifyInputs(i) \/ Upload(i) \/ UploadManifest(i)
  \/ LookUpReceipt(i) \/ Post(i) \/ PutReceipt(i)
  \/ StartRestore(i) \/ Fetch(i)
  \/ RestoreNotification(i) \/ RestoreRegistration(i) \/ RestoreRecord(i)
  \/ Abort(i)

Next == \E i \in Executions : Step(i)

Spec == Init /\ [][Next]_vars

-----------------------------------------------------------------------------
\* "Publish idempotent side effects first and the terminal manifest last":
\* in every root, at every moment, the terminal record has its notification
\* and, for a BUY, its paper registration, whether it was made or restored.
RecordBacked == \A s \in Roots : record[s] # NoRecord => Backed(s, record[s])

\* A COMPLETE run was completed inside its decision window, although its
\* clock may be stepped between any two readings.
DecisionInWindow ==
  \A s \in Roots : record[s].complete =>
    NotBefore <= clock[record[s].by] /\ clock[record[s].by] <= Deadline

\* A manifest can always be restored from: everything it names is there.
ManifestRestorable ==
  \A m \in manifests, kind \in Kinds :
    kind \in Needed(m) => [kind |-> kind, of |-> m] \in objects

\* "Deliver at least once": a job that ends successfully, and a receipt, now
\* or after a restart, stand for a message the operator got.
DeliveredAtLeastOnce ==
  /\ \A i \in Executions : pc[i] = "done" => sent[result[i].by] > 0
  /\ \A s \in Roots, e \in Executions : receipt[s][e] # None => sent[e] > 0

\* A restore that reports success installed exactly the pinned result, with
\* its side effects, whatever the root held before.
RestoredExactly ==
  \A i \in Executions : pc[i] = "restored" =>
    record[root[i]] = result[i] /\ Backed(root[i], result[i])

\* Overlapping, dying and restored executions implement the session.
Session == INSTANCE SwingSession WITH
  settled <- [s \in Roots |-> record[s].by],
  published <- {m.by : m \in manifests},
  told <- {e \in Executions : sent[e] > 0}

ImplementsSession == Session!SessionSpec
=============================================================================
