------------------------ MODULE SwingOperationProofs ------------------------
(***************************************************************************)
(* The swing operation seals a record only over its side effects, decides  *)
(* inside the window, publishes only what can be restored, restores only   *)
(* what was pinned, and implements the session, for every number of        *)
(* executions and roots and every clock.                                   *)
(***************************************************************************)
EXTENDS SwingOperation, TLAPS

\* An execution that may still produce a result of its own.
Undecided == {"idle"} \cup Deciding

\* The executions that publish a sealed record, and those after the manifest.
Sealed == Uploading \cup Delivering \cup {"done"}
Published == Delivering \cup {"done"}

InWindow(e) == NotBefore <= clock[e] /\ clock[e] <= Deadline

\* A result nobody will change: its author is past its decision.
Final(r) ==
  /\ r \in Record
  /\ pc[r.by] \notin Undecided
  /\ r.complete => InWindow(r.by)

Stored(kind, r) == [kind |-> kind, of |-> r] \in objects

RecordsFinal == \A s \in Roots : record[s] # NoRecord => Final(record[s]) /\ Backed(s, record[s])

ManifestsFinal ==
  \A m \in manifests : Final(m) /\ \A kind \in Needed(m) : Stored(kind, m)

ReceiptsSent == \A s \in Roots, e \in Executions : receipt[s][e] # None => sent[e] > 0

StoreInv == RecordsFinal /\ ManifestsFinal /\ ReceiptsSent

\* What the program counter of an execution says while it decides,
KnowsDecision(i) ==
  /\ pc[i] \in {"inputs", "evaluate"} => NotBefore <= clock[i]
  /\ pc[i] = "decide" => InWindow(i)
  /\ pc[i] \in {"outbox", "ledger", "seal"} =>
       /\ result[i] \in Record /\ result[i].by = i
       /\ result[i].complete => InWindow(i)
  /\ pc[i] \in {"outbox", "ledger"} => result[i].complete
  /\ pc[i] = "ledger" => result[i].buy /\ i \in outbox[root[i]]
  /\ pc[i] = "seal" => Backed(root[i], result[i])

\* while it publishes and delivers,
KnowsPublication(i) ==
  /\ pc[i] \in Sealed => result[i] \in Record /\ record[root[i]] = result[i]
  /\ pc[i] = "notification" => result[i].complete
  /\ pc[i] = "registration" => result[i].buy /\ Stored("notification", result[i])
  /\ pc[i] = "record" => \A kind \in Needed(result[i]) \ {"record"} : Stored(kind, result[i])
  /\ pc[i] = "manifest" => \A kind \in Needed(result[i]) : Stored(kind, result[i])
  /\ pc[i] \in Published => result[i] \in manifests
  /\ pc[i] \in {"receipt", "done"} => sent[result[i].by] > 0

\* and while it restores.
KnowsRestore(i) ==
  /\ pc[i] \in Restoring => result[i] \in manifests
  /\ pc[i] \in {"restoreOutbox", "restoreLedger"} => result[i].complete
  /\ pc[i] = "restoreLedger" => result[i].buy /\ result[i].by \in outbox[root[i]]
  /\ pc[i] = "restoreRecord" => Backed(root[i], result[i])
  /\ pc[i] = "restored" => result[i] \in Record /\ record[root[i]] = result[i]

Knows(i) ==
  /\ pc[i] # "idle" => root[i] \in Roots
  /\ KnowsDecision(i)
  /\ KnowsPublication(i)
  /\ KnowsRestore(i)

LocalInv == \A i \in Executions : Knows(i)

IInv == TypeOK /\ StoreInv /\ LocalInv

Labels == {"idle"} \cup Running \cup Ended

-----------------------------------------------------------------------------
(* Lemmas.                                                                 *)

\* No record is told apart from every record.
LEMMA NoRecordIsNone == NoRecord \notin Record /\ NoRecord.by \notin Executions
BY AbsentAssumption DEF NoRecord, Record

\* A write moves its execution to one of two places.
LEMMA WrittenMoves ==
  ASSUME TypeOK, NEW i \in Executions, NEW label \in Running \cup Ended, NEW ok \in BOOLEAN,
         Written(i, label) \/ WrittenIf(i, ok, label)
  PROVE  /\ pc' \in [Executions -> Labels]
         /\ pc'[i] \in {label, "failed"}
         /\ WrittenIf(i, ok, label) => pc'[i] = "failed" \/ ok
         /\ \A j \in Executions \ {i} : pc'[j] = pc[j]
<1>1. PICK next \in {label, "failed"} : pc' = [pc EXCEPT ![i] = next]
  BY DEF Written, WrittenIf, Goto
<1>2. next \in Labels
  BY DEF Labels, Ended
<1>3. pc \in [Executions -> Labels]
  BY DEF TypeOK, Labels
<1>4. WrittenIf(i, ok, label) => pc'[i] = "failed" \/ ok
  BY <1>3 DEF WrittenIf, Goto
<1> QED BY <1>1, <1>2, <1>3, <1>4

\* So does a jump.
LEMMA GotoMoves ==
  ASSUME TypeOK, NEW i \in Executions, NEW label \in Running \cup Ended, Goto(i, label)
  PROVE  /\ pc' \in [Executions -> Labels]
         /\ pc'[i] = label
         /\ \A j \in Executions \ {i} : pc'[j] = pc[j]
BY DEF TypeOK, Labels, Goto

\* A create-or-verify write of the record keeps a stored one, and goes on only
\* when the store holds what it brought.
LEMMA RecordWritten ==
  ASSUME TypeOK, NEW i \in Executions, NEW label \in Running \cup Ended,
         root[i] \in Roots, result[i] \in Record, PutRecord(i, label)
  PROVE  /\ record' \in [Roots -> Record \cup {NoRecord}]
         /\ \A s \in Roots : record[s] # NoRecord => record'[s] = record[s]
         /\ \A s \in Roots : s # root[i] => record'[s] = record[s]
         /\ record[root[i]] = NoRecord => record'[root[i]] = result[i]
         /\ pc'[i] = "failed" \/ record'[root[i]] = result[i]
         /\ pc' \in [Executions -> Labels]
         /\ pc'[i] \in {label, "failed"}
         /\ \A j \in Executions \ {i} : pc'[j] = pc[j]
<1>1. record \in [Roots -> Record \cup {NoRecord}]
  BY DEF TypeOK
<1>2. record' = [record EXCEPT ![root[i]] = IF @ = NoRecord THEN result[i] ELSE @]
  BY DEF PutRecord
<1>3. /\ record' \in [Roots -> Record \cup {NoRecord}]
      /\ \A s \in Roots : record[s] # NoRecord => record'[s] = record[s]
      /\ \A s \in Roots : s # root[i] => record'[s] = record[s]
      /\ record[root[i]] = NoRecord => record'[root[i]] = result[i]
  BY <1>1, <1>2
<1>4. WrittenIf(i, record'[root[i]] = result[i], label)
  BY DEF PutRecord
<1>5. (record'[root[i]] = result[i]) \in BOOLEAN
  OBVIOUS
<1> QED BY <1>3, <1>4, <1>5, WrittenMoves

-----------------------------------------------------------------------------
(* Types.                                                                  *)

\* The system starts well-typed.
LEMMA InitTypes == Init => TypeOK
BY WindowAssumption DEF Init, TypeOK, Times

\* No step leaves the types, and a step leaves the other executions alone.
LEMMA StepTypes ==
  ASSUME TypeOK, LocalInv, NEW i \in Executions, Step(i)
  PROVE  /\ TypeOK'
         /\ \A j \in Executions \ {i} :
              pc'[j] = pc[j] /\ root'[j] = root[j] /\ result'[j] = result[j] /\ clock'[j] = clock[j]
<1> DEFINE Others == \A j \in Executions \ {i} :
              pc'[j] = pc[j] /\ root'[j] = root[j] /\ result'[j] = result[j] /\ clock'[j] = clock[j]
<1> USE DEF TypeOK
<1>k. Knows(i) /\ (pc[i] # "idle" => root[i] \in Roots)
  BY DEF LocalInv, Knows
<1>r. Failure(i) \in Record /\ \A buy \in BOOLEAN : [by |-> i, complete |-> TRUE, buy |-> buy] \in Record
  BY DEF Failure, Record
<1>1. CASE StartJob(i)
  BY <1>1, GotoMoves DEF StartJob, Running, Deciding, stores, Labels
<1>2. CASE Load(i)
  <2>1. record[root[i]] \in Record \cup {NoRecord}
    BY <1>2, <1>k DEF Load
  <2>2. \E r \in Record \cup {NoRecord}, label \in Running \cup Ended : Conclude(i, r, label)
    BY <1>2, <2>1 DEF Load, Running, Deciding, Uploading, Ended
  <2> QED BY <1>2, <2>2, GotoMoves DEF Load, Conclude, stores, Labels
<1>3. CASE Start(i)
  <2>1. \E r \in Record \cup {NoRecord}, label \in Running \cup Ended : Conclude(i, r, label)
    BY <1>3, <1>r DEF Start, Running, Deciding
  <2>2. clock' \in [Executions -> Times] /\ \A j \in Executions \ {i} : clock'[j] = clock[j]
    BY <1>3 DEF Start
  <2>u. UNCHANGED <<stores, root>>
    BY <1>3 DEF Start
  <2> QED BY <2>1, <2>2, <2>u, GotoMoves DEF Conclude, stores, Labels
<1>4. CASE Acquire(i)
  <2>1. \E r \in Record \cup {NoRecord}, label \in Running \cup Ended : Conclude(i, r, label)
    BY <1>4, <1>r DEF Acquire, Running, Deciding
  <2>2. \A t \in clock[i] .. MaxTime : t \in Times
    BY WindowAssumption DEF Times
  <2>3. clock' \in [Executions -> Times] /\ \A j \in Executions \ {i} : clock'[j] = clock[j]
    BY <1>4, <2>2 DEF Acquire
  <2>u. UNCHANGED <<stores, root>>
    BY <1>4 DEF Acquire
  <2> QED BY <2>1, <2>3, <2>u, GotoMoves DEF Conclude, stores, Labels
<1>5. CASE Evaluate(i)
  <2>1. \E r \in Record \cup {NoRecord}, label \in Running \cup Ended : Conclude(i, r, label)
    BY <1>5, <1>r DEF Evaluate, Running, Deciding
  <2>2. clock' \in [Executions -> Times] /\ \A j \in Executions \ {i} : clock'[j] = clock[j]
    BY <1>5 DEF Evaluate
  <2>u. UNCHANGED <<stores, root>>
    BY <1>5 DEF Evaluate
  <2> QED BY <2>1, <2>2, <2>u, GotoMoves DEF Conclude, stores, Labels
<1>6. CASE Decide(i)
  <2>1. \E r \in Record \cup {NoRecord}, label \in Running \cup Ended : Conclude(i, r, label)
    BY <1>6, <1>r DEF Decide, Running, Deciding
  <2>2. \A t \in clock[i] .. Deadline : t \in Times
    BY WindowAssumption DEF Times
  <2>3. clock' \in [Executions -> Times] /\ \A j \in Executions \ {i} : clock'[j] = clock[j]
    BY <1>6, <2>2 DEF Decide
  <2>u. UNCHANGED <<stores, root>>
    BY <1>6 DEF Decide
  <2> QED BY <2>1, <2>3, <2>u, GotoMoves DEF Conclude, stores, Labels
<1>7. CASE PutNotification(i)
  <2>1. \E label \in Running \cup Ended : Written(i, label)
    BY <1>7 DEF PutNotification, Running, Deciding
  <2> QED BY <1>7, <2>1, WrittenMoves DEF PutNotification, Labels
<1>8. CASE Register(i)
  <2>1. \E label \in Running \cup Ended : Written(i, label)
    BY <1>8 DEF Register, Running, Deciding
  <2> QED BY <1>8, <2>1, WrittenMoves DEF Register, Labels
<1>9. CASE SealRecord(i)
  <2>1. root[i] \in Roots /\ result[i] \in Record /\ "verify" \in Running \cup Ended
    BY <1>9, <1>k DEF SealRecord, Knows, KnowsDecision, Running, Uploading
  <2> QED BY <1>9, <2>1, RecordWritten DEF SealRecord, Labels
<1>10. CASE VerifyInputs(i)
  <2>1. \E label \in Running \cup Ended : Goto(i, label)
    BY <1>10 DEF VerifyInputs, FirstUpload, Running, Uploading, Kinds, Ended
  <2> QED BY <1>10, <2>1, GotoMoves DEF VerifyInputs, stores, Labels
<1>11. CASE Upload(i)
  <2>1. \E label \in Running \cup Ended : Written(i, label)
    BY <1>11 DEF Upload, NextUpload, Running, Uploading, Kinds
  <2>2. result[i] \in Record
    BY <1>11, <1>k DEF Upload, Knows, KnowsPublication, Sealed, Uploading
  <2>3. objects' \subseteq [kind : Kinds, of : Record]
    BY <1>11, <2>2 DEF Upload
  <2> QED BY <1>11, <2>1, <2>3, WrittenMoves DEF Upload, Labels
<1>12. CASE UploadManifest(i)
  <2>1. "lookup" \in Running \cup Ended
    BY DEF Running, Delivering
  <2>2. result[i] \in Record
    BY <1>12, <1>k DEF UploadManifest, Knows, KnowsPublication, Sealed, Uploading
  <2> QED BY <1>12, <2>1, <2>2, WrittenMoves DEF UploadManifest, Labels
<1>13. CASE LookUpReceipt(i)
  <2>1. \E label \in Running \cup Ended : Goto(i, label)
    BY <1>13 DEF LookUpReceipt, Running, Delivering, Ended
  <2> QED BY <1>13, <2>1, GotoMoves DEF LookUpReceipt, stores, Labels
<1>14. CASE Post(i)
  <2>1. "receipt" \in Running \cup Ended
    BY DEF Running, Delivering
  <2>2. sent' = [sent EXCEPT ![result[i].by] = @ + 1]
    BY <1>14 DEF Post
  <2>3. result[i].by \in Executions
    BY <1>14, <1>k DEF Post, Knows, KnowsPublication, Sealed, Delivering, Record
  <2>4. sent[result[i].by] + 1 \in Nat
    BY <2>3
  <2>5. sent' \in [Executions -> Nat]
    BY <2>2, <2>4
  <2> QED BY <1>14, <2>1, <2>5, WrittenMoves DEF Post, Labels
<1>15. CASE PutReceipt(i)
  <2>1. "done" \in Running \cup Ended
    BY DEF Ended
  <2>2. root[i] \in Roots /\ result[i] \in Record /\ result[i].by \in Executions
    BY <1>15, <1>k DEF PutReceipt, Knows, KnowsPublication, Sealed, Delivering, Record
  <2>3. receipt' \in [Roots -> [Executions -> Executions \cup {None}]]
    BY <1>15, <2>2 DEF PutReceipt
  <2>4. (receipt'[root[i]][result[i].by] = i) \in BOOLEAN
    OBVIOUS
  <2> QED BY <1>15, <2>1, <2>3, <2>4, WrittenMoves DEF PutReceipt, Labels
<1>16. CASE StartRestore(i)
  <2>1. \E s \in Roots, m \in Record : root' = [root EXCEPT ![i] = s] /\ Conclude(i, m, "fetch")
    BY <1>16 DEF StartRestore
  <2>2. "fetch" \in Running \cup Ended
    BY DEF Running, Restoring
  <2> QED BY <1>16, <2>1, <2>2, GotoMoves DEF StartRestore, Conclude, stores, Labels
<1>17. CASE Fetch(i)
  <2>1. \E label \in Running \cup Ended : Goto(i, label)
    BY <1>17 DEF Fetch, Running, Restoring
  <2> QED BY <1>17, <2>1, GotoMoves DEF Fetch, stores, Labels
<1>m. pc[i] \in Restoring => result[i] \in Record /\ result[i].by \in Executions /\ root[i] \in Roots
  BY <1>k DEF Knows, KnowsRestore, Record, Restoring
<1>18. CASE RestoreNotification(i)
  <2>1. \E label \in Running \cup Ended : Written(i, label)
    BY <1>18 DEF RestoreNotification, Running, Restoring
  <2>2. outbox' \in [Roots -> SUBSET Executions]
    BY <1>18, <1>m DEF RestoreNotification, Restoring
  <2> QED BY <1>18, <2>1, <2>2, WrittenMoves DEF RestoreNotification, Labels
<1>19. CASE RestoreRegistration(i)
  <2>1. \E label \in Running \cup Ended : Written(i, label)
    BY <1>19 DEF RestoreRegistration, Running, Restoring
  <2>2. paper' \in [Roots -> SUBSET Executions]
    BY <1>19, <1>m DEF RestoreRegistration, Restoring
  <2> QED BY <1>19, <2>1, <2>2, WrittenMoves DEF RestoreRegistration, Labels
<1>20. CASE RestoreRecord(i)
  <2>1. root[i] \in Roots /\ result[i] \in Record /\ "restored" \in Running \cup Ended
    BY <1>20, <1>m DEF RestoreRecord, Restoring, Ended
  <2> QED BY <1>20, <2>1, RecordWritten DEF RestoreRecord, Labels
<1>21. CASE Abort(i)
  <2>1. "failed" \in Running \cup Ended
    BY DEF Ended
  <2> QED BY <1>21, <2>1, GotoMoves DEF Abort, stores, Labels
<1> QED
  BY <1>1, <1>2, <1>3, <1>4, <1>5, <1>6, <1>7, <1>8, <1>9, <1>10, <1>11, <1>12, <1>13, <1>14,
     <1>15, <1>16, <1>17, <1>18, <1>19, <1>20, <1>21 DEF Step

-----------------------------------------------------------------------------
(* The stores only grow, and a decision that was taken stays.              *)

LEMMA StoreGrows ==
  ASSUME TypeOK, LocalInv, NEW i \in Executions, Step(i)
  PROVE  /\ \A s \in Roots : outbox[s] \subseteq outbox'[s] /\ paper[s] \subseteq paper'[s]
         /\ objects \subseteq objects' /\ manifests \subseteq manifests'
         /\ \A s \in Roots : record[s] # NoRecord => record'[s] = record[s]
         /\ \A e \in Executions : sent[e] > 0 => sent'[e] > 0
         /\ \A e \in Executions : pc[e] \notin Undecided => pc'[e] \notin Undecided /\ clock'[e] = clock[e]
<1> USE DEF TypeOK
<1>t. TypeOK'
  BY StepTypes
<1>k. Knows(i) /\ (pc[i] # "idle" => root[i] \in Roots)
  BY DEF LocalInv, Knows
<1>1. \A s \in Roots : outbox[s] \subseteq outbox'[s] /\ paper[s] \subseteq paper'[s]
  <2>1. CASE PutNotification(i)
    BY <2>1 DEF PutNotification
  <2>2. CASE Register(i)
    BY <2>2 DEF Register
  <2>3. CASE RestoreNotification(i)
    BY <2>3 DEF RestoreNotification
  <2>4. CASE RestoreRegistration(i)
    BY <2>4 DEF RestoreRegistration
  <2>5. CASE UNCHANGED <<outbox, paper>>
    BY <2>5
  <2> QED
    BY <2>1, <2>2, <2>3, <2>4, <2>5
    DEF Step, StartJob, Load, Start, Acquire, Evaluate, Decide, SealRecord, VerifyInputs, Upload,
        UploadManifest, LookUpReceipt, Post, PutReceipt, StartRestore, Fetch, RestoreRecord, Abort, stores
<1>2. objects \subseteq objects' /\ manifests \subseteq manifests'
  BY DEF Step, StartJob, Load, Start, Acquire, Evaluate, Decide, PutNotification, Register, SealRecord,
         VerifyInputs, Upload, UploadManifest, LookUpReceipt, Post, PutReceipt, StartRestore, Fetch,
         RestoreNotification, RestoreRegistration, RestoreRecord, Abort, stores
<1>3. \A s \in Roots : record[s] # NoRecord => record'[s] = record[s]
  <2>1. CASE \E label \in Running \cup Ended : PutRecord(i, label)
    BY <2>1 DEF PutRecord
  <2>2. CASE UNCHANGED record
    BY <2>2
  <2>3. {"verify", "restored"} \subseteq Running \cup Ended
    BY DEF Running, Uploading, Ended
  <2> QED
    BY <2>1, <2>2, <2>3
    DEF Step, StartJob, Load, Start, Acquire, Evaluate, Decide, PutNotification, Register, SealRecord,
        VerifyInputs, Upload, UploadManifest, LookUpReceipt, Post, PutReceipt, StartRestore, Fetch,
        RestoreNotification, RestoreRegistration, RestoreRecord, Abort, stores
<1>4. \A e \in Executions : sent[e] > 0 => sent'[e] > 0
  <2>1. CASE Post(i)
    <3>1. result[i].by \in Executions
      BY <2>1, <1>k DEF Post, Knows, KnowsPublication, Sealed, Delivering, Record
    <3>2. sent' = [sent EXCEPT ![result[i].by] = @ + 1]
      BY <2>1 DEF Post
    <3>3. \A e \in Executions : sent[e] \in Nat
      OBVIOUS
    <3> QED BY <3>1, <3>2, <3>3
  <2>2. CASE UNCHANGED sent
    BY <2>2
  <2> QED
    BY <2>1, <2>2
    DEF Step, StartJob, Load, Start, Acquire, Evaluate, Decide, PutNotification, Register, SealRecord,
        VerifyInputs, Upload, UploadManifest, LookUpReceipt, PutReceipt, StartRestore, Fetch,
        RestoreNotification, RestoreRegistration, RestoreRecord, Abort, stores
<1>5. \A e \in Executions : pc[e] \notin Undecided => pc'[e] \notin Undecided /\ clock'[e] = clock[e]
  <2> SUFFICES ASSUME pc[i] \notin Undecided PROVE pc'[i] \notin Undecided /\ clock'[i] = clock[i]
    BY StepTypes
  <2>1. UNCHANGED clock
    BY DEF Step, StartJob, Load, Start, Acquire, Evaluate, Decide, PutNotification, Register, SealRecord,
           VerifyInputs, Upload, UploadManifest, LookUpReceipt, Post, PutReceipt, StartRestore, Fetch,
           RestoreNotification, RestoreRegistration, RestoreRecord, Abort, Undecided, Deciding
  <2>2. pc'[i] \notin Undecided
    <3>1. CASE VerifyInputs(i)
      BY <3>1 DEF VerifyInputs, FirstUpload, Goto, Undecided, Deciding
    <3>2. CASE Upload(i)
      BY <3>2 DEF Upload, NextUpload, Written, Goto, Undecided, Deciding
    <3>3. CASE UploadManifest(i) \/ LookUpReceipt(i) \/ Post(i) \/ PutReceipt(i)
      BY <3>3 DEF UploadManifest, LookUpReceipt, Post, PutReceipt, Written, WrittenIf, Goto, Undecided, Deciding
    <3>4. CASE Fetch(i) \/ RestoreNotification(i) \/ RestoreRegistration(i)
      BY <3>4 DEF Fetch, RestoreNotification, RestoreRegistration, Written, Goto, Undecided, Deciding
    <3>5. CASE RestoreRecord(i) \/ Abort(i)
      BY <3>5 DEF RestoreRecord, PutRecord, WrittenIf, Abort, Goto, Undecided, Deciding
    <3> QED
      BY <3>1, <3>2, <3>3, <3>4, <3>5
      DEF Step, StartJob, Load, Start, Acquire, Evaluate, Decide, PutNotification, Register, SealRecord,
          StartRestore, Undecided, Deciding
  <2> QED BY <2>1, <2>2
<1> QED BY <1>1, <1>2, <1>3, <1>4, <1>5

\* What is final stays final, and what is backed or stored stays so.
LEMMA FactsStay ==
  ASSUME TypeOK, LocalInv, NEW i \in Executions, Step(i), NEW r \in Record, NEW s \in Roots
  PROVE  /\ Final(r) => Final(r)'
         /\ Backed(s, r) => Backed(s, r)'
         /\ \A kind : Stored(kind, r) => Stored(kind, r)'
<1>1. r.by \in Executions
  BY DEF Record
<1> QED BY <1>1, StoreGrows DEF Final, InWindow, Backed, Stored

\* The other executions keep what they know.
LEMMA OthersKnow ==
  ASSUME TypeOK, LocalInv, NEW i \in Executions, Step(i), NEW j \in Executions, j # i
  PROVE  Knows(j)'
<1>1. pc'[j] = pc[j] /\ root'[j] = root[j] /\ result'[j] = result[j] /\ clock'[j] = clock[j]
  BY StepTypes
<1>2. Knows(j)
  BY DEF LocalInv
<1>3. pc[j] # "idle" => root[j] \in Roots
  BY <1>2 DEF Knows
<1>4. KnowsDecision(j)'
  <2>1. KnowsDecision(j)
    BY <1>2 DEF Knows
  <2>2. pc[j] = "ledger" => j \in outbox'[root[j]]
    BY <2>1, <1>3, StoreGrows DEF KnowsDecision
  <2>3. pc[j] = "seal" => Backed(root[j], result[j])'
    BY <2>1, <1>3, <1>1, FactsStay DEF KnowsDecision, Backed
  <2> QED BY <2>1, <2>2, <2>3, <1>1 DEF KnowsDecision, InWindow, Backed
<1>5. KnowsPublication(j)'
  <2>1. KnowsPublication(j)
    BY <1>2 DEF Knows
  <2>2. pc[j] \in Sealed => record'[root[j]] = result[j]
    <3>1. pc[j] \in Sealed => root[j] \in Roots
      BY <1>3 DEF Sealed, Uploading, Delivering, Kinds
    <3> QED BY <3>1, <2>1, StoreGrows, NoRecordIsNone DEF KnowsPublication
  <2>3. \A kind : Stored(kind, result[j]) => Stored(kind, result[j])'
    BY <1>1, StoreGrows DEF Stored
  <2>4. pc[j] \in Published => result[j] \in manifests'
    BY <2>1, StoreGrows DEF KnowsPublication
  <2>5. pc[j] \in {"receipt", "done"} => sent'[result[j].by] > 0
    <3>1. pc[j] \in {"receipt", "done"} => result[j].by \in Executions
      BY <2>1 DEF KnowsPublication, Sealed, Delivering, Record
    <3> QED BY <3>1, <2>1, StoreGrows DEF KnowsPublication
  <2> QED BY <2>1, <2>2, <2>3, <2>4, <2>5, <1>1 DEF KnowsPublication
<1>6. KnowsRestore(j)'
  <2>1. KnowsRestore(j)
    BY <1>2 DEF Knows
  <2>2. pc[j] \in Restoring => result[j] \in manifests'
    BY <2>1, StoreGrows DEF KnowsRestore
  <2>3. pc[j] = "restoreLedger" => result[j].by \in outbox'[root[j]]
    BY <2>1, <1>3, StoreGrows DEF KnowsRestore
  <2>4. pc[j] = "restoreRecord" => Backed(root[j], result[j])'
    BY <2>1, <1>3, <1>1, StoreGrows DEF KnowsRestore, Backed
  <2>5. pc[j] = "restored" => record'[root[j]] = result[j]
    BY <2>1, <1>3, StoreGrows, NoRecordIsNone DEF KnowsRestore
  <2> QED BY <2>1, <2>2, <2>3, <2>4, <2>5, <1>1 DEF KnowsRestore
<1> QED BY <1>1, <1>3, <1>4, <1>5, <1>6 DEF Knows

-----------------------------------------------------------------------------
(* What the acting execution learns.                                       *)

\* While it decides.
LEMMA DecisionStep ==
  ASSUME TypeOK, LocalInv, NEW i \in Executions,
         \/ StartJob(i) \/ Start(i) \/ Acquire(i) \/ Evaluate(i) \/ Decide(i)
         \/ PutNotification(i) \/ Register(i)
  PROVE  Knows(i)'
<1> USE DEF TypeOK
<1>k. Knows(i)
  BY DEF LocalInv
<1>w. /\ NotBefore \in Nat /\ Deadline \in Nat
      /\ \A t \in Times : t \in Nat
  BY WindowAssumption DEF Times
<1>o. /\ pc'[i] \in Deciding \cup {"failed"} => KnowsPublication(i)' /\ KnowsRestore(i)'
      /\ pc'[i] = "failed" => KnowsDecision(i)'
  BY DEF KnowsDecision, KnowsPublication, KnowsRestore, Deciding, Sealed, Published, Uploading, Delivering,
         Restoring, Kinds
<1>f. Failure(i) \in Record /\ Failure(i).by = i /\ ~Failure(i).complete /\ ~Failure(i).buy
  BY DEF Failure, Record
<1>1. CASE StartJob(i)
  <2>1. pc'[i] = "load" /\ root'[i] \in Roots
    BY <1>1 DEF StartJob, Goto
  <2> QED BY <2>1, <1>o DEF Knows, KnowsDecision, Deciding
<1>2. CASE Start(i)
  <2>1. root'[i] \in Roots
    BY <1>2, <1>k DEF Start, Knows
  <2>2. \/ pc'[i] = "inputs" /\ NotBefore <= clock'[i]
        \/ pc'[i] = "seal" /\ result'[i] = Failure(i)
    <3>1. PICK t \in Times :
            IF NotBefore <= t /\ t <= Deadline
            THEN clock' = [clock EXCEPT ![i] = t] /\ Conclude(i, result[i], "inputs")
            ELSE UNCHANGED clock /\ Conclude(i, Failure(i), "seal")
      BY <1>2 DEF Start
    <3> QED BY <3>1 DEF Conclude, Goto
  <2> QED BY <2>1, <2>2, <1>f, <1>o DEF Knows, KnowsDecision, Deciding, Backed
<1>3. CASE Acquire(i)
  <2>1. root'[i] \in Roots
    BY <1>3, <1>k DEF Acquire, Knows
  <2>2. \/ pc'[i] = "evaluate" /\ NotBefore <= clock'[i]
        \/ pc'[i] = "seal" /\ result'[i] = Failure(i)
    <3>1. NotBefore <= clock[i] /\ clock[i] \in Nat
      BY <1>3, <1>k, <1>w DEF Acquire, Knows, KnowsDecision
    <3>2. CASE \E t \in clock[i] .. MaxTime :
                 clock' = [clock EXCEPT ![i] = t] /\ Conclude(i, result[i], "evaluate")
      <4>1. PICK t \in clock[i] .. MaxTime :
                 clock' = [clock EXCEPT ![i] = t] /\ Conclude(i, result[i], "evaluate")
        BY <3>2
      <4>2. NotBefore <= t
        BY <3>1, <1>w, WindowAssumption
      <4> QED BY <4>1, <4>2 DEF Conclude, Goto
    <3>3. CASE Conclude(i, Failure(i), "seal")
      BY <3>3 DEF Conclude, Goto
    <3> QED BY <1>3, <3>2, <3>3 DEF Acquire
  <2> QED BY <2>1, <2>2, <1>f, <1>o DEF Knows, KnowsDecision, Deciding, Backed
<1>4. CASE Evaluate(i)
  <2>1. root'[i] \in Roots
    BY <1>4, <1>k DEF Evaluate, Knows
  <2>2. \/ pc'[i] = "decide" /\ NotBefore <= clock'[i] /\ clock'[i] <= Deadline
        \/ pc'[i] = "seal" /\ result'[i] = Failure(i)
    <3>1. NotBefore <= clock[i] /\ clock[i] \in Nat
      BY <1>4, <1>k, <1>w DEF Evaluate, Knows, KnowsDecision
    <3>2. PICK t \in Times :
            IF clock[i] <= t /\ t <= Deadline
            THEN clock' = [clock EXCEPT ![i] = t] /\ Conclude(i, result[i], "decide")
            ELSE UNCHANGED clock /\ Conclude(i, Failure(i), "seal")
      BY <1>4 DEF Evaluate
    <3>3. clock[i] <= t => NotBefore <= t
      BY <3>1, <1>w
    <3> QED BY <3>2, <3>3 DEF Conclude, Goto
  <2> QED BY <2>1, <2>2, <1>f, <1>o DEF Knows, KnowsDecision, InWindow, Deciding, Backed
<1>5. CASE Decide(i)
  <2>1. root'[i] \in Roots
    BY <1>5, <1>k DEF Decide, Knows
  <2>2. \/ /\ pc'[i] = "outbox" /\ result'[i] \in Record /\ result'[i].by = i /\ result'[i].complete
           /\ NotBefore <= clock'[i] /\ clock'[i] <= Deadline
        \/ pc'[i] = "seal" /\ result'[i] = Failure(i)
    <3>1. NotBefore <= clock[i] /\ clock[i] \in Nat
      BY <1>5, <1>k, <1>w DEF Decide, Knows, KnowsDecision, InWindow
    <3>2. CASE \E t \in clock[i] .. Deadline, buy \in BOOLEAN :
                 /\ clock' = [clock EXCEPT ![i] = t]
                 /\ Conclude(i, [by |-> i, complete |-> TRUE, buy |-> buy], "outbox")
      <4>1. PICK t \in clock[i] .. Deadline, buy \in BOOLEAN :
                 /\ clock' = [clock EXCEPT ![i] = t]
                 /\ Conclude(i, [by |-> i, complete |-> TRUE, buy |-> buy], "outbox")
        BY <3>2
      <4>2. NotBefore <= t /\ t <= Deadline
        BY <3>1, <1>w
      <4>3. [by |-> i, complete |-> TRUE, buy |-> buy] \in Record
        BY DEF Record
      <4> QED BY <4>1, <4>2, <4>3 DEF Conclude, Goto
    <3>3. CASE Conclude(i, Failure(i), "seal")
      BY <3>3 DEF Conclude, Goto
    <3> QED BY <1>5, <3>2, <3>3 DEF Decide
  <2> QED BY <2>1, <2>2, <1>f, <1>o DEF Knows, KnowsDecision, InWindow, Deciding, Backed
<1>6. CASE PutNotification(i)
  <2>1. /\ root[i] \in Roots /\ result[i] \in Record /\ result[i].by = i /\ result[i].complete
        /\ InWindow(i)
    BY <1>6, <1>k DEF PutNotification, Knows, KnowsDecision
  <2>2. /\ i \in outbox'[root[i]]
        /\ pc'[i] \in {IF result[i].buy THEN "ledger" ELSE "seal", "failed"}
        /\ UNCHANGED <<root, result, clock>>
    BY <1>6, <2>1 DEF PutNotification, Written, Goto
  <2> QED BY <2>1, <2>2, <1>o DEF Knows, KnowsDecision, InWindow, Deciding, Backed
<1>7. CASE Register(i)
  <2>1. /\ root[i] \in Roots /\ result[i] \in Record /\ result[i].by = i /\ result[i].complete
        /\ InWindow(i) /\ result[i].buy /\ i \in outbox[root[i]]
    BY <1>7, <1>k DEF Register, Knows, KnowsDecision
  <2>2. /\ i \in paper'[root[i]]
        /\ pc'[i] \in {"seal", "failed"}
        /\ UNCHANGED <<outbox, root, result, clock>>
    BY <1>7, <2>1 DEF Register, Written, Goto
  <2> QED BY <2>1, <2>2, <1>o DEF Knows, KnowsDecision, InWindow, Deciding, Backed
<1> QED BY <1>1, <1>2, <1>3, <1>4, <1>5, <1>6, <1>7

\* While it publishes and delivers.
LEMMA PublicationStep ==
  ASSUME TypeOK, StoreInv, LocalInv, NEW i \in Executions,
         \/ Load(i) \/ SealRecord(i) \/ VerifyInputs(i) \/ Upload(i) \/ UploadManifest(i)
         \/ LookUpReceipt(i) \/ Post(i) \/ PutReceipt(i)
  PROVE  Knows(i)'
<1> USE DEF TypeOK
<1>k. Knows(i)
  BY DEF LocalInv
<1>o. /\ pc'[i] \in Sealed \cup {"failed"} => KnowsDecision(i)' /\ KnowsRestore(i)'
      /\ pc'[i] = "failed" => KnowsPublication(i)'
  BY DEF KnowsDecision, KnowsPublication, KnowsRestore, Sealed, Published, Uploading, Delivering,
         Restoring, Kinds
<1>s. pc[i] \in Sealed => root[i] \in Roots /\ result[i] \in Record /\ record[root[i]] = result[i]
  BY <1>k DEF Knows, KnowsPublication, Sealed, Uploading, Delivering, Kinds
<1>1. CASE Load(i)
  <2>1. root[i] \in Roots /\ root' = root
    BY <1>1, <1>k DEF Load, Knows
  <2>2. \/ pc'[i] \in {"start", "failed"}
        \/ /\ pc'[i] = "verify" /\ record' = record
           /\ record[root[i]] # NoRecord /\ result'[i] = record[root[i]]
    BY <1>1, <2>1 DEF Load, Conclude, Goto, stores
  <2>3. pc'[i] = "start" => KnowsDecision(i)' /\ KnowsPublication(i)' /\ KnowsRestore(i)'
    BY DEF KnowsDecision, KnowsPublication, KnowsRestore, Sealed, Published, Uploading, Delivering,
           Restoring, Kinds
  <2>4. pc'[i] = "verify" => KnowsPublication(i)'
    BY <2>1, <2>2 DEF KnowsPublication, Published, Delivering
  <2> QED BY <2>1, <2>2, <2>3, <2>4, <1>o DEF Knows, Sealed, Uploading
<1>2. CASE SealRecord(i)
  <2>1. root[i] \in Roots /\ result[i] \in Record /\ "verify" \in Running \cup Ended
    BY <1>2, <1>k DEF SealRecord, Knows, KnowsDecision, Running, Uploading
  <2>p. PutRecord(i, "verify")
    BY <1>2 DEF SealRecord
  <2>2. pc'[i] = "failed" \/ (pc'[i] = "verify" /\ record'[root[i]] = result[i])
    BY <2>1, <2>p, RecordWritten
  <2>3. UNCHANGED <<root, result>>
    BY <1>2 DEF SealRecord
  <2>4. pc'[i] = "verify" => KnowsPublication(i)'
    BY <2>1, <2>2, <2>3 DEF KnowsPublication, Published, Delivering
  <2> QED BY <2>1, <2>2, <2>3, <2>4, <1>o DEF Knows, Sealed, Uploading
<1>3. CASE VerifyInputs(i)
  <2>1. pc[i] = "verify" /\ UNCHANGED <<stores, root, result>>
    BY <1>3 DEF VerifyInputs
  <2>2. root[i] \in Roots /\ result[i] \in Record /\ record[root[i]] = result[i]
    BY <1>s, <2>1 DEF Sealed, Uploading
  <2>3. \/ pc'[i] = "notification" /\ result[i].complete
        \/ pc'[i] = "record" /\ ~result[i].complete
        \/ pc'[i] = "failed"
    BY <1>3 DEF VerifyInputs, FirstUpload, Goto
  <2>4. ~result[i].complete => Needed(result[i]) = {"record"}
    BY <2>2 DEF Needed, Record
  <2>5. pc'[i] # "failed" => KnowsPublication(i)'
    BY <2>1, <2>2, <2>3, <2>4 DEF KnowsPublication, Published, Delivering, stores
  <2> QED BY <2>1, <2>2, <2>3, <2>5, <1>o DEF Knows, Sealed, Uploading, Kinds
<1>4. CASE Upload(i)
  <2>1. /\ pc[i] \in Kinds /\ UNCHANGED <<record, manifests, sent, root, result>>
        /\ objects' = objects \cup {[kind |-> pc[i], of |-> result[i]]}
    BY <1>4 DEF Upload
  <2>2. root[i] \in Roots /\ result[i] \in Record /\ record[root[i]] = result[i]
    BY <1>s, <2>1 DEF Sealed, Uploading
  <2>3. pc'[i] \in {NextUpload(result[i], pc[i]), "failed"}
    BY <1>4 DEF Upload, Written, Goto
  <2>4. /\ \A kind : kind = pc[i] => Stored(kind, result[i])'
        /\ \A kind : Stored(kind, result[i]) => Stored(kind, result[i])'
    BY <2>1 DEF Stored
  <2>5. KnowsPublication(i)
    BY <1>k DEF Knows
  <2>6. CASE pc[i] = "notification"
    <3>1. \/ pc'[i] = "registration" /\ result[i].buy
          \/ pc'[i] = "record" /\ ~result[i].buy
          \/ pc'[i] = "failed"
      BY <2>3, <2>6 DEF NextUpload
    <3>2. ~result[i].buy => Needed(result[i]) \subseteq {"record", "notification"}
      BY DEF Needed
    <3> QED BY <2>1, <2>2, <2>4, <2>6, <3>1, <3>2, <1>o
            DEF Knows, KnowsPublication, Published, Delivering, Sealed, Uploading, Kinds
  <2>7. CASE pc[i] = "registration"
    <3>1. pc'[i] \in {"record", "failed"}
      BY <2>3, <2>7 DEF NextUpload
    <3>2. Stored("notification", result[i])
      BY <2>5, <2>7 DEF KnowsPublication
    <3>3. Needed(result[i]) \subseteq {"record", "notification", "registration"}
      BY DEF Needed
    <3> QED BY <2>1, <2>2, <2>4, <2>7, <3>1, <3>2, <3>3, <1>o
            DEF Knows, KnowsPublication, Published, Delivering, Sealed, Uploading, Kinds
  <2>8. CASE pc[i] = "record"
    <3>1. pc'[i] \in {"manifest", "failed"}
      BY <2>3, <2>8 DEF NextUpload
    <3>2. \A kind \in Needed(result[i]) \ {"record"} : Stored(kind, result[i])
      BY <2>5, <2>8 DEF KnowsPublication
    <3> QED BY <2>1, <2>2, <2>4, <2>8, <3>1, <3>2, <1>o
            DEF Knows, KnowsPublication, Published, Delivering, Sealed, Uploading, Kinds
  <2> QED BY <2>1, <2>6, <2>7, <2>8 DEF Kinds
<1>5. CASE UploadManifest(i)
  <2>1. pc[i] = "manifest" /\ UNCHANGED <<record, root, result>> /\ result[i] \in manifests'
    BY <1>5 DEF UploadManifest
  <2>2. pc'[i] \in {"lookup", "failed"}
    BY <1>5 DEF UploadManifest, Written, Goto
  <2>3. root[i] \in Roots /\ result[i] \in Record /\ record[root[i]] = result[i]
    BY <1>s, <2>1 DEF Sealed, Uploading
  <2>4. pc'[i] = "lookup" => KnowsPublication(i)'
    BY <2>1, <2>3 DEF KnowsPublication
  <2> QED BY <2>1, <2>2, <2>3, <2>4, <1>o DEF Knows, Sealed, Delivering
<1>6. CASE LookUpReceipt(i) \/ Post(i) \/ PutReceipt(i)
  <2>1. pc[i] \in Delivering /\ UNCHANGED <<record, manifests, root, result>>
    BY <1>6 DEF LookUpReceipt, Post, PutReceipt, Delivering, stores
  <2>2. root[i] \in Roots /\ result[i] \in Record /\ record[root[i]] = result[i] /\ result[i] \in manifests
    BY <1>s, <1>k, <2>1 DEF Sealed, Knows, KnowsPublication, Published
  <2>3. result[i].by \in Executions
    BY <2>2 DEF Record
  <2>4. pc'[i] \in Published \cup {"failed"} /\ (pc'[i] \in {"receipt", "done"} => sent'[result[i].by] > 0)
    <3>1. CASE LookUpReceipt(i)
      BY <3>1, <2>2, <2>3 DEF LookUpReceipt, Goto, Published, Delivering, StoreInv, ReceiptsSent, stores
    <3>2. CASE Post(i)
      <4>1. sent[result[i].by] \in Nat /\ sent' = [sent EXCEPT ![result[i].by] = @ + 1]
        BY <3>2, <2>3 DEF Post
      <4>2. sent'[result[i].by] > 0
        BY <4>1, <2>3
      <4> QED BY <3>2, <4>2 DEF Post, Written, Goto, Published, Delivering
    <3>3. CASE PutReceipt(i)
      <4>1. sent[result[i].by] > 0
        BY <3>3, <1>k DEF PutReceipt, Knows, KnowsPublication
      <4> QED BY <3>3, <4>1 DEF PutReceipt, WrittenIf, Goto, Published
    <3> QED BY <1>6, <3>1, <3>2, <3>3
  <2>5. pc'[i] \in Published => KnowsPublication(i)'
    BY <2>1, <2>2, <2>4 DEF KnowsPublication, Published, Delivering
  <2> QED BY <2>1, <2>2, <2>4, <2>5, <1>o DEF Knows, Sealed, Published
<1> QED BY <1>1, <1>2, <1>3, <1>4, <1>5, <1>6

\* While it restores, and when it ends.
LEMMA RestoreStep ==
  ASSUME TypeOK, StoreInv, LocalInv, NEW i \in Executions,
         \/ StartRestore(i) \/ Fetch(i) \/ RestoreNotification(i) \/ RestoreRegistration(i)
         \/ RestoreRecord(i) \/ Abort(i)
  PROVE  Knows(i)'
<1> USE DEF TypeOK
<1>k. Knows(i)
  BY DEF LocalInv
<1>o. /\ pc'[i] \in Restoring \cup {"restored", "failed"} => KnowsDecision(i)' /\ KnowsPublication(i)'
      /\ pc'[i] = "failed" => KnowsRestore(i)'
  BY DEF KnowsDecision, KnowsPublication, KnowsRestore, Sealed, Published, Uploading, Delivering,
         Restoring, Kinds
<1>m. pc[i] \in Restoring =>
        root[i] \in Roots /\ result[i] \in manifests /\ result[i] \in Record /\ result[i].by \in Executions
  BY <1>k DEF Knows, KnowsRestore, Record, Restoring
<1>1. CASE StartRestore(i)
  <2>1. root'[i] \in Roots /\ pc'[i] = "fetch" /\ result'[i] \in manifests'
    BY <1>1 DEF StartRestore, Conclude, Goto, stores
  <2> QED BY <2>1, <1>o DEF Knows, KnowsRestore, Restoring
<1>2. CASE Fetch(i)
  <2>1. pc[i] = "fetch" /\ UNCHANGED <<stores, root, result>>
    BY <1>2 DEF Fetch
  <2>2. pc'[i] = IF result[i].complete THEN "restoreOutbox" ELSE "restoreRecord"
    BY <1>2 DEF Fetch, Goto
  <2>3. result[i].buy => result[i].complete
    BY <1>m, <2>1 DEF Restoring, Record
  <2>4. ~result[i].complete => Backed(root[i], result[i])'
    BY <2>3, <2>1 DEF Backed
  <2> QED BY <2>1, <2>2, <2>4, <1>m, <1>o DEF Knows, KnowsRestore, Restoring, Backed, stores
<1>3. CASE RestoreNotification(i)
  <2>1. pc[i] = "restoreOutbox" /\ UNCHANGED <<manifests, root, result>>
    BY <1>3 DEF RestoreNotification
  <2>2. pc'[i] \in {IF result[i].buy THEN "restoreLedger" ELSE "restoreRecord", "failed"}
    BY <1>3 DEF RestoreNotification, Written, Goto
  <2>3. root[i] \in Roots /\ result[i].by \in Executions /\ result[i] \in manifests /\ result[i].complete
    BY <1>k, <1>m, <2>1 DEF Knows, KnowsRestore, Restoring
  <2>4. result[i].by \in outbox'[root[i]]
    BY <1>3, <2>3 DEF RestoreNotification
  <2> QED BY <2>1, <2>2, <2>3, <2>4, <1>o DEF Knows, KnowsRestore, Restoring, Backed
<1>4. CASE RestoreRegistration(i)
  <2>1. pc[i] = "restoreLedger" /\ UNCHANGED <<outbox, manifests, root, result>>
    BY <1>4 DEF RestoreRegistration
  <2>2. pc'[i] \in {"restoreRecord", "failed"}
    BY <1>4 DEF RestoreRegistration, Written, Goto
  <2>3. root[i] \in Roots /\ result[i].by \in Executions /\ result[i] \in manifests
    BY <1>m, <2>1 DEF Restoring
  <2>4. result[i].by \in outbox[root[i]]
    BY <1>k, <2>1 DEF Knows, KnowsRestore
  <2>5. result[i].by \in paper'[root[i]]
    BY <1>4, <2>3 DEF RestoreRegistration
  <2> QED BY <2>1, <2>2, <2>3, <2>4, <2>5, <1>o DEF Knows, KnowsRestore, Restoring, Backed
<1>5. CASE RestoreRecord(i)
  <2>1. pc[i] = "restoreRecord" /\ UNCHANGED <<root, result>>
    BY <1>5 DEF RestoreRecord
  <2>2. root[i] \in Roots /\ result[i] \in Record /\ "restored" \in Running \cup Ended
    BY <1>m, <2>1 DEF Restoring, Ended
  <2>p. PutRecord(i, "restored")
    BY <1>5 DEF RestoreRecord
  <2>3. pc'[i] = "failed" \/ (pc'[i] = "restored" /\ record'[root[i]] = result[i])
    BY <2>2, <2>p, RecordWritten
  <2> QED BY <2>1, <2>2, <2>3, <1>o DEF Knows, KnowsRestore, Restoring
<1>6. CASE Abort(i)
  <2>1. pc'[i] = "failed" /\ root'[i] \in Roots
    BY <1>6, <1>k DEF Abort, Goto, Knows, Running, Deciding, Uploading, Delivering, Restoring, Kinds
  <2> QED BY <2>1, <1>o DEF Knows
<1> QED BY <1>1, <1>2, <1>3, <1>4, <1>5, <1>6

-----------------------------------------------------------------------------
(* The store.                                                              *)

\* A record is written by a seal, of its author's result, or by a restore.
LEMMA RecordStep ==
  ASSUME TypeOK, LocalInv, NEW i \in Executions, Step(i), NEW s \in Roots, record'[s] # record[s]
  PROVE  /\ record[s] = NoRecord /\ s = root[i]
         /\ result[i] \in Record /\ record'[s] = result[i] /\ result'[i] = result[i]
         /\ UNCHANGED <<manifests, sent>>
         /\ \/ SealRecord(i)
            \/ RestoreRecord(i)
<1> USE DEF TypeOK
<1>k. Knows(i)
  BY DEF LocalInv
<1>1. SealRecord(i) \/ RestoreRecord(i)
  BY DEF Step, StartJob, Load, Start, Acquire, Evaluate, Decide, PutNotification, Register,
         VerifyInputs, Upload, UploadManifest, LookUpReceipt, Post, PutReceipt, StartRestore, Fetch,
         RestoreNotification, RestoreRegistration, Abort, stores
<1>2. root[i] \in Roots /\ result[i] \in Record
  BY <1>1, <1>k DEF SealRecord, RestoreRecord, Knows, KnowsDecision, KnowsRestore, Restoring
<1>3. /\ record' = [record EXCEPT ![root[i]] = IF @ = NoRecord THEN result[i] ELSE @]
      /\ result' = result /\ UNCHANGED <<manifests, sent>>
  BY <1>1 DEF SealRecord, RestoreRecord, PutRecord
<1> QED BY <1>1, <1>2, <1>3

\* A manifest is written over the record of the root, with everything it names.
LEMMA ManifestStep ==
  ASSUME TypeOK, LocalInv, NEW i \in Executions, Step(i), manifests' # manifests
  PROVE  /\ manifests' = manifests \cup {result[i]}
         /\ result[i] \in Record /\ root[i] \in Roots /\ record[root[i]] = result[i]
         /\ \A kind \in Needed(result[i]) : Stored(kind, result[i])
         /\ UNCHANGED <<record, sent>>
<1>k. Knows(i)
  BY DEF LocalInv
<1>1. UploadManifest(i)
  BY DEF Step, StartJob, Load, Start, Acquire, Evaluate, Decide, PutNotification, Register, SealRecord,
         VerifyInputs, Upload, LookUpReceipt, Post, PutReceipt, StartRestore, Fetch,
         RestoreNotification, RestoreRegistration, RestoreRecord, Abort, stores
<1>2. pc[i] = "manifest" /\ manifests' = manifests \cup {result[i]} /\ UNCHANGED <<record, sent>>
  BY <1>1 DEF UploadManifest
<1> QED BY <1>2, <1>k DEF Knows, KnowsPublication, Sealed, Uploading

\* No step breaks what the store promises.
LEMMA StoreStep ==
  ASSUME TypeOK, StoreInv, LocalInv, NEW i \in Executions, Step(i)
  PROVE  StoreInv'
<1> USE DEF TypeOK
<1>k. Knows(i)
  BY DEF LocalInv
<1>1. RecordsFinal'
  <2> SUFFICES ASSUME NEW s \in Roots, NEW r, r = record'[s], r # NoRecord
               PROVE  Final(r)' /\ Backed(s, r)'
    BY DEF RecordsFinal, Final, InWindow, Backed
  <2>1. CASE record'[s] = record[s]
    <3>1. r \in Record /\ Final(r) /\ Backed(s, r)
      BY <2>1 DEF StoreInv, RecordsFinal
    <3> QED BY <3>1, FactsStay
  <2>2. CASE record'[s] # record[s]
    <3>1. /\ s = root[i] /\ r \in Record /\ r = result[i]
          /\ SealRecord(i) \/ RestoreRecord(i)
      BY <2>2, RecordStep
    <3>2. CASE SealRecord(i)
      <4>1. r.by = i /\ Backed(s, r) /\ (r.complete => InWindow(i))
        BY <3>1, <3>2, <1>k DEF SealRecord, Knows, KnowsDecision, Backed
      <4>2. pc'[i] \in {"verify", "failed"} /\ UNCHANGED <<clock, outbox, paper>>
        BY <3>2 DEF SealRecord, PutRecord, WrittenIf, Goto
      <4> QED BY <3>1, <4>1, <4>2 DEF Final, InWindow, Backed, Undecided, Deciding
    <3>3. CASE RestoreRecord(i)
      <4>1. r \in manifests /\ Backed(s, r)
        BY <3>1, <3>3, <1>k DEF RestoreRecord, Knows, KnowsRestore, Restoring, Backed
      <4>2. Final(r)
        BY <4>1 DEF StoreInv, ManifestsFinal
      <4> QED BY <3>1, <4>1, <4>2, FactsStay
    <3> QED BY <3>1, <3>2, <3>3
  <2> QED BY <2>1, <2>2
<1>2. ManifestsFinal'
  <2> SUFFICES ASSUME NEW m \in manifests'
               PROVE  Final(m)' /\ \A kind \in Needed(m) : Stored(kind, m)'
    BY DEF ManifestsFinal
  <2>1. m \in Record /\ Final(m) /\ \A kind \in Needed(m) : Stored(kind, m)
    <3>1. CASE m \in manifests
      BY <3>1 DEF StoreInv, ManifestsFinal
    <3>2. CASE m \notin manifests
      <4>1. /\ m = result[i] /\ m \in Record /\ root[i] \in Roots /\ record[root[i]] = m
            /\ \A kind \in Needed(m) : Stored(kind, m)
        BY <3>2, ManifestStep
      <4> QED BY <4>1, NoRecordIsNone DEF StoreInv, RecordsFinal
    <3> QED BY <3>1, <3>2
  <2>2. m.by \in Executions
    BY <2>1 DEF Record
  <2> QED BY <2>1, <2>2, StoreGrows DEF Final, InWindow, Stored
<1>3. ReceiptsSent'
  <2> SUFFICES ASSUME NEW s \in Roots, NEW e \in Executions, receipt'[s][e] # None
               PROVE  sent'[e] > 0
    BY DEF ReceiptsSent
  <2>1. CASE receipt'[s][e] = receipt[s][e]
    BY <2>1, StoreGrows DEF StoreInv, ReceiptsSent
  <2>2. CASE receipt'[s][e] # receipt[s][e]
    <3>1. PutReceipt(i)
      BY <2>2 DEF Step, StartJob, Load, Start, Acquire, Evaluate, Decide, PutNotification, Register,
         SealRecord, VerifyInputs, Upload, UploadManifest, LookUpReceipt, Post, StartRestore, Fetch,
         RestoreNotification, RestoreRegistration, RestoreRecord, Abort, stores
    <3>2. sent[result[i].by] > 0 /\ UNCHANGED sent
      BY <3>1, <1>k DEF PutReceipt, Knows, KnowsPublication
    <3>3. root[i] \in Roots /\ result[i].by \in Executions
      BY <3>1, <1>k DEF PutReceipt, Knows, KnowsPublication, Sealed, Delivering, Record
    <3>4. receipt' = [receipt EXCEPT ![root[i]][result[i].by] = IF @ = None THEN i ELSE @]
      BY <3>1 DEF PutReceipt
    <3>5. e = result[i].by
      BY <2>2, <3>3, <3>4
    <3> QED BY <3>2, <3>5
  <2> QED BY <2>1, <2>2
<1> QED BY <1>1, <1>2, <1>3 DEF StoreInv

-----------------------------------------------------------------------------
(* The inductive invariant.                                                *)

LEMMA InitInvariant == Init => IInv
<1> SUFFICES ASSUME Init PROVE IInv
  OBVIOUS
<1>1. StoreInv
  BY DEF Init, StoreInv, RecordsFinal, ManifestsFinal, ReceiptsSent
<1>2. LocalInv
  BY DEF Init, LocalInv, Knows, KnowsDecision, KnowsPublication, KnowsRestore, Sealed, Published,
         Uploading, Delivering, Restoring, Kinds
<1> QED BY <1>1, <1>2, InitTypes DEF IInv

\* The acting execution knows what its label says, whichever step it took.
LEMMA ActorKnows ==
  ASSUME TypeOK, StoreInv, LocalInv, NEW i \in Executions, Step(i)
  PROVE  Knows(i)'
BY DecisionStep, PublicationStep, RestoreStep DEF Step

LEMMA InvariantStep == IInv /\ [Next]_vars => IInv'
<1> SUFFICES ASSUME IInv, [Next]_vars PROVE IInv'
  OBVIOUS
<1>1. CASE Next
  <2>1. PICK i \in Executions : Step(i)
    BY <1>1 DEF Next
  <2>2. TypeOK /\ StoreInv /\ LocalInv
    BY DEF IInv
  <2>3. \A j \in Executions : Knows(j)'
    BY <2>1, <2>2, ActorKnows, OthersKnow
  <2> QED BY <2>1, <2>2, <2>3, StepTypes, StoreStep DEF IInv, LocalInv
<1>2. CASE UNCHANGED vars
  BY <1>2 DEF vars, stores, locals, IInv, TypeOK, StoreInv, RecordsFinal, ManifestsFinal, ReceiptsSent,
     Final, InWindow, Stored, Backed, LocalInv, Knows, KnowsDecision, KnowsPublication, KnowsRestore
<1> QED BY <1>1, <1>2

\* The inductive invariant holds of every behaviour.
THEOREM Invariance == Spec => []IInv
BY InitInvariant, InvariantStep, PTL DEF Spec

\* Every variable keeps its type, for every number of executions and roots.
THEOREM TypeCorrect == Spec => []TypeOK
<1>1. IInv => TypeOK
  BY DEF IInv
<1> QED BY <1>1, Invariance, PTL

\* A terminal record always has its notification and, for a BUY, its paper
\* registration (publish_swing_operational_run seals last; so does a restore).
THEOREM SideEffectsFirst == Spec => []RecordBacked
<1>1. IInv => RecordBacked
  BY DEF IInv, StoreInv, RecordsFinal, RecordBacked
<1> QED BY <1>1, Invariance, PTL

\* A COMPLETE record was completed inside its window, however the clock jumps.
THEOREM DecidedInTime == Spec => []DecisionInWindow
<1>1. IInv => DecisionInWindow
  <2> SUFFICES ASSUME IInv, NEW s \in Roots, record[s].complete
               PROVE  InWindow(record[s].by)
    BY DEF DecisionInWindow, InWindow
  <2>1. record[s] # NoRecord
    BY DEF NoRecord
  <2> QED BY <2>1 DEF IInv, StoreInv, RecordsFinal, Final
<1> QED BY <1>1, Invariance, PTL

\* Everything a manifest names is in the bucket.
THEOREM Restorable == Spec => []ManifestRestorable
<1>1. IInv => ManifestRestorable
  BY DEF IInv, StoreInv, ManifestsFinal, ManifestRestorable, Stored
<1> QED BY <1>1, Invariance, PTL

\* A job that succeeds, and a receipt, stand for a message that was sent.
THEOREM Delivered == Spec => []DeliveredAtLeastOnce
<1>1. IInv => DeliveredAtLeastOnce
  BY DEF IInv, StoreInv, ReceiptsSent, LocalInv, Knows, KnowsPublication, DeliveredAtLeastOnce
<1> QED BY <1>1, Invariance, PTL

\* A successful restore installed the pinned result with its side effects.
THEOREM RestoredRight == Spec => []RestoredExactly
<1>1. IInv => RestoredExactly
  <2> SUFFICES ASSUME IInv, NEW i \in Executions, pc[i] = "restored"
               PROVE  record[root[i]] = result[i] /\ Backed(root[i], result[i])
    BY DEF RestoredExactly
  <2>1. root[i] \in Roots /\ result[i] \in Record /\ record[root[i]] = result[i]
    BY DEF IInv, LocalInv, Knows, KnowsRestore
  <2> QED BY <2>1, NoRecordIsNone DEF IInv, StoreInv, RecordsFinal
<1> QED BY <1>1, Invariance, PTL

-----------------------------------------------------------------------------
(* The session.                                                            *)

Settled == [s \in Roots |-> record[s].by]
PublishedBy == {m.by : m \in manifests}
Told == {e \in Executions : sent[e] > 0}

\* A new record settles its root, on a new or a published result.
LEMMA SettleStep ==
  ASSUME IInv, NEW i \in Executions, Step(i), NEW s \in Roots, record'[s] # record[s]
  PROVE  Session!SessionNext
<1>0. TypeOK /\ StoreInv /\ LocalInv /\ Knows(i)
  BY DEF IInv, LocalInv
<1>1. /\ record[s] = NoRecord /\ s = root[i]
      /\ result[i] \in Record /\ record'[s] = result[i]
      /\ UNCHANGED <<manifests, sent>>
      /\ SealRecord(i) \/ RestoreRecord(i)
  BY <1>0, RecordStep
<1>2. PICK e \in Executions : e = result[i].by
  BY <1>1 DEF Record
<1>3. record' = [record EXCEPT ![s] = result[i]]
  BY <1>0, <1>1 DEF SealRecord, RestoreRecord, PutRecord, TypeOK
<1>4. Settled[s] = None /\ Settled' = [Settled EXCEPT ![s] = e]
  <2>1. Settled[s] = None
    BY <1>1 DEF Settled, NoRecord
  <2>2. \A t \in Roots : record'[t].by = IF t = s THEN e ELSE record[t].by
    BY <1>0, <1>1, <1>2, <1>3 DEF TypeOK
  <2> QED BY <2>1, <2>2 DEF Settled
<1>5. e \in PublishedBy \/ \A t \in Roots : Settled[t] # e
  <2>1. CASE SealRecord(i)
    <3>1. e = i /\ pc[i] = "seal"
      BY <1>0, <1>2, <2>1 DEF SealRecord, Knows, KnowsDecision
    <3>2. SUFFICES ASSUME NEW t \in Roots, record[t].by = i PROVE FALSE
      BY <3>1 DEF Settled
    <3>3. record[t] # NoRecord
      BY <3>2, NoRecordIsNone
    <3>4. pc[i] \notin Undecided
      BY <1>0, <3>2, <3>3 DEF StoreInv, RecordsFinal, Final
    <3> QED BY <3>1, <3>4 DEF Undecided, Deciding
  <2>2. CASE RestoreRecord(i)
    <3>1. result[i] \in manifests
      BY <1>0, <2>2 DEF RestoreRecord, Knows, KnowsRestore, Restoring
    <3> QED BY <3>1, <1>2 DEF PublishedBy
  <2> QED BY <1>1, <2>1, <2>2
<1>6. PublishedBy' = PublishedBy /\ Told' = Told
  BY <1>1 DEF PublishedBy, Told
<1>7. Session!Settle(s, e)
  BY <1>4, <1>5, <1>6 DEF Session!Settle, Settled, PublishedBy, Told
<1> QED BY <1>2, <1>7 DEF Session!SessionNext

\* A manifest publishes what its root settled on.
LEMMA PublishStep ==
  ASSUME IInv, NEW i \in Executions, Step(i), manifests' # manifests
  PROVE  Session!SessionNext
<1>0. TypeOK /\ LocalInv
  BY DEF IInv
<1>1. /\ manifests' = manifests \cup {result[i]}
      /\ result[i] \in Record /\ root[i] \in Roots /\ record[root[i]] = result[i]
      /\ UNCHANGED <<record, sent>>
  BY <1>0, ManifestStep
<1>2. PICK e \in Executions : e = result[i].by
  BY <1>1 DEF Record
<1>3. Settled[root[i]] = e
  BY <1>1, <1>2 DEF Settled
<1>4. PublishedBy' = PublishedBy \cup {e}
  BY <1>1, <1>2 DEF PublishedBy
<1>5. Settled' = Settled /\ Told' = Told
  BY <1>1 DEF Settled, Told
<1>6. Session!PublishResult(e)
  BY <1>1, <1>3, <1>4, <1>5 DEF Session!PublishResult, Settled, PublishedBy, Told
<1> QED BY <1>2, <1>6 DEF Session!SessionNext

\* A message tells the operator of a published result.
LEMMA TellStep ==
  ASSUME IInv, NEW i \in Executions, Post(i)
  PROVE  Session!SessionNext
<1>0. TypeOK /\ Knows(i)
  BY DEF IInv, LocalInv
<1>1. result[i] \in manifests /\ UNCHANGED <<record, manifests>>
  BY <1>0 DEF Post, Knows, KnowsPublication, Published, Delivering
<1>2. PICK e \in Executions : e = result[i].by /\ e \in PublishedBy
  BY <1>0, <1>1 DEF TypeOK, Record, PublishedBy
<1>3. sent' = [sent EXCEPT ![e] = @ + 1]
  BY <1>2 DEF Post
<1>4. \A d \in Executions : sent[d] \in Nat
  BY <1>0 DEF TypeOK
<1>5. Told' = Told \cup {e}
  <2>1. \A d \in Executions : sent'[d] > 0 <=> (sent[d] > 0 \/ d = e)
    BY <1>0, <1>2, <1>3, <1>4 DEF TypeOK
  <2> QED BY <1>2, <2>1 DEF Told
<1>6. Settled' = Settled /\ PublishedBy' = PublishedBy
  BY <1>1 DEF Settled, PublishedBy
<1>7. Session!Tell(e)
  BY <1>2, <1>5, <1>6 DEF Session!Tell, Settled, PublishedBy, Told
<1> QED BY <1>2, <1>7 DEF Session!SessionNext

\* Overlapping and dying jobs and restores, with lost answers and stepped
\* clocks, do to the scheduled decision what SwingSession allows.
THEOREM SessionRefined == Spec => ImplementsSession
<1>1. Init => Session!SessionInit
  BY DEF Init, Session!SessionInit, NoRecord
<1>2. IInv /\ [Next]_vars => [Session!SessionNext]_(Session!sessionVars)
  <2> SUFFICES ASSUME IInv, [Next]_vars PROVE [Session!SessionNext]_(Session!sessionVars)
    OBVIOUS
  <2>1. CASE UNCHANGED <<record, manifests, sent>>
    <3>1. UNCHANGED <<Settled, PublishedBy, Told>>
      BY <2>1 DEF Settled, PublishedBy, Told
    <3> QED BY <3>1 DEF Session!sessionVars, Settled, PublishedBy, Told
  <2>2. CASE \E i \in Executions : Step(i)
    <3>1. PICK i \in Executions : Step(i)
      BY <2>2
    <3>2. CASE \E s \in Roots : record'[s] # record[s]
      BY <3>1, <3>2, SettleStep
    <3>3. CASE manifests' # manifests
      BY <3>1, <3>3, PublishStep
    <3>4. CASE Post(i)
      BY <3>4, TellStep
    <3>5. CASE ~Post(i) /\ manifests' = manifests /\ \A s \in Roots : record'[s] = record[s]
      <4>1. sent' = sent
        BY <3>1, <3>5 DEF Step, StartJob, Load, Start, Acquire, Evaluate, Decide, PutNotification,
           Register, SealRecord, VerifyInputs, Upload, UploadManifest, LookUpReceipt, PutReceipt,
           StartRestore, Fetch, RestoreNotification, RestoreRegistration, RestoreRecord, Abort, stores
      <4>2. TypeOK /\ TypeOK'
        BY <3>1, StepTypes DEF IInv
      <4>3. record' = record
        BY <3>5, <4>2 DEF TypeOK
      <4> QED BY <2>1, <3>5, <4>1, <4>3
    <3> QED BY <3>2, <3>3, <3>4, <3>5
  <2> QED BY <2>1, <2>2 DEF Next, vars, stores
<1> QED BY <1>1, <1>2, Invariance, PTL DEF Spec, ImplementsSession, Session!SessionSpec

=============================================================================
