---------------------- MODULE HistoricalCollection ----------------------
(* What a historical backfill promises for one plan: every request, in     *)
(* the order of the plan, is completed once with one snapshot, or set      *)
(* aside as an unresolved gap that nothing ever takes back; all of it for  *)
(* one connector version, and nothing past Ceiling adjacent rejections.    *)
EXTENDS Integers

CONSTANTS
  NumRequests,  \* requests of the plan, numbered in its order
  Versions,     \* connector versions
  Snapshot,     \* snapshots of requests: records with a request and a version
  Ceiling,      \* adjacent rejections that stop the collection
  None

VARIABLES
  lineage,    \* version of the connector that the progress is bound to
  completed,  \* snapshot that each request is completed with
  gaps        \* class and version of the gap evidence of each request

vars == <<lineage, completed, gaps>>

Requests == 1..NumRequests

Init ==
  /\ lineage = None
  /\ completed = [r \in Requests |-> None]
  /\ gaps = [r \in Requests |-> None]

Completed(r) == completed[r] # None
Unresolved(r) == gaps[r] # None /\ ~Completed(r)
Refused(r) == Unresolved(r) /\ gaps[r].class = "REJECTED"

\* Ceiling adjacent requests before r were rejected.
Stopped(r) ==
  \E first \in Requests :
    /\ first + Ceiling <= r
    /\ \A q \in first..(first + Ceiling - 1) : Refused(q)

Bind(v) ==
  /\ lineage = None
  /\ lineage' = v
  /\ UNCHANGED <<completed, gaps>>

\* A gap is only filled by a collection that has no gap before it either.
Complete(r, s) ==
  /\ ~Completed(r) /\ ~Stopped(r)
  /\ \A q \in 1..(r - 1) : Completed(q) \/ (Unresolved(q) /\ gaps[r] = None)
  /\ s.request = r /\ s.version = lineage
  /\ completed' = [completed EXCEPT ![r] = s]
  /\ UNCHANGED <<lineage, gaps>>

SetAside(r, class) ==
  /\ ~Completed(r) /\ gaps[r] = None /\ ~Stopped(r)
  /\ \A q \in 1..(r - 1) : Completed(q) \/ Unresolved(q)
  /\ \A q \in Requests : ~(Completed(q) /\ gaps[q] # None)
  /\ gaps' = [gaps EXCEPT ![r] = [class |-> class, version |-> lineage]]
  /\ UNCHANGED <<lineage, completed>>

Next ==
  \/ \E v \in Versions : Bind(v)
  \/ \E r \in Requests :
       \/ \E s \in Snapshot : Complete(r, s)
       \/ \E class \in {"EMPTY", "REJECTED"} : SetAside(r, class)

CollectionSpec == Init /\ [][Next]_vars
=============================================================================
