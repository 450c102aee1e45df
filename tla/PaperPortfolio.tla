--------------------------- MODULE PaperPortfolio ---------------------------
(***************************************************************************)
(* The paper portfolio of one state root: registered paper trades and      *)
(* their event chains (paper_trades), the terminal records of outcome jobs *)
(* and the chain of portfolio states (paper_outcomes).  Workers are the    *)
(* processes that prepare and run batches.  They overlap and die at any    *)
(* point; the three stores are files that are created once, under a lock   *)
(* of each store.                                                          *)
(*                                                                         *)
(* An outcome job is named by what its replay is computed from: the        *)
(* registration, the cutoff, the evidence listed for it, and its lineage   *)
(* (policy, instrument binding, calendar).  What the replay finds is a     *)
(* function of the job; the market is a constant.                          *)
(***************************************************************************)
EXTENDS Naturals

CONSTANTS
  Workers,           \* the processes
  Batches,           \* names for the contents of prepared batches
  Lineages,          \* policy, binding and calendar of a replay
  NumRegistrations,  \* the number of paper trades
  DecidedAt,         \* registration -> its decision_time
  Market,            \* lineage -> registration -> what its evidence shows
  MaxTime,           \* bound on cutoffs
  None               \* nothing stored

Registrations == 1 .. NumRegistrations

\* When the evidence first shows the entry, and the end of the trade.
Fate == [enters : Nat, ends : Nat, how : {"EXITS", "BLOCKS", "EXPIRES"}]

ASSUME MarketAssumption ==
  /\ NumRegistrations \in Nat
  /\ MaxTime \in Nat
  /\ DecidedAt \in [Registrations -> Nat]
  /\ Market \in [Lineages -> [Registrations -> Fate]]
  /\ \A l \in Lineages, r \in Registrations : Market[l][r].enters <= Market[l][r].ends

\* PaperOutcomeJobSpec: evidence known later than `known` is not listed.
Job == [of : Registrations, at : 1 .. MaxTime, known : 0 .. MaxTime, lineage : Lineages]

\* PaperPortfolioBatchSpec: one job for every listed registration.
Batch == [regs : SUBSET Registrations, at : 1 .. MaxTime, known : 0 .. MaxTime,
          lineage : Lineages, previous : Batches \cup {None}]

JobOf(b, r) == [of |-> r, at |-> b.at, known |-> b.known, lineage |-> b.lineage]

\* replay_paper_outcome.
Status(j) ==
  LET f == Market[j.lineage][j.of]
  IN  IF f.how = "EXPIRES" THEN IF f.ends <= j.known THEN "EXPIRED" ELSE "WAITING"
      ELSE IF j.known < f.enters THEN "WAITING"
      ELSE IF j.known < f.ends THEN "OPEN"
      ELSE IF f.how = "EXITS" THEN "CLOSED" ELSE "BLOCKED"

\* Entry and exit are fills of one session.
SameSession(j) == LET f == Market[j.lineage][j.of] IN f.enters = f.ends

ActiveStatus == {"WAITING", "OPEN", "BLOCKED"}

-----------------------------------------------------------------------------
\* The events of a registration: the job whose replay each was appended by.
EventType == {"entry", "exit", "expiry"}

Chain == [EventType -> Job \cup {None}]

NoEvents == [e \in EventType |-> None]

\* PaperOutcomeRunRecord: the events it saw, the ones among them that its run
\* appended, and whether it carries a P&L.
Record == [events : Chain, wrote : SUBSET EventType, profit : BOOLEAN]

\* PaperPortfolioState: the job of every position, and how often the P&L of
\* a registration is in the cumulative one.
State == [positions : [Registrations -> Job \cup {None}], newly : SUBSET Registrations,
          total : [Registrations -> Nat]]

\* An absent value is no value.
ASSUME DistinctAssumption == None \notin Batches \cup Job \cup Batch \cup Record \cup State

NoPositions == [r \in Registrations |-> None]

\* What the first batch follows.
Empty == [positions |-> NoPositions, newly |-> {}, total |-> [r \in Registrations |-> 0]]

\* Every event of a is an event of b.
Prefix(a, b) ==
  /\ a.entry # None => b.entry = a.entry
  /\ a.exit # None => b.exit = a.exit
  /\ a.expiry # None => b.expiry = a.expiry

Traded(c) == c.entry # None /\ c.exit # None
Ended(c) == c.exit # None \/ c.expiry # None

-----------------------------------------------------------------------------
VARIABLES
  registered,  \* the registrations in the ledger
  ledger,      \* registration -> its event chain
  batch,       \* name -> prepared batch
  record,      \* job -> its terminal record
  state,       \* name of a batch -> the portfolio state it ended in
  pc,          \* worker -> what it does next
  listing,     \* worker -> the active registrations it lists
  on,          \* worker -> the batch it runs, or prepares a successor of
  got,         \* worker -> the positions it has so far
  draft        \* worker -> the record it is making

stores == <<registered, ledger, batch, record, state>>
locals == <<pc, listing, on, got, draft>>
vars == <<stores, locals>>

Labels == {"idle", "prepare", "job", "reconcile", "append", "summary", "record", "put"}

TypeOK ==
  /\ registered \subseteq Registrations
  /\ ledger \in [Registrations -> Chain]
  /\ batch \in [Batches -> Batch \cup {None}]
  /\ record \in [Job -> Record \cup {None}]
  /\ state \in [Batches -> State \cup {None}]
  /\ pc \in [Workers -> Labels]
  /\ listing \in [Workers -> SUBSET Registrations]
  /\ on \in [Workers -> Batches \cup {None}]
  /\ got \in [Workers -> [Registrations -> Job \cup {None}]]
  /\ draft \in [Workers -> Record]

NoDraft == [events |-> NoEvents, wrote |-> {}, profit |-> FALSE]

Init ==
  /\ registered = {}
  /\ ledger = [r \in Registrations |-> NoEvents]
  /\ batch = [b \in Batches |-> None]
  /\ record = [j \in Job |-> None]
  /\ state = [b \in Batches |-> None]
  /\ pc = [i \in Workers |-> "idle"]
  /\ listing = [i \in Workers |-> {}]
  /\ on = [i \in Workers |-> None]
  /\ got = [i \in Workers |-> NoPositions]
  /\ draft = [i \in Workers |-> NoDraft]

Goto(i, label) == pc' = [pc EXCEPT ![i] = label]

\* The worker is done, or dead; nothing of it is left.
Leave(i) ==
  /\ Goto(i, "idle")
  /\ listing' = [listing EXCEPT ![i] = {}]
  /\ on' = [on EXCEPT ![i] = None]
  /\ got' = [got EXCEPT ![i] = NoPositions]
  /\ draft' = [draft EXCEPT ![i] = NoDraft]

-----------------------------------------------------------------------------
(* register_value, of a trade that was decided before its first entry      *)
(* session, so that its replay is defined.                                 *)

Register(r) ==
  /\ registered' = registered \cup {r}
  /\ UNCHANGED <<ledger, batch, record, state, locals>>

-----------------------------------------------------------------------------
(* prepare_paper_portfolio_batch                                           *)

Stored == {b \in Batches : state[b] # None}

Leaves == {b \in Stored : \A c \in Stored : batch[c].previous # b}

\* The batch follows the unique leaf of the stored states, or is the first.
Follows(b) == IF b.previous = None THEN Stored = {} ELSE Leaves = {b.previous}

Active(r) == ~Ended(ledger[r])

\* The preparation spec names the state to follow; then registrations and
\* their events are read one after the other.
ListActive(i) ==
  /\ pc[i] = "idle"
  /\ \E r \in registered : Active(r)
  /\ listing' = [listing EXCEPT ![i] = {r \in registered : Active(r)}]
  /\ IF Stored = {} THEN on' = on ELSE \E n \in Leaves : on' = [on EXCEPT ![i] = n]
  /\ Goto(i, "prepare")
  /\ UNCHANGED <<stores, got, draft>>

\* A batch for exactly the registrations found active, on the leaf.  Equal
\* contents have one name.
PrepareBatch(i) ==
  /\ pc[i] = "prepare"
  /\ \E b \in Batch :
       /\ b.regs \subseteq listing[i] /\ {r \in listing[i] : Active(r)} \subseteq b.regs
       /\ b.regs # {}
       /\ b.known <= b.at
       /\ \A r \in b.regs : DecidedAt[r] <= b.at
       /\ b.previous = on[i] /\ Follows(b)
       /\ b.previous # None => batch[b.previous].at < b.at
       /\ IF \E n \in Batches : batch[n] = b THEN batch' = batch
          ELSE \E n \in Batches : batch[n] = None /\ batch' = [batch EXCEPT ![n] = b]
  /\ Leave(i)
  /\ UNCHANGED <<registered, ledger, record, state>>

-----------------------------------------------------------------------------
(* run_paper_portfolio_batch                                               *)

\* The state the batch follows.
Prior(b) == IF b.previous = None THEN Empty ELSE state[b.previous]

ActivePositions(s) ==
  {r \in Registrations : s.positions[r] # None /\ Status(s.positions[r]) \in ActiveStatus}

\* Mutant of RunBatch: positions the batch omits are not looked for.
RunAnyBatch(i) ==
  /\ pc[i] = "idle"
  /\ \E n \in Batches \ Stored :
       batch[n] # None /\ Follows(batch[n]) /\ on' = [on EXCEPT ![i] = n]
  /\ Goto(i, "job")
  /\ UNCHANGED <<stores, listing, got, draft>>

\* A state of the batch that exists is returned; otherwise the batch has to
\* follow the leaf, and no active position may be missing from it.
RunBatch(i) ==
  /\ pc[i] = "idle"
  /\ \E n \in Batches \ Stored :
       /\ batch[n] # None
       /\ Follows(batch[n])
       /\ ActivePositions(Prior(batch[n])) \subseteq batch[n].regs
       /\ on' = [on EXCEPT ![i] = n]
  /\ Goto(i, "job")
  /\ UNCHANGED <<stores, listing, got, draft>>

Pending(i) == {r \in batch[on[i]].regs : got[i][r] = None}

\* Jobs are run in the order of the registration ids, which are hashes: any
\* fixed order will do.
Current(i) == JobOf(batch[on[i]], CHOOSE r \in Pending(i) : TRUE)

\* Mutant of Took: the record stands for the position.
TookRecord(i, j) ==
  /\ got' = [got EXCEPT ![i][j.of] = record'[j]]
  /\ draft' = [draft EXCEPT ![i] = NoDraft]
  /\ Goto(i, "job")
  /\ UNCHANGED <<listing, on>>

Took(i, j) ==
  /\ got' = [got EXCEPT ![i][j.of] = j]
  /\ draft' = [draft EXCEPT ![i] = NoDraft]
  /\ Goto(i, "job")
  /\ UNCHANGED <<listing, on>>

\* A record makes a position: with a P&L when it is CLOSED, without otherwise.
MakesPosition(j, d) == d.profit <=> Status(j) = "CLOSED"

-----------------------------------------------------------------------------
(* run_paper_outcome_job                                                   *)

\* A record that exists is used, when the ledger still holds its events and,
\* for a CLOSED one, its P&L.
UseRecord(i) ==
  /\ pc[i] = "job" /\ Pending(i) # {}
  /\ LET j == Current(i)
     IN  /\ record[j] # None
         /\ \/ /\ Prefix(record[j].events, ledger[j.of])
               /\ Status(j) = "CLOSED" => Traded(ledger[j.of])
               /\ MakesPosition(j, record[j])
               /\ Took(i, j)
            \/ /\ \/ ~Prefix(record[j].events, ledger[j.of])
                  \/ Status(j) = "CLOSED" /\ ~Traded(ledger[j.of])
                  \/ ~MakesPosition(j, record[j])
               /\ Leave(i)
  /\ UNCHANGED stores

ReplayOutcome(i) ==
  /\ pc[i] = "job" /\ Pending(i) # {}
  /\ record[Current(i)] = None
  /\ Goto(i, "reconcile")
  /\ UNCHANGED <<stores, listing, on, got, draft>>

-----------------------------------------------------------------------------
(* reconcile_paper_outcome                                                 *)

\* Mutant of Matches: the lineage of the entry is not compared.
MatchesAnyLineage(c, j) ==
  /\ c.entry # None => Status(j) \in {"OPEN", "CLOSED"}
  /\ c.exit # None => Status(j) = "CLOSED" /\ c.exit = j
  /\ c.expiry # None => Status(j) = "EXPIRED" /\ c.expiry = j

\* The events there are a prefix of the ones the replay implies.  An entry
\* may stem from another replay of the same lineage.
Matches(c, j) ==
  /\ c.entry # None => Status(j) \in {"OPEN", "CLOSED"} /\ c.entry.lineage = j.lineage
  /\ c.exit # None => Status(j) = "CLOSED" /\ c.exit = j
  /\ c.expiry # None => Status(j) = "EXPIRED" /\ c.expiry = j

\* The events that are missing from c after replay j.
Missing(c, j) ==
  {e \in EventType :
     c[e] = None /\ CASE e = "entry" -> Status(j) \in {"OPEN", "CLOSED"}
                      [] e = "exit" -> Status(j) = "CLOSED"
                      [] e = "expiry" -> Status(j) = "EXPIRED"}

Reconcile(i) ==
  /\ pc[i] = "reconcile"
  /\ LET j == Current(i)
         c == ledger[j.of]
     IN  IF Status(j) \in {"WAITING", "BLOCKED"} \/ Matches(c, j)
         THEN /\ draft' = [draft EXCEPT ![i].events = c]
              /\ Goto(i, IF Missing(c, j) = {} THEN "summary" ELSE "append")
              /\ UNCHANGED <<listing, on, got>>
         ELSE Leave(i)
  /\ UNCHANGED stores

\* Mutant of MayAppend: events are not compared with the ones before.
MayAppendUnvalidated(c, e, j) == e = "exit" => c.entry # None

\* validate_paper_trade_history, for one event more.
MayAppend(c, e, j) ==
  /\ ~Ended(c)
  /\ IF e = "exit" THEN c.entry # None /\ (SameSession(j) => c.entry = j) ELSE c.entry = None

\* A record that appended event e of replay j.
Appended(d, e, j) == [d EXCEPT !.events[e] = j, !.wrote = @ \cup {e}]

\* One event, under the lock of the ledger, which reads the chain again.
Append(i) ==
  /\ pc[i] = "append"
  /\ LET j == Current(i)
         lacking == Missing(draft[i].events, j)
     IN  \E e \in lacking :
           /\ "entry" \in lacking => e = "entry"
           /\ \/ /\ MayAppend(ledger[j.of], e, j)
                 /\ ledger' = [ledger EXCEPT ![j.of][e] = j]
                 /\ \/ /\ draft' = [draft EXCEPT ![i] = Appended(@, e, j)]
                       /\ Goto(i, IF lacking = {e} THEN "summary" ELSE "append")
                       /\ UNCHANGED <<listing, on, got>>
                    \/ Leave(i)
              \/ ~MayAppend(ledger[j.of], e, j) /\ Leave(i) /\ UNCHANGED ledger
  /\ UNCHANGED <<registered, batch, record, state>>

-----------------------------------------------------------------------------
(* The record of the job, and the state of the batch.                      *)

\* The ledger is read again for the P&L.
Summarise(i) ==
  /\ pc[i] = "summary"
  /\ draft' = [draft EXCEPT ![i].profit = Traded(ledger[Current(i).of])]
  /\ Goto(i, "record")
  /\ UNCHANGED <<stores, listing, on, got>>

\* Create-once.  A CLOSED record needs a P&L.
PutRecord(i) ==
  /\ pc[i] = "record"
  /\ LET j == Current(i)
         sound == Status(j) = "CLOSED" => draft[i].profit
     IN  /\ record' = [record EXCEPT ![j] = IF @ = None /\ sound THEN draft[i] ELSE @]
         /\ \/ record'[j] = draft[i] /\ sound /\ MakesPosition(j, draft[i]) /\ Took(i, j)
            \/ Leave(i)
  /\ UNCHANGED <<registered, ledger, batch, state>>

Closed(positions, r) == positions[r] # None /\ Status(positions[r]) = "CLOSED"

\* Mutant of Outcome: every closed position of the state is counted.
OutcomeRecounted(b, new) ==
  LET prior == Prior(b)
      positions == [r \in Registrations |-> IF new[r] # None THEN new[r] ELSE prior.positions[r]]
      newly == {r \in Registrations : Closed(positions, r)}
  IN  [positions |-> positions, newly |-> newly,
       total |-> [r \in Registrations |-> prior.total[r] + (IF r \in newly THEN 1 ELSE 0)]]

\* Positions that were not in the batch are retained, and a profit counts
\* when the position was not closed before.
Outcome(b, new) ==
  LET prior == Prior(b)
      positions == [r \in Registrations |-> IF new[r] # None THEN new[r] ELSE prior.positions[r]]
      newly == {r \in Registrations : Closed(positions, r) /\ ~Closed(prior.positions, r)}
  IN  [positions |-> positions, newly |-> newly,
       total |-> [r \in Registrations |-> prior.total[r] + (IF r \in newly THEN 1 ELSE 0)]]

\* Mutant of PutState: the leaf is not read again under the lock.
PutStateUnchecked(i) ==
  /\ pc[i] = "job" /\ Pending(i) = {}
  /\ state' = [state EXCEPT ![on[i]] = IF @ = None THEN Outcome(batch[on[i]], got[i]) ELSE @]
  /\ Leave(i)
  /\ UNCHANGED <<registered, ledger, batch, record>>

\* Create-once, and only on the unique leaf.
PutState(i) ==
  /\ pc[i] = "job" /\ Pending(i) = {}
  /\ LET n == on[i]
     IN  state' = [state EXCEPT ![n] = IF @ = None /\ Follows(batch[n])
                                       THEN Outcome(batch[n], got[i]) ELSE @]
  /\ Leave(i)
  /\ UNCHANGED <<registered, ledger, batch, record>>

-----------------------------------------------------------------------------
\* A read or a write fails without effect, or the process dies.
Abort(i) ==
  /\ pc[i] # "idle"
  /\ Leave(i)
  /\ UNCHANGED stores

Step(i) ==
  \/ ListActive(i) \/ PrepareBatch(i) \/ RunBatch(i)
  \/ UseRecord(i) \/ ReplayOutcome(i) \/ Reconcile(i) \/ Append(i)
  \/ Summarise(i) \/ PutRecord(i) \/ PutState(i) \/ Abort(i)

Next == (\E r \in Registrations : Register(r)) \/ (\E i \in Workers : Step(i))

Spec == Init /\ [][Next]_vars

-----------------------------------------------------------------------------
\* The portfolio states are one chain: there is one first state, and no two
\* states follow the same one, whatever batches ran side by side.
OneChain ==
  \A b, c \in Stored :
    /\ batch[b].previous = batch[c].previous => b = c
    /\ batch[b].previous # None => batch[b].previous \in Stored

\* "It accounts for a position's realized P&L only on the first batch in
\* which it becomes CLOSED": every closed position of a state, and no other,
\* is in its cumulative P&L once, and the exit in the ledger is of the replay
\* the position is of.
CountedOnce ==
  \A b \in Stored, r \in Registrations :
    /\ state[b].total[r] = IF Closed(state[b].positions, r) THEN 1 ELSE 0
    /\ Closed(state[b].positions, r) => ledger[r].exit = state[b].positions[r]

\* "Every previously WAITING, OPEN, or BLOCKED registration must remain in
\* the next batch": along the chain no position disappears, an active one is
\* always judged again, and an ended one is never touched.
PositionsKept ==
  \A b \in Stored, r \in Registrations :
    LET p == Prior(batch[b]).positions[r]
    IN  p # None =>
          IF Status(p) \in ActiveStatus THEN state[b].positions[r] = JobOf(batch[b], r)
          ELSE state[b].positions[r] = p

\* An entry and an exit are of one lineage, their replays found them, and a
\* stop in the session of the entry is of the replay that entered.
Legal(c) ==
  /\ c.entry # None => Status(c.entry) \in {"OPEN", "CLOSED"} /\ c.expiry = None
  /\ c.exit # None =>
       /\ c.entry # None
       /\ Status(c.exit) = "CLOSED" /\ c.exit.lineage = c.entry.lineage
       /\ SameSession(c.exit) => c.exit = c.entry
  /\ c.expiry # None => Status(c.expiry) = "EXPIRED"

\* Every event chain of the ledger is legal and of one piece, whatever jobs
\* appended to it side by side.
ChainsLegal == \A r \in Registrations : Legal(ledger[r])

\* "Terminal record differs from paper ledger" is never raised: the events a
\* record saw stay in the ledger.
RecordsStand == \A j \in Job : record[j] # None => Prefix(record[j].events, ledger[j.of])

\* The ledger and the portfolio lead every trade through the life of a paper
\* position.
Position == INSTANCE PaperPosition WITH
  phase <- [r \in Registrations |->
              IF ledger[r].expiry # None THEN "EXPIRED"
              ELSE IF ledger[r].exit # None THEN "CLOSED"
              ELSE IF ledger[r].entry # None THEN "OPEN" ELSE "ALERTED"],
  counted <- [r \in Registrations |-> {b \in Stored : r \in state[b].newly}]

ImplementsPosition == Position!PositionSpec
=============================================================================
