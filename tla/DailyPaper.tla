----------------------------- MODULE DailyPaper -----------------------------
(***************************************************************************)
(* The paper book, session after session: trades are registered, the       *)
(* market closes, and the daily workflow replays every active trade on the *)
(* evidence of a session, stores the portfolio state, rolls the portfolio  *)
(* over, and seals a terminal record (daily_workflow/).  The next decision *)
(* is sized on what was rolled over.                                       *)
(*                                                                         *)
(* A workflow is attempted again after a failure.  Its attempts are events *)
(* of an append-only chain, STARTED and how it ended in turn; an attempt   *)
(* fails or its process dies at any stage.  Attempts of different sessions *)
(* follow one another here, which nothing in the code sees to: batches     *)
(* that overlap are the subject of PaperPortfolio.                         *)
(*                                                                         *)
(* A swing run sizes its opportunities one after the other, each on what   *)
(* those before it left.  Runs on one snapshot may be several, and may     *)
(* overlap: each allocates from the snapshot anew.                         *)
(***************************************************************************)
EXTENDS PaperReplay, SwingSizing, SequencesExt

CONSTANTS
  Alerts,        \* trades registered on the evening before their entry window
  Buys,          \* trades of swing operations, decided inside their window
  TermsOf,       \* trade -> its terms
  Days,          \* bound on sessions
  Tape,          \* session -> what it can look like, trade by trade
  Offers,        \* liquidity and depth a decision can find
  Mosts,         \* maximum_new_positions_per_run of the policies there are
  MaxRuns,       \* bound on the sizing batches of a session
  Capital,       \* of the genesis portfolio
  MaxAttempts,   \* maximum_attempts of a workflow
  MaxFaults,     \* bound on failures and deaths of attempts
  None           \* nothing there

Trades == Alerts \cup Buys

Sessions == 1 .. Days

\* Alerts that are held for one session are left out: unless they are stopped, the
\* ledger has their entry and refuses the exit in the session of the entry.
ASSUME BookAssumption ==
  /\ Alerts \cap Buys = {} /\ IsFiniteSet(Trades)
  /\ Days \in Nat /\ Days <= CalendarEnd
  /\ Capital \in Nat \ {0} /\ MaxAttempts \in 1 .. 10
  /\ \A t \in Trades : SoundTerms(TermsOf[t])
  /\ \A t \in Alerts : TermsOf[t].decided < TermsOf[t].from /\ TermsOf[t].hold >= 2
  /\ \A t \in Buys : TermsOf[t].decided = TermsOf[t].from
  /\ MaxFaults \in Nat
  /\ \A s \in Sessions : \A bars \in Tape[s] : \A t \in Alerts :
       bars[t] # NoBar => SoundBar(bars[t]) /\ AdverseSell(bars[t].low) >= 1
  /\ Offers \subseteq [liquidity : Nat, depth : Nat]
  /\ Mosts \subseteq 1 .. MaxOpen /\ MaxRuns \in [1 .. Days + 1 -> Nat]

\* What the ledger has of a trade: nothing, a registration, or the verdict
\* whose events were appended.
Alerted == Unfilled("WAITING")

Entry == Verdict \cup {None}

ActiveIn == {"WAITING", "OPEN"}

\* PaperPortfolioState, in the order of the chain.
State == [session : Sessions, positions : [Trades -> Entry],
          daily : Int, cumulative : Int, peak : Nat]

\* PaperPortfolioRollover: of which state, and the snapshot for the next run.
Rollover == [state : Nat, snapshot : Snapshot, peakNav : Nat]

\* DailyPaperWorkflowTerminal.
Terminal == [status : {"COMPLETE", "NO_ACTIVE_POSITIONS"}, state : Nat, rollover : Nat]

NothingDone == [status |-> "NO_ACTIVE_POSITIONS", state |-> 0, rollover |-> 0]

\* UNUSED is REJECTED with the code NO_ACTIVE_POSITIONS, and REJECTED is so
\* with EVIDENCE_REJECTED because of what the stores hold.
Event == {"STARTED", "COMPLETED", "UNUSED", "REJECTED", "FAILED"}

Stages == {"list", "jobs", "roll", "seal", "end"}

\* An attempt: the trades in its batch, and the verdicts it has so far.
Attempt == [session : Sessions, stage : Stages, batch : SUBSET Trades,
            got : [Trades -> Entry], output : Terminal]

\* A sizing batch: the snapshot and the session it is of, how many orders its
\* policy allows, and what is left.
Sizing == [on : Nat, session : Nat, most : Nat \ {0}, state : Allocation]

\* The order that an opportunity was sized to, by which batch.
Order == [quantity : Nat \ {0}, by : Nat \ {0}, offer : Offers]

ASSUME AbsenceAssumption ==
  None \notin Verdict \cup Terminal \cup Attempt \cup Order \cup (-1 .. Days)

-----------------------------------------------------------------------------
VARIABLES
  day,       \* sessions 1 .. day have closed
  market,    \* trade -> session -> its bar
  ledger,    \* trade -> what the paper-trade ledger has of it
  sizing,    \* the sizing batches of the session that is open
  sized,     \* BUY -> its quantity, the batch that sized it and what it was offered
  states,    \* the chain of portfolio states
  rolls,     \* the chain of rollovers
  pinned,    \* session -> the rollover its workflow spec names, 0 for genesis
  events,    \* session -> the attempt events of its workflow
  terminal,  \* session -> its terminal record
  run,       \* the attempt that runs
  faults     \* how often an attempt failed or its process died

outside == <<day, market, sizing, sized>>
chain == <<ledger, states, rolls>>
journal == <<pinned, events, terminal>>
workflow == <<journal, run, faults>>
vars == <<outside, chain, workflow>>

Init ==
  /\ day = 0
  /\ market = [t \in Trades |-> [s \in Sessions |-> NoBar]]
  /\ ledger = [t \in Trades |-> None]
  /\ sizing = <<>>
  /\ sized = [t \in Buys |-> None]
  /\ states = <<>>
  /\ rolls = <<>>
  /\ pinned = [s \in Sessions |-> None]
  /\ events = [s \in Sessions |-> <<>>]
  /\ terminal = [s \in Sessions |-> None]
  /\ run = None
  /\ faults = 0

Active == {t \in Trades : ledger[t] # None /\ ledger[t].status \in ActiveIn}


-----------------------------------------------------------------------------
(* Registrations and the market                                            *)

\* register: the decision is on the evidence of the session that closed.
Register(t) ==
  /\ ledger[t] = None
  /\ TermsOf[t].decided <= day /\ day < TermsOf[t].from
  /\ ledger' = [ledger EXCEPT ![t] = Alerted]
  /\ UNCHANGED <<outside, states, rolls, workflow>>

Genesis == [capital |-> Capital, cash |-> Capital, gross |-> 0, risk |-> 0, open |-> 0,
            daily |-> 0, pilot |-> 0]

\* Mutant of Sizable: the age of the snapshot is not looked at.
SizableStale == TRUE

\* The snapshot a job is bound to is of the last close: a rollover, or the
\* genesis on the first day.  One that is older is stale.
Sizable == IF rolls = <<>> THEN day = 0 ELSE states[Last(rolls).state].session = day

SnapshotAt(on) == IF on = 0 THEN Genesis ELSE rolls[on].snapshot

LevelsOf(t, offer) ==
  [high |-> TermsOf[t].high, stop |-> TermsOf[t].stop, target |-> TermsOf[t].target,
   cost |-> TermsOf[t].cost, liquidity |-> offer.liquidity, depth |-> offer.depth]

\* assemble_swing_portfolio_sizing_batch up to _initial_state, in a run of the
\* session that is open.
Size ==
  /\ Len(sizing) < MaxRuns[day + 1] /\ Sizable
  /\ \E most \in Mosts :
       sizing' = Append(sizing,
         [on |-> Len(rolls), session |-> day + 1, most |-> most,
          state |-> Initially(SnapshotAt(Len(rolls)))])
  /\ UNCHANGED <<day, market, sized, chain, workflow>>

\* _evaluate_sizing of the next opportunity of batch i, which is not vetoed.
Allot(i, t) ==
  /\ sized[t] = None
  /\ sizing[i].session = day + 1 /\ TermsOf[t].decided = day + 1
  /\ \E offer \in Offers :
       LET p == SnapshotAt(sizing[i].on)
           a == sizing[i].state
           l == LevelsOf(t, offer)
       IN  /\ SoundLevels(l)
           /\ ~Vetoed(p, a, l, sizing[i].most)
           /\ sizing' = [sizing EXCEPT ![i].state = Allocate(p, a, l)]
           /\ sized' = [sized EXCEPT ![t] =
                 [quantity |-> Quantity(p, a, l), by |-> i, offer |-> offer]]
  /\ UNCHANGED <<day, market, chain, workflow>>

\* paper_registration_from_decision, registered in the session of the run.  An
\* operational policy allows one order.
Buy(t) ==
  /\ ledger[t] = None
  /\ sized[t] # None /\ sizing[sized[t].by].most = 1
  /\ TermsOf[t].decided = day + 1
  /\ ledger' = [ledger EXCEPT ![t] = Alerted]
  /\ UNCHANGED <<outside, states, rolls, workflow>>

\* A session closes.  Bars that no replay reads are left out, and so are batches
\* and orders of an earlier session: nothing reads them again.
Close ==
  /\ day < Days
  /\ day' = day + 1
  /\ sizing' = <<>>
  /\ sized' = [t \in Buys |-> None]
  /\ \E bars \in Tape[day + 1] :
       LET read(t) == t \in Active \cap Alerts /\ TermsOf[t].from <= day + 1
       IN  market' = [t \in Trades |->
                        [market[t] EXCEPT ![day + 1] = IF read(t) THEN bars[t] ELSE NoBar]]
  /\ UNCHANGED <<chain, workflow>>

-----------------------------------------------------------------------------
(* An attempt of the workflow of session s                                 *)

Started(s) == Cardinality({i \in DOMAIN events[s] : events[s][i] = "STARTED"})

Underway(s) == Len(events[s]) % 2 = 1

AppendEvent(s, event) == events' = [events EXCEPT ![s] = Append(@, event)]

\* run_daily_paper_workflow up to execute.  The spec, and with it the lineage
\* of the rollover it will make, is given once: none, or after the last one.
Start(s) ==
  /\ run = None /\ s <= day
  /\ terminal[s] = None
  /\ Started(s) < MaxAttempts /\ ~Underway(s)
  /\ AppendEvent(s, "STARTED")
  /\ run' = [session |-> s, stage |-> "list", batch |-> {},
             got |-> [t \in Trades |-> None], output |-> NothingDone]
  /\ IF events[s] = <<>>
     THEN \E p \in {-1, Len(rolls)} : pinned' = [pinned EXCEPT ![s] = p]
     ELSE UNCHANGED pinned
  /\ UNCHANGED <<outside, faults, chain, terminal>>

\* Without a terminal: append FAILED, or REJECTED.
EndsWith(event) ==
  /\ AppendEvent(run.session, event)
  /\ run' = None
  /\ UNCHANGED <<outside, pinned, terminal>>

At(stage) == run # None /\ run.stage = stage

NoActive ==
  /\ At("list") /\ Active = {}
  /\ run' = [run EXCEPT !.stage = "seal"]
  /\ UNCHANGED <<outside, faults, chain, journal>>

Behind(s) == states # <<>> => Last(states).session < s

Unresolved == {"WAITING", "OPEN", "BLOCKED"}

\* The active positions of the last state.
Carried ==
  IF states = <<>> THEN {}
  ELSE {t \in Trades : /\ Last(states).positions[t] # None
                       /\ Last(states).positions[t].status \in Unresolved}

Preparable(s) == Behind(s) /\ \A t \in Active : Replayable(TermsOf[t], s)

\* The batch cannot be prepared from the evidence.
Reject ==
  /\ At("list") /\ Active # {}
  /\ ~Preparable(run.session)
  /\ EndsWith("REJECTED")
  /\ UNCHANGED <<chain, faults>>

Prepare ==
  /\ At("list") /\ Active # {}
  /\ Preparable(run.session)
  /\ Carried \subseteq Active
  /\ run' = [run EXCEPT !.stage = "jobs", !.batch = Active]
  /\ UNCHANGED <<outside, faults, chain, journal>>

\* "paper portfolio batch omits an active position"
Omit ==
  /\ At("list") /\ Active # {}
  /\ Preparable(run.session)
  /\ ~(Carried \subseteq Active)
  /\ EndsWith("FAILED")
  /\ UNCHANGED <<chain, faults>>

\* run_paper_outcome_job of one trade; the ledger keeps no WAITING, no BLOCKED.
Judge(t) ==
  /\ At("jobs") /\ t \in run.batch /\ run.got[t] = None
  /\ LET verdict == Replay(TermsOf[t], market[t], run.session)
     IN  /\ run' = [run EXCEPT !.got[t] = verdict]
         /\ ledger' = IF verdict.status \in {"OPEN", "CLOSED", "EXPIRED"}
                      THEN [ledger EXCEPT ![t] = verdict] ELSE ledger
  /\ UNCHANGED <<outside, faults, states, rolls, journal>>

-----------------------------------------------------------------------------
(* run_paper_portfolio_batch: the state                                    *)

Pnl(t, v) == (v.got - v.paid) * TermsOf[t].quantity - TermsOf[t].cost

PriorPositions == IF states = <<>> THEN [t \in Trades |-> None] ELSE Last(states).positions

PriorCumulative == IF states = <<>> THEN 0 ELSE Last(states).cumulative

PriorPeak == IF states = <<>> THEN 0 ELSE Last(states).peak

StatusIn(positions, status) ==
  {t \in Trades : positions[t] # None /\ positions[t].status = status}

\* Mutant of NewlyClosed: every closed position is counted each time.
NewlyClosedAgain(prior, positions) == StatusIn(positions, "CLOSED")

NewlyClosed(prior, positions) == StatusIn(positions, "CLOSED") \ StatusIn(prior, "CLOSED")

\* Mutant of NextPeak: the peak is what there is now.
NextPeakNow(peak, cumulative) == cumulative

NextPeak(peak, cumulative) == Greatest(peak, cumulative)

PutState ==
  /\ At("jobs") /\ \A t \in run.batch : run.got[t] # None
  /\ LET positions == [t \in Trades |->
           IF t \in run.batch THEN run.got[t] ELSE PriorPositions[t]]
         closed == NewlyClosed(PriorPositions, positions)
         daily == SumFunction([t \in closed |-> Pnl(t, positions[t])])
         cumulative == PriorCumulative + daily
     IN  states' = Append(states,
           [session |-> run.session, positions |-> positions, daily |-> daily,
            cumulative |-> cumulative, peak |-> NextPeak(PriorPeak, cumulative)])
  /\ run' = [run EXCEPT !.stage = "roll"]
  /\ UNCHANGED <<outside, faults, ledger, rolls, journal>>

-----------------------------------------------------------------------------
(* The rollover of the last state                                          *)

Done == [status |-> "COMPLETE", state |-> Len(states), rollover |-> 0]

RollNothing ==
  /\ At("roll") /\ pinned[run.session] = -1
  /\ run' = [run EXCEPT !.stage = "seal", !.output = Done]
  /\ UNCHANGED <<outside, faults, chain, journal>>

\* prepare_paper_portfolio_rollover_request: nothing waits or is blocked, and
\* every open position has a mark of the session.
Markable ==
  LET positions == Last(states).positions
  IN  /\ StatusIn(positions, "WAITING") = {} /\ StatusIn(positions, "BLOCKED") = {}
      /\ \A t \in StatusIn(positions, "OPEN") : market[t][run.session] # NoBar

\* Mutant of Follows: any rollover is a predecessor.
FollowsAny(p) == TRUE

\* The rollover that is named is of the state before.
Follows(p) == IF p = 0 THEN Len(states) = 1 ELSE rolls[p].state = Len(states) - 1

Open(state) == StatusIn(state.positions, "OPEN")

Spent(t, v) == v.paid * TermsOf[t].quantity + TermsOf[t].cost

Cash(state) ==
  Capital + state.cumulative - SumFunction([t \in Open(state) |-> Spent(t, state.positions[t])])

Marked(t, bar) == bar.close * TermsOf[t].quantity

Gross(state, bars) ==
  SumFunction([t \in Open(state) |-> Marked(t, bars[t][state.session])])

Planned(t) == (TermsOf[t].high - TermsOf[t].stop) * TermsOf[t].quantity

OpenRisk(state) == SumFunction([t \in Open(state) |-> Planned(t)])

Nav(state, bars) == Cash(state) + Gross(state, bars)

Safe(state, bars) ==
  /\ Capital + state.cumulative > 0 /\ Cash(state) >= 0
  /\ Nav(state, bars) > 0 /\ OpenRisk(state) <= Nav(state, bars)

SnapshotOf(state, bars) ==
  [capital |-> Nav(state, bars), cash |-> Cash(state), gross |-> Gross(state, bars),
   risk |-> OpenRisk(state), open |-> Cardinality(Open(state)),
   daily |-> state.daily, pilot |-> state.cumulative]

Rollable == Markable /\ Follows(pinned[run.session]) /\ Safe(Last(states), market)

Roll ==
  /\ At("roll") /\ pinned[run.session] # -1
  /\ Rollable
  /\ LET p == pinned[run.session]
         prior == IF p = 0 THEN Capital ELSE rolls[p].peakNav
     IN  rolls' = Append(rolls, [state |-> Len(states), snapshot |-> SnapshotOf(Last(states), market),
                                 peakNav |-> Greatest(prior, Nav(Last(states), market))])
  /\ run' = [run EXCEPT !.stage = "seal", !.output = [Done EXCEPT !.rollover = Len(rolls) + 1]]
  /\ UNCHANGED <<outside, faults, ledger, states, journal>>

Unrollable ==
  /\ At("roll") /\ pinned[run.session] # -1
  /\ ~Rollable
  /\ EndsWith("FAILED")
  /\ UNCHANGED <<chain, faults>>

-----------------------------------------------------------------------------
(* The end of an attempt                                                   *)

Seal ==
  /\ At("seal")
  /\ terminal' = [terminal EXCEPT ![run.session] = run.output]
  /\ run' = [run EXCEPT !.stage = "end"]
  /\ UNCHANGED <<outside, faults, chain, pinned, events>>

EndOf(output) == IF output.status = "COMPLETE" THEN "COMPLETED" ELSE "UNUSED"

End ==
  /\ At("end") /\ Underway(run.session)
  /\ EndsWith(EndOf(run.output))
  /\ UNCHANGED <<chain, faults>>

\* The end was appended by another process that found the terminal: neither
\* COMPLETED nor FAILED can be appended to a chain of an even length.
Overtaken ==
  /\ At("end") /\ ~Underway(run.session)
  /\ run' = None
  /\ UNCHANGED <<outside, faults, chain, journal>>

\* Any exception: a store, the network, the lock that is not waited for.  One
\* in the preparation is recorded as a rejection, which is not told apart here.
Fail ==
  /\ run # None /\ Underway(run.session)
  /\ faults < MaxFaults /\ faults' = faults + 1
  /\ EndsWith("FAILED")
  /\ UNCHANGED chain

\* The process ends, or cannot append how the attempt ended.
Die ==
  /\ run # None
  /\ faults < MaxFaults /\ faults' = faults + 1
  /\ run' = None
  /\ UNCHANGED <<outside, chain, journal>>

\* A run of the workflow that finds the terminal and an attempt underway.
Repair(s) ==
  /\ terminal[s] # None /\ Underway(s)
  /\ AppendEvent(s, EndOf(terminal[s]))
  /\ UNCHANGED <<outside, faults, chain, pinned, terminal, run>>

Next ==
  \/ \E t \in Alerts : Register(t)
  \/ Size \/ Close
  \/ \E t \in Buys : Buy(t) \/ \E i \in DOMAIN sizing : Allot(i, t)
  \/ \E s \in Sessions : Start(s) \/ Repair(s)
  \/ NoActive \/ Reject \/ Prepare \/ Omit
  \/ \E t \in Trades : Judge(t)
  \/ PutState
  \/ RollNothing \/ Roll \/ Unrollable
  \/ Seal \/ End \/ Overtaken
  \/ Fail \/ Die

Spec == Init /\ [][Next]_vars

-----------------------------------------------------------------------------
(* Properties                                                              *)

\* Type correctness.
DailyTypeOK ==
  /\ day \in 0 .. Days
  /\ market \in [Trades -> [Sessions -> Bar \cup {NoBar}]]
  /\ \A t \in Trades : \A s \in Sessions : market[t][s] = NoBar \/ SoundBar(market[t][s])
  /\ ledger \in [Trades -> Entry]
  /\ sizing \in Seq(Sizing)
  /\ sized \in [Buys -> Order \cup {None}]
  /\ states \in Seq(State)
  /\ rolls \in Seq(Rollover)
  /\ pinned \in [Sessions -> (-1 .. Days) \cup {None}]
  /\ events \in [Sessions -> Seq(Event)]
  /\ terminal \in [Sessions -> Terminal \cup {None}]
  /\ run \in Attempt \cup {None}
  /\ faults \in 0 .. MaxFaults

Final == {"CLOSED", "EXPIRED", "BLOCKED"}

Agrees(v, w) ==
  IF v.status \in Final THEN w = v ELSE v.status = "OPEN" => w.in = v.in /\ w.paid = v.paid

\* What a workflow made of a trade stands: the replay on all evidence that
\* there is now, of sessions that came later, says the same of an entry and
\* of an exit (replay_paper_outcome is run anew on every session).
VerdictsStand ==
  \A t \in Trades :
    LET now == Replay(TermsOf[t], market[t], day)
    IN  /\ \A i \in DOMAIN states :
             states[i].positions[t] # None => Agrees(states[i].positions[t], now)
        /\ t \in Alerts /\ ledger[t] # None => Agrees(ledger[t], now)

\* A state knows nothing of later sessions: what it has filled was filled after
\* the decision, when the trade was allowed to, and by its own session, also
\* if its workflow runs days later.
NothingIsForeseen ==
  \A i \in DOMAIN states : \A t \in Trades :
    LET v == states[i].positions[t]
        term == TermsOf[t]
    IN  v # None /\ v.in # 0 =>
          /\ v.in \in term.from .. term.until /\ v.in > term.decided
          /\ v.in <= states[i].session
          /\ v.status = "CLOSED" => v.out \in v.in .. Least(states[i].session, v.in + term.hold - 1)

\* The lowest price that the day may have given to a stop and a target.
Worst(t, v) ==
  LET bar == market[t][v.out]
      term == TermsOf[t]
      later == v.out > v.in
  IN  IF v.why = "TIME" THEN bar.close
      ELSE IF later /\ bar.open <= term.stop THEN bar.open
      ELSE IF bar.low <= term.stop THEN term.stop
      ELSE IF bar.open >= term.target THEN bar.open
      ELSE term.target

\* No fill is better than the day gave: the entry is within its zone and not
\* below the open, and the exit is not above the worst price that a path
\* through the bar can have met first.
FillsArePessimistic ==
  \A t \in Alerts :
    LET v == ledger[t]
        term == TermsOf[t]
    IN  v # None =>
          /\ v.in # 0 => /\ v.paid \in term.low .. term.high
                         /\ v.paid >= Least(market[t][v.in].open, term.high)
          /\ v.status = "CLOSED" => v.got <= Worst(t, v)

\* The money of a state is that of the trades it has closed, each counted once,
\* and its peak is the highest that the chain has seen.
MoneyAddsUp ==
  \A i \in DOMAIN states :
    LET positions == states[i].positions
        closed == StatusIn(positions, "CLOSED")
    IN  /\ states[i].cumulative = SumFunction([t \in closed |-> Pnl(t, positions[t])])
        /\ states[i].peak = Max({0} \cup {states[j].cumulative : j \in 1 .. i})

\* The rollovers are those of the first states, in their order; each values the
\* account as if all that is open were sold at the close of its own session,
\* none is made of a book with an undecided trade, and its peak is the highest
\* value so far.
RolloversFollow ==
  \A i \in DOMAIN rolls :
    LET sold(t) == Pnl(t, [states[i].positions[t] EXCEPT !.got = market[t][states[i].session].close])
    IN
    /\ rolls[i].state = i
    /\ rolls[i].snapshot.capital = Capital + states[i].cumulative + SumFunction([t \in Open(states[i]) |-> sold(t)])
    /\ rolls[i].snapshot.cash >= 0 /\ rolls[i].snapshot.risk <= rolls[i].snapshot.capital
    /\ StatusIn(states[i].positions, "WAITING") \cup StatusIn(states[i].positions, "BLOCKED") = {}
    /\ rolls[i].peakNav = Max({Capital} \cup {Nav(states[j], market) : j \in 1 .. i})

\* In what follows orders maps each BUY to what it was sized to.
Notional(b, order) == order.quantity * TermsOf[b].high

RiskOf(b, order) == order.quantity * Loss(LevelsOf(b, order.offer))

Price(b, order) == Notional(b, order) + order.quantity * TermsOf[b].cost

TotalNotional(orders) == SumFunction([b \in DOMAIN orders |-> Notional(b, orders[b])])

TotalRisk(orders) == SumFunction([b \in DOMAIN orders |-> RiskOf(b, orders[b])])

TotalPrice(orders) == SumFunction([b \in DOMAIN orders |-> Price(b, orders[b])])

OrdersBy(i) == Restrict(sized, {b \in Buys : sized[b] # None /\ sized[b].by = i})

WithinLimits(p, orders, most) ==
  /\ Bps * (p.risk + TotalRisk(orders)) <= p.capital * TotalRiskBps
  /\ Bps * (p.gross + TotalNotional(orders)) <= p.capital * ExposureBps
  /\ TotalPrice(orders) <= p.cash
  /\ p.open + Cardinality(DOMAIN orders) <= MaxOpen /\ Cardinality(DOMAIN orders) <= most
  /\ p.daily * Bps > -(p.capital * DailyLossBps)
  /\ p.pilot * Bps > -(p.capital * DrawdownBps)
  /\ \A b \in DOMAIN orders :
       /\ Bps * RiskOf(b, orders[b]) <= p.capital * TradeRiskBps
       /\ Bps * Notional(b, orders[b]) <= p.capital * PositionBps
       /\ Notional(b, orders[b]) <= orders[b].offer.liquidity
       /\ orders[b].quantity <= orders[b].offer.depth

\* The orders of one sizing batch, taken together with what the account had in
\* its snapshot, stay within every limit of the policy, and each takes no more
\* than its part of the account and of the market, whatever other batches size
\* meanwhile.  Of the orders of two batches nothing is said.
SizedWithinLimits ==
  \A i \in DOMAIN sizing :
    LET orders == OrdersBy(i)
    IN  DOMAIN orders # {} => WithinLimits(SnapshotAt(sizing[i].on), orders, sizing[i].most)

\* A batch is sized on what the book holds: the positions of its snapshot are
\* those that the ledger has open in that instant, and no exit is pending.
SizedOnTheBook ==
  [][Len(sizing') > Len(sizing) =>
       LET open == {t \in Trades : ledger[t] # None /\ ledger[t].status = "OPEN"}
       IN  /\ Cardinality(open) = Last(sizing').state.open
           /\ \A t \in open : Replay(TermsOf[t], market[t], day) = ledger[t]]_vars

\* A failure can be tried again as long as the budget is not used up.
FailuresCanBeRetried ==
  \A s \in Sessions :
    run = None /\ terminal[s] = None /\ Started(s) < MaxAttempts => ~Underway(s)
=============================================================================
