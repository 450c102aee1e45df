----------------------------- MODULE PaperReplay -----------------------------
(***************************************************************************)
(* What the daily evidence makes of a paper trade: the fills of            *)
(* execution/simulator.py and the replay of paper_outcomes/resolver.py.    *)
(*                                                                         *)
(* Prices are in ticks and every level of a trade is a number of ticks, so *)
(* rounding to the tick is rounding to an integer.  Evidence is a function *)
(* from sessions to bars; a session in which the listing did not trade has *)
(* NoBar.  Bars made from observations are never circuit locked.           *)
(***************************************************************************)
EXTENDS Integers

CONSTANTS
  SlippageBps,       \* adverse slippage, per ten thousand
  ParticipationBps,  \* the part of a session's volume an order may be
  CalendarEnd,       \* the last session of the calendar snapshot
  NoBar              \* the listing did not trade

TenThousand == 10000

Bar == [open : Nat \ {0}, high : Nat \ {0}, low : Nat \ {0}, close : Nat \ {0}, volume : Nat]

\* SimulationBar: prices inside the range of the session.
SoundBar(bar) ==
  /\ bar \in Bar
  /\ bar.low <= bar.open /\ bar.open <= bar.high
  /\ bar.low <= bar.close /\ bar.close <= bar.high

ASSUME PolicyAssumption ==
  /\ SlippageBps \in 0 .. TenThousand - 1
  /\ ParticipationBps \in 1 .. TenThousand
  /\ CalendarEnd \in Nat
  /\ NoBar \notin Bar

\* PaperTradeRegistration: the session it was decided on, the sessions an
\* entry is good for, how many sessions it may be held, and its levels.  The
\* cost is that of the round trip of the whole quantity.
Terms == [decided : Nat, from : Nat \ {0}, until : Nat, hold : Nat \ {0}, quantity : Nat,
          low : Nat \ {0}, high : Nat, stop : Nat \ {0}, target : Nat, cost : Nat]

SoundTerms(t) ==
  /\ t \in Terms
  /\ t.from <= t.until /\ t.until <= CalendarEnd
  /\ t.stop < t.low /\ t.low <= t.high /\ t.high < t.target

-----------------------------------------------------------------------------
(* Fills                                                                   *)

Least(a, b) == IF a <= b THEN a ELSE b

Greatest(a, b) == IF a >= b THEN a ELSE b

AdverseBuy(p) == (p * (TenThousand + SlippageBps) + TenThousand - 1) \div TenThousand

AdverseSell(p) == (p * (TenThousand - SlippageBps)) \div TenThousand

Fillable(quantity, bar) == quantity * TenThousand <= bar.volume * ParticipationBps

\* simulate_limit_entry, and that the fill is inside the entry zone.
EntryFill(t, bar) ==
  Least(t.high, AdverseBuy(IF bar.open <= t.high THEN bar.open ELSE t.high))

Enters(t, bar) ==
  /\ bar # NoBar
  /\ bar.open >= t.low /\ bar.low <= t.high
  /\ Fillable(t.quantity, bar)
  /\ EntryFill(t, bar) >= t.low

StopTouched(t, bar) == bar.low <= t.stop

TargetTouched(t, bar) == bar.high >= t.target

\* simulate_protective_exit.  On the session of the entry a target cannot be
\* shown to come after it, and is left.
Exits(t, bar, entry) ==
  /\ bar # NoBar /\ Fillable(t.quantity, bar)
  /\ (StopTouched(t, bar) \/ (TargetTouched(t, bar) /\ ~entry))

ExitReason(t, bar) == IF StopTouched(t, bar) THEN "STOP" ELSE "TARGET"

\* Mutant of ExitFill: a stop that the open is below of is filled at the stop.
ExitFillAtStop(t, bar, entry) ==
  IF StopTouched(t, bar) THEN AdverseSell(t.stop)
  ELSE Greatest(t.target, AdverseSell(Greatest(bar.open, t.target)))

\* The stop goes before the target: a daily bar does not tell their order.
ExitFill(t, bar, entry) ==
  IF StopTouched(t, bar)
  THEN AdverseSell(IF entry THEN t.stop ELSE Least(bar.open, t.stop))
  ELSE Greatest(t.target, AdverseSell(Greatest(bar.open, t.target)))

-----------------------------------------------------------------------------
(* replay_paper_outcome, of evidence e that is known up to session k.      *)

\* The replay is not defined: the cutoff is before the decision, or the order
\* is one that could be filled in the session it was decided on.
Replayable(t, k) == t.decided < k /\ t.decided < t.from

EntersFirst(t, e, s) ==
  /\ s \in t.from .. t.until
  /\ Enters(t, e[s])
  /\ \A u \in t.from .. s - 1 : ~Enters(t, e[u])

Horizon(t, n) == n + t.hold - 1

ExitsFirst(t, e, n, s) ==
  /\ s \in n .. Horizon(t, n)
  /\ Exits(t, e[s], s = n)
  /\ \A u \in n .. s - 1 : ~Exits(t, e[u], u = n)

Verdict == [status : {"WAITING", "EXPIRED", "OPEN", "BLOCKED", "CLOSED"},
            in : Nat, paid : Nat, out : Nat, got : Nat, why : {"", "STOP", "TARGET", "TIME"}]

Held(status, n, paid) ==
  [status |-> status, in |-> n, paid |-> paid, out |-> 0, got |-> 0, why |-> ""]

Unfilled(status) == Held(status, 0, 0)

Left(v, s, got, why) ==
  [status |-> "CLOSED", in |-> v.in, paid |-> v.paid, out |-> s, got |-> got, why |-> why]

\* Mutant of AfterEntry: the time exit is taken at the end of the evidence.
AfterEntryAtOnce(t, e, k, n) ==
  LET held(status) == Held(status, n, EntryFill(t, e[n]))
  IN  IF Horizon(t, n) > CalendarEnd THEN held("BLOCKED")
      ELSE IF \E s \in n .. k : ExitsFirst(t, e, n, s)
      THEN LET s == CHOOSE s \in n .. k : ExitsFirst(t, e, n, s)
           IN  Left(held("OPEN"), s, ExitFill(t, e[s], s = n), ExitReason(t, e[s]))
      ELSE LET last == e[Least(k, Horizon(t, n))]
           IN  IF last = NoBar THEN held("BLOCKED")
               ELSE IF ~Fillable(t.quantity, last) THEN held("BLOCKED")
               ELSE Left(held("OPEN"), Least(k, Horizon(t, n)), AdverseSell(last.close), "TIME")

\* A trade entered in session n: a protective exit, or the close of the last
\* session it may be held.
AfterEntry(t, e, k, n) ==
  LET held(status) == Held(status, n, EntryFill(t, e[n]))
      last == e[Horizon(t, n)]
  IN  IF Horizon(t, n) > CalendarEnd THEN held("BLOCKED")
      ELSE IF \E s \in n .. k : ExitsFirst(t, e, n, s)
      THEN LET s == CHOOSE s \in n .. k : ExitsFirst(t, e, n, s)
           IN  Left(held("OPEN"), s, ExitFill(t, e[s], s = n), ExitReason(t, e[s]))
      ELSE IF k < Horizon(t, n) THEN held("OPEN")
      ELSE IF last = NoBar THEN held("BLOCKED")
      ELSE IF ~Fillable(t.quantity, last) THEN held("BLOCKED")
      ELSE Left(held("OPEN"), Horizon(t, n), AdverseSell(last.close), "TIME")

\* Mutant of Replay: evidence later than the cutoff is listed, too.
ReplayAhead(t, e, k) ==
  IF \E n \in t.from .. k + 1 : EntersFirst(t, e, n)
  THEN AfterEntry(t, e, k, CHOOSE n \in t.from .. k + 1 : EntersFirst(t, e, n))
  ELSE Unfilled(IF k >= t.until THEN "EXPIRED" ELSE "WAITING")

Replay(t, e, k) ==
  IF \E n \in t.from .. k : EntersFirst(t, e, n)
  THEN AfterEntry(t, e, k, CHOOSE n \in t.from .. k : EntersFirst(t, e, n))
  ELSE Unfilled(IF k >= t.until THEN "EXPIRED" ELSE "WAITING")
=============================================================================
