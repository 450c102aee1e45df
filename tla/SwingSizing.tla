----------------------------- MODULE SwingSizing -----------------------------
(***************************************************************************)
(* How many shares a ranked opportunity gets (risk/swing_portfolio.py).    *)
(*                                                                         *)
(* Amounts are integers.  The fractions of the policy are per ten thousand *)
(* and are multiplied out, so that no quotient is rounded before the floor *)
(* that the code takes.                                                    *)
(***************************************************************************)
EXTENDS Integers

CONSTANTS
  TradeRiskBps,      \* per_trade_risk_fraction
  TotalRiskBps,      \* maximum_total_open_risk_fraction
  PositionBps,       \* maximum_position_notional_fraction
  ExposureBps,       \* maximum_gross_exposure_fraction
  DailyLossBps,      \* maximum_daily_loss_fraction
  DrawdownBps,       \* maximum_pilot_drawdown_fraction
  MinRewardPercent,  \* minimum_net_reward_risk, in hundredths
  MaxOpen            \* maximum_open_positions

Bps == 10000

Fraction == 1 .. Bps

ASSUME SizingAssumption ==
  /\ {TradeRiskBps, TotalRiskBps, PositionBps, ExposureBps, DailyLossBps, DrawdownBps}
       \subseteq Fraction
  /\ TradeRiskBps <= TotalRiskBps
  /\ PositionBps <= ExposureBps
  /\ DailyLossBps <= DrawdownBps
  /\ MinRewardPercent \in Nat \ {0}
  /\ MaxOpen \in Nat \ {0}

\* SwingPortfolioSnapshot.
Snapshot == [capital : Nat \ {0}, cash : Nat, gross : Nat, risk : Nat, open : Nat,
             daily : Int, pilot : Int]

SoundSnapshot(p) ==
  p \in Snapshot /\ p.cash + p.gross <= p.capital /\ p.risk <= p.capital

\* SwingCapitalAllocationState.
Allocation == [cash : Nat, gross : Nat, risk : Nat, open : Nat]

Initially(p) == [cash |-> p.cash, gross |-> p.gross, risk |-> p.risk, open |-> p.open]

\* Quote-adjusted levels; liquidity is the traded value the policy leaves to
\* the order, depth the shares it leaves of the best ask.
Levels == [high : Nat \ {0}, stop : Nat, target : Nat, cost : Nat, liquidity : Nat, depth : Nat]

Loss(l) == l.high - l.stop + l.cost

Reward(l) == l.target - l.high - l.cost

\* Otherwise "ranked opportunity has invalid risk/reward".
SoundLevels(l) == l \in Levels /\ Loss(l) > 0 /\ Reward(l) > 0

-----------------------------------------------------------------------------
\* What is left of a limit that is a fraction of the capital, in parts of Bps.
Remaining(p, bps, used) ==
  IF p.capital * bps > Bps * used THEN p.capital * bps - Bps * used ELSE 0

TradeRiskShares(p, l) == (p.capital * TradeRiskBps) \div (Bps * Loss(l))

OpenRiskShares(p, a, l) == Remaining(p, TotalRiskBps, a.risk) \div (Bps * Loss(l))

PositionShares(p, l) == (p.capital * PositionBps) \div (Bps * l.high)

\* Mutant of GrossShares: the exposure there is already is forgotten.
GrossSharesAnew(p, a, l) == Remaining(p, ExposureBps, 0) \div (Bps * l.high)

GrossShares(p, a, l) == Remaining(p, ExposureBps, a.gross) \div (Bps * l.high)

CashShares(a, l) == a.cash \div (l.high + l.cost)

LiquidityShares(l) == l.liquidity \div l.high

Caps(p, a, l) ==
  {TradeRiskShares(p, l), OpenRiskShares(p, a, l), PositionShares(p, l),
   GrossShares(p, a, l), CashShares(a, l), LiquidityShares(l), l.depth}

Quantity(p, a, l) == CHOOSE q \in Caps(p, a, l) : \A c \in Caps(p, a, l) : q <= c

\* A cap below one share is a reason of its own; the others are these.  most is
\* maximum_new_positions_per_run.
Halted(p, a, l, most) ==
  \/ p.daily * Bps <= -(p.capital * DailyLossBps)
  \/ p.pilot * Bps <= -(p.capital * DrawdownBps)
  \/ a.open >= MaxOpen
  \/ a.open - p.open >= most
  \/ Reward(l) * 100 < MinRewardPercent * Loss(l)

Vetoed(p, a, l, most) == Halted(p, a, l, most) \/ \E c \in Caps(p, a, l) : c < 1

Allocate(p, a, l) ==
  LET q == Quantity(p, a, l)
  IN  [cash |-> a.cash - q * l.high - q * l.cost,
       gross |-> a.gross + q * l.high,
       risk |-> a.risk + q * Loss(l),
       open |-> a.open + 1]
=============================================================================
