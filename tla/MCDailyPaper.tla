---------------------------- MODULE MCDailyPaper ----------------------------
(* Two alerts that overlap, and two BUYs on the last day. *)
EXTENDS DailyPaper

CONSTANTS first, second, bought, bought2


MCTerms ==
  (first :> [decided |-> 0, from |-> 1, until |-> 2, hold |-> 2, quantity |-> 2,
             low |-> 9, high |-> 10, stop |-> 8, target |-> 20, cost |-> 1]) @@
  (second :> [decided |-> 1, from |-> 2, until |-> 2, hold |-> 2, quantity |-> 1,
              low |-> 9, high |-> 10, stop |-> 8, target |-> 20, cost |-> 1]) @@
  [b \in {bought, bought2} |->
             [decided |-> 3, from |-> 3, until |-> 3, hold |-> 2, quantity |-> 0,
              low |-> 9, high |-> 10, stop |-> 8, target |-> 20, cost |-> 1]]

TheBar(o, h, l, c, v) == [open |-> o, high |-> h, low |-> l, close |-> c, volume |-> v]

Quiet == TheBar(9, 11, 9, 10, 100)

\* The stop and the target in one session.
Both == TheBar(10, 22, 7, 15, 100)

GapUp == TheBar(25, 26, 24, 25, 100)

GapDown == TheBar(6, 7, 5, 6, 100)

Prices(one, other) == first :> one @@ second :> other

MCTape ==
  <<{Prices(bar, NoBar) : bar \in {Quiet, NoBar}},
    {Prices(Quiet, Quiet), Prices(Both, Quiet), Prices(GapUp, Both), Prices(GapDown, NoBar)},
    {Prices(Quiet, GapDown), Prices(NoBar, NoBar)}>>

Alike == Permutations({bought, bought2})

\* Two batches where there is something to buy.
MCMaxRuns == <<1, 1, 2, 0>>

MCOffers == {[liquidity |-> 1000, depth |-> 3]}
=============================================================================
