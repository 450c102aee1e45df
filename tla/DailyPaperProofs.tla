-------------------------- MODULE DailyPaperProofs --------------------------
(***************************************************************************)
(* Proofs about the paper book: what a replay says stands, money adds up   *)
(* along the chain of states and rollovers, and what is sized on them      *)
(* stays within the policy.                                                *)
(***************************************************************************)
EXTENDS DailyPaper, FiniteSums, SequenceTheorems

-----------------------------------------------------------------------------
(* Fills.                                                                  *)

LEMMA Division ==
  ASSUME NEW a \in Nat, NEW b \in Nat \ {0}
  PROVE  /\ a \div b \in Nat
         /\ (a \div b) * b <= a
         /\ \A q \in Nat : q <= a \div b => q * b <= a
<1>1. PICK d \in Nat : d = a \div b /\ b * d <= a
  OBVIOUS
<1>2. ASSUME NEW q \in Nat, q <= d PROVE q * b <= a
  <2>1. q * b <= d * b
    BY <1>2
  <2> QED BY <1>1, <2>1
<1> QED BY <1>1, <1>2

\* Slippage is adverse: a buy costs no less, and a sale brings no more.
LEMMA Adverse ==
  ASSUME NEW p \in Nat
  PROVE  /\ AdverseBuy(p) \in Nat /\ AdverseBuy(p) >= p
         /\ AdverseSell(p) \in Nat /\ AdverseSell(p) <= p
<1>1. SlippageBps \in 0 .. 9999
  BY PolicyAssumption DEF TenThousand
<1>2. PICK u \in Nat : u = p * SlippageBps
  BY <1>1
<1>3. p * (10000 + SlippageBps) = p * 10000 + u /\ p * (10000 - SlippageBps) = p * 10000 - u
  BY <1>1, <1>2
<1>4. p * (10000 - SlippageBps) \in Nat
  BY <1>1
<1>5. AdverseBuy(p) = (p * 10000 + u + 10000 - 1) \div 10000
  BY <1>3 DEF AdverseBuy, TenThousand
<1>6. AdverseSell(p) = (p * 10000 - u) \div 10000
  BY <1>3 DEF AdverseSell, TenThousand
<1>7. p * 10000 - u \in Nat
  BY <1>3, <1>4
<1> QED BY <1>2, <1>5, <1>6, <1>7

\* Evidence that is known up to session k.
Evidence(e, k) == \A s \in 1 .. k : e[s] = NoBar \/ SoundBar(e[s])

LEMMA SoundLevelsOfTerms ==
  ASSUME NEW t, SoundTerms(t)
  PROVE  /\ t.from \in Nat \ {0} /\ t.until \in Nat /\ t.hold \in Nat \ {0} /\ t.decided \in Nat
         /\ t.low \in Nat \ {0} /\ t.high \in Nat /\ t.stop \in Nat \ {0} /\ t.target \in Nat
         /\ t.quantity \in Nat /\ t.cost \in Nat
         /\ t.from <= t.until /\ t.stop < t.low /\ t.low <= t.high /\ t.high < t.target
BY DEF SoundTerms, Terms

LEMMA SoundPrices ==
  ASSUME NEW bar, SoundBar(bar)
  PROVE  /\ bar.open \in Nat /\ bar.high \in Nat /\ bar.low \in Nat /\ bar.close \in Nat
         /\ bar.low <= bar.open /\ bar.open <= bar.high
         /\ bar.low <= bar.close /\ bar.close <= bar.high
BY DEF SoundBar, Bar

\* An entry is inside the zone, and not below the open.
LEMMA EntryFillBounds ==
  ASSUME NEW t, SoundTerms(t), NEW bar, SoundBar(bar), Enters(t, bar)
  PROVE  /\ EntryFill(t, bar) \in Nat
         /\ EntryFill(t, bar) \in t.low .. t.high
         /\ EntryFill(t, bar) >= Least(bar.open, t.high)
<1> DEFINE p == IF bar.open <= t.high THEN bar.open ELSE t.high
<1>1. p \in Nat /\ p <= t.high /\ p = Least(bar.open, t.high)
  BY SoundLevelsOfTerms, SoundPrices DEF Least
<1>2. EntryFill(t, bar) = Least(t.high, AdverseBuy(p))
  BY DEF EntryFill
<1> HIDE DEF p
<1>3. AdverseBuy(p) \in Nat /\ AdverseBuy(p) >= p
  BY <1>1, Adverse
<1>4. EntryFill(t, bar) >= t.low
  BY DEF Enters
<1>5. t.high \in Nat /\ t.low \in Nat
  BY SoundLevelsOfTerms
<1>6. EntryFill(t, bar) \in Nat /\ EntryFill(t, bar) <= t.high /\ EntryFill(t, bar) >= p
  BY <1>1, <1>2, <1>3, <1>5 DEF Least
<1> QED BY <1>1, <1>4, <1>5, <1>6

\* No exit is better than the first of the prices that the bar may have met.
LEMMA ExitFillBounds ==
  ASSUME NEW t, SoundTerms(t), NEW bar, SoundBar(bar), NEW entry \in BOOLEAN, Exits(t, bar, entry)
  PROVE  /\ ExitFill(t, bar, entry) \in Nat
         /\ ExitFill(t, bar, entry) <=
              IF ~entry /\ bar.open <= t.stop THEN bar.open
              ELSE IF bar.low <= t.stop THEN t.stop
              ELSE IF bar.open >= t.target THEN bar.open
              ELSE t.target
<1>1. /\ t.stop \in Nat /\ t.target \in Nat /\ bar.open \in Nat /\ bar.low \in Nat
      /\ bar.low <= bar.open
  BY SoundLevelsOfTerms, SoundPrices
<1>2. CASE bar.low <= t.stop
  <2> DEFINE p == IF entry THEN t.stop ELSE Least(bar.open, t.stop)
  <2>1. p \in Nat /\ p <= t.stop /\ (~entry /\ bar.open <= t.stop => p = bar.open)
    BY <1>1 DEF Least
  <2>2. ExitFill(t, bar, entry) = AdverseSell(p)
    BY <1>2 DEF ExitFill, StopTouched
  <2> HIDE DEF p
  <2>3. AdverseSell(p) \in Nat /\ AdverseSell(p) <= p
    BY <2>1, Adverse
  <2> QED BY <1>1, <1>2, <2>1, <2>2, <2>3
<1>3. CASE ~(bar.low <= t.stop)
  <2> DEFINE p == Greatest(bar.open, t.target)
  <2>1. p \in Nat /\ p >= t.target /\ (bar.open >= t.target => p = bar.open)
        /\ (~(bar.open >= t.target) => p = t.target)
    BY <1>1 DEF Greatest
  <2>2. ExitFill(t, bar, entry) = Greatest(t.target, AdverseSell(p))
    BY <1>3 DEF ExitFill, StopTouched
  <2> HIDE DEF p
  <2>3. AdverseSell(p) \in Nat /\ AdverseSell(p) <= p
    BY <2>1, Adverse
  <2>4. ExitFill(t, bar, entry) \in Nat /\ ExitFill(t, bar, entry) <= p
    BY <1>1, <2>1, <2>2, <2>3 DEF Greatest
  <2>5. ~(bar.open <= t.stop)
    BY <1>1, <1>3
  <2> QED BY <1>1, <1>3, <2>1, <2>4, <2>5
<1> QED BY <1>2, <1>3

-----------------------------------------------------------------------------
(* The replay.                                                             *)

LEMMA OneEntry ==
  ASSUME NEW t, SoundTerms(t), NEW e, NEW m, NEW n, EntersFirst(t, e, m), EntersFirst(t, e, n)
  PROVE  m = n
<1>1. m \in Nat /\ n \in Nat /\ t.from \in Nat /\ m >= t.from /\ n >= t.from
  BY SoundLevelsOfTerms DEF EntersFirst
<1>2. CASE m < n
  BY <1>1, <1>2 DEF EntersFirst
<1>3. CASE n < m
  BY <1>1, <1>3 DEF EntersFirst
<1> QED BY <1>1, <1>2, <1>3

LEMMA OneExit ==
  ASSUME NEW t, SoundTerms(t), NEW e, NEW n \in Nat, NEW r, NEW s,
         ExitsFirst(t, e, n, r), ExitsFirst(t, e, n, s)
  PROVE  r = s
<1>1. r \in Nat /\ s \in Nat /\ r >= n /\ s >= n
  BY SoundLevelsOfTerms DEF ExitsFirst, Horizon
<1>2. CASE r < s
  BY <1>1, <1>2 DEF ExitsFirst
<1>3. CASE s < r
  BY <1>1, <1>3 DEF ExitsFirst
<1> QED BY <1>1, <1>2, <1>3

LEMMA ReplayOfEntry ==
  ASSUME NEW t, SoundTerms(t), NEW e, NEW k \in Nat, NEW n \in t.from .. k, EntersFirst(t, e, n)
  PROVE  Replay(t, e, k) = AfterEntry(t, e, k, n)
<1> DEFINE m == CHOOSE m \in t.from .. k : EntersFirst(t, e, m)
<1>1. EntersFirst(t, e, m)
  OBVIOUS
<1>2. m = n
  BY <1>1, OneEntry
<1>3. Replay(t, e, k) = AfterEntry(t, e, k, m)
  BY DEF Replay
<1> QED BY <1>2, <1>3

LEMMA ReplayOfNone ==
  ASSUME NEW t, NEW e, NEW k \in Nat, \A n \in t.from .. k : ~EntersFirst(t, e, n)
  PROVE  Replay(t, e, k) = Unfilled(IF k >= t.until THEN "EXPIRED" ELSE "WAITING")
BY DEF Replay

LEMMA AfterEntryExits ==
  ASSUME NEW t, SoundTerms(t), NEW e, NEW k \in Nat, NEW n \in Nat, Horizon(t, n) <= CalendarEnd,
         NEW s \in n .. k, ExitsFirst(t, e, n, s)
  PROVE  AfterEntry(t, e, k, n) =
           [status |-> "CLOSED", in |-> n, paid |-> EntryFill(t, e[n]), out |-> s,
            got |-> ExitFill(t, e[s], s = n), why |-> ExitReason(t, e[s])]
<1> DEFINE r == CHOOSE r \in n .. k : ExitsFirst(t, e, n, r)
<1>1. ExitsFirst(t, e, n, r)
  OBVIOUS
<1>2. r = s
  BY <1>1, OneExit
<1>3. ~(Horizon(t, n) > CalendarEnd)
  BY PolicyAssumption, SoundLevelsOfTerms DEF Horizon
<1>4. AfterEntry(t, e, k, n) =
        Left(Held("OPEN", n, EntryFill(t, e[n])), r, ExitFill(t, e[r], r = n), ExitReason(t, e[r]))
  BY <1>3 DEF AfterEntry
<1> QED BY <1>2, <1>4 DEF Left, Held

LEMMA AfterEntryStays ==
  ASSUME NEW t, SoundTerms(t), NEW e, NEW k \in Nat, NEW n \in Nat, Horizon(t, n) <= CalendarEnd,
         \A s \in n .. k : ~ExitsFirst(t, e, n, s)
  PROVE  LET h == Horizon(t, n) IN
         /\ k < h =>
              AfterEntry(t, e, k, n) = Held("OPEN", n, EntryFill(t, e[n]))
         /\ k >= h /\ (e[h] = NoBar \/ ~Fillable(t.quantity, e[h])) =>
              AfterEntry(t, e, k, n) = Held("BLOCKED", n, EntryFill(t, e[n]))
         /\ k >= h /\ e[h] # NoBar /\ Fillable(t.quantity, e[h]) =>
              AfterEntry(t, e, k, n) =
                [status |-> "CLOSED", in |-> n, paid |-> EntryFill(t, e[n]), out |-> h,
                 got |-> AdverseSell(e[h].close), why |-> "TIME"]
<1>1. Horizon(t, n) \in Nat /\ ~(Horizon(t, n) > CalendarEnd)
  BY PolicyAssumption, SoundLevelsOfTerms DEF Horizon
<1>2. PICK h : h = Horizon(t, n)
  OBVIOUS
<1>3. AfterEntry(t, e, k, n) =
        IF k < h THEN Held("OPEN", n, EntryFill(t, e[n]))
        ELSE IF e[h] = NoBar THEN Held("BLOCKED", n, EntryFill(t, e[n]))
        ELSE IF ~Fillable(t.quantity, e[h]) THEN Held("BLOCKED", n, EntryFill(t, e[n]))
        ELSE Left(Held("OPEN", n, EntryFill(t, e[n])), h, AdverseSell(e[h].close), "TIME")
  BY <1>1, <1>2 DEF AfterEntry
<1>4. Left(Held("OPEN", n, EntryFill(t, e[n])), h, AdverseSell(e[h].close), "TIME") =
        [status |-> "CLOSED", in |-> n, paid |-> EntryFill(t, e[n]), out |-> h,
         got |-> AdverseSell(e[h].close), why |-> "TIME"]
  BY DEF Left, Held
<1>5. k >= h => ~(k < h)
  BY <1>1, <1>2
<1> QED BY <1>2, <1>3, <1>4, <1>5

LEMMA AfterEntryBeyond ==
  ASSUME NEW t, NEW e, NEW k, NEW n, Horizon(t, n) > CalendarEnd
  PROVE  AfterEntry(t, e, k, n) = Held("BLOCKED", n, EntryFill(t, e[n]))
BY DEF AfterEntry

\* A trade that was entered: the three ways it may go on.
Beyond(t, n) == Horizon(t, n) > CalendarEnd

LeavesAt(t, e, k, n, s) == ~Beyond(t, n) /\ s \in n .. k /\ ExitsFirst(t, e, n, s)

Stays(t, e, k, n) == ~Beyond(t, n) /\ \A s \in n .. k : ~ExitsFirst(t, e, n, s)

ClosedAs(t, e, n, s, got, why) ==
  [status |-> "CLOSED", in |-> n, paid |-> EntryFill(t, e[n]), out |-> s, got |-> got, why |-> why]

ByExit(t, e, n, s) == ClosedAs(t, e, n, s, ExitFill(t, e[s], s = n), ExitReason(t, e[s]))

ByTime(t, e, n) == ClosedAs(t, e, n, Horizon(t, n), AdverseSell(e[Horizon(t, n)].close), "TIME")

Priced(t, e, n) ==
  e[Horizon(t, n)] # NoBar /\ Fillable(t.quantity, e[Horizon(t, n)])

LEMMA HorizonIsNat ==
  ASSUME NEW t, SoundTerms(t), NEW n \in Nat
  PROVE  /\ Horizon(t, n) \in Nat /\ n <= Horizon(t, n) /\ Horizon(t, n) = n + t.hold - 1
         /\ ~Beyond(t, n) <=> Horizon(t, n) <= CalendarEnd
BY PolicyAssumption, SoundLevelsOfTerms DEF Horizon, Beyond

\* Every replay is one of these.
LEMMA ReplayCases ==
  ASSUME NEW t, SoundTerms(t), NEW e, NEW k \in Nat
  PROVE  \/ /\ \A n \in t.from .. k : ~EntersFirst(t, e, n)
            /\ Replay(t, e, k) = Unfilled(IF k >= t.until THEN "EXPIRED" ELSE "WAITING")
         \/ \E n \in t.from .. k :
              /\ EntersFirst(t, e, n) /\ Replay(t, e, k) = AfterEntry(t, e, k, n)
              /\ \/ /\ Beyond(t, n)
                    /\ Replay(t, e, k) = Held("BLOCKED", n, EntryFill(t, e[n]))
                 \/ \E s \in n .. k :
                      LeavesAt(t, e, k, n, s) /\ Replay(t, e, k) = ByExit(t, e, n, s)
                 \/ /\ Stays(t, e, k, n) /\ k < Horizon(t, n)
                    /\ Replay(t, e, k) = Held("OPEN", n, EntryFill(t, e[n]))
                 \/ /\ Stays(t, e, k, n) /\ k >= Horizon(t, n) /\ ~Priced(t, e, n)
                    /\ Replay(t, e, k) = Held("BLOCKED", n, EntryFill(t, e[n]))
                 \/ /\ Stays(t, e, k, n) /\ k >= Horizon(t, n) /\ Priced(t, e, n)
                    /\ Replay(t, e, k) = ByTime(t, e, n)
<1>1. CASE \A n \in t.from .. k : ~EntersFirst(t, e, n)
  BY <1>1, ReplayOfNone
<1>2. ASSUME NEW n \in t.from .. k, EntersFirst(t, e, n)
      PROVE  /\ Replay(t, e, k) = AfterEntry(t, e, k, n)
             /\ \/ /\ Beyond(t, n)
                   /\ Replay(t, e, k) = Held("BLOCKED", n, EntryFill(t, e[n]))
                \/ \E s \in n .. k :
                     LeavesAt(t, e, k, n, s) /\ Replay(t, e, k) = ByExit(t, e, n, s)
                \/ /\ Stays(t, e, k, n) /\ k < Horizon(t, n)
                   /\ Replay(t, e, k) = Held("OPEN", n, EntryFill(t, e[n]))
                \/ /\ Stays(t, e, k, n) /\ k >= Horizon(t, n) /\ ~Priced(t, e, n)
                   /\ Replay(t, e, k) = Held("BLOCKED", n, EntryFill(t, e[n]))
                \/ /\ Stays(t, e, k, n) /\ k >= Horizon(t, n) /\ Priced(t, e, n)
                   /\ Replay(t, e, k) = ByTime(t, e, n)
  <2>1. Replay(t, e, k) = AfterEntry(t, e, k, n) /\ n \in Nat
    BY <1>2, ReplayOfEntry, SoundLevelsOfTerms
  <2>2. CASE Beyond(t, n)
    BY <2>1, <2>2, AfterEntryBeyond DEF Beyond
  <2>3. CASE ~Beyond(t, n) /\ \E s \in n .. k : ExitsFirst(t, e, n, s)
    <3>1. PICK s \in n .. k : ExitsFirst(t, e, n, s)
      BY <2>3
    <3>2. Horizon(t, n) <= CalendarEnd
      BY <2>1, <2>3, HorizonIsNat
    <3>3. AfterEntry(t, e, k, n) = ByExit(t, e, n, s)
      BY <2>1, <3>1, <3>2, AfterEntryExits DEF ByExit, ClosedAs
    <3>4. LeavesAt(t, e, k, n, s)
      BY <2>3, <3>1 DEF LeavesAt
    <3> QED BY <2>1, <3>3, <3>4
  <2>4. CASE ~Beyond(t, n) /\ \A s \in n .. k : ~ExitsFirst(t, e, n, s)
    <3>1. Horizon(t, n) <= CalendarEnd /\ Horizon(t, n) \in Nat
      BY <2>1, <2>4, HorizonIsNat
    <3>2. Stays(t, e, k, n)
      BY <2>4 DEF Stays
    <3>3. /\ k < Horizon(t, n) =>
               AfterEntry(t, e, k, n) = Held("OPEN", n, EntryFill(t, e[n]))
          /\ k >= Horizon(t, n) /\ ~Priced(t, e, n) =>
               AfterEntry(t, e, k, n) = Held("BLOCKED", n, EntryFill(t, e[n]))
          /\ k >= Horizon(t, n) /\ Priced(t, e, n) => AfterEntry(t, e, k, n) = ByTime(t, e, n)
      BY <2>1, <2>4, <3>1, AfterEntryStays DEF Priced, ByTime, ClosedAs
    <3>4. k < Horizon(t, n) \/ k >= Horizon(t, n)
      BY <3>1
    <3> QED BY <2>1, <3>2, <3>3, <3>4
  <2> QED BY <2>2, <2>3, <2>4
<1> QED BY <1>1, <1>2

LEMMA KnownBars ==
  ASSUME NEW e, NEW k \in Nat, Evidence(e, k), NEW s \in 1 .. k, e[s] # NoBar
  PROVE  SoundBar(e[s])
BY DEF Evidence

\* The entry and the exit of an entered trade, with their sessions and prices.
LEMMA EntryFacts ==
  ASSUME NEW t, SoundTerms(t), NEW e, NEW k \in Nat, Evidence(e, k),
         NEW n \in t.from .. k, EntersFirst(t, e, n)
  PROVE  /\ n \in Nat \ {0} /\ n \in t.from .. t.until
         /\ EntryFill(t, e[n]) \in Nat /\ EntryFill(t, e[n]) \in t.low .. t.high
         /\ EntryFill(t, e[n]) >= Least(e[n].open, t.high)
<1>1. n \in 1 .. k /\ n \in t.from .. t.until /\ Enters(t, e[n])
  BY SoundLevelsOfTerms DEF EntersFirst
<1>2. e[n] # NoBar
  BY <1>1 DEF Enters
<1>3. SoundBar(e[n])
  BY <1>1, <1>2, KnownBars
<1> QED BY <1>1, <1>3, EntryFillBounds

\* What a verdict may say of its exit.
GoodExit(t, e, v) ==
  LET bar == e[v.out]
      later == v.out > v.in
  IN  v.got <= IF v.why = "TIME" THEN bar.close
               ELSE IF later /\ bar.open <= t.stop THEN bar.open
               ELSE IF bar.low <= t.stop THEN t.stop
               ELSE IF bar.open >= t.target THEN bar.open
               ELSE t.target

LEMMA ByExitFacts ==
  ASSUME NEW t, SoundTerms(t), NEW e, NEW k \in Nat, Evidence(e, k),
         NEW n \in Nat \ {0}, NEW s, LeavesAt(t, e, k, n, s)
  PROVE  /\ s \in n .. k /\ s \in n .. n + t.hold - 1
         /\ ExitFill(t, e[s], s = n) \in Nat /\ ExitReason(t, e[s]) \in {"STOP", "TARGET"}
         /\ GoodExit(t, e, ByExit(t, e, n, s))
<1>1. s \in n .. k /\ s \in 1 .. k /\ s \in n .. Horizon(t, n) /\ Exits(t, e[s], s = n)
  BY DEF LeavesAt, ExitsFirst
<1>2. e[s] # NoBar
  BY <1>1 DEF Exits
<1>3. SoundBar(e[s])
  BY <1>1, <1>2, KnownBars
<1>4. ExitReason(t, e[s]) \in {"STOP", "TARGET"}
  BY DEF ExitReason
<1>5. PICK bar : bar = e[s]
  OBVIOUS
<1>6. PICK entry \in BOOLEAN : entry <=> s = n
  OBVIOUS
<1>7. ExitFill(t, e[s], s = n) = ExitFill(t, bar, entry) /\ Exits(t, bar, entry)
  BY <1>1, <1>5, <1>6
<1>8. /\ ExitFill(t, bar, entry) \in Nat
      /\ ExitFill(t, bar, entry) <=
              IF ~entry /\ bar.open <= t.stop THEN bar.open
              ELSE IF bar.low <= t.stop THEN t.stop
              ELSE IF bar.open >= t.target THEN bar.open
              ELSE t.target
  BY <1>3, <1>5, <1>7, ExitFillBounds
<1>9. GoodExit(t, e, ByExit(t, e, n, s))
  <2>1. ~entry <=> s > n
    BY <1>1, <1>6
  <2>2. ExitReason(t, e[s]) # "TIME"
    BY <1>4
  <2> QED BY <1>5, <1>7, <1>8, <2>1, <2>2 DEF GoodExit, ByExit, ClosedAs
<1>10. Horizon(t, n) = n + t.hold - 1
  BY HorizonIsNat
<1> QED BY <1>1, <1>4, <1>7, <1>8, <1>9, <1>10

LEMMA ByTimeFacts ==
  ASSUME NEW t, SoundTerms(t), NEW e, NEW k \in Nat, Evidence(e, k),
         NEW n \in Nat \ {0}, k >= Horizon(t, n), Priced(t, e, n)
  PROVE  /\ Horizon(t, n) \in n .. k /\ Horizon(t, n) = n + t.hold - 1
         /\ AdverseSell(e[Horizon(t, n)].close) \in Nat
         /\ GoodExit(t, e, ByTime(t, e, n))
<1>1. /\ Horizon(t, n) \in n .. k /\ Horizon(t, n) \in 1 .. k
      /\ Horizon(t, n) = n + t.hold - 1
  BY HorizonIsNat
<1>2. PICK h : h = Horizon(t, n)
  OBVIOUS
<1>3. SoundBar(e[h])
  BY <1>1, <1>2, KnownBars DEF Priced
<1>4. AdverseSell(e[h].close) \in Nat /\ AdverseSell(e[h].close) <= e[h].close
  BY <1>3, Adverse, SoundPrices
<1> QED BY <1>1, <1>2, <1>4 DEF GoodExit, ByTime, ClosedAs

\* A verdict with an entry that was decided by session k.
EnteredBy(t, e, k, v) ==
  /\ v.in \in t.from .. t.until /\ v.in <= k
  /\ v.paid \in t.low .. t.high /\ v.paid >= Least(e[v.in].open, t.high)
  /\ v.status = "CLOSED" =>
       v.out \in v.in .. k /\ v.out <= v.in + t.hold - 1 /\ GoodExit(t, e, v)

LEMMA IsVerdict ==
  ASSUME NEW status \in {"WAITING", "EXPIRED", "OPEN", "BLOCKED", "CLOSED"},
         NEW n \in Nat, NEW paid \in Nat, NEW s \in Nat, NEW got \in Nat,
         NEW why \in {"", "STOP", "TARGET", "TIME"}
  PROVE  [status |-> status, in |-> n, paid |-> paid, out |-> s, got |-> got, why |-> why] \in Verdict
BY DEF Verdict

LEMMA ReplayFacts ==
  ASSUME NEW t, SoundTerms(t), NEW e, NEW k \in Nat, Evidence(e, k)
  PROVE  /\ Replay(t, e, k) \in Verdict
         /\ Replay(t, e, k).in # 0 => EnteredBy(t, e, k, Replay(t, e, k))
         /\ Replay(t, e, k).in = 0 => Replay(t, e, k).status \in {"WAITING", "EXPIRED"}
<1>0. PICK v : v = Replay(t, e, k)
  OBVIOUS
<1> DEFINE Good == /\ v \in Verdict
                   /\ v.in # 0 => EnteredBy(t, e, k, v)
                   /\ v.in = 0 => v.status \in {"WAITING", "EXPIRED"}
<1>1. ASSUME v = Unfilled(IF k >= t.until THEN "EXPIRED" ELSE "WAITING") PROVE Good
  <2>1. PICK status \in {"WAITING", "EXPIRED"} : v = Unfilled(status)
    BY <1>1
  <2>2. v = [status |-> status, in |-> 0, paid |-> 0, out |-> 0, got |-> 0, why |-> ""]
    BY <2>1 DEF Unfilled, Held
  <2>3. v \in Verdict
    BY <2>2, IsVerdict
  <2>4. v.in = 0 /\ v.status = status
    BY <2>2
  <2>5. v.in = 0 /\ v.status \in {"WAITING", "EXPIRED"}
    BY <2>4
  <2> QED BY <2>3, <2>5
<1>2. ASSUME NEW n \in t.from .. k, EntersFirst(t, e, n), NEW status \in {"OPEN", "BLOCKED"},
             v = Held(status, n, EntryFill(t, e[n]))
      PROVE  Good
  <2>1. PICK paid \in Nat :
        /\ paid = EntryFill(t, e[n]) /\ n \in Nat \ {0} /\ n \in t.from .. t.until
        /\ paid \in t.low .. t.high /\ paid >= Least(e[n].open, t.high)
    BY <1>2, EntryFacts
  <2>2. v = [status |-> status, in |-> n, paid |-> paid, out |-> 0, got |-> 0, why |-> ""]
    BY <1>2, <2>1 DEF Held
  <2>3. v \in Verdict
    BY <2>1, <2>2, IsVerdict
  <2>4. v.in = n /\ v.paid = paid /\ v.status = status
    BY <2>2
  <2> QED BY <2>1, <2>3, <2>4 DEF EnteredBy
<1>3. ASSUME NEW n \in t.from .. k, EntersFirst(t, e, n), NEW s, LeavesAt(t, e, k, n, s),
             v = ByExit(t, e, n, s)
      PROVE  Good
  <2>1. PICK paid \in Nat :
        /\ paid = EntryFill(t, e[n]) /\ n \in Nat \ {0} /\ n \in t.from .. t.until
        /\ paid \in t.low .. t.high /\ paid >= Least(e[n].open, t.high)
    BY <1>3, EntryFacts
  <2>2. PICK got \in Nat, why \in {"STOP", "TARGET"} :
        /\ s \in n .. k /\ s \in n .. n + t.hold - 1
        /\ got = ExitFill(t, e[s], s = n) /\ why = ExitReason(t, e[s])
        /\ GoodExit(t, e, v)
    BY <1>3, <2>1, ByExitFacts
  <2>3. v = [status |-> "CLOSED", in |-> n, paid |-> paid, out |-> s, got |-> got, why |-> why]
    BY <1>3, <2>1, <2>2 DEF ByExit, ClosedAs
  <2>4. v \in Verdict
    <3>1. s \in Nat /\ n \in Nat /\ paid \in Nat /\ got \in Nat
      BY <2>1, <2>2
    <3> QED BY <2>2, <2>3, <3>1, IsVerdict
  <2>5. v.in = n /\ v.out = s /\ v.paid = paid
    BY <2>3
  <2> QED BY <2>1, <2>2, <2>4, <2>5, SoundLevelsOfTerms DEF EnteredBy
<1>4. ASSUME NEW n \in t.from .. k, EntersFirst(t, e, n), k >= Horizon(t, n), Priced(t, e, n),
             v = ByTime(t, e, n)
      PROVE  Good
  <2>1. PICK paid \in Nat :
        /\ paid = EntryFill(t, e[n]) /\ n \in Nat \ {0} /\ n \in t.from .. t.until
        /\ paid \in t.low .. t.high /\ paid >= Least(e[n].open, t.high)
    BY <1>4, EntryFacts
  <2>2. PICK got \in Nat, s \in n .. k :
        /\ s = Horizon(t, n) /\ s = n + t.hold - 1
        /\ got = AdverseSell(e[s].close) /\ GoodExit(t, e, v)
    BY <1>4, <2>1, ByTimeFacts
  <2>3. v = [status |-> "CLOSED", in |-> n, paid |-> paid, out |-> s, got |-> got, why |-> "TIME"]
    BY <1>4, <2>1, <2>2 DEF ByTime, ClosedAs
  <2>4. v \in Verdict
    <3>1. s \in Nat /\ n \in Nat /\ paid \in Nat /\ got \in Nat
      BY <2>1, <2>2
    <3> QED BY <2>2, <2>3, <3>1, IsVerdict
  <2>5. v.in = n /\ v.out = s /\ v.paid = paid
    BY <2>3
  <2> QED BY <2>1, <2>2, <2>4, <2>5, SoundLevelsOfTerms DEF EnteredBy
<1> HIDE DEF Good
<1>5. \/ v = Unfilled(IF k >= t.until THEN "EXPIRED" ELSE "WAITING")
      \/ \E n \in t.from .. k :
              /\ EntersFirst(t, e, n)
              /\ \/ v = Held("BLOCKED", n, EntryFill(t, e[n]))
                 \/ v = Held("OPEN", n, EntryFill(t, e[n]))
                 \/ \E s \in n .. k : LeavesAt(t, e, k, n, s) /\ v = ByExit(t, e, n, s)
                 \/ k >= Horizon(t, n) /\ Priced(t, e, n) /\ v = ByTime(t, e, n)
  BY <1>0, ReplayCases
<1>6. Good
  <2>1. CASE v = Unfilled(IF k >= t.until THEN "EXPIRED" ELSE "WAITING")
    BY <1>1, <2>1
  <2>2. ASSUME NEW n \in t.from .. k, EntersFirst(t, e, n),
               \/ v = Held("BLOCKED", n, EntryFill(t, e[n]))
               \/ v = Held("OPEN", n, EntryFill(t, e[n]))
        PROVE  Good
    <3>1. PICK status \in {"OPEN", "BLOCKED"} : v = Held(status, n, EntryFill(t, e[n]))
      BY <2>2
    <3> QED BY <1>2, <2>2, <3>1
  <2> QED BY <1>3, <1>4, <1>5, <2>1, <2>2
<1> QED BY <1>0, <1>6 DEF Good

\* A replay up to session k looks at no later session.
LEMMA ReplayLooksBack ==
  ASSUME NEW t, SoundTerms(t), NEW e, NEW f, NEW k \in Nat, \A s \in 1 .. k : e[s] = f[s]
  PROVE  Replay(t, e, k) = Replay(t, f, k)
<1>1. t.from \in Nat \ {0} /\ t.until \in Nat /\ t.hold \in Nat \ {0}
  BY SoundLevelsOfTerms
<1>2. ASSUME NEW n \in t.from .. k PROVE EntersFirst(t, e, n) <=> EntersFirst(t, f, n)
  <2>1. n \in 1 .. k /\ \A u \in t.from .. n - 1 : u \in 1 .. k
    BY <1>1
  <2>2. e[n] = f[n] /\ \A u \in t.from .. n - 1 : e[u] = f[u]
    BY <2>1
  <2> QED BY <2>2 DEF EntersFirst
<1>3. CASE \A n \in t.from .. k : ~EntersFirst(t, e, n)
  BY <1>2, <1>3, ReplayOfNone
<1>4. ASSUME NEW n \in t.from .. k, EntersFirst(t, e, n)
      PROVE  Replay(t, e, k) = Replay(t, f, k)
  <2>1. EntersFirst(t, f, n) /\ n \in Nat \ {0} /\ e[n] = f[n]
    BY <1>1, <1>2, <1>4
  <2>2. Replay(t, e, k) = AfterEntry(t, e, k, n) /\ Replay(t, f, k) = AfterEntry(t, f, k, n)
    BY <1>4, <2>1, ReplayOfEntry
  <2>3. ASSUME NEW s \in n .. k PROVE e[s] = f[s] /\ (ExitsFirst(t, e, n, s) <=> ExitsFirst(t, f, n, s))
    <3>1. e[s] = f[s] /\ \A u \in n .. s - 1 : e[u] = f[u]
      BY <2>1
    <3> QED BY <3>1 DEF ExitsFirst
  <2>4. CASE Beyond(t, n)
    BY <2>1, <2>2, <2>4, AfterEntryBeyond DEF Beyond
  <2>5. ASSUME ~Beyond(t, n), NEW s \in n .. k, ExitsFirst(t, e, n, s)
        PROVE  Replay(t, e, k) = Replay(t, f, k)
    <3>1. e[s] = f[s] /\ ExitsFirst(t, f, n, s) /\ Horizon(t, n) <= CalendarEnd
      BY <2>1, <2>3, <2>5, HorizonIsNat
    <3> QED BY <2>1, <2>2, <2>5, <3>1, AfterEntryExits
  <2>6. CASE ~Beyond(t, n) /\ \A s \in n .. k : ~ExitsFirst(t, e, n, s)
    <3>1. /\ \A s \in n .. k : ~ExitsFirst(t, f, n, s)
          /\ Horizon(t, n) <= CalendarEnd /\ Horizon(t, n) \in Nat /\ n <= Horizon(t, n)
      BY <2>1, <2>3, <2>6, HorizonIsNat
    <3>2. CASE k < Horizon(t, n)
      BY <2>1, <2>2, <2>6, <3>1, <3>2, AfterEntryStays
    <3>3. CASE k >= Horizon(t, n)
      <4>1. e[Horizon(t, n)] = f[Horizon(t, n)]
        BY <2>1, <3>1, <3>3
      <4>2. EntryFill(t, e[n]) = EntryFill(t, f[n])
        BY <2>1
      <4>3. CASE Priced(t, e, n)
        <5>1. Priced(t, f, n)
          BY <4>1, <4>3 DEF Priced
        <5>2. /\ Replay(t, e, k) = ByTime(t, e, n)
              /\ Replay(t, f, k) = ByTime(t, f, n)
          BY <2>1, <2>2, <2>6, <3>1, <3>3, <4>3, <5>1, AfterEntryStays
             DEF Priced, ByTime, ClosedAs
        <5> QED BY <4>1, <4>2, <5>2 DEF ByTime, ClosedAs
      <4>4. CASE ~Priced(t, e, n)
        <5>1. ~Priced(t, f, n)
          BY <4>1, <4>4 DEF Priced
        <5>2. /\ Replay(t, e, k) = Held("BLOCKED", n, EntryFill(t, e[n]))
              /\ Replay(t, f, k) = Held("BLOCKED", n, EntryFill(t, f[n]))
          BY <2>1, <2>2, <2>6, <3>1, <3>3, <4>4, <5>1, AfterEntryStays DEF Priced
        <5> QED BY <4>2, <5>2
      <4> QED BY <4>3, <4>4
    <3> QED BY <3>1, <3>2, <3>3
  <2> QED BY <2>4, <2>5, <2>6
<1> QED BY <1>3, <1>4

\* Evidence of later sessions leaves a verdict as it is.
LEMMA ReplayStands ==
  ASSUME NEW t, SoundTerms(t), NEW e, NEW k \in Nat, NEW d \in Nat, k <= d
  PROVE  Agrees(Replay(t, e, k), Replay(t, e, d))
<1>1. t.from \in Nat \ {0} /\ t.until \in Nat /\ t.hold \in Nat \ {0}
  BY SoundLevelsOfTerms
<1>2. CASE \A n \in t.from .. k : ~EntersFirst(t, e, n)
  <2>1. CASE k >= t.until
    <3>1. \A n \in t.from .. d : ~EntersFirst(t, e, n)
      BY <1>1, <1>2, <2>1 DEF EntersFirst
    <3>2. Replay(t, e, k) = Unfilled("EXPIRED") /\ Replay(t, e, d) = Unfilled("EXPIRED")
      BY <1>1, <1>2, <2>1, <3>1, ReplayOfNone
    <3>3. Unfilled("EXPIRED").status \in Final
      BY DEF Unfilled, Held, Final
    <3> QED BY <3>2, <3>3 DEF Agrees
  <2>2. CASE ~(k >= t.until)
    <3>1. Replay(t, e, k) = Unfilled("WAITING")
      BY <1>2, <2>2, ReplayOfNone
    <3>2. Unfilled("WAITING").status = "WAITING"
      BY DEF Unfilled, Held
    <3> QED BY <3>1, <3>2 DEF Agrees, Final
  <2> QED BY <2>1, <2>2
<1>3. ASSUME NEW n \in t.from .. k, EntersFirst(t, e, n)
      PROVE  Agrees(Replay(t, e, k), Replay(t, e, d))
  <2>1. n \in t.from .. d /\ n \in Nat \ {0}
    BY <1>1
  <2>2. Replay(t, e, k) = AfterEntry(t, e, k, n) /\ Replay(t, e, d) = AfterEntry(t, e, d, n)
    BY <1>3, <2>1, ReplayOfEntry
  <2>3. ASSUME Replay(t, e, k) = Replay(t, e, d), Replay(t, e, k).status \in Final
        PROVE  Agrees(Replay(t, e, k), Replay(t, e, d))
    BY <2>3 DEF Agrees
  <2>4. \A paid : Held("BLOCKED", n, paid).status \in Final
    BY DEF Held, Final
  <2>5. CASE Beyond(t, n)
    BY <2>2, <2>3, <2>4, <2>5, AfterEntryBeyond DEF Beyond
  <2>6. ASSUME ~Beyond(t, n), NEW s \in n .. k, ExitsFirst(t, e, n, s)
        PROVE  Agrees(Replay(t, e, k), Replay(t, e, d))
    <3>1. Horizon(t, n) <= CalendarEnd /\ s \in n .. d
      BY <2>1, <2>6, HorizonIsNat
    <3>2. Replay(t, e, k) = ByExit(t, e, n, s) /\ Replay(t, e, d) = ByExit(t, e, n, s)
      BY <2>1, <2>2, <2>6, <3>1, AfterEntryExits DEF ByExit, ClosedAs
    <3>3. ByExit(t, e, n, s).status = "CLOSED"
      BY DEF ByExit, ClosedAs
    <3> QED BY <2>3, <3>2, <3>3 DEF Final
  <2>7. ASSUME ~Beyond(t, n), \A s \in n .. k : ~ExitsFirst(t, e, n, s)
        PROVE  Agrees(Replay(t, e, k), Replay(t, e, d))
    <3>1. Horizon(t, n) <= CalendarEnd /\ Horizon(t, n) \in Nat /\ n <= Horizon(t, n)
      BY <2>1, <2>7, HorizonIsNat
    <3>2. CASE k < Horizon(t, n)
      <4>1. PICK v : v = Replay(t, e, k)
        OBVIOUS
      <4>2. PICK w : w = Replay(t, e, d)
        OBVIOUS
      <4>3. PICK paid : paid = EntryFill(t, e[n])
        OBVIOUS
      <4>4. v = Held("OPEN", n, paid)
        BY <2>1, <2>2, <2>7, <3>1, <3>2, <4>1, <4>3, AfterEntryStays
      <4>5. v.status = "OPEN" /\ v.in = n /\ v.paid = paid
        BY <4>4 DEF Held
      <4>6. PICK m \in t.from .. d :
               /\ EntersFirst(t, e, m)
               /\ \/ \E status : w = Held(status, m, EntryFill(t, e[m]))
                  \/ \E s, got, why : w = ClosedAs(t, e, m, s, got, why)
        <5>1. ~(\A m \in t.from .. d : ~EntersFirst(t, e, m))
          BY <1>3, <2>1
        <5> QED BY <4>2, <5>1, ReplayCases DEF ByExit, ByTime
      <4>7. m = n
        BY <1>3, <4>6, OneEntry
      <4>8. w.in = n /\ w.paid = paid
        <5>1. CASE \E status : w = Held(status, m, EntryFill(t, e[m]))
          <6>1. PICK status : w = Held(status, n, paid)
            BY <4>3, <4>7, <5>1
          <6> QED BY <6>1 DEF Held
        <5>2. CASE \E s, got, why : w = ClosedAs(t, e, m, s, got, why)
          <6>1. PICK s, got, why :
                 w = [status |-> "CLOSED", in |-> n, paid |-> paid, out |-> s, got |-> got, why |-> why]
            BY <4>3, <4>7, <5>2 DEF ClosedAs
          <6> QED BY <6>1
        <5> QED BY <4>6, <5>1, <5>2
      <4>9. Agrees(v, w)
        BY <4>5, <4>8 DEF Agrees, Final
      <4> QED BY <4>1, <4>2, <4>9
    <3>3. CASE k >= Horizon(t, n)
      <4>1. \A s \in n .. d : ~ExitsFirst(t, e, n, s)
        BY <2>1, <2>7, <3>1, <3>3 DEF ExitsFirst
      <4>2. d >= Horizon(t, n)
        BY <3>1, <3>3
      <4>3. CASE Priced(t, e, n)
        <5>1. Replay(t, e, k) = ByTime(t, e, n) /\ Replay(t, e, d) = ByTime(t, e, n)
          BY <2>1, <2>2, <2>7, <3>1, <3>3, <4>1, <4>2, <4>3, AfterEntryStays
             DEF Priced, ByTime, ClosedAs
        <5>2. ByTime(t, e, n).status = "CLOSED"
          BY DEF ByTime, ClosedAs
        <5> QED BY <2>3, <5>1, <5>2 DEF Final
      <4>4. CASE ~Priced(t, e, n)
        <5>1. /\ Replay(t, e, k) = Held("BLOCKED", n, EntryFill(t, e[n]))
              /\ Replay(t, e, d) = Held("BLOCKED", n, EntryFill(t, e[n]))
          BY <2>1, <2>2, <2>7, <3>1, <3>3, <4>1, <4>2, <4>4, AfterEntryStays DEF Priced
        <5> QED BY <2>3, <2>4, <5>1
      <4> QED BY <4>3, <4>4
    <3> QED BY <3>1, <3>2, <3>3
  <2> QED BY <2>5, <2>6, <2>7
<1> QED BY <1>2, <1>3

-----------------------------------------------------------------------------
(* The inductive invariant.                                                *)

\* The states are of sessions that have closed, in their order.
StatesInv ==
  /\ \A i \in 1 .. Len(states) : i <= states[i].session /\ states[i].session <= day
  /\ \A i, j \in 1 .. Len(states) : i < j => states[i].session < states[j].session

\* The replay of a trade, on the evidence there is.
ReplayOf(t, k) == Replay(TermsOf[t], market[t], k)

\* A position was replayed by the session of its state, and what is closed
\* stays as it is in the ledger.
VerdictsInv ==
  /\ \A i \in 1 .. Len(states) : \A t \in Trades :
       LET v == states[i].positions[t]
       IN  v # None =>
             /\ t \in Alerts
             /\ \E k \in 1 .. states[i].session : v = ReplayOf(t, k)
             /\ v.status = "CLOSED" => ledger[t] = v
  /\ \A t \in Trades : ledger[t] # None =>
       \/ ledger[t] = Alerted
       \/ t \in Alerts /\ \E k \in 1 .. day : ledger[t] = ReplayOf(t, k)

Waits(t) == ledger[t] # None /\ ledger[t].status \in ActiveIn

Kept == {"OPEN", "CLOSED", "EXPIRED"}

\* While the jobs of a batch run, no other attempt moves the book: the batch
\* has every active position, and what it has judged is in the ledger.
JobsInv ==
  /\ Behind(run.session) /\ run.batch \subseteq Alerts /\ Carried \subseteq run.batch
  /\ \A t \in Trades : ledger[t] # None /\ ledger[t].status = "OPEN" => t \in run.batch
  /\ \A t \in run.batch : run.got[t] = None => Waits(t)
  /\ \A t \in Trades : run.got[t] # None =>
       /\ t \in run.batch /\ run.got[t] = ReplayOf(t, run.session)
       /\ IF run.got[t].status \in Kept THEN ledger[t] = run.got[t] ELSE Waits(t)

RunInv ==
  run # None =>
    /\ run.session <= day /\ events[run.session] # <<>>
    /\ run.stage = "list" => run.batch = {} /\ \A t \in Trades : run.got[t] = None
    /\ run.stage = "jobs" => JobsInv
    /\ run.stage = "roll" =>
         Len(rolls) < Len(states) /\ states[Len(states)].session = run.session

PinInv ==
  \A s \in Sessions : events[s] # <<>> => pinned[s] \in -1 .. Len(rolls)

\* The money of the first i states, and their highest.
Seen(i) == {0} \cup {states[j].cumulative : j \in 1 .. i}

ClosedMoney(state) ==
  SumFunction([t \in StatusIn(state.positions, "CLOSED") |-> Pnl(t, state.positions[t])])

MoneyInv ==
  \A i \in 1 .. Len(states) :
    /\ states[i].cumulative = ClosedMoney(states[i])
    /\ states[i].peak \in Seen(i) /\ \A c \in Seen(i) : c <= states[i].peak

\* A rollover is one of the state of its own number, and its peak the highest
\* value that was rolled over.
SeenNavs(i) == {Capital} \cup {Nav(states[j], market) : j \in 1 .. i}

RolledAs(roll, state, bars) ==
  /\ roll.snapshot = SnapshotOf(state, bars)
  /\ Safe(state, bars)
  /\ StatusIn(state.positions, "WAITING") = {} /\ StatusIn(state.positions, "BLOCKED") = {}
  /\ \A t \in Open(state) : bars[t][state.session] # NoBar

RollsInv ==
  /\ Len(rolls) <= Len(states)
  /\ \A i \in 1 .. Len(rolls) :
       /\ rolls[i].state = i /\ RolledAs(rolls[i], states[i], market)
       /\ rolls[i].peakNav \in SeenNavs(i)
       /\ \A n \in SeenNavs(i) : n \in Int /\ n <= rolls[i].peakNav

\* The session whose close a snapshot is of.
SnapDay(on) == IF on = 0 THEN 0 ELSE states[on].session

\* What is left of an account is what its orders have left.
LeftBy(p, orders, a) ==
  /\ a.cash = p.cash - TotalPrice(orders) /\ a.gross = p.gross + TotalNotional(orders)
  /\ a.risk = p.risk + TotalRisk(orders) /\ a.open = p.open + Cardinality(DOMAIN orders)

\* A batch has allocated what its own orders take, and nothing else.
SizingInv ==
  /\ \A i \in 1 .. Len(sizing) :
       /\ sizing[i].on \in 0 .. Len(rolls)
       /\ LeftBy(SnapshotAt(sizing[i].on), OrdersBy(i), sizing[i].state)
  /\ \A b \in Buys : sized[b] # None => sized[b].by \in 1 .. Len(sizing)

\* The last state is the book as of its own session.
BookInv ==
  states # <<>> /\ states[Len(states)].session = day =>
    \A t \in Trades :
      LET v == states[Len(states)].positions[t]
      IN  /\ v # None /\ v.status = "OPEN" => ledger[t] = v /\ v = ReplayOf(t, day)
          /\ ledger[t] # None /\ ledger[t].status = "OPEN" =>
               v # None /\ v.status \in {"OPEN", "WAITING", "BLOCKED"}

DailyInv ==
  /\ DailyTypeOK /\ StatesInv /\ VerdictsInv /\ RunInv /\ PinInv
  /\ MoneyInv /\ RollsInv /\ SizingInv /\ BookInv /\ SizedWithinLimits

-----------------------------------------------------------------------------
(* Facts of the constants.                                                 *)

LEMMA BookFacts ==
  /\ IsFiniteSet(Trades) /\ Alerts \cap Buys = {} /\ Trades = Alerts \cup Buys
  /\ Days \in Nat /\ Sessions = 1 .. Days /\ Capital \in Nat \ {0} /\ MaxFaults \in Nat
  /\ \A t \in Trades : SoundTerms(TermsOf[t])
  /\ \A t \in Alerts : t \in Trades /\ TermsOf[t].decided < TermsOf[t].from
  /\ \A t \in Buys : t \in Trades /\ t \notin Alerts /\ TermsOf[t].decided = TermsOf[t].from
  /\ Offers \subseteq [liquidity : Nat, depth : Nat]
BY BookAssumption DEF Trades, Sessions

LEMMA Absent ==
  /\ \A v \in Verdict : v # None
  /\ \A v \in Terminal : v # None
  /\ \A v \in Attempt : v # None
  /\ \A v \in Order : v # None
  /\ \A v \in -1 .. Days : v # None
BY AbsenceAssumption

LEMMA AlertedFacts ==
  Alerted \in Verdict /\ Alerted # None /\ Alerted.status = "WAITING" /\ Alerted.in = 0
<1>1. Alerted = [status |-> "WAITING", in |-> 0, paid |-> 0, out |-> 0, got |-> 0, why |-> ""]
  BY DEF Alerted, Unfilled, Held
<1>2. Alerted \in Verdict
  BY <1>1, IsVerdict
<1> QED BY <1>1, <1>2, Absent

\* The fields of a verdict.
LEMMA VerdictFields ==
  ASSUME NEW v \in Verdict
  PROVE  /\ v.status \in {"WAITING", "EXPIRED", "OPEN", "BLOCKED", "CLOSED"}
         /\ v.in \in Nat /\ v.paid \in Nat /\ v.out \in Nat /\ v.got \in Nat
BY DEF Verdict

LEMMA MarketIsEvidence ==
  ASSUME DailyTypeOK, NEW t \in Trades, NEW k \in 0 .. Days
  PROVE  Evidence(market[t], k) /\ k \in Nat /\ SoundTerms(TermsOf[t])
BY BookFacts DEF DailyTypeOK, Evidence

LEMMA ReplayOfFacts ==
  ASSUME DailyTypeOK, NEW t \in Trades, NEW k \in 0 .. Days
  PROVE  /\ ReplayOf(t, k) \in Verdict /\ ReplayOf(t, k) # None
         /\ ReplayOf(t, k).in # 0 => EnteredBy(TermsOf[t], market[t], k, ReplayOf(t, k))
         /\ ReplayOf(t, k).in = 0 => ReplayOf(t, k).status \in {"WAITING", "EXPIRED"}
BY MarketIsEvidence, ReplayFacts, Absent DEF ReplayOf

LEMMA PnlType ==
  ASSUME NEW t \in Trades, NEW v \in Verdict
  PROVE  Pnl(t, v) \in Int
<1>1. PICK got \in Nat, paid \in Nat, q \in Nat, c \in Nat :
        /\ got = v.got /\ paid = v.paid
        /\ q = TermsOf[t].quantity /\ c = TermsOf[t].cost
  BY VerdictFields, BookFacts, SoundLevelsOfTerms
<1>2. Pnl(t, v) = (got - paid) * q - c
  BY <1>1 DEF Pnl
<1> QED BY <1>2

LEMMA SpentType ==
  ASSUME NEW t \in Trades, NEW v \in Verdict
  PROVE  Spent(t, v) \in Nat
<1>1. PICK paid \in Nat, q \in Nat, c \in Nat :
        paid = v.paid /\ q = TermsOf[t].quantity /\ c = TermsOf[t].cost
  BY VerdictFields, BookFacts, SoundLevelsOfTerms
<1>2. Spent(t, v) = paid * q + c
  BY <1>1 DEF Spent
<1> QED BY <1>2

LEMMA PlannedType ==
  ASSUME NEW t \in Trades
  PROVE  Planned(t) \in Nat
<1>1. PICK high \in Nat, stop \in Nat, q \in Nat :
        /\ high = TermsOf[t].high /\ stop = TermsOf[t].stop /\ q = TermsOf[t].quantity
        /\ stop <= high
  BY BookFacts, SoundLevelsOfTerms
<1>2. PICK d \in Nat : d = high - stop
  BY <1>1
<1>3. Planned(t) = d * q
  BY <1>1, <1>2 DEF Planned
<1> QED BY <1>3

LEMMA MarkedType ==
  ASSUME NEW t \in Trades, NEW bar, SoundBar(bar)
  PROVE  Marked(t, bar) \in Nat
<1>1. PICK close \in Nat, q \in Nat : close = bar.close /\ q = TermsOf[t].quantity
  BY BookFacts, SoundLevelsOfTerms, SoundPrices
<1>2. Marked(t, bar) = close * q
  BY <1>1 DEF Marked
<1> QED BY <1>2

\* The trades of a status are finitely many trades with a verdict.
LEMMA StatusFacts ==
  ASSUME NEW positions \in [Trades -> Entry], NEW status
  PROVE  /\ StatusIn(positions, status) \subseteq Trades
         /\ IsFiniteSet(StatusIn(positions, status))
         /\ Cardinality(StatusIn(positions, status)) \in Nat
         /\ \A t \in StatusIn(positions, status) :
              positions[t] \in Verdict /\ positions[t] # None /\ positions[t].status = status
<1>1. StatusIn(positions, status) \subseteq Trades
  BY DEF StatusIn
<1>2. IsFiniteSet(StatusIn(positions, status))
  BY <1>1, BookFacts, FS_Subset
<1> QED BY <1>1, <1>2, FS_CardinalityType DEF StatusIn, Entry

LEMMA StateFields ==
  ASSUME NEW st \in State
  PROVE  /\ st.session \in Sessions /\ st.positions \in [Trades -> Entry]
         /\ st.daily \in Int /\ st.cumulative \in Int /\ st.peak \in Nat
BY DEF State

LEMMA StateAt ==
  ASSUME DailyTypeOK, NEW i \in 1 .. Len(states)
  PROVE  states[i] \in State /\ Len(states) \in Nat /\ DOMAIN states = 1 .. Len(states)
BY DEF DailyTypeOK

LEMMA LastState ==
  ASSUME DailyTypeOK, states # <<>>
  PROVE  Len(states) \in 1 .. Len(states) /\ Last(states) = states[Len(states)]
BY DEF DailyTypeOK, Last

LEMMA ClosedMoneyType ==
  ASSUME NEW positions \in [Trades -> Entry], NEW S \in SUBSET StatusIn(positions, "CLOSED")
  PROVE  /\ IsFiniteSet(S) /\ [t \in S |-> Pnl(t, positions[t])] \in [S -> Int]
         /\ SumFunction([t \in S |-> Pnl(t, positions[t])]) \in Int
<1>1. IsFiniteSet(S) /\ \A t \in S : t \in Trades /\ positions[t] \in Verdict
  BY StatusFacts, FS_Subset
<1>2. [t \in S |-> Pnl(t, positions[t])] \in [S -> Int]
  BY <1>1, PnlType
<1> QED BY <1>1, <1>2, TotalType

-----------------------------------------------------------------------------
(* Attempts.                                                               *)

LEMMA AttemptFields ==
  ASSUME NEW r \in Attempt
  PROVE  /\ r = [session |-> r.session, stage |-> r.stage, batch |-> r.batch, got |-> r.got,
                 output |-> r.output]
         /\ r.session \in Sessions /\ r.stage \in Stages /\ r.batch \subseteq Trades
         /\ r.got \in [Trades -> Entry] /\ r.output \in Terminal
BY DEF Attempt

LEMMA AtStage ==
  ASSUME NEW r \in Attempt, NEW stage \in Stages
  PROVE  LET x == [r EXCEPT !.stage = stage] IN
         /\ x \in Attempt /\ x.session = r.session /\ x.stage = stage
         /\ x.batch = r.batch /\ x.got = r.got /\ x.output = r.output
BY DEF Attempt

LEMMA WithOutput ==
  ASSUME NEW r \in Attempt, NEW stage \in Stages, NEW output \in Terminal
  PROVE  LET x == [r EXCEPT !.stage = stage, !.output = output] IN
         /\ x \in Attempt /\ x.session = r.session /\ x.stage = stage
         /\ x.batch = r.batch /\ x.got = r.got /\ x.output = output
BY DEF Attempt

LEMMA WithVerdict ==
  ASSUME NEW r \in Attempt, NEW t \in Trades, NEW v \in Verdict
  PROVE  LET x == [r EXCEPT !.got[t] = v] IN
         /\ x \in Attempt /\ x.session = r.session /\ x.stage = r.stage
         /\ x.batch = r.batch /\ x.output = r.output
         /\ x.got = [r.got EXCEPT ![t] = v]
BY DEF Attempt, Entry

LEMMA DoneType ==
  ASSUME Len(states) \in Nat, NEW n \in Nat
  PROVE  /\ Done \in Terminal /\ NothingDone \in Terminal
         /\ [Done EXCEPT !.rollover = n] \in Terminal
BY DEF Done, NothingDone, Terminal

-----------------------------------------------------------------------------
(* Steps that leave the book alone.                                        *)

LEMMA Lengths ==
  ASSUME DailyTypeOK, StatesInv, RollsInv
  PROVE  /\ Len(rolls) \in 0 .. Days /\ Len(states) \in 0 .. Days /\ Len(rolls) <= Len(states)
         /\ Len(rolls) \in -1 .. Days
<1>1. Len(rolls) \in Nat /\ Len(states) \in Nat
  BY DEF DailyTypeOK
<1>2. Len(states) # 0 => Len(states) <= states[Len(states)].session
  BY <1>1 DEF StatesInv
<1>3. Len(states) # 0 => states[Len(states)].session \in 1 .. Days
  BY <1>1, StateAt, StateFields, BookFacts
<1> QED BY <1>1, <1>2, <1>3, BookFacts DEF RollsInv

LEMMA EventAppended ==
  ASSUME DailyTypeOK, NEW s \in Sessions, NEW event \in Event, AppendEvent(s, event)
  PROVE  /\ events' \in [Sessions -> Seq(Event)] /\ events'[s] # <<>>
         /\ \A u \in Sessions : events[u] # <<>> => events'[u] # <<>>
         /\ \A u \in Sessions \ {s} : events'[u] = events[u]
<1>1. events[s] \in Seq(Event) /\ events' = [events EXCEPT ![s] = Append(events[s], event)]
  BY DEF DailyTypeOK, AppendEvent
<1>2. Append(events[s], event) \in Seq(Event) /\ Append(events[s], event) # <<>>
  BY <1>1, AppendProperties
<1> QED BY <1>1, <1>2 DEF DailyTypeOK

LEMMA RunFacts ==
  ASSUME DailyTypeOK, run # None
  PROVE  run \in Attempt
BY DEF DailyTypeOK

\* The types of what the workflow keeps for itself.
WorkflowTypes ==
  /\ pinned \in [Sessions -> (-1 .. Days) \cup {None}]
  /\ events \in [Sessions -> Seq(Event)]
  /\ terminal \in [Sessions -> Terminal \cup {None}]
  /\ run \in Attempt \cup {None}
  /\ faults \in 0 .. MaxFaults

LEMMA TypesKept ==
  ASSUME DailyTypeOK, UNCHANGED <<outside, chain>>, WorkflowTypes'
  PROVE  DailyTypeOK'
BY DEF DailyTypeOK, WorkflowTypes, outside, chain

LEMMA WorkflowTyped ==
  ASSUME DailyTypeOK
  PROVE  WorkflowTypes
BY DEF DailyTypeOK, WorkflowTypes

\* An attempt that is over, or past its jobs, asks for nothing.
LEMMA RunOver ==
  ASSUME DailyInv, run # None => run.session <= day,
         run' = None \/ (/\ run # None /\ run' \in Attempt /\ run'.session = run.session
                         /\ run'.stage \in {"seal", "end"}),
         UNCHANGED day, run # None => events[run.session] # <<>>,
         \A s \in Sessions : events[s] # <<>> => events'[s] # <<>>
  PROVE  RunInv'
<1>1. CASE run' = None
  BY <1>1 DEF RunInv
<1>2. CASE /\ run # None /\ run' \in Attempt /\ run'.session = run.session
           /\ run'.stage \in {"seal", "end"}
  <2>1. run'.session \in Sessions /\ run'.session <= day' /\ events'[run'.session] # <<>>
    BY <1>2, AttemptFields
  <2>2. run'.stage # "list" /\ run'.stage # "jobs" /\ run'.stage # "roll"
    BY <1>2
  <2> QED BY <2>1, <2>2 DEF RunInv
<1> QED BY <1>1, <1>2

\* What a step of the workflow that leaves the book alone has to keep.
WorkflowInv == WorkflowTypes /\ RunInv /\ PinInv

LEMMA StartStep ==
  ASSUME DailyInv, NEW s \in Sessions, Start(s)
  PROVE  UNCHANGED <<outside, chain>> /\ WorkflowInv'
<1>1. UNCHANGED <<outside, chain>> /\ UNCHANGED <<faults, terminal, day, rolls, states>>
  BY DEF Start, outside, chain
<1>2. DailyTypeOK /\ WorkflowTypes /\ Len(rolls) \in -1 .. Days /\ Len(rolls) \in Nat
  BY WorkflowTyped, Lengths DEF DailyInv
<1>3. /\ events' \in [Sessions -> Seq(Event)] /\ events'[s] # <<>>
      /\ \A u \in Sessions \ {s} : events'[u] = events[u]
  BY <1>2, EventAppended DEF Start, Event
<1>4. /\ run' = [session |-> s, stage |-> "list", batch |-> {},
                 got |-> [t \in Trades |-> None], output |-> NothingDone]
      /\ s <= day
  BY DEF Start
<1>5. NothingDone \in Terminal
  BY DEF NothingDone, Terminal
<1>6. run' \in Attempt /\ run' # None
  BY <1>4, <1>5, Absent DEF Attempt, Stages, Entry
<1>7. /\ run'.session = s /\ run'.stage = "list" /\ run'.batch = {}
      /\ \A t \in Trades : run'.got[t] = None
  BY <1>4
<1>8. RunInv'
  BY <1>1, <1>3, <1>4, <1>7 DEF RunInv
<1>9. /\ pinned' \in [Sessions -> (-1 .. Days) \cup {None}]
      /\ \A u \in Sessions \ {s} : pinned'[u] = pinned[u]
      /\ events[s] = <<>> => pinned'[s] \in {-1, Len(rolls)}
      /\ events[s] # <<>> => pinned'[s] = pinned[s]
  <2>1. pinned \in [Sessions -> (-1 .. Days) \cup {None}]
    BY <1>2 DEF WorkflowTypes
  <2>2. CASE events[s] = <<>>
    <3>1. PICK p \in {-1, Len(rolls)} : pinned' = [pinned EXCEPT ![s] = p]
      BY <2>2 DEF Start
    <3>2. p \in -1 .. Days
      BY <1>2, BookFacts
    <3> QED BY <2>1, <2>2, <3>1, <3>2
  <2>3. CASE events[s] # <<>>
    <3>1. pinned' = pinned
      BY <2>3 DEF Start
    <3> QED BY <2>1, <2>3, <3>1
  <2> QED BY <2>2, <2>3
<1>10. PinInv'
  <2>1. ASSUME NEW u \in Sessions, events'[u] # <<>> PROVE pinned'[u] \in -1 .. Len(rolls)
    <3>1. events[u] # <<>> => pinned[u] \in -1 .. Len(rolls)
      BY DEF DailyInv, PinInv
    <3> QED BY <1>2, <1>3, <1>9, <2>1, <3>1
  <2> QED BY <1>1, <2>1 DEF PinInv
<1>11. WorkflowTypes'
  BY <1>1, <1>2, <1>3, <1>6, <1>9 DEF WorkflowTypes
<1> QED BY <1>1, <1>8, <1>10, <1>11 DEF WorkflowInv

\* An attempt that ends with an event.
LEMMA EndsStep ==
  ASSUME DailyInv, run # None, NEW event \in Event, EndsWith(event), UNCHANGED chain,
         faults' \in 0 .. MaxFaults
  PROVE  UNCHANGED <<outside, chain>> /\ WorkflowInv'
<1>1. /\ UNCHANGED <<outside, chain>> /\ UNCHANGED <<pinned, terminal, day, rolls>>
      /\ run' = None /\ AppendEvent(run.session, event)
  BY DEF EndsWith, outside, chain
<1>2. run \in Attempt /\ DailyTypeOK /\ WorkflowTypes
  BY RunFacts, WorkflowTyped DEF DailyInv
<1>3. run.session \in Sessions /\ events[run.session] # <<>>
  BY <1>2, AttemptFields DEF DailyInv, RunInv
<1>4. /\ events' \in [Sessions -> Seq(Event)]
      /\ \A u \in Sessions \ {run.session} : events'[u] = events[u]
  BY <1>1, <1>2, <1>3, EventAppended
<1>5. RunInv'
  BY <1>1 DEF RunInv
<1>6. PinInv'
  BY <1>1, <1>3, <1>4 DEF DailyInv, PinInv
<1>7. WorkflowTypes'
  BY <1>1, <1>2, <1>4 DEF WorkflowTypes
<1> QED BY <1>1, <1>5, <1>6, <1>7 DEF WorkflowInv

\* An attempt that ends, or goes on to the end, without an event.
LEMMA QuietStep ==
  ASSUME DailyInv, run # None, UNCHANGED <<outside, chain, pinned, events>>,
         terminal' \in [Sessions -> Terminal \cup {None}], faults' \in 0 .. MaxFaults,
         run' = None \/ (/\ run' \in Attempt /\ run'.session = run.session
                         /\ run'.stage \in {"seal", "end"})
  PROVE  WorkflowInv'
<1>1. UNCHANGED <<pinned, events, day, rolls>> /\ WorkflowTypes
  BY WorkflowTyped DEF outside, chain, DailyInv
<1>2. run.session <= day /\ events[run.session] # <<>>
  BY DEF DailyInv, RunInv
<1>3. RunInv'
  BY <1>1, <1>2, RunOver
<1>4. PinInv'
  BY <1>1 DEF DailyInv, PinInv
<1>5. WorkflowTypes'
  BY <1>1 DEF WorkflowTypes
<1> QED BY <1>3, <1>4, <1>5 DEF WorkflowInv

\* A batch is prepared: it has every active trade, and none has been judged.
LEMMA PrepareStep ==
  ASSUME DailyInv, Prepare
  PROVE  UNCHANGED <<outside, chain>> /\ WorkflowInv'
<1>1. /\ UNCHANGED <<outside, chain>> /\ UNCHANGED <<faults, journal>>
      /\ UNCHANGED <<day, market, ledger, states, rolls, pinned, events, terminal>>
  BY DEF Prepare, outside, chain, journal
<1>2. run \in Attempt /\ run # None /\ run.stage = "list" /\ DailyTypeOK /\ WorkflowTypes
  BY RunFacts, WorkflowTyped DEF Prepare, At, DailyInv
<1>3. Active \in SUBSET Trades
  BY DEF Active
<1>4. PICK r : r = run'
  OBVIOUS
<1>5. /\ r \in Attempt /\ r.session = run.session /\ r.stage = "jobs"
      /\ r.batch = Active /\ r.got = run.got
  <2>1. run' = [run EXCEPT !.stage = "jobs", !.batch = Active] /\ "jobs" \in Stages
    BY DEF Prepare, Stages
  <2>2. PICK q \in Attempt, b \in SUBSET Trades, stage \in Stages :
          q = run /\ b = Active /\ stage = "jobs"
    BY <1>2, <1>3, <2>1
  <2>3. r = [q EXCEPT !.stage = stage, !.batch = b]
    BY <1>4, <2>1, <2>2
  <2>4. r \in Attempt /\ r.session = q.session /\ r.stage = stage /\ r.batch = b /\ r.got = q.got
    BY <2>3 DEF Attempt
  <2> QED BY <2>2, <2>4
<1>6. run.session <= day /\ events[run.session] # <<>> /\ \A t \in Trades : run.got[t] = None
  BY <1>2 DEF DailyInv, RunInv
<1>7. /\ Behind(run.session) /\ Carried \subseteq Active
      /\ \A t \in Active : Replayable(TermsOf[t], run.session)
  BY DEF Prepare, Preparable
<1>8. Active \subseteq Alerts
  <2>1. ASSUME NEW t \in Active, t \in Buys PROVE FALSE
    <3>1. TermsOf[t].decided < TermsOf[t].from /\ TermsOf[t].decided = TermsOf[t].from
      BY <1>7, <2>1, BookFacts DEF Replayable
    <3>2. TermsOf[t].decided \in Nat
      BY <1>3, BookFacts, SoundLevelsOfTerms
    <3> QED BY <3>1, <3>2
  <2> QED BY <1>3, <2>1, BookFacts
<1>9. \A t \in Trades : (ledger[t] # None /\ ledger[t].status = "OPEN" => t \in Active)
                        /\ (t \in Active => Waits(t))
  BY DEF Active, ActiveIn, Waits
<1>10. JobsInv'
  <2>1. /\ Behind(r.session)' /\ (r.batch \subseteq Alerts)' /\ (Carried \subseteq r.batch)'
    BY <1>1, <1>5, <1>7, <1>8 DEF Behind, Carried
  <2>2. \A t \in Trades : (ledger[t] # None /\ ledger[t].status = "OPEN" => t \in r.batch)'
    BY <1>1, <1>5, <1>9
  <2>3. \A t \in r.batch : (r.got[t] = None => Waits(t))'
    BY <1>1, <1>3, <1>5, <1>9 DEF Waits
  <2>4. \A t \in Trades : r.got[t] = None
    BY <1>5, <1>6
  <2> QED BY <1>4, <2>1, <2>2, <2>3, <2>4 DEF JobsInv
<1>11. RunInv'
  BY <1>1, <1>4, <1>5, <1>6, <1>10 DEF RunInv
<1>12. PinInv'
  BY <1>1 DEF DailyInv, PinInv
<1>13. WorkflowTypes'
  BY <1>1, <1>2, <1>4, <1>5 DEF WorkflowTypes
<1> QED BY <1>1, <1>11, <1>12, <1>13 DEF WorkflowInv

LEMMA RepairStep ==
  ASSUME DailyInv, NEW s \in Sessions, Repair(s)
  PROVE  UNCHANGED <<outside, chain>> /\ WorkflowInv'
<1>1. /\ UNCHANGED <<outside, chain>> /\ UNCHANGED <<faults, pinned, terminal, run>>
      /\ UNCHANGED <<day, market, ledger, states, rolls>>
  BY DEF Repair, outside, chain
<1>2. EndOf(terminal[s]) \in Event
  BY DEF EndOf, Event
<1>3. DailyTypeOK /\ WorkflowTypes
  BY WorkflowTyped DEF DailyInv
<1>4. /\ events' \in [Sessions -> Seq(Event)] /\ Underway(s)
      /\ \A u \in Sessions : events[u] # <<>> => events'[u] # <<>>
      /\ \A u \in Sessions \ {s} : events'[u] = events[u]
  BY <1>2, <1>3, EventAppended DEF Repair
<1>5. events[s] # <<>>
  <2>1. Len(events[s]) % 2 = 1
    BY <1>4 DEF Underway
  <2>2. PICK n \in Nat : n = Len(events[s])
    BY <1>3 DEF DailyTypeOK
  <2>3. events[s] = <<>> => n = 0
    BY <2>2
  <2>4. n % 2 = 1
    BY <2>1, <2>2
  <2>5. n # 0
    BY <2>4
  <2> QED BY <2>3, <2>5
<1>6. JobsInv => JobsInv'
  BY <1>1 DEF JobsInv, Behind, Carried, Waits, ReplayOf
<1>7. RunInv'
  <2>1. RunInv
    BY DEF DailyInv
  <2>2. run # None => run.session \in Sessions
    BY <1>3, RunFacts, AttemptFields
  <2> QED BY <1>1, <1>4, <1>6, <2>1, <2>2 DEF RunInv
<1>8. PinInv'
  BY <1>1, <1>4, <1>5 DEF DailyInv, PinInv
<1>9. WorkflowTypes'
  BY <1>1, <1>3, <1>4 DEF WorkflowTypes
<1> QED BY <1>1, <1>7, <1>8, <1>9 DEF WorkflowInv

\* Everything that leaves the book alone.
Idle ==
  \/ \E s \in Sessions : Start(s) \/ Repair(s)
  \/ NoActive \/ Reject \/ Prepare \/ Omit \/ RollNothing \/ Unrollable
  \/ Seal \/ End \/ Overtaken \/ Fail \/ Die

LEMMA IdleStep ==
  ASSUME DailyInv, Idle
  PROVE  UNCHANGED <<outside, chain>> /\ WorkflowInv'
<1>1. DailyTypeOK /\ WorkflowTypes /\ (run # None => run \in Attempt)
  BY RunFacts, WorkflowTyped DEF DailyInv
<1>2. faults \in 0 .. MaxFaults /\ terminal \in [Sessions -> Terminal \cup {None}]
  BY <1>1 DEF WorkflowTypes
<1>3. CASE NoActive
  <2>1. run # None /\ UNCHANGED <<outside, chain, pinned, events>> /\ UNCHANGED <<terminal, faults>>
    BY <1>3 DEF NoActive, At, journal
  <2>2. run' \in Attempt /\ run'.session = run.session /\ run'.stage = "seal"
    BY <1>1, <1>3, <2>1, AtStage DEF NoActive, Stages
  <2> QED BY <1>2, <2>1, <2>2, QuietStep
<1>4. CASE RollNothing
  <2>1. run # None /\ UNCHANGED <<outside, chain, pinned, events>> /\ UNCHANGED <<terminal, faults>>
    BY <1>4 DEF RollNothing, At, journal
  <2>2. Done \in Terminal
    <3>1. Len(states) \in Nat
      BY <1>1 DEF DailyTypeOK
    <3> QED BY <3>1, DoneType
  <2>3. run' \in Attempt /\ run'.session = run.session /\ run'.stage = "seal"
    BY <1>1, <1>4, <2>1, <2>2, WithOutput DEF RollNothing, Stages
  <2> QED BY <1>2, <2>1, <2>3, QuietStep
<1>5. CASE Seal
  <2>1. run # None /\ UNCHANGED <<outside, chain, pinned, events>> /\ UNCHANGED faults
    BY <1>5 DEF Seal, At
  <2>2. run' \in Attempt /\ run'.session = run.session /\ run'.stage = "end"
    BY <1>1, <1>5, <2>1, AtStage DEF Seal, Stages
  <2>3. terminal' \in [Sessions -> Terminal \cup {None}]
    BY <1>1, <1>2, <1>5, <2>1, AttemptFields DEF Seal
  <2> QED BY <1>2, <2>1, <2>2, <2>3, QuietStep
<1>6. CASE Overtaken \/ Die
  <2>1. run # None /\ UNCHANGED <<outside, chain, pinned, events>> /\ UNCHANGED terminal /\ run' = None
    BY <1>6 DEF Overtaken, Die, At, journal
  <2>2. faults' \in 0 .. MaxFaults
    BY <1>2, <1>6, BookFacts DEF Overtaken, Die
  <2> QED BY <1>2, <2>1, <2>2, QuietStep
<1>7. CASE Reject \/ Omit \/ Unrollable \/ End \/ Fail
  <2>1. run # None /\ UNCHANGED chain
    BY <1>7 DEF Reject, Omit, Unrollable, End, Fail, At
  <2>2. PICK event \in Event : EndsWith(event)
    BY <1>7 DEF Reject, Omit, Unrollable, End, Fail, Event, EndOf
  <2>3. faults' \in 0 .. MaxFaults
    BY <1>2, <1>7, BookFacts DEF Reject, Omit, Unrollable, End, Fail
  <2> QED BY <2>1, <2>2, <2>3, EndsStep
<1> QED BY <1>3, <1>4, <1>5, <1>6, <1>7, StartStep, RepairStep, PrepareStep DEF Idle

\* The book is what it was, and so is everything that is said of it.
LEMMA BookKept ==
  ASSUME DailyInv, UNCHANGED <<outside, chain>>
  PROVE  /\ StatesInv' /\ VerdictsInv' /\ MoneyInv' /\ RollsInv'
         /\ SizingInv' /\ BookInv' /\ SizedWithinLimits'
<1>1. UNCHANGED <<day, market, sizing, sized, ledger, states, rolls>>
  BY DEF outside, chain
<1>2. StatesInv'
  BY <1>1 DEF DailyInv, StatesInv
<1>3. VerdictsInv'
  BY <1>1 DEF DailyInv, VerdictsInv, ReplayOf
<1>4. MoneyInv'
  BY <1>1 DEF DailyInv, MoneyInv, Seen, ClosedMoney
<1>5. RollsInv'
  BY <1>1 DEF DailyInv, RollsInv, SeenNavs
<1>6. SizingInv'
  BY <1>1 DEF DailyInv, SizingInv, SnapshotAt, OrdersBy
<1>7. BookInv'
  BY <1>1 DEF DailyInv, BookInv, ReplayOf
<1>8. SizedWithinLimits'
  BY <1>1 DEF DailyInv, SizedWithinLimits, SnapshotAt, OrdersBy
<1> QED BY <1>2, <1>3, <1>4, <1>5, <1>6, <1>7, <1>8

-----------------------------------------------------------------------------
(* A trade is registered.                                                  *)

\* What both kinds of registration do.
Enlists(t) ==
  /\ ledger[t] = None /\ ledger' = [ledger EXCEPT ![t] = Alerted]
  /\ UNCHANGED <<day, market, sizing, sized, states, rolls, workflow>>

LEMMA EnlistSteps ==
  /\ \A t \in Alerts : Register(t) => t \in Trades /\ Enlists(t)
  /\ \A t \in Buys : Buy(t) => t \in Trades /\ Enlists(t)
BY BookFacts DEF Register, Buy, Enlists, outside

LEMMA EnlistLedger ==
  ASSUME DailyTypeOK, NEW t \in Trades, Enlists(t)
  PROVE  /\ ledger' \in [Trades -> Entry] /\ ledger'[t] = Alerted
         /\ \A u \in Trades : ledger[u] # None => ledger'[u] = ledger[u]
         /\ \A u \in Trades \ {t} : ledger'[u] = ledger[u]
         /\ UNCHANGED <<day, market, states, rolls>>
         /\ UNCHANGED <<pinned, events, terminal, run, faults>>
<1>1. ledger \in [Trades -> Entry] /\ Alerted \in Entry
  BY AlertedFacts DEF DailyTypeOK, Entry
<1>2. UNCHANGED <<day, market, states, rolls>> /\ UNCHANGED <<pinned, events, terminal, run, faults>>
  BY DEF Enlists, workflow, journal
<1> QED BY <1>1, <1>2 DEF Enlists

LEMMA EnlistKeeps ==
  ASSUME DailyInv, NEW t \in Trades, Enlists(t)
  PROVE  /\ WorkflowInv' /\ StatesInv' /\ VerdictsInv' /\ MoneyInv' /\ RollsInv' /\ BookInv'
<1>1. DailyTypeOK /\ WorkflowTypes
  BY WorkflowTyped DEF DailyInv
<1>2. /\ ledger'[t] = Alerted /\ ledger[t] = None
      /\ \A u \in Trades : ledger[u] # None => ledger'[u] = ledger[u]
      /\ \A u \in Trades \ {t} : ledger'[u] = ledger[u]
      /\ UNCHANGED <<day, market, states, rolls>>
      /\ UNCHANGED <<pinned, events, terminal, run, faults>>
  BY <1>1, EnlistLedger DEF Enlists
<1>3. Alerted # None /\ Alerted.status = "WAITING"
  BY AlertedFacts
<1>4. \A u \in Trades : Waits(u) => Waits(u)'
  BY <1>2 DEF Waits
<1>5. \A u \in Trades : \A k : ReplayOf(u, k)' = ReplayOf(u, k)
  BY <1>2 DEF ReplayOf
<1>6. VerdictsInv'
  <2>1. ASSUME NEW i \in 1 .. Len(states), NEW u \in Trades, states[i].positions[u] # None
        PROVE  /\ u \in Alerts
               /\ \E k \in 1 .. states[i].session : states[i].positions[u] = ReplayOf(u, k)
               /\ states[i].positions[u].status = "CLOSED" => ledger'[u] = states[i].positions[u]
    <3>1. /\ u \in Alerts
          /\ \E k \in 1 .. states[i].session : states[i].positions[u] = ReplayOf(u, k)
          /\ states[i].positions[u].status = "CLOSED" => ledger[u] = states[i].positions[u]
      BY <2>1 DEF DailyInv, VerdictsInv
    <3> QED BY <1>2, <2>1, <3>1
  <2>2. ASSUME NEW u \in Trades, ledger'[u] # None
        PROVE  \/ ledger'[u] = Alerted
               \/ u \in Alerts /\ \E k \in 1 .. day : ledger'[u] = ReplayOf(u, k)
    <3>1. ledger[u] # None => \/ ledger[u] = Alerted
                              \/ u \in Alerts /\ \E k \in 1 .. day : ledger[u] = ReplayOf(u, k)
      BY DEF DailyInv, VerdictsInv
    <3> QED BY <1>2, <2>2, <3>1
  <2> QED BY <1>2, <1>5, <2>1, <2>2 DEF VerdictsInv, ReplayOf
<1>7. JobsInv /\ run # None => JobsInv'
  <2> SUFFICES ASSUME JobsInv, run # None PROVE JobsInv'
    OBVIOUS
  <2>1. run.batch \subseteq Trades /\ run.got \in [Trades -> Entry]
    BY <1>1, RunFacts, AttemptFields
  <2>2. Behind(run.session)' /\ (run.batch \subseteq Alerts)' /\ (Carried \subseteq run.batch)'
    BY <1>2 DEF JobsInv, Behind, Carried
  <2>3. \A u \in Trades : ledger'[u] # None /\ ledger'[u].status = "OPEN" => u \in run.batch
    BY <1>2, <1>3 DEF JobsInv
  <2>4. \A u \in run.batch : run.got[u] = None => Waits(u)'
    BY <1>4, <2>1 DEF JobsInv
  <2>5. ASSUME NEW u \in Trades, run.got[u] # None
        PROVE  /\ u \in run.batch /\ run.got[u] = ReplayOf(u, run.session)
               /\ IF run.got[u].status \in Kept THEN ledger'[u] = run.got[u] ELSE Waits(u)'
    <3>1. /\ u \in run.batch /\ run.got[u] = ReplayOf(u, run.session)
          /\ IF run.got[u].status \in Kept THEN ledger[u] = run.got[u] ELSE Waits(u)
      BY <2>5 DEF JobsInv
    <3> QED BY <1>2, <1>4, <2>5, <3>1
  <2> QED BY <1>2, <2>2, <2>3, <2>4, <2>5 DEF JobsInv, ReplayOf
<1>8. RunInv'
  BY <1>2, <1>7 DEF DailyInv, RunInv
<1>9. PinInv'
  BY <1>2 DEF DailyInv, PinInv
<1>10. WorkflowTypes'
  BY <1>1, <1>2 DEF WorkflowTypes
<1>11. BookInv'
  <2>1. ASSUME states # <<>>, states[Len(states)].session = day, NEW u \in Trades,
               NEW v, v = states[Len(states)].positions[u]
        PROVE  /\ v # None /\ v.status = "OPEN" => ledger'[u] = v /\ v = ReplayOf(u, day)
               /\ ledger'[u] # None /\ ledger'[u].status = "OPEN" =>
                    v # None /\ v.status \in {"OPEN", "WAITING", "BLOCKED"}
    <3>1. /\ v # None /\ v.status = "OPEN" => ledger[u] = v /\ v = ReplayOf(u, day)
          /\ ledger[u] # None /\ ledger[u].status = "OPEN" =>
                    v # None /\ v.status \in {"OPEN", "WAITING", "BLOCKED"}
      BY <2>1 DEF DailyInv, BookInv
    <3> QED BY <1>2, <1>3, <3>1
  <2> QED BY <1>2, <2>1 DEF BookInv, ReplayOf
<1>12. StatesInv' /\ MoneyInv' /\ RollsInv'
  <2>1. StatesInv'
    BY <1>2 DEF DailyInv, StatesInv
  <2>2. MoneyInv'
    BY <1>2 DEF DailyInv, MoneyInv, Seen
  <2>3. RollsInv'
    BY <1>2 DEF DailyInv, RollsInv, SeenNavs
  <2> QED BY <2>1, <2>2, <2>3
<1> QED BY <1>6, <1>8, <1>9, <1>10, <1>11, <1>12 DEF WorkflowInv

\* A registration touches no batch and no order.
LEMMA RegisterStep ==
  ASSUME DailyInv, NEW t \in Trades, Enlists(t)
  PROVE  DailyInv'
<1>1. Enlists(t) /\ UNCHANGED <<sizing, sized>>
  BY DEF Enlists
<1>2. DailyTypeOK
  BY DEF DailyInv
<1>3. /\ WorkflowInv' /\ StatesInv' /\ VerdictsInv' /\ MoneyInv' /\ RollsInv' /\ BookInv'
  BY <1>1, EnlistKeeps
<1>4. /\ ledger' \in [Trades -> Entry]
      /\ \A u \in Trades : ledger[u] # None => ledger'[u] = ledger[u]
      /\ UNCHANGED <<day, market, states, rolls>>
  BY <1>1, <1>2, EnlistLedger
<1>5. SizingInv'
  BY <1>1, <1>4 DEF DailyInv, SizingInv, SnapshotAt, OrdersBy
<1>6. SizedWithinLimits'
  BY <1>1, <1>4 DEF DailyInv, SizedWithinLimits, SnapshotAt, OrdersBy
<1>7. DailyTypeOK'
  BY <1>1, <1>2, <1>3, <1>4 DEF DailyTypeOK, WorkflowInv, WorkflowTypes
<1> QED BY <1>3, <1>5, <1>6, <1>7 DEF DailyInv, WorkflowInv

-----------------------------------------------------------------------------
(* An order is sized.                                                      *)

LEMMA SnapshotFields ==
  ASSUME NEW p \in Snapshot
  PROVE  /\ p.capital \in Nat \ {0} /\ p.cash \in Nat /\ p.gross \in Nat /\ p.risk \in Nat
         /\ p.open \in Nat /\ p.daily \in Int /\ p.pilot \in Int
BY DEF Snapshot

LEMMA AllocationFields ==
  ASSUME NEW a \in Allocation
  PROVE  a.cash \in Nat /\ a.gross \in Nat /\ a.risk \in Nat /\ a.open \in Nat
BY DEF Allocation

LEMMA LevelFields ==
  ASSUME NEW l, SoundLevels(l)
  PROVE  /\ l.high \in Nat \ {0} /\ l.cost \in Nat /\ l.liquidity \in Nat /\ l.depth \in Nat
         /\ Loss(l) \in Nat \ {0} /\ Loss(l) = l.high - l.stop + l.cost /\ Reward(l) \in Int
BY DEF SoundLevels, Levels, Loss, Reward

LEMMA PolicyFacts ==
  /\ Bps = 10000 /\ TradeRiskBps \in Nat /\ TotalRiskBps \in Nat /\ PositionBps \in Nat
  /\ ExposureBps \in Nat /\ DailyLossBps \in Nat /\ DrawdownBps \in Nat
  /\ MaxOpen \in Nat
<1>1. \A x \in Fraction : x \in Nat
  BY DEF Fraction, Bps
<1>2. /\ TradeRiskBps \in Fraction /\ TotalRiskBps \in Fraction /\ PositionBps \in Fraction
      /\ ExposureBps \in Fraction /\ DailyLossBps \in Fraction /\ DrawdownBps \in Fraction
  BY SizingAssumption
<1>3. MaxOpen \in Nat
  BY SizingAssumption
<1> QED BY <1>1, <1>2, <1>3 DEF Bps

\* What fits a part of the capital: no more than it, and nothing where there
\* is no part left.
LEMMA Fits ==
  ASSUME NEW x \in Nat, NEW y \in Nat \ {0}, NEW q \in Nat, q <= x \div (10000 * y)
  PROVE  10000 * (q * y) <= x
<1>1. PICK z \in Nat \ {0} : z = 10000 * y
  OBVIOUS
<1>2. q * z <= x
  BY <1>1, Division
<1>3. q * z = 10000 * (q * y)
  BY <1>1
<1> QED BY <1>2, <1>3

LEMMA RemainingFits ==
  ASSUME NEW p \in Snapshot, NEW bps \in Nat, NEW used \in Nat, NEW y \in Nat \ {0},
         NEW q \in Nat \ {0}, q <= Remaining(p, bps, used) \div (Bps * y)
  PROVE  Bps * (used + q * y) <= p.capital * bps
<1>1. PICK x \in Nat : x = p.capital * bps
  BY SnapshotFields
<1>2. Bps = 10000
  BY PolicyFacts
<1>3. PICK m \in Nat : m = q * y /\ m > 0
  OBVIOUS
<1>4. CASE x > 10000 * used
  <2>1. PICK r \in Nat : r = x - 10000 * used
    BY <1>4
  <2>2. q <= r \div (10000 * y)
    BY <1>1, <1>2, <1>4, <2>1 DEF Remaining
  <2>3. 10000 * m <= r
    BY <1>3, <2>1, <2>2, Fits
  <2> QED BY <1>1, <1>2, <1>3, <2>1, <2>3
<1>5. CASE ~(x > 10000 * used)
  <2>1. q <= 0 \div (10000 * y)
    BY <1>1, <1>2, <1>5 DEF Remaining
  <2>2. 10000 * m <= 0
    BY <1>3, <2>1, Fits
  <2> QED BY <1>3, <2>2
<1> QED BY <1>4, <1>5

LEMMA CapsAreInt ==
  ASSUME NEW p \in Snapshot, NEW a \in Allocation, NEW l, SoundLevels(l)
  PROVE  \A c \in Caps(p, a, l) : c \in Nat
<1>1. PICK loss \in Nat \ {0}, high \in Nat \ {0}, both \in Nat \ {0} :
        /\ loss = 10000 * Loss(l) /\ high = 10000 * l.high /\ both = l.high + l.cost
  BY LevelFields
<1>2. \A x \in Nat, y \in Nat \ {0} : x \div y \in Nat
  BY Division
<1>3. \A bps \in Nat, used \in Nat : Remaining(p, bps, used) \in Nat
  <2>1. \A bps \in Nat : p.capital * bps \in Nat
    BY SnapshotFields
  <2> QED BY <2>1, PolicyFacts DEF Remaining
<1>4. p.capital * TradeRiskBps \in Nat /\ p.capital * PositionBps \in Nat
  BY SnapshotFields, PolicyFacts
<1>5. TradeRiskShares(p, l) \in Nat /\ PositionShares(p, l) \in Nat
  BY <1>1, <1>2, <1>4, PolicyFacts DEF TradeRiskShares, PositionShares
<1>6. OpenRiskShares(p, a, l) \in Nat /\ GrossShares(p, a, l) \in Nat
  <2>1. Bps * Loss(l) = loss /\ Bps * l.high = high
    BY <1>1, PolicyFacts
  <2>2. Remaining(p, TotalRiskBps, a.risk) \in Nat /\ Remaining(p, ExposureBps, a.gross) \in Nat
    <3>1. TotalRiskBps \in Nat /\ ExposureBps \in Nat /\ a.risk \in Nat /\ a.gross \in Nat
      BY PolicyFacts, AllocationFields
    <3> QED BY <1>3, <3>1
  <2> QED BY <1>1, <1>2, <2>1, <2>2 DEF OpenRiskShares, GrossShares
<1>7. CashShares(a, l) \in Nat /\ LiquidityShares(l) \in Nat /\ l.depth \in Nat
  BY <1>1, <1>2, AllocationFields, LevelFields DEF CashShares, LiquidityShares
<1> QED BY <1>5, <1>6, <1>7 DEF Caps

\* The quantity is the least of the caps.
LEMMA QuantityIsLeast ==
  ASSUME NEW p \in Snapshot, NEW a \in Allocation, NEW l, SoundLevels(l)
  PROVE  /\ Quantity(p, a, l) \in Caps(p, a, l)
         /\ \A c \in Caps(p, a, l) : Quantity(p, a, l) <= c
<1>1. \E q \in Caps(p, a, l) : \A c \in Caps(p, a, l) : q <= c
  <2>1. PICK c1, c2, c3, c4, c5, c6, c7 : Caps(p, a, l) = {c1, c2, c3, c4, c5, c6, c7}
    BY DEF Caps
  <2>2. /\ c1 \in Nat /\ c2 \in Nat /\ c3 \in Nat /\ c4 \in Nat /\ c5 \in Nat /\ c6 \in Nat
        /\ c7 \in Nat
    BY <2>1, CapsAreInt
  <2>3. PICK m \in {c1, c2, c3, c4, c5, c6, c7} :
          m <= c1 /\ m <= c2 /\ m <= c3 /\ m <= c4 /\ m <= c5 /\ m <= c6 /\ m <= c7
    BY <2>2
  <2> QED BY <2>1, <2>3
<1> QED BY <1>1 DEF Quantity

\* An order that is not vetoed keeps to every limit.
LEMMA Sized ==
  ASSUME NEW p \in Snapshot, NEW a \in Allocation, NEW most, NEW l, SoundLevels(l),
         ~Vetoed(p, a, l, most),
         NEW q, q = Quantity(p, a, l)
  PROVE  /\ q \in Nat \ {0}
         /\ Bps * (q * Loss(l)) <= p.capital * TradeRiskBps
         /\ Bps * (a.risk + q * Loss(l)) <= p.capital * TotalRiskBps
         /\ Bps * (q * l.high) <= p.capital * PositionBps
         /\ Bps * (a.gross + q * l.high) <= p.capital * ExposureBps
         /\ q * l.high + q * l.cost <= a.cash
         /\ q * l.high <= l.liquidity /\ q <= l.depth
<1>1. q \in Nat \ {0} /\ \A c \in Caps(p, a, l) : q <= c
  BY QuantityIsLeast, CapsAreInt DEF Vetoed
<1>2. /\ q <= TradeRiskShares(p, l) /\ q <= OpenRiskShares(p, a, l)
      /\ q <= PositionShares(p, l) /\ q <= GrossShares(p, a, l)
      /\ q <= CashShares(a, l) /\ q <= LiquidityShares(l) /\ q <= l.depth
  BY <1>1 DEF Caps
<1>3. PICK loss \in Nat \ {0}, high \in Nat \ {0}, cost \in Nat :
        loss = Loss(l) /\ high = l.high /\ cost = l.cost
  BY LevelFields
<1>4. Bps = 10000 /\ p.capital * TradeRiskBps \in Nat /\ p.capital * PositionBps \in Nat
  BY SnapshotFields, PolicyFacts
<1>5. Bps * (q * loss) <= p.capital * TradeRiskBps
  BY <1>1, <1>2, <1>3, <1>4, Fits DEF TradeRiskShares
<1>6. Bps * (q * high) <= p.capital * PositionBps
  <2>1. q <= (p.capital * PositionBps) \div (10000 * high)
    BY <1>2, <1>3, <1>4 DEF PositionShares
  <2> QED BY <1>1, <1>3, <1>4, <2>1, Fits
<1>7. Bps * (a.risk + q * loss) <= p.capital * TotalRiskBps
  BY <1>1, <1>2, <1>3, RemainingFits, PolicyFacts, AllocationFields DEF OpenRiskShares
<1>8. Bps * (a.gross + q * high) <= p.capital * ExposureBps
  BY <1>1, <1>2, <1>3, RemainingFits, PolicyFacts, AllocationFields DEF GrossShares
<1>9. q * high + q * cost <= a.cash
  <2>1. PICK both \in Nat \ {0} : both = high + cost
    BY <1>3
  <2>2. a.cash \in Nat /\ q <= a.cash \div both
    BY <1>2, <1>3, <2>1, AllocationFields DEF CashShares
  <2>3. q * both <= a.cash
    BY <1>1, <2>1, <2>2, Division
  <2>4. q * both = q * high + q * cost
    BY <1>1, <1>3, <2>1
  <2> QED BY <2>3, <2>4
<1>10. q * high <= l.liquidity
  BY <1>1, <1>2, <1>3, Division, LevelFields DEF LiquidityShares
<1> QED BY <1>1, <1>2, <1>3, <1>5, <1>6, <1>7, <1>8, <1>9, <1>10

\* The orders of one batch.
LEMMA OrdersAre ==
  ASSUME DailyTypeOK, NEW i
  PROVE  LET orders == OrdersBy(i) IN
         /\ DOMAIN orders = {b \in Buys : sized[b] # None /\ sized[b].by = i}
         /\ DOMAIN orders \subseteq Buys /\ IsFiniteSet(DOMAIN orders)
         /\ orders \in [DOMAIN orders -> Order]
         /\ \A b \in DOMAIN orders : orders[b] = sized[b]
<1> DEFINE D == {b \in Buys : sized[b] # None /\ sized[b].by = i}
<1>1. OrdersBy(i) = [b \in D |-> sized[b]]
  BY DEF OrdersBy, Restrict
<1>2. \A b \in D : sized[b] \in Order
  BY DEF DailyTypeOK
<1>3. D \subseteq Trades
  BY BookFacts
<1>4. IsFiniteSet(D)
  BY <1>3, BookFacts, FS_Subset
<1> QED BY <1>1, <1>2, <1>4

LEMMA OrderFields ==
  ASSUME NEW o \in Order
  PROVE  /\ o.quantity \in Nat \ {0} /\ o.by \in Nat \ {0} /\ o.offer \in Offers
         /\ o.offer.liquidity \in Nat /\ o.offer.depth \in Nat
<1>1. o.offer \in [liquidity : Nat, depth : Nat]
  BY BookFacts DEF Order
<1> QED BY <1>1 DEF Order

LEMMA LevelsAre ==
  ASSUME NEW t \in Trades, NEW offer \in Offers
  PROVE  LET l == LevelsOf(t, offer) IN
         /\ l.high = TermsOf[t].high /\ l.stop = TermsOf[t].stop /\ l.cost = TermsOf[t].cost
         /\ l.liquidity = offer.liquidity /\ l.depth = offer.depth
         /\ Loss(l) \in Nat
<1>1. PICK l : l = LevelsOf(t, offer)
  OBVIOUS
<1>2. /\ l.high = TermsOf[t].high /\ l.stop = TermsOf[t].stop /\ l.cost = TermsOf[t].cost
      /\ l.liquidity = offer.liquidity /\ l.depth = offer.depth
  BY <1>1 DEF LevelsOf
<1>3. PICK high \in Nat, stop \in Nat, cost \in Nat :
        high = l.high /\ stop = l.stop /\ cost = l.cost /\ stop <= high
  BY <1>2, BookFacts, SoundLevelsOfTerms
<1>4. Loss(l) = high - stop + cost
  BY <1>3 DEF Loss
<1>5. Loss(l) \in Nat
  BY <1>3, <1>4
<1> QED BY <1>1, <1>2, <1>5

LEMMA OrderMoney ==
  ASSUME NEW b \in Trades, NEW o \in Order
  PROVE  Notional(b, o) \in Nat /\ RiskOf(b, o) \in Nat /\ Price(b, o) \in Nat
<1>1. PICK q \in Nat, high \in Nat, cost \in Nat, loss \in Nat :
        /\ q = o.quantity /\ high = TermsOf[b].high /\ cost = TermsOf[b].cost
        /\ loss = Loss(LevelsOf(b, o.offer))
  BY OrderFields, LevelsAre, BookFacts, SoundLevelsOfTerms
<1>2. /\ Notional(b, o) = q * high /\ RiskOf(b, o) = q * loss
      /\ Price(b, o) = q * high + q * cost
  BY <1>1 DEF Notional, RiskOf, Price
<1> QED BY <1>1, <1>2

LEMMA OrdersMoney ==
  ASSUME NEW D \in SUBSET Trades, NEW orders \in [D -> Order]
  PROVE  /\ IsFiniteSet(D)
         /\ [b \in DOMAIN orders |-> Notional(b, orders[b])] \in [D -> Int]
         /\ [b \in DOMAIN orders |-> RiskOf(b, orders[b])] \in [D -> Int]
         /\ [b \in DOMAIN orders |-> Price(b, orders[b])] \in [D -> Int]
         /\ TotalNotional(orders) \in Int /\ TotalRisk(orders) \in Int /\ TotalPrice(orders) \in Int
<1>1. IsFiniteSet(D)
  BY BookFacts, FS_Subset
<1>2. /\ DOMAIN orders = D
      /\ \A b \in D : Notional(b, orders[b]) \in Int /\ RiskOf(b, orders[b]) \in Int
                      /\ Price(b, orders[b]) \in Int
  BY OrderMoney
<1>3. [b \in DOMAIN orders |-> Notional(b, orders[b])] \in [D -> Int]
  BY <1>2
<1>4. [b \in DOMAIN orders |-> RiskOf(b, orders[b])] \in [D -> Int]
  BY <1>2
<1>5. [b \in DOMAIN orders |-> Price(b, orders[b])] \in [D -> Int]
  BY <1>2
<1> QED BY <1>1, <1>3, <1>4, <1>5, TotalType DEF TotalNotional, TotalRisk, TotalPrice

\* No order, nothing used.
LEMMA NoOrders ==
  ASSUME NEW orders, DOMAIN orders = {}
  PROVE  /\ TotalNotional(orders) = 0 /\ TotalRisk(orders) = 0 /\ TotalPrice(orders) = 0
         /\ Cardinality(DOMAIN orders) = 0
BY TotalEmpty, FS_EmptySet DEF TotalNotional, TotalRisk, TotalPrice

\* One order more.
LEMMA OneOrderMore ==
  ASSUME NEW D \in SUBSET Trades, NEW t \in Trades, t \notin D,
         NEW orders \in [D -> Order], NEW more \in [D \cup {t} -> Order],
         \A b \in D : more[b] = orders[b]
  PROVE  /\ TotalNotional(more) = Notional(t, more[t]) + TotalNotional(orders)
         /\ TotalRisk(more) = RiskOf(t, more[t]) + TotalRisk(orders)
         /\ TotalPrice(more) = Price(t, more[t]) + TotalPrice(orders)
         /\ Cardinality(DOMAIN more) = Cardinality(DOMAIN orders) + 1
         /\ Cardinality(DOMAIN orders) \in Nat
<1>1. D \cup {t} \in SUBSET Trades /\ IsFiniteSet(D)
  BY OrdersMoney
<1>2. DOMAIN orders = D /\ DOMAIN more = D \cup {t}
  OBVIOUS
<1>3. Cardinality(D \cup {t}) = Cardinality(D) + 1 /\ Cardinality(D) \in Nat
  BY <1>1, FS_AddElement, FS_CardinalityType
<1>4. TotalNotional(more) = Notional(t, more[t]) + TotalNotional(orders)
  <2> DEFINE f == [b \in DOMAIN orders |-> Notional(b, orders[b])]
             g == [b \in DOMAIN more |-> Notional(b, more[b])]
  <2>1. f \in [D -> Int] /\ g \in [D \cup {t} -> Int]
    BY <1>1, OrdersMoney
  <2>2. (\A b \in D : g[b] = f[b]) /\ g[t] = Notional(t, more[t])
    BY <1>2
  <2>3. SumFunction(g) = g[t] + SumFunction(f)
    <3> HIDE DEF f, g
    <3> QED BY <1>1, <2>1, <2>2, TotalAdd
  <2> QED BY <2>2, <2>3 DEF TotalNotional
<1>5. TotalRisk(more) = RiskOf(t, more[t]) + TotalRisk(orders)
  <2> DEFINE f == [b \in DOMAIN orders |-> RiskOf(b, orders[b])]
             g == [b \in DOMAIN more |-> RiskOf(b, more[b])]
  <2>1. f \in [D -> Int] /\ g \in [D \cup {t} -> Int]
    BY <1>1, OrdersMoney
  <2>2. (\A b \in D : g[b] = f[b]) /\ g[t] = RiskOf(t, more[t])
    BY <1>2
  <2>3. SumFunction(g) = g[t] + SumFunction(f)
    <3> HIDE DEF f, g
    <3> QED BY <1>1, <2>1, <2>2, TotalAdd
  <2> QED BY <2>2, <2>3 DEF TotalRisk
<1>6. TotalPrice(more) = Price(t, more[t]) + TotalPrice(orders)
  <2> DEFINE f == [b \in DOMAIN orders |-> Price(b, orders[b])]
             g == [b \in DOMAIN more |-> Price(b, more[b])]
  <2>1. f \in [D -> Int] /\ g \in [D \cup {t} -> Int]
    BY <1>1, OrdersMoney
  <2>2. (\A b \in D : g[b] = f[b]) /\ g[t] = Price(t, more[t])
    BY <1>2
  <2>3. SumFunction(g) = g[t] + SumFunction(f)
    <3> HIDE DEF f, g
    <3> QED BY <1>1, <2>1, <2>2, TotalAdd
  <2> QED BY <2>2, <2>3 DEF TotalPrice
<1> QED BY <1>2, <1>3, <1>4, <1>5, <1>6

LEMMA SnapshotIs ==
  ASSUME DailyTypeOK, NEW on \in 0 .. Len(rolls)
  PROVE  SnapshotAt(on) \in Snapshot
<1>1. CASE on = 0
  <2>1. Genesis = [capital |-> Capital, cash |-> Capital, gross |-> 0, risk |-> 0, open |-> 0,
                   daily |-> 0, pilot |-> 0] /\ Capital \in Nat \ {0}
    BY BookFacts DEF Genesis
  <2>2. Genesis \in Snapshot
    BY <2>1 DEF Snapshot
  <2> QED BY <1>1, <2>2 DEF SnapshotAt
<1>2. CASE on # 0
  <2>1. on \in 1 .. Len(rolls)
    BY <1>2 DEF DailyTypeOK
  <2>2. rolls[on] \in Rollover
    BY <2>1 DEF DailyTypeOK
  <2> QED BY <1>2, <2>2 DEF SnapshotAt, Rollover
<1> QED BY <1>1, <1>2

\* What is left after the orders, with a new one, keeps to the policy.
LEMMA LimitsKept ==
  ASSUME NEW p \in Snapshot, NEW a \in Allocation, NEW D \in SUBSET Trades,
         NEW t \in Trades, t \notin D, NEW orders \in [D -> Order],
         NEW more \in [D \cup {t} -> Order], \A b \in D : more[b] = orders[b],
         NEW most \in Nat, LeftBy(p, orders, a), D # {} => WithinLimits(p, orders, most),
         NEW l, l = LevelsOf(t, more[t].offer), SoundLevels(l), ~Vetoed(p, a, l, most),
         more[t].quantity = Quantity(p, a, l)
  PROVE  /\ Allocate(p, a, l) \in Allocation
         /\ LeftBy(p, more, Allocate(p, a, l)) /\ WithinLimits(p, more, most)
<1>1. PICK q \in Nat \ {0} : q = Quantity(p, a, l) /\ q = more[t].quantity
  BY Sized
<1>2. PICK high \in Nat, loss \in Nat, cost \in Nat :
        high = l.high /\ loss = Loss(l) /\ cost = l.cost
  BY LevelFields
<1>3. PICK m \in Nat, r \in Nat, c \in Nat : m = q * high /\ r = q * loss /\ c = q * cost
  BY <1>1, <1>2
<1>4. /\ Bps * r <= p.capital * TradeRiskBps /\ Bps * (a.risk + r) <= p.capital * TotalRiskBps
      /\ Bps * m <= p.capital * PositionBps /\ Bps * (a.gross + m) <= p.capital * ExposureBps
      /\ m + c <= a.cash /\ m <= l.liquidity /\ q <= l.depth
  BY <1>1, <1>2, <1>3, Sized
<1>5. more[t] \in Order /\ t \in D \cup {t}
  OBVIOUS
<1>6. /\ high = TermsOf[t].high /\ cost = TermsOf[t].cost
      /\ l.liquidity = more[t].offer.liquidity /\ l.depth = more[t].offer.depth
  BY <1>2, <1>5, OrderFields, LevelsAre
<1>7. Notional(t, more[t]) = m /\ RiskOf(t, more[t]) = r /\ Price(t, more[t]) = m + c
  BY <1>1, <1>2, <1>3, <1>6 DEF Notional, RiskOf, Price
<1>8. /\ TotalNotional(more) = m + TotalNotional(orders) /\ TotalNotional(orders) \in Int
      /\ TotalRisk(more) = r + TotalRisk(orders) /\ TotalRisk(orders) \in Int
      /\ TotalPrice(more) = (m + c) + TotalPrice(orders) /\ TotalPrice(orders) \in Int
      /\ Cardinality(DOMAIN more) = Cardinality(DOMAIN orders) + 1
      /\ Cardinality(DOMAIN orders) \in Nat
  BY <1>7, OneOrderMore, OrdersMoney
<1>9. PICK b : b = Allocate(p, a, l)
  OBVIOUS
<1>10. b = [cash |-> a.cash - m - c, gross |-> a.gross + m, risk |-> a.risk + r, open |-> a.open + 1]
  BY <1>1, <1>2, <1>3, <1>9 DEF Allocate
<1>11. /\ a.cash \in Nat /\ a.gross \in Nat /\ a.risk \in Nat /\ a.open \in Nat
       /\ p.cash \in Nat /\ p.gross \in Nat /\ p.risk \in Nat /\ p.open \in Nat
  BY AllocationFields, SnapshotFields
<1>12. b \in Allocation
  <2>1. a.cash - m - c \in Nat /\ a.gross + m \in Nat /\ a.risk + r \in Nat /\ a.open + 1 \in Nat
    BY <1>3, <1>4, <1>11
  <2> QED BY <1>10, <2>1 DEF Allocation
<1>13. /\ a.cash = p.cash - TotalPrice(orders) /\ a.gross = p.gross + TotalNotional(orders)
       /\ a.risk = p.risk + TotalRisk(orders) /\ a.open = p.open + Cardinality(DOMAIN orders)
  BY DEF LeftBy
<1>14. LeftBy(p, more, b)
  <2>1. /\ b.cash = a.cash - m - c /\ b.gross = a.gross + m /\ b.risk = a.risk + r
        /\ b.open = a.open + 1
    BY <1>10
  <2>2. b.cash = p.cash - TotalPrice(more)
    BY <1>3, <1>8, <1>11, <1>13, <2>1
  <2>3. b.gross = p.gross + TotalNotional(more)
    <3>1. PICK g \in Nat, x \in Int : g = p.gross /\ x = TotalNotional(orders)
      BY <1>8, <1>11
    <3>2. b.gross = (g + x) + m
      BY <1>13, <2>1, <3>1
    <3>3. TotalNotional(more) = x + m
      BY <1>8, <3>1
    <3> QED BY <1>3, <3>1, <3>2, <3>3
  <2>5. b.risk = p.risk + TotalRisk(more)
    <3>1. PICK g \in Nat, x \in Int : g = p.risk /\ x = TotalRisk(orders)
      BY <1>8, <1>11
    <3>2. b.risk = (g + x) + r
      BY <1>13, <2>1, <3>1
    <3>3. TotalRisk(more) = x + r
      BY <1>8, <3>1
    <3> QED BY <1>3, <3>1, <3>2, <3>3
  <2>4. b.open = p.open + Cardinality(DOMAIN more)
    <3>1. PICK n \in Nat, o \in Nat :
            n = Cardinality(DOMAIN orders) /\ o = p.open
      BY <1>8, <1>11
    <3>2. a.open = o + n /\ Cardinality(DOMAIN more) = n + 1
      BY <1>8, <1>13, <3>1
    <3>3. b.open = o + (n + 1)
      BY <2>1, <3>1, <3>2
    <3> QED BY <3>1, <3>2, <3>3
  <2> QED BY <2>2, <2>3, <2>4, <2>5 DEF LeftBy
<1>15. WithinLimits(p, more, most)
  <2>1. p.risk + TotalRisk(more) = a.risk + r /\ p.gross + TotalNotional(more) = a.gross + m
    BY <1>10, <1>14 DEF LeftBy
  <2>2. TotalPrice(more) <= p.cash
    BY <1>3, <1>4, <1>8, <1>11, <1>13
  <2>3. /\ ~(p.daily * Bps <= -(p.capital * DailyLossBps))
        /\ ~(p.pilot * Bps <= -(p.capital * DrawdownBps))
        /\ ~(a.open >= MaxOpen) /\ ~(a.open - p.open >= most)
    BY DEF Vetoed, Halted
  <2>4. PICK x1 \in Int, y1 \in Int, u \in Int, v \in Int :
          /\ x1 = p.daily * Bps /\ y1 = -(p.capital * DailyLossBps)
          /\ u = p.pilot * Bps /\ v = -(p.capital * DrawdownBps)
    <3>1. PICK d \in Int, e \in Int, k \in Int, x \in Int, y \in Int, z \in Int :
            /\ d = p.daily /\ e = p.pilot /\ k = p.capital
            /\ x = DailyLossBps /\ y = DrawdownBps /\ z = Bps
      BY SnapshotFields, PolicyFacts
    <3>2. d * z \in Int /\ e * z \in Int
      OBVIOUS
    <3>3. -(k * x) \in Int /\ -(k * y) \in Int
      OBVIOUS
    <3> QED BY <3>1, <3>2, <3>3
  <2>5. p.daily * Bps > -(p.capital * DailyLossBps) /\ p.pilot * Bps > -(p.capital * DrawdownBps)
    BY <2>3, <2>4
  <2>6. /\ p.open + Cardinality(DOMAIN more) <= MaxOpen /\ Cardinality(DOMAIN more) <= most
    BY <1>8, <1>11, <1>13, <2>3, PolicyFacts
  <2>7. ASSUME NEW x \in DOMAIN more
        PROVE  /\ Bps * RiskOf(x, more[x]) <= p.capital * TradeRiskBps
               /\ Bps * Notional(x, more[x]) <= p.capital * PositionBps
               /\ Notional(x, more[x]) <= more[x].offer.liquidity
               /\ more[x].quantity <= more[x].offer.depth
    <3>1. CASE x = t
      BY <1>1, <1>4, <1>6, <1>7, <3>1
    <3>2. CASE x # t
      <4>1. x \in D /\ more[x] = orders[x] /\ x \in DOMAIN orders
        BY <3>2
      <4> QED BY <4>1 DEF WithinLimits
    <3> QED BY <3>1, <3>2
  <2> QED BY <1>4, <2>1, <2>2, <2>5, <2>6, <2>7 DEF WithinLimits
<1> QED BY <1>9, <1>12, <1>14, <1>15

\* What a batch does is apart from the chains and from the workflows.
LEMMA SizingApart ==
  ASSUME DailyInv, UNCHANGED <<day, market>>, UNCHANGED <<ledger, states, rolls>>,
         UNCHANGED <<pinned, events, terminal, run, faults>>
  PROVE  StatesInv' /\ VerdictsInv' /\ MoneyInv' /\ RollsInv' /\ BookInv' /\ RunInv' /\ PinInv'
<1>1. StatesInv'
  BY DEF DailyInv, StatesInv
<1>2. VerdictsInv'
  BY DEF DailyInv, VerdictsInv, ReplayOf
<1>3. MoneyInv'
  BY DEF DailyInv, MoneyInv, Seen
<1>4. RollsInv'
  BY DEF DailyInv, RollsInv, SeenNavs
<1>5. BookInv'
  BY DEF DailyInv, BookInv, ReplayOf
<1>6. JobsInv => JobsInv'
  BY DEF JobsInv, Behind, Carried, Waits, ReplayOf
<1>7. RunInv'
  BY <1>6 DEF DailyInv, RunInv
<1>8. PinInv'
  BY DEF DailyInv, PinInv
<1> QED BY <1>1, <1>2, <1>3, <1>4, <1>5, <1>7, <1>8

\* An opportunity is sized by one batch, and the others keep what they have.
LEMMA AllotStep ==
  ASSUME DailyInv, NEW t \in Buys, NEW i \in DOMAIN sizing, Allot(i, t)
  PROVE  DailyInv'
<1>1. /\ UNCHANGED <<day, market>> /\ UNCHANGED <<ledger, states, rolls>>
      /\ UNCHANGED <<pinned, events, terminal, run, faults>>
      /\ sized[t] = None /\ t \in Trades
  BY BookFacts DEF Allot, chain, workflow, journal
<1>2. /\ DailyTypeOK /\ SizingInv /\ SizedWithinLimits
      /\ sized \in [Buys -> Order \cup {None}] /\ sizing \in Seq(Sizing)
  BY DEF DailyInv, DailyTypeOK
<1>3. i \in 1 .. Len(sizing) /\ sizing[i] \in Sizing
  BY <1>2
<1>4. PICK s \in Sizing : s = sizing[i]
  BY <1>3
<1>5. PICK on \in Nat, a \in Allocation, most \in Nat \ {0}, session \in Nat :
        /\ on = s.on /\ a = s.state /\ most = s.most /\ session = s.session
        /\ s = [on |-> on, session |-> session, most |-> most, state |-> a]
  BY DEF Sizing
<1>6. on \in 0 .. Len(rolls) /\ LeftBy(SnapshotAt(on), OrdersBy(i), a)
  BY <1>2, <1>3, <1>4, <1>5 DEF SizingInv
<1>7. PICK p \in Snapshot : p = SnapshotAt(on)
  BY <1>2, <1>6, SnapshotIs
<1>8. PICK offer \in Offers :
         /\ SoundLevels(LevelsOf(t, offer)) /\ ~Vetoed(p, a, LevelsOf(t, offer), most)
         /\ sizing' = [sizing EXCEPT ![i].state = Allocate(p, a, LevelsOf(t, offer))]
         /\ sized' = [sized EXCEPT ![t] =
                 [quantity |-> Quantity(p, a, LevelsOf(t, offer)), by |-> i, offer |-> offer]]
  BY <1>4, <1>5, <1>7 DEF Allot
<1>9. PICK l :
         /\ l = LevelsOf(t, offer) /\ SoundLevels(l) /\ ~Vetoed(p, a, l, most)
         /\ sizing' = [sizing EXCEPT ![i].state = Allocate(p, a, l)]
         /\ sized' = [sized EXCEPT ![t] =
                 [quantity |-> Quantity(p, a, l), by |-> i, offer |-> offer]]
  BY <1>8
<1>10. PICK q \in Nat \ {0} : q = Quantity(p, a, l)
  BY <1>9, Sized
<1>11. PICK order \in Order : order = [quantity |-> q, by |-> i, offer |-> offer]
  <2>1. i \in Nat \ {0}
    <3>1. PICK n \in Nat : n = Len(sizing)
      BY <1>2
    <3>2. i \in 1 .. n
      BY <1>3, <3>1
    <3> QED BY <3>2
  <2>2. [quantity |-> q, by |-> i, offer |-> offer] \in Order
    BY <2>1 DEF Order
  <2> QED BY <2>2
<1>12. order.quantity = q /\ order.by = i /\ order.offer = offer /\ order # None
  BY <1>11, Absent
<1>13. sized' = [sized EXCEPT ![t] = order]
  BY <1>9, <1>10, <1>11
<1>14. /\ sized' \in [Buys -> Order \cup {None}] /\ sized'[t] = order
       /\ \A b \in Buys \ {t} : sized'[b] = sized[b]
  BY <1>2, <1>13
<1>15. PICK orders : orders = OrdersBy(i)
  OBVIOUS
<1>16. PICK more : more = OrdersBy(i)'
  OBVIOUS
<1>17. PICK D \in SUBSET Trades :
         /\ D = {b \in Buys : sized[b] # None /\ sized[b].by = i}
         /\ DOMAIN orders = D /\ orders \in [D -> Order] /\ \A b \in D : orders[b] = sized[b]
  BY <1>2, <1>15, OrdersAre, BookFacts
<1>18. t \notin D
  BY <1>1, <1>17
<1>19. /\ more \in [D \cup {t} -> Order] /\ more[t] = order
       /\ \A b \in D : more[b] = orders[b]
  <2> DEFINE E == {b \in Buys : sized'[b] # None /\ sized'[b].by = i}
  <2>1. more = [b \in E |-> sized'[b]]
    BY <1>16 DEF OrdersBy, Restrict
  <2>2. E = D \cup {t}
    BY <1>12, <1>14, <1>17
  <2>3. \A b \in D : sized'[b] = sized[b] /\ sized[b] \in Order
    BY <1>2, <1>14, <1>17, <1>18
  <2> HIDE DEF E
  <2> QED BY <1>14, <1>17, <2>1, <2>2, <2>3
<1>20. D # {} => WithinLimits(p, orders, most)
  BY <1>2, <1>4, <1>5, <1>7, <1>15, <1>17 DEF SizedWithinLimits
<1>21. PICK left : left = Allocate(p, a, l)
  OBVIOUS
<1>22. left \in Allocation /\ LeftBy(p, more, left) /\ WithinLimits(p, more, most)
  <2>1. l = LevelsOf(t, more[t].offer) /\ more[t].quantity = Quantity(p, a, l)
    BY <1>9, <1>10, <1>12, <1>19
  <2>2. LeftBy(p, orders, a)
    BY <1>6, <1>7, <1>15
  <2>3. /\ p \in Snapshot /\ a \in Allocation /\ D \in SUBSET Trades /\ t \in Trades
        /\ t \notin D /\ orders \in [D -> Order] /\ more \in [D \cup {t} -> Order]
        /\ \A x \in D : more[x] = orders[x]
        /\ SoundLevels(l) /\ ~Vetoed(p, a, l, most) /\ most \in Nat
    BY <1>1, <1>9, <1>17, <1>18, <1>19
  <2>4. /\ Allocate(p, a, l) \in Allocation
        /\ LeftBy(p, more, Allocate(p, a, l)) /\ WithinLimits(p, more, most)
    BY <1>20, <2>1, <2>2, <2>3, LimitsKept
  <2> QED BY <1>21, <2>4
<1>23. PICK next \in Sizing :
         next = [on |-> on, session |-> session, most |-> most, state |-> left]
  BY <1>22 DEF Sizing
<1>24. sizing' = [sizing EXCEPT ![i] = next]
  <2>1. sizing' = [sizing EXCEPT ![i] = [@ EXCEPT !.state = left]]
    BY <1>9, <1>21
  <2>2. [sizing[i] EXCEPT !.state = left] = next
    BY <1>4, <1>5, <1>23
  <2> QED BY <2>1, <2>2
<1>25. /\ sizing' \in Seq(Sizing) /\ Len(sizing') = Len(sizing) /\ sizing'[i] = next
       /\ DOMAIN sizing' = 1 .. Len(sizing)
       /\ \A j \in 1 .. Len(sizing) : j # i => sizing'[j] = sizing[j]
  BY <1>2, <1>3, <1>24
<1>26. \A j : j # i => OrdersBy(j)' = OrdersBy(j)
  <2> TAKE j
  <2> SUFFICES ASSUME j # i PROVE OrdersBy(j)' = OrdersBy(j)
    OBVIOUS
  <2>1. {b \in Buys : sized'[b] # None /\ sized'[b].by = j} =
        {b \in Buys : sized[b] # None /\ sized[b].by = j}
    BY <1>1, <1>12, <1>14
  <2>2. \A c \in {b \in Buys : sized[b] # None /\ sized[b].by = j} : sized'[c] = sized[c]
    BY <1>1, <1>14
  <2> QED BY <2>1, <2>2 DEF OrdersBy, Restrict
<1>27. \A n : SnapshotAt(n)' = SnapshotAt(n)
  BY <1>1 DEF SnapshotAt
<1>28. next.on = on /\ next.most = most /\ next.state = left
  BY <1>23
<1>29. SizingInv'
  <2>1. ASSUME NEW j \in 1 .. Len(sizing)
        PROVE  /\ sizing'[j].on \in 0 .. Len(rolls)
               /\ LeftBy(SnapshotAt(sizing'[j].on), OrdersBy(j)', sizing'[j].state)
    <3>1. CASE j = i
      BY <1>6, <1>7, <1>16, <1>22, <1>25, <1>28, <3>1
    <3>2. CASE j # i
      BY <1>2, <1>25, <1>26, <3>2 DEF SizingInv
    <3> QED BY <3>1, <3>2
  <2>2. ASSUME NEW b \in Buys, sized'[b] # None PROVE sized'[b].by \in 1 .. Len(sizing)
    BY <1>2, <1>3, <1>12, <1>14, <2>2 DEF SizingInv
  <2>3. \A j \in 1 .. Len(sizing) :
          SnapshotAt(sizing[j].on)' = SnapshotAt(sizing'[j].on)
    BY <1>1 DEF SnapshotAt
  <2> QED BY <1>1, <1>25, <2>1, <2>2, <2>3 DEF SizingInv
<1>30. SizedWithinLimits'
  <2>1. ASSUME NEW j \in 1 .. Len(sizing), DOMAIN (OrdersBy(j)') # {}
        PROVE  WithinLimits(SnapshotAt(sizing'[j].on), OrdersBy(j)', sizing'[j].most)
    <3>1. CASE j = i
      BY <1>7, <1>16, <1>22, <1>25, <1>28, <3>1
    <3>2. CASE j # i
      <4>1. j \in DOMAIN sizing
        BY <1>2
      <4> QED BY <1>2, <1>25, <1>26, <2>1, <3>2, <4>1 DEF SizedWithinLimits
    <3> QED BY <3>1, <3>2
  <2>2. \A j \in 1 .. Len(sizing) :
          SnapshotAt(sizing[j].on)' = SnapshotAt(sizing'[j].on)
    BY <1>1 DEF SnapshotAt
  <2> QED BY <1>25, <2>1, <2>2 DEF SizedWithinLimits
<1>31. StatesInv' /\ VerdictsInv' /\ MoneyInv' /\ RollsInv' /\ BookInv' /\ RunInv' /\ PinInv'
  BY <1>1, SizingApart
<1>32. DailyTypeOK'
  BY <1>1, <1>2, <1>14, <1>25 DEF DailyTypeOK
<1> QED BY <1>29, <1>30, <1>31, <1>32 DEF DailyInv

-----------------------------------------------------------------------------
(* A swing run begins.                                                     *)

\* The snapshot it is bound to is of the day.
LEMMA SnapIsOfDay ==
  ASSUME DailyInv, Sizable
  PROVE  SnapDay(Len(rolls)) = day /\ Len(rolls) \in 0 .. Len(rolls)
<1>1. Len(rolls) \in Nat /\ rolls \in Seq(Rollover)
  BY DEF DailyInv, DailyTypeOK
<1>2. CASE rolls = <<>>
  BY <1>1, <1>2 DEF Sizable, SnapDay
<1>3. CASE rolls # <<>>
  <2>1. Len(rolls) \in 1 .. Len(rolls) /\ Last(rolls) = rolls[Len(rolls)]
    BY <1>1, <1>3 DEF Last
  <2>2. rolls[Len(rolls)].state = Len(rolls)
    BY <2>1 DEF DailyInv, RollsInv
  <2> QED BY <1>1, <1>3, <2>1, <2>2 DEF Sizable, SnapDay
<1> QED BY <1>2, <1>3

LEMMA SizeStep ==
  ASSUME DailyInv, Size
  PROVE  DailyInv'
<1>1. /\ UNCHANGED <<day, market, sized>> /\ UNCHANGED <<ledger, states, rolls>>
      /\ UNCHANGED <<pinned, events, terminal, run, faults>>
  BY DEF Size, chain, workflow, journal
<1>2. DailyTypeOK /\ SizingInv /\ SizedWithinLimits /\ sizing \in Seq(Sizing) /\ day \in Nat
  BY BookFacts DEF DailyInv, DailyTypeOK
<1>3. PICK on \in Nat : on = Len(rolls) /\ on \in 0 .. Len(rolls)
  BY <1>2 DEF DailyTypeOK
<1>4. PICK p \in Snapshot : p = SnapshotAt(on)
  BY <1>2, <1>3, SnapshotIs
<1>5. PICK a : a = Initially(p)
  OBVIOUS
<1>6. /\ a \in Allocation /\ a.cash = p.cash /\ a.gross = p.gross /\ a.risk = p.risk
      /\ a.open = p.open
  BY <1>5 DEF Initially, Allocation, Snapshot
<1>7. PICK most \in Mosts :
        sizing' = Append(sizing, [on |-> on, session |-> day + 1, most |-> most, state |-> a])
  BY <1>3, <1>4, <1>5 DEF Size
<1>8. most \in Nat \ {0}
  BY <1>7, BookAssumption, PolicyFacts
<1>9. PICK s \in Sizing : s = [on |-> on, session |-> day + 1, most |-> most, state |-> a]
  <2>1. day + 1 \in Nat
    BY <1>2
  <2>2. [on |-> on, session |-> day + 1, most |-> most, state |-> a] \in Sizing
    BY <1>6, <1>8, <2>1 DEF Sizing
  <2> QED BY <2>2
<1>10. s.on = on /\ s.state = a
  BY <1>9
<1>11. PICK n \in Nat : n = Len(sizing) /\ DOMAIN sizing = 1 .. n
  BY <1>2
<1>12. /\ sizing' \in Seq(Sizing) /\ Len(sizing') = n + 1 /\ sizing'[n + 1] = s
       /\ DOMAIN sizing' = 1 .. n + 1
       /\ \A i \in 1 .. n : sizing'[i] = sizing[i]
  BY <1>2, <1>7, <1>9, <1>11
<1>13. (\A i : OrdersBy(i)' = OrdersBy(i)) /\ \A k : SnapshotAt(k)' = SnapshotAt(k)
  BY <1>1 DEF OrdersBy, SnapshotAt
<1>14. DOMAIN OrdersBy(n + 1) = {}
  <2>1. \A b \in Buys : sized[b] # None => sized[b].by # n + 1
    BY <1>2, <1>11 DEF SizingInv
  <2>2. PICK orders : orders = OrdersBy(n + 1)
    OBVIOUS
  <2>3. DOMAIN orders = {b \in Buys : sized[b] # None /\ sized[b].by = n + 1}
    BY <1>2, <2>2, OrdersAre
  <2> QED BY <2>1, <2>2, <2>3
<1>15. LeftBy(p, OrdersBy(n + 1), a)
  BY <1>6, <1>14, NoOrders, SnapshotFields DEF LeftBy
<1>16. \A i \in 1 .. n + 1 : SnapshotAt(sizing[i].on)' = SnapshotAt(sizing'[i].on)
  BY <1>1 DEF SnapshotAt
<1>17. SizingInv'
  <2>1. ASSUME NEW i \in 1 .. n + 1
        PROVE  /\ sizing'[i].on \in 0 .. Len(rolls)
               /\ LeftBy(SnapshotAt(sizing'[i].on), OrdersBy(i), sizing'[i].state)
    <3>1. CASE i = n + 1
      BY <1>3, <1>4, <1>10, <1>12, <1>15, <3>1
    <3>2. CASE i # n + 1
      <4>1. i \in 1 .. n
        BY <3>2
      <4> QED BY <1>2, <1>11, <1>12, <4>1 DEF SizingInv
    <3> QED BY <3>1, <3>2
  <2>2. \A b \in Buys : sized[b] # None => sized[b].by \in 1 .. n + 1
    BY <1>2, <1>11 DEF SizingInv
  <2> QED BY <1>1, <1>12, <1>13, <1>16, <2>1, <2>2 DEF SizingInv
<1>18. SizedWithinLimits'
  <2>1. ASSUME NEW i \in 1 .. n + 1, DOMAIN OrdersBy(i) # {}
        PROVE  WithinLimits(SnapshotAt(sizing'[i].on), OrdersBy(i), sizing'[i].most)
    <3>1. i \in 1 .. n
      BY <1>14, <2>1
    <3> QED BY <1>2, <1>11, <1>12, <2>1, <3>1 DEF SizedWithinLimits
  <2> QED BY <1>12, <1>13, <1>16, <2>1 DEF SizedWithinLimits
<1>19. StatesInv' /\ VerdictsInv' /\ MoneyInv' /\ RollsInv' /\ BookInv' /\ RunInv' /\ PinInv'
  BY <1>1, SizingApart
<1>20. DailyTypeOK'
  BY <1>1, <1>2, <1>12 DEF DailyTypeOK
<1> QED BY <1>17, <1>18, <1>19, <1>20 DEF DailyInv


-----------------------------------------------------------------------------
(* A session closes.                                                       *)

\* What a state is worth depends on the bars of its own session only.
LEMMA SameBars ==
  ASSUME NEW st, NEW bars, NEW other, \A t \in Trades : bars[t][st.session] = other[t][st.session]
  PROVE  /\ Nav(st, bars) = Nav(st, other)
         /\ SnapshotOf(st, bars) = SnapshotOf(st, other)
         /\ \A roll : RolledAs(roll, st, bars) <=> RolledAs(roll, st, other)
<1>1. \A t \in Open(st) : bars[t][st.session] = other[t][st.session]
  BY DEF Open, StatusIn
<1>2. [t \in Open(st) |-> Marked(t, bars[t][st.session])] =
      [t \in Open(st) |-> Marked(t, other[t][st.session])]
  BY <1>1
<1>3. Gross(st, bars) = Gross(st, other)
  BY <1>2 DEF Gross
<1>4. Nav(st, bars) = Nav(st, other)
  BY <1>3 DEF Nav
<1>5. Safe(st, bars) = Safe(st, other)
  BY <1>4 DEF Safe
<1>6. SnapshotOf(st, bars) = SnapshotOf(st, other)
  BY <1>3, <1>4 DEF SnapshotOf
<1>7. \A roll : RolledAs(roll, st, bars) <=> RolledAs(roll, st, other)
  BY <1>1, <1>5, <1>6 DEF RolledAs
<1> QED BY <1>4, <1>6, <1>7

LEMMA CloseMarket ==
  ASSUME DailyTypeOK, Close
  PROVE  /\ market' \in [Trades -> [Sessions -> Bar \cup {NoBar}]]
         /\ \A t \in Trades : \A s \in Sessions : market'[t][s] = NoBar \/ SoundBar(market'[t][s])
         /\ \A t \in Trades : \A s \in 1 .. day : market'[t][s] = market[t][s]
         /\ \A t \in Trades : \A k \in 0 .. day :
              Replay(TermsOf[t], market'[t], k) = Replay(TermsOf[t], market[t], k)
<1>1. day \in 0 .. Days /\ day < Days /\ day + 1 \in Sessions /\ 1 .. day \subseteq Sessions
  BY BookFacts DEF DailyTypeOK, Close
<1>2. PICK bars \in Tape[day + 1] :
        market' = [t \in Trades |->
                     [market[t] EXCEPT ![day + 1] =
                        IF t \in Active \cap Alerts /\ TermsOf[t].from <= day + 1
                        THEN bars[t] ELSE NoBar]]
  BY DEF Close
<1>3. PICK b : b = [t \in Trades |-> IF t \in Active \cap Alerts /\ TermsOf[t].from <= day + 1
                                     THEN bars[t] ELSE NoBar]
  OBVIOUS
<1>4. ASSUME NEW t \in Trades PROVE b[t] = NoBar \/ SoundBar(b[t])
  <2>1. t \in Alerts => bars[t] = NoBar \/ SoundBar(bars[t])
    BY <1>1, BookAssumption
  <2> QED BY <1>3, <2>1
<1>5. market' = [t \in Trades |-> [market[t] EXCEPT ![day + 1] = b[t]]]
  BY <1>2, <1>3
<1>6. \A t \in Trades : b[t] \in Bar \cup {NoBar}
  BY <1>4 DEF SoundBar
<1>7. ASSUME NEW t \in Trades
      PROVE  /\ market[t] \in [Sessions -> Bar \cup {NoBar}]
             /\ market'[t] \in [Sessions -> Bar \cup {NoBar}]
             /\ market'[t][day + 1] = b[t]
             /\ \A s \in Sessions \ {day + 1} : market'[t][s] = market[t][s]
  <2>1. market[t] \in [Sessions -> Bar \cup {NoBar}]
    BY DEF DailyTypeOK
  <2>2. market'[t] = [market[t] EXCEPT ![day + 1] = b[t]]
    BY <1>5
  <2> QED BY <1>1, <1>6, <2>1, <2>2
<1>8. \A t \in Trades : \A s \in 1 .. day : market'[t][s] = market[t][s]
  <2>1. \A s \in 1 .. day : s \in Sessions \ {day + 1}
    BY <1>1
  <2> QED BY <1>7, <2>1
<1>9. \A t \in Trades : \A s \in Sessions : market'[t][s] = NoBar \/ SoundBar(market'[t][s])
  <2>1. \A t \in Trades : \A s \in Sessions : market[t][s] = NoBar \/ SoundBar(market[t][s])
    BY DEF DailyTypeOK
  <2>2. ASSUME NEW t \in Trades, NEW s \in Sessions
        PROVE  market'[t][s] = NoBar \/ SoundBar(market'[t][s])
    <3>1. CASE s = day + 1
      BY <1>4, <1>7, <3>1
    <3>2. CASE s # day + 1
      <4>1. market'[t][s] = market[t][s]
        BY <1>7, <3>2
      <4> QED BY <2>1, <4>1
    <3> QED BY <3>1, <3>2
  <2> QED BY <2>2
<1>10. ASSUME NEW t \in Trades, NEW k \in 0 .. day
       PROVE  Replay(TermsOf[t], market'[t], k) = Replay(TermsOf[t], market[t], k)
  <2>1. \A s \in 1 .. k : market'[t][s] = market[t][s]
    <3>1. \A s \in 1 .. k : s \in 1 .. day
      BY <1>1
    <3> QED BY <1>8, <3>1
  <2>2. PICK e : e = market'[t]
    OBVIOUS
  <2>3. k \in Nat /\ SoundTerms(TermsOf[t])
    BY BookFacts
  <2> QED BY <2>1, <2>2, <2>3, ReplayLooksBack
<1>11. market' \in [Trades -> [Sessions -> Bar \cup {NoBar}]]
  <2>1. DOMAIN market' = Trades /\ market' = [t \in Trades |-> market'[t]]
    BY <1>5
  <2> QED BY <1>7, <2>1
<1> QED BY <1>8, <1>9, <1>10, <1>11

LEMMA CloseStep ==
  ASSUME DailyInv, Close
  PROVE  DailyInv'
<1>1. /\ day' = day + 1 /\ sizing' = <<>> /\ sized' = [t \in Buys |-> None]
      /\ UNCHANGED <<ledger, states, rolls>>
      /\ UNCHANGED <<pinned, events, terminal, run, faults>>
  BY DEF Close, chain, workflow, journal
<1>2. DailyTypeOK
  BY DEF DailyInv
<1>3. day \in 0 .. Days /\ day' \in 0 .. Days /\ day \in Nat
  BY <1>1, <1>2, BookFacts DEF DailyTypeOK, Close
<1>4. /\ market' \in [Trades -> [Sessions -> Bar \cup {NoBar}]]
      /\ \A t \in Trades : \A s \in Sessions : market'[t][s] = NoBar \/ SoundBar(market'[t][s])
      /\ \A t \in Trades : \A s \in 1 .. day : market'[t][s] = market[t][s]
      /\ \A t \in Trades : \A k \in 0 .. day :
           Replay(TermsOf[t], market'[t], k) = Replay(TermsOf[t], market[t], k)
  BY <1>2, CloseMarket
<1>5. \A i \in 1 .. Len(states) : states[i].session \in 1 .. day /\ states[i].session \in Nat
  BY <1>2, <1>3, StateAt, StateFields, BookFacts DEF DailyInv, StatesInv
<1>6. StatesInv'
  <2>1. \A i \in 1 .. Len(states) : i <= states[i].session /\ states[i].session <= day'
    BY <1>1, <1>3, <1>5 DEF DailyInv, StatesInv
  <2> QED BY <1>1, <2>1 DEF DailyInv, StatesInv
<1>7. VerdictsInv'
  <2>1. ASSUME NEW i \in 1 .. Len(states), NEW t \in Trades, states[i].positions[t] # None
        PROVE  /\ t \in Alerts
               /\ \E k \in 1 .. states[i].session :
                    states[i].positions[t] = Replay(TermsOf[t], market'[t], k)
               /\ states[i].positions[t].status = "CLOSED" => ledger[t] = states[i].positions[t]
    <3>1. PICK k \in 1 .. states[i].session :
            states[i].positions[t] = Replay(TermsOf[t], market[t], k)
      BY <2>1 DEF DailyInv, VerdictsInv, ReplayOf
    <3>2. k \in 0 .. day
      BY <1>3, <1>5
    <3> QED BY <1>4, <2>1, <3>1, <3>2 DEF DailyInv, VerdictsInv
  <2>2. ASSUME NEW t \in Trades, ledger[t] # None, ledger[t] # Alerted
        PROVE  t \in Alerts /\ \E k \in 1 .. day' : ledger[t] = Replay(TermsOf[t], market'[t], k)
    <3>1. PICK k \in 1 .. day : t \in Alerts /\ ledger[t] = Replay(TermsOf[t], market[t], k)
      BY <2>2 DEF DailyInv, VerdictsInv, ReplayOf
    <3>2. k \in 0 .. day /\ k \in 1 .. day'
      BY <1>1, <1>3
    <3> QED BY <1>4, <3>1, <3>2
  <2> QED BY <1>1, <2>1, <2>2 DEF VerdictsInv, ReplayOf
<1>8. RunInv'
  <2> SUFFICES ASSUME run # None PROVE RunInv'
    BY <1>1 DEF RunInv
  <2>1. run \in Attempt /\ run.session \in 1 .. day
    <3>1. run \in Attempt
      BY <1>2, RunFacts
    <3> QED BY <1>3, <3>1, AttemptFields, BookFacts DEF DailyInv, RunInv
  <2>2. ASSUME JobsInv PROVE JobsInv'
    <3>1. \A t \in Trades :
            Replay(TermsOf[t], market'[t], run.session) = Replay(TermsOf[t], market[t], run.session)
      BY <1>3, <1>4, <2>1
    <3> QED BY <1>1, <2>2, <3>1 DEF JobsInv, Behind, Carried, Waits, ReplayOf
  <2> QED BY <1>1, <1>3, <2>1, <2>2 DEF DailyInv, RunInv
<1>9. PinInv'
  BY <1>1 DEF DailyInv, PinInv
<1>10. MoneyInv'
  BY <1>1 DEF DailyInv, MoneyInv, Seen
<1>11. RollsInv'
  <2>1. PICK bars : bars = market'
    OBVIOUS
  <2>2. \A i \in 1 .. Len(states) : \A t \in Trades :
          market[t][states[i].session] = bars[t][states[i].session]
    BY <1>4, <1>5, <2>1
  <2>3. \A i \in 1 .. Len(states) : /\ Nav(states[i], market) = Nav(states[i], bars)
                                    /\ \A roll : RolledAs(roll, states[i], market) <=>
                                                 RolledAs(roll, states[i], bars)
    <3> TAKE i \in 1 .. Len(states)
    <3>1. PICK st, now : st = states[i] /\ now = market
      OBVIOUS
    <3>2. \A t \in Trades : now[t][st.session] = bars[t][st.session]
      BY <2>2, <3>1
    <3>3. /\ Nav(st, now) = Nav(st, bars)
          /\ \A roll : RolledAs(roll, st, now) <=> RolledAs(roll, st, bars)
      BY <3>2, SameBars
    <3> QED BY <3>1, <3>3
  <2>4. Len(rolls) <= Len(states) /\ Len(rolls) \in Nat /\ Len(states) \in Nat
    BY <1>2 DEF DailyInv, RollsInv, DailyTypeOK
  <2>5. \A i \in 1 .. Len(rolls) : (SeenNavs(i) = SeenNavs(i)')
    <3> TAKE i \in 1 .. Len(rolls)
    <3>1. \A j \in 1 .. i : j \in 1 .. Len(states)
      BY <2>4
    <3>2. \A j \in 1 .. i : Nav(states[j], market) = Nav(states[j], bars)
      BY <2>3, <3>1
    <3>3. {Nav(states[j], market) : j \in 1 .. i} = {Nav(states[j], bars) : j \in 1 .. i}
      BY <3>2
    <3> QED BY <1>1, <2>1, <3>3 DEF SeenNavs
  <2>6. ASSUME NEW i \in 1 .. Len(rolls)
        PROVE  /\ rolls[i].state = i /\ RolledAs(rolls[i], states[i], bars)
               /\ rolls[i].peakNav \in SeenNavs(i)'
               /\ \A n \in SeenNavs(i)' : n \in Int /\ n <= rolls[i].peakNav
    <3>1. i \in 1 .. Len(states)
      BY <2>4
    <3>2. /\ rolls[i].state = i /\ RolledAs(rolls[i], states[i], market)
          /\ rolls[i].peakNav \in SeenNavs(i)
          /\ \A n \in SeenNavs(i) : n \in Int /\ n <= rolls[i].peakNav
      BY DEF DailyInv, RollsInv
    <3> QED BY <2>3, <2>5, <3>1, <3>2
  <2> QED BY <1>1, <2>1, <2>4, <2>6 DEF RollsInv
<1>12. SizingInv'
  <2>1. Len(sizing') = 0 /\ \A b \in Buys : sized'[b] = None
    BY <1>1
  <2> QED BY <2>1 DEF SizingInv
<1>13. BookInv'
  <2>1. states # <<>> => states[Len(states)].session # day'
    BY <1>1, <1>2, <1>3, <1>5, LastState
  <2> QED BY <1>1, <2>1 DEF BookInv
<1>14. SizedWithinLimits'
  BY <1>1 DEF SizedWithinLimits
<1>15. DailyTypeOK'
  BY <1>1, <1>2, <1>3, <1>4 DEF DailyTypeOK
<1> QED BY <1>6, <1>7, <1>8, <1>9, <1>10, <1>11, <1>12, <1>13, <1>14, <1>15 DEF DailyInv

-----------------------------------------------------------------------------
(* A trade of the batch is judged.                                         *)

\* The last state is of a session before that of an attempt at its jobs.
LEMMA JobsAreAhead ==
  ASSUME DailyInv, At("jobs")
  PROVE  /\ run # None /\ run \in Attempt /\ run.session \in 1 .. day /\ run.session \in 0 .. Days
         /\ run.stage = "jobs" /\ JobsInv
         /\ states # <<>> => states[Len(states)].session < run.session
<1>1. run # None /\ run.stage = "jobs"
  BY DEF At
<1>2. DailyTypeOK /\ run \in Attempt
  BY <1>1, RunFacts DEF DailyInv
<1>3. JobsInv /\ run.session <= day
  BY <1>1 DEF DailyInv, RunInv
<1>4. run.session \in 1 .. Days /\ day \in 0 .. Days
  BY <1>2, AttemptFields, BookFacts DEF DailyTypeOK
<1>5. run.session \in 1 .. day /\ run.session \in 0 .. Days
  BY <1>3, <1>4, BookFacts
<1>6. states # <<>> => states[Len(states)].session < run.session
  BY <1>2, <1>3, LastState DEF JobsInv, Behind
<1> QED BY <1>1, <1>2, <1>3, <1>5, <1>6

\* What does not move the book's chains.
LEMMA ChainsKept ==
  ASSUME DailyInv, UNCHANGED <<outside, states, rolls>>
  PROVE  StatesInv' /\ MoneyInv' /\ RollsInv' /\ SizingInv' /\ SizedWithinLimits'
<1>1. UNCHANGED <<day, market, sizing, sized, states, rolls>>
  BY DEF outside
<1>2. StatesInv'
  BY <1>1 DEF DailyInv, StatesInv
<1>3. MoneyInv'
  <2>1. MoneyInv /\ UNCHANGED states
    BY <1>1 DEF DailyInv
  <2> QED BY <2>1 DEF MoneyInv, Seen
<1>4. RollsInv'
  BY <1>1 DEF DailyInv, RollsInv, SeenNavs
<1>5. SizingInv'
  BY <1>1 DEF DailyInv, SizingInv, SnapshotAt, OrdersBy
<1>6. SizedWithinLimits'
  BY <1>1 DEF DailyInv, SizedWithinLimits, SnapshotAt, OrdersBy
<1> QED BY <1>2, <1>3, <1>4, <1>5, <1>6

LEMMA JudgeStep ==
  ASSUME DailyInv, NEW t \in Trades, Judge(t)
  PROVE  DailyInv'
<1>1. At("jobs") /\ t \in run.batch /\ run.got[t] = None
  BY DEF Judge
<1>2. /\ UNCHANGED <<outside, states, rolls>>
      /\ UNCHANGED <<day, market, sizing, sized, states, rolls, pinned, events, terminal, faults>>
  BY DEF Judge, outside, journal
<1>3. /\ run # None /\ run \in Attempt /\ run.session \in 1 .. day /\ run.session \in 0 .. Days
      /\ run.stage = "jobs" /\ JobsInv
      /\ states # <<>> => states[Len(states)].session < run.session
  BY <1>1, JobsAreAhead
<1>4. DailyTypeOK /\ day \in 0 .. Days /\ ledger \in [Trades -> Entry]
  BY DEF DailyInv, DailyTypeOK
<1>5. PICK v \in Verdict : v = ReplayOf(t, run.session) /\ v # None
  BY <1>3, <1>4, ReplayOfFacts
<1>6. /\ run' = [run EXCEPT !.got[t] = v]
      /\ ledger' = IF v.status \in Kept THEN [ledger EXCEPT ![t] = v] ELSE ledger
  BY <1>5 DEF Judge, ReplayOf, Kept
<1>7. PICK r : r = run'
  OBVIOUS
<1>8. /\ r \in Attempt /\ r.session = run.session /\ r.stage = "jobs" /\ r.batch = run.batch
      /\ r.got = [run.got EXCEPT ![t] = v] /\ run.got \in [Trades -> Entry]
  BY <1>3, <1>6, <1>7, WithVerdict, AttemptFields
<1>9. r.got[t] = v /\ \A u \in Trades \ {t} : r.got[u] = run.got[u]
  BY <1>8
<1>10. t \in Alerts /\ Waits(t) /\ run.batch \subseteq Trades
  BY <1>1, <1>3, AttemptFields DEF JobsInv
<1>11. /\ ledger' \in [Trades -> Entry] /\ ledger'[t] \in {v, ledger[t]}
       /\ v.status \in Kept => ledger'[t] = v
       /\ v.status \notin Kept => ledger'[t] = ledger[t]
       /\ \A u \in Trades \ {t} : ledger'[u] = ledger[u]
  BY <1>4, <1>5, <1>6 DEF Entry
<1>12. /\ ledger[t] # None /\ ledger[t].status # "CLOSED" /\ ledger'[t] # None
  BY <1>5, <1>10, <1>11 DEF Waits, ActiveIn
<1>13. VerdictsInv'
  <2>1. ASSUME NEW i \in 1 .. Len(states), NEW u \in Trades, states[i].positions[u] # None
        PROVE  /\ u \in Alerts
               /\ \E k \in 1 .. states[i].session : states[i].positions[u] = ReplayOf(u, k)
               /\ states[i].positions[u].status = "CLOSED" => ledger'[u] = states[i].positions[u]
    <3>1. /\ u \in Alerts
          /\ \E k \in 1 .. states[i].session : states[i].positions[u] = ReplayOf(u, k)
          /\ states[i].positions[u].status = "CLOSED" => ledger[u] = states[i].positions[u]
      BY <2>1 DEF DailyInv, VerdictsInv
    <3> QED BY <1>11, <1>12, <3>1
  <2>2. ASSUME NEW u \in Trades, ledger'[u] # None
        PROVE  \/ ledger'[u] = Alerted
               \/ u \in Alerts /\ \E k \in 1 .. day : ledger'[u] = ReplayOf(u, k)
    <3>1. ledger[u] # None => \/ ledger[u] = Alerted
                              \/ u \in Alerts /\ \E k \in 1 .. day : ledger[u] = ReplayOf(u, k)
      BY DEF DailyInv, VerdictsInv
    <3>2. CASE u = t
      BY <1>3, <1>5, <1>10, <1>11, <1>12, <3>1, <3>2
    <3>3. CASE u # t
      BY <1>11, <2>2, <3>1, <3>3
    <3> QED BY <3>2, <3>3
  <2> QED BY <1>2, <2>1, <2>2 DEF VerdictsInv, ReplayOf
<1>14. RunInv'
  <2>1. Behind(r.session)' /\ (r.batch \subseteq Alerts)' /\ (Carried \subseteq r.batch)'
    BY <1>2, <1>3, <1>8 DEF JobsInv, Behind, Carried
  <2>2. ASSUME NEW u \in Trades, ledger'[u] # None, ledger'[u].status = "OPEN" PROVE u \in r.batch
    <3>1. u # t => ledger[u] # None /\ ledger[u].status = "OPEN"
      BY <1>11, <2>2
    <3> QED BY <1>1, <1>3, <1>8, <3>1 DEF JobsInv
  <2>3. ASSUME NEW u \in r.batch, r.got[u] = None PROVE Waits(u)'
    <3>1. u \in Trades \ {t} /\ run.got[u] = None
      BY <1>5, <1>8, <1>9, <1>10, <2>3
    <3>2. Waits(u)
      BY <1>3, <1>8, <2>3, <3>1 DEF JobsInv
    <3> QED BY <1>11, <3>1, <3>2 DEF Waits
  <2>4. ASSUME NEW u \in Trades, r.got[u] # None
        PROVE  /\ u \in r.batch /\ r.got[u] = ReplayOf(u, r.session)
               /\ IF r.got[u].status \in Kept THEN ledger'[u] = r.got[u] ELSE Waits(u)'
    <3>1. CASE u = t
      <4>1. v.status \notin Kept => Waits(t)'
        BY <1>10, <1>11 DEF Waits
      <4> QED BY <1>1, <1>5, <1>8, <1>9, <1>11, <3>1, <4>1
    <3>2. CASE u # t
      <4>1. r.got[u] = run.got[u] /\ ledger'[u] = ledger[u]
        BY <1>9, <1>11, <3>2
      <4>2. /\ u \in run.batch /\ run.got[u] = ReplayOf(u, run.session)
            /\ IF run.got[u].status \in Kept THEN ledger[u] = run.got[u] ELSE Waits(u)
        BY <1>3, <2>4, <4>1 DEF JobsInv
      <4>3. Waits(u) => Waits(u)'
        BY <4>1 DEF Waits
      <4> QED BY <1>8, <4>1, <4>2, <4>3
    <3> QED BY <3>1, <3>2
  <2>5. JobsInv'
    BY <1>2, <1>7, <2>1, <2>2, <2>3, <2>4 DEF JobsInv, ReplayOf
  <2>6. run.session <= day /\ events[run.session] # <<>>
    BY <1>3 DEF DailyInv, RunInv
  <2> QED BY <1>2, <1>7, <1>8, <2>5, <2>6 DEF RunInv
<1>15. PinInv'
  BY <1>2 DEF DailyInv, PinInv
<1>16. StatesInv' /\ MoneyInv' /\ RollsInv' /\ SizingInv' /\ SizedWithinLimits'
  BY <1>2, ChainsKept
<1>17. BookInv'
  <2>1. ~(states # <<>> /\ states[Len(states)].session = day)
    <3>1. states # <<>> => states[Len(states)].session \in Sessions
      BY <1>4, LastState, StateAt, StateFields
    <3> QED BY <1>3, <1>4, <3>1, BookFacts
  <2> QED BY <1>2, <2>1 DEF BookInv
<1>18. DailyTypeOK'
  BY <1>2, <1>4, <1>7, <1>8, <1>11 DEF DailyTypeOK
<1> QED BY <1>13, <1>14, <1>15, <1>16, <1>17, <1>18 DEF DailyInv

-----------------------------------------------------------------------------
(* A state is stored.                                                      *)

LEMMA StateAppended ==
  ASSUME DailyTypeOK, NEW st \in State, states' = Append(states, st)
  PROVE  /\ states' \in Seq(State) /\ states' # <<>> /\ Len(states) \in Nat
         /\ Len(states') = Len(states) + 1 /\ states'[Len(states) + 1] = st
         /\ \A i \in 1 .. Len(states) : states'[i] = states[i]
         /\ \A i \in 1 .. Len(states') : i \in 1 .. Len(states) \/ i = Len(states) + 1
<1>1. states \in Seq(State) /\ Len(states) \in Nat
  BY DEF DailyTypeOK
<1>2. /\ states' \in Seq(State) /\ Len(states') = Len(states) + 1
      /\ states'[Len(states) + 1] = st
      /\ \A i \in 1 .. Len(states) : states'[i] = states[i]
  BY <1>1, AppendProperties
<1>3. states' # <<>>
  BY <1>1, <1>2
<1>4. \A i \in 1 .. Len(states') : i \in 1 .. Len(states) \/ i = Len(states) + 1
  BY <1>1, <1>2
<1> QED BY <1>1, <1>2, <1>3, <1>4

\* One state more leaves the rollovers and the orders as they are.
LEMMA LongerChain ==
  ASSUME DailyInv, NEW st \in State, states' = Append(states, st),
         UNCHANGED <<day, market, sizing, sized, ledger, rolls>>
  PROVE  RollsInv' /\ SizingInv' /\ SizedWithinLimits'
<1>1. DailyTypeOK /\ RollsInv /\ SizingInv
  BY DEF DailyInv
<1>2. /\ Len(states) \in Nat /\ Len(states') = Len(states) + 1
      /\ \A i \in 1 .. Len(states) : states'[i] = states[i]
  BY <1>1, StateAppended
<1>3. Len(rolls) \in Nat /\ Len(rolls) <= Len(states)
  BY <1>1 DEF RollsInv, DailyTypeOK
<1>4. \A i \in 1 .. Len(rolls) : i \in 1 .. Len(states) /\ states'[i] = states[i]
  BY <1>2, <1>3
<1>5. RollsInv'
  <2>1. ASSUME NEW i \in 1 .. Len(rolls) PROVE SeenNavs(i)' = SeenNavs(i)
    <3>1. \A j \in 1 .. i : states'[j] = states[j]
      BY <1>3, <1>4
    <3>2. {Nav(states'[j], market) : j \in 1 .. i} = {Nav(states[j], market) : j \in 1 .. i}
      BY <3>1
    <3> QED BY <3>2 DEF SeenNavs
  <2>2. ASSUME NEW i \in 1 .. Len(rolls)
        PROVE  /\ rolls[i].state = i /\ RolledAs(rolls[i], states'[i], market)
               /\ rolls[i].peakNav \in SeenNavs(i)'
               /\ \A n \in SeenNavs(i)' : n \in Int /\ n <= rolls[i].peakNav
    BY <1>1, <1>4, <2>1 DEF RollsInv
  <2>3. Len(rolls) <= Len(states')
    BY <1>2, <1>3
  <2> QED BY <2>2, <2>3 DEF RollsInv
<1>6. SizingInv'
  BY <1>1 DEF SizingInv, SnapshotAt, OrdersBy
<1>7. SizedWithinLimits'
  BY DEF DailyInv, SizedWithinLimits, SnapshotAt, OrdersBy
<1> QED BY <1>5, <1>6, <1>7

\* The positions of the next state.
NextPositions == [t \in Trades |-> IF t \in run.batch THEN run.got[t] ELSE PriorPositions[t]]

LEMMA PriorFacts ==
  ASSUME DailyInv
  PROVE  /\ PriorPositions \in [Trades -> Entry] /\ PriorCumulative \in Int /\ PriorPeak \in Nat
         /\ PriorCumulative = SumFunction([t \in StatusIn(PriorPositions, "CLOSED") |->
                                             Pnl(t, PriorPositions[t])])
         /\ PriorPeak \in Seen(Len(states)) /\ \A c \in Seen(Len(states)) : c <= PriorPeak
         /\ \A t \in Trades : PriorPositions[t] # None =>
              /\ states # <<>> /\ t \in Alerts
              /\ \E k \in 1 .. states[Len(states)].session : PriorPositions[t] = ReplayOf(t, k)
              /\ PriorPositions[t].status = "CLOSED" => ledger[t] = PriorPositions[t]
<1>1. DailyTypeOK
  BY DEF DailyInv
<1>2. CASE states = <<>>
  <2>1. PriorPositions = [t \in Trades |-> None] /\ PriorCumulative = 0 /\ PriorPeak = 0
    BY <1>2 DEF PriorPositions, PriorCumulative, PriorPeak
  <2>2. StatusIn(PriorPositions, "CLOSED") = {} /\ PriorPositions \in [Trades -> Entry]
    BY <2>1 DEF StatusIn, Entry
  <2>3. Len(states) = 0 /\ Seen(Len(states)) = {0}
    BY <1>2 DEF Seen
  <2>4. SumFunction([t \in StatusIn(PriorPositions, "CLOSED") |-> Pnl(t, PriorPositions[t])]) = 0
    BY <2>2, TotalEmpty
  <2> QED BY <2>1, <2>2, <2>3, <2>4
<1>3. CASE states # <<>>
  <2>1. PICK n \in 1 .. Len(states) : n = Len(states) /\ Last(states) = states[n]
    BY <1>1, <1>3, LastState
  <2>2. PICK st \in State : st = states[n]
    BY <1>1, <2>1, StateAt
  <2>3. /\ PriorPositions = st.positions /\ PriorCumulative = st.cumulative
        /\ PriorPeak = st.peak
    BY <1>3, <2>1, <2>2 DEF PriorPositions, PriorCumulative, PriorPeak
  <2>4. /\ st.cumulative = ClosedMoney(st)
        /\ st.peak \in Seen(n) /\ \A c \in Seen(n) : c <= st.peak
    BY <2>1, <2>2 DEF DailyInv, MoneyInv
  <2>5. \A t \in Trades : st.positions[t] # None =>
          /\ t \in Alerts
          /\ \E k \in 1 .. st.session : st.positions[t] = ReplayOf(t, k)
          /\ st.positions[t].status = "CLOSED" => ledger[t] = st.positions[t]
    BY <2>1, <2>2 DEF DailyInv, VerdictsInv
  <2>6. st.positions \in [Trades -> Entry] /\ st.cumulative \in Int /\ st.peak \in Nat
    BY <2>2, StateFields
  <2>7. PriorCumulative = SumFunction([t \in StatusIn(PriorPositions, "CLOSED") |->
                                             Pnl(t, PriorPositions[t])])
    BY <2>3, <2>4 DEF ClosedMoney
  <2> QED BY <1>3, <2>1, <2>2, <2>3, <2>4, <2>5, <2>6, <2>7
<1> QED BY <1>2, <1>3

\* What a state keeps of the last: what it had closed.
LEMMA NextFacts ==
  ASSUME DailyInv, At("jobs"), \A t \in run.batch : run.got[t] # None
  PROVE  /\ NextPositions \in [Trades -> Entry]
         /\ \A t \in StatusIn(PriorPositions, "CLOSED") : NextPositions[t] = PriorPositions[t]
         /\ StatusIn(PriorPositions, "CLOSED") \subseteq StatusIn(NextPositions, "CLOSED")
         /\ \A t \in Trades : NextPositions[t] # None =>
              /\ t \in Alerts
              /\ \E k \in 1 .. run.session : NextPositions[t] = ReplayOf(t, k)
              /\ NextPositions[t].status = "CLOSED" => ledger[t] = NextPositions[t]
              /\ NextPositions[t].status = "OPEN" =>
                   ledger[t] = NextPositions[t] /\ NextPositions[t] = ReplayOf(t, run.session)
         /\ \A t \in Trades : ledger[t] # None /\ ledger[t].status = "OPEN" =>
              NextPositions[t] # None /\ NextPositions[t].status \in {"OPEN", "WAITING", "BLOCKED"}
<1>1. /\ run \in Attempt /\ run.session \in 1 .. day /\ JobsInv
      /\ states # <<>> => states[Len(states)].session < run.session
  BY JobsAreAhead
<1>2. DailyTypeOK /\ run.batch \subseteq Trades /\ run.got \in [Trades -> Entry]
  BY <1>1, AttemptFields DEF DailyInv
<1>3. /\ PriorPositions \in [Trades -> Entry]
      /\ \A t \in Trades : PriorPositions[t] # None =>
              /\ states # <<>> /\ t \in Alerts
              /\ \E k \in 1 .. states[Len(states)].session : PriorPositions[t] = ReplayOf(t, k)
              /\ PriorPositions[t].status = "CLOSED" => ledger[t] = PriorPositions[t]
  BY PriorFacts
<1>4. PICK P, Q : P = NextPositions /\ Q = PriorPositions
  OBVIOUS
<1>5. \A t \in Trades : P[t] = IF t \in run.batch THEN run.got[t] ELSE Q[t]
  BY <1>4 DEF NextPositions
<1>6. P \in [Trades -> Entry]
  BY <1>2, <1>3, <1>4 DEF NextPositions
<1>7. \A t \in run.batch :
        /\ P[t] = ReplayOf(t, run.session) /\ P[t] # None /\ t \in Alerts
        /\ IF P[t].status \in Kept THEN ledger[t] = P[t] ELSE Waits(t)
  BY <1>1, <1>2, <1>5 DEF JobsInv
<1>8. \A t \in Trades : P[t] # None => P[t] \in Verdict
  BY <1>6 DEF Entry
<1>9. ASSUME NEW t \in StatusIn(Q, "CLOSED") PROVE P[t] = Q[t]
  <2>1. t \in Trades /\ Q[t] # None /\ Q[t].status = "CLOSED"
    BY <1>9 DEF StatusIn
  <2>2. ledger[t] = Q[t]
    BY <1>3, <1>4, <2>1
  <2>3. ~Waits(t)
    BY <2>1, <2>2 DEF Waits, ActiveIn
  <2> QED BY <1>5, <1>7, <2>1, <2>2, <2>3
<1>10. StatusIn(Q, "CLOSED") \subseteq StatusIn(P, "CLOSED")
  BY <1>9 DEF StatusIn
<1>11. ASSUME NEW t \in Trades, P[t] # None
       PROVE  /\ t \in Alerts
              /\ \E k \in 1 .. run.session : P[t] = ReplayOf(t, k)
              /\ P[t].status = "CLOSED" => ledger[t] = P[t]
              /\ P[t].status = "OPEN" => ledger[t] = P[t] /\ P[t] = ReplayOf(t, run.session)
  <2>1. CASE t \in run.batch
    BY <1>1, <1>7, <2>1 DEF Kept
  <2>2. CASE t \notin run.batch
    <3>1. P[t] = Q[t]
      BY <1>5, <2>2
    <3>2. /\ states # <<>> /\ t \in Alerts
          /\ \E k \in 1 .. states[Len(states)].session : Q[t] = ReplayOf(t, k)
          /\ Q[t].status = "CLOSED" => ledger[t] = Q[t]
      BY <1>3, <1>4, <1>11, <3>1
    <3>3. states[Len(states)].session \in Nat
      BY <1>2, <3>2, LastState, StateAt, StateFields, BookFacts
    <3>4. \A k \in 1 .. states[Len(states)].session : k \in 1 .. run.session
      BY <1>1, <3>2, <3>3
    <3>5. P[t].status # "OPEN"
      <4>1. Q = Last(states).positions
        BY <1>4, <3>2 DEF PriorPositions
      <4>2. Q[t].status = "OPEN" => t \in Carried
        BY <1>11, <3>1, <3>2, <4>1 DEF Carried, Unresolved
      <4>3. Carried \subseteq run.batch
        BY <1>1 DEF JobsInv
      <4> QED BY <2>2, <3>1, <4>2, <4>3
    <3> QED BY <3>1, <3>2, <3>4, <3>5
  <2> QED BY <2>1, <2>2
<1>12. ASSUME NEW t \in Trades, ledger[t] # None, ledger[t].status = "OPEN"
       PROVE  P[t] # None /\ P[t].status \in {"OPEN", "WAITING", "BLOCKED"}
  <2>1. t \in run.batch
    BY <1>1, <1>12 DEF JobsInv
  <2>2. P[t] \in Verdict /\ P[t] # None
    BY <1>7, <1>8, <1>12, <2>1
  <2>3. P[t].status \in {"WAITING", "EXPIRED", "OPEN", "BLOCKED", "CLOSED"}
    BY <2>2, VerdictFields
  <2>4. P[t].status \in Kept => P[t].status = "OPEN"
    BY <1>7, <1>12, <2>1
  <2> QED BY <2>2, <2>3, <2>4 DEF Kept
<1> QED BY <1>4, <1>6, <1>9, <1>10, <1>11, <1>12

\* The money of the next state: what was closed before, and what it closes.
LEMMA NextMoney ==
  ASSUME DailyInv, At("jobs"), \A t \in run.batch : run.got[t] # None,
         NEW daily, daily = SumFunction([t \in NewlyClosed(PriorPositions, NextPositions) |->
                                           Pnl(t, NextPositions[t])])
  PROVE  /\ daily \in Int
         /\ PriorCumulative + daily = SumFunction([t \in StatusIn(NextPositions, "CLOSED") |->
                                                     Pnl(t, NextPositions[t])])
<1>1. PICK P, Q : P = NextPositions /\ Q = PriorPositions
  OBVIOUS
<1>2. /\ P \in [Trades -> Entry] /\ Q \in [Trades -> Entry]
      /\ \A t \in StatusIn(Q, "CLOSED") : P[t] = Q[t]
      /\ StatusIn(Q, "CLOSED") \subseteq StatusIn(P, "CLOSED")
      /\ PriorCumulative = SumFunction([t \in StatusIn(Q, "CLOSED") |-> Pnl(t, Q[t])])
  BY <1>1, NextFacts, PriorFacts
<1>3. PICK S, T, R : /\ S = StatusIn(Q, "CLOSED") /\ T = NewlyClosed(Q, P)
                     /\ R = StatusIn(P, "CLOSED")
  OBVIOUS
<1>4. S \cup T = R /\ S \cap T = {} /\ S \subseteq R /\ T \subseteq R
  BY <1>2, <1>3 DEF NewlyClosed
<1> DEFINE f == [t \in S |-> Pnl(t, Q[t])]
           g == [t \in T |-> Pnl(t, P[t])]
           h == [t \in R |-> Pnl(t, P[t])]
<1>5. IsFiniteSet(S) /\ f \in [S -> Int]
  BY <1>2, <1>3, ClosedMoneyType
<1>6. IsFiniteSet(T) /\ g \in [T -> Int] /\ SumFunction(g) \in Int
  BY <1>2, <1>3, <1>4, ClosedMoneyType
<1>7. h \in [R -> Int]
  BY <1>2, <1>3, <1>4, ClosedMoneyType
<1>8. (\A t \in S : h[t] = f[t]) /\ (\A t \in T : h[t] = g[t])
  BY <1>2, <1>3, <1>4
<1>9. daily = SumFunction(g) /\ PriorCumulative = SumFunction(f)
  BY <1>1, <1>2, <1>3
<1>10. SumFunction(h) = SumFunction(f) + SumFunction(g)
  <2>1. DOMAIN f = S /\ DOMAIN g = T /\ DOMAIN h = R /\ S \subseteq R /\ T = R \ S
    BY <1>4
  <2>2. IsFiniteSet(R) /\ \A t \in R : h[t] \in Int
    BY <1>2, <1>3, <1>7, StatusFacts
  <2> HIDE DEF f, g, h
  <2> QED BY <1>8, <2>1, <2>2, TotalUnion
<1> QED BY <1>1, <1>3, <1>6, <1>9, <1>10

LEMMA PutStateStep ==
  ASSUME DailyInv, PutState
  PROVE  DailyInv'
<1>1. At("jobs") /\ \A t \in run.batch : run.got[t] # None
  BY DEF PutState
<1>2. /\ UNCHANGED <<day, market, sizing, sized, ledger, rolls>>
      /\ UNCHANGED <<pinned, events, terminal, faults>>
  BY DEF PutState, outside, journal
<1>3. /\ run # None /\ run \in Attempt /\ run.session \in 1 .. day /\ run.session \in 0 .. Days
      /\ run.stage = "jobs" /\ JobsInv
      /\ states # <<>> => states[Len(states)].session < run.session
  BY <1>1, JobsAreAhead
<1>4. DailyTypeOK /\ day \in 0 .. Days /\ run.session \in Sessions
  BY <1>3, AttemptFields DEF DailyInv, DailyTypeOK
<1>5. /\ NextPositions \in [Trades -> Entry]
      /\ \A t \in Trades : NextPositions[t] # None =>
              /\ t \in Alerts
              /\ \E k \in 1 .. run.session : NextPositions[t] = ReplayOf(t, k)
              /\ NextPositions[t].status = "CLOSED" => ledger[t] = NextPositions[t]
              /\ NextPositions[t].status = "OPEN" =>
                   ledger[t] = NextPositions[t] /\ NextPositions[t] = ReplayOf(t, run.session)
      /\ \A t \in Trades : ledger[t] # None /\ ledger[t].status = "OPEN" =>
           NextPositions[t] # None /\ NextPositions[t].status \in {"OPEN", "WAITING", "BLOCKED"}
  BY <1>1, NextFacts
<1>6. PICK daily \in Int, cumulative \in Int :
        /\ daily = SumFunction([t \in NewlyClosed(PriorPositions, NextPositions) |->
                                  Pnl(t, NextPositions[t])])
        /\ cumulative = PriorCumulative + daily
        /\ cumulative = SumFunction([t \in StatusIn(NextPositions, "CLOSED") |->
                                       Pnl(t, NextPositions[t])])
  <2>1. PICK daily : daily = SumFunction([t \in NewlyClosed(PriorPositions, NextPositions) |->
                                  Pnl(t, NextPositions[t])])
    OBVIOUS
  <2>2. /\ daily \in Int
        /\ PriorCumulative + daily = SumFunction([t \in StatusIn(NextPositions, "CLOSED") |->
                                                     Pnl(t, NextPositions[t])])
    BY <1>1, <2>1, NextMoney
  <2>3. PriorCumulative \in Int
    BY PriorFacts
  <2> QED BY <2>1, <2>2, <2>3
<1>7. PICK peak \in Nat :
        /\ peak = NextPeak(PriorPeak, cumulative) /\ peak >= cumulative
        /\ peak = cumulative \/ peak \in Seen(Len(states))
        /\ \A c \in Seen(Len(states)) : c <= peak
  <2>1. /\ PriorPeak \in Nat /\ PriorPeak \in Seen(Len(states))
        /\ \A c \in Seen(Len(states)) : c <= PriorPeak
    BY PriorFacts
  <2>2. \A c \in Seen(Len(states)) : c \in Int
    BY <1>4, StateAt, StateFields DEF Seen
  <2> QED BY <2>1, <2>2 DEF NextPeak, Greatest
<1>8. PICK st : st = [session |-> run.session, positions |-> NextPositions, daily |-> daily,
                      cumulative |-> cumulative, peak |-> peak]
  OBVIOUS
<1>9. /\ st \in State /\ st.session = run.session /\ st.positions = NextPositions
      /\ st.cumulative = cumulative /\ st.peak = peak
  <2>1. st \in State
    BY <1>4, <1>5, <1>8 DEF State
  <2> QED BY <1>8, <2>1
<1>10. states' = Append(states, st)
  BY <1>6, <1>7, <1>8 DEF PutState, NextPositions
<1>11. PICK n \in Nat : n = Len(states)
  BY <1>4 DEF DailyTypeOK
<1>12. /\ states' \in Seq(State) /\ states' # <<>> /\ Len(states') = n + 1
       /\ states'[n + 1] = st /\ \A i \in 1 .. n : states'[i] = states[i]
       /\ \A i \in 1 .. Len(states') : i \in 1 .. n \/ i = n + 1
  BY <1>4, <1>9, <1>10, <1>11, StateAppended
<1>13. PICK r : r = run'
  OBVIOUS
<1>14. r \in Attempt /\ r.session = run.session /\ r.stage = "roll"
  BY <1>3, <1>13, AtStage DEF PutState, Stages
<1>15. StatesInv'
  <2>1. ASSUME NEW i \in 1 .. n
        PROVE  /\ i <= states[i].session /\ states[i].session <= day
               /\ states[i].session < run.session
    <3>1. states # <<>> /\ n \in 1 .. n /\ states[i].session \in Nat /\ states[n].session \in Nat
      BY <1>4, <1>11, StateAt, StateFields, BookFacts
    <3>2. i <= states[i].session /\ states[i].session <= day
      BY <1>11 DEF DailyInv, StatesInv
    <3>3. i < n => states[i].session < states[n].session
      BY <1>11, <3>1 DEF DailyInv, StatesInv
    <3> QED BY <1>3, <1>11, <3>1, <3>2, <3>3
  <2>2. n + 1 <= run.session
    <3>1. n # 0 => n \in 1 .. n /\ n <= states[n].session /\ states[n].session < run.session
      BY <2>1
    <3>2. n # 0 => states[n].session \in Nat
      BY <1>4, <1>11, StateAt, StateFields, BookFacts
    <3> QED BY <1>3, <3>1, <3>2
  <2>3. \A i \in 1 .. Len(states') : i <= states'[i].session /\ states'[i].session <= day
    BY <1>3, <1>9, <1>12, <2>1, <2>2
  <2>4. ASSUME NEW i \in 1 .. Len(states'), NEW j \in 1 .. Len(states'), i < j
        PROVE  states'[i].session < states'[j].session
    <3>1. i \in 1 .. n
      BY <1>12, <2>4
    <3>2. CASE j \in 1 .. n
      BY <1>11, <1>12, <2>4, <3>1, <3>2 DEF DailyInv, StatesInv
    <3>3. CASE j = n + 1
      BY <1>9, <1>12, <2>1, <3>1, <3>3
    <3> QED BY <1>12, <3>2, <3>3
  <2> QED BY <1>2, <2>3, <2>4 DEF StatesInv
<1>16. VerdictsInv'
  <2>1. ASSUME NEW i \in 1 .. Len(states'), NEW t \in Trades, states'[i].positions[t] # None
        PROVE  /\ t \in Alerts
               /\ \E k \in 1 .. states'[i].session : states'[i].positions[t] = ReplayOf(t, k)
               /\ states'[i].positions[t].status = "CLOSED" => ledger[t] = states'[i].positions[t]
    <3>1. CASE i \in 1 .. n
      BY <1>11, <1>12, <2>1, <3>1 DEF DailyInv, VerdictsInv
    <3>2. CASE i = n + 1
      BY <1>5, <1>9, <1>12, <2>1, <3>2
    <3> QED BY <1>12, <3>1, <3>2
  <2> QED BY <1>2, <2>1 DEF DailyInv, VerdictsInv, ReplayOf
<1>17. RunInv'
  <2>1. run.session <= day /\ events[run.session] # <<>> /\ Len(rolls) \in Nat /\ Len(rolls) <= n
    BY <1>3, <1>4, <1>11 DEF DailyInv, RunInv, RollsInv, DailyTypeOK
  <2>2. Len(rolls') < Len(states') /\ states'[Len(states')].session = r.session
    BY <1>2, <1>9, <1>12, <1>14, <2>1
  <2> QED BY <1>2, <1>13, <1>14, <2>1, <2>2 DEF RunInv
<1>18. PinInv'
  BY <1>2 DEF DailyInv, PinInv
<1>19. MoneyInv'
  <2>1. \A i \in 1 .. n : Seen(i)' = Seen(i)
    <3> TAKE i \in 1 .. n
    <3>1. \A j \in 1 .. i : states'[j] = states[j]
      BY <1>12
    <3>2. {states'[j].cumulative : j \in 1 .. i} = {states[j].cumulative : j \in 1 .. i}
      BY <3>1
    <3> QED BY <3>2 DEF Seen
  <2>2. Seen(n + 1)' = Seen(n) \cup {cumulative}
    <3>1. {states'[j].cumulative : j \in 1 .. n + 1} =
            {states[j].cumulative : j \in 1 .. n} \cup {cumulative}
      <4>1. 1 .. n + 1 = 1 .. n \cup {n + 1}
        OBVIOUS
      <4> QED BY <1>9, <1>12, <4>1
    <3> QED BY <3>1 DEF Seen
  <2>3. ASSUME NEW i \in 1 .. Len(states')
        PROVE  /\ states'[i].cumulative = ClosedMoney(states'[i])
               /\ states'[i].peak \in Seen(i)' /\ \A c \in Seen(i)' : c <= states'[i].peak
    <3>1. CASE i \in 1 .. n
      BY <1>11, <1>12, <2>1, <3>1 DEF DailyInv, MoneyInv
    <3>2. CASE i = n + 1
      <4>1. st.cumulative = ClosedMoney(st)
        BY <1>6, <1>9 DEF ClosedMoney
      <4>2. st.peak \in Seen(n + 1)' /\ \A c \in Seen(n + 1)' : c <= st.peak
        BY <1>7, <1>9, <1>11, <2>2
      <4> QED BY <1>12, <3>2, <4>1, <4>2
    <3> QED BY <1>12, <3>1, <3>2
  <2> QED BY <2>3 DEF MoneyInv
<1>20. RollsInv' /\ SizingInv' /\ SizedWithinLimits'
  BY <1>2, <1>9, <1>10, LongerChain
<1>21. BookInv'
  <2>1. states'[Len(states')].session = day => run.session = day
    BY <1>9, <1>12
  <2>2. ASSUME run.session = day, NEW t \in Trades, NEW v, v = states'[Len(states')].positions[t]
        PROVE  /\ v # None /\ v.status = "OPEN" => ledger[t] = v /\ v = ReplayOf(t, day)
               /\ ledger[t] # None /\ ledger[t].status = "OPEN" =>
                    v # None /\ v.status \in {"OPEN", "WAITING", "BLOCKED"}
    <3>1. v = NextPositions[t]
      BY <1>9, <1>12, <2>2
    <3> QED BY <1>5, <2>2, <3>1
  <2> QED BY <1>2, <2>1, <2>2 DEF BookInv, ReplayOf
<1>22. DailyTypeOK'
  BY <1>2, <1>4, <1>12, <1>13, <1>14 DEF DailyTypeOK
<1> QED BY <1>15, <1>16, <1>17, <1>18, <1>19, <1>20, <1>21, <1>22 DEF DailyInv

-----------------------------------------------------------------------------
(* A state is rolled over.                                                 *)

LEMMA OpenFacts ==
  ASSUME NEW st \in State
  PROVE  /\ Open(st) \subseteq Trades /\ IsFiniteSet(Open(st)) /\ Cardinality(Open(st)) \in Nat
         /\ \A t \in Open(st) : st.positions[t] \in Verdict
BY StateFields, StatusFacts DEF Open

LEMMA CashType ==
  ASSUME NEW st \in State
  PROVE  /\ Cash(st) \in Int
         /\ [t \in Open(st) |-> Spent(t, st.positions[t])] \in [Open(st) -> Int]
         /\ SumFunction([t \in Open(st) |-> Spent(t, st.positions[t])]) \in Int
<1>1. [t \in Open(st) |-> Spent(t, st.positions[t])] \in [Open(st) -> Int]
  BY OpenFacts, SpentType
<1>2. SumFunction([t \in Open(st) |-> Spent(t, st.positions[t])]) \in Int
  BY <1>1, OpenFacts, TotalType
<1> QED BY <1>1, <1>2, StateFields, BookFacts DEF Cash

LEMMA RiskType ==
  ASSUME NEW st \in State
  PROVE  OpenRisk(st) \in Nat
<1>1. [t \in Open(st) |-> Planned(t)] \in [Open(st) -> Nat]
  BY OpenFacts, PlannedType
<1>2. [t \in Open(st) |-> Planned(t)] \in [Open(st) -> Int]
  BY <1>1
<1> QED BY <1>1, <1>2, OpenFacts, TotalType DEF OpenRisk

LEMMA GrossType ==
  ASSUME NEW st \in State, NEW bars, \A t \in Open(st) : SoundBar(bars[t][st.session])
  PROVE  /\ Gross(st, bars) \in Nat /\ Nav(st, bars) \in Int
         /\ [t \in Open(st) |-> Marked(t, bars[t][st.session])] \in [Open(st) -> Int]
<1>1. [t \in Open(st) |-> Marked(t, bars[t][st.session])] \in [Open(st) -> Nat]
  BY OpenFacts, MarkedType
<1>2. [t \in Open(st) |-> Marked(t, bars[t][st.session])] \in [Open(st) -> Int]
  BY <1>1
<1>3. Gross(st, bars) \in Nat
  BY <1>1, <1>2, OpenFacts, TotalType DEF Gross
<1>4. Nav(st, bars) \in Int
  <2>1. Cash(st) \in Int
    BY CashType
  <2> QED BY <1>3, <2>1 DEF Nav
<1> QED BY <1>2, <1>3, <1>4

LEMMA SnapshotMade ==
  ASSUME NEW st \in State, NEW bars, \A t \in Open(st) : SoundBar(bars[t][st.session]),
         Safe(st, bars)
  PROVE  SnapshotOf(st, bars) \in Snapshot
<1>1. Cash(st) \in Nat /\ Nav(st, bars) \in Nat \ {0}
  <2>1. Cash(st) \in Int
    BY CashType
  <2>2. Nav(st, bars) \in Int
    BY GrossType
  <2> QED BY <2>1, <2>2 DEF Safe
<1>2. /\ Gross(st, bars) \in Nat /\ OpenRisk(st) \in Nat /\ Cardinality(Open(st)) \in Nat
      /\ st.daily \in Int /\ st.cumulative \in Int
  BY GrossType, RiskType, OpenFacts, StateFields
<1> QED BY <1>1, <1>2 DEF SnapshotOf, Snapshot

\* A rollover is of the first state that has none: the one it names is of the
\* state before, and that is the last.
LEMMA NextInLine ==
  ASSUME DailyInv, At("roll"), pinned[run.session] # -1, Follows(pinned[run.session])
  PROVE  /\ pinned[run.session] = Len(rolls) /\ Len(states) = Len(rolls) + 1
         /\ Len(rolls) \in Nat /\ states # <<>>
         /\ states[Len(states)].session = run.session
<1>1. run # None /\ run.stage = "roll" /\ DailyTypeOK
  BY DEF At, DailyInv
<1>2. run.session \in Sessions
  BY <1>1, RunFacts, AttemptFields
<1>3. /\ events[run.session] # <<>> /\ Len(rolls) < Len(states)
      /\ states[Len(states)].session = run.session
  BY <1>1 DEF DailyInv, RunInv
<1>4. PICK p : p = pinned[run.session]
  OBVIOUS
<1>5. p \in 0 .. Len(rolls) /\ Len(rolls) \in Nat /\ Len(states) \in Nat
  <2>1. p \in -1 .. Len(rolls)
    BY <1>2, <1>3, <1>4 DEF DailyInv, PinInv
  <2> QED BY <1>1, <1>4, <2>1 DEF DailyTypeOK
<1>6. pinned[run.session] = Len(rolls) /\ Len(states) = Len(rolls) + 1 /\ Len(rolls) \in Nat
  <2>1. CASE p = 0
    <3>1. Len(states) = 1
      BY <1>4, <2>1 DEF Follows
    <3>2. Len(rolls) = 0
      BY <1>3, <1>5, <3>1
    <3> QED BY <1>4, <2>1, <3>1, <3>2
  <2>2. CASE p # 0
    <3>1. rolls[p].state = Len(states) - 1
      BY <1>4, <2>2 DEF Follows
    <3>2. rolls[p].state = p
      BY <1>5, <2>2 DEF DailyInv, RollsInv
    <3> QED BY <1>3, <1>4, <1>5, <3>1, <3>2
  <2> QED BY <2>1, <2>2
<1>7. states # <<>>
  BY <1>3, <1>5
<1> QED BY <1>3, <1>6, <1>7

LEMMA RollStep ==
  ASSUME DailyInv, Roll
  PROVE  DailyInv'
<1>1. /\ At("roll") /\ pinned[run.session] # -1 /\ Markable /\ Follows(pinned[run.session])
      /\ Safe(Last(states), market)
  BY DEF Roll, Rollable
<1>2. /\ UNCHANGED <<day, market, sizing, sized, ledger, states>>
      /\ UNCHANGED <<pinned, events, terminal, faults>>
  BY DEF Roll, outside, journal
<1>3. DailyTypeOK /\ run # None /\ run \in Attempt
  BY <1>1, RunFacts DEF DailyInv, At
<1>4. PICK k \in Nat :
        /\ k = Len(rolls) /\ pinned[run.session] = k /\ Len(states) = k + 1
        /\ states # <<>> /\ states[k + 1].session = run.session
  BY <1>1, NextInLine
<1>5. PICK st \in State : st = states[k + 1] /\ Last(states) = st
  BY <1>3, <1>4, LastState, StateAt
<1>6. Safe(st, market) /\ st.session = run.session /\ st.session \in Sessions
  BY <1>1, <1>4, <1>5, StateFields
<1>7. /\ StatusIn(st.positions, "WAITING") = {} /\ StatusIn(st.positions, "BLOCKED") = {}
      /\ \A t \in Open(st) : market[t][st.session] # NoBar
  BY <1>1, <1>5, <1>6 DEF Markable, Open
<1>8. \A t \in Open(st) : SoundBar(market[t][st.session])
  BY <1>3, <1>6, <1>7, OpenFacts DEF DailyTypeOK
<1>9. SnapshotOf(st, market) \in Snapshot /\ Nav(st, market) \in Int /\ Nav(st, market) > 0
  <2>1. Nav(st, market) > 0
    BY <1>6 DEF Safe
  <2> QED BY <1>6, <1>8, <2>1, SnapshotMade, GrossType
<1>10. PICK prior \in Nat :
         /\ prior = IF k = 0 THEN Capital ELSE rolls[k].peakNav
         /\ prior \in SeenNavs(k) /\ \A n \in SeenNavs(k) : n \in Int /\ n <= prior
  <2>1. CASE k = 0
    <3>1. SeenNavs(0) = {Capital}
      BY DEF SeenNavs
    <3> QED BY <2>1, <3>1, BookFacts
  <2>2. CASE k # 0
    <3>1. k \in 1 .. Len(rolls)
      BY <1>4, <2>2
    <3>2. rolls[k] \in Rollover
      BY <1>3, <3>1 DEF DailyTypeOK
    <3>3. rolls[k].peakNav \in Nat
      BY <3>2 DEF Rollover
    <3> QED BY <2>2, <3>1, <3>3 DEF DailyInv, RollsInv
  <2> QED BY <2>1, <2>2
<1>11. PICK peak \in Nat :
         /\ peak = Greatest(prior, Nav(st, market)) /\ peak >= prior /\ peak >= Nav(st, market)
         /\ peak = prior \/ peak = Nav(st, market)
  BY <1>9, <1>10 DEF Greatest
<1>12. PICK roll : roll = [state |-> k + 1, snapshot |-> SnapshotOf(st, market), peakNav |-> peak]
  OBVIOUS
<1>13. /\ roll \in Rollover /\ roll.state = k + 1 /\ roll.snapshot = SnapshotOf(st, market)
       /\ roll.peakNav = peak
  <2>1. roll \in Rollover
    BY <1>4, <1>9, <1>11, <1>12 DEF Rollover
  <2> QED BY <1>12, <2>1
<1>14. rolls' = Append(rolls, roll)
  BY <1>4, <1>5, <1>10, <1>11, <1>12 DEF Roll
<1>15. /\ rolls' \in Seq(Rollover) /\ Len(rolls') = k + 1 /\ rolls'[k + 1] = roll
       /\ \A i \in 1 .. k : rolls'[i] = rolls[i]
  <2>1. rolls \in Seq(Rollover)
    BY <1>3 DEF DailyTypeOK
  <2> QED BY <1>4, <1>13, <1>14, <2>1, AppendProperties
<1>16. PICK r : r = run'
  OBVIOUS
<1>17. r \in Attempt /\ r.session = run.session /\ r.stage = "seal"
  <2>1. [Done EXCEPT !.rollover = Len(rolls) + 1] \in Terminal
    <3>1. Len(states) \in Nat /\ Len(rolls) + 1 \in Nat
      BY <1>4
    <3> QED BY <3>1, DoneType
  <2>2. PICK output \in Terminal : output = [Done EXCEPT !.rollover = Len(rolls) + 1]
    BY <2>1
  <2>3. r = [run EXCEPT !.stage = "seal", !.output = output] /\ "seal" \in Stages
    BY <1>16, <2>2 DEF Roll, Stages
  <2> QED BY <1>3, <2>3, WithOutput
<1>18. \A on \in 0 .. k : SnapshotAt(on)' = SnapshotAt(on)
  <2> TAKE on \in 0 .. k
  <2>1. on # 0 => on \in 1 .. k
    BY <1>4
  <2> QED BY <1>15, <2>1 DEF SnapshotAt
<1>19. StatesInv' /\ VerdictsInv' /\ MoneyInv' /\ BookInv'
  <2>1. StatesInv'
    BY <1>2 DEF DailyInv, StatesInv
  <2>2. VerdictsInv'
    BY <1>2 DEF DailyInv, VerdictsInv, ReplayOf
  <2>3. MoneyInv'
    <3>1. MoneyInv /\ UNCHANGED states
      BY <1>2 DEF DailyInv
    <3> QED BY <3>1 DEF MoneyInv, Seen
  <2>4. BookInv'
    BY <1>2 DEF DailyInv, BookInv, ReplayOf
  <2> QED BY <2>1, <2>2, <2>3, <2>4
<1>20. RunInv'
  <2>1. run.session <= day /\ events[run.session] # <<>>
    BY <1>3 DEF DailyInv, RunInv
  <2> QED BY <1>2, <1>16, <1>17, <2>1 DEF RunInv
<1>21. PinInv'
  <2>1. \A s \in Sessions : events[s] # <<>> => pinned[s] \in -1 .. k
    BY <1>4 DEF DailyInv, PinInv
  <2>2. \A n \in -1 .. k : n \in -1 .. k + 1
    BY <1>4
  <2> QED BY <1>2, <1>15, <2>1, <2>2 DEF PinInv
<1>22. RollsInv'
  <2>1. \A i \in 1 .. k + 1 : i \in 1 .. k \/ i = k + 1
    BY <1>4
  <2>2. \A i : SeenNavs(i)' = SeenNavs(i)
    BY <1>2 DEF SeenNavs
  <2>3. SeenNavs(k + 1) = SeenNavs(k) \cup {Nav(st, market)}
    <3>1. {Nav(states[j], market) : j \in 1 .. k + 1} =
            {Nav(states[j], market) : j \in 1 .. k} \cup {Nav(st, market)}
      <4>1. 1 .. k + 1 = 1 .. k \cup {k + 1}
        BY <1>4
      <4> QED BY <1>5, <4>1
    <3> QED BY <3>1 DEF SeenNavs
  <2>4. ASSUME NEW i \in 1 .. Len(rolls')
        PROVE  /\ rolls'[i].state = i /\ RolledAs(rolls'[i], states[i], market)
               /\ rolls'[i].peakNav \in SeenNavs(i)
               /\ \A n \in SeenNavs(i) : n \in Int /\ n <= rolls'[i].peakNav
    <3>1. CASE i \in 1 .. k
      BY <1>4, <1>15, <3>1 DEF DailyInv, RollsInv
    <3>2. CASE i = k + 1
      <4>1. RolledAs(roll, st, market)
        BY <1>6, <1>7, <1>13 DEF RolledAs
      <4>2. peak \in SeenNavs(k + 1) /\ \A n \in SeenNavs(k + 1) : n \in Int /\ n <= peak
        <5>1. peak \in SeenNavs(k + 1)
          BY <1>10, <1>11, <2>3
        <5>2. ASSUME NEW n \in SeenNavs(k) PROVE n \in Int /\ n <= peak
          <6>1. n \in Int /\ n <= prior
            BY <1>10
          <6> QED BY <1>11, <6>1
        <5> QED BY <1>9, <1>11, <2>3, <5>1, <5>2
      <4> QED BY <1>5, <1>13, <1>15, <3>2, <4>1, <4>2
    <3> QED BY <1>15, <2>1, <3>1, <3>2
  <2>5. Len(rolls') <= Len(states)
    BY <1>4, <1>15
  <2> QED BY <1>2, <2>2, <2>4, <2>5 DEF RollsInv
<1>23. \A i \in 1 .. Len(sizing) :
        /\ sizing[i].on \in 0 .. Len(rolls)
        /\ sizing[i].on \in 0 .. Len(rolls')
        /\ SnapshotAt(sizing[i].on)' = SnapshotAt(sizing[i].on)
  <2> TAKE i \in 1 .. Len(sizing)
  <2>1. PICK on \in 0 .. k : on = sizing[i].on
    BY <1>4 DEF DailyInv, SizingInv
  <2>2. SnapshotAt(on)' = SnapshotAt(on) /\ on \in 0 .. Len(rolls')
    BY <1>4, <1>15, <1>18, <2>1
  <2> QED BY <1>2, <1>4, <2>1, <2>2 DEF SnapshotAt
<1>24. SizingInv' /\ SizedWithinLimits'
  <2>1. \A i : OrdersBy(i)' = OrdersBy(i)
    BY <1>2 DEF OrdersBy
  <2>2. SizingInv'
    <3>1. SizingInv
      BY DEF DailyInv
    <3> QED BY <1>2, <1>23, <2>1, <3>1 DEF SizingInv
  <2>3. SizedWithinLimits'
    <3>1. SizedWithinLimits /\ DOMAIN sizing = 1 .. Len(sizing)
      BY <1>3 DEF DailyInv, DailyTypeOK
    <3> QED BY <1>2, <1>23, <2>1, <3>1 DEF SizedWithinLimits
  <2> QED BY <2>2, <2>3
<1>25. DailyTypeOK'
  BY <1>2, <1>3, <1>15, <1>16, <1>17 DEF DailyTypeOK
<1> QED BY <1>19, <1>20, <1>21, <1>22, <1>24, <1>25 DEF DailyInv

-----------------------------------------------------------------------------
(* The theorems.                                                           *)

LEMMA DailyInit ==
  ASSUME Init
  PROVE  DailyInv
<1>1. /\ day = 0 /\ market = [t \in Trades |-> [s \in Sessions |-> NoBar]]
      /\ ledger = [t \in Trades |-> None] /\ sizing = <<>> /\ sized = [t \in Buys |-> None]
      /\ states = <<>> /\ rolls = <<>> /\ pinned = [s \in Sessions |-> None]
      /\ events = [s \in Sessions |-> <<>>] /\ terminal = [s \in Sessions |-> None]
      /\ run = None /\ faults = 0
  BY DEF Init
<1>2. Len(states) = 0 /\ Len(rolls) = 0
  BY <1>1
<1>3. DailyTypeOK
  <2>1. states \in Seq(State) /\ rolls \in Seq(Rollover)
    BY <1>1
  <2>2. events \in [Sessions -> Seq(Event)]
    BY <1>1
  <2>3. \A t \in Trades : \A s \in Sessions : market[t][s] = NoBar
    BY <1>1
  <2>4. market \in [Trades -> [Sessions -> Bar \cup {NoBar}]]
    BY <1>1
  <2>5. ledger \in [Trades -> Entry] /\ sized \in [Buys -> Order \cup {None}]
    BY <1>1 DEF Entry
  <2>6. pinned \in [Sessions -> (-1 .. Days) \cup {None}]
        /\ terminal \in [Sessions -> Terminal \cup {None}]
    BY <1>1
  <2>7. day \in 0 .. Days /\ faults \in 0 .. MaxFaults
    BY <1>1, BookFacts
  <2> QED BY <1>1, <2>1, <2>2, <2>3, <2>4, <2>5, <2>6, <2>7 DEF DailyTypeOK
<1>4. StatesInv /\ MoneyInv /\ RollsInv
  BY <1>2 DEF StatesInv, MoneyInv, RollsInv
<1>5. VerdictsInv
  BY <1>1, <1>2 DEF VerdictsInv
<1>6. RunInv /\ PinInv
  BY <1>1 DEF RunInv, PinInv
<1>7. SizingInv /\ SizedWithinLimits
  BY <1>1 DEF SizingInv, SizedWithinLimits
<1>8. BookInv
  BY <1>1 DEF BookInv
<1> QED BY <1>3, <1>4, <1>5, <1>6, <1>7, <1>8 DEF DailyInv

LEMMA DailyNext ==
  ASSUME DailyInv, [Next]_vars
  PROVE  DailyInv'
<1>1. ASSUME Idle PROVE DailyInv'
  <2>1. UNCHANGED <<outside, chain>> /\ WorkflowInv'
    BY <1>1, IdleStep
  <2>2. DailyTypeOK'
    BY <2>1, TypesKept DEF DailyInv, WorkflowInv
  <2>3. /\ StatesInv' /\ VerdictsInv' /\ MoneyInv' /\ RollsInv'
        /\ SizingInv' /\ BookInv' /\ SizedWithinLimits'
    BY <2>1, BookKept
  <2> QED BY <2>1, <2>2, <2>3 DEF DailyInv, WorkflowInv
<1>2. ASSUME UNCHANGED vars PROVE DailyInv'
  <2>1. UNCHANGED <<outside, chain>> /\ UNCHANGED <<pinned, events, terminal, run, faults>>
    BY <1>2 DEF vars, workflow, journal
  <2>2. UNCHANGED <<day, market, ledger, states, rolls>>
    BY <2>1 DEF outside, chain
  <2>3. WorkflowTypes
    BY WorkflowTyped DEF DailyInv
  <2>4. WorkflowTypes'
    BY <2>1, <2>3 DEF WorkflowTypes
  <2>5. DailyTypeOK'
    BY <2>1, <2>4, TypesKept DEF DailyInv
  <2>6. JobsInv => JobsInv'
    BY <2>1, <2>2 DEF JobsInv, Behind, Carried, Waits, ReplayOf
  <2>7. RunInv' /\ PinInv'
    <3>1. RunInv'
      BY <2>1, <2>2, <2>6 DEF DailyInv, RunInv
    <3>2. PinInv'
      BY <2>1, <2>2 DEF DailyInv, PinInv
    <3> QED BY <3>1, <3>2
  <2>8. /\ StatesInv' /\ VerdictsInv' /\ MoneyInv' /\ RollsInv'
        /\ SizingInv' /\ BookInv' /\ SizedWithinLimits'
    BY <2>1, BookKept
  <2> QED BY <2>5, <2>7, <2>8 DEF DailyInv
<1>3. CASE (\E t \in Alerts : Register(t)) \/ \E t \in Buys : Buy(t)
  BY <1>3, EnlistSteps, RegisterStep
<1>4. CASE \E t \in Buys : \E i \in DOMAIN sizing : Allot(i, t)
  BY <1>4, AllotStep
<1>5. CASE Size \/ Close
  BY <1>5, SizeStep, CloseStep
<1>6. CASE \E t \in Trades : Judge(t)
  BY <1>6, JudgeStep
<1>7. CASE PutState \/ Roll
  BY <1>7, PutStateStep, RollStep
<1> QED BY <1>1, <1>2, <1>3, <1>4, <1>5, <1>6, <1>7 DEF Next, Idle

\* The book: its chains, its ledger and the account that an order is sized on
\* agree in every state that the program can reach.
THEOREM DailyInvariance == Spec => []DailyInv
<1>1. Init => DailyInv
  BY DailyInit
<1>2. DailyInv /\ [Next]_vars => DailyInv'
  BY DailyNext
<1> QED BY <1>1, <1>2, PTL DEF Spec

\* Type correctness.
THEOREM DailyTypeCorrect == Spec => []DailyTypeOK
<1>1. DailyInv => DailyTypeOK
  BY DEF DailyInv
<1> QED BY <1>1, DailyInvariance, PTL

\* A replay says the same of an entry and of an exit on all later evidence.
THEOREM ReplaysStand == Spec => []VerdictsStand
<1>1. DailyInv => VerdictsStand
  <2> SUFFICES ASSUME DailyInv PROVE VerdictsStand
    OBVIOUS
  <2>1. DailyTypeOK /\ day \in 0 .. Days /\ day \in Nat
    BY BookFacts DEF DailyInv, DailyTypeOK
  <2>2. ASSUME NEW t \in Trades, NEW k \in 1 .. day
        PROVE  Agrees(ReplayOf(t, k), Replay(TermsOf[t], market[t], day))
    <3>1. SoundTerms(TermsOf[t]) /\ k \in Nat /\ k <= day
      BY <2>1, BookFacts
    <3> QED BY <2>1, <3>1, ReplayStands DEF ReplayOf
  <2>3. ASSUME NEW i \in DOMAIN states, NEW t \in Trades, states[i].positions[t] # None
        PROVE  Agrees(states[i].positions[t], Replay(TermsOf[t], market[t], day))
    <3>1. i \in 1 .. Len(states)
      BY <2>1 DEF DailyTypeOK
    <3>2. states[i].session <= day /\ states[i].session \in Nat
      BY <2>1, <3>1, StateAt, StateFields, BookFacts DEF DailyInv, StatesInv
    <3>3. PICK k \in 1 .. states[i].session : states[i].positions[t] = ReplayOf(t, k)
      BY <2>3, <3>1 DEF DailyInv, VerdictsInv
    <3>4. k \in 1 .. day
      BY <2>1, <3>2
    <3> QED BY <2>2, <3>3, <3>4
  <2>4. ASSUME NEW t \in Alerts, ledger[t] # None
        PROVE  Agrees(ledger[t], Replay(TermsOf[t], market[t], day))
    <3>1. t \in Trades
      BY BookFacts
    <3>2. CASE ledger[t] = Alerted
      BY <3>2, AlertedFacts DEF Agrees, Final
    <3>3. CASE ledger[t] # Alerted
      <4>1. PICK k \in 1 .. day : ledger[t] = ReplayOf(t, k)
        BY <2>4, <3>1, <3>3 DEF DailyInv, VerdictsInv
      <4> QED BY <2>2, <3>1, <4>1
    <3> QED BY <3>2, <3>3
  <2> QED BY <2>3, <2>4 DEF VerdictsStand
<1> QED BY <1>1, DailyInvariance, PTL

\* What a state has filled was filled after the decision and by its session.
THEOREM NoForesight == Spec => []NothingIsForeseen
<1>1. DailyInv => NothingIsForeseen
  <2> SUFFICES ASSUME DailyInv, NEW i \in DOMAIN states, NEW t \in Trades,
                      states[i].positions[t] # None, states[i].positions[t].in # 0
               PROVE  LET v == states[i].positions[t]
                          term == TermsOf[t]
                      IN  /\ v.in \in term.from .. term.until /\ v.in > term.decided
                          /\ v.in <= states[i].session
                          /\ v.status = "CLOSED" =>
                               v.out \in v.in .. Least(states[i].session, v.in + term.hold - 1)
    BY DEF NothingIsForeseen
  <2>1. DailyTypeOK
    BY DEF DailyInv
  <2>2. i \in 1 .. Len(states)
    BY <2>1 DEF DailyTypeOK
  <2>3. PICK n : n = states[i].session
    OBVIOUS
  <2>4. n \in 1 .. Days /\ Days \in Nat
    BY <2>1, <2>2, <2>3, StateAt, StateFields, BookFacts
  <2>5. PICK v, k : v = states[i].positions[t] /\ k \in 1 .. n /\ v = ReplayOf(t, k) /\ t \in Alerts
    <3>1. PICK k \in 1 .. states[i].session : states[i].positions[t] = ReplayOf(t, k) /\ t \in Alerts
      BY <2>2 DEF DailyInv, VerdictsInv
    <3> QED BY <2>3, <3>1
  <2>6. k \in 0 .. Days
    BY <2>4, <2>5
  <2>7. v \in Verdict /\ EnteredBy(TermsOf[t], market[t], k, v)
    BY <2>1, <2>5, <2>6, ReplayOfFacts
  <2>8. PICK in \in Nat, out \in Nat : in = v.in /\ out = v.out
    BY <2>7, VerdictFields
  <2>9. /\ in \in TermsOf[t].from .. TermsOf[t].until /\ in <= k
        /\ v.status = "CLOSED" => out \in in .. k /\ out <= in + TermsOf[t].hold - 1
    BY <2>7, <2>8 DEF EnteredBy
  <2>10. /\ TermsOf[t].from \in Nat /\ TermsOf[t].decided \in Nat /\ TermsOf[t].hold \in Nat
         /\ TermsOf[t].decided < TermsOf[t].from
    BY <2>5, BookFacts, SoundLevelsOfTerms
  <2>11. in > TermsOf[t].decided /\ in <= n
    BY <2>4, <2>5, <2>8, <2>9, <2>10
  <2>12. v.status = "CLOSED" => out \in in .. Least(n, in + TermsOf[t].hold - 1)
    BY <2>4, <2>5, <2>8, <2>9, <2>10 DEF Least
  <2> QED BY <2>3, <2>5, <2>8, <2>9, <2>11, <2>12
<1> QED BY <1>1, DailyInvariance, PTL

\* No fill is better than the day gave.
THEOREM PessimisticFills == Spec => []FillsArePessimistic
<1>1. DailyInv => FillsArePessimistic
  <2> SUFFICES ASSUME DailyInv, NEW t \in Alerts, ledger[t] # None
               PROVE  LET v == ledger[t]
                          term == TermsOf[t]
                      IN  /\ v.in # 0 => /\ v.paid \in term.low .. term.high
                                         /\ v.paid >= Least(market[t][v.in].open, term.high)
                          /\ v.status = "CLOSED" => v.got <= Worst(t, v)
    BY DEF FillsArePessimistic
  <2>1. DailyTypeOK /\ t \in Trades /\ day \in 0 .. Days
    BY BookFacts DEF DailyInv, DailyTypeOK
  <2>2. CASE ledger[t] = Alerted
    BY <2>2, AlertedFacts
  <2>3. CASE ledger[t] # Alerted
    <3>1. PICK v, k : v = ledger[t] /\ k \in 1 .. day /\ v = ReplayOf(t, k)
      <4>1. PICK k \in 1 .. day : ledger[t] = ReplayOf(t, k)
        BY <2>1, <2>3 DEF DailyInv, VerdictsInv
      <4> QED BY <4>1
    <3>2. k \in 0 .. Days
      BY <2>1, <3>1, BookFacts
    <3>3. /\ v.in # 0 => EnteredBy(TermsOf[t], market[t], k, v)
          /\ v.in = 0 => v.status \in {"WAITING", "EXPIRED"}
      BY <2>1, <3>1, <3>2, ReplayOfFacts
    <3>4. GoodExit(TermsOf[t], market[t], v) => v.got <= Worst(t, v)
      BY DEF GoodExit, Worst
    <3> QED BY <3>1, <3>3, <3>4 DEF EnteredBy
  <2> QED BY <2>2, <2>3
<1> QED BY <1>1, DailyInvariance, PTL

LEMMA MaxIs ==
  ASSUME NEW S, \A x \in S : x \in Int, NEW m \in S, \A x \in S : x <= m
  PROVE  Max(S) = m
<1>1. PICK n : n = Max(S)
  OBVIOUS
<1>2. \A y \in S : m >= y
  OBVIOUS
<1>3. n \in S /\ \A y \in S : n >= y
  BY <1>1, <1>2 DEF Max
<1> QED BY <1>1, <1>3

\* The money of a state is that of the trades it has closed.
THEOREM MoneyIsThatOfTheTrades == Spec => []MoneyAddsUp
<1>1. DailyInv => MoneyAddsUp
  <2> SUFFICES ASSUME DailyInv, NEW i \in DOMAIN states
               PROVE  /\ states[i].cumulative = SumFunction([t \in StatusIn(states[i].positions, "CLOSED") |->
                                                               Pnl(t, states[i].positions[t])])
                      /\ states[i].peak = Max({0} \cup {states[j].cumulative : j \in 1 .. i})
    BY DEF MoneyAddsUp
  <2>1. DailyTypeOK
    BY DEF DailyInv
  <2>2. i \in 1 .. Len(states) /\ Len(states) \in Nat
    BY <2>1 DEF DailyTypeOK
  <2>3. /\ states[i].cumulative = ClosedMoney(states[i])
        /\ states[i].peak \in Seen(i) /\ \A c \in Seen(i) : c <= states[i].peak
    BY <2>2 DEF DailyInv, MoneyInv
  <2>4. \A c \in Seen(i) : c \in Int
    <3>1. \A j \in 1 .. i : j \in 1 .. Len(states)
      BY <2>2
    <3>2. \A j \in 1 .. i : states[j].cumulative \in Int
      BY <2>1, <3>1, StateAt, StateFields
    <3> QED BY <3>2 DEF Seen
  <2>5. Max(Seen(i)) = states[i].peak
    BY <2>3, <2>4, MaxIs
  <2> QED BY <2>3, <2>5 DEF Seen, ClosedMoney
<1> QED BY <1>1, DailyInvariance, PTL

\* What an open trade is marked at is what was spent on it, and what its sale
\* at that price would make.
LEMMA SoldIsMarked ==
  ASSUME NEW t \in Trades, NEW v \in Verdict, NEW bar, SoundBar(bar)
  PROVE  /\ Pnl(t, [v EXCEPT !.got = bar.close]) \in Int
         /\ Marked(t, bar) = Pnl(t, [v EXCEPT !.got = bar.close]) + Spent(t, v)
<1>1. PICK close \in Nat, paid \in Nat, q \in Nat, c \in Nat :
        /\ close = bar.close /\ paid = v.paid
        /\ q = TermsOf[t].quantity /\ c = TermsOf[t].cost
  BY VerdictFields, BookFacts, SoundLevelsOfTerms, SoundPrices
<1>2. PICK w : w = [v EXCEPT !.got = close]
  OBVIOUS
<1>3. w.got = close /\ w.paid = paid
  BY <1>1, <1>2 DEF Verdict
<1>4. Pnl(t, w) = (close - paid) * q - c
  BY <1>1, <1>3 DEF Pnl
<1>5. Spent(t, v) = paid * q + c /\ Marked(t, bar) = close * q
  BY <1>1 DEF Spent, Marked
<1>6. (close - paid) * q = close * q - paid * q
  BY <1>1
<1>7. Pnl(t, w) \in Int
  BY <1>1, <1>4
<1>8. PICK x \in Int, y \in Int : x = close * q /\ y = paid * q
  BY <1>1
<1>9. Marked(t, bar) = Pnl(t, w) + Spent(t, v)
  BY <1>1, <1>4, <1>5, <1>6, <1>8
<1> QED BY <1>1, <1>2, <1>7, <1>9

\* The account is what it began with, what was made, and what the sale of all
\* that is open would make.
LEMMA NavIsSold ==
  ASSUME NEW st \in State, NEW bars, \A t \in Open(st) : SoundBar(bars[t][st.session])
  PROVE  Nav(st, bars) = Capital + st.cumulative +
           SumFunction([t \in Open(st) |->
                          Pnl(t, [st.positions[t] EXCEPT !.got = bars[t][st.session].close])])
<1> DEFINE f == [t \in Open(st) |->
                   Pnl(t, [st.positions[t] EXCEPT !.got = bars[t][st.session].close])]
           g == [t \in Open(st) |-> Spent(t, st.positions[t])]
           h == [t \in Open(st) |-> Marked(t, bars[t][st.session])]
<1>1. \A t \in Open(st) : t \in Trades /\ st.positions[t] \in Verdict
  BY OpenFacts
<1>2. \A t \in Open(st) : f[t] \in Int /\ g[t] \in Int /\ h[t] = f[t] + g[t]
  <2> TAKE t \in Open(st)
  <2>0. PICK v \in Verdict : v = st.positions[t]
    BY <1>1
  <2>1. PICK bar : bar = bars[t][st.session] /\ v = st.positions[t] /\ SoundBar(bar)
    BY <2>0
  <2>2. /\ Pnl(t, [v EXCEPT !.got = bar.close]) \in Int /\ Spent(t, v) \in Nat
        /\ Marked(t, bar) = Pnl(t, [v EXCEPT !.got = bar.close]) + Spent(t, v)
    BY <1>1, <2>1, SoldIsMarked, SpentType
  <2>3. /\ f[t] = Pnl(t, [v EXCEPT !.got = bar.close]) /\ g[t] = Spent(t, v)
        /\ h[t] = Marked(t, bar)
    BY <2>1
  <2> QED BY <2>2, <2>3
<1>3. DOMAIN f = Open(st) /\ DOMAIN g = Open(st) /\ DOMAIN h = Open(st)
  OBVIOUS
<1>4. f \in [Open(st) -> Int]
  BY <1>2
<1>5. SumFunction(f) \in Int /\ SumFunction(g) \in Int
  <2>1. SumFunction(g) \in Int
    BY CashType
  <2> QED BY <1>4, <2>1, OpenFacts, TotalType
<1>6. SumFunction(h) = SumFunction(f) + SumFunction(g)
  <2> HIDE DEF f, g, h
  <2>1. IsFiniteSet(Open(st))
    BY OpenFacts
  <2> QED BY <1>2, <1>3, <2>1, TotalPlus
<1>7. Cash(st) = Capital + st.cumulative - SumFunction(g) /\ Gross(st, bars) = SumFunction(h)
  BY DEF Cash, Gross
<1>8. Capital \in Int /\ st.cumulative \in Int
  BY StateFields, BookFacts
<1>9. Nav(st, bars) = Capital + st.cumulative + SumFunction(f)
  <2> HIDE DEF f, g, h
  <2> QED BY <1>5, <1>6, <1>7, <1>8 DEF Nav
<1> QED BY <1>9

\* Rollovers are of the first states, and value the account at their closes.
THEOREM RolloversAreOfTheChain == Spec => []RolloversFollow
<1>1. DailyInv => RolloversFollow
  <2> SUFFICES ASSUME DailyInv, NEW i \in DOMAIN rolls
               PROVE  LET sold(t) == Pnl(t, [states[i].positions[t] EXCEPT
                                               !.got = market[t][states[i].session].close])
                      IN  /\ rolls[i].state = i
                          /\ rolls[i].snapshot.capital = Capital + states[i].cumulative +
                               SumFunction([t \in Open(states[i]) |-> sold(t)])
                          /\ rolls[i].snapshot.cash >= 0
                          /\ rolls[i].snapshot.risk <= rolls[i].snapshot.capital
                          /\ StatusIn(states[i].positions, "WAITING")
                               \cup StatusIn(states[i].positions, "BLOCKED") = {}
                          /\ rolls[i].peakNav = Max({Capital} \cup {Nav(states[j], market) : j \in 1 .. i})
    BY DEF RolloversFollow
  <2>1. DailyTypeOK
    BY DEF DailyInv
  <2>2. i \in 1 .. Len(rolls) /\ i \in 1 .. Len(states)
    BY <2>1 DEF DailyTypeOK, DailyInv, RollsInv
  <2>3. PICK st \in State : st = states[i]
    BY <2>1, <2>2, StateAt
  <2>4. /\ rolls[i].state = i /\ RolledAs(rolls[i], st, market)
        /\ rolls[i].peakNav \in SeenNavs(i)
        /\ \A n \in SeenNavs(i) : n \in Int /\ n <= rolls[i].peakNav
    BY <2>2, <2>3 DEF DailyInv, RollsInv
  <2>5. /\ rolls[i].snapshot = SnapshotOf(st, market) /\ Safe(st, market)
        /\ StatusIn(st.positions, "WAITING") = {} /\ StatusIn(st.positions, "BLOCKED") = {}
        /\ \A t \in Open(st) : market[t][st.session] # NoBar
    BY <2>4 DEF RolledAs
  <2>6. \A t \in Open(st) : SoundBar(market[t][st.session])
    BY <2>1, <2>5, OpenFacts, StateFields DEF DailyTypeOK
  <2>7. Nav(st, market) = Capital + st.cumulative +
           SumFunction([t \in Open(st) |->
                          Pnl(t, [st.positions[t] EXCEPT !.got = market[t][st.session].close])])
    BY <2>6, NavIsSold
  <2>8. /\ rolls[i].snapshot.capital = Nav(st, market) /\ rolls[i].snapshot.cash = Cash(st)
        /\ rolls[i].snapshot.risk = OpenRisk(st)
    BY <2>5 DEF SnapshotOf
  <2>9. rolls[i].snapshot.cash >= 0 /\ rolls[i].snapshot.risk <= rolls[i].snapshot.capital
    BY <2>5, <2>8 DEF Safe
  <2>10. rolls[i].peakNav = Max(SeenNavs(i))
    BY <2>4, MaxIs
  <2> QED BY <2>3, <2>4, <2>5, <2>7, <2>8, <2>9, <2>10 DEF SeenNavs
<1> QED BY <1>1, DailyInvariance, PTL

\* The orders of one sizing batch stay within every limit of its policy, whatever
\* other batches size on the same snapshot.
THEOREM OrdersWithinLimits == Spec => []SizedWithinLimits
<1>1. DailyInv => SizedWithinLimits
  BY DEF DailyInv
<1> QED BY <1>1, DailyInvariance, PTL

\* A run begins on a rollover of the day only if that is what the book holds.
LEMMA BookIsRolled ==
  ASSUME DailyInv, Sizable
  PROVE  LET open == {t \in Trades : ledger[t] # None /\ ledger[t].status = "OPEN"}
         IN  /\ Cardinality(open) = SnapshotAt(Len(rolls)).open
             /\ \A t \in open : ReplayOf(t, day) = ledger[t]
<1>1. DailyTypeOK /\ Len(rolls) \in Nat /\ Len(states) \in Nat /\ Len(rolls) <= Len(states)
      /\ day \in Nat
  BY BookFacts DEF DailyInv, DailyTypeOK, RollsInv
<1>2. SnapDay(Len(rolls)) = day
  BY SnapIsOfDay
<1>3. PICK open : open = {t \in Trades : ledger[t] # None /\ ledger[t].status = "OPEN"}
  OBVIOUS
<1>4. CASE Len(rolls) = 0
  <2>1. day = 0 /\ SnapshotAt(Len(rolls)) = Genesis
    BY <1>2, <1>4 DEF SnapDay, SnapshotAt
  <2>2. Genesis.open = 0
    BY DEF Genesis
  <2>3. \A t \in Trades : ledger[t] # None => ledger[t] = Alerted
    BY <2>1 DEF DailyInv, VerdictsInv
  <2>4. open = {}
    BY <1>3, <2>3, AlertedFacts
  <2> QED BY <1>3, <2>1, <2>2, <2>4, FS_EmptySet
<1>5. CASE Len(rolls) # 0
  <2>1. PICK n \in 1 .. Len(rolls) : n = Len(rolls)
    BY <1>1, <1>5
  <2>2. n \in 1 .. Len(states) /\ states[n].session = day
    BY <1>1, <1>2, <1>5, <2>1 DEF SnapDay
  <2>3. PICK st \in State : st = states[n]
    BY <1>1, <2>2, StateAt
  <2>4. n = Len(states) /\ states # <<>>
    <3>1. Len(states) \in 1 .. Len(states) /\ states[Len(states)].session <= day
      BY <1>1, <2>2 DEF DailyInv, StatesInv
    <3>2. n < Len(states) => day < states[Len(states)].session
      BY <2>2, <3>1 DEF DailyInv, StatesInv
    <3>3. states[Len(states)].session \in Nat
      BY <1>1, <3>1, StateAt, StateFields, BookFacts
    <3> QED BY <1>1, <2>2, <3>1, <3>2, <3>3
  <2>5. RolledAs(rolls[n], st, market)
    BY <2>1, <2>3 DEF DailyInv, RollsInv
  <2>6. /\ rolls[n].snapshot = SnapshotOf(st, market)
        /\ StatusIn(st.positions, "WAITING") = {} /\ StatusIn(st.positions, "BLOCKED") = {}
    BY <2>5 DEF RolledAs
  <2>7. SnapshotAt(Len(rolls)).open = Cardinality(Open(st))
    BY <1>5, <2>1, <2>6 DEF SnapshotAt, SnapshotOf
  <2>8. ASSUME NEW t \in Trades
        PROVE  LET v == st.positions[t]
               IN  /\ v # None /\ v.status = "OPEN" => ledger[t] = v /\ v = ReplayOf(t, day)
                   /\ ledger[t] # None /\ ledger[t].status = "OPEN" =>
                        v # None /\ v.status \in {"OPEN", "WAITING", "BLOCKED"}
    BY <2>2, <2>3, <2>4 DEF DailyInv, BookInv
  <2>9. \A t \in Trades : st.positions[t] # None =>
          st.positions[t].status # "WAITING" /\ st.positions[t].status # "BLOCKED"
    BY <2>6 DEF StatusIn
  <2>10. \A t \in Trades : t \in open <=> st.positions[t] # None /\ st.positions[t].status = "OPEN"
    BY <1>3, <2>8, <2>9
  <2>11. open = Open(st)
    BY <1>3, <2>10 DEF Open, StatusIn
  <2>12. \A t \in open : ReplayOf(t, day) = ledger[t]
    BY <1>3, <2>8, <2>10
  <2> QED BY <1>3, <2>7, <2>11, <2>12
<1> QED BY <1>4, <1>5

\* A batch is sized on what the book holds.
THEOREM RunsAreSizedOnTheBook == Spec => SizedOnTheBook
<1>1. ASSUME DailyInv, [Next]_vars, Len(sizing') > Len(sizing)
      PROVE  LET open == {t \in Trades : ledger[t] # None /\ ledger[t].status = "OPEN"}
             IN  /\ Cardinality(open) = Last(sizing').state.open
                 /\ \A t \in open : Replay(TermsOf[t], market[t], day) = ledger[t]
  <2>0. sizing \in Seq(Sizing)
    BY <1>1 DEF DailyInv, DailyTypeOK
  <2>1. PICK n \in Nat : n = Len(sizing) /\ sizing \in Seq(Sizing)
    BY <2>0
  <2>2. ~UNCHANGED sizing
    BY <1>1, <2>1
  <2>3. Size
    <3>1. CASE UNCHANGED vars
      BY <2>2, <3>1 DEF vars, outside
    <3>2. CASE Idle
      <4>1. UNCHANGED <<outside, chain>>
        BY <1>1, <3>2, IdleStep
      <4> QED BY <2>2, <4>1 DEF outside
    <3>3. CASE (\E t \in Alerts : Register(t)) \/ \E t \in Buys : Buy(t)
      BY <2>2, <3>3 DEF Register, Buy, outside
    <3>4. CASE \E t \in Buys : \E i \in DOMAIN sizing : Allot(i, t)
      <4>1. PICK i, next : sizing' = [sizing EXCEPT ![i].state = next]
        BY <3>4 DEF Allot
      <4>2. Len(sizing') = Len(sizing)
        BY <2>1, <4>1
      <4> QED BY <1>1, <2>1, <4>2
    <3>5. CASE Close
      <4>1. Len(sizing') = 0
        BY <3>5 DEF Close
      <4> QED BY <1>1, <2>1, <4>1
    <3>6. CASE \E t \in Trades : Judge(t)
      BY <2>2, <3>6 DEF Judge, outside
    <3>7. CASE PutState \/ Roll
      BY <2>2, <3>7 DEF PutState, Roll, outside
    <3> QED BY <1>1, <3>1, <3>2, <3>3, <3>4, <3>5, <3>6, <3>7 DEF Next, Idle
  <2>4. PICK s, most :
          /\ Sizable /\ sizing' = Append(sizing, s)
          /\ s = [on |-> Len(rolls), session |-> day + 1, most |-> most,
                  state |-> Initially(SnapshotAt(Len(rolls)))]
    BY <2>3 DEF Size
  <2>5. Last(sizing') = s
    BY <2>1, <2>4 DEF Last
  <2>6. s.state.open = SnapshotAt(Len(rolls)).open
    BY <2>4 DEF Initially
  <2> QED BY <1>1, <2>4, <2>5, <2>6, BookIsRolled DEF ReplayOf
<1>2. DailyInv /\ [Next]_vars =>
        [Len(sizing') > Len(sizing) =>
           LET open == {t \in Trades : ledger[t] # None /\ ledger[t].status = "OPEN"}
           IN  /\ Cardinality(open) = Last(sizing').state.open
               /\ \A t \in open : Replay(TermsOf[t], market[t], day) = ledger[t]]_vars
  BY <1>1
<1> QED BY <1>2, DailyInvariance, PTL DEF Spec, SizedOnTheBook

=============================================================================
