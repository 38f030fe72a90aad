-------------------------- MODULE Indicators_proofs --------------------------
(***************************************************************************)
(* The properties of Indicators hold for every set of closing prices,      *)
(* every set of rules that the API accepts, and tables of every length.    *)
(***************************************************************************)
EXTENDS Indicators, Rationals_proofs

-----------------------------------------------------------------------------
(***************************************************************************)
(* The inductive invariant: what fired is what matches the newest candle.  *)
(***************************************************************************)

Candle == [ts : Nat, close : Closes]
CandlesOK == candles \in Seq(Candle)

FiredIsMatched ==
    IF candles = <<>> THEN DOMAIN fired = {}
    ELSE /\ DOMAIN fired = {r \in Rules : Matches(r, candles)}
         /\ \A r \in DOMAIN fired : fired[r] = TriggerValue(r, candles)

IInv == CandlesOK /\ FiredIsMatched

\* One candle is added to the table.
LEMMA OneMore ==
    ASSUME CandlesOK, NEW close \in Closes, NEW skipped \in 0 .. 1, AddCandle(close, skipped)
    PROVE  /\ \E ts \in Nat : candles' = Append(candles, [ts |-> ts, close |-> close])
           /\ CandlesOK'
<1> DEFINE ts == IF candles = <<>> THEN 0 ELSE Last(candles).ts + Interval * (1 + skipped)
<1>1. candles' = Append(candles, [ts |-> ts, close |-> close])
  BY DEF AddCandle
<1>2. ts \in Nat
  <2>1. ASSUME candles # <<>> PROVE Last(candles).ts \in Nat
    <3>1. Last(candles) \in Candle
      BY <2>1, EmptySeq, ElementOfSeq DEF CandlesOK, Last
    <3> QED
      BY <3>1 DEF Candle
  <2> QED
    BY <2>1 DEF Interval
<1> HIDE DEF ts
<1>3. [ts |-> ts, close |-> close] \in Candle
  BY <1>2 DEF Candle
<1> QED
  BY <1>1, <1>2, <1>3 DEF CandlesOK

\* It is inductive: every candle is added and evaluated in one step.
LEMMA Inductive == Spec => []IInv
<1>1. Init => IInv
  BY DEF Init, IInv, CandlesOK, FiredIsMatched
<1>2. IInv /\ [Next]_vars => IInv'
  <2> SUFFICES ASSUME IInv, [Next]_vars PROVE IInv'
    OBVIOUS
  <2>1. ASSUME NEW close \in Closes, NEW skipped \in 0 .. 1, AddCandle(close, skipped) PROVE IInv'
    <3>1. CandlesOK' /\ \E ts \in Nat : candles' = Append(candles, [ts |-> ts, close |-> close])
      BY <2>1, OneMore DEF IInv
    <3>2. candles' # <<>>
      BY <3>1 DEF IInv, CandlesOK
    <3>3. fired' = [r \in {q \in Rules : Matches(q, candles')} |-> TriggerValue(r, candles')]
      BY <2>1 DEF AddCandle
    <3>4. FiredIsMatched'
      BY <3>2, <3>3, Zenon DEF FiredIsMatched
    <3> QED
      BY <3>1, <3>4 DEF IInv
  <2>2. CASE UNCHANGED vars
    BY <2>2, Zenon DEF vars, IInv, CandlesOK, FiredIsMatched
  <2> QED
    BY <2>1, <2>2 DEF Next
<1> QED
  BY <1>1, <1>2, PTL DEF Spec

\* A rule fires on a table that is not empty, and its class matches it.
LEMMA FiredMatches ==
    ASSUME IInv, NEW r \in DOMAIN fired
    PROVE  /\ r \in Rules /\ candles # <<>> /\ Len(candles) \in Nat \ {0}
           /\ Matches(r, candles) /\ fired[r] = TriggerValue(r, candles)
BY DEF IInv, CandlesOK, FiredIsMatched

\* The class of a rule is the one that its type names.
LEMMA Classes ==
    ASSUME NEW r, NEW cs, Matches(r, cs)
    PROVE  /\ r.type = "percent_move" => percent_move(r, cs)
           /\ r.type = "macd_cross" => macd_cross(r, cs)
           /\ r.type = "rsi" => rsi(r, cs)
           /\ r.type = "bollinger_bands" => bollinger_bands(r, cs)
BY DEF Matches

\* The newest candle, and what every candle holds.
LEMMA LastCandle ==
    ASSUME CandlesOK, candles # <<>>
    PROVE  /\ Last(candles) = candles[Len(candles)] /\ Len(candles) \in Nat \ {0}
           /\ \A i \in 1 .. Len(candles) : candles[i].ts \in Nat /\ candles[i].close \in Nat
<1>1. \A i \in 1 .. Len(candles) : candles[i] \in Candle
  BY ElementOfSeq DEF CandlesOK
<1>2. \A i \in 1 .. Len(candles) : candles[i].ts \in Nat /\ candles[i].close \in Nat
  BY <1>1, BoundsAssumption DEF Candle
<1> QED
  BY <1>2, EmptySeq DEF CandlesOK, Last

-----------------------------------------------------------------------------
(***************************************************************************)
(* percent_move.                                                           *)
(***************************************************************************)

\* percent_move takes a candle of its window, and one that is not the newest
\* unless the threshold is reached without a move.
LEMMA MovesAreInWindow == IInv => MovesWithinWindow
<1> SUFFICES ASSUME IInv, NEW r \in Fired("percent_move"), r.percent_threshold > 0
             PROVE  \E i \in 1 .. Len(candles) - 1 :
                        /\ Last(candles).ts - candles[i].ts <= r.window
                        /\ Size(Last(candles).close - candles[i].close) * 100
                             >= r.percent_threshold * candles[i].close
  BY DEF MovesWithinWindow
<1>1. r \in DOMAIN fired /\ r.type = "percent_move"
  BY DEF Fired
<1>2. r \in Rules /\ candles # <<>> /\ percent_move(r, candles)
  BY <1>1, FiredMatches, Classes
<1>3. r.percent_threshold \in Int /\ r.window \in Int /\ r.window >= 0
  BY <1>1, <1>2, NumbersAssumption DEF percent_move
<1> DEFINE n == Len(candles)
           start == Last(candles).ts - r.window
           old == {i \in DOMAIN candles : candles[i].ts >= start}
           first == CHOOSE i \in old : \A j \in old : i <= j
<1>4. /\ Last(candles) = candles[n] /\ n \in Nat \ {0} /\ DOMAIN candles = 1 .. n
      /\ \A i \in 1 .. n : candles[i].ts \in Nat /\ candles[i].close \in Nat
  BY <1>2, LastCandle DEF IInv, CandlesOK
<1>5. n \in old /\ old \in SUBSET Nat
  BY <1>3, <1>4
<1>6. first \in old
  <2> HIDE DEF old
  <2>1. \E i \in old : \A j \in old : i <= j
    BY <1>5, LeastNumber
  <2> QED
    BY <2>1
<1>7. OldCandle(candles, start) = candles[first]
  BY DEF OldCandle
<1>8. Moves(candles[first].close, candles[n].close, r.percent_threshold)
  BY <1>2, <1>4, <1>7 DEF percent_move
<1>9. first \in 1 .. n /\ candles[first].ts >= start
  BY <1>4, <1>6
<1> HIDE DEF first, old
<1>10. first # n
  <2> SUFFICES ASSUME first = n PROVE FALSE
    OBVIOUS
  <2> DEFINE c == candles[n].close
  <2>1. c \in Nat /\ c # 0 /\ Size(c - c) * 100 >= r.percent_threshold * c
    BY <1>4, <1>8 DEF Moves
  <2>2. Size(c - c) = 0
    BY <2>1 DEF Size, Larger
  <2>3. c \in Nat \ {0} /\ 0 >= r.percent_threshold * c
    BY <2>1, <2>2
  <2> HIDE DEF c
  <2>4. r.percent_threshold * c > 0
    BY <1>3, <2>3
  <2>5. r.percent_threshold * c \in Int
    BY <1>3, <2>3
  <2> QED
    BY <2>3, <2>4, <2>5
<1>11. first \in 1 .. n - 1
  <2>1. n \in Nat
    BY <1>4
  <2> HIDE DEF n
  <2> QED
    BY <1>9, <1>10, <2>1
<1>12. Last(candles).ts - candles[first].ts <= r.window
  BY <1>3, <1>4, <1>9
<1> QED
  BY <1>4, <1>8, <1>11, <1>12 DEF Moves

\* percent_move matches on a move between two candles of its window, whatever
\* candles are missing.
THEOREM MovesAreWithinWindow == Spec => []MovesWithinWindow
BY Inductive, MovesAreInWindow, PTL

\* No candle is less than an interval before the newest one.
Spaced == \A i \in 1 .. Len(candles) - 1 : candles[Len(candles)].ts - candles[i].ts >= Interval

\* Candles are added at least an interval after the newest one.
LEMMA SpacedStays ==
    ASSUME CandlesOK, Spaced, NEW close \in Closes, NEW skipped \in 0 .. 1,
           AddCandle(close, skipped)
    PROVE  Spaced'
<1> DEFINE n == Len(candles)
           ts == IF candles = <<>> THEN 0 ELSE Last(candles).ts + Interval * (1 + skipped)
           c == [ts |-> ts, close |-> close]
<1>1. candles' = Append(candles, c) /\ candles \in Seq(Candle) /\ n \in Nat
  BY DEF AddCandle, CandlesOK
<1>2. /\ Len(candles') = n + 1 /\ candles'[n + 1].ts = ts
      /\ \A i \in 1 .. n : candles'[i] = candles[i]
  BY <1>1
<1>3. CASE candles = <<>>
  <2>1. n = 0
    BY <1>3
  <2> QED
    BY <1>2, <2>1 DEF Spaced
<1>4. CASE candles # <<>>
  <2>1. /\ n \in Nat \ {0} /\ ts = candles[n].ts + Interval * (1 + skipped)
        /\ \A i \in 1 .. n : candles[i].ts \in Nat
    BY <1>4, LastCandle
  <2>2. \A i \in 1 .. n - 1 : candles[n].ts - candles[i].ts >= Interval
    BY DEF Spaced
  <2>3. Interval = 2 /\ Interval * (1 + skipped) \in Nat /\ Interval * (1 + skipped) >= Interval
    BY DEF Interval
  <2> HIDE DEF n, ts, c
  <2>4. ASSUME NEW i \in 1 .. n PROVE ts - candles[i].ts >= Interval
    <3>1. i = n \/ i \in 1 .. n - 1
      BY <2>1
    <3>2. candles[n].ts \in Nat /\ candles[i].ts \in Nat
      BY <2>1
    <3>3. candles[n].ts >= candles[i].ts
      BY <2>2, <2>3, <3>1, <3>2
    <3> QED
      BY <2>1, <2>3, <3>2, <3>3
  <2>5. Len(candles') - 1 = n
    BY <1>2, <2>1
  <2> QED
    BY <1>2, <2>4, <2>5 DEF Spaced
<1> QED
  BY <1>3, <1>4

\* A window below one interval, such as the 300 s of the README's example, holds
\* the candle itself only: percent_move is accepted with it and never matches.
\* (A threshold of 0 or less is reached without a move.)
ShortWindowNeverMatches ==
    \A r \in Fired("percent_move") : r.percent_threshold > 0 => r.window >= Interval

\* percent_move never matches with a window below one interval: by induction over
\* the table, its candles are an interval apart.
THEOREM ShortWindowsNeverMatch == Spec => []ShortWindowNeverMatches
<1>1. Init => Spaced
  BY DEF Init, Spaced
<1>2. IInv /\ Spaced /\ [Next]_vars => Spaced'
  <2>1. ASSUME IInv, Spaced, Next PROVE Spaced'
    BY <2>1, SpacedStays DEF Next, IInv
  <2>2. ASSUME Spaced, UNCHANGED vars PROVE Spaced'
    BY <2>2 DEF Spaced, vars
  <2> QED
    BY <2>1, <2>2
<1>3. IInv /\ Spaced /\ MovesWithinWindow => ShortWindowNeverMatches
  <2> SUFFICES ASSUME IInv, Spaced, MovesWithinWindow, NEW r \in Fired("percent_move"),
                      r.percent_threshold > 0
               PROVE  r.window >= Interval
    BY DEF ShortWindowNeverMatches
  <2>1. PICK i \in 1 .. Len(candles) - 1 : Last(candles).ts - candles[i].ts <= r.window
    BY DEF MovesWithinWindow
  <2>2. r \in Rules /\ candles # <<>> /\ CandlesOK /\ r.type = "percent_move"
    BY FiredMatches DEF Fired, IInv
  <2>3. /\ Last(candles) = candles[Len(candles)] /\ Len(candles) \in Nat \ {0}
        /\ \A j \in 1 .. Len(candles) : candles[j].ts \in Nat
    BY <2>2, LastCandle
  <2>4. candles[Len(candles)].ts - candles[i].ts >= Interval
    BY DEF Spaced
  <2>5. candles[Len(candles)].ts \in Nat /\ candles[i].ts \in Nat /\ r.window \in Int
    BY <2>2, <2>3, NumbersAssumption
  <2> QED
    BY <2>1, <2>3, <2>4, <2>5 DEF Interval
<1> QED
  BY <1>1, <1>2, <1>3, Inductive, MovesAreWithinWindow, PTL DEF Spec

-----------------------------------------------------------------------------
(***************************************************************************)
(* The tables that are read, and the recursive averages over them.         *)
(***************************************************************************)

\* The last n values of a sequence; all of a sequence that is not longer.
LEMMA NewestValues ==
    ASSUME NEW S, NEW s \in Seq(S), NEW n \in Nat
    PROVE  /\ Newest(n, s) \in Seq(S) /\ Len(Newest(n, s)) = Smaller(n, Len(s))
           /\ \A i \in 1 .. Len(Newest(n, s)) :
                  Newest(n, s)[i] = s[i + (Len(s) - Len(Newest(n, s)))]
           /\ n >= Len(s) => Newest(n, s) = s
<1> DEFINE l == Len(s)
           m == Larger(1, l - n + 1)
<1>1. l \in Nat /\ \A i \in 1 .. l : s[i] \in S
  BY LenProperties, ElementOfSeq
<1>2. m \in Int /\ m >= 1 /\ IF l >= n THEN m = l - n + 1 ELSE m = 1
  BY <1>1 DEF Larger
<1>3. Newest(n, s) = SubSeq(s, m, l)
  BY DEF Newest
<1> HIDE DEF l, m
<1>4. /\ SubSeq(s, m, l) \in Seq(S)
      /\ Len(SubSeq(s, m, l)) = IF m <= l THEN l - m + 1 ELSE 0
      /\ \A i \in 1 .. l - m + 1 : SubSeq(s, m, l)[i] = s[m + i - 1]
  <2>1. m \in Int /\ l \in Int /\ \A i \in m .. l : s[i] \in S
    BY <1>1, <1>2
  <2> QED
    BY <2>1, SubSeqProperties
<1>5. Len(Newest(n, s)) = Smaller(n, l)
  BY <1>1, <1>2, <1>3, <1>4 DEF Smaller
<1>6. \A i \in 1 .. Len(Newest(n, s)) : Newest(n, s)[i] = s[i + (l - Len(Newest(n, s)))]
  BY <1>1, <1>2, <1>3, <1>4, <1>5 DEF Smaller
<1>7. n >= l => Newest(n, s) = s
  <2>1. n >= l => m = 1
    BY <1>1, <1>2
  <2> QED
    BY <1>3, <2>1, SubSeqFull DEF l
<1> QED
  BY <1>3, <1>4, <1>5, <1>6, <1>7 DEF l

\* A step of the EMA stays within the rationals.
LEMMA EmaStepIsRat ==
    ASSUME NEW x \in Rat, NEW y \in Rat, NEW period \in Nat
    PROVE  EmaStep(x, y, Ratio(2, period + 1)) \in Rat
<1>1. Ratio(2, period + 1) \in Rat
  <2>1. 2 \in Int /\ period + 1 \in Int \ {0} /\ period + 1 > 0
    OBVIOUS
  <2>2. Is(Ratio(2, period + 1), 2, period + 1)
    BY <2>1, RatioValue
  <2> QED
    BY <2>2 DEF Is
<1> QED
  BY <1>1, Closed DEF EmaStep

\* calculate_ema: the mean of the first prices, then a step with every price.
LEMMA EmaEquation ==
    ASSUME NEW prices \in Seq(Rat), NEW period \in Nat \ {0}, Len(prices) >= period
    PROVE  LET e == calculate_ema(prices, period) IN
           /\ e \in Seq(Rat) /\ Len(e) = Len(prices) - period + 1
           /\ e[1] = Mean(SubSeq(prices, 1, period))
           /\ \A i \in 2 .. Len(e) :
                  e[i] = EmaStep(e[i - 1], prices[period + i - 1], Ratio(2, period + 1))
<1> DEFINE n == Len(prices) - period + 1
           mult == Ratio(2, period + 1)
           first == Mean(SubSeq(prices, 1, period))
           F(f) == [i \in 1 .. n |->
                       IF i = 1 THEN first ELSE EmaStep(f[i - 1], prices[period + i - 1], mult)]
           step == [q \in Rat \X Int |->
                       IF q[2] \in 2 .. n THEN EmaStep(q[1], prices[period + q[2] - 1], mult) ELSE Zero]
           E == CHOOSE f : f = F(f)
<1>1. n \in Nat \ {0} /\ \A i \in 1 .. n : prices[period + i - 1] \in Rat
  BY ElementOfSeq, LenProperties
<1>2. first \in Rat
  <2>1. 1 \in 1 .. Len(prices) /\ period \in 1 .. Len(prices)
    BY LenProperties
  <2>2. SubSeq(prices, 1, period) \in Seq(Rat) /\ SubSeq(prices, 1, period) # <<>>
    BY <2>1, SubSequence
  <2> QED
    BY <2>2, MeanIsRat
<1>3. \A x, y \in Rat : EmaStep(x, y, mult) \in Rat
  BY EmaStepIsRat
<1>4. calculate_ema(prices, period) = SubSeq(E, 1, n)
  <2>1. ~(Len(prices) < period)
    BY LenProperties
  <2> QED
    BY <2>1, Zenon DEF calculate_ema
<1> HIDE DEF n, mult, first
<1>5. step \in [Rat \X Int -> Rat]
  <2>1. ASSUME NEW q \in Rat \X Int
        PROVE  (IF q[2] \in 2 .. n THEN EmaStep(q[1], prices[period + q[2] - 1], mult) ELSE Zero) \in Rat
    <3>1. q[1] \in Rat /\ Zero \in Rat
      BY DEF Zero, Num, Rat
    <3>2. \A i \in 2 .. n : prices[period + i - 1] \in Rat
      <4>1. \A i \in 2 .. n : i \in 1 .. n
        OBVIOUS
      <4> QED
        BY <1>1, <4>1, Zenon
    <3>3. q[2] \in 2 .. n => EmaStep(q[1], prices[period + q[2] - 1], mult) \in Rat
      BY <1>3, <3>1, <3>2, Zenon
    <3> QED
      BY <3>1, <3>3
  <2> QED
    BY <2>1
<1>6. PICK f : Recursion(f, Rat, 1, n, first, step)
  <2>1. 1 \in Int /\ n \in Int
    BY <1>1
  <2> HIDE DEF step
  <2> QED
    BY <1>2, <1>5, <2>1, RecursiveFunction
<1>7. f = F(f)
  <2>1. ASSUME NEW i \in 1 .. n
        PROVE  (IF i = 1 THEN first ELSE step[<<f[i - 1], i>>])
                 = IF i = 1 THEN first ELSE EmaStep(f[i - 1], prices[period + i - 1], mult)
    <3>1. CASE i = 1
      BY <3>1
    <3>2. CASE i # 1
      <4>1. i \in 2 .. n /\ i - 1 \in 1 .. n
        BY <1>1, <3>2
      <4>2. f[i - 1] \in Rat
        BY <1>6, <4>1 DEF Recursion
      <4>3. <<f[i - 1], i>> \in Rat \X Int
        BY <4>1, <4>2
      <4>4. step[<<f[i - 1], i>>] = EmaStep(f[i - 1], prices[period + i - 1], mult)
        BY <4>1, <4>3
      <4> QED
        BY <3>2, <4>4
    <3> QED
      BY <3>1, <3>2
  <2> HIDE DEF step
  <2> QED
    BY <1>6, <2>1 DEF Recursion
<1>8. E = F(E)
  BY <1>7, Zenon
<1> HIDE DEF E
<1>9. E[1] = first /\ \A i \in 2 .. n : E[i] = EmaStep(E[i - 1], prices[period + i - 1], mult)
  BY <1>1, <1>8
<1>10. \A i \in 1 .. n : E[i] \in Rat
  <2>1. ASSUME NEW i \in 1 .. n, i # 1, E[i - 1] \in Rat PROVE E[i] \in Rat
    BY <1>1, <1>3, <1>9, <2>1
  <2>2. 1 \in Int /\ n \in Int /\ E[1] \in Rat
    BY <1>1, <1>2, <1>9
  <2> QED
    BY <2>1, <2>2, ValuesStay, Zenon
<1>11. /\ SubSeq(E, 1, n) \in Seq(Rat) /\ Len(SubSeq(E, 1, n)) = n
       /\ \A i \in 1 .. n : SubSeq(E, 1, n)[i] = E[i]
  <2>1. 1 \in Int /\ n \in Int
    BY <1>1
  <2>2. /\ SubSeq(E, 1, n) \in Seq(Rat)
        /\ Len(SubSeq(E, 1, n)) = IF 1 <= n THEN n - 1 + 1 ELSE 0
        /\ \A i \in 1 .. n - 1 + 1 : SubSeq(E, 1, n)[i] = E[1 + i - 1]
    BY <1>10, <2>1, SubSeqProperties
  <2> QED
    BY <1>1, <2>2
<1>12. \A i \in 2 .. n : SubSeq(E, 1, n)[i] =
                            EmaStep(SubSeq(E, 1, n)[i - 1], prices[period + i - 1], mult)
  <2>1. ASSUME NEW i \in 2 .. n PROVE i \in 1 .. n /\ i - 1 \in 1 .. n
    BY <1>1
  <2> QED
    BY <1>9, <1>11, <2>1
<1>13. SubSeq(E, 1, n)[1] = first
  BY <1>1, <1>9, <1>11
<1> QED
  BY <1>4, <1>11, <1>12, <1>13 DEF n, mult, first

\* The prices of a table.
LEMMA PricesOf ==
    ASSUME NEW cs \in Seq(Candle)
    PROVE  /\ Prices(cs) \in Seq(Rat) /\ Len(Prices(cs)) = Len(cs)
           /\ \A i \in 1 .. Len(cs) : cs[i].close \in Nat /\ Prices(cs)[i] = Num(cs[i].close)
<1>1. DOMAIN cs = 1 .. Len(cs) /\ Len(cs) \in Nat
  BY LenProperties
<1>2. \A i \in 1 .. Len(cs) : cs[i].close \in Nat
  <2>1. \A i \in 1 .. Len(cs) : cs[i] \in Candle
    BY ElementOfSeq
  <2> QED
    BY <2>1, BoundsAssumption DEF Candle
<1>3. Prices(cs) \in [1 .. Len(cs) -> Rat]
  BY <1>1, <1>2 DEF Prices, Num, Rat
<1>4. \A i \in 1 .. Len(cs) : Prices(cs)[i] = Num(cs[i].close)
  BY <1>1 DEF Prices
<1> QED
  BY <1>1, <1>2, <1>3, <1>4, FunctionIsSequence

-----------------------------------------------------------------------------
(***************************************************************************)
(* macd_cross.                                                             *)
(***************************************************************************)

\* The two averages are aligned at their ends.
LEMMA AlignedValues ==
    ASSUME NEW f \in Seq(Rat), NEW s \in Seq(Rat)
    PROVE  LET a == Aligned(f, s) IN
           /\ a \in Seq(Rat) /\ Len(a) = Smaller(Len(f), Len(s))
           /\ \A i \in 1 .. Len(a) :
                  a[i] = Minus(f[i + (Len(f) - Len(a))], s[i + (Len(s) - Len(a))])
<1> DEFINE n == Smaller(Len(f), Len(s))
           F == Newest(n, f)
           S == Newest(n, s)
<1>1. n \in Nat /\ n <= Len(f) /\ n <= Len(s) /\ Len(f) \in Nat /\ Len(s) \in Nat
  BY LenProperties DEF Smaller
<1>2. Smaller(n, Len(f)) = n /\ Smaller(n, Len(s)) = n
  BY <1>1 DEF Smaller
<1>3. F \in Seq(Rat) /\ Len(F) = n /\ \A i \in 1 .. n : F[i] = f[i + (Len(f) - n)]
  <2> HIDE DEF n
  <2>1. /\ F \in Seq(Rat) /\ Len(F) = Smaller(n, Len(f))
        /\ \A i \in 1 .. Len(F) : F[i] = f[i + (Len(f) - Len(F))]
    BY <1>1, NewestValues
  <2> HIDE DEF F
  <2> QED
    BY <1>2, <2>1
<1>4. S \in Seq(Rat) /\ Len(S) = n /\ \A i \in 1 .. n : S[i] = s[i + (Len(s) - n)]
  <2> HIDE DEF n
  <2>1. /\ S \in Seq(Rat) /\ Len(S) = Smaller(n, Len(s))
        /\ \A i \in 1 .. Len(S) : S[i] = s[i + (Len(s) - Len(S))]
    BY <1>1, NewestValues
  <2> HIDE DEF S
  <2> QED
    BY <1>2, <2>1
<1>5. Aligned(f, s) = Differences(F, S)
  BY DEF Aligned
<1> HIDE DEF n, F, S
<1>6. DOMAIN F = 1 .. n /\ \A i \in 1 .. n : F[i] \in Rat /\ S[i] \in Rat
  BY <1>3, <1>4, LenProperties, ElementOfSeq
<1>7. \A i \in 1 .. n : Minus(F[i], S[i]) \in Rat
  BY <1>6, Closed
<1>8. Differences(F, S) = [i \in 1 .. n |-> Minus(F[i], S[i])]
  BY <1>6 DEF Differences
<1>9. Differences(F, S) \in [1 .. n -> Rat]
  BY <1>7, <1>8
<1>10. Aligned(f, s) \in Seq(Rat) /\ Len(Aligned(f, s)) = n
  BY <1>1, <1>5, <1>9, FunctionIsSequence
<1>11. \A i \in 1 .. n : Aligned(f, s)[i] = Minus(f[i + (Len(f) - n)], s[i + (Len(s) - n)])
  BY <1>3, <1>4, <1>5, <1>8
<1> QED
  BY <1>10, <1>11 DEF n

\* The lengths of table with which calculate_macd has a result.
Enough(n, fast, slow, signal) ==
    n >= slow + signal /\ n >= slow + fast - 1 /\ n >= fast + signal - 1
Line(prices, fast, slow) == Aligned(calculate_ema(prices, fast), calculate_ema(prices, slow))

\* The MACD line begins where the slower of its two averages does.
LEMMA LineValues ==
    ASSUME NEW prices \in Seq(Rat), NEW fast \in Nat \ {0}, NEW slow \in Nat \ {0},
           Len(prices) >= fast, Len(prices) >= slow
    PROVE  LET n == Len(prices)
               f == calculate_ema(prices, fast)
               s == calculate_ema(prices, slow)
               line == Line(prices, fast, slow)
           IN /\ line \in Seq(Rat) /\ Len(line) = n + 1 - Larger(fast, slow)
              /\ \A i \in 1 .. Len(line) : line[i] = Minus(f[i + (Larger(fast, slow) - fast)],
                                                           s[i + (Larger(fast, slow) - slow)])
<1> DEFINE n == Len(prices)
           f == calculate_ema(prices, fast)
           s == calculate_ema(prices, slow)
<1>1. n \in Nat /\ f \in Seq(Rat) /\ s \in Seq(Rat) /\ Len(f) = n - fast + 1 /\ Len(s) = n - slow + 1
  BY EmaEquation, LenProperties
<1>2. Line(prices, fast, slow) = Aligned(f, s)
  BY DEF Line
<1> HIDE DEF n, f, s
<1>3. /\ Aligned(f, s) \in Seq(Rat) /\ Len(Aligned(f, s)) = Smaller(Len(f), Len(s))
      /\ \A i \in 1 .. Len(Aligned(f, s)) :
             Aligned(f, s)[i] = Minus(f[i + (Len(f) - Len(Aligned(f, s)))],
                                      s[i + (Len(s) - Len(Aligned(f, s)))])
  BY <1>1, AlignedValues
<1>4. /\ Len(Aligned(f, s)) = n + 1 - Larger(fast, slow)
      /\ Len(f) - Len(Aligned(f, s)) = Larger(fast, slow) - fast
      /\ Len(s) - Len(Aligned(f, s)) = Larger(fast, slow) - slow
  BY <1>1, <1>3 DEF Smaller, Larger
<1> QED
  BY <1>2, <1>3, <1>4 DEF n, f, s

\* The two lines, in one formula.
LEMMA MacdResult ==
    ASSUME NEW prices \in Seq(Rat),
           NEW fast \in Nat \ {0}, NEW slow \in Nat \ {0}, NEW signal \in Nat \ {0}
    PROVE  calculate_macd(prices, fast, slow, signal) =
             IF Enough(Len(prices), fast, slow, signal)
             THEN [line |-> Line(prices, fast, slow),
                   signal |-> calculate_ema(Line(prices, fast, slow), signal)]
             ELSE NoMacd
<1> DEFINE n == Len(prices)
           f == calculate_ema(prices, fast)
           s == calculate_ema(prices, slow)
           line == Line(prices, fast, slow)
<1>1. n \in Nat
  BY LenProperties
<1>2. CASE n < slow + signal
  <2>1. ~Enough(n, fast, slow, signal)
    BY <1>1, <1>2 DEF Enough
  <2> QED
    BY <1>2, <2>1 DEF calculate_macd
<1>3. CASE n >= slow + signal /\ n < slow + fast - 1
  <2>1. ~Enough(n, fast, slow, signal) /\ ~(n < slow + signal)
    BY <1>1, <1>3 DEF Enough
  <2>2. Len(f) < slow
    <3>1. CASE n < fast
      <4>1. f = <<>> /\ Len(f) = 0
        BY <3>1 DEF calculate_ema
      <4> QED
        BY <4>1
    <3>2. CASE n >= fast
      BY <1>1, <1>3, <3>2, EmaEquation
    <3> QED
      BY <1>1, <3>1, <3>2
  <2>3. calculate_macd(prices, fast, slow, signal) = NoMacd
    BY <2>1, <2>2 DEF calculate_macd, MacdOf
  <2> QED
    BY <2>1, <2>3
<1>4. CASE n >= slow + signal /\ n >= slow + fast - 1
  <2>1. n >= fast /\ n >= slow /\ ~(n < slow + signal) /\ Len(f) = n - fast + 1
    BY <1>1, <1>4, EmaEquation
  <2>2. calculate_macd(prices, fast, slow, signal) = SignalOf(line, signal)
    <3>1. ~(Len(f) < slow)
      BY <1>1, <1>4, <2>1
    <3> QED
      BY <2>1, <3>1 DEF calculate_macd, MacdOf, Line
  <2>3. line \in Seq(Rat) /\ Len(line) = n + 1 - Larger(fast, slow)
    BY <2>1, LineValues
  <2>4. Len(line) >= signal <=> Enough(n, fast, slow, signal)
    BY <1>1, <1>4, <2>3 DEF Enough, Larger
  <2> HIDE DEF line
  <2>5. CASE Len(line) >= signal
    <3>1. calculate_ema(line, signal) # <<>>
      <4>1. Len(calculate_ema(line, signal)) = Len(line) - signal + 1 /\ Len(line) \in Nat
        BY <2>3, <2>5, EmaEquation, LenProperties
      <4>2. Len(calculate_ema(line, signal)) # 0
        BY <2>5, <4>1
      <4> QED
        BY <4>2, EmptySeq
    <3> QED
      BY <2>2, <2>4, <2>5, <3>1 DEF SignalOf, WithSignal, line
  <2>6. CASE Len(line) < signal
    <3>1. calculate_ema(line, signal) = <<>>
      BY <2>6 DEF calculate_ema
    <3>2. ~(Len(line) >= signal)
      BY <1>1, <2>3, <2>6 DEF Larger
    <3> QED
      BY <2>2, <2>4, <3>1, <3>2 DEF SignalOf, WithSignal
  <2>7. Len(line) \in Int
    BY <1>1, <2>3 DEF Larger
  <2> QED
    BY <2>5, <2>6, <2>7
<1> QED
  BY <1>1, <1>2, <1>3, <1>4

\* What macd_cross reads.
LEMMA MacdTableOK ==
    ASSUME NEW cs \in Seq(Candle)
    PROVE  /\ Prices(MacdTable(cs)) \in Seq(Rat)
           /\ Len(Prices(MacdTable(cs))) = Smaller(MacdLimit, Len(cs))
           /\ Len(cs) <= MacdLimit => MacdTable(cs) = cs
<1>1. /\ MacdTable(cs) \in Seq(Candle) /\ Len(MacdTable(cs)) = Smaller(MacdLimit, Len(cs))
      /\ MacdLimit >= Len(cs) => MacdTable(cs) = cs
  BY NewestValues, BoundsAssumption DEF MacdTable
<1> QED
  BY <1>1, PricesOf, LenProperties, BoundsAssumption

\* A match has lines of two values at least.
LEMMA MacdMatch ==
    ASSUME NEW cs \in Seq(Candle), NEW r \in Rules, r.type = "macd_cross", macd_cross(r, cs)
    PROVE  LET prices == Prices(MacdTable(cs)) IN
           /\ r.fast \in Nat \ {0} /\ r.slow \in Nat \ {0} /\ r.signal \in Nat \ {0}
           /\ prices \in Seq(Rat) /\ Len(prices) = Smaller(MacdLimit, Len(cs))
           /\ Enough(Len(prices), r.fast, r.slow, r.signal)
           /\ Len(prices) >= r.fast + r.signal
           /\ MacdCrosses([line |-> Line(prices, r.fast, r.slow),
                           signal |-> calculate_ema(Line(prices, r.fast, r.slow), r.signal)],
                          r.crossover)
<1> DEFINE prices == Prices(MacdTable(cs))
           macd == calculate_macd(prices, r.fast, r.slow, r.signal)
           line == Line(prices, r.fast, r.slow)
<1>1. r.fast \in Nat \ {0} /\ r.slow \in Nat \ {0} /\ r.signal \in Nat \ {0}
  BY NumbersAssumption DEF macd_cross
<1>2. prices \in Seq(Rat) /\ Len(prices) = Smaller(MacdLimit, Len(cs)) /\ Len(prices) \in Nat
  BY MacdTableOK, LenProperties
<1>3. MacdCrosses(macd, r.crossover)
  BY DEF macd_cross
<1> HIDE DEF prices
<1>4. Len(macd.signal) >= 2
  BY <1>3 DEF MacdCrosses, CrossesOver
<1>5. Enough(Len(prices), r.fast, r.slow, r.signal)
  <2>1. Len(NoMacd.signal) = 0
    BY DEF NoMacd
  <2> QED
    BY <1>1, <1>2, <1>4, <2>1, MacdResult
<1>6. macd = [line |-> line, signal |-> calculate_ema(line, r.signal)]
  BY <1>1, <1>2, <1>5, MacdResult
<1>7. Len(prices) >= r.fast + r.signal
  <2>1. line \in Seq(Rat) /\ Len(line) = Len(prices) + 1 - Larger(r.fast, r.slow)
    <3>1. Len(prices) >= r.fast /\ Len(prices) >= r.slow
      BY <1>1, <1>2, <1>5 DEF Enough
    <3> QED
      BY <1>1, <1>2, <3>1, LineValues
  <2>2. Len(line) >= r.signal
    BY <1>1, <1>2, <1>5, <2>1 DEF Enough, Larger
  <2> HIDE DEF line
  <2>3. Len(calculate_ema(line, r.signal)) = Len(line) - r.signal + 1
    BY <1>1, <2>1, <2>2, EmaEquation
  <2>4. Len(line) - r.signal + 1 >= 2
    BY <1>4, <1>6, <2>3
  <2> QED
    BY <1>1, <1>2, <2>1, <2>4 DEF Larger
<1> QED
  BY <1>1, <1>2, <1>3, <1>5, <1>6, <1>7 DEF prices

\* A crossing needs two values of the signal line, so every test of the
\* calculation was passed.
LEMMA MacdHasItsCandles == IInv => MacdNeedsItsCandles
<1> SUFFICES ASSUME IInv, NEW r \in Fired("macd_cross"), NEW n \in {Len(candles), MacdLimit}
             PROVE  /\ n >= r.slow + r.signal
                    /\ n >= r.slow + r.fast - 1
                    /\ n >= r.fast + r.signal
  BY DEF MacdNeedsItsCandles
<1>1. r \in DOMAIN fired /\ r.type = "macd_cross"
  BY DEF Fired
<1>2. r \in Rules /\ macd_cross(r, candles) /\ candles \in Seq(Candle) /\ Len(candles) \in Nat
  BY <1>1, FiredMatches, Classes DEF IInv, CandlesOK
<1> DEFINE l == Len(Prices(MacdTable(candles)))
<1>3. /\ l = Smaller(MacdLimit, Len(candles)) /\ Enough(l, r.fast, r.slow, r.signal)
      /\ l >= r.fast + r.signal /\ r.fast \in Nat /\ r.slow \in Nat /\ r.signal \in Nat
  BY <1>1, <1>2, MacdMatch
<1>4. l <= n /\ l \in Nat /\ n \in Nat
  BY <1>2, <1>3, BoundsAssumption DEF Smaller
<1> HIDE DEF l
<1> QED
  BY <1>3, <1>4 DEF Enough

\* macd_cross never matches with periods that need more candles than it reads, and
\* it needs more than the slow + signal it asks for.
THEOREM MacdAlwaysNeedsItsCandles == Spec => []MacdNeedsItsCandles
BY Inductive, MacdHasItsCandles, PTL

-----------------------------------------------------------------------------
(***************************************************************************)
(* With one more price every indicator has one more value, and the others  *)
(* stay.                                                                   *)
(***************************************************************************)

OneLonger(s, t) == Len(t) = Len(s) + 1 /\ \A i \in 1 .. Len(s) : t[i] = s[i]

\* What was the last value is the one before the last.
LEMMA PreviousIsLast ==
    ASSUME NEW S, NEW s \in Seq(S), NEW t \in Seq(S), OneLonger(s, t), s # <<>>
    PROVE  FromEnd(t, 2) = FromEnd(s, 1) /\ FromEnd(s, 1) \in S
<1>1. Len(s) \in Nat \ {0} /\ Len(s) + 1 - 1 = Len(s) /\ (Len(s) + 1) + 1 - 2 = Len(s)
  BY EmptySeq
<1>2. FromEnd(s, 1) = s[Len(s)] /\ FromEnd(t, 2) = t[Len(s)]
  BY <1>1 DEF FromEnd, OneLonger
<1>3. Len(s) \in 1 .. Len(s)
  BY <1>1
<1> QED
  BY <1>2, <1>3, ElementOfSeq DEF OneLonger

\* A candle adds a price.
LEMMA PricesOneLonger ==
    ASSUME NEW cs \in Seq(Candle), NEW c \in Candle
    PROVE  OneLonger(Prices(cs), Prices(Append(cs, c)))
<1> DEFINE ds == Append(cs, c)
<1>1. /\ ds \in Seq(Candle) /\ Len(ds) = Len(cs) + 1 /\ Len(cs) \in Nat
      /\ \A i \in 1 .. Len(cs) : ds[i] = cs[i]
  BY AppendProperties, LenProperties
<1> HIDE DEF ds
<1>2. \A i \in 1 .. Len(cs) : Prices(ds)[i] = Prices(cs)[i]
  <2> SUFFICES ASSUME NEW i \in 1 .. Len(cs) PROVE Prices(ds)[i] = Prices(cs)[i]
    OBVIOUS
  <2>1. Prices(cs)[i] = Num(cs[i].close)
    BY PricesOf
  <2>2. i \in 1 .. Len(ds)
    BY <1>1
  <2>3. Prices(ds)[i] = Num(ds[i].close)
    BY <1>1, <2>2, PricesOf
  <2> QED
    BY <1>1, <2>1, <2>3
<1>3. Len(Prices(cs)) = Len(cs) /\ Len(Prices(ds)) = Len(ds)
  BY <1>1, PricesOf
<1> QED
  BY <1>1, <1>2, <1>3 DEF OneLonger, ds

\* The first values stay.
LEMMA SameStart ==
    ASSUME NEW S, NEW s \in Seq(S), NEW t \in Seq(S), OneLonger(s, t), NEW n \in 1 .. Len(s)
    PROVE  SubSeq(t, 1, n) = SubSeq(s, 1, n)
<1>1. /\ Len(s) \in Nat /\ Len(t) = Len(s) + 1 /\ 1 \in 1 .. Len(s) /\ 1 \in 1 .. Len(t)
      /\ n \in 1 .. Len(t) /\ n - 1 + 1 = n
      /\ \A i \in 1 .. n : 1 + i - 1 = i /\ i \in 1 .. Len(s)
  BY LenProperties DEF OneLonger
<1>2. /\ SubSeq(s, 1, n) \in Seq(S) /\ Len(SubSeq(s, 1, n)) = n
      /\ \A i \in 1 .. n : SubSeq(s, 1, n)[i] = s[i]
  BY <1>1, SubSequence
<1>3. /\ SubSeq(t, 1, n) \in Seq(S) /\ Len(SubSeq(t, 1, n)) = n
      /\ \A i \in 1 .. n : SubSeq(t, 1, n)[i] = t[i]
  BY <1>1, SubSequence
<1>4. \A i \in 1 .. n : SubSeq(t, 1, n)[i] = SubSeq(s, 1, n)[i]
  BY <1>1, <1>2, <1>3 DEF OneLonger
<1> QED
  BY <1>2, <1>3, <1>4, SeqEqual

\* A price adds a value to an EMA and leaves the others.
LEMMA EmaOneLonger ==
    ASSUME NEW s \in Seq(Rat), NEW t \in Seq(Rat), OneLonger(s, t),
           NEW period \in Nat \ {0}, Len(s) >= period
    PROVE  OneLonger(calculate_ema(s, period), calculate_ema(t, period))
<1> DEFINE n == Len(s) - period + 1
           e == calculate_ema(s, period)
           f == calculate_ema(t, period)
           mult == Ratio(2, period + 1)
<1>1. /\ Len(s) \in Nat /\ Len(t) = Len(s) + 1 /\ Len(t) >= period /\ n \in Nat \ {0}
      /\ period \in 1 .. Len(s)
  BY LenProperties DEF OneLonger
<1>2. /\ Len(e) = n /\ e[1] = Mean(SubSeq(s, 1, period))
      /\ \A i \in 2 .. Len(e) : e[i] = EmaStep(e[i - 1], s[period + i - 1], mult)
  BY <1>1, EmaEquation
<1>3. /\ Len(f) = n + 1 /\ f[1] = Mean(SubSeq(t, 1, period))
      /\ \A i \in 2 .. Len(f) : f[i] = EmaStep(f[i - 1], t[period + i - 1], mult)
  <2>1. Len(f) = Len(t) - period + 1
    BY <1>1, EmaEquation
  <2>2. /\ f[1] = Mean(SubSeq(t, 1, period))
        /\ \A i \in 2 .. Len(f) : f[i] = EmaStep(f[i - 1], t[period + i - 1], mult)
    BY <1>1, EmaEquation
  <2>3. Len(t) - period + 1 = n + 1
    BY <1>1
  <2> QED
    BY <2>1, <2>2, <2>3
<1>4. f[1] = e[1]
  BY <1>1, <1>2, <1>3, SameStart
<1>5. \A i \in 1 .. n : i # 1 => i \in 2 .. n /\ i \in 2 .. n + 1 /\ period + i - 1 \in 1 .. Len(s)
  BY <1>1
<1> HIDE DEF n, e, f, mult
<1>6. ASSUME NEW i \in 1 .. n, i # 1, Agree(f, e, i - 1) PROVE Agree(f, e, i)
  <2>1. t[period + i - 1] = s[period + i - 1]
    BY <1>5, <1>6 DEF OneLonger
  <2>2. i \in 2 .. n /\ i \in 2 .. n + 1
    BY <1>5, <1>6
  <2>3. e[i] = EmaStep(e[i - 1], s[period + i - 1], mult)
    BY <1>2, <2>2
  <2>4. f[i] = EmaStep(f[i - 1], t[period + i - 1], mult)
    BY <1>3, <2>2
  <2> QED
    BY <1>6, <2>1, <2>3, <2>4 DEF Agree
<1>7. \A i \in 1 .. n : Agree(f, e, i)
  <2>1. 1 \in Int /\ n \in Int /\ Agree(f, e, 1)
    BY <1>1, <1>4 DEF Agree
  <2> QED
    BY <1>6, <2>1, SameValues, Zenon
<1> QED
  BY <1>2, <1>3, <1>7 DEF Agree, OneLonger, e, f

\* And to the MACD line.
LEMMA LineOneLonger ==
    ASSUME NEW s \in Seq(Rat), NEW t \in Seq(Rat), OneLonger(s, t),
           NEW fast \in Nat \ {0}, NEW slow \in Nat \ {0}, Len(s) >= fast, Len(s) >= slow
    PROVE  OneLonger(Line(s, fast, slow), Line(t, fast, slow))
<1> DEFINE l == Larger(fast, slow)
           n == Len(s)
           a == Line(s, fast, slow)
           b == Line(t, fast, slow)
           F == calculate_ema(s, fast)
           G == calculate_ema(t, fast)
           S == calculate_ema(s, slow)
           T == calculate_ema(t, slow)
<1>1. /\ n \in Nat /\ Len(t) = n + 1 /\ Len(t) >= fast /\ Len(t) >= slow
      /\ l \in Nat /\ l >= fast /\ l >= slow /\ n >= l /\ n + 1 - l \in Nat
  BY LenProperties DEF OneLonger, Larger
<1>2. /\ Len(a) = n + 1 - l
      /\ \A i \in 1 .. Len(a) : a[i] = Minus(F[i + (l - fast)], S[i + (l - slow)])
  BY <1>1, LineValues
<1>3. /\ Len(b) = (n + 1) + 1 - l
      /\ \A i \in 1 .. Len(b) : b[i] = Minus(G[i + (l - fast)], T[i + (l - slow)])
  <2>1. /\ Len(b) = Len(t) + 1 - l
        /\ \A i \in 1 .. Len(b) : b[i] = Minus(G[i + (l - fast)], T[i + (l - slow)])
    <3>1. Len(t) >= fast /\ Len(t) >= slow
      BY <1>1
    <3> QED
      BY <3>1, LineValues
  <2> QED
    BY <1>1, <2>1
<1>4. Len(F) = n - fast + 1 /\ Len(S) = n - slow + 1
  BY EmaEquation
<1>5. OneLonger(F, G) /\ OneLonger(S, T)
  BY EmaOneLonger
<1> HIDE DEF l, n, a, b, F, G, S, T
<1>6. ASSUME NEW i \in 1 .. Len(a) PROVE b[i] = a[i]
  <2>1. i \in 1 .. Len(b) /\ i + (l - fast) \in 1 .. Len(F) /\ i + (l - slow) \in 1 .. Len(S)
    BY <1>1, <1>2, <1>3, <1>4
  <2>2. G[i + (l - fast)] = F[i + (l - fast)] /\ T[i + (l - slow)] = S[i + (l - slow)]
    BY <1>5, <2>1 DEF OneLonger
  <2>3. b[i] = Minus(G[i + (l - fast)], T[i + (l - slow)])
    BY <1>3, <2>1
  <2> QED
    BY <1>2, <2>2, <2>3
<1>7. Len(b) = Len(a) + 1
  BY <1>1, <1>2, <1>3
<1> QED
  BY <1>6, <1>7 DEF OneLonger, a, b

\* One line does not cross over the other on two bars in a row.
LEMMA NoTwoCrossesOver ==
    ASSUME NEW a \in Seq(Rat), NEW b \in Seq(Rat), NEW c \in Seq(Rat), NEW d \in Seq(Rat),
           OneLonger(a, c), OneLonger(b, d)
    PROVE  ~(CrossesOver(a, b) /\ CrossesOver(c, d))
<1> SUFFICES ASSUME CrossesOver(a, b), CrossesOver(c, d) PROVE FALSE
  OBVIOUS
<1>1. Len(a) >= 2 /\ Len(b) >= 2 /\ Less(FromEnd(b, 1), FromEnd(a, 1))
  BY DEF CrossesOver
<1>2. Leq(FromEnd(c, 2), FromEnd(d, 2))
  BY DEF CrossesOver
<1>3. a # <<>> /\ b # <<>>
  BY <1>1
<1>4. /\ FromEnd(c, 2) = FromEnd(a, 1) /\ FromEnd(a, 1) \in Rat
      /\ FromEnd(d, 2) = FromEnd(b, 1) /\ FromEnd(b, 1) \in Rat
  BY <1>3, PreviousIsLast
<1> QED
  BY <1>1, <1>2, <1>4, NotBoth

\* As long as all of the table is read, the last two values of a match are the
\* values before in the next one: they cannot lie on both sides.
LEMMA MacdCrossesOnce ==
    ASSUME NEW cs \in Seq(Candle), NEW c \in Candle, NEW r \in Rules, r.type = "macd_cross",
           macd_cross(r, cs), macd_cross(r, Append(cs, c)), Len(Append(cs, c)) <= MacdLimit
    PROVE  FALSE
<1> DEFINE ds == Append(cs, c)
           s == Prices(cs)
           t == Prices(ds)
           a == Line(s, r.fast, r.slow)
           b == Line(t, r.fast, r.slow)
           e == calculate_ema(a, r.signal)
           f == calculate_ema(b, r.signal)
<1>1. ds \in Seq(Candle) /\ Len(ds) = Len(cs) + 1 /\ Len(cs) \in Nat
  BY AppendProperties, LenProperties
<1>2. MacdTable(cs) = cs /\ MacdTable(ds) = ds
  <2>1. Len(cs) <= MacdLimit
    BY <1>1, BoundsAssumption
  <2> HIDE DEF ds
  <2>2. MacdTable(cs) = cs
    BY <2>1, MacdTableOK
  <2>3. MacdTable(ds) = ds
    BY <1>1, MacdTableOK DEF ds
  <2> QED
    BY <2>2, <2>3
<1> HIDE DEF ds
<1>3. /\ r.fast \in Nat \ {0} /\ r.slow \in Nat \ {0} /\ r.signal \in Nat \ {0}
      /\ s \in Seq(Rat) /\ Enough(Len(s), r.fast, r.slow, r.signal) /\ Len(s) \in Nat
      /\ MacdCrosses([line |-> a, signal |-> e], r.crossover)
  <2> HIDE DEF a, e, s
  <2> QED
    BY <1>2, MacdMatch, LenProperties DEF a, e, s
<1>4. t \in Seq(Rat) /\ MacdCrosses([line |-> b, signal |-> f], r.crossover)
  <2> HIDE DEF b, f, t
  <2> QED
    BY <1>1, <1>2, MacdMatch DEF b, f, t, ds
<1>5. OneLonger(s, t)
  BY PricesOneLonger DEF ds
<1> HIDE DEF s, t
<1>6. Len(s) >= r.fast /\ Len(s) >= r.slow /\ Len(t) = Len(s) + 1
  BY <1>3, <1>5 DEF Enough, OneLonger
<1>7. OneLonger(a, b)
  BY <1>3, <1>4, <1>5, <1>6, LineOneLonger
<1>8. a \in Seq(Rat) /\ b \in Seq(Rat) /\ Len(a) >= r.signal /\ Len(b) >= r.signal
  <2>1. a \in Seq(Rat) /\ Len(a) = Len(s) + 1 - Larger(r.fast, r.slow)
    BY <1>3, <1>6, LineValues
  <2>2. Len(t) >= r.fast /\ Len(t) >= r.slow
    BY <1>3, <1>6
  <2>3. b \in Seq(Rat)
    BY <1>3, <1>4, <2>2, LineValues
  <2>4. Len(a) >= r.signal
    BY <1>3, <2>1 DEF Enough, Larger
  <2>5. Len(b) = Len(a) + 1 /\ Len(a) \in Nat
    BY <1>7, <2>1, LenProperties DEF OneLonger
  <2> QED
    BY <1>3, <2>1, <2>3, <2>4, <2>5
<1> HIDE DEF a, b
<1>9. OneLonger(e, f) /\ e \in Seq(Rat) /\ f \in Seq(Rat)
  BY <1>3, <1>7, <1>8, EmaOneLonger, EmaEquation
<1> HIDE DEF e, f
<1>10. CASE r.crossover = "bullish"
  <2>1. CrossesOver(a, e) /\ CrossesOver(b, f)
    BY <1>3, <1>4, <1>10 DEF MacdCrosses
  <2> QED
    BY <1>7, <1>8, <1>9, <2>1, NoTwoCrossesOver
<1>11. CASE r.crossover # "bullish"
  <2>1. CrossesOver(e, a) /\ CrossesOver(f, b)
    BY <1>3, <1>4, <1>11 DEF MacdCrosses
  <2> QED
    BY <1>7, <1>8, <1>9, <2>1, NoTwoCrossesOver
<1> QED
  BY <1>10, <1>11

-----------------------------------------------------------------------------
(***************************************************************************)
(* rsi.                                                                    *)
(***************************************************************************)

\* A step of Wilder's average of numbers that are not negative is not negative.
LEMMA WilderStepIsNonNegative ==
    ASSUME NEW x \in NonNegative, NEW y \in NonNegative, NEW period \in Nat \ {0}
    PROVE  WilderStep(x, y, period) \in NonNegative
<1>1. Num(period - 1) \in NonNegative /\ Num(period) \in NonNegative /\ Num(period)[1] > 0
  BY DEF Num, NonNegative, Rat
<1>2. Plus(Times(x, Num(period - 1)), y) \in NonNegative
  BY <1>1, NonNegativeClosed
<1> QED
  BY <1>1, <1>2, NonNegativeClosed DEF WilderStep

\* Averages: the mean of the first values, then a step with every value.
LEMMA AveragesEquation ==
    ASSUME NEW values \in Seq(NonNegative), NEW period \in Nat \ {0}, Len(values) >= period
    PROVE  LET a == Averages(values, period) IN
           /\ a \in Seq(NonNegative) /\ Len(a) = Len(values) - period + 1
           /\ a[1] = Mean(SubSeq(values, 1, period))
           /\ \A i \in 2 .. Len(a) : a[i] = WilderStep(a[i - 1], values[period + i - 1], period)
<1> DEFINE n == Len(values) - period + 1
           first == Mean(SubSeq(values, 1, period))
           F(f) == [i \in 1 .. n |->
                       IF i = 1 THEN first ELSE WilderStep(f[i - 1], values[period + i - 1], period)]
           step == [q \in NonNegative \X Int |->
                       IF q[2] \in 2 .. n THEN WilderStep(q[1], values[period + q[2] - 1], period)
                       ELSE Zero]
           E == CHOOSE f : f = F(f)
<1>1. n \in Nat \ {0} /\ \A i \in 1 .. n : values[period + i - 1] \in NonNegative
  BY ElementOfSeq, LenProperties
<1>2. first \in NonNegative
  <2>1. 1 \in 1 .. Len(values) /\ period \in 1 .. Len(values)
    BY LenProperties
  <2>2. SubSeq(values, 1, period) \in Seq(NonNegative) /\ SubSeq(values, 1, period) # <<>>
    BY <2>1, SubSequence
  <2> QED
    BY <2>2, MeanIsNonNegative
<1>3. \A x, y \in NonNegative : WilderStep(x, y, period) \in NonNegative
  BY WilderStepIsNonNegative
<1>4. Averages(values, period) = SubSeq(E, 1, n)
  BY Zenon DEF Averages
<1> HIDE DEF n, first
<1>5. step \in [NonNegative \X Int -> NonNegative]
  <2>1. ASSUME NEW q \in NonNegative \X Int
        PROVE  (IF q[2] \in 2 .. n THEN WilderStep(q[1], values[period + q[2] - 1], period) ELSE Zero)
                 \in NonNegative
    <3>1. q[1] \in NonNegative /\ Zero \in NonNegative
      BY DEF Zero, Num, NonNegative, Rat
    <3>2. \A i \in 2 .. n : values[period + i - 1] \in NonNegative
      <4>1. \A i \in 2 .. n : i \in 1 .. n
        OBVIOUS
      <4> QED
        BY <1>1, <4>1, Zenon
    <3>3. q[2] \in 2 .. n => WilderStep(q[1], values[period + q[2] - 1], period) \in NonNegative
      BY <1>3, <3>1, <3>2, Zenon
    <3> QED
      BY <3>1, <3>3
  <2> QED
    BY <2>1
<1>6. PICK f : Recursion(f, NonNegative, 1, n, first, step)
  <2>1. 1 \in Int /\ n \in Int
    BY <1>1
  <2> HIDE DEF step
  <2> QED
    BY <1>2, <1>5, <2>1, RecursiveFunction
<1>7. f = F(f)
  <2>1. ASSUME NEW i \in 1 .. n
        PROVE  (IF i = 1 THEN first ELSE step[<<f[i - 1], i>>])
                 = IF i = 1 THEN first ELSE WilderStep(f[i - 1], values[period + i - 1], period)
    <3>1. CASE i = 1
      BY <3>1
    <3>2. CASE i # 1
      <4>1. i \in 2 .. n /\ i - 1 \in 1 .. n
        BY <1>1, <3>2
      <4>2. f[i - 1] \in NonNegative
        BY <1>6, <4>1 DEF Recursion
      <4>3. <<f[i - 1], i>> \in NonNegative \X Int
        BY <4>1, <4>2
      <4>4. step[<<f[i - 1], i>>] = WilderStep(f[i - 1], values[period + i - 1], period)
        BY <4>1, <4>3
      <4> QED
        BY <3>2, <4>4
    <3> QED
      BY <3>1, <3>2
  <2> HIDE DEF step
  <2> QED
    BY <1>6, <2>1 DEF Recursion
<1>8. E = F(E)
  BY <1>7, Zenon
<1> HIDE DEF E
<1>9. E[1] = first /\ \A i \in 2 .. n : E[i] = WilderStep(E[i - 1], values[period + i - 1], period)
  BY <1>1, <1>8
<1>10. \A i \in 1 .. n : E[i] \in NonNegative
  <2>1. ASSUME NEW i \in 1 .. n, i # 1, E[i - 1] \in NonNegative PROVE E[i] \in NonNegative
    BY <1>1, <1>3, <1>9, <2>1
  <2>2. 1 \in Int /\ n \in Int /\ E[1] \in NonNegative
    BY <1>1, <1>2, <1>9
  <2> QED
    BY <2>1, <2>2, ValuesStay, Zenon
<1>11. /\ SubSeq(E, 1, n) \in Seq(NonNegative) /\ Len(SubSeq(E, 1, n)) = n
       /\ \A i \in 1 .. n : SubSeq(E, 1, n)[i] = E[i]
  <2>1. 1 \in Int /\ n \in Int
    BY <1>1
  <2>2. /\ SubSeq(E, 1, n) \in Seq(NonNegative)
        /\ Len(SubSeq(E, 1, n)) = IF 1 <= n THEN n - 1 + 1 ELSE 0
        /\ \A i \in 1 .. n - 1 + 1 : SubSeq(E, 1, n)[i] = E[1 + i - 1]
    BY <1>10, <2>1, SubSeqProperties
  <2> QED
    BY <1>1, <2>2
<1>12. \A i \in 2 .. n : SubSeq(E, 1, n)[i] =
                            WilderStep(SubSeq(E, 1, n)[i - 1], values[period + i - 1], period)
  <2>1. ASSUME NEW i \in 2 .. n PROVE i \in 1 .. n /\ i - 1 \in 1 .. n
    BY <1>1
  <2> QED
    BY <1>9, <1>11, <2>1
<1>13. SubSeq(E, 1, n)[1] = first
  BY <1>1, <1>9, <1>11
<1> QED
  BY <1>4, <1>11, <1>12, <1>13 DEF n, first

\* The gains and losses of a sequence of prices.
Gains(prices) == [i \in DOMAIN Changes(prices) |-> Gain(Changes(prices)[i])]
Losses(prices) == [i \in DOMAIN Changes(prices) |-> Loss(Changes(prices)[i])]

\* Of a change p / q, the gain is its positive part and the loss its negative one.
LEMMA GainAndLoss ==
    ASSUME NEW x, NEW p, NEW q, Is(x, p, q)
    PROVE  /\ Gain(x) \in NonNegative /\ Is(Gain(x), Larger(p, 0), q)
           /\ Loss(x) \in NonNegative /\ Is(Loss(x), Larger(-p, 0), q)
<1>1. p \in Int /\ q \in Nat \ {0} /\ x \in Rat
  BY DEF Is
<1>2. Is(Zero, 0, 1) /\ Is(Zero, 0, q) /\ Zero \in NonNegative
  <2>1. Is(Zero, 0, 1)
    BY NumValue DEF Zero
  <2>2. 0 * q = 0 * 1
    BY <1>1
  <2> QED
    BY <1>1, <2>1, <2>2, SameValue DEF Zero, Num, NonNegative, Rat
<1>3. Less(x, Zero) <=> p < 0
  <2>1. Less(x, Zero) <=> p * 1 < 0 * q
    BY <1>2, Order
  <2> QED
    BY <1>1, <2>1
<1>4. CASE p < 0
  <2>1. Is(Minus(Zero, x), -p, q)
    <3>1. Is(Minus(Zero, x), 0 * q - p * 1, 1 * q)
      BY <1>2, MinusValue
    <3>2. 0 * q - p * 1 = -p /\ 1 * q = q
      BY <1>1
    <3> QED
      BY <3>1, <3>2
  <2>2. Gain(x) = Zero /\ Loss(x) = Minus(Zero, x) /\ Larger(p, 0) = 0 /\ Larger(-p, 0) = -p /\ -p >= 0
    BY <1>1, <1>3, <1>4 DEF Gain, Loss, Larger
  <2>3. Minus(Zero, x) \in NonNegative
    <3>1. Minus(Zero, x)[1] >= 0
      BY <2>1, <2>2, Sign
    <3> QED
      BY <2>1, <3>1 DEF Is, NonNegative
  <2> QED
    BY <1>2, <2>1, <2>2, <2>3
<1>5. CASE p >= 0
  <2>1. Gain(x) = x /\ Loss(x) = Zero /\ Larger(p, 0) = p /\ Larger(-p, 0) = 0
    BY <1>1, <1>3, <1>5 DEF Gain, Loss, Larger
  <2>2. x \in NonNegative
    BY <1>1, <1>5, Sign DEF NonNegative
  <2> QED
    BY <1>2, <2>1, <2>2
<1> QED
  BY <1>1, <1>4, <1>5

\* There is a change less than prices.
LEMMA ChangesAreRat ==
    ASSUME NEW prices \in Seq(Rat), prices # <<>>
    PROVE  LET n == Len(prices) - 1 IN
           /\ n \in Nat /\ Changes(prices) \in Seq(Rat) /\ Len(Changes(prices)) = n
           /\ Gains(prices) \in Seq(NonNegative) /\ Len(Gains(prices)) = n
           /\ Losses(prices) \in Seq(NonNegative) /\ Len(Losses(prices)) = n
           /\ \A i \in 1 .. n : /\ Changes(prices)[i] = Minus(prices[i + 1], prices[i])
                                /\ Gains(prices)[i] = Gain(Changes(prices)[i])
                                /\ Losses(prices)[i] = Loss(Changes(prices)[i])
<1> DEFINE n == Len(prices) - 1
           c == Changes(prices)
<1>1. n \in Nat /\ \A i \in 1 .. n : prices[i] \in Rat /\ prices[i + 1] \in Rat
  BY EmptySeq, ElementOfSeq
<1>2. c = [i \in 1 .. n |-> Minus(prices[i + 1], prices[i])]
  BY DEF Changes
<1> HIDE DEF n, c
<1>3. c \in [1 .. n -> Rat]
  <2>1. \A i \in 1 .. n : Minus(prices[i + 1], prices[i]) \in Rat
    BY <1>1, Closed
  <2> QED
    BY <1>2, <2>1
<1>4. DOMAIN c = 1 .. n /\ \A i \in 1 .. n : Gain(c[i]) \in NonNegative /\ Loss(c[i]) \in NonNegative
  <2>1. ASSUME NEW i \in 1 .. n PROVE Gain(c[i]) \in NonNegative /\ Loss(c[i]) \in NonNegative
    <3>1. c[i] \in Rat
      BY <1>3
    <3>2. Is(c[i], c[i][1], c[i][2])
      BY <3>1, SelfValue
    <3> QED
      BY <3>2, GainAndLoss
  <2> QED
    BY <1>3, <2>1
<1>5. Gains(prices) = [i \in 1 .. n |-> Gain(c[i])] /\ Losses(prices) = [i \in 1 .. n |-> Loss(c[i])]
  BY <1>4 DEF Gains, Losses, c
<1>6. Gains(prices) \in [1 .. n -> NonNegative] /\ Losses(prices) \in [1 .. n -> NonNegative]
  BY <1>4, <1>5
<1>7. /\ c \in Seq(Rat) /\ Len(c) = n
      /\ Gains(prices) \in Seq(NonNegative) /\ Len(Gains(prices)) = n
      /\ Losses(prices) \in Seq(NonNegative) /\ Len(Losses(prices)) = n
  BY <1>1, <1>3, <1>6, FunctionIsSequence
<1> QED
  BY <1>1, <1>2, <1>5, <1>7 DEF n, c

\* 100 - 100 / (1 + g / l) is 100 * g / (g + l).
LEMMA RsiValue ==
    ASSUME NEW g \in NonNegative, NEW l \in NonNegative, NEW a \in Nat, NEW b \in Nat, NEW q,
           Is(g, a, q), Is(l, b, q)
    PROVE  IF b = 0 THEN RsiFromAvgs(g, l) = Num(100)
           ELSE Is(RsiFromAvgs(g, l), 100 * a, a + b)
<1>1. q \in Nat \ {0} /\ g \in Rat /\ l \in Rat /\ l[1] >= 0 /\ l[1] \in Int
  BY DEF Is, NonNegative, Rat
<1>2. l[1] = 0 <=> b = 0
  <2>1. l[1] > 0 <=> b > 0
    BY Sign
  <2> QED
    BY <1>1, <2>1
<1>3. CASE b = 0
  BY <1>2, <1>3 DEF RsiFromAvgs
<1>4. CASE b # 0
  <2>1. b \in Nat \ {0} /\ b > 0
    BY <1>4
  <2>2. Is(Over(g, l), a, b)
    <3>1. Is(Over(g, l), a * q, q * b)
      BY <2>1, OverValue
    <3>2. (a * q) * b = a * (q * b)
      BY <1>1
    <3> QED
      BY <2>1, <3>1, <3>2, SameValue
  <2>3. Is(Plus(Num(1), Over(g, l)), a + b, b)
    <3>1. Is(Num(1), 1, 1)
      BY NumValue
    <3>2. Is(Plus(Num(1), Over(g, l)), 1 * b + a * 1, 1 * b)
      BY <2>2, <3>1, PlusValue
    <3>3. 1 * b + a * 1 = a + b /\ 1 * b = b
      OBVIOUS
    <3> QED
      BY <3>2, <3>3
  <2>4. Is(Over(Num(100), Plus(Num(1), Over(g, l))), 100 * b, a + b)
    <3>1. Is(Num(100), 100, 1)
      BY NumValue
    <3>2. a + b > 0
      BY <2>1
    <3>3. Is(Over(Num(100), Plus(Num(1), Over(g, l))), 100 * b, 1 * (a + b))
      BY <2>3, <3>1, <3>2, OverValue
    <3>4. 1 * (a + b) = a + b
      OBVIOUS
    <3> QED
      BY <3>3, <3>4
  <2>5. Is(RsiFromAvgs(g, l), 100 * a, a + b)
    <3>1. Is(Num(100), 100, 1)
      BY NumValue
    <3>2. Is(Minus(Num(100), Over(Num(100), Plus(Num(1), Over(g, l)))),
             100 * (a + b) - (100 * b) * 1, 1 * (a + b))
      BY <2>4, <3>1, MinusValue
    <3>3. 100 * (a + b) - (100 * b) * 1 = 100 * a /\ 1 * (a + b) = a + b
      OBVIOUS
    <3> QED
      BY <1>2, <2>1, <3>2, <3>3 DEF RsiFromAvgs
  <2> QED
    BY <2>1, <2>5
<1> QED
  BY <1>3, <1>4

\* Two numbers as fractions with the same denominator.
LEMMA CommonDenominator ==
    ASSUME NEW x \in NonNegative, NEW y \in NonNegative
    PROVE  \E a \in Nat, b \in Nat, q \in Nat \ {0} : Is(x, a, q) /\ Is(y, b, q)
<1>1. /\ Is(x, x[1], x[2]) /\ Is(y, y[1], y[2])
      /\ x[1] \in Nat /\ y[1] \in Nat /\ x[2] \in Nat \ {0} /\ y[2] \in Nat \ {0}
  BY SelfValue DEF NonNegative
<1>2. x[1] * y[2] \in Nat /\ y[1] * x[2] \in Nat /\ x[2] * y[2] \in Nat \ {0}
  <2>1. x[2] * y[2] > 0
    BY <1>1
  <2> QED
    BY <1>1, <2>1
<1>3. x[1] * (x[2] * y[2]) = (x[1] * y[2]) * x[2] /\ y[1] * (x[2] * y[2]) = (y[1] * x[2]) * y[2]
  BY <1>1
<1>4. Is(x, x[1] * y[2], x[2] * y[2]) /\ Is(y, y[1] * x[2], x[2] * y[2])
  BY <1>1, <1>2, <1>3, SameValue
<1> QED
  BY <1>2, <1>4

\* An RSI is between 0 and 100.
LEMMA RsiRange ==
    ASSUME NEW g \in NonNegative, NEW l \in NonNegative
    PROVE  /\ RsiFromAvgs(g, l) \in Rat
           /\ Leq(Zero, RsiFromAvgs(g, l)) /\ Leq(RsiFromAvgs(g, l), Num(100))
<1>1. PICK a \in Nat, b \in Nat, q \in Nat \ {0} : Is(g, a, q) /\ Is(l, b, q)
  BY CommonDenominator
<1> DEFINE v == RsiFromAvgs(g, l)
<1>2. \E p \in Nat, d \in Nat \ {0} : Is(v, p, d) /\ p <= 100 * d
  <2>1. CASE b = 0
    <3>1. Is(v, 100, 1)
      BY <1>1, <2>1, RsiValue, NumValue
    <3> QED
      BY <3>1
  <2>2. CASE b # 0
    <3>1. Is(v, 100 * a, a + b)
      BY <1>1, <2>2, RsiValue
    <3>2. 100 * a \in Nat /\ a + b \in Nat \ {0} /\ 100 * a <= 100 * (a + b)
      BY <2>2
    <3> HIDE DEF v
    <3> QED
      BY <3>1, <3>2
  <2> QED
    BY <2>1, <2>2
<1> HIDE DEF v
<1>3. PICK p \in Nat, d \in Nat \ {0} : Is(v, p, d) /\ p <= 100 * d
  BY <1>2
<1>4. Is(Zero, 0, 1) /\ Is(Num(100), 100, 1)
  BY NumValue DEF Zero
<1>5. Leq(Zero, v) <=> 0 * d <= p * 1
  BY <1>3, <1>4, Order
<1>6. Leq(v, Num(100)) <=> p * 1 <= 100 * d
  BY <1>3, <1>4, Order
<1> QED
  BY <1>3, <1>5, <1>6 DEF Is, v

\* calculate_rsi: one value for every average.
LEMMA RsiEquation ==
    ASSUME NEW prices \in Seq(Rat), NEW period \in Nat \ {0}, Len(prices) > period
    PROVE  LET n == Len(prices) - period
               g == Averages(Gains(prices), period)
               l == Averages(Losses(prices), period)
               rsis == calculate_rsi(prices, period)
           IN /\ n \in Nat \ {0} /\ g \in Seq(NonNegative) /\ l \in Seq(NonNegative)
              /\ Len(g) = n /\ Len(l) = n
              /\ rsis \in Seq(Rat) /\ Len(rsis) = n
              /\ \A i \in 1 .. n : rsis[i] = RsiFromAvgs(g[i], l[i])
<1> DEFINE n == Len(prices) - period
           g == Averages(Gains(prices), period)
           l == Averages(Losses(prices), period)
<1>1. n \in Nat \ {0} /\ Len(prices) \in Nat /\ prices # <<>>
  BY LenProperties
<1>2. /\ Gains(prices) \in Seq(NonNegative) /\ Len(Gains(prices)) = Len(prices) - 1
      /\ Losses(prices) \in Seq(NonNegative) /\ Len(Losses(prices)) = Len(prices) - 1
  BY <1>1, ChangesAreRat
<1>3. Len(prices) - 1 >= period /\ (Len(prices) - 1) - period + 1 = n
  BY <1>1
<1>4. g \in Seq(NonNegative) /\ l \in Seq(NonNegative) /\ Len(g) = n /\ Len(l) = n
  <2>1. g \in Seq(NonNegative) /\ Len(g) = Len(Gains(prices)) - period + 1
    BY <1>2, <1>3, AveragesEquation
  <2>2. l \in Seq(NonNegative) /\ Len(l) = Len(Losses(prices)) - period + 1
    BY <1>2, <1>3, AveragesEquation
  <2> QED
    BY <1>2, <1>3, <2>1, <2>2
<1>5. calculate_rsi(prices, period) = RsiOf(g, l)
  BY <1>1 DEF calculate_rsi, RsiOfChanges, Gains, Losses
<1> HIDE DEF n, g, l
<1>6. DOMAIN g = 1 .. n /\ \A i \in 1 .. n : g[i] \in NonNegative /\ l[i] \in NonNegative
  BY <1>4, LenProperties, ElementOfSeq
<1>7. RsiOf(g, l) = [i \in 1 .. n |-> RsiFromAvgs(g[i], l[i])]
  BY <1>6 DEF RsiOf
<1>8. RsiOf(g, l) \in [1 .. n -> Rat]
  BY <1>6, <1>7, RsiRange
<1>9. RsiOf(g, l) \in Seq(Rat) /\ Len(RsiOf(g, l)) = n
  BY <1>1, <1>8, FunctionIsSequence
<1> QED
  BY <1>1, <1>4, <1>5, <1>7, <1>9 DEF n, g, l

\* Negation turns the order around.
LEMMA NegatedOrder ==
    ASSUME NEW x \in Rat, NEW y \in Rat
    PROVE  /\ Negated(x) \in Rat
           /\ Leq(Negated(x), Negated(y)) <=> Leq(y, x)
           /\ Less(Negated(x), Negated(y)) <=> Less(y, x)
<1>1. /\ Is(x, x[1], x[2]) /\ Is(y, y[1], y[2])
      /\ x[1] \in Int /\ x[2] \in Nat \ {0} /\ y[1] \in Int /\ y[2] \in Nat \ {0}
  BY SelfValue
<1>2. Is(Zero, 0, 1)
  BY NumValue DEF Zero
<1>3. Is(Negated(x), -x[1], x[2])
  <2>1. Is(Negated(x), 0 * x[2] - x[1] * 1, 1 * x[2])
    BY <1>1, <1>2, MinusValue DEF Negated
  <2>2. 0 * x[2] - x[1] * 1 = -x[1] /\ 1 * x[2] = x[2]
    BY <1>1
  <2> QED
    BY <2>1, <2>2
<1>4. Is(Negated(y), -y[1], y[2])
  <2>1. Is(Negated(y), 0 * y[2] - y[1] * 1, 1 * y[2])
    BY <1>1, <1>2, MinusValue DEF Negated
  <2>2. 0 * y[2] - y[1] * 1 = -y[1] /\ 1 * y[2] = y[2]
    BY <1>1
  <2> QED
    BY <2>1, <2>2
<1>5. /\ Leq(Negated(x), Negated(y)) <=> (-x[1]) * y[2] <= (-y[1]) * x[2]
      /\ Less(Negated(x), Negated(y)) <=> (-x[1]) * y[2] < (-y[1]) * x[2]
  BY <1>3, <1>4, Order
<1>6. /\ Leq(y, x) <=> y[1] * x[2] <= x[1] * y[2]
      /\ Less(y, x) <=> y[1] * x[2] < x[1] * y[2]
  BY <1>1, Order
<1>7. /\ (-x[1]) * y[2] = -(x[1] * y[2]) /\ (-y[1]) * x[2] = -(y[1] * x[2])
      /\ x[1] * y[2] \in Int /\ y[1] * x[2] \in Int
  BY <1>1
<1> QED
  BY <1>3, <1>5, <1>6, <1>7 DEF Is

\* An overbought crossing is upwards over the threshold, an oversold one downwards.
LEMMA CrossingOf ==
    ASSUME NEW rsis \in Seq(Rat), NEW direction, NEW t \in Int,
           RsiCrosses(rsis, direction, Num(t))
    PROVE  LET v == FromEnd(rsis, 2)
               w == FromEnd(rsis, 1)
           IN /\ Len(rsis) \in Nat /\ Len(rsis) >= 2
              /\ v = rsis[Len(rsis) - 1] /\ w = rsis[Len(rsis)] /\ v \in Rat /\ w \in Rat
              /\ IF direction = "overbought" THEN Less(v, Num(t)) /\ Leq(Num(t), w)
                                             ELSE Less(Num(t), v) /\ Leq(w, Num(t))
<1> DEFINE n == Len(rsis)
<1>1. n \in Nat /\ n >= 2
  BY LenProperties DEF RsiCrosses
<1>2. FromEnd(rsis, 2) = rsis[n - 1] /\ FromEnd(rsis, 1) = rsis[n]
  <2>1. n + 1 - 2 = n - 1 /\ n + 1 - 1 = n
    BY <1>1
  <2> QED
    BY <2>1, Zenon DEF FromEnd
<1>3. rsis[n - 1] \in Rat /\ rsis[n] \in Rat /\ Num(t) \in Rat
  <2>1. n - 1 \in 1 .. n /\ n \in 1 .. n
    BY <1>1
  <2> QED
    BY <2>1, ElementOfSeq DEF Num, Rat
<1>4. CASE direction = "overbought"
  BY <1>1, <1>2, <1>3, <1>4 DEF RsiCrosses, Crosses
<1>5. CASE direction # "overbought"
  <2> DEFINE v == rsis[n - 1]
             w == rsis[n]
             x == Num(t)
  <2>1. Less(Negated(v), Negated(x)) /\ Leq(Negated(x), Negated(w))
    BY <1>2, <1>5 DEF RsiCrosses, Crosses
  <2>2. v \in Rat /\ w \in Rat /\ x \in Rat
    BY <1>3
  <2> HIDE DEF v, w, x
  <2>3. Less(x, v) /\ Leq(w, x)
    BY <2>1, <2>2, NegatedOrder
  <2> QED
    BY <1>1, <1>2, <1>3, <1>5, <2>3 DEF v, w, x
<1> QED
  BY <1>4, <1>5

\* A match has a table of more candles than the period.
LEMMA RsiMatch ==
    ASSUME NEW cs \in Seq(Candle), NEW r \in Rules, r.type = "rsi", rsi(r, cs)
    PROVE  LET prices == Prices(Newest(RsiLimit(r), cs))
               n == Len(prices)
           IN /\ r.period \in Nat \ {0} /\ r.threshold \in Int /\ RsiLimit(r) \in Nat
              /\ prices \in Seq(Rat) /\ n \in Nat /\ n > r.period /\ n = Smaller(RsiLimit(r), Len(cs))
              /\ RsiCrosses(calculate_rsi(prices, r.period), r.direction, Num(r.threshold))
              /\ prices[n] = Num(cs[Len(cs)].close) /\ prices[n - 1] = Num(cs[Len(cs) - 1].close)
              /\ cs[Len(cs)].close \in Nat /\ cs[Len(cs) - 1].close \in Nat
<1> DEFINE ds == Newest(RsiLimit(r), cs)
           prices == Prices(ds)
           n == Len(prices)
<1>1. r.period \in Nat \ {0} /\ r.threshold \in Int
  BY NumbersAssumption DEF rsi
<1>2. RsiLimit(r) \in Nat
  BY <1>1, BoundsAssumption DEF RsiLimit, Larger
<1>3. RsiCrosses(calculate_rsi(prices, r.period), r.direction, Num(r.threshold))
  BY DEF rsi, Rsis
<1>4. /\ ds \in Seq(Candle) /\ Len(ds) = Smaller(RsiLimit(r), Len(cs)) /\ Len(cs) \in Nat
      /\ \A i \in 1 .. Len(ds) : ds[i] = cs[i + (Len(cs) - Len(ds))]
  BY <1>2, NewestValues, LenProperties
<1> HIDE DEF ds
<1>5. prices \in Seq(Rat) /\ n = Len(ds) /\ n \in Nat
  BY <1>4, PricesOf, LenProperties
<1>6. n > r.period
  <2> SUFFICES ASSUME n <= r.period PROVE FALSE
    BY <1>1, <1>5
  <2>1. calculate_rsi(prices, r.period) = <<>>
    BY <1>1, <1>5 DEF calculate_rsi
  <2>2. Len(<<>>) >= 2
    BY <1>3, <2>1 DEF RsiCrosses
  <2> QED
    BY <2>2
<1>7. /\ n \in 1 .. Len(ds) /\ n - 1 \in 1 .. Len(ds)
      /\ n + (Len(cs) - Len(ds)) = Len(cs) /\ (n - 1) + (Len(cs) - Len(ds)) = Len(cs) - 1
  BY <1>1, <1>4, <1>5, <1>6
<1>8. ds[n] = cs[Len(cs)] /\ ds[n - 1] = cs[Len(cs) - 1]
  <2>1. \A i \in 1 .. Len(ds) : ds[i] = cs[i + (Len(cs) - Len(ds))]
    BY <1>4
  <2> HIDE DEF n, prices
  <2>2. ds[n] = cs[n + (Len(cs) - Len(ds))] /\ ds[n - 1] = cs[(n - 1) + (Len(cs) - Len(ds))]
    BY <1>7, <2>1, Zenon
  <2> QED
    BY <1>7, <2>2, Zenon
<1>9. /\ prices[n] = Num(ds[n].close) /\ prices[n - 1] = Num(ds[n - 1].close)
      /\ ds[n].close \in Nat /\ ds[n - 1].close \in Nat
  <2>1. \A i \in 1 .. Len(ds) : ds[i].close \in Nat /\ prices[i] = Num(ds[i].close)
    BY <1>4, PricesOf
  <2> HIDE DEF n, prices
  <2> QED
    BY <1>7, <2>1, Zenon
<1> QED
  BY <1>1, <1>2, <1>3, <1>4, <1>5, <1>6, <1>8, <1>9 DEF ds

\* TypeOK follows from the inductive invariant.
LEMMA TypesAreCorrect == IInv => TypeOK
<1> SUFFICES ASSUME IInv PROVE TypeOK
  OBVIOUS
<1>1. candles \in Seq([ts : Nat, close : Closes])
  BY Zenon DEF IInv, CandlesOK, Candle
<1>2. DOMAIN fired \subseteq Rules
  BY DEF IInv, FiredIsMatched
<1>3. ASSUME NEW r \in DOMAIN fired
      PROVE  IF r.type = "rsi" THEN Leq(Zero, fired[r]) /\ Leq(fired[r], Num(100))
             ELSE fired[r][1] \in Closes /\ fired[r][2] = 1
  <2>1. /\ r \in Rules /\ Len(candles) \in Nat \ {0} /\ Matches(r, candles)
        /\ fired[r] = TriggerValue(r, candles) /\ candles \in Seq(Candle)
    BY <1>3, FiredMatches DEF IInv, CandlesOK
  <2>2. CASE r.type = "rsi"
    <3> DEFINE prices == Prices(Newest(RsiLimit(r), candles))
               rsis == calculate_rsi(prices, r.period)
    <3>1. rsi(r, candles)
      BY <2>1, <2>2, Classes
    <3>2. r.period \in Nat \ {0} /\ prices \in Seq(Rat) /\ Len(prices) > r.period
      BY <2>1, <2>2, <3>1, RsiMatch
    <3>3. fired[r] = rsis[Len(rsis)]
      BY <2>1, <2>2 DEF TriggerValue, Rsis, Last
    <3> HIDE DEF prices
    <3> DEFINE n == Len(prices) - r.period
               g == Averages(Gains(prices), r.period)
               l == Averages(Losses(prices), r.period)
    <3>4. /\ n \in Nat \ {0} /\ g \in Seq(NonNegative) /\ l \in Seq(NonNegative)
          /\ Len(g) = n /\ Len(l) = n /\ Len(rsis) = n
          /\ \A i \in 1 .. n : rsis[i] = RsiFromAvgs(g[i], l[i])
      BY <3>2, RsiEquation
    <3> HIDE DEF n, g, l, rsis
    <3>5. n \in 1 .. n
      BY <3>4
    <3>6. fired[r] = RsiFromAvgs(g[n], l[n]) /\ g[n] \in NonNegative /\ l[n] \in NonNegative
      BY <3>3, <3>4, <3>5, ElementOfSeq
    <3> QED
      BY <2>2, <3>6, RsiRange
  <2>3. CASE r.type # "rsi"
    <3>1. fired[r] = Num(candles[Len(candles)].close)
      BY <2>1, <2>3 DEF TriggerValue, Last
    <3>2. candles[Len(candles)] \in Candle
      BY <2>1, ElementOfSeq
    <3> QED
      BY <2>3, <3>1, <3>2 DEF Num, Candle
  <2> QED
    BY <2>2, <2>3
<1> QED
  BY <1>1, <1>2, <1>3 DEF TypeOK

\* Types; an RSI lies between 0 and 100.
THEOREM TypeCorrect == Spec => []TypeOK
BY Inductive, TypesAreCorrect, PTL

\* The averages of a bar on which the price does not rise, in integers: k is
\* period - 1, d is what the price falls by.
LEMMA NoOverbought ==
    ASSUME NEW a \in Nat, NEW b \in Nat \ {0}, NEW d \in Nat, NEW k \in Nat \ {0}, NEW t \in Int,
           100 * a < t * (a + b), t * (a * k + (b * k + d)) <= 100 * (a * k)
    PROVE  FALSE
<1>1. a + b \in Nat \ {0} /\ 100 * a >= 0 /\ t * (a + b) > 0
  <2>1. t * (a + b) \in Int
    OBVIOUS
  <2> QED
    BY <2>1
<1> DEFINE e == a + b
<1>2. t > 0
  <2>1. e \in Nat /\ t * e > 0
    BY <1>1
  <2> HIDE DEF e
  <2>2. t <= 0 => t * e <= 0
    BY <2>1
  <2>3. t * e \in Int
    BY <2>1
  <2> QED
    BY <2>1, <2>2, <2>3
<1>3. t * d >= 0
  BY <1>2
<1>4. t * (a * k + (b * k + d)) = (t * (a + b)) * k + t * d
  BY ONLY t \in Int, a \in Nat, b \in Nat, d \in Nat, k \in Nat
<1>5. (100 * a) * k < (t * (a + b)) * k
  <2>1. 100 * a \in Int /\ t * (a + b) \in Int
    OBVIOUS
  <2> QED
    BY <2>1, Cancel
<1>6. (100 * a) * k = 100 * (a * k)
  OBVIOUS
<1> DEFINE u == (t * (a + b)) * k
           v == 100 * (a * k)
           w == t * d
<1>7. u \in Int /\ v \in Int /\ w \in Int /\ u + w <= v /\ v < u /\ w >= 0
  BY <1>3, <1>4, <1>5, <1>6
<1> HIDE DEF u, v, w
<1> QED
  BY <1>7

\* The same for a bar on which the price does not fall, but rises by d.
LEMMA NoOversold ==
    ASSUME NEW a \in Nat, NEW b \in Nat \ {0}, NEW d \in Nat, NEW k \in Nat \ {0}, NEW t \in Int,
           t * (a + b) < 100 * a, 100 * (a * k + d) <= t * ((a * k + d) + b * k)
    PROVE  FALSE
<1> DEFINE e == a + b
<1>1. e \in Nat \ {0} /\ 100 * a < 100 * e
  OBVIOUS
<1>2. t < 100
  <2>1. t * e \in Int /\ t * e < 100 * a /\ 100 * a \in Int /\ 100 * e \in Int
    BY <1>1
  <2>2. t * e < 100 * e
    BY <1>1, <2>1
  <2> HIDE DEF e
  <2> QED
    BY <1>1, <2>2, Cancel
<1>3. (t - 100) * d <= 0
  <2>1. t - 100 \in Int /\ t - 100 <= 0
    BY <1>2
  <2> DEFINE s == t - 100
  <2> HIDE DEF s
  <2>2. s \in Int /\ s <= 0
    BY <2>1 DEF s
  <2>3. s * d <= 0
    BY <2>2
  <2> QED
    BY <2>3 DEF s
<1>4. t * ((a * k + d) + b * k) - 100 * (a * k + d) = ((t * (a + b)) * k - (100 * a) * k) + (t - 100) * d
  BY ONLY t \in Int, a \in Nat, b \in Nat, d \in Nat, k \in Nat
<1>5. (t * (a + b)) * k < (100 * a) * k
  <2>1. 100 * a \in Int /\ t * (a + b) \in Int
    OBVIOUS
  <2> QED
    BY <2>1, Cancel
<1> DEFINE u == (t * (a + b)) * k
           v == (100 * a) * k
           w == (t - 100) * d
           x == t * ((a * k + d) + b * k)
           y == 100 * (a * k + d)
<1>6. /\ u \in Int /\ v \in Int /\ w \in Int /\ x \in Int /\ y \in Int
      /\ y <= x /\ x - y = (u - v) + w /\ u < v /\ w <= 0
  BY <1>3, <1>4, <1>5
<1> HIDE DEF u, v, w, x, y
<1> QED
  BY <1>6

\* Wilder's step in integers.
LEMMA WilderValue ==
    ASSUME NEW x, NEW a \in Int, NEW q, Is(x, a, q), NEW y, NEW c \in Int, Is(y, c, 1),
           NEW period \in Nat \ {0}
    PROVE  Is(WilderStep(x, y, period), a * (period - 1) + c * q, q * period)
<1>1. q \in Nat \ {0} /\ Is(Num(period - 1), period - 1, 1) /\ Is(Num(period), period, 1)
  BY NumValue DEF Is
<1>2. Is(Times(x, Num(period - 1)), a * (period - 1), q * 1)
  BY <1>1, TimesValue
<1>3. Is(Plus(Times(x, Num(period - 1)), y), (a * (period - 1)) * 1 + c * (q * 1), (q * 1) * 1)
  BY <1>2, PlusValue
<1>4. Is(WilderStep(x, y, period),
         ((a * (period - 1)) * 1 + c * (q * 1)) * 1, ((q * 1) * 1) * period)
  <2>1. period > 0
    OBVIOUS
  <2> QED
    BY <1>1, <1>3, <2>1, OverValue DEF WilderStep
<1>5. /\ ((a * (period - 1)) * 1 + c * (q * 1)) * 1 = a * (period - 1) + c * q
      /\ ((q * 1) * 1) * period = q * period
  BY <1>1
<1> QED
  BY <1>4, <1>5

\* The RSI of one bar and of the next one, on both sides of a threshold.
LEMMA RsiMovesWithPrice ==
    ASSUME NEW g \in NonNegative, NEW l \in NonNegative, NEW x, NEW D \in Int, Is(x, D, 1),
           NEW period \in Nat, period > 1, NEW t \in Int
    PROVE  LET v == RsiFromAvgs(g, l)
               w == RsiFromAvgs(WilderStep(g, Gain(x), period), WilderStep(l, Loss(x), period))
           IN /\ Less(v, Num(t)) /\ Leq(Num(t), w) => D > 0
              /\ Less(Num(t), v) /\ Leq(w, Num(t)) => D < 0
<1> DEFINE G == WilderStep(g, Gain(x), period)
           L == WilderStep(l, Loss(x), period)
           v == RsiFromAvgs(g, l)
           w == RsiFromAvgs(G, L)
           k == period - 1
<1>1. PICK a \in Nat, b \in Nat, q \in Nat \ {0} : Is(g, a, q) /\ Is(l, b, q)
  BY CommonDenominator
<1>2. /\ Gain(x) \in NonNegative /\ Is(Gain(x), Larger(D, 0), 1)
      /\ Loss(x) \in NonNegative /\ Is(Loss(x), Larger(-D, 0), 1)
  BY GainAndLoss
<1>3. Larger(D, 0) \in Nat /\ Larger(-D, 0) \in Nat /\ k \in Nat \ {0} /\ period \in Nat \ {0}
  BY DEF Larger
<1>4. G \in NonNegative /\ L \in NonNegative
  BY <1>2, <1>3, WilderStepIsNonNegative
<1> DEFINE A == a * k + Larger(D, 0) * q
           B == b * k + Larger(-D, 0) * q
           Q == q * period
<1>5. Is(G, A, Q) /\ Is(L, B, Q)
  <2> DEFINE c == Larger(D, 0)
             d == Larger(-D, 0)
  <2>1. a \in Int /\ b \in Int /\ c \in Int /\ d \in Int
    BY <1>3
  <2>2. Is(Gain(x), c, 1) /\ Is(Loss(x), d, 1)
    BY <1>2
  <2> HIDE DEF c, d
  <2>3. Is(G, a * (period - 1) + c * q, q * period)
    BY <1>1, <1>3, <2>1, <2>2, WilderValue
  <2>4. Is(L, b * (period - 1) + d * q, q * period)
    BY <1>1, <1>3, <2>1, <2>2, WilderValue
  <2> QED
    BY <2>3, <2>4, Zenon DEF c, d
<1>6. /\ A \in Nat /\ B \in Nat /\ (b # 0 => B # 0)
      /\ Larger(D, 0) * q \in Nat /\ Larger(-D, 0) * q \in Nat
  <2>1. Larger(D, 0) * q \in Nat /\ Larger(-D, 0) * q \in Nat /\ a * k \in Nat /\ b * k \in Nat
    BY <1>3
  <2>2. b # 0 => b * k > 0
    BY <1>3
  <2> QED
    BY <2>1, <2>2
<1>7. IF b = 0 THEN v = Num(100) ELSE Is(v, 100 * a, a + b)
  BY <1>1, RsiValue
<1>8. IF B = 0 THEN w = Num(100) ELSE Is(w, 100 * A, A + B)
  <2> HIDE DEF A, B, Q, G, L
  <2> QED
    BY <1>4, <1>5, <1>6, RsiValue
<1>9. w \in Rat /\ Leq(w, Num(100))
  <2> HIDE DEF G, L
  <2> QED
    BY <1>4, RsiRange
<1> HIDE DEF v, w, k, A, B, G, L, Q
<1>10. Is(Num(t), t, 1) /\ Is(Num(100), 100, 1)
  BY NumValue
<1>11. ASSUME Less(v, Num(t)), Leq(Num(t), w), D <= 0 PROVE FALSE
  <2>1. Larger(D, 0) = 0
    BY <1>11 DEF Larger
  <2>2. CASE b = 0
    <3>1. 100 * 1 < t * 1
      BY <1>7, <1>10, <1>11, <2>2, Order
    <3>2. Is(w, w[1], w[2]) /\ w[1] \in Int /\ w[2] \in Nat \ {0}
      BY <1>9, SelfValue
    <3>3. t * w[2] <= w[1] * 1
      BY <1>10, <1>11, <3>2, Order
    <3>4. w[1] * 1 <= 100 * w[2]
      BY <1>9, <1>10, <3>2, Order
    <3>5. t * w[2] <= 100 * w[2]
      BY <3>2, <3>3, <3>4
    <3>6. t <= 100
      BY <3>2, <3>5, Cancel
    <3> QED
      BY <3>1, <3>6
  <2>3. CASE b # 0
    <3> DEFINE d == Larger(-D, 0) * q
    <3>1. A = a * k /\ B = b * k + d /\ d \in Nat
      <4>1. 0 * q = 0 /\ a * k \in Nat
        BY <1>3
      <4> QED
        BY <1>6, <2>1, <4>1 DEF A, B
    <3> HIDE DEF d
    <3>2. (100 * a) * 1 < t * (a + b)
      BY <1>7, <1>10, <1>11, <2>3, Order
    <3>3. t * (A + B) <= (100 * A) * 1
      BY <1>6, <1>8, <1>10, <1>11, <2>3, Order
    <3>4. t * (a * k + (b * k + d)) <= 100 * (a * k)
      <4>1. 100 * (a * k) \in Nat
        BY <1>3
      <4> QED
        BY <3>1, <3>3, <4>1
    <3>5. 100 * a < t * (a + b) /\ b \in Nat \ {0}
      BY <2>3, <3>2
    <3> QED
      BY <1>3, <3>1, <3>4, <3>5, NoOverbought
  <2> QED
    BY <2>2, <2>3
<1>12. ASSUME Less(Num(t), v), Leq(w, Num(t)), D >= 0 PROVE FALSE
  <2>1. Larger(-D, 0) = 0
    BY <1>12 DEF Larger
  <2> DEFINE d == Larger(D, 0) * q
  <2>2. A = a * k + d /\ B = b * k /\ d \in Nat
    <3>1. 0 * q = 0 /\ b * k \in Nat
      BY <1>3
    <3> QED
      BY <1>6, <2>1, <3>1 DEF A, B
  <2> HIDE DEF d
  <2>3. CASE b = 0
    <3>1. B = 0
      BY <1>3, <2>2, <2>3
    <3>2. t * 1 < 100 * 1
      BY <1>7, <1>10, <1>12, <2>3, Order
    <3>3. 100 * 1 <= t * 1
      BY <1>8, <1>10, <1>12, <3>1, Order
    <3> QED
      BY <3>2, <3>3
  <2>4. CASE b # 0
    <3>1. t * (a + b) < (100 * a) * 1
      BY <1>7, <1>10, <1>12, <2>4, Order
    <3>2. (100 * A) * 1 <= t * (A + B)
      BY <1>6, <1>8, <1>10, <1>12, <2>4, Order
    <3>3. 100 * (a * k + d) <= t * ((a * k + d) + b * k)
      <4>1. 100 * (a * k + d) \in Nat
        BY <1>3, <2>2
      <4> QED
        BY <2>2, <3>2, <4>1
    <3>4. t * (a + b) < 100 * a /\ b \in Nat \ {0}
      BY <2>4, <3>1
    <3> QED
      BY <1>3, <2>2, <3>3, <3>4, NoOversold
  <2> QED
    BY <2>3, <2>4
<1>13. v = RsiFromAvgs(g, l) /\ w = RsiFromAvgs(WilderStep(g, Gain(x), period), WilderStep(l, Loss(x), period))
  BY DEF v, w, G, L
<1> QED
  BY <1>11, <1>12, <1>13

\* A crossing of the RSI comes with a change of the price in its direction.
LEMMA RsiFollows ==
    ASSUME NEW cs \in Seq(Candle), NEW r \in Rules, r.type = "rsi", rsi(r, cs), r.period > 1
    PROVE  LET D == cs[Len(cs)].close - cs[Len(cs) - 1].close
           IN IF r.direction = "overbought" THEN D > 0 ELSE D < 0
<1> DEFINE prices == Prices(Newest(RsiLimit(r), cs))
           n == Len(prices)
           period == r.period
           new == cs[Len(cs)].close
           old == cs[Len(cs) - 1].close
<1>1. /\ period \in Nat \ {0} /\ r.threshold \in Int /\ prices \in Seq(Rat) /\ n \in Nat /\ n > period
      /\ RsiCrosses(calculate_rsi(prices, period), r.direction, Num(r.threshold))
      /\ prices[n] = Num(new) /\ prices[n - 1] = Num(old) /\ new \in Nat /\ old \in Nat
  BY RsiMatch
<1>2. period > 1
  OBVIOUS
<1> HIDE DEF prices, period, new, old
<1> DEFINE rsis == calculate_rsi(prices, period)
           m == n - period
           g == Averages(Gains(prices), period)
           l == Averages(Losses(prices), period)
           x == Changes(prices)[n - 1]
           t == r.threshold
<1>3. /\ g \in Seq(NonNegative) /\ l \in Seq(NonNegative) /\ Len(g) = m /\ Len(l) = m
      /\ rsis \in Seq(Rat) /\ Len(rsis) = m /\ \A i \in 1 .. m : rsis[i] = RsiFromAvgs(g[i], l[i])
  BY <1>1, RsiEquation
<1>4. prices # <<>>
  BY <1>1
<1>5. /\ Gains(prices) \in Seq(NonNegative) /\ Len(Gains(prices)) = n - 1
      /\ Losses(prices) \in Seq(NonNegative) /\ Len(Losses(prices)) = n - 1
  BY <1>1, <1>4, ChangesAreRat
<1>6. x = Minus(Num(new), Num(old)) /\ Gains(prices)[n - 1] = Gain(x) /\ Losses(prices)[n - 1] = Loss(x)
  <2>1. n - 1 \in 1 .. Len(prices) - 1 /\ (n - 1) + 1 = n
    BY <1>1
  <2>2. /\ x = Minus(prices[(n - 1) + 1], prices[n - 1])
        /\ Gains(prices)[n - 1] = Gain(x) /\ Losses(prices)[n - 1] = Loss(x)
    BY <1>1, <1>4, <2>1, ChangesAreRat
  <2> QED
    BY <1>1, <2>1, <2>2
<1>7. Is(x, new - old, 1)
  <2>1. Is(Num(new), new, 1) /\ Is(Num(old), old, 1)
    BY <1>1, NumValue
  <2>2. Is(Minus(Num(new), Num(old)), new * 1 - old * 1, 1 * 1)
    BY <2>1, MinusValue
  <2>3. new * 1 - old * 1 = new - old
    BY <1>1
  <2> QED
    BY <1>6, <2>2, <2>3
<1>8. /\ m >= 2 /\ m \in Nat
      /\ IF r.direction = "overbought"
         THEN Less(rsis[m - 1], Num(t)) /\ Leq(Num(t), rsis[m])
         ELSE Less(Num(t), rsis[m - 1]) /\ Leq(rsis[m], Num(t))
  <2> HIDE DEF rsis, m, t
  <2>1. t \in Int /\ RsiCrosses(rsis, r.direction, Num(t))
    BY <1>1 DEF rsis, t
  <2> QED
    BY <1>3, <2>1, CrossingOf
<1>9. /\ period + m - 1 = n - 1 /\ n - 1 >= period /\ (n - 1) - period + 1 = m
      /\ m \in 2 .. m /\ m \in 1 .. m /\ m - 1 \in 1 .. m
  BY <1>1, <1>8
<1>10. g[m] = WilderStep(g[m - 1], Gain(x), period)
  <2>1. \A i \in 2 .. Len(g) : g[i] = WilderStep(g[i - 1], Gains(prices)[period + i - 1], period)
    BY <1>1, <1>5, <1>9, AveragesEquation
  <2> HIDE DEF g, m, x
  <2> QED
    BY <1>3, <1>6, <1>9, <2>1
<1>11. l[m] = WilderStep(l[m - 1], Loss(x), period)
  <2>1. \A i \in 2 .. Len(l) : l[i] = WilderStep(l[i - 1], Losses(prices)[period + i - 1], period)
    BY <1>1, <1>5, <1>9, AveragesEquation
  <2> HIDE DEF l, m, x
  <2> QED
    BY <1>3, <1>6, <1>9, <2>1
<1> HIDE DEF n, g, l, m, x, rsis, t
<1>12. g[m - 1] \in NonNegative /\ l[m - 1] \in NonNegative
  BY <1>3, <1>9, ElementOfSeq
<1>13. rsis[m - 1] = RsiFromAvgs(g[m - 1], l[m - 1]) /\ rsis[m] = RsiFromAvgs(g[m], l[m])
  BY <1>3, <1>9
<1>14. t \in Int /\ new - old \in Int /\ period \in Nat
  BY <1>1 DEF t
<1> DEFINE v == rsis[m - 1]
           w == rsis[m]
<1>15. /\ Less(v, Num(t)) /\ Leq(Num(t), w) => new - old > 0
       /\ Less(Num(t), v) /\ Leq(w, Num(t)) => new - old < 0
  BY <1>2, <1>7, <1>10, <1>11, <1>12, <1>13, <1>14, RsiMovesWithPrice
<1>16. IF r.direction = "overbought" THEN new - old > 0 ELSE new - old < 0
  BY <1>8, <1>15
<1> QED
  BY <1>16 DEF new, old

\* RsiFollowsPrice follows from the inductive invariant.
LEMMA RsiIsFollowing == IInv => RsiFollowsPrice
<1> SUFFICES ASSUME IInv, NEW r \in Fired("rsi"), r.period > 1
             PROVE  IF r.direction = "overbought" THEN Change > 0 ELSE Change < 0
  BY DEF RsiFollowsPrice
<1>1. r \in DOMAIN fired /\ r.type = "rsi"
  BY DEF Fired
<1>2. /\ r \in Rules /\ rsi(r, candles) /\ candles \in Seq(Candle) /\ Len(candles) \in Nat
  BY <1>1, FiredMatches, Classes DEF IInv, CandlesOK
<1>3. Change = candles[Len(candles)].close - candles[Len(candles) - 1].close
  <2>1. Len(candles) + 1 - 2 = Len(candles) - 1
    BY <1>2
  <2> QED
    BY <2>1, Zenon DEF Change, Last, FromEnd
<1> QED
  BY <1>1, <1>2, <1>3, RsiFollows

\* An overbought alert comes on a rise, an oversold one on a fall, whatever the
\* first average of the window was.
THEOREM RsiAlwaysFollowsPrice == Spec => []RsiFollowsPrice
BY Inductive, RsiIsFollowing, PTL

\* A change adds a value to Wilder's averages and leaves the others.
LEMMA AveragesOneLonger ==
    ASSUME NEW s \in Seq(NonNegative), NEW t \in Seq(NonNegative), OneLonger(s, t),
           NEW period \in Nat \ {0}, Len(s) >= period
    PROVE  OneLonger(Averages(s, period), Averages(t, period))
<1> DEFINE n == Len(s) - period + 1
           e == Averages(s, period)
           f == Averages(t, period)
<1>1. /\ Len(s) \in Nat /\ Len(t) = Len(s) + 1 /\ Len(t) >= period /\ n \in Nat \ {0}
      /\ period \in 1 .. Len(s)
  BY LenProperties DEF OneLonger
<1>2. /\ Len(e) = n /\ e[1] = Mean(SubSeq(s, 1, period))
      /\ \A i \in 2 .. Len(e) : e[i] = WilderStep(e[i - 1], s[period + i - 1], period)
  BY <1>1, AveragesEquation
<1>3. /\ Len(f) = n + 1 /\ f[1] = Mean(SubSeq(t, 1, period))
      /\ \A i \in 2 .. Len(f) : f[i] = WilderStep(f[i - 1], t[period + i - 1], period)
  <2>1. Len(f) = Len(t) - period + 1
    BY <1>1, AveragesEquation
  <2>2. /\ f[1] = Mean(SubSeq(t, 1, period))
        /\ \A i \in 2 .. Len(f) : f[i] = WilderStep(f[i - 1], t[period + i - 1], period)
    BY <1>1, AveragesEquation
  <2>3. Len(t) - period + 1 = n + 1
    BY <1>1
  <2> QED
    BY <2>1, <2>2, <2>3
<1>4. f[1] = e[1]
  BY <1>1, <1>2, <1>3, SameStart
<1>5. \A i \in 1 .. n : i # 1 => i \in 2 .. n /\ i \in 2 .. n + 1 /\ period + i - 1 \in 1 .. Len(s)
  BY <1>1
<1> HIDE DEF n, e, f
<1>6. ASSUME NEW i \in 1 .. n, i # 1, Agree(f, e, i - 1) PROVE Agree(f, e, i)
  <2>1. t[period + i - 1] = s[period + i - 1]
    BY <1>5, <1>6 DEF OneLonger
  <2>2. i \in 2 .. n /\ i \in 2 .. n + 1
    BY <1>5, <1>6
  <2>3. e[i] = WilderStep(e[i - 1], s[period + i - 1], period)
    BY <1>2, <2>2
  <2>4. f[i] = WilderStep(f[i - 1], t[period + i - 1], period)
    BY <1>3, <2>2
  <2> QED
    BY <1>6, <2>1, <2>3, <2>4 DEF Agree
<1>7. \A i \in 1 .. n : Agree(f, e, i)
  <2>1. 1 \in Int /\ n \in Int /\ Agree(f, e, 1)
    BY <1>1, <1>4 DEF Agree
  <2> QED
    BY <1>6, <2>1, SameValues, Zenon
<1> QED
  BY <1>2, <1>3, <1>7 DEF Agree, OneLonger, e, f

\* A price adds a value to the RSI and leaves the others.
LEMMA RsiOneLonger ==
    ASSUME NEW s \in Seq(Rat), NEW t \in Seq(Rat), OneLonger(s, t),
           NEW period \in Nat \ {0}, Len(s) > period
    PROVE  OneLonger(calculate_rsi(s, period), calculate_rsi(t, period))
<1> DEFINE n == Len(s) - 1
           m == Len(s) - period
           G == Gains(s)
           H == Gains(t)
           L == Losses(s)
           M == Losses(t)
           g == Averages(G, period)
           h == Averages(H, period)
           k == Averages(L, period)
           l == Averages(M, period)
           p == calculate_rsi(s, period)
           q == calculate_rsi(t, period)
<1>1. /\ Len(s) \in Nat /\ n \in Nat /\ n >= period /\ m \in Nat /\ s # <<>> /\ t # <<>>
      /\ Len(t) = Len(s) + 1 /\ Len(t) > period /\ Len(t) - 1 = n + 1 /\ Len(t) - period = m + 1
  BY LenProperties DEF OneLonger
<1>2. /\ G \in Seq(NonNegative) /\ Len(G) = n /\ L \in Seq(NonNegative) /\ Len(L) = n
      /\ \A i \in 1 .. n : /\ Changes(s)[i] = Minus(s[i + 1], s[i])
                           /\ G[i] = Gain(Changes(s)[i]) /\ L[i] = Loss(Changes(s)[i])
  BY <1>1, ChangesAreRat
<1>3. /\ H \in Seq(NonNegative) /\ Len(H) = Len(t) - 1 /\ M \in Seq(NonNegative) /\ Len(M) = Len(t) - 1
      /\ \A i \in 1 .. Len(t) - 1 : /\ Changes(t)[i] = Minus(t[i + 1], t[i])
                                    /\ H[i] = Gain(Changes(t)[i]) /\ M[i] = Loss(Changes(t)[i])
  BY <1>1, ChangesAreRat
<1>4. /\ Len(p) = m /\ \A i \in 1 .. m : p[i] = RsiFromAvgs(g[i], k[i])
      /\ Len(g) = m /\ Len(k) = m
  BY <1>1, RsiEquation
<1>5. Len(q) = Len(t) - period /\ \A i \in 1 .. Len(t) - period : q[i] = RsiFromAvgs(h[i], l[i])
  BY <1>1, RsiEquation
<1> HIDE DEF g, h, k, l, p, q, G, H, L, M, n, m
<1>6. ASSUME NEW i \in 1 .. n PROVE H[i] = G[i] /\ M[i] = L[i]
  <2>1. i \in 1 .. Len(t) - 1 /\ i \in 1 .. Len(s) /\ i + 1 \in 1 .. Len(s)
    BY <1>1 DEF n
  <2>2. t[i] = s[i] /\ t[i + 1] = s[i + 1]
    BY <2>1 DEF OneLonger
  <2>3. Changes(t)[i] = Minus(t[i + 1], t[i]) /\ H[i] = Gain(Changes(t)[i]) /\ M[i] = Loss(Changes(t)[i])
    BY <1>3, <2>1
  <2> QED
    BY <1>2, <2>2, <2>3
<1>7. OneLonger(G, H) /\ OneLonger(L, M)
  BY <1>1, <1>2, <1>3, <1>6 DEF OneLonger
<1>8. OneLonger(g, h) /\ OneLonger(k, l)
  BY <1>1, <1>2, <1>3, <1>7, AveragesOneLonger DEF g, h, k, l
<1>9. ASSUME NEW i \in 1 .. m PROVE q[i] = p[i]
  <2>1. i \in 1 .. Len(t) - period
    BY <1>1
  <2>2. h[i] = g[i] /\ l[i] = k[i]
    BY <1>4, <1>8 DEF OneLonger
  <2> QED
    BY <1>4, <1>5, <2>1, <2>2
<1> QED
  BY <1>1, <1>4, <1>5, <1>9 DEF OneLonger, p, q

\* As MacdCrossesOnce.
LEMMA RsiCrossesOnce ==
    ASSUME NEW cs \in Seq(Candle), NEW c \in Candle, NEW r \in Rules, r.type = "rsi",
           rsi(r, cs), rsi(r, Append(cs, c)), Len(Append(cs, c)) <= RsiLimit(r)
    PROVE  FALSE
<1> DEFINE ds == Append(cs, c)
           s == Prices(cs)
           t == Prices(ds)
           p == calculate_rsi(s, r.period)
           q == calculate_rsi(t, r.period)
           x == Num(r.threshold)
<1>1. ds \in Seq(Candle) /\ Len(ds) = Len(cs) + 1 /\ Len(cs) \in Nat
  BY AppendProperties, LenProperties
<1>2. r.period \in Nat \ {0} /\ r.threshold \in Int /\ RsiLimit(r) \in Nat
  BY RsiMatch
<1>3. Newest(RsiLimit(r), cs) = cs /\ Newest(RsiLimit(r), ds) = ds
  <2>1. RsiLimit(r) >= Len(cs) /\ RsiLimit(r) >= Len(ds)
    BY <1>1, <1>2
  <2> HIDE DEF ds
  <2> QED
    BY <1>1, <1>2, <2>1, NewestValues
<1> HIDE DEF ds
<1>4. s \in Seq(Rat) /\ Len(s) > r.period /\ RsiCrosses(p, r.direction, x)
  <2> HIDE DEF x, p, s
  <2> QED
    BY <1>3, RsiMatch DEF x, p, s
<1>5. t \in Seq(Rat) /\ Len(t) > r.period /\ RsiCrosses(q, r.direction, x)
  <2> HIDE DEF x, q, t
  <2> QED
    BY <1>1, <1>3, RsiMatch DEF x, q, t, ds
<1>6. OneLonger(s, t)
  BY PricesOneLonger DEF ds
<1> HIDE DEF s, t
<1>7. OneLonger(p, q) /\ p \in Seq(Rat) /\ q \in Seq(Rat)
  BY <1>2, <1>4, <1>5, <1>6, RsiOneLonger, RsiEquation
<1> HIDE DEF p, q
<1>8. p # <<>>
  BY <1>4 DEF RsiCrosses
<1>9. FromEnd(q, 2) = FromEnd(p, 1) /\ FromEnd(p, 1) \in Rat /\ x \in Rat
  BY <1>2, <1>7, <1>8, PreviousIsLast DEF Num, Rat
<1> DEFINE v == FromEnd(p, 1)
<1>10. CASE r.direction = "overbought"
  <2>1. Leq(x, v) /\ Less(v, x)
    BY <1>2, <1>4, <1>5, <1>7, <1>9, <1>10, CrossingOf
  <2> QED
    BY <1>9, <2>1, NotBoth
<1>11. CASE r.direction # "overbought"
  <2>1. Leq(v, x) /\ Less(x, v)
    BY <1>2, <1>4, <1>5, <1>7, <1>9, <1>11, CrossingOf
  <2> QED
    BY <1>9, <2>1, NotBoth
<1> QED
  BY <1>10, <1>11

\* A step that adds a candle: what fired before and after it matches both tables.
LEMMA MatchesTwice ==
    ASSUME IInv, IInv', Next, NEW r \in DOMAIN fired \cap DOMAIN fired'
    PROVE  \E c \in Candle :
               /\ candles' = Append(candles, c) /\ candles \in Seq(Candle) /\ r \in Rules
               /\ Len(candles) \in Nat \ {0} /\ Len(Append(candles, c)) = Len(candles) + 1
               /\ Matches(r, candles) /\ Matches(r, Append(candles, c))
<1>1. PICK close \in Closes, skipped \in 0 .. 1 : AddCandle(close, skipped)
  BY DEF Next
<1>2. PICK ts \in Nat : candles' = Append(candles, [ts |-> ts, close |-> close])
  BY <1>1, OneMore DEF IInv
<1> DEFINE c == [ts |-> ts, close |-> close]
<1>3. c \in Candle
  BY DEF Candle
<1> HIDE DEF c
<1>4. candles \in Seq(Candle) /\ r \in Rules /\ Len(candles) \in Nat \ {0} /\ Matches(r, candles)
  BY FiredMatches DEF IInv, CandlesOK
<1>5. Append(candles, c) # <<>> /\ Len(Append(candles, c)) = Len(candles) + 1
  BY <1>3, <1>4, AppendProperties
<1>6. candles' = Append(candles, c)
  BY <1>2 DEF c
<1>7. Matches(r, candles')
  BY <1>5, <1>6 DEF IInv, FiredIsMatched
<1> QED
  BY <1>3, <1>4, <1>5, <1>6, <1>7

\* rsi and macd_cross match the bar of the crossing and not the next one, as long
\* as the table is no longer than what they read.
THEOREM CrossesOnlyOnce == Spec => CrossesOnce
<1>1. IInv /\ IInv' /\ [Next]_vars =>
        [ \A r \in DOMAIN fired \cap DOMAIN fired' :
            /\ r.type = "rsi" => Len(candles') > RsiLimit(r)
            /\ r.type = "macd_cross" => Len(candles') > MacdLimit ]_vars
  <2> SUFFICES ASSUME IInv, IInv', Next, NEW r \in DOMAIN fired \cap DOMAIN fired'
               PROVE  /\ r.type = "rsi" => Len(candles') > RsiLimit(r)
                      /\ r.type = "macd_cross" => Len(candles') > MacdLimit
    OBVIOUS
  <2>1. PICK c \in Candle :
            /\ candles' = Append(candles, c) /\ candles \in Seq(Candle) /\ r \in Rules
            /\ Len(candles) \in Nat \ {0} /\ Len(Append(candles, c)) = Len(candles) + 1
            /\ Matches(r, candles) /\ Matches(r, Append(candles, c))
    BY MatchesTwice
  <2> DEFINE n == Len(Append(candles, c))
  <2>2. n \in Nat
    BY <2>1
  <2> HIDE DEF n
  <2>3. ASSUME r.type = "rsi" PROVE n > RsiLimit(r)
    <3>1. rsi(r, candles) /\ rsi(r, Append(candles, c))
      BY <2>1, <2>3, Classes
    <3>2. RsiLimit(r) \in Nat
      BY <2>1, <2>3, <3>1, RsiMatch
    <3>3. ~(n <= RsiLimit(r))
      BY <2>1, <2>3, <3>1, RsiCrossesOnce DEF n
    <3> QED
      BY <2>2, <3>2, <3>3
  <2>4. ASSUME r.type = "macd_cross" PROVE n > MacdLimit
    <3>1. macd_cross(r, candles) /\ macd_cross(r, Append(candles, c))
      BY <2>1, <2>4, Classes
    <3>2. ~(n <= MacdLimit)
      BY <2>1, <2>4, <3>1, MacdCrossesOnce DEF n
    <3> QED
      BY <2>2, <3>2, BoundsAssumption
  <2> QED
    BY <2>1, <2>3, <2>4 DEF n
<1> QED
  BY <1>1, Inductive, PTL DEF Spec, CrossesOnce

-----------------------------------------------------------------------------
(***************************************************************************)
(* bollinger_bands.                                                        *)
(***************************************************************************)

\* The window of a bar is as many prices as the period, up to the bar.
LEMMA WindowValues ==
    ASSUME NEW s \in Seq(Rat), NEW period \in Nat \ {0}, NEW i \in period .. Len(s)
    PROVE  LET w == BandWindow(s, period, i) IN
           /\ w \in Seq(Rat) /\ Len(w) = period
           /\ \A m \in 1 .. period : i - period + m \in 1 .. Len(s) /\ w[m] = s[i - period + m]
<1>1. /\ Len(s) \in Nat /\ i - period + 1 \in 1 .. Len(s) /\ i \in i - period + 1 .. Len(s)
      /\ i - (i - period + 1) + 1 = period
      /\ \A m \in 1 .. period : /\ (i - period + 1) + m - 1 = i - period + m
                               /\ i - period + m \in 1 .. Len(s)
  BY LenProperties
<1> DEFINE f == i - period + 1
           v == SubSeq(s, f, i)
<1>2. f \in 1 .. Len(s) /\ i \in f .. Len(s)
  BY <1>1
<1> HIDE DEF f
<1>3. v \in Seq(Rat) /\ Len(v) = i - f + 1 /\ \A m \in 1 .. i - f + 1 : v[m] = s[f + m - 1]
  BY <1>2, SubSequence
<1> HIDE DEF v
<1>4. i - f + 1 = period /\ \A m \in 1 .. period : f + m - 1 = i - period + m
  BY <1>1 DEF f
<1>5. v \in Seq(Rat) /\ Len(v) = period /\ \A m \in 1 .. period : v[m] = s[i - period + m]
  BY <1>3, <1>4
<1>6. BandWindow(s, period, i) = v
  BY DEF BandWindow, v, f
<1> QED
  BY <1>1, <1>5, <1>6

SameWindow(s, i, t, j, period) == \A m \in 1 .. period : s[i - period + m] = t[j - period + m]

\* A band depends on the window of its bar only.
LEMMA SameBand ==
    ASSUME NEW s \in Seq(Rat), NEW t \in Seq(Rat), NEW period \in Nat \ {0}, NEW k, NEW band,
           NEW i \in period .. Len(s), NEW j \in period .. Len(t), SameWindow(s, i, t, j, period)
    PROVE  ToBand(s, period, k, band, i) = ToBand(t, period, k, band, j)
<1> DEFINE v == BandWindow(s, period, i)
           w == BandWindow(t, period, j)
<1>1. i \in Int /\ j \in Int
  OBVIOUS
<1>3. v \in Seq(Rat) /\ Len(v) = period /\ \A m \in 1 .. period : v[m] = s[i - period + m]
  BY WindowValues
<1>4. w \in Seq(Rat) /\ Len(w) = period /\ \A m \in 1 .. period : w[m] = t[j - period + m]
  BY WindowValues
<1> HIDE DEF v, w
<1>5. v = w
  BY <1>3, <1>4, SeqEqual DEF SameWindow
<1>6. s[i] = t[j]
  <2>1. period \in 1 .. period /\ i - period + period = i /\ j - period + period = j
    BY <1>1
  <2>2. s[i - period + period] = t[j - period + period]
    BY <2>1 DEF SameWindow
  <2> QED
    BY <2>1, <2>2
<1> QED
  BY <1>5, <1>6, Zenon DEF ToBand, v, w

\* A match is one of the whole table: what is read is longer than the window.
LEMMA BandsMatch ==
    ASSUME NEW cs \in Seq(Candle), NEW r \in Rules, r.type = "bollinger_bands",
           bollinger_bands(r, cs)
    PROVE  LET n == Len(cs)
               P == Prices(cs)
           IN /\ r.period \in Nat \ {0} /\ r.std_dev \in Nat /\ n \in Nat /\ n >= r.period + 1
              /\ P \in Seq(Rat) /\ Len(P) = n
              /\ BandEvent(r.event, ToBand(P, r.period, r.std_dev, r.band, n - 1),
                                    ToBand(P, r.period, r.std_dev, r.band, n))
<1> DEFINE n == Len(cs)
           P == Prices(cs)
           p == r.period
           L == Larger(p * 3, 60)
           ds == Newest(L, cs)
           s == Prices(ds)
           m == Len(ds)
<1>1. BandMatches(s, r)
  BY DEF bollinger_bands
<1>2. p \in Nat \ {0} /\ r.std_dev \in Nat
  BY <1>1, NumbersAssumption DEF BandMatches
<1>3. L \in Nat /\ L >= p + 1
  BY <1>2 DEF Larger
<1>4. n \in Nat /\ P \in Seq(Rat) /\ Len(P) = n /\ \A i \in 1 .. n : P[i] = Num(cs[i].close)
  BY LenProperties, PricesOf
<1> HIDE DEF L
<1>5. ds \in Seq(Candle) /\ m = Smaller(L, n) /\ \A i \in 1 .. m : ds[i] = cs[i + (n - m)]
  BY <1>3, NewestValues
<1> HIDE DEF ds
<1>6. s \in Seq(Rat) /\ Len(s) = m /\ \A i \in 1 .. m : s[i] = Num(ds[i].close)
  BY <1>5, PricesOf
<1> HIDE DEF s, P, p, n
<1>7. m \in Nat /\ m <= n /\ m >= p + 1
  <2>1. m \in Nat /\ m <= n
    BY <1>3, <1>4, <1>5 DEF Smaller
  <2>2. Len(s) >= r.period + 1
    BY <1>1 DEF BandMatches
  <2> QED
    BY <1>6, <2>1, <2>2 DEF p
<1> HIDE DEF m
<1>8. ASSUME NEW i \in 1 .. m PROVE s[i] = P[i + (n - m)]
  <2>1. i + (n - m) \in 1 .. n
    BY <1>4, <1>7
  <2> QED
    BY <1>4, <1>5, <1>6, <2>1
<1>9. ASSUME NEW i \in {m - 1, m}, NEW k, NEW band
      PROVE  ToBand(s, p, k, band, i) = ToBand(P, p, k, band, i + (n - m))
  <2>1. i \in p .. Len(s) /\ i + (n - m) \in p .. Len(P)
    BY <1>2, <1>4, <1>6, <1>7
  <2>2. ASSUME NEW x \in 1 .. p PROVE s[i - p + x] = P[(i + (n - m)) - p + x]
    <3>1. i - p + x \in 1 .. m /\ (i - p + x) + (n - m) = (i + (n - m)) - p + x
      BY <1>2, <1>4, <1>7
    <3>2. s[i - p + x] = P[(i - p + x) + (n - m)]
      BY <1>8, <3>1, Zenon
    <3> QED
      BY <3>1, <3>2, Zenon
  <2>3. SameWindow(s, i, P, i + (n - m), p)
    BY <2>2, Zenon DEF SameWindow
  <2> QED
    BY <1>2, <1>4, <1>6, <2>1, <2>3, SameBand
<1>10. /\ ToBand(s, p, r.std_dev, r.band, m - 1) = ToBand(P, p, r.std_dev, r.band, n - 1)
       /\ ToBand(s, p, r.std_dev, r.band, m) = ToBand(P, p, r.std_dev, r.band, n)
  <2>1. (m - 1) + (n - m) = n - 1 /\ m + (n - m) = n
    BY <1>4, <1>7
  <2>2. /\ ToBand(s, p, r.std_dev, r.band, m - 1) = ToBand(P, p, r.std_dev, r.band, (m - 1) + (n - m))
        /\ ToBand(s, p, r.std_dev, r.band, m) = ToBand(P, p, r.std_dev, r.band, m + (n - m))
    BY <1>9, Zenon
  <2> QED
    BY <2>1, <2>2
<1>11. BandEvent(r.event, ToBand(s, p, r.std_dev, r.band, m - 1), ToBand(s, p, r.std_dev, r.band, m))
  BY <1>1, <1>6 DEF BandMatches, p
<1>12. n >= p + 1
  BY <1>2, <1>4, <1>7
<1> QED
  BY <1>2, <1>4, <1>10, <1>11, <1>12 DEF n, P, p

\* The side of a band that a close is on.
LEMMA ToBandIsSign ==
    ASSUME NEW prices, NEW period, NEW k, NEW band, NEW i
    PROVE  ToBand(prices, period, k, band, i) \in {-1, 0, 1}
BY DEF ToBand, OffBandOf, OffBand, Beyond

\* How far "touch fires on the transition bar" holds: of two bars in a row that
\* match, the first one closed on the band exactly, as in a flat market.
TouchesOnce ==
    [][ \A r \in DOMAIN fired \cap DOMAIN fired' :
          r.type = "bollinger_bands" /\ r.event = "touch" =>
              ToBand(Prices(candles), r.period, r.std_dev, r.band, Len(candles)) = 0 ]_vars

\* A touch is repeated from the band itself only.
THEOREM TouchesOnlyOnce == Spec => TouchesOnce
<1>1. IInv /\ IInv' /\ [Next]_vars =>
        [ \A r \in DOMAIN fired \cap DOMAIN fired' :
            r.type = "bollinger_bands" /\ r.event = "touch" =>
                ToBand(Prices(candles), r.period, r.std_dev, r.band, Len(candles)) = 0 ]_vars
  <2> SUFFICES ASSUME IInv, IInv', Next, NEW r \in DOMAIN fired \cap DOMAIN fired',
                      r.type = "bollinger_bands", r.event = "touch"
               PROVE  ToBand(Prices(candles), r.period, r.std_dev, r.band, Len(candles)) = 0
    OBVIOUS
  <2>1. PICK c \in Candle :
            /\ candles \in Seq(Candle) /\ r \in Rules
            /\ Len(candles) \in Nat \ {0} /\ Len(Append(candles, c)) = Len(candles) + 1
            /\ Matches(r, candles) /\ Matches(r, Append(candles, c))
    BY MatchesTwice
  <2> DEFINE n == Len(candles)
             ds == Append(candles, c)
             s == Prices(candles)
             t == Prices(ds)
             p == r.period
             Band(prices, i) == ToBand(prices, p, r.std_dev, r.band, i)
  <2>2. ds \in Seq(Candle)
    BY <2>1, AppendProperties
  <2>3. bollinger_bands(r, candles) /\ bollinger_bands(r, ds)
    BY <2>1, Classes
  <2>4. /\ p \in Nat \ {0} /\ n >= p + 1 /\ n \in Nat /\ s \in Seq(Rat) /\ Len(s) = n
        /\ BandEvent(r.event, Band(s, n - 1), Band(s, n))
    BY <2>1, <2>3, BandsMatch
  <2>5. /\ t \in Seq(Rat) /\ Len(t) = n + 1
        /\ BandEvent(r.event, Band(t, n), Band(t, n + 1))
    <3>1. /\ t \in Seq(Rat) /\ Len(t) = Len(ds)
          /\ BandEvent(r.event, Band(t, Len(ds) - 1), Band(t, Len(ds)))
      <4> HIDE DEF ds
      <4> QED
        BY <2>1, <2>2, <2>3, BandsMatch
    <3>2. Len(ds) = n + 1 /\ Len(ds) - 1 = n
      BY <2>1
    <3> QED
      BY <3>1, <3>2
  <2>6. OneLonger(s, t)
    BY <2>1, PricesOneLonger
  <2> HIDE DEF s, t, p, n
  <2>7. Band(s, n) = Band(t, n)
    <3>1. n \in p .. Len(s) /\ n \in p .. Len(t)
      BY <2>4, <2>5
    <3>2. ASSUME NEW m \in 1 .. p PROVE s[n - p + m] = t[n - p + m]
      <4>1. n - p + m \in 1 .. Len(s)
        BY <2>4
      <4> QED
        BY <2>6, <4>1 DEF OneLonger
    <3>3. SameWindow(s, n, t, n, p)
      BY <3>2, Zenon DEF SameWindow
    <3> QED
      BY <2>4, <2>5, <3>1, <3>3, SameBand
  <2>8. Band(s, n) >= 0 /\ Band(t, n) <= 0
    <3>1. "touch" # "break"
      OBVIOUS
    <3> HIDE DEF Band
    <3> QED
      BY <2>4, <2>5, <3>1 DEF BandEvent, Touches
  <2>9. Band(s, n) \in {-1, 0, 1}
    BY ToBandIsSign
  <2>10. Band(s, n) = 0
    <3> HIDE DEF Band
    <3> QED
      BY <2>7, <2>8, <2>9
  <2> QED
    BY <2>10 DEF s, n, p
<1> QED
  BY <1>1, Inductive, PTL DEF Spec, TouchesOnce

\* The difference of an integer to a mean is a fraction of their number, and so
\* is its square.
LEMMA OffMean ==
    ASSUME NEW a \in Int, NEW mean, NEW S, NEW p, Is(mean, S, p)
    PROVE  LET d == a * p - S IN
           /\ d \in Int /\ Is(Minus(Num(a), mean), d, p)
           /\ Is(Square(Minus(Num(a), mean)), d * d, p * p)
<1>1. S \in Int /\ p \in Nat \ {0} /\ Is(Num(a), a, 1)
  BY NumValue DEF Is
<1>2. Is(Minus(Num(a), mean), a * p - S * 1, 1 * p)
  BY <1>1, MinusValue
<1>3. a * p - S * 1 = a * p - S /\ 1 * p = p /\ a * p - S \in Int
  BY <1>1
<1>4. Is(Minus(Num(a), mean), a * p - S, p)
  BY <1>2, <1>3
<1>5. Is(Square(Minus(Num(a), mean)), (a * p - S) * (a * p - S), p * p)
  BY <1>4, TimesValue DEF Square
<1> QED
  BY <1>3, <1>4, <1>5

\* A close that is beyond a band of k deviations is one of more than k * k + 1.
LEMMA BreakIsFar ==
    ASSUME NEW P \in Seq(Rat), NEW p \in Nat \ {0}, NEW k \in Nat, NEW band,
           NEW n \in p .. Len(P), NEW c \in [1 .. Len(P) -> Int],
           \A i \in 1 .. Len(P) : P[i] = Num(c[i]),
           ToBand(P, p, k, band, n) > 0
    PROVE  p - 1 > k * k
<1> DEFINE w == BandWindow(P, p, n)
           x == [m \in 1 .. p |-> c[n - p + m]]
           mean == Mean(w)
           v == [j \in DOMAIN w |-> Square(Minus(w[j], mean))]
<1>1. p \in 1 .. p /\ n - p + p = n
  OBVIOUS
<1>2. /\ w \in Seq(Rat) /\ Len(w) = p
      /\ \A m \in 1 .. p : n - p + m \in 1 .. Len(P) /\ w[m] = P[n - p + m]
  BY WindowValues
<1>3. x \in [1 .. p -> Int]
  BY <1>2
<1>4. \A m \in 1 .. p : w[m] = Num(x[m]) /\ x[m] \in Int
  <2> HIDE DEF w
  <2> QED
    BY <1>2
<1>5. P[n] = w[p]
  BY <1>1, <1>2
<1> HIDE DEF w, x
<1>6. PICK X : IntegerSums(X, x, p)
  BY <1>3, IntegerSumsExist
<1> DEFINE S == X[p]
<1>7. Is(mean, S, p)
  <2>1. w # <<>>
    BY <1>2
  <2>2. \A i \in 1 .. Len(w) : x[i] \in Int /\ Is(w[i], x[i], 1)
    BY <1>2, <1>4, NumValue
  <2>3. 1 \in Nat \ {0} /\ IntegerSums(X, x, Len(w))
    BY <1>2, <1>6
  <2>4. Is(Mean(w), X[Len(w)], 1 * Len(w))
    BY <1>2, <2>1, <2>2, <2>3, MeanValue
  <2>5. 1 * Len(w) = p
    BY <1>2
  <2> QED
    BY <1>2, <2>4, <2>5
<1> HIDE DEF mean
<1> DEFINE D == [i \in 1 .. p |-> x[i] * p - X[p]]
           E == [i \in 1 .. p |-> D[i] * D[i]]
<1>8. S \in Int
  BY <1>7 DEF Is
<1>9. ASSUME NEW m \in 1 .. p
      PROVE  /\ D[m] \in Int /\ E[m] = D[m] * D[m] /\ E[m] \in Int
             /\ Is(Square(Minus(w[m], mean)), E[m], p * p)
  <2>1. D[m] = x[m] * p - S /\ E[m] = D[m] * D[m] /\ x[m] \in Int /\ w[m] = Num(x[m])
    BY <1>4
  <2> HIDE DEF D, E, S
  <2>2. x[m] * p - S \in Int
    BY <1>8, <2>1
  <2>3. Is(Square(Minus(Num(x[m]), mean)), (x[m] * p - S) * (x[m] * p - S), p * p)
    BY <1>7, <2>1, OffMean
  <2>4. E[m] \in Int
    BY <2>1, <2>2
  <2> QED
    BY <2>1, <2>2, <2>3, <2>4
<1>10. E \in [1 .. p -> Int]
  <2> HIDE DEF D
  <2> QED
    BY <1>9
<1>11. PICK Q : IntegerSums(Q, E, p)
  <2> HIDE DEF E
  <2> QED
    BY <1>10, IntegerSumsExist
<1>12. Q[p] \in Nat /\ D[p] \in Int /\ p * (D[p] * D[p]) <= (p - 1) * Q[p]
  <2>1. Offsets(D, x, X[p], p) /\ Squares(E, D, p)
    BY Zenon DEF Offsets, Squares
  <2> HIDE DEF D, E
  <2> QED
    BY <1>3, <1>6, <1>11, <2>1, LastFromMean
<1> HIDE DEF D, E, S
<1>13. v \in Seq(Rat) /\ Len(v) = p /\ \A i \in 1 .. p : v[i] = Square(Minus(w[i], mean))
  <2>1. DOMAIN w = 1 .. p
    BY <1>2, LenProperties
  <2>2. v \in [1 .. p -> Rat]
    <3>1. \A i \in 1 .. p : Square(Minus(w[i], mean)) \in Rat
      BY <1>9 DEF Is
    <3> QED
      BY <2>1, <3>1
  <2>3. p \in Nat
    OBVIOUS
  <2> QED
    BY <2>1, <2>2, <2>3, FunctionIsSequence
<1>14. Is(Variance(w, mean), Q[p], (p * p) * p)
  <2>1. Variance(w, mean) = Mean(v)
    BY DEF Variance
  <2> HIDE DEF v
  <2>2. v # <<>> /\ p * p \in Nat \ {0} /\ IntegerSums(Q, E, Len(v))
    <3>1. p * p > 0
      OBVIOUS
    <3> QED
      BY <1>11, <1>13, <3>1
  <2>3. \A i \in 1 .. Len(v) : E[i] \in Int /\ Is(v[i], E[i], p * p)
    BY <1>9, <1>13
  <2>4. Is(Mean(v), Q[Len(v)], (p * p) * Len(v))
    BY <1>13, <2>2, <2>3, MeanValue
  <2> QED
    BY <1>13, <2>1, <2>4
<1> DEFINE d == D[p]
           q == Q[p]
           square == Square(Minus(P[n], mean))
           reach == Times(Num(k * k), Variance(w, mean))
<1>15. Is(square, d * d, p * p)
  <2>1. P[n] = w[p] /\ E[p] = d * d
    BY <1>1, <1>5, <1>9
  <2> QED
    BY <1>1, <1>9, <2>1
<1>16. Is(reach, (k * k) * q, (p * p) * p)
  <2>1. Is(Num(k * k), k * k, 1)
    BY NumValue
  <2>2. Is(reach, (k * k) * q, 1 * ((p * p) * p))
    BY <1>14, <2>1, TimesValue
  <2>3. 1 * ((p * p) * p) = (p * p) * p
    OBVIOUS
  <2> QED
    BY <2>2, <2>3
<1>17. ~Leq(square, reach)
  BY DEF ToBand, OffBandOf, OffBand, Beyond, w, mean
<1>18. ~((d * d) * ((p * p) * p) <= ((k * k) * q) * (p * p))
  <2> HIDE DEF square, reach, d, q
  <2> QED
    BY <1>15, <1>16, <1>17, Order
<1>19. d \in Int /\ q \in Nat /\ p * (d * d) <= (p - 1) * q
  BY <1>12
<1> HIDE DEF d, q
<1>20. ASSUME p - 1 <= k * k PROVE FALSE
  <2> DEFINE j == k * k
             h == p - 1
             e == d * d
             b == p * p
  <2>1. j \in Nat /\ h \in Nat /\ h <= j /\ e \in Int /\ b \in Nat \ {0} /\ p * e <= h * q
    <3>1. p * p > 0
      OBVIOUS
    <3> QED
      BY <1>19, <1>20, <3>1
  <2>2. e * (b * p) = (p * e) * b
    BY <2>1
  <2> HIDE DEF j, h, e, b
  <2>3. h * q <= j * q
    <3>1. (j - h) * q >= 0
      BY <1>19, <2>1
    <3>2. (j - h) * q = j * q - h * q
      BY <1>19, <2>1
    <3>3. j * q \in Int /\ h * q \in Int
      BY <1>19, <2>1
    <3> QED
      BY <3>1, <3>2, <3>3
  <2>4. p * e <= j * q /\ p * e \in Int /\ j * q \in Int
    <3>1. p * e \in Int /\ h * q \in Int /\ j * q \in Int
      BY <1>19, <2>1
    <3> QED
      BY <2>1, <2>3, <3>1
  <2>5. (p * e) * b <= (j * q) * b
    BY <2>1, <2>4, Cancel
  <2>6. ~(e * (b * p) <= (j * q) * b)
    BY <1>18 DEF j, e, b
  <2> QED
    BY <2>2, <2>5, <2>6
<1> QED
  BY <1>20

\* BreakNeedsPeriod follows from the inductive invariant.
LEMMA BreakHasPeriod == IInv => BreakNeedsPeriod
<1> SUFFICES ASSUME IInv, NEW r \in Fired("bollinger_bands"), r.event = "break"
             PROVE  r.period - 1 > r.std_dev * r.std_dev
  BY DEF BreakNeedsPeriod
<1>1. r \in DOMAIN fired /\ r.type = "bollinger_bands"
  BY DEF Fired
<1>2. r \in Rules /\ bollinger_bands(r, candles) /\ candles \in Seq(Candle)
  BY <1>1, FiredMatches, Classes DEF IInv, CandlesOK
<1> DEFINE P == Prices(candles)
           n == Len(candles)
           p == r.period
           c == [i \in 1 .. n |-> candles[i].close]
<1>3. /\ p \in Nat \ {0} /\ r.std_dev \in Nat /\ n \in Nat /\ n >= p + 1 /\ P \in Seq(Rat) /\ Len(P) = n
      /\ BandEvent(r.event, ToBand(P, p, r.std_dev, r.band, n - 1), ToBand(P, p, r.std_dev, r.band, n))
  BY <1>1, <1>2, BandsMatch
<1>4. c \in [1 .. Len(P) -> Int] /\ \A i \in 1 .. Len(P) : P[i] = Num(c[i])
  BY <1>2, <1>3, PricesOf
<1> HIDE DEF P, c
<1>5. ToBand(P, p, r.std_dev, r.band, n) > 0
  BY <1>3 DEF BandEvent
<1>6. n \in p .. Len(P)
  BY <1>3
<1> QED
  BY <1>3, <1>4, <1>5, <1>6, BreakIsFar

\* Of n values none is further than the square root of n - 1 deviations from their
\* mean: a rule that asks for more is accepted and never matches.
THEOREM BreaksNeedPeriod == Spec => []BreakNeedsPeriod
BY Inductive, BreakHasPeriod, PTL
==============================================================================
