----------------------------- MODULE Indicators -----------------------------
(***************************************************************************)
(* The six rule classes and the indicators they use, run on every candle   *)
(* of one symbol as the table grows.                                       *)
(*                                                                         *)
(* Numbers are exact (module Rationals), so that what is shown is about    *)
(* the formulas, not about rounding.  A band is compared by squares        *)
(* instead of a root.  Time is counted in half intervals, 450 s.           *)
(***************************************************************************)
EXTENDS Rationals, SequencesExt

CONSTANTS
    Closes,         \* possible closing prices
    Rules,          \* the active rules: [type |-> rule_type, and its config]
    MacdLimit,      \* candles that macd_cross reads: 50 in the code
    RsiFloor,       \* candles that rsi reads at least: 100 in the code
    MaxCandles,     \* bounds of the model: candles,
    GapsUntil       \* and the length of the table up to which some may be missing

VARIABLES
    candles,        \* table candles by time: [ts, close]
    fired           \* the rules that matched the last candle, with trigger_value

vars == <<candles, fired>>

Interval == 2

\* The last n values, and the i-th value from the end.
Newest(n, s) == SubSeq(s, Larger(1, Len(s) - n + 1), Len(s))
FromEnd(s, i) == s[Len(s) + 1 - i]

-----------------------------------------------------------------------------
(***************************************************************************)
(* The indicators.                                                         *)
(***************************************************************************)

\* SubSeq is all of the function, as a sequence that TLC computes once.
EmaStep(ema, price, multiplier) == Plus(Times(Minus(price, ema), multiplier), ema)

calculate_ema(prices, period) ==
    IF Len(prices) < period THEN <<>>
    ELSE LET ema[i \in 1 .. Len(prices) - period + 1] ==
                 IF i = 1 THEN Mean(SubSeq(prices, 1, period))
                 ELSE EmaStep(ema[i - 1], prices[period + i - 1], Ratio(2, period + 1))
         IN  SubSeq(ema, 1, Len(prices) - period + 1)

Differences(f, s) == [i \in DOMAIN f |-> Minus(f[i], s[i])]
Aligned(f, s) ==
    Differences(Newest(Smaller(Len(f), Len(s)), f), Newest(Smaller(Len(f), Len(s)), s))

\* The MACD line and its signal line; empty without enough data.
NoMacd == [line |-> <<>>, signal |-> <<>>]
WithSignal(line, signal) == IF signal = <<>> THEN NoMacd ELSE [line |-> line, signal |-> signal]
SignalOf(line, period) == WithSignal(line, calculate_ema(line, period))
MacdOf(fastEma, slowEma, slow, signal) ==
    IF Len(fastEma) < slow THEN NoMacd ELSE SignalOf(Aligned(fastEma, slowEma), signal)

calculate_macd(prices, fast, slow, signal) ==
    IF Len(prices) < slow + signal THEN NoMacd
    ELSE MacdOf(calculate_ema(prices, fast), calculate_ema(prices, slow), slow, signal)

\* Variant: a loss is not cut off at zero.
LossSigned(change) == Minus(Zero, change)
Gain(change) == IF Less(change, Zero) THEN Zero ELSE change
Loss(change) == IF Less(change, Zero) THEN Minus(Zero, change) ELSE Zero

RsiFromAvgs(gain, loss) ==
    IF loss[1] = 0 THEN Num(100)
    ELSE Minus(Num(100), Over(Num(100), Plus(Num(1), Over(gain, loss))))

\* Wilder's average from the first change that has enough before it.
WilderStep(avg, x, period) == Over(Plus(Times(avg, Num(period - 1)), x), Num(period))
Averages(s, period) ==
    LET avg[i \in 1 .. Len(s) - period + 1] ==
            IF i = 1 THEN Mean(SubSeq(s, 1, period))
            ELSE WilderStep(avg[i - 1], s[period + i - 1], period)
    IN  SubSeq(avg, 1, Len(s) - period + 1)

Changes(prices) == [i \in 1 .. Len(prices) - 1 |-> Minus(prices[i + 1], prices[i])]
RsiOf(gains, losses) == [i \in DOMAIN gains |-> RsiFromAvgs(gains[i], losses[i])]
RsiOfChanges(changes, period) ==
    RsiOf(Averages([i \in DOMAIN changes |-> Gain(changes[i])], period),
          Averages([i \in DOMAIN changes |-> Loss(changes[i])], period))

calculate_rsi(prices, period) ==
    IF Len(prices) <= period THEN <<>> ELSE RsiOfChanges(Changes(prices), period)

\* Variant: the window of a band ends one bar early.
BandWindowBefore(prices, period, i) == SubSeq(prices, Larger(1, i - period), i - 1)
BandWindow(prices, period, i) == SubSeq(prices, i - period + 1, i)

Square(x) == Times(x, x)
Variance(w, mean) == Mean([j \in DOMAIN w |-> Square(Minus(w[j], mean))])

\* How a price that is off the mean lies to a band: 1 beyond it, 0 on it, -1
\* inside.  "off > k * sd" is compared by squares.
Beyond(off, square, reach) ==
    IF off[1] < 0 \/ Less(square, reach) THEN -1 ELSE IF Leq(square, reach) THEN 0 ELSE 1
OffBand(price, w, mean, k, band) ==
    Beyond(Times(Minus(price, mean), Num(IF band = "upper" THEN 1 ELSE -1)),
           Square(Minus(price, mean)), Times(Num(k * k), Variance(w, mean)))
OffBandOf(price, w, k, band) == OffBand(price, w, Mean(w), k, band)

\* The close at bar i and the upper or lower band of that bar.
ToBand(prices, period, k, band, i) ==
    OffBandOf(prices[i], BandWindow(prices, period, i), k, band)

-----------------------------------------------------------------------------
(***************************************************************************)
(* The rule classes: Matches(r, cs) of the newest candle of the table cs.  *)
(***************************************************************************)

\* validate_config: the keys that are asked for and the values of the enumerated
\* ones.  Periods are not compared with each other or with what is read.
Accepted(r) ==
    LET Has(keys) == keys \subseteq DOMAIN r
    IN \/ r.type = "price_threshold" /\ Has({"threshold", "operator"}) /\ r.operator \in {">=", "<="}
       \/ r.type = "candle_close" /\ Has({"value", "operator"}) /\ r.operator \in {">=", "<="}
       \/ r.type = "percent_move" /\ Has({"percent_threshold", "window"})
       \/ /\ r.type = "macd_cross" /\ Has({"fast", "slow", "signal", "crossover"})
          /\ r.crossover \in {"bullish", "bearish"}
       \/ r.type = "rsi" /\ Has({"direction"}) /\ r.direction \in {"overbought", "oversold"}
       \/ /\ r.type = "bollinger_bands" /\ Has({"band", "event"})
          /\ r.band \in {"upper", "lower"} /\ r.event \in {"touch", "break"}

\* Rules as create_rule lets them in.  PUT does not ask (RuleUpdate has no validator):
\* what a class does with a config that lacks a key is not modelled.
ASSUME RulesAssumption == \A r \in Rules : Accepted(r)

\* The API does not check the numbers of a config.  Periods of 0 and negative
\* windows are among them; negative periods and deviations are not modelled.
ASSUME NumbersAssumption == \A r \in Rules :
    /\ r.type = "percent_move" => r.percent_threshold \in Int /\ r.window \in Int
    /\ r.type = "macd_cross" => r.fast \in Nat /\ r.slow \in Nat /\ r.signal \in Nat
    /\ r.type = "rsi" => r.period \in Nat /\ r.threshold \in Int
    /\ r.type = "bollinger_bands" => r.period \in Nat /\ r.std_dev \in Nat
ASSUME BoundsAssumption ==
    Closes \subseteq Nat /\ MacdLimit \in Nat /\ RsiFloor \in Nat /\ MaxCandles \in Nat /\ GapsUntil \in Nat

Prices(cs) == [i \in DOMAIN cs |-> Num(cs[i].close)]

Compare(a, operator, b) == IF operator = ">=" THEN a >= b ELSE a <= b

price_threshold(r, cs) == Compare(Last(cs).close, r.operator, r.threshold)
candle_close(r, cs) == Compare(Last(cs).close, r.operator, r.value)

\* Variant: the last candle up to the start of the window is taken.
OldCandleBefore(cs, start) ==
    LET old == {i \in DOMAIN cs : cs[i].ts <= start}
    IN IF old = {} THEN cs[1] ELSE cs[CHOOSE i \in old : \A j \in old : i >= j]

\* The oldest candle of the window; the newest one is in every window.
OldCandle(cs, start) ==
    LET old == {i \in DOMAIN cs : cs[i].ts >= start}
    IN cs[CHOOSE i \in old : \A j \in old : i <= j]

Moves(old, new, percent) == old # 0 /\ Size(new - old) * 100 >= percent * old
percent_move(r, cs) ==
    /\ r.window >= 0
    /\ Moves(OldCandle(cs, Last(cs).ts - r.window).close, Last(cs).close, r.percent_threshold)

\* Variant: all candles are read.
MacdTableAll(cs) == cs
MacdTable(cs) == Newest(MacdLimit, cs)

\* Bearish is bullish with the two lines exchanged.
CrossesOver(a, b) ==
    /\ Len(a) >= 2 /\ Len(b) >= 2
    /\ Less(FromEnd(b, 1), FromEnd(a, 1)) /\ Leq(FromEnd(a, 2), FromEnd(b, 2))
MacdCrosses(macd, crossover) ==
    IF crossover = "bullish" THEN CrossesOver(macd.line, macd.signal)
                             ELSE CrossesOver(macd.signal, macd.line)

\* With a period of 0 the average divides by it; the engine swallows the error.
macd_cross(r, cs) ==
    /\ 0 \notin {r.fast, r.slow, r.signal}
    /\ MacdCrosses(calculate_macd(Prices(MacdTable(cs)), r.fast, r.slow, r.signal), r.crossover)

RsiLimit(r) == Larger(r.period * 5, RsiFloor)
Rsis(r, cs) == calculate_rsi(Prices(Newest(RsiLimit(r), cs)), r.period)

\* Variant: a value that stays on the threshold crosses it, too.
CrossesOrStays(previous, threshold, current) == Leq(previous, threshold) /\ Leq(threshold, current)
Crosses(previous, threshold, current) == Less(previous, threshold) /\ Leq(threshold, current)

Negated(x) == Minus(Zero, x)
RsiCrosses(rsis, direction, threshold) ==
    /\ Len(rsis) >= 2
    /\ IF direction = "overbought"
       THEN Crosses(FromEnd(rsis, 2), threshold, FromEnd(rsis, 1))
       ELSE Crosses(Negated(FromEnd(rsis, 2)), Negated(threshold), Negated(FromEnd(rsis, 1)))

rsi(r, cs) == r.period # 0 /\ RsiCrosses(Rsis(r, cs), r.direction, Num(r.threshold))

Touches(previous, current) == previous <= 0 /\ current >= 0

BandEvent(event, previous, current) ==
    IF event = "break" THEN current > 0 ELSE Touches(previous, current)
BandMatches(prices, r) ==
    /\ r.period # 0
    /\ Len(prices) >= r.period + 1
    /\ BandEvent(r.event, ToBand(prices, r.period, r.std_dev, r.band, Len(prices) - 1),
                          ToBand(prices, r.period, r.std_dev, r.band, Len(prices)))

bollinger_bands(r, cs) == BandMatches(Prices(Newest(Larger(r.period * 3, 60), cs)), r)

Matches(r, cs) ==
    CASE r.type = "price_threshold" -> price_threshold(r, cs)
      [] r.type = "candle_close" -> candle_close(r, cs)
      [] r.type = "percent_move" -> percent_move(r, cs)
      [] r.type = "macd_cross" -> macd_cross(r, cs)
      [] r.type = "rsi" -> rsi(r, cs)
      [] r.type = "bollinger_bands" -> bollinger_bands(r, cs)

\* trigger_value: the RSI for an rsi rule, else the close.
TriggerValue(r, cs) == IF r.type = "rsi" THEN Last(Rsis(r, cs)) ELSE Num(Last(cs).close)

-----------------------------------------------------------------------------
Init == candles = <<>> /\ fired = [r \in {} |-> Zero]

\* A candle is saved and the rules are evaluated on it; candles in between may
\* be missing.
AddCandle(close, skipped) ==
    /\ Len(candles) < MaxCandles
    /\ skipped > 0 => Len(candles) \in 1 .. GapsUntil
    /\ LET ts == IF candles = <<>> THEN 0 ELSE Last(candles).ts + Interval * (1 + skipped)
       IN candles' = Append(candles, [ts |-> ts, close |-> close])
    /\ fired' = [r \in {q \in Rules : Matches(q, candles')} |-> TriggerValue(r, candles')]

Next == \E close \in Closes, skipped \in 0 .. 1 : AddCandle(close, skipped)

Spec == Init /\ [][Next]_vars

-----------------------------------------------------------------------------
(***************************************************************************)
(* Properties.                                                             *)
(***************************************************************************)

\* Types; an RSI lies between 0 and 100.
TypeOK ==
    /\ candles \in Seq([ts : Nat, close : Closes])
    /\ DOMAIN fired \subseteq Rules
    /\ \A r \in DOMAIN fired :
         IF r.type = "rsi" THEN Leq(Zero, fired[r]) /\ Leq(fired[r], Num(100))
         ELSE fired[r][1] \in Closes /\ fired[r][2] = 1

Fired(type) == {r \in DOMAIN fired : r.type = type}
Change == Last(candles).close - FromEnd(candles, 2).close

\* An overbought alert comes on a rise, an oversold one on a fall, whatever the
\* first average of the window was.  (With period 1 a flat bar counts as RSI 100.)
RsiFollowsPrice ==
    \A r \in Fired("rsi") : r.period > 1 =>
        IF r.direction = "overbought" THEN Change > 0 ELSE Change < 0

\* rsi and macd_cross match the bar of the crossing and not the next one, as long
\* as the table is no longer than what they read.  After that the averages start
\* from another bar each time, and one crossing can match twice.
CrossesOnce ==
    [][ \A r \in DOMAIN fired \cap DOMAIN fired' :
          /\ r.type = "rsi" => Len(candles') > RsiLimit(r)
          /\ r.type = "macd_cross" => Len(candles') > MacdLimit ]_vars

\* Of n values none is further than the square root of n - 1 deviations from
\* their mean: a rule that asks for more is accepted and never matches.
BreakNeedsPeriod ==
    \A r \in Fired("bollinger_bands") :
        r.event = "break" => r.period - 1 > r.std_dev * r.std_dev

\* macd_cross never matches with periods that need more candles than it reads,
\* which the API accepts; it needs more than the slow + signal it asks for.
MacdNeedsItsCandles ==
    \A r \in Fired("macd_cross") : \A n \in {Len(candles), MacdLimit} :
        /\ n >= r.slow + r.signal
        /\ n >= r.slow + r.fast - 1
        /\ n >= r.fast + r.signal

\* percent_move matches on a move between two candles of its window, whatever
\* candles are missing: with a window below one interval (300 s in the README's
\* example) never.  (A threshold of 0 or less is reached without a move.)
MovesWithinWindow ==
    \A r \in Fired("percent_move") : r.percent_threshold > 0 => \E i \in 1 .. Len(candles) - 1 :
        /\ Last(candles).ts - candles[i].ts <= r.window
        /\ Size(Last(candles).close - candles[i].close) * 100
             >= r.percent_threshold * candles[i].close
=============================================================================
