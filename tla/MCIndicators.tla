---------------------------- MODULE MCIndicators ----------------------------
(***************************************************************************)
(* A small instance of Indicators for TLC, with every type of rule, and    *)
(* among them rules that the API accepts and that can never match.         *)
(***************************************************************************)
EXTENDS Indicators

Macd(fast, slow, signal, crossover) ==
    [type |-> "macd_cross", fast |-> fast, slow |-> slow, signal |-> signal, crossover |-> crossover]
Rsi(period, direction, threshold) ==
    [type |-> "rsi", period |-> period, direction |-> direction, threshold |-> threshold]
Bands(period, std_dev, band, event) ==
    [type |-> "bollinger_bands", period |-> period, std_dev |-> std_dev, band |-> band, event |-> event]

MCRules ==
    {Macd(1, 2, 2, "bullish"), Macd(1, 2, 2, "bearish"),
     Macd(3, 4, 2, "bullish"), Macd(4, 5, 2, "bullish"),
     Rsi(1, "overbought", 70), Rsi(2, "overbought", 50), Rsi(3, "oversold", 50),
     Bands(3, 1, "upper", "break"), Bands(2, 1, "lower", "break"),
     Bands(3, 1, "lower", "touch"), Bands(2, 1, "upper", "touch"),
     [type |-> "price_threshold", threshold |-> 2, operator |-> ">="],
     [type |-> "candle_close", value |-> 2, operator |-> "<="],
     [type |-> "percent_move", percent_threshold |-> 50, window |-> 1],
     [type |-> "percent_move", percent_threshold |-> 50, window |-> 4]}
=============================================================================
