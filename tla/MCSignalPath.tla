----------------------------- MODULE MCSignalPath -----------------------------
(* Instances of SignalPath for TLC: a buy and a sell on the same symbol.     *)
EXTENDS SignalPath

MCSignals  == {"s1", "s2"}
MCSymbolOf == [s \in MCSignals |-> "A"]
MCSideOf   == [s \in MCSignals |-> IF s = "s1" THEN "buy" ELSE "sell"]
MCStopOf   == [s \in MCSignals |-> IF s = "s1" THEN 1 ELSE 4]
MCTargetOf == [s \in MCSignals |-> IF s = "s1" THEN 3 ELSE 1]
=============================================================================
