---------------------------- MODULE MCPaperExecutor ----------------------------
(* Instances of PaperExecutor for TLC: a long on symbol "A", a short on "B". *)
EXTENDS PaperExecutor

MCSignals == {"s1", "s2"}
MCSymbols  == {"A", "B"}
MCSymbolOf == [s \in MCSignals |-> IF s = "s1" THEN "A" ELSE "B"]
MCSideOf   == [s \in MCSignals |-> IF s = "s1" THEN "LONG" ELSE "SHORT"]
MCStopOf   == [s \in MCSignals |-> IF s = "s1" THEN 1 ELSE 4]
MCTargetOf == [s \in MCSignals |-> IF s = "s1" THEN 3 ELSE 2]
=============================================================================
