----------------------------- MODULE MCLevelStore -----------------------------
(* Two pivots within tolerance of each other, for TLC.  With MCNear, both    *)
(* are in sight together for a while; with MCFar, the lower one leaves the   *)
(* history two bars before the higher one does.                             *)
EXTENDS LevelStore

MCPivots  == {"p1", "p2"}
MCPriceOf == [p \in MCPivots |-> IF p = "p1" THEN 1 ELSE 2]
MCNear    == [p \in MCPivots |-> IF p = "p1" THEN 2 ELSE 3]
MCFar     == [p \in MCPivots |-> IF p = "p1" THEN 2 ELSE 4]
=============================================================================
