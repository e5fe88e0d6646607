----------------------------- MODULE MCDepthWalls -----------------------------
(* An instance of DepthWalls for TLC: sizes on both sides of two thresholds, *)
(* a footprint in every instant and a minute of two of them.                *)
EXTENDS DepthWalls
=============================================================================
