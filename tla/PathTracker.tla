----------------------------- MODULE PathTracker -----------------------------
(***************************************************************************)
(* signal_path.py's IncrementalSignalPath: what one trade tick, a timeout   *)
(* or a cut-off makes of the diagnostic path of one signal, which ends at   *)
(* the first tick that touches the signal's target or stop.                 *)
(* The excursions it also keeps are left out: no later step reads them.     *)
(***************************************************************************)
EXTENDS Naturals

CONSTANTS
  Signals,     (* signals whose paths are followed                          *)
  SymbolOf,    (* the symbol a signal trades                                *)
  SideOf,      (* "buy" or "sell"                                           *)
  StopOf,      (* its stop price                                            *)
  TargetOf,    (* its target price                                          *)
  Horizon      (* signal_path_horizon_ms: how long a path may stay open     *)

ASSUME TrackerAssumption ==
  /\ SideOf \in [Signals -> {"buy", "sell"}]
  /\ StopOf \in [Signals -> Nat]
  /\ TargetOf \in [Signals -> Nat]
  /\ \A s \in Signals :
       IF SideOf[s] = "buy" THEN StopOf[s] < TargetOf[s] ELSE TargetOf[s] < StopOf[s]
  /\ Horizon \in Nat \ {0}

Touches    == {"TP_TOUCHED", "SL_TOUCHED"}
PathStatus == Touches \cup {"NO_TOUCH", "TIMEOUT", "UNKNOWN"}

(* `at' is first_touch_at_ms, `last' the end of the coverage.               *)
Tracker == [start: Nat, last: Nat, status: PathStatus, at: Nat]

Begun(t) == [start |-> t, last |-> t, status |-> "NO_TOUCH", at |-> 0]

Ended(p)    == p.status # "NO_TOUCH"
Deadline(p) == p.start + Horizon

TargetTouched(s, price) ==
  IF SideOf[s] = "buy" THEN price >= TargetOf[s] ELSE price <= TargetOf[s]

StopTouched(s, price) ==
  IF SideOf[s] = "buy" THEN price <= StopOf[s] ELSE price >= StopOf[s]

(* _touch for a tick; the two boundaries exclude each other.                *)
Touch(s, price) ==
  CASE TargetTouched(s, price) -> "TP_TOUCHED"
    [] StopTouched(s, price)   -> "SL_TOUCHED"
    [] OTHER                   -> "NO_TOUCH"

(* observe_trade: an ended path keeps its verdict.                          *)
Observed(s, p, t, price) ==
  IF Ended(p) THEN p
  ELSE IF Touch(s, price) = "NO_TOUCH"
  THEN [p EXCEPT !.last = t]
  ELSE [p EXCEPT !.last = t, !.status = Touch(s, price), !.at = t]

TimedOut(p, t) ==
  IF Ended(p) THEN p ELSE [p EXCEPT !.last = t, !.status = "TIMEOUT", !.at = t]

(* timeout raises when the coverage already reaches beyond it.              *)
TimeoutRaises(p, t) == t < p.last

(* A mutant: a cut-off overwrites a verdict.                                *)
CutOffAnyway(p, t) == [p EXCEPT !.last = t, !.status = "UNKNOWN"]

(* mark_unknown.                                                            *)
CutOff(p, t) == IF Ended(p) THEN p ELSE [p EXCEPT !.last = t, !.status = "UNKNOWN"]

(* occurred_at_ms of the event that reports an ended path.                  *)
ReportedAt(p) == IF p.status = "UNKNOWN" THEN p.last ELSE p.at
=============================================================================
