---------------------------- MODULE TradeLifecycle ----------------------------
(***************************************************************************)
(* What paper execution promises about every signal, whatever the process  *)
(* remembers and wherever it dies: a signal is decided once, its entry and *)
(* its position occupy the portfolio's only slot, it only ever moves       *)
(* forward, and a signal that ended never trades again.                    *)
(***************************************************************************)
CONSTANT Signals

VARIABLE stage

Stages == {"new", "triggered", "rejected", "missed", "working", "held", "done"}

Occupies(s) == stage[s] \in {"working", "held"}

Init == stage = [s \in Signals |-> "new"]

Move(s, to) == stage' = [stage EXCEPT ![s] = to]

Reject(s)   == stage[s] = "new" /\ Move(s, "rejected")

(* The decision was written down and the process died before acting on it.  *)
Announce(s) == stage[s] = "new" /\ Move(s, "triggered")

Submit(s) ==
  /\ stage[s] = "new"
  /\ \A t \in Signals : ~Occupies(t)
  /\ Move(s, "working")

(* Blocked at once, or unfilled when the entry expired or was cancelled.    *)
Miss(s)     == stage[s] \in {"new", "working"} /\ Move(s, "missed")

Hold(s)     == stage[s] = "working" /\ Move(s, "held")

Release(s)  == stage[s] = "held" /\ Move(s, "done")

(* Start-up gives up what was announced and never submitted.                *)
GiveUp ==
  stage' = [s \in Signals |-> IF stage[s] = "triggered" THEN "missed" ELSE stage[s]]

Next ==
  \/ \E s \in Signals :
       Reject(s) \/ Announce(s) \/ Submit(s) \/ Miss(s) \/ Hold(s) \/ Release(s)
  \/ GiveUp

Spec == Init /\ [][Next]_stage
=============================================================================
