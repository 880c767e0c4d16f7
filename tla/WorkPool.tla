------------------------------ MODULE WorkPool ------------------------------
(***************************************************************************)
(* What the dispatcher promises about its worker threads: never more than  *)
(* MaxRequests of them work at once, and a stop on request of the operator *)
(* happens when none of them does.  The pool may also be abandoned with    *)
(* work in progress: when the coordinator goes away, an error aborts the   *)
(* copytool, or a signal interrupts another thread than main.              *)
(***************************************************************************)
EXTENDS Integers, FiniteSets

CONSTANTS Workers, MaxRequests

VARIABLES busy,    \* the workers that have an item
          status   \* "open", "stopped" (by a signal) or "left"

Init == busy = {} /\ status = "open"

Start(w) ==
    /\ status = "open" /\ w \notin busy
    /\ Cardinality(busy) < MaxRequests
    /\ busy' = busy \cup {w}
    /\ UNCHANGED status

Finish(w) ==
    /\ status = "open" /\ w \in busy
    /\ busy' = busy \ {w}
    /\ UNCHANGED status

Stop ==
    /\ status = "open" /\ busy = {}
    /\ status' = "stopped"
    /\ UNCHANGED busy

Leave ==
    /\ status = "open"
    /\ status' = "left" /\ busy' = {}

Next == (\E w \in Workers : Start(w) \/ Finish(w)) \/ Stop \/ Leave

Spec == Init /\ [][Next]_<<busy, status>>

============================================================================
