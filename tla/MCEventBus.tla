----------------------------- MODULE MCEventBus -----------------------------
(* EventBus for TLC, with one slot, so that a waiting retry fills it.  In   *)
(* MCEventBus.cfg m1 is published by the process itself, and m2 lies in the *)
(* queue and has no handler; in MCEventBus_retries.cfg both lie there, and  *)
(* only copies of m2 can be published.                                      *)
EXTENDS EventBus

CONSTANTS m1, m2, s1, w1

=============================================================================
