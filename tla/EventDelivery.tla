--------------------------- MODULE EventDelivery ---------------------------
(***************************************************************************)
(* What the transactional outbox promises its consumers, without relays,   *)
(* batches, retries, connections or processes.  An event is recorded       *)
(* together with the other events of its transaction; from then on it is   *)
(* owed.  It may be handed to the broker any number of times while it is   *)
(* owed, some of the hand-overs reach the exchange, and it is settled      *)
(* once: sent if it was handed over, failed if it is given up.  Only while *)
(* several relays work on one table ("exclusive" is then FALSE) may a      *)
(* settled event be handed over again or a sent one be given up.           *)
(***************************************************************************)
EXTENDS Naturals

CONSTANT Events

VARIABLES
    stage,      \* "absent", "owed", "sent" or "failed"
    handed,     \* events the broker accepted at least once
    published,  \* how often each event reached the exchange
    exclusive   \* one relay at a time has worked on the table so far

vars == <<stage, handed, published, exclusive>>

Init ==
    /\ stage = [e \in Events |-> "absent"]
    /\ handed = {}
    /\ published = [e \in Events |-> 0]
    /\ exclusive = TRUE

\* The events of one transaction, all at once.
Record(S) ==
    /\ \A e \in S : stage[e] = "absent"
    /\ stage' = [e \in Events |-> IF e \in S THEN "owed" ELSE stage[e]]
    /\ UNCHANGED <<handed, published, exclusive>>

HandOver(e) ==
    /\ stage[e] # "absent"
    /\ exclusive => stage[e] = "owed"
    /\ handed' = handed \cup {e}
    /\ \/ published' = [published EXCEPT ![e] = @ + 1]
       \/ published' = published
    /\ UNCHANGED <<stage, exclusive>>

Sent(e) ==
    /\ stage[e] = "owed" /\ e \in handed
    /\ stage' = [stage EXCEPT ![e] = "sent"]
    /\ UNCHANGED <<handed, published, exclusive>>

GiveUp(e) ==
    /\ stage[e] \in IF exclusive THEN {"owed"} ELSE {"owed", "sent"}
    /\ stage' = [stage EXCEPT ![e] = "failed"]
    /\ UNCHANGED <<handed, published, exclusive>>

Overlap ==
    /\ exclusive' = FALSE
    /\ UNCHANGED <<stage, handed, published>>

Next ==
    \/ \E S \in SUBSET Events : Record(S)
    \/ \E e \in Events : HandOver(e) \/ Sent(e) \/ GiveUp(e)
    \/ Overlap

Spec == Init /\ [][Next]_vars

============================================================================
