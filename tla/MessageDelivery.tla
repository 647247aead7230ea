--------------------------- MODULE MessageDelivery ---------------------------
(***************************************************************************)
(* What the event bus promises the handlers of its messages, without       *)
(* publishers, slots, retries, acknowledgements, connections or processes. *)
(* A message arrives once and is kept until it is settled: it has had its  *)
(* effect, or it was disposed of for one of three reasons.  Only one that  *)
(* was given out again may have another effect, be disposed of once more   *)
(* or come back after it was let go.                                       *)
(***************************************************************************)
EXTENDS Naturals

CONSTANTS Messages, Unhandled, MaxRetries

VARIABLES
    arrived,   \* messages that have reached the queue
    kept,      \* messages that are in the queue, or out and not acknowledged
    failures,  \* failures[m]: how often an attempt failed, up to MaxRetries + 1
    effects,   \* effects[m]: how often the message had its effect, up to twice
    disposed,  \* disposed[m]: how it was disposed of
    again,     \* messages that were given out again
    closing    \* the bus is being closed

vars == <<arrived, kept, failures, effects, disposed, again, closing>>

Init ==
    /\ arrived \in SUBSET Messages /\ kept = arrived
    /\ failures = [m \in Messages |-> 0] /\ effects = [m \in Messages |-> 0]
    /\ disposed = [m \in Messages |-> {}]
    /\ again = {} /\ closing = FALSE

Settled(m) == effects[m] > 0 \/ disposed[m] # {}

Pending(m) == m \in arrived /\ (~Settled(m) \/ m \in again)

\* What settles a message may let it go at once.
MayLeave(m) == kept' \in {kept, kept \ {m}}

Arrive(m) ==
    /\ m \notin arrived
    /\ arrived' = arrived \cup {m} /\ kept' = kept \cup {m}
    /\ UNCHANGED <<failures, effects, disposed, again, closing>>

Fail(m) ==
    /\ Pending(m) /\ m \notin Unhandled
    /\ failures' = [failures EXCEPT ![m] = IF @ <= MaxRetries THEN @ + 1 ELSE @]
    /\ UNCHANGED <<arrived, kept, effects, disposed, again, closing>>

Effect(m) ==
    /\ Pending(m) /\ m \notin Unhandled
    /\ effects' = [effects EXCEPT ![m] = IF @ < 2 THEN @ + 1 ELSE @]
    /\ MayLeave(m)
    /\ UNCHANGED <<arrived, failures, disposed, again, closing>>

Reason(m, how) ==
    \/ how = "discarded" /\ m \in Unhandled
    \/ how = "given up" /\ failures[m] > MaxRetries
    \/ how = "lost" /\ (closing \/ failures[m] > MaxRetries)

Dispose(m, how) ==
    /\ Pending(m) /\ Reason(m, how)
    /\ disposed' = [disposed EXCEPT ![m] = @ \cup {how}]
    /\ MayLeave(m)
    /\ UNCHANGED <<arrived, failures, effects, again, closing>>

LetGo(m) ==
    /\ Settled(m) /\ kept' = kept \ {m}
    /\ UNCHANGED <<arrived, failures, effects, disposed, again, closing>>

GiveOutAgain(S) ==
    /\ S \subseteq kept /\ again' = again \cup S
    /\ UNCHANGED <<arrived, kept, failures, effects, disposed, closing>>

ComeBack(m) ==
    /\ m \in again /\ kept' = kept \cup {m}
    /\ UNCHANGED <<arrived, failures, effects, disposed, again, closing>>

Close ==
    /\ closing' = TRUE
    /\ UNCHANGED <<arrived, kept, failures, effects, disposed, again>>

Next ==
    \/ \E m \in Messages :
        \/ Arrive(m) \/ Fail(m) \/ Effect(m) \/ LetGo(m) \/ ComeBack(m)
        \/ \E how \in {"discarded", "given up", "lost"} : Dispose(m, how)
    \/ \E S \in SUBSET Messages : GiveOutAgain(S)
    \/ Close

Spec == Init /\ [][Next]_vars

-----------------------------------------------------------------------------
(* What this comes to                                                      *)

\* What has arrived is kept or settled.
NothingForgotten == \A m \in arrived : m \in kept \/ Settled(m)

\* A message that was not given out again is settled once: by one effect, or
\* disposed of in one way, never both.
SettledOnce ==
    \A m \in Messages \ again :
        /\ effects[m] <= 1 /\ (effects[m] > 0 => disposed[m] = {})
        /\ \A how, other \in disposed[m] : how = other

\* The reasons for which messages were disposed of still hold.
ReasonsHold == \A m \in Messages, how \in {"discarded", "given up", "lost"} :
                   how \in disposed[m] => Reason(m, how)

=============================================================================
