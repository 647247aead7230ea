-------------------------- MODULE MessageConsumer --------------------------
(***************************************************************************)
(* Consumption in pkg/rabbitmq (Consume, messageProcessor, handleError,    *)
(* scheduleRetry) with pkg/eventbus' handleDelivery as the handler.  One   *)
(* process subscribes once.  A copy of a message carries the header        *)
(* x-retries; it is ready in the server's queue or delivered into a slot,  *)
(* of which there are as many as prefetch_count allows.  The broker's      *)
(* variables are read here and changed by BrokerConnection.                *)
(***************************************************************************)
EXTENDS Naturals, FiniteSets

CONSTANTS
    Messages,
    Queued,      \* messages in the queue when the process starts, if there is one
    Unhandled,   \* messages handleDelivery acknowledges without handling them:
                 \* invalid JSON, an unknown type, no handler
    Traced,      \* messages whose publisher, none of this repository's, has given
                 \* them a header x-error-history of its own
    HasDLQ,      \* dlq_name is not empty
    Slots,       \* deliveries the server lets be unacknowledged at a time
    MaxRetries   \* max_retries

VARIABLES
    state, closed, conn, open,  \* BrokerConnection's
    bound,      \* the queue exists and is bound to the exchange
    ready,      \* ready[m][r]: copies of m with x-retries = r in the queue
    sub,        \* the connection whose channel was subscribed to, 0 for none
    processor,  \* the goroutine messageProcessor
    slot,       \* slot[s]: the delivery and who is at it
    unacked,    \* slots whose delivery the server waits to be acknowledged
    failures,   \* failures[m]: how often the handler failed, up to MaxRetries + 1
    handled,    \* handled[m]: how often the handler succeeded, up to twice
    outcome,    \* outcome[m]: what else has happened to the message (history)
    redelivered \* messages requeued since their channel was gone (history)

brokerVars == <<state, closed, conn, open>>
history == <<failures, handled, outcome, redelivered>>
vars == <<bound, ready, sub, processor, slot, unacked, history>>

Retries == 0..MaxRetries

Stages ==
    {"buffered",   \* in the library's channel of deliveries
     "handling",   \* messageProcessor has called the handler
     "exhausted",  \* the handler failed MaxRetries + 1 times
     "finished",   \* messageProcessor is about to acknowledge
     "refused",    \* messageProcessor is about to reject without requeue
     "waiting",    \* the retry goroutine waits for its timer or closeCh
     "due",        \* the timer has fired, the state is to be looked at
     "retrying",   \* the retry goroutine is about to publish the copy
     "failed",     \* publishing the copy returned an error
     "retried",    \* ... returned nil: the goroutine is about to acknowledge
     "rejecting"}  \* the goroutine is about to reject without requeue

Free == [stage |-> "free"]
Delivery(st, m, r) == [stage |-> st, msg |-> m, tries |-> r]

TypeOK ==
    /\ bound \in BOOLEAN
    /\ ready \in [Messages -> [Retries -> Nat]]
    /\ sub \in Nat
    /\ processor \in {"off", "on", "gone"}
    /\ slot \in [Slots -> {Free} \cup [stage : Stages, msg : Messages, tries : Retries]]
    /\ unacked \in SUBSET Slots
    /\ failures \in [Messages -> 0..(MaxRetries + 1)]
    /\ handled \in [Messages -> 0..2]
    /\ outcome \in [Messages -> SUBSET {"arrived", "discarded", "given up", "lost"}]
    /\ redelivered \in SUBSET Messages

Init ==
    /\ bound \in BOOLEAN
    /\ ready = [m \in Messages |-> [r \in Retries |->
                   IF bound /\ m \in Queued /\ r = 0 THEN 1 ELSE 0]]
    /\ sub = 0 /\ processor = "off"
    /\ slot = [s \in Slots |-> Free] /\ unacked = {}
    /\ failures = [m \in Messages |-> 0] /\ handled = [m \in Messages |-> 0]
    /\ outcome = [m \in Messages |-> IF bound /\ m \in Queued THEN {"arrived"} ELSE {}] /\ redelivered = {}

-----------------------------------------------------------------------------
Live == sub \in open

Move(s, st) == slot' = [slot EXCEPT ![s].stage = st]
Release(s) == slot' = [slot EXCEPT ![s] = Free]

\* messageProcessor handles one delivery at a time, up to its Ack or Nack.
Busy == \E s \in Slots : slot[s].stage \in {"handling", "exhausted", "finished", "refused"}

\* External: the exchange routes a published message into the queue, or drops it
\* when there is none.
Arrives(m) ==
    /\ IF bound
       THEN /\ ready' = [ready EXCEPT ![m][0] = @ + 1]
            /\ outcome' = [outcome EXCEPT ![m] = @ \cup {"arrived"}]
       ELSE UNCHANGED <<ready, outcome>>
    /\ UNCHANGED <<bound, sub, processor, slot, unacked, failures, handled, redelivered>>

\* EventConsumer.Start calls Consume: declare and bind the queue, subscribe on
\* the channel in use, start messageProcessor.  If subscribing fails the queue
\* is there all the same.
Consume ==
    /\ processor = "off"
    /\ state = "connected" /\ conn \in open
    /\ bound' = TRUE
    /\ \/ sub' = conn /\ processor' = "on"
       \/ UNCHANGED <<sub, processor>>
    /\ UNCHANGED <<ready, slot, unacked, history>>

\* External: the server delivers a copy while the channel is open.
Deliver(s, m, r) ==
    /\ Live /\ slot[s] = Free /\ ready[m][r] > 0
    /\ ready' = [ready EXCEPT ![m][r] = @ - 1]
    /\ slot' = [slot EXCEPT ![s] = Delivery("buffered", m, r)]
    /\ unacked' = unacked \cup {s}
    /\ UNCHANGED <<bound, sub, processor, history>>

\* External: another instance, or this one after a restart, takes a copy from
\* the queue and handles it.
HandledElsewhere(m, r) ==
    /\ bound /\ ready[m][r] > 0 /\ m \notin Unhandled
    /\ ready' = [ready EXCEPT ![m][r] = @ - 1]
    /\ handled' = [handled EXCEPT ![m] = IF @ < 2 THEN @ + 1 ELSE @]
    /\ UNCHANGED <<bound, sub, processor, slot, unacked, failures, outcome, redelivered>>

-----------------------------------------------------------------------------
(* messageProcessor and handleDelivery                                     *)

\* The select takes either when closeCh is closed as well.  The library may
\* hand out what it has buffered even if the channel is gone.
Take(s) ==
    /\ processor = "on" /\ ~Busy /\ slot[s].stage = "buffered"
    /\ Move(s, "handling")
    /\ UNCHANGED <<bound, ready, sub, processor, unacked, history>>

\* closeCh, or the end of the deliveries of a channel that is gone: nobody
\* subscribes again.
ProcessorStops ==
    /\ processor = "on" /\ ~Busy
    /\ closed \/ ~Live
    /\ processor' = "gone"
    /\ slot' = [s \in Slots |-> IF slot[s].stage = "buffered" /\ ~Live THEN Free ELSE slot[s]]
    /\ UNCHANGED <<bound, ready, sub, unacked, history>>

\* handleDelivery returns nil for what it cannot decode or has no handler for.
Discard(s) ==
    /\ slot[s].stage = "handling" /\ slot[s].msg \in Unhandled
    /\ outcome' = [outcome EXCEPT ![slot[s].msg] = @ \cup {"discarded"}]
    /\ Move(s, "finished")
    /\ UNCHANGED <<bound, ready, sub, processor, unacked, failures, handled, redelivered>>

HandlerSucceeds(s) ==
    /\ slot[s].stage = "handling" /\ slot[s].msg \notin Unhandled
    /\ handled' = [handled EXCEPT ![slot[s].msg] = IF @ < 2 THEN @ + 1 ELSE @]
    /\ Move(s, "finished")
    /\ UNCHANGED <<bound, ready, sub, processor, unacked, failures, outcome, redelivered>>

\* Wrong on purpose (mutant): an off-by-one in handleError.
ExhaustedEarly(r) == r + 1 >= MaxRetries

Exhausted(r) == r >= MaxRetries

\* handleError: a retry, or the dead-letter path after the last one.
HandlerFails(s) ==
    /\ slot[s].stage = "handling" /\ slot[s].msg \notin Unhandled
    /\ failures' = [failures EXCEPT ![slot[s].msg] = IF @ <= MaxRetries THEN @ + 1 ELSE @]
    /\ Move(s, IF Exhausted(slot[s].tries) THEN "exhausted" ELSE "waiting")
    /\ UNCHANGED <<bound, ready, sub, processor, unacked, handled, outcome, redelivered>>

\* sendToDLQ returns nil: no dead-letter queue is configured, or its name was
\* published as a routing key for which the exchange has no queue.
DeadLetter(s) ==
    /\ slot[s].stage = "exhausted" /\ (HasDLQ => state = "connected")
    /\ outcome' = [outcome EXCEPT ![slot[s].msg] = @ \cup {"given up"}]
    /\ Move(s, "finished")
    /\ UNCHANGED <<bound, ready, sub, processor, unacked, failures, handled, redelivered>>

DeadLetterFails(s) ==
    /\ slot[s].stage = "exhausted" /\ HasDLQ
    /\ Move(s, "refused")
    /\ UNCHANGED <<bound, ready, sub, processor, unacked, history>>

\* An Ack on a channel that is gone is an error nobody looks at.
Ack(s) ==
    /\ slot[s].stage \in {"finished", "retried"}
    /\ Release(s) /\ unacked' = unacked \ {s}
    /\ UNCHANGED <<bound, ready, sub, processor, history>>

\* Nack without requeue: the server drops the message, if it hears of it.
Reject(s) ==
    /\ slot[s].stage \in {"refused", "rejecting"}
    /\ outcome' = IF s \in unacked
                  THEN [outcome EXCEPT ![slot[s].msg] = @ \cup {"lost"}] ELSE outcome
    /\ Release(s) /\ unacked' = unacked \ {s}
    /\ UNCHANGED <<bound, ready, sub, processor, failures, handled, redelivered>>

-----------------------------------------------------------------------------
(* scheduleRetry's goroutine                                               *)

\* Wrong on purpose (mutant): the timer is armed anew instead of leaving the wait.
Rearmed == "waiting"

AfterTimer == "due"

TimerFires(s) ==
    /\ slot[s].stage = "waiting"
    /\ Move(s, AfterTimer)
    /\ UNCHANGED <<bound, ready, sub, processor, unacked, history>>

RetryCancelled(s) ==
    /\ slot[s].stage = "waiting" /\ closed
    /\ Move(s, "rejecting")
    /\ UNCHANGED <<bound, ready, sub, processor, unacked, history>>

LookAtState(s) ==
    /\ slot[s].stage = "due"
    /\ Move(s, IF state = "closing" THEN "rejecting" ELSE "retrying")
    /\ UNCHANGED <<bound, ready, sub, processor, unacked, history>>

\* Wrong on purpose (mutant): the original is given back although its copy is out.
CopyAndOriginal == "failed"

AfterCopy == "retried"

\* incrementRetryHeaders gives a message without x-error-history a []string, which
\* the library refuses in a header: only a copy of a message that came with the
\* header is published.  It goes over the broker's current channel, which need
\* not be the delivery's, and reaches the queue if that connection is up.
Republish(s) ==
    /\ slot[s].stage = "retrying" /\ state = "connected" /\ slot[s].msg \in Traced
    /\ LET d == slot[s] IN
       ready' = IF conn \in open THEN [ready EXCEPT ![d.msg][d.tries + 1] = @ + 1] ELSE ready
    /\ Move(s, AfterCopy)
    /\ UNCHANGED <<bound, sub, processor, unacked, history>>

\* Wrong on purpose (mutant): rejected without a look at the connection.
RejectAtOnce == "rejecting"

AfterPublishError == "failed"

\* ErrNotConnected, the refused header, or a connection that broke unnoticed.
RepublishFails(s) ==
    /\ slot[s].stage = "retrying"
    /\ slot[s].msg \in Traced => state # "connected" \/ conn \notin open
    /\ Move(s, AfterPublishError)
    /\ UNCHANGED <<bound, ready, sub, processor, unacked, history>>

\* Wrong on purpose (mutant): acknowledge instead of Nack(false, true).
ForgetFailed(s) ==
    /\ Release(s) /\ unacked' = unacked \ {s}
    /\ UNCHANGED ready

Requeue(s) ==
    /\ ready' = IF s \in unacked
                THEN [ready EXCEPT ![slot[s].msg][slot[s].tries] = @ + 1] ELSE ready
    /\ Release(s) /\ unacked' = unacked \ {s}

\* Back to the queue if the broker is connected, rejected if not.
AfterFailure(s) ==
    /\ slot[s].stage = "failed"
    /\ \/ state = "connected" /\ Requeue(s)
       \/ state # "connected" /\ Move(s, "rejecting") /\ UNCHANGED <<ready, unacked>>
    /\ UNCHANGED <<bound, sub, processor, history>>

-----------------------------------------------------------------------------
\* External: the server requeues the deliveries of a channel that is gone.
Requeued ==
    /\ ready' = [m \in Messages |-> [r \in Retries |-> ready[m][r] +
           Cardinality({s \in unacked : slot[s].msg = m /\ slot[s].tries = r})]]
    /\ redelivered' = redelivered \cup {slot[s].msg : s \in unacked}
    /\ unacked' = {}

\* What a step of the broker's connection means for the server.
Follow ==
    /\ IF Live /\ sub \notin open' THEN Requeued ELSE UNCHANGED <<ready, redelivered, unacked>>
    /\ UNCHANGED <<bound, sub, processor, slot, failures, handled, outcome>>

\* The process dies with its goroutines.
Killed ==
    /\ IF Live THEN Requeued ELSE UNCHANGED <<ready, redelivered, unacked>>
    /\ slot' = [s \in Slots |-> Free] /\ processor' = "gone"
    /\ UNCHANGED <<bound, sub, failures, handled, outcome>>

ProcessorStep ==
    \/ ProcessorStops
    \/ \E s \in Slots :
        \/ Take(s) \/ Discard(s) \/ HandlerSucceeds(s) \/ HandlerFails(s)
        \/ DeadLetter(s) \/ DeadLetterFails(s)
        \/ slot[s].stage = "finished" /\ Ack(s)
        \/ slot[s].stage = "refused" /\ Reject(s)

RetryStep(s) ==
    \/ TimerFires(s) \/ RetryCancelled(s) \/ LookAtState(s)
    \/ Republish(s) \/ RepublishFails(s) \/ AfterFailure(s)
    \/ slot[s].stage = "retried" /\ Ack(s)
    \/ slot[s].stage = "rejecting" /\ Reject(s)

SomeDelivery == \E s \in Slots, m \in Messages, r \in Retries : Deliver(s, m, r)

=============================================================================
