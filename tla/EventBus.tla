------------------------------- MODULE EventBus -------------------------------
(***************************************************************************)
(* One process that publishes events asynchronously and consumes them,     *)
(* over one broker: EventPublisher and MessageConsumer joined by           *)
(* BrokerConnection.  Publications meet the connection as it is, Close     *)
(* waits for the consumer's goroutines, and the server requeues what was   *)
(* delivered on a connection that is gone.                                 *)
(***************************************************************************)
EXTENDS Naturals, Sequences, FiniteSets

CONSTANTS
    Messages, Unhandled, Queued, Traced,
    Workers, QueueSize, RetryCount,
    Slots, MaxRetries, HasDLQ,
    MaxDials, ConfirmMode

ASSUME BusAssumption ==
    /\ Unhandled \subseteq Messages /\ HasDLQ \in BOOLEAN
    /\ IsFiniteSet(Slots) /\ IsFiniteSet(Workers)
    /\ MaxRetries \in Nat /\ RetryCount \in Nat /\ QueueSize \in Nat \ {0}
    /\ MaxDials \in Nat \ {0} /\ ConfirmMode \in BOOLEAN

VARIABLES
    state, closed, loop, closer, connMu, conn, confirms, open, dials, reader,
    tasks, worker, halted, fate,
    bound, ready, sub, processor, slot, unacked, failures, handled, outcome, redelivered

Broker == INSTANCE BrokerConnection
Publisher == INSTANCE EventPublisher
Consumer == INSTANCE MessageConsumer

brokerVars == <<state, closed, loop, closer, connMu, conn, confirms, open, dials, reader>>
publisherVars == <<tasks, worker, halted, fate>>
consumerVars == <<bound, ready, sub, processor, slot, unacked,
                  failures, handled, outcome, redelivered>>
vars == <<brokerVars, publisherVars, consumerVars>>

TypeOK ==
    /\ Broker!TypeOK /\ Publisher!TypeOK /\ Consumer!TypeOK

Init == Broker!Init /\ Publisher!Init /\ Consumer!Init

-----------------------------------------------------------------------------
Alive == loop # "panicked"

\* closeWg counts messageProcessor and the retry goroutines.
Quiet ==
    /\ processor # "on"
    /\ \A s \in Slots : slot[s].stage \in {"free", "buffered"}

\* What 30 seconds may not be enough for: connect, a handler.
Slow == Broker!Slow \/ \E s \in Slots : slot[s].stage = "handling"

BrokerStep ==
    /\ Broker!Next
    /\ closer = "draining" /\ closer' = "locking" => Quiet \/ Slow
    /\ Consumer!Follow
    /\ UNCHANGED publisherVars

\* A step of the consumer's goroutines, or of the server for it.
Undisturbed == Alive /\ UNCHANGED <<brokerVars, publisherVars>>

ConsumerRuns ==
    /\ Undisturbed
    /\ Consumer!SomeDelivery \/ Consumer!ProcessorStep \/ \E s \in Slots : Consumer!RetryStep(s)

ConsumerStep == ConsumerRuns \/ (Undisturbed /\ Consumer!Consume)

\* Broker.Publish answers nil: the exchange has the message if the connection is
\* up; on a connection that broke unnoticed the message is gone.
PublishOK(w) ==
    /\ state = "connected" /\ Publisher!Published(w)
    /\ IF conn \in open THEN Consumer!Arrives(worker[w].event) ELSE UNCHANGED consumerVars

WorkerStep(w) ==
    /\ Alive /\ UNCHANGED brokerVars
    /\ \/ PublishOK(w)
       \/ /\ \/ Publisher!TakeTask(w) \/ Publisher!StopWorker(w)
             \/ Publisher!PublishFails(w) \/ Publisher!GiveUp(w)
          /\ UNCHANGED consumerVars

PublisherStep ==
    \/ \E w \in Workers : WorkerStep(w)
    \/ /\ Alive /\ UNCHANGED <<brokerVars, consumerVars>>
       /\ Publisher!Shutdown \/ \E m \in Messages : Publisher!PublishAsync(m)

\* The process is killed: its connection goes with it.
Crash ==
    /\ Alive
    /\ loop' = "panicked" /\ open' = {}
    /\ UNCHANGED <<state, closed, closer, connMu, conn, confirms, dials, reader>>
    /\ Consumer!Killed
    /\ UNCHANGED publisherVars

Elsewhere ==
    /\ \E m \in Messages, r \in 0..MaxRetries : Consumer!HandledElsewhere(m, r)
    /\ UNCHANGED <<brokerVars, publisherVars>>

Next == BrokerStep \/ ConsumerStep \/ PublisherStep \/ Crash \/ Elsewhere

Spec == Init /\ [][Next]_vars

\* Goroutines are scheduled, timers fire, handlers return, the server delivers.
\* Nothing says that a publication succeeds in the end.
FairSpec ==
    /\ Spec
    /\ WF_vars(ConsumerRuns)
    /\ WF_vars(\E w \in Workers : WorkerStep(w))

-----------------------------------------------------------------------------
(* Properties                                                              *)

Waiting(m) == \E r \in 0..MaxRetries : ready[m][r] > 0

Settled(m) == handled[m] > 0 \/ outcome[m] \cap {"discarded", "given up", "lost"} # {}

\* No message that has reached the queue vanishes: it is ready there, delivered
\* and unacknowledged, handled, or disposed of in one of the ways the code has.
\* messageProcessor and the retry goroutines acknowledge only after the handler,
\* the copy or the dead letter.
NothingVanishes ==
    \A m \in Messages : "arrived" \in outcome[m] =>
        Waiting(m) \/ (\E s \in unacked : slot[s].msg = m) \/ Settled(m)

\* A message is rejected for good only by a broker that is being closed, or after
\* its retries: a connection that breaks at any point of a retry, or is replaced
\* meanwhile, costs nothing.
LostOnlyAtClose ==
    \A m \in Messages : "lost" \in outcome[m] => closer # "none" \/ failures[m] > MaxRetries

\* A dead letter has failed MaxRetries + 1 times, whatever became of its copies.
GivenUpAfterRetries ==
    \A m \in Messages : "given up" \in outcome[m] => failures[m] > MaxRetries

\* A message is handled twice only if it was requeued by the server because its
\* channel was gone: between a copy's publication and the original's Ack no
\* other order of the steps repeats an effect.
RepeatsNeedRedelivery ==
    \A m \in Messages : handled[m] = 2 => m \in redelivered

\* What the handlers of messages see of all this.
Arrivals == {m \in Messages : "arrived" \in outcome[m]}
StillKept == {m \in Messages : Waiting(m) \/ \E s \in unacked : slot[s].msg = m}
Disposals == [m \in Messages |-> outcome[m] \ {"arrived"}]
Closing == closer # "none"

Delivery == INSTANCE MessageDelivery WITH
    arrived <- Arrivals, kept <- StillKept, effects <- handled, disposed <- Disposals,
    again <- redelivered, closing <- Closing

\* Publication, prefetch, retries with copies, acknowledgements on channels that
\* may be gone, Close and crashes keep the promise of MessageDelivery: nothing is
\* let go before it is settled, each reason to dispose of a message is given, and
\* only what the server requeued is repeated or comes back.
ImplementsDelivery == Delivery!Spec

\* A copy of an ordinary message is refused each time, so that the delivery comes
\* back without x-retries and its failures are without end: max_retries is never
\* reached (rabbitMQConfig.yml: "max_retries" and then the dead-letter queue).
Cycling(m) == m \notin Traced \cup Unhandled /\ failures[m] > MaxRetries

\* While its channel lives, a message in the queue is settled in the end, even if
\* waiting retries hold every slot that prefetch_count allows, unless an ordinary
\* message whose handler goes on failing cycles for ever.
Settles ==
    \A m \in Messages :
        sub \in open /\ Waiting(m) ~>
            Settled(m) \/ sub \notin open \/ closer # "none" \/ \E n \in Messages : Cycling(n)

\* An event that PublishAsync has accepted is published or failed in the end,
\* unless Shutdown comes first, at which the workers may leave it in the queue.
AcceptedIsSettled ==
    \A m \in Messages : fate[m] = "accepted" ~> fate[m] # "accepted" \/ halted \/ ~Alive

=============================================================================
