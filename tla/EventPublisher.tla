--------------------------- MODULE EventPublisher ---------------------------
(***************************************************************************)
(* The asynchronous side of pkg/eventbus' EventPublisher: PublishAsync     *)
(* puts events into the channel tasks, workers take them out and hand them *)
(* to Broker.Publish with retries, Shutdown stops the workers.  What the   *)
(* broker answers is decided by the module that composes the two.          *)
(***************************************************************************)
EXTENDS Naturals, Sequences, FiniteSets

CONSTANTS
    Messages,
    Queued,      \* messages published by others; PublishAsync is called with the rest
    Workers,     \* config.WorkerCount goroutines
    QueueSize,   \* config.QueueSize, the capacity of tasks
    RetryCount   \* config.RetryCount

VARIABLES
    tasks,     \* the channel tasks
    worker,    \* worker[w]: where the goroutine is, its event, failed attempts
    halted,    \* closeCh is closed
    fate       \* fate[m]: what has become of the event (history)

vars == <<tasks, worker, halted, fate>>

Idle == [pc |-> "idle"]
Stopped == [pc |-> "stopped"]
Busy(m, n) == [pc |-> "busy", event |-> m, failed |-> n]

Fates == {"new", "accepted", "refused", "published", "failed"}

TypeOK ==
    /\ tasks \in Seq(Messages) /\ Len(tasks) <= QueueSize
    /\ worker \in [Workers -> {Idle, Stopped}
                       \cup [pc : {"busy"}, event : Messages, failed : 0..RetryCount]]
    /\ halted \in BOOLEAN
    /\ fate \in [Messages -> Fates]

Init ==
    /\ tasks = <<>> /\ worker = [w \in Workers |-> Idle]
    /\ halted = FALSE
    /\ fate = [m \in Messages |-> IF m \in Queued THEN "published" ELSE "new"]

-----------------------------------------------------------------------------
\* A full channel refuses the event; a publisher that has been shut down does
\* not.
PublishAsync(m) ==
    /\ fate[m] = "new"
    /\ IF Len(tasks) < QueueSize
       THEN tasks' = Append(tasks, m) /\ fate' = [fate EXCEPT ![m] = "accepted"]
       ELSE tasks' = tasks /\ fate' = [fate EXCEPT ![m] = "refused"]
    /\ UNCHANGED <<worker, halted>>

\* The select on tasks and closeCh takes either when both are ready.
TakeTask(w) ==
    /\ worker[w] = Idle /\ tasks # <<>>
    /\ worker' = [worker EXCEPT ![w] = Busy(Head(tasks), 0)]
    /\ tasks' = Tail(tasks)
    /\ UNCHANGED <<halted, fate>>

\* Wrong on purpose (mutant): a worker that has stopped before anybody asked.
StopAnytime == TRUE

MayStop == halted

StopWorker(w) ==
    /\ worker[w] = Idle /\ MayStop
    /\ worker' = [worker EXCEPT ![w] = Stopped]
    /\ UNCHANGED <<tasks, halted, fate>>

\* publishEvent is over and the worker back in its select.
Settle(w, result) ==
    /\ worker' = [worker EXCEPT ![w] = Idle]
    /\ fate' = [fate EXCEPT ![worker[w].event] = result]
    /\ UNCHANGED <<tasks, halted>>

\* Broker.Publish returns nil.
Published(w) ==
    /\ worker[w].pc = "busy" /\ worker[w].failed < RetryCount
    /\ Settle(w, "published")

\* Broker.Publish returns an error; it was not the last attempt.
PublishFails(w) ==
    /\ worker[w].pc = "busy" /\ worker[w].failed + 1 < RetryCount
    /\ worker' = [worker EXCEPT ![w].failed = @ + 1]
    /\ UNCHANGED <<tasks, halted, fate>>

\* The last attempt fails, PublishTimeout ends during a backoff, or no attempt
\* is allowed at all; saveToDeadLetter only logs.
GiveUp(w) ==
    /\ worker[w].pc = "busy"
    /\ worker[w].failed + 1 >= RetryCount \/ worker[w].failed > 0
    /\ Settle(w, "failed")

\* Then it waits for wg or for its caller's context, which changes nothing.
Shutdown ==
    /\ ~halted
    /\ halted' = TRUE
    /\ UNCHANGED <<tasks, worker, fate>>

=============================================================================
