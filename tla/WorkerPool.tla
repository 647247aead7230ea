------------------------------ MODULE WorkerPool ------------------------------
(***************************************************************************)
(* The telegram bot's worker pool: Start, Submit, the goroutines worker    *)
(* and errorProcessor, and the two halves of Stop.  Start replaces p.ctx,  *)
(* which the goroutines read again in every iteration; wg is shared by all *)
(* runs of the pool.                                                       *)
(***************************************************************************)
EXTENDS Naturals, Sequences

CONSTANTS
    Updates,     \* what Telegram delivers, a task each; it may come again
    NumWorkers,  \* numWorkers
    QueueSize,   \* taskChanBuffer
    ErrSize,     \* errChanBuffer
    MaxRuns      \* bound: how often the pool is started

VARIABLES
    run,        \* how often the pool was started; p.ctx is the last run's context
    cancelled,  \* runs whose context has been cancelled
    isRunning,  \* p.isRunning
    taskChan, errs,  \* the channels: tasks, number of errors
    routine,    \* routine[g][w]: worker w of run g; 0 is the errorProcessor
    waiter,     \* waiter[g]: the goroutine in p.wg.Wait that the Stop of run g left
    fate,       \* fate[u]: how far the update has come
    crashed     \* the process has panicked

poolVars == <<run, cancelled, isRunning, taskChan, errs, routine, waiter, fate, crashed>>

Runs == 1..MaxRuns
Members == 0..NumWorkers

At(pc) == [pc |-> pc]
Select(g) == [pc |-> "select", ctx |-> g]  \* blocked, on the ctx.Done() of run g
Busy(u) == [pc |-> "busy", task |-> u]

Routine ==
    {At("none"), At("created"), At("gone")} \cup {Select(g) : g \in Runs} \cup {Busy(u) : u \in Updates}

Fates == {"none", "admitted", "queued", "taken"}

PoolTypeOK ==
    /\ run \in 0..MaxRuns /\ cancelled \subseteq 1..run /\ isRunning \in BOOLEAN
    /\ taskChan \in Seq(Updates) /\ Len(taskChan) <= QueueSize /\ errs \in 0..ErrSize
    /\ routine \in [Runs -> [Members -> Routine]]
    /\ waiter \in [Runs -> {"none", "waiting", "woken", "gone"}]
    /\ fate \in [Updates -> Fates] /\ crashed \in BOOLEAN

PoolInit ==
    /\ run = 0 /\ cancelled = {} /\ isRunning = FALSE
    /\ taskChan = <<>> /\ errs = 0
    /\ routine = [g \in Runs |-> [w \in Members |-> At("none")]]
    /\ waiter = [g \in Runs |-> "none"]
    /\ fate = [u \in Updates |-> "none"] /\ crashed = FALSE

-----------------------------------------------------------------------------
LiveIn(g, w) == routine[g][w].pc \notin {"none", "gone"}

\* Wrong on purpose (mutant): a goroutine calls wg.Add itself once it runs.
AddedLate(others) ==
    {x \in Runs \X Members : routine[x[1]][x[2]].pc \notin {"none", "created", "gone"}} \ others

\* The counter of p.wg.
Count(others) == {x \in Runs \X Members : LiveIn(x[1], x[2])} \ others

Cancelled == run \in cancelled

\* Wrong on purpose (mutant): an error is sent whether or not there is room.
NeverFull == FALSE

ErrFull == errs >= ErrSize
Full == Len(taskChan) >= QueueSize

\* p.wg.Done: the one that brings the counter to zero releases those who wait.
Exit(g, w) ==
    /\ routine' = [routine EXCEPT ![g][w] = At("gone")]
    /\ waiter' = IF Count({<<g, w>>}) = {}
                 THEN [h \in Runs |-> IF waiter[h] = "waiting" THEN "woken" ELSE waiter[h]]
                 ELSE waiter

Go(g, w, next) == routine' = [routine EXCEPT ![g][w] = next]

\* Start, called with p.isRunning false.
StartPool ==
    /\ run < MaxRuns
    /\ run' = run + 1 /\ isRunning' = TRUE
    /\ routine' = [routine EXCEPT ![run + 1] = [w \in Members |-> At("created")]]
    /\ UNCHANGED <<cancelled, taskChan, errs, waiter, fate, crashed>>

\* The select of worker and errorProcessor evaluates p.ctx.Done(), whichever
\* context p.ctx is by now.
Evaluate(g, w) ==
    /\ routine[g][w] = At("created") /\ Go(g, w, Select(run))
    /\ UNCHANGED <<run, cancelled, isRunning, taskChan, errs, waiter, fate, crashed>>

Take(g, w) ==
    /\ w # 0 /\ routine[g][w].pc = "select" /\ taskChan # <<>>
    /\ Go(g, w, Busy(Head(taskChan)))
    /\ taskChan' = Tail(taskChan) /\ fate' = [fate EXCEPT ![Head(taskChan)] = "taken"]
    /\ UNCHANGED <<run, cancelled, isRunning, errs, waiter, crashed>>

\* Process has returned, with an error: the handler the gateway was built with
\* is nil, each of its methods panics and processUpdate recovers.  The error
\* goes to errChan, or the worker returns as its context is done, or errorHandler
\* is called here.
Finish(g, w) ==
    /\ routine[g][w].pc = "busy"
    /\ fate' = [fate EXCEPT ![routine[g][w].task] = "none"]
    /\ \/ ~ErrFull /\ errs' = errs + 1 /\ Go(g, w, Select(run)) /\ UNCHANGED waiter
       \/ Cancelled /\ Exit(g, w) /\ UNCHANGED errs
       \/ ErrFull /\ ~Cancelled /\ Go(g, w, Select(run)) /\ UNCHANGED <<errs, waiter>>
    /\ UNCHANGED <<run, cancelled, isRunning, taskChan, crashed>>

HandleError(g) ==
    /\ routine[g][0].pc = "select" /\ errs > 0
    /\ errs' = errs - 1 /\ Go(g, 0, Select(run))
    /\ UNCHANGED <<run, cancelled, isRunning, taskChan, waiter, fate, crashed>>

Leave(g, w) ==
    /\ routine[g][w].pc = "select" /\ routine[g][w].ctx \in cancelled
    /\ Exit(g, w)
    /\ UNCHANGED <<run, cancelled, isRunning, taskChan, errs, fate, crashed>>

-----------------------------------------------------------------------------
Becomes(u, f) == fate' = [fate EXCEPT ![u] = f]

\* Submit looks at p.isRunning, without which the update is refused, and later at
\* the context and the channel.
Admit(u) ==
    /\ fate[u] = "none" /\ isRunning /\ Becomes(u, "admitted")
    /\ UNCHANGED <<run, cancelled, isRunning, taskChan, errs, routine, waiter, crashed>>

Enqueue(u) ==
    /\ fate[u] = "admitted"
    /\ \/ ~Full /\ taskChan' = Append(taskChan, u) /\ Becomes(u, "queued")
       \/ /\ Cancelled \/ Full
          /\ taskChan' = taskChan /\ Becomes(u, "none")
    /\ UNCHANGED <<run, cancelled, isRunning, errs, routine, waiter, crashed>>

-----------------------------------------------------------------------------
\* Stop up to its select: the context is cancelled, and a goroutine calls wg.Wait.
CancelPool ==
    /\ cancelled' = cancelled \cup {run}
    /\ waiter' = [waiter EXCEPT ![run] = IF Count({}) = {} THEN "gone" ELSE "waiting"]
    /\ UNCHANGED <<run, isRunning, taskChan, errs, routine, fate, crashed>>

\* The rest of Stop, after done or ctx.Done().
PoolStopped ==
    /\ isRunning' = FALSE
    /\ UNCHANGED <<run, cancelled, taskChan, errs, routine, waiter, fate, crashed>>

\* wg.Wait panics if the counter is no longer zero when it comes to look:
\* "WaitGroup is reused before previous Wait has returned".
WaitReturns(g) ==
    /\ waiter[g] = "woken"
    /\ waiter' = [waiter EXCEPT ![g] = "gone"]
    /\ crashed' = (crashed \/ Count({}) # {})
    /\ UNCHANGED <<run, cancelled, isRunning, taskChan, errs, routine, fate>>

\* With its process the pool is gone.
PoolGone ==
    /\ run' = 0 /\ cancelled' = {} /\ isRunning' = FALSE
    /\ taskChan' = <<>> /\ errs' = 0
    /\ routine' = [g \in Runs |-> [w \in Members |-> At("none")]]
    /\ waiter' = [g \in Runs |-> "none"]
    /\ fate' = [u \in Updates |-> "none"] /\ crashed' = FALSE

=============================================================================
