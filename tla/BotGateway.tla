------------------------------ MODULE BotGateway ------------------------------
(***************************************************************************)
(* The process of the telegram bot: PollingBotManager's Start and Stop     *)
(* over the worker pool, the HTTP server with the admin requests that call *)
(* them, and the shutdown: graceful, forced at its deadline, and the       *)
(* closer of the container.  Telebot's Bot is external: its Start          *)
(* registers itself in stopClient and polls; its Stop clears stopClient,   *)
(* hands Start the stop and waits until the poller has ended, without a    *)
(* context; its handlers run in goroutines of their own.                   *)
(***************************************************************************)
EXTENDS WorkerPool

CONSTANTS
    Requests   \* admin clients; each sends one request at a time

ASSUME BotAssumption ==
    /\ NumWorkers \in Nat /\ QueueSize \in Nat
    /\ ErrSize \in Nat /\ MaxRuns \in Nat \ {0}
    /\ {"graceful", "main", "none"} \cap Requests = {}

VARIABLES
    botRunning, \* m.isRunning
    mu,         \* who holds m.mu
    poller,     \* poller[g]: the goroutine in telegramBot.Start
    registered, \* telebot's stopClient is set
    caller,     \* caller[c]: where the thread is in Start or Stop
    server,     \* the HTTP server
    main,       \* the main goroutine
    deadline,   \* GracefulShutdownTimeout has passed
    gaveUp      \* runs whose Stop ended by its context (history)

botVars == <<botRunning, mu, poller, registered, caller, server, main, deadline, gaveUp>>
vars == <<poolVars, botVars>>

Callers == Requests \cup {"graceful", "main"}

BotTypeOK ==
    /\ botRunning \in BOOLEAN /\ mu \in Callers \cup {"run", "none"}
    /\ poller \in [Runs -> {"none", "starting", "polling", "returned", "blocked", "gone"}]
    /\ registered \in BOOLEAN
    /\ caller \in [Callers -> {"idle", "start", "http", "lock", "telegram", "pool", "done"}]
    /\ server \in {"new", "started", "up", "down", "closed"}
    /\ main \in {"up", "draining", "forcing", "exited"}
    /\ deadline \in BOOLEAN /\ gaveUp \subseteq Runs

TypeOK == PoolTypeOK /\ BotTypeOK

Init ==
    /\ PoolInit
    /\ botRunning = FALSE /\ mu = "none" /\ poller = [g \in Runs |-> "none"]
    /\ registered = FALSE /\ caller = [c \in Callers |-> "idle"]
    /\ server = "new" /\ main = "up" /\ deadline = FALSE /\ gaveUp = {}

-----------------------------------------------------------------------------
(* PollingBotManager                                                       *)

Step(c, pc) == caller' = [caller EXCEPT ![c] = pc]

\* The call is over; an admin request is answered.
Return(c) == Step(c, IF c \in Requests THEN "idle" ELSE "done")

\* Start runs under m.mu from its first line to its last; it starts the pool and
\* the goroutine of the poller, or finds the bot running.
Start ==
    /\ mu = "none"
    /\ IF botRunning \/ run = MaxRuns  \* the bound on the runs
       THEN UNCHANGED <<poolVars, botRunning, poller>>
       ELSE /\ StartPool
            /\ poller' = [poller EXCEPT ![run + 1] = "starting"]
            /\ botRunning' = TRUE

\* Telebot hands an update that a poller has fetched to a goroutine of its own,
\* which gets to Submit at any later time, even after the poller has ended.
Deliver(u) ==
    /\ \E g \in Runs : poller[g] \in {"polling", "blocked", "gone"}
    /\ Admit(u) /\ UNCHANGED botVars

\* telegramBot.Start takes a stopClient that is set for a second call of its own,
\* and returns at once.
Poll(g) ==
    /\ poller[g] = "starting"
    /\ poller' = [poller EXCEPT ![g] = IF registered THEN "returned" ELSE "polling"]
    /\ registered' = TRUE
    /\ UNCHANGED <<poolVars, botRunning, mu, caller, server, main, deadline, gaveUp>>

\* Stop up to where telegramBot.Stop offers the stop.  A Start that has yet to
\* register will set stopClient again, and nobody will clear it.
StopLocks(c) ==
    /\ caller[c] = "lock" /\ mu = "none"
    /\ IF botRunning
       THEN mu' = c /\ Step(c, "telegram") /\ registered' = FALSE
       ELSE Return(c) /\ UNCHANGED <<mu, registered>>
    /\ UNCHANGED <<poolVars, botRunning, poller, server, main, deadline, gaveUp>>

\* Start has taken the stop and reads no more updates: with b.Updates full, the
\* poller waits to put one more into it, and never sees that it is to end.
Floods(c) ==
    /\ caller[c] = "telegram" /\ poller[run] = "polling"
    /\ poller' = [poller EXCEPT ![run] = "blocked"]
    /\ UNCHANGED <<poolVars, botRunning, mu, registered, caller, server, main, deadline, gaveUp>>

\* telegramBot.Stop returns when a Start has taken the stop and its poller has
\* ended; then botCancel, and workerPool.Stop up to its select.
StopPoller(c) ==
    /\ caller[c] = "telegram" /\ poller[run] = "polling"
    /\ poller' = [poller EXCEPT ![run] = "gone"]
    /\ CancelPool /\ Step(c, "pool")
    /\ UNCHANGED <<botRunning, mu, registered, server, main, deadline, gaveUp>>

\* ctx.Done(): an admin client may go away at any moment, and has gone when the
\* server is closed; ForceStop and the closer bring a context that is over.
Expired(c) == c = "graceful" => deadline

\* Wrong on purpose (mutant): the run counts as stopped once it is cancelled.
StoppedAtOnce == TRUE

PoolIsDone == waiter[run] = "gone"

\* The pool has stopped, or the context is over; botWg is zero, as telebot has
\* already returned.
Stopped(c) ==
    /\ caller[c] = "pool"
    /\ \/ PoolIsDone /\ UNCHANGED gaveUp
       \/ Expired(c) /\ gaveUp' = gaveUp \cup {run}
    /\ PoolStopped
    /\ botRunning' = FALSE /\ mu' = "none" /\ Return(c)
    /\ UNCHANGED <<poller, registered, server, main, deadline>>

StopStep(c) ==
    StopLocks(c) \/ StopPoller(c) \/ Stopped(c)

-----------------------------------------------------------------------------
(* The HTTP server and its admin requests                                  *)

\* Run: the bot first, then the server.
Run ==
    /\ \/ server = "new" /\ Start /\ server' = "started"
       \/ server = "started" /\ server' = "up" /\ UNCHANGED <<poolVars, botRunning, poller>>
    /\ UNCHANGED <<mu, registered, caller, main, deadline, gaveUp>>

Request(c) ==
    /\ server = "up" /\ caller[c] = "idle"
    /\ \E pc \in {"start", "lock"} : Step(c, pc)
    /\ UNCHANGED <<poolVars, botRunning, mu, poller, registered, server, main, deadline, gaveUp>>

\* startBot.
StartBot(c) ==
    /\ caller[c] = "start" /\ Start /\ Return(c)
    /\ UNCHANGED <<mu, registered, server, main, deadline, gaveUp>>

RequestStep(c) == StartBot(c) \/ StopStep(c)

-----------------------------------------------------------------------------
(* Shutdown                                                                *)

\* The process and all it held are gone.
Exits ==
    /\ main' = "exited"
    /\ PoolGone /\ botRunning' = FALSE /\ mu' = "none" /\ poller' = [g \in Runs |-> "none"]
    /\ caller' = [c \in Callers |-> "idle"] /\ server' = "closed"
    /\ registered' = FALSE /\ deadline' = FALSE /\ gaveUp' = {}

\* SIGQUIT ends the process.  What the container's closer does meanwhile has no
\* effect on the rest: the process ends when it is done or 15 seconds later.
Quit == main = "up" /\ Exits

\* Any other signal, or an error of Run: Shutdown closes the listeners, if Run has
\* come that far, and waits for the requests.
Signal ==
    /\ main = "up" /\ main' = "draining" /\ Step("graceful", "http")
    /\ server' = (IF server = "up" THEN "down" ELSE server)
    /\ UNCHANGED <<poolVars, botRunning, mu, poller, registered, deadline, gaveUp>>

\* Run needs less than GracefulShutdownTimeout to come up.
DeadlinePasses ==
    /\ main = "draining" /\ server \notin {"new", "started"} /\ deadline' = TRUE
    /\ UNCHANGED <<poolVars, botRunning, mu, poller, registered, caller, server, main, gaveUp>>

NoRequests == \A c \in Requests : caller[c] = "idle"

\* Wrong on purpose (mutant): the server is closed and the requests forgotten.
WithoutWaiting(c) == TRUE

\* httpServer.Shutdown returns when no request is active or its context is over.
Drained(c) == NoRequests \/ Expired(c) \/ server \in {"new", "started"}

ServerStopped ==
    /\ caller["graceful"] = "http" /\ Drained("graceful") /\ Step("graceful", "lock")
    /\ UNCHANGED <<poolVars, botRunning, mu, poller, registered, server, main, deadline, gaveUp>>

GracefulStep == ServerStopped \/ StopStep("graceful")

\* Wrong on purpose (mutant): ForceStop leaves the connections open.
Open(s) == s

\* httpServer.Close.
Closed(s) == IF s \in {"up", "down"} THEN "closed" ELSE s

\* performGracefulShutdown's select ends by the deadline: ForceStop closes the
\* server and stops the bot.
ForceBot ==
    /\ main = "draining" /\ deadline
    /\ main' = "forcing" /\ Step("main", "lock") /\ server' = Closed(server)
    /\ UNCHANGED <<poolVars, botRunning, mu, poller, registered, deadline, gaveUp>>

Finished ==
    \/ main = "draining" /\ caller["graceful"] = "done" /\ Exits
    \/ main = "forcing" /\ caller["main"] = "done" /\ Exits

MainStep == ForceBot \/ Finished \/ StopStep("main")

-----------------------------------------------------------------------------
Alive == ~crashed /\ main # "exited"

PoolStep ==
    /\ \/ \E g \in Runs, w \in Members :
              Evaluate(g, w) \/ Take(g, w) \/ Finish(g, w) \/ Leave(g, w)
       \/ \E g \in Runs : HandleError(g) \/ WaitReturns(g)
       \/ \E u \in Updates : Enqueue(u)
    /\ UNCHANGED botVars

BotStep ==
    \/ \E u \in Updates : Deliver(u)
    \/ \E g \in Runs : Poll(g)
    \/ \E c \in Callers : Floods(c)

Next ==
    /\ Alive
    /\ \/ PoolStep \/ BotStep \/ Run
       \/ \E c \in Requests : Request(c) \/ RequestStep(c)
       \/ Quit \/ Signal \/ DeadlinePasses \/ GracefulStep \/ MainStep

Spec == Init /\ [][Next]_vars

Live(A) == Alive /\ A

\* Goroutines other than the pool's are scheduled, and timers fire; nothing says
\* that m.mu is fair, that a handler returns, or that a client goes away before the
\* server is closed.
FairSpec ==
    /\ Spec
    /\ WF_vars(Live((\E g \in Runs : Poll(g)) \/ Run \/ DeadlinePasses))
    /\ WF_vars(Live(MainStep)) /\ WF_vars(Live(GracefulStep))
    /\ \A c \in Requests :
        WF_vars(Live(/\ RequestStep(c)
                     /\ server = "closed" \/ PoolIsDone \/ caller[c] # "pool"))

-----------------------------------------------------------------------------
(* Properties                                                              *)

StoppedRuns == {g \in 1..run : g < run \/ ~isRunning}

\* A goroutine outlives the Stop of its run, and of every later run, only if the
\* context of that Stop was over before wg: the goroutine reads p.ctx again, so
\* the cancellation of a run whose Stop gave up may never reach it.
NoStrayRoutines ==
    \A g \in Runs, w \in Members, h \in StoppedRuns :
        LiveIn(g, w) /\ g <= h => h \in gaveUp

\* The process panics in wg.Wait only after a Stop that gave up: its waiter is
\* still there when the next Start adds to wg.
PanicNeedsGiveUp == crashed => gaveUp # {}

\* When Shutdown is over in time, and no Stop had to give up, nothing of the bot
\* runs any more and no admin request can start it again.
OrderlyShutdown ==
    caller["graceful"] = "done" /\ server = "down" /\ ~deadline /\ gaveUp = {} =>
        /\ ~botRunning /\ Count({}) = {}
        /\ \A g \in Runs : poller[g] \in {"none", "returned", "gone"}

\* telegramBot.Stop waits for ever, with m.mu held: the poller is blocked, or this
\* run's Start has returned at once, as the Stop of an earlier run had come before
\* its Start could register.
Wedged == \E c \in Callers : caller[c] = "telegram" /\ poller[run] \in {"returned", "blocked"}

\* After a signal the process ends, whatever hangs in the pool or in a client: the
\* deadline closes the server, which frees m.mu from the admin request that holds
\* it.  Only telegramBot.Stop, which has no context, can keep m.mu for ever, in the
\* two ways Wedged names: then ForceStop waits for m.mu and the process stays.
ShutdownReturns == main # "up" ~> ~Alive \/ Wedged

=============================================================================
