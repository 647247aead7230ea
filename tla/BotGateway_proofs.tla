-------------------------- MODULE BotGateway_proofs --------------------------
(***************************************************************************)
(* Proofs about BotGateway, for any updates, workers, admin clients and    *)
(* sizes of the channels, however often the bot is started.                *)
(***************************************************************************)
EXTENDS BotGateway, TLAPS

\* How far the goroutine of telegramBot.Start has come.
Pollers == {"none", "starting", "polling", "returned", "blocked", "gone"}

\* A caller that is in telegramBot.Stop or in the pool's Stop holds m.mu; in the
\* pool's, the poller has stopped.
LockInv ==
    \A c \in Callers :
        /\ caller[c] \in {"telegram", "pool"} => mu = c /\ botRunning
        /\ caller[c] = "pool" => poller[run] = "gone"

\* The bot and its pool start and stop together; what has not been started has
\* no goroutines.
RunInv ==
    /\ isRunning = botRunning /\ (botRunning => run > 0)
    /\ \A g \in Runs, w \in Members : g > run => ~LiveIn(g, w)
    /\ \A g \in Runs : poller[g] \in {"starting", "polling", "blocked"} => g = run /\ botRunning

TypeInv == TypeOK /\ LockInv /\ RunInv

LEMMA RoutineCases ==
    ASSUME NEW r \in Routine
    PROVE  /\ r.pc \in {"none", "created", "gone", "select", "busy"}
           /\ r.pc = "busy" => r.task \in Updates
  BY DEF Routine, At, Select, Busy

\* What one goroutine does, the others keep.
LEMMA Goes ==
    ASSUME PoolTypeOK, NEW g \in Runs, NEW w \in Members, NEW next \in Routine,
           routine' = [routine EXCEPT ![g][w] = next]
    PROVE  /\ routine' \in [Runs -> [Members -> Routine]] /\ routine'[g][w] = next
           /\ \A h \in Runs, v \in Members : h # g \/ v # w => routine'[h][v] = routine[h][v]
<1>1. routine \in [Runs -> [Members -> Routine]]
  BY DEF PoolTypeOK
<1>2. routine[g] \in [Members -> Routine]
  BY <1>1
<1>3. [routine[g] EXCEPT ![w] = next] \in [Members -> Routine]
  BY <1>2
<1>4. routine' = [routine EXCEPT ![g] = [routine[g] EXCEPT ![w] = next]]
  OBVIOUS
<1> QED  BY <1>1, <1>2, <1>3, <1>4

\* The counter of wg.
LEMMA CountIsZero ==
    Count({}) = {} <=> (\A g \in Runs, w \in Members : ~LiveIn(g, w))
<1>1. ASSUME NEW g \in Runs, NEW w \in Members, LiveIn(g, w) PROVE Count({}) # {}
  <2>1. <<g, w>> \in Count({})
    BY <1>1 DEF Count
  <2> QED  BY <2>1
<1>2. ASSUME NEW x \in Count({}) PROVE \E g \in Runs, w \in Members : LiveIn(g, w)
  BY DEF Count
<1> QED  BY <1>1, <1>2

LEMMA CountWithout ==
    ASSUME NEW g \in Runs, NEW w \in Members
    PROVE  Count({<<g, w>>}) = {} <=>
               (\A h \in Runs, v \in Members : h # g \/ v # w => ~LiveIn(h, v))
<1>1. ASSUME NEW h \in Runs, NEW v \in Members, h # g \/ v # w, LiveIn(h, v)
      PROVE  Count({<<g, w>>}) # {}
  <2>1. <<h, v>> \in Count({<<g, w>>})
    BY <1>1 DEF Count
  <2> QED  BY <2>1
<1>2. ASSUME NEW x \in Count({<<g, w>>})
      PROVE  \E h \in Runs, v \in Members : (h # g \/ v # w) /\ LiveIn(h, v)
  BY DEF Count
<1> QED  BY <1>1, <1>2

-----------------------------------------------------------------------------
(* Steps of the pool                                                       *)

RoutineStep(g, w) ==
    \/ Evaluate(g, w) \/ Take(g, w) \/ Finish(g, w) \/ Leave(g, w)
    \/ (w = 0 /\ HandleError(g))

\* The goroutine goes on, or ends: then the last one releases those who wait.
GoesOn(g, w) == LiveIn(g, w)' /\ UNCHANGED waiter

Ends(g, w) ==
    /\ ~LiveIn(g, w)'
    /\ IF \A h \in Runs, v \in Members : h # g \/ v # w => ~LiveIn(h, v)
       THEN waiter' = [h \in Runs |-> IF waiter[h] = "waiting" THEN "woken" ELSE waiter[h]]
       ELSE UNCHANGED waiter

LEMMA RoutineWhat ==
    ASSUME TypeInv, NEW g \in Runs, NEW w \in Members, RoutineStep(g, w)
    PROVE  /\ PoolTypeOK' /\ UNCHANGED <<run, cancelled, isRunning, crashed>>
           /\ LiveIn(g, w) /\ (GoesOn(g, w) \/ Ends(g, w))
           /\ \A h \in Runs, v \in Members : h # g \/ v # w => (LiveIn(h, v)' <=> LiveIn(h, v))
<1> USE BotAssumption
<1>1. /\ PoolTypeOK /\ routine[g][w] \in Routine /\ fate \in [Updates -> Fates]
      /\ taskChan \in Seq(Updates) /\ Len(taskChan) <= QueueSize /\ errs \in 0..ErrSize
      /\ waiter \in [Runs -> {"none", "waiting", "woken", "gone"}]
  BY DEF TypeInv, TypeOK, PoolTypeOK
<1>2. LiveIn(g, w)
  BY DEF RoutineStep, Evaluate, Take, Finish, Leave, HandleError, LiveIn, At
<1>3. run \in Runs
  <2>1. g <= run
    BY <1>2 DEF TypeInv, RunInv, Runs, PoolTypeOK, TypeOK
  <2> QED  BY <1>1, <2>1 DEF Runs, PoolTypeOK
<1>4. Select(run) \in Routine /\ At("gone") \in Routine
  BY <1>3 DEF Routine
<1>5. ASSUME NEW next \in Routine, Go(g, w, next)
      PROVE  /\ routine' \in [Runs -> [Members -> Routine]] /\ routine'[g][w] = next
             /\ \A h \in Runs, v \in Members :
                   h # g \/ v # w => (LiveIn(h, v)' <=> LiveIn(h, v))
  <2>1. /\ routine' \in [Runs -> [Members -> Routine]] /\ routine'[g][w] = next
        /\ \A h \in Runs, v \in Members : h # g \/ v # w => routine'[h][v] = routine[h][v]
    <3>1. PoolTypeOK /\ routine' = [routine EXCEPT ![g][w] = next] /\ next \in Routine
      BY <1>1, <1>5 DEF Go
    <3> HIDE DEF PoolTypeOK
    <3> QED  BY ONLY <3>1, Goes, g \in Runs, w \in Members
  <2> QED  BY <2>1 DEF LiveIn
<1>6. ASSUME NEW next \in Routine, Go(g, w, next), next.pc \notin {"none", "gone"},
             UNCHANGED waiter
      PROVE  /\ routine' \in [Runs -> [Members -> Routine]] /\ GoesOn(g, w)
             /\ \A h \in Runs, v \in Members :
                   h # g \/ v # w => (LiveIn(h, v)' <=> LiveIn(h, v))
  BY <1>5, <1>6 DEF GoesOn, LiveIn
<1>7. Exit(g, w) => /\ routine' \in [Runs -> [Members -> Routine]] /\ Ends(g, w)
                    /\ waiter' \in [Runs -> {"none", "waiting", "woken", "gone"}]
                    /\ \A h \in Runs, v \in Members :
                          h # g \/ v # w => (LiveIn(h, v)' <=> LiveIn(h, v))
  <2> SUFFICES ASSUME Exit(g, w) PROVE <1>7!2
    OBVIOUS
  <2>1. Go(g, w, At("gone"))
    BY DEF Exit, Go
  <2>2. ~LiveIn(g, w)'
    BY <1>4, <1>5, <2>1 DEF LiveIn, At
  <2>3. waiter' \in [Runs -> {"none", "waiting", "woken", "gone"}]
    BY <1>1 DEF Exit
  <2>4. Ends(g, w)
    BY <2>2, CountWithout DEF Exit, Ends
  <2> QED  BY <1>4, <1>5, <2>1, <2>3, <2>4
<1>8. Select(run).pc = "select"
  BY DEF Select
<1>9. CASE Evaluate(g, w)
  BY <1>1, <1>2, <1>4, <1>6, <1>8, <1>9 DEF Evaluate, PoolTypeOK
<1>10. CASE Take(g, w)
  <2>1. Head(taskChan) \in Updates /\ Tail(taskChan) \in Seq(Updates) /\ Len(Tail(taskChan)) <= QueueSize
    BY <1>1, <1>10 DEF Take
  <2>2. Busy(Head(taskChan)) \in Routine /\ Busy(Head(taskChan)).pc = "busy"
    BY <2>1 DEF Routine, Busy
  <2>3. fate' \in [Updates -> Fates]
    BY <1>1, <1>10, <2>1 DEF Take, Fates
  <2> QED  BY <1>1, <1>2, <1>6, <1>10, <2>1, <2>2, <2>3 DEF Take, PoolTypeOK
<1>11. CASE Finish(g, w)
  <2>1. fate' \in [Updates -> Fates]
    BY <1>1, <1>11, RoutineCases DEF Finish, Fates
  <2>2. CASE errs' \in 0..ErrSize /\ Go(g, w, Select(run)) /\ UNCHANGED waiter
    BY <1>1, <1>2, <1>4, <1>6, <1>8, <1>11, <2>1, <2>2 DEF Finish, PoolTypeOK
  <2>3. CASE Exit(g, w) /\ UNCHANGED errs
    BY <1>1, <1>2, <1>7, <1>11, <2>1, <2>3 DEF Finish, PoolTypeOK
  <2> QED  BY <1>1, <1>11, <2>2, <2>3 DEF Finish, ErrFull
<1>12. CASE Leave(g, w)
  BY <1>1, <1>2, <1>7, <1>12 DEF Leave, PoolTypeOK
<1>13. CASE w = 0 /\ HandleError(g)
  <2>1. errs' \in 0..ErrSize
    BY <1>1, <1>13 DEF HandleError
  <2> QED  BY <1>1, <1>2, <1>4, <1>6, <1>8, <1>13, <2>1 DEF HandleError, PoolTypeOK
<1> QED  BY <1>9, <1>10, <1>11, <1>12, <1>13 DEF RoutineStep

\* An update on its way into the pool.
LEMMA UpdateWhat ==
    ASSUME TypeInv, NEW u \in Updates, Enqueue(u) \/ Deliver(u)
    PROVE  PoolTypeOK' /\ UNCHANGED <<run, cancelled, isRunning, routine, waiter, crashed>>
<1> USE BotAssumption
<1>1. PoolTypeOK
  BY DEF TypeInv, TypeOK
<1>2. PICK f \in Fates : Becomes(u, f)
  BY DEF Admit, Enqueue, Deliver, Fates
<1>3. fate' \in [Updates -> Fates]
  BY <1>1, <1>2 DEF Becomes, PoolTypeOK
<1>4. taskChan' \in Seq(Updates) /\ Len(taskChan') <= QueueSize
  <2>1. taskChan' = taskChan \/ (~Full /\ taskChan' = Append(taskChan, u))
    BY DEF Admit, Enqueue, Deliver
  <2>2. taskChan \in Seq(Updates) /\ Len(taskChan) <= QueueSize
    BY <1>1 DEF PoolTypeOK
  <2> QED  BY <2>1, <2>2 DEF Full
<1>5. UNCHANGED <<run, cancelled, isRunning, errs, routine, waiter, crashed>>
  BY DEF Admit, Enqueue, Deliver
<1> QED  BY <1>1, <1>3, <1>4, <1>5 DEF PoolTypeOK

\* The bot is started, unless it runs.
StartDoes ==
    \/ UNCHANGED <<run, isRunning, routine, botRunning, poller>>
    \/ /\ ~botRunning /\ botRunning' /\ isRunning' = TRUE /\ run' = run + 1
       /\ poller' = [poller EXCEPT ![run + 1] = "starting"] /\ run + 1 \in Runs
       /\ \A g \in Runs, w \in Members : g # run + 1 => (LiveIn(g, w)' <=> LiveIn(g, w))

LEMMA StartWhat ==
    ASSUME TypeInv, Start
    PROVE  /\ PoolTypeOK' /\ mu = "none" /\ UNCHANGED <<cancelled, waiter, crashed>>
           /\ StartDoes
<1> USE BotAssumption DEF StartDoes
<1>1. PoolTypeOK /\ run \in 0..MaxRuns
  BY DEF TypeInv, TypeOK, PoolTypeOK
<1>2. CASE UNCHANGED <<poolVars, botRunning, poller>>
  BY <1>1, <1>2 DEF Start, poolVars, PoolTypeOK
<1>3. CASE /\ ~botRunning /\ StartPool /\ botRunning' = TRUE
           /\ poller' = [poller EXCEPT ![run + 1] = "starting"]
  <2>1. /\ run < MaxRuns /\ run' = run + 1 /\ isRunning' = TRUE
        /\ routine' = [routine EXCEPT ![run + 1] = [w \in Members |-> At("created")]]
        /\ UNCHANGED <<cancelled, taskChan, errs, waiter, fate, crashed>>
    BY <1>3 DEF StartPool
  <2>2. run + 1 \in Runs /\ At("created") \in Routine
    BY <1>1, <2>1 DEF Runs, Routine
  <2>3. routine' \in [Runs -> [Members -> Routine]]
    BY <1>1, <2>1, <2>2 DEF PoolTypeOK
  <2>4. \A g \in Runs : g # run + 1 => routine'[g] = routine[g]
    BY <1>1, <2>1 DEF PoolTypeOK
  <2>5. PoolTypeOK'
    BY <1>1, <2>1, <2>3 DEF PoolTypeOK
  <2>6. botRunning' = TRUE /\ poller' = [poller EXCEPT ![run + 1] = "starting"] /\ mu = "none"
    BY <1>3 DEF Start
  <2> QED  BY <1>3, <2>1, <2>2, <2>4, <2>5, <2>6 DEF LiveIn
<1> QED  BY <1>2, <1>3 DEF Start

\* Steps of callers that only get on, and leave the bot alone.
Elsewhere ==
    \/ \E c \in Requests : Request(c)
    \/ Signal \/ DeadlinePasses \/ ServerStopped \/ ForceBot

\* The steps, sorted by what they do to the bot.
LEMMA Steps ==
    ASSUME [Next]_vars
    PROVE  \/ UNCHANGED vars
           \/ /\ ~crashed
              /\ \/ /\ UNCHANGED botVars
                    /\ \/ \E g \in Runs, w \in Members : RoutineStep(g, w)
                       \/ \E u \in Updates : Enqueue(u) \/ Deliver(u)
                       \/ \E g \in Runs : WaitReturns(g)
                 \/ \E g \in Runs : Poll(g)
                 \/ \E c \in Callers : Floods(c)
                 \/ Run \/ \E c \in Requests : StartBot(c)
                 \/ \E c \in Callers : StopStep(c)
                 \/ Elsewhere \/ Exits
<1>1. CASE UNCHANGED vars
  BY <1>1
<1>2. CASE ~crashed /\ PoolStep
  <2>1. 0 \in Members
    BY BotAssumption DEF Members
  <2> QED  BY <1>2, <2>1 DEF PoolStep, RoutineStep
<1>3. CASE ~crashed /\ BotStep
  BY <1>3 DEF BotStep, Deliver
<1>4. CASE ~crashed /\ \E c \in Requests : Request(c) \/ RequestStep(c)
  BY <1>4 DEF RequestStep, Elsewhere, Callers
<1>5. CASE ~crashed /\ (Quit \/ Signal \/ DeadlinePasses \/ GracefulStep \/ MainStep)
  BY <1>5 DEF Quit, Elsewhere, GracefulStep, MainStep, Finished, Callers
<1>6. Next => ~crashed
  BY DEF Next, Alive
<1>7. CASE ~crashed /\ Run
  BY <1>7
<1> QED  BY <1>1, <1>2, <1>3, <1>4, <1>5, <1>6, <1>7 DEF Next

LEMMA TypeInit == Init => TypeInv
<1> SUFFICES ASSUME Init PROVE TypeInv
  OBVIOUS
<1> USE BotAssumption
<1>1. At("none") \in Routine
  BY DEF Routine
<1>2. PoolTypeOK
  <2>1. /\ run = 0 /\ cancelled = {} /\ isRunning = FALSE /\ taskChan = <<>> /\ errs = 0
        /\ routine = [g \in Runs |-> [w \in Members |-> At("none")]]
        /\ waiter = [g \in Runs |-> "none"] /\ fate = [u \in Updates |-> "none"] /\ ~crashed
        /\ crashed \in BOOLEAN
    BY DEF Init, PoolInit
  <2>2. routine \in [Runs -> [Members -> Routine]]
    BY <1>1, <2>1
  <2>3. taskChan \in Seq(Updates) /\ Len(taskChan) <= QueueSize
    BY <2>1
  <2>4. fate \in [Updates -> Fates]
    BY <2>1 DEF Fates
  <2>5. waiter \in [Runs -> {"none", "waiting", "woken", "gone"}]
    BY <2>1
  <2>6. run \in 0..MaxRuns /\ cancelled \subseteq 1..run /\ errs \in 0..ErrSize
    BY <2>1
  <2> QED  BY <2>1, <2>2, <2>3, <2>4, <2>5, <2>6 DEF PoolTypeOK
<1>3. BotTypeOK
  BY DEF Init, BotTypeOK, Callers
<1>4. LockInv
  BY DEF Init, LockInv
<1>5. RunInv
  BY DEF Init, PoolInit, RunInv, LiveIn, At
<1> QED  BY <1>2, <1>3, <1>4, <1>5 DEF TypeInv, TypeOK

\* How one caller gets on.
LEMMA StepWhat ==
    ASSUME BotTypeOK, NEW c \in Callers,
           NEW pc \in {"idle", "start", "http", "lock", "telegram", "pool", "done"}, Step(c, pc)
    PROVE  /\ caller' \in [Callers -> {"idle", "start", "http", "lock", "telegram", "pool", "done"}]
           /\ caller'[c] = pc /\ \A d \in Callers : d # c => caller'[d] = caller[d]
  BY DEF Step, BotTypeOK

\* A caller returns, or gets on by itself.
LEMMA ElsewhereWhat ==
    ASSUME TypeInv, Elsewhere
    PROVE  /\ BotTypeOK' /\ UNCHANGED <<poolVars, botRunning, mu, poller, registered, gaveUp>>
           /\ \A c \in Callers : caller'[c] = caller[c] \/ caller'[c] \in {"start", "lock", "http"}
<1>1. BotTypeOK
  BY DEF TypeInv, TypeOK
<1>2. /\ UNCHANGED <<poolVars, botRunning, mu, poller, registered, gaveUp>>
      /\ \/ UNCHANGED caller
         \/ \E c \in Callers, pc \in {"start", "lock", "http"} : Step(c, pc)
      /\ server' \in {server, "down", "closed"} /\ main' \in {main, "draining", "forcing"}
      /\ deadline' \in {deadline, TRUE}
  <2>1. CASE \E c \in Requests : Request(c)
    BY <2>1 DEF Request, Callers
  <2>2. CASE Signal
    BY <2>2 DEF Signal, Callers
  <2>3. CASE DeadlinePasses
    BY <2>3 DEF DeadlinePasses
  <2>4. CASE ServerStopped
    BY <2>4 DEF ServerStopped, Callers
  <2>5. CASE ForceBot
    <3>1. "main" \in Callers /\ Step("main", "lock") /\ main' = "forcing"
          /\ UNCHANGED <<poolVars, botRunning, mu, poller, registered, deadline, gaveUp>>
      BY <2>5 DEF ForceBot, Callers
    <3>2. server' \in {server, "closed"}
      BY <2>5 DEF ForceBot, Closed
    <3> QED  BY <3>1, <3>2
  <2> QED  BY <2>1, <2>2, <2>3, <2>4, <2>5 DEF Elsewhere
<1>3. CASE UNCHANGED caller
  BY <1>1, <1>2, <1>3 DEF BotTypeOK
<1>4. ASSUME NEW c \in Callers, NEW pc \in {"start", "lock", "http"}, Step(c, pc)
      PROVE  /\ caller' \in [Callers -> {"idle", "start", "http", "lock", "telegram", "pool", "done"}]
             /\ \A d \in Callers : caller'[d] = caller[d] \/ caller'[d] \in {"start", "lock", "http"}
  BY <1>1, <1>4, StepWhat
<1> QED  BY <1>1, <1>2, <1>3, <1>4 DEF BotTypeOK

\* A step of Stop finds the bot stopped or locks m.mu; stops the poller and cancels
\* the pool's context; or is over, with the pool stopped or given up.
StopDoes(c) ==
    \/ /\ caller[c] = "lock" /\ mu = "none"
       /\ UNCHANGED <<cancelled, isRunning, waiter, botRunning, poller, gaveUp>>
       /\ \/ botRunning /\ mu' = c /\ caller'[c] = "telegram" /\ ~registered'
          \/ ~botRunning /\ mu' = mu /\ caller'[c] \in {"idle", "done"}
    \/ /\ caller[c] = "telegram" /\ caller'[c] = "pool" /\ run \in Runs
       /\ UNCHANGED <<isRunning, botRunning, mu, gaveUp>>
       /\ poller' = [poller EXCEPT ![run] = "gone"]
       /\ waiter' = [waiter EXCEPT ![run] = IF Count({}) = {} THEN "gone" ELSE "waiting"]
    \/ /\ caller[c] = "pool" /\ caller'[c] \in {"idle", "done"} /\ run \in Runs
       /\ UNCHANGED <<cancelled, waiter, poller>>
       /\ ~isRunning' /\ ~botRunning' /\ mu' = "none"
       /\ \/ waiter[run] = "gone" /\ UNCHANGED gaveUp
          \/ gaveUp' = gaveUp \cup {run} /\ (c = "graceful" => deadline)

LEMMA StopWhat ==
    ASSUME TypeInv, NEW c \in Callers, StopStep(c)
    PROVE  /\ TypeOK' /\ UNCHANGED <<run, routine, crashed, server, main, deadline>>
           /\ \A d \in Callers : d # c => caller'[d] = caller[d]
           /\ StopDoes(c)
<1> USE BotAssumption DEF StopDoes
<1>1. /\ PoolTypeOK /\ BotTypeOK /\ run \in 0..MaxRuns
      /\ caller[c] \in {"telegram", "pool"} => run > 0
  BY DEF TypeInv, TypeOK, PoolTypeOK, LockInv, RunInv
<1>2. caller[c] \in {"telegram", "pool"} => run \in Runs
  BY <1>1 DEF Runs
<1>3. Return(c) => \E pc \in {"idle", "done"} : Step(c, pc)
  BY DEF Return
<1>4. CASE StopLocks(c)
  <2>1. /\ caller[c] = "lock" /\ mu = "none"
        /\ UNCHANGED <<poolVars, botRunning, poller, server, main, deadline, gaveUp>>
        /\ registered' \in {registered, FALSE} /\ (botRunning => registered' = FALSE)
        /\ \/ botRunning /\ mu' = c /\ Step(c, "telegram")
           \/ ~botRunning /\ mu' = mu /\ \E pc \in {"idle", "done"} : Step(c, pc)
    BY <1>3, <1>4 DEF StopLocks
  <2>2. PoolTypeOK'
    BY <1>1, <2>1 DEF poolVars, PoolTypeOK
  <2>3. /\ caller' \in [Callers -> {"idle", "start", "http", "lock", "telegram", "pool", "done"}]
        /\ \A d \in Callers : d # c => caller'[d] = caller[d]
        /\ \/ botRunning /\ mu' = c /\ caller'[c] = "telegram"
           \/ ~botRunning /\ mu' = mu /\ caller'[c] \in {"idle", "done"}
    BY <1>1, <2>1, StepWhat
  <2>4. BotTypeOK'
    BY <1>1, <2>1, <2>3 DEF BotTypeOK
  <2> QED  BY <2>1, <2>2, <2>3, <2>4 DEF TypeOK, poolVars
<1>5. CASE StopPoller(c)
  <2>1. /\ caller[c] = "telegram" /\ Step(c, "pool") /\ run \in Runs
        /\ poller' = [poller EXCEPT ![run] = "gone"] /\ cancelled' = cancelled \cup {run}
        /\ waiter' = [waiter EXCEPT ![run] = IF Count({}) = {} THEN "gone" ELSE "waiting"]
        /\ UNCHANGED <<run, isRunning, taskChan, errs, routine, fate, crashed>>
        /\ UNCHANGED <<botRunning, mu, registered, server, main, deadline, gaveUp>>
    BY <1>2, <1>5 DEF StopPoller, CancelPool
  <2>2. PoolTypeOK'
    BY <1>1, <2>1 DEF PoolTypeOK, Runs
  <2>3. /\ caller' \in [Callers -> {"idle", "start", "http", "lock", "telegram", "pool", "done"}]
        /\ caller'[c] = "pool" /\ \A d \in Callers : d # c => caller'[d] = caller[d]
    BY <1>1, <2>1, StepWhat
  <2>4. BotTypeOK'
    BY <1>1, <2>1, <2>3 DEF BotTypeOK
  <2> QED  BY <2>1, <2>2, <2>3, <2>4 DEF TypeOK
<1>6. CASE Stopped(c)
  <2>1. /\ caller[c] = "pool" /\ run \in Runs /\ \E pc \in {"idle", "done"} : Step(c, pc)
        /\ isRunning' = FALSE /\ botRunning' = FALSE /\ mu' = "none"
        /\ UNCHANGED <<run, cancelled, taskChan, errs, routine, waiter, fate, crashed>>
        /\ UNCHANGED <<poller, registered, server, main, deadline>>
        /\ \/ waiter[run] = "gone" /\ UNCHANGED gaveUp
           \/ gaveUp' = gaveUp \cup {run} /\ (c = "graceful" => deadline)
    BY <1>2, <1>3, <1>6 DEF Stopped, PoolStopped, PoolIsDone, Expired
  <2>2. PoolTypeOK'
    BY <1>1, <2>1 DEF PoolTypeOK
  <2>3. /\ caller' \in [Callers -> {"idle", "start", "http", "lock", "telegram", "pool", "done"}]
        /\ caller'[c] \in {"idle", "done"} /\ \A d \in Callers : d # c => caller'[d] = caller[d]
    BY <1>1, <2>1, StepWhat
  <2>4. BotTypeOK'
    BY <1>1, <2>1, <2>3 DEF BotTypeOK
  <2> QED  BY <2>1, <2>2, <2>3, <2>4 DEF TypeOK
<1> QED  BY <1>4, <1>5, <1>6 DEF StopStep

\* Of the poller's goroutines only the current run's gets on before it has ended.
LEMMA PollerWhat ==
    ASSUME TypeInv, NEW g \in Runs, poller[g] \in {"starting", "polling"},
           NEW pc \in {"polling", "returned", "blocked"}, poller' = [poller EXCEPT ![g] = pc],
           registered' \in BOOLEAN,
           UNCHANGED <<poolVars, botRunning, mu, caller, server, main, deadline, gaveUp>>
    PROVE  TypeInv' /\ g = run /\ \A h \in Runs : h # g => poller'[h] = poller[h]
<1>1. /\ PoolTypeOK /\ BotTypeOK /\ poller \in [Runs -> Pollers] /\ LockInv /\ RunInv
  BY DEF TypeInv, TypeOK, BotTypeOK, Pollers
<1>2. /\ UNCHANGED <<run, cancelled, isRunning, taskChan, errs, routine, waiter, fate, crashed>>
      /\ poller' \in [Runs -> Pollers] /\ poller'[g] = pc
      /\ \A h \in Runs : h # g => poller'[h] = poller[h]
  BY <1>1 DEF poolVars, Pollers
<1>3. PoolTypeOK'
  BY <1>1, <1>2 DEF PoolTypeOK
<1>4. BotTypeOK'
  BY <1>1, <1>2 DEF BotTypeOK, Pollers
<1>5. g = run /\ botRunning
  BY <1>1 DEF RunInv
<1>6. LockInv'
  <2>1. \A c \in Callers : caller[c] # "pool"
    BY <1>1, <1>5 DEF LockInv
  <2> QED  BY <1>1, <2>1 DEF LockInv
<1>7. RunInv'
  <2>1. \A h \in Runs : poller'[h] \in {"starting", "polling", "blocked"} => h = run /\ botRunning
    BY <1>1, <1>2, <1>5 DEF RunInv
  <2> QED  BY <1>1, <1>2, <2>1 DEF RunInv, LiveIn
<1> QED  BY <1>2, <1>3, <1>4, <1>5, <1>6, <1>7 DEF TypeInv, TypeOK

LEMMA PollWhat ==
    ASSUME TypeInv, NEW g \in Runs, Poll(g)
    PROVE  /\ TypeInv' /\ g = run /\ poller'[g] \in {"polling", "returned"}
           /\ (registered \/ poller'[g] = "polling")
           /\ \A h \in Runs : h # g => poller'[h] = poller[h]
<1>1. /\ poller[g] = "starting" /\ registered' = TRUE
      /\ poller' = [poller EXCEPT ![g] = IF registered THEN "returned" ELSE "polling"]
      /\ UNCHANGED <<poolVars, botRunning, mu, caller, server, main, deadline, gaveUp>>
  BY DEF Poll
<1>2. g \in DOMAIN poller
  BY DEF TypeInv, TypeOK, BotTypeOK
<1>3. CASE registered
  BY <1>1, <1>2, <1>3, PollerWhat
<1>4. CASE ~registered
  BY <1>1, <1>2, <1>4, PollerWhat
<1> QED  BY <1>3, <1>4

LEMMA FloodsWhat ==
    ASSUME TypeInv, NEW c \in Callers, Floods(c)
    PROVE  /\ TypeInv' /\ run \in Runs /\ poller'[run] = "blocked"
           /\ \A h \in Runs : h # run => poller'[h] = poller[h]
<1>1. /\ caller[c] = "telegram" /\ poller[run] = "polling" /\ registered' = registered
      /\ poller' = [poller EXCEPT ![run] = "blocked"]
      /\ UNCHANGED <<poolVars, botRunning, mu, caller, server, main, deadline, gaveUp>>
  BY DEF Floods
<1>2. run \in Runs /\ registered \in BOOLEAN /\ DOMAIN poller = Runs
  BY <1>1, BotAssumption DEF TypeInv, TypeOK, PoolTypeOK, BotTypeOK, LockInv, RunInv, Runs
<1> QED  BY <1>1, <1>2, PollerWhat

\* Run and startBot.
LEMMA StarterWhat ==
    ASSUME TypeInv, Start, UNCHANGED <<mu, registered, main, deadline, gaveUp>>,
           server' \in {server, "started"},
           caller' \in [Callers -> {"idle", "start", "http", "lock", "telegram", "pool", "done"}],
           \A c \in Callers : caller'[c] = caller[c] \/ caller'[c] \in {"idle", "done"}
    PROVE  TypeInv'
<1> USE DEF StartDoes
<1>1. /\ PoolTypeOK /\ BotTypeOK /\ poller \in [Runs -> Pollers]
      /\ LockInv /\ RunInv /\ run \in 0..MaxRuns
  BY DEF TypeInv, TypeOK, BotTypeOK, PoolTypeOK, Pollers
<1>2. /\ PoolTypeOK' /\ mu = "none" /\ UNCHANGED <<cancelled, waiter, crashed>>
      /\ StartDoes
  BY StartWhat
<1>3. LockInv'
  <2>1. \A c \in Callers : caller[c] \notin {"telegram", "pool"}
    BY <1>1, <1>2, BotAssumption DEF LockInv, Callers
  <2> QED  BY <2>1 DEF LockInv
<1>4. CASE UNCHANGED <<run, isRunning, routine, botRunning, poller>>
  <2>1. BotTypeOK'
    BY <1>1, <1>4 DEF BotTypeOK
  <2>2. RunInv'
    BY <1>1, <1>4 DEF RunInv, LiveIn
  <2> QED  BY <1>2, <1>3, <2>1, <2>2 DEF TypeInv, TypeOK
<1>5. CASE /\ ~botRunning /\ botRunning' /\ isRunning' = TRUE /\ run' = run + 1
           /\ poller' = [poller EXCEPT ![run + 1] = "starting"] /\ run + 1 \in Runs
           /\ \A g \in Runs, w \in Members : g # run + 1 => (LiveIn(g, w)' <=> LiveIn(g, w))
  <2>1. /\ poller' \in [Runs -> Pollers]
        /\ \A g \in Runs : g # run + 1 => poller'[g] = poller[g]
    BY <1>1, <1>5 DEF Pollers
  <2>2. BotTypeOK'
    <3>1. botRunning' \in BOOLEAN
      BY <1>5, <1>4 DEF Start
    <3> QED  BY <1>1, <2>1, <3>1 DEF BotTypeOK, Pollers
  <2>3. \A g \in Runs, w \in Members : g > run' => ~LiveIn(g, w)'
    BY <1>1, <1>5 DEF RunInv, Runs
  <2>4. \A g \in Runs : poller'[g] \in {"starting", "polling", "blocked"} => g = run' /\ botRunning'
    BY <1>1, <1>5, <2>1 DEF RunInv
  <2>5. isRunning' = botRunning' /\ (botRunning' => run' > 0)
    BY <1>1, <1>5, <2>2 DEF BotTypeOK
  <2>6. RunInv'
    BY <2>3, <2>4, <2>5 DEF RunInv
  <2> QED  BY <1>2, <1>3, <2>2, <2>6 DEF TypeInv, TypeOK
<1> QED  BY <1>2, <1>4, <1>5

LEMMA ExitsWhat == ASSUME Exits PROVE TypeInv'
<1> USE BotAssumption
<1>1. /\ run' = 0 /\ cancelled' = {} /\ isRunning' = FALSE /\ taskChan' = <<>> /\ errs' = 0
      /\ routine' = [g \in Runs |-> [w \in Members |-> At("none")]]
      /\ waiter' = [g \in Runs |-> "none"] /\ fate' = [u \in Updates |-> "none"]
      /\ crashed' = FALSE
      /\ botRunning' = FALSE /\ mu' = "none" /\ poller' = [g \in Runs |-> "none"]
      /\ caller' = [c \in Callers |-> "idle"] /\ server' = "closed" /\ main' = "exited"
      /\ registered' = FALSE /\ deadline' = FALSE /\ gaveUp' = {}
  BY DEF Exits, PoolGone
<1>2. PoolTypeOK'
  <2>1. At("none") \in Routine
    BY DEF Routine
  <2>2. routine' \in [Runs -> [Members -> Routine]]
    BY <1>1, <2>1
  <2>3. fate' \in [Updates -> Fates]
    BY <1>1 DEF Fates
  <2>4. waiter' \in [Runs -> {"none", "waiting", "woken", "gone"}]
    BY <1>1
  <2>5. taskChan' \in Seq(Updates) /\ Len(taskChan') <= QueueSize
    BY <1>1
  <2>6. run' \in 0..MaxRuns /\ cancelled' \subseteq 1..run' /\ errs' \in 0..ErrSize
    BY <1>1
  <2> QED  BY <1>1, <2>2, <2>3, <2>4, <2>5, <2>6 DEF PoolTypeOK
<1>3. BotTypeOK'
  BY <1>1 DEF BotTypeOK
<1>4. LockInv'
  BY <1>1 DEF LockInv
<1>5. RunInv'
  BY <1>1 DEF RunInv, LiveIn, At
<1> QED  BY <1>2, <1>3, <1>4, <1>5 DEF TypeInv, TypeOK

LEMMA TypeStep == TypeInv /\ [Next]_vars => TypeInv'
<1> SUFFICES ASSUME TypeInv, [Next]_vars PROVE TypeInv'
  OBVIOUS
<1> USE BotAssumption
<1>1. /\ PoolTypeOK /\ BotTypeOK /\ LockInv /\ RunInv
      /\ poller \in [Runs -> Pollers]
  BY DEF TypeInv, TypeOK, BotTypeOK, Pollers
<1>2. ASSUME UNCHANGED botVars, UNCHANGED <<run, isRunning>>, PoolTypeOK',
             \A g \in Runs, w \in Members : ~LiveIn(g, w) => ~LiveIn(g, w)'
      PROVE  TypeInv'
  <2>1. BotTypeOK' /\ LockInv'
    BY <1>1, <1>2 DEF botVars, BotTypeOK, LockInv
  <2>2. RunInv'
    BY <1>1, <1>2 DEF botVars, RunInv
  <2> QED  BY <1>2, <2>1, <2>2 DEF TypeInv, TypeOK
<1>3. ASSUME UNCHANGED vars PROVE TypeInv'
  <2>1. UNCHANGED botVars /\ UNCHANGED <<run, isRunning>>
    BY <1>3 DEF vars, poolVars
  <2>2. PoolTypeOK'
    BY <1>1, <1>3 DEF vars, poolVars, PoolTypeOK
  <2>3. \A g \in Runs, w \in Members : ~LiveIn(g, w) => ~LiveIn(g, w)'
    BY <1>3 DEF vars, poolVars, LiveIn
  <2> QED  BY <1>2, <2>1, <2>2, <2>3
<1>4. ASSUME NEW g \in Runs, NEW w \in Members, RoutineStep(g, w), UNCHANGED botVars
      PROVE  TypeInv'
  <2>1. /\ PoolTypeOK' /\ UNCHANGED <<run, cancelled, isRunning, crashed>> /\ LiveIn(g, w)
        /\ \A h \in Runs, v \in Members : h # g \/ v # w => (LiveIn(h, v)' <=> LiveIn(h, v))
    BY <1>4, RoutineWhat
  <2> QED  BY <1>2, <1>4, <2>1
<1>5. ASSUME NEW u \in Updates, Enqueue(u) \/ Deliver(u), UNCHANGED botVars
      PROVE  TypeInv'
  <2>1. PoolTypeOK' /\ UNCHANGED <<run, cancelled, isRunning, routine, waiter, crashed>>
    BY <1>5, UpdateWhat
  <2>2. \A g \in Runs, w \in Members : ~LiveIn(g, w) => ~LiveIn(g, w)'
    BY <2>1 DEF LiveIn
  <2> QED  BY <1>2, <1>5, <2>1, <2>2
<1>6. ASSUME NEW g \in Runs, WaitReturns(g), UNCHANGED botVars PROVE TypeInv'
  <2>1. /\ waiter' = [waiter EXCEPT ![g] = "gone"] /\ crashed' \in BOOLEAN
        /\ UNCHANGED <<run, cancelled, isRunning, taskChan, errs, routine, fate>>
    BY <1>1, <1>6 DEF WaitReturns, PoolTypeOK
  <2>2. PoolTypeOK'
    BY <1>1, <2>1 DEF PoolTypeOK
  <2>3. \A h \in Runs, v \in Members : ~LiveIn(h, v) => ~LiveIn(h, v)'
    BY <2>1 DEF LiveIn
  <2> QED  BY <1>2, <1>6, <2>1, <2>2, <2>3
<1>7. CASE Run
  <2>1. caller' = caller /\ UNCHANGED <<mu, registered, main, deadline, gaveUp>>
    BY <1>7 DEF Run
  <2>2. CASE Start /\ server' = "started"
    BY <1>1, <2>1, <2>2, StarterWhat DEF BotTypeOK
  <2>3. CASE server' = "up" /\ UNCHANGED <<poolVars, botRunning, poller>>
    <3>1. UNCHANGED <<run, cancelled, isRunning, taskChan, errs, routine, waiter, fate, crashed>>
      BY <2>3 DEF poolVars
    <3>2. PoolTypeOK'
      BY <1>1, <3>1 DEF PoolTypeOK
    <3>3. BotTypeOK' /\ LockInv'
      BY <1>1, <2>1, <2>3, <3>1 DEF BotTypeOK, LockInv
    <3>4. RunInv'
      BY <1>1, <2>3, <3>1 DEF RunInv, LiveIn
    <3> QED  BY <3>2, <3>3, <3>4 DEF TypeInv, TypeOK
  <2> QED  BY <1>7, <2>2, <2>3 DEF Run
<1>8. ASSUME NEW c \in Requests, StartBot(c) PROVE TypeInv'
  <2>1. /\ c \in Callers /\ Start /\ Step(c, "idle")
        /\ UNCHANGED <<mu, registered, server, main, deadline, gaveUp>>
    BY <1>8 DEF StartBot, Return, Callers
  <2>2. /\ caller' \in [Callers -> {"idle", "start", "http", "lock", "telegram", "pool", "done"}]
        /\ caller'[c] = "idle" /\ \A d \in Callers : d # c => caller'[d] = caller[d]
    BY <1>1, <2>1, StepWhat
  <2> QED  BY <2>1, <2>2, StarterWhat
<1>9. ASSUME NEW c \in Callers, StopStep(c) PROVE TypeInv'
  <2> USE DEF StopDoes
  <2>1. /\ TypeOK' /\ UNCHANGED <<run, routine, crashed, server, main, deadline>>
        /\ \A d \in Callers : d # c => caller'[d] = caller[d]
        /\ StopDoes(c)
    BY <1>9, StopWhat
  <2>2. /\ \A g \in Runs, w \in Members : LiveIn(g, w)' <=> LiveIn(g, w)
        /\ botRunning' \in BOOLEAN /\ isRunning' \in BOOLEAN
    BY <2>1 DEF LiveIn, TypeOK, PoolTypeOK, BotTypeOK
  <2>3. CASE mu = "none" /\ caller[c] = "lock"
    <3>1. \A d \in Callers : caller[d] \notin {"telegram", "pool"}
      BY <1>1, <2>3 DEF LockInv, Callers
    <3>2. LockInv'
      BY <2>1, <2>3, <3>1 DEF LockInv
    <3>3. RunInv'
      BY <1>1, <2>1, <2>2, <2>3 DEF RunInv
    <3> QED  BY <2>1, <3>2, <3>3 DEF TypeInv
  <2>4. CASE caller[c] = "telegram"
    <3>1. /\ run \in Runs /\ poller'[run] = "gone"
          /\ \A h \in Runs : h # run => poller'[h] = poller[h]
          /\ UNCHANGED <<run, isRunning, botRunning, mu>> /\ caller'[c] = "pool"
          /\ \A d \in Callers : d # c => caller'[d] = caller[d]
      BY <1>1, <2>1, <2>4
    <3>2. LockInv'
      BY <1>1, <2>4, <3>1 DEF LockInv
    <3>3. RunInv'
      BY <1>1, <2>2, <3>1 DEF RunInv
    <3> QED  BY <2>1, <3>2, <3>3 DEF TypeInv
  <2>5. CASE caller[c] = "pool"
    <3>1. /\ caller'[c] \in {"idle", "done"} /\ UNCHANGED <<run, poller>>
          /\ ~isRunning' /\ ~botRunning' /\ mu = c /\ poller[run] = "gone"
          /\ \A d \in Callers : d # c => caller'[d] = caller[d]
      BY <1>1, <2>1, <2>5 DEF LockInv
    <3>2. LockInv'
      BY <1>1, <3>1 DEF LockInv
    <3>3. RunInv'
      BY <1>1, <2>2, <3>1 DEF RunInv
    <3> QED  BY <2>1, <3>2, <3>3 DEF TypeInv
  <2> QED  BY <2>1, <2>3, <2>4, <2>5
<1>10. CASE Elsewhere
  <2>1. /\ BotTypeOK' /\ UNCHANGED <<poolVars, botRunning, mu, poller, registered, gaveUp>>
        /\ \A c \in Callers : caller'[c] = caller[c] \/ caller'[c] \in {"start", "lock", "http"}
    BY <1>10, ElsewhereWhat
  <2>2. UNCHANGED <<run, cancelled, isRunning, taskChan, errs, routine, waiter, fate, crashed>>
    BY <2>1 DEF poolVars
  <2>3. PoolTypeOK'
    BY <1>1, <2>2 DEF PoolTypeOK
  <2>4. LockInv'
    BY <1>1, <2>1, <2>2 DEF LockInv
  <2>5. RunInv'
    BY <1>1, <2>1, <2>2 DEF RunInv, LiveIn
  <2> QED  BY <2>1, <2>3, <2>4, <2>5 DEF TypeInv, TypeOK
<1> QED  BY <1>3, <1>4, <1>5, <1>6, <1>7, <1>8, <1>9, <1>10, PollWhat, FloodsWhat, ExitsWhat, Steps

\* Whatever the updates and the admin clients do, the state of the bot's process
\* keeps its form; above all, no more tasks wait than the channel holds.
THEOREM BotTypes == Spec => []TypeOK
<1>1. TypeInv => TypeOK
  BY DEF TypeInv
<1> QED  BY TypeInit, TypeStep, <1>1, PTL DEF Spec

-----------------------------------------------------------------------------
(* The shutdown                                                            *)

\* The main goroutine comes into Stop once it forces the end, and the goroutine
\* of the graceful shutdown exists after the signal only.  In time it gets past
\* the server when there is no request left, and none comes any more.
ShutdownInv ==
    /\ main = "up" => caller["graceful"] = "idle"
    /\ main \in {"up", "draining"} => caller["main"] = "idle"
    /\ server = "down" /\ ~deadline =>
        /\ caller["graceful"] \in {"lock", "telegram", "pool", "done"} => NoRequests
        /\ caller["graceful"] = "done" => ~botRunning

LEMMA ShutdownInit == Init => ShutdownInv
  BY DEF Init, ShutdownInv, Callers

LEMMA Names == /\ "graceful" \in Callers /\ "main" \in Callers /\ Requests \subseteq Callers
               /\ "graceful" \notin Requests /\ "main" \notin Requests
  BY BotAssumption DEF Callers

\* A caller in the pool's Stop stays there.
LEMMA ElsewhereStays ==
    ASSUME TypeInv, ShutdownInv, Elsewhere
    PROVE  \A c \in Callers : caller'[c] = "pool" <=> caller[c] = "pool"
<1>1. BotTypeOK
  BY DEF TypeInv, TypeOK
<1>2. \/ UNCHANGED caller
      \/ \E c \in Callers, pc \in {"start", "lock", "http"} :
            Step(c, pc) /\ caller[c] \in {"idle", "http"}
  <2>1. CASE \E c \in Requests : Request(c)
    BY <2>1 DEF Request, Callers
  <2>2. CASE Signal
    BY <2>2, Names DEF Signal, ShutdownInv
  <2>3. CASE DeadlinePasses
    BY <2>3 DEF DeadlinePasses
  <2>4. CASE ServerStopped
    BY <2>4, Names DEF ServerStopped
  <2>5. CASE ForceBot
    BY <2>5, Names DEF ForceBot, ShutdownInv
  <2> QED  BY <2>1, <2>2, <2>3, <2>4, <2>5 DEF Elsewhere
<1>3. ASSUME NEW c \in Callers, NEW pc \in {"start", "lock", "http"}, Step(c, pc),
             caller[c] \in {"idle", "http"}
      PROVE  \A d \in Callers : caller'[d] = "pool" <=> caller[d] = "pool"
  <2>1. caller'[c] = pc /\ \A d \in Callers : d # c => caller'[d] = caller[d]
    BY <1>1, <1>3, StepWhat
  <2> QED  BY <1>3, <2>1
<1> QED  BY <1>2, <1>3

LEMMA ShutdownElsewhere ==
    ASSUME TypeInv, ShutdownInv, Elsewhere
    PROVE  ShutdownInv'
<1>1. BotTypeOK
  BY DEF TypeInv, TypeOK
<1>2. ASSUME NEW c \in Requests, Request(c) PROVE ShutdownInv'
  <2>1. \E pc \in {"start", "lock"} : Step(c, pc)
    BY <1>2 DEF Request
  <2>2. caller'["graceful"] = caller["graceful"] /\ caller'["main"] = caller["main"]
    BY <1>1, <2>1, StepWhat, Names
  <2> QED  BY <1>2, <2>2 DEF Request, ShutdownInv
<1>3. CASE Signal
  <2>1. caller'["graceful"] = "http" /\ caller'["main"] = caller["main"]
    BY <1>1, <1>3, StepWhat, Names DEF Signal
  <2> QED  BY <1>3, <2>1 DEF Signal, ShutdownInv
<1>4. CASE DeadlinePasses
  BY <1>4 DEF DeadlinePasses, ShutdownInv
<1>5. CASE ServerStopped
  <2>1. /\ caller["graceful"] = "http" /\ Drained("graceful") /\ Step("graceful", "lock")
        /\ UNCHANGED <<botRunning, server, main, deadline>>
    BY <1>5 DEF ServerStopped
  <2>2. caller'["graceful"] = "lock" /\ \A d \in Callers : d # "graceful" => caller'[d] = caller[d]
    BY <1>1, <2>1, StepWhat, Names
  <2>3. server = "down" /\ ~deadline => NoRequests
    BY <2>1 DEF Drained, Expired
  <2>4. NoRequests => NoRequests'
    BY <2>2, Names DEF NoRequests
  <2> QED  BY <2>1, <2>2, <2>3, <2>4, Names DEF ShutdownInv
<1>6. CASE ForceBot
  <2>1. caller'["graceful"] = caller["graceful"]
    BY <1>1, <1>6, StepWhat, Names DEF ForceBot
  <2> QED  BY <1>6, <2>1 DEF ForceBot, ShutdownInv
<1> QED  BY <1>2, <1>3, <1>4, <1>5, <1>6 DEF Elsewhere

LEMMA ShutdownStops ==
    ASSUME TypeInv, ShutdownInv, NEW c \in Callers, StopStep(c)
    PROVE  ShutdownInv'
<1>1. /\ UNCHANGED <<server, main, deadline>> /\ botRunning' \in BOOLEAN
      /\ caller[c] \in {"lock", "telegram", "pool"}
      /\ \A d \in Callers : d # c => caller'[d] = caller[d]
      /\ botRunning' => botRunning
      /\ caller'[c] \in {"idle", "done"} => ~botRunning'
  BY StopWhat DEF TypeOK, BotTypeOK, StopDoes
<1>2. /\ main = "up" => caller'["graceful"] = "idle"
      /\ main \in {"up", "draining"} => caller'["main"] = "idle"
  BY <1>1, Names DEF ShutdownInv
<1>3. ASSUME server = "down", ~deadline, caller'["graceful"] \in {"lock", "telegram", "pool", "done"}
      PROVE  NoRequests'
  <2>1. caller["graceful"] \in {"lock", "telegram", "pool", "done"}
    BY <1>1, <1>3, Names
  <2>2. NoRequests
    BY <1>3, <2>1 DEF ShutdownInv
  <2>3. \A d \in Requests : d # c
    BY <1>1, <2>2 DEF NoRequests
  <2> QED  BY <1>1, <2>2, <2>3, Names DEF NoRequests
<1>4. ASSUME server = "down", ~deadline, caller'["graceful"] = "done"
      PROVE  ~botRunning'
  <2>1. CASE c = "graceful"
    BY <1>1, <1>4, <2>1
  <2>2. CASE c # "graceful"
    BY <1>1, <1>4, <2>2, Names DEF ShutdownInv
  <2> QED  BY <2>1, <2>2
<1> QED  BY <1>1, <1>2, <1>3, <1>4 DEF ShutdownInv

LEMMA ShutdownStep == TypeInv /\ ShutdownInv /\ [Next]_vars => ShutdownInv'
<1> SUFFICES ASSUME TypeInv, ShutdownInv, [Next]_vars PROVE ShutdownInv'
  OBVIOUS
<1>1. ASSUME UNCHANGED <<botRunning, caller, server, main, deadline>> PROVE ShutdownInv'
  BY <1>1 DEF ShutdownInv, NoRequests
<1>2. UNCHANGED botVars => ShutdownInv'
  BY <1>1 DEF botVars
<1>3. UNCHANGED vars => ShutdownInv'
  BY <1>2 DEF vars
<1>4. ASSUME NEW g \in Runs, Poll(g) PROVE ShutdownInv'
  BY <1>1, <1>4 DEF Poll
<1>8. ASSUME NEW c \in Callers, Floods(c) PROVE ShutdownInv'
  BY <1>1, <1>8 DEF Floods
<1>5. CASE Run
  BY <1>5 DEF Run, ShutdownInv
<1>6. ASSUME NEW c \in Requests, StartBot(c) PROVE ShutdownInv'
  <2>1. /\ c \in Callers /\ caller[c] = "start" /\ Step(c, "idle") /\ BotTypeOK
        /\ UNCHANGED <<server, main, deadline>>
    BY <1>6 DEF StartBot, Return, Callers, TypeInv, TypeOK
  <2>2. caller'[c] = "idle" /\ \A d \in Callers : d # c => caller'[d] = caller[d]
    BY <2>1, StepWhat
  <2>3. ~NoRequests
    BY <2>1 DEF NoRequests
  <2> QED  BY <2>1, <2>2, <2>3, Names DEF ShutdownInv
<1>7. CASE Exits
  BY <1>7, Names DEF Exits, ShutdownInv
<1> QED  BY <1>2, <1>3, <1>4, <1>5, <1>6, <1>7, <1>8, ShutdownElsewhere, ShutdownStops, Steps

-----------------------------------------------------------------------------
(* What is over once a Stop is over                                        *)

\* Once wg has let the goroutine of Stop go, the pool has no goroutines until
\* m.mu is free again; as long as no Stop gave up, nobody else is in wg.Wait.
StopInv ==
    /\ \A c \in Callers : caller[c] = "pool" /\ waiter[run] \in {"woken", "gone"} =>
           (\A g \in Runs, w \in Members : ~LiveIn(g, w))
    /\ gaveUp = {} =>
           (\A g \in Runs : waiter[g] \in {"waiting", "woken"} =>
               (g = run /\ \E c \in Callers : caller[c] = "pool"))
    /\ NoStrayRoutines /\ PanicNeedsGiveUp

LEMMA StopInit == Init => StopInv
  BY DEF Init, PoolInit, StopInv, NoStrayRoutines, PanicNeedsGiveUp, StoppedRuns, LiveIn, At

\* Steps that start nothing, wake nobody and stop no run.
LEMMA StopKept ==
    ASSUME StopInv, UNCHANGED <<run, isRunning, waiter, crashed, gaveUp>>,
           \A c \in Callers : (caller'[c] = "pool" <=> caller[c] = "pool"),
           \A g \in Runs, w \in Members : (LiveIn(g, w)' => LiveIn(g, w))
    PROVE  StopInv'
  BY DEF StopInv, NoStrayRoutines, PanicNeedsGiveUp, StoppedRuns

\* A goroutine of the pool goes on or ends.
LEMMA StopRoutine ==
    ASSUME TypeInv, StopInv, NEW g \in Runs, NEW w \in Members,
           RoutineStep(g, w), UNCHANGED botVars
    PROVE  StopInv'
<1>1. /\ UNCHANGED <<run, isRunning, crashed>> /\ UNCHANGED <<caller, gaveUp>>
      /\ LiveIn(g, w) /\ (GoesOn(g, w) \/ Ends(g, w))
      /\ \A h \in Runs, v \in Members : h # g \/ v # w => (LiveIn(h, v)' <=> LiveIn(h, v))
  BY RoutineWhat DEF botVars
<1>2. waiter \in [Runs -> {"none", "waiting", "woken", "gone"}]
  BY DEF TypeInv, TypeOK, PoolTypeOK
<1>3. \A h \in Runs, v \in Members : LiveIn(h, v)' => LiveIn(h, v)
  BY <1>1
<1>4. CASE UNCHANGED waiter
  BY <1>1, <1>3, <1>4, StopKept
<1>5. CASE /\ \A h \in Runs, v \in Members : ~LiveIn(h, v)'
           /\ waiter' = [h \in Runs |-> IF waiter[h] = "waiting" THEN "woken" ELSE waiter[h]]
  <2>1. \A h \in Runs : waiter'[h] \in {"waiting", "woken"} => waiter[h] \in {"waiting", "woken"}
    BY <1>2, <1>5
  <2>2. NoStrayRoutines'
    BY <1>5 DEF NoStrayRoutines, StoppedRuns
  <2>3. PanicNeedsGiveUp'
    BY <1>1 DEF StopInv, PanicNeedsGiveUp
  <2> QED  BY <1>1, <1>5, <2>1, <2>2, <2>3 DEF StopInv
<1> QED  BY <1>1, <1>4, <1>5 DEF GoesOn, Ends

\* wg.Wait returns, or panics.
LEMMA StopWait ==
    ASSUME TypeInv, StopInv, NEW g \in Runs, WaitReturns(g), ~crashed, UNCHANGED botVars
    PROVE  StopInv'
<1>1. /\ waiter[g] = "woken" /\ waiter' = [waiter EXCEPT ![g] = "gone"]
      /\ crashed' = (crashed \/ Count({}) # {})
      /\ UNCHANGED <<run, isRunning, routine>> /\ UNCHANGED <<caller, gaveUp>>
  BY DEF WaitReturns, botVars
<1>2. waiter \in [Runs -> {"none", "waiting", "woken", "gone"}]
  BY DEF TypeInv, TypeOK, PoolTypeOK
<1>3. waiter'[g] = "gone" /\ \A h \in Runs : h # g => waiter'[h] = waiter[h]
  BY <1>1, <1>2
<1>4. PanicNeedsGiveUp'
  <2> SUFFICES ASSUME Count({}) # {}, gaveUp = {} PROVE FALSE
    BY <1>1 DEF PanicNeedsGiveUp
  <2>1. g = run /\ \E c \in Callers : caller[c] = "pool"
    BY <1>1 DEF StopInv
  <2>2. \A h \in Runs, v \in Members : ~LiveIn(h, v)
    BY <1>1, <2>1 DEF StopInv
  <2> QED  BY <2>2, CountIsZero
<1>5. \A c \in Callers : caller[c] = "pool" /\ waiter'[run] \in {"woken", "gone"} =>
          (\A h \in Runs, v \in Members : ~LiveIn(h, v))
  <2>1. CASE run = g
    BY <1>1, <2>1 DEF StopInv
  <2>2. CASE run # g
    <3> SUFFICES ASSUME NEW c \in Callers, caller[c] = "pool", waiter'[run] \in {"woken", "gone"}
                 PROVE  waiter[run] \in {"woken", "gone"}
      BY DEF StopInv
    <3>1. run \in Runs
      BY BotAssumption DEF TypeInv, TypeOK, PoolTypeOK, LockInv, RunInv, Runs
    <3> QED  BY <1>3, <2>2, <3>1
  <2> QED  BY <2>1, <2>2
<1>6. NoStrayRoutines'
  BY <1>1 DEF StopInv, NoStrayRoutines, StoppedRuns, LiveIn
<1> QED  BY <1>1, <1>3, <1>4, <1>5, <1>6 DEF StopInv, LiveIn

\* Start finds m.mu free: no Stop is under way.
LEMMA StopStart ==
    ASSUME TypeInv, StopInv, Start, UNCHANGED gaveUp,
           \A c \in Callers : caller'[c] = caller[c] \/ caller'[c] \in {"idle", "done"}
    PROVE  StopInv'
<1> USE DEF StartDoes
<1>1. /\ mu = "none" /\ UNCHANGED <<cancelled, waiter, crashed>>
      /\ StartDoes
  BY StartWhat
<1>2. \A c \in Callers : caller[c] # "pool" /\ caller'[c] # "pool"
  BY <1>1, BotAssumption DEF TypeInv, LockInv, Callers
<1>3. CASE UNCHANGED <<run, isRunning, routine>>
  <2>1. \A g \in Runs, w \in Members : LiveIn(g, w)' => LiveIn(g, w)
    BY <1>3 DEF LiveIn
  <2> QED  BY <1>1, <1>2, <1>3, <2>1, StopKept
<1>4. CASE /\ ~botRunning /\ isRunning' = TRUE /\ run' = run + 1
           /\ \A g \in Runs, w \in Members : g # run + 1 => (LiveIn(g, w)' <=> LiveIn(g, w))
  <2>1. run \in Nat /\ ~isRunning
    BY <1>4 DEF TypeInv, RunInv, TypeOK, PoolTypeOK
  <2>2. StoppedRuns' = StoppedRuns /\ \A h \in StoppedRuns : h <= run
    BY <1>4, <2>1 DEF StoppedRuns
  <2>3. \A g \in Runs, w \in Members, h \in StoppedRuns :
            LiveIn(g, w)' /\ g <= h => LiveIn(g, w)
    BY <1>4, <2>1, <2>2 DEF Runs, StoppedRuns
  <2>4. NoStrayRoutines'
    BY <2>2, <2>3 DEF StopInv, NoStrayRoutines
  <2>5. \A g \in Runs : gaveUp = {} => waiter[g] \notin {"waiting", "woken"}
    BY <1>2 DEF StopInv
  <2>6. PanicNeedsGiveUp'
    BY <1>1 DEF StopInv, PanicNeedsGiveUp
  <2> QED  BY <1>1, <1>2, <2>4, <2>5, <2>6 DEF StopInv
<1> QED  BY <1>1, <1>3, <1>4

\* Stop, in its three steps.
LEMMA StopStops ==
    ASSUME TypeInv, StopInv, NEW c \in Callers, StopStep(c)
    PROVE  StopInv'
<1> USE DEF StopDoes
<1>1. /\ UNCHANGED <<run, routine, crashed>>
      /\ \A d \in Callers : d # c => caller'[d] = caller[d]
      /\ StopDoes(c)
  BY StopWhat
<1>2. /\ \A g \in Runs, w \in Members : LiveIn(g, w)' <=> LiveIn(g, w)
      /\ waiter \in [Runs -> {"none", "waiting", "woken", "gone"}]
      /\ run \in Nat /\ (isRunning = botRunning)
  BY <1>1 DEF LiveIn, TypeInv, TypeOK, PoolTypeOK, RunInv
<1>3. CASE caller[c] = "lock"
  BY <1>1, <1>2, <1>3, StopKept
<1>4. CASE caller[c] = "telegram"
  <2>1. /\ waiter'[run] = IF Count({}) = {} THEN "gone" ELSE "waiting"
        /\ \A h \in Runs : h # run => waiter'[h] = waiter[h]
        /\ caller'[c] = "pool" /\ run \in Runs /\ UNCHANGED <<isRunning, gaveUp>>
    BY <1>1, <1>2, <1>4
  <2>2. waiter'[run] \in {"woken", "gone"} => \A g \in Runs, w \in Members : ~LiveIn(g, w)
    BY <2>1, CountIsZero
  <2>3. NoStrayRoutines' /\ PanicNeedsGiveUp'
    BY <1>1, <1>2, <2>1 DEF StopInv, NoStrayRoutines, PanicNeedsGiveUp, StoppedRuns
  <2>4. gaveUp = {} => \A g \in Runs : waiter'[g] \in {"waiting", "woken"} => g = run
    BY <2>1 DEF StopInv
  <2> QED  BY <1>1, <1>2, <2>1, <2>2, <2>3, <2>4 DEF StopInv
<1>5. CASE caller[c] = "pool"
  <2>1. /\ run \in Runs /\ UNCHANGED waiter /\ ~isRunning' /\ caller'[c] # "pool"
        /\ (waiter[run] = "gone" /\ UNCHANGED gaveUp) \/ gaveUp' = gaveUp \cup {run}
    BY <1>1, <1>5
  <2>2. isRunning /\ \A d \in Callers : d # c => caller[d] # "pool"
    BY <1>2, <1>5 DEF TypeInv, LockInv
  <2>3. NoStrayRoutines'
    <3> SUFFICES ASSUME NEW g \in Runs, NEW w \in Members, NEW h \in 1..run,
                        LiveIn(g, w), g <= h
                 PROVE  h \in gaveUp'
      BY <1>1, <1>2 DEF NoStrayRoutines, StoppedRuns
    <3>1. CASE h < run
      BY <2>1, <3>1 DEF StopInv, NoStrayRoutines, StoppedRuns
    <3>2. CASE h = run
      BY <1>5, <2>1, <3>2 DEF StopInv
    <3> QED  BY <1>2, <3>1, <3>2
  <2>4. PanicNeedsGiveUp'
    BY <1>1, <2>1 DEF StopInv, PanicNeedsGiveUp
  <2>5. gaveUp' = {} => \A g \in Runs : waiter[g] \notin {"waiting", "woken"}
    BY <2>1 DEF StopInv
  <2> QED  BY <1>1, <2>1, <2>2, <2>3, <2>4, <2>5 DEF StopInv
<1> QED  BY <1>1, <1>3, <1>4, <1>5

LEMMA StopOver == ASSUME Exits PROVE StopInv'
  BY DEF Exits, PoolGone, StopInv, NoStrayRoutines, PanicNeedsGiveUp, StoppedRuns, LiveIn, At

LEMMA StopNext == TypeInv /\ ShutdownInv /\ StopInv /\ [Next]_vars => StopInv'
<1> SUFFICES ASSUME TypeInv, ShutdownInv, StopInv, [Next]_vars PROVE StopInv'
  OBVIOUS
<1>1. ASSUME UNCHANGED <<poolVars, caller, gaveUp>> PROVE StopInv'
  <2>1. UNCHANGED <<run, isRunning, waiter, crashed, gaveUp, routine, caller>>
    BY <1>1 DEF poolVars
  <2>2. \A g \in Runs, w \in Members : LiveIn(g, w)' => LiveIn(g, w)
    BY <2>1 DEF LiveIn
  <2> QED  BY <2>1, <2>2, StopKept
<1>2. CASE UNCHANGED vars
  BY <1>1, <1>2 DEF vars, botVars
<1>3. ASSUME NEW u \in Updates, Enqueue(u) \/ Deliver(u), UNCHANGED botVars
      PROVE  StopInv'
  <2>1. UNCHANGED <<run, isRunning, waiter, crashed, gaveUp, routine, caller>>
    BY <1>3, UpdateWhat DEF botVars
  <2>2. \A g \in Runs, w \in Members : LiveIn(g, w)' => LiveIn(g, w)
    BY <2>1 DEF LiveIn
  <2> QED  BY <2>1, <2>2, StopKept
<1>4. ASSUME NEW g \in Runs, Poll(g) PROVE StopInv'
  BY <1>1, <1>4 DEF Poll
<1>8. ASSUME NEW c \in Callers, Floods(c) PROVE StopInv'
  BY <1>1, <1>8 DEF Floods
<1>5. CASE Run
  <2>1. UNCHANGED <<caller, gaveUp>>
    BY <1>5 DEF Run
  <2> QED  BY <1>1, <1>5, <2>1, StopStart DEF Run
<1>6. ASSUME NEW c \in Requests, StartBot(c) PROVE StopInv'
  <2>1. c \in Callers /\ Start /\ Step(c, "idle") /\ UNCHANGED gaveUp /\ BotTypeOK
    BY <1>6 DEF StartBot, Return, Callers, TypeInv, TypeOK
  <2>2. caller'[c] = "idle" /\ \A d \in Callers : d # c => caller'[d] = caller[d]
    BY <2>1, StepWhat
  <2> QED  BY <2>1, <2>2, StopStart
<1>7. CASE Elsewhere
  <2>1. /\ UNCHANGED <<poolVars, botRunning, mu, poller, registered, gaveUp>>
        /\ \A c \in Callers : caller'[c] = "pool" <=> caller[c] = "pool"
    BY <1>7, ElsewhereWhat, ElsewhereStays
  <2>2. UNCHANGED <<run, isRunning, waiter, crashed, gaveUp, routine>>
    BY <2>1 DEF poolVars
  <2>3. \A g \in Runs, w \in Members : LiveIn(g, w)' => LiveIn(g, w)
    BY <2>2 DEF LiveIn
  <2> QED  BY <2>1, <2>2, <2>3, StopKept
<1> QED  BY <1>2, <1>3, <1>4, <1>5, <1>6, <1>7, <1>8, StopRoutine, StopWait, StopStops, StopOver, Steps

-----------------------------------------------------------------------------
BotInv == TypeInv /\ ShutdownInv /\ StopInv

LEMMA BotInvariant == Spec => []BotInv
<1>1. Init => BotInv
  BY TypeInit, ShutdownInit, StopInit DEF BotInv
<1>2. BotInv /\ [Next]_vars => BotInv'
  BY TypeStep, ShutdownStep, StopNext DEF BotInv
<1> QED  BY <1>1, <1>2, PTL DEF Spec

\* However many runs, workers and admin clients there are, a goroutine of the pool
\* outlives the Stop of its run and of later runs only if each of those gave up.
THEOREM NoStrays == Spec => []NoStrayRoutines
<1>1. BotInv => NoStrayRoutines
  BY DEF BotInv, StopInv
<1> QED  BY BotInvariant, <1>1, PTL

\* Only a Stop that gave up can make wg.Wait panic.
THEOREM PanicsExplained == Spec => []PanicNeedsGiveUp
<1>1. BotInv => PanicNeedsGiveUp
  BY DEF BotInv, StopInv
<1> QED  BY BotInvariant, <1>1, PTL

\* A shutdown in time leaves nothing of the bot, unless a Stop gave up.
THEOREM OrderlyEnd == Spec => []OrderlyShutdown
<1>1. BotInv => OrderlyShutdown
  <2> SUFFICES ASSUME BotInv, caller["graceful"] = "done", server = "down", ~deadline, gaveUp = {}
               PROVE  /\ ~botRunning /\ Count({}) = {}
                      /\ \A g \in Runs : poller[g] \in {"none", "returned", "gone"}
    BY DEF OrderlyShutdown
  <2>1. /\ RunInv /\ NoStrayRoutines /\ run \in Nat
        /\ poller \in [Runs -> Pollers]
    BY DEF BotInv, TypeInv, TypeOK, PoolTypeOK, BotTypeOK, StopInv, Pollers
  <2>2. ~botRunning /\ ~isRunning
    BY <2>1 DEF BotInv, ShutdownInv, RunInv
  <2>3. ASSUME NEW g \in Runs, NEW w \in Members PROVE ~LiveIn(g, w)
    <3>1. CASE g > run
      BY <2>1, <3>1 DEF RunInv
    <3>2. CASE g <= run
      <4>1. run \in StoppedRuns
        BY <2>1, <2>2, <3>2 DEF StoppedRuns, Runs
      <4> QED  BY <2>1, <3>2, <4>1 DEF NoStrayRoutines
    <3> QED  BY <2>1, <3>1, <3>2 DEF Runs
  <2>4. Count({}) = {}
    BY <2>3, CountIsZero
  <2>5. \A g \in Runs : poller[g] \in {"none", "returned", "gone"}
    BY <2>1, <2>2 DEF RunInv, Pollers
  <2> QED  BY <2>2, <2>4, <2>5
<1> QED  BY BotInvariant, <1>1, PTL

-----------------------------------------------------------------------------
(* The shutdown comes to an end, as far as safety goes                     *)

\* m.mu is held by a caller that is past the lock in Stop; while nobody is in
\* the pool's Stop the poller of a running bot has not ended, and one that starts
\* under a Stop finds stopClient cleared; the process is forced to end after the
\* deadline, which does not pass before Run has come up.
HoldersInv ==
    /\ mu # "none" => mu \in Callers /\ caller[mu] \in {"telegram", "pool"}
    /\ botRunning /\ (\A c \in Callers : caller[c] # "pool") =>
           poller[run] \in {"starting", "polling", "returned", "blocked"}
    /\ \A c \in Callers :
           caller[c] = "telegram" /\ poller[run] = "starting" => ~registered
    /\ server = "new" => ~botRunning /\ NoRequests
    /\ deadline => server \notin {"new", "started"}
    /\ main = "forcing" =>
           /\ deadline /\ server = "closed"
           /\ caller["main"] \in {"lock", "telegram", "pool", "done"}

LEMMA HoldersInit == Init => HoldersInv
  BY DEF Init, HoldersInv, NoRequests, Callers

LEMMA HoldersKept ==
    ASSUME HoldersInv, UNCHANGED <<mu, botRunning, run, caller, server, main, deadline>>,
           \/ UNCHANGED <<poller, registered>>
           \/ poller'[run] \in {"polling", "returned", "blocked"}
    PROVE  HoldersInv'
  BY DEF HoldersInv, NoRequests

LEMMA HoldersElsewhere ==
    ASSUME TypeInv, ShutdownInv, HoldersInv, Elsewhere
    PROVE  HoldersInv'
<1>1. BotTypeOK /\ UNCHANGED <<run, botRunning, mu, poller, registered>>
  BY ElsewhereWhat DEF TypeInv, TypeOK, poolVars
<1>2. \A c \in Callers : caller'[c] = "pool" <=> caller[c] = "pool"
  BY ElsewhereStays
<1>3. mu # "none" => mu \in Callers /\ caller'[mu] \in {"telegram", "pool"}
  <2> SUFFICES ASSUME mu # "none" PROVE caller'[mu] \in {"telegram", "pool"}
    BY DEF HoldersInv
  <2>1. mu \in Callers /\ caller[mu] \in {"telegram", "pool"}
    BY DEF HoldersInv
  <2>2. CASE \E c \in Requests : Request(c)
    <3>1. PICK c \in Requests : caller[c] = "idle" /\ \E pc \in {"start", "lock"} : Step(c, pc)
      BY <2>2 DEF Request
    <3>2. caller'[mu] = caller[mu]
      BY <1>1, <2>1, <3>1, StepWhat, Names
    <3> QED  BY <2>1, <3>2
  <2>3. CASE Signal
    <3>1. caller["graceful"] = "idle" /\ Step("graceful", "http")
      BY <2>3 DEF Signal, ShutdownInv
    <3> QED  BY <1>1, <2>1, <3>1, StepWhat, Names
  <2>4. CASE DeadlinePasses
    BY <2>1, <2>4 DEF DeadlinePasses
  <2>5. CASE ServerStopped
    <3>1. caller["graceful"] = "http" /\ Step("graceful", "lock")
      BY <2>5 DEF ServerStopped
    <3> QED  BY <1>1, <2>1, <3>1, StepWhat, Names
  <2>6. CASE ForceBot
    <3>1. caller["main"] = "idle" /\ Step("main", "lock")
      BY <2>6 DEF ForceBot, ShutdownInv
    <3> QED  BY <1>1, <2>1, <3>1, StepWhat, Names
  <2> QED  BY <2>2, <2>3, <2>4, <2>5, <2>6 DEF Elsewhere
<1>4. /\ server' = "new" => server = "new" /\ NoRequests'
      /\ deadline' => server' \notin {"new", "started"}
      /\ main' = "forcing" =>
           /\ deadline' /\ server' = "closed"
           /\ caller'["main"] \in {"lock", "telegram", "pool", "done"}
  <2>1. CASE \E c \in Requests : Request(c)
    <3>1. PICK c \in Requests : /\ server = "up" /\ UNCHANGED <<server, main, deadline>>
                                /\ \E pc \in {"start", "lock"} : Step(c, pc)
      BY <2>1 DEF Request
    <3>2. caller'["main"] = caller["main"]
      BY <1>1, <3>1, StepWhat, Names
    <3> QED  BY <3>1, <3>2 DEF HoldersInv
  <2>2. CASE Signal
    <3>1. /\ server' = (IF server = "up" THEN "down" ELSE server) /\ main' = "draining"
          /\ deadline' = deadline /\ Step("graceful", "http")
      BY <2>2 DEF Signal
    <3>2. \A d \in Callers : d # "graceful" => caller'[d] = caller[d]
      BY <1>1, <3>1, StepWhat, Names
    <3> QED  BY <3>1, <3>2, Names DEF HoldersInv, NoRequests
  <2>3. CASE DeadlinePasses
    BY <2>3 DEF DeadlinePasses, HoldersInv, NoRequests
  <2>4. CASE ServerStopped
    <3>1. UNCHANGED <<server, main, deadline>> /\ Step("graceful", "lock")
      BY <2>4 DEF ServerStopped
    <3>2. \A d \in Callers : d # "graceful" => caller'[d] = caller[d]
      BY <1>1, <3>1, StepWhat, Names
    <3> QED  BY <3>1, <3>2, Names DEF HoldersInv, NoRequests
  <2>5. CASE ForceBot
    <3>1. /\ deadline /\ deadline' /\ Step("main", "lock") /\ server' = Closed(server)
      BY <2>5 DEF ForceBot
    <3>2. caller'["main"] = "lock"
      BY <1>1, <3>1, StepWhat, Names
    <3>3. server' = "closed"
      BY <1>1, <3>1 DEF Closed, BotTypeOK, HoldersInv
    <3> QED  BY <3>1, <3>2, <3>3
  <2> QED  BY <2>1, <2>2, <2>3, <2>4, <2>5 DEF Elsewhere
<1>5. \A c \in Callers : caller'[c] = "telegram" => caller[c] = "telegram"
  BY ElsewhereWhat
<1> QED  BY <1>1, <1>2, <1>3, <1>4, <1>5 DEF HoldersInv

\* Main's own call ends as done, and an idle client is in no call.
LEMMA StopMoves ==
    ASSUME TypeInv, NEW c \in Callers, StopStep(c)
    PROVE  /\ caller'[c] \in {"telegram", "pool", "idle", "done"}
           /\ c = "main" => caller'[c] \in {"telegram", "pool", "done"}
           /\ caller[c] \in {"lock", "telegram", "pool"}
<1>1. \A pc \in {"telegram", "pool", "idle", "done"} : Step(c, pc) => caller'[c] = pc
  BY StepWhat DEF TypeInv, TypeOK
<1>2. Return(c) => \/ c # "main" /\ Step(c, "idle")
                   \/ Step(c, "done")
  BY Names DEF Return
<1> QED  BY <1>1, <1>2 DEF StopStep, StopLocks, StopPoller, Stopped

LEMMA HoldersStops ==
    ASSUME TypeInv, HoldersInv, NEW c \in Callers, StopStep(c)
    PROVE  HoldersInv'
<1> USE DEF StopDoes
<1>1. /\ UNCHANGED <<run, server, main, deadline>> /\ StopDoes(c)
      /\ \A d \in Callers : d # c => caller'[d] = caller[d]
      /\ LockInv /\ BotTypeOK
  BY StopWhat DEF TypeInv, TypeOK
<1>2. /\ caller'[c] \in {"telegram", "pool", "idle", "done"}
      /\ c = "main" => caller'[c] \in {"telegram", "pool", "done"}
      /\ caller[c] \in {"lock", "telegram", "pool"}
  BY StopMoves
<1>3. mu' # "none" => mu' \in Callers /\ caller'[mu'] \in {"telegram", "pool"}
  <2>1. CASE caller[c] = "lock"
    BY <1>1, <2>1 DEF HoldersInv
  <2>2. CASE caller[c] = "telegram"
    <3>1. mu = c /\ mu' = c /\ caller'[c] = "pool"
      BY <1>1, <2>2 DEF LockInv
    <3> QED  BY <3>1
  <2>3. CASE caller[c] = "pool"
    BY <1>1, <2>3
  <2> QED  BY <1>2, <2>1, <2>2, <2>3
<1>4. botRunning' /\ (\A d \in Callers : caller'[d] # "pool") =>
          poller'[run'] \in {"starting", "polling", "returned", "blocked"}
  <2>1. CASE caller[c] = "lock"
    <3>1. /\ UNCHANGED <<run, botRunning, poller>>
          /\ (\A d \in Callers : caller'[d] # "pool") => (\A d \in Callers : caller[d] # "pool")
      BY <1>1, <2>1
    <3> QED  BY <3>1 DEF HoldersInv
  <2>2. CASE caller[c] = "telegram"
    BY <1>1, <2>2
  <2>3. CASE caller[c] = "pool"
    BY <1>1, <2>3
  <2> QED  BY <1>2, <2>1, <2>2, <2>3
<1>5. server' = "new" => ~botRunning' /\ NoRequests'
  <2> SUFFICES ASSUME server = "new" PROVE ~botRunning' /\ NoRequests'
    BY <1>1
  <2>1. ~botRunning /\ NoRequests
    BY DEF HoldersInv
  <2>2. caller[c] = "lock" /\ c \notin Requests
    BY <1>1, <1>2, <2>1 DEF LockInv, NoRequests
  <2>3. ~botRunning'
    BY <1>1, <2>1, <2>2
  <2>4. NoRequests'
    BY <1>1, <2>1, <2>2, Names DEF NoRequests
  <2> QED  BY <2>3, <2>4
<1>6. main' = "forcing" => /\ deadline' /\ server' = "closed"
                           /\ caller'["main"] \in {"lock", "telegram", "pool", "done"}
  BY <1>1, <1>2, Names DEF HoldersInv
<1>7. deadline' => server' \notin {"new", "started"}
  BY <1>1 DEF HoldersInv
<1>8. \A d \in Callers : caller'[d] = "telegram" => d = c /\ ~registered'
  <2> SUFFICES ASSUME NEW d \in Callers, caller'[d] = "telegram" PROVE d = c /\ ~registered'
    OBVIOUS
  <2>1. d = c
    <3> SUFFICES ASSUME d # c PROVE FALSE
      OBVIOUS
    <3>1. caller[d] = "telegram" /\ mu = d /\ d # "none"
      BY <1>1, BotAssumption DEF LockInv, Callers
    <3>2. caller[c] = "lock" => mu = "none"
      BY <1>1
    <3>3. caller[c] \in {"telegram", "pool"} => mu = c
      BY <1>1 DEF LockInv
    <3> QED  BY <1>2, <3>1, <3>2, <3>3
  <2> QED  BY <1>1, <1>2, <2>1
<1> QED  BY <1>3, <1>4, <1>5, <1>6, <1>7, <1>8 DEF HoldersInv

\* The bot is started by Run or by an admin request.
LEMMA HoldersStart ==
    ASSUME TypeInv, HoldersInv, Start, UNCHANGED <<mu, main, deadline>>,
           \/ server = "new" /\ server' = "started" /\ UNCHANGED caller
           \/ server # "new" /\ UNCHANGED server
              /\ \A c \in Callers : c \notin Requests => caller'[c] = caller[c],
           \A c \in Callers : caller'[c] = caller[c] \/ caller'[c] \in {"idle", "done"}
    PROVE  HoldersInv'
<1> USE DEF StartDoes
<1>1. /\ mu = "none" /\ StartDoes /\ BotTypeOK /\ run \in Nat
  <2>1. mu = "none" /\ StartDoes
    BY StartWhat
  <2> QED  BY <2>1 DEF TypeInv, TypeOK, PoolTypeOK
<1>2. mu' # "none" => mu' \in Callers /\ caller'[mu'] \in {"telegram", "pool"}
  BY <1>1
<1>3. \A c \in Callers : caller[c] \notin {"telegram", "pool"}
  BY <1>1, BotAssumption DEF TypeInv, LockInv, Callers
<1>4. botRunning' => poller'[run'] \in {"starting", "polling", "returned", "blocked"}
  <2>1. CASE UNCHANGED <<run, isRunning, routine, botRunning, poller>>
    BY <1>3, <2>1 DEF HoldersInv
  <2>2. CASE poller' = [poller EXCEPT ![run + 1] = "starting"] /\ run' = run + 1 /\ run + 1 \in Runs
    BY <1>1, <2>2 DEF BotTypeOK
  <2> QED  BY <1>1, <2>1, <2>2
<1>5. server' # "new" /\ (deadline' => server' \notin {"new", "started"})
  BY DEF HoldersInv
<1>6. main' = "forcing" => /\ deadline' /\ server' = "closed"
                           /\ caller'["main"] \in {"lock", "telegram", "pool", "done"}
  BY Names DEF HoldersInv
<1>7. \A c \in Callers : caller'[c] # "telegram"
  BY <1>3
<1> QED  BY <1>2, <1>4, <1>5, <1>6, <1>7 DEF HoldersInv

LEMMA HoldersNext == TypeInv /\ ShutdownInv /\ HoldersInv /\ [Next]_vars => HoldersInv'
<1> SUFFICES ASSUME TypeInv, ShutdownInv, HoldersInv, [Next]_vars PROVE HoldersInv'
  OBVIOUS
<1>2. UNCHANGED <<run, botVars>> => HoldersInv'
  BY HoldersKept DEF botVars
<1>3. CASE UNCHANGED vars
  BY <1>2, <1>3 DEF vars, poolVars
<1>4. CASE /\ UNCHANGED botVars
           /\ \/ \E g \in Runs, w \in Members : RoutineStep(g, w)
              \/ \E u \in Updates : Enqueue(u) \/ Deliver(u)
              \/ \E g \in Runs : WaitReturns(g)
  BY <1>2, <1>4, RoutineWhat, UpdateWhat DEF WaitReturns
<1>5. ASSUME NEW g \in Runs, Poll(g) PROVE HoldersInv'
  <2>1. UNCHANGED <<mu, botRunning, run, caller, server, main, deadline>>
    BY <1>5 DEF Poll, poolVars
  <2> QED  BY <1>5, <2>1, PollWhat, HoldersKept
<1>9. ASSUME NEW c \in Callers, Floods(c) PROVE HoldersInv'
  <2>1. UNCHANGED <<mu, botRunning, run, caller, server, main, deadline>>
    BY <1>9 DEF Floods, poolVars
  <2> QED  BY <1>9, <2>1, FloodsWhat, HoldersKept
<1>6. CASE Run
  <2>1. CASE server = "new" /\ Start /\ server' = "started"
    BY <1>6, <2>1, HoldersStart DEF Run
  <2>2. CASE server = "started" /\ server' = "up" /\ UNCHANGED <<poolVars, botRunning, poller>>
    BY <1>6, <2>2 DEF Run, poolVars, HoldersInv
  <2> QED  BY <1>6, <2>1, <2>2 DEF Run
<1>7. ASSUME NEW c \in Requests, StartBot(c) PROVE HoldersInv'
  <2>1. /\ caller[c] = "start" /\ Start /\ Step(c, "idle") /\ BotTypeOK
        /\ UNCHANGED <<mu, server, main, deadline>>
    BY <1>7 DEF StartBot, Return, TypeInv, TypeOK
  <2>2. \A d \in Callers : d # c => caller'[d] = caller[d]
    BY <2>1, Names, StepWhat
  <2>3. server # "new"
    BY <2>1 DEF HoldersInv, NoRequests
  <2>4. \A d \in Callers : /\ caller'[d] = caller[d] \/ caller'[d] \in {"idle", "done"}
                           /\ d \notin Requests => caller'[d] = caller[d]
    BY <2>1, <2>2, StepWhat, Names
  <2> QED  BY <2>1, <2>3, <2>4, HoldersStart
<1>8. CASE Exits
  <2>1. /\ mu' = "none" /\ ~botRunning' /\ server' = "closed" /\ main' = "exited"
          /\ \A c \in Callers : caller'[c] = "idle"
    BY <1>8 DEF Exits
  <2> QED  BY <2>1 DEF HoldersInv
<1> QED  BY <1>3, <1>4, <1>5, <1>6, <1>7, <1>8, <1>9, HoldersStops, HoldersElsewhere, Steps

HoldInv == BotInv /\ HoldersInv

LEMMA HoldInvariant == Spec => []HoldInv
<1>1. Init => HoldersInv
  BY HoldersInit
<1>2. BotInv /\ HoldersInv /\ [Next]_vars => HoldersInv'
  BY HoldersNext DEF BotInv
<1> QED  BY <1>1, <1>2, BotInvariant, PTL DEF Spec, HoldInv

\* What a call of Stop waits for has come or is about to: the mutex; a poller that
\* polls, or one that starts and will find stopClient cleared; the pool, or the end
\* of its context.
CanGo(c) ==
    \/ caller[c] = "lock" /\ mu = "none"
    \/ caller[c] = "telegram" /\ (poller[run] = "starting" => ~registered)
          /\ poller[run] \in {"starting", "polling"}
    \/ caller[c] = "pool" /\ (PoolIsDone \/ Expired(c))

\* Until the deadline Run can come up; after it main's own Stop is over or can go
\* on, or whoever holds m.mu can, unless that one is wedged in telegramBot.Stop.
StuckInTelebotOnly ==
    /\ main = "draining" /\ server = "new" => mu = "none"
    /\ main = "forcing" =>
           \/ caller["main"] = "done" \/ CanGo("main") \/ (mu \in Callers /\ CanGo(mu))
           \/ Wedged

\* How far a thread is from the end of its call.
CallLeft(c) ==
    CASE caller[c] = "http" -> 4
      [] caller[c] = "lock" -> 3
      [] caller[c] = "telegram" -> 2
      [] caller[c] \in {"pool", "start"} -> 1
      [] OTHER -> 0

\* Once the end is forced no thread begins another call, and each of its own steps
\* brings it nearer to its end.
CallsEnd ==
    main = "forcing" =>
        /\ \A c \in Callers : CallLeft(c)' <= CallLeft(c)
        /\ \A c \in Callers : StopStep(c) => CallLeft(c)' < CallLeft(c)
        /\ \A c \in Requests : StartBot(c) => CallLeft(c)' < CallLeft(c)

\* The context main stops the bot with is over, and so is, by then, that of every
\* other holder of m.mu: whatever hangs in the pool or in a client, the forced
\* shutdown waits for ever only where telegramBot.Stop does, which takes no context.
\* There it really stays (ShutdownReturns exempts the case): the telebot of an earlier
\* run was stopped before it had registered, or its queue of updates is full.
THEOREM ForcedEndWaitsForTelebotOnly == Spec => []StuckInTelebotOnly
<1>1. HoldInv => StuckInTelebotOnly
  <2> SUFFICES ASSUME HoldInv PROVE StuckInTelebotOnly
    OBVIOUS
  <2>1. HoldersInv /\ LockInv /\ BotTypeOK
    BY DEF HoldInv, BotInv, TypeInv, TypeOK
  <2>2. main = "draining" /\ server = "new" => mu = "none"
    BY <2>1 DEF HoldersInv, LockInv
  <2>3. ASSUME main = "forcing", NEW c \in Callers, caller[c] \in {"telegram", "pool"}
        PROVE  CanGo(c) \/ Wedged
    <3>1. CASE caller[c] = "pool"
      BY <2>1, <2>3, <3>1 DEF CanGo, Expired, HoldersInv
    <3>2. CASE caller[c] = "telegram"
      <4>1. mu = c /\ botRunning
        BY <2>1, <3>2 DEF LockInv
      <4>2. \A d \in Callers : caller[d] # "pool"
        BY <2>1, <3>2, <4>1 DEF LockInv
      <4>3. /\ poller[run] \in {"starting", "polling", "returned", "blocked"}
            /\ poller[run] = "starting" => ~registered
        BY <2>1, <3>2, <4>1, <4>2 DEF HoldersInv
      <4> QED  BY <3>2, <4>3 DEF CanGo, Wedged
    <3> QED  BY <2>3, <3>1, <3>2
  <2>4. ASSUME main = "forcing"
        PROVE  \/ caller["main"] = "done" \/ CanGo("main") \/ (mu \in Callers /\ CanGo(mu))
               \/ Wedged
    <3>1. CASE mu # "none"
      BY <2>1, <2>3, <2>4, <3>1 DEF HoldersInv
    <3>2. CASE mu = "none" /\ caller["main"] = "lock"
      BY <3>2 DEF CanGo
    <3> QED  BY <2>1, <2>3, <2>4, <3>1, <3>2, Names DEF HoldersInv
  <2> QED  BY <2>2, <2>4 DEF StuckInTelebotOnly
<1> QED  BY HoldInvariant, <1>1, PTL

LEMMA LeftBounds == \A c \in Callers : CallLeft(c) \in 0..4
  BY DEF CallLeft

LEMMA LeftSame ==
    ASSUME NEW c \in Callers, caller'[c] = caller[c] PROVE CallLeft(c)' <= CallLeft(c)
  BY DEF CallLeft

LEMMA StopLowers ==
    ASSUME TypeInv, NEW c \in Callers, StopStep(c) PROVE CallLeft(c)' < CallLeft(c)
<1>1. StopDoes(c)
  BY StopWhat
<1>2. CASE caller[c] = "lock" /\ caller'[c] \in {"telegram", "idle", "done"}
  BY <1>2 DEF CallLeft
<1>3. CASE caller[c] = "telegram" /\ caller'[c] = "pool"
  BY <1>3 DEF CallLeft
<1>4. CASE caller[c] = "pool" /\ caller'[c] \in {"idle", "done"}
  BY <1>4 DEF CallLeft
<1> QED  BY <1>1, <1>2, <1>3, <1>4 DEF StopDoes

LEMMA StartLowers ==
    ASSUME TypeInv, NEW c \in Requests, StartBot(c)
    PROVE  CallLeft(c)' < CallLeft(c) /\ \A d \in Callers : d # c => caller'[d] = caller[d]
<1>1. caller[c] = "start" /\ Step(c, "idle") /\ BotTypeOK /\ c \in Callers
  BY Names DEF StartBot, Return, TypeInv, TypeOK
<1>2. caller'[c] = "idle" /\ \A d \in Callers : d # c => caller'[d] = caller[d]
  BY <1>1, StepWhat
<1> QED  BY <1>1, <1>2 DEF CallLeft

\* What CallsEnd asks of the steps of Stop and Start.
LEMMA OwnSteps ==
    ASSUME TypeInv
    PROVE  /\ \A c \in Callers : StopStep(c) => CallLeft(c)' < CallLeft(c)
           /\ \A c \in Requests : StartBot(c) => CallLeft(c)' < CallLeft(c)
  BY StopLowers, StartLowers

LEMMA NobodyBegins ==
    ASSUME HoldInv, [Next]_vars, main = "forcing"
    PROVE  \A c \in Callers : CallLeft(c)' <= CallLeft(c)
<1>1. HoldersInv /\ ShutdownInv /\ TypeInv /\ BotTypeOK
  BY DEF HoldInv, BotInv, TypeInv, TypeOK
<1>2. server = "closed"
  BY <1>1 DEF HoldersInv
<1>3. UNCHANGED caller => \A c \in Callers : CallLeft(c)' <= CallLeft(c)
  BY LeftSame
<1>4. CASE UNCHANGED vars
  BY <1>3, <1>4 DEF vars, botVars
<1>5. CASE UNCHANGED botVars \/ (\E g \in Runs : Poll(g)) \/ Run \/ DeadlinePasses
               \/ (\E c \in Callers : Floods(c))
  BY <1>3, <1>5 DEF botVars, Poll, Floods, Run, DeadlinePasses
<1>6. ASSUME NEW c \in Requests, StartBot(c)
      PROVE  \A d \in Callers : CallLeft(d)' <= CallLeft(d)
  <2>1. CallLeft(c)' < CallLeft(c) /\ \A d \in Callers : d # c => CallLeft(d)' <= CallLeft(d)
    BY <1>1, <1>6, StartLowers, LeftSame
  <2> QED  BY <2>1, LeftBounds, Names DEF CallLeft
<1>7. ASSUME NEW c \in Callers, StopStep(c)
      PROVE  \A d \in Callers : CallLeft(d)' <= CallLeft(d)
  <2>1. CallLeft(c)' < CallLeft(c) /\ \A d \in Callers : d # c => CallLeft(d)' <= CallLeft(d)
    BY <1>1, <1>7, StopLowers, StopWhat, LeftSame
  <2> QED  BY <2>1 DEF CallLeft
<1>8. CASE ServerStopped
  <2>1. caller["graceful"] = "http" /\ Step("graceful", "lock")
    BY <1>8 DEF ServerStopped
  <2>2. caller'["graceful"] = "lock" /\ \A d \in Callers : d # "graceful" => caller'[d] = caller[d]
    BY <1>1, <2>1, Names, StepWhat
  <2>3. CallLeft("graceful")' <= CallLeft("graceful")
    BY <2>1, <2>2 DEF CallLeft
  <2> QED  BY <2>2, <2>3, LeftSame
<1>9. ~(\E c \in Requests : Request(c)) /\ ~Signal /\ ~ForceBot
  BY <1>2 DEF Request, Signal, ForceBot
<1>10. CASE Exits
  <2>1. \A c \in Callers : CallLeft(c)' = 0
    BY <1>10 DEF Exits, CallLeft
  <2> QED  BY <2>1, LeftBounds
<1> QED  BY <1>4, <1>5, <1>6, <1>7, <1>8, <1>9, <1>10, Steps DEF Elsewhere

\* The forced shutdown does not go round in circles.
THEOREM CallsComeToAnEnd == Spec => [][CallsEnd]_vars
<1>1. HoldInv /\ [Next]_vars => [CallsEnd]_vars
  <2> SUFFICES ASSUME HoldInv, [Next]_vars PROVE CallsEnd
    OBVIOUS
  <2>1. TypeInv
    BY DEF HoldInv, BotInv
  <2> QED  BY <2>1, NobodyBegins, OwnSteps DEF CallsEnd
<1> QED  BY HoldInvariant, <1>1, PTL DEF Spec

=============================================================================
