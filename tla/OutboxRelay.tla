---------------------------- MODULE OutboxRelay ----------------------------
(***************************************************************************)
(* The transactional outbox of user-service.                               *)
(*                                                                         *)
(* A service method (CreateUser, UpdateUser, LinkTelegramServ) writes the  *)
(* user row and its events' outbox rows in one transaction.  A relay       *)
(* goroutine polls the PENDING rows, publishes each through the            *)
(* EventPublisher's retry loop and marks the row SENT or FAILED.  Every    *)
(* process has one relay and one broker connection; two processes overlap  *)
(* while a new instance starts before the old one has gone.                *)
(*                                                                         *)
(* UserOf tells which calls concern one user: two calls of CreateUser with *)
(* one e-mail do, unless an UpdateUser changes the user's e-mail between   *)
(* them.  A CreateUser with an e-mail that was freed concerns a new user.  *)
(***************************************************************************)
EXTENDS Naturals, Sequences, FiniteSets, Functions

CONSTANTS
    Creates, Updates, Links,  \* calls of CreateUser, UpdateUser, LinkTelegramServ
    Users, UserOf,            \* the user each call is about
    Relays,                   \* process instances, each with one relay
    First,                    \* the instance that runs at the start
    RegisteredTypes,          \* event types known to the EventRegistry
    BatchSize, RetryCount,    \* outboxConfig.yml, eventPublisherConfig*.yml
    MaxFaults                 \* bound on crashes, cancels, outages, DB errors

Txns == Creates \cup Updates \cup Links

ChangeTypes == {"user.role_changed", "user.status_changed", "user.email_changed"}
EventTypes  == {"user.created", "user.telegram_linked"} \cup ChangeTypes
Event       == [tx : Txns, type : EventTypes]

ASSUME TxnsAssumption ==
    /\ IsFiniteSet(Txns)
    /\ Creates \cap Updates = {} /\ Creates \cap Links = {} /\ Updates \cap Links = {}
    /\ UserOf \in [Txns -> Users]
    /\ RegisteredTypes \subseteq EventTypes

ASSUME RelayAssumption ==
    /\ First \in Relays
    /\ BatchSize \in Nat \ {0}
    /\ RetryCount \in Nat
    /\ MaxFaults \in Nat

VARIABLES
    tx,          \* state of each call's transaction
    stamp,       \* created_at of its rows: NOW() is the transaction's start
    emits,       \* event types the call has to record
    saved,       \* those already inserted by SaveTx
    row,         \* status column of the outbox, as other transactions see it
    processed,   \* rows whose processed_at is not NULL
    pc,          \* where each relay is
    queue,       \* rest of the batch it fetched
    attempt,     \* failed attempts of publishWithRetry for the head of the queue
    live,        \* its background context is not cancelled
    link,        \* the process's broker connection
    attempted,   \* history: Broker.Publish was called for the event
    accepted,    \* history: Broker.Publish returned nil for the event
    copies,      \* messages the exchange got for the event
    faults,      \* history: faults so far
    outages,     \* history: connections that broke
    overlapped   \* history: two instances have run at the same time

txVars      == <<tx, stamp, emits, saved>>
tableVars   == <<row, processed>>
relayVars   == <<pc, queue, attempt>>
processVars == <<live, link>>
publishVars == <<attempted, accepted, copies>>
faultVars   == <<faults, outages, overlapped>>
vars == <<txVars, tableVars, relayVars, processVars, publishVars, faultVars>>

Status == {"PENDING", "SENT", "FAILED"}
RelayState == {"down", "idle", "publish", "sent", "failed"}

TypeOK ==
    /\ tx \in [Txns -> {"idle", "open", "written", "committed", "aborted"}]
    /\ stamp \in [Txns -> Nat]
    /\ emits \in [Txns -> SUBSET EventTypes]
    /\ saved \in [Txns -> SUBSET EventTypes]
    /\ row \in [Event -> Status \cup {"none"}]
    /\ processed \in SUBSET Event
    /\ pc \in [Relays -> RelayState]
    /\ queue \in [Relays -> Seq(Event)]
    /\ attempt \in [Relays -> Nat]
    /\ live \in [Relays -> BOOLEAN]
    /\ link \in [Relays -> {"up", "broken", "down", "closed"}]
    /\ attempted \in SUBSET Event
    /\ accepted \in SUBSET Event
    /\ copies \in [Event -> Nat]
    /\ faults \in Nat /\ outages \in Nat /\ overlapped \in BOOLEAN

Init ==
    /\ tx = [t \in Txns |-> "idle"]
    /\ stamp = [t \in Txns |-> 0]
    /\ emits = [t \in Txns |-> {}]
    /\ saved = [t \in Txns |-> {}]
    /\ row = [e \in Event |-> "none"]
    /\ processed = {}
    /\ pc = [i \in Relays |-> IF i = First THEN "idle" ELSE "down"]
    /\ queue = [i \in Relays |-> <<>>]
    /\ attempt = [i \in Relays |-> 0]
    /\ live = [i \in Relays |-> TRUE]
    /\ link = [i \in Relays |-> "up"]
    /\ attempted = {} /\ accepted = {}
    /\ copies = [e \in Event |-> 0]
    /\ faults = 0 /\ outages = 0 /\ overlapped = FALSE

-----------------------------------------------------------------------------
(* The service methods' transactions                                       *)

Committed(S, u) == \E t \in S : tx[t] = "committed" /\ UserOf[t] = u

\* GetByEmail or GetByIDWithTx, before or at the start of the transaction:
\* CreateUser wants the email free, the others want the user to exist.  Whether
\* LinkTelegramServ finds the user unlinked depends on UnlinkTelegramServ, which
\* records no event: a link may always begin and may always be given up.
Precondition(t) ==
    Committed(Creates, UserOf[t]) <=> t \notin Creates

BeginTx(t) ==
    /\ tx[t] = "idle"
    /\ Precondition(t)
    /\ tx' = [tx EXCEPT ![t] = "open"]
    /\ stamp' = [stamp EXCEPT ![t] = 1 + Cardinality({s \in Txns : tx[s] # "idle"})]
    /\ UNCHANGED <<emits, saved, tableVars, relayVars, processVars, publishVars, faultVars>>

\* Wrong on purpose (mutant): an event type that pkg/events does not have.
UnknownType(t) == {{"user.updated"}}

\* The sets of event types a call may have to record: one event for CreateUser
\* and LinkTelegramServ, one per changed field for UpdateUser.
Recordable(t) ==
    IF t \in Creates THEN {{"user.created"}}
    ELSE IF t \in Links THEN {{"user.telegram_linked"}} ELSE SUBSET ChangeTypes

\* The unique email index and the row lock: the uncommitted write of one
\* transaction blocks the write of another to the same user.
RowFree(t) == \A s \in Txns \ {t} : UserOf[s] = UserOf[t] => tx[s] # "written"

\* Wrong on purpose (mutant): the insert does not look at the unique index.
NoConflictCheck(t) == TRUE

\* CreateWithTx inserts ON CONFLICT (email) DO NOTHING: no row, no user.
NoConflict(t) == t \in Creates => ~Committed(Creates, UserOf[t])

WriteUser(t) ==
    /\ tx[t] = "open"
    /\ RowFree(t) /\ NoConflict(t)
    /\ tx' = [tx EXCEPT ![t] = "written"]
    /\ \E types \in Recordable(t) : emits' = [emits EXCEPT ![t] = types]
    /\ UNCHANGED <<stamp, saved, tableVars, relayVars, processVars, publishVars, faultVars>>

SaveTx(t) ==
    /\ tx[t] = "written"
    /\ \E type \in emits[t] \ saved[t] : saved' = [saved EXCEPT ![t] = @ \cup {type}]
    /\ UNCHANGED <<tx, stamp, emits, tableVars, relayVars, processVars, publishVars, faultVars>>

\* Wrong on purpose (mutant): Commit does not wait for the last SaveTx.
CommitEarly(t) == TRUE

AllSaved(t) == saved[t] = emits[t]

\* Commit makes the user's change and the outbox rows visible together.
CommitTx(t) ==
    /\ tx[t] = "written"
    /\ AllSaved(t)
    /\ tx' = [tx EXCEPT ![t] = "committed"]
    /\ row' = [e \in Event |->
                 IF e.tx = t /\ e.type \in saved[t] THEN "PENDING" ELSE row[e]]
    /\ UNCHANGED <<stamp, emits, saved, processed, relayVars, processVars, publishVars, faultVars>>

\* The deferred Rollback, after an error of any step or with the process's death.
RollbackTx(t) ==
    /\ tx[t] \in {"open", "written"}
    /\ tx' = [tx EXCEPT ![t] = "aborted"]
    /\ UNCHANGED <<stamp, emits, saved, tableVars, relayVars, processVars, publishVars, faultVars>>

-----------------------------------------------------------------------------
(* The relay: processPending and publishMessage                            *)

\* Wrong on purpose (mutant): GetPending has no status filter.
UnfilteredRead == {e \in Event : row[e] # "none"}

Pending == {e \in Event : row[e] = "PENDING"}

\* Wrong on purpose (mutant): GetPending has no ORDER BY.
AnyOrder(b) == TRUE

\* ORDER BY created_at: within the batch, and none left out is older.
OldestFirst(b) ==
    /\ \A j, k \in DOMAIN b : j < k => stamp[b[j].tx] <= stamp[b[k].tx]
    /\ \A k \in DOMAIN b : \A e \in Pending \ Range(b) : stamp[b[k].tx] <= stamp[e.tx]

\* The results GetPending can return: the BatchSize oldest pending rows, or all
\* of them when there are fewer.
Batches ==
    {b \in UNION {[1..n -> Pending] : n \in 0..BatchSize} :
        /\ \A j, k \in DOMAIN b : j # k => b[j] # b[k]
        /\ DOMAIN b = 1..BatchSize \/ Pending \subseteq Range(b)
        /\ OldestFirst(b)}

\* One tick of the poll loop.  With nothing pending, or when the query fails,
\* the tick changes nothing.
Poll(i) ==
    /\ pc[i] = "idle" /\ live[i]
    /\ \E b \in Batches :
          /\ queue' = [queue EXCEPT ![i] = b]
          /\ pc' = [pc EXCEPT ![i] = IF b = <<>> THEN "idle" ELSE "publish"]
    /\ attempt' = [attempt EXCEPT ![i] = 0]
    /\ UNCHANGED <<txVars, tableVars, processVars, publishVars, faultVars>>

Publishable(i) == Head(queue[i]).type \in RegisteredTypes

\* UnmarshalPayload knows no such type, or the retry loop has no attempts at all.
PublishNothing(i) ==
    /\ pc[i] = "publish" /\ attempt[i] = 0
    /\ ~Publishable(i) \/ RetryCount = 0
    /\ pc' = [pc EXCEPT ![i] = "failed"]
    /\ UNCHANGED <<txVars, tableVars, queue, attempt, processVars, publishVars, faultVars>>

\* One iteration of publishWithRetry may call Broker.Publish.  The first
\* attempt does not look at the context.
Attempting(i) == pc[i] = "publish" /\ Publishable(i) /\ attempt[i] < RetryCount

\* Broker.Publish returns nil.  The exchange has the message if the connection
\* works; no publisher confirm is waited for, so a connection that broke
\* unnoticed swallows it.
PublishOK(i) ==
    /\ Attempting(i)
    /\ link[i] \in {"up", "broken"}
    /\ LET e == Head(queue[i])
       IN  /\ attempted' = attempted \cup {e}
           /\ accepted' = accepted \cup {e}
           /\ copies' = [copies EXCEPT ![e] = IF link[i] = "up" THEN @ + 1 ELSE @]
    /\ pc' = [pc EXCEPT ![i] = "sent"]
    /\ UNCHANGED <<txVars, tableVars, queue, attempt, processVars, faultVars>>

\* Wrong on purpose (mutant): the error of the last attempt is swallowed.
ErrorSwallowed(n) == IF n + 1 = RetryCount THEN "sent" ELSE "publish"

AfterError(n) == IF n + 1 = RetryCount THEN "failed" ELSE "publish"

\* Broker.Publish returns an error: not connected, or the channel is closed.
PublishError(i) ==
    /\ Attempting(i)
    /\ link[i] # "up"
    /\ attempted' = attempted \cup {Head(queue[i])}
    /\ attempt' = [attempt EXCEPT ![i] = @ + 1]
    /\ pc' = [pc EXCEPT ![i] = AfterError(attempt[i])]
    /\ UNCHANGED <<txVars, tableVars, queue, processVars, accepted, copies, faultVars>>

\* ctx.Done during the backoff: PublishTimeout has passed or the process stops.
PublishTimedOut(i) ==
    /\ Attempting(i) /\ attempt[i] > 0
    /\ pc' = [pc EXCEPT ![i] = "failed"]
    /\ UNCHANGED <<txVars, tableVars, queue, attempt, processVars, publishVars, faultVars>>

\* publishMessage returns and the loop of processPending goes on.
NextMessage(i) ==
    /\ queue' = [queue EXCEPT ![i] = Tail(@)]
    /\ attempt' = [attempt EXCEPT ![i] = 0]
    /\ pc' = [pc EXCEPT ![i] = IF Tail(queue[i]) = <<>> THEN "idle" ELSE "publish"]
    /\ UNCHANGED <<txVars, processVars, publishVars, outages, overlapped>>

\* UPDATE ... SET status = 'SENT' WHERE id = $1 AND status = 'PENDING'
MarkSent(i) ==
    /\ pc[i] = "sent" /\ live[i]
    /\ LET e == Head(queue[i])
       IN  IF row[e] = "PENDING"
           THEN /\ row' = [row EXCEPT ![e] = "SENT"]
                /\ processed' = processed \cup {e}
           ELSE UNCHANGED tableVars
    /\ faults' = faults
    /\ NextMessage(i)

\* Wrong on purpose (mutant): a failed row is offered to the relay again.
RetryLater == "PENDING"

FailedStatus == "FAILED"

\* UPDATE ... SET status = 'FAILED' WHERE id = $1: whatever the status was.
MarkFailed(i) ==
    /\ pc[i] = "failed" /\ live[i]
    /\ row' = [row EXCEPT ![Head(queue[i])] = FailedStatus]
    /\ UNCHANGED <<processed, faults>>
    /\ NextMessage(i)

\* The UPDATE fails, always so once the context is cancelled: only logged.
MarkError(i) ==
    /\ pc[i] \in {"sent", "failed"}
    /\ \/ ~live[i] /\ faults' = faults
       \/ live[i] /\ faults < MaxFaults /\ faults' = faults + 1
    /\ UNCHANGED tableVars
    /\ NextMessage(i)

-----------------------------------------------------------------------------
(* The process and its broker connection                                   *)

Fault == faults < MaxFaults /\ faults' = faults + 1

\* Container.Close cancels the background context ...
CancelBackground(i) ==
    /\ pc[i] # "down" /\ live[i]
    /\ Fault
    /\ live' = [live EXCEPT ![i] = FALSE]
    /\ UNCHANGED <<txVars, tableVars, relayVars, link, publishVars, outages, overlapped>>

\* Wrong on purpose (mutant): the closers run before the context is cancelled.
CloseFirst(i) == TRUE

Closing(i) == ~live[i]

\* ... and then runs the closers, the broker's among them, without waiting for
\* the relay.
CloseBroker(i) ==
    /\ pc[i] # "down" /\ Closing(i) /\ link[i] # "closed"
    /\ link' = [link EXCEPT ![i] = "closed"]
    /\ UNCHANGED <<txVars, tableVars, relayVars, live, publishVars, faultVars>>

Gone(i) ==
    /\ pc' = [pc EXCEPT ![i] = "down"]
    /\ queue' = [queue EXCEPT ![i] = <<>>]
    /\ attempt' = [attempt EXCEPT ![i] = 0]
    /\ UNCHANGED <<txVars, tableVars, processVars, publishVars, outages, overlapped>>

\* The loop sees ctx.Done, or main returns with the relay in the middle of a batch.
Exit(i) == pc[i] # "down" /\ ~live[i] /\ faults' = faults /\ Gone(i)

Crash(i) == pc[i] # "down" /\ live[i] /\ Fault /\ Gone(i)

\* A new process; NewContainer fails unless the broker can be reached.
Restart(i) ==
    /\ pc[i] = "down"
    /\ pc' = [pc EXCEPT ![i] = "idle"]
    /\ live' = [live EXCEPT ![i] = TRUE]
    /\ link' = [link EXCEPT ![i] = "up"]
    /\ overlapped' = (overlapped \/ \E j \in Relays : pc[j] # "down")
    /\ UNCHANGED <<txVars, tableVars, queue, attempt, publishVars, faults, outages>>

\* The connection breaks, the reconnection loop notices, and reconnects.
LinkBreaks(i) ==
    /\ pc[i] # "down" /\ link[i] = "up"
    /\ Fault
    /\ link' = [link EXCEPT ![i] = "broken"]
    /\ outages' = outages + 1
    /\ UNCHANGED <<txVars, tableVars, relayVars, live, publishVars, overlapped>>

LinkLost(i) ==
    /\ pc[i] # "down" /\ link[i] = "broken"
    /\ link' = [link EXCEPT ![i] = "down"]
    /\ UNCHANGED <<txVars, tableVars, relayVars, live, publishVars, faultVars>>

Reconnect(i) ==
    /\ pc[i] # "down" /\ link[i] = "down"
    /\ link' = [link EXCEPT ![i] = "up"]
    /\ UNCHANGED <<txVars, tableVars, relayVars, live, publishVars, faultVars>>

-----------------------------------------------------------------------------
Transaction(t) == BeginTx(t) \/ WriteUser(t) \/ SaveTx(t) \/ CommitTx(t) \/ RollbackTx(t)

RelayStep(i) ==
    \/ Poll(i) \/ PublishNothing(i) \/ PublishOK(i) \/ PublishError(i) \/ PublishTimedOut(i)
    \/ MarkSent(i) \/ MarkFailed(i) \/ MarkError(i)

Environment(i) ==
    \/ CancelBackground(i) \/ CloseBroker(i) \/ Exit(i) \/ Crash(i) \/ Restart(i)
    \/ LinkBreaks(i) \/ LinkLost(i) \/ Reconnect(i)

Next ==
    \/ \E t \in Txns : Transaction(t)
    \/ \E i \in Relays : RelayStep(i) \/ Environment(i)

Spec == Init /\ [][Next]_vars

\* The relay goroutine is scheduled; nothing is assumed of the transactions,
\* of restarts or of the broker.
FairSpec == Spec /\ \A i \in Relays : WF_vars(RelayStep(i))

-----------------------------------------------------------------------------
(* Safety                                                                  *)

\* Only what a committed transaction recorded reaches the exchange, and a
\* transaction's events are recorded all together or not at all
\* (models.go: "only after the successful commit").
NoPhantomEvent ==
    \A e \in Event :
        /\ copies[e] > 0 => row[e] # "none"
        /\ row[e] # "none" <=> tx[e.tx] = "committed" /\ e.type \in emits[e.tx]

\* A row is SENT only after Broker.Publish returned nil for its event, and the
\* relay never publishes what it has no decoder for.
SentWasAccepted ==
    /\ \A e \in Event : row[e] = "SENT" => e \in accepted
    /\ \A e \in attempted : e.type \in RegisteredTypes

\* Without a broken connection no event the registry knows is ever given up:
\* crashes, shutdowns in the middle of a batch and failing UPDATEs leave the row
\* PENDING, because the context is cancelled before the broker is closed.
NoEventGivenUp ==
    outages = 0 /\ RetryCount > 0 =>
        \A e \in Event : e.type \in RegisteredTypes => row[e] # "FAILED"

\* The consumers hear of a user before they hear anything else about it: when
\* the relay publishes an event of a user, it has tried user.created before.
CreatedFirst ==
    \A e \in attempted : \A c \in Creates :
        /\ UserOf[c] = UserOf[e.tx] /\ tx[c] = "committed"
        /\ "user.created" \in RegisteredTypes
        => [tx |-> c, type |-> "user.created"] \in attempted

\* Each duplicate on the exchange has a cause: while instances do not overlap,
\* an event is published at most once more than there were faults.
DuplicatesNeedFaults ==
    ~overlapped => \A e \in Event : copies[e] <= 1 + faults

\* Two calls of CreateUser for one email race: one user, one user.created.
OneCreatedPerUser ==
    \A c, d \in Creates :
        tx[c] = "committed" /\ tx[d] = "committed" /\ UserOf[c] = UserOf[d] => c = d

-----------------------------------------------------------------------------
(* What comments promise and the code does not keep                        *)

\* models.go:12 says that SENT means successfully sent, and publisher.go:126-130
\* that PublishSync is for events whose loss is unacceptable.  But no confirm is
\* waited for: what goes into a broken connection is SENT and lost.
SentReachedExchange ==
    \A e \in Event : row[e] = "SENT" => copies[e] > 0

-----------------------------------------------------------------------------
(* Refinement                                                              *)

Stage(e) ==
    CASE row[e] = "none"    -> "absent"
      [] row[e] = "PENDING" -> "owed"
      [] row[e] = "SENT"    -> "sent"
      [] row[e] = "FAILED"  -> "failed"

Delivery == INSTANCE EventDelivery WITH
    Events    <- Event,
    stage     <- [e \in Event |-> Stage(e)],
    handed    <- accepted,
    published <- copies,
    exclusive <- ~overlapped

\* The outbox implements the delivery its consumers are promised: among other
\* things a settled event is never published again, and a SENT row never
\* becomes FAILED, unless two instances have overlapped.
ImplementsDelivery == Delivery!Spec

\* Each process's link is one that a Broker shows to its publishers, from the
\* process's start to its end; it is Restart that makes a new one.
LinkOf(i) == INSTANCE BrokerLink WITH link <- link[i]

ProcessesHaveLinks ==
    [][\A i \in Relays : pc[i] # "down" /\ pc'[i] # "down" => [LinkOf(i)!Next]_(link[i])]_vars

\* What is settled stays as it is: as long as no two instances have overlapped, a
\* row that is SENT or FAILED keeps its status for good and its event does not
\* reach the exchange again.
SettledIsFinal ==
    [][\A e \in Event : row[e] \in {"SENT", "FAILED"} /\ ~overlapped' =>
           row'[e] = row[e] /\ copies'[e] = copies[e]]_vars

-----------------------------------------------------------------------------
(* Liveness                                                                *)

\* As long as some process stays up, the outbox is drained again and again.
Drains ==
    (\E i \in Relays : <>[](pc[i] # "down" /\ live[i])) =>
        []<>(\A e \in Event : row[e] # "PENDING")

============================================================================
