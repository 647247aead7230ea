-------------------------- MODULE BrokerConnection --------------------------
(***************************************************************************)
(* The life of a pkg/rabbitmq Broker's connection: the goroutine           *)
(* reconnectionLoop replaces a connection that broke, Close ends it all.   *)
(* They share the atomic state, the connection under connMu, and closeCh.  *)
(* Connections are numbered in the order in which they were opened.        *)
(***************************************************************************)
EXTENDS Naturals, FiniteSets

CONSTANTS
    MaxDials,     \* bound on the connections ever opened
    ConfirmMode   \* enable_confirm_mode of rabbitMQConfig.yml

ASSUME ConnectionAssumption ==
    MaxDials \in Nat \ {0} /\ ConfirmMode \in BOOLEAN

VARIABLES
    state,     \* ConnectionState, atomic
    closed,    \* closeCh is closed
    loop,      \* where reconnectionLoop is, connect included
    closer,    \* where the call of Close is
    connMu,    \* who holds the write lock
    conn,      \* b.conn and b.channel: the connection they belong to
    confirms,  \* b.confirms: the connection it belongs to, 0 when nil
    open,      \* connections that are open
    dials,     \* number of connections opened so far
    reader     \* on what the library's goroutine of the connection in use is blocked

vars == <<state, closed, loop, closer, connMu, conn, confirms, open, dials, reader>>

Connections == 1..MaxDials

LoopState ==
    {"waiting",   \* in the select on closeCh and notifyClose
     "notified",  \* notifyClose has fired, the state is still to be looked at
     "dropped",   \* not closing: the state is to be set to disconnected
     "delaying",  \* in the select on the reconnect delay and closeCh
     "connecting",\* called connect, waits for connMu
     "marking",   \* connect has seen that the broker is not closing
     "dialing",   \* from setState(StateConnecting) to the end of the set-up
     "replacing", \* the new connection is ready, the old one still in place
     "settling",  \* the new connection is in place, the state is not
     "gone",
     "panicked"}  \* the process has died

TypeOK ==
    /\ state \in {"disconnected", "connecting", "connected", "closing"}
    /\ closed \in BOOLEAN
    /\ loop \in LoopState
    /\ closer \in {"none", "signalling", "draining", "locking", "closing", "done"}
    /\ connMu \in {"free", "loop", "closer"}
    /\ conn \in Connections
    /\ confirms \in Connections \cup {0}
    /\ open \in SUBSET Connections
    /\ dials \in Connections
    /\ reader \in {"free", "confirms", "notifyClose"}

\* New has connected and started the loop.
Init ==
    /\ state = "connected" /\ closed = FALSE
    /\ loop = "waiting" /\ closer = "none" /\ connMu = "free" /\ reader = "free"
    /\ conn = 1 /\ open = {1} /\ dials = 1
    /\ confirms = IF ConfirmMode THEN 1 ELSE 0

-----------------------------------------------------------------------------
(* External: the network, the server and the library amqp091-go            *)

\* A connection breaks.  The library tells notifyClose of it, which has no buffer,
\* and goes on when the loop has received it.
ConnectionBreaks ==
    /\ dials < MaxDials
    /\ \E c \in open :
          /\ open' = open \ {c}
          /\ reader' = IF c = conn /\ reader = "free" THEN "notifyClose" ELSE reader
    /\ UNCHANGED <<state, closed, loop, closer, connMu, conn, confirms, dials>>

\* Publish alone leaves the confirmations in b.confirms unread: with
\* confirmsBufferSize of them the goroutine that reads the connection blocks.
ReaderBlocks ==
    /\ ConfirmMode /\ confirms = conn /\ conn \in open /\ reader = "free"
    /\ reader' = "confirms"
    /\ UNCHANGED <<state, closed, loop, closer, connMu, conn, confirms, open, dials>>

\* closeOldConnection has closed the confirms channel of the connection in use.
ListenerClosed == ConfirmMode /\ confirms = 0

\* The library still sends confirmations to the channel, or closes it a second
\* time with the connection: either is a panic in a goroutine of its own.
Panic ==
    /\ ListenerClosed /\ loop # "panicked" /\ closer # "done"
    /\ loop' = "panicked" /\ open' = {}
    /\ UNCHANGED <<state, closed, closer, connMu, conn, confirms, dials, reader>>

-----------------------------------------------------------------------------
(* reconnectionLoop                                                        *)

\* The library signals and closes the notifyClose channel of a connection that
\* is closed: from then on receiving from it never blocks.
Notified ==
    /\ loop = "waiting" /\ conn \notin open
    /\ loop' = "notified"
    /\ reader' = IF reader = "notifyClose" THEN "free" ELSE reader
    /\ UNCHANGED <<state, closed, closer, connMu, conn, confirms, open, dials>>

StopWaiting ==
    /\ loop = "waiting" /\ closed
    /\ loop' = "gone"
    /\ UNCHANGED <<state, closed, closer, connMu, conn, confirms, open, dials, reader>>

\* Wrong on purpose (mutant): the loop reconnects whatever the state is.
NeverMind == "dropped"

\* A connection that Close has broken off is not replaced.
AfterNotice == IF state = "closing" THEN "gone" ELSE "dropped"

LookAtState ==
    /\ loop = "notified"
    /\ loop' = AfterNotice
    /\ UNCHANGED <<state, closed, closer, connMu, conn, confirms, open, dials, reader>>

\* Wrong on purpose (mutant): the loop waits for the timer even when closeCh is
\* already closed.
SleepThrough == "delaying"

\* A select whose closeCh is ready does not wait for the timer.
AfterDrop == IF closed THEN "gone" ELSE "delaying"

\* Wrong on purpose (mutant): a state that broker_states.go does not have.
Reconnecting == "reconnecting"

StateAfterLoss == "disconnected"

MarkDisconnected ==
    /\ loop = "dropped"
    /\ state' = StateAfterLoss
    /\ loop' = AfterDrop
    /\ UNCHANGED <<closed, closer, connMu, conn, confirms, open, dials, reader>>

StopDelaying ==
    /\ loop = "delaying" /\ closed
    /\ loop' = "gone"
    /\ UNCHANGED <<state, closed, closer, connMu, conn, confirms, open, dials, reader>>

DelayOver ==
    /\ loop = "delaying"
    /\ loop' = "connecting"
    /\ UNCHANGED <<state, closed, closer, connMu, conn, confirms, open, dials, reader>>

-----------------------------------------------------------------------------
(* connect, called by the loop                                             *)

\* ErrBrokerClosed when the state is closing: the loop goes on.
LockForConnect ==
    /\ loop = "connecting" /\ connMu = "free"
    /\ IF state = "closing"
       THEN loop' = "waiting" /\ connMu' = connMu
       ELSE loop' = "marking" /\ connMu' = "loop"
    /\ UNCHANGED <<state, closed, closer, conn, confirms, open, dials, reader>>

MarkConnecting ==
    /\ loop = "marking"
    /\ state' = "connecting" /\ loop' = "dialing"
    /\ UNCHANGED <<closed, closer, connMu, conn, confirms, open, dials, reader>>

\* Wrong on purpose (mutant): a failed attempt ends the loop.
GiveUpDialing == "gone"

AfterFailure == "waiting"

\* Wrong on purpose (mutant): a failed set-up closes b.confirms as well.
DroppedConfirms == 0

\* setupConfirmMode is the last part of the set-up: b.confirms is as it was.
ConfirmsAfterFailure == confirms

\* Dialling or a part of the set-up fails; what had been opened is closed again.
DialFails ==
    /\ loop = "dialing"
    /\ state' = "disconnected" /\ loop' = AfterFailure /\ connMu' = "free"
    /\ confirms' = ConfirmsAfterFailure
    /\ UNCHANGED <<closed, closer, conn, open, dials, reader>>

\* The connection is opened and set up; setupConfirmMode makes b.confirms its own.
DialOK ==
    /\ loop = "dialing" /\ dials < MaxDials
    /\ dials' = dials + 1
    /\ open' = open \cup {dials + 1}
    /\ confirms' = IF ConfirmMode THEN dials + 1 ELSE confirms
    /\ loop' = "replacing"
    /\ UNCHANGED <<state, closed, closer, connMu, conn, reader>>

\* closeOldConnection closes b.confirms, whichever connection it belongs to.
Replace ==
    /\ loop = "replacing"
    /\ open' = open \ {conn}
    /\ confirms' = 0
    /\ conn' = dials /\ reader' = "free"
    /\ loop' = "settling"
    /\ UNCHANGED <<state, closed, closer, connMu, dials>>

Settle ==
    /\ loop = "settling"
    /\ state' = "connected" /\ loop' = "waiting" /\ connMu' = "free"
    /\ UNCHANGED <<closed, closer, conn, confirms, open, dials, reader>>

-----------------------------------------------------------------------------
(* Close                                                                   *)

MarkClosing ==
    /\ closer = "none"
    /\ state' = "closing" /\ closer' = "signalling"
    /\ UNCHANGED <<closed, loop, connMu, conn, confirms, open, dials, reader>>

Signal ==
    /\ closer = "signalling"
    /\ closed' = TRUE /\ closer' = "draining"
    /\ UNCHANGED <<state, loop, connMu, conn, confirms, open, dials, reader>>

\* Where connect may be for more than 30 seconds: in the dial, or in
\* closeOldConnection, whose channel.Close needs the library's goroutine.
Slow == loop = "dialing" \/ (loop = "replacing" /\ reader = "confirms")

\* closeWg.Wait returns, or 30 seconds pass.
Drained ==
    /\ closer = "draining" /\ (loop = "gone" \/ Slow)
    /\ closer' = "locking"
    /\ UNCHANGED <<state, closed, loop, connMu, conn, confirms, open, dials, reader>>

\* Wrong on purpose (mutant): Close does not wait for connMu.
Unlocked == TRUE

MayClose == connMu = "free"

LockForClose ==
    /\ closer = "locking" /\ MayClose
    /\ closer' = "closing" /\ connMu' = "closer"
    /\ UNCHANGED <<state, closed, loop, conn, confirms, open, dials, reader>>

\* channel.Close waits for an answer that a blocked reader never reads.  Once the
\* connection has broken it may return all the same: that is left open.
CloseConnection ==
    /\ closer = "closing" /\ (conn \in open => reader = "free")
    /\ open' = open \ {conn}
    /\ closer' = "done" /\ connMu' = "free"
    /\ UNCHANGED <<state, closed, loop, conn, confirms, dials, reader>>

-----------------------------------------------------------------------------
LoopStep ==
    \/ Notified \/ StopWaiting \/ LookAtState \/ MarkDisconnected \/ StopDelaying \/ DelayOver
    \/ LockForConnect \/ MarkConnecting \/ DialFails \/ DialOK \/ Replace \/ Settle

CloserStep == Signal \/ Drained \/ LockForClose \/ CloseConnection

Next ==
    \/ ConnectionBreaks \/ ReaderBlocks \/ Panic \/ LoopStep
    \/ loop # "panicked" /\ (MarkClosing \/ CloserStep)

Spec == Init /\ [][Next]_vars

\* What the two goroutines do without the help of a goroutine of the library that
\* may be blocked for ever: the loop hears of a loss and closes the old
\* connection, Close closes the one in use, only if that goroutine goes on.
LoopRuns == LoopStep /\ (reader = "confirms" => loop' # "notified" /\ loop # "replacing")
CloserRuns == CloserStep /\ (closer = "closing" => reader = "free")

\* Both goroutines are scheduled, and a broker that is dialled again and again
\* can be reached in the end.
FairSpec ==
    /\ Spec
    /\ WF_vars(LoopRuns)
    /\ WF_vars(loop # "panicked" /\ CloserRuns)
    /\ SF_vars(DialOK)

-----------------------------------------------------------------------------
(* Properties                                                              *)

\* Once Close has returned no connection is left open, wherever the loop was
\* when Close was called and even if waiting for it timed out; and at any time
\* outside connect, no connection but the current one is open.
NoConnectionLeft ==
    /\ closer = "done" => open = {}
    /\ connMu = "free" => open \subseteq {conn}

\* The loop kills the process only by closing the confirms channel of a second
\* connection: never without the confirm mode, never on the first connection.
PanicNeedsConfirms ==
    loop = "panicked" => ConfirmMode /\ conn > 1

\* What Publish finds: the state, and behind it the connection.  A broker whose
\* state is closing counts as closed unless connect is still on its way and may
\* overwrite the state; one that has been closed does so whatever the state says.
Seen ==
    IF \/ closer = "done" \/ loop = "panicked"
       \/ state = "closing" /\ loop \in {"waiting", "notified", "gone"}
    THEN "closed"
    ELSE IF state # "connected" THEN "down"
    ELSE IF conn \in open THEN "up" ELSE "broken"

Link == INSTANCE BrokerLink WITH link <- Seen

\* To its publishers the broker is a link as the outbox takes it to be: a break is
\* noticed before the connection is replaced, only what was down comes back, and
\* once it is closed nothing does, although a connect that Close found under way
\* may still bring it up in between.
ImplementsLink == Link!Spec

\* Nobody reads the confirmations: in confirm mode the first connection's reader
\* may block for ever.  After a reconnect there is no channel left to block on.
Unread == reader = "confirms" /\ ConfirmMode /\ conn = 1

\* Nobody hears of the loss: the connection broke when the loop, which alone
\* receives from notifyClose, had ended.
Unheard == reader = "notifyClose" /\ loop = "gone"

\* A connection that broke is replaced, however often dialling fails, unless
\* the broker is closed, the process dies, or the confirmations of the first
\* connection were left unread before it broke.
Reconnects ==
    conn \notin open ~>
        (conn \in open /\ state = "connected") \/ closer # "none" \/ loop = "panicked" \/ Unread

\* Close returns and the loop ends, wherever the loop was, but for two ways in
\* which channel.Close waits for a goroutine of the library that nobody lets go
\* on: unread confirmations, and a loss that comes when the loop has ended.
CloseReturns ==
    closer # "none" ~>
        (closer = "done" /\ loop = "gone") \/ loop = "panicked" \/ Unread \/ Unheard

\* Comments promise, and the code does not keep: publish.go:21 says to use
\* PublishWithConfirm when delivery must be guaranteed, rabbitMQConfig.yml turns
\* the confirm mode on.  But connect installs the new connection's confirms
\* channel before closeOldConnection closes and drops it, so that after the first
\* reconnect PublishWithConfirm returns ErrNoConfirmMode for good, and what the
\* library does with the closed channel is a panic.
ConfirmsSurviveReconnect ==
    ConfirmMode /\ state = "connected" => confirms = conn


=============================================================================
