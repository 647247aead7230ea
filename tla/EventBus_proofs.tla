--------------------------- MODULE EventBus_proofs ---------------------------
(***************************************************************************)
(* Proofs about EventBus, for any messages, slots and workers, any bounds  *)
(* on retries, attempts and connections, with or without the confirm mode. *)
(***************************************************************************)
EXTENDS EventBus, FiniteSetTheorems, TLAPS

\* What is proved of the broker alone holds here as well: the bus takes its steps.
Proved == INSTANCE BrokerConnection_proofs

LinkInv == Proved!Inv

\* The subscription is to the current connection or to one before it.
SubInv ==
    /\ sub \in Nat /\ sub <= conn
    /\ loop = "settling" => sub < conn

LEMMA SameBroker ==
    /\ Broker!Init <=> Proved!Init
    /\ Broker!Next <=> Proved!Next
    /\ Broker!TypeOK <=> Proved!TypeOK
<1>1. Broker!Init <=> Proved!Init
  BY DEF Broker!Init, Proved!Init
<1>2. Broker!TypeOK <=> Proved!TypeOK
  BY DEF Broker!TypeOK, Proved!TypeOK, Broker!Connections, Proved!Connections,
     Broker!LoopState, Proved!LoopState
<1>3. Broker!LoopStep <=> Proved!LoopStep
  BY DEF Broker!LoopStep, Proved!LoopStep, Broker!Notified, Proved!Notified,
     Broker!StopWaiting, Proved!StopWaiting, Broker!LookAtState, Proved!LookAtState,
     Broker!AfterNotice, Proved!AfterNotice, Broker!MarkDisconnected, Proved!MarkDisconnected,
     Broker!StateAfterLoss, Proved!StateAfterLoss, Broker!AfterDrop, Proved!AfterDrop,
     Broker!StopDelaying, Proved!StopDelaying, Broker!DelayOver, Proved!DelayOver,
     Broker!LockForConnect, Proved!LockForConnect, Broker!MarkConnecting, Proved!MarkConnecting,
     Broker!DialFails, Proved!DialFails, Broker!AfterFailure, Proved!AfterFailure,
     Broker!ConfirmsAfterFailure, Proved!ConfirmsAfterFailure, Broker!DialOK, Proved!DialOK,
     Broker!Replace, Proved!Replace, Broker!Settle, Proved!Settle
<1>4. (Broker!MarkClosing \/ Broker!CloserStep) <=> (Proved!MarkClosing \/ Proved!CloserStep)
  BY DEF Broker!MarkClosing, Proved!MarkClosing, Broker!CloserStep, Proved!CloserStep,
     Broker!Signal, Proved!Signal, Broker!Drained, Proved!Drained, Broker!Slow, Proved!Slow,
     Broker!LockForClose, Proved!LockForClose, Broker!MayClose, Proved!MayClose,
     Broker!CloseConnection, Proved!CloseConnection
<1>5. (Broker!ConnectionBreaks \/ Broker!ReaderBlocks \/ Broker!Panic)
          <=> (Proved!ConnectionBreaks \/ Proved!ReaderBlocks \/ Proved!Panic)
  BY DEF Broker!ConnectionBreaks, Proved!ConnectionBreaks, Broker!Panic, Proved!Panic,
     Broker!ReaderBlocks, Proved!ReaderBlocks,
     Broker!ListenerClosed, Proved!ListenerClosed
<1> QED  BY <1>1, <1>2, <1>3, <1>4, <1>5 DEF Broker!Next, Proved!Next

LEMMA LinkInit == Init => LinkInv /\ SubInv
<1> SUFFICES ASSUME Init PROVE LinkInv /\ SubInv
  OBVIOUS
<1>1. LinkInv
  BY BusAssumption, SameBroker, Proved!InvInit DEF Init, LinkInv
<1>2. SubInv
  BY DEF Init, Broker!Init, Consumer!Init, SubInv
<1> QED  BY <1>1, <1>2

\* Steps of the broker's own goroutines.
LEMMA LinkStep ==
    ASSUME LinkInv, SubInv, Broker!Next, sub' = sub
    PROVE  LinkInv' /\ SubInv'
<1>1. LinkInv'
  BY BusAssumption, SameBroker, Proved!InvStep DEF LinkInv
<1>2. \/ conn' = conn /\ (loop' = "settling" => loop = "settling")
      \/ conn' = dials /\ loop = "replacing"
  BY DEF Broker!AfterNotice, Broker!AfterDrop, Broker!AfterFailure, Broker!Next,
     Broker!ConnectionBreaks, Broker!ReaderBlocks, Broker!Panic, Broker!LoopStep, Broker!CloserStep,
     Broker!Notified, Broker!StopWaiting, Broker!LookAtState, Broker!StopDelaying,
     Broker!DelayOver, Broker!MarkDisconnected, Broker!LockForConnect, Broker!MarkConnecting,
     Broker!DialFails, Broker!Settle, Broker!DialOK, Broker!Replace, Broker!MarkClosing,
     Broker!Signal, Broker!Drained, Broker!LockForClose, Broker!CloseConnection
<1>3. conn \in Nat /\ dials \in Nat /\ conn <= dials /\ (loop = "replacing" => conn < dials)
  BY DEF LinkInv, Proved!Inv, Proved!TypeOK, Proved!Connections, Proved!OpenOnes, Proved!LossInv
<1> QED  BY <1>1, <1>2, <1>3 DEF SubInv

LEMMA LinkCrash ==
    ASSUME LinkInv, SubInv, Crash
    PROVE  LinkInv' /\ SubInv'
<1>1. Proved!Killed /\ conn' = conn /\ sub' = sub
  BY DEF Crash, Proved!Killed, Consumer!Killed
<1> QED  BY <1>1, BusAssumption, Proved!InvKilled DEF LinkInv, SubInv, Proved!Killed

LEMMA LinkStays ==
    ASSUME LinkInv, SubInv, UNCHANGED brokerVars,
           sub' = sub \/ (sub' = conn /\ state = "connected")
    PROVE  LinkInv' /\ SubInv'
<1>1. LinkInv'
  BY Proved!InvStays, BusAssumption DEF LinkInv, brokerVars
<1>2. conn \in Nat /\ (loop = "settling" => state # "connected")
  BY DEF LinkInv, Proved!Inv, Proved!TypeOK, Proved!Connections, Proved!LossInv
<1> QED  BY <1>1, <1>2 DEF SubInv, brokerVars

\* A subscription that is alive is to the connection in use, which is up.
LEMMA LiveIsCurrent ==
    ASSUME LinkInv, SubInv, sub \in open
    PROVE  sub = conn /\ (closer = "none" => state = "connected")
  BY DEF LinkInv, SubInv, Proved!Inv, Proved!OpenOnes, Proved!LossInv, Proved!Lost,
     Proved!OnlyClose, Proved!NoNewDial, Proved!TypeOK, Proved!LoopState, Proved!Connections

-----------------------------------------------------------------------------
(* Types                                                                   *)

Retries == 0..MaxRetries

\* Stages of a delivery that will be tried again.
Trying == {"waiting", "due", "retrying", "failed", "retried"}

\* A retry has a try left; what the server waits for is in a slot, and its channel
\* is open.
SlotInv ==
    /\ Consumer!TypeOK
    /\ \A s \in Slots : slot[s].stage \in Trying => slot[s].tries < MaxRetries
    /\ \A s \in unacked : slot[s].stage # "free" /\ sub \in open

TypeInv == LinkInv /\ SubInv /\ SlotInv /\ Publisher!TypeOK

Taken(s) == slot[s].stage # "free"

LEMMA InSlot ==
    ASSUME SlotInv, NEW s \in Slots, Taken(s)
    PROVE  /\ slot[s].msg \in Messages /\ slot[s].tries \in Retries
           /\ slot[s].stage \in Consumer!Stages
<1>1. slot[s] \in {Consumer!Free} \cup
            [stage : Consumer!Stages, msg : Messages, tries : Consumer!Retries]
  BY DEF SlotInv, Consumer!TypeOK
<1>2. slot[s] # Consumer!Free
  BY DEF Taken, Consumer!Free
<1> QED  BY <1>1, <1>2 DEF Retries, Consumer!Retries

\* What the two ways in which the code changes a slot do to it.
LEMMA Moves ==
    ASSUME SlotInv, NEW s \in Slots, Taken(s), NEW st, st \in Consumer!Stages, Consumer!Move(s, st)
    PROVE  /\ slot' \in [Slots -> {Consumer!Free} \cup
                 [stage : Consumer!Stages, msg : Messages, tries : Consumer!Retries]]
           /\ slot'[s].stage = st /\ slot'[s].msg = slot[s].msg /\ slot'[s].tries = slot[s].tries
           /\ \A t \in Slots : t # s => slot'[t] = slot[t]
<1>1. slot \in [Slots -> {Consumer!Free} \cup
            [stage : Consumer!Stages, msg : Messages, tries : Consumer!Retries]]
  BY DEF SlotInv, Consumer!TypeOK
<1>2. slot[s] \in [stage : Consumer!Stages, msg : Messages, tries : Consumer!Retries]
  BY <1>1 DEF Taken, Consumer!Free
<1>3. slot' = [slot EXCEPT ![s] = [slot[s] EXCEPT !.stage = st]]
  BY <1>1 DEF Consumer!Move
<1>4. [slot[s] EXCEPT !.stage = st] \in
            [stage : Consumer!Stages, msg : Messages, tries : Consumer!Retries]
  BY <1>2
<1> QED  BY <1>1, <1>2, <1>3, <1>4

LEMMA Releases ==
    ASSUME SlotInv, NEW s \in Slots, Consumer!Release(s)
    PROVE  /\ slot' \in [Slots -> {Consumer!Free} \cup
                 [stage : Consumer!Stages, msg : Messages, tries : Consumer!Retries]]
           /\ slot'[s].stage = "free"
           /\ \A t \in Slots : t # s => slot'[t] = slot[t]
  BY DEF SlotInv, Consumer!TypeOK, Consumer!Release, Consumer!Free

LEMMA Delivers ==
    ASSUME SlotInv, NEW s \in Slots, NEW m \in Messages, NEW r \in Retries,
           slot' = [slot EXCEPT ![s] = Consumer!Delivery("buffered", m, r)]
    PROVE  /\ slot' \in [Slots -> {Consumer!Free} \cup
                 [stage : Consumer!Stages, msg : Messages, tries : Consumer!Retries]]
           /\ slot'[s].stage = "buffered" /\ slot'[s].msg = m /\ slot'[s].tries = r
           /\ \A t \in Slots : t # s => slot'[t] = slot[t]
<1>1. slot \in [Slots -> {Consumer!Free} \cup
            [stage : Consumer!Stages, msg : Messages, tries : Consumer!Retries]]
  BY DEF SlotInv, Consumer!TypeOK
<1>2. Consumer!Delivery("buffered", m, r) \in
            [stage : Consumer!Stages, msg : Messages, tries : Consumer!Retries]
  BY DEF Consumer!Delivery, Consumer!Stages, Consumer!Retries, Retries
<1>3. /\ Consumer!Delivery("buffered", m, r).stage = "buffered"
      /\ Consumer!Delivery("buffered", m, r).msg = m
      /\ Consumer!Delivery("buffered", m, r).tries = r
  BY DEF Consumer!Delivery
<1> QED  BY <1>1, <1>2, <1>3

\* FiniteSets as MessageConsumer has it.
LEMMA SameCount == \A S : Consumer!Cardinality(S) = Cardinality(S)
  BY Zenon DEF Consumer!Cardinality, Cardinality

\* What the server requeues of a message's copies.
Back(m, r) == {s \in unacked : slot[s].msg = m /\ slot[s].tries = r}

LEMMA RequeuedReady ==
    ASSUME SlotInv, Consumer!Requeued
    PROVE  /\ ready' \in [Messages -> [Consumer!Retries -> Nat]]
           /\ \A m \in Messages, r \in Retries :
                 ready'[m][r] > 0 => ready[m][r] > 0 \/ Back(m, r) # {}
           /\ \A m \in Messages, r \in Retries :
                 ready[m][r] > 0 \/ Back(m, r) # {} => ready'[m][r] > 0
           /\ \A m \in Messages, r \in Retries :
                 Back(m, r) = {} => ready'[m][r] = ready[m][r]
<1>1. ready \in [Messages -> [Consumer!Retries -> Nat]] /\ IsFiniteSet(unacked)
  <2>1. ready \in [Messages -> [Consumer!Retries -> Nat]] /\ unacked \in SUBSET Slots
    BY DEF SlotInv, Consumer!TypeOK
  <2> QED  BY <2>1, BusAssumption, FS_Subset
<1>2. ready' = [m \in Messages |-> [r \in Consumer!Retries |-> ready[m][r] + Cardinality(Back(m, r))]]
  BY Zenon, SameCount DEF Consumer!Requeued, Back
<1>3. ASSUME NEW m \in Messages, NEW r \in Consumer!Retries
      PROVE  Cardinality(Back(m, r)) \in Nat /\ (Cardinality(Back(m, r)) = 0 <=> Back(m, r) = {})
  <2>1. IsFiniteSet(Back(m, r))
    BY <1>1, FS_Subset DEF Back
  <2> QED  BY <2>1, FS_CardinalityType, FS_EmptySet
<1> HIDE DEF Back
<1>4. \A m \in Messages, r \in Retries :
         /\ ready'[m][r] = ready[m][r] + Cardinality(Back(m, r))
         /\ ready[m][r] \in Nat /\ Cardinality(Back(m, r)) \in Nat
  BY <1>1, <1>2, <1>3 DEF Retries, Consumer!Retries
<1>5. ready' \in [Messages -> [Consumer!Retries -> Nat]]
  BY <1>1, <1>2, <1>3
<1>6. \A m \in Messages, r \in Retries : Cardinality(Back(m, r)) = 0 <=> Back(m, r) = {}
  BY <1>3 DEF Retries, Consumer!Retries
<1> QED  BY <1>4, <1>5, <1>6

\* How the counters and the history of a message change.
LEMMA ReadyMore ==
    ASSUME NEW f \in [Messages -> [Retries -> Nat]], NEW m \in Messages, NEW r \in Retries
    PROVE  LET g == [f EXCEPT ![m][r] = @ + 1]
           IN  /\ g \in [Messages -> [Retries -> Nat]]
               /\ \A n \in Messages, q \in Retries :
                     g[n][q] = IF n = m /\ q = r THEN f[n][q] + 1 ELSE f[n][q]
  OBVIOUS

LEMMA ReadyLess ==
    ASSUME NEW f \in [Messages -> [Retries -> Nat]], NEW m \in Messages, NEW r \in Retries,
           f[m][r] > 0
    PROVE  LET g == [f EXCEPT ![m][r] = @ - 1]
           IN  /\ g \in [Messages -> [Retries -> Nat]]
               /\ \A n \in Messages, q \in Retries :
                     g[n][q] = IF n = m /\ q = r THEN f[n][q] - 1 ELSE f[n][q]
<1>1. f[m] \in [Retries -> Nat] /\ f[m][r] - 1 \in Nat
  OBVIOUS
<1>2. [f[m] EXCEPT ![r] = @ - 1] \in [Retries -> Nat]
  BY <1>1
<1> QED  BY <1>1, <1>2

Outcomes == SUBSET {"arrived", "discarded", "given up", "lost"}

LEMMA OutcomeMore ==
    ASSUME NEW f \in [Messages -> Outcomes], NEW m \in Messages,
           NEW x \in {"arrived", "discarded", "given up", "lost"}
    PROVE  LET g == [f EXCEPT ![m] = @ \cup {x}]
           IN  /\ g \in [Messages -> Outcomes]
               /\ \A n \in Messages : g[n] = IF n = m THEN f[n] \cup {x} ELSE f[n]
  BY DEF Outcomes

LEMMA HandledMore ==
    ASSUME NEW f \in [Messages -> 0..2], NEW m \in Messages
    PROVE  LET g == [f EXCEPT ![m] = IF @ < 2 THEN @ + 1 ELSE @]
           IN  /\ g \in [Messages -> 0..2]
               /\ g[m] = (IF f[m] < 2 THEN f[m] + 1 ELSE f[m])
               /\ \A n \in Messages : n # m => g[n] = f[n]
  OBVIOUS

\* The actions that move one delivery on and leave the queue alone.
LEMMA MoveTypes ==
    ASSUME TypeInv, NEW s \in Slots, UNCHANGED brokerVars,
           \/ Consumer!Take(s) \/ Consumer!Discard(s) \/ Consumer!HandlerSucceeds(s)
           \/ Consumer!HandlerFails(s) \/ Consumer!DeadLetter(s) \/ Consumer!DeadLetterFails(s)
           \/ Consumer!TimerFires(s) \/ Consumer!RetryCancelled(s) \/ Consumer!LookAtState(s)
           \/ Consumer!RepublishFails(s)
    PROVE  SlotInv'
<1> USE BusAssumption DEF Consumer!Stages
<1>1. SlotInv /\ Consumer!TypeOK
  BY DEF TypeInv, SlotInv
<1>2. Taken(s)
  BY DEF Taken, Consumer!Take, Consumer!Discard, Consumer!HandlerSucceeds,
     Consumer!HandlerFails, Consumer!DeadLetter, Consumer!DeadLetterFails,
     Consumer!TimerFires, Consumer!RetryCancelled, Consumer!LookAtState, Consumer!RepublishFails
<1>3. slot[s].msg \in Messages /\ slot[s].tries \in Retries
  BY <1>1, <1>2, InSlot
<1>4. PICK st \in Consumer!Stages :
         /\ Consumer!Move(s, st)
         /\ st \in Trying => slot[s].stage \in Trying \/ slot[s].tries < MaxRetries
  <2>1. CASE Consumer!HandlerFails(s)
    <3>1. Consumer!Move(s, IF slot[s].tries >= MaxRetries THEN "exhausted" ELSE "waiting")
      BY <2>1 DEF Consumer!HandlerFails, Consumer!Exhausted
    <3>2. CASE slot[s].tries >= MaxRetries
      BY <3>1, <3>2 DEF Trying, Consumer!Move
    <3>3. CASE ~(slot[s].tries >= MaxRetries)
      <4>1. Consumer!Move(s, "waiting")
        BY <3>1, <3>3 DEF Consumer!Move
      <4>2. slot[s].tries < MaxRetries
        BY <3>3, <1>3 DEF Retries
      <4> QED  BY <4>1, <4>2
    <3> QED  BY <3>2, <3>3
  <2>2. CASE Consumer!Take(s) \/ Consumer!Discard(s) \/ Consumer!HandlerSucceeds(s)
             \/ Consumer!DeadLetter(s) \/ Consumer!DeadLetterFails(s) \/ Consumer!RetryCancelled(s)
    BY <2>2 DEF Trying, Consumer!Take, Consumer!Discard, Consumer!HandlerSucceeds,
       Consumer!DeadLetter, Consumer!DeadLetterFails, Consumer!RetryCancelled
  <2>3. CASE Consumer!TimerFires(s) \/ Consumer!LookAtState(s) \/ Consumer!RepublishFails(s)
    BY <2>3 DEF Trying, Consumer!TimerFires, Consumer!AfterTimer, Consumer!LookAtState,
       Consumer!RepublishFails, Consumer!AfterPublishError
  <2> QED  BY <2>1, <2>2, <2>3
<1>5. /\ slot' \in [Slots -> {Consumer!Free} \cup
              [stage : Consumer!Stages, msg : Messages, tries : Consumer!Retries]]
      /\ slot'[s].stage = st /\ slot'[s].msg = slot[s].msg /\ slot'[s].tries = slot[s].tries
      /\ \A t \in Slots : t # s => slot'[t] = slot[t]
  BY <1>1, <1>2, <1>4, Moves
<1>6. /\ UNCHANGED <<bound, ready, sub, processor, unacked, redelivered>>
      /\ UNCHANGED <<failures, handled>> \/ UNCHANGED <<failures, outcome>>
            \/ UNCHANGED <<handled, outcome>>
  BY DEF Consumer!Take, Consumer!Discard, Consumer!HandlerSucceeds,
     Consumer!HandlerFails, Consumer!DeadLetter, Consumer!DeadLetterFails,
     Consumer!TimerFires, Consumer!RetryCancelled, Consumer!LookAtState,
     Consumer!RepublishFails, Consumer!history
<1>7. failures' \in [Messages -> 0..(MaxRetries + 1)]
  <2>1. CASE Consumer!HandlerFails(s)
    <3>1. failures' = [failures EXCEPT ![slot[s].msg] = IF @ <= MaxRetries THEN @ + 1 ELSE @]
      BY <2>1 DEF Consumer!HandlerFails
    <3>2. failures \in [Messages -> 0..(MaxRetries + 1)]
      BY <1>1 DEF Consumer!TypeOK
    <3> QED  BY <3>1, <3>2, <1>3
  <2>2. CASE UNCHANGED failures
    BY <2>2, <1>1 DEF Consumer!TypeOK
  <2> QED  BY <2>1, <2>2 DEF Consumer!Take, Consumer!Discard, Consumer!HandlerSucceeds,
     Consumer!DeadLetter, Consumer!DeadLetterFails,
     Consumer!TimerFires, Consumer!RetryCancelled, Consumer!LookAtState,
     Consumer!RepublishFails, Consumer!history
<1>8. handled' \in [Messages -> 0..2]
  <2>1. CASE Consumer!HandlerSucceeds(s)
    <3>1. handled' = [handled EXCEPT ![slot[s].msg] = IF @ < 2 THEN @ + 1 ELSE @]
      BY <2>1 DEF Consumer!HandlerSucceeds
    <3>2. handled \in [Messages -> 0..2]
      BY <1>1 DEF Consumer!TypeOK
    <3> QED  BY <3>1, <3>2, <1>3
  <2>2. CASE UNCHANGED handled
    BY <2>2, <1>1 DEF Consumer!TypeOK
  <2> QED  BY <2>1, <2>2 DEF Consumer!Take, Consumer!Discard, Consumer!HandlerFails,
     Consumer!DeadLetter, Consumer!DeadLetterFails,
     Consumer!TimerFires, Consumer!RetryCancelled, Consumer!LookAtState,
     Consumer!RepublishFails, Consumer!history
<1>9. outcome' \in [Messages -> SUBSET {"arrived", "discarded", "given up", "lost"}]
  <2>1. CASE Consumer!Discard(s) \/ Consumer!DeadLetter(s)
    <3>1. PICK x \in {"discarded", "given up"} :
             outcome' = [outcome EXCEPT ![slot[s].msg] = @ \cup {x}]
      BY <2>1 DEF Consumer!Discard, Consumer!DeadLetter
    <3>2. outcome \in [Messages -> SUBSET {"arrived", "discarded", "given up", "lost"}]
      BY <1>1 DEF Consumer!TypeOK
    <3> QED  BY <3>1, <3>2, <1>3
  <2>2. CASE UNCHANGED outcome
    BY <2>2, <1>1 DEF Consumer!TypeOK
  <2> QED  BY <2>1, <2>2 DEF Consumer!Take, Consumer!HandlerSucceeds, Consumer!HandlerFails,
     Consumer!DeadLetterFails,
     Consumer!TimerFires, Consumer!RetryCancelled, Consumer!LookAtState,
     Consumer!RepublishFails, Consumer!history
<1>10. Consumer!TypeOK'
  BY <1>1, <1>5, <1>6, <1>7, <1>8, <1>9 DEF Consumer!TypeOK
<1>11. \A t \in Slots : slot'[t].stage \in Trying => slot'[t].tries < MaxRetries
  BY <1>1, <1>4, <1>5 DEF SlotInv
<1>12. \A t \in unacked' : slot'[t].stage # "free" /\ sub' \in open'
  BY <1>1, <1>5, <1>6 DEF SlotInv, brokerVars, Consumer!TypeOK
<1> QED  BY <1>10, <1>11, <1>12 DEF SlotInv

\* A delivery is over, or was taken back by the server.
LEMMA EndTypes ==
    ASSUME TypeInv, NEW s \in Slots, UNCHANGED brokerVars,
           Consumer!Ack(s) \/ Consumer!Reject(s) \/ Consumer!AfterFailure(s) \/ Consumer!Republish(s)
    PROVE  SlotInv'
<1> USE BusAssumption
<1>1. SlotInv /\ Consumer!TypeOK
  BY DEF TypeInv, SlotInv
<1>2. Taken(s)
  BY DEF Taken, Consumer!Ack, Consumer!Reject, Consumer!AfterFailure, Consumer!Republish
<1>3. slot[s].msg \in Messages /\ slot[s].tries \in Retries
  BY <1>1, <1>2, InSlot
<1>4. ready \in [Messages -> [Retries -> Nat]]
  BY <1>1 DEF Consumer!TypeOK, Consumer!Retries, Retries
<1>5. \/ /\ Consumer!Release(s) /\ unacked' = unacked \ {s}
      \/ /\ UNCHANGED unacked
         /\ \E st \in Consumer!Stages : Consumer!Move(s, st) /\ st \notin Trying
      \/ /\ UNCHANGED unacked /\ slot[s].stage \in Trying
         /\ \E st \in Consumer!Stages : Consumer!Move(s, st)
  BY DEF Consumer!Ack, Consumer!Reject, Consumer!AfterFailure, Consumer!Republish,
     Consumer!AfterCopy, Consumer!Requeue, Consumer!Stages, Trying
<1>6. /\ slot' \in [Slots -> {Consumer!Free} \cup
              [stage : Consumer!Stages, msg : Messages, tries : Consumer!Retries]]
      /\ \A t \in Slots : t # s => slot'[t] = slot[t]
      /\ \/ slot'[s].stage = "free" /\ unacked' = unacked \ {s}
         \/ /\ slot'[s].stage # "free" /\ UNCHANGED unacked
            /\ slot'[s].tries = slot[s].tries
            /\ slot'[s].stage \notin Trying \/ slot[s].stage \in Trying
  <2>1. CASE Consumer!Release(s) /\ unacked' = unacked \ {s}
    BY <2>1, <1>1, Releases
  <2>2. ASSUME NEW st \in Consumer!Stages, Consumer!Move(s, st), UNCHANGED unacked,
               st \notin Trying \/ slot[s].stage \in Trying
        PROVE  <1>6
    <3>1. st # "free"
      BY DEF Consumer!Stages
    <3> QED  BY <3>1, <2>2, <1>1, <1>2, Moves
  <2> QED  BY <2>1, <2>2, <1>5
<1>7. ready' \in [Messages -> [Retries -> Nat]]
  <2>1. CASE Consumer!Republish(s)
    <3>1. slot[s].tries + 1 \in Retries
      BY <2>1, <1>1, <1>3 DEF Consumer!Republish, SlotInv, Trying, Retries
    <3>2. \/ UNCHANGED ready
          \/ ready' = [ready EXCEPT ![slot[s].msg][slot[s].tries + 1] = @ + 1]
      BY <2>1 DEF Consumer!Republish
    <3> QED  BY <3>1, <3>2, <1>3, <1>4
  <2>2. CASE Consumer!AfterFailure(s)
    <3>1. \/ UNCHANGED ready
          \/ ready' = [ready EXCEPT ![slot[s].msg][slot[s].tries] = @ + 1]
      BY <2>2 DEF Consumer!AfterFailure, Consumer!Requeue
    <3> QED  BY <3>1, <1>3, <1>4
  <2>3. CASE UNCHANGED ready
    BY <2>3, <1>4
  <2> QED  BY <2>1, <2>2, <2>3 DEF Consumer!Ack, Consumer!Reject
<1>8. outcome' \in [Messages -> SUBSET {"arrived", "discarded", "given up", "lost"}]
  <2>1. outcome' = outcome \/ outcome' = [outcome EXCEPT ![slot[s].msg] = @ \cup {"lost"}]
    BY DEF Consumer!Ack, Consumer!Reject, Consumer!AfterFailure, Consumer!Republish, Consumer!history
  <2>2. outcome \in [Messages -> Outcomes]
    BY <1>1 DEF Consumer!TypeOK, Outcomes
  <2>3. CASE outcome' = [outcome EXCEPT ![slot[s].msg] = @ \cup {"lost"}]
    <3>1. outcome' \in [Messages -> Outcomes]
      BY <2>2, <2>3, <1>3, OutcomeMore
    <3> QED  BY <3>1 DEF Outcomes
  <2> QED  BY <2>1, <2>2, <2>3 DEF Outcomes
<1>9. UNCHANGED <<bound, sub, processor, failures, handled, redelivered>>
  BY DEF Consumer!Ack, Consumer!Reject, Consumer!AfterFailure, Consumer!Republish, Consumer!history
<1>10. Consumer!TypeOK'
  <2>1. unacked' \in SUBSET Slots
    BY <1>1, <1>6 DEF Consumer!TypeOK
  <2> QED
    BY <2>1, <1>1, <1>6, <1>7, <1>8, <1>9 DEF Consumer!TypeOK, Consumer!Retries, Retries
<1>11. \A t \in Slots : slot'[t].stage \in Trying => slot'[t].tries < MaxRetries
  BY <1>1, <1>6 DEF SlotInv, Trying
<1>12. \A t \in unacked' : slot'[t].stage # "free" /\ sub' \in open'
  BY <1>1, <1>6, <1>9 DEF SlotInv, brokerVars, Consumer!TypeOK
<1> QED  BY <1>10, <1>11, <1>12 DEF SlotInv

\* The other steps of the consumer, of the server and of other consumers.
LEMMA ServerTypes ==
    ASSUME TypeInv, UNCHANGED brokerVars,
           \/ Consumer!Consume \/ Consumer!ProcessorStops
           \/ \E m \in Messages : Consumer!Arrives(m)
           \/ \E m \in Messages, r \in Retries : Consumer!HandledElsewhere(m, r)
           \/ \E s \in Slots, m \in Messages, r \in Retries : Consumer!Deliver(s, m, r)
    PROVE  SlotInv'
<1> USE BusAssumption
<1>1. SlotInv /\ Consumer!TypeOK
  BY DEF TypeInv, SlotInv
<1>2. /\ ready \in [Messages -> [Retries -> Nat]]
      /\ slot \in [Slots -> {Consumer!Free} \cup
              [stage : Consumer!Stages, msg : Messages, tries : Consumer!Retries]]
      /\ unacked \in SUBSET Slots /\ handled \in [Messages -> 0..2]
      /\ outcome \in [Messages -> SUBSET {"arrived", "discarded", "given up", "lost"}]
  BY <1>1 DEF Consumer!TypeOK, Consumer!Retries, Retries
<1>3. CASE Consumer!Consume
  <2>1. /\ UNCHANGED <<ready, slot, unacked, failures, handled, outcome, redelivered>>
        /\ bound' = TRUE /\ conn \in open
        /\ (sub' = conn /\ processor' = "on") \/ UNCHANGED <<sub, processor>>
    BY <1>3 DEF Consumer!Consume, Consumer!history
  <2>2. conn \in Nat
    BY DEF TypeInv, LinkInv, Proved!Inv, Proved!TypeOK, Proved!Connections
  <2> QED  BY <2>1, <2>2, <1>1 DEF SlotInv, Consumer!TypeOK, brokerVars
<1>4. CASE Consumer!ProcessorStops
  <2>1. /\ UNCHANGED <<bound, ready, sub, unacked, failures, handled, outcome, redelivered>>
        /\ processor' = "gone"
        /\ slot' = [s \in Slots |-> IF slot[s].stage = "buffered" /\ ~(sub \in open)
                                    THEN Consumer!Free ELSE slot[s]]
    BY <1>4 DEF Consumer!ProcessorStops, Consumer!history, Consumer!Live
  <2>2. /\ \A s \in Slots : slot'[s] = slot[s] \/ slot'[s] = Consumer!Free
        /\ sub \in open => slot' = slot
    BY <2>1, <1>2
  <2>3. slot' \in [Slots -> {Consumer!Free} \cup
              [stage : Consumer!Stages, msg : Messages, tries : Consumer!Retries]]
    BY <2>1, <1>2
  <2>4. \A s \in Slots : slot'[s].stage \in Trying => slot'[s].tries < MaxRetries
    BY <2>2, <1>1 DEF SlotInv, Consumer!Free, Trying
  <2>5. Consumer!TypeOK'
    BY <2>1, <2>3, <1>1 DEF Consumer!TypeOK
  <2> QED  BY <2>1, <2>2, <2>4, <2>5, <1>1 DEF SlotInv, brokerVars
<1>5. ASSUME NEW m \in Messages, Consumer!Arrives(m) PROVE SlotInv'
  <2>1. /\ UNCHANGED <<bound, sub, processor, slot, unacked, failures, handled, redelivered>>
        /\ \/ UNCHANGED <<ready, outcome>>
           \/ /\ ready' = [ready EXCEPT ![m][0] = @ + 1]
              /\ outcome' = [outcome EXCEPT ![m] = @ \cup {"arrived"}]
    BY <1>5 DEF Consumer!Arrives
  <2>2. 0 \in Retries
    BY DEF Retries
  <2>3. ready' \in [Messages -> [Retries -> Nat]]
    <3>1. CASE ready' = [ready EXCEPT ![m][0] = @ + 1]
      BY <3>1, <2>2, <1>2, ReadyMore
    <3> QED  BY <3>1, <2>1, <1>2
  <2>4. outcome' \in [Messages -> Outcomes]
    <3>1. outcome \in [Messages -> Outcomes]
      BY <1>2 DEF Outcomes
    <3>2. CASE outcome' = [outcome EXCEPT ![m] = @ \cup {"arrived"}]
      BY <3>1, <3>2, OutcomeMore
    <3> QED  BY <3>1, <3>2, <2>1
  <2>5. Consumer!TypeOK'
    BY <2>1, <2>3, <2>4, <1>1 DEF Consumer!TypeOK, Consumer!Retries, Retries, Outcomes
  <2> QED  BY <2>1, <2>5, <1>1 DEF SlotInv, brokerVars
<1>6. ASSUME NEW m \in Messages, NEW r \in Retries, Consumer!HandledElsewhere(m, r)
      PROVE  SlotInv'
  <2>1. /\ UNCHANGED <<bound, sub, processor, slot, unacked, failures, outcome, redelivered>>
        /\ ready' = [ready EXCEPT ![m][r] = @ - 1] /\ ready[m][r] > 0
        /\ handled' = [handled EXCEPT ![m] = IF @ < 2 THEN @ + 1 ELSE @]
    BY <1>6 DEF Consumer!HandledElsewhere
  <2>2. ready' \in [Messages -> [Retries -> Nat]]
    BY <2>1, <1>2, ReadyLess
  <2>3. handled' \in [Messages -> 0..2]
    BY <2>1, <1>2, HandledMore
  <2>4. Consumer!TypeOK'
    BY <2>1, <2>2, <2>3, <1>1 DEF Consumer!TypeOK, Consumer!Retries, Retries
  <2> QED  BY <2>1, <2>4, <1>1 DEF SlotInv, brokerVars
<1>7. ASSUME NEW s \in Slots, NEW m \in Messages, NEW r \in Retries, Consumer!Deliver(s, m, r)
      PROVE  SlotInv'
  <2>1. /\ UNCHANGED <<bound, sub, processor, failures, handled, outcome, redelivered>>
        /\ ready' = [ready EXCEPT ![m][r] = @ - 1] /\ ready[m][r] > 0
        /\ slot' = [slot EXCEPT ![s] = Consumer!Delivery("buffered", m, r)]
        /\ unacked' = unacked \cup {s} /\ sub \in open
    BY <1>7 DEF Consumer!Deliver, Consumer!history, Consumer!Live
  <2>2. ready' \in [Messages -> [Retries -> Nat]]
    BY <2>1, <1>2, ReadyLess
  <2>3. /\ slot' \in [Slots -> {Consumer!Free} \cup
              [stage : Consumer!Stages, msg : Messages, tries : Consumer!Retries]]
        /\ slot'[s].stage = "buffered" /\ \A t \in Slots : t # s => slot'[t] = slot[t]
    BY <2>1, <1>1, Delivers
  <2>4. Consumer!TypeOK'
    BY <2>1, <2>2, <2>3, <1>1 DEF Consumer!TypeOK, Consumer!Retries, Retries
  <2>5. \A t \in Slots : slot'[t].stage \in Trying => slot'[t].tries < MaxRetries
    BY <2>3, <1>1 DEF SlotInv, Trying
  <2> QED  BY <2>1, <2>3, <2>4, <2>5, <1>1, <1>2 DEF SlotInv, brokerVars
<1> QED  BY <1>3, <1>4, <1>5, <1>6, <1>7

\* Steps at which the channel of the subscription may end.
LEMMA FollowTypes ==
    ASSUME TypeInv, Consumer!Follow PROVE SlotInv'
<1>1. SlotInv /\ Consumer!TypeOK
  BY DEF TypeInv, SlotInv
<1>2. UNCHANGED <<bound, sub, processor, slot, failures, handled, outcome>>
  BY DEF Consumer!Follow
<1>3. CASE Consumer!Requeued
  <2>1. ready' \in [Messages -> [Consumer!Retries -> Nat]]
    BY <1>1, <1>3, RequeuedReady
  <2>2. unacked' = {} /\ redelivered' = redelivered \cup {slot[s].msg : s \in unacked}
    BY <1>3 DEF Consumer!Requeued
  <2>3. ASSUME NEW s \in unacked PROVE slot[s].msg \in Messages
    <3>1. s \in Slots /\ Taken(s)
      BY <1>1 DEF SlotInv, Taken, Consumer!TypeOK
    <3> QED  BY <3>1, <1>1, InSlot
  <2>4. redelivered' \in SUBSET Messages
    <3>1. redelivered \in SUBSET Messages
      BY <1>1 DEF Consumer!TypeOK
    <3> QED  BY <3>1, <2>2, <2>3
  <2> QED  BY <2>1, <2>2, <2>4, <1>1, <1>2 DEF SlotInv, Consumer!TypeOK
<1>4. CASE UNCHANGED <<ready, redelivered, unacked>> /\ (sub \in open => sub \in open')
  BY <1>1, <1>2, <1>4 DEF SlotInv, Consumer!TypeOK
<1> QED  BY <1>3, <1>4 DEF Consumer!Follow, Consumer!Live

LEMMA KilledTypes ==
    ASSUME TypeInv, Consumer!Killed PROVE SlotInv'
<1>1. SlotInv /\ Consumer!TypeOK
  BY DEF TypeInv, SlotInv
<1>2. /\ UNCHANGED <<bound, sub, failures, handled, outcome>> /\ processor' = "gone"
      /\ slot' = [s \in Slots |-> Consumer!Free]
  BY DEF Consumer!Killed
<1>3. slot' \in [Slots -> {Consumer!Free} \cup
              [stage : Consumer!Stages, msg : Messages, tries : Consumer!Retries]]
  BY <1>2
<1>4. \A s \in Slots : slot'[s].stage \notin Trying
  BY <1>2 DEF Consumer!Free, Trying
<1>5. CASE Consumer!Requeued
  <2>1. ready' \in [Messages -> [Consumer!Retries -> Nat]]
    BY <1>1, <1>5, RequeuedReady
  <2>2. unacked' = {} /\ redelivered' = redelivered \cup {slot[s].msg : s \in unacked}
    BY <1>5 DEF Consumer!Requeued
  <2>3. ASSUME NEW s \in unacked PROVE slot[s].msg \in Messages
    <3>1. s \in Slots /\ Taken(s)
      BY <1>1 DEF SlotInv, Taken, Consumer!TypeOK
    <3> QED  BY <3>1, <1>1, InSlot
  <2>4. redelivered' \in SUBSET Messages
    <3>1. redelivered \in SUBSET Messages
      BY <1>1 DEF Consumer!TypeOK
    <3> QED  BY <3>1, <2>2, <2>3
  <2> QED  BY <2>1, <2>2, <2>4, <1>1, <1>2, <1>3, <1>4 DEF SlotInv, Consumer!TypeOK
<1>6. CASE UNCHANGED <<ready, redelivered, unacked>> /\ sub \notin open
  BY <1>1, <1>2, <1>3, <1>4, <1>6 DEF SlotInv, Consumer!TypeOK
<1> QED  BY <1>5, <1>6 DEF Consumer!Killed, Consumer!Live

LEMMA PublisherInit == Init => Publisher!TypeOK
<1> SUFFICES ASSUME Init PROVE Publisher!TypeOK
  OBVIOUS
<1>1. /\ tasks = <<>> /\ worker = [w \in Workers |-> Publisher!Idle] /\ halted = FALSE
      /\ fate = [m \in Messages |-> IF m \in Queued THEN "published" ELSE "new"]
  BY DEF Init, Publisher!Init
<1>2. tasks \in Seq(Messages) /\ Len(tasks) <= QueueSize
  BY <1>1, BusAssumption
<1>3. fate \in [Messages -> Publisher!Fates]
  BY <1>1 DEF Publisher!Fates
<1> QED  BY <1>1, <1>2, <1>3 DEF Publisher!TypeOK

BusyWorkers == [pc : {"busy"}, event : Messages, failed : 0..RetryCount]

LEMMA WorkerTypes ==
    ASSUME Publisher!TypeOK, NEW w \in Workers,
           \/ Publisher!TakeTask(w) \/ Publisher!StopWorker(w) \/ Publisher!Published(w)
           \/ Publisher!PublishFails(w) \/ Publisher!GiveUp(w)
    PROVE  Publisher!TypeOK'
<1> USE BusAssumption
<1>1. /\ tasks \in Seq(Messages) /\ Len(tasks) <= QueueSize
      /\ worker \in [Workers -> {Publisher!Idle, Publisher!Stopped} \cup BusyWorkers]
      /\ halted \in BOOLEAN /\ fate \in [Messages -> Publisher!Fates]
  BY DEF Publisher!TypeOK, BusyWorkers
<1>2. worker[w].pc = "busy" => worker[w] \in BusyWorkers
  BY <1>1 DEF Publisher!Idle, Publisher!Stopped
<1>3. CASE Publisher!TakeTask(w)
  <2>1. Publisher!Busy(Head(tasks), 0) \in BusyWorkers
    BY <1>1, <1>3 DEF Publisher!TakeTask, Publisher!Busy, BusyWorkers
  <2>2. Tail(tasks) \in Seq(Messages) /\ Len(Tail(tasks)) <= QueueSize
    BY <1>1, <1>3 DEF Publisher!TakeTask
  <2> QED  BY <1>1, <1>3, <2>1, <2>2 DEF Publisher!TakeTask, Publisher!TypeOK, BusyWorkers
<1>4. CASE Publisher!StopWorker(w)
  BY <1>1, <1>4 DEF Publisher!StopWorker, Publisher!TypeOK, BusyWorkers
<1>5. CASE Publisher!Published(w) \/ Publisher!GiveUp(w)
  <2>1. /\ worker' = [worker EXCEPT ![w] = Publisher!Idle] /\ worker[w].pc = "busy"
        /\ UNCHANGED <<tasks, halted>>
        /\ \E f \in Publisher!Fates : fate' = [fate EXCEPT ![worker[w].event] = f]
    BY <1>5 DEF Publisher!Published, Publisher!GiveUp, Publisher!Settle, Publisher!Fates
  <2> QED  BY <1>1, <2>1 DEF Publisher!TypeOK, BusyWorkers
<1>6. CASE Publisher!PublishFails(w)
  <2>1. /\ worker' = [worker EXCEPT ![w] = [worker[w] EXCEPT !.failed = worker[w].failed + 1]]
        /\ worker[w].pc = "busy" /\ worker[w].failed + 1 < RetryCount
        /\ UNCHANGED <<tasks, halted, fate>>
    BY <1>1, <1>6 DEF Publisher!PublishFails
  <2>2. [worker[w] EXCEPT !.failed = worker[w].failed + 1] \in BusyWorkers
    BY <1>2, <2>1 DEF BusyWorkers
  <2> QED  BY <1>1, <2>1, <2>2 DEF Publisher!TypeOK, BusyWorkers
<1> QED  BY <1>3, <1>4, <1>5, <1>6

LEMMA ClientTypes ==
    ASSUME Publisher!TypeOK,
           Publisher!Shutdown \/ \E m \in Messages : Publisher!PublishAsync(m)
    PROVE  Publisher!TypeOK'
<1>1. CASE Publisher!Shutdown
  BY <1>1 DEF Publisher!Shutdown, Publisher!TypeOK
<1>2. ASSUME NEW m \in Messages, Publisher!PublishAsync(m) PROVE Publisher!TypeOK'
  <2>1. /\ UNCHANGED <<worker, halted>>
        /\ tasks' = tasks \/ (Len(tasks) < QueueSize /\ tasks' = Append(tasks, m))
        /\ \E f \in Publisher!Fates : fate' = [fate EXCEPT ![m] = f]
    BY <1>2 DEF Publisher!PublishAsync, Publisher!Fates
  <2>2. tasks \in Seq(Messages) /\ Len(tasks) <= QueueSize /\ fate \in [Messages -> Publisher!Fates]
    BY DEF Publisher!TypeOK
  <2>3. tasks' \in Seq(Messages) /\ Len(tasks') <= QueueSize
    BY <2>1, <2>2, BusAssumption
  <2>4. fate' \in [Messages -> Publisher!Fates]
    BY <2>1, <2>2
  <2> QED  BY <2>1, <2>3, <2>4 DEF Publisher!TypeOK
<1> QED  BY <1>1, <1>2

-----------------------------------------------------------------------------
(* The steps of the bus                                                    *)

\* A step in which one delivery is moved on by the process' goroutines.
Handles(s) ==
    \/ Consumer!Take(s) \/ Consumer!Discard(s) \/ Consumer!HandlerSucceeds(s)
    \/ Consumer!HandlerFails(s) \/ Consumer!DeadLetter(s) \/ Consumer!DeadLetterFails(s)
    \/ Consumer!TimerFires(s) \/ Consumer!RetryCancelled(s) \/ Consumer!LookAtState(s)
    \/ Consumer!RepublishFails(s)

\* A step in which it may leave its slot, or its copy enter the queue.
Ends(s) ==
    Consumer!Ack(s) \/ Consumer!Reject(s) \/ Consumer!AfterFailure(s) \/ Consumer!Republish(s)

\* A step of a worker that the consumer does not notice, or one of a client.
Publishes ==
    \/ Publisher!Shutdown \/ \E m \in Messages : Publisher!PublishAsync(m)
    \/ \E w \in Workers : \/ Publisher!TakeTask(w) \/ Publisher!StopWorker(w)
                          \/ Publisher!PublishFails(w) \/ Publisher!GiveUp(w)

\* The steps, sorted by the variables they share.
LEMMA Steps ==
    ASSUME [Next]_vars
    PROVE  \/ Broker!Next /\ Consumer!Follow /\ UNCHANGED publisherVars
           \/ Crash
           \/ /\ UNCHANGED <<brokerVars, publisherVars>>
              /\ \/ Consumer!Consume \/ Consumer!ProcessorStops
                 \/ \E s \in Slots : Handles(s) \/ Ends(s)
                 \/ \E s \in Slots, m \in Messages, r \in Retries : Consumer!Deliver(s, m, r)
                 \/ \E m \in Messages, r \in Retries : Consumer!HandledElsewhere(m, r)
           \/ /\ UNCHANGED brokerVars
              /\ \E w \in Workers : Publisher!Published(w) /\
                    (Consumer!Arrives(worker[w].event) \/ UNCHANGED consumerVars)
           \/ Publishes /\ UNCHANGED <<brokerVars, consumerVars>>
           \/ UNCHANGED vars
<1>1. CASE BrokerStep
  BY <1>1 DEF BrokerStep
<1>2. CASE ConsumerStep
  <2>1. CASE Undisturbed /\ Consumer!Consume
    BY <2>1 DEF Undisturbed
  <2>2. CASE Undisturbed /\ Consumer!SomeDelivery
    BY <2>2 DEF Undisturbed, Consumer!SomeDelivery, Consumer!Retries, Retries
  <2>3. CASE Undisturbed /\ Consumer!ProcessorStep
    BY <2>3 DEF Undisturbed, Consumer!ProcessorStep, Handles, Ends
  <2>4. CASE Undisturbed /\ \E s \in Slots : Consumer!RetryStep(s)
    BY <2>4 DEF Undisturbed, Consumer!RetryStep, Handles, Ends
  <2> QED  BY <1>2, <2>1, <2>2, <2>3, <2>4 DEF ConsumerStep, ConsumerRuns
<1>3. CASE PublisherStep
  BY <1>3 DEF PublisherStep, WorkerStep, PublishOK, Publishes
<1>4. CASE Elsewhere
  BY <1>4 DEF Elsewhere, Retries
<1> QED  BY <1>1, <1>2, <1>3, <1>4 DEF Next

LEMMA TypeInit == Init => TypeInv
<1> SUFFICES ASSUME Init PROVE TypeInv
  OBVIOUS
<1> USE BusAssumption
<1>1. /\ sub = 0 /\ processor = "off" /\ bound \in BOOLEAN
      /\ slot = [s \in Slots |-> Consumer!Free] /\ unacked = {}
      /\ failures = [m \in Messages |-> 0] /\ handled = [m \in Messages |-> 0]
      /\ redelivered = {}
  BY DEF Init, Consumer!Init
<1>2. ready \in [Messages -> [Consumer!Retries -> Nat]]
  BY DEF Init, Consumer!Init
<1>3. outcome \in [Messages -> Outcomes]
  BY DEF Init, Consumer!Init, Outcomes
<1>4. Consumer!TypeOK
  <2>1. slot \in [Slots -> {Consumer!Free} \cup
            [stage : Consumer!Stages, msg : Messages, tries : Consumer!Retries]]
    BY <1>1
  <2>2. failures \in [Messages -> 0..(MaxRetries + 1)] /\ handled \in [Messages -> 0..2]
    BY <1>1
  <2> QED  BY <1>1, <1>2, <1>3, <2>1, <2>2 DEF Consumer!TypeOK, Outcomes
<1>5. SlotInv
  BY <1>1, <1>4 DEF SlotInv, Consumer!Free, Trying
<1> QED  BY <1>5, LinkInit, PublisherInit DEF TypeInv

LEMMA TypeStep == TypeInv /\ [Next]_vars => TypeInv'
<1> SUFFICES ASSUME TypeInv, [Next]_vars PROVE TypeInv'
  OBVIOUS
<1>1. LinkInv /\ SubInv /\ SlotInv /\ Publisher!TypeOK
  BY DEF TypeInv
<1>2. UNCHANGED publisherVars => Publisher!TypeOK'
  BY <1>1 DEF publisherVars, Publisher!TypeOK
<1>3. CASE Broker!Next /\ Consumer!Follow /\ UNCHANGED publisherVars
  <2>1. sub' = sub
    BY <1>3 DEF Consumer!Follow
  <2> QED  BY <1>1, <1>2, <1>3, <2>1, LinkStep, FollowTypes DEF TypeInv
<1>4. CASE Crash
  BY <1>1, <1>2, <1>4, LinkCrash, KilledTypes DEF TypeInv, Crash
<1>5. CASE /\ UNCHANGED <<brokerVars, publisherVars>>
           /\ \/ Consumer!Consume \/ Consumer!ProcessorStops
              \/ \E s \in Slots : Handles(s) \/ Ends(s)
              \/ \E s \in Slots, m \in Messages, r \in Retries : Consumer!Deliver(s, m, r)
              \/ \E m \in Messages, r \in Retries : Consumer!HandledElsewhere(m, r)
  <2>1. SlotInv'
    <3>1. CASE \E s \in Slots : Handles(s)
      BY <3>1, <1>5, MoveTypes DEF Handles
    <3>2. CASE \E s \in Slots : Ends(s)
      BY <3>2, <1>5, EndTypes DEF Ends
    <3> QED  BY <3>1, <3>2, <1>5, ServerTypes
  <2>2. sub' = sub \/ (sub' = conn /\ state = "connected")
    BY <1>5 DEF Consumer!Consume, Consumer!ProcessorStops, Handles, Ends, Consumer!Take,
       Consumer!Discard, Consumer!HandlerSucceeds, Consumer!HandlerFails, Consumer!DeadLetter,
       Consumer!DeadLetterFails, Consumer!TimerFires, Consumer!RetryCancelled,
       Consumer!LookAtState, Consumer!RepublishFails, Consumer!Ack, Consumer!Reject,
       Consumer!AfterFailure, Consumer!Republish, Consumer!Deliver, Consumer!HandledElsewhere
  <2> QED  BY <1>1, <1>2, <1>5, <2>1, <2>2, LinkStays DEF TypeInv
<1>6. ASSUME UNCHANGED brokerVars, NEW w \in Workers, Publisher!Published(w),
             Consumer!Arrives(worker[w].event) \/ UNCHANGED consumerVars
      PROVE  TypeInv'
  <2>1. worker[w].event \in Messages
    BY <1>1, <1>6 DEF Publisher!Published, Publisher!TypeOK, Publisher!Idle, Publisher!Stopped
  <2>2. SlotInv'
    <3>1. CASE UNCHANGED consumerVars
      BY <1>1, <1>6, <3>1 DEF SlotInv, Consumer!TypeOK, consumerVars, brokerVars
    <3> QED  BY <3>1, <1>6, <2>1, ServerTypes
  <2>3. sub' = sub
    BY <1>6 DEF Consumer!Arrives, consumerVars
  <2> QED  BY <1>1, <1>6, <2>2, <2>3, WorkerTypes, LinkStays DEF TypeInv
<1>7. CASE Publishes /\ UNCHANGED <<brokerVars, consumerVars>>
  <2>1. SlotInv' /\ sub' = sub
    BY <1>1, <1>7 DEF SlotInv, Consumer!TypeOK, consumerVars, brokerVars
  <2>2. Publisher!TypeOK'
    BY <1>1, <1>7, WorkerTypes, ClientTypes DEF Publishes
  <2> QED  BY <1>1, <1>7, <2>1, <2>2, LinkStays DEF TypeInv
<1>8. CASE UNCHANGED vars
  <2>1. SlotInv' /\ sub' = sub /\ UNCHANGED <<brokerVars, publisherVars>>
    BY <1>1, <1>8 DEF vars, SlotInv, Consumer!TypeOK, consumerVars, brokerVars
  <2> QED  BY <1>1, <1>2, <2>1, LinkStays DEF TypeInv
<1> QED  BY <1>3, <1>4, <1>5, <1>6, <1>7, <1>8, Steps

\* The variables of the broker, the publisher and the consumer always have their
\* types, whatever breaks, crashes or is closed.
THEOREM BusTypes == Spec => []TypeOK
<1>1. TypeInv => TypeOK
  BY SameBroker DEF TypeInv, LinkInv, Proved!Inv, SlotInv, TypeOK
<1> QED  BY <1>1, TypeInit, TypeStep, PTL DEF Spec

\* In a process that can be killed at any point, Close still leaves no connection
\* open.
THEOREM BusLeavesNothingOpen == Spec => []Broker!NoConnectionLeft
<1>1. TypeInv => Broker!NoConnectionLeft
  BY DEF TypeInv, LinkInv, Proved!Inv, Proved!NoNewDial, Proved!OpenOnes, Proved!LockHeld,
     Proved!LossInv, Proved!TypeOK, Proved!LoopState, Broker!NoConnectionLeft
<1> QED  BY <1>1, TypeInit, TypeStep, PTL DEF Spec

LEMMA SeenByTheBus == TypeInv /\ [Next]_vars => [Broker!Link!Next]_(Broker!Seen)
<1> SUFFICES ASSUME TypeInv, [Next]_vars PROVE [Broker!Link!Next]_(Broker!Seen)
  OBVIOUS
<1>1. CASE BrokerStep
  <2>1. [Proved!Link!Next]_(Proved!Seen)
    BY <1>1, BusAssumption, SameBroker, Proved!SeenMoves DEF BrokerStep, TypeInv, LinkInv
  <2> QED  BY <2>1 DEF Broker!Seen, Proved!Seen, Broker!Link!Next, Proved!Link!Next,
             Broker!Link!Breaks, Proved!Link!Breaks, Broker!Link!Noticed, Proved!Link!Noticed,
             Broker!Link!Returns, Proved!Link!Returns, Broker!Link!Closes, Proved!Link!Closes
<1>2. CASE Crash
  BY <1>2 DEF Crash, Broker!Seen, Broker!Link!Next, Broker!Link!Closes
<1>3. CASE UNCHANGED brokerVars
  BY <1>3 DEF brokerVars, Broker!Seen
<1> QED  BY <1>1, <1>2, <1>3 DEF Next, ConsumerStep, ConsumerRuns, Undisturbed, PublisherStep,
         WorkerStep, Elsewhere, vars

\* To the publisher's workers and the retries, too, the broker is a BrokerLink.
THEOREM BusImplementsLink == Spec => Broker!ImplementsLink
<1>1. Init => Broker!Link!Init
  BY DEF Init, Broker!Init, Broker!Link!Init, Broker!Seen
<1> QED  BY <1>1, TypeInit, TypeStep, SeenByTheBus, PTL DEF Spec, Broker!ImplementsLink, Broker!Link!Spec

-----------------------------------------------------------------------------
(* What the steps do, message by message and slot by slot                  *)

\* The stages of two deliveries in a row.
From(s, a, b) == slot[s].stage = a /\ slot'[s].stage = b

More(m, x) ==
    /\ outcome'[m] = outcome[m] \cup {x}
    /\ \A n \in Messages : n # m => outcome'[n] = outcome[n]

OneMore(m, r) ==
    \A n \in Messages, q \in Retries :
        ready'[n][q] = IF n = m /\ q = r THEN ready[n][q] + 1 ELSE ready[n][q]

OneLess(m, r) ==
    \A n \in Messages, q \in Retries :
        ready'[n][q] = IF n = m /\ q = r THEN ready[n][q] - 1 ELSE ready[n][q]

FailedOnce(m) ==
    /\ failures'[m] = (IF failures[m] <= MaxRetries THEN failures[m] + 1 ELSE failures[m])
    /\ \A n \in Messages : n # m => failures'[n] = failures[n]

HandledOnce(m) ==
    /\ handled'[m] = (IF handled[m] < 2 THEN handled[m] + 1 ELSE handled[m])
    /\ \A n \in Messages : n # m => handled'[n] = handled[n]

KeepsSlot(s) == slot'[s].msg = slot[s].msg /\ slot'[s].tries = slot[s].tries

Others(s) == \A t \in Slots : t # s => slot'[t] = slot[t]

LEMMA CountTypes ==
    ASSUME SlotInv
    PROVE  /\ ready \in [Messages -> [Retries -> Nat]] /\ handled \in [Messages -> 0..2]
           /\ failures \in [Messages -> 0..(MaxRetries + 1)]
           /\ outcome \in [Messages -> Outcomes]
           /\ unacked \in SUBSET Slots /\ redelivered \in SUBSET Messages
  BY DEF SlotInv, Consumer!TypeOK, Consumer!Retries, Retries, Outcomes

LEMMA HandlesWhat ==
    ASSUME TypeInv, NEW s \in Slots, Handles(s)
    PROVE  /\ UNCHANGED <<ready, unacked, redelivered>>
           /\ Taken(s) /\ KeepsSlot(s) /\ Others(s)
           /\ LET m == slot[s].msg IN
              \/ /\ UNCHANGED <<failures, handled, outcome>>
                 /\ \/ From(s, "buffered", "handling") \/ From(s, "exhausted", "refused")
                    \/ From(s, "waiting", "due") \/ (From(s, "waiting", "rejecting") /\ closed)
                    \/ From(s, "due", "retrying") \/ From(s, "retrying", "failed")
                    \/ From(s, "due", "rejecting") /\ state = "closing"
              \/ /\ UNCHANGED <<failures, handled>>
                 /\ \/ From(s, "handling", "finished") /\ More(m, "discarded") /\ m \in Unhandled
                    \/ From(s, "exhausted", "finished") /\ More(m, "given up")
              \/ /\ UNCHANGED <<failures, outcome>> /\ m \notin Unhandled
                 /\ From(s, "handling", "finished") /\ HandledOnce(m)
              \/ /\ UNCHANGED <<handled, outcome>> /\ m \notin Unhandled /\ FailedOnce(m)
                 /\ \/ From(s, "handling", "exhausted") /\ slot[s].tries >= MaxRetries
                    \/ From(s, "handling", "waiting") /\ slot[s].tries < MaxRetries
<1> USE BusAssumption
<1>1. SlotInv
  BY DEF TypeInv
<1>2. Taken(s)
  BY DEF Handles, Taken, Consumer!Take, Consumer!Discard, Consumer!HandlerSucceeds,
     Consumer!HandlerFails, Consumer!DeadLetter, Consumer!DeadLetterFails,
     Consumer!TimerFires, Consumer!RetryCancelled, Consumer!LookAtState, Consumer!RepublishFails
<1>3. slot[s].msg \in Messages /\ slot[s].tries \in Retries
  BY <1>1, <1>2, InSlot
<1>4. ASSUME NEW st \in Consumer!Stages, Consumer!Move(s, st)
      PROVE  slot'[s].stage = st /\ KeepsSlot(s) /\ Others(s)
  BY <1>1, <1>2, <1>4, Moves DEF KeepsSlot, Others
<1>5. CASE Consumer!Take(s) \/ Consumer!DeadLetterFails(s) \/ Consumer!TimerFires(s)
           \/ Consumer!RetryCancelled(s) \/ Consumer!LookAtState(s) \/ Consumer!RepublishFails(s)
  <2>1. UNCHANGED <<ready, unacked, failures, handled, outcome, redelivered>>
    BY <1>5 DEF Consumer!Take, Consumer!DeadLetterFails, Consumer!TimerFires,
       Consumer!RetryCancelled, Consumer!LookAtState, Consumer!RepublishFails, Consumer!history
  <2>2. PICK st \in Consumer!Stages :
           /\ Consumer!Move(s, st)
           /\ \/ slot[s].stage = "buffered" /\ st = "handling"
              \/ slot[s].stage = "exhausted" /\ st = "refused"
              \/ slot[s].stage = "waiting" /\ st = "due"
              \/ slot[s].stage = "waiting" /\ st = "rejecting" /\ closed
              \/ slot[s].stage = "due" /\ st = "retrying"
              \/ slot[s].stage = "due" /\ st = "rejecting" /\ state = "closing"
              \/ slot[s].stage = "retrying" /\ st = "failed"
    BY <1>5 DEF Consumer!Take, Consumer!DeadLetterFails, Consumer!TimerFires, Consumer!Stages,
       Consumer!RetryCancelled, Consumer!LookAtState, Consumer!RepublishFails,
       Consumer!AfterTimer, Consumer!AfterPublishError
  <2> QED  BY <1>2, <1>4, <2>1, <2>2 DEF From
<1>6. CASE Consumer!Discard(s) \/ Consumer!DeadLetter(s)
  <2>1. UNCHANGED <<ready, unacked, failures, handled, redelivered>>
    BY <1>6 DEF Consumer!Discard, Consumer!DeadLetter
  <2>2. PICK x \in {"discarded", "given up"} :
           /\ outcome' = [outcome EXCEPT ![slot[s].msg] = @ \cup {x}]
           /\ x = "discarded" => slot[s].stage = "handling" /\ slot[s].msg \in Unhandled
           /\ x = "given up" => slot[s].stage = "exhausted"
    BY <1>6 DEF Consumer!Discard, Consumer!DeadLetter
  <2>3. More(slot[s].msg, x)
    <3>1. outcome \in [Messages -> Outcomes]
      BY <1>1, CountTypes
    <3> QED  BY <1>3, <2>2, <3>1 DEF More
  <2>4. Consumer!Move(s, "finished") /\ "finished" \in Consumer!Stages
    BY <1>6 DEF Consumer!Discard, Consumer!DeadLetter, Consumer!Stages
  <2> QED  BY <1>2, <1>4, <2>1, <2>2, <2>3, <2>4 DEF From
<1>7. CASE Consumer!HandlerSucceeds(s)
  <2>1. /\ UNCHANGED <<ready, unacked, failures, outcome, redelivered>>
        /\ handled' = [handled EXCEPT ![slot[s].msg] = IF @ < 2 THEN @ + 1 ELSE @]
        /\ Consumer!Move(s, "finished") /\ "finished" \in Consumer!Stages
        /\ slot[s].stage = "handling" /\ slot[s].msg \notin Unhandled
    BY <1>7 DEF Consumer!HandlerSucceeds, Consumer!Stages
  <2>2. HandledOnce(slot[s].msg)
    BY <1>1, <1>3, <2>1, CountTypes, HandledMore DEF HandledOnce
  <2> QED  BY <1>2, <1>4, <2>1, <2>2 DEF From
<1>8. CASE Consumer!HandlerFails(s)
  <2>1. /\ UNCHANGED <<ready, unacked, handled, outcome, redelivered>>
        /\ failures' = [failures EXCEPT ![slot[s].msg] = IF @ <= MaxRetries THEN @ + 1 ELSE @]
        /\ slot[s].stage = "handling" /\ slot[s].msg \notin Unhandled
        /\ Consumer!Move(s, IF slot[s].tries >= MaxRetries THEN "exhausted" ELSE "waiting")
    BY <1>8 DEF Consumer!HandlerFails, Consumer!Exhausted
  <2>2. FailedOnce(slot[s].msg)
    BY <1>1, <1>3, <2>1, CountTypes DEF FailedOnce
  <2>3. {"exhausted", "waiting"} \subseteq Consumer!Stages
    BY DEF Consumer!Stages
  <2>4. CASE slot[s].tries >= MaxRetries
    BY <1>2, <1>4, <2>1, <2>2, <2>3, <2>4 DEF From
  <2>5. CASE slot[s].tries < MaxRetries
    <3>1. Consumer!Move(s, "waiting")
      BY <1>3, <2>1, <2>5 DEF Retries
    <3> QED  BY <1>2, <1>4, <2>1, <2>2, <2>3, <2>5, <3>1 DEF From
  <2>6. slot[s].tries >= MaxRetries \/ slot[s].tries < MaxRetries
    BY <1>3 DEF Retries
  <2> QED  BY <2>4, <2>5, <2>6
<1> QED  BY <1>5, <1>6, <1>7, <1>8 DEF Handles

LEMMA EndsWhat ==
    ASSUME TypeInv, NEW s \in Slots, Ends(s)
    PROVE  /\ UNCHANGED <<failures, handled, redelivered>> /\ Taken(s) /\ Others(s)
           /\ LET m == slot[s].msg
                  r == slot[s].tries
              IN
              \/ /\ slot'[s].stage = "free" /\ unacked' = unacked \ {s}
                 /\ \/ /\ slot[s].stage \in {"finished", "retried"}
                       /\ UNCHANGED <<ready, outcome>>
                    \/ /\ slot[s].stage \in {"refused", "rejecting"} /\ UNCHANGED ready
                       /\ IF s \in unacked THEN More(m, "lost") ELSE UNCHANGED outcome
                    \/ /\ slot[s].stage = "failed" /\ UNCHANGED outcome
                       /\ IF s \in unacked THEN OneMore(m, r) ELSE UNCHANGED ready
              \/ /\ KeepsSlot(s) /\ UNCHANGED <<unacked, outcome>>
                 /\ \/ From(s, "failed", "rejecting") /\ state # "connected" /\ UNCHANGED ready
                    \/ /\ From(s, "retrying", "retried")
                       /\ IF conn \in open THEN OneMore(m, r + 1) ELSE UNCHANGED ready
<1> USE BusAssumption
<1>1. SlotInv
  BY DEF TypeInv
<1>2. Taken(s)
  BY DEF Ends, Taken, Consumer!Ack, Consumer!Reject, Consumer!AfterFailure, Consumer!Republish
<1>3. slot[s].msg \in Messages /\ slot[s].tries \in Retries
  BY <1>1, <1>2, InSlot
<1>4. ASSUME NEW st \in Consumer!Stages, Consumer!Move(s, st)
      PROVE  slot'[s].stage = st /\ KeepsSlot(s) /\ Others(s)
  BY <1>1, <1>2, <1>4, Moves DEF KeepsSlot, Others
<1>5. Consumer!Release(s) => slot'[s].stage = "free" /\ Others(s)
  BY <1>1, Releases DEF Others
<1>6. {"rejecting", "retried"} \subseteq Consumer!Stages
  BY DEF Consumer!Stages
<1>7. CASE Consumer!Ack(s)
  BY <1>2, <1>5, <1>7 DEF Consumer!Ack, Consumer!history
<1>8. CASE Consumer!Reject(s)
  <2>1. /\ UNCHANGED <<ready, failures, handled, redelivered>>
        /\ slot[s].stage \in {"refused", "rejecting"}
        /\ Consumer!Release(s) /\ unacked' = unacked \ {s}
        /\ outcome' = IF s \in unacked
                      THEN [outcome EXCEPT ![slot[s].msg] = @ \cup {"lost"}] ELSE outcome
    BY <1>8 DEF Consumer!Reject
  <2>2. s \in unacked => More(slot[s].msg, "lost")
    <3>1. outcome \in [Messages -> Outcomes]
      BY <1>1, CountTypes
    <3> QED  BY <1>3, <2>1, <3>1 DEF More
  <2> QED  BY <1>2, <1>5, <2>1, <2>2
<1>9. CASE Consumer!AfterFailure(s)
  <2>1. UNCHANGED <<failures, handled, outcome, redelivered>> /\ slot[s].stage = "failed"
    BY <1>9 DEF Consumer!AfterFailure, Consumer!history
  <2>2. CASE Consumer!Requeue(s)
    <3>1. /\ Consumer!Release(s) /\ unacked' = unacked \ {s}
          /\ ready' = IF s \in unacked
                      THEN [ready EXCEPT ![slot[s].msg][slot[s].tries] = @ + 1] ELSE ready
      BY <2>2 DEF Consumer!Requeue
    <3>2. s \in unacked => OneMore(slot[s].msg, slot[s].tries)
      BY <1>1, <1>3, <3>1, CountTypes, ReadyMore DEF OneMore
    <3> QED  BY <1>2, <1>5, <2>1, <3>1, <3>2
  <2>3. CASE state # "connected" /\ Consumer!Move(s, "rejecting") /\ UNCHANGED <<ready, unacked>>
    BY <1>2, <1>4, <1>6, <2>1, <2>3 DEF From
  <2> QED  BY <1>9, <2>2, <2>3 DEF Consumer!AfterFailure
<1>10. CASE Consumer!Republish(s)
  <2>1. /\ UNCHANGED <<unacked, failures, handled, outcome, redelivered>>
        /\ slot[s].stage = "retrying" /\ Consumer!Move(s, "retried")
        /\ ready' = IF conn \in open
                    THEN [ready EXCEPT ![slot[s].msg][slot[s].tries + 1] = @ + 1] ELSE ready
    BY <1>10 DEF Consumer!Republish, Consumer!history, Consumer!AfterCopy
  <2>2. slot[s].tries + 1 \in Retries
    BY <1>1, <1>3, <2>1 DEF SlotInv, Trying, Retries
  <2>3. conn \in open => OneMore(slot[s].msg, slot[s].tries + 1)
    BY <1>1, <1>3, <2>1, <2>2, CountTypes, ReadyMore DEF OneMore
  <2> QED  BY <1>2, <1>4, <1>6, <2>1, <2>3 DEF From
<1> QED  BY <1>7, <1>8, <1>9, <1>10 DEF Ends

-----------------------------------------------------------------------------
(* Dead letters                                                            *)

\* A copy has as many failures behind it as its header says, a delivery that is
\* being retried one more, and one that is given up one more than MaxRetries.
FailInv ==
    /\ \A s \in Slots : Taken(s) =>
          /\ failures[slot[s].msg] >= slot[s].tries
          /\ slot[s].stage \in Trying => failures[slot[s].msg] > slot[s].tries
          /\ slot[s].stage \in {"exhausted", "refused"} => failures[slot[s].msg] > MaxRetries
    /\ \A m \in Messages, r \in Retries : ready[m][r] > 0 => failures[m] >= r
    /\ GivenUpAfterRetries

LEMMA FailInit == Init => FailInv
<1> SUFFICES ASSUME Init PROVE FailInv
  OBVIOUS
<1>1. /\ slot = [s \in Slots |-> Consumer!Free]
      /\ failures = [m \in Messages |-> 0]
      /\ ready = [m \in Messages |-> [r \in Retries |->
                    IF bound /\ m \in Queued /\ r = 0 THEN 1 ELSE 0]]
      /\ outcome = [m \in Messages |-> IF bound /\ m \in Queued THEN {"arrived"} ELSE {}]
  BY DEF Init, Consumer!Init, Consumer!Retries, Retries
<1> QED  BY <1>1, BusAssumption DEF FailInv, Taken, Consumer!Free, Retries, GivenUpAfterRetries

LEMMA FailStep == TypeInv /\ FailInv /\ [Next]_vars => FailInv'
<1> SUFFICES ASSUME TypeInv, FailInv, [Next]_vars PROVE FailInv'
  OBVIOUS
<1> USE BusAssumption
<1>1. /\ SlotInv /\ failures \in [Messages -> 0..(MaxRetries + 1)]
      /\ ready \in [Messages -> [Retries -> Nat]]
  BY CountTypes DEF TypeInv
<1>2. \A s \in Slots : Taken(s) => slot[s].msg \in Messages /\ slot[s].tries \in Retries
  BY <1>1, InSlot
<1>3. CASE Consumer!Follow \/ Consumer!Killed
  <2>1. /\ UNCHANGED <<failures, outcome>>
        /\ \A s \in Slots : slot'[s] = slot[s] \/ slot'[s] = Consumer!Free
    BY <1>3 DEF Consumer!Follow, Consumer!Killed
  <2>2. ASSUME NEW m \in Messages, NEW r \in Retries, ready'[m][r] > 0
        PROVE  failures[m] >= r
    <3>1. CASE UNCHANGED ready
      BY <2>2, <3>1 DEF FailInv
    <3>2. CASE Consumer!Requeued
      <4>1. ready[m][r] > 0 \/ Back(m, r) # {}
        BY <1>1, <2>2, <3>2, RequeuedReady
      <4>2. CASE Back(m, r) # {}
        <5>1. PICK s \in unacked : slot[s].msg = m /\ slot[s].tries = r
          BY <4>2 DEF Back
        <5>2. s \in Slots /\ Taken(s)
          BY <1>1, CountTypes DEF SlotInv, Taken
        <5> QED  BY <5>1, <5>2 DEF FailInv
      <4> QED  BY <4>1, <4>2 DEF FailInv
    <3> QED  BY <1>3, <3>1, <3>2 DEF Consumer!Follow, Consumer!Killed
  <2>3. \A s \in Slots : slot'[s].stage # "free" => slot'[s] = slot[s]
    BY <2>1 DEF Consumer!Free
  <2> QED  BY <2>1, <2>2, <2>3 DEF FailInv, Taken, GivenUpAfterRetries
<1>4. CASE UNCHANGED consumerVars
  BY <1>4 DEF FailInv, Taken, GivenUpAfterRetries, consumerVars
<1>5. ASSUME NEW s \in Slots, Handles(s) PROVE FailInv'
  <2>1. /\ Taken(s) /\ KeepsSlot(s) /\ Others(s) /\ UNCHANGED ready
    BY <1>5, HandlesWhat
  <2>2. slot[s].msg \in Messages /\ slot[s].tries \in Retries
    BY <1>2, <2>1
  <2>3. \A m \in Messages : failures'[m] >= failures[m] /\ failures'[m] \in Nat
    <3>1. UNCHANGED failures \/ FailedOnce(slot[s].msg)
      BY <1>5, HandlesWhat
    <3>2. ASSUME NEW m \in Messages
          PROVE  /\ failures[m] \in Nat
                 /\ \/ failures'[m] = failures[m] \/ failures'[m] = failures[m] + 1
      BY <1>1, <2>2, <3>1 DEF FailedOnce
    <3> QED  BY <3>2
  <2>4. ASSUME NEW t \in Slots, t # s, slot'[t].stage # "free"
        PROVE  /\ failures'[slot'[t].msg] >= slot'[t].tries
               /\ slot'[t].stage \in Trying => failures'[slot'[t].msg] > slot'[t].tries
               /\ slot'[t].stage \in {"exhausted", "refused"} =>
                     failures'[slot'[t].msg] > MaxRetries
    <3>1. slot'[t] = slot[t] /\ Taken(t)
      BY <2>1, <2>4 DEF Others, Taken
    <3>2. slot[t].msg \in Messages /\ slot[t].tries \in Retries
      BY <1>2, <3>1
    <3>3. /\ failures[slot[t].msg] >= slot[t].tries
          /\ slot[t].stage \in Trying => failures[slot[t].msg] > slot[t].tries
          /\ slot[t].stage \in {"exhausted", "refused"} => failures[slot[t].msg] > MaxRetries
      BY <3>1 DEF FailInv
    <3> QED  BY <1>1, <2>3, <3>1, <3>2, <3>3 DEF Retries
  <2>5. /\ failures'[slot[s].msg] >= slot[s].tries
        /\ slot'[s].stage \in Trying => failures'[slot[s].msg] > slot[s].tries
        /\ slot'[s].stage \in {"exhausted", "refused"} => failures'[slot[s].msg] > MaxRetries
    <3>1. /\ failures[slot[s].msg] >= slot[s].tries
          /\ slot[s].stage \in Trying => failures[slot[s].msg] > slot[s].tries
          /\ slot[s].stage \in {"exhausted", "refused"} => failures[slot[s].msg] > MaxRetries
      BY <2>1 DEF FailInv
    <3>2. failures[slot[s].msg] \in Nat /\ failures'[slot[s].msg] \in Nat
          /\ failures'[slot[s].msg] >= failures[slot[s].msg]
      BY <1>1, <2>2, <2>3
    <3>3. \/ slot[s].stage \in Trying
          \/ slot'[s].stage \notin Trying
          \/ slot'[s].stage = "waiting" /\ FailedOnce(slot[s].msg) /\ slot[s].tries < MaxRetries
      BY <1>5, HandlesWhat DEF From, Trying
    <3>4. \/ slot[s].stage = "exhausted"
          \/ slot'[s].stage \notin {"exhausted", "refused"}
          \/ FailedOnce(slot[s].msg) /\ slot[s].tries >= MaxRetries
      BY <1>5, HandlesWhat DEF From
    <3>5. slot'[s].stage \in Trying => failures'[slot[s].msg] > slot[s].tries
      BY <2>2, <3>1, <3>2, <3>3 DEF FailedOnce, Retries
    <3>6. slot'[s].stage \in {"exhausted", "refused"} => failures'[slot[s].msg] > MaxRetries
      BY <2>2, <3>1, <3>2, <3>4 DEF FailedOnce, Retries
    <3> QED  BY <2>2, <3>1, <3>2, <3>5, <3>6 DEF Retries
  <2>6. \A m \in Messages, r \in Retries : ready'[m][r] > 0 => failures'[m] >= r
    BY <1>1, <2>1, <2>3 DEF FailInv, Retries
  <2>7. GivenUpAfterRetries'
    <3>1. ASSUME NEW m \in Messages, "given up" \in outcome'[m]
          PROVE  "given up" \in outcome[m] \/ (m = slot[s].msg /\ slot[s].stage = "exhausted")
      BY <1>5, <3>1, HandlesWhat DEF More, From
    <3>2. ASSUME NEW m \in Messages, "given up" \in outcome'[m] PROVE failures[m] > MaxRetries
      <4>1. CASE "given up" \in outcome[m]
        BY <4>1 DEF FailInv, GivenUpAfterRetries
      <4>2. CASE m = slot[s].msg /\ slot[s].stage = "exhausted"
        BY <2>1, <4>2 DEF FailInv
      <4> QED  BY <3>1, <3>2, <4>1, <4>2
    <3>3. ASSUME NEW m \in Messages, "given up" \in outcome'[m] PROVE failures'[m] > MaxRetries
      <4>1. failures[m] > MaxRetries
        BY <3>2, <3>3
      <4>2. failures[m] \in Nat /\ MaxRetries \in Nat
        BY <1>1
      <4>3. failures'[m] >= failures[m] /\ failures'[m] \in Nat
        BY <2>3
      <4> QED  BY <4>1, <4>2, <4>3
    <3> QED  BY <3>3 DEF GivenUpAfterRetries
  <2> QED  BY <2>1, <2>4, <2>5, <2>6, <2>7 DEF FailInv, Taken, KeepsSlot
<1>6. ASSUME NEW s \in Slots, Ends(s) PROVE FailInv'
  <2>1. Taken(s) /\ Others(s) /\ UNCHANGED failures
    BY <1>6, EndsWhat
  <2>2. slot[s].msg \in Messages /\ slot[s].tries \in Retries
    BY <1>2, <2>1
  <2>3. /\ failures[slot[s].msg] >= slot[s].tries
        /\ slot[s].stage \in Trying => failures[slot[s].msg] > slot[s].tries
    BY <2>1 DEF FailInv
  <2>4. \/ slot'[s].stage = "free"
        \/ KeepsSlot(s) /\ (From(s, "failed", "rejecting") \/ From(s, "retrying", "retried"))
    BY <1>6, EndsWhat
  <2>5. \A m \in Messages, r \in Retries : ready'[m][r] > 0 => failures[m] >= r
    <3>1. \/ UNCHANGED ready \/ OneMore(slot[s].msg, slot[s].tries)
          \/ OneMore(slot[s].msg, slot[s].tries + 1) /\ slot[s].stage \in Trying
      BY <1>6, EndsWhat DEF From, Trying
    <3>2. failures[slot[s].msg] \in Nat
      BY <1>1, <2>2
    <3>3. ASSUME NEW m \in Messages, NEW r \in Retries, ready'[m][r] > 0
          PROVE  \/ ready[m][r] > 0
                 \/ (m = slot[s].msg /\ r = slot[s].tries)
                 \/ (m = slot[s].msg /\ r = slot[s].tries + 1 /\ slot[s].stage \in Trying)
      <4>1. CASE UNCHANGED ready
        BY <3>3, <4>1
      <4>2. CASE OneMore(slot[s].msg, slot[s].tries)
        BY <3>3, <4>2 DEF OneMore
      <4>3. CASE OneMore(slot[s].msg, slot[s].tries + 1) /\ slot[s].stage \in Trying
        BY <3>3, <4>3 DEF OneMore
      <4> QED  BY <3>1, <4>1, <4>2, <4>3
    <3>4. ASSUME NEW m \in Messages, NEW r \in Retries, ready[m][r] > 0
          PROVE  failures[m] >= r
      BY <3>4 DEF FailInv
    <3> QED  BY <2>2, <2>3, <3>2, <3>3, <3>4 DEF Retries
  <2>6. GivenUpAfterRetries'
    <3>1. UNCHANGED outcome \/ More(slot[s].msg, "lost")
      BY <1>6, EndsWhat
    <3>2. ASSUME NEW m \in Messages, "given up" \in outcome'[m] PROVE "given up" \in outcome[m]
      <4>1. CASE UNCHANGED outcome
        BY <3>2, <4>1
      <4>2. CASE More(slot[s].msg, "lost")
        <5>1. outcome'[m] = outcome[m] \/ outcome'[m] = outcome[m] \cup {"lost"}
          BY <4>2 DEF More
        <5>2. CASE outcome'[m] = outcome[m] \cup {"lost"}
          <6>1. "given up" # "lost"
            OBVIOUS
          <6> QED  BY <3>2, <5>2, <6>1
        <5>3. CASE outcome'[m] = outcome[m]
          BY <3>2, <5>3
        <5> QED  BY <5>1, <5>2, <5>3
      <4> QED  BY <3>1, <4>1, <4>2
    <3> QED  BY <2>1, <3>2 DEF FailInv, GivenUpAfterRetries
  <2>7. \A t \in Slots : t # s => slot'[t] = slot[t]
    BY <2>1 DEF Others
  <2> QED  BY <2>1, <2>3, <2>4, <2>5, <2>6, <2>7 DEF FailInv, Taken, KeepsSlot, From, Trying
<1>7. ASSUME NEW s \in Slots, NEW m \in Messages, NEW r \in Retries, Consumer!Deliver(s, m, r)
      PROVE  FailInv'
  <2>1. /\ UNCHANGED <<failures, outcome>> /\ ready[m][r] > 0
        /\ ready' = [ready EXCEPT ![m][r] = @ - 1]
        /\ slot' = [slot EXCEPT ![s] = Consumer!Delivery("buffered", m, r)]
    BY <1>7 DEF Consumer!Deliver, Consumer!history
  <2>2. OneLess(m, r)
    BY <1>1, <2>1, ReadyLess DEF OneLess
  <2>3. /\ slot'[s].stage = "buffered" /\ slot'[s].msg = m /\ slot'[s].tries = r
        /\ \A t \in Slots : t # s => slot'[t] = slot[t]
    BY <1>1, <2>1, Delivers
  <2>4. failures[m] >= r
    BY <2>1 DEF FailInv
  <2>5. \A n \in Messages, q \in Retries : ready'[n][q] > 0 => ready[n][q] > 0
    BY <1>1, <2>2 DEF OneLess
  <2> QED  BY <2>1, <2>3, <2>4, <2>5 DEF FailInv, Taken, Trying, GivenUpAfterRetries
<1>8. ASSUME NEW m \in Messages, NEW r \in Retries, Consumer!HandledElsewhere(m, r)
      PROVE  FailInv'
  <2>1. /\ UNCHANGED <<slot, failures, outcome>> /\ ready[m][r] > 0
        /\ ready' = [ready EXCEPT ![m][r] = @ - 1]
    BY <1>8 DEF Consumer!HandledElsewhere
  <2>2. OneLess(m, r)
    BY <1>1, <2>1, ReadyLess DEF OneLess
  <2>3. \A n \in Messages, q \in Retries : ready'[n][q] > 0 => ready[n][q] > 0
    BY <1>1, <2>2 DEF OneLess
  <2> QED  BY <2>1, <2>3 DEF FailInv, Taken, GivenUpAfterRetries
<1>9. ASSUME NEW m \in Messages, Consumer!Arrives(m) PROVE FailInv'
  <2>1. /\ UNCHANGED <<slot, failures>>
        /\ \/ UNCHANGED <<ready, outcome>>
           \/ /\ ready' = [ready EXCEPT ![m][0] = @ + 1]
              /\ outcome' = [outcome EXCEPT ![m] = @ \cup {"arrived"}]
    BY <1>9 DEF Consumer!Arrives
  <2>2. 0 \in Retries
    BY DEF Retries
  <2>3. \A n \in Messages, q \in Retries : ready'[n][q] > 0 => ready[n][q] > 0 \/ q = 0
    <3>1. CASE ready' = [ready EXCEPT ![m][0] = @ + 1]
      BY <1>1, <2>2, <3>1, ReadyMore
    <3> QED  BY <2>1, <3>1
  <2>4. \A n \in Messages : "given up" \in outcome'[n] => "given up" \in outcome[n]
    <3>1. outcome \in [Messages -> Outcomes]
      BY <1>1, CountTypes
    <3>2. CASE outcome' = [outcome EXCEPT ![m] = @ \cup {"arrived"}]
      BY <3>1, <3>2
    <3> QED  BY <2>1, <3>2
  <2>5. \A n \in Messages, q \in Retries : ready'[n][q] > 0 => failures[n] >= q
    BY <1>1, <2>3 DEF FailInv
  <2> QED  BY <2>1, <2>4, <2>5 DEF FailInv, Taken, GivenUpAfterRetries
<1>10. CASE Consumer!Consume \/ Consumer!ProcessorStops
  <2>1. /\ UNCHANGED <<ready, failures, outcome>>
        /\ \A s \in Slots : slot'[s] = slot[s] \/ slot'[s] = Consumer!Free
    BY <1>10 DEF Consumer!Consume, Consumer!ProcessorStops, Consumer!history
  <2>2. \A s \in Slots : slot'[s].stage # "free" => slot'[s] = slot[s]
    BY <2>1 DEF Consumer!Free
  <2> QED  BY <2>1, <2>2 DEF FailInv, Taken, GivenUpAfterRetries
<1>11. ASSUME NEW w \in Workers, Publisher!Published(w) PROVE worker[w].event \in Messages
  BY <1>11 DEF TypeInv, Publisher!Published, Publisher!TypeOK, Publisher!Idle, Publisher!Stopped
<1>12. Crash => Consumer!Killed
  BY DEF Crash
<1>13. UNCHANGED vars => UNCHANGED consumerVars
  BY DEF vars
<1> QED
  BY <1>3, <1>4, <1>5, <1>6, <1>7, <1>8, <1>9, <1>10, <1>11, <1>12, <1>13, Steps

\* A dead letter has had every retry it may have, whichever copies of it were
\* requeued, published twice or handled elsewhere.
THEOREM DeadLettersWereRetried == Spec => []GivenUpAfterRetries
<1>1. FailInv => GivenUpAfterRetries
  BY DEF FailInv
<1> QED  BY <1>1, TypeInit, TypeStep, FailInit, FailStep, PTL DEF Spec

-----------------------------------------------------------------------------
(* What the steps of the server and of others do                           *)

\* The deliveries of a channel that is gone are back in the queue.
LEMMA FollowWhat ==
    ASSUME TypeInv, Consumer!Follow \/ Consumer!Killed
    PROVE  /\ UNCHANGED <<failures, handled, outcome>>
           /\ unacked' \subseteq unacked /\ \A s \in unacked' : slot'[s] = slot[s]
           /\ \A m \in Messages, r \in Retries : ready[m][r] > 0 => ready'[m][r] > 0
           /\ \A s \in unacked : s \in unacked' \/ ready'[slot[s].msg][slot[s].tries] > 0
<1>1. SlotInv
  BY DEF TypeInv
<1>2. UNCHANGED <<failures, handled, outcome>>
  BY DEF Consumer!Follow, Consumer!Killed
<1>3. CASE Consumer!Requeued
  <2>1. unacked' = {}
    BY <1>3 DEF Consumer!Requeued
  <2>2. \A m \in Messages, r \in Retries :
           ready[m][r] > 0 \/ Back(m, r) # {} => ready'[m][r] > 0
    BY <1>1, <1>3, RequeuedReady
  <2>3. ASSUME NEW s \in unacked PROVE ready'[slot[s].msg][slot[s].tries] > 0
    <3>1. s \in Slots /\ Taken(s)
      BY <1>1, CountTypes DEF SlotInv, Taken
    <3>2. slot[s].msg \in Messages /\ slot[s].tries \in Retries
      BY <1>1, <3>1, InSlot
    <3>3. s \in Back(slot[s].msg, slot[s].tries)
      BY DEF Back
    <3> QED  BY <2>2, <3>2, <3>3
  <2> QED  BY <1>2, <2>1, <2>2, <2>3
<1>4. CASE UNCHANGED <<ready, unacked>> /\ (slot' = slot \/ sub \notin open)
  BY <1>1, <1>2, <1>4 DEF SlotInv
<1> QED  BY <1>3, <1>4 DEF Consumer!Follow, Consumer!Killed, Consumer!Live

\* A subscription begins or ends: what is unacknowledged stays as it is.
LEMMA SubscriptionWhat ==
    ASSUME TypeInv, Consumer!Consume \/ Consumer!ProcessorStops
    PROVE  /\ UNCHANGED <<ready, unacked, failures, handled, outcome, redelivered>>
           /\ \A s \in unacked : slot'[s] = slot[s]
<1>1. SlotInv /\ unacked \in SUBSET Slots
  BY CountTypes DEF TypeInv
<1>2. CASE Consumer!Consume
  BY <1>2 DEF Consumer!Consume, Consumer!history
<1>3. CASE Consumer!ProcessorStops
  BY <1>1, <1>3 DEF Consumer!ProcessorStops, Consumer!history, Consumer!Live, SlotInv
<1> QED  BY <1>2, <1>3

LEMMA DeliverWhat ==
    ASSUME TypeInv, NEW s \in Slots, NEW m \in Messages, NEW r \in Retries,
           Consumer!Deliver(s, m, r)
    PROVE  /\ UNCHANGED <<failures, handled, outcome, redelivered>>
           /\ ready[m][r] > 0 /\ OneLess(m, r)
           /\ unacked' = unacked \cup {s} /\ s \notin unacked /\ ~Taken(s) /\ Others(s)
           /\ slot'[s].stage = "buffered" /\ slot'[s].msg = m /\ slot'[s].tries = r
<1>1. SlotInv
  BY DEF TypeInv
<1>2. /\ UNCHANGED <<failures, handled, outcome, redelivered>> /\ ready[m][r] > 0
      /\ ready' = [ready EXCEPT ![m][r] = @ - 1] /\ unacked' = unacked \cup {s}
      /\ slot' = [slot EXCEPT ![s] = Consumer!Delivery("buffered", m, r)]
      /\ slot[s] = Consumer!Free
  BY DEF Consumer!Deliver, Consumer!history
<1>3. OneLess(m, r)
  BY <1>1, <1>2, CountTypes, ReadyLess DEF OneLess
<1>4. /\ slot'[s].stage = "buffered" /\ slot'[s].msg = m /\ slot'[s].tries = r
      /\ \A t \in Slots : t # s => slot'[t] = slot[t]
  BY <1>1, <1>2, Delivers
<1>5. ~Taken(s) /\ s \notin unacked
  BY <1>1, <1>2 DEF Taken, Consumer!Free, SlotInv
<1> QED  BY <1>2, <1>3, <1>4, <1>5 DEF Others

LEMMA ElsewhereWhat ==
    ASSUME TypeInv, NEW m \in Messages, NEW r \in Retries, Consumer!HandledElsewhere(m, r)
    PROVE  /\ UNCHANGED <<slot, unacked, failures, outcome, redelivered>>
           /\ ready[m][r] > 0 /\ OneLess(m, r) /\ HandledOnce(m) /\ m \notin Unhandled
<1>1. SlotInv
  BY DEF TypeInv
<1>2. /\ UNCHANGED <<slot, unacked, failures, outcome, redelivered>> /\ ready[m][r] > 0
      /\ m \notin Unhandled
      /\ ready' = [ready EXCEPT ![m][r] = @ - 1]
      /\ handled' = [handled EXCEPT ![m] = IF @ < 2 THEN @ + 1 ELSE @]
  BY DEF Consumer!HandledElsewhere
<1>3. OneLess(m, r)
  BY <1>1, <1>2, CountTypes, ReadyLess DEF OneLess
<1>4. HandledOnce(m)
  BY <1>1, <1>2, CountTypes, HandledMore DEF HandledOnce
<1> QED  BY <1>2, <1>3, <1>4

LEMMA ArrivesWhat ==
    ASSUME TypeInv, NEW m \in Messages, Consumer!Arrives(m)
    PROVE  /\ UNCHANGED <<slot, unacked, failures, handled, redelivered>>
           /\ \/ UNCHANGED <<ready, outcome>>
              \/ OneMore(m, 0) /\ More(m, "arrived")
<1>1. SlotInv /\ 0 \in Retries
  BY BusAssumption DEF TypeInv, Retries
<1>2. /\ UNCHANGED <<slot, unacked, failures, handled, redelivered>>
      /\ \/ UNCHANGED <<ready, outcome>>
         \/ /\ ready' = [ready EXCEPT ![m][0] = @ + 1]
            /\ outcome' = [outcome EXCEPT ![m] = @ \cup {"arrived"}]
  BY DEF Consumer!Arrives
<1>3. CASE UNCHANGED <<ready, outcome>>
  BY <1>2, <1>3
<1>4. CASE /\ ready' = [ready EXCEPT ![m][0] = @ + 1]
           /\ outcome' = [outcome EXCEPT ![m] = @ \cup {"arrived"}]
  <2>1. OneMore(m, 0)
    BY <1>1, <1>4, CountTypes, ReadyMore DEF OneMore
  <2>2. outcome \in [Messages -> Outcomes]
    BY <1>1, CountTypes
  <2>3. More(m, "arrived")
    BY <1>4, <2>2 DEF More
  <2> QED  BY <1>2, <2>1, <2>3
<1> QED  BY <1>2, <1>3, <1>4

\* A worker's event is a message.
LEMMA PublishedWhat ==
    ASSUME TypeInv, NEW w \in Workers, Publisher!Published(w)
    PROVE  worker[w].event \in Messages
  BY DEF TypeInv, Publisher!Published, Publisher!TypeOK, Publisher!Idle, Publisher!Stopped

-----------------------------------------------------------------------------
(* Losses                                                                  *)

LEMMA CloserStays ==
    ASSUME [Next]_vars, closer # "none" PROVE closer' # "none"
<1>1. CASE Broker!Next
  BY <1>1 DEF Broker!Next, Broker!ConnectionBreaks, Broker!ReaderBlocks, Broker!Panic,
     Broker!LoopStep, Broker!MarkClosing, Broker!CloserStep, Broker!Signal, Broker!Drained,
     Broker!LockForClose, Broker!CloseConnection, Broker!Notified, Broker!StopWaiting, Broker!LookAtState,
     Broker!MarkDisconnected, Broker!StopDelaying, Broker!DelayOver, Broker!LockForConnect,
     Broker!MarkConnecting, Broker!DialFails, Broker!DialOK, Broker!Replace, Broker!Settle
<1>2. CASE Crash \/ UNCHANGED brokerVars \/ UNCHANGED vars
  BY <1>2 DEF Crash, brokerVars, vars
<1> QED  BY <1>1, <1>2, Steps

\* Close has been called before the server would hear of a rejection that is not
\* the end of the retries.
LostInv ==
    /\ \A s \in unacked : slot[s].stage = "rejecting" => closer # "none"
    /\ LostOnlyAtClose

LEMMA LostInit == Init => LostInv
<1> SUFFICES ASSUME Init PROVE LostInv
  OBVIOUS
<1>1. /\ unacked = {}
      /\ outcome = [m \in Messages |-> IF bound /\ m \in Queued THEN {"arrived"} ELSE {}]
  BY DEF Init, Consumer!Init
<1> QED  BY <1>1 DEF LostInv, LostOnlyAtClose


\* What a step may do to the rejections that are due, to those that have happened,
\* and to the counts of failures.
RejectsInClose ==
    \A s \in unacked' : slot'[s].stage = "rejecting" =>
        (s \in unacked /\ slot'[s] = slot[s]) \/ closer' # "none"

LosesInClose ==
    \A m \in Messages : "lost" \in outcome'[m] =>
        "lost" \in outcome[m] \/ closer' # "none" \/ failures[m] > MaxRetries

FailuresGrow == \A m \in Messages : failures'[m] = failures[m] \/ FailedOnce(m)

LEMMA LostKept ==
    ASSUME TypeInv, LostInv, [Next]_vars, RejectsInClose, LosesInClose, FailuresGrow
    PROVE  LostInv'
<1> USE BusAssumption
<1>1. closer # "none" => closer' # "none"
  BY CloserStays
<1>2. failures \in [Messages -> 0..(MaxRetries + 1)]
  BY CountTypes DEF TypeInv
<1>3. ASSUME NEW m \in Messages, failures[m] > MaxRetries PROVE failures'[m] > MaxRetries
  BY <1>2, <1>3 DEF FailuresGrow, FailedOnce
<1>4. LostOnlyAtClose'
  BY <1>1, <1>3 DEF LostInv, LostOnlyAtClose, LosesInClose
<1>5. \A s \in unacked' : slot'[s].stage = "rejecting" => closer' # "none"
  BY <1>1 DEF LostInv, RejectsInClose
<1> QED  BY <1>4, <1>5 DEF LostInv

LEMMA LostStep == TypeInv /\ FailInv /\ LostInv /\ [Next]_vars => LostInv'
<1> SUFFICES ASSUME TypeInv, FailInv, LostInv, [Next]_vars
             PROVE  RejectsInClose /\ LosesInClose /\ FailuresGrow
  BY LostKept
<1> USE BusAssumption DEF RejectsInClose, LosesInClose, FailuresGrow
<1>1. SlotInv /\ LinkInv /\ SubInv /\ unacked \in SUBSET Slots
  BY CountTypes DEF TypeInv
<1>2. closer # "none" => closer' # "none"
  BY CloserStays
<1>3. CASE Consumer!Follow \/ Consumer!Killed
  BY <1>3, FollowWhat
<1>4. CASE UNCHANGED consumerVars
  BY <1>4 DEF consumerVars
<1>5. ASSUME NEW s \in Slots, Handles(s), UNCHANGED brokerVars
      PROVE  RejectsInClose /\ LosesInClose /\ FailuresGrow
  <2>1. Others(s) /\ UNCHANGED unacked
    BY <1>5, HandlesWhat
  <2>2. slot'[s].stage = "rejecting" => closed \/ state = "closing"
    BY <1>5, HandlesWhat DEF From
  <2>3. slot'[s].stage = "rejecting" => closer' # "none"
    BY <1>1, <1>2, <2>2 DEF LinkInv, Proved!Inv, Proved!OnlyClose
  <2>4. RejectsInClose
    BY <1>1, <2>1, <2>3 DEF Others
  <2>5. UNCHANGED outcome \/ \E x \in {"discarded", "given up"} : More(slot[s].msg, x)
    BY <1>5, HandlesWhat
  <2>6. ASSUME NEW m \in Messages, "lost" \in outcome'[m] PROVE "lost" \in outcome[m]
    <3>1. CASE UNCHANGED outcome
      BY <2>6, <3>1
    <3>2. ASSUME NEW x \in {"discarded", "given up"}, More(slot[s].msg, x)
          PROVE  "lost" \in outcome[m]
      <4>1. outcome'[m] = outcome[m] \/ outcome'[m] = outcome[m] \cup {x}
        BY <3>2 DEF More
      <4>2. x # "lost"
        OBVIOUS
      <4> QED  BY <2>6, <4>1, <4>2
    <3> QED  BY <2>5, <3>1, <3>2
  <2>7. UNCHANGED failures \/ FailedOnce(slot[s].msg)
    BY <1>5, HandlesWhat
  <2>8. FailuresGrow
    BY <2>7 DEF FailedOnce
  <2> QED  BY <2>4, <2>6, <2>8
<1>6. ASSUME NEW s \in Slots, Ends(s), UNCHANGED brokerVars
      PROVE  RejectsInClose /\ LosesInClose /\ FailuresGrow
  <2>1. UNCHANGED failures /\ Taken(s) /\ Others(s) /\ unacked' \subseteq unacked
    BY <1>6, EndsWhat
  <2>2. slot'[s].stage = "rejecting" => state # "connected"
    BY <1>6, EndsWhat DEF From
  <2>3. s \in unacked /\ slot'[s].stage = "rejecting" => closer # "none"
    BY <1>1, <2>2, LiveIsCurrent DEF SlotInv
  <2>4. RejectsInClose
    BY <1>1, <1>2, <2>1, <2>3 DEF Others
  <2>5. \/ UNCHANGED outcome
        \/ /\ More(slot[s].msg, "lost") /\ s \in unacked
           /\ slot[s].stage \in {"refused", "rejecting"}
    BY <1>6, EndsWhat
  <2>6. ASSUME NEW m \in Messages, "lost" \in outcome'[m]
        PROVE  "lost" \in outcome[m] \/ closer' # "none" \/ failures[m] > MaxRetries
    <3>1. CASE UNCHANGED outcome
      BY <2>6, <3>1
    <3>2. CASE More(slot[s].msg, "lost") /\ s \in unacked /\ slot[s].stage = "rejecting"
      BY <1>2, <3>2 DEF LostInv
    <3>3. CASE More(slot[s].msg, "lost") /\ slot[s].stage = "refused"
      <4>1. failures[slot[s].msg] > MaxRetries
        BY <2>1, <3>3 DEF FailInv
      <4> QED  BY <2>6, <3>3, <4>1 DEF More
    <3> QED  BY <2>5, <3>1, <3>2, <3>3
  <2> QED  BY <2>1, <2>4, <2>6
<1>7. ASSUME NEW s \in Slots, NEW m \in Messages, NEW r \in Retries, Consumer!Deliver(s, m, r)
      PROVE  RejectsInClose /\ LosesInClose /\ FailuresGrow
  BY <1>1, <1>7, DeliverWhat DEF Others
<1>8. ASSUME NEW m \in Messages, NEW r \in Retries, Consumer!HandledElsewhere(m, r)
      PROVE  RejectsInClose /\ LosesInClose /\ FailuresGrow
  BY <1>8, ElsewhereWhat
<1>9. ASSUME NEW m \in Messages, Consumer!Arrives(m)
      PROVE  RejectsInClose /\ LosesInClose /\ FailuresGrow
  <2>1. UNCHANGED <<slot, unacked, failures>> /\ (UNCHANGED outcome \/ More(m, "arrived"))
    BY <1>9, ArrivesWhat
  <2>2. ASSUME NEW n \in Messages, "lost" \in outcome'[n] PROVE "lost" \in outcome[n]
    <3>1. outcome'[n] = outcome[n] \/ outcome'[n] = outcome[n] \cup {"arrived"}
      BY <2>1 DEF More
    <3> QED  BY <2>2, <3>1
  <2> QED  BY <2>1, <2>2
<1>10. CASE Consumer!Consume \/ Consumer!ProcessorStops
  BY <1>10, SubscriptionWhat
<1>11. Crash => Consumer!Killed
  BY DEF Crash
<1>12. UNCHANGED vars => UNCHANGED consumerVars
  BY DEF vars
<1> QED
  BY <1>3, <1>4, <1>5, <1>6, <1>7, <1>8, <1>9, <1>10, <1>11, <1>12, Steps, PublishedWhat

\* A message that the server drops has had its retries, or the broker is being
\* closed: neither a connection that breaks during a retry nor its replacement is
\* a reason to reject one.
THEOREM OnlyCloseLoses == Spec => []LostOnlyAtClose
<1>1. LostInv => LostOnlyAtClose
  BY DEF LostInv
<1> QED
  BY <1>1, TypeInit, TypeStep, FailInit, FailStep, LostInit, LostStep, PTL DEF Spec

-----------------------------------------------------------------------------
(* Nothing vanishes                                                        *)

\* The message is done with, or a copy with at least r retries behind it is in
\* the queue or delivered and not acknowledged.
Kept(m, r) ==
    \/ Settled(m)
    \/ \E q \in Retries : q >= r /\ ready[m][q] > 0
    \/ \E s \in unacked : slot[s].msg = m /\ slot[s].tries >= r

\* An acknowledgement that is due costs nothing: messageProcessor has handled the
\* message, the retry goroutine has published a copy with one retry more.
AckPaid(s) ==
    /\ slot[s].stage = "finished" => Settled(slot[s].msg)
    /\ slot[s].stage = "retried" => Kept(slot[s].msg, slot[s].tries + 1)

VanishInv ==
    /\ \A m \in Messages : "arrived" \in outcome[m] => Kept(m, 0)
    /\ \A s \in unacked : AckPaid(s)

LEMMA VanishInit == Init => VanishInv
<1> SUFFICES ASSUME Init PROVE VanishInv
  OBVIOUS
<1>1. /\ unacked = {}
      /\ ready = [m \in Messages |-> [r \in Retries |->
                    IF bound /\ m \in Queued /\ r = 0 THEN 1 ELSE 0]]
      /\ outcome = [m \in Messages |-> IF bound /\ m \in Queued THEN {"arrived"} ELSE {}]
  BY DEF Init, Consumer!Init, Consumer!Retries, Retries
<1>2. 0 \in Retries
  BY BusAssumption DEF Retries
<1>3. ASSUME NEW m \in Messages, "arrived" \in outcome[m] PROVE Kept(m, 0)
  <2>1. bound /\ m \in Queued
    BY <1>1, <1>3
  <2>2. ready[m][0] = 1
    BY <1>1, <1>2, <2>1
  <2> QED  BY <1>2, <2>2 DEF Kept
<1> QED  BY <1>1, <1>3 DEF VanishInv

\* What the server has not taken back is as it was.
LEMMA NotBack ==
    ASSUME TypeInv, Consumer!Follow \/ Consumer!Killed
    PROVE  /\ redelivered \subseteq redelivered'
           /\ \A m \in Messages \ redelivered', r \in Retries : ready'[m][r] = ready[m][r]
           /\ \A s \in Slots : slot'[s] = slot[s] \/ slot'[s].stage = "free"
<1>1. SlotInv
  BY DEF TypeInv
<1>2. CASE Consumer!Requeued
  <2>1. redelivered' = redelivered \cup {slot[s].msg : s \in unacked}
    BY <1>2 DEF Consumer!Requeued
  <2>2. ASSUME NEW m \in Messages \ redelivered', NEW r \in Retries
        PROVE  ready'[m][r] = ready[m][r]
    <3>1. Back(m, r) = {}
      BY <2>1 DEF Back
    <3> QED  BY <1>1, <1>2, <3>1, RequeuedReady
  <2>3. \A s \in Slots : slot'[s] = slot[s] \/ slot'[s].stage = "free"
    BY DEF Consumer!Follow, Consumer!Killed, Consumer!Free
  <2> QED  BY <2>1, <2>2, <2>3
<1>3. CASE UNCHANGED <<ready, redelivered>>
  BY <1>3 DEF Consumer!Follow, Consumer!Killed, Consumer!Free
<1> QED  BY <1>2, <1>3 DEF Consumer!Follow, Consumer!Killed

\* What has happened to a message stays so.
LEMMA HistoryGrows ==
    ASSUME TypeInv, [Next]_vars, NEW m \in Messages
    PROVE  /\ outcome[m] \subseteq outcome'[m] /\ (handled[m] > 0 => handled'[m] > 0)
           /\ m \in redelivered => m \in redelivered'
<1> DEFINE Grows == /\ outcome[m] \subseteq outcome'[m] /\ (handled[m] > 0 => handled'[m] > 0)
                    /\ m \in redelivered => m \in redelivered'
<1>1. /\ handled \in [Messages -> 0..2]
      /\ \A s \in Slots : Taken(s) => slot[s].msg \in Messages
  BY CountTypes, InSlot DEF TypeInv
<1>2. ASSUME redelivered \subseteq redelivered',
             UNCHANGED handled \/ \E n \in Messages : HandledOnce(n),
             UNCHANGED outcome \/ \E n \in Messages : \E x : More(n, x)
      PROVE  Grows
  <2>1. handled[m] > 0 => handled'[m] > 0
    BY <1>1, <1>2 DEF HandledOnce
  <2>2. outcome[m] \subseteq outcome'[m]
    BY <1>2 DEF More
  <2> QED  BY <1>2, <2>1, <2>2
<1>3. CASE Consumer!Follow \/ Consumer!Killed
  BY <1>2, <1>3, FollowWhat, NotBack
<1>4. CASE UNCHANGED consumerVars
  BY <1>2, <1>4 DEF consumerVars
<1>5. ASSUME NEW s \in Slots, Handles(s) PROVE Grows
  <2>1. slot[s].msg \in Messages /\ UNCHANGED redelivered
    BY <1>1, <1>5, HandlesWhat
  <2>2. /\ UNCHANGED handled \/ HandledOnce(slot[s].msg)
        /\ UNCHANGED outcome \/ \E x : More(slot[s].msg, x)
    BY <1>5, HandlesWhat
  <2> QED  BY <1>2, <2>1, <2>2
<1>6. ASSUME NEW s \in Slots, Ends(s) PROVE Grows
  <2>1. slot[s].msg \in Messages /\ UNCHANGED <<handled, redelivered>>
    BY <1>1, <1>6, EndsWhat
  <2>2. UNCHANGED outcome \/ More(slot[s].msg, "lost")
    BY <1>6, EndsWhat
  <2> QED  BY <1>2, <2>1, <2>2
<1>7. ASSUME NEW s \in Slots, NEW n \in Messages, NEW r \in Retries, Consumer!Deliver(s, n, r)
      PROVE  Grows
  BY <1>2, <1>7, DeliverWhat
<1>8. ASSUME NEW n \in Messages, NEW r \in Retries, Consumer!HandledElsewhere(n, r)
      PROVE  Grows
  BY <1>2, <1>8, ElsewhereWhat
<1>9. ASSUME NEW n \in Messages, Consumer!Arrives(n) PROVE Grows
  BY <1>2, <1>9, ArrivesWhat
<1>10. CASE Consumer!Consume \/ Consumer!ProcessorStops
  BY <1>2, <1>10, SubscriptionWhat
<1>11. Crash => Consumer!Killed
  BY DEF Crash
<1>12. UNCHANGED vars => UNCHANGED consumerVars
  BY DEF vars
<1>13. CASE Broker!Next /\ Consumer!Follow /\ UNCHANGED publisherVars
  BY <1>3, <1>13
<1> QED
  BY <1>3, <1>4, <1>5, <1>6, <1>7, <1>8, <1>9, <1>10, <1>11, <1>12, <1>13, Steps, PublishedWhat

LEMMA SettledStays ==
    ASSUME TypeInv, [Next]_vars, NEW m \in Messages, Settled(m)
    PROVE  Settled(m)'
<1>1. outcome[m] \subseteq outcome'[m] /\ (handled[m] > 0 => handled'[m] > 0)
  BY HistoryGrows
<1> QED  BY <1>1 DEF Settled

\* A delivery that leaves its slot leaves the message settled, in the queue, or
\* delivered once more with more retries behind it.
LEMMA KeptAtEnd ==
    ASSUME TypeInv, VanishInv, [Next]_vars, NEW s \in Slots, Ends(s), s \in unacked,
           NEW m \in Messages, slot[s].msg = m, NEW r \in Nat, slot[s].tries >= r
    PROVE  Kept(m, r)'
<1> USE BusAssumption
<1>1. /\ SlotInv /\ unacked \in SUBSET Slots /\ ready \in [Messages -> [Retries -> Nat]]
      /\ handled \in [Messages -> 0..2]
  BY CountTypes DEF TypeInv
<1>2. slot[s].tries \in Retries /\ Taken(s) /\ Others(s)
  BY <1>1, EndsWhat, InSlot
<1> DEFINE t == slot[s].tries
<1>3. CASE slot[s].stage = "finished"
  BY <1>2, <1>3, SettledStays DEF VanishInv, AckPaid, Kept
<1>4. CASE slot[s].stage = "retried"
  <2>1. Kept(m, t + 1)
    BY <1>4 DEF VanishInv, AckPaid
  <2>2. CASE Settled(m)
    BY <1>2, <2>2, SettledStays DEF Kept
  <2>3. CASE \E q \in Retries : q >= t + 1 /\ ready[m][q] > 0
    <3>1. UNCHANGED ready
      BY <1>4, EndsWhat DEF From
    <3> QED  BY <1>2, <2>3, <3>1 DEF Kept, Retries
  <2>4. CASE \E u \in unacked : slot[u].msg = m /\ slot[u].tries >= t + 1
    <3>1. PICK u \in unacked : slot[u].msg = m /\ slot[u].tries >= t + 1
      BY <2>4
    <3>2. u # s
      BY <1>2, <3>1 DEF Retries
    <3>3. u \in Slots /\ Taken(u)
      BY <1>1, <3>1 DEF SlotInv, Taken
    <3>4. slot'[u] = slot[u] /\ slot[u].tries \in Retries
      BY <1>1, <1>2, <3>2, <3>3, InSlot DEF Others
    <3>5. u \in unacked'
      BY <1>4, <3>1, <3>2, EndsWhat DEF From
    <3>6. slot[u].tries >= r
      BY <1>2, <3>1, <3>4 DEF Retries
    <3> QED  BY <3>1, <3>4, <3>5, <3>6 DEF Kept
  <2> QED  BY <2>1, <2>2, <2>3, <2>4 DEF Kept
<1>5. CASE slot[s].stage \in {"refused", "rejecting"}
  <2>1. More(m, "lost")
    BY <1>5, EndsWhat DEF From
  <2>2. "lost" \in outcome'[m]
    BY <2>1 DEF More
  <2> QED  BY <2>2 DEF Kept, Settled
<1>6. CASE slot[s].stage \in {"failed", "retrying"}
  <2>1. CASE OneMore(m, t)
    <3>1. ready'[m][t] > 0
      BY <1>1, <1>2, <2>1 DEF OneMore
    <3> QED  BY <1>2, <3>1 DEF Kept
  <2>2. CASE KeepsSlot(s) /\ UNCHANGED unacked
    BY <2>2 DEF Kept, KeepsSlot
  <2>3. OneMore(m, t) \/ (KeepsSlot(s) /\ UNCHANGED unacked)
    BY <1>6, EndsWhat
  <2> QED  BY <2>1, <2>2, <2>3
<1>7. slot[s].stage \in {"finished", "retried", "refused", "rejecting", "failed", "retrying"}
  BY EndsWhat DEF From
<1> QED  BY <1>3, <1>4, <1>5, <1>6, <1>7

LEMMA KeptStays ==
    ASSUME TypeInv, VanishInv, [Next]_vars, NEW m \in Messages, NEW r \in Nat, Kept(m, r)
    PROVE  Kept(m, r)'
<1> USE BusAssumption
<1>1. /\ SlotInv /\ unacked \in SUBSET Slots /\ ready \in [Messages -> [Retries -> Nat]]
      /\ handled \in [Messages -> 0..2]
  BY CountTypes DEF TypeInv
<1>2. Settled(m) => Kept(m, r)'
  BY SettledStays DEF Kept
<1>3. ASSUME \A q \in Retries : ready[m][q] > 0 => ready'[m][q] > 0,
             \A s \in unacked : s \in unacked' /\ slot'[s].msg = slot[s].msg
                                /\ slot'[s].tries = slot[s].tries
      PROVE  Kept(m, r)'
  BY <1>2, <1>3 DEF Kept
<1>4. \A s \in unacked : s \in Slots /\ Taken(s) /\ slot[s].msg \in Messages
                         /\ slot[s].tries \in Retries
  BY <1>1, InSlot DEF SlotInv, Taken
<1>5. CASE Consumer!Follow \/ Consumer!Killed
  <2>1. CASE \E s \in unacked : slot[s].msg = m /\ slot[s].tries >= r
    <3>1. PICK s \in unacked : slot[s].msg = m /\ slot[s].tries >= r
      BY <2>1
    <3>2. slot[s].tries \in Retries
      BY <1>4
    <3>3. (s \in unacked' /\ slot'[s] = slot[s]) \/ ready'[m][slot[s].tries] > 0
      BY <1>5, <3>1, FollowWhat
    <3> QED  BY <3>1, <3>2, <3>3 DEF Kept
  <2>2. CASE \E q \in Retries : q >= r /\ ready[m][q] > 0
    BY <1>5, <2>2, FollowWhat DEF Kept
  <2> QED  BY <1>2, <2>1, <2>2 DEF Kept
<1>6. CASE UNCHANGED consumerVars
  BY <1>3, <1>6 DEF consumerVars
<1>7. ASSUME NEW s \in Slots, Handles(s) PROVE Kept(m, r)'
  <2>1. UNCHANGED <<ready, unacked>> /\ KeepsSlot(s) /\ Others(s)
    BY <1>7, HandlesWhat
  <2> QED  BY <1>3, <1>4, <2>1 DEF KeepsSlot, Others
<1>8. ASSUME NEW s \in Slots, Ends(s) PROVE Kept(m, r)'
  <2>1. /\ Others(s) /\ unacked \ {s} \subseteq unacked'
        /\ \/ UNCHANGED ready
           \/ OneMore(slot[s].msg, slot[s].tries) \/ OneMore(slot[s].msg, slot[s].tries + 1)
    BY <1>8, EndsWhat
  <2>2. \A q \in Retries : ready[m][q] > 0 => ready'[m][q] > 0
    BY <1>1, <2>1 DEF OneMore
  <2>3. CASE s \in unacked /\ slot[s].msg = m /\ slot[s].tries >= r
    BY <1>8, <2>3, KeptAtEnd
  <2>4. CASE \E u \in unacked : u # s /\ slot[u].msg = m /\ slot[u].tries >= r
    <3>1. PICK u \in unacked : u # s /\ slot[u].msg = m /\ slot[u].tries >= r
      BY <2>4
    <3>2. u \in unacked' /\ slot'[u] = slot[u]
      BY <1>4, <2>1, <3>1 DEF Others
    <3> QED  BY <3>1, <3>2 DEF Kept
  <2> QED  BY <1>2, <2>2, <2>3, <2>4 DEF Kept
<1>9. ASSUME NEW s \in Slots, NEW n \in Messages, NEW k \in Retries, Consumer!Deliver(s, n, k)
      PROVE  Kept(m, r)'
  <2>1. /\ OneLess(n, k) /\ unacked' = unacked \cup {s} /\ s \notin unacked /\ Others(s)
        /\ slot'[s].msg = n /\ slot'[s].tries = k
    BY <1>9, DeliverWhat
  <2>2. \A u \in unacked : u \in unacked' /\ slot'[u] = slot[u]
    BY <1>4, <2>1 DEF Others
  <2>3. CASE \E q \in Retries : q >= r /\ ready[m][q] > 0
    <3>1. PICK q \in Retries : q >= r /\ ready[m][q] > 0
      BY <2>3
    <3>2. CASE m = n /\ q = k
      BY <2>1, <3>1, <3>2 DEF Kept
    <3>3. CASE ~(m = n /\ q = k)
      <4>1. ready'[m][q] = ready[m][q]
        BY <2>1, <3>3 DEF OneLess
      <4> QED  BY <3>1, <4>1 DEF Kept
    <3> QED  BY <3>2, <3>3
  <2>4. CASE \E u \in unacked : slot[u].msg = m /\ slot[u].tries >= r
    BY <2>2, <2>4 DEF Kept
  <2> QED  BY <1>2, <2>3, <2>4 DEF Kept
<1>10. ASSUME NEW n \in Messages, NEW k \in Retries, Consumer!HandledElsewhere(n, k)
       PROVE  Kept(m, r)'
  <2>1. UNCHANGED <<slot, unacked>> /\ OneLess(n, k) /\ HandledOnce(n)
    BY <1>10, ElsewhereWhat
  <2>2. CASE m = n
    <3>1. handled'[m] > 0
      BY <1>1, <2>1, <2>2 DEF HandledOnce
    <3> QED  BY <3>1 DEF Kept, Settled
  <2>3. CASE m # n
    <3>1. \A q \in Retries : ready'[m][q] = ready[m][q]
      BY <2>1, <2>3 DEF OneLess
    <3> QED  BY <1>3, <2>1, <3>1
  <2> QED  BY <2>2, <2>3
<1>11. ASSUME NEW n \in Messages, Consumer!Arrives(n) PROVE Kept(m, r)'
  <2>1. UNCHANGED <<slot, unacked>> /\ (UNCHANGED ready \/ OneMore(n, 0))
    BY <1>11, ArrivesWhat
  <2>2. \A q \in Retries : ready[m][q] > 0 => ready'[m][q] > 0
    BY <1>1, <2>1 DEF OneMore
  <2> QED  BY <1>3, <2>1, <2>2
<1>12. CASE Consumer!Consume \/ Consumer!ProcessorStops
  BY <1>3, <1>12, SubscriptionWhat
<1>13. Crash => Consumer!Killed
  BY DEF Crash
<1>14. UNCHANGED vars => UNCHANGED consumerVars
  BY DEF vars
<1> QED
  BY <1>5, <1>6, <1>7, <1>8, <1>9, <1>10, <1>11, <1>12, <1>13, <1>14, Steps, PublishedWhat


\* What a step may make of the arrivals and of the acknowledgements that are due.
ArrivalsKept ==
    \A m \in Messages : "arrived" \in outcome'[m] => "arrived" \in outcome[m] \/ Kept(m, 0)'

AcksKept ==
    \A s \in unacked' : (s \in unacked /\ slot'[s] = slot[s]) \/ AckPaid(s)'

LEMMA VanishKept ==
    ASSUME TypeInv, VanishInv, [Next]_vars, ArrivalsKept, AcksKept
    PROVE  VanishInv'
<1>1. SlotInv /\ unacked \in SUBSET Slots
  BY CountTypes DEF TypeInv
<1>2. ASSUME NEW m \in Messages, "arrived" \in outcome'[m] PROVE Kept(m, 0)'
  <2>1. CASE "arrived" \in outcome[m]
    <3>1. Kept(m, 0)
      BY <2>1 DEF VanishInv
    <3> QED  BY <3>1, KeptStays
  <2> QED  BY <1>2, <2>1 DEF ArrivalsKept
<1>3. ASSUME NEW s \in unacked, s \in unacked', slot'[s] = slot[s] PROVE AckPaid(s)'
  <2>1. PICK m \in Messages : slot[s].msg = m
    <3>1. s \in Slots /\ Taken(s)
      BY <1>1 DEF SlotInv, Taken
    <3> QED  BY <1>1, <3>1, InSlot
  <2>2. slot[s].tries + 1 \in Nat
    <3>1. s \in Slots /\ Taken(s)
      BY <1>1 DEF SlotInv, Taken
    <3>2. slot[s].tries \in Retries
      BY <1>1, <3>1, InSlot
    <3> QED  BY <3>2, BusAssumption DEF Retries
  <2>3. PICK k \in Nat : slot[s].tries + 1 = k
    BY <2>2
  <2>4. /\ slot[s].stage = "finished" => Settled(m)
        /\ slot[s].stage = "retried" => Kept(m, k)
    BY <2>1, <2>3 DEF VanishInv, AckPaid
  <2>5. /\ slot'[s].stage = "finished" => Settled(m)'
        /\ slot'[s].stage = "retried" => Kept(m, k)'
    BY <1>3, <2>4, SettledStays, KeptStays
  <2>6. slot'[s].msg = m /\ slot'[s].tries + 1 = k
    BY <1>3, <2>1, <2>3
  <2> QED  BY <2>5, <2>6 DEF AckPaid
<1> QED  BY <1>2, <1>3 DEF VanishInv, AcksKept

LEMMA VanishStep == TypeInv /\ VanishInv /\ [Next]_vars => VanishInv'
<1> SUFFICES ASSUME TypeInv, VanishInv, [Next]_vars PROVE ArrivalsKept /\ AcksKept
  BY VanishKept
<1> USE BusAssumption DEF ArrivalsKept, AcksKept
<1>1. /\ SlotInv /\ LinkInv /\ SubInv /\ unacked \in SUBSET Slots
      /\ ready \in [Messages -> [Retries -> Nat]] /\ handled \in [Messages -> 0..2]
  BY CountTypes DEF TypeInv
<1>2. CASE Consumer!Follow \/ Consumer!Killed
  BY <1>2, FollowWhat
<1>3. CASE UNCHANGED consumerVars
  BY <1>3 DEF consumerVars
<1>4. ASSUME NEW s \in Slots, Handles(s) PROVE ArrivalsKept /\ AcksKept
  <2>1. Taken(s) /\ Others(s) /\ KeepsSlot(s) /\ UNCHANGED unacked
    BY <1>4, HandlesWhat
  <2>2. slot[s].msg \in Messages
    BY <1>1, <2>1, InSlot
  <2>3. slot'[s].stage = "finished" =>
           \/ \E x \in {"discarded", "given up"} : More(slot[s].msg, x)
           \/ HandledOnce(slot[s].msg)
    BY <1>4, HandlesWhat DEF From
  <2>4. ASSUME slot'[s].stage = "finished" PROVE Settled(slot[s].msg)'
    <3>1. CASE \E x \in {"discarded", "given up"} : More(slot[s].msg, x)
      <4>1. PICK x \in {"discarded", "given up"} : More(slot[s].msg, x)
        BY <3>1
      <4>2. x \in outcome'[slot'[s].msg]
        BY <2>1, <4>1 DEF More, KeepsSlot
      <4> QED  BY <4>2 DEF Settled
    <3>2. CASE HandledOnce(slot[s].msg)
      <4>1. handled'[slot'[s].msg] > 0
        BY <1>1, <2>1, <2>2, <3>2 DEF HandledOnce, KeepsSlot
      <4> QED  BY <4>1 DEF Settled
    <3> QED  BY <2>3, <2>4, <3>1, <3>2
  <2>5. slot'[s].stage # "retried"
    BY <1>4, HandlesWhat DEF From
  <2>6. AckPaid(s)'
    BY <2>4, <2>5 DEF AckPaid
  <2>7. AcksKept
    BY <1>1, <2>1, <2>6 DEF Others
  <2>8. UNCHANGED outcome \/ \E x \in {"discarded", "given up"} : More(slot[s].msg, x)
    BY <1>4, HandlesWhat
  <2>9. ASSUME NEW m \in Messages, "arrived" \in outcome'[m] PROVE "arrived" \in outcome[m]
    <3>1. CASE UNCHANGED outcome
      BY <2>9, <3>1
    <3>2. ASSUME NEW x \in {"discarded", "given up"}, More(slot[s].msg, x)
          PROVE  "arrived" \in outcome[m]
      <4>1. outcome'[m] = outcome[m] \/ outcome'[m] = outcome[m] \cup {x}
        BY <3>2 DEF More
      <4>2. x # "arrived"
        OBVIOUS
      <4> QED  BY <2>9, <4>1, <4>2
    <3> QED  BY <2>8, <3>1, <3>2
  <2> QED  BY <2>7, <2>9
<1>5. ASSUME NEW s \in Slots, Ends(s), UNCHANGED brokerVars PROVE ArrivalsKept /\ AcksKept
  <2>1. Taken(s) /\ Others(s)
    BY <1>5, EndsWhat
  <2>2. slot[s].msg \in Messages /\ slot[s].tries \in Retries
    BY <1>1, <2>1, InSlot
  <2>3. \/ slot'[s].stage = "free" /\ unacked' = unacked \ {s}
        \/ /\ KeepsSlot(s) /\ UNCHANGED unacked
           /\ \/ From(s, "failed", "rejecting")
              \/ /\ From(s, "retrying", "retried")
                 /\ conn \in open => OneMore(slot[s].msg, slot[s].tries + 1)
    BY <1>5, EndsWhat
  <2>4. ASSUME s \in unacked' PROVE AckPaid(s)'
    <3>1. CASE slot'[s].stage # "retried"
      BY <2>3, <2>4, <3>1 DEF AckPaid, From
    <3>2. CASE slot'[s].stage = "retried"
      <4>1. s \in unacked /\ slot[s].stage = "retrying" /\ KeepsSlot(s)
        BY <2>3, <2>4, <3>2 DEF From
      <4>2. conn \in open
        BY <1>1, <4>1, LiveIsCurrent DEF SlotInv
      <4>3. OneMore(slot[s].msg, slot[s].tries + 1)
        BY <2>3, <2>4, <3>2, <4>2 DEF From
      <4>4. slot[s].tries + 1 \in Retries
        BY <1>1, <2>2, <4>1 DEF SlotInv, Trying, Retries
      <4>5. ready'[slot[s].msg][slot[s].tries + 1] > 0
        BY <1>1, <2>2, <4>3, <4>4 DEF OneMore
      <4>6. Kept(slot[s].msg, slot[s].tries + 1)'
        BY <4>1, <4>4, <4>5 DEF Kept, KeepsSlot, Retries
      <4> QED  BY <3>2, <4>6 DEF AckPaid
    <3> QED  BY <3>1, <3>2
  <2>5. AcksKept
    BY <1>1, <2>1, <2>3, <2>4 DEF Others
  <2>6. UNCHANGED outcome \/ More(slot[s].msg, "lost")
    BY <1>5, EndsWhat
  <2>7. ASSUME NEW m \in Messages, "arrived" \in outcome'[m] PROVE "arrived" \in outcome[m]
    <3>1. outcome'[m] = outcome[m] \/ outcome'[m] = outcome[m] \cup {"lost"}
      BY <2>6 DEF More
    <3>2. "lost" # "arrived"
      OBVIOUS
    <3> QED  BY <2>7, <3>1, <3>2
  <2> QED  BY <2>5, <2>7
<1>6. ASSUME NEW s \in Slots, NEW m \in Messages, NEW r \in Retries, Consumer!Deliver(s, m, r)
      PROVE  ArrivalsKept /\ AcksKept
  <2>1. /\ UNCHANGED outcome /\ unacked' = unacked \cup {s} /\ s \notin unacked
        /\ Others(s) /\ slot'[s].stage = "buffered"
    BY <1>6, DeliverWhat
  <2>2. AckPaid(s)'
    BY <2>1 DEF AckPaid
  <2> QED  BY <1>1, <2>1, <2>2 DEF Others
<1>7. ASSUME NEW m \in Messages, NEW r \in Retries, Consumer!HandledElsewhere(m, r)
      PROVE  ArrivalsKept /\ AcksKept
  BY <1>7, ElsewhereWhat
<1>8. ASSUME NEW m \in Messages, Consumer!Arrives(m) PROVE ArrivalsKept /\ AcksKept
  <2>1. /\ UNCHANGED <<slot, unacked>>
        /\ UNCHANGED outcome \/ (OneMore(m, 0) /\ More(m, "arrived"))
    BY <1>8, ArrivesWhat
  <2>2. ASSUME OneMore(m, 0) PROVE Kept(m, 0)'
    <3>1. 0 \in Retries
      BY DEF Retries
    <3>2. ready'[m][0] > 0
      BY <1>1, <2>2, <3>1 DEF OneMore
    <3> QED  BY <3>1, <3>2 DEF Kept
  <2>3. ASSUME More(m, "arrived"), NEW n \in Messages, n # m PROVE outcome'[n] = outcome[n]
    BY <2>3 DEF More
  <2> QED  BY <2>1, <2>2, <2>3
<1>9. CASE Consumer!Consume \/ Consumer!ProcessorStops
  BY <1>9, SubscriptionWhat
<1>10. Crash => Consumer!Killed
  BY DEF Crash
<1>11. UNCHANGED vars => UNCHANGED consumerVars
  BY DEF vars
<1> QED
  BY <1>2, <1>3, <1>4, <1>5, <1>6, <1>7, <1>8, <1>9, <1>10, <1>11, Steps, PublishedWhat

\* A message that has reached the queue is ready, delivered and unacknowledged,
\* handled, or disposed of in one of the ways the code has: no acknowledgement
\* comes before what it stands for.
THEOREM NoMessageVanishes == Spec => []NothingVanishes
<1>1. TypeInv /\ VanishInv => NothingVanishes
  BY DEF VanishInv, NothingVanishes, Kept, Waiting, Retries
<1> QED
  BY <1>1, TypeInit, TypeStep, VanishInit, VanishStep, PTL DEF Spec

-----------------------------------------------------------------------------
(* One publication each                                                    *)

BusyWith(w, m) == worker[w].pc = "busy" /\ worker[w].event = m

\* An accepted event is in the channel once or with one worker, and nowhere else
\* are events that are still to be published.
PubInv ==
    /\ \A i \in 1..Len(tasks) : fate[tasks[i]] = "accepted"
    /\ \A i, j \in 1..Len(tasks) : tasks[i] = tasks[j] => i = j
    /\ \A w \in Workers, m \in Messages : BusyWith(w, m) =>
          /\ fate[m] = "accepted"
          /\ \A i \in 1..Len(tasks) : tasks[i] # m
          /\ \A v \in Workers : BusyWith(v, m) => v = w

LEMMA PubInit == Init => PubInv
<1> SUFFICES ASSUME Init PROVE PubInv
  OBVIOUS
<1>1. tasks = <<>> /\ worker = [w \in Workers |-> Publisher!Idle]
  BY DEF Init, Publisher!Init
<1>2. Len(tasks) = 0 /\ \A w \in Workers : worker[w].pc = "idle"
  BY <1>1 DEF Publisher!Idle
<1> QED  BY <1>2 DEF PubInv, BusyWith

\* What a step of the publisher does to the events.
LEMMA WorkerWhat ==
    ASSUME TypeInv, NEW w \in Workers,
           Publisher!Published(w) \/ Publisher!GiveUp(w)
    PROVE  /\ worker[w].event \in Messages /\ BusyWith(w, worker[w].event) /\ UNCHANGED tasks
           /\ worker'[w].pc = "idle" /\ \A v \in Workers : v # w => worker'[v] = worker[v]
           /\ fate'[worker[w].event] \in {"published", "failed"}
           /\ \A m \in Messages : m # worker[w].event => fate'[m] = fate[m]
<1>1. /\ worker \in [Workers -> {Publisher!Idle, Publisher!Stopped} \cup BusyWorkers]
      /\ fate \in [Messages -> Publisher!Fates]
  BY DEF TypeInv, Publisher!TypeOK, BusyWorkers
<1>2. worker[w].pc = "busy" /\ worker[w].event \in Messages
  BY <1>1 DEF Publisher!Published, Publisher!GiveUp, Publisher!Idle, Publisher!Stopped, BusyWorkers
<1>3. PICK f \in {"published", "failed"} :
         /\ worker' = [worker EXCEPT ![w] = Publisher!Idle] /\ UNCHANGED tasks
         /\ fate' = [fate EXCEPT ![worker[w].event] = f]
  BY DEF Publisher!Published, Publisher!GiveUp, Publisher!Settle
<1>4. Publisher!Idle.pc = "idle"
  BY DEF Publisher!Idle
<1> QED  BY <1>1, <1>2, <1>3, <1>4 DEF BusyWith

LEMMA PubStep == TypeInv /\ PubInv /\ [Next]_vars => PubInv'
<1> SUFFICES ASSUME TypeInv, PubInv, [Next]_vars PROVE PubInv'
  OBVIOUS
<1> USE BusAssumption
<1>1. /\ tasks \in Seq(Messages)
      /\ worker \in [Workers -> {Publisher!Idle, Publisher!Stopped} \cup BusyWorkers]
      /\ fate \in [Messages -> Publisher!Fates]
  BY DEF TypeInv, Publisher!TypeOK, BusyWorkers
<1>2. CASE UNCHANGED publisherVars
  BY <1>2 DEF publisherVars, PubInv, BusyWith
<1>3. ASSUME NEW w \in Workers, Publisher!Published(w) \/ Publisher!GiveUp(w) PROVE PubInv'
  <2>1. /\ worker[w].event \in Messages /\ BusyWith(w, worker[w].event) /\ UNCHANGED tasks
        /\ worker'[w].pc = "idle" /\ \A v \in Workers : v # w => worker'[v] = worker[v]
        /\ \A m \in Messages : m # worker[w].event => fate'[m] = fate[m]
    BY <1>3, WorkerWhat
  <2>2. ASSUME NEW v \in Workers, NEW m \in Messages, BusyWith(v, m)'
        PROVE  BusyWith(v, m) /\ m # worker[w].event
    <3>1. v # w /\ worker'[v] = worker[v]
      BY <2>1, <2>2 DEF BusyWith
    <3>2. BusyWith(v, m)
      BY <2>2, <3>1 DEF BusyWith
    <3> QED  BY <2>1, <3>1, <3>2 DEF PubInv
  <2>3. \A i \in 1..Len(tasks) : tasks[i] \in Messages /\ tasks[i] # worker[w].event
    BY <1>1, <2>1 DEF PubInv
  <2>4. \A i \in 1..Len(tasks') : fate'[tasks'[i]] = "accepted"
    BY <2>1, <2>3 DEF PubInv
  <2>5. \A v \in Workers, m \in Messages : BusyWith(v, m)' =>
           /\ fate'[m] = "accepted"
           /\ \A i \in 1..Len(tasks') : tasks'[i] # m
           /\ \A u \in Workers : BusyWith(u, m)' => u = v
    BY <2>1, <2>2 DEF PubInv
  <2> QED  BY <2>1, <2>4, <2>5 DEF PubInv
<1>4. ASSUME NEW w \in Workers, Publisher!TakeTask(w) PROVE PubInv'
  <2>1. /\ worker' = [worker EXCEPT ![w] = Publisher!Busy(Head(tasks), 0)]
        /\ tasks' = Tail(tasks) /\ UNCHANGED fate /\ tasks # <<>>
    BY <1>4 DEF Publisher!TakeTask
  <2>2. Head(tasks) \in Messages /\ Head(tasks) = tasks[1] /\ 1 \in 1..Len(tasks)
    BY <1>1, <2>1
  <2>3. /\ Len(tasks') = Len(tasks) - 1 /\ Len(tasks) \in Nat
        /\ \A i \in 1..Len(tasks') : tasks'[i] = tasks[i + 1] /\ i + 1 \in 1..Len(tasks)
    BY <1>1, <2>1
  <2>4. \A i \in 1..Len(tasks') : tasks'[i] # Head(tasks)
    BY <2>2, <2>3 DEF PubInv
  <2>5. /\ worker'[w].pc = "busy" /\ worker'[w].event = Head(tasks)
        /\ \A v \in Workers : v # w => worker'[v] = worker[v]
    BY <1>1, <2>1 DEF Publisher!Busy
  <2>6. \A v \in Workers, m \in Messages :
           BusyWith(v, m)' <=> (v = w /\ m = Head(tasks)) \/ (v # w /\ BusyWith(v, m))
    BY <2>5 DEF BusyWith
  <2>7. \A v \in Workers : ~BusyWith(v, Head(tasks))
    BY <2>2 DEF PubInv
  <2>8. \A i \in 1..Len(tasks') : fate'[tasks'[i]] = "accepted"
    BY <2>1, <2>3 DEF PubInv
  <2>9. \A i, j \in 1..Len(tasks') : tasks'[i] = tasks'[j] => i = j
    BY <2>3 DEF PubInv
  <2>10. fate'[Head(tasks)] = "accepted"
    BY <2>1, <2>2 DEF PubInv
  <2>11. ASSUME NEW v \in Workers, NEW m \in Messages, BusyWith(v, m)'
         PROVE  /\ fate'[m] = "accepted"
                /\ \A i \in 1..Len(tasks') : tasks'[i] # m
                /\ \A u \in Workers : BusyWith(u, m)' => u = v
    <3>1. CASE m = Head(tasks)
      BY <2>4, <2>6, <2>7, <2>10, <2>11, <3>1
    <3>2. CASE m # Head(tasks)
      BY <2>1, <2>3, <2>6, <2>11, <3>2 DEF PubInv
    <3> QED  BY <3>1, <3>2
  <2> QED  BY <2>8, <2>9, <2>11 DEF PubInv
<1>5. ASSUME NEW w \in Workers, Publisher!StopWorker(w) \/ Publisher!PublishFails(w)
      PROVE  PubInv'
  <2>1. UNCHANGED <<tasks, fate>>
    BY <1>5 DEF Publisher!StopWorker, Publisher!PublishFails
  <2>2. \A v \in Workers, m \in Messages : BusyWith(v, m)' => BusyWith(v, m)
    <3>1. CASE Publisher!StopWorker(w)
      BY <1>1, <3>1 DEF Publisher!StopWorker, Publisher!Stopped, BusyWith
    <3>2. CASE Publisher!PublishFails(w)
      <4>1. /\ worker[w] \in BusyWorkers
            /\ worker' = [worker EXCEPT ![w] = [worker[w] EXCEPT !.failed = worker[w].failed + 1]]
        BY <1>1, <3>2 DEF Publisher!PublishFails, Publisher!Idle, Publisher!Stopped
      <4>2. worker'[w].pc = worker[w].pc /\ worker'[w].event = worker[w].event
        BY <1>1, <4>1 DEF BusyWorkers
      <4>3. \A v \in Workers : v # w => worker'[v] = worker[v]
        BY <1>1, <4>1
      <4> QED  BY <4>2, <4>3 DEF BusyWith
    <3> QED  BY <1>5, <3>1, <3>2
  <2> QED  BY <2>1, <2>2 DEF PubInv
<1>6. CASE Publisher!Shutdown
  BY <1>6 DEF Publisher!Shutdown, PubInv, BusyWith
<1>7. ASSUME NEW m \in Messages, Publisher!PublishAsync(m) PROVE PubInv'
  <2>1. /\ UNCHANGED worker /\ fate[m] = "new" /\ \A n \in Messages : n # m => fate'[n] = fate[n]
        /\ \/ UNCHANGED tasks
           \/ tasks' = Append(tasks, m) /\ fate'[m] = "accepted"
    BY <1>1, <1>7 DEF Publisher!PublishAsync
  <2>2. /\ \A i \in 1..Len(tasks) : tasks[i] \in Messages /\ tasks[i] # m
        /\ \A v \in Workers : ~BusyWith(v, m)
    BY <1>1, <2>1 DEF PubInv
  <2>3. \A v \in Workers, n \in Messages : BusyWith(v, n)' <=> BusyWith(v, n)
    BY <2>1 DEF BusyWith
  <2>4. CASE UNCHANGED tasks
    BY <2>1, <2>2, <2>3, <2>4 DEF PubInv
  <2>5. CASE tasks' = Append(tasks, m) /\ fate'[m] = "accepted"
    <3>1. /\ Len(tasks') = Len(tasks) + 1 /\ Len(tasks) \in Nat /\ tasks'[Len(tasks) + 1] = m
          /\ \A i \in 1..Len(tasks) : tasks'[i] = tasks[i]
      BY <1>1, <2>5
    <3>2. \A i \in 1..Len(tasks') : i \in 1..Len(tasks) \/ i = Len(tasks) + 1
      BY <3>1
    <3>3. \A i \in 1..Len(tasks') : fate'[tasks'[i]] = "accepted"
      BY <2>1, <2>2, <2>5, <3>1, <3>2 DEF PubInv
    <3>4. \A i, j \in 1..Len(tasks') : tasks'[i] = tasks'[j] => i = j
      BY <2>2, <3>1, <3>2 DEF PubInv
    <3>5. ASSUME NEW v \in Workers, NEW n \in Messages, BusyWith(v, n)'
          PROVE  /\ fate'[n] = "accepted"
                 /\ \A i \in 1..Len(tasks') : tasks'[i] # n
                 /\ \A u \in Workers : BusyWith(u, n)' => u = v
      <4>1. BusyWith(v, n) /\ n # m
        BY <2>2, <2>3, <3>5
      <4> QED  BY <2>1, <2>3, <3>1, <3>2, <4>1 DEF PubInv
    <3> QED  BY <3>3, <3>4, <3>5 DEF PubInv
  <2> QED  BY <2>1, <2>4, <2>5
<1>8. Crash \/ UNCHANGED vars => UNCHANGED publisherVars
  BY DEF Crash, vars
<1> QED  BY <1>2, <1>3, <1>4, <1>5, <1>6, <1>7, <1>8, Steps DEF Publishes

Unpublished(m) == fate[m] \in {"new", "accepted"}

\* The publisher takes no event back.
LEMMA PublishedStays ==
    ASSUME TypeInv, [Next]_vars, NEW m \in Messages, Unpublished(m)'
    PROVE  Unpublished(m)
<1>1. fate \in [Messages -> Publisher!Fates]
  BY DEF TypeInv, Publisher!TypeOK
<1>2. ASSUME NEW w \in Workers, Publisher!Published(w) \/ Publisher!GiveUp(w)
      PROVE  Unpublished(m)
  BY <1>2, WorkerWhat DEF Unpublished
<1>3. CASE \E n \in Messages : Publisher!PublishAsync(n)
  BY <1>1, <1>3 DEF Publisher!PublishAsync, Unpublished
<1>4. CASE UNCHANGED fate
  BY <1>4 DEF Unpublished
<1>5. Publishes => \/ UNCHANGED fate
                   \/ \E n \in Messages : Publisher!PublishAsync(n)
                   \/ \E w \in Workers : Publisher!GiveUp(w)
  BY DEF Publishes, Publisher!Shutdown, Publisher!TakeTask, Publisher!StopWorker,
     Publisher!PublishFails
<1>6. UNCHANGED publisherVars \/ Crash \/ UNCHANGED vars => UNCHANGED fate
  BY DEF publisherVars, Crash, vars
<1> QED  BY <1>2, <1>3, <1>4, <1>5, <1>6, Steps

-----------------------------------------------------------------------------
(* Repeated effects                                                        *)

\* The stages at which the delivery, and not its copy or its effect, stands for
\* the message.
Holding == Consumer!Stages \ {"finished", "retried"}

Held(s, m) == slot[s].stage \in Holding /\ slot[s].msg = m

InQueue(m, r) == ready[m][r] > 0

\* The message is in at most one of the places from which it can still be handled:
\* with the publisher, in the queue, in a slot; and in none once it is handled or
\* disposed of.
Once(m) ==
    /\ handled[m] <= 1
    /\ \A r \in Retries : InQueue(m, r) =>
          /\ ready[m][r] = 1 /\ ~Settled(m) /\ ~Unpublished(m)
          /\ \A q \in Retries : InQueue(m, q) => q = r
    /\ \A s \in Slots : Held(s, m) =>
          /\ ~Settled(m) /\ ~Unpublished(m)
          /\ \A r \in Retries : ~InQueue(m, r)
          /\ \A t \in Slots : Held(t, m) => t = s
    /\ Unpublished(m) => ~Settled(m)

OnceInv == \A m \in Messages \ redelivered : Once(m)

LEMMA OnceInit == Init => OnceInv
<1> SUFFICES ASSUME Init, NEW m \in Messages PROVE Once(m)
  BY DEF OnceInv
<1>1. /\ slot = [s \in Slots |-> Consumer!Free] /\ handled = [n \in Messages |-> 0]
      /\ outcome = [n \in Messages |-> IF bound /\ n \in Queued THEN {"arrived"} ELSE {}]
      /\ ready = [n \in Messages |-> [r \in Retries |->
                    IF bound /\ n \in Queued /\ r = 0 THEN 1 ELSE 0]]
      /\ fate = [n \in Messages |-> IF n \in Queued THEN "published" ELSE "new"]
  BY DEF Init, Consumer!Init, Publisher!Init, Consumer!Retries, Retries
<1>2. handled[m] = 0 /\ ~Settled(m) /\ \A s \in Slots : ~Held(s, m)
  <2>1. \A s \in Slots : ~Held(s, m)
    BY <1>1 DEF Held, Holding, Consumer!Free, Consumer!Stages
  <2>2. handled[m] = 0 /\ outcome[m] \subseteq {"arrived"}
    BY <1>1
  <2>3. outcome[m] \cap {"discarded", "given up", "lost"} = {}
    BY <2>2
  <2>4. ~Settled(m)
    <3>1. ~(handled[m] > 0)
      BY <2>2
    <3> QED  BY <2>3, <3>1, Zenon DEF Settled
  <2> QED  BY <2>1, <2>2, <2>4
<1>3. ASSUME NEW r \in Retries, InQueue(m, r)
      PROVE  r = 0 /\ ready[m][r] = 1 /\ m \in Queued
  BY <1>1, <1>3 DEF InQueue
<1>4. m \in Queued => ~Unpublished(m)
  BY <1>1 DEF Unpublished
<1> QED  BY <1>2, <1>3, <1>4 DEF Once

\* A step that makes no new place, but may lose one.
LEMMA OnceShrinks ==
    ASSUME NEW m \in Messages, Once(m), handled'[m] = handled[m], Settled(m)' => Settled(m),
           \A r \in Retries : ready'[m][r] = ready[m][r],
           \A s \in Slots : Held(s, m)' => Held(s, m),
           Unpublished(m)' => Unpublished(m)
    PROVE  Once(m)'
<1>1. \A r \in Retries : InQueue(m, r)' => InQueue(m, r)
  BY DEF InQueue
<1> HIDE DEF InQueue, Held, Unpublished, Settled
<1> QED  BY <1>1 DEF Once

\* The copy takes the place of the delivery, or of the event that was published.
LEMMA OnceQueued ==
    ASSUME TypeInv, NEW m \in Messages, Once(m), NEW r \in Retries, OneMore(m, r),
           Unpublished(m) \/ \E s \in Slots : Held(s, m),
           UNCHANGED handled, Settled(m)' => Settled(m),
           \A s \in Slots : ~Held(s, m)', ~Unpublished(m)'
    PROVE  Once(m)'
<1>1. ready \in [Messages -> [Retries -> Nat]]
  BY CountTypes DEF TypeInv
<1>2. handled[m] <= 1 /\ ~Settled(m) /\ \A q \in Retries : ~InQueue(m, q)
  BY DEF Once
<1>3. ASSUME NEW q \in Retries, InQueue(m, q)' PROVE q = r /\ ready'[m][q] = 1
  BY <1>1, <1>2, <1>3 DEF InQueue, OneMore
<1>4. handled'[m] <= 1 /\ ~Settled(m)'
  BY <1>2
<1> QED  BY <1>3, <1>4 DEF Once

\* No place is left.
LEMMA OnceOver ==
    ASSUME NEW m \in Messages, handled'[m] <= 1, \A r \in Retries : ~InQueue(m, r)',
           \A s \in Slots : ~Held(s, m)', ~Unpublished(m)'
    PROVE  Once(m)'
  BY DEF Once

\* One copy less of a message that had one.
LEMMA OnceTaken ==
    ASSUME TypeInv, NEW m \in Messages, Once(m), NEW r \in Retries, ready[m][r] > 0, OneLess(m, r)
    PROVE  /\ ~Settled(m) /\ ~Unpublished(m) /\ \A s \in Slots : ~Held(s, m)
           /\ \A q \in Retries : ~InQueue(m, q)'
<1>1. ready \in [Messages -> [Retries -> Nat]]
  BY CountTypes DEF TypeInv
<1>2. InQueue(m, r)
  BY DEF InQueue
<1>3. ready[m][r] = 1 /\ \A q \in Retries : q # r => ~InQueue(m, q)
  BY <1>2 DEF Once
<1>4. ASSUME NEW q \in Retries PROVE ~InQueue(m, q)'
  BY <1>1, <1>3 DEF OneLess, InQueue
<1> QED  BY <1>2, <1>4 DEF Once

\* A message that nothing has happened to is settled only if it was.
LEMMA SettledAsBefore ==
    ASSUME NEW m \in Messages, handled'[m] = handled[m],
           outcome'[m] \in {outcome[m], outcome[m] \cup {"arrived"}}
    PROVE  Settled(m)' => Settled(m)
  BY DEF Settled

LEMMA Unsettled ==
    ASSUME TypeInv, NEW m \in Messages, ~Settled(m)
    PROVE  handled[m] = 0
<1>1. handled \in [Messages -> 0..2]
  BY CountTypes DEF TypeInv
<1>2. ~(handled[m] > 0)
  BY Zenon DEF Settled
<1> QED  BY <1>1, <1>2

LEMMA OnceStep == TypeInv /\ PubInv /\ OnceInv /\ [Next]_vars => OnceInv'
<1> SUFFICES ASSUME TypeInv, PubInv, OnceInv, [Next]_vars, NEW m \in Messages, m \notin redelivered'
             PROVE  Once(m)'
  BY DEF OnceInv
<1> USE BusAssumption
<1>1. /\ SlotInv /\ ready \in [Messages -> [Retries -> Nat]] /\ handled \in [Messages -> 0..2]
      /\ fate \in [Messages -> Publisher!Fates]
  BY CountTypes DEF TypeInv, Publisher!TypeOK
<1>2. m \notin redelivered => Once(m)
  BY DEF OnceInv
<1>3. UNCHANGED publisherVars => (Unpublished(m)' <=> Unpublished(m))
  BY DEF publisherVars, Unpublished
<1>4. CASE (Consumer!Follow \/ Consumer!Killed) /\ UNCHANGED publisherVars
  <2>1. m \notin redelivered /\ \A r \in Retries : ready'[m][r] = ready[m][r]
    BY <1>4, NotBack
  <2>2. \A s \in Slots : slot'[s] = slot[s] \/ slot'[s].stage = "free"
    BY <1>4, NotBack
  <2>3. \A s \in Slots : Held(s, m)' => Held(s, m)
    BY <2>2 DEF Held, Holding, Consumer!Stages
  <2>4. handled'[m] = handled[m] /\ (Settled(m)' => Settled(m))
    BY <1>4, FollowWhat, SettledAsBefore
  <2> QED  BY <1>2, <1>3, <1>4, <2>1, <2>3, <2>4, OnceShrinks
<1>5. CASE UNCHANGED consumerVars /\ (Unpublished(m)' => Unpublished(m))
  <2>1. m \notin redelivered /\ UNCHANGED <<handled, ready, slot>> /\ (Settled(m)' => Settled(m))
    BY <1>5 DEF consumerVars, Settled
  <2>2. \A s \in Slots : Held(s, m)' => Held(s, m)
    BY <2>1 DEF Held
  <2> QED  BY <1>2, <1>5, <2>1, <2>2, OnceShrinks
<1>6. CASE UNCHANGED publisherVars /\ (Consumer!Consume \/ Consumer!ProcessorStops)
  <2>1. UNCHANGED <<handled, ready, redelivered>> /\ (Settled(m)' => Settled(m))
    BY <1>6, SubscriptionWhat, SettledAsBefore
  <2>2. \A s \in Slots : slot'[s] = slot[s] \/ slot'[s].stage = "free"
    BY <1>6 DEF Consumer!Consume, Consumer!ProcessorStops, Consumer!Free
  <2>3. \A s \in Slots : Held(s, m)' => Held(s, m)
    BY <2>2 DEF Held, Holding, Consumer!Stages
  <2> QED  BY <1>2, <1>3, <1>6, <2>1, <2>3, OnceShrinks
<1>7. ASSUME UNCHANGED publisherVars, NEW s \in Slots, Handles(s) PROVE Once(m)'
  <2>1. /\ UNCHANGED <<ready, redelivered>> /\ Taken(s) /\ KeepsSlot(s) /\ Others(s)
        /\ UNCHANGED handled \/ HandledOnce(slot[s].msg)
        /\ UNCHANGED outcome \/ \E x : More(slot[s].msg, x)
        /\ UNCHANGED <<handled, outcome>> \/ slot'[s].stage = "finished"
    BY <1>7, HandlesWhat DEF From
  <2>2. Once(m)
    BY <1>2, <2>1
  <2>3. slot[s].stage \in Holding
    BY <1>7, HandlesWhat DEF From, Holding, Consumer!Stages
  <2>4. \A t \in Slots : Held(t, m)' => Held(t, m)
    BY <2>1, <2>3 DEF Held, KeepsSlot, Others
  <2>5. CASE handled'[m] = handled[m] /\ outcome'[m] = outcome[m]
    <3>1. Settled(m)' => Settled(m)
      BY <2>5, SettledAsBefore
    <3> QED  BY <1>3, <1>7, <2>1, <2>2, <2>4, <2>5, <3>1, OnceShrinks
  <2>6. CASE ~(handled'[m] = handled[m] /\ outcome'[m] = outcome[m])
    <3>1. /\ slot[s].msg = m /\ slot'[s].stage = "finished"
          /\ handled'[m] = handled[m] \/ HandledOnce(m)
      BY <2>1, <2>6 DEF HandledOnce, More
    <3>2. Held(s, m)
      BY <2>3, <3>1 DEF Held
    <3>3. /\ ~Settled(m) /\ ~Unpublished(m)
          /\ \A r \in Retries : ~InQueue(m, r)
          /\ \A t \in Slots : Held(t, m) => t = s
      BY <2>2, <3>2 DEF Once
    <3>4. \A t \in Slots : ~Held(t, m)'
      BY <2>4, <3>1, <3>3 DEF Held, Holding
    <3>5. handled'[m] <= 1
      BY <3>1, <3>3, Unsettled DEF HandledOnce
    <3>6. \A r \in Retries : ~InQueue(m, r)'
      BY <2>1, <3>3 DEF InQueue
    <3> QED  BY <1>3, <1>7, <3>3, <3>4, <3>5, <3>6, OnceOver
  <2> QED  BY <2>5, <2>6
<1>8. ASSUME UNCHANGED publisherVars, NEW s \in Slots, Ends(s) PROVE Once(m)'
  <2>1. UNCHANGED <<handled, redelivered>> /\ Taken(s) /\ Others(s)
    BY <1>8, EndsWhat
  <2>2. Once(m) /\ slot[s].msg \in Messages /\ slot[s].tries \in Retries
    BY <1>1, <1>2, <2>1, InSlot
  <2>3. \/ slot'[s].stage \in {"free", "retried"}
        \/ KeepsSlot(s) /\ From(s, "failed", "rejecting") /\ UNCHANGED ready
    BY <1>8, EndsWhat DEF From
  <2>4. \A t \in Slots : Held(t, m)' => Held(t, m)
    BY <2>1, <2>3 DEF Held, Holding, Consumer!Stages, KeepsSlot, From, Others
  <2>5. CASE (\A r \in Retries : ready'[m][r] = ready[m][r]) /\ outcome'[m] = outcome[m]
    <3>1. Settled(m)' => Settled(m)
      BY <2>1, <2>5, SettledAsBefore
    <3> QED  BY <1>3, <1>8, <2>1, <2>2, <2>4, <2>5, <3>1, OnceShrinks
  <2>6. CASE \E r \in Retries : ready'[m][r] # ready[m][r]
    <3>1. /\ slot[s].stage \in {"failed", "retrying"} /\ slot'[s].stage \in {"free", "retried"}
          /\ \/ OneMore(slot[s].msg, slot[s].tries)
             \/ slot[s].stage = "retrying" /\ OneMore(slot[s].msg, slot[s].tries + 1)
          /\ UNCHANGED outcome
      BY <1>8, <2>6, EndsWhat DEF From
    <3>2. slot[s].msg = m
      BY <2>6, <3>1 DEF OneMore
    <3>3. Held(s, m)
      BY <3>1, <3>2 DEF Held, Holding, Consumer!Stages
    <3>4. \A t \in Slots : ~Held(t, m)'
      BY <2>2, <2>4, <3>1, <3>3 DEF Once, Held, Holding, Consumer!Stages
    <3>5. ~Unpublished(m)'
      BY <1>3, <1>8, <2>2, <3>3 DEF Once
    <3>6. PICK r \in Retries : OneMore(m, r)
      <4>1. slot[s].stage = "retrying" => slot[s].tries + 1 \in Retries
        BY <1>1, <2>2 DEF SlotInv, Trying, Retries
      <4> QED  BY <2>2, <3>1, <3>2, <4>1
    <3>7. Settled(m)' => Settled(m)
      BY <2>1, <3>1, SettledAsBefore
    <3> QED  BY <2>1, <2>2, <3>3, <3>4, <3>5, <3>6, <3>7, OnceQueued
  <2>7. CASE outcome'[m] # outcome[m]
    <3>1. /\ slot[s].stage \in {"refused", "rejecting"} /\ slot'[s].stage = "free"
          /\ UNCHANGED ready /\ More(slot[s].msg, "lost")
      BY <1>8, <2>7, EndsWhat DEF From
    <3>2. slot[s].msg = m
      BY <2>7, <3>1 DEF More
    <3>3. Held(s, m)
      BY <3>1, <3>2 DEF Held, Holding, Consumer!Stages
    <3>4. \A t \in Slots : ~Held(t, m)'
      BY <2>2, <2>4, <3>1, <3>3 DEF Once, Held, Holding, Consumer!Stages
    <3>5. ~Unpublished(m)' /\ \A r \in Retries : ~InQueue(m, r)'
      BY <1>3, <1>8, <2>2, <3>1, <3>3 DEF Once, InQueue
    <3>6. handled'[m] <= 1
      BY <2>1, <2>2 DEF Once
    <3> QED  BY <3>4, <3>5, <3>6, OnceOver
  <2> QED  BY <2>5, <2>6, <2>7
<1>9. ASSUME UNCHANGED publisherVars, NEW s \in Slots, NEW n \in Messages, NEW k \in Retries,
             Consumer!Deliver(s, n, k)
      PROVE  Once(m)'
  <2>1. /\ UNCHANGED <<handled, outcome, redelivered>> /\ ready[n][k] > 0 /\ OneLess(n, k)
        /\ Others(s) /\ slot'[s].msg = n
    BY <1>9, DeliverWhat
  <2>2. Once(m) /\ (Settled(m)' => Settled(m))
    BY <1>2, <2>1, SettledAsBefore
  <2>3. CASE m = n
    <3>1. /\ ~Settled(m) /\ ~Unpublished(m) /\ \A t \in Slots : ~Held(t, m)
          /\ \A q \in Retries : ~InQueue(m, q)'
      BY <2>1, <2>2, <2>3, OnceTaken
    <3>2. \A t \in Slots : Held(t, m)' => t = s
      BY <2>1, <3>1 DEF Held, Others
    <3>3. handled'[m] <= 1 /\ ~Settled(m)' /\ ~Unpublished(m)'
      BY <1>3, <1>9, <2>1, <2>2, <3>1 DEF Once
    <3> QED  BY <3>1, <3>2, <3>3 DEF Once
  <2>4. CASE m # n
    <3>1. \A r \in Retries : ready'[m][r] = ready[m][r]
      BY <2>1, <2>4 DEF OneLess
    <3>2. \A t \in Slots : Held(t, m)' => Held(t, m)
      BY <2>1, <2>4 DEF Held, Others
    <3> QED  BY <1>3, <1>9, <2>1, <2>2, <3>1, <3>2, OnceShrinks
  <2> QED  BY <2>3, <2>4
<1>10. ASSUME UNCHANGED publisherVars, NEW n \in Messages, NEW k \in Retries,
              Consumer!HandledElsewhere(n, k)
       PROVE  Once(m)'
  <2>1. /\ UNCHANGED <<slot, outcome, redelivered>> /\ ready[n][k] > 0 /\ OneLess(n, k)
        /\ HandledOnce(n)
    BY <1>10, ElsewhereWhat
  <2>2. Once(m) /\ \A t \in Slots : Held(t, m)' => Held(t, m)
    BY <1>2, <2>1 DEF Held
  <2>3. CASE m = n
    <3>1. /\ ~Settled(m) /\ ~Unpublished(m) /\ \A t \in Slots : ~Held(t, m)
          /\ \A q \in Retries : ~InQueue(m, q)'
      BY <2>1, <2>2, <2>3, OnceTaken
    <3>2. handled'[m] <= 1
      BY <2>1, <2>3, <3>1, Unsettled DEF HandledOnce
    <3> QED  BY <1>3, <1>10, <2>2, <3>1, <3>2, OnceOver
  <2>4. CASE m # n
    <3>1. handled'[m] = handled[m] /\ \A r \in Retries : ready'[m][r] = ready[m][r]
      BY <2>1, <2>4 DEF OneLess, HandledOnce
    <3>2. Settled(m)' => Settled(m)
      BY <2>1, <3>1, SettledAsBefore
    <3> QED  BY <1>3, <1>10, <2>2, <3>1, <3>2, OnceShrinks
  <2> QED  BY <2>3, <2>4
<1>11. ASSUME NEW w \in Workers, Publisher!Published(w), Consumer!Arrives(worker[w].event)
       PROVE  Once(m)'
  <2>1. /\ worker[w].event \in Messages /\ BusyWith(w, worker[w].event)
        /\ fate'[worker[w].event] \in {"published", "failed"}
        /\ \A n \in Messages : n # worker[w].event => fate'[n] = fate[n]
    BY <1>11, WorkerWhat
  <2>2. /\ UNCHANGED <<slot, handled, redelivered>>
        /\ UNCHANGED ready \/ OneMore(worker[w].event, 0)
        /\ UNCHANGED outcome \/ More(worker[w].event, "arrived")
    BY <1>11, <2>1, ArrivesWhat
  <2>3. Once(m) /\ \A t \in Slots : Held(t, m)' => Held(t, m)
    BY <1>2, <2>2 DEF Held
  <2>4. Unpublished(m)' => Unpublished(m) /\ m # worker[w].event
    BY <2>1 DEF Unpublished
  <2>5. Settled(m)' => Settled(m)
    <3>1. outcome'[m] \in {outcome[m], outcome[m] \cup {"arrived"}}
      BY <2>2 DEF More
    <3> QED  BY <2>2, <3>1, SettledAsBefore
  <2>6. CASE UNCHANGED ready \/ m # worker[w].event
    <3>1. \A r \in Retries : ready'[m][r] = ready[m][r]
      BY <2>2, <2>6 DEF OneMore
    <3> QED  BY <2>2, <2>3, <2>4, <2>5, <3>1, OnceShrinks
  <2>7. CASE OneMore(m, 0) /\ m = worker[w].event
    <3>1. Unpublished(m)
      BY <2>1, <2>7 DEF PubInv, Unpublished
    <3>2. \A t \in Slots : ~Held(t, m)'
      BY <2>3, <3>1 DEF Once
    <3>3. 0 \in Retries
      BY DEF Retries
    <3> QED  BY <2>2, <2>3, <2>4, <2>5, <2>7, <3>1, <3>2, <3>3, OnceQueued
  <2> QED  BY <2>2, <2>6, <2>7
<1>12. Crash => Consumer!Killed /\ UNCHANGED publisherVars
  BY DEF Crash
<1>13. UNCHANGED vars => UNCHANGED consumerVars /\ UNCHANGED publisherVars
  BY DEF vars
<1>14. Unpublished(m)' => Unpublished(m)
  BY PublishedStays
<1> QED
  BY <1>4, <1>5, <1>6, <1>7, <1>8, <1>9, <1>10, <1>11, <1>12, <1>13, <1>14, Steps

\* An effect is repeated only for a message that the server has given out again:
\* the publisher hands over an event once, and neither a retry nor a failed
\* publication of its copy makes a second one of the same message.
THEOREM RepeatsAreRedelivered == Spec => []RepeatsNeedRedelivery
<1>1. TypeInv /\ OnceInv => RepeatsNeedRedelivery
  BY DEF OnceInv, Once, RepeatsNeedRedelivery
<1> QED
  BY <1>1, TypeInit, TypeStep, PubInit, PubStep, OnceInit, OnceStep, PTL DEF Spec

-----------------------------------------------------------------------------
(* The promise of MessageDelivery                                          *)

\* Copies are of messages that have arrived, and a delivery for which the server
\* does not wait any more is one that it has given out again.
CopiesArrived ==
    /\ \A m \in Messages, r \in Retries : ready[m][r] > 0 => "arrived" \in outcome[m]
    /\ \A s \in Slots : Taken(s) =>
          /\ "arrived" \in outcome[slot[s].msg]
          /\ s \in unacked \/ slot[s].msg \in redelivered

\* What the publisher still has has not arrived yet.
OriginInv ==
    /\ CopiesArrived
    /\ \A m \in Messages : Unpublished(m) => "arrived" \notin outcome[m]

LEMMA OriginInit == Init => OriginInv
<1> SUFFICES ASSUME Init PROVE OriginInv
  OBVIOUS
<1>1. /\ slot = [s \in Slots |-> Consumer!Free]
      /\ outcome = [n \in Messages |-> IF bound /\ n \in Queued THEN {"arrived"} ELSE {}]
      /\ ready = [n \in Messages |-> [r \in Retries |->
                    IF bound /\ n \in Queued /\ r = 0 THEN 1 ELSE 0]]
      /\ fate = [n \in Messages |-> IF n \in Queued THEN "published" ELSE "new"]
  BY DEF Init, Consumer!Init, Publisher!Init, Consumer!Retries, Retries
<1>2. \A s \in Slots : ~Taken(s)
  BY <1>1 DEF Taken, Consumer!Free
<1> QED  BY <1>1, <1>2 DEF OriginInv, CopiesArrived, Unpublished

\* A message arrives when the publisher lets go of it.
LEMMA ArrivalIsPublication ==
    ASSUME TypeInv, PubInv, [Next]_vars, NEW m \in Messages,
           "arrived" \in outcome'[m], "arrived" \notin outcome[m]
    PROVE  Unpublished(m) /\ ~Unpublished(m)'
<1> USE BusAssumption
<1>1. \A s \in Slots : Taken(s) => slot[s].msg \in Messages
  BY InSlot DEF TypeInv
<1>2. ASSUME NEW n \in Messages, NEW x \in {"discarded", "given up", "lost"}, More(n, x)
      PROVE  FALSE
  <2>1. outcome'[m] = outcome[m] \/ outcome'[m] = outcome[m] \cup {x}
    BY <1>2 DEF More
  <2>2. x # "arrived"
    OBVIOUS
  <2> QED  BY <2>1, <2>2
<1>3. outcome' # outcome
  OBVIOUS
<1>4. \A s \in Slots : ~Handles(s)
  <2> SUFFICES ASSUME NEW s \in Slots, Handles(s) PROVE FALSE
    OBVIOUS
  <2>1. slot[s].msg \in Messages
    BY <1>1, HandlesWhat
  <2>2. \E x \in {"discarded", "given up"} : More(slot[s].msg, x)
    BY <1>3, HandlesWhat
  <2> QED  BY <1>2, <2>1, <2>2
<1>5. \A s \in Slots : ~Ends(s)
  <2> SUFFICES ASSUME NEW s \in Slots, Ends(s) PROVE FALSE
    OBVIOUS
  <2>1. slot[s].msg \in Messages
    BY <1>1, EndsWhat
  <2>2. More(slot[s].msg, "lost")
    BY <1>3, EndsWhat
  <2> QED  BY <1>2, <2>1, <2>2
<1>6. ~(Consumer!Follow \/ Consumer!Killed) /\ ~(Consumer!Consume \/ Consumer!ProcessorStops)
  BY <1>3, FollowWhat, SubscriptionWhat
<1>7. \A s \in Slots, n \in Messages, r \in Retries : ~Consumer!Deliver(s, n, r)
  BY <1>3, DeliverWhat
<1>8. \A n \in Messages, r \in Retries : ~Consumer!HandledElsewhere(n, r)
  BY <1>3, ElsewhereWhat
<1>9. ~UNCHANGED consumerVars /\ ~UNCHANGED vars
  BY <1>3 DEF consumerVars, vars
<1>10. PICK w \in Workers : Publisher!Published(w) /\ Consumer!Arrives(worker[w].event)
  BY <1>4, <1>5, <1>6, <1>7, <1>8, <1>9, Steps DEF Crash
<1>11. /\ worker[w].event \in Messages /\ BusyWith(w, worker[w].event)
       /\ fate'[worker[w].event] \in {"published", "failed"}
  BY <1>10, WorkerWhat
<1>12. worker[w].event = m
  <2>1. More(worker[w].event, "arrived")
    BY <1>3, <1>10, <1>11, ArrivesWhat
  <2> QED  BY <2>1 DEF More
<1> QED  BY <1>11, <1>12 DEF PubInv, Unpublished

\* What a step may make of the copies.
LEMMA CopiesKept ==
    ASSUME TypeInv, CopiesArrived, [Next]_vars,
           \A m \in Messages, r \in Retries :
              ready'[m][r] > 0 => ready[m][r] > 0 \/ "arrived" \in outcome[m] \/ "arrived" \in outcome'[m],
           \A s \in Slots : slot'[s].stage # "free" =>
              \/ /\ Taken(s) /\ slot'[s].msg = slot[s].msg
                 /\ s \in unacked => s \in unacked' \/ slot[s].msg \in redelivered'
              \/ s \in unacked' /\ slot'[s].msg \in Messages /\ "arrived" \in outcome[slot'[s].msg]
    PROVE  CopiesArrived'
<1>1. \A m \in Messages :
         outcome[m] \subseteq outcome'[m] /\ (m \in redelivered => m \in redelivered')
  BY HistoryGrows
<1>2. \A s \in Slots : Taken(s) => slot[s].msg \in Messages
  BY InSlot DEF TypeInv
<1>3. \A m \in Messages, r \in Retries : ready'[m][r] > 0 => "arrived" \in outcome'[m]
  BY <1>1 DEF CopiesArrived
<1>4. ASSUME NEW s \in Slots, slot'[s].stage # "free"
      PROVE  /\ "arrived" \in outcome'[slot'[s].msg]
             /\ s \in unacked' \/ slot'[s].msg \in redelivered'
  <2>1. CASE /\ Taken(s) /\ slot'[s].msg = slot[s].msg
             /\ s \in unacked => s \in unacked' \/ slot[s].msg \in redelivered'
    <3>1. "arrived" \in outcome[slot[s].msg] /\ (s \in unacked \/ slot[s].msg \in redelivered)
      BY <2>1 DEF CopiesArrived
    <3> QED  BY <1>1, <1>2, <2>1, <3>1
  <2>2. CASE s \in unacked' /\ slot'[s].msg \in Messages /\ "arrived" \in outcome[slot'[s].msg]
    BY <1>1, <2>2
  <2> QED  BY <1>4, <2>1, <2>2
<1> QED  BY <1>3, <1>4 DEF CopiesArrived, Taken

LEMMA CopiesStep == TypeInv /\ CopiesArrived /\ [Next]_vars => CopiesArrived'
<1> SUFFICES ASSUME TypeInv, CopiesArrived, [Next]_vars
             PROVE  CopiesArrived'
  OBVIOUS
<1> USE BusAssumption
<1>1. /\ SlotInv /\ ready \in [Messages -> [Retries -> Nat]]
      /\ \A s \in Slots : Taken(s) => slot[s].msg \in Messages /\ slot[s].tries \in Retries
  BY CountTypes, InSlot DEF TypeInv
<1>2. CASE Consumer!Follow \/ Consumer!Killed
  <2>1. \A s \in Slots : slot'[s] = slot[s] \/ slot'[s].stage = "free"
    BY <1>2, NotBack
  <2>2. CASE Consumer!Requeued
    <3>1. ASSUME NEW m \in Messages, NEW r \in Retries, ready'[m][r] > 0
          PROVE  ready[m][r] > 0 \/ "arrived" \in outcome[m]
      <4>1. ready[m][r] > 0 \/ Back(m, r) # {}
        BY <1>1, <2>2, <3>1, RequeuedReady
      <4>2. ASSUME NEW s \in Back(m, r) PROVE "arrived" \in outcome[m]
        <5>1. s \in unacked /\ s \in Slots /\ Taken(s) /\ slot[s].msg = m
          BY <1>1, <4>2, CountTypes DEF Back, SlotInv, Taken
        <5> QED  BY <5>1 DEF CopiesArrived
      <4> QED  BY <4>1, <4>2
    <3>2. \A s \in unacked : slot[s].msg \in redelivered'
      BY <2>2 DEF Consumer!Requeued
    <3> QED  BY <2>1, <3>1, <3>2, CopiesKept DEF Taken
  <2>3. CASE UNCHANGED <<ready, unacked>>
    BY <2>1, <2>3, CopiesKept DEF Taken
  <2> QED  BY <1>2, <2>2, <2>3 DEF Consumer!Follow, Consumer!Killed
<1>3. CASE UNCHANGED consumerVars
  BY <1>3 DEF consumerVars, CopiesArrived, Taken
<1>4. CASE Consumer!Consume \/ Consumer!ProcessorStops
  <2>1. UNCHANGED <<ready, unacked>>
    BY <1>4, SubscriptionWhat
  <2>2. \A s \in Slots : slot'[s] = slot[s] \/ slot'[s].stage = "free"
    BY <1>4 DEF Consumer!Consume, Consumer!ProcessorStops, Consumer!Free
  <2> QED  BY <2>1, <2>2, CopiesKept DEF Taken
<1>5. ASSUME NEW s \in Slots, Handles(s) PROVE CopiesArrived'
  <2>1. UNCHANGED <<ready, unacked>> /\ Taken(s) /\ KeepsSlot(s) /\ Others(s)
    BY <1>5, HandlesWhat
  <2> QED  BY <2>1, CopiesKept DEF Taken, KeepsSlot, Others
<1>6. ASSUME NEW s \in Slots, Ends(s) PROVE CopiesArrived'
  <2>1. Taken(s) /\ Others(s) /\ UNCHANGED redelivered
    BY <1>6, EndsWhat
  <2>2. \/ slot'[s].stage = "free" /\ unacked' = unacked \ {s}
        \/ KeepsSlot(s) /\ UNCHANGED unacked
    BY <1>6, EndsWhat
  <2>3. ASSUME NEW m \in Messages, NEW r \in Retries, ready'[m][r] > 0
        PROVE  ready[m][r] > 0 \/ "arrived" \in outcome[m]
    <3>1. \/ UNCHANGED ready
          \/ OneMore(slot[s].msg, slot[s].tries)
          \/ OneMore(slot[s].msg, slot[s].tries + 1)
      BY <1>6, EndsWhat
    <3>2. ready'[m][r] = ready[m][r] \/ m = slot[s].msg
      BY <3>1 DEF OneMore
    <3> QED  BY <2>1, <2>3, <3>2 DEF CopiesArrived
  <2> QED  BY <2>1, <2>2, <2>3, CopiesKept DEF Taken, KeepsSlot, Others
<1>7. ASSUME NEW s \in Slots, NEW m \in Messages, NEW r \in Retries, Consumer!Deliver(s, m, r)
      PROVE  CopiesArrived'
  <2>1. /\ ready[m][r] > 0 /\ OneLess(m, r) /\ unacked' = unacked \cup {s} /\ Others(s)
        /\ slot'[s].msg = m
    BY <1>7, DeliverWhat
  <2>2. "arrived" \in outcome[m]
    BY <2>1 DEF CopiesArrived
  <2>3. \A n \in Messages, q \in Retries : ready'[n][q] > 0 => ready[n][q] > 0
    BY <1>1, <2>1 DEF OneLess
  <2> QED  BY <2>1, <2>2, <2>3, CopiesKept DEF Taken, Others
<1>8. ASSUME NEW m \in Messages, NEW r \in Retries, Consumer!HandledElsewhere(m, r)
      PROVE  CopiesArrived'
  <2>1. UNCHANGED <<slot, unacked>> /\ OneLess(m, r)
    BY <1>8, ElsewhereWhat
  <2>2. \A n \in Messages, q \in Retries : ready'[n][q] > 0 => ready[n][q] > 0
    BY <1>1, <2>1 DEF OneLess
  <2> QED  BY <2>1, <2>2, CopiesKept DEF Taken
<1>9. ASSUME NEW m \in Messages, Consumer!Arrives(m) PROVE CopiesArrived'
  <2>1. UNCHANGED <<slot, unacked>> /\ (UNCHANGED ready \/ (OneMore(m, 0) /\ More(m, "arrived")))
    BY <1>9, ArrivesWhat
  <2>2. \A n \in Messages, q \in Retries : ready'[n][q] > 0 => ready[n][q] > 0 \/ "arrived" \in outcome'[n]
    BY <1>1, <2>1 DEF OneMore, More
  <2> QED  BY <2>1, <2>2, CopiesKept DEF Taken
<1>10. Crash => Consumer!Killed
  BY DEF Crash
<1>11. UNCHANGED vars => UNCHANGED consumerVars
  BY DEF vars
<1> QED
  BY <1>2, <1>3, <1>4, <1>5, <1>6, <1>7, <1>8, <1>9, <1>10, <1>11, Steps, PublishedWhat

LEMMA OriginStep == TypeInv /\ PubInv /\ OriginInv /\ [Next]_vars => OriginInv'
<1> SUFFICES ASSUME TypeInv, PubInv, OriginInv, [Next]_vars PROVE OriginInv'
  OBVIOUS
<1>1. CopiesArrived'
  BY CopiesStep DEF OriginInv
<1>2. ASSUME NEW m \in Messages, Unpublished(m)' PROVE "arrived" \notin outcome'[m]
  <2>1. Unpublished(m) /\ "arrived" \notin outcome[m]
    BY <1>2, PublishedStays DEF OriginInv
  <2> QED  BY <1>2, <2>1, ArrivalIsPublication
<1> QED  BY <1>1, <1>2 DEF OriginInv

\* The abstract variables, message by message.
Stays(m) == Waiting(m) \/ \E s \in unacked : slot[s].msg = m

Open(m) == "arrived" \in outcome[m] /\ (~Settled(m) \/ m \in redelivered)

SameKept == \A m \in Messages : Stays(m)' <=> Stays(m)

KeptBut(m) == \A n \in Messages : n # m => (Stays(n)' <=> Stays(n))

LEMMA OpenIsPending ==
    ASSUME TypeInv, NEW m \in Messages
    PROVE  /\ Settled(m) <=> Delivery!Settled(m)
           /\ Open(m) <=> Delivery!Pending(m)
<1>1. outcome \in [Messages -> Outcomes]
  BY CountTypes DEF TypeInv
<1>2. Disposals[m] = outcome[m] \ {"arrived"}
  BY DEF Disposals
<1>3. outcome[m] \cap {"discarded", "given up", "lost"} # {} <=> Disposals[m] # {}
  BY <1>1, <1>2 DEF Outcomes
<1>4. Settled(m) <=> Delivery!Settled(m)
  BY <1>3, Zenon DEF Settled, Delivery!Settled
<1>5. "arrived" \in outcome[m] <=> m \in Arrivals
  BY DEF Arrivals
<1> QED  BY <1>4, <1>5, Zenon DEF Open, Delivery!Pending

LEMMA KeptSets ==
    /\ SameKept => StillKept' = StillKept
    /\ \A m \in Messages : KeptBut(m) => StillKept' \cup {m} = StillKept \cup {m}
    /\ \A m \in Messages : m \in StillKept <=> Stays(m)
    /\ \A m \in Messages : m \in StillKept' <=> Stays(m)'
<1>1. StillKept = {m \in Messages : Stays(m)} /\ StillKept' = {m \in Messages : Stays(m)'}
  BY DEF StillKept, Stays
<1> HIDE DEF Stays
<1>2. SameKept => StillKept' = StillKept
  BY <1>1 DEF SameKept
<1>3. \A m \in Messages : KeptBut(m) => StillKept' \cup {m} = StillKept \cup {m}
  BY <1>1 DEF KeptBut
<1> QED  BY <1>1, <1>2, <1>3

LEMMA MayLeave ==
    ASSUME NEW m \in Messages, KeptBut(m), Stays(m)' => Stays(m)
    PROVE  Delivery!MayLeave(m)
<1>1. m \in StillKept' => m \in StillKept
  BY KeptSets
<1>2. StillKept' \cup {m} = StillKept \cup {m}
  BY KeptSets
<1>3. StillKept' = StillKept \/ StillKept' = StillKept \ {m}
  BY <1>1, <1>2
<1> QED  BY <1>3 DEF Delivery!MayLeave

\* The history as the abstract variables have it.
LEMMA SameHistory ==
    UNCHANGED outcome => Arrivals' = Arrivals /\ Disposals' = Disposals
  BY DEF Arrivals, Disposals

LEMMA Disposed ==
    ASSUME NEW m \in Messages, NEW x \in {"discarded", "given up", "lost"}, More(m, x)
    PROVE  /\ Arrivals' = Arrivals
           /\ Disposals' = [Disposals EXCEPT ![m] = @ \cup {x}]
<1>1. x # "arrived"
  OBVIOUS
<1>2. \A n \in Messages : "arrived" \in outcome'[n] <=> "arrived" \in outcome[n]
  BY <1>1 DEF More
<1>3. \A n \in Messages :
         outcome'[n] \ {"arrived"} = IF n = m THEN (outcome[n] \ {"arrived"}) \cup {x}
                                     ELSE outcome[n] \ {"arrived"}
  BY <1>1 DEF More
<1>4. Arrivals' = Arrivals
  BY <1>2 DEF Arrivals
<1>5. /\ Disposals = [n \in Messages |-> outcome[n] \ {"arrived"}]
      /\ Disposals' = [n \in Messages |-> outcome'[n] \ {"arrived"}]
  BY DEF Disposals
<1>6. Disposals' = [Disposals EXCEPT ![m] = @ \cup {x}]
  BY <1>3, <1>5
<1> QED  BY <1>4, <1>6

LEMMA Arrived ==
    ASSUME NEW m \in Messages, More(m, "arrived")
    PROVE  /\ Arrivals' = Arrivals \cup {m}
           /\ Disposals' = Disposals
<1>1. \A n \in Messages : "arrived" \in outcome'[n] <=> "arrived" \in outcome[n] \/ n = m
  BY DEF More
<1>2. \A n \in Messages : outcome'[n] \ {"arrived"} = outcome[n] \ {"arrived"}
  BY DEF More
<1>3. Arrivals' = Arrivals \cup {m}
  BY <1>1 DEF Arrivals
<1>4. Disposals' = Disposals
  BY <1>2 DEF Disposals
<1> QED  BY <1>3, <1>4

LEMMA AsFunctions ==
    ASSUME TypeInv, TypeInv', NEW m \in Messages
    PROVE  /\ FailedOnce(m) =>
                failures' = [failures EXCEPT ![m] = IF @ <= MaxRetries THEN @ + 1 ELSE @]
           /\ HandledOnce(m) => handled' = [handled EXCEPT ![m] = IF @ < 2 THEN @ + 1 ELSE @]
<1>1. /\ failures \in [Messages -> 0..(MaxRetries + 1)] /\ failures' \in [Messages -> 0..(MaxRetries + 1)]
      /\ handled \in [Messages -> 0..2] /\ handled' \in [Messages -> 0..2]
  BY DEF TypeInv, SlotInv, Consumer!TypeOK
<1>2. FailedOnce(m) =>
         failures' = [failures EXCEPT ![m] = IF @ <= MaxRetries THEN @ + 1 ELSE @]
  BY <1>1 DEF FailedOnce
<1>3. HandledOnce(m) => handled' = [handled EXCEPT ![m] = IF @ < 2 THEN @ + 1 ELSE @]
  BY <1>1 DEF HandledOnce
<1> QED  BY <1>2, <1>3

\* What stays with the message of a delivery that is moved on.
LEMMA MovedOn ==
    ASSUME TypeInv, NEW s \in Slots, UNCHANGED <<ready, unacked>>, KeepsSlot(s), Others(s)
    PROVE  SameKept
<1>1. unacked \in SUBSET Slots
  BY CountTypes DEF TypeInv
<1>2. \A t \in unacked : slot'[t].msg = slot[t].msg
  BY <1>1 DEF KeepsSlot, Others
<1> QED  BY <1>2 DEF SameKept, Stays, Waiting

\* What may still happen to a message: in the queue or in a slot it is open.
LEMMA OpenPlaces ==
    ASSUME TypeInv, OnceInv, OriginInv
    PROVE  /\ \A m \in Messages, r \in Retries : ready[m][r] > 0 => Open(m)
           /\ \A s \in Slots : slot[s].stage \in Holding => Open(slot[s].msg)
<1>1. \A s \in Slots : Taken(s) => slot[s].msg \in Messages
  BY InSlot DEF TypeInv
<1>2. ASSUME NEW m \in Messages, NEW r \in Retries, ready[m][r] > 0 PROVE Open(m)
  <2>1. "arrived" \in outcome[m]
    BY <1>2 DEF OriginInv, CopiesArrived
  <2>2. m \notin redelivered => ~Settled(m)
    BY <1>2 DEF OnceInv, Once, InQueue
  <2> QED  BY <2>1, <2>2 DEF Open
<1>3. ASSUME NEW s \in Slots, slot[s].stage \in Holding PROVE Open(slot[s].msg)
  <2>1. Taken(s) /\ slot[s].msg \in Messages /\ Held(s, slot[s].msg)
    BY <1>1, <1>3 DEF Held, Holding, Taken, Consumer!Stages
  <2>2. "arrived" \in outcome[slot[s].msg]
    BY <2>1 DEF OriginInv, CopiesArrived
  <2>3. slot[s].msg \notin redelivered => ~Settled(slot[s].msg)
    BY <2>1 DEF OnceInv, Once
  <2> QED  BY <2>2, <2>3 DEF Open
<1> QED  BY <1>2, <1>3

\* Only what is settled is let go.
LEMMA OnlySettledGoes ==
    ASSUME TypeInv, VanishInv, CopiesArrived, [Next]_vars, NEW m \in Messages, Stays(m), ~Stays(m)'
    PROVE  Settled(m)'
<1>1. "arrived" \in outcome[m]
  <2>1. CASE Waiting(m)
    BY <2>1 DEF Waiting, CopiesArrived, Retries
  <2>2. CASE \E s \in unacked : slot[s].msg = m
    <3>1. PICK s \in unacked : slot[s].msg = m
      BY <2>2
    <3>2. s \in Slots /\ Taken(s)
      BY CountTypes DEF TypeInv, SlotInv, Taken
    <3> QED  BY <3>1, <3>2 DEF CopiesArrived
  <2> QED  BY <2>1, <2>2 DEF Stays
<1>2. "arrived" \in outcome'[m]
  BY <1>1, HistoryGrows
<1>3. Kept(m, 0)'
  BY <1>2, VanishStep DEF VanishInv
<1> QED  BY <1>3 DEF Kept, Stays, Waiting, Retries

Promised == [Delivery!Next]_(Delivery!vars)

LEMMA NothingToSee ==
    ASSUME SameKept, Closing' = Closing, UNCHANGED <<failures, handled, outcome, redelivered>>
    PROVE  Promised
  BY KeptSets, SameHistory DEF Promised, Delivery!vars

LEMMA HandlesPromise ==
    ASSUME TypeInv, TypeInv', FailInv, OnceInv, OriginInv, Closing' = Closing,
           NEW s \in Slots, Handles(s)
    PROVE  Promised
<1> DEFINE m == slot[s].msg
<1>1. /\ UNCHANGED <<ready, unacked, redelivered>> /\ Taken(s) /\ KeepsSlot(s) /\ Others(s)
      /\ m \in Messages
  BY HandlesWhat, InSlot DEF TypeInv
<1>2. SameKept /\ StillKept' = StillKept
  BY <1>1, MovedOn, KeptSets
<1>3. slot[s].stage \in {"handling", "exhausted"} => Delivery!Pending(m)
  BY <1>1, OpenPlaces, OpenIsPending DEF Holding, Consumer!Stages
<1> HIDE DEF m
<1>4. ASSUME NEW x \in {"discarded", "given up"}, More(m, x), UNCHANGED <<failures, handled>>,
             slot[s].stage \in {"handling", "exhausted"}, Delivery!Reason(m, x)
      PROVE  Promised
  <2>1. /\ Arrivals' = Arrivals
        /\ Disposals' = [Disposals EXCEPT ![m] = @ \cup {x}]
    BY <1>1, <1>4, Disposed
  <2>2. Delivery!Dispose(m, x)
    BY <1>1, <1>2, <1>3, <1>4, <2>1 DEF Delivery!Dispose, Delivery!MayLeave
  <2> QED  BY <1>1, <2>2 DEF Promised, Delivery!Next
<1>5. CASE UNCHANGED <<failures, handled, outcome>>
  BY <1>1, <1>2, <1>5, NothingToSee
<1>6. CASE /\ UNCHANGED <<failures, handled>> /\ m \in Unhandled
           /\ From(s, "handling", "finished") /\ More(m, "discarded")
  BY <1>4, <1>6 DEF From, Delivery!Reason
<1>7. CASE /\ UNCHANGED <<failures, handled>>
           /\ From(s, "exhausted", "finished") /\ More(m, "given up")
  <2>1. failures[m] > MaxRetries
    BY <1>1, <1>7 DEF FailInv, From, m
  <2> QED  BY <1>4, <1>7, <2>1 DEF From, Delivery!Reason
<1>8. CASE /\ UNCHANGED <<failures, outcome>> /\ m \notin Unhandled
           /\ From(s, "handling", "finished") /\ HandledOnce(m)
  <2>1. Delivery!Effect(m)
    BY <1>1, <1>2, <1>3, <1>8, AsFunctions, SameHistory
    DEF From, Delivery!Effect, Delivery!MayLeave
  <2> QED  BY <1>1, <2>1 DEF Promised, Delivery!Next
<1>9. CASE /\ UNCHANGED <<handled, outcome>> /\ m \notin Unhandled /\ FailedOnce(m)
            /\ slot[s].stage = "handling"
  <2>1. Delivery!Fail(m)
    BY <1>1, <1>2, <1>3, <1>9, AsFunctions, SameHistory DEF Delivery!Fail
  <2> QED  BY <1>1, <2>1 DEF Promised, Delivery!Next
<1> QED  BY <1>5, <1>6, <1>7, <1>8, <1>9, HandlesWhat DEF From, m

LEMMA EndsPromise ==
    ASSUME TypeInv, FailInv, LostInv, VanishInv, OnceInv, OriginInv, [Next]_vars, Closing' = Closing,
           NEW s \in Slots, Ends(s)
    PROVE  Promised
<1> USE BusAssumption
<1>1. /\ UNCHANGED <<failures, handled, redelivered>> /\ Taken(s) /\ Others(s)
      /\ slot[s].msg \in Messages /\ slot[s].tries \in Retries
      /\ SlotInv /\ unacked \in SUBSET Slots /\ ready \in [Messages -> [Retries -> Nat]]
  BY EndsWhat, InSlot, CountTypes DEF TypeInv
<1>2. PICK m \in Messages : m = slot[s].msg
  BY <1>1
<1>3. \A t \in unacked : t # s => slot'[t].msg = slot[t].msg
  BY <1>1 DEF Others
<1>4. CASE slot'[s].stage = "free" /\ unacked' = unacked \ {s} /\ UNCHANGED ready
  <2>1. \A n \in Messages : Waiting(n)' <=> Waiting(n)
    BY <1>4 DEF Waiting
  <2>2. ASSUME NEW n \in Messages, n # m
        PROVE  (\E t \in unacked' : slot'[t].msg = n) <=> (\E t \in unacked : slot[t].msg = n)
    BY <1>2, <1>3, <1>4, <2>2
  <2>3. (\E t \in unacked' : slot'[t].msg = m) => (\E t \in unacked : slot[t].msg = m)
    BY <1>3, <1>4
  <2>4. s \notin unacked => SameKept
    BY <1>3, <1>4, <2>1 DEF SameKept, Stays
  <2>5. KeptBut(m) /\ (Stays(m)' => Stays(m))
    BY <2>1, <2>2, <2>3 DEF KeptBut, Stays
  <2>6. CASE UNCHANGED outcome
    <3>1. CASE Stays(m) /\ ~Stays(m)'
      <4>1. Settled(m)' /\ UNCHANGED <<handled, outcome>>
        BY <1>1, <2>6, <3>1, OnlySettledGoes DEF OriginInv
      <4>2. Delivery!Settled(m)
        <5>1. Settled(m)
          BY <4>1 DEF Settled
        <5> QED  BY <1>1, <5>1, OpenIsPending
      <4>3. StillKept' = StillKept \ {m}
        <5>1. m \notin StillKept' /\ StillKept' \cup {m} = StillKept \cup {m}
          BY <1>1, <2>5, <3>1, KeptSets
        <5> QED  BY <5>1
      <4>4. Delivery!LetGo(m)
        BY <1>1, <2>6, <4>2, <4>3, SameHistory DEF Delivery!LetGo
      <4> QED  BY <1>1, <4>4 DEF Promised, Delivery!Next
    <3>2. CASE ~(Stays(m) /\ ~Stays(m)')
      <4>1. SameKept
        BY <2>5, <3>2 DEF SameKept, KeptBut
      <4> QED  BY <1>1, <2>6, <4>1, NothingToSee
    <3> QED  BY <3>1, <3>2
  <2>7. CASE More(m, "lost") /\ slot[s].stage \in {"refused", "rejecting"} /\ s \in unacked
    <3>1. Delivery!Pending(m)
      BY <1>2, <1>1, <2>7, OpenPlaces, OpenIsPending DEF Holding, Consumer!Stages
    <3>2. Delivery!Reason(m, "lost")
      <4>1. slot[s].stage = "refused" => failures[m] > MaxRetries
        BY <1>2, <1>1 DEF FailInv
      <4>2. slot[s].stage = "rejecting" => Closing
        BY <2>7 DEF LostInv, Closing
      <4> QED  BY <2>7, <4>1, <4>2 DEF Delivery!Reason
    <3>3. Delivery!MayLeave(m)
      BY <1>1, <2>5, MayLeave
    <3>4. /\ Arrivals' = Arrivals
          /\ Disposals' = [Disposals EXCEPT ![m] = @ \cup {"lost"}]
      BY <1>1, <2>7, Disposed
    <3>5. Delivery!Dispose(m, "lost")
      BY <1>1, <3>1, <3>2, <3>3, <3>4 DEF Delivery!Dispose
    <3> QED  BY <1>1, <3>5 DEF Promised, Delivery!Next
  <2> QED  BY <1>2, <1>4, <2>6, <2>7, EndsWhat DEF From
<1>5. CASE slot'[s].stage = "free" /\ unacked' = unacked \ {s} /\ s \in unacked
           /\ OneMore(m, slot[s].tries) /\ UNCHANGED outcome
  <2>1. ASSUME NEW n \in Messages, n # m PROVE Stays(n)' <=> Stays(n)
    <3>1. Waiting(n)' <=> Waiting(n)
      BY <1>5, <2>1 DEF Waiting, OneMore, Retries
    <3>2. (\E t \in unacked' : slot'[t].msg = n) <=> (\E t \in unacked : slot[t].msg = n)
      BY <1>2, <1>3, <1>5, <2>1
    <3> QED  BY <3>1, <3>2 DEF Stays
  <2>2. Stays(m)
    BY <1>2, <1>5 DEF Stays
  <2>3. ready'[m][slot[s].tries] > 0
    BY <1>1, <1>5 DEF OneMore
  <2>4. Stays(m)'
    BY <1>1, <2>3 DEF Stays, Waiting, Retries
  <2>5. SameKept
    BY <2>1, <2>2, <2>4 DEF SameKept
  <2> QED  BY <1>1, <1>5, <2>5, NothingToSee
<1>6. CASE KeepsSlot(s) /\ UNCHANGED <<ready, unacked, outcome>>
  <2>1. SameKept
    BY <1>1, <1>6, MovedOn
  <2> QED  BY <1>1, <1>6, <2>1, NothingToSee
<1>7. CASE KeepsSlot(s) /\ UNCHANGED <<unacked, outcome>> /\ slot[s].stage = "retrying"
           /\ OneMore(m, slot[s].tries + 1)
  <2>1. \A t \in unacked : slot'[t].msg = slot[t].msg
    BY <1>3, <1>7 DEF KeepsSlot
  <2>2. ASSUME NEW n \in Messages, n # m PROVE Stays(n)' <=> Stays(n)
    <3>1. Waiting(n)' <=> Waiting(n)
      BY <1>7, <2>2 DEF Waiting, OneMore, Retries
    <3> QED  BY <1>7, <2>1, <3>1 DEF Stays
  <2>3. slot[s].tries + 1 \in Retries
    <3>1. slot[s].tries < MaxRetries
      BY <1>1, <1>7 DEF SlotInv, Trying
    <3> QED  BY <1>1, <3>1 DEF Retries
  <2>4. ready'[m][slot[s].tries + 1] > 0
    BY <1>1, <1>7, <2>3 DEF OneMore
  <2>5. Stays(m)'
    BY <2>3, <2>4 DEF Stays, Waiting, Retries
  <2>6. CASE s \in unacked
    <3>1. SameKept
      BY <1>2, <2>2, <2>5, <2>6 DEF SameKept, Stays
    <3> QED  BY <1>1, <1>7, <3>1, NothingToSee
  <2>7. CASE s \notin unacked
    <3>1. m \in redelivered
      BY <1>2, <1>1, <2>7 DEF OriginInv, CopiesArrived
    <3>2. StillKept' = StillKept \cup {m}
      <4>1. m \in StillKept' /\ StillKept' \cup {m} = StillKept \cup {m}
        BY <1>1, <2>2, <2>5, KeptSets DEF KeptBut
      <4> QED  BY <4>1
    <3>3. Delivery!ComeBack(m)
      BY <1>1, <1>7, <3>1, <3>2, SameHistory DEF Delivery!ComeBack
    <3> QED  BY <1>1, <3>3 DEF Promised, Delivery!Next
  <2> QED  BY <2>6, <2>7
<1> QED  BY <1>2, <1>4, <1>5, <1>6, <1>7, EndsWhat DEF From

LEMMA DeliverPromise ==
    ASSUME TypeInv, Closing' = Closing,
           NEW s \in Slots, NEW m \in Messages, NEW r \in Retries, Consumer!Deliver(s, m, r)
    PROVE  Promised
<1>1. /\ UNCHANGED <<failures, handled, outcome, redelivered>>
      /\ ready[m][r] > 0 /\ OneLess(m, r)
      /\ unacked' = unacked \cup {s} /\ s \notin unacked /\ Others(s) /\ slot'[s].msg = m
      /\ unacked \in SUBSET Slots
  BY DeliverWhat, CountTypes DEF TypeInv
<1>2. \A t \in unacked : slot'[t].msg = slot[t].msg
  BY <1>1 DEF Others
<1>3. ASSUME NEW n \in Messages, n # m PROVE Stays(n)' <=> Stays(n)
  <2>1. Waiting(n)' <=> Waiting(n)
    BY <1>1, <1>3 DEF Waiting, OneLess, Retries
  <2> QED  BY <1>1, <1>2, <1>3, <2>1 DEF Stays
<1>4. Stays(m) /\ Stays(m)'
  BY <1>1 DEF Stays, Waiting, Retries
<1>5. SameKept
  BY <1>3, <1>4 DEF SameKept
<1> QED  BY <1>1, <1>5, NothingToSee

LEMMA ElsewherePromise ==
    ASSUME TypeInv, TypeInv', OnceInv, OriginInv, Closing' = Closing,
           NEW m \in Messages, NEW r \in Retries, Consumer!HandledElsewhere(m, r)
    PROVE  Promised
<1>1. /\ UNCHANGED <<slot, unacked, failures, outcome, redelivered>>
      /\ ready[m][r] > 0 /\ OneLess(m, r) /\ HandledOnce(m) /\ m \notin Unhandled
  BY ElsewhereWhat
<1>2. KeptBut(m)
  <2>1. \A n \in Messages : n # m => (Waiting(n)' <=> Waiting(n))
    BY <1>1 DEF Waiting, OneLess, Retries
  <2> QED  BY <1>1, <2>1 DEF KeptBut, Stays
<1>3. Stays(m)
  BY <1>1 DEF Stays, Waiting, Retries
<1>4. Delivery!MayLeave(m) /\ Delivery!Pending(m)
  BY <1>1, <1>2, <1>3, MayLeave, OpenPlaces, OpenIsPending
<1>5. Delivery!Effect(m)
  BY <1>1, <1>4, AsFunctions, SameHistory DEF Delivery!Effect
<1> QED  BY <1>5 DEF Promised, Delivery!Next

LEMMA ArrivesPromise ==
    ASSUME TypeInv, PubInv, OriginInv, Closing' = Closing,
           NEW w \in Workers, Publisher!Published(w), Consumer!Arrives(worker[w].event)
    PROVE  Promised
<1>1. PICK m \in Messages : worker[w].event = m /\ BusyWith(w, m)
  BY WorkerWhat
<1>2. /\ UNCHANGED <<slot, unacked, failures, handled, redelivered>>
      /\ UNCHANGED <<ready, outcome>> \/ (OneMore(m, 0) /\ More(m, "arrived"))
  BY <1>1, ArrivesWhat
<1>3. "arrived" \notin outcome[m]
  BY <1>1 DEF PubInv, OriginInv, Unpublished
<1>4. ready \in [Messages -> [Retries -> Nat]] /\ 0 \in Retries
  BY BusAssumption, CountTypes DEF TypeInv, Retries
<1>5. CASE UNCHANGED <<ready, outcome>>
  <2>1. SameKept
    BY <1>2, <1>5 DEF SameKept, Stays, Waiting
  <2> QED  BY <1>2, <1>5, <2>1, NothingToSee
<1>6. CASE OneMore(m, 0) /\ More(m, "arrived")
  <2>1. Arrivals' = Arrivals \cup {m} /\ Disposals' = Disposals
    BY <1>1, <1>6, Arrived
  <2>2. KeptBut(m)
    <3>1. \A n \in Messages : n # m => (Waiting(n)' <=> Waiting(n))
      BY <1>6 DEF Waiting, OneMore, Retries
    <3> QED  BY <1>2, <3>1 DEF KeptBut, Stays
  <2>3. Stays(m)'
    <3>1. ready'[m][0] > 0
      BY <1>1, <1>4, <1>6 DEF OneMore
    <3> QED  BY <1>4, <3>1 DEF Stays, Waiting, Retries
  <2>4. StillKept' = StillKept \cup {m}
    <3>1. m \in StillKept' /\ StillKept' \cup {m} = StillKept \cup {m}
      BY <1>1, <2>2, <2>3, KeptSets
    <3> QED  BY <3>1
  <2>5. m \notin Arrivals
    BY <1>3 DEF Arrivals
  <2>6. Delivery!Arrive(m)
    BY <1>2, <2>1, <2>4, <2>5, SameHistory DEF Delivery!Arrive
  <2> QED  BY <1>1, <2>6 DEF Promised, Delivery!Next
<1> QED  BY <1>2, <1>5, <1>6

\* The server takes back what it waits for.
LEMMA BackPromise ==
    ASSUME TypeInv, Consumer!Follow \/ Consumer!Killed, Closing' = Closing
    PROVE  Promised
<1>1. /\ UNCHANGED <<failures, handled, outcome>> /\ SlotInv
      /\ unacked' \subseteq unacked /\ \A s \in unacked' : slot'[s] = slot[s]
  BY FollowWhat DEF TypeInv
<1>2. \A s \in unacked : s \in Slots /\ slot[s].msg \in Messages /\ slot[s].tries \in Retries
  BY <1>1, CountTypes, InSlot DEF SlotInv, Taken
<1>3. CASE Consumer!Requeued
  <2>1. unacked' = {} /\ redelivered' = redelivered \cup {slot[s].msg : s \in unacked}
    BY <1>3 DEF Consumer!Requeued
  <2>2. ASSUME NEW m \in Messages PROVE Stays(m)' <=> Stays(m)
    <3>1. ASSUME Stays(m) PROVE Stays(m)'
      <4>1. CASE \E r \in Retries : ready[m][r] > 0
        BY <1>1, <1>3, <4>1, RequeuedReady DEF Stays, Waiting, Retries
      <4>2. CASE \E s \in unacked : slot[s].msg = m
        <5>1. PICK s \in unacked : slot[s].msg = m
          BY <4>2
        <5>2. slot[s].tries \in Retries /\ s \in Back(m, slot[s].tries)
          BY <1>2, <5>1 DEF Back
        <5>3. ready'[m][slot[s].tries] > 0
          BY <1>1, <1>3, <5>2, RequeuedReady
        <5> QED  BY <5>2, <5>3 DEF Stays, Waiting, Retries
      <4> QED  BY <3>1, <4>1, <4>2 DEF Stays, Waiting, Retries
    <3>2. ASSUME Stays(m)' PROVE Stays(m)
      <4>1. PICK r \in Retries : ready'[m][r] > 0
        BY <2>1, <3>2 DEF Stays, Waiting, Retries
      <4>2. ready[m][r] > 0 \/ Back(m, r) # {}
        BY <1>1, <1>3, <4>1, RequeuedReady
      <4> QED  BY <4>2 DEF Stays, Waiting, Retries, Back
    <3> QED  BY <3>1, <3>2
  <2>3. StillKept' = StillKept
    BY <2>2, KeptSets DEF SameKept
  <2>4. {slot[s].msg : s \in unacked} \subseteq StillKept
    BY <1>2 DEF StillKept
  <2>5. {slot[s].msg : s \in unacked} \in SUBSET Messages
    BY <1>2
  <2>6. Delivery!GiveOutAgain({slot[s].msg : s \in unacked})
    BY <1>1, <2>1, <2>3, <2>4, SameHistory DEF Delivery!GiveOutAgain
  <2> QED  BY <2>5, <2>6 DEF Promised, Delivery!Next
<1>4. CASE UNCHANGED <<ready, unacked, redelivered>>
  <2>1. SameKept
    BY <1>1, <1>4 DEF SameKept, Stays, Waiting
  <2> QED  BY <1>1, <1>4, <2>1, NothingToSee
<1> QED  BY <1>3, <1>4 DEF Consumer!Follow, Consumer!Killed

\* A step of the broker begins to close it or changes what is open, but not both.
LEMMA CloseOrBreak ==
    ASSUME Broker!Next
    PROVE  Closing' = Closing \/ (open' = open /\ Closing')
<1>1. CASE Broker!LoopStep \/ Broker!ConnectionBreaks \/ Broker!ReaderBlocks
  BY <1>1 DEF Broker!LoopStep, Broker!ConnectionBreaks, Broker!ReaderBlocks, Closing, Broker!Notified,
     Broker!StopWaiting, Broker!LookAtState, Broker!MarkDisconnected, Broker!StopDelaying,
     Broker!DelayOver, Broker!LockForConnect, Broker!MarkConnecting, Broker!DialFails,
     Broker!DialOK, Broker!Replace, Broker!Settle
<1>2. CASE Broker!Panic
  BY <1>2 DEF Broker!Panic, Closing
<1>3. CASE Broker!MarkClosing
  BY <1>3 DEF Broker!MarkClosing, Closing
<1>4. CASE Broker!CloserStep
  BY <1>4 DEF Broker!CloserStep, Closing, Broker!Signal, Broker!Drained, Broker!LockForClose, Broker!CloseConnection
<1> QED  BY <1>1, <1>2, <1>3, <1>4 DEF Broker!Next

LEMMA BrokerPromise ==
    ASSUME TypeInv, Broker!Next, Consumer!Follow
    PROVE  Promised
<1>1. CASE Closing' = Closing
  BY <1>1, BackPromise
<1>2. CASE open' = open /\ Closing'
  <2>1. UNCHANGED <<ready, redelivered, unacked, slot, failures, handled, outcome>>
    BY <1>2 DEF Consumer!Follow, Consumer!Live
  <2>2. SameKept
    BY <2>1 DEF SameKept, Stays, Waiting
  <2>3. Delivery!Close
    <3>1. Closing' = TRUE
      BY <1>2 DEF Closing
    <3> QED  BY <2>1, <2>2, <3>1, KeptSets, SameHistory DEF Delivery!Close
  <2> QED  BY <2>3 DEF Promised, Delivery!Next
<1> QED  BY <1>1, <1>2, CloseOrBreak

PromiseInv ==
    TypeInv /\ FailInv /\ LostInv /\ VanishInv /\ PubInv /\ OnceInv /\ OriginInv

LEMMA PromiseInit == Init => PromiseInv
  BY TypeInit, FailInit, LostInit, VanishInit, PubInit, OnceInit, OriginInit DEF PromiseInv

LEMMA PromiseStep == PromiseInv /\ [Next]_vars => PromiseInv' /\ Promised
<1> SUFFICES ASSUME PromiseInv, [Next]_vars PROVE PromiseInv' /\ Promised
  OBVIOUS
<1>1. /\ TypeInv /\ FailInv /\ LostInv /\ VanishInv /\ PubInv /\ OnceInv /\ OriginInv
      /\ TypeInv'
  BY TypeStep DEF PromiseInv
<1>2. PromiseInv'
  BY <1>1, FailStep, LostStep, VanishStep, PubStep, OnceStep, OriginStep DEF PromiseInv
<1> SUFFICES Promised
  BY <1>2
<1>3. UNCHANGED brokerVars => Closing' = Closing
  BY DEF brokerVars, Closing
<1>4. CASE Broker!Next /\ Consumer!Follow
  BY <1>1, <1>4, BrokerPromise
<1>5. CASE Crash
  <2>1. Closing' = Closing /\ Consumer!Killed
    BY <1>5 DEF Crash, Closing
  <2> QED  BY <1>1, <2>1, BackPromise
<1>6. CASE UNCHANGED brokerVars /\ (Consumer!Consume \/ Consumer!ProcessorStops)
  <2>1. /\ UNCHANGED <<ready, unacked, failures, handled, outcome, redelivered>>
        /\ \A s \in unacked : slot'[s] = slot[s]
    BY <1>1, <1>6, SubscriptionWhat
  <2>2. SameKept
    BY <2>1 DEF SameKept, Stays, Waiting
  <2> QED  BY <1>3, <1>6, <2>1, <2>2, NothingToSee
<1>7. ASSUME NEW s \in Slots, UNCHANGED brokerVars, Handles(s) \/ Ends(s) PROVE Promised
  BY <1>1, <1>3, <1>7, HandlesPromise, EndsPromise
<1>8. ASSUME NEW s \in Slots, NEW m \in Messages, NEW r \in Retries, UNCHANGED brokerVars,
             Consumer!Deliver(s, m, r)
      PROVE  Promised
  BY <1>1, <1>3, <1>8, DeliverPromise
<1>9. ASSUME NEW m \in Messages, NEW r \in Retries, UNCHANGED brokerVars,
             Consumer!HandledElsewhere(m, r)
      PROVE  Promised
  BY <1>1, <1>3, <1>9, ElsewherePromise
<1>10. ASSUME NEW w \in Workers, UNCHANGED brokerVars,
              Publisher!Published(w), Consumer!Arrives(worker[w].event)
       PROVE  Promised
  BY <1>1, <1>3, <1>10, ArrivesPromise
<1>11. CASE UNCHANGED <<brokerVars, consumerVars>>
  <2>1. UNCHANGED <<ready, slot, unacked, failures, handled, outcome, redelivered>>
    BY <1>11 DEF consumerVars
  <2>2. SameKept
    BY <2>1 DEF SameKept, Stays, Waiting
  <2> QED  BY <1>3, <1>11, <2>1, <2>2, NothingToSee
<1>12. UNCHANGED vars => UNCHANGED <<brokerVars, consumerVars>>
  BY DEF vars
<1> QED
  BY <1>4, <1>5, <1>6, <1>7, <1>8, <1>9, <1>10, <1>11, <1>12, Steps

LEMMA BusDeliversAtFirst == Init => Delivery!Init
<1> SUFFICES ASSUME Init PROVE Delivery!Init
  OBVIOUS
<1>1. /\ ready = [m \in Messages |-> [r \in Retries |->
                    IF bound /\ m \in Queued /\ r = 0 THEN 1 ELSE 0]]
      /\ unacked = {} /\ redelivered = {}
      /\ failures = [m \in Messages |-> 0] /\ handled = [m \in Messages |-> 0]
      /\ outcome = [m \in Messages |-> IF bound /\ m \in Queued THEN {"arrived"} ELSE {}]
  BY DEF Init, Consumer!Init, Consumer!Retries, Retries
<1>2. Closing = FALSE
  BY DEF Init, Broker!Init, Closing
<1>3. Disposals = [m \in Messages |-> {}]
  BY <1>1 DEF Disposals
<1>4. ASSUME NEW m \in Messages PROVE m \in StillKept <=> m \in Arrivals
  <2>1. m \in Arrivals <=> bound /\ m \in Queued
    BY <1>1 DEF Arrivals
  <2>2. 0 \in Retries
    BY BusAssumption DEF Retries
  <2>3. Waiting(m) <=> bound /\ m \in Queued
    BY <1>1, <2>2 DEF Waiting, Retries
  <2> QED  BY <1>1, <2>1, <2>3 DEF StillKept
<1>5. StillKept = Arrivals /\ Arrivals \in SUBSET Messages
  BY <1>4 DEF StillKept, Arrivals
<1> QED  BY <1>1, <1>2, <1>3, <1>5 DEF Delivery!Init

\* Workers and their queue, slots, copies with one retry more, acknowledgements,
\* lost channels, Close and crashes come down to the eight steps of MessageDelivery.
THEOREM BusImplementsDelivery == Spec => ImplementsDelivery
<1>1. PromiseInv /\ [Next]_vars => [Delivery!Next]_(Delivery!vars)
  BY PromiseStep DEF Promised
<1> QED
  BY <1>1, BusDeliversAtFirst, PromiseInit, PromiseStep, PTL DEF Spec, ImplementsDelivery, Delivery!Spec

\* What MessageDelivery_proofs shows of the promise is true of the bus.
Abstract == INSTANCE MessageDelivery_proofs WITH
    arrived <- Arrivals, kept <- StillKept, effects <- handled, disposed <- Disposals,
    again <- redelivered, closing <- Closing

LEMMA SameDelivery ==
    /\ Delivery!Init <=> Abstract!Init
    /\ [Delivery!Next]_(Delivery!vars) => [Abstract!Next]_(Abstract!vars)
    /\ Delivery!SettledOnce <=> Abstract!SettledOnce
<1>1. Delivery!Init <=> Abstract!Init
  BY DEF Delivery!Init, Abstract!Init
<1>2. (UNCHANGED Delivery!vars) <=> (UNCHANGED Abstract!vars)
  BY DEF Delivery!vars, Abstract!vars
<1>3. ASSUME NEW m \in Messages
      PROVE  /\ (Delivery!Arrive(m) \/ Delivery!LetGo(m) \/ Delivery!ComeBack(m))
                  <=> (Abstract!Arrive(m) \/ Abstract!LetGo(m) \/ Abstract!ComeBack(m))
             /\ Delivery!Fail(m) <=> Abstract!Fail(m)
             /\ Delivery!Effect(m) <=> Abstract!Effect(m)
  BY DEF Delivery!Arrive, Abstract!Arrive, Delivery!LetGo, Abstract!LetGo,
     Delivery!ComeBack, Abstract!ComeBack, Delivery!Fail, Abstract!Fail,
     Delivery!Effect, Abstract!Effect, Delivery!Pending, Abstract!Pending,
     Delivery!Settled, Abstract!Settled, Delivery!MayLeave, Abstract!MayLeave
<1>4. ASSUME NEW m \in Messages, NEW how \in {"discarded", "given up", "lost"}
      PROVE  Delivery!Dispose(m, how) <=> Abstract!Dispose(m, how)
  BY DEF Delivery!Dispose, Abstract!Dispose, Delivery!Pending, Abstract!Pending,
     Delivery!Settled, Abstract!Settled, Delivery!MayLeave, Abstract!MayLeave,
     Delivery!Reason, Abstract!Reason
<1>5. ASSUME NEW S PROVE Delivery!GiveOutAgain(S) <=> Abstract!GiveOutAgain(S)
  BY DEF Delivery!GiveOutAgain, Abstract!GiveOutAgain
<1>6. Delivery!Close <=> Abstract!Close
  BY DEF Delivery!Close, Abstract!Close
<1>7. Delivery!Next <=> Abstract!Next
  BY <1>3, <1>4, <1>5, <1>6 DEF Delivery!Next, Abstract!Next
<1>8. Delivery!SettledOnce <=> Abstract!SettledOnce
  BY DEF Delivery!SettledOnce, Abstract!SettledOnce
<1> QED  BY <1>1, <1>2, <1>7, <1>8

\* A message that the server never requeued is settled once: handled once, or
\* dropped, given up or lost, but never handled and disposed of as well.
THEOREM BusSettlesOnce == Spec => []Delivery!SettledOnce
<1>1. Init => Abstract!Promise
  BY BusDeliversAtFirst, SameDelivery, Abstract!PromiseInit
<1>2. Abstract!Promise /\ PromiseInv /\ [Next]_vars => Abstract!Promise'
  BY PromiseStep, SameDelivery, Abstract!PromiseStep, BusAssumption DEF Promised
<1>3. Abstract!Promise => Delivery!SettledOnce
  BY SameDelivery DEF Abstract!Promise
<1> QED  BY <1>1, <1>2, <1>3, PromiseInit, PromiseStep, PTL DEF Spec

-----------------------------------------------------------------------------
(* Work comes to an end, as far as safety goes                             *)

\* Where messageProcessor has a delivery between its receipt and its Ack or Nack.
Processing == {"handling", "exhausted", "finished", "refused"}

\* messageProcessor has at most one delivery at a time, and none once it has
\* returned.
OneAtATime ==
    \A s \in Slots : slot[s].stage \in Processing =>
        /\ processor = "on"
        /\ \A t \in Slots : slot[t].stage \in Processing => t = s

\* The steps that a delivery has before it at most, wherever it is.
StagesLeft(stage) ==
    CASE stage = "buffered" -> 7
      [] stage = "handling" -> 6
      [] stage = "waiting" -> 5
      [] stage = "due" -> 4
      [] stage = "retrying" -> 3
      [] stage \in {"exhausted", "failed"} -> 2
      [] stage \in {"finished", "refused", "retried", "rejecting"} -> 1
      [] OTHER -> 0

\* The delivery in a slot moves on, or leaves the slot for good; none takes the
\* place of another.
MovesOn(s) ==
    \/ slot'[s].stage = "free"
    \/ slot'[s].msg = slot[s].msg /\ slot'[s].tries = slot[s].tries

DeliveriesGetOn ==
    \A s \in Slots : Taken(s) /\ slot'[s] # slot[s] =>
        MovesOn(s) /\ StagesLeft(slot'[s].stage) < StagesLeft(slot[s].stage)

LEMMA ProcessorSame ==
    ASSUME NEW s \in Slots, Handles(s) \/ Ends(s) PROVE UNCHANGED processor
  BY DEF Handles, Ends, Consumer!Take, Consumer!Discard, Consumer!HandlerSucceeds,
     Consumer!HandlerFails, Consumer!DeadLetter, Consumer!DeadLetterFails,
     Consumer!TimerFires, Consumer!RetryCancelled, Consumer!LookAtState,
     Consumer!RepublishFails, Consumer!Ack, Consumer!Reject, Consumer!AfterFailure,
     Consumer!Republish

\* Where a step of the process takes a delivery.
LEMMA OwnMoves ==
    ASSUME TypeInv, NEW s \in Slots, Handles(s) \/ Ends(s)
    PROVE  /\ Others(s) /\ Taken(s) /\ MovesOn(s)
           /\ StagesLeft(slot'[s].stage) < StagesLeft(slot[s].stage)
           /\ slot'[s].stage \in Processing =>
                  \/ slot[s].stage \in Processing
                  \/ processor = "on" /\ ~Consumer!Busy
<1>1. CASE Handles(s)
  <2>1. /\ Taken(s) /\ KeepsSlot(s) /\ Others(s)
        /\ \/ From(s, "buffered", "handling") \/ From(s, "exhausted", "refused")
           \/ From(s, "waiting", "due") \/ From(s, "waiting", "rejecting")
           \/ From(s, "due", "retrying") \/ From(s, "retrying", "failed")
           \/ From(s, "due", "rejecting") \/ From(s, "handling", "finished")
           \/ From(s, "exhausted", "finished") \/ From(s, "handling", "exhausted")
           \/ From(s, "handling", "waiting")
    BY <1>1, HandlesWhat
  <2>2. StagesLeft(slot'[s].stage) < StagesLeft(slot[s].stage)
    BY <2>1 DEF From, StagesLeft
  <2>3. slot[s].stage = "buffered" => processor = "on" /\ ~Consumer!Busy
    BY <1>1 DEF Handles, Consumer!Take, Consumer!Discard, Consumer!HandlerSucceeds,
       Consumer!HandlerFails, Consumer!DeadLetter, Consumer!DeadLetterFails,
       Consumer!TimerFires, Consumer!RetryCancelled, Consumer!LookAtState,
       Consumer!RepublishFails
  <2> QED  BY <2>1, <2>2, <2>3 DEF From, Processing, MovesOn, KeepsSlot
<1>2. CASE Ends(s)
  <2>1. /\ Taken(s) /\ Others(s)
        /\ \/ /\ slot'[s].stage = "free"
              /\ slot[s].stage \in {"finished", "retried", "refused", "rejecting", "failed"}
           \/ KeepsSlot(s) /\ (From(s, "failed", "rejecting") \/ From(s, "retrying", "retried"))
    BY <1>2, EndsWhat
  <2>2. StagesLeft(slot'[s].stage) < StagesLeft(slot[s].stage)
    BY <2>1 DEF From, StagesLeft
  <2> QED  BY <2>1, <2>2 DEF From, Processing, MovesOn, KeepsSlot
<1> QED  BY <1>1, <1>2

LEMMA OneInit == Init => OneAtATime
  BY DEF Init, Consumer!Init, Consumer!Free, OneAtATime, Processing

\* What the other steps do to the slots.
LEMMA OtherMoves ==
    ASSUME TypeInv, [Next]_vars, ~(\E s \in Slots : Handles(s) \/ Ends(s))
    PROVE  \/ UNCHANGED slot /\ (processor' = processor \/ processor = "off")
           \/ \E s \in Slots : /\ UNCHANGED processor /\ Others(s) /\ ~Taken(s)
                               /\ slot'[s].stage = "buffered"
           \/ /\ (\A s \in Slots : slot'[s].stage = "free") \/ ~Consumer!Busy
              /\ \A s \in Slots : slot'[s].stage = "free" \/ slot'[s] = slot[s]
<1>1. CASE UNCHANGED consumerVars \/ Consumer!Follow \/ Consumer!Consume
           \/ \E m \in Messages, r \in Retries : Consumer!HandledElsewhere(m, r)
  BY <1>1 DEF consumerVars, Consumer!Follow, Consumer!Consume, Consumer!HandledElsewhere
<1>2. ASSUME NEW m, Consumer!Arrives(m) PROVE UNCHANGED <<slot, processor>>
  BY <1>2 DEF Consumer!Arrives
<1>3. CASE Crash
  BY <1>3 DEF Crash, Consumer!Killed, Consumer!Free
<1>4. CASE Consumer!ProcessorStops
  BY <1>4 DEF Consumer!ProcessorStops, Consumer!Free
<1>5. ASSUME NEW s \in Slots, NEW m \in Messages, NEW r \in Retries, Consumer!Deliver(s, m, r)
      PROVE  UNCHANGED processor /\ Others(s) /\ ~Taken(s) /\ slot'[s].stage = "buffered"
  BY <1>5, DeliverWhat DEF Consumer!Deliver
<1> QED  BY <1>1, <1>2, <1>3, <1>4, <1>5, Steps DEF vars

LEMMA OneStep == TypeInv /\ OneAtATime /\ [Next]_vars => OneAtATime'
<1> SUFFICES ASSUME TypeInv, OneAtATime, [Next]_vars PROVE OneAtATime'
  OBVIOUS
<1>1. ASSUME NEW s \in Slots, Handles(s) \/ Ends(s) PROVE OneAtATime'
  <2>1. /\ \A t \in Slots : t # s => slot'[t] = slot[t]
        /\ slot'[s].stage \in Processing =>
               slot[s].stage \in Processing \/ (processor = "on" /\ ~Consumer!Busy)
    BY <1>1, OwnMoves DEF Others
  <2>2. ~Consumer!Busy => \A t \in Slots : slot[t].stage \notin Processing
    BY DEF Consumer!Busy, Processing
  <2>3. UNCHANGED processor
    BY <1>1, ProcessorSame
  <2> QED  BY <2>1, <2>2, <2>3 DEF OneAtATime
<1>2. CASE UNCHANGED slot /\ (processor' = processor \/ processor = "off")
  BY <1>2 DEF OneAtATime
<1>3. ASSUME NEW s \in Slots, UNCHANGED processor, Others(s), slot'[s].stage = "buffered"
      PROVE  OneAtATime'
  BY <1>3 DEF OneAtATime, Others, Processing
<1>4. CASE /\ (\A s \in Slots : slot'[s].stage = "free") \/ ~Consumer!Busy
           /\ \A s \in Slots : slot'[s].stage = "free" \/ slot'[s] = slot[s]
  <2>1. \A s \in Slots : slot'[s].stage \notin Processing
    BY <1>4 DEF Consumer!Busy, Processing
  <2> QED  BY <2>1 DEF OneAtATime
<1> QED  BY <1>1, <1>2, <1>3, <1>4, OtherMoves

\* Handlers of one process never run at the same time: what prefetch_count lets in
\* waits its turn, and Close's wait for messageProcessor covers its delivery.
THEOREM OneHandlerAtATime == Spec => []OneAtATime
<1>1. Init => TypeInv /\ OneAtATime
  BY TypeInit, OneInit
<1>2. TypeInv /\ OneAtATime /\ [Next]_vars => TypeInv' /\ OneAtATime'
  BY TypeStep, OneStep
<1> QED  BY <1>1, <1>2, PTL DEF Spec

LEMMA GetOnStep == TypeInv /\ [Next]_vars => DeliveriesGetOn
<1> SUFFICES ASSUME TypeInv, [Next]_vars, NEW s \in Slots, Taken(s), slot'[s] # slot[s]
             PROVE  MovesOn(s) /\ StagesLeft(slot'[s].stage) < StagesLeft(slot[s].stage)
  BY DEF DeliveriesGetOn
<1>1. CASE \E t \in Slots : Handles(t) \/ Ends(t)
  <2>1. PICK t \in Slots : Handles(t) \/ Ends(t)
    BY <1>1
  <2>2. t = s
    BY <2>1, OwnMoves DEF Others
  <2> QED  BY <2>1, <2>2, OwnMoves
<1>2. CASE ~(\E t \in Slots : Handles(t) \/ Ends(t))
  <2>1. slot'[s].stage = "free"
    BY <1>2, OtherMoves DEF Others
  <2>2. slot[s].stage \in Consumer!Stages
    BY InSlot DEF TypeInv
  <2>3. StagesLeft("free") < StagesLeft(slot[s].stage)
    BY <2>2 DEF Consumer!Stages, StagesLeft
  <2> QED  BY <2>1, <2>3 DEF MovesOn
<1> QED  BY <1>1, <1>2

\* A delivery is dealt with in at most seven steps, whatever the broker does
\* meanwhile; a retry does not go round in its slot but leaves a copy.
THEOREM DeliveriesComeToAnEnd == Spec => [][DeliveriesGetOn]_vars
<1>1. TypeInv /\ [Next]_vars => [DeliveriesGetOn]_vars
  BY GetOnStep
<1> QED  BY <1>1, TypeInit, TypeStep, PTL DEF Spec

-----------------------------------------------------------------------------
\* Where an accepted event is.
InChannel(m) == \E i \in 1..Len(tasks) : tasks[i] = m
WithWorker(m) == \E w \in Workers : BusyWith(w, m)

\* An event that PublishAsync has accepted waits in the channel or is being
\* published; and until Shutdown every worker is there to take it.
AcceptedIsInHand ==
    /\ \A m \in Messages : fate[m] = "accepted" => InChannel(m) \/ WithWorker(m)
    /\ ~halted => \A w \in Workers : worker[w] # Publisher!Stopped

LEMMA HandInit == Init => AcceptedIsInHand
<1> SUFFICES ASSUME Init PROVE AcceptedIsInHand
  OBVIOUS
<1>1. /\ worker = [w \in Workers |-> Publisher!Idle]
      /\ fate = [m \in Messages |-> IF m \in Queued THEN "published" ELSE "new"]
  BY DEF Init, Publisher!Init
<1>2. Publisher!Idle.pc # Publisher!Stopped.pc
  BY DEF Publisher!Idle, Publisher!Stopped
<1> QED  BY <1>1, <1>2 DEF AcceptedIsInHand

LEMMA HandStep == TypeInv /\ AcceptedIsInHand /\ [Next]_vars => AcceptedIsInHand'
<1> SUFFICES ASSUME TypeInv, AcceptedIsInHand, [Next]_vars PROVE AcceptedIsInHand'
  OBVIOUS
<1> USE BusAssumption
<1>1. /\ tasks \in Seq(Messages)
      /\ worker \in [Workers -> {Publisher!Idle, Publisher!Stopped} \cup BusyWorkers]
      /\ fate \in [Messages -> Publisher!Fates]
  BY DEF TypeInv, Publisher!TypeOK, BusyWorkers
<1>2. Publisher!Idle.pc = "idle" /\ Publisher!Stopped.pc = "stopped"
  BY DEF Publisher!Idle, Publisher!Stopped
<1>3. CASE UNCHANGED publisherVars
  BY <1>3 DEF publisherVars, AcceptedIsInHand, InChannel, WithWorker, BusyWith
<1>4. ASSUME NEW w \in Workers, Publisher!Published(w) \/ Publisher!GiveUp(w)
      PROVE  AcceptedIsInHand'
  <2>1. /\ worker[w].event \in Messages /\ BusyWith(w, worker[w].event) /\ UNCHANGED tasks
        /\ worker'[w].pc = "idle" /\ \A v \in Workers : v # w => worker'[v] = worker[v]
        /\ fate'[worker[w].event] \in {"published", "failed"}
        /\ \A m \in Messages : m # worker[w].event => fate'[m] = fate[m]
    BY <1>4, WorkerWhat
  <2>2. UNCHANGED halted
    BY <1>4 DEF Publisher!Published, Publisher!GiveUp, Publisher!Settle
  <2>3. ASSUME NEW m \in Messages, fate'[m] = "accepted" PROVE InChannel(m)' \/ WithWorker(m)'
    <3>1. m # worker[w].event /\ fate[m] = "accepted"
      BY <2>1, <2>3
    <3>2. CASE InChannel(m)
      BY <2>1, <3>2 DEF InChannel
    <3>3. CASE WithWorker(m)
      <4>1. PICK v \in Workers : BusyWith(v, m)
        BY <3>3 DEF WithWorker
      <4>2. v # w
        BY <3>1, <4>1 DEF BusyWith
      <4> QED  BY <2>1, <4>1, <4>2 DEF BusyWith, WithWorker
    <3> QED  BY <3>1, <3>2, <3>3 DEF AcceptedIsInHand
  <2>4. ~halted' => \A v \in Workers : worker'[v] # Publisher!Stopped
    BY <1>2, <2>1, <2>2 DEF AcceptedIsInHand
  <2> QED  BY <2>3, <2>4 DEF AcceptedIsInHand
<1>5. ASSUME NEW w \in Workers, Publisher!TakeTask(w) PROVE AcceptedIsInHand'
  <2>1. /\ worker' = [worker EXCEPT ![w] = Publisher!Busy(Head(tasks), 0)]
        /\ tasks' = Tail(tasks) /\ UNCHANGED <<fate, halted>> /\ tasks # <<>>
        /\ worker[w] = Publisher!Idle
    BY <1>5 DEF Publisher!TakeTask
  <2>2. /\ Head(tasks) = tasks[1] /\ Len(tasks') = Len(tasks) - 1 /\ Len(tasks) \in Nat
        /\ \A i \in 1..Len(tasks') : tasks'[i] = tasks[i + 1]
    BY <1>1, <2>1
  <2>3. /\ worker'[w].pc = "busy" /\ worker'[w].event = Head(tasks)
        /\ \A v \in Workers : v # w => worker'[v] = worker[v]
    BY <1>1, <2>1 DEF Publisher!Busy
  <2>4. ASSUME NEW m \in Messages, fate'[m] = "accepted" PROVE InChannel(m)' \/ WithWorker(m)'
    <3>1. CASE InChannel(m)
      <4>1. PICK i \in 1..Len(tasks) : tasks[i] = m
        BY <3>1 DEF InChannel
      <4>2. CASE i = 1
        BY <2>2, <2>3, <4>1, <4>2 DEF BusyWith, WithWorker
      <4>3. CASE i # 1
        <5>1. i - 1 \in 1..Len(tasks') /\ tasks'[i - 1] = m
          BY <2>2, <4>1, <4>3
        <5> QED  BY <5>1 DEF InChannel
      <4> QED  BY <4>2, <4>3
    <3>2. CASE WithWorker(m)
      <4>1. PICK v \in Workers : BusyWith(v, m)
        BY <3>2 DEF WithWorker
      <4>2. v # w
        BY <1>2, <2>1, <4>1 DEF BusyWith
      <4> QED  BY <2>3, <4>1, <4>2 DEF BusyWith, WithWorker
    <3> QED  BY <2>1, <2>4, <3>1, <3>2 DEF AcceptedIsInHand
  <2>5. ~halted' => \A v \in Workers : worker'[v] # Publisher!Stopped
    BY <1>2, <2>1, <2>3 DEF AcceptedIsInHand
  <2> QED  BY <2>4, <2>5 DEF AcceptedIsInHand
<1>6. ASSUME NEW w \in Workers, Publisher!StopWorker(w) PROVE AcceptedIsInHand'
  <2>1. /\ worker' = [worker EXCEPT ![w] = Publisher!Stopped] /\ worker[w] = Publisher!Idle
        /\ halted /\ UNCHANGED <<tasks, halted, fate>>
    BY <1>6 DEF Publisher!StopWorker, Publisher!MayStop
  <2>2. \A v \in Workers, m \in Messages : BusyWith(v, m) => BusyWith(v, m)'
    BY <1>1, <1>2, <2>1 DEF BusyWith
  <2> QED  BY <2>1, <2>2 DEF AcceptedIsInHand, InChannel, WithWorker
<1>7. ASSUME NEW w \in Workers, Publisher!PublishFails(w) PROVE AcceptedIsInHand'
  <2>1. /\ worker[w] \in BusyWorkers /\ UNCHANGED <<tasks, halted, fate>>
        /\ worker' = [worker EXCEPT ![w] = [worker[w] EXCEPT !.failed = worker[w].failed + 1]]
    BY <1>1, <1>2, <1>7 DEF Publisher!PublishFails
  <2>2. worker'[w].pc = worker[w].pc /\ worker'[w].event = worker[w].event
    BY <1>1, <2>1 DEF BusyWorkers
  <2>3. worker'[w].pc # "stopped" /\ \A v \in Workers : v # w => worker'[v] = worker[v]
    BY <1>1, <2>1, <2>2 DEF BusyWorkers
  <2>4. \A v \in Workers, m \in Messages : BusyWith(v, m) => BusyWith(v, m)'
    BY <2>2, <2>3 DEF BusyWith
  <2>5. ~halted' => \A v \in Workers : worker'[v] # Publisher!Stopped
    BY <1>2, <2>1, <2>3 DEF AcceptedIsInHand
  <2> QED  BY <2>1, <2>4, <2>5 DEF AcceptedIsInHand, InChannel, WithWorker
<1>8. CASE Publisher!Shutdown
  BY <1>8 DEF Publisher!Shutdown, AcceptedIsInHand, InChannel, WithWorker, BusyWith
<1>9. ASSUME NEW m \in Messages, Publisher!PublishAsync(m) PROVE AcceptedIsInHand'
  <2>1. /\ UNCHANGED <<worker, halted>> /\ \A n \in Messages : n # m => fate'[n] = fate[n]
        /\ \/ UNCHANGED tasks /\ fate'[m] = "refused"
           \/ tasks' = Append(tasks, m)
    BY <1>1, <1>9 DEF Publisher!PublishAsync
  <2>2. \A n \in Messages : WithWorker(n) => WithWorker(n)'
    BY <2>1 DEF WithWorker, BusyWith
  <2>3. CASE UNCHANGED tasks /\ fate'[m] = "refused"
    BY <2>1, <2>2, <2>3 DEF AcceptedIsInHand, InChannel
  <2>4. CASE tasks' = Append(tasks, m)
    <3>1. /\ Len(tasks') = Len(tasks) + 1 /\ Len(tasks) \in Nat /\ tasks'[Len(tasks) + 1] = m
          /\ \A i \in 1..Len(tasks) : tasks'[i] = tasks[i] /\ i \in 1..Len(tasks')
      BY <1>1, <2>4
    <3>2. Len(tasks) + 1 \in 1..Len(tasks')
      BY <3>1
    <3>3. InChannel(m)' /\ \A n \in Messages : InChannel(n) => InChannel(n)'
      BY <3>1, <3>2 DEF InChannel
    <3> QED  BY <2>1, <2>2, <3>3 DEF AcceptedIsInHand
  <2> QED  BY <2>1, <2>3, <2>4
<1>10. Crash \/ UNCHANGED vars => UNCHANGED publisherVars
  BY DEF Crash, vars
<1> QED  BY <1>3, <1>4, <1>5, <1>6, <1>7, <1>8, <1>9, <1>10, Steps DEF Publishes

\* No accepted event slips away between the channel and the broker: it is
\* somewhere, and only Shutdown takes the workers from it.
THEOREM NoEventSlipsAway == Spec => []AcceptedIsInHand
<1>1. Init => TypeInv /\ AcceptedIsInHand
  BY TypeInit, HandInit
<1>2. TypeInv /\ AcceptedIsInHand /\ [Next]_vars => TypeInv' /\ AcceptedIsInHand'
  BY TypeStep, HandStep
<1> QED  BY <1>1, <1>2, PTL DEF Spec

=============================================================================
