------------------------- MODULE OutboxRelay_proofs -------------------------
(***************************************************************************)
(* Proofs about OutboxRelay, for every set of calls and of process         *)
(* instances, every batch size, retry count and number of faults.          *)
(***************************************************************************)
EXTENDS OutboxRelay, SequenceTheorems, FiniteSetTheorems, TLAPS

\* A relay works on a batch exactly while it is not between two ticks.
BusyHasQueue ==
    \A i \in Relays : queue[i] = <<>> <=> pc[i] \in {"down", "idle"}

TypeInv == TypeOK /\ BusyHasQueue

\* What publishMessage takes off a batch and what it leaves.
LEMMA HeadAndTail ==
    ASSUME NEW q \in Seq(Event), q # <<>>
    PROVE  /\ 1 \in DOMAIN q /\ Head(q) = q[1] /\ Head(q) \in Event
           /\ Tail(q) \in Seq(Event)
           /\ \A k \in DOMAIN Tail(q) :
                 k \in Nat \ {0} /\ k + 1 \in DOMAIN q /\ Tail(q)[k] = q[k + 1]
<1>1. Len(q) \in Nat /\ DOMAIN q = 1..Len(q) /\ Len(q) # 0
  BY EmptySeq, LenProperties
<1>2. /\ Tail(q) \in Seq(Event) /\ Len(Tail(q)) = Len(q) - 1
      /\ \A k \in 1..Len(Tail(q)) : Tail(q)[k] = q[k + 1]
  BY HeadTailProperties
<1>3. DOMAIN Tail(q) = 1..(Len(q) - 1)
  BY <1>2, LenProperties
<1>4. Head(q) = q[1] /\ q[1] \in Event
  BY <1>1, ElementOfSeq
<1> QED  BY <1>1, <1>2, <1>3, <1>4

\* GetPending returns different rows, all of them pending.
LEMMA BatchOfPending ==
    ASSUME NEW b \in Batches
    PROVE  /\ b \in Seq(Event)
           /\ \A k \in DOMAIN b : b[k] \in Event /\ row[b[k]] = "PENDING"
           /\ \A j, k \in DOMAIN b : j # k => b[j] # b[k]
<1>1. PICK n \in 0..BatchSize : b \in [1..n -> Pending]
  BY DEF Batches
<1>2. n \in Nat
  BY <1>1, RelayAssumption
<1>3. b \in [1..n -> Event]
  BY <1>1 DEF Pending
<1>4. b \in Seq(Event)
  BY <1>2, <1>3, SeqDef
<1>5. \A k \in DOMAIN b : b[k] \in Event /\ row[b[k]] = "PENDING"
  BY <1>1 DEF Pending
<1>6. \A j, k \in DOMAIN b : j # k => b[j] # b[k]
  BY DEF Batches
<1> QED  BY <1>4, <1>5, <1>6

LEMMA TxOfEvent == \A e \in Event : e.tx \in Txns
  BY DEF Event

LEMMA CountOfTxns ==
    ASSUME NEW S \in SUBSET Txns
    PROVE  Cardinality(S) \in Nat
<1>1. IsFiniteSet(S)
  BY FS_Subset, TxnsAssumption
<1> QED  BY <1>1, FS_CardinalityType

LEMMA TypeInvInit == Init => TypeInv
<1> SUFFICES ASSUME Init PROVE TypeInv
  OBVIOUS
<1>1. <<>> \in Seq(Event)
  BY EmptySeq
<1> QED  BY <1>1 DEF Init, TypeInv, TypeOK, BusyHasQueue, Status, RelayState

\* What follows publishMessage leaves the batch well formed.
LEMMA TypeInvNextMessage ==
    ASSUME TypeInv, NEW i \in Relays, queue[i] # <<>>, NextMessage(i)
    PROVE  /\ queue' \in [Relays -> Seq(Event)]
           /\ pc' \in [Relays -> RelayState]
           /\ attempt' \in [Relays -> Nat]
           /\ BusyHasQueue'
<1>1. Tail(queue[i]) \in Seq(Event)
  BY HeadAndTail DEF TypeInv, TypeOK
<1> QED  BY <1>1 DEF NextMessage, TypeInv, TypeOK, BusyHasQueue, RelayState

LEMMA TypeInvStep == TypeInv /\ [Next]_vars => TypeInv'
<1> SUFFICES ASSUME TypeInv, [Next]_vars PROVE TypeInv'
  OBVIOUS
<1> USE DEF txVars, tableVars, relayVars, processVars, publishVars, faultVars
<1>1. ASSUME NEW t \in Txns, Transaction(t) PROVE TypeInv'
  <2>1. CASE BeginTx(t)
    <3>1. Cardinality({s \in Txns : tx[s] # "idle"}) \in Nat
      BY CountOfTxns
    <3> QED  BY <2>1, <3>1 DEF BeginTx, TypeInv, TypeOK, BusyHasQueue
  <2>2. CASE WriteUser(t)
    <3>1. \A types \in Recordable(t) : types \in SUBSET EventTypes
      BY DEF Recordable, EventTypes, ChangeTypes
    <3>2. emits' \in [Txns -> SUBSET EventTypes]
      BY <2>2, <3>1 DEF WriteUser, TypeInv, TypeOK
    <3> QED  BY <2>2, <3>2 DEF WriteUser, TypeInv, TypeOK, BusyHasQueue
  <2>3. CASE SaveTx(t)
    <3>1. saved' \in [Txns -> SUBSET EventTypes]
      BY <2>3 DEF SaveTx, TypeInv, TypeOK
    <3> QED  BY <2>3, <3>1 DEF SaveTx, TypeInv, TypeOK, BusyHasQueue
  <2>4. CASE CommitTx(t)
    BY <2>4 DEF CommitTx, TypeInv, TypeOK, BusyHasQueue, Status
  <2>5. CASE RollbackTx(t)
    BY <2>5 DEF RollbackTx, TypeInv, TypeOK, BusyHasQueue
  <2> QED  BY <1>1, <2>1, <2>2, <2>3, <2>4, <2>5 DEF Transaction
<1>2. ASSUME NEW i \in Relays, RelayStep(i) PROVE TypeInv'
  <2>1. CASE Poll(i)
    <3>1. PICK b \in Batches :
             /\ queue' = [queue EXCEPT ![i] = b]
             /\ pc' = [pc EXCEPT ![i] = IF b = <<>> THEN "idle" ELSE "publish"]
      BY <2>1 DEF Poll
    <3>2. b \in Seq(Event)
      BY BatchOfPending
    <3> QED  BY <2>1, <3>1, <3>2 DEF Poll, TypeInv, TypeOK, BusyHasQueue, RelayState
  <2>2. CASE PublishNothing(i)
    BY <2>2 DEF PublishNothing, TypeInv, TypeOK, BusyHasQueue, RelayState
  <2>3. CASE PublishOK(i)
    <3>1. Head(queue[i]) \in Event
      BY <2>3, HeadAndTail DEF PublishOK, Attempting, TypeInv, TypeOK, BusyHasQueue
    <3> QED  BY <2>3, <3>1 DEF PublishOK, Attempting, TypeInv, TypeOK, BusyHasQueue, RelayState
  <2>4. CASE PublishError(i)
    <3>1. Head(queue[i]) \in Event
      BY <2>4, HeadAndTail DEF PublishError, Attempting, TypeInv, TypeOK, BusyHasQueue
    <3>2. AfterError(attempt[i]) \in {"publish", "failed"}
      BY DEF AfterError
    <3> QED  BY <2>4, <3>1, <3>2 DEF PublishError, Attempting, TypeInv, TypeOK, BusyHasQueue, RelayState
  <2>5. CASE PublishTimedOut(i)
    BY <2>5 DEF PublishTimedOut, Attempting, TypeInv, TypeOK, BusyHasQueue, RelayState
  <2>6. CASE MarkSent(i)
    <3>1. queue[i] # <<>>
      BY <2>6 DEF MarkSent, TypeInv, BusyHasQueue
    <3>2. Head(queue[i]) \in Event
      BY <3>1, HeadAndTail DEF TypeInv, TypeOK
    <3>3. row' \in [Event -> Status \cup {"none"}] /\ processed' \in SUBSET Event
      BY <2>6, <3>2 DEF MarkSent, TypeInv, TypeOK, Status
    <3>4. NextMessage(i) /\ faults' = faults
      BY <2>6 DEF MarkSent
    <3> QED  BY <3>1, <3>3, <3>4, TypeInvNextMessage DEF NextMessage, TypeInv, TypeOK
  <2>7. CASE MarkFailed(i)
    <3>1. queue[i] # <<>>
      BY <2>7 DEF MarkFailed, TypeInv, BusyHasQueue
    <3>2. Head(queue[i]) \in Event
      BY <3>1, HeadAndTail DEF TypeInv, TypeOK
    <3>3. row' \in [Event -> Status \cup {"none"}] /\ processed' \in SUBSET Event
      BY <2>7, <3>2 DEF MarkFailed, FailedStatus, TypeInv, TypeOK, Status
    <3>4. NextMessage(i) /\ faults' = faults
      BY <2>7 DEF MarkFailed
    <3> QED  BY <3>1, <3>3, <3>4, TypeInvNextMessage DEF NextMessage, TypeInv, TypeOK
  <2>8. CASE MarkError(i)
    <3>1. queue[i] # <<>>
      BY <2>8 DEF MarkError, TypeInv, BusyHasQueue
    <3>2. NextMessage(i) /\ faults' \in Nat /\ UNCHANGED tableVars
      BY <2>8 DEF MarkError, TypeInv, TypeOK
    <3> QED  BY <3>1, <3>2, TypeInvNextMessage DEF NextMessage, TypeInv, TypeOK
  <2> QED  BY <1>2, <2>1, <2>2, <2>3, <2>4, <2>5, <2>6, <2>7, <2>8 DEF RelayStep
<1>3. ASSUME NEW i \in Relays, Environment(i) PROVE TypeInv'
  <2>1. CASE CancelBackground(i)
    BY <2>1 DEF CancelBackground, Fault, TypeInv, TypeOK, BusyHasQueue
  <2>2. CASE CloseBroker(i)
    BY <2>2 DEF CloseBroker, TypeInv, TypeOK, BusyHasQueue
  <2>3. CASE Exit(i) \/ Crash(i)
    <3>1. Gone(i) /\ faults' \in Nat
      BY <2>3 DEF Exit, Crash, Fault, TypeInv, TypeOK
    <3>2. <<>> \in Seq(Event)
      BY EmptySeq
    <3> QED  BY <3>1, <3>2 DEF Gone, TypeInv, TypeOK, BusyHasQueue, RelayState
  <2>4. CASE Restart(i)
    BY <2>4 DEF Restart, TypeInv, TypeOK, BusyHasQueue, RelayState
  <2>5. CASE LinkBreaks(i)
    BY <2>5 DEF LinkBreaks, Fault, TypeInv, TypeOK, BusyHasQueue
  <2>6. CASE LinkLost(i)
    BY <2>6 DEF LinkLost, TypeInv, TypeOK, BusyHasQueue
  <2>7. CASE Reconnect(i)
    BY <2>7 DEF Reconnect, TypeInv, TypeOK, BusyHasQueue
  <2> QED  BY <1>3, <2>1, <2>2, <2>3, <2>4, <2>5, <2>6, <2>7 DEF Environment
<1>4. CASE UNCHANGED vars
  BY <1>4 DEF vars, TypeInv, TypeOK, BusyHasQueue
<1> QED  BY <1>1, <1>2, <1>3, <1>4 DEF Next

\* The outbox's variables always have their types.
THEOREM TypeCorrect == Spec => []TypeOK
<1>1. TypeInv => TypeOK
  BY DEF TypeInv
<1> QED  BY <1>1, TypeInvInit, TypeInvStep, PTL DEF Spec

-----------------------------------------------------------------------------
(* What the table, the batches and the broker have to do with each other.  *)
(* None of the safety properties is inductive without it.                  *)

\* A row exists exactly when its transaction has committed it.
RowsAreCommitted ==
    \A e \in Event : row[e] # "none" <=> tx[e.tx] = "committed" /\ e.type \in emits[e.tx]

\* A batch holds different rows of the table.
BatchOfRows ==
    \A i \in Relays : \A k \in DOMAIN queue[i] :
        /\ row[queue[i][k]] # "none"
        /\ \A j \in DOMAIN queue[i] : j # k => queue[i][j] # queue[i][k]

\* While instances do not overlap one relay is up at most, and what is left of
\* its batch is still pending.
OneRelay ==
    ~overlapped => \A i, j \in Relays : pc[i] # "down" /\ pc[j] # "down" => i = j

BatchPending ==
    ~overlapped => \A i \in Relays : \A k \in DOMAIN queue[i] : row[queue[i][k]] = "PENDING"

\* What was published, accepted or marked SENT was in the table, went through
\* Broker.Publish and has a registered type.
PublishedRows ==
    /\ \A e \in Event : copies[e] > 0 => row[e] # "none"
    /\ \A e \in Event : row[e] = "SENT" => e \in accepted
    /\ \A i \in Relays : pc[i] = "sent" => Head(queue[i]) \in accepted
    /\ accepted \subseteq attempted
    /\ \A e \in attempted : e.type \in RegisteredTypes

SafeInv == TypeInv /\ RowsAreCommitted /\ BatchOfRows /\ OneRelay /\ BatchPending /\ PublishedRows

LEMMA SafeInvInit == Init => SafeInv
<1> SUFFICES ASSUME Init PROVE SafeInv
  OBVIOUS
<1>1. TypeInv
  BY TypeInvInit
<1>2. \A i \in Relays : queue[i] = <<>> /\ DOMAIN queue[i] = {}
  BY DEF Init
<1> QED  BY <1>1, <1>2, TxOfEvent
     DEF Init, SafeInv, RowsAreCommitted, BatchOfRows, OneRelay, BatchPending, PublishedRows

LEMMA SafeInvTransaction ==
    ASSUME SafeInv, TypeInv', NEW t \in Txns, Transaction(t)
    PROVE  SafeInv'
<1> USE DEF txVars, tableVars, relayVars, processVars, publishVars, faultVars
<1>1. BatchOfRows /\ OneRelay /\ BatchPending /\ PublishedRows /\ RowsAreCommitted /\ TypeInv
  BY DEF SafeInv
<1>2. ASSUME UNCHANGED <<tableVars, relayVars, publishVars, faultVars>>, RowsAreCommitted'
      PROVE  SafeInv'
  BY <1>1, <1>2 DEF SafeInv, BatchOfRows, OneRelay, BatchPending, PublishedRows
<1>3. CASE BeginTx(t) \/ RollbackTx(t)
  <2>1. RowsAreCommitted'
    BY <1>1, <1>3, TxOfEvent DEF BeginTx, RollbackTx, RowsAreCommitted, TypeInv, TypeOK
  <2> QED  BY <1>2, <1>3, <2>1 DEF BeginTx, RollbackTx
<1>4. CASE WriteUser(t)
  <2>1. \A s \in Txns : /\ tx'[s] = "committed" <=> tx[s] = "committed"
                        /\ tx[s] = "committed" => emits'[s] = emits[s]
    BY <1>1, <1>4 DEF WriteUser, TypeInv, TypeOK
  <2>3. row' = row
    BY <1>4 DEF WriteUser
  <2>4. RowsAreCommitted'
    BY <1>1, <2>1, <2>3, TxOfEvent DEF RowsAreCommitted
  <2> QED  BY <1>2, <1>4, <2>4 DEF WriteUser
<1>5. CASE SaveTx(t)
  <2>1. RowsAreCommitted'
    BY <1>1, <1>5 DEF SaveTx, RowsAreCommitted
  <2> QED  BY <1>2, <1>5, <2>1 DEF SaveTx
<1>6. CASE CommitTx(t)
  <2>1. \A e \in Event : row'[e] = IF e.tx = t /\ e.type \in saved[t] THEN "PENDING" ELSE row[e]
    BY <1>6 DEF CommitTx
  <2>2. tx[t] = "written" /\ saved[t] = emits[t] /\ tx' = [tx EXCEPT ![t] = "committed"]
    BY <1>6 DEF CommitTx, AllSaved
  <2>3. emits' = emits
    BY <1>6 DEF CommitTx
  <2>5. RowsAreCommitted'
    BY <1>1, <2>1, <2>2, <2>3, TxOfEvent DEF RowsAreCommitted, TypeInv, TypeOK
  <2>6. \A e \in Event : row[e] # "none" => row'[e] = row[e]
    BY <1>1, <2>1, <2>2 DEF RowsAreCommitted
  <2>7. \A i \in Relays : \A k \in DOMAIN queue[i] : queue[i][k] \in Event
    BY <1>1, LenProperties, ElementOfSeq DEF TypeInv, TypeOK
  <2>8. UNCHANGED <<relayVars, publishVars, faultVars>>
    BY <1>6 DEF CommitTx
  <2>9. BatchOfRows' /\ BatchPending'
    BY <1>1, <2>6, <2>7, <2>8 DEF BatchOfRows, BatchPending
  <2>10. OneRelay'
    BY <1>1, <2>8 DEF OneRelay
  <2>11. \A e \in Event : row'[e] = "SENT" => row[e] = "SENT"
    BY <2>1
  <2>12. PublishedRows'
    BY <1>1, <2>6, <2>8, <2>11 DEF PublishedRows
  <2> QED  BY <2>5, <2>9, <2>10, <2>12 DEF SafeInv
<1> QED  BY <1>3, <1>4, <1>5, <1>6 DEF Transaction

\* What every batch is made of.
LEMMA BatchTyped ==
    ASSUME TypeInv
    PROVE  \A i \in Relays : \A k \in DOMAIN queue[i] : queue[i][k] \in Event
  BY LenProperties, ElementOfSeq DEF TypeInv, TypeOK

\* A relay that has done with a message leaves the rest of its batch as it was:
\* no row but the message's own may have changed.
LEMMA SafeInvNextMessage ==
    ASSUME SafeInv, TypeInv', NEW i \in Relays, queue[i] # <<>>, NextMessage(i),
           pc[i] # "down",
           row' \in [Event -> Status \cup {"none"}],
           \A e \in Event : e # Head(queue[i]) => row'[e] = row[e],
           row'[Head(queue[i])] # "none",
           row'[Head(queue[i])] = "SENT" => Head(queue[i]) \in accepted
    PROVE  SafeInv'
<1> DEFINE h == Head(queue[i])
<1>1. /\ TypeInv /\ RowsAreCommitted /\ BatchOfRows
      /\ OneRelay /\ BatchPending /\ PublishedRows
  BY DEF SafeInv
<1>2. /\ 1 \in DOMAIN queue[i] /\ h = queue[i][1] /\ h \in Event
      /\ \A k \in DOMAIN Tail(queue[i]) :
            /\ k \in Nat \ {0} /\ k + 1 \in DOMAIN queue[i]
            /\ Tail(queue[i])[k] = queue[i][k + 1]
  BY <1>1, HeadAndTail DEF TypeInv, TypeOK
<1>3. row[h] # "none"
  BY <1>1, <1>2 DEF BatchOfRows
<1>4. \A e \in Event : row'[e] # "none" <=> row[e] # "none"
  BY <1>2, <1>3
<1>5. /\ queue' = [queue EXCEPT ![i] = Tail(@)]
      /\ \A j \in Relays : j # i => queue'[j] = queue[j]
      /\ queue'[i] = Tail(queue[i])
      /\ UNCHANGED <<tx, emits, accepted, attempted, copies, overlapped>>
  BY <1>1 DEF NextMessage, TypeInv, TypeOK, txVars, publishVars
<1>6. RowsAreCommitted'
  BY <1>1, <1>4, <1>5 DEF RowsAreCommitted
<1>7. ASSUME NEW j \in Relays, NEW k \in DOMAIN queue'[j]
      PROVE  /\ row'[queue'[j][k]] # "none"
             /\ \A l \in DOMAIN queue'[j] : l # k => queue'[j][l] # queue'[j][k]
  <2>1. CASE j # i
    <3>1. queue[j][k] \in Event /\ queue'[j] = queue[j]
      BY <1>1, <1>5, <1>7, <2>1, BatchTyped
    <3> QED  BY <1>1, <1>4, <1>7, <3>1 DEF BatchOfRows
  <2>2. CASE j = i
    <3>1. /\ k \in Nat \ {0} /\ k + 1 \in DOMAIN queue[i]
          /\ queue'[j][k] = queue[i][k + 1] /\ queue[i][k + 1] \in Event
      BY <1>1, <1>2, <1>5, <1>7, <2>2, BatchTyped
    <3>2. row'[queue'[j][k]] # "none"
      BY <1>1, <1>4, <3>1 DEF BatchOfRows
    <3>3. ASSUME NEW l \in DOMAIN queue'[j], l # k PROVE queue'[j][l] # queue'[j][k]
      <4>1. queue'[j] = Tail(queue[i])
        BY <1>5, <2>2
      <4>2. l \in Nat \ {0} /\ l + 1 \in DOMAIN queue[i] /\ queue'[j][l] = queue[i][l + 1]
        BY <1>2, <3>3, <4>1
      <4>3. l + 1 # k + 1
        BY <3>1, <3>3, <4>2
      <4> QED  BY <1>1, <3>1, <4>2, <4>3 DEF BatchOfRows
    <3> QED  BY <3>2, <3>3
  <2> QED  BY <2>1, <2>2
<1>8. BatchOfRows'
  BY <1>7 DEF BatchOfRows
<1>9. \A j \in Relays : pc'[j] # "down" => pc[j] # "down"
  BY <1>1 DEF NextMessage, TypeInv, TypeOK
<1>10. OneRelay'
  BY <1>1, <1>5, <1>9 DEF OneRelay
<1>11. ASSUME ~overlapped', NEW j \in Relays, NEW k \in DOMAIN queue'[j]
       PROVE  row'[queue'[j][k]] = "PENDING"
  <2>1. j = i
    <3>1. j # i => queue[j] = <<>>
      BY <1>1, <1>5, <1>11 DEF OneRelay, TypeInv, BusyHasQueue
    <3>2. j # i => DOMAIN queue[j] = {} /\ queue'[j] = queue[j]
      BY <1>5, <3>1
    <3> QED  BY <1>11, <3>2
  <2>2. /\ k \in Nat \ {0} /\ k + 1 \in DOMAIN queue[i] /\ k + 1 # 1
        /\ queue'[j][k] = queue[i][k + 1] /\ queue[i][k + 1] \in Event
    <3>1. queue'[j] = Tail(queue[i])
      BY <1>5, <2>1
    <3>2. k \in Nat \ {0} /\ k + 1 \in DOMAIN queue[i] /\ queue'[j][k] = queue[i][k + 1]
      BY <1>2, <1>11, <3>1
    <3> QED  BY <1>1, <3>2, BatchTyped
  <2>3. queue[i][k + 1] # h
    BY <1>1, <1>2, <2>2 DEF BatchOfRows
  <2>4. row[queue[i][k + 1]] = "PENDING"
    BY <1>1, <1>5, <1>11, <2>2 DEF BatchPending
  <2> QED  BY <2>2, <2>3, <2>4
<1>12. BatchPending'
  BY <1>11 DEF BatchPending
<1>13. PublishedRows'
  <2>1. \A e \in Event : row'[e] = "SENT" => e \in accepted
    BY <1>1 DEF PublishedRows
  <2>2. \A j \in Relays : pc'[j] = "sent" => j # i /\ pc[j] = "sent"
    BY <1>1 DEF NextMessage, TypeInv, TypeOK
  <2> QED  BY <1>1, <1>4, <1>5, <2>1, <2>2 DEF PublishedRows
<1> QED  BY <1>6, <1>8, <1>10, <1>12, <1>13 DEF SafeInv

LEMMA SafeInvRelayStep ==
    ASSUME SafeInv, TypeInv', NEW i \in Relays, RelayStep(i)
    PROVE  SafeInv'
<1> USE DEF txVars, tableVars, relayVars, processVars, publishVars, faultVars
<1>1. /\ TypeInv /\ RowsAreCommitted /\ BatchOfRows
      /\ OneRelay /\ BatchPending /\ PublishedRows
  BY DEF SafeInv
<1>2. CASE Poll(i)
  <2>1. PICK b \in Batches :
           /\ queue' = [queue EXCEPT ![i] = b]
           /\ pc' = [pc EXCEPT ![i] = IF b = <<>> THEN "idle" ELSE "publish"]
    BY <1>2 DEF Poll
  <2>2. /\ \A k \in DOMAIN b : b[k] \in Event /\ row[b[k]] = "PENDING"
        /\ \A j, k \in DOMAIN b : j # k => b[j] # b[k]
    BY BatchOfPending
  <2>3. /\ queue'[i] = b /\ \A j \in Relays : j # i => queue'[j] = queue[j]
        /\ \A j \in Relays : pc'[j] # "down" => pc[j] # "down"
        /\ \A j \in Relays : pc'[j] = "sent" => j # i /\ pc[j] = "sent"
    BY <1>1, <1>2, <2>1 DEF Poll, TypeInv, TypeOK
  <2>4. UNCHANGED <<txVars, tableVars, publishVars, faultVars>>
    BY <1>2 DEF Poll
  <2>5. RowsAreCommitted'
    BY <1>1, <2>4 DEF RowsAreCommitted
  <2>6. BatchOfRows'
    BY <1>1, <2>2, <2>3, <2>4 DEF BatchOfRows
  <2>7. OneRelay'
    BY <1>1, <2>3, <2>4 DEF OneRelay
  <2>8. BatchPending'
    BY <1>1, <2>2, <2>3, <2>4 DEF BatchPending
  <2>9. PublishedRows'
    BY <1>1, <2>3, <2>4 DEF PublishedRows
  <2> QED  BY <2>5, <2>6, <2>7, <2>8, <2>9 DEF SafeInv
<1>3. CASE PublishNothing(i) \/ PublishTimedOut(i) \/ PublishError(i)
  <2>1. /\ UNCHANGED <<txVars, tableVars, queue, accepted, copies, faultVars>>
        /\ pc[i] = "publish"
        /\ pc' = [pc EXCEPT ![i] = "failed"] \/ pc' = [pc EXCEPT ![i] = "publish"]
    BY <1>3 DEF PublishNothing, PublishTimedOut, PublishError, Attempting, AfterError
  <2>2. /\ \A j \in Relays : pc'[j] # "down" => pc[j] # "down"
        /\ \A j \in Relays : pc'[j] = "sent" => pc[j] = "sent"
    BY <1>1, <2>1 DEF TypeInv, TypeOK
  <2>3. attempted \subseteq attempted' /\ \A e \in attempted' : e.type \in RegisteredTypes
    <3>1. PublishError(i) => /\ attempted' = attempted \cup {Head(queue[i])}
                             /\ Head(queue[i]).type \in RegisteredTypes
      BY DEF PublishError, Attempting, Publishable
    <3>2. ~PublishError(i) => attempted' = attempted
      BY <1>3 DEF PublishNothing, PublishTimedOut
    <3> QED  BY <1>1, <3>1, <3>2 DEF PublishedRows
  <2>4. RowsAreCommitted' /\ BatchOfRows' /\ BatchPending'
    BY <1>1, <2>1 DEF RowsAreCommitted, BatchOfRows, BatchPending
  <2>5. OneRelay'
    BY <1>1, <2>1, <2>2 DEF OneRelay
  <2>6. PublishedRows'
    BY <1>1, <2>1, <2>2, <2>3 DEF PublishedRows
  <2> QED  BY <2>4, <2>5, <2>6 DEF SafeInv
<1>4. CASE PublishOK(i)
  <2> DEFINE h == Head(queue[i])
  <2>1. /\ UNCHANGED <<txVars, tableVars, queue, faultVars>>
        /\ pc[i] = "publish" /\ pc' = [pc EXCEPT ![i] = "sent"]
        /\ h.type \in RegisteredTypes
        /\ attempted' = attempted \cup {h} /\ accepted' = accepted \cup {h}
        /\ \A e \in Event : e # h => copies'[e] = copies[e]
    BY <1>1, <1>4 DEF PublishOK, Attempting, Publishable, TypeInv, TypeOK
  <2>2. queue[i] # <<>>
    BY <1>1, <2>1 DEF TypeInv, BusyHasQueue
  <2>3. 1 \in DOMAIN queue[i] /\ h = queue[i][1] /\ h \in Event
    BY <1>1, <2>2, HeadAndTail DEF TypeInv, TypeOK
  <2>4. row[h] # "none"
    BY <1>1, <2>3 DEF BatchOfRows
  <2>5. /\ \A j \in Relays : pc'[j] # "down" => pc[j] # "down"
        /\ \A j \in Relays : pc'[j] = "sent" => j = i \/ pc[j] = "sent"
    BY <1>1, <2>1 DEF TypeInv, TypeOK
  <2>6. RowsAreCommitted' /\ BatchOfRows' /\ BatchPending'
    BY <1>1, <2>1 DEF RowsAreCommitted, BatchOfRows, BatchPending
  <2>7. OneRelay'
    BY <1>1, <2>1, <2>5 DEF OneRelay
  <2>8. PublishedRows'
    BY <1>1, <2>1, <2>3, <2>4, <2>5 DEF PublishedRows
  <2> QED  BY <2>6, <2>7, <2>8 DEF SafeInv
<1>5. CASE MarkSent(i) \/ MarkFailed(i) \/ MarkError(i)
  <2> DEFINE h == Head(queue[i])
  <2>1. queue[i] # <<>> /\ pc[i] # "down" /\ NextMessage(i)
    BY <1>1, <1>5 DEF MarkSent, MarkFailed, MarkError, TypeInv, BusyHasQueue
  <2>2. 1 \in DOMAIN queue[i] /\ h = queue[i][1] /\ h \in Event
    BY <1>1, <2>1, HeadAndTail DEF TypeInv, TypeOK
  <2>3. row[h] # "none"
    BY <1>1, <2>2 DEF BatchOfRows
  <2>4. row' \in [Event -> Status \cup {"none"}]
    BY DEF TypeInv, TypeOK
  <2>5. /\ \A e \in Event : e # h => row'[e] = row[e]
        /\ row'[h] # "none"
        /\ row'[h] = "SENT" => h \in accepted
    <3>1. CASE MarkSent(i)
      <4>1. h \in accepted
        BY <1>1, <3>1 DEF MarkSent, PublishedRows
      <4> QED  BY <1>1, <2>2, <2>3, <3>1, <4>1 DEF MarkSent, TypeInv, TypeOK
    <3>2. CASE MarkFailed(i)
      BY <1>1, <2>2, <3>2 DEF MarkFailed, FailedStatus, TypeInv, TypeOK
    <3>3. CASE MarkError(i)
      BY <1>1, <2>2, <2>3, <3>3 DEF MarkError, PublishedRows
    <3> QED  BY <1>5, <3>1, <3>2, <3>3
  <2> QED  BY <2>1, <2>4, <2>5, SafeInvNextMessage
<1> QED  BY <1>2, <1>3, <1>4, <1>5 DEF RelayStep

LEMMA SafeInvEnvironment ==
    ASSUME SafeInv, TypeInv', NEW i \in Relays, Environment(i)
    PROVE  SafeInv'
<1> USE DEF txVars, tableVars, relayVars, processVars, publishVars, faultVars
<1>1. /\ TypeInv /\ RowsAreCommitted /\ BatchOfRows
      /\ OneRelay /\ BatchPending /\ PublishedRows
  BY DEF SafeInv
<1>2. UNCHANGED <<txVars, tableVars, publishVars>>
  BY DEF Environment, CancelBackground, CloseBroker, Exit, Crash, Gone, Restart,
         LinkBreaks, LinkLost, Reconnect
<1>3. RowsAreCommitted'
  BY <1>1, <1>2 DEF RowsAreCommitted
<1>4. CASE CancelBackground(i) \/ CloseBroker(i) \/ LinkBreaks(i) \/ LinkLost(i) \/ Reconnect(i)
  <2>1. UNCHANGED <<relayVars, overlapped>>
    BY <1>4 DEF CancelBackground, CloseBroker, LinkBreaks, LinkLost, Reconnect
  <2> QED  BY <1>1, <1>2, <1>3, <2>1
           DEF SafeInv, BatchOfRows, OneRelay, BatchPending, PublishedRows
<1>5. CASE Exit(i) \/ Crash(i)
  <2>1. /\ pc' = [pc EXCEPT ![i] = "down"] /\ queue' = [queue EXCEPT ![i] = <<>>]
        /\ overlapped' = overlapped
    BY <1>5 DEF Exit, Crash, Gone
  <2>2. /\ DOMAIN queue'[i] = {} /\ pc'[i] = "down"
        /\ \A j \in Relays : j # i => queue'[j] = queue[j] /\ pc'[j] = pc[j]
    BY <1>1, <2>1 DEF TypeInv, TypeOK
  <2> QED  BY <1>1, <1>2, <1>3, <2>1, <2>2
           DEF SafeInv, BatchOfRows, OneRelay, BatchPending, PublishedRows
<1>6. CASE Restart(i)
  <2>1. /\ pc' = [pc EXCEPT ![i] = "idle"] /\ queue' = queue
        /\ overlapped' = (overlapped \/ \E j \in Relays : pc[j] # "down")
    BY <1>6 DEF Restart
  <2>2. OneRelay'
    BY <1>1, <2>1 DEF OneRelay, TypeInv, TypeOK
  <2>3. BatchOfRows' /\ BatchPending'
    BY <1>1, <1>2, <2>1 DEF BatchOfRows, BatchPending
  <2>4. PublishedRows'
    BY <1>1, <1>2, <2>1 DEF PublishedRows, TypeInv, TypeOK
  <2> QED  BY <1>3, <2>2, <2>3, <2>4 DEF SafeInv
<1> QED  BY <1>4, <1>5, <1>6 DEF Environment

LEMMA SafeInvStep == SafeInv /\ [Next]_vars => SafeInv'
<1> SUFFICES ASSUME SafeInv, [Next]_vars PROVE SafeInv'
  OBVIOUS
<1>1. TypeInv'
  BY TypeInvStep DEF SafeInv
<1>2. CASE UNCHANGED vars
  BY <1>1, <1>2 DEF vars, txVars, tableVars, relayVars, processVars, publishVars, faultVars,
     SafeInv, RowsAreCommitted, BatchOfRows, OneRelay, BatchPending, PublishedRows
<1> QED  BY <1>1, <1>2, SafeInvTransaction, SafeInvRelayStep, SafeInvEnvironment DEF Next

LEMMA AlwaysSafe == Spec => []SafeInv
  BY SafeInvInit, SafeInvStep, PTL DEF Spec

\* Only what a committed transaction recorded is ever published, and all of a
\* transaction's events are recorded or none.
THEOREM NothingUncommittedPublished == Spec => []NoPhantomEvent
<1>1. SafeInv => NoPhantomEvent
  BY DEF SafeInv, NoPhantomEvent, RowsAreCommitted, PublishedRows
<1> QED  BY <1>1, AlwaysSafe, PTL

\* A SENT row's event was accepted by the broker library.
THEOREM SentOnlyAfterAccepted == Spec => []SentWasAccepted
<1>1. SafeInv => SentWasAccepted
  BY DEF SafeInv, SentWasAccepted, PublishedRows
<1> QED  BY <1>1, AlwaysSafe, PTL

-----------------------------------------------------------------------------
(* No event is given up while no connection has broken.                    *)

\* Without outages the only way to lose the connection is to close it, after
\* the background context was cancelled; and only then can an attempt fail.
FailsOnlyWhenClosing ==
    outages = 0 =>
        \A i \in Relays :
            /\ pc[i] = "down" => attempt[i] = 0
            /\ pc[i] # "down" /\ live[i] =>
                /\ link[i] = "up" /\ attempt[i] = 0
                /\ pc[i] = "failed" /\ RetryCount > 0 =>
                      Head(queue[i]).type \notin RegisteredTypes

GiveUpInv == SafeInv /\ FailsOnlyWhenClosing /\ NoEventGivenUp

LEMMA GiveUpInvInit == Init => GiveUpInv
  BY SafeInvInit DEF Init, GiveUpInv, FailsOnlyWhenClosing, NoEventGivenUp

LEMMA GiveUpInvStep == GiveUpInv /\ [Next]_vars => GiveUpInv'
<1> SUFFICES ASSUME GiveUpInv, [Next]_vars PROVE GiveUpInv'
  OBVIOUS
<1> USE DEF txVars, tableVars, relayVars, processVars, publishVars, faultVars
<1>1. SafeInv' /\ TypeInv /\ SafeInv /\ FailsOnlyWhenClosing /\ NoEventGivenUp
  BY SafeInvStep DEF GiveUpInv, SafeInv
<1>2. ASSUME NEW t \in Txns, Transaction(t) PROVE FailsOnlyWhenClosing' /\ NoEventGivenUp'
  <2>1. UNCHANGED <<relayVars, processVars, outages>>
    BY <1>2 DEF Transaction, BeginTx, WriteUser, SaveTx, CommitTx, RollbackTx
  <2>2. \A e \in Event : row'[e] = "FAILED" => row[e] = "FAILED"
    BY <1>2 DEF Transaction, BeginTx, WriteUser, SaveTx, CommitTx, RollbackTx
  <2> QED  BY <1>1, <2>1, <2>2 DEF FailsOnlyWhenClosing, NoEventGivenUp
<1>3. ASSUME NEW i \in Relays, RelayStep(i) PROVE FailsOnlyWhenClosing' /\ NoEventGivenUp'
  <2>1. outages' = outages /\ UNCHANGED processVars
    BY <1>3 DEF RelayStep, Poll, PublishNothing, PublishOK, PublishError, PublishTimedOut,
       MarkSent, MarkFailed, MarkError, NextMessage
  <2>2. CASE Poll(i) \/ PublishOK(i) \/ MarkSent(i) \/ MarkError(i)
    <3>1. /\ \A j \in Relays : attempt'[j] = attempt[j] \/ attempt'[j] = 0
          /\ \A j \in Relays : pc'[j] = "failed" =>
                pc[j] = "failed" /\ queue'[j] = queue[j]
          /\ \A j \in Relays : pc'[j] = "down" <=> pc[j] = "down"
      BY <1>1, <2>2 DEF Poll, PublishOK, Attempting, MarkSent, MarkError, NextMessage, TypeInv, TypeOK
    <3>2. \A e \in Event : row'[e] = "FAILED" => row[e] = "FAILED"
      BY <1>1, <2>2 DEF Poll, PublishOK, MarkSent, MarkError, TypeInv, TypeOK
    <3> QED  BY <1>1, <2>1, <3>1, <3>2 DEF FailsOnlyWhenClosing, NoEventGivenUp
  <2>3. CASE PublishNothing(i)
    <3>1. /\ pc' = [pc EXCEPT ![i] = "failed"] /\ UNCHANGED <<tableVars, queue, attempt>>
          /\ Head(queue[i]).type \notin RegisteredTypes \/ RetryCount = 0
      BY <2>3 DEF PublishNothing, Publishable
    <3>2. pc[i] = "publish"
      BY <2>3 DEF PublishNothing
    <3> QED  BY <1>1, <2>1, <3>1, <3>2 DEF FailsOnlyWhenClosing, NoEventGivenUp, TypeInv, TypeOK
  <2>4. CASE PublishError(i) \/ PublishTimedOut(i)
    <3>1. /\ pc[i] = "publish" /\ UNCHANGED <<tableVars, queue>>
          /\ link[i] # "up" \/ attempt[i] # 0
          /\ pc'[i] # "down"
          /\ \A j \in Relays : j # i => pc'[j] = pc[j] /\ attempt'[j] = attempt[j]
      BY <1>1, <2>4 DEF PublishError, PublishTimedOut, Attempting, AfterError, TypeInv, TypeOK
    <3>2. outages = 0 => ~live[i]
      BY <1>1, <3>1 DEF FailsOnlyWhenClosing
    <3> QED  BY <1>1, <2>1, <3>1, <3>2 DEF FailsOnlyWhenClosing, NoEventGivenUp
  <2>5. CASE MarkFailed(i)
    <3>1. pc[i] = "failed" /\ live[i] /\ row' = [row EXCEPT ![Head(queue[i])] = "FAILED"]
      BY <2>5 DEF MarkFailed, FailedStatus
    <3>2. outages = 0 /\ RetryCount > 0 => Head(queue[i]).type \notin RegisteredTypes
      BY <1>1, <3>1 DEF FailsOnlyWhenClosing
    <3>3. /\ \A j \in Relays : attempt'[j] = attempt[j] \/ attempt'[j] = 0
          /\ \A j \in Relays : pc'[j] = "failed" => pc[j] = "failed" /\ queue'[j] = queue[j]
          /\ \A j \in Relays : pc'[j] = "down" <=> pc[j] = "down"
      BY <1>1, <2>5 DEF MarkFailed, NextMessage, TypeInv, TypeOK
    <3>4. NoEventGivenUp'
      BY <1>1, <2>1, <3>1, <3>2 DEF NoEventGivenUp, TypeInv, TypeOK
    <3> QED  BY <1>1, <2>1, <3>3, <3>4 DEF FailsOnlyWhenClosing
  <2> QED  BY <1>3, <2>2, <2>3, <2>4, <2>5 DEF RelayStep
<1>4. ASSUME NEW i \in Relays, Environment(i) PROVE FailsOnlyWhenClosing' /\ NoEventGivenUp'
  <2>1. row' = row
    BY <1>4 DEF Environment, CancelBackground, CloseBroker, Exit, Crash, Gone, Restart,
       LinkBreaks, LinkLost, Reconnect
  <2>2. outages' = 0 => outages = 0
    BY <1>1, <1>4 DEF Environment, CancelBackground, CloseBroker, Exit, Crash, Gone, Restart,
       LinkBreaks, LinkLost, Reconnect, TypeInv, TypeOK
  <2>3. NoEventGivenUp'
    BY <1>1, <2>1, <2>2 DEF NoEventGivenUp
  <2>4. FailsOnlyWhenClosing'
    <3>1. CASE CancelBackground(i) \/ CloseBroker(i)
      BY <1>1, <3>1 DEF CancelBackground, CloseBroker, Closing, FailsOnlyWhenClosing, TypeInv, TypeOK
    <3>2. CASE Exit(i) \/ Crash(i)
      <4>1. /\ pc' = [pc EXCEPT ![i] = "down"] /\ queue' = [queue EXCEPT ![i] = <<>>]
            /\ attempt' = [attempt EXCEPT ![i] = 0] /\ UNCHANGED <<processVars, outages>>
        BY <3>2 DEF Exit, Crash, Gone
      <4> QED  BY <1>1, <4>1 DEF FailsOnlyWhenClosing, TypeInv, TypeOK
    <3>3. CASE Restart(i)
      BY <1>1, <3>3 DEF Restart, FailsOnlyWhenClosing, TypeInv, TypeOK
    <3>4. CASE LinkBreaks(i)
      BY <1>1, <3>4 DEF LinkBreaks, FailsOnlyWhenClosing, TypeInv, TypeOK
    <3>5. CASE LinkLost(i) \/ Reconnect(i)
      BY <1>1, <3>5 DEF LinkLost, Reconnect, FailsOnlyWhenClosing, TypeInv, TypeOK
    <3> QED  BY <1>4, <3>1, <3>2, <3>3, <3>4, <3>5 DEF Environment
  <2> QED  BY <2>3, <2>4
<1>5. ASSUME UNCHANGED vars PROVE FailsOnlyWhenClosing' /\ NoEventGivenUp'
  BY <1>1, <1>5 DEF vars, FailsOnlyWhenClosing, NoEventGivenUp
<1>6. FailsOnlyWhenClosing' /\ NoEventGivenUp'
  BY <1>2, <1>3, <1>4, <1>5 DEF Next
<1> QED  BY <1>1, <1>6 DEF GiveUpInv

\* While no connection breaks, no event of a registered type is given up,
\* whatever crashes, shutdowns and failing UPDATEs there are.
THEOREM NothingGivenUpWithoutOutage == Spec => []NoEventGivenUp
<1>1. GiveUpInv => NoEventGivenUp
  BY DEF GiveUpInv
<1> QED  BY <1>1, GiveUpInvInit, GiveUpInvStep, PTL DEF Spec

-----------------------------------------------------------------------------
(* One user per email, whatever races.                                     *)

\* Of the CreateUser calls for one email at most one holds or has committed
\* the row: the others wait for it and then find the email taken.
OneWriter ==
    \A c, d \in Creates :
        /\ tx[c] \in {"written", "committed"} /\ tx[d] \in {"written", "committed"}
        /\ UserOf[c] = UserOf[d]
        => c = d

LEMMA OneWriterStep == TypeOK /\ OneWriter /\ [Next]_vars => OneWriter'
<1> SUFFICES ASSUME TypeOK, OneWriter, [Next]_vars PROVE OneWriter'
  OBVIOUS
<1>1. \A c \in Creates : c \in Txns
  BY DEF Txns
<1>2. ASSUME NEW t \in Txns, WriteUser(t) PROVE OneWriter'
  <2>1. tx' = [tx EXCEPT ![t] = "written"]
    BY <1>2 DEF WriteUser
  <2>2. ASSUME t \in Creates, NEW d \in Creates, d # t, UserOf[d] = UserOf[t]
        PROVE  tx[d] \notin {"written", "committed"}
    BY <1>1, <1>2, <2>2 DEF WriteUser, RowFree, NoConflict, Committed
  <2> QED  BY <1>1, <2>1, <2>2 DEF OneWriter, TypeOK
<1>3. ASSUME NEW t \in Txns, BeginTx(t) \/ SaveTx(t) \/ CommitTx(t) \/ RollbackTx(t)
      PROVE  OneWriter'
  <2>1. \A c \in Txns : tx'[c] \in {"written", "committed"} => tx[c] \in {"written", "committed"}
    BY <1>3 DEF BeginTx, SaveTx, CommitTx, RollbackTx, TypeOK
  <2> QED  BY <1>1, <2>1 DEF OneWriter
<1>4. ASSUME NEW i \in Relays, RelayStep(i) \/ Environment(i) PROVE OneWriter'
  <2>1. tx' = tx
    BY <1>4 DEF txVars, RelayStep, Poll, PublishNothing, PublishOK, PublishError, PublishTimedOut,
       MarkSent, MarkFailed, MarkError, NextMessage, Environment, CancelBackground, CloseBroker,
       Exit, Crash, Gone, Restart, LinkBreaks, LinkLost, Reconnect
  <2> QED  BY <2>1 DEF OneWriter
<1>5. ASSUME UNCHANGED vars PROVE OneWriter'
  BY <1>5 DEF vars, txVars, OneWriter
<1> QED  BY <1>2, <1>3, <1>4, <1>5 DEF Next, Transaction

\* Calls of CreateUser that race for one email create one user.
THEOREM OneUserPerEmail == Spec => []OneCreatedPerUser
<1>1. Init => OneWriter
  BY DEF Init, OneWriter, Txns
<1>2. OneWriter => OneCreatedPerUser
  BY DEF OneWriter, OneCreatedPerUser
<1> QED  BY <1>1, <1>2, OneWriterStep, TypeCorrect, PTL DEF Spec

-----------------------------------------------------------------------------
(* The outbox implements EventDelivery.                                    *)

\* Under the refinement mapping a step that leaves the table, the accepted
\* events, the exchange and the overlap alone is a stutter.
LEMMA MapsToStutter ==
    ASSUME UNCHANGED <<row, accepted, copies, overlapped>>
    PROVE  UNCHANGED Delivery!vars
<1>1. UNCHANGED [e \in Event |-> Stage(e)]
  BY DEF Stage
<1> QED  BY <1>1 DEF Delivery!vars

LEMMA MapsInit == Init => Delivery!Init
<1> SUFFICES ASSUME Init PROVE Delivery!Init
  OBVIOUS
<1>1. [e \in Event |-> Stage(e)] = [e \in Event |-> "absent"]
  BY DEF Init, Stage
<1> QED  BY <1>1 DEF Init, Delivery!Init

\* A mark maps to a settled event or, when the row already was what it is set
\* to, to a stutter.
LEMMA MapsMark ==
    ASSUME SafeInv, NEW i \in Relays,
           MarkSent(i) \/ MarkFailed(i) \/ MarkError(i)
    PROVE  Delivery!Next \/ UNCHANGED Delivery!vars
<1> DEFINE h == Head(queue[i])
           st == [e \in Event |-> Stage(e)]
<1>1. /\ TypeInv /\ RowsAreCommitted /\ BatchOfRows
      /\ OneRelay /\ BatchPending /\ PublishedRows
  BY DEF SafeInv
<1>2. queue[i] # <<>> /\ NextMessage(i)
  BY <1>1 DEF MarkSent, MarkFailed, MarkError, TypeInv, BusyHasQueue
<1>3. 1 \in DOMAIN queue[i] /\ h = queue[i][1] /\ h \in Event
  BY <1>1, <1>2, HeadAndTail DEF TypeInv, TypeOK
<1>4. /\ row[h] # "none" /\ row[h] \in Status \cup {"none"}
      /\ ~overlapped => row[h] = "PENDING"
  BY <1>1, <1>3 DEF BatchOfRows, BatchPending, TypeInv, TypeOK
<1>5. UNCHANGED <<accepted, copies, overlapped>>
  BY <1>2 DEF NextMessage, publishVars
<1>6. CASE row' = row
  BY <1>5, <1>6, MapsToStutter
<1>7. CASE MarkSent(i) /\ row' # row
  <2>1. row[h] = "PENDING" /\ row' = [row EXCEPT ![h] = "SENT"] /\ h \in accepted
    BY <1>1, <1>7 DEF MarkSent, tableVars, PublishedRows
  <2>2. st' = [st EXCEPT ![h] = "sent"] /\ st[h] = "owed"
    BY <1>1, <1>3, <2>1 DEF Stage, TypeInv, TypeOK, Status
  <2>3. Delivery!Sent(h)
    BY <1>5, <2>1, <2>2 DEF Delivery!Sent
  <2> QED  BY <1>3, <2>3 DEF Delivery!Next
<1>8. CASE MarkFailed(i) /\ row' # row
  <2>1. row' = [row EXCEPT ![h] = "FAILED"]
    BY <1>8 DEF MarkFailed, FailedStatus
  <2>2. row[h] \in {"PENDING", "SENT"}
    BY <1>1, <1>3, <1>4, <1>8, <2>1 DEF Status, TypeInv, TypeOK
  <2>3. /\ st' = [st EXCEPT ![h] = "failed"]
        /\ st[h] \in IF ~overlapped THEN {"owed"} ELSE {"owed", "sent"}
    BY <1>1, <1>3, <1>4, <2>1, <2>2 DEF Stage, TypeInv, TypeOK, Status
  <2>4. Delivery!GiveUp(h)
    BY <1>5, <2>3 DEF Delivery!GiveUp
  <2> QED  BY <1>3, <2>4 DEF Delivery!Next
<1> QED  BY <1>6, <1>7, <1>8 DEF MarkError, tableVars

LEMMA MapsStep ==
    ASSUME SafeInv, [Next]_vars
    PROVE  Delivery!Next \/ UNCHANGED Delivery!vars
<1> USE DEF txVars, tableVars, relayVars, processVars, publishVars, faultVars
<1> DEFINE st == [e \in Event |-> Stage(e)]
<1>1. /\ TypeInv /\ RowsAreCommitted /\ BatchOfRows
      /\ OneRelay /\ BatchPending /\ PublishedRows
  BY DEF SafeInv
<1>2. ASSUME NEW t \in Txns, Transaction(t) PROVE Delivery!Next \/ UNCHANGED Delivery!vars
  <2>1. CASE CommitTx(t)
    <3> DEFINE S == {e \in Event : e.tx = t /\ e.type \in saved[t]}
    <3>1. /\ row' = [e \in Event |-> IF e \in S THEN "PENDING" ELSE row[e]]
          /\ tx[t] = "written" /\ UNCHANGED <<accepted, copies, overlapped>>
      BY <2>1 DEF CommitTx
    <3>2. \A e \in S : row[e] = "none"
      BY <1>1, <3>1 DEF RowsAreCommitted
    <3>3. /\ \A e \in S : st[e] = "absent"
          /\ st' = [e \in Event |-> IF e \in S THEN "owed" ELSE st[e]]
      BY <1>1, <3>1, <3>2 DEF Stage, TypeInv, TypeOK, Status
    <3>4. Delivery!Record(S)
      BY <3>1, <3>3 DEF Delivery!Record
    <3>5. S \in SUBSET Event
      OBVIOUS
    <3> QED  BY <3>4, <3>5 DEF Delivery!Next
  <2>2. CASE BeginTx(t) \/ WriteUser(t) \/ SaveTx(t) \/ RollbackTx(t)
    <3>1. UNCHANGED <<row, accepted, copies, overlapped>>
      BY <2>2 DEF BeginTx, WriteUser, SaveTx, RollbackTx
    <3> QED  BY <3>1, MapsToStutter
  <2> QED  BY <1>2, <2>1, <2>2 DEF Transaction
<1>3. ASSUME NEW i \in Relays, RelayStep(i) PROVE Delivery!Next \/ UNCHANGED Delivery!vars
  <2>1. CASE PublishOK(i)
    <3> DEFINE h == Head(queue[i])
    <3>1. queue[i] # <<>>
      BY <1>1, <2>1 DEF PublishOK, Attempting, TypeInv, BusyHasQueue
    <3>2. 1 \in DOMAIN queue[i] /\ h = queue[i][1] /\ h \in Event
      BY <1>1, <3>1, HeadAndTail DEF TypeInv, TypeOK
    <3>3. row[h] # "none" /\ (~overlapped => row[h] = "PENDING")
      BY <1>1, <3>2 DEF BatchOfRows, BatchPending
    <3>4. st[h] # "absent" /\ (~overlapped => st[h] = "owed") /\ UNCHANGED <<st, overlapped>>
      BY <1>1, <2>1, <3>2, <3>3 DEF Stage, PublishOK, TypeInv, TypeOK, Status
    <3>5. /\ accepted' = accepted \cup {h}
          /\ copies' = [copies EXCEPT ![h] = @ + 1] \/ copies' = copies
      BY <1>1, <2>1 DEF PublishOK, TypeInv, TypeOK
    <3>6. Delivery!HandOver(h)
      BY <3>4, <3>5 DEF Delivery!HandOver
    <3> QED  BY <3>2, <3>6 DEF Delivery!Next
  <2>2. CASE Poll(i) \/ PublishNothing(i) \/ PublishError(i) \/ PublishTimedOut(i)
    <3>1. UNCHANGED <<row, accepted, copies, overlapped>>
      BY <2>2 DEF Poll, PublishNothing, PublishError, PublishTimedOut
    <3> QED  BY <3>1, MapsToStutter
  <2> QED  BY <1>3, <2>1, <2>2, MapsMark DEF RelayStep
<1>4. ASSUME NEW i \in Relays, Environment(i) PROVE Delivery!Next \/ UNCHANGED Delivery!vars
  <2>1. UNCHANGED <<row, accepted, copies>>
    BY <1>4 DEF Environment, CancelBackground, CloseBroker, Exit, Crash, Gone, Restart,
       LinkBreaks, LinkLost, Reconnect
  <2>2. overlapped' = overlapped \/ overlapped' = TRUE
    BY <1>1, <1>4 DEF Environment, CancelBackground, CloseBroker, Exit, Crash, Gone, Restart,
       LinkBreaks, LinkLost, Reconnect, TypeInv, TypeOK
  <2>3. CASE overlapped' = TRUE
    <3>1. UNCHANGED st
      BY <2>1 DEF Stage
    <3>2. Delivery!Overlap
      BY <2>1, <2>3, <3>1 DEF Delivery!Overlap
    <3> QED  BY <3>2 DEF Delivery!Next
  <2> QED  BY <2>1, <2>2, <2>3, MapsToStutter
<1>5. ASSUME UNCHANGED vars PROVE UNCHANGED Delivery!vars
  BY <1>5, MapsToStutter DEF vars
<1> QED  BY <1>2, <1>3, <1>4, <1>5 DEF Next

\* The transactional outbox implements the delivery EventDelivery describes.
THEOREM OutboxImplementsDelivery == Spec => ImplementsDelivery
<1>1. SafeInv /\ [Next]_vars => [Delivery!Next]_(Delivery!vars)
  BY MapsStep
<1> QED  BY <1>1, MapsInit, AlwaysSafe, PTL DEF Spec, ImplementsDelivery, Delivery!Spec

\* The first consequence of the refinement: a settled row keeps its status and is
\* not published again, unless instances overlap.
THEOREM SettledForGood == Spec => SettledIsFinal
<1>1. SafeInv /\ [Next]_vars =>
        [\A e \in Event : row[e] \in {"SENT", "FAILED"} /\ ~overlapped' =>
            row'[e] = row[e] /\ copies'[e] = copies[e]]_vars
  <2> SUFFICES ASSUME SafeInv, [Next]_vars, NEW e \in Event, row[e] \in {"SENT", "FAILED"},
                      ~overlapped'
               PROVE  row'[e] = row[e] /\ copies'[e] = copies[e]
    OBVIOUS
  <2> DEFINE st == [d \in Event |-> Stage(d)]
  <2>1. /\ row \in [Event -> Status \cup {"none"}] /\ copies \in [Event -> Nat]
        /\ row' \in [Event -> Status \cup {"none"}] /\ copies' \in [Event -> Nat]
    BY TypeInvStep DEF SafeInv, TypeInv, TypeOK
  <2>2. Delivery!Next \/ UNCHANGED Delivery!vars
    BY MapsStep
  <2>3. st[e] \in {"sent", "failed"}
    BY <2>1 DEF Stage
  <2>4. st'[e] = st[e] => row'[e] = row[e]
    BY <2>1 DEF Stage, Status
  <2>5. ASSUME NEW S \in SUBSET Event, Delivery!Record(S) PROVE st'[e] = st[e] /\ copies' = copies
    BY <2>3, <2>5 DEF Delivery!Record
  <2>6. ASSUME NEW d \in Event, Delivery!HandOver(d) PROVE st' = st /\ copies'[e] = copies[e]
    <3>1. ~overlapped /\ st' = st /\ st[d] = "owed"
      BY <2>6 DEF Delivery!HandOver
    <3>2. d # e
      BY <2>3, <3>1
    <3> QED  BY <2>1, <2>6, <3>1, <3>2 DEF Delivery!HandOver
  <2>7. ASSUME NEW d \in Event, Delivery!Sent(d) \/ Delivery!GiveUp(d)
        PROVE  st'[e] = st[e] /\ copies' = copies
    <3>1. ~overlapped /\ copies' = copies /\ st[d] = "owed"
      BY <2>7 DEF Delivery!Sent, Delivery!GiveUp
    <3>2. d # e
      BY <2>3, <3>1
    <3> QED  BY <2>7, <3>1, <3>2 DEF Delivery!Sent, Delivery!GiveUp
  <2>8. ~Delivery!Overlap
    BY DEF Delivery!Overlap
  <2> QED  BY <2>2, <2>4, <2>5, <2>6, <2>7, <2>8 DEF Delivery!Next, Delivery!vars
<1> QED  BY <1>1, AlwaysSafe, PTL DEF Spec, SettledIsFinal

-----------------------------------------------------------------------------
(* The processes' links                                                    *)

\* A process's link moves as BrokerLink says, so that the relay meets no connection
\* a Broker could not have.
THEOREM LinksAreBrokers == Spec => ProcessesHaveLinks
<1>1. TypeInv /\ [Next]_vars =>
        [\A i \in Relays : pc[i] # "down" /\ pc'[i] # "down" => [LinkOf(i)!Next]_(link[i])]_vars
  <2> SUFFICES ASSUME TypeInv, Next, NEW i \in Relays, pc[i] # "down", pc'[i] # "down",
                      link'[i] # link[i]
               PROVE  LinkOf(i)!Next
    OBVIOUS
  <2> USE DEF txVars, tableVars, relayVars, processVars, publishVars, faultVars
  <2>1. link \in [Relays -> {"up", "broken", "down", "closed"}] /\ pc \in [Relays -> RelayState]
    BY DEF TypeInv, TypeOK
  <2>2. ASSUME NEW t \in Txns, Transaction(t) PROVE FALSE
    BY <2>2 DEF Transaction, BeginTx, WriteUser, SaveTx, CommitTx, RollbackTx
  <2>3. ASSUME NEW j \in Relays, RelayStep(j) PROVE FALSE
    BY <2>3 DEF RelayStep, Poll, PublishNothing, PublishOK, PublishError, PublishTimedOut,
       MarkSent, MarkFailed, MarkError, NextMessage
  <2>4. PICK j \in Relays : Environment(j)
    BY <2>2, <2>3 DEF Next
  <2>5. CASE CancelBackground(j) \/ Exit(j) \/ Crash(j)
    BY <2>5 DEF CancelBackground, Exit, Crash, Gone
  <2>6. CASE Restart(j)
    BY <2>1, <2>6 DEF Restart
  <2>7. CASE CloseBroker(j) \/ LinkBreaks(j) \/ LinkLost(j) \/ Reconnect(j)
    <3>1. j = i
      BY <2>1, <2>7 DEF CloseBroker, LinkBreaks, LinkLost, Reconnect
    <3> QED  BY <2>1, <2>7, <3>1 DEF CloseBroker, LinkBreaks, LinkLost, Reconnect,
             LinkOf!Next, LinkOf!Breaks, LinkOf!Noticed, LinkOf!Returns, LinkOf!Closes
  <2> QED  BY <2>4, <2>5, <2>6, <2>7 DEF Environment
<1> QED  BY <1>1, TypeInvInit, TypeInvStep, PTL DEF Spec, ProcessesHaveLinks

\* And the other way round: whatever move BrokerLink makes, and so a Broker does,
\* is one the relay's environment makes, with a fault for a break and not before
\* the context is cancelled for the end.  A link that is back and broken at once
\* takes Reconnect and LinkBreaks.
THEOREM EveryLinkMoveIsMade ==
    ASSUME TypeOK, NEW i \in Relays, pc[i] # "down",
           NEW to, link' = [link EXCEPT ![i] = to], LinkOf(i)!Next,
           link[i] = "down" => to # "broken",
           to = "closed" => ~live[i],
           IF to = "broken" THEN Fault /\ outages' = outages + 1 ELSE UNCHANGED <<faults, outages>>,
           UNCHANGED <<txVars, tableVars, relayVars, live, publishVars, overlapped>>
    PROVE  Environment(i)
<1> USE DEF faultVars
<1>1. link'[i] = to /\ to \in {"up", "broken", "down", "closed"}
  BY DEF TypeOK, LinkOf!Next, LinkOf!Breaks, LinkOf!Noticed, LinkOf!Returns, LinkOf!Closes
<1>2. CASE to = "broken"
  BY <1>1, <1>2 DEF Environment, LinkBreaks, LinkOf!Next, LinkOf!Breaks, LinkOf!Noticed,
     LinkOf!Returns, LinkOf!Closes
<1>3. CASE to = "down"
  BY <1>1, <1>3 DEF Environment, LinkLost, LinkOf!Next, LinkOf!Breaks, LinkOf!Noticed,
     LinkOf!Returns, LinkOf!Closes
<1>4. CASE to = "up"
  BY <1>1, <1>4 DEF Environment, Reconnect, LinkOf!Next, LinkOf!Breaks, LinkOf!Noticed,
     LinkOf!Returns, LinkOf!Closes
<1>5. CASE to = "closed"
  BY <1>1, <1>5 DEF Environment, CloseBroker, Closing, LinkOf!Next, LinkOf!Breaks, LinkOf!Noticed,
     LinkOf!Returns, LinkOf!Closes
<1> QED  BY <1>1, <1>2, <1>3, <1>4, <1>5

-----------------------------------------------------------------------------
(* Duplicates are paid for with faults.                                    *)

\* The message relay i has just handed to the broker, and those its batch
\* still has in front of it.
HandedOver(i, e) == pc[i] = "sent" /\ Head(queue[i]) = e

Ahead(i, e) == ~HandedOver(i, e) /\ \E k \in DOMAIN queue[i] : queue[i][k] = e

\* A pending event has been published at most once per fault, and once more
\* while a live relay is about to mark it.  A relay whose context is cancelled
\* may publish the rest of its batch and mark none of it: each of those still
\* has the cancellation itself to its credit.
CopiesPaidFor ==
    ~overlapped => \A e \in Event :
        /\ copies[e] <= 1 + faults
        /\ row[e] = "PENDING" =>
              /\ (\A i \in Relays : pc[i] = "down") => copies[e] <= faults
              /\ \A i \in Relays : pc[i] # "down" =>
                    /\ ~HandedOver(i, e) => copies[e] <= faults
                    /\ ~live[i] => copies[e] <= faults
                    /\ ~live[i] /\ Ahead(i, e) => copies[e] < faults

CopiesInv == SafeInv /\ CopiesPaidFor

LEMMA CopiesInvInit == Init => CopiesInv
<1> SUFFICES ASSUME Init PROVE CopiesInv
  OBVIOUS
<1>1. SafeInv
  BY SafeInvInit
<1>2. \A e \in Event : copies[e] = 0 /\ row[e] = "none" /\ faults = 0
  BY DEF Init
<1> QED  BY <1>1, <1>2 DEF CopiesInv, CopiesPaidFor

\* While instances do not overlap, what holds of the one relay that is up holds
\* of them all.
LEMMA OnlyRelay ==
    ASSUME SafeInv, ~overlapped, NEW i \in Relays, pc[i] # "down"
    PROVE  \A j \in Relays : j # i => pc[j] = "down"
  BY DEF SafeInv, OneRelay

\* The end of publishMessage: whatever became of the message, the invariant
\* holds of the rest of the batch.
LEMMA CopiesNextMessage ==
    ASSUME CopiesInv, SafeInv', ~overlapped', NEW i \in Relays,
           queue[i] # <<>>, pc[i] # "down", NextMessage(i), UNCHANGED processVars,
           faults' \in Nat, faults' >= faults,
           \A e \in Event : e # Head(queue[i]) => row'[e] = row[e],
           pc[i] = "sent" =>
              \/ ~live[i]
              \/ row'[Head(queue[i])] # "PENDING"
              \/ faults' = faults + 1
    PROVE  CopiesPaidFor'
<1> DEFINE h == Head(queue[i])
<1>1. SafeInv /\ TypeInv /\ BatchOfRows /\ BatchPending /\ CopiesPaidFor
  BY DEF CopiesInv, SafeInv
<1>2. /\ 1 \in DOMAIN queue[i] /\ h = queue[i][1] /\ h \in Event
      /\ \A k \in DOMAIN Tail(queue[i]) :
            /\ k \in Nat \ {0} /\ k + 1 \in DOMAIN queue[i]
            /\ Tail(queue[i])[k] = queue[i][k + 1]
  BY <1>1, HeadAndTail DEF TypeInv, TypeOK
<1>3. /\ queue'[i] = Tail(queue[i]) /\ pc'[i] \in {"idle", "publish"}
      /\ UNCHANGED <<copies, overlapped>> /\ live' = live
      /\ \A j \in Relays : j # i => pc'[j] = pc[j]
  BY <1>1 DEF NextMessage, TypeInv, TypeOK, publishVars, processVars
<1>4. ~overlapped /\ \A j \in Relays : j # i => pc'[j] = "down"
  BY <1>1, <1>3, OnlyRelay
<1>5. copies \in [Event -> Nat] /\ faults \in Nat
  BY <1>1 DEF TypeInv, TypeOK
<1>6. ASSUME NEW e \in Event PROVE copies'[e] <= 1 + faults'
  BY <1>1, <1>3, <1>4, <1>5 DEF CopiesPaidFor
<1>7. ASSUME NEW e \in Event, row'[e] = "PENDING" PROVE copies'[e] <= faults'
  <2>1. CASE e = h
    <3>1. row[h] = "PENDING"
      BY <1>1, <1>2, <1>4 DEF BatchPending
    <3>2. CASE pc[i] = "sent" /\ live[i]
      BY <1>1, <1>2, <1>3, <1>4, <1>5, <1>7, <2>1, <3>1, <3>2 DEF CopiesPaidFor
    <3>3. CASE ~(pc[i] = "sent" /\ live[i])
      <4>1. ~HandedOver(i, h) \/ ~live[i]
        BY <3>3 DEF HandedOver
      <4>2. copies[h] <= faults
        BY <1>1, <1>2, <1>4, <3>1, <4>1 DEF CopiesPaidFor
      <4> QED  BY <1>2, <1>3, <1>5, <2>1, <4>2
    <3> QED  BY <3>2, <3>3
  <2>2. CASE e # h
    <3>1. row[e] = "PENDING" /\ ~HandedOver(i, e)
      BY <1>7, <2>2 DEF HandedOver
    <3>2. copies[e] <= faults
      BY <1>1, <1>4, <3>1 DEF CopiesPaidFor
    <3> QED  BY <1>3, <1>5, <3>2
  <2> QED  BY <2>1, <2>2
<1>8. ASSUME NEW e \in Event, row'[e] = "PENDING", ~live'[i], Ahead(i, e)'
      PROVE  copies'[e] < faults'
  <2>1. PICK k \in DOMAIN Tail(queue[i]) : Tail(queue[i])[k] = e
    BY <1>3, <1>8 DEF Ahead
  <2>2. k + 1 \in DOMAIN queue[i] /\ queue[i][k + 1] = e /\ k + 1 # 1
    BY <1>2, <2>1
  <2>3. e # h
    BY <1>1, <1>2, <2>2 DEF BatchOfRows
  <2>4. Ahead(i, e) /\ row[e] = "PENDING"
    BY <1>8, <2>2, <2>3 DEF Ahead, HandedOver
  <2>5. copies[e] < faults
    BY <1>1, <1>3, <1>4, <1>8, <2>4 DEF CopiesPaidFor
  <2> QED  BY <1>3, <1>5, <2>5
<1> QED  BY <1>4, <1>6, <1>7, <1>8 DEF CopiesPaidFor

\* A step that publishes nothing, takes no relay up or down and leaves alone the
\* context, the batch in hand and what is handed over keeps the bounds.
LEMMA CopiesUntouched ==
    ASSUME CopiesInv, TypeInv', UNCHANGED <<queue, live, copies, overlapped>>,
           faults' >= faults,
           \A i \in Relays : pc'[i] = "down" <=> pc[i] = "down",
           \A i \in Relays : pc'[i] = "sent" <=> pc[i] = "sent",
           \A e \in Event : row'[e] = "PENDING" => row[e] = "PENDING"
    PROVE  CopiesPaidFor'
<1>1. CopiesPaidFor /\ faults \in Nat /\ faults' \in Nat /\ copies \in [Event -> Nat]
  BY DEF CopiesInv, SafeInv, TypeInv, TypeOK
<1>2. \A i \in Relays, e \in Event :
         (HandedOver(i, e)' <=> HandedOver(i, e)) /\ (Ahead(i, e)' <=> Ahead(i, e))
  BY DEF HandedOver, Ahead
<1> QED  BY <1>1, <1>2 DEF CopiesPaidFor

LEMMA CopiesInvTransaction ==
    ASSUME CopiesInv, SafeInv', NEW t \in Txns, Transaction(t)
    PROVE  CopiesPaidFor'
<1> USE DEF txVars, tableVars, relayVars, processVars, publishVars, faultVars
<1>1. /\ SafeInv /\ TypeInv /\ TypeInv' /\ CopiesPaidFor
      /\ BatchOfRows /\ PublishedRows /\ RowsAreCommitted
  BY DEF CopiesInv, SafeInv
<1>2. UNCHANGED <<queue, pc, live, copies, overlapped, faults>>
  BY DEF Transaction, BeginTx, WriteUser, SaveTx, CommitTx, RollbackTx
<1>3. faults \in Nat /\ copies \in [Event -> Nat]
  BY <1>1 DEF TypeInv, TypeOK
<1>4. CASE CommitTx(t)
  <2>1. \A e \in Event : row'[e] # row[e] => row[e] = "none"
    BY <1>1, <1>4 DEF CommitTx, RowsAreCommitted
  <2>2. ASSUME NEW e \in Event, row'[e] # row[e]
        PROVE  copies[e] = 0 /\ \A i \in Relays : ~Ahead(i, e)
    <3>1. row[e] = "none"
      BY <2>1, <2>2
    <3> QED  BY <1>1, <1>3, <3>1 DEF PublishedRows, BatchOfRows, Ahead
  <2>3. \A i \in Relays, e \in Event :
           (HandedOver(i, e)' <=> HandedOver(i, e)) /\ (Ahead(i, e)' <=> Ahead(i, e))
    BY <1>2 DEF HandedOver, Ahead
  <2> QED  BY <1>1, <1>2, <1>3, <2>2, <2>3 DEF CopiesPaidFor
<1>5. CASE BeginTx(t) \/ WriteUser(t) \/ SaveTx(t) \/ RollbackTx(t)
  <2>1. row' = row
    BY <1>5 DEF BeginTx, WriteUser, SaveTx, RollbackTx
  <2> QED  BY <1>1, <1>2, <1>3, <2>1, CopiesUntouched
<1> QED  BY <1>4, <1>5 DEF Transaction

LEMMA CopiesInvRelayStep ==
    ASSUME CopiesInv, SafeInv', NEW i \in Relays, RelayStep(i)
    PROVE  CopiesPaidFor'
<1> USE DEF txVars, tableVars, relayVars, processVars, publishVars, faultVars
<1> SUFFICES ASSUME ~overlapped' PROVE CopiesPaidFor'
  BY DEF CopiesPaidFor
<1>1. SafeInv /\ TypeInv /\ TypeInv' /\ CopiesPaidFor /\ BatchPending /\ BatchOfRows
  BY DEF CopiesInv, SafeInv
<1>2. ~overlapped /\ pc[i] # "down" /\ UNCHANGED processVars
  BY DEF RelayStep, Poll, PublishNothing, PublishOK, PublishError, PublishTimedOut, Attempting,
     MarkSent, MarkFailed, MarkError, NextMessage
<1>3. \A j \in Relays : j # i => pc[j] = "down"
  BY <1>1, <1>2, OnlyRelay
<1>4. faults \in Nat /\ copies \in [Event -> Nat]
  BY <1>1 DEF TypeInv, TypeOK
<1>5. CASE Poll(i)
  <2>1. /\ pc[i] = "idle" /\ live[i] /\ pc'[i] \in {"idle", "publish"}
        /\ \A j \in Relays : j # i => pc'[j] = "down"
        /\ UNCHANGED <<row, copies, faults>>
    BY <1>1, <1>3, <1>5 DEF Poll, TypeInv, TypeOK
  <2>2. \A e \in Event : ~HandedOver(i, e)
    BY <2>1 DEF HandedOver
  <2> QED  BY <1>1, <1>2, <1>4, <2>1, <2>2 DEF CopiesPaidFor
<1>6. CASE PublishNothing(i) \/ PublishError(i) \/ PublishTimedOut(i)
  <2>1. /\ pc[i] = "publish" /\ pc'[i] \in {"publish", "failed"}
        /\ \A j \in Relays : j # i => pc'[j] = pc[j]
        /\ UNCHANGED <<queue, row, copies, overlapped, faults>>
    BY <1>1, <1>6 DEF PublishNothing, PublishError, PublishTimedOut, Attempting, AfterError,
       TypeInv, TypeOK
  <2> QED  BY <1>1, <1>2, <1>4, <2>1, CopiesUntouched
<1>7. CASE PublishOK(i)
  <2> DEFINE h == Head(queue[i])
  <2>1. /\ pc[i] = "publish" /\ pc'[i] = "sent" /\ h \in Event
        /\ \A j \in Relays : j # i => pc'[j] = pc[j]
        /\ UNCHANGED <<queue, row, faults, live>>
        /\ \A e \in Event : e # h => copies'[e] = copies[e]
        /\ copies'[h] \in {copies[h], copies[h] + 1}
    <3>1. queue[i] # <<>>
      BY <1>1, <1>7 DEF PublishOK, Attempting, TypeInv, BusyHasQueue
    <3>2. h \in Event
      BY <1>1, <3>1, HeadAndTail DEF TypeInv, TypeOK
    <3> QED  BY <1>1, <1>7, <3>2 DEF PublishOK, Attempting, TypeInv, TypeOK
  <2>2. 1 \in DOMAIN queue[i] /\ h = queue[i][1]
    BY <1>1, <2>1, HeadAndTail DEF TypeInv, TypeOK, BusyHasQueue
  <2>3. \A e \in Event : ~HandedOver(i, e) /\ (HandedOver(i, e)' <=> e = h)
    BY <2>1 DEF HandedOver
  <2>4. Ahead(i, h) /\ \A e \in Event : Ahead(i, e)' => e # h /\ Ahead(i, e)
    BY <2>1, <2>2, <2>3 DEF Ahead
  <2>5. row[h] = "PENDING"
    BY <1>1, <1>2, <2>2 DEF BatchPending
  <2>6. copies[h] <= faults /\ (~live[i] => copies[h] < faults)
    BY <1>1, <1>2, <2>1, <2>3, <2>4, <2>5 DEF CopiesPaidFor
  <2>7. copies'[h] <= 1 + faults' /\ (~live'[i] => copies'[h] <= faults')
    BY <1>4, <2>1, <2>6
  <2>8. ASSUME NEW e \in Event
        PROVE  /\ copies'[e] <= 1 + faults'
               /\ row'[e] = "PENDING" =>
                    /\ ~HandedOver(i, e)' => copies'[e] <= faults'
                    /\ ~live'[i] => copies'[e] <= faults'
                    /\ ~live'[i] /\ Ahead(i, e)' => copies'[e] < faults'
    <3>1. CASE e = h
      BY <2>3, <2>4, <2>7, <3>1
    <3>2. CASE e # h
      BY <1>1, <1>2, <1>4, <2>1, <2>3, <2>4, <3>2 DEF CopiesPaidFor
    <3> QED  BY <3>1, <3>2
  <2>9. \A j \in Relays : pc'[j] # "down" => j = i
    BY <1>3, <2>1
  <2> QED  BY <2>1, <2>8, <2>9 DEF CopiesPaidFor
<1>8. CASE MarkSent(i) \/ MarkFailed(i) \/ MarkError(i)
  <2> DEFINE h == Head(queue[i])
  <2>1. queue[i] # <<>> /\ NextMessage(i)
    BY <1>1, <1>8 DEF MarkSent, MarkFailed, MarkError, TypeInv, BusyHasQueue
  <2>2. 1 \in DOMAIN queue[i] /\ h = queue[i][1] /\ h \in Event
    BY <1>1, <2>1, HeadAndTail DEF TypeInv, TypeOK
  <2>3. row[h] = "PENDING"
    BY <1>1, <1>2, <2>2 DEF BatchPending
  <2>4. \A e \in Event : e # h => row'[e] = row[e]
    BY <1>1, <1>8 DEF MarkSent, MarkFailed, MarkError, TypeInv, TypeOK
  <2>5. faults' \in Nat /\ faults' >= faults
    BY <1>4, <1>8 DEF MarkSent, MarkFailed, MarkError
  <2>6. pc[i] = "sent" => ~live[i] \/ row'[h] # "PENDING" \/ faults' = faults + 1
    BY <1>1, <1>8, <2>2, <2>3 DEF MarkSent, MarkFailed, MarkError, TypeInv, TypeOK
  <2> QED  BY <1>2, <2>1, <2>4, <2>5, <2>6, CopiesNextMessage
<1> QED  BY <1>5, <1>6, <1>7, <1>8 DEF RelayStep

LEMMA CopiesInvEnvironment ==
    ASSUME CopiesInv, SafeInv', NEW i \in Relays, Environment(i)
    PROVE  CopiesPaidFor'
<1> USE DEF txVars, tableVars, relayVars, processVars, publishVars, faultVars
<1> SUFFICES ASSUME ~overlapped' PROVE CopiesPaidFor'
  BY DEF CopiesPaidFor
<1>1. SafeInv /\ TypeInv /\ TypeInv' /\ CopiesPaidFor
  BY DEF CopiesInv, SafeInv
<1>2. faults \in Nat /\ copies \in [Event -> Nat]
  BY <1>1 DEF TypeInv, TypeOK
<1>3. UNCHANGED <<row, copies>>
  BY DEF Environment, CancelBackground, CloseBroker, Exit, Crash, Gone, Restart,
         LinkBreaks, LinkLost, Reconnect
<1>4. CASE CloseBroker(i) \/ LinkBreaks(i) \/ LinkLost(i) \/ Reconnect(i)
  <2>1. UNCHANGED <<relayVars, live, overlapped>> /\ faults' >= faults
    BY <1>2, <1>4 DEF CloseBroker, LinkBreaks, LinkLost, Reconnect, Fault
  <2> QED  BY <1>1, <1>3, <2>1, CopiesUntouched
<1>5. CASE CancelBackground(i)
  <2>1. /\ UNCHANGED <<queue, pc, overlapped>> /\ faults' = faults + 1
        /\ pc[i] # "down" /\ live[i]
    BY <1>5 DEF CancelBackground, Fault
  <2>2. \A j \in Relays : j # i => pc[j] = "down"
    BY <1>1, <2>1, OnlyRelay
  <2>3. \A e \in Event :
           (HandedOver(i, e)' <=> HandedOver(i, e)) /\ (Ahead(i, e)' <=> Ahead(i, e))
    BY <2>1 DEF HandedOver, Ahead
  <2>4. \A e \in Event : Ahead(i, e) => ~HandedOver(i, e)
    BY DEF Ahead
  <2> QED  BY <1>1, <1>2, <1>3, <2>1, <2>2, <2>3, <2>4 DEF CopiesPaidFor
<1>6. CASE Exit(i) \/ Crash(i)
  <2>1. /\ pc[i] # "down" /\ overlapped' = overlapped
        /\ pc' = [pc EXCEPT ![i] = "down"]
        /\ (~live[i] /\ faults' = faults) \/ faults' = faults + 1
    BY <1>6 DEF Exit, Crash, Gone, Fault
  <2>2. \A j \in Relays : pc'[j] = "down"
    BY <1>1, <2>1, OnlyRelay DEF TypeInv, TypeOK
  <2>3. \A e \in Event : row[e] = "PENDING" => copies[e] <= faults'
    BY <1>1, <1>2, <2>1 DEF CopiesPaidFor
  <2>4. \A e \in Event : copies[e] <= 1 + faults'
    BY <1>1, <1>2, <2>1 DEF CopiesPaidFor
  <2> QED  BY <1>3, <2>2, <2>3, <2>4 DEF CopiesPaidFor
<1>7. CASE Restart(i)
  <2>1. /\ ~overlapped /\ \A j \in Relays : pc[j] = "down"
        /\ pc' = [pc EXCEPT ![i] = "idle"] /\ live'[i] /\ faults' = faults
    BY <1>1, <1>7 DEF Restart, TypeInv, TypeOK
  <2>2. \A j \in Relays : pc'[j] # "down" => j = i
    BY <1>1, <2>1 DEF TypeInv, TypeOK
  <2>3. \A e \in Event : row[e] = "PENDING" => copies[e] <= faults
    BY <1>1, <2>1 DEF CopiesPaidFor
  <2> QED  BY <1>1, <1>3, <2>1, <2>2, <2>3 DEF CopiesPaidFor
<1> QED  BY <1>4, <1>5, <1>6, <1>7 DEF Environment

LEMMA CopiesInvStep == CopiesInv /\ [Next]_vars => CopiesInv'
<1> SUFFICES ASSUME CopiesInv, [Next]_vars PROVE CopiesInv'
  OBVIOUS
<1>1. SafeInv' /\ TypeInv'
  BY SafeInvStep DEF CopiesInv, SafeInv
<1>2. ASSUME UNCHANGED vars PROVE CopiesPaidFor'
  <2>1. UNCHANGED <<queue, live, copies, overlapped, faults, pc, row>>
    BY <1>2 DEF vars, tableVars, relayVars, processVars, publishVars, faultVars
  <2>2. faults \in Nat
    BY DEF CopiesInv, SafeInv, TypeInv, TypeOK
  <2> QED  BY <1>1, <2>1, <2>2, CopiesUntouched
<1> QED  BY <1>1, <1>2, CopiesInvTransaction, CopiesInvRelayStep, CopiesInvEnvironment
         DEF Next, CopiesInv

\* Every duplicate is paid for by a fault as long as instances do not overlap.
THEOREM DuplicatesArePaidFor == Spec => []DuplicatesNeedFaults
<1>1. CopiesInv => DuplicatesNeedFaults
  BY DEF CopiesInv, CopiesPaidFor, DuplicatesNeedFaults
<1> QED  BY <1>1, CopiesInvInit, CopiesInvStep, PTL DEF Spec

-----------------------------------------------------------------------------
(* The consumers hear of a user before they hear anything else about it.   *)

Announcement(c) == [tx |-> c, type |-> "user.created"]

Begun == {s \in Txns : tx[s] # "idle"}

\* Transactions get their created_at in the order in which they begin, and those
\* about a user begin after the user's CreateUser has committed.
StampInv ==
    /\ \A s \in Begun : stamp[s] <= Cardinality(Begun)
    /\ \A t \in Begun \ Creates : \E c \in Creates :
           tx[c] = "committed" /\ UserOf[c] = UserOf[t] /\ stamp[c] < stamp[t]
    /\ \A c \in Creates : tx[c] \in {"written", "committed"} => emits[c] = {"user.created"}

\* A publication is tried before its row is settled.
TriedInv ==
    /\ \A e \in attempted : row[e] # "none"
    /\ \A e \in Event : e.type \in RegisteredTypes /\ row[e] \in {"SENT", "FAILED"} => e \in attempted
    /\ \A i \in Relays :
          /\ pc[i] \in {"sent", "failed"} \/ (pc[i] = "publish" /\ attempt[i] > 0)
          /\ Head(queue[i]).type \in RegisteredTypes
          => Head(queue[i]) \in attempted

\* In every batch user.created stands before the user's other events, unless it has
\* been tried.
LineInv ==
    \A i \in Relays : \A k \in DOMAIN queue[i] : \A c \in Creates :
        /\ tx[c] = "committed" /\ UserOf[c] = UserOf[queue[i][k].tx]
        /\ queue[i][k] # Announcement(c)
        => \/ Announcement(c) \in attempted
           \/ \E j \in DOMAIN queue[i] : j < k /\ queue[i][j] = Announcement(c)

Announced == "user.created" \in RegisteredTypes /\ RetryCount > 0

OrderInv ==
    /\ SafeInv /\ OneWriter /\ StampInv
    /\ RetryCount = 0 => attempted = {}
    /\ Announced => TriedInv /\ LineInv /\ CreatedFirst

LEMMA CreateIsCall == \A c \in Creates : c \in Txns /\ Announcement(c) \in Event
  BY DEF Txns, Announcement, Event, EventTypes

LEMMA OrderInvInit == Init => OrderInv
<1> SUFFICES ASSUME Init PROVE OrderInv
  OBVIOUS
<1>1. SafeInv
  BY SafeInvInit
<1>2. \A i \in Relays : queue[i] = <<>> /\ DOMAIN queue[i] = {} /\ pc[i] \in {"idle", "down"}
  BY DEF Init
<1>3. OneWriter /\ StampInv
  BY DEF Init, OneWriter, StampInv, Begun, Txns
<1>4. TriedInv /\ LineInv /\ CreatedFirst
  BY <1>2 DEF Init, TriedInv, LineInv, CreatedFirst
<1> QED  BY <1>1, <1>3, <1>4 DEF OrderInv, Init

\* What the rows of one user have to do with its CreateUser.
LEMMA RowsOfUser ==
    ASSUME SafeInv, OneWriter, StampInv, NEW c \in Creates, NEW e \in Event,
           row[e] # "none", UserOf[e.tx] = UserOf[c]
    PROVE  /\ tx[c] # "written"
           /\ tx[c] = "committed" => e = Announcement(c) \/ stamp[c] < stamp[e.tx]
<1>1. e.tx \in Txns /\ tx[e.tx] = "committed" /\ e.type \in emits[e.tx]
  BY TxOfEvent DEF SafeInv, RowsAreCommitted
<1>2. CASE e.tx \in Creates
  <2>1. tx[c] \in {"written", "committed"} => e.tx = c
    BY <1>1, <1>2 DEF OneWriter
  <2>2. e.type = "user.created"
    BY <1>1, <1>2 DEF StampInv
  <2>3. e = [tx |-> e.tx, type |-> e.type]
    BY DEF Event
  <2> QED  BY <1>1, <2>1, <2>2, <2>3 DEF Announcement
<1>3. CASE e.tx \notin Creates
  <2>1. PICK d \in Creates :
           tx[d] = "committed" /\ UserOf[d] = UserOf[e.tx] /\ stamp[d] < stamp[e.tx]
    BY <1>1, <1>3 DEF StampInv, Begun
  <2>2. tx[c] \in {"written", "committed"} => c = d
    BY <2>1 DEF OneWriter
  <2> QED  BY <2>1, <2>2
<1> QED  BY <1>2, <1>3

LEMMA StampStep == TypeOK /\ StampInv /\ [Next]_vars => StampInv'
<1> SUFFICES ASSUME TypeOK, StampInv, [Next]_vars PROVE StampInv'
  OBVIOUS
<1>1. /\ tx \in [Txns -> {"idle", "open", "written", "committed", "aborted"}]
      /\ stamp \in [Txns -> Nat] /\ emits \in [Txns -> SUBSET EventTypes]
      /\ \A c \in Creates : c \in Txns
  BY CreateIsCall DEF TypeOK
<1>2. ASSUME NEW t \in Txns, BeginTx(t) PROVE StampInv'
  <2>1. /\ tx[t] = "idle" /\ tx' = [tx EXCEPT ![t] = "open"] /\ Precondition(t)
        /\ stamp' = [stamp EXCEPT ![t] = 1 + Cardinality(Begun)] /\ emits' = emits
    BY <1>2 DEF BeginTx, Begun
  <2>2. IsFiniteSet(Begun) /\ t \notin Begun /\ Cardinality(Begun) \in Nat
    <3>1. Begun \subseteq Txns
      BY DEF Begun
    <3> QED  BY <2>1, <3>1, FS_Subset, TxnsAssumption, CountOfTxns DEF Begun
  <2>3. Begun' = Begun \cup {t}
    BY <1>1, <2>1 DEF Begun
  <2>4. Cardinality(Begun') = Cardinality(Begun) + 1
    BY <2>2, <2>3, FS_AddElement
  <2>5. /\ stamp'[t] = 1 + Cardinality(Begun) /\ tx'[t] = "open"
        /\ \A s \in Txns : s # t => stamp'[s] = stamp[s] /\ tx'[s] = tx[s]
    BY <1>1, <2>1
  <2>6. \A s \in Begun' : stamp'[s] <= Cardinality(Begun')
    <3> SUFFICES ASSUME NEW s \in Begun' PROVE stamp'[s] <= Cardinality(Begun) + 1
      BY <2>4
    <3>1. CASE s = t
      BY <2>2, <2>5, <3>1
    <3>2. CASE s # t
      <4>1. s \in Begun /\ s \in Txns
        BY <2>3, <3>2 DEF Begun
      <4>2. stamp[s] <= Cardinality(Begun) /\ stamp[s] \in Nat /\ stamp'[s] = stamp[s]
        BY <1>1, <2>5, <3>2, <4>1 DEF StampInv
      <4> QED  BY <2>2, <4>2
    <3> QED  BY <3>1, <3>2
  <2>7. ASSUME NEW s \in Begun' \ Creates
        PROVE  \E c \in Creates : tx'[c] = "committed" /\ UserOf[c] = UserOf[s] /\ stamp'[c] < stamp'[s]
    <3>1. CASE s = t
      <4>1. PICK c \in Creates : tx[c] = "committed" /\ UserOf[c] = UserOf[t]
        BY <2>1, <2>7, <3>1 DEF Precondition, Committed
      <4>2. c \in Begun /\ c \in Txns /\ c # t
        BY <1>1, <2>1, <4>1 DEF Begun
      <4>3. stamp[c] <= Cardinality(Begun) /\ stamp[c] \in Nat
        BY <1>1, <4>2 DEF StampInv
      <4>4. stamp'[c] < stamp'[t]
        BY <2>2, <2>5, <4>2, <4>3
      <4> QED  BY <2>5, <3>1, <4>1, <4>2, <4>4
    <3>2. CASE s # t
      <4>1. s \in Begun \ Creates /\ s \in Txns
        BY <2>3, <2>7, <3>2 DEF Begun
      <4>2. PICK c \in Creates : tx[c] = "committed" /\ UserOf[c] = UserOf[s] /\ stamp[c] < stamp[s]
        BY <4>1 DEF StampInv
      <4>3. c # t /\ c \in Txns
        BY <1>1, <2>1, <4>2
      <4> QED  BY <2>5, <3>2, <4>1, <4>2, <4>3
    <3> QED  BY <3>1, <3>2
  <2>8. \A c \in Creates : tx'[c] \in {"written", "committed"} => emits'[c] = {"user.created"}
    BY <1>1, <2>1, <2>5 DEF StampInv
  <2> QED  BY <2>6, <2>7, <2>8 DEF StampInv
<1>3. ASSUME UNCHANGED stamp,
             \A s \in Txns : /\ tx'[s] = "idle" <=> tx[s] = "idle"
                             /\ tx[s] = "committed" => tx'[s] = "committed",
             \A c \in Creates : tx'[c] \in {"written", "committed"} => emits'[c] = {"user.created"}
      PROVE  StampInv'
  <2>1. Begun' = Begun
    BY <1>3 DEF Begun
  <2> QED  BY <1>1, <1>3, <2>1 DEF StampInv
<1>4. ASSUME NEW t \in Txns, WriteUser(t) PROVE StampInv'
  <2>1. PICK types \in Recordable(t) : emits' = [emits EXCEPT ![t] = types]
    BY <1>4 DEF WriteUser
  <2>2. t \in Creates => types = {"user.created"}
    BY <2>1 DEF Recordable
  <2>3. tx[t] = "open" /\ tx' = [tx EXCEPT ![t] = "written"] /\ stamp' = stamp
    BY <1>4 DEF WriteUser
  <2>4. \A c \in Creates : tx'[c] \in {"written", "committed"} => emits'[c] = {"user.created"}
    BY <1>1, <2>1, <2>2, <2>3 DEF StampInv
  <2>5. \A s \in Txns : /\ tx'[s] = "idle" <=> tx[s] = "idle"
                        /\ tx[s] = "committed" => tx'[s] = "committed"
    BY <1>1, <2>3
  <2> QED  BY <1>3, <2>3, <2>4, <2>5
<1>5. ASSUME NEW t \in Txns, SaveTx(t) \/ CommitTx(t) \/ RollbackTx(t) PROVE StampInv'
  <2>1. /\ UNCHANGED <<stamp, emits>>
        /\ \A s \in Txns : /\ tx'[s] = "idle" <=> tx[s] = "idle"
                           /\ tx[s] = "committed" => tx'[s] = "committed"
                           /\ tx'[s] \in {"written", "committed"} => tx[s] \in {"written", "committed"}
    BY <1>1, <1>5 DEF SaveTx, CommitTx, RollbackTx
  <2> QED  BY <1>1, <1>3, <2>1 DEF StampInv
<1>6. ASSUME UNCHANGED txVars PROVE StampInv'
  BY <1>1, <1>3, <1>6 DEF txVars, StampInv
<1>7. ASSUME NEW i \in Relays, RelayStep(i) \/ Environment(i) PROVE StampInv'
  <2>1. UNCHANGED txVars
    BY <1>7 DEF RelayStep, Poll, PublishNothing, PublishOK, PublishError, PublishTimedOut,
       MarkSent, MarkFailed, MarkError, NextMessage, Environment, CancelBackground, CloseBroker,
       Exit, Crash, Gone, Restart, LinkBreaks, LinkLost, Reconnect
  <2> QED  BY <1>6, <2>1
<1> QED  BY <1>2, <1>4, <1>5, <1>6, <1>7 DEF Next, Transaction, vars

\* Steps that try nothing and leave the batches alone.
LEMMA OrderUntouched ==
    ASSUME OrderInv, SafeInv', OneWriter', StampInv',
           UNCHANGED <<attempted, row, queue, attempt>>,
           \A i \in Relays : pc'[i] = pc[i],
           \A s \in Txns : tx'[s] = "committed" <=> tx[s] = "committed"
    PROVE  OrderInv'
<1>1. \A c \in Creates : c \in Txns
  BY CreateIsCall
<1>2. TriedInv => TriedInv'
  BY DEF TriedInv
<1>3. LineInv /\ CreatedFirst => LineInv' /\ CreatedFirst'
  BY <1>1 DEF LineInv, CreatedFirst
<1> QED  BY <1>2, <1>3 DEF OrderInv, Announced

LEMMA OrderTransaction ==
    ASSUME OrderInv, SafeInv', OneWriter', StampInv', NEW t \in Txns, Transaction(t)
    PROVE  OrderInv'
<1> USE DEF txVars, tableVars, relayVars, processVars, publishVars, faultVars
<1>1. SafeInv /\ TypeInv /\ OneWriter /\ StampInv /\ BatchOfRows /\ RowsAreCommitted
  BY DEF OrderInv, SafeInv
<1>2. CASE BeginTx(t) \/ WriteUser(t) \/ SaveTx(t) \/ RollbackTx(t)
  <2>1. /\ UNCHANGED <<attempted, row, queue, attempt, pc>>
        /\ \A s \in Txns : tx'[s] = "committed" <=> tx[s] = "committed"
    BY <1>1, <1>2 DEF BeginTx, WriteUser, SaveTx, RollbackTx, TypeInv, TypeOK
  <2> QED  BY <2>1, OrderUntouched
<1>3. CASE CommitTx(t)
  <2>1. /\ UNCHANGED <<attempted, queue, attempt, pc>> /\ tx[t] = "written"
        /\ \A s \in Txns : s # t => tx'[s] = tx[s]
        /\ \A e \in Event : row'[e] # row[e] => row[e] = "none" /\ row'[e] = "PENDING"
    BY <1>1, <1>3 DEF CommitTx, RowsAreCommitted, TypeInv, TypeOK
  <2>2. \A e \in Event : row[e] # "none" /\ t \in Creates => UserOf[e.tx] # UserOf[t]
    BY <1>1, <2>1, RowsOfUser
  <2>3. attempted \subseteq Event /\ \A i \in Relays : \A k \in DOMAIN queue[i] : queue[i][k] \in Event
    BY <1>1, BatchTyped DEF TypeInv, TypeOK
  <2>4. TriedInv => TriedInv'
    BY <2>1, <2>3 DEF TriedInv
  <2>5. TriedInv /\ CreatedFirst => CreatedFirst'
    <3> SUFFICES ASSUME TriedInv, CreatedFirst, NEW e \in attempted, NEW c \in Creates,
                        UserOf[c] = UserOf[e.tx], tx'[c] = "committed",
                        "user.created" \in RegisteredTypes
                 PROVE  Announcement(c) \in attempted
      BY <2>1 DEF CreatedFirst, Announcement
    <3>1. row[e] # "none" /\ e \in Event
      BY <2>3 DEF TriedInv
    <3>2. c # t
      BY <2>2, <3>1
    <3>3. tx[c] = "committed"
      BY <2>1, <3>2, CreateIsCall
    <3> QED  BY <3>3 DEF CreatedFirst, Announcement
  <2>6. LineInv => LineInv'
    <3> SUFFICES ASSUME LineInv, NEW i \in Relays, NEW k \in DOMAIN queue[i], NEW c \in Creates,
                        tx'[c] = "committed", UserOf[c] = UserOf[queue[i][k].tx],
                        queue[i][k] # Announcement(c)
                 PROVE  \/ Announcement(c) \in attempted
                        \/ \E j \in DOMAIN queue[i] : j < k /\ queue[i][j] = Announcement(c)
      BY <2>1 DEF LineInv
    <3>1. row[queue[i][k]] # "none" /\ queue[i][k] \in Event
      BY <1>1, <2>3 DEF BatchOfRows
    <3>2. c # t
      BY <2>2, <3>1
    <3>3. tx[c] = "committed"
      BY <2>1, <3>2, CreateIsCall
    <3> QED  BY <3>3 DEF LineInv
  <2> QED  BY <2>1, <2>4, <2>5, <2>6 DEF OrderInv, Announced
<1> QED  BY <1>2, <1>3 DEF Transaction

\* A batch as GetPending returns it is in order.
LEMMA OrderPoll ==
    ASSUME SafeInv, OneWriter, StampInv, TriedInv, Announced, NEW b \in Batches,
           NEW k \in DOMAIN b, NEW c \in Creates, tx[c] = "committed",
           UserOf[c] = UserOf[b[k].tx], b[k] # Announcement(c)
    PROVE  \/ Announcement(c) \in attempted
           \/ \E j \in DOMAIN b : j < k /\ b[j] = Announcement(c)
<1> DEFINE a == Announcement(c)
<1>1. /\ b \in Seq(Event) /\ b[k] \in Event /\ row[b[k]] = "PENDING"
      /\ \A j \in DOMAIN b : j \in Nat
  BY BatchOfPending, LenProperties
<1>2. /\ a \in Event /\ a.tx = c /\ a.type = "user.created" /\ c \in Txns /\ b[k].tx \in Txns
      /\ stamp[c] \in Nat /\ stamp[b[k].tx] \in Nat /\ row[a] \in Status \cup {"none"}
  BY <1>1, CreateIsCall, TxOfEvent DEF Announcement, SafeInv, TypeInv, TypeOK
<1>3. stamp[c] < stamp[b[k].tx]
  BY <1>1, RowsOfUser
<1>4. row[a] # "none"
  BY <1>2 DEF SafeInv, RowsAreCommitted, StampInv
<1>5. CASE row[a] \in {"SENT", "FAILED"}
  BY <1>2, <1>5 DEF TriedInv, Announced
<1>6. CASE row[a] = "PENDING"
  <2>1. OldestFirst(b) /\ a \in Pending
    BY <1>2, <1>6 DEF Batches, Pending
  <2>2. a \in Range(b)
    BY <1>2, <1>3, <2>1 DEF OldestFirst
  <2>3. PICK j \in DOMAIN b : b[j] = a
    BY <2>2 DEF Range
  <2>4. j # k /\ ~(k < j)
    BY <1>2, <1>3, <2>1, <2>3 DEF OldestFirst
  <2> QED  BY <1>1, <2>3, <2>4
<1> QED  BY <1>2, <1>4, <1>5, <1>6 DEF Status

\* A relay that goes from message to message, or is gone, leaves what is ahead in order.
LEMMA OrderNextMessage ==
    ASSUME OrderInv, SafeInv', OneWriter', StampInv', NEW i \in Relays, NextMessage(i),
           pc[i] \in {"sent", "failed"},
           \A e \in Event : e # Head(queue[i]) => row'[e] = row[e]
    PROVE  OrderInv'
<1> USE DEF txVars, tableVars, relayVars, processVars, publishVars, faultVars
<1> DEFINE h == Head(queue[i])
<1>1. SafeInv /\ TypeInv /\ SafeInv' /\ TypeInv'
  BY DEF OrderInv, SafeInv
<1>2. queue[i] # <<>> /\ queue[i] \in Seq(Event)
  BY <1>1 DEF TypeInv, TypeOK, BusyHasQueue
<1>3. /\ 1 \in DOMAIN queue[i] /\ h = queue[i][1] /\ h \in Event
      /\ Tail(queue[i]) \in Seq(Event)
      /\ \A k \in DOMAIN Tail(queue[i]) :
            k \in Nat \ {0} /\ k + 1 \in DOMAIN queue[i] /\ Tail(queue[i])[k] = queue[i][k + 1]
  BY <1>2, HeadAndTail
<1>4. /\ queue'[i] = Tail(queue[i]) /\ pc'[i] \in {"idle", "publish"} /\ attempt'[i] = 0
      /\ \A m \in Relays : m # i =>
            queue'[m] = queue[m] /\ pc'[m] = pc[m] /\ attempt'[m] = attempt[m]
      /\ UNCHANGED <<tx, attempted>>
  BY <1>1 DEF NextMessage, TypeInv, TypeOK
<1>5. attempted \subseteq Event /\ h \in attempted => row'[h] # "none"
  <2>1. h.tx \in Txns /\ row[h] # "none"
    BY <1>1, <1>3, TxOfEvent DEF SafeInv, BatchOfRows
  <2>2. tx[h.tx] = "committed" /\ h.type \in emits[h.tx] /\ emits' = emits
    BY <1>1, <1>3, <2>1 DEF SafeInv, RowsAreCommitted, NextMessage
  <2> QED  BY <1>1, <1>3, <1>4, <2>2 DEF SafeInv, RowsAreCommitted, TypeInv, TypeOK
<1>6. ASSUME TriedInv PROVE TriedInv'
  <2>1. h.type \in RegisteredTypes => h \in attempted
    BY <1>6 DEF TriedInv
  <2>2. \A e \in attempted : row'[e] # "none"
    BY <1>1, <1>5, <1>6 DEF TriedInv, TypeInv, TypeOK
  <2>3. \A e \in Event : e.type \in RegisteredTypes /\ row'[e] \in {"SENT", "FAILED"} => e \in attempted
    BY <1>6, <2>1 DEF TriedInv
  <2>4. \A m \in Relays :
           /\ pc'[m] \in {"sent", "failed"} \/ (pc'[m] = "publish" /\ attempt'[m] > 0)
           /\ Head(queue'[m]).type \in RegisteredTypes
           => Head(queue'[m]) \in attempted
    BY <1>4, <1>6 DEF TriedInv
  <2> QED  BY <1>4, <2>2, <2>3, <2>4 DEF TriedInv
<1>7. ASSUME TriedInv, LineInv, Announced PROVE LineInv'
  <2> SUFFICES ASSUME NEW m \in Relays, NEW k \in DOMAIN queue'[m], NEW c \in Creates,
                      tx[c] = "committed", UserOf[c] = UserOf[queue'[m][k].tx],
                      queue'[m][k] # Announcement(c), Announcement(c) \notin attempted
               PROVE  \E j \in DOMAIN queue'[m] : j < k /\ queue'[m][j] = Announcement(c)
    BY <1>4 DEF LineInv
  <2>1. CASE m # i
    BY <1>4, <1>7, <2>1 DEF LineInv
  <2>2. CASE m = i
    <3>1. /\ k \in Nat \ {0} /\ k + 1 \in DOMAIN queue[i] /\ queue[i][k + 1] = queue'[i][k]
          /\ DOMAIN queue'[i] = 1..Len(queue'[i]) /\ Len(queue'[i]) \in Nat
      <4>1. k \in DOMAIN Tail(queue[i]) /\ queue'[i] = Tail(queue[i])
        BY <1>4, <2>2
      <4> QED  BY <1>3, <4>1, LenProperties
    <3>2. PICK j \in DOMAIN queue[i] : j < k + 1 /\ queue[i][j] = Announcement(c)
      BY <1>7, <2>2, <3>1 DEF LineInv
    <3>3. j \in Nat /\ j >= 1
      BY <1>2, LenProperties
    <3>4. j # 1
      <4>1. h.type \in RegisteredTypes => h \in attempted
        BY <1>7 DEF TriedInv
      <4> QED  BY <1>3, <1>7, <3>2, <4>1 DEF Announced, Announcement
    <3>5. j - 1 \in DOMAIN queue'[i] /\ j - 1 < k /\ (j - 1) + 1 = j
      BY <2>2, <3>1, <3>2, <3>3, <3>4
    <3>6. queue'[i][j - 1] = queue[i][j]
      BY <1>3, <1>4, <3>5
    <3> QED  BY <2>2, <3>2, <3>5, <3>6
  <2> QED  BY <2>1, <2>2
<1>8. CreatedFirst => CreatedFirst'
  BY <1>4 DEF CreatedFirst
<1> QED  BY <1>4, <1>6, <1>7, <1>8 DEF OrderInv, Announced

LEMMA OrderRelayStep ==
    ASSUME OrderInv, SafeInv', OneWriter', StampInv', NEW i \in Relays, RelayStep(i)
    PROVE  OrderInv'
<1> USE DEF txVars, tableVars, relayVars, processVars, publishVars, faultVars
<1>1. /\ SafeInv /\ TypeInv /\ TypeInv' /\ OneWriter /\ StampInv /\ BatchOfRows
      /\ \A m \in Relays : attempt[m] \in Nat
  BY DEF OrderInv, SafeInv, TypeInv, TypeOK
<1>2. CASE Poll(i)
  <2>1. PICK b \in Batches : queue' = [queue EXCEPT ![i] = b]
    BY <1>2 DEF Poll
  <2>2. /\ queue'[i] = b /\ pc'[i] \in {"idle", "publish"} /\ attempt'[i] = 0
        /\ \A m \in Relays : m # i =>
              queue'[m] = queue[m] /\ pc'[m] = pc[m] /\ attempt'[m] = attempt[m]
        /\ UNCHANGED <<tx, row, attempted>>
    BY <1>1, <1>2, <2>1 DEF Poll, TypeInv, TypeOK
  <2>3. TriedInv => TriedInv'
    BY <2>2 DEF TriedInv
  <2>4. TriedInv /\ LineInv /\ Announced => LineInv'
    <3> SUFFICES ASSUME TriedInv, LineInv, Announced, NEW m \in Relays,
                        NEW k \in DOMAIN queue'[m], NEW c \in Creates, tx[c] = "committed",
                        UserOf[c] = UserOf[queue'[m][k].tx], queue'[m][k] # Announcement(c)
                 PROVE  \/ Announcement(c) \in attempted
                        \/ \E j \in DOMAIN queue'[m] : j < k /\ queue'[m][j] = Announcement(c)
      BY <2>2 DEF LineInv
    <3>1. CASE m = i
      BY <1>1, <2>2, <3>1, OrderPoll
    <3>2. CASE m # i
      BY <2>2, <3>2 DEF LineInv
    <3> QED  BY <3>1, <3>2
  <2>5. CreatedFirst => CreatedFirst'
    BY <2>2 DEF CreatedFirst
  <2> QED  BY <2>2, <2>3, <2>4, <2>5 DEF OrderInv, Announced
<1>3. CASE PublishNothing(i) \/ PublishTimedOut(i)
  <2>1. /\ pc[i] = "publish" /\ pc'[i] = "failed" /\ \A m \in Relays : m # i => pc'[m] = pc[m]
        /\ UNCHANGED <<tx, row, attempted, queue, attempt>>
        /\ ~Publishable(i) \/ RetryCount = 0 \/ attempt[i] > 0
    BY <1>1, <1>3 DEF PublishNothing, PublishTimedOut, Attempting, TypeInv, TypeOK
  <2>2. TriedInv /\ Announced => TriedInv'
    BY <2>1, RelayAssumption DEF TriedInv, Announced, Publishable
  <2>3. LineInv /\ CreatedFirst => LineInv' /\ CreatedFirst'
    BY <2>1 DEF LineInv, CreatedFirst
  <2> QED  BY <2>1, <2>2, <2>3 DEF OrderInv, Announced
<1>4. CASE PublishOK(i) \/ PublishError(i)
  <2> DEFINE h == Head(queue[i])
  <2>1. Attempting(i) /\ pc[i] = "publish" /\ queue[i] # <<>> /\ queue[i] \in Seq(Event)
    BY <1>1, <1>4 DEF PublishOK, PublishError, Attempting, TypeInv, TypeOK, BusyHasQueue
  <2>2. 1 \in DOMAIN queue[i] /\ h = queue[i][1] /\ h \in Event
    BY <2>1, HeadAndTail
  <2>3. /\ attempted' = attempted \cup {h} /\ UNCHANGED <<tx, row, queue>>
        /\ \A m \in Relays : m # i => pc'[m] = pc[m] /\ attempt'[m] = attempt[m]
    BY <1>1, <1>4 DEF PublishOK, PublishError, TypeInv, TypeOK
  <2>4. row[h] # "none"
    BY <1>1, <2>2 DEF BatchOfRows
  <2>5. TriedInv => TriedInv'
    BY <2>3, <2>4 DEF TriedInv
  <2>6. LineInv => LineInv'
    BY <2>3 DEF LineInv
  <2>7. LineInv /\ CreatedFirst => CreatedFirst'
    <3> SUFFICES ASSUME LineInv, CreatedFirst, NEW e \in attempted \cup {h}, NEW c \in Creates,
                        UserOf[c] = UserOf[e.tx], tx[c] = "committed",
                        "user.created" \in RegisteredTypes
                 PROVE  Announcement(c) \in attempted \cup {h}
      BY <2>3 DEF CreatedFirst, Announcement
    <3>1. CASE e \in attempted
      BY <3>1 DEF CreatedFirst, Announcement
    <3>2. CASE e = h /\ h # Announcement(c)
      <4>1. \/ Announcement(c) \in attempted
            \/ \E j \in DOMAIN queue[i] : j < 1 /\ queue[i][j] = Announcement(c)
        BY <2>2, <3>2 DEF LineInv
      <4>2. \A j \in DOMAIN queue[i] : ~(j < 1)
        BY <2>1, LenProperties
      <4> QED  BY <4>1, <4>2
    <3> QED  BY <3>1, <3>2
  <2>8. RetryCount # 0
    BY <1>1, <2>1, RelayAssumption DEF Attempting
  <2> QED  BY <2>5, <2>6, <2>7, <2>8 DEF OrderInv, Announced
<1>5. CASE MarkSent(i) \/ MarkFailed(i) \/ MarkError(i)
  <2>1. /\ NextMessage(i) /\ pc[i] \in {"sent", "failed"}
        /\ \A e \in Event : e # Head(queue[i]) => row'[e] = row[e]
    BY <1>1, <1>5 DEF MarkSent, MarkFailed, MarkError, TypeInv, TypeOK
  <2> QED  BY <2>1, OrderNextMessage
<1> QED  BY <1>2, <1>3, <1>4, <1>5 DEF RelayStep

LEMMA OrderEnvironment ==
    ASSUME OrderInv, SafeInv', OneWriter', StampInv', NEW i \in Relays, Environment(i)
    PROVE  OrderInv'
<1> USE DEF txVars, tableVars, relayVars, processVars, publishVars, faultVars
<1>1. SafeInv /\ TypeInv /\ TypeInv'
  BY DEF OrderInv, SafeInv
<1>2. UNCHANGED <<tx, row, attempted>>
  BY DEF Environment, CancelBackground, CloseBroker, Exit, Crash, Gone, Restart,
         LinkBreaks, LinkLost, Reconnect
<1>3. CASE CancelBackground(i) \/ CloseBroker(i) \/ LinkBreaks(i) \/ LinkLost(i) \/ Reconnect(i)
  <2>1. UNCHANGED <<queue, attempt, pc>>
    BY <1>3 DEF CancelBackground, CloseBroker, LinkBreaks, LinkLost, Reconnect
  <2> QED  BY <1>2, <2>1, OrderUntouched
<1>4. CASE Exit(i) \/ Crash(i) \/ Restart(i)
  <2>1. /\ queue'[i] = <<>> /\ pc'[i] \in {"idle", "down"}
        /\ \A m \in Relays : m # i =>
              queue'[m] = queue[m] /\ pc'[m] = pc[m] /\ attempt'[m] = attempt[m]
    BY <1>1, <1>4 DEF Exit, Crash, Gone, Restart, TypeInv, TypeOK, BusyHasQueue
  <2>2. DOMAIN queue'[i] = {}
    BY <2>1
  <2>3. TriedInv => TriedInv'
    BY <1>2, <2>1 DEF TriedInv
  <2>4. LineInv => LineInv'
    BY <1>2, <2>1, <2>2 DEF LineInv
  <2>5. CreatedFirst => CreatedFirst'
    BY <1>2 DEF CreatedFirst
  <2> QED  BY <1>2, <2>3, <2>4, <2>5 DEF OrderInv, Announced
<1> QED  BY <1>3, <1>4 DEF Environment

LEMMA OrderInvStep == OrderInv /\ [Next]_vars => OrderInv'
<1> SUFFICES ASSUME OrderInv, [Next]_vars PROVE OrderInv'
  OBVIOUS
<1>1. SafeInv' /\ OneWriter' /\ StampInv'
  BY SafeInvStep, OneWriterStep, StampStep DEF OrderInv, SafeInv, TypeInv
<1>2. CASE UNCHANGED vars
  BY <1>1, <1>2, OrderUntouched DEF vars, txVars, tableVars, relayVars, publishVars
<1> QED  BY <1>1, <1>2, OrderTransaction, OrderRelayStep, OrderEnvironment DEF Next

\* Whatever overlaps or fails, no event of a user is published before the relay
\* has tried user.created.
THEOREM CreationIsHeardFirst == Spec => []CreatedFirst
<1>1. OrderInv => CreatedFirst
  <2>1. CASE Announced
    BY <2>1 DEF OrderInv
  <2>2. CASE "user.created" \notin RegisteredTypes
    BY <2>2 DEF CreatedFirst
  <2>3. CASE RetryCount = 0
    BY <2>3 DEF OrderInv, CreatedFirst
  <2> QED  BY <2>1, <2>2, <2>3, RelayAssumption DEF Announced
<1> QED  BY <1>1, OrderInvInit, OrderInvStep, PTL DEF Spec

-----------------------------------------------------------------------------
(* Batches come to an end: what Drains rests on besides the scheduling.    *)

\* publishWithRetry goes on only as long as it has attempts left.
AttemptInv ==
    \A i \in Relays : pc[i] = "publish" =>
        attempt[i] = 0 \/ (Publishable(i) /\ attempt[i] < RetryCount)

\* What the relay may still try for the head of its batch.
Effort(i) == IF pc[i] = "publish" THEN 1 + RetryCount - attempt[i] ELSE 0

Busy(i) == pc[i] \notin {"down", "idle"}

\* The batch gets shorter, or its head has less before it.
Nearer(i) ==
    \/ Len(queue'[i]) < Len(queue[i])
    \/ queue'[i] = queue[i] /\ Effort(i)' < Effort(i)

\* The relay can take a step for the head of its batch: Broker.Publish answers nil
\* or an error, according to the link, and an UPDATE is done or is not.
NeverStuck ==
    \A i \in Relays : Busy(i) =>
        \/ attempt[i] = 0 /\ (~Publishable(i) \/ RetryCount = 0)
        \/ Attempting(i)
        \/ pc[i] \in {"sent", "failed"}

LEMMA OtherRelays ==
    ASSUME TypeOK, NEW i \in Relays, NEW j \in Relays, RelayStep(j) \/ Environment(j), j # i
    PROVE  pc'[i] = pc[i] /\ queue'[i] = queue[i] /\ attempt'[i] = attempt[i]
<1> USE DEF TypeOK, relayVars
<1>1. CASE RelayStep(j)
  BY <1>1 DEF RelayStep, Poll, PublishNothing, PublishOK, PublishError, PublishTimedOut,
     MarkSent, MarkFailed, MarkError, NextMessage
<1>2. CASE Environment(j)
  BY <1>2 DEF Environment, CancelBackground, CloseBroker, Exit, Crash, Gone, Restart,
     LinkBreaks, LinkLost, Reconnect
<1> QED  BY <1>1, <1>2

LEMMA NearerByMessage ==
    ASSUME TypeInv, NEW i \in Relays, Busy(i), NextMessage(i)
    PROVE  Len(queue'[i]) < Len(queue[i])
<1>1. queue[i] \in Seq(Event) /\ queue[i] # <<>> /\ queue'[i] = Tail(queue[i])
  BY DEF TypeInv, TypeOK, BusyHasQueue, Busy, NextMessage
<1>2. Len(Tail(queue[i])) = Len(queue[i]) - 1 /\ Len(queue[i]) \in Nat
  BY <1>1, HeadTailProperties, LenProperties
<1> QED  BY <1>1, <1>2

\* What a relay does with the message in hand.
LEMMA EffortFalls ==
    ASSUME TypeInv, AttemptInv, NEW i \in Relays, Busy(i), RelayStep(i)
    PROVE  Nearer(i) /\ (pc'[i] = "publish" =>
               attempt'[i] = 0 \/ (Publishable(i)' /\ attempt'[i] < RetryCount))
<1>1. /\ pc \in [Relays -> RelayState] /\ queue \in [Relays -> Seq(Event)]
      /\ attempt \in [Relays -> Nat] /\ attempt[i] \in Nat /\ RetryCount \in Nat
  BY RelayAssumption DEF TypeInv, TypeOK
<1>2. CASE PublishNothing(i) \/ PublishOK(i) \/ PublishTimedOut(i)
  <2>1. pc[i] = "publish" /\ pc'[i] \in {"sent", "failed"} /\ queue'[i] = queue[i]
    BY <1>1, <1>2 DEF PublishNothing, PublishOK, PublishTimedOut, Attempting
  <2>2. Effort(i)' = 0 /\ Effort(i) = 1 + RetryCount - attempt[i]
    BY <2>1 DEF Effort
  <2>3. attempt[i] = 0 \/ attempt[i] < RetryCount
    BY <2>1 DEF AttemptInv
  <2>4. Effort(i)' < Effort(i)
    BY <1>1, <2>2, <2>3
  <2> QED  BY <2>1, <2>4 DEF Nearer
<1>3. CASE PublishError(i)
  <2>1. /\ pc[i] = "publish" /\ queue' = queue /\ Publishable(i) /\ attempt[i] < RetryCount
        /\ attempt'[i] = attempt[i] + 1
        /\ pc'[i] = IF attempt[i] + 1 = RetryCount THEN "failed" ELSE "publish"
    BY <1>1, <1>3 DEF PublishError, Attempting, AfterError
  <2>2. Effort(i) = 1 + RetryCount - attempt[i]
    BY <2>1 DEF Effort
  <2>3. Effort(i)' = 0 \/ Effort(i)' = 1 + RetryCount - attempt'[i]
    BY <2>1 DEF Effort
  <2>4. Effort(i)' < Effort(i)
    BY <1>1, <2>1, <2>2, <2>3
  <2>5. pc'[i] = "publish" => attempt'[i] < RetryCount
    BY <1>1, <2>1
  <2> QED  BY <2>1, <2>4, <2>5 DEF Nearer, Publishable
<1>4. CASE MarkSent(i) \/ MarkFailed(i) \/ MarkError(i)
  <2>1. NextMessage(i)
    BY <1>4 DEF MarkSent, MarkFailed, MarkError
  <2>2. attempt'[i] = 0
    BY <1>1, <2>1 DEF NextMessage
  <2> QED  BY <2>1, <2>2, NearerByMessage DEF Nearer
<1>5. ~Poll(i)
  BY DEF Busy, Poll
<1> QED  BY <1>2, <1>3, <1>4, <1>5 DEF RelayStep

\* Nobody else takes a batch away or adds to it.
LEMMA InHand ==
    ASSUME TypeInv, NEW i \in Relays, [Next]_vars
    PROVE  \/ RelayStep(i)
           \/ pc'[i] = pc[i] /\ queue'[i] = queue[i] /\ attempt'[i] = attempt[i]
           \/ pc'[i] = "down"
           \/ pc[i] = "down" /\ pc'[i] = "idle"
<1> USE DEF relayVars
<1>1. ASSUME NEW t \in Txns, Transaction(t) PROVE UNCHANGED relayVars
  BY <1>1 DEF Transaction, BeginTx, WriteUser, SaveTx, CommitTx, RollbackTx
<1>2. ASSUME Environment(i)
      PROVE  \/ UNCHANGED relayVars \/ pc'[i] = "down" \/ (pc[i] = "down" /\ pc'[i] = "idle")
  BY <1>2 DEF Environment, CancelBackground, CloseBroker, Exit, Crash, Gone, Restart,
     LinkBreaks, LinkLost, Reconnect, TypeInv, TypeOK
<1>3. ASSUME NEW j \in Relays, RelayStep(j) \/ Environment(j), j # i
      PROVE  pc'[i] = pc[i] /\ queue'[i] = queue[i] /\ attempt'[i] = attempt[i]
  BY <1>3, OtherRelays DEF TypeInv
<1>4. CASE UNCHANGED vars
  BY <1>4 DEF vars
<1> QED  BY <1>1, <1>2, <1>3, <1>4 DEF Next

LEMMA AttemptStep == TypeInv /\ AttemptInv /\ [Next]_vars => AttemptInv'
<1> SUFFICES ASSUME TypeInv, AttemptInv, [Next]_vars, NEW i \in Relays, pc'[i] = "publish"
             PROVE  attempt'[i] = 0 \/ (Publishable(i)' /\ attempt'[i] < RetryCount)
  BY DEF AttemptInv
<1>1. CASE RelayStep(i) /\ Busy(i)
  BY <1>1, EffortFalls
<1>2. CASE RelayStep(i) /\ ~Busy(i)
  <2>1. Poll(i)
    BY <1>2 DEF Busy, RelayStep, PublishNothing, PublishOK, PublishError, PublishTimedOut,
       Attempting, MarkSent, MarkFailed, MarkError
  <2> QED  BY <2>1 DEF Poll, TypeInv, TypeOK
<1>3. CASE pc'[i] = pc[i] /\ queue'[i] = queue[i] /\ attempt'[i] = attempt[i]
  BY <1>3 DEF AttemptInv, Publishable
<1> QED  BY <1>1, <1>2, <1>3, InHand

\* Every step of a relay with a batch in hand brings the batch's end nearer, for
\* any batch size, any number of attempts and any behaviour of the connection, and
\* there is always such a step; nobody else touches the batch of a process that is up.
THEOREM BatchesEnd ==
    Spec => /\ []NeverStuck
            /\ []\A i \in Relays : Effort(i) \in Nat
            /\ [][\A i \in Relays : Busy(i) =>
                    \/ Nearer(i)
                    \/ pc'[i] = pc[i] /\ queue'[i] = queue[i] /\ Effort(i)' = Effort(i)
                    \/ pc'[i] = "down"]_vars
            /\ [][\A i \in Relays : Busy(i) /\ RelayStep(i) => Nearer(i)]_vars
<1>1. Init => AttemptInv
  BY DEF Init, AttemptInv
<1>2. TypeInv /\ AttemptInv => NeverStuck /\ \A i \in Relays : Effort(i) \in Nat
  <2> SUFFICES ASSUME TypeInv, AttemptInv, NEW i \in Relays
               PROVE  /\ Effort(i) \in Nat
                      /\ Busy(i) => \/ attempt[i] = 0 /\ (~Publishable(i) \/ RetryCount = 0)
                                    \/ Attempting(i)
                                    \/ pc[i] \in {"sent", "failed"}
    BY DEF NeverStuck
  <2>1. pc[i] \in RelayState /\ attempt[i] \in Nat /\ RetryCount \in Nat
    BY RelayAssumption DEF TypeInv, TypeOK
  <2>2. CASE pc[i] = "publish"
    <3>1. attempt[i] = 0 \/ (Publishable(i) /\ attempt[i] < RetryCount)
      BY <2>2 DEF AttemptInv
    <3>2. Effort(i) \in Nat
      BY <2>1, <2>2, <3>1 DEF Effort
    <3>3. attempt[i] = 0 => RetryCount = 0 \/ attempt[i] < RetryCount
      BY <2>1
    <3> QED  BY <2>1, <2>2, <3>1, <3>2, <3>3 DEF Attempting
  <2>3. CASE pc[i] # "publish"
    BY <2>1, <2>3 DEF Effort, Busy, RelayState
  <2> QED  BY <2>2, <2>3
<1>3. TypeInv /\ AttemptInv /\ [Next]_vars =>
        [\A i \in Relays : Busy(i) /\ RelayStep(i) => Nearer(i)]_vars
  BY EffortFalls
<1>4. TypeInv /\ AttemptInv /\ [Next]_vars =>
        [\A i \in Relays : Busy(i) =>
            \/ Nearer(i)
            \/ pc'[i] = pc[i] /\ queue'[i] = queue[i] /\ Effort(i)' = Effort(i)
            \/ pc'[i] = "down"]_vars
  <2> SUFFICES ASSUME TypeInv, AttemptInv, [Next]_vars, NEW i \in Relays, Busy(i)
               PROVE  \/ Nearer(i)
                      \/ pc'[i] = pc[i] /\ queue'[i] = queue[i] /\ Effort(i)' = Effort(i)
                      \/ pc'[i] = "down"
    OBVIOUS
  <2>1. CASE RelayStep(i)
    BY <2>1, EffortFalls
  <2>2. CASE pc'[i] = pc[i] /\ queue'[i] = queue[i] /\ attempt'[i] = attempt[i]
    BY <2>2 DEF Effort
  <2>3. pc[i] # "down"
    BY DEF Busy
  <2> QED  BY <2>1, <2>2, <2>3, InHand
<1> QED
  BY <1>1, <1>2, <1>3, <1>4, TypeInvInit, TypeInvStep, AttemptStep, PTL DEF Spec

\* A relay of a living process that goes on to its next message without a fault has
\* settled the one before: a batch without faults leaves nothing of it pending.
THEOREM EachIsSettled ==
    Spec => [][\A i \in Relays :
                  /\ Busy(i) /\ live[i] /\ faults' = faults
                  /\ queue'[i] # queue[i] /\ pc'[i] # "down"
                  => row'[Head(queue[i])] \in {"SENT", "FAILED"}]_vars
<1>1. SafeInv /\ [Next]_vars =>
        [\A i \in Relays :
            /\ Busy(i) /\ live[i] /\ faults' = faults
            /\ queue'[i] # queue[i] /\ pc'[i] # "down"
            => row'[Head(queue[i])] \in {"SENT", "FAILED"}]_vars
  <2> SUFFICES ASSUME SafeInv, [Next]_vars, NEW i \in Relays, Busy(i), live[i],
                      faults' = faults, queue'[i] # queue[i], pc'[i] # "down"
               PROVE  row'[Head(queue[i])] \in {"SENT", "FAILED"}
    OBVIOUS
  <2>1. /\ queue[i] \in Seq(Event) /\ queue[i] # <<>> /\ row \in [Event -> Status \cup {"none"}]
        /\ faults \in Nat
    BY DEF SafeInv, TypeInv, TypeOK, BusyHasQueue, Busy
  <2>2. 1 \in DOMAIN queue[i] /\ Head(queue[i]) = queue[i][1] /\ Head(queue[i]) \in Event
    BY <2>1, HeadAndTail
  <2>3. row[Head(queue[i])] # "none"
    BY <2>2 DEF SafeInv, BatchOfRows
  <2>4. RelayStep(i)
    BY InHand DEF SafeInv, Busy
  <2>5. CASE MarkSent(i)
    BY <2>1, <2>2, <2>3, <2>5 DEF MarkSent, Status, tableVars
  <2>6. CASE MarkFailed(i)
    BY <2>1, <2>2, <2>6 DEF MarkFailed, FailedStatus
  <2>7. ~MarkError(i)
    BY <2>1 DEF MarkError
  <2>8. ~Poll(i) /\ ~PublishNothing(i) /\ ~PublishOK(i) /\ ~PublishError(i) /\ ~PublishTimedOut(i)
    BY DEF Poll, PublishNothing, PublishOK, PublishError, PublishTimedOut, Busy
  <2> QED  BY <2>4, <2>5, <2>6, <2>7, <2>8 DEF RelayStep
<1> QED  BY <1>1, SafeInvInit, SafeInvStep, PTL DEF Spec

=============================================================================
