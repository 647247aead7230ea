---------------------- MODULE BrokerConnection_proofs ----------------------
(***************************************************************************)
(* Proofs about BrokerConnection, for any number of connections and with   *)
(* the confirm mode on or off.                                             *)
(***************************************************************************)
EXTENDS BrokerConnection, TLAPS

\* The write lock is the loop's exactly while it is inside connect, and Close's
\* exactly while it closes the connection.
LockHeld ==
    /\ loop # "panicked" =>
          (connMu = "loop" <=> loop \in {"marking", "dialing", "replacing", "settling"})
    /\ (connMu = "closer" <=> closer = "closing")

\* Two connections are open only between the end of a dial and closeOldConnection.
OpenOnes ==
    /\ conn <= dials
    /\ open \subseteq IF loop = "replacing" THEN {conn, dials} ELSE {conn}

\* Once Close has stopped waiting, the loop is in no hurry to connect again: it
\* may finish the dial it is in, and then it sees closeCh.
NoNewDial ==
    /\ closer \in {"draining", "locking", "closing", "done"} => closed
    /\ closer \in {"locking", "closing"} => loop \notin {"delaying", "connecting", "marking"}
    /\ closer = "done" =>
          loop \in {"waiting", "notified", "dropped", "gone", "panicked"} /\ open = {}

\* Places of the loop at which the connection in use is known to be gone.
Lost == {"notified", "dropped", "delaying", "connecting", "marking", "dialing", "replacing"}

\* The loop replaces only what is gone, and while it is at it the state is not
\* connected.
LossInv ==
    /\ loop \in Lost => conn \notin open
    /\ loop = "replacing" => conn < dials
    /\ loop \in {"delaying", "connecting", "marking", "dialing", "replacing", "settling"} =>
          state # "connected"
    /\ loop = "panicked" => open = {}

\* Only Close sets closeCh and the state closing; a broker that nobody closes, and
\* whose connection is open, is connected.
OnlyClose ==
    /\ closed \/ state = "closing" \/ loop = "gone" => closer # "none"
    /\ loop = "waiting" /\ conn \in open /\ closer = "none" => state = "connected"

\* The library's goroutine blocks on b.confirms only for the first connection, and
\* on notifyClose only where the loop is not busy with the loss already.
ReaderInv ==
    /\ confirms = conn => conn = 1
    /\ reader = "confirms" => ConfirmMode /\ conn = 1
    /\ reader = "notifyClose" =>
          conn \notin open /\ loop \in {"waiting", "settling", "gone", "panicked"}

Inv == TypeOK /\ LockHeld /\ OpenOnes /\ NoNewDial /\ LossInv /\ OnlyClose /\ ReaderInv

\* Without its confirms channel, a broker in confirm mode has reconnected.
ListenerInv ==
    /\ ConfirmMode /\ confirms = 0 => conn > 1
    /\ PanicNeedsConfirms

\* The process is killed: no step of the broker, but of a process it is part of.
Killed ==
    /\ loop' = "panicked" /\ open' = {}
    /\ UNCHANGED <<state, closed, closer, connMu, conn, confirms, dials, reader>>

LEMMA InvInit == Init => Inv /\ ListenerInv
<1> SUFFICES ASSUME Init PROVE Inv /\ ListenerInv
  OBVIOUS
<1>1. 1 \in Connections
  BY ConnectionAssumption DEF Connections
<1>2. TypeOK
  BY <1>1 DEF Init, TypeOK, LoopState
<1>3. LockHeld /\ NoNewDial /\ LossInv /\ OnlyClose /\ ReaderInv /\ ListenerInv
  BY DEF Init, LockHeld, NoNewDial, LossInv, Lost, OnlyClose, ReaderInv, ListenerInv,
     PanicNeedsConfirms
<1>4. OpenOnes
  BY <1>1 DEF Init, OpenOnes
<1> QED  BY <1>2, <1>3, <1>4 DEF Inv

LEMMA InvStep == Inv /\ [Next]_vars => Inv'
<1> SUFFICES ASSUME Inv, [Next]_vars PROVE Inv'
  OBVIOUS
<1> USE ConnectionAssumption DEF Inv, LockHeld, OpenOnes, NoNewDial, LossInv, Lost, OnlyClose, ReaderInv
<1>1. CASE ConnectionBreaks \/ ReaderBlocks
  BY <1>1 DEF ConnectionBreaks, ReaderBlocks, TypeOK, LoopState
<1>2. CASE Notified \/ StopWaiting \/ LookAtState \/ StopDelaying \/ DelayOver
  BY <1>2 DEF Notified, StopWaiting, LookAtState, AfterNotice, StopDelaying, DelayOver,
     TypeOK, LoopState
<1>3. CASE MarkDisconnected
  BY <1>3 DEF MarkDisconnected, StateAfterLoss, AfterDrop, TypeOK, LoopState
<1>4. CASE LockForConnect \/ MarkConnecting \/ DialFails \/ Settle
  BY <1>4 DEF LockForConnect, MarkConnecting, DialFails, AfterFailure,
     ConfirmsAfterFailure, Settle, TypeOK, LoopState
<1>5. CASE DialOK
  <2>1. /\ dials' = dials + 1 /\ open' = open \cup {dials + 1} /\ loop' = "replacing"
        /\ confirms' \in {confirms, dials + 1} /\ loop = "dialing" /\ dials < MaxDials
        /\ UNCHANGED <<state, closed, closer, connMu, conn, reader>>
    BY <1>5 DEF DialOK
  <2>2. dials + 1 \in Connections
    BY <2>1 DEF TypeOK, Connections
  <2> QED  BY <2>1, <2>2 DEF TypeOK, Connections, LoopState
<1>6. CASE Replace
  <2>1. /\ open' = open \ {conn} /\ conn' = dials /\ confirms' = 0 /\ loop' = "settling"
        /\ reader' = "free" /\ UNCHANGED <<state, closed, closer, connMu, dials>>
        /\ loop = "replacing"
    BY <1>6 DEF Replace
  <2>2. dials <= dials /\ dials # 0
    BY DEF TypeOK, Connections
  <2>3. ReaderInv'
    BY <2>1, <2>2
  <2> QED  BY <2>1, <2>2, <2>3 DEF TypeOK, LoopState
<1>7. CASE MarkClosing \/ Signal
  BY <1>7 DEF MarkClosing, Signal, TypeOK
<1>8. CASE Drained
  BY <1>8 DEF Drained, Slow, TypeOK
<1>9. CASE LockForClose
  BY <1>9 DEF LockForClose, MayClose, TypeOK
<1>10. CASE CloseConnection /\ loop # "panicked"
  BY <1>10 DEF CloseConnection, TypeOK, LoopState
<1>11. CASE Panic
  BY <1>11 DEF Panic, ListenerClosed, TypeOK, LoopState
<1>12. CASE UNCHANGED vars
  BY <1>12 DEF vars, TypeOK
<1> QED  BY <1>1, <1>2, <1>3, <1>4, <1>5, <1>6, <1>7, <1>8, <1>9, <1>10, <1>11,
            <1>12 DEF Next, LoopStep, CloserStep

LEMMA InvKilled == Inv /\ Killed => Inv'
  BY DEF Inv, LockHeld, OpenOnes, NoNewDial, LossInv, Lost, OnlyClose, ReaderInv, Killed,
     TypeOK, LoopState

LEMMA InvStays ==
    Inv /\ UNCHANGED <<state, closed, loop, closer, connMu, conn, confirms, open, dials, reader>>
        => Inv'
  BY DEF Inv, LockHeld, OpenOnes, NoNewDial, LossInv, Lost, OnlyClose, ReaderInv, TypeOK

LEMMA ListenerStep == Inv /\ ListenerInv /\ [Next]_vars => ListenerInv'
<1> SUFFICES ASSUME Inv, ListenerInv, [Next]_vars PROVE ListenerInv'
  OBVIOUS
<1> USE DEF ListenerInv, PanicNeedsConfirms
<1>1. CASE LoopStep /\ ~DialOK /\ ~Replace
  BY <1>1 DEF LoopStep, Notified, StopWaiting, LookAtState, AfterNotice, MarkDisconnected,
     StateAfterLoss, AfterDrop, StopDelaying, DelayOver, LockForConnect, MarkConnecting,
     DialFails, AfterFailure, ConfirmsAfterFailure, Settle
<1>2. CASE DialOK
  BY <1>2 DEF DialOK, Inv, TypeOK, Connections
<1>3. CASE Replace
  BY <1>3 DEF Replace, Inv, LossInv, TypeOK, Connections
<1>4. CASE Panic
  BY <1>4 DEF Panic, ListenerClosed
<1>5. CASE ConnectionBreaks \/ ReaderBlocks \/ MarkClosing \/ CloserStep \/ UNCHANGED vars
  BY <1>5 DEF ConnectionBreaks, ReaderBlocks, MarkClosing, CloserStep, Signal, Drained,
     LockForClose, CloseConnection, vars
<1> QED  BY <1>1, <1>2, <1>3, <1>4, <1>5 DEF Next

\* The broker's variables always have their types.
THEOREM ConnectionTypeCorrect == Spec => []TypeOK
<1>1. Inv => TypeOK
  BY DEF Inv
<1> QED  BY <1>1, InvInit, InvStep, PTL DEF Spec

\* Close leaves no connection open and connect none but the one it installs.
THEOREM CloseLeavesNothingOpen == Spec => []NoConnectionLeft
<1>1. Inv => NoConnectionLeft
  BY DEF Inv, NoConnectionLeft, NoNewDial, OpenOnes, LockHeld
<1> QED  BY <1>1, InvInit, InvStep, PTL DEF Spec

\* The process dies of the reconnection loop only in confirm mode and only
\* after a reconnect.
THEOREM PanicsOnlyWithConfirms == Spec => []PanicNeedsConfirms
<1>1. ListenerInv => PanicNeedsConfirms
  BY DEF ListenerInv
<1> QED  BY <1>1, InvInit, InvStep, ListenerStep, PTL DEF Spec

-----------------------------------------------------------------------------
(* The refinement of BrokerLink                                            *)

\* A step of the broker is a move of the link its publishers see, or none.
LEMMA SeenMoves == Inv /\ [Next]_vars => [Link!Next]_Seen
<1> SUFFICES ASSUME Inv, [Next]_vars PROVE [Link!Next]_Seen
  OBVIOUS
<1> USE DEF Inv, LossInv, Lost, Seen, Link!Next, Link!Breaks, Link!Noticed, Link!Returns,
          Link!Closes
<1>1. CASE ConnectionBreaks
  BY <1>1 DEF ConnectionBreaks, TypeOK
<1>2. CASE Notified \/ StopWaiting \/ StopDelaying \/ DelayOver
  BY <1>2 DEF Notified, StopWaiting, StopDelaying, DelayOver, NoNewDial
<1>3. CASE LookAtState
  BY <1>3 DEF LookAtState, AfterNotice
<1>4. CASE MarkDisconnected
  BY <1>4 DEF MarkDisconnected, StateAfterLoss, AfterDrop
<1>5. CASE LockForConnect \/ MarkConnecting \/ DialFails
  BY <1>5 DEF LockForConnect, MarkConnecting, DialFails, AfterFailure, NoNewDial
<1>6. CASE DialOK
  BY <1>6 DEF DialOK, NoNewDial
<1>7. CASE Replace
  BY <1>7 DEF Replace, NoNewDial
<1>8. CASE Settle
  BY <1>8 DEF Settle, NoNewDial
<1>9. CASE loop # "panicked" /\ MarkClosing
  BY <1>9 DEF MarkClosing, TypeOK, LoopState
<1>10. CASE loop # "panicked" /\ CloseConnection
  BY <1>10 DEF CloseConnection
<1>11. CASE Panic
  BY <1>11 DEF Panic
<1>12. CASE ReaderBlocks \/ Signal \/ Drained \/ LockForClose
  BY <1>12 DEF ReaderBlocks, Signal, Drained, LockForClose
<1>13. CASE UNCHANGED vars
  BY <1>13 DEF vars
<1> QED  BY <1>1, <1>2, <1>3, <1>4, <1>5, <1>6, <1>7, <1>8, <1>9, <1>10, <1>11, <1>12, <1>13
         DEF Next, LoopStep, CloserStep

\* To its publishers the broker is a link that breaks, is missed, comes back and
\* is closed for good.
THEOREM ConnectionImplementsLink == Spec => ImplementsLink
<1>1. Init => Link!Init
  BY DEF Init, Link!Init, Seen
<1> QED  BY <1>1, InvInit, InvStep, SeenMoves, PTL DEF Spec, ImplementsLink, Link!Spec

-----------------------------------------------------------------------------
(* The end of Close, as far as safety goes                                 *)

\* How many steps the loop has left, at most, once closeCh is closed.
StepsLeft ==
    CASE loop = "delaying" -> 9 [] loop = "connecting" -> 8 [] loop = "marking" -> 7
      [] loop = "dialing" -> 6 [] loop = "replacing" -> 5 [] loop = "settling" -> 4
      [] loop = "waiting" -> 3 [] loop = "notified" -> 2 [] loop = "dropped" -> 1
      [] OTHER -> 0

\* Where a goroutine waits for one of the library that nobody lets go on: Close in
\* channel.Close of a connection whose confirmations are unread or whose loss
\* nobody hears of, or connect in closeOldConnection, with the lock Close needs.
HangsInLibrary ==
    \/ closer = "closing" /\ (Unread \/ Unheard)
    \/ closer = "locking" /\ loop = "replacing" /\ Unread

\* While Close is under way either it or the loop can go on, unless the library
\* hangs: Close does not wait for a lock or for an end that only itself could
\* bring about, and no other goroutine of the library stops it.
NotStuck ==
    closer \in {"draining", "locking", "closing"} /\ loop # "panicked" =>
        \/ HangsInLibrary
        \/ closer = "draining" /\ (loop = "gone" \/ Slow)
        \/ closer = "locking" /\ connMu = "free"
        \/ closer = "closing" /\ reader = "free"
        \/ loop \in {"waiting", "delaying"} /\ closed
        \/ loop = "connecting" /\ connMu = "free"
        \/ loop = "replacing" /\ reader # "confirms"
        \/ loop \in {"notified", "dropped", "marking", "dialing", "settling"}

\* Once closeCh is closed the loop makes at most nine steps more, however often
\* connections break and whatever dialling gives, and neither it nor Close is
\* ever stuck but where the library hangs: on the unread confirmations of the
\* first connection, or on a loss that comes when the loop has ended.  There
\* Close does hang; with both goroutines scheduled it returns everywhere else.
THEOREM CloseWindsDown ==
    Spec => /\ []NotStuck
            /\ [][closed /\ loop' # loop /\ loop' # "panicked" => StepsLeft' < StepsLeft]_vars
<1>1. Inv => NotStuck
  BY DEF Inv, NotStuck, HangsInLibrary, Unread, Unheard, Slow, TypeOK, LoopState, LockHeld,
     NoNewDial, ReaderInv
<1>2. Inv /\ [Next]_vars =>
          [closed /\ loop' # loop /\ loop' # "panicked" => StepsLeft' < StepsLeft]_vars
  <2> SUFFICES ASSUME Inv, Next, closed, loop' # loop, loop' # "panicked"
               PROVE  StepsLeft' < StepsLeft
    BY DEF vars
  <2>1. LoopStep
    BY DEF Next, ConnectionBreaks, ReaderBlocks, Panic, MarkClosing, CloserStep, Signal, Drained,
       LockForClose, CloseConnection
  <2>2. CASE Notified \/ StopWaiting \/ LookAtState
    <3>1. \/ loop = "waiting" /\ loop' \in {"notified", "gone"}
          \/ loop = "notified" /\ loop' \in {"dropped", "gone"}
      BY <2>2 DEF Notified, StopWaiting, LookAtState, AfterNotice
    <3> QED  BY <3>1 DEF StepsLeft
  <2>3. CASE MarkDisconnected \/ StopDelaying \/ DelayOver
    <3>1. \/ loop = "dropped" /\ loop' = "gone"
          \/ loop = "delaying" /\ loop' \in {"connecting", "gone"}
      BY <2>3 DEF MarkDisconnected, AfterDrop, StopDelaying, DelayOver
    <3> QED  BY <3>1 DEF StepsLeft
  <2>4. CASE LockForConnect \/ MarkConnecting
    <3>1. \/ loop = "connecting" /\ loop' \in {"waiting", "marking"}
          \/ loop = "marking" /\ loop' = "dialing"
      BY <2>4 DEF LockForConnect, MarkConnecting
    <3> QED  BY <3>1 DEF StepsLeft
  <2>5. CASE DialFails \/ DialOK \/ Replace \/ Settle
    <3>1. \/ loop = "dialing" /\ loop' \in {"waiting", "replacing"}
          \/ loop = "replacing" /\ loop' = "settling"
          \/ loop = "settling" /\ loop' = "waiting"
      BY <2>5 DEF DialFails, AfterFailure, DialOK, Replace, Settle
    <3> QED  BY <3>1 DEF StepsLeft
  <2> QED  BY <2>1, <2>2, <2>3, <2>4, <2>5 DEF LoopStep
<1> QED  BY <1>1, <1>2, InvInit, InvStep, PTL DEF Spec

=============================================================================
