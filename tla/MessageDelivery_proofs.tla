------------------------ MODULE MessageDelivery_proofs ------------------------
(***************************************************************************)
(* What MessageDelivery promises, proved: worth as much of every system    *)
(* that implements it.                                                     *)
(***************************************************************************)
EXTENDS MessageDelivery, TLAPS

TypeOK ==
    /\ arrived \in SUBSET Messages /\ kept \in SUBSET Messages /\ again \in SUBSET Messages
    /\ failures \in [Messages -> Nat] /\ effects \in [Messages -> 0..2]
    /\ disposed \in [Messages -> SUBSET {"discarded", "given up", "lost"}]
    /\ closing \in BOOLEAN

Promise == TypeOK /\ NothingForgotten /\ SettledOnce /\ ReasonsHold

LEMMA PromiseInit == Init => Promise
<1> SUFFICES ASSUME Init PROVE Promise
  OBVIOUS
<1>1. TypeOK
  <2>1. arrived \in SUBSET Messages /\ kept \in SUBSET Messages /\ again \in SUBSET Messages
    BY DEF Init
  <2>2. failures = [m \in Messages |-> 0] /\ effects = [m \in Messages |-> 0] /\ closing = FALSE
    BY DEF Init
  <2>3. disposed \in [Messages -> SUBSET {"discarded", "given up", "lost"}]
    BY DEF Init
  <2>4. failures \in [Messages -> Nat] /\ effects \in [Messages -> 0..2]
    BY <2>2
  <2> QED  BY <2>1, <2>2, <2>3, <2>4 DEF TypeOK
<1> QED  BY <1>1 DEF Init, Promise, NothingForgotten, SettledOnce, ReasonsHold

LEMMA Untouched ==
    ASSUME TypeOK, NEW m \in Messages, ~Settled(m)
    PROVE  effects[m] = 0 /\ disposed[m] = {}
<1>1. effects[m] \in 0..2
  BY DEF TypeOK
<1>2. ~(effects[m] > 0) /\ disposed[m] = {}
  BY Zenon DEF Settled
<1> QED  BY <1>1, <1>2

\* Steps that settle nothing.
LEMMA LedgerStays ==
    ASSUME Promise, TypeOK', UNCHANGED <<effects, disposed>>, again \subseteq again',
           closing => closing',
           \A m \in Messages : failures[m] > MaxRetries => failures'[m] > MaxRetries,
           \A m \in arrived' : m \in kept' \/ Settled(m)
    PROVE  Promise'
<1>1. NothingForgotten'
  BY DEF NothingForgotten, Settled
<1>2. SettledOnce'
  BY DEF Promise, SettledOnce
<1>3. ReasonsHold'
  BY DEF Promise, ReasonsHold, Reason
<1> QED  BY <1>1, <1>2, <1>3 DEF Promise

\* The steps that add one effect, or one way of disposal, to what is pending.
LEMMA EffectStep ==
    ASSUME Promise, NEW m \in Messages, Effect(m)
    PROVE  Promise'
<1>1. /\ TypeOK /\ Pending(m) /\ kept' \in {kept, kept \ {m}}
      /\ effects' = [effects EXCEPT ![m] = IF @ < 2 THEN @ + 1 ELSE @]
      /\ UNCHANGED <<arrived, failures, disposed, again, closing>>
  BY DEF Promise, Effect, MayLeave
<1>2. /\ effects'[m] = (IF effects[m] < 2 THEN effects[m] + 1 ELSE effects[m])
      /\ \A n \in Messages : n # m => effects'[n] = effects[n]
      /\ effects' \in [Messages -> 0..2] /\ effects'[m] > 0
  <2>1. effects \in [Messages -> 0..2] /\ effects[m] \in 0..2
    BY <1>1 DEF TypeOK
  <2> QED  BY <1>1, <2>1
<1>3. TypeOK'
  BY <1>1, <1>2 DEF TypeOK
<1>4. NothingForgotten'
  <2> SUFFICES ASSUME NEW n \in arrived' PROVE n \in kept' \/ Settled(n)'
    BY DEF NothingForgotten
  <2>1. n \in Messages /\ (n \in kept \/ Settled(n))
    BY <1>1 DEF TypeOK, Promise, NothingForgotten
  <2>2. CASE n = m
    BY <1>2, <2>2 DEF Settled
  <2>3. CASE n # m
    BY <1>1, <1>2, <2>1, <2>3 DEF Settled
  <2> QED  BY <2>2, <2>3
<1>5. SettledOnce'
  <2> SUFFICES ASSUME NEW n \in Messages, n \notin again'
               PROVE  /\ effects'[n] <= 1 /\ (effects'[n] > 0 => disposed'[n] = {})
                      /\ \A how, other \in disposed'[n] : how = other
    BY DEF SettledOnce
  <2>1. CASE n = m
    <3>1. effects[n] = 0 /\ disposed[n] = {}
      BY <1>1, <2>1, Untouched DEF Pending
    <3> QED  BY <1>1, <1>2, <2>1, <3>1
  <2>2. CASE n # m
    BY <1>1, <1>2, <2>2 DEF Promise, SettledOnce
  <2> QED  BY <2>1, <2>2
<1>6. ReasonsHold'
  BY <1>1 DEF Promise, ReasonsHold, Reason
<1> QED  BY <1>3, <1>4, <1>5, <1>6 DEF Promise

LEMMA ZeroIsSmall == 0 <= 1 /\ ~(0 > 0)
  OBVIOUS

LEMMA DisposeStep ==
    ASSUME Promise, NEW m \in Messages, NEW how \in {"discarded", "given up", "lost"},
           Dispose(m, how)
    PROVE  Promise'
<1>1. /\ TypeOK /\ Pending(m) /\ Reason(m, how) /\ kept' \in {kept, kept \ {m}}
      /\ disposed' = [disposed EXCEPT ![m] = @ \cup {how}]
      /\ UNCHANGED <<arrived, failures, effects, again, closing>>
  BY DEF Promise, Dispose, MayLeave
<1>2. /\ disposed'[m] = disposed[m] \cup {how}
      /\ \A n \in Messages : n # m => disposed'[n] = disposed[n]
      /\ disposed' \in [Messages -> SUBSET {"discarded", "given up", "lost"}]
  BY <1>1 DEF TypeOK
<1>3. TypeOK'
  BY <1>1, <1>2 DEF TypeOK
<1>4. NothingForgotten'
  <2> SUFFICES ASSUME NEW n \in arrived' PROVE n \in kept' \/ Settled(n)'
    BY DEF NothingForgotten
  <2>1. n \in Messages /\ (n \in kept \/ Settled(n))
    BY <1>1 DEF TypeOK, Promise, NothingForgotten
  <2>2. CASE n = m
    BY <1>2, <2>2 DEF Settled
  <2>3. CASE n # m
    BY <1>1, <1>2, <2>1, <2>3 DEF Settled
  <2> QED  BY <2>2, <2>3
<1>5. SettledOnce'
  <2> SUFFICES ASSUME NEW n \in Messages, n \notin again'
               PROVE  /\ effects'[n] <= 1 /\ (effects'[n] > 0 => disposed'[n] = {})
                      /\ \A x, y \in disposed'[n] : x = y
    BY DEF SettledOnce
  <2>1. CASE n = m
    <3>1. effects[n] = 0 /\ disposed[n] = {}
      BY <1>1, <2>1, Untouched DEF Pending
    <3>2. disposed'[n] = {how}
      BY <1>1, <1>2, <2>1, <3>1
    <3>3. \A x, y \in disposed'[n] : x = y
      BY <3>2
    <3>4. effects'[n] = 0
      BY <1>1, <3>1
    <3> QED  BY <3>3, <3>4, ZeroIsSmall, Zenon
  <2>2. CASE n # m
    BY <1>1, <1>2, <2>2 DEF Promise, SettledOnce
  <2> QED  BY <2>1, <2>2
<1>6. ReasonsHold'
  <2> SUFFICES ASSUME NEW n \in Messages, NEW x \in {"discarded", "given up", "lost"},
                      x \in disposed'[n]
               PROVE  Reason(n, x)'
    BY DEF ReasonsHold
  <2>1. Reason(n, x)
    BY <1>1, <1>2 DEF Promise, ReasonsHold
  <2> QED  BY <1>1, <2>1 DEF Reason
<1> QED  BY <1>3, <1>4, <1>5, <1>6 DEF Promise

LEMMA PromiseStep ==
    ASSUME MaxRetries \in Nat, Promise, [Next]_vars
    PROVE  Promise'
<1>1. TypeOK /\ \A m \in arrived : m \in kept \/ Settled(m)
  BY DEF Promise, NothingForgotten
<1>2. ASSUME NEW m \in Messages, Arrive(m) PROVE Promise'
  <2>1. /\ arrived' = arrived \cup {m} /\ kept' = kept \cup {m}
        /\ UNCHANGED <<failures, effects, disposed, again, closing>>
    BY <1>2 DEF Arrive
  <2>2. TypeOK'
    BY <1>1, <2>1 DEF TypeOK
  <2> QED  BY <1>1, <2>1, <2>2, LedgerStays
<1>3. ASSUME NEW m \in Messages, Fail(m) PROVE Promise'
  <2>1. /\ failures' = [failures EXCEPT ![m] = IF @ <= MaxRetries THEN @ + 1 ELSE @]
        /\ UNCHANGED <<arrived, kept, effects, disposed, again, closing>>
    BY <1>3 DEF Fail
  <2>2. failures \in [Messages -> Nat]
    BY <1>1 DEF TypeOK
  <2>3. failures' \in [Messages -> Nat]
    BY <2>1, <2>2
  <2>4. \A n \in Messages : failures[n] > MaxRetries => failures'[n] > MaxRetries
    BY <2>1, <2>2
  <2>5. TypeOK'
    BY <1>1, <2>1, <2>3 DEF TypeOK
  <2> QED  BY <1>1, <2>1, <2>4, <2>5, LedgerStays
<1>4. ASSUME NEW m \in Messages, LetGo(m) \/ ComeBack(m) PROVE Promise'
  <2>1. /\ UNCHANGED <<arrived, failures, effects, disposed, again, closing>>
        /\ kept' = kept \cup {m} \/ (kept' = kept \ {m} /\ Settled(m))
    BY <1>4 DEF LetGo, ComeBack
  <2>2. TypeOK'
    BY <1>1, <2>1 DEF TypeOK
  <2>3. \A n \in arrived' : n \in kept' \/ Settled(n)
    BY <1>1, <2>1
  <2> QED  BY <2>1, <2>2, <2>3, LedgerStays
<1>5. ASSUME NEW S \in SUBSET Messages, GiveOutAgain(S) PROVE Promise'
  <2>1. /\ UNCHANGED <<arrived, kept, failures, effects, disposed, closing>>
        /\ again' = again \cup S
    BY <1>5 DEF GiveOutAgain
  <2>2. TypeOK'
    BY <1>1, <2>1 DEF TypeOK
  <2> QED  BY <1>1, <2>1, <2>2, LedgerStays
<1>6. CASE Close
  <2>1. UNCHANGED <<arrived, kept, failures, effects, disposed, again>> /\ closing' = TRUE
    BY <1>6 DEF Close
  <2>2. TypeOK'
    BY <1>1, <2>1 DEF TypeOK
  <2> QED  BY <1>1, <2>1, <2>2, LedgerStays
<1>7. CASE UNCHANGED vars
  <2>1. UNCHANGED <<arrived, kept, failures, effects, disposed, again, closing>>
    BY <1>7 DEF vars
  <2>2. TypeOK'
    BY <1>1, <2>1 DEF TypeOK
  <2> QED  BY <1>1, <2>1, <2>2, LedgerStays
<1> QED
  BY <1>2, <1>3, <1>4, <1>5, <1>6, <1>7, EffectStep, DisposeStep DEF Next

\* Nothing that has arrived is let go unsettled, what was not given out again is
\* settled once, and every disposal has its reason.
THEOREM DeliveryKeepsItsPromise ==
    ASSUME MaxRetries \in Nat
    PROVE  Spec => [](NothingForgotten /\ SettledOnce /\ ReasonsHold)
<1>1. Promise => NothingForgotten /\ SettledOnce /\ ReasonsHold
  BY DEF Promise
<1> QED  BY <1>1, PromiseInit, PromiseStep, PTL DEF Spec

=============================================================================
