-------------------------- MODULE UserCache_proofs --------------------------
(***************************************************************************)
(* Proofs about UserCache, for any number of calls, Telegram accounts and  *)
(* passwords.                                                              *)
(***************************************************************************)
EXTENDS UserCache, TLAPS

-----------------------------------------------------------------------------
(* Types                                                                   *)

\* The calls that have read their copy, or written one.
HoldsCopy(c) ==
    \/ at[c] \in {"fill", "post"}
    \/ at[c] = "commit" /\ kind[c] # "create"

TypeInv ==
    /\ TypeOK
    /\ life # "absent" => row \in versions /\ merged \in User
    /\ \A c \in Calls :
          /\ HoldsCopy(c) => copy[c] \in User
          /\ at[c] = "lookup" => kind[c] \in ViaCache
          /\ at[c] \in {"commit", "post"} => kind[c] \notin Readers

\* A change leaves a user a user.
LEMMA OutcomesAreUsers ==
    ASSUME TypeInv, NEW c \in Calls, at[c] = "commit", Writable(kind[c]),
           NEW new \in Outcomes(kind[c], copy[c])
    PROVE  new \in User
<1> DEFINE k == kind[c]
           u == copy[c]
<1>1. k \in Kinds
  BY DEF TypeInv, TypeOK
<1>2. CASE k = "create"
  BY <1>2 DEF Outcomes, NewUsers, User
<1>3. CASE k = "hard"
  BY <1>3 DEF Outcomes, Writable, TypeInv, TypeOK
<1>4. CASE k \notin {"create", "hard"}
  <2>1. u \in User
    BY <1>4 DEF TypeInv, HoldsCopy
  <2> HIDE DEF u
  <2>2. new \in Outcomes(k, u)
    BY DEF u
  <2> QED  BY <1>1, <1>4, <2>1, <2>2
           DEF Kinds, ViaCache, FromDatabase, Outcomes, User
<1> QED  BY <1>2, <1>3, <1>4

LEMMA TypeInit == Init => TypeInv
  BY DEF Init, TypeInv, TypeOK, HoldsCopy, NewUsers, User, Steps, Kinds, ViaCache

LEMMA TypeStep == TypeInv /\ [Next]_vars => TypeInv'
<1> SUFFICES ASSUME TypeInv, [Next]_vars PROVE TypeInv'
  OBVIOUS
<1> USE DEF TypeInv, TypeOK, HoldsCopy
<1>1. ASSUME NEW c \in Calls, NEW k \in Kinds, Start(c, k) PROVE TypeInv'
  BY <1>1 DEF Start, FirstStep, Steps, Readers
<1>2. ASSUME NEW c \in Calls, Hit(c) PROVE TypeInv'
  <2>1. cache \in User /\ AfterGet(kind[c]) \in Steps
    BY <1>2 DEF Hit, AfterGet, Steps
  <2> QED  BY <1>2, <2>1 DEF Hit, Go, AfterGet
<1>3. ASSUME NEW c \in Calls, Miss(c) PROVE TypeInv'
  BY <1>3 DEF Miss, Go, Steps
<1>4. ASSUME NEW c \in Calls, Read(c) PROVE TypeInv'
  <2>1. life # "absent"
    BY <1>4 DEF Read, Visible
  <2>2. Selected(kind[c]) \in User
    BY <2>1 DEF Selected, User
  <2> QED  BY <1>4, <2>2 DEF Read, Go, Steps
<1>5. ASSUME NEW c \in Calls, Fill(c) PROVE TypeInv'
  BY <1>5 DEF Fill, Go, AfterGet, Steps
<1>6. ASSUME NEW c \in Calls, Commit(c) PROVE TypeInv'
  <2>1. PICK new \in Outcomes(kind[c], copy[c]) :
            /\ row' = new /\ versions' = versions \cup {new}
            /\ merged' = Merge(kind[c], new)
            /\ Go(c, "post", new)
    BY <1>6 DEF Commit
  <2>2. new \in User
    <3>1. at[c] = "commit" /\ Writable(kind[c])
      BY <1>6 DEF Commit
    <3> HIDE DEF TypeInv
    <3> QED  BY <3>1, OutcomesAreUsers
  <2>3. merged' \in User
    <3>1. CASE kind[c] = "create"
      BY <2>1, <2>2, <3>1 DEF Merge
    <3>2. CASE kind[c] # "create"
      <4>1. merged \in User
        BY <1>6, <3>2 DEF Commit, Writable
      <4> QED  BY <2>1, <2>2, <3>2, <4>1 DEF Merge, User
    <3> QED  BY <3>1, <3>2
  <2>4. cache' = cache /\ causes' = causes /\ life' \in {"live", "deleted"}
    BY <1>6 DEF Commit
  <2>5. /\ at' = [at EXCEPT ![c] = "post"] /\ kind' = kind
        /\ copy' = [copy EXCEPT ![c] = new]
    BY <2>1 DEF Go
  <2>6. TypeOK'
    BY <2>1, <2>2, <2>3, <2>4, <2>5 DEF Steps
  <2>7. kind[c] \notin Readers
    BY <1>6 DEF Commit
  <2>8. \A d \in Calls :
           /\ HoldsCopy(d)' => copy'[d] \in User
           /\ at'[d] = "lookup" => kind'[d] \in ViaCache
           /\ at'[d] \in {"commit", "post"} => kind'[d] \notin Readers
    BY <2>2, <2>5, <2>7
  <2> QED  BY <2>1, <2>3, <2>6, <2>8
<1>7. ASSUME NEW c \in Calls, AuthenticateUnsaved(c) PROVE TypeInv'
  BY <1>7 DEF AuthenticateUnsaved, Go, Steps
<1>8. ASSUME NEW c \in Calls, Refuse(c) \/ Post(c) \/ PostLost(c) PROVE TypeInv'
  BY <1>8 DEF Refuse, Post, PostLost, CacheAfter, Go, Steps
<1>9. CASE Expire
  BY <1>9 DEF Expire
<1>10. CASE UNCHANGED vars
  BY <1>10 DEF vars
<1> QED  BY <1>1, <1>2, <1>3, <1>4, <1>5, <1>6, <1>7, <1>8, <1>9, <1>10 DEF Next, Step

\* The variables always have their types.
THEOREM CacheTypeCorrect == Spec => []TypeOK
<1>1. TypeInv => TypeOK
  BY DEF TypeInv
<1> QED  BY <1>1, TypeInit, TypeStep, PTL DEF Spec


-----------------------------------------------------------------------------
(* Deleted users, and what is cached                                       *)

\* No step whatever writes the row of a deleted user.
THEOREM DeletedForGood == Spec => DeletedStaysDeleted
<1>1. ASSUME [Next]_vars, life = "deleted"
      PROVE  life' = "deleted" /\ row' = row
  BY <1>1 DEF Next, vars, Step, Start, Hit, Miss, Read, Fill, Commit, Writable,
              AuthenticateUnsaved, Refuse, Post, PostLost, Expire
<1> QED  BY <1>1, PTL DEF Spec, DeletedStaysDeleted

Known(u, S) == \E v \in S : u \in {v, [v EXCEPT !.pw = "none"]}

KnownInv ==
    /\ cache # NoUser => Known(cache, versions)
    /\ \A c \in Calls : HoldsCopy(c) => Known(copy[c], versions)

LEMMA KnownInit == Init => KnownInv
  BY DEF Init, KnownInv, HoldsCopy

LEMMA KnownStep == TypeInv /\ KnownInv /\ [Next]_vars => KnownInv'
<1> SUFFICES ASSUME TypeInv, KnownInv, [Next]_vars PROVE KnownInv'
  OBVIOUS
<1> USE DEF KnownInv, TypeInv, TypeOK, HoldsCopy
<1>1. ASSUME NEW c \in Calls, NEW k \in Kinds, Start(c, k) PROVE KnownInv'
  BY <1>1 DEF Start, FirstStep
<1>2. ASSUME NEW c \in Calls, Hit(c) \/ Miss(c) PROVE KnownInv'
  BY <1>2 DEF Hit, Miss, Go, AfterGet
<1>3. ASSUME NEW c \in Calls, Read(c) PROVE KnownInv'
  <2>1. row \in versions
    BY <1>3 DEF Read, Visible
  <2>2. Known(Selected(kind[c]), versions)
    BY <2>1 DEF Selected, Known
  <2> QED  BY <1>3, <2>2 DEF Read, Go
<1>4. ASSUME NEW c \in Calls, Fill(c) PROVE KnownInv'
  BY <1>4 DEF Fill, Go, AfterGet
<1>5. ASSUME NEW c \in Calls, Commit(c) PROVE KnownInv'
  <2>1. PICK new : versions' = versions \cup {new} /\ Go(c, "post", new)
    BY <1>5 DEF Commit
  <2>2. ASSUME NEW u, Known(u, versions) PROVE Known(u, versions')
    BY <2>1, <2>2 DEF Known
  <2>3. Known(new, versions')
    BY <2>1 DEF Known
  <2> QED  BY <1>5, <2>1, <2>2, <2>3 DEF Commit, Go
<1>6. ASSUME NEW c \in Calls, AuthenticateUnsaved(c) PROVE KnownInv'
  BY <1>6 DEF AuthenticateUnsaved, Go
<1>7. ASSUME NEW c \in Calls, Refuse(c) \/ Post(c) \/ PostLost(c) PROVE KnownInv'
  BY <1>7 DEF Refuse, Post, PostLost, CacheAfter, Go
<1>8. CASE Expire
  BY <1>8 DEF Expire
<1>9. CASE UNCHANGED vars
  BY <1>9 DEF vars
<1> QED  BY <1>1, <1>2, <1>3, <1>4, <1>5, <1>6, <1>7, <1>8, <1>9 DEF Next, Step

\* A copy in the cache is always one that was committed, the password aside.
THEOREM NoMixtureCached == Spec => []CachedWasCommitted
<1>1. KnownInv => CachedWasCommitted
  BY DEF KnownInv, Known, CachedWasCommitted
<1> QED  BY <1>1, TypeInit, TypeStep, KnownInit, KnownStep, PTL DEF Spec

-----------------------------------------------------------------------------
(* Calls that do not overlap                                               *)

\* Until a race is recorded, a call that writes is the only one under way.
Alone ==
    "race" \notin causes =>
        \A c, d \in Calls : c # d /\ Busy(c) /\ Busy(d) => {kind[c], kind[d]} \subseteq Readers

LEMMA AloneStep == TypeInv /\ Alone /\ [Next]_vars => Alone'
<1> SUFFICES ASSUME TypeInv, Alone, [Next]_vars PROVE Alone'
  OBVIOUS
<1> USE DEF Alone, TypeInv, TypeOK, Busy
<1>1. ASSUME NEW c \in Calls, NEW k \in Kinds, Start(c, k) PROVE Alone'
  BY <1>1 DEF Start, Overlaps
<1>2. ASSUME NEW c \in Calls, Step(c) PROVE Alone'
  <2>1. kind' = kind /\ causes \subseteq causes' /\ Busy(c)
    BY <1>2 DEF Step, Hit, Miss, Read, Fill, Commit, AuthenticateUnsaved, Refuse, Post, PostLost, Go
  <2>2. \A d \in Calls \ {c} : at'[d] = at[d]
    BY <1>2 DEF Step, Hit, Miss, Read, Fill, Commit, AuthenticateUnsaved, Refuse, Post, PostLost, Go
  <2> QED  BY <2>1, <2>2
<1>3. CASE Expire \/ UNCHANGED vars
  BY <1>3 DEF Expire, vars
<1> QED  BY <1>1, <1>2, <1>3 DEF Next

\* What a call that is about to write does to the others: there are none.
LEMMA WriterAlone ==
    ASSUME TypeInv, Alone, "race" \notin causes,
           NEW c \in Calls, at[c] \in {"commit", "post"},
           NEW d \in Calls \ {c}
    PROVE  ~Busy(d)
  BY DEF TypeInv, Alone, Busy

\* The calls that work on what they have read from the database themselves.
Exact == {"update", "link", "unlink", "authenticate"}

Near(u) == u \in {row, [row EXCEPT !.pw = "none"]}

\* Copies that are held, or cached with no invalidation due, are the row; those
\* that may come from GetUserByTelegramID may lack its password.
CopiesNear ==
    life = "live" =>
        /\ row = merged
        /\ \A c \in Calls : HoldsCopy(c) =>
              /\ Near(copy[c])
              /\ at[c] = "post" \/ kind[c] \in Exact => copy[c] = row
        /\ (\A c \in Calls : at[c] # "post") => cache = NoUser \/ Near(cache)

Undisturbed == causes \subseteq {"telegram"}

LostUpdateInv == Undisturbed => CopiesNear

\* A change made to a copy that lacks at most the password is made to the row.
LEMMA ChangeOfRow ==
    ASSUME TypeInv, CopiesNear, NEW c \in Calls, at[c] = "commit", Writable(kind[c]),
           NEW new \in Outcomes(kind[c], copy[c]),
           kind[c] \notin {"soft", "hard"}
    PROVE  Merge(kind[c], new) = new
<1> DEFINE k == kind[c]
           u == copy[c]
<1>1. k \in Kinds /\ k \notin Readers
  BY DEF TypeInv, TypeOK
<1>2. CASE k = "create"
  BY <1>2 DEF Merge
<1>3. CASE k # "create"
  <2>1. life = "live"
    BY <1>3 DEF Writable
  <2>2. /\ row = merged /\ Near(u)
        /\ k \in Exact => u = row
    BY <1>3, <2>1 DEF CopiesNear, HoldsCopy
  <2>3. row \in User
    BY <2>1 DEF TypeInv, TypeOK
  <2>4. new \in Outcomes(k, u)
    OBVIOUS
  <2> SUFFICES Merge(k, new) = new
    OBVIOUS
  <2> HIDE DEF k, u
  <2>5. CASE k \in Exact
    <3>1. new \in Outcomes(k, row) /\ merged = row
      BY <2>2, <2>4, <2>5
    <3>2. CASE k = "update"
      BY <2>3, <3>1, <3>2 DEF Outcomes, Merge, User
    <3>3. CASE k \in {"link", "unlink"}
      BY <2>3, <3>1, <3>3 DEF Outcomes, Merge, User
    <3>4. CASE k = "authenticate"
      BY <3>1, <3>4 DEF Outcomes, Merge
    <3> QED  BY <2>5, <3>2, <3>3, <3>4 DEF Exact
  <2>6. CASE k = "password"
    <3>1. PICK p \in Passwords : new = [u EXCEPT !.pw = p]
      BY <2>4, <2>6 DEF Outcomes
    <3>2. new = [row EXCEPT !.pw = p]
      <4>1. CASE u = row
        BY <3>1, <4>1
      <4>2. CASE u = [row EXCEPT !.pw = "none"]
        BY <2>3, <3>1, <4>2 DEF User
      <4> QED  BY <2>2, <4>1, <4>2 DEF Near
    <3> QED  BY <2>2, <2>3, <2>6, <3>2 DEF Merge, User
  <2>7. k \in Exact \cup {"password"}
    BY <1>1, <1>3 DEF k, Kinds, ViaCache, FromDatabase, Readers, Exact
  <2> QED  BY <2>5, <2>6, <2>7 DEF k
<1> QED  BY <1>2, <1>3

LEMMA LostUpdateInit == Init => LostUpdateInv
  BY DEF Init, LostUpdateInv, CopiesNear, HoldsCopy

LEMMA LostUpdateStep ==
    TypeInv /\ Alone /\ LostUpdateInv /\ [Next]_vars => LostUpdateInv'
<1> SUFFICES ASSUME TypeInv, Alone, LostUpdateInv, [Next]_vars, Undisturbed'
             PROVE  CopiesNear'
  BY DEF LostUpdateInv
<1>1. causes \subseteq causes'
  BY DEF Next, vars, Step, Start, Hit, Miss, Read, Fill, Commit, AuthenticateUnsaved,
         Refuse, Post, PostLost, Expire
<1>2. CopiesNear /\ "race" \notin causes
  BY <1>1 DEF Undisturbed, LostUpdateInv
<1> USE DEF TypeInv, TypeOK, CopiesNear, HoldsCopy, Near
<1>3. ASSUME NEW c \in Calls, NEW k \in Kinds, Start(c, k) PROVE CopiesNear'
  BY <1>2, <1>3 DEF Start, FirstStep
<1>4. ASSUME NEW c \in Calls, Hit(c) PROVE CopiesNear'
  <2>1. \A d \in Calls : at[d] # "post"
    <3>1. at[c] = "lookup" /\ Busy(c)
      BY <1>4 DEF Hit, Busy
    <3> QED  BY <1>2, <3>1, WriterAlone
  <2>2. kind[c] \notin Exact
    BY <1>4 DEF Hit, ViaCache, Exact
  <2> QED  BY <1>2, <1>4, <2>1, <2>2 DEF Hit, Go, AfterGet
<1>5. ASSUME NEW c \in Calls, Miss(c) \/ Refuse(c) PROVE CopiesNear'
  BY <1>2, <1>5 DEF Miss, Refuse, Go
<1>6. ASSUME NEW c \in Calls, Read(c) PROVE CopiesNear'
  <2>1. Selected(kind[c]) \in {row, [row EXCEPT !.pw = "none"]}
    BY DEF Selected
  <2>2. kind[c] \in Exact => Selected(kind[c]) = row
    BY DEF Exact, Selected
  <2> QED  BY <1>2, <1>6, <2>1, <2>2 DEF Read, Go
<1>7. ASSUME NEW c \in Calls, Fill(c) PROVE CopiesNear'
  BY <1>2, <1>7 DEF Fill, Go, AfterGet
<1>8. ASSUME NEW c \in Calls, Commit(c) PROVE CopiesNear'
  <2> SUFFICES ASSUME life' = "live" PROVE CopiesNear'
    OBVIOUS
  <2>1. kind[c] \notin {"soft", "hard"}
    BY <1>8 DEF Commit
  <2>2. PICK new \in Outcomes(kind[c], copy[c]) :
            row' = new /\ merged' = Merge(kind[c], new) /\ Go(c, "post", new)
    BY <1>8 DEF Commit
  <2>3. at[c] = "commit" /\ Writable(kind[c])
    BY <1>8 DEF Commit
  <2>4. merged' = row'
    BY <1>2, <2>1, <2>2, <2>3, ChangeOfRow
  <2>5. \A d \in Calls \ {c} : ~Busy(d) /\ at'[d] = at[d]
    BY <1>2, <2>2, <2>3, WriterAlone DEF Go
  <2>6. copy'[c] = row' /\ at'[c] = "post"
    BY <2>2 DEF Go
  <2> QED  BY <2>4, <2>5, <2>6 DEF Busy
<1>9. ASSUME NEW c \in Calls, AuthenticateUnsaved(c) PROVE CopiesNear'
  <2>1. kind[c] \in Exact /\ kind[c] # "create"
    BY <1>9 DEF AuthenticateUnsaved, Exact
  <2> QED  BY <1>2, <1>9, <2>1 DEF AuthenticateUnsaved, Go
<1>10. ASSUME NEW c \in Calls, Post(c) PROVE CopiesNear'
  BY <1>2, <1>10 DEF Post, CacheAfter, Go
<1>11. ASSUME NEW c \in Calls, PostLost(c) PROVE CopiesNear'
  BY <1>11 DEF PostLost, Undisturbed
<1>12. CASE Expire \/ UNCHANGED vars
  BY <1>2, <1>12 DEF Expire, vars
<1> QED  BY <1>3, <1>4, <1>5, <1>6, <1>7, <1>8, <1>9, <1>10, <1>11, <1>12 DEF Next, Step

LEMMA AloneInit == Init => Alone
  BY DEF Init, Alone, Busy

\* Without overlapping writers and lost cache commands no change is lost.
THEOREM ChangesSurvive == Spec => []NoLostUpdate
<1>1. LostUpdateInv => NoLostUpdate
  BY DEF LostUpdateInv, Undisturbed, CopiesNear, NoLostUpdate
<1> QED  BY <1>1, TypeInit, TypeStep, AloneInit, AloneStep, LostUpdateInit, LostUpdateStep,
            PTL DEF Spec

-----------------------------------------------------------------------------
(* The cache and the row                                                   *)

\* A cached copy that no call under way is about to replace or remove.
CacheIsRow == cache = NoUser \/ (life = "live" /\ cache = row)

\* Copies that end up in the cache are the row, until a call that will remove
\* them has committed.
Agreement ==
    /\ \A c \in Calls :
          /\ Busy(c) => kind[c] # "byTelegram"
          /\ HoldsCopy(c) /\ ~(at[c] = "post" /\ kind[c] \in Invalidating) =>
                life = "live" /\ copy[c] = row
    /\ (\A c \in Calls : at[c] # "post") => CacheIsRow

AgreementInv == causes = {} => Agreement

LEMMA AgreementInit == Init => AgreementInv
  BY DEF Init, AgreementInv, Agreement, CacheIsRow, Busy, HoldsCopy

LEMMA AgreementStep == TypeInv /\ Alone /\ AgreementInv /\ [Next]_vars => AgreementInv'
<1> SUFFICES ASSUME TypeInv, Alone, AgreementInv, [Next]_vars, causes' = {}
             PROVE  Agreement'
  BY DEF AgreementInv
<1>1. causes \subseteq causes'
  BY DEF Next, vars, Step, Start, Hit, Miss, Read, Fill, Commit, AuthenticateUnsaved,
         Refuse, Post, PostLost, Expire
<1>2. Agreement /\ "race" \notin causes
  BY <1>1 DEF AgreementInv
<1> USE DEF TypeInv, TypeOK, Agreement, CacheIsRow, HoldsCopy, Busy
<1>3. ASSUME NEW c \in Calls, NEW k \in Kinds, Start(c, k) PROVE Agreement'
  BY <1>2, <1>3 DEF Start, FirstStep
<1>4. ASSUME NEW c \in Calls, Hit(c) PROVE Agreement'
  <2>1. Busy(c) /\ kind[c] \in ViaCache /\ kind[c] \in Kinds
    BY <1>4 DEF Hit
  <2>2. \A d \in Calls : at[d] # "post"
    BY <1>2, <1>4, WriterAlone DEF Hit
  <2>3. life = "live" /\ cache = row
    BY <1>2, <1>4, <2>2 DEF Hit
  <2> QED  BY <1>2, <1>4, <2>1, <2>2, <2>3 DEF Hit, Go, AfterGet
<1>5. ASSUME NEW c \in Calls, Miss(c) \/ Refuse(c) PROVE Agreement'
  BY <1>2, <1>5 DEF Miss, Refuse, Go
<1>6. ASSUME NEW c \in Calls, Read(c) PROVE Agreement'
  <2>1. kind[c] # "byTelegram"
    BY <1>2, <1>6 DEF Read
  <2>2. Selected(kind[c]) = row /\ life = "live"
    BY <1>6, <2>1 DEF Read, Selected, Visible
  <2> QED  BY <1>2, <1>6, <2>1, <2>2 DEF Read, Go
<1>7. ASSUME NEW c \in Calls, Fill(c) PROVE Agreement'
  BY <1>2, <1>7 DEF Fill, Go, AfterGet
<1>8. ASSUME NEW c \in Calls, Commit(c) PROVE Agreement'
  <2>1. PICK new : row' = new /\ Go(c, "post", new)
    BY <1>8 DEF Commit
  <2>2. at'[c] = "post" /\ copy'[c] = row' /\ kind' = kind
    BY <2>1 DEF Go
  <2>3. kind[c] \notin Invalidating => life' = "live"
    BY <1>8 DEF Commit, Invalidating
  <2>4. \A d \in Calls \ {c} : ~Busy(d) /\ at'[d] = at[d]
    BY <1>2, <1>8, <2>1, WriterAlone DEF Commit, Go
  <2>5. kind[c] # "byTelegram"
    BY <1>8 DEF Commit, Readers
  <2> QED  BY <2>2, <2>3, <2>4, <2>5
<1>9. ASSUME NEW c \in Calls, AuthenticateUnsaved(c) PROVE Agreement'
  BY <1>2, <1>9 DEF AuthenticateUnsaved, Go
<1>10. ASSUME NEW c \in Calls, Post(c) PROVE Agreement'
  <2>1. \A d \in Calls \ {c} : ~Busy(d) /\ at'[d] = at[d]
    BY <1>2, <1>10, WriterAlone DEF Post, Go
  <2>2. at'[c] = "done"
    BY <1>10 DEF Post, Go
  <2>3. CacheIsRow'
    BY <1>2, <1>10 DEF Post, CacheAfter
  <2> QED  BY <2>1, <2>2, <2>3
<1>11. ASSUME NEW c \in Calls, PostLost(c) PROVE Agreement'
  BY <1>11 DEF PostLost
<1>12. CASE Expire \/ UNCHANGED vars
  BY <1>2, <1>12 DEF Expire, vars
<1> QED  BY <1>3, <1>4, <1>5, <1>6, <1>7, <1>8, <1>9, <1>10, <1>11, <1>12 DEF Next, Step

\* When no call is under way and nothing excuses it, the cache is not stale.
THEOREM CacheIsNotStale == Spec => []CacheAgrees
<1>1. AgreementInv => CacheAgrees
  <2> SUFFICES ASSUME AgreementInv, causes = {}, Idle PROVE CacheIsRow
    BY DEF CacheAgrees, CacheIsRow
  <2>1. \A c \in Calls : at[c] # "post"
    BY DEF Idle, Busy
  <2> QED  BY <2>1 DEF AgreementInv, Agreement
<1> QED  BY <1>1, TypeInit, TypeStep, AloneInit, AloneStep, AgreementInit, AgreementStep,
            PTL DEF Spec

=============================================================================
