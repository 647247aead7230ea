----------------------------- MODULE UserCache -----------------------------
(***************************************************************************)
(* One user of user-service: the row in PostgreSQL and the copy that Redis *)
(* keeps under user:<id>.  Calls of the service layer run concurrently,    *)
(* each working on a copy of its own: UserRepo.Update and UpdateWithTx     *)
(* write the whole copy back, and the cache is invalidated or overwritten  *)
(* in a step of its own after the commit.                                  *)
(*                                                                         *)
(* The requester of a call is the organisation's owner, whose rights do    *)
(* not change; status stands for every field that UpdateUser changes.  The *)
(* copy under the Telegram key is never read: GetUserByTelegramID decodes  *)
(* it into a nil pointer, which always fails.                              *)
(***************************************************************************)
CONSTANTS
    Calls,       \* the calls that are made, each once
    Telegrams,   \* Telegram accounts
    Passwords    \* values of password_hash

ASSUME NoneAssumption == "none" \notin Telegrams \cup Passwords

VARIABLES
    life,      \* the row: not there yet, live, or deleted_at is set
    row,       \* its other fields
    cache,     \* the copy under user:<id>
    at,        \* where each call is
    kind,      \* which method it is
    copy,      \* the copy of the user it works on
    merged,    \* history: the fields as the calls that succeeded left them
    versions,  \* history: every content the row has had
    causes     \* history: what may excuse a stale cache

vars == <<life, row, cache, at, kind, copy, merged, versions, causes>>

User == [status : {"active", "suspended", "inactive"},
         tg     : Telegrams \cup {"none"},
         pw     : Passwords \cup {"none"}]
NoUser == [status |-> "none", tg |-> "none", pw |-> "none"]

\* "soft" and "hard" are DeleteUser's two modes; "get" is GetUserByID and
\* BatchGetUsersByIDs, whose fill may come long after its answer.
ViaCache     == {"get", "password", "soft", "hard"}
FromDatabase == {"update", "link", "unlink", "authenticate", "byTelegram"}
Readers      == {"get", "byTelegram"}
Kinds        == ViaCache \cup FromDatabase \cup {"create"}

\* After the commit: Cache.Delete, or Cache.Set of the call's copy.
Invalidating == {"update", "password", "soft", "hard"}

Steps == {"idle", "lookup", "read", "fill", "commit", "post", "done"}

TypeOK ==
    /\ life \in {"absent", "live", "deleted"}
    /\ row \in User \cup {NoUser}
    /\ cache \in User \cup {NoUser}
    /\ at \in [Calls -> Steps]
    /\ kind \in [Calls -> Kinds]
    /\ copy \in [Calls -> User \cup {NoUser}]
    /\ merged \in User \cup {NoUser}
    /\ versions \subseteq User
    /\ causes \subseteq {"race", "telegram", "fault"}

\* The contents CreateUser can insert.
NewUsers == [status : {"active"}, tg : {"none"}, pw : Passwords]

Init ==
    /\ \/ life = "absent" /\ row = NoUser /\ versions = {}
       \/ life = "live" /\ row \in NewUsers /\ versions = {row}
    /\ merged = row
    /\ cache = NoUser
    /\ at = [c \in Calls |-> "idle"]
    /\ kind = [c \in Calls |-> "get"]
    /\ copy = [c \in Calls |-> NoUser]
    /\ causes = {}

-----------------------------------------------------------------------------
Busy(c) == at[c] \notin {"idle", "done"}

Go(c, step, u) ==
    /\ at' = [at EXCEPT ![c] = step]
    /\ copy' = [copy EXCEPT ![c] = u]
    /\ kind' = kind

\* Two calls overlap, and one of them writes.
Overlaps(c, k) ==
    \E d \in Calls \ {c} : Busy(d) /\ ~({k, kind[d]} \subseteq Readers)

FirstStep(k) ==
    IF k \in ViaCache THEN "lookup" ELSE IF k = "create" THEN "commit" ELSE "read"

Start(c, k) ==
    /\ at[c] = "idle"
    /\ at' = [at EXCEPT ![c] = FirstStep(k)]
    /\ kind' = [kind EXCEPT ![c] = k]
    /\ causes' = causes \cup {x \in {"race", "telegram"} :
                                 \/ x = "race" /\ Overlaps(c, k)
                                 \/ x = "telegram" /\ k = "byTelegram"}
    /\ UNCHANGED <<life, row, cache, copy, merged, versions>>

\* Wrong on purpose (mutant): a step the program does not have.
Answer(k) == "answer"

AfterGet(k) == IF k \in Readers THEN "done" ELSE "commit"

Hit(c) ==
    /\ at[c] = "lookup" /\ cache # NoUser
    /\ Go(c, AfterGet(kind[c]), cache)
    /\ UNCHANGED <<life, row, cache, merged, versions, causes>>

\* Nothing is cached, or Redis answers with an error.
Miss(c) ==
    /\ at[c] = "lookup"
    /\ Go(c, "read", NoUser)
    /\ UNCHANGED <<life, row, cache, merged, versions, causes>>

\* Wrong on purpose (mutant): the SELECTs lack deleted_at IS NULL.
SeesDeleted(k) == life # "absent"

\* The repository's SELECTs see live rows only, but for GetByTelegramID's.
Visible(k) ==
    IF k = "byTelegram" THEN life # "absent" /\ row.tg # "none" ELSE life = "live"

\* Wrong on purpose (mutant): GetByTelegramID does not select status either.
WithoutStatus(k) ==
    IF k = "byTelegram" THEN [row EXCEPT !.pw = "none", !.status = "none"] ELSE row

\* GetByTelegramID does not select password_hash.
Selected(k) == IF k = "byTelegram" THEN [row EXCEPT !.pw = "none"] ELSE row

Read(c) ==
    LET k == kind[c]
    IN  /\ at[c] = "read" /\ Visible(k)
        /\ Go(c, IF k \in ViaCache \cup Readers THEN "fill" ELSE "commit", Selected(k))
        /\ UNCHANGED <<life, row, cache, merged, versions, causes>>

\* cacheUser after a read; an error of Redis is only logged.
Fill(c) ==
    /\ at[c] = "fill"
    /\ cache' \in {cache, copy[c]}
    /\ Go(c, AfterGet(kind[c]), copy[c])
    /\ UNCHANGED <<life, row, merged, versions, causes>>

\* LinkTelegramServ, UnlinkTelegramServ and AuthenticateUser look at their copy.
Allowed(k, u) ==
    CASE k = "link"         -> u.status = "active" /\ u.tg = "none"
      [] k = "unlink"       -> u.tg # "none"
      [] k = "authenticate" -> u.status = "active"
      [] OTHER              -> TRUE

\* What the call writes, given its copy u.
Outcomes(k, u) ==
    CASE k = "create"       -> NewUsers
      [] k = "update"       -> {[u EXCEPT !.status = s] : s \in {"active", "suspended"}}
      [] k = "link"         -> {[u EXCEPT !.tg = t] : t \in Telegrams}
      [] k = "unlink"       -> {[u EXCEPT !.tg = "none"]}
      [] k = "password"     -> {[u EXCEPT !.pw = p] : p \in Passwords}
      [] k = "soft"         -> {[u EXCEPT !.status = "inactive"]}
      [] k = "hard"         -> {row}
      [] k = "authenticate" -> {u}
      [] OTHER              -> {}

\* Wrong on purpose (mutant): the UPDATEs lack deleted_at IS NULL.
AnyRow(k) == IF k = "create" THEN life = "absent" ELSE life # "absent"

\* WHERE id = ... AND deleted_at IS NULL; for CreateUser, no row of that email.
Writable(k) == IF k = "create" THEN life = "absent" ELSE life = "live"

\* The fields the call means to change take the value it gives them.
Merge(k, new) ==
    CASE k = "create"             -> new
      [] k \in {"update", "soft"} -> [merged EXCEPT !.status = new.status]
      [] k \in {"link", "unlink"} -> [merged EXCEPT !.tg = new.tg]
      [] k = "password"           -> [merged EXCEPT !.pw = new.pw]
      [] OTHER                    -> merged

\* The UPDATE or INSERT, committed.  A transaction that rolls back is a Refuse.
Commit(c) ==
    /\ at[c] = "commit"
    /\ Writable(kind[c]) /\ Allowed(kind[c], copy[c])
    /\ \E new \in Outcomes(kind[c], copy[c]) :
          /\ row' = new
          /\ versions' = versions \cup {new}
          /\ merged' = Merge(kind[c], new)
          /\ Go(c, "post", new)
    /\ life' = IF kind[c] \in {"soft", "hard"} THEN "deleted" ELSE "live"
    /\ UNCHANGED <<cache, causes>>

\* AuthenticateUser goes on when its UPDATE fails.
AuthenticateUnsaved(c) ==
    /\ at[c] = "commit" /\ kind[c] = "authenticate"
    /\ Allowed("authenticate", copy[c])
    /\ Go(c, "post", copy[c])
    /\ UNCHANGED <<life, row, cache, merged, versions, causes>>

\* A check fails, the row is not there, or the database answers with an error.
Refuse(c) ==
    /\ at[c] \in {"lookup", "read", "commit"}
    /\ Go(c, "done", copy[c])
    /\ UNCHANGED <<life, row, cache, merged, versions, causes>>

\* Wrong on purpose (mutant): what is to be invalidated is left in the cache.
LeaveCache(c) == IF kind[c] \in Invalidating THEN cache ELSE copy[c]

CacheAfter(c) == IF kind[c] \in Invalidating THEN NoUser ELSE copy[c]

Post(c) ==
    /\ at[c] = "post"
    /\ cache' = CacheAfter(c)
    /\ Go(c, "done", copy[c])
    /\ UNCHANGED <<life, row, merged, versions, causes>>

\* Redis answers with an error that is only logged, the reply to the COMMIT was
\* lost, or the process died: the cache stays as it is.
PostLost(c) ==
    /\ at[c] = "post"
    /\ causes' = causes \cup {"fault"}
    /\ Go(c, "done", copy[c])
    /\ UNCHANGED <<life, row, cache, merged, versions>>

\* External: Redis drops the entry after its hour.
Expire ==
    /\ cache # NoUser
    /\ cache' = NoUser
    /\ UNCHANGED <<life, row, at, kind, copy, merged, versions, causes>>

-----------------------------------------------------------------------------
Step(c) ==
    \/ Hit(c) \/ Miss(c) \/ Read(c) \/ Fill(c) \/ Commit(c) \/ AuthenticateUnsaved(c)
    \/ Refuse(c) \/ Post(c) \/ PostLost(c)

Next ==
    \/ \E c \in Calls : Step(c) \/ \E k \in Kinds : Start(c, k)
    \/ Expire

Spec == Init /\ [][Next]_vars

-----------------------------------------------------------------------------
(* Properties                                                              *)

\* Whatever calls overlap and however stale the copies they write back, a
\* deleted user never comes back and its row is never written again.
DeletedStaysDeleted ==
    [][life = "deleted" => life' = "deleted" /\ row' = row]_vars

\* The cache never holds a mixture: each copy in it is what the row was at some
\* time, without the password when GetUserByTelegramID has filled it.
CachedWasCommitted ==
    cache # NoUser =>
        \E v \in versions : cache \in {v, [v EXCEPT !.pw = "none"]}

Idle == \A c \in Calls : ~Busy(c)

\* When no call is under way, the cache agrees with the row, unless a writing
\* call has overlapped another, a cache command got lost, or
\* GetUserByTelegramID has filled the cache.
CacheAgrees ==
    causes = {} /\ Idle => cache = NoUser \/ (life = "live" /\ cache = row)

\* No successful change is lost to the whole-row UPDATE of another call, unless
\* a writing call has overlapped another or a cache command got lost.
NoLostUpdate ==
    causes \subseteq {"telegram"} /\ life = "live" => row = merged

\* user_service.proto:221 calls DeleteUser without soft_delete a complete
\* removal.  But GetByTelegramID still selects the row, and GetUserByTelegramID
\* puts it back into the cache, where GetUserByID finds the user for an hour.
DeletedIsGone ==
    causes \subseteq {"telegram"} /\ Idle /\ life = "deleted" => cache = NoUser

=============================================================================
