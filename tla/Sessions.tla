------------------------------ MODULE Sessions ------------------------------
(***************************************************************************)
(* Log-in by LinkTelegram, Logout, and pkg/auth with its refresh keys and  *)
(* its blacklist in Redis.  A session is the uuid that the two tokens of a *)
(* pair carry; its refresh key holds the hash of exactly that pair's       *)
(* refresh token, so a session stands for both.                            *)
(*                                                                         *)
(* RefreshAccessToken and RevokeToken are offered by pkg/auth; no handler  *)
(* of user-service calls them yet.  A token or a key that has expired is    *)
(* one that nobody presents any more.                                      *)
(***************************************************************************)
EXTENDS Accounts

\* Sessions that are neither in a client's hands nor being made.
Fresh == {s \in Sessions : token[s] = NoClaim /\ \A c \in Calls : call[c].new # s}

\* Manager.ValidateToken: the token is one that this service has signed.
Signed(s) == token[s] # NoClaim

IsRevoked(s) == s \in revoked

ValidateToken(s) == Signed(s) /\ ~IsRevoked(s)

\* UnaryJWTInterceptor puts the claims into the context of the call.
Authorized(c, s, r) ==
    /\ ValidateToken(s)
    /\ Begin(c, [r EXCEPT !.who = token[s].user, !.old = s])

\* The client gets the pair that package jwt's GenerateTokenPair has made.
HandOut(n, u, role, o) ==
    token' = [token EXCEPT ![n] = [user |-> u, role |-> role, org |-> o]]

-----------------------------------------------------------------------------
\* LinkTelegramServ reads the user by e-mail and looks at its copy; same: the
\* link there is, is to the Telegram account of the request.
LinkTelegram(c, u, same) ==
    /\ users[u] # NoRow /\ Live(users[u]) /\ users[u].status = "ACTIVE"
    /\ users[u].linked => same
    /\ Begin(c, [Idle EXCEPT !.step = IF users[u].linked THEN "issue" ELSE "link",
                             !.who = u, !.copy = users[u]])
    /\ UNCHANGED <<tables, sessions, setUp, held>>

\* WHERE id = ... AND deleted_at IS NULL
Updatable(u) == users[u] # NoRow /\ Live(users[u])

\* UpdateWithTx, committed: the whole row is written from the copy.
WriteLink(c) ==
    LET row == [call[c].copy EXCEPT !.linked = TRUE]
    IN  /\ At(c, "link") /\ Updatable(call[c].who)
        /\ Write(call[c].who, row)
        /\ Go(c, [call[c] EXCEPT !.step = "issue", !.copy = row])
        /\ UNCHANGED <<orgs, leaked, sessions, setUp>>

\* The refresh storage in Redis
Store(n) == stored' = stored \cup {n}
ValidateInStorage(s) == s \in stored
Revoke(s) == stored' = stored \ {s}

\* Auth.GenerateTokenPair; when Store fails nobody gets the tokens.
IssueTokens(c) ==
    /\ At(c, "issue")
    /\ \E n \in Fresh :
          /\ HandOut(n, call[c].who, call[c].copy.role, call[c].copy.org)
          /\ Store(n)
    /\ Reply(c)
    /\ UNCHANGED <<tables, revoked, loggedOut, setUp, held>>

-----------------------------------------------------------------------------
Logout(c, s) ==
    /\ Authorized(c, s, [Idle EXCEPT !.step = "logout"])
    /\ UNCHANGED <<tables, sessions, setUp, held>>

\* The access token is left to expire.
RevokeSession(c) ==
    /\ At(c, "logout")
    /\ Revoke(call[c].old)
    /\ loggedOut' = loggedOut \cup {call[c].old}
    /\ Reply(c)
    /\ UNCHANGED <<tables, token, revoked, setUp, held>>

\* After ValidateInStorage, Manager.RefreshAccessToken makes a pair with a new session.
RefreshAccessToken(c, s) ==
    /\ ValidateInStorage(s)
    /\ \E n \in Fresh : Begin(c, [Idle EXCEPT !.step = "rotate", !.old = s, !.new = n])
    /\ UNCHANGED <<tables, sessions, setUp, held>>

\* Wrong on purpose (mutant): the key of the session that is being replaced.
OldSession(c) == call[c].old

\* The assignment of line 122 has overwritten the parameter sessionID.
SessionID(c) == call[c].new

\* Revoke
Rotate(c) ==
    /\ At(c, "rotate")
    /\ Revoke(SessionID(c))
    /\ To(c, "store")
    /\ UNCHANGED <<tables, token, revoked, loggedOut, setUp, held>>

\* Store; the claims are those of the old refresh token.
StoreRotated(c) ==
    LET claims == token[call[c].old]
    IN  /\ At(c, "store")
        /\ Store(SessionID(c))
        /\ HandOut(call[c].new, claims.user, claims.role, claims.org)
        /\ Reply(c)
        /\ UNCHANGED <<tables, revoked, loggedOut, setUp, held>>

\* RevokeToken: the access token goes to the blacklist for the rest of its life.
RevokeToken(s) ==
    /\ ValidateToken(s) /\ made < MaxCalls
    /\ revoked' = revoked \cup {s}
    /\ made' = made + 1
    /\ UNCHANGED <<tables, token, stored, loggedOut, setUp, call, held>>

SessionStep(c) ==
    \/ \E u \in Users, same \in BOOLEAN : LinkTelegram(c, u, same)
    \/ WriteLink(c) \/ IssueTokens(c) \/ RevokeSession(c) \/ Rotate(c) \/ StoreRotated(c)
    \/ \E s \in Sessions : Logout(c, s) \/ RefreshAccessToken(c, s)

=============================================================================
