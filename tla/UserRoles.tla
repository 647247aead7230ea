----------------------------- MODULE UserRoles -----------------------------
(***************************************************************************)
(* CreateUser, UpdateUser, UpdateMyProfile and DeleteUser with the roles   *)
(* that allow them: the interceptor's claims, the requester's role from    *)
(* the table or the cache, the rules of the domain model, and the row      *)
(* that is written back whole from the copy the call has read.             *)
(***************************************************************************)
EXTENDS Sessions

CanManageUsers(role) == role \in {"OWNER", "MANAGER"}

\* Wrong on purpose (mutant): an EMPLOYEE may change every field of itself.
CanUpdateSelf(role, self, what) == role # "EMPLOYEE" \/ self

\* CanUpdateUser: an EMPLOYEE only itself, and neither role nor status; the branch
\* of a MANAGER looks at nothing.
CanUpdateUser(role, self, what) ==
    role = "EMPLOYEE" => self /\ what \notin Roles \cup Statuses

\* CanDeleteUser, self excepted by the handler
CanDeleteUser(role, target) == role = "OWNER" /\ target # "OWNER"

\* Roles a new user may get from somebody of the given role.
MayCreate(role) ==
    CASE role = "OWNER"   -> Roles
      [] role = "MANAGER" -> {"EMPLOYEE"}
      [] OTHER            -> {}

\* Wrong on purpose (mutant): DemoteToEmployee and Suspend take any user.
OwnersToo(u, what) == what = "OWNER"

\* applyUpdates returns an error: OWNER is no role to give, and PromoteToManager,
\* DemoteToEmployee and Suspend refuse an OWNER.
Refused(u, what) ==
    what = "OWNER" \/ (u.role = "OWNER" /\ what \in {"MANAGER", "EMPLOYEE", "SUSPENDED"})

Applied(u, what) ==
    CASE what \in Roles    -> [u EXCEPT !.role = what]
      [] what \in Statuses -> [u EXCEPT !.status = what]
      [] OTHER             -> u

-----------------------------------------------------------------------------
\* The handler looks at the role in the claims.
CreateUser(c, s, u, role) ==
    /\ Authorized(c, s, [Idle EXCEPT !.step = "creator", !.whom = u, !.what = role])
    /\ CanManageUsers(token[s].role)
    /\ UNCHANGED <<tables, sessions, setUp, held>>

\* The service layer looks at the requester's row, past the cache.
CheckCreator(c) ==
    LET u == users[call[c].who]
    IN  /\ At(c, "creator")
        /\ u # NoRow /\ Live(u) /\ CanManageUsers(u.role) /\ call[c].what \in MayCreate(u.role)
        /\ To(c, "insert")
        /\ UNCHANGED <<tables, sessions, setUp, held>>

\* CreateWithTx, committed: ON CONFLICT (email) DO NOTHING; the organisation is
\* the one in the claims.
InsertUser(c) ==
    /\ At(c, "insert") /\ users[call[c].whom] = NoRow
    /\ Write(call[c].whom, NewUser(call[c].what, token[call[c].old].org))
    /\ Reply(c)
    /\ UNCHANGED <<orgs, leaked, sessions, setUp>>

-----------------------------------------------------------------------------
UpdateUser(c, s, u, what) ==
    /\ Authorized(c, s, [Idle EXCEPT !.step = "read", !.whom = u, !.what = what])
    /\ UNCHANGED <<tables, sessions, setUp, held>>

\* UpdateUser of oneself, with a full name only
UpdateMyProfile(c, s) == UpdateUser(c, s, token[s].user, "name")

MayUpdate(c) ==
    \E role \in SeenRoles(call[c].who) :
        CanUpdateUser(role, call[c].who = call[c].whom, call[c].what)

\* GetByIDWithTx locks nothing.  The check comes before the transaction; as the
\* roles that may be seen only get more, doing it here loses no behaviour.
ReadTarget(c) ==
    LET u == users[call[c].whom]
    IN  /\ At(c, "read") /\ MayUpdate(c)
        /\ u # NoRow /\ Live(u) /\ ~Refused(u, call[c].what)
        /\ Go(c, [call[c] EXCEPT !.step = "update", !.copy = Applied(u, call[c].what)])
        /\ UNCHANGED <<tables, sessions, setUp, held>>

WriteUpdate(c) ==
    /\ At(c, "update") /\ Updatable(call[c].whom)
    /\ Write(call[c].whom, call[c].copy)
    /\ Reply(c)
    /\ UNCHANGED <<orgs, leaked, sessions, setUp>>

-----------------------------------------------------------------------------
DeleteUser(c, s, u) ==
    /\ Authorized(c, s, [Idle EXCEPT !.step = "delete", !.whom = u])
    /\ u # token[s].user
    /\ UNCHANGED <<tables, sessions, setUp, held>>

MayDelete(c) ==
    \E role \in SeenRoles(call[c].who), target \in SeenRoles(call[c].whom) :
        CanDeleteUser(role, target)

\* Both modes set deleted_at; what else a soft deletion writes is UserCache's.
\* The check comes before the transaction, as in ReadTarget.
WriteDeletion(c) ==
    /\ At(c, "delete") /\ MayDelete(c) /\ Updatable(call[c].whom)
    /\ users' = [users EXCEPT ![call[c].whom].life = "deleted"]
    /\ Reply(c)
    /\ UNCHANGED <<orgs, leaked, held, sessions, setUp>>

RoleStep(c) ==
    \/ \E s \in Sessions :
          \/ \E u \in Users :
                \/ DeleteUser(c, s, u)
                \/ \E role \in Roles : CreateUser(c, s, u, role)
                \/ \E what \in Changes : UpdateUser(c, s, u, what)
          \/ UpdateMyProfile(c, s)
    \/ CheckCreator(c) \/ InsertUser(c) \/ ReadTarget(c) \/ WriteUpdate(c)
    \/ WriteDeletion(c)

=============================================================================
