---------------------------- MODULE UserService ----------------------------
(***************************************************************************)
(* user-service as its clients see it: several calls are served at a time, *)
(* each in a goroutine of gRPC's own, over shared tables and sessions.     *)
(* The service is found empty, or set up with three users of whom two have *)
(* logged in.  A call that a crash or a forced stop cuts off is one that   *)
(* never takes its next step.                                              *)
(***************************************************************************)
EXTENDS OrganizationSetup, UserRoles

CONSTANTS Home, Founder, Leader, Worker   \* the organisation that is found

Staff == {Founder, Leader, Worker}

ASSUME StaffAssumption ==
    /\ Home \in Orgs /\ Staff \subseteq Users
    /\ Founder \notin {Leader, Worker} /\ Leader # Worker

RoleOf(u) == IF u = Founder THEN "OWNER" ELSE IF u = Leader THEN "MANAGER" ELSE "EMPLOYEE"

Empty ==
    /\ users = [u \in Users |-> NoRow]
    /\ orgs = [o \in Orgs |-> NoRow]
    /\ token = [s \in Sessions |-> NoClaim]
    /\ held = [u \in Users |-> {}]
    /\ told = {}

\* A user who has logged in has a link to a Telegram account.
Established ==
    \E login \in [Sessions -> Staff \cup {Nobody}] :
        LET In == {s \in Sessions : login[s] # Nobody}
        IN  /\ Cardinality(In) = 2
            /\ \A s, t \in In : s # t => login[s] # login[t]
            /\ users = [u \in Users |->
                  IF u \in Staff
                  THEN [NewUser(RoleOf(u), Home) EXCEPT !.linked = \E s \in In : login[s] = u]
                  ELSE NoRow]
            /\ orgs = [o \in Orgs |->
                  IF o = Home THEN [life |-> "live", owner |-> Founder, active |-> TRUE] ELSE NoRow]
            /\ token = [s \in Sessions |->
                  IF s \in In THEN [user |-> login[s], role |-> RoleOf(login[s]), org |-> Home]
                  ELSE NoClaim]
            /\ held = [u \in Users |-> IF u \in Staff THEN {RoleOf(u)} ELSE {}]
            /\ told = {Home}

Init ==
    /\ Empty \/ Established
    /\ stored = {s \in Sessions : token[s] # NoClaim}
    /\ leaked = {} /\ revoked = {} /\ loggedOut = {}
    /\ trouble = [o \in Orgs |-> {}] /\ raced = FALSE
    /\ call = [c \in Calls |-> Idle] /\ made = 0

\* A check fails, a token has expired, a statement fails: the call ends, and what
\* it has not committed is rolled back.
Refuse(c) ==
    /\ call[c].step \in OtherSteps
    /\ Reply(c)
    /\ UNCHANGED <<tables, sessions, setUp, held>>

Next ==
    \/ \E c \in Calls : SetUpStep(c) \/ SessionStep(c) \/ RoleStep(c) \/ Refuse(c)
    \/ \E s \in Sessions : RevokeToken(s)

Spec == Init /\ [][Next]_vars

-----------------------------------------------------------------------------
(* Properties                                                              *)

TypeOK ==
    /\ users \in [Users -> User \cup {NoRow}]
    /\ orgs \in [Orgs -> Org \cup {NoRow}]
    /\ leaked \subseteq Orgs
    /\ token \in [Sessions -> Claim \cup {NoClaim}]
    /\ stored \subseteq Sessions /\ revoked \subseteq Sessions /\ loggedOut \subseteq Sessions
    /\ call \in [Calls -> Call]
    /\ made \in 0..MaxCalls
    /\ held \in [Users -> SUBSET Roles]
    /\ told \subseteq Orgs
    /\ trouble \in [Orgs -> SUBSET Troubles]
    /\ raced \in BOOLEAN

\* Who has set up an organisation keeps it: no interleaving of updates, log-ins and
\* deletions with stale copies demotes, suspends or deletes an OWNER.
OwnersStay ==
    [][\A u \in Users : users[u] # NoRow /\ users[u].role = "OWNER" =>
          users'[u].role = "OWNER" /\ users'[u].status = "ACTIVE" /\ Live(users'[u])]_vars

Acts(c, may) == call'[c] # call[c] /\ \E role \in may : role \in held[call[c].who]

\* No interleaving of role changes, stale claims and whole-row writes lets an
\* EMPLOYEE's call give a role that its user has never had; a user who starts as
\* more than an EMPLOYEE comes from the set-up or an OWNER, a deletion from an OWNER.
\* A MANAGER's call may change the role of any user who is no OWNER: that is what
\* CanUpdateUser does, with a TODO (domain/user.go:154-158), while
\* user_service.proto:207 leaves roles to OWNERs, which this does not claim.
EmployeesGrantNothing ==
    [][\A u \in Users :
          /\ held'[u] # held[u] =>
                \E c \in Calls : At(c, "create") \/ Acts(c, {"OWNER", "MANAGER"})
          /\ users[u] = NoRow /\ users'[u] # NoRow /\ users'[u].role # "EMPLOYEE" =>
                \E c \in Calls : At(c, "create") \/ Acts(c, {"OWNER"})
          /\ users[u] # NoRow /\ Live(users[u]) /\ ~Live(users'[u]) =>
                \E c \in Calls : Acts(c, {"OWNER"})]_vars

\* The system is set up once: a second organisation needs two set-ups that overlap.
OneOrganisation ==
    Cardinality({o \in Orgs : orgs[o] # NoRow}) > 1 => raced

OwnerOf(o, u) == users[u] # NoRow /\ users[u].role = "OWNER" /\ users[u].org = o

\* A set-up that reported success has left an organisation with an owner; it is
\* active, and the owner's, unless one of the last two statements failed.
SuccessIsUsable ==
    \A o \in told :
        /\ Live(orgs[o]) /\ \E u \in Users : OwnerOf(o, u)
        /\ trouble[o] = {} => orgs[o].active /\ OwnerOf(o, orgs[o].owner)

\* A set-up that failed has left no organisation and no owner behind, unless the
\* reply to a statement got lost or the deletion failed.
FailureCleansUp ==
    \A o \in Orgs \ told :
        trouble[o] = {} /\ (\A c \in Calls : call[c].org # o) =>
            /\ orgs[o] # NoRow => ~Live(orgs[o])
            /\ ~\E u \in Users : OwnerOf(o, u)

\* DeleteOrg leaves a transaction, and a connection of the pool, behind only when
\* the reply to the owner's INSERT got lost or one of its own statements failed.
LeaksNeedFaults == \A o \in leaked : trouble[o] \cap {"reply", "cleanup"} # {}

\* Once Logout has removed a session's refresh key no interleaving of refreshes
\* brings it back.
LogoutIsFinal == stored \cap loggedOut = {}

=============================================================================
