------------------------------ MODULE Accounts ------------------------------
(***************************************************************************)
(* What the calls of user-service share: the tables users and              *)
(* organizations, the tokens it has given out, the refresh keys and the    *)
(* blacklist in Redis, and the calls that are being served, each a record  *)
(* of its step and of what it has in hand.                                 *)
(*                                                                         *)
(* A user is identified by the e-mail address: it is UNIQUE, deleted rows  *)
(* included.  linked stands for telegram_id IS NOT NULL.  Fields that no   *)
(* rule looks at (name, password, times) are left out.                     *)
(***************************************************************************)
EXTENDS FiniteSets, Naturals

CONSTANTS
    Calls,      \* requests served at a time
    MaxCalls,   \* bound: requests served altogether
    Users,
    Orgs,
    Sessions,
    Nobody      \* stands for any of them not being there

ASSUME AccountsAssumption == Nobody \notin Users \cup Orgs \cup Sessions /\ MaxCalls \in Nat

VARIABLES
    users,     \* the table users
    orgs,      \* the table organizations
    leaked,    \* organisations whose DeleteOrg left its transaction open
    token,     \* the claims of each session's tokens
    stored,    \* sessions with a refresh key in Redis
    revoked,   \* sessions whose access token is in the blacklist
    call,      \* the calls under way
    made,      \* how many have begun
    held,      \* history: the roles each user has had
    told,      \* history: organisations whose set-up reported success
    trouble,   \* history: what went wrong in the set-up of each organisation
    raced,     \* history: two set-ups overlapped
    loggedOut  \* history: sessions that Logout has ended

tables   == <<users, orgs, leaked>>
sessions == <<token, stored, revoked, loggedOut>>
setUp    == <<told, trouble, raced>>
vars     == <<tables, sessions, setUp, call, made, held>>

Roles    == {"OWNER", "MANAGER", "EMPLOYEE"}
Statuses == {"ACTIVE", "SUSPENDED"}
Troubles == {"statement", "reply", "cleanup"}

User  == [life : {"live", "deleted"}, role : Roles, status : Statuses,
          org : Orgs, linked : BOOLEAN]
Org   == [life : {"live", "deleted"}, owner : Users \cup {Nobody}, active : BOOLEAN]
Claim == [user : Users, role : Roles, org : Orgs]

\* What UpdateUser may be asked to change: nothing that matters here ("name"),
\* the role or the status.
Changes == {"name"} \cup Roles \cup Statuses

NoRow   == [life |-> "absent"]
NoClaim == [user |-> Nobody]

SetUpSteps == {"save", "create", "fetch", "cleanup", "owner", "activate"}
OtherSteps == {"link", "issue", "logout", "rotate", "store", "creator", "insert",
               "read", "update", "delete"}

\* who: the user the call acts for; whom: the one it acts on; what: the change
\* or role asked for; org: the organisation being set up; old, new: the session
\* that came with the request and the one being made; copy: the row as read.
Call == [step : {"idle"} \cup SetUpSteps \cup OtherSteps,
         who  : Users \cup {Nobody}, whom : Users \cup {Nobody},
         what : Changes \cup {"none"}, org : Orgs \cup {Nobody},
         old  : Sessions \cup {Nobody}, new : Sessions \cup {Nobody},
         copy : User \cup {NoRow}]

Idle == [step |-> "idle", who |-> Nobody, whom |-> Nobody, what |-> "none",
         org |-> Nobody, old |-> Nobody, new |-> Nobody, copy |-> NoRow]

-----------------------------------------------------------------------------
Live(row)    == row.life = "live"
At(c, step)  == call[c].step = step
InSetUp(c)   == call[c].step \in SetUpSteps

Begin(c, r) ==
    /\ At(c, "idle") /\ made < MaxCalls
    /\ call' = [call EXCEPT ![c] = r]
    /\ made' = made + 1

Go(c, r) == call' = [call EXCEPT ![c] = r] /\ UNCHANGED made

To(c, step) == Go(c, [call[c] EXCEPT !.step = step])
Reply(c)    == Go(c, Idle)

\* Writes a user's row.
Write(u, row) ==
    /\ users' = [users EXCEPT ![u] = row]
    /\ held' = [held EXCEPT ![u] = @ \cup {row.role}]

\* GetUserByID answers from the cache or from the table.  UserCache shows that a
\* cached copy is what the row was at some time (CachedWasCommitted): of the
\* copy only the role is looked at, so it is a role that the user has had.
SeenRoles(u) == held[u]

\* NewUser
NewUser(role, o) ==
    [life |-> "live", role |-> role, status |-> "ACTIVE", org |-> o, linked |-> FALSE]

=============================================================================
