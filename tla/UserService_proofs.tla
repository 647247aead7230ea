------------------------- MODULE UserService_proofs -------------------------
(***************************************************************************)
(* Proofs about UserService, for any number of calls at a time and         *)
(* altogether, of users, organisations and sessions.                       *)
(***************************************************************************)
EXTENDS UserService, FiniteSetTheorems, TLAPS

UserSteps == {"creator", "insert", "read", "update", "delete"}

\* What a call has in hand at each of its steps: r the call, os and ts the tables
\* orgs and token.
Shape(r, os, ts) ==
    /\ r.step \in SetUpSteps => r.who \in Users
    /\ r.step \in SetUpSteps \ {"save"} => r.org \in Orgs /\ os[r.org] # NoRow
    /\ r.step \notin SetUpSteps \ {"save"} => r.org = Nobody
    /\ r.step \in {"link", "issue"} => r.who \in Users
    /\ r.step \in {"link", "issue", "update"} => r.copy \in User
    /\ r.step \in {"logout", "rotate", "store"} \cup UserSteps =>
          r.old \in Sessions /\ ts[r.old] # NoClaim
    /\ r.step \in {"rotate", "store"} => r.new \in Sessions
    /\ r.step \notin {"rotate", "store"} => r.new = Nobody
    /\ r.step \in UserSteps => r.who \in Users /\ r.whom \in Users
    /\ r.step \in {"read", "update"} => r.what \in Changes
    /\ r.step \in {"creator", "insert"} => r.what \in Roles

TypeInv ==
    /\ TypeOK
    /\ \A c \in Calls : Shape(call[c], orgs, token)
    /\ \A s \in stored : Signed(s)

\* Sessions in the making belong to one call and have no tokens yet; those that
\* have ended had.
SessionInv ==
    /\ \A c, d \in Calls : call[c].new = call[d].new /\ call[c].new # Nobody => c = d
    /\ \A c \in Calls : call[c].new # Nobody => token[call[c].new] = NoClaim
    /\ \A s \in loggedOut : Signed(s)
    /\ LogoutIsFinal

IsOwner(row) == row.role = "OWNER"
Untouched(row) == Live(row) /\ row.status = "ACTIVE"

\* An OWNER has never been anything else, nobody else has ever been one.
RowInv ==
    \A u \in Users :
        /\ users[u] = NoRow => held[u] = {}
        /\ users[u] # NoRow =>
              /\ users[u].role \in held[u]
              /\ IsOwner(users[u]) => held[u] = {"OWNER"} /\ Untouched(users[u])
              /\ ~IsOwner(users[u]) => "OWNER" \notin held[u]

Target(r) == IF r.step = "update" THEN r.whom ELSE r.who

\* Copies in hand are copies of their rows as far as organisation and ownership go,
\* and what is written of the role was there before or was asked for by somebody
\* who may.
CopyOK(r, us, hs) ==
    LET t == Target(r)
    IN  /\ r.step \in {"link", "issue", "update"} =>
              us[t] # NoRow /\ r.copy.org = us[t].org
        /\ r.step \in {"link", "update"} =>
              /\ IsOwner(r.copy) <=> IsOwner(us[t])
              /\ Live(r.copy) /\ (IsOwner(r.copy) => Untouched(r.copy))
        /\ r.step = "link" => r.copy.role \in hs[t]
        /\ r.step = "update" =>
              \/ r.copy.role \in hs[t]
              \/ hs[r.who] \cap {"OWNER", "MANAGER"} # {}
        /\ r.step = "insert" =>
              \/ "OWNER" \in hs[r.who]
              \/ "MANAGER" \in hs[r.who] /\ r.what = "EMPLOYEE"

CopyInv == \A c \in Calls : CopyOK(call[c], users, held)

\* Where somebody may belong to: organisations that are set up, that are about
\* to be, or of whose owner the reply got lost.
Peopled(o) ==
    \/ o \in told
    \/ "reply" \in trouble[o]
    \/ \E c \in Calls : call[c].step \in {"owner", "activate"} /\ call[c].org = o

MemberInv ==
    /\ \A u \in Users : users[u] # NoRow => Peopled(users[u].org)
    /\ \A s \in Sessions : token[s] # NoClaim => Peopled(token[s].org)

\* An organisation is as complete as its set-up has come.
OrgOK(o) ==
    /\ orgs[o] = NoRow => trouble[o] = {} /\ o \notin told
    /\ o \in told =>
          /\ Live(orgs[o]) /\ \E u \in Users : OwnerOf(o, u)
          /\ trouble[o] = {} =>
                orgs[o].active /\ orgs[o].owner \in Users /\ OwnerOf(o, orgs[o].owner)
    /\ o \notin told /\ trouble[o] = {} /\ (\A c \in Calls : call[c].org # o) =>
          orgs[o] = NoRow \/ ~Live(orgs[o])
    /\ o \in leaked => trouble[o] \cap {"reply", "cleanup"} # {}
    /\ \A c \in Calls : call[c].org = o =>
          /\ o \notin told /\ Live(orgs[o])
          /\ call[c].step \in {"create", "fetch", "owner"} => trouble[o] = {}
          /\ call[c].step \in {"owner", "activate"} => OwnerOf(o, call[c].who)
          /\ call[c].step = "activate" /\ trouble[o] = {} => orgs[o].owner = call[c].who

\* An organisation is in the hands of one call at most.
SetUpInv ==
    /\ \A c, d \in Calls : call[c].org = call[d].org /\ call[c].org # Nobody => c = d
    /\ \A o \in Orgs : OrgOK(o)

\* Without overlapping set-ups there is one at a time, and none once there is an
\* organisation.
RaceInv ==
    raced \/ /\ \A c, d \in Calls : InSetUp(c) /\ InSetUp(d) => c = d
             /\ \A c \in Calls : At(c, "save") => ~ExistsAny
             /\ \A o, p \in Orgs : orgs[o] # NoRow /\ orgs[p] # NoRow => o = p

-----------------------------------------------------------------------------
(* Types                                                                   *)

LEMMA NewUserType ==
    ASSUME NEW role \in Roles, NEW o \in Orgs
    PROVE  NewUser(role, o) \in User
  BY DEF NewUser, User, Statuses

LEMMA IdleShape == Idle \in Call /\ \A os, ts : Shape(Idle, os, ts)
  BY DEF Idle, Call, Shape, SetUpSteps, UserSteps, NoRow

LEMMA TypeInit == Init => TypeInv
<1> SUFFICES ASSUME Init PROVE TypeInv
  OBVIOUS
<1> USE AccountsAssumption, StaffAssumption
<1>1. /\ users \in [Users -> User \cup {NoRow}]
      /\ orgs \in [Orgs -> Org \cup {NoRow}]
      /\ token \in [Sessions -> Claim \cup {NoClaim}]
      /\ held \in [Users -> SUBSET Roles]
      /\ told \subseteq Orgs
  <2>1. CASE Empty
    BY <2>1 DEF Empty
  <2>2. CASE Established
    <3>1. PICK login \in [Sessions -> Staff \cup {Nobody}] :
             LET In == {s \in Sessions : login[s] # Nobody}
             IN  /\ users = [u \in Users |->
                       IF u \in Staff
                       THEN [NewUser(RoleOf(u), Home) EXCEPT !.linked = \E s \in In : login[s] = u]
                       ELSE NoRow]
                 /\ orgs = [o \in Orgs |->
                       IF o = Home THEN [life |-> "live", owner |-> Founder, active |-> TRUE] ELSE NoRow]
                 /\ token = [s \in Sessions |->
                       IF s \in In THEN [user |-> login[s], role |-> RoleOf(login[s]), org |-> Home]
                       ELSE NoClaim]
                 /\ held = [u \in Users |-> IF u \in Staff THEN {RoleOf(u)} ELSE {}]
                 /\ told = {Home}
      BY <2>2 DEF Established
    <3>2. \A u : RoleOf(u) \in Roles
      BY DEF RoleOf, Roles
    <3>3. users \in [Users -> User \cup {NoRow}]
      BY <3>1, <3>2 DEF NewUser, User, Statuses
    <3>4. orgs \in [Orgs -> Org \cup {NoRow}] /\ told \subseteq Orgs
      BY <3>1 DEF Org, Staff
    <3>5. token \in [Sessions -> Claim \cup {NoClaim}]
      BY <3>1, <3>2 DEF Claim
    <3>6. held \in [Users -> SUBSET Roles]
      BY <3>1, <3>2
    <3> QED  BY <3>3, <3>4, <3>5, <3>6
  <2> QED  BY <2>1, <2>2 DEF Init
<1>2. call = [c \in Calls |-> Idle]
  BY DEF Init
<1>3. /\ stored \subseteq Sessions /\ \A s \in stored : Signed(s)
      /\ leaked \subseteq Orgs /\ revoked \subseteq Sessions /\ loggedOut \subseteq Sessions
  BY DEF Init, Signed
<1>4. call \in [Calls -> Call] /\ \A c \in Calls : Shape(call[c], orgs, token)
  BY <1>2, IdleShape
<1>5. made \in 0..MaxCalls
  BY DEF Init
<1>6. trouble \in [Orgs -> SUBSET Troubles] /\ raced \in BOOLEAN
  BY Zenon DEF Init
<1> QED  BY <1>1, <1>3, <1>4, <1>5, <1>6 DEF TypeInv, TypeOK

\* A step puts one call's record in place of its last one; the rows and the tokens
\* that other calls rely on stay.
Keeps ==
    /\ \A o \in Orgs : orgs[o] # NoRow => orgs'[o] # NoRow
    /\ \A s \in Sessions : token[s] # NoClaim => token'[s] # NoClaim

LEMMA CallType ==
    ASSUME TypeInv, NEW c \in Calls, NEW r, r \in Call, Shape(r, orgs', token'),
           call' = [call EXCEPT ![c] = r], Keeps
    PROVE  call' \in [Calls -> Call] /\ \A d \in Calls : Shape(call'[d], orgs', token')
<1>1. call \in [Calls -> Call]
  BY DEF TypeInv, TypeOK
<1>2. ASSUME NEW d \in Calls, d # c PROVE Shape(call'[d], orgs', token')
  <2>1. call'[d] = call[d] /\ Shape(call[d], orgs, token)
    BY <1>1, <1>2 DEF TypeInv
  <2> QED  BY <2>1 DEF Shape, Keeps
<1> QED  BY <1>1, <1>2

LEMMA StepType ==
    ASSUME TypeInv, NEW c \in Calls, NEW r \in Call, Shape(r, orgs', token'), Keeps,
           call' = [call EXCEPT ![c] = r], made' \in {made, made + 1}, made' <= MaxCalls,
           users' \in [Users -> User \cup {NoRow}], orgs' \in [Orgs -> Org \cup {NoRow}],
           held' \in [Users -> SUBSET Roles], leaked' \subseteq Orgs, told' \subseteq Orgs,
           token' \in [Sessions -> Claim \cup {NoClaim}],
           stored' \subseteq Sessions, loggedOut' \subseteq Sessions, revoked' = revoked,
           trouble' \in [Orgs -> SUBSET Troubles], raced' \in BOOLEAN,
           \A s \in stored' : token'[s] # NoClaim
    PROVE  TypeInv'
<1>1. call' \in [Calls -> Call] /\ \A d \in Calls : Shape(call'[d], orgs', token')
  BY CallType
<1>2. made' \in 0..MaxCalls
  BY AccountsAssumption DEF TypeInv, TypeOK
<1> QED  BY <1>1, <1>2 DEF TypeInv, TypeOK, Signed

\* A step that changes the calls only.
LEMMA CallOnly ==
    ASSUME TypeInv, NEW c \in Calls, NEW r \in Call, Shape(r, orgs, token),
           call' = [call EXCEPT ![c] = r],
           made' = made \/ (made' = made + 1 /\ made < MaxCalls),
           UNCHANGED <<tables, sessions, setUp, held>>
    PROVE  TypeInv'
<1>1. UNCHANGED <<users, orgs, leaked, token, stored, revoked, loggedOut, told, trouble, raced, held>>
  BY DEF tables, sessions, setUp
<1>2. Keeps /\ Shape(r, orgs', token')
  BY <1>1 DEF Keeps
<1>3. made' \in {made, made + 1} /\ made' <= MaxCalls
  BY AccountsAssumption DEF TypeInv, TypeOK
<1> HIDE DEF Keeps
<1> QED  BY <1>1, <1>2, <1>3, StepType DEF TypeInv, TypeOK, Signed

LEMMA Replies ==
    ASSUME TypeInv, NEW c \in Calls, Reply(c), UNCHANGED <<tables, sessions, setUp, held>>
    PROVE  TypeInv'
  BY IdleShape, CallOnly DEF Reply, Go

\* The call goes on from one step of the set-up to another with what it has.
LEMMA GoesOn ==
    ASSUME TypeInv, NEW c \in Calls, NEW step \in SetUpSteps \ {"save"}, call[c].step \in SetUpSteps \ {"save"}
    PROVE  LET r == [call[c] EXCEPT !.step = step]
           IN  r \in Call /\ Shape(r, orgs, token) /\ r.org = call[c].org
  BY DEF TypeInv, TypeOK, Shape, Call, SetUpSteps, UserSteps

LEMMA SetUpTypes ==
    ASSUME TypeInv, NEW c \in Calls, SetUpStep(c)
    PROVE  TypeInv'
<1> USE DEF TypeInv, TypeOK
<1>1. call[c] \in Call /\ Shape(call[c], orgs, token)
  OBVIOUS
<1>2. ASSUME NEW e \in Users, SetupInitialOrganization(c, e) PROVE TypeInv'
  <2> DEFINE r == [Idle EXCEPT !.step = "save", !.who = e]
  <2>1. r \in Call /\ Shape(r, orgs, token)
    BY DEF Idle, Call, Shape, SetUpSteps, UserSteps
  <2>2. /\ call' = [call EXCEPT ![c] = r] /\ made' = made + 1 /\ made < MaxCalls
        /\ UNCHANGED <<users, orgs, leaked, token, stored, revoked, loggedOut, told, trouble, held>>
        /\ raced' \in BOOLEAN
    BY <1>2 DEF SetupInitialOrganization, Begin, tables, sessions, InSetUp
  <2>3. Keeps /\ made' <= MaxCalls
    BY <2>2, AccountsAssumption DEF Keeps
  <2> HIDE DEF r
  <2> QED  BY <2>1, <2>2, <2>3, StepType DEF Signed
<1>3. CASE SaveOrganization(c)
  <2>1. PICK o \in Orgs :
           /\ orgs[o] = NoRow /\ orgs' = [orgs EXCEPT ![o] = NewOrganization]
           /\ \/ Go(c, [call[c] EXCEPT !.step = "create", !.org = o]) /\ UNCHANGED trouble
              \/ Reply(c) /\ Blame(o, "reply")
    BY <1>3 DEF SaveOrganization
  <2>2. /\ UNCHANGED <<users, leaked, token, stored, revoked, loggedOut, told, raced, held>>
        /\ call[c].step = "save" /\ made' = made
    BY <1>3, <2>1 DEF SaveOrganization, sessions, At, Go, Reply
  <2>3. orgs' \in [Orgs -> Org \cup {NoRow}] /\ orgs'[o] # NoRow /\ Keeps
    BY <2>1, <2>2 DEF Keeps, NewOrganization, Org, NoRow
  <2>4. trouble' \in [Orgs -> SUBSET Troubles]
    BY <2>1 DEF Blame, Troubles
  <2>5. PICK r \in Call : call' = [call EXCEPT ![c] = r] /\ Shape(r, orgs', token')
    <3>1. CASE Go(c, [call[c] EXCEPT !.step = "create", !.org = o])
      <4>1. [call[c] EXCEPT !.step = "create", !.org = o] \in Call
        BY <1>1 DEF Call, SetUpSteps
      <4>2. Shape([call[c] EXCEPT !.step = "create", !.org = o], orgs', token')
        BY <1>1, <2>2, <2>3 DEF Shape, Call, SetUpSteps, UserSteps
      <4> QED  BY <3>1, <4>1, <4>2 DEF Go
    <3>2. CASE Reply(c)
      BY <3>2, IdleShape DEF Reply, Go
    <3> QED  BY <2>1, <3>1, <3>2
  <2>6. made' \in {made, made + 1} /\ made' <= MaxCalls
    BY <2>2, AccountsAssumption
  <2> QED  BY <2>2, <2>3, <2>4, <2>5, <2>6, StepType DEF Signed
<1>4. CASE SaveFails(c)
  BY <1>4, Replies DEF SaveFails
<1>5. CASE CreateUserSystem(c)
  <2>1. /\ call[c].step = "create" /\ call[c].who \in Users /\ call[c].org \in Orgs
        /\ UNCHANGED <<orgs, leaked, token, stored, revoked, loggedOut, told, raced>>
    BY <1>1, <1>5 DEF CreateUserSystem, At, Shape, SetUpSteps, sessions
  <2>2. PICK step \in {"owner", "cleanup", "fetch"} : To(c, step)
    BY <1>5 DEF CreateUserSystem
  <2>3. /\ users' \in [Users -> User \cup {NoRow}]
        /\ held' \in [Users -> SUBSET Roles]
        /\ trouble' \in [Orgs -> SUBSET Troubles]
    BY <1>5, <2>1, NewUserType DEF CreateUserSystem, Write, NewUser, Blame, Roles, Troubles
  <2>4. PICK r \in Call : call' = [call EXCEPT ![c] = r] /\ Shape(r, orgs', token')
    BY <2>1, <2>2, GoesOn DEF To, Go, SetUpSteps
  <2>5. Keeps /\ made' \in {made, made + 1} /\ made' <= MaxCalls
    BY <2>1, <2>2, AccountsAssumption DEF Keeps, To, Go
  <2> QED  BY <2>1, <2>3, <2>4, <2>5, StepType DEF Signed
<1>6. CASE CreateFails(c) \/ FetchExisting(c) \/ FetchFails(c)
  <2>1. /\ call[c].step \in {"create", "fetch"}
        /\ UNCHANGED <<tables, sessions, setUp, held>>
        /\ \E step \in {"owner", "cleanup"} : To(c, step)
    BY <1>6 DEF CreateFails, FetchExisting, FetchFails, At, WithExisting
  <2> QED  BY <2>1, GoesOn, CallOnly DEF To, Go, SetUpSteps
<1>7. CASE DeleteOrganization(c) \/ DeleteFails(c)
  <2>1. /\ call[c].org \in Orgs /\ orgs[call[c].org] \in Org /\ made' = made
        /\ call' = [call EXCEPT ![c] = Idle]
        /\ UNCHANGED <<users, token, stored, revoked, loggedOut, told, raced, held>>
    BY <1>1, <1>7 DEF DeleteOrganization, DeleteFails, At, Shape, SetUpSteps, sessions, setUp, Reply, Go
  <2>2. orgs' \in {orgs, Deleted(call[c].org)} /\ leaked' \subseteq Orgs
    BY <1>7, <2>1 DEF DeleteOrganization, DeleteFails
  <2>3. orgs' \in [Orgs -> Org \cup {NoRow}] /\ Keeps
    BY <2>1, <2>2 DEF Deleted, Org, Keeps, NoRow
  <2>4. trouble' \in [Orgs -> SUBSET Troubles]
    BY <1>7, <2>1 DEF DeleteOrganization, DeleteFails, setUp, Blame, Troubles
  <2>5. made' \in {made, made + 1} /\ made' <= MaxCalls
    BY <2>1, AccountsAssumption
  <2> QED  BY <2>1, <2>2, <2>3, <2>4, <2>5, StepType, IdleShape DEF Signed
<1>8. CASE UpdateOwner(c) \/ ActivateOrganization(c)
  <2>1. /\ call[c].org \in Orgs /\ orgs[call[c].org] \in Org /\ call[c].who \in Users
        /\ call[c].step \in SetUpSteps \ {"save"}
        /\ UNCHANGED <<users, leaked, token, stored, revoked, loggedOut, raced, held>>
    BY <1>1, <1>8 DEF UpdateOwner, ActivateOrganization, At, Shape, SetUpSteps, sessions
  <2>2. \/ orgs' = orgs
        \/ orgs' = [orgs EXCEPT ![call[c].org].owner = call[c].who]
        \/ orgs' = [orgs EXCEPT ![call[c].org].active = MayActivate(call[c].org, call[c].who)]
    BY <1>8 DEF UpdateOwner, ActivateOrganization
  <2>3. orgs' \in [Orgs -> Org \cup {NoRow}] /\ Keeps
    <3>1. /\ [orgs[call[c].org] EXCEPT !.owner = call[c].who] \in Org
          /\ [orgs[call[c].org] EXCEPT !.active = MayActivate(call[c].org, call[c].who)] \in Org
      BY <2>1 DEF MayActivate, Live, Org
    <3>2. \A row \in Org : row # NoRow
      BY DEF Org, NoRow
    <3>3. orgs' = orgs \/ \E row \in Org : orgs' = [orgs EXCEPT ![call[c].org] = row]
      BY <2>2, <3>1
    <3> QED  BY <2>1, <3>2, <3>3 DEF Keeps
  <2>4. trouble' \in [Orgs -> SUBSET Troubles] /\ told' \subseteq Orgs
    BY <1>8, <2>1 DEF UpdateOwner, ActivateOrganization, Blame, Troubles
  <2>5. made' = made /\ \/ call' = [call EXCEPT ![c] = [call[c] EXCEPT !.step = "activate"]]
                        \/ call' = [call EXCEPT ![c] = Idle]
    BY <1>8 DEF UpdateOwner, ActivateOrganization, To, Reply, Go
  <2>6. [call[c] EXCEPT !.step = "activate"] \in Call /\ Shape([call[c] EXCEPT !.step = "activate"], orgs, token)
    BY <2>1, GoesOn DEF SetUpSteps
  <2>7. PICK r \in Call : call' = [call EXCEPT ![c] = r] /\ Shape(r, orgs', token')
    BY <2>1, <2>3, <2>5, <2>6, IdleShape DEF Shape, Keeps
  <2>8. made' \in {made, made + 1} /\ made' <= MaxCalls
    BY <2>5, AccountsAssumption
  <2> QED  BY <2>1, <2>3, <2>4, <2>7, <2>8, StepType DEF Signed
<1> QED  BY <1>2, <1>3, <1>4, <1>5, <1>6, <1>7, <1>8 DEF SetUpStep

\* What a call begins with after UnaryJWTInterceptor.
LEMMA Begins ==
    ASSUME TypeInv, NEW c \in Calls, NEW s \in Sessions, NEW step \in {"creator", "read", "delete"},
           NEW u \in Users, NEW what \in Changes,
           step = "creator" => what \in Roles,
           Authorized(c, s, [Idle EXCEPT !.step = step, !.whom = u, !.what = what]),
           UNCHANGED <<tables, sessions, setUp, held>>
    PROVE  TypeInv'
<1> DEFINE r == [Idle EXCEPT !.step = step, !.whom = u, !.what = what, !.who = token[s].user, !.old = s]
<1>1. token[s] # NoClaim /\ token[s].user \in Users
  BY DEF Authorized, ValidateToken, Signed, TypeInv, TypeOK, Claim
<1>2. r \in Call
  BY <1>1 DEF Idle, Call, SetUpSteps, OtherSteps, UserSteps
<1>3. Shape(r, orgs, token)
  BY <1>1 DEF Idle, Shape, SetUpSteps, UserSteps
<1>4. call' = [call EXCEPT ![c] = r] /\ made' = made + 1 /\ made < MaxCalls
  BY DEF Authorized, Begin, Idle
<1> HIDE DEF r
<1> QED  BY <1>2, <1>3, <1>4, CallOnly

LEMMA SessionTypes ==
    ASSUME TypeInv, NEW c \in Calls, SessionStep(c)
    PROVE  TypeInv'
<1> USE DEF TypeInv, TypeOK
<1>1. call[c] \in Call /\ Shape(call[c], orgs, token) /\ made <= MaxCalls
  BY AccountsAssumption
<1>2. ASSUME NEW u \in Users, NEW same \in BOOLEAN, LinkTelegram(c, u, same) PROVE TypeInv'
  <2> DEFINE r == [Idle EXCEPT !.step = IF users[u].linked THEN "issue" ELSE "link",
                               !.who = u, !.copy = users[u]]
  <2>1. users[u] \in User
    BY <1>2 DEF LinkTelegram
  <2>2. r \in Call /\ Shape(r, orgs, token)
    BY <2>1 DEF Idle, Call, Shape, SetUpSteps, OtherSteps, UserSteps
  <2>3. call' = [call EXCEPT ![c] = r] /\ made' = made + 1 /\ made < MaxCalls
    BY <1>2 DEF LinkTelegram, Begin
  <2> HIDE DEF r
  <2> QED  BY <1>2, <2>2, <2>3, CallOnly DEF LinkTelegram
<1>3. CASE WriteLink(c)
  <2> DEFINE row == [call[c].copy EXCEPT !.linked = TRUE]
             r == [call[c] EXCEPT !.step = "issue", !.copy = row]
  <2>1. call[c].step = "link" /\ call[c].who \in Users /\ call[c].copy \in User
    BY <1>1, <1>3 DEF WriteLink, At, Shape
  <2>2. row \in User
    BY <2>1 DEF User
  <2>3. r \in Call /\ Shape(r, orgs, token)
    BY <1>1, <2>1, <2>2 DEF Call, Shape, SetUpSteps, OtherSteps, UserSteps
  <2>4. /\ users' = [users EXCEPT ![call[c].who] = row]
        /\ held' = [held EXCEPT ![call[c].who] = @ \cup {row.role}]
        /\ call' = [call EXCEPT ![c] = r] /\ made' = made
        /\ UNCHANGED <<orgs, leaked, token, stored, revoked, loggedOut, told, trouble, raced>>
    BY <1>3 DEF WriteLink, Write, Go, sessions, setUp
  <2>5. row.role \in Roles
    BY <2>2 DEF User
  <2> HIDE DEF row, r
  <2>6. users' \in [Users -> User \cup {NoRow}] /\ held' \in [Users -> SUBSET Roles]
    BY <2>1, <2>2, <2>4, <2>5
  <2>7. Keeps /\ Shape(r, orgs', token')
    BY <2>3, <2>4 DEF Keeps
  <2> QED  BY <1>1, <2>3, <2>4, <2>6, <2>7, StepType DEF Signed
<1>4. CASE IssueTokens(c)
  <2>1. PICK n \in Sessions :
           /\ token[n] = NoClaim /\ stored' = stored \cup {n}
           /\ token' = [token EXCEPT ![n] = [user |-> call[c].who, role |-> call[c].copy.role,
                                             org |-> call[c].copy.org]]
    BY <1>4 DEF IssueTokens, HandOut, Store, Fresh
  <2>2. call[c].who \in Users /\ call[c].copy \in User
    BY <1>1, <1>4 DEF IssueTokens, At, Shape
  <2>3. /\ call' = [call EXCEPT ![c] = Idle] /\ made' = made
        /\ UNCHANGED <<users, orgs, leaked, held, revoked, loggedOut, told, trouble, raced>>
    BY <1>4 DEF IssueTokens, Reply, Go, tables, setUp
  <2>4. token' \in [Sessions -> Claim \cup {NoClaim}] /\ token'[n] # NoClaim
    <3> DEFINE claim == [user |-> call[c].who, role |-> call[c].copy.role, org |-> call[c].copy.org]
    <3>1. claim \in Claim /\ claim # NoClaim
      BY <2>2, AccountsAssumption DEF Claim, User, NoClaim
    <3>2. token' = [token EXCEPT ![n] = claim]
      BY <2>1
    <3> HIDE DEF claim
    <3> QED  BY <3>1, <3>2
  <2>5. Keeps
    BY <2>1, <2>3, <2>4 DEF Keeps
  <2>6. \A s \in stored' : token'[s] # NoClaim
    BY <2>1, <2>4, <2>5 DEF Keeps, Signed
  <2> QED  BY <1>1, <2>1, <2>3, <2>4, <2>5, <2>6, IdleShape, StepType
<1>5. ASSUME NEW s \in Sessions, Logout(c, s) PROVE TypeInv'
  <2> DEFINE r == [Idle EXCEPT !.step = "logout", !.who = token[s].user, !.old = s]
  <2>1. token[s] # NoClaim /\ token[s].user \in Users
    BY <1>5 DEF Logout, Authorized, ValidateToken, Signed, Claim
  <2>2. r \in Call /\ Shape(r, orgs, token)
    BY <2>1 DEF Idle, Call, Shape, SetUpSteps, OtherSteps, UserSteps
  <2>3. call' = [call EXCEPT ![c] = r] /\ made' = made + 1 /\ made < MaxCalls
    BY <1>5 DEF Logout, Authorized, Begin, Idle
  <2> HIDE DEF r
  <2> QED  BY <1>5, <2>2, <2>3, CallOnly DEF Logout
<1>6. CASE RevokeSession(c)
  <2>1. call[c].old \in Sessions
    BY <1>1, <1>6 DEF RevokeSession, At, Shape
  <2>2. /\ stored' \subseteq stored /\ loggedOut' = loggedOut \cup {call[c].old}
        /\ call' = [call EXCEPT ![c] = Idle] /\ made' = made
        /\ UNCHANGED <<users, orgs, leaked, held, revoked, token, told, trouble, raced>>
    BY <1>6 DEF RevokeSession, Revoke, Reply, Go, tables, setUp
  <2>3. Keeps
    BY <2>2 DEF Keeps
  <2> QED  BY <1>1, <2>1, <2>2, <2>3, IdleShape, StepType DEF Signed
<1>7. ASSUME NEW s \in Sessions, RefreshAccessToken(c, s) PROVE TypeInv'
  <2>1. PICK n \in Fresh : Begin(c, [Idle EXCEPT !.step = "rotate", !.old = s, !.new = n])
    BY <1>7 DEF RefreshAccessToken
  <2> DEFINE r == [Idle EXCEPT !.step = "rotate", !.old = s, !.new = n]
  <2>2. token[s] # NoClaim /\ n \in Sessions
    BY <1>7, <2>1 DEF RefreshAccessToken, ValidateInStorage, Signed, Fresh
  <2>3. r \in Call /\ Shape(r, orgs, token)
    BY <2>2 DEF Idle, Call, Shape, SetUpSteps, OtherSteps, UserSteps
  <2>4. call' = [call EXCEPT ![c] = r] /\ made' = made + 1 /\ made < MaxCalls
    BY <2>1 DEF Begin
  <2> HIDE DEF r
  <2> QED  BY <1>7, <2>3, <2>4, CallOnly DEF RefreshAccessToken
<1>8. CASE Rotate(c)
  <2> DEFINE r == [call[c] EXCEPT !.step = "store"]
  <2>1. /\ stored' \subseteq stored /\ call' = [call EXCEPT ![c] = r] /\ made' = made
        /\ UNCHANGED <<users, orgs, leaked, held, token, revoked, loggedOut, told, trouble, raced>>
    BY <1>8 DEF Rotate, Revoke, To, Go, tables, setUp
  <2>2. r \in Call /\ Shape(r, orgs, token)
    BY <1>1, <1>8 DEF Rotate, At, Call, Shape, SetUpSteps, OtherSteps, UserSteps
  <2>3. Keeps /\ Shape(r, orgs', token')
    BY <2>1, <2>2 DEF Keeps
  <2> HIDE DEF r
  <2> QED  BY <1>1, <2>1, <2>2, <2>3, StepType DEF Signed
<1>9. CASE StoreRotated(c)
  <2>1. /\ call[c].old \in Sessions /\ call[c].new \in Sessions
        /\ token[call[c].old] \in Claim
    BY <1>1, <1>9 DEF StoreRotated, At, Shape
  <2> DEFINE claims == token[call[c].old]
             claim  == [user |-> claims.user, role |-> claims.role, org |-> claims.org]
  <2>2. /\ stored' = stored \cup {call[c].new}
        /\ token' = [token EXCEPT ![call[c].new] = claim]
        /\ call' = [call EXCEPT ![c] = Idle] /\ made' = made
        /\ UNCHANGED <<users, orgs, leaked, held, revoked, loggedOut, told, trouble, raced>>
    BY <1>9 DEF StoreRotated, HandOut, Store, SessionID, Reply, Go, tables, setUp
  <2>3. claim \in Claim /\ claim # NoClaim
    BY <2>1, AccountsAssumption DEF Claim, NoClaim
  <2> HIDE DEF claim
  <2>4. token' \in [Sessions -> Claim \cup {NoClaim}] /\ token'[call[c].new] # NoClaim
    BY <2>1, <2>2, <2>3
  <2>5. Keeps
    BY <2>1, <2>2, <2>3 DEF Keeps
  <2>6. \A s \in stored' : token'[s] # NoClaim
    BY <2>1, <2>2, <2>4, <2>5 DEF Keeps, Signed
  <2> QED  BY <1>1, <2>1, <2>2, <2>4, <2>5, <2>6, IdleShape, StepType
<1> QED  BY <1>2, <1>3, <1>4, <1>5, <1>6, <1>7, <1>8, <1>9 DEF SessionStep

LEMMA RoleTypes ==
    ASSUME TypeInv, NEW c \in Calls, RoleStep(c)
    PROVE  TypeInv'
<1> USE DEF TypeInv, TypeOK
<1>1. call[c] \in Call /\ Shape(call[c], orgs, token) /\ made <= MaxCalls
  BY AccountsAssumption
<1>2. ASSUME NEW s \in Sessions, NEW u \in Users, DeleteUser(c, s, u) PROVE TypeInv'
  <2> DEFINE r == [Idle EXCEPT !.step = "delete", !.whom = u, !.who = token[s].user, !.old = s]
  <2>1. token[s] # NoClaim /\ token[s].user \in Users
    BY <1>2 DEF DeleteUser, Authorized, ValidateToken, Signed, Claim
  <2>2. r \in Call /\ Shape(r, orgs, token)
    BY <2>1 DEF Idle, Call, Shape, SetUpSteps, OtherSteps, UserSteps
  <2>3. call' = [call EXCEPT ![c] = r] /\ made' = made + 1 /\ made < MaxCalls
    BY <1>2 DEF DeleteUser, Authorized, Begin, Idle
  <2> HIDE DEF r
  <2> QED  BY <1>2, <2>2, <2>3, CallOnly DEF DeleteUser
<1>3. ASSUME NEW s \in Sessions, NEW u \in Users, NEW role \in Roles, CreateUser(c, s, u, role)
      PROVE  TypeInv'
  BY <1>3, Begins DEF CreateUser, UserSteps, Changes
<1>4. ASSUME NEW s \in Sessions, NEW u \in Users, NEW what \in Changes, UpdateUser(c, s, u, what)
      PROVE  TypeInv'
  <2>1. "read" # "creator"
    OBVIOUS
  <2> HIDE DEF TypeInv
  <2> QED  BY <1>4, <2>1, Begins DEF UpdateUser
<1>5. ASSUME NEW s \in Sessions, UpdateMyProfile(c, s) PROVE TypeInv'
  <2>1. token[s].user \in Users
    BY <1>5 DEF UpdateMyProfile, UpdateUser, Authorized, ValidateToken, Signed, Claim
  <2> QED  BY <1>4, <1>5, <2>1 DEF UpdateMyProfile, Changes
<1>6. CASE CheckCreator(c)
  <2>1. [call[c] EXCEPT !.step = "insert"] \in Call /\ Shape([call[c] EXCEPT !.step = "insert"], orgs, token)
    BY <1>1, <1>6 DEF CheckCreator, At, Call, Shape, SetUpSteps, OtherSteps, UserSteps
  <2> QED  BY <1>6, <2>1, CallOnly DEF CheckCreator, To, Go
<1>7. CASE InsertUser(c)
  <2> DEFINE row == NewUser(call[c].what, token[call[c].old].org)
  <2>1. /\ call[c].whom \in Users /\ call[c].what \in Roles
        /\ token[call[c].old] \in Claim
    BY <1>1, <1>7 DEF InsertUser, At, Shape, UserSteps
  <2>2. row \in User /\ row.role \in Roles
    BY <2>1, NewUserType DEF Claim, User
  <2>3. /\ users' = [users EXCEPT ![call[c].whom] = row]
        /\ held' = [held EXCEPT ![call[c].whom] = @ \cup {row.role}]
        /\ call' = [call EXCEPT ![c] = Idle] /\ made' = made
        /\ UNCHANGED <<orgs, leaked, token, stored, revoked, loggedOut, told, trouble, raced>>
    BY <1>7 DEF InsertUser, Write, Reply, Go, sessions, setUp
  <2> HIDE DEF row
  <2>4. users' \in [Users -> User \cup {NoRow}] /\ held' \in [Users -> SUBSET Roles] /\ Keeps
    BY <2>1, <2>2, <2>3 DEF Keeps
  <2> QED  BY <1>1, <2>3, <2>4, IdleShape, StepType DEF Signed
<1>8. CASE ReadTarget(c)
  <2> DEFINE row == Applied(users[call[c].whom], call[c].what)
             r == [call[c] EXCEPT !.step = "update", !.copy = row]
  <2>1. /\ call[c].step = "read" /\ call[c].what \in Changes
        /\ users[call[c].whom] \in User
    BY <1>1, <1>8 DEF ReadTarget, At, Shape, UserSteps
  <2>2. row \in User
    BY <2>1 DEF Applied, User
  <2>3. r \in Call /\ Shape(r, orgs, token)
    BY <1>1, <2>1, <2>2 DEF Call, Shape, SetUpSteps, OtherSteps, UserSteps
  <2>4. call' = [call EXCEPT ![c] = r] /\ made' = made /\ UNCHANGED <<tables, sessions, setUp, held>>
    BY <1>8 DEF ReadTarget, Go
  <2> HIDE DEF r
  <2> QED  BY <2>3, <2>4, CallOnly
<1>9. CASE WriteUpdate(c)
  <2>1. call[c].whom \in Users /\ call[c].copy \in User
    BY <1>1, <1>9 DEF WriteUpdate, At, Shape, UserSteps
  <2>2. /\ users' = [users EXCEPT ![call[c].whom] = call[c].copy]
        /\ held' = [held EXCEPT ![call[c].whom] = @ \cup {call[c].copy.role}]
        /\ call' = [call EXCEPT ![c] = Idle] /\ made' = made
        /\ UNCHANGED <<orgs, leaked, token, stored, revoked, loggedOut, told, trouble, raced>>
    BY <1>9 DEF WriteUpdate, Write, Reply, Go, sessions, setUp
  <2>3. call[c].copy.role \in Roles
    BY <2>1 DEF User
  <2>4. users' \in [Users -> User \cup {NoRow}] /\ held' \in [Users -> SUBSET Roles] /\ Keeps
    BY <2>1, <2>2, <2>3 DEF Keeps
  <2> QED  BY <1>1, <2>2, <2>4, IdleShape, StepType DEF Signed
<1>10. CASE WriteDeletion(c)
  <2>1. call[c].whom \in Users /\ users[call[c].whom] \in User
    BY <1>1, <1>10 DEF WriteDeletion, At, Shape, UserSteps, Updatable
  <2>2. /\ users' = [users EXCEPT ![call[c].whom].life = "deleted"]
        /\ call' = [call EXCEPT ![c] = Idle] /\ made' = made
        /\ UNCHANGED <<held, orgs, leaked, token, stored, revoked, loggedOut, told, trouble, raced>>
    BY <1>10 DEF WriteDeletion, Reply, Go, sessions, setUp
  <2>3. [users[call[c].whom] EXCEPT !.life = "deleted"] \in User
    BY <2>1 DEF User
  <2>4. users' \in [Users -> User \cup {NoRow}] /\ Keeps
    BY <2>1, <2>2, <2>3 DEF Keeps
  <2> QED  BY <1>1, <2>2, <2>4, IdleShape, StepType DEF Signed
<1> QED  BY <1>2, <1>3, <1>4, <1>5, <1>6, <1>7, <1>8, <1>9, <1>10 DEF RoleStep

LEMMA TypeStep == TypeInv /\ [Next]_vars => TypeInv'
<1> SUFFICES ASSUME TypeInv, [Next]_vars PROVE TypeInv'
  OBVIOUS
<1>1. ASSUME NEW c \in Calls, Refuse(c) PROVE TypeInv'
  BY <1>1, Replies DEF Refuse
<1>2. ASSUME NEW s \in Sessions, RevokeToken(s) PROVE TypeInv'
  <2>1. /\ revoked' = revoked \cup {s} /\ made' = made + 1 /\ made < MaxCalls
        /\ UNCHANGED <<users, orgs, leaked, token, stored, loggedOut, told, trouble, raced, call, held>>
    BY <1>2 DEF RevokeToken, tables, setUp
  <2>2. made' \in 0..MaxCalls
    BY <2>1, AccountsAssumption DEF TypeInv, TypeOK
  <2> QED  BY <2>1, <2>2 DEF TypeInv, TypeOK, Signed
<1>3. CASE UNCHANGED vars
  BY <1>3 DEF vars, tables, sessions, setUp, TypeInv, TypeOK, Signed
<1> QED  BY <1>1, <1>2, <1>3, SetUpTypes, SessionTypes, RoleTypes DEF Next

\* Every variable stays in its type.
THEOREM UserTypes == Spec => []TypeOK
<1>1. Spec => []TypeInv
  BY TypeInit, TypeStep, PTL DEF Spec
<1> QED  BY <1>1, PTL DEF TypeInv

-----------------------------------------------------------------------------
(* Sessions                                                                *)

LEMMA SessionInit == Init => SessionInv
<1> SUFFICES ASSUME Init PROVE SessionInv
  OBVIOUS
<1>1. \A c \in Calls : call[c].new = Nobody
  BY DEF Init, Idle
<1>2. loggedOut = {}
  BY DEF Init
<1> QED  BY <1>1, <1>2 DEF SessionInv, LogoutIsFinal

\* A step that leaves the sessions alone, and begins none.
LEMMA SessionFrame ==
    ASSUME TypeInv, SessionInv, NEW c \in Calls, NEW r, call' = [call EXCEPT ![c] = r],
           r.new = Nobody \/ r.new = call[c].new, UNCHANGED sessions
    PROVE  SessionInv'
<1>1. UNCHANGED <<token, stored, loggedOut>>
  BY DEF sessions
<1>2. \A d \in Calls : call'[d].new = Nobody \/ call'[d].new = call[d].new
  BY DEF TypeInv, TypeOK
<1> QED  BY <1>1, <1>2 DEF SessionInv, LogoutIsFinal, Signed

LEMMA SetUpSessions ==
    ASSUME TypeInv, NEW c \in Calls, SetUpStep(c)
    PROVE  /\ UNCHANGED sessions
           /\ \E r : /\ call' = [call EXCEPT ![c] = r] /\ r.step \in SetUpSteps \cup {"idle"}
                     /\ r.new = Nobody \/ r.new = call[c].new
<1>1. call[c] \in Call
  BY DEF TypeInv, TypeOK
<1>2. UNCHANGED sessions
  BY DEF SetUpStep, SetupInitialOrganization, SaveOrganization, SaveFails, CreateUserSystem,
         CreateFails, FetchExisting, FetchFails, DeleteOrganization, DeleteFails, UpdateOwner,
         ActivateOrganization
<1>3. \/ \E e \in Users : Begin(c, [Idle EXCEPT !.step = "save", !.who = e])
      \/ \E o \in Orgs : Go(c, [call[c] EXCEPT !.step = "create", !.org = o])
      \/ \E step \in SetUpSteps : To(c, step)
      \/ Reply(c)
  BY DEF SetUpStep, SetupInitialOrganization, SaveOrganization, SaveFails, CreateUserSystem,
         CreateFails, FetchExisting, FetchFails, DeleteOrganization, DeleteFails, UpdateOwner,
         ActivateOrganization, WithExisting, SetUpSteps
<1>4. /\ Idle.new = Nobody /\ Idle.step = "idle"
      /\ \A e : LET r == [Idle EXCEPT !.step = "save", !.who = e]
               IN  r.new = Nobody /\ r.step \in SetUpSteps
  BY DEF Idle, SetUpSteps
<1>5. /\ \A o : LET r == [call[c] EXCEPT !.step = "create", !.org = o]
               IN  r.new = call[c].new /\ r.step \in SetUpSteps
      /\ \A step \in SetUpSteps : LET r == [call[c] EXCEPT !.step = step]
                                IN  r.new = call[c].new /\ r.step \in SetUpSteps
  BY <1>1 DEF Call, SetUpSteps
<1>6. CASE \E e \in Users : Begin(c, [Idle EXCEPT !.step = "save", !.who = e])
  BY <1>2, <1>4, <1>6 DEF Begin
<1>7. CASE \E o \in Orgs : Go(c, [call[c] EXCEPT !.step = "create", !.org = o])
  BY <1>2, <1>5, <1>7 DEF Go
<1>8. CASE \E step \in SetUpSteps : To(c, step)
  BY <1>2, <1>5, <1>8 DEF To, Go
<1>9. CASE Reply(c)
  BY <1>2, <1>4, <1>9 DEF Reply, Go
<1> QED  BY <1>3, <1>6, <1>7, <1>8, <1>9

LEMMA RoleSessions ==
    ASSUME TypeInv, NEW c \in Calls, RoleStep(c)
    PROVE  /\ UNCHANGED sessions
           /\ \E r : call' = [call EXCEPT ![c] = r] /\ (r.new = Nobody \/ r.new = call[c].new)
<1>1. call[c] \in Call
  BY DEF TypeInv, TypeOK
<1>2. UNCHANGED sessions
  BY DEF RoleStep, DeleteUser, CreateUser, UpdateUser, UpdateMyProfile, CheckCreator, InsertUser,
         ReadTarget, WriteUpdate, WriteDeletion
<1>3. \/ \E step, s, u, what :
            Authorized(c, s, [Idle EXCEPT !.step = step, !.whom = u, !.what = what])
      \/ \E s, u : Authorized(c, s, [Idle EXCEPT !.step = "delete", !.whom = u])
      \/ \E row : Go(c, [call[c] EXCEPT !.step = "update", !.copy = row])
      \/ To(c, "insert")
      \/ Reply(c)
  BY DEF RoleStep, DeleteUser, CreateUser, UpdateUser, UpdateMyProfile, CheckCreator, InsertUser,
         ReadTarget, WriteUpdate, WriteDeletion
<1>4. CASE \E step, s, u, what :
              Authorized(c, s, [Idle EXCEPT !.step = step, !.whom = u, !.what = what])
  <2>1. PICK step, s, u, what :
           Authorized(c, s, [Idle EXCEPT !.step = step, !.whom = u, !.what = what])
    BY <1>4
  <2>2. [[Idle EXCEPT !.step = step, !.whom = u, !.what = what]
            EXCEPT !.who = token[s].user, !.old = s].new = Nobody
    BY DEF Idle
  <2> QED  BY <1>2, <2>1, <2>2 DEF Authorized, Begin
<1>5. CASE \E s, u : Authorized(c, s, [Idle EXCEPT !.step = "delete", !.whom = u])
  <2>1. PICK s, u : Authorized(c, s, [Idle EXCEPT !.step = "delete", !.whom = u])
    BY <1>5
  <2>2. [[Idle EXCEPT !.step = "delete", !.whom = u]
            EXCEPT !.who = token[s].user, !.old = s].new = Nobody
    BY DEF Idle
  <2> QED  BY <1>2, <2>1, <2>2 DEF Authorized, Begin
<1>6. Idle.new = Nobody
  BY DEF Idle
<1>7. /\ \A row : [call[c] EXCEPT !.step = "update", !.copy = row].new = call[c].new
      /\ [call[c] EXCEPT !.step = "insert"].new = call[c].new
  BY <1>1 DEF Call
<1> QED  BY <1>2, <1>3, <1>4, <1>5, <1>6, <1>7 DEF Go, To, Reply

LEMMA SessionSessions ==
    ASSUME TypeInv, SessionInv, NEW c \in Calls, SessionStep(c)
    PROVE  SessionInv'
<1> USE DEF SessionInv, LogoutIsFinal, Signed
<1>1. /\ call[c] \in Call /\ Shape(call[c], orgs, token)
      /\ call \in [Calls -> Call] /\ token \in [Sessions -> Claim \cup {NoClaim}]
  BY DEF TypeInv, TypeOK
<1>2. ASSUME NEW u \in Users, NEW same \in BOOLEAN, LinkTelegram(c, u, same) PROVE SessionInv'
  BY <1>2, SessionFrame DEF LinkTelegram, Begin, Idle
<1>3. CASE WriteLink(c)
  <2>1. \A row : [call[c] EXCEPT !.step = "issue", !.copy = row].new = call[c].new
    BY <1>1 DEF Call
  <2> QED  BY <1>3, <2>1, SessionFrame DEF WriteLink, Go
<1>4. CASE IssueTokens(c)
  <2>1. PICK n \in Sessions :
           /\ token[n] = NoClaim /\ (\A d \in Calls : call[d].new # n)
           /\ stored' = stored \cup {n}
           /\ token' = [token EXCEPT ![n] = [user |-> call[c].who, role |-> call[c].copy.role,
                                             org |-> call[c].copy.org]]
    BY <1>4 DEF IssueTokens, HandOut, Store, Fresh
  <2>2. call' = [call EXCEPT ![c] = Idle] /\ UNCHANGED loggedOut
    BY <1>4 DEF IssueTokens, Reply, Go
  <2>3. \A d \in Calls : call'[d].new = Nobody \/ (d # c /\ call'[d].new = call[d].new)
    BY <1>1, <2>2 DEF Idle
  <2>4. /\ \A s \in Sessions : s # n => token'[s] = token[s]
        /\ n \notin loggedOut /\ \A s \in loggedOut : token'[s] # NoClaim
    BY <1>1, <2>1, <2>2 DEF TypeInv, TypeOK
  <2>5. \A d \in Calls : call[d].new # Nobody => call[d].new \in Sessions
    BY <1>1 DEF Call
  <2> QED  BY <2>1, <2>2, <2>3, <2>4, <2>5
<1>5. ASSUME NEW s \in Sessions, Logout(c, s) PROVE SessionInv'
  BY <1>5, SessionFrame DEF Logout, Authorized, Begin, Idle
<1>6. CASE RevokeSession(c)
  <2>1. call[c].old \in Sessions /\ token[call[c].old] # NoClaim
    BY <1>1, <1>6 DEF RevokeSession, At, Shape
  <2>2. /\ stored' = stored \ {call[c].old} /\ loggedOut' = loggedOut \cup {call[c].old}
        /\ call' = [call EXCEPT ![c] = Idle] /\ UNCHANGED token
    BY <1>6 DEF RevokeSession, Revoke, Reply, Go
  <2>3. \A d \in Calls : call'[d].new = Nobody \/ call'[d].new = call[d].new
    BY <1>1, <2>2 DEF Idle
  <2> QED  BY <2>1, <2>2, <2>3
<1>7. ASSUME NEW s \in Sessions, RefreshAccessToken(c, s) PROVE SessionInv'
  <2>1. PICK n \in Fresh : Begin(c, [Idle EXCEPT !.step = "rotate", !.old = s, !.new = n])
    BY <1>7 DEF RefreshAccessToken
  <2>2. token[n] = NoClaim /\ \A d \in Calls : call[d].new # n
    BY <2>1 DEF Fresh
  <2>3. \A d \in Calls : call'[d].new = IF d = c THEN n ELSE call[d].new
    BY <1>1, <2>1 DEF Begin, Idle
  <2> QED  BY <1>7, <2>2, <2>3 DEF RefreshAccessToken, sessions
<1>8. CASE Rotate(c)
  <2>1. [call[c] EXCEPT !.step = "store"].new = call[c].new
    BY <1>1 DEF Call
  <2>2. \A d \in Calls : call'[d].new = call[d].new
    BY <1>1, <1>8, <2>1 DEF Rotate, To, Go
  <2> QED  BY <1>8, <2>2 DEF Rotate, Revoke
<1>9. CASE StoreRotated(c)
  <2> DEFINE n == call[c].new
  <2>1. n \in Sessions /\ call[c].step = "store"
    BY <1>1, <1>9 DEF StoreRotated, At, Shape
  <2>2. token[n] = NoClaim /\ n # Nobody /\ \A d \in Calls : d # c => call[d].new # n
    BY <2>1, AccountsAssumption
  <2>3. /\ stored' = stored \cup {n} /\ call' = [call EXCEPT ![c] = Idle] /\ UNCHANGED loggedOut
        /\ \A s \in Sessions : s # n => token'[s] = token[s]
    BY <1>1, <1>9 DEF StoreRotated, HandOut, Store, SessionID, Reply, Go
  <2>4. \A d \in Calls : call'[d].new = Nobody \/ (d # c /\ call'[d].new = call[d].new)
    BY <1>1, <2>3 DEF Idle
  <2>5. n \notin loggedOut /\ \A s \in loggedOut : token'[s] # NoClaim
    BY <2>2, <2>3 DEF TypeInv, TypeOK
  <2>6. \A d \in Calls : call[d].new # Nobody => call[d].new \in Sessions
    BY <1>1 DEF Call
  <2> QED  BY <2>2, <2>3, <2>4, <2>5, <2>6
<1> QED  BY <1>2, <1>3, <1>4, <1>5, <1>6, <1>7, <1>8, <1>9 DEF SessionStep

LEMMA SessionStepInv == TypeInv /\ SessionInv /\ [Next]_vars => SessionInv'
<1> SUFFICES ASSUME TypeInv, SessionInv, [Next]_vars PROVE SessionInv'
  OBVIOUS
<1>1. ASSUME NEW c \in Calls, SetUpStep(c) \/ RoleStep(c) PROVE SessionInv'
  BY <1>1, SetUpSessions, RoleSessions, SessionFrame
<1>2. ASSUME NEW c \in Calls, Refuse(c) PROVE SessionInv'
  BY <1>2, SessionFrame DEF Refuse, Reply, Go, Idle
<1>3. ASSUME NEW s \in Sessions, RevokeToken(s) PROVE SessionInv'
  BY <1>3 DEF RevokeToken, SessionInv, LogoutIsFinal, Signed
<1>4. CASE UNCHANGED vars
  BY <1>4 DEF vars, sessions, SessionInv, LogoutIsFinal, Signed
<1> QED  BY <1>1, <1>2, <1>3, <1>4, SessionSessions DEF Next

\* A session that has been logged out stays so, whatever refreshes run beside Logout.
THEOREM LogoutStays == Spec => []LogoutIsFinal
<1>1. TypeInv /\ SessionInv /\ [Next]_vars => (TypeInv /\ SessionInv)'
  BY TypeStep, SessionStepInv
<1>2. Spec => [](TypeInv /\ SessionInv)
  BY <1>1, TypeInit, SessionInit, PTL DEF Spec
<1> QED  BY <1>2, PTL DEF SessionInv

-----------------------------------------------------------------------------
(* Users and their roles                                                   *)

\* Rows never vanish, nobody changes the organisation or becomes or ceases to be
\* an OWNER.
Grows ==
    \A u \in Users :
        /\ held[u] \subseteq held'[u]
        /\ users[u] # NoRow =>
              /\ users'[u] # NoRow /\ users'[u].org = users[u].org
              /\ IsOwner(users'[u]) <=> IsOwner(users[u])

LEMMA RowInit == Init => RowInv /\ CopyInv
<1> SUFFICES ASSUME Init PROVE RowInv /\ CopyInv
  OBVIOUS
<1>1. ASSUME Empty PROVE RowInv
  <2>1. \A u \in Users : users[u] = NoRow /\ held[u] = {}
    BY <1>1 DEF Empty
  <2> QED  BY <2>1 DEF RowInv
<1>2. ASSUME Established PROVE RowInv
  <2> USE StaffAssumption
  <2>1. PICK linked \in [Users -> BOOLEAN] :
           /\ users = [u \in Users |->
                 IF u \in Staff THEN [NewUser(RoleOf(u), Home) EXCEPT !.linked = linked[u]]
                 ELSE NoRow]
           /\ held = [u \in Users |-> IF u \in Staff THEN {RoleOf(u)} ELSE {}]
    <3>1. PICK login \in [Sessions -> Staff \cup {Nobody}] :
             LET In == {s \in Sessions : login[s] # Nobody}
             IN  /\ users = [u \in Users |->
                       IF u \in Staff
                       THEN [NewUser(RoleOf(u), Home) EXCEPT !.linked = \E s \in In : login[s] = u]
                       ELSE NoRow]
                 /\ held = [u \in Users |-> IF u \in Staff THEN {RoleOf(u)} ELSE {}]
      BY <1>2 DEF Established
    <3> DEFINE In == {s \in Sessions : login[s] # Nobody}
               l == [u \in Users |-> \E s \in In : login[s] = u]
    <3>2. l \in [Users -> BOOLEAN] /\ \A u \in Users : l[u] = (\E s \in In : login[s] = u)
      OBVIOUS
    <3> HIDE DEF In
    <3>3. users = [u \in Users |->
                 IF u \in Staff THEN [NewUser(RoleOf(u), Home) EXCEPT !.linked = l[u]] ELSE NoRow]
      BY <3>1, <3>2 DEF In
    <3> HIDE DEF l
    <3> QED  BY <3>1, <3>2, <3>3
  <2>2. ASSUME NEW u \in Staff
        PROVE  /\ users[u] # NoRow /\ users[u].role = RoleOf(u) /\ Untouched(users[u])
               /\ held[u] = {RoleOf(u)}
    BY <2>1 DEF NewUser, Untouched, Live, NoRow
  <2>3. \A u \in Users \ Staff : users[u] = NoRow /\ held[u] = {}
    BY <2>1
  <2> QED  BY <2>2, <2>3 DEF RowInv, IsOwner
<1>3. CopyInv
  BY DEF Init, CopyInv, CopyOK, Idle
<1> QED  BY <1>1, <1>2, <1>3 DEF Init

LEMMA CopyFrame ==
    ASSUME TypeInv, CopyInv, Grows, NEW c \in Calls, NEW r, call' = [call EXCEPT ![c] = r],
           CopyOK(r, users', held')
    PROVE  CopyInv'
<1>1. ASSUME NEW d \in Calls, d # c PROVE CopyOK(call'[d], users', held')
  <2>1. call'[d] = call[d] /\ CopyOK(call[d], users, held) /\ Shape(call[d], orgs, token)
    BY <1>1 DEF TypeInv, TypeOK, CopyInv
  <2>2. /\ call[d].step \in {"link", "issue", "update"} => Target(call[d]) \in Users
        /\ call[d].step \in {"update", "insert"} => call[d].who \in Users
    BY <2>1 DEF Shape, Target, UserSteps
  <2> QED  BY <2>1, <2>2 DEF CopyOK, Grows
<1>2. call'[c] = r
  BY DEF TypeInv, TypeOK
<1> QED  BY <1>1, <1>2 DEF CopyInv

\* A step after which the call has neither a copy nor a role to write.
LEMMA Plain ==
    ASSUME TypeInv, RowInv, CopyInv, NEW c \in Calls, NEW r, call' = [call EXCEPT ![c] = r],
           r.step \notin {"link", "issue", "update", "insert"}, UNCHANGED <<users, held>>
    PROVE  RowInv' /\ CopyInv' /\ Grows
<1>1. Grows /\ RowInv'
  BY DEF Grows, RowInv, IsOwner
<1>2. CopyOK(r, users', held')
  BY DEF CopyOK
<1> QED  BY <1>1, <1>2, CopyFrame

LEMMA Rewrites ==
    ASSUME TypeInv, RowInv, NEW u \in Users, users[u] # NoRow, NEW row \in User, Write(u, row),
           row.org = users[u].org, IsOwner(row) <=> IsOwner(users[u]),
           IsOwner(row) => Untouched(row)
    PROVE  RowInv' /\ Grows
<1>1. /\ users' = [users EXCEPT ![u] = row] /\ held' = [held EXCEPT ![u] = @ \cup {row.role}]
      /\ users \in [Users -> User \cup {NoRow}] /\ held \in [Users -> SUBSET Roles]
      /\ row # NoRow
  BY DEF Write, TypeInv, TypeOK, User, NoRow
<1>2. Grows
  BY <1>1 DEF Grows, IsOwner
<1>3. ASSUME NEW v \in Users PROVE /\ users'[v] = IF v = u THEN row ELSE users[v]
                                   /\ held'[v] = IF v = u THEN held[u] \cup {row.role} ELSE held[v]
  BY <1>1
<1>4. /\ row.role \in held[u] \cup {row.role}
      /\ IsOwner(row) => held[u] \cup {row.role} = {"OWNER"}
      /\ ~IsOwner(row) => "OWNER" \notin held[u] \cup {row.role}
  BY <1>1 DEF RowInv, IsOwner
<1> QED  BY <1>1, <1>2, <1>3, <1>4 DEF RowInv

LEMMA Inserts ==
    ASSUME TypeInv, RowInv, NEW u \in Users, users[u] = NoRow, NEW row \in User, Write(u, row),
           IsOwner(row) => Untouched(row)
    PROVE  RowInv' /\ Grows
<1>1. /\ users' = [users EXCEPT ![u] = row] /\ held' = [held EXCEPT ![u] = @ \cup {row.role}]
      /\ users \in [Users -> User \cup {NoRow}] /\ held \in [Users -> SUBSET Roles]
      /\ row # NoRow
  BY DEF Write, TypeInv, TypeOK, User, NoRow
<1>2. Grows
  BY <1>1 DEF Grows, IsOwner
<1>3. ASSUME NEW v \in Users PROVE /\ users'[v] = IF v = u THEN row ELSE users[v]
                                   /\ held'[v] = IF v = u THEN {row.role} ELSE held[v]
  BY <1>1 DEF RowInv
<1> QED  BY <1>1, <1>2, <1>3 DEF RowInv, IsOwner

LEMMA RowStep ==
    ASSUME TypeInv, RowInv, CopyInv, [Next]_vars
    PROVE  RowInv' /\ CopyInv' /\ Grows
<1> DEFINE Aim == RowInv' /\ CopyInv' /\ Grows
<1>1. ASSUME NEW c \in Calls
      PROVE  /\ call[c] \in Call /\ Shape(call[c], orgs, token) /\ CopyOK(call[c], users, held)
             /\ \A r : (call' = [call EXCEPT ![c] = r]) => call'[c] = r
  BY DEF TypeInv, TypeOK, CopyInv
<1>2. users \in [Users -> User \cup {NoRow}] /\ held \in [Users -> SUBSET Roles]
  BY DEF TypeInv, TypeOK
<1>3. ASSUME NEW c \in Calls, SetUpStep(c) PROVE Aim
  <2>1. CASE CreateUserSystem(c) /\ users[call[c].who] = NoRow
    <3>1. /\ Write(call[c].who, NewUser("OWNER", call[c].org))
          /\ To(c, "owner") \/ To(c, "cleanup")
          /\ call[c].who \in Users /\ call[c].org \in Orgs
      BY <1>1, <2>1 DEF CreateUserSystem, At, Shape, SetUpSteps
    <3>2. RowInv' /\ Grows
      BY <2>1, <3>1, Inserts, NewUserType DEF Roles, NewUser, Untouched, Live
    <3>3. \A step \in {"owner", "cleanup"} : CopyOK([call[c] EXCEPT !.step = step], users', held')
      BY <1>1 DEF CopyOK, Call
    <3> QED  BY <3>1, <3>2, <3>3, CopyFrame DEF To, Go
  <2>2. CASE ~(CreateUserSystem(c) /\ users[call[c].who] = NoRow)
    <3>1. UNCHANGED <<users, held>>
      BY <1>3, <2>2 DEF SetUpStep, SetupInitialOrganization, SaveOrganization, SaveFails,
         CreateUserSystem, CreateFails, FetchExisting, FetchFails, DeleteOrganization, DeleteFails,
         UpdateOwner, ActivateOrganization, tables
    <3>2. PICK r : call' = [call EXCEPT ![c] = r] /\ r.step \in SetUpSteps \cup {"idle"}
      BY <1>3, SetUpSessions
    <3> QED  BY <3>1, <3>2, Plain DEF SetUpSteps
  <2> QED  BY <2>1, <2>2
<1>4. ASSUME NEW c \in Calls, SessionStep(c) PROVE Aim
  <2>1. ASSUME NEW u \in Users, NEW same \in BOOLEAN, LinkTelegram(c, u, same) PROVE Aim
    <3> DEFINE r == [Idle EXCEPT !.step = IF users[u].linked THEN "issue" ELSE "link",
                                 !.who = u, !.copy = users[u]]
    <3>1. /\ call' = [call EXCEPT ![c] = r] /\ UNCHANGED <<users, held>>
          /\ users[u] # NoRow /\ Live(users[u])
      BY <2>1 DEF LinkTelegram, Begin, tables
    <3>2. r.who = u /\ r.copy = users[u] /\ r.step \in {"issue", "link"}
      BY DEF Idle
    <3> HIDE DEF r
    <3>3. Grows /\ RowInv'
      BY <3>1 DEF Grows, RowInv, IsOwner
    <3>4. CopyOK(r, users', held')
      BY <3>1, <3>2 DEF CopyOK, RowInv, Target, IsOwner
    <3> QED  BY <3>1, <3>3, <3>4, CopyFrame
  <2>2. CASE WriteLink(c)
    <3> DEFINE u == call[c].who
               row == [call[c].copy EXCEPT !.linked = TRUE]
               r == [call[c] EXCEPT !.step = "issue", !.copy = row]
    <3>1. /\ call[c].step = "link" /\ u \in Users /\ call[c].copy \in User /\ users[u] # NoRow
          /\ Write(u, row) /\ call' = [call EXCEPT ![c] = r]
      BY <1>1, <2>2 DEF WriteLink, At, Shape, Updatable, Go
    <3>2. /\ row \in User /\ row.org = call[c].copy.org /\ row.role = call[c].copy.role
          /\ row.life = call[c].copy.life /\ row.status = call[c].copy.status
      BY <3>1 DEF User
    <3>3. r.step = "issue" /\ r.copy = row /\ r.who = u
      BY <1>1 DEF Call
    <3>4. /\ call[c].copy.org = users[u].org /\ (IsOwner(call[c].copy) <=> IsOwner(users[u]))
          /\ IsOwner(call[c].copy) => Untouched(call[c].copy)
      BY <1>1, <3>1 DEF CopyOK, Target
    <3> HIDE DEF r, row, u
    <3>5. /\ row.org = users[u].org /\ (IsOwner(row) <=> IsOwner(users[u]))
          /\ IsOwner(row) => Untouched(row)
      BY <3>2, <3>4 DEF IsOwner, Untouched, Live
    <3>6. RowInv' /\ Grows
      BY <3>1, <3>2, <3>5, Rewrites
    <3>7. CopyOK(r, users', held')
      BY <3>1, <3>3, <3>5, <3>6 DEF CopyOK, Target, Grows
    <3> QED  BY <3>1, <3>6, <3>7, CopyFrame
  <2>3. CASE \/ IssueTokens(c) \/ RevokeSession(c) \/ Rotate(c) \/ StoreRotated(c)
             \/ \E s \in Sessions : Logout(c, s) \/ RefreshAccessToken(c, s)
    <3>1. UNCHANGED <<users, held>>
      BY <2>3 DEF IssueTokens, RevokeSession, Rotate, StoreRotated, Logout, RefreshAccessToken, tables
    <3>2. \/ Reply(c)
          \/ To(c, "store")
          \/ \E s : Authorized(c, s, [Idle EXCEPT !.step = "logout"])
          \/ \E s, n : Begin(c, [Idle EXCEPT !.step = "rotate", !.old = s, !.new = n])
      BY <2>3 DEF IssueTokens, RevokeSession, Rotate, StoreRotated, Logout, RefreshAccessToken
    <3>3. [call[c] EXCEPT !.step = "store"].step = "store"
      BY <1>1 DEF Call
    <3>4. PICK r : call' = [call EXCEPT ![c] = r] /\ r.step \in {"idle", "store", "logout", "rotate"}
      <4>1. CASE Reply(c) \/ To(c, "store")
        BY <3>3, <4>1 DEF Reply, To, Go, Idle
      <4>2. CASE \E s : Authorized(c, s, [Idle EXCEPT !.step = "logout"])
        <5>1. PICK s : Authorized(c, s, [Idle EXCEPT !.step = "logout"])
          BY <4>2
        <5>2. [[Idle EXCEPT !.step = "logout"] EXCEPT !.who = token[s].user, !.old = s].step = "logout"
          BY DEF Idle
        <5> QED  BY <5>1, <5>2 DEF Authorized, Begin
      <4>3. CASE \E s, n : Begin(c, [Idle EXCEPT !.step = "rotate", !.old = s, !.new = n])
        <5>1. PICK s, n : Begin(c, [Idle EXCEPT !.step = "rotate", !.old = s, !.new = n])
          BY <4>3
        <5>2. [Idle EXCEPT !.step = "rotate", !.old = s, !.new = n].step = "rotate"
          BY DEF Idle
        <5> QED  BY <5>1, <5>2 DEF Begin
      <4> QED  BY <3>2, <4>1, <4>2, <4>3
    <3> QED  BY <3>1, <3>4, Plain
  <2> QED  BY <1>4, <2>1, <2>2, <2>3 DEF SessionStep
<1>5. ASSUME NEW c \in Calls, RoleStep(c) PROVE Aim
  <2>1. CASE \E s \in Sessions, u \in Users :
                \/ DeleteUser(c, s, u)
                \/ \E role \in Roles : CreateUser(c, s, u, role)
                \/ \E what : UpdateUser(c, s, u, what)
    <3>1. UNCHANGED <<users, held>>
      BY <2>1 DEF DeleteUser, CreateUser, UpdateUser, tables
    <3>2. \/ \E s, u : Authorized(c, s, [Idle EXCEPT !.step = "delete", !.whom = u])
          \/ \E s, u, what, step : /\ step \in {"creator", "read"}
                                  /\ Authorized(c, s, [Idle EXCEPT !.step = step, !.whom = u, !.what = what])
      BY <2>1 DEF DeleteUser, CreateUser, UpdateUser
    <3>3. PICK r : call' = [call EXCEPT ![c] = r] /\ r.step \in {"delete", "creator", "read"}
      <4>1. CASE \E s, u : Authorized(c, s, [Idle EXCEPT !.step = "delete", !.whom = u])
        <5>1. PICK s, u : Authorized(c, s, [Idle EXCEPT !.step = "delete", !.whom = u])
          BY <4>1
        <5>2. [[Idle EXCEPT !.step = "delete", !.whom = u]
                  EXCEPT !.who = token[s].user, !.old = s].step = "delete"
          BY DEF Idle
        <5> QED  BY <5>1, <5>2 DEF Authorized, Begin
      <4>2. ASSUME NEW s, NEW u, NEW what, NEW step \in {"creator", "read"},
                   Authorized(c, s, [Idle EXCEPT !.step = step, !.whom = u, !.what = what])
            PROVE  \E r : call' = [call EXCEPT ![c] = r] /\ r.step \in {"delete", "creator", "read"}
        <5>1. [[Idle EXCEPT !.step = step, !.whom = u, !.what = what]
                  EXCEPT !.who = token[s].user, !.old = s].step = step
          BY DEF Idle
        <5> QED  BY <4>2, <5>1 DEF Authorized, Begin
      <4> QED  BY <3>2, <4>1, <4>2
    <3> QED  BY <3>1, <3>3, Plain
  <2>2. ASSUME NEW s \in Sessions, UpdateMyProfile(c, s) PROVE Aim
    <3>1. token[s].user \in Users
      BY <2>2 DEF UpdateMyProfile, UpdateUser, Authorized, ValidateToken, Signed, Claim, TypeInv, TypeOK
    <3> QED  BY <2>1, <2>2, <3>1 DEF UpdateMyProfile
  <2>3. CASE CheckCreator(c)
    <3> DEFINE r == [call[c] EXCEPT !.step = "insert"]
    <3>1. /\ call[c].who \in Users /\ UNCHANGED <<users, held>> /\ call' = [call EXCEPT ![c] = r]
          /\ users[call[c].who] # NoRow /\ call[c].what \in MayCreate(users[call[c].who].role)
      BY <1>1, <2>3 DEF CheckCreator, At, Shape, UserSteps, To, Go, tables
    <3>2. r.step = "insert" /\ r.who = call[c].who /\ r.what = call[c].what
      BY <1>1 DEF Call
    <3> HIDE DEF r
    <3>3. users[call[c].who].role \in held[call[c].who]
      BY <3>1 DEF RowInv
    <3>4. CopyOK(r, users', held')
      BY <3>1, <3>2, <3>3 DEF CopyOK, MayCreate
    <3>5. Grows /\ RowInv'
      BY <3>1 DEF Grows, RowInv, IsOwner
    <3> QED  BY <3>1, <3>4, <3>5, CopyFrame
  <2>4. CASE InsertUser(c)
    <3> DEFINE u == call[c].whom
               row == NewUser(call[c].what, token[call[c].old].org)
    <3>1. /\ u \in Users /\ users[u] = NoRow /\ row \in User /\ Write(u, row)
          /\ call' = [call EXCEPT ![c] = Idle]
      <4>1. /\ call[c].what \in Roles /\ token[call[c].old] \in Claim
            /\ u \in Users /\ users[u] = NoRow /\ Write(u, row) /\ call' = [call EXCEPT ![c] = Idle]
        BY <1>1, <2>4 DEF InsertUser, At, Shape, UserSteps, Reply, Go, TypeInv, TypeOK
      <4> QED  BY <4>1, NewUserType DEF Claim
    <3>2. Untouched(row)
      BY DEF NewUser, Untouched, Live
    <3> HIDE DEF u, row
    <3>3. RowInv' /\ Grows
      BY <3>1, <3>2, Inserts
    <3>4. CopyOK(Idle, users', held')
      BY DEF CopyOK, Idle
    <3> QED  BY <3>1, <3>3, <3>4, CopyFrame
  <2>5. CASE ReadTarget(c)
    <3> DEFINE u == users[call[c].whom]
               row == Applied(u, call[c].what)
               r == [call[c] EXCEPT !.step = "update", !.copy = row]
    <3>1. /\ call[c].who \in Users /\ call[c].whom \in Users /\ call[c].what \in Changes
          /\ u \in User /\ Live(u) /\ ~Refused(u, call[c].what) /\ MayUpdate(c) /\ u # NoRow
          /\ UNCHANGED <<users, held>> /\ call' = [call EXCEPT ![c] = r]
      BY <1>1, <1>2, <2>5 DEF ReadTarget, At, Shape, UserSteps, Go, tables
    <3>2. r.step = "update" /\ r.copy = row /\ r.who = call[c].who /\ r.whom = call[c].whom
      BY <1>1 DEF Call
    <3>3. u.role \in held[call[c].whom] /\ (IsOwner(u) => Untouched(u))
      BY <3>1 DEF RowInv
    <3>4. /\ row.org = u.org /\ Live(row) /\ (IsOwner(row) <=> IsOwner(u))
          /\ IsOwner(row) => Untouched(row)
      BY <3>1, <3>3 DEF Applied, Refused, Changes, Roles, Statuses, IsOwner, Untouched, Live, User
    <3>5. row.role = u.role \/ held[call[c].who] \cap {"OWNER", "MANAGER"} # {}
      <4>1. CASE call[c].what \in Roles
        <5>1. PICK role \in held[call[c].who] : role # "EMPLOYEE"
          BY <3>1, <4>1 DEF MayUpdate, SeenRoles, CanUpdateUser
        <5>2. role \in Roles
          BY <1>2, <3>1, <5>1
        <5> QED  BY <5>1, <5>2 DEF Roles
      <4>2. CASE call[c].what \notin Roles
        BY <3>1, <4>2 DEF Applied, User
      <4> QED  BY <4>1, <4>2
    <3> HIDE DEF r, row
    <3>6. CopyOK(r, users', held')
      BY <3>1, <3>2, <3>3, <3>4, <3>5 DEF CopyOK, Target
    <3>7. Grows /\ RowInv'
      BY <3>1 DEF Grows, RowInv, IsOwner
    <3> QED  BY <3>1, <3>6, <3>7, CopyFrame
  <2>6. CASE WriteUpdate(c)
    <3> DEFINE u == call[c].whom
               row == call[c].copy
    <3>1. /\ call[c].step = "update" /\ u \in Users /\ row \in User /\ users[u] # NoRow
          /\ Write(u, row) /\ call' = [call EXCEPT ![c] = Idle]
      BY <1>1, <2>6 DEF WriteUpdate, At, Shape, UserSteps, Updatable, Reply, Go
    <3>2. /\ row.org = users[u].org /\ (IsOwner(row) <=> IsOwner(users[u]))
          /\ IsOwner(row) => Untouched(row)
      BY <1>1, <3>1 DEF CopyOK, Target
    <3> HIDE DEF u, row
    <3>3. RowInv' /\ Grows
      BY <3>1, <3>2, Rewrites
    <3>4. CopyOK(Idle, users', held')
      BY DEF CopyOK, Idle
    <3> QED  BY <3>1, <3>3, <3>4, CopyFrame
  <2>7. CASE WriteDeletion(c)
    <3> DEFINE u == call[c].whom
    <3>1. /\ u \in Users /\ users[u] # NoRow /\ users[u] \in User /\ MayDelete(c)
          /\ users' = [users EXCEPT ![u].life = "deleted"] /\ held' = held
          /\ call' = [call EXCEPT ![c] = Idle]
      BY <1>1, <1>2, <2>7 DEF WriteDeletion, At, Shape, UserSteps, Updatable, Reply, Go
    <3>2. ~IsOwner(users[u])
      BY <3>1 DEF MayDelete, SeenRoles, CanDeleteUser, RowInv
    <3> DEFINE row == [users[u] EXCEPT !.life = "deleted"]
    <3>3. row \in User /\ row.org = users[u].org /\ row.role = users[u].role /\ row # NoRow
      BY <3>1 DEF User, NoRow
    <3>4. \A v \in Users : users'[v] = IF v = u THEN row ELSE users[v]
      BY <1>2, <3>1
    <3> HIDE DEF u, row
    <3>5. RowInv' /\ Grows
      BY <3>1, <3>2, <3>3, <3>4 DEF RowInv, Grows, IsOwner
    <3>6. CopyOK(Idle, users', held')
      BY DEF CopyOK, Idle
    <3> QED  BY <3>1, <3>5, <3>6, CopyFrame
  <2> QED  BY <1>5, <2>1, <2>2, <2>3, <2>4, <2>5, <2>6, <2>7 DEF RoleStep
<1>6. ASSUME NEW c \in Calls, Refuse(c) PROVE Aim
  BY <1>6, Plain DEF Refuse, Reply, Go, Idle, tables
<1>7. CASE UNCHANGED vars \/ \E s \in Sessions : RevokeToken(s)
  <2>1. UNCHANGED <<users, held, call>>
    BY <1>7 DEF vars, RevokeToken, tables
  <2> QED  BY <2>1 DEF RowInv, CopyInv, Grows, IsOwner
<1> QED  BY <1>3, <1>4, <1>5, <1>6, <1>7 DEF Next

RolesInv == TypeInv /\ RowInv /\ CopyInv

LEMMA RolesInvariant == Spec => []RolesInv
<1>1. RolesInv /\ [Next]_vars => RolesInv'
  BY TypeStep, RowStep DEF RolesInv
<1> QED  BY <1>1, TypeInit, RowInit, PTL DEF Spec, RolesInv

\* Who has set up an organisation stays its OWNER, active and undeleted.
THEOREM OwnersRemain == Spec => OwnersStay
<1>1. ASSUME RolesInv, [Next]_vars
      PROVE  \A u \in Users : users[u] # NoRow /\ users[u].role = "OWNER" =>
                users'[u].role = "OWNER" /\ users'[u].status = "ACTIVE" /\ Live(users'[u])
  BY <1>1, RowStep DEF RolesInv, RowInv, Grows, IsOwner, Untouched
<1> QED  BY <1>1, RolesInvariant, PTL DEF Spec, OwnersStay

\* Only five actions write a user's row.
LEMMA Writers ==
    ASSUME [Next]_vars
    PROVE  \/ UNCHANGED <<users, held>>
           \/ \E c \in Calls : \/ CreateUserSystem(c) \/ WriteLink(c) \/ InsertUser(c)
                               \/ WriteUpdate(c) \/ WriteDeletion(c)
<1>1. ASSUME NEW c \in Calls, SetUpStep(c) PROVE CreateUserSystem(c) \/ UNCHANGED <<users, held>>
  BY <1>1 DEF SetUpStep, SetupInitialOrganization, SaveOrganization, SaveFails, CreateFails,
     FetchExisting, FetchFails, DeleteOrganization, DeleteFails, UpdateOwner,
     ActivateOrganization, tables
<1>2. ASSUME NEW c \in Calls, SessionStep(c) PROVE WriteLink(c) \/ UNCHANGED <<users, held>>
  BY <1>2 DEF SessionStep, LinkTelegram, IssueTokens, RevokeSession, Rotate, StoreRotated, Logout,
     RefreshAccessToken, tables
<1>3. ASSUME NEW c \in Calls, RoleStep(c)
      PROVE  InsertUser(c) \/ WriteUpdate(c) \/ WriteDeletion(c) \/ UNCHANGED <<users, held>>
  BY <1>3 DEF RoleStep, DeleteUser, CreateUser, UpdateUser, UpdateMyProfile, CheckCreator,
     ReadTarget, tables
<1>4. CASE UNCHANGED vars \/ (\E c \in Calls : Refuse(c)) \/ \E s \in Sessions : RevokeToken(s)
  BY <1>4 DEF vars, Refuse, RevokeToken, tables
<1> QED  BY <1>1, <1>2, <1>3, <1>4 DEF Next

\* Whatever overlaps, a call of somebody who has only ever been an EMPLOYEE gives
\* no role, makes no MANAGER and deletes nobody.
THEOREM NothingFromEmployees == Spec => EmployeesGrantNothing
<1> DEFINE Granted ==
       \A u \in Users :
          /\ held'[u] # held[u] =>
                \E c \in Calls : At(c, "create") \/ Acts(c, {"OWNER", "MANAGER"})
          /\ users[u] = NoRow /\ users'[u] # NoRow /\ users'[u].role # "EMPLOYEE" =>
                \E c \in Calls : At(c, "create") \/ Acts(c, {"OWNER"})
          /\ users[u] # NoRow /\ Live(users[u]) /\ ~Live(users'[u]) =>
                \E c \in Calls : Acts(c, {"OWNER"})
<1>1. ASSUME RolesInv, [Next]_vars PROVE Granted
  <2>1. /\ users \in [Users -> User \cup {NoRow}] /\ held \in [Users -> SUBSET Roles]
        /\ \A c \in Calls : call[c] \in Call /\ Shape(call[c], orgs, token) /\ CopyOK(call[c], users, held)
        /\ call \in [Calls -> Call]
    BY <1>1 DEF RolesInv, TypeInv, TypeOK, CopyInv
  <2>2. ASSUME NEW c \in Calls, call[c].step # "idle", Reply(c) PROVE call'[c] # call[c]
    BY <2>1, <2>2 DEF Reply, Go, Idle
  <2>3. CASE UNCHANGED <<users, held>>
    BY <2>3
  <2>4. ASSUME NEW c \in Calls, CreateUserSystem(c) PROVE Granted
    <3>1. /\ At(c, "create") /\ call[c].who \in Users
          /\ \/ UNCHANGED <<users, held>>
             \/ users[call[c].who] = NoRow /\ users' = [users EXCEPT ![call[c].who] = NewUser("OWNER", call[c].org)]
      BY <2>1, <2>4 DEF CreateUserSystem, At, Shape, SetUpSteps, Write
    <3> QED  BY <2>1, <3>1
  <2>5. ASSUME NEW c \in Calls, WriteLink(c) PROVE Granted
    <3> DEFINE row == [call[c].copy EXCEPT !.linked = TRUE]
    <3>1. /\ call[c].step = "link" /\ call[c].who \in Users /\ call[c].copy \in User
          /\ users[call[c].who] # NoRow
          /\ users' = [users EXCEPT ![call[c].who] = row]
          /\ held' = [held EXCEPT ![call[c].who] = @ \cup {row.role}]
      BY <2>1, <2>5 DEF WriteLink, At, Shape, Write, Updatable
    <3>2. row.role = call[c].copy.role /\ row.life = call[c].copy.life
      BY <3>1 DEF User
    <3>3. Live(row) /\ row.role \in held[call[c].who]
      BY <2>1, <3>1, <3>2 DEF CopyOK, Target, Live
    <3> HIDE DEF row
    <3>4. held' = held
      BY <2>1, <3>1, <3>3
    <3>5. \A u \in Users : /\ users'[u] = users[u] \/ Live(users'[u])
                           /\ users[u] = NoRow => users'[u] = NoRow
      BY <2>1, <3>1, <3>3
    <3> QED  BY <3>4, <3>5
  <2>6. ASSUME NEW c \in Calls, InsertUser(c) PROVE Granted
    <3> DEFINE u == call[c].whom
    <3>1. /\ call[c].step = "insert" /\ users[u] = NoRow /\ Reply(c)
          /\ users' = [users EXCEPT ![u] = NewUser(call[c].what, token[call[c].old].org)]
          /\ \A v \in Users \ {u} : held'[v] = held[v]
          /\ u \in Users
      BY <2>1, <2>6 DEF InsertUser, At, Write, Shape, UserSteps
    <3>2. call'[c] # call[c]
      BY <2>2, <3>1
    <3>3. users'[u].role = call[c].what
      BY <2>1, <3>1 DEF NewUser
    <3>4. "OWNER" \in held[call[c].who] \/ ("MANAGER" \in held[call[c].who] /\ call[c].what = "EMPLOYEE")
      BY <2>1, <3>1 DEF CopyOK
    <3>5. /\ Acts(c, {"OWNER", "MANAGER"})
          /\ Acts(c, {"OWNER"}) \/ users'[u].role = "EMPLOYEE"
      BY <3>2, <3>3, <3>4 DEF Acts
    <3> HIDE DEF u
    <3> QED  BY <2>1, <3>1, <3>5
  <2>7. ASSUME NEW c \in Calls, WriteUpdate(c) PROVE Granted
    <3> DEFINE u == call[c].whom
    <3>1. /\ call[c].step = "update" /\ users[u] # NoRow /\ Reply(c) /\ u \in Users
          /\ users' = [users EXCEPT ![u] = call[c].copy]
          /\ held' = [held EXCEPT ![u] = @ \cup {call[c].copy.role}]
      BY <2>1, <2>7 DEF WriteUpdate, At, Write, Shape, UserSteps, Updatable
    <3>2. call'[c] # call[c]
      BY <2>2, <3>1
    <3>3. /\ Live(call[c].copy)
          /\ \/ call[c].copy.role \in held[u]
             \/ held[call[c].who] \cap {"OWNER", "MANAGER"} # {}
      BY <2>1, <3>1 DEF CopyOK, Target
    <3>4. held' = held \/ Acts(c, {"OWNER", "MANAGER"})
      BY <2>1, <3>1, <3>2, <3>3 DEF Acts
    <3> HIDE DEF u
    <3>5. \A v \in Users : /\ users'[v] = users[v] \/ Live(users'[v])
                           /\ users[v] = NoRow => users'[v] = NoRow
      BY <2>1, <3>1, <3>3
    <3> QED  BY <3>4, <3>5
  <2>8. ASSUME NEW c \in Calls, WriteDeletion(c) PROVE Granted
    <3>1. call[c].step = "delete" /\ MayDelete(c) /\ Reply(c) /\ held' = held
      BY <2>8 DEF WriteDeletion, At
    <3>2. call'[c] # call[c] /\ "OWNER" \in held[call[c].who]
      BY <2>2, <3>1 DEF MayDelete, SeenRoles, CanDeleteUser
    <3> QED  BY <3>1, <3>2 DEF Acts
  <2> QED  BY <1>1, <2>3, <2>4, <2>5, <2>6, <2>7, <2>8, Writers
<1> QED  BY <1>1, RolesInvariant, PTL DEF Spec, EmployeesGrantNothing

-----------------------------------------------------------------------------
(* Setting up organisations                                                *)

LEMMA SetUpInit == Init => SetUpInv /\ MemberInv /\ RaceInv
<1> SUFFICES ASSUME Init PROVE SetUpInv /\ MemberInv /\ RaceInv
  OBVIOUS
<1>1. /\ \A c \in Calls : call[c].org = Nobody /\ call[c].step = "idle"
      /\ leaked = {} /\ \A o \in Orgs : trouble[o] = {}
  BY DEF Init, Idle
<1>2. ASSUME Empty PROVE SetUpInv /\ MemberInv
  <2>1. /\ \A u \in Users : users[u] = NoRow
        /\ \A o \in Orgs : orgs[o] = NoRow
        /\ \A s \in Sessions : token[s] = NoClaim
        /\ told = {}
    BY <1>2 DEF Empty
  <2> QED  BY <1>1, <2>1, AccountsAssumption DEF SetUpInv, OrgOK, MemberInv
<1>3. ASSUME Established PROVE SetUpInv /\ MemberInv
  <2> USE StaffAssumption
  <2>1. /\ \A u \in Users : users[u] # NoRow => users[u].org = Home
        /\ OwnerOf(Home, Founder) /\ Founder \in Users
    BY <1>3 DEF Established, NewUser, RoleOf, OwnerOf, Staff, NoRow
  <2>2. /\ \A o \in Orgs : o # Home => orgs[o] = NoRow
        /\ orgs[Home] = [life |-> "live", owner |-> Founder, active |-> TRUE]
        /\ told = {Home}
    BY <1>3 DEF Established
  <2>3. \A s \in Sessions : token[s] # NoClaim => token[s].org = Home
    BY <1>3 DEF Established
  <2>4. orgs[Home] # NoRow
    BY <2>2 DEF NoRow
  <2> QED  BY <1>1, <2>1, <2>2, <2>3, <2>4, AccountsAssumption
           DEF SetUpInv, OrgOK, MemberInv, Peopled, Live
<1>4. RaceInv
  <2>1. ASSUME Empty \/ Established
        PROVE  \A o \in Orgs : o # Home => orgs[o] = NoRow
    BY <2>1 DEF Empty, Established
  <2> QED  BY <1>1, <2>1 DEF Init, RaceInv, InSetUp, SetUpSteps, At
<1> QED  BY <1>2, <1>3, <1>4 DEF Init

\* Log-ins, sessions and roles leave the set-ups alone.
LEMMA Aside ==
    ASSUME TypeInv, TypeInv', NEW c \in Calls, SessionStep(c) \/ RoleStep(c) \/ Refuse(c)
    PROVE  /\ UNCHANGED <<orgs, leaked, told, trouble, raced>>
           /\ \A d \in Calls : \/ call'[d] = call[d]
                               \/ /\ call[d].step \notin SetUpSteps /\ call[d].org = Nobody
                                  /\ call'[d].step \notin SetUpSteps /\ call'[d].org = Nobody
<1>1. /\ call \in [Calls -> Call] /\ \A d \in Calls : Shape(call[d], orgs, token)
      /\ \A d \in Calls : Shape(call'[d], orgs', token')
  BY DEF TypeInv, TypeOK
<1>2. UNCHANGED <<orgs, leaked, told, trouble, raced>>
  BY DEF SessionStep, RoleStep, Refuse, LinkTelegram, WriteLink, IssueTokens, RevokeSession, Rotate,
         StoreRotated, Logout, RefreshAccessToken, DeleteUser, CreateUser, UpdateUser,
         UpdateMyProfile, CheckCreator, InsertUser, ReadTarget, WriteUpdate, WriteDeletion,
         tables, setUp
<1>3. call[c].step \in OtherSteps \cup {"idle"}
  BY DEF SessionStep, RoleStep, Refuse, LinkTelegram, WriteLink, IssueTokens, RevokeSession, Rotate,
         StoreRotated, Logout, RefreshAccessToken, DeleteUser, CreateUser, UpdateUser,
         UpdateMyProfile, CheckCreator, InsertUser, ReadTarget, WriteUpdate, WriteDeletion,
         Authorized, Begin, At, OtherSteps
<1>4. PICK r : call' = [call EXCEPT ![c] = r] /\ r.step \in OtherSteps \cup {"idle"}
  <2> DEFINE Goes == \E r : call' = [call EXCEPT ![c] = r] /\ r.step \in OtherSteps \cup {"idle"}
  <2>1. ASSUME Reply(c) PROVE Goes
    <3>1. Idle.step = "idle"
      BY DEF Idle
    <3> QED  BY <2>1, <3>1 DEF Reply, Go
  <2>2. CASE Refuse(c)
    BY <2>1, <2>2 DEF Refuse
  <2>3. CASE SessionStep(c)
    <3>1. \/ \E u, step : step \in {"issue", "link"} /\ Begin(c, [Idle EXCEPT !.step = step, !.who = u, !.copy = users[u]])
          \/ \E row : Go(c, [call[c] EXCEPT !.step = "issue", !.copy = row])
          \/ Reply(c)
          \/ To(c, "store")
          \/ \E s : Authorized(c, s, [Idle EXCEPT !.step = "logout"])
          \/ \E s, n : Begin(c, [Idle EXCEPT !.step = "rotate", !.old = s, !.new = n])
      BY <2>3 DEF SessionStep, LinkTelegram, WriteLink, IssueTokens, RevokeSession, Rotate,
         StoreRotated, Logout, RefreshAccessToken
    <3>2. /\ \A u, step : [Idle EXCEPT !.step = step, !.who = u, !.copy = users[u]].step = step
          /\ \A u, s : [[Idle EXCEPT !.step = "logout"] EXCEPT !.who = u, !.old = s].step = "logout"
          /\ \A s, n : [Idle EXCEPT !.step = "rotate", !.old = s, !.new = n].step = "rotate"
          /\ Idle.step = "idle"
      BY DEF Idle
    <3>3. /\ \A row : [call[c] EXCEPT !.step = "issue", !.copy = row].step = "issue"
          /\ [call[c] EXCEPT !.step = "store"].step = "store"
      BY <1>1 DEF Call
    <3>4. ASSUME NEW u, NEW step \in {"issue", "link"},
                 Begin(c, [Idle EXCEPT !.step = step, !.who = u, !.copy = users[u]])
          PROVE  Goes
      <4>1. [Idle EXCEPT !.step = step, !.who = u, !.copy = users[u]].step = step
        BY <3>2
      <4> QED  BY <3>4, <4>1 DEF Begin, OtherSteps
    <3>5. ASSUME NEW row, Go(c, [call[c] EXCEPT !.step = "issue", !.copy = row]) PROVE Goes
      BY <3>3, <3>5 DEF Go, OtherSteps
    <3>6. ASSUME To(c, "store") PROVE Goes
      BY <3>3, <3>6 DEF To, Go, OtherSteps
    <3>7. ASSUME NEW s, Authorized(c, s, [Idle EXCEPT !.step = "logout"]) PROVE Goes
      <4>1. [[Idle EXCEPT !.step = "logout"] EXCEPT !.who = token[s].user, !.old = s].step = "logout"
        BY <3>2
      <4> QED  BY <3>7, <4>1 DEF Authorized, Begin, OtherSteps
    <3>8. ASSUME NEW s, NEW n, Begin(c, [Idle EXCEPT !.step = "rotate", !.old = s, !.new = n])
          PROVE  Goes
      <4>1. [Idle EXCEPT !.step = "rotate", !.old = s, !.new = n].step = "rotate"
        BY <3>2
      <4> QED  BY <3>8, <4>1 DEF Begin, OtherSteps
    <3> QED  BY <2>1, <3>1, <3>4, <3>5, <3>6, <3>7, <3>8
  <2>4. CASE RoleStep(c)
    <3>1. \/ \E s, u, what, step : /\ step \in {"creator", "read"}
                                   /\ Authorized(c, s, [Idle EXCEPT !.step = step, !.whom = u, !.what = what])
          \/ \E s, u : Authorized(c, s, [Idle EXCEPT !.step = "delete", !.whom = u])
          \/ \E row : Go(c, [call[c] EXCEPT !.step = "update", !.copy = row])
          \/ To(c, "insert")
          \/ Reply(c)
      BY <2>4 DEF RoleStep, DeleteUser, CreateUser, UpdateUser, UpdateMyProfile, CheckCreator,
         InsertUser, ReadTarget, WriteUpdate, WriteDeletion
    <3>2. /\ \A u, v, what, step, s :
                [[Idle EXCEPT !.step = step, !.whom = u, !.what = what] EXCEPT !.who = v, !.old = s].step = step
          /\ \A u, v, s :
                [[Idle EXCEPT !.step = "delete", !.whom = u] EXCEPT !.who = v, !.old = s].step = "delete"
          /\ Idle.step = "idle"
      BY DEF Idle
    <3>3. /\ \A row : [call[c] EXCEPT !.step = "update", !.copy = row].step = "update"
          /\ [call[c] EXCEPT !.step = "insert"].step = "insert"
      BY <1>1 DEF Call
    <3>4. ASSUME NEW s, NEW u, NEW what, NEW step \in {"creator", "read"},
                 Authorized(c, s, [Idle EXCEPT !.step = step, !.whom = u, !.what = what])
          PROVE  Goes
      <4>1. [[Idle EXCEPT !.step = step, !.whom = u, !.what = what]
                EXCEPT !.who = token[s].user, !.old = s].step = step
        BY <3>2
      <4> QED  BY <3>4, <4>1 DEF Authorized, Begin, OtherSteps
    <3>5. ASSUME NEW s, NEW u, Authorized(c, s, [Idle EXCEPT !.step = "delete", !.whom = u])
          PROVE  Goes
      <4>1. [[Idle EXCEPT !.step = "delete", !.whom = u]
                EXCEPT !.who = token[s].user, !.old = s].step = "delete"
        BY <3>2
      <4> QED  BY <3>5, <4>1 DEF Authorized, Begin, OtherSteps
    <3>6. ASSUME NEW row, Go(c, [call[c] EXCEPT !.step = "update", !.copy = row]) PROVE Goes
      BY <3>3, <3>6 DEF Go, OtherSteps
    <3>7. ASSUME To(c, "insert") PROVE Goes
      BY <3>3, <3>7 DEF To, Go, OtherSteps
    <3> QED  BY <2>1, <3>1, <3>4, <3>5, <3>6, <3>7
  <2> QED  BY <2>2, <2>3, <2>4
<1>5. \A step \in OtherSteps \cup {"idle"} : step \notin SetUpSteps
  BY DEF OtherSteps, SetUpSteps
<1> QED  BY <1>1, <1>2, <1>3, <1>4, <1>5 DEF Shape

\* Nothing happens to organisation p.
LEMMA OrgSame ==
    ASSUME TypeInv, Grows, NEW p \in Orgs, OrgOK(p),
           orgs'[p] = orgs[p], trouble'[p] = trouble[p],
           p \in told' <=> p \in told, p \in leaked' <=> p \in leaked,
           \A d \in Calls : call'[d] = call[d] \/ (call[d].org # p /\ call'[d].org # p)
    PROVE  OrgOK(p)'
<1>1. \A u \in Users : OwnerOf(p, u) => OwnerOf(p, u)'
  BY DEF OwnerOf, Grows, IsOwner
<1>2. \A d \in Calls : call[d].org = p =>
         (call[d].step \in {"owner", "activate"} => call[d].who \in Users)
  BY DEF TypeInv, Shape, SetUpSteps
<1> QED  BY <1>1, <1>2 DEF OrgOK

LEMMA AsideSetUp ==
    ASSUME TypeInv, TypeInv', Grows, SetUpInv, RaceInv, NEW c \in Calls,
           SessionStep(c) \/ RoleStep(c) \/ Refuse(c)
    PROVE  SetUpInv' /\ RaceInv'
<1>1. UNCHANGED <<orgs, leaked, told, trouble, raced>>
  BY Aside
<1>2. \A d \in Calls : \/ call'[d] = call[d]
                       \/ /\ call[d].step \notin SetUpSteps /\ call[d].org = Nobody
                          /\ call'[d].step \notin SetUpSteps /\ call'[d].org = Nobody
  BY Aside
<1>3. \A o \in Orgs : OrgOK(o)'
  BY <1>1, <1>2, OrgSame, AccountsAssumption DEF SetUpInv
<1>4. RaceInv'
  BY <1>1, <1>2 DEF RaceInv, InSetUp, At, ExistsAny, SetUpSteps
<1> QED  BY <1>2, <1>3, <1>4 DEF SetUpInv

\* A step of the set-up of organisation o by call c.
LEMMA OwnOrg ==
    ASSUME TypeInv, Grows, SetUpInv, NEW c \in Calls, NEW o \in Orgs, call[c].org = o,
           NEW r, call' = [call EXCEPT ![c] = r], r.org \in {o, Nobody},
           \A p \in Orgs \ {o} : orgs'[p] = orgs[p] /\ trouble'[p] = trouble[p],
           told' \in {told, told \cup {o}}, leaked' \in {leaked, leaked \cup {o}},
           OrgOK(o)'
    PROVE  SetUpInv'
<1>1. \A d \in Calls : call'[d] = IF d = c THEN r ELSE call[d]
  BY DEF TypeInv, TypeOK
<1>2. \A d, e \in Calls : call'[d].org = call'[e].org /\ call'[d].org # Nobody => d = e
  BY <1>1 DEF SetUpInv
<1>3. ASSUME NEW p \in Orgs, p # o PROVE OrgOK(p)'
  <2>1. \A d \in Calls : call'[d] = call[d] \/ (call[d].org # p /\ call'[d].org # p)
    BY <1>1, <1>3, AccountsAssumption
  <2>2. orgs'[p] = orgs[p] /\ trouble'[p] = trouble[p] /\ OrgOK(p)
        /\ (p \in told' <=> p \in told) /\ (p \in leaked' <=> p \in leaked)
    BY <1>3 DEF SetUpInv
  <2> QED  BY <2>1, <2>2, OrgSame
<1> QED  BY <1>2, <1>3 DEF SetUpInv

\* What is known of the organisation in the hands of call c.
LEMMA InHand ==
    ASSUME TypeInv, SetUpInv, MemberInv, NEW c \in Calls, call[c].step \in SetUpSteps \ {"save"}
    PROVE  /\ call[c].org \in Orgs /\ call[c].who \in Users /\ orgs[call[c].org] \in Org
           /\ call[c] \in Call /\ OrgOK(call[c].org) /\ call[c].org # Nobody
           /\ call[c].org \notin told /\ Live(orgs[call[c].org])
           /\ \A d \in Calls : d # c => call[d].org # call[c].org
           /\ HasUsers(call[c].org) /\ call[c].step = "cleanup" => "reply" \in trouble[call[c].org]
<1>1. /\ call[c].org \in Orgs /\ call[c].who \in Users /\ orgs[call[c].org] \in Org
      /\ call[c] \in Call /\ call[c].org # Nobody
  BY AccountsAssumption DEF TypeInv, TypeOK, Shape
<1>2. /\ OrgOK(call[c].org) /\ \A d \in Calls : d # c => call[d].org # call[c].org
  BY <1>1 DEF SetUpInv
<1>3. call[c].org \notin told /\ Live(orgs[call[c].org])
  BY <1>2 DEF OrgOK
<1>4. HasUsers(call[c].org) => Peopled(call[c].org)
  BY DEF HasUsers, MemberInv
<1> QED  BY <1>1, <1>2, <1>3, <1>4 DEF Peopled

LEMMA StepInHand ==
    ASSUME TypeInv, Grows, SetUpInv, MemberInv, NEW c \in Calls,
           NEW o \in Orgs, NEW w \in Users, call[c].org = o, call[c].who = w,
           call[c].step \in SetUpSteps \ {"save"}, SetUpStep(c)
    PROVE  SetUpInv'
<1>1. /\ call[c] \in Call /\ call \in [Calls -> Call] /\ users \in [Users -> User \cup {NoRow}]
      /\ orgs \in [Orgs -> Org \cup {NoRow}] /\ trouble \in [Orgs -> SUBSET Troubles]
      /\ orgs[o] # NoRow
  BY DEF TypeInv, TypeOK, Shape
<1>2. /\ orgs[o] \in Org /\ OrgOK(o) /\ o # Nobody /\ o \notin told /\ Live(orgs[o])
      /\ \A d \in Calls : d # c => call[d].org # o
      /\ HasUsers(o) /\ call[c].step = "cleanup" => "reply" \in trouble[o]
  BY InHand
<1>3. /\ call[c].step \in {"create", "fetch", "owner"} => trouble[o] = {} /\ o \notin leaked
      /\ call[c].step \in {"owner", "activate"} => OwnerOf(o, w)
      /\ call[c].step = "activate" /\ trouble[o] = {} => orgs[o].owner = w
  BY <1>2 DEF OrgOK
<1>4. ASSUME NEW u \in Users, OwnerOf(o, u) PROVE OwnerOf(o, u)'
  BY <1>4 DEF OwnerOf, Grows, IsOwner
<1>5. ASSUME NEW step, To(c, step)
      PROVE  \E r : /\ call' = [call EXCEPT ![c] = r]
                   /\ r.step = step /\ r.org = o /\ r.who = w
  <2>1. LET r == [call[c] EXCEPT !.step = step] IN r.step = step /\ r.org = o /\ r.who = w
    BY <1>1 DEF Call
  <2> QED  BY <1>5, <2>1 DEF To, Go
<1>6. ASSUME Reply(c)
      PROVE  \E r : call' = [call EXCEPT ![c] = r] /\ r.step = "idle" /\ r.org = Nobody
  <2>1. Idle.step = "idle" /\ Idle.org = Nobody
    BY DEF Idle
  <2> QED  BY <1>6, <2>1 DEF Reply, Go
<1>7. CASE CreateUserSystem(c)
  <2>1. call[c].step = "create" /\ UNCHANGED <<orgs, leaked, told>>
    BY <1>7 DEF CreateUserSystem, At
  <2>2. PICK step : /\ To(c, step)
                    /\ \/ step = "fetch" /\ trouble' = trouble
                       \/ /\ users' = [users EXCEPT ![w] = NewUser("OWNER", o)]
                          /\ \/ step = "owner" /\ trouble' = trouble
                             \/ step = "cleanup" /\ trouble' = [trouble EXCEPT ![o] = @ \cup {"reply"}]
    BY <1>7 DEF CreateUserSystem, Write, Blame
  <2>3. PICK r : call' = [call EXCEPT ![c] = r] /\ r.step = step /\ r.org = o /\ r.who = w
    BY <1>5, <2>2
  <2>4. \A d \in Calls : call'[d] = IF d = c THEN r ELSE call[d]
    BY <1>1, <2>3
  <2>5. /\ \A p \in Orgs \ {o} : trouble'[p] = trouble[p]
        /\ step \in {"fetch", "owner"} => trouble'[o] = {}
        /\ step \notin {"fetch", "owner"} => step = "cleanup" /\ trouble'[o] = {"reply"}
    BY <1>1, <1>3, <2>1, <2>2
  <2>6. step = "owner" => OwnerOf(o, w)'
    BY <1>1, <2>2 DEF OwnerOf, NewUser, NoRow
  <2>7. OrgOK(o)'
    BY <1>1, <1>2, <1>3, <2>1, <2>3, <2>4, <2>5, <2>6 DEF OrgOK
  <2> QED  BY <2>1, <2>3, <2>5, <2>7, OwnOrg
<1>8. CASE CreateFails(c) \/ FetchExisting(c) \/ FetchFails(c)
  <2>1. /\ call[c].step \in {"create", "fetch"} /\ UNCHANGED <<users, orgs, leaked, told, trouble>>
        /\ To(c, "cleanup") \/ (To(c, "owner") /\ Live(users[w]) /\ users[w].role = "OWNER" /\ users[w].org = o)
    BY <1>8 DEF CreateFails, FetchExisting, FetchFails, At, WithExisting, tables, setUp
  <2>2. PICK r : /\ call' = [call EXCEPT ![c] = r] /\ r.org = o /\ r.who = w
                 /\ r.step \in {"cleanup", "owner"} /\ (r.step = "owner" => OwnerOf(o, w)')
    <3>1. CASE To(c, "cleanup")
      BY <1>5, <3>1
    <3>2. CASE To(c, "owner") /\ Live(users[w]) /\ users[w].role = "OWNER" /\ users[w].org = o
      <4>1. OwnerOf(o, w)'
        BY <2>1, <3>2 DEF OwnerOf, Live, NoRow
      <4> QED  BY <1>5, <3>2, <4>1
    <3> QED  BY <2>1, <3>1, <3>2
  <2>3. \A d \in Calls : call'[d] = IF d = c THEN r ELSE call[d]
    BY <1>1, <2>2
  <2>4. OrgOK(o)'
    BY <1>1, <1>2, <1>3, <2>1, <2>2, <2>3 DEF OrgOK
  <2> QED  BY <2>1, <2>2, <2>4, OwnOrg
<1>9. CASE DeleteOrganization(c) \/ DeleteFails(c)
  <2>1. /\ call[c].step = "cleanup" /\ told' = told /\ leaked' \in {leaked, leaked \cup {o}} /\ Reply(c)
        /\ \/ orgs' = Deleted(o) /\ leaked' = leaked
           \/ orgs' = orgs
        /\ \/ trouble' = [trouble EXCEPT ![o] = @ \cup {"cleanup"}]
           \/ trouble' = trouble /\ (HasUsers(o) \/ orgs' = Deleted(o))
    BY <1>9 DEF DeleteOrganization, DeleteFails, At, Blame, setUp
  <2>2. PICK r : call' = [call EXCEPT ![c] = r] /\ r.step = "idle" /\ r.org = Nobody
    BY <1>6, <2>1
  <2>3. \A d \in Calls : call'[d].org # o
    BY <1>1, <1>2, <2>2
  <2>4. /\ \A p \in Orgs \ {o} : orgs'[p] = orgs[p] /\ trouble'[p] = trouble[p]
        /\ orgs'[o] # NoRow
        /\ "cleanup" \in trouble'[o] \/ (trouble' = trouble /\ (HasUsers(o) \/ ~Live(orgs'[o])))
    BY <1>1, <1>2, <2>1 DEF Deleted, Live, Org, NoRow
  <2>5. OrgOK(o)'
    BY <1>1, <1>2, <2>1, <2>3, <2>4 DEF OrgOK
  <2> QED  BY <2>1, <2>2, <2>4, <2>5, OwnOrg
<1>10. CASE UpdateOwner(c)
  <2>1. /\ call[c].step = "owner" /\ told' = told /\ leaked' = leaked /\ To(c, "activate")
        /\ orgs' \in {orgs, [orgs EXCEPT ![o].owner = w]}
        /\ \/ trouble' = trouble /\ orgs' = [orgs EXCEPT ![o].owner = w]
           \/ trouble' = [trouble EXCEPT ![o] = @ \cup {"statement"}]
    BY <1>10 DEF UpdateOwner, At, Blame
  <2>2. PICK r : call' = [call EXCEPT ![c] = r] /\ r.step = "activate" /\ r.org = o /\ r.who = w
    BY <1>5, <2>1
  <2>3. \A d \in Calls : call'[d] = IF d = c THEN r ELSE call[d]
    BY <1>1, <2>2
  <2>4. /\ \A p \in Orgs \ {o} : orgs'[p] = orgs[p] /\ trouble'[p] = trouble[p]
        /\ orgs'[o] # NoRow /\ Live(orgs'[o])
        /\ trouble'[o] = {} => orgs'[o].owner = w
    BY <1>1, <1>2, <2>1 DEF Live, Org, NoRow
  <2>5. OwnerOf(o, w)'
    BY <1>3, <1>4, <2>1
  <2>6. OrgOK(o)'
    BY <1>1, <1>2, <1>3, <2>1, <2>2, <2>3, <2>4, <2>5 DEF OrgOK
  <2> QED  BY <2>1, <2>2, <2>4, <2>6, OwnOrg
<1>11. CASE ActivateOrganization(c)
  <2>1. /\ call[c].step = "activate" /\ told' = told \cup {o} /\ leaked' = leaked /\ Reply(c)
        /\ orgs' \in {orgs, [orgs EXCEPT ![o].active = MayActivate(o, w)]}
        /\ \/ trouble' = trouble /\ orgs' = [orgs EXCEPT ![o].active = MayActivate(o, w)]
           \/ trouble' = [trouble EXCEPT ![o] = @ \cup {"statement"}]
    BY <1>11 DEF ActivateOrganization, At, Blame
  <2>2. PICK r : call' = [call EXCEPT ![c] = r] /\ r.step = "idle" /\ r.org = Nobody
    BY <1>6, <2>1
  <2>3. \A d \in Calls : call'[d].org # o
    BY <1>1, <1>2, <2>2
  <2>4. /\ \A p \in Orgs \ {o} : orgs'[p] = orgs[p] /\ trouble'[p] = trouble[p]
        /\ orgs'[o] # NoRow /\ Live(orgs'[o]) /\ orgs'[o].owner = orgs[o].owner
    BY <1>1, <1>2, <2>1 DEF Live, Org, NoRow
  <2>8. \A x \in trouble[o] : x \in trouble'[o]
    BY <1>1, <2>1
  <2>5. OwnerOf(o, w)'
    BY <1>3, <1>4, <2>1
  <2>6. ASSUME trouble'[o] = {} PROVE orgs'[o].active /\ orgs'[o].owner = w
    <3>1. trouble[o] = {}
      BY <2>6, <2>8
    <3>2. orgs[o].owner = w /\ MayActivate(o, w) = TRUE
      BY <1>2, <1>3, <2>1, <3>1 DEF MayActivate, Live
    <3>3. orgs' = [orgs EXCEPT ![o].active = TRUE]
      <4>1. "statement" \notin trouble'[o]
        BY <2>6
      <4>2. trouble' # [trouble EXCEPT ![o] = @ \cup {"statement"}]
        BY <1>1, <4>1
      <4>3. orgs' = [orgs EXCEPT ![o].active = MayActivate(o, w)]
        BY <2>1, <4>2, Zenon
      <4> QED  BY <3>2, <4>3, Zenon
    <3> QED  BY <1>1, <1>2, <3>2, <3>3 DEF Org
  <2>7. OrgOK(o)'
    BY <1>2, <2>1, <2>3, <2>4, <2>5, <2>6, <2>8 DEF OrgOK
  <2> QED  BY <2>1, <2>2, <2>4, <2>7, OwnOrg
<1>12. ~SaveOrganization(c) /\ ~SaveFails(c) /\ \A e \in Users : ~SetupInitialOrganization(c, e)
  BY DEF SaveOrganization, SaveFails, SetupInitialOrganization, Begin, At, SetUpSteps
<1> QED  BY <1>7, <1>8, <1>9, <1>10, <1>11, <1>12 DEF SetUpStep

LEMMA SetUpSetUp ==
    ASSUME TypeInv, TypeInv', Grows, SetUpInv, MemberInv, NEW c \in Calls, SetUpStep(c)
    PROVE  SetUpInv'
<1>1. /\ call[c] \in Call /\ Shape(call[c], orgs, token) /\ call \in [Calls -> Call]
      /\ orgs \in [Orgs -> Org \cup {NoRow}] /\ trouble \in [Orgs -> SUBSET Troubles]
      /\ users \in [Users -> User \cup {NoRow}]
  BY DEF TypeInv, TypeOK
<1>2. CASE SaveFails(c) \/ \E e \in Users : SetupInitialOrganization(c, e)
  <2>1. UNCHANGED <<orgs, told, trouble, leaked>>
    BY <1>2 DEF SaveFails, SetupInitialOrganization, tables, setUp
  <2>2. call[c].org = Nobody
    BY <1>1, <1>2 DEF SaveFails, SetupInitialOrganization, Begin, At, Shape, SetUpSteps
  <2>3. PICK r : call' = [call EXCEPT ![c] = r] /\ r.org = Nobody
    <3>1. Idle.org = Nobody /\ \A e : [Idle EXCEPT !.step = "save", !.who = e].org = Nobody
      BY DEF Idle
    <3>2. CASE SaveFails(c)
      BY <3>1, <3>2 DEF SaveFails, Reply, Go
    <3>3. ASSUME NEW e \in Users, SetupInitialOrganization(c, e)
          PROVE  \E r : call' = [call EXCEPT ![c] = r] /\ r.org = Nobody
      <4>1. [Idle EXCEPT !.step = "save", !.who = e].org = Nobody
        BY <3>1
      <4> QED  BY <3>3, <4>1 DEF SetupInitialOrganization, Begin
    <3> QED  BY <1>2, <3>2, <3>3
  <2>4. \A d \in Calls : call'[d] = call[d] \/ (call[d].org = Nobody /\ call'[d].org = Nobody)
    BY <1>1, <2>2, <2>3
  <2>5. \A o \in Orgs : OrgOK(o)'
    BY <2>1, <2>4, OrgSame, AccountsAssumption DEF SetUpInv
  <2> QED  BY <2>4, <2>5 DEF SetUpInv
<1>3. CASE SaveOrganization(c)
  <2>1. PICK o \in Orgs :
           /\ orgs[o] = NoRow /\ orgs' = [orgs EXCEPT ![o] = NewOrganization]
           /\ \/ Go(c, [call[c] EXCEPT !.step = "create", !.org = o]) /\ UNCHANGED trouble
              \/ Reply(c) /\ Blame(o, "reply")
    BY <1>3 DEF SaveOrganization
  <2>2. /\ UNCHANGED <<users, leaked, told>> /\ call[c].step = "save" /\ call[c].org = Nobody
    BY <1>1, <1>3 DEF SaveOrganization, At, Shape, SetUpSteps
  <2>3. /\ \A d \in Calls : call[d].org # o
        /\ trouble[o] = {} /\ o \notin told /\ o \notin leaked /\ o # Nobody
    <3>1. \A d \in Calls : call[d].org # o
      BY <2>1, AccountsAssumption DEF TypeInv, Shape
    <3> QED  BY <2>1, <3>1, AccountsAssumption DEF SetUpInv, OrgOK
  <2>4. PICK r : /\ call' = [call EXCEPT ![c] = r]
                 /\ \/ r.step = "create" /\ r.org = o /\ trouble' = trouble
                    \/ r.step = "idle" /\ r.org = Nobody /\ trouble' = [trouble EXCEPT ![o] = @ \cup {"reply"}]
    <3>1. Idle.org = Nobody /\ Idle.step = "idle"
      BY DEF Idle
    <3>2. /\ [call[c] EXCEPT !.step = "create", !.org = o].step = "create"
          /\ [call[c] EXCEPT !.step = "create", !.org = o].org = o
      BY <1>1 DEF Call
    <3>3. CASE Reply(c) /\ Blame(o, "reply")
      BY <3>1, <3>3 DEF Reply, Go, Blame
    <3>4. CASE Go(c, [call[c] EXCEPT !.step = "create", !.org = o]) /\ UNCHANGED trouble
      BY <3>2, <3>4 DEF Go
    <3> QED  BY <2>1, <3>3, <3>4
  <2>5. \A d \in Calls : call'[d] = IF d = c THEN r ELSE call[d]
    BY <1>1, <2>4
  <2>6. orgs'[o] # NoRow /\ Live(orgs'[o]) /\ \A p \in Orgs : p # o => orgs'[p] = orgs[p]
    BY <1>1, <2>1 DEF NewOrganization, NoRow, Live
  <2>7. /\ \A p \in Orgs : p # o => trouble'[p] = trouble[p]
        /\ r.step = "create" => trouble'[o] = {}
        /\ r.step # "create" => trouble'[o] = {"reply"}
    BY <1>1, <2>3, <2>4
  <2>8. OrgOK(o)'
    BY <2>2, <2>3, <2>4, <2>5, <2>6, <2>7 DEF OrgOK
  <2>9. ASSUME NEW p \in Orgs, p # o PROVE OrgOK(p)'
    <3>1. \A d \in Calls : call'[d] = call[d] \/ (call[d].org # p /\ call'[d].org # p)
      BY <2>2, <2>4, <2>5, <2>9, AccountsAssumption
    <3> QED  BY <2>2, <2>6, <2>7, <2>9, <3>1, OrgSame DEF SetUpInv
  <2>10. \A d, e \in Calls : call'[d].org = call'[e].org /\ call'[d].org # Nobody => d = e
    BY <2>3, <2>4, <2>5 DEF SetUpInv
  <2> QED  BY <2>8, <2>9, <2>10 DEF SetUpInv
<1>4. CASE call[c].step \in SetUpSteps \ {"save"}
  BY <1>4, InHand, StepInHand
<1>5. CASE call[c].step \notin SetUpSteps \ {"save"}
  BY <1>2, <1>3, <1>5 DEF SetUpStep, CreateUserSystem, CreateFails, FetchExisting, FetchFails,
     DeleteOrganization, DeleteFails, UpdateOwner, ActivateOrganization, At, SetUpSteps
<1> QED  BY <1>4, <1>5

LEMMA PeopledStays ==
    ASSUME TypeInv, TypeInv', [Next]_vars, NEW o \in Orgs, Peopled(o)
    PROVE  Peopled(o)'
<1>1. /\ call \in [Calls -> Call] /\ trouble \in [Orgs -> SUBSET Troubles]
  BY DEF TypeInv, TypeOK
<1>2. CASE UNCHANGED <<call, told, trouble>>
  BY <1>2 DEF Peopled
<1>3. ASSUME NEW c \in Calls, SessionStep(c) \/ RoleStep(c) \/ Refuse(c) PROVE Peopled(o)'
  <2>1. /\ UNCHANGED <<told, trouble>>
        /\ \A d \in Calls : call'[d] = call[d] \/ call[d].step \notin SetUpSteps
    BY <1>3, Aside
  <2> QED  BY <2>1 DEF Peopled, SetUpSteps
<1>4. ASSUME NEW c \in Calls, SetUpStep(c) PROVE Peopled(o)'
  <2>1. \A d \in Calls : d # c => call'[d] = call[d]
    BY <1>1, <1>4, SetUpSessions
  <2>2. /\ \A p \in told : p \in told'
        /\ "reply" \in trouble[o] => "reply" \in trouble'[o]
    BY <1>1, <1>4 DEF SetUpStep, SetupInitialOrganization, SaveOrganization, SaveFails,
       CreateUserSystem, CreateFails, FetchExisting, FetchFails, DeleteOrganization, DeleteFails,
       UpdateOwner, ActivateOrganization, Blame, setUp
  <2>3. CASE call[c].step \notin {"owner", "activate"}
    BY <2>1, <2>2, <2>3 DEF Peopled
  <2>4. CASE UpdateOwner(c)
    <3>1. LET r == [call[c] EXCEPT !.step = "activate"] IN r.step = "activate" /\ r.org = call[c].org
      BY <1>1 DEF Call
    <3>2. call'[c].step = "activate" /\ call'[c].org = call[c].org
      BY <1>1, <2>4, <3>1 DEF UpdateOwner, To, Go
    <3> QED  BY <2>1, <2>2, <3>2 DEF Peopled
  <2>5. CASE ActivateOrganization(c)
    BY <2>1, <2>2, <2>5 DEF Peopled, ActivateOrganization
  <2>6. call[c].step \notin {"owner", "activate"} \/ UpdateOwner(c) \/ ActivateOrganization(c)
    BY <1>4 DEF SetUpStep, SetupInitialOrganization, SaveOrganization, SaveFails, CreateUserSystem,
       CreateFails, FetchExisting, FetchFails, DeleteOrganization, DeleteFails, Begin, At
  <2> QED  BY <2>3, <2>4, <2>5, <2>6
<1>5. CASE UNCHANGED vars \/ \E s \in Sessions : RevokeToken(s)
  BY <1>2, <1>5 DEF vars, RevokeToken, setUp
<1> QED  BY <1>3, <1>4, <1>5 DEF Next

\* Whoever is new belongs where somebody belongs already, or to the organisation
\* that is being set up.
LEMMA Members ==
    ASSUME TypeInv, CopyInv, Grows, MemberInv, [Next]_vars
    PROVE  /\ \A u \in Users : users'[u] # NoRow =>
                 \/ Peopled(users'[u].org)
                 \/ \E c \in Calls : /\ CreateUserSystem(c) /\ users'[u].org = call[c].org
                                     /\ To(c, "owner") \/ (To(c, "cleanup") /\ Blame(call[c].org, "reply"))
           /\ \A s \in Sessions : token'[s] # NoClaim => Peopled(token'[s].org)
<1>1. /\ users \in [Users -> User \cup {NoRow}] /\ token \in [Sessions -> Claim \cup {NoClaim}]
      /\ \A c \in Calls : call[c] \in Call /\ Shape(call[c], orgs, token) /\ CopyOK(call[c], users, held)
  BY DEF TypeInv, TypeOK, CopyInv
<1>2. ASSUME NEW u \in Users, users'[u] # NoRow, users[u] # NoRow PROVE Peopled(users'[u].org)
  BY <1>2 DEF Grows, MemberInv
<1>3. ASSUME NEW u \in Users, users'[u] # NoRow, users[u] = NoRow
      PROVE  \/ Peopled(users'[u].org)
             \/ \E c \in Calls : /\ CreateUserSystem(c) /\ users'[u].org = call[c].org
                                 /\ To(c, "owner") \/ (To(c, "cleanup") /\ Blame(call[c].org, "reply"))
  <2>1. PICK c \in Calls : \/ CreateUserSystem(c) \/ WriteLink(c) \/ InsertUser(c)
                           \/ WriteUpdate(c) \/ WriteDeletion(c)
    BY <1>3, Writers
  <2>2. CASE CreateUserSystem(c)
    <3>1. /\ users' = [users EXCEPT ![call[c].who] = NewUser("OWNER", call[c].org)]
          /\ To(c, "owner") \/ (To(c, "cleanup") /\ Blame(call[c].org, "reply"))
      BY <1>3, <2>2 DEF CreateUserSystem, Write
    <3>2. users'[u] = NewUser("OWNER", call[c].org)
      BY <1>1, <1>3, <3>1
    <3> QED  BY <2>2, <3>1, <3>2 DEF NewUser
  <2>3. CASE InsertUser(c)
    <3>1. /\ users'[u] = NewUser(call[c].what, token[call[c].old].org)
          /\ call[c].old \in Sessions /\ token[call[c].old] # NoClaim
      BY <1>1, <1>3, <2>3 DEF InsertUser, Write, At, Shape, UserSteps
    <3> QED  BY <3>1 DEF NewUser, MemberInv
  <2>4. CASE WriteLink(c) \/ WriteUpdate(c) \/ WriteDeletion(c)
    BY <1>1, <1>3, <2>4 DEF WriteLink, WriteUpdate, WriteDeletion, Write, Updatable
  <2> QED  BY <2>1, <2>2, <2>3, <2>4
<1>4. ASSUME NEW s \in Sessions, token'[s] # NoClaim PROVE Peopled(token'[s].org)
  <2>1. CASE token'[s] = token[s]
    BY <1>4, <2>1 DEF MemberInv
  <2>2. ASSUME NEW c \in Calls, IssueTokens(c), token'[s] # token[s] PROVE Peopled(token'[s].org)
    <3>1. /\ call[c].step = "issue" /\ call[c].who \in Users
          /\ token'[s] = [user |-> call[c].who, role |-> call[c].copy.role, org |-> call[c].copy.org]
      BY <1>1, <2>2 DEF IssueTokens, At, HandOut, Shape
    <3>2. users[call[c].who] # NoRow /\ call[c].copy.org = users[call[c].who].org
      BY <1>1, <3>1 DEF CopyOK, Target
    <3> QED  BY <3>1, <3>2 DEF MemberInv
  <2>3. ASSUME NEW c \in Calls, StoreRotated(c), token'[s] # token[s] PROVE Peopled(token'[s].org)
    <3>1. /\ call[c].old \in Sessions /\ token[call[c].old] # NoClaim
          /\ token'[s].org = token[call[c].old].org
      BY <1>1, <2>3 DEF StoreRotated, At, HandOut, Shape
    <3> QED  BY <3>1 DEF MemberInv
  <2>4. \/ token' = token
        \/ \E c \in Calls : IssueTokens(c) \/ StoreRotated(c)
    <3>1. ASSUME NEW c \in Calls, SetUpStep(c) \/ RoleStep(c) PROVE token' = token
      BY <3>1, SetUpSessions, RoleSessions DEF sessions
    <3>2. ASSUME NEW c \in Calls, SessionStep(c), ~IssueTokens(c), ~StoreRotated(c)
          PROVE  token' = token
      BY <3>2 DEF SessionStep, LinkTelegram, WriteLink, RevokeSession, Rotate, Logout,
         RefreshAccessToken, sessions
    <3>3. CASE UNCHANGED vars \/ (\E c \in Calls : Refuse(c)) \/ \E t \in Sessions : RevokeToken(t)
      BY <3>3 DEF vars, Refuse, RevokeToken, sessions
    <3> QED  BY <3>1, <3>2, <3>3 DEF Next
  <2> QED  BY <2>1, <2>2, <2>3, <2>4
<1> QED  BY <1>2, <1>3, <1>4

LEMMA MemberStep ==
    ASSUME TypeInv, TypeInv', CopyInv, Grows, SetUpInv, MemberInv, [Next]_vars
    PROVE  MemberInv'
<1>1. users' \in [Users -> User \cup {NoRow}] /\ token' \in [Sessions -> Claim \cup {NoClaim}]
      /\ call \in [Calls -> Call] /\ trouble \in [Orgs -> SUBSET Troubles]
  BY DEF TypeInv, TypeOK
<1>2. ASSUME NEW s \in Sessions, token'[s] # NoClaim PROVE Peopled(token[s].org)'
  <2>1. token'[s].org \in Orgs /\ Peopled(token'[s].org)
    BY <1>1, <1>2, Members DEF Claim
  <2>2. PICK o \in Orgs : o = token'[s].org
    BY <2>1
  <2>3. Peopled(o)'
    BY <2>1, <2>2, PeopledStays
  <2> QED  BY <2>2, <2>3 DEF Peopled
<1>3. ASSUME NEW u \in Users, users'[u] # NoRow PROVE Peopled(users[u].org)'
  <2>1. PICK o \in Orgs : o = users'[u].org
    BY <1>1, <1>3 DEF User
  <2>2. CASE Peopled(o)
    <3>1. Peopled(o)'
      BY <2>2, PeopledStays
    <3> QED  BY <2>1, <3>1 DEF Peopled
  <2>3. ASSUME NEW c \in Calls, call[c].org = o,
               To(c, "owner") \/ (To(c, "cleanup") /\ Blame(call[c].org, "reply"))
        PROVE  Peopled(o)'
    <3>1. LET r == [call[c] EXCEPT !.step = "owner"] IN r.step = "owner" /\ r.org = o
      BY <1>1, <2>3 DEF Call
    <3>2. CASE To(c, "owner")
      BY <1>1, <3>1, <3>2 DEF To, Go, Peopled
    <3>3. CASE Blame(o, "reply")
      BY <1>1, <3>3 DEF Blame, Peopled
    <3> QED  BY <2>3, <3>2, <3>3
  <2>4. Peopled(o)'
    <3>1. \/ Peopled(users'[u].org)
          \/ \E c \in Calls : /\ users'[u].org = call[c].org
                              /\ To(c, "owner") \/ (To(c, "cleanup") /\ Blame(call[c].org, "reply"))
      BY <1>3, Members
    <3> QED  BY <2>1, <2>2, <2>3, <3>1
  <2> QED  BY <2>1, <2>4 DEF Peopled
<1>4. \A u \in Users : users'[u] # NoRow => Peopled(users[u].org)'
  BY <1>3
<1>5. \A s \in Sessions : token'[s] # NoClaim => Peopled(token[s].org)'
  BY <1>2
<1> QED  BY <1>4, <1>5 DEF MemberInv, Peopled

LEMMA RaceSetUp ==
    ASSUME TypeInv, RaceInv, NEW c \in Calls, SetUpStep(c)
    PROVE  RaceInv'
<1> SUFFICES ASSUME ~raced' PROVE RaceInv'
  BY DEF RaceInv
<1>1. call \in [Calls -> Call] /\ orgs \in [Orgs -> Org \cup {NoRow}]
  BY DEF TypeInv, TypeOK
<1>2. raced = raced' \/ \E e \in Users : SetupInitialOrganization(c, e)
  BY DEF SetUpStep, SaveOrganization, SaveFails, CreateUserSystem, CreateFails, FetchExisting,
     FetchFails, DeleteOrganization, DeleteFails, UpdateOwner, ActivateOrganization, setUp
<1>3. /\ ~raced
      /\ \A d, e \in Calls : InSetUp(d) /\ InSetUp(e) => d = e
      /\ \A d \in Calls : At(d, "save") => ~ExistsAny
      /\ \A o, p \in Orgs : orgs[o] # NoRow /\ orgs[p] # NoRow => o = p
  <2>1. ~raced
    BY <1>2, Zenon DEF SetupInitialOrganization
  <2> QED  BY <2>1 DEF RaceInv
<1>4. \A d \in Calls : d # c => call'[d] = call[d]
  BY <1>1, SetUpSessions
<1>5. ASSUME NEW e \in Users, SetupInitialOrganization(c, e) PROVE RaceInv'
  <2>1. /\ ~ExistsAny /\ orgs' = orgs /\ \A d \in Calls : ~InSetUp(d)
    BY <1>5 DEF SetupInitialOrganization, tables
  <2>2. \A d \in Calls : d # c => ~InSetUp(d)' /\ ~At(d, "save")'
    BY <1>4, <2>1 DEF InSetUp, At, SetUpSteps
  <2> QED  BY <1>3, <2>1, <2>2 DEF RaceInv, ExistsAny
<1>6. CASE SaveOrganization(c)
  <2>1. PICK o \in Orgs : orgs[o] = NoRow /\ orgs' = [orgs EXCEPT ![o] = NewOrganization]
    BY <1>6 DEF SaveOrganization
  <2>2. At(c, "save") /\ InSetUp(c)
    BY <1>6 DEF SaveOrganization, At, InSetUp, SetUpSteps
  <2>3. \A d \in Calls : d # c => ~InSetUp(d)' /\ ~At(d, "save")'
    BY <1>3, <1>4, <2>2 DEF InSetUp, At, SetUpSteps
  <2>4. ~At(c, "save")'
    <3>1. Idle.step # "save" /\ \A o2 : [call[c] EXCEPT !.step = "create", !.org = o2].step # "save"
      BY <1>1 DEF Idle, Call
    <3>2. CASE Reply(c)
      BY <1>1, <3>1, <3>2 DEF Reply, Go, At
    <3>3. ASSUME NEW o2 \in Orgs, Go(c, [call[c] EXCEPT !.step = "create", !.org = o2])
          PROVE  ~At(c, "save")'
      <4>1. [call[c] EXCEPT !.step = "create", !.org = o2].step # "save"
        BY <3>1
      <4> QED  BY <1>1, <3>3, <4>1 DEF Go, At
    <3> QED  BY <1>6, <3>2, <3>3 DEF SaveOrganization
  <2>5. \A p, q \in Orgs : orgs'[p] # NoRow /\ orgs'[q] # NoRow => p = q
    BY <1>1, <1>3, <2>1, <2>2 DEF ExistsAny
  <2> QED  BY <2>3, <2>4, <2>5 DEF RaceInv
<1>7. CASE ~SaveOrganization(c) /\ \A e \in Users : ~SetupInitialOrganization(c, e)
  <2>1. InSetUp(c)
    BY <1>7 DEF SetUpStep, SaveFails, CreateUserSystem, CreateFails, FetchExisting, FetchFails,
       DeleteOrganization, DeleteFails, UpdateOwner, ActivateOrganization, At, InSetUp, SetUpSteps
  <2>2. \A d \in Calls : InSetUp(d)' => InSetUp(d)
    BY <1>4, <2>1 DEF InSetUp
  <2>3. Reply(c) \/ \E step \in SetUpSteps \ {"save"} : To(c, step)
    BY <1>7 DEF SetUpStep, SaveFails, CreateUserSystem, CreateFails, FetchExisting, FetchFails,
       DeleteOrganization, DeleteFails, UpdateOwner, ActivateOrganization, WithExisting, SetUpSteps
  <2>4. ~At(c, "save")'
    <3>1. Idle.step # "save"
      BY DEF Idle
    <3>2. CASE Reply(c)
      BY <1>1, <3>1, <3>2 DEF Reply, Go, At
    <3>3. ASSUME NEW step \in SetUpSteps \ {"save"}, To(c, step) PROVE ~At(c, "save")'
      <4>1. [call[c] EXCEPT !.step = step].step # "save"
        BY <1>1 DEF Call
      <4> QED  BY <1>1, <3>3, <4>1 DEF To, Go, At
    <3> QED  BY <2>3, <3>2, <3>3
  <2>5. \A d \in Calls : At(d, "save")' => At(d, "save")
    BY <1>4, <2>4 DEF At
  <2>6. \A o \in Orgs : orgs'[o] # NoRow => orgs[o] # NoRow
    <3>1. CASE orgs' = orgs
      BY <3>1
    <3>2. call[c].step # "save" => call[c].org \in Orgs /\ orgs[call[c].org] # NoRow
      BY <2>1 DEF TypeInv, Shape, InSetUp, SetUpSteps
    <3>3. SaveFails(c) => orgs' = orgs
      BY DEF SaveFails, tables
    <3>4. CASE ~SaveFails(c)
      <4>1. call[c].step # "save"
        BY <1>7, <3>4 DEF SetUpStep, CreateUserSystem, CreateFails, FetchExisting, FetchFails,
           DeleteOrganization, DeleteFails, UpdateOwner, ActivateOrganization, At
      <4>2. \A p \in Orgs : p # call[c].org => orgs'[p] = orgs[p]
        BY <1>1, <1>7, <3>4 DEF SetUpStep, CreateUserSystem, CreateFails, FetchExisting,
           FetchFails, DeleteOrganization, DeleteFails, UpdateOwner, ActivateOrganization,
           Deleted, tables
      <4> QED  BY <3>2, <4>1, <4>2
    <3> QED  BY <3>1, <3>3, <3>4
  <2>7. ExistsAny' => ExistsAny
    BY <2>6 DEF ExistsAny
  <2> QED  BY <1>3, <2>2, <2>5, <2>6, <2>7 DEF RaceInv
<1> QED  BY <1>5, <1>6, <1>7

SetUpsInv == RolesInv /\ SetUpInv /\ MemberInv /\ RaceInv

LEMMA SetUpsStep == SetUpsInv /\ [Next]_vars => SetUpsInv'
<1> SUFFICES ASSUME SetUpsInv, [Next]_vars PROVE SetUpsInv'
  OBVIOUS
<1> USE DEF SetUpsInv, RolesInv
<1>1. TypeInv' /\ RowInv' /\ CopyInv' /\ Grows
  BY TypeStep, RowStep
<1>2. MemberInv'
  BY <1>1, MemberStep
<1>3. ASSUME NEW c \in Calls, SetUpStep(c) PROVE SetUpInv' /\ RaceInv'
  BY <1>1, <1>3, SetUpSetUp, RaceSetUp
<1>4. ASSUME NEW c \in Calls, SessionStep(c) \/ RoleStep(c) \/ Refuse(c) PROVE SetUpInv' /\ RaceInv'
  BY <1>1, <1>4, AsideSetUp
<1>5. CASE UNCHANGED vars \/ \E s \in Sessions : RevokeToken(s)
  <2>1. UNCHANGED <<users, orgs, leaked, told, trouble, raced, call>>
    BY <1>5 DEF vars, RevokeToken, tables, setUp
  <2>2. \A o \in Orgs : OrgOK(o)'
    BY <1>1, <2>1, OrgSame DEF SetUpInv
  <2>3. RaceInv'
    BY <2>1 DEF RaceInv, InSetUp, At, ExistsAny
  <2> QED  BY <1>1, <1>2, <2>1, <2>2, <2>3 DEF SetUpInv
<1> QED  BY <1>1, <1>2, <1>3, <1>4, <1>5 DEF Next

LEMMA SetUpsInvariant == Spec => []SetUpsInv
<1>1. Init => SetUpsInv
  BY TypeInit, RowInit, SetUpInit DEF SetUpsInv, RolesInv
<1> QED  BY <1>1, SetUpsStep, PTL DEF Spec

\* Only set-ups that overlap make a second organisation.
THEOREM OnlyOneOrganisation == Spec => []OneOrganisation
<1>1. SetUpsInv => OneOrganisation
  <2> SUFFICES ASSUME SetUpsInv, ~raced
               PROVE  ~(Cardinality({o \in Orgs : orgs[o] # NoRow}) > 1)
    BY DEF OneOrganisation
  <2> DEFINE there == {o \in Orgs : orgs[o] # NoRow}
  <2>1. \A o, p \in there : o = p
    BY DEF SetUpsInv, RaceInv
  <2>2. CASE there = {}
    <3>1. Cardinality(there) = 0
      BY <2>2, FS_EmptySet
    <3> QED  BY <3>1
  <2>3. CASE there # {}
    <3>1. PICK o : there = {o}
      BY <2>1, <2>3
    <3>2. Cardinality({o}) = 1
      BY FS_Singleton
    <3> QED  BY <3>1, <3>2
  <2> QED  BY <2>2, <2>3
<1> QED  BY <1>1, SetUpsInvariant, PTL

\* An organisation whose set-up reported success has an OWNER, and is active and the
\* OWNER's own unless one of the last two statements failed.
THEOREM SuccessMeansUsable == Spec => []SuccessIsUsable
<1>1. SetUpsInv => SuccessIsUsable
  BY DEF SetUpsInv, RolesInv, TypeInv, TypeOK, SetUpInv, OrgOK, SuccessIsUsable
<1> QED  BY <1>1, SetUpsInvariant, PTL

\* A set-up that failed leaves neither a live organisation nor an OWNER, unless a
\* reply got lost or the deletion failed.
THEOREM FailureLeavesNothing == Spec => []FailureCleansUp
<1>1. SetUpsInv => FailureCleansUp
  <2> SUFFICES ASSUME SetUpsInv, NEW o \in Orgs \ told, trouble[o] = {},
                      \A c \in Calls : call[c].org # o
               PROVE  (orgs[o] # NoRow => ~Live(orgs[o])) /\ ~\E u \in Users : OwnerOf(o, u)
    BY DEF FailureCleansUp
  <2>1. orgs[o] # NoRow => ~Live(orgs[o])
    BY DEF SetUpsInv, SetUpInv, OrgOK
  <2>2. ~Peopled(o)
    BY DEF Peopled
  <2> QED  BY <2>1, <2>2 DEF SetUpsInv, MemberInv, OwnerOf
<1> QED  BY <1>1, SetUpsInvariant, PTL

\* DeleteOrg leaves a transaction open only after a lost reply or a failure of its own.
THEOREM LeaksComeFromFaults == Spec => []LeaksNeedFaults
<1>1. SetUpsInv => LeaksNeedFaults
  BY DEF SetUpsInv, RolesInv, TypeInv, TypeOK, SetUpInv, OrgOK, LeaksNeedFaults
<1> QED  BY <1>1, SetUpsInvariant, PTL

=============================================================================
