------------------------- MODULE OrganizationSetup -------------------------
(***************************************************************************)
(* SetupInitialOrganization: organisation, owner, owner_id and is_active   *)
(* are written by four statements without a transaction; when one before   *)
(* the last two fails, DeleteOrganization takes the organisation back.     *)
(* Any statement may fail, and the reply to one that was executed may get  *)
(* lost (a cancelled request, a broken connection).                        *)
(***************************************************************************)
EXTENDS Accounts

Blame(o, why) == trouble' = [trouble EXCEPT ![o] = @ \cup {why}]

\* Wrong on purpose (mutant): only active organisations count.
ExistsActive == \E o \in Orgs : orgs[o] # NoRow /\ orgs[o].active

\* ExistsAny has no WHERE: deleted organisations count too.
ExistsAny == \E o \in Orgs : orgs[o] # NoRow

\* e: the e-mail address of the owner to be.
SetupInitialOrganization(c, e) ==
    /\ ~ExistsAny
    /\ Begin(c, [Idle EXCEPT !.step = "save", !.who = e])
    /\ raced' = (raced \/ \E d \in Calls : InSetUp(d))
    /\ UNCHANGED <<tables, sessions, told, trouble, held>>

\* Wrong on purpose (mutant): OwnerID points to the empty string.
EmptyOwner == [life |-> "live", owner |-> "", active |-> FALSE]

NewOrganization == [life |-> "live", owner |-> Nobody, active |-> FALSE]

\* A lost reply ends the call as a failure does: nobody takes the row back.
SaveOrganization(c) ==
    /\ At(c, "save")
    /\ \E o \in {x \in Orgs : orgs[x] = NoRow} :
          /\ orgs' = [orgs EXCEPT ![o] = NewOrganization]
          /\ \/ /\ Go(c, [call[c] EXCEPT !.step = "create", !.org = o])
                /\ UNCHANGED trouble
             \/ Reply(c) /\ Blame(o, "reply")
    /\ UNCHANGED <<users, leaked, sessions, told, raced, held>>

SaveFails(c) ==
    /\ At(c, "save")
    /\ Reply(c)
    /\ UNCHANGED <<tables, sessions, setUp, held>>

\* The look at the e-mail address is repeated by ON CONFLICT (email) DO NOTHING.
CreateUserSystem(c) ==
    /\ At(c, "create")
    /\ IF users[call[c].who] = NoRow
       THEN /\ Write(call[c].who, NewUser("OWNER", call[c].org))
            /\ \/ To(c, "owner") /\ UNCHANGED trouble
               \/ To(c, "cleanup") /\ Blame(call[c].org, "reply")
       ELSE To(c, "fetch") /\ UNCHANGED <<users, held, trouble>>
    /\ UNCHANGED <<orgs, leaked, sessions, told, raced>>

\* Wrong on purpose (mutant): the error is returned without taking anything back.
ReturnsAtOnce(c) ==
    /\ At(c, "create")
    /\ Reply(c)
    /\ UNCHANGED <<tables, sessions, setUp, held>>

\* The password is shorter than CreateUserSystem wants it, or a statement fails.
CreateFails(c) ==
    /\ At(c, "create")
    /\ To(c, "cleanup")
    /\ UNCHANGED <<tables, sessions, setUp, held>>

\* What to do with a user of that address: u the row, o the new organisation.
WithExisting(u, o) ==
    IF Live(u) /\ u.role = "OWNER" /\ u.org = o THEN "owner" ELSE "cleanup"

FetchExisting(c) ==
    /\ At(c, "fetch")
    /\ To(c, WithExisting(users[call[c].who], call[c].org))
    /\ UNCHANGED <<tables, sessions, setUp, held>>

FetchFails(c) ==
    /\ At(c, "fetch")
    /\ To(c, "cleanup")
    /\ UNCHANGED <<tables, sessions, setUp, held>>

\* Wrong on purpose (mutant): the COUNT lacks organization_id.
HasAnyUsers(o) == \E u \in Users : users[u] # NoRow /\ Live(users[u])

HasUsers(o) == \E u \in Users : users[u] # NoRow /\ Live(users[u]) /\ users[u].org = o

Deleted(o) == [orgs EXCEPT ![o].life = "deleted", ![o].active = FALSE]

\* DeleteOrg: of the errors before the COMMIT only a failed UPDATE reaches the
\* deferred rollback; the other returns leave the transaction open.
DeleteOrganization(c) ==
    LET o == call[c].org
    IN  /\ At(c, "cleanup")
        /\ IF HasUsers(o)
           THEN leaked' = leaked \cup {o} /\ UNCHANGED orgs
           ELSE orgs' = Deleted(o) /\ UNCHANGED leaked
        /\ Reply(c)
        /\ UNCHANGED <<users, sessions, setUp, held>>

\* A statement fails, or the reply to the COMMIT gets lost.
DeleteFails(c) ==
    LET o == call[c].org
    IN  /\ At(c, "cleanup")
        /\ \/ leaked' \in {leaked, leaked \cup {o}} /\ UNCHANGED orgs
           \/ ~HasUsers(o) /\ orgs' = Deleted(o) /\ UNCHANGED leaked
        /\ Blame(o, "cleanup")
        /\ Reply(c)
        /\ UNCHANGED <<users, sessions, told, raced, held>>

\* UpdateOwner, whose failure is only logged.
UpdateOwner(c) ==
    LET o == call[c].org
    IN  /\ At(c, "owner")
        /\ \/ /\ orgs' = [orgs EXCEPT ![o].owner = call[c].who]
              /\ UNCHANGED trouble
           \/ /\ orgs' \in {orgs, [orgs EXCEPT ![o].owner = call[c].who]}
              /\ Blame(o, "statement")
        /\ To(c, "activate")
        /\ UNCHANGED <<users, leaked, sessions, told, raced, held>>

\* Wrong on purpose (mutant): the test for OwnerID == nil is the wrong way round.
Unowned(o, u) == Live(orgs[o]) /\ orgs[o].owner = Nobody

\* ActivateOrganization's checks.
MayActivate(o, u) == Live(orgs[o]) /\ orgs[o].owner = u

\* ActivateOrganization, whose failure is only logged; the set-up reports success.
ActivateOrganization(c) ==
    LET o == call[c].org
    IN  /\ At(c, "activate")
        /\ \/ orgs' = [orgs EXCEPT ![o].active = MayActivate(o, call[c].who)] /\ UNCHANGED trouble
           \/ /\ orgs' \in {orgs, [orgs EXCEPT ![o].active = MayActivate(o, call[c].who)]}
              /\ Blame(o, "statement")
        /\ told' = told \cup {o}
        /\ Reply(c)
        /\ UNCHANGED <<users, leaked, sessions, raced, held>>

SetUpStep(c) ==
    \/ \E e \in Users : SetupInitialOrganization(c, e)
    \/ SaveOrganization(c) \/ SaveFails(c) \/ CreateUserSystem(c) \/ CreateFails(c)
    \/ FetchExisting(c) \/ FetchFails(c) \/ DeleteOrganization(c) \/ DeleteFails(c)
    \/ UpdateOwner(c) \/ ActivateOrganization(c)

=============================================================================
