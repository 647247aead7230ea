SPECIFICATION Spec
CONSTANTS
    c1 = c1
    c2 = c2
    s1 = s1
    s2 = s2
    s3 = s3
    u1 = u1
    u2 = u2
    u3 = u3
    u4 = u4
    o1 = o1
    o2 = o2
    nobody = nobody
    Calls = {c1, c2}
    Sessions = {s1, s2, s3}
    Users = {u1, u2, u3, u4}
    Orgs = {o1, o2}
    Nobody = nobody
    Home = o1
    Founder = u1
    Leader = u2
    Worker = u3
    MaxCalls = 3
SYMMETRY Symmetry
INVARIANTS
    TypeOK
    OneOrganisation
    SuccessIsUsable
    FailureCleansUp
    LeaksNeedFaults
    LogoutIsFinal
PROPERTIES
    OwnersStay
    EmployeesGrantNothing
\* When every request has been served nothing is left to do.
CHECK_DEADLOCK FALSE
