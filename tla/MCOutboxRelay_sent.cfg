SPECIFICATION Spec
CONSTANTS
    c1 = c1
    c2 = c2
    l1 = l1
    u1 = u1
    ann = ann
    r1 = r1
    r2 = r2
    Creates = {c1}
    Updates = {}
    Links = {}
    Users = {ann}
    UserOf <- UserOfOneUser
    Relays = {r1}
    First = r1
    RegisteredTypes <- Registered
    BatchSize = 2
    RetryCount = 2
    MaxFaults = 2
INVARIANT SentReachedExchange
