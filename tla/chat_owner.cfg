CONSTANTS
    c1 = c1
    c2 = c2
    d1 = d1
    d2 = d2
    u1 = u1
    b1 = b1
    b2 = b2
    p1 = p1
    p2 = p2
    q1 = q1
    q2 = q2
    t1 = t1
    t2 = t2
    t3 = t3
    l1 = l1
    r1 = r1
    admin = admin
    Nobody = Nobody
    Sessions = {c1, c2}
    Devices = {d1, d2}
    Accounts = {u1}
    Turns = {t1, t2, t3}
    Asked <- Anything
    Leads = {l1}
    Handed <- Claimed
    Readers = {r1}
    Wanted <- Read
    Brokers = {b1, b2}
    Admin = admin
    Limit = 1
    HintAfter = 1
    Loads <- ThreeLoads
SYMMETRY Alike
SPECIFICATION SpecReading
CHECK_DEADLOCK FALSE
INVARIANT CustomerTurnsAreOwned
