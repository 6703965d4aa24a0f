SPECIFICATION Spec
CONSTANTS
    Users = {admin, ann, bob}
    Admin = admin
    Clients = {c1, c2}
    Tokens = {t1, t2}
    Keys = {k1}
    None = None
    Ttl = 1
    MaxTime = 1
    MaxRequests = 4
    MaxCrashes = 1
INVARIANTS
    AccessTypeOK
    RequestVouched
    AuditTrail
SYMMETRY Symmetry
CHECK_DEADLOCK FALSE
