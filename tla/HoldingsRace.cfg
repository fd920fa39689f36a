SPECIFICATION Spec
CONSTANTS
    u1 = u1
    u2 = u2
    c1 = c1
    c2 = c2
    c3 = c3
    a1 = a1
    p1 = p1
    Users = {u1, u2}
    Posts = {p1}
    Captures = {c1, c2, c3}
    Accounts = {a1}
    OwnerOf <- Owners
    PostOf <- PostsCaptured
    AuthorOf <- Authors
    MethodOf <- Methods
    Texts = {"A"}
    Events = {"e1"}
    Unavailability = {"deleted"}
    MaxWrites = 2
INVARIANT HeldSourceIsLive
CHECK_DEADLOCK FALSE
