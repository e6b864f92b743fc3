SPECIFICATION Spec
CONSTANTS
    u1 = u1
    u2 = u2
    u3 = u3
    u4 = u4
    r1 = r1
    r2 = r2
    r3 = r3
    c1 = c1
    Users = {u1, u2, u3, u4}
    Names = {"admin", "analyst"}
    Passwords = {"p", "q"}
    Codes = {c1}
    Requests = {r1, r2, r3}
    Workers = 2
    Operations = {"change", "reset"}
    Administrators = {u1}
    Analysts = {u2}
    NameOf <- MCNameOf
INVARIANTS
    ResetForcesChange
