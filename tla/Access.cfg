CONSTANTS
    Requests = {r1, r2}
    Users = {u1}
    Passwords = {p1, p2}
    None = None
    MaxSecrets = 2
    MaxPuts = 2
SPECIFICATION Spec
INVARIANTS
    TypeOK
    SessionsStayValid
    
