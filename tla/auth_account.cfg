CONSTANTS
    Requests = {r1, r2}
    Ops = {"register", "login", "refresh", "logout", "update", "change"}
    RefreshLife = 3
    AccessLife = 1
    MaxRequests = 6
    MaxPasswords = 2
    MaxTime = 3
SPECIFICATION Spec
SYMMETRY MCSymmetry
INVARIANTS OneHeir
PROPERTIES SpentStaysSpent PasswordStaysReplaced
