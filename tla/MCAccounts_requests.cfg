SPECIFICATION Spec
CONSTANTS
    Email = {"admin", "seed"}
    AdminEmail = "admin"
    SeedEmails = {"admin", "seed"}
    Role = {"viewer"}
    Thread = {t1, t2}
    t1 = t1
    t2 = t2
    ServiceRoles = {"viewer"}
    Requests = 4
    Crashes = 1
SYMMETRY Threads
CHECK_DEADLOCK FALSE
INVARIANTS AccountsWhole LockoutNeedsTwo SeedUsable
