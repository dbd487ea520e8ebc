SPECIFICATION StoresSpec
CONSTANTS
    Users = {a1, a2}
    Names = {b1, b2}
    Mails = {m1, m2}
    Passwords = {p1}
    Calls = {c1, c2}
    MaxChanges = 1
    Indexed = TRUE
    None = None
    Codes = {b1, b2, b3}
    Callers = {c1, c2}
    Texts = {"", "text"}
    Editors = {c1, c2}
    Prints = {b1, b2}
    Devs = {a1, a2}
    Accts = {m1, m2}
    Clients = {c1, c2}
    FileIds = {f1}
    Contents = {b1, b2}
    Workers = {c1, c2}
    Keys = {a1, a2}
    Lookups = {l1}
    RedisFaults = TRUE
    Flows = {a1, a2}
    Callbacks = {c1, c2, c3}
    MaxRows = 2
    Limits = {1}
    Asked = {"user", "user_pin"}
    Worlds = {"oauth"}
SYMMETRY Symmetry
INVARIANTS
    ChallengeIsSingleUse
CHECK_DEADLOCK FALSE
