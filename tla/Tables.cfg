\* Accounts without the two unique indexes, and lists of three rows.  The other
\* components rest, and get as little to rest on as they can.
SPECIFICATION StoresSpec
CONSTANTS
    Users = {a1, a2}
    Names = {b1, b2}
    Mails = {m1, m2}
    Passwords = {p1}
    Calls = {c1, c2}
    MaxChanges = 1
    Indexed = FALSE
    None = None
    MaxRows = 3
    Limits = {2}
    Asked = {"user", "user_pin"}
    Worlds = {"accounts", "listing"}
    Codes = {x}
    Callers = {}
    Texts = {""}
    Editors = {}
    Prints = {}
    Devs = {}
    Accts = {}
    Clients = {}
    FileIds = {}
    Contents = {x}
    Workers = {}
    Keys = {}
    Lookups = {}
    RedisFaults = FALSE
    Flows = {}
    Callbacks = {}
SYMMETRY Symmetry
INVARIANTS
    DuplicatesNeedARace
    WalkMissesNothing
CHECK_DEADLOCK FALSE
