\* Posting, extending, expiring and evicting, with ledgers of 2 or 3 seconds.
SPECIFICATION Spec
CONSTANTS
    ann = ann
    ben = ben
    mod = mod
    Account = {ann, ben, mod}
    Administrator = {mod}
    Author = {ann, ben}
    NoAddress = NoAddress
    NoGist = NoGist
    NoTtl = NoTtl
    TtlArg <- MCTtlArg
    ExpireBatches <- MCExpireBatches
    LEDGERS_PER_HOUR = 2
    SECONDS_PER_HOUR = 4
    DEFAULT_GIST_TTL_HOURS = 1
    MAX_GIST_TTL_HOURS = 2
    EXTENSION_HOURS = 1
    AUTHOR_LIST_TTL_HOURS = 3
    MAX_AUTHOR_GISTS = 1
    MAX_EXPIRE_BATCH = 2
    MAX_PAGE_LIMIT = 1
    Refused = Refused
    LedgerSeconds = {2, 3}
    Genesis = 10
    PostDeadline = 16
    MaxGists = 2
    MaxTime = 30
SYMMETRY MCSymmetry
INVARIANTS
    TypeOK
    NoEarlyEviction
    StorageBounded
PROPERTIES
    ClosedStaysClosed
