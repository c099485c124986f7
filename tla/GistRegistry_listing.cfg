\* Listings read while gists come and go, and every gist goes in the end.
SPECIFICATION ListingSpec
CONSTANTS
    Account = {ann, mod}
    Administrator = {mod}
    Author = {ann}
    NoAddress = NoAddress
    NoGist = NoGist
    NoTtl = NoTtl
    TtlArg <- MCTtlArg
    ExpireBatches <- MCExpireBatches
    Covered = {1, 3}
    Reader = ann
    Limit = 1
    LEDGERS_PER_HOUR = 1
    SECONDS_PER_HOUR = 2
    DEFAULT_GIST_TTL_HOURS = 2
    MAX_GIST_TTL_HOURS = 2
    EXTENSION_HOURS = 1
    AUTHOR_LIST_TTL_HOURS = 3
    MAX_AUTHOR_GISTS = 2
    MAX_EXPIRE_BATCH = 2
    MAX_PAGE_LIMIT = 1
    Refused = Refused
    LedgerSeconds = {2}
    Genesis = 10
    PostDeadline = 14
    MaxGists = 3
    MaxTime = 22
INVARIANTS
    PagesNeverRepeat
    SkipsAreVacated
    AuthorIndexComplete
PROPERTIES
    EventuallyEvicted
