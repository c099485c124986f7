\* Two authors, a gist each or both of one; tips, batches, extensions, evictions.
SPECIFICATION Spec
CONSTANTS
    ann = ann
    ben = ben
    tia = tia
    dao = dao
    k1 = k1
    k2 = k2
    Account = {ann, ben, tia, dao}
    Administrator = {dao}
    Tipper = {tia}
    Author = {ann, ben}
    Vault = vault
    Treasury = {dao}
    RegistryAddress = reg
    Key = {k1}
    Amount = {12}
    Batches <- MCBatches
    FeeRate = {1}
    InitialBalance <- MCBalance
    TtlArg = {NoTtl}
    ExpireBatches <- MCExpireBatches
    NoAddress = NoAddress
    NoRecord = NoRecord
    NoGist = NoGist
    NoTtl = NoTtl
    MAX_FEE_BPS = 2
    BPS_DENOMINATOR = 10
    MAX_BATCH_SIZE = 2
    LEDGERS_PER_HOUR = 1
    SECONDS_PER_HOUR = 2
    TIP_RECORD_TTL_HOURS = 1
    DEFAULT_GIST_TTL_HOURS = 1
    MAX_GIST_TTL_HOURS = 2
    EXTENSION_HOURS = 1
    AUTHOR_LIST_TTL_HOURS = 3
    MAX_AUTHOR_GISTS = 2
    MAX_EXPIRE_BATCH = 2
    MAX_PAGE_LIMIT = 1
    Refused = Refused
    MaxI128 = 30
    LedgerSeconds = {3}
    Genesis = 10
    PostDeadline = 10
    MaxGists = 2
    MaxTime = 20
SYMMETRY MCSymmetry
INVARIANTS
    EarnedByOwnGists
PROPERTIES
    ImplementsVault
    TipsEndWithStorage
