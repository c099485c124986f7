\* The vault's own events, read by the tool while tips, batches, fee changes and claims go on.
SPECIFICATION AuditSpec
CONSTANTS
    alice = alice
    bob = bob
    dao = dao
    g1 = g1
    k1 = k1
    Account = {alice, bob, dao}
    Administrator = {dao}
    Tipper = {alice}
    Author = {bob}
    Vault = vault
    Treasury = {dao}
    Registry = {reg1}
    GistId = {g1}
    Key = {k1}
    Amount = {5}
    Batches <- MCBatches
    FeeRate = {2}
    Donation = {}
    InitialBalance <- MCBalance
    NoAddress = NoAddress
    NoRecord = NoRecord
    MAX_FEE_BPS = 2
    BPS_DENOMINATOR = 10
    MAX_BATCH_SIZE = 2
    LEDGERS_PER_HOUR = 2
    TIP_RECORD_TTL_HOURS = 0
    MaxI128 = 100
    MaxLedger = 1
    Data <- MCData
    Ranges <- MCRanges
    PageLimit = 2
    MaxEvents = 3
INVARIANTS
    LogTellsStorage
    ReportTellsStorage
    NeverDrifts
PROPERTIES
    ImplementsReconcile
    CreditsNoMoreThanOwed
