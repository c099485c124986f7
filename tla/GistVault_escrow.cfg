\* Keys over two record lifetimes and the escrow behind them: the treasury may be the
\* vault itself or an author who tips, two registries share a gist id, and anyone may send
\* the vault tokens.
SPECIFICATION Spec
CONSTANTS
    alice = alice
    bob = bob
    carol = carol
    dao = dao
    g1 = g1
    g2 = g2
    k1 = k1
    k2 = k2
    Account = {alice, bob, carol, dao}
    Administrator = {dao}
    Tipper = {alice, bob}
    Author = {bob, carol}
    Vault = vault
    Treasury = {dao, vault, bob}
    Registry = {reg1, reg2}
    GistId = {g1}
    Key = {k1}
    Amount = {12}
    Batches <- OneGistBatches
    FeeRate = {0, 1}
    Donation = {4}
    InitialBalance <- SmallBalance
    NoAddress = NoAddress
    NoRecord = NoRecord
    MAX_FEE_BPS = 2
    BPS_DENOMINATOR = 10
    MAX_BATCH_SIZE = 2
    LEDGERS_PER_HOUR = 2
    TIP_RECORD_TTL_HOURS = 1
    MaxI128 = 30
    MaxLedger = 3
INVARIANTS
    AtMostOncePerWindow
    RetryAlwaysAccepted
    Solvent
    OwedForOwnGists
    ClaimAlwaysAvailable
PROPERTIES
    ImplementsEscrow
