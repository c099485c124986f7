\* docs/SECURITY.md BalanceInvariant, with the vault itself named as treasury.
SPECIFICATION Spec
CONSTANTS
    alice = alice
    bob = bob
    carol = carol
    dao = dao
    g1 = g1
    g2 = g2
    k1 = k1
    k2 = k2
    Account = {alice, bob, carol, dao}
    Administrator = {dao}
    Tipper = {alice, bob}
    Author = {bob, carol}
    Vault = vault
    Treasury = {dao, vault}
    Registry = {reg1}
    GistId = {g1, g2}
    Key = {k1, k2}
    Amount = {5, 12}
    Batches <- MCBatches
    FeeRate = {0, 1}
    Donation = {}
    InitialBalance <- SmallBalance
    NoAddress = NoAddress
    NoRecord = NoRecord
    MAX_FEE_BPS = 2
    BPS_DENOMINATOR = 10
    MAX_BATCH_SIZE = 2
    LEDGERS_PER_HOUR = 2
    TIP_RECORD_TTL_HOURS = 1
    MaxI128 = 30
    MaxLedger = 0
SYMMETRY MCSymmetry
INVARIANTS
    BalanceInvariant
