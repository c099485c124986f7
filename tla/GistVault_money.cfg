\* The money: tips, batches, fee changes and claims over two ledgers.
SPECIFICATION Spec
CONSTANTS
    alice = alice
    bob = bob
    carol = carol
    dao = dao
    g1 = g1
    g2 = g2
    k1 = k1
    k2 = k2
    Account = {alice, bob, carol, dao}
    Administrator = {dao}
    Tipper = {alice}
    Author = {bob, carol}
    Vault = vault
    Treasury = {dao}
    Registry = {reg1}
    GistId = {g1, g2}
    Key = {k1, k2}
    Amount = {0, 5, 12}
    Batches <- MCBatches
    FeeRate = {0, 1, 2, 3}
    Donation = {}
    InitialBalance <- MCBalance
    NoAddress = NoAddress
    NoRecord = NoRecord
    MAX_FEE_BPS = 2
    BPS_DENOMINATOR = 10
    MAX_BATCH_SIZE = 2
    LEDGERS_PER_HOUR = 2
    TIP_RECORD_TTL_HOURS = 1
    MaxI128 = 30
    MaxLedger = 1
SYMMETRY MCSymmetry
INVARIANTS
    TypeOK
    BalanceInvariant
    GrossAccounted
    FeeCap
PROPERTIES
    EventsReconcile
