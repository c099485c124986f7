\* Editing the list, with copies and replacements, and posting through it.
SPECIFICATION Spec
CONSTANTS
    Account = {adm, heir, usr}
    Administrator = {adm, heir}
    Registry = {reg1, reg2}
    NoAddress = NoAddress
    Prefix <- MCPrefix
    Boundary <- MCBoundary
    Geohash <- MCGeohash
    ValidChar = {"u", "4", "p", "s"}
    GEOHASH_LENGTH = 3
    MAX_PREFIX_LENGTH = 2
    MAX_PREFIXES = 3
    BUFFER_LENGTH = 4
INVARIANTS
    TypeOK
    RegionAsIntended
