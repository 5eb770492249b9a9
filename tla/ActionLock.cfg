SPECIFICATION FairSpec
CONSTANTS
    Tokens = {t1, t2, t3}
    Null = Null
INVARIANTS
    MutualExclusion
PROPERTIES
    UpdatesAreAtomic
    OrphanIsReaped
CHECK_DEADLOCK FALSE
