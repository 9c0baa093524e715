SPECIFICATION MutexSpec
CONSTANTS
    Lockers = {t1, t2}
    SharedLimit = 4
    UniqueLimit = 4
INVARIANT UpgradeIsAtomic
