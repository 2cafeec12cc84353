SPECIFICATION SyncFairSpec
CONSTANTS
    Threads = {t1, t2, t3}
    Posters = {p1}
INVARIANTS TypesOK LockSound PrimitivesSafe
PROPERTIES ImplementsRwLock WaitsEnd
