SPECIFICATION FairSpec
CONSTANTS
    Threads = {t1, t2}
    Kernel = {{}, {t2}}
    Messages = {m1, m2}
    NoMessage = NoMessage
    NoThread = NoThread
    Capacity = 2
    MaxWaiters = 1
INVARIANTS TypeOK
PROPERTIES ImplementsChannel 
