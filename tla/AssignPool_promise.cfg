CONSTANTS
    Tasks = {t1, t2, t3}
    Workers = {w1, w2, w3}
SPECIFICATION FairSpec
INVARIANT NoLostWakeup
PROPERTIES ImplementsTaskPool AcceptedTaskFinishes DestructorReturns
CHECK_DEADLOCK FALSE
