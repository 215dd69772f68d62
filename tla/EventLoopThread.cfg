CONSTANT Objects = {o1, o2, o3}
SPECIFICATION ThreadFairSpec
INVARIANT StartedLoopIsAlive
PROPERTIES StartReturns DestructorReturns
CHECK_DEADLOCK FALSE
