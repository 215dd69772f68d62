CONSTANTS
    Objects <- TwoObjects
SPECIFICATION PoolSpec
PROPERTY RunReturns
CHECK_DEADLOCK FALSE
