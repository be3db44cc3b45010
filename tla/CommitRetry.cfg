CONSTANTS
    Sessions = {1, 2}
    MaxRetries = 3
SPECIFICATION Spec
INVARIANT NoDataLoss
CHECK_DEADLOCK FALSE
