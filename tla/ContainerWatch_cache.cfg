SPECIFICATION Spec
CONSTANT Attempts = 2
INVARIANT CacheFailureReported
\* the executor returns, and the process exits
CHECK_DEADLOCK FALSE
