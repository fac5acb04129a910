CONSTANT Steps = {s1, s2, s3, s4}
SPECIFICATION LeaseSpec
INVARIANT ServerStaysUpForUsers
PROPERTY LeaseEnds
\* Every step runs once.
CHECK_DEADLOCK FALSE
