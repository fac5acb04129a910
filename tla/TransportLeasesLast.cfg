\* Two steps are enough to leave a server behind.
CONSTANT Steps = {s1, s2}
SPECIFICATION LeaseSpec
INVARIANT LastLeaseDisposes
CHECK_DEADLOCK FALSE
