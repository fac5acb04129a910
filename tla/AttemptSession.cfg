\* One session, every cancellation semantics.
CONSTANT Semantics = {"provider-proof", "process-exit", "undeclared"}
SPECIFICATION FairSpec
INVARIANTS ConfirmedMeansProven NoSilentOrphan ArtifactMatchesResult
PROPERTIES NothingAfterReceipt AlwaysSettles
\* The session ends; nothing is left to do once the transport has settled.
CHECK_DEADLOCK FALSE
