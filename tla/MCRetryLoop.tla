----------------------------- MODULE MCRetryLoop -----------------------------
EXTENDS RetryLoop

\* Every outcome, with one transport cause standing for each class the policy
\* tells apart.
MCAttempts ==
  {o \in Outcomes :
     /\ o.stamped \in {"none", "rate_limit", "auth_invalid", "protocol_truncation"}
     /\ o.found \in {"none", "network_transient", "quota_exhausted"}}
=============================================================================
