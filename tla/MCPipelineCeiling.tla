-------------------------- MODULE MCPipelineCeiling --------------------------
EXTENDS PipelineCeiling

\* Every option on its own and with the refuter, everything, and everything but
\* the refuter; each with the controller shared and not.
MCWants ==
  {Options, Options \ {"refuter"}, {"hunters"}, {}}
    \cup {{"hunters", "refuter", o} : o \in Options}

MCConfigs == [wants : MCWants, shared : BOOLEAN]
==============================================================================
