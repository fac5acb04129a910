----------------------------- MODULE MCWatchTicks -----------------------------
EXTENDS WatchTicks
MCPrs == {1, 2}
MCGenerated == {1}
==============================================================================
