--------------------------- MODULE MCSubagentHost ---------------------------
EXTENDS SubagentHost
=============================================================================
