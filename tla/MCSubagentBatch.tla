-------------------------- MODULE MCSubagentBatch --------------------------
EXTENDS SubagentBatch
=============================================================================
