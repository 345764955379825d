---------------------------- MODULE MCRecordsLog ----------------------------
EXTENDS RecordsLog
=============================================================================
