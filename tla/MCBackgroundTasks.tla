-------------------------- MODULE MCBackgroundTasks --------------------------
EXTENDS BackgroundTasks
=============================================================================
