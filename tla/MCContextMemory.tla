-------------------------- MODULE MCContextMemory --------------------------
EXTENDS ContextMemory

\* Bound: reminders, compactions, edits and crashes together.
MaxDisturbances == 2

\* Bound: two calls in one step, or two steps of one call.
Small ==
    /\ used.reminders + used.compactions + used.edits + used.restarts <= MaxDisturbances
    /\ used.steps = 2 => \A i \in DOMAIN history : Cardinality(history[i].calls) <= 1
=============================================================================
