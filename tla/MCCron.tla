------------------------------- MODULE MCCron -------------------------------
EXTENDS Cron

CONSTANTS often, once

MCOccurrences == [t \in {often, once} |-> IF t = often THEN {1, 3, 5} ELSE {2}]
MCOffset      == [t \in {often, once} |-> 1]
=============================================================================
