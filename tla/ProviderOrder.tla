---------------------------- MODULE ProviderOrder ----------------------------
(***************************************************************************)
(* What the tool scheduler promises, without its queue: the calls of one   *)
(* model step are submitted in provider order, may overlap, and a call     *)
(* runs only when every earlier call it conflicts with is over.  A batch   *)
(* run this way leaves the resources as if its calls had run one by one in *)
(* provider order.  (The contract in the header of tool-scheduler.ts and   *)
(* of tool-call.ts.)                                                       *)
(***************************************************************************)
EXTENDS Naturals, Sequences

CONSTANTS
    Access,          \* the access declarations calls are submitted with
    Clash(_, _)      \* when two declarations conflict

VARIABLES
    declared,        \* declared[t]: the accesses of the t-th submitted call
    phase            \* phase[t] \in {"waiting", "running", "over"}

vars == <<declared, phase>>

Phases == {"waiting", "running", "over"}

\* Every earlier call that t conflicts with is over, in the phases p.
ClearToRun(t, d, p) ==
    \A u \in 1..(t - 1) : Clash(d[t], d[u]) => p[u] = "over"

Init == declared = << >> /\ phase = << >>

\* The next call of the step is submitted; it runs at once or waits.
Submit(a) ==
    \E start \in {"waiting", "running"} :
        /\ declared' = Append(declared, a)
        /\ phase' = Append(phase, start)
        /\ start = "running" => ClearToRun(Len(declared) + 1, declared', phase')

\* Running call t is over; a set of waiting calls may start on its heels.
Complete(t) ==
    /\ phase[t] = "running"
    /\ \E S \in SUBSET {u \in DOMAIN phase : phase[u] = "waiting"} :
          /\ phase' = [u \in DOMAIN phase |->
                          IF u = t THEN "over"
                          ELSE IF u \in S THEN "running" ELSE phase[u]]
          /\ \A u \in S : ClearToRun(u, declared, phase')
    /\ UNCHANGED declared

Next ==
    \/ \E a \in Access : Submit(a)
    \/ \E t \in DOMAIN phase : Complete(t)

Spec == Init /\ [][Next]_vars
=============================================================================
