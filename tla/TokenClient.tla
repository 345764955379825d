----------------------------- MODULE TokenClient -----------------------------
(***************************************************************************)
(* What the lock around a refresh promises: however many processes share   *)
(* the token file, they are one client to the authorization server.  It    *)
(* presents the stored token, one at a time, and before it presents        *)
(* another the answer is stored, given up or lost with the process that    *)
(* awaited it.  (ensureFresh, packages/oauth/src/oauth-manager.ts.)        *)
(***************************************************************************)
EXTENDS Naturals

CONSTANTS None, Missing, Revoked

VARIABLES
    file,            \* the stored token, Missing or Revoked
    granted, live,   \* tokens granted, and those the server would refresh
    client           \* where the client is, and the token it presents or is to store

vars == <<file, granted, live, client>>

Idle == [at |-> "idle", token |-> None]

Init == file = 1 /\ granted = 1 /\ live = {1} /\ client = Idle

Goto(at, token) == client' = [at |-> at, token |-> token]
Rest == client' = Idle
Server == <<granted, live>>

\* The stored token, or, when the user has signed out meanwhile, an older one.
Present ==
    /\ client.at = "idle"
    /\ \E token \in 1..granted : file \in {token, Missing} /\ Goto("request", token)
    /\ UNCHANGED <<file, Server>>

Spend ==
    /\ client.at = "request" /\ client.token \in live
    /\ granted' = granted + 1
    /\ live' = (live \ {client.token}) \cup {granted + 1}
    /\ UNCHANGED file

Refreshed == Spend /\ Goto("save", granted + 1)
AnswerLost == Spend /\ (Rest \/ UNCHANGED client)

Refused ==
    /\ client.at = "request" /\ client.token \notin live
    /\ Goto("recover", client.token)
    /\ UNCHANGED <<file, Server>>

Save ==
    /\ client.at = "save"
    /\ file' = client.token /\ Rest
    /\ UNCHANGED Server

\* A refused token that is not the stored one condemns nothing.
Recover ==
    /\ client.at = "recover"
    /\ IF file \in (1..granted) \ {client.token} THEN Rest ELSE Goto("tombstone", None)
    /\ UNCHANGED <<file, Server>>

Condemn ==
    /\ client.at = "tombstone"
    /\ file' = Revoked /\ Rest
    /\ UNCHANGED Server

\* The tries are used up, or the process dies.
GiveUp == client.at # "idle" /\ Rest /\ UNCHANGED <<file, Server>>

login ==
    /\ granted' = granted + 1 /\ live' = live \cup {granted + 1} /\ file' = granted + 1
    /\ UNCHANGED client
logout == file' = Missing /\ UNCHANGED <<Server, client>>
Withdraw == (\E token \in live : live' = live \ {token}) /\ UNCHANGED <<file, granted, client>>

Next ==
    \/ Present \/ Refreshed \/ AnswerLost \/ Refused \/ Save \/ Recover \/ Condemn \/ GiveUp
    \/ login \/ logout \/ Withdraw

Spec == Init /\ [][Next]_vars
=============================================================================
