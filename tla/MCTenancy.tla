------------------------------ MODULE MCTenancy ------------------------------
\* Three components that share no state, checked in one run: each behaviour is
\* one of the component named by part, beside the initial states of the others.
EXTENDS Sessions, RateLimiter, Credentials, TLC

CONSTANTS a, b, p1, q1, short, long

\* The processes that serve sessions and credentials are interchangeable.
Servers == Permutations(Process)

Windows == (short :> 1) @@ (long :> 3)

VARIABLE part

Init ==
    /\ part \in {"sessions", "keys", "gates", "credentials"}
    /\ SessionInit /\ LimiterInit /\ CredentialInit

Rest == <<sessionVars, limiterVars, credentialVars>>

LocalStep(g) ==
    \/ \E k \in Key : Fallback(g, k)
    \/ RestartGate(g)
    \/ LimiterTick

\* In "keys" one process without Redis limits two keys with windows of different
\* length, in "gates" two processes limit one key.
Next ==
    \/ part = "sessions" /\ SessionNext /\ UNCHANGED <<limiterVars, credentialVars, part>>
    \/ part = "keys" /\ LocalStep(a) /\ UNCHANGED <<sessionVars, credentialVars, part>>
    \/ part = "gates" /\ LimiterStep(Gate, {long}) /\ UNCHANGED <<sessionVars, credentialVars, part>>
    \/ part = "credentials" /\ CredentialNext /\ UNCHANGED <<sessionVars, limiterVars, part>>

Spec == Init /\ [][Next]_<<Rest, part>>
=============================================================================
