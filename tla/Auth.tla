-------------------------------- MODULE Auth --------------------------------
(***************************************************************************)
(* API keys and the rate limit (ai_governance/auth.py).  The middleware    *)
(* runs on the event loop and does not await between reading a bucket and  *)
(* writing it, so a request is one step.  Tokens are counted in fractions: *)
(* Unit of them make one token, Refill of them come in a tick of the clock.*)
(***************************************************************************)
EXTENDS Integers

CONSTANTS
    Role,       \* the configured keys and their roles: a function to {"admin", "read"}
    Burst,      \* tokens
    Unit, Refill,
    Span        \* the ticks over which admissions are remembered

Key == DOMAIN Role

\* Whoever pauses for as long as admissions are remembered has a full bucket again.
AuthAssumption ==
    /\ Burst \in Nat /\ Unit \in Nat \ {0} /\ Refill \in Nat /\ Span \in Nat \ {0}
    /\ Burst * Unit <= Span * Refill

VARIABLES
    tokens,     \* of each bucket, in fractions
    idle,       \* ticks since last_refill, up to Span
    admitted    \* history: how many requests of the key were let through in the last
                \* ticks, for every number of ticks

authVars == <<tokens, idle, admitted>>

Stretch == 1 .. Span

AuthInit ==
    /\ tokens = [k \in Key |-> Burst * Unit]
    /\ idle = [k \in Key |-> 0]
    /\ admitted = [k \in Key |-> [w \in Stretch |-> 0]]
-----------------------------------------------------------------------------
AtMost(bound, n) == IF bound < n THEN bound ELSE n

\* Wrong version: the tokens of a pause are not capped.
RefilledBeyond(k) == tokens[k] + idle[k] * Refill

\* consume refills the bucket first; last_refill moves even if no token is taken.
Refilled(k) == AtMost(Burst * Unit, tokens[k] + idle[k] * Refill)

Consume(k) ==
    /\ idle' = [idle EXCEPT ![k] = 0]
    /\ IF Refilled(k) >= Unit
       THEN /\ tokens' = [tokens EXCEPT ![k] = Refilled(k) - Unit]
            /\ admitted' = [admitted EXCEPT ![k] = [w \in Stretch |-> @[w] + 1]]
       ELSE /\ tokens' = [tokens EXCEPT ![k] = Refilled(k)]
            /\ UNCHANGED admitted

\* dispatch of a request with a valid key, to a path that is not public.  One without a
\* key, or with an unknown one, is turned away before it has a bucket.
Allowed(k, method, path) == method = "GET" \/ path = "ingestion" \/ Role[k] = "admin"
Request ==
    \E k \in Key, method \in {"GET", "POST"}, path \in {"ingestion", "admin"} :
        Allowed(k, method, path) /\ Consume(k)

Tick ==
    /\ idle' = [k \in Key |-> AtMost(Span, idle[k] + 1)]
    /\ admitted' = [k \in Key |-> [w \in Stretch |-> IF w = 1 THEN 0 ELSE admitted[k][w - 1]]]
    /\ UNCHANGED tokens

AuthNext == Request \/ Tick

AuthSpec == AuthInit /\ [][AuthNext]_authVars
-----------------------------------------------------------------------------
\* Over every stretch of time a key gets through at most the burst and what is refilled
\* in that time, however the requests are spread: being turned away, or not asking for
\* long, earns nothing more.
BurstIsBounded ==
    \A k \in Key, w \in Stretch : Unit * admitted[k][w] <= Burst * Unit + (w - 1) * Refill
=============================================================================
