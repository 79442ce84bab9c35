------------------------------- MODULE TokenCache -------------------------------
(***************************************************************************)
(* The Bedrock token provider in development mode (auth/token-provider.ts):  *)
(* short-lived tokens are minted per region and cached, a mint in flight is   *)
(* shared, and a failed one is dropped.  (A long-term key is returned as it    *)
(* is and keeps no state.)                                                    *)
(***************************************************************************)
EXTENDS Integers, Sequences

CONSTANTS
    Call,      \* who asks for tokens
    Region,    \* the AWS regions
    Ttl,       \* DEV_TOKEN_TTL_SECONDS
    Skew,      \* DEV_TOKEN_SKEW_MS
    MaxMints,  \* bound of the model
    MaxTime    \* bound of the model

ASSUME TokenAssumption ==
    /\ Ttl \in Nat /\ Skew \in Nat /\ Skew < Ttl /\ MaxMints \in Nat /\ MaxTime \in Nat

VARIABLES
    now,
    cache,  \* region -> its entry: the number of a mint, or 0
    mints,  \* the mints so far, in order: [region, state, made, expires]
    waits   \* call -> the mint whose promise it holds, or 0

tokenVars == <<now, cache, mints, waits>>

Mint == 1..Len(mints)
Flying(m) == mints[m].state = "flying"

\* Until its mint is settled an entry has no expiry.  Mutant: a mint in flight does
\* not count.
ReusableOnlySettled(m) == ~Flying(m) /\ mints[m].expires > now
Reusable(m) == Flying(m) \/ mints[m].expires > now

Held(r) == cache[r] # 0 /\ Reusable(cache[r])

\* The provider is asked for a token of region r.
Ask(c, r) ==
    /\ waits[c] = 0
    /\ UNCHANGED now
    /\ \/ /\ Held(r)
          /\ waits' = [waits EXCEPT ![c] = cache[r]]
          /\ UNCHANGED <<cache, mints>>
       \/ /\ ~Held(r) /\ Len(mints) < MaxMints
          /\ mints' = Append(mints, [region |-> r, state |-> "flying", made |-> now, expires |-> 0])
          /\ cache' = [cache EXCEPT ![r] = Len(mints')]
          /\ waits' = [waits EXCEPT ![c] = Len(mints')]

MintDone(m) ==
    /\ Flying(m)
    /\ mints' = [mints EXCEPT ![m].state = "done", ![m].expires = now + Ttl - Skew]
    /\ UNCHANGED <<now, cache, waits>>

\* The entry of the region is dropped, whichever it is.
Drop(r) == cache' = [cache EXCEPT ![r] = 0]
MintFails(m) ==
    /\ Flying(m)
    /\ mints' = [mints EXCEPT ![m].state = "failed"]
    /\ Drop(mints[m].region)
    /\ UNCHANGED <<now, waits>>

\* Signing is local: no mint takes as long as the skew.
Tick ==
    /\ now < MaxTime
    /\ \A m \in Mint : Flying(m) => now - mints[m].made < Skew
    /\ now' = now + 1
    /\ UNCHANGED <<cache, mints, waits>>

TokenInit ==
    /\ now = 0
    /\ cache = [r \in Region |-> 0]
    /\ mints = <<>>
    /\ waits = [c \in Call |-> 0]

\* A region has one mint in flight, the one its entry holds; a failed mint is not
\* kept; and what the cache hands out is a token that has not expired.
TokenSafe ==
    /\ \A m \in Mint : Flying(m) => cache[mints[m].region] = m
    /\ \A r \in Region : cache[r] # 0 =>
          /\ mints[cache[r]].state # "failed"
          /\ Reusable(cache[r]) => now < mints[cache[r]].made + Ttl
==============================================================================
