----------------------------- MODULE OutboundProofs -----------------------------
(***************************************************************************)
(* Proofs about Outbound, for any requests, regions, retry settings and     *)
(* token lifetimes: the token cache never holds a failed mint nor hands out  *)
(* an expired token, what one call may cost is bounded, and nothing goes out *)
(* for a client that is gone.                                               *)
(***************************************************************************)
EXTENDS Outbound, TLAPS

Records == [region : Region, state : {"flying", "done", "failed"}, made : Nat, expires : Int]
Places == {"auth", "head", "waiting", "asleep", "done"}
Outcomes == {"none", "aborted", "redirect", "response", "failed", "unauthorized"}

TokenTypes ==
    /\ now \in Nat /\ mints \in Seq(Records)
    /\ cache \in [Region -> 0..Len(mints)] /\ waits \in [Call -> 0..Len(mints)]

PostTypes ==
    /\ post \in [Request -> [at : Places, attempt : 0..MaxRetries]]
    /\ delay \in [Request -> Nat]
    /\ body \in [Request -> {"kept", "sent", "taken"}]
    /\ taken \in [Request -> Nat] /\ answers \in [Request -> Nat]
    /\ aborted \in [Request -> BOOLEAN] /\ outcome \in [Request -> Outcomes]

\* An entry is of its region and not of a failed mint, a mint in flight is in the
\* entry of its region, and it is settled before it is as old as the skew, so that
\* a token is taken for expired before it is.
CacheSound ==
    /\ \A r \in Region : cache[r] # 0 => /\ mints[cache[r]].region = r
                                         /\ mints[cache[r]].state # "failed"
    /\ \A m \in Mint : Flying(m) => /\ cache[mints[m].region] = m
                                    /\ now <= mints[m].made + Skew
    /\ \A m \in Mint : mints[m].state = "done" => mints[m].expires <= mints[m].made + Ttl

\* How far the loop of a request is says how many bodies were taken and answered.
LoopSound(q) ==
    /\ post[q].at \in {"auth", "head"} => taken[q] <= post[q].attempt
    /\ post[q].at \in {"auth", "head", "asleep"} => body[q] = "kept"
    /\ post[q].at = "waiting" /\ body[q] = "sent" => taken[q] <= post[q].attempt
    /\ taken[q] <= post[q].attempt + 1
    /\ post[q].at = "asleep" => post[q].attempt < MaxRetries
    /\ q \notin Counts => answers[q] <= 1
    /\ q \notin Counts /\ post[q].at # "done" => answers[q] = 0
    /\ delay[q] <= RetryCap \/ delay[q] <= BackoffCap
PostSound == \A q \in Request : LoopSound(q)

TokenInv == TokenTypes /\ CacheSound
PostInv == PostTypes /\ PostSound
OutboundInv == TokenInv /\ PostInv

------------------------------------------------------------------------------
(* The token cache.                                                        *)

LEMMA TokenInitInv == TokenInit => TokenInv
  BY DEF TokenInit, TokenInv, TokenTypes, CacheSound, Mint

\* What the cache knows of a mint.
LEMMA MintTypes ==
    ASSUME TokenInv, NEW m \in Mint
    PROVE  /\ m \in 1..Len(mints) /\ Len(mints) \in Nat /\ mints[m] \in Records
           /\ mints[m].region \in Region /\ mints[m].made \in Nat /\ mints[m].expires \in Int
           /\ mints[m].state \in {"flying", "done", "failed"}
<1>1. m \in 1..Len(mints) /\ Len(mints) \in Nat /\ mints[m] \in Records
  BY DEF TokenInv, TokenTypes, Mint
<1> QED BY <1>1 DEF Records

LEMMA AskInv ==
    ASSUME TokenInv, NEW c \in Call, NEW r \in Region, Ask(c, r)
    PROVE  TokenInv'
<1> USE TokenAssumption DEF TokenInv, TokenTypes
<1>1. CASE Held(r) /\ waits' = [waits EXCEPT ![c] = cache[r]] /\ UNCHANGED <<cache, mints, now>>
  <2>1. TokenTypes'
    BY <1>1
  <2>2. CacheSound'
    BY <1>1 DEF CacheSound, Mint, Flying
  <2> QED BY <2>1, <2>2
<1>2. CASE /\ ~Held(r) /\ now' = now
           /\ mints' = Append(mints, [region |-> r, state |-> "flying", made |-> now,
                                      expires |-> 0])
           /\ cache' = [cache EXCEPT ![r] = Len(mints')]
           /\ waits' = [waits EXCEPT ![c] = Len(mints')]
  <2> DEFINE new == [region |-> r, state |-> "flying", made |-> now, expires |-> 0]
             n == Len(mints) + 1
  <2>1. new \in Records
    BY DEF Records
  <2>2. /\ new.region = r /\ new.state = "flying" /\ new.made = now
    OBVIOUS
  <2> HIDE DEF new
  <2>3. /\ mints' \in Seq(Records) /\ Len(mints') = n /\ mints'[n] = new /\ n \in Nat
        /\ \A m \in 1..Len(mints) : mints'[m] = mints[m]
        /\ Mint' = Mint \cup {n} /\ n \notin Mint
    BY <1>2, <2>1 DEF new, Mint
  <2>4. TokenTypes'
    BY <1>2, <2>3
  <2>5. /\ cache'[r] = n /\ \A s \in Region \ {r} : cache'[s] = cache[s]
    BY <1>2, <2>3
  \* Another mint in flight for r would be in its entry, which would be reusable.
  <2>6. ASSUME NEW m \in Mint, Flying(m) PROVE mints[m].region # r
    <3>1. m # 0 /\ cache[mints[m].region] = m
      BY <2>6, MintTypes DEF CacheSound
    <3>2. Reusable(m) /\ ~Held(r)
      BY <1>2, <2>6 DEF Reusable
    <3> QED BY <3>1, <3>2 DEF Held
  <2>7. \A m \in Mint : mints[m].region \in Region
    BY MintTypes
  <2>8. \A s \in Region : cache'[s] # 0 => /\ mints'[cache'[s]].region = s
                                           /\ mints'[cache'[s]].state # "failed"
    <3> SUFFICES ASSUME NEW s \in Region, cache'[s] # 0
                 PROVE  mints'[cache'[s]].region = s /\ mints'[cache'[s]].state # "failed"
      OBVIOUS
    <3>1. CASE s = r
      BY <2>2, <2>3, <2>5, <3>1
    <3>2. CASE s # r
      <4>1. cache[s] \in 1..Len(mints) /\ cache'[s] = cache[s]
        BY <2>5, <3>2
      <4> QED BY <2>3, <4>1 DEF CacheSound
    <3> QED BY <3>1, <3>2
  <2>9. ASSUME NEW m \in Mint'
        PROVE  /\ mints'[m].state = "flying" => /\ cache'[mints'[m].region] = m
                                                /\ now' <= mints'[m].made + Skew
               /\ mints'[m].state = "done" => mints'[m].expires <= mints'[m].made + Ttl
    <3>1. CASE m = n
      BY <1>2, <2>2, <2>3, <2>5, <3>1
    <3>2. CASE m \in Mint
      <4>1. mints'[m] = mints[m]
        BY <2>3, <3>2 DEF Mint
      <4> QED BY <1>2, <2>5, <2>6, <2>7, <3>2, <4>1 DEF CacheSound, Flying
    <3> QED BY <2>3, <3>1, <3>2
  <2>10. CacheSound'
    BY <2>8, <2>9 DEF CacheSound, Flying
  <2> QED BY <2>4, <2>10
<1> QED BY <1>1, <1>2 DEF Ask

LEMMA MintInv ==
    ASSUME TokenInv, NEW m \in Mint, MintDone(m) \/ MintFails(m)
    PROVE  TokenInv'
<1> USE TokenAssumption DEF TokenInv, TokenTypes
<1>1. /\ m \in 1..Len(mints) /\ mints[m] \in Records /\ mints[m].state = "flying"
      /\ cache[mints[m].region] = m /\ now <= mints[m].made + Skew
      /\ mints[m].region \in Region /\ mints[m].made \in Nat
  BY MintTypes DEF MintDone, MintFails, Flying, CacheSound
<1>2. CASE MintDone(m)
  <2> DEFINE settled == [mints[m] EXCEPT !.state = "done", !.expires = now + Ttl - Skew]
  <2>1. /\ settled \in Records /\ settled.region = mints[m].region /\ settled.state = "done"
        /\ settled.made = mints[m].made /\ settled.expires = now + Ttl - Skew
    <3>1. now + Ttl - Skew \in Int
      BY <1>1
    <3> QED BY <1>1, <3>1 DEF Records
  <2>2. mints' = [mints EXCEPT ![m] = settled] /\ UNCHANGED <<now, cache, waits>>
    BY <1>1, <1>2 DEF MintDone
  <2> HIDE DEF settled
  <2>3. /\ mints' \in Seq(Records) /\ Len(mints') = Len(mints) /\ mints'[m] = settled
        /\ \A i \in Mint \ {m} : mints'[i] = mints[i]
    BY <1>1, <2>1, <2>2 DEF Mint
  <2>4. settled.expires <= settled.made + Ttl
    BY <1>1, <2>1
  <2>5. TokenTypes'
    BY <2>2, <2>3
  <2>6. CacheSound'
    <3>1. \A r \in Region : cache'[r] # 0 => /\ mints'[cache'[r]].region = r
                                             /\ mints'[cache'[r]].state # "failed"
      BY <1>1, <2>1, <2>2, <2>3 DEF CacheSound, Mint
    <3>2. \A i \in Mint' : mints'[i].state = "flying" =>
              cache'[mints'[i].region] = i /\ now' <= mints'[i].made + Skew
      BY <2>1, <2>2, <2>3 DEF CacheSound, Mint, Flying
    <3>3. \A i \in Mint' : mints'[i].state = "done" => mints'[i].expires <= mints'[i].made + Ttl
      BY <2>3, <2>4 DEF CacheSound, Mint
    <3> QED BY <3>1, <3>2, <3>3 DEF CacheSound, Flying
  <2> QED BY <2>5, <2>6
<1>3. CASE MintFails(m)
  <2> DEFINE settled == [mints[m] EXCEPT !.state = "failed"]
             r == mints[m].region
  <2>1. /\ settled \in Records /\ settled.state = "failed"
    BY <1>1 DEF Records
  <2>2. /\ mints' = [mints EXCEPT ![m] = settled] /\ cache' = [cache EXCEPT ![r] = 0]
        /\ UNCHANGED <<now, waits>>
    BY <1>1, <1>3 DEF MintFails, Drop
  <2> HIDE DEF settled, r
  <2>3. /\ mints' \in Seq(Records) /\ Len(mints') = Len(mints) /\ mints'[m] = settled
        /\ \A i \in Mint \ {m} : mints'[i] = mints[i]
    BY <1>1, <2>1, <2>2 DEF Mint
  <2>4. TokenTypes'
    <3>1. 0 \in 0..Len(mints)
      BY <1>1
    <3> QED BY <2>2, <2>3, <3>1
  <2>5. /\ r \in Region /\ cache[r] = m /\ cache'[r] = 0
        /\ \A s \in Region \ {r} : cache'[s] = cache[s]
    BY <1>1, <2>2 DEF r
  \* No other entry holds m, and no other mint is in flight for its region.
  <2>6. \A s \in Region \ {r} : cache[s] # m
    BY <1>1 DEF CacheSound, r
  <2>7. CacheSound'
    <3>1. ASSUME NEW s \in Region, cache'[s] # 0
          PROVE  mints'[cache'[s]].region = s /\ mints'[cache'[s]].state # "failed"
      <4>1. s # r /\ cache'[s] = cache[s] /\ cache[s] # m /\ cache[s] \in Mint
        BY <2>5, <2>6, <3>1 DEF Mint
      <4> QED BY <2>3, <3>1, <4>1 DEF CacheSound
    <3>2. ASSUME NEW i \in Mint', mints'[i].state = "flying"
          PROVE  cache'[mints'[i].region] = i /\ now' <= mints'[i].made + Skew
      <4>1. i \in Mint \ {m} /\ mints'[i] = mints[i]
        BY <2>1, <2>3, <3>2 DEF Mint
      <4>2. cache[mints[i].region] = i /\ now <= mints[i].made + Skew
        BY <3>2, <4>1 DEF CacheSound, Flying
      <4>3. mints[i].region \in Region
        BY <4>1, MintTypes
      <4>4. mints[i].region # r
        BY <2>5, <4>1, <4>2
      <4> QED BY <2>2, <2>5, <4>1, <4>2, <4>3, <4>4
    <3>3. \A i \in Mint' : mints'[i].state = "done" => mints'[i].expires <= mints'[i].made + Ttl
      BY <2>1, <2>3 DEF CacheSound, Mint
    <3> QED BY <3>1, <3>2, <3>3 DEF CacheSound, Flying
  <2> QED BY <2>4, <2>7
<1> QED BY <1>2, <1>3

LEMMA TickInv ==
    ASSUME TokenInv, Tick
    PROVE  TokenInv'
<1> USE TokenAssumption DEF TokenInv, TokenTypes
<1>1. /\ now' = now + 1 /\ UNCHANGED <<cache, mints, waits>>
      /\ \A m \in Mint : Flying(m) => now - mints[m].made < Skew
  BY DEF Tick
<1>2. \A m \in Mint : mints[m].made \in Nat
  BY MintTypes
<1>3. \A m \in Mint : Flying(m) => now' <= mints[m].made + Skew
  BY <1>1, <1>2
<1>4. TokenTypes'
  BY <1>1
<1>5. Mint' = Mint /\ \A m \in Mint : Flying(m)' <=> Flying(m)
  BY <1>1 DEF Mint, Flying
<1>6. CacheSound'
  BY <1>1, <1>3, <1>5 DEF CacheSound
<1> QED BY <1>4, <1>6

LEMMA CacheIsSafe == TokenInv => TokenSafe
<1> SUFFICES ASSUME TokenInv PROVE TokenSafe
  OBVIOUS
<1>1. \A m \in Mint : Flying(m) => cache[mints[m].region] = m
  BY DEF TokenInv, CacheSound
<1>2. ASSUME NEW r \in Region, cache[r] # 0
      PROVE  /\ mints[cache[r]].state # "failed"
             /\ Reusable(cache[r]) => now < mints[cache[r]].made + Ttl
  <2>1. /\ cache[r] \in Mint /\ mints[cache[r]] \in Records /\ now \in Nat
        /\ mints[cache[r]].state # "failed"
    BY <1>2 DEF TokenInv, TokenTypes, CacheSound, Mint
  <2>2. CASE Flying(cache[r])
    BY <2>1, <2>2, TokenAssumption DEF TokenInv, CacheSound, Records
  <2>3. CASE mints[cache[r]].state = "done"
    <3>1. mints[cache[r]].expires <= mints[cache[r]].made + Ttl
      BY <2>1, <2>3 DEF TokenInv, CacheSound
    <3> QED BY <2>1, <2>3, <3>1, TokenAssumption DEF Reusable, Flying, Records
  <2> QED BY <2>1, <2>2, <2>3 DEF Records, Flying
<1> QED BY <1>1, <1>2 DEF TokenSafe

------------------------------------------------------------------------------
(* The requests.                                                           *)

\* A step of one request leaves the others alone.
OthersPost(q) ==
    \A p \in Request \ {q} :
        /\ post'[p] = post[p] /\ delay'[p] = delay[p] /\ body'[p] = body[p]
        /\ taken'[p] = taken[p] /\ answers'[p] = answers[p]

LEMMA OthersKeepSound ==
    ASSUME PostInv, NEW q \in Request, OthersPost(q), LoopSound(q)'
    PROVE  PostSound'
<1>1. ASSUME NEW p \in Request \ {q} PROVE LoopSound(p)'
  <2>1. LoopSound(p)
    BY DEF PostInv, PostSound
  <2> QED BY <2>1 DEF LoopSound, OthersPost
<1> QED BY <1>1 DEF PostSound

\* A sleep is never longer than one of the caps.
LEMMA DelaysCapped ==
    ASSUME NEW attempt \in Nat, NEW d \in Delays(attempt)
    PROVE  d \in Nat /\ (d <= RetryCap \/ d <= BackoffCap)
<1>1. CASE d \in BackoffDelays(attempt)
  BY <1>1, PostAssumption DEF BackoffDelays, BackoffCeiling, Least
<1>2. CASE d \in {Least(after, RetryCap) : after \in RetryAfters}
  BY <1>2, PostAssumption DEF Least
<1> QED BY <1>1, <1>2 DEF Delays

LEMMA PostInitInv == PostInit("auth") => PostInv
<1> SUFFICES ASSUME PostInit("auth") PROVE PostInv
  OBVIOUS
<1>1. PostTypes
  BY PostAssumption DEF PostInit, PostTypes, Places, Outcomes
<1>2. PostSound
  BY PostAssumption DEF PostInit, PostSound, LoopSound
<1> QED BY <1>1, <1>2 DEF PostInv

\* The end of the loop, and its sleeps, from a place where the body may be given up.
LEMMA SleepOrConclude ==
    ASSUME PostInv, NEW q \in Request, NEW delays,
           \/ Sleep(q, delays) /\ post[q].attempt < MaxRetries
           \/ \E result \in Outcomes : Conclude(q, result),
           delays \subseteq Delays(post[q].attempt)
    PROVE  /\ post' \in [Request -> [at : Places, attempt : 0..MaxRetries]]
           /\ delay' \in [Request -> Nat] /\ outcome' \in [Request -> Outcomes]
           /\ post'[q].attempt = post[q].attempt
           /\ \/ post'[q].at = "done"
              \/ post'[q].at = "asleep" /\ post[q].attempt < MaxRetries
           /\ delay'[q] <= RetryCap \/ delay'[q] <= BackoffCap
           /\ \A p \in Request \ {q} : post'[p] = post[p] /\ delay'[p] = delay[p]
<1> USE DEF PostInv, PostTypes
<1>1. /\ post[q] \in [at : Places, attempt : 0..MaxRetries] /\ post[q].attempt \in Nat
      /\ delay[q] <= RetryCap \/ delay[q] <= BackoffCap
  BY PostAssumption DEF PostSound, LoopSound
<1>2. CASE Sleep(q, delays) /\ post[q].attempt < MaxRetries
  <2>1. PICK d \in delays : delay' = [delay EXCEPT ![q] = d]
    BY <1>2 DEF Sleep
  <2>2. d \in Nat /\ (d <= RetryCap \/ d <= BackoffCap)
    BY <1>1, DelaysCapped
  <2>3. delay' \in [Request -> Nat] /\ delay'[q] = d /\ outcome' \in [Request -> Outcomes]
    BY <1>2, <2>1, <2>2 DEF Sleep
  <2>4. /\ post' = [post EXCEPT ![q].at = "asleep"] /\ "asleep" \in Places
    BY <1>2 DEF Sleep, Places
  <2>5. /\ post' \in [Request -> [at : Places, attempt : 0..MaxRetries]]
        /\ post'[q].attempt = post[q].attempt /\ post'[q].at = "asleep"
        /\ \A p \in Request \ {q} : post'[p] = post[p]
    BY <1>1, <2>4
  <2> QED BY <1>2, <2>1, <2>2, <2>3, <2>5
<1>3. CASE \E result \in Outcomes : Conclude(q, result)
  <2>1. /\ post' = [post EXCEPT ![q].at = "done"] /\ "done" \in Places /\ delay' = delay
        /\ outcome' \in [Request -> Outcomes]
    BY <1>3 DEF Conclude, Places
  <2>2. /\ post' \in [Request -> [at : Places, attempt : 0..MaxRetries]]
        /\ post'[q].attempt = post[q].attempt /\ post'[q].at = "done"
        /\ \A p \in Request \ {q} : post'[p] = post[p]
    BY <1>1, <2>1
  <2> QED BY <1>1, <2>1, <2>2
<1> QED BY <1>2, <1>3

LEMMA FetchInv ==
    ASSUME PostInv, NEW q \in Request, Fetch(q)
    PROVE  PostInv'
<1> USE DEF PostInv, PostTypes
<1>1. /\ post[q].at = "head" /\ LoopSound(q) /\ UNCHANGED <<taken, answers, aborted>>
      /\ post[q] \in [at : Places, attempt : 0..MaxRetries]
  BY DEF Fetch, PostSound
<1>2. CASE /\ post' = [post EXCEPT ![q].at = "waiting"] /\ body' = [body EXCEPT ![q] = "sent"]
           /\ UNCHANGED <<delay, outcome>>
  <2>1. "waiting" \in Places
    BY DEF Places
  <2>2. /\ PostTypes' /\ OthersPost(q)
        /\ post'[q].at = "waiting" /\ post'[q].attempt = post[q].attempt /\ body'[q] = "sent"
    BY <1>1, <1>2, <2>1 DEF OthersPost
  <2>3. LoopSound(q)'
    BY <1>1, <1>2, <2>2 DEF LoopSound
  <2> QED BY <2>2, <2>3, OthersKeepSound
<1>3. CASE Conclude(q, "aborted") /\ UNCHANGED body
  <2>1. "aborted" \in Outcomes
    BY DEF Outcomes
  <2>2. /\ post' \in [Request -> [at : Places, attempt : 0..MaxRetries]]
        /\ delay' \in [Request -> Nat] /\ outcome' \in [Request -> Outcomes]
        /\ post'[q].attempt = post[q].attempt /\ post'[q].at = "done"
        /\ delay'[q] <= RetryCap \/ delay'[q] <= BackoffCap
        /\ \A p \in Request \ {q} : post'[p] = post[p] /\ delay'[p] = delay[p]
    BY <1>1, <1>3, <2>1 DEF Conclude, LoopSound, Places
  <2>3. LoopSound(q)'
    BY <1>1, <1>3, <2>2, PostAssumption DEF LoopSound
  <2> QED BY <1>1, <1>3, <2>2, <2>3, OthersKeepSound DEF OthersPost
<1> QED BY <1>2, <1>3 DEF Fetch

LEMMA TakeInv ==
    ASSUME PostInv, NEW q \in Request, Take(q)
    PROVE  PostInv'
<1> USE DEF PostInv, PostTypes
<1>1. /\ post[q].at = "waiting" /\ body[q] = "sent" /\ LoopSound(q)
      /\ UNCHANGED <<post, delay, answers, aborted, outcome>>
      /\ body' = [body EXCEPT ![q] = "taken"] /\ taken' = [taken EXCEPT ![q] = @ + 1]
  BY DEF Take, PostSound
<1>2. PostTypes' /\ OthersPost(q) /\ body'[q] = "taken" /\ taken'[q] = taken[q] + 1
  BY <1>1 DEF OthersPost
<1>3. post[q].attempt \in Nat /\ taken[q] \in Nat
  BY PostAssumption
<1>4. LoopSound(q)'
  BY <1>1, <1>2, <1>3 DEF LoopSound
<1> QED BY <1>2, <1>4, OthersKeepSound

\* A message is never sent again once it was answered.
LEMMA RespondInv ==
    ASSUME PostInv, NEW q \in Request, Respond(q)
    PROVE  PostInv'
<1> USE DEF PostInv, PostTypes
<1>1. /\ post[q].at = "waiting" /\ body[q] = "taken" /\ LoopSound(q)
      /\ UNCHANGED <<taken, aborted>>
      /\ body' = [body EXCEPT ![q] = "kept"] /\ answers' = [answers EXCEPT ![q] = @ + 1]
      /\ post[q].attempt \in Nat /\ answers[q] \in Nat /\ taken[q] \in Nat
  BY PostAssumption DEF Respond, PostSound
<1>2. \/ /\ Sleep(q, Delays(post[q].attempt)) /\ post[q].attempt < MaxRetries
         /\ RetryTransientStatus(q)
      \/ \E result \in Outcomes : Conclude(q, result)
  BY DEF Respond, Retried, Outcomes
<1>3. /\ post' \in [Request -> [at : Places, attempt : 0..MaxRetries]]
      /\ delay' \in [Request -> Nat] /\ outcome' \in [Request -> Outcomes]
      /\ post'[q].attempt = post[q].attempt
      /\ \/ post'[q].at = "done"
         \/ post'[q].at = "asleep" /\ post[q].attempt < MaxRetries
      /\ delay'[q] <= RetryCap \/ delay'[q] <= BackoffCap
      /\ \A p \in Request \ {q} : post'[p] = post[p] /\ delay'[p] = delay[p]
  BY <1>2, SleepOrConclude
<1>4. q \notin Counts => post'[q].at = "done"
  BY <1>2 DEF RetryTransientStatus, Conclude
<1>5. PostTypes' /\ OthersPost(q) /\ body'[q] = "kept" /\ answers'[q] = answers[q] + 1
  <2>1. /\ answers' \in [Request -> Nat] /\ answers'[q] = answers[q] + 1
        /\ body' \in [Request -> {"kept", "sent", "taken"}] /\ body'[q] = "kept"
        /\ \A p \in Request \ {q} : answers'[p] = answers[p] /\ body'[p] = body[p]
    BY <1>1
  <2> QED BY <1>1, <1>3, <2>1 DEF OthersPost
<1>6. LoopSound(q)'
  BY <1>1, <1>3, <1>4, <1>5 DEF LoopSound
<1> QED BY <1>5, <1>6, OthersKeepSound

LEMMA CaughtInv ==
    ASSUME PostInv, NEW q \in Request, post[q].at = "waiting", Caught(q)
    PROVE  PostInv'
<1> USE DEF PostInv, PostTypes
<1>1. /\ LoopSound(q) /\ UNCHANGED <<taken, answers, aborted>>
      /\ body' = [body EXCEPT ![q] = "kept"]
      /\ post[q].attempt \in Nat /\ answers[q] \in Nat /\ taken[q] \in Nat
  BY PostAssumption DEF Caught, PostSound
<1>2. \/ Sleep(q, BackoffDelays(post[q].attempt)) /\ post[q].attempt < MaxRetries
      \/ \E result \in Outcomes : Conclude(q, result)
  BY DEF Caught, Outcomes
<1>3. /\ post' \in [Request -> [at : Places, attempt : 0..MaxRetries]]
      /\ delay' \in [Request -> Nat] /\ outcome' \in [Request -> Outcomes]
      /\ post'[q].attempt = post[q].attempt
      /\ \/ post'[q].at = "done"
         \/ post'[q].at = "asleep" /\ post[q].attempt < MaxRetries
      /\ delay'[q] <= RetryCap \/ delay'[q] <= BackoffCap
      /\ \A p \in Request \ {q} : post'[p] = post[p] /\ delay'[p] = delay[p]
  <2>1. BackoffDelays(post[q].attempt) \subseteq Delays(post[q].attempt)
    BY DEF Delays
  <2> QED BY <1>2, <2>1, SleepOrConclude
<1>4. PostTypes' /\ OthersPost(q) /\ body'[q] = "kept"
  BY <1>1, <1>3 DEF OthersPost
<1>5. LoopSound(q)'
  BY <1>1, <1>3, <1>4 DEF LoopSound
<1> QED BY <1>4, <1>5, OthersKeepSound

LEMMA WakeInv ==
    ASSUME PostInv, NEW q \in Request, Wake(q)
    PROVE  PostInv'
<1> USE DEF PostInv, PostTypes
<1>1. /\ post[q].at = "asleep" /\ LoopSound(q) /\ body[q] \in {"kept", "sent", "taken"}
      /\ UNCHANGED <<body, taken, answers, aborted, outcome>>
      /\ post' = [post EXCEPT ![q] = [at |-> "head", attempt |-> post[q].attempt + 1]]
      /\ delay' = [delay EXCEPT ![q] = 0]
      /\ post[q].attempt \in 0..MaxRetries /\ post[q].attempt < MaxRetries
  BY DEF Wake, PostSound, LoopSound
<1>2. [at |-> "head", attempt |-> post[q].attempt + 1] \in [at : Places, attempt : 0..MaxRetries]
  BY <1>1, PostAssumption DEF Places
<1>3. /\ PostTypes' /\ OthersPost(q) /\ delay'[q] = 0
      /\ post'[q].at = "head" /\ post'[q].attempt = post[q].attempt + 1
  BY <1>1, <1>2 DEF OthersPost
<1>4. LoopSound(q)'
  BY <1>1, <1>3, PostAssumption DEF LoopSound
<1> QED BY <1>3, <1>4, OthersKeepSound

LEMMA AbortInv ==
    ASSUME PostInv, NEW q \in Request, Abort(q)
    PROVE  PostInv'
<1> USE DEF PostInv, PostTypes
<1>1. UNCHANGED <<post, delay, body, taken, answers, outcome>>
      /\ aborted' = [aborted EXCEPT ![q] = TRUE]
  BY DEF Abort
<1>2. PostTypes'
  BY <1>1
<1> QED BY <1>1, <1>2 DEF PostSound, LoopSound

\* What the handler does about the token.
LEMMA BearerInv ==
    ASSUME PostInv, NEW q \in Request, Bearer(q) \/ NoBearer(q)
    PROVE  PostInv'
<1> USE DEF PostInv, PostTypes
<1>1. /\ post[q].at = "auth" /\ LoopSound(q) /\ UNCHANGED <<body, taken, answers, aborted>>
      /\ post[q] \in [at : Places, attempt : 0..MaxRetries]
  BY DEF Bearer, NoBearer, PostSound
<1>2. CASE Bearer(q)
  <2>1. post' = [post EXCEPT ![q].at = "head"] /\ UNCHANGED <<delay, outcome>> /\ "head" \in Places
    BY <1>2 DEF Bearer, Places
  <2>2. /\ PostTypes' /\ OthersPost(q)
        /\ post'[q].at = "head" /\ post'[q].attempt = post[q].attempt
    BY <1>1, <2>1 DEF OthersPost
  <2>3. LoopSound(q)'
    BY <1>1, <2>1, <2>2 DEF LoopSound
  <2> QED BY <2>2, <2>3, OthersKeepSound
<1>3. CASE NoBearer(q)
  <2>1. /\ post' = [post EXCEPT ![q].at = "done"] /\ delay' = delay /\ "done" \in Places
        /\ outcome' = [outcome EXCEPT ![q] = "unauthorized"] /\ "unauthorized" \in Outcomes
    BY <1>3 DEF NoBearer, Conclude, Places, Outcomes
  <2>2. /\ PostTypes' /\ OthersPost(q)
        /\ post'[q].at = "done" /\ post'[q].attempt = post[q].attempt
    BY <1>1, <2>1 DEF OthersPost
  <2>3. LoopSound(q)'
    BY <1>1, <2>1, <2>2, PostAssumption DEF LoopSound
  <2> QED BY <2>2, <2>3, OthersKeepSound
<1> QED BY <1>2, <1>3

------------------------------------------------------------------------------
(* The theorems.                                                           *)

LEMMA OutboundNextInv == OutboundInv /\ [OutboundNext]_outboundVars => OutboundInv'
<1> SUFFICES ASSUME OutboundInv, [OutboundNext]_outboundVars PROVE OutboundInv'
  OBVIOUS
<1> USE DEF OutboundInv
<1>1. UNCHANGED tokenVars => TokenInv'
  BY DEF tokenVars, TokenInv, TokenTypes, CacheSound, Mint, Flying
<1>2. UNCHANGED postVars => PostInv'
  BY DEF postVars, PostInv, PostTypes, PostSound, LoopSound
<1>3. ASSUME NEW q \in Request, Handler(q) PROVE OutboundInv'
  <2>1. CASE ResolveAuth(q)
    BY <1>2, <2>1, AskInv, OutboundAssumption DEF ResolveAuth
  <2>2. CASE Bearer(q) \/ NoBearer(q)
    <3>1. UNCHANGED tokenVars
      BY <2>2 DEF Bearer, NoBearer
    <3> QED BY <1>1, <2>2, <3>1, BearerInv
  <2>3. CASE Loop(q) /\ UNCHANGED tokenVars
    BY <1>1, <2>3, FetchInv, WakeInv, CaughtInv DEF Loop, FetchAborted, HeadersTimeOut
  <2> QED BY <1>3, <2>1, <2>2, <2>3 DEF Handler
<1>4. ASSUME NEW q \in Request, (Upstream(q) \/ Abort(q)) /\ UNCHANGED tokenVars
      PROVE  OutboundInv'
  BY <1>1, <1>4, TakeInv, RespondInv, CaughtInv, AbortInv DEF Upstream, ConnectionFails
<1>5. CASE (Provider \/ Tick) /\ UNCHANGED postVars
  BY <1>2, <1>5, MintInv, TickInv DEF Provider
<1>6. CASE UNCHANGED outboundVars
  BY <1>1, <1>2, <1>6 DEF outboundVars
<1> QED BY <1>3, <1>4, <1>5, <1>6 DEF OutboundNext

\* Types, the soundness of the cache and of every loop.
THEOREM OutboundInvariant == OutboundSpec => []OutboundInv
<1>1. OutboundInit => OutboundInv
  BY TokenInitInv, PostInitInv DEF OutboundInit, OutboundInv
<1> QED BY <1>1, OutboundNextInv, PTL DEF OutboundSpec

\* TokenSafe in every reachable state: one mint in flight for a region, no failed
\* mint kept, and no token handed out that has expired.
THEOREM OutboundTokenSafe == OutboundSpec => []TokenSafe
<1>1. OutboundInv => TokenSafe
  BY CacheIsSafe DEF OutboundInv
<1> QED BY OutboundInvariant, <1>1, PTL

\* RetriesBounded in every reachable state: an answered message is not sent again,
\* no more bodies go out than there are attempts, no sleep is longer than the caps.
THEOREM OutboundRetriesBounded == OutboundSpec => []RetriesBounded
<1>1. OutboundInv => RetriesBounded
  <2> SUFFICES ASSUME OutboundInv, NEW q \in Request
               PROVE  /\ q \notin Counts => answers[q] <= 1
                      /\ taken[q] <= MaxRetries + 1
                      /\ delay[q] <= RetryCap \/ delay[q] <= BackoffCap
    BY DEF RetriesBounded
  <2>1. LoopSound(q) /\ post[q].attempt \in 0..MaxRetries /\ taken[q] \in Nat
    BY DEF OutboundInv, PostInv, PostTypes, PostSound
  <2> QED BY <2>1, PostAssumption DEF LoopSound
<1> QED BY OutboundInvariant, <1>1, PTL

\* NothingForTheGone: no step sends a body for a request whose client has aborted.
THEOREM OutboundNothingForTheGone == OutboundSpec => NothingForTheGone
<1>1. ASSUME OutboundInv, [OutboundNext]_outboundVars,
             NEW q \in Request, aborted[q], body'[q] = "sent"
      PROVE  body[q] = "sent"
  <2>1. body \in [Request -> {"kept", "sent", "taken"}]
    BY <1>1 DEF OutboundInv, PostInv, PostTypes
  <2>2. UNCHANGED body => body[q] = "sent"
    BY <1>1
  <2>3. ASSUME NEW p \in Request, Fetch(p) PROVE body[q] = "sent"
    <3>1. CASE p = q
      BY <1>1, <2>1, <2>2, <2>3, <3>1 DEF Fetch, GoesOn
    <3>2. CASE p # q
      BY <1>1, <2>1, <2>2, <2>3, <3>2 DEF Fetch
    <3> QED BY <3>1, <3>2
  <2>4. ASSUME NEW p \in Request, Take(p) \/ Respond(p) \/ Caught(p) PROVE body[q] = "sent"
    <3>1. body' = [body EXCEPT ![p] = "taken"] \/ body' = [body EXCEPT ![p] = "kept"]
      BY <2>4 DEF Take, Respond, Caught
    <3> QED BY <1>1, <2>1, <3>1
  <2>5. ASSUME NEW p \in Request, Handler(p) PROVE body[q] = "sent"
    <3>1. \/ UNCHANGED body \/ Fetch(p) \/ Caught(p)
      BY <2>5 DEF Handler, ResolveAuth, Bearer, NoBearer, Loop, Wake, FetchAborted,
                  HeadersTimeOut, postVars
    <3> QED BY <2>2, <2>3, <2>4, <3>1
  <2>6. ASSUME NEW p \in Request, Upstream(p) \/ Abort(p) PROVE body[q] = "sent"
    <3>1. UNCHANGED body \/ Take(p) \/ Respond(p) \/ Caught(p)
      BY <2>6 DEF Upstream, Abort, ConnectionFails
    <3> QED BY <2>2, <2>4, <3>1
  <2>7. UNCHANGED postVars \/ UNCHANGED outboundVars => UNCHANGED body
    BY DEF postVars, outboundVars
  <2> QED BY <1>1, <2>2, <2>5, <2>6, <2>7 DEF OutboundNext
<1>2. OutboundInv /\ [OutboundNext]_outboundVars =>
         [\A q \in Request : aborted[q] /\ body'[q] = "sent" => body[q] = "sent"]_postVars
  BY <1>1
<1> QED BY OutboundInvariant, <1>2, PTL DEF OutboundSpec, NothingForTheGone
==============================================================================
