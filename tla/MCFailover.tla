------------------------------ MODULE MCFailover ------------------------------
(* Instances of Failover for TLC: one tier over an account-scoped provider zai *)
(* with a two-key pool and two models, and a pool-less provider aws.  A second *)
(* region of zai has a pool of its own, without the first label.               *)
EXTENDS Failover, TLC

CONSTANTS zai, aws, zaiBig, zaiSmall, zaiWest, awsBig, k1, k2, k3, l1, l2, r1, r2

MCProviderOf == zaiBig :> zai @@ zaiSmall :> zai @@ zaiWest :> zai @@ awsBig :> aws
MCPools(west) ==
    zaiBig :> <<k1, k2>> @@ zaiSmall :> <<k1, k2>> @@ zaiWest :> <<west>> @@ awsBig :> <<>>
MCLabelOf == [k \in Key |-> IF k = k1 THEN l1 ELSE l2]
MCPairProvider == l1 :> zai @@ l2 :> zai

\* The region lists a key of the first one, too.
MCPoolOf == MCPools(k2)
MCAsks ==
    {[targets |-> ts, count |-> FALSE] :
        ts \in {<<zaiBig, awsBig, zaiSmall>>, <<zaiSmall>>, <<zaiWest>>, <<>>}}
    \cup {[targets |-> <<zaiBig, zaiSmall>>, count |-> TRUE]}

\* For two requests at once: one model in each region, whose keys differ and
\* share a label.
MCPairPoolOf == MCPools(k3)
MCPairAsks == {[targets |-> ts, count |-> FALSE] : ts \in {<<zaiBig>>, <<zaiWest>>}}
SlotSymmetry == Permutations(Request)
MCAnswer == Answer
==============================================================================
