----------------------------------- MODULE Lists -----------------------------------
(***************************************************************************)
(* Arrays.                                                                 *)
(***************************************************************************)
EXTENDS Sequences, FiniteSets, Naturals, Functions

IsSeq(s) == s \in Seq(Range(s))

\* Its length, which TLC finds without computing the elements of a mapped one.
Size(s) == Cardinality(DOMAIN s)

\* Array.filter(): the elements of s that are in S, in order.  (What SelectSeq is,
\* written out: the prover expands no operator of the module Sequences.)
Only(s, S) ==
    LET F[i \in 0..Len(s)] ==
            IF i = 0 THEN <<>> ELSE IF s[i] \in S THEN Append(F[i - 1], s[i]) ELSE F[i - 1]
    IN F[Len(s)]

\* Array.flat(): the sequences of s, one after the other.
Joined(s) ==
    LET F[i \in 0..Size(s)] == IF i = 0 THEN <<>> ELSE F[i - 1] \o s[i]
    IN F[Size(s)]
==============================================================================
