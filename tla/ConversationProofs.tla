--------------------------- MODULE ConversationProofs ---------------------------
(***************************************************************************)
(* Proofs about Conversation, for any conversation, of any length.             *)
(***************************************************************************)
EXTENDS Conversation, SequenceTheorems, FiniteSetTheorems, WellFoundedInduction, TLAPS

------------------------------------------------------------------------------
(* Sequences.                                                              *)

LEMMA LeastMember ==
    ASSUME NEW S \in SUBSET Nat, S # {}
    PROVE  \E n \in S : \A m \in S : n <= m
<1>1. PICK n \in S : \A m \in S : ~(<<m, n>> \in OpToRel(<, Nat))
  BY WFMin, NatLessThanWellFounded
<1>2. \A m \in S : ~(m < n)
  BY <1>1 DEF OpToRel
<1> QED BY <1>2

LEMMA SeqShape ==
    ASSUME NEW s, IsSeq(s)
    PROVE  Len(s) \in Nat /\ DOMAIN s = 1..Len(s)
BY DEF IsSeq

LEMMA SeqIsSeq ==
    ASSUME NEW S, NEW s \in Seq(S)
    PROVE  IsSeq(s)
<1> DEFINE T == Range(s)
<1>1. Len(s) \in Nat /\ s \in [1..Len(s) -> S] /\ DOMAIN s = 1..Len(s)
  BY LenProperties
<1>2. s \in [1..Len(s) -> T]
  BY <1>1 DEF Range
<1>3. s \in UNION {[1..n -> T] : n \in Nat}
  <2> HIDE DEF T
  <2> QED BY <1>1, <1>2
<1>4. s \in Seq(T)
  <2> HIDE DEF T
  <2> QED BY <1>3, SeqDef
<1> QED BY <1>4 DEF IsSeq

LEMMA AppendShape ==
    ASSUME NEW s, IsSeq(s), NEW e, NEW t, t = Append(s, e)
    PROVE  /\ IsSeq(t) /\ Len(t) = Len(s) + 1 /\ t[Len(t)] = e
           /\ DOMAIN t = DOMAIN s \cup {Len(t)} /\ Len(t) \notin DOMAIN s
           /\ \A i \in DOMAIN s : t[i] = s[i]
<1> DEFINE S == {s[i] : i \in DOMAIN s} \cup {e}
<1>1. s \in Seq(S) /\ e \in S
  <2>1. Len(s) \in Nat /\ DOMAIN s = 1..Len(s) /\ s \in [DOMAIN s -> S]
    BY DEF IsSeq, Range
  <2> QED BY <2>1
<1> HIDE DEF S
<1>2. /\ t \in Seq(S) /\ Len(t) = Len(s) + 1 /\ t[Len(t)] = e
      /\ DOMAIN t = DOMAIN s \cup {Len(t)} /\ Len(t) \notin DOMAIN s
      /\ \A i \in DOMAIN s : t[i] = s[i]
  BY <1>1
<1> QED BY <1>2, SeqIsSeq

LEMMA ExceptShape ==
    ASSUME NEW s, IsSeq(s), NEW i \in DOMAIN s, NEW e, NEW t, t = [s EXCEPT ![i] = e]
    PROVE  /\ IsSeq(t) /\ Len(t) = Len(s) /\ DOMAIN t = DOMAIN s /\ t[i] = e
           /\ \A j \in DOMAIN s \ {i} : t[j] = s[j]
<1> DEFINE S == Range(s) \cup {e}
<1>1. s \in Seq(S) /\ e \in S /\ i \in 1..Len(s)
  <2>1. Len(s) \in Nat /\ DOMAIN s = 1..Len(s) /\ s \in [DOMAIN s -> S]
    BY DEF IsSeq, Range
  <2> QED BY <2>1
<1> HIDE DEF S
<1>2. t \in Seq(S) /\ Len(t) = Len(s)
  BY <1>1, ExceptSeq
<1>3. /\ DOMAIN t = DOMAIN s /\ t[i] = e /\ \A j \in DOMAIN s \ {i} : t[j] = s[j]
  BY <1>1
<1> QED BY <1>2, <1>3, SeqIsSeq

LEMMA EmptyShape == IsSeq(<<>>) /\ Len(<<>>) = 0 /\ DOMAIN <<>> = {}
<1>1. <<>> \in Seq({}) /\ Len(<<>>) = 0 /\ DOMAIN <<>> = {}
  OBVIOUS
<1>2. IsSeq(<<>>)
  BY <1>1, SeqIsSeq
<1> QED BY <1>1, <1>2

LEMMA SeqSame ==
    ASSUME NEW s, IsSeq(s), NEW t, IsSeq(t), Len(s) = Len(t),
           \A i \in 1..Len(s) : s[i] = t[i]
    PROVE  s = t
<1>1. DOMAIN s = DOMAIN t /\ DOMAIN s = 1..Len(s)
  BY SeqShape
<1>2. s = [i \in DOMAIN s |-> s[i]] /\ t = [i \in DOMAIN t |-> t[i]]
  BY DEF IsSeq
<1> QED BY <1>1, <1>2

LEMMA ConcatShape ==
    ASSUME NEW s, IsSeq(s), NEW t, IsSeq(t), NEW u, u = s \o t
    PROVE  /\ IsSeq(u) /\ Len(u) = Len(s) + Len(t)
           /\ \A i \in 1..Len(s) : u[i] = s[i]
           /\ \A i \in 1..Len(t) : u[Len(s) + i] = t[i]
<1> DEFINE S == Range(s) \cup Range(t)
<1>1. s \in Seq(S) /\ t \in Seq(S) /\ Len(s) \in Nat /\ Len(t) \in Nat
  <2>1. Len(s) \in Nat /\ DOMAIN s = 1..Len(s) /\ s \in [DOMAIN s -> S]
    BY DEF IsSeq, Range
  <2>2. Len(t) \in Nat /\ DOMAIN t = 1..Len(t) /\ t \in [DOMAIN t -> S]
    BY DEF IsSeq, Range
  <2>3. IsSeq(s) /\ IsSeq(t)
    OBVIOUS
  <2>4. s \in Seq(S)
    <3>1. s \in Seq(Range(s)) /\ Range(s) \subseteq S
      BY <2>3 DEF IsSeq
    <3> HIDE DEF S
    <3> QED BY <3>1, SeqMonotonic
  <2>5. t \in Seq(S)
    <3>1. t \in Seq(Range(t)) /\ Range(t) \subseteq S
      BY <2>3 DEF IsSeq
    <3> HIDE DEF S
    <3> QED BY <3>1, SeqMonotonic
  <2> HIDE DEF S
  <2> QED BY <2>1, <2>2, <2>4, <2>5
<1> HIDE DEF S
<1>2. u \in Seq(S) /\ Len(u) = Len(s) + Len(t)
  BY <1>1
<1>3. \A i \in 1..Len(s) : u[i] = s[i]
  BY <1>1
<1>4. \A i \in 1..Len(t) : u[Len(s) + i] = t[i]
  BY <1>1
<1> QED BY <1>2, <1>3, <1>4, SeqIsSeq

LEMMA SizeIsLen ==
    ASSUME NEW s, IsSeq(s)
    PROVE  Size(s) = Len(s)
<1>1. Len(s) \in Nat /\ DOMAIN s = 1..Len(s)
  BY SeqShape
<1> DEFINE n == Len(s)
<1> HIDE DEF n
<1>2. ASSUME n \in Nat PROVE Cardinality(1..n) = n
  <2>1. Cardinality(1..n) = IF 1 > n THEN 0 ELSE n - 1 + 1
    BY <1>2, FS_Interval
  <2> QED BY <1>2, <2>1
<1> QED BY <1>1, <1>2 DEF Size, n

------------------------------------------------------------------------------
(* What a filter keeps: the elements in K.                                     *)

Filters(s, K, F) ==
    F = [i \in 0..Len(s) |->
            IF i = 0 THEN <<>> ELSE IF s[i] \in K THEN Append(F[i - 1], s[i]) ELSE F[i - 1]]
FiltersTo(s, K, n, F) ==
    \A i \in 0..n :
        F[i] = IF i = 0 THEN <<>> ELSE IF s[i] \in K THEN Append(F[i - 1], s[i]) ELSE F[i - 1]

LEMMA FilterExists ==
    ASSUME NEW s, Len(s) \in Nat, NEW K
    PROVE  \E F : Filters(s, K, F)
<1> DEFINE Bad == {n \in Nat : ~\E F : FiltersTo(s, K, n, F)}
<1>1. Bad = {}
  <2> SUFFICES ASSUME Bad # {} PROVE FALSE
    OBVIOUS
  <2>1. PICK n \in Bad : \A m \in Bad : n <= m
    <3>1. Bad \in SUBSET Nat
      OBVIOUS
    <3> HIDE DEF Bad
    <3> QED BY <3>1, LeastMember
  <2>2. n \in Nat /\ ~\E F : FiltersTo(s, K, n, F)
    OBVIOUS
  <2>3. n # 0
    <3>1. FiltersTo(s, K, 0, [i \in {0} |-> <<>>])
      BY DEF FiltersTo
    <3> QED BY <2>2, <3>1
  <2>4. n - 1 \in Nat /\ n - 1 \notin Bad
    <3>1. n - 1 \in Nat /\ n - 1 < n
      BY <2>2, <2>3
    <3> HIDE DEF Bad
    <3> QED BY <2>1, <2>2, <3>1
  <2>5. PICK F : FiltersTo(s, K, n - 1, F)
    BY <2>4
  <2> DEFINE G == [i \in 0..n |->
        IF i = n THEN IF s[n] \in K THEN Append(F[n - 1], s[n]) ELSE F[n - 1] ELSE F[i]]
  <2>6. ASSUME NEW i \in 0..n
        PROVE  G[i] = IF i = 0 THEN <<>>
                      ELSE IF s[i] \in K THEN Append(G[i - 1], s[i]) ELSE G[i - 1]
    <3>1. CASE i = n
      <4>1. G[i - 1] = F[n - 1]
        BY <2>2, <2>3, <3>1
      <4> QED BY <2>3, <3>1, <4>1
    <3>2. CASE i # n
      <4>1. i \in 0..(n - 1)
        BY <2>2, <3>2
      <4>2. G[i] = F[i] /\ (i # 0 => G[i - 1] = F[i - 1])
        BY <2>2, <3>2, <4>1
      <4> HIDE DEF G
      <4> QED BY <2>5, <4>1, <4>2 DEF FiltersTo
    <3> QED BY <3>1, <3>2
  <2>7. FiltersTo(s, K, n, G)
    <3> HIDE DEF G
    <3> QED BY <2>6 DEF FiltersTo
  <2> QED BY <2>2, <2>7
<1>2. PICK F : FiltersTo(s, K, Len(s), F)
  BY <1>1
<1> DEFINE G == [i \in 0..Len(s) |-> F[i]]
<1>3. ASSUME NEW i \in 0..Len(s)
      PROVE  G[i] = IF i = 0 THEN <<>>
                    ELSE IF s[i] \in K THEN Append(G[i - 1], s[i]) ELSE G[i - 1]
  <2>1. G[i] = F[i] /\ (i # 0 => G[i - 1] = F[i - 1])
    OBVIOUS
  <2> HIDE DEF G
  <2> QED BY <1>2, <2>1 DEF FiltersTo
<1>4. G = [i \in 0..Len(s) |-> G[i]]
  OBVIOUS
<1>5. Filters(s, K, G)
  <2> HIDE DEF G
  <2> QED BY <1>3, <1>4 DEF Filters
<1> QED BY <1>5

\* t is what s holds of K at its first n places.
KeepsTo(s, K, n, t) ==
    /\ IsSeq(t)
    /\ \A j \in DOMAIN t : t[j] \in K /\ \E i \in 1..n : t[j] = s[i]
    /\ \A i \in 1..n : s[i] \in K => \E j \in DOMAIN t : t[j] = s[i]

LEMMA FilterKeeps ==
    ASSUME NEW s, Len(s) \in Nat, NEW K, NEW F, Filters(s, K, F)
    PROVE  KeepsTo(s, K, Len(s), F[Len(s)])
<1>1. \A i \in 0..Len(s) :
        F[i] = IF i = 0 THEN <<>> ELSE IF s[i] \in K THEN Append(F[i - 1], s[i]) ELSE F[i - 1]
  BY DEF Filters
<1> DEFINE Bad == {n \in 0..Len(s) : ~KeepsTo(s, K, n, F[n])}
<1> SUFFICES ASSUME Bad # {} PROVE FALSE
  OBVIOUS
<1>2. PICK n \in Bad : \A m \in Bad : n <= m
  <2>1. Bad \in SUBSET Nat
    OBVIOUS
  <2> HIDE DEF Bad
  <2> QED BY <2>1, LeastMember
<1>3. n \in 0..Len(s) /\ ~KeepsTo(s, K, n, F[n])
  OBVIOUS
<1>4. n # 0
  <2>1. F[0] = <<>> /\ 1..0 = {}
    BY <1>1
  <2>2. KeepsTo(s, K, 0, <<>>)
    BY <2>1, EmptyShape DEF KeepsTo
  <2> QED BY <1>3, <2>1, <2>2
<1> DEFINE m == n - 1
<1> DEFINE u == F[m]
<1> DEFINE t == F[n]
<1>5. m \in 0..Len(s) /\ m \notin Bad /\ m \in Nat /\ n = m + 1
  <2>1. n - 1 \in 0..Len(s) /\ n - 1 < n /\ n - 1 \in Nat
    BY <1>3, <1>4
  <2> HIDE DEF Bad
  <2> QED BY <1>2, <1>3, <2>1
<1>6. KeepsTo(s, K, m, u)
  BY <1>5
<1>7. t = IF s[n] \in K THEN Append(u, s[n]) ELSE u
  BY <1>1, <1>3, <1>4
<1>8. 1..n = 1..m \cup {n}
  BY <1>5
<1> HIDE DEF m, u, t, Bad
<1>9. CASE s[n] \notin K
  <2>1. KeepsTo(s, K, m, t)
    BY <1>6, <1>7, <1>9
  <2>2. KeepsTo(s, K, n, t)
    BY <1>8, <1>9, <2>1 DEF KeepsTo
  <2> QED BY <1>3, <2>2 DEF t
<1>10. CASE s[n] \in K
  <2>1. IsSeq(u) /\ t = Append(u, s[n])
    BY <1>6, <1>7, <1>10 DEF KeepsTo
  <2>2. IsSeq(t) /\ t[Len(t)] = s[n]
    <3>1. IsSeq(t)
      BY <2>1, AppendShape
    <3>2. t[Len(t)] = s[n]
      BY <2>1, AppendShape
    <3> QED BY <3>1, <3>2
  <2>3. DOMAIN t = DOMAIN u \cup {Len(t)}
    BY <2>1, AppendShape
  <2>4. \A i \in DOMAIN u : t[i] = u[i]
    BY <2>1, AppendShape
  <2>5. \A j \in DOMAIN t : t[j] \in K /\ \E i \in 1..n : t[j] = s[i]
    <3>1. ASSUME NEW j \in DOMAIN u PROVE t[j] \in K /\ \E i \in 1..n : t[j] = s[i]
      <4>1. u[j] \in K /\ \E i \in 1..m : u[j] = s[i]
        BY <1>6 DEF KeepsTo
      <4> QED BY <1>8, <2>4, <4>1
    <3> QED BY <1>8, <1>10, <2>2, <2>3, <3>1
  <2>6. \A i \in 1..n : s[i] \in K => \E j \in DOMAIN t : t[j] = s[i]
    <3>1. ASSUME NEW i \in 1..m, s[i] \in K PROVE \E j \in DOMAIN t : t[j] = s[i]
      <4>1. PICK j \in DOMAIN u : u[j] = s[i]
        BY <1>6, <3>1 DEF KeepsTo
      <4> QED BY <2>3, <2>4, <4>1
    <3> QED BY <1>8, <2>2, <2>3, <3>1
  <2> QED BY <1>3, <2>2, <2>5, <2>6 DEF KeepsTo, t
<1> QED BY <1>9, <1>10

LEMMA OnlyOf ==
    ASSUME NEW s, IsSeq(s), NEW S
    PROVE  IsSeq(Only(s, S)) /\ Range(Only(s, S)) = Range(s) \cap S
<1> DEFINE G == CHOOSE F : Filters(s, S, F)
<1>1. Only(s, S) = G[Len(s)]
  BY DEF Only, Filters
<1>2. Len(s) \in Nat /\ DOMAIN s = 1..Len(s)
  BY SeqShape
<1>3. Filters(s, S, G)
  BY <1>2, FilterExists
<1> HIDE DEF G
<1>4. KeepsTo(s, S, Len(s), Only(s, S))
  BY <1>1, <1>2, <1>3, FilterKeeps
<1> DEFINE t == Only(s, S)
<1> HIDE DEF t
<1>5. IsSeq(t) /\ Range(t) = Range(s) \cap S
  BY <1>2, <1>4 DEF KeepsTo, Range, t
<1> QED BY <1>5 DEF t

------------------------------------------------------------------------------
(* Where the sequences of s are in Joined(s).                                  *)

Joins(s, F) == F = [i \in 0..Len(s) |-> IF i = 0 THEN <<>> ELSE F[i - 1] \o s[i]]
JoinsTo(s, n, F) == \A i \in 0..n : F[i] = IF i = 0 THEN <<>> ELSE F[i - 1] \o s[i]

LEMMA JoinExists ==
    ASSUME NEW s, Len(s) \in Nat
    PROVE  \E F : Joins(s, F)
<1> DEFINE Bad == {n \in Nat : ~\E F : JoinsTo(s, n, F)}
<1>1. Bad = {}
  <2> SUFFICES ASSUME Bad # {} PROVE FALSE
    OBVIOUS
  <2>1. PICK n \in Bad : \A m \in Bad : n <= m
    <3>1. Bad \in SUBSET Nat
      OBVIOUS
    <3> HIDE DEF Bad
    <3> QED BY <3>1, LeastMember
  <2>2. n \in Nat /\ ~\E F : JoinsTo(s, n, F)
    OBVIOUS
  <2>3. n # 0
    <3>1. JoinsTo(s, 0, [i \in {0} |-> <<>>])
      BY DEF JoinsTo
    <3> QED BY <2>2, <3>1
  <2>4. n - 1 \in Nat /\ n - 1 \notin Bad
    <3>1. n - 1 \in Nat /\ n - 1 < n
      BY <2>2, <2>3
    <3> HIDE DEF Bad
    <3> QED BY <2>1, <2>2, <3>1
  <2>5. PICK F : JoinsTo(s, n - 1, F)
    BY <2>4
  <2> DEFINE G == [i \in 0..n |-> IF i = n THEN F[n - 1] \o s[n] ELSE F[i]]
  <2>6. ASSUME NEW i \in 0..n
        PROVE  G[i] = IF i = 0 THEN <<>> ELSE G[i - 1] \o s[i]
    <3>1. CASE i = n
      <4>1. G[i - 1] = F[n - 1]
        BY <2>2, <2>3, <3>1
      <4> QED BY <2>3, <3>1, <4>1
    <3>2. CASE i # n
      <4>1. i \in 0..(n - 1)
        BY <2>2, <3>2
      <4>2. G[i] = F[i] /\ (i # 0 => G[i - 1] = F[i - 1])
        BY <2>2, <3>2, <4>1
      <4> HIDE DEF G
      <4> QED BY <2>5, <4>1, <4>2 DEF JoinsTo
    <3> QED BY <3>1, <3>2
  <2>7. JoinsTo(s, n, G)
    <3> HIDE DEF G
    <3> QED BY <2>6 DEF JoinsTo
  <2> QED BY <2>2, <2>7
<1>2. PICK F : JoinsTo(s, Len(s), F)
  BY <1>1
<1> DEFINE G == [i \in 0..Len(s) |-> F[i]]
<1>3. ASSUME NEW i \in 0..Len(s)
      PROVE  G[i] = IF i = 0 THEN <<>> ELSE G[i - 1] \o s[i]
  <2>1. G[i] = F[i] /\ (i # 0 => G[i - 1] = F[i - 1])
    OBVIOUS
  <2> HIDE DEF G
  <2> QED BY <1>2, <2>1 DEF JoinsTo
<1>4. G = [i \in 0..Len(s) |-> G[i]]
  OBVIOUS
<1>5. Joins(s, G)
  <2> HIDE DEF G
  <2> QED BY <1>3, <1>4 DEF Joins
<1> QED BY <1>5

AreSeqs(s) == IsSeq(s) /\ \A i \in DOMAIN s : IsSeq(s[i])

\* In t, the sequence i of the first n begins after place off[i].
Placed(s, n, t, off) ==
    /\ IsSeq(t) /\ Len(t) = off[n + 1]
    /\ off[1] = 0
    /\ \A i \in 1..n : off[i] \in Nat /\ off[i + 1] = off[i] + Len(s[i])
    /\ \A i \in 1..n : \A k \in 1..Len(s[i]) : off[i] + k \in 1..Len(t) /\ t[off[i] + k] = s[i][k]
    /\ \A j \in 1..Len(t) : \E i \in 1..n : \E k \in 1..Len(s[i]) : j = off[i] + k

LEMMA JoinPlaced ==
    ASSUME NEW s, AreSeqs(s), NEW F, Joins(s, F),
           NEW off, off = [i \in 1..(Len(s) + 1) |-> Len(F[i - 1])]
    PROVE  Placed(s, Len(s), F[Len(s)], off)
<1>1. \A i \in 0..Len(s) : F[i] = IF i = 0 THEN <<>> ELSE F[i - 1] \o s[i]
  BY DEF Joins
<1>2. Len(s) \in Nat /\ DOMAIN s = 1..Len(s) /\ \A i \in 1..Len(s) : IsSeq(s[i])
  BY SeqShape DEF AreSeqs
<1> DEFINE Bad == {n \in 0..Len(s) : ~Placed(s, n, F[n], off)}
<1> SUFFICES ASSUME Bad # {} PROVE FALSE
  <2>1. Len(s) \in 0..Len(s)
    BY <1>2
  <2> QED BY <2>1
<1>3. PICK n \in Bad : \A m \in Bad : n <= m
  <2>1. Bad \in SUBSET Nat
    OBVIOUS
  <2> HIDE DEF Bad
  <2> QED BY <2>1, LeastMember
<1>4. n \in 0..Len(s) /\ ~Placed(s, n, F[n], off)
  OBVIOUS
<1>5. n # 0
  <2>1. F[0] = <<>> /\ off[1] = Len(F[0])
    BY <1>1, <1>2
  <2>2. IsSeq(F[0]) /\ Len(F[0]) = 0 /\ off[1] = 0
    BY <2>1, EmptyShape
  <2>3. 1..0 = {} /\ 0 + 1 = 1
    OBVIOUS
  <2>4. Placed(s, 0, F[0], off)
    BY <2>2, <2>3 DEF Placed
  <2> QED BY <1>4, <2>4
<1> DEFINE m == n - 1
<1> DEFINE u == F[m]
<1> DEFINE t == F[n]
<1>6. m \in 0..Len(s) /\ m \notin Bad /\ m \in Nat /\ n = m + 1 /\ n \in 1..Len(s)
  <2>1. n - 1 \in 0..Len(s) /\ n - 1 < n /\ n - 1 \in Nat
    BY <1>2, <1>4, <1>5
  <2> HIDE DEF Bad
  <2> QED BY <1>2, <1>3, <1>4, <2>1
<1>7. Placed(s, m, u, off)
  BY <1>6
<1>8. t = u \o s[n] /\ off[n] = Len(u) /\ off[n + 1] = Len(t)
  <2>1. F[n] = F[n - 1] \o s[n]
    BY <1>1, <1>4, <1>5
  <2>2. n \in 1..(Len(s) + 1) /\ n + 1 \in 1..(Len(s) + 1) /\ (n + 1) - 1 = n
    BY <1>2, <1>6
  <2>3. off[n] = Len(F[n - 1]) /\ off[n + 1] = Len(F[(n + 1) - 1])
    BY <2>2
  <2> QED BY <2>1, <2>2, <2>3
<1>9. 1..n = 1..m \cup {n}
  BY <1>6
<1> HIDE DEF m, u, t, Bad
<1>10. IsSeq(u) /\ IsSeq(s[n]) /\ Len(u) \in Nat /\ Len(s[n]) \in Nat
  BY <1>2, <1>6, <1>7, SeqShape DEF Placed
<1>11. IsSeq(t) /\ Len(t) = Len(u) + Len(s[n])
  <2>1. IsSeq(t)
    BY <1>8, <1>10, ConcatShape
  <2>2. Len(t) = Len(u) + Len(s[n])
    BY <1>8, <1>10, ConcatShape
  <2> QED BY <2>1, <2>2
<1>12. \A i \in 1..Len(u) : t[i] = u[i]
  BY <1>8, <1>10, ConcatShape
<1>13. \A i \in 1..Len(s[n]) : t[Len(u) + i] = s[n][i]
  BY <1>8, <1>10, ConcatShape
<1>14. \A i \in 1..n : off[i] \in Nat /\ off[i + 1] = off[i] + Len(s[i])
  BY <1>7, <1>8, <1>9, <1>10, <1>11 DEF Placed
<1>15. ASSUME NEW i \in 1..n, NEW k \in 1..Len(s[i])
       PROVE  off[i] + k \in 1..Len(t) /\ t[off[i] + k] = s[i][k]
  <2>1. CASE i = n
    <3>1. k \in 1..Len(s[n]) /\ off[i] = Len(u)
      BY <1>8, <2>1
    <3>2. t[Len(u) + k] = s[n][k] /\ Len(u) + k \in 1..Len(t)
      BY <1>10, <1>11, <1>13, <3>1
    <3> QED BY <2>1, <3>1, <3>2
  <2>2. CASE i # n
    <3>1. off[i] + k \in 1..Len(u) /\ u[off[i] + k] = s[i][k]
      BY <1>7, <1>9, <2>2 DEF Placed
    <3> QED BY <1>10, <1>11, <1>12, <3>1
  <2> QED BY <2>1, <2>2
<1>16. ASSUME NEW j \in 1..Len(t)
       PROVE  \E i \in 1..n : \E k \in 1..Len(s[i]) : j = off[i] + k
  <2>1. CASE j \in 1..Len(u)
    <3>1. \E i \in 1..m : \E k \in 1..Len(s[i]) : j = off[i] + k
      BY <1>7, <2>1 DEF Placed
    <3> QED BY <1>9, <3>1
  <2>2. CASE j \notin 1..Len(u)
    <3>1. j - Len(u) \in 1..Len(s[n]) /\ j = off[n] + (j - Len(u))
      <4>1. off[n] = Len(u) /\ Len(t) = Len(u) + Len(s[n])
        BY <1>8, <1>11
      <4>2. Len(t) \in Nat
        BY <1>11, SeqShape
      <4>3. j \in Nat /\ j <= Len(t) /\ j > Len(u)
        BY <1>10, <2>2, <4>2
      <4>4. Len(u) \in Nat /\ Len(s[n]) \in Nat /\ j \in 1..(Len(u) + Len(s[n]))
        BY <1>10, <4>1, <4>2
      <4>5. j - Len(u) \in 1..Len(s[n])
        BY <4>3, <4>4
      <4> DEFINE p == Len(u)
      <4>6. p \in Nat /\ j \in Nat
        BY <4>3, <4>4
      <4> HIDE DEF p
      <4>7. j = p + (j - p)
        BY <4>6
      <4>8. off[n] = p
        BY <4>1 DEF p
      <4> QED BY <4>5, <4>7, <4>8 DEF p
    <3>2. n \in 1..n
      BY <1>9
    <3> QED BY <3>1, <3>2
  <2> QED BY <2>1, <2>2
<1>17. off[1] = 0 /\ Len(t) = off[n + 1]
  BY <1>7, <1>8 DEF Placed
<1>18. Placed(s, n, t, off)
  BY <1>11, <1>14, <1>15, <1>16, <1>17 DEF Placed
<1> QED BY <1>4, <1>18 DEF t

LEMMA JoinedPlaced ==
    ASSUME NEW s, AreSeqs(s)
    PROVE  \E off : Placed(s, Len(s), Joined(s), off)
<1> DEFINE G == CHOOSE F : Joins(s, F)
<1>1. Joined(s) = G[Len(s)]
  <2>1. Size(s) = Len(s)
    BY SizeIsLen DEF AreSeqs
  <2> QED BY <2>1 DEF Joined, Joins
<1>2. Joins(s, G)
  BY SeqShape, JoinExists DEF AreSeqs
<1> HIDE DEF G
<1> DEFINE off == [i \in 1..(Len(s) + 1) |-> Len(G[i - 1])]
<1>3. Placed(s, Len(s), G[Len(s)], off)
  <2>1. off = [i \in 1..(Len(s) + 1) |-> Len(G[i - 1])]
    OBVIOUS
  <2> HIDE DEF off
  <2> QED BY <1>2, <2>1, JoinPlaced
<1> HIDE DEF off
<1> QED BY <1>1, <1>3

LEMMA JoinedOf ==
    ASSUME NEW s, AreSeqs(s)
    PROVE  /\ IsSeq(Joined(s))
           /\ Range(Joined(s)) = UNION {Range(s[i]) : i \in DOMAIN s}
<1> DEFINE t == Joined(s)
<1>1. PICK off : Placed(s, Len(s), t, off)
  BY JoinedPlaced
<1> HIDE DEF t
<1>2. DOMAIN s = 1..Len(s) /\ \A i \in 1..Len(s) : DOMAIN s[i] = 1..Len(s[i])
  BY SeqShape DEF AreSeqs
<1>3. IsSeq(t) /\ DOMAIN t = 1..Len(t)
  BY <1>1, SeqShape DEF Placed
<1>4. ASSUME NEW e \in Range(t) PROVE e \in UNION {Range(s[i]) : i \in DOMAIN s}
  <2>1. PICK j \in 1..Len(t) : e = t[j]
    BY <1>3 DEF Range
  <2>2. PICK i \in 1..Len(s) : \E k \in 1..Len(s[i]) : j = off[i] + k
    BY <1>1 DEF Placed
  <2>5. PICK k \in 1..Len(s[i]) : j = off[i] + k
    BY <2>2
  <2>3. e = s[i][k]
    BY <1>1, <2>1, <2>5 DEF Placed
  <2>4. e \in Range(s[i]) /\ i \in DOMAIN s
    BY <1>2, <2>3 DEF Range
  <2> QED BY <2>4
<1>5. ASSUME NEW i \in DOMAIN s, NEW e \in Range(s[i]) PROVE e \in Range(t)
  <2>1. PICK k \in 1..Len(s[i]) : e = s[i][k]
    BY <1>2 DEF Range
  <2>2. off[i] + k \in DOMAIN t /\ t[off[i] + k] = e
    BY <1>1, <1>2, <1>3, <2>1 DEF Placed
  <2> QED BY <2>2 DEF Range
<1>6. Range(t) = UNION {Range(s[i]) : i \in DOMAIN s}
  BY <1>4, <1>5
<1> QED BY <1>3, <1>6 DEF t

------------------------------------------------------------------------------
(* Mapped sequences, and what two sequences hold together.                     *)

LEMMA FunShape ==
    ASSUME NEW n \in Nat, NEW f, f = [i \in 1..n |-> f[i]]
    PROVE  IsSeq(f) /\ Len(f) = n /\ DOMAIN f = 1..n
<1> DEFINE S == {f[i] : i \in 1..n}
<1>1. f \in [1..n -> S]
  BY DEF S
<1>2. f \in Seq(S) /\ Len(f) = n /\ DOMAIN f = 1..n
  <2> HIDE DEF S
  <2>1. f \in Seq(S)
    BY <1>1, SeqDef
  <2>2. DOMAIN f = 1..n
    BY <1>1
  <2>3. Len(f) \in Nat /\ DOMAIN f = 1..Len(f)
    BY <2>1, LenProperties
  <2>4. Len(f) = n
    BY <2>2, <2>3
  <2> QED BY <2>1, <2>2, <2>4
<1> QED BY <1>2, SeqIsSeq

LEMMA OneShape ==
    ASSUME NEW e
    PROVE  IsSeq(<<e>>) /\ Len(<<e>>) = 1 /\ Range(<<e>>) = {e} /\ <<e>>[1] = e /\ <<e>> # <<>>
<1>1. <<e>> \in Seq({e}) /\ Len(<<e>>) = 1 /\ <<e>>[1] = e /\ DOMAIN <<e>> = {1}
  OBVIOUS
<1>2. <<e>> # <<>>
  BY <1>1, EmptyShape
<1> QED BY <1>1, <1>2, SeqIsSeq DEF Range

LEMMA PairShape ==
    ASSUME NEW d, NEW e
    PROVE  IsSeq(<<d, e>>) /\ Len(<<d, e>>) = 2 /\ <<d, e>>[1] = d /\ <<d, e>>[2] = e
<1>1. <<d, e>> \in Seq({d, e}) /\ Len(<<d, e>>) = 2 /\ <<d, e>>[1] = d /\ <<d, e>>[2] = e
  OBVIOUS
<1> QED BY <1>1, SeqIsSeq

LEMMA ConcatRange ==
    ASSUME NEW s, IsSeq(s), NEW t, IsSeq(t)
    PROVE  IsSeq(s \o t) /\ Range(s \o t) = Range(s) \cup Range(t)
<1> DEFINE u == s \o t
<1>1. IsSeq(u)
  BY ConcatShape
<1>2. Len(u) = Len(s) + Len(t)
  BY ConcatShape
<1>3. \A i \in 1..Len(s) : u[i] = s[i]
  BY ConcatShape
<1>4. \A i \in 1..Len(t) : u[Len(s) + i] = t[i]
  BY ConcatShape
<1> HIDE DEF u
<1>5. /\ Len(s) \in Nat /\ Len(t) \in Nat
      /\ DOMAIN s = 1..Len(s) /\ DOMAIN t = 1..Len(t) /\ DOMAIN u = 1..Len(u)
  BY <1>1, SeqShape
<1>6. \A i \in DOMAIN s : i \in DOMAIN u /\ u[i] = s[i]
  BY <1>2, <1>3, <1>5
<1>7. \A i \in DOMAIN t : Len(s) + i \in DOMAIN u /\ u[Len(s) + i] = t[i]
  BY <1>2, <1>4, <1>5
<1>8. ASSUME NEW j \in DOMAIN u PROVE u[j] \in Range(s) \cup Range(t)
  <2>1. CASE j \in DOMAIN s
    BY <1>6, <2>1 DEF Range
  <2>2. CASE j \notin DOMAIN s
    <3>1. j - Len(s) \in DOMAIN t /\ j = Len(s) + (j - Len(s))
      BY <1>2, <1>5, <2>2
    <3>2. u[j] = t[j - Len(s)]
      BY <1>7, <3>1
    <3> QED BY <3>1, <3>2 DEF Range
  <2> QED BY <2>1, <2>2
<1>9. Range(u) = Range(s) \cup Range(t)
  <2>1. Range(s) \subseteq Range(u)
    BY <1>6 DEF Range
  <2>2. Range(t) \subseteq Range(u)
    BY <1>7 DEF Range
  <2>3. Range(u) \subseteq Range(s) \cup Range(t)
    BY <1>8 DEF Range
  <2> QED BY <2>1, <2>2, <2>3
<1> QED BY <1>1, <1>9 DEF u

LEMMA EmptyRange ==
    ASSUME NEW s, IsSeq(s)
    PROVE  (s = <<>> <=> Range(s) = {}) /\ (s = <<>> <=> Len(s) = 0)
<1>1. Len(s) \in Nat /\ DOMAIN s = 1..Len(s)
  BY SeqShape
<1>2. Len(s) = 0 => s = <<>>
  BY EmptyShape, SeqSame
<1>3. Range(s) = {} => Len(s) = 0
  <2>1. Len(s) # 0 => 1 \in DOMAIN s
    BY <1>1
  <2>2. 1 \in DOMAIN s => s[1] \in Range(s)
    BY DEF Range
  <2> QED BY <2>1, <2>2
<1>4. s = <<>> => Len(s) = 0 /\ Range(s) = {}
  BY EmptyShape DEF Range
<1> QED BY <1>2, <1>3, <1>4

------------------------------------------------------------------------------
(* Which calls a content refers to.                                            *)

Referred(type, content) == {b.ref : b \in {x \in Range(content) : x.type = type}}

LEMMA MapJoined ==
    ASSUME NEW n \in Nat, NEW s, s = [i \in 1..n |-> s[i]], \A i \in 1..n : IsSeq(s[i])
    PROVE  /\ AreSeqs(s) /\ Len(s) = n /\ IsSeq(Joined(s))
           /\ Range(Joined(s)) = UNION {Range(s[i]) : i \in 1..n}
<1>1. IsSeq(s) /\ Len(s) = n /\ DOMAIN s = 1..n
  BY FunShape
<1>2. AreSeqs(s)
  BY <1>1 DEF AreSeqs
<1>3. IsSeq(Joined(s)) /\ Range(Joined(s)) = UNION {Range(s[i]) : i \in DOMAIN s}
  BY <1>2, JoinedOf
<1> QED BY <1>1, <1>2, <1>3

LEMMA RefsAre ==
    ASSUME NEW type, NEW content, IsSeq(content)
    PROVE  IsSeq(Refs(type, content)) /\ Range(Refs(type, content)) = Referred(type, content)
<1> DEFINE piece(i) == IF content[i].type = type THEN <<content[i].ref>> ELSE <<>>
<1> DEFINE s == [i \in DOMAIN content |-> piece(i)]
<1>1. Len(content) \in Nat /\ DOMAIN content = 1..Len(content)
  BY SeqShape
<1>2. Refs(type, content) = Joined(s)
  BY DEF Refs
<1>3. \A i \in DOMAIN content :
        /\ IsSeq(piece(i))
        /\ Range(piece(i)) = IF content[i].type = type THEN {content[i].ref} ELSE {}
  <2> TAKE i \in DOMAIN content
  <2>1. CASE content[i].type = type
    BY <2>1, OneShape
  <2>2. CASE content[i].type # type
    BY <2>2, EmptyShape, EmptyRange
  <2> QED BY <2>1, <2>2
<1>4. s = [i \in 1..Len(content) |-> s[i]] /\ \A i \in DOMAIN content : s[i] = piece(i)
  BY <1>1
<1> HIDE DEF piece, s
<1>5. IsSeq(Joined(s)) /\ Range(Joined(s)) = UNION {Range(s[i]) : i \in 1..Len(content)}
  BY <1>1, <1>3, <1>4, MapJoined
<1>6. ASSUME NEW e PROVE e \in Range(Joined(s)) <=> e \in Referred(type, content)
  <2>1. e \in Range(Joined(s)) <=> \E i \in DOMAIN content : e \in Range(piece(i))
    BY <1>1, <1>4, <1>5
  <2>2. e \in Range(Joined(s)) <=>
          \E i \in DOMAIN content : content[i].type = type /\ e = content[i].ref
    BY <1>3, <2>1
  <2> QED BY <2>2 DEF Referred, Range
<1> QED BY <1>2, <1>5, <1>6

LEMMA ReferredIn ==
    ASSUME NEW type, NEW content
    PROVE  /\ Referred(type, content) = {}
                <=> \A b \in Range(content) : b.type # type
           /\ \A b \in Range(content) : b.type = type => b.ref \in Referred(type, content)
BY DEF Referred

------------------------------------------------------------------------------
(* normalizeForIrPaths(): every call is answered in the turn after it.         *)

\* Only an assistant's blocks make calls, and a system turn is text.
TypedMessage(m) ==
    /\ IsSeq(m.content)
    /\ \A b \in Range(m.content) :
           /\ IsSeq(b.says)
           /\ b.type = "tool_use" => m.role = "assistant" /\ ~m.flat
           /\ m.role = "system" => b.type = "text"
Typed(messages) == IsSeq(messages) /\ \A i \in DOMAIN messages : TypedMessage(messages[i])

LEMMA AnswerAnswers ==
    ASSUME NEW pending, IsSeq(pending),
           NEW content, IsSeq(content), \A b \in Range(content) : b.type # "tool_use"
    PROVE  LET a == Answer(pending, content)
           IN  /\ a.role = "user" /\ IsSeq(a.content)
               /\ \A b \in Range(a.content) : b.type # "tool_use"
               /\ Range(pending) \subseteq Referred("tool_result", a.content)
<1> DEFINE pruned == Pruned(pending, content)
<1> DEFINE missing == Missing(pending, pruned)
<1> DEFINE synthetic == syntheticToolResults(missing)
<1> DEFINE a == Answer(pending, content)
<1>1. a = Message("user", FALSE, synthetic \o pruned)
  BY DEF Answer
<1>2. IsSeq(pruned) /\ Range(pruned) \subseteq Range(content)
  BY OnlyOf DEF Pruned
<1> HIDE DEF pruned
<1>3. IsSeq(missing) /\ Range(missing) = Range(pending) \ Referred("tool_result", pruned)
  <2>1. Range(toolResultIds(pruned)) = Referred("tool_result", pruned)
    BY <1>2, RefsAre DEF toolResultIds
  <2>2. IsSeq(missing) /\ Range(missing) = Range(pending) \cap (Range(pending) \ Range(toolResultIds(pruned)))
    BY OnlyOf DEF Missing
  <2> QED BY <2>1, <2>2
<1> HIDE DEF missing
<1>4. /\ IsSeq(synthetic)
      /\ \A i \in DOMAIN missing : i \in DOMAIN synthetic /\ synthetic[i] = Result(missing[i], Ours)
      /\ DOMAIN synthetic = DOMAIN missing
  <2>1. Len(missing) \in Nat /\ DOMAIN missing = 1..Len(missing)
    BY <1>3, SeqShape
  <2>2. synthetic = [i \in 1..Len(missing) |-> synthetic[i]]
    BY <2>1 DEF syntheticToolResults
  <2>3. IsSeq(synthetic)
    <3> HIDE DEF synthetic
    <3> QED BY <2>1, <2>2, FunShape
  <2> QED BY <2>3 DEF syntheticToolResults
<1> HIDE DEF synthetic
<1>5. \A i \in DOMAIN synthetic : synthetic[i].type = "tool_result" /\ synthetic[i].ref = missing[i]
  BY <1>4 DEF Result, Block
<1>6. IsSeq(synthetic \o pruned) /\ Range(synthetic \o pruned) = Range(synthetic) \cup Range(pruned)
  BY <1>2, <1>4, ConcatRange
<1>7. a.role = "user" /\ a.content = synthetic \o pruned
  BY <1>1 DEF Message
<1> HIDE DEF a
<1>8. \A b \in Range(a.content) : b.type # "tool_use"
  <2>1. \A b \in Range(synthetic) : b.type # "tool_use"
    BY <1>5 DEF Range
  <2> QED BY <1>2, <1>6, <1>7, <2>1
<1>9. ASSUME NEW c \in Range(pending) PROVE c \in Referred("tool_result", a.content)
  <2>1. CASE c \in Referred("tool_result", pruned)
    BY <1>6, <1>7, <2>1 DEF Referred
  <2>2. CASE c \notin Referred("tool_result", pruned)
    <3>1. c \in Range(missing)
      BY <1>3, <2>2
    <3>2. PICK i \in DOMAIN missing : missing[i] = c
      BY <3>1 DEF Range
    <3>3. synthetic[i] \in Range(synthetic) /\ synthetic[i].type = "tool_result" /\ synthetic[i].ref = c
      BY <1>4, <1>5, <3>2 DEF Range
    <3> QED BY <1>6, <1>7, <3>3 DEF Referred
  <2> QED BY <2>1, <2>2
<1> QED BY <1>6, <1>7, <1>8, <1>9 DEF a

LEMMA SaysAre ==
    ASSUME NEW types, NEW content, IsSeq(content), \A b \in Range(content) : IsSeq(b.says)
    PROVE  /\ IsSeq(Says(types, content))
           /\ Range(Says(types, content)) =
                UNION {Range(b.says) : b \in {x \in Range(content) : x.type \in types}}
<1> DEFINE piece(i) == IF content[i].type \in types THEN content[i].says ELSE <<>>
<1> DEFINE s == [i \in DOMAIN content |-> piece(i)]
<1>1. Len(content) \in Nat /\ DOMAIN content = 1..Len(content)
  BY SeqShape
<1>2. Says(types, content) = Joined(s)
  BY DEF Says
<1>3. \A i \in DOMAIN content :
        /\ IsSeq(piece(i))
        /\ Range(piece(i)) = IF content[i].type \in types THEN Range(content[i].says) ELSE {}
  <2> TAKE i \in DOMAIN content
  <2>1. content[i] \in Range(content)
    BY DEF Range
  <2>2. CASE content[i].type \in types
    BY <2>1, <2>2
  <2>3. CASE content[i].type \notin types
    BY <2>3, EmptyShape, EmptyRange
  <2> QED BY <2>2, <2>3
<1>4. s = [i \in 1..Len(content) |-> s[i]] /\ \A i \in DOMAIN content : s[i] = piece(i)
  BY <1>1
<1> HIDE DEF piece, s
<1>5. IsSeq(Joined(s)) /\ Range(Joined(s)) = UNION {Range(s[i]) : i \in 1..Len(content)}
  BY <1>1, <1>3, <1>4, MapJoined
<1> DEFINE all == UNION {Range(b.says) : b \in {x \in Range(content) : x.type \in types}}
<1>6. ASSUME NEW e PROVE e \in Range(Joined(s)) <=> e \in all
  <2>1. e \in Range(Joined(s)) <=> \E i \in DOMAIN content : e \in Range(piece(i))
    BY <1>1, <1>4, <1>5
  <2>2. e \in Range(Joined(s)) <=>
          \E i \in DOMAIN content : content[i].type \in types /\ e \in Range(content[i].says)
    BY <1>3, <2>1
  <2> QED BY <2>2 DEF Range
<1> QED BY <1>2, <1>5, <1>6

LEMMA ConversationalTyped ==
    ASSUME NEW asked, Typed(asked)
    PROVE  Typed(Conversational(asked))
<1> DEFINE piece(i) ==
        IF Hoisted(asked, i) THEN <<>>
        ELSE IF asked[i].role = "system" THEN Demoted(asked[i])
        ELSE Kept(asked[i])
<1> DEFINE s == [i \in DOMAIN asked |-> piece(i)]
<1>1. Len(asked) \in Nat /\ DOMAIN asked = 1..Len(asked) /\ \A i \in DOMAIN asked : TypedMessage(asked[i])
  BY SeqShape DEF Typed
<1>2. Conversational(asked) = Joined(s)
  BY DEF Conversational
<1>3. ASSUME NEW m, TypedMessage(m)
      PROVE  IsSeq(Kept(m)) /\ \A e \in Range(Kept(m)) : TypedMessage(e)
  <2> DEFINE content == stripEmptyBlocks(m.content)
  <2>1. IsSeq(content) /\ Range(content) \subseteq Range(m.content)
    BY <1>3, OnlyOf DEF stripEmptyBlocks, TypedMessage
  <2>2. Kept(m) = IF content = <<>> THEN <<>> ELSE <<Message(m.role, m.flat, content)>>
    BY DEF Kept
  <2> HIDE DEF content
  <2>3. TypedMessage(Message(m.role, m.flat, content))
    BY <1>3, <2>1 DEF TypedMessage, Message
  <2>4. CASE content = <<>>
    BY <2>2, <2>4, EmptyShape, EmptyRange
  <2>5. CASE content # <<>>
    BY <2>2, <2>3, <2>5, OneShape
  <2> QED BY <2>4, <2>5
<1>4. ASSUME NEW m, TypedMessage(m)
      PROVE  IsSeq(Demoted(m)) /\ \A e \in Range(Demoted(m)) : TypedMessage(e)
  <2> DEFINE block == Text(messageText(m.content))
  <2> DEFINE own == Message("user", TRUE, <<block>>)
  <2>1. Demoted(m) = IF messageText(m.content) = <<>> THEN <<>> ELSE <<own>>
    BY DEF Demoted
  <2>2. block.type = "text" /\ IsSeq(block.says)
    <3>1. IsSeq(messageText(m.content))
      BY <1>4, SaysAre DEF messageText, TypedMessage
    <3> QED BY <3>1 DEF Text, Block
  <2> HIDE DEF block
  <2>3. TypedMessage(own)
    <3>1. IsSeq(<<block>>) /\ Range(<<block>>) = {block}
      BY OneShape
    <3> QED BY <2>2, <3>1 DEF TypedMessage, Message
  <2> HIDE DEF own
  <2>4. CASE messageText(m.content) = <<>>
    BY <2>1, <2>4, EmptyShape, EmptyRange
  <2>5. CASE messageText(m.content) # <<>>
    BY <2>1, <2>3, <2>5, OneShape
  <2> QED BY <2>4, <2>5
<1>5. \A i \in DOMAIN asked : IsSeq(piece(i)) /\ \A e \in Range(piece(i)) : TypedMessage(e)
  <2> TAKE i \in DOMAIN asked
  <2>1. CASE Hoisted(asked, i)
    BY <2>1, EmptyShape, EmptyRange
  <2>2. CASE ~Hoisted(asked, i) /\ asked[i].role = "system"
    BY <1>1, <1>4, <2>2
  <2>3. CASE ~Hoisted(asked, i) /\ asked[i].role # "system"
    BY <1>1, <1>3, <2>3
  <2> QED BY <2>1, <2>2, <2>3
<1>6. s = [i \in 1..Len(asked) |-> s[i]] /\ \A i \in DOMAIN asked : s[i] = piece(i)
  BY <1>1
<1> HIDE DEF piece, s
<1>7. IsSeq(Joined(s)) /\ Range(Joined(s)) = UNION {Range(s[i]) : i \in 1..Len(asked)}
  BY <1>1, <1>5, <1>6, MapJoined
<1>8. \A e \in Range(Joined(s)) : TypedMessage(e)
  BY <1>1, <1>5, <1>6, <1>7
<1>9. \A i \in DOMAIN Joined(s) : Joined(s)[i] \in Range(Joined(s))
  BY DEF Range
<1> QED BY <1>2, <1>7, <1>8, <1>9 DEF Typed

\* A message that makes calls is an assistant's, and the message after it is a
\* user's that answers them.
Follows(m, next) ==
    /\ m.role = "assistant" /\ next.role = "user"
    /\ Referred("tool_use", m.content) \subseteq Referred("tool_result", next.content)
Closed(messages) ==
    /\ IsSeq(messages)
    /\ \A i \in DOMAIN messages : IsSeq(messages[i].content)
    /\ \A i \in DOMAIN messages : Referred("tool_use", messages[i].content) # {} =>
           i + 1 \in DOMAIN messages /\ Follows(messages[i], messages[i + 1])

LEMMA PendingAre ==
    ASSUME NEW m, TypedMessage(m)
    PROVE  IsSeq(Pending(m)) /\ Range(Pending(m)) = Referred("tool_use", m.content)
<1>1. IsSeq(Refs("tool_use", m.content))
        /\ Range(Refs("tool_use", m.content)) = Referred("tool_use", m.content)
  BY RefsAre DEF TypedMessage
<1>2. CASE m.role = "assistant" /\ ~m.flat
  BY <1>1, <1>2 DEF Pending, toolUseIds
<1>3. CASE ~(m.role = "assistant" /\ ~m.flat)
  <2>1. Pending(m) = <<>>
    BY <1>3 DEF Pending, toolUseIds
  <2>2. Referred("tool_use", m.content) = {}
    BY <1>3 DEF Referred, TypedMessage
  <2> QED BY <2>1, <2>2, EmptyShape, EmptyRange
<1> QED BY <1>2, <1>3

LEMMA ReconciledClosed ==
    ASSUME NEW asked, Typed(asked)
    PROVE  Closed(reconcileToolBlocks(asked))
<1> DEFINE given(i) == IF Answering(asked, i + 1) THEN asked[i + 1].content ELSE <<>>
<1> DEFINE answer(i) == Answer(Pending(asked[i]), given(i))
<1> DEFINE piece(i) ==
        IF Answering(asked, i) THEN <<>>
        ELSE IF ~HasPending(asked[i]) THEN <<asked[i]>>
        ELSE <<asked[i], answer(i)>>
<1> DEFINE s == [i \in DOMAIN asked |-> piece(i)]
<1>1. Len(asked) \in Nat /\ DOMAIN asked = 1..Len(asked) /\ \A i \in DOMAIN asked : TypedMessage(asked[i])
  BY SeqShape DEF Typed
<1>2. reconcileToolBlocks(asked) = Joined(s)
  BY DEF reconcileToolBlocks
<1>3. \A i \in DOMAIN asked : IsSeq(given(i)) /\ \A b \in Range(given(i)) : b.type # "tool_use"
  <2> TAKE i \in DOMAIN asked
  <2>1. CASE Answering(asked, i + 1)
    BY <1>1, <2>1 DEF Answering, TypedMessage
  <2>2. CASE ~Answering(asked, i + 1)
    BY <2>2, EmptyShape, EmptyRange
  <2> QED BY <2>1, <2>2
<1> HIDE DEF given
<1>4. \A i \in DOMAIN asked :
        /\ answer(i).role = "user" /\ IsSeq(answer(i).content)
        /\ Referred("tool_use", answer(i).content) = {}
        /\ Referred("tool_use", asked[i].content) \subseteq Referred("tool_result", answer(i).content)
  <2> TAKE i \in DOMAIN asked
  <2>1. IsSeq(Pending(asked[i])) /\ Range(Pending(asked[i])) = Referred("tool_use", asked[i].content)
    BY <1>1, PendingAre
  <2> DEFINE a == Answer(Pending(asked[i]), given(i))
  <2>2. /\ a.role = "user" /\ IsSeq(a.content)
        /\ \A b \in Range(a.content) : b.type # "tool_use"
        /\ Range(Pending(asked[i])) \subseteq Referred("tool_result", a.content)
    BY <1>3, <2>1, AnswerAnswers
  <2> HIDE DEF a
  <2>3. Referred("tool_use", a.content) = {}
    BY <2>2 DEF Referred
  <2>4. answer(i) = a
    BY DEF a
  <2> HIDE DEF answer
  <2> QED BY <2>1, <2>2, <2>3, <2>4
<1>5. \A i \in DOMAIN asked : IsSeq(piece(i))
  BY EmptyShape, OneShape, PairShape
<1>6. s = [i \in 1..Len(asked) |-> s[i]] /\ \A i \in DOMAIN asked : s[i] = piece(i)
  BY <1>1
<1>7. \A i \in DOMAIN asked : \A j \in 1..Len(piece(i)) :
        \/ piece(i)[j] = asked[i] /\ Referred("tool_use", asked[i].content) = {}
        \/ /\ piece(i)[j] = asked[i] /\ asked[i].role = "assistant"
           /\ j + 1 \in 1..Len(piece(i)) /\ piece(i)[j + 1] = answer(i)
        \/ piece(i)[j] = answer(i)
  <2> TAKE i \in DOMAIN asked
  <2> TAKE j \in 1..Len(piece(i))
  <2> HIDE DEF answer
  <2>1. CASE Answering(asked, i)
    BY <2>1, EmptyShape
  <2>2. CASE ~Answering(asked, i) /\ ~HasPending(asked[i])
    <3>1. piece(i) = <<asked[i]>>
      BY <2>2
    <3>2. j = 1 /\ piece(i)[j] = asked[i]
      BY <3>1, OneShape
    <3>3. Referred("tool_use", asked[i].content) = {}
      BY <1>1, <2>2 DEF HasPending, TypedMessage, Referred, Range
    <3> QED BY <3>2, <3>3
  <2>3. CASE ~Answering(asked, i) /\ HasPending(asked[i])
    <3>1. piece(i) = <<asked[i], answer(i)>>
      BY <2>3
    <3> HIDE DEF piece
    <3>2. Len(piece(i)) = 2 /\ piece(i)[1] = asked[i] /\ piece(i)[2] = answer(i)
      BY <3>1, PairShape
    <3>3. asked[i].role = "assistant"
      BY <2>3 DEF HasPending
    <3>4. j = 1 \/ j = 2
      BY <3>2
    <3> QED BY <3>2, <3>3, <3>4
  <2> QED BY <2>1, <2>2, <2>3
<1> HIDE DEF answer, piece, s
<1>8. AreSeqs(s) /\ Len(s) = Len(asked) /\ IsSeq(Joined(s))
  BY <1>1, <1>5, <1>6, MapJoined
<1> DEFINE r == Joined(s)
<1>9. PICK off : Placed(s, Len(asked), r, off)
  BY <1>8, JoinedPlaced
<1>10. IsSeq(r) /\ Len(r) \in Nat /\ DOMAIN r = 1..Len(r)
  BY <1>8, SeqShape
<1> HIDE DEF r
<1>11. ASSUME NEW k \in DOMAIN r
       PROVE  /\ IsSeq(r[k].content)
              /\ Referred("tool_use", r[k].content) # {} => k + 1 \in DOMAIN r /\ Follows(r[k], r[k + 1])
  <2>10. k \in 1..Len(r)
    BY <1>10
  <2>11. \E i \in 1..Len(asked) : \E j \in 1..Len(s[i]) : k = off[i] + j
    BY <1>9, <2>10 DEF Placed
  <2>1. PICK i \in DOMAIN asked : \E j \in 1..Len(s[i]) : k = off[i] + j
    BY <1>1, <2>11
  <2>2. PICK j \in 1..Len(s[i]) : k = off[i] + j
    BY <2>1
  <2>3. \A h \in 1..Len(piece(i)) : off[i] + h \in DOMAIN r /\ r[off[i] + h] = piece(i)[h]
    <3>1. i \in 1..Len(asked) /\ s[i] = piece(i)
      BY <1>1, <1>6
    <3>2. \A h \in 1..Len(s[i]) : off[i] + h \in 1..Len(r) /\ r[off[i] + h] = s[i][h]
      BY <1>9, <3>1 DEF Placed
    <3> QED BY <1>10, <3>1, <3>2
  <2>4. j \in 1..Len(piece(i)) /\ r[k] = piece(i)[j]
    BY <1>6, <2>2, <2>3
  <2>5. off[i] \in Nat /\ j \in Nat
    BY <1>1, <1>9, <2>2 DEF Placed
  <2>6. CASE r[k] = asked[i] /\ Referred("tool_use", asked[i].content) = {}
    BY <1>1, <2>6 DEF TypedMessage
  <2>7. CASE r[k] = answer(i)
    BY <1>4, <2>7
  <2>8. CASE /\ r[k] = asked[i] /\ asked[i].role = "assistant"
             /\ j + 1 \in 1..Len(piece(i)) /\ piece(i)[j + 1] = answer(i)
    <3>1. off[i] + (j + 1) = k + 1
      BY <2>2, <2>5
    <3>2. k + 1 \in DOMAIN r /\ r[k + 1] = answer(i)
      BY <2>3, <2>8, <3>1
    <3> QED BY <1>1, <1>4, <2>8, <3>2 DEF TypedMessage, Follows
  <2> QED BY <1>7, <2>4, <2>6, <2>7, <2>8
<1> QED BY <1>2, <1>10, <1>11 DEF Closed, r

LEMMA NormalizedClosed ==
    ASSUME NEW asked, Typed(asked)
    PROVE  Closed(normalizeForIrPaths(asked))
BY ConversationalTyped, ReconciledClosed DEF normalizeForIrPaths

------------------------------------------------------------------------------
(* The OpenAI wires.                                                           *)

LEMMA ToolMessagesAre ==
    ASSUME NEW content, IsSeq(content)
    PROVE  /\ IsSeq(ToolMessages(content))
           /\ \A e \in Range(ToolMessages(content)) : e.role = "tool" /\ e.calls = <<>>
           /\ \A c \in Referred("tool_result", content) :
                  \E e \in Range(ToolMessages(content)) : e.for = Sanitized[c]
<1> DEFINE one(i) == OpenAIMessage("tool", content[i].says, <<>>, <<>>, SanitizeResult(content[i].ref))
<1> DEFINE piece(i) == IF content[i].type = "tool_result" THEN <<one(i)>> ELSE <<>>
<1> DEFINE s == [i \in DOMAIN content |-> piece(i)]
<1>1. Len(content) \in Nat /\ DOMAIN content = 1..Len(content)
  BY SeqShape
<1>2. ToolMessages(content) = Joined(s)
  BY DEF ToolMessages
<1>3. \A i \in DOMAIN content :
        one(i).role = "tool" /\ one(i).calls = <<>> /\ one(i).for = Sanitized[content[i].ref]
  BY DEF OpenAIMessage, SanitizeResult
<1> HIDE DEF one
<1>4. \A i \in DOMAIN content :
        /\ IsSeq(piece(i))
        /\ Range(piece(i)) = IF content[i].type = "tool_result" THEN {one(i)} ELSE {}
  <2> TAKE i \in DOMAIN content
  <2>1. CASE content[i].type = "tool_result"
    BY <2>1, OneShape
  <2>2. CASE content[i].type # "tool_result"
    BY <2>2, EmptyShape, EmptyRange
  <2> QED BY <2>1, <2>2
<1>5. s = [i \in 1..Len(content) |-> s[i]] /\ \A i \in DOMAIN content : s[i] = piece(i)
  BY <1>1
<1> HIDE DEF piece, s
<1>6. IsSeq(Joined(s)) /\ Range(Joined(s)) = UNION {Range(s[i]) : i \in 1..Len(content)}
  BY <1>1, <1>4, <1>5, MapJoined
<1>7. \A e \in Range(Joined(s)) : \E i \in DOMAIN content : e = one(i)
  BY <1>1, <1>4, <1>5, <1>6
<1>8. \A i \in DOMAIN content : content[i].type = "tool_result" => one(i) \in Range(Joined(s))
  BY <1>1, <1>4, <1>5, <1>6
<1>9. ASSUME NEW c \in Referred("tool_result", content)
      PROVE  \E e \in Range(Joined(s)) : e.for = Sanitized[c]
  <2>1. PICK i \in DOMAIN content : content[i].type = "tool_result" /\ content[i].ref = c
    BY DEF Referred, Range
  <2> QED BY <1>3, <1>8, <2>1
<1>10. \A e \in Range(Joined(s)) : e.role = "tool" /\ e.calls = <<>>
  BY <1>3, <1>7
<1> QED BY <1>2, <1>6, <1>9, <1>10

LEMMA ToolCallsAre ==
    ASSUME NEW content, IsSeq(content)
    PROVE  /\ IsSeq(ToolCalls(content))
           /\ Range(ToolCalls(content)) = {Sanitized[c] : c \in Referred("tool_use", content)}
<1> DEFINE ids == Refs("tool_use", content)
<1> DEFINE calls == ToolCalls(content)
<1>1. IsSeq(ids) /\ Range(ids) = Referred("tool_use", content)
  BY RefsAre
<1>2. calls = [i \in DOMAIN ids |-> Sanitized[ids[i]]]
  BY DEF ToolCalls
<1> HIDE DEF ids, calls
<1>3. Len(ids) \in Nat /\ DOMAIN ids = 1..Len(ids)
  BY <1>1, SeqShape
<1>4. IsSeq(calls)
  <2>1. calls = [i \in 1..Len(ids) |-> calls[i]]
    BY <1>2, <1>3
  <2> QED BY <1>3, <2>1, FunShape
<1>5. Range(calls) = {Sanitized[c] : c \in Range(ids)}
  BY <1>2 DEF Range
<1> QED BY <1>1, <1>4, <1>5 DEF calls

\* A message with calls is one message that makes them, then results; any other
\* begins with its results.
LEMMA PieceOfCalls ==
    ASSUME NEW wire, NEW m, IsSeq(m.content),
           m.role = "assistant", Referred("tool_use", m.content) # {}
    PROVE  LET p == anthropicMessageToOpenAI(wire, m)
               results == ToolMessages(m.content)
           IN  /\ IsSeq(p) /\ Len(p) = 1 + Len(results)
               /\ Range(p[1].calls) = {Sanitized[c] : c \in Referred("tool_use", m.content)}
               /\ \A d \in 1..Len(results) : p[1 + d] = results[d]
<1> DEFINE results == ToolMessages(m.content)
<1> DEFINE calls == ToolCalls(m.content)
<1> DEFINE own == OpenAIMessage(m.role, Parts(m.content), Reasoning(wire, m), calls, Nobody)
<1> DEFINE p == anthropicMessageToOpenAI(wire, m)
<1>1. IsSeq(calls) /\ Range(calls) = {Sanitized[c] : c \in Referred("tool_use", m.content)}
  BY ToolCallsAre
<1>2. calls # <<>>
  <2>1. Range(calls) # {}
    <3> HIDE DEF calls
    <3> QED BY <1>1
  <2> HIDE DEF calls
  <2> QED BY <1>1, <2>1, EmptyRange
<1>3. IsSeq(results)
  BY ToolMessagesAre
<1>4. p = <<own>> \o results
  BY <1>2 DEF anthropicMessageToOpenAI
<1>5. own.calls = calls
  BY DEF OpenAIMessage
<1> HIDE DEF results, calls, own, p
<1>6. IsSeq(<<own>>) /\ Len(<<own>>) = 1 /\ <<own>>[1] = own
  BY OneShape
<1>7. IsSeq(p)
  BY <1>3, <1>4, <1>6, ConcatShape
<1>8. Len(p) = Len(<<own>>) + Len(results)
  BY <1>3, <1>4, <1>6, ConcatShape
<1>9. \A i \in 1..Len(<<own>>) : p[i] = <<own>>[i]
  BY <1>3, <1>4, <1>6, ConcatShape
<1>10. \A i \in 1..Len(results) : p[Len(<<own>>) + i] = results[i]
  BY <1>3, <1>4, <1>6, ConcatShape
<1>11. p[1] = own
  BY <1>6, <1>9
<1> QED BY <1>1, <1>5, <1>6, <1>7, <1>8, <1>10, <1>11 DEF results, p

LEMMA PieceOfOthers ==
    ASSUME NEW wire, NEW m, IsSeq(m.content),
           m.role # "assistant" \/ Referred("tool_use", m.content) = {}
    PROVE  LET p == anthropicMessageToOpenAI(wire, m)
               results == ToolMessages(m.content)
           IN  /\ IsSeq(p)
               /\ \A j \in DOMAIN p : p[j].calls = <<>>
               /\ \A d \in 1..Len(results) : d \in DOMAIN p /\ p[d] = results[d]
<1> DEFINE results == ToolMessages(m.content)
<1> DEFINE own == OpenAIMessage(m.role, Parts(m.content), Reasoning(wire, m), <<>>, Nobody)
<1> DEFINE p == anthropicMessageToOpenAI(wire, m)
<1>1. ~(m.role = "assistant" /\ ToolCalls(m.content) # <<>>)
  BY ToolCallsAre, EmptyRange
<1>2. IsSeq(results) /\ \A e \in Range(results) : e.calls = <<>>
  BY ToolMessagesAre
<1>3. p = results \o <<own>> \/ p = results
  BY <1>1 DEF anthropicMessageToOpenAI, ResultsFirst
<1>4. own.calls = <<>>
  BY DEF OpenAIMessage
<1> HIDE DEF results, own, p
<1>5. Len(results) \in Nat /\ DOMAIN results = 1..Len(results)
  BY <1>2, SeqShape
<1>6. CASE p = results
  <2>1. \A j \in DOMAIN p : p[j].calls = <<>>
    BY <1>2, <1>6 DEF Range
  <2> QED BY <1>2, <1>5, <1>6, <2>1 DEF results, p
<1>7. CASE p = results \o <<own>>
  <2>1. IsSeq(<<own>>) /\ Range(<<own>>) = {own} /\ Len(<<own>>) = 1
    BY OneShape
  <2>2. IsSeq(p) /\ Range(p) = Range(results) \cup {own}
    BY <1>2, <1>7, <2>1, ConcatRange
  <2>3. \A j \in DOMAIN p : p[j].calls = <<>>
    BY <1>2, <1>4, <2>2 DEF Range
  <2>4. Len(p) = Len(results) + 1
    BY <1>2, <1>7, <2>1, ConcatShape
  <2>5. \A d \in 1..Len(results) : p[d] = results[d]
    BY <1>2, <1>7, <2>1, ConcatShape
  <2>6. DOMAIN p = 1..Len(p)
    BY <2>2, SeqShape
  <2>7. \A d \in 1..Len(results) : d \in DOMAIN p
    BY <1>5, <2>4, <2>6
  <2> QED BY <2>2, <2>3, <2>5, <2>7 DEF results, p
<1> QED BY <1>3, <1>6, <1>7

\* The call c of message p is answered before anything but results comes.
AnsweredAfter(messages, p, c) ==
    \E d \in Nat \ {0} :
        /\ p + d \in DOMAIN messages /\ messages[p + d].for = c
        /\ \A k \in (p + 1)..(p + d) : messages[k].role = "tool"

LEMMA OpenAIAnswers ==
    ASSUME NEW wire, NEW messages, Closed(messages), NEW s,
           s = [i \in DOMAIN messages |-> anthropicMessageToOpenAI(wire, messages[i])]
    PROVE  /\ IsSeq(Joined(s))
           /\ \A p \in DOMAIN Joined(s) :
                  \A c \in Range(Joined(s)[p].calls) : AnsweredAfter(Joined(s), p, c)
<1> DEFINE n == Len(messages)
<1> DEFINE piece(i) == anthropicMessageToOpenAI(wire, messages[i])
<1> DEFINE results(i) == ToolMessages(messages[i].content)
<1> DEFINE Caller(i) ==
        messages[i].role = "assistant" /\ Referred("tool_use", messages[i].content) # {}
<1> DEFINE r == Joined(s)
<1>1. /\ n \in Nat /\ DOMAIN messages = 1..n
      /\ \A i \in 1..n : IsSeq(messages[i].content)
  BY SeqShape DEF Closed
<1>2. \A i \in 1..n : Caller(i) =>
        /\ IsSeq(piece(i)) /\ Len(piece(i)) = 1 + Len(results(i))
        /\ Range(piece(i)[1].calls) = {Sanitized[c] : c \in Referred("tool_use", messages[i].content)}
        /\ \A d \in 1..Len(results(i)) : piece(i)[1 + d] = results(i)[d]
  BY <1>1, PieceOfCalls
<1>3. \A i \in 1..n : ~Caller(i) =>
        /\ IsSeq(piece(i))
        /\ \A j \in DOMAIN piece(i) : piece(i)[j].calls = <<>>
        /\ \A d \in 1..Len(results(i)) : d \in DOMAIN piece(i) /\ piece(i)[d] = results(i)[d]
  BY <1>1, PieceOfOthers
<1>4. \A i \in 1..n :
        /\ IsSeq(results(i)) /\ Len(results(i)) \in Nat /\ DOMAIN results(i) = 1..Len(results(i))
        /\ \A d \in 1..Len(results(i)) : results(i)[d].role = "tool" /\ results(i)[d].calls = <<>>
        /\ \A c \in Referred("tool_result", messages[i].content) :
               \E d \in 1..Len(results(i)) : results(i)[d].for = Sanitized[c]
  <2> TAKE i \in 1..n
  <2>1. /\ IsSeq(results(i))
        /\ \A e \in Range(results(i)) : e.role = "tool" /\ e.calls = <<>>
        /\ \A c \in Referred("tool_result", messages[i].content) :
               \E e \in Range(results(i)) : e.for = Sanitized[c]
    BY <1>1, ToolMessagesAre
  <2> HIDE DEF results
  <2>2. Len(results(i)) \in Nat /\ DOMAIN results(i) = 1..Len(results(i))
    BY <2>1, SeqShape
  <2> QED BY <2>1, <2>2 DEF Range
<1>5. s = [i \in 1..n |-> s[i]] /\ \A i \in 1..n : s[i] = piece(i)
  BY <1>1
<1>6. \A i \in 1..n : Caller(i) =>
        /\ i + 1 \in 1..n /\ ~Caller(i + 1)
        /\ Referred("tool_use", messages[i].content)
             \subseteq Referred("tool_result", messages[i + 1].content)
  BY <1>1 DEF Closed, Follows
<1> HIDE DEF n, piece, results, Caller
<1>7. \A i \in 1..n : IsSeq(piece(i))
  BY <1>2, <1>3
<1>8. AreSeqs(s) /\ Len(s) = n /\ IsSeq(r)
  BY <1>1, <1>5, <1>7, MapJoined
<1>9. PICK off : Placed(s, n, r, off)
  BY <1>8, JoinedPlaced
<1> HIDE DEF r
<1>10. Len(r) \in Nat /\ DOMAIN r = 1..Len(r)
  BY <1>8, SeqShape
<1>11. \A i \in 1..n : /\ off[i] \in Nat /\ off[i + 1] = off[i] + Len(piece(i))
                       /\ Len(piece(i)) \in Nat /\ DOMAIN piece(i) = 1..Len(piece(i))
  <2>1. \A i \in 1..n : off[i] \in Nat /\ off[i + 1] = off[i] + Len(s[i])
    BY <1>9 DEF Placed
  <2> QED BY <1>5, <1>7, <2>1, SeqShape
<1>12. \A i \in 1..n : \A h \in 1..Len(piece(i)) :
            off[i] + h \in DOMAIN r /\ r[off[i] + h] = piece(i)[h]
  <2>1. \A i \in 1..n : \A h \in 1..Len(s[i]) :
            off[i] + h \in 1..Len(r) /\ r[off[i] + h] = s[i][h]
    BY <1>9 DEF Placed
  <2> QED BY <1>5, <1>10, <2>1
<1>13. ASSUME NEW p \in DOMAIN r, NEW c \in Range(r[p].calls) PROVE AnsweredAfter(r, p, c)
  <2>1. \E i \in 1..n : \E j \in 1..Len(s[i]) : p = off[i] + j
    BY <1>9, <1>10 DEF Placed
  <2>2. PICK i \in 1..n : \E j \in 1..Len(piece(i)) : p = off[i] + j
    BY <1>5, <2>1
  <2>3. PICK j \in 1..Len(piece(i)) : p = off[i] + j
    BY <2>2
  <2>4. r[p] = piece(i)[j]
    BY <1>12, <2>3
  <2>5. r[p].calls # <<>>
    <3>1. r[p].calls = <<>> => Range(r[p].calls) = {}
      BY EmptyShape, EmptyRange
    <3> QED BY <3>1
  <2>6. Caller(i)
    BY <1>3, <1>11, <2>4, <2>5
  <2> DEFINE a == Len(results(i))
  <2>7. a \in Nat /\ Len(piece(i)) = 1 + a
    BY <1>2, <1>4, <2>6
  <2>8. \A d \in 1..a : piece(i)[1 + d].role = "tool" /\ piece(i)[1 + d].calls = <<>>
    <3> TAKE d \in 1..a
    <3>1. piece(i)[1 + d] = results(i)[d]
      BY <1>2, <2>6
    <3> QED BY <1>4, <3>1
  <2> HIDE DEF a
  <2>9. j = 1
    <3> SUFFICES ASSUME j # 1 PROVE FALSE
      OBVIOUS
    <3>1. j - 1 \in 1..a /\ j = 1 + (j - 1)
      BY <2>7
    <3>2. piece(i)[j].calls = <<>>
      BY <2>8, <3>1
    <3> QED BY <2>4, <2>5, <3>2
  <2>10. PICK x \in Referred("tool_use", messages[i].content) : c = Sanitized[x]
    <3>1. Range(r[p].calls) = {Sanitized[x] : x \in Referred("tool_use", messages[i].content)}
      BY <1>2, <2>4, <2>6, <2>9
    <3>2. c \in {Sanitized[x] : x \in Referred("tool_use", messages[i].content)}
      BY <3>1
    <3> QED BY <3>2
  <2>11. i + 1 \in 1..n /\ ~Caller(i + 1) /\ x \in Referred("tool_result", messages[i + 1].content)
    BY <1>6, <2>6
  <2>12. PICK q \in 1..Len(results(i + 1)) : results(i + 1)[q].for = c
    BY <1>4, <2>10, <2>11
  <2>13. \A d \in 1..q : /\ d \in 1..Len(piece(i + 1))
                         /\ piece(i + 1)[d] = results(i + 1)[d] /\ results(i + 1)[d].role = "tool"
    <3>1. Len(results(i + 1)) \in Nat
      BY <1>4, <2>11
    <3>2. \A d \in 1..q : d \in 1..Len(results(i + 1))
      BY <2>12, <3>1
    <3> QED BY <1>3, <1>4, <1>11, <2>11, <3>2
  <2>14. off[i] \in Nat /\ p = off[i] + 1 /\ off[i + 1] = p + a /\ p \in Nat
    BY <1>11, <2>3, <2>7, <2>9
  <2>15. ASSUME NEW k \in (p + 1)..(p + (a + q)) PROVE r[k].role = "tool"
    <3>1. q \in Nat /\ p \in Nat /\ a \in Nat
      BY <2>12, <2>14, <1>4, <2>7, <2>11
    <3>4. k \in Nat /\ p + 1 <= k /\ k <= (p + a) + q
      BY <3>1
    <3>5. off[i] = p - 1 /\ Len(piece(i)) = 1 + a
      BY <2>7, <2>14
    <3>2. CASE k <= p + a
      <4>1. k - p \in 1..a /\ k = off[i] + (1 + (k - p)) /\ 1 + (k - p) \in 1..Len(piece(i))
        <5> DEFINE h == k - p
        <5>1. h \in Nat /\ k = p + h /\ 1 <= h /\ h <= a
          BY <3>1, <3>2, <3>4
        <5> HIDE DEF h
        <5>2. h \in 1..a /\ 1 + h \in 1..(1 + a)
          BY <3>1, <5>1
        <5>3. k = (p - 1) + (1 + h)
          BY <3>1, <5>1
        <5> QED BY <3>5, <5>2, <5>3 DEF h
      <4>2. r[k] = piece(i)[1 + (k - p)]
        BY <1>12, <4>1
      <4> QED BY <2>8, <4>1, <4>2
    <3>3. CASE k > p + a
      <4>1. k - (p + a) \in 1..q /\ k = off[i + 1] + (k - (p + a))
        <5>1. k - (p + a) \in 1..q /\ k = (p + a) + (k - (p + a))
          BY <3>1, <3>3, <3>4
        <5> QED BY <2>14, <5>1
      <4>2. r[k] = piece(i + 1)[k - (p + a)]
        BY <1>12, <2>11, <2>13, <4>1
      <4> QED BY <2>13, <4>1, <4>2
    <3> QED BY <3>1, <3>2, <3>3, <3>4
  <2>16. q \in 1..q /\ q \in Nat /\ q # 0
    BY <1>4, <2>11, <2>12
  <2>17. p + (a + q) \in DOMAIN r /\ r[p + (a + q)].for = c
    <3>1. p + (a + q) = off[i + 1] + q
      BY <2>7, <2>14, <2>16
    <3>2. q \in 1..Len(piece(i + 1)) /\ piece(i + 1)[q] = results(i + 1)[q]
      BY <2>13, <2>16
    <3>3. off[i + 1] + q \in DOMAIN r /\ r[off[i + 1] + q] = piece(i + 1)[q]
      BY <1>12, <2>11, <3>2
    <3> QED BY <2>12, <3>1, <3>2, <3>3
  <2>18. a + q \in Nat \ {0}
    BY <2>7, <2>16
  <2> QED BY <2>15, <2>17, <2>18 DEF AnsweredAfter
<1> QED BY <1>8, <1>13 DEF r

------------------------------------------------------------------------------
(* The Converse wire.                                                          *)

LEMMA IrKeepsTools ==
    ASSUME NEW m, IsSeq(m.content)
    PROVE  LET t == anthropicMessageToIr(m)
           IN  /\ t.role = m.role /\ IsSeq(t.content)
               /\ Referred("tool_use", t.content) = Referred("tool_use", m.content)
               /\ Referred("tool_result", t.content) = Referred("tool_result", m.content)
<1> DEFINE content == Only(m.content, {b \in Range(m.content) : b.type # "redacted_thinking"})
<1> DEFINE mapped == [i \in DOMAIN content |-> ToConverse(content[i])]
<1> DEFINE kept == stripEmptyBlocks(mapped)
<1> DEFINE t == anthropicMessageToIr(m)
<1>1. IsSeq(content) /\ Range(content) = {b \in Range(m.content) : b.type # "redacted_thinking"}
  <2> DEFINE S == {b \in Range(m.content) : b.type # "redacted_thinking"}
  <2>1. S \subseteq Range(m.content)
    OBVIOUS
  <2> HIDE DEF S
  <2>2. IsSeq(Only(m.content, S)) /\ Range(Only(m.content, S)) = S
    BY <2>1, OnlyOf
  <2> QED BY <2>2 DEF S
<1>2. t.role = m.role /\ t.content = kept
  BY DEF anthropicMessageToIr
<1> HIDE DEF content
<1>3. Len(content) \in Nat /\ DOMAIN content = 1..Len(content)
  BY <1>1, SeqShape
<1>4. mapped = [i \in 1..Len(content) |-> mapped[i]]
  BY <1>3
<1>5. Range(mapped) = {ToConverse(b) : b \in Range(content)}
  BY DEF Range
<1> HIDE DEF mapped, t
<1>6. IsSeq(mapped)
  BY <1>3, <1>4, FunShape
<1>7. IsSeq(kept) /\ Range(kept) = {b \in Range(mapped) : ~isEmptyTextBlock(b)}
  <2> DEFINE S == {b \in Range(mapped) : ~isEmptyTextBlock(b)}
  <2>1. S \subseteq Range(mapped)
    OBVIOUS
  <2> HIDE DEF S
  <2>2. IsSeq(Only(mapped, S)) /\ Range(Only(mapped, S)) = S
    BY <1>6, <2>1, OnlyOf
  <2> QED BY <2>2 DEF S, stripEmptyBlocks
<1> HIDE DEF kept
<1>8. ASSUME NEW type \in {"tool_use", "tool_result"}
      PROVE  {x \in Range(kept) : x.type = type} = {x \in Range(m.content) : x.type = type}
  <2>1. \A b : b.type = type => ToConverse(b) = b /\ ~isEmptyTextBlock(b) /\ b.type # "redacted_thinking"
    BY DEF ToConverse, isEmptyTextBlock
  <2>2. \A b : ToConverse(b).type = type => ToConverse(b) = b
    BY DEF ToConverse, Text, Block
  <2>3. ASSUME NEW x \in Range(kept), x.type = type PROVE x \in Range(m.content)
    <3>1. PICK b \in Range(content) : x = ToConverse(b)
      BY <1>5, <1>7
    <3> QED BY <1>1, <2>2, <2>3, <3>1
  <2>4. ASSUME NEW x \in Range(m.content), x.type = type PROVE x \in Range(kept)
    <3>1. x \in Range(content)
      BY <1>1, <2>1, <2>4
    <3>2. x \in Range(mapped)
      BY <1>5, <2>1, <2>4, <3>1
    <3> QED BY <1>7, <2>1, <2>4, <3>2
  <2> QED BY <2>3, <2>4
<1>9. \A type \in {"tool_use", "tool_result"} : Referred(type, kept) = Referred(type, m.content)
  BY <1>8 DEF Referred
<1> QED BY <1>2, <1>7, <1>9 DEF t

LEMMA TranslatedClosed ==
    ASSUME NEW messages, Closed(messages), NEW ir,
           ir = [i \in DOMAIN messages |-> anthropicMessageToIr(messages[i])]
    PROVE  Closed(ir)
<1>1. /\ Len(messages) \in Nat /\ DOMAIN messages = 1..Len(messages)
      /\ \A i \in DOMAIN messages : IsSeq(messages[i].content)
  BY SeqShape DEF Closed
<1>2. \A i \in DOMAIN messages : LET t == anthropicMessageToIr(messages[i])
           IN  /\ t.role = messages[i].role /\ IsSeq(t.content)
               /\ Referred("tool_use", t.content) = Referred("tool_use", messages[i].content)
               /\ Referred("tool_result", t.content) = Referred("tool_result", messages[i].content)
  BY <1>1, IrKeepsTools
<1>3. DOMAIN ir = DOMAIN messages /\ \A i \in DOMAIN messages :
           /\ ir[i].role = messages[i].role /\ IsSeq(ir[i].content)
           /\ Referred("tool_use", ir[i].content) = Referred("tool_use", messages[i].content)
           /\ Referred("tool_result", ir[i].content) = Referred("tool_result", messages[i].content)
  BY <1>2
<1>4. IsSeq(ir)
  <2>1. ir = [i \in 1..Len(messages) |-> ir[i]]
    BY <1>1
  <2> QED BY <1>1, <2>1, FunShape
<1>5. \A i \in DOMAIN messages : Referred("tool_use", messages[i].content) # {} =>
          i + 1 \in DOMAIN messages /\ Follows(messages[i], messages[i + 1])
  BY DEF Closed
<1>6. ASSUME NEW i \in DOMAIN ir, Referred("tool_use", ir[i].content) # {}
      PROVE  i + 1 \in DOMAIN ir /\ Follows(ir[i], ir[i + 1])
  <2>1. i \in DOMAIN messages /\ Referred("tool_use", messages[i].content) # {}
    BY <1>3, <1>6
  <2>2. i + 1 \in DOMAIN messages /\ Follows(messages[i], messages[i + 1])
    BY <1>5, <2>1
  <2> QED BY <1>3, <2>1, <2>2 DEF Follows
<1> QED BY <1>3, <1>4, <1>6 DEF Closed

\* What neighbours of one role become, after n messages.
MergedTo(messages, n, acc) ==
    /\ IsSeq(acc)
    /\ \A i \in DOMAIN acc : IsSeq(acc[i].content)
    /\ \A i \in DOMAIN acc : i + 1 \in DOMAIN acc =>
           Referred("tool_use", acc[i].content) \subseteq Referred("tool_result", acc[i + 1].content)
    /\ acc # <<>> => LET last == acc[Len(acc)]
                     IN  /\ n # 0
                         /\ Referred("tool_use", last.content)
                              \subseteq Referred("tool_use", messages[n].content)
                         /\ Referred("tool_use", last.content) # {} => last.role = "assistant"

Merges(messages, F) ==
    F = [i \in 0..Len(messages) |-> IF i = 0 THEN <<>> ELSE With(F[i - 1], messages[i])]
MergesTo(messages, n, F) ==
    \A i \in 0..n : F[i] = IF i = 0 THEN <<>> ELSE With(F[i - 1], messages[i])

LEMMA MergeExists ==
    ASSUME NEW s, Len(s) \in Nat
    PROVE  \E F : Merges(s, F)
<1> DEFINE Bad == {n \in Nat : ~\E F : MergesTo(s, n, F)}
<1>1. Bad = {}
  <2> SUFFICES ASSUME Bad # {} PROVE FALSE
    OBVIOUS
  <2>1. PICK n \in Bad : \A m \in Bad : n <= m
    <3>1. Bad \in SUBSET Nat
      OBVIOUS
    <3> HIDE DEF Bad
    <3> QED BY <3>1, LeastMember
  <2>2. n \in Nat /\ ~\E F : MergesTo(s, n, F)
    OBVIOUS
  <2>3. n # 0
    <3>1. MergesTo(s, 0, [i \in {0} |-> <<>>])
      BY DEF MergesTo
    <3> QED BY <2>2, <3>1
  <2>4. n - 1 \in Nat /\ n - 1 \notin Bad
    <3>1. n - 1 \in Nat /\ n - 1 < n
      BY <2>2, <2>3
    <3> HIDE DEF Bad
    <3> QED BY <2>1, <2>2, <3>1
  <2>5. PICK F : MergesTo(s, n - 1, F)
    BY <2>4
  <2> DEFINE G == [i \in 0..n |-> IF i = n THEN With(F[n - 1], s[n]) ELSE F[i]]
  <2>6. ASSUME NEW i \in 0..n
        PROVE  G[i] = IF i = 0 THEN <<>> ELSE With(G[i - 1], s[i])
    <3>1. CASE i = n
      <4>1. G[i - 1] = F[n - 1]
        BY <2>2, <2>3, <3>1
      <4> QED BY <2>3, <3>1, <4>1
    <3>2. CASE i # n
      <4>1. i \in 0..(n - 1)
        BY <2>2, <3>2
      <4>2. G[i] = F[i] /\ (i # 0 => G[i - 1] = F[i - 1])
        BY <2>2, <3>2, <4>1
      <4> HIDE DEF G
      <4> QED BY <2>5, <4>1, <4>2 DEF MergesTo
    <3> QED BY <3>1, <3>2
  <2>7. MergesTo(s, n, G)
    <3> HIDE DEF G
    <3> QED BY <2>6 DEF MergesTo
  <2> QED BY <2>2, <2>7
<1>2. PICK F : MergesTo(s, Len(s), F)
  BY <1>1
<1> DEFINE G == [i \in 0..Len(s) |-> F[i]]
<1>3. ASSUME NEW i \in 0..Len(s)
      PROVE  G[i] = IF i = 0 THEN <<>> ELSE With(G[i - 1], s[i])
  <2>1. G[i] = F[i] /\ (i # 0 => G[i - 1] = F[i - 1])
    OBVIOUS
  <2> HIDE DEF G
  <2> QED BY <1>2, <2>1 DEF MergesTo
<1>4. G = [i \in 0..Len(s) |-> G[i]]
  OBVIOUS
<1>5. Merges(s, G)
  <2> HIDE DEF G
  <2> QED BY <1>3, <1>4 DEF Merges
<1> QED BY <1>5

LEMMA WithMerges ==
    ASSUME NEW messages, Closed(messages), NEW n \in 1..Len(messages),
           NEW acc, MergedTo(messages, n - 1, acc)
    PROVE  MergedTo(messages, n, With(acc, messages[n]))
<1> DEFINE m == messages[n]
<1> DEFINE last == acc[Len(acc)]
<1> DEFINE grown == [role |-> last.role, content |-> last.content \o m.content]
<1> DEFINE calls(x) == Referred("tool_use", x.content)
<1> DEFINE results(x) == Referred("tool_result", x.content)
<1> DEFINE t == With(acc, m)
<1>1. Len(messages) \in Nat /\ DOMAIN messages = 1..Len(messages) /\ IsSeq(m.content)
  BY SeqShape DEF Closed
<1>2. n \in Nat /\ n # 0 /\ n \in DOMAIN messages
  BY <1>1
<1>3. Len(acc) \in Nat /\ DOMAIN acc = 1..Len(acc) /\ IsSeq(acc) /\ (acc # <<>> => Len(acc) \in DOMAIN acc)
  <2>1. IsSeq(acc)
    BY DEF MergedTo
  <2>2. Len(acc) \in Nat /\ DOMAIN acc = 1..Len(acc)
    BY <2>1, SeqShape
  <2>3. acc # <<>> => Len(acc) # 0
    BY <2>1, EmptyRange
  <2> QED BY <2>1, <2>2, <2>3
<1>4. \A i \in DOMAIN acc : i + 1 \in DOMAIN acc => calls(acc[i]) \subseteq results(acc[i + 1])
  BY DEF MergedTo
<1>5. \A i \in DOMAIN acc : IsSeq(acc[i].content)
  BY DEF MergedTo
<1>6. acc # <<>> =>
        /\ calls(last) \subseteq results(m)
        /\ calls(last) # {} => last.role = "assistant" /\ m.role = "user"
  <2> SUFFICES ASSUME acc # <<>>
               PROVE  /\ calls(last) \subseteq results(m)
                      /\ calls(last) # {} => last.role = "assistant" /\ m.role = "user"
    OBVIOUS
  <2>1. n - 1 # 0 /\ calls(last) \subseteq calls(messages[n - 1])
          /\ (calls(last) # {} => last.role = "assistant")
    BY DEF MergedTo
  <2>2. n - 1 \in DOMAIN messages /\ (n - 1) + 1 = n
    BY <1>1, <1>2, <2>1
  <2>3. calls(messages[n - 1]) # {} => Follows(messages[n - 1], m)
    BY <2>2 DEF Closed
  <2>4. calls(messages[n - 1]) # {} => calls(messages[n - 1]) \subseteq results(m) /\ m.role = "user"
    BY <2>3 DEF Follows
  <2> HIDE DEF calls, results
  <2> QED BY <2>1, <2>4
<1>7. calls(m) # {} => m.role = "assistant"
  BY <1>2 DEF Closed, Follows
<1>8. t = IF m.content = <<>> THEN acc
          ELSE IF acc # <<>> /\ last.role = m.role THEN [acc EXCEPT ![Len(acc)] = grown]
          ELSE Append(acc, m)
  BY DEF With
<1>9. m.content = <<>> => results(m) = {}
  BY <1>1, EmptyRange DEF Referred
<1>10. \A x, y : calls(x) \subseteq calls(y) <=> Referred("tool_use", x.content) \subseteq Referred("tool_use", y.content)
  OBVIOUS
<1>11. \A x, y : calls(x) \subseteq results(y) <=> Referred("tool_use", x.content) \subseteq Referred("tool_result", y.content)
  OBVIOUS
<1> DEFINE Merged1(u) ==
        /\ IsSeq(u)
        /\ \A i \in DOMAIN u : IsSeq(u[i].content)
        /\ \A i \in DOMAIN u : i + 1 \in DOMAIN u => calls(u[i]) \subseteq results(u[i + 1])
        /\ u # <<>> => /\ calls(u[Len(u)]) \subseteq calls(m)
                       /\ calls(u[Len(u)]) # {} => u[Len(u)].role = "assistant"
<1>12. Merged1(t) => MergedTo(messages, n, t)
  <2> HIDE DEF t
  <2> QED BY <1>2 DEF MergedTo
<1>13. acc # <<>> =>
         /\ calls(grown) = calls(last) \cup calls(m)
         /\ results(grown) = results(last) \cup results(m)
         /\ IsSeq(grown.content) /\ grown.role = last.role
  <2> SUFFICES ASSUME acc # <<>>
               PROVE  /\ calls(grown) = calls(last) \cup calls(m)
                      /\ results(grown) = results(last) \cup results(m)
                      /\ IsSeq(grown.content) /\ grown.role = last.role
    OBVIOUS
  <2>1. grown.content = last.content \o m.content /\ grown.role = last.role
    OBVIOUS
  <2>2. IsSeq(last.content)
    BY <1>3, <1>5
  <2> HIDE DEF grown, last, m
  <2>3. IsSeq(grown.content) /\ Range(grown.content) = Range(last.content) \cup Range(m.content)
    BY <1>1, <2>1, <2>2, ConcatRange
  <2> QED BY <2>1, <2>3 DEF Referred
<1> HIDE DEF m, last, grown, calls, results, t
<1>14. CASE m.content = <<>>
  <2>1. t = acc
    BY <1>8, <1>14
  <2>2. acc # <<>> => calls(acc[Len(acc)]) = {}
    BY <1>6, <1>9, <1>14 DEF last
  <2>3. Merged1(t)
    BY <1>3, <1>4, <1>5, <2>1, <2>2
  <2> QED BY <1>12, <2>3 DEF t, m
<1>15. CASE m.content # <<>> /\ acc # <<>> /\ last.role = m.role
  <2>1. t = [acc EXCEPT ![Len(acc)] = grown]
    BY <1>8, <1>15
  <2>2. calls(last) = {}
    BY <1>6, <1>15
  <2>3. Len(acc) \in DOMAIN acc
    BY <1>3, <1>15
  <2>4. IsSeq(t)
    BY <1>3, <2>1, <2>3, ExceptShape
  <2>5. Len(t) = Len(acc) /\ DOMAIN t = DOMAIN acc
    BY <1>3, <2>1, <2>3, ExceptShape
  <2>6. t[Len(acc)] = grown /\ \A j \in DOMAIN acc \ {Len(acc)} : t[j] = acc[j]
    BY <1>3, <2>1, <2>3, ExceptShape
  <2>7. calls(grown) = calls(m) /\ results(last) \subseteq results(grown)
    BY <1>13, <1>15, <2>2
  <2>8. \A i \in DOMAIN t : IsSeq(t[i].content)
    BY <1>5, <1>13, <1>15, <2>5, <2>6
  <2>9. ASSUME NEW i \in DOMAIN t, i + 1 \in DOMAIN t PROVE calls(t[i]) \subseteq results(t[i + 1])
    <3>1. i \in DOMAIN acc \ {Len(acc)} /\ i + 1 \in DOMAIN acc
      BY <1>3, <2>5, <2>9
    <3>2. t[i] = acc[i] /\ calls(acc[i]) \subseteq results(acc[i + 1])
      BY <1>4, <2>6, <3>1
    <3>3. results(acc[i + 1]) \subseteq results(t[i + 1])
      <4>1. CASE i + 1 = Len(acc)
        BY <2>6, <2>7, <4>1 DEF last
      <4>2. CASE i + 1 # Len(acc)
        BY <2>6, <3>1, <4>2
      <4> QED BY <4>1, <4>2
    <3> QED BY <3>2, <3>3
  <2>10. t[Len(t)] = grown /\ (calls(grown) # {} => grown.role = "assistant")
    BY <1>7, <1>13, <1>15, <2>5, <2>6, <2>7
  <2>11. Merged1(t)
    BY <2>4, <2>7, <2>8, <2>9, <2>10
  <2> QED BY <1>12, <2>11 DEF t, m
<1>16. CASE m.content # <<>> /\ ~(acc # <<>> /\ last.role = m.role)
  <2>1. t = Append(acc, m)
    BY <1>8, <1>16
  <2>2. IsSeq(t)
    BY <1>3, <2>1, AppendShape
  <2>3. Len(t) = Len(acc) + 1 /\ t[Len(t)] = m
    BY <1>3, <2>1, AppendShape
  <2>4. DOMAIN t = DOMAIN acc \cup {Len(t)}
    BY <1>3, <2>1, AppendShape
  <2>5. \A i \in DOMAIN acc : t[i] = acc[i]
    BY <1>3, <2>1, AppendShape
  <2>6. \A i \in DOMAIN t : IsSeq(t[i].content)
    BY <1>1, <1>5, <2>3, <2>4, <2>5
  <2>7. ASSUME NEW i \in DOMAIN t, i + 1 \in DOMAIN t PROVE calls(t[i]) \subseteq results(t[i + 1])
    <3>1. i \in DOMAIN acc
      BY <1>3, <2>3, <2>4, <2>7
    <3>2. CASE i + 1 \in DOMAIN acc
      BY <1>4, <2>5, <3>1, <3>2
    <3>3. CASE i + 1 \notin DOMAIN acc
      <4>1. i = Len(acc) /\ i + 1 = Len(t)
        BY <1>3, <2>3, <3>1, <3>3
      <4>2. acc # <<>>
        BY <3>1, EmptyShape
      <4>3. t[i] = last /\ t[i + 1] = m
        BY <2>3, <2>5, <3>1, <4>1 DEF last
      <4> QED BY <1>6, <4>2, <4>3
    <3> QED BY <3>2, <3>3
  <2>8. Merged1(t)
    BY <1>7, <2>2, <2>3, <2>6, <2>7
  <2> QED BY <1>12, <2>8 DEF t, m
<1> QED BY <1>14, <1>15, <1>16

LEMMA MergedAnswers ==
    ASSUME NEW messages, Closed(messages)
    PROVE  /\ IsSeq(Merged(messages))
           /\ \A i \in DOMAIN Merged(messages) : IsSeq(Merged(messages)[i].content)
           /\ \A i \in DOMAIN Merged(messages) :
                \/ Referred("tool_use", Merged(messages)[i].content) = {}
                \/ /\ i + 1 \in DOMAIN Merged(messages)
                   /\ Referred("tool_use", Merged(messages)[i].content)
                        \subseteq Referred("tool_result", Merged(messages)[i + 1].content)
<1> DEFINE G == CHOOSE F : Merges(messages, F)
<1> DEFINE N == Len(messages)
<1>1. Merged(messages) = G[N]
  <2>1. Size(messages) = Len(messages)
    BY SizeIsLen DEF Closed
  <2> QED BY <2>1 DEF Merged, Merges
<1>2. N \in Nat /\ DOMAIN messages = 1..N
  BY SeqShape DEF Closed
<1>3. Merges(messages, G)
  BY <1>2, MergeExists
<1> HIDE DEF G
<1>4. \A i \in 0..N : G[i] = IF i = 0 THEN <<>> ELSE With(G[i - 1], messages[i])
  BY <1>3 DEF Merges
<1> HIDE DEF N
<1> DEFINE Bad == {n \in 0..N : ~MergedTo(messages, n, G[n])}
<1>5. Bad = {}
  <2> SUFFICES ASSUME Bad # {} PROVE FALSE
    OBVIOUS
  <2>1. PICK n \in Bad : \A k \in Bad : n <= k
    <3>1. Bad \in SUBSET Nat
      OBVIOUS
    <3> HIDE DEF Bad
    <3> QED BY <3>1, LeastMember
  <2>2. n \in 0..N /\ ~MergedTo(messages, n, G[n])
    OBVIOUS
  <2>3. n # 0
    <3>1. G[0] = <<>>
      BY <1>2, <1>4
    <3>2. MergedTo(messages, 0, <<>>)
      BY EmptyShape DEF MergedTo
    <3> QED BY <2>2, <3>1, <3>2
  <2>4. n - 1 \in 0..N /\ n - 1 \notin Bad /\ n \in 1..N
    <3>1. n - 1 \in 0..N /\ n - 1 < n /\ n \in 1..N /\ n \in Nat
      BY <1>2, <2>2, <2>3
    <3> HIDE DEF Bad
    <3>2. ~(n <= n - 1)
      BY <3>1
    <3> QED BY <2>1, <3>1, <3>2
  <2>5. MergedTo(messages, n - 1, G[n - 1])
    BY <2>4
  <2>6. G[n] = With(G[n - 1], messages[n])
    BY <1>4, <2>2, <2>3
  <2>7. MergedTo(messages, n, With(G[n - 1], messages[n]))
    <3> HIDE DEF Bad
    <3> QED BY <2>4, <2>5, WithMerges DEF N
  <2> QED BY <2>2, <2>6, <2>7
<1> DEFINE r == Merged(messages)
<1>6. MergedTo(messages, N, r)
  <2>1. N \in 0..N
    BY <1>2
  <2> QED BY <1>1, <1>5, <2>1
<1> HIDE DEF r, Bad
<1>7. IsSeq(r) /\ Len(r) \in Nat /\ DOMAIN r = 1..Len(r) /\ \A i \in DOMAIN r : IsSeq(r[i].content)
  BY <1>6, SeqShape DEF MergedTo
<1>8. r # <<>> => Referred("tool_use", r[Len(r)].content) = {}
  <2> SUFFICES ASSUME r # <<>> PROVE Referred("tool_use", r[Len(r)].content) = {}
    OBVIOUS
  <2>1. N # 0 /\ Referred("tool_use", r[Len(r)].content) \subseteq Referred("tool_use", messages[N].content)
    BY <1>6 DEF MergedTo
  <2>2. N \in DOMAIN messages /\ N + 1 \notin DOMAIN messages
    BY <1>2, <2>1
  <2>3. Referred("tool_use", messages[N].content) = {}
    BY <2>2 DEF Closed
  <2> QED BY <2>1, <2>3
<1>9. ASSUME NEW i \in DOMAIN r
      PROVE  \/ Referred("tool_use", r[i].content) = {}
             \/ /\ i + 1 \in DOMAIN r
                /\ Referred("tool_use", r[i].content) \subseteq Referred("tool_result", r[i + 1].content)
  <2>1. CASE i + 1 \in DOMAIN r
    BY <1>6, <2>1 DEF MergedTo
  <2>2. CASE i + 1 \notin DOMAIN r
    <3>1. i = Len(r) /\ r # <<>>
      <4>1. i = Len(r)
        BY <1>7, <2>2
      <4>2. r # <<>>
        BY EmptyShape
      <4> QED BY <4>1, <4>2
    <3> QED BY <1>8, <3>1
  <2> QED BY <2>1, <2>2
<1> QED BY <1>7, <1>9 DEF r

------------------------------------------------------------------------------
(* What the client may hold and what is sent.                                  *)

\* The inductive invariant: only an assistant's blocks make calls, and what the
\* upstream is asked is the translation of the turns as they are.
ConversationInv ==
    /\ Typed(turns)
    /\ phase = "asked" =>
           sent.wire \in Wires /\ sent.messages = Translated(sent.wire, normalizeForIrPaths(turns))

LEMMA SaidTyped ==
    ASSUME Typed(turns), NEW m, TypedMessage(m), Say(m)
    PROVE  Typed(turns')
<1> DEFINE t == turns'
<1>1. IsSeq(turns) /\ t = Append(turns, m)
  BY DEF Typed, Say
<1> HIDE DEF t
<1>2. IsSeq(t)
  BY <1>1, AppendShape
<1>3. t[Len(t)] = m
  BY <1>1, AppendShape
<1>4. DOMAIN t = DOMAIN turns \cup {Len(t)}
  BY <1>1, AppendShape
<1>5. \A i \in DOMAIN turns : t[i] = turns[i]
  BY <1>1, AppendShape
<1>6. \A i \in DOMAIN turns : TypedMessage(turns[i])
  BY DEF Typed
<1>7. \A i \in DOMAIN t : TypedMessage(t[i])
  BY <1>3, <1>4, <1>5, <1>6
<1>8. Typed(t)
  BY <1>2, <1>7 DEF Typed
<1> QED BY <1>8 DEF t

LEMMA UserTurnTyped ==
    ASSUME NEW kind \in Kinds, NEW n
    PROVE  TypedMessage(UserTurn(kind, n))
<1>1. kind \in {"string", "blocks", "empty"}
  BY ConversationAssumption
<1>2. ASSUME NEW says, IsSeq(says) PROVE TypedMessage(Message("user", TRUE, <<Text(says)>>))
  <2> DEFINE b == Text(says)
  <2>1. b.type = "text" /\ IsSeq(b.says)
    BY <1>2 DEF Text, Block
  <2> HIDE DEF b
  <2>2. IsSeq(<<b>>) /\ Range(<<b>>) = {b}
    BY OneShape
  <2>3. TypedMessage(Message("user", TRUE, <<b>>))
    BY <2>1, <2>2 DEF TypedMessage, Message
  <2> QED BY <2>3 DEF b
<1>6. IsSeq(Words(n))
  BY OneShape DEF Words
<1>3. CASE kind = "string"
  BY <1>2, <1>3, <1>6 DEF UserTurn
<1>4. CASE kind = "empty"
  BY <1>2, <1>4, EmptyShape DEF UserTurn
<1>5. CASE kind = "blocks"
  <2> DEFINE a == Text(<<>>)
  <2> DEFINE b == Text(Words(n))
  <2> DEFINE c == Image("url", Words(n))
  <2> DEFINE d == Image("unknown source", Words(n))
  <2>1. \A e \in {a, b, c, d} : e.type # "tool_use" /\ IsSeq(e.says)
    <3>1. a.type = "text" /\ b.type = "text" /\ c.type = "image" /\ d.type = "image"
      BY DEF Text, Image, Block
    <3>2. a.says = <<>> /\ b.says = Words(n) /\ c.says = Words(n) /\ d.says = Words(n)
      BY DEF Text, Image, Block
    <3> HIDE DEF a, b, c, d
    <3> QED BY <1>6, <3>1, <3>2, EmptyShape
  <2>2. UserTurn(kind, n) = Message("user", FALSE, <<a, b, c, d>>)
    BY <1>5 DEF UserTurn
  <2> HIDE DEF a, b, c, d
  <2> DEFINE s == <<a, b, c, d>>
  <2>3. s \in Seq({a, b, c, d}) /\ DOMAIN s = 1..4 /\ s[1] = a /\ s[2] = b /\ s[3] = c /\ s[4] = d
    OBVIOUS
  <2> HIDE DEF s
  <2>4. \A i \in DOMAIN s : i = 1 \/ i = 2 \/ i = 3 \/ i = 4
    BY <2>3
  <2>5. \A e \in Range(s) : e.type # "tool_use" /\ IsSeq(e.says)
    BY <2>1, <2>3, <2>4 DEF Range
  <2>6. IsSeq(s)
    BY <2>3, SeqIsSeq
  <2>7. UserTurn(kind, n).content = s /\ UserTurn(kind, n).role = "user"
    BY <2>2 DEF Message, s
  <2> QED BY <2>5, <2>6, <2>7 DEF TypedMessage
<1> QED BY <1>1, <1>3, <1>4, <1>5

LEMMA ResultsAre ==
    ASSUME NEW S \in SUBSET Calls, NEW n
    PROVE  /\ IsSeq(Results(S, n))
           /\ \A b \in Range(Results(S, n)) :
                b.type = "tool_result" /\ b.ref \in S /\ IsSeq(b.says)
<1> DEFINE T == {Result(c, Findings(n)) : c \in S}
<1> DEFINE f == [c \in S |-> Result(c, Findings(n))]
<1> DEFINE r == Results(S, n)
<1>1. \A b \in T : b.type = "tool_result" /\ b.ref \in S /\ IsSeq(b.says)
  <2>1. IsSeq(Findings(n))
    BY OneShape DEF Findings
  <2> QED BY <2>1 DEF Result, Block
<1>2. IsFiniteSet(S)
  BY ConversationAssumption, FS_Subset
<1>3. f \in Surjection(S, T)
  BY DEF Surjection
<1>4. r = SetToSeq(T)
  BY DEF Results
<1> HIDE DEF T, f, r
<1>5. IsFiniteSet(T)
  BY <1>2, <1>3, FS_Surjection DEF ExistsSurjection
<1>6. Cardinality(T) \in Nat /\ ExistsBijection(1..Cardinality(T), T)
  BY <1>5, FS_CardinalityType
<1>7. \E g \in [1..Cardinality(T) -> T] : IsInjective(g)
  BY <1>6 DEF ExistsBijection, Bijection, Injection, IsInjective
<1>8. r \in [1..Cardinality(T) -> T]
  BY <1>4, <1>7 DEF SetToSeq
<1>9. IsSeq(r)
  <2>1. r = [i \in 1..Cardinality(T) |-> r[i]]
    BY <1>8
  <2> QED BY <1>6, <2>1, FunShape
<1>10. Range(r) \subseteq T
  BY <1>8 DEF Range
<1> QED BY <1>1, <1>9, <1>10 DEF r

LEMMA StreamShape ==
    ASSUME NEW names \in Streams \cup Natives, NEW n
    PROVE  /\ IsSeq(StreamOf(names, n))
           /\ \A b \in Range(StreamOf(names, n)) : IsSeq(b.says)
<1> DEFINE r == StreamOf(names, n)
<1>1. Len(names) \in Nat /\ DOMAIN names = 1..Len(names)
  BY ConversationAssumption, SeqShape
<1>2. r = [i \in 1..Len(names) |-> r[i]]
  BY <1>1 DEF StreamOf
<1> HIDE DEF r
<1>3. IsSeq(r) /\ DOMAIN r = DOMAIN names
  BY <1>1, <1>2, FunShape
<1>4. \A i \in DOMAIN names : r[i] = StreamBlock(names[i], n)
  BY DEF StreamOf, r
<1>5. ASSUME NEW name PROVE IsSeq(StreamBlock(name, n).says)
  <2>1. IsSeq(Words(n)) /\ IsSeq(Thoughts(n)) /\ IsSeq(<<>>)
    BY OneShape, EmptyShape DEF Words, Thoughts
  <2> QED BY <2>1 DEF StreamBlock, Text, Thinking, Use, Block
<1> HIDE DEF r
<1>6. \A b \in Range(r) : IsSeq(b.says)
  BY <1>3, <1>4, <1>5 DEF Range
<1> QED BY <1>3, <1>6 DEF r

LEMMA ReplyShape ==
    ASSUME NEW reply, IsSeq(reply.calls),
           IsSeq(reply.reasoning), IsSeq(reply.content), IsSeq(reply.refusal)
    PROVE  /\ IsSeq(openAIResponseToIr(reply))
           /\ \A b \in Range(openAIResponseToIr(reply)) : IsSeq(b.says)
<1> DEFINE a == IF reply.reasoning = <<>> THEN <<>> ELSE <<Thinking(reply.reasoning)>>
<1> DEFINE b == IF reply.content = <<>> THEN <<>> ELSE <<Text(reply.content)>>
<1> DEFINE c == IF reply.refusal = <<>> THEN <<>> ELSE <<Text(reply.refusal)>>
<1> DEFINE d == [i \in DOMAIN reply.calls |-> Use(reply.calls[i])]
<1> DEFINE Fine(s) == IsSeq(s) /\ \A e \in Range(s) : IsSeq(e.says)
<1>1. Fine(a) /\ Fine(b) /\ Fine(c)
  <2>1. ASSUME NEW e, IsSeq(e.says) PROVE Fine(<<e>>)
    BY <2>1, OneShape
  <2>2. Fine(<<>>)
    BY EmptyShape, EmptyRange
  <2>3. Fine(<<Thinking(reply.reasoning)>>) /\ Fine(<<Text(reply.content)>>) /\ Fine(<<Text(reply.refusal)>>)
    <3> HIDE DEF Fine
    <3>1. /\ Thinking(reply.reasoning).says = reply.reasoning /\ Text(reply.content).says = reply.content
          /\ Text(reply.refusal).says = reply.refusal
      BY DEF Thinking, Text, Block
    <3> QED BY <2>1, <3>1
  <2> HIDE DEF Fine
  <2> QED BY <2>2, <2>3
<1>2. Fine(d)
  <2>3. \A i \in DOMAIN d : IsSeq(d[i].says)
    BY EmptyShape DEF Use, Block
  <2>1. Len(reply.calls) \in Nat /\ DOMAIN reply.calls = 1..Len(reply.calls)
    BY SeqShape
  <2>2. d = [i \in 1..Len(reply.calls) |-> d[i]]
    BY <2>1
  <2> HIDE DEF d
  <2>4. IsSeq(d)
    BY <2>1, <2>2, FunShape
  <2> QED BY <2>3, <2>4 DEF Range
<1>3. openAIResponseToIr(reply) = a \o b \o c \o d
  BY DEF openAIResponseToIr
<1> HIDE DEF a, b, c, d
<1>7. ASSUME NEW s, Fine(s), NEW t, Fine(t) PROVE Fine(s \o t)
  BY <1>7, ConcatRange
<1>8. Fine(a \o b \o c \o d) => IsSeq(openAIResponseToIr(reply))
                                /\ \A e \in Range(openAIResponseToIr(reply)) : IsSeq(e.says)
  BY <1>3
<1> HIDE DEF Fine
<1>4. Fine(a \o b)
  BY <1>1, <1>7
<1>5. Fine(a \o b \o c)
  BY <1>1, <1>4, <1>7
<1>6. Fine(a \o b \o c \o d)
  BY <1>2, <1>5, <1>7
<1> QED BY <1>6, <1>8

LEMMA AssistantTyped ==
    ASSUME NEW content, IsSeq(content), \A b \in Range(content) : IsSeq(b.says)
    PROVE  TypedMessage(Message("assistant", FALSE, content))
BY DEF TypedMessage, Message

LEMMA RespondTyped ==
    ASSUME Typed(turns), NEW S \in SUBSET Calls, NEW place \in Places,
           Respond(S, place)
    PROVE  Typed(turns')
<1> DEFINE n == said + 1
<1> DEFINE word == <<Text(Words(n))>>
<1> DEFINE results == Results(S, n)
<1> DEFINE content == CASE place = "before" -> word \o results
                        [] place = "after"  -> results \o word
                        [] place = "none"   -> results
<1>1. Say(Message("user", FALSE, content))
  BY DEF Respond
<1>2. IsSeq(results) /\ \A b \in Range(results) : b.type # "tool_use" /\ IsSeq(b.says)
  BY ResultsAre
<1>3. IsSeq(word) /\ \A b \in Range(word) : b.type # "tool_use" /\ IsSeq(b.says)
  <2> DEFINE b == Text(Words(n))
  <2>1. b.type # "tool_use" /\ IsSeq(b.says)
    BY OneShape DEF Text, Block, Words
  <2> HIDE DEF b
  <2>2. IsSeq(<<b>>) /\ Range(<<b>>) = {b}
    BY OneShape
  <2> QED BY <2>1, <2>2 DEF b
<1> HIDE DEF n, word, results
<1>4. IsSeq(content) /\ \A b \in Range(content) : b.type # "tool_use" /\ IsSeq(b.says)
  <2>1. CASE place = "before"
    BY <1>2, <1>3, <2>1, ConcatRange
  <2>2. CASE place = "after"
    BY <1>2, <1>3, <2>2, ConcatRange
  <2>3. CASE place = "none"
    BY <1>2, <2>3
  <2> QED BY <2>1, <2>2, <2>3, ConversationAssumption
<1> HIDE DEF content
<1>5. TypedMessage(Message("user", FALSE, content))
  BY <1>4 DEF TypedMessage, Message
<1> QED BY <1>1, <1>5, SaidTyped

LEMMA CompactTyped ==
    ASSUME Typed(turns), Compact
    PROVE  Typed(turns')
<1> DEFINE t == turns'
<1>1. PICK k \in DOMAIN turns : t = SubSeq(turns, k + 1, Len(turns))
  BY DEF Compact
<1> HIDE DEF t
<1>2. Len(turns) \in Nat /\ DOMAIN turns = 1..Len(turns) /\ \A i \in DOMAIN turns : TypedMessage(turns[i])
  BY SeqShape DEF Typed
<1>3. \A i \in (k + 1)..Len(turns) : turns[i] \in Range(turns)
  BY <1>2 DEF Range
<1>4. t \in Seq(Range(turns))
  BY <1>1, <1>2, <1>3, SubSeqProperties
<1>5. IsSeq(t) /\ \A i \in DOMAIN t : t[i] \in Range(turns)
  BY <1>4, SeqIsSeq
<1>6. \A m \in Range(turns) : TypedMessage(m)
  BY <1>2 DEF Range
<1>7. Typed(t)
  BY <1>5, <1>6 DEF Typed
<1> QED BY <1>7 DEF t

LEMMA ConversationInitially == Init => ConversationInv
<1> SUFFICES ASSUME Init PROVE ConversationInv
  OBVIOUS
<1>1. turns = <<>> /\ phase = "idle"
  BY DEF Init
<1>2. Typed(turns)
  BY <1>1, EmptyShape DEF Typed
<1> QED BY <1>1, <1>2 DEF ConversationInv

LEMMA ConversationStep == ConversationInv /\ [Next]_vars => ConversationInv'
<1> SUFFICES ASSUME ConversationInv, [Next]_vars PROVE ConversationInv'
  OBVIOUS
<1>1. Typed(turns)
  BY DEF ConversationInv
<1> DEFINE Quiet == Typed(turns)' /\ phase' # "asked"
<1>2. Quiet => ConversationInv'
  BY DEF ConversationInv
<1>3. ASSUME NEW kind \in Kinds, Write(kind) PROVE Quiet
  <2>1. Say(UserTurn(kind, said + 1)) /\ phase' = "idle"
    BY <1>3 DEF Write
  <2> QED BY <1>1, <2>1, UserTurnTyped, SaidTyped
<1>4. CASE Remind
  <2> DEFINE b == Text(Words(said + 1))
  <2>1. Say(Message("system", TRUE, <<b>>)) /\ phase' = "idle"
        /\ b.type = "text" /\ IsSeq(b.says)
    BY <1>4, OneShape DEF Remind, Text, Block, Words
  <2> HIDE DEF b
  <2>2. IsSeq(<<b>>) /\ Range(<<b>>) = {b}
    BY OneShape
  <2>3. TypedMessage(Message("system", TRUE, <<b>>))
    BY <2>1, <2>2 DEF TypedMessage, Message
  <2>4. Typed(turns')
    BY <1>1, <2>1, <2>3, SaidTyped
  <2> QED BY <1>2, <2>1, <2>4
<1>5. ASSUME NEW S \in SUBSET Calls, NEW place \in Places, Respond(S, place)
      PROVE  Quiet
  <2>1. phase' = "idle"
    BY <1>5 DEF Respond
  <2> QED BY <1>1, <1>5, <2>1, RespondTyped
<1>6. CASE Compact
  <2>1. phase' = "idle"
    BY <1>6 DEF Compact
  <2>2. Typed(turns')
    BY <1>1, <1>6, CompactTyped
  <2> QED BY <1>2, <2>1, <2>2
<1>7. CASE Ask
  <2>1. /\ turns' = turns
        /\ \E wire \in Wires : sent'.wire = wire /\ sent'.messages = Translated(wire, normalizeForIrPaths(turns))
    BY <1>7 DEF Ask
  <2>2. Typed(turns)'
    BY <1>1, <2>1
  <2>3. (sent.wire \in Wires /\ sent.messages = Translated(sent.wire, normalizeForIrPaths(turns)))'
    BY <2>1
  <2> QED BY <2>2, <2>3 DEF ConversationInv
<1>8. CASE Refuse
  <2>1. turns' = turns /\ phase' = "refused"
    BY <1>8 DEF Refuse
  <2>2. Typed(turns)'
    BY <1>1, <2>1
  <2> QED BY <1>2, <2>1, <2>2
<1>9. ASSUME NEW content, NEW message, IsSeq(content), \A b \in Range(content) : IsSeq(b.says),
             Answered(content, message)
      PROVE  Quiet
  <2>1. Say(Message("assistant", FALSE, content)) /\ phase' = "idle"
    BY <1>9 DEF Answered
  <2> QED BY <1>1, <1>9, <2>1, AssistantTyped, SaidTyped
<1>10. ASSUME NEW shape \in Replies, ReplyOpenAI(shape) PROVE Quiet
  <2> DEFINE reply == Spoken(shape, said + 1)
  <2>1. IsSeq(reply.calls)
    BY ConversationAssumption DEF Spoken
  <2>3. IsSeq(reply.reasoning) /\ IsSeq(reply.content) /\ IsSeq(reply.refusal)
    BY OneShape, EmptyShape DEF Spoken, Words, Thoughts, Refusal
  <2>2. Answered(openAIResponseToIr(reply), reply)
    BY <1>10 DEF ReplyOpenAI
  <2> HIDE DEF reply, Quiet
  <2> QED BY <1>9, <2>1, <2>2, <2>3, ReplyShape
<1>11. ASSUME NEW names \in Streams, ReplyConverse(names) PROVE Quiet
  <2> DEFINE blocks == StreamOf(names, said + 1)
  <2>1. Answered(converseResponseToIr(blocks), blocks)
    BY <1>11 DEF ReplyConverse
  <2>2. IsSeq(blocks) /\ \A b \in Range(blocks) : IsSeq(b.says)
    BY StreamShape
  <2> HIDE DEF blocks, Quiet
  <2>3. /\ IsSeq(converseResponseToIr(blocks))
        /\ \A b \in Range(converseResponseToIr(blocks)) : IsSeq(b.says)
    BY <2>2, OnlyOf DEF converseResponseToIr
  <2> QED BY <1>9, <2>1, <2>3
<1>12. CASE Fail
  <2>1. turns' = turns /\ phase' = "idle"
    BY <1>12 DEF Fail
  <2>2. Typed(turns)'
    BY <1>1, <2>1
  <2> QED BY <1>2, <2>1, <2>2
<1>13. ASSUME NEW names \in Natives, AskNative(names) PROVE Quiet
  <2>1. phase # "asked" /\ phase' = phase /\ Say(Message("assistant", FALSE, StreamOf(names, said + 1)))
    BY <1>13 DEF AskNative, ClientAsks
  <2>2. /\ IsSeq(StreamOf(names, said + 1))
        /\ \A b \in Range(StreamOf(names, said + 1)) : IsSeq(b.says)
    BY StreamShape
  <2> QED BY <1>1, <2>1, <2>2, AssistantTyped, SaidTyped
<1>14. CASE UNCHANGED vars
  BY <1>14 DEF vars, ConversationInv
<1> HIDE DEF Quiet
<1> QED BY <1>2, <1>3, <1>4, <1>5, <1>6, <1>7, <1>8, <1>10, <1>11, <1>12, <1>13, <1>14 DEF Next

\* An answer found directly after a call, before anything but results comes.
LEMMA FollowingHolds ==
    ASSUME sent.wire # "converse", IsSeq(sent.messages), NEW p \in DOMAIN sent.messages, NEW c,
           AnsweredAfter(sent.messages, p, c)
    PROVE  c \in ToSet(Following(p))
<1> DEFINE r == sent.messages
<1> DEFINE upTo == {j \in (p + 1)..Len(r) : \A k \in (p + 1)..j : r[k].role = "tool"}
<1>1. Following(p) = [k \in 1..Cardinality(upTo) |-> r[p + k].for]
  BY DEF Following, After, IsConverse
<1>2. Len(r) \in Nat /\ DOMAIN r = 1..Len(r) /\ p \in Nat
  BY SeqShape
<1>3. PICK d \in Nat \ {0} :
        /\ p + d \in DOMAIN r /\ r[p + d].for = c
        /\ \A k \in (p + 1)..(p + d) : r[k].role = "tool"
  BY DEF AnsweredAfter
<1> HIDE DEF r
<1>4. p + d <= Len(r)
  BY <1>2, <1>3
<1>5. (p + 1)..(p + d) \subseteq upTo
  <2>1. ASSUME NEW j \in (p + 1)..(p + d) PROVE j \in upTo
    <3>1. j \in Nat /\ p + 1 <= j /\ j <= p + d
      BY <1>2
    <3>2. j \in (p + 1)..Len(r)
      BY <1>2, <1>4, <3>1
    <3>3. \A k \in (p + 1)..j : k \in (p + 1)..(p + d)
      BY <1>2, <3>1
    <3> QED BY <1>3, <3>2, <3>3
  <2> QED BY <2>1
<1>6. IsFiniteSet(upTo)
  <2>1. IsFiniteSet((p + 1)..Len(r))
    BY <1>2, FS_Interval
  <2>2. upTo \in SUBSET ((p + 1)..Len(r))
    OBVIOUS
  <2> HIDE DEF upTo
  <2> QED BY <2>1, <2>2, FS_Subset
<1> HIDE DEF upTo
<1>7. Cardinality((p + 1)..(p + d)) = d
  <2>1. p + 1 \in Int /\ p + d \in Int /\ ~(p + 1 > p + d) /\ (p + d) - (p + 1) + 1 = d
    BY <1>2
  <2> QED BY <2>1, FS_Interval
<1>8. d <= Cardinality(upTo) /\ Cardinality(upTo) \in Nat
  BY <1>5, <1>6, <1>7, FS_Subset, FS_CardinalityType
<1>9. d \in 1..Cardinality(upTo)
  BY <1>8
<1>10. d \in DOMAIN Following(p) /\ Following(p)[d] = c
  BY <1>1, <1>3, <1>9 DEF r
<1> QED BY <1>10 DEF ToSet

LEMMA InvAnswersCalls == ConversationInv => EveryCallAnswered
<1> SUFFICES ASSUME ConversationInv, phase = "asked", NEW i \in DOMAIN sent.messages
             PROVE  ToSet(CallsIn(sent.messages[i])) \subseteq ToSet(Following(i))
  BY DEF EveryCallAnswered
<1> DEFINE r == sent.messages
<1> DEFINE messages == normalizeForIrPaths(turns)
<1>1. Closed(messages)
  BY NormalizedClosed DEF ConversationInv
<1>2. sent.wire \in Wires /\ r = Translated(sent.wire, messages)
  BY DEF ConversationInv
<1>3. CASE sent.wire = "converse"
  <2> DEFINE ir == [k \in DOMAIN messages |-> anthropicMessageToIr(messages[k])]
  <2>1. r = Merged(ir)
    BY <1>2, <1>3 DEF Translated, anthropicToConverseRequest
  <2> HIDE DEF messages
  <2>2. Closed(ir)
    BY <1>1, TranslatedClosed
  <2> HIDE DEF ir, r
  <2>3. /\ IsSeq(r) /\ i \in DOMAIN r /\ \A k \in DOMAIN r : IsSeq(r[k].content)
        /\ \/ Referred("tool_use", r[i].content) = {}
           \/ /\ i + 1 \in DOMAIN r
              /\ Referred("tool_use", r[i].content) \subseteq Referred("tool_result", r[i + 1].content)
    <3>1. i \in DOMAIN r
      BY DEF r
    <3> QED BY <2>1, <2>2, <3>1, MergedAnswers
  <2>4. ToSet(CallsIn(r[i])) = Referred("tool_use", r[i].content)
    BY <1>3, <2>3, RefsAre DEF CallsIn, IsConverse, ToSet, Range
  <2>5. i + 1 \in DOMAIN r => ToSet(Following(i)) = Referred("tool_result", r[i + 1].content)
    <3> SUFFICES ASSUME i + 1 \in DOMAIN r
                 PROVE  ToSet(Following(i)) = Referred("tool_result", r[i + 1].content)
      OBVIOUS
    <3>1. i + 1 \in After(i)
      BY <1>3 DEF After, IsConverse, r
    <3>2. Following(i) = Refs("tool_result", r[i + 1].content)
      BY <1>3, <3>1 DEF Following, IsConverse, r
    <3> QED BY <2>3, <3>2, RefsAre DEF ToSet, Range
  <2> QED BY <2>3, <2>4, <2>5 DEF r
<1>4. CASE sent.wire # "converse"
  <2> DEFINE s == [k \in DOMAIN messages |-> anthropicMessageToOpenAI(sent.wire, messages[k])]
  <2>1. r = Joined(s)
    BY <1>2, <1>4 DEF Translated, anthropicToOpenAIRequest
  <2> HIDE DEF messages
  <2>2. IsSeq(Joined(s)) /\ \A p \in DOMAIN Joined(s) :
            \A c \in Range(Joined(s)[p].calls) : AnsweredAfter(Joined(s), p, c)
    BY <1>1, OpenAIAnswers
  <2> HIDE DEF s
  <2>3. IsSeq(r) /\ \A c \in Range(r[i].calls) : AnsweredAfter(r, i, c)
    BY <2>1, <2>2
  <2>4. ToSet(CallsIn(r[i])) = Range(r[i].calls)
    BY <1>4 DEF CallsIn, IsConverse, ToSet, Range
  <2>5. \A c \in Range(r[i].calls) : c \in ToSet(Following(i))
    BY <1>4, <2>3, FollowingHolds
  <2> QED BY <2>4, <2>5
<1> QED BY <1>3, <1>4

\* Whatever the client did to its conversation, a request never leaves a call of its
\* history open: on every wire each is answered directly after the message that makes
\* it, in a conversation of any length (reconcileToolBlocks(), anthropicMessageToOpenAI(),
\* the merging of neighbours in anthropicToConverseRequest()).
THEOREM ConversationCallsAnswered == Spec => []EveryCallAnswered
<1>1. Init => ConversationInv
  BY ConversationInitially
<1>2. ConversationInv /\ [Next]_vars => ConversationInv'
  BY ConversationStep
<1>3. ConversationInv => EveryCallAnswered
  BY InvAnswersCalls
<1> QED BY <1>1, <1>2, <1>3, PTL DEF Spec

------------------------------------------------------------------------------
(* One sequence that goes on from another.                                     *)

Begins(s, t) ==
    /\ IsSeq(s) /\ IsSeq(t) /\ Len(s) <= Len(t)
    /\ \A i \in 1..Len(s) : s[i] = t[i]

LEMMA Upto ==
    ASSUME NEW n \in Nat, NEW S, 0 \in S, \A i \in 1..n : i - 1 \in S => i \in S
    PROVE  \A i \in 0..n : i \in S
<1> DEFINE Bad == {i \in 0..n : i \notin S}
<1> SUFFICES ASSUME Bad # {} PROVE FALSE
  OBVIOUS
<1>1. PICK i \in Bad : \A j \in Bad : i <= j
  <2>1. Bad \in SUBSET Nat
    OBVIOUS
  <2> HIDE DEF Bad
  <2> QED BY <2>1, LeastMember
<1>2. i \in 1..n /\ i - 1 \in 0..n /\ i - 1 < i
  <2>1. i \in 0..n /\ i # 0
    OBVIOUS
  <2> QED BY <2>1
<1>3. i - 1 \notin Bad
  <2> HIDE DEF Bad
  <2>1. i \in Nat /\ i - 1 \in Int
    BY <1>2
  <2> QED BY <1>1, <1>2, <2>1
<1>4. i \in S
  BY <1>2, <1>3
<1> QED BY <1>4

LEMMA BeginsItself ==
    ASSUME NEW s, IsSeq(s)
    PROVE  Begins(s, s)
BY SeqShape DEF Begins

LEMMA BeginsOn ==
    ASSUME NEW s, NEW t, NEW u, Begins(s, t), Begins(t, u)
    PROVE  Begins(s, u)
<1>1. Len(s) \in Nat /\ Len(t) \in Nat /\ Len(u) \in Nat
  BY SeqShape DEF Begins
<1>2. Len(s) <= Len(u) /\ \A i \in 1..Len(s) : i \in 1..Len(t)
  BY <1>1 DEF Begins
<1> QED BY <1>2 DEF Begins

LEMMA BeginsLonger ==
    ASSUME NEW s, IsSeq(s), NEW t, IsSeq(t)
    PROVE  Begins(s, s \o t)
<1> DEFINE u == s \o t
<1>1. IsSeq(u) /\ Len(u) = Len(s) + Len(t) /\ \A i \in 1..Len(s) : u[i] = s[i]
  <2>1. IsSeq(u)
    BY ConcatShape
  <2>2. Len(u) = Len(s) + Len(t)
    BY ConcatShape
  <2>3. \A i \in 1..Len(s) : u[i] = s[i]
    BY ConcatShape
  <2> QED BY <2>1, <2>2, <2>3
<1>2. Len(s) \in Nat /\ Len(t) \in Nat
  BY SeqShape
<1> HIDE DEF u
<1>3. Begins(s, u)
  BY <1>1, <1>2 DEF Begins
<1> QED BY <1>3 DEF u

LEMMA BeginsIsPrefix ==
    ASSUME NEW s, NEW t, Begins(s, t)
    PROVE  IsPrefix(s, t)
<1>1. IsSeq(s) /\ IsSeq(t) /\ Len(s) \in Nat /\ Len(t) \in Nat
  BY SeqShape DEF Begins
<1>2. SubSeq(s, 1, Len(s)) = [i \in 1..Len(s) |-> s[i]]
  OBVIOUS
<1>3. SubSeq(t, 1, Len(s)) = [i \in 1..Len(s) |-> t[i]]
  OBVIOUS
<1>4. SubSeq(s, 1, Len(s)) = SubSeq(t, 1, Len(s))
  BY <1>2, <1>3 DEF Begins
<1> QED BY <1>4 DEF IsPrefix, Begins

\* Joined(s), one sequence after the other.
JoinsUp(s, F) ==
    /\ F[0] = <<>> /\ Joined(s) = F[Len(s)]
    /\ \A i \in 1..Len(s) : F[i] = F[i - 1] \o s[i]
    /\ \A i \in 0..Len(s) : IsSeq(F[i])

LEMMA JoinedUp ==
    ASSUME NEW s, AreSeqs(s)
    PROVE  \E F : JoinsUp(s, F)
<1> DEFINE G == CHOOSE F : Joins(s, F)
<1>0. Len(s) \in Nat /\ DOMAIN s = 1..Len(s) /\ \A i \in 1..Len(s) : IsSeq(s[i])
  BY SeqShape DEF AreSeqs
<1>1. Joined(s) = G[Len(s)]
  <2>1. Size(s) = Len(s)
    BY SizeIsLen DEF AreSeqs
  <2> QED BY <2>1 DEF Joined, Joins
<1>2. Joins(s, G)
  BY <1>0, JoinExists
<1> HIDE DEF G
<1>3. \A i \in 0..Len(s) : G[i] = IF i = 0 THEN <<>> ELSE G[i - 1] \o s[i]
  BY <1>2 DEF Joins
<1>4. G[0] = <<>> /\ \A i \in 1..Len(s) : G[i] = G[i - 1] \o s[i]
  <2>1. 0 \in 0..Len(s) /\ \A i \in 1..Len(s) : i \in 0..Len(s) /\ i # 0
    BY <1>0
  <2>2. G[0] = <<>>
    BY <1>3, <2>1
  <2>3. \A i \in 1..Len(s) : G[i] = G[i - 1] \o s[i]
    BY <1>3, <2>1
  <2> QED BY <2>2, <2>3
<1> DEFINE S == {i \in 0..Len(s) : IsSeq(G[i])}
<1>5. 0 \in S
  BY <1>0, <1>4, EmptyShape
<1>6. ASSUME NEW i \in 1..Len(s), i - 1 \in S PROVE i \in S
  <2>1. IsSeq(G[i - 1]) /\ IsSeq(s[i]) /\ i \in 0..Len(s)
    BY <1>0, <1>6
  <2>3. G[i] = G[i - 1] \o s[i]
    BY <1>4
  <2>2. IsSeq(G[i])
    BY <2>1, <2>3, ConcatRange
  <2> QED BY <2>1, <2>2
<1>7. \A i \in 0..Len(s) : i \in S
  <2> HIDE DEF S
  <2> QED BY <1>0, <1>5, <1>6, Upto
<1>8. JoinsUp(s, G)
  BY <1>1, <1>4, <1>7 DEF JoinsUp
<1> QED BY <1>8

LEMMA JoinedBegins ==
    ASSUME NEW s, AreSeqs(s), NEW t, AreSeqs(t), Begins(s, t)
    PROVE  Begins(Joined(s), Joined(t))
<1>1. PICK F : JoinsUp(s, F)
  BY JoinedUp
<1>2. PICK G : JoinsUp(t, G)
  BY JoinedUp
<1> DEFINE n == Len(s)
<1> DEFINE m == Len(t) - n
<1>3. n \in Nat /\ Len(t) \in Nat /\ m \in Nat /\ n + m = Len(t)
        /\ \A i \in 1..n : i \in 1..Len(t) /\ s[i] = t[i]
  BY SeqShape DEF Begins
<1> DEFINE S == {i \in 0..n : F[i] = G[i]}
<1>4. 0 \in S
  <2>1. F[0] = <<>> /\ G[0] = <<>>
    BY <1>1, <1>2 DEF JoinsUp
  <2> QED BY <1>3, <2>1
<1>5. ASSUME NEW i \in 1..n, i - 1 \in S PROVE i \in S
  <2>1. F[i] = F[i - 1] \o s[i]
    BY <1>1 DEF JoinsUp
  <2>2. i \in 1..Len(t) /\ s[i] = t[i]
    BY <1>3
  <2>3. G[i] = G[i - 1] \o t[i]
    BY <1>2, <2>2 DEF JoinsUp
  <2>4. i \in 0..n
    BY <1>3
  <2> QED BY <1>5, <2>1, <2>2, <2>3, <2>4
<1>6. \A i \in 0..n : i \in S
  <2> HIDE DEF S
  <2> QED BY <1>3, <1>4, <1>5, Upto
<1>7. F[n] = G[n]
  BY <1>3, <1>6
<1> DEFINE T == {i \in 0..m : Begins(G[n], G[n + i])}
<1>8. 0 \in T
  <2>1. n + 0 = n /\ n \in 0..Len(t) /\ 0 \in 0..m
    BY <1>3
  <2>2. Begins(G[n], G[n])
    BY <1>2, <2>1, BeginsItself DEF JoinsUp
  <2> QED BY <2>1, <2>2
<1>9. ASSUME NEW i \in 1..m, i - 1 \in T PROVE i \in T
  <2>1. n + i \in 1..Len(t) /\ n + (i - 1) = (n + i) - 1 /\ n + (i - 1) \in 0..Len(t) /\ i \in 0..m
    BY <1>3
  <2>2. G[n + i] = G[n + (i - 1)] \o t[n + i] /\ IsSeq(G[n + (i - 1)])
    BY <1>2, <2>1 DEF JoinsUp
  <2>3. IsSeq(t[n + i])
    BY <2>1, SeqShape DEF AreSeqs
  <2>4. Begins(G[n + (i - 1)], G[n + i])
    BY <2>2, <2>3, BeginsLonger
  <2>5. Begins(G[n], G[n + (i - 1)])
    BY <1>9
  <2>6. Begins(G[n], G[n + i])
    BY <2>4, <2>5, BeginsOn
  <2> QED BY <2>1, <2>6
<1>10. \A i \in 0..m : i \in T
  <2> HIDE DEF T, m, n
  <2> QED BY <1>3, <1>8, <1>9, Upto
<1>11. m \in 0..m
  BY <1>3
<1>12. Begins(G[n], G[n + m])
  BY <1>10, <1>11
<1> QED BY <1>1, <1>2, <1>3, <1>7, <1>12 DEF JoinsUp

\* What two mapped sequences have in common they still have when joined.
LEMMA MapsBegin ==
    ASSUME NEW n \in Nat, NEW m \in Nat, n <= m,
           NEW s, s = [i \in 1..n |-> s[i]], NEW t, t = [i \in 1..m |-> t[i]],
           \A i \in 1..n : s[i] = t[i], \A i \in 1..m : IsSeq(t[i])
    PROVE  Begins(Joined(s), Joined(t))
<1>0. \A i \in 1..n : IsSeq(s[i])
  <2>1. \A i \in 1..n : i \in 1..m
    OBVIOUS
  <2> QED BY <2>1
<1>1. AreSeqs(s) /\ Len(s) = n
  BY <1>0, MapJoined
<1>2. AreSeqs(t) /\ Len(t) = m
  BY MapJoined
<1>3. Begins(s, t)
  BY <1>1, <1>2 DEF Begins, AreSeqs
<1> QED BY <1>1, <1>2, <1>3, JoinedBegins

LEMMA JoinedEnds ==
    ASSUME NEW s, AreSeqs(s), Len(s) > 0, NEW e, s[Len(s)] = <<e>>
    PROVE  Len(Joined(s)) > 0 /\ Joined(s)[Len(Joined(s))] = e
<1>1. PICK F : JoinsUp(s, F)
  BY JoinedUp
<1>2. Len(s) \in Nat
  BY SeqShape DEF AreSeqs
<1> DEFINE u == F[Len(s) - 1]
<1> DEFINE t == Joined(s)
<1>3. t = u \o <<e>> /\ IsSeq(u)
  <2>1. Len(s) \in 1..Len(s) /\ Len(s) - 1 \in 0..Len(s)
    BY <1>2
  <2> QED BY <1>1, <2>1 DEF JoinsUp
<1> HIDE DEF u, t
<1>4. IsSeq(<<e>>) /\ Len(<<e>>) = 1 /\ <<e>>[1] = e
  BY OneShape
<1>5. Len(t) = Len(u) + Len(<<e>>)
  BY <1>3, <1>4, ConcatShape
<1>6. \A i \in 1..Len(<<e>>) : t[Len(u) + i] = <<e>>[i]
  BY <1>3, <1>4, ConcatShape
<1>7. Len(u) \in Nat
  BY <1>3, SeqShape
<1> QED BY <1>4, <1>5, <1>6, <1>7 DEF t

------------------------------------------------------------------------------
LEMMA ConcatEmpty ==
    ASSUME NEW s, IsSeq(s)
    PROVE  s \o <<>> = s
<1> DEFINE u == s \o <<>>
<1>1. IsSeq(<<>>) /\ Len(<<>>) = 0 /\ Len(s) \in Nat
  BY EmptyShape, SeqShape
<1>2. IsSeq(u)
  BY <1>1, ConcatShape
<1>3. Len(u) = Len(s) + Len(<<>>)
  BY <1>1, ConcatShape
<1>4. \A i \in 1..Len(s) : u[i] = s[i]
  BY <1>1, ConcatShape
<1> HIDE DEF u
<1>5. u = s
  BY <1>1, <1>2, <1>3, <1>4, SeqSame
<1> QED BY <1>5 DEF u

LEMMA HoistedStays ==
    ASSUME NEW a, NEW b, Begins(a, b), NEW i \in 1..Len(a)
    PROVE  Hoisted(a, i) <=> Hoisted(b, i)
<1>1. Len(a) \in Nat /\ \A j \in 1..Len(a) : a[j] = b[j]
  BY SeqShape DEF Begins
<1>2. \A j \in 1..(i - 1) : j \in 1..Len(a)
  BY <1>1
<1>3. \A j \in 1..(i - 1) : a[j] = b[j]
  BY <1>1, <1>2
<1>4. SeenUserTurn(a, i) <=> SeenUserTurn(b, i)
  BY <1>3 DEF SeenUserTurn
<1> QED BY <1>1, <1>4 DEF Hoisted

LEMMA ConversationalBegins ==
    ASSUME NEW a, Typed(a), NEW b, Typed(b), Begins(a, b)
    PROVE  Begins(Conversational(a), Conversational(b))
<1> DEFINE piece(x, i) ==
        IF Hoisted(x, i) THEN <<>>
        ELSE IF x[i].role = "system" THEN Demoted(x[i])
        ELSE Kept(x[i])
<1> DEFINE s == [i \in DOMAIN a |-> piece(a, i)]
<1> DEFINE t == [i \in DOMAIN b |-> piece(b, i)]
<1>1. /\ Len(a) \in Nat /\ DOMAIN a = 1..Len(a) /\ Len(b) \in Nat /\ DOMAIN b = 1..Len(b)
      /\ Len(a) <= Len(b) /\ \A i \in 1..Len(a) : a[i] = b[i]
  BY SeqShape DEF Begins
<1>2. Conversational(a) = Joined(s) /\ Conversational(b) = Joined(t)
  BY DEF Conversational
<1>3. \A i \in 1..Len(a) : Hoisted(a, i) <=> Hoisted(b, i)
  BY HoistedStays
<1>4. \A i \in 1..Len(b) : IsSeq(piece(b, i))
  <2> TAKE i \in 1..Len(b)
  <2>1. IsSeq(Demoted(b[i]))
    BY EmptyShape, OneShape DEF Demoted
  <2>2. IsSeq(Kept(b[i]))
    BY EmptyShape, OneShape DEF Kept
  <2> QED BY <2>1, <2>2, EmptyShape
<1>5. \A i \in 1..Len(a) : piece(a, i) = piece(b, i)
  BY <1>1, <1>3
<1>6. /\ s = [i \in 1..Len(a) |-> s[i]] /\ \A i \in 1..Len(a) : s[i] = piece(a, i)
      /\ t = [i \in 1..Len(b) |-> t[i]] /\ \A i \in 1..Len(b) : t[i] = piece(b, i)
  BY <1>1
<1> HIDE DEF piece, s, t
<1>7. \A i \in 1..Len(a) : s[i] = t[i]
  <2>1. \A i \in 1..Len(a) : i \in 1..Len(b)
    BY <1>1
  <2> QED BY <1>5, <1>6, <2>1
<1>9. \A i \in 1..Len(b) : IsSeq(t[i])
  BY <1>4, <1>6
<1>8. Begins(Joined(s), Joined(t))
  BY <1>1, <1>6, <1>7, <1>9, MapsBegin
<1> QED BY <1>2, <1>8

\* The turn that says something and is not the model's is the last that is kept.
LEMMA ConversationalEnds ==
    ASSUME NEW a, Typed(a), Len(a) > 0, a[Len(a)].role # "assistant",
           ~Hoisted(a, Len(a)), Kept(a[Len(a)]) # <<>>,
           a[Len(a)].role = "system" => messageText(a[Len(a)].content) # <<>>
    PROVE  LET c == Conversational(a) IN Len(c) > 0 /\ c[Len(c)].role # "assistant"
<1> DEFINE piece(i) ==
        IF Hoisted(a, i) THEN <<>>
        ELSE IF a[i].role = "system" THEN Demoted(a[i])
        ELSE Kept(a[i])
<1> DEFINE s == [i \in DOMAIN a |-> piece(i)]
<1>1. Len(a) \in Nat /\ DOMAIN a = 1..Len(a)
  BY SeqShape DEF Typed
<1>2. Conversational(a) = Joined(s)
  BY DEF Conversational
<1>3. \A i \in 1..Len(a) : IsSeq(piece(i))
  <2> TAKE i \in 1..Len(a)
  <2>1. IsSeq(Demoted(a[i]))
    BY EmptyShape, OneShape DEF Demoted
  <2>2. IsSeq(Kept(a[i]))
    BY EmptyShape, OneShape DEF Kept
  <2> QED BY <2>1, <2>2, EmptyShape
<1>4. \E m : m.role # "assistant" /\ piece(Len(a)) = <<m>>
  <2> DEFINE last == a[Len(a)]
  <2>1. CASE last.role = "system"
    <3> DEFINE m == Message("user", TRUE, <<Text(messageText(last.content))>>)
    <3>1. piece(Len(a)) = <<m>>
      BY <2>1 DEF Demoted
    <3>2. m.role = "user"
      BY DEF Message
    <3> QED BY <3>1, <3>2
  <2>2. CASE last.role # "system"
    <3> DEFINE m == Message(last.role, last.flat, stripEmptyBlocks(last.content))
    <3>1. piece(Len(a)) = <<m>>
      BY <2>2 DEF Kept
    <3>2. m.role = last.role
      BY DEF Message
    <3> HIDE DEF m
    <3> QED BY <3>1, <3>2
  <2> QED BY <2>1, <2>2
<1>5. PICK m : m.role # "assistant" /\ piece(Len(a)) = <<m>>
  BY <1>4
<1>6. s = [i \in 1..Len(a) |-> s[i]] /\ \A i \in 1..Len(a) : s[i] = piece(i)
  BY <1>1
<1> HIDE DEF piece, s
<1>7. AreSeqs(s) /\ Len(s) = Len(a)
  BY <1>1, <1>3, <1>6, MapJoined
<1>8. s[Len(s)] = <<m>>
  BY <1>1, <1>5, <1>6, <1>7
<1>9. Len(Joined(s)) > 0 /\ Joined(s)[Len(Joined(s))] = m
  BY <1>7, <1>8, JoinedEnds
<1> QED BY <1>2, <1>5, <1>9

LEMMA ReconciledBegins ==
    ASSUME NEW c, IsSeq(c), NEW d, IsSeq(d), Begins(c, d),
           Len(c) > 0, c[Len(c)].role # "assistant"
    PROVE  Begins(reconcileToolBlocks(c), reconcileToolBlocks(d))
<1> DEFINE given(x, i) == IF Answering(x, i + 1) THEN x[i + 1].content ELSE <<>>
<1> DEFINE answer(x, i) == Answer(Pending(x[i]), given(x, i))
<1> DEFINE piece(x, i) ==
        IF Answering(x, i) THEN <<>>
        ELSE IF ~HasPending(x[i]) THEN <<x[i]>>
        ELSE <<x[i], answer(x, i)>>
<1> DEFINE s == [i \in DOMAIN c |-> piece(c, i)]
<1> DEFINE t == [i \in DOMAIN d |-> piece(d, i)]
<1>1. /\ Len(c) \in Nat /\ DOMAIN c = 1..Len(c) /\ Len(d) \in Nat /\ DOMAIN d = 1..Len(d)
      /\ Len(c) <= Len(d) /\ \A i \in 1..Len(c) : c[i] = d[i]
  BY SeqShape DEF Begins
<1>2. reconcileToolBlocks(c) = Joined(s) /\ reconcileToolBlocks(d) = Joined(t)
  BY DEF reconcileToolBlocks
<1>3. \A i \in 1..Len(c) : Answering(c, i) <=> Answering(d, i)
  <2> TAKE i \in 1..Len(c)
  <2>1. i \in 1..Len(d) /\ c[i] = d[i] /\ (i > 1 => i - 1 \in 1..Len(c) /\ c[i - 1] = d[i - 1])
    BY <1>1
  <2> QED BY <1>1, <2>1 DEF Answering
<1>4. \A i \in 1..Len(c) : HasPending(c[i]) => given(c, i) = given(d, i)
  <2> TAKE i \in 1..Len(c)
  <2> HAVE HasPending(c[i])
  <2>1. i # Len(c)
    BY DEF HasPending
  <2>4. Len(c) \in Nat
    BY <1>1
  <2>2. i + 1 \in 1..Len(c)
    BY <2>1, <2>4
  <2>3. c[i + 1] = d[i + 1] /\ (Answering(c, i + 1) <=> Answering(d, i + 1))
    BY <1>1, <1>3, <2>2
  <2> QED BY <2>3
<1> HIDE DEF given
<1>5. \A i \in 1..Len(c) : piece(c, i) = piece(d, i)
  BY <1>1, <1>3, <1>4
<1>6. \A i \in 1..Len(d) : IsSeq(piece(d, i))
  BY EmptyShape, OneShape, PairShape
<1>7. /\ s = [i \in 1..Len(c) |-> s[i]] /\ \A i \in 1..Len(c) : s[i] = piece(c, i)
      /\ t = [i \in 1..Len(d) |-> t[i]] /\ \A i \in 1..Len(d) : t[i] = piece(d, i)
  BY <1>1
<1> HIDE DEF piece, s, t
<1>8. \A i \in 1..Len(c) : s[i] = t[i]
  <2>1. \A i \in 1..Len(c) : i \in 1..Len(d)
    BY <1>1
  <2> QED BY <1>5, <1>7, <2>1
<1>9. Begins(Joined(s), Joined(t))
  BY <1>1, <1>6, <1>7, <1>8, MapsBegin
<1> QED BY <1>2, <1>9

LEMMA NormalizedBegins ==
    ASSUME NEW a, Typed(a), NEW b, Typed(b), Begins(a, b),
           Len(a) > 0, a[Len(a)].role # "assistant",
           ~Hoisted(a, Len(a)), Kept(a[Len(a)]) # <<>>,
           a[Len(a)].role = "system" => messageText(a[Len(a)].content) # <<>>
    PROVE  Begins(normalizeForIrPaths(a), normalizeForIrPaths(b))
<1> DEFINE c == Conversational(a)
<1> DEFINE d == Conversational(b)
<1>1. Begins(c, d)
  BY ConversationalBegins
<1>2. Len(c) > 0 /\ c[Len(c)].role # "assistant"
  BY ConversationalEnds
<1>3. IsSeq(c) /\ IsSeq(d)
  BY <1>1 DEF Begins
<1> HIDE DEF c, d
<1>4. Begins(reconcileToolBlocks(c), reconcileToolBlocks(d))
  BY <1>1, <1>2, <1>3, ReconciledBegins
<1> QED BY <1>4 DEF c, d, normalizeForIrPaths

LEMMA JoinedPadded ==
    ASSUME NEW s, AreSeqs(s), NEW t, AreSeqs(t), Begins(s, t),
           \A i \in (Len(s) + 1)..Len(t) : t[i] = <<>>
    PROVE  Joined(s) = Joined(t)
<1> DEFINE n == Len(s)
<1> DEFINE m == Len(t)
<1>1. n \in Nat /\ m \in Nat /\ n <= m /\ \A i \in 1..n : s[i] = t[i]
  BY SeqShape DEF Begins
<1>2. \A i \in (n + 1)..m : t[i] = <<>>
  OBVIOUS
<1>3. PICK F : JoinsUp(s, F)
  BY JoinedUp
<1>4. PICK G : JoinsUp(t, G)
  BY JoinedUp
<1> DEFINE S == {i \in 0..m : G[i] = F[IF i <= n THEN i ELSE n]}
<1>5. 0 \in S
  <2>1. F[0] = <<>> /\ G[0] = <<>>
    BY <1>3, <1>4 DEF JoinsUp
  <2> QED BY <2>1
<1>6. ASSUME NEW i \in 1..m, i - 1 \in S PROVE i \in S
  <2>4. G[i] = G[i - 1] \o t[i]
    BY <1>4 DEF JoinsUp
  <2>1. G[i] = G[i - 1] \o t[i] /\ i \in 0..m
    BY <1>1, <2>4
  <2>2. CASE i \in 1..n
    <3>1. F[i] = F[i - 1] \o s[i] /\ s[i] = t[i]
      BY <1>1, <1>3, <2>2 DEF JoinsUp
    <3>2. G[i - 1] = F[i - 1]
      BY <1>6, <2>2
    <3>3. (IF i <= n THEN i ELSE n) = i
      BY <2>2
    <3>4. G[i] = F[i]
      BY <2>1, <3>1, <3>2
    <3> QED BY <2>1, <3>3, <3>4
  <2>3. CASE i \notin 1..n
    <3>1. i \in (n + 1)..m /\ t[i] = <<>>
      BY <2>3
    <3>2. n \in 0..n /\ IsSeq(F[n])
      BY <1>1, <1>3 DEF JoinsUp
    <3>3. F[n] \o <<>> = F[n]
      BY <3>2, ConcatEmpty
    <3>4. G[i - 1] = F[n]
      <4>1. CASE i - 1 = n
        BY <1>6, <4>1
      <4>2. CASE i - 1 # n
        BY <1>6, <2>3, <4>2
      <4> QED BY <4>1, <4>2
    <3>5. (IF i <= n THEN i ELSE n) = n
      BY <2>3
    <3>6. G[i] = F[n]
      BY <2>1, <3>1, <3>3, <3>4
    <3> QED BY <2>1, <3>5, <3>6
  <2> QED BY <2>2, <2>3
<1>7. \A i \in 0..m : i \in S
  <2> HIDE DEF S, n, m
  <2> QED BY <1>1, <1>5, <1>6, Upto
<1>8. G[m] = F[n]
  <2>1. m \in 0..m /\ (m <= n => m = n)
    BY <1>1
  <2> QED BY <1>7, <2>1
<1> QED BY <1>1, <1>2, <1>3, <1>4, <1>8 DEF JoinsUp

\* What came to the system prompt stays there, and nothing follows it.
LEMMA PromptStays ==
    ASSUME NEW a, Typed(a), NEW b, Typed(b), Begins(a, b),
           \E j \in DOMAIN a : a[j].role = "user"
    PROVE  SystemPrompt(Prompt, a) = SystemPrompt(Prompt, b)
<1> DEFINE piece(x, i) == IF Hoisted(x, i) THEN messageText(x[i].content) ELSE <<>>
<1> DEFINE s == [i \in DOMAIN a |-> piece(a, i)]
<1> DEFINE t == [i \in DOMAIN b |-> piece(b, i)]
<1>1. /\ Len(a) \in Nat /\ DOMAIN a = 1..Len(a) /\ Len(b) \in Nat /\ DOMAIN b = 1..Len(b)
      /\ Len(a) <= Len(b) /\ \A i \in 1..Len(a) : a[i] = b[i]
  BY SeqShape DEF Begins
<1>2. SystemPrompt(Prompt, a) = Prompt \o Joined(s) /\ SystemPrompt(Prompt, b) = Prompt \o Joined(t)
  BY DEF SystemPrompt
<1>3. \A i \in 1..Len(a) : Hoisted(a, i) <=> Hoisted(b, i)
  BY <1>1, HoistedStays
<1>4. \A i \in (Len(a) + 1)..Len(b) : ~Hoisted(b, i)
  <2> TAKE i \in (Len(a) + 1)..Len(b)
  <2>1. PICK j \in 1..Len(a) : a[j].role = "user"
    BY <1>1
  <2>2. j \in 1..(i - 1) /\ b[j].role = "user"
    BY <1>1, <2>1
  <2> QED BY <2>2 DEF Hoisted, SeenUserTurn
<1>5. \A i \in 1..Len(a) : IsSeq(piece(a, i))
  <2> TAKE i \in 1..Len(a)
  <2>1. TypedMessage(a[i])
    BY <1>1 DEF Typed
  <2>2. IsSeq(messageText(a[i].content))
    BY <2>1, SaysAre DEF messageText, TypedMessage
  <2> QED BY <2>2, EmptyShape
<1>6. /\ s = [i \in 1..Len(a) |-> s[i]] /\ \A i \in 1..Len(a) : s[i] = piece(a, i)
      /\ t = [i \in 1..Len(b) |-> t[i]] /\ \A i \in 1..Len(b) : t[i] = piece(b, i)
  BY <1>1
<1>7. \A i \in 1..Len(a) : piece(a, i) = piece(b, i)
  BY <1>1, <1>3
<1>8. \A i \in (Len(a) + 1)..Len(b) : piece(b, i) = <<>>
  BY <1>4
<1> HIDE DEF piece, s, t
<1>9. \A i \in 1..Len(a) : s[i] = t[i] /\ IsSeq(s[i])
  <2>1. \A i \in 1..Len(a) : i \in 1..Len(b)
    BY <1>1
  <2> QED BY <1>5, <1>6, <1>7, <2>1
<1>10. \A i \in (Len(a) + 1)..Len(b) : t[i] = <<>>
  <2>1. \A i \in (Len(a) + 1)..Len(b) : i \in 1..Len(b)
    BY <1>1
  <2> QED BY <1>6, <1>8, <2>1
<1>11. Joined(s) = Joined(t)
  <2>1. \A i \in 1..Len(b) : IsSeq(t[i])
    <3> TAKE i \in 1..Len(b)
    <3>1. i \in 1..Len(a) \/ i \in (Len(a) + 1)..Len(b)
      BY <1>1
    <3> QED BY <1>9, <1>10, <3>1, EmptyShape
  <2>2. AreSeqs(s) /\ Len(s) = Len(a)
    BY <1>1, <1>6, <1>9, MapJoined
  <2>3. AreSeqs(t) /\ Len(t) = Len(b)
    BY <1>1, <1>6, <2>1, MapJoined
  <2>4. Begins(s, t)
    BY <1>1, <1>9, <2>2, <2>3 DEF Begins, AreSeqs
  <2> QED BY <1>10, <2>2, <2>3, <2>4, JoinedPadded
<1> QED BY <1>2, <1>11

------------------------------------------------------------------------------
LEMMA ConcatBegins ==
    ASSUME NEW u, IsSeq(u), NEW s, NEW t, Begins(s, t)
    PROVE  Begins(u \o s, u \o t)
<1> DEFINE v == u \o s
<1> DEFINE w == u \o t
<1>0. /\ IsSeq(s) /\ IsSeq(t) /\ Len(u) \in Nat /\ Len(s) \in Nat /\ Len(t) \in Nat
      /\ Len(s) <= Len(t) /\ \A i \in 1..Len(s) : s[i] = t[i]
  BY SeqShape DEF Begins
<1>1. IsSeq(v) /\ IsSeq(w)
  BY <1>0, ConcatRange
<1>2. Len(v) = Len(u) + Len(s)
  BY <1>0, ConcatShape
<1>3. Len(w) = Len(u) + Len(t)
  BY <1>0, ConcatShape
<1>4. \A i \in 1..Len(u) : v[i] = u[i]
  BY <1>0, ConcatShape
<1>5. \A i \in 1..Len(u) : w[i] = u[i]
  BY <1>0, ConcatShape
<1>6. \A i \in 1..Len(s) : v[Len(u) + i] = s[i]
  BY <1>0, ConcatShape
<1>7. \A i \in 1..Len(t) : w[Len(u) + i] = t[i]
  BY <1>0, ConcatShape
<1> HIDE DEF v, w
<1>8. ASSUME NEW i \in 1..Len(v) PROVE v[i] = w[i]
  <2>1. CASE i \in 1..Len(u)
    BY <1>4, <1>5, <2>1
  <2>2. CASE i \notin 1..Len(u)
    <3> DEFINE k == i - Len(u)
    <3>1. k \in 1..Len(s) /\ k \in 1..Len(t) /\ Len(u) + k = i
      BY <1>0, <1>2, <2>2
    <3>2. v[Len(u) + k] = s[k] /\ w[Len(u) + k] = t[k] /\ s[k] = t[k]
      BY <1>0, <1>6, <1>7, <3>1
    <3> QED BY <3>1, <3>2
  <2> QED BY <2>1, <2>2
<1>9. Begins(v, w)
  BY <1>0, <1>1, <1>2, <1>3, <1>8 DEF Begins
<1> QED BY <1>9 DEF v, w

\* Where the last of the sequences grows, so does the whole.
LEMMA LastGrows ==
    ASSUME NEW n \in Nat, n # 0, NEW s, AreSeqs(s), Len(s) = n, NEW t, AreSeqs(t), Len(t) = n,
           \A i \in 1..n : i # n => s[i] = t[i], Begins(s[n], t[n])
    PROVE  Begins(Joined(s), Joined(t))
<1>1. PICK F : JoinsUp(s, F)
  BY JoinedUp
<1>2. PICK G : JoinsUp(t, G)
  BY JoinedUp
<1> DEFINE S == {i \in 0..(n - 1) : F[i] = G[i]}
<1>3. 0 \in S
  <2>1. F[0] = <<>> /\ G[0] = <<>>
    BY <1>1, <1>2 DEF JoinsUp
  <2> QED BY <2>1
<1>4. ASSUME NEW i \in 1..(n - 1), i - 1 \in S PROVE i \in S
  <2>1. i \in 1..n /\ i # n /\ i \in 0..(n - 1)
    OBVIOUS
  <2>2. F[i] = F[i - 1] \o s[i]
    BY <1>1, <2>1 DEF JoinsUp
  <2>3. G[i] = G[i - 1] \o t[i]
    BY <1>2, <2>1 DEF JoinsUp
  <2>4. s[i] = t[i]
    BY <2>1
  <2> QED BY <1>4, <2>1, <2>2, <2>3, <2>4
<1>5. \A i \in 0..(n - 1) : i \in S
  <2>1. n - 1 \in Nat
    OBVIOUS
  <2> HIDE DEF S
  <2> QED BY <1>3, <1>4, <2>1, Upto
<1> DEFINE u == F[n - 1]
<1>6. u = G[n - 1] /\ IsSeq(u) /\ Joined(s) = u \o s[n] /\ Joined(t) = u \o t[n]
  <2>1. n \in 1..n /\ n - 1 \in 0..(n - 1) /\ n - 1 \in 0..n
    OBVIOUS
  <2>2. u = G[n - 1]
    BY <1>5, <2>1
  <2>3. IsSeq(u) /\ Joined(s) = u \o s[n]
    BY <1>1, <2>1 DEF JoinsUp
  <2>4. Joined(t) = G[n - 1] \o t[n]
    BY <1>2, <2>1 DEF JoinsUp
  <2> QED BY <2>2, <2>3, <2>4
<1> HIDE DEF u
<1>7. Begins(u \o s[n], u \o t[n])
  BY <1>6, ConcatBegins
<1> QED BY <1>6, <1>7

(* The wires.                                                                  *)

LEMMA OpenAISeqs ==
    ASSUME NEW wire, NEW m, IsSeq(m.content)
    PROVE  IsSeq(anthropicMessageToOpenAI(wire, m))
<1> DEFINE parts == Parts(m.content)
<1> DEFINE calls == ToolCalls(m.content)
<1> DEFINE results == ToolMessages(m.content)
<1> DEFINE one(of) == <<OpenAIMessage(m.role, parts, Reasoning(wire, m), of, Nobody)>>
<1>1. IsSeq(results)
  BY ToolMessagesAre
<1>2. IsSeq(one(calls)) /\ IsSeq(one(<<>>))
  BY OneShape
<1>3. anthropicMessageToOpenAI(wire, m) \in {one(calls) \o results, results \o one(<<>>), results}
  BY DEF anthropicMessageToOpenAI, ResultsFirst
<1> HIDE DEF one, parts, calls, results
<1>4. IsSeq(one(calls) \o results) /\ IsSeq(results \o one(<<>>))
  BY <1>1, <1>2, ConcatRange
<1> QED BY <1>1, <1>3, <1>4

\* A list of messages, each with its blocks.
Contents(messages) == IsSeq(messages) /\ \A i \in DOMAIN messages : IsSeq(messages[i].content)

LEMMA OpenAIBegins ==
    ASSUME NEW wire, NEW a, Contents(a), NEW b, Contents(b), Begins(a, b)
    PROVE  Begins(anthropicToOpenAIRequest(wire, a), anthropicToOpenAIRequest(wire, b))
<1> DEFINE s == [i \in DOMAIN a |-> anthropicMessageToOpenAI(wire, a[i])]
<1> DEFINE t == [i \in DOMAIN b |-> anthropicMessageToOpenAI(wire, b[i])]
<1>1. /\ Len(a) \in Nat /\ DOMAIN a = 1..Len(a) /\ Len(b) \in Nat /\ DOMAIN b = 1..Len(b)
      /\ Len(a) <= Len(b) /\ \A i \in 1..Len(a) : a[i] = b[i]
  BY SeqShape DEF Begins
<1>2. anthropicToOpenAIRequest(wire, a) = Joined(s) /\ anthropicToOpenAIRequest(wire, b) = Joined(t)
  BY DEF anthropicToOpenAIRequest
<1>3. s = [i \in 1..Len(a) |-> s[i]] /\ t = [i \in 1..Len(b) |-> t[i]]
  BY <1>1
<1>4. \A i \in 1..Len(b) : IsSeq(t[i])
  BY <1>1, OpenAISeqs DEF Contents
<1>5. \A i \in 1..Len(a) : s[i] = t[i]
  BY <1>1
<1> HIDE DEF s, t
<1>6. Begins(Joined(s), Joined(t))
  BY <1>1, <1>3, <1>4, <1>5, MapsBegin
<1> QED BY <1>2, <1>6

\* One message after the other, and block after block on Converse.
Units(wire, m) ==
    IF wire = "converse" THEN [k \in DOMAIN m.content |-> <<m.role, m.content[k]>>] ELSE <<m>>
Flat(wire, messages) == Joined([i \in DOMAIN messages |-> Units(wire, messages[i])])

LEMMA UnitsShape ==
    ASSUME NEW wire, NEW m, wire = "converse" => IsSeq(m.content)
    PROVE  IsSeq(Units(wire, m))
<1>1. CASE wire = "converse"
  <2> DEFINE u == [k \in DOMAIN m.content |-> <<m.role, m.content[k]>>]
  <2>1. Len(m.content) \in Nat /\ DOMAIN m.content = 1..Len(m.content)
    BY <1>1, SeqShape
  <2>2. u = [k \in 1..Len(m.content) |-> u[k]] /\ Units(wire, m) = u
    BY <1>1, <2>1 DEF Units
  <2> HIDE DEF u
  <2> QED BY <2>1, <2>2, FunShape
<1>2. CASE wire # "converse"
  BY <1>2, OneShape DEF Units
<1> QED BY <1>1, <1>2

LEMMA FlatBegins ==
    ASSUME NEW wire, NEW a, NEW b, Begins(a, b),
           wire = "converse" => \A i \in DOMAIN b : IsSeq(b[i].content)
    PROVE  Begins(Flat(wire, a), Flat(wire, b))
<1> DEFINE s == [i \in DOMAIN a |-> Units(wire, a[i])]
<1> DEFINE t == [i \in DOMAIN b |-> Units(wire, b[i])]
<1>1. /\ Len(a) \in Nat /\ DOMAIN a = 1..Len(a) /\ Len(b) \in Nat /\ DOMAIN b = 1..Len(b)
      /\ Len(a) <= Len(b) /\ \A i \in 1..Len(a) : a[i] = b[i]
  BY SeqShape DEF Begins
<1>2. Flat(wire, a) = Joined(s) /\ Flat(wire, b) = Joined(t)
  BY DEF Flat
<1>3. s = [i \in 1..Len(a) |-> s[i]] /\ t = [i \in 1..Len(b) |-> t[i]]
  BY <1>1
<1>4. \A i \in 1..Len(b) : IsSeq(t[i])
  BY <1>1, UnitsShape
<1>5. \A i \in 1..Len(a) : s[i] = t[i]
  BY <1>1
<1> HIDE DEF s, t
<1>6. Begins(Joined(s), Joined(t))
  BY <1>1, <1>3, <1>4, <1>5, MapsBegin
<1> QED BY <1>2, <1>6

\* A message that is merged into the last one, or comes after it, leaves the blocks
\* before it as they are.
LEMMA WithBegins ==
    ASSUME NEW acc, Contents(acc), NEW m, IsSeq(m.content)
    PROVE  Contents(With(acc, m)) /\ Begins(Flat("converse", acc), Flat("converse", With(acc, m)))
<1> DEFINE n == Len(acc)
<1> DEFINE last == acc[n]
<1> DEFINE grown == [role |-> last.role, content |-> last.content \o m.content]
<1> DEFINE w == With(acc, m)
<1>0. n \in Nat /\ DOMAIN acc = 1..n /\ IsSeq(acc) /\ \A i \in 1..n : IsSeq(acc[i].content)
  BY SeqShape DEF Contents
<1>1. CASE m.content = <<>>
  <2>1. w = acc
    BY <1>1 DEF With
  <2>2. Begins(acc, acc)
    BY <1>0, BeginsItself
  <2>3. \A i \in DOMAIN acc : IsSeq(acc[i].content)
    BY <1>0
  <2> HIDE DEF w
  <2> QED BY <2>1, <2>2, <2>3, FlatBegins DEF w
<1>2. CASE m.content # <<>> /\ ~(acc # <<>> /\ last.role = m.role)
  <2>1. w = Append(acc, m)
    BY <1>2 DEF With
  <2> HIDE DEF w
  <2>2. IsSeq(w)
    BY <1>0, <2>1, AppendShape
  <2>3. Len(w) = n + 1
    BY <1>0, <2>1, AppendShape
  <2>4. w[Len(w)] = m
    BY <1>0, <2>1, AppendShape
  <2>5. \A i \in 1..n : w[i] = acc[i]
    BY <1>0, <2>1, AppendShape
  <2>6. DOMAIN w = 1..(n + 1)
    BY <2>2, <2>3, SeqShape
  <2>7. Begins(acc, w)
    BY <1>0, <2>2, <2>3, <2>5 DEF Begins
  <2>8. \A i \in DOMAIN w : IsSeq(w[i].content)
    <3> TAKE i \in DOMAIN w
    <3>1. i \in 1..n \/ i = Len(w)
      BY <1>0, <2>3, <2>6
    <3> QED BY <1>0, <2>4, <2>5, <3>1
  <2> QED BY <2>2, <2>7, <2>8, FlatBegins DEF Contents, w
<1>3. CASE m.content # <<>> /\ acc # <<>> /\ last.role = m.role
  <2>1. w = [acc EXCEPT ![n] = grown]
    BY <1>3 DEF With
  <2>2. n \in DOMAIN acc
    <3>1. n # 0
      BY <1>0, <1>3, EmptyRange
    <3> QED BY <1>0, <3>1
  <2> DEFINE old == last.content
  <2>3. IsSeq(old) /\ IsSeq(grown.content) /\ grown.role = last.role /\ grown.content = old \o m.content
    <3>1. IsSeq(old)
      BY <1>0, <2>2
    <3>2. IsSeq(old \o m.content)
      BY <3>1, ConcatRange
    <3> QED BY <3>1, <3>2
  <2> HIDE DEF grown, w, old
  <2>4. IsSeq(w)
    BY <1>0, <2>1, <2>2, ExceptShape
  <2>5. Len(w) = n /\ DOMAIN w = 1..n
    BY <1>0, <2>1, <2>2, ExceptShape
  <2>6. w[n] = grown
    BY <1>0, <2>1, <2>2, ExceptShape
  <2>7. \A j \in DOMAIN acc \ {n} : w[j] = acc[j]
    BY <1>0, <2>1, <2>2, ExceptShape
  <2>8. \A i \in DOMAIN w : IsSeq(w[i].content)
    BY <1>0, <2>3, <2>5, <2>6, <2>7
  <2> DEFINE s == [i \in DOMAIN acc |-> Units("converse", acc[i])]
  <2> DEFINE t == [i \in DOMAIN w |-> Units("converse", w[i])]
  <2>9. /\ s = [i \in 1..n |-> s[i]] /\ t = [i \in 1..n |-> t[i]]
        /\ \A i \in 1..n : IsSeq(s[i]) /\ IsSeq(t[i])
        /\ \A i \in 1..n : i # n => s[i] = t[i]
    <3>1. s = [i \in 1..n |-> s[i]] /\ t = [i \in 1..n |-> t[i]]
      BY <1>0, <2>5
    <3>2. \A i \in 1..n : IsSeq(s[i])
      BY <1>0, UnitsShape
    <3>3. \A i \in 1..n : IsSeq(t[i])
      BY <2>5, <2>8, UnitsShape
    <3>4. \A i \in 1..n : i # n => s[i] = t[i]
      BY <1>0, <2>5, <2>7
    <3> QED BY <3>1, <3>2, <3>3, <3>4
  <2>10. s[n] = Units("converse", last) /\ t[n] = Units("converse", grown)
    BY <1>0, <2>2, <2>5, <2>6
  <2>11. Begins(s[n], t[n])
    <3>1. Len(old) \in Nat /\ DOMAIN old = 1..Len(old)
      BY <2>3, SeqShape
    <3>2. Begins(old, grown.content)
      BY <2>3, BeginsLonger
    <3>3. Len(grown.content) \in Nat /\ DOMAIN grown.content = 1..Len(grown.content)
      BY <2>3, SeqShape
    <3> DEFINE p == [k \in 1..Len(old) |-> <<last.role, old[k]>>]
    <3> DEFINE q == [k \in 1..Len(grown.content) |-> <<grown.role, grown.content[k]>>]
    <3>4. s[n] = p /\ t[n] = q
      BY <2>10, <3>1, <3>3 DEF Units, old
    <3>5. p = [k \in 1..Len(old) |-> p[k]] /\ q = [k \in 1..Len(grown.content) |-> q[k]]
      OBVIOUS
    <3>6. \A k \in 1..Len(old) : p[k] = q[k]
      BY <2>3, <3>1, <3>2, <3>3 DEF Begins
    <3> HIDE DEF p, q
    <3>7. IsSeq(p) /\ Len(p) = Len(old)
      BY <3>1, <3>5, FunShape
    <3>8. IsSeq(q) /\ Len(q) = Len(grown.content)
      BY <3>3, <3>5, FunShape
    <3> QED BY <3>2, <3>4, <3>6, <3>7, <3>8 DEF Begins
  <2> HIDE DEF s, t
  <2>12. AreSeqs(s) /\ Len(s) = n
    BY <1>0, <2>9, MapJoined
  <2>13. AreSeqs(t) /\ Len(t) = n
    BY <1>0, <2>9, MapJoined
  <2>14. Begins(Joined(s), Joined(t))
    BY <1>0, <2>2, <2>9, <2>11, <2>12, <2>13, LastGrows
  <2>15. Flat("converse", acc) = Joined(s) /\ Flat("converse", w) = Joined(t)
    BY DEF Flat, s, t
  <2> QED BY <2>4, <2>8, <2>14, <2>15 DEF Contents, w
<1> QED BY <1>1, <1>2, <1>3

------------------------------------------------------------------------------
MergesUp(messages, F) ==
    /\ F[0] = <<>> /\ Merged(messages) = F[Len(messages)]
    /\ \A i \in 1..Len(messages) : F[i] = With(F[i - 1], messages[i])
    /\ \A i \in 0..Len(messages) : Contents(F[i])

LEMMA MergedUp ==
    ASSUME NEW messages, Contents(messages)
    PROVE  \E F : MergesUp(messages, F)
<1> DEFINE G == CHOOSE F : Merges(messages, F)
<1> DEFINE N == Len(messages)
<1>1. Merged(messages) = G[N]
  <2>1. Size(messages) = Len(messages)
    BY SizeIsLen DEF Contents
  <2> QED BY <2>1 DEF Merged, Merges
<1>2. N \in Nat /\ DOMAIN messages = 1..N
  BY SeqShape DEF Contents
<1>3. Merges(messages, G)
  BY <1>2, MergeExists
<1> HIDE DEF G
<1>4. \A i \in 0..N : G[i] = IF i = 0 THEN <<>> ELSE With(G[i - 1], messages[i])
  BY <1>3 DEF Merges
<1>5. 0 \in 0..N /\ \A i \in 1..N : i \in 0..N /\ i # 0
  BY <1>2
<1>6. G[0] = <<>>
  BY <1>4, <1>5
<1>7. \A i \in 1..N : G[i] = With(G[i - 1], messages[i])
  BY <1>4, <1>5
<1> DEFINE S == {i \in 0..N : Contents(G[i])}
<1>8. 0 \in S
  BY <1>5, <1>6, EmptyShape DEF Contents
<1>9. ASSUME NEW i \in 1..N, i - 1 \in S PROVE i \in S
  <2>1. Contents(G[i - 1]) /\ IsSeq(messages[i].content) /\ i \in 0..N
    BY <1>2, <1>9 DEF Contents
  <2>2. Contents(G[i])
    BY <1>7, <2>1, WithBegins
  <2> QED BY <2>1, <2>2
<1>10. \A i \in 0..N : i \in S
  <2> HIDE DEF S, N
  <2> QED BY <1>2, <1>8, <1>9, Upto
<1>11. MergesUp(messages, G)
  BY <1>1, <1>6, <1>7, <1>10 DEF MergesUp
<1> QED BY <1>11

LEMMA MergedBegins ==
    ASSUME NEW a, Contents(a), NEW b, Contents(b), Begins(a, b)
    PROVE  Begins(Flat("converse", Merged(a)), Flat("converse", Merged(b)))
<1>1. PICK F : MergesUp(a, F)
  BY MergedUp
<1>2. PICK G : MergesUp(b, G)
  BY MergedUp
<1> DEFINE n == Len(a)
<1> DEFINE m == Len(b) - n
<1> DEFINE flat(x) == Flat("converse", x)
<1>3. n \in Nat /\ Len(b) \in Nat /\ m \in Nat /\ n + m = Len(b)
        /\ \A i \in 1..n : i \in 1..Len(b) /\ a[i] = b[i]
  BY SeqShape DEF Begins
<1> DEFINE S == {i \in 0..n : F[i] = G[i]}
<1>4. 0 \in S
  <2>1. F[0] = <<>> /\ G[0] = <<>>
    BY <1>1, <1>2 DEF MergesUp
  <2> QED BY <1>3, <2>1
<1>5. ASSUME NEW i \in 1..n, i - 1 \in S PROVE i \in S
  <2>1. F[i] = With(F[i - 1], a[i])
    BY <1>1 DEF MergesUp
  <2>2. i \in 1..Len(b) /\ a[i] = b[i]
    BY <1>3
  <2>3. G[i] = With(G[i - 1], b[i])
    BY <1>2, <2>2 DEF MergesUp
  <2>4. i \in 0..n
    BY <1>3
  <2> QED BY <1>5, <2>1, <2>2, <2>3, <2>4
<1>6. \A i \in 0..n : i \in S
  <2> HIDE DEF S, n
  <2> QED BY <1>3, <1>4, <1>5, Upto
<1>7. F[n] = G[n]
  BY <1>3, <1>6
<1> HIDE DEF flat
<1> DEFINE T == {i \in 0..m : Begins(flat(G[n]), flat(G[n + i]))}
<1>8. 0 \in T
  <2>1. n + 0 = n /\ n \in 0..Len(b) /\ 0 \in 0..m
    BY <1>3
  <2>2. Contents(G[n])
    BY <1>2, <2>1 DEF MergesUp
  <2>3. Begins(G[n], G[n]) /\ \A i \in DOMAIN G[n] : IsSeq(G[n][i].content)
    BY <2>2, BeginsItself DEF Contents
  <2>4. Begins(flat(G[n]), flat(G[n]))
    BY <2>3, FlatBegins DEF flat
  <2> QED BY <2>1, <2>4
<1>9. ASSUME NEW i \in 1..m, i - 1 \in T PROVE i \in T
  <2>1. n + i \in 1..Len(b) /\ n + (i - 1) = (n + i) - 1 /\ n + (i - 1) \in 0..Len(b) /\ i \in 0..m
    BY <1>3
  <2>2. G[n + i] = With(G[n + (i - 1)], b[n + i])
    BY <1>2, <2>1 DEF MergesUp
  <2>3. Contents(G[n + (i - 1)])
    BY <1>2, <2>1 DEF MergesUp
  <2>4. IsSeq(b[n + i].content)
    BY <2>1, SeqShape DEF Contents
  <2>5. Begins(flat(G[n + (i - 1)]), flat(G[n + i]))
    BY <2>2, <2>3, <2>4, WithBegins DEF flat
  <2>6. Begins(flat(G[n]), flat(G[n + (i - 1)]))
    BY <1>9
  <2>7. Begins(flat(G[n]), flat(G[n + i]))
    BY <2>5, <2>6, BeginsOn
  <2> QED BY <2>1, <2>7
<1>10. \A i \in 0..m : i \in T
  <2> HIDE DEF T, m, n
  <2> QED BY <1>3, <1>8, <1>9, Upto
<1>11. m \in 0..m
  BY <1>3
<1>12. Begins(flat(G[n]), flat(G[n + m]))
  BY <1>10, <1>11
<1>13. Merged(a) = G[n] /\ Merged(b) = G[n + m]
  <2>1. Merged(a) = F[n]
    BY <1>1 DEF MergesUp
  <2>2. Merged(b) = G[Len(b)]
    BY <1>2 DEF MergesUp
  <2> QED BY <1>3, <1>7, <2>1, <2>2
<1> QED BY <1>12, <1>13 DEF flat

LEMMA ConverseBegins ==
    ASSUME NEW a, Contents(a), NEW b, Contents(b), Begins(a, b)
    PROVE  Begins(Flat("converse", anthropicToConverseRequest(a)),
                  Flat("converse", anthropicToConverseRequest(b)))
<1> DEFINE s == [i \in DOMAIN a |-> anthropicMessageToIr(a[i])]
<1> DEFINE t == [i \in DOMAIN b |-> anthropicMessageToIr(b[i])]
<1>1. /\ Len(a) \in Nat /\ DOMAIN a = 1..Len(a) /\ Len(b) \in Nat /\ DOMAIN b = 1..Len(b)
      /\ Len(a) <= Len(b) /\ \A i \in 1..Len(a) : a[i] = b[i]
  BY SeqShape DEF Begins
<1>2. s = [i \in 1..Len(a) |-> s[i]] /\ t = [i \in 1..Len(b) |-> t[i]]
  BY <1>1
<1>3. ASSUME NEW m, IsSeq(m.content) PROVE IsSeq(anthropicMessageToIr(m).content)
  BY <1>3, IrKeepsTools
<1>4. \A i \in 1..Len(a) : s[i] = t[i] /\ IsSeq(s[i].content)
  BY <1>1, <1>3 DEF Contents
<1>5. \A i \in 1..Len(b) : IsSeq(t[i].content)
  BY <1>1, <1>3 DEF Contents
<1>6. anthropicToConverseRequest(a) = Merged(s) /\ anthropicToConverseRequest(b) = Merged(t)
  BY DEF anthropicToConverseRequest
<1> HIDE DEF s, t
<1>7. IsSeq(s) /\ Len(s) = Len(a) /\ DOMAIN s = 1..Len(a)
  BY <1>1, <1>2, FunShape
<1>8. IsSeq(t) /\ Len(t) = Len(b) /\ DOMAIN t = 1..Len(b)
  BY <1>1, <1>2, FunShape
<1>9. Contents(s) /\ Contents(t)
  BY <1>4, <1>5, <1>7, <1>8 DEF Contents
<1>10. Begins(s, t)
  BY <1>1, <1>4, <1>7, <1>8 DEF Begins
<1> QED BY <1>6, <1>9, <1>10, MergedBegins

LEMMA TranslatedBegins ==
    ASSUME NEW wire \in Wires, NEW a, Contents(a), NEW b, Contents(b), Begins(a, b)
    PROVE  Begins(Flat(wire, Translated(wire, a)), Flat(wire, Translated(wire, b)))
<1>1. CASE wire = "converse"
  BY <1>1, ConverseBegins DEF Translated
<1>2. CASE wire # "converse"
  <2>1. Begins(anthropicToOpenAIRequest(wire, a), anthropicToOpenAIRequest(wire, b))
    BY OpenAIBegins
  <2> QED BY <1>2, <2>1, FlatBegins DEF Translated
<1> QED BY <1>1, <1>2

(* The request that was sent and what the conversation has become since.       *)

Beginning(s, n) == [i \in 1..n |-> s[i]]

LEMMA BeginningBegins ==
    ASSUME NEW s, IsSeq(s), NEW n \in 0..Len(s)
    PROVE  Begins(Beginning(s, n), s) /\ Len(Beginning(s, n)) = n
<1> DEFINE b == Beginning(s, n)
<1>1. Len(s) \in Nat
  BY SeqShape
<1>2. b = [i \in 1..n |-> b[i]] /\ \A i \in 1..n : b[i] = s[i]
  BY DEF Beginning
<1> HIDE DEF b
<1>3. IsSeq(b) /\ Len(b) = n
  BY <1>1, <1>2, FunShape
<1>4. Begins(b, s)
  BY <1>1, <1>2, <1>3 DEF Begins
<1> QED BY <1>3, <1>4 DEF b

LEMMA SystemSpeaks ==
    ASSUME NEW m, TypedMessage(m), m.role = "system", Kept(m) # <<>>
    PROVE  messageText(m.content) # <<>>
<1> DEFINE S == {b \in Range(m.content) : ~isEmptyTextBlock(b)}
<1>1. S # {}
  <2> SUFFICES ASSUME S = {} PROVE FALSE
    OBVIOUS
  <2>1. IsSeq(Only(m.content, S)) /\ Range(Only(m.content, S)) = S
    <3>1. S \subseteq Range(m.content)
      OBVIOUS
    <3> HIDE DEF S
    <3> QED BY <3>1, OnlyOf DEF TypedMessage
  <2>2. Only(m.content, S) = <<>>
    <3> HIDE DEF S
    <3> QED BY <2>1, EmptyRange
  <2> QED BY <2>2 DEF Kept, stripEmptyBlocks
<1>2. PICK b \in Range(m.content) : b.type = "text" /\ b.says # <<>> /\ IsSeq(b.says)
  BY <1>1 DEF isEmptyTextBlock, TypedMessage
<1>3. Range(b.says) # {}
  <2>1. Len(b.says) # 0 /\ Len(b.says) \in Nat /\ DOMAIN b.says = 1..Len(b.says)
    BY <1>2, EmptyRange, SeqShape
  <2>2. 1 \in DOMAIN b.says
    BY <2>1
  <2> QED BY <2>2 DEF Range
<1>4. Range(b.says) \subseteq Range(messageText(m.content))
  BY <1>2, SaysAre DEF messageText, TypedMessage
<1>5. IsSeq(<<>>) /\ Range(<<>>) = {}
  BY EmptyShape, EmptyRange
<1> QED BY <1>3, <1>4, <1>5

------------------------------------------------------------------------------
\* The inductive invariant: the upstream's last request is the translation of what
\* the conversation began with, up to a turn that is not the model's.
Remembered ==
    LET asked == Beginning(turns, sent.of)
    IN  /\ sent.of \in 1..Len(turns)
        /\ sent.system = SystemPrompt(Prompt, asked)
        /\ sent.messages = Translated(sent.wire, normalizeForIrPaths(asked))
        /\ turns[sent.of].role # "assistant"
        /\ \E j \in 1..sent.of : turns[j].role = "user"
RequestInv == Typed(turns) /\ (sent = Nothing \/ (sent.wire \in Wires /\ Remembered))

LEMMA SayGrows ==
    ASSUME IsSeq(turns), NEW m, Say(m)
    PROVE  Begins(turns, turns')
<1> DEFINE t == turns'
<1>1. t = Append(turns, m)
  BY DEF Say
<1>0. Len(turns) \in Nat /\ DOMAIN turns = 1..Len(turns)
  BY SeqShape
<1> HIDE DEF t
<1>2. IsSeq(t)
  BY <1>1, AppendShape
<1>3. Len(t) = Len(turns) + 1
  BY <1>1, AppendShape
<1>4. \A i \in DOMAIN turns : t[i] = turns[i]
  BY <1>1, AppendShape
<1>5. Begins(turns, t)
  BY <1>0, <1>2, <1>3, <1>4 DEF Begins
<1> QED BY <1>5 DEF t

\* A step asks, forgets, or goes on.
GoesOn == sent' = sent /\ Begins(turns, turns') /\ (phase' = "asked" => phase = "asked")
Forgets == sent' = Nothing /\ phase' # "asked"

LEMMA StepGrows ==
    ASSUME Typed(turns), [Next]_vars
    PROVE  Ask \/ Forgets \/ GoesOn
<1>0. IsSeq(turns)
  BY DEF Typed
<1>1. Begins(turns, turns)
  BY <1>0, BeginsItself
<1>2. ASSUME NEW kind \in Kinds, Write(kind) PROVE GoesOn
  BY <1>0, <1>2, SayGrows DEF Write, GoesOn
<1>3. ASSUME Remind PROVE GoesOn
  BY <1>0, <1>3, SayGrows DEF Remind, GoesOn
<1>4. ASSUME NEW S \in SUBSET Calls, NEW place \in Places, Respond(S, place) PROVE GoesOn
  <2>1. phase' = "idle" /\ sent' = sent /\ \E m : Say(m)
    BY <1>4 DEF Respond
  <2> QED BY <1>0, <2>1, SayGrows DEF GoesOn
<1>5. ASSUME Compact PROVE Forgets
  BY <1>5 DEF Compact, Forgets
<1>6. ASSUME Refuse PROVE GoesOn
  BY <1>1, <1>6 DEF Refuse, GoesOn
<1>7. ASSUME NEW shape \in Replies, ReplyOpenAI(shape) PROVE GoesOn
  <2>1. phase' = "idle" /\ sent' = sent /\ \E m : Say(m)
    BY <1>7 DEF ReplyOpenAI, Answered
  <2> QED BY <1>0, <2>1, SayGrows DEF GoesOn
<1>8. ASSUME NEW names \in Streams, ReplyConverse(names) PROVE GoesOn
  <2>1. phase' = "idle" /\ sent' = sent /\ \E m : Say(m)
    BY <1>8 DEF ReplyConverse, Answered
  <2> QED BY <1>0, <2>1, SayGrows DEF GoesOn
<1>9. ASSUME Fail PROVE GoesOn
  BY <1>1, <1>9 DEF Fail, GoesOn
<1>10. ASSUME NEW names \in Natives, AskNative(names) PROVE GoesOn
  <2>1. phase' = phase /\ sent' = sent /\ \E m : Say(m)
    BY <1>10 DEF AskNative
  <2> QED BY <1>0, <2>1, SayGrows DEF GoesOn
<1>11. ASSUME UNCHANGED vars PROVE GoesOn
  BY <1>1, <1>11 DEF vars, GoesOn
<1> QED BY <1>2, <1>3, <1>4, <1>5, <1>6, <1>7, <1>8, <1>9, <1>10, <1>11 DEF Next

LEMMA RequestInitially == Init => RequestInv
<1> SUFFICES ASSUME Init PROVE RequestInv
  OBVIOUS
<1>1. turns = <<>> /\ sent = Nothing
  BY DEF Init
<1>2. Typed(turns)
  BY <1>1, EmptyShape DEF Typed
<1> QED BY <1>1, <1>2 DEF RequestInv

LEMMA RequestStep == ConversationInv /\ RequestInv /\ [Next]_vars => RequestInv'
<1> SUFFICES ASSUME ConversationInv, RequestInv, [Next]_vars PROVE RequestInv'
  OBVIOUS
<1>1. Typed(turns) /\ Typed(turns')
  <2>1. ConversationInv'
    BY ConversationStep
  <2> QED BY <2>1 DEF ConversationInv
<1>2. CASE Ask
  <2> DEFINE asked == Beginning(turns, Len(turns))
  <2>1. IsSeq(turns) /\ Len(turns) \in Nat /\ DOMAIN turns = 1..Len(turns)
    BY <1>1, SeqShape DEF Typed
  <2>2. asked = turns
    <3>1. Len(turns) \in 0..Len(turns)
      BY <2>1
    <3>2. Begins(asked, turns) /\ Len(asked) = Len(turns)
      BY <2>1, <3>1, BeginningBegins
    <3> HIDE DEF asked
    <3>3. IsSeq(asked) /\ \A i \in 1..Len(asked) : asked[i] = turns[i]
      BY <3>2 DEF Begins
    <3> QED BY <2>1, <3>2, <3>3, SeqSame
  <2>3. \E wire \in Wires :
          sent' = [wire |-> wire, of |-> Len(turns), system |-> SystemPrompt(Prompt, turns),
                   messages |-> Translated(wire, normalizeForIrPaths(turns))]
    BY <1>2 DEF Ask
  <2>4. /\ turns' = turns /\ turns # <<>> /\ turns[Len(turns)].role # "assistant"
        /\ \E i \in DOMAIN turns : turns[i].role = "user"
    BY <1>2 DEF Ask, ClientAsks, Last
  <2>5. Len(turns) \in 1..Len(turns)
    BY <2>1, <2>4, EmptyRange
  <2> HIDE DEF asked
  <2>6. sent'.wire \in Wires /\ Remembered'
    BY <2>1, <2>2, <2>3, <2>4, <2>5 DEF Remembered, asked
  <2> QED BY <1>1, <2>6 DEF RequestInv
<1>3. CASE sent' = Nothing
  BY <1>1, <1>3 DEF RequestInv, Nothing
<1>4. CASE sent' = sent /\ Begins(turns, turns')
  <2>1. CASE sent = Nothing
    BY <1>1, <1>4, <2>1 DEF RequestInv, Nothing
  <2>2. CASE sent # Nothing
    <3>1. sent.wire \in Wires /\ Remembered
      BY <2>2 DEF RequestInv
    <3> DEFINE n == sent.of
    <3>2. n \in 1..Len(turns) /\ Len(turns) \in Nat /\ Len(turns') \in Nat /\ Len(turns) <= Len(turns')
      BY <1>4, <3>1, SeqShape DEF Remembered, Begins
    <3>3. \A i \in 1..n : turns'[i] = turns[i]
      BY <1>4, <3>2 DEF Begins
    <3>4. Beginning(turns', n) = Beginning(turns, n)
      BY <3>3 DEF Beginning
    <3>5. n \in 1..Len(turns') /\ n \in 1..n
      BY <3>2
    <3>6. Remembered'
      BY <1>4, <3>1, <3>3, <3>4, <3>5 DEF Remembered
    <3> QED BY <1>1, <1>4, <3>1, <3>6 DEF RequestInv
  <2> QED BY <2>1, <2>2
<1> QED BY <1>1, <1>2, <1>3, <1>4, StepGrows DEF Forgets, GoesOn

LEMMA TypedBeginning ==
    ASSUME NEW s, Typed(s), NEW n \in 0..Len(s)
    PROVE  Typed(Beginning(s, n))
<1>1. Begins(Beginning(s, n), s) /\ Len(Beginning(s, n)) = n
  BY BeginningBegins DEF Typed
<1> DEFINE b == Beginning(s, n)
<1> HIDE DEF b
<1>2. /\ IsSeq(b) /\ DOMAIN b = 1..Len(b) /\ Len(b) <= Len(s) /\ DOMAIN s = 1..Len(s)
      /\ Len(s) \in Nat /\ \A i \in 1..Len(b) : b[i] = s[i]
  BY <1>1, SeqShape DEF Begins, b
<1>3. \A i \in DOMAIN b : TypedMessage(b[i])
  BY <1>2 DEF Typed
<1> QED BY <1>2, <1>3 DEF Typed, b

LEMMA RequestRepeats ==
    ASSUME ConversationInv, RequestInv, Ask, sent.wire = sent'.wire, Kept(turns[sent.of]) # <<>>
    PROVE  sent'.system = sent.system /\ IsPrefix(Whole(sent), Whole(sent'))
<1> DEFINE n == sent.of
<1> DEFINE a == Beginning(turns, n)
<1> DEFINE wire == sent.wire
<1>1. /\ wire \in Wires /\ sent'.system = SystemPrompt(Prompt, turns)
      /\ sent'.messages = Translated(wire, normalizeForIrPaths(turns))
  BY DEF Ask
<1>2. Remembered
  BY <1>1 DEF RequestInv, Nothing, Wires
<1>3. Typed(turns) /\ Len(turns) \in Nat /\ n \in 1..Len(turns) /\ IsSeq(turns)
  BY <1>2, SeqShape DEF ConversationInv, Remembered, Typed
<1>4. n \in 0..Len(turns)
  BY <1>3
<1>5. Begins(a, turns) /\ Len(a) = n
  BY <1>3, <1>4, BeginningBegins
<1>6. Typed(a)
  BY <1>3, <1>4, TypedBeginning
<1>7. a[n] = turns[n] /\ \A j \in 1..n : a[j] = turns[j]
  BY <1>3 DEF Beginning
<1>8. PICK j \in 1..n : turns[j].role = "user"
  BY <1>2 DEF Remembered
<1>9. turns[n].role # "assistant" /\ sent.system = SystemPrompt(Prompt, a)
        /\ sent.messages = Translated(wire, normalizeForIrPaths(a))
  BY <1>2 DEF Remembered
<1> HIDE DEF a
<1>10. DOMAIN a = 1..n
  BY <1>5, <1>6, SeqShape DEF Typed
<1>11. SystemPrompt(Prompt, a) = SystemPrompt(Prompt, turns)
  BY <1>3, <1>5, <1>6, <1>7, <1>8, <1>10, PromptStays
<1>12. ~Hoisted(a, n)
  <2>1. CASE turns[n].role = "system"
    <3>1. j \in 1..(n - 1)
      BY <1>3, <1>8, <2>1
    <3>2. a[j].role = "user"
      BY <1>7, <1>8
    <3> QED BY <3>1, <3>2 DEF Hoisted, SeenUserTurn
  <2>2. CASE turns[n].role # "system"
    BY <1>7, <2>2 DEF Hoisted
  <2> QED BY <2>1, <2>2
<1>13. turns[n].role = "system" => messageText(turns[n].content) # <<>>
  <2>1. TypedMessage(turns[n])
    BY <1>3, SeqShape DEF Typed
  <2> QED BY <2>1, SystemSpeaks
<1> DEFINE c == normalizeForIrPaths(a)
<1> DEFINE d == normalizeForIrPaths(turns)
<1>14. Begins(c, d)
  <2>1. Len(a) > 0 /\ a[Len(a)] = turns[n] /\ ~Hoisted(a, Len(a))
    BY <1>3, <1>5, <1>7, <1>12
  <2> QED BY <1>3, <1>5, <1>6, <1>9, <1>13, <2>1, NormalizedBegins
<1>15. Contents(c) /\ Contents(d)
  BY <1>3, <1>6, NormalizedClosed DEF Closed, Contents
<1> HIDE DEF c, d
<1>16. Begins(Flat(wire, Translated(wire, c)), Flat(wire, Translated(wire, d)))
  BY <1>1, <1>14, <1>15, TranslatedBegins
<1>17. Whole(sent) = Flat(wire, Translated(wire, c))
  BY <1>9 DEF Whole, Flat, Units, c
<1>18. Whole(sent') = Flat(wire, Translated(wire, d))
  BY <1>1 DEF Whole, Flat, Units, d
<1> QED BY <1>1, <1>9, <1>11, <1>16, <1>17, <1>18, BeginsIsPrefix

\* Each request repeats the one before it and goes on from there, in conversations
\* of any length.
THEOREM ConversationKeepsPrefix == Spec => PrefixKept
<1> DEFINE Repeats ==
        phase' = "asked" /\ phase # "asked" /\ sent.wire = sent'.wire
            /\ Kept(turns[sent.of]) # <<>> =>
        sent'.system = sent.system /\ IsPrefix(Whole(sent), Whole(sent'))
<1>1. Init => ConversationInv /\ RequestInv
  BY ConversationInitially, RequestInitially
<1>2. ConversationInv /\ RequestInv /\ [Next]_vars => (ConversationInv /\ RequestInv)'
  BY ConversationStep, RequestStep
<1>3. ConversationInv /\ RequestInv /\ [Next]_vars => [Repeats]_vars
  <2> SUFFICES ASSUME ConversationInv, RequestInv, [Next]_vars,
                      phase' = "asked", phase # "asked", sent.wire = sent'.wire,
                      Kept(turns[sent.of]) # <<>>
               PROVE  sent'.system = sent.system /\ IsPrefix(Whole(sent), Whole(sent'))
    OBVIOUS
  <2>1. Ask
    BY StepGrows DEF ConversationInv, Forgets, GoesOn
  <2> QED BY <2>1, RequestRepeats
<1> QED BY <1>1, <1>2, <1>3, PTL DEF Spec, PrefixKept

------------------------------------------------------------------------------
(* Joined(s), where each of the sequences has one element or none.             *)

\* t holds the only elements of those of s[1] to s[n] that have one, and at says whose
\* each is.
Picks(t, s, n, at) ==
    /\ IsSeq(t) /\ at \in [1..Len(t) -> 1..n]
    /\ \A p \in 1..Len(t) : Len(s[at[p]]) = 1 /\ s[at[p]][1] = t[p]
    /\ \A p, q \in 1..Len(t) : p < q => at[p] < at[q]
    /\ \A i \in 1..n : Len(s[i]) # 0 => \E p \in 1..Len(t) : at[p] = i

LEMMA PicksMore ==
    ASSUME NEW s, NEW n \in Nat, n # 0, IsSeq(s[n]), Len(s[n]) <= 1,
           NEW u, NEW at, Picks(u, s, n - 1, at), NEW t, t = u \o s[n]
    PROVE  \E h : Picks(t, s, n, h)
<1>1. /\ IsSeq(u) /\ at \in [1..Len(u) -> 1..(n - 1)] /\ Len(u) \in Nat /\ Len(s[n]) \in Nat
      /\ \A p \in 1..Len(u) : Len(s[at[p]]) = 1 /\ s[at[p]][1] = u[p]
      /\ \A p, q \in 1..Len(u) : p < q => at[p] < at[q]
      /\ \A i \in 1..(n - 1) : Len(s[i]) # 0 => \E p \in 1..Len(u) : at[p] = i
  BY SeqShape DEF Picks
<1>2. IsSeq(t)
  BY <1>1, ConcatShape
<1>3. Len(t) = Len(u) + Len(s[n])
  BY <1>1, ConcatShape
<1>4. \A p \in 1..Len(u) : t[p] = u[p]
  BY <1>1, ConcatShape
<1>5. \A k \in 1..Len(s[n]) : t[Len(u) + k] = s[n][k]
  BY <1>1, ConcatShape
<1>6. CASE Len(s[n]) = 0
  <2>1. Len(t) = Len(u)
    BY <1>1, <1>3, <1>6
  <2>2. at \in [1..Len(t) -> 1..n]
    <3>1. \A p \in 1..Len(u) : at[p] \in 1..n
      BY <1>1
    <3> QED BY <1>1, <2>1, <3>1
  <2>3. \A i \in 1..n : Len(s[i]) # 0 => \E p \in 1..Len(t) : at[p] = i
    <3>1. \A i \in 1..n : i \in 1..(n - 1) \/ i = n
      OBVIOUS
    <3> QED BY <1>1, <1>6, <2>1, <3>1
  <2>4. \A p \in 1..Len(t) : Len(s[at[p]]) = 1 /\ s[at[p]][1] = t[p]
    BY <1>1, <1>4, <2>1
  <2>5. \A p, q \in 1..Len(t) : p < q => at[p] < at[q]
    BY <1>1, <2>1
  <2>6. Picks(t, s, n, at)
    BY <1>2, <2>2, <2>3, <2>4, <2>5 DEF Picks
  <2> QED BY <2>6
<1>7. CASE Len(s[n]) = 1
  <2> DEFINE m == Len(u) + 1
  <2> DEFINE h == [p \in 1..m |-> IF p = m THEN n ELSE at[p]]
  <2>1. Len(t) = m /\ m \in 1..m /\ \A p \in 1..m : p = m \/ p \in 1..Len(u)
    BY <1>1, <1>3, <1>7
  <2>2. t[m] = s[n][1]
    BY <1>5, <1>7
  <2>3. h[m] = n /\ \A p \in 1..Len(u) : p # m /\ h[p] = at[p] /\ p \in 1..m
    BY <1>1, <2>1
  <2>4. h \in [1..m -> 1..n]
    <3>1. \A p \in 1..Len(u) : at[p] \in 1..n
      BY <1>1
    <3>2. n \in 1..n
      OBVIOUS
    <3> QED BY <2>1, <3>1, <3>2
  <2> HIDE DEF h
  <2>5. \A p \in 1..m : Len(s[h[p]]) = 1 /\ s[h[p]][1] = t[p]
    BY <1>1, <1>4, <1>7, <2>1, <2>2, <2>3
  <2>6. \A p, q \in 1..m : p < q => h[p] < h[q]
    <3> TAKE p, q \in 1..m
    <3> HAVE p < q
    <3>0. Len(u) \in Nat /\ m = Len(u) + 1
      BY <1>1
    <3>1. p \in 1..Len(u)
      <4> HIDE DEF m
      <4> QED BY <3>0
    <3>2. CASE q \in 1..Len(u)
      BY <1>1, <2>3, <3>1, <3>2
    <3>3. CASE q = m
      <4>1. at[p] \in 1..(n - 1)
        BY <1>1, <3>1
      <4>2. h[p] = at[p] /\ h[q] = n
        BY <2>3, <3>1, <3>3
      <4> QED BY <4>1, <4>2
    <3> QED BY <2>1, <3>2, <3>3
  <2>7. \A i \in 1..n : Len(s[i]) # 0 => \E p \in 1..m : h[p] = i
    <3> TAKE i \in 1..n
    <3> HAVE Len(s[i]) # 0
    <3>1. CASE i = n
      BY <2>1, <2>3, <3>1
    <3>2. CASE i # n
      <4>1. i \in 1..(n - 1)
        BY <3>2
      <4>2. PICK p \in 1..Len(u) : at[p] = i
        BY <1>1, <4>1
      <4> QED BY <2>3, <4>2
    <3> QED BY <3>1, <3>2
  <2> HIDE DEF m
  <2>8. Picks(t, s, n, h)
    BY <1>2, <2>1, <2>4, <2>5, <2>6, <2>7 DEF Picks
  <2> QED BY <2>8
<1>8. Len(s[n]) = 0 \/ Len(s[n]) = 1
  <2> DEFINE l == Len(s[n])
  <2>1. l \in Nat /\ l <= 1
    BY <1>1
  <2> HIDE DEF l
  <2>2. l = 0 \/ l = 1
    BY <2>1
  <2> QED BY <2>2 DEF l
<1> QED BY <1>6, <1>7, <1>8

LEMMA JoinedPicks ==
    ASSUME NEW s, AreSeqs(s), \A i \in 1..Len(s) : Len(s[i]) <= 1
    PROVE  \E at : Picks(Joined(s), s, Len(s), at)
<1>1. PICK F : JoinsUp(s, F)
  BY JoinedUp
<1>2. Len(s) \in Nat /\ \A i \in 1..Len(s) : IsSeq(s[i])
  BY SeqShape DEF AreSeqs
<1> DEFINE S == {n \in 0..Len(s) : \E at : Picks(F[n], s, n, at)}
<1>3. 0 \in S
  <2>1. F[0] = <<>>
    BY <1>1 DEF JoinsUp
  <2>2. IsSeq(<<>>) /\ Len(<<>>) = 0 /\ 1..0 = {}
    BY EmptyShape
  <2> DEFINE at == [p \in 1..0 |-> 0]
  <2>3. at \in [1..0 -> 1..0]
    BY <2>2
  <2> HIDE DEF at
  <2>4. Picks(<<>>, s, 0, at)
    BY <2>2, <2>3 DEF Picks
  <2> QED BY <1>2, <2>1, <2>4
<1>4. ASSUME NEW n \in 1..Len(s), n - 1 \in S PROVE n \in S
  <2>1. PICK at : Picks(F[n - 1], s, n - 1, at)
    BY <1>4
  <2>2. F[n] = F[n - 1] \o s[n]
    BY <1>1 DEF JoinsUp
  <2>3. n \in Nat /\ n # 0 /\ IsSeq(s[n]) /\ Len(s[n]) <= 1 /\ n \in 0..Len(s)
    BY <1>2
  <2>4. \E h : Picks(F[n], s, n, h)
    BY <2>1, <2>2, <2>3, PicksMore
  <2> QED BY <2>3, <2>4
<1>5. \A n \in 0..Len(s) : n \in S
  <2> HIDE DEF S
  <2> QED BY <1>2, <1>3, <1>4, Upto
<1>6. Len(s) \in 0..Len(s)
  BY <1>2
<1> QED BY <1>1, <1>5, <1>6 DEF JoinsUp

\* Whose element an element is: the next one's is of the next that has one.
LEMMA PickedOnce ==
    ASSUME NEW t, NEW s, NEW n \in Nat, NEW at, Picks(t, s, n, at),
           NEW p \in 1..Len(t), NEW q \in 1..Len(t), at[p] = at[q]
    PROVE  p = q
<1>1. Len(t) \in Nat /\ at[p] \in 1..n /\ at[q] \in 1..n
  BY SeqShape DEF Picks
<1>2. ~(p < q) /\ ~(q < p)
  BY <1>1 DEF Picks
<1> QED BY <1>1, <1>2

LEMMA PickedBefore ==
    ASSUME NEW t, NEW s, NEW n \in Nat, NEW at, Picks(t, s, n, at),
           NEW p \in 1..Len(t), at[p] > 1, Len(s[at[p] - 1]) # 0
    PROVE  p > 1 /\ at[p - 1] = at[p] - 1
<1>1. /\ Len(t) \in Nat /\ \A i \in 1..Len(t) : at[i] \in 1..n
      /\ \A i, j \in 1..Len(t) : i < j => at[i] < at[j]
  BY SeqShape DEF Picks
<1>2. at[p] - 1 \in 1..n /\ p \in Nat
  BY <1>1
<1>3. PICK q \in 1..Len(t) : at[q] = at[p] - 1
  BY <1>2 DEF Picks
<1>4. q < p
  <2>1. CASE q = p
    BY <1>1, <1>3, <2>1
  <2>2. CASE p < q
    BY <1>1, <1>3, <2>2
  <2> QED BY <1>1, <2>1, <2>2
<1>5. p - 1 \in 1..Len(t) /\ p > 1
  BY <1>1, <1>4
<1>6. ~(q < p - 1)
  <2> SUFFICES ASSUME q < p - 1 PROVE FALSE
    OBVIOUS
  <2>1. at[q] < at[p - 1]
    BY <1>1, <1>5
  <2>2. at[p - 1] < at[p]
    BY <1>1, <1>5
  <2>3. at[q] \in Nat /\ at[p] \in Nat /\ at[p - 1] \in Nat
    BY <1>1, <1>5
  <2> QED BY <1>3, <2>1, <2>2, <2>3
<1>7. q = p - 1
  BY <1>1, <1>4, <1>5, <1>6
<1> QED BY <1>3, <1>5, <1>7

------------------------------------------------------------------------------
(* Where what a filter keeps was, and calls that are referred to once.         *)

Singles(s, S) == [i \in DOMAIN s |-> IF s[i] \in S THEN <<s[i]>> ELSE <<>>]

LEMMA SinglesShape ==
    ASSUME NEW s, IsSeq(s), NEW S, NEW u, u = Singles(s, S)
    PROVE  /\ AreSeqs(u) /\ Len(u) = Len(s)
           /\ \A i \in 1..Len(s) : u[i] = IF s[i] \in S THEN <<s[i]>> ELSE <<>>
<1>1. Len(s) \in Nat /\ DOMAIN s = 1..Len(s)
  BY SeqShape
<1>2. u = [i \in 1..Len(s) |-> u[i]]
        /\ \A i \in 1..Len(s) : u[i] = IF s[i] \in S THEN <<s[i]>> ELSE <<>>
  BY <1>1 DEF Singles
<1>3. \A i \in 1..Len(s) : IsSeq(u[i])
  <2> TAKE i \in 1..Len(s)
  <2>1. CASE s[i] \in S
    <3>1. u[i] = <<s[i]>>
      BY <1>2, <2>1
    <3> QED BY <3>1, OneShape
  <2>2. CASE s[i] \notin S
    <3>1. u[i] = <<>>
      BY <1>2, <2>2
    <3> QED BY <3>1, EmptyShape
  <2> QED BY <2>1, <2>2
<1>4. AreSeqs(u) /\ Len(u) = Len(s)
  BY <1>1, <1>2, <1>3, MapJoined
<1> QED BY <1>2, <1>4

LEMMA OnlyIsJoined ==
    ASSUME NEW s, IsSeq(s), NEW S
    PROVE  Only(s, S) = Joined(Singles(s, S))
<1> DEFINE G == CHOOSE F : Filters(s, S, F)
<1>1. Only(s, S) = G[Len(s)]
  BY DEF Only, Filters
<1>2. Len(s) \in Nat
  BY SeqShape
<1>3. Filters(s, S, G)
  BY <1>2, FilterExists
<1> HIDE DEF G
<1>4. \A i \in 0..Len(s) :
        G[i] = IF i = 0 THEN <<>> ELSE IF s[i] \in S THEN Append(G[i - 1], s[i]) ELSE G[i - 1]
  BY <1>3 DEF Filters
<1> DEFINE u == Singles(s, S)
<1>5. /\ AreSeqs(u) /\ Len(u) = Len(s)
      /\ \A i \in 1..Len(s) : u[i] = IF s[i] \in S THEN <<s[i]>> ELSE <<>>
  BY SinglesShape
<1> HIDE DEF u
<1>6. PICK F : JoinsUp(u, F)
  BY <1>5, JoinedUp
<1> DEFINE T == {i \in 0..Len(s) : G[i] = F[i]}
<1>7. 0 \in T
  BY <1>2, <1>4, <1>6 DEF JoinsUp
<1>8. ASSUME NEW i \in 1..Len(s), i - 1 \in T PROVE i \in T
  <2>1. i \in 0..Len(s) /\ i # 0 /\ i - 1 \in 0..Len(s) /\ G[i - 1] = F[i - 1]
    BY <1>2, <1>8
  <2>2. F[i] = F[i - 1] \o u[i] /\ IsSeq(F[i - 1])
    BY <1>5, <1>6, <2>1 DEF JoinsUp
  <2>3. CASE s[i] \in S
    <3>1. G[i] = Append(F[i - 1], s[i])
      BY <1>4, <2>1, <2>3
    <3>2. F[i] = F[i - 1] \o <<s[i]>>
      BY <1>5, <2>2, <2>3
    <3> DEFINE g == G[i]
    <3> DEFINE f == F[i]
    <3> DEFINE e == F[i - 1]
    <3>14. IsSeq(e) /\ g = Append(e, s[i]) /\ f = e \o <<s[i]>>
      BY <2>2, <3>1, <3>2
    <3> HIDE DEF e, f, g
    <3>3. IsSeq(g) /\ Len(g) = Len(e) + 1 /\ g[Len(g)] = s[i] /\ \A k \in DOMAIN e : g[k] = e[k]
      <4>1. IsSeq(g)
        BY <3>14, AppendShape
      <4>2. Len(g) = Len(e) + 1
        BY <3>14, AppendShape
      <4>3. g[Len(g)] = s[i]
        BY <3>14, AppendShape
      <4>4. \A k \in DOMAIN e : g[k] = e[k]
        BY <3>14, AppendShape
      <4> QED BY <4>1, <4>2, <4>3, <4>4
    <3>4. IsSeq(<<s[i]>>) /\ Len(<<s[i]>>) = 1 /\ <<s[i]>>[1] = s[i]
      BY OneShape
    <3>5. IsSeq(f)
      BY <3>4, <3>14, ConcatRange
    <3>6. Len(f) = Len(e) + Len(<<s[i]>>)
      BY <3>4, <3>14, ConcatShape
    <3>7. \A k \in 1..Len(e) : f[k] = e[k]
      BY <3>4, <3>14, ConcatShape
    <3>8. \A k \in 1..Len(<<s[i]>>) : f[Len(e) + k] = <<s[i]>>[k]
      BY <3>4, <3>14, ConcatShape
    <3>9. Len(e) \in Nat /\ DOMAIN e = 1..Len(e)
      BY <3>14, SeqShape
    <3>10. Len(f) = Len(g) /\ \A k \in 1..Len(g) : k \in 1..Len(e) \/ k = Len(e) + 1
      BY <3>3, <3>4, <3>6, <3>9
    <3>11. f[Len(e) + 1] = g[Len(e) + 1]
      <4>1. 1 \in 1..Len(<<s[i]>>)
        BY <3>4
      <4>2. f[Len(e) + 1] = <<s[i]>>[1]
        BY <3>8, <4>1
      <4> QED BY <3>3, <3>4, <4>2
    <3>12. \A k \in 1..Len(g) : g[k] = f[k]
      BY <3>3, <3>7, <3>9, <3>10, <3>11
    <3>13. g = f
      BY <3>3, <3>5, <3>10, <3>12, SeqSame
    <3> QED BY <2>1, <3>13 DEF f, g
  <2>4. CASE s[i] \notin S
    <3>1. G[i] = F[i - 1]
      BY <1>4, <2>1, <2>4
    <3>2. F[i] = F[i - 1] \o <<>>
      BY <1>5, <2>2, <2>4
    <3> QED BY <2>1, <2>2, <3>1, <3>2, ConcatEmpty
  <2> QED BY <2>3, <2>4
<1>9. \A i \in 0..Len(s) : i \in T
  <2> HIDE DEF T
  <2> QED BY <1>2, <1>7, <1>8, Upto
<1>10. Len(s) \in 0..Len(s)
  BY <1>2
<1> QED BY <1>1, <1>5, <1>6, <1>9, <1>10 DEF JoinsUp, u

\* t is s without some of its elements.
Thins(t, s) ==
    \E at \in [1..Len(t) -> 1..Len(s)] :
        /\ \A p \in 1..Len(t) : t[p] = s[at[p]]
        /\ \A p, q \in 1..Len(t) : at[p] = at[q] => p = q

LEMMA OnlyThins ==
    ASSUME NEW s, IsSeq(s), NEW S
    PROVE  Thins(Only(s, S), s)
<1> DEFINE u == Singles(s, S)
<1> DEFINE t == Only(s, S)
<1>1. /\ AreSeqs(u) /\ Len(u) = Len(s)
      /\ \A i \in 1..Len(s) : u[i] = IF s[i] \in S THEN <<s[i]>> ELSE <<>>
  BY SinglesShape
<1>2. t = Joined(u)
  BY OnlyIsJoined
<1> HIDE DEF u, t
<1>3. \A i \in 1..Len(s) : /\ Len(u[i]) <= 1
                           /\ Len(u[i]) = 1 => u[i][1] = s[i]
  <2> TAKE i \in 1..Len(s)
  <2>1. CASE s[i] \in S
    <3>1. u[i] = <<s[i]>>
      BY <1>1, <2>1
    <3> QED BY <3>1, OneShape
  <2>2. CASE s[i] \notin S
    <3>1. u[i] = <<>>
      BY <1>1, <2>2
    <3> QED BY <3>1, EmptyShape
  <2> QED BY <2>1, <2>2
<1>4. PICK at : Picks(t, u, Len(s), at)
  BY <1>1, <1>2, <1>3, JoinedPicks
<1>5. at \in [1..Len(t) -> 1..Len(s)]
  BY <1>4 DEF Picks
<1>6. \A p \in 1..Len(t) : t[p] = s[at[p]]
  BY <1>3, <1>4, <1>5 DEF Picks
<1>7. \A p, q \in 1..Len(t) : at[p] = at[q] => p = q
  <2>1. Len(s) \in Nat
    BY SeqShape
  <2> QED BY <1>4, <2>1, PickedOnce
<1>8. Thins(t, s)
  BY <1>5, <1>6, <1>7 DEF Thins
<1> QED BY <1>8 DEF t

LEMMA OnlyInjective ==
    ASSUME NEW s, IsSeq(s), IsInjective(s), NEW S
    PROVE  IsInjective(Only(s, S))
<1> DEFINE t == Only(s, S)
<1>1. PICK at \in [1..Len(t) -> 1..Len(s)] :
        /\ \A p \in 1..Len(t) : t[p] = s[at[p]]
        /\ \A p, q \in 1..Len(t) : at[p] = at[q] => p = q
  BY OnlyThins DEF Thins
<1>2. IsSeq(t)
  BY OnlyOf
<1> HIDE DEF t
<1>3. DOMAIN t = 1..Len(t) /\ DOMAIN s = 1..Len(s)
  BY <1>2, SeqShape
<1>4. IsInjective(t)
  BY <1>1, <1>3 DEF IsInjective
<1> QED BY <1>4 DEF t

\* No two blocks of a content make, or answer, one call.
Once(type, content) ==
    \A k, l \in DOMAIN content :
        content[k].type = type /\ content[l].type = type /\ content[k].ref = content[l].ref => k = l

LEMMA OnlyOnce ==
    ASSUME NEW type, NEW s, IsSeq(s), Once(type, s), NEW S
    PROVE  Once(type, Only(s, S))
<1> DEFINE t == Only(s, S)
<1>1. PICK at \in [1..Len(t) -> 1..Len(s)] :
        /\ \A p \in 1..Len(t) : t[p] = s[at[p]]
        /\ \A p, q \in 1..Len(t) : at[p] = at[q] => p = q
  BY OnlyThins DEF Thins
<1>2. IsSeq(t)
  BY OnlyOf
<1> HIDE DEF t
<1>3. DOMAIN t = 1..Len(t) /\ DOMAIN s = 1..Len(s)
  BY <1>2, SeqShape
<1>4. Once(type, t)
  BY <1>1, <1>3 DEF Once
<1> QED BY <1>4 DEF t

\* Two contents of different calls, one after the other.
LEMMA ConcatOnce ==
    ASSUME NEW type, NEW s, IsSeq(s), Once(type, s), NEW t, IsSeq(t), Once(type, t),
           Referred(type, s) \cap Referred(type, t) = {}
    PROVE  Once(type, s \o t)
<1> DEFINE u == s \o t
<1>1. IsSeq(u)
  BY ConcatShape
<1>2. Len(u) = Len(s) + Len(t)
  BY ConcatShape
<1>3. \A i \in 1..Len(s) : u[i] = s[i]
  BY ConcatShape
<1>4. \A i \in 1..Len(t) : u[Len(s) + i] = t[i]
  BY ConcatShape
<1> HIDE DEF u
<1>5. /\ DOMAIN u = 1..Len(u) /\ DOMAIN s = 1..Len(s) /\ DOMAIN t = 1..Len(t)
      /\ Len(u) \in Nat /\ Len(s) \in Nat /\ Len(t) \in Nat
  BY <1>1, SeqShape
<1> DEFINE at(k) == k - Len(s)
<1>6. \A k \in DOMAIN u : \/ k \in DOMAIN s /\ u[k] = s[k]
                          \/ k \notin DOMAIN s /\ at(k) \in DOMAIN t /\ u[k] = t[at(k)] /\ k = Len(s) + at(k)
  <2> TAKE k \in DOMAIN u
  <2>1. CASE k <= Len(s)
    BY <1>3, <1>5, <2>1
  <2>2. CASE ~(k <= Len(s))
    <3>1. k - Len(s) \in 1..Len(t) /\ Len(s) + (k - Len(s)) = k
      BY <1>2, <1>5, <2>2
    <3>2. u[Len(s) + (k - Len(s))] = t[k - Len(s)]
      BY <1>4, <3>1
    <3> QED BY <1>5, <2>2, <3>1, <3>2
  <2> QED BY <2>1, <2>2
<1>7. \A k \in DOMAIN s : s[k].type = type => s[k].ref \in Referred(type, s)
  BY DEF Referred, Range
<1>8. \A k \in DOMAIN t : t[k].type = type => t[k].ref \in Referred(type, t)
  BY DEF Referred, Range
<1> HIDE DEF at
<1>9. ASSUME NEW k \in DOMAIN u, NEW l \in DOMAIN u,
             u[k].type = type, u[l].type = type, u[k].ref = u[l].ref
      PROVE  k = l
  <2>1. CASE k \in DOMAIN s /\ l \in DOMAIN s
    BY <1>6, <1>9, <2>1 DEF Once
  <2>2. CASE k \notin DOMAIN s /\ l \notin DOMAIN s
    <3>1. at(k) = at(l)
      BY <1>6, <1>9, <2>2 DEF Once
    <3> QED BY <1>6, <2>2, <3>1
  <2>3. CASE k \in DOMAIN s /\ l \notin DOMAIN s
    BY <1>6, <1>7, <1>8, <1>9, <2>3
  <2>4. CASE k \notin DOMAIN s /\ l \in DOMAIN s
    BY <1>6, <1>7, <1>8, <1>9, <2>4
  <2> QED BY <2>1, <2>2, <2>3, <2>4
<1>10. Once(type, u)
  BY <1>9 DEF Once
<1> QED BY <1>10 DEF u

LEMMA RefsOnce ==
    ASSUME NEW type, NEW content, IsSeq(content)
    PROVE  IsInjective(Refs(type, content)) <=> Once(type, content)
<1> DEFINE piece(i) == IF content[i].type = type THEN <<content[i].ref>> ELSE <<>>
<1> DEFINE s == [i \in DOMAIN content |-> piece(i)]
<1> DEFINE t == Joined(s)
<1>1. Len(content) \in Nat /\ DOMAIN content = 1..Len(content)
  BY SeqShape
<1>2. Refs(type, content) = t
  BY DEF Refs
<1>3. \A i \in DOMAIN content :
        /\ IsSeq(piece(i)) /\ Len(piece(i)) <= 1
        /\ Len(piece(i)) # 0 <=> content[i].type = type
        /\ content[i].type = type => piece(i)[1] = content[i].ref
  <2> TAKE i \in DOMAIN content
  <2>1. CASE content[i].type = type
    BY <2>1, OneShape
  <2>2. CASE content[i].type # type
    BY <2>2, EmptyShape
  <2> QED BY <2>1, <2>2
<1>4. s = [i \in 1..Len(content) |-> s[i]] /\ \A i \in DOMAIN content : s[i] = piece(i)
  BY <1>1
<1> HIDE DEF piece, s
<1>5. AreSeqs(s) /\ Len(s) = Len(content)
  BY <1>1, <1>3, <1>4, MapJoined
<1>6. PICK at : Picks(t, s, Len(content), at)
  <2>1. \A i \in 1..Len(s) : Len(s[i]) <= 1
    BY <1>1, <1>3, <1>4, <1>5
  <2> QED BY <1>5, <2>1, JoinedPicks
<1>7. IsSeq(t) /\ DOMAIN t = 1..Len(t)
  BY <1>6, SeqShape DEF Picks
<1> HIDE DEF t
<1>8. \A p \in DOMAIN t : at[p] \in DOMAIN content /\ content[at[p]].type = type
                            /\ t[p] = content[at[p]].ref
  <2> TAKE p \in DOMAIN t
  <2>1. /\ at[p] \in 1..Len(content) /\ Len(s[at[p]]) = 1 /\ s[at[p]][1] = t[p]
    BY <1>6, <1>7 DEF Picks
  <2>2. s[at[p]] = piece(at[p])
    BY <1>1, <1>4, <2>1
  <2> QED BY <1>1, <1>3, <2>1, <2>2
<1>9. \A p, q \in DOMAIN t : at[p] = at[q] => p = q
  BY <1>1, <1>6, <1>7, PickedOnce
<1>10. \A i \in DOMAIN content : content[i].type = type => \E p \in DOMAIN t : at[p] = i
  BY <1>1, <1>3, <1>4, <1>6, <1>7 DEF Picks
<1>11. Once(type, content) => IsInjective(t)
  BY <1>8, <1>9 DEF Once, IsInjective
<1>12. ASSUME IsInjective(t) PROVE Once(type, content)
  <2> SUFFICES ASSUME NEW k \in DOMAIN content, NEW l \in DOMAIN content,
                      content[k].type = type, content[l].type = type,
                      content[k].ref = content[l].ref
               PROVE  k = l
    BY DEF Once
  <2>1. PICK p \in DOMAIN t : at[p] = k
    BY <1>10
  <2>2. PICK q \in DOMAIN t : at[q] = l
    BY <1>10
  <2>3. p = q
    BY <1>8, <1>12, <2>1, <2>2 DEF IsInjective
  <2> QED BY <2>1, <2>2, <2>3
<1> QED BY <1>2, <1>11, <1>12

------------------------------------------------------------------------------
(* normalizeForIrPaths() for strict upstreams: calls and results in pairs.     *)

\* No call is made twice in a turn, and results are in the client's blocks.
SoundTurn(m) ==
    /\ TypedMessage(m)
    /\ m.role \in {"user", "assistant", "system"}
    /\ Once("tool_use", m.content)
    /\ \A b \in Range(m.content) :
           /\ b.type \in {"tool_use", "tool_result"} => b.ref \in Calls
           /\ b.type = "tool_result" => m.role = "user" /\ ~m.flat
SoundTurns(asked) == IsSeq(asked) /\ \A i \in DOMAIN asked : SoundTurn(asked[i])

Uses(m) == Referred("tool_use", m.content)
Brings(m) == Referred("tool_result", m.content)

\* A turn that is passed on.
Neat(m) == SoundTurn(m) /\ m.role # "system" /\ Once("tool_result", m.content)

\* Results come in the turn after calls.
Orderly(messages) ==
    /\ IsSeq(messages)
    /\ \A i \in DOMAIN messages :
           /\ Neat(messages[i])
           /\ Brings(messages[i]) # {} => i > 1 /\ Uses(messages[i - 1]) # {}

\* And they are those of the calls.
Strict(messages) ==
    /\ Orderly(messages)
    /\ \A i \in DOMAIN messages : Uses(messages[i]) # {} =>
           i + 1 \in DOMAIN messages /\ Brings(messages[i + 1]) = Uses(messages[i])

LEMMA PendingIff ==
    ASSUME NEW m, TypedMessage(m)
    PROVE  HasPending(m) <=> Uses(m) # {}
BY DEF HasPending, Uses, Referred, Range, TypedMessage

LEMMA ReferredOnly ==
    ASSUME NEW type, NEW content, IsSeq(content), NEW S
    PROVE  Referred(type, Only(content, S)) = {b.ref : b \in {x \in Range(content) \cap S : x.type = type}}
BY OnlyOf DEF Referred

LEMMA KeptNeat ==
    ASSUME NEW m, SoundTurn(m), m.role # "system", Once("tool_result", m.content),
           NEW q, q = Kept(m)
    PROVE  /\ IsSeq(q) /\ Len(q) <= 1
           /\ Len(q) # 0 => Neat(q[1]) /\ Brings(q[1]) \subseteq Brings(m)
           /\ Uses(m) # {} => Len(q) # 0 /\ Uses(q[1]) # {}
<1> DEFINE S == {b \in Range(m.content) : ~isEmptyTextBlock(b)}
<1> DEFINE content == Only(m.content, S)
<1> DEFINE own == Message(m.role, m.flat, content)
<1>1. q = IF content = <<>> THEN <<>> ELSE <<own>>
  BY DEF Kept, stripEmptyBlocks
<1>2. IsSeq(m.content)
  BY DEF SoundTurn, TypedMessage
<1>3. IsSeq(content) /\ Range(content) = S
  <2>1. Range(m.content) \cap S = S
    OBVIOUS
  <2> HIDE DEF S
  <2> QED BY <1>2, <2>1, OnlyOf
<1>4. Once("tool_use", content) /\ Once("tool_result", content)
  <2> HIDE DEF S
  <2> QED BY <1>2, OnlyOnce DEF SoundTurn
<1>5. S \subseteq Range(m.content) /\ \A b \in Range(m.content) : b.type = "tool_use" => b \in S
  BY DEF isEmptyTextBlock
<1> HIDE DEF S, content
<1>6. own.role = m.role /\ own.flat = m.flat /\ own.content = content
  BY DEF Message
<1> HIDE DEF own
<1>7. Neat(own)
  BY <1>3, <1>4, <1>5, <1>6 DEF Neat, SoundTurn, TypedMessage
<1>8. Brings(own) \subseteq Brings(m)
  BY <1>3, <1>5, <1>6 DEF Brings, Referred
<1>9. Uses(m) # {} => Uses(own) # {} /\ content # <<>>
  <2> SUFFICES ASSUME Uses(m) # {} PROVE Uses(own) # {} /\ content # <<>>
    OBVIOUS
  <2>1. PICK b \in Range(m.content) : b.type = "tool_use"
    BY DEF Uses, Referred
  <2>2. b \in Range(content)
    BY <1>3, <1>5, <2>1
  <2>3. content # <<>>
    BY <1>3, <2>2, EmptyRange
  <2> QED BY <1>6, <2>1, <2>2, <2>3 DEF Uses, Referred
<1>10. CASE content = <<>>
  <2>1. q = <<>>
    BY <1>1, <1>10
  <2>2. IsSeq(q) /\ Len(q) = 0
    BY <2>1, EmptyShape
  <2> QED BY <1>9, <1>10, <2>2
<1>11. CASE content # <<>>
  <2>1. q = <<own>>
    BY <1>1, <1>11
  <2>2. IsSeq(q) /\ Len(q) = 1 /\ q[1] = own
    BY <2>1, OneShape
  <2> QED BY <1>7, <1>8, <1>9, <2>2
<1> QED BY <1>10, <1>11

LEMMA DemotedNeat ==
    ASSUME NEW m, SoundTurn(m), NEW q, q = Demoted(m)
    PROVE  /\ IsSeq(q) /\ Len(q) <= 1
           /\ Len(q) # 0 => Neat(q[1]) /\ Brings(q[1]) = {}
<1> DEFINE block == Text(messageText(m.content))
<1> DEFINE own == Message("user", TRUE, <<block>>)
<1>1. q = IF messageText(m.content) = <<>> THEN <<>> ELSE <<own>>
  BY DEF Demoted
<1>2. block.type = "text" /\ IsSeq(block.says)
  <2>1. IsSeq(messageText(m.content))
    BY SaysAre DEF messageText, SoundTurn, TypedMessage
  <2> QED BY <2>1 DEF Text, Block
<1> HIDE DEF block
<1>3. IsSeq(<<block>>) /\ Range(<<block>>) = {block}
  BY OneShape
<1>4. own.role = "user" /\ own.flat = TRUE /\ own.content = <<block>>
  BY DEF Message
<1> HIDE DEF own
<1>5. \A b \in Range(own.content) : b = block
  BY <1>3, <1>4
<1>6. Once("tool_use", own.content) /\ Once("tool_result", own.content)
  BY <1>2, <1>5 DEF Once, Range
<1>7. TypedMessage(own)
  BY <1>2, <1>3, <1>4, <1>5 DEF TypedMessage
<1>8. Neat(own) /\ Brings(own) = {}
  BY <1>2, <1>4, <1>5, <1>6, <1>7 DEF Neat, SoundTurn, Brings, Referred
<1>9. CASE messageText(m.content) = <<>>
  <2>1. IsSeq(q) /\ Len(q) = 0
    BY <1>1, <1>9, EmptyShape
  <2> QED BY <2>1
<1>10. CASE messageText(m.content) # <<>>
  <2>1. IsSeq(q) /\ Len(q) = 1 /\ q[1] = own
    BY <1>1, <1>10, OneShape
  <2> QED BY <1>8, <2>1
<1> QED BY <1>9, <1>10

LEMMA ConversationalOrderly ==
    ASSUME NEW asked, SoundTurns(asked),
           \A i \in DOMAIN asked : /\ Once("tool_result", asked[i].content)
                                   /\ Brings(asked[i]) # {} => i > 1 /\ Uses(asked[i - 1]) # {}
    PROVE  Orderly(Conversational(asked))
<1> DEFINE piece(i) ==
        IF Hoisted(asked, i) THEN <<>>
        ELSE IF asked[i].role = "system" THEN Demoted(asked[i])
        ELSE Kept(asked[i])
<1> DEFINE s == [i \in DOMAIN asked |-> piece(i)]
<1> DEFINE c == Joined(s)
<1>1. /\ Len(asked) \in Nat /\ DOMAIN asked = 1..Len(asked)
      /\ \A i \in DOMAIN asked : SoundTurn(asked[i])
  BY SeqShape DEF SoundTurns
<1>2. Conversational(asked) = c
  BY DEF Conversational
<1>3. \A i \in DOMAIN asked :
        /\ IsSeq(piece(i)) /\ Len(piece(i)) <= 1
        /\ Len(piece(i)) # 0 => Neat(piece(i)[1]) /\ Brings(piece(i)[1]) \subseteq Brings(asked[i])
        /\ Uses(asked[i]) # {} => Len(piece(i)) # 0 /\ Uses(piece(i)[1]) # {}
  <2> TAKE i \in DOMAIN asked
  <2>1. Uses(asked[i]) # {} => asked[i].role = "assistant"
    BY <1>1 DEF Uses, Referred, SoundTurn, TypedMessage
  <2>2. CASE Hoisted(asked, i)
    <3>1. IsSeq(piece(i)) /\ Len(piece(i)) = 0
      BY <2>2, EmptyShape
    <3>2. asked[i].role = "system"
      BY <2>2 DEF Hoisted
    <3> QED BY <2>1, <3>1, <3>2
  <2>3. CASE ~Hoisted(asked, i) /\ asked[i].role = "system"
    <3>1. piece(i) = Demoted(asked[i])
      BY <2>3
    <3> HIDE DEF piece
    <3>2. IsSeq(piece(i)) /\ Len(piece(i)) <= 1
            /\ (Len(piece(i)) # 0 => Neat(piece(i)[1]) /\ Brings(piece(i)[1]) = {})
      BY <1>1, <3>1, DemotedNeat
    <3> QED BY <2>1, <2>3, <3>2
  <2>4. CASE ~Hoisted(asked, i) /\ asked[i].role # "system"
    <3>1. piece(i) = Kept(asked[i])
      BY <2>4
    <3> HIDE DEF piece
    <3> QED BY <1>1, <2>4, <3>1, KeptNeat
  <2> QED BY <2>2, <2>3, <2>4
<1>4. s = [i \in 1..Len(asked) |-> s[i]] /\ \A i \in DOMAIN asked : s[i] = piece(i)
  BY <1>1
<1> HIDE DEF piece, s
<1>5. AreSeqs(s) /\ Len(s) = Len(asked)
  BY <1>1, <1>3, <1>4, MapJoined
<1>6. PICK at : Picks(c, s, Len(asked), at)
  <2>1. \A i \in 1..Len(s) : Len(s[i]) <= 1
    BY <1>1, <1>3, <1>4, <1>5
  <2> QED BY <1>5, <2>1, JoinedPicks
<1> HIDE DEF c
<1>7. IsSeq(c) /\ DOMAIN c = 1..Len(c)
  BY <1>6, SeqShape DEF Picks
<1>8. \A p \in DOMAIN c : /\ at[p] \in DOMAIN asked /\ at[p] \in 1..Len(asked)
                          /\ Len(piece(at[p])) # 0 /\ c[p] = piece(at[p])[1]
  <2> TAKE p \in DOMAIN c
  <2>1. /\ at[p] \in 1..Len(asked) /\ Len(s[at[p]]) = 1 /\ s[at[p]][1] = c[p]
    BY <1>6, <1>7 DEF Picks
  <2>2. s[at[p]] = piece(at[p])
    BY <1>1, <1>4, <2>1
  <2> QED BY <1>1, <2>1, <2>2
<1>9. ASSUME NEW p \in DOMAIN c
      PROVE  Neat(c[p]) /\ (Brings(c[p]) # {} => p > 1 /\ Uses(c[p - 1]) # {})
  <2> DEFINE i == at[p]
  <2>1. i \in DOMAIN asked /\ Neat(c[p]) /\ Brings(c[p]) \subseteq Brings(asked[i])
    BY <1>3, <1>8
  <2>2. ASSUME Brings(c[p]) # {} PROVE p > 1 /\ Uses(c[p - 1]) # {}
    <3>1. i > 1 /\ Uses(asked[i - 1]) # {}
      BY <2>1, <2>2
    <3>2. i - 1 \in DOMAIN asked
      BY <1>1, <2>1, <3>1
    <3>3. Len(piece(i - 1)) # 0 /\ Uses(piece(i - 1)[1]) # {}
      BY <1>3, <3>1, <3>2
    <3>4. Len(s[i - 1]) # 0
      BY <1>4, <3>2, <3>3
    <3>5. p > 1 /\ at[p - 1] = i - 1
      BY <1>1, <1>6, <1>7, <3>1, <3>4, PickedBefore
    <3>6. p - 1 \in DOMAIN c
      BY <1>7, <3>5
    <3>7. c[p - 1] = piece(i - 1)[1]
      BY <1>8, <3>5, <3>6
    <3> QED BY <3>3, <3>5, <3>7
  <2> QED BY <2>1, <2>2
<1> QED BY <1>2, <1>7, <1>9 DEF Orderly

------------------------------------------------------------------------------
(* reconcileToolBlocks() pairs calls and results.                              *)

LEMMA AnswerStrict ==
    ASSUME NEW pending, IsSeq(pending), IsInjective(pending), Range(pending) \subseteq Calls,
           NEW content, IsSeq(content), Once("tool_result", content),
           \A b \in Range(content) : b.type # "tool_use" /\ IsSeq(b.says),
           NEW a, a = Answer(pending, content)
    PROVE  Neat(a) /\ Uses(a) = {} /\ Brings(a) = Range(pending)
<1> DEFINE pruned == Pruned(pending, content)
<1> DEFINE missing == Missing(pending, pruned)
<1> DEFINE synthetic == syntheticToolResults(missing)
<1>1. a = Message("user", FALSE, synthetic \o pruned)
  BY DEF Answer
<1>2. /\ IsSeq(pruned) /\ Range(pruned) \subseteq Range(content)
      /\ Once("tool_result", pruned)
      /\ \A b \in Range(pruned) : b.type = "tool_result" => b.ref \in Range(pending)
  BY OnlyOf, OnlyOnce DEF Pruned
<1> HIDE DEF pruned
<1>3. /\ IsSeq(missing) /\ IsInjective(missing)
      /\ Range(missing) = Range(pending) \ Referred("tool_result", pruned)
  <2>1. Range(toolResultIds(pruned)) = Referred("tool_result", pruned)
    BY <1>2, RefsAre DEF toolResultIds
  <2>2. IsSeq(missing) /\ Range(missing) = Range(pending) \cap (Range(pending) \ Range(toolResultIds(pruned)))
    BY OnlyOf DEF Missing
  <2>3. IsInjective(missing)
    BY OnlyInjective DEF Missing
  <2> QED BY <2>1, <2>2, <2>3
<1> HIDE DEF missing
<1>4. IsSeq(synthetic) /\ DOMAIN synthetic = DOMAIN missing
  <2>1. Len(missing) \in Nat /\ DOMAIN missing = 1..Len(missing)
    BY <1>3, SeqShape
  <2>2. synthetic = [i \in 1..Len(missing) |-> synthetic[i]]
    BY <2>1 DEF syntheticToolResults
  <2>3. IsSeq(synthetic)
    <3> HIDE DEF synthetic
    <3> QED BY <2>1, <2>2, FunShape
  <2> QED BY <2>3 DEF syntheticToolResults
<1>5. \A i \in DOMAIN missing : synthetic[i] = Result(missing[i], Ours)
  BY <1>4 DEF syntheticToolResults
<1> HIDE DEF synthetic
<1>6. \A i \in DOMAIN synthetic :
        synthetic[i].type = "tool_result" /\ synthetic[i].ref = missing[i] /\ IsSeq(synthetic[i].says)
  <2>1. IsSeq(Ours)
    BY OneShape DEF Ours
  <2> QED BY <1>4, <1>5, <2>1 DEF Result, Block
<1>7. Referred("tool_result", synthetic) = Range(missing)
  BY <1>4, <1>6 DEF Referred, Range
<1>8. Once("tool_result", synthetic)
  BY <1>3, <1>4, <1>6 DEF Once, IsInjective
<1> DEFINE both == synthetic \o pruned
<1>9. IsSeq(both) /\ Range(both) = Range(synthetic) \cup Range(pruned)
  BY <1>2, <1>4, ConcatRange
<1>10. Once("tool_result", both)
  <2>1. Referred("tool_result", synthetic) \cap Referred("tool_result", pruned) = {}
    BY <1>3, <1>7
  <2> QED BY <1>2, <1>4, <1>8, <2>1, ConcatOnce
<1> HIDE DEF both
<1>11. a.role = "user" /\ a.flat = FALSE /\ a.content = both
  BY <1>1 DEF Message, both
<1>12. \A b \in Range(synthetic) : b.type = "tool_result" /\ b.ref \in Range(pending) /\ IsSeq(b.says)
  BY <1>3, <1>4, <1>6 DEF Range
<1>13. \A b \in Range(both) :
         /\ b.type # "tool_use" /\ IsSeq(b.says)
         /\ b.type = "tool_result" => b.ref \in Range(pending)
  BY <1>2, <1>9, <1>12
<1>14. Uses(a) = {}
  BY <1>11, <1>13 DEF Uses, Referred
<1>15. Once("tool_use", a.content)
  BY <1>11, <1>13 DEF Once, Range
<1>16. Brings(a) = Range(pending)
  <2>1. Brings(a) = Referred("tool_result", synthetic) \cup Referred("tool_result", pruned)
    BY <1>9, <1>11 DEF Brings, Referred
  <2>2. Referred("tool_result", pruned) \subseteq Range(pending)
    BY <1>2 DEF Referred
  <2> QED BY <1>3, <1>7, <2>1, <2>2
<1>17. TypedMessage(a)
  BY <1>9, <1>11, <1>13 DEF TypedMessage
<1>18. Neat(a)
  BY <1>10, <1>11, <1>13, <1>15, <1>17 DEF Neat, SoundTurn
<1> QED BY <1>14, <1>16, <1>18

LEMMA ReconciledStrict ==
    ASSUME NEW c, Orderly(c)
    PROVE  Strict(reconcileToolBlocks(c))
<1> DEFINE given(i) == IF Answering(c, i + 1) THEN c[i + 1].content ELSE <<>>
<1> DEFINE answer(i) == Answer(Pending(c[i]), given(i))
<1> DEFINE piece(i) ==
        IF Answering(c, i) THEN <<>>
        ELSE IF ~HasPending(c[i]) THEN <<c[i]>>
        ELSE <<c[i], answer(i)>>
<1> DEFINE s == [i \in DOMAIN c |-> piece(i)]
<1>1. Len(c) \in Nat /\ DOMAIN c = 1..Len(c) /\ \A i \in DOMAIN c : Neat(c[i])
  BY SeqShape DEF Orderly
<1>2. reconcileToolBlocks(c) = Joined(s)
  BY DEF reconcileToolBlocks
<1>3. \A i \in DOMAIN c : /\ IsSeq(given(i)) /\ Once("tool_result", given(i))
                          /\ \A b \in Range(given(i)) : b.type # "tool_use" /\ IsSeq(b.says)
  <2> TAKE i \in DOMAIN c
  <2>1. CASE Answering(c, i + 1)
    <3>1. i + 1 \in DOMAIN c /\ c[i + 1].role = "user" /\ given(i) = c[i + 1].content
      BY <2>1 DEF Answering
    <3> HIDE DEF given
    <3> QED BY <1>1, <3>1 DEF Neat, SoundTurn, TypedMessage
  <2>2. CASE ~Answering(c, i + 1)
    <3>1. given(i) = <<>>
      BY <2>2
    <3>2. IsSeq(<<>>) /\ DOMAIN <<>> = {} /\ Range(<<>>) = {}
      BY EmptyShape, EmptyRange
    <3> HIDE DEF given
    <3> QED BY <3>1, <3>2 DEF Once
  <2> QED BY <2>1, <2>2
<1> HIDE DEF given
<1>4. \A i \in DOMAIN c : Neat(answer(i)) /\ Uses(answer(i)) = {} /\ Brings(answer(i)) = Uses(c[i])
  <2> TAKE i \in DOMAIN c
  <2>1. TypedMessage(c[i]) /\ IsSeq(c[i].content) /\ Once("tool_use", c[i].content)
    BY <1>1 DEF Neat, SoundTurn, TypedMessage
  <2>2. IsSeq(Pending(c[i])) /\ Range(Pending(c[i])) = Uses(c[i])
    BY <2>1, PendingAre DEF Uses
  <2>3. IsInjective(Pending(c[i]))
    <3>1. IsInjective(Refs("tool_use", c[i].content))
      BY <2>1, RefsOnce
    <3>2. IsInjective(<<>>)
      BY EmptyShape DEF IsInjective
    <3>3. Pending(c[i]) = Refs("tool_use", c[i].content) \/ Pending(c[i]) = <<>>
      BY DEF Pending, toolUseIds
    <3> QED BY <3>1, <3>2, <3>3
  <2>4. Uses(c[i]) \subseteq Calls
    BY <1>1 DEF Uses, Referred, Neat, SoundTurn
  <2> DEFINE a == answer(i)
  <2>5. a = Answer(Pending(c[i]), given(i))
    OBVIOUS
  <2> HIDE DEF a
  <2>6. Neat(a) /\ Uses(a) = {} /\ Brings(a) = Range(Pending(c[i]))
    BY <1>3, <2>2, <2>3, <2>4, <2>5, AnswerStrict
  <2> QED BY <2>2, <2>6 DEF a
<1> HIDE DEF answer
<1>5. \A i \in DOMAIN c : IsSeq(piece(i))
  BY EmptyShape, OneShape, PairShape
<1>6. s = [i \in 1..Len(c) |-> s[i]] /\ \A i \in DOMAIN c : s[i] = piece(i)
  BY <1>1
<1>7. \A i \in DOMAIN c : \A j \in 1..Len(piece(i)) :
        \/ piece(i)[j] = c[i] /\ Uses(c[i]) = {} /\ Brings(c[i]) = {}
        \/ /\ piece(i)[j] = c[i] /\ Brings(c[i]) = {}
           /\ j + 1 \in 1..Len(piece(i)) /\ piece(i)[j + 1] = answer(i)
        \/ /\ piece(i)[j] = answer(i) /\ Uses(c[i]) # {}
           /\ j - 1 \in 1..Len(piece(i)) /\ piece(i)[j - 1] = c[i]
  <2> TAKE i \in DOMAIN c
  <2> TAKE j \in 1..Len(piece(i))
  <2>0. TypedMessage(c[i]) /\ SoundTurn(c[i])
    BY <1>1 DEF Neat, SoundTurn
  <2>4. HasPending(c[i]) <=> Uses(c[i]) # {}
    BY <2>0, PendingIff
  <2>1. CASE Answering(c, i)
    <3>1. piece(i) = <<>>
      BY <2>1
    <3> HIDE DEF piece
    <3> QED BY <3>1, EmptyShape
  <2>2. CASE ~Answering(c, i) /\ ~HasPending(c[i])
    <3>1. piece(i) = <<c[i]>>
      BY <2>2
    <3>2. j = 1 /\ piece(i)[j] = c[i]
      BY <3>1, OneShape
    <3>3. Brings(c[i]) = {}
      <4> SUFFICES ASSUME Brings(c[i]) # {} PROVE FALSE
        OBVIOUS
      <4>1. i > 1 /\ Uses(c[i - 1]) # {}
        BY DEF Orderly
      <4>2. i - 1 \in DOMAIN c
        BY <1>1, <4>1
      <4>3. TypedMessage(c[i - 1])
        BY <1>1, <4>2 DEF Neat, SoundTurn
      <4>4. HasPending(c[i - 1])
        BY <4>1, <4>3, PendingIff
      <4>5. c[i].role = "user" /\ ~c[i].flat
        BY <2>0 DEF Brings, Referred, SoundTurn
      <4> QED BY <2>2, <4>1, <4>4, <4>5 DEF Answering
    <3> QED BY <2>2, <2>4, <3>2, <3>3
  <2>3. CASE ~Answering(c, i) /\ HasPending(c[i])
    <3>1. piece(i) = <<c[i], answer(i)>>
      BY <2>3
    <3> HIDE DEF piece
    <3>2. Len(piece(i)) = 2 /\ piece(i)[1] = c[i] /\ piece(i)[2] = answer(i)
      BY <3>1, PairShape
    <3>3. c[i].role = "assistant"
      BY <2>3 DEF HasPending
    <3>4. Brings(c[i]) = {}
      BY <2>0, <3>3 DEF Brings, Referred, SoundTurn
    <3>5. j = 1 \/ j = 2
      BY <3>2
    <3> QED BY <2>3, <2>4, <3>2, <3>4, <3>5
  <2> QED BY <2>1, <2>2, <2>3
<1> HIDE DEF piece, s
<1>8. AreSeqs(s) /\ Len(s) = Len(c) /\ IsSeq(Joined(s))
  BY <1>1, <1>5, <1>6, MapJoined
<1> DEFINE r == Joined(s)
<1>9. PICK off : Placed(s, Len(c), r, off)
  BY <1>8, JoinedPlaced
<1>10. IsSeq(r) /\ Len(r) \in Nat /\ DOMAIN r = 1..Len(r)
  BY <1>8, SeqShape
<1> HIDE DEF r
<1>11. ASSUME NEW k \in DOMAIN r
       PROVE  /\ Neat(r[k])
              /\ Brings(r[k]) # {} => k > 1 /\ Uses(r[k - 1]) # {}
              /\ Uses(r[k]) # {} => k + 1 \in DOMAIN r /\ Brings(r[k + 1]) = Uses(r[k])
  <2>10. k \in 1..Len(r)
    BY <1>10
  <2>11. \E i \in 1..Len(c) : \E j \in 1..Len(s[i]) : k = off[i] + j
    BY <1>9, <2>10 DEF Placed
  <2>1. PICK i \in DOMAIN c : \E j \in 1..Len(s[i]) : k = off[i] + j
    BY <1>1, <2>11
  <2>2. PICK j \in 1..Len(s[i]) : k = off[i] + j
    BY <2>1
  <2>3. \A h \in 1..Len(piece(i)) : off[i] + h \in DOMAIN r /\ r[off[i] + h] = piece(i)[h]
    <3>1. i \in 1..Len(c) /\ s[i] = piece(i)
      BY <1>1, <1>6
    <3>2. \A h \in 1..Len(s[i]) : off[i] + h \in 1..Len(r) /\ r[off[i] + h] = s[i][h]
      BY <1>9, <3>1 DEF Placed
    <3> QED BY <1>10, <3>1, <3>2
  <2>4. j \in 1..Len(piece(i)) /\ r[k] = piece(i)[j]
    BY <1>6, <2>2, <2>3
  <2>5. off[i] \in Nat /\ j \in Nat
    BY <1>1, <1>9, <2>2 DEF Placed
  <2>6. CASE r[k] = c[i] /\ Uses(c[i]) = {} /\ Brings(c[i]) = {}
    BY <1>1, <2>6
  <2>7. CASE /\ r[k] = answer(i) /\ Uses(c[i]) # {}
             /\ j - 1 \in 1..Len(piece(i)) /\ piece(i)[j - 1] = c[i]
    <3>1. off[i] + (j - 1) = k - 1
      BY <2>2, <2>5
    <3>2. k - 1 \in DOMAIN r /\ r[k - 1] = c[i]
      BY <2>3, <2>7, <3>1
    <3>3. k > 1
      BY <1>10, <3>2
    <3> QED BY <1>4, <2>7, <3>2, <3>3
  <2>8. CASE /\ r[k] = c[i] /\ Brings(c[i]) = {}
             /\ j + 1 \in 1..Len(piece(i)) /\ piece(i)[j + 1] = answer(i)
    <3>1. off[i] + (j + 1) = k + 1
      BY <2>2, <2>5
    <3>2. k + 1 \in DOMAIN r /\ r[k + 1] = answer(i)
      BY <2>3, <2>8, <3>1
    <3> QED BY <1>1, <1>4, <2>8, <3>2
  <2> QED BY <1>7, <2>4, <2>6, <2>7, <2>8
<1>12. Strict(r)
  BY <1>10, <1>11 DEF Strict, Orderly
<1> QED BY <1>2, <1>12 DEF r

------------------------------------------------------------------------------
(* The OpenAI wires: one tool message for each call, after the message that makes it. *)

LEMMA ToolMessagesOnce ==
    ASSUME NEW content, IsSeq(content), Once("tool_result", content),
           \A b \in Range(content) : b.type = "tool_result" => b.ref \in Calls,
           NEW results, results = ToolMessages(content)
    PROVE  /\ IsSeq(results)
           /\ \A d \in 1..Len(results) : results[d].role = "tool" /\ results[d].calls = <<>>
           /\ \A d, e \in 1..Len(results) : results[d].for = results[e].for => d = e
           /\ \A d \in 1..Len(results) :
                  \E c \in Referred("tool_result", content) : results[d].for = Sanitized[c]
           /\ \A c \in Referred("tool_result", content) :
                  \E d \in 1..Len(results) : results[d].for = Sanitized[c]
<1> DEFINE one(i) == OpenAIMessage("tool", content[i].says, <<>>, <<>>, SanitizeResult(content[i].ref))
<1> DEFINE piece(i) == IF content[i].type = "tool_result" THEN <<one(i)>> ELSE <<>>
<1> DEFINE s == [i \in DOMAIN content |-> piece(i)]
<1>1. Len(content) \in Nat /\ DOMAIN content = 1..Len(content)
  BY SeqShape
<1>2. results = Joined(s)
  BY DEF ToolMessages
<1>3. \A i \in DOMAIN content :
        one(i).role = "tool" /\ one(i).calls = <<>> /\ one(i).for = Sanitized[content[i].ref]
  BY DEF OpenAIMessage, SanitizeResult
<1> HIDE DEF one
<1>4. \A i \in DOMAIN content :
        /\ IsSeq(piece(i)) /\ Len(piece(i)) <= 1
        /\ Len(piece(i)) # 0 <=> content[i].type = "tool_result"
        /\ content[i].type = "tool_result" => piece(i)[1] = one(i)
  <2> TAKE i \in DOMAIN content
  <2>1. CASE content[i].type = "tool_result"
    BY <2>1, OneShape
  <2>2. CASE content[i].type # "tool_result"
    BY <2>2, EmptyShape
  <2> QED BY <2>1, <2>2
<1>5. s = [i \in 1..Len(content) |-> s[i]] /\ \A i \in DOMAIN content : s[i] = piece(i)
  BY <1>1
<1> HIDE DEF piece, s
<1>6. AreSeqs(s) /\ Len(s) = Len(content)
  BY <1>1, <1>4, <1>5, MapJoined
<1>7. PICK at : Picks(results, s, Len(content), at)
  <2>1. \A i \in 1..Len(s) : Len(s[i]) <= 1
    BY <1>1, <1>4, <1>5, <1>6
  <2> QED BY <1>2, <1>6, <2>1, JoinedPicks
<1>8. \A d \in 1..Len(results) : /\ at[d] \in DOMAIN content /\ content[at[d]].type = "tool_result"
                                 /\ results[d] = one(at[d])
  <2> TAKE d \in 1..Len(results)
  <2>1. /\ at[d] \in 1..Len(content) /\ Len(s[at[d]]) = 1 /\ s[at[d]][1] = results[d]
    BY <1>7 DEF Picks
  <2>2. s[at[d]] = piece(at[d])
    BY <1>1, <1>5, <2>1
  <2> QED BY <1>1, <1>4, <2>1, <2>2
<1>9. \A d, e \in 1..Len(results) : at[d] = at[e] => d = e
  BY <1>1, <1>7, PickedOnce
<1>10. \A i \in DOMAIN content : content[i].type = "tool_result" => \E d \in 1..Len(results) : at[d] = i
  BY <1>1, <1>4, <1>5, <1>7 DEF Picks
<1>11. IsSeq(results)
  BY <1>7 DEF Picks
<1>12. \A d \in 1..Len(results) :
         results[d].role = "tool" /\ results[d].calls = <<>> /\ results[d].for = Sanitized[content[at[d]].ref]
  BY <1>3, <1>8
<1>13. ASSUME NEW d \in 1..Len(results), NEW e \in 1..Len(results), results[d].for = results[e].for
       PROVE  d = e
  <2>1. content[at[d]].ref \in Calls /\ content[at[e]].ref \in Calls
    BY <1>8 DEF Range
  <2>2. content[at[d]].ref = content[at[e]].ref
    BY <1>12, <1>13, <2>1, TranslationAssumption
  <2>3. at[d] = at[e]
    BY <1>8, <2>2 DEF Once
  <2> QED BY <1>9, <2>3
<1>14. ASSUME NEW d \in 1..Len(results)
       PROVE  \E c \in Referred("tool_result", content) : results[d].for = Sanitized[c]
  <2>1. content[at[d]].ref \in Referred("tool_result", content)
    BY <1>8 DEF Referred, Range
  <2> QED BY <1>12, <2>1
<1>15. ASSUME NEW c \in Referred("tool_result", content)
       PROVE  \E d \in 1..Len(results) : results[d].for = Sanitized[c]
  <2>1. PICK i \in DOMAIN content : content[i].type = "tool_result" /\ content[i].ref = c
    BY DEF Referred, Range
  <2>2. PICK d \in 1..Len(results) : at[d] = i
    BY <1>10, <2>1
  <2> QED BY <1>12, <2>1, <2>2
<1> QED BY <1>11, <1>12, <1>13, <1>14, <1>15

LEMMA ToolCallsOnce ==
    ASSUME NEW content, IsSeq(content), Once("tool_use", content),
           \A b \in Range(content) : b.type = "tool_use" => b.ref \in Calls
    PROVE  IsInjective(ToolCalls(content))
<1> DEFINE ids == Refs("tool_use", content)
<1>1. IsSeq(ids) /\ Range(ids) = Referred("tool_use", content) /\ IsInjective(ids)
  BY RefsAre, RefsOnce
<1>2. ToolCalls(content) = [i \in DOMAIN ids |-> Sanitized[ids[i]]]
  BY DEF ToolCalls
<1>3. Range(ids) \subseteq Calls
  BY <1>1 DEF Referred
<1> HIDE DEF ids
<1>4. \A i \in DOMAIN ids : ids[i] \in Calls
  BY <1>3 DEF Range
<1> QED BY <1>1, <1>2, <1>4, TranslationAssumption DEF IsInjective

\* What a message with calls becomes, and what any other.
LEMMA PieceStrict ==
    ASSUME NEW wire, NEW m, Neat(m),
           NEW p, p = anthropicMessageToOpenAI(wire, m),
           NEW results, results = ToolMessages(m.content)
    PROVE  /\ IsSeq(p)
           /\ Uses(m) # {} =>
                /\ Brings(m) = {} /\ Len(p) = 1 /\ p[1].role # "tool"
                /\ p[1].calls = ToolCalls(m.content) /\ p[1].calls # <<>>
           /\ Uses(m) = {} =>
                /\ Len(p) = Len(results) \/ Len(p) = Len(results) + 1
                /\ Len(results) = 0 => Len(p) = 1
                /\ \A d \in 1..Len(results) : p[d] = results[d]
                /\ \A d \in 1..Len(p) : d > Len(results) => p[d].role # "tool" /\ p[d].calls = <<>>
<1> DEFINE calls == ToolCalls(m.content)
<1> DEFINE own(of) == OpenAIMessage(m.role, Parts(m.content), Reasoning(wire, m), of, Nobody)
<1> DEFINE plain == own(<<>>)
<1> DEFINE caller == own(calls)
<1>1. IsSeq(m.content) /\ m.role \in {"user", "assistant"}
  BY DEF Neat, SoundTurn, TypedMessage
<1>2. IsSeq(calls) /\ Range(calls) = {Sanitized[c] : c \in Uses(m)}
  BY <1>1, ToolCallsAre DEF Uses
<1>3. calls = <<>> <=> Uses(m) = {}
  <2> HIDE DEF calls
  <2> QED BY <1>2, EmptyRange
<1>4. Uses(m) # {} => m.role = "assistant" /\ Brings(m) = {}
  BY DEF Uses, Brings, Referred, Neat, SoundTurn, TypedMessage
<1>5. IsSeq(results) /\ \A d \in 1..Len(results) : Brings(m) # {}
  <2>1. /\ Once("tool_result", m.content)
        /\ \A b \in Range(m.content) : b.type = "tool_result" => b.ref \in Calls
    BY DEF Neat, SoundTurn
  <2>2. IsSeq(results)
    BY <1>1, <2>1, ToolMessagesOnce
  <2>3. \A d \in 1..Len(results) :
          \E c \in Referred("tool_result", m.content) : results[d].for = Sanitized[c]
    BY <1>1, <2>1, ToolMessagesOnce
  <2> QED BY <2>2, <2>3 DEF Brings
<1>6. Len(results) \in Nat /\ (results = <<>> <=> Len(results) = 0)
  BY <1>5, SeqShape, EmptyRange
<1>7. /\ plain.role # "tool" /\ plain.calls = <<>>
      /\ caller.role # "tool" /\ caller.calls = calls
  BY <1>1 DEF OpenAIMessage
<1>8. /\ Uses(m) # {} => p = <<caller>> \o results
      /\ Uses(m) = {} => p = results \o <<plain>> \/ (p = results /\ results # <<>>)
  BY <1>3, <1>4 DEF anthropicMessageToOpenAI, ResultsFirst
<1> HIDE DEF own, plain, caller, calls
<1>9. CASE Uses(m) # {}
  <2>1. Len(results) = 0
    <3>1. \A d \in 1..Len(results) : FALSE
      BY <1>4, <1>5, <1>9
    <3> QED BY <1>6, <3>1
  <2>2. p = <<caller>>
    <3>1. results = <<>> /\ IsSeq(<<caller>>)
      BY <1>6, <2>1, OneShape
    <3> QED BY <1>8, <1>9, <3>1, ConcatEmpty
  <2>3. IsSeq(p) /\ Len(p) = 1 /\ p[1] = caller
    BY <2>2, OneShape
  <2> QED BY <1>3, <1>4, <1>7, <1>9, <2>3 DEF calls
<1>10. CASE Uses(m) = {} /\ p = results /\ results # <<>>
  <2>1. Len(p) = Len(results) /\ Len(results) # 0 /\ IsSeq(p)
    BY <1>5, <1>6, <1>10
  <2>2. \A d \in 1..Len(p) : ~(d > Len(results))
    BY <1>6, <2>1
  <2> QED BY <1>10, <2>1, <2>2
<1>11. CASE Uses(m) = {} /\ p = results \o <<plain>>
  <2>1. IsSeq(<<plain>>) /\ Len(<<plain>>) = 1 /\ <<plain>>[1] = plain
    BY OneShape
  <2>2. IsSeq(p)
    BY <1>5, <1>11, <2>1, ConcatRange
  <2>3. Len(p) = Len(results) + Len(<<plain>>)
    BY <1>5, <1>11, <2>1, ConcatShape
  <2>4. \A d \in 1..Len(results) : p[d] = results[d]
    BY <1>5, <1>11, <2>1, ConcatShape
  <2>5. \A d \in 1..Len(<<plain>>) : p[Len(results) + d] = <<plain>>[d]
    BY <1>5, <1>11, <2>1, ConcatShape
  <2>6. Len(p) = Len(results) + 1 /\ p[Len(results) + 1] = plain
    <3>1. 1 \in 1..Len(<<plain>>)
      BY <2>1
    <3>2. p[Len(results) + 1] = <<plain>>[1]
      BY <2>5, <3>1
    <3> QED BY <2>1, <2>3, <3>2
  <2>7. \A d \in 1..Len(p) : d > Len(results) => d = Len(results) + 1
    BY <1>6, <2>6
  <2> QED BY <1>6, <1>7, <1>11, <2>2, <2>4, <2>6, <2>7
<1> QED BY <1>8, <1>9, <1>10, <1>11

\* The messages after p that only results separate from it.
RunOf(r, p) == {j \in (p + 1)..Len(r) : \A k \in (p + 1)..j : r[k].role = "tool"}

\* They answer its calls, each once, and nothing else.
AnsweredOnce(r, p) ==
    \E n \in Nat :
        /\ RunOf(r, p) = (p + 1)..(p + n)
        /\ \A d, e \in 1..n : r[p + d].for = r[p + e].for => d = e
        /\ \A d \in 1..n : r[p + d].for \in Range(r[p].calls)
        /\ \A c \in Range(r[p].calls) : \E d \in 1..n : r[p + d].for = c

LEMMA OpenAIStrict ==
    ASSUME NEW wire, NEW messages, Strict(messages), NEW s,
           s = [i \in DOMAIN messages |-> anthropicMessageToOpenAI(wire, messages[i])],
           NEW r, r = Joined(s)
    PROVE  /\ IsSeq(r)
           /\ \A p \in DOMAIN r :
                /\ r[p].calls # <<>> => IsInjective(r[p].calls) /\ AnsweredOnce(r, p)
                /\ r[p].role = "tool" => \E i \in 1..(p - 1) : r[i].calls # <<>> /\ p \in RunOf(r, i)
<1> DEFINE N == Len(messages)
<1> DEFINE results(i) == ToolMessages(messages[i].content)
<1> DEFINE m(i) == messages[i]
<1>1. N \in Nat /\ DOMAIN messages = 1..N /\ \A i \in 1..N : Neat(m(i))
  BY SeqShape DEF Strict, Orderly
<1>2. s = [i \in 1..N |-> s[i]] /\ \A i \in 1..N : s[i] = anthropicMessageToOpenAI(wire, m(i))
  BY <1>1
<1>3. ASSUME NEW i \in 1..N
      PROVE  /\ IsSeq(m(i).content) /\ Once("tool_result", m(i).content) /\ Once("tool_use", m(i).content)
             /\ \A b \in Range(m(i).content) : b.type \in {"tool_use", "tool_result"} => b.ref \in Calls
  BY <1>1 DEF Neat, SoundTurn, TypedMessage
<1>4. ASSUME NEW i \in 1..N
      PROVE  /\ IsSeq(results(i))
             /\ \A d \in 1..Len(results(i)) :
                    results(i)[d].role = "tool" /\ results(i)[d].calls = <<>>
             /\ \A d, e \in 1..Len(results(i)) : results(i)[d].for = results(i)[e].for => d = e
             /\ \A d \in 1..Len(results(i)) : \E c \in Brings(m(i)) : results(i)[d].for = Sanitized[c]
             /\ \A c \in Brings(m(i)) : \E d \in 1..Len(results(i)) : results(i)[d].for = Sanitized[c]
  <2> DEFINE content == m(i).content
  <2> DEFINE u == results(i)
  <2>1. /\ IsSeq(content) /\ Once("tool_result", content)
        /\ \A b \in Range(content) : b.type = "tool_result" => b.ref \in Calls
        /\ u = ToolMessages(content) /\ Brings(m(i)) = Referred("tool_result", content)
    BY <1>3 DEF Brings
  <2> HIDE DEF u, content, results
  <2>2. IsSeq(u)
    BY <2>1, ToolMessagesOnce
  <2>3. \A d \in 1..Len(u) : u[d].role = "tool" /\ u[d].calls = <<>>
    BY <2>1, ToolMessagesOnce
  <2>4. \A d, e \in 1..Len(u) : u[d].for = u[e].for => d = e
    BY <2>1, ToolMessagesOnce
  <2>5. \A d \in 1..Len(u) : \E c \in Referred("tool_result", content) : u[d].for = Sanitized[c]
    BY <2>1, ToolMessagesOnce
  <2>6. \A c \in Referred("tool_result", content) : \E d \in 1..Len(u) : u[d].for = Sanitized[c]
    BY <2>1, ToolMessagesOnce
  <2> QED BY <2>1, <2>2, <2>3, <2>4, <2>5, <2>6 DEF u
<1>5. \A i \in 1..N : IsSeq(s[i])
  BY <1>1, <1>2, PieceStrict
<1>6. AreSeqs(s) /\ Len(s) = N
  BY <1>1, <1>2, <1>5, MapJoined
<1> DEFINE own(i) == Len(s[i])
<1> DEFINE given(i) == Len(results(i))
<1>7. \A i \in 1..N : own(i) \in Nat /\ given(i) \in Nat
  BY <1>4, <1>5, SeqShape
<1>8. PICK off : Placed(s, N, r, off)
  BY <1>6, JoinedPlaced
<1>9. IsSeq(r) /\ Len(r) \in Nat /\ DOMAIN r = 1..Len(r)
  BY <1>8, SeqShape DEF Placed
<1>10. \A i \in 1..N : off[i] \in Nat /\ off[i + 1] = off[i] + own(i)
  BY <1>8 DEF Placed
<1>15. Len(r) = off[N + 1]
  BY <1>8 DEF Placed
<1>16. \A i \in 1..N : \A d \in 1..own(i) : off[i] + d \in DOMAIN r /\ r[off[i] + d] = s[i][d]
  BY <1>8, <1>9 DEF Placed
<1>11. ASSUME NEW p \in DOMAIN r PROVE \E i \in 1..N : \E d \in 1..own(i) : p = off[i] + d
  <2>1. p \in 1..Len(r)
    BY <1>9
  <2> HIDE DEF N
  <2>2. \E i \in 1..N : \E d \in 1..Len(s[i]) : p = off[i] + d
    BY <1>8, <2>1 DEF Placed
  <2> QED BY <2>2
<1> DEFINE Calling(i) ==
        /\ Brings(m(i)) = {} /\ own(i) = 1 /\ off[i] + 1 \in DOMAIN r
        /\ r[off[i] + 1].role # "tool"
        /\ r[off[i] + 1].calls = ToolCalls(m(i).content) /\ r[off[i] + 1].calls # <<>>
<1>17. ASSUME NEW i \in 1..N, Uses(m(i)) # {} PROVE Calling(i)
  <2> DEFINE p == s[i]
  <2>1. /\ Brings(m(i)) = {} /\ Len(p) = 1 /\ p[1].role # "tool"
        /\ p[1].calls = ToolCalls(m(i).content) /\ p[1].calls # <<>>
    <3>1. Neat(m(i)) /\ p = anthropicMessageToOpenAI(wire, m(i))
      BY <1>1, <1>2
    <3> HIDE DEF p
    <3> QED BY <1>17, <3>1, PieceStrict
  <2>2. off[i] + 1 \in DOMAIN r /\ r[off[i] + 1] = p[1]
    <3>1. 1 \in 1..own(i)
      BY <2>1
    <3> QED BY <1>16, <3>1
  <2> HIDE DEF p
  <2> QED BY <2>1, <2>2 DEF p
<1> DEFINE Bringing(i) ==
        /\ own(i) = given(i) \/ own(i) = given(i) + 1
        /\ given(i) = 0 => own(i) = 1
        /\ \A d \in 1..given(i) : off[i] + d \in DOMAIN r /\ r[off[i] + d] = results(i)[d]
        /\ \A d \in 1..own(i) :
               d > given(i) => r[off[i] + d].role # "tool" /\ r[off[i] + d].calls = <<>>
<1>18. ASSUME NEW i \in 1..N, Uses(m(i)) = {} PROVE Bringing(i)
  <2> DEFINE p == s[i]
  <2> DEFINE u == results(i)
  <2>1. /\ Len(p) = Len(u) \/ Len(p) = Len(u) + 1
        /\ Len(u) = 0 => Len(p) = 1
        /\ \A d \in 1..Len(u) : p[d] = u[d]
        /\ \A d \in 1..Len(p) : d > Len(u) => p[d].role # "tool" /\ p[d].calls = <<>>
    <3>1. Neat(m(i)) /\ p = anthropicMessageToOpenAI(wire, m(i)) /\ u = ToolMessages(m(i).content)
      BY <1>1, <1>2
    <3> HIDE DEF p, u
    <3> QED BY <1>18, <3>1, PieceStrict
  <2>2. \A d \in 1..Len(p) : off[i] + d \in DOMAIN r /\ r[off[i] + d] = p[d]
    BY <1>16
  <2>3. Len(p) \in Nat /\ Len(u) \in Nat
    BY <1>7
  <2>4. \A d \in 1..Len(u) : d \in 1..Len(p)
    <3> HIDE DEF p, u
    <3> QED BY <2>1, <2>3
  <2>5. own(i) = Len(p) /\ given(i) = Len(u) /\ results(i) = u
    OBVIOUS
  <2> HIDE DEF p, u, own, given
  <2> QED BY <2>1, <2>2, <2>4, <2>5
<1> HIDE DEF own, given, results, Calling, Bringing
<1>19. \A i \in 1..N : \A d \in 1..given(i) :
         /\ results(i)[d].role = "tool" /\ results(i)[d].calls = <<>>
         /\ Brings(m(i)) # {}
  BY <1>4 DEF given
\* A message without results is not begun by one.
<1>12. ASSUME NEW i \in 1..N, Brings(m(i)) = {}
       PROVE  off[i] + 1 \in DOMAIN r /\ r[off[i] + 1].role # "tool"
  <2>1. CASE Uses(m(i)) # {}
    BY <1>17, <2>1 DEF Calling
  <2>2. CASE Uses(m(i)) = {}
    <3>1. \A d \in 1..given(i) : FALSE
      BY <1>12, <1>19
    <3>2. given(i) = 0
      BY <1>7, <3>1
    <3>3. Bringing(i)
      BY <1>18, <2>2
    <3>4. own(i) = 1 /\ 1 \in 1..own(i) /\ 1 > given(i)
      BY <3>2, <3>3 DEF Bringing
    <3>5. off[i] + 1 \in DOMAIN r
      BY <1>16, <3>4
    <3> QED BY <3>3, <3>4, <3>5 DEF Bringing
  <2> QED BY <2>1, <2>2
<1>13. ASSUME NEW p \in DOMAIN r, r[p].calls # <<>>
       PROVE  IsInjective(r[p].calls) /\ AnsweredOnce(r, p)
  <2>1. PICK i \in 1..N : \E d \in 1..own(i) : p = off[i] + d
    BY <1>11
  <2>2. PICK d \in 1..own(i) : p = off[i] + d
    BY <2>1
  <2>4. Uses(m(i)) # {}
    <3> SUFFICES ASSUME Uses(m(i)) = {} PROVE FALSE
      OBVIOUS
    <3>0. Bringing(i)
      BY <1>18
    <3>1. CASE d \in 1..given(i)
      <4>1. r[p] = results(i)[d]
        BY <2>2, <3>0, <3>1 DEF Bringing
      <4> QED BY <1>13, <1>19, <3>1, <4>1
    <3>2. CASE d \notin 1..given(i)
      <4>1. d > given(i)
        BY <1>7, <3>2
      <4> QED BY <1>13, <2>2, <3>0, <4>1 DEF Bringing
    <3> QED BY <3>1, <3>2
  <2>5. own(i) = 1 /\ d = 1 /\ r[p].calls = ToolCalls(m(i).content)
    <3>1. Calling(i)
      BY <1>17, <2>4
    <3>2. own(i) = 1
      BY <3>1 DEF Calling
    <3>3. d = 1
      BY <3>2
    <3> QED BY <2>2, <3>1, <3>2, <3>3 DEF Calling
  <2>6. /\ IsInjective(r[p].calls)
        /\ Range(r[p].calls) = {Sanitized[c] : c \in Uses(m(i))}
    BY <1>3, <2>5, ToolCallsOnce, ToolCallsAre DEF Uses
  <2>7. i + 1 \in 1..N /\ Brings(m(i + 1)) = Uses(m(i))
    BY <1>1, <2>4 DEF Strict
  <2> DEFINE h == i + 1
  <2> DEFINE n == given(h)
  <2>8. off[h] = p /\ n \in Nat /\ p \in Nat
    <3>1. off[h] = off[i] + 1 /\ off[i] \in Nat
      BY <1>10, <2>5
    <3>2. n \in Nat
      BY <1>7, <2>7
    <3> QED BY <2>2, <2>5, <3>1, <3>2
  <2>9. Uses(m(h)) = {}
    <3>1. Uses(m(h)) # {} => Brings(m(h)) = {}
      BY <1>17, <2>7 DEF Calling
    <3> QED BY <2>4, <2>7, <3>1
  <2>20. Bringing(h)
    BY <1>18, <2>7, <2>9
  <2>10. \A e \in 1..n : p + e \in DOMAIN r /\ r[p + e] = results(h)[e]
    BY <2>8, <2>20 DEF Bringing
  <2>11. (p + 1)..(p + n) \subseteq RunOf(r, p)
    <3>1. \A k \in (p + 1)..(p + n) : k \in DOMAIN r /\ r[k].role = "tool"
      <4> TAKE k \in (p + 1)..(p + n)
      <4>1. k - p \in 1..n /\ p + (k - p) = k
        BY <2>8
      <4>2. k \in DOMAIN r /\ r[k] = results(h)[k - p]
        BY <2>10, <4>1
      <4> QED BY <1>19, <2>7, <4>1, <4>2
    <3> SUFFICES ASSUME NEW j \in (p + 1)..(p + n) PROVE j \in RunOf(r, p)
      OBVIOUS
    <3>2. j \in (p + 1)..Len(r) /\ \A k \in (p + 1)..j : k \in (p + 1)..(p + n)
      BY <1>9, <2>8, <3>1
    <3> QED BY <3>1, <3>2 DEF RunOf
  <2>12. ASSUME p + n + 1 \in DOMAIN r PROVE r[p + n + 1].role # "tool"
    <3>1. CASE own(h) = n + 1
      <4>1. n + 1 \in 1..own(h) /\ n + 1 > n
        BY <2>8, <3>1
      <4>2. r[off[h] + (n + 1)].role # "tool"
        BY <2>20, <4>1 DEF Bringing
      <4>4. off[h] + (n + 1) = p + n + 1
        BY <2>8
      <4> QED BY <4>2, <4>4
    <3>2. CASE own(h) = n
      <4>1. off[h + 1] = p + n
        BY <1>10, <2>7, <2>8, <3>2
      <4>2. h # N
        <5> SUFFICES ASSUME h = N PROVE FALSE
          OBVIOUS
        <5>1. Len(r) = p + n
          BY <1>15, <4>1
        <5>2. Len(r) \in Nat /\ p + n + 1 <= Len(r)
          BY <1>9, <2>12
        <5> QED BY <2>8, <5>1, <5>2
      <4>3. h + 1 \in 1..N
        <5> HIDE DEF N
        <5>1. N \in Nat /\ h \in 1..N
          BY <1>1, <2>7
        <5> HIDE DEF h
        <5> QED BY <4>2, <5>1
      <4>4. Brings(m(h + 1)) = {}
        <5> SUFFICES ASSUME Brings(m(h + 1)) # {} PROVE FALSE
          OBVIOUS
        <5>1. Uses(m((h + 1) - 1)) # {}
          BY <1>1, <4>3 DEF Strict, Orderly
        <5>2. (h + 1) - 1 = h
          BY <2>7
        <5> QED BY <2>9, <5>1, <5>2
      <4>5. off[h + 1] + 1 = p + n + 1
        BY <2>8, <4>1
      <4> QED BY <1>12, <4>3, <4>4, <4>5
    <3> QED BY <2>20, <3>1, <3>2 DEF Bringing
  <2>13. RunOf(r, p) \subseteq (p + 1)..(p + n)
    <3> SUFFICES ASSUME NEW j \in RunOf(r, p), j \notin (p + 1)..(p + n) PROVE FALSE
      OBVIOUS
    <3>1. j \in (p + 1)..Len(r) /\ \A k \in (p + 1)..j : r[k].role = "tool"
      BY DEF RunOf
    <3>2. p + n + 1 \in (p + 1)..j /\ p + n + 1 \in DOMAIN r
      BY <1>9, <2>8, <3>1
    <3> QED BY <2>12, <3>1, <3>2
  <2>14. \A c, e \in 1..n : r[p + c].for = r[p + e].for => c = e
    BY <1>4, <2>7, <2>10 DEF given
  <2>15. \A e \in 1..n : r[p + e].for \in Range(r[p].calls)
    <3> TAKE e \in 1..n
    <3>1. PICK c \in Brings(m(h)) : results(h)[e].for = Sanitized[c]
      BY <1>4, <2>7 DEF given
    <3> QED BY <2>6, <2>7, <2>10, <3>1
  <2>16. \A c \in Range(r[p].calls) : \E e \in 1..n : r[p + e].for = c
    <3> TAKE c \in Range(r[p].calls)
    <3>1. PICK b \in Brings(m(h)) : c = Sanitized[b]
      BY <2>6, <2>7
    <3>2. PICK e \in 1..n : results(h)[e].for = Sanitized[b]
      BY <1>4, <2>7, <3>1 DEF given
    <3> QED BY <2>10, <3>1, <3>2
  <2> HIDE DEF n
  <2>17. RunOf(r, p) = (p + 1)..(p + n)
    BY <2>11, <2>13
  <2>18. AnsweredOnce(r, p)
    BY <2>8, <2>14, <2>15, <2>16, <2>17 DEF AnsweredOnce
  <2> QED BY <2>6, <2>18
<1>14. ASSUME NEW p \in DOMAIN r, r[p].role = "tool"
       PROVE  \E q \in 1..(p - 1) : r[q].calls # <<>> /\ p \in RunOf(r, q)
  <2>1. PICK i \in 1..N : \E d \in 1..own(i) : p = off[i] + d
    BY <1>11
  <2>2. PICK d \in 1..own(i) : p = off[i] + d
    BY <2>1
  <2>4. Uses(m(i)) = {}
    <3> SUFFICES ASSUME Uses(m(i)) # {} PROVE FALSE
      OBVIOUS
    <3>1. Calling(i)
      BY <1>17
    <3>2. own(i) = 1
      BY <3>1 DEF Calling
    <3>3. d = 1
      BY <3>2
    <3> QED BY <1>14, <2>2, <3>1, <3>3 DEF Calling
  <2>12. Bringing(i)
    BY <1>18, <2>4
  <2>5. d \in 1..given(i)
    <3>1. ~(d > given(i))
      BY <1>14, <2>2, <2>12 DEF Bringing
    <3> QED BY <1>7, <3>1
  <2>6. Brings(m(i)) # {}
    BY <1>19, <2>5
  <2>7. i > 1 /\ Uses(m(i - 1)) # {} /\ i - 1 \in 1..N /\ (i - 1) + 1 = i
    <3>1. i > 1 /\ Uses(m(i - 1)) # {}
      BY <1>1, <2>6 DEF Strict, Orderly
    <3> QED BY <1>1, <3>1
  <2> DEFINE q == off[i]
  <2>8. Calling(i - 1)
    BY <1>17, <2>7
  <2>9. off[i - 1] + 1 = q /\ q \in DOMAIN r /\ r[q].calls # <<>> /\ q \in Nat
    <3>1. off[(i - 1) + 1] = off[i - 1] + 1
      BY <1>10, <2>7, <2>8 DEF Calling
    <3>2. off[i] \in Nat
      BY <1>10
    <3> QED BY <2>7, <2>8, <3>1, <3>2 DEF Calling
  <2> HIDE DEF q
  <2>10. p = q + d /\ q \in 1..(p - 1) /\ p \in (q + 1)..Len(r)
    <3>1. p = q + d /\ q \in 1..Len(r) /\ p \in 1..Len(r)
      BY <1>9, <2>2, <2>9 DEF q
    <3>2. d \in Nat /\ d >= 1
      BY <1>7, <2>5
    <3> QED BY <1>9, <3>1, <3>2
  <2>11. \A k \in (q + 1)..p : r[k].role = "tool"
    <3> TAKE k \in (q + 1)..p
    <3>1. k - q \in 1..d /\ q + (k - q) = k
      BY <2>9, <2>10
    <3>2. k - q \in 1..given(i)
      BY <1>7, <2>5, <3>1
    <3>3. r[q + (k - q)] = results(i)[k - q]
      BY <2>12, <3>2 DEF Bringing, q
    <3> QED BY <1>19, <3>1, <3>2, <3>3
  <2> QED BY <2>9, <2>10, <2>11 DEF RunOf
<1> QED BY <1>9, <1>13, <1>14

------------------------------------------------------------------------------
(* anthropicToConverseRequest() for strict upstreams.                          *)

\* A turn as Converse takes it, but for being empty.
Fit(m) ==
    /\ IsSeq(m.content) /\ m.role \in {"user", "assistant"}
    /\ Once("tool_use", m.content) /\ Once("tool_result", m.content)
    /\ Uses(m) # {} => m.role = "assistant"
    /\ Brings(m) # {} => m.role = "user"
    /\ \A b \in Range(m.content) : ~isEmptyTextBlock(b)

LEMMA IrFit ==
    ASSUME NEW m, Neat(m), Brings(m) # {} => m.role = "user",
           NEW t, t = anthropicMessageToIr(m)
    PROVE  Fit(t) /\ Uses(t) = Uses(m) /\ Brings(t) = Brings(m)
<1> DEFINE S == {b \in Range(m.content) : b.type # "redacted_thinking"}
<1> DEFINE content == Only(m.content, S)
<1> DEFINE mapped == [i \in DOMAIN content |-> ToConverse(content[i])]
<1> DEFINE kept == stripEmptyBlocks(mapped)
<1>1. t.role = m.role /\ t.content = kept
  BY DEF anthropicMessageToIr
<1>2. IsSeq(m.content) /\ Once("tool_use", m.content) /\ Once("tool_result", m.content)
      /\ m.role \in {"user", "assistant"} /\ (Uses(m) # {} => m.role = "assistant")
  BY DEF Neat, SoundTurn, TypedMessage, Uses, Referred
<1>3. IsSeq(t.content) /\ Uses(t) = Uses(m) /\ Brings(t) = Brings(m)
  BY <1>2, IrKeepsTools DEF Uses, Brings
<1> HIDE DEF S
<1>4. IsSeq(content)
  BY <1>2, OnlyOf
<1>5. Once("tool_use", content) /\ Once("tool_result", content)
  BY <1>2, OnlyOnce
<1> HIDE DEF content
<1>6. Len(content) \in Nat /\ DOMAIN content = 1..Len(content)
  BY <1>4, SeqShape
<1>7. mapped = [i \in 1..Len(content) |-> mapped[i]] /\ DOMAIN mapped = DOMAIN content
        /\ \A i \in DOMAIN content : mapped[i] = ToConverse(content[i])
  BY <1>6
<1> HIDE DEF mapped
<1>8. IsSeq(mapped)
  BY <1>6, <1>7, FunShape
<1>9. ASSUME NEW type \in {"tool_use", "tool_result"}, Once(type, content) PROVE Once(type, mapped)
  <2>1. \A b : ToConverse(b).type = type => ToConverse(b) = b
    BY DEF ToConverse, Text, Block
  <2>2. \A k \in DOMAIN mapped : mapped[k].type = type => k \in DOMAIN content /\ mapped[k] = content[k]
    BY <1>7, <2>1
  <2>3. ASSUME NEW k \in DOMAIN mapped, NEW l \in DOMAIN mapped,
               mapped[k].type = type, mapped[l].type = type, mapped[k].ref = mapped[l].ref
        PROVE  k = l
    <3>1. /\ k \in DOMAIN content /\ mapped[k] = content[k]
          /\ l \in DOMAIN content /\ mapped[l] = content[l]
      BY <2>2, <2>3
    <3>2. content[k].type = type /\ content[l].type = type /\ content[k].ref = content[l].ref
      BY <2>3, <3>1
    <3> QED BY <1>9, <3>1, <3>2 DEF Once
  <2> QED BY <2>3 DEF Once
<1>10. Once("tool_use", mapped) /\ Once("tool_result", mapped)
  BY <1>5, <1>9
<1> DEFINE K == {b \in Range(mapped) : ~isEmptyTextBlock(b)}
<1>11. kept = Only(mapped, K) /\ K \subseteq Range(mapped) /\ \A b \in K : ~isEmptyTextBlock(b)
  BY DEF stripEmptyBlocks
<1> HIDE DEF K, kept
<1>12. Range(kept) = K
  BY <1>8, <1>11, OnlyOf
<1>13. Once("tool_use", kept) /\ Once("tool_result", kept)
  BY <1>8, <1>10, <1>11, OnlyOnce
<1> QED BY <1>1, <1>2, <1>3, <1>11, <1>12, <1>13 DEF Fit

\* Calls and results in pairs, whatever stands between.
Paired(messages) ==
    /\ IsSeq(messages)
    /\ \A i \in DOMAIN messages : Fit(messages[i])
    /\ \A i \in DOMAIN messages : Uses(messages[i]) # {} =>
           i + 1 \in DOMAIN messages /\ Brings(messages[i + 1]) = Uses(messages[i])
    /\ \A i \in DOMAIN messages : Brings(messages[i]) # {} => i > 1 /\ Uses(messages[i - 1]) # {}

LEMMA TranslatedPaired ==
    ASSUME NEW messages, Strict(messages), NEW ir,
           ir = [i \in DOMAIN messages |-> anthropicMessageToIr(messages[i])]
    PROVE  Paired(ir)
<1> DEFINE N == Len(messages)
<1>1. /\ N \in Nat /\ DOMAIN messages = 1..N
      /\ \A i \in 1..N : Neat(messages[i])
      /\ \A i \in 1..N : Brings(messages[i]) # {} => i > 1 /\ Uses(messages[i - 1]) # {}
      /\ \A i \in 1..N : Uses(messages[i]) # {} =>
           i + 1 \in 1..N /\ Brings(messages[i + 1]) = Uses(messages[i])
  BY SeqShape DEF Strict, Orderly
<1>2. ir = [i \in 1..N |-> ir[i]] /\ DOMAIN ir = 1..N
        /\ \A i \in 1..N : ir[i] = anthropicMessageToIr(messages[i])
  BY <1>1
<1> HIDE DEF N
<1>3. IsSeq(ir)
  BY <1>1, <1>2, FunShape
<1>4. ASSUME NEW i \in 1..N
      PROVE  Fit(ir[i]) /\ Uses(ir[i]) = Uses(messages[i]) /\ Brings(ir[i]) = Brings(messages[i])
  <2>1. Brings(messages[i]) # {} => messages[i].role = "user"
    BY <1>1 DEF Neat, SoundTurn, Brings, Referred
  <2> QED BY <1>1, <1>2, <2>1, IrFit
<1>5. \A i \in 1..N : Brings(ir[i]) # {} => i > 1 /\ Uses(ir[i - 1]) # {}
  <2> TAKE i \in 1..N
  <2> HAVE Brings(ir[i]) # {}
  <2>1. i > 1 /\ Uses(messages[i - 1]) # {}
    BY <1>1, <1>4
  <2>2. i - 1 \in 1..N
    BY <1>1, <2>1
  <2> QED BY <1>4, <2>1, <2>2
<1>6. \A i \in 1..N : Uses(ir[i]) # {} => i + 1 \in 1..N /\ Brings(ir[i + 1]) = Uses(ir[i])
  BY <1>1, <1>4
<1> QED BY <1>2, <1>3, <1>4, <1>5, <1>6 DEF Paired

\* What is merged of the first n.  The calls of the last message are those of the
\* last turn, still to be answered.
PairedTo(messages, n, acc) ==
    /\ IsSeq(acc)
    /\ \A j \in DOMAIN acc : Fit(acc[j]) /\ acc[j].content # <<>>
    /\ \A j \in DOMAIN acc : j > 1 => acc[j].role # acc[j - 1].role
    /\ \A j \in DOMAIN acc : Brings(acc[j]) # {} => j > 1 /\ Uses(acc[j - 1]) # {}
    /\ \A j \in DOMAIN acc : Uses(acc[j]) # {} /\ j # Len(acc) => Brings(acc[j + 1]) = Uses(acc[j])
    /\ acc # <<>> /\ Uses(acc[Len(acc)]) # {} =>
           n # 0 /\ Uses(acc[Len(acc)]) = Uses(messages[n])
    /\ n # 0 /\ Uses(messages[n]) # {} => acc # <<>> /\ Uses(acc[Len(acc)]) = Uses(messages[n])

LEMMA WithPairs ==
    ASSUME NEW messages, Paired(messages), NEW n \in 1..Len(messages),
           NEW acc, PairedTo(messages, n - 1, acc)
    PROVE  PairedTo(messages, n, With(acc, messages[n]))
<1> DEFINE m == messages[n]
<1> DEFINE l == Len(acc)
<1> DEFINE last == acc[l]
<1> DEFINE grown == [role |-> last.role, content |-> last.content \o m.content]
<1> DEFINE t == With(acc, m)
<1>1. /\ Len(messages) \in Nat /\ n \in DOMAIN messages /\ n \in Nat /\ n # 0
      /\ n # 1 => n - 1 \in DOMAIN messages /\ (n - 1) + 1 = n
  BY SeqShape DEF Paired
<1>2. Fit(m)
  BY <1>1 DEF Paired
<1>3. IsSeq(acc) /\ l \in Nat /\ DOMAIN acc = 1..l /\ (acc = <<>> <=> l = 0) /\ (acc # <<>> => l \in DOMAIN acc)
  <2>1. IsSeq(acc)
    BY DEF PairedTo
  <2>2. l \in Nat /\ DOMAIN acc = 1..l
    BY <2>1, SeqShape
  <2>3. acc = <<>> <=> l = 0
    BY <2>1, EmptyRange
  <2> QED BY <2>1, <2>2, <2>3
<1>4. \A j \in DOMAIN acc : /\ Fit(acc[j]) /\ acc[j].content # <<>>
                            /\ j > 1 => acc[j].role # acc[j - 1].role
                            /\ Brings(acc[j]) # {} => j > 1 /\ Uses(acc[j - 1]) # {}
                            /\ Uses(acc[j]) # {} /\ j # l => Brings(acc[j + 1]) = Uses(acc[j])
  BY DEF PairedTo
\* Open calls are those of the turn before, which m answers.
<1>5. acc # <<>> /\ Uses(last) # {} => Brings(m) = Uses(last)
  <2> SUFFICES ASSUME acc # <<>>, Uses(last) # {} PROVE Brings(m) = Uses(last)
    OBVIOUS
  <2>1. n - 1 # 0 /\ Uses(last) = Uses(messages[n - 1])
    BY DEF PairedTo
  <2>2. n # 1
    BY <2>1
  <2> QED BY <1>1, <2>1, <2>2 DEF Paired
\* And m answers none but open calls.
<1>6. Brings(m) # {} => acc # <<>> /\ Uses(last) # {}
  <2> SUFFICES ASSUME Brings(m) # {} PROVE acc # <<>> /\ Uses(last) # {}
    OBVIOUS
  <2>1. n > 1 /\ Uses(messages[n - 1]) # {}
    BY <1>1 DEF Paired
  <2>2. n - 1 # 0
    BY <2>1
  <2> QED BY <2>1, <2>2 DEF PairedTo
<1>7. t = IF m.content = <<>> THEN acc
          ELSE IF acc # <<>> /\ last.role = m.role THEN [acc EXCEPT ![l] = grown]
          ELSE Append(acc, m)
  BY DEF With
<1>8. m.content = <<>> => Uses(m) = {} /\ Brings(m) = {}
  BY <1>2, EmptyRange DEF Fit, Uses, Brings, Referred
<1>9. acc # <<>> => Fit(last)
  BY <1>3, <1>4
<1>20. Uses(m) # {} => m.role = "assistant"
  BY <1>2 DEF Fit
<1>10. ASSUME acc # <<>>, last.role = m.role
       PROVE  /\ Fit(grown) /\ Uses(grown) = Uses(m) /\ Brings(grown) = Brings(last) /\ Uses(last) = {}
              /\ m.content # <<>> => grown.content # <<>>
  <2>1. grown.content = last.content \o m.content /\ grown.role = last.role
    OBVIOUS
  <2>2. Fit(last) /\ IsSeq(last.content) /\ IsSeq(m.content)
    BY <1>2, <1>9, <1>10 DEF Fit
  <2>3. Uses(last) = {}
    <3> SUFFICES ASSUME Uses(last) # {} PROVE FALSE
      OBVIOUS
    <3>1. Brings(m) # {} /\ last.role = "assistant"
      BY <1>5, <1>10, <2>2 DEF Fit
    <3>2. m.role = "user"
      BY <1>2, <3>1 DEF Fit
    <3> QED BY <1>10, <3>1, <3>2
  <2>4. Brings(m) = {}
    BY <1>6, <2>3
  <2> HIDE DEF grown, last, m
  <2>5. IsSeq(grown.content) /\ Range(grown.content) = Range(last.content) \cup Range(m.content)
    BY <2>1, <2>2, ConcatRange
  <2>6. Uses(grown) = Uses(last) \cup Uses(m) /\ Brings(grown) = Brings(last) \cup Brings(m)
    BY <2>5 DEF Uses, Brings, Referred
  <2>7. Once("tool_use", grown.content)
    BY <1>2, <2>1, <2>2, <2>3, ConcatOnce DEF Fit, Uses
  <2>8. Once("tool_result", grown.content)
    BY <1>2, <2>1, <2>2, <2>4, ConcatOnce DEF Fit, Brings
  <2>9. \A b \in Range(grown.content) : ~isEmptyTextBlock(b)
    BY <1>2, <2>2, <2>5 DEF Fit
  <2>10. Uses(grown) = Uses(m) /\ Brings(grown) = Brings(last)
    BY <2>3, <2>4, <2>6
  <2>11. Fit(grown)
    BY <1>2, <1>10, <2>1, <2>2, <2>5, <2>7, <2>8, <2>9, <2>10 DEF Fit
  <2>12. m.content # <<>> => grown.content # <<>>
    BY <2>2, <2>5, EmptyRange
  <2> QED BY <2>3, <2>10, <2>11, <2>12
<1> DEFINE Goal(u) ==
        /\ IsSeq(u)
        /\ \A j \in DOMAIN u : Fit(u[j]) /\ u[j].content # <<>>
        /\ \A j \in DOMAIN u : j > 1 => u[j].role # u[j - 1].role
        /\ \A j \in DOMAIN u : Brings(u[j]) # {} => j > 1 /\ Uses(u[j - 1]) # {}
        /\ \A j \in DOMAIN u : Uses(u[j]) # {} /\ j # Len(u) => Brings(u[j + 1]) = Uses(u[j])
        /\ u # <<>> => Uses(u[Len(u)]) = Uses(m)
        /\ u = <<>> => Uses(m) = {}
<1>11. Goal(t) => PairedTo(messages, n, t)
  <2> HIDE DEF t
  <2> QED BY <1>1 DEF PairedTo
<1> HIDE DEF m, last, grown, t, l
<1>12. CASE m.content = <<>>
  <2>1. t = acc
    BY <1>7, <1>12
  <2>2. acc # <<>> => Uses(last) = {}
    BY <1>5, <1>8, <1>12
  <2>3. Goal(t)
    BY <1>3, <1>4, <1>8, <1>12, <2>1, <2>2 DEF last, l
  <2> QED BY <1>11, <2>3 DEF t, m
<1>13. CASE m.content # <<>> /\ acc # <<>> /\ last.role = m.role
  <2>1. t = [acc EXCEPT ![l] = grown] /\ l \in DOMAIN acc
    BY <1>3, <1>7, <1>13
  <2>2. IsSeq(t)
    BY <1>3, <2>1, ExceptShape
  <2>3. Len(t) = l /\ DOMAIN t = DOMAIN acc
    BY <1>3, <2>1, ExceptShape DEF l
  <2>4. t[l] = grown /\ \A j \in DOMAIN acc \ {l} : t[j] = acc[j]
    BY <1>3, <2>1, ExceptShape
  <2>5. /\ Fit(grown) /\ Uses(grown) = Uses(m) /\ Brings(grown) = Brings(last) /\ Uses(last) = {}
        /\ grown.content # <<>> /\ grown.role = last.role
    BY <1>10, <1>13 DEF grown
  <2>6. ASSUME NEW j \in DOMAIN acc
        PROVE  Fit(t[j]) /\ t[j].content # <<>> /\ t[j].role = acc[j].role /\ Brings(t[j]) = Brings(acc[j])
    <3>1. CASE j = l
      BY <2>4, <2>5, <3>1 DEF last
    <3>2. CASE j # l
      BY <1>4, <2>4, <3>2
    <3> QED BY <3>1, <3>2
  <2>7. \A j \in DOMAIN acc : j # l => t[j] = acc[j] /\ j + 1 \in DOMAIN acc
    BY <1>3, <2>4
  <2>8. \A j \in DOMAIN acc : j > 1 => j - 1 \in DOMAIN acc /\ j - 1 # l /\ t[j - 1] = acc[j - 1]
    BY <1>3, <2>4
  <2>9. \A j \in DOMAIN acc : j > 1 => t[j].role # t[j - 1].role
    BY <1>4, <2>6, <2>8
  <2>10. \A j \in DOMAIN acc : Brings(t[j]) # {} => j > 1 /\ Uses(t[j - 1]) # {}
    BY <1>4, <2>6, <2>8
  <2>11. \A j \in DOMAIN acc : Uses(t[j]) # {} /\ j # l => Brings(t[j + 1]) = Uses(t[j])
    BY <1>4, <2>6, <2>7
  <2>12. t # <<>> /\ Uses(t[Len(t)]) = Uses(m)
    BY <2>1, <2>3, <2>4, <2>5, EmptyShape
  <2>13. Goal(t)
    BY <2>2, <2>3, <2>6, <2>9, <2>10, <2>11, <2>12
  <2> QED BY <1>11, <2>13 DEF t, m
<1>14. CASE m.content # <<>> /\ ~(acc # <<>> /\ last.role = m.role)
  <2>1. t = Append(acc, m)
    BY <1>7, <1>14
  <2>2. IsSeq(t)
    BY <1>3, <2>1, AppendShape
  <2>3. Len(t) = l + 1 /\ t[Len(t)] = m
    BY <1>3, <2>1, AppendShape DEF l
  <2>4. DOMAIN t = DOMAIN acc \cup {Len(t)}
    BY <1>3, <2>1, AppendShape
  <2>5. \A j \in DOMAIN acc : t[j] = acc[j]
    BY <1>3, <2>1, AppendShape
  <2>6. \A j \in DOMAIN t : j \in DOMAIN acc \/ j = l + 1
    BY <2>3, <2>4
  <2>7. t[l + 1] = m /\ (acc # <<>> => l \in DOMAIN acc /\ t[l] = last /\ l > 0)
    BY <1>3, <2>3, <2>5 DEF last
  <2>8. \A j \in DOMAIN t : Fit(t[j]) /\ t[j].content # <<>>
    BY <1>2, <1>4, <1>14, <2>5, <2>6, <2>7
  <2>9. ASSUME NEW j \in DOMAIN t, j > 1 PROVE t[j].role # t[j - 1].role
    <3>1. CASE j \in DOMAIN acc
      <4>1. j - 1 \in DOMAIN acc
        BY <1>3, <2>9, <3>1
      <4> QED BY <1>4, <2>5, <2>9, <3>1, <4>1
    <3>2. CASE j = l + 1
      <4>1. acc # <<>> /\ j - 1 = l
        BY <1>3, <2>9, <3>2
      <4> QED BY <1>14, <2>7, <3>2, <4>1
    <3> QED BY <2>6, <3>1, <3>2
  <2>10. ASSUME NEW j \in DOMAIN t, Brings(t[j]) # {} PROVE j > 1 /\ Uses(t[j - 1]) # {}
    <3>1. CASE j \in DOMAIN acc
      <4>1. j > 1 /\ Uses(acc[j - 1]) # {}
        BY <1>4, <2>5, <2>10, <3>1
      <4>2. j - 1 \in DOMAIN acc
        BY <1>3, <3>1, <4>1
      <4> QED BY <2>5, <4>1, <4>2
    <3>2. CASE j = l + 1
      <4>1. acc # <<>> /\ Uses(last) # {}
        BY <1>6, <2>7, <2>10, <3>2
      <4>2. j - 1 = l /\ j > 1
        BY <1>3, <2>7, <3>2, <4>1
      <4> QED BY <2>7, <4>1, <4>2
    <3> QED BY <2>6, <3>1, <3>2
  <2>11. ASSUME NEW j \in DOMAIN t, Uses(t[j]) # {}, j # Len(t) PROVE Brings(t[j + 1]) = Uses(t[j])
    <3>1. j \in DOMAIN acc
      BY <2>3, <2>6, <2>11
    <3>2. CASE j = l
      <4>1. acc # <<>>
        BY <3>1, EmptyShape
      <4> QED BY <1>5, <2>7, <2>11, <3>2, <4>1
    <3>3. CASE j # l
      <4>1. j + 1 \in DOMAIN acc
        BY <1>3, <3>1, <3>3
      <4> QED BY <1>4, <2>5, <2>11, <3>1, <3>3, <4>1
    <3> QED BY <3>2, <3>3
  <2>12. t # <<>> /\ Uses(t[Len(t)]) = Uses(m)
    BY <2>3, <2>4, EmptyShape
  <2>13. Goal(t)
    BY <2>2, <2>8, <2>9, <2>10, <2>11, <2>12
  <2> QED BY <1>11, <2>13 DEF t, m
<1> QED BY <1>12, <1>13, <1>14

LEMMA MergedStrict ==
    ASSUME NEW messages, Paired(messages), NEW r, r = Merged(messages)
    PROVE  /\ IsSeq(r)
           /\ \A j \in DOMAIN r :
                /\ Fit(r[j]) /\ r[j].content # <<>>
                /\ j > 1 => r[j].role # r[j - 1].role
                /\ Brings(r[j]) # {} => j > 1 /\ Uses(r[j - 1]) # {}
                /\ Uses(r[j]) # {} => j + 1 \in DOMAIN r /\ Brings(r[j + 1]) = Uses(r[j])
<1> DEFINE N == Len(messages)
<1>1. N \in Nat /\ DOMAIN messages = 1..N /\ Contents(messages)
  BY SeqShape DEF Paired, Contents, Fit
<1>2. PICK F : MergesUp(messages, F)
  BY <1>1, MergedUp
<1> DEFINE S == {n \in 0..N : PairedTo(messages, n, F[n])}
<1>3. 0 \in S
  <2>1. PairedTo(messages, 0, <<>>)
    BY EmptyShape DEF PairedTo
  <2> QED BY <1>1, <1>2, <2>1 DEF MergesUp
<1>4. ASSUME NEW n \in 1..N, n - 1 \in S PROVE n \in S
  <2>1. PairedTo(messages, n - 1, F[n - 1]) /\ F[n] = With(F[n - 1], messages[n]) /\ n \in 0..N
    BY <1>1, <1>2, <1>4 DEF MergesUp
  <2> QED BY <2>1, WithPairs
<1>5. \A n \in 0..N : n \in S
  <2> HIDE DEF S, N
  <2> QED BY <1>1, <1>3, <1>4, Upto
<1>6. PairedTo(messages, N, r)
  <2>1. N \in 0..N
    BY <1>1
  <2> QED BY <1>2, <1>5, <2>1 DEF MergesUp
<1>7. IsSeq(r) /\ Len(r) \in Nat /\ DOMAIN r = 1..Len(r)
  BY <1>6, SeqShape DEF PairedTo
<1>8. ASSUME NEW j \in DOMAIN r, Uses(r[j]) # {} PROVE j # Len(r)
  <2> SUFFICES ASSUME j = Len(r) PROVE FALSE
    OBVIOUS
  <2>1. r # <<>>
    BY EmptyShape
  <2>2. N # 0 /\ Uses(messages[N]) # {}
    BY <1>6, <1>8, <2>1 DEF PairedTo
  <2>3. N \in DOMAIN messages /\ N + 1 \notin DOMAIN messages
    BY <1>1, <2>2
  <2> QED BY <2>2, <2>3 DEF Paired
<1>9. \A j \in DOMAIN r : Uses(r[j]) # {} => j + 1 \in DOMAIN r
  BY <1>7, <1>8
<1> QED BY <1>6, <1>7, <1>8, <1>9 DEF PairedTo

------------------------------------------------------------------------------
(* What the client holds: no answer makes a call twice.                        *)

\* An upstream gives the calls of one answer different ids.
IdsDistinct ==
    /\ \A shape \in Replies : IsInjective(shape.calls)
    /\ \A names \in Streams \cup Natives : \A k, l \in DOMAIN names :
           names[k] \in Calls /\ names[k] = names[l] => k = l

\* Content that makes and answers no call.
LEMMA NoneOnce ==
    ASSUME NEW type, NEW content, \A b \in Range(content) : b.type # type
    PROVE  Once(type, content) /\ Referred(type, content) = {}
BY DEF Once, Referred, Range

LEMMA SaidSound ==
    ASSUME SoundTurns(turns), NEW m, SoundTurn(m), Say(m)
    PROVE  SoundTurns(turns')
<1> DEFINE t == turns'
<1>1. IsSeq(turns) /\ t = Append(turns, m)
  BY DEF SoundTurns, Say
<1> HIDE DEF t
<1>2. IsSeq(t)
  BY <1>1, AppendShape
<1>3. t[Len(t)] = m
  BY <1>1, AppendShape
<1>4. DOMAIN t = DOMAIN turns \cup {Len(t)}
  BY <1>1, AppendShape
<1>5. \A i \in DOMAIN turns : t[i] = turns[i]
  BY <1>1, AppendShape
<1>6. \A i \in DOMAIN t : SoundTurn(t[i])
  BY <1>3, <1>4, <1>5 DEF SoundTurns
<1>7. SoundTurns(t)
  BY <1>2, <1>6 DEF SoundTurns
<1> QED BY <1>7 DEF t

\* A turn of words only.
LEMMA WordsSound ==
    ASSUME NEW m, TypedMessage(m), m.role \in {"user", "assistant", "system"},
           \A b \in Range(m.content) : b.type \notin {"tool_use", "tool_result"}
    PROVE  SoundTurn(m)
BY NoneOnce DEF SoundTurn

LEMMA UserTurnSound ==
    ASSUME NEW kind \in Kinds, NEW n
    PROVE  SoundTurn(UserTurn(kind, n))
<1> DEFINE m == UserTurn(kind, n)
<1>1. kind \in {"string", "blocks", "empty"}
  BY ConversationAssumption
<1>2. \A says : Text(says).type = "text"
  BY DEF Text, Block
<1>3. m.role = "user" /\ \A i \in DOMAIN m.content : m.content[i].type \in {"text", "image"}
  <2>1. CASE kind = "string"
    <3>1. m = Message("user", TRUE, <<Text(Words(n))>>)
      BY <2>1 DEF UserTurn
    <3> HIDE DEF m
    <3>2. m.role = "user" /\ m.content = <<Text(Words(n))>>
      BY <3>1 DEF Message
    <3>3. \A i \in DOMAIN m.content : i = 1
      BY <3>2
    <3> QED BY <1>2, <3>2, <3>3, OneShape
  <2>2. CASE kind = "empty"
    <3>1. m = Message("user", TRUE, <<Text(<<>>)>>)
      BY <2>2 DEF UserTurn
    <3> HIDE DEF m
    <3>2. m.role = "user" /\ m.content = <<Text(<<>>)>>
      BY <3>1 DEF Message
    <3>3. \A i \in DOMAIN m.content : i = 1
      BY <3>2
    <3> QED BY <1>2, <3>2, <3>3, OneShape
  <2>3. CASE kind = "blocks"
    <3> DEFINE a == Text(<<>>)
    <3> DEFINE b == Text(Words(n))
    <3> DEFINE c == Image("url", Words(n))
    <3> DEFINE d == Image("unknown source", Words(n))
    <3>1. a.type = "text" /\ b.type = "text" /\ c.type = "image" /\ d.type = "image"
      BY DEF Text, Image, Block
    <3>2. m = Message("user", FALSE, <<a, b, c, d>>)
      BY <2>3 DEF UserTurn
    <3> HIDE DEF a, b, c, d, m
    <3>3. m.role = "user" /\ m.content = <<a, b, c, d>>
      BY <3>2 DEF Message
    <3> DEFINE s == <<a, b, c, d>>
    <3>4. DOMAIN s = 1..4 /\ s[1] = a /\ s[2] = b /\ s[3] = c /\ s[4] = d
      OBVIOUS
    <3> HIDE DEF s
    <3>5. \A i \in DOMAIN s : i = 1 \/ i = 2 \/ i = 3 \/ i = 4
      BY <3>4
    <3>6. m.content = s
      BY <3>3 DEF s
    <3> QED BY <3>1, <3>3, <3>4, <3>5, <3>6
  <2> QED BY <1>1, <2>1, <2>2, <2>3
<1>4. TypedMessage(m)
  BY UserTurnTyped
<1> HIDE DEF m
<1>5. \A b \in Range(m.content) : b.type \notin {"tool_use", "tool_result"}
  BY <1>3 DEF Range
<1>6. SoundTurn(m)
  BY <1>3, <1>4, <1>5, WordsSound
<1> QED BY <1>6 DEF m

\* A turn that calls or answers: its references, and its calls once.
LEMMA AssistantSound ==
    ASSUME NEW content, IsSeq(content), Once("tool_use", content),
           \A b \in Range(content) :
               IsSeq(b.says) /\ b.type # "tool_result" /\ (b.type = "tool_use" => b.ref \in Calls)
    PROVE  SoundTurn(Message("assistant", FALSE, content))
BY DEF SoundTurn, TypedMessage, Message

LEMMA StreamSound ==
    ASSUME IdsDistinct, NEW names \in Streams \cup Natives, NEW n
    PROVE  /\ IsSeq(StreamOf(names, n)) /\ Once("tool_use", StreamOf(names, n))
           /\ \A b \in Range(StreamOf(names, n)) :
                IsSeq(b.says) /\ b.type # "tool_result" /\ (b.type = "tool_use" => b.ref \in Calls)
<1> DEFINE r == StreamOf(names, n)
<1>1. IsSeq(r) /\ \A b \in Range(r) : IsSeq(b.says)
  BY StreamShape
<1>2. DOMAIN r = DOMAIN names /\ \A i \in DOMAIN names : r[i] = StreamBlock(names[i], n)
  BY DEF StreamOf
<1>3. \A i \in DOMAIN names : names[i] \in Calls \cup
            {"reasoning", "no reasoning", "redacted", "text", "foreign"}
  BY ConversationAssumption DEF Range
<1> HIDE DEF r
<1>4. ASSUME NEW name
      PROVE  /\ StreamBlock(name, n).type # "tool_result"
             /\ StreamBlock(name, n).type = "tool_use" =>
                  /\ name \notin {"reasoning", "no reasoning", "redacted", "text", "foreign"}
                  /\ StreamBlock(name, n).ref = name
  <2> DEFINE b == StreamBlock(name, n)
  <2>1. CASE name = "reasoning"
    BY <2>1 DEF StreamBlock, Thinking, Block
  <2>2. CASE name = "no reasoning"
    BY <2>2 DEF StreamBlock, Thinking, Block
  <2>3. CASE name = "redacted"
    BY <2>3 DEF StreamBlock, Block
  <2>4. CASE name = "text"
    BY <2>4 DEF StreamBlock, Text, Block
  <2>5. CASE name = "foreign"
    BY <2>5 DEF StreamBlock, Block
  <2>6. CASE name \notin {"reasoning", "no reasoning", "redacted", "text", "foreign"}
    <3>1. b = Use(name)
      BY <2>6 DEF StreamBlock
    <3>2. b.type = "tool_use" /\ b.ref = name
      BY <3>1 DEF Use, Block
    <3> QED BY <2>6, <3>2
  <2> QED BY <2>1, <2>2, <2>3, <2>4, <2>5, <2>6
<1>5. \A i \in DOMAIN r :
        /\ r[i].type # "tool_result"
        /\ r[i].type = "tool_use" => names[i] \in Calls /\ r[i].ref = names[i]
  <2> TAKE i \in DOMAIN r
  <2> DEFINE name == names[i]
  <2>1. r[i] = StreamBlock(name, n) /\ name \in Calls \cup
            {"reasoning", "no reasoning", "redacted", "text", "foreign"}
    BY <1>2, <1>3
  <2> HIDE DEF name
  <2>2. /\ r[i].type # "tool_result"
        /\ r[i].type = "tool_use" => name \in Calls /\ r[i].ref = name
    BY <1>4, <2>1
  <2> QED BY <2>2 DEF name
<1>6. Once("tool_use", r)
  BY <1>2, <1>5 DEF Once, IdsDistinct
<1>7. \A b \in Range(r) : IsSeq(b.says) /\ b.type # "tool_result" /\ (b.type = "tool_use" => b.ref \in Calls)
  BY <1>1, <1>5 DEF Range
<1> QED BY <1>1, <1>6, <1>7 DEF r

LEMMA ReplySound ==
    ASSUME NEW reply, IsSeq(reply.calls), IsInjective(reply.calls), Range(reply.calls) \subseteq Calls,
           IsSeq(reply.reasoning), IsSeq(reply.content), IsSeq(reply.refusal)
    PROVE  /\ IsSeq(openAIResponseToIr(reply)) /\ Once("tool_use", openAIResponseToIr(reply))
           /\ \A b \in Range(openAIResponseToIr(reply)) :
                IsSeq(b.says) /\ b.type # "tool_result" /\ (b.type = "tool_use" => b.ref \in Calls)
<1> DEFINE a == IF reply.reasoning = <<>> THEN <<>> ELSE <<Thinking(reply.reasoning)>>
<1> DEFINE b == IF reply.content = <<>> THEN <<>> ELSE <<Text(reply.content)>>
<1> DEFINE c == IF reply.refusal = <<>> THEN <<>> ELSE <<Text(reply.refusal)>>
<1> DEFINE d == [i \in DOMAIN reply.calls |-> Use(reply.calls[i])]
<1> DEFINE all == openAIResponseToIr(reply)
<1> DEFINE Quiet(s) == IsSeq(s) /\ \A e \in Range(s) : e.type \notin {"tool_use", "tool_result"}
<1>1. Quiet(a) /\ Quiet(b) /\ Quiet(c)
  <2>1. ASSUME NEW e, e.type \notin {"tool_use", "tool_result"} PROVE Quiet(<<e>>)
    BY <2>1, OneShape
  <2>2. Quiet(<<>>)
    BY EmptyShape, EmptyRange
  <2>3. Quiet(<<Thinking(reply.reasoning)>>) /\ Quiet(<<Text(reply.content)>>) /\ Quiet(<<Text(reply.refusal)>>)
    <3> HIDE DEF Quiet
    <3>1. /\ Thinking(reply.reasoning).type = "thinking" /\ Text(reply.content).type = "text"
          /\ Text(reply.refusal).type = "text"
      BY DEF Thinking, Text, Block
    <3> QED BY <2>1, <3>1
  <2> HIDE DEF Quiet
  <2> QED BY <2>2, <2>3
<1>2. /\ IsSeq(d) /\ Once("tool_use", d)
      /\ \A e \in Range(d) : e.type = "tool_use" /\ e.ref \in Calls
  <2>1. Len(reply.calls) \in Nat /\ DOMAIN reply.calls = 1..Len(reply.calls)
    BY SeqShape
  <2>2. d = [i \in 1..Len(reply.calls) |-> d[i]] /\ DOMAIN d = DOMAIN reply.calls
    BY <2>1
  <2>3. \A i \in DOMAIN d : d[i].type = "tool_use" /\ d[i].ref = reply.calls[i]
    BY DEF Use, Block
  <2> HIDE DEF d
  <2>4. IsSeq(d)
    BY <2>1, <2>2, FunShape
  <2>5. Once("tool_use", d)
    BY <2>2, <2>3 DEF Once, IsInjective
  <2>6. \A i \in DOMAIN reply.calls : reply.calls[i] \in Calls
    BY DEF Range
  <2>7. \A i \in DOMAIN d : d[i].type = "tool_use" /\ d[i].ref \in Calls
    BY <2>2, <2>3, <2>6
  <2>8. \A e \in Range(d) : e.type = "tool_use" /\ e.ref \in Calls
    BY <2>7 DEF Range
  <2> QED BY <2>4, <2>5, <2>8
<1>3. all = a \o b \o c \o d
  BY DEF openAIResponseToIr
<1>4. IsSeq(all) /\ \A e \in Range(all) : IsSeq(e.says)
  BY ReplyShape
<1> HIDE DEF a, b, c, d, all
<1>5. ASSUME NEW s, Quiet(s), NEW t, Quiet(t) PROVE Quiet(s \o t)
  BY <1>5, ConcatRange
<1> DEFINE abc == a \o b \o c
<1>6. Quiet(abc)
  <2> HIDE DEF Quiet
  <2>1. Quiet(a \o b)
    BY <1>1, <1>5
  <2> QED BY <1>1, <1>5, <2>1
<1>7. all = abc \o d
  BY <1>3
<1> HIDE DEF abc
<1>8. Once("tool_use", all)
  <2>1. IsSeq(abc) /\ Once("tool_use", abc) /\ Referred("tool_use", abc) = {}
    BY <1>6, NoneOnce
  <2>2. Referred("tool_use", abc) \cap Referred("tool_use", d) = {}
    BY <2>1
  <2> QED BY <1>2, <1>7, <2>1, <2>2, ConcatOnce
<1>9. Range(all) = Range(abc) \cup Range(d)
  BY <1>2, <1>6, <1>7, ConcatRange
<1>10. \A e \in Range(all) : e.type # "tool_result" /\ (e.type = "tool_use" => e.ref \in Calls)
  BY <1>2, <1>6, <1>9
<1> QED BY <1>4, <1>8, <1>10 DEF all

LEMMA RespondSound ==
    ASSUME SoundTurns(turns), NEW S \in SUBSET Calls, NEW place \in Places, Respond(S, place)
    PROVE  SoundTurns(turns')
<1> DEFINE n == said + 1
<1> DEFINE word == <<Text(Words(n))>>
<1> DEFINE results == Results(S, n)
<1> DEFINE Fine(s) == IsSeq(s) /\ \A b \in Range(s) :
        IsSeq(b.says) /\ b.type # "tool_use" /\ (b.type = "tool_result" => b.ref \in Calls)
<1> DEFINE content == CASE place = "before" -> word \o results
                        [] place = "after"  -> results \o word
                        [] place = "none"   -> results
<1>1. Say(Message("user", FALSE, content))
  BY DEF Respond
<1>2. Fine(results)
  BY ResultsAre
<1>3. Fine(word)
  <2> DEFINE b == Text(Words(n))
  <2>1. b.type = "text" /\ IsSeq(b.says)
    BY OneShape DEF Text, Block, Words
  <2> HIDE DEF b
  <2>2. IsSeq(<<b>>) /\ Range(<<b>>) = {b}
    BY OneShape
  <2> QED BY <2>1, <2>2 DEF b
<1> HIDE DEF n, word, results
<1>5. ASSUME NEW s, Fine(s), NEW t, Fine(t) PROVE Fine(s \o t)
  BY <1>5, ConcatRange
<1>4. Fine(content)
  <2> HIDE DEF Fine
  <2>1. CASE place = "before"
    BY <1>2, <1>3, <1>5, <2>1
  <2>2. CASE place = "after"
    BY <1>2, <1>3, <1>5, <2>2
  <2>3. CASE place = "none"
    BY <1>2, <2>3
  <2> QED BY <2>1, <2>2, <2>3, ConversationAssumption
<1> HIDE DEF content
<1> DEFINE m == Message("user", FALSE, content)
<1>6. m.role = "user" /\ m.flat = FALSE /\ m.content = content
  BY DEF Message
<1> HIDE DEF m
<1>7. Once("tool_use", content)
  BY <1>4, NoneOnce
<1>8. SoundTurn(m)
  BY <1>4, <1>6, <1>7 DEF SoundTurn, TypedMessage
<1> QED BY <1>1, <1>8, SaidSound DEF m

LEMMA CompactSound ==
    ASSUME SoundTurns(turns), Compact
    PROVE  SoundTurns(turns')
<1> DEFINE t == turns'
<1>1. PICK k \in DOMAIN turns : t = SubSeq(turns, k + 1, Len(turns))
  BY DEF Compact
<1> HIDE DEF t
<1>2. Len(turns) \in Nat /\ DOMAIN turns = 1..Len(turns) /\ \A i \in DOMAIN turns : SoundTurn(turns[i])
  BY SeqShape DEF SoundTurns
<1>3. \A i \in (k + 1)..Len(turns) : turns[i] \in Range(turns)
  BY <1>2 DEF Range
<1>4. t \in Seq(Range(turns))
  BY <1>1, <1>2, <1>3, SubSeqProperties
<1>5. IsSeq(t) /\ \A i \in DOMAIN t : t[i] \in Range(turns)
  BY <1>4, SeqIsSeq
<1>6. \A m \in Range(turns) : SoundTurn(m)
  BY <1>2 DEF Range
<1>7. SoundTurns(t)
  BY <1>5, <1>6 DEF SoundTurns
<1> QED BY <1>7 DEF t

LEMMA SoundInitially == Init => SoundTurns(turns)
<1> SUFFICES ASSUME Init PROVE SoundTurns(turns)
  OBVIOUS
<1>1. turns = <<>>
  BY DEF Init
<1> QED BY <1>1, EmptyShape DEF SoundTurns

LEMMA SoundStep ==
    ASSUME IdsDistinct, SoundTurns(turns), [Next]_vars
    PROVE  SoundTurns(turns')
<1>1. ASSUME NEW kind \in Kinds, Write(kind) PROVE SoundTurns(turns')
  <2>1. Say(UserTurn(kind, said + 1))
    BY <1>1 DEF Write
  <2> QED BY <2>1, UserTurnSound, SaidSound
<1>2. CASE Remind
  <2> DEFINE b == Text(Words(said + 1))
  <2> DEFINE m == Message("system", TRUE, <<b>>)
  <2>1. Say(m) /\ b.type = "text" /\ IsSeq(b.says)
    BY <1>2, OneShape DEF Remind, Text, Block, Words
  <2> HIDE DEF b
  <2>2. IsSeq(<<b>>) /\ Range(<<b>>) = {b}
    BY OneShape
  <2>3. TypedMessage(m) /\ m.role = "system" /\ m.content = <<b>>
    BY <2>1, <2>2 DEF TypedMessage, Message
  <2> HIDE DEF m
  <2>4. SoundTurn(m)
    BY <2>1, <2>2, <2>3, WordsSound
  <2> QED BY <2>1, <2>4, SaidSound
<1>3. ASSUME NEW S \in SUBSET Calls, NEW place \in Places, Respond(S, place)
      PROVE  SoundTurns(turns')
  BY <1>3, RespondSound
<1>4. CASE Compact
  BY <1>4, CompactSound
<1>5. CASE Ask \/ Refuse \/ Fail \/ UNCHANGED vars
  <2>1. turns' = turns
    BY <1>5 DEF Ask, Refuse, Fail, vars
  <2> QED BY <2>1
<1>6. ASSUME NEW content, IsSeq(content), Once("tool_use", content),
             \A b \in Range(content) :
               IsSeq(b.says) /\ b.type # "tool_result" /\ (b.type = "tool_use" => b.ref \in Calls),
             Say(Message("assistant", FALSE, content))
      PROVE  SoundTurns(turns')
  BY <1>6, AssistantSound, SaidSound
<1>7. ASSUME NEW shape \in Replies, ReplyOpenAI(shape) PROVE SoundTurns(turns')
  <2> DEFINE reply == Spoken(shape, said + 1)
  <2>1. IsSeq(reply.calls) /\ IsInjective(reply.calls) /\ Range(reply.calls) \subseteq Calls
    BY ConversationAssumption DEF Spoken, IdsDistinct
  <2>2. IsSeq(reply.reasoning) /\ IsSeq(reply.content) /\ IsSeq(reply.refusal)
    BY OneShape, EmptyShape DEF Spoken, Words, Thoughts, Refusal
  <2>3. Say(Message("assistant", FALSE, openAIResponseToIr(reply)))
    BY <1>7 DEF ReplyOpenAI, Answered
  <2> HIDE DEF reply
  <2> QED BY <1>6, <2>1, <2>2, <2>3, ReplySound
<1>8. ASSUME NEW names \in Streams, ReplyConverse(names) PROVE SoundTurns(turns')
  <2> DEFINE blocks == StreamOf(names, said + 1)
  <2>1. Say(Message("assistant", FALSE, converseResponseToIr(blocks)))
    BY <1>8 DEF ReplyConverse, Answered
  <2>2. /\ IsSeq(blocks) /\ Once("tool_use", blocks)
        /\ \A b \in Range(blocks) :
             IsSeq(b.says) /\ b.type # "tool_result" /\ (b.type = "tool_use" => b.ref \in Calls)
    BY StreamSound
  <2> HIDE DEF blocks
  <2>3. /\ IsSeq(converseResponseToIr(blocks))
        /\ Range(converseResponseToIr(blocks)) \subseteq Range(blocks)
    BY <2>2, OnlyOf DEF converseResponseToIr
  <2>4. Once("tool_use", converseResponseToIr(blocks))
    BY <2>2, OnlyOnce DEF converseResponseToIr
  <2> QED BY <1>6, <2>1, <2>2, <2>3, <2>4
<1>9. ASSUME NEW names \in Natives, AskNative(names) PROVE SoundTurns(turns')
  <2>1. Say(Message("assistant", FALSE, StreamOf(names, said + 1)))
    BY <1>9 DEF AskNative
  <2> QED BY <1>6, <2>1, StreamSound
<1> QED BY <1>1, <1>2, <1>3, <1>4, <1>5, <1>7, <1>8, <1>9 DEF Next

------------------------------------------------------------------------------
(* What is sent.                                                               *)

\* Results well placed are passed on in pairs.
LEMMA NormalizedStrict ==
    ASSUME SoundTurns(turns), WellPlaced
    PROVE  Strict(normalizeForIrPaths(turns))
<1>1. /\ IsSeq(turns) /\ Len(turns) \in Nat /\ DOMAIN turns = 1..Len(turns)
      /\ \A i \in DOMAIN turns : SoundTurn(turns[i]) /\ TypedMessage(turns[i]) /\ IsSeq(turns[i].content)
  BY SeqShape DEF SoundTurns, SoundTurn, TypedMessage
<1>2. ASSUME NEW i \in DOMAIN turns
      PROVE  /\ Once("tool_result", turns[i].content)
             /\ Brings(turns[i]) # {} => i > 1 /\ Uses(turns[i - 1]) # {}
  <2> DEFINE results == Refs("tool_result", turns[i].content)
  <2>1. IsInjective(results) /\ (results # <<>> => i > 1 /\ HasPending(turns[i - 1]))
    BY DEF WellPlaced
  <2>2. Once("tool_result", turns[i].content)
    BY <1>1, <2>1, RefsOnce
  <2>3. IsSeq(results) /\ Range(results) = Brings(turns[i])
    BY <1>1, RefsAre DEF Brings
  <2> HIDE DEF results
  <2>4. ASSUME Brings(turns[i]) # {} PROVE i > 1 /\ Uses(turns[i - 1]) # {}
    <3>1. results # <<>>
      BY <2>3, <2>4, EmptyRange
    <3>2. i > 1 /\ HasPending(turns[i - 1])
      BY <2>1, <3>1
    <3>3. i - 1 \in DOMAIN turns
      BY <1>1, <3>2
    <3> QED BY <1>1, <3>2, <3>3, PendingIff
  <2> QED BY <2>2, <2>4
<1>3. Orderly(Conversational(turns))
  BY <1>2, ConversationalOrderly
<1> QED BY <1>3, ReconciledStrict DEF normalizeForIrPaths

LEMMA OpenAITakes ==
    ASSUME sent.wire # "converse", NEW messages, Strict(messages),
           sent.messages = anthropicToOpenAIRequest(sent.wire, messages)
    PROVE  /\ \A i \in DOMAIN sent.messages :
                LET calls == CallsIn(sent.messages[i])
                IN calls # <<>> =>
                     /\ IsInjective(calls) /\ IsInjective(Following(i))
                     /\ ToSet(Following(i)) = ToSet(calls)
           /\ \A j \in DOMAIN sent.messages : HasResults(sent.messages[j]) =>
                \E i \in 1..(j - 1) : CallsIn(sent.messages[i]) # <<>> /\ j \in After(i)
<1> DEFINE r == sent.messages
<1> DEFINE s == [i \in DOMAIN messages |-> anthropicMessageToOpenAI(sent.wire, messages[i])]
<1>1. r = Joined(s)
  BY DEF anthropicToOpenAIRequest
<1> HIDE DEF s, r
<1>2. /\ IsSeq(r)
      /\ \A p \in DOMAIN r : r[p].calls # <<>> => IsInjective(r[p].calls) /\ AnsweredOnce(r, p)
      /\ \A p \in DOMAIN r : r[p].role = "tool" => \E i \in 1..(p - 1) : r[i].calls # <<>> /\ p \in RunOf(r, i)
  BY <1>1, OpenAIStrict DEF s
<1>3. \A i : After(i) = RunOf(r, i)
  BY DEF After, IsConverse, RunOf, r
<1>4. \A m : CallsIn(m) = m.calls /\ (HasResults(m) <=> m.role = "tool")
  BY DEF CallsIn, HasResults, IsConverse
<1>5. ASSUME NEW p \in DOMAIN r, r[p].calls # <<>>
      PROVE  /\ IsInjective(r[p].calls) /\ IsInjective(Following(p))
             /\ ToSet(Following(p)) = ToSet(r[p].calls)
  <2>1. IsInjective(r[p].calls)
    BY <1>2, <1>5
  <2>2. PICK n \in Nat :
          /\ RunOf(r, p) = (p + 1)..(p + n)
          /\ \A d, e \in 1..n : r[p + d].for = r[p + e].for => d = e
          /\ \A d \in 1..n : r[p + d].for \in Range(r[p].calls)
          /\ \A c \in Range(r[p].calls) : \E d \in 1..n : r[p + d].for = c
    BY <1>2, <1>5 DEF AnsweredOnce
  <2>3. Cardinality(RunOf(r, p)) = n
    <3>1. p \in Nat
      BY <1>2, SeqShape
    <3>2. p + 1 \in Int /\ p + n \in Int /\ (p + 1 > p + n => n = 0)
            /\ (p + n) - (p + 1) + 1 = n
      BY <3>1
    <3>3. Cardinality((p + 1)..(p + n)) = IF p + 1 > p + n THEN 0 ELSE (p + n) - (p + 1) + 1
      BY <3>2, FS_Interval
    <3> QED BY <2>2, <3>2, <3>3
  <2> DEFINE f == Following(p)
  <2>4. f = [k \in 1..n |-> r[p + k].for]
    BY <1>3, <2>3 DEF Following, IsConverse, r
  <2> HIDE DEF f
  <2>5. DOMAIN f = 1..n /\ \A k \in 1..n : f[k] = r[p + k].for
    BY <2>4
  <2>6. IsInjective(f)
    BY <2>2, <2>5 DEF IsInjective
  <2>7. ToSet(f) = ToSet(r[p].calls)
    <3>1. \A c \in ToSet(f) : c \in Range(r[p].calls)
      BY <2>2, <2>5 DEF ToSet
    <3>2. \A c \in Range(r[p].calls) : c \in ToSet(f)
      BY <2>2, <2>5 DEF ToSet
    <3>3. ToSet(r[p].calls) = Range(r[p].calls)
      BY DEF ToSet, Range
    <3> QED BY <3>1, <3>2, <3>3
  <2> QED BY <2>1, <2>6, <2>7 DEF f
<1> QED BY <1>2, <1>3, <1>4, <1>5 DEF r

LEMMA ConverseTakes ==
    ASSUME sent.wire = "converse", NEW messages, Strict(messages),
           sent.messages = anthropicToConverseRequest(messages)
    PROVE  /\ \A i \in DOMAIN sent.messages :
                LET calls == CallsIn(sent.messages[i])
                IN calls # <<>> =>
                     /\ IsInjective(calls) /\ IsInjective(Following(i))
                     /\ ToSet(Following(i)) = ToSet(calls)
           /\ \A j \in DOMAIN sent.messages : HasResults(sent.messages[j]) =>
                \E i \in 1..(j - 1) : CallsIn(sent.messages[i]) # <<>> /\ j \in After(i)
           /\ \A i \in DOMAIN sent.messages :
                /\ i > 1 => sent.messages[i].role # sent.messages[i - 1].role
                /\ sent.messages[i].content # <<>>
                /\ \A k \in DOMAIN sent.messages[i].content :
                       ~isEmptyTextBlock(sent.messages[i].content[k])
<1> DEFINE r == sent.messages
<1> DEFINE ir == [i \in DOMAIN messages |-> anthropicMessageToIr(messages[i])]
<1>1. r = Merged(ir)
  BY DEF anthropicToConverseRequest
<1>2. Paired(ir)
  BY TranslatedPaired
<1> HIDE DEF ir, r
<1>3. /\ IsSeq(r)
      /\ \A j \in DOMAIN r :
           /\ Fit(r[j]) /\ r[j].content # <<>>
           /\ j > 1 => r[j].role # r[j - 1].role
           /\ Brings(r[j]) # {} => j > 1 /\ Uses(r[j - 1]) # {}
           /\ Uses(r[j]) # {} => j + 1 \in DOMAIN r /\ Brings(r[j + 1]) = Uses(r[j])
  BY <1>1, <1>2, MergedStrict
<1>4. Len(r) \in Nat /\ DOMAIN r = 1..Len(r)
  BY <1>3, SeqShape
<1> DEFINE used(i) == Refs("tool_use", r[i].content)
<1> DEFINE brought(i) == Refs("tool_result", r[i].content)
<1>5. ASSUME NEW i \in DOMAIN r
      PROVE  /\ IsInjective(used(i)) /\ Range(used(i)) = Uses(r[i])
             /\ used(i) # <<>> <=> Uses(r[i]) # {}
             /\ IsInjective(brought(i)) /\ Range(brought(i)) = Brings(r[i])
             /\ brought(i) # <<>> <=> Brings(r[i]) # {}
  <2> DEFINE content == r[i].content
  <2> DEFINE u == used(i)
  <2> DEFINE b == brought(i)
  <2>1. IsSeq(content) /\ Once("tool_use", content) /\ Once("tool_result", content)
    BY <1>3 DEF Fit
  <2>2. IsSeq(u) /\ Range(u) = Uses(r[i]) /\ IsSeq(b) /\ Range(b) = Brings(r[i])
    BY <2>1, RefsAre DEF Uses, Brings
  <2>3. IsInjective(u) /\ IsInjective(b)
    BY <2>1, RefsOnce
  <2> HIDE DEF u, b
  <2>4. (u # <<>> <=> Uses(r[i]) # {}) /\ (b # <<>> <=> Brings(r[i]) # {})
    BY <2>2, EmptyRange
  <2> QED BY <2>2, <2>3, <2>4 DEF u, b
<1>6. \A i \in DOMAIN r : CallsIn(r[i]) = used(i) /\ (HasResults(r[i]) <=> brought(i) # <<>>)
  BY DEF CallsIn, HasResults, IsConverse
<1>7. \A i : After(i) = {j \in DOMAIN r : j = i + 1}
  BY DEF After, IsConverse, r
<1>8. \A i : i + 1 \in DOMAIN r => Following(i) = brought(i + 1)
  <2> TAKE i
  <2> HAVE i + 1 \in DOMAIN r
  <2>1. After(i) # {}
    BY <1>7
  <2> QED BY <2>1 DEF Following, IsConverse, r
<1> HIDE DEF used, brought
<1>9. ASSUME NEW i \in DOMAIN r, CallsIn(r[i]) # <<>>
      PROVE  /\ IsInjective(CallsIn(r[i])) /\ IsInjective(Following(i))
             /\ ToSet(Following(i)) = ToSet(CallsIn(r[i]))
  <2>1. Uses(r[i]) # {} /\ IsInjective(CallsIn(r[i])) /\ Range(CallsIn(r[i])) = Uses(r[i])
    BY <1>5, <1>6, <1>9
  <2>2. i + 1 \in DOMAIN r /\ Brings(r[i + 1]) = Uses(r[i])
    BY <1>3, <2>1
  <2>3. IsInjective(Following(i)) /\ Range(Following(i)) = Uses(r[i])
    BY <1>5, <1>8, <2>2
  <2>4. ToSet(Following(i)) = ToSet(CallsIn(r[i]))
    BY <2>1, <2>3 DEF ToSet, Range
  <2> QED BY <2>1, <2>3, <2>4
<1>10. ASSUME NEW j \in DOMAIN r, HasResults(r[j])
       PROVE  \E i \in 1..(j - 1) : CallsIn(r[i]) # <<>> /\ j \in After(i)
  <2>1. j > 1 /\ Uses(r[j - 1]) # {}
    BY <1>3, <1>5, <1>6, <1>10
  <2>2. j - 1 \in DOMAIN r /\ j - 1 \in 1..(j - 1) /\ (j - 1) + 1 = j
    BY <1>4, <2>1
  <2>3. CallsIn(r[j - 1]) # <<>>
    BY <1>5, <1>6, <2>1, <2>2
  <2>4. j \in After(j - 1)
    BY <1>7, <2>2
  <2> QED BY <2>2, <2>3, <2>4
<1>11. \A i \in DOMAIN r : \A k \in DOMAIN r[i].content : ~isEmptyTextBlock(r[i].content[k])
  BY <1>3 DEF Fit, Range
<1> QED BY <1>3, <1>9, <1>10, <1>11 DEF r

LEMMA InvStrict == ConversationInv /\ SoundTurns(turns) => StrictlyAccepted
<1> SUFFICES ASSUME ConversationInv, SoundTurns(turns), phase = "asked", WellPlaced
             PROVE  StrictlyAccepted
  BY DEF StrictlyAccepted
<1> DEFINE messages == normalizeForIrPaths(turns)
<1>1. Strict(messages)
  BY NormalizedStrict
<1>2. sent.wire \in Wires /\ sent.messages = Translated(sent.wire, messages)
  BY DEF ConversationInv
<1> HIDE DEF messages
<1>3. CASE sent.wire = "converse"
  <2>1. sent.messages = anthropicToConverseRequest(messages)
    BY <1>2, <1>3 DEF Translated
  <2> QED BY <1>1, <1>3, <2>1, ConverseTakes DEF StrictlyAccepted
<1>4. CASE sent.wire # "converse"
  <2>1. sent.messages = anthropicToOpenAIRequest(sent.wire, messages)
    BY <1>2, <1>4 DEF Translated
  <2>2. ~IsConverse
    BY <1>4 DEF IsConverse
  <2> QED BY <1>1, <1>4, <2>1, <2>2, OpenAITakes DEF StrictlyAccepted
<1> QED BY <1>3, <1>4

\* With results only in the turn after calls, though not for all of them and perhaps for
\* others, a strict upstream takes every request of every conversation: each call is
\* answered once and nothing else is, and Converse gets alternating roles and no empty
\* message or text.  What is asked of upstreams is that the calls of one answer have
\* different ids (reconcileToolBlocks(), anthropicMessageToOpenAI(), Merged).
THEOREM ConversationStrictlyAccepted ==
    ASSUME IdsDistinct
    PROVE  Spec => []StrictlyAccepted
<1>1. Init => ConversationInv /\ SoundTurns(turns)
  BY ConversationInitially, SoundInitially
<1>2. ConversationInv /\ SoundTurns(turns) /\ [Next]_vars => (ConversationInv /\ SoundTurns(turns))'
  <2> SUFFICES ASSUME ConversationInv, SoundTurns(turns), [Next]_vars
               PROVE  (ConversationInv /\ SoundTurns(turns))'
    OBVIOUS
  <2>1. ConversationInv'
    BY ConversationStep
  <2>2. SoundTurns(turns')
    BY SoundStep
  <2> QED BY <2>1, <2>2
<1>3. ConversationInv /\ SoundTurns(turns) => StrictlyAccepted
  BY InvStrict
<1> QED BY <1>1, <1>2, <1>3, PTL DEF Spec

------------------------------------------------------------------------------
(* What a function makes of the elements of a sequence, one after the other.   *)

LEMMA ConcatAssoc ==
    ASSUME NEW s, IsSeq(s), NEW t, IsSeq(t), NEW u, IsSeq(u)
    PROVE  (s \o t) \o u = s \o (t \o u)
<1> DEFINE S == Range(s) \cup Range(t) \cup Range(u)
<1>1. /\ Range(s) \subseteq S /\ Range(t) \subseteq S /\ Range(u) \subseteq S
      /\ s \in Seq(Range(s)) /\ t \in Seq(Range(t)) /\ u \in Seq(Range(u))
  BY DEF IsSeq
<1> HIDE DEF S
<1>2. s \in Seq(S) /\ t \in Seq(S) /\ u \in Seq(S)
  BY <1>1, SeqMonotonic
<1> QED BY <1>2, ConcatAssociative

LEMMA EmptyConcat ==
    ASSUME NEW s, IsSeq(s)
    PROVE  <<>> \o s = s
<1>1. s \in Seq(Range(s))
  BY DEF IsSeq
<1> QED BY <1>1, ConcatEmptySeq

LEMMA JoinedConcat ==
    ASSUME NEW s, AreSeqs(s), NEW t, AreSeqs(t)
    PROVE  AreSeqs(s \o t) /\ Joined(s \o t) = Joined(s) \o Joined(t)
<1> DEFINE u == s \o t
<1> DEFINE l == Len(s)
<1> DEFINE m == Len(t)
<1>1. /\ IsSeq(s) /\ IsSeq(t) /\ l \in Nat /\ m \in Nat /\ DOMAIN s = 1..l /\ DOMAIN t = 1..m
      /\ (\A i \in 1..l : IsSeq(s[i])) /\ \A i \in 1..m : IsSeq(t[i])
  BY SeqShape DEF AreSeqs
<1>2. IsSeq(u)
  BY <1>1, ConcatShape
<1>3. Len(u) = l + m
  BY <1>1, ConcatShape
<1>4. \A i \in 1..l : u[i] = s[i]
  BY <1>1, ConcatShape
<1>5. \A i \in 1..m : u[l + i] = t[i]
  BY <1>1, ConcatShape
<1> HIDE DEF u, l, m
<1>6. DOMAIN u = 1..(l + m)
  BY <1>2, <1>3, SeqShape
<1>7. \A i \in 1..(l + m) : i \in 1..l \/ (i - l \in 1..m /\ l + (i - l) = i)
  BY <1>1
<1>8. \A i \in 1..(l + m) : IsSeq(u[i])
  <2> TAKE i \in 1..(l + m)
  <2>1. CASE i \in 1..l
    BY <1>1, <1>4, <2>1
  <2>2. CASE i - l \in 1..m /\ l + (i - l) = i
    <3>1. u[l + (i - l)] = t[i - l]
      BY <1>5, <2>2
    <3> QED BY <1>1, <2>2, <3>1
  <2> QED BY <1>7, <2>1, <2>2
<1>9. AreSeqs(u)
  BY <1>2, <1>6, <1>8 DEF AreSeqs
<1>10. PICK F : JoinsUp(s, F)
  BY JoinedUp
<1>11. PICK G : JoinsUp(t, G)
  BY JoinedUp
<1>12. PICK H : JoinsUp(u, H)
  BY <1>9, JoinedUp
<1>13. /\ F[0] = <<>> /\ Joined(s) = F[l] /\ (\A i \in 1..l : F[i] = F[i - 1] \o s[i])
       /\ \A i \in 0..l : IsSeq(F[i])
  BY <1>10 DEF JoinsUp, l
<1>14. /\ G[0] = <<>> /\ Joined(t) = G[m] /\ (\A i \in 1..m : G[i] = G[i - 1] \o t[i])
       /\ \A i \in 0..m : IsSeq(G[i])
  BY <1>11 DEF JoinsUp, m
<1>15. /\ H[0] = <<>> /\ Joined(u) = H[l + m] /\ (\A i \in 1..(l + m) : H[i] = H[i - 1] \o u[i])
  BY <1>3, <1>12 DEF JoinsUp
<1> DEFINE S == {i \in 0..l : H[i] = F[i]}
<1>16. 0 \in S
  BY <1>1, <1>13, <1>15
<1>17. ASSUME NEW i \in 1..l, i - 1 \in S PROVE i \in S
  <2>1. i \in 0..l /\ i \in 1..(l + m) /\ H[i - 1] = F[i - 1]
    BY <1>1, <1>17
  <2> QED BY <1>4, <1>13, <1>15, <2>1
<1>18. \A i \in 0..l : i \in S
  <2> HIDE DEF S
  <2> QED BY <1>1, <1>16, <1>17, Upto
<1>19. H[l] = F[l] /\ IsSeq(F[l])
  <2>1. l \in 0..l
    BY <1>1
  <2> QED BY <1>13, <1>18, <2>1
<1> DEFINE T == {i \in 0..m : H[l + i] = F[l] \o G[i]}
<1>20. 0 \in T
  <2>1. l + 0 = l /\ 0 \in 0..m
    BY <1>1
  <2>2. F[l] \o <<>> = F[l]
    BY <1>19, ConcatEmpty
  <2> QED BY <1>14, <1>19, <2>1, <2>2
<1>21. ASSUME NEW i \in 1..m, i - 1 \in T PROVE i \in T
  <2>1. i \in 0..m /\ l + i \in 1..(l + m) /\ (l + i) - 1 = l + (i - 1) /\ i - 1 \in 0..m
    BY <1>1
  <2>2. H[l + (i - 1)] = F[l] \o G[i - 1]
    BY <1>21
  <2>3. H[l + i] = H[l + (i - 1)] \o u[l + i]
    BY <1>15, <2>1
  <2>4. H[l + i] = (F[l] \o G[i - 1]) \o t[i]
    BY <1>5, <2>2, <2>3
  <2>5. (F[l] \o G[i - 1]) \o t[i] = F[l] \o (G[i - 1] \o t[i])
    <3> DEFINE a == F[l]
    <3> DEFINE b == G[i - 1]
    <3> DEFINE c == t[i]
    <3>1. IsSeq(a) /\ IsSeq(b) /\ IsSeq(c)
      BY <1>1, <1>14, <1>19, <2>1
    <3> HIDE DEF a, b, c
    <3>2. (a \o b) \o c = a \o (b \o c)
      BY <3>1, ConcatAssoc
    <3> QED BY <3>2 DEF a, b, c
  <2>6. H[l + i] = F[l] \o G[i]
    BY <1>14, <2>4, <2>5
  <2> QED BY <2>1, <2>6
<1>22. \A i \in 0..m : i \in T
  <2> HIDE DEF T
  <2> QED BY <1>1, <1>20, <1>21, Upto
<1>23. H[l + m] = F[l] \o G[m]
  <2>1. m \in 0..m
    BY <1>1
  <2> QED BY <1>22, <2>1
<1> QED BY <1>9, <1>13, <1>14, <1>15, <1>23 DEF u

Spread(g, s) == Joined([i \in DOMAIN s |-> g[s[i]]])
Gives(g, s) == IsSeq(s) /\ \A i \in DOMAIN s : IsSeq(g[s[i]])

LEMMA SpreadShape ==
    ASSUME NEW g, NEW s, Gives(g, s), NEW u, u = [i \in DOMAIN s |-> g[s[i]]]
    PROVE  /\ AreSeqs(u) /\ Len(u) = Len(s) /\ DOMAIN u = DOMAIN s
           /\ \A i \in DOMAIN s : u[i] = g[s[i]]
           /\ Spread(g, s) = Joined(u) /\ IsSeq(Spread(g, s))
<1>1. Len(s) \in Nat /\ DOMAIN s = 1..Len(s)
  BY SeqShape DEF Gives
<1>2. u = [i \in 1..Len(s) |-> u[i]] /\ DOMAIN u = DOMAIN s /\ \A i \in DOMAIN s : u[i] = g[s[i]]
  BY <1>1
<1>3. \A i \in 1..Len(s) : IsSeq(u[i])
  BY <1>1, <1>2 DEF Gives
<1>4. AreSeqs(u) /\ Len(u) = Len(s) /\ IsSeq(Joined(u))
  BY <1>1, <1>2, <1>3, MapJoined
<1>5. Spread(g, s) = Joined(u)
  BY DEF Spread
<1> QED BY <1>2, <1>4, <1>5

LEMMA SpreadRange ==
    ASSUME NEW g, NEW s, Gives(g, s)
    PROVE  Range(Spread(g, s)) = UNION {Range(g[s[i]]) : i \in DOMAIN s}
<1> DEFINE u == [i \in DOMAIN s |-> g[s[i]]]
<1>1. /\ AreSeqs(u) /\ DOMAIN u = DOMAIN s /\ (\A i \in DOMAIN s : u[i] = g[s[i]])
      /\ Spread(g, s) = Joined(u)
  BY SpreadShape
<1> HIDE DEF u
<1>2. Range(Joined(u)) = UNION {Range(u[i]) : i \in DOMAIN u}
  BY <1>1, JoinedOf
<1> QED BY <1>1, <1>2

\* Nothing of nothing, and of one element what it gives.
LEMMA JoinedFew ==
    /\ Joined(<<>>) = <<>>
    /\ \A e : IsSeq(e) => Joined(<<e>>) = e
<1>1. Joined(<<>>) = <<>>
  <2>1. AreSeqs(<<>>) /\ Len(<<>>) = 0
    BY EmptyShape DEF AreSeqs
  <2>2. PICK F : JoinsUp(<<>>, F)
    BY <2>1, JoinedUp
  <2> QED BY <2>1, <2>2 DEF JoinsUp
<1>2. ASSUME NEW e, IsSeq(e) PROVE Joined(<<e>>) = e
  <2> DEFINE s == <<e>>
  <2>1. IsSeq(s) /\ Len(s) = 1 /\ s[1] = e /\ Range(s) = {e}
    BY OneShape
  <2> HIDE DEF s
  <2>2. DOMAIN s = 1..1
    BY <2>1, SeqShape
  <2>3. AreSeqs(s)
    BY <1>2, <2>1, <2>2 DEF AreSeqs
  <2>4. PICK F : JoinsUp(s, F)
    BY <2>3, JoinedUp
  <2>5. F[0] = <<>> /\ Joined(s) = F[1] /\ F[1] = F[1 - 1] \o s[1]
    BY <2>1, <2>4 DEF JoinsUp
  <2>6. 1 - 1 = 0
    OBVIOUS
  <2>7. Joined(s) = <<>> \o e
    BY <2>1, <2>5, <2>6
  <2> QED BY <1>2, <2>7, EmptyConcat DEF s
<1> QED BY <1>1, <1>2

LEMMA SpreadEmpty ==
    ASSUME NEW g
    PROVE  Spread(g, <<>>) = <<>> /\ Gives(g, <<>>)
<1> DEFINE u == [i \in DOMAIN <<>> |-> g[<<>>[i]]]
<1>1. DOMAIN <<>> = {} /\ IsSeq(<<>>)
  BY EmptyShape
<1>2. u = <<>>
  <2>1. IsSeq(u) /\ Len(u) = 0
    <3>1. u = [i \in 1..0 |-> u[i]]
      BY <1>1
    <3> HIDE DEF u
    <3> QED BY <3>1, FunShape
  <2> HIDE DEF u
  <2> QED BY <2>1, EmptyRange
<1>3. Gives(g, <<>>)
  BY <1>1 DEF Gives
<1> QED BY <1>2, <1>3, JoinedFew DEF Spread

LEMMA SpreadOne ==
    ASSUME NEW g, NEW e, IsSeq(g[e])
    PROVE  Spread(g, <<e>>) = g[e] /\ Gives(g, <<e>>)
<1> DEFINE s == <<e>>
<1> DEFINE u == [i \in DOMAIN s |-> g[s[i]]]
<1>1. IsSeq(s) /\ Len(s) = 1 /\ s[1] = e
  BY OneShape
<1> HIDE DEF s
<1>2. DOMAIN s = 1..1
  BY <1>1, SeqShape
<1>3. Gives(g, s)
  BY <1>1, <1>2 DEF Gives
<1>4. u = <<g[e]>>
  <2> DEFINE v == <<g[e]>>
  <2>1. IsSeq(v) /\ Len(v) = 1 /\ v[1] = g[e]
    BY OneShape
  <2>2. u = [i \in 1..1 |-> u[i]] /\ u[1] = g[e]
    BY <1>1, <1>2
  <2> HIDE DEF u, v
  <2>3. IsSeq(u) /\ Len(u) = 1
    BY <2>2, FunShape
  <2>4. u = v
    BY <2>1, <2>2, <2>3, SeqSame
  <2> QED BY <2>4 DEF v
<1>5. Spread(g, s) = Joined(<<g[e]>>)
  BY <1>4 DEF Spread
<1> QED BY <1>3, <1>5, JoinedFew DEF s

LEMMA SpreadConcat ==
    ASSUME NEW g, NEW s, Gives(g, s), NEW t, Gives(g, t)
    PROVE  Gives(g, s \o t) /\ Spread(g, s \o t) = Spread(g, s) \o Spread(g, t)
<1> DEFINE w == s \o t
<1> DEFINE l == Len(s)
<1> DEFINE m == Len(t)
<1>1. IsSeq(s) /\ IsSeq(t) /\ l \in Nat /\ m \in Nat /\ DOMAIN s = 1..l /\ DOMAIN t = 1..m
  BY SeqShape DEF Gives
<1>2. IsSeq(w)
  BY <1>1, ConcatShape
<1>3. Len(w) = l + m
  BY <1>1, ConcatShape
<1>4. \A i \in 1..l : w[i] = s[i]
  BY <1>1, ConcatShape
<1>5. \A i \in 1..m : w[l + i] = t[i]
  BY <1>1, ConcatShape
<1> HIDE DEF w, l, m
<1>6. DOMAIN w = 1..(l + m)
  BY <1>2, <1>3, SeqShape
<1>7. \A i \in 1..(l + m) : i \in 1..l \/ (i - l \in 1..m /\ l + (i - l) = i)
  BY <1>1
<1>8. \A i \in DOMAIN w : \/ i \in 1..l /\ w[i] = s[i]
                          \/ i - l \in 1..m /\ l + (i - l) = i /\ w[i] = t[i - l]
  BY <1>4, <1>5, <1>6, <1>7
<1>9. Gives(g, w)
  <2>1. ASSUME NEW i \in DOMAIN w PROVE IsSeq(g[w[i]])
    BY <1>1, <1>8 DEF Gives
  <2> QED BY <1>2, <2>1 DEF Gives
<1> DEFINE a == [i \in DOMAIN s |-> g[s[i]]]
<1> DEFINE b == [i \in DOMAIN t |-> g[t[i]]]
<1> DEFINE c == [i \in DOMAIN w |-> g[w[i]]]
<1>10. AreSeqs(a) /\ Len(a) = l /\ Spread(g, s) = Joined(a) /\ \A i \in DOMAIN s : a[i] = g[s[i]]
  BY SpreadShape DEF l
<1>11. AreSeqs(b) /\ Len(b) = m /\ Spread(g, t) = Joined(b) /\ \A i \in DOMAIN t : b[i] = g[t[i]]
  BY SpreadShape DEF m
<1>12. AreSeqs(c) /\ Len(c) = l + m /\ Spread(g, w) = Joined(c) /\ \A i \in DOMAIN w : c[i] = g[w[i]]
  BY <1>3, <1>9, SpreadShape
<1> DEFINE d == a \o b
<1>13. IsSeq(a) /\ IsSeq(b) /\ IsSeq(c)
  BY <1>10, <1>11, <1>12 DEF AreSeqs
<1> HIDE DEF a, b, c
<1>14. IsSeq(d)
  BY <1>13, ConcatShape
<1>15. Len(d) = l + m
  BY <1>10, <1>11, <1>13, ConcatShape
<1>16. \A i \in 1..l : d[i] = a[i]
  BY <1>10, <1>13, ConcatShape
<1>17. \A i \in 1..m : d[l + i] = b[i]
  <2>1. \A i \in 1..Len(b) : d[Len(a) + i] = b[i]
    BY <1>13, ConcatShape
  <2> QED BY <1>10, <1>11, <2>1
<1> HIDE DEF d
<1>18. \A i \in 1..(l + m) : c[i] = d[i]
  <2> TAKE i \in 1..(l + m)
  <2>1. CASE i \in 1..l
    <3>1. c[i] = g[s[i]]
      BY <1>4, <1>6, <1>12, <2>1
    <3>2. d[i] = g[s[i]]
      BY <1>1, <1>10, <1>16, <2>1
    <3> QED BY <3>1, <3>2
  <2>2. CASE i - l \in 1..m /\ l + (i - l) = i
    <3>1. c[i] = g[t[i - l]]
      BY <1>5, <1>6, <1>12, <2>2
    <3>2. d[i] = g[t[i - l]]
      BY <1>1, <1>11, <1>17, <2>2
    <3> QED BY <3>1, <3>2
  <2> QED BY <1>7, <2>1, <2>2
<1>19. c = d
  BY <1>12, <1>13, <1>14, <1>15, <1>18, SeqSame
<1>20. Joined(d) = Joined(a) \o Joined(b)
  BY <1>10, <1>11, JoinedConcat DEF d
<1> QED BY <1>9, <1>10, <1>11, <1>12, <1>19, <1>20 DEF w

LEMMA SpreadJoined ==
    ASSUME NEW s, AreSeqs(s), NEW g, \A i \in DOMAIN s : Gives(g, s[i]),
           NEW v, v = [i \in DOMAIN s |-> Spread(g, s[i])]
    PROVE  Gives(g, Joined(s)) /\ AreSeqs(v) /\ Spread(g, Joined(s)) = Joined(v)
<1> DEFINE n == Len(s)
<1>1. IsSeq(s) /\ n \in Nat /\ DOMAIN s = 1..n
  BY SeqShape DEF AreSeqs
<1>2. v = [i \in 1..n |-> v[i]] /\ \A i \in 1..n : v[i] = Spread(g, s[i])
  BY <1>1
<1>3. \A i \in 1..n : IsSeq(v[i])
  BY <1>1, <1>2, SpreadShape
<1>4. AreSeqs(v) /\ Len(v) = n
  BY <1>1, <1>2, <1>3, MapJoined
<1>5. PICK F : JoinsUp(s, F)
  BY JoinedUp
<1>6. PICK G : JoinsUp(v, G)
  BY <1>4, JoinedUp
<1>7. F[0] = <<>> /\ Joined(s) = F[n] /\ \A i \in 1..n : F[i] = F[i - 1] \o s[i]
  BY <1>5 DEF JoinsUp
<1>8. G[0] = <<>> /\ Joined(v) = G[n] /\ \A i \in 1..n : G[i] = G[i - 1] \o v[i]
  BY <1>4, <1>6 DEF JoinsUp
<1> HIDE DEF n
<1> DEFINE S == {i \in 0..n : Gives(g, F[i]) /\ Spread(g, F[i]) = G[i]}
<1>9. 0 \in S
  BY <1>1, <1>7, <1>8, SpreadEmpty
<1>10. ASSUME NEW i \in 1..n, i - 1 \in S PROVE i \in S
  <2>1. i \in 0..n /\ Gives(g, F[i - 1]) /\ Spread(g, F[i - 1]) = G[i - 1] /\ Gives(g, s[i])
    BY <1>1, <1>10
  <2>2. Gives(g, F[i - 1] \o s[i]) /\ Spread(g, F[i - 1] \o s[i]) = G[i - 1] \o Spread(g, s[i])
    <3> DEFINE a == F[i - 1]
    <3> DEFINE b == s[i]
    <3>1. Gives(g, a) /\ Gives(g, b) /\ Spread(g, a) = G[i - 1]
      BY <2>1
    <3> HIDE DEF a, b
    <3>2. Gives(g, a \o b) /\ Spread(g, a \o b) = Spread(g, a) \o Spread(g, b)
      BY <3>1, SpreadConcat
    <3> QED BY <3>1, <3>2 DEF a, b
  <2> QED BY <1>2, <1>7, <1>8, <2>1, <2>2
<1>11. \A i \in 0..n : i \in S
  <2> HIDE DEF S
  <2> QED BY <1>1, <1>9, <1>10, Upto
<1>12. n \in 0..n
  BY <1>1
<1> QED BY <1>4, <1>7, <1>8, <1>11, <1>12

LEMMA SpreadSame ==
    ASSUME NEW g, NEW h, NEW s, NEW t, DOMAIN s = DOMAIN t, \A i \in DOMAIN s : g[s[i]] = h[t[i]]
    PROVE  Spread(g, s) = Spread(h, t)
<1>1. [i \in DOMAIN s |-> g[s[i]]] = [i \in DOMAIN t |-> h[t[i]]]
  OBVIOUS
<1> QED BY <1>1 DEF Spread

------------------------------------------------------------------------------
(* What a filter keeps.                                                        *)

Chosen(S, B) == [x \in B |-> IF x \in S THEN <<x>> ELSE <<>>]

LEMMA GivesOn ==
    ASSUME NEW g, NEW s, IsSeq(s)
    PROVE  Gives(g, s) <=> \A x \in Range(s) : IsSeq(g[x])
BY DEF Gives, Range

LEMMA SpreadAgree ==
    ASSUME NEW g, NEW h, NEW s, \A x \in Range(s) : g[x] = h[x]
    PROVE  Spread(g, s) = Spread(h, s)
<1>1. \A i \in DOMAIN s : g[s[i]] = h[s[i]]
  BY DEF Range
<1> QED BY <1>1, SpreadSame

LEMMA ChosenIs ==
    ASSUME NEW S, NEW B
    PROVE  /\ \A x \in B \cap S : Chosen(S, B)[x] = <<x>>
           /\ \A x \in B \ S : Chosen(S, B)[x] = <<>>
           /\ \A x \in B : IsSeq(Chosen(S, B)[x])
<1>1. /\ \A x \in B \cap S : Chosen(S, B)[x] = <<x>>
      /\ \A x \in B \ S : Chosen(S, B)[x] = <<>>
  BY DEF Chosen
<1>2. ASSUME NEW x \in B PROVE IsSeq(Chosen(S, B)[x])
  <2>1. IsSeq(<<x>>) /\ IsSeq(<<>>)
    BY OneShape, EmptyShape
  <2>2. Chosen(S, B)[x] = <<x>> \/ Chosen(S, B)[x] = <<>>
    BY <1>1
  <2> QED BY <2>1, <2>2
<1> QED BY <1>1, <1>2

LEMMA ChosenGives ==
    ASSUME NEW S, NEW B, NEW s, IsSeq(s), Range(s) \subseteq B
    PROVE  Gives(Chosen(S, B), s)
BY ChosenIs, GivesOn

LEMMA OnlyIsSpread ==
    ASSUME NEW S, NEW B, NEW s, IsSeq(s), Range(s) \subseteq B
    PROVE  Only(s, S) = Spread(Chosen(S, B), s)
<1> DEFINE g == Chosen(S, B)
<1>1. (\A x \in B \cap S : g[x] = <<x>>) /\ \A x \in B \ S : g[x] = <<>>
  BY ChosenIs
<1> HIDE DEF g
<1>2. \A i \in DOMAIN s : s[i] \in B
  BY DEF Range
<1>3. ASSUME NEW i \in DOMAIN s PROVE g[s[i]] = IF s[i] \in S THEN <<s[i]>> ELSE <<>>
  <2> DEFINE x == s[i]
  <2>1. x \in B
    BY <1>2
  <2> HIDE DEF x
  <2>2. g[x] = IF x \in S THEN <<x>> ELSE <<>>
    BY <1>1, <2>1
  <2> QED BY <2>2 DEF x
<1>4. [i \in DOMAIN s |-> g[s[i]]] = Singles(s, S)
  BY <1>3 DEF Singles
<1>5. Only(s, S) = Spread(g, s)
  BY <1>4, OnlyIsJoined DEF Spread
<1> QED BY <1>5 DEF g

LEMMA OnlyConcat ==
    ASSUME NEW S, NEW s, IsSeq(s), NEW t, IsSeq(t)
    PROVE  Only(s \o t, S) = Only(s, S) \o Only(t, S)
<1> DEFINE B == Range(s) \cup Range(t)
<1> DEFINE g == Chosen(S, B)
<1> DEFINE u == s \o t
<1>1. IsSeq(u) /\ Range(u) = B
  BY ConcatRange
<1>2. Range(s) \subseteq B /\ Range(t) \subseteq B /\ Range(u) \subseteq B
  BY <1>1
<1> HIDE DEF B, u
<1>3. Gives(g, s) /\ Gives(g, t)
  BY <1>2, ChosenGives
<1>4. Only(u, S) = Spread(g, u) /\ Only(s, S) = Spread(g, s) /\ Only(t, S) = Spread(g, t)
  BY <1>1, <1>2, OnlyIsSpread
<1> HIDE DEF g
<1>5. Spread(g, s \o t) = Spread(g, s) \o Spread(g, t)
  BY <1>3, SpreadConcat
<1> QED BY <1>4, <1>5 DEF u

LEMMA OnlyFew ==
    ASSUME NEW S
    PROVE  Only(<<>>, S) = <<>> /\ \A e : Only(<<e>>, S) = IF e \in S THEN <<e>> ELSE <<>>
<1>1. Only(<<>>, S) = <<>>
  <2>1. IsSeq(<<>>) /\ Range(<<>>) = {}
    BY EmptyShape, EmptyRange
  <2>2. Only(<<>>, S) = Spread(Chosen(S, {}), <<>>)
    BY <2>1, OnlyIsSpread
  <2> QED BY <2>2, SpreadEmpty
<1>2. ASSUME NEW e PROVE Only(<<e>>, S) = IF e \in S THEN <<e>> ELSE <<>>
  <2> DEFINE s == <<e>>
  <2> DEFINE g == Chosen(S, {e})
  <2>1. IsSeq(s) /\ Range(s) = {e}
    BY OneShape
  <2> HIDE DEF s
  <2>2. Only(s, S) = Spread(g, s)
    BY <2>1, OnlyIsSpread
  <2>3. g[e] = IF e \in S THEN <<e>> ELSE <<>>
    BY DEF Chosen
  <2> HIDE DEF g
  <2>4. IsSeq(g[e])
    BY <2>3, OneShape, EmptyShape
  <2>5. Spread(g, <<e>>) = g[e]
    BY <2>4, SpreadOne
  <2> QED BY <2>2, <2>3, <2>5 DEF s
<1> QED BY <1>1, <1>2

LEMMA OnlyNone ==
    ASSUME NEW S, NEW s, IsSeq(s), Range(s) \cap S = {}
    PROVE  Only(s, S) = <<>>
<1>1. IsSeq(Only(s, S)) /\ Range(Only(s, S)) = {}
  BY OnlyOf
<1> QED BY <1>1, EmptyRange

LEMMA OnlyAll ==
    ASSUME NEW S, NEW s, IsSeq(s), Range(s) \subseteq S
    PROVE  Only(s, S) = s
<1> DEFINE u == Singles(s, S)
<1> DEFINE r == Joined(u)
<1> DEFINE n == Len(s)
<1>1. n \in Nat /\ DOMAIN s = 1..n /\ \A i \in 1..n : s[i] \in S
  BY SeqShape DEF Range
<1>2. /\ AreSeqs(u) /\ Len(u) = n
      /\ \A i \in 1..n : u[i] = IF s[i] \in S THEN <<s[i]>> ELSE <<>>
  BY SinglesShape
<1> HIDE DEF u
<1>3. \A i \in 1..n : Len(u[i]) = 1 /\ u[i][1] = s[i]
  <2> TAKE i \in 1..n
  <2>1. u[i] = <<s[i]>>
    BY <1>1, <1>2
  <2> QED BY <2>1, OneShape
<1>4. PICK off : Placed(u, n, r, off)
  BY <1>2, JoinedPlaced
<1>5. /\ IsSeq(r) /\ Len(r) = off[n + 1] /\ off[1] = 0
      /\ \A i \in 1..n : off[i + 1] = off[i] + 1
      /\ \A i \in 1..n : r[off[i] + 1] = s[i]
  <2> HIDE DEF n, r
  <2>1. \A i \in 1..n : 1 \in 1..Len(u[i])
    BY <1>3
  <2> QED BY <1>3, <1>4, <2>1 DEF Placed
<1> HIDE DEF n, r
<1> DEFINE T == {i \in 0..n : off[i + 1] = i}
<1>6. 0 \in T
  <2>1. 0 + 1 = 1 /\ 0 \in 0..n
    BY <1>1
  <2> QED BY <1>5, <2>1
<1>7. ASSUME NEW i \in 1..n, i - 1 \in T PROVE i \in T
  <2>1. (i - 1) + 1 = i /\ i \in 0..n
    BY <1>1
  <2>2. off[i] = i - 1
    BY <1>7, <2>1
  <2> QED BY <1>5, <2>1, <2>2
<1>8. \A i \in 0..n : i \in T
  <2> HIDE DEF T
  <2> QED BY <1>1, <1>6, <1>7, Upto
<1>9. Len(r) = n
  <2>1. n \in 0..n
    BY <1>1
  <2> QED BY <1>5, <1>8, <2>1
<1>10. \A i \in 1..n : r[i] = s[i]
  <2> TAKE i \in 1..n
  <2>1. i - 1 \in 0..n /\ (i - 1) + 1 = i
    BY <1>1
  <2>2. off[i] + 1 = i
    BY <1>8, <2>1
  <2> QED BY <1>5, <2>2
<1>11. r = s
  BY <1>5, <1>9, <1>10, SeqSame DEF n
<1> QED BY <1>11, OnlyIsJoined DEF r, u

LEMMA OnlyAgree ==
    ASSUME NEW s, IsSeq(s), NEW S, NEW T, \A x \in Range(s) : x \in S <=> x \in T
    PROVE  Only(s, S) = Only(s, T)
<1> DEFINE B == Range(s)
<1>0. Range(s) \subseteq B
  OBVIOUS
<1> HIDE DEF B
<1> DEFINE g == Chosen(S, B)
<1> DEFINE h == Chosen(T, B)
<1>1. (\A x \in B \cap S : g[x] = <<x>>) /\ \A x \in B \ S : g[x] = <<>>
  BY ChosenIs
<1>4. (\A x \in B \cap T : h[x] = <<x>>) /\ \A x \in B \ T : h[x] = <<>>
  BY ChosenIs
<1>5. Only(s, S) = Spread(g, s)
  BY <1>0, OnlyIsSpread
<1>6. Only(s, T) = Spread(h, s)
  BY <1>0, OnlyIsSpread
<1> HIDE DEF g, h
<1>3. \A x \in Range(s) : g[x] = h[x]
  BY <1>0, <1>1, <1>4
<1>7. Spread(g, s) = Spread(h, s)
  BY <1>3, SpreadAgree
<1> QED BY <1>5, <1>6, <1>7

\* What g makes of those that are kept.
LEMMA SpreadOnly ==
    ASSUME NEW s, IsSeq(s), NEW S, NEW g, NEW h,
           \A x \in Range(s) : IsSeq(g[x]) /\ h[x] = IF x \in S THEN g[x] ELSE <<>>
    PROVE  Spread(g, Only(s, S)) = Spread(h, s) /\ Gives(h, s) /\ Gives(g, Only(s, S))
<1> DEFINE u == Singles(s, S)
<1> DEFINE v == [i \in DOMAIN u |-> Spread(g, u[i])]
<1>1. Len(s) \in Nat /\ DOMAIN s = 1..Len(s)
  BY SeqShape
<1>2. /\ AreSeqs(u) /\ Len(u) = Len(s)
      /\ \A i \in 1..Len(s) : u[i] = IF s[i] \in S THEN <<s[i]>> ELSE <<>>
  BY SinglesShape
<1>3. Only(s, S) = Joined(u)
  BY OnlyIsJoined
<1> HIDE DEF u
<1>4. DOMAIN u = DOMAIN s
  BY <1>1, <1>2, SeqShape DEF AreSeqs
<1>5. \A i \in DOMAIN s : Gives(g, u[i]) /\ Spread(g, u[i]) = h[s[i]]
  <2> TAKE i \in DOMAIN s
  <2> DEFINE x == s[i]
  <2>0. x \in Range(s) /\ u[i] = IF x \in S THEN <<x>> ELSE <<>>
    BY <1>1, <1>2 DEF Range
  <2> HIDE DEF x
  <2>1. CASE x \in S
    <3>1. u[i] = <<x>> /\ h[x] = g[x] /\ IsSeq(g[x])
      BY <2>0, <2>1
    <3>2. Gives(g, <<x>>) /\ Spread(g, <<x>>) = g[x]
      BY <3>1, SpreadOne
    <3> QED BY <3>1, <3>2 DEF x
  <2>2. CASE x \notin S
    <3>1. u[i] = <<>> /\ h[x] = <<>>
      BY <2>0, <2>2
    <3> QED BY <3>1, SpreadEmpty DEF x
  <2> QED BY <2>1, <2>2
<1>6. Gives(g, Joined(u)) /\ Spread(g, Joined(u)) = Joined(v)
  BY <1>2, <1>4, <1>5, SpreadJoined
<1>7. v = [i \in DOMAIN s |-> h[s[i]]]
  BY <1>4, <1>5
<1>8. Gives(h, s)
  <2>1. \A x \in Range(s) : IsSeq(h[x])
    BY EmptyShape
  <2> QED BY <2>1, GivesOn
<1> QED BY <1>3, <1>6, <1>7, <1>8 DEF Spread

\* What is kept of what g makes.
LEMMA OnlySpread ==
    ASSUME NEW s, NEW g, Gives(g, s), NEW S, NEW h, \A x \in Range(s) : h[x] = Only(g[x], S)
    PROVE  Only(Spread(g, s), S) = Spread(h, s) /\ Gives(h, s)
<1> DEFINE u == [i \in DOMAIN s |-> g[s[i]]]
<1>1. /\ AreSeqs(u) /\ DOMAIN u = DOMAIN s /\ (\A i \in DOMAIN s : u[i] = g[s[i]])
      /\ Spread(g, s) = Joined(u) /\ IsSeq(Joined(u))
  BY SpreadShape
<1> HIDE DEF u
<1>8. \A i \in DOMAIN s : s[i] \in Range(s)
  BY DEF Range
<1> DEFINE B == Range(Joined(u))
<1> DEFINE c == Chosen(S, B)
<1> DEFINE v == [i \in DOMAIN u |-> Spread(c, u[i])]
<1>2. Only(Joined(u), S) = Spread(c, Joined(u))
  BY <1>1, OnlyIsSpread
<1>3. \A i \in DOMAIN u : IsSeq(u[i]) /\ Range(u[i]) \subseteq B
  <2>1. B = UNION {Range(u[i]) : i \in DOMAIN u}
    BY <1>1, JoinedOf
  <2> QED BY <1>1, <2>1 DEF AreSeqs
<1> HIDE DEF B
<1>4. \A i \in DOMAIN u : Gives(c, u[i]) /\ Spread(c, u[i]) = Only(u[i], S)
  <2> TAKE i \in DOMAIN u
  <2>1. IsSeq(u[i]) /\ Range(u[i]) \subseteq B
    BY <1>3
  <2> QED BY <2>1, ChosenGives, OnlyIsSpread
<1> HIDE DEF c
<1>5. Spread(c, Joined(u)) = Joined(v)
  BY <1>1, <1>4, SpreadJoined
<1>6. v = [i \in DOMAIN s |-> h[s[i]]]
  BY <1>1, <1>4, <1>8
<1>7. Gives(h, s)
  <2>0. IsSeq(s)
    BY DEF Gives
  <2>1. \A x \in Range(s) : IsSeq(g[x])
    BY <2>0, GivesOn
  <2>2. \A x \in Range(s) : IsSeq(h[x])
    BY <2>1, OnlyOf
  <2> QED BY <2>0, <2>2, GivesOn
<1> QED BY <1>1, <1>2, <1>5, <1>6, <1>7 DEF Spread

LEMMA OnlyOnly ==
    ASSUME NEW s, IsSeq(s), NEW S, NEW T
    PROVE  Only(Only(s, S), T) = Only(s, S \cap T)
<1> DEFINE B == Range(s)
<1> DEFINE t == Only(s, S)
<1>1. IsSeq(t) /\ Range(t) \subseteq B /\ Range(s) = B
  BY OnlyOf
<1> HIDE DEF t, B
<1> DEFINE g == Chosen(T, B)
<1> DEFINE h == Chosen(S \cap T, B)
<1>2. Only(t, T) = Spread(g, t)
  BY <1>1, OnlyIsSpread
<1>7. Only(s, S \cap T) = Spread(h, s)
  BY <1>1, OnlyIsSpread
<1>3. (\A x \in B \cap T : g[x] = <<x>>) /\ (\A x \in B \ T : g[x] = <<>>) /\ \A x \in B : IsSeq(g[x])
  BY ChosenIs
<1>8. (\A x \in B \cap (S \cap T) : h[x] = <<x>>) /\ \A x \in B \ (S \cap T) : h[x] = <<>>
  BY ChosenIs
<1> HIDE DEF g, h
<1>5. \A x \in Range(s) : IsSeq(g[x]) /\ h[x] = IF x \in S THEN g[x] ELSE <<>>
  BY <1>1, <1>3, <1>8
<1>6. Spread(g, Only(s, S)) = Spread(h, s)
  BY <1>5, SpreadOnly
<1> QED BY <1>2, <1>6, <1>7 DEF t

------------------------------------------------------------------------------
(* What content tells the other side: its blocks of some types, but images of  *)
(* an unknown source.                                                          *)

Blocks(content) == IsSeq(content) /\ \A b \in Range(content) : IsSeq(b.says)
Sourced(content) == {b \in Range(content) : b.ref # "unknown source"}
Told(types, content) == Says(types, Only(content, Sourced(content)))

Speech(types, B) == [b \in B |-> IF b.type \in types THEN b.says ELSE <<>>]
Voice(types, B) == [b \in B |-> IF b.type \in types /\ b.ref # "unknown source" THEN b.says ELSE <<>>]

IsVoice(h, types, B) ==
    /\ \A b \in B : b.type \in types /\ b.ref # "unknown source" => h[b] = b.says
    /\ \A b \in B : b.type \notin types \/ b.ref = "unknown source" => h[b] = <<>>
IsSpeech(g, types, B) ==
    /\ \A b \in B : b.type \in types => g[b] = b.says
    /\ \A b \in B : b.type \notin types => g[b] = <<>>

LEMMA VoiceIs ==
    ASSUME NEW types, NEW B
    PROVE  IsVoice(Voice(types, B), types, B)
BY DEF Voice, IsVoice

LEMMA SpeechIs ==
    ASSUME NEW types, NEW B
    PROVE  IsSpeech(Speech(types, B), types, B)
BY DEF Speech, IsSpeech

LEMMA SaysIsSpread ==
    ASSUME NEW types, NEW content, Blocks(content), NEW B, Range(content) \subseteq B
    PROVE  Says(types, content) = Spread(Speech(types, B), content) /\ Gives(Speech(types, B), content)
<1> DEFINE g == Speech(types, B)
<1>1. IsSpeech(g, types, B)
  BY SpeechIs
<1> HIDE DEF g
<1>2. \A i \in DOMAIN content : content[i] \in B
  BY DEF Range
<1>3. ASSUME NEW i \in DOMAIN content
      PROVE  g[content[i]] = IF content[i].type \in types THEN content[i].says ELSE <<>>
  <2> DEFINE b == content[i]
  <2>1. b \in B
    BY <1>2
  <2> HIDE DEF b
  <2>2. g[b] = IF b.type \in types THEN b.says ELSE <<>>
    BY <1>1, <2>1 DEF IsSpeech
  <2> QED BY <2>2 DEF b
<1>4. [i \in DOMAIN content |-> g[content[i]]] =
          [i \in DOMAIN content |-> IF content[i].type \in types THEN content[i].says ELSE <<>>]
  BY <1>3
<1>5. Says(types, content) = Spread(g, content)
  BY <1>4 DEF Says, Spread
<1>6. ASSUME NEW b \in Range(content) PROVE IsSeq(g[b])
  <2>1. IsSeq(b.says) /\ IsSeq(<<>>) /\ b \in B
    BY EmptyShape DEF Blocks
  <2> QED BY <1>1, <2>1 DEF IsSpeech
<1>7. Gives(g, content)
  BY <1>6, GivesOn DEF Blocks
<1> QED BY <1>5, <1>7 DEF g

LEMMA ToldIsSpread ==
    ASSUME NEW types, NEW content, Blocks(content), NEW B, Range(content) \subseteq B
    PROVE  Told(types, content) = Spread(Voice(types, B), content) /\ Gives(Voice(types, B), content)
<1> DEFINE g == Speech(types, B)
<1> DEFINE h == Voice(types, B)
<1> DEFINE S == Sourced(content)
<1> DEFINE kept == Only(content, S)
<1>1. IsSpeech(g, types, B)
  BY SpeechIs
<1>2. IsVoice(h, types, B)
  BY VoiceIs
<1>3. \A b \in Range(content) : b \in S <=> b.ref # "unknown source"
  BY DEF Sourced
<1>4. IsSeq(content) /\ \A b \in Range(content) : IsSeq(b.says)
  BY DEF Blocks
<1>5. IsSeq(kept) /\ Range(kept) \subseteq Range(content)
  BY <1>4, OnlyOf
<1>6. Told(types, content) = Says(types, kept)
  BY DEF Told
<1> HIDE DEF S, kept
<1>7. Blocks(kept) /\ Range(kept) \subseteq B
  BY <1>4, <1>5 DEF Blocks
<1>8. Says(types, kept) = Spread(g, kept)
  BY <1>7, SaysIsSpread
<1> HIDE DEF g, h
<1>9. ASSUME NEW b \in Range(content) PROVE IsSeq(g[b]) /\ h[b] = IF b \in S THEN g[b] ELSE <<>>
  <2>1. IsSeq(b.says) /\ IsSeq(<<>>) /\ b \in B
    BY <1>4, EmptyShape
  <2> QED BY <1>1, <1>2, <1>3, <2>1 DEF IsSpeech, IsVoice
<1>10. Spread(g, Only(content, S)) = Spread(h, content) /\ Gives(h, content)
  BY <1>4, <1>9, SpreadOnly
<1> QED BY <1>6, <1>8, <1>10 DEF kept, h

LEMMA ToldRange ==
    ASSUME NEW types, NEW content, Blocks(content)
    PROVE  /\ IsSeq(Told(types, content))
           /\ \A u \in Range(Told(types, content)) :
                  \E b \in Range(content) : b.type \in types /\ b.ref # "unknown source" /\ u \in Range(b.says)
<1> DEFINE B == Range(content)
<1>1. Range(content) = B
  OBVIOUS
<1> HIDE DEF B
<1> DEFINE h == Voice(types, B)
<1>2. Told(types, content) = Spread(h, content) /\ Gives(h, content)
  BY <1>1, ToldIsSpread
<1>3. IsVoice(h, types, B)
  BY VoiceIs
<1> HIDE DEF h
<1>4. IsSeq(Spread(h, content))
  BY <1>2, SpreadShape
<1>5. Range(Spread(h, content)) = UNION {Range(h[content[i]]) : i \in DOMAIN content}
  BY <1>2, SpreadRange
<1>6. ASSUME NEW u \in Range(Spread(h, content))
      PROVE  \E b \in B : b.type \in types /\ b.ref # "unknown source" /\ u \in Range(b.says)
  <2>1. PICK i \in DOMAIN content : u \in Range(h[content[i]])
    BY <1>5
  <2> DEFINE b == content[i]
  <2>2. b \in B /\ u \in Range(h[b])
    BY <1>1, <2>1 DEF Range
  <2> HIDE DEF b
  <2>3. Range(<<>>) = {}
    BY EmptyShape, EmptyRange
  <2> QED BY <1>3, <2>2, <2>3 DEF IsVoice
<1> QED BY <1>1, <1>2, <1>4, <1>6

LEMMA ToldConcat ==
    ASSUME NEW types, NEW a, Blocks(a), NEW b, Blocks(b)
    PROVE  Blocks(a \o b) /\ Told(types, a \o b) = Told(types, a) \o Told(types, b)
<1> DEFINE u == a \o b
<1> DEFINE B == Range(u)
<1>1. IsSeq(a) /\ IsSeq(b) /\ (\A x \in Range(a) : IsSeq(x.says)) /\ \A x \in Range(b) : IsSeq(x.says)
  BY DEF Blocks
<1>2. IsSeq(u) /\ B = Range(a) \cup Range(b)
  BY <1>1, ConcatRange
<1>3. Range(u) = B
  OBVIOUS
<1> HIDE DEF u, B
<1>4. Blocks(u)
  BY <1>1, <1>2, <1>3 DEF Blocks
<1> DEFINE h == Voice(types, B)
<1>5. Told(types, u) = Spread(h, u)
  BY <1>3, <1>4, ToldIsSpread
<1>6. Range(a) \subseteq B /\ Range(b) \subseteq B
  BY <1>2
<1>7. Told(types, a) = Spread(h, a) /\ Gives(h, a)
  BY <1>6, ToldIsSpread
<1>8. Told(types, b) = Spread(h, b) /\ Gives(h, b)
  BY <1>6, ToldIsSpread
<1> HIDE DEF h
<1>9. Spread(h, a \o b) = Spread(h, a) \o Spread(h, b)
  BY <1>7, <1>8, SpreadConcat
<1> QED BY <1>4, <1>5, <1>7, <1>8, <1>9 DEF u

\* What is dropped says nothing.
LEMMA ToldOnly ==
    ASSUME NEW types, NEW content, Blocks(content), NEW S,
           \A b \in Range(content) \ S : b.type \notin types \/ b.ref = "unknown source" \/ b.says = <<>>
    PROVE  Blocks(Only(content, S)) /\ Told(types, Only(content, S)) = Told(types, content)
<1> DEFINE B == Range(content)
<1> DEFINE kept == Only(content, S)
<1>1. IsSeq(content) /\ \A b \in B : IsSeq(b.says)
  BY DEF Blocks
<1>2. IsSeq(kept) /\ Range(kept) \subseteq B
  BY <1>1, OnlyOf
<1>3. Range(content) = B
  OBVIOUS
<1> HIDE DEF B, kept
<1>4. Blocks(kept)
  BY <1>1, <1>2 DEF Blocks
<1> DEFINE h == Voice(types, B)
<1>5. Told(types, content) = Spread(h, content) /\ Gives(h, content)
  BY <1>3, ToldIsSpread
<1>6. Told(types, kept) = Spread(h, kept)
  BY <1>2, <1>4, ToldIsSpread
<1>7. IsVoice(h, types, B)
  BY VoiceIs
<1> HIDE DEF h
<1>8. \A b \in Range(content) : IsSeq(h[b])
  BY <1>1, <1>5, GivesOn
<1>9. \A b \in Range(content) : IsSeq(h[b]) /\ h[b] = IF b \in S THEN h[b] ELSE <<>>
  BY <1>3, <1>7, <1>8 DEF IsVoice
<1>10. Spread(h, Only(content, S)) = Spread(h, content)
  BY <1>1, <1>9, SpreadOnly
<1> QED BY <1>4, <1>5, <1>6, <1>10 DEF kept

LEMMA ToldFew ==
    ASSUME NEW types
    PROVE  /\ Blocks(<<>>) /\ Told(types, <<>>) = <<>>
           /\ \A b : IsSeq(b.says) =>
                Blocks(<<b>>) /\ Told(types, <<b>>) = IF b.type \in types /\ b.ref # "unknown source"
                                                      THEN b.says ELSE <<>>
<1>1. Blocks(<<>>) /\ Told(types, <<>>) = <<>>
  <2>1. IsSeq(<<>>) /\ Range(<<>>) = {}
    BY EmptyShape, EmptyRange
  <2>2. Blocks(<<>>)
    BY <2>1 DEF Blocks
  <2> DEFINE h == Voice(types, {})
  <2>3. Told(types, <<>>) = Spread(h, <<>>)
    BY <2>1, <2>2, ToldIsSpread
  <2> HIDE DEF h
  <2> QED BY <2>2, <2>3, SpreadEmpty
<1>2. ASSUME NEW b, IsSeq(b.says)
      PROVE  Blocks(<<b>>) /\ Told(types, <<b>>) = IF b.type \in types /\ b.ref # "unknown source"
                                                   THEN b.says ELSE <<>>
  <2> DEFINE s == <<b>>
  <2>1. IsSeq(s) /\ Range(s) = {b}
    BY OneShape
  <2> HIDE DEF s
  <2>2. Blocks(s)
    BY <1>2, <2>1 DEF Blocks
  <2> DEFINE h == Voice(types, {b})
  <2>3. Told(types, s) = Spread(h, s) /\ Gives(h, s)
    BY <2>1, <2>2, ToldIsSpread
  <2>4. h[b] = IF b.type \in types /\ b.ref # "unknown source" THEN b.says ELSE <<>>
    <3>1. IsVoice(h, types, {b})
      BY VoiceIs
    <3> HIDE DEF h
    <3> QED BY <3>1 DEF IsVoice
  <2> HIDE DEF h
  <2>5. IsSeq(h[b])
    BY <2>1, <2>3, GivesOn
  <2>6. Spread(h, <<b>>) = h[b]
    BY <2>5, SpreadOne
  <2> QED BY <2>2, <2>3, <2>4, <2>6 DEF s
<1> QED BY <1>1, <1>2

\* Blocks of other types tell nothing.
LEMMA ToldNone ==
    ASSUME NEW types, NEW content, Blocks(content), \A b \in Range(content) : b.type \notin types
    PROVE  Told(types, content) = <<>>
<1>1. IsSeq(Told(types, content)) /\ Range(Told(types, content)) = {}
  BY ToldRange
<1> QED BY <1>1, EmptyRange

LEMMA ToldIsSays ==
    ASSUME NEW types, NEW content, Blocks(content),
           \A b \in Range(content) : b.type \in types => b.ref # "unknown source"
    PROVE  Told(types, content) = Says(types, content)
<1> DEFINE B == Range(content)
<1>1. Range(content) = B
  OBVIOUS
<1> HIDE DEF B
<1> DEFINE g == Speech(types, B)
<1> DEFINE h == Voice(types, B)
<1>2. IsSpeech(g, types, B)
  BY SpeechIs
<1>3. IsVoice(h, types, B)
  BY VoiceIs
<1>4. Says(types, content) = Spread(g, content)
  BY <1>1, SaysIsSpread
<1>5. Told(types, content) = Spread(h, content)
  BY <1>1, ToldIsSpread
<1> HIDE DEF g, h
<1>6. \A b \in Range(content) : g[b] = h[b]
  BY <1>1, <1>2, <1>3 DEF IsSpeech, IsVoice
<1>7. Spread(g, content) = Spread(h, content)
  BY <1>6, SpreadAgree
<1> QED BY <1>4, <1>5, <1>7

------------------------------------------------------------------------------
(* What messages tell.                                                         *)

Plain(m) ==
    /\ m.role \in {"user", "assistant", "system"} /\ Blocks(m.content)
    /\ \A b \in Range(m.content) : b.type = "text" => b.ref # "unknown source"
AllPlain(messages) == IsSeq(messages) /\ \A m \in Range(messages) : Plain(m)
Heard(types, messages) == Joined([i \in DOMAIN messages |-> Told(types, messages[i].content)])

Tells(types, B) == [m \in B |-> Told(types, m.content)]
IsTelling(g, types, B) == \A m \in B : g[m] = Told(types, m.content)

LEMMA TellsIs ==
    ASSUME NEW types, NEW B
    PROVE  IsTelling(Tells(types, B), types, B)
BY DEF Tells, IsTelling

LEMMA HeardIsSpread ==
    ASSUME NEW types, NEW s, AllPlain(s), NEW B, Range(s) \subseteq B
    PROVE  Heard(types, s) = Spread(Tells(types, B), s) /\ Gives(Tells(types, B), s)
<1> DEFINE g == Tells(types, B)
<1>1. IsTelling(g, types, B)
  BY TellsIs
<1> HIDE DEF g
<1>2. \A i \in DOMAIN s : s[i] \in B
  BY DEF Range
<1>3. ASSUME NEW i \in DOMAIN s PROVE g[s[i]] = Told(types, s[i].content)
  BY <1>1, <1>2 DEF IsTelling
<1>4. [i \in DOMAIN s |-> g[s[i]]] = [i \in DOMAIN s |-> Told(types, s[i].content)]
  BY <1>3
<1>5. Heard(types, s) = Spread(g, s)
  BY <1>4 DEF Heard, Spread
<1>6. ASSUME NEW m \in Range(s) PROVE IsSeq(g[m])
  <2>1. Blocks(m.content) /\ m \in B
    BY DEF AllPlain, Plain
  <2>2. IsSeq(Told(types, m.content))
    BY <2>1, ToldRange
  <2> QED BY <1>1, <2>1, <2>2 DEF IsTelling
<1>7. Gives(g, s)
  BY <1>6, GivesOn DEF AllPlain
<1> QED BY <1>5, <1>7 DEF g

LEMMA HeardShape ==
    ASSUME NEW types, NEW s, AllPlain(s)
    PROVE  IsSeq(Heard(types, s))
<1> DEFINE g == Tells(types, Range(s))
<1>1. Heard(types, s) = Spread(g, s) /\ Gives(g, s)
  BY HeardIsSpread
<1> HIDE DEF g
<1> QED BY <1>1, SpreadShape

LEMMA HeardJoined ==
    ASSUME NEW types, NEW p, AreSeqs(p), \A i \in DOMAIN p : AllPlain(p[i]),
           NEW v, v = [i \in DOMAIN p |-> Heard(types, p[i])]
    PROVE  AllPlain(Joined(p)) /\ Heard(types, Joined(p)) = Joined(v)
<1> DEFINE r == Joined(p)
<1> DEFINE B == Range(r)
<1>1. IsSeq(r) /\ B = UNION {Range(p[i]) : i \in DOMAIN p}
  BY JoinedOf
<1>2. Range(r) = B
  OBVIOUS
<1> HIDE DEF r, B
<1>3. ASSUME NEW m \in B PROVE Plain(m)
  <2>1. PICK i \in DOMAIN p : m \in Range(p[i])
    BY <1>1
  <2> QED BY <2>1 DEF AllPlain
<1>4. AllPlain(r)
  BY <1>1, <1>2, <1>3 DEF AllPlain
<1> DEFINE g == Tells(types, B)
<1>5. Heard(types, r) = Spread(g, r)
  BY <1>2, <1>4, HeardIsSpread
<1>6. ASSUME NEW i \in DOMAIN p PROVE Heard(types, p[i]) = Spread(g, p[i]) /\ Gives(g, p[i])
  <2> DEFINE q == p[i]
  <2>1. AllPlain(q) /\ Range(q) \subseteq B
    BY <1>1
  <2> HIDE DEF q
  <2>2. Heard(types, q) = Spread(g, q) /\ Gives(g, q)
    BY <2>1, HeardIsSpread
  <2> QED BY <2>2 DEF q
<1> HIDE DEF g
<1>7. v = [i \in DOMAIN p |-> Spread(g, p[i])]
  BY <1>6
<1>8. Spread(g, Joined(p)) = Joined(v)
  BY <1>6, <1>7, SpreadJoined
<1> QED BY <1>4, <1>5, <1>8 DEF r

LEMMA HeardFew ==
    ASSUME NEW types
    PROVE  /\ AllPlain(<<>>) /\ Heard(types, <<>>) = <<>>
           /\ \A m : Plain(m) => AllPlain(<<m>>) /\ Heard(types, <<m>>) = Told(types, m.content)
           /\ \A d, e : Plain(d) /\ Plain(e) =>
                AllPlain(<<d, e>>)
                  /\ Heard(types, <<d, e>>) = Told(types, d.content) \o Told(types, e.content)
<1>1. AllPlain(<<>>)
  BY EmptyShape, EmptyRange DEF AllPlain
<1>2. Heard(types, <<>>) = <<>>
  <2>1. Range(<<>>) \subseteq {}
    BY EmptyShape, EmptyRange
  <2> DEFINE g == Tells(types, {})
  <2>2. Heard(types, <<>>) = Spread(g, <<>>)
    BY <1>1, <2>1, HeardIsSpread
  <2> HIDE DEF g
  <2> QED BY <2>2, SpreadEmpty
<1>3. ASSUME NEW m, Plain(m) PROVE AllPlain(<<m>>) /\ Heard(types, <<m>>) = Told(types, m.content)
  <2> DEFINE s == <<m>>
  <2>1. IsSeq(s) /\ Range(s) = {m}
    BY OneShape
  <2> HIDE DEF s
  <2>2. AllPlain(s)
    BY <1>3, <2>1 DEF AllPlain
  <2> DEFINE g == Tells(types, {m})
  <2>3. Heard(types, s) = Spread(g, s) /\ Gives(g, s)
    BY <2>1, <2>2, HeardIsSpread
  <2>4. IsTelling(g, types, {m})
    BY TellsIs
  <2> HIDE DEF g
  <2>5. g[m] = Told(types, m.content) /\ IsSeq(g[m])
    BY <2>1, <2>3, <2>4, GivesOn DEF IsTelling
  <2>6. Spread(g, <<m>>) = g[m]
    BY <2>5, SpreadOne
  <2> QED BY <2>2, <2>3, <2>5, <2>6 DEF s
<1>4. ASSUME NEW d, Plain(d), NEW e, Plain(e)
      PROVE  AllPlain(<<d, e>>)
               /\ Heard(types, <<d, e>>) = Told(types, d.content) \o Told(types, e.content)
  <2> DEFINE a == <<d>>
  <2> DEFINE b == <<e>>
  <2> DEFINE s == a \o b
  <2>1. IsSeq(a) /\ Len(a) = 1 /\ a[1] = d /\ Range(a) = {d}
    BY OneShape
  <2>2. IsSeq(b) /\ Len(b) = 1 /\ b[1] = e /\ Range(b) = {e}
    BY OneShape
  <2> HIDE DEF a, b
  <2>3. IsSeq(s) /\ Range(s) = {d, e}
    BY <2>1, <2>2, ConcatRange
  <2>4. s = <<d, e>>
    <3> DEFINE q == <<d, e>>
    <3>1. IsSeq(q) /\ Len(q) = 2 /\ q[1] = d /\ q[2] = e
      BY PairShape
    <3> HIDE DEF q
    <3>0. IsSeq(a) /\ IsSeq(b)
      BY <2>1, <2>2
    <3>7. s = a \o b
      OBVIOUS
    <3> HIDE DEF s
    <3>8. Len(s) = Len(a) + Len(b)
      BY <3>0, <3>7, ConcatShape
    <3>9. \A i \in 1..Len(a) : s[i] = a[i]
      BY <3>0, <3>7, ConcatShape
    <3>10. \A i \in 1..Len(b) : s[Len(a) + i] = b[i]
      BY <3>0, <3>7, ConcatShape
    <3>2. Len(s) = 2
      BY <2>1, <2>2, <3>8
    <3>3. s[1] = d
      BY <2>1, <3>9
    <3>4. s[2] = e
      <4>2. s[1 + 1] = e
        BY <2>1, <2>2, <3>10
      <4> QED BY <4>2
    <3> HIDE DEF s
    <3>5. \A i \in 1..Len(s) : s[i] = q[i]
      BY <3>1, <3>2, <3>3, <3>4
    <3>6. s = q
      BY <2>3, <3>1, <3>2, <3>5, SeqSame
    <3> QED BY <3>6 DEF q
  <2>5. AllPlain(s)
    BY <1>4, <2>3 DEF AllPlain
  <2> HIDE DEF s
  <2> DEFINE g == Tells(types, {d, e})
  <2>6. Heard(types, s) = Spread(g, s) /\ Gives(g, s)
    BY <2>3, <2>5, HeardIsSpread
  <2>7. IsTelling(g, types, {d, e})
    BY TellsIs
  <2> HIDE DEF g
  <2>8. g[d] = Told(types, d.content) /\ IsSeq(g[d]) /\ g[e] = Told(types, e.content) /\ IsSeq(g[e])
    BY <2>3, <2>6, <2>7, GivesOn DEF IsTelling
  <2>9. Spread(g, a) = g[d] /\ Gives(g, a)
    BY <2>8, SpreadOne DEF a
  <2>10. Spread(g, b) = g[e] /\ Gives(g, b)
    BY <2>8, SpreadOne DEF b
  <2>11. Spread(g, a \o b) = Spread(g, a) \o Spread(g, b)
    BY <2>9, <2>10, SpreadConcat
  <2>12. Spread(g, s) = g[d] \o g[e]
    BY <2>9, <2>10, <2>11 DEF s
  <2> QED BY <2>4, <2>5, <2>6, <2>8, <2>12
<1> QED BY <1>1, <1>2, <1>3, <1>4

\* A turn without its empty texts tells the same, and so does one in the user's place.
LEMMA KeptTells ==
    ASSUME NEW types, NEW m, Plain(m), NEW q, q = Kept(m)
    PROVE  AllPlain(q) /\ Heard(types, q) = Told(types, m.content)
<1> DEFINE S == {b \in Range(m.content) : ~isEmptyTextBlock(b)}
<1> DEFINE content == Only(m.content, S)
<1>1. /\ m.role \in {"user", "assistant", "system"} /\ Blocks(m.content)
      /\ \A b \in Range(m.content) : b.type = "text" => b.ref # "unknown source"
  BY DEF Plain
<1>2. \A b \in Range(m.content) \ S : b.says = <<>>
  BY DEF isEmptyTextBlock
<1>3. q = IF content = <<>> THEN <<>> ELSE <<Message(m.role, m.flat, content)>>
  BY DEF Kept, stripEmptyBlocks
<1> HIDE DEF S
<1>4. Blocks(content) /\ Told(types, content) = Told(types, m.content)
  BY <1>1, <1>2, ToldOnly
<1>5. Range(content) \subseteq Range(m.content)
  BY <1>1, OnlyOf DEF Blocks
<1> HIDE DEF content
<1>6. CASE content = <<>>
  <2>1. q = <<>> /\ Told(types, m.content) = <<>>
    BY <1>3, <1>4, <1>6, ToldFew
  <2> QED BY <2>1, HeardFew
<1>7. CASE content # <<>>
  <2> DEFINE e == Message(m.role, m.flat, content)
  <2>1. Plain(e) /\ e.content = content
    BY <1>1, <1>4, <1>5 DEF Plain, Message
  <2>2. q = <<e>>
    BY <1>3, <1>7
  <2> HIDE DEF e
  <2>3. AllPlain(<<e>>) /\ Heard(types, <<e>>) = Told(types, e.content)
    BY <2>1, HeardFew
  <2> QED BY <1>4, <2>1, <2>2, <2>3
<1> QED BY <1>6, <1>7

LEMMA DemotedTells ==
    ASSUME NEW types, "text" \in types, NEW m, Blocks(m.content), NEW q, q = Demoted(m)
    PROVE  AllPlain(q) /\ Heard(types, q) = messageText(m.content)
<1> DEFINE words == messageText(m.content)
<1>1. IsSeq(words)
  BY SaysAre DEF messageText, Blocks
<1> DEFINE b == Text(words)
<1> DEFINE e == Message("user", TRUE, <<b>>)
<1>2. q = IF words = <<>> THEN <<>> ELSE <<e>>
  BY DEF Demoted
<1> HIDE DEF words
<1>3. b.type = "text" /\ b.says = words /\ b.ref # "unknown source"
  BY DEF Text, Block, Nobody
<1> HIDE DEF b
<1>4. Blocks(<<b>>) /\ Told(types, <<b>>) = words
  BY <1>1, <1>3, ToldFew
<1>5. Range(<<b>>) = {b}
  BY OneShape
<1>6. Plain(e) /\ e.content = <<b>>
  BY <1>3, <1>4, <1>5 DEF Plain, Message
<1> HIDE DEF e
<1>7. CASE words = <<>>
  <2>1. q = <<>>
    BY <1>2, <1>7
  <2> QED BY <1>7, <2>1, HeardFew DEF words
<1>8. CASE words # <<>>
  <2>1. q = <<e>>
    BY <1>2, <1>8
  <2>2. AllPlain(<<e>>) /\ Heard(types, <<e>>) = Told(types, e.content)
    BY <1>6, HeardFew
  <2> QED BY <1>4, <1>6, <2>1, <2>2 DEF words
<1> QED BY <1>7, <1>8

LEMMA ConversationalTells ==
    ASSUME NEW types, "text" \in types, NEW asked, AllPlain(asked),
           NEW v, v = [i \in DOMAIN asked |->
                         IF Hoisted(asked, i) THEN <<>>
                         ELSE IF asked[i].role = "system" THEN messageText(asked[i].content)
                         ELSE Told(types, asked[i].content)]
    PROVE  AllPlain(Conversational(asked)) /\ Heard(types, Conversational(asked)) = Joined(v)
<1> DEFINE piece(i) ==
        IF Hoisted(asked, i) THEN <<>>
        ELSE IF asked[i].role = "system" THEN Demoted(asked[i])
        ELSE Kept(asked[i])
<1> DEFINE s == [i \in DOMAIN asked |-> piece(i)]
<1>1. Len(asked) \in Nat /\ DOMAIN asked = 1..Len(asked) /\ \A i \in DOMAIN asked : Plain(asked[i])
  BY SeqShape DEF AllPlain, Range
<1>2. Conversational(asked) = Joined(s)
  BY DEF Conversational
<1>3. ASSUME NEW i \in DOMAIN asked PROVE AllPlain(piece(i)) /\ Heard(types, piece(i)) = v[i]
  <2> DEFINE m == asked[i]
  <2>1. Plain(m) /\ Blocks(m.content)
    BY <1>1 DEF Plain
  <2>2. /\ Hoisted(asked, i) => piece(i) = <<>> /\ v[i] = <<>>
        /\ ~Hoisted(asked, i) /\ m.role = "system" =>
              piece(i) = Demoted(m) /\ v[i] = messageText(m.content)
        /\ ~Hoisted(asked, i) /\ m.role # "system" =>
              piece(i) = Kept(m) /\ v[i] = Told(types, m.content)
    OBVIOUS
  <2> HIDE DEF m, piece
  <2>3. CASE Hoisted(asked, i)
    BY <2>2, <2>3, HeardFew
  <2>4. CASE ~Hoisted(asked, i) /\ m.role = "system"
    BY <2>1, <2>2, <2>4, DemotedTells
  <2>5. CASE ~Hoisted(asked, i) /\ m.role # "system"
    BY <2>1, <2>2, <2>5, KeptTells
  <2> QED BY <2>3, <2>4, <2>5
<1>4. s = [i \in 1..Len(asked) |-> s[i]] /\ DOMAIN s = DOMAIN asked /\ \A i \in DOMAIN asked : s[i] = piece(i)
  BY <1>1
<1> HIDE DEF piece, s
<1>5. \A i \in DOMAIN s : AllPlain(s[i]) /\ IsSeq(s[i])
  BY <1>1, <1>3, <1>4 DEF AllPlain
<1>6. AreSeqs(s)
  BY <1>1, <1>4, <1>5, MapJoined
<1>7. v = [i \in DOMAIN s |-> Heard(types, s[i])]
  BY <1>3, <1>4
<1>8. AllPlain(Joined(s)) /\ Heard(types, Joined(s)) = Joined(v)
  BY <1>5, <1>6, <1>7, HeardJoined
<1> QED BY <1>2, <1>8

\* What the proxy adds to an answer, and what it takes from one, are results.
LEMMA AnswerTells ==
    ASSUME NEW types, "tool_result" \notin types, NEW pending, IsSeq(pending),
           NEW content, Blocks(content),
           \A b \in Range(content) : b.type = "text" => b.ref # "unknown source",
           NEW a, a = Answer(pending, content)
    PROVE  Plain(a) /\ Told(types, a.content) = Told(types, content)
<1> DEFINE S == {b \in Range(content) : b.type = "tool_result" => b.ref \in Range(pending)}
<1> DEFINE pruned == Only(content, S)
<1> DEFINE missing == Missing(pending, pruned)
<1> DEFINE synthetic == syntheticToolResults(missing)
<1>1. a = Message("user", FALSE, synthetic \o pruned)
  BY DEF Answer, Pruned
<1>2. \A b \in Range(content) \ S : b.type = "tool_result"
  OBVIOUS
<1> HIDE DEF S
<1>3. Blocks(pruned) /\ Told(types, pruned) = Told(types, content)
  BY <1>2, ToldOnly
<1>4. Range(pruned) \subseteq Range(content)
  BY OnlyOf DEF Blocks
<1> HIDE DEF pruned
<1>5. IsSeq(missing)
  BY OnlyOf DEF Missing
<1> HIDE DEF missing
<1>6. IsSeq(synthetic) /\ \A i \in DOMAIN synthetic : synthetic[i] = Result(missing[i], Ours)
  <2>1. Len(missing) \in Nat /\ DOMAIN missing = 1..Len(missing)
    BY <1>5, SeqShape
  <2>2. synthetic = [i \in 1..Len(missing) |-> synthetic[i]]
    BY <2>1 DEF syntheticToolResults
  <2>3. IsSeq(synthetic)
    <3> HIDE DEF synthetic
    <3> QED BY <2>1, <2>2, FunShape
  <2> QED BY <2>3 DEF syntheticToolResults
<1> HIDE DEF synthetic
<1>7. IsSeq(Ours)
  BY OneShape DEF Ours
<1>8. ASSUME NEW b \in Range(synthetic) PROVE b.type = "tool_result" /\ IsSeq(b.says)
  <2>1. PICK i \in DOMAIN synthetic : b = synthetic[i]
    BY DEF Range
  <2>2. b = Result(missing[i], Ours)
    BY <1>6, <2>1
  <2>3. b.type = "tool_result" /\ b.says = Ours
    BY <2>2 DEF Result, Block
  <2> QED BY <1>7, <2>3
<1>9. Blocks(synthetic) /\ \A b \in Range(synthetic) : b.type \notin types
  BY <1>6, <1>8 DEF Blocks
<1>10. Told(types, synthetic) = <<>>
  BY <1>9, ToldNone
<1>11. Blocks(synthetic \o pruned) /\ Told(types, synthetic \o pruned) = Told(types, synthetic) \o Told(types, pruned)
  BY <1>3, <1>9, ToldConcat
<1>12. Told(types, synthetic \o pruned) = Told(types, pruned)
  <2>1. IsSeq(Told(types, pruned))
    BY <1>3, ToldRange
  <2> QED BY <1>10, <1>11, <2>1, EmptyConcat
<1>13. Range(synthetic \o pruned) = Range(synthetic) \cup Range(pruned)
  BY <1>3, <1>9, ConcatRange DEF Blocks
<1>14. a.content = synthetic \o pruned /\ a.role = "user"
  <2> DEFINE all == synthetic \o pruned
  <2> DEFINE e == Message("user", FALSE, all)
  <2>1. a = e
    BY <1>1
  <2> HIDE DEF all
  <2>2. e.content = all /\ e.role = "user"
    BY DEF Message
  <2> HIDE DEF e
  <2> QED BY <2>1, <2>2 DEF all
<1>15. Plain(a)
  BY <1>4, <1>8, <1>11, <1>13, <1>14 DEF Plain
<1> QED BY <1>3, <1>12, <1>14, <1>15

LEMMA ReconciledTells ==
    ASSUME NEW types, "tool_result" \notin types, NEW c, AllPlain(c)
    PROVE  AllPlain(reconcileToolBlocks(c)) /\ Heard(types, reconcileToolBlocks(c)) = Heard(types, c)
<1> DEFINE given(i) == IF Answering(c, i + 1) THEN c[i + 1].content ELSE <<>>
<1> DEFINE answer(i) == Answer(Pending(c[i]), given(i))
<1> DEFINE piece(i) ==
        IF Answering(c, i) THEN <<>>
        ELSE IF ~HasPending(c[i]) THEN <<c[i]>>
        ELSE <<c[i], answer(i)>>
<1> DEFINE s == [i \in DOMAIN c |-> piece(i)]
<1> DEFINE t == [i \in DOMAIN c |-> Told(types, c[i].content)]
<1> DEFINE v == [i \in DOMAIN s |-> Heard(types, s[i])]
<1> DEFINE N == Len(c)
<1>1. N \in Nat /\ DOMAIN c = 1..N /\ \A i \in 1..N : Plain(c[i])
  BY SeqShape DEF AllPlain, Range
<1>2. reconcileToolBlocks(c) = Joined(s)
  BY DEF reconcileToolBlocks
<1> HIDE DEF N
<1>3. \A i \in 1..N : IsSeq(Told(types, c[i].content))
  BY <1>1, ToldRange DEF Plain
<1>4. AreSeqs(t) /\ Len(t) = N /\ \A i \in 1..N : t[i] = Told(types, c[i].content)
  <2>1. t = [i \in 1..N |-> t[i]] /\ \A i \in 1..N : t[i] = Told(types, c[i].content)
    BY <1>1
  <2> HIDE DEF t
  <2>2. \A i \in 1..N : IsSeq(t[i])
    BY <1>3, <2>1
  <2> QED BY <1>1, <2>1, <2>2, MapJoined
<1>5. Heard(types, c) = Joined(t)
  BY DEF Heard
<1> HIDE DEF t
\* Whoever answers a turn does not have to be answered.
<1>6. \A i \in 1..N : Answering(c, i) => ~HasPending(c[i]) /\ ~Answering(c, i + 1)
  BY <1>1 DEF Answering, HasPending
<1>7. \A i \in 1..N : ~HasPending(c[i]) => ~Answering(c, i + 1)
  BY <1>1 DEF Answering
<1>8. ~Answering(c, 0 + 1) /\ ~Answering(c, N + 1)
  BY <1>1 DEF Answering
<1>9. ASSUME NEW i \in 1..N, HasPending(c[i])
      PROVE  /\ Plain(answer(i))
             /\ Told(types, answer(i).content) = IF Answering(c, i + 1) THEN t[i + 1] ELSE <<>>
  <2>1. IsSeq(Pending(c[i]))
    <3>1. IsSeq(Refs("tool_use", c[i].content)) /\ IsSeq(<<>>)
      BY <1>1, RefsAre, EmptyShape DEF Plain, Blocks
    <3> QED BY <3>1 DEF Pending, toolUseIds
  <2>2. /\ Blocks(given(i)) /\ \A b \in Range(given(i)) : b.type = "text" => b.ref # "unknown source"
        /\ Told(types, given(i)) = IF Answering(c, i + 1) THEN t[i + 1] ELSE <<>>
    <3>1. CASE Answering(c, i + 1)
      <4>1. i + 1 \in 1..N
        BY <1>1, <3>1 DEF Answering
      <4> QED BY <1>1, <1>4, <3>1, <4>1 DEF Plain
    <3>2. CASE ~Answering(c, i + 1)
      <4>1. given(i) = <<>> /\ Range(<<>>) = {}
        BY <3>2, EmptyShape, EmptyRange
      <4> HIDE DEF given
      <4> QED BY <3>2, <4>1, ToldFew
    <3> QED BY <3>1, <3>2
  <2> DEFINE pending == Pending(c[i])
  <2> DEFINE content == given(i)
  <2> DEFINE a == Answer(pending, content)
  <2>3. a = answer(i)
    OBVIOUS
  <2> HIDE DEF pending, given
  <2>4. IsSeq(pending) /\ Blocks(content) /\ \A b \in Range(content) : b.type = "text" => b.ref # "unknown source"
    BY <2>1, <2>2 DEF pending
  <2> HIDE DEF content
  <2>5. Plain(a) /\ Told(types, a.content) = Told(types, content)
    BY <2>4, AnswerTells
  <2> HIDE DEF a, answer
  <2> QED BY <2>2, <2>3, <2>5 DEF content
<1> HIDE DEF answer, given
<1>10. ASSUME NEW i \in 1..N
       PROVE  /\ AllPlain(piece(i))
              /\ Answering(c, i) => Heard(types, piece(i)) = <<>>
              /\ ~Answering(c, i) /\ ~Answering(c, i + 1) => Heard(types, piece(i)) = t[i]
              /\ ~Answering(c, i) /\ Answering(c, i + 1) => Heard(types, piece(i)) = t[i] \o t[i + 1]
  <2>1. CASE Answering(c, i)
    <3>1. piece(i) = <<>>
      BY <2>1
    <3> HIDE DEF piece
    <3> QED BY <2>1, <3>1, HeardFew
  <2>2. CASE ~Answering(c, i) /\ ~HasPending(c[i])
    <3>1. piece(i) = <<c[i]>> /\ ~Answering(c, i + 1) /\ Plain(c[i]) /\ t[i] = Told(types, c[i].content)
      BY <1>1, <1>4, <1>7, <2>2
    <3> DEFINE m == c[i]
    <3>2. Plain(m) /\ t[i] = Told(types, m.content) /\ piece(i) = <<m>>
      BY <3>1
    <3> HIDE DEF piece, m
    <3>3. AllPlain(<<m>>) /\ Heard(types, <<m>>) = Told(types, m.content)
      BY <3>2, HeardFew
    <3> QED BY <2>2, <3>1, <3>2, <3>3
  <2>3. CASE ~Answering(c, i) /\ HasPending(c[i])
    <3> DEFINE m == c[i]
    <3> DEFINE e == answer(i)
    <3>2. Plain(m) /\ t[i] = Told(types, m.content) /\ piece(i) = <<m, e>>
      BY <1>1, <1>4, <2>3
    <3>3. Plain(e) /\ Told(types, e.content) = IF Answering(c, i + 1) THEN t[i + 1] ELSE <<>>
      BY <1>9, <2>3
    <3> HIDE DEF piece, m, e
    <3>4. AllPlain(<<m, e>>) /\ Heard(types, <<m, e>>) = Told(types, m.content) \o Told(types, e.content)
      BY <3>2, <3>3, HeardFew
    <3>5. t[i] \o <<>> = t[i]
      <4>1. IsSeq(t[i])
        BY <1>3, <1>4
      <4> QED BY <4>1, ConcatEmpty
    <3> QED BY <2>3, <3>2, <3>3, <3>4, <3>5
  <2> QED BY <2>1, <2>2, <2>3
<1>11. s = [i \in 1..N |-> s[i]] /\ DOMAIN s = 1..N /\ \A i \in 1..N : s[i] = piece(i)
  BY <1>1
<1> HIDE DEF piece, s
<1>12. \A i \in DOMAIN s : AllPlain(s[i]) /\ IsSeq(s[i])
  BY <1>10, <1>11 DEF AllPlain
<1>13. AreSeqs(s)
  BY <1>1, <1>11, <1>12, MapJoined
<1>14. AllPlain(Joined(s)) /\ Heard(types, Joined(s)) = Joined(v)
  BY <1>12, <1>13, HeardJoined
<1>15. AreSeqs(v) /\ Len(v) = N /\ \A i \in 1..N : v[i] = Heard(types, s[i])
  <2>1. v = [i \in 1..N |-> v[i]] /\ \A i \in 1..N : v[i] = Heard(types, s[i])
    BY <1>11
  <2> HIDE DEF v
  <2>2. \A i \in 1..N : IsSeq(v[i])
    BY <1>11, <1>12, <2>1, HeardShape
  <2> QED BY <1>1, <2>1, <2>2, MapJoined
<1> HIDE DEF v
<1>16. PICK G : JoinsUp(t, G)
  BY <1>4, JoinedUp
<1>17. PICK E : JoinsUp(v, E)
  BY <1>15, JoinedUp
<1>18. G[0] = <<>> /\ Joined(t) = G[N] /\ (\A i \in 1..N : G[i] = G[i - 1] \o t[i]) /\ \A i \in 0..N : IsSeq(G[i])
  BY <1>4, <1>16 DEF JoinsUp
<1>19. E[0] = <<>> /\ Joined(v) = E[N] /\ \A i \in 1..N : E[i] = E[i - 1] \o v[i]
  BY <1>15, <1>17 DEF JoinsUp
<1> DEFINE T == {i \in 0..N : /\ Answering(c, i + 1) => E[i] = G[i + 1]
                              /\ ~Answering(c, i + 1) => E[i] = G[i]}
<1>20. 0 \in T
  BY <1>1, <1>8, <1>18, <1>19
<1>21. ASSUME NEW i \in 1..N, i - 1 \in T PROVE i \in T
  <2>1. i \in 0..N /\ i - 1 \in 0..N /\ (i - 1) + 1 = i
    BY <1>1
  <2>2. (Answering(c, i) => E[i - 1] = G[i]) /\ (~Answering(c, i) => E[i - 1] = G[i - 1])
    BY <1>21, <2>1
  <2>3. E[i] = E[i - 1] \o v[i] /\ v[i] = Heard(types, piece(i)) /\ G[i] = G[i - 1] \o t[i]
    BY <1>11, <1>15, <1>18, <1>19
  <2>4. CASE Answering(c, i)
    <3>1. E[i] = G[i] \o <<>> /\ ~Answering(c, i + 1)
      BY <1>6, <1>10, <2>2, <2>3, <2>4
    <3>2. IsSeq(G[i])
      BY <1>18, <2>1
    <3>3. E[i] = G[i]
      BY <3>1, <3>2, ConcatEmpty
    <3> QED BY <2>1, <3>1, <3>3
  <2>5. CASE ~Answering(c, i) /\ ~Answering(c, i + 1)
    <3>1. E[i] = G[i]
      BY <1>10, <2>2, <2>3, <2>5
    <3> QED BY <2>1, <2>5, <3>1
  <2>6. CASE ~Answering(c, i) /\ Answering(c, i + 1)
    <3>1. i + 1 \in 1..N /\ (i + 1) - 1 = i
      BY <1>1, <2>6 DEF Answering
    <3>2. E[i] = G[i - 1] \o (t[i] \o t[i + 1])
      BY <1>10, <2>2, <2>3, <2>6
    <3>3. G[i + 1] = (G[i - 1] \o t[i]) \o t[i + 1]
      BY <1>18, <2>3, <3>1
    <3> DEFINE x == G[i - 1]
    <3> DEFINE y == t[i]
    <3> DEFINE z == t[i + 1]
    <3>4. IsSeq(x) /\ IsSeq(y) /\ IsSeq(z)
      BY <1>3, <1>4, <1>18, <2>1, <3>1
    <3>5. E[i] = x \o (y \o z) /\ G[i + 1] = (x \o y) \o z
      BY <3>2, <3>3
    <3> HIDE DEF x, y, z
    <3>6. E[i] = G[i + 1]
      BY <3>4, <3>5, ConcatAssoc
    <3> QED BY <2>1, <2>6, <3>6
  <2> QED BY <2>4, <2>5, <2>6
<1>22. \A i \in 0..N : i \in T
  <2> HIDE DEF T
  <2> QED BY <1>1, <1>20, <1>21, Upto
<1>23. Joined(v) = Joined(t)
  <2>1. N \in 0..N
    BY <1>1
  <2> QED BY <1>8, <1>18, <1>19, <1>22, <2>1
<1> QED BY <1>2, <1>5, <1>14, <1>23

------------------------------------------------------------------------------
(* What the messages of OpenAI's wires tell.                                   *)

Visible == {"text", "image"}
Hears(B) == [e \in B |-> IF e.role = "tool" THEN <<>> ELSE e.content]
IsHearing(g, B) ==
    /\ \A e \in B : e.role = "tool" => g[e] = <<>>
    /\ \A e \in B : e.role # "tool" => g[e] = e.content

LEMMA HearsIs ==
    ASSUME NEW B
    PROVE  IsHearing(Hears(B), B)
BY DEF Hears, IsHearing

LEMMA SilentSpread ==
    ASSUME NEW s, IsSeq(s), NEW g, \A x \in Range(s) : g[x] = <<>>
    PROVE  Gives(g, s) /\ Spread(g, s) = <<>>
<1>1. Gives(g, s)
  <2>1. \A x \in Range(s) : IsSeq(g[x])
    BY EmptyShape
  <2> QED BY <2>1, GivesOn
<1>2. Range(Spread(g, s)) = UNION {Range(g[s[i]]) : i \in DOMAIN s}
  BY <1>1, SpreadRange
<1>3. ASSUME NEW i \in DOMAIN s PROVE Range(g[s[i]]) = {}
  <2>1. s[i] \in Range(s)
    BY DEF Range
  <2>2. g[s[i]] = <<>>
    BY <2>1
  <2> QED BY <2>2, EmptyShape, EmptyRange
<1>4. IsSeq(Spread(g, s))
  BY <1>1, SpreadShape
<1>5. Range(Spread(g, s)) = {}
  BY <1>2, <1>3
<1> QED BY <1>1, <1>4, <1>5, EmptyRange

\* A message in one piece with the results it brings.
Passed(wire, m) ==
    OpenAIMessage(m.role, Told(Visible, m.content), Reasoning(wire, m),
                  IF m.role = "assistant" THEN ToolCalls(m.content) ELSE <<>>, Nobody)
IsPiece(p, wire, m, x) ==
    /\ x = Passed(wire, m)
    /\ \/ p = <<x>> \o ToolMessages(m.content)
       \/ p = ToolMessages(m.content) \o <<x>>
       \/ /\ p = ToolMessages(m.content) /\ Told(Visible, m.content) = <<>>
          /\ ToolMessages(m.content) # <<>>

LEMMA PieceIs ==
    ASSUME NEW wire, NEW m, NEW p, p = anthropicMessageToOpenAI(wire, m)
    PROVE  \E x : IsPiece(p, wire, m, x)
<1> DEFINE parts == Parts(m.content)
<1> DEFINE calls == ToolCalls(m.content)
<1> DEFINE results == ToolMessages(m.content)
<1> DEFINE of == IF m.role = "assistant" THEN calls ELSE <<>>
<1> DEFINE x == OpenAIMessage(m.role, parts, Reasoning(wire, m), of, Nobody)
<1>1. parts = Told(Visible, m.content)
  BY DEF Parts, Told, Sourced, Visible
<1>2. p = IF m.role = "assistant" /\ calls # <<>>
          THEN <<OpenAIMessage(m.role, parts, Reasoning(wire, m), calls, Nobody)>> \o results
          ELSE IF parts # <<>> \/ results = <<>>
               THEN results \o <<OpenAIMessage(m.role, parts, Reasoning(wire, m), <<>>, Nobody)>>
               ELSE results
  BY DEF anthropicMessageToOpenAI, ResultsFirst
<1> HIDE DEF parts, calls, results
<1>3. \/ p = <<x>> \o results
      \/ p = results \o <<x>>
      \/ p = results /\ parts = <<>> /\ results # <<>>
  <2>1. CASE m.role = "assistant" /\ calls # <<>>
    <3>1. of = calls
      BY <2>1
    <3> QED BY <1>2, <2>1, <3>1
  <2>2. CASE ~(m.role = "assistant" /\ calls # <<>>) /\ (parts # <<>> \/ results = <<>>)
    <3>1. of = <<>>
      BY <2>2
    <3> QED BY <1>2, <2>2, <3>1
  <2>3. CASE ~(m.role = "assistant" /\ calls # <<>>) /\ ~(parts # <<>> \/ results = <<>>)
    BY <1>2, <2>3
  <2> QED BY <2>1, <2>2, <2>3
<1>4. x = Passed(wire, m)
  BY <1>1 DEF Passed, calls
<1> HIDE DEF x
<1>5. IsPiece(p, wire, m, x)
  BY <1>1, <1>3, <1>4 DEF IsPiece, results
<1> QED BY <1>5

LEMMA PieceTells ==
    ASSUME NEW wire, NEW m, Plain(m), NEW p, p = anthropicMessageToOpenAI(wire, m),
           NEW B, Range(p) \subseteq B
    PROVE  IsSeq(p) /\ Gives(Hears(B), p) /\ Spread(Hears(B), p) = Told(Visible, m.content)
<1> DEFINE g == Hears(B)
<1> DEFINE results == ToolMessages(m.content)
<1> DEFINE words == Told(Visible, m.content)
<1>1. IsHearing(g, B)
  BY HearsIs
<1>2. m.role # "tool" /\ Blocks(m.content)
  BY DEF Plain
<1>3. IsSeq(results) /\ \A e \in Range(results) : e.role = "tool"
  BY <1>2, ToolMessagesAre DEF Blocks
<1>4. IsSeq(words)
  BY <1>2, ToldRange
<1>5. PICK x : IsPiece(p, wire, m, x)
  BY PieceIs
<1>6. x.role # "tool" /\ x.content = words
  BY <1>2, <1>5 DEF IsPiece, Passed, OpenAIMessage
<1> DEFINE one == <<x>>
<1>7. IsSeq(one) /\ Range(one) = {x}
  BY OneShape
<1>8. p = one \o results \/ p = results \o one \/ (p = results /\ words = <<>>)
  BY <1>5 DEF IsPiece
<1> HIDE DEF g, results, words
<1>9. x \in B => Gives(g, one) /\ Spread(g, one) = words
  <2> HAVE x \in B
  <2>1. g[x] = words /\ IsSeq(g[x])
    BY <1>1, <1>4, <1>6 DEF IsHearing
  <2> QED BY <2>1, SpreadOne
<1> HIDE DEF one
<1>10. Range(results) \subseteq B => Gives(g, results) /\ Spread(g, results) = <<>>
  <2> HAVE Range(results) \subseteq B
  <2>1. \A e \in Range(results) : g[e] = <<>>
    BY <1>1, <1>3 DEF IsHearing
  <2> QED BY <1>3, <2>1, SilentSpread
<1>11. CASE p = one \o results
  <2>1. IsSeq(p) /\ Range(p) = {x} \cup Range(results)
    BY <1>3, <1>7, <1>11, ConcatRange
  <2>2. x \in B /\ Range(results) \subseteq B
    BY <2>1
  <2>3. Gives(g, one \o results) /\ Spread(g, one \o results) = Spread(g, one) \o Spread(g, results)
    BY <1>9, <1>10, <2>2, SpreadConcat
  <2>4. Spread(g, p) = words \o <<>> /\ Gives(g, p)
    BY <1>9, <1>10, <1>11, <2>2, <2>3
  <2> QED BY <1>4, <2>1, <2>4, ConcatEmpty DEF g, words
<1>12. CASE p = results \o one
  <2>1. IsSeq(p) /\ Range(p) = {x} \cup Range(results)
    BY <1>3, <1>7, <1>12, ConcatRange
  <2>2. x \in B /\ Range(results) \subseteq B
    BY <2>1
  <2>3. Gives(g, results \o one) /\ Spread(g, results \o one) = Spread(g, results) \o Spread(g, one)
    BY <1>9, <1>10, <2>2, SpreadConcat
  <2>4. Spread(g, p) = <<>> \o words /\ Gives(g, p)
    BY <1>9, <1>10, <1>12, <2>2, <2>3
  <2> QED BY <1>4, <2>1, <2>4, EmptyConcat DEF g, words
<1>13. CASE p = results /\ words = <<>>
  BY <1>3, <1>10, <1>13 DEF g, words
<1> QED BY <1>8, <1>11, <1>12, <1>13

LEMMA OpenAITells ==
    ASSUME NEW wire, NEW messages, AllPlain(messages),
           NEW r, r = anthropicToOpenAIRequest(wire, messages)
    PROVE  Joined([i \in DOMAIN r |-> IF r[i].role = "tool" THEN <<>> ELSE r[i].content])
               = Heard(Visible, messages)
<1> DEFINE s == [i \in DOMAIN messages |-> anthropicMessageToOpenAI(wire, messages[i])]
<1> DEFINE N == Len(messages)
<1>1. N \in Nat /\ DOMAIN messages = 1..N /\ \A i \in 1..N : Plain(messages[i])
  BY SeqShape DEF AllPlain, Range
<1>2. r = Joined(s)
  BY DEF anthropicToOpenAIRequest
<1> HIDE DEF N
<1>3. s = [i \in 1..N |-> s[i]] /\ DOMAIN s = 1..N /\ \A i \in 1..N : s[i] = anthropicMessageToOpenAI(wire, messages[i])
  BY <1>1
<1> HIDE DEF s
<1>4. \A i \in 1..N : IsSeq(s[i])
  BY <1>1, <1>3, PieceTells
<1>5. AreSeqs(s)
  BY <1>1, <1>3, <1>4, MapJoined
<1>6. IsSeq(r) /\ Range(r) = UNION {Range(s[i]) : i \in DOMAIN s}
  BY <1>2, <1>5, JoinedOf
<1> DEFINE B == Range(r)
<1> DEFINE g == Hears(B)
<1>7. \A i \in DOMAIN s : Range(s[i]) \subseteq B
  BY <1>6
<1>8. Range(r) = B
  OBVIOUS
<1> HIDE DEF B
<1>9. ASSUME NEW i \in DOMAIN s PROVE Gives(g, s[i]) /\ Spread(g, s[i]) = Told(Visible, messages[i].content)
  <2> DEFINE m == messages[i]
  <2> DEFINE p == s[i]
  <2>1. Plain(m) /\ p = anthropicMessageToOpenAI(wire, m) /\ Range(p) \subseteq B
    BY <1>1, <1>3, <1>7
  <2> HIDE DEF m, p
  <2>2. Gives(g, p) /\ Spread(g, p) = Told(Visible, m.content)
    BY <2>1, PieceTells
  <2> QED BY <2>2 DEF m, p
<1>10. IsHearing(g, B)
  BY HearsIs
<1> HIDE DEF g
<1> DEFINE v == [i \in DOMAIN s |-> Spread(g, s[i])]
<1>11. Spread(g, Joined(s)) = Joined(v)
  BY <1>5, <1>9, SpreadJoined
<1>12. v = [i \in DOMAIN messages |-> Told(Visible, messages[i].content)]
  BY <1>1, <1>3, <1>9
<1>13. [i \in DOMAIN r |-> g[r[i]]] = [i \in DOMAIN r |-> IF r[i].role = "tool" THEN <<>> ELSE r[i].content]
  <2>1. ASSUME NEW i \in DOMAIN r PROVE g[r[i]] = IF r[i].role = "tool" THEN <<>> ELSE r[i].content
    <3> DEFINE e == r[i]
    <3>1. e \in B
      BY <1>8 DEF Range
    <3> HIDE DEF e
    <3>2. g[e] = IF e.role = "tool" THEN <<>> ELSE e.content
      BY <1>10, <3>1 DEF IsHearing
    <3> QED BY <3>2 DEF e
  <2> QED BY <2>1
<1> HIDE DEF v
<1> QED BY <1>2, <1>11, <1>12, <1>13 DEF Heard, Spread

------------------------------------------------------------------------------
(* What the messages of Converse tell, without the words of the proxy.         *)

LEMMA OnlyJoined ==
    ASSUME NEW u, AreSeqs(u), NEW S, NEW v, v = [i \in DOMAIN u |-> Only(u[i], S)]
    PROVE  Only(Joined(u), S) = Joined(v) /\ AreSeqs(v)
<1> DEFINE B == Range(Joined(u))
<1> DEFINE c == Chosen(S, B)
<1>1. IsSeq(Joined(u)) /\ B = UNION {Range(u[i]) : i \in DOMAIN u} /\ Range(Joined(u)) \subseteq B
  BY JoinedOf
<1> HIDE DEF B
<1>2. Only(Joined(u), S) = Spread(c, Joined(u))
  BY <1>1, OnlyIsSpread
<1>3. \A i \in DOMAIN u : Gives(c, u[i]) /\ Spread(c, u[i]) = Only(u[i], S)
  <2> TAKE i \in DOMAIN u
  <2>1. IsSeq(u[i]) /\ Range(u[i]) \subseteq B
    BY <1>1 DEF AreSeqs
  <2> QED BY <2>1, ChosenGives, OnlyIsSpread
<1> HIDE DEF c
<1>4. v = [i \in DOMAIN u |-> Spread(c, u[i])]
  BY <1>3
<1> QED BY <1>2, <1>3, <1>4, SpreadJoined

LEMMA MappedShape ==
    ASSUME NEW content, Blocks(content), NEW mapped, mapped = [i \in DOMAIN content |-> ToConverse(content[i])]
    PROVE  /\ Blocks(mapped) /\ DOMAIN mapped = DOMAIN content
           /\ \A i \in DOMAIN content : mapped[i] = ToConverse(content[i])
<1>1. Len(content) \in Nat /\ DOMAIN content = 1..Len(content)
  BY SeqShape DEF Blocks
<1>2. mapped = [i \in 1..Len(content) |-> mapped[i]] /\ DOMAIN mapped = DOMAIN content
  BY <1>1
<1>3. \A i \in DOMAIN content : mapped[i] = ToConverse(content[i])
  OBVIOUS
<1>4. IsSeq(mapped)
  BY <1>1, <1>2, FunShape
<1>5. IsSeq(Ours)
  BY OneShape DEF Ours
<1>6. ASSUME NEW b, IsSeq(b.says) PROVE IsSeq(ToConverse(b).says)
  BY <1>5, <1>6 DEF ToConverse, Text, Block
<1>7. ASSUME NEW x \in Range(mapped) PROVE IsSeq(x.says)
  <2>1. PICK i \in DOMAIN content : x = ToConverse(content[i])
    BY <1>2, <1>3 DEF Range
  <2> DEFINE b == content[i]
  <2>2. x = ToConverse(b) /\ IsSeq(b.says)
    BY <2>1 DEF Blocks, Range
  <2> HIDE DEF b
  <2> QED BY <1>6, <2>2
<1>8. Blocks(mapped)
  BY <1>4, <1>7 DEF Blocks
<1> QED BY <1>2, <1>3, <1>8

LEMMA MappedTells ==
    ASSUME NEW content, Blocks(content), NEW mapped, mapped = [i \in DOMAIN content |-> ToConverse(content[i])],
           NEW S, 0 \notin S
    PROVE  Only(Told({"text"}, mapped), S) = Only(Told({"text"}, content), S)
<1> DEFINE B == Range(content) \cup Range(mapped)
<1> DEFINE g == Voice({"text"}, B)
<1> DEFINE h == [x \in B |-> Only(g[x], S)]
<1>1. /\ Blocks(mapped) /\ DOMAIN mapped = DOMAIN content
      /\ \A i \in DOMAIN content : mapped[i] = ToConverse(content[i])
  BY MappedShape
<1>2. Range(content) \subseteq B /\ Range(mapped) \subseteq B
  OBVIOUS
<1> HIDE DEF B
<1>3. Told({"text"}, mapped) = Spread(g, mapped) /\ Gives(g, mapped)
  BY <1>1, <1>2, ToldIsSpread
<1>4. Told({"text"}, content) = Spread(g, content) /\ Gives(g, content)
  BY <1>2, ToldIsSpread
<1>5. IsVoice(g, {"text"}, B)
  BY VoiceIs
<1> HIDE DEF g
<1>6. \A x \in B : h[x] = Only(g[x], S)
  OBVIOUS
<1> HIDE DEF h
<1>7. Only(Spread(g, mapped), S) = Spread(h, mapped)
  BY <1>2, <1>3, <1>6, OnlySpread
<1>8. Only(Spread(g, content), S) = Spread(h, content)
  BY <1>2, <1>4, <1>6, OnlySpread
<1>9. Only(Ours, S) = <<>> /\ Only(<<>>, S) = <<>>
  BY OnlyFew DEF Ours
<1>10. ASSUME NEW b \in B, ToConverse(b) \in B PROVE h[ToConverse(b)] = h[b]
  <2>1. CASE b.type = "image" /\ b.ref # "bytes"
    <3> DEFINE x == ToConverse(b)
    <3>1. x.type = "text" /\ x.says = Ours /\ x.ref = Nobody
      BY <2>1 DEF ToConverse, Text, Block
    <3>2. x \in B
      BY <1>10
    <3> HIDE DEF x
    <3>3. x.ref # "unknown source"
      BY <3>1 DEF Nobody
    <3>4. g[x] = Ours /\ g[b] = <<>>
      BY <1>5, <2>1, <3>1, <3>2, <3>3 DEF IsVoice
    <3>5. h[x] = <<>> /\ h[b] = <<>>
      BY <1>6, <1>9, <3>2, <3>4
    <3> QED BY <3>5 DEF x
  <2>2. CASE ~(b.type = "image" /\ b.ref # "bytes")
    BY <2>2 DEF ToConverse
  <2> QED BY <2>1, <2>2
<1>11. ASSUME NEW i \in DOMAIN mapped PROVE h[mapped[i]] = h[content[i]]
  <2> DEFINE b == content[i]
  <2>1. b \in B /\ mapped[i] = ToConverse(b) /\ mapped[i] \in B
    BY <1>1, <1>2 DEF Range
  <2> HIDE DEF b
  <2>2. h[mapped[i]] = h[b]
    BY <1>10, <2>1
  <2> QED BY <2>2 DEF b
<1>12. Spread(h, mapped) = Spread(h, content)
  BY <1>1, <1>11, SpreadSame
<1> QED BY <1>3, <1>4, <1>7, <1>8, <1>12

LEMMA IrTells ==
    ASSUME NEW m, Plain(m), NEW t, t = anthropicMessageToIr(m), NEW S, 0 \notin S
    PROVE  Plain(t) /\ Only(Told({"text"}, t.content), S) = Only(Told({"text"}, m.content), S)
<1> DEFINE R == {b \in Range(m.content) : b.type # "redacted_thinking"}
<1> DEFINE content == Only(m.content, R)
<1> DEFINE mapped == [i \in DOMAIN content |-> ToConverse(content[i])]
<1> DEFINE K == {b \in Range(mapped) : ~isEmptyTextBlock(b)}
<1> DEFINE kept == Only(mapped, K)
<1>1. t.role = m.role /\ t.content = kept
  <2> DEFINE e == anthropicMessageToIr(m)
  <2>1. e.role = m.role /\ e.content = kept
    BY DEF anthropicMessageToIr, stripEmptyBlocks
  <2> HIDE DEF e, kept
  <2>2. t = e
    BY DEF e
  <2> QED BY <2>1, <2>2
<1>2. /\ m.role \in {"user", "assistant", "system"} /\ Blocks(m.content)
      /\ \A b \in Range(m.content) : b.type = "text" => b.ref # "unknown source"
  BY DEF Plain
<1>3. \A b \in Range(m.content) \ R : b.type \notin {"text"}
  OBVIOUS
<1> HIDE DEF R
<1>4. Blocks(content) /\ Told({"text"}, content) = Told({"text"}, m.content)
  BY <1>2, <1>3, ToldOnly
<1>5. Range(content) \subseteq Range(m.content)
  BY <1>2, OnlyOf DEF Blocks
<1> HIDE DEF content
<1>6. Blocks(mapped) /\ Range(mapped) = {ToConverse(b) : b \in Range(content)}
  <2>1. Range(mapped) = {ToConverse(b) : b \in Range(content)}
    BY DEF Range
  <2>2. Blocks(mapped)
    BY <1>4, MappedShape
  <2> QED BY <2>1, <2>2
<1>7. Only(Told({"text"}, mapped), S) = Only(Told({"text"}, content), S)
  BY <1>4, MappedTells
<1> HIDE DEF mapped
<1>8. \A b \in Range(mapped) \ K : b.says = <<>>
  BY DEF isEmptyTextBlock
<1> HIDE DEF K
<1>9. Blocks(kept) /\ Told({"text"}, kept) = Told({"text"}, mapped)
  BY <1>6, <1>8, ToldOnly
<1>10. Range(kept) \subseteq Range(mapped)
  BY <1>6, OnlyOf DEF Blocks
<1> HIDE DEF kept
<1>11. ASSUME NEW x \in Range(kept), x.type = "text" PROVE x.ref # "unknown source"
  <2>1. PICK b \in Range(m.content) : x = ToConverse(b)
    BY <1>5, <1>6, <1>10
  <2>2. CASE b.type = "image" /\ b.ref # "bytes"
    BY <2>1, <2>2 DEF ToConverse, Text, Block, Nobody
  <2>3. CASE ~(b.type = "image" /\ b.ref # "bytes")
    BY <1>2, <1>11, <2>1, <2>3 DEF ToConverse
  <2> QED BY <2>2, <2>3
<1>12. Plain(t)
  BY <1>1, <1>2, <1>9, <1>11 DEF Plain
<1> QED BY <1>1, <1>4, <1>7, <1>9, <1>12

\* A sequence that ends with e.
LEMMA EndsWith ==
    ASSUME NEW s, IsSeq(s), NEW n \in Nat, Len(s) = n + 1, NEW f, IsSeq(f), Len(f) = n,
           \A i \in 1..n : s[i] = f[i]
    PROVE  s = f \o <<s[n + 1]>>
<1> DEFINE e == s[n + 1]
<1> DEFINE one == <<e>>
<1> DEFINE t == f \o one
<1>1. IsSeq(one) /\ Len(one) = 1 /\ one[1] = e
  BY OneShape
<1> HIDE DEF one
<1>2. IsSeq(one)
  BY <1>1
<1>3. t = f \o one
  OBVIOUS
<1> HIDE DEF t
<1>4. IsSeq(t)
  BY <1>2, <1>3, ConcatShape
<1>5. Len(t) = Len(f) + Len(one)
  BY <1>2, <1>3, ConcatShape
<1>6. \A i \in 1..Len(f) : t[i] = f[i]
  BY <1>2, <1>3, ConcatShape
<1>7. \A i \in 1..Len(one) : t[Len(f) + i] = one[i]
  BY <1>2, <1>3, ConcatShape
<1>8. t[n + 1] = e
  BY <1>1, <1>7
<1> HIDE DEF e
<1>9. \A i \in 1..(n + 1) : s[i] = t[i]
  <2>1. \A i \in 1..(n + 1) : i \in 1..n \/ i = n + 1
    OBVIOUS
  <2> QED BY <1>6, <1>8, <2>1 DEF e
<1>10. s = t
  BY <1>1, <1>4, <1>5, <1>9, SeqSame
<1> QED BY <1>3, <1>10 DEF e, one

LEMMA HeardConcat ==
    ASSUME NEW types, NEW a, AllPlain(a), NEW b, AllPlain(b)
    PROVE  AllPlain(a \o b) /\ Heard(types, a \o b) = Heard(types, a) \o Heard(types, b)
<1> DEFINE u == a \o b
<1> DEFINE B == Range(u)
<1>1. /\ IsSeq(a) /\ IsSeq(b)
      /\ (\A m \in Range(a) : Plain(m)) /\ \A m \in Range(b) : Plain(m)
  BY DEF AllPlain
<1>2. IsSeq(u) /\ B = Range(a) \cup Range(b)
  BY <1>1, ConcatRange
<1>3. Range(u) = B
  OBVIOUS
<1> HIDE DEF u, B
<1>4. AllPlain(u)
  BY <1>1, <1>2, <1>3 DEF AllPlain
<1> DEFINE g == Tells(types, B)
<1>5. Heard(types, u) = Spread(g, u)
  BY <1>3, <1>4, HeardIsSpread
<1>6. Range(a) \subseteq B /\ Range(b) \subseteq B
  BY <1>2
<1>7. Heard(types, a) = Spread(g, a) /\ Gives(g, a)
  BY <1>6, HeardIsSpread
<1>8. Heard(types, b) = Spread(g, b) /\ Gives(g, b)
  BY <1>6, HeardIsSpread
<1> HIDE DEF g
<1>9. Spread(g, a \o b) = Spread(g, a) \o Spread(g, b)
  BY <1>7, <1>8, SpreadConcat
<1> QED BY <1>4, <1>5, <1>7, <1>8, <1>9 DEF u

LEMMA WithTells ==
    ASSUME NEW types, NEW acc, AllPlain(acc), NEW m, Plain(m)
    PROVE  AllPlain(With(acc, m)) /\ Heard(types, With(acc, m)) = Heard(types, acc) \o Told(types, m.content)
<1> DEFINE n == Len(acc)
<1> DEFINE last == acc[n]
<1> DEFINE grown == [role |-> last.role, content |-> last.content \o m.content]
<1> DEFINE w == With(acc, m)
<1>1. n \in Nat /\ DOMAIN acc = 1..n /\ IsSeq(acc) /\ \A i \in 1..n : Plain(acc[i])
  BY SeqShape DEF AllPlain, Range
<1>2. IsSeq(Heard(types, acc))
  BY HeardShape
<1>3. Blocks(m.content) /\ IsSeq(Told(types, m.content))
  BY ToldRange DEF Plain
<1>4. AllPlain(<<m>>) /\ Heard(types, <<m>>) = Told(types, m.content)
  BY HeardFew
<1>5. CASE m.content = <<>>
  <2>1. w = acc
    BY <1>5 DEF With
  <2>2. Told(types, m.content) = <<>>
    BY <1>5, ToldFew
  <2> HIDE DEF w
  <2>3. AllPlain(w) /\ Heard(types, w) = Heard(types, acc) \o Told(types, m.content)
    BY <1>2, <2>1, <2>2, ConcatEmpty
  <2> QED BY <2>3 DEF w
<1>6. CASE m.content # <<>> /\ ~(acc # <<>> /\ last.role = m.role)
  <2>1. w = Append(acc, m)
    BY <1>6 DEF With
  <2> HIDE DEF w
  <2>2. IsSeq(w)
    BY <1>1, <2>1, AppendShape
  <2>3. Len(w) = n + 1
    BY <1>1, <2>1, AppendShape
  <2>4. w[Len(w)] = m
    BY <1>1, <2>1, AppendShape
  <2>5. \A i \in DOMAIN acc : w[i] = acc[i]
    BY <1>1, <2>1, AppendShape
  <2> HIDE DEF n
  <2>6. w = acc \o <<m>>
    <3>1. Len(acc) = n /\ w[n + 1] = m /\ \A i \in 1..n : w[i] = acc[i]
      BY <1>1, <2>3, <2>4, <2>5 DEF n
    <3>2. w = acc \o <<w[n + 1]>>
      BY <1>1, <2>2, <2>3, <3>1, EndsWith
    <3> QED BY <3>1, <3>2
  <2>7. AllPlain(acc \o <<m>>) /\ Heard(types, acc \o <<m>>) = Heard(types, acc) \o Heard(types, <<m>>)
    BY <1>4, HeardConcat
  <2> QED BY <1>4, <2>6, <2>7 DEF w
<1>7. CASE m.content # <<>> /\ acc # <<>> /\ last.role = m.role
  <2> DEFINE k == n - 1
  <2> DEFINE f == [i \in 1..k |-> acc[i]]
  <2>1. w = [acc EXCEPT ![n] = grown]
    BY <1>7 DEF With
  <2>2. n # 0
    BY <1>1, <1>7, EmptyRange
  <2>3. n \in DOMAIN acc /\ k \in Nat /\ n = k + 1 /\ 1..k \subseteq 1..n /\ n \notin 1..k
    BY <1>1, <2>2
  <2>4. Plain(last)
    BY <1>1, <2>3
  <2> HIDE DEF w, grown
  <2>5. IsSeq(w)
    BY <1>1, <2>1, <2>3, ExceptShape
  <2>6. Len(w) = n
    BY <1>1, <2>1, <2>3, ExceptShape
  <2>7. w[n] = grown
    BY <1>1, <2>1, <2>3, ExceptShape
  <2>8. \A i \in DOMAIN acc \ {n} : w[i] = acc[i]
    BY <1>1, <2>1, <2>3, ExceptShape
  <2>9. f = [i \in 1..k |-> f[i]] /\ \A i \in 1..k : f[i] = acc[i]
    OBVIOUS
  <2>a. Len(acc) = n
    OBVIOUS
  <2> HIDE DEF n, k, f
  <2>10. IsSeq(f) /\ Len(f) = k /\ DOMAIN f = 1..k
    BY <2>3, <2>9, FunShape
  <2>11. AllPlain(f)
    BY <1>1, <2>3, <2>9, <2>10 DEF AllPlain, Range
  <2>12. acc = f \o <<last>>
    <3>1. acc = f \o <<acc[k + 1]>>
      BY <1>1, <2>3, <2>9, <2>10, <2>a, EndsWith
    <3> QED BY <2>3, <3>1
  <2>13. w = f \o <<grown>>
    <3>1. Len(w) = k + 1 /\ \A i \in 1..k : w[i] = f[i]
      BY <1>1, <2>3, <2>6, <2>8, <2>9
    <3>2. w = f \o <<w[k + 1]>>
      BY <2>3, <2>5, <2>10, <3>1, EndsWith
    <3> QED BY <2>3, <2>7, <3>2
  <2>14. grown.role = last.role /\ grown.content = last.content \o m.content
    BY DEF grown
  <2> HIDE DEF last
  <2>15. /\ Blocks(last.content) /\ last.role \in {"user", "assistant", "system"}
         /\ \A b \in Range(last.content) : b.type = "text" => b.ref # "unknown source"
         /\ \A b \in Range(m.content) : b.type = "text" => b.ref # "unknown source"
    BY <2>4 DEF Plain
  <2>16. /\ Blocks(last.content \o m.content)
         /\ Told(types, last.content \o m.content) = Told(types, last.content) \o Told(types, m.content)
    BY <1>3, <2>15, ToldConcat
  <2>17. Range(last.content \o m.content) = Range(last.content) \cup Range(m.content)
    BY <1>3, <2>15, ConcatRange DEF Blocks
  <2>18. Plain(grown)
    BY <2>14, <2>15, <2>16, <2>17 DEF Plain
  <2>19. AllPlain(<<grown>>) /\ Heard(types, <<grown>>) = Told(types, grown.content)
    BY <2>18, HeardFew
  <2>20. AllPlain(<<last>>) /\ Heard(types, <<last>>) = Told(types, last.content)
    BY <2>4, HeardFew
  <2>21. AllPlain(f \o <<grown>>) /\ Heard(types, f \o <<grown>>) = Heard(types, f) \o Heard(types, <<grown>>)
    BY <2>11, <2>19, HeardConcat
  <2>22. Heard(types, f \o <<last>>) = Heard(types, f) \o Heard(types, <<last>>)
    BY <2>11, <2>20, HeardConcat
  <2> DEFINE x == Heard(types, f)
  <2> DEFINE y == Told(types, last.content)
  <2> DEFINE z == Told(types, m.content)
  <2>23. IsSeq(x) /\ IsSeq(y) /\ IsSeq(z)
    BY <1>3, <2>11, <2>15, HeardShape, ToldRange
  <2>24. Heard(types, w) = x \o (y \o z) /\ Heard(types, acc) = x \o y
    BY <2>12, <2>13, <2>14, <2>16, <2>19, <2>20, <2>21, <2>22
  <2> HIDE DEF x, y, z
  <2>25. Heard(types, w) = Heard(types, acc) \o z
    BY <2>23, <2>24, ConcatAssoc
  <2> QED BY <2>13, <2>21, <2>25 DEF w, z
<1> QED BY <1>5, <1>6, <1>7

LEMMA MergedTells ==
    ASSUME NEW types, NEW messages, AllPlain(messages)
    PROVE  AllPlain(Merged(messages)) /\ Heard(types, Merged(messages)) = Heard(types, messages)
<1> DEFINE N == Len(messages)
<1> DEFINE t == [i \in DOMAIN messages |-> Told(types, messages[i].content)]
<1>1. N \in Nat /\ DOMAIN messages = 1..N /\ \A i \in 1..N : Plain(messages[i])
  BY SeqShape DEF AllPlain, Range
<1>2. Contents(messages)
  BY <1>1 DEF AllPlain, Contents, Plain, Blocks
<1>3. PICK F : MergesUp(messages, F)
  BY <1>2, MergedUp
<1>4. F[0] = <<>> /\ Merged(messages) = F[N] /\ \A i \in 1..N : F[i] = With(F[i - 1], messages[i])
  BY <1>3 DEF MergesUp
<1> HIDE DEF N
<1>5. t = [i \in 1..N |-> t[i]] /\ \A i \in 1..N : t[i] = Told(types, messages[i].content)
  BY <1>1
<1>6. Heard(types, messages) = Joined(t)
  BY DEF Heard
<1> HIDE DEF t
<1>7. \A i \in 1..N : IsSeq(t[i])
  BY <1>1, <1>5, ToldRange DEF Plain
<1>8. AreSeqs(t) /\ Len(t) = N
  BY <1>1, <1>5, <1>7, MapJoined
<1>9. PICK G : JoinsUp(t, G)
  BY <1>8, JoinedUp
<1>10. G[0] = <<>> /\ Joined(t) = G[N] /\ \A i \in 1..N : G[i] = G[i - 1] \o t[i]
  BY <1>8, <1>9 DEF JoinsUp
<1> DEFINE S == {i \in 0..N : AllPlain(F[i]) /\ Heard(types, F[i]) = G[i]}
<1>11. 0 \in S
  BY <1>1, <1>4, <1>10, HeardFew
<1>12. ASSUME NEW i \in 1..N, i - 1 \in S PROVE i \in S
  <2> DEFINE acc == F[i - 1]
  <2> DEFINE m == messages[i]
  <2>1. i \in 0..N /\ AllPlain(acc) /\ Heard(types, acc) = G[i - 1] /\ Plain(m) /\ F[i] = With(acc, m)
          /\ t[i] = Told(types, m.content) /\ G[i] = G[i - 1] \o t[i]
    BY <1>1, <1>4, <1>5, <1>10, <1>12
  <2> HIDE DEF acc, m
  <2>2. AllPlain(With(acc, m)) /\ Heard(types, With(acc, m)) = Heard(types, acc) \o Told(types, m.content)
    BY <2>1, WithTells
  <2> QED BY <2>1, <2>2
<1>13. \A i \in 0..N : i \in S
  <2> HIDE DEF S
  <2> QED BY <1>1, <1>11, <1>12, Upto
<1>14. N \in 0..N
  BY <1>1
<1> QED BY <1>4, <1>6, <1>10, <1>13, <1>14

LEMMA ConverseTells ==
    ASSUME NEW messages, AllPlain(messages), NEW S, 0 \notin S,
           NEW r, r = anthropicToConverseRequest(messages)
    PROVE  /\ AllPlain(r)
           /\ Only(Heard({"text"}, r), S) = Only(Heard({"text"}, messages), S)
<1> DEFINE ir == [i \in DOMAIN messages |-> anthropicMessageToIr(messages[i])]
<1> DEFINE N == Len(messages)
<1>1. N \in Nat /\ DOMAIN messages = 1..N /\ \A i \in 1..N : Plain(messages[i])
  BY SeqShape DEF AllPlain, Range
<1>2. r = Merged(ir)
  BY DEF anthropicToConverseRequest
<1>3. ir = [i \in 1..N |-> ir[i]] /\ DOMAIN ir = 1..N /\ \A i \in 1..N : ir[i] = anthropicMessageToIr(messages[i])
  BY <1>1
<1> HIDE DEF ir, N
<1>4. ASSUME NEW i \in 1..N
      PROVE  /\ Plain(ir[i])
             /\ Only(Told({"text"}, ir[i].content), S) = Only(Told({"text"}, messages[i].content), S)
  <2> DEFINE m == messages[i]
  <2> DEFINE t == ir[i]
  <2>1. Plain(m) /\ t = anthropicMessageToIr(m)
    BY <1>1, <1>3
  <2> HIDE DEF m, t
  <2>2. Plain(t) /\ Only(Told({"text"}, t.content), S) = Only(Told({"text"}, m.content), S)
    BY <2>1, IrTells
  <2> QED BY <2>2 DEF m, t
<1>5. IsSeq(ir)
  BY <1>1, <1>3, FunShape
<1>6. AllPlain(ir)
  BY <1>3, <1>4, <1>5 DEF AllPlain, Range
<1>7. AllPlain(r) /\ Heard({"text"}, r) = Heard({"text"}, ir)
  BY <1>2, <1>6, MergedTells
<1> DEFINE a == [i \in DOMAIN ir |-> Told({"text"}, ir[i].content)]
<1> DEFINE b == [i \in DOMAIN messages |-> Told({"text"}, messages[i].content)]
<1>8. Heard({"text"}, ir) = Joined(a) /\ Heard({"text"}, messages) = Joined(b)
  BY DEF Heard
<1>9. a = [i \in 1..N |-> a[i]] /\ DOMAIN a = 1..N /\ \A i \in 1..N : a[i] = Told({"text"}, ir[i].content)
  BY <1>3
<1>10. b = [i \in 1..N |-> b[i]] /\ DOMAIN b = 1..N /\ \A i \in 1..N : b[i] = Told({"text"}, messages[i].content)
  BY <1>1
<1> HIDE DEF a, b
<1>11. \A i \in 1..N : IsSeq(a[i]) /\ IsSeq(b[i])
  <2> TAKE i \in 1..N
  <2>1. Blocks(ir[i].content) /\ Blocks(messages[i].content)
    BY <1>1, <1>4 DEF Plain
  <2>2. IsSeq(Told({"text"}, ir[i].content)) /\ IsSeq(Told({"text"}, messages[i].content))
    BY <2>1, ToldRange
  <2> QED BY <1>9, <1>10, <2>2
<1>12. AreSeqs(a) /\ AreSeqs(b)
  BY <1>1, <1>9, <1>10, <1>11, MapJoined
<1> DEFINE c == [i \in DOMAIN a |-> Only(a[i], S)]
<1> DEFINE d == [i \in DOMAIN b |-> Only(b[i], S)]
<1>13. Only(Joined(a), S) = Joined(c)
  BY <1>12, OnlyJoined
<1>14. Only(Joined(b), S) = Joined(d)
  BY <1>12, OnlyJoined
<1>15. c = d
  BY <1>4, <1>9, <1>10
<1> QED BY <1>7, <1>8, <1>13, <1>14, <1>15

------------------------------------------------------------------------------
(* What is said in a conversation.                                             *)

\* Words of a client or a model: the proxy's own is 0.
Uttered(says) == IsSeq(says) /\ Range(says) \subseteq Nat \ {0}
Honest(b) == Uttered(b.says) /\ (b.type = "text" => b.ref # "unknown source")
HonestContent(content) == IsSeq(content) /\ \A b \in Range(content) : Honest(b)
Worded(m) == m.role \in {"user", "assistant", "system"} /\ HonestContent(m.content)

LEMMA WordedPlain ==
    ASSUME NEW m, Worded(m)
    PROVE  Plain(m)
BY DEF Worded, HonestContent, Honest, Uttered, Plain, Blocks

LEMMA UtteredWords ==
    ASSUME NEW n \in Nat \ {0}
    PROVE  /\ Uttered(<<>>) /\ Uttered(Words(n)) /\ Uttered(Refusal(n))
           /\ Uttered(Thoughts(n)) /\ Uttered(Findings(n))
           /\ Words(n) # <<>> /\ Refusal(n) # <<>> /\ Thoughts(n) # <<>>
<1>1. ASSUME NEW w \in Nat \ {0} PROVE Uttered(<<w>>) /\ <<w>> # <<>>
  <2>1. IsSeq(<<w>>) /\ Range(<<w>>) = {w} /\ <<w>> # <<>>
    BY OneShape
  <2> QED BY <2>1 DEF Uttered
<1>2. {4 * n, 4 * n + 1, 4 * n + 2, 4 * n + 3} \subseteq Nat \ {0}
  OBVIOUS
<1>3. Uttered(<<>>)
  BY EmptyShape, EmptyRange DEF Uttered
<1> QED BY <1>1, <1>2, <1>3 DEF Words, Refusal, Thoughts, Findings

LEMMA HonestBlocks ==
    ASSUME NEW says, Uttered(says)
    PROVE  /\ Honest(Text(says)) /\ Honest(Thinking(says))
           /\ \A ref : Honest(Result(ref, says)) /\ Honest(Image(ref, says))
           /\ \A type, ref : type # "text" => Honest(Block(type, ref, says))
<1>1. \A type, ref : /\ Block(type, ref, says).says = says /\ Block(type, ref, says).type = type
                     /\ Block(type, ref, says).ref = ref
  BY DEF Block
<1>2. Honest(Text(says))
  BY <1>1 DEF Text, Honest, Nobody
<1>3. \A type, ref : type # "text" => Honest(Block(type, ref, says))
  <2> HIDE DEF Block
  <2> QED BY <1>1 DEF Honest
<1> QED BY <1>2, <1>3 DEF Thinking, Result, Image

LEMMA HonestFew ==
    /\ HonestContent(<<>>)
    /\ \A b : Honest(b) => HonestContent(<<b>>)
    /\ \A a, b : HonestContent(a) /\ HonestContent(b) => HonestContent(a \o b)
    /\ \A a, S : HonestContent(a) => HonestContent(Only(a, S))
<1>1. HonestContent(<<>>)
  BY EmptyShape, EmptyRange DEF HonestContent
<1>2. ASSUME NEW b, Honest(b) PROVE HonestContent(<<b>>)
  BY <1>2, OneShape DEF HonestContent
<1>3. ASSUME NEW a, NEW b, HonestContent(a), HonestContent(b) PROVE HonestContent(a \o b)
  BY <1>3, ConcatRange DEF HonestContent
<1>4. ASSUME NEW a, NEW S, HonestContent(a) PROVE HonestContent(Only(a, S))
  BY <1>4, OnlyOf DEF HonestContent
<1> QED BY <1>1, <1>2, <1>3, <1>4

LEMMA UserTurnWorded ==
    ASSUME NEW kind \in Kinds, NEW n \in Nat \ {0}
    PROVE  Worded(UserTurn(kind, n))
<1> DEFINE m == UserTurn(kind, n)
<1> DEFINE a == Text(<<>>)
<1> DEFINE b == Text(Words(n))
<1> DEFINE c == Image("url", Words(n))
<1> DEFINE d == Image("unknown source", Words(n))
<1>1. kind \in {"string", "blocks", "empty"}
  BY ConversationAssumption
<1>2. Honest(a) /\ Honest(b) /\ Honest(c) /\ Honest(d)
  BY UtteredWords, HonestBlocks
<1>3. CASE kind = "string"
  <2>1. m = Message("user", TRUE, <<b>>)
    BY <1>3 DEF UserTurn
  <2> HIDE DEF m, b
  <2>2. m.role = "user" /\ m.content = <<b>>
    BY <2>1 DEF Message
  <2>3. Worded(m)
    BY <1>2, <2>2, HonestFew DEF Worded
  <2> QED BY <2>3 DEF m
<1>4. CASE kind = "empty"
  <2>1. m = Message("user", TRUE, <<a>>)
    BY <1>4 DEF UserTurn
  <2> HIDE DEF m, a
  <2>2. m.role = "user" /\ m.content = <<a>>
    BY <2>1 DEF Message
  <2>3. Worded(m)
    BY <1>2, <2>2, HonestFew DEF Worded
  <2> QED BY <2>3 DEF m
<1>5. CASE kind = "blocks"
  <2>1. m = Message("user", FALSE, <<a, b, c, d>>)
    BY <1>5 DEF UserTurn
  <2> HIDE DEF m, a, b, c, d
  <2> DEFINE s == <<a, b, c, d>>
  <2>2. s \in Seq({a, b, c, d}) /\ DOMAIN s = 1..4 /\ s[1] = a /\ s[2] = b /\ s[3] = c /\ s[4] = d
    OBVIOUS
  <2>3. m.role = "user" /\ m.content = s
    BY <2>1 DEF Message
  <2> HIDE DEF s
  <2>4. IsSeq(s)
    BY <2>2, SeqIsSeq
  <2>5. \A i \in DOMAIN s : i = 1 \/ i = 2 \/ i = 3 \/ i = 4
    BY <2>2
  <2>6. \A e \in Range(s) : Honest(e)
    BY <1>2, <2>2, <2>5 DEF Range
  <2>7. Worded(m)
    BY <2>3, <2>4, <2>6 DEF Worded, HonestContent
  <2> QED BY <2>7 DEF m
<1> QED BY <1>1, <1>3, <1>4, <1>5

LEMMA ResultsWorded ==
    ASSUME NEW S \in SUBSET Calls, NEW n \in Nat \ {0}
    PROVE  HonestContent(Results(S, n))
<1> DEFINE T == {Result(c, Findings(n)) : c \in S}
<1> DEFINE f == [c \in S |-> Result(c, Findings(n))]
<1> DEFINE r == Results(S, n)
<1>1. \A b \in T : Honest(b)
  <2>1. \A c \in S : Honest(Result(c, Findings(n)))
    BY UtteredWords, HonestBlocks
  <2> QED BY <2>1
<1>2. IsFiniteSet(S)
  BY ConversationAssumption, FS_Subset
<1>3. f \in Surjection(S, T)
  BY DEF Surjection
<1>4. r = SetToSeq(T)
  BY DEF Results
<1> HIDE DEF T, f, r
<1>5. IsFiniteSet(T)
  BY <1>2, <1>3, FS_Surjection DEF ExistsSurjection
<1>6. Cardinality(T) \in Nat /\ ExistsBijection(1..Cardinality(T), T)
  BY <1>5, FS_CardinalityType
<1>7. \E g \in [1..Cardinality(T) -> T] : IsInjective(g)
  BY <1>6 DEF ExistsBijection, Bijection, Injection, IsInjective
<1>8. r \in [1..Cardinality(T) -> T]
  BY <1>4, <1>7 DEF SetToSeq
<1>9. Range(r) \subseteq T
  BY <1>8 DEF Range
<1>10. IsSeq(r)
  BY ResultsAre DEF r
<1> QED BY <1>1, <1>9, <1>10 DEF r, HonestContent

\* A Converse answer: text, reasoning and calls, each of which says something of its own.
Spelled(blocks) ==
    /\ HonestContent(blocks)
    /\ \A b \in Range(blocks) :
           /\ b.type \in {"text", "thinking", "tool_use"}
           /\ b.type = "tool_use" => b.says = <<>>
           /\ b.type = "text" => b.says # <<>>

LEMMA StreamWorded ==
    ASSUME NEW names \in Streams \cup Natives, NEW n \in Nat \ {0}
    PROVE  /\ HonestContent(StreamOf(names, n))
           /\ names \in Streams => Spelled(StreamOf(names, n))
<1> DEFINE r == StreamOf(names, n)
<1>1. IsSeq(r)
  BY StreamShape
<1>2. DOMAIN r = DOMAIN names /\ \A i \in DOMAIN names : r[i] = StreamBlock(names[i], n)
  BY DEF StreamOf
<1>3. \A i \in DOMAIN names : names[i] \in Range(names)
  BY DEF Range
<1>4. ASSUME NEW name
      PROVE  /\ Honest(StreamBlock(name, n))
             /\ name \notin {"redacted", "foreign"} =>
                  /\ StreamBlock(name, n).type \in {"text", "thinking", "tool_use"}
                  /\ StreamBlock(name, n).type = "tool_use" => StreamBlock(name, n).says = <<>>
                  /\ StreamBlock(name, n).type = "text" => StreamBlock(name, n).says # <<>>
  <2> DEFINE b == StreamBlock(name, n)
  <2>0. Uttered(<<>>) /\ Uttered(Words(n)) /\ Uttered(Thoughts(n)) /\ Words(n) # <<>>
    BY UtteredWords
  <2>1. CASE name = "reasoning"
    <3>1. b = Thinking(Thoughts(n))
      BY <2>1 DEF StreamBlock
    <3>2. Honest(b)
      BY <2>0, <3>1, HonestBlocks
    <3>3. b.type = "thinking"
      BY <3>1 DEF Thinking, Block
    <3> QED BY <3>2, <3>3
  <2>2. CASE name = "no reasoning"
    <3>1. b = Thinking(<<>>)
      BY <2>2 DEF StreamBlock
    <3>2. Honest(b)
      BY <2>0, <3>1, HonestBlocks
    <3>3. b.type = "thinking"
      BY <3>1 DEF Thinking, Block
    <3> QED BY <3>2, <3>3
  <2>3. CASE name = "redacted"
    <3>1. b = Block("redacted_thinking", Nobody, Thoughts(n))
      BY <2>3 DEF StreamBlock
    <3>2. Honest(b)
      BY <2>0, <3>1, HonestBlocks
    <3> QED BY <2>3, <3>2
  <2>4. CASE name = "text"
    <3>1. b = Text(Words(n))
      BY <2>4 DEF StreamBlock
    <3>2. Honest(b)
      BY <2>0, <3>1, HonestBlocks
    <3>3. b.type = "text" /\ b.says = Words(n)
      BY <3>1 DEF Text, Block
    <3> QED BY <2>0, <3>2, <3>3
  <2>5. CASE name = "foreign"
    <3>1. b = Block("web_search_tool_result", Nobody, Words(n))
      BY <2>5 DEF StreamBlock
    <3>2. Honest(b)
      BY <2>0, <3>1, HonestBlocks
    <3> QED BY <2>5, <3>2
  <2>6. CASE name \notin {"reasoning", "no reasoning", "redacted", "text", "foreign"}
    <3>1. b = Use(name)
      BY <2>6 DEF StreamBlock
    <3>2. b.type = "tool_use" /\ b.says = <<>>
      BY <3>1 DEF Use, Block
    <3>3. Honest(b)
      BY <2>0, <3>1, HonestBlocks DEF Use
    <3> QED BY <3>2, <3>3
  <2> QED BY <2>1, <2>2, <2>3, <2>4, <2>5, <2>6
<1> HIDE DEF r
<1>5. HonestContent(r)
  BY <1>1, <1>2, <1>4 DEF HonestContent, Range
<1>6. ASSUME names \in Streams PROVE Spelled(r)
  <2>1. \A i \in DOMAIN names : names[i] \notin {"redacted", "foreign"}
    BY <1>3, <1>6, ConversationAssumption
  <2> SUFFICES ASSUME NEW b \in Range(r)
               PROVE  /\ b.type \in {"text", "thinking", "tool_use"}
                      /\ b.type = "tool_use" => b.says = <<>>
                      /\ b.type = "text" => b.says # <<>>
    BY <1>5 DEF Spelled
  <2>2. PICK i \in DOMAIN names : b = StreamBlock(names[i], n)
    BY <1>2 DEF Range
  <2> DEFINE name == names[i]
  <2>3. name \notin {"redacted", "foreign"} /\ b = StreamBlock(name, n)
    BY <2>1, <2>2
  <2> HIDE DEF name
  <2> QED BY <1>4, <2>3
<1> QED BY <1>5, <1>6 DEF r

-----------------------------------------------------------------------------
(* What a step does to the conversation, to its request and to what was made.   *)

\* What an OpenAI-compatible upstream made.
Replied(reply) ==
    /\ Uttered(reply.reasoning) /\ Uttered(reply.content) /\ Uttered(reply.refusal)
    /\ IsSeq(reply.calls) /\ Range(reply.calls) \subseteq Calls
Genuine(wire, message, content) ==
    IF wire = "converse" THEN Spelled(message) /\ content = converseResponseToIr(message)
    ELSE wire \in {"openai", "zai"} /\ Replied(message) /\ content = openAIResponseToIr(message)

\* A turn is added by the client or the native route; or it is an answer.
Added ==
    \E m : /\ Worded(m) /\ Say(m)
           /\ phase' # "asked" /\ made' = made
Taken ==
    \E content, message :
        /\ Worded(Message("assistant", FALSE, content)) /\ Genuine(sent.wire, message, content)
        /\ Answered(content, message)
\* Or a request goes out, is refused or fails, and the turns stay.
Stays ==
    /\ turns' = turns /\ said' = said /\ made' = made
    /\ phase' = "asked" => sent'.system = SystemPrompt(Prompt, turns) \/ (phase = "asked" /\ sent' = sent)

LEMMA ReplyWorded ==
    ASSUME NEW reply, Replied(reply)
    PROVE  HonestContent(openAIResponseToIr(reply))
<1> DEFINE a == IF reply.reasoning = <<>> THEN <<>> ELSE <<Thinking(reply.reasoning)>>
<1> DEFINE b == IF reply.content = <<>> THEN <<>> ELSE <<Text(reply.content)>>
<1> DEFINE c == IF reply.refusal = <<>> THEN <<>> ELSE <<Text(reply.refusal)>>
<1> DEFINE d == [i \in DOMAIN reply.calls |-> Use(reply.calls[i])]
<1>1. /\ Honest(Thinking(reply.reasoning)) /\ Honest(Text(reply.content))
      /\ Honest(Text(reply.refusal))
  BY HonestBlocks DEF Replied
<1>2. HonestContent(a) /\ HonestContent(b) /\ HonestContent(c)
  BY <1>1, HonestFew
<1>3. HonestContent(d)
  <2>1. Uttered(<<>>)
    BY EmptyShape, EmptyRange DEF Uttered
  <2>2. \A i \in DOMAIN d : Honest(d[i])
    BY <2>1, HonestBlocks DEF Use
  <2>3. Len(reply.calls) \in Nat /\ DOMAIN reply.calls = 1..Len(reply.calls)
    BY SeqShape DEF Replied
  <2>4. d = [i \in 1..Len(reply.calls) |-> d[i]]
    BY <2>3
  <2> HIDE DEF d
  <2>5. IsSeq(d)
    BY <2>3, <2>4, FunShape
  <2> QED BY <2>2, <2>5 DEF HonestContent, Range
<1>4. openAIResponseToIr(reply) = a \o b \o c \o d
  BY DEF openAIResponseToIr
<1> HIDE DEF a, b, c, d
<1>5. HonestContent(a \o b)
  BY <1>2, HonestFew
<1>6. HonestContent(a \o b \o c)
  BY <1>2, <1>5, HonestFew
<1>7. HonestContent(a \o b \o c \o d)
  BY <1>3, <1>6, HonestFew
<1> QED BY <1>4, <1>7

LEMMA StepSays ==
    ASSUME ConversationInv, said \in Nat, [Next]_vars
    PROVE  Added \/ Taken \/ Compact \/ Stays
<1>0. said + 1 \in Nat \ {0}
  OBVIOUS
<1>1. ASSUME NEW kind \in Kinds, Write(kind) PROVE Added
  <2>1. Say(UserTurn(kind, said + 1)) /\ phase' # "asked" /\ made' = made
    BY <1>1 DEF Write
  <2>2. Worded(UserTurn(kind, said + 1))
    BY <1>0, UserTurnWorded
  <2> QED BY <2>1, <2>2 DEF Added
<1>2. ASSUME Remind PROVE Added
  <2> DEFINE b == Text(Words(said + 1))
  <2> DEFINE m == Message("system", TRUE, <<b>>)
  <2>1. Say(m) /\ phase' # "asked" /\ made' = made
    BY <1>2 DEF Remind
  <2>2. Honest(b)
    BY <1>0, UtteredWords, HonestBlocks
  <2> HIDE DEF b
  <2>3. m.role = "system" /\ m.content = <<b>>
    BY DEF Message
  <2> HIDE DEF m
  <2>4. Worded(m)
    BY <2>2, <2>3, HonestFew DEF Worded
  <2> QED BY <2>1, <2>4 DEF Added
<1>3. ASSUME NEW S \in SUBSET Calls, NEW place \in Places, Respond(S, place) PROVE Added
  <2> DEFINE n == said + 1
  <2> DEFINE word == <<Text(Words(n))>>
  <2> DEFINE results == Results(S, n)
  <2> DEFINE content == CASE place = "before" -> word \o results
                          [] place = "after"  -> results \o word
                          [] place = "none"   -> results
  <2>1. Say(Message("user", FALSE, content)) /\ phase' # "asked" /\ made' = made
    BY <1>3 DEF Respond
  <2>2. HonestContent(results)
    BY <1>0, ResultsWorded
  <2>3. HonestContent(word)
    <3>1. Honest(Text(Words(n)))
      BY <1>0, UtteredWords, HonestBlocks
    <3> QED BY <3>1, HonestFew
  <2> HIDE DEF word, results
  <2>4. HonestContent(content)
    BY <2>2, <2>3, HonestFew, ConversationAssumption
  <2> HIDE DEF content
  <2>5. Worded(Message("user", FALSE, content))
    BY <2>4 DEF Worded, Message
  <2> QED BY <2>1, <2>5 DEF Added
<1>4. ASSUME Ask PROVE Stays
  <2>1. turns' = turns /\ said' = said /\ made' = made /\ sent'.system = SystemPrompt(Prompt, turns)
    BY <1>4 DEF Ask
  <2> QED BY <2>1 DEF Stays
<1>5. ASSUME Refuse PROVE Stays
  BY <1>5 DEF Refuse, Stays
<1>6. ASSUME Fail PROVE Stays
  BY <1>6 DEF Fail, Stays
<1>7. ASSUME UNCHANGED vars PROVE Stays
  BY <1>7 DEF vars, Stays
<1>8. ASSUME NEW shape \in Replies, ReplyOpenAI(shape) PROVE Taken
  <2> DEFINE reply == Spoken(shape, said + 1)
  <2>1. sent.wire \in {"openai", "zai"} /\ Answered(openAIResponseToIr(reply), reply)
    BY <1>8 DEF ReplyOpenAI
  <2>2. /\ reply.reasoning = IF shape.reasoning THEN Thoughts(said + 1) ELSE <<>>
        /\ reply.content = IF shape.content THEN Words(said + 1) ELSE <<>>
        /\ reply.refusal = IF shape.refusal THEN Refusal(said + 1) ELSE <<>>
        /\ reply.calls = shape.calls
    BY DEF Spoken
  <2>3. IsSeq(shape.calls) /\ Range(shape.calls) \subseteq Calls
    BY ConversationAssumption
  <2> HIDE DEF reply
  <2>4. Replied(reply)
    BY <1>0, <2>2, <2>3, UtteredWords DEF Replied
  <2>5. HonestContent(openAIResponseToIr(reply))
    BY <2>4, ReplyWorded
  <2>6. Worded(Message("assistant", FALSE, openAIResponseToIr(reply)))
    BY <2>5 DEF Worded, Message
  <2>7. Genuine(sent.wire, reply, openAIResponseToIr(reply))
    BY <2>1, <2>4 DEF Genuine
  <2> QED BY <2>1, <2>6, <2>7 DEF Taken
<1>9. ASSUME NEW names \in Streams, ReplyConverse(names) PROVE Taken
  <2> DEFINE blocks == StreamOf(names, said + 1)
  <2>1. sent.wire = "converse" /\ Answered(converseResponseToIr(blocks), blocks)
    BY <1>9 DEF ReplyConverse
  <2>2. Spelled(blocks) /\ HonestContent(blocks)
    BY <1>0, StreamWorded
  <2> HIDE DEF blocks
  <2>3. HonestContent(converseResponseToIr(blocks))
    BY <2>2, HonestFew DEF converseResponseToIr
  <2>4. Worded(Message("assistant", FALSE, converseResponseToIr(blocks)))
    BY <2>3 DEF Worded, Message
  <2>5. Genuine(sent.wire, blocks, converseResponseToIr(blocks))
    BY <2>1, <2>2 DEF Genuine
  <2> QED BY <2>1, <2>4, <2>5 DEF Taken
<1>10. ASSUME NEW names \in Natives, AskNative(names) PROVE Added
  <2> DEFINE blocks == StreamOf(names, said + 1)
  <2>1. Say(Message("assistant", FALSE, blocks)) /\ phase' # "asked" /\ made' = made
    BY <1>10 DEF AskNative, ClientAsks
  <2>2. HonestContent(blocks)
    BY <1>0, StreamWorded
  <2> HIDE DEF blocks
  <2>3. Worded(Message("assistant", FALSE, blocks))
    BY <2>2 DEF Worded, Message
  <2> QED BY <2>1, <2>3 DEF Added
<1> QED BY <1>1, <1>2, <1>3, <1>4, <1>5, <1>6, <1>7, <1>8, <1>9, <1>10 DEF Next

------------------------------------------------------------------------------
(* The words of all turns are the words of the request.                        *)

\* Every turn says words of its own, and the request's system is that of the turns.
WordsInv ==
    /\ said \in Nat /\ IsSeq(turns) /\ \A m \in Range(turns) : Worded(m)
    /\ phase = "asked" => sent.system = SystemPrompt(Prompt, turns)

LEMMA WordsInitially == Init => WordsInv
<1> SUFFICES ASSUME Init PROVE WordsInv
  OBVIOUS
<1>1. turns = <<>> /\ said = 0 /\ phase = "idle"
  BY DEF Init
<1>2. IsSeq(turns) /\ Range(turns) = {}
  BY <1>1, EmptyShape, EmptyRange
<1> QED BY <1>1, <1>2 DEF WordsInv

LEMMA SayAdds ==
    ASSUME IsSeq(turns), NEW m, Say(m)
    PROVE  /\ said' = said + 1 /\ IsSeq(turns') /\ Len(turns') = Len(turns) + 1
           /\ Range(turns') = Range(turns) \cup {m}
           /\ turns'[Len(turns) + 1] = m
           /\ \A i \in 1..Len(turns) : turns'[i] = turns[i]
<1> DEFINE t == turns'
<1>1. t = Append(turns, m) /\ said' = said + 1
  BY DEF Say
<1>2. Len(turns) \in Nat /\ DOMAIN turns = 1..Len(turns)
  BY SeqShape
<1> HIDE DEF t
<1>3. IsSeq(t)
  BY <1>1, AppendShape
<1>4. Len(t) = Len(turns) + 1
  BY <1>1, AppendShape
<1>5. t[Len(t)] = m
  BY <1>1, AppendShape
<1>6. \A i \in DOMAIN turns : t[i] = turns[i]
  BY <1>1, AppendShape
<1>7. DOMAIN t = DOMAIN turns \cup {Len(t)}
  BY <1>1, AppendShape
<1>8. Range(t) = Range(turns) \cup {m}
  BY <1>5, <1>6, <1>7 DEF Range
<1>9. t[Len(turns) + 1] = m /\ \A i \in 1..Len(turns) : t[i] = turns[i]
  BY <1>2, <1>4, <1>5, <1>6
<1> QED BY <1>1, <1>3, <1>4, <1>8, <1>9 DEF t

LEMMA CompactDrops ==
    ASSUME IsSeq(turns), Compact
    PROVE  /\ said' = said /\ made' = made /\ phase' # "asked" /\ IsSeq(turns')
           /\ Range(turns') \subseteq Range(turns)
           /\ \E k \in 1..Len(turns) :
                /\ Len(turns') = Len(turns) - k
                /\ \A i \in 1..Len(turns') : turns'[i] = turns[k + i]
<1> DEFINE t == turns'
<1> DEFINE n == Len(turns)
<1>1. PICK k \in DOMAIN turns : t = SubSeq(turns, k + 1, n)
  BY DEF Compact
<1>2. said' = said /\ made' = made /\ phase' # "asked"
  BY DEF Compact
<1> HIDE DEF t
<1>3. n \in Nat /\ DOMAIN turns = 1..n
  BY SeqShape
<1>4. Len(turns) = n
  OBVIOUS
<1> HIDE DEF n
<1>5. k \in 1..n
  BY <1>1, <1>3
<1>6. \A i \in (k + 1)..n : turns[i] \in Range(turns)
  BY <1>3, <1>5 DEF Range
<1>7. /\ t \in Seq(Range(turns))
      /\ Len(t) = IF k + 1 <= n THEN n - (k + 1) + 1 ELSE 0
      /\ \A i \in 1..(n - (k + 1) + 1) : t[i] = turns[k + 1 + i - 1]
  BY <1>1, <1>3, <1>5, <1>6, SubSeqProperties
<1>8. IsSeq(t) /\ \A i \in DOMAIN t : t[i] \in Range(turns)
  BY <1>7, SeqIsSeq
<1>9. Len(t) = n - k
  BY <1>3, <1>5, <1>7
<1>10. \A i \in 1..Len(t) : i \in 1..(n - (k + 1) + 1) /\ k + 1 + i - 1 = k + i
  BY <1>3, <1>5, <1>9
<1>11. \A i \in 1..Len(t) : t[i] = turns[k + i]
  BY <1>7, <1>10
<1>12. Range(t) \subseteq Range(turns)
  BY <1>8 DEF Range
<1> QED BY <1>2, <1>4, <1>5, <1>8, <1>9, <1>11, <1>12 DEF t

LEMMA WordsStep ==
    ASSUME ConversationInv, WordsInv, [Next]_vars
    PROVE  WordsInv'
<1>0. said \in Nat /\ IsSeq(turns) /\ \A m \in Range(turns) : Worded(m)
  BY DEF WordsInv
<1>1. ASSUME NEW m, Worded(m), Say(m), phase' # "asked" PROVE WordsInv'
  BY <1>0, <1>1, SayAdds DEF WordsInv
<1>2. CASE Added
  BY <1>1, <1>2 DEF Added
<1>3. CASE Taken
  <2>1. PICK content, message :
            Worded(Message("assistant", FALSE, content)) /\ Answered(content, message)
    BY <1>3 DEF Taken
  <2>2. Say(Message("assistant", FALSE, content)) /\ phase' # "asked"
    BY <2>1 DEF Answered
  <2> QED BY <1>1, <2>1, <2>2
<1>4. CASE Compact
  BY <1>0, <1>4, CompactDrops DEF WordsInv
<1>5. CASE Stays
  BY <1>0, <1>5 DEF Stays, WordsInv
<1> QED BY <1>0, <1>2, <1>3, <1>4, <1>5, StepSays

\* The texts of a turn.
LEMMA WordedTells ==
    ASSUME NEW m, Worded(m), NEW types
    PROVE  Uttered(messageText(m.content)) /\ Uttered(Told(types, m.content))
<1>1. IsSeq(m.content) /\ \A b \in Range(m.content) : IsSeq(b.says) /\ Range(b.says) \subseteq Nat \ {0}
  BY DEF Worded, HonestContent, Honest, Uttered
<1>2. Uttered(messageText(m.content))
  <2>1. IsSeq(messageText(m.content))
    BY <1>1, SaysAre DEF messageText
  <2>2. Range(messageText(m.content)) =
            UNION {Range(b.says) : b \in {x \in Range(m.content) : x.type \in {"text"}}}
    BY <1>1, SaysAre DEF messageText
  <2> QED BY <1>1, <2>1, <2>2 DEF Uttered
<1>3. Uttered(Told(types, m.content))
  <2>1. Blocks(m.content)
    BY <1>1 DEF Blocks
  <2>2. IsSeq(Told(types, m.content))
    BY <2>1, ToldRange
  <2>3. \A u \in Range(Told(types, m.content)) : \E b \in Range(m.content) : u \in Range(b.says)
    BY <2>1, ToldRange
  <2> QED BY <1>1, <2>2, <2>3 DEF Uttered
<1> QED BY <1>2, <1>3

\* Sequences of the client's and the models' words.
LEMMA JoinedUttered ==
    ASSUME NEW n \in Nat, NEW s, s = [i \in 1..n |-> s[i]], \A i \in 1..n : Uttered(s[i])
    PROVE  Uttered(Joined(s))
<1>1. \A i \in 1..n : IsSeq(s[i]) /\ Range(s[i]) \subseteq Nat \ {0}
  BY DEF Uttered
<1>2. IsSeq(Joined(s)) /\ Range(Joined(s)) = UNION {Range(s[i]) : i \in 1..n}
  BY <1>1, MapJoined
<1> QED BY <1>1, <1>2 DEF Uttered

LEMMA OursIs == Range(Ours) = {0}
BY OneShape DEF Ours

\* What the request's messages say, on either wire.
SaidIn(wire, m) ==
    IF wire = "converse" THEN Says({"text"}, m.content)
    ELSE IF m.role = "tool" THEN <<>> ELSE m.content
LEMMA RequestTells ==
    ASSUME NEW wire, NEW messages, AllPlain(messages), NEW r, r = Translated(wire, messages),
           NEW types, types = {"text"} \cup IF wire = "converse" THEN {} ELSE {"image"},
           NEW S, 0 \notin S, IsSeq(Heard(types, messages)), Range(Heard(types, messages)) \subseteq S
    PROVE  LET passed == Joined([i \in DOMAIN r |-> SaidIn(wire, r[i])])
           IN  Only(passed, S) = Heard(types, messages) /\ IsSeq(passed)
<1> DEFINE passed == Joined([i \in DOMAIN r |-> SaidIn(wire, r[i])])
<1>1. Only(Heard(types, messages), S) = Heard(types, messages)
  BY OnlyAll
<1>2. CASE wire = "converse"
  <2>1. r = anthropicToConverseRequest(messages) /\ types = {"text"}
    BY <1>2 DEF Translated
  <2>2. AllPlain(r)
    BY <2>1, ConverseTells
  <2>3. Only(Heard({"text"}, r), S) = Only(Heard({"text"}, messages), S)
    BY <2>1, ConverseTells
  <2>4. \A i \in DOMAIN r : SaidIn(wire, r[i]) = Told({"text"}, r[i].content)
    <3> SUFFICES ASSUME NEW i \in DOMAIN r
                 PROVE  SaidIn(wire, r[i]) = Told({"text"}, r[i].content)
      OBVIOUS
    <3> DEFINE content == r[i].content
    <3>0. Plain(r[i])
      BY <2>2 DEF AllPlain, Range
    <3>1. Blocks(content) /\ \A b \in Range(content) : b.type = "text" => b.ref # "unknown source"
      BY <3>0 DEF Plain
    <3>2. SaidIn(wire, r[i]) = Says({"text"}, content)
      BY <1>2 DEF SaidIn
    <3> HIDE DEF content
    <3>3. \A b \in Range(content) : b.type \in {"text"} => b.ref # "unknown source"
      BY <3>1
    <3>4. Told({"text"}, content) = Says({"text"}, content)
      BY <3>1, <3>3, ToldIsSays
    <3> QED BY <3>2, <3>4 DEF content
  <2>5. passed = Heard({"text"}, r)
    BY <2>4 DEF Heard
  <2>6. IsSeq(Heard({"text"}, r))
    BY <2>2, HeardShape
  <2> HIDE DEF passed
  <2>7. Only(passed, S) = Heard(types, messages) /\ IsSeq(passed)
    BY <1>1, <2>1, <2>3, <2>5, <2>6
  <2> QED BY <2>7 DEF passed
<1>3. CASE wire # "converse"
  <2>1. r = anthropicToOpenAIRequest(wire, messages) /\ types = Visible
    BY <1>3 DEF Translated, Visible
  <2>2. passed = Joined([i \in DOMAIN r |-> IF r[i].role = "tool" THEN <<>> ELSE r[i].content])
    BY <1>3 DEF SaidIn
  <2> HIDE DEF passed
  <2>3. passed = Heard(Visible, messages)
    BY <2>1, <2>2, OpenAITells
  <2>4. Only(passed, S) = Heard(types, messages) /\ IsSeq(passed)
    BY <1>1, <2>1, <2>3
  <2> QED BY <2>4 DEF passed
<1> QED BY <1>2, <1>3

LEMMA InvWordsKept == ConversationInv /\ WordsInv => WordsKept
<1> SUFFICES ASSUME ConversationInv, WordsInv, phase = "asked"
             PROVE  WordsKept
  BY DEF WordsKept
<1> DEFINE wire == sent.wire
<1> DEFINE types == {"text"} \cup IF IsConverse THEN {} ELSE {"image"}
<1> DEFINE sourced(content) == Only(content, {b \in Range(content) : b.ref # "unknown source"})
<1> DEFINE words(i) == IF turns[i].role = "system" THEN messageText(turns[i].content)
                       ELSE Says(types, sourced(turns[i].content))
<1> DEFINE early(i) == turns[i].role = "system" /\ \A j \in 1..i : turns[j].role # "user"
<1> DEFINE received(first) == Joined([i \in DOMAIN turns |->
                                  IF early(i) = first THEN words(i) ELSE <<>>])
<1> DEFINE heard(m) == IF IsConverse THEN Says({"text"}, m.content)
                       ELSE IF m.role = "tool" THEN <<>> ELSE m.content
<1> DEFINE spoken == Joined([i \in DOMAIN sent.messages |-> heard(sent.messages[i])])
<1> DEFINE S == Nat \ Range(Ours)
<1> DEFINE h == [i \in DOMAIN turns |-> IF Hoisted(turns, i) THEN messageText(turns[i].content) ELSE <<>>]
<1> DEFINE v == [i \in DOMAIN turns |->
                    IF Hoisted(turns, i) THEN <<>>
                    ELSE IF turns[i].role = "system" THEN messageText(turns[i].content)
                    ELSE Told(types, turns[i].content)]
<1> DEFINE c == Conversational(turns)
<1> DEFINE messages == normalizeForIrPaths(turns)
<1>1. IsSeq(turns) /\ (\A m \in Range(turns) : Worded(m)) /\ sent.system = SystemPrompt(Prompt, turns)
  BY DEF WordsInv
<1>2. sent.messages = Translated(wire, messages)
  BY DEF ConversationInv
<1>3. Len(turns) \in Nat /\ DOMAIN turns = 1..Len(turns) /\ \A i \in 1..Len(turns) : Worded(turns[i])
  BY <1>1, SeqShape DEF Range
<1>4. AllPlain(turns)
  BY <1>1, WordedPlain DEF AllPlain
<1>5. "text" \in types /\ "tool_result" \notin types
        /\ types = {"text"} \cup IF wire = "converse" THEN {} ELSE {"image"}
  BY DEF IsConverse
<1>6. S = Nat \ {0} /\ 0 \notin S
  BY OursIs
<1>7. sent.system = Prompt \o Joined(h)
  BY <1>1 DEF SystemPrompt
<1>8. ASSUME NEW i \in DOMAIN turns PROVE early(i) <=> Hoisted(turns, i)
  <2>1. i \in 1..Len(turns) /\ Len(turns) \in Nat
    BY <1>3
  <2>2. CASE turns[i].role = "system"
    <3>1. 1..i = 1..(i - 1) \cup {i}
      BY <2>1
    <3> QED BY <2>2, <3>1 DEF Hoisted, SeenUserTurn
  <2>3. CASE turns[i].role # "system"
    BY <2>3 DEF Hoisted
  <2> QED BY <2>2, <2>3
<1>9. \A i \in DOMAIN turns : words(i) = IF turns[i].role = "system" THEN messageText(turns[i].content)
                                         ELSE Told(types, turns[i].content)
  BY DEF Told, Sourced
<1>10. \A i \in DOMAIN turns : /\ Hoisted(turns, i) => turns[i].role = "system"
                               /\ early(i) \in BOOLEAN
  BY DEF Hoisted
<1> HIDE DEF early, words, types
<1>11. received(TRUE) = Joined(h)
  <2>1. \A i \in DOMAIN turns : (IF early(i) = TRUE THEN words(i) ELSE <<>>) = h[i]
    BY <1>8, <1>9, <1>10
  <2>2. [i \in DOMAIN turns |-> IF early(i) = TRUE THEN words(i) ELSE <<>>] = h
    BY <2>1
  <2> QED BY <2>2
<1>12. received(FALSE) = Joined(v)
  <2>1. \A i \in DOMAIN turns : (IF early(i) = FALSE THEN words(i) ELSE <<>>) = v[i]
    BY <1>8, <1>9, <1>10
  <2>2. [i \in DOMAIN turns |-> IF early(i) = FALSE THEN words(i) ELSE <<>>] = v
    BY <2>1
  <2> QED BY <2>2
<1>13. \A i \in 1..Len(turns) : Uttered(messageText(turns[i].content)) /\ Uttered(Told(types, turns[i].content))
  BY <1>3, WordedTells
<1>14. Uttered(<<>>)
  BY EmptyShape, EmptyRange DEF Uttered
<1>15. h = [i \in 1..Len(turns) |-> h[i]] /\ \A i \in 1..Len(turns) : Uttered(h[i])
  BY <1>3, <1>13, <1>14
<1>16. v = [i \in 1..Len(turns) |-> v[i]] /\ \A i \in 1..Len(turns) : Uttered(v[i])
  BY <1>3, <1>13, <1>14
<1>17. AllPlain(c) /\ Heard(types, c) = Joined(v)
  <2>1. v = [i \in DOMAIN turns |->
                IF Hoisted(turns, i) THEN <<>>
                ELSE IF turns[i].role = "system" THEN messageText(turns[i].content)
                ELSE Told(types, turns[i].content)]
    OBVIOUS
  <2>2. "text" \in types
    BY <1>5
  <2>3. AllPlain(turns)
    BY <1>4
  <2> HIDE DEF v
  <2> QED BY <2>1, <2>2, <2>3, ConversationalTells
<1> HIDE DEF h, v
<1>18. Uttered(Joined(h)) /\ Uttered(Joined(v))
  BY <1>3, <1>15, <1>16, JoinedUttered
<1> HIDE DEF c
<1>19. messages = reconcileToolBlocks(c)
  BY DEF normalizeForIrPaths, c
<1> HIDE DEF messages
<1>20. AllPlain(messages) /\ Heard(types, messages) = Joined(v)
  BY <1>5, <1>17, <1>19, ReconciledTells
<1> HIDE DEF S
<1>21. IsSeq(Joined(v)) /\ Range(Joined(v)) \subseteq S /\ IsSeq(Joined(h)) /\ Range(Joined(h)) \subseteq S
         /\ IsSeq(Prompt) /\ Range(Prompt) \subseteq S
  BY <1>6, <1>18, ConversationAssumption DEF Uttered
<1>22. spoken = Joined([i \in DOMAIN sent.messages |-> SaidIn(wire, sent.messages[i])])
  BY DEF SaidIn, IsConverse
<1> DEFINE r == sent.messages
<1>23. r = Translated(wire, messages)
  BY <1>2
<1> HIDE DEF r, wire, spoken
<1>24. Only(spoken, S) = Joined(v) /\ IsSeq(spoken)
  <2>1. spoken = Joined([i \in DOMAIN r |-> SaidIn(wire, r[i])])
    BY <1>22 DEF r
  <2>2. Only(Joined([i \in DOMAIN r |-> SaidIn(wire, r[i])]), S) = Heard(types, messages)
          /\ IsSeq(Joined([i \in DOMAIN r |-> SaidIn(wire, r[i])]))
    BY <1>5, <1>6, <1>20, <1>21, <1>23, RequestTells
  <2> QED BY <1>20, <2>1, <2>2
<1> DEFINE x == Joined(h)
<1> DEFINE y == Joined(v)
<1> DEFINE system == Prompt \o x
<1>25. IsSeq(x) /\ Range(x) \subseteq S /\ IsSeq(y) /\ IsSeq(Prompt) /\ Range(Prompt) \subseteq S
  BY <1>21
<1>26. Only(spoken, S) = y /\ IsSeq(spoken) /\ sent.system = system /\ received(TRUE) = x /\ received(FALSE) = y
  BY <1>7, <1>11, <1>12, <1>24
<1>30. Only(sent.system \o spoken, S) = Prompt \o received(TRUE) \o received(FALSE) => WordsKept
  BY DEF WordsKept, early, words, types, spoken, S
<1> HIDE DEF x, y
<1>27. IsSeq(system) /\ Range(system) \subseteq S
  BY <1>25, ConcatRange
<1>28. Only(system, S) = system
  <2> HIDE DEF system
  <2> QED BY <1>27, OnlyAll
<1>29. Only(system \o spoken, S) = system \o y
  <2>1. IsSeq(system) /\ IsSeq(spoken) /\ Only(spoken, S) = y
    BY <1>26, <1>27
  <2> HIDE DEF system
  <2>2. Only(system \o spoken, S) = Only(system, S) \o Only(spoken, S)
    BY <2>1, OnlyConcat
  <2> QED BY <1>28, <2>1, <2>2
<1> QED BY <1>26, <1>29, <1>30

------------------------------------------------------------------------------
(* An answer comes back to the model that gave it.                             *)

\* Where the turn of an answer is now; it is gone when that is not positive.
Place(reply) == reply.turn - (said - Len(turns))
Held(reply) ==
    /\ reply.turn \in Nat /\ reply.turn <= said
    /\ reply.turn > said - Len(turns) =>
         \E content : /\ Genuine(reply.wire, reply.message, content)
                      /\ turns[Place(reply)] = Message("assistant", FALSE, content)
\* The inductive invariant: every answer that was not dropped is a turn.
MadeInv == Len(turns) <= said /\ \A reply \in made : Held(reply)

LEMMA MadeInitially == Init => MadeInv
<1> SUFFICES ASSUME Init PROVE MadeInv
  OBVIOUS
<1>1. turns = <<>> /\ said = 0 /\ made = {}
  BY DEF Init
<1>2. Len(turns) = 0
  BY <1>1, EmptyShape
<1> QED BY <1>1, <1>2 DEF MadeInv

LEMMA SaidHolds ==
    ASSUME WordsInv, MadeInv, NEW m, Say(m), NEW reply \in made
    PROVE  Held(reply)'
<1>1. said \in Nat /\ IsSeq(turns) /\ Len(turns) \in Nat /\ Len(turns) <= said /\ Held(reply)
  BY SeqShape DEF WordsInv, MadeInv
<1>2. /\ said' = said + 1 /\ Len(turns') = Len(turns) + 1
      /\ \A i \in 1..Len(turns) : turns'[i] = turns[i]
  BY <1>1, SayAdds
<1>3. reply.turn \in Nat /\ reply.turn <= said
  BY <1>1 DEF Held
<1> DEFINE k == Place(reply)
<1>4. k = reply.turn - (said - Len(turns)) /\ Place(reply)' = reply.turn - (said' - Len(turns'))
  BY DEF Place
<1> DEFINE n == Len(turns)
<1> DEFINE t == reply.turn
<1>5. n \in Nat /\ t \in Nat /\ t <= said /\ said \in Nat /\ said' = said + 1 /\ Len(turns') = n + 1
  BY <1>1, <1>2, <1>3
<1>6. k = t - (said - n) /\ Place(reply)' = t - (said' - Len(turns'))
  BY <1>4
<1>7. \A i \in 1..n : turns'[i] = turns[i]
  BY <1>2
<1>8. t > said - n => \E content : /\ Genuine(reply.wire, reply.message, content)
                                   /\ turns[k] = Message("assistant", FALSE, content)
  BY <1>1 DEF Held
<1>9. t \in Nat /\ t <= said' /\
        (t > said' - Len(turns') =>
         \E content : /\ Genuine(reply.wire, reply.message, content)
                      /\ turns'[Place(reply)'] = Message("assistant", FALSE, content))
      => Held(reply)'
  BY DEF Held
<1> HIDE DEF n, t, k
<1>10. Place(reply)' = k /\ (t > said' - Len(turns') <=> t > said - n) /\ t <= said'
  BY <1>5, <1>6
<1>11. t > said - n => k \in 1..n
  BY <1>5, <1>6
<1> QED BY <1>5, <1>7, <1>8, <1>9, <1>10, <1>11

LEMMA CompactHolds ==
    ASSUME WordsInv, MadeInv, Compact, NEW reply \in made
    PROVE  Held(reply)' /\ Len(turns') <= said'
<1>1. said \in Nat /\ IsSeq(turns) /\ Len(turns) \in Nat /\ Len(turns) <= said /\ Held(reply)
  BY SeqShape DEF WordsInv, MadeInv
<1>2. PICK j \in 1..Len(turns) : /\ Len(turns') = Len(turns) - j
                                 /\ \A i \in 1..Len(turns') : turns'[i] = turns[j + i]
  BY <1>1, CompactDrops
<1>3. said' = said
  BY <1>1, CompactDrops
<1> DEFINE k == Place(reply)
<1> DEFINE n == Len(turns)
<1> DEFINE l == Len(turns')
<1> DEFINE t == reply.turn
<1>5. n \in Nat /\ n <= said /\ t \in Nat /\ t <= said /\ said \in Nat /\ j \in 1..n /\ l = n - j
  BY <1>1, <1>2 DEF Held
<1>6. k = t - (said - n) /\ Place(reply)' = t - (said - l)
  BY <1>3 DEF Place
<1>7. \A i \in 1..l : turns'[i] = turns[j + i]
  BY <1>2
<1>8. t > said - n => \E content : /\ Genuine(reply.wire, reply.message, content)
                                   /\ turns[k] = Message("assistant", FALSE, content)
  BY <1>1 DEF Held
<1>9. t \in Nat /\ t <= said /\
        (t > said - l =>
         \E content : /\ Genuine(reply.wire, reply.message, content)
                      /\ turns'[Place(reply)'] = Message("assistant", FALSE, content))
      => Held(reply)'
  BY <1>3 DEF Held
<1> DEFINE kk == Place(reply)'
<1>12. kk = t - (said - l)
  BY <1>6
<1> HIDE DEF n, t, k, l, kk
<1>10. (t > said - l => t > said - n) /\ k = j + kk
  BY <1>5, <1>6, <1>12
<1>11. t > said - l => kk \in 1..l
  BY <1>5, <1>12
<1>13. t > said - l => turns'[kk] = turns[k]
  BY <1>7, <1>10, <1>11
<1>14. l <= said'
  BY <1>3, <1>5
<1> QED BY <1>5, <1>8, <1>9, <1>10, <1>13, <1>14 DEF l, kk

LEMMA MadeStep ==
    ASSUME ConversationInv, WordsInv, MadeInv, [Next]_vars
    PROVE  MadeInv'
<1>1. said \in Nat /\ IsSeq(turns) /\ Len(turns) \in Nat /\ Len(turns) <= said
  BY SeqShape DEF WordsInv, MadeInv
<1>2. CASE Added
  <2>1. PICK m : Say(m) /\ made' = made
    BY <1>2 DEF Added
  <2>2. said' = said + 1 /\ Len(turns') = Len(turns) + 1
    BY <1>1, <2>1, SayAdds
  <2>3. \A reply \in made : Held(reply)'
    BY <2>1, SaidHolds
  <2>4. Len(turns') <= said'
    BY <1>1, <2>2
  <2> QED BY <2>1, <2>3, <2>4 DEF MadeInv
<1>3. CASE Taken
  <2>1. PICK content, message :
            Genuine(sent.wire, message, content) /\ Answered(content, message)
    BY <1>3 DEF Taken
  <2> DEFINE m == Message("assistant", FALSE, content)
  <2>0. PICK fresh : fresh = [turn |-> said + 1, wire |-> sent.wire, message |-> message]
    OBVIOUS
  <2>2. Say(m) /\ made' = made \cup {fresh}
    BY <2>0, <2>1 DEF Answered
  <2>3. said' = said + 1 /\ Len(turns') = Len(turns) + 1 /\ turns'[Len(turns) + 1] = m
    BY <1>1, <2>2, SayAdds
  <2>4. \A reply \in made : Held(reply)'
    BY <2>2, SaidHolds
  <2>5. Len(turns') <= said'
    BY <1>1, <2>3
  <2>6. fresh.turn = said + 1 /\ fresh.wire = sent.wire /\ fresh.message = message
    BY <2>0
  <2> HIDE DEF m
  <2>7. Place(fresh)' = Len(turns) + 1
    <3>1. Place(fresh)' = fresh.turn - (said' - Len(turns'))
      BY DEF Place
    <3> DEFINE n == Len(turns)
    <3>2. n \in Nat /\ Place(fresh)' = (said + 1) - ((said + 1) - (n + 1))
      BY <1>1, <2>3, <2>6, <3>1
    <3> HIDE DEF n
    <3>3. Place(fresh)' = n + 1
      BY <1>1, <3>2
    <3> QED BY <3>3 DEF n
  <2>8. Genuine(fresh.wire, fresh.message, content) /\ turns'[Place(fresh)'] = Message("assistant", FALSE, content)
    BY <2>1, <2>3, <2>6, <2>7 DEF m
  <2>9. fresh.turn \in Nat /\ fresh.turn <= said'
    BY <1>1, <2>3, <2>6
  <2>10. Held(fresh)'
    BY <2>8, <2>9 DEF Held
  <2> QED BY <2>2, <2>4, <2>5, <2>10 DEF MadeInv
<1>4. CASE Compact
  <2>1. made' = made
    BY <1>4 DEF Compact
  <2>2. \A reply \in made : Held(reply)'
    BY <1>4, CompactHolds
  <2>3. Len(turns') <= said'
    <3>1. said' = said /\ \E k \in 1..Len(turns) : Len(turns') = Len(turns) - k
      BY <1>1, <1>4, CompactDrops
    <3> DEFINE n == Len(turns)
    <3> DEFINE l == Len(turns')
    <3>2. n \in Nat /\ n <= said /\ said' = said /\ \E k \in 1..n : l = n - k
      BY <1>1, <3>1
    <3> HIDE DEF n, l
    <3>3. l <= said'
      BY <1>1, <3>2
    <3> QED BY <3>3 DEF l
  <2> QED BY <2>1, <2>2, <2>3 DEF MadeInv
<1>5. CASE Stays
  BY <1>5 DEF Stays, MadeInv, Held, Place
<1> QED BY <1>1, <1>2, <1>3, <1>4, <1>5, StepSays DEF WordsInv

------------------------------------------------------------------------------
(* What is left of an answer as a turn.                                        *)

LEMMA RefsConcat ==
    ASSUME NEW type, NEW a, IsSeq(a), NEW b, IsSeq(b)
    PROVE  Refs(type, a \o b) = Refs(type, a) \o Refs(type, b)
<1> DEFINE B == Range(a) \cup Range(b)
<1> DEFINE g == [e \in B |-> IF e.type = type THEN <<e.ref>> ELSE <<>>]
<1> DEFINE u == a \o b
<1>1. \A e \in B : g[e] = IF e.type = type THEN <<e.ref>> ELSE <<>>
  OBVIOUS
<1>2. IsSeq(u) /\ Range(u) = B
  BY ConcatRange
<1>3. Range(a) \subseteq B /\ Range(b) \subseteq B /\ Range(u) \subseteq B
  BY <1>2
<1> HIDE DEF B, g, u
<1>4. ASSUME NEW s, IsSeq(s), Range(s) \subseteq B
      PROVE  Refs(type, s) = Spread(g, s) /\ Gives(g, s)
  <2>1. \A i \in DOMAIN s : s[i] \in B
    BY <1>4 DEF Range
  <2>2. \A i \in DOMAIN s : g[s[i]] = IF s[i].type = type THEN <<s[i].ref>> ELSE <<>>
    BY <1>1, <2>1
  <2>3. [i \in DOMAIN s |-> g[s[i]]] = [i \in DOMAIN s |-> IF s[i].type = type THEN <<s[i].ref>> ELSE <<>>]
    BY <2>2
  <2>4. Refs(type, s) = Spread(g, s)
    BY <2>3 DEF Refs, Spread
  <2>5. \A x \in Range(s) : IsSeq(g[x])
    <3> SUFFICES ASSUME NEW x \in Range(s) PROVE IsSeq(g[x])
      OBVIOUS
    <3>1. x \in B
      BY <1>4
    <3>2. CASE x.type = type
      <4>1. g[x] = <<x.ref>>
        BY <1>1, <3>1, <3>2
      <4> QED BY <4>1, OneShape
    <3>3. CASE x.type # type
      <4>1. g[x] = <<>>
        BY <1>1, <3>1, <3>3
      <4> QED BY <4>1, EmptyShape
    <3> QED BY <3>2, <3>3
  <2>6. Gives(g, s)
    BY <1>4, <2>5, GivesOn
  <2> QED BY <2>4, <2>6
<1>5. Refs(type, a) = Spread(g, a) /\ Gives(g, a)
  BY <1>3, <1>4
<1>6. Refs(type, b) = Spread(g, b) /\ Gives(g, b)
  BY <1>3, <1>4
<1>7. Refs(type, u) = Spread(g, u)
  BY <1>2, <1>3, <1>4
<1>8. Spread(g, a \o b) = Spread(g, a) \o Spread(g, b)
  BY <1>5, <1>6, SpreadConcat
<1> QED BY <1>5, <1>6, <1>7, <1>8 DEF u

LEMMA RefsNone ==
    ASSUME NEW type, NEW s, IsSeq(s), \A b \in Range(s) : b.type # type
    PROVE  Refs(type, s) = <<>>
<1>1. IsSeq(Refs(type, s)) /\ Range(Refs(type, s)) = Referred(type, s)
  BY RefsAre
<1>2. Referred(type, s) = {}
  BY ReferredIn
<1> QED BY <1>1, <1>2, EmptyRange

\* The blocks of calls.
UseBlocks(calls) == [i \in DOMAIN calls |-> Use(calls[i])]

LEMMA UsesAre ==
    ASSUME NEW calls, IsSeq(calls), NEW s, s = UseBlocks(calls)
    PROVE  /\ IsSeq(s) /\ Refs("tool_use", s) = calls
           /\ \A b \in Range(s) : b.type = "tool_use" /\ b.says = <<>>
<1>1. Len(calls) \in Nat /\ DOMAIN calls = 1..Len(calls)
  BY SeqShape
<1>2. \A c : Use(c).type = "tool_use" /\ Use(c).says = <<>> /\ Use(c).ref = c
  BY DEF Use, Block
<1>3. s = [i \in 1..Len(calls) |-> s[i]] /\ DOMAIN s = DOMAIN calls /\ \A i \in DOMAIN s : s[i] = Use(calls[i])
  BY <1>1 DEF UseBlocks
<1>4. IsSeq(s)
  BY <1>1, <1>3, FunShape
<1>5. \A b \in Range(s) : b.type = "tool_use" /\ b.says = <<>>
  BY <1>2, <1>3 DEF Range
<1> DEFINE S == Range(calls)
<1>6. [i \in DOMAIN s |-> IF s[i].type = "tool_use" THEN <<s[i].ref>> ELSE <<>>] = Singles(calls, S)
  <2>1. \A i \in DOMAIN calls : calls[i] \in S
    BY DEF Range
  <2>2. \A i \in DOMAIN s : s[i].type = "tool_use" /\ s[i].ref = calls[i]
    BY <1>2, <1>3
  <2> HIDE DEF S
  <2> QED BY <1>3, <2>1, <2>2 DEF Singles
<1>7. Refs("tool_use", s) = Joined(Singles(calls, S))
  BY <1>6 DEF Refs
<1>8. Only(calls, S) = Joined(Singles(calls, S))
  BY OnlyIsJoined
<1>9. Only(calls, S) = calls
  <2>1. Range(calls) \subseteq S
    OBVIOUS
  <2> HIDE DEF S
  <2> QED BY <2>1, OnlyAll
<1> QED BY <1>4, <1>5, <1>7, <1>8, <1>9

\* A block that is there unless it would say nothing.
LEMMA UnlessSays ==
    ASSUME NEW says, Uttered(says), NEW e, e.says = says, e.ref = Nobody, e.type # "tool_use",
           NEW s, s = IF says = <<>> THEN <<>> ELSE <<e>>
    PROVE  /\ Blocks(s) /\ Refs("tool_use", s) = <<>>
           /\ \A types : e.type \in types => Told(types, s) = says
           /\ \A types : e.type \notin types => Told(types, s) = <<>>
           /\ \A b \in Range(s) : b = e /\ says # <<>>
<1>0. IsSeq(says) /\ e.ref # "unknown source"
  BY DEF Uttered, Nobody
<1>1. CASE says = <<>>
  <2>1. s = <<>>
    BY <1>1
  <2>2. Blocks(s) /\ \A types : Told(types, s) = <<>>
    BY <2>1, ToldFew
  <2>3. IsSeq(s) /\ Range(s) = {}
    BY <2>1, EmptyShape, EmptyRange
  <2>4. Refs("tool_use", s) = <<>>
    BY <2>3, RefsNone
  <2> QED BY <1>1, <2>2, <2>3, <2>4
<1>2. CASE says # <<>>
  <2>1. s = <<e>>
    BY <1>2
  <2>2. IsSeq(s) /\ Range(s) = {e}
    BY <2>1, OneShape
  <2>3. Refs("tool_use", s) = <<>>
    BY <2>2, RefsNone
  <2>4. Blocks(s) /\ \A types : Told(types, s) = IF e.type \in types /\ e.ref # "unknown source" THEN e.says ELSE <<>>
    BY <1>0, <2>1, ToldFew
  <2> QED BY <1>0, <1>2, <2>2, <2>3, <2>4
<1> QED BY <1>1, <1>2

\* What a part of an answer says, and calls.
Speaks(s, aloud, silently, calls) ==
    /\ Blocks(s) /\ Told(Visible, s) = aloud /\ Told({"thinking"}, s) = silently
    /\ Refs("tool_use", s) = calls
    /\ \A b \in Range(s) : /\ b.type \in {"text", "thinking", "tool_use"} /\ ~isEmptyTextBlock(b)
                           /\ b.type = "thinking" => b.ref = Nobody

LEMMA SpeaksBoth ==
    ASSUME NEW s, NEW a, NEW b, NEW c, Speaks(s, a, b, c), IsSeq(a), IsSeq(b), IsSeq(c),
           NEW t, NEW x, NEW y, NEW z, Speaks(t, x, y, z), IsSeq(x), IsSeq(y), IsSeq(z)
    PROVE  Speaks(s \o t, a \o x, b \o y, c \o z)
<1> DEFINE u == s \o t
<1>1. Blocks(s) /\ Blocks(t) /\ IsSeq(s) /\ IsSeq(t)
  BY DEF Speaks, Blocks
<1>2. Blocks(u) /\ Told(Visible, u) = Told(Visible, s) \o Told(Visible, t)
  BY <1>1, ToldConcat
<1>3. Told({"thinking"}, u) = Told({"thinking"}, s) \o Told({"thinking"}, t)
  BY <1>1, ToldConcat
<1>4. Refs("tool_use", u) = Refs("tool_use", s) \o Refs("tool_use", t)
  BY <1>1, RefsConcat
<1>5. Range(u) = Range(s) \cup Range(t)
  BY <1>1, ConcatRange
<1> HIDE DEF u
<1>6. \A b1 \in Range(u) : /\ b1.type \in {"text", "thinking", "tool_use"} /\ ~isEmptyTextBlock(b1)
                           /\ b1.type = "thinking" => b1.ref = Nobody
  BY <1>5 DEF Speaks
<1>7. Speaks(u, a \o x, b \o y, c \o z)
  BY <1>2, <1>3, <1>4, <1>6 DEF Speaks
<1> QED BY <1>7 DEF u

LEMMA ReplySpeaks ==
    ASSUME NEW reply, Replied(reply)
    PROVE  Speaks(openAIResponseToIr(reply), reply.content \o reply.refusal, reply.reasoning, reply.calls)
<1> DEFINE r == reply.reasoning
<1> DEFINE w == reply.content
<1> DEFINE f == reply.refusal
<1> DEFINE k == reply.calls
<1> DEFINE a == IF r = <<>> THEN <<>> ELSE <<Thinking(r)>>
<1> DEFINE b == IF w = <<>> THEN <<>> ELSE <<Text(w)>>
<1> DEFINE c == IF f = <<>> THEN <<>> ELSE <<Text(f)>>
<1> DEFINE d == UseBlocks(k)
<1>1. openAIResponseToIr(reply) = a \o b \o c \o d
  BY DEF openAIResponseToIr, UseBlocks
<1>2. Uttered(r) /\ Uttered(w) /\ Uttered(f) /\ IsSeq(k)
  BY DEF Replied
<1>3. IsSeq(r) /\ IsSeq(w) /\ IsSeq(f) /\ IsSeq(k) /\ IsSeq(<<>>)
  BY <1>2, EmptyShape DEF Uttered
<1>0. reply.content \o reply.refusal = w \o f /\ reply.reasoning = r /\ reply.calls = k
  OBVIOUS
<1> HIDE DEF r, w, f, k
<1>4. Speaks(a, <<>>, r, <<>>)
  <2> DEFINE e == Thinking(r)
  <2>1. e.type = "thinking" /\ e.says = r /\ e.ref = Nobody /\ "thinking" \notin Visible
    BY DEF Thinking, Block, Visible
  <2>2. a = IF r = <<>> THEN <<>> ELSE <<e>>
    OBVIOUS
  <2> HIDE DEF e, a
  <2>3. /\ Blocks(a) /\ Refs("tool_use", a) = <<>> /\ Told({"thinking"}, a) = r /\ Told(Visible, a) = <<>>
        /\ \A x \in Range(a) : x = e
    BY <1>2, <2>1, <2>2, UnlessSays
  <2> QED BY <2>1, <2>3 DEF Speaks, isEmptyTextBlock
<1>5. ASSUME NEW says, Uttered(says), NEW s, s = IF says = <<>> THEN <<>> ELSE <<Text(says)>>
      PROVE  Speaks(s, says, <<>>, <<>>)
  <2> DEFINE e == Text(says)
  <2>1. e.type = "text" /\ e.says = says /\ e.ref = Nobody /\ "text" \in Visible
    BY DEF Text, Block, Visible
  <2>2. s = IF says = <<>> THEN <<>> ELSE <<e>>
    BY <1>5
  <2> HIDE DEF e
  <2>3. /\ Blocks(s) /\ Refs("tool_use", s) = <<>> /\ Told({"thinking"}, s) = <<>> /\ Told(Visible, s) = says
        /\ \A x \in Range(s) : x = e /\ says # <<>>
    BY <1>5, <2>1, <2>2, UnlessSays
  <2> QED BY <2>1, <2>3 DEF Speaks, isEmptyTextBlock
<1>6. Speaks(b, w, <<>>, <<>>)
  BY <1>2, <1>5
<1>7. Speaks(c, f, <<>>, <<>>)
  BY <1>2, <1>5
<1>8. Speaks(d, <<>>, <<>>, k)
  <2>1. IsSeq(d) /\ Refs("tool_use", d) = k /\ \A x \in Range(d) : x.type = "tool_use" /\ x.says = <<>>
    BY <1>3, UsesAre
  <2> HIDE DEF d
  <2>2. Blocks(d)
    BY <1>3, <2>1 DEF Blocks
  <2>3. Told(Visible, d) = <<>> /\ Told({"thinking"}, d) = <<>>
    BY <2>1, <2>2, ToldNone DEF Visible
  <2> QED BY <2>1, <2>2, <2>3 DEF Speaks, isEmptyTextBlock
<1> HIDE DEF a, b, c, d
<1>9. Speaks(a \o b, <<>> \o w, r \o <<>>, <<>> \o <<>>)
  BY <1>3, <1>4, <1>6, SpeaksBoth
<1>10. <<>> \o w = w /\ r \o <<>> = r /\ <<>> \o <<>> = <<>> /\ <<>> \o k = k /\ IsSeq(w \o f) /\ (w \o f) \o <<>> = w \o f
  BY <1>3, ConcatEmpty, EmptyConcat, ConcatRange
<1>11. Speaks(a \o b, w, r, <<>>)
  BY <1>9, <1>10
<1>12. Speaks(a \o b \o c, w \o f, r \o <<>>, <<>> \o <<>>)
  BY <1>3, <1>7, <1>11, SpeaksBoth
<1>13. Speaks(a \o b \o c, w \o f, r, <<>>)
  BY <1>10, <1>12
<1>14. Speaks(a \o b \o c \o d, (w \o f) \o <<>>, r \o <<>>, <<>> \o k)
  BY <1>3, <1>8, <1>10, <1>13, SpeaksBoth
<1> QED BY <1>0, <1>1, <1>10, <1>14

\* The blocks a Converse answer is shown by.
LEMMA ShownBlocks ==
    ASSUME NEW own, Spelled(own)
    PROVE  LET content == converseResponseToIr(own)
           IN  /\ content = Only(own, {b \in Range(own) : b.says # <<>> \/ b.type = "tool_use"})
               /\ HonestContent(content)
               /\ \A b \in Range(content) :
                    b.type \in {"text", "thinking", "tool_use"} /\ ~isEmptyTextBlock(b)
<1> DEFINE S == {b \in Range(own) : b.type = "thinking" => b.says # <<>>}
<1> DEFINE T == {b \in Range(own) : b.says # <<>> \/ b.type = "tool_use"}
<1> DEFINE content == converseResponseToIr(own)
<1>1. IsSeq(own) /\ HonestContent(own)
  BY DEF Spelled, HonestContent
<1>2. \A b \in Range(own) : /\ b.type \in {"text", "thinking", "tool_use"} /\ (b \in S <=> b \in T)
                            /\ ~isEmptyTextBlock(b)
  BY DEF Spelled, isEmptyTextBlock
<1>3. content = Only(own, S)
  BY DEF converseResponseToIr
<1> HIDE DEF S, T, content
<1>4. Only(own, S) = Only(own, T)
  BY <1>1, <1>2, OnlyAgree
<1>5. HonestContent(content)
  BY <1>1, <1>3, HonestFew
<1>6. Range(content) \subseteq Range(own)
  BY <1>1, <1>3, OnlyOf
<1>7. content = Only(own, T) /\ \A b \in Range(content) :
            b.type \in {"text", "thinking", "tool_use"} /\ ~isEmptyTextBlock(b)
  BY <1>2, <1>3, <1>4, <1>6
<1> QED BY <1>5, <1>7 DEF content, T

------------------------------------------------------------------------------
(* The way of a turn of a model's own.                                         *)

LEMMA InJoined ==
    ASSUME NEW n \in Nat, NEW s, s = [i \in 1..n |-> s[i]], \A i \in 1..n : IsSeq(s[i]),
           NEW i \in 1..n, NEW e \in Range(s[i])
    PROVE  e \in Range(Joined(s))
BY MapJoined

LEMMA StrippedNone ==
    ASSUME NEW content, IsSeq(content), \A b \in Range(content) : ~isEmptyTextBlock(b)
    PROVE  stripEmptyBlocks(content) = content
<1> DEFINE S == {b \in Range(content) : ~isEmptyTextBlock(b)}
<1>1. Range(content) \subseteq S
  OBVIOUS
<1>2. stripEmptyBlocks(content) = Only(content, S)
  BY DEF stripEmptyBlocks
<1> HIDE DEF S
<1> QED BY <1>1, <1>2, OnlyAll

LEMMA ComesThrough ==
    ASSUME NEW asked, AllPlain(asked),
           NEW content, content # <<>>, \A b \in Range(content) : ~isEmptyTextBlock(b),
           NEW m, m = Message("assistant", FALSE, content), m \in Range(asked)
    PROVE  m \in Range(normalizeForIrPaths(asked)) /\ AllPlain(normalizeForIrPaths(asked))
<1> DEFINE piece(i) ==
        IF Hoisted(asked, i) THEN <<>>
        ELSE IF asked[i].role = "system" THEN Demoted(asked[i])
        ELSE Kept(asked[i])
<1> DEFINE s == [i \in DOMAIN asked |-> piece(i)]
<1> DEFINE c == Conversational(asked)
<1> DEFINE N == Len(asked)
<1>1. N \in Nat /\ DOMAIN asked = 1..N /\ \A i \in 1..N : Plain(asked[i])
  BY SeqShape DEF AllPlain, Range
<1>2. c = Joined(s)
  BY DEF Conversational
<1>3. m.role = "assistant" /\ m.flat = FALSE /\ m.content = content
  BY DEF Message
<1>4. IsSeq(content)
  BY <1>3 DEF AllPlain, Plain, Blocks
<1>5. Kept(m) = <<m>>
  <2>1. stripEmptyBlocks(content) = content
    BY <1>4, StrippedNone
  <2>2. Kept(m) = <<Message(m.role, m.flat, content)>>
    BY <1>3, <2>1 DEF Kept
  <2> QED BY <1>3, <2>2
<1>6. \A i \in 1..N : IsSeq(piece(i))
  <2> SUFFICES ASSUME NEW i \in 1..N PROVE IsSeq(piece(i))
    OBVIOUS
  <2> DEFINE e == asked[i]
  <2>1. Plain(e) /\ Blocks(e.content)
    BY <1>1 DEF Plain
  <2> HIDE DEF e
  <2>2. IsSeq(Kept(e))
    BY <2>1, KeptTells DEF AllPlain
  <2>3. IsSeq(Demoted(e))
    <3>1. "text" \in {"text"}
      OBVIOUS
    <3> QED BY <2>1, <3>1, DemotedTells DEF AllPlain
  <2>4. IsSeq(<<>>)
    BY EmptyShape
  <2> QED BY <2>2, <2>3, <2>4 DEF e
<1>7. PICK k \in 1..N : asked[k] = m
  BY <1>1 DEF Range
<1>8. piece(k) = <<m>>
  BY <1>3, <1>5, <1>7 DEF Hoisted
<1>9. s = [i \in 1..N |-> s[i]] /\ \A i \in 1..N : s[i] = piece(i)
  BY <1>1
<1> HIDE DEF piece, s, N, c
<1>10. m \in Range(c)
  <2>1. m \in Range(s[k])
    BY <1>8, <1>9, OneShape
  <2>2. \A i \in 1..N : IsSeq(s[i])
    BY <1>6, <1>9
  <2>3. m \in Range(Joined(s))
    BY <1>1, <1>9, <2>1, <2>2, InJoined
  <2> QED BY <1>2, <2>3
<1>11. AllPlain(c)
  <2>1. "text" \in {"text"}
    OBVIOUS
  <2> QED BY <2>1, ConversationalTells DEF c
<1> DEFINE answer(i) == Answer(Pending(c[i]), IF Answering(c, i + 1) THEN c[i + 1].content ELSE <<>>)
<1> DEFINE given(i) ==
        IF Answering(c, i) THEN <<>>
        ELSE IF ~HasPending(c[i]) THEN <<c[i]>>
        ELSE <<c[i], answer(i)>>
<1> DEFINE t == [i \in DOMAIN c |-> given(i)]
<1> DEFINE M == Len(c)
<1>12. normalizeForIrPaths(asked) = Joined(t)
  BY DEF normalizeForIrPaths, reconcileToolBlocks, c
<1>13. M \in Nat /\ DOMAIN c = 1..M
  BY <1>11, SeqShape DEF AllPlain
<1> HIDE DEF answer, M
<1>14. \A i \in 1..M : IsSeq(given(i))
  BY EmptyShape, OneShape, PairShape
<1>15. PICK j \in 1..M : c[j] = m
  BY <1>10, <1>13 DEF Range
<1>16. m \in Range(given(j))
  <2>1. ~Answering(c, j)
    BY <1>3, <1>15 DEF Answering
  <2>2. CASE ~HasPending(c[j])
    <3>1. given(j) = <<m>>
      BY <1>15, <2>1, <2>2
    <3> QED BY <3>1, OneShape
  <2>3. CASE HasPending(c[j])
    <3>1. given(j) = <<m, answer(j)>>
      BY <1>15, <2>1, <2>3
    <3> DEFINE e == answer(j)
    <3> DEFINE p == <<m, e>>
    <3>2. IsSeq(p) /\ Len(p) = 2 /\ p[1] = m
      BY PairShape
    <3>3. given(j) = p
      BY <3>1
    <3> HIDE DEF p
    <3>4. 1 \in DOMAIN p
      BY <3>2, SeqShape
    <3> QED BY <3>2, <3>3, <3>4 DEF Range
  <2> QED BY <2>2, <2>3
<1>17. t = [i \in 1..M |-> t[i]] /\ \A i \in 1..M : t[i] = given(i)
  BY <1>13
<1> HIDE DEF given, t
<1>18. m \in Range(Joined(t))
  <2>1. \A i \in 1..M : IsSeq(t[i])
    BY <1>14, <1>17
  <2> QED BY <1>13, <1>15, <1>16, <1>17, <2>1, InJoined
<1>19. AllPlain(normalizeForIrPaths(asked))
  <2>1. "tool_result" \notin {"text"}
    OBVIOUS
  <2> QED BY <1>11, <2>1, ReconciledTells DEF normalizeForIrPaths, c
<1> QED BY <1>12, <1>18, <1>19

LEMMA OpenAIShows ==
    ASSUME NEW wire, NEW messages, AllPlain(messages),
           NEW m \in Range(messages), \A b \in Range(m.content) : b.type # "tool_result",
           NEW r, r = anthropicToOpenAIRequest(wire, messages)
    PROVE  \E i \in DOMAIN r : r[i] = Passed(wire, m)
<1> DEFINE s == [i \in DOMAIN messages |-> anthropicMessageToOpenAI(wire, messages[i])]
<1> DEFINE N == Len(messages)
<1> DEFINE p == anthropicMessageToOpenAI(wire, m)
<1> DEFINE x == Passed(wire, m)
<1>1. N \in Nat /\ DOMAIN messages = 1..N /\ \A i \in 1..N : Plain(messages[i])
  BY SeqShape DEF AllPlain, Range
<1>2. r = Joined(s)
  BY DEF anthropicToOpenAIRequest
<1>3. PICK k \in 1..N : messages[k] = m
  BY <1>1 DEF Range
<1>4. s = [i \in 1..N |-> s[i]] /\ \A i \in 1..N : s[i] = anthropicMessageToOpenAI(wire, messages[i])
  BY <1>1
<1> HIDE DEF N, s
<1>5. \A i \in 1..N : IsSeq(s[i])
  <2> SUFFICES ASSUME NEW i \in 1..N PROVE IsSeq(s[i])
    OBVIOUS
  <2> DEFINE e == messages[i]
  <2> DEFINE q == anthropicMessageToOpenAI(wire, e)
  <2>1. Plain(e) /\ s[i] = q
    BY <1>1, <1>4
  <2>2. q = anthropicMessageToOpenAI(wire, e)
    OBVIOUS
  <2> HIDE DEF e, q
  <2>3. IsSeq(q)
    BY <2>1, <2>2, PieceTells
  <2> QED BY <2>1, <2>3
<1>6. ToolMessages(m.content) = <<>>
  <2> DEFINE u == [i \in DOMAIN m.content |->
        IF m.content[i].type = "tool_result"
        THEN <<OpenAIMessage("tool", m.content[i].says, <<>>, <<>>, SanitizeResult(m.content[i].ref))>>
        ELSE <<>>]
  <2>1. ToolMessages(m.content) = Joined(u)
    BY DEF ToolMessages
  <2>2. Blocks(m.content)
    BY <1>1, <1>3 DEF Plain
  <2>3. IsSeq(m.content) /\ Len(m.content) \in Nat /\ DOMAIN m.content = 1..Len(m.content)
    BY <2>2, SeqShape DEF Blocks
  <2>4. \A i \in DOMAIN m.content : u[i] = <<>>
    BY DEF Range
  <2>5. u = [i \in 1..Len(m.content) |-> u[i]] /\ \A i \in 1..Len(m.content) : u[i] = <<>>
    BY <2>3, <2>4
  <2> HIDE DEF u
  <2>6. \A i \in 1..Len(m.content) : IsSeq(u[i]) /\ Range(u[i]) = {}
    BY <2>5, EmptyShape, EmptyRange
  <2>7. IsSeq(Joined(u)) /\ Range(Joined(u)) = {}
    <3>1. IsSeq(Joined(u)) /\ Range(Joined(u)) = UNION {Range(u[i]) : i \in 1..Len(m.content)}
      BY <2>3, <2>5, <2>6, MapJoined
    <3> QED BY <2>6, <3>1
  <2> QED BY <2>1, <2>7, EmptyRange
<1>7. p = <<x>>
  <2>0. p = anthropicMessageToOpenAI(wire, m)
    OBVIOUS
  <2> HIDE DEF p
  <2>1. PICK y : IsPiece(p, wire, m, y)
    BY <2>0, PieceIs
  <2>2. y = x /\ (p = <<y>> \o <<>> \/ p = <<>> \o <<y>>)
    BY <1>6, <2>1 DEF IsPiece
  <2>3. IsSeq(<<y>>)
    BY OneShape
  <2>4. <<y>> \o <<>> = <<y>> /\ <<>> \o <<y>> = <<y>>
    BY <2>3, ConcatEmpty, EmptyConcat
  <2> QED BY <2>2, <2>4
<1>8. x \in Range(s[k])
  <2>1. s[k] = <<x>>
    BY <1>3, <1>4, <1>7
  <2> HIDE DEF x
  <2> QED BY <2>1, OneShape
<1> HIDE DEF x, p
<1>9. x \in Range(r)
  BY <1>1, <1>2, <1>4, <1>5, <1>8, InJoined
<1> QED BY <1>9 DEF x, Range

\* v stands in w, unbroken.
Within(v, w) == \E a, b : IsSeq(a) /\ IsSeq(b) /\ IsSeq(v) /\ w = a \o v \o b
Has(messages, v) ==
    \E i \in DOMAIN messages : messages[i].role = "assistant" /\ Within(v, messages[i].content)

LEMMA WithinIsSub ==
    ASSUME NEW v, NEW w, Within(v, w)
    PROVE  v \in SubSeqs(w)
<1>1. PICK a, b : IsSeq(a) /\ IsSeq(b) /\ IsSeq(v) /\ w = a \o v \o b
  BY DEF Within
<1> DEFINE av == a \o v
<1>2. IsSeq(av)
  BY <1>1, ConcatRange
<1>3. Len(av) = Len(a) + Len(v)
  BY <1>1, ConcatShape
<1>4. \A i \in 1..Len(v) : av[Len(a) + i] = v[i]
  BY <1>1, ConcatShape
<1>5. w = av \o b
  BY <1>1
<1> HIDE DEF av
<1>6. IsSeq(w)
  BY <1>1, <1>2, <1>5, ConcatRange
<1>7. Len(w) = Len(av) + Len(b)
  BY <1>1, <1>2, <1>5, ConcatShape
<1>8. \A i \in 1..Len(av) : w[i] = av[i]
  BY <1>1, <1>2, <1>5, ConcatShape
<1> DEFINE l == Len(a)
<1> DEFINE n == Len(v)
<1> DEFINE k == l + n
<1> DEFINE u == SubSeq(w, l + 1, k)
<1>9. l \in Nat /\ n \in Nat /\ Len(b) \in Nat /\ DOMAIN w = 1..Len(w)
  BY <1>1, <1>6, SeqShape
<1>10. \A i \in (l + 1)..k : w[i] \in Range(w)
  BY <1>3, <1>7, <1>9 DEF Range
<1>11. /\ u \in Seq(Range(w)) /\ Len(u) = IF l + 1 <= k THEN k - (l + 1) + 1 ELSE 0
       /\ \A i \in 1..(k - (l + 1) + 1) : u[i] = w[l + 1 + i - 1]
  BY <1>9, <1>10, SubSeqProperties
<1>12. Len(v) = n /\ Len(av) = k /\ \A i \in 1..n : av[l + i] = v[i]
  BY <1>3, <1>4
<1>13. l \in 0..Len(w) /\ k \in 0..Len(w)
  BY <1>3, <1>7, <1>9
<1> HIDE DEF l, n
<1>14. Len(u) = n
  BY <1>9, <1>11
<1>15. \A i \in 1..n : i \in 1..(k - (l + 1) + 1) /\ l + 1 + i - 1 = l + i /\ l + i \in 1..k
  BY <1>9
<1>16. \A i \in 1..n : u[i] = v[i]
  BY <1>8, <1>11, <1>12, <1>15
<1>17. IsSeq(u)
  BY <1>11, SeqIsSeq
<1> HIDE DEF u
<1>18. u = v
  BY <1>1, <1>12, <1>14, <1>16, <1>17, SeqSame
<1>19. u \in SubSeqs(w)
  <2> HIDE DEF k
  <2> QED BY <1>13 DEF SubSeqs, u
<1> QED BY <1>18, <1>19

LEMMA WithKeeps ==
    ASSUME NEW acc, Contents(acc), NEW m, IsSeq(m.content), NEW v, Has(acc, v)
    PROVE  Has(With(acc, m), v)
<1> DEFINE n == Len(acc)
<1> DEFINE last == acc[n]
<1> DEFINE grown == [role |-> last.role, content |-> last.content \o m.content]
<1> DEFINE w == With(acc, m)
<1>1. n \in Nat /\ DOMAIN acc = 1..n /\ IsSeq(acc)
  BY SeqShape DEF Contents
<1>2. PICK i \in DOMAIN acc : acc[i].role = "assistant" /\ Within(v, acc[i].content)
  BY DEF Has
<1>3. CASE m.content = <<>>
  BY <1>3 DEF With
<1>4. CASE m.content # <<>> /\ ~(acc # <<>> /\ last.role = m.role)
  <2>1. w = Append(acc, m)
    BY <1>4 DEF With
  <2> HIDE DEF w
  <2>2. DOMAIN w = DOMAIN acc \cup {Len(w)}
    BY <1>1, <2>1, AppendShape
  <2>3. \A j \in DOMAIN acc : w[j] = acc[j]
    BY <1>1, <2>1, AppendShape
  <2>4. Has(w, v)
    BY <1>2, <2>2, <2>3 DEF Has
  <2> QED BY <2>4 DEF w
<1>5. CASE m.content # <<>> /\ acc # <<>> /\ last.role = m.role
  <2>1. w = [acc EXCEPT ![n] = grown]
    BY <1>5 DEF With
  <2>2. n \in DOMAIN acc
    <3>1. n # 0
      BY <1>1, <1>5, EmptyRange
    <3> QED BY <1>1, <3>1
  <2>3. grown.role = last.role /\ grown.content = last.content \o m.content
    OBVIOUS
  <2> HIDE DEF w, grown
  <2>4. DOMAIN w = DOMAIN acc
    BY <1>1, <2>1, <2>2, ExceptShape
  <2>5. w[n] = grown
    BY <1>1, <2>1, <2>2, ExceptShape
  <2>6. \A j \in DOMAIN acc \ {n} : w[j] = acc[j]
    BY <1>1, <2>1, <2>2, ExceptShape
  <2>7. Within(v, acc[i].content \o m.content)
    <3> DEFINE x == acc[i].content
    <3> DEFINE z == m.content
    <3>1. PICK a, b : IsSeq(a) /\ IsSeq(b) /\ IsSeq(v) /\ x = a \o v \o b
      BY <1>2 DEF Within
    <3>2. IsSeq(z)
      OBVIOUS
    <3>0. x = acc[i].content /\ z = m.content
      OBVIOUS
    <3> HIDE DEF x, z
    <3> DEFINE av == a \o v
    <3>3. IsSeq(av) /\ x = av \o b
      BY <3>1, ConcatRange
    <3>4. IsSeq(b \o z)
      BY <3>1, <3>2, ConcatRange
    <3> HIDE DEF av
    <3>5. x \o z = av \o (b \o z)
      BY <3>1, <3>2, <3>3, ConcatAssoc
    <3>6. x \o z = a \o v \o (b \o z)
      BY <3>5 DEF av
    <3>7. Within(v, x \o z)
      BY <3>1, <3>4, <3>6 DEF Within
    <3> QED BY <3>0, <3>7
  <2>8. w[i].role = "assistant" /\ Within(v, w[i].content)
    <3>1. CASE i = n
      BY <1>2, <2>3, <2>5, <2>7, <3>1
    <3>2. CASE i # n
      BY <1>2, <2>6, <3>2
    <3> QED BY <3>1, <3>2
  <2>9. Has(w, v)
    BY <2>4, <2>8 DEF Has
  <2> QED BY <2>9 DEF w
<1> QED BY <1>3, <1>4, <1>5

LEMMA WithAdds ==
    ASSUME NEW acc, Contents(acc), NEW m, IsSeq(m.content), m.content # <<>>, m.role = "assistant"
    PROVE  Has(With(acc, m), m.content)
<1> DEFINE n == Len(acc)
<1> DEFINE v == m.content
<1> DEFINE last == acc[n]
<1> DEFINE grown == [role |-> last.role, content |-> last.content \o m.content]
<1> DEFINE w == With(acc, m)
<1>1. n \in Nat /\ DOMAIN acc = 1..n /\ IsSeq(acc)
  BY SeqShape DEF Contents
<1>2. IsSeq(<<>>) /\ IsSeq(v)
  BY EmptyShape
<1>0. v = m.content
  OBVIOUS
<1>4. CASE ~(acc # <<>> /\ last.role = m.role)
  <2>1. w = Append(acc, m)
    BY <1>4 DEF With
  <2> HIDE DEF w, v
  <2>2. DOMAIN w = DOMAIN acc \cup {Len(w)}
    BY <1>1, <2>1, AppendShape
  <2>3. w[Len(w)] = m
    BY <1>1, <2>1, AppendShape
  <2>4. Within(v, v)
    <3>1. <<>> \o v = v /\ v \o <<>> = v
      BY <1>2, ConcatEmpty, EmptyConcat
    <3>2. v = <<>> \o v \o <<>>
      BY <3>1
    <3> QED BY <1>2, <3>2 DEF Within
  <2>5. Has(w, v)
    BY <1>0, <2>2, <2>3, <2>4 DEF Has
  <2> QED BY <1>0, <2>5 DEF w
<1>5. CASE acc # <<>> /\ last.role = m.role
  <2>1. w = [acc EXCEPT ![n] = grown]
    BY <1>5 DEF With
  <2>2. n \in DOMAIN acc
    <3>1. n # 0
      BY <1>1, <1>5, EmptyRange
    <3> QED BY <1>1, <3>1
  <2>3. grown.role = last.role /\ grown.content = last.content \o v
    OBVIOUS
  <2> HIDE DEF w, grown, v
  <2>4. DOMAIN w = DOMAIN acc
    BY <1>1, <2>1, <2>2, ExceptShape
  <2>5. w[n] = grown
    BY <1>1, <2>1, <2>2, ExceptShape
  <2>6. Within(v, grown.content)
    <3> DEFINE x == last.content
    <3>1. IsSeq(x)
      BY <2>2 DEF Contents
    <3>2. grown.content = x \o v
      BY <2>3
    <3> HIDE DEF x
    <3> DEFINE xv == x \o v
    <3>3. IsSeq(xv)
      BY <1>2, <3>1, ConcatRange
    <3>4. xv \o <<>> = xv
      <4> HIDE DEF xv
      <4> QED BY <3>3, ConcatEmpty
    <3>5. grown.content = x \o v \o <<>>
      BY <3>2, <3>4
    <3> QED BY <1>2, <3>1, <3>5 DEF Within
  <2>7. Has(w, v)
    BY <1>5, <2>2, <2>3, <2>4, <2>5, <2>6 DEF Has
  <2> QED BY <1>0, <2>7 DEF w
<1> QED BY <1>4, <1>5

LEMMA MergedHas ==
    ASSUME NEW messages, Contents(messages), NEW m \in Range(messages),
           m.role = "assistant", m.content # <<>>
    PROVE  Has(Merged(messages), m.content)
<1> DEFINE v == m.content
<1> DEFINE N == Len(messages)
<1>1. N \in Nat /\ DOMAIN messages = 1..N /\ \A i \in 1..N : IsSeq(messages[i].content)
  BY SeqShape DEF Contents
<1>2. PICK k \in 1..N : messages[k] = m
  BY <1>1 DEF Range
<1>3. PICK F : MergesUp(messages, F)
  BY MergedUp
<1>4. /\ Merged(messages) = F[N] /\ \A i \in 1..N : F[i] = With(F[i - 1], messages[i])
      /\ \A i \in 0..N : Contents(F[i])
  BY <1>3 DEF MergesUp
<1> HIDE DEF N
<1> DEFINE S == {i \in 0..N : i >= k => Has(F[i], v)}
<1>5. 0 \in S
  BY <1>1
<1>6. ASSUME NEW i \in 1..N, i - 1 \in S PROVE i \in S
  <2>1. i \in 0..N /\ i - 1 \in 0..N
    BY <1>1
  <2> DEFINE acc == F[i - 1]
  <2> DEFINE e == messages[i]
  <2>2. Contents(acc) /\ IsSeq(e.content) /\ F[i] = With(acc, e)
    BY <1>1, <1>4, <2>1
  <2>3. i - 1 >= k => Has(acc, v)
    BY <1>6
  <2>4. i = k => e = m
    BY <1>2
  <2> HIDE DEF acc, e
  <2>5. CASE i < k
    BY <1>1, <2>1, <2>5
  <2>6. CASE i = k
    <3>1. Has(With(acc, m), m.content)
      BY <2>2, <2>4, <2>6, WithAdds
    <3> QED BY <2>1, <2>2, <2>4, <2>6, <3>1
  <2>7. CASE i > k
    <3>1. i - 1 >= k
      BY <1>1, <2>7
    <3>2. Has(With(acc, e), v)
      BY <2>2, <2>3, <3>1, WithKeeps
    <3> QED BY <2>1, <2>2, <3>2
  <2> QED BY <1>1, <2>5, <2>6, <2>7
<1>7. \A i \in 0..N : i \in S
  <2> HIDE DEF S
  <2> QED BY <1>1, <1>5, <1>6, Upto
<1>8. N \in 0..N /\ N >= k
  BY <1>1
<1> QED BY <1>4, <1>7, <1>8

LEMMA ConverseShows ==
    ASSUME NEW messages, AllPlain(messages), NEW m \in Range(messages), m.role = "assistant", m.content # <<>>,
           \A b \in Range(m.content) :
               b.type \in {"text", "thinking", "tool_use"} /\ ~isEmptyTextBlock(b),
           NEW r, r = anthropicToConverseRequest(messages)
    PROVE  \E i \in DOMAIN r : r[i].role = "assistant" /\ m.content \in SubSeqs(r[i].content)
<1> DEFINE ir == [i \in DOMAIN messages |-> anthropicMessageToIr(messages[i])]
<1> DEFINE N == Len(messages)
<1> DEFINE t == anthropicMessageToIr(m)
<1> DEFINE content == m.content
<1>1. N \in Nat /\ DOMAIN messages = 1..N /\ \A i \in 1..N : Plain(messages[i])
  BY SeqShape DEF AllPlain, Range
<1>2. r = Merged(ir)
  BY DEF anthropicToConverseRequest
<1>3. PICK k \in 1..N : messages[k] = m
  BY <1>1 DEF Range
<1>4. IsSeq(content) /\ Len(content) \in Nat /\ DOMAIN content = 1..Len(content)
  BY <1>1, <1>3, SeqShape DEF Plain, Blocks
<1>5. t.role = "assistant" /\ t.content = content
  <2> DEFINE S == {b \in Range(content) : b.type # "redacted_thinking"}
  <2> DEFINE read == Only(content, S)
  <2> DEFINE mapped == [i \in DOMAIN read |-> ToConverse(read[i])]
  <2>1. Range(content) \subseteq S
    OBVIOUS
  <2>2. t.role = m.role /\ t.content = stripEmptyBlocks(mapped)
    BY DEF anthropicMessageToIr
  <2>3. read = content
    <3> HIDE DEF S, content
    <3> QED BY <1>4, <2>1, OnlyAll
  <2>4. \A i \in DOMAIN content : ToConverse(content[i]) = content[i]
    BY DEF ToConverse, Range
  <2> HIDE DEF read
  <2>5. mapped = [i \in DOMAIN content |-> content[i]]
    BY <2>3, <2>4
  <2> HIDE DEF mapped, t
  <2>6. content = [i \in DOMAIN content |-> content[i]]
    BY <1>4 DEF IsSeq
  <2>7. mapped = content
    BY <2>5, <2>6
  <2>8. stripEmptyBlocks(content) = content
    BY <1>4, StrippedNone
  <2> QED BY <2>2, <2>7, <2>8
<1>6. ir = [i \in 1..N |-> ir[i]] /\ DOMAIN ir = 1..N /\ \A i \in 1..N : ir[i] = anthropicMessageToIr(messages[i])
  BY <1>1
<1> HIDE DEF ir, N, t
<1>7. IsSeq(ir)
  BY <1>1, <1>6, FunShape
<1>8. Contents(ir)
  <2> SUFFICES ASSUME NEW i \in 1..N PROVE IsSeq(ir[i].content)
    BY <1>6, <1>7 DEF Contents
  <2> DEFINE e == messages[i]
  <2> DEFINE f == ir[i]
  <2>1. Plain(e) /\ f = anthropicMessageToIr(e)
    BY <1>1, <1>6
  <2> HIDE DEF e, f
  <2>2. Plain(f)
    <3>1. 0 \notin {}
      OBVIOUS
    <3> QED BY <2>1, <3>1, IrTells
  <2> QED BY <2>2 DEF f, Plain, Blocks
<1>9. t \in Range(ir)
  BY <1>3, <1>6 DEF Range, t
<1>10. Has(r, content)
  <2>1. t.content # <<>>
    BY <1>5
  <2>2. Has(Merged(ir), t.content)
    BY <1>5, <1>8, <1>9, <2>1, MergedHas
  <2> QED BY <1>2, <1>5, <2>2
<1> QED BY <1>10, WithinIsSub DEF Has

Shown(own) == IF IsConverse
              THEN Only(own, {b \in Range(own) : b.says # <<>> \/ b.type = "tool_use"})
              ELSE openAIResponseToIr(own)
Again(own, m) ==
    /\ m.role = "assistant"
    /\ IF IsConverse THEN Shown(own) \in SubSeqs(m.content)
       ELSE /\ m.content = own.content \o own.refusal
            /\ m.calls = [k \in DOMAIN own.calls |-> Sanitized[own.calls[k]]]
            /\ m.reasoning = IF sent.wire = "zai" THEN own.reasoning ELSE <<>>

LEMMA InvReturns == ConversationInv /\ WordsInv /\ MadeInv => ReturnsAsMade
<1> SUFFICES ASSUME ConversationInv, WordsInv, MadeInv, NEW reply \in made, phase = "asked",
                    reply.wire = sent.wire, reply.turn > said - Len(turns),
                    Shown(reply.message) # <<>>
             PROVE  \E i \in DOMAIN sent.messages : Again(reply.message, sent.messages[i])
  BY DEF ReturnsAsMade, Shown, Again
<1>a. PICK own : own = reply.message
  OBVIOUS
<1> DEFINE shown == Shown(own)
<1>b. shown # <<>>
  BY <1>a
<1> DEFINE wire == sent.wire
<1> DEFINE r == sent.messages
<1> DEFINE messages == normalizeForIrPaths(turns)
<1>1. wire \in Wires /\ r = Translated(wire, messages)
  BY DEF ConversationInv
<1>2. PICK content : /\ Genuine(reply.wire, reply.message, content)
                     /\ turns[Place(reply)] = Message("assistant", FALSE, content)
  BY DEF MadeInv, Held
<1>3. Genuine(wire, own, content)
  BY <1>2, <1>a
<1> DEFINE m == Message("assistant", FALSE, content)
<1>4. m.role = "assistant" /\ m.content = content /\ m = Message("assistant", FALSE, content)
  BY DEF Message
<1>5. AllPlain(turns)
  BY WordedPlain DEF WordsInv, AllPlain
<1>6. m \in Range(turns)
  <2>1. reply.turn \in Nat /\ reply.turn <= said /\ said \in Nat /\ IsSeq(turns)
          /\ Len(turns) \in Nat /\ DOMAIN turns = 1..Len(turns)
    BY SeqShape DEF MadeInv, Held, WordsInv
  <2> DEFINE n == Len(turns)
  <2> DEFINE t == reply.turn
  <2>2. Place(reply) = t - (said - n) /\ n \in Nat /\ t \in Nat /\ t <= said /\ said \in Nat /\ t > said - n
    BY <2>1 DEF Place
  <2> HIDE DEF n, t
  <2>3. Place(reply) \in 1..n
    BY <2>2
  <2> HIDE DEF m
  <2>4. Place(reply) \in DOMAIN turns
    BY <2>1, <2>3 DEF n
  <2> QED BY <1>2, <2>4 DEF Range, m
<1> HIDE DEF m
\* As a turn of the conversation, it is passed on.
<1>7. ASSUME content # <<>>, \A b \in Range(content) : ~isEmptyTextBlock(b)
      PROVE  m \in Range(messages) /\ AllPlain(messages)
  BY <1>4, <1>5, <1>6, <1>7, ComesThrough
<1> HIDE DEF messages
<1>8. CASE wire = "converse"
  <2>1. Spelled(own) /\ content = converseResponseToIr(own) /\ IsConverse
    BY <1>3, <1>8 DEF Genuine, IsConverse
  <2>2. /\ content = Only(own, {b \in Range(own) : b.says # <<>> \/ b.type = "tool_use"})
        /\ \A b \in Range(content) :
             b.type \in {"text", "thinking", "tool_use"} /\ ~isEmptyTextBlock(b)
    BY <2>1, ShownBlocks
  <2>3. shown = content /\ content # <<>>
    BY <1>b, <2>1, <2>2 DEF Shown
  <2>4. m \in Range(messages) /\ AllPlain(messages)
    BY <1>7, <2>2, <2>3
  <2>5. r = anthropicToConverseRequest(messages)
    BY <1>1, <1>8 DEF Translated
  <2>6. m.content # <<>> /\ \A b \in Range(m.content) :
             b.type \in {"text", "thinking", "tool_use"} /\ ~isEmptyTextBlock(b)
    BY <1>4, <2>2, <2>3
  <2> HIDE DEF r
  <2>7. \E i \in DOMAIN r : r[i].role = "assistant" /\ m.content \in SubSeqs(r[i].content)
    BY <1>4, <2>4, <2>5, <2>6, ConverseShows
  <2>8. \E i \in DOMAIN r : r[i].role = "assistant" /\ shown \in SubSeqs(r[i].content)
    BY <1>4, <2>3, <2>7
  <2> QED BY <1>a, <2>1, <2>8 DEF r, Again
<1>9. CASE wire # "converse"
  <2>1. Replied(own) /\ content = openAIResponseToIr(own) /\ ~IsConverse
    BY <1>3, <1>9 DEF Genuine, IsConverse
  <2>2. Speaks(content, own.content \o own.refusal, own.reasoning, own.calls)
    BY <2>1, ReplySpeaks
  <2>13. shown = content /\ content # <<>>
    BY <1>b, <2>1 DEF Shown
  <2>3. /\ Blocks(content) /\ Told(Visible, content) = own.content \o own.refusal
        /\ Told({"thinking"}, content) = own.reasoning /\ Refs("tool_use", content) = own.calls
        /\ \A b \in Range(content) : /\ b.type \in {"text", "thinking", "tool_use"} /\ ~isEmptyTextBlock(b)
                                     /\ b.type = "thinking" => b.ref = Nobody
    BY <2>2 DEF Speaks
  <2>4. m \in Range(messages) /\ AllPlain(messages)
    BY <1>7, <2>3, <2>13
  <2>5. r = anthropicToOpenAIRequest(wire, messages)
    BY <1>1, <1>9 DEF Translated
  <2>6. \A b \in Range(m.content) : b.type # "tool_result"
    BY <1>4, <2>3
  <2>7. Says({"thinking"}, content) = own.reasoning
    <3>1. \A b \in Range(content) : b.type \in {"thinking"} => b.ref # "unknown source"
      BY <2>3 DEF Nobody
    <3>2. Told({"thinking"}, content) = Says({"thinking"}, content)
      BY <2>3, <3>1, ToldIsSays
    <3> QED BY <2>3, <3>2
  <2>8. ToolCalls(content) = [k \in DOMAIN own.calls |-> Sanitized[own.calls[k]]]
    BY <2>3 DEF ToolCalls
  <2> HIDE DEF r
  <2>9. PICK i \in DOMAIN r : r[i] = Passed(wire, m)
    BY <2>4, <2>5, <2>6, OpenAIShows
  <2> DEFINE x == Passed(wire, m)
  <2>10. /\ x.role = m.role /\ x.content = Told(Visible, m.content) /\ x.reasoning = Reasoning(wire, m)
         /\ x.calls = IF m.role = "assistant" THEN ToolCalls(m.content) ELSE <<>>
    BY DEF Passed, OpenAIMessage
  <2>11. Reasoning(wire, m) = IF wire = "zai" THEN Says({"thinking"}, m.content) ELSE <<>>
    BY <1>4 DEF Reasoning
  <2> HIDE DEF x, wire
  <2>12. /\ x.role = "assistant" /\ x.content = own.content \o own.refusal
         /\ x.calls = [k \in DOMAIN own.calls |-> Sanitized[own.calls[k]]]
         /\ x.reasoning = IF wire = "zai" THEN own.reasoning ELSE <<>>
    BY <1>4, <2>3, <2>7, <2>8, <2>10, <2>11
  <2> QED BY <1>a, <2>1, <2>9, <2>12 DEF r, x, wire, Again
<1> QED BY <1>8, <1>9

\* In conversations of any length and over any changes of the model asked, what the
\* client and the models said reaches the next model: every word once, in order, the
\* operator's in the system prompt, and to the model that gave it, its answer as it was
\* (normalizeForIrPaths(), anthropicMessageToOpenAI(), anthropicToConverseRequest()).
THEOREM ConversationNothingLost == Spec => []NothingLost
<1> DEFINE Inv == ConversationInv /\ WordsInv /\ MadeInv
<1>1. Init => Inv
  BY ConversationInitially, WordsInitially, MadeInitially
<1>2. Inv /\ [Next]_vars => Inv'
  <2> SUFFICES ASSUME ConversationInv, WordsInv, MadeInv, [Next]_vars PROVE Inv'
    OBVIOUS
  <2>1. ConversationInv'
    BY ConversationStep
  <2>2. WordsInv'
    BY WordsStep
  <2>3. MadeInv'
    BY MadeStep
  <2> QED BY <2>1, <2>2, <2>3
<1>3. Inv => NothingLost
  BY InvWordsKept, InvReturns DEF NothingLost
<1> QED BY <1>1, <1>2, <1>3, PTL DEF Spec
================================================================================
